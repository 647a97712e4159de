-------------------------------- MODULE WalkTree --------------------------------
(***************************************************************************)
(* IsoReader::walk_dir (core/src/lib.rs): the recursive directory walk that *)
(* walk, walk_joliet and walk_session start from a root extent.  Every      *)
(* activation of the recursive function is a frame of `stack`; the walk     *)
(* lists entries in `out` and keeps the set of directory lbas `visited`.    *)
(* What read_dir answers for an extent is a parameter (`img`): any answer a *)
(* damaged image can give.                                                  *)
(***************************************************************************)
EXTENDS Naturals, Sequences

CONSTANTS Names,         \* decoded file names
          NoName,        \* the empty name: what iso_name makes of non-UTF-8 bytes
          Lbas, Sizes,   \* logical block addresses, and directory sizes in sectors
          Root,          \* the root directory's extent
          MaxWalkDepth,  \* MAX_WALK_DEPTH
          Images         \* the images walked

Extent == Lbas \X Sizes

(* A directory record, as far as a walk looks at it.                        *)
DirRecord == [name : Names, dir : BOOLEAN, lba : Lbas, size : Sizes]

(* read_dir's answer: the records, or an error.  "eof" is the I/O error     *)
(* UnexpectedEof, "limit" a size over MAX_DIR_SIZE, and "bad" a BadDirRecord *)
(* or an I/O error of another kind, which every caller treats alike.        *)
Errors  == {"eof", "bad", "limit"}
Outcome == [tag : {"ok"} \union Errors, recs : Seq(DirRecord)]

ASSUME NameAssumption  == NoName \in Names
ASSUME RootAssumption  == Root \in Extent
ASSUME DepthAssumption == MaxWalkDepth \in Nat
ASSUME ImageAssumption == \A im \in Images : im \in [Extent -> Outcome]

VARIABLES img,       \* the image, fixed
          pc,        \* "enter": the top activation was just called, "list": it
                     \* iterates its records; or how the walk ended
          stack,     \* the activations of walk_dir, innermost last
          visited,   \* lbas of the directory extents entered so far
          out,       \* the WalkEntry list
          listing    \* history: lba |-> records, for the extents read
vars == <<img, pc, stack, visited, out, listing>>

(* `at` is the iterator's position in the records read_dir returned.        *)
Frame == [lba : Lbas, size : Sizes, prefix : Seq(Names),
          recs : Seq(DirRecord), at : Nat \ {0}]
WalkEntry == [path : Seq(Names), depth : Nat, rec : DirRecord]

Top   == stack[Len(stack)]
WithTop(frame) == [stack EXCEPT ![Len(stack)] = frame]
Below == SubSeq(stack, 1, Len(stack) - 1)
Depth == Len(stack) - 1

(* Mutant: the iterator starts before the first record.                      *)
ActivationEarly(lba, size, prefix) ==
  [lba |-> lba, size |-> size, prefix |-> prefix, recs |-> <<>>, at |-> 0]

Activation(lba, size, prefix) ==
  [lba |-> lba, size |-> size, prefix |-> prefix, recs |-> <<>>, at |-> 1]

(* format!("{prefix}/{name}"), with no slash after an empty prefix.  The    *)
(* empty path is that of the root and of an entry without a name in it.     *)
Join(prefix, name) ==
  IF prefix = <<>> /\ name = NoName THEN <<>> ELSE Append(prefix, name)

TypeOK ==
  /\ img \in [Extent -> Outcome]
  /\ pc \in {"enter", "list", "ok"} \union Errors
  /\ stack \in Seq(Frame)
  /\ pc \in {"enter", "list"} => stack # <<>>
  /\ visited \in SUBSET Lbas
  /\ out \in Seq(WalkEntry)
  /\ DOMAIN listing \subseteq Lbas
  /\ \A l \in DOMAIN listing : listing[l] \in Seq(DirRecord)

--------------------------------------------------------------------------------

(* walk, walk_joliet, walk_session: the first call of walk_dir.             *)
Init ==
  /\ img \in Images
  /\ pc = "enter"
  /\ stack = <<Activation(Root[1], Root[2], <<>>)>>
  /\ visited = {}
  /\ out = <<>>
  /\ listing = <<>>

(* The top activation returns Ok to the activation that called it.          *)
ReturnOk ==
  /\ stack' = Below
  /\ pc' = IF Len(stack) = 1 THEN "ok" ELSE "list"

(* The extent was entered before: return at once.                           *)
EnterSeen ==
  /\ pc = "enter"
  /\ Top.lba \in visited
  /\ ReturnOk
  /\ UNCHANGED <<img, visited, out, listing>>

(* Mutant: the extent is checked but never remembered.                      *)
EnterNewForgetful ==
  /\ pc = "enter"
  /\ Top.lba \notin visited
  /\ UNCHANGED <<img, visited, out>>

(* What the other ways into walk_dir share: the lba is now visited.         *)
EnterNew ==
  /\ pc = "enter"
  /\ Top.lba \notin visited
  /\ visited' = visited \union {Top.lba}
  /\ UNCHANGED <<img, out>>

(* Mutant: too deep a directory is left out in silence.                      *)
EnterTooDeepSilent ==
  /\ EnterNew
  /\ Depth > MaxWalkDepth
  /\ ReturnOk
  /\ UNCHANGED listing

EnterTooDeep ==
  /\ EnterNew
  /\ Depth > MaxWalkDepth
  /\ pc' = "limit"
  /\ UNCHANGED <<stack, listing>>

ReadDir == img[<<Top.lba, Top.size>>]

EnterRead ==
  /\ EnterNew
  /\ Depth <= MaxWalkDepth
  /\ ReadDir.tag = "ok"
  /\ stack' = WithTop([Top EXCEPT !.recs = ReadDir.recs])
  /\ listing' = [l \in DOMAIN listing \union {Top.lba} |->
                   IF l = Top.lba THEN ReadDir.recs ELSE listing[l]]
  /\ pc' = "list"

(* Mutant: an unreadable subdirectory fails the walk.                        *)
EnterEofFails ==
  /\ EnterNew
  /\ Depth <= MaxWalkDepth
  /\ ReadDir.tag = "eof"
  /\ pc' = "eof"
  /\ UNCHANGED <<stack, listing>>

(* Mutant: the error is swallowed one level too far out, so that the caller *)
(* of the failed activation does not list the rest of its own records.      *)
EnterEofSkipsSiblings ==
  /\ EnterNew
  /\ Depth <= MaxWalkDepth
  /\ ReadDir.tag = "eof"
  /\ stack' = SubSeq(stack, 1, Len(stack) - 2)
  /\ pc' = IF Len(stack) = 1 THEN "eof" ELSE IF Len(stack) = 2 THEN "ok" ELSE "list"
  /\ UNCHANGED listing

(* The caller of the failed activation swallows an UnexpectedEof; the root  *)
(* has no such caller.                                                      *)
EnterEof ==
  /\ EnterNew
  /\ Depth <= MaxWalkDepth
  /\ ReadDir.tag = "eof"
  /\ stack' = Below
  /\ pc' = IF Len(stack) = 1 THEN "eof" ELSE "list"
  /\ UNCHANGED listing

(* Mutant: a failed read is tried again, for ever.                           *)
EnterFailRetries ==
  /\ pc = "enter"
  /\ Top.lba \notin visited
  /\ Depth <= MaxWalkDepth
  /\ ReadDir.tag \in {"bad", "limit"}
  /\ UNCHANGED vars

(* Any other error is passed on by every caller.                            *)
EnterFail ==
  /\ EnterNew
  /\ Depth <= MaxWalkDepth
  /\ ReadDir.tag \in {"bad", "limit"}
  /\ pc' = ReadDir.tag
  /\ UNCHANGED <<stack, listing>>

Record == Top.recs[Top.at]

Emit == out' = Append(out, [path  |-> Join(Top.prefix, Record.name),
                            depth |-> Depth,
                            rec   |-> Record])

Advanced == WithTop([Top EXCEPT !.at = @ + 1])

ListFile ==
  /\ pc = "list"
  /\ Top.at <= Len(Top.recs)
  /\ ~Record.dir
  /\ Emit
  /\ stack' = Advanced
  /\ UNCHANGED <<img, pc, visited, listing>>

(* Mutant: the subdirectory is walked with its parent's prefix.              *)
ListDirFlat ==
  /\ pc = "list"
  /\ Top.at <= Len(Top.recs)
  /\ Record.dir
  /\ Emit
  /\ stack' = Append(Advanced, Activation(Record.lba, Record.size, Top.prefix))
  /\ pc' = "enter"
  /\ UNCHANGED <<img, visited, listing>>

(* A directory is listed, then walk_dir is called for it.                   *)
ListDir ==
  /\ pc = "list"
  /\ Top.at <= Len(Top.recs)
  /\ Record.dir
  /\ Emit
  /\ stack' = Append(Advanced,
                     Activation(Record.lba, Record.size, Join(Top.prefix, Record.name)))
  /\ pc' = "enter"
  /\ UNCHANGED <<img, visited, listing>>

Leave ==
  /\ pc = "list"
  /\ Top.at > Len(Top.recs)
  /\ ReturnOk
  /\ UNCHANGED <<img, visited, out, listing>>

Next == \/ EnterSeen \/ EnterTooDeep \/ EnterRead \/ EnterEof \/ EnterFail
        \/ ListFile \/ ListDir \/ Leave

Spec == Init /\ [][Next]_vars

(* The walk is one synchronous call: nothing stops it between two steps.    *)
FairSpec == Spec /\ WF_vars(Next)

--------------------------------------------------------------------------------

Done == pc \notin {"enter", "list"}

(* Every walk ends, cycles and shared extents included: "a crafted or       *)
(* corrupt loop terminates instead of exhausting the depth limit".  Each    *)
(* read_dir is taken to return: ReadDirEnds of DirRecords is about that.    *)
Terminates == <>Done

(* walk_dir's frames that iterate records belong to different extents: a    *)
(* cycle is never on the recursion's own path, so only MaxWalkDepth + 2     *)
(* really nested directories exhaust the depth limit.                       *)
PathAcyclic ==
  \A j, k \in 1 .. Len(stack) :
    j < k /\ (k = Len(stack) => pc = "list") => stack[j].lba # stack[k].lba

(* The frame of the directory has yet to reach the record.                  *)
Pending(l, i) ==
  \E k \in 1 .. Len(stack) :
    stack[k].lba = l /\ stack[k].recs = listing[l] /\ stack[k].at <= i

Waiting(l, i) ==
  \/ pc = "enter" /\ Top.lba = listing[l][i].lba /\ Top.size = listing[l][i].size
  \/ Pending(l, i)

DirsFollowed ==
  pc \notin Errors => \A l \in DOMAIN listing : \A i \in DOMAIN listing[l] :
             listing[l][i].dir => \/ listing[l][i].lba \in visited
                                  \/ Waiting(l, i)

RecordsListed ==
  pc \notin Errors => \A l \in DOMAIN listing : \A i \in DOMAIN listing[l] :
             Pending(l, i) \/ \E n \in DOMAIN out : out[n].rec = listing[l][i]

(* Every record read_dir gave of a directory, file or directory, is listed, *)
(* or its frame has yet to reach it; and the extent of each directory among *)
(* them was entered, or is being entered, or waits likewise.  A finished    *)
(* walk has therefore listed and entered all it read of.                    *)
NothingForgotten == DirsFollowed /\ RecordsListed

(* What makes the two inductive: the frames that iterate hold the records   *)
(* read for their lba, and an activation just called was referenced by a    *)
(* listed record or is the first one.                                       *)
Iterating(k) == k \in 1 .. Len(stack) /\ (k = Len(stack) => pc = "list")

FramesRead ==
  /\ DOMAIN listing \subseteq visited
  /\ \A k \in 1 .. Len(stack) : Iterating(k) =>
       stack[k].lba \in DOMAIN listing /\ stack[k].recs = listing[stack[k].lba]

CallReferenced ==
  pc = "enter" =>
    /\ Top.recs = <<>> /\ Top.at = 1
    /\ IF Len(stack) = 1
       THEN Top.lba = Root[1] /\ Top.size = Root[2] /\ visited = {} /\ listing = <<>>
       ELSE \E l \in DOMAIN listing : \E i \in DOMAIN listing[l] :
              /\ listing[l][i].dir
              /\ listing[l][i].lba = Top.lba /\ listing[l][i].size = Top.size

RootEntered == Root[1] \in visited \/ (pc = "enter" /\ Len(stack) = 1)

WalkInv == /\ PathAcyclic /\ DirsFollowed
           /\ FramesRead /\ CallReferenced /\ RootEntered

(* The listing is in depth-first pre-order: each entry directly follows its *)
(* directory's own entry or something inside that directory, and its path   *)
(* is that directory's path with its name added.                            *)
IsParent(p, c) ==
  /\ out[p].rec.dir
  /\ out[p].depth + 1 = out[c].depth
  /\ out[c].path = Join(out[p].path, out[c].rec.name)
  /\ \A i \in p + 1 .. c - 1 : out[i].depth >= out[c].depth

PreOrder ==
  \A c \in DOMAIN out :
    \/ out[c].depth = 0 /\ out[c].path = Join(<<>>, out[c].rec.name)
    \/ \E p \in 1 .. c - 1 : IsParent(p, c)

(* What makes PreOrder inductive: the first frame starts from the empty     *)
(* prefix, and every other frame belongs to a directory already listed one  *)
(* level up, after which nothing outside that directory was listed.         *)
EntryOf(k, p) ==
  /\ out[p].rec.dir
  /\ out[p].depth + 2 = k
  /\ out[p].path = stack[k].prefix
  /\ \A i \in p + 1 .. Len(out) : out[i].depth + 1 >= k

PathListed ==
  \A k \in 1 .. Len(stack) :
    IF k = 1 THEN stack[k].prefix = <<>> ELSE \E p \in DOMAIN out : EntryOf(k, p)

OrderInv == PreOrder /\ PathListed

(* Errors surface exactly when the code says so: an unreadable root, a      *)
(* damaged directory, an oversized one, or nesting beyond the limit; a      *)
(* dangling subdirectory never fails the walk.                              *)
OutcomeJustified ==
  /\ pc = "eof"   => listing = <<>> /\ visited = {Root[1]}
  /\ pc = "bad"   => ReadDir.tag = "bad"
  /\ pc = "limit" => \/ ReadDir.tag = "limit"
                     \/ Depth = MaxWalkDepth + 1
  /\ \A i \in DOMAIN out : out[i].depth <= MaxWalkDepth

(* What makes it inductive: an activation that iterates records lies within *)
(* the limit, and one just called at most one level beyond it.              *)
DepthBounded ==
  /\ pc = "list"  => Depth <= MaxWalkDepth
  /\ pc = "enter" => Depth <= MaxWalkDepth + 1

OutcomeInv == OutcomeJustified /\ DepthBounded

(* The walk explores the image as the abstract traversal does.              *)
Explores == INSTANCE Traversal
              WITH seen <- visited,
                   status <- IF Done THEN pc ELSE "running"
Refines == Explores!Spec

(* When the walk succeeds, every directory it names with a readable extent  *)
(* has had exactly the records of that extent listed, if the directories it *)
(* met are each referenced with one size.                                   *)
Referenced ==
  {Root} \union {<<out[i].rec.lba, out[i].rec.size>> : i \in {j \in DOMAIN out : out[j].rec.dir}}

EveryDirListed ==
  pc = "ok" /\ (\A e, g \in Referenced : e[1] = g[1] => e = g) => \A i \in DOMAIN out :
    LET r == out[i].rec
    IN  r.dir /\ img[<<r.lba, r.size>>].tag = "ok"
          => r.lba \in DOMAIN listing /\ listing[r.lba] = img[<<r.lba, r.size>>].recs

(* What proves it, at every step of a walk that has not failed: a directory *)
(* listed is entered or is the one just called; an activation just called   *)
(* is for a referenced extent; and an lba entered was read with a size it   *)
(* was referenced with.                                                     *)
DirsEntered ==
  \A i \in DOMAIN out : out[i].rec.dir =>
    out[i].rec.lba \in visited \/ (pc = "enter" /\ Top.lba = out[i].rec.lba)

CallListed == pc = "enter" => <<Top.lba, Top.size>> \in Referenced

WasRead(l) ==
  \E s \in Sizes :
    /\ <<l, s>> \in Referenced
    /\ img[<<l, s>>].tag = "ok" => l \in DOMAIN listing /\ listing[l] = img[<<l, s>>].recs

ListedInv == DirsEntered /\ CallListed /\ (pc \notin Errors => \A l \in visited : WasRead(l))
================================================================================
