------------------------------- MODULE ImageReader -------------------------------
(***************************************************************************)
(* What IsoReader (core/src/lib.rs) answers about a whole image: sectors,    *)
(* directories and walks.  WalkTree and DirRecords model the walk and the    *)
(* parsing step by step; here each is one answer, computed from the image.   *)
(***************************************************************************)
EXTENDS SystemUse

CONSTANTS SECTOR,          \* slots in a sector
          MAX_DIR_SIZE, MAX_WALK_DEPTH,
          SEPARATOR        \* between the names of a path, "/"

ASSUME SectorAssumption    == SECTOR \in Nat \ {0}
ASSUME DirSizeAssumption   == MAX_DIR_SIZE \in Nat
ASSUME SeparatorAssumption == SEPARATOR \in STRING

(* A sector is SECTOR slots: zero bytes, bytes of data, the magic number of  *)
(* a program, or a directory record.  A record stands for the chain of      *)
(* records of one file, `extra` being its later extents.  Sizes are counted *)
(* in slots.                                                                *)
Free  == [kind |-> "free"]
Bytes == [kind |-> "bytes"]
Magic == [kind |-> "magic"]

(* What an image is made of.  The area a continuation entry points to is     *)
(* told with the entry, and how many sectors it reaches over.                *)
IsText(e) == e.sig = "NM" => e.data.text \in Seq(STRING)

IsArea(area) == IsList(area) /\ \A e \in Range(area) : IsText(e)

IsSystemUse(area) ==
  /\ IsArea(area)
  /\ \A e \in Range(area) :
       e.sig = "CE" => e.data.lba \in Nat /\ e.data.sectors \in Nat /\ IsArea(e.data.area)

IsExtent(x) == x.lba \in Nat /\ x.size \in Nat

IsRecord(r) ==
  /\ {"kind", "name", "dot", "dir", "lba", "size", "su"} \subseteq DOMAIN r
  /\ r.kind = "rec" /\ r.name \in Seq(STRING) /\ r.dot \in BOOLEAN /\ r.dir \in BOOLEAN
  /\ IsExtent(r) /\ IsSystemUse(r.su)

IsSlot(s) == s \in {Free, Bytes, Magic} \/ IsRecord(s)

IsSector(s) == IsList(s) /\ Len(s) = SECTOR /\ \A x \in Range(s) : IsSlot(x)

IsTable(t) ==
  /\ t.lba \in Nat /\ t.sectors \in Nat
  /\ IsList(t.records) /\ \A r \in Range(t.records) : r.lba \in Nat

(* An older session, as open found it: the sector of its descriptor, and the *)
(* descriptors there are from it on up to the terminator, or the 4096th.  A  *)
(* "bad" one begins like a primary descriptor and is none.                  *)
Pvds(chain) == {k \in DOMAIN chain : chain[k].kind = "pvd"}

IsSession(s) ==
  /\ s.pvd \in Nat /\ IsList(s.chain) /\ Pvds(s.chain) # {}
  /\ \A k \in DOMAIN s.chain : /\ s.chain[k].kind \in {"pvd", "bad", "other"}
                               /\ k \in Pvds(s.chain) => IsExtent(s.chain[k].root)

IsImage(i) ==
  /\ {i.len, i.end, i.space, i.pvd, i.sp_skip} \subseteq Nat
  /\ \A l \in 0 .. i.end - 1 : IsSector(i.disc[l])
  /\ IsExtent(i.root) /\ (i.joliet # None => IsExtent(i.joliet))
  /\ IsList(i.older) /\ \A s \in Range(i.older) : IsSession(s)
  /\ (i.catalog # None => i.catalog \in Nat)
  /\ IsTable(i.l_table) /\ IsTable(i.m_table)
  /\ IsList(i.odd_dates) /\ IsList(i.split)

VARIABLES image,  \* the image, fixed
          bad,    \* the sectors the device fails to read
          trees   \* what the walks answer now, or None: not worked out

(* The sectors up to image.end can be read; seeking to the end says that     *)
(* there are image.len.                                                     *)
ReadTag(l) == IF l \in bad THEN "io" ELSE IF l >= image.end THEN "eof" ELSE "ok"

Slots(l) == image.disc[l]

FirstFailure(tags) ==
  LET failed == {i \in DOMAIN tags : tags[i] # "ok"}
  IN  IF failed = {} THEN "ok" ELSE tags[Min(failed)]

Lesser(m, n) == IF m < n THEN m ELSE n

SectorsOf(size) == (size + SECTOR - 1) \div SECTOR

RunTag(l, n) == FirstFailure([i \in 1 .. n |-> ReadTag(l + i - 1)])

Failed(tag) == [tag |-> tag, recs |-> <<>>]

--------------------------------------------------------------------------------
(* Directories.                                                             *)

(* The part of a sector that lies inside the directory, up to its padding.  *)
Used(l, room) ==
  LET inside == SubSeq(Slots(l), 1, Lesser(SECTOR, room))
      zeros  == {i \in DOMAIN inside : inside[i] = Free}
  IN  IF zeros = {} THEN inside ELSE SubSeq(inside, 1, Min(zeros) - 1)

(* A sector that starts with padding is never left; data is no record.      *)
ParseTag(slots) ==
  CASE slots = <<>>                               -> "hangs"
    [] \E i \in DOMAIN slots : slots[i].kind # "rec" -> "bad"
    [] OTHER                                      -> "ok"

(* The pad bytes before the first entry are dropped.                        *)
Trimmed(area) == SubSeq(area, Lesser(image.sp_skip, Len(area)) + 1, Len(area))

AreaTag(area) ==
  LET ce == continuation(area) IN IF ce = None \/ ~ce.fits THEN "ok" ELSE ReadTag(ce.lba)

Extended(area) ==
  LET ce == continuation(area) IN IF ce = None \/ ~ce.fits THEN area ELSE area \o ce.area

(* What the sectors of a directory hold.                                    *)
Chunks(lba, size) ==
  [i \in 1 .. SectorsOf(size) |-> Used(lba + i - 1, size - (i - 1) * SECTOR)]

(* The records but `.` and `..`.                                            *)
Records(chunks) ==
  Each(Pick(FlattenSeq(chunks), LAMBDA r : ~r.dot), LAMBDA r : [r EXCEPT !.su = Trimmed(@)])

(* An error ends the call, as `?` does.                                     *)
Tried(tag, listing) == IF tag # "ok" THEN Failed(tag) ELSE listing

FollowAreas(recs) ==
  Tried(FirstFailure(Each(recs, LAMBDA r : AreaTag(r.su))),
        [tag |-> "ok", recs |-> Each(recs, LAMBDA r : [r EXCEPT !.su = Extended(@)])])

Parse(chunks) == Tried(FirstFailure(Each(chunks, ParseTag)), FollowAreas(Records(chunks)))

read_dir(lba, size) ==
  IF size > MAX_DIR_SIZE THEN Failed("limit")
  ELSE Tried(RunTag(lba, SectorsOf(size)), Parse(Chunks(lba, size)))

--------------------------------------------------------------------------------
(* The walk.  `up` is a history: the directories an entry lies in, by lba;   *)
(* `skipped` collects the directories left out because of an UnexpectedEof. *)

NoName == <<>>

OrElse(name, other) == IF name = None THEN other ELSE name

NameOf(rec) == OrElse(alternate_name(rec.su), rec.name)

(* A path is one text; nothing tells a separator in a name from the others.  *)
Join(prefix, name) == IF prefix = <<>> THEN name ELSE prefix \o <<SEPARATOR>> \o name

(* The entries of a directory, listed at the path.                          *)
EntriesOf(recs, path, up) ==
  Each(recs, LAMBDA rec : [path |-> Join(path, NameOf(rec)), rec |-> rec, up |-> up])

(* The recursion is told with an agenda: `todo` has the entries that the     *)
(* calls under way still have to list, those of the innermost first.        *)
EnterWith(m, lba, path, up, listing) ==
  LET entered == [m EXCEPT !.visited = @ \union {lba}]
  IN  IF lba \in m.visited THEN m
      ELSE IF Len(up) > MAX_WALK_DEPTH THEN [entered EXCEPT !.tag = "limit"]
      ELSE IF listing.tag # "ok" THEN [entered EXCEPT !.tag = listing.tag]
      ELSE [entered EXCEPT !.todo = EntriesOf(listing.recs, path, Append(up, lba)) \o @]

walk_dir(m, lba, size, path, up) == EnterWith(m, lba, path, up, read_dir(lba, size))

(* The caller passes over an UnexpectedEof of the call.                     *)
Passed(below, e) ==
  IF below.tag = "eof" THEN [below EXCEPT !.tag = "ok", !.skipped = @ \union {e}] ELSE below

(* The next entry is listed, and a directory walked.                        *)
Visit(m) ==
  LET e      == Head(m.todo)
      listed == [m EXCEPT !.todo = Tail(@), !.out = Append(@, e)]
  IN  IF ~e.rec.dir THEN listed
      ELSE Passed(walk_dir(listed, e.rec.lba, e.rec.size, e.path, e.up), e)

(* An error, or the last entry, ends the walk.                              *)
Ended(m) == m.tag # "ok" \/ m.todo = <<>>
Advance(m) == IF Ended(m) THEN m ELSE Visit(m)

NoWalk == [tag |-> "ok", out |-> <<>>, visited |-> {}, skipped |-> {}, todo |-> <<>>]

(* A sector is walked as a directory once, for the entries that fit in one.  *)
MaxVisits == image.end * (MAX_DIR_SIZE + SECTOR)

LastOf(run) == run[CHOOSE n \in 0 .. MaxVisits : Ended(run[n]) \/ n = MaxVisits]

WalkFrom(extent) ==
  LET After[n \in Nat] ==
        IF n = 0 THEN walk_dir(NoWalk, extent.lba, extent.size, <<>>, <<>>)
        ELSE Advance(After[n - 1])
  IN  LastOf(After)

walk        == WalkFrom(image.root)
walk_joliet == WalkFrom(image.joliet)

(* The descriptors of an older session are read again before its tree; of    *)
(* each primary one the root is too, until one has an SP entry.  The tree   *)
(* walked is that of the last.                                              *)
HasRockRidge(root) ==
  /\ ReadTag(root.lba) = "ok" /\ Slots(root.lba)[1].kind = "rec"
  /\ \E e \in Range(Slots(root.lba)[1].su) : e.sig = "SP" /\ e.whole

Probed(chain) ==
  {k \in Pvds(chain) : \A i \in Pvds(chain) : i < k => ~HasRockRidge(chain[i].root)}

DescriptorTag(s, k) ==
  IF ReadTag(s.pvd + k - 1) # "ok" THEN ReadTag(s.pvd + k - 1)
  ELSE IF s.chain[k].kind = "bad" THEN "bad"
  ELSE IF k \in Probed(s.chain) THEN ReadTag(s.chain[k].root.lba) ELSE "ok"

read_volume_descriptors(s) == FirstFailure([k \in DOMAIN s.chain |-> DescriptorTag(s, k)])

root_of(s) == s.chain[Max(Pvds(s.chain))].root

WalkedAfter(tag, s) ==
  IF tag = "ok" THEN WalkFrom(root_of(s)) ELSE [NoWalk EXCEPT !.tag = tag]

walk_session(s) == WalkedAfter(read_volume_descriptors(s), s)

(* A walk reads everything again; its answer only changes with the device,   *)
(* and is worked out once for each state of it.                             *)
Walks ==
  [active |-> walk,
   joliet |-> IF image.joliet = None THEN None ELSE walk_joliet,
   older  |-> [i \in DOMAIN image.older |-> walk_session(image.older[i])]]

active == trees.active
==================================================================================
