----------------------------- MODULE WalkTreeProofs -----------------------------
(***************************************************************************)
(* Proofs about WalkTree, for every image, depth limit and address space.   *)
(***************************************************************************)
EXTENDS WalkTree, SequenceTheorems, TLAPS

USE RootAssumption, NameAssumption, DepthAssumption

(* Popping a nonempty stack keeps the frames below the top.                 *)
LEMMA Pop ==
  ASSUME NEW S, NEW s \in Seq(S), s # <<>>
  PROVE  LET b == SubSeq(s, 1, Len(s) - 1)
         IN  /\ b \in Seq(S)
             /\ Len(b) = Len(s) - 1
             /\ \A k \in 1 .. Len(b) : b[k] = s[k]
             /\ Len(s) \in Nat \ {0}
             /\ s[Len(s)] \in S
<1>1. Len(s) \in Nat \ {0} /\ \A i \in 1 .. Len(s) : s[i] \in S
  BY EmptySeq, ElementOfSeq, LenProperties
<1>2. SubSeq(s, 1, Len(s) - 1) \in Seq(S)
  BY <1>1, SubSeqProperties
<1>3. /\ Len(SubSeq(s, 1, Len(s) - 1)) = Len(s) - 1
      /\ \A k \in 1 .. Len(s) - 1 : SubSeq(s, 1, Len(s) - 1)[k] = s[k]
  BY <1>1
<1>4. s[Len(s)] \in S
  BY <1>1
<1>5. QED
  BY <1>1, <1>2, <1>3, <1>4

(* What the steps of a running walk rely on about its stack.                *)
LEMMA StackFacts ==
  ASSUME TypeOK, pc \in {"enter", "list"}
  PROVE  /\ Top \in Frame
         /\ Len(stack) \in Nat \ {0}
         /\ Below \in Seq(Frame)
         /\ Len(Below) = Len(stack) - 1
         /\ \A k \in 1 .. Len(stack) - 1 : Below[k] = stack[k]
  BY Pop, stack \in Seq(Frame), stack # <<>> DEF TypeOK, Top, Below

(* Replacing the top frame changes nothing below it.                        *)
LEMMA WithTopFacts ==
  ASSUME TypeOK, pc \in {"enter", "list"}, NEW frame \in Frame
  PROVE  /\ WithTop(frame) \in Seq(Frame)
         /\ Len(WithTop(frame)) = Len(stack)
         /\ WithTop(frame)[Len(stack)] = frame
         /\ \A k \in 1 .. Len(stack) - 1 : WithTop(frame)[k] = stack[k]
<1>1. stack \in Seq(Frame) /\ Len(stack) \in 1 .. Len(stack)
  BY StackFacts DEF TypeOK
<1>2. QED
  BY <1>1, ExceptSeq DEF WithTop

LEMMA AdvancedFacts ==
  ASSUME TypeOK, pc \in {"enter", "list"}
  PROVE  /\ Advanced \in Seq(Frame)
         /\ Len(Advanced) = Len(stack)
         /\ Advanced[Len(stack)] = [Top EXCEPT !.at = @ + 1]
         /\ \A k \in 1 .. Len(stack) - 1 : Advanced[k] = stack[k]
         /\ Advanced # <<>>
<1>1. [Top EXCEPT !.at = @ + 1] \in Frame
  BY SMTT(40), StackFacts DEF Frame
<1>2. Len(stack) # 0
  BY StackFacts
<1>3. QED
  BY <1>1, <1>2, WithTopFacts, EmptySeq DEF Advanced

(* A path stays a path, and an entry an entry, whatever the name.           *)
LEMMA JoinType ==
  ASSUME NEW prefix \in Seq(Names), NEW name \in Names
  PROVE  Join(prefix, name) \in Seq(Names)
  BY AppendProperties, EmptySeq DEF Join

LEMMA EmitType ==
  ASSUME TypeOK, pc = "list", Record \in DirRecord, Emit
  PROVE  out' \in Seq(WalkEntry)
<1>1. Join(Top.prefix, Record.name) \in Seq(Names) /\ Depth \in Nat
  BY StackFacts, JoinType DEF Frame, DirRecord, Depth
<1>2. [path |-> Join(Top.prefix, Record.name), depth |-> Depth, rec |-> Record] \in WalkEntry
  BY <1>1 DEF WalkEntry
<1>3. QED
  BY <1>2, AppendProperties DEF Emit, TypeOK

(* The extent the top activation reads is one the image answers for.        *)
LEMMA ReadDirType ==
  ASSUME TypeOK, pc \in {"enter", "list"}
  PROVE  <<Top.lba, Top.size>> \in Extent /\ ReadDir \in Outcome
<1>1. <<Top.lba, Top.size>> \in Extent
  BY StackFacts DEF Frame, Extent
<1>2. QED
  BY <1>1 DEF TypeOK, ReadDir

(* Type correctness: the walk's state keeps its shape on every image.       *)
THEOREM TypeCorrect == Spec => []TypeOK
<1>1. Init => TypeOK
  <2> SUFFICES ASSUME Init PROVE TypeOK
    OBVIOUS
  <2>1. Activation(Root[1], Root[2], <<>>) \in Frame
    BY EmptySeq DEF Activation, Frame, Extent
  <2>2. stack \in Seq(Frame) /\ stack # <<>>
    BY <2>1 DEF Init
  <2>3. listing = <<>> => DOMAIN listing = {}
    BY EmptySeq
  <2>4. QED
    BY <2>2, <2>3, ImageAssumption DEF Init, TypeOK
<1>2. TypeOK /\ [Next]_vars => TypeOK'
  <2> SUFFICES ASSUME TypeOK, [Next]_vars PROVE TypeOK'
    OBVIOUS
  <2>1. CASE EnterSeen
    <3>1. Below # <<>> \/ pc' \notin {"enter", "list"}
      BY <2>1, StackFacts DEF EnterSeen, ReturnOk
    <3>2. QED
      BY <2>1, <3>1, StackFacts DEF TypeOK, EnterSeen, ReturnOk
  <2>2. CASE EnterTooDeep
    BY <2>2, StackFacts DEF TypeOK, EnterTooDeep, EnterNew, Errors, Frame
  <2>3. CASE EnterRead
    <3>1. pc = "enter" /\ Top \in Frame /\ ReadDir.recs \in Seq(DirRecord)
      BY <2>3, StackFacts, ReadDirType DEF EnterRead, EnterNew, Outcome
    <3>2. stack' \in Seq(Frame) /\ Len(stack') = Len(stack)
      <4>1. [Top EXCEPT !.recs = ReadDir.recs] \in Frame
        BY <3>1 DEF Frame
      <4>2. QED
        BY <2>3, <3>1, <4>1, WithTopFacts DEF EnterRead
    <3>3. /\ DOMAIN listing' \subseteq Lbas
          /\ \A l \in DOMAIN listing' : listing'[l] \in Seq(DirRecord)
      BY <2>3, <3>1 DEF EnterRead, TypeOK, Frame
    <3>4. QED
      BY <2>3, <3>1, <3>2, <3>3, StackFacts DEF EnterRead, EnterNew, TypeOK, Frame
  <2>4. CASE EnterEof
    <3>1. Below # <<>> \/ pc' \notin {"enter", "list"}
      BY <2>4, StackFacts DEF EnterEof, EnterNew
    <3>2. QED
      BY <2>4, <3>1, StackFacts DEF TypeOK, EnterEof, EnterNew, Errors, Frame
  <2>5. CASE EnterFail
    BY <2>5, StackFacts DEF TypeOK, EnterFail, EnterNew, Errors, Frame
  <2>6. CASE ListFile
    <3>1. Record \in DirRecord
      BY <2>6, StackFacts, ElementOfSeq DEF ListFile, Record, Frame
    <3>2. stack' \in Seq(Frame) /\ stack' # <<>>
      BY <2>6, AdvancedFacts, StackFacts DEF ListFile
    <3>3. out' \in Seq(WalkEntry)
      BY <2>6, <3>1, EmitType DEF ListFile
    <3>4. QED
      BY <2>6, <3>2, <3>3 DEF ListFile, TypeOK
  <2>7. CASE ListDir
    <3>1. Record \in DirRecord
      BY <2>7, StackFacts, ElementOfSeq DEF ListDir, Record, Frame
    <3>2. Advanced \in Seq(Frame)
      BY <2>7, AdvancedFacts DEF ListDir
    <3>3. Activation(Record.lba, Record.size, Join(Top.prefix, Record.name)) \in Frame
      BY <2>7, <3>1, StackFacts, JoinType DEF ListDir, Activation, Frame, DirRecord
    <3>4. stack' \in Seq(Frame) /\ stack' # <<>>
      BY <2>7, <3>2, <3>3, AppendProperties, EmptySeq DEF ListDir
    <3>5. out' \in Seq(WalkEntry)
      BY <2>7, <3>1, EmitType DEF ListDir
    <3>6. QED
      BY <2>7, <3>4, <3>5 DEF ListDir, TypeOK
  <2>8. CASE Leave
    <3>1. Below # <<>> \/ pc' \notin {"enter", "list"}
      BY <2>8, StackFacts DEF Leave, ReturnOk
    <3>2. QED
      BY <2>8, <3>1, StackFacts DEF TypeOK, Leave, ReturnOk
  <2>9. CASE UNCHANGED vars
    BY <2>9 DEF TypeOK, vars
  <2>10. QED
    BY <2>1, <2>2, <2>3, <2>4, <2>5, <2>6, <2>7, <2>8, <2>9 DEF Next
<1>3. QED
  BY <1>1, <1>2, PTL DEF Spec

(* The walk's invariant: no extent twice on the recursion's path, and no    *)
(* directory record of a listed directory forgotten.                        *)
LEMMA WalkInvInit == Init => WalkInv
<1> SUFFICES ASSUME Init PROVE WalkInv
  OBVIOUS
<1>1. Len(stack) = 1 /\ Top = Activation(Root[1], Root[2], <<>>) /\ DOMAIN listing = {}
  BY EmptySeq DEF Init, Top
<1>2. QED
  BY <1>1
  DEF Init, WalkInv, PathAcyclic, DirsFollowed, Iterating, FramesRead,
      CallReferenced, RootEntered, Activation

(* One level up: an activation that returns leaves its caller iterating.    *)
LEMMA ReturnKeeps ==
  ASSUME TypeOK, WalkInv, pc \in {"enter", "list"},
         stack' = Below, pc' = IF Len(stack) = 1 THEN pc' ELSE "list",
         pc' # "enter",
         UNCHANGED listing,
         visited' = visited \union {Top.lba},
         pc = "list" => Top.at > Len(Top.recs)
  PROVE  WalkInv'
<1>1. /\ Len(stack') = Len(stack) - 1
      /\ Len(stack) \in Nat \ {0}
      /\ \A k \in 1 .. Len(stack) - 1 : stack'[k] = stack[k]
  BY StackFacts
<1>2. PathAcyclic'
  BY SMTT(40), <1>1 DEF WalkInv, PathAcyclic
<1>3. FramesRead'
  BY <1>1 DEF WalkInv, FramesRead, Iterating
<1>4. DirsFollowed'
  <2> SUFFICES ASSUME NEW l \in DOMAIN listing, NEW i \in DOMAIN listing[l],
                      listing[l][i].dir, listing[l][i].lba \notin visited'
               PROVE  Waiting(l, i)'
    BY DEF DirsFollowed
  <2>1. i \in 1 .. Len(listing[l])
    BY DEF TypeOK
  <2>2. Waiting(l, i)
    BY DEF WalkInv, DirsFollowed, Errors
  <2>3. PICK k \in 1 .. Len(stack) :
          stack[k].lba = l /\ stack[k].recs = listing[l] /\ stack[k].at <= i
    BY <2>2 DEF Waiting, Pending
  <2>4. k # Len(stack)
    <3>1. CASE pc = "enter"
      BY <3>1, <2>1, <2>3 DEF WalkInv, CallReferenced, Top
    <3>2. CASE pc = "list"
      BY <3>2, <2>1, <2>3, StackFacts DEF Top, Frame
    <3>3. QED
      BY <3>1, <3>2
  <2>5. k \in 1 .. Len(stack') /\ stack'[k] = stack[k]
    BY <1>1, <2>4
  <2>6. QED
    BY <2>3, <2>5 DEF Waiting, Pending
<1>5. CallReferenced'
  BY DEF CallReferenced
<1>6. RootEntered'
  BY DEF WalkInv, RootEntered, CallReferenced
<1>7. QED
  BY <1>2, <1>3, <1>4, <1>5, <1>6 DEF WalkInv

(* A listed record leaves its frame iterating, one record further.          *)
LEMMA AdvanceFacts ==
  ASSUME TypeOK, WalkInv, pc = "list", Top.at <= Len(Top.recs)
  PROVE  /\ Top.lba \in DOMAIN listing
         /\ Top.recs = listing[Top.lba]
         /\ Top.at \in DOMAIN Top.recs
         /\ Record = listing[Top.lba][Top.at]
         /\ \A k \in 1 .. Len(stack) :
              /\ Advanced[k].lba = stack[k].lba
              /\ Advanced[k].recs = stack[k].recs
              /\ Advanced[k].at = IF k = Len(stack) THEN Top.at + 1 ELSE stack[k].at
<1>1. Iterating(Len(stack))
  BY StackFacts DEF Iterating
<1>2. Top.lba \in DOMAIN listing /\ Top.recs = listing[Top.lba]
  BY <1>1, StackFacts DEF WalkInv, FramesRead, Top
<1>3. Top.at \in DOMAIN Top.recs
  BY StackFacts DEF Frame
<1>4. ASSUME NEW k \in 1 .. Len(stack)
      PROVE  /\ Advanced[k].lba = stack[k].lba
             /\ Advanced[k].recs = stack[k].recs
             /\ Advanced[k].at = IF k = Len(stack) THEN Top.at + 1 ELSE stack[k].at
  <2>1. CASE k = Len(stack)
    BY <2>1, AdvancedFacts, StackFacts DEF Top, Frame
  <2>2. CASE k # Len(stack)
    BY <2>2, AdvancedFacts, StackFacts
  <2>3. QED
    BY <2>1, <2>2
<1>5. QED
  BY <1>2, <1>3, <1>4 DEF Record

(* The inductive invariant of the walk holds in every state of it.           *)
THEOREM WalkInvariant == Spec => []WalkInv
<1>1. TypeOK /\ WalkInv /\ [Next]_vars => WalkInv'
  <2> SUFFICES ASSUME TypeOK, WalkInv, [Next]_vars PROVE WalkInv'
    OBVIOUS
  <2>1. CASE EnterSeen
    <3>1. visited' = visited \union {Top.lba}
      BY <2>1 DEF EnterSeen
    <3>2. QED
      BY <2>1, <3>1, ReturnKeeps DEF EnterSeen, ReturnOk
  <2>2. CASE EnterTooDeep
    BY <2>2, StackFacts
    DEF EnterTooDeep, EnterNew, WalkInv, PathAcyclic, DirsFollowed, FramesRead,
        Iterating, CallReferenced, RootEntered, Errors, Top
  <2>3. CASE EnterRead
    <3> DEFINE new == Top.lba
    <3>1. /\ pc = "enter" /\ pc' = "list" /\ new \notin visited
          /\ visited' = visited \union {new}
          /\ Top.recs = <<>> /\ Top.at = 1
      BY <2>3 DEF EnterRead, EnterNew, WalkInv, CallReferenced
    <3>2. /\ Len(stack') = Len(stack)
          /\ stack'[Len(stack)] = [Top EXCEPT !.recs = ReadDir.recs]
          /\ \A k \in 1 .. Len(stack) - 1 : stack'[k] = stack[k]
      <4>1. [Top EXCEPT !.recs = ReadDir.recs] \in Frame
        BY <3>1, StackFacts, ReadDirType DEF Frame, Outcome
      <4>2. QED
        BY <2>3, <3>1, <4>1, WithTopFacts DEF EnterRead
    <3>3. /\ stack'[Len(stack)].lba = new
          /\ stack'[Len(stack)].recs = ReadDir.recs
          /\ stack'[Len(stack)].at = 1
      BY <3>1, <3>2, StackFacts DEF Frame
    <3>4. /\ DOMAIN listing' = DOMAIN listing \union {new}
          /\ listing'[new] = ReadDir.recs
          /\ \A l \in DOMAIN listing : listing'[l] = listing[l] /\ l # new
      BY <2>3, <3>1 DEF EnterRead, WalkInv, FramesRead
    <3>5. FramesRead'
      <4> SUFFICES ASSUME NEW k \in 1 .. Len(stack)
                   PROVE  /\ stack'[k].lba \in DOMAIN listing'
                          /\ stack'[k].recs = listing'[stack'[k].lba]
        BY <3>1, <3>2, <3>4 DEF FramesRead, WalkInv
      <4>1. CASE k = Len(stack)
        BY <3>3, <3>4, <4>1
      <4>2. CASE k # Len(stack)
        <5>1. Iterating(k) /\ stack'[k] = stack[k]
          BY <3>2, <4>2, StackFacts, <3>1 DEF Iterating
        <5>2. QED
          BY <3>4, <5>1 DEF WalkInv, FramesRead
      <4>3. QED
        BY <4>1, <4>2
    <3>6. PathAcyclic'
      <4> SUFFICES ASSUME NEW j \in 1 .. Len(stack), NEW k \in 1 .. Len(stack), j < k
                   PROVE  stack'[j].lba # stack'[k].lba
        BY <3>1, <3>2 DEF PathAcyclic
      <4>1. stack[j].lba \in visited /\ stack'[j] = stack[j]
        BY <3>2, StackFacts DEF WalkInv, FramesRead, Iterating
      <4>2. CASE k = Len(stack)
        BY <3>1, <3>3, <4>1, <4>2
      <4>3. CASE k # Len(stack)
        BY <3>2, <4>1, <4>3, StackFacts DEF WalkInv, PathAcyclic
      <4>4. QED
        BY <4>2, <4>3
    <3>7. DirsFollowed'
      <4> SUFFICES ASSUME NEW l \in DOMAIN listing', NEW i \in DOMAIN listing'[l],
                          listing'[l][i].dir, listing'[l][i].lba \notin visited'
                   PROVE  Waiting(l, i)'
        BY DEF DirsFollowed
      <4>1. CASE l = new
        <5>1. i \in 1 .. Len(ReadDir.recs)
          BY <3>1, <3>4, <4>1, ReadDirType DEF Outcome
        <5>2. stack'[Len(stack)].lba = l /\ stack'[Len(stack)].recs = listing'[l]
              /\ stack'[Len(stack)].at <= i
          BY <3>3, <3>4, <4>1, <5>1
        <5>3. Len(stack) \in 1 .. Len(stack')
          BY <3>1, <3>2, StackFacts
        <5>4. QED
          BY <5>2, <5>3 DEF Waiting, Pending
      <4>2. CASE l # new
        <5>1. l \in DOMAIN listing /\ listing'[l] = listing[l]
          BY <3>4, <4>2
        <5>2. i \in 1 .. Len(listing[l])
          BY <5>1 DEF TypeOK
        <5>3. Waiting(l, i) /\ listing[l][i].lba # new
          BY <3>1, <5>1 DEF WalkInv, DirsFollowed, Errors
        <5>4. PICK k \in 1 .. Len(stack) :
                stack[k].lba = l /\ stack[k].recs = listing[l] /\ stack[k].at <= i
          BY <5>3 DEF Waiting, Pending
        <5>5. k # Len(stack)
          BY <4>2, <5>4 DEF Top
        <5>6. k \in 1 .. Len(stack') /\ stack'[k] = stack[k]
          BY <3>1, <3>2, <5>5, StackFacts
        <5>7. QED
          BY <5>1, <5>4, <5>6 DEF Waiting, Pending
      <4>3. QED
        BY <4>1, <4>2
    <3>8. CallReferenced' /\ RootEntered'
      BY <3>1 DEF WalkInv, CallReferenced, RootEntered
    <3>9. QED
      BY <3>5, <3>6, <3>7, <3>8 DEF WalkInv
  <2>4. CASE EnterEof
    BY <2>4, ReturnKeeps DEF EnterEof, EnterNew
  <2>5. CASE EnterFail
    BY <2>5, StackFacts
    DEF EnterFail, EnterNew, WalkInv, PathAcyclic, DirsFollowed, FramesRead,
        Iterating, CallReferenced, RootEntered, Errors, Top
  <2>6. CASE ListFile
    <3>1. /\ pc = "list" /\ pc' = "list" /\ ~Record.dir
          /\ stack' = Advanced /\ Len(stack') = Len(stack)
          /\ UNCHANGED <<visited, listing>>
      BY <2>6, AdvancedFacts DEF ListFile
    <3>2. PathAcyclic' /\ FramesRead'
      BY <2>6, <3>1, AdvanceFacts, StackFacts
      DEF ListFile, WalkInv, PathAcyclic, FramesRead, Iterating
    <3>3. DirsFollowed'
      <4> SUFFICES ASSUME NEW l \in DOMAIN listing, NEW i \in DOMAIN listing[l],
                          listing[l][i].dir, listing[l][i].lba \notin visited
                   PROVE  Waiting(l, i)'
        BY <3>1 DEF DirsFollowed
      <4>1. i \in 1 .. Len(listing[l])
        BY DEF TypeOK
      <4>2. PICK k \in 1 .. Len(stack) :
              stack[k].lba = l /\ stack[k].recs = listing[l] /\ stack[k].at <= i
        BY <3>1 DEF WalkInv, DirsFollowed, Waiting, Pending, Errors
      <4>3. k = Len(stack) => Top.at # i /\ Top.at <= i /\ Top.at \in Nat
        BY <2>6, <3>1, <4>2, AdvanceFacts, StackFacts DEF ListFile, Top, Frame
      <4>4. stack'[k].at <= i
        BY <2>6, <3>1, <4>1, <4>2, <4>3, AdvanceFacts DEF ListFile
      <4>5. stack'[k].lba = l /\ stack'[k].recs = listing[l]
        BY <2>6, <3>1, <4>2, AdvanceFacts DEF ListFile
      <4>6. QED
        BY <3>1, <4>2, <4>4, <4>5 DEF Waiting, Pending
    <3>4. QED
      BY <3>1, <3>2, <3>3 DEF WalkInv, CallReferenced, RootEntered
  <2>7. CASE ListDir
    <3>1. /\ pc = "list" /\ pc' = "enter" /\ Record.dir
          /\ Len(stack) \in Nat \ {0}
          /\ Len(stack') = Len(stack) + 1
          /\ stack'[Len(stack) + 1] =
               Activation(Record.lba, Record.size, Join(Top.prefix, Record.name))
          /\ \A k \in 1 .. Len(stack) : stack'[k] = Advanced[k]
          /\ UNCHANGED <<visited, listing>>
      BY <2>7, AdvancedFacts, StackFacts, AppendProperties DEF ListDir
    <3>2. /\ Top' = stack'[Len(stack) + 1]
          /\ Top'.lba = Record.lba /\ Top'.size = Record.size
          /\ Top'.recs = <<>> /\ Top'.at = 1
      BY <3>1 DEF Top, Activation
    <3>3. PathAcyclic' /\ FramesRead'
      BY SMTT(40), <2>7, <3>1, AdvanceFacts, StackFacts
      DEF ListDir, WalkInv, PathAcyclic, FramesRead, Iterating
    <3>4. DirsFollowed'
      <4> SUFFICES ASSUME NEW l \in DOMAIN listing, NEW i \in DOMAIN listing[l],
                          listing[l][i].dir, listing[l][i].lba \notin visited
                   PROVE  Waiting(l, i)'
        BY <3>1 DEF DirsFollowed
      <4>1. i \in 1 .. Len(listing[l])
        BY DEF TypeOK
      <4>2. PICK k \in 1 .. Len(stack) :
              stack[k].lba = l /\ stack[k].recs = listing[l] /\ stack[k].at <= i
        BY <3>1 DEF WalkInv, DirsFollowed, Waiting, Pending, Errors
      <4>3. CASE k = Len(stack) /\ Top.at = i
        BY <2>7, <3>1, <3>2, <4>2, <4>3 DEF Waiting, Pending, Top, Record
      <4>4. CASE ~ (k = Len(stack) /\ Top.at = i)
        <5>1. k = Len(stack) => Top.at # i /\ Top.at <= i /\ Top.at \in Nat
          BY <3>1, <4>2, <4>4, StackFacts DEF Top, Frame
        <5>2. stack'[k].at <= i
          BY SMTT(40), <2>7, <3>1, <4>1, <4>2, <5>1, AdvanceFacts DEF ListDir
        <5>3. stack'[k].lba = l /\ stack'[k].recs = listing[l]
          BY <2>7, <3>1, <4>2, AdvanceFacts DEF ListDir
        <5>4. k \in 1 .. Len(stack')
          BY <3>1
        <5>5. QED
          BY <3>1, <4>2, <5>2, <5>3, <5>4 DEF Waiting, Pending
      <4>5. QED
        BY <4>3, <4>4
    <3>5. CallReferenced'
      <4>1. /\ Top.lba \in DOMAIN listing /\ Top.at \in DOMAIN listing[Top.lba]
            /\ Record = listing[Top.lba][Top.at]
        BY <2>7, AdvanceFacts DEF ListDir
      <4>2. QED
        BY <3>1, <3>2, <4>1 DEF CallReferenced
    <3>6. QED
      BY <3>1, <3>3, <3>4, <3>5 DEF WalkInv, RootEntered
  <2>8. CASE Leave
    <3>1. Top.lba \in visited
      BY <2>8, StackFacts DEF Leave, WalkInv, FramesRead, Iterating, Top
    <3>2. visited' = visited \union {Top.lba}
      BY <2>8, <3>1 DEF Leave
    <3>3. QED
      BY <2>8, <3>2, ReturnKeeps DEF Leave, ReturnOk
  <2>9. CASE UNCHANGED vars
    BY <2>9 DEF vars, WalkInv, PathAcyclic, DirsFollowed, Waiting, Pending, FramesRead,
                Iterating, CallReferenced, RootEntered, Top
  <2>10. QED
    BY <2>1, <2>2, <2>3, <2>4, <2>5, <2>6, <2>7, <2>8, <2>9 DEF Next
<1>2. QED
  BY <1>1, WalkInvInit, TypeCorrect, PTL DEF Spec

(* On every image the walk refines the abstract traversal: it takes only    *)
(* referenced extents, reads none twice, and returns Ok only when every     *)
(* extent referenced by what it listed was entered.                         *)
LEMMA ReferencedMembers ==
  ASSUME NEW e
  PROVE  e \in Explores!Referenced
           <=> \/ e = Root
               \/ \E l \in DOMAIN listing : \E i \in DOMAIN listing[l] :
                    listing[l][i].dir /\ e = <<listing[l][i].lba, listing[l][i].size>>
  BY DEF Explores!Referenced

LEMMA CallInFrontier ==
  ASSUME TypeOK, WalkInv, pc = "enter", Top.lba \notin visited
  PROVE  <<Top.lba, Top.size>> \in Explores!Frontier
<1> DEFINE e == <<Top.lba, Top.size>>
<1>1. Len(stack) = 1 => e = Root
  BY DEF WalkInv, CallReferenced, Extent
<1>2. e \in Explores!Referenced
  BY <1>1, ReferencedMembers DEF WalkInv, CallReferenced
<1>3. QED
  BY <1>2 DEF Explores!Frontier

(* The walk with its stack and its set of sectors implements the abstract    *)
(* traversal of the directories.                                            *)
THEOREM WalkRefinesTraversal == Spec => Refines
<1>1. Init => Explores!Init
  BY DEF Init, Explores!Init, Done
<1>2. TypeOK /\ WalkInv /\ WalkInv' /\ [Next]_vars => [Explores!Next]_(Explores!vars)
  <2> SUFFICES ASSUME TypeOK, WalkInv, WalkInv', [Next]_vars
               PROVE  [Explores!Next]_(Explores!vars)
    OBVIOUS
  <2> DEFINE e == <<Top.lba, Top.size>>
  <2>1. CASE EnterSeen
    <3>1. Len(stack) # 1
      BY <2>1 DEF EnterSeen, WalkInv, CallReferenced
    <3>2. QED
      BY <2>1, <3>1 DEF EnterSeen, ReturnOk, Explores!vars, Done
  <2>2. CASE EnterTooDeep
    <3>1. e \in Explores!Frontier
      BY <2>2, CallInFrontier DEF EnterTooDeep, EnterNew
    <3>2. Explores!Abort(e)
      BY <2>2 DEF EnterTooDeep, EnterNew, Explores!Abort, Done
    <3>3. QED
      BY <2>2, <3>1, <3>2 DEF EnterTooDeep, EnterNew, Explores!Next, Done
  <2>3. CASE EnterRead
    <3>1. e \in Explores!Frontier
      BY <2>3, CallInFrontier DEF EnterRead, EnterNew
    <3>2. Explores!List(e)
      BY <2>3 DEF EnterRead, EnterNew, Explores!List, ReadDir, Done
    <3>3. QED
      BY <2>3, <3>1, <3>2 DEF EnterRead, EnterNew, Explores!Next, Done
  <2>4. CASE EnterEof
    <3>1. e \in Explores!Frontier
      BY <2>4, CallInFrontier DEF EnterEof, EnterNew
    <3>2. Len(stack) = 1 <=> e = Root /\ visited = {}
      <4>1. CASE Len(stack) = 1
        BY <2>4, <4>1 DEF EnterEof, EnterNew, WalkInv, CallReferenced, Extent
      <4>2. CASE Len(stack) # 1
        BY <2>4, <4>2 DEF EnterEof, EnterNew, WalkInv, RootEntered
      <4>3. QED
        BY <4>1, <4>2
    <3>3. Explores!Dangle(e)
      BY <2>4, <3>2 DEF EnterEof, EnterNew, Explores!Dangle, ReadDir, Done
    <3>4. QED
      BY <2>4, <3>1, <3>3 DEF EnterEof, EnterNew, Explores!Next, Done
  <2>5. CASE EnterFail
    <3>1. e \in Explores!Frontier
      BY <2>5, CallInFrontier DEF EnterFail, EnterNew
    <3>2. Explores!Abort(e)
      BY <2>5 DEF EnterFail, EnterNew, Explores!Abort, ReadDir, Done
    <3>3. QED
      BY <2>5, <3>1, <3>2 DEF EnterFail, EnterNew, Explores!Next, Done
  <2>6. CASE ListFile
    BY <2>6 DEF ListFile, Explores!vars, Done
  <2>7. CASE ListDir
    BY <2>7 DEF ListDir, Explores!vars, Done
  <2>8. CASE Leave
    <3>1. CASE Len(stack) = 1
      <4>1. pc = "list" /\ pc' = "ok" /\ stack' = Below
            /\ UNCHANGED <<img, visited, listing>>
        BY <2>8, <3>1 DEF Leave, ReturnOk
      <4>2. Len(stack') = 0
        BY <3>1, <4>1, StackFacts
      <4>3. \A l \in DOMAIN listing : \A i \in DOMAIN listing[l] :
              listing[l][i].dir => listing[l][i].lba \in visited
        BY <4>1, <4>2 DEF WalkInv, DirsFollowed, Waiting, Pending, Errors
      <4>4. Root[1] \in visited
        BY <4>1 DEF WalkInv, RootEntered
      <4>5. Explores!Frontier = {}
        BY <4>3, <4>4, ReferencedMembers DEF Explores!Frontier
      <4>6. QED
        BY <4>1, <4>5 DEF Explores!Next, Explores!Finish, Done
    <3>2. CASE Len(stack) # 1
      BY <2>8, <3>2 DEF Leave, ReturnOk, Explores!vars, Done
    <3>3. QED
      BY <3>1, <3>2
  <2>9. CASE UNCHANGED vars
    BY <2>9 DEF vars, Explores!vars, Done
  <2>10. QED
    BY <2>1, <2>2, <2>3, <2>4, <2>5, <2>6, <2>7, <2>8, <2>9 DEF Next
<1>3. QED
  BY <1>1, <1>2, TypeCorrect, WalkInvariant, PTL DEF Spec, Refines, Explores!Spec

(* The parts of the invariant that the runs check by name.                  *)
THEOREM PathStaysAcyclic == Spec => []PathAcyclic
  BY WalkInvariant, PTL DEF WalkInv

(* What Emit appends: the listed entry goes last, the others stay in place. *)
LEMMA EmitFacts ==
  ASSUME TypeOK, pc = "list", Emit
  PROVE  /\ Len(out) \in Nat
         /\ Len(out') = Len(out) + 1
         /\ \A i \in 1 .. Len(out) : out'[i] = out[i]
         /\ out'[Len(out) + 1] = [path  |-> Join(Top.prefix, Record.name),
                                  depth |-> Depth,
                                  rec   |-> Record]
         /\ DOMAIN out = 1 .. Len(out) /\ DOMAIN out' = 1 .. Len(out) + 1
  BY DEF Emit, TypeOK

(* Steps that list nothing: a record that waited for its frame does so      *)
(* still, unless the frame has passed it.                                   *)
LEMMA PoppedListed ==
  ASSUME TypeOK, WalkInv, RecordsListed, pc \in {"enter", "list"},
         stack' = Below, UNCHANGED <<listing, out>>,
         pc = "list" => Top.at > Len(Top.recs)
  PROVE  RecordsListed'
<1>1. /\ Len(stack') = Len(stack) - 1
      /\ Len(stack) \in Nat \ {0}
      /\ \A k \in 1 .. Len(stack) - 1 : stack'[k] = stack[k]
  BY StackFacts
<1>2. SUFFICES ASSUME NEW l \in DOMAIN listing, NEW i \in DOMAIN listing[l], Pending(l, i)
               PROVE  Pending(l, i)'
  BY DEF RecordsListed, Errors
<1>3. i \in 1 .. Len(listing[l])
  BY DEF TypeOK
<1>4. PICK k \in 1 .. Len(stack) :
        stack[k].lba = l /\ stack[k].recs = listing[l] /\ stack[k].at <= i
  BY <1>2 DEF Pending
<1>5. k # Len(stack)
  <2>1. CASE pc = "enter"
    BY <2>1, <1>3, <1>4 DEF WalkInv, CallReferenced, Top
  <2>2. CASE pc = "list"
    BY <2>2, <1>3, <1>4, StackFacts DEF Top, Frame
  <2>3. QED
    BY <2>1, <2>2
<1>6. k \in 1 .. Len(stack') /\ stack'[k] = stack[k]
  BY <1>1, <1>5
<1>7. QED
  BY <1>4, <1>6 DEF Pending

(* A step that lists a record: that one is listed now, the others of its    *)
(* directory wait as they did.                                              *)
LEMMA EmittedListed ==
  ASSUME TypeOK, WalkInv, RecordsListed, pc = "list", Top.at <= Len(Top.recs), Emit,
         UNCHANGED listing,
         Len(stack') \in Nat, Len(stack') >= Len(stack),
         \A k \in 1 .. Len(stack) : stack'[k] = Advanced[k]
  PROVE  RecordsListed'
<1>1. SUFFICES ASSUME NEW l \in DOMAIN listing, NEW i \in DOMAIN listing[l]
               PROVE  Pending(l, i)' \/ \E n \in DOMAIN out' : out'[n].rec = listing[l][i]
  BY DEF RecordsListed
<1>2. i \in 1 .. Len(listing[l]) /\ Len(stack) \in Nat \ {0}
  BY StackFacts DEF TypeOK
<1>3. CASE \E n \in DOMAIN out : out[n].rec = listing[l][i]
  <2>1. PICK n \in DOMAIN out : out[n].rec = listing[l][i]
    BY <1>3
  <2>2. n \in DOMAIN out' /\ out'[n] = out[n]
    BY <2>1, EmitFacts
  <2>3. QED
    BY <2>1, <2>2
<1>4. CASE Pending(l, i)
  <2>1. PICK k \in 1 .. Len(stack) :
          stack[k].lba = l /\ stack[k].recs = listing[l] /\ stack[k].at <= i
    BY <1>4 DEF Pending
  <2>2. CASE k = Len(stack) /\ Top.at = i
    <3>1. Record = listing[l][i]
      BY <2>1, <2>2 DEF Record, Top
    <3>2. Len(out) + 1 \in DOMAIN out' /\ out'[Len(out) + 1].rec = Record
      BY EmitFacts
    <3>3. QED
      BY <3>1, <3>2
  <2>3. CASE ~ (k = Len(stack) /\ Top.at = i)
    <3>1. k = Len(stack) => Top.at # i /\ Top.at <= i /\ Top.at \in Nat
      BY <2>1, <2>3, StackFacts DEF Top, Frame
    <3>2. /\ stack'[k].lba = l /\ stack'[k].recs = listing[l]
          /\ stack'[k].at = IF k = Len(stack) THEN Top.at + 1 ELSE stack[k].at
      BY <2>1, AdvanceFacts
    <3>3. stack'[k].at <= i
      BY <1>2, <2>1, <3>1, <3>2
    <3>4. k \in 1 .. Len(stack')
      BY <1>2, <2>1
    <3>5. QED
      BY <3>2, <3>3, <3>4 DEF Pending
  <2>4. QED
    BY <2>2, <2>3
<1>5. pc \notin Errors
  BY DEF Errors
<1>6. QED
  BY <1>3, <1>4, <1>5 DEF RecordsListed

LEMMA RecordsStep == TypeOK /\ WalkInv /\ RecordsListed /\ [Next]_vars => RecordsListed'
<1> SUFFICES ASSUME TypeOK, WalkInv, RecordsListed, [Next]_vars PROVE RecordsListed'
  OBVIOUS
<1>1. CASE EnterSeen
  BY <1>1, PoppedListed DEF EnterSeen, ReturnOk
<1>2. CASE EnterTooDeep
  BY <1>2 DEF EnterTooDeep, RecordsListed, Errors
<1>3. CASE EnterRead
  <2> DEFINE new == Top.lba
  <2>1. /\ pc = "enter" /\ new \notin visited /\ UNCHANGED out
        /\ stack' = WithTop([Top EXCEPT !.recs = ReadDir.recs])
        /\ listing' = [l \in DOMAIN listing \union {new} |->
                         IF l = new THEN ReadDir.recs ELSE listing[l]]
    BY <1>3 DEF EnterRead, EnterNew
  <2>2. [Top EXCEPT !.recs = ReadDir.recs] \in Frame
    BY <1>3, <2>1, StackFacts, ReadDirType DEF Frame, Outcome, EnterRead
  <2>3. /\ Len(stack') = Len(stack) /\ Len(stack) \in 1 .. Len(stack')
        /\ stack'[Len(stack)] = [Top EXCEPT !.recs = ReadDir.recs]
        /\ \A k \in 1 .. Len(stack) - 1 : stack'[k] = stack[k]
    <3> DEFINE frame == [Top EXCEPT !.recs = ReadDir.recs]
    <3>1. frame \in Frame /\ stack' = WithTop(frame) /\ Len(stack) \in Nat \ {0}
      BY <2>1, <2>2, StackFacts
    <3> HIDE DEF frame
    <3>2. /\ Len(stack') = Len(stack) /\ stack'[Len(stack)] = frame
          /\ \A k \in 1 .. Len(stack) - 1 : stack'[k] = stack[k]
      <4>1. TypeOK /\ pc \in {"enter", "list"}
        BY <2>1
      <4>2. QED
        BY ONLY <3>1, <4>1, WithTopFacts
    <3>3. QED
      BY <3>1, <3>2 DEF frame
  <2>4. SUFFICES ASSUME NEW l \in DOMAIN listing', NEW i \in DOMAIN listing'[l]
                 PROVE  \/ Pending(l, i)'
                        \/ \E n \in DOMAIN out' : out'[n].rec = listing'[l][i]
    BY DEF RecordsListed
  <2>5. CASE l = new
    <3>1. i \in 1 .. Len(ReadDir.recs) /\ listing'[l] = ReadDir.recs
      BY <2>1, <2>5, ReadDirType DEF Outcome
    <3>2. /\ stack'[Len(stack)].lba = l /\ stack'[Len(stack)].recs = listing'[l]
          /\ stack'[Len(stack)].at = 1
      BY <2>1, <2>3, <2>5, <3>1, StackFacts DEF Frame, WalkInv, CallReferenced
    <3>3. Len(stack) \in 1 .. Len(stack') /\ 1 <= i
      BY <2>3, <3>1
    <3>4. \E k \in 1 .. Len(stack') :
            stack'[k].lba = l /\ stack'[k].recs = listing'[l] /\ stack'[k].at <= i
      BY <3>2, <3>3
    <3>5. QED
      BY <3>4 DEF Pending
  <2>6. CASE l # new
    <3>1. l \in DOMAIN listing /\ listing'[l] = listing[l]
      BY <2>1, <2>6
    <3>2. CASE Pending(l, i)
      <4>1. PICK k \in 1 .. Len(stack) :
              stack[k].lba = l /\ stack[k].recs = listing[l] /\ stack[k].at <= i
        BY <3>2 DEF Pending
      <4>2. k # Len(stack)
        BY <2>6, <4>1 DEF Top
      <4>3. k \in 1 .. Len(stack') /\ stack'[k] = stack[k]
        BY <2>3, <4>1, <4>2
      <4>4. QED
        BY <3>1, <4>1, <4>3 DEF Pending
    <3>3. QED
      BY <2>1, <3>1, <3>2 DEF RecordsListed, Errors
  <2>7. QED
    BY <2>5, <2>6
<1>4. CASE EnterEof
  BY <1>4, PoppedListed DEF EnterEof, EnterNew
<1>5. CASE EnterFail
  BY <1>5 DEF EnterFail, RecordsListed, Errors
<1>6. CASE ListFile
  BY <1>6, EmittedListed, AdvancedFacts, StackFacts DEF ListFile
<1>7. CASE ListDir
  <2>1. /\ Len(stack') = Len(stack) + 1 /\ Len(stack) \in Nat
        /\ \A k \in 1 .. Len(stack) : stack'[k] = Advanced[k]
    BY <1>7, AdvancedFacts, StackFacts, AppendProperties DEF ListDir
  <2>2. QED
    BY <1>7, <2>1, EmittedListed DEF ListDir
<1>8. CASE Leave
  BY <1>8, PoppedListed DEF Leave, ReturnOk
<1>9. CASE UNCHANGED vars
  BY <1>9 DEF vars, RecordsListed, Pending
<1>10. QED
  BY <1>1, <1>2, <1>3, <1>4, <1>5, <1>6, <1>7, <1>8, <1>9 DEF Next

(* Every record read of a directory, file or directory, is in the listing   *)
(* or waits for its frame, and the extent of every directory among them was *)
(* entered, is being entered or waits likewise, as long as no error has     *)
(* ended the walk.                                                          *)
THEOREM NoRecordForgotten == Spec => []NothingForgotten
<1>1. Init => RecordsListed
  BY DEF Init, RecordsListed
<1>2. TypeOK /\ WalkInv /\ RecordsListed => NothingForgotten
  BY DEF WalkInv, NothingForgotten
<1>3. QED
  BY <1>1, <1>2, RecordsStep, TypeCorrect, WalkInvariant, PTL DEF Spec

(* What a walk reports as its outcome: OutcomeJustified with the depth      *)
(* bound that makes it inductive.                                           *)
LEMMA OutcomeStep == TypeOK /\ WalkInv /\ OutcomeInv /\ [Next]_vars => OutcomeInv'
<1> SUFFICES ASSUME TypeOK, WalkInv, OutcomeInv, [Next]_vars PROVE OutcomeInv'
  OBVIOUS
<1> USE DEF OutcomeInv
<1>1. CASE EnterSeen
  BY <1>1, StackFacts DEF EnterSeen, ReturnOk, OutcomeJustified, DepthBounded, Depth
<1>2. CASE EnterTooDeep
  <2>1. pc = "enter" /\ pc' = "limit" /\ UNCHANGED <<stack, out>> /\ Depth = MaxWalkDepth + 1
    BY <1>2, StackFacts DEF EnterTooDeep, EnterNew, DepthBounded, Depth
  <2>2. QED
    BY <2>1 DEF OutcomeJustified, DepthBounded, Depth
<1>3. CASE EnterRead
  <2>1. [Top EXCEPT !.recs = ReadDir.recs] \in Frame
    BY <1>3, StackFacts, ReadDirType DEF EnterRead, EnterNew, Frame, Outcome
  <2>2. Len(stack') = Len(stack) /\ pc' = "list" /\ out' = out
    BY <1>3, <2>1, WithTopFacts DEF EnterRead, EnterNew
  <2>3. QED
    BY <1>3, <2>2 DEF EnterRead, OutcomeJustified, DepthBounded, Depth
<1>4. CASE EnterEof
  <2>1. Len(stack') = Len(stack) - 1 /\ out' = out
    BY <1>4, StackFacts DEF EnterEof, EnterNew
  <2>2. Len(stack) = 1 => listing' = <<>> /\ visited' = {Root[1]}
    BY <1>4 DEF EnterEof, EnterNew, WalkInv, CallReferenced
  <2>3. QED
    BY <1>4, <2>1, <2>2, StackFacts DEF EnterEof, OutcomeJustified, DepthBounded, Depth
<1>5. CASE EnterFail
  <2>1. pc' = ReadDir.tag /\ UNCHANGED <<img, stack, out>>
    BY <1>5 DEF EnterFail, EnterNew
  <2>2. ReadDir' = ReadDir /\ Depth' = Depth
    BY <2>1 DEF ReadDir, Top, Depth
  <2>3. QED
    BY <1>5, <2>1, <2>2 DEF EnterFail, OutcomeJustified, DepthBounded
<1>6. CASE ListFile
  <2>1. /\ pc = "list" /\ pc' = "list" /\ Emit
        /\ Len(stack') = Len(stack)
    BY <1>6, AdvancedFacts DEF ListFile
  <2>2. \A i \in DOMAIN out' : out'[i].depth <= MaxWalkDepth
    BY <2>1, EmitFacts DEF OutcomeJustified, DepthBounded
  <2>3. QED
    BY <2>1, <2>2 DEF OutcomeJustified, DepthBounded, Depth
<1>7. CASE ListDir
  <2>1. /\ pc = "list" /\ pc' = "enter" /\ Emit
        /\ Len(stack') = Len(stack) + 1
    BY <1>7, AdvancedFacts, AppendProperties DEF ListDir
  <2>2. \A i \in DOMAIN out' : out'[i].depth <= MaxWalkDepth
    BY <2>1, EmitFacts DEF OutcomeJustified, DepthBounded
  <2>3. QED
    BY <2>1, <2>2, StackFacts DEF OutcomeJustified, DepthBounded, Depth
<1>8. CASE Leave
  BY <1>8, StackFacts DEF Leave, ReturnOk, OutcomeJustified, DepthBounded, Depth
<1>9. CASE UNCHANGED vars
  BY <1>9 DEF vars, OutcomeJustified, DepthBounded, Depth, ReadDir, Top
<1>10. QED
  BY <1>1, <1>2, <1>3, <1>4, <1>5, <1>6, <1>7, <1>8, <1>9 DEF Next

(* On every image, every outcome of a walk has the reason the code gives    *)
(* for it, and no entry is listed below the depth limit.                    *)
THEOREM OutcomesJustified == Spec => []OutcomeJustified
<1>1. Init => OutcomeInv
  <2> SUFFICES ASSUME Init PROVE OutcomeInv
    OBVIOUS
  <2>1. Len(stack) = 1 /\ DOMAIN out = {}
    BY EmptySeq DEF Init
  <2>2. QED
    BY <2>1 DEF Init, OutcomeInv, OutcomeJustified, DepthBounded, Depth
<1>2. OutcomeInv => OutcomeJustified
  BY DEF OutcomeInv
<1>3. QED
  BY <1>1, <1>2, OutcomeStep, TypeCorrect, WalkInvariant, PTL DEF Spec

(* A step that neither lists anything nor changes a prefix keeps the order; *)
(* the stack may lose frames at its end.                                    *)
LEMMA QuietOrder ==
  ASSUME OrderInv, out' = out, Len(stack') <= Len(stack),
         Len(stack) \in Nat, Len(stack') \in Nat,
         \A k \in 1 .. Len(stack') : stack'[k].prefix = stack[k].prefix
  PROVE  OrderInv'
<1>1. PreOrder'
  BY DEF OrderInv, PreOrder, IsParent
<1>2. PathListed'
  <2> SUFFICES ASSUME NEW k \in 1 .. Len(stack')
               PROVE  IF k = 1 THEN stack'[k].prefix = <<>>
                               ELSE \E p \in DOMAIN out' : EntryOf(k, p)'
    BY DEF PathListed
  <2>1. k \in 1 .. Len(stack) /\ stack'[k].prefix = stack[k].prefix
    OBVIOUS
  <2>2. CASE k = 1
    BY <2>1, <2>2 DEF OrderInv, PathListed
  <2>3. CASE k # 1
    <3>1. PICK p \in DOMAIN out : EntryOf(k, p)
      BY <2>1, <2>3 DEF OrderInv, PathListed
    <3>2. EntryOf(k, p)'
      BY <2>1, <3>1 DEF EntryOf
    <3>3. QED
      BY <2>3, <3>1, <3>2
  <2>4. QED
    BY <2>2, <2>3
<1>3. QED
  BY <1>1, <1>2 DEF OrderInv

(* An entry of the top frame is listed where pre-order wants it: right      *)
(* under the entry its frame belongs to, or at depth 0.                     *)
LEMMA EmitOrder ==
  ASSUME TypeOK, OrderInv, pc = "list", Emit
  PROVE  PreOrder'
<1> DEFINE n == Len(stack)
<1>c. PICK c : c = Len(out) + 1
  OBVIOUS
<1>1. n \in Nat \ {0} /\ Depth = n - 1 /\ n \in 1 .. n
  BY StackFacts DEF Depth
<1>2. ASSUME NEW p \in DOMAIN out, NEW d \in DOMAIN out, IsParent(p, d), p < d
      PROVE  IsParent(p, d)'
  BY SMTT(40), <1>2, EmitFacts DEF IsParent
<1>3. ASSUME NEW d \in DOMAIN out
      PROVE  \/ out'[d].depth = 0 /\ out'[d].path = Join(<<>>, out'[d].rec.name)
             \/ \E p \in 1 .. d - 1 : IsParent(p, d)'
  <2>1. d \in 1 .. Len(out) /\ out'[d] = out[d]
    BY EmitFacts
  <2>2. CASE \E p \in 1 .. d - 1 : IsParent(p, d)
    <3>1. PICK p \in 1 .. d - 1 : IsParent(p, d)
      BY <2>2
    <3>2. p \in DOMAIN out /\ p < d
      BY <2>1, EmitFacts
    <3>3. IsParent(p, d)'
      BY <1>2, <3>1, <3>2
    <3>4. QED
      BY <3>3
  <2>3. CASE out[d].depth = 0 /\ out[d].path = Join(<<>>, out[d].rec.name)
    BY <2>1, <2>3
  <2>4. QED
    BY <2>2, <2>3 DEF OrderInv, PreOrder
<1>4. /\ out'[c].depth = n - 1
      /\ out'[c].path = Join(stack[n].prefix, out'[c].rec.name)
  BY <1>1, <1>c, EmitFacts DEF Top
<1>5. \/ out'[c].depth = 0 /\ out'[c].path = Join(<<>>, out'[c].rec.name)
      \/ \E p \in 1 .. c - 1 : IsParent(p, c)'
  <2>1. CASE n = 1
    BY <1>1, <1>4, <2>1 DEF OrderInv, PathListed
  <2>2. CASE n # 1
    <3>1. PICK p \in DOMAIN out : EntryOf(n, p)
      BY <1>1, <2>2 DEF OrderInv, PathListed
    <3>2. p \in 1 .. Len(out) /\ out'[p] = out[p] /\ out[p] \in WalkEntry
      BY SMTT(40), EmitFacts DEF TypeOK
    <3>3. \A i \in p + 1 .. c - 1 : out'[i].depth >= out'[c].depth
      <4> SUFFICES ASSUME NEW i \in p + 1 .. c - 1 PROVE out'[i].depth >= out'[c].depth
        OBVIOUS
      <4>1. i \in 1 .. Len(out) /\ out'[i] = out[i] /\ out[i] \in WalkEntry
        BY <1>c, <3>2, EmitFacts DEF TypeOK
      <4>2. i \in p + 1 .. Len(out)
        BY <1>c, EmitFacts
      <4>3. out[i].depth + 1 >= n /\ out[i].depth \in Nat
        BY <3>1, <4>1, <4>2 DEF EntryOf, WalkEntry
      <4>4. QED
        BY <1>1, <1>4, <4>1, <4>3
    <3>4. /\ out'[p].rec.dir
          /\ out'[p].depth + 1 = out'[c].depth
          /\ out'[c].path = Join(out'[p].path, out'[c].rec.name)
      BY <1>1, <1>4, <3>1, <3>2 DEF EntryOf, WalkEntry
    <3>5. IsParent(p, c)'
      BY <3>3, <3>4 DEF IsParent
    <3>6. p \in 1 .. c - 1
      BY <1>c, <3>2, EmitFacts
    <3>7. QED
      BY <3>5, <3>6
  <2>3. QED
    BY <2>1, <2>2
<1>6. \A d \in DOMAIN out' : d \in DOMAIN out \/ d = c
  BY <1>c, EmitFacts
<1>7. QED
  BY <1>3, <1>5, <1>6 DEF PreOrder

(* What the top frame lists lies inside the directory of every frame.       *)
LEMMA EmitPath ==
  ASSUME TypeOK, OrderInv, pc = "list", Emit,
         NEW k \in 2 .. Len(stack), stack'[k].prefix = stack[k].prefix
  PROVE  \E p \in DOMAIN out' : EntryOf(k, p)'
<1>1. Len(stack) \in Nat \ {0} /\ Depth = Len(stack) - 1
  BY StackFacts DEF Depth
<1>2. PICK p \in DOMAIN out : EntryOf(k, p)
  BY <1>1 DEF OrderInv, PathListed
<1>3. p \in DOMAIN out' /\ out'[p] = out[p]
  BY EmitFacts
<1>4. ASSUME NEW i \in p + 1 .. Len(out') PROVE out'[i].depth + 1 >= k
  <2>1. CASE i = Len(out) + 1
    BY <1>1, <2>1, EmitFacts
  <2>2. CASE i # Len(out) + 1
    <3>1. i \in p + 1 .. Len(out) /\ out'[i] = out[i]
      BY <1>3, <2>2, EmitFacts
    <3>2. QED
      BY <1>2, <3>1 DEF EntryOf
  <2>3. QED
    BY <2>1, <2>2
<1>5. EntryOf(k, p)'
  BY <1>2, <1>3, <1>4 DEF EntryOf
<1>6. QED
  BY <1>3, <1>5

LEMMA OrderStep == TypeOK /\ OrderInv /\ [Next]_vars => OrderInv'
<1> SUFFICES ASSUME TypeOK, OrderInv, [Next]_vars PROVE OrderInv'
  OBVIOUS
<1>1. ASSUME pc \in {"enter", "list"}, stack' = Below, out' = out PROVE OrderInv'
  BY <1>1, StackFacts, QuietOrder
<1>2. ASSUME pc \in {"enter", "list"}, stack' = stack, out' = out PROVE OrderInv'
  BY <1>2, StackFacts, QuietOrder
<1>3. CASE EnterSeen
  BY <1>1, <1>3 DEF EnterSeen, ReturnOk
<1>4. CASE EnterTooDeep
  BY <1>2, <1>4 DEF EnterTooDeep, EnterNew
<1>5. CASE EnterRead
  <2>1. [Top EXCEPT !.recs = ReadDir.recs] \in Frame
        /\ [Top EXCEPT !.recs = ReadDir.recs].prefix = Top.prefix
    BY <1>5, StackFacts, ReadDirType DEF EnterRead, EnterNew, Frame, Outcome
  <2>2. /\ Len(stack') = Len(stack) /\ Len(stack) \in Nat
        /\ stack'[Len(stack)].prefix = Top.prefix
        /\ \A k \in 1 .. Len(stack) - 1 : stack'[k] = stack[k]
    BY <1>5, <2>1, WithTopFacts, StackFacts DEF EnterRead, EnterNew
  <2>3. \A k \in 1 .. Len(stack') : stack'[k].prefix = stack[k].prefix
    BY <2>2 DEF Top
  <2>4. QED
    BY SMTT(40), <1>5, <2>2, <2>3, QuietOrder DEF EnterRead, EnterNew
<1>6. CASE EnterEof
  BY <1>1, <1>6 DEF EnterEof, EnterNew
<1>7. CASE EnterFail
  BY <1>2, <1>7 DEF EnterFail, EnterNew
<1>8. ASSUME pc = "list"
      PROVE  /\ Len(stack) \in Nat \ {0} /\ Advanced \in Seq(Frame)
             /\ Len(Advanced) = Len(stack)
             /\ \A k \in 1 .. Len(stack) : Advanced[k].prefix = stack[k].prefix
  <2>1. [Top EXCEPT !.at = @ + 1].prefix = stack[Len(stack)].prefix
    BY <1>8, StackFacts DEF Frame, Top
  <2>2. ASSUME NEW k \in 1 .. Len(stack) PROVE Advanced[k].prefix = stack[k].prefix
    <3>1. CASE k = Len(stack)
      BY <1>8, <2>1, <3>1, AdvancedFacts
    <3>2. CASE k # Len(stack)
      BY <1>8, <3>2, AdvancedFacts, StackFacts
    <3>3. QED
      BY <3>1, <3>2
  <2>3. QED
    BY <1>8, <2>2, AdvancedFacts, StackFacts
<1>9. CASE ListFile
  <2>1. /\ pc = "list" /\ Emit
        /\ Len(stack') = Len(stack) /\ Len(stack) \in Nat \ {0}
        /\ \A k \in 1 .. Len(stack) : stack'[k].prefix = stack[k].prefix
    BY <1>8, <1>9 DEF ListFile
  <2>2. PathListed'
    <3> SUFFICES ASSUME NEW k \in 1 .. Len(stack)
                 PROVE  IF k = 1 THEN stack'[k].prefix = <<>>
                                 ELSE \E p \in DOMAIN out' : EntryOf(k, p)'
      BY <2>1 DEF PathListed
    <3>1. CASE k = 1
      BY <2>1, <3>1 DEF OrderInv, PathListed
    <3>2. CASE k # 1
      BY <2>1, <3>2, EmitPath
    <3>3. QED
      BY <3>1, <3>2
  <2>3. QED
    BY <2>1, <2>2, EmitOrder DEF OrderInv
<1>10. CASE ListDir
  <2> DEFINE n == Len(stack)
  <2>1. /\ pc = "list" /\ Emit /\ Record.dir
        /\ Len(stack') = n + 1 /\ n \in Nat \ {0}
        /\ \A k \in 1 .. n : stack'[k].prefix = stack[k].prefix
        /\ stack'[n + 1].prefix = Join(Top.prefix, Record.name)
    BY <1>8, <1>10, AppendProperties DEF ListDir, Activation
  <2>2. ASSUME NEW k, k = n + 1, NEW p, p = Len(out) + 1
        PROVE  p \in DOMAIN out' /\ EntryOf(k, p)'
    BY <2>1, <2>2, EmitFacts DEF EntryOf, Depth
  <2>3. PathListed'
    <3> SUFFICES ASSUME NEW k \in 1 .. n + 1
                 PROVE  IF k = 1 THEN stack'[k].prefix = <<>>
                                 ELSE \E p \in DOMAIN out' : EntryOf(k, p)'
      BY <2>1 DEF PathListed
    <3>1. CASE k = 1
      BY <2>1, <3>1 DEF OrderInv, PathListed
    <3>2. CASE k = n + 1
      BY <2>1, <2>2, <3>2
    <3>3. CASE k \in 2 .. n
      BY <2>1, <3>3, EmitPath
    <3>4. QED
      BY <2>1, <3>1, <3>2, <3>3
  <2>4. QED
    BY <2>1, <2>3, EmitOrder DEF OrderInv
<1>11. CASE Leave
  BY <1>1, <1>11 DEF Leave, ReturnOk
<1>12. CASE UNCHANGED vars
  BY <1>12 DEF vars, OrderInv, PreOrder, IsParent, PathListed, EntryOf
<1>13. QED
  BY <1>3, <1>4, <1>5, <1>6, <1>7, <1>9, <1>10, <1>11, <1>12 DEF Next

(* On every image the listing is in depth-first pre-order, each entry under *)
(* the entry of the directory it belongs to, with that entry's path.        *)
THEOREM ListingPreOrder == Spec => []PreOrder
<1>1. Init => OrderInv
  <2> SUFFICES ASSUME Init PROVE OrderInv
    OBVIOUS
  <2>1. Len(stack) = 1 /\ stack[1].prefix = <<>> /\ DOMAIN out = {}
    BY EmptySeq DEF Init, Activation
  <2>2. QED
    BY <2>1 DEF OrderInv, PreOrder, PathListed
<1>2. OrderInv => PreOrder
  BY DEF OrderInv
<1>3. QED
  BY <1>1, <1>2, OrderStep, TypeCorrect, PTL DEF Spec

(* A longer list references at least as much.                               *)
LEMMA ReferencedGrows ==
  ASSUME TypeOK, pc = "list", Emit
  PROVE  /\ Referenced \subseteq Referenced'
         /\ Record.dir => <<Record.lba, Record.size>> \in Referenced'
<1>1. ASSUME NEW i \in DOMAIN out, out[i].rec.dir
      PROVE  <<out[i].rec.lba, out[i].rec.size>> \in Referenced'
  <2>1. i \in DOMAIN out' /\ out'[i] = out[i]
    BY EmitFacts
  <2>2. QED
    BY <1>1, <2>1 DEF Referenced
<1>2. Record.dir => <<Record.lba, Record.size>> \in Referenced'
  BY EmitFacts DEF Referenced
<1>3. Referenced \subseteq Referenced'
  BY <1>1 DEF Referenced
<1>4. QED
  BY <1>2, <1>3

(* A step that lists nothing and enters at most the extent just called.     *)
LEMMA QuietListed ==
  ASSUME TypeOK, WalkInv, ListedInv, pc \in {"enter", "list"},
         UNCHANGED <<img, out>>, pc' # "enter",
         visited' = visited \union {Top.lba}, Top.lba \notin visited => pc = "enter",
         pc' \notin Errors /\ Top.lba \notin visited /\ ReadDir.tag = "ok" =>
           Top.lba \in DOMAIN listing' /\ listing'[Top.lba] = ReadDir.recs,
         \A l \in DOMAIN listing : l \in visited =>
           l \in DOMAIN listing' /\ listing'[l] = listing[l]
  PROVE  ListedInv'
<1>1. Referenced' = Referenced
  BY DEF Referenced
<1>2. DirsEntered' /\ CallListed'
  BY DEF ListedInv, DirsEntered, CallListed
<1>3. ASSUME pc' \notin Errors, NEW l \in visited' PROVE WasRead(l)'
  <2>1. CASE l \in visited
    <3>1. PICK s \in Sizes :
            /\ <<l, s>> \in Referenced
            /\ img[<<l, s>>].tag = "ok" =>
                 l \in DOMAIN listing /\ listing[l] = img[<<l, s>>].recs
      BY <2>1 DEF ListedInv, WasRead, Errors
    <3>2. QED
      BY <1>1, <2>1, <3>1 DEF WasRead
  <2>2. CASE l \notin visited
    <3>1. pc = "enter" /\ l = Top.lba /\ <<Top.lba, Top.size>> \in Referenced
      BY <1>3, <2>2 DEF ListedInv, CallListed
    <3>2. Top.size \in Sizes
      BY StackFacts DEF Frame
    <3>3. QED
      BY <1>1, <1>3, <2>2, <3>1, <3>2 DEF WasRead, ReadDir
  <2>3. QED
    BY <2>1, <2>2
<1>4. QED
  BY <1>2, <1>3 DEF ListedInv

LEMMA ListedStep == TypeOK /\ WalkInv /\ ListedInv /\ [Next]_vars => ListedInv'
<1> SUFFICES ASSUME TypeOK, WalkInv, ListedInv, [Next]_vars PROVE ListedInv'
  OBVIOUS
<1>1. CASE EnterSeen
  <2>1. visited' = visited \union {Top.lba} /\ listing' = listing
    BY <1>1 DEF EnterSeen
  <2>2. QED
    BY <1>1, <2>1, QuietListed DEF EnterSeen, ReturnOk
<1>2. CASE EnterTooDeep
  BY <1>2, QuietListed DEF EnterTooDeep, EnterNew, Errors
<1>3. CASE EnterRead
  <2>1. /\ pc = "enter" /\ pc' = "list" /\ UNCHANGED <<img, out>>
        /\ visited' = visited \union {Top.lba}
        /\ Top.lba \in DOMAIN listing' /\ listing'[Top.lba] = ReadDir.recs
    BY <1>3 DEF EnterRead, EnterNew
  <2>2. \A l \in DOMAIN listing : l \in visited =>
          l \in DOMAIN listing' /\ listing'[l] = listing[l]
    BY <1>3 DEF EnterRead, EnterNew
  <2>3. QED
    BY <2>1, <2>2, QuietListed
<1>4. CASE EnterEof
  BY <1>4, QuietListed DEF EnterEof, EnterNew
<1>5. CASE EnterFail
  BY <1>5, QuietListed DEF EnterFail, EnterNew, Errors
<1>6. ASSUME pc = "list", Emit, UNCHANGED <<img, visited, listing>>,
             pc' \in {"list", "enter"},
             pc' = "list" <=> ~Record.dir,
             pc' = "enter" => Top'.lba = Record.lba /\ Top'.size = Record.size
      PROVE  ListedInv'
  <2>1. DirsEntered'
    <3> SUFFICES ASSUME NEW i \in DOMAIN out', out'[i].rec.dir
                 PROVE  out'[i].rec.lba \in visited \/ (pc' = "enter" /\ Top'.lba = out'[i].rec.lba)
      BY <1>6 DEF DirsEntered
    <3>1. CASE i \in DOMAIN out
      BY <1>6, <3>1, EmitFacts DEF ListedInv, DirsEntered
    <3>2. CASE i = Len(out) + 1
      BY <1>6, <3>2, EmitFacts
    <3>3. QED
      BY <1>6, <3>1, <3>2, EmitFacts
  <2>2. CallListed'
    BY <1>6, ReferencedGrows DEF CallListed
  <2>3. ASSUME NEW l \in visited PROVE WasRead(l)'
    <3>1. WasRead(l)
      BY <1>6 DEF ListedInv, Errors
    <3>2. QED
      BY <1>6, <3>1, ReferencedGrows DEF WasRead
  <2>4. QED
    BY <1>6, <2>1, <2>2, <2>3 DEF ListedInv
<1>7. CASE ListFile
  BY <1>6, <1>7 DEF ListFile
<1>8. CASE ListDir
  <2>1. /\ Len(stack') = Len(stack) + 1
        /\ stack'[Len(stack) + 1] =
             Activation(Record.lba, Record.size, Join(Top.prefix, Record.name))
    BY <1>8, AdvancedFacts, StackFacts, AppendProperties DEF ListDir
  <2>2. Top'.lba = Record.lba /\ Top'.size = Record.size
    BY <2>1 DEF Top, Activation
  <2>3. QED
    BY <1>6, <1>8, <2>2 DEF ListDir
<1>9. CASE Leave
  <2>1. Top.lba \in visited
    BY <1>9, StackFacts DEF Leave, WalkInv, FramesRead, Iterating, Top
  <2>2. /\ pc = "list" /\ pc' # "enter" /\ UNCHANGED <<img, out>>
        /\ visited' = visited \union {Top.lba} /\ listing' = listing
    BY <1>9, <2>1 DEF Leave, ReturnOk
  <2>3. QED
    BY <2>1, <2>2, QuietListed
<1>10. CASE UNCHANGED vars
  <2>1. Referenced' = Referenced /\ Top' = Top
    BY <1>10 DEF vars, Referenced, Top
  <2>2. \A l : WasRead(l)' <=> WasRead(l)
    BY <1>10, <2>1 DEF vars, WasRead
  <2>3. QED
    BY <1>10, <2>1, <2>2 DEF vars, ListedInv, DirsEntered, CallListed
<1>11. QED
  BY <1>1, <1>2, <1>3, <1>4, <1>5, <1>7, <1>8, <1>9, <1>10 DEF Next

(* On every image, a walk that succeeds has listed the records of every     *)
(* readable directory it names, when each was referenced with one size.     *)
THEOREM EveryDirIsListed == Spec => []EveryDirListed
<1>1. Init => ListedInv
  <2> SUFFICES ASSUME Init PROVE ListedInv
    OBVIOUS
  <2>1. Top = Activation(Root[1], Root[2], <<>>) /\ DOMAIN out = {}
    BY EmptySeq DEF Init, Top
  <2>2. <<Top.lba, Top.size>> = Root
    BY <2>1 DEF Activation, Extent
  <2>3. QED
    BY <2>1, <2>2 DEF Init, ListedInv, DirsEntered, CallListed, Referenced
<1>2. TypeOK /\ ListedInv => EveryDirListed
  <2> SUFFICES ASSUME TypeOK, ListedInv, pc = "ok",
                      \A e, g \in Referenced : e[1] = g[1] => e = g,
                      NEW i \in DOMAIN out, out[i].rec.dir,
                      img[<<out[i].rec.lba, out[i].rec.size>>].tag = "ok"
               PROVE  /\ out[i].rec.lba \in DOMAIN listing
                      /\ listing[out[i].rec.lba] =
                           img[<<out[i].rec.lba, out[i].rec.size>>].recs
    BY DEF EveryDirListed
  <2> DEFINE r == out[i].rec
  <2>1. r.lba \in visited
    BY DEF ListedInv, DirsEntered
  <2>2. PICK s \in Sizes :
          /\ <<r.lba, s>> \in Referenced
          /\ img[<<r.lba, s>>].tag = "ok" =>
               r.lba \in DOMAIN listing /\ listing[r.lba] = img[<<r.lba, s>>].recs
    BY <2>1 DEF ListedInv, WasRead, Errors
  <2>3. <<r.lba, r.size>> \in Referenced
    BY DEF Referenced
  <2>4. s = r.size
    BY <2>2, <2>3
  <2>5. QED
    BY <2>2, <2>4
<1>3. QED
  BY <1>1, <1>2, ListedStep, TypeCorrect, WalkInvariant, PTL DEF Spec

================================================================================
