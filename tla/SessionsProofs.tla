----------------------------- MODULE SessionsProofs -----------------------------
(***************************************************************************)
(* Proofs about Sessions, for every image, whatever its length and its      *)
(* sectors, and for every bound of the scan and of the chains.              *)
(***************************************************************************)
EXTENDS Sessions, SequenceTheorems, FiniteSetTheorems, TLAPS

USE LimitAssumption, NoneAssumption, ImageAssumption

(* While scan_sessions runs: it has passed over readable sectors only, and  *)
(* has kept the candidates among them, in order.                            *)
ScanInv ==
  pc = "scan" =>
    /\ reader = None /\ call = 0
    /\ lba \in FIRST .. ScanLimit
    /\ \A l \in FIRST .. lba - 1 : Readable(l)
    /\ {sessions[i] : i \in DOMAIN sessions} = {l \in FIRST .. lba - 1 : Candidate(l)}
    /\ \A i \in 1 .. Len(sessions) - 1 : sessions[i] < sessions[i + 1]
    /\ first <=> lba > FIRST /\ SectorAt(FIRST).type = "pvd"

(* While read_volume_descriptors runs, it is past its session's descriptor. *)
ChainInv ==
  /\ pc = "chain" => ChainStart \in Nat /\ ChainStart <= lba
  /\ pc = "udf" => reader # None

OpenInv == TypeOK /\ ScanInv /\ ChainInv

(* What a descriptor names as its root is a root.                           *)
LEMMA SectorRoot ==
  ASSUME IsImage(img), NEW l, SectorAt(l).type \in {"pvd", "joliet", "enhanced"}
  PROVE  SectorAt(l).root \in Roots
<1>1. l \in DOMAIN img.sectors
  BY DEF SectorAt
<1>2. SectorAt(l) \in Sector
  BY <1>1 DEF IsImage, SectorAt
<1>3. QED
  BY <1>2 DEF Sector

LEMMA RootFacts ==
  ASSUME IsImage(img), NEW l, SectorAt(l).type = "pvd"
  PROVE  RootOf(l).rr \in BOOLEAN /\ RootOf(l).skip \in Nat
<1>1. img.roots[SectorAt(l).root] \in RootDir
  BY SectorRoot DEF IsImage
<1>2. QED
  BY <1>1 DEF RootDir, RootOf

(* Behind a sector that cannot be read there is none that can.              *)
LEMMA NothingBehind ==
  ASSUME IsImage(img), NEW l \in Nat, l >= FIRST, ~Readable(l),
         NEW m \in Nat, m >= l
  PROVE  ~Readable(m)
<1>1. Cardinality(DOMAIN img.sectors) \in Nat
  BY FS_CardinalityType DEF IsImage
<1>2. QED
  BY <1>1 DEF IsImage, Readable

(* Before the scan the invariant holds.                                     *)
THEOREM InitOpen == Init => OpenInv
<1> SUFFICES ASSUME Init PROVE OpenInv
  OBVIOUS
<1>1. TypeOK
  <2>1. NoDescriptors \in Descriptors
    BY DEF Descriptors, NoDescriptors
  <2>2. sessions \in Seq(FIRST .. ScanLimit - 1) /\ Len(sessions) = 0
    BY DEF Init
  <2>3. IsImage(img)
    BY DEF Init
  <2>4. /\ pc = "scan" /\ lba \in Nat /\ guard \in 0 .. ChainLimit
        /\ first \in BOOLEAN /\ chain \in Descriptors /\ reader = None
        /\ call = 0
    <3>1. 0 \in 0 .. ChainLimit /\ FIRST \in Nat
      OBVIOUS
    <3>2. QED
      BY <2>1, <3>1 DEF Init
  <2>5. QED
    BY <2>2, <2>3, <2>4 DEF TypeOK
<1>2. ScanInv
  BY DEF Init, ScanInv
<1>3. ChainInv
  BY DEF Init, ChainInv
<1>4. QED
  BY <1>1, <1>2, <1>3 DEF OpenInv

(* A sector passed by the scan: a candidate is behind those kept before.    *)
LEMMA ScanSectorOpen ==
  ASSUME OpenInv, ScanSector
  PROVE  OpenInv'
<1> USE DEF OpenInv
<1>1. /\ pc = "scan" /\ lba < ScanLimit /\ Readable(lba)
      /\ lba \in FIRST .. ScanLimit - 1 /\ lba \in Nat
      /\ sessions \in Seq(FIRST .. ScanLimit - 1) /\ Len(sessions) \in Nat
  BY DEF TypeOK, ScanInv, ScanSector, Scanning
<1>2. /\ \A l : (Readable(l)' <=> Readable(l)) /\ SectorAt(l)' = SectorAt(l)
      /\ \A l : Candidate(l)' <=> Candidate(l)
  BY DEF ScanSector, Readable, SectorAt, Candidate, RootOf
<1>3. /\ sessions' \in Seq(FIRST .. ScanLimit - 1)
      /\ call \in 0 .. Len(sessions')
  <2>1. Append(sessions, lba) \in Seq(FIRST .. ScanLimit - 1)
    BY <1>1, AppendProperties
  <2>2. sessions' \in Seq(FIRST .. ScanLimit - 1)
    BY <1>1, <2>1 DEF ScanSector
  <2>3. Len(sessions') \in Nat /\ call = 0
    BY <1>1, <2>2, LenProperties DEF ScanInv
  <2>4. QED
    BY <2>2, <2>3
<1>4. TypeOK'
  BY <1>1, <1>3 DEF ScanSector, TypeOK
<1>5. {sessions'[i] : i \in DOMAIN sessions'} = {l \in FIRST .. lba' - 1 : Candidate(l)}
  <2>1. {sessions[i] : i \in DOMAIN sessions} = {l \in FIRST .. lba - 1 : Candidate(l)}
    BY <1>1 DEF ScanInv
  <2>2. CASE ~Candidate(lba)
    <3>1. sessions' = sessions /\ lba' = lba + 1
      BY <2>2 DEF ScanSector
    <3>2. {l \in FIRST .. lba' - 1 : Candidate(l)} = {l \in FIRST .. lba - 1 : Candidate(l)}
      BY <1>1, <2>2, <3>1
    <3>3. QED
      BY <2>1, <3>1, <3>2
  <2>3. CASE Candidate(lba)
    <3>1. sessions' = Append(sessions, lba) /\ lba' = lba + 1
      BY <2>3 DEF ScanSector
    <3>2. {l \in FIRST .. lba' - 1 : Candidate(l)}
            = {l \in FIRST .. lba - 1 : Candidate(l)} \union {lba}
      BY <1>1, <2>3, <3>1
    <3>3. /\ DOMAIN sessions' = 1 .. Len(sessions) + 1
          /\ DOMAIN sessions = 1 .. Len(sessions)
          /\ \A i \in 1 .. Len(sessions) : sessions'[i] = sessions[i]
          /\ sessions'[Len(sessions) + 1] = lba
      BY <1>1, <3>1, AppendProperties
    <3>4. {sessions'[i] : i \in DOMAIN sessions'}
            = {sessions[i] : i \in DOMAIN sessions} \union {lba}
      BY SMTT(40), <1>1, <3>3
    <3>5. QED
      BY <2>1, <3>2, <3>4
  <2>4. QED
    BY <2>2, <2>3
<1>6. \A i \in 1 .. Len(sessions') - 1 : sessions'[i] < sessions'[i + 1]
  <2>1. \A i \in 1 .. Len(sessions) - 1 : sessions[i] < sessions[i + 1]
    BY <1>1 DEF ScanInv
  <2>2. \A i \in 1 .. Len(sessions) : sessions[i] \in Nat /\ sessions[i] < lba
    <3>1. \A i \in DOMAIN sessions : sessions[i] \in FIRST .. lba - 1
      BY <1>1 DEF ScanInv
    <3>2. QED
      BY <1>1, <3>1
  <2>3. CASE ~Candidate(lba)
    BY <2>1, <2>3 DEF ScanSector
  <2>4. CASE Candidate(lba)
    <3>1. /\ Len(sessions') = Len(sessions) + 1
          /\ \A i \in 1 .. Len(sessions) : sessions'[i] = sessions[i]
          /\ sessions'[Len(sessions) + 1] = lba
      BY <1>1, <2>4, AppendProperties DEF ScanSector
    <3>2. TAKE i \in 1 .. Len(sessions') - 1
    <3>3. i \in 1 .. Len(sessions)
      BY <1>1, <3>1
    <3>4. CASE i = Len(sessions)
      BY <2>2, <3>1, <3>3, <3>4
    <3>5. CASE i < Len(sessions)
      <4>1. i \in 1 .. Len(sessions) - 1 /\ i + 1 \in 1 .. Len(sessions)
        BY <1>1, <3>3, <3>5
      <4>2. QED
        BY <2>1, <3>1, <3>3, <4>1
    <3>6. QED
      BY <1>1, <3>3, <3>4, <3>5
  <2>5. QED
    BY <2>3, <2>4
<1>7. first' <=> lba' > FIRST /\ SectorAt(FIRST)'.type = "pvd"
  <2>1. /\ lba' = lba + 1
        /\ first' <=> first \/ (lba = FIRST /\ SectorAt(lba).type = "pvd")
    BY DEF ScanSector
  <2>2. first <=> lba > FIRST /\ SectorAt(FIRST).type = "pvd"
    BY <1>1 DEF ScanInv
  <2>3. lba' > FIRST /\ (lba > FIRST \/ lba = FIRST)
    BY <1>1, <2>1
  <2>4. SectorAt(FIRST)'.type = SectorAt(FIRST).type
    BY <1>2
  <2>5. QED
    BY <2>1, <2>2, <2>3, <2>4, Zenon
<1>8. \A l \in FIRST .. lba' - 1 : Readable(l)
  BY <1>1 DEF ScanInv, ScanSector
<1>9. pc' = "scan" /\ lba' \in FIRST .. ScanLimit /\ reader' = None /\ call' = 0
  BY <1>1 DEF ScanInv, ScanSector
<1>10. ScanInv'
  BY <1>2, <1>5, <1>6, <1>7, <1>8, <1>9 DEF ScanInv
<1>11. ChainInv'
  BY <1>9 DEF ChainInv
<1>12. QED
  BY <1>4, <1>10, <1>11

(* The session that a chain is read for is one of those found.              *)
LEMMA FollowOpen ==
  ASSUME IsImage(img), img' = img,
         sessions' \in Seq(FIRST .. ScanLimit - 1), sessions' # <<>>,
         NEW i \in 0 .. Len(sessions'), reader' = reader, first' = first,
         first \in BOOLEAN, reader \in Descriptors \union {None}, reader = None => i = 0,
         Follow(i, IF i = 0 THEN sessions'[Len(sessions')] ELSE sessions'[i])
  PROVE  OpenInv'
<1>1. Len(sessions') \in Nat \ {0}
  BY EmptySeq, LenProperties
<1>2. \A j \in 1 .. Len(sessions') : sessions'[j] \in FIRST .. ScanLimit - 1
  BY <1>1, ElementOfSeq
<1>3. lba' \in FIRST .. ScanLimit - 1 /\ lba' = ChainStart' /\ lba' \in Nat
  BY <1>1, <1>2 DEF Follow, ChainStart
<1>4. TypeOK'
  <2>1. chain' \in Descriptors /\ guard' \in 0 .. ChainLimit
    BY DEF Follow, NoDescriptors, Descriptors
  <2>2. QED
    BY <1>3, <2>1 DEF TypeOK, Follow
<1>5. pc' = "chain"
  BY DEF Follow
<1>6. QED
  BY <1>3, <1>4, <1>5 DEF OpenInv, ScanInv, ChainInv

LEMMA ScanEndOpen ==
  ASSUME OpenInv, ScanEnd
  PROVE  OpenInv'
<1> USE DEF OpenInv
<1>1. /\ pc = "scan" /\ reader = None /\ call = 0
      /\ IsImage(img) /\ img' = img /\ first' = first /\ reader' = reader
      /\ first \in BOOLEAN
  BY DEF ScanEnd, ScanInv, TypeOK
<1>2. sessions' \in Seq(FIRST .. ScanLimit - 1)
  <2>1. FIRST \in FIRST .. ScanLimit - 1
    OBVIOUS
  <2>2. <<FIRST>> \in Seq(FIRST .. ScanLimit - 1)
    BY <2>1
  <2>3. QED
    BY <2>2 DEF ScanEnd, TypeOK
<1>3. CASE sessions' = <<>>
  <2>1. pc' = "failed" /\ UNCHANGED <<call, lba, guard, chain>>
    BY <1>3 DEF ScanEnd
  <2>2. Len(sessions') = 0
    BY <1>3
  <2>3. TypeOK'
    BY <1>1, <1>2, <2>1, <2>2 DEF TypeOK
  <2>4. QED
    BY <2>1, <2>3 DEF ScanInv, ChainInv
<1>4. CASE sessions' # <<>>
  <2>1. Follow(0, sessions'[Len(sessions')])
    BY <1>4 DEF ScanEnd
  <2>2. Len(sessions') \in Nat
    BY <1>2, LenProperties
  <2>3. 0 \in 0 .. Len(sessions')
    BY <2>2
  <2>4. QED
    BY <1>1, <1>2, <1>4, <2>1, <2>3, FollowOpen DEF TypeOK
<1>5. QED
  BY <1>3, <1>4

LEMMA ReadSessionOpen ==
  ASSUME OpenInv, ReadSession
  PROVE  OpenInv'
<1> USE DEF OpenInv
<1>1. PICK i \in 1 .. Len(sessions) : Follow(i, sessions[i])
  BY DEF ReadSession
<1>2. /\ pc = "ready" /\ UNCHANGED <<img, first, sessions, reader>>
      /\ IsImage(img) /\ sessions \in Seq(FIRST .. ScanLimit - 1) /\ sessions # <<>>
      /\ reader \in Descriptors /\ reader # None /\ first \in BOOLEAN
  BY DEF ReadSession, TypeOK
<1>3. Len(sessions) \in Nat
  BY <1>2, LenProperties
<1>4. i \in 0 .. Len(sessions') /\ i > 0
  BY <1>1, <1>2, <1>3
<1>5. Follow(i, IF i = 0 THEN sessions'[Len(sessions')] ELSE sessions'[i])
  BY <1>1, <1>2, <1>4
<1>6. QED
  BY <1>2, <1>4, <1>5, FollowOpen

(* A descriptor gathered is one, and the chain moves on by a sector.        *)
LEMMA GatherOpen ==
  ASSUME OpenInv, Chaining, NEW d \in Descriptors, Gather(d)
  PROVE  OpenInv'
<1> USE DEF OpenInv
<1>1. pc = "chain" /\ pc' = "chain" /\ guard < ChainLimit
  BY DEF Gather, Chaining, Guarded
<1>2. TypeOK'
  BY <1>1 DEF TypeOK, Gather
<1>3. ChainStart' = ChainStart /\ lba' = lba + 1 /\ lba \in Nat
  BY DEF ChainStart, Gather, TypeOK
<1>4. ScanInv' /\ ChainInv'
  BY <1>1, <1>3 DEF ScanInv, ChainInv
<1>5. QED
  BY <1>2, <1>4

LEMMA ChainTypes ==
  ASSUME IsImage(img), chain \in Descriptors, lba \in Nat
  PROVE  /\ Here.type = "pvd" =>
              (IF chain.rr THEN [chain EXCEPT !.pvd = Here.root]
               ELSE [chain EXCEPT !.pvd = Here.root,
                                  !.rr = RootOf(lba).rr,
                                  !.skip = IF RootOf(lba).rr THEN RootOf(lba).skip ELSE 0])
              \in Descriptors
         /\ Here.type \in {"joliet", "enhanced"} =>
              (IF Here.type = "joliet" \/ ~chain.joliet
               THEN [chain EXCEPT !.svd = Here.root, !.joliet = Here.type = "joliet"]
               ELSE chain) \in Descriptors
         /\ [chain EXCEPT !.boot = IF Here.type = "boot" THEN lba ELSE None] \in Descriptors
<1>1. ASSUME Here.type = "pvd"
      PROVE  /\ [chain EXCEPT !.pvd = Here.root] \in Descriptors
             /\ [chain EXCEPT !.pvd = Here.root,
                              !.rr = RootOf(lba).rr,
                              !.skip = IF RootOf(lba).rr THEN RootOf(lba).skip ELSE 0]
                  \in Descriptors
  <2>1. /\ Here.root \in Roots
        /\ RootOf(lba).rr \in BOOLEAN /\ RootOf(lba).skip \in Nat
    BY <1>1, SectorRoot, RootFacts DEF Here
  <2>2. QED
    BY <2>1 DEF Descriptors
<1>2. ASSUME Here.type \in {"joliet", "enhanced"}
      PROVE  [chain EXCEPT !.svd = Here.root, !.joliet = Here.type = "joliet"] \in Descriptors
  <2>1. Here.root \in Roots
    BY <1>2, SectorRoot DEF Here
  <2>2. (Here.type = "joliet") \in BOOLEAN
    OBVIOUS
  <2>3. QED
    BY <2>1, <2>2 DEF Descriptors
<1>3. [chain EXCEPT !.boot = IF Here.type = "boot" THEN lba ELSE None] \in Descriptors
  BY DEF Descriptors
<1>4. QED
  BY <1>1, <1>2, <1>3

(* Every step of open and of the session calls keeps the invariant.         *)
THEOREM NextOpen == OpenInv /\ [Next]_vars => OpenInv'
<1> SUFFICES ASSUME OpenInv, [Next]_vars PROVE OpenInv'
  OBVIOUS
<1> USE DEF OpenInv
<1>1. CASE ScanSector
  BY <1>1, ScanSectorOpen
<1>2. CASE ScanFails
  BY <1>2 DEF ScanFails, TypeOK, ScanInv, ChainInv
<1>3. CASE ScanEnd
  BY <1>3, ScanEndOpen
<1>4. CASE ChainPvd
  BY <1>4, ChainTypes, GatherOpen DEF ChainPvd, TypeOK
<1>5. CASE ChainSvd
  BY <1>5, ChainTypes, GatherOpen DEF ChainSvd, TypeOK
<1>6. CASE ChainBoot
  BY <1>6, ChainTypes, GatherOpen DEF ChainBoot, TypeOK
<1>7. CASE ChainOther
  BY <1>7, GatherOpen DEF ChainOther, TypeOK
<1>8. CASE ChainFails
  BY <1>8 DEF ChainFails, ChainError, TypeOK, ScanInv, ChainInv
<1>9. CASE ChainDone
  <2>1. pc = "chain" /\ pc' \in {"udf", "ready"}
    BY <1>9 DEF ChainDone, ChainOver
  <2>2. TypeOK'
    BY <1>9, <2>1 DEF ChainDone, TypeOK
  <2>3. pc' = "udf" => reader' # None
    BY <1>9 DEF ChainDone, TypeOK
  <2>4. QED
    BY <2>1, <2>2, <2>3 DEF ScanInv, ChainInv
<1>10. CASE DetectUdf
  <2>1. reader \in Descriptors
    BY <1>10 DEF DetectUdf, TypeOK, ChainInv
  <2>2. reader' \in Descriptors
    <3> DEFINE found == \E l \in FIRST .. UdfLimit - 1 :
                           Readable(l) /\ SectorAt(l).type = "nsr"
    <3>1. reader' = [reader EXCEPT !.udf = found]
      BY <1>10 DEF DetectUdf
    <3>2. found \in BOOLEAN
      OBVIOUS
    <3> HIDE DEF found
    <3>3. QED
      BY <2>1, <3>1, <3>2 DEF Descriptors
  <2>3. TypeOK'
    BY <1>10, <2>2 DEF DetectUdf, TypeOK
  <2>4. QED
    BY <1>10, <2>3 DEF DetectUdf, ScanInv, ChainInv
<1>11. CASE ReadRoot
  BY <1>11 DEF ReadRoot, TypeOK, ScanInv, ChainInv
<1>12. CASE ReadSession
  BY <1>12, ReadSessionOpen
<1>13. CASE NoSuchSession
  BY <1>13 DEF NoSuchSession, TypeOK, ScanInv, ChainInv
<1>14. CASE UNCHANGED vars
  <2>1. TypeOK' /\ ChainInv'
    BY <1>14 DEF vars, TypeOK, ChainInv, ChainStart
  <2>2. ScanInv'
    BY <1>14 DEF vars, ScanInv, Readable, SectorAt, Candidate, RootOf
  <2>3. QED
    BY <2>1, <2>2
<1>15. QED
  BY <1>1, <1>2, <1>3, <1>4, <1>5, <1>6, <1>7, <1>8, <1>9, <1>10, <1>11, <1>12, <1>13, <1>14
     DEF Next, OpenSteps, ChainSteps

(* What open and the session calls keep has its type, and open never leaves *)
(* the reader without its descriptors or its list of sessions.              *)
THEOREM TypeCorrect == Spec => []TypeOK
<1>1. OpenInv => TypeOK
  BY DEF OpenInv
<1>2. QED
  BY <1>1, InitOpen, NextOpen, PTL DEF Spec

--------------------------------------------------------------------------------

(* Of a session list that is kept: it still names the candidates.           *)
LEMMA SessionsKept ==
  ASSUME SessionsFound, pc \in {"chain", "udf", "ready"}, UNCHANGED <<img, sessions>>
  PROVE  SessionsFound'
<1>1. /\ \A l : SectorAt(l)' = SectorAt(l)
      /\ \A l : (Readable(l) /\ Candidate(l))' <=> Readable(l) /\ Candidate(l)
  BY DEF Readable, SectorAt, Candidate, RootOf
<1>2. {l \in FIRST .. ScanLimit - 1 : (Readable(l) /\ Candidate(l))'}
        = {l \in FIRST .. ScanLimit - 1 : Readable(l) /\ Candidate(l)}
  BY <1>1
<1>3. SectorAt(sessions[1])'.type = SectorAt(sessions[1]).type
  BY DEF SectorAt
<1>4. QED
  BY <1>2, <1>3 DEF SessionsFound

(* The scan stops at its limit or at a sector that cannot be read, and no   *)
(* candidate is behind that.                                                *)
LEMMA ScanEndFinds ==
  ASSUME OpenInv, ScanEnd, sessions' # <<>>
  PROVE  SessionsFound'
<1> USE DEF OpenInv
<1> DEFINE sound == {l \in FIRST .. ScanLimit - 1 : Readable(l) /\ Candidate(l)}
           found == {sessions[i] : i \in DOMAIN sessions}
<1>1. /\ pc = "scan" /\ lba \in FIRST .. ScanLimit /\ lba \in Nat
      /\ IsImage(img) /\ img' = img
      /\ sessions \in Seq(FIRST .. ScanLimit - 1) /\ Len(sessions) \in Nat
      /\ \A l \in FIRST .. lba - 1 : Readable(l)
      /\ found = {l \in FIRST .. lba - 1 : Candidate(l)}
  BY DEF ScanEnd, ScanInv, TypeOK
<1>2. \A l \in lba .. ScanLimit - 1 : ~Readable(l)
  <2>1. CASE lba = ScanLimit
    BY <1>1, <2>1
  <2>2. CASE ~Readable(lba)
    <3> TAKE l \in lba .. ScanLimit - 1
    <3>1. l \in Nat /\ l >= lba /\ lba >= FIRST
      BY <1>1
    <3>2. QED
      BY <1>1, <2>2, <3>1, NothingBehind
  <2>3. QED
    BY <1>1, <2>1, <2>2 DEF ScanEnd
<1>3. sound = found
  <2>1. ASSUME NEW l \in FIRST .. ScanLimit - 1, Readable(l)
        PROVE  l \in FIRST .. lba - 1
    BY <1>1, <1>2, <2>1
  <2>2. \A l \in FIRST .. lba - 1 : l \in FIRST .. ScanLimit - 1
    BY <1>1
  <2>3. QED
    BY SMTT(40), <1>1, <2>1, <2>2
<1>4. sound' = sound
  BY <1>1 DEF Readable, SectorAt, Candidate, RootOf
<1>5. CASE sessions = <<>>
  <2>1. sessions' = <<FIRST>> /\ first
    BY <1>5 DEF ScanEnd
  <2>2. found = {}
    BY <1>5
  <2>3. SectorAt(FIRST)'.type = "pvd"
    BY <1>1, <2>1 DEF ScanInv, SectorAt
  <2>4. /\ sessions'[1] = FIRST /\ Len(sessions') = 1 /\ DOMAIN sessions' = {1}
    BY <2>1
  <2>5. {sessions'[i] : i \in DOMAIN sessions'} = {FIRST}
    BY <2>4
  <2>6. \A i \in 1 .. Len(sessions') - 1 : sessions'[i] < sessions'[i + 1]
    BY <2>4
  <2>7. sound' = {}
    BY <1>3, <1>4, <2>2
  <2>8. SectorAt(sessions[1])'.type = "pvd"
    BY <2>3, <2>4 DEF SectorAt
  <2>9. QED
    BY <2>5, <2>6, <2>7, <2>8 DEF SessionsFound
<1>6. CASE sessions # <<>>
  <2>1. sessions' = sessions
    BY <1>6 DEF ScanEnd
  <2>2. 1 \in DOMAIN sessions
    BY <1>1, <1>6, EmptySeq
  <2>3. sessions[1] \in found
    BY <2>2
  <2>4. found # {} /\ Candidate(sessions[1])
    BY <1>1, <2>3
  <2>5. SectorAt(sessions[1])'.type = "pvd"
    BY <1>1, <2>1, <2>4 DEF Candidate, SectorAt
  <2>6. \A i \in 1 .. Len(sessions) - 1 : sessions[i] < sessions[i + 1]
    BY <1>1 DEF ScanInv
  <2>7. QED
    BY <1>3, <1>4, <2>1, <2>4, <2>5, <2>6 DEF SessionsFound
<1>7. QED
  BY <1>5, <1>6

(* The sessions an opened reader offers are exactly the sound descriptors   *)
(* among the sectors scanned, oldest first; or else the mandatory one.      *)
THEOREM SessionsAreFound == Spec => []SessionsFound
<1>1. Init => SessionsFound
  BY DEF Init, SessionsFound
<1>2. ASSUME OpenInv, SessionsFound, [Next]_vars
      PROVE  SessionsFound'
  <2>1. CASE ScanEnd
    <3>1. CASE sessions' = <<>>
      BY <2>1, <3>1 DEF ScanEnd, SessionsFound
    <3>2. QED
      BY <1>2, <2>1, <3>1, ScanEndFinds
  <2>2. CASE ScanSector \/ ScanFails
    BY <2>2 DEF ScanSector, ScanFails, Scanning, SessionsFound
  <2>3. CASE ChainSteps \/ DetectUdf \/ ReadRoot \/ ReadSession \/ NoSuchSession
    <3>1. pc \in {"chain", "udf", "ready"} /\ UNCHANGED <<img, sessions>>
      BY SMTT(40), <2>3
         DEF ChainSteps, ChainPvd, ChainSvd, ChainBoot, ChainOther, ChainFails, ChainDone,
                  Chaining, Gather, ChainError, ChainOver,
                  DetectUdf, ReadRoot, ReadSession, NoSuchSession
    <3>2. QED
      BY <1>2, <3>1, SessionsKept
  <2>4. CASE UNCHANGED vars
    BY SMTT(40), <1>2, <2>4 DEF vars, SessionsFound, Readable, SectorAt, Candidate, RootOf
  <2>5. QED
    BY <1>2, <2>1, <2>2, <2>3, <2>4 DEF Next, OpenSteps
<1>3. QED
  BY <1>1, <1>2, InitOpen, NextOpen, PTL DEF Spec

--------------------------------------------------------------------------------

(* Reading one more sector of a chain makes it the latest of its type.      *)
LEMMA LatestNext ==
  ASSUME lba \in Nat, ChainStart \in Nat, ChainStart <= lba,
         img' = img, lba' = lba + 1, ChainStart' = ChainStart, NEW types
  PROVE  Latest(types)' = IF Here.type \in types THEN {lba} ELSE Latest(types)
<1>1. \A l : SectorAt(l)' = SectorAt(l)
  BY DEF SectorAt
<1>2. ChainRead' = ChainRead \union {lba}
  BY DEF ChainRead
<1>3. Latest(types)' = {l \in ChainRead \union {lba} :
                          /\ SectorAt(l).type \in types
                          /\ \A m \in l + 1 .. lba : SectorAt(m).type \notin types}
  BY <1>1, <1>2 DEF Latest
<1>4. \A l \in ChainRead : l \in Nat /\ l < lba
  BY DEF ChainRead
<1>5. CASE Here.type \in types
  BY <1>3, <1>4, <1>5 DEF Here
<1>6. CASE Here.type \notin types
  <2>1. ASSUME NEW l \in ChainRead
        PROVE  (\A m \in l + 1 .. lba : SectorAt(m).type \notin types)
                 <=> (\A m \in l + 1 .. lba - 1 : SectorAt(m).type \notin types)
    <3>1. l + 1 .. lba = (l + 1 .. lba - 1) \union {lba}
      BY <1>4
    <3>2. QED
      BY <1>6, <3>1 DEF Here
  <2>2. QED
    BY <1>3, <1>6, <2>1 DEF Latest, Here
<1>7. QED
  BY <1>5, <1>6

(* A sector that is gathered keeps the preference.                          *)
LEMMA GatherJoliet ==
  ASSUME OpenInv, JolietPreferred, Chaining, NEW d \in Descriptors, Gather(d),
         IF Here.type = "joliet" \/ (Here.type = "enhanced" /\ ~chain.joliet)
         THEN d.svd = Here.root /\ (d.joliet <=> Here.type = "joliet")
         ELSE d.svd = chain.svd /\ d.joliet = chain.joliet
  PROVE  JolietPreferred'
<1> DEFINE J == Latest({"joliet"})
           E == Latest({"enhanced"})
<1>1. /\ pc = "chain" /\ lba \in Nat /\ ChainStart \in Nat /\ ChainStart <= lba
      /\ img' = img /\ lba' = lba + 1 /\ ChainStart' = ChainStart /\ chain' = d
  BY DEF OpenInv, TypeOK, ChainInv, Chaining, Gather, ChainStart
<1>2. /\ J' = IF Here.type \in {"joliet"} THEN {lba} ELSE J
      /\ E' = IF Here.type \in {"enhanced"} THEN {lba} ELSE E
  BY <1>1, LatestNext
<1>3. \A l : SectorAt(l)' = SectorAt(l)
  BY <1>1 DEF SectorAt
<1>4. /\ chain.joliet <=> J # {}
      /\ IF J # {} THEN \A l \in J : chain.svd = SectorAt(l).root
         ELSE IF E = {} THEN chain.svd = None ELSE \A l \in E : chain.svd = SectorAt(l).root
  BY <1>1 DEF JolietPreferred
<1> HIDE DEF J, E
<1>5. /\ d.joliet <=> J' # {}
      /\ IF J' # {} THEN \A l \in J' : d.svd = SectorAt(l).root
         ELSE IF E' = {} THEN d.svd = None ELSE \A l \in E' : d.svd = SectorAt(l).root
  <2>1. CASE Here.type = "joliet"
    BY <1>2, <2>1 DEF Here
  <2>2. CASE Here.type = "enhanced" /\ ~chain.joliet
    BY <1>2, <1>4, <2>2 DEF Here
  <2>3. CASE Here.type = "enhanced" /\ chain.joliet
    BY <1>2, <1>4, <2>3
  <2>4. CASE Here.type \notin {"joliet", "enhanced"}
    BY <1>2, <1>4, <2>4
  <2>5. QED
    BY <2>1, <2>2, <2>3, <2>4
<1>6. QED
  BY <1>1, <1>3, <1>5 DEF JolietPreferred, J, E

(* Of the chain of a session nothing is read when it starts.                *)
LEMMA FollowJoliet ==
  ASSUME OpenInv', pc' = "chain", chain' = NoDescriptors, lba' = ChainStart'
  PROVE  JolietPreferred'
<1>1. lba' \in Nat
  BY DEF OpenInv, TypeOK
<1>2. ChainRead' = {}
  <2>1. ChainRead' = lba' .. lba' - 1
    BY DEF ChainRead
  <2>2. \A n \in Nat : n .. n - 1 = {}
    OBVIOUS
  <2>3. QED
    BY <1>1, <2>1, <2>2
<1>3. Latest({"joliet"})' = {} /\ Latest({"enhanced"})' = {}
  BY <1>2 DEF Latest
<1>4. QED
  BY <1>3 DEF JolietPreferred, NoDescriptors

(* Whatever the order of the supplementary descriptors of a chain, the last *)
(* Joliet one is kept, and an enhanced one only where there is no Joliet one. *)
THEOREM JolietIsPreferred == Spec => []JolietPreferred
<1>1. Init => JolietPreferred
  BY DEF Init, JolietPreferred
<1>2. ASSUME OpenInv, OpenInv', JolietPreferred, [Next]_vars
      PROVE  JolietPreferred'
  <2>1. CASE ScanEnd \/ ReadSession
    <3>1. CASE pc' # "chain"
      BY <3>1 DEF JolietPreferred
    <3>2. CASE pc' = "chain" /\ ScanEnd
      <4>1. Follow(0, sessions'[Len(sessions')])
        BY <3>2 DEF ScanEnd, OpenInv, TypeOK
      <4>2. QED
        BY <1>2, <3>2, <4>1, FollowJoliet DEF Follow, ChainStart
    <3>3. CASE ReadSession
      <4>1. PICK i \in 1 .. Len(sessions) : Follow(i, sessions[i])
        BY <3>3 DEF ReadSession
      <4>2. i # 0 /\ sessions' = sessions
        BY <1>2, <3>3 DEF ReadSession, OpenInv, TypeOK
      <4>3. QED
        BY <1>2, <4>1, <4>2, FollowJoliet DEF Follow, ChainStart
    <3>4. QED
      BY <2>1, <3>1, <3>2, <3>3
  <2>2. IsImage(img) /\ lba \in Nat /\ chain \in Descriptors
    BY <1>2 DEF OpenInv, TypeOK
  <2>3. CASE ChainPvd
    <3> DEFINE d == IF chain.rr THEN [chain EXCEPT !.pvd = Here.root]
                    ELSE [chain EXCEPT !.pvd = Here.root,
                                       !.rr = RootOf(lba).rr,
                                       !.skip = IF RootOf(lba).rr THEN RootOf(lba).skip ELSE 0]
    <3>1. Chaining /\ Here.type = "pvd" /\ Gather(d)
      BY <2>3 DEF ChainPvd
    <3>2. d \in Descriptors
      BY <2>2, <3>1, ChainTypes
    <3>3. d.svd = chain.svd /\ d.joliet = chain.joliet
      BY <2>2 DEF Descriptors
    <3> HIDE DEF d
    <3>4. QED
      BY <1>2, <3>1, <3>2, <3>3, GatherJoliet
  <2>4. CASE ChainSvd
    <3> DEFINE d == IF Here.type = "joliet" \/ ~chain.joliet
                    THEN [chain EXCEPT !.svd = Here.root, !.joliet = Here.type = "joliet"]
                    ELSE chain
    <3>1. Chaining /\ Here.type \in {"joliet", "enhanced"} /\ Gather(d)
      BY <2>4 DEF ChainSvd
    <3>2. d \in Descriptors
      BY <2>2, <3>1, ChainTypes
    <3>3. IF Here.type = "joliet" \/ (Here.type = "enhanced" /\ ~chain.joliet)
          THEN d.svd = Here.root /\ (d.joliet <=> Here.type = "joliet")
          ELSE d.svd = chain.svd /\ d.joliet = chain.joliet
      BY <2>2, <3>1 DEF Descriptors
    <3> HIDE DEF d
    <3>4. QED
      BY <1>2, <3>1, <3>2, <3>3, GatherJoliet
  <2>5. CASE ChainBoot
    <3> DEFINE d == [chain EXCEPT !.boot = IF Here.type = "boot" THEN lba ELSE None]
    <3>1. Chaining /\ Here.type \in {"boot", "zero", "nsr"} /\ Gather(d)
      BY <2>5 DEF ChainBoot
    <3>2. d \in Descriptors
      BY <2>2, ChainTypes
    <3>3. d.svd = chain.svd /\ d.joliet = chain.joliet
      BY <2>2 DEF Descriptors
    <3> HIDE DEF d
    <3>4. QED
      BY <1>2, <3>1, <3>2, <3>3, GatherJoliet
  <2>6. CASE ChainOther
    BY <1>2, <2>2, <2>6, GatherJoliet DEF ChainOther
  <2>7. CASE ScanSector \/ ScanFails \/ ChainFails \/ ChainDone \/ DetectUdf \/ ReadRoot
               \/ NoSuchSession
    <3>1. pc' # "chain"
      BY <2>7 DEF ScanSector, Scanning, ScanFails, ChainFails, ChainError, ChainDone, DetectUdf,
                  ReadRoot, NoSuchSession
    <3>2. QED
      BY <3>1 DEF JolietPreferred
  <2>8. CASE UNCHANGED vars
    BY SMTT(40), <1>2, <2>8 DEF vars, JolietPreferred, Latest, ChainRead, ChainStart, SectorAt
  <2>9. QED
    BY <1>2, <2>1, <2>3, <2>4, <2>5, <2>6, <2>7, <2>8 DEF Next, OpenSteps, ChainSteps
<1>3. QED
  BY <1>1, <1>2, InitOpen, NextOpen, PTL DEF Spec

--------------------------------------------------------------------------------

(* Of a regular image: a chain being read is on its way to a terminator     *)
(* that comes before the guard, before any other primary descriptor and     *)
(* before whatever fails a chain; so the descriptor it started with is the  *)
(* one it ends with.                                                        *)
OnCourse ==
  \E t \in DOMAIN img.sectors :
    /\ ChainStart < t /\ t < ChainStart + ChainLimit /\ SectorAt(t).type = "end"
    /\ \A m \in ChainStart + 1 .. t - 1 :
         SectorAt(m).type \notin {"pvd", "unsigned", "damaged"}
    /\ lba <= t

OwnChain ==
  pc = "chain" /\ Regular =>
    /\ OnCourse
    /\ lba = ChainStart + guard
    /\ lba > ChainStart => chain.pvd = SectorAt(ChainStart).root

OwnInv ==
  /\ pc = "scan" => answer = NoCall
  /\ answer.kind = "listing" => answer.session \in 1 .. Len(sessions)
  /\ reader # None /\ Regular => reader.pvd = SectorAt(sessions[Len(sessions)]).root
  /\ OwnChain
  /\ SessionOwnPvd

LEMMA ImageKept ==
  ASSUME img' = img
  PROVE  /\ Regular' <=> Regular
         /\ \A l : SectorAt(l)' = SectorAt(l)
         /\ \A l : (Readable(l) /\ Candidate(l))' <=> Readable(l) /\ Candidate(l)
<1>1. \A l : SectorAt(l)' = SectorAt(l) /\ RootOf(l)'.state = RootOf(l).state
  BY DEF SectorAt, RootOf
<1>2. \A l : ChainEnds(l)' <=> ChainEnds(l)
  BY <1>1 DEF ChainEnds
<1>3. Regular' <=> Regular
  BY <1>1, <1>2 DEF Regular
<1>4. QED
  BY <1>1, <1>3 DEF Readable, Candidate, SectorAt, RootOf

(* Every session offered is a primary descriptor of the image, and a sound  *)
(* one where the scan met a sound one.                                      *)
LEMMA SessionIsPvd ==
  ASSUME TypeOK, SessionsFound, pc \in {"chain", "udf", "ready"},
         NEW i \in 1 .. Len(sessions)
  PROVE  /\ sessions[i] \in Nat
         /\ sessions[i] \in DOMAIN img.sectors
         /\ SectorAt(sessions[i]).type = "pvd"
         /\ (\E l \in FIRST .. ScanLimit - 1 : Readable(l) /\ Candidate(l))
              => Candidate(sessions[i])
<1> DEFINE sound == {l \in FIRST .. ScanLimit - 1 : Readable(l) /\ Candidate(l)}
           found == {sessions[j] : j \in DOMAIN sessions}
<1>1. /\ found = IF sound = {} THEN {FIRST} ELSE sound
      /\ SectorAt(sessions[1]).type = "pvd"
  BY DEF SessionsFound
<1>2. Len(sessions) \in Nat \ {0} /\ DOMAIN sessions = 1 .. Len(sessions)
  BY EmptySeq, LenProperties DEF TypeOK
<1>3. sessions[i] \in found /\ sessions[1] \in found
  BY <1>2
<1>4. SectorAt(sessions[i]).type = "pvd" /\ (sound # {} => Candidate(sessions[i]))
  <2>1. CASE sound = {}
    BY <1>1, <1>3, <2>1
  <2>2. CASE sound # {}
    BY SMTT(40), <1>1, <1>3, <2>2 DEF Candidate
  <2>3. QED
    BY <2>1, <2>2
<1>5. sessions[i] \in DOMAIN img.sectors
  BY <1>4 DEF SectorAt
<1>6. sessions[i] \in Nat
  <2>1. sessions \in Seq(FIRST .. ScanLimit - 1)
    BY DEF TypeOK
  <2>2. sessions[i] \in FIRST .. ScanLimit - 1
    BY <2>1, <1>2, ElementOfSeq
  <2>3. QED
    BY <2>2
<1>7. QED
  BY <1>4, <1>5, <1>6

(* The chain being read started at such a descriptor.                       *)
LEMMA StartIsPvd ==
  ASSUME TypeOK, SessionsFound, pc = "chain"
  PROVE  /\ ChainStart \in Nat
         /\ ChainStart \in DOMAIN img.sectors
         /\ SectorAt(ChainStart).type = "pvd"
         /\ (\E l \in FIRST .. ScanLimit - 1 : Readable(l) /\ Candidate(l))
              => Candidate(ChainStart)
<1>1. PICK i \in 1 .. Len(sessions) : ChainStart = sessions[i]
  <2>1. Len(sessions) \in Nat \ {0} /\ call \in 0 .. Len(sessions)
    BY EmptySeq, LenProperties DEF TypeOK
  <2>2. QED
    BY <2>1 DEF ChainStart
<1>2. QED
  BY <1>1, SessionIsPvd

(* A chain that starts on a regular image is on its way to its terminator.  *)
LEMMA CourseStarts ==
  TypeOK /\ SessionsFound /\ pc = "chain" /\ guard = 0 /\ lba = ChainStart => OwnChain
<1> SUFFICES ASSUME TypeOK, SessionsFound, pc = "chain", guard = 0, lba = ChainStart, Regular
             PROVE  /\ OnCourse
                    /\ lba = ChainStart + guard
                    /\ lba > ChainStart => chain.pvd = SectorAt(ChainStart).root
  BY DEF OwnChain
<1>1. ChainEnds(ChainStart)
  BY StartIsPvd DEF Regular
<1>2. PICK t \in DOMAIN img.sectors :
        /\ ChainStart < t /\ t < ChainStart + ChainLimit /\ SectorAt(t).type = "end"
        /\ \A m \in ChainStart + 1 .. t - 1 :
             SectorAt(m).type \notin {"pvd", "unsigned", "damaged"}
  BY <1>1 DEF ChainEnds
<1>3. t \in Nat
  BY SMTT(40), FS_CardinalityType DEF TypeOK, IsImage
<1>4. OnCourse
  BY <1>2, <1>3, StartIsPvd DEF OnCourse
<1>5. QED
  BY <1>4, StartIsPvd

(* A sector gathered that is no terminator leaves the chain on its way.     *)
LEMMA GatherOwn ==
  ASSUME OpenInv, SessionsFound, OwnChain, Chaining, Here.type # "end",
         NEW d, Gather(d),
         d.pvd = IF Here.type = "pvd" THEN Here.root ELSE chain.pvd
  PROVE  OwnChain'
<1>1. /\ pc = "chain" /\ lba \in Nat /\ guard \in Nat /\ ChainLimit \in Nat
      /\ img' = img /\ lba' = lba + 1 /\ guard' = guard + 1 /\ chain' = d
      /\ ChainStart' = ChainStart /\ IsImage(img)
  BY DEF OpenInv, TypeOK, Chaining, Gather, ChainStart
<1>2. /\ ChainStart \in Nat /\ ChainStart <= lba
      /\ SectorAt(ChainStart).type = "pvd"
  BY <1>1, StartIsPvd DEF OpenInv, ChainInv
<1>3. SUFFICES ASSUME Regular
               PROVE  /\ OnCourse'
                      /\ lba + 1 = ChainStart + (guard + 1)
                      /\ d.pvd = SectorAt(ChainStart).root
  <2>1. SectorAt(ChainStart)' = SectorAt(ChainStart)
    BY <1>1 DEF SectorAt
  <2>2. QED
    BY <1>1, <1>3, <2>1, ImageKept DEF OwnChain
<1>4. PICK t \in DOMAIN img.sectors :
        /\ ChainStart < t /\ t < ChainStart + ChainLimit /\ SectorAt(t).type = "end"
        /\ \A m \in ChainStart + 1 .. t - 1 :
             SectorAt(m).type \notin {"pvd", "unsigned", "damaged"}
        /\ lba <= t
  BY <1>1, <1>3 DEF OwnChain, OnCourse
<1>5. t \in Nat /\ lba < t
  <2>1. t \in Nat
    BY <1>1, FS_CardinalityType DEF IsImage
  <2>2. lba # t
    BY <1>4 DEF Here
  <2>3. QED
    BY <1>1, <1>4, <2>1, <2>2
<1>6. OnCourse'
  <2>1. \A l : SectorAt(l)' = SectorAt(l)
    BY <1>1 DEF SectorAt
  <2>2. QED
    BY <1>1, <1>4, <1>5, <2>1 DEF OnCourse
<1>7. lba + 1 = ChainStart + (guard + 1)
  BY <1>1, <1>2, <1>3 DEF OwnChain
<1>8. d.pvd = SectorAt(ChainStart).root
  <2>1. CASE lba = ChainStart
    BY <1>2, <2>1 DEF Here
  <2>2. CASE lba # ChainStart
    <3>1. lba > ChainStart /\ lba \in ChainStart + 1 .. t - 1
      BY <1>1, <1>2, <1>5, <2>2
    <3>2. Here.type # "pvd" /\ chain.pvd = SectorAt(ChainStart).root
      BY <1>1, <1>3, <1>4, <3>1 DEF Here, OwnChain
    <3>3. QED
      BY <3>2
  <2>3. QED
    BY <2>1, <2>2
<1>9. QED
  BY <1>6, <1>7, <1>8

(* On a regular image nothing fails a chain whose first root can be read,   *)
(* and it ends at a terminator behind its first descriptor.                 *)
LEMMA CourseFacts ==
  ASSUME OpenInv, SessionsFound, OwnChain, pc = "chain", Regular
  PROVE  /\ Guarded /\ Readable(lba)
         /\ Here.type \notin {"unsigned", "damaged"}
         /\ Here.type = "pvd" <=> lba = ChainStart
         /\ lba # ChainStart => chain.pvd = SectorAt(ChainStart).root
<1>1. /\ lba \in Nat /\ guard \in Nat /\ ChainLimit \in Nat /\ IsImage(img)
  BY DEF OpenInv, TypeOK
<1>2. /\ ChainStart \in Nat /\ ChainStart <= lba
      /\ ChainStart \in DOMAIN img.sectors
      /\ SectorAt(ChainStart).type = "pvd"
  BY StartIsPvd DEF OpenInv, ChainInv
<1>3. PICK t \in DOMAIN img.sectors :
        /\ ChainStart < t /\ t < ChainStart + ChainLimit /\ SectorAt(t).type = "end"
        /\ \A m \in ChainStart + 1 .. t - 1 :
             SectorAt(m).type \notin {"pvd", "unsigned", "damaged"}
        /\ lba <= t
  BY DEF OwnChain, OnCourse
<1>4. /\ Cardinality(DOMAIN img.sectors) \in Nat
      /\ DOMAIN img.sectors = FIRST .. FIRST + Cardinality(DOMAIN img.sectors) - 1
  BY <1>1, FS_CardinalityType DEF IsImage
<1>5. t \in Nat /\ lba \in DOMAIN img.sectors
  BY <1>1, <1>2, <1>3, <1>4
<1>6. lba = ChainStart \/ lba = t \/ lba \in ChainStart + 1 .. t - 1
  BY <1>1, <1>2, <1>3, <1>5
<1>7. Guarded
  <2>1. lba = ChainStart + guard
    BY DEF OwnChain
  <2>2. QED
    BY <1>1, <1>2, <1>3, <1>5, <2>1 DEF Guarded
<1>8. /\ Here.type \notin {"unsigned", "damaged"}
      /\ Here.type = "pvd" <=> lba = ChainStart
  BY <1>2, <1>3, <1>6 DEF Here
<1>9. lba # ChainStart => chain.pvd = SectorAt(ChainStart).root
  BY <1>1, <1>2 DEF OwnChain
<1>10. QED
  BY <1>5, <1>7, <1>8, <1>9 DEF Readable

(* A step that neither answers nor changes what the reader keeps.           *)
LEMMA OwnKept ==
  ASSUME OwnInv, UNCHANGED <<img, sessions, answer>>, pc' # "scan",
         reader' = reader \/ (reader' # None => reader # None /\ reader'.pvd = reader.pvd),
         OwnChain'
  PROVE  OwnInv'
<1>1. Regular' <=> Regular
  BY ImageKept
<1>2. SessionOwnPvd'
  BY <1>1 DEF OwnInv, SessionOwnPvd, SectorAt
<1>3. reader' # None /\ Regular' => reader'.pvd = (SectorAt(sessions[Len(sessions)]).root)'
  BY <1>1 DEF OwnInv, SectorAt
<1>4. QED
  BY <1>2, <1>3 DEF OwnInv

(* What open keeps, and what a session call answers, is the root of the     *)
(* session's own descriptor.                                                *)
LEMMA ChainDoneOwn ==
  ASSUME OpenInv, SessionsFound, OwnInv, ChainDone
  PROVE  OwnInv'
<1>1. /\ pc = "chain" /\ pc' \in {"udf", "ready"} /\ UNCHANGED <<img, sessions, call>>
      /\ call \in 0 .. Len(sessions) /\ Len(sessions) \in Nat
  BY LenProperties DEF ChainDone, ChainOver, OpenInv, TypeOK
<1>2. Regular => chain.pvd = SectorAt(ChainStart).root
  <2> SUFFICES ASSUME Regular PROVE chain.pvd = SectorAt(ChainStart).root
    OBVIOUS
  <2>1. Guarded /\ (Here.type = "pvd" <=> lba = ChainStart)
        /\ (lba # ChainStart => chain.pvd = SectorAt(ChainStart).root)
    BY <1>1, CourseFacts DEF OwnInv
  <2>2. Here.type = "end"
    BY <2>1 DEF ChainDone, ChainOver
  <2>3. QED
    BY <2>1, <2>2
<1>3. (Regular' <=> Regular) /\ \A l : SectorAt(l)' = SectorAt(l)
  BY <1>1, ImageKept
<1>4. OwnChain'
  BY <1>1 DEF OwnChain
<1>5. CASE call = 0
  <2>1. /\ reader' = chain /\ answer' = answer
        /\ ChainStart = sessions[Len(sessions)]
    BY <1>1, <1>5 DEF ChainDone, ChainStart
  <2>2. SessionOwnPvd'
    BY <1>1, <1>3, <2>1 DEF OwnInv, SessionOwnPvd, SectorAt
  <2>3. Regular' => reader'.pvd = (SectorAt(sessions[Len(sessions)]).root)'
    BY <1>1, <1>2, <1>3, <2>1 DEF SectorAt
  <2>4. QED
    BY <1>1, <1>4, <2>1, <2>2, <2>3 DEF OwnInv
<1>6. CASE call # 0
  <2>1. /\ reader' = reader /\ answer'.kind = "listing"
        /\ answer'.session = call /\ answer'.root = chain.pvd
        /\ ChainStart = sessions[call] /\ call \in 1 .. Len(sessions)
    BY <1>1, <1>6 DEF ChainDone, ChainStart, Listing
  <2>2. SessionOwnPvd'
    BY <1>1, <1>2, <1>3, <2>1 DEF SessionOwnPvd, SectorAt
  <2>3. reader' # None /\ Regular' => reader'.pvd = (SectorAt(sessions[Len(sessions)]).root)'
    BY <1>1, <1>3, <2>1 DEF OwnInv, SectorAt
  <2>4. QED
    BY <1>1, <1>4, <2>1, <2>2, <2>3 DEF OwnInv
<1>7. QED
  BY <1>5, <1>6

LEMMA ReadRootOwn ==
  ASSUME OpenInv, OwnInv, ReadRoot
  PROVE  OwnInv'
<1>1. /\ pc = "ready" /\ UNCHANGED <<img, pc, sessions, reader>>
      /\ reader # None /\ Len(sessions) \in Nat \ {0}
      /\ answer' = Listing(Len(sessions), reader.pvd, reader.skip)
  BY EmptySeq, LenProperties DEF ReadRoot, OpenInv, TypeOK
<1>2. (Regular' <=> Regular) /\ \A l : SectorAt(l)' = SectorAt(l)
  BY <1>1, ImageKept
<1>3. answer'.session = Len(sessions) /\ answer'.root = reader.pvd
  BY <1>1 DEF Listing
<1>4. SessionOwnPvd'
  BY <1>1, <1>2, <1>3 DEF OwnInv, SessionOwnPvd, SectorAt
<1>5. reader' # None /\ Regular' => reader'.pvd = (SectorAt(sessions[Len(sessions)]).root)'
  BY <1>1, <1>2 DEF OwnInv, SectorAt
<1>6. QED
  BY <1>1, <1>3, <1>4, <1>5 DEF OwnInv, OwnChain

LEMMA OwnStep == OpenInv /\ OpenInv' /\ SessionsFound /\ SessionsFound' /\ OwnInv /\ [Next]_vars
                   => OwnInv'
<1> SUFFICES ASSUME OpenInv, OpenInv', SessionsFound, SessionsFound', OwnInv, [Next]_vars
             PROVE  OwnInv'
  OBVIOUS
<1>1. (TypeOK /\ SessionsFound /\ pc = "chain" /\ guard = 0 /\ lba = ChainStart => OwnChain)'
  BY CourseStarts, PTL
<1>2. ASSUME pc' = "chain", guard' = 0, lba' = ChainStart' PROVE OwnChain'
  BY <1>1, <1>2 DEF OpenInv
<1>3. ASSUME UNCHANGED <<img, sessions, reader, answer>>, pc # "scan", pc' # "scan", OwnChain'
      PROVE  OwnInv'
  BY <1>3, OwnKept
<1>4. CASE ScanSector \/ ScanFails \/ ScanEnd
  <2>1. /\ pc = "scan" /\ reader' = None /\ answer' = NoCall
    BY <1>4 DEF ScanSector, ScanFails, ScanEnd, Scanning, OwnInv, OpenInv, ScanInv
  <2>2. OwnChain'
    <3>1. CASE pc' # "chain"
      BY <3>1 DEF OwnChain
    <3>2. CASE pc' = "chain"
      <4>1. Follow(0, sessions'[Len(sessions')])
        BY <1>4, <2>1, <3>2 DEF ScanSector, ScanFails, ScanEnd
      <4>2. QED
        BY <1>2, <4>1 DEF Follow, ChainStart
    <3>3. QED
      BY <3>1, <3>2
  <2>3. QED
    BY <2>1, <2>2 DEF OwnInv, NoCall, SessionOwnPvd
<1>5. ASSUME Chaining, NEW d, Gather(d), Here.type # "end",
             d.pvd = IF Here.type = "pvd" THEN Here.root ELSE chain.pvd
      PROVE  OwnInv'
  <2>1. OwnChain'
    BY <1>5, GatherOwn DEF OwnInv
  <2>2. QED
    BY <1>3, <1>5, <2>1 DEF Gather, Chaining
<1>6. chain \in Descriptors
  BY DEF OpenInv, TypeOK
<1>7. CASE ChainPvd
  <2> DEFINE d == IF chain.rr THEN [chain EXCEPT !.pvd = Here.root]
                  ELSE [chain EXCEPT !.pvd = Here.root,
                                     !.rr = RootOf(lba).rr,
                                     !.skip = IF RootOf(lba).rr THEN RootOf(lba).skip ELSE 0]
  <2>1. Chaining /\ Here.type = "pvd" /\ Gather(d)
    BY <1>7 DEF ChainPvd
  <2>2. d.pvd = Here.root
    BY <1>6 DEF Descriptors
  <2> HIDE DEF d
  <2>3. QED
    BY <1>5, <2>1, <2>2
<1>8. CASE ChainSvd
  <2> DEFINE d == IF Here.type = "joliet" \/ ~chain.joliet
                  THEN [chain EXCEPT !.svd = Here.root, !.joliet = Here.type = "joliet"]
                  ELSE chain
  <2>1. Chaining /\ Here.type \in {"joliet", "enhanced"} /\ Gather(d)
    BY <1>8 DEF ChainSvd
  <2>2. d.pvd = chain.pvd
    BY <1>6 DEF Descriptors
  <2> HIDE DEF d
  <2>3. QED
    BY <1>5, <2>1, <2>2
<1>9. CASE ChainBoot
  <2> DEFINE d == [chain EXCEPT !.boot = IF Here.type = "boot" THEN lba ELSE None]
  <2>1. Chaining /\ Here.type \in {"boot", "zero", "nsr"} /\ Gather(d)
    BY <1>9 DEF ChainBoot
  <2>2. d.pvd = chain.pvd
    BY <1>6 DEF Descriptors
  <2> HIDE DEF d
  <2>3. QED
    BY <1>5, <2>1, <2>2
<1>10. CASE ChainOther
  BY <1>5, <1>10 DEF ChainOther
<1>11. CASE ChainDone
  BY <1>11, ChainDoneOwn
<1>12. CASE ReadSession
  <2>1. PICK i \in 1 .. Len(sessions) : Follow(i, sessions[i])
    BY <1>12 DEF ReadSession
  <2>2. /\ pc = "ready" /\ pc' = "chain" /\ UNCHANGED <<img, sessions, reader, answer>>
        /\ i # 0
    BY <1>12, <2>1 DEF ReadSession, Follow, OpenInv, TypeOK
  <2>3. OwnChain'
    BY <1>2, <2>1, <2>2 DEF Follow, ChainStart
  <2>4. QED
    BY <1>3, <2>2, <2>3
<1>13. CASE ReadRoot
  BY <1>13, ReadRootOwn
<1>14. CASE ChainFails \/ NoSuchSession
  <2>1. /\ pc # "scan" /\ pc' \in {"ready", "failed"} /\ answer' = Error
        /\ UNCHANGED <<img, sessions, reader>>
    BY <1>14 DEF ChainFails, ChainError, NoSuchSession
  <2>2. OwnChain'
    BY <2>1 DEF OwnChain
  <2>3. Regular' <=> Regular
    BY <2>1, ImageKept
  <2>4. reader' # None /\ Regular' => reader'.pvd = (SectorAt(sessions[Len(sessions)]).root)'
    BY <2>1, <2>3 DEF OwnInv, SectorAt
  <2>5. QED
    BY <2>1, <2>2, <2>4 DEF OwnInv, Error, SessionOwnPvd
<1>15. CASE DetectUdf
  <2>1. /\ pc = "udf" /\ pc' = "ready" /\ UNCHANGED <<img, sessions, answer>>
        /\ reader \in Descriptors /\ reader # None
    BY <1>15 DEF DetectUdf, OpenInv, TypeOK, ChainInv
  <2>2. reader'.pvd = reader.pvd
    <3> DEFINE found == \E l \in FIRST .. UdfLimit - 1 :
                           Readable(l) /\ SectorAt(l).type = "nsr"
    <3>1. reader' = [reader EXCEPT !.udf = found]
      BY <1>15 DEF DetectUdf
    <3> HIDE DEF found
    <3>2. QED
      BY <2>1, <3>1 DEF Descriptors
  <2>3. OwnChain'
    BY <2>1 DEF OwnChain
  <2>4. QED
    BY <2>1, <2>2, <2>3, OwnKept
<1>16. CASE UNCHANGED vars
  <2>1. UNCHANGED <<img, pc, lba, sessions, call, guard, chain, reader, answer>>
    BY <1>16 DEF vars
  <2>2. OnCourse' <=> OnCourse
    BY <2>1 DEF OnCourse, ChainStart, SectorAt
  <2>3. OwnChain'
    BY <2>1, <2>2, ImageKept DEF OwnInv, OwnChain, ChainStart, SectorAt
  <2>4. CASE pc = "scan"
    <3>1. reader' = None /\ answer' = NoCall
      BY <2>1, <2>4 DEF OwnInv, OpenInv, ScanInv
    <3>2. QED
      BY <2>3, <3>1 DEF OwnInv, NoCall, SessionOwnPvd
  <2>5. CASE pc # "scan"
    BY <1>3, <2>1, <2>3, <2>5
  <2>6. QED
    BY <2>4, <2>5
<1>17. QED
  BY <1>4, <1>7, <1>8, <1>9, <1>10, <1>11, <1>12, <1>13, <1>14, <1>15, <1>16
     DEF Next, OpenSteps, ChainSteps

(* On a regular image, whatever sessions follow it and in whatever order    *)
(* the calls come, a listing for a session is that of the root directory    *)
(* its own descriptor names.                                                *)
THEOREM SessionsOwnPvd == Spec => []SessionOwnPvd
<1>1. Init => OwnInv
  BY DEF Init, OwnInv, OwnChain, SessionOwnPvd, NoCall
<1>2. OwnInv => SessionOwnPvd
  BY DEF OwnInv
<1>3. Init => OpenInv
  BY InitOpen
<1>4. Spec => []OpenInv
  BY <1>3, NextOpen, PTL DEF Spec
<1>5. QED
  BY <1>1, <1>2, <1>4, OwnStep, SessionsAreFound, PTL DEF Spec

--------------------------------------------------------------------------------

(* A failed open has met no sound session on a regular image: the scan      *)
(* fails at no sector of it, and ends without a session only when it passed *)
(* over no candidate; and the chain of a sound session does not fail.       *)
LEMMA SoundStep == OpenInv /\ SessionsFound /\ OwnInv /\ SoundOpens /\ [Next]_vars
                     => SoundOpens'
<1> SUFFICES ASSUME OpenInv, SessionsFound, OwnInv, SoundOpens, [Next]_vars,
                    pc' = "failed", Regular', NEW l \in FIRST .. ScanLimit - 1,
                    (Readable(l) /\ Candidate(l))'
             PROVE  FALSE
  BY DEF SoundOpens
<1>1. img' = img
  BY DEF Next, OpenSteps, ChainSteps, ScanSector, ScanFails, ScanEnd, ChainPvd, ChainSvd,
         ChainBoot, ChainOther, Gather, ChainFails, ChainError, ChainDone, DetectUdf,
         ReadRoot, ReadSession, NoSuchSession, vars
<1>2. Regular /\ Readable(l) /\ Candidate(l)
  BY <1>1, ImageKept
<1>3. pc # "failed"
  BY <1>2 DEF SoundOpens
<1>4. ScanFails \/ ScanEnd \/ ChainFails
  BY <1>3 DEF Next, OpenSteps, ChainSteps, ScanSector, Scanning, ChainPvd, ChainSvd,
         ChainBoot, ChainOther, Chaining, Gather, ChainDone, ChainOver, DetectUdf,
         ReadRoot, ReadSession, NoSuchSession, vars, Follow
<1>5. CASE ScanFails
  <2>1. Unscannable
    BY <1>5 DEF ScanFails
  <2>2. lba \in DOMAIN img.sectors
    BY <2>1 DEF Unscannable, SectorAt
  <2>3. QED
    BY <1>2, <2>1, <2>2 DEF Regular, Unscannable
<1>6. CASE ScanEnd
  <2>1. sessions = <<>> /\ pc = "scan" /\ ~(lba < ScanLimit /\ Readable(lba))
    BY <1>6 DEF ScanEnd, Follow
  <2>2. {m \in FIRST .. lba - 1 : Candidate(m)} = {}
    <3>1. {sessions[i] : i \in DOMAIN sessions} = {}
      BY <2>1
    <3>2. QED
      BY <2>1, <3>1 DEF OpenInv, ScanInv
  <2>3. lba \in Nat /\ FIRST <= lba /\ l \in Nat /\ IsImage(img) /\ lba <= ScanLimit
    BY <2>1 DEF OpenInv, ScanInv, TypeOK
  <2>4. l >= lba /\ l < ScanLimit
    BY <1>2, <2>2, <2>3
  <2>5. ~Readable(lba)
    BY <2>1, <2>3, <2>4
  <2>6. ~Readable(l)
    BY <2>3, <2>4, <2>5, NothingBehind
  <2>7. QED
    BY <1>2, <2>6
<1>7. CASE ChainFails
  <2>1. pc = "chain" /\ (~Readable(lba) \/ Here.type \in {"unsigned", "damaged"}
                          \/ (Here.type = "pvd" /\ RootUnread))
    BY <1>7 DEF ChainFails
  <2>2. /\ Readable(lba) /\ Here.type \notin {"unsigned", "damaged"}
        /\ Here.type = "pvd" <=> lba = ChainStart
    BY <1>2, <2>1, CourseFacts DEF OwnInv
  <2>3. lba = ChainStart /\ RootUnread
    BY <2>1, <2>2
  <2>4. Candidate(ChainStart)
    BY <1>2, <2>1, StartIsPvd DEF OpenInv
  <2>5. QED
    BY <2>3, <2>4 DEF Candidate, RootUnread
<1>8. QED
  BY <1>4, <1>5, <1>6, <1>7

(* A regular image with a sound session among the sectors scanned is        *)
(* opened, whatever else looks like one.                                    *)
THEOREM SoundSessionOpens == Spec => []SoundOpens
<1>1. Init => OwnInv /\ SoundOpens
  BY DEF Init, OwnInv, OwnChain, SessionOwnPvd, NoCall, SoundOpens
<1>2. Spec => []OpenInv
  BY InitOpen, NextOpen, PTL DEF Spec
<1>3. QED
  BY <1>1, <1>2, OwnStep, SoundStep, SessionsAreFound, PTL DEF Spec

================================================================================
