---------------------------- MODULE DirRecordsProofs ----------------------------
(***************************************************************************)
(* Proofs about DirRecords, for every directory and sector size.            *)
(***************************************************************************)
EXTENDS DirRecords, SequenceTheorems, FiniteSetTheorems, TLAPS

USE SectorAssumption, RegionAssumption

(* Rounding up to a sector never goes back, and less than a sector forward. *)
LEMMA RoundUpBounds ==
  ASSUME NEW n \in Nat
  PROVE  RoundUp(n) \in Nat /\ n <= RoundUp(n) /\ RoundUp(n) < n + SECTOR
<1> DEFINE q == (n + SECTOR - 1) \div SECTOR
<1>1. q \in Nat /\ SECTOR * q <= n + SECTOR - 1 /\ n + SECTOR - 1 < SECTOR * q + SECTOR
  OBVIOUS
<1>2. RoundUp(n) = q * SECTOR
  BY DEF RoundUp
<1> HIDE DEF q
<1>3. q * SECTOR \in Nat /\ q * SECTOR = SECTOR * q
  BY <1>1
<1>4. QED
  BY <1>1, <1>2, <1>3

LEMMA RoundUpMonotone ==
  ASSUME NEW m \in Nat, NEW n \in Nat, m <= n
  PROVE  RoundUp(m) <= RoundUp(n)
<1> DEFINE p == (m + SECTOR - 1) \div SECTOR
           q == (n + SECTOR - 1) \div SECTOR
<1>1. /\ p \in Nat /\ q \in Nat
      /\ SECTOR * p <= m + SECTOR - 1 /\ n + SECTOR - 1 < SECTOR * q + SECTOR
  OBVIOUS
<1>2. RoundUp(m) = p * SECTOR /\ RoundUp(n) = q * SECTOR
  BY DEF RoundUp
<1> HIDE DEF p, q
<1>3. SECTOR * p < SECTOR * (q + 1)
  BY <1>1
<1>4. p < q + 1
  BY <1>1, <1>3
<1>5. p * SECTOR <= q * SECTOR
  BY <1>1, <1>4
<1>6. QED
  BY <1>2, <1>5

(* Records are found at increasing offsets, behind the cursor.              *)
Increasing ==
  /\ \A i, j \in 1 .. Len(records) : i < j => records[i] < records[j]
  /\ \A i \in 1 .. Len(records) : records[i] < offset

(* What is merged are the records up to the iterator; the extents in hand   *)
(* are the last of them, share a name, and all but the last announce more.  *)
InHand ==
  /\ Len(chain) < next
  /\ pc \in {"parse", "areas"} => next = 1 /\ chain = <<>> /\ merged = <<>>
  /\ \A i \in 1 .. Len(chain) :
       /\ chain[i] = records[next - 1 - Len(chain) + i]
       /\ data[chain[i]].name = data[chain[1]].name
       /\ i < Len(chain) => data[chain[i]].multi

DirInv == TypeOK /\ data \in Regions /\ Increasing /\ InHand

LEMMA EndNat ==
  ASSUME data \in Regions
  PROVE  /\ End \in Nat /\ DOMAIN data = 0 .. End - 1
         /\ \A o \in DOMAIN data : data[o] \in Records \union {Zero, Bad}
  BY FS_CardinalityType DEF End

LEMMA InitDir == Init => DirInv
<1> SUFFICES ASSUME Init PROVE DirInv
  OBVIOUS
<1>1. records = <<>> /\ chain = <<>> /\ merged = <<>> /\ next = 1 /\ data \in Regions
  BY DEF Init
<1>2. Len(records) = 0 /\ Len(chain) = 0
  BY <1>1
<1>3. Increasing /\ InHand
  BY <1>1, <1>2 DEF Increasing, InHand
<1>4. offset \in 0 .. RoundUp(End)
  BY <1>1, EndNat, RoundUpBounds DEF Init
<1>5. TypeOK
  BY <1>1, <1>2, <1>4, EndNat DEF Init, TypeOK
<1>6. QED
  BY <1>1, <1>3, <1>5 DEF DirInv

LEMMA TakeRecordDir ==
  ASSUME DirInv, TakeRecord
  PROVE  DirInv'
<1> USE DEF DirInv
<1>1. /\ offset \in Nat /\ offset < End /\ End \in Nat
      /\ offset \in DOMAIN data /\ Here.len \in Nat \ {0} /\ offset + Here.len <= End
      /\ records \in Seq(DOMAIN data) /\ Len(records) \in Nat
      /\ UNCHANGED <<data, pc, next, chain, merged>> /\ offset' = offset + Here.len
      /\ pc = "parse"
  <2>1. Here.len \in Nat \ {0}
    BY DEF TakeRecord, Records
  <2>2. offset \in Nat /\ End \in Nat /\ DOMAIN data = 0 .. End - 1
    BY EndNat, RoundUpBounds DEF TypeOK
  <2>3. QED
    BY <2>1, <2>2, LenProperties DEF TakeRecord, TypeOK, Fits
<1>2. next = 1 /\ chain = <<>> /\ merged = <<>>
  BY <1>1 DEF InHand
<1>3. /\ records' \in Seq(DOMAIN data)
      /\ Len(records') \in Nat
      /\ \A i \in 1 .. Len(records') :
           \/ i \in 1 .. Len(records) /\ records'[i] = records[i]
           \/ i = Len(records) + 1 /\ records'[i] = offset
  <2>1. CASE Here.dot
    BY <1>1, <2>1 DEF TakeRecord
  <2>2. CASE ~Here.dot
    <3>1. records' = Append(records, offset)
      BY <2>2 DEF TakeRecord
    <3>2. QED
      BY <1>1, <3>1, AppendProperties
  <2>3. QED
    BY <2>1, <2>2
<1>4. Increasing'
  <2>1. \A i \in 1 .. Len(records) : records[i] \in Nat
    <3>1. DOMAIN data \subseteq Nat
      BY EndNat
    <3>2. QED
      BY <1>1, <3>1, ElementOfSeq
  <2>2. offset < offset'
    BY <1>1
  <2>3. \A i \in 1 .. Len(records) : records[i] < offset
    BY DEF Increasing
  <2>4. \A i \in 1 .. Len(records') : records'[i] < offset'
    BY SMTT(40), <1>1, <1>3, <2>1, <2>2, <2>3
  <2>5. ASSUME NEW i \in 1 .. Len(records'), NEW j \in 1 .. Len(records'), i < j
        PROVE  records'[i] < records'[j]
    <3>1. i \in 1 .. Len(records) /\ records'[i] = records[i]
      BY SMTT(40), <1>1, <1>3, <2>5
    <3>2. CASE j \in 1 .. Len(records) /\ records'[j] = records[j]
      BY <2>5, <3>1, <3>2 DEF Increasing
    <3>3. CASE records'[j] = offset
      BY <2>3, <3>1, <3>3
    <3>4. QED
      BY <1>3, <3>2, <3>3
  <2>6. QED
    BY <2>4, <2>5 DEF Increasing
<1>5. TypeOK'
  <2>1. offset' \in 0 .. RoundUp(End)
    <3>1. RoundUp(End) \in Nat /\ End <= RoundUp(End)
      BY <1>1, RoundUpBounds
    <3>2. offset' \in Nat /\ offset' <= End
      BY <1>1
    <3>3. QED
      BY <1>1, <3>1, <3>2
  <2>2. End' = End /\ RoundUp(End)' = RoundUp(End)
    BY <1>1 DEF End, RoundUp
  <2>3. next' \in 1 .. Len(records') + 1
    BY <1>1, <1>2, <1>3
  <2>4. QED
    BY <1>1, <1>3, <2>1, <2>2, <2>3 DEF TypeOK
<1>6. InHand'
  <2>1. Len(chain') = 0
    BY <1>1, <1>2
  <2>2. QED
    BY <1>1, <1>2, <2>1 DEF InHand
<1>7. QED
  BY <1>1, <1>4, <1>5, <1>6

LEMMA SkipPaddingDir ==
  ASSUME DirInv, SkipPadding
  PROVE  DirInv'
<1> USE DEF DirInv
<1>1. /\ offset \in Nat /\ offset < End /\ End \in Nat
      /\ UNCHANGED <<data, pc, records, next, chain, merged>> /\ offset' = RoundUp(offset)
  BY EndNat, RoundUpBounds DEF TypeOK, SkipPadding
<1>2. offset <= offset' /\ offset' \in 0 .. RoundUp(End)
  BY <1>1, RoundUpBounds, RoundUpMonotone
<1>3. End' = End /\ RoundUp(End)' = RoundUp(End)
  BY <1>1 DEF End, RoundUp
<1>4. TypeOK' /\ InHand'
  BY <1>1, <1>2, <1>3 DEF TypeOK, InHand
<1>5. \A i \in 1 .. Len(records) : records[i] \in Nat
  <2>1. DOMAIN data \subseteq Nat
    BY EndNat
  <2>2. QED
    BY <2>1, ElementOfSeq DEF TypeOK
<1>6. Increasing'
  BY <1>1, <1>2, <1>5 DEF Increasing
<1>7. QED
  BY <1>1, <1>4, <1>6

(* The steps of the merging change neither the records nor the cursor.      *)
LEMMA MergeStepDir ==
  ASSUME DirInv, UNCHANGED <<data, offset, records>>,
         pc' \in {"merge", "ok", "error"} \/ (pc = "parse" /\ pc' = "areas"),
         next' \in 1 .. Len(records) + 1, chain' \in Seq(DOMAIN data), merged' \in Seq(Entry),
         InHand'
  PROVE  DirInv'
<1>1. End' = End /\ RoundUp(End)' = RoundUp(End)
  BY DEF End, RoundUp
<1>2. TypeOK'
  BY <1>1 DEF DirInv, TypeOK
<1>3. Increasing'
  BY DEF DirInv, Increasing
<1>4. QED
  BY <1>2, <1>3 DEF DirInv

LEMMA PickUpDir ==
  ASSUME DirInv, PickUp
  PROVE  DirInv'
<1> USE DEF DirInv
<1>1. /\ pc = "merge" /\ chain = <<>> /\ next \in 1 .. Len(records) /\ Len(records) \in Nat
      /\ chain' = <<records[next]>> /\ next' = next + 1
      /\ UNCHANGED <<data, pc, offset, records, merged>>
  BY LenProperties DEF PickUp, TypeOK
<1>2. records[next] \in DOMAIN data
  BY <1>1, ElementOfSeq DEF TypeOK
<1>3. chain' \in Seq(DOMAIN data) /\ Len(chain') = 1 /\ chain'[1] = records[next]
  BY <1>1, <1>2
<1>4. InHand'
  BY <1>1, <1>3 DEF InHand
<1>5. QED
  BY <1>1, <1>3, <1>4, MergeStepDir DEF TypeOK

LEMMA JoinDir ==
  ASSUME DirInv, Join
  PROVE  DirInv'
<1> USE DEF DirInv
<1>1. /\ pc = "merge" /\ chain # <<>> /\ next \in 1 .. Len(records) /\ Len(records) \in Nat
      /\ chain' = Append(chain, records[next]) /\ next' = next + 1
      /\ UNCHANGED <<data, pc, offset, records, merged>>
      /\ data[chain[Len(chain)]].multi /\ data[records[next]].name = data[chain[1]].name
  BY LenProperties DEF Join, GoesOn, Peeked, TypeOK
<1>2. records[next] \in DOMAIN data /\ chain \in Seq(DOMAIN data) /\ Len(chain) \in Nat \ {0}
  BY <1>1, ElementOfSeq, EmptySeq, LenProperties DEF TypeOK
<1>3. /\ chain' \in Seq(DOMAIN data)
      /\ Len(chain') = Len(chain) + 1
      /\ \A i \in 1 .. Len(chain) : chain'[i] = chain[i]
      /\ chain'[Len(chain) + 1] = records[next]
  BY <1>1, <1>2, AppendProperties
<1>4. InHand'
  <2>1. Len(chain') < next'
    BY <1>1, <1>2, <1>3 DEF InHand
  <2>2. ASSUME NEW i \in 1 .. Len(chain')
        PROVE  /\ chain'[i] = records[next' - 1 - Len(chain') + i]
               /\ data[chain'[i]].name = data[chain'[1]].name
               /\ i < Len(chain') => data[chain'[i]].multi
    <3>1. CASE i = Len(chain')
      BY <1>1, <1>2, <1>3, <3>1
    <3>2. CASE i \in 1 .. Len(chain)
      <4>1. /\ chain'[i] = chain[i] /\ chain'[1] = chain[1]
            /\ next' - 1 - Len(chain') + i = next - 1 - Len(chain) + i
        BY <1>1, <1>2, <1>3, <3>2
      <4>2. i < Len(chain) \/ i = Len(chain)
        BY <1>2, <3>2
      <4>3. QED
        BY SMTT(40), <1>1, <3>2, <4>1, <4>2 DEF InHand
    <3>3. QED
      BY <1>2, <1>3, <2>2, <3>1, <3>2
  <2>3. QED
    BY <1>1, <2>1, <2>2 DEF InHand
<1>5. QED
  BY <1>1, <1>3, <1>4, MergeStepDir DEF TypeOK

LEMMA PushDir ==
  ASSUME DirInv, Push
  PROVE  DirInv'
<1> USE DEF DirInv
<1> DEFINE entry == [extents |-> chain, multi |-> data[chain[1]].multi /\ Len(chain) = 1]
<1>1. /\ pc = "merge" /\ chain # <<>> /\ chain' = <<>>
      /\ merged' = Append(merged, entry)
      /\ UNCHANGED <<data, pc, offset, records, next>>
      /\ chain \in Seq(DOMAIN data) /\ merged \in Seq(Entry)
  BY DEF Push, TypeOK
<1>2. entry \in Entry
  <2>1. DOMAIN data \subseteq Nat
    BY EndNat
  <2>2. chain \in Seq(Nat)
    BY <1>1, <2>1
  <2>3. (data[chain[1]].multi /\ Len(chain) = 1) \in BOOLEAN
    OBVIOUS
  <2>4. QED
    BY <1>1, <2>2, <2>3 DEF Entry
<1> HIDE DEF entry
<1>3. merged' \in Seq(Entry) /\ chain' \in Seq(DOMAIN data) /\ Len(chain') = 0
  BY <1>1, <1>2, AppendProperties
<1>4. next \in Nat /\ next > 0
  BY LenProperties DEF TypeOK
<1>5. InHand'
  BY <1>1, <1>3, <1>4 DEF InHand
<1>6. QED
  BY <1>1, <1>3, <1>5, MergeStepDir DEF TypeOK

(* Every step of read_dir keeps the invariant.                              *)
THEOREM NextDir == DirInv /\ [Next]_vars => DirInv'
<1> SUFFICES ASSUME DirInv, [Next]_vars PROVE DirInv'
  OBVIOUS
<1>1. CASE SkipPadding
  BY <1>1, SkipPaddingDir
<1>2. CASE TakeRecord
  BY <1>2, TakeRecordDir
<1>3. CASE BadRecord \/ ParseEnd \/ FollowAreas \/ MergeEnd
  <2>1. /\ UNCHANGED <<data, offset, records, next, chain, merged>>
        /\ pc' \in {"merge", "ok", "error"} \/ (pc = "parse" /\ pc' = "areas")
    BY <1>3 DEF BadRecord, ParseEnd, FollowAreas, MergeEnd
  <2>2. InHand'
    BY <2>1 DEF DirInv, InHand
  <2>3. QED
    BY <2>1, <2>2, MergeStepDir DEF DirInv, TypeOK
<1>4. CASE PickUp
  BY <1>4, PickUpDir
<1>5. CASE Join
  BY <1>5, JoinDir
<1>6. CASE Push
  BY <1>6, PushDir
<1>7. CASE UNCHANGED vars
  BY <1>7 DEF vars, DirInv, TypeOK, Increasing, InHand, End, RoundUp
<1>8. QED
  BY <1>1, <1>2, <1>3, <1>4, <1>5, <1>6, <1>7 DEF Next

(* parse_dir_records never leaves the directory by more than its padding,   *)
(* and the merging never leaves the records.                                *)
THEOREM TypeCorrect == Spec => []TypeOK
<1>1. DirInv => TypeOK
  BY DEF DirInv
<1>2. QED
  BY <1>1, InitDir, NextDir, PTL DEF Spec

--------------------------------------------------------------------------------

(* A whole chain of the records.                                            *)
Follower(x) == {records[i + 1] : i \in {j \in 1 .. Len(records) - 1 : records[j] = x[Len(x)]}}
Whole(entry) ==
  LET x == entry.extents
      k == Len(x)
  IN  /\ \A i \in 1 .. k : data[x[i]].name = data[x[1]].name
      /\ \A i \in 1 .. k - 1 : data[x[i]].multi
      /\ data[x[k]].multi => \A f \in Follower(x) : data[f].name # data[x[1]].name
      /\ entry.multi <=> k = 1 /\ data[x[1]].multi

LEMMA WholeChains == ChainsWhole <=> \A e \in DOMAIN merged : Whole(merged[e])
  BY DEF ChainsWhole, Whole, Follower

(* The record behind the extents in hand is the one peeked at.              *)
LEMMA OneFollower ==
  ASSUME DirInv, pc = "merge", chain # <<>>, NEW f \in Follower(chain)
  PROVE  next <= Len(records) /\ f = records[next]
<1> USE DEF DirInv
<1>1. /\ Len(records) \in Nat /\ Len(chain) \in Nat \ {0} /\ next \in 1 .. Len(records) + 1
      /\ Len(chain) < next
  BY EmptySeq, LenProperties DEF TypeOK, InHand
<1>2. chain[Len(chain)] = records[next - 1]
  <2>1. Len(chain) \in 1 .. Len(chain) /\ next - 1 - Len(chain) + Len(chain) = next - 1
    BY <1>1
  <2>2. QED
    BY <2>1 DEF InHand
<1>3. PICK j \in 1 .. Len(records) - 1 : records[j] = records[next - 1] /\ f = records[j + 1]
  BY <1>2 DEF Follower
<1>4. j = next - 1
  <2>1. next - 1 \in 1 .. Len(records) /\ j \in 1 .. Len(records)
    BY <1>1, <1>3
  <2>2. records[j] \in Nat
    <3>1. DOMAIN data \subseteq Nat
      BY EndNat
    <3>2. QED
      BY <2>1, <3>1, ElementOfSeq DEF TypeOK
  <2>3. ~(j < next - 1) /\ ~(next - 1 < j)
    BY <1>3, <2>1, <2>2 DEF Increasing
  <2>4. QED
    BY <2>1, <2>3, <1>1
<1>5. QED
  BY <1>1, <1>3, <1>4

LEMMA PushWhole ==
  ASSUME DirInv, Push, ChainsWhole
  PROVE  ChainsWhole'
<1> USE DEF DirInv
<1> DEFINE entry == [extents |-> chain, multi |-> data[chain[1]].multi /\ Len(chain) = 1]
<1>1. /\ pc = "merge" /\ chain # <<>> /\ merged \in Seq(Entry)
      /\ UNCHANGED <<data, records>>
      /\ merged' = Append(merged, entry)
  BY DEF Push, TypeOK
<1>2. Whole(entry)
  <2>1. Len(chain) \in Nat \ {0}
    BY <1>1, EmptySeq, LenProperties DEF TypeOK
  <2>2. /\ \A i \in 1 .. Len(chain) : data[chain[i]].name = data[chain[1]].name
        /\ \A i \in 1 .. Len(chain) - 1 : data[chain[i]].multi
    BY <2>1 DEF InHand
  <2>3. ASSUME data[chain[Len(chain)]].multi, NEW f \in Follower(chain)
        PROVE  data[f].name # data[chain[1]].name
    <3>1. next <= Len(records) /\ f = records[next]
      BY <1>1, <2>3, OneFollower
    <3>2. ~GoesOn
      BY DEF Push
    <3>3. QED
      BY <2>3, <3>1, <3>2 DEF GoesOn, Peeked
  <2>4. /\ entry.extents = chain
        /\ entry.multi <=> Len(chain) = 1 /\ data[chain[1]].multi
    OBVIOUS
  <2> HIDE DEF entry
  <2>5. QED
    BY <2>2, <2>3, <2>4 DEF Whole
<1> HIDE DEF entry
<1>3. /\ DOMAIN merged' = 1 .. Len(merged) + 1 /\ DOMAIN merged = 1 .. Len(merged)
      /\ Len(merged) \in Nat
      /\ \A e \in 1 .. Len(merged) : merged'[e] = merged[e]
      /\ merged'[Len(merged) + 1] = entry
  BY <1>1, AppendProperties, LenProperties
<1>4. \A e \in DOMAIN merged' : Whole(merged'[e])
  BY <1>2, <1>3, WholeChains
<1>5. ASSUME NEW x
      PROVE  Whole(x)' <=> Whole(x)
  <2>1. \A y : Follower(y)' = Follower(y)
    BY <1>1 DEF Follower
  <2>2. QED
    BY <1>1, <2>1 DEF Whole
<1>6. ASSUME NEW e \in DOMAIN merged'
      PROVE  Whole(merged[e])'
  <2>1. PICK x : x = merged'[e]
    OBVIOUS
  <2>2. Whole(x)' /\ x = merged'[e]
    BY <1>4, <1>5, <2>1
  <2>3. QED
    BY <2>2
<1>7. (ChainsWhole <=> \A e \in DOMAIN merged : Whole(merged[e]))'
  BY WholeChains, PTL
<1>8. QED
  BY <1>6, <1>7

(* An entry of a directory is a whole chain of its records, whatever the    *)
(* names and flags the records carry.                                       *)
THEOREM ChainsAreWhole == Spec => []ChainsWhole
<1>1. Init => ChainsWhole
  BY DEF Init, ChainsWhole
<1>2. ASSUME DirInv, ChainsWhole, [Next]_vars
      PROVE  ChainsWhole'
  <2>1. CASE Push
    BY <1>2, <2>1, PushWhole
  <2>2. CASE TakeRecord
    <3>1. merged' = <<>>
      BY <1>2, <2>2 DEF TakeRecord, DirInv, InHand
    <3>2. QED
      BY <3>1 DEF ChainsWhole
  <2>3. CASE \/ SkipPadding \/ BadRecord \/ ParseEnd \/ FollowAreas \/ PickUp \/ Join \/ MergeEnd
             \/ UNCHANGED vars
    <3>1. UNCHANGED <<data, records, merged>>
      BY <2>3 DEF SkipPadding, BadRecord, ParseEnd, FollowAreas, PickUp, Join, MergeEnd, vars
    <3>2. QED
      BY <1>2, <3>1 DEF ChainsWhole
  <2>4. QED
    BY <1>2, <2>1, <2>2, <2>3 DEF Next
<1>3. QED
  BY <1>1, <1>2, InitDir, NextDir, PTL DEF Spec

--------------------------------------------------------------------------------

(* Nothing is lost between the entries pushed and the extents in hand.      *)
Contiguous ==
  /\ ExtentsPreserved
  /\ Cut(Len(merged)) = next - 1 - Len(chain)

(* The extents in hand are the last records taken.                          *)
LEMMA ChainIsRun ==
  DirInv => chain = SubSeq(records, next - 1 - Len(chain) + 1, next - 1)
<1> SUFFICES ASSUME DirInv
             PROVE  chain = SubSeq(records, next - 1 - Len(chain) + 1, next - 1)
  OBVIOUS
<1> USE DEF DirInv
<1> DEFINE m == next - 1 - Len(chain) + 1
           run == SubSeq(records, m, next - 1)
<1>1. /\ Len(records) \in Nat /\ Len(chain) \in Nat /\ next \in 1 .. Len(records) + 1
      /\ Len(chain) < next /\ records \in Seq(DOMAIN data) /\ chain \in Seq(DOMAIN data)
  BY LenProperties DEF TypeOK, InHand
<1>2. m \in 1 .. Len(records) + 1 /\ next - 1 \in m - 1 .. Len(records)
  BY <1>1
<1>3. /\ run \in Seq(DOMAIN data)
      /\ Len(run) = Len(chain)
      /\ \A i \in 1 .. Len(chain) : run[i] = records[m + i - 1]
  BY <1>1, <1>2, SubSeqProperties
<1>4. \A i \in 1 .. Len(chain) : chain[i] = run[i]
  <2> TAKE i \in 1 .. Len(chain)
  <2>1. m + i - 1 = next - 1 - Len(chain) + i
    BY <1>1
  <2>2. QED
    BY SMTT(40), <1>3, <2>1 DEF InHand
<1> HIDE DEF run
<1>5. chain = run
  BY <1>1, <1>3, <1>4, SeqEqual
<1>6. QED
  BY <1>5 DEF run

(* Records are told apart by their offsets.                                 *)
LEMMA RecordPosition ==
  ASSUME DirInv, NEW i \in 1 .. Len(records)
  PROVE  (CHOOSE j \in DOMAIN records : records[j] = records[i]) = i
<1> USE DEF DirInv
<1>1. /\ Len(records) \in Nat /\ DOMAIN records = 1 .. Len(records)
      /\ \A j \in 1 .. Len(records) : records[j] \in Nat
  <2>1. DOMAIN data \subseteq Nat
    BY EndNat
  <2>2. QED
    BY <2>1, ElementOfSeq, LenProperties DEF TypeOK
<1>2. \A j \in 1 .. Len(records) : records[j] = records[i] => j = i
  <2> SUFFICES ASSUME NEW j \in 1 .. Len(records), records[j] = records[i] PROVE j = i
    OBVIOUS
  <2>1. ~(j < i) /\ ~(i < j)
    BY <1>1 DEF Increasing
  <2>2. QED
    BY <1>1, <2>1
<1>3. QED
  BY <1>1, <1>2

LEMMA PushContiguous ==
  ASSUME DirInv, Push, Contiguous
  PROVE  /\ \A e \in DOMAIN merged' :
              (merged[e].extents = SubSeq(records, Cut(e - 1) + 1, Cut(e)))'
         /\ Cut(Len(merged))' = next' - 1 - Len(chain')
<1> USE DEF DirInv
<1>1. /\ pc = "merge" /\ chain # <<>> /\ merged \in Seq(Entry)
      /\ UNCHANGED <<records, next>> /\ chain' = <<>>
      /\ chain \in Seq(DOMAIN data)
      /\ Len(chain) \in Nat \ {0} /\ next \in Nat
  BY EmptySeq, LenProperties DEF Push, TypeOK
<1>2. PICK n : n = Len(merged)
  OBVIOUS
<1>3. /\ n \in Nat
      /\ Len(merged') = n + 1
      /\ \A e \in 1 .. n : merged'[e] = merged[e]
      /\ merged'[n + 1].extents = chain
      /\ DOMAIN merged' = 1 .. n + 1 /\ DOMAIN merged = 1 .. n
  BY <1>1, <1>2, AppendProperties, LenProperties DEF Push
<1>4. ASSUME NEW e \in 0 .. n PROVE Cut(e)' = Cut(e)
  <2>1. CASE e = 0
    BY <2>1 DEF Cut
  <2>2. CASE e # 0
    <3>1. merged'[e] = merged[e] /\ records' = records
      BY <1>1, <1>3, <2>2
    <3>2. QED
      BY <2>2, <3>1 DEF Cut
  <2>3. QED
    BY <2>1, <2>2
<1>5. ASSUME NEW m, m = n + 1 PROVE Cut(m)' = next - 1 /\ Cut(m - 1) = next - 1 - Len(chain)
  <2>1. m # 0 /\ m - 1 = n
    BY <1>3, <1>5
  <2>2. chain[Len(chain)] = records[next - 1] /\ next - 1 \in 1 .. Len(records)
    <3>1. Len(chain) \in 1 .. Len(chain) /\ next - 1 - Len(chain) + Len(chain) = next - 1
      BY <1>1
    <3>2. Len(chain) < next /\ next \in 1 .. Len(records) + 1
      BY DEF InHand, TypeOK
    <3>3. QED
      BY <1>1, <3>1, <3>2, LenProperties DEF InHand, TypeOK
  <2>3. Cut(m)' = CHOOSE i \in DOMAIN records : records[i] = records[next - 1]
    BY <1>1, <1>3, <1>5, <2>1, <2>2 DEF Cut
  <2>4. Cut(m)' = next - 1
    BY <2>2, <2>3, RecordPosition
  <2>5. QED
    BY <1>2, <2>1, <2>4 DEF Contiguous
<1>6. ASSUME NEW e \in 1 .. n
      PROVE  (merged[e].extents = SubSeq(records, Cut(e - 1) + 1, Cut(e)))'
  <2>1. e \in 0 .. n /\ e - 1 \in 0 .. n
    BY <1>3
  <2>2. Cut(e)' = Cut(e) /\ Cut(e - 1)' = Cut(e - 1)
    BY <1>4, <2>1
  <2>3. QED
    BY <1>1, <1>3, <2>2 DEF Contiguous, ExtentsPreserved
<1>7. ASSUME NEW e, e = n + 1
      PROVE  (merged[e].extents = SubSeq(records, Cut(e - 1) + 1, Cut(e)))'
  <2>1. Cut(e)' = next - 1 /\ Cut(e - 1) = next - 1 - Len(chain)
    BY <1>5, <1>7
  <2>2. Cut(e - 1)' = Cut(e - 1)
    BY <1>3, <1>4, <1>7
  <2>3. chain = SubSeq(records, next - 1 - Len(chain) + 1, next - 1)
    BY ChainIsRun
  <2>4. QED
    BY <1>1, <1>3, <1>7, <2>1, <2>2, <2>3
<1>8. Cut(Len(merged))' = next' - 1 - Len(chain')
  <2>1. Len(chain') = 0
    BY <1>1
  <2>2. Cut(Len(merged))' = next - 1
    BY <1>3, <1>5 DEF Cut
  <2>3. QED
    BY <1>1, <2>1, <2>2
<1>9. QED
  BY <1>3, <1>6, <1>7, <1>8

(* Merging gives every record parsed to one entry, in the order parsed.     *)
THEOREM ExtentsArePreserved == Spec => []ExtentsPreserved
<1>1. Init => Contiguous
  <2> SUFFICES ASSUME Init PROVE Contiguous
    OBVIOUS
  <2>1. Len(merged) = 0 /\ Len(chain) = 0 /\ DOMAIN merged = {} /\ next = 1 /\ records = <<>>
        /\ chain = <<>>
    BY DEF Init
  <2>2. SubSeq(<<>>, 0 + 1, 1 - 1) = <<>>
    OBVIOUS
  <2>3. QED
    BY <2>1, <2>2 DEF Contiguous, ExtentsPreserved, Cut
<1>2. ASSUME DirInv, DirInv', Contiguous, [Next]_vars
      PROVE  Contiguous'
  <2>1. (DirInv => chain = SubSeq(records, next - 1 - Len(chain) + 1, next - 1))'
    BY ChainIsRun, PTL
  <2>2. SUFFICES ASSUME TRUE
                 PROVE  /\ \A e \in DOMAIN merged' :
                             (merged[e].extents = SubSeq(records, Cut(e - 1) + 1, Cut(e)))'
                        /\ Cut(Len(merged))' = next' - 1 - Len(chain')
    BY <1>2, <2>1 DEF Contiguous, ExtentsPreserved
  <2>3. CASE Push
    BY <1>2, <2>3, PushContiguous
  <2>4. CASE TakeRecord
    <3>1. merged = <<>> /\ merged' = <<>> /\ chain' = <<>> /\ next' = 1
      BY <1>2, <2>4 DEF TakeRecord, DirInv, InHand
    <3>2. Len(merged') = 0 /\ Len(chain') = 0 /\ DOMAIN merged' = {}
      BY <3>1
    <3>3. Cut(Len(merged))' = 0
      BY <3>2 DEF Cut
    <3>4. QED
      BY <3>1, <3>2, <3>3
  <2>5. CASE \/ SkipPadding \/ BadRecord \/ ParseEnd \/ FollowAreas \/ PickUp \/ Join \/ MergeEnd
             \/ UNCHANGED vars
    <3>1. UNCHANGED <<records, merged>> /\ next' - 1 - Len(chain') = next - 1 - Len(chain)
      <4>1. CASE PickUp
        <5>1. Len(chain) = 0 /\ Len(chain') = 1 /\ next' = next + 1 /\ next \in Nat
          BY <1>2, <4>1 DEF PickUp, DirInv, TypeOK
        <5>2. QED
          BY <4>1, <5>1 DEF PickUp
      <4>2. CASE Join
        <5>1. /\ Len(chain') = Len(chain) + 1 /\ next' = next + 1 /\ next \in Nat
              /\ Len(chain) \in Nat
          <6>1. chain \in Seq(DOMAIN data) /\ records[next] \in DOMAIN data
            <7>1. next \in 1 .. Len(records) /\ records \in Seq(DOMAIN data)
              BY <1>2, <4>2, LenProperties DEF Join, GoesOn, DirInv, TypeOK
            <7>2. QED
              BY <1>2, <7>1, ElementOfSeq DEF DirInv, TypeOK
          <6>2. QED
            BY <1>2, <4>2, <6>1, AppendProperties, LenProperties DEF Join, DirInv, TypeOK
        <5>2. QED
          BY <4>2, <5>1 DEF Join
      <4>3. QED
        BY <2>5, <4>1, <4>2
        DEF SkipPadding, BadRecord, ParseEnd, FollowAreas, MergeEnd, vars
    <3>2. \A e : Cut(e)' = Cut(e)
      BY <3>1 DEF Cut
    <3>3. Cut(Len(merged))' = Cut(Len(merged))
      BY <3>1 DEF Cut
    <3>4. QED
      BY <1>2, <3>1, <3>2, <3>3 DEF Contiguous, ExtentsPreserved
  <2>6. QED
    BY <1>2, <2>3, <2>4, <2>5 DEF Next
<1>3. Contiguous => ExtentsPreserved
  BY DEF Contiguous
<1>4. QED
  BY <1>1, <1>2, <1>3, InitDir, NextDir, PTL DEF Spec

--------------------------------------------------------------------------------

(* Offsets by sector: which one, and how far into it.                       *)
LEMMA SectorSplit ==
  ASSUME NEW n \in Nat
  PROVE  \E q, r \in Nat : /\ q = n \div SECTOR /\ r = n % SECTOR /\ r < SECTOR
                           /\ n = SECTOR * q + r
  OBVIOUS

LEMMA SectorJoin ==
  ASSUME NEW q \in Nat, NEW r \in Nat, r < SECTOR, NEW n \in Nat, n = SECTOR * q + r
  PROVE  n \div SECTOR = q /\ n % SECTOR = r
<1>1. PICK p, s \in Nat : /\ p = n \div SECTOR /\ s = n % SECTOR /\ s < SECTOR
                          /\ n = SECTOR * p + s
  BY SectorSplit
<1>2. ~(p < q)
  <2>1. SUFFICES ASSUME p < q PROVE FALSE
    OBVIOUS
  <2>2. PICK d \in Nat : q = p + 1 + d
    <3>1. q - p - 1 \in Nat /\ q = p + 1 + (q - p - 1)
      BY <2>1
    <3>2. QED
      BY <3>1
  <2>3. SECTOR * q = SECTOR * p + SECTOR + SECTOR * d /\ SECTOR * d \in Nat
    BY <2>2
  <2>4. QED
    BY <1>1, <2>3
<1>3. ~(q < p)
  <2>1. SUFFICES ASSUME q < p PROVE FALSE
    OBVIOUS
  <2>2. PICK d \in Nat : p = q + 1 + d
    <3>1. p - q - 1 \in Nat /\ p = q + 1 + (p - q - 1)
      BY <2>1
    <3>2. QED
      BY <3>1
  <2>3. SECTOR * p = SECTOR * q + SECTOR + SECTOR * d /\ SECTOR * d \in Nat
    BY <2>2
  <2>4. QED
    BY <1>1, <2>3
<1>4. p = q
  BY <1>2, <1>3
<1>5. QED
  BY <1>1, <1>4

(* A record that stays in its sector leaves no start of a sector under it,  *)
(* and ends in that sector or where the next one starts.                    *)
LEMMA RecordCovers ==
  ASSUME NEW o \in Nat, NEW n \in Nat \ {0}, (o % SECTOR) + n <= SECTOR
  PROVE  /\ \A x \in o + 1 .. o + n - 1 : x % SECTOR # 0
         /\ (o + n) % SECTOR = 0 \/ o \div SECTOR = (o + n) \div SECTOR
<1>1. PICK q, r \in Nat : /\ q = o \div SECTOR /\ r = o % SECTOR /\ r < SECTOR
                          /\ o = SECTOR * q + r
  BY SectorSplit
<1>2. PICK b \in Nat : b = SECTOR * q
  BY <1>1
<1>3. ASSUME NEW x \in o + 1 .. o + n - 1
      PROVE  x % SECTOR # 0
  <2>1. x \in Nat /\ x - b \in Nat /\ x - b < SECTOR /\ x - b # 0 /\ x = b + (x - b)
    BY <1>1, <1>2, <1>3
  <2>2. x % SECTOR = x - b
    BY <1>2, <2>1, SectorJoin
  <2>3. QED
    BY <2>1, <2>2
<1>4. CASE r + n < SECTOR
  <2>1. r + n \in Nat /\ o + n \in Nat /\ o + n = SECTOR * q + (r + n)
    BY <1>1, <1>2
  <2>2. (o + n) \div SECTOR = q
    BY <1>4, <2>1, SectorJoin
  <2>3. QED
    BY <1>1, <1>3, <2>2
<1>5. CASE r + n = SECTOR
  <2>1. q + 1 \in Nat /\ SECTOR * (q + 1) = b + SECTOR
    BY <1>2
  <2>2. o + n \in Nat /\ o + n = SECTOR * (q + 1) + 0
    BY <1>1, <1>2, <1>5, <2>1
  <2>3. (o + n) % SECTOR = 0
    BY <2>1, <2>2, SectorJoin
  <2>4. QED
    BY <1>3, <2>3
<1>6. QED
  BY <1>1, <1>4, <1>5

(* Nor does padding.                                                        *)
LEMMA PaddingCovers ==
  ASSUME NEW o \in Nat
  PROVE  /\ RoundUp(o) % SECTOR = 0
         /\ \A x \in o .. RoundUp(o) - 1 : x % SECTOR # 0
<1>1. PICK k \in Nat : k = (o + SECTOR - 1) \div SECTOR
  OBVIOUS
<1>2. PICK c \in Nat : c = RoundUp(o)
  BY RoundUpBounds
<1>3. c = k * SECTOR
  BY <1>1, <1>2 DEF RoundUp
<1>4. c = SECTOR * k + 0 /\ o <= c /\ c < o + SECTOR
  <2>1. k * SECTOR = SECTOR * k
    OBVIOUS
  <2>2. SECTOR * k \in Nat /\ c = SECTOR * k + 0
    BY <1>3, <2>1
  <2>3. o <= c /\ c < o + SECTOR
    BY <1>2, RoundUpBounds
  <2>4. QED
    BY <2>2, <2>3
<1>5. c % SECTOR = 0
  BY <1>4, SectorJoin
<1>6. ASSUME NEW x \in o .. c - 1, x % SECTOR = 0
      PROVE  FALSE
  <2>1. PICK j \in Nat : x = SECTOR * j
    <3>1. x \in Nat
      OBVIOUS
    <3>2. PICK q, r \in Nat : r = x % SECTOR /\ x = SECTOR * q + r
      BY <3>1, SectorSplit
    <3>3. SECTOR * q \in Nat
      OBVIOUS
    <3>4. QED
      BY <1>6, <3>2, <3>3
  <2>2. CASE j < k
    <3>1. PICK d \in Nat : k = j + 1 + d
      <4>1. k - j - 1 \in Nat /\ k = j + 1 + (k - j - 1)
        BY <2>2
      <4>2. QED
        BY <4>1
    <3>2. SECTOR * k = SECTOR * j + SECTOR + SECTOR * d /\ SECTOR * d \in Nat
      BY <3>1
    <3>3. QED
      BY <1>4, <2>1, <3>2
  <2>3. CASE k <= j
    <3>1. PICK d \in Nat : j = k + d
      <4>1. j - k \in Nat /\ j = k + (j - k)
        BY <2>3
      <4>2. QED
        BY <4>1
    <3>2. SECTOR * j = SECTOR * k + SECTOR * d /\ SECTOR * d \in Nat
      BY <3>1
    <3>3. x >= c
      BY <1>4, <2>1, <3>2
    <3>4. QED
      BY <3>3
  <2>4. QED
    BY <2>2, <2>3
<1>7. QED
  BY <1>2, <1>5, <1>6

(* What starts where: the least fixed point of StartsIn.                    *)
LEMMA StartsMonotone ==
  ASSUME NEW T, NEW U, T \subseteq U
  PROVE  StartsIn(T) \subseteq StartsIn(U)
  BY DEF StartsIn

LEMMA StartsLeast ==
  ASSUME NEW T \in SUBSET DOMAIN data, StartsIn(T) \subseteq T
  PROVE  RecordStarts \subseteq T
  BY DEF RecordStarts

LEMMA StartsClosed == StartsIn(RecordStarts) \subseteq RecordStarts
<1> SUFFICES ASSUME NEW o \in StartsIn(RecordStarts) PROVE o \in RecordStarts
  OBVIOUS
<1>1. o \in DOMAIN data
  BY DEF StartsIn
<1>2. ASSUME NEW T \in SUBSET DOMAIN data, StartsIn(T) \subseteq T
      PROVE  o \in T
  BY <1>2, StartsLeast, StartsMonotone
<1>3. QED
  BY <1>1, <1>2 DEF RecordStarts

LEMMA StartFacts ==
  ASSUME DirInv, NEW p \in RecordStarts
  PROVE  p \in DOMAIN data /\ p \in Nat /\ p < End /\ End \in Nat /\ data[p].len \in Nat
<1>1. p \in DOMAIN data
  BY DEF RecordStarts
<1>2. /\ End \in Nat /\ DOMAIN data = 0 .. End - 1
      /\ data[p] \in Records \union {Zero, Bad}
  BY <1>1, EndNat DEF DirInv
<1>3. data[p].len \in Nat
  BY <1>2 DEF Records, Zero, Bad
<1>4. QED
  BY <1>1, <1>2, <1>3

(* No record starts in a stretch without a start of a sector that no record *)
(* leads into, but where it finds padding.                                  *)
LEMMA NoStartWithin ==
  ASSUME NEW gap, \A x \in gap : x % SECTOR # 0,
         \A p \in RecordStarts \ gap :
           p + data[p].len \in gap /\ p + data[p].len \in DOMAIN data
             => data[p + data[p].len] = Zero
  PROVE  RecordStarts \intersect gap = {}
<1> DEFINE T == RecordStarts \ gap
<1>1. T \in SUBSET DOMAIN data
  BY DEF RecordStarts
<1>2. StartsIn(T) \subseteq T
  <2> SUFFICES ASSUME NEW o \in StartsIn(T), o \in gap PROVE FALSE
    <3>1. StartsIn(T) \subseteq RecordStarts
      BY StartsMonotone, StartsClosed
    <3>2. QED
      BY <3>1
  <2>1. PICK p \in T : p + data[p].len = o /\ o \in DOMAIN data /\ data[o] # Zero
    BY DEF StartsIn
  <2>2. QED
    BY <2>1
<1>3. RecordStarts \subseteq T
  BY <1>1, <1>2, StartsLeast
<1>4. QED
  BY <1>3

(* How far the parser has come: it has passed exactly the records it listed *)
(* and those it leaves out, and stands where a sector begins or where the   *)
(* record before ends, in that record's sector.                             *)
Passed ==
  /\ pc \in {"areas", "merge", "ok"} => offset >= End
  /\ InSectors =>
       /\ {records[i] : i \in DOMAIN records} = {o \in RecordStarts : o < offset /\ ~data[o].dot}
       /\ \A p \in RecordStarts : p < offset => p + data[p].len <= offset
       /\ \/ offset % SECTOR = 0
          \/ \E p \in RecordStarts :
               p + data[p].len = offset /\ p \div SECTOR = offset \div SECTOR

LEMMA DataKept ==
  ASSUME data' = data
  PROVE  /\ RecordStarts' = RecordStarts
         /\ InSectors' <=> InSectors
         /\ End' = End
<1>1. \A T : StartsIn(T)' = StartsIn(T)
  BY DEF StartsIn
<1>2. RecordStarts' = RecordStarts
  BY <1>1 DEF RecordStarts
<1>3. QED
  BY <1>2 DEF InSectors, End

LEMMA SkipPaddingPassed ==
  ASSUME DirInv, Passed, SkipPadding
  PROVE  Passed'
<1>1. /\ offset \in Nat /\ offset < End /\ End \in Nat /\ pc = "parse"
      /\ UNCHANGED <<data, pc, records>> /\ offset' = RoundUp(offset) /\ data[offset] = Zero
  BY EndNat, RoundUpBounds DEF DirInv, TypeOK, SkipPadding, Here
<1>2. PICK c \in Nat : c = RoundUp(offset) /\ offset <= c
  BY <1>1, RoundUpBounds
<1>3. RecordStarts' = RecordStarts /\ (InSectors' <=> InSectors) /\ End' = End
  BY <1>1, DataKept
<1> SUFFICES ASSUME InSectors
             PROVE  /\ {records[i] : i \in DOMAIN records}
                         = {o \in RecordStarts : o < c /\ ~data[o].dot}
                    /\ \A p \in RecordStarts : p < c => p + data[p].len <= c
                    /\ c % SECTOR = 0
  BY <1>1, <1>2, <1>3 DEF Passed
<1>4. c % SECTOR = 0 /\ \A x \in offset .. c - 1 : x % SECTOR # 0
  BY <1>1, <1>2, PaddingCovers
<1>5. \A p \in RecordStarts : p < offset => p + data[p].len <= offset
  BY DEF Passed
<1>6. ASSUME NEW p \in RecordStarts \ (offset .. c - 1), p + data[p].len \in offset .. c - 1
      PROVE  data[p + data[p].len] = Zero
  <2>1. p \in Nat /\ data[p].len \in Nat
    BY <1>6, StartFacts
  <2>2. p < offset
    BY SMTT(40), <1>1, <1>2, <1>6, <2>1
  <2>3. p + data[p].len = offset
    BY <1>1, <1>2, <1>5, <1>6, <2>1, <2>2
  <2>4. QED
    BY <1>1, <2>3
<1>7. RecordStarts \intersect (offset .. c - 1) = {}
  BY <1>4, <1>6, NoStartWithin
<1>8. \A p \in RecordStarts : p \in Nat /\ data[p].len \in Nat /\ (p < c <=> p < offset)
  <2> TAKE p \in RecordStarts
  <2>1. p \in Nat /\ data[p].len \in Nat
    BY StartFacts
  <2>2. p \notin offset .. c - 1
    BY <1>7
  <2>3. QED
    BY <1>1, <1>2, <2>1, <2>2
<1>9. \A p \in RecordStarts : p < c => p + data[p].len <= c
  BY <1>1, <1>2, <1>5, <1>8
<1>10. {o \in RecordStarts : o < c /\ ~data[o].dot}
         = {o \in RecordStarts : o < offset /\ ~data[o].dot}
  BY <1>8
<1>11. {records[i] : i \in DOMAIN records} = {o \in RecordStarts : o < offset /\ ~data[o].dot}
  BY DEF Passed
<1>12. QED
  BY <1>4, <1>9, <1>10, <1>11

LEMMA TakeRecordPassed ==
  ASSUME DirInv, Passed, TakeRecord
  PROVE  Passed'
<1>1. PICK n \in Nat \ {0} : n = data[offset].len
  BY DEF TakeRecord, Here, Records
<1>2. /\ offset \in Nat /\ offset < End /\ End \in Nat /\ pc = "parse"
      /\ offset \in DOMAIN data /\ data[offset] \in Records
      /\ UNCHANGED <<data, pc>> /\ offset' = offset + n
      /\ records' = IF data[offset].dot THEN records ELSE Append(records, offset)
      /\ records \in Seq(DOMAIN data)
  <2>1. offset \in Nat /\ End \in Nat /\ DOMAIN data = 0 .. End - 1
    BY EndNat, RoundUpBounds DEF DirInv, TypeOK
  <2>2. offset < End
    BY DEF TakeRecord
  <2>3. QED
    BY <1>1, <2>1, <2>2 DEF DirInv, TypeOK, TakeRecord, Here
<1>3. RecordStarts' = RecordStarts /\ (InSectors' <=> InSectors) /\ End' = End
  BY <1>2, DataKept
<1>4. PICK c \in Nat : c = offset + n
  BY <1>1, <1>2
<1> SUFFICES ASSUME InSectors
             PROVE  /\ {records'[i] : i \in DOMAIN records'}
                         = {o \in RecordStarts : o < c /\ ~data[o].dot}
                    /\ \A p \in RecordStarts : p < c => p + data[p].len <= c
                    /\ \/ c % SECTOR = 0
                       \/ \E p \in RecordStarts :
                            p + data[p].len = c /\ p \div SECTOR = c \div SECTOR
  BY <1>2, <1>3, <1>4 DEF Passed
<1>5. /\ \A x \in offset + 1 .. offset + n - 1 : x % SECTOR # 0
      /\ c % SECTOR = 0 \/ offset \div SECTOR = c \div SECTOR
  <2>1. (offset % SECTOR) + n <= SECTOR
    BY <1>1, <1>2 DEF InSectors
  <2>2. QED
    BY <1>1, <1>2, <1>4, <2>1, RecordCovers
<1>6. offset \in RecordStarts
  <2>1. data[offset] # Zero
    BY <1>1 DEF Zero
  <2>2. offset \in StartsIn(RecordStarts)
    BY <1>2, <2>1 DEF Passed, StartsIn
  <2>3. QED
    BY <2>2, StartsClosed
<1>7. \A p \in RecordStarts : p < offset => p + data[p].len <= offset
  BY DEF Passed
<1>8. ASSUME NEW p \in RecordStarts \ (offset + 1 .. offset + n - 1)
      PROVE  p + data[p].len \notin offset + 1 .. offset + n - 1
  <2>1. p \in Nat /\ data[p].len \in Nat
    BY <1>8, StartFacts
  <2>2. CASE p < offset
    BY SMTT(40), <1>1, <1>2, <1>7, <1>8, <2>1, <2>2
  <2>3. CASE p = offset
    BY <1>1, <1>2, <2>3
  <2>4. CASE p >= offset + n
    <3>1. p + data[p].len >= offset + n
      BY SMTT(40), <1>1, <1>2, <2>1, <2>4
    <3>2. QED
      BY SMTT(40), <1>1, <1>2, <2>1, <3>1
  <2>5. p < offset \/ p = offset \/ p >= offset + n
    <3>1. p \notin offset + 1 .. offset + n - 1
      BY <1>8
    <3>2. QED
      BY <1>1, <1>2, <2>1, <3>1
  <2>6. QED
    BY <2>2, <2>3, <2>4, <2>5
<1>9. RecordStarts \intersect (offset + 1 .. offset + n - 1) = {}
  BY <1>5, <1>8, NoStartWithin
<1>10. \A p \in RecordStarts :
         p \in Nat /\ data[p].len \in Nat /\ (p < c <=> p < offset \/ p = offset)
  <2> TAKE p \in RecordStarts
  <2>1. p \in Nat /\ data[p].len \in Nat
    BY StartFacts
  <2>2. p \notin offset + 1 .. offset + n - 1
    BY <1>9
  <2>3. QED
    BY SMTT(40), <1>1, <1>2, <1>4, <2>1, <2>2
<1>11. \A p \in RecordStarts : p < c => p + data[p].len <= c
  <2> SUFFICES ASSUME NEW p \in RecordStarts, p < c PROVE p + data[p].len <= c
    OBVIOUS
  <2>1. CASE p < offset
    BY SMTT(40), <1>1, <1>2, <1>4, <1>7, <1>10, <2>1
  <2>2. CASE p = offset
    BY <1>1, <1>2, <1>4, <2>2
  <2>3. QED
    BY <1>10, <2>1, <2>2
<1>12. {records'[i] : i \in DOMAIN records'} = {o \in RecordStarts : o < c /\ ~data[o].dot}
  <2>1. {records[i] : i \in DOMAIN records} = {o \in RecordStarts : o < offset /\ ~data[o].dot}
    BY DEF Passed
  <2>2. CASE data[offset].dot
    <3>1. records' = records
      BY <1>2, <2>2
    <3>2. {o \in RecordStarts : o < c /\ ~data[o].dot}
            = {o \in RecordStarts : o < offset /\ ~data[o].dot}
      BY <1>10, <2>2
    <3>3. QED
      BY <2>1, <3>1, <3>2
  <2>3. CASE ~data[offset].dot
    <3>1. records' = Append(records, offset)
      BY <1>2, <2>3
    <3>2. /\ DOMAIN records' = DOMAIN records \union {Len(records) + 1}
          /\ \A i \in DOMAIN records : records'[i] = records[i]
          /\ records'[Len(records) + 1] = offset
      <4>1. /\ Len(records') = Len(records) + 1 /\ Len(records) \in Nat
            /\ DOMAIN records' = 1 .. Len(records) + 1 /\ DOMAIN records = 1 .. Len(records)
            /\ \A i \in 1 .. Len(records) : records'[i] = records[i]
            /\ records'[Len(records) + 1] = offset
        BY <1>2, <3>1, AppendProperties, LenProperties
      <4>2. QED
        BY <4>1
    <3>3. {records'[i] : i \in DOMAIN records'}
            = {records[i] : i \in DOMAIN records} \union {offset}
      BY <3>2
    <3>4. {o \in RecordStarts : o < c /\ ~data[o].dot}
            = {o \in RecordStarts : o < offset /\ ~data[o].dot} \union {offset}
      BY <1>6, <1>10, <2>3
    <3>5. QED
      BY <2>1, <3>3, <3>4
  <2>4. QED
    BY <2>2, <2>3
<1>13. \/ c % SECTOR = 0
       \/ \E p \in RecordStarts : p + data[p].len = c /\ p \div SECTOR = c \div SECTOR
  BY <1>1, <1>4, <1>5, <1>6
<1>14. QED
  BY <1>11, <1>12, <1>13

(* A directory whose records stay in their sectors is listed whole: every   *)
(* record of every sector but "." and "..", once each and in order, and no  *)
(* byte of padding or of a record's body is taken for a record.             *)
THEOREM EverySectorIsListed == Spec => []EverySectorListed
<1>1. Init => Passed
  <2> SUFFICES ASSUME Init PROVE Passed
    OBVIOUS
  <2>1. DirInv
    BY InitDir
  <2>2. offset = 0 /\ records = <<>> /\ pc = "parse"
    BY DEF Init
  <2>3. \A p \in RecordStarts : ~(p < offset)
    BY <2>1, <2>2, StartFacts
  <2>4. offset % SECTOR = 0
    BY <2>2
  <2>5. {records[i] : i \in DOMAIN records} = {}
    BY <2>2
  <2>6. QED
    BY <2>2, <2>3, <2>4, <2>5 DEF Passed
<1>2. ASSUME DirInv, Passed, [Next]_vars
      PROVE  Passed'
  <2>1. CASE SkipPadding
    BY <1>2, <2>1, SkipPaddingPassed
  <2>2. CASE TakeRecord
    BY <1>2, <2>2, TakeRecordPassed
  <2>3. CASE BadRecord \/ ParseEnd \/ FollowAreas \/ PickUp \/ Join \/ Push \/ MergeEnd
             \/ UNCHANGED vars
    <3>1. /\ UNCHANGED <<data, offset, records>>
          /\ pc' \in {"areas", "merge", "ok"} =>
               pc \in {"areas", "merge", "ok"} \/ offset >= End
      BY <2>3
      DEF BadRecord, ParseEnd, FollowAreas, PickUp, Join, Push, MergeEnd, vars
    <3>2. RecordStarts' = RecordStarts /\ (InSectors' <=> InSectors) /\ End' = End
      BY <3>1, DataKept
    <3>3. QED
      BY <1>2, <3>1, <3>2 DEF Passed
  <2>4. QED
    BY <1>2, <2>1, <2>2, <2>3 DEF Next
<1>3. ASSUME DirInv, Passed
      PROVE  EverySectorListed
  <2> SUFFICES ASSUME pc \in {"areas", "merge", "ok"}, InSectors
               PROVE  /\ {records[i] : i \in DOMAIN records} = {o \in RecordStarts : ~data[o].dot}
                      /\ \A i \in 1 .. Len(records) - 1 : records[i] < records[i + 1]
    BY DEF EverySectorListed
  <2>1. offset >= End /\ offset \in Nat
    BY <1>3, EndNat, RoundUpBounds DEF Passed, DirInv, TypeOK
  <2>2. \A p \in RecordStarts : p < offset
    <3> TAKE p \in RecordStarts
    <3>1. p \in Nat /\ End \in Nat /\ p < End
      BY <1>3, StartFacts
    <3>2. QED
      BY <2>1, <3>1
  <2>3. {records[i] : i \in DOMAIN records} = {o \in RecordStarts : ~data[o].dot}
    <3>1. {records[i] : i \in DOMAIN records} = {o \in RecordStarts : o < offset /\ ~data[o].dot}
      BY <1>3 DEF Passed
    <3>2. QED
      BY <2>2, <3>1
  <2>4. \A i \in 1 .. Len(records) - 1 : records[i] < records[i + 1]
    <3>1. Len(records) \in Nat
      BY <1>3, LenProperties DEF DirInv, TypeOK
    <3>2. QED
      BY <1>3, <3>1 DEF DirInv, Increasing
  <2>5. QED
    BY <2>3, <2>4
<1>4. QED
  BY <1>1, <1>2, <1>3, InitDir, NextDir, PTL DEF Spec

================================================================================
