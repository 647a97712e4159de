---------------------------- MODULE FileReaderProofs ----------------------------
(***************************************************************************)
(* Proofs about FileReader, for every sector size, integer width and file.  *)
(* The second half shows that it implements FlatFile: whatever the extents  *)
(* a file is stored in and the sectors that cannot be read, its reader      *)
(* reads and seeks in one sequence of bytes.                                *)
(***************************************************************************)
EXTENDS FileReader, SequenceTheorems, WellFoundedInduction, TLAPS

USE SectorAssumption, WidthAssumption

(* The sector under a position starts at or before it, less than a sector.  *)
LEMMA SectorStart ==
  ASSUME NEW p \in Nat
  PROVE  /\ (p \div SECTOR) * SECTOR \in Nat
         /\ (p \div SECTOR) * SECTOR <= p
         /\ p - (p \div SECTOR) * SECTOR < SECTOR
         /\ p \div SECTOR \in Nat
         /\ ((p \div SECTOR) * SECTOR) \div SECTOR = p \div SECTOR
  BY SMT

(* The clamp keeps a seek's target in 0 .. total.                           *)
LEMMA ClampedRange ==
  ASSUME total \in Nat, NEW x \in Int
  PROVE  Clamped(x) \in 0 .. total
  BY DEF Clamped, Lesser

(* What every step relies on about the extent under the cursor.             *)
LEMMA ExtentFacts ==
  ASSUME TypeOK, ~AtEnd
  PROVE  /\ Extent.lba \in Nat /\ Extent.size \in 0 .. U32 - 1
         /\ ext_idx \in 0 .. Len(extents) - 1 /\ Len(extents) \in Nat
<1>1. /\ Len(extents) \in Nat
      /\ ext_idx + 1 \in 1 .. Len(extents)
      /\ ext_idx \in 0 .. Len(extents) - 1
  BY DEF TypeOK, AtEnd
<1>2. extents[ext_idx + 1] \in Ext
  BY <1>1, ElementOfSeq DEF TypeOK
<1>3. QED
  BY <1>1, <1>2 DEF Ext, Extent

(* Where an extent ends is a number.                                        *)
LEMMA BeforeIsNat ==
  ASSUME TypeOK, NEW i \in 0 .. Len(extents)
  PROVE  Before(i) \in Nat
<1>1. CASE i = 0
  BY <1>1 DEF Before
<1>2. CASE i # 0
  <2>1. i \in 1 .. Len(extents)
    BY <1>2
  <2>2. extents[i] \in Ext
    BY <2>1, ElementOfSeq DEF TypeOK
  <2>3. QED
    BY <1>2, <2>2 DEF Before, Ext
<1>3. QED
  BY <1>1, <1>2

(* The position a seek asks for, before the clamp.                          *)
LEMMA TargetIsInt ==
  ASSUME TypeOK, NEW s \in Seeks
  PROVE  Target(s) \in Int
<1>1. Before(ext_idx) % U32 \in Int
  <2>1. Before(ext_idx) \in Nat
    BY BeforeIsNat DEF TypeOK
  <2>2. QED
    BY <2>1
<1>2. \A x \in Int : Signed(x) \in Int
  BY DEF Signed
<1>3. s.by \in Int /\ total \in Int /\ ext_pos \in Int
  BY SeekAssumption DEF TypeOK
<1>4. CASE s.whence = "start"
  BY <1>2, <1>3, <1>4 DEF Target
<1>5. CASE s.whence = "end"
  BY <1>2, <1>3, <1>5 DEF Target
<1>6. CASE s.whence = "current"
  <2>1. (Before(ext_idx) % U32) + ext_pos + s.by \in Int
    BY <1>1, <1>3
  <2>2. QED
    BY <1>2, <1>6, <2>1 DEF Target
<1>7. QED
  BY <1>4, <1>5, <1>6, SeekAssumption

ReaderInv == TypeOK /\ CursorInside /\ BufferFaithful

LEMMA ReaderInit == Init => ReaderInv
<1> SUFFICES ASSUME Init PROVE ReaderInv
  OBVIOUS
<1>1. extents \in Seq(Ext) /\ extents # <<>> /\ Consecutive(extents)
  BY ExtentAssumption DEF Init
<1>2. Len(extents) \in Nat \ {0}
  BY <1>1, EmptySeq
<1>3. extents[Len(extents)] \in Ext /\ extents[1] \in Ext
  BY <1>1, <1>2, ElementOfSeq
<1>4. Size \in Nat /\ Size % U32 \in 0 .. U32 - 1
  BY SMTT(40), <1>2, <1>3 DEF Size, Before, Ext
<1>5. TypeOK
  BY <1>1, <1>2, <1>4, EmptySeq DEF Init, TypeOK, Reading, Idle, Garbage, NoSector
<1>6. CursorInside
  BY <1>2, <1>3 DEF Init, CursorInside, AtEnd, Extent, Ext
<1>7. BufferFaithful
  BY SectorStart DEF Init, BufferFaithful, Loaded, NoSector, sector_start
<1>8. QED
  BY <1>5, <1>6, <1>7 DEF ReaderInv

(* The position a seek computes lies inside the extent that holds it.       *)
LEMMA SeekInside ==
  ASSUME TypeOK, NEW p \in Nat, NEW i \in 0 .. Len(extents) - 1, Holds(i, p),
         \A j \in 0 .. Len(extents) - 1 : Holds(j, p) => i <= j
  PROVE  p - Before(i) \in 0 .. extents[i + 1].size /\ extents[i + 1].size \in 0 .. U32 - 1
<1>1. Len(extents) \in Nat /\ i + 1 \in 1 .. Len(extents) /\ extents[i + 1] \in Ext
  BY ElementOfSeq DEF TypeOK
<1>2. p <= extents[i + 1].start + extents[i + 1].size
  BY <1>1 DEF Holds, Before, Ext
<1>3. CASE i = 0
  <2>1. extents[i + 1].start = 0
    BY <1>3 DEF TypeOK, Consecutive
  <2>2. QED
    BY <1>1, <1>2, <1>3, <2>1 DEF Before, Ext
<1>4. CASE i # 0
  <2>1. ~Holds(i - 1, p) /\ i \in 1 .. Len(extents) - 1
    BY <1>1, <1>4
  <2>2. extents[i] \in Ext
    BY <1>1, <2>1, ElementOfSeq DEF TypeOK
  <2>3. Before(i) <= p /\ Before(i) = extents[i].start + extents[i].size
    BY <2>1, <2>2 DEF Holds, Before, Ext
  <2>4. extents[i + 1].start = Before(i)
    BY <2>1, <2>3 DEF TypeOK, Consecutive
  <2>5. QED
    BY SMTT(40), <1>1, <1>2, <2>2, <2>3, <2>4 DEF Ext
<1>5. QED
  BY <1>3, <1>4

(* Type correctness, the cursor and the buffer, together inductive: the     *)
(* buffer's bounds rest on the cursor's, and a step trusts all three.       *)
THEOREM ReaderCorrect == Spec => []ReaderInv
<1>1. ReaderInv /\ [Next]_vars => ReaderInv'
  <2> SUFFICES ASSUME ReaderInv, [Next]_vars PROVE ReaderInv'
    OBVIOUS
  <2> USE DEF ReaderInv
  <2>1. CASE ReadCall
    <3>1. TypeOK'
      BY <2>1, CountAssumption DEF ReadCall, TypeOK, cursor, buffer, Reading, Idle
    <3>2. CursorInside' /\ BufferFaithful'
      BY <2>1 DEF ReadCall, CursorInside, BufferFaithful, cursor, buffer, AtEnd, Extent,
                  Loaded, sector_start
    <3>3. QED
      BY <3>1, <3>2
  <2>2. CASE NextExtent
    <3>1. ext_idx' \in 0 .. Len(extents) /\ Len(extents) \in Nat
      BY <2>2, ExtentFacts DEF NextExtent, MoreWanted
    <3>2. TypeOK'
      BY <2>2, <3>1 DEF NextExtent, TypeOK, Reading
    <3>3. CursorInside'
      <4>1. CASE AtEnd'
        BY <2>2, <4>1 DEF NextExtent, CursorInside
      <4>2. CASE ~AtEnd'
        <5>1. extents[ext_idx' + 1] \in Ext /\ extents' = extents /\ ext_pos' = 0
          BY <2>2, <3>1, <4>2, ElementOfSeq DEF NextExtent, AtEnd, TypeOK
        <5>2. QED
          BY <4>2, <5>1 DEF CursorInside, Extent, Ext
      <4>3. QED
        BY <4>1, <4>2
    <3>4. BufferFaithful'
      BY <2>2, SectorStart DEF NextExtent, BufferFaithful, Loaded, NoSector, sector_start
    <3>5. QED
      BY <3>2, <3>3, <3>4
  <2>3. CASE Fill
    <3> DEFINE left == Extent.size - sector_start
    <3>1. /\ sector_start \in Nat /\ sector_start \div SECTOR \in Nat
          /\ ext_pos - sector_start \in 0 .. SECTOR - 1
          /\ ext_pos - sector_start < left
      <4>1. ext_pos \in Nat
        BY DEF TypeOK
      <4>2. /\ sector_start \in Nat /\ sector_start \div SECTOR \in Nat
            /\ sector_start <= ext_pos /\ ext_pos - sector_start < SECTOR
        BY <4>1, SectorStart DEF sector_start
      <4>3. Extent.size \in Nat /\ ext_pos < Extent.size
        BY <2>3, ExtentFacts DEF Fill, MoreWanted
      <4>4. QED
        BY <4>1, <4>2, <4>3
    <3>2. /\ Lesser(left, SECTOR) \in 0 .. SECTOR
          /\ ext_pos - sector_start <= Lesser(left, SECTOR)
      BY SMTT(40), <2>3, <3>1, ExtentFacts DEF Fill, MoreWanted, Lesser
    <3>3. Extent.lba + sector_start \div SECTOR \in Nat
      BY SMTT(40), <2>3, <3>1, ExtentFacts DEF Fill, MoreWanted
    <3>4. TypeOK'
      BY <2>3, <3>1, <3>2, <3>3 DEF Fill, TypeOK, cursor, Reading
    <3>5. CursorInside'
      BY <2>3 DEF Fill, CursorInside, cursor, AtEnd, Extent
    <3>6. BufferFaithful'
      BY <2>3, <3>2 DEF Fill, BufferFaithful, cursor, Extent, AtEnd
    <3>7. QED
      BY <3>4, <3>5, <3>6
  <2>4. CASE FillFails
    <3>1. TypeOK'
      BY <2>4, EmptySeq DEF FillFails, Return, TypeOK, cursor, Reading, Garbage, Idle
    <3>2. CursorInside' /\ BufferFaithful'
      BY <2>4 DEF FillFails, CursorInside, BufferFaithful, cursor, AtEnd, Extent, Loaded,
                  sector_start
    <3>3. QED
      BY <3>1, <3>2
  <2>5. CASE Copy
    <3> DEFINE to_copy == Lesser(available, want - Len(written))
               chunk   == [i \in 1 .. to_copy |-> <<sector, buf_pos + i - 1>>]
    <3>1. /\ buf_pos = ext_pos - buf_start
          /\ buf_valid = Lesser(Extent.size - buf_start, SECTOR)
          /\ ~AtEnd
      BY <2>5 DEF Copy, MoreWanted, BufferFaithful
    <3>2. /\ to_copy \in Nat /\ buf_pos + to_copy \in 0 .. buf_valid
          /\ ext_pos + to_copy <= Extent.size
          /\ Extent.size \in 0 .. U32 - 1
      <4>1. want - Len(written) \in Nat
        BY <2>5 DEF Copy, MoreWanted, Reading, TypeOK, Idle
      <4>2. available \in Nat
        BY DEF BufferFaithful, available, TypeOK
      <4>3. Extent.size \in 0 .. U32 - 1
        BY <3>1, ExtentFacts
      <4>4. buf_start \in Nat
        BY <2>5, SectorStart DEF Copy, Loaded, sector_start, TypeOK
      <4>5. to_copy \in Nat /\ to_copy <= available
        BY <4>1, <4>2 DEF Lesser
      <4>6. buf_valid <= Extent.size - buf_start
        BY <3>1, <4>3, <4>4 DEF Lesser
      <4>7. /\ buf_pos \in Nat /\ buf_valid \in Nat /\ ext_pos \in Nat
            /\ available = buf_valid - buf_pos
        BY DEF TypeOK, available
      <4>8. QED
        BY SMTT(40), <3>1, <4>3, <4>4, <4>5, <4>6, <4>7
    <3>3. written' \in Seq((Nat \union {Garbage}) \X Nat)
      <4>1. chunk \in Seq((Nat \union {Garbage}) \X Nat)
        <5> HIDE DEF to_copy
        <5>a. sector \in Nat \union {Garbage}
          BY DEF TypeOK
        <5>b. buf_pos \in Nat
          BY DEF TypeOK
        <5>c. \A i \in 1 .. to_copy : buf_pos + i - 1 \in Nat
          BY <3>2, <5>b
        <5>1. \A i \in 1 .. to_copy :
                <<sector, buf_pos + i - 1>> \in (Nat \union {Garbage}) \X Nat
          BY <5>a, <5>c
        <5>2. QED
          BY <3>2, <5>1, IsASeq
      <4>2. QED
        BY <2>5, <4>1, ConcatProperties DEF Copy, TypeOK
    <3>4. /\ buf_pos' = buf_pos + to_copy /\ ext_pos' = ext_pos + to_copy /\ Reading
          /\ buf_start = sector_start
          /\ UNCHANGED <<extents, total, ext_idx, sector, buf_start, buf_valid, want, reply>>
      BY <2>5 DEF Copy, MoreWanted, Loaded
    <3>5. TypeOK'
      <4>1. buf_pos' \in 0 .. SECTOR
        BY <3>2, <3>4 DEF TypeOK
      <4>2. ext_pos' \in 0 .. U32 - 1
        BY SMTT(40), <3>2, <3>4 DEF TypeOK
      <4>3. QED
        BY <3>3, <3>4, <4>1, <4>2 DEF TypeOK, Reading
    <3>6. CursorInside'
      BY <3>1, <3>2, <3>4 DEF CursorInside, AtEnd, Extent
    <3>7. BufferFaithful'
      <4>1. sector = Extent.lba + buf_start \div SECTOR
        BY <2>5, <3>1 DEF Copy, BufferFaithful
      <4>2. buf_pos' = ext_pos' - buf_start'
        <5>1. buf_start \in Nat /\ ext_pos \in Nat
          BY <3>4, SectorStart DEF TypeOK, sector_start
        <5>2. QED
          BY <3>1, <3>2, <3>4, <5>1
      <4>3. buf_pos' <= buf_valid'
        BY <3>2, <3>4
      <4>4. QED
        BY <3>1, <3>4, <4>1, <4>2, <4>3 DEF BufferFaithful, AtEnd, Extent
    <3>8. QED
      BY <3>5, <3>6, <3>7
  <2>6. CASE ReadReturn
    <3>1. TypeOK'
      BY <2>6, EmptySeq DEF ReadReturn, Return, TypeOK, cursor, buffer, Reading, Idle
    <3>2. CursorInside' /\ BufferFaithful'
      BY <2>6 DEF ReadReturn, CursorInside, BufferFaithful, cursor, buffer, AtEnd, Extent,
                  Loaded, sector_start
    <3>3. QED
      BY <3>1, <3>2
  <2>7. ASSUME NEW s \in Seeks, Seek(s) PROVE ReaderInv'
    <3> DEFINE p == Clamped(Target(s))
               holding == {i \in 0 .. Len(extents) - 1 : Holds(i, p)}
    <3>1. Target(s) \in Int
      BY TargetIsInt
    <3>2. p \in Nat
      BY <3>1, ClampedRange DEF TypeOK
    <3>3. /\ ext_idx' \in 0 .. Len(extents) /\ Len(extents) \in Nat
          /\ IF ext_idx' = Len(extents) THEN ext_pos' = 0
             ELSE ext_pos' \in 0 .. extents[ext_idx' + 1].size
          /\ ext_pos' \in 0 .. U32 - 1
      <4>1. CASE holding = {}
        BY <2>7, <4>1 DEF Seek, TypeOK
      <4>2. CASE holding # {}
        <5>1. PICK i \in holding : /\ \A j \in holding : i <= j
                                   /\ ext_idx' = i
                                   /\ ext_pos' = p - Before(i)
          BY <2>7, <4>2 DEF Seek
        <5>2. p - Before(i) \in 0 .. extents[i + 1].size /\ extents[i + 1].size \in 0 .. U32 - 1
          BY <3>2, <5>1, SeekInside
        <5>3. QED
          BY SMTT(40), <5>1, <5>2 DEF TypeOK
      <4>3. QED
        BY <4>1, <4>2
    <3>4. UNCHANGED <<extents, total, sector, want, written>>
          /\ buf_start' = NoSector /\ buf_valid' = 0 /\ buf_pos' = 0
      BY <2>7 DEF Seek
    <3>5. TypeOK'
      BY <3>3, <3>4 DEF TypeOK, Reading
    <3>6. CursorInside'
      BY <3>3, <3>4 DEF CursorInside, AtEnd, Extent
    <3>7. BufferFaithful'
      <4>1. sector_start' \in Nat
        <5>1. ext_pos' \in Nat
          BY <3>3
        <5>2. (ext_pos' \div SECTOR) * SECTOR \in Nat
          BY <5>1, SectorStart
        <5>3. QED
          BY <5>2 DEF sector_start
      <4>2. QED
        BY <3>4, <4>1 DEF BufferFaithful, Loaded, NoSector
    <3>8. QED
      BY <3>5, <3>6, <3>7
  <2>8. CASE UNCHANGED vars
    BY <2>8 DEF vars, cursor, buffer, TypeOK, CursorInside, BufferFaithful, AtEnd, Extent,
                Loaded, sector_start, Reading
  <2>9. QED
    BY <2>1, <2>2, <2>3, <2>4, <2>5, <2>6, <2>7, <2>8 DEF Next, ReadSteps
<1>2. QED
  BY <1>1, ReaderInit, PTL DEF Spec

(* Type correctness: the reader's counters keep their widths, so that no    *)
(* u32 addition or subtraction of read leaves them.                         *)
THEOREM ReaderTypeCorrect == Spec => []TypeOK
  BY ReaderCorrect, PTL DEF ReaderInv

(* The buffer is always the sector under the cursor, or marked stale.       *)
THEOREM BufferAlwaysFaithful == Spec => []BufferFaithful
  BY ReaderCorrect, PTL DEF ReaderInv

(* The cursor never passes the end of its extent.                           *)
THEOREM CursorStaysInside == Spec => []CursorInside
  BY ReaderCorrect, PTL DEF ReaderInv

TotalWraps == total = Size % U32

(* A seek finds an extent: the last one holds any position up to the end.   *)
LEMMA SeekFinds ==
  ASSUME TypeOK, TotalWraps, NEW p \in 0 .. total
  PROVE  Holds(Len(extents) - 1, p) /\ Len(extents) - 1 \in 0 .. Len(extents) - 1
<1>1. Len(extents) \in Nat \ {0}
  BY EmptySeq DEF TypeOK
<1>2. extents[Len(extents)] \in Ext
  BY <1>1, ElementOfSeq DEF TypeOK
<1>3. Size \in Nat /\ Size = Before(Len(extents))
  BY <1>1, <1>2 DEF Size, Before, Ext
<1>4. Size % U32 <= Size
  BY <1>3
<1>5. QED
  BY <1>1, <1>3, <1>4 DEF Holds, TotalWraps

(* Whatever the request -- far outside the file, beyond 64 bits, in a file  *)
(* whose total has wrapped -- seek answers with the place the cursor is at. *)
THEOREM SeekAlwaysLands == Spec => []SeekLands
<1>1. Init => TotalWraps /\ SeekLands
  BY DEF Init, TotalWraps, SeekLands, NoCall
<1>2. TypeOK /\ TotalWraps /\ SeekLands /\ [Next]_vars => (TotalWraps /\ SeekLands)'
  <2> SUFFICES ASSUME TypeOK, TotalWraps, SeekLands, [Next]_vars
               PROVE  (TotalWraps /\ SeekLands)'
    OBVIOUS
  <2>1. TotalWraps'
    <3>1. UNCHANGED <<extents, total>>
      BY DEF Next, ReadSteps, ReadCall, NextExtent, Fill, FillFails, Copy, ReadReturn, Seek, vars
    <3>2. QED
      BY <3>1 DEF TotalWraps, Size, Before
  <2>2. CASE ReadCall
    <3>1. want' \in Counts
      BY <2>2 DEF ReadCall
    <3>2. Reading'
      BY <3>1, CountAssumption DEF Reading, Idle
    <3>3. QED
      BY <2>1, <3>2 DEF SeekLands
  <2>3. CASE NextExtent \/ Fill \/ Copy
    <3>1. Reading
      BY <2>3 DEF NextExtent, Fill, Copy, MoreWanted
    <3>2. want' = want
      BY <2>3 DEF NextExtent, Fill, Copy
    <3>3. Reading'
      BY <3>1, <3>2 DEF Reading
    <3>4. QED
      BY <2>1, <3>3 DEF SeekLands
  <2>4. CASE FillFails \/ ReadReturn
    <3>1. reply' = Error \/ reply' = Data(written)
      BY <2>4 DEF FillFails, ReadReturn, Return
    <3>2. CASE reply' = Error
      BY <2>1, <3>2 DEF Error, SeekLands
    <3>3. CASE reply' = Data(written)
      BY <2>1, <3>3 DEF Data, SeekLands
    <3>4. QED
      BY <3>1, <3>2, <3>3
  <2>5. ASSUME NEW s \in Seeks, Seek(s) PROVE (TotalWraps /\ SeekLands)'
    <3> DEFINE p == Clamped(Target(s))
               holding == {i \in 0 .. Len(extents) - 1 : Holds(i, p)}
    <3>1. Target(s) \in Int
      BY TargetIsInt
    <3>2. p \in 0 .. total
      BY <3>1, ClampedRange DEF TypeOK
    <3>3. holding # {}
      BY <3>2, SeekFinds
    <3>4. PICK i \in holding : ext_idx' = i /\ ext_pos' = p - Before(i)
      BY <2>5, <3>3 DEF Seek
    <3>5. Before(i) \in Int
      BY BeforeIsNat DEF TypeOK
    <3>6. reply' = At(p) /\ extents' = extents
      BY <2>5 DEF Seek
    <3>7. p = Before(ext_idx') + ext_pos'
      BY <3>2, <3>4, <3>5
    <3>8. QED
      BY <2>1, <3>6, <3>7 DEF SeekLands, At, Before
  <2>6. CASE UNCHANGED vars
    <3>1. UNCHANGED <<extents, ext_idx, ext_pos, want, reply>>
      BY <2>6 DEF vars, cursor
    <3>2. QED
      BY <2>1, <3>1 DEF SeekLands, Reading, Before
  <2>7. QED
    BY <2>2, <2>3, <2>4, <2>5, <2>6 DEF Next, ReadSteps
<1>3. QED
  BY <1>1, <1>2, ReaderTypeCorrect, PTL DEF Spec

--------------------------------------------------------------------------------

(* Files whose size is below the 32-bit limit.                              *)
SizesFit ==
  \A exts \in ExtentLists : exts[Len(exts)].start + exts[Len(exts)].size < U32

(* Requests that stay within 64 bits from anywhere in such a file.          *)
SeeksFit == \A s \in Seeks : -I64 <= s.by /\ s.by + U32 <= I64

Position == Before(ext_idx) + ext_pos

(* The size is the one stated.                                              *)
Fitting == total = Size /\ Size < U32

(* What a read has copied so far are the bytes of the file up to the cursor. *)
WrittenFaithful ==
  /\ Reading => want \in Counts /\ Len(written) <= want
  /\ Len(written) <= Position
  /\ \A i \in 1 .. Len(written) : written[i] = FlatBytes[Position - Len(written) + i]

LEMMA Least ==
  ASSUME NEW T \in SUBSET Nat, T # {}
  PROVE  \E x \in T : \A y \in T : x <= y
<1>1. PICK x \in T : \A y \in T : ~(<<y, x>> \in OpToRel(<, Nat))
  BY Zenon, NatLessThanWellFounded, WFMin
<1>2. \A y \in T : ~(y < x)
  BY <1>1 DEF OpToRel
<1>3. QED
  BY <1>2

(* Extents follow one another.                                              *)
LEMMA BeforeNext ==
  ASSUME TypeOK, NEW i \in 0 .. Len(extents) - 1
  PROVE  Before(i + 1) = Before(i) + extents[i + 1].size /\ extents[i + 1].size \in Nat
<1>1. Len(extents) \in Nat /\ i + 1 \in 1 .. Len(extents) /\ extents[i + 1] \in Ext
  BY ElementOfSeq DEF TypeOK
<1>2. Before(i + 1) = extents[i + 1].start + extents[i + 1].size
  BY <1>1 DEF Before
<1>3. extents[i + 1].start = Before(i)
  <2>1. CASE i = 0
    BY <2>1 DEF TypeOK, Consecutive, Before
  <2>2. CASE i # 0
    <3>1. i \in 1 .. Len(extents) - 1
      BY <1>1, <2>2
    <3>2. QED
      BY <2>2, <3>1 DEF TypeOK, Consecutive, Before
  <2>3. QED
    BY <2>1, <2>2
<1>4. QED
  BY <1>1, <1>2, <1>3 DEF Ext

LEMMA BeforeMonotone ==
  ASSUME TypeOK, NEW i \in 0 .. Len(extents), NEW j \in 0 .. Len(extents), i <= j
  PROVE  Before(i) <= Before(j)
<1>1. Len(extents) \in Nat /\ i \in Nat
  BY LenProperties DEF TypeOK
<1>2. DEFINE Bad == {k \in i .. Len(extents) : ~(Before(i) <= Before(k))}
<1>3. SUFFICES ASSUME Bad # {} PROVE FALSE
  BY <1>1
<1>4. Bad \in SUBSET Nat
  BY <1>1
<1>5. PICK k \in Bad : \A m \in Bad : k <= m
  BY <1>3, <1>4, Least
<1>6. k \in i .. Len(extents) /\ ~(Before(i) <= Before(k)) /\ k # i
  BY <1>1, <1>5, BeforeIsNat
<1>7. k - 1 \in i .. Len(extents) /\ k - 1 \notin Bad
  BY <1>1, <1>5, <1>6
<1>8. Before(i) <= Before(k - 1)
  BY <1>7
<1>9. k - 1 \in 0 .. Len(extents) - 1 /\ k - 1 + 1 = k
  BY <1>1, <1>6
<1>10. Before(k) = Before(k - 1) + extents[k].size /\ extents[k].size \in Nat
  BY <1>9, BeforeNext
<1>11. Before(k - 1) \in Nat /\ Before(i) \in Nat
  BY <1>1, <1>9, BeforeIsNat
<1>12. QED
  BY <1>6, <1>8, <1>10, <1>11

(* The cursor is a position of the file.                                    *)
LEMMA PositionInside ==
  ASSUME ReaderInv
  PROVE  /\ Size \in Nat /\ Position \in 0 .. Size
         /\ AtEnd => Position = Size
         /\ ~AtEnd => /\ Before(ext_idx) \in Nat
                      /\ Before(ext_idx + 1) = Before(ext_idx) + Extent.size
                      /\ Before(ext_idx + 1) <= Size
<1> USE DEF ReaderInv
<1>1. /\ Len(extents) \in Nat /\ ext_idx \in 0 .. Len(extents) /\ ext_pos \in Nat
  BY LenProperties DEF TypeOK
<1>2. Size \in Nat /\ Before(ext_idx) \in Nat
  BY <1>1, BeforeIsNat DEF Size
<1>3. CASE AtEnd
  <2>1. ext_idx = Len(extents) /\ ext_pos = 0
    BY <1>1, <1>3 DEF AtEnd, CursorInside
  <2>2. QED
    BY <1>2, <1>3, <2>1 DEF Position, Size
<1>4. CASE ~AtEnd
  <2>1. ext_idx \in 0 .. Len(extents) - 1 /\ ext_pos <= Extent.size
    BY <1>1, <1>4 DEF AtEnd, CursorInside
  <2>2. Before(ext_idx + 1) = Before(ext_idx) + Extent.size /\ Extent.size \in Nat
    BY <2>1, BeforeNext DEF Extent
  <2>3. Before(ext_idx + 1) <= Size
    <3>1. ext_idx + 1 \in 0 .. Len(extents) /\ Len(extents) \in 0 .. Len(extents)
          /\ ext_idx + 1 <= Len(extents)
      BY <1>1, <2>1
    <3>2. QED
      BY <3>1, BeforeMonotone DEF Size
  <2>4. QED
    BY <1>1, <1>2, <1>4, <2>1, <2>2, <2>3 DEF Position
<1>5. QED
  BY <1>3, <1>4

(* A byte of the file lies in one extent only.                              *)
LEMMA ByteOf ==
  ASSUME TypeOK, NEW i \in 0 .. Len(extents) - 1, NEW o \in 0 .. extents[i + 1].size - 1,
         Before(i) + o + 1 \in 1 .. Size
  PROVE  FlatBytes[Before(i) + o + 1] = <<extents[i + 1].lba + o \div SECTOR, o % SECTOR>>
<1> DEFINE p == Before(i) + o + 1
           Inside(j) == Before(j - 1) < p /\ p <= Before(j)
<1>1. /\ Len(extents) \in Nat /\ DOMAIN extents = 1 .. Len(extents)
      /\ i + 1 \in DOMAIN extents /\ i \in 0 .. Len(extents)
  BY LenProperties DEF TypeOK
<1>2. /\ Before(i) \in Nat /\ extents[i + 1].size \in Nat
      /\ Before(i + 1) = Before(i) + extents[i + 1].size
  BY <1>1, BeforeIsNat, BeforeNext
<1>3. Inside(i + 1)
  BY SMTT(40), <1>1, <1>2
<1>4. ASSUME NEW j \in DOMAIN extents, Inside(j)
      PROVE  j = i + 1
  <2>1. /\ j \in 0 .. Len(extents) /\ j - 1 \in 0 .. Len(extents) /\ i + 1 \in 0 .. Len(extents)
        /\ Before(j) \in Nat /\ Before(j - 1) \in Nat
    <3>1. j \in 0 .. Len(extents) /\ j - 1 \in 0 .. Len(extents) /\ i + 1 \in 0 .. Len(extents)
      BY <1>1
    <3>2. QED
      BY <3>1, BeforeIsNat
  <2>2. CASE j < i + 1
    <3>1. Before(j) <= Before(i)
      BY SMTT(40), <1>1, <2>1, <2>2, BeforeMonotone
    <3>2. QED
      BY SMTT(40), <1>2, <1>4, <2>1, <3>1
  <2>3. CASE i + 1 < j
    <3>1. i + 1 <= j - 1
      BY <1>1, <2>3
    <3>2. Before(i + 1) <= Before(j - 1)
      BY <2>1, <3>1, BeforeMonotone
    <3>3. QED
      BY SMTT(40), <1>2, <1>4, <2>1, <3>2
  <2>4. QED
    BY <1>1, <2>2, <2>3
<1> DEFINE at == CHOOSE j \in DOMAIN extents : Before(j - 1) < p /\ p <= Before(j)
           off == p - 1 - Before(at - 1)
<1>5. at = i + 1
  BY <1>1, <1>3, <1>4
<1>6. FlatBytes[p] = <<extents[at].lba + off \div SECTOR, off % SECTOR>>
  BY DEF FlatBytes
<1>7. off = o
  <2> HIDE DEF at
  <2>1. at - 1 = i
    BY <1>1, <1>5
  <2>2. QED
    BY <1>2, <2>1
<1> HIDE DEF at, off
<1>8. QED
  BY <1>5, <1>6, <1>7

(* The offset of a byte within a sector.                                    *)
LEMMA SectorSplit ==
  ASSUME NEW q \in Nat, NEW r \in 0 .. SECTOR - 1
  PROVE  (q * SECTOR + r) \div SECTOR = q /\ (q * SECTOR + r) % SECTOR = r
  OBVIOUS

--------------------------------------------------------------------------------

(* A sector's buffer, where it is the one under the cursor, holds the bytes *)
(* that follow the cursor.                                                  *)
LEMMA BufferBytes ==
  ASSUME ReaderInv, ~AtEnd, ext_pos < Extent.size, Loaded,
         NEW i \in 1 .. available
  PROVE  /\ Position + i \in 1 .. Size
         /\ FlatBytes[Position + i] = <<sector, buf_pos + i - 1>>
<1> USE DEF ReaderInv
<1>1. /\ sector = Extent.lba + buf_start \div SECTOR
      /\ buf_pos = ext_pos - buf_start
      /\ buf_valid = Lesser(Extent.size - buf_start, SECTOR)
  BY DEF BufferFaithful
<1>2. /\ ext_pos \in Nat /\ Extent.size \in Nat /\ Extent.lba \in Nat
      /\ ext_idx \in 0 .. Len(extents) - 1
      /\ buf_pos \in Nat /\ buf_valid \in Nat
  BY ExtentFacts DEF TypeOK
<1> DEFINE q == ext_pos \div SECTOR
           r == buf_pos + i - 1
           o == ext_pos + i - 1
<1>3. /\ q \in Nat /\ buf_start = q * SECTOR /\ buf_start \in Nat
      /\ buf_start \div SECTOR = q
  BY <1>2, SectorStart DEF Loaded, sector_start
<1>4. buf_pos + i <= Extent.size - buf_start /\ buf_pos + i <= SECTOR
  BY SMTT(40), <1>1, <1>2, <1>3 DEF available, Lesser
<1>5. r \in 0 .. SECTOR - 1 /\ o \in 0 .. Extent.size - 1 /\ o = buf_start + r
  <2>1. i \in Nat \ {0}
    OBVIOUS
  <2> HIDE DEF q
  <2>2. r \in 0 .. SECTOR - 1
    BY <1>2, <1>4, <2>1
  <2>3. o = buf_start + r
    BY <1>1, <1>2, <1>3, <2>1
  <2>4. o \in 0 .. Extent.size - 1
    BY SMTT(40), <1>1, <1>2, <1>3, <1>4, <2>1
  <2>5. QED
    BY <2>2, <2>3, <2>4
<1>6. o \div SECTOR = q /\ o % SECTOR = r
  <2> HIDE DEF q, r, o
  <2>1. o = q * SECTOR + r
    BY <1>3, <1>5
  <2>2. (q * SECTOR + r) \div SECTOR = q /\ (q * SECTOR + r) % SECTOR = r
    BY <1>3, <1>5, SectorSplit
  <2>3. QED
    BY <2>1, <2>2
<1>7. /\ Before(ext_idx) + o + 1 = Position + i
      /\ Position + i \in 1 .. Size
  <2>1. /\ Before(ext_idx) \in Nat /\ Size \in Nat
        /\ Before(ext_idx) + Extent.size <= Size
    BY PositionInside
  <2>2. QED
    BY SMTT(40), <1>2, <1>5, <2>1 DEF Position
<1>8. FlatBytes[Before(ext_idx) + o + 1] = <<Extent.lba + o \div SECTOR, o % SECTOR>>
  <2> HIDE DEF o
  <2>1. o \in 0 .. extents[ext_idx + 1].size - 1
    BY <1>5 DEF Extent
  <2>2. QED
    BY <1>2, <1>7, <2>1, ByteOf DEF Extent
<1>9. sector = Extent.lba + q
  BY <1>1, <1>3
<1> HIDE DEF q, r, o
<1>10. <<Extent.lba + o \div SECTOR, o % SECTOR>> = <<sector, r>>
  BY <1>6, <1>9
<1>11. QED
  BY <1>7, <1>8, <1>10 DEF r

LEMMA SmallMod ==
  ASSUME NEW n \in Nat, NEW m \in Nat, n < m
  PROVE  n % m = n
  OBVIOUS

LEMMA FileFixed ==
  ASSUME [Next]_vars
  PROVE  UNCHANGED <<extents, total>> /\ FlatBytes' = FlatBytes /\ Size' = Size
         /\ \A i : Before(i)' = Before(i)
<1>1. UNCHANGED <<extents, total>>
  BY DEF Next, ReadSteps, ReadCall, NextExtent, Fill, FillFails, Copy, ReadReturn, Seek, vars
<1>2. \A i : Before(i)' = Before(i)
  BY <1>1 DEF Before
<1>3. Size' = Size
  BY <1>1 DEF Size, Before
<1>4. FlatBytes' = FlatBytes
  BY <1>1 DEF FlatBytes, Size, Before
<1>5. QED
  BY <1>1, <1>2, <1>3, <1>4

LEMMA FittingInit ==
  ASSUME SizesFit, Init
  PROVE  Fitting
<1>1. extents \in ExtentLists /\ total = Size % U32
  BY DEF Init
<1>2. extents \in Seq(Ext) /\ Len(extents) \in Nat \ {0}
  BY <1>1, ExtentAssumption, EmptySeq, LenProperties
<1>3. extents[Len(extents)] \in Ext
  BY <1>2, ElementOfSeq
<1>4. Size = extents[Len(extents)].start + extents[Len(extents)].size /\ Size \in Nat
  BY <1>2, <1>3 DEF Size, Before, Ext
<1>5. Size < U32
  BY <1>1, <1>4 DEF SizesFit
<1>6. Size % U32 = Size
  BY <1>4, <1>5, SmallMod
<1>7. QED
  BY <1>1, <1>5, <1>6 DEF Fitting

(* Between calls nothing is written.                                        *)
LEMMA NothingWritten ==
  ASSUME TypeOK, ~Reading
  PROVE  written = <<>> /\ Len(written) = 0
  BY DEF TypeOK

(* The cursor of an extent used up is that of the next one.                 *)
LEMMA NextExtentPosition ==
  ASSUME ReaderInv, NextExtent
  PROVE  Position' = Position
<1>1. ~AtEnd /\ ext_pos >= Extent.size /\ ext_idx' = ext_idx + 1 /\ ext_pos' = 0
      /\ extents' = extents
  BY DEF NextExtent, MoreWanted
<1>2. ext_pos = Extent.size /\ Extent.size \in Nat
  BY <1>1, ExtentFacts DEF ReaderInv, CursorInside, TypeOK
<1>3. Before(ext_idx + 1) = Before(ext_idx) + Extent.size /\ Before(ext_idx) \in Nat
  BY <1>1, PositionInside
<1>4. Position' = Before(ext_idx + 1)
  BY <1>1, <1>2, <1>3 DEF Position, Before
<1>5. QED
  BY <1>2, <1>3, <1>4 DEF Position

(* What Copy does, in terms of the file.                                    *)
LEMMA CopyFacts ==
  ASSUME ReaderInv, WrittenFaithful, Copy
  PROVE  \E k \in 0 .. Size :
           /\ Len(written') = Len(written) + k
           /\ Position' = Position + k
           /\ Len(written') <= want
           /\ \A i \in 1 .. Len(written) : written'[i] = written[i]
           /\ \A i \in 1 .. k : written'[Len(written) + i] = FlatBytes[Position + i]
<1> USE DEF ReaderInv
<1> DEFINE k == Lesser(available, want - Len(written))
           chunk == [i \in 1 .. k |-> <<sector, buf_pos + i - 1>>]
<1>1. /\ ~AtEnd /\ ext_pos < Extent.size /\ Loaded /\ Reading
      /\ Len(written) < want
      /\ written' = written \o chunk
      /\ ext_pos' = ext_pos + k /\ UNCHANGED <<extents, ext_idx>>
  BY DEF Copy, MoreWanted
<1>2. /\ want \in Nat /\ Len(written) \in Nat /\ buf_pos \in Nat /\ available \in Nat
      /\ sector \in Nat \union {Garbage} /\ ext_pos \in Nat
  BY <1>1, LenProperties DEF TypeOK, Reading, BufferFaithful, available
<1>3. k \in Nat /\ k <= available /\ Len(written) + k <= want
  BY <1>1, <1>2 DEF Lesser
<1>4. \A i \in 1 .. k : Position + i \in 1 .. Size
                        /\ FlatBytes[Position + i] = <<sector, buf_pos + i - 1>>
  BY SMTT(40), <1>1, <1>2, <1>3, BufferBytes
<1>5. k \in 0 .. Size
  <2>1. Size \in Nat /\ Position \in 0 .. Size
    BY PositionInside
  <2>2. CASE k = 0
    BY <2>1, <2>2
  <2>3. CASE k # 0
    <3>1. k \in 1 .. k
      BY <1>3, <2>3
    <3>2. Position + k \in 1 .. Size
      BY <1>4, <3>1
    <3>3. QED
      BY <1>3, <2>1, <3>2
  <2>4. QED
    BY <2>2, <2>3
<1>6. chunk \in Seq((Nat \union {Garbage}) \X Nat) /\ Len(chunk) = k
      /\ \A i \in 1 .. k : chunk[i] = <<sector, buf_pos + i - 1>>
  <2> HIDE DEF k
  <2>1. \A i \in 1 .. k : <<sector, buf_pos + i - 1>> \in (Nat \union {Garbage}) \X Nat
    <3>1. \A i \in 1 .. k : buf_pos + i - 1 \in Nat
      BY <1>2, <1>3
    <3>2. QED
      BY <1>2, <3>1
  <2>2. chunk \in Seq((Nat \union {Garbage}) \X Nat)
    BY <1>3, <2>1, IsASeq
  <2>3. QED
    BY <1>3, <2>2, LenProperties
<1> HIDE DEF k, chunk
<1>7. /\ Len(written') = Len(written) + k
      /\ \A i \in 1 .. Len(written) : written'[i] = written[i]
      /\ \A i \in 1 .. k : written'[Len(written) + i] = chunk[i]
  <2>1. written \in Seq((Nat \union {Garbage}) \X Nat)
    BY DEF TypeOK
  <2>2. /\ Len(written \o chunk) = Len(written) + Len(chunk)
        /\ \A i \in 1 .. Len(written) + Len(chunk) :
             (written \o chunk)[i] = IF i <= Len(written) THEN written[i]
                                     ELSE chunk[i - Len(written)]
    BY ZenonT(60), <1>6, <2>1, ConcatProperties
  <2>3. \A i \in 1 .. Len(written) : written'[i] = written[i]
    BY <1>1, <1>2, <1>3, <1>6, <2>2
  <2>4. ASSUME NEW i \in 1 .. k
        PROVE  written'[Len(written) + i] = chunk[i]
    <3>1. /\ Len(written) + i \in 1 .. Len(written) + Len(chunk)
          /\ ~(Len(written) + i <= Len(written))
          /\ Len(written) + i - Len(written) = i
      BY <1>2, <1>3, <1>6
    <3>2. QED
      BY <1>1, <2>2, <3>1
  <2>5. QED
    BY <1>1, <1>6, <2>2, <2>3, <2>4
<1>8. Position' = Position + k
  <2>1. Before(ext_idx)' = Before(ext_idx) /\ Before(ext_idx) \in Nat
    BY <1>1, PositionInside DEF Before
  <2>2. QED
    BY <1>1, <1>2, <1>3, <2>1 DEF Position
<1>9. QED
  BY ZenonT(60), <1>3, <1>4, <1>5, <1>6, <1>7, <1>8

LEMMA WrittenInit == Init => WrittenFaithful
<1> SUFFICES ASSUME Init PROVE WrittenFaithful
  OBVIOUS
<1>1. written = <<>> /\ Len(written) = 0 /\ ~Reading
  BY DEF Init, Reading
<1>2. Position \in Nat
  BY ReaderInit, PositionInside
<1>3. QED
  BY <1>1, <1>2 DEF WrittenFaithful

LEMMA WrittenNext ==
  ASSUME ReaderInv, ReaderInv', WrittenFaithful, [Next]_vars
  PROVE  WrittenFaithful'
<1>1. FlatBytes' = FlatBytes /\ \A i : Before(i)' = Before(i)
  BY FileFixed
<1>2. Position \in Nat /\ Position' \in Nat /\ Len(written) \in Nat
  <2>1. Position \in Nat
    BY PositionInside
  <2>2. Position' \in Nat
    <3>1. ext_idx' \in 0 .. Len(extents) /\ ext_pos' \in Nat
      BY FileFixed DEF ReaderInv, TypeOK
    <3>2. Before(ext_idx') \in Nat
      BY <3>1, BeforeIsNat DEF ReaderInv
    <3>3. Position' = Before(ext_idx') + ext_pos'
      BY FileFixed DEF Position, Before
    <3>4. QED
      BY <3>1, <3>2, <3>3
  <2>3. QED
    BY <2>1, <2>2, LenProperties DEF ReaderInv, TypeOK
<1>3. ASSUME ~Reading'
      PROVE  WrittenFaithful'
  <2>1. written' = <<>>
    BY <1>3 DEF ReaderInv, TypeOK
  <2>2. Len(written') = 0
    BY <2>1
  <2>3. QED
    BY <1>2, <1>3, <2>2 DEF WrittenFaithful
<1>4. ASSUME Position' = Position, written' = written, want' = want
      PROVE  WrittenFaithful'
  BY <1>1, <1>4 DEF WrittenFaithful, Reading
<1>5. CASE ReadCall
  <2>1. written = <<>> /\ Len(written) = 0
    BY <1>5, NothingWritten DEF ReadCall, ReaderInv
  <2>2. want' \in Counts /\ want' \in Nat /\ written' = written
    BY <1>5, CountAssumption DEF ReadCall
  <2>3. QED
    BY <1>2, <2>1, <2>2 DEF WrittenFaithful
<1>6. CASE NextExtent
  BY <1>4, <1>6, NextExtentPosition DEF NextExtent
<1>7. CASE Fill
  <2>1. Position' = Position
    BY <1>7 DEF Fill, cursor, Position, Before
  <2>2. QED
    BY <1>4, <1>7, <2>1 DEF Fill
<1>8. CASE FillFails \/ ReadReturn
  BY <1>3, <1>8 DEF FillFails, ReadReturn, Return, Reading
<1>9. CASE Copy
  <2>1. PICK k \in 0 .. Size :
           /\ Len(written') = Len(written) + k
           /\ Position' = Position + k
           /\ Len(written') <= want
           /\ \A i \in 1 .. Len(written) : written'[i] = written[i]
           /\ \A i \in 1 .. k : written'[Len(written) + i] = FlatBytes[Position + i]
    BY <1>9, CopyFacts
  <2>2. k \in Nat
    BY <2>1, PositionInside
  <2>3. want' = want
    BY <1>9 DEF Copy
  <2>4. ASSUME NEW i \in 1 .. Len(written')
        PROVE  written'[i] = FlatBytes[Position' - Len(written') + i]
    <3>1. Position' - Len(written') + i = Position - Len(written) + i
      BY <1>2, <2>1, <2>2
    <3>2. CASE i <= Len(written)
      BY <1>2, <2>1, <3>1, <3>2 DEF WrittenFaithful
    <3>3. CASE Len(written) < i
      <4>1. i - Len(written) \in 1 .. k /\ Len(written) + (i - Len(written)) = i
            /\ Position + (i - Len(written)) = Position - Len(written) + i
        BY <1>2, <2>1, <2>2, <3>3
      <4>2. QED
        BY <2>1, <3>1, <4>1
    <3>4. QED
      BY <1>2, <2>1, <2>2, <3>2, <3>3
  <2>5. QED
    BY <1>1, <1>2, <2>1, <2>2, <2>3, <2>4 DEF WrittenFaithful, Reading
<1>10. ASSUME NEW s \in Seeks, Seek(s)
       PROVE  WrittenFaithful'
  BY <1>3, <1>10 DEF Seek, Reading
<1>11. CASE UNCHANGED vars
  <2>1. Position' = Position
    BY <1>11 DEF vars, cursor, Position, Before
  <2>2. QED
    BY <1>4, <1>11, <2>1 DEF vars
<1>12. QED
  BY <1>5, <1>6, <1>7, <1>8, <1>9, <1>10, <1>11 DEF Next, ReadSteps

--------------------------------------------------------------------------------

FlatPos == Before(ext_idx) + ext_pos - Len(written)

LEMMA FlatPosIs == ReaderInv => FlatPos = Position - Len(written)
<1> SUFFICES ASSUME ReaderInv PROVE FlatPos = Position - Len(written)
  OBVIOUS
<1>1. Before(ext_idx) \in Nat /\ ext_pos \in Nat /\ Len(written) \in Nat
  BY BeforeIsNat, LenProperties DEF ReaderInv, TypeOK
<1>2. QED
  BY <1>1 DEF FlatPos, Position

LEMMA FlatPosNext == ReaderInv' => FlatPos' = Position' - Len(written')
<1>1. (ReaderInv => FlatPos = Position - Len(written))'
  BY FlatPosIs, PTL
<1>2. QED
  BY <1>1

LEMMA FlatLength ==
  ASSUME Size \in Nat
  PROVE  /\ FlatBytes \in Seq({FlatBytes[p] : p \in 1 .. Size})
         /\ Len(FlatBytes) = Size
<1> DEFINE S == {FlatBytes[p] : p \in 1 .. Size}
<1>1. FlatBytes \in [1 .. Size -> S]
  BY Zenon DEF FlatBytes
<1>2. FlatBytes \in Seq(S)
  BY <1>1, SeqDef
<1>3. DOMAIN FlatBytes = 1 .. Size
  BY <1>1
<1>4. QED
  BY <1>2, <1>3, LenProperties

(* What a read reports is a part of the file.                               *)
LEMMA WrittenPart ==
  ASSUME ReaderInv, WrittenFaithful
  PROVE  /\ written = SubSeq(FlatBytes, FlatPos + 1, FlatPos + Len(written))
         /\ FlatPos \in Nat /\ FlatPos + Len(written) = Position /\ Len(written) \in Nat
<1>1. /\ Position \in 0 .. Size /\ Size \in Nat /\ Len(written) \in Nat
      /\ Len(written) <= Position
  BY PositionInside, LenProperties DEF WrittenFaithful, ReaderInv, TypeOK
<1>2. FlatPos = Position - Len(written)
  BY FlatPosIs
<1>3. FlatPos \in Nat /\ FlatPos + Len(written) = Position
  BY <1>1, <1>2
<1> DEFINE S == {FlatBytes[p] : p \in 1 .. Size} \union ((Nat \union {Garbage}) \X Nat)
           part == SubSeq(FlatBytes, FlatPos + 1, FlatPos + Len(written))
<1>4. \A p \in FlatPos + 1 .. FlatPos + Len(written) : FlatBytes[p] \in S
  <2>1. \A p \in FlatPos + 1 .. FlatPos + Len(written) : p \in 1 .. Size
    BY <1>1, <1>3
  <2>2. QED
    BY <2>1
<1>5. written \in Seq(S)
  <2>1. written \in Seq((Nat \union {Garbage}) \X Nat)
    BY DEF ReaderInv, TypeOK
  <2>2. (Nat \union {Garbage}) \X Nat \subseteq S
    OBVIOUS
  <2> HIDE DEF S
  <2>3. QED
    BY <2>1, <2>2, SeqMonotonic
<1> HIDE DEF S
<1>6. /\ part \in Seq(S)
      /\ Len(part) = Len(written)
      /\ \A i \in 1 .. Len(written) : part[i] = FlatBytes[FlatPos + i]
  <2> DEFINE m == FlatPos + 1
             n == FlatPos + Len(written)
  <2>1. m \in Int /\ n \in Int /\ n - m + 1 = Len(written)
        /\ (m <= n \/ Len(written) = 0)
    BY <1>1, <1>3
  <2>2. \A i \in m .. n : FlatBytes[i] \in S
    BY <1>4
  <2> HIDE DEF m, n
  <2>3. /\ SubSeq(FlatBytes, m, n) \in Seq(S)
        /\ Len(SubSeq(FlatBytes, m, n)) = IF m <= n THEN n - m + 1 ELSE 0
        /\ \A i \in 1 .. n - m + 1 : SubSeq(FlatBytes, m, n)[i] = FlatBytes[m + i - 1]
    BY <2>1, <2>2, SubSeqProperties
  <2>4. \A i \in 1 .. Len(written) : m + i - 1 = FlatPos + i
    BY <1>3 DEF m
  <2>5. part = SubSeq(FlatBytes, m, n)
    BY DEF m, n
  <2> HIDE DEF part
  <2>6. Len(part) = Len(written)
    BY <1>1, <2>1, <2>3, <2>5
  <2>7. QED
    BY <2>1, <2>3, <2>4, <2>5, <2>6
<1>7. \A i \in 1 .. Len(written) : written[i] = FlatBytes[FlatPos + i]
  BY <1>2 DEF WrittenFaithful
<1> HIDE DEF part
<1>8. written = part
  BY <1>5, <1>6, <1>7, SeqEqual
<1>9. QED
  BY <1>1, <1>3, <1>8 DEF part

(* A read returns what was asked for, or all there is.                      *)
LEMMA ReturnReads ==
  ASSUME ReaderInv, ReaderInv', WrittenFaithful, ReadReturn
  PROVE  Flat!Read(want)
<1>1. /\ Position \in 0 .. Size /\ Size \in Nat /\ Len(written) \in Nat /\ want \in Nat
      /\ Len(written) <= want /\ Reading
  BY PositionInside, LenProperties, CountAssumption
     DEF WrittenFaithful, ReaderInv, TypeOK, ReadReturn
<1>2. /\ written = SubSeq(FlatBytes, FlatPos + 1, FlatPos + Len(written))
      /\ FlatPos \in Nat /\ FlatPos + Len(written) = Position
  BY WrittenPart
<1>3. Len(written) = Lesser(want, Size - FlatPos)
  <2>1. CASE Len(written) >= want
    BY <1>1, <1>2, <2>1 DEF Lesser
  <2>2. CASE AtEnd
    <3>1. Position = Size
      BY <2>2, PositionInside
    <3>2. QED
      BY <1>1, <1>2, <3>1 DEF Lesser
  <2>3. CASE ~AtEnd /\ ext_pos < Extent.size /\ Loaded /\ available = 0
    <3>1. /\ buf_pos = ext_pos - buf_start
          /\ buf_valid = Lesser(Extent.size - buf_start, SECTOR)
      BY <2>3 DEF ReaderInv, BufferFaithful
    <3>2. ext_pos \in Nat /\ Extent.size \in Nat /\ buf_pos \in Nat /\ buf_valid \in Nat
      BY <2>3, ExtentFacts DEF ReaderInv, TypeOK
    <3>3. buf_start \in Nat /\ ext_pos - buf_start < SECTOR
      BY <2>3, <3>2, SectorStart DEF Loaded, sector_start
    <3>4. buf_valid = buf_pos
      BY <2>3, <3>2 DEF available
    <3>5. FALSE
      BY <2>3, <3>1, <3>2, <3>3, <3>4 DEF Lesser
    <3>6. QED
      BY <3>5
  <2>4. QED
    BY <2>1, <2>2, <2>3 DEF ReadReturn
<1>4. reply' = Data(written) /\ FlatPos' = Position /\ Len(FlatBytes) = Size
  <2>1. /\ reply' = Data(written) /\ written' = <<>> /\ Len(written') = 0
        /\ UNCHANGED <<extents, ext_idx, ext_pos>>
    BY DEF ReadReturn, Return, cursor
  <2>2. Position' = Position
    BY <2>1 DEF Before, Position
  <2>3. QED
    BY <1>1, <2>1, <2>2, FlatLength, FlatPosNext
<1>5. QED
  BY <1>2, <1>3, <1>4 DEF Flat!Read, Flat!Data, Flat!Lesser, Lesser, Data, FlatPos

(* A failed read has moved the cursor by what it had copied.                *)
LEMMA FailureFails ==
  ASSUME ReaderInv, ReaderInv', WrittenFaithful, FillFails
  PROVE  Flat!Fail(want)
<1>1. /\ Position \in 0 .. Size /\ Size \in Nat /\ Len(written) \in Nat /\ want \in Nat
      /\ Len(written) <= want
  BY PositionInside, LenProperties, CountAssumption
     DEF WrittenFaithful, ReaderInv, TypeOK, FillFails, MoreWanted
<1>2. FlatPos \in Nat /\ FlatPos + Len(written) = Position
  BY WrittenPart
<1>3. reply' = Error /\ FlatPos' = Position /\ Len(FlatBytes) = Size
  <2>1. /\ reply' = Error /\ written' = <<>> /\ Len(written') = 0
        /\ UNCHANGED <<extents, ext_idx, ext_pos>>
    BY DEF FillFails, Return, cursor
  <2>2. Position' = Position
    BY <2>1 DEF Before, Position
  <2>3. QED
    BY <1>1, <2>1, <2>2, FlatLength, FlatPosNext
<1>4. FlatPos' \in FlatPos .. FlatPos + Lesser(want, Size - FlatPos)
  BY <1>1, <1>2, <1>3 DEF Lesser
<1>5. QED
  BY <1>3, <1>4 DEF Flat!Fail, Flat!Error, Flat!Lesser, Lesser, Error, FlatPos

(* Within 64 bits, a cast to a signed number changes nothing.               *)
LEMMA SignedSame ==
  ASSUME NEW x \in Int, -I64 <= x, x < I64
  PROVE  Signed(x) = x
<1>1. x + I64 \in Nat /\ 2 * I64 \in Nat /\ x + I64 < 2 * I64
  OBVIOUS
<1>2. (x + I64) % (2 * I64) = x + I64
  BY <1>1, SmallMod
<1>3. QED
  BY <1>2 DEF Signed

LEMMA SeekSeeks ==
  ASSUME SeeksFit, ReaderInv, Fitting, NEW s \in Seeks, Seek(s)
  PROVE  \E base \in {0, FlatPos, Len(FlatBytes)} : Flat!Seek(base, s.by)
<1>1. /\ written = <<>> /\ Len(written) = 0 /\ written' = <<>> /\ Len(written') = 0
      /\ Position \in 0 .. Size /\ Size \in Nat /\ total = Size /\ Size < U32
      /\ Before(ext_idx) \in Nat /\ ext_pos \in Nat
      /\ extents' = extents
  BY NothingWritten, PositionInside, BeforeIsNat DEF Seek, ReaderInv, Fitting, TypeOK
<1>2. FlatPos = Position /\ Len(FlatBytes) = Size
  BY <1>1, FlatLength DEF FlatPos, Position
<1>3. s.by \in Int /\ -I64 <= s.by /\ s.by + U32 <= I64
      /\ s.whence \in {"start", "end", "current"}
  BY SeekAssumption DEF SeeksFit
<1>4. \A b \in 0 .. Size : Signed(b + s.by) = b + s.by
  <2> TAKE b \in 0 .. Size
  <2>1. b + s.by \in Int /\ -I64 <= b + s.by /\ b + s.by < I64
    BY <1>1, <1>3
  <2>2. QED
    BY <2>1, SignedSame
<1>5. PICK b \in {0, Position, Size} : Target(s) = b + s.by
  <2>1. CASE s.whence = "start"
    <3>1. Target(s) = Signed(s.by) /\ 0 + s.by = s.by /\ 0 \in 0 .. Size
      BY <1>1, <1>3, <2>1 DEF Target
    <3>2. QED
      BY <1>4, <3>1
  <2>2. CASE s.whence = "end"
    <3>1. Target(s) = Signed(total + s.by) /\ Size \in 0 .. Size
      BY <1>1, <2>2 DEF Target
    <3>2. QED
      BY <1>1, <1>4, <3>1
  <2>3. CASE s.whence = "current"
    <3>1. Before(ext_idx) < U32
      BY <1>1 DEF Position
    <3>2. Before(ext_idx) % U32 = Before(ext_idx)
      BY <1>1, <3>1, SmallMod
    <3>3. Target(s) = Signed(Position + s.by)
      BY <2>3, <3>2 DEF Target, Position
    <3>4. QED
      BY <1>1, <1>4, <3>3
  <2>4. QED
    BY <1>3, <2>1, <2>2, <2>3
<1> DEFINE p == Clamped(Target(s))
           holding == {i \in 0 .. Len(extents) - 1 : Holds(i, p)}
<1>6. p \in 0 .. total
  BY <1>1, TargetIsInt, ClampedRange DEF ReaderInv
<1>7. holding # {}
  <2>1. TotalWraps
    BY <1>1, SmallMod DEF TotalWraps
  <2>2. QED
    BY <1>6, <2>1, SeekFinds DEF ReaderInv
<1>8. reply' = At(p)
  BY DEF Seek
<1>9. FlatPos' = p
  <2>1. PICK i \in holding : ext_idx' = i /\ ext_pos' = p - Before(i)
    BY <1>7 DEF Seek
  <2>2. Before(i) \in Nat
    BY BeforeIsNat DEF ReaderInv, TypeOK
  <2>3. FlatPos' = Before(ext_idx') + ext_pos' - 0
    BY <1>1 DEF FlatPos, Before
  <2> HIDE DEF p
  <2>4. p \in Int
    BY <1>1, <1>6
  <2>5. QED
    BY <2>1, <2>2, <2>3, <2>4
<1>10. p = IF b + s.by < 0 THEN 0 ELSE Lesser(b + s.by, Size)
  BY <1>1, <1>5 DEF Clamped
<1> HIDE DEF p
<1>11. Flat!Seek(b, s.by)
  BY <1>2, <1>8, <1>9, <1>10 DEF Flat!Seek, Flat!At, Flat!Lesser, Lesser, At, FlatPos
<1>12. QED
  BY <1>2, <1>11

(* A step of the reader is a call of the flat file, or none.                *)
LEMMA StepSimulates ==
  ASSUME SeeksFit, ReaderInv, ReaderInv', Fitting, WrittenFaithful, [Next]_vars
  PROVE  [Flat!Next]_(Flat!vars)
<1>1. FlatBytes' = FlatBytes /\ \A i : Before(i)' = Before(i)
  BY FileFixed
<1>2. ASSUME FlatPos' = FlatPos, reply' = reply
      PROVE  UNCHANGED Flat!vars
  BY <1>1, <1>2 DEF Flat!vars, FlatPos
<1>3. CASE ReadCall \/ Fill \/ UNCHANGED vars
  <2>1. UNCHANGED <<ext_idx, ext_pos, written, reply, extents>>
    BY <1>3 DEF ReadCall, Fill, cursor, vars
  <2>2. QED
    BY <1>2, <2>1 DEF FlatPos, Before
<1>4. CASE NextExtent
  <2>1. Position' = Position /\ written' = written /\ reply' = reply
    BY <1>4, NextExtentPosition DEF NextExtent
  <2>2. FlatPos' = FlatPos
    BY <2>1, FlatPosIs, FlatPosNext
  <2>3. QED
    BY <1>2, <2>1, <2>2
<1>5. CASE Copy
  <2>1. PICK k \in 0 .. Size : /\ Len(written') = Len(written) + k
                               /\ Position' = Position + k
    BY <1>5, CopyFacts
  <2>2. Position \in Nat /\ Len(written) \in Nat /\ k \in Nat
    BY <2>1, PositionInside, LenProperties DEF ReaderInv, TypeOK
  <2>3. FlatPos' = FlatPos
    BY <2>1, <2>2, FlatPosIs, FlatPosNext
  <2>4. QED
    BY <1>2, <1>5, <2>3 DEF Copy
<1>6. CASE FillFails
  <2>1. want \in Counts
    BY <1>6 DEF FillFails, MoreWanted, WrittenFaithful
  <2>2. QED
    BY <1>1, <1>6, <2>1, FailureFails DEF Flat!Next
<1>7. CASE ReadReturn
  <2>1. want \in Counts
    BY <1>7 DEF ReadReturn, WrittenFaithful
  <2>2. QED
    BY <1>1, <1>7, <2>1, ReturnReads DEF Flat!Next
<1>8. ASSUME NEW s \in Seeks, Seek(s)
      PROVE  Flat!Next
  <2>1. PICK base \in {0, FlatPos, Len(FlatBytes)} : Flat!Seek(base, s.by)
    BY <1>8, SeekSeeks
  <2>2. s.by \in {t.by : t \in Seeks}
    OBVIOUS
  <2>3. QED
    BY <1>1, <2>1, <2>2 DEF Flat!Next, FlatPos
<1>9. QED
  BY <1>3, <1>4, <1>5, <1>6, <1>7, <1>8 DEF Next, ReadSteps

LEMMA InitSimulates == Init => Flat!Init
<1> SUFFICES ASSUME Init PROVE Flat!Init
  OBVIOUS
<1>1. ext_idx = 0 /\ ext_pos = 0 /\ written = <<>> /\ Len(written) = 0 /\ reply = NoCall
  BY DEF Init
<1>2. FlatPos = 0
  <2>1. Position = 0
    BY <1>1 DEF Position, Before
  <2>2. QED
    <3>1. ReaderInv
      BY ReaderInit
    <3>2. FlatPos = Position - Len(written)
      BY <3>1, FlatPosIs
    <3>3. QED
      BY <1>1, <2>1, <3>2
<1>3. QED
  BY <1>1, <1>2 DEF Flat!Init, Flat!NoCall, NoCall, FlatPos

(* The bytes copied so far by a read are those of the file, in its order,   *)
(* from where the read began, whatever extents and sectors they cross and   *)
(* whatever calls failed before.                                            *)
THEOREM ReadsTheFile == Spec => []WrittenFaithful
<1>1. Init => WrittenFaithful
  BY WrittenInit
<1>2. ReaderInv /\ ReaderInv' /\ WrittenFaithful /\ [Next]_vars => WrittenFaithful'
  BY WrittenNext
<1>3. QED
  BY <1>1, <1>2, ReaderCorrect, PTL DEF Spec

(* Of a file below the 32-bit limit, and with requests within 64 bits, read *)
(* and seek do what they do for a sequence of bytes: a read returns all the *)
(* bytes asked for or all that are left, and a seek stays inside the file.  *)
THEOREM ReaderIsFlatFile ==
  ASSUME SizesFit, SeeksFit
  PROVE  Spec => ImplementsFlatFile
<1>1. Init => Fitting
  BY FittingInit
<1>2. Fitting /\ [Next]_vars => Fitting'
  BY FileFixed DEF Fitting
<1>3. Init => Flat!Init
  BY InitSimulates
<1>4. ReaderInv /\ ReaderInv' /\ Fitting /\ WrittenFaithful /\ [Next]_vars
        => [Flat!Next]_(Flat!vars)
  BY StepSimulates
<1>5. QED
  BY <1>1, <1>2, <1>3, <1>4, ReaderCorrect, ReadsTheFile, PTL
     DEF Spec, ImplementsFlatFile, Flat!Spec

================================================================================
