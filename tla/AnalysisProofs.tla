------------------------------ MODULE AnalysisProofs ------------------------------
(***************************************************************************)
(* What the report of an analysis can be relied on for.                     *)
(***************************************************************************)
EXTENDS Analysis, ImageReaderProofs

(***************************************************************************)
(* The sweep finds what it promises, for any number of extents.              *)
(***************************************************************************)

(* The extent kept is one of those swept, and reaches at least as far as     *)
(* each of them.                                                            *)
CoverReaches ==
  /\ cover = NoCover <=> at = 0
  /\ cover # NoCover =>
       /\ cover \in 1 .. at
       /\ \A i \in 1 .. at : exts[i].end <= exts[cover].end

SweepInv == SweepTypeOK /\ CoverReaches /\ OverlapsReal /\ OverlapsPaired

(* An extent of the list, its fields and its place in the order.            *)
LEMMA ExtentFacts ==
  ASSUME SweepTypeOK, NEW i \in 1 .. Len(exts)
  PROVE  /\ exts[i].start \in Nat /\ exts[i].end \in Nat /\ exts[i].start < exts[i].end
         /\ \A j \in 1 .. Len(exts) : i < j =>
              /\ exts[i].start <= exts[j].start
              /\ exts[i].start = exts[j].start => exts[i].end <= exts[j].end
<1>1. exts \in Seq([start : Nat, end : Nat, path : Nat])
      /\ \A k \in DOMAIN exts : exts[k].start < exts[k].end
  BY DEF SweepTypeOK, IsExtents
<1>2. DOMAIN exts = 1 .. Len(exts)
  BY <1>1
<1>3. \A k \in 1 .. Len(exts) : exts[k] \in [start : Nat, end : Nat, path : Nat]
  BY <1>1, ElementOfSeq
<1>4. \A k \in 1 .. Len(exts) : exts[k].start \in Nat /\ exts[k].end \in Nat
  BY <1>3
<1>5. ASSUME NEW j \in 1 .. Len(exts), i < j
      PROVE  /\ exts[i].start <= exts[j].start
             /\ exts[i].start = exts[j].start => exts[i].end <= exts[j].end
  <2>1. Before(exts[i], exts[j])
    BY <1>2, <1>5 DEF SweepTypeOK, Sorted
  <2>2. QED
    BY <2>1, <1>4 DEF Before
<1>6. QED
  BY <1>1, <1>2, <1>4, <1>5

--------------------------------------------------------------------------------

(* Before anything is loaded, nothing is swept.                             *)
LEMMA SweepInitInv ==
  ASSUME SweepInit
  PROVE  SweepInv
<1>1. exts = <<>> /\ at = 0 /\ cover = NoCover /\ overlaps = {}
  BY DEF SweepInit
<1>2. IsExtents(<<>>) /\ Sorted(<<>>)
  BY DEF IsExtents, Sorted
<1>3. SweepTypeOK
  BY <1>1, <1>2 DEF SweepTypeOK
<1>4. CoverReaches
  BY <1>1 DEF CoverReaches
<1>5. OverlapsReal /\ OverlapsPaired
  BY <1>1 DEF OverlapsReal, OverlapsPaired
<1>6. QED
  BY <1>3, <1>4, <1>5 DEF SweepInv

(* Loading changes nothing else, and nothing has been swept by then.         *)
LEMMA SweepLoadInv ==
  ASSUME SweepInv, SweepLoad
  PROVE  SweepInv'
<1>1. exts = <<>> /\ IsExtents(exts') /\ Sorted(exts')
  BY DEF SweepLoad
<1>2. at = 0 /\ cover = NoCover /\ overlaps = {}
  BY <1>1 DEF SweepInv, SweepTypeOK, CoverReaches
<1>3. at' = 0 /\ cover' = NoCover /\ overlaps' = {}
  BY <1>2 DEF SweepLoad
<1>4. Len(exts') \in Nat
  BY <1>1 DEF IsExtents
<1>5. SweepTypeOK'
  BY <1>1, <1>3, <1>4 DEF SweepTypeOK
<1>6. CoverReaches' /\ OverlapsReal' /\ OverlapsPaired'
  BY <1>3 DEF CoverReaches, OverlapsReal, OverlapsPaired
<1>7. QED
  BY <1>5, <1>6 DEF SweepInv

--------------------------------------------------------------------------------

(* What a step does to the variables, without the LET.                      *)
LEMMA StepFacts ==
  ASSUME SweepInv, SweepStep
  PROVE  /\ at + 1 \in 1 .. Len(exts) /\ at \in Nat /\ Len(exts) \in Nat
         /\ at' = at + 1 /\ exts' = exts
         /\ overlaps' = IF OverlapsCover(exts[at + 1]) THEN overlaps \union {<<at + 1, cover>>}
                        ELSE overlaps
         /\ cover' = IF ReachesFurther(exts[at + 1]) THEN at + 1 ELSE cover
         /\ cover # NoCover => cover \in 1 .. at
<1>1. exts \in Seq([start : Nat, end : Nat, path : Nat]) /\ at \in 0 .. Len(exts)
  BY DEF SweepInv, SweepTypeOK, IsExtents
<1>2. at < Len(exts) /\ Len(exts) \in Nat
  BY <1>1 DEF SweepStep
<1>3. QED
  BY SMTT(40), <1>1, <1>2 DEF SweepStep, SweepInv, CoverReaches

LEMMA StepTypes ==
  ASSUME SweepInv, SweepStep
  PROVE  SweepTypeOK'
<1>1. IsExtents(exts') /\ Sorted(exts')
  BY StepFacts DEF SweepInv, SweepTypeOK
<1>2. at' \in 0 .. Len(exts')
  BY StepFacts
<1>3. cover \in (1 .. Len(exts)) \union {NoCover}
  BY DEF SweepInv, SweepTypeOK
<1>4. cover' \in (1 .. Len(exts')) \union {NoCover}
  BY <1>3, StepFacts
<1>5. OverlapsCover(exts[at + 1]) => cover \in 1 .. Len(exts)
  BY <1>3 DEF OverlapsCover
<1>6. overlaps' \in SUBSET ((1 .. Len(exts')) \X (1 .. Len(exts')))
  <2>1. overlaps \in SUBSET ((1 .. Len(exts)) \X (1 .. Len(exts)))
    BY DEF SweepInv, SweepTypeOK
  <2>2. CASE OverlapsCover(exts[at + 1])
    <3>1. <<at + 1, cover>> \in (1 .. Len(exts)) \X (1 .. Len(exts))
      BY <1>5, <2>2, StepFacts
    <3>2. QED
      BY <2>1, <2>2, <3>1, StepFacts
  <2>3. CASE ~OverlapsCover(exts[at + 1])
    BY <2>1, <2>3, StepFacts
  <2>4. QED
    BY <2>2, <2>3
<1>7. QED
  BY <1>1, <1>2, <1>4, <1>6 DEF SweepTypeOK

(* The extent kept after a step reaches furthest of one more.               *)
LEMMA StepCover ==
  ASSUME SweepInv, SweepStep
  PROVE  CoverReaches'
<1> DEFINE next == at + 1
<1>1. next \in 1 .. Len(exts) /\ at \in Nat /\ at' = next /\ exts' = exts
      /\ \A i \in 1 .. next : i \in 1 .. Len(exts) /\ (i \in 1 .. at \/ i = next)
  BY StepFacts
<1>2. \A i \in 1 .. Len(exts) : exts[i].end \in Nat
  BY ExtentFacts DEF SweepInv
<1>3. cover' # NoCover /\ at' # 0
  BY StepFacts, NoCoverAssumption DEF ReachesFurther
<1>4. CASE ReachesFurther(exts[next])
  <2>1. cover' = next
    BY <1>4, StepFacts
  <2>2. ASSUME NEW i \in 1 .. next
        PROVE  exts[i].end <= exts[next].end
    <3>1. CASE i = next
      BY <3>1, <1>1, <1>2
    <3>2. CASE i \in 1 .. at
      <4>1. cover # NoCover /\ cover \in 1 .. at /\ exts[i].end <= exts[cover].end
        BY <3>2, <1>1 DEF SweepInv, CoverReaches
      <4>2. exts[next].end > exts[cover].end
        BY <1>4, <4>1 DEF ReachesFurther
      <4>3. cover \in 1 .. Len(exts) /\ i \in 1 .. Len(exts)
        BY <4>1, <1>1
      <4>4. QED
        BY <4>1, <4>2, <4>3, <1>1, <1>2
    <3>3. QED
      BY <2>2, <3>1, <3>2, <1>1
  <2>3. QED
    BY <1>1, <1>3, <2>1, <2>2 DEF CoverReaches
<1>5. CASE ~ReachesFurther(exts[next])
  <2>1. cover' = cover /\ cover # NoCover /\ cover \in 1 .. at
    BY <1>5, StepFacts DEF ReachesFurther
  <2>2. cover \in 1 .. next /\ cover \in 1 .. Len(exts)
    BY <2>1, <1>1
  <2>3. exts[next].end <= exts[cover].end
    BY <1>5, <1>1, <1>2, <2>2 DEF ReachesFurther
  <2>4. \A i \in 1 .. next : exts[i].end <= exts[cover].end
    BY <1>1, <2>1, <2>3 DEF SweepInv, CoverReaches
  <2>5. QED
    BY <1>1, <1>3, <2>1, <2>2, <2>4 DEF CoverReaches
<1>6. QED
  BY <1>4, <1>5

--------------------------------------------------------------------------------

(* A pair that a step adds has a sector in common.                          *)
LEMMA StepReal ==
  ASSUME SweepInv, SweepStep
  PROVE  OverlapsReal'
<1> DEFINE next == at + 1
<1> SUFFICES ASSUME NEW p \in overlaps'
             PROVE  Meets(exts[p[1]], exts[p[2]]) /\ ~Same(exts[p[1]], exts[p[2]])
  BY StepFacts DEF OverlapsReal, Meets, Same
<1>1. CASE p \in overlaps
  BY <1>1 DEF SweepInv, OverlapsReal
<1>2. CASE p \notin overlaps
  <2>1. OverlapsCover(exts[next]) /\ p = <<next, cover>>
    BY <1>2, StepFacts
  <2>2. cover \in 1 .. at /\ next \in 1 .. Len(exts) /\ at \in Nat
    BY <2>1, StepFacts DEF OverlapsCover
  <2>3. cover \in 1 .. Len(exts) /\ cover < next
    BY <2>2
  <2>4. /\ exts[cover].start \in Nat /\ exts[cover].start <= exts[next].start
        /\ exts[next].start \in Nat /\ exts[next].end \in Nat
        /\ exts[next].start < exts[next].end
    BY <2>2, <2>3, ExtentFacts DEF SweepInv
  <2>5. exts[next].start < exts[cover].end /\ ~Same(exts[next], exts[cover])
    BY <2>1 DEF OverlapsCover
  <2>6. Meets(exts[next], exts[cover])
    BY <2>4, <2>5 DEF Meets
  <2>7. QED
    BY <2>1, <2>5, <2>6
<1>3. QED
  BY <1>1, <1>2

(* Between two extents that are the same, all are.                          *)
LEMMA SameBetween ==
  ASSUME SweepTypeOK, NEW i \in 1 .. Len(exts), NEW c \in 1 .. Len(exts),
         NEW j \in 1 .. Len(exts), c < i, i < j, Same(exts[j], exts[c])
  PROVE  Same(exts[i], exts[j])
<1>1. exts[c].start <= exts[i].start /\ exts[i].start <= exts[j].start
  BY ExtentFacts
<1>2. /\ exts[c].start \in Nat /\ exts[i].start \in Nat /\ exts[j].start \in Nat
      /\ exts[c].end \in Nat /\ exts[i].end \in Nat /\ exts[j].end \in Nat
  BY ExtentFacts
<1>3. exts[c].start = exts[i].start /\ exts[i].start = exts[j].start
  BY <1>1, <1>2 DEF Same
<1>4. exts[c].end <= exts[i].end /\ exts[i].end <= exts[j].end
  BY <1>3, ExtentFacts
<1>5. QED
  BY <1>2, <1>3, <1>4 DEF Same

(* The extent a step sweeps: either it meets the one kept without being the  *)
(* same, and is reported, or it is the same, and a twin of it has been.      *)
LEMMA StepPaired ==
  ASSUME SweepInv, SweepStep
  PROVE  OverlapsPaired'
<1> DEFINE next == at + 1
<1>1. /\ next \in 1 .. Len(exts) /\ at \in Nat /\ at' = next /\ exts' = exts
      /\ overlaps \subseteq overlaps'
  BY StepFacts
<1> SUFFICES ASSUME NEW j \in 1 .. next, NEW i \in 1 .. j - 1,
                    Meets(exts[i], exts[j]), ~Same(exts[i], exts[j])
             PROVE  \E k \in 1 .. j : Same(exts[k], exts[j]) /\ Reported(k)'
  BY <1>1 DEF OverlapsPaired, Reported, Meets, Same
<1>2. SweepTypeOK
  BY DEF SweepInv
<1>3. \A k : Reported(k) => Reported(k)'
  BY <1>1 DEF Reported
<1>4. CASE j \in 1 .. at
  <2>1. \E k \in 1 .. j : Same(exts[k], exts[j]) /\ Reported(k)
    BY <1>4 DEF SweepInv, OverlapsPaired
  <2>2. QED
    BY <2>1, <1>3
<1>5. CASE j = next
  <2>1. i \in 1 .. at /\ i \in 1 .. Len(exts)
    BY <1>1, <1>5
  <2>2. /\ cover # NoCover /\ cover \in 1 .. at /\ cover \in 1 .. Len(exts) /\ cover < next
        /\ exts[i].end <= exts[cover].end
    BY <2>1, <1>1 DEF SweepInv, CoverReaches
  <2>3. exts[next].start \in Nat /\ exts[i].end \in Nat /\ exts[cover].end \in Nat
    BY <1>1, <1>2, <2>1, <2>2, ExtentFacts
  <2>4. exts[next].start < exts[cover].end
    BY SMTT(40), <1>5, <2>2, <2>3 DEF Meets
  <2>5. CASE ~Same(exts[next], exts[cover])
    <3>1. <<j, cover>> \in overlaps'
      BY <1>5, <2>2, <2>4, <2>5, StepFacts DEF OverlapsCover
    <3>2. Reported(j)'
      BY <3>1 DEF Reported
    <3>3. Same(exts[j], exts[j]) /\ j \in 1 .. j
      BY <1>1, <1>5 DEF Same
    <3>4. QED
      BY <3>2, <3>3
  <2>6. CASE Same(exts[next], exts[cover])
    <3>1. Meets(exts[i], exts[cover]) /\ ~Same(exts[i], exts[cover])
      BY <1>5, <2>6 DEF Meets, Same
    <3>2. i # cover
      BY <3>1 DEF Same
    <3>3. ~(cover < i)
      BY <1>1, <1>2, <1>5, <2>1, <2>2, <2>6, SameBetween
    <3>4. i \in 1 .. cover - 1
      BY <2>1, <2>2, <3>2, <3>3, <1>1
    <3>5. PICK k \in 1 .. cover : Same(exts[k], exts[cover]) /\ Reported(k)
      BY <2>2, <3>1, <3>4 DEF SweepInv, OverlapsPaired
    <3>6. k \in 1 .. next /\ Same(exts[k], exts[next])
      BY <2>2, <2>6, <3>5, <1>1 DEF Same
    <3>7. QED
      BY <1>3, <1>5, <3>5, <3>6
  <2>7. QED
    BY <2>5, <2>6
<1>6. QED
  BY <1>1, <1>4, <1>5

--------------------------------------------------------------------------------

LEMMA SweepStepInv ==
  ASSUME SweepInv, [SweepNext]_sweepVars
  PROVE  SweepInv'
<1>1. CASE SweepLoad
  BY <1>1, SweepLoadInv
<1>2. CASE SweepStep
  BY <1>2, StepTypes, StepCover, StepReal, StepPaired DEF SweepInv
<1>3. CASE UNCHANGED sweepVars
  BY <1>3 DEF sweepVars, SweepInv, SweepTypeOK, CoverReaches, OverlapsReal,
              OverlapsPaired, Reported
<1>4. QED
  BY <1>1, <1>2, <1>3 DEF SweepNext

LEMMA SweepInvariant == SweepSpec => []SweepInv
<1>1. SweepInit => SweepInv
  BY SweepInitInv
<1>2. SweepInv /\ [SweepNext]_sweepVars => SweepInv'
  BY SweepStepInv
<1>3. QED
  BY <1>1, <1>2, PTL DEF SweepSpec

(* The lists and indices of the sweep of analysis.rs stay well formed.       *)
THEOREM SweepTypeCorrect == SweepSpec => []SweepTypeOK
<1>1. SweepInv => SweepTypeOK
  BY DEF SweepInv
<1>2. QED
  BY <1>1, SweepInvariant, PTL

(* What the sweep of analysis.rs reports is an overlap, and every overlap    *)
(* has its later extent reported, or one with the same sectors: comparing   *)
(* with the one extent kept loses none.                                     *)
THEOREM SweepReportsOverlaps == SweepSpec => []OverlapsReported
<1>1. SweepInv => OverlapsReported
  BY DEF SweepInv, OverlapsReported
<1>2. QED
  BY <1>1, SweepInvariant, PTL

(***************************************************************************)
(* The analysis around it.                                                  *)
(***************************************************************************)

(* An opened image, and what its walks answer now.                          *)
Ready == IsImage(image) /\ trees = Walks

(* Something that the volume names itself lies past the end of the image.   *)
CutOff == \E l \in Mandatory : l >= image.end

LEMMA OkErr ==
  /\ \A hits : Ok(hits).tag = "ok" /\ Ok(hits).hits = hits
  /\ \A tag : Err(tag).tag = tag /\ Err(tag).hits = <<>>
BY DEF Ok, Err

LEMMA ErrorsAre == Errors = Failures
BY DEF Errors, Failures

LEMMA ReadTagAny == \A l : ReadTag(l) \in {"ok", "io", "eof"}
BY DEF ReadTag

(* A directory that ends in an UnexpectedEof reaches past the end.          *)
LEMMA ReachEof ==
  ASSUME IsImage(image), NEW x, IsExtent(x), read_dir(x.lba, x.size).tag = "eof"
  PROVE  \/ \E l \in x.lba .. x.lba + SectorsOf(x.size) - 1 : l >= image.end
         \/ AreasPastEnd(x) # {}
<1>1. PICK lba, size \in Nat : lba = x.lba /\ size = x.size
  BY DEF IsExtent
<1>2. PICK n \in Nat : n = SectorsOf(size)
  BY SectorsFacts
<1>3. SECTOR \in Nat /\ image.end \in Nat
  BY SectorAssumption DEF IsImage
<1>4. CASE \E l \in lba .. lba + n - 1 : l >= image.end
  BY <1>1, <1>2, <1>4
<1>5. CASE /\ \A l \in lba .. lba + n - 1 : l < image.end
           /\ \E s \in InDirectory(lba, size) :
                /\ IsRecord(s) /\ continuation(Trimmed(s.su)) # None /\ continuation(Trimmed(s.su)).fits
                /\ continuation(Trimmed(s.su)).lba \in Nat
                /\ continuation(Trimmed(s.su)).lba >= image.end
  <2>1. PICK s \in InDirectory(lba, size) :
                /\ IsRecord(s) /\ continuation(Trimmed(s.su)) # None /\ continuation(Trimmed(s.su)).fits
                /\ continuation(Trimmed(s.su)).lba >= image.end
    BY <1>5
  <2>2. PICK i \in 1 .. n : s \in Range(Used(lba + i - 1, size - (i - 1) * SECTOR))
    BY <1>2, <2>1 DEF InDirectory
  <2>3. PICK l, room \in Nat : l = lba + i - 1 /\ room = size - (i - 1) * SECTOR
    <3>1. lba + i - 1 \in Nat
      BY <1>2
    <3> QED BY <1>2, <3>1, SectorsFacts
  <2>4. l \in lba .. lba + n - 1 /\ l \in 0 .. image.end - 1 /\ l < image.end
    <3>1. l \in lba .. lba + n - 1
      BY <1>2, <2>3
    <3> QED BY <1>3, <1>5, <3>1
  <2>5. Lesser(SECTOR, room) <= Lesser(SECTOR, SECTOR)
    BY <1>3 DEF Lesser
  <2>6. s \in Range(Used(l, SECTOR))
    BY <1>3, <2>2, <2>3, <2>4, <2>5, UsedWider
  <2>7. s \in RecordsIn(x) /\ s.kind = "rec"
    BY <1>1, <1>2, <2>1, <2>4, <2>6 DEF RecordsIn, IsRecord
  <2>8. PICK ce : ce = continuation(Trimmed(s.su))
    OBVIOUS
  <2>9. AreaRead(Trimmed(s.su)) = {ce.lba}
    BY <2>1, <2>8 DEF AreaRead
  <2>10. ce.lba \in AreasPastEnd(x)
    BY <2>1, <2>7, <2>8, <2>9 DEF AreasPastEnd
  <2> QED BY <2>10
<1> QED BY ZenonT(60), <1>1, <1>2, <1>4, <1>5, ReadDirFacts

LEMMA RootEof ==
  ASSUME IsImage(image), NEW x \in Roots \cup PhantomExtents, IsExtent(x),
         read_dir(x.lba, x.size).tag = "eof"
  PROVE  CutOff
<1>1. PICK l \in Reach(x) : l >= image.end
  BY ReachEof DEF Reach, AreasPastEnd
<1>2. Reach(x) \subseteq Mandatory
  BY DEF Mandatory
<1> QED BY <1>1, <1>2 DEF CutOff

(* What the walk of one of the trees answers.                               *)
IsWalk(w) ==
  /\ w.tag \in {"ok"} \cup Errors
  /\ w.tag = "eof" => CutOff
  /\ IsList(w.out) /\ \A e \in Range(w.out) : IsEntry(e)

LEMMA TreeFacts ==
  ASSUME IsImage(image), NEW x \in Roots, IsExtent(x)
  PROVE  IsWalk(WalkFrom(x))
<1>1. PICK w : w = WalkFrom(x)
  OBVIOUS
<1>2. WalkPlaces(x, w)
  BY <1>1, WalkFacts
<1>3. w.tag = "eof" => CutOff
  BY <1>2, RootEof DEF WalkPlaces
<1> QED BY <1>1, <1>2, <1>3, ErrorsAre DEF IsWalk, WalkPlaces

LEMMA ActiveFacts ==
  ASSUME Ready
  PROVE  active = walk /\ IsWalk(active)
<1>1. active = walk
  BY DEF Ready, Walks, active
<1>2. image.root \in Roots /\ IsExtent(image.root)
  BY DEF Roots, Ready, IsImage
<1> QED BY <1>1, <1>2, TreeFacts DEF walk, Ready

LEMMA JolietFacts ==
  ASSUME Ready, image.joliet # None
  PROVE  IsWalk(trees.joliet)
<1>1. trees.joliet = walk_joliet
  BY DEF Ready, Walks
<1>2. image.joliet \in Roots /\ IsExtent(image.joliet)
  BY DEF Roots, Ready, IsImage
<1> QED BY <1>1, <1>2, TreeFacts DEF walk_joliet, Ready

LEMMA MaxIsGreatest ==
  ASSUME NEW n \in Nat, NEW S \in SUBSET (0 .. n), S # {}
  PROVE  Max(S) \in S /\ \A y \in S : y <= Max(S)
<1>1. PICK T : T = {k \in 0 .. n : n - k \in S}
  OBVIOUS
<1>2. T # {} /\ T \in SUBSET Nat
  <2>1. PICK x \in S : TRUE
    OBVIOUS
  <2>2. n - x \in 0 .. n /\ n - (n - x) = x
    OBVIOUS
  <2> QED BY <1>1, <2>1, <2>2
<1>3. PICK k \in T : \A j \in T : k <= j
  BY <1>2, Least
<1>4. PICK x : x = n - k
  OBVIOUS
<1>5. x \in S
  BY <1>1, <1>3, <1>4
<1>6. ASSUME NEW y \in S PROVE x >= y
  <2>1. n - y \in 0 .. n /\ n - (n - y) = y
    OBVIOUS
  <2>2. k <= n - y
    BY <1>1, <1>3, <2>1
  <2> QED BY <1>1, <1>3, <1>4, <2>2
<1>7. \E z \in S : \A y \in S : z >= y
  BY <1>5, <1>6
<1>8. Max(S) \in S /\ \A y \in S : Max(S) >= y
  BY <1>7 DEF Max
<1> QED BY <1>8

(* The tree of an older session is that of a descriptor of its chain, which  *)
(* is read when none of the chain fails.                                    *)
LEMMA SessionRoot ==
  ASSUME NEW s, IsSession(s)
  PROVE  IsExtent(root_of(s))
<1>1. PICK c : c = s.chain
  OBVIOUS
<1>2. Pvds(c) # {} /\ Pvds(c) \in SUBSET (0 .. Len(c)) /\ Len(c) \in Nat
  BY <1>1, ListFacts DEF IsSession, Pvds
<1>3. PICK k : k = Max(Pvds(c))
  OBVIOUS
<1>4. k \in Pvds(c)
  BY <1>2, <1>3, MaxIsGreatest
<1>5. IsExtent(c[k].root)
  BY <1>1, <1>4 DEF IsSession, Pvds
<1> QED BY <1>1, <1>3, <1>5 DEF root_of

LEMMA ChainFails ==
  ASSUME IsImage(image), NEW s \in Range(image.older), IsSession(s),
         NEW tag, tag = read_volume_descriptors(s), tag # "ok"
  PROVE  tag \in {"io", "eof", "bad"} /\ (tag = "eof" => CutOff)
<1>1. PICK c, n : c = s.chain /\ n = Len(c)
  OBVIOUS
<1>2. IsList(c) /\ n \in Nat /\ DOMAIN c = 1 .. n /\ s.pvd \in Nat
  BY <1>1, ListFacts DEF IsSession
<1>3. PICK tags : tags = [k \in DOMAIN c |-> DescriptorTag(s, k)]
  OBVIOUS
<1>4. tags = [k \in DOMAIN c |-> tags[k]] /\ \A k \in DOMAIN c : tags[k] = DescriptorTag(s, k)
  BY <1>3
<1>5. IsList(tags) /\ DOMAIN tags = 1 .. n
  BY <1>2, <1>4, MappedList
<1>6. tag = FirstFailure(tags)
  BY <1>1, <1>3 DEF read_volume_descriptors
<1>7. PICK k \in 1 .. n : tag = DescriptorTag(s, k)
  BY <1>2, <1>4, <1>5, <1>6, FirstFailureFacts
<1>8. ChainSectors(s) \subseteq Mandatory
  BY DEF Mandatory
<1>9. PICK l : l = s.pvd + k - 1
  OBVIOUS
<1>10. l \in Nat /\ l \in ChainSectors(s)
  <2>1. l \in Nat /\ l \in s.pvd .. s.pvd + n - 1
    BY <1>2, <1>9
  <2> QED BY <1>1, <2>1 DEF ChainSectors
<1>11. CASE ReadTag(l) # "ok"
  <2>1. tag = ReadTag(l)
    BY <1>7, <1>9, <1>11 DEF DescriptorTag
  <2> QED BY <1>8, <1>10, <1>11, <2>1, ReadTagFacts DEF CutOff
<1>12. CASE ReadTag(l) = "ok" /\ c[k].kind = "bad"
  BY <1>1, <1>7, <1>9, <1>12 DEF DescriptorTag
<1>13. CASE ReadTag(l) = "ok" /\ c[k].kind # "bad"
  <2>1. PICK r : r = c[k].root.lba
    OBVIOUS
  <2>2. k \in Pvds(c) /\ tag = ReadTag(r)
    BY <1>1, <1>7, <1>9, <1>13, <2>1 DEF DescriptorTag, Probed
  <2>3. r \in Nat /\ r \in ChainSectors(s)
    BY <1>1, <2>1, <2>2 DEF ChainSectors, IsSession, IsExtent, Pvds
  <2> QED BY <1>8, <2>2, <2>3, ReadTagFacts DEF CutOff
<1> QED BY <1>11, <1>12, <1>13

LEMMA SessionWalk ==
  ASSUME NEW s
  PROVE  /\ read_volume_descriptors(s) = "ok" => walk_session(s) = WalkFrom(root_of(s))
         /\ \A tag : tag = read_volume_descriptors(s) /\ tag # "ok" =>
              walk_session(s).tag = tag /\ walk_session(s).out = <<>>
BY DEF walk_session, WalkedAfter, NoWalk

LEMMA OlderFacts ==
  ASSUME Ready
  PROVE  /\ IsList(image.older) /\ DOMAIN trees.older = DOMAIN image.older
         /\ IsList(trees.older)
         /\ \A i \in DOMAIN image.older : /\ trees.older[i] = walk_session(image.older[i])
                                          /\ IsWalk(trees.older[i])
<1>1. PICK old, t : old = image.older /\ t = trees.older
  OBVIOUS
<1>2. IsList(old) /\ \A s \in Range(old) : IsSession(s)
  BY <1>1 DEF Ready, IsImage
<1>3. t = [i \in DOMAIN old |-> walk_session(old[i])]
  BY <1>1 DEF Ready, Walks
<1>4. t = [i \in DOMAIN old |-> t[i]] /\ \A i \in DOMAIN old : t[i] = walk_session(old[i])
  BY <1>3
<1>5. IsList(t) /\ DOMAIN t = DOMAIN old
  BY <1>2, <1>4, MappedList
<1>6. ASSUME NEW i \in DOMAIN old PROVE IsWalk(t[i])
  <2>1. PICK s : s = old[i]
    OBVIOUS
  <2>2. s \in Range(image.older) /\ IsSession(s)
    BY <1>1, <1>2, <2>1 DEF Range
  <2>3. PICK tag, x : tag = read_volume_descriptors(s) /\ x = root_of(s)
    OBVIOUS
  <2>4. CASE tag = "ok"
    <3>1. x \in Roots /\ IsExtent(x)
      BY <2>2, <2>3, SessionRoot DEF Roots
    <3>2. t[i] = WalkFrom(x)
      BY <1>4, <2>1, <2>3, <2>4, SessionWalk
    <3> QED BY <3>1, <3>2, TreeFacts DEF Ready
  <2>5. CASE tag # "ok"
    <3>1. t[i].tag = tag /\ t[i].out = <<>>
      BY <1>4, <2>1, <2>3, <2>5, SessionWalk
    <3>2. tag \in {"io", "eof", "bad"} /\ (tag = "eof" => CutOff)
      BY <2>2, <2>3, <2>5, ChainFails DEF Ready
    <3> QED BY <3>1, <3>2, EmptyList DEF IsWalk, Errors
  <2> QED BY <2>4, <2>5
<1> QED BY <1>1, <1>2, <1>4, <1>5, <1>6

--------------------------------------------------------------------------------
(* What the report says of the tree the walk lists.                         *)

CyclesFound(out, hits) ==
  PathsDiffer(out) => /\ InsideItself(out) \subseteq Range(hits)
                      /\ NoSeparator(out) => Range(hits) = InsideItself(out)

LostFound(out, hits) ==
  \A p \in Phantoms(out) : \A n : n = OwnSize(p) =>
    /\ p \in Nat /\ n \in Nat
    /\ n <= SECTOR \/ Sized(p) =>
         \A r \in Range(read_dir(p, n).recs) : ~r.dir => <<p, r>> \in Range(hits)

FileLbas(out) == {f.rec.lba : f \in {g \in Range(out) : IsFile(g)}}

OldFound(out, hits) ==
  \A i \in DOMAIN image.older : \A s : s = image.older[i] =>
    \A e \in Range(walk_session(s).out) :
      IsFile(e) /\ e.rec.lba \notin FileLbas(out) =>
        \E why \in {"deleted", "replaced"} : <<i, e, why>> \in Range(hits)

BoundsFound(out, hits) == {e \in Range(out) : OutOfBounds(e)} \subseteq Range(hits)

Settled(name, hits) ==
  \A out : walk.tag = "ok" /\ out = walk.out =>
    /\ name = "cycles" => CyclesFound(out, hits)
    /\ name = "lost" => LostFound(out, hits)
    /\ name = "superseded" => OldFound(out, hits)
    /\ name = "bounds" => BoundsFound(out, hits)

(* The audits whose answer the properties depend on.                        *)
Kept == {"cycles", "lost", "superseded", "bounds"}

(* What an audit may answer.                                                *)
Good(name, r) ==
  /\ r.tag \in {"ok"} \cup Errors
  /\ r.tag = "eof" => CutOff
  /\ name \in Range(Sections) => IsList(r.hits)
  /\ r.tag = "ok" => Settled(name, r.hits)

Audited(name) == At(name) /\ \E r : Good(name, r) /\ Conclude(name, r)

LEMMA ErrGood ==
  ASSUME NEW name, NEW tag \in Errors, tag = "eof" => CutOff, NEW r, r = Err(tag)
  PROVE  Good(name, r)
BY OkErr, EmptyList DEF Good, Errors

LEMMA OkGood ==
  ASSUME NEW name, NEW hits, IsList(hits), Settled(name, hits), NEW r, r = Ok(hits)
  PROVE  Good(name, r)
BY OkErr DEF Good

LEMMA PlainSettled ==
  ASSUME NEW name, name \notin Kept
  PROVE  \A hits : Settled(name, hits)
BY DEF Kept, Settled

(* An audit that lists some of the entries of the tree.                     *)
LEMMA ListGood ==
  ASSUME Ready, NEW name, NEW places, places \subseteq DOMAIN active.out,
         NEW r, r = IF active.tag = "ok" THEN Ok(Items(active.out, places)) ELSE Err(active.tag),
         active.tag = "ok" => Settled(name, Items(active.out, places))
  PROVE  Good(name, r)
<1>1. IsWalk(active)
  BY ActiveFacts
<1>2. PICK out : out = active.out
  OBVIOUS
<1>3. IsList(Items(out, places))
  BY <1>1, <1>2, ItemsFacts DEF IsWalk
<1>4. CASE active.tag = "ok"
  BY <1>2, <1>3, <1>4, OkGood
<1>5. CASE active.tag # "ok"
  BY <1>1, <1>5, ErrGood DEF IsWalk
<1> QED BY <1>4, <1>5

LEMMA VersionsAudited ==
  ASSUME Ready, Versions
  PROVE  Audited("versions")
<1>1. PICK places : places = {i \in DOMAIN active.out :
                                /\ IsFile(active.out[i])
                                /\ active.out[i].rec.version \notin {None, 1}}
  OBVIOUS
<1>2. PICK r : r = IF active.tag = "ok" THEN Ok(Items(active.out, places)) ELSE Err(active.tag)
  OBVIOUS
<1>3. At("versions") /\ Conclude("versions", r)
  BY <1>1, <1>2 DEF Versions, Run, OverWalk, Pick
<1>4. Good("versions", r)
  <2>1. "versions" \notin Kept
    BY DEF Kept
  <2>2. Settled("versions", Items(active.out, places))
    BY <2>1, PlainSettled
  <2>3. places \subseteq DOMAIN active.out
    BY <1>1
  <2> QED BY <1>2, <2>2, <2>3, ListGood
<1> QED BY <1>3, <1>4 DEF Audited

LEMMA TimesAudited ==
  ASSUME Ready, RockRidgeTimes
  PROVE  Audited("rrtime")
<1>1. PICK places : places = {i \in DOMAIN active.out : /\ IsFile(active.out[i])
                                                        /\ TimesDiffer(active.out[i].rec)}
  OBVIOUS
<1>2. PICK r : r = IF active.tag = "ok" THEN Ok(Items(active.out, places)) ELSE Err(active.tag)
  OBVIOUS
<1>3. At("rrtime") /\ Conclude("rrtime", r)
  BY <1>1, <1>2 DEF RockRidgeTimes, Run, OverWalk, Pick
<1>4. Good("rrtime", r)
  <2>1. "rrtime" \notin Kept
    BY DEF Kept
  <2>2. Settled("rrtime", Items(active.out, places))
    BY <2>1, PlainSettled
  <2>3. places \subseteq DOMAIN active.out
    BY <1>1
  <2> QED BY <1>2, <2>2, <2>3, ListGood
<1> QED BY <1>3, <1>4 DEF Audited

LEMMA DisguisedAudited ==
  ASSUME Ready, Disguised
  PROVE  Audited("disguised")
<1>1. PICK places : places = {i \in DOMAIN active.out : Disguises(active.out[i])}
  OBVIOUS
<1>2. PICK r : r = IF active.tag = "ok" THEN Ok(Items(active.out, places)) ELSE Err(active.tag)
  OBVIOUS
<1>3. At("disguised") /\ Conclude("disguised", r)
  BY <1>1, <1>2 DEF Disguised, Run, OverWalk, Pick
<1>4. Good("disguised", r)
  <2>1. "disguised" \notin Kept
    BY DEF Kept
  <2>2. Settled("disguised", Items(active.out, places))
    BY <2>1, PlainSettled
  <2>3. places \subseteq DOMAIN active.out
    BY <1>1
  <2> QED BY <1>2, <2>2, <2>3, ListGood
<1> QED BY <1>3, <1>4 DEF Audited

LEMMA BoundsAudited ==
  ASSUME Ready, Bounds
  PROVE  Audited("bounds")
<1>1. PICK out : out = active.out
  OBVIOUS
<1>1a. PICK places : places = {i \in DOMAIN active.out : OutOfBounds(active.out[i])}
  OBVIOUS
<1>2. PICK r : r = IF active.tag = "ok" THEN Ok(Items(active.out, places)) ELSE Err(active.tag)
  OBVIOUS
<1>3. At("bounds") /\ Conclude("bounds", r)
  BY <1>1a, <1>2 DEF Bounds, Run, OverWalk, Pick
<1>4. Settled("bounds", Items(active.out, places))
  <2>1. IsList(out) /\ active = walk
    BY <1>1, ActiveFacts DEF IsWalk
  <2>2. Range(Items(out, places)) = {out[i] : i \in places}
    BY <1>1, <1>1a, <2>1, ItemsFacts
  <2>3. Range(out) = {out[i] : i \in DOMAIN out}
    BY DEF Range
  <2>4. BoundsFound(out, Items(out, places))
    BY <1>1, <1>1a, <2>2, <2>3 DEF BoundsFound
  <2> QED BY <1>1, <2>1, <2>4 DEF Settled
<1>5. Good("bounds", r)
  BY <1>1a, <1>2, <1>4, ListGood
<1> QED BY <1>3, <1>5 DEF Audited

--------------------------------------------------------------------------------
(* The other audits.                                                        *)

LEMMA FiniteImage ==
  ASSUME NEW S, IsFiniteSet(S), NEW f
  PROVE  IsFiniteSet({f[x] : x \in S})
<1>1. PICK T : T = {f[x] : x \in S}
  OBVIOUS
<1>2. PICK g : g = [x \in S |-> f[x]]
  OBVIOUS
<1>3. g \in Surjection(S, T)
  BY <1>1, <1>2 DEF Surjection
<1> QED BY <1>1, <1>3, FS_Surjection

LEMMA SectionsAre ==
  Range(Sections) =
    {"endian", "slack", "presystem", "symlinks", "pathtable", "ptendian", "lost",
     "times", "trees", "bounds", "superseded", "reserved", "overlaps", "cycles", "names",
     "disguised", "rrtime", "versions", "trailing", "sectors"}
<1>1. DOMAIN Sections = 1 .. 20
  BY DEF Sections
<1>2. Range(Sections) = {Sections[i] : i \in 1 .. 20}
  BY <1>1, Zenon DEF Range
<1> QED BY <1>2, SMTT(30) DEF Sections

LEMMA MapGood ==
  ASSUME NEW name, name \notin Kept, NEW r, r.tag \in {"ok"} \cup Errors, r.tag = "eof" => CutOff,
         IsList(r.hits)
  PROVE  Good(name, r)
BY PlainSettled DEF Good

LEMMA SilentGood ==
  ASSUME NEW name \in {"boot", "identity"}, NEW r, r.tag \in {"ok"} \cup Errors,
         r.tag = "eof" => CutOff
  PROVE  Good(name, r)
<1>1. name \notin Range(Sections)
  BY SectionsAre
<1>2. name \notin Kept
  BY DEF Kept
<1> QED BY <1>1, <1>2, PlainSettled DEF Good

(* A sector every analysis reads.                                           *)
LEMMA ReadGood ==
  ASSUME Ready, NEW l \in Mandatory, l \in Nat
  PROVE  ReadTag(l) \in {"ok"} \cup Errors /\ (ReadTag(l) = "eof" => CutOff)
BY ReadTagFacts DEF Ready, CutOff, Errors

LEMMA BootAudited ==
  ASSUME Ready, BootEntries
  PROVE  Audited("boot")
<1>1. PICK b : b = boot_entries
  OBVIOUS
<1>2. PICK r : /\ r = [boot_entries EXCEPT !.hits = Each(@, LAMBDA e : <<e, Hashable(e)>>)]
               /\ At("boot") /\ Conclude("boot", r)
  BY Zenon DEF BootEntries, Run
<1>3. b = [tag |-> b.tag, hits |-> b.hits]
  BY <1>1 DEF boot_entries, Ok, Err
<1>4. r.tag = b.tag
  BY Zenon, <1>1, <1>2, <1>3
<1>5. b.tag \in {"ok"} \cup Errors /\ (b.tag = "eof" => CutOff)
  <2>1. CASE image.catalog = None
    BY <1>1, <2>1 DEF boot_entries, Ok
  <2>2. CASE image.catalog # None
    <3>1. image.catalog \in Nat /\ image.catalog \in Mandatory
      BY <2>2 DEF Ready, IsImage, Mandatory
    <3>2. b.tag = "ok" \/ b.tag = ReadTag(image.catalog)
      BY <1>1, <2>2 DEF boot_entries, Ok, Err
    <3> QED BY <3>1, <3>2, ReadGood
  <2> QED BY <2>1, <2>2
<1> QED BY Zenon, <1>2, <1>4, <1>5, SilentGood DEF Audited

LEMMA IdentityAudited ==
  ASSUME Ready, Identity
  PROVE  Audited("identity")
<1>1. PICK hits : hits = identity(active.out)
  OBVIOUS
<1>2. PICK r : r = IF active.tag = "ok" THEN Ok(hits) ELSE Err(active.tag)
  OBVIOUS
<1>3. At("identity") /\ Conclude("identity", r)
  BY <1>1, <1>2 DEF Identity, Run, OverWalk
<1>4. r.tag \in {"ok"} \cup Errors /\ (r.tag = "eof" => CutOff)
  BY <1>2, OkErr, ActiveFacts DEF IsWalk
<1> QED BY <1>3, <1>4, SilentGood DEF Audited

(* The directories of a listing, and of the path table.                     *)
LEMMA DirLbasFacts ==
  ASSUME NEW w, IsWalk(w)
  PROVE  IsFiniteSet(DirLbas(w.out)) /\ \A l \in DirLbas(w.out) : l \in Nat
<1>1. PICK out : out = w.out
  OBVIOUS
<1>2. IsList(out) /\ \A e \in Range(out) : IsEntry(e)
  BY <1>1 DEF IsWalk
<1>3. PICK n \in Nat : DOMAIN out = 1 .. n
  BY <1>2, ListFacts
<1>4. IsFiniteSet(1 .. n)
  BY FS_Interval
<1>5. PICK J : J = {j \in DOMAIN out : out[j].rec.dir}
  OBVIOUS
<1>6. IsFiniteSet(J) /\ J \subseteq DOMAIN out
  BY <1>3, <1>4, <1>5, FS_Subset
<1>7. IsFiniteSet({out[i].rec.lba : i \in J})
  <2>1. PICK f : f = [i \in J |-> out[i].rec.lba]
    OBVIOUS
  <2>2. {f[i] : i \in J} = {out[i].rec.lba : i \in J}
    BY <2>1
  <2> QED BY <1>6, <2>2, FiniteImage
<1>8. ASSUME NEW i \in J PROVE out[i].rec.lba \in Nat
  <2>1. out[i] \in Range(out)
    BY <1>6 DEF Range
  <2> QED BY <1>2, <2>1 DEF IsEntry, IsListed
<1> QED BY <1>1, <1>5, <1>7, <1>8 DEF DirLbas

(* An end of image is passed over.                                          *)
LEMMA ToleratedFacts ==
  ASSUME NEW tags, IsList(tags),
         \A i \in DOMAIN tags : \E t \in {"ok", "io", "eof"} : tags[i] = Tolerated(t)
  PROVE  FirstFailure(tags) \in {"ok", "io"}
<1>1. \A i \in DOMAIN tags : tags[i] \in {"ok", "io"}
  BY DEF Tolerated
<1> QED BY <1>1, FirstFailureFacts

LEMMA RecordsAtList ==
  ASSUME IsImage(image), NEW l \in 0 .. image.end - 1
  PROVE  IsList(RecordsAt(l))
<1>1. PICK s : s = Slots(l)
  OBVIOUS
<1>2. IsList(s) /\ Len(s) = SECTOR /\ SECTOR \in Nat
  BY <1>1, SectorFacts, SectorAssumption
<1>3. PICK junk : junk = {i \in 1 .. SECTOR : s[i].kind \in {"bytes", "magic"}}
  OBVIOUS
<1>4. PICK run : run = IF junk = {} THEN s ELSE SubSeq(s, 1, Min(junk) - 1)
  OBVIOUS
<1>5. IsList(run)
  <2>1. CASE junk = {}
    BY <1>2, <1>4, <2>1
  <2>2. CASE junk # {}
    <3>1. junk \in SUBSET Nat /\ junk \subseteq 1 .. SECTOR
      BY <1>2, <1>3
    <3>2. Min(junk) \in 1 .. SECTOR
      BY <2>2, <3>1, MinIsLeast
    <3>3. Min(junk) - 1 \in Nat /\ Min(junk) - 1 <= Len(s)
      BY <1>2, <3>2
    <3> QED BY <1>2, <1>4, <2>2, <3>3, SubList
  <2> QED BY <2>1, <2>2
<1>6. PICK places : places = {i \in DOMAIN run : run[i].kind = "rec"}
  OBVIOUS
<1>7. RecordsAt(l) = Items(run, places)
  BY <1>1, <1>3, <1>4, <1>6 DEF RecordsAt, Pick
<1> QED BY <1>5, <1>6, <1>7, ItemsFacts

LEMMA EndianAudited ==
  ASSUME Ready, At("endian"), Conclude("endian", audit_both_endian)
  PROVE  Audited("endian")
<1>1. PICK r : r = audit_both_endian
  OBVIOUS
<1>2. PICK dirs : dirs = Ascending({image.root.lba} \cup DirLbas(active.out))
  OBVIOUS
<1>3. IsList(dirs) /\ \A l \in Range(dirs) : l \in Nat
  <2>1. IsFiniteSet({image.root.lba}) /\ image.root.lba \in Nat
    BY FS_Singleton DEF Ready, IsImage, IsExtent
  <2> QED BY ZenonT(60), <1>2, <2>1, FS_Union, DirLbasFacts, ActiveFacts, AscendingFacts
<1>4. PICK tags : tags = [i \in DOMAIN dirs |-> Tolerated(ReadTag(dirs[i]))]
  OBVIOUS
<1>5. FirstFailure(tags) \in {"ok", "io"}
  <2>1. IsList(tags)
    BY <1>3, <1>4, MappedList
  <2>2. ASSUME NEW i \in DOMAIN tags
        PROVE  \E t \in {"ok", "io", "eof"} : tags[i] = Tolerated(t)
    <3>1. ReadTag(dirs[i]) \in {"ok", "io", "eof"}
      BY ReadTagAny
    <3>2. tags[i] = Tolerated(ReadTag(dirs[i]))
      BY <1>4
    <3> QED BY <3>1, <3>2
  <2> QED BY <2>1, <2>2, ToleratedFacts
<1>6. PICK field : field = [i \in DOMAIN image.split |-> <<SYSTEM_AREA, image.split[i]>>]
  OBVIOUS
<1>7. IsList(field)
  <2>1. IsList(image.split)
    BY DEF Ready, IsImage
  <2> QED BY <1>6, <2>1, MappedList
<1>8. PICK odd : odd = [i \in DOMAIN dirs |->
                          IF ReadTag(dirs[i]) # "ok" THEN <<>>
                          ELSE Each(Pick(RecordsAt(dirs[i]), LAMBDA s : ~s.twin),
                                    LAMBDA s : <<dirs[i], s>>)]
  BY Zenon
<1>9. ASSUME NEW i \in DOMAIN odd PROVE IsList(odd[i])
  <2>1. PICK l : l = dirs[i]
    OBVIOUS
  <2>2. l \in Nat
    BY Zenon, <1>3, <1>8, <2>1 DEF Range
  <2>3. CASE ReadTag(l) # "ok"
    BY Zenon, <1>8, <2>1, <2>3, EmptyList
  <2>4. CASE ReadTag(l) = "ok"
    <3>1. l \in 0 .. image.end - 1
      BY <2>2, <2>4, ReadTagFacts DEF Ready
    <3>2. PICK recs : recs = RecordsAt(l)
      OBVIOUS
    <3>3. IsList(recs)
      BY <3>1, <3>2, RecordsAtList DEF Ready
    <3>4. PICK places : places = {k \in DOMAIN recs : ~recs[k].twin}
      OBVIOUS
    <3>5. PICK hits : hits = Items(recs, places)
      OBVIOUS
    <3>6. IsList(hits)
      BY <3>3, <3>4, <3>5, ItemsFacts
    <3>7. odd[i] = Each(Pick(RecordsAt(dirs[i]), LAMBDA s : ~s.twin), LAMBDA s : <<dirs[i], s>>)
      BY Zenon, <1>8, <2>1, <2>4
    <3>8. odd[i] = [k \in DOMAIN hits |-> <<l, hits[k]>>]
      BY <2>1, <3>2, <3>4, <3>5, <3>7 DEF Each, Pick
    <3> QED BY <3>6, <3>8, MappedList
  <2> QED BY <2>3, <2>4
<1>10. IsList(odd)
  BY ZenonT(60), <1>3, <1>8, MappedList
<1>11. IsList(field \o FlattenSeq(odd))
  BY <1>7, <1>9, <1>10, Flattened, ConcatList
<1>12. r = CASE ReadTag(SYSTEM_AREA) # "ok" -> Err(ReadTag(SYSTEM_AREA))
             [] ReadTag(SYSTEM_AREA) = "ok" /\ active.tag # "ok" -> Err(active.tag)
             [] OTHER -> IF FirstFailure(tags) # "ok" THEN Err(FirstFailure(tags))
                         ELSE Ok(field \o FlattenSeq(odd))
  BY <1>1, <1>2, <1>4, <1>6, <1>8 DEF audit_both_endian, Each
<1>13. SYSTEM_AREA \in Nat /\ SYSTEM_AREA \in Mandatory
  BY SystemAreaAssumption DEF Mandatory
<1>14. \/ r = Err(ReadTag(SYSTEM_AREA)) /\ ReadTag(SYSTEM_AREA) # "ok"
       \/ r = Err(active.tag) /\ active.tag # "ok"
       \/ r = Err(FirstFailure(tags)) /\ FirstFailure(tags) # "ok"
       \/ r = Ok(field \o FlattenSeq(odd))
  BY <1>12
<1>15. r.tag \in {"ok"} \cup Errors /\ (r.tag = "eof" => CutOff) /\ IsList(r.hits)
  <2>1. CASE r = Err(ReadTag(SYSTEM_AREA)) /\ ReadTag(SYSTEM_AREA) # "ok"
    BY <1>13, <2>1, ReadGood, OkErr, EmptyList
  <2>2. CASE r = Err(active.tag) /\ active.tag # "ok"
    BY <2>2, ActiveFacts, OkErr, EmptyList DEF IsWalk
  <2>3. CASE r = Err(FirstFailure(tags)) /\ FirstFailure(tags) # "ok"
    BY <1>5, <2>3, OkErr, EmptyList DEF Errors
  <2>4. CASE r = Ok(field \o FlattenSeq(odd))
    BY <1>11, <2>4, OkErr
  <2> QED BY <1>14, <2>1, <2>2, <2>3, <2>4
<1>16. "endian" \notin Kept
  BY DEF Kept
<1> QED BY <1>1, <1>15, <1>16, MapGood DEF Audited

LEMMA SlackAudited ==
  ASSUME Ready, At("slack"), Conclude("slack", audit_file_slack)
  PROVE  Audited("slack")
<1>1. PICK r : r = audit_file_slack
  OBVIOUS
<1>2. PICK out : out = active.out
  OBVIOUS
<1>3. IsList(out)
  BY <1>2, ActiveFacts DEF IsWalk
<1>4. PICK tags : tags = [i \in DOMAIN out |-> Tolerated(SlackTag(out[i]))]
  OBVIOUS
<1>5. FirstFailure(tags) \in {"ok", "io"}
  <2>1. IsList(tags)
    BY <1>3, <1>4, MappedList
  <2>2. ASSUME NEW i \in DOMAIN tags
        PROVE  \E t \in {"ok", "io", "eof"} : tags[i] = Tolerated(t)
    <3>1. SlackTag(out[i]) \in {"ok", "io", "eof"}
      BY ReadTagAny DEF SlackTag
    <3>2. tags[i] = Tolerated(SlackTag(out[i]))
      BY <1>4
    <3> QED BY <3>1, <3>2
  <2> QED BY <2>1, <2>2, ToleratedFacts
<1>6. PICK places : places = {i \in DOMAIN out : /\ IsFile(out[i]) /\ HasSlack(out[i].rec)
                                                 /\ SlackTag(out[i]) = "ok" /\ Leaks(out[i].rec)}
  OBVIOUS
<1>7. PICK hits : hits = Items(out, places)
  OBVIOUS
<1>8. IsList(hits)
  BY <1>3, <1>6, <1>7, ItemsFacts
<1>9. r = IF active.tag # "ok" THEN Err(active.tag)
          ELSE IF FirstFailure(tags) # "ok" THEN Err(FirstFailure(tags)) ELSE Ok(hits)
  BY <1>1, <1>2, <1>4, <1>6, <1>7 DEF audit_file_slack, Each, Pick
<1>10. r.tag \in {"ok"} \cup Errors /\ (r.tag = "eof" => CutOff) /\ IsList(r.hits)
  <2>1. CASE active.tag # "ok"
    BY <1>9, <2>1, ActiveFacts, OkErr, EmptyList DEF IsWalk
  <2>2. CASE active.tag = "ok" /\ FirstFailure(tags) # "ok"
    BY <1>5, <1>9, <2>2, OkErr, EmptyList DEF Errors
  <2>3. CASE active.tag = "ok" /\ FirstFailure(tags) = "ok"
    BY <1>8, <1>9, <2>3, OkErr
  <2> QED BY <2>1, <2>2, <2>3
<1>11. "slack" \notin Kept
  BY DEF Kept
<1> QED BY <1>1, <1>10, <1>11, MapGood DEF Audited

LEMMA OverWalkGood ==
  ASSUME Ready, NEW name, name \notin Kept, NEW hits, IsList(hits),
         NEW r, r = IF active.tag = "ok" THEN Ok(hits) ELSE Err(active.tag)
  PROVE  Good(name, r)
<1>1. CASE active.tag = "ok"
  BY <1>1, OkErr, MapGood
<1>2. CASE active.tag # "ok"
  BY <1>2, ActiveFacts, OkErr, EmptyList, MapGood DEF IsWalk
<1> QED BY <1>1, <1>2

(* The first failure of some reads of sectors every analysis reads.         *)
LEMMA ReadsGood ==
  ASSUME Ready, NEW tags, IsList(tags),
         \A i \in DOMAIN tags : \E l \in Mandatory : l \in Nat /\ tags[i] = ReadTag(l)
  PROVE  /\ FirstFailure(tags) \in {"ok"} \cup Errors
         /\ FirstFailure(tags) = "eof" => CutOff
<1>1. ASSUME NEW i \in DOMAIN tags
      PROVE  tags[i] \in {"ok"} \cup Errors /\ (tags[i] = "eof" => CutOff)
  BY ReadGood
<1> QED BY <1>1, FirstFailureFacts

LEMMA PreSystemAudited ==
  ASSUME Ready, PreSystem
  PROVE  Audited("presystem")
<1>1. PICK r : r = audit_pre_system
  OBVIOUS
<1>2. PICK sectors : sectors = [i \in 1 .. SYSTEM_AREA |-> i - 1]
  OBVIOUS
<1>3. IsList(sectors) /\ DOMAIN sectors = 1 .. SYSTEM_AREA
  <2>1. sectors = [i \in 1 .. SYSTEM_AREA |-> sectors[i]]
    BY <1>2
  <2> QED BY <2>1, FunctionIsList, SystemAreaAssumption
<1>4. PICK tags : tags = [i \in DOMAIN sectors |-> ReadTag(sectors[i])]
  OBVIOUS
<1>5. FirstFailure(tags) \in {"ok"} \cup Errors /\ (FirstFailure(tags) = "eof" => CutOff)
  <2>1. IsList(tags)
    BY <1>3, <1>4, MappedList
  <2>2. ASSUME NEW i \in DOMAIN tags
        PROVE  \E l \in Mandatory : l \in Nat /\ tags[i] = ReadTag(l)
    <3>1. i \in 1 .. SYSTEM_AREA /\ sectors[i] = i - 1 /\ tags[i] = ReadTag(sectors[i])
      BY <1>2, <1>3, <1>4
    <3>2. i - 1 \in Nat /\ i - 1 \in 0 .. SYSTEM_AREA
      BY <3>1, SystemAreaAssumption
    <3> QED BY <3>1, <3>2 DEF Mandatory
  <2> QED BY <2>1, <2>2, ReadsGood
<1>6. PICK places : places = {i \in DOMAIN sectors :
                                \E k \in 1 .. SECTOR : Slots(sectors[i])[k] # Free}
  OBVIOUS
<1>7. PICK inUse : inUse = Items(sectors, places)
  OBVIOUS
<1>8. PICK hits : hits = [i \in DOMAIN inUse |->
                            <<inUse[i], IF Slots(inUse[i])[1] = Magic THEN "magic" ELSE "non-zero">>]
  OBVIOUS
<1>9. IsList(hits)
  <2>1. IsList(inUse)
    BY <1>3, <1>6, <1>7, ItemsFacts
  <2> QED BY <1>8, <2>1, MappedList
<1>10. r = IF FirstFailure(tags) # "ok" THEN Err(FirstFailure(tags)) ELSE Ok(hits)
  BY <1>1, <1>2, <1>4, <1>6, <1>7, <1>8 DEF audit_pre_system, Each, Pick
<1>11. r.tag \in {"ok"} \cup Errors /\ (r.tag = "eof" => CutOff) /\ IsList(r.hits)
  BY <1>5, <1>9, <1>10, OkErr, EmptyList
<1>12. "presystem" \notin Kept
  BY DEF Kept
<1>13. At("presystem") /\ Conclude("presystem", r)
  BY <1>1 DEF PreSystem, Run
<1> QED BY <1>11, <1>12, <1>13, MapGood DEF Audited

LEMMA SymlinksAudited ==
  ASSUME Ready, Symlinks
  PROVE  Audited("symlinks")
<1>1. PICK r : r = audit_symlinks
  OBVIOUS
<1>2. PICK out : out = active.out
  OBVIOUS
<1>3. IsList(out)
  BY <1>2, ActiveFacts DEF IsWalk
<1>4. PICK places : places = {i \in DOMAIN out : /\ IsFile(out[i])
                                                 /\ Issue(symlink_target(out[i].rec.su)) # "none"}
  OBVIOUS
<1>5. PICK links : links = Items(out, places)
  OBVIOUS
<1>6. PICK hits : hits = [i \in DOMAIN links |-> <<links[i], Issue(symlink_target(links[i].rec.su))>>]
  OBVIOUS
<1>7. IsList(hits)
  <2>1. IsList(links)
    BY SMTT(40), <1>3, <1>4, <1>5, ItemsFacts
  <2> QED BY <1>6, <2>1, MappedList
<1>8. r = IF active.tag = "ok" THEN Ok(hits) ELSE Err(active.tag)
  BY <1>1, <1>2, <1>4, <1>5, <1>6 DEF audit_symlinks, OverWalk, Each, Pick
<1>9. At("symlinks") /\ Conclude("symlinks", r)
  BY <1>1 DEF Symlinks, Run
<1>10. "symlinks" \notin Kept
  BY DEF Kept
<1> QED BY <1>7, <1>8, <1>9, <1>10, OverWalkGood DEF Audited

LEMMA ReservedAudited ==
  ASSUME Ready, ReservedFields
  PROVE  Audited("reserved")
<1>1. PICK r : r = reserved
  OBVIOUS
<1>2. image.pvd \in Nat /\ image.pvd \in Mandatory
  BY DEF Ready, IsImage, Mandatory
<1>3. PICK hits : hits = IF Slots(image.pvd)[SECTOR] = Free THEN <<>> ELSE <<image.pvd>>
  OBVIOUS
<1>4. IsList(hits)
  BY <1>3, EmptyList, OneList
<1>5. r = IF ReadTag(image.pvd) # "ok" THEN Err(ReadTag(image.pvd)) ELSE Ok(hits)
  BY <1>1, <1>3 DEF reserved
<1>6. r.tag \in {"ok"} \cup Errors /\ (r.tag = "eof" => CutOff) /\ IsList(r.hits)
  BY <1>2, <1>4, <1>5, ReadGood, OkErr, EmptyList
<1>7. "reserved" \notin Kept
  BY DEF Kept
<1>8. At("reserved") /\ Conclude("reserved", r)
  BY <1>1 DEF ReservedFields, Run
<1> QED BY <1>6, <1>7, <1>8, MapGood DEF Audited

--------------------------------------------------------------------------------
(* The path tables.                                                         *)

LEMMA TableFacts ==
  ASSUME NEW t, IsTable(t)
  PROVE  IsList(parse_table(t)) /\ \A r \in Range(parse_table(t)) : r.lba \in Nat
<1>1. PICK recs : recs = t.records
  OBVIOUS
<1>2. IsList(recs) /\ \A r \in Range(recs) : r.lba \in Nat
  BY <1>1 DEF IsTable
<1>3. PICK n \in Nat : n = Len(recs) /\ DOMAIN recs = 1 .. n
  BY <1>2, ListFacts
<1>4. PICK stops : stops = {i \in DOMAIN recs : recs[i].dir_id = NoName}
  OBVIOUS
<1>5. parse_table(t) = IF stops = {} THEN recs ELSE SubSeq(recs, 1, Min(stops) - 1)
  BY <1>1, <1>4 DEF parse_table
<1>6. CASE stops = {}
  BY <1>2, <1>5, <1>6
<1>7. CASE stops # {}
  <2>1. stops \in SUBSET Nat /\ stops \subseteq 1 .. n
    BY <1>3, <1>4
  <2>2. Min(stops) \in 1 .. n
    BY <1>7, <2>1, MinIsLeast
  <2>3. Min(stops) - 1 \in Nat /\ Min(stops) - 1 <= Len(recs)
    BY <1>3, <2>2
  <2>4. IsList(SubSeq(recs, 1, Min(stops) - 1)) /\ Range(SubSeq(recs, 1, Min(stops) - 1)) \subseteq Range(recs)
    BY <1>2, <2>3, SubList
  <2> QED BY <1>2, <1>5, <1>7, <2>4
<1> QED BY <1>6, <1>7

LEMMA TableTagGood ==
  ASSUME Ready, NEW t \in {image.l_table, image.m_table}
  PROVE  TableTag(t) \in {"ok", "io", "eof"} /\ (TableTag(t) = "eof" => CutOff)
<1>1. PICK l, n \in Nat : l = t.lba /\ n = t.sectors
  BY DEF Ready, IsImage, IsTable
<1>2. TableTag(t) = RunTag(l, n) /\ TableRun(t) = l .. l + n - 1
  BY <1>1 DEF TableTag, TableRun
<1>3. TableRun(t) \subseteq Mandatory
  BY DEF Mandatory
<1> QED BY <1>2, <1>3, RunTagFacts DEF Ready, CutOff

LEMMA TreeLbasFacts ==
  ASSUME Ready
  PROVE  /\ IsFiniteSet(Phantoms(active.out)) /\ \A l \in Phantoms(active.out) : l \in Nat
         /\ IsFiniteSet(Ghosts(active.out)) /\ \A l \in Ghosts(active.out) : l \in Nat
<1>1. PICK recs : recs = parse_table(image.l_table)
  OBVIOUS
<1>2. IsList(recs) /\ \A r \in Range(recs) : r.lba \in Nat
  BY <1>1, TableFacts DEF Ready, IsImage
<1>3. PICK n \in Nat : DOMAIN recs = 1 .. n
  BY <1>2, ListFacts
<1>4. IsFiniteSet(1 .. n)
  BY FS_Interval
<1>5. PICK f : f = [i \in 1 .. n |-> recs[i].lba]
  OBVIOUS
<1>6. TableLbas = {f[i] : i \in 1 .. n}
  BY <1>1, <1>3, <1>5 DEF TableLbas, Range
<1>7. IsFiniteSet(TableLbas)
  BY <1>4, <1>6, FiniteImage
<1>8. \A l \in TableLbas : l \in Nat
  BY <1>1, <1>2 DEF TableLbas
<1>9. IsFiniteSet({image.root.lba}) /\ image.root.lba \in Nat
  BY FS_Singleton DEF Ready, IsImage, IsExtent
<1>10. IsFiniteSet(DirLbas(active.out)) /\ \A l \in DirLbas(active.out) : l \in Nat
  BY ActiveFacts, DirLbasFacts
<1>11. IsFiniteSet(TreeLbas(active.out)) /\ \A l \in TreeLbas(active.out) : l \in Nat
  BY <1>9, <1>10, FS_Union DEF TreeLbas
<1> QED BY <1>7, <1>8, <1>11, FS_Difference DEF Phantoms, Ghosts

LEMMA PathTableGood ==
  ASSUME Ready
  PROVE  Good("pathtable", audit_path_table)
<1>1. PICK r : r = audit_path_table
  OBVIOUS
<1>2. PICK a : a = Ascending(Phantoms(active.out))
  OBVIOUS
<1>3. PICK b : b = Ascending(Ghosts(active.out))
  OBVIOUS
<1>4. IsList(a) /\ IsList(b)
  BY <1>2, <1>3, TreeLbasFacts, AscendingFacts
<1>5. PICK p : p = [i \in DOMAIN a |-> <<"phantom", a[i]>>]
  OBVIOUS
<1>6. PICK g : g = [i \in DOMAIN b |-> <<"ghost", b[i]>>]
  OBVIOUS
<1>7. IsList(p) /\ IsList(g)
  BY <1>4, <1>5, <1>6, MappedList
<1>8. IsList(p \o g)
  BY <1>7, ConcatList
<1>9. PICK tag : tag = TableTag(image.l_table)
  OBVIOUS
<1>10. r = IF tag # "ok" THEN Err(tag)
           ELSE IF active.tag = "ok" THEN Ok(p \o g) ELSE Err(active.tag)
  BY <1>1, <1>2, <1>3, <1>5, <1>6, <1>9 DEF audit_path_table, OverWalk, Each
<1>11. "pathtable" \notin Kept
  BY DEF Kept
<1>12. CASE tag # "ok"
  <2>1. tag \in Errors /\ (tag = "eof" => CutOff)
    BY <1>9, <1>12, TableTagGood DEF Errors
  <2> QED BY <1>1, <1>10, <1>12, <2>1, ErrGood
<1>13. CASE tag = "ok"
  BY <1>1, <1>8, <1>10, <1>11, <1>13, OverWalkGood
<1> QED BY <1>12, <1>13

LEMMA PathTableAudited ==
  ASSUME Ready, PathTable
  PROVE  Audited("pathtable")
BY PathTableGood DEF PathTable, Run, Audited

LEMMA PairFirst ==
  ASSUME NEW a, NEW b
  PROVE  /\ FirstFailure(<<a, b>>) = "ok" => a = "ok" /\ b = "ok"
         /\ FirstFailure(<<a, b>>) # "ok" => FirstFailure(<<a, b>>) \in {a, b}
<1>1. PICK T : T = {a, b}
  BY Zenon
<1>2. PICK s : s = <<a, b>>
  OBVIOUS
<1>3. s \in Seq(T) /\ DOMAIN s = 1 .. 2 /\ s[1] = a /\ s[2] = b
  BY <1>1, <1>2
<1>4. IsList(s)
  BY <1>3, IsListAny
<1> QED BY <1>2, <1>3, <1>4, FirstFailureFacts

LEMMA LesserFacts ==
  ASSUME NEW m \in Nat, NEW n \in Nat
  PROVE  Lesser(m, n) \in Nat /\ Lesser(m, n) <= m /\ Lesser(m, n) <= n
BY DEF Lesser

LEMMA TableEndianAudited ==
  ASSUME Ready, PathTableEndian
  PROVE  Audited("ptendian")
<1>1. PICK r : r = audit_path_table_endian
  OBVIOUS
<1>2. PICK lt, mt : lt = image.l_table /\ mt = image.m_table
  OBVIOUS
<1>3. PICK l, m : l = parse_table(lt) /\ m = parse_table(mt)
  OBVIOUS
<1>4. IsList(l) /\ IsList(m)
  BY <1>2, <1>3, TableFacts DEF Ready, IsImage
<1>5. PICK tag : tag = FirstFailure(<<TableTag(lt), TableTag(mt)>>)
  OBVIOUS
<1>6. tag \in {"ok"} \cup Errors /\ (tag = "eof" => CutOff)
  <2>1. PICK a, b : a = TableTag(lt) /\ b = TableTag(mt)
    OBVIOUS
  <2>2. /\ a \in {"ok", "io", "eof"} /\ (a = "eof" => CutOff)
        /\ b \in {"ok", "io", "eof"} /\ (b = "eof" => CutOff)
    BY <1>2, <2>1, TableTagGood
  <2>3. tag = FirstFailure(<<a, b>>)
    BY <1>5, <2>1
  <2> QED BY <2>2, <2>3, PairFirst DEF Errors
<1>7. PICK hits : hits = validate_path_tables(l, m)
  OBVIOUS
<1>8. IsList(hits)
  <2>1. PICK n \in Nat : n = Lesser(Len(l), Len(m))
    BY <1>4, ListFacts, LesserFacts
  <2>2. PICK head : head = IF Len(l) # Len(m) THEN <<<<0, "count">>>> ELSE <<>>
    OBVIOUS
  <2>3. IsList(head)
    BY <2>2, OneList, EmptyList
  <2>4. PICK fields : fields = <<"lba", "parent", "dir_id">>
    OBVIOUS
  <2>5. IsList(fields)
    <3>1. PICK T : T = {"lba", "parent", "dir_id"}
      OBVIOUS
    <3>2. "lba" \in T /\ "parent" \in T /\ "dir_id" \in T
      BY <3>1
    <3>3. fields \in Seq(T)
      BY <2>4, <3>2
    <3> QED BY <3>3, IsListAny
  <2>6. PICK off : off = [i \in 1 .. n |-> Each(Pick(fields, LAMBDA f : l[i][f] # m[i][f]),
                                                 LAMBDA f : <<i, f>>)]
    BY Zenon
  <2>7. hits = head \o FlattenSeq(off)
    BY Zenon, <1>7, <2>1, <2>2, <2>4, <2>6 DEF validate_path_tables
  <2>8. off = [i \in 1 .. n |-> off[i]]
    BY Zenon, <2>6
  <2>9. IsList(off) /\ DOMAIN off = 1 .. n
    BY <2>8, FunctionIsList
  <2>10. ASSUME NEW i \in DOMAIN off PROVE IsList(off[i])
    <3>1. PICK places : places = {k \in DOMAIN fields : l[i][fields[k]] # m[i][fields[k]]}
      OBVIOUS
    <3>2. PICK differ : differ = Items(fields, places)
      OBVIOUS
    <3>3. IsList(differ)
      BY <2>5, <3>1, <3>2, ItemsFacts
    <3>4. off[i] = Each(Pick(fields, LAMBDA f : l[i][f] # m[i][f]), LAMBDA f : <<i, f>>)
      BY Zenon, <2>6, <2>9
    <3>5. off[i] = [k \in DOMAIN differ |-> <<i, differ[k]>>]
      BY <3>1, <3>2, <3>4 DEF Each, Pick
    <3> QED BY <3>3, <3>5, MappedList
  <2> QED BY <2>3, <2>7, <2>9, <2>10, Flattened, ConcatList
<1>9. \/ r = Ok(<<>>)
      \/ r = Err(tag) /\ tag # "ok"
      \/ r = Ok(hits)
  <2>1. r = CASE lt.lba = 0 \/ mt.lba = 0                -> Ok(<<>>)
              [] lt.lba # 0 /\ mt.lba # 0 /\ tag # "ok" -> Err(tag)
              [] OTHER -> Ok(hits)
    BY <1>1, <1>2, <1>3, <1>5, <1>7 DEF audit_path_table_endian
  <2> QED BY <2>1
<1>10. "ptendian" \notin Kept
  BY DEF Kept
<1>11. Good("ptendian", r)
  BY <1>6, <1>8, <1>9, <1>10, OkErr, EmptyList, MapGood
<1>12. At("ptendian") /\ Conclude("ptendian", r)
  BY <1>1 DEF PathTableEndian, Run
<1> QED BY <1>11, <1>12 DEF Audited

--------------------------------------------------------------------------------
(* The two trees, and the dates.                                            *)

(* The failure of one of the two walks.                                     *)
BothTag == FirstFailure(<<active.tag, trees.joliet.tag>>)

LEMMA BothWalked ==
  ASSUME Ready, image.joliet # None
  PROVE  /\ BothTag \in {"ok"} \cup Errors /\ (BothTag = "eof" => CutOff)
         /\ BothTag = "ok" => active.tag = "ok"
<1>1. PICK a, b : a = active.tag /\ b = trees.joliet.tag
  OBVIOUS
<1>2. /\ a \in {"ok"} \cup Errors /\ (a = "eof" => CutOff)
      /\ b \in {"ok"} \cup Errors /\ (b = "eof" => CutOff)
  BY <1>1, ActiveFacts, JolietFacts DEF IsWalk
<1>3. BothTag = FirstFailure(<<a, b>>)
  BY <1>1 DEF BothTag
<1> QED BY <1>1, <1>2, <1>3, PairFirst

LEMMA BothGood ==
  ASSUME Ready, NEW name, name \notin Kept, NEW hits, image.joliet # None => IsList(hits),
         NEW r, r = IF image.joliet = None THEN Ok(<<>>)
                    ELSE IF BothTag # "ok" THEN Err(BothTag) ELSE Ok(hits)
  PROVE  Good(name, r)
<1>1. CASE image.joliet = None
  BY <1>1, OkErr, EmptyList, MapGood
<1>2. CASE image.joliet # None /\ BothTag # "ok"
  <2>1. BothTag \in Errors /\ (BothTag = "eof" => CutOff)
    BY <1>2, BothWalked
  <2> QED BY <1>2, <2>1, ErrGood
<1>3. CASE image.joliet # None /\ BothTag = "ok"
  BY <1>3, OkErr, MapGood
<1> QED BY <1>1, <1>2, <1>3

LEMMA NamesAudited ==
  ASSUME Ready, NameDivergence
  PROVE  Audited("names")
<1>1. PICK r : r = name_divergence
  OBVIOUS
<1>2. PICK out : out = trees.joliet.out
  OBVIOUS
<1>3. PICK places : places =
        {i \in DOMAIN out :
           /\ IsFile(out[i])
           /\ RockRidgeAt(active.out, out[i].rec.lba) # None
           /\ norm(RockRidgeAt(active.out, out[i].rec.lba)) # norm(out[i].rec.wide)}
  OBVIOUS
<1>4. PICK hits : hits = Items(out, places)
  OBVIOUS
<1>5. image.joliet # None => IsList(hits)
  BY <1>2, <1>3, <1>4, JolietFacts, ItemsFacts DEF IsWalk
<1>6. r = IF image.joliet = None THEN Ok(<<>>)
          ELSE IF BothTag # "ok" THEN Err(BothTag) ELSE Ok(hits)
  BY <1>1, <1>2, <1>3, <1>4 DEF name_divergence, BothTag, Pick
<1>7. "names" \notin Kept
  BY DEF Kept
<1>8. At("names") /\ Conclude("names", r)
  BY <1>1 DEF NameDivergence, Run
<1> QED BY <1>5, <1>6, <1>7, <1>8, BothGood DEF Audited

LEMMA StartsFacts ==
  ASSUME NEW w, IsWalk(w)
  PROVE  IsFiniteSet(Starts(w.out)) /\ \A l \in Starts(w.out) : l \in Nat
<1>1. PICK out : out = w.out
  OBVIOUS
<1>2. IsList(out) /\ \A e \in Range(out) : IsEntry(e)
  BY <1>1 DEF IsWalk
<1>3. PICK n \in Nat : DOMAIN out = 1 .. n
  BY <1>2, ListFacts
<1>4. IsFiniteSet(1 .. n)
  BY FS_Interval
<1>5. PICK f : f = [i \in 1 .. n |-> out[i].rec.lba]
  OBVIOUS
<1>6. PICK T : T = {f[i] : i \in 1 .. n}
  OBVIOUS
<1>7. IsFiniteSet(T)
  BY <1>4, <1>6, FiniteImage
<1>8. \A l \in T : l \in Nat
  <2>1. ASSUME NEW i \in 1 .. n PROVE f[i] \in Nat
    <3>1. out[i] \in Range(out)
      BY <1>3 DEF Range
    <3> QED BY <1>2, <1>5, <3>1 DEF IsEntry, IsListed
  <2> QED BY <1>6, <2>1
<1>9. Starts(out) \subseteq T
  <2>1. ASSUME NEW d \in Range(out) PROVE d.rec.lba \in T
    <3>1. PICK i \in 1 .. n : d = out[i]
      BY <1>3 DEF Range
    <3> QED BY <1>5, <1>6, <3>1
  <2> QED BY <2>1 DEF Starts
<1> QED BY <1>1, <1>7, <1>8, <1>9, FS_Subset

LEMMA TreesAudited ==
  ASSUME Ready, Trees
  PROVE  Audited("trees")
<1>1. PICK r : r = tree_divergence
  OBVIOUS
<1>2. PICK p, j : p = Starts(active.out) /\ j = Starts(trees.joliet.out)
  OBVIOUS
<1>3. PICK a, b : a = Ascending(p \ j) /\ b = Ascending(j \ p)
  OBVIOUS
<1>4. PICK s, t : /\ s = [i \in DOMAIN a |-> <<"primary-only", a[i]>>]
                  /\ t = [i \in DOMAIN b |-> <<"joliet-only", b[i]>>]
  OBVIOUS
<1>5. image.joliet # None => IsList(s \o t)
  <2>1. SUFFICES ASSUME image.joliet # None PROVE IsList(s \o t)
    OBVIOUS
  <2>2. /\ IsFiniteSet(p) /\ \A l \in p : l \in Nat
        /\ IsFiniteSet(j) /\ \A l \in j : l \in Nat
    BY <1>2, <2>1, ActiveFacts, JolietFacts, StartsFacts
  <2>3. IsFiniteSet(p \ j) /\ IsFiniteSet(j \ p)
    BY <2>2, FS_Difference
  <2>4. IsList(a) /\ IsList(b)
    BY <1>3, <2>2, <2>3, AscendingFacts
  <2>5. IsList(s) /\ IsList(t)
    BY <1>4, <2>4, MappedList
  <2> QED BY <2>5, ConcatList
<1>6. r = IF image.joliet = None THEN Ok(<<>>)
          ELSE IF BothTag # "ok" THEN Err(BothTag) ELSE Ok(s \o t)
  BY <1>1, <1>2, <1>3, <1>4 DEF tree_divergence, BothTag, Each
<1>7. "trees" \notin Kept
  BY DEF Kept
<1>8. At("trees") /\ Conclude("trees", r)
  BY <1>1 DEF Trees, Run
<1> QED BY <1>5, <1>6, <1>7, <1>8, BothGood DEF Audited

LEMMA DatesAudited ==
  ASSUME Ready, Times
  PROVE  Audited("times")
<1>1. PICK r : r = IF image.created = None THEN Ok(image.odd_dates) ELSE OverWalk(times)
  OBVIOUS
<1>2. IsList(image.odd_dates)
  BY DEF Ready, IsImage
<1>3. PICK out : out = active.out
  OBVIOUS
<1>4. IsList(out)
  BY <1>3, ActiveFacts DEF IsWalk
<1>5. PICK places : places = {i \in DOMAIN out : IsFile(out[i]) /\ out[i].rec.stamp # None}
  OBVIOUS
<1>6. PICK stamped : stamped = Items(out, places)
  OBVIOUS
<1>7. IsList(stamped)
  BY <1>4, <1>5, <1>6, ItemsFacts
<1>8. PICK late : late = {i \in DOMAIN stamped : stamped[i].rec.stamp.utc > image.created.utc}
  OBVIOUS
<1>9. PICK zones : zones = {image.created.zone} \cup {e.rec.stamp.zone : e \in Range(stamped)}
  OBVIOUS
<1>10. PICK more : more = IF Cardinality(zones) > 1 THEN <<zones>> ELSE <<>>
  OBVIOUS
<1>11. IsList(more)
  BY <1>10, OneList, EmptyList
<1>12. PICK hits : hits = image.odd_dates \o Items(stamped, late) \o more
  BY Zenon
<1>13. IsList(Items(stamped, late))
  BY <1>7, <1>8, ItemsFacts
<1>14. IsList(hits)
  BY <1>2, <1>11, <1>12, <1>13, ConcatList
<1>15. times(out) = hits
  BY Zenon, <1>5, <1>6, <1>8, <1>9, <1>10, <1>12 DEF times, Pick
<1>16. "times" \notin Kept
  BY DEF Kept
<1>17. At("times") /\ Conclude("times", r)
  BY <1>1 DEF Times, Run
<1>18. CASE image.created = None
  BY <1>1, <1>2, <1>16, <1>17, <1>18, OkErr, MapGood DEF Audited
<1>19. CASE image.created # None
  <2>1. r = IF active.tag = "ok" THEN Ok(hits) ELSE Err(active.tag)
    BY <1>1, <1>3, <1>15, <1>19 DEF OverWalk
  <2> QED BY <1>14, <1>16, <1>17, <2>1, OverWalkGood DEF Audited
<1> QED BY <1>18, <1>19

--------------------------------------------------------------------------------
(* The raw bytes.                                                           *)

TrailChunk(i) == [k \in 1 .. Lesser(CHUNK, image.len - (image.space + i * CHUNK))
                    |-> image.space + i * CHUNK + k - 1]
TrailTag(i) == FirstFailure(Each(TrailChunk(i), ReadTag))
TrailStops ==
  {i \in 0 .. image.len : /\ image.space + i * CHUNK < image.len
                          /\ TrailTag(i) # "ok" \/ \E l \in Range(TrailChunk(i)) : Nonzero(l)}

LEMMA TrailTagGood ==
  ASSUME Ready, NEW i \in Nat, image.space + i * CHUNK < image.len
  PROVE  TrailTag(i) \in {"ok"} \cup Errors /\ (TrailTag(i) = "eof" => CutOff)
<1>1. PICK space, len \in Nat : space = image.space /\ len = image.len
  BY DEF Ready, IsImage
<1>2. CHUNK \in Nat /\ i * CHUNK \in Nat
  BY ChunkAssumption
<1>3. PICK from \in Nat : from = space + i * CHUNK
  BY <1>2
<1>4. len - from \in Nat
  BY <1>1, <1>3
<1>5. PICK n \in Nat : n = Lesser(CHUNK, len - from) /\ n <= len - from
  BY <1>2, <1>4, LesserFacts
<1>6. PICK c : c = TrailChunk(i)
  OBVIOUS
<1>7. c = [k \in 1 .. n |-> from + k - 1]
  BY <1>1, <1>3, <1>5, <1>6 DEF TrailChunk
<1>8. c = [k \in 1 .. n |-> c[k]] /\ \A k \in 1 .. n : c[k] = from + k - 1
  BY <1>7
<1>9. IsList(c) /\ DOMAIN c = 1 .. n
  BY <1>8, FunctionIsList
<1>10. PICK tags : tags = [k \in DOMAIN c |-> ReadTag(c[k])]
  OBVIOUS
<1>11. IsList(tags)
  BY <1>9, <1>10, MappedList
<1>12. ASSUME NEW k \in DOMAIN tags
       PROVE  \E l \in Mandatory : l \in Nat /\ tags[k] = ReadTag(l)
  <2>1. k \in 1 .. n /\ tags[k] = ReadTag(c[k]) /\ c[k] = from + k - 1
    BY <1>8, <1>9, <1>10
  <2>2. from >= space
    BY <1>1, <1>2, <1>3
  <2>3. c[k] \in Nat /\ c[k] \in space .. len - 1
    BY <1>1, <1>5, <2>1, <2>2
  <2>4. c[k] \in image.space .. image.len - 1
    BY <1>1, <2>3
  <2>5. c[k] \in Mandatory
    <3>1. PICK T : T = image.space .. image.len - 1
      OBVIOUS
    <3>2. T \subseteq Mandatory
      BY <3>1 DEF Mandatory
    <3> QED BY <2>4, <3>1, <3>2
  <2> QED BY <2>1, <2>3, <2>5
<1>13. TrailTag(i) = FirstFailure(tags)
  BY <1>6, <1>10 DEF TrailTag, Each
<1> QED BY <1>11, <1>12, <1>13, ReadsGood

LEMMA TrailingAudited ==
  ASSUME Ready, Trailing
  PROVE  Audited("trailing")
<1>1. PICK r : r = trailing_has_nonzero
  OBVIOUS
<1>2. PICK stops : stops = TrailStops
  OBVIOUS
<1>3. r = IF stops = {} THEN Ok(<<>>)
          ELSE IF TrailTag(Min(stops)) # "ok" THEN Err(TrailTag(Min(stops)))
          ELSE Ok(<<image.space>>)
  BY <1>1, <1>2 DEF trailing_has_nonzero, TrailStops, TrailTag, TrailChunk
<1>4. "trailing" \notin Kept
  BY DEF Kept
<1>5. At("trailing") /\ Conclude("trailing", r)
  BY <1>1 DEF Trailing, Run
<1>6. CASE stops = {}
  BY <1>3, <1>4, <1>5, <1>6, OkErr, EmptyList, MapGood DEF Audited
<1>7. CASE stops # {}
  <2>1. stops \in SUBSET Nat
    BY <1>2 DEF TrailStops, Ready, IsImage
  <2>2. PICK i : i = Min(stops)
    OBVIOUS
  <2>3. i \in stops /\ i \in Nat
    BY <1>7, <2>1, <2>2, MinIsLeast
  <2>4. image.space + i * CHUNK < image.len
    BY <1>2, <2>3 DEF TrailStops
  <2>5. TrailTag(i) \in {"ok"} \cup Errors /\ (TrailTag(i) = "eof" => CutOff)
    BY <2>3, <2>4, TrailTagGood
  <2>6. r = IF TrailTag(i) # "ok" THEN Err(TrailTag(i)) ELSE Ok(<<image.space>>)
    BY <1>3, <1>7, <2>2
  <2>7. r.tag \in {"ok"} \cup Errors /\ (r.tag = "eof" => CutOff) /\ IsList(r.hits)
    BY <2>5, <2>6, OkErr, EmptyList, OneList
  <2> QED BY <1>4, <1>5, <2>7, MapGood DEF Audited
<1> QED BY <1>6, <1>7

(* The sectors that cannot be read before the first.                        *)
UpTo0 == LET unread == {l \in 0 .. image.len - 1 : ReadTag(l) # "ok"}
         IN  IF unread = {} THEN image.len ELSE Min(unread)

WrongAmong(which, S) ==
  LET w == {l \in S : l < UpTo0}
  IN  IF w = {} THEN <<>> ELSE <<<<which, Cardinality(w), Min(w)>>>>

LEMMA SectorsAudited ==
  ASSUME Ready, Sectors
  PROVE  Audited("sectors")
<1>1. PICK r : r = edc_ecc
  OBVIOUS
<1>2. PICK s, t : s = WrongAmong("edc", image.wrong_edc) /\ t = WrongAmong("ecc", image.wrong_ecc)
  OBVIOUS
<1>3. IsList(s) /\ IsList(t)
  BY <1>2, EmptyList, OneList DEF WrongAmong
<1>4. IsList(s \o t)
  BY <1>3, ConcatList
<1>5. r = IF image.raw THEN Ok(s \o t) ELSE Ok(<<>>)
  BY <1>1, <1>2 DEF edc_ecc, WrongAmong, UpTo0
<1>6. r.tag = "ok" /\ IsList(r.hits)
  BY <1>4, <1>5, OkErr, EmptyList
<1>7. "sectors" \notin Kept
  BY DEF Kept
<1>8. At("sectors") /\ Conclude("sectors", r)
  BY <1>1 DEF Sectors, Run
<1> QED BY <1>6, <1>7, <1>8, MapGood DEF Audited

LEMMA SweepAudited ==
  ASSUME SweepTypeOK, EndSweep
  PROVE  Audited("overlaps")
<1>1. PICK n \in Nat : n = Len(exts) /\ overlaps \in SUBSET ((1 .. n) \X (1 .. n))
  BY DEF SweepTypeOK, IsExtents
<1>2. PICK S : S = {p[1] : p \in overlaps}
  OBVIOUS
<1>3. S \subseteq 1 .. n
  BY <1>1, <1>2
<1>4. IsFiniteSet(S) /\ \A i \in S : i \in Nat
  <2>1. IsFiniteSet(1 .. n)
    BY FS_Interval
  <2>2. S \in SUBSET (1 .. n)
    BY <1>3
  <2>3. IsFiniteSet(S)
    BY <2>1, <2>2, FS_Subset
  <2> QED BY <1>3, <2>3
<1>5. PICK later : later = Ascending(S)
  OBVIOUS
<1>6. IsList(later)
  BY <1>4, <1>5, AscendingFacts
<1>7. PICK hits : hits = [k \in DOMAIN later |->
        <<exts[later[k]], exts[CHOOSE c \in DOMAIN exts : <<later[k], c>> \in overlaps]>>]
  OBVIOUS
<1>8. IsList(hits)
  BY <1>6, <1>7, MappedList
<1>9. PICK r : r = Ok(hits)
  OBVIOUS
<1>10. At("overlaps") /\ Conclude("overlaps", r)
  BY <1>2, <1>5, <1>7, <1>9 DEF EndSweep, Each
<1>11. "overlaps" \notin Kept
  BY DEF Kept
<1> QED BY <1>8, <1>9, <1>10, <1>11, OkErr, MapGood DEF Audited

--------------------------------------------------------------------------------
(* Older sessions.                                                          *)

LEMMA GoneStatus ==
  ASSUME Ready, NEW e, e.rec.lba \notin FileLbas(active.out)
  PROVE  Status(e) \in {"deleted", "replaced"}
<1>1. PICK out : out = active.out
  OBVIOUS
<1>2. IsList(out)
  BY <1>1, ActiveFacts DEF IsWalk
<1>3. PICK n \in Nat : DOMAIN out = 1 .. n
  BY <1>2, ListFacts
<1>4. PICK named : named = {i \in DOMAIN out : IsFile(out[i]) /\ out[i].path = e.path}
  OBVIOUS
<1>5. PICK live : live = ActiveAt(out, e.path)
  OBVIOUS
<1>6. live = IF named = {} THEN None ELSE out[Max(named)].rec.lba
  BY <1>4, <1>5 DEF ActiveAt
<1>7. Status(e) = IF live = None THEN "deleted"
                  ELSE IF live # e.rec.lba THEN "replaced" ELSE "live"
  BY <1>1, <1>5 DEF Status
<1>8. CASE named = {}
  BY <1>6, <1>7, <1>8
<1>9. CASE named # {}
  <2>1. named \in SUBSET (0 .. n)
    BY <1>3, <1>4
  <2>2. Max(named) \in named
    BY <1>9, <2>1, MaxIsGreatest
  <2>3. PICK m : m = Max(named)
    OBVIOUS
  <2>4. IsFile(out[m]) /\ out[m] \in Range(out)
    BY <1>4, <2>2, <2>3 DEF Range
  <2>5. live \in FileLbas(out)
    BY <1>6, <1>9, <2>3, <2>4 DEF FileLbas
  <2> QED BY <1>1, <1>7, <2>5
<1> QED BY <1>8, <1>9

(* What is gone of an older session.                                        *)
GoneOf(i) == Each(Pick(trees.older[i].out, LAMBDA e : IsFile(e) /\ Status(e) # "live"),
                  LAMBDA e : <<i, e, Status(e)>>)

LEMMA GoneFacts ==
  ASSUME Ready, NEW i \in DOMAIN image.older
  PROVE  /\ IsList(GoneOf(i))
         /\ \A e \in Range(trees.older[i].out) :
              IsFile(e) /\ Status(e) # "live" => <<i, e, Status(e)>> \in Range(GoneOf(i))
<1>1. PICK out : out = trees.older[i].out
  OBVIOUS
<1>2. IsList(out)
  BY <1>1, OlderFacts DEF IsWalk
<1>3. PICK places : places = {k \in DOMAIN out : IsFile(out[k]) /\ Status(out[k]) # "live"}
  OBVIOUS
<1>4. PICK gone : gone = Items(out, places)
  OBVIOUS
<1>5. IsList(gone) /\ Range(gone) = {out[k] : k \in places}
  BY <1>2, <1>3, <1>4, ItemsFacts
<1>6. PICK hits : hits = GoneOf(i)
  OBVIOUS
<1>7. hits = [k \in DOMAIN gone |-> <<i, gone[k], Status(gone[k])>>]
  BY <1>1, <1>3, <1>4, <1>6 DEF GoneOf, Each, Pick
<1>8. hits = [k \in DOMAIN gone |-> hits[k]]
  BY <1>7
<1>9. IsList(hits) /\ Range(hits) = {hits[k] : k \in DOMAIN gone}
  BY <1>5, <1>8, MappedList
<1>10. ASSUME NEW e \in Range(out), IsFile(e), Status(e) # "live"
       PROVE  <<i, e, Status(e)>> \in Range(hits)
  <2>1. PICK k \in DOMAIN out : out[k] = e
    BY DEF Range
  <2>2. k \in places
    BY <1>3, <1>10, <2>1
  <2>3. e \in Range(gone)
    BY <1>5, <2>1, <2>2
  <2>4. PICK j \in DOMAIN gone : gone[j] = e
    BY <2>3 DEF Range
  <2>5. hits[j] = <<i, e, Status(e)>>
    BY <1>7, <2>4
  <2> QED BY <1>9, <2>5
<1> QED BY <1>1, <1>6, <1>9, <1>10

LEMMA SupersededAudited ==
  ASSUME Ready, Superseded
  PROVE  Audited("superseded")
<1>1. PICK r : r = superseded
  OBVIOUS
<1>2. PICK old, ts : old = image.older /\ ts = trees.older
  OBVIOUS
<1>3. /\ IsList(old) /\ IsList(ts) /\ DOMAIN ts = DOMAIN old
      /\ \A i \in DOMAIN old : ts[i] = walk_session(old[i]) /\ IsWalk(ts[i])
  BY <1>2, OlderFacts
<1>4. PICK more : more = [i \in DOMAIN ts |-> ts[i].tag]
  OBVIOUS
<1>5. PICK tags : tags = <<active.tag>> \o more
  OBVIOUS
<1>6. FirstFailure(tags) \in {"ok"} \cup Errors /\ (FirstFailure(tags) = "eof" => CutOff)
  <2>1. IsList(more) /\ Range(more) = {more[i] : i \in DOMAIN ts}
    <3>1. more = [i \in DOMAIN ts |-> more[i]]
      BY <1>4
    <3> QED BY <1>3, <3>1, MappedList
  <2>2. IsList(tags) /\ Range(tags) = {active.tag} \cup Range(more)
    BY <1>5, <2>1, OneList, ConcatList
  <2>3. ASSUME NEW t \in Range(tags) PROVE t \in {"ok"} \cup Errors /\ (t = "eof" => CutOff)
    <3>1. CASE t = active.tag
      BY <3>1, ActiveFacts DEF IsWalk
    <3>2. CASE t \in Range(more)
      <4>1. PICK i \in DOMAIN ts : t = ts[i].tag
        BY <1>4, <2>1, <3>2
      <4> QED BY <1>3, <4>1 DEF IsWalk
    <3> QED BY <2>2, <3>1, <3>2
  <2>4. \A i \in DOMAIN tags : tags[i] \in Range(tags)
    BY DEF Range
  <2> QED BY <2>2, <2>3, <2>4, FirstFailureFacts
<1>7. PICK parts : parts = [i \in DOMAIN old |-> GoneOf(i)]
  OBVIOUS
<1>8. r = IF old = <<>> THEN Ok(<<>>)
          ELSE IF FirstFailure(tags) # "ok" THEN Err(FirstFailure(tags))
          ELSE Ok(FlattenSeq(parts))
  BY <1>1, <1>2, <1>4, <1>5, <1>7 DEF superseded, GoneOf, Each
<1>9. IsList(parts) /\ \A i \in DOMAIN parts : parts[i] = GoneOf(i) /\ IsList(parts[i])
  <2>1. parts = [i \in DOMAIN old |-> parts[i]] /\ \A i \in DOMAIN old : parts[i] = GoneOf(i)
    BY <1>7
  <2>2. IsList(parts) /\ DOMAIN parts = DOMAIN old
    BY <1>3, <2>1, MappedList
  <2> QED BY <1>2, <2>1, <2>2, GoneFacts
<1>10. PICK hits : hits = FlattenSeq(parts)
  OBVIOUS
<1>11. IsList(hits) /\ Range(hits) = UNION {Range(parts[i]) : i \in DOMAIN parts}
  BY <1>9, <1>10, Flattened
<1>12. At("superseded") /\ Conclude("superseded", r)
  BY <1>1 DEF Superseded, Run
<1>13. ASSUME old = <<>> PROVE Settled("superseded", <<>>)
  <2>1. DOMAIN image.older = {}
    BY <1>2, <1>13, EmptyList
  <2> QED BY <2>1 DEF Settled, OldFound
<1>14. Settled("superseded", hits)
  <2>1. ASSUME NEW i \in DOMAIN image.older, NEW e \in Range(walk_session(image.older[i]).out),
               IsFile(e), e.rec.lba \notin FileLbas(active.out)
        PROVE  \E why \in {"deleted", "replaced"} : <<i, e, why>> \in Range(hits)
    <3>1. Status(e) \in {"deleted", "replaced"}
      BY <2>1, GoneStatus
    <3>2. e \in Range(trees.older[i].out) /\ i \in DOMAIN parts
      BY <1>2, <1>3, <1>7, <2>1
    <3>3. <<i, e, Status(e)>> \in Range(GoneOf(i))
      BY <2>1, <3>1, <3>2, GoneFacts
    <3>4. <<i, e, Status(e)>> \in Range(hits)
      BY <1>9, <1>11, <3>2, <3>3
    <3> QED BY <3>1, <3>4
  <2>2. OldFound(active.out, hits)
    BY <2>1 DEF OldFound
  <2> QED BY <2>2, ActiveFacts DEF Settled
<1>15. Good("superseded", r)
  <2>1. CASE old = <<>>
    <3>1. r = Ok(<<>>)
      BY <1>8, <2>1
    <3> QED BY <1>13, <2>1, <3>1, OkGood, EmptyList
  <2>2. CASE old # <<>> /\ FirstFailure(tags) # "ok"
    <3>1. r = Err(FirstFailure(tags)) /\ FirstFailure(tags) \in Errors
      BY <1>6, <1>8, <2>2
    <3> QED BY <1>6, <3>1, ErrGood
  <2>3. CASE old # <<>> /\ FirstFailure(tags) = "ok"
    <3>1. r = Ok(hits)
      BY <1>8, <1>10, <2>3
    <3> QED BY <1>11, <1>14, <3>1, OkGood
  <2> QED BY <2>1, <2>2, <2>3
<1> QED BY <1>12, <1>15 DEF Audited

--------------------------------------------------------------------------------
(* Lost files.                                                              *)

LEMMA RecoverFacts ==
  ASSUME Ready, NEW p \in Phantoms(active.out)
  PROVE  /\ p \in Nat
         /\ RecoverFrom(p).tag \in {"ok"} \cup Errors
         /\ RecoverFrom(p).tag = "eof" => CutOff
         /\ IsList(RecoverFrom(p).recs)
         /\ RecoverFrom(p).tag = "ok" =>
              /\ OwnSize(p) \in Nat
              /\ OwnSize(p) <= SECTOR \/ Sized(p) =>
                   Range(read_dir(p, OwnSize(p)).recs) \subseteq Range(RecoverFrom(p).recs)
<1>1. p \in Nat /\ SECTOR \in Nat \ {0} /\ IsImage(image)
  BY TreeLbasFacts, SectorAssumption DEF Ready
<1>2. PICK probe : probe = read_dir(p, SECTOR)
  OBVIOUS
<1>3. /\ probe.tag \in {"ok"} \cup Errors /\ IsList(probe.recs)
      /\ \A r \in Range(probe.recs) : IsListed(r)
  BY <1>1, <1>2, ReadDirFacts, ErrorsAre
<1>4. PICK first : first = probe.recs[1].size
  OBVIOUS
<1>5. probe.recs # <<>> => first \in Nat /\ probe.recs[1] \in Range(probe.recs)
  BY <1>3, <1>4, FirstFacts DEF IsListed
<1>6. PICK size : size = IF probe.recs = <<>> THEN SECTOR ELSE Greater(first, SECTOR)
  OBVIOUS
<1>7. /\ size \in Nat /\ size >= SECTOR
      /\ probe.recs # <<>> => size >= first
      /\ size # SECTOR => probe.recs # <<>> /\ size = first
  BY <1>1, <1>5, <1>6 DEF Greater
<1>8. PICK a : a = RecoverFrom(p)
  OBVIOUS
<1>9. a = IF probe.tag = "ok" /\ size > SECTOR THEN read_dir(p, size) ELSE probe
  BY <1>2, <1>4, <1>6, <1>8 DEF RecoverFrom
<1>10. \/ a = read_dir(p, SECTOR) /\ a = probe
       \/ a = read_dir(p, size) /\ probe.tag = "ok"
  BY <1>2, <1>9
<1>11. a.tag \in {"ok"} \cup Errors /\ IsList(a.recs)
  BY <1>1, <1>7, <1>10, ReadDirFacts, ErrorsAre
<1>12. ASSUME NEW n \in {SECTOR} \cup {r.size : r \in Range(probe.recs)}, n \in Nat,
              read_dir(p, n).tag = "eof"
       PROVE  CutOff
  <2>1. PICK x : x = [lba |-> p, size |-> n]
    OBVIOUS
  <2>2. x \in PhantomExtents
    BY <1>2, <1>12, <2>1 DEF PhantomExtents
  <2>3. IsExtent(x) /\ x.lba = p /\ x.size = n
    BY <1>1, <1>12, <2>1 DEF IsExtent
  <2> QED BY <1>1, <1>12, <2>2, <2>3, RootEof
<1>13. a.tag = "eof" => CutOff
  <2>1. CASE a = read_dir(p, SECTOR)
    BY <1>1, <1>12, <2>1
  <2>2. CASE a = read_dir(p, size) /\ size # SECTOR
    <3>1. size \in {r.size : r \in Range(probe.recs)}
      BY <1>4, <1>5, <1>7, <2>2
    <3> QED BY <1>7, <1>12, <2>2, <3>1
  <2> QED BY <1>10, <2>1, <2>2
<1>14. ASSUME a.tag = "ok" PROVE probe.tag = "ok"
  BY <1>10, <1>14
<1>15. ASSUME a.tag = "ok" PROVE OwnSize(p) \in Nat
  <2>1. IsRecord(Slots(p)[1])
    BY <1>1, <1>2, <1>14, <1>15, FirstSlot
  <2> QED BY <2>1 DEF IsRecord, IsExtent, OwnSize
<1>16. ASSUME a.tag = "ok", OwnSize(p) <= SECTOR \/ Sized(p)
       PROVE  Range(read_dir(p, OwnSize(p)).recs) \subseteq Range(a.recs)
  <2>1. PICK own \in Nat : own = OwnSize(p)
    BY <1>15, <1>16
  <2>2. own <= size
    <3>1. CASE own <= SECTOR
      BY <1>1, <1>7, <3>1
    <3>2. CASE Sized(p)
      BY <1>2, <1>4, <1>5, <1>7, <2>1, <3>2 DEF Sized
    <3> QED BY <1>16, <2>1, <3>1, <3>2
  <2>3. a = read_dir(p, size)
    <3>1. CASE size = SECTOR
      BY <1>2, <1>10, <3>1
    <3>2. CASE size # SECTOR
      BY <1>1, <1>7, <1>9, <1>14, <1>16, <3>2
    <3> QED BY <3>1, <3>2
  <2> QED BY <1>1, <1>7, <1>16, <2>1, <2>2, <2>3, ReadDirWider
<1> QED BY <1>1, <1>8, <1>11, <1>13, <1>15, <1>16

(* The files found in a directory of the path table.                        *)
FilesOf(recs, p) == Each(Pick(recs, LAMBDA r : ~r.dir), LAMBDA r : <<p, r>>)

LEMMA FilesOfFacts ==
  ASSUME NEW recs, IsList(recs), NEW p
  PROVE  /\ IsList(FilesOf(recs, p))
         /\ \A r \in Range(recs) : ~r.dir => <<p, r>> \in Range(FilesOf(recs, p))
<1>1. PICK places : places = {k \in DOMAIN recs : ~recs[k].dir}
  OBVIOUS
<1>2. PICK files : files = Items(recs, places)
  OBVIOUS
<1>3. IsList(files) /\ Range(files) = {recs[k] : k \in places}
  BY <1>1, <1>2, ItemsFacts
<1>4. PICK hits : hits = FilesOf(recs, p)
  OBVIOUS
<1>5. hits = [k \in DOMAIN files |-> <<p, files[k]>>]
  BY <1>1, <1>2, <1>4 DEF FilesOf, Each, Pick
<1>6. hits = [k \in DOMAIN files |-> hits[k]]
  BY <1>5
<1>7. IsList(hits) /\ Range(hits) = {hits[k] : k \in DOMAIN files}
  BY <1>3, <1>6, MappedList
<1>8. ASSUME NEW r \in Range(recs), ~r.dir PROVE <<p, r>> \in Range(hits)
  <2>1. PICK k \in DOMAIN recs : recs[k] = r
    BY DEF Range
  <2>2. r \in Range(files)
    BY <1>1, <1>3, <1>8, <2>1
  <2>3. PICK j \in DOMAIN files : files[j] = r
    BY <2>2 DEF Range
  <2>4. hits[j] = <<p, r>>
    BY <1>5, <2>3
  <2> QED BY <1>7, <2>4
<1> QED BY <1>4, <1>7, <1>8

LEMMA LostAudited ==
  ASSUME Ready, LostFiles
  PROVE  Audited("lost")
<1>1. PICK r : r = recover_lost_files
  OBVIOUS
<1>2. PICK ps : ps = Ascending(Phantoms(active.out))
  OBVIOUS
<1>3. IsList(ps) /\ Range(ps) = Phantoms(active.out)
  BY <1>2, TreeLbasFacts, AscendingFacts
<1>4. PICK answers : answers = [i \in DOMAIN ps |-> RecoverFrom(ps[i])]
  OBVIOUS
<1>5. /\ IsList(answers) /\ DOMAIN answers = DOMAIN ps
      /\ \A i \in DOMAIN ps : answers[i] = RecoverFrom(ps[i]) /\ ps[i] \in Phantoms(active.out)
  <2>1. answers = [i \in DOMAIN ps |-> answers[i]] /\ \A i \in DOMAIN ps : answers[i] = RecoverFrom(ps[i])
    BY <1>4
  <2>2. \A i \in DOMAIN ps : ps[i] \in Range(ps)
    BY DEF Range
  <2> QED BY <1>3, <2>1, <2>2, MappedList
<1>6. PICK tags : tags = [i \in DOMAIN answers |-> answers[i].tag]
  OBVIOUS
<1>7. IsList(tags) /\ DOMAIN tags = DOMAIN ps /\ \A i \in DOMAIN ps : tags[i] = answers[i].tag
  <2>1. tags = [i \in DOMAIN answers |-> tags[i]]
    BY <1>6
  <2> QED BY <1>5, <1>6, <2>1, MappedList
<1>8. FirstFailure(tags) \in {"ok"} \cup Errors /\ (FirstFailure(tags) = "eof" => CutOff)
  <2>1. ASSUME NEW i \in DOMAIN tags
        PROVE  tags[i] \in {"ok"} \cup Errors /\ (tags[i] = "eof" => CutOff)
    <3>1. tags[i] = RecoverFrom(ps[i]).tag /\ ps[i] \in Phantoms(active.out)
      BY <1>5, <1>7
    <3> QED BY <3>1, RecoverFacts
  <2> QED BY <1>7, <2>1, FirstFailureFacts
<1>9. PICK parts : parts = [i \in DOMAIN ps |-> FilesOf(answers[i].recs, ps[i])]
  OBVIOUS
<1>10. /\ IsList(parts) /\ DOMAIN parts = DOMAIN ps
       /\ \A i \in DOMAIN ps : parts[i] = FilesOf(answers[i].recs, ps[i]) /\ IsList(parts[i])
  <2>1. parts = [i \in DOMAIN ps |-> parts[i]]
        /\ \A i \in DOMAIN ps : parts[i] = FilesOf(answers[i].recs, ps[i])
    BY <1>9
  <2>2. \A i \in DOMAIN ps : IsList(answers[i].recs)
    BY <1>5, RecoverFacts
  <2> QED BY <1>3, <2>1, <2>2, MappedList, FilesOfFacts
<1>11. PICK hits : hits = FlattenSeq(parts)
  OBVIOUS
<1>12. IsList(hits) /\ Range(hits) = UNION {Range(parts[i]) : i \in DOMAIN parts}
  BY <1>10, <1>11, Flattened
<1>13. r = IF audit_path_table.tag # "ok" THEN Err(audit_path_table.tag)
           ELSE IF FirstFailure(tags) # "ok" THEN Err(FirstFailure(tags))
           ELSE Ok(hits)
  BY <1>1, <1>2, <1>4, <1>6, <1>9, <1>11 DEF recover_lost_files, FilesOf, Each
<1>14. ASSUME FirstFailure(tags) = "ok" PROVE Settled("lost", hits)
  <2>1. ASSUME NEW p \in Phantoms(active.out)
        PROVE  /\ p \in Nat /\ OwnSize(p) \in Nat
               /\ OwnSize(p) <= SECTOR \/ Sized(p) =>
                    \A x \in Range(read_dir(p, OwnSize(p)).recs) :
                      ~x.dir => <<p, x>> \in Range(hits)
    <3>1. PICK i \in DOMAIN ps : ps[i] = p
      BY <1>3 DEF Range
    <3>2. answers[i] = RecoverFrom(p) /\ RecoverFrom(p).tag = "ok"
      BY <1>5, <1>7, <1>14, <3>1, FirstFailureFacts
    <3>3. ASSUME OwnSize(p) <= SECTOR \/ Sized(p),
                 NEW x \in Range(read_dir(p, OwnSize(p)).recs), ~x.dir
          PROVE  <<p, x>> \in Range(hits)
      <4>1. x \in Range(answers[i].recs) /\ IsList(answers[i].recs)
        BY <3>2, <3>3, RecoverFacts
      <4>2. <<p, x>> \in Range(parts[i])
        BY <1>10, <3>1, <3>3, <4>1, FilesOfFacts
      <4> QED BY <1>10, <1>12, <4>2
    <3> QED BY <3>2, <3>3, RecoverFacts
  <2>2. LostFound(active.out, hits)
    BY <2>1 DEF LostFound
  <2> QED BY <2>2, ActiveFacts DEF Settled
<1>15. Good("lost", r)
  <2>1. CASE audit_path_table.tag # "ok"
    <3>1. audit_path_table.tag \in Errors /\ (audit_path_table.tag = "eof" => CutOff)
      BY <2>1, PathTableGood DEF Good
    <3> QED BY <1>13, <2>1, <3>1, ErrGood
  <2>2. CASE audit_path_table.tag = "ok" /\ FirstFailure(tags) # "ok"
    <3>1. r = Err(FirstFailure(tags)) /\ FirstFailure(tags) \in Errors
      BY <1>8, <1>13, <2>2
    <3> QED BY <1>8, <3>1, ErrGood
  <2>3. CASE audit_path_table.tag = "ok" /\ FirstFailure(tags) = "ok"
    <3>1. r = Ok(hits)
      BY <1>13, <2>3
    <3> QED BY <1>12, <1>14, <2>3, <3>1, OkGood
  <2> QED BY <2>1, <2>2, <2>3
<1>16. At("lost") /\ Conclude("lost", r)
  BY <1>1 DEF LostFiles, Run
<1> QED BY <1>15, <1>16 DEF Audited

--------------------------------------------------------------------------------
(* Directory cycles: found by path, they are those of the tree.             *)

LEMMA PrefixSame ==
  ASSUME NEW T, NEW p \in Seq(T), NEW q \in Seq(T), NEW i \in Nat, i <= Len(p), i <= Len(q),
         \A k \in 1 .. i : p[k] = q[k]
  PROVE  SubSeq(p, 1, i) = SubSeq(q, 1, i)
<1>1. PICK a : a = SubSeq(p, 1, i)
  OBVIOUS
<1>2. PICK b : b = SubSeq(q, 1, i)
  OBVIOUS
<1>3. a \in Seq(T) /\ Len(a) = i /\ \A k \in 1 .. i : a[k] = p[k]
  BY <1>1, SubSeqProperties
<1>4. b \in Seq(T) /\ Len(b) = i /\ \A k \in 1 .. i : b[k] = q[k]
  BY <1>2, SubSeqProperties
<1> QED BY <1>1, <1>2, <1>3, <1>4, SeqEqual

LEMMA PrefixWhole ==
  ASSUME NEW T, NEW p \in Seq(T), NEW q \in Seq(T), Len(q) >= Len(p),
         \A k \in 1 .. Len(p) : q[k] = p[k]
  PROVE  SubSeq(q, 1, Len(p)) = p
<1>1. PICK n \in Nat : n = Len(p)
  OBVIOUS
<1>2. PICK b : b = SubSeq(q, 1, n)
  OBVIOUS
<1>3. Len(q) \in Nat
  OBVIOUS
<1>4. b \in Seq(T) /\ Len(b) = n /\ \A k \in 1 .. n : b[k] = q[k]
  BY <1>1, <1>2, <1>3, SubSeqProperties
<1> QED BY <1>1, <1>2, <1>4, SeqEqual

LEMMA Appended ==
  ASSUME NEW T, NEW p \in Seq(T), NEW w \in Seq(T), NEW r, r = p \o w
  PROVE  /\ r \in Seq(T) /\ Len(r) = Len(p) + Len(w)
         /\ \A k \in 1 .. Len(p) : r[k] = p[k]
         /\ \A k \in Len(p) + 1 .. Len(p) + Len(w) : r[k] = w[k - Len(p)]
<1>1. r \in Seq(T) /\ Len(r) = Len(p) + Len(w)
  BY ConcatProperties
<1>2. \A k \in 1 .. Len(p) + Len(w) : r[k] = IF k <= Len(p) THEN p[k] ELSE w[k - Len(p)]
  BY ConcatProperties
<1> QED BY <1>1, <1>2

LEMMA JoinShape ==
  ASSUME NEW T, NEW p \in Seq(T), NEW w \in Seq(T), NEW x \in T,
         NEW q, q = p \o <<x>> \o w,
         NEW n, n = Len(p), NEW m, m = Len(w)
  PROVE  /\ q \in Seq(T) /\ Len(q) = n + 1 + m /\ n \in Nat /\ m \in Nat
         /\ \A k \in 1 .. n : q[k] = p[k]
         /\ q[n + 1] = x
         /\ \A k \in n + 2 .. n + 1 + m : q[k] = w[k - (n + 1)]
<1>1. PICK s \in Seq(T) : s = <<x>> /\ Len(s) = 1 /\ s[1] = x
  BY OneMember
<1>2. p \o s \in Seq(T)
  OBVIOUS
<1>3. PICK r \in Seq(T) : r = p \o s
  BY <1>2
<1>4. /\ Len(r) = Len(p) + Len(s)
      /\ \A k \in 1 .. Len(p) : r[k] = p[k]
      /\ \A k \in Len(p) + 1 .. Len(p) + Len(s) : r[k] = s[k - Len(p)]
  BY ONLY <1>3, Appended
<1>5. /\ n \in Nat /\ m \in Nat /\ Len(r) = n + 1
      /\ \A k \in 1 .. n : r[k] = p[k]
      /\ r[n + 1] = x
  BY <1>1, <1>4
<1>6. q = r \o w
  BY <1>1, <1>3
<1>7. /\ q \in Seq(T) /\ Len(q) = Len(r) + Len(w)
      /\ \A k \in 1 .. Len(r) : q[k] = r[k]
      /\ \A k \in Len(r) + 1 .. Len(r) + Len(w) : q[k] = w[k - Len(r)]
  BY ONLY <1>6, Appended
<1>8. /\ Len(q) = n + 1 + m
      /\ \A k \in 1 .. n + 1 : q[k] = r[k]
      /\ \A k \in n + 2 .. n + 1 + m : q[k] = w[k - (n + 1)]
  BY <1>5, <1>7
<1> QED BY <1>5, <1>7, <1>8

(* Below a directory, its path and those of its ancestors lead back; others  *)
(* do only if there is a separator in the name.                             *)
LEMMA JoinAncestors ==
  ASSUME NEW p \in Seq(STRING), p # <<>>, NEW name \in Seq(STRING), NEW q, q = Join(p, name)
  PROVE  /\ AncestorPaths(p) \cup {p} \subseteq AncestorPaths(q)
         /\ SEPARATOR \notin Range(name) => AncestorPaths(q) = AncestorPaths(p) \cup {p}
<1>1. PICK T : T = STRING
  OBVIOUS
<1>2. PICK n, m : n = Len(p) /\ m = Len(name)
  OBVIOUS
<1>3. /\ q \in Seq(T) /\ Len(q) = n + 1 + m /\ n \in Nat /\ m \in Nat
      /\ \A k \in 1 .. n : q[k] = p[k]
      /\ q[n + 1] = SEPARATOR
      /\ \A k \in n + 2 .. n + 1 + m : q[k] = name[k - (n + 1)]
  <2>1. PICK v \in Seq(T), w \in Seq(T), x \in T : v = p /\ w = name /\ x = SEPARATOR
    BY <1>1, SeparatorAssumption
  <2>2. q = v \o <<x>> \o w /\ n = Len(v) /\ m = Len(w)
    BY <1>2, <2>1 DEF Join
  <2>3. /\ q \in Seq(T) /\ Len(q) = n + 1 + m /\ n \in Nat /\ m \in Nat
        /\ \A k \in 1 .. n : q[k] = v[k]
        /\ q[n + 1] = x
        /\ \A k \in n + 2 .. n + 1 + m : q[k] = w[k - (n + 1)]
    BY ONLY <2>2, JoinShape
  <2> QED BY <2>1, <2>3
<1>4. DOMAIN p = 1 .. n /\ DOMAIN q = 1 .. n + 1 + m /\ DOMAIN name = 1 .. m
  BY <1>1, <1>2, <1>3
<1>5. ASSUME NEW k \in 1 .. n PROVE SubSeq(q, 1, k - 1) = SubSeq(p, 1, k - 1)
  <2>1. k - 1 \in Nat /\ k - 1 <= Len(p) /\ k - 1 <= Len(q)
    BY <1>2, <1>3
  <2>2. \A i \in 1 .. k - 1 : q[i] = p[i]
    BY <1>3
  <2> QED BY <1>1, <1>3, <2>1, <2>2, PrefixSame
<1>6. SubSeq(q, 1, (n + 1) - 1) = p
  <2>1. \A i \in 1 .. n : q[i] = p[i]
    BY <1>3
  <2>2. SubSeq(q, 1, n) = p
    BY <1>1, <1>2, <1>3, <2>1, PrefixWhole
  <2>3. (n + 1) - 1 = n
    BY <1>3
  <2> QED BY Zenon, <2>2, <2>3
<1>7. Separators(p) \cup {n + 1} \subseteq Separators(q)
  BY <1>3, <1>4 DEF Separators
<1>8. AncestorPaths(p) \cup {p} \subseteq AncestorPaths(q)
  <2>1. p \in AncestorPaths(q)
    BY <1>6, <1>7 DEF AncestorPaths
  <2>2. ASSUME NEW k \in Separators(p) PROVE SubSeq(p, 1, k - 1) \in AncestorPaths(q)
    BY <1>4, <1>5, <1>7 DEF AncestorPaths, Separators
  <2> QED BY <2>1, <2>2 DEF AncestorPaths
<1>9. ASSUME SEPARATOR \notin Range(name), NEW k \in Separators(q)
       PROVE  SubSeq(q, 1, k - 1) \in AncestorPaths(p) \cup {p}
  <2>1. k \in 1 .. n + 1 + m /\ q[k] = SEPARATOR
    BY <1>4 DEF Separators
  <2>2. CASE k \in 1 .. n
    <3>1. k \in Separators(p)
      BY <1>3, <1>4, <2>1, <2>2 DEF Separators
    <3> QED BY <1>5, <2>2, <3>1 DEF AncestorPaths
  <2>3. CASE k = n + 1
    BY <1>6, <2>3
  <2>4. CASE k \in n + 2 .. n + 1 + m
    <3>1. name[k - (n + 1)] = SEPARATOR /\ k - (n + 1) \in DOMAIN name
      BY <1>3, <1>4, <2>1, <2>4
    <3> QED BY <1>9, <3>1 DEF Range
  <2> QED BY <1>2, <2>1, <2>2, <2>3, <2>4
<1>10. SEPARATOR \notin Range(name) => AncestorPaths(q) \subseteq AncestorPaths(p) \cup {p}
  <2>1. <<>> \in AncestorPaths(p)
    BY DEF AncestorPaths
  <2> QED BY <1>9, <2>1 DEF AncestorPaths
<1> QED BY <1>8, <1>10

(* A directory's path leads through the directories it lies in, and, without *)
(* separators in names, through no other.                                   *)
Leads(out, e) ==
  /\ \A l \in Range(e.up) : \E p \in AncestorPaths(e.path) : LbaAt(out, p) = l
  /\ NoSeparator(out) => \A p \in AncestorPaths(e.path) : LbaAt(out, p) \in Range(e.up)

LEMMA LbaAtDir ==
  ASSUME NEW out, IsList(out), PathsDiffer(out)
  PROVE  /\ LbaAt(out, <<>>) = image.root.lba
         /\ \A d \in Range(out) : d.rec.dir => LbaAt(out, d.path) = d.rec.lba
<1>1. PICK n \in Nat : DOMAIN out = 1 .. n
  BY ListFacts
<1>2. PICK dirs : dirs = {i \in DOMAIN out : out[i].rec.dir}
  OBVIOUS
<1>3. \A i \in dirs : out[i].path # <<>> /\ \A j \in dirs : i # j => out[i].path # out[j].path
  BY <1>2 DEF PathsDiffer
<1>4. LbaAt(out, <<>>) = image.root.lba
  <2>1. {i \in DOMAIN out : out[i].rec.dir /\ out[i].path = <<>>} = {}
    BY <1>2, <1>3
  <2> QED BY <2>1 DEF LbaAt
<1>5. ASSUME NEW d \in Range(out), d.rec.dir PROVE LbaAt(out, d.path) = d.rec.lba
  <2>1. PICK k \in DOMAIN out : out[k] = d
    BY DEF Range
  <2>2. PICK named : named = {i \in DOMAIN out : out[i].rec.dir /\ out[i].path = d.path}
    OBVIOUS
  <2>3. k \in named /\ named \in SUBSET (0 .. n)
    BY <1>1, <1>5, <2>1, <2>2
  <2>4. Max(named) \in named
    BY <2>3, MaxIsGreatest
  <2>5. Max(named) = k
    BY <1>2, <1>3, <2>1, <2>2, <2>3, <2>4
  <2>6. LbaAt(out, d.path) = out[Max(named)].rec.lba
    BY <2>2, <2>3 DEF LbaAt
  <2> QED BY <2>1, <2>5, <2>6
<1> QED BY <1>4, <1>5

LEMMA LeadsOn ==
  ASSUME NEW out, IsList(out), PathsDiffer(out),
         NEW d \in Range(out), d.rec.dir, IsEntry(d), Leads(out, d), d.path # <<>>,
         NEW e \in Range(out), e.rec.dir, IsEntry(e), e.up = Append(d.up, d.rec.lba),
         e.path = Join(d.path, NameOf(e.rec))
  PROVE  Leads(out, e)
<1>1. PICK p, q, name : p = d.path /\ q = e.path /\ name = NameOf(e.rec)
  OBVIOUS
<1>2. p \in Seq(STRING) /\ name \in Seq(STRING)
  BY <1>1, NameOfFacts DEF IsEntry
<1>3. /\ AncestorPaths(p) \cup {p} \subseteq AncestorPaths(q)
      /\ SEPARATOR \notin Range(name) => AncestorPaths(q) = AncestorPaths(p) \cup {p}
  BY <1>1, <1>2, JoinAncestors
<1>4. PICK u, v : u = d.up /\ v = e.up
  OBVIOUS
<1>5. Range(v) = Range(u) \cup {d.rec.lba}
  BY <1>4, AppendList DEF IsEntry
<1>6. LbaAt(out, p) = d.rec.lba
  BY <1>1, LbaAtDir
<1>7. NoSeparator(out) => SEPARATOR \notin Range(name)
  BY <1>1 DEF NoSeparator
<1>8. ASSUME NEW l \in Range(v) PROVE \E a \in AncestorPaths(q) : LbaAt(out, a) = l
  BY <1>1, <1>3, <1>4, <1>5, <1>6 DEF Leads
<1>9. ASSUME NoSeparator(out), NEW a \in AncestorPaths(q) PROVE LbaAt(out, a) \in Range(v)
  BY <1>1, <1>3, <1>4, <1>5, <1>6, <1>7, <1>9 DEF Leads
<1> QED BY <1>1, <1>4, <1>8, <1>9 DEF Leads

LEMMA AllLead ==
  ASSUME Ready, PathsDiffer(active.out), NEW e \in Range(active.out), e.rec.dir
  PROVE  Leads(active.out, e)
<1>1. PICK out : out = active.out
  OBVIOUS
<1>2. IsExtent(image.root) /\ IsImage(image)
  BY DEF Ready, IsImage
<1>3. WalkPlaces(image.root, active)
  BY <1>2, ActiveFacts, WalkFacts DEF walk
<1>4. IsList(out) /\ \A d \in Range(out) : IsEntry(d) /\ LiesIn(image.root, out, d)
  BY <1>1, <1>3 DEF WalkPlaces
<1>5. PICK T : T = {n \in Nat : \A d \in Range(out) : d.rec.dir /\ Len(d.up) = n => Leads(out, d)}
  OBVIOUS
<1>6. 0 \in T
  BY <1>4, <1>5 DEF IsEntry
<1>7. ASSUME NEW n \in T PROVE n + 1 \in T
  <2>1. ASSUME NEW d \in Range(out), d.rec.dir, Len(d.up) = n + 1 PROVE Leads(out, d)
    <3>1. IsEntry(d) /\ LiesIn(image.root, out, d)
      BY <1>4
    <3>0. ASSUME NEW c \in Range(out), c.rec.dir PROVE c.path # <<>>
      <4>1. PICK k \in DOMAIN out : out[k] = c
        BY DEF Range
      <4> QED BY <1>1, <3>0, <4>1 DEF PathsDiffer
    <3>2. CASE d.up = <<image.root.lba>> /\ d.path = Join(<<>>, NameOf(d.rec))
      <4>1. PICK name : name = NameOf(d.rec) /\ d.path = name
        BY <3>2 DEF Join
      <4>2. Range(d.up) = {image.root.lba}
        BY <3>2, OneList
      <4>3. LbaAt(out, <<>>) = image.root.lba
        BY <1>1, <1>4, LbaAtDir
      <4>4. ASSUME NoSeparator(out) PROVE AncestorPaths(d.path) = {<<>>}
        <5>1. SEPARATOR \notin Range(name)
          BY <2>1, <4>1, <4>4 DEF NoSeparator
        <5>2. Separators(name) = {}
          BY <5>1 DEF Separators, Range
        <5> QED BY <4>1, <5>2 DEF AncestorPaths
      <4>5. <<>> \in AncestorPaths(d.path)
        BY DEF AncestorPaths
      <4> QED BY <4>2, <4>3, <4>4, <4>5 DEF Leads
    <3>3. CASE \E c \in Range(out) : /\ c.rec.dir /\ d.up = Append(c.up, c.rec.lba)
                                     /\ d.path = Join(c.path, NameOf(d.rec))
      <4>1. PICK c \in Range(out) : /\ c.rec.dir /\ d.up = Append(c.up, c.rec.lba)
                                    /\ d.path = Join(c.path, NameOf(d.rec))
        BY <3>3
      <4>2. IsEntry(c) /\ c.path # <<>>
        BY <1>4, <3>0, <4>1
      <4>3. PICK m \in Nat : m = Len(c.up)
        BY <4>2 DEF IsEntry
      <4>4. Len(d.up) = m + 1
        BY <4>1, <4>2, <4>3, AppendList DEF IsEntry
      <4>5. m = n
        BY <1>5, <2>1, <4>3, <4>4
      <4>6. Leads(out, c)
        BY <1>5, <4>1, <4>3, <4>5
      <4> QED BY <1>1, <1>4, <2>1, <3>1, <4>1, <4>2, <4>6, LeadsOn
    <3> QED BY <3>1, <3>2, <3>3 DEF LiesIn
  <2> QED BY <1>5, <2>1
<1>8. T \in SUBSET Nat
  BY <1>5
<1>9. T = Nat
  BY <1>6, <1>7, <1>8, Induction
<1>10. Len(e.up) \in T
  BY <1>1, <1>4, <1>9 DEF IsEntry
<1> QED BY <1>1, <1>5, <1>10

LEMMA CyclesAudited ==
  ASSUME Ready, Cycles
  PROVE  Audited("cycles")
<1>1. PICK out : out = active.out
  OBVIOUS
<1>2. IsList(out) /\ active = walk /\ \A e \in Range(out) : IsEntry(e)
  BY <1>1, ActiveFacts DEF IsWalk
<1>3. PICK places : places = {i \in DOMAIN active.out : CyclesBack(active.out, active.out[i])}
  OBVIOUS
<1>4. PICK r : r = IF active.tag = "ok" THEN Ok(Items(active.out, places)) ELSE Err(active.tag)
  OBVIOUS
<1>5. At("cycles") /\ Conclude("cycles", r)
  BY <1>3, <1>4 DEF Cycles, Run, OverWalk, Pick
<1>6. Range(Items(out, places)) = {out[i] : i \in places}
  BY <1>1, <1>2, <1>3, ItemsFacts
<1>7. ASSUME PathsDiffer(out), NEW e \in Range(out), e.rec.dir
      PROVE  /\ e.rec.lba \in Range(e.up) => CyclesBack(out, e)
             /\ NoSeparator(out) /\ CyclesBack(out, e) => e.rec.lba \in Range(e.up)
  <2>1. Leads(out, e)
    BY <1>1, <1>7, AllLead
  <2> QED BY <1>7, <2>1 DEF Leads, CyclesBack
<1>8. CyclesFound(out, Items(out, places))
  <2>1. SUFFICES ASSUME PathsDiffer(out)
                 PROVE  /\ InsideItself(out) \subseteq {out[i] : i \in places}
                        /\ NoSeparator(out) => {out[i] : i \in places} = InsideItself(out)
    BY <1>6 DEF CyclesFound
  <2>2. \A e : CyclesBack(out, e) => e.rec.dir
    BY DEF CyclesBack
  <2>3. {out[i] : i \in places} = {e \in Range(out) : CyclesBack(out, e)}
    BY <1>1, <1>3 DEF Range
  <2> QED BY <1>7, <2>1, <2>2, <2>3 DEF InsideItself
<1>9. Settled("cycles", Items(out, places))
  BY <1>1, <1>2, <1>8 DEF Settled
<1>10. places \subseteq DOMAIN active.out
  BY <1>3
<1>11. Good("cycles", r)
  BY <1>1, <1>4, <1>9, <1>10, ListGood
<1> QED BY <1>5, <1>11 DEF Audited

--------------------------------------------------------------------------------
(* What stays true of the report when sectors are lost.                     *)

RootPart2 == \A x : x = image.root => walk = WalkFrom(x)

LEMMA RootPart2Holds == RootPart2
BY DEF RootPart2, walk

LEMMA ActiveStable ==
  ASSUME Worse, IsImage(image)
  PROVE  \A v, w : v = walk' /\ w = walk => Trails(v, w)
<1> SUFFICES ASSUME NEW v, NEW w, v = walk', w = walk
             PROVE  Trails(v, w)
  OBVIOUS
<1>1. PICK x : x = image.root
  OBVIOUS
<1>2. IsExtent(x) /\ x = image'.root
  BY <1>1 DEF IsImage, Worse
<1>3. RootPart2 /\ RootPart2'
  BY RootPart2Holds, PTL
<1>4. w = WalkFrom(x)
  BY <1>1, <1>3 DEF RootPart2
<1>5. v = WalkFrom(x)'
  BY <1>2, <1>3 DEF RootPart2
<1> QED BY <1>2, <1>4, <1>5, WalkStable

LEMMA LostStable ==
  ASSUME Worse, IsImage(image), NEW out, NEW hits, LostFound(out, hits)
  PROVE  LostFound(out, hits)'
<1>1. Phantoms(out)' = Phantoms(out)
  BY DEF Worse, Phantoms, TableLbas, TreeLbas, DirLbas, parse_table
<1>2. \A p : OwnSize(p)' = OwnSize(p)
  BY DEF Worse, OwnSize, Slots
<1>3. ASSUME NEW p \in Phantoms(out), NEW n, n = OwnSize(p)
      PROVE  /\ p \in Nat /\ n \in Nat
             /\ n <= SECTOR \/ Sized(p)' =>
                  \A r \in Range(read_dir(p, n)'.recs) : ~r.dir => <<p, r>> \in Range(hits)
  <2>1. /\ p \in Nat /\ n \in Nat
        /\ n <= SECTOR \/ Sized(p) =>
             \A r \in Range(read_dir(p, n).recs) : ~r.dir => <<p, r>> \in Range(hits)
    BY <1>3 DEF LostFound
  <2>2. PICK a, b : a = read_dir(p, n) /\ b = read_dir(p, n)'
    OBVIOUS
  <2>3. Range(b.recs) \subseteq Range(a.recs)
    BY <2>1, <2>2, ReadDirStable, EmptyList DEF Failed
  <2>4. PICK c, d : c = read_dir(p, SECTOR) /\ d = read_dir(p, SECTOR)'
    OBVIOUS
  <2>5. d = c \/ d = Failed("io")
    BY <2>1, <2>4, SectorAssumption, ReadDirStable
  <2>6. Sized(p)' => Sized(p)
    BY <1>2, <2>4, <2>5 DEF Sized, Failed
  <2> QED BY <2>1, <2>2, <2>3, <2>6
<1> QED BY <1>1, <1>2, <1>3 DEF LostFound

(* Once a descriptor or a root of the chain has failed, it fails for good.   *)
LEMMA ChainStable ==
  ASSUME Worse, NEW s, IsSession(s), read_volume_descriptors(s)' = "ok"
  PROVE  read_volume_descriptors(s) = "ok"
<1>1. PICK c : c = s.chain
  OBVIOUS
<1>2. IsList(c)
  BY <1>1 DEF IsSession
<1>3. PICK a : a = [k \in DOMAIN c |-> DescriptorTag(s, k)]
  OBVIOUS
<1>4. PICK b : b = [k \in DOMAIN c |-> DescriptorTag(s, k)']
  OBVIOUS
<1>5. /\ a = [k \in DOMAIN c |-> a[k]] /\ \A k \in DOMAIN c : a[k] = DescriptorTag(s, k)
      /\ b = [k \in DOMAIN c |-> b[k]] /\ \A k \in DOMAIN c : b[k] = DescriptorTag(s, k)'
  BY <1>3, <1>4
<1>6. IsList(a) /\ IsList(b) /\ DOMAIN a = DOMAIN c /\ DOMAIN b = DOMAIN c
  BY <1>2, <1>5, MappedList
<1>7. FirstFailure(b) = "ok"
  BY <1>1, <1>4 DEF read_volume_descriptors, FirstFailure
<1>8. \A k \in DOMAIN c : DescriptorTag(s, k)' = "ok"
  BY <1>5, <1>6, <1>7, FirstFailureFacts
<1>9. \A l : ReadTag(l)' = "ok" => ReadTag(l) = "ok"
  BY ReadTagStable
<1>10. \A r : HasRockRidge(r)' => HasRockRidge(r)
  BY <1>9 DEF HasRockRidge, Slots, Worse
<1>11. Probed(c) \subseteq Probed(c)'
  BY <1>10 DEF Probed
<1>12. ASSUME NEW k \in DOMAIN c PROVE DescriptorTag(s, k) = "ok"
  <2>1. PICK l : l = s.pvd + k - 1
    OBVIOUS
  <2>2. ReadTag(l)' = "ok" /\ c[k].kind # "bad"
    BY <1>1, <1>8, <2>1 DEF DescriptorTag
  <2>3. k \in Probed(c)' => ReadTag(c[k].root.lba)' = "ok"
    BY <1>1, <1>8, <2>1, <2>2 DEF DescriptorTag
  <2> QED BY <1>1, <1>9, <1>11, <2>1, <2>2, <2>3 DEF DescriptorTag
<1>13. FirstFailure(a) = "ok"
  BY <1>5, <1>6, <1>12, FirstFailureFacts
<1> QED BY <1>1, <1>3, <1>13 DEF read_volume_descriptors

SessionPart ==
  \A s : /\ read_volume_descriptors(s) = "ok" => walk_session(s) = WalkFrom(root_of(s))
         /\ \A tag : tag = read_volume_descriptors(s) /\ tag # "ok" =>
              walk_session(s).tag = tag /\ walk_session(s).out = <<>>

LEMMA SessionPartHolds == SessionPart
BY SessionWalk DEF SessionPart

LEMMA OldStable ==
  ASSUME Worse, IsImage(image), NEW out, NEW hits, OldFound(out, hits)
  PROVE  OldFound(out, hits)'
<1>1. SessionPart /\ SessionPart'
  BY SessionPartHolds, PTL
<1>2. ASSUME NEW i \in DOMAIN image.older, NEW s, s = image.older[i],
             NEW e \in Range(walk_session(s)'.out)
      PROVE  e \in Range(walk_session(s).out)
  <2>1. PICK x : x = root_of(s)
    OBVIOUS
  <2>2. IsSession(s) /\ IsExtent(x)
    <3>1. IsSession(s)
      BY <1>2 DEF IsImage, Range
    <3> QED BY <2>1, <3>1, SessionRoot
  <2>3. PICK v, w : v = WalkFrom(x)' /\ w = WalkFrom(x)
    OBVIOUS
  <2>4. Range(v.out) \subseteq Range(w.out)
    BY <2>2, <2>3, WalkStable DEF Trails
  <2>5. PICK t : t = read_volume_descriptors(s)'
    OBVIOUS
  <2>6. CASE t = "ok"
    <3>1. walk_session(s)' = v
      BY <1>1, <2>1, <2>3, <2>5, <2>6 DEF SessionPart
    <3>2. read_volume_descriptors(s) = "ok"
      BY <2>2, <2>5, <2>6, ChainStable
    <3>3. walk_session(s) = w
      BY <1>1, <2>1, <2>3, <3>2 DEF SessionPart
    <3> QED BY <1>2, <2>4, <3>1, <3>3
  <2>7. CASE t # "ok"
    <3>1. walk_session(s)'.out = <<>>
      BY <1>1, <2>5, <2>7 DEF SessionPart
    <3> QED BY <1>2, <3>1, EmptyList
  <2> QED BY <2>6, <2>7
<1>3. image' = image
  BY DEF Worse
<1> QED BY <1>2, <1>3 DEF OldFound, FileLbas, IsFile

LEMMA SettledStable ==
  ASSUME Worse, IsImage(image), NEW name, NEW hits, Settled(name, hits)
  PROVE  Settled(name, hits)'
<1>1. SUFFICES ASSUME NEW out, walk'.tag = "ok", out = walk'.out
               PROVE  /\ name = "cycles" => CyclesFound(out, hits)'
                      /\ name = "lost" => LostFound(out, hits)'
                      /\ name = "superseded" => OldFound(out, hits)'
                      /\ name = "bounds" => BoundsFound(out, hits)'
  BY DEF Settled
<1>2. PICK v, w : v = walk' /\ w = walk
  OBVIOUS
<1>3. v = w
  BY <1>1, <1>2, ActiveStable DEF Trails
<1>4. walk.tag = "ok" /\ out = walk.out
  BY <1>1, <1>2, <1>3
<1>5. /\ name = "cycles" => CyclesFound(out, hits)
      /\ name = "lost" => LostFound(out, hits)
      /\ name = "superseded" => OldFound(out, hits)
      /\ name = "bounds" => BoundsFound(out, hits)
  BY <1>4 DEF Settled
<1>6. CyclesFound(out, hits)' <=> CyclesFound(out, hits)
  BY DEF CyclesFound, PathsDiffer, NoSeparator, InsideItself
<1>7. BoundsFound(out, hits) => BoundsFound(out, hits)'
  BY DEF BoundsFound, OutOfBounds, Worse, SectorsOf
<1> QED BY <1>5, <1>6, <1>7, LostStable, OldStable

--------------------------------------------------------------------------------
(* What stays true of an analysis whose device has not changed.             *)

Unchanged == Steady /\ trees' = trees

WalksPart ==
  \A i, r, j, o : /\ i = image /\ r = walk
                  /\ j = (IF image.joliet = None THEN None ELSE walk_joliet)
                  /\ o = [k \in DOMAIN i.older |-> walk_session(i.older[k])]
    => Walks = [active |-> r, joliet |-> j, older |-> o]

JolietPart == \A x : x = image.joliet => walk_joliet = WalkFrom(x)

LEMMA WalksPartHolds == WalksPart
BY DEF WalksPart, Walks

LEMMA JolietPartHolds == JolietPart
BY DEF JolietPart, walk_joliet

LEMMA ChainSame ==
  ASSUME Steady
  PROVE  \A s : read_volume_descriptors(s)' = read_volume_descriptors(s)
<1> TAKE s
<1>1. \A l : ReadTag(l)' = ReadTag(l)
  BY DEF Steady, ReadTag
<1>2. \A r : HasRockRidge(r)' <=> HasRockRidge(r)
  BY <1>1 DEF HasRockRidge, Slots, Steady
<1>3. \A c : Probed(c)' = Probed(c)
  BY <1>2 DEF Probed
<1>4. \A k : DescriptorTag(s, k)' = DescriptorTag(s, k)
  BY <1>1, <1>3 DEF DescriptorTag
<1> QED BY <1>4 DEF read_volume_descriptors, FirstFailure

LEMMA WalksSame ==
  ASSUME Steady, IsImage(image)
  PROVE  Walks' = Walks
<1>1. /\ WalksPart /\ WalksPart' /\ JolietPart /\ JolietPart' /\ RootPart2 /\ RootPart2'
  BY WalksPartHolds, JolietPartHolds, RootPart2Holds, PTL
<1>2. PICK i : i = image
  OBVIOUS
<1>3. i = image'
  BY <1>2 DEF Steady
<1>4. PICK r : r = walk
  OBVIOUS
<1>5. r = walk'
  <2>1. PICK x : x = i.root
    OBVIOUS
  <2>2. IsExtent(x)
    BY <1>2, <2>1 DEF IsImage
  <2>3. r = WalkFrom(x)
    BY <1>1, <1>2, <1>4, <2>1 DEF RootPart2
  <2>4. walk' = WalkFrom(x)'
    BY <1>1, <1>3, <2>1 DEF RootPart2
  <2> QED BY <2>2, <2>3, <2>4, WalkSame
<1>6. PICK j : j = (IF i.joliet = None THEN None ELSE walk_joliet)
  OBVIOUS
<1>7. j = (IF i.joliet = None THEN None ELSE walk_joliet')
  <2>1. CASE i.joliet = None
    BY <1>6, <2>1
  <2>2. CASE i.joliet # None
    <3>1. PICK x : x = i.joliet
      OBVIOUS
    <3>2. IsExtent(x)
      BY <1>2, <2>2, <3>1 DEF IsImage
    <3>3. walk_joliet = WalkFrom(x)
      BY <1>1, <1>2, <3>1 DEF JolietPart
    <3>4. walk_joliet' = WalkFrom(x)'
      BY <1>1, <1>3, <3>1 DEF JolietPart
    <3> QED BY <1>6, <2>2, <3>2, <3>3, <3>4, WalkSame
  <2> QED BY <2>1, <2>2
<1>8. PICK o : o = [k \in DOMAIN i.older |-> walk_session(i.older[k])]
  OBVIOUS
<1>9. o = [k \in DOMAIN i.older |-> walk_session(i.older[k])']
  <2>1. ASSUME NEW k \in DOMAIN i.older
        PROVE  walk_session(i.older[k])' = walk_session(i.older[k])
    <3>1. PICK s, x : s = i.older[k] /\ x = root_of(s)
      OBVIOUS
    <3>2. IsSession(s) /\ IsExtent(x)
      <4>1. IsSession(s)
        BY <1>2, <3>1 DEF IsImage, Range
      <4> QED BY <3>1, <4>1, SessionRoot
    <3>3. WalkFrom(x)' = WalkFrom(x)
      BY <3>2, WalkSame
    <3>4. walk_session(s)' = walk_session(s)
      BY <3>1, <3>3, ChainSame DEF walk_session, WalkedAfter
    <3> QED BY <3>1, <3>4
  <2> QED BY <1>8, <2>1
<1>10. Walks = [active |-> r, joliet |-> j, older |-> o]
  BY <1>1, <1>2, <1>4, <1>6, <1>8 DEF WalksPart
<1>11. Walks' = [active |-> r, joliet |-> j, older |-> o]
  BY <1>1, <1>3, <1>5, <1>7, <1>9 DEF WalksPart
<1> QED BY <1>10, <1>11

LEMMA ReadySame ==
  ASSUME Ready, Unchanged
  PROVE  Ready'
<1>1. Walks' = Walks
  BY WalksSame DEF Ready, Unchanged
<1>2. IsImage(image)'
  BY DEF Ready, Unchanged, Steady
<1> QED BY <1>1, <1>2 DEF Ready, Unchanged

LEMMA AreasSame ==
  ASSUME Worse
  PROVE  \A x : AreasPastEnd(x)' = AreasPastEnd(x)
<1> TAKE x
<1>1. \A l : Used(l, SECTOR)' = Used(l, SECTOR)
  BY UsedStable
<1>2. RecordsIn(x)' = RecordsIn(x)
  BY <1>1 DEF RecordsIn, Worse, SectorsOf
<1>3. \A a : Trimmed(a)' = Trimmed(a)
  BY DEF Worse, Trimmed
<1>4. \A a : AreaRead(a)' = AreaRead(a)
  BY DEF AreaRead
<1>5. PICK recs : recs = RecordsIn(x)
  OBVIOUS
<1>6. PICK areas : areas = [r \in recs |-> AreaRead(Trimmed(r.su))]
  OBVIOUS
<1>7. AreasPastEnd(x) = {l \in UNION {areas[r] : r \in {s \in recs : s.kind = "rec"}} : l >= image.end}
  BY <1>5, <1>6 DEF AreasPastEnd
<1>8. \A r \in recs : areas[r] = AreaRead(Trimmed(r.su))'
  <2> TAKE r \in recs
  <2>1. PICK t : t = Trimmed(r.su)
    OBVIOUS
  <2>2. t = Trimmed(r.su)'
    BY <1>3, <2>1
  <2> QED BY <1>6, <2>1, <2>2 DEF AreaRead
<1>9. AreasPastEnd(x)' = {l \in UNION {areas[r] : r \in {s \in recs : s.kind = "rec"}} : l >= image'.end}
  BY <1>2, <1>5, <1>8 DEF AreasPastEnd
<1> QED BY <1>7, <1>9 DEF Worse

(* What every analysis reads, but the directories.                          *)
NamedSectors ==
  (0 .. SYSTEM_AREA) \union {image.pvd} \union (UNION {ChainSectors(s) : s \in Range(image.older)})
    \union (IF image.catalog = None THEN {} ELSE {image.catalog})
    \union TableRun(image.l_table) \union TableRun(image.m_table)
    \union (image.space .. image.len - 1)

MandatoryPart ==
  \A l : l \in Mandatory <=> \/ l \in NamedSectors
                             \/ \E x \in Roots \cup PhantomExtents : l \in Reach(x)

LEMMA MandatoryPartHolds == MandatoryPart
BY DEF MandatoryPart, Mandatory, NamedSectors

LEMMA PhantomsSame ==
  ASSUME Ready, Unchanged
  PROVE  PhantomExtents' = PhantomExtents
<1>1. PICK P : P = Phantoms(active.out)
  OBVIOUS
<1>2. P = Phantoms(active.out)'
  BY <1>1 DEF Unchanged, Steady, active, Phantoms, TableLbas, TreeLbas, DirLbas, parse_table
<1>3. PICK f : f = [p \in P |-> read_dir(p, SECTOR)]
  OBVIOUS
<1>4. \A p \in P : read_dir(p, SECTOR)' = f[p]
  BY <1>3, ReadDirSame, SectorAssumption DEF Unchanged
<1>5. PhantomExtents =
      {[lba |-> l, size |-> n] : l \in P,
         n \in {SECTOR} \union {r.size : r \in UNION {Range(f[p].recs) : p \in P}}}
  BY <1>1, <1>3 DEF PhantomExtents
<1>6. PhantomExtents' =
      {[lba |-> l, size |-> n] : l \in P,
         n \in {SECTOR} \union {r.size : r \in UNION {Range(f[p].recs) : p \in P}}}
  BY <1>2, <1>4 DEF PhantomExtents
<1> QED BY <1>5, <1>6

LEMMA CutOffSame ==
  ASSUME Ready, Unchanged, CutOff
  PROVE  CutOff'
<1>1. PICK l \in Mandatory : l >= image.end
  BY DEF CutOff
<1>2. MandatoryPart /\ MandatoryPart'
  BY MandatoryPartHolds, PTL
<1>3. Worse
  BY DEF Unchanged, Steady, Worse
<1>4. CASE l \in NamedSectors
  <2>1. NamedSectors' = NamedSectors
    BY DEF NamedSectors, ChainSectors, TableRun, Unchanged, Steady
  <2>2. l \in Mandatory'
    BY <1>2, <1>4, <2>1 DEF MandatoryPart
  <2> QED BY <1>1, <2>2 DEF CutOff, Unchanged, Steady
<1>5. CASE \E x \in Roots \cup PhantomExtents : l \in Reach(x)
  <2>1. PICK x \in Roots \cup PhantomExtents : l \in Reach(x)
    BY <1>5
  <2>2. x \in Roots' \cup PhantomExtents'
    <3>1. Roots' = Roots
      BY DEF Roots, Unchanged, Steady
    <3> QED BY <2>1, <3>1, PhantomsSame
  <2>3. l \in Reach(x)'
    <3>1. Reach(x)' = Reach(x)
      <4>1. AreasPastEnd(x)' = AreasPastEnd(x)
        BY <1>3, AreasSame
      <4> QED BY <4>1 DEF Reach, SectorsOf
    <3> QED BY <2>1, <3>1
  <2>4. l \in Mandatory'
    BY <1>2, <2>2, <2>3 DEF MandatoryPart
  <2> QED BY <1>1, <2>4 DEF CutOff, Unchanged, Steady
<1> QED BY <1>1, <1>2, <1>4, <1>5 DEF MandatoryPart

--------------------------------------------------------------------------------
(* The order of the audits.                                                 *)

LEMMA OrderLength == Len(Order) = 22 /\ DOMAIN Order = 1 .. 22
BY DEF Order

(* No audit is run twice.                                                   *)
LEMMA OrderDistinct ==
  ASSUME NEW i \in 1 .. Len(Order), NEW j \in 1 .. Len(Order), Order[i] = Order[j]
  PROVE  i = j
BY OrderLength, SMTT(60) DEF Order

LEMMA OrderNames ==
  /\ \A i \in 1 .. Len(Order) : Order[i] \in Range(Order) /\ Order[i] \notin Calls
  /\ Order[18] = "bounds" /\ Order[7] = "lost" /\ Order[15] = "cycles"
  /\ Order[17] = "superseded" /\ Order[3] = "endian" /\ Order[4] = "slack"
<1>1. \A i \in 1 .. Len(Order) : Order[i] \in Range(Order)
  BY OrderLength DEF Range
<1>2. \A i \in 1 .. Len(Order) : Order[i] \notin Calls
  BY OrderLength, SMTT(60) DEF Order, Calls
<1>3. /\ Order[18] = "bounds" /\ Order[7] = "lost" /\ Order[15] = "cycles"
      /\ Order[17] = "superseded" /\ Order[3] = "endian" /\ Order[4] = "slack"
  BY DEF Order
<1> QED BY <1>1, <1>2, <1>3

LEMMA SectionsRun == Range(Sections) \subseteq Range(Order)
<1>1. Range(Order) = {Order[i] : i \in 1 .. 22}
  BY OrderLength, Zenon DEF Range
<1>2. Range(Order) =
        {"boot", "identity", "endian", "slack", "presystem", "symlinks", "lost",
         "pathtable", "ptendian", "reserved", "names", "versions", "rrtime", "disguised",
         "cycles", "overlaps", "superseded", "bounds", "times", "trees", "trailing",
         "sectors"}
  BY <1>1, SMTT(30) DEF Order
<1> QED BY <1>2, SectionsAre

--------------------------------------------------------------------------------
(* The invariant: where the analysis is, and what holds of what it found.   *)

Placed ==
  /\ image \in Images
  /\ bad \subseteq 0 .. image.end - 1
  /\ step \in 1 .. 23
  /\ status \in {"running", "ok", "served", "refused"} \cup Errors
  /\ trees \in {None, Walks}
  /\ status \notin {"running", "ok"} => trees # None

Answered ==
  /\ DOMAIN found = Range(Order) \cup Calls
  /\ found = [s \in DOMAIN found |-> found[s]]
  /\ \A i \in step .. 22 : found[Order[i]] = <<>>
  /\ \A s \in Range(Sections) : IsList(found[s])
  /\ status \in {"running", "ok"} => found["gaps"] = <<>>

AllSettled == \A i \in 1 .. step - 1 : Settled(Order[i], found[Order[i]])

EofCutOff == status = "eof" => CutOff

Reporting ==
  /\ \A i \in DOMAIN report : report[i][1] \in Range(Sections)
  /\ status \in {"ok", "served", "refused"} =>
       step = 23 /\ \A s \in Range(Sections) : Reports(s) = Range(found[s])

AnalysisInv == Placed /\ Answered /\ AllSettled /\ EofCutOff /\ Reporting

LEMMA PlacedReady ==
  ASSUME Placed
  PROVE  IsImage(image) /\ (trees # None => Ready)
BY ImagesAssumption DEF Placed, Ready

(* How an audit ends.                                                       *)
LEMMA AuditCases ==
  ASSUME Placed, NEW name, At(name), NEW r, Good(name, r), Conclude(name, r)
  PROVE  /\ step \in 1 .. 22 /\ Order[step] = name /\ status = "running" /\ Ready
         /\ \/ /\ r.tag = "ok" /\ step' = step + 1 /\ status' = "running"
               /\ found' = [found EXCEPT ![name] = r.hits]
            \/ r.tag \in Errors /\ status' = r.tag /\ step' = step /\ found' = found
<1>1. step \in 1 .. 22 /\ Order[step] = name /\ status = "running" /\ Ready
  BY PlacedReady, OrderLength DEF Placed, At, Running
<1>2. r.tag \in {"ok"} \cup Errors
  BY DEF Good
<1> QED BY <1>1, <1>2 DEF Conclude

LEMMA AuditPlaced ==
  ASSUME AnalysisInv, NEW name, Audited(name), Unchanged
  PROVE  Placed' /\ Answered'
<1>1. PICK r : Good(name, r) /\ Conclude(name, r) /\ At(name)
  BY DEF Audited
<1>2. /\ step \in 1 .. 22 /\ Order[step] = name /\ status = "running" /\ Ready
      /\ \/ /\ r.tag = "ok" /\ step' = step + 1 /\ status' = "running"
            /\ found' = [found EXCEPT ![name] = r.hits]
         \/ r.tag \in Errors /\ status' = r.tag /\ step' = step /\ found' = found
  BY <1>1, AuditCases DEF AnalysisInv
<1>3. Placed'
  <2>1. image' = image /\ bad' = bad /\ trees' = trees
    BY DEF Unchanged, Steady
  <2>2. Ready' /\ trees # None
    BY <1>1, <1>2, ReadySame DEF At
  <2>3. trees' \in {None, Walks}'
    BY <2>2 DEF Ready
  <2>4. step' \in 1 .. 23 /\ status' \in {"running", "ok", "served", "refused"} \cup Errors
    BY <1>2
  <2> QED BY <2>1, <2>2, <2>3, <2>4 DEF Placed, AnalysisInv
<1>4. Answered'
  <2>1. CASE r.tag \in Errors /\ status' = r.tag /\ step' = step /\ found' = found
    BY <1>2, <2>1 DEF AnalysisInv, Answered
  <2>2. CASE /\ r.tag = "ok" /\ step' = step + 1 /\ status' = "running"
             /\ found' = [found EXCEPT ![name] = r.hits]
    <3>1. DOMAIN found = Range(Order) \cup Calls /\ DOMAIN found' = DOMAIN found
      BY <2>2 DEF AnalysisInv, Answered
    <3>2. name \in Range(Order) /\ name \notin Calls
      BY <1>2, OrderNames, OrderLength
    <3>2a. found' = [s \in DOMAIN found' |-> found'[s]]
      BY <2>2, <3>1
    <3>3. ASSUME NEW i \in step' .. 22 PROVE found'[Order[i]] = <<>>
      <4>1. i \in step .. 22 /\ i # step /\ i \in 1 .. 22
        BY <1>2, <2>2, <3>3
      <4>2. Order[i] # name
        BY <1>2, <4>1, OrderDistinct, OrderLength
      <4> QED BY <2>2, <4>1, <4>2 DEF AnalysisInv, Answered
    <3>4. ASSUME NEW s \in Range(Sections) PROVE IsList(found'[s])
      <4>1. s \in DOMAIN found
        BY <3>1, <3>4, SectionsRun
      <4>2. CASE s = name
        BY <1>1, <2>2, <3>4, <4>1, <4>2 DEF Good
      <4>3. CASE s # name
        BY <2>2, <3>4, <4>1, <4>3 DEF AnalysisInv, Answered
      <4> QED BY <4>2, <4>3
    <3>5. found'["gaps"] = <<>>
      <4>1. "gaps" \in Calls /\ found["gaps"] = <<>>
        BY <1>2 DEF Calls, AnalysisInv, Answered
      <4> QED BY <2>2, <3>1, <3>2, <4>1
    <3> QED BY <3>1, <3>2a, <3>3, <3>4, <3>5 DEF Answered
  <2> QED BY <1>2, <2>1, <2>2
<1> QED BY <1>3, <1>4

LEMMA SameWorse == ASSUME Unchanged PROVE Worse
BY DEF Unchanged, Steady, Worse

LEMMA AuditSettled ==
  ASSUME AnalysisInv, NEW name, Audited(name), Unchanged
  PROVE  AllSettled'
<1>1. PICK r : Good(name, r) /\ Conclude(name, r) /\ At(name)
  BY DEF Audited
<1>2. /\ step \in 1 .. 22 /\ Order[step] = name /\ status = "running" /\ Ready
      /\ \/ /\ r.tag = "ok" /\ step' = step + 1 /\ status' = "running"
            /\ found' = [found EXCEPT ![name] = r.hits]
         \/ r.tag \in Errors /\ status' = r.tag /\ step' = step /\ found' = found
  BY <1>1, AuditCases DEF AnalysisInv
<1>3. SUFFICES ASSUME NEW i \in 1 .. step' - 1, NEW a, a = Order[i], NEW hits, hits = found'[a]
               PROVE  Settled(a, hits)'
  BY DEF AllSettled
<1>4. Settled(a, hits)
  <2>1. CASE i = step /\ r.tag = "ok"
    <3>1. a = name /\ hits = r.hits
      <4>1. name \in DOMAIN found
        BY <1>2, OrderNames, OrderLength DEF AnalysisInv, Answered
      <4> QED BY <1>2, <1>3, <2>1, <4>1 DEF Errors
    <3> QED BY <1>1, <2>1, <3>1 DEF Good
  <2>2. CASE i # step
    <3>1. i \in 1 .. step - 1 /\ i \in 1 .. 22
      BY <1>2, <1>3, <2>2
    <3>2. a # name
      BY <1>2, <1>3, <2>2, <3>1, OrderDistinct, OrderLength
    <3>3. a \in DOMAIN found
      BY <1>3, <3>1, OrderNames, OrderLength DEF AnalysisInv, Answered
    <3>3a. hits = found[a]
      BY <1>2, <1>3, <3>2, <3>3
    <3> QED BY <1>3, <3>1, <3>3a DEF AnalysisInv, AllSettled
  <2>3. r.tag # "ok" => i # step
    BY <1>2, <1>3 DEF Errors
  <2> QED BY <2>1, <2>2, <2>3
<1> QED BY <1>2, <1>4, SettledStable, SameWorse DEF Ready

LEMMA AuditReports ==
  ASSUME AnalysisInv, NEW name, Audited(name), Unchanged, report' = report
  PROVE  EofCutOff' /\ Reporting'
<1>1. PICK r : Good(name, r) /\ Conclude(name, r) /\ At(name)
  BY DEF Audited
<1>2. /\ step \in 1 .. 22 /\ Order[step] = name /\ status = "running" /\ Ready
      /\ \/ /\ r.tag = "ok" /\ step' = step + 1 /\ status' = "running"
            /\ found' = [found EXCEPT ![name] = r.hits]
         \/ r.tag \in Errors /\ status' = r.tag /\ step' = step /\ found' = found
  BY <1>1, AuditCases DEF AnalysisInv
<1>3. EofCutOff'
  <2>1. status' = "eof" => CutOff
    BY <1>1, <1>2 DEF Good
  <2> QED BY <1>2, <2>1, CutOffSame DEF EofCutOff
<1>4. status' \notin {"ok", "served", "refused"}
  BY <1>2 DEF Errors
<1>5. Reporting'
  BY <1>4 DEF Reporting, AnalysisInv
<1> QED BY <1>3, <1>5

LEMMA AuditInv ==
  ASSUME AnalysisInv, NEW name, Audited(name), UNCHANGED <<image, bad, trees, report>>
  PROVE  AnalysisInv'
<1>1. Unchanged /\ report' = report
  BY DEF Unchanged, Steady
<1> QED BY <1>1, AuditPlaced, AuditSettled, AuditReports DEF AnalysisInv

--------------------------------------------------------------------------------
(* The steps that are no audit.                                             *)

LEMMA InitInv == Init => AnalysisInv
<1> SUFFICES ASSUME Init PROVE AnalysisInv
  OBVIOUS
<1>1. Placed
  BY OrderLength DEF Init, Placed
<1>2. Answered
  <2>1. found = [s \in Range(Order) \cup Calls |-> <<>>]
    BY DEF Init
  <2>2. \A i \in 1 .. 22 : Order[i] \in Range(Order)
    BY OrderNames, OrderLength
  <2>3. step = 1 /\ "gaps" \in Calls
    BY DEF Init, Calls
  <2> QED BY <2>1, <2>2, <2>3, SectionsRun, EmptyList DEF Answered
<1>3. AllSettled
  BY DEF Init, AllSettled
<1>4. EofCutOff /\ Reporting
  BY EmptyList DEF Init, EofCutOff, Reporting
<1> QED BY <1>1, <1>2, <1>3, <1>4 DEF AnalysisInv

LEMMA SettledLater ==
  ASSUME AnalysisInv, Worse, step' = step, \A s \in Range(Order) : found'[s] = found[s]
  PROVE  AllSettled'
<1>1. SUFFICES ASSUME NEW i \in 1 .. step - 1, NEW a, a = Order[i], NEW hits, hits = found'[a]
               PROVE  Settled(a, hits)'
  BY DEF AllSettled
<1>2. i \in 1 .. 22
  BY <1>1 DEF AnalysisInv, Placed
<1>3. hits = found[a]
  BY <1>1, <1>2, OrderNames, OrderLength
<1>4. Settled(a, hits)
  BY <1>1, <1>3 DEF AnalysisInv, AllSettled
<1>5. IsImage(image)
  BY PlacedReady DEF AnalysisInv
<1> QED BY <1>4, <1>5, SettledStable

LEMMA DecayInv ==
  ASSUME AnalysisInv, Decay
  PROVE  AnalysisInv'
<1>1. PICK l \in 0 .. image.end - 1 : bad' = bad \cup {l}
  BY DEF Decay
<1>2. /\ image' = image /\ step' = step /\ status' = status /\ found' = found
      /\ report' = report /\ trees' = None /\ status \in {"running", "ok"}
  BY DEF Decay
<1>3. Placed'
  BY <1>1, <1>2 DEF AnalysisInv, Placed
<1>4. Answered'
  BY <1>2 DEF AnalysisInv, Answered
<1>5. Worse
  BY <1>1, <1>2 DEF Worse
<1>6. AllSettled'
  BY <1>2, <1>5, SettledLater
<1>7. EofCutOff'
  BY <1>2 DEF EofCutOff
<1>8. Reporting'
  BY <1>2 DEF AnalysisInv, Reporting, Reports
<1> QED BY <1>3, <1>4, <1>6, <1>7, <1>8 DEF AnalysisInv

LEMMA SettleInv ==
  ASSUME AnalysisInv, Settle
  PROVE  AnalysisInv'
<1>1. /\ image' = image /\ bad' = bad /\ step' = step /\ status' = status /\ found' = found
      /\ report' = report /\ trees = None /\ trees' = Walks
  BY DEF Settle
<1>2. status \in {"running", "ok"}
  BY <1>1 DEF AnalysisInv, Placed
<1>3. Walks' = Walks
  <2>1. IsImage(image)
    BY PlacedReady DEF AnalysisInv
  <2> QED BY <1>1, <2>1, WalksSame DEF Steady
<1>4. Placed'
  BY <1>1, <1>2, <1>3 DEF AnalysisInv, Placed
<1>5. Answered'
  BY <1>1 DEF AnalysisInv, Answered
<1>6. AllSettled'
  BY <1>1, SettledLater DEF Worse
<1>7. EofCutOff'
  BY <1>1, <1>2 DEF EofCutOff
<1>8. Reporting'
  BY <1>1 DEF AnalysisInv, Reporting, Reports
<1> QED BY <1>4, <1>5, <1>6, <1>7, <1>8 DEF AnalysisInv

(* Nothing that the invariant is about changes.                             *)
LEMMA StillInv ==
  ASSUME AnalysisInv, UNCHANGED <<image, bad, trees, step, status, found, report>>
  PROVE  AnalysisInv'
<1>1. Unchanged
  BY DEF Unchanged, Steady
<1>2. Placed'
  <2>1. Walks' = Walks
    BY <1>1, PlacedReady, WalksSame DEF AnalysisInv, Unchanged
  <2> QED BY <2>1 DEF AnalysisInv, Placed
<1>3. Answered'
  BY DEF AnalysisInv, Answered
<1>4. AllSettled'
  BY <1>1, SameWorse, SettledLater
<1>5. EofCutOff'
  <2>1. CASE status = "eof"
    <3>1. CutOff /\ Ready
      BY <2>1, PlacedReady DEF AnalysisInv, Placed, EofCutOff
    <3> QED BY <1>1, <3>1, CutOffSame DEF EofCutOff
  <2>2. CASE status # "eof"
    BY <2>2 DEF EofCutOff
  <2> QED BY <2>1, <2>2
<1>6. Reporting'
  BY DEF AnalysisInv, Reporting, Reports
<1> QED BY <1>2, <1>3, <1>4, <1>5, <1>6 DEF AnalysisInv

LEMMA StartSweepInv ==
  ASSUME AnalysisInv, StartSweep
  PROVE  AnalysisInv'
<1>1. At("overlaps") /\ UNCHANGED <<image, bad, trees, found, report>>
  BY DEF StartSweep
<1>2. Ready /\ step \in 1 .. 22 /\ Order[step] = "overlaps"
  BY <1>1, PlacedReady, OrderLength DEF AnalysisInv, Placed, At
<1>3. CASE active.tag # "ok"
  <2>1. PICK r : r = Err(active.tag)
    OBVIOUS
  <2>2. Conclude("overlaps", r)
    BY <1>1, <1>3, <2>1, OkErr DEF StartSweep, Conclude
  <2>3. IsWalk(active)
    BY <1>2, ActiveFacts
  <2>4. Good("overlaps", r)
    BY <1>3, <2>1, <2>3, ErrGood DEF IsWalk
  <2> QED BY <1>1, <2>2, <2>4, AuditInv DEF Audited
<1>4. CASE active.tag = "ok" /\ exts' = <<>>
  <2>1. PICK r : r = Ok(<<>>)
    OBVIOUS
  <2>2. found["overlaps"] = <<>> /\ "overlaps" \in DOMAIN found
    BY SMTT(40), <1>2, OrderNames, OrderLength DEF AnalysisInv, Answered
  <2>3. found' = [found EXCEPT !["overlaps"] = <<>>]
    BY <1>1, <2>2 DEF AnalysisInv, Answered
  <2>4. Conclude("overlaps", r)
    BY <1>1, <1>4, <2>1, <2>3, OkErr DEF StartSweep, Conclude
  <2>5. Good("overlaps", r)
    BY <2>1, EmptyList, OkGood, PlainSettled DEF Kept
  <2> QED BY <1>1, <2>4, <2>5, AuditInv DEF Audited
<1>5. CASE active.tag = "ok" /\ exts' # <<>>
  BY <1>1, <1>5, StillInv DEF StartSweep
<1> QED BY <1>3, <1>4, <1>5

LEMMA AssembleInv ==
  ASSUME AnalysisInv, Assemble
  PROVE  AnalysisInv'
<1>1. /\ UNCHANGED <<image, bad, trees, step, found>> /\ Ready
      /\ status = "running" /\ status' = "ok" /\ step = 23
  <2>1. trees # None /\ step = Len(Order) + 1
    BY Zenon DEF Assemble
  <2>2. Ready /\ step = 23
    BY <2>1, PlacedReady, OrderLength DEF AnalysisInv
  <2> QED BY Zenon, <2>2 DEF Assemble, Running
<1>2. Unchanged
  BY <1>1 DEF Unchanged, Steady
<1>3. Placed'
  <2>1. Walks' = Walks
    BY <1>1, <1>2, WalksSame DEF Ready, Unchanged
  <2> QED BY <1>1, <2>1 DEF AnalysisInv, Placed
<1>4. Answered'
  BY <1>1 DEF AnalysisInv, Answered
<1>5. AllSettled'
  BY <1>1, <1>2, SameWorse, SettledLater
<1>6. EofCutOff'
  BY <1>1 DEF EofCutOff
<1>7. Reporting'
  <2>1. DOMAIN Sections = 1 .. 20 /\ \A i \in 1 .. 20 : Sections[i] \in Range(Sections)
    BY DEF Sections, Range
  <2>2. PICK parts : parts = [i \in DOMAIN Sections |->
                       Each(found[Sections[i]], LAMBDA hit : <<Sections[i], hit>>)]
    BY Zenon
  <2>3. report' = FlattenSeq(parts)
    BY Zenon, <2>2 DEF Assemble
  <2>4. ASSUME NEW i \in 1 .. 20, NEW hits, hits = found[Sections[i]], NEW p, p = parts[i]
        PROVE  IsList(p) /\ Range(p) = {<<Sections[i], h>> : h \in Range(hits)}
    <3>1. IsList(hits)
      BY SMTT(40), <2>1, <2>4 DEF AnalysisInv, Answered
    <3>2. p = [k \in DOMAIN hits |-> <<Sections[i], hits[k]>>]
      BY <2>1, <2>2, <2>4 DEF Each
    <3>4. /\ p = [k \in DOMAIN hits |-> p[k]]
          /\ \A k \in DOMAIN hits : p[k] = <<Sections[i], hits[k]>>
      BY <3>2
    <3>3. IsList(p) /\ Range(p) = {p[k] : k \in DOMAIN hits}
      BY <3>1, <3>4, MappedList
    <3>5. Range(hits) = {hits[k] : k \in DOMAIN hits}
      BY DEF Range
    <3>6. Range(p) = {<<Sections[i], hits[k]>> : k \in DOMAIN hits}
      BY <3>3, <3>4
    <3> HIDE <2>4
    <3> QED BY <3>3, <3>5, <3>6
  <2>5. IsList(parts) /\ DOMAIN parts = 1 .. 20 /\ \A i \in DOMAIN parts : IsList(parts[i])
    <3>1. parts = [i \in 1 .. 20 |-> parts[i]]
      BY Zenon, <2>1, <2>2
    <3> QED BY <2>4, <3>1, FunctionIsList
  <2>6. Range(report') = UNION {Range(parts[i]) : i \in 1 .. 20}
    BY <2>3, <2>5, Flattened
  <2>7. \A s, h : <<s, h>> \in Range(report')
                    <=> \E i \in 1 .. 20 : s = Sections[i] /\ h \in Range(found[Sections[i]])
    BY <2>4, <2>6
  <2>8. \A x \in Range(report') : \E i \in 1 .. 20 : \E h : x = <<Sections[i], h>>
    BY <2>4, <2>6
  <2>9. \A i \in DOMAIN report' : report'[i] \in Range(report')
    BY DEF Range
  <2>10. \A i \in DOMAIN report' : report'[i][1] \in Range(Sections)
    BY <2>1, <2>8, <2>9
  <2>11. ASSUME NEW s \in Range(Sections) PROVE Reports(s)' = Range(found[s])
    <3>1. \A h : h \in Reports(s)' <=> \E x \in Range(report') : x[1] = s /\ x[2] = h
      BY DEF Reports, Range
    <3>2. \A h : h \in Reports(s)' <=> <<s, h>> \in Range(report')
      BY <2>8, <3>1
    <3>3. PICK i \in 1 .. 20 : s = Sections[i]
      BY <2>1, <2>11 DEF Range
    <3> QED BY <2>7, <3>2, <3>3
  <2> QED BY <1>1, <2>10, <2>11 DEF Reporting
<1> QED BY <1>3, <1>4, <1>5, <1>6, <1>7 DEF AnalysisInv

LEMMA ServeInv ==
  ASSUME AnalysisInv, NEW name \in Calls, NEW result, Serve(name, result)
  PROVE  AnalysisInv'
<1>1. /\ UNCHANGED <<image, bad, trees, step, report>> /\ trees # None /\ Ready
      /\ status = "ok" /\ status' \in {"served", "refused"}
      /\ found' = [found EXCEPT ![name] = result.hits]
  BY PlacedReady DEF AnalysisInv, Serve
<1>2. Unchanged
  BY <1>1 DEF Unchanged, Steady
<1>3. Placed'
  <2>1. Walks' = Walks
    BY <1>1, <1>2, WalksSame DEF Ready, Unchanged
  <2> QED BY <1>1, <2>1 DEF AnalysisInv, Placed
<1>4. name \in DOMAIN found /\ name \notin Range(Order)
  <2>1. name \notin Range(Order)
    BY OrderNames DEF Range
  <2> QED BY <2>1 DEF AnalysisInv, Answered
<1>5. \A s \in Range(Order) : found'[s] = found[s]
  BY <1>1, <1>4 DEF AnalysisInv, Answered
<1>6. Answered'
  <2>1. \A i \in step .. 22 : Order[i] \in Range(Order)
    BY OrderNames, OrderLength DEF AnalysisInv, Placed
  <2>2. status' \notin {"running", "ok"} /\ DOMAIN found' = DOMAIN found
        /\ found' = [s \in DOMAIN found' |-> found'[s]]
    BY <1>1, <1>4 DEF AnalysisInv, Answered
  <2> QED BY <1>1, <1>5, <2>1, <2>2, SectionsRun DEF AnalysisInv, Answered
<1>7. AllSettled'
  BY <1>1, <1>2, <1>5, SameWorse, SettledLater
<1>8. EofCutOff'
  BY <1>1 DEF EofCutOff
<1>9. Reporting'
  BY <1>1, <1>5, SectionsRun DEF AnalysisInv, Reporting, Reports
<1> QED BY <1>3, <1>6, <1>7, <1>8, <1>9 DEF AnalysisInv

--------------------------------------------------------------------------------
(* The extents swept, and the sweep as a part of the analysis.              *)

LEMMA BeforeOrder ==
  ASSUME NEW S, \A d \in S : d \in [start : Nat, end : Nat, path : Nat],
         NEW R, R = {p \in S \X S : Before(p[1], p[2])}
  PROVE  IsOrder(R, S) /\ \A d, e \in S : <<d, e>> \in R <=> Before(d, e)
<1>1. \A d, e \in S : <<d, e>> \in R <=> Before(d, e)
  OBVIOUS
<1>2. \A d \in S : Before(d, d)
  BY DEF Before
<1>3. \A d, e \in S : Before(d, e) \/ Before(e, d)
  BY DEF Before
<1>4. ASSUME NEW d \in S, NEW e \in S, Before(d, e), Before(e, d) PROVE d = e
  <2>1. d \in [start : Nat, end : Nat, path : Nat] /\ e \in [start : Nat, end : Nat, path : Nat]
    OBVIOUS
  <2>2. d.start = e.start /\ d.end = e.end /\ d.path = e.path
    BY <1>4, <2>1 DEF Before
  <2> QED BY <2>1, <2>2
<1>5. ASSUME NEW d \in S, NEW e \in S, NEW f \in S, Before(d, e), Before(e, f)
      PROVE  Before(d, f)
  <2>1. /\ d.start \in Nat /\ e.start \in Nat /\ f.start \in Nat
        /\ d.end \in Nat /\ e.end \in Nat /\ f.end \in Nat
        /\ d.path \in Nat /\ e.path \in Nat /\ f.path \in Nat
    OBVIOUS
  <2> QED BY <1>5, <2>1 DEF Before
<1> QED BY <1>1, <1>2, <1>3, <1>4, <1>5 DEF IsOrder

LEMMA ExtFacts ==
  ASSUME NEW out, IsList(out), \A e \in Range(out) : IsEntry(e), NEW i \in WithData(out)
  PROVE  /\ Ext(out, i) \in [start : Nat, end : Nat, path : Nat]
         /\ Ext(out, i).start < Ext(out, i).end
<1>1. i \in DOMAIN out /\ out[i].rec.size > 0 /\ out[i] \in Range(out)
  BY ListFacts DEF WithData
<1>2. PICK l, n \in Nat : l = out[i].rec.lba /\ n = out[i].rec.size
  BY <1>1 DEF IsEntry, IsListed
<1>3. PICK k \in Nat : k = SectorsOf(n) /\ k >= 1
  <2>1. n > 0
    BY <1>1, <1>2
  <2>2. PICK k \in Nat : k = SectorsOf(n) /\ n <= k * SECTOR
    BY SectorsFacts
  <2>3. k # 0
    <3>1. 0 * SECTOR = 0
      BY SectorAssumption
    <3> QED BY <2>1, <2>2, <3>1
  <2> QED BY <2>2, <2>3
<1>4. i \in Nat
  BY <1>1, ListFacts
<1>5. Ext(out, i) = [start |-> l, end |-> l + k, path |-> i]
  BY <1>2, <1>3 DEF Ext
<1> QED BY <1>3, <1>4, <1>5

LEMMA ExtentsFacts ==
  ASSUME NEW out, IsList(out), \A e \in Range(out) : IsEntry(e), NEW o, o = ExtentsOf(out)
  PROVE  IsExtents(o) /\ Sorted(o)
<1>1. PICK S : S = {Ext(out, i) : i \in WithData(out)}
  OBVIOUS
<1>2. \A d \in S : d \in [start : Nat, end : Nat, path : Nat] /\ d.start < d.end
  BY <1>1, ExtFacts
<1>3. IsFiniteSet(S)
  <2>1. PICK n \in Nat : DOMAIN out = 1 .. n
    BY ListFacts
  <2>2. IsFiniteSet(1 .. n)
    BY FS_Interval
  <2>3. WithData(out) \in SUBSET (1 .. n)
    BY <2>1 DEF WithData
  <2>4. IsFiniteSet(WithData(out))
    BY <2>2, <2>3, FS_Subset
  <2>5. PICK f : f = [i \in WithData(out) |-> Ext(out, i)]
    OBVIOUS
  <2>6. S = {f[i] : i \in WithData(out)}
    BY <1>1, <2>5
  <2> QED BY <2>4, <2>6, FiniteImage
<1>4. PICK R : R = {p \in S \X S : Before(p[1], p[2])}
  OBVIOUS
<1>5. IsOrder(R, S) /\ \A d, e \in S : <<d, e>> \in R <=> Before(d, e)
  BY <1>2, <1>4, BeforeOrder
<1>6. \A x \in S : UpTo(R, S, x) = {y \in S : Before(y, x)}
  BY <1>5 DEF UpTo
<1>7. ASSUME NEW k \in 1 .. Cardinality(S)
      PROVE  o[k] \in S /\ Cardinality(UpTo(R, S, o[k])) = k
  <2>1. PICK x \in S : Cardinality(UpTo(R, S, x)) = k
    BY <1>3, <1>5, RankTaken
  <2>2. Cardinality({y \in S : Before(y, x)}) = k
    BY <1>6, <2>1
  <2>3. o[k] = CHOOSE z \in S : Cardinality({y \in S : Before(y, z)}) = k
    BY <1>1 DEF ExtentsOf, InOrder
  <2>4. o[k] \in S /\ Cardinality({y \in S : Before(y, o[k])}) = k
    BY Zenon, <2>2, <2>3
  <2> QED BY <1>6, <2>4
<1>8. o = [k \in 1 .. Cardinality(S) |-> o[k]]
  <2> DEFINE c(k) == CHOOSE x \in S : Cardinality({y \in S : Before(y, x)}) = k
  <2>1. o = [k \in 1 .. Cardinality(S) |-> c(k)]
    BY <1>1 DEF ExtentsOf, InOrder
  <2> HIDE DEF c
  <2> QED BY <2>1
<1>9. \A k \in 1 .. Cardinality(S) : o[k] \in S /\ Cardinality(UpTo(R, S, o[k])) = k
  BY <1>7
<1>9a. IsOrder(R, S)
  BY <1>5
<1>10. IsList(o) /\ Range(o) = S /\ Len(o) = Cardinality(S) /\ Rises(o, R)
  BY ONLY Zenon, <1>3, <1>8, <1>9, <1>9a, Ordered
<1>11. \A i \in DOMAIN o : o[i] \in S
  BY <1>10, ListFacts
<1>12. Sorted(o)
  BY <1>5, <1>10, <1>11 DEF Sorted, Rises
<1>13. o \in Seq([start : Nat, end : Nat, path : Nat])
  <2>1. S \subseteq [start : Nat, end : Nat, path : Nat] /\ o \in Seq(S)
    BY <1>2, <1>10 DEF IsList
  <2> QED BY <2>1, SeqMonotonic
<1> QED BY <1>2, <1>11, <1>12, <1>13 DEF IsExtents

(* Every step of the analysis is one of the sweep, or leaves it alone.       *)
LEMMA SweepSteps ==
  ASSUME AnalysisInv, [Next]_vars
  PROVE  [SweepNext]_sweepVars
<1>1. CASE StartSweep
  <2>1. CASE UNCHANGED sweepVars
    BY <2>1
  <2>2. CASE ~UNCHANGED sweepVars
    <3>1. active.tag = "ok" /\ exts' = ExtentsOf(active.out) /\ exts = <<>>
          /\ UNCHANGED <<at, cover, overlaps>> /\ At("overlaps")
      BY <1>1, <2>2 DEF StartSweep
    <3>2. PICK out : out = active.out
      OBVIOUS
    <3>3. IsList(out) /\ \A e \in Range(out) : IsEntry(e)
      BY <3>1, <3>2, PlacedReady, ActiveFacts DEF AnalysisInv, At, IsWalk
    <3>4. IsExtents(exts') /\ Sorted(exts')
      BY <3>1, <3>2, <3>3, ExtentsFacts
    <3> QED BY <3>1, <3>4 DEF SweepLoad, SweepNext
  <2> QED BY <2>1, <2>2
<1>2. CASE Sweep
  BY <1>2 DEF Sweep, SweepNext
<1>3. CASE UNCHANGED vars
  BY <1>3 DEF vars
<1>4. CASE EndSweep
  BY Zenon, <1>4 DEF EndSweep
<1>5. CASE Next /\ ~(StartSweep \/ Sweep \/ EndSweep)
  <2>1. CASE Decay \/ Settle
    BY <2>1 DEF Decay, Settle
  <2>2. CASE BothEndian \/ FileSlack
    BY <2>2 DEF BothEndian, FileSlack
  <2>3. CASE Assemble
    BY Zenon, <2>3 DEF Assemble
  <2>4. CASE SectorGaps \/ Timeline \/ HashList
    BY <2>4 DEF SectorGaps, Timeline, HashList, Serve
  <2>5. CASE Over
    BY <2>5 DEF Over, vars
  <2>6. CASE \/ BootEntries \/ Identity \/ PreSystem \/ Symlinks \/ LostFiles \/ PathTable
             \/ PathTableEndian \/ ReservedFields \/ NameDivergence \/ Versions
    BY Zenon, <2>6 DEF BootEntries, Identity, PreSystem, Symlinks, LostFiles, PathTable,
                PathTableEndian, ReservedFields, NameDivergence, Versions, Run
  <2>7. CASE \/ RockRidgeTimes \/ Disguised \/ Cycles \/ Superseded \/ Bounds \/ Times
             \/ Trees \/ Trailing \/ Sectors
    BY <2>7 DEF RockRidgeTimes, Disguised, Cycles, Superseded, Bounds, Times, Trees,
                Trailing, Sectors, Run
  <2> QED BY <1>5, <2>1, <2>2, <2>3, <2>4, <2>5, <2>6, <2>7 DEF Next
<1> QED BY <1>1, <1>2, <1>3, <1>4, <1>5

--------------------------------------------------------------------------------
(* The invariant holds.                                                     *)

LEMMA RunReady ==
  ASSUME AnalysisInv, NEW name, At(name)
  PROVE  Ready
BY PlacedReady DEF AnalysisInv, At

(* Every audit, by the action that runs it.                                 *)
AuditActions ==
  \/ BothEndian \/ FileSlack \/ EndSweep \/ BootEntries \/ Identity
  \/ PreSystem \/ Symlinks \/ LostFiles \/ PathTable \/ PathTableEndian
  \/ ReservedFields \/ NameDivergence \/ Versions \/ RockRidgeTimes
  \/ Disguised \/ Cycles \/ Superseded \/ Bounds \/ Times \/ Trees
  \/ Trailing \/ Sectors

LEMMA AuditsAudit ==
  ASSUME AnalysisInv, SweepInv, AuditActions
  PROVE  \E name : Audited(name) /\ UNCHANGED <<image, bad, trees, report>>
<1>1. CASE BothEndian
  <2>1. At("endian") /\ Conclude("endian", audit_both_endian) /\ UNCHANGED <<image, bad, trees, report>>
    BY <1>1 DEF BothEndian
  <2>2. Audited("endian")
    BY <2>1, RunReady, EndianAudited
  <2> QED BY <2>1, <2>2
<1>2. CASE FileSlack
  <2>1. At("slack") /\ Conclude("slack", audit_file_slack) /\ UNCHANGED <<image, bad, trees, report>>
    BY <1>2 DEF FileSlack
  <2>2. Audited("slack")
    BY <2>1, RunReady, SlackAudited
  <2> QED BY <2>1, <2>2
<1>3. CASE EndSweep
  <2>1. UNCHANGED <<image, bad, trees, report>>
    BY Zenon, <1>3 DEF EndSweep
  <2>2. Audited("overlaps")
    BY <1>3, SweepAudited DEF SweepInv
  <2> QED BY <2>1, <2>2
<1>4. CASE BootEntries
  <2>1. At("boot") /\ UNCHANGED <<image, bad, trees, report>>
    BY Zenon, <1>4 DEF BootEntries, Run
  <2>2. Audited("boot")
    BY <1>4, <2>1, RunReady, BootAudited
  <2> QED BY <2>1, <2>2
<1>5. CASE Identity
  <2>1. At("identity") /\ UNCHANGED <<image, bad, trees, report>>
    BY <1>5 DEF Identity, Run
  <2>2. Audited("identity")
    BY <1>5, <2>1, RunReady, IdentityAudited
  <2> QED BY <2>1, <2>2
<1>6. CASE PreSystem
  <2>1. At("presystem") /\ UNCHANGED <<image, bad, trees, report>>
    BY <1>6 DEF PreSystem, Run
  <2>2. Audited("presystem")
    BY <1>6, <2>1, RunReady, PreSystemAudited
  <2> QED BY <2>1, <2>2
<1>7. CASE Symlinks
  <2>1. At("symlinks") /\ UNCHANGED <<image, bad, trees, report>>
    BY <1>7 DEF Symlinks, Run
  <2>2. Audited("symlinks")
    BY <1>7, <2>1, RunReady, SymlinksAudited
  <2> QED BY <2>1, <2>2
<1>8. CASE LostFiles
  <2>1. At("lost") /\ UNCHANGED <<image, bad, trees, report>>
    BY <1>8 DEF LostFiles, Run
  <2>2. Audited("lost")
    BY <1>8, <2>1, RunReady, LostAudited
  <2> QED BY <2>1, <2>2
<1>9. CASE PathTable
  <2>1. At("pathtable") /\ UNCHANGED <<image, bad, trees, report>>
    BY <1>9 DEF PathTable, Run
  <2>2. Audited("pathtable")
    BY <1>9, <2>1, RunReady, PathTableAudited
  <2> QED BY <2>1, <2>2
<1>10. CASE PathTableEndian
  <2>1. At("ptendian") /\ UNCHANGED <<image, bad, trees, report>>
    BY <1>10 DEF PathTableEndian, Run
  <2>2. Audited("ptendian")
    BY <1>10, <2>1, RunReady, TableEndianAudited
  <2> QED BY <2>1, <2>2
<1>11. CASE ReservedFields
  <2>1. At("reserved") /\ UNCHANGED <<image, bad, trees, report>>
    BY <1>11 DEF ReservedFields, Run
  <2>2. Audited("reserved")
    BY <1>11, <2>1, RunReady, ReservedAudited
  <2> QED BY <2>1, <2>2
<1>12. CASE NameDivergence
  <2>1. At("names") /\ UNCHANGED <<image, bad, trees, report>>
    BY <1>12 DEF NameDivergence, Run
  <2>2. Audited("names")
    BY <1>12, <2>1, RunReady, NamesAudited
  <2> QED BY <2>1, <2>2
<1>13. CASE Versions
  <2>1. At("versions") /\ UNCHANGED <<image, bad, trees, report>>
    BY <1>13 DEF Versions, Run
  <2>2. Audited("versions")
    BY <1>13, <2>1, RunReady, VersionsAudited
  <2> QED BY <2>1, <2>2
<1>14. CASE RockRidgeTimes
  <2>1. At("rrtime") /\ UNCHANGED <<image, bad, trees, report>>
    BY <1>14 DEF RockRidgeTimes, Run
  <2>2. Audited("rrtime")
    BY <1>14, <2>1, RunReady, TimesAudited
  <2> QED BY <2>1, <2>2
<1>15. CASE Disguised
  <2>1. At("disguised") /\ UNCHANGED <<image, bad, trees, report>>
    BY <1>15 DEF Disguised, Run
  <2>2. Audited("disguised")
    BY <1>15, <2>1, RunReady, DisguisedAudited
  <2> QED BY <2>1, <2>2
<1>16. CASE Cycles
  <2>1. At("cycles") /\ UNCHANGED <<image, bad, trees, report>>
    BY <1>16 DEF Cycles, Run
  <2>2. Audited("cycles")
    BY <1>16, <2>1, RunReady, CyclesAudited
  <2> QED BY <2>1, <2>2
<1>17. CASE Superseded
  <2>1. At("superseded") /\ UNCHANGED <<image, bad, trees, report>>
    BY <1>17 DEF Superseded, Run
  <2>2. Audited("superseded")
    BY <1>17, <2>1, RunReady, SupersededAudited
  <2> QED BY <2>1, <2>2
<1>18. CASE Bounds
  <2>1. At("bounds") /\ UNCHANGED <<image, bad, trees, report>>
    BY <1>18 DEF Bounds, Run
  <2>2. Audited("bounds")
    BY <1>18, <2>1, RunReady, BoundsAudited
  <2> QED BY <2>1, <2>2
<1>19. CASE Times
  <2>1. At("times") /\ UNCHANGED <<image, bad, trees, report>>
    BY <1>19 DEF Times, Run
  <2>2. Audited("times")
    BY <1>19, <2>1, RunReady, DatesAudited
  <2> QED BY <2>1, <2>2
<1>20. CASE Trees
  <2>1. At("trees") /\ UNCHANGED <<image, bad, trees, report>>
    BY <1>20 DEF Trees, Run
  <2>2. Audited("trees")
    BY <1>20, <2>1, RunReady, TreesAudited
  <2> QED BY <2>1, <2>2
<1>21. CASE Trailing
  <2>1. At("trailing") /\ UNCHANGED <<image, bad, trees, report>>
    BY <1>21 DEF Trailing, Run
  <2>2. Audited("trailing")
    BY <1>21, <2>1, RunReady, TrailingAudited
  <2> QED BY <2>1, <2>2
<1>22. CASE Sectors
  <2>1. At("sectors") /\ UNCHANGED <<image, bad, trees, report>>
    BY <1>22 DEF Sectors, Run
  <2>2. Audited("sectors")
    BY <1>22, <2>1, RunReady, SectorsAudited
  <2> QED BY <2>1, <2>2
<1> QED BY <1>1, <1>2, <1>3, <1>4, <1>5, <1>6, <1>7, <1>8, <1>9, <1>10, <1>11, <1>12,
           <1>13, <1>14, <1>15, <1>16, <1>17, <1>18, <1>19, <1>20, <1>21, <1>22 DEF AuditActions

LEMMA NextCases ==
  Next <=> \/ AuditActions \/ Decay \/ Settle \/ StartSweep \/ Sweep \/ Assemble
           \/ SectorGaps \/ Timeline \/ HashList \/ Over
BY DEF Next, AuditActions

LEMMA NextInv ==
  ASSUME AnalysisInv, SweepInv, [Next]_vars
  PROVE  AnalysisInv'
<1>1. CASE Decay
  BY <1>1, DecayInv
<1>2. CASE Settle
  BY <1>2, SettleInv
<1>3. CASE AuditActions
  BY <1>3, AuditsAudit, AuditInv
<1>4. CASE StartSweep
  BY <1>4, StartSweepInv
<1>5. CASE Sweep
  BY <1>5, StillInv DEF Sweep
<1>6. CASE Assemble
  BY <1>6, AssembleInv
<1>7. CASE SectorGaps
  BY <1>7, ServeInv DEF SectorGaps, Calls
<1>8. CASE Timeline
  BY <1>8, ServeInv DEF Timeline, Calls
<1>9. CASE HashList
  BY <1>9, ServeInv DEF HashList, Calls
<1>10. CASE Over \/ UNCHANGED vars
  BY <1>10, StillInv DEF Over, vars
<1> QED BY <1>1, <1>2, <1>3, <1>4, <1>5, <1>6, <1>7, <1>8, <1>9, <1>10, NextCases

--------------------------------------------------------------------------------
(* What the walks and the audits leave out in silence.                      *)

LeftOut(e) ==
  /\ e.path \in Seq(STRING) /\ e.rec.kind = "rec"
  /\ image.len = image.end =>
       e.rec.size = 0 \/ OutOfBounds(e) \/ (e.rec.dir /\ AreasPastEnd(e.rec) # {})

(* Up to the audit of the bounds, the entries left out are of the tree; from *)
(* then on, those out of bounds are among the ones that it found.           *)
Skipped ==
  /\ \A e \in skipped : LeftOut(e)
  /\ \A w : w = walk /\ step <= 18 /\ w.tag = "ok" => skipped \subseteq Range(w.out)
  /\ step > 18 => \A e \in skipped : OutOfBounds(e) => e \in Range(found["bounds"])

LEMMA PastEnd ==
  ASSUME IsImage(image), NEW e, IsEntry(e), image.len = image.end,
         NEW l \in e.rec.lba .. e.rec.lba + SectorsOf(e.rec.size) - 1, l >= image.end
  PROVE  e.rec.size = 0 \/ OutOfBounds(e)
<1>1. PICK lba, size \in Nat : lba = e.rec.lba /\ size = e.rec.size
  BY DEF IsEntry, IsListed
<1>2. PICK n \in Nat : n = SectorsOf(size)
  BY SectorsFacts
<1>3. image.len \in Nat
  BY DEF IsImage
<1>4. l \in lba .. lba + n - 1
  BY <1>1, <1>2
<1>5. lba + n > image.len
  BY <1>2, <1>3, <1>4
<1> QED BY <1>1, <1>2, <1>5 DEF OutOfBounds

LEMMA WalkLeft ==
  ASSUME Ready
  PROVE  active.skipped \subseteq Range(active.out) /\ \A e \in active.skipped : LeftOut(e)
<1>1. PICK x : x = image.root
  OBVIOUS
<1>2. IsImage(image) /\ IsExtent(x) /\ active = WalkFrom(x)
  BY <1>1, ActiveFacts DEF Ready, IsImage, walk
<1>3. PICK w : w = WalkFrom(x)
  OBVIOUS
<1>4. /\ w.skipped \subseteq Range(w.out) /\ \A e \in Range(w.out) : IsEntry(e)
      /\ \A e \in w.skipped : e.rec.dir /\ read_dir(e.rec.lba, e.rec.size).tag = "eof"
  BY <1>2, <1>3, WalkFacts DEF WalkPlaces
<1>5. ASSUME NEW e \in w.skipped PROVE LeftOut(e)
  <2>1. IsEntry(e) /\ e.rec.dir /\ read_dir(e.rec.lba, e.rec.size).tag = "eof"
    BY <1>4, <1>5
  <2>2. PICK r : r = e.rec
    OBVIOUS
  <2>3. IsExtent(r)
    BY <2>1, <2>2 DEF IsEntry, IsListed, IsExtent
  <2>4. \/ \E l \in r.lba .. r.lba + SectorsOf(r.size) - 1 : l >= image.end
        \/ AreasPastEnd(r) # {}
    BY <1>2, <2>1, <2>2, <2>3, ReachEof
  <2>5. image.len = image.end =>
          e.rec.size = 0 \/ OutOfBounds(e) \/ (e.rec.dir /\ AreasPastEnd(e.rec) # {})
    BY <1>2, <2>1, <2>2, <2>4, PastEnd
  <2> QED BY <2>1, <2>5 DEF LeftOut, IsEntry, IsListed
<1> QED BY <1>2, <1>3, <1>4, <1>5

LEMMA EndianLeft ==
  ASSUME Ready
  PROVE  EndianSkipped \subseteq Range(active.out) /\ \A e \in EndianSkipped : LeftOut(e)
<1>1. \A e \in Range(active.out) : IsEntry(e)
  BY ActiveFacts DEF IsWalk
<1>2. ASSUME NEW e \in EndianSkipped PROVE e \in Range(active.out) /\ LeftOut(e)
  <2>1. e \in Range(active.out) /\ ReadTag(e.rec.lba) = "eof"
    BY <1>2 DEF EndianSkipped
  <2>2. PICK lba, size \in Nat : lba = e.rec.lba /\ size = e.rec.size
    BY <1>1, <2>1 DEF IsEntry, IsListed
  <2>3. lba >= image.end
    BY <2>1, <2>2, ReadTagFacts DEF Ready
  <2>4. image.len = image.end => e.rec.size = 0 \/ OutOfBounds(e)
    BY <2>2, <2>3 DEF OutOfBounds
  <2> QED BY <1>1, <2>1, <2>4 DEF LeftOut, IsEntry, IsListed
<1> QED BY <1>2

LEMMA SlackLeft ==
  ASSUME Ready
  PROVE  SlackSkipped \subseteq Range(active.out) /\ \A e \in SlackSkipped : LeftOut(e)
<1>1. \A e \in Range(active.out) : IsEntry(e)
  BY ActiveFacts DEF IsWalk
<1>2. ASSUME NEW e \in SlackSkipped PROVE e \in Range(active.out) /\ LeftOut(e)
  <2>1. e \in Range(active.out) /\ SlackTag(e) = "eof"
    BY <1>2 DEF SlackSkipped
  <2>2. PICK lba, size \in Nat : lba = e.rec.lba /\ size = e.rec.size
    BY <1>1, <2>1 DEF IsEntry, IsListed
  <2>3. PICK n \in Nat : n = SectorsOf(size)
    BY SectorsFacts
  <2>4. ReadTag(lba + n - 1) = "eof" /\ size % SECTOR # 0
    BY <2>1, <2>2, <2>3 DEF SlackTag, LastSector, HasSlack
  <2>5. lba + n - 1 >= image.end
    BY <2>4 DEF ReadTag
  <2>6. image.len = image.end => e.rec.size = 0 \/ OutOfBounds(e)
    <3>1. image.end \in Nat
      BY DEF Ready, IsImage
    <3>2. lba + n > image.end
      BY <2>2, <2>3, <2>5, <3>1
    <3> QED BY <2>2, <2>3, <3>2 DEF OutOfBounds
  <2> QED BY <1>1, <2>1, <2>6 DEF LeftOut, IsEntry, IsListed
<1> QED BY <1>2

LEMMA LeftOutSame ==
  ASSUME Worse, NEW e, LeftOut(e)
  PROVE  LeftOut(e)' /\ (OutOfBounds(e)' <=> OutOfBounds(e))
<1>1. \A x : AreasPastEnd(x)' = AreasPastEnd(x)
  BY AreasSame
<1>2. OutOfBounds(e)' <=> OutOfBounds(e)
  BY DEF OutOfBounds, Worse, SectorsOf
<1>3. PICK r : r = e.rec
  OBVIOUS
<1>4. AreasPastEnd(r)' = AreasPastEnd(r)
  BY <1>1
<1> QED BY <1>2, <1>3, <1>4 DEF LeftOut, Worse

PlainRun == \E name, result : name # "bounds" /\ Run(name, result)

LEMMA RunsArePlain ==
  ASSUME \/ BootEntries \/ Identity \/ PreSystem \/ Symlinks \/ LostFiles \/ PathTable
         \/ PathTableEndian \/ ReservedFields \/ NameDivergence \/ Versions \/ RockRidgeTimes
         \/ Disguised \/ Cycles \/ Superseded \/ Times \/ Trees \/ Trailing \/ Sectors
  PROVE  PlainRun
<1>1. CASE BootEntries
  BY Zenon, <1>1 DEF BootEntries, PlainRun
<1>2. CASE Identity
  BY <1>2 DEF Identity, PlainRun
<1>3. CASE PreSystem
  BY <1>3 DEF PreSystem, PlainRun
<1>4. CASE Symlinks
  BY <1>4 DEF Symlinks, PlainRun
<1>5. CASE LostFiles
  BY <1>5 DEF LostFiles, PlainRun
<1>6. CASE PathTable
  BY <1>6 DEF PathTable, PlainRun
<1>7. CASE PathTableEndian
  BY <1>7 DEF PathTableEndian, PlainRun
<1>8. CASE ReservedFields
  BY <1>8 DEF ReservedFields, PlainRun
<1>9. CASE NameDivergence
  BY <1>9 DEF NameDivergence, PlainRun
<1>10. CASE Versions
  BY <1>10 DEF Versions, PlainRun
<1>11. CASE RockRidgeTimes
  BY <1>11 DEF RockRidgeTimes, PlainRun
<1>12. CASE Disguised
  BY <1>12 DEF Disguised, PlainRun
<1>13. CASE Cycles
  BY <1>13 DEF Cycles, PlainRun
<1>14. CASE Superseded
  BY <1>14 DEF Superseded, PlainRun
<1>15. CASE Times
  BY <1>15 DEF Times, PlainRun
<1>16. CASE Trees
  BY <1>16 DEF Trees, PlainRun
<1>17. CASE Trailing
  BY <1>17 DEF Trailing, PlainRun
<1>18. CASE Sectors
  BY <1>18 DEF Sectors, PlainRun
<1> QED BY <1>1, <1>2, <1>3, <1>4, <1>5, <1>6, <1>7, <1>8, <1>9, <1>10, <1>11, <1>12, <1>13, <1>14, <1>15, <1>16, <1>17, <1>18

LEMMA SkippedStays ==
  ASSUME AnalysisInv, Skipped, Worse, skipped' = skipped, step' \in {step, step + 1},
         step' = step + 1 => step # 18, step > 18 => found'["bounds"] = found["bounds"]
  PROVE  Skipped'
<1>1. step \in 1 .. 23 /\ IsImage(image)
  BY PlacedReady DEF AnalysisInv, Placed
<1>2. (step' <= 18 => step <= 18) /\ (step' > 18 => step > 18)
  BY <1>1
<1>3. \A e \in skipped' : LeftOut(e)'
  BY LeftOutSame DEF Skipped
<1>4. ASSUME NEW w, w = walk', step' <= 18, w.tag = "ok" PROVE skipped' \subseteq Range(w.out)
  <2>1. PICK v : v = walk
    OBVIOUS
  <2>2. w = v
    BY <1>1, <1>4, <2>1, ActiveStable DEF Trails
  <2> QED BY <1>2, <1>4, <2>1, <2>2 DEF Skipped
<1>5. ASSUME step' > 18, NEW e \in skipped', OutOfBounds(e)' PROVE e \in Range(found'["bounds"])
  <2>1. e \in skipped /\ OutOfBounds(e)
    BY <1>5, LeftOutSame DEF Skipped
  <2> QED BY <1>2, <1>5, <2>1 DEF Skipped
<1> QED BY <1>3, <1>4, <1>5 DEF Skipped

LEMMA SkippedGrows ==
  ASSUME AnalysisInv, Skipped, Ready, Unchanged, step <= 17, step' \in {step, step + 1},
         NEW more, skipped' = skipped \cup more, more \subseteq Range(active.out),
         \A e \in more : LeftOut(e)
  PROVE  Skipped'
<1>1. step \in 1 .. 17 /\ IsImage(image) /\ Worse /\ active = walk
  BY PlacedReady, SameWorse, ActiveFacts DEF AnalysisInv, Placed
<1>2. \A e \in skipped' : LeftOut(e)'
  BY <1>1, LeftOutSame DEF Skipped
<1>3. ASSUME NEW w, w = walk', w.tag = "ok" PROVE skipped' \subseteq Range(w.out)
  <2>1. PICK v : v = walk
    OBVIOUS
  <2>2. w = v
    BY <1>1, <1>3, <2>1, ActiveStable DEF Trails
  <2> QED BY <1>1, <1>3, <2>1, <2>2 DEF Skipped
<1>4. ~(step' > 18)
  BY <1>1
<1> QED BY <1>2, <1>3, <1>4 DEF Skipped

(* Which audit it is, by its position.                                      *)
LEMMA AtStep ==
  ASSUME AnalysisInv, NEW name, At(name), NEW result, Conclude(name, result)
  PROVE  /\ step \in 1 .. 22 /\ Order[step] = name /\ name \in DOMAIN found /\ Ready
         /\ step' \in {step, step + 1} /\ \A s \in DOMAIN found : s # name => found'[s] = found[s]
         /\ step' = step + 1 => result.tag = "ok" /\ found'[name] = result.hits
<1>1. step \in 1 .. 22 /\ Order[step] = name /\ Ready
  BY PlacedReady, OrderLength DEF AnalysisInv, Placed, At
<1>2. name \in DOMAIN found /\ found = [s \in DOMAIN found |-> found[s]]
  BY <1>1, OrderNames, OrderLength DEF AnalysisInv, Answered
<1>3. step' \in {step, step + 1} /\ \A s \in DOMAIN found : s # name => found'[s] = found[s]
  BY <1>2 DEF Conclude
<1>4. step' = step + 1 => result.tag = "ok" /\ found'[name] = result.hits
  BY <1>1, <1>2 DEF Conclude
<1> QED BY <1>1, <1>2, <1>3, <1>4

LEMMA AuditSkipped ==
  ASSUME AnalysisInv, Skipped, NEW name, name # "bounds", At(name), NEW result,
         Conclude(name, result), UNCHANGED <<image, bad, skipped>>
  PROVE  Skipped'
<1>1. step \in 1 .. 22 /\ Order[step] = name /\ step' \in {step, step + 1}
  BY AtStep
<1>2. step # 18
  BY <1>1, OrderNames
<1>3. "bounds" \in DOMAIN found
  BY OrderNames, OrderLength DEF AnalysisInv, Answered
<1>4. found'["bounds"] = found["bounds"]
  BY <1>3, AtStep
<1>5. Worse
  BY DEF Worse
<1> QED BY <1>1, <1>2, <1>4, <1>5, SkippedStays

LEMMA BoundsSkipped ==
  ASSUME AnalysisInv, Skipped, Bounds
  PROVE  Skipped'
<1>1. PICK places : places = {i \in DOMAIN active.out : OutOfBounds(active.out[i])}
  OBVIOUS
<1>2. PICK r : r = IF active.tag = "ok" THEN Ok(Items(active.out, places)) ELSE Err(active.tag)
  OBVIOUS
<1>3. At("bounds") /\ Conclude("bounds", r) /\ UNCHANGED <<image, bad, trees, skipped>>
  BY <1>1, <1>2 DEF Bounds, Run, OverWalk, Pick
<1>4. /\ step \in 1 .. 22 /\ Order[step] = "bounds" /\ Ready /\ step' \in {step, step + 1}
      /\ step' = step + 1 => r.tag = "ok" /\ found'["bounds"] = r.hits
  BY <1>3, AtStep
<1>5. step = 18
  BY <1>4, OrderNames, OrderDistinct, OrderLength
<1>6. Worse /\ active = walk /\ IsList(active.out)
  BY <1>3, <1>4, ActiveFacts DEF Worse, IsWalk
<1>7. CASE step' = step
  BY <1>3, <1>5, <1>6, <1>7, SkippedStays
<1>8. CASE step' = step + 1
  <2>1. active.tag = "ok"
    BY <1>2, <1>4, <1>6, <1>8, ActiveFacts, OkErr DEF IsWalk, Errors
  <2>2. skipped \subseteq Range(active.out)
    BY <1>5, <1>6, <2>1 DEF Skipped
  <2>3. found'["bounds"] = Items(active.out, places)
    BY <1>2, <1>4, <1>8, <2>1, OkErr
  <2>4. PICK out : out = active.out
    OBVIOUS
  <2>5. Range(found'["bounds"]) = {out[i] : i \in places}
    BY <1>1, <1>6, <2>3, <2>4, ItemsFacts
  <2>6. \A e \in Range(out) : OutOfBounds(e) => e \in Range(found'["bounds"])
    BY <1>1, <2>4, <2>5 DEF Range
  <2>7. \A e \in skipped' : LeftOut(e)' /\ (OutOfBounds(e)' => OutOfBounds(e))
    BY <1>3, <1>6, LeftOutSame DEF Skipped
  <2>8. ~(step' <= 18)
    BY <1>5, <1>8
  <2>9. ASSUME NEW e \in skipped', OutOfBounds(e)' PROVE e \in Range(found'["bounds"])
    <3>1. e \in Range(out) /\ OutOfBounds(e)
      BY <1>3, <2>2, <2>4, <2>7, <2>9
    <3> QED BY <2>6, <3>1
  <2> QED BY <2>7, <2>8, <2>9 DEF Skipped
<1> QED BY <1>4, <1>7, <1>8

LEMMA SkippedStep ==
  ASSUME AnalysisInv, SweepInv, Skipped, [Next]_vars
  PROVE  Skipped'
<1>1. CASE \/ BootEntries \/ Identity \/ PreSystem \/ Symlinks \/ LostFiles \/ PathTable
           \/ PathTableEndian \/ ReservedFields \/ NameDivergence \/ Versions \/ RockRidgeTimes
           \/ Disguised \/ Cycles \/ Superseded \/ Times \/ Trees \/ Trailing \/ Sectors
  <2>1. PICK name, result : name # "bounds" /\ Run(name, result)
    BY <1>1, RunsArePlain DEF PlainRun
  <2> QED BY <2>1, AuditSkipped DEF Run
<1>2. CASE Bounds
  BY <1>2, BoundsSkipped
<1>3. CASE BothEndian
  <2>1. /\ At("endian") /\ Conclude("endian", audit_both_endian) /\ Unchanged
        /\ skipped' = skipped \cup (active.skipped \cup EndianSkipped)
    BY <1>3 DEF BothEndian, Unchanged, Steady
  <2>2. step \in 1 .. 22 /\ Order[step] = "endian" /\ step' \in {step, step + 1} /\ Ready
    BY <2>1, AtStep
  <2>3. step = 3
    BY <2>2, OrderNames, OrderDistinct, OrderLength
  <2>4. PICK more : more = active.skipped \cup EndianSkipped
    OBVIOUS
  <2>5. more \subseteq Range(active.out) /\ \A e \in more : LeftOut(e)
    BY <2>2, <2>4, WalkLeft, EndianLeft
  <2> QED BY <2>1, <2>2, <2>3, <2>4, <2>5, SkippedGrows
<1>4. CASE FileSlack
  <2>1. /\ At("slack") /\ Conclude("slack", audit_file_slack) /\ Unchanged
        /\ skipped' = skipped \cup SlackSkipped
    BY <1>4 DEF FileSlack, Unchanged, Steady
  <2>2. step \in 1 .. 22 /\ Order[step] = "slack" /\ step' \in {step, step + 1} /\ Ready
    BY <2>1, AtStep
  <2>3. step = 4
    BY <2>2, OrderNames, OrderDistinct, OrderLength
  <2>4. PICK more : more = SlackSkipped
    OBVIOUS
  <2>5. more \subseteq Range(active.out) /\ \A e \in more : LeftOut(e)
    BY <2>2, <2>4, SlackLeft
  <2> QED BY <2>1, <2>2, <2>3, <2>4, <2>5, SkippedGrows
<1>5. CASE StartSweep
  <2>1. /\ At("overlaps") /\ UNCHANGED <<image, bad, found, skipped>>
        /\ step' = step \/ step' = step + 1
    BY <1>5 DEF StartSweep
  <2>2. step \in 1 .. 22 /\ Order[step] = "overlaps"
    BY <2>1, OrderLength DEF AnalysisInv, Placed, At
  <2>3. step # 18
    BY <2>2, OrderNames
  <2> QED BY <2>1, <2>3, SkippedStays DEF Worse
<1>6. CASE EndSweep
  <2>1. /\ At("overlaps") /\ UNCHANGED <<image, bad, trees, report, skipped>>
    BY Zenon, <1>6 DEF EndSweep
  <2>2. \E result : Conclude("overlaps", result)
    <3>1. Audited("overlaps")
      BY <1>6, SweepAudited DEF SweepInv
    <3> QED BY <3>1 DEF Audited
  <2> QED BY <2>1, <2>2, AuditSkipped
<1>7. CASE \/ Decay \/ Settle \/ Sweep \/ Assemble \/ Over \/ UNCHANGED vars
  <2>1. /\ Worse /\ step' = step /\ found' = found /\ skipped' = skipped
    BY Zenon, <1>7 DEF Decay, Settle, Sweep, Assemble, Over, vars, Worse
  <2>2. step # step + 1
    BY DEF AnalysisInv, Placed
  <2> QED BY <2>1, <2>2, SkippedStays
<1>8. CASE SectorGaps \/ Timeline \/ HashList
  <2>1. PICK name \in Calls : \E result : Serve(name, result)
    BY <1>8 DEF SectorGaps, Timeline, HashList, Calls
  <2>1a. PICK result : Serve(name, result)
    BY <2>1
  <2>2. /\ Worse /\ step' = step /\ skipped' = skipped
        /\ found' = [found EXCEPT ![name] = result.hits]
    BY <2>1a DEF Serve, Worse
  <2>3. step # step + 1 /\ "bounds" \in DOMAIN found /\ name # "bounds"
    BY SMTT(40), OrderNames, OrderLength DEF AnalysisInv, Placed, Answered, Calls
  <2>4. found'["bounds"] = found["bounds"]
    BY <2>2, <2>3
  <2> QED BY <2>2, <2>3, <2>4, SkippedStays
<1> QED BY <1>1, <1>2, <1>3, <1>4, <1>5, <1>6, <1>7, <1>8 DEF Next

--------------------------------------------------------------------------------
(* The gaps: what the worklist claims is what the walk lists.                *)

(* A sector that the root, or something the tree lists, takes.              *)
Taken(x, out, l) ==
  \/ l \in RunOf(x.lba, x.size)
  \/ \E e \in Range(out) : l \in RunOf(e.rec.lba, e.rec.size)

Claiming(x, out, m) ==
  /\ IsList(m.work) /\ \A w \in Range(m.work) : IsMet(x, out, w.lba, w.size)
  /\ \A l \in m.claimed : Taken(x, out, l)

KidsAre(ks, recs, dir) ==
  /\ IsList(ks)
  /\ \A k \in Range(ks) : \E r \in Range(recs) : r.dir = dir /\ k.lba = r.lba /\ k.size = r.size

LEMMA KidsFacts ==
  ASSUME NEW recs, IsList(recs), NEW dir, NEW ks, ks = KidsOf(recs, dir)
  PROVE  KidsAre(ks, recs, dir)
<1>1. PICK places : places = {i \in DOMAIN recs : recs[i].dir = dir}
  OBVIOUS
<1>2. PICK s : s = Items(recs, places)
  OBVIOUS
<1>3. IsList(s) /\ Range(s) = {recs[i] : i \in places}
  BY <1>1, <1>2, ItemsFacts
<1>4. ks = [i \in DOMAIN s |-> [lba |-> s[i].lba, size |-> s[i].size]]
  BY <1>1, <1>2 DEF KidsOf, Each, Pick
<1>5. ks = [i \in DOMAIN s |-> ks[i]]
      /\ \A i \in DOMAIN s : ks[i] = [lba |-> s[i].lba, size |-> s[i].size]
  BY <1>4
<1>6. IsList(ks) /\ Range(ks) = {ks[i] : i \in DOMAIN s}
  BY <1>3, <1>5, MappedList
<1>7. ASSUME NEW k \in Range(ks)
      PROVE  \E r \in Range(recs) : r.dir = dir /\ k.lba = r.lba /\ k.size = r.size
  <2>1. PICK i \in DOMAIN s : k = ks[i]
    BY <1>6, <1>7
  <2>2. PICK r : r = s[i]
    OBVIOUS
  <2>3. k = [lba |-> r.lba, size |-> r.size]
    BY <1>5, <2>1, <2>2
  <2>3a. k.lba = r.lba /\ k.size = r.size
    BY <2>3
  <2>4. r \in Range(s)
    BY <1>3, <2>2, ListFacts
  <2>5. r \in Range(recs) /\ r.dir = dir
    BY <1>1, <1>3, <2>4 DEF Range
  <2> QED BY <2>3a, <2>5
<1> QED BY <1>6, <1>7 DEF KidsAre

Claims(c, m, x, rest, recs) ==
  /\ c.work = rest \o KidsOf(recs, TRUE)
  /\ c.claimed = m.claimed \union
       UNION {RunOf(f.lba, f.size) : f \in {x} \union Range(KidsOf(recs, FALSE))}

LEMMA ClaimCases ==
  ASSUME NEW m, m.work # <<>>, NEW x, x = m.work[Len(m.work)],
         NEW rest, rest = SubSeq(m.work, 1, Len(m.work) - 1),
         NEW recs, recs = read_dir(x.lba, x.size).recs
  PROVE  IF x.lba \in m.seen THEN Claim(m) = [m EXCEPT !.work = rest]
         ELSE Claims(Claim(m), m, x, rest, recs)
<1>1. CASE x.lba \in m.seen
  BY ZenonT(60), <1>1 DEF Claim, ClaimWith
<1>2. CASE x.lba \notin m.seen
  <2>1. PICK kt, kf : kt = KidsOf(recs, TRUE) /\ kf = KidsOf(recs, FALSE)
    OBVIOUS
  <2>2. Claim(m) = [work    |-> rest \o kt,
                    seen    |-> m.seen \union {x.lba},
                    claimed |-> m.claimed \union UNION {RunOf(f.lba, f.size) : f \in {x} \union Range(kf)}]
    BY Zenon, <1>2, <2>1 DEF Claim, ClaimWith
  <2>3. /\ Claim(m).work = rest \o kt
        /\ Claim(m).claimed = m.claimed \union
             UNION {RunOf(f.lba, f.size) : f \in {x} \union Range(kf)}
    BY <2>2
  <2> QED BY <1>2, <2>1, <2>3 DEF Claims
<1> QED BY <1>1, <1>2

(* What is left is read: each directory met holds entries of the tree.      *)
TakenWhole(x, out) ==
  /\ \A e \in Range(out) : IsEntry(e)
  /\ \A l, n : IsMet(x, out, l, n) =>
       \A r \in Range(read_dir(l, n).recs) : \E e \in Range(out) : e.rec = r

LEMMA ClaimStep ==
  ASSUME IsImage(image), NEW x, IsExtent(x), NEW out, TakenWhole(x, out), NEW m, Claiming(x, out, m)
  PROVE  Claiming(x, out, Claim(m))
<1>1. CASE m.work = <<>>
  <2>1. Claim(m) = m
    BY Zenon, <1>1 DEF Claim
  <2> QED BY <2>1
<1>2. CASE m.work # <<>>
  <2>1. PICK work : work = m.work
    OBVIOUS
  <2>2. PICK k \in Nat : k = Len(work) /\ DOMAIN work = 1 .. k
    BY <2>1, ListFacts DEF Claiming
  <2>3. k \in 1 .. k
    <3>1. k # 0
      BY <1>2, <2>1, <2>2, ListFacts, EmptySeq DEF Claiming, IsList
    <3> QED BY <2>2, <3>1
  <2>4. PICK w, rest : w = m.work[Len(m.work)] /\ rest = SubSeq(m.work, 1, Len(m.work) - 1)
    OBVIOUS
  <2>5. w \in Range(work) /\ IsList(rest) /\ Range(rest) \subseteq Range(work)
    <3>1. w = work[k] /\ rest = SubSeq(work, 1, k - 1)
      BY <2>1, <2>2, <2>4
    <3>2. k - 1 \in Nat /\ k - 1 <= Len(work) /\ IsList(work)
      BY <2>1, <2>2, <2>3 DEF Claiming
    <3>3. work[k] \in Range(work)
      BY <2>2, <2>3, <3>2, ListFacts
    <3>4. IsList(SubSeq(work, 1, k - 1)) /\ Range(SubSeq(work, 1, k - 1)) \subseteq Range(work)
      BY <3>2, SubList
    <3> QED BY <3>1, <3>3, <3>4
  <2>6. IsMet(x, out, w.lba, w.size)
    BY <2>1, <2>5 DEF Claiming
  <2>7. PICK l, n \in Nat : l = w.lba /\ n = w.size
    BY <2>6 DEF IsMet, IsExtent, TakenWhole, IsEntry, IsListed
  <2>8. PICK recs : recs = read_dir(w.lba, w.size).recs
    OBVIOUS
  <2>9. IsList(recs) /\ \A r \in Range(recs) : \E e \in Range(out) : e.rec = r
    BY <2>6, <2>7, <2>8, ReadDirFacts DEF TakenWhole
  <2>10. PICK kt, kf : kt = KidsOf(recs, TRUE) /\ kf = KidsOf(recs, FALSE)
    OBVIOUS
  <2>11. IsList(kt) /\ \A d \in Range(kt) : IsMet(x, out, d.lba, d.size)
    <3>1. KidsAre(kt, recs, TRUE)
      BY <2>9, <2>10, KidsFacts
    <3>2. ASSUME NEW d \in Range(kt) PROVE IsMet(x, out, d.lba, d.size)
      <4>1. PICK r \in Range(recs) : r.dir = TRUE /\ d.lba = r.lba /\ d.size = r.size
        BY <3>1, <3>2 DEF KidsAre
      <4>2. PICK e \in Range(out) : e.rec = r
        BY <2>9, <4>1
      <4> QED BY <4>1, <4>2 DEF IsMet
    <3> QED BY <3>1, <3>2 DEF KidsAre
  <2>12. \A f \in Range(kf) : \E e \in Range(out) : f.lba = e.rec.lba /\ f.size = e.rec.size
    <3>1. KidsAre(kf, recs, FALSE)
      BY <2>9, <2>10, KidsFacts
    <3> QED BY <2>9, <3>1 DEF KidsAre
  <2>13. CASE w.lba \in m.seen
    <3>1. Claim(m) = [m EXCEPT !.work = rest]
      BY <1>2, <2>4, <2>8, <2>13, ClaimCases
    <3>2. Claim(m).work = rest /\ Claim(m).claimed = m.claimed
      BY <3>1
    <3> QED BY <2>1, <2>5, <3>2 DEF Claiming
  <2>14. CASE w.lba \notin m.seen
    <3>1. /\ Claim(m).work = rest \o kt
          /\ Claim(m).claimed = m.claimed \union
               UNION {RunOf(f.lba, f.size) : f \in {w} \union Range(kf)}
      <4>1. Claims(Claim(m), m, w, rest, recs)
        BY <1>2, <2>4, <2>8, <2>14, ClaimCases
      <4> QED BY <2>10, <4>1 DEF Claims
    <3>2. IsList(rest \o kt) /\ Range(rest \o kt) = Range(rest) \cup Range(kt)
      BY <2>5, <2>11, ConcatList
    <3>3. \A d \in Range(rest \o kt) : IsMet(x, out, d.lba, d.size)
      BY <2>1, <2>5, <2>11, <3>2 DEF Claiming
    <3>4. ASSUME NEW f \in {w} \cup Range(kf), NEW s \in RunOf(f.lba, f.size)
          PROVE  Taken(x, out, s)
      <4>1. CASE f \in Range(kf)
        BY <2>12, <3>4, <4>1 DEF Taken
      <4>2. CASE f = w
        BY <2>6, <3>4, <4>2 DEF Taken, IsMet
      <4> QED BY <3>4, <4>1, <4>2
    <3>5. \A s \in Claim(m).claimed : Taken(x, out, s)
      BY <3>1, <3>4 DEF Claiming
    <3> QED BY <3>1, <3>2, <3>3, <3>5 DEF Claiming
  <2> QED BY <2>13, <2>14
<1> QED BY <1>1, <1>2

LEMMA SpreadTaken ==
  ASSUME IsImage(image), NEW x, IsExtent(x), NEW out, TakenWhole(x, out), NEW l \in Spread(x)
  PROVE  Taken(x, out, l)
<1>1. PICK start : start = [work |-> <<x>>, seen |-> {}, claimed |-> {}]
  OBVIOUS
<1>2. PICK f : f = Repeat("claim", start)
  OBVIOUS
<1>3. f[0] = start /\ \A n \in Nat : f[n + 1] = Claim(f[n])
  BY <1>2, RunFacts DEF Turn
<1>4. Spread(x) = f[CHOOSE n \in 0 .. MaxVisits : f[n].work = <<>> \/ n = MaxVisits].claimed
  BY <1>1, <1>2 DEF Spread, ClaimedBy, Repeat, IsRun, Turn
<1>5. PICK T : T = {n \in Nat : Claiming(x, out, f[n])}
  OBVIOUS
<1>6. 0 \in T
  <2>1. PICK work : work = <<x>>
    OBVIOUS
  <2>2. IsList(work) /\ Range(work) = {x}
    BY <2>1, OneList
  <2>3. start.work = work /\ start.claimed = {}
    BY <1>1, <2>1
  <2>4. Claiming(x, out, start)
    BY <2>2, <2>3 DEF Claiming, IsMet
  <2> QED BY <1>3, <1>5, <2>4
<1>7. ASSUME NEW n \in T PROVE n + 1 \in T
  <2>1. PICK m : m = f[n]
    OBVIOUS
  <2>2. n \in Nat /\ n + 1 \in Nat /\ Claiming(x, out, m) /\ f[n + 1] = Claim(m)
    BY <1>3, <1>5, <1>7, <2>1
  <2>3. Claiming(x, out, Claim(m))
    BY <2>2, ClaimStep
  <2> QED BY <1>5, <2>2, <2>3
<1>8. T = Nat
  <2>1. T \in SUBSET Nat
    BY <1>5
  <2> QED BY <1>6, <1>7, <2>1, Induction
<1>9. PICK n \in 0 .. MaxVisits : n = CHOOSE k \in 0 .. MaxVisits : f[k].work = <<>> \/ k = MaxVisits
  <2>1. \E k \in 0 .. MaxVisits : f[k].work = <<>> \/ k = MaxVisits
    BY MaxVisitsNat
  <2> QED BY Zenon, <2>1
<1>10. Spread(x) = f[n].claimed /\ n \in Nat
  BY <1>4, <1>9, MaxVisitsNat
<1>11. Claiming(x, out, f[n])
  BY <1>5, <1>8, <1>10
<1> QED BY <1>10, <1>11 DEF Claiming

LEMMA TreeWhole ==
  ASSUME Ready, active.tag = "ok", OneSizeEach(active.out)
  PROVE  TakenWhole(image.root, active.out)
<1>1. PICK x, out, w : x = image.root /\ w = WalkFrom(x) /\ out = active.out
  OBVIOUS
<1>2. IsImage(image) /\ IsExtent(x) /\ active = w
  BY <1>1, ActiveFacts DEF Ready, IsImage, walk
<1>3. WalkPlaces(x, w) /\ WalkWhole(x, w) /\ Ended(w)
  BY <1>1, <1>2, WalkFacts, WalkEnds
<1>4. w.tag = "ok" /\ w.out = out
  BY <1>1, <1>2
<1>5. w.todo = <<>> /\ Range(w.todo) = {}
  BY <1>3, <1>4, EmptyList DEF Ended
<1>6. /\ x.lba \in w.visited /\ \A e \in Range(out) : e.rec.dir => e.rec.lba \in w.visited
      /\ \A l \in w.visited : Holds(x, out, Range(out), l)
  BY <1>3, <1>4, <1>5 DEF WalkWhole
<1>7. \A e \in Range(out) : IsEntry(e)
  BY <1>3, <1>4 DEF WalkPlaces
<1>8. ASSUME NEW l, NEW n, NEW k, IsMet(x, out, l, n), IsMet(x, out, l, k) PROVE n = k
  <2>1. PICK dirs : dirs = {image.root} \cup {e.rec : e \in {d \in Range(out) : d.rec.dir}}
    OBVIOUS
  <2>2. \A d, e \in dirs : d.lba = e.lba => d.size = e.size
    BY <1>1, <2>1 DEF OneSizeEach
  <2>3. PICK d \in dirs : l = d.lba /\ n = d.size
    BY <1>1, <1>8, <2>1 DEF IsMet
  <2>4. PICK e \in dirs : l = e.lba /\ k = e.size
    BY <1>1, <1>8, <2>1 DEF IsMet
  <2> QED BY <2>2, <2>3, <2>4
<1>9. ASSUME NEW l, NEW n, IsMet(x, out, l, n), NEW r \in Range(read_dir(l, n).recs)
      PROVE  \E e \in Range(out) : e.rec = r
  <2>1. l \in w.visited
    BY <1>6, <1>9 DEF IsMet
  <2>2. PICK k \in Nat : /\ IsMet(x, out, l, k)
                         /\ \A s \in Range(read_dir(l, k).recs) : \E e \in Range(out) : e.rec = s
    BY <1>6, <2>1 DEF Holds
  <2>3. k = n
    BY <1>8, <1>9, <2>2
  <2> QED BY <1>9, <2>2, <2>3
<1> QED BY <1>1, <1>7, <1>9 DEF TakenWhole

(* No gap is a sector that the root or an entry of the tree takes.          *)
GapsClear ==
  status = "served" =>
    \A out : out = active.out =>
      \A g \in Range(found["gaps"]) :
        /\ g[1] # image.root.lba
        /\ \A e \in Range(out) : g[1] \notin RunOf(e.rec.lba, e.rec.size)

LEMMA GapsFound ==
  ASSUME Ready, NEW r, r = audit_sector_gaps, r.tag = "ok", NEW g \in Range(r.hits)
  PROVE  /\ g[1] # image.root.lba
         /\ \A e \in Range(active.out) : g[1] \notin RunOf(e.rec.lba, e.rec.size)
<1>1. PICK S : S = (0 .. Lesser(image.space, GAP_CAP) - 1) \ Allocated(active.out)
  OBVIOUS
<1>2. PICK gaps : gaps = Ascending(S)
  OBVIOUS
<1>3. PICK n \in Nat : n = Lesser(image.space, GAP_CAP)
  BY SystemAreaAssumption DEF Lesser, Ready, IsImage
<1>4. IsList(gaps) /\ Range(gaps) = S
  <2>1. IsFiniteSet(0 .. n - 1)
    BY <1>3, FS_Interval
  <2>2. S \in SUBSET (0 .. n - 1)
    BY <1>1, <1>3
  <2>3. IsFiniteSet(S)
    BY <2>1, <2>2, FS_Subset
  <2>4. \A l \in S : l \in Nat
    BY <1>3, <2>2
  <2> QED BY <1>2, <2>3, <2>4, AscendingFacts
<1>5. PICK hits : hits = [i \in DOMAIN gaps |->
                            <<gaps[i], \E k \in 1 .. SECTOR : Slots(gaps[i])[k] # Free>>]
  OBVIOUS
<1>6. active.tag = "ok"
  BY Zenon, ActiveFacts, OkErr DEF audit_sector_gaps, IsWalk, Errors
<1>7. FirstFailure(Each(gaps, ReadTag)) = "ok"
  BY Zenon, <1>1, <1>2, <1>6, OkErr DEF audit_sector_gaps
<1>8. r.hits = hits
  BY <1>1, <1>2, <1>5, <1>6, <1>7, OkErr DEF audit_sector_gaps, Each
<1>9. hits = [i \in DOMAIN gaps |-> hits[i]] /\ \A i \in DOMAIN gaps : hits[i][1] = gaps[i]
  BY <1>5
<1>10. Range(hits) = {hits[i] : i \in DOMAIN gaps}
  BY <1>4, <1>9, MappedList
<1>11. g[1] \in S
  <2>1. PICK i \in DOMAIN gaps : g = hits[i]
    BY <1>8, <1>10
  <2>2. gaps[i] \in Range(gaps)
    BY <1>4, ListFacts
  <2> QED BY <1>4, <1>9, <2>1, <2>2
<1>12. g[1] \notin Allocated(active.out)
  BY <1>1, <1>11
<1>13. image.root.lba \in Allocated(active.out)
  BY DEF Allocated
<1>14. ASSUME NEW e \in Range(active.out) PROVE RunOf(e.rec.lba, e.rec.size) \subseteq Allocated(active.out)
  BY DEF Allocated, EntrySectors
<1> QED BY <1>12, <1>13, <1>14

LEMMA GapsStep ==
  ASSUME AnalysisInv, SweepInv, GapsClear, [Next]_vars
  PROVE  GapsClear'
<1>1. CASE SectorGaps
  <2>1. PICK r : r = audit_sector_gaps
    OBVIOUS
  <2>2. /\ UNCHANGED <<image, bad, trees>> /\ trees # None /\ status = "ok"
        /\ status' = IF r.tag = "ok" THEN "served" ELSE "refused"
        /\ found' = [found EXCEPT !["gaps"] = r.hits]
    BY <1>1, <2>1 DEF SectorGaps, Serve
  <2>3. Ready /\ "gaps" \in DOMAIN found
    BY <2>2, PlacedReady DEF AnalysisInv, Answered, Calls
  <2>4. ASSUME status' = "served", NEW g \in Range(r.hits)
        PROVE  /\ g[1] # image.root.lba
               /\ \A e \in Range(active.out) : g[1] \notin RunOf(e.rec.lba, e.rec.size)
    BY <2>1, <2>2, <2>3, <2>4, GapsFound
  <2>5. found'["gaps"] = r.hits /\ active' = active /\ image' = image
    BY <2>2, <2>3 DEF active
  <2> QED BY <2>4, <2>5 DEF GapsClear, RunOf, Greater, SectorsOf
<1>2. CASE Timeline \/ HashList
  <2>1. PICK name \in {"timeline", "hashes"} : \E result : Serve(name, result)
    BY <1>2 DEF Timeline, HashList
  <2>2. PICK result : Serve(name, result)
    BY <2>1
  <2>3. found["gaps"] = <<>> /\ found' = [found EXCEPT ![name] = result.hits]
        /\ "gaps" \in DOMAIN found
    BY <2>2 DEF Serve, AnalysisInv, Answered, Calls
  <2>4. found'["gaps"] = <<>>
    BY <2>1, <2>3
  <2> QED BY <2>4, EmptyList DEF GapsClear
<1>3. CASE \/ Settle \/ Sweep \/ Over \/ UNCHANGED vars
  <2>1. CASE status = "served"
    <3>1. UNCHANGED <<image, trees, found, status>>
      BY <1>3, <2>1 DEF Settle, Sweep, Over, vars, At, Running, AnalysisInv, Placed
    <3> QED BY <3>1 DEF GapsClear, active, RunOf, Greater, SectorsOf
  <2>2. CASE status # "served"
    <3>1. status' # "served"
      BY <1>3, <2>2 DEF Settle, Sweep, Over, vars
    <3> QED BY <3>1 DEF GapsClear
  <2> QED BY <2>1, <2>2
<1>4. CASE Decay \/ Assemble
  <2>1. status' # "served"
    BY Zenon, <1>4 DEF Decay, Assemble
  <2> QED BY <2>1 DEF GapsClear
<1>5. CASE StartSweep
  <2>1. CASE active.tag = "ok"
    <3>1. status' # "served"
      BY <1>5, <2>1 DEF StartSweep, At, Running
    <3> QED BY <3>1 DEF GapsClear
  <2>2. CASE active.tag # "ok"
    <3>1. status' = active.tag /\ Ready
      BY <1>5, <2>2, PlacedReady DEF StartSweep, At, AnalysisInv
    <3>2. status' # "served"
      BY <2>2, <3>1, ActiveFacts DEF IsWalk, Errors
    <3> QED BY <3>2 DEF GapsClear
  <2> QED BY <2>1, <2>2
<1>6. CASE AuditActions
  <2>1. PICK name : Audited(name)
    BY <1>6, AuditsAudit
  <2>2. PICK r : Good(name, r) /\ Conclude(name, r) /\ At(name)
    BY <2>1 DEF Audited
  <2>3. status' # "served"
    BY <2>2, AuditCases DEF AnalysisInv, Errors
  <2> QED BY <2>3 DEF GapsClear
<1> QED BY <1>1, <1>2, <1>3, <1>4, <1>5, <1>6, NextCases

--------------------------------------------------------------------------------
(* The properties.                                                          *)

LEMMA AnalysisInvariant == Spec => [](AnalysisInv /\ SweepInv /\ Skipped /\ GapsClear)
<1>1. Init => AnalysisInv /\ SweepInv /\ Skipped /\ GapsClear
  <2>1. Init => AnalysisInv /\ SweepInv
    BY InitInv, SweepInitInv DEF Init
  <2>2. Init => Skipped
    <3> SUFFICES ASSUME Init PROVE Skipped
      OBVIOUS
    <3>1. skipped = {} /\ step = 1
      BY DEF Init
    <3> QED BY <3>1 DEF Skipped
  <2>3. Init => GapsClear
    BY DEF Init, GapsClear
  <2> QED BY <2>1, <2>2, <2>3
<1>2. AnalysisInv /\ SweepInv /\ Skipped /\ GapsClear /\ [Next]_vars
        => AnalysisInv' /\ SweepInv' /\ Skipped' /\ GapsClear'
  <2> SUFFICES ASSUME AnalysisInv, SweepInv, Skipped, GapsClear, [Next]_vars
               PROVE  AnalysisInv' /\ SweepInv' /\ Skipped' /\ GapsClear'
    OBVIOUS
  <2>1. [SweepNext]_sweepVars
    BY SweepSteps
  <2>2. SweepInv'
    BY <2>1, SweepStepInv
  <2> QED BY <2>2, NextInv, SkippedStep, GapsStep
<1> QED BY <1>1, <1>2, PTL DEF Spec

(* An analysis that has been made has run every audit.                      *)
LEMMA AllRun ==
  ASSUME AnalysisInv, Analysed, NEW k \in 1 .. 22, NEW name, name = Order[k],
         name \in Range(Sections)
  PROVE  Ready /\ active = walk /\ Settled(name, found[name]) /\ Reports(name) = Range(found[name])
<1>1. status \in {"ok", "served", "refused"} /\ Ready
  BY PlacedReady DEF AnalysisInv, Analysed
<1>2. step = 23 /\ \A s \in Range(Sections) : Reports(s) = Range(found[s])
  BY <1>1 DEF AnalysisInv, Reporting
<1>3. k \in 1 .. step - 1
  BY <1>2
<1> QED BY <1>1, <1>2, <1>3, ActiveFacts DEF AnalysisInv, AllSettled

(* The analysis keeps what it works with well formed: where it is, what each *)
(* audit found, what the report is made of.                                 *)
THEOREM AnalysisTypeCorrect == Spec => []TypeOK
<1>1. AnalysisInv /\ SweepInv /\ Skipped => TypeOK
  <2> SUFFICES ASSUME AnalysisInv, SweepInv, Skipped PROVE TypeOK
    OBVIOUS
  <2>1. SweepTypeOK
    BY DEF SweepInv
  <2>2. /\ image \in Images /\ bad \subseteq 0 .. image.end - 1 /\ step \in 1 .. Len(Order) + 1
        /\ status \in {"running", "ok", "served", "refused"} \union Errors
    BY OrderLength DEF AnalysisInv, Placed
  <2>3. /\ DOMAIN found = Range(Order) \union Calls
        /\ \A i \in step .. Len(Order) : found[Order[i]] = <<>>
    BY OrderLength DEF AnalysisInv, Answered
  <2>4. \A i \in DOMAIN report : report[i][1] \in Range(Sections)
    BY DEF AnalysisInv, Reporting
  <2>5. \A e \in skipped : e.path \in Seq(STRING) /\ e.rec.kind = "rec"
    BY DEF Skipped, LeftOut
  <2> QED BY <2>1, <2>2, <2>3, <2>4, <2>5 DEF TypeOK
<1> QED BY <1>1, AnalysisInvariant, PTL

(* An UnexpectedEof returned by analyse_with_options comes of something that *)
(* the volume itself names, never of where an entry of its tree points.     *)
THEOREM EofIsJustified == Spec => []EofJustified
<1>1. AnalysisInv => EofJustified
  BY DEF AnalysisInv, EofCutOff, EofJustified, CutOff
<1> QED BY <1>1, AnalysisInvariant, PTL

(* What the walk and the two audits pass over for an UnexpectedEof is among  *)
(* the entries that audit_bounds reports, but for the three kinds named.    *)
THEOREM OmissionsAreSurfaced == Spec => []SkippedIsSurfaced
<1>1. AnalysisInv /\ Skipped => SkippedIsSurfaced
  <2> SUFFICES ASSUME AnalysisInv, Skipped, Analysed, image.len = image.end, NEW e \in skipped
               PROVE  \/ e \in Reports("bounds")
                      \/ e.rec.size = 0
                      \/ e.rec.dir /\ AreasPastEnd(e.rec) # {}
    BY DEF SkippedIsSurfaced
  <2>1. "bounds" \in Range(Sections) /\ step > 18
    BY SectionsAre DEF AnalysisInv, Reporting, Analysed
  <2>2. Reports("bounds") = Range(found["bounds"])
    BY <2>1, OrderNames, AllRun
  <2> QED BY <2>1, <2>2 DEF Skipped, LeftOut
<1> QED BY <1>1, AnalysisInvariant, PTL

(* Looking the ancestors of a directory up by path, as detect_directory_cycles *)
(* does, finds those that lie inside themselves, and no others where names   *)
(* hold no separator.                                                       *)
THEOREM CyclesAreFlagged == Spec => []CyclesFlagged
<1>1. AnalysisInv => CyclesFlagged
  <2> SUFFICES ASSUME AnalysisInv, Analysed, active.tag = "ok", PathsDiffer(active.out)
               PROVE  /\ InsideItself(active.out) \subseteq Reports("cycles")
                      /\ NoSeparator(active.out) => Reports("cycles") = InsideItself(active.out)
    BY DEF CyclesFlagged
  <2>1. "cycles" \in Range(Sections)
    BY SectionsAre
  <2>2. /\ active = walk /\ Settled("cycles", found["cycles"])
        /\ Reports("cycles") = Range(found["cycles"])
    BY <2>1, OrderNames, AllRun
  <2> QED BY <2>2 DEF Settled, CyclesFound
<1> QED BY <1>1, AnalysisInvariant, PTL

(* recover_lost_files misses no file of a phantom directory that its probe   *)
(* of one sector gives a large enough size for.                             *)
THEOREM LostFilesAreReported == Spec => []LostComplete
<1>1. AnalysisInv => LostComplete
  <2> SUFFICES ASSUME AnalysisInv, Analysed, active.tag = "ok", NEW p \in Phantoms(active.out),
                      OwnSize(p) <= SECTOR \/ Sized(p)
               PROVE  FilesLost(p) \subseteq Reports("lost")
    BY DEF LostComplete
  <2>1. "lost" \in Range(Sections)
    BY SectionsAre
  <2>2. /\ active = walk /\ Settled("lost", found["lost"])
        /\ Reports("lost") = Range(found["lost"])
    BY <2>1, OrderNames, AllRun
  <2>3. LostFound(active.out, found["lost"])
    BY <2>2 DEF Settled
  <2>4. PICK n : n = OwnSize(p)
    OBVIOUS
  <2>5. \A r \in Range(read_dir(p, n).recs) : ~r.dir => <<p, r>> \in Range(found["lost"])
    BY <2>3, <2>4 DEF LostFound
  <2> QED BY <2>2, <2>4, <2>5 DEF FilesLost
<1> QED BY <1>1, AnalysisInvariant, PTL

(* No file of an older session whose data the active tree no longer starts   *)
(* at escapes the audit of the superseded content.                          *)
THEOREM OldContentIsReported == Spec => []OldContentReported
<1>1. AnalysisInv => OldContentReported
  <2> SUFFICES ASSUME AnalysisInv, Analysed, active.tag = "ok", NEW i \in DOMAIN image.older,
                      NEW e \in Range(trees.older[i].out), IsFile(e),
                      e.rec.lba \notin {f.rec.lba : f \in {g \in Range(active.out) : IsFile(g)}}
               PROVE  \E why \in {"deleted", "replaced"} : <<i, e, why>> \in Reports("superseded")
    BY DEF OldContentReported
  <2>1. "superseded" \in Range(Sections)
    BY SectionsAre
  <2>2. /\ Ready /\ active = walk /\ Settled("superseded", found["superseded"])
        /\ Reports("superseded") = Range(found["superseded"])
    BY SMTT(40), <2>1, OrderNames, AllRun
  <2>3. OldFound(active.out, found["superseded"])
    BY <2>2 DEF Settled
  <2>4. PICK s : s = image.older[i]
    OBVIOUS
  <2>5. trees.older[i] = walk_session(s)
    BY <2>2, <2>4, OlderFacts
  <2> QED BY <2>2, <2>3, <2>4, <2>5 DEF OldFound, FileLbas
<1> QED BY <1>1, AnalysisInvariant, PTL

(* What audit_sector_gaps calls unclaimed, no directory and no first extent  *)
(* takes: its list of the entries misses nothing that a worklist of its own *)
(* over the directories would find.                                         *)
THEOREM GapsAreUnclaimed == Spec => []GapsUnclaimed
<1>1. AnalysisInv /\ GapsClear => GapsUnclaimed
  <2> SUFFICES ASSUME AnalysisInv, GapsClear, status = "served", active.tag = "ok",
                      image.root.size <= SECTOR, OneSizeEach(active.out),
                      NEW g \in Range(found["gaps"]), g[1] \in Spread(image.root)
               PROVE  FALSE
    BY DEF GapsUnclaimed
  <2>1. Ready
    BY PlacedReady DEF AnalysisInv, Placed
  <2>2. PICK x : x = image.root
    OBVIOUS
  <2>3. IsImage(image) /\ IsExtent(x) /\ TakenWhole(x, active.out)
    BY <2>1, <2>2, TreeWhole DEF Ready, IsImage
  <2>4. Taken(x, active.out, g[1])
    BY <2>2, <2>3, SpreadTaken
  <2>5. g[1] # x.lba /\ \A e \in Range(active.out) : g[1] \notin RunOf(e.rec.lba, e.rec.size)
    BY <2>2 DEF GapsClear
  <2>6. g[1] \in RunOf(x.lba, x.size)
    BY <2>4, <2>5 DEF Taken
  <2>7. PICK l, n \in Nat : l = x.lba /\ n = x.size
    BY <2>3 DEF IsExtent
  <2>8. SectorsOf(n) <= 1
    <3>1. PICK k \in Nat : k = SectorsOf(n) /\ k * SECTOR <= n + SECTOR - 1
      BY SectorsFacts
    <3>2. n <= SECTOR /\ SECTOR \in Nat \ {0}
      BY <2>2, <2>7, SectorAssumption
    <3>3. k * SECTOR < 2 * SECTOR
      <4>1. k * SECTOR \in Nat
        BY <3>2
      <4> QED BY <2>7, <3>1, <3>2, <4>1
    <3>4. k <= 1
      <4> SUFFICES ASSUME k >= 2 PROVE FALSE
        OBVIOUS
      <4>1. k * SECTOR >= 2 * SECTOR
        BY <3>2
      <4> QED BY <3>2, <3>3, <4>1
    <3> QED BY <3>1, <3>4
  <2>9. RunOf(l, n) = {l}
    BY <2>7, <2>8, SectorsFacts DEF RunOf, Greater
  <2> QED BY <2>5, <2>6, <2>7, <2>9
<1> QED BY <1>1, AnalysisInvariant, PTL

(* The overlap check inside the analysis is the sweep: what is proved of it  *)
(* alone holds of the report, whatever is loaded and whenever it stops.     *)
THEOREM AnalysisSweeps == Spec => SweepSpec
<1>1. Init => SweepInit
  BY DEF Init
<1>2. AnalysisInv /\ [Next]_vars => [SweepNext]_sweepVars
  BY SweepSteps
<1> QED BY <1>1, <1>2, AnalysisInvariant, PTL DEF Spec, SweepSpec

(* So the pairs an analysis reports do overlap in part, and where two extents *)
(* do, the later of them, or one with exactly its sectors, is reported.      *)
THEOREM AnalysisReportsOverlaps == Spec => []OverlapsReported
BY AnalysisSweeps, SweepReportsOverlaps, PTL

==================================================================================
