------------------------------- MODULE OverlapSweep -------------------------------
(***************************************************************************)
(* The overlap check of the analysis (forensic/src/analysis.rs): the extents *)
(* of the files, sorted, are swept from the front; of those passed, only    *)
(* the one that reaches furthest is kept to compare the next with.          *)
(***************************************************************************)
EXTENDS Naturals, Sequences

CONSTANT NoCover

ASSUME NoCoverAssumption == NoCover \notin Nat

(* An extent: first sector, the sector past the last, and the file, by its  *)
(* place in the listing.  The code sorts by path last, which only matters    *)
(* between extents that are the same.                                       *)
VARIABLES exts,      \* the extents, sorted; empty before the listing is made
          at,        \* how many have been swept
          cover,     \* the index of the one kept, or NoCover
          overlaps   \* the anomalies: <<later, earlier>>, by index
sweepVars == <<exts, at, cover, overlaps>>

(* (start, end, path), in lexicographic order.                              *)
Before(d, e) ==
  \/ d.start < e.start
  \/ d.start = e.start /\ d.end < e.end
  \/ d.start = e.start /\ d.end = e.end /\ d.path <= e.path

Sorted(s) == \A i, j \in DOMAIN s : i < j => Before(s[i], s[j])

Same(d, e)   == d.start = e.start /\ d.end = e.end
Meets(d, e)  == d.start < e.end /\ e.start < d.end

(* Extents of files with something in them.                                 *)
IsExtents(s) ==
  /\ s \in Seq([start : Nat, end : Nat, path : Nat])
  /\ \A i \in DOMAIN s : s[i].start < s[i].end

SweepTypeOK ==
  /\ IsExtents(exts) /\ Sorted(exts)
  /\ at \in 0 .. Len(exts)
  /\ cover \in (1 .. Len(exts)) \union {NoCover}
  /\ overlaps \in SUBSET ((1 .. Len(exts)) \X (1 .. Len(exts)))

--------------------------------------------------------------------------------

SweepInit == exts = <<>> /\ at = 0 /\ cover = NoCover /\ overlaps = {}

(* The extents of the listing, sorted.                                      *)
SweepLoad ==
  /\ exts = <<>>
  /\ IsExtents(exts') /\ Sorted(exts')
  /\ UNCHANGED <<at, cover, overlaps>>

(* Mutant: an extent is compared with the one before it in the order.        *)
OverlapsPrevious(e) == at > 0 /\ e.start < exts[at].end /\ ~Same(e, exts[at])

(* The extent starts inside the one kept and is not the same.               *)
OverlapsCover(e) == cover # NoCover /\ e.start < exts[cover].end /\ ~Same(e, exts[cover])

ReachesFurther(e) == cover = NoCover \/ e.end > exts[cover].end

SweepStep ==
  /\ at < Len(exts)
  /\ LET next == at + 1
         e    == exts[next]
     IN  /\ overlaps' = IF OverlapsCover(e) THEN overlaps \union {<<next, cover>>} ELSE overlaps
         /\ cover' = IF ReachesFurther(e) THEN next ELSE cover
         /\ at' = next
  /\ UNCHANGED exts

SweepNext == SweepLoad \/ SweepStep

SweepSpec == SweepInit /\ [][SweepNext]_sweepVars

--------------------------------------------------------------------------------

(* What is reported is so: the two extents have a sector in common and are  *)
(* not the same.                                                            *)
OverlapsReal ==
  \A p \in overlaps : Meets(exts[p[1]], exts[p[2]]) /\ ~Same(exts[p[1]], exts[p[2]])

Reported(i) == \E p \in overlaps : p[1] = i

(* One extent kept is enough: when two extents partially overlap, the later *)
(* of them, or another file with exactly its sectors, has been reported.    *)
OverlapsPaired ==
  \A j \in 1 .. at : \A i \in 1 .. j - 1 :
    Meets(exts[i], exts[j]) /\ ~Same(exts[i], exts[j]) =>
      \E k \in 1 .. j : Same(exts[k], exts[j]) /\ Reported(k)

(* "A partial overlap (intersecting, not identical)" is reported, and        *)
(* nothing else is.                                                         *)
OverlapsReported == OverlapsReal /\ OverlapsPaired
================================================================================
