-------------------------------- MODULE MCIsoVfs --------------------------------
(***************************************************************************)
(* Small volumes for IsoVfs: a root directory at lba 1, a subdirectory at   *)
(* lba 2, files at lbas 3 and 4.                                            *)
(***************************************************************************)
EXTENDS IsoVfs, FiniteSets

CONSTANTS w1, w2, a, b, s0, s1, s2, none

McWorkers == {w1, w2}
McLbas    == 1 .. 4
McNames   == {a, b}
McFacts   == {s0, s1, s2}

Rec(name, dir, lba, facts) == [name |-> name, dir |-> dir, lba |-> lba, facts |-> facts]

Listings(records, max) == UNION {[1 .. n -> records] : n \in 0 .. max}

VolumesOf(inRoot, inSub) ==
  {[l \in {1, 2} |-> IF l = 1 THEN [self |-> s0, readable |-> TRUE, recs |-> r]
                     ELSE [self |-> s0, readable |-> ok, recs |-> q]] :
     r \in Listings(inRoot, 2), q \in Listings(inSub, 1), ok \in BOOLEAN}

(* No extent is named twice: a subdirectory dated by its record and not by  *)
(* its ".", or one whose record points back at the root and says of it what *)
(* the descriptor does not.                                                 *)
Unshared == VolumesOf({Rec(a, TRUE, 2, s1), Rec(b, FALSE, 3, s1), Rec(a, FALSE, 4, s2)},
                      {Rec(b, FALSE, 3, s1), Rec(b, TRUE, 1, s2)})

(* Two empty files or symlinks at one lba, a file laid over the root        *)
(* directory.                                                               *)
Shared == VolumesOf({Rec(a, TRUE, 2, s1), Rec(a, FALSE, 3, s1), Rec(b, FALSE, 3, s2)},
                    {Rec(b, FALSE, 3, s0), Rec(a, FALSE, 1, s2)})

Volumes == Unshared \union Shared
=================================================================================
