------------------------------ MODULE MCDirRecords ------------------------------
(* Directories of up to two sectors of three bytes, for DirRecords.        *)
EXTENDS DirRecords

CONSTANTS a, b

McNames == {a, b}
McSectorSize == 3

Rec(len, name, multi, area) ==
  [len |-> len, name |-> name, dot |-> FALSE, multi |-> multi, area |-> area]
Dot == [len |-> 1, name |-> a, dot |-> TRUE, multi |-> FALSE, area |-> "none"]

Cells == {Zero, Bad, Dot, Rec(1, a, FALSE, "unreadable"), Rec(1, b, FALSE, "readable")}
           \union {Rec(len, name, multi, "none") :
                     len \in 1 .. 2, name \in McNames, multi \in BOOLEAN}

AllRegions == UNION {[0 .. n - 1 -> Cells] : n \in 0 .. 4}

(* A second sector with two cells, where no record crosses into the next     *)
(* sector and every sector starts with one.                                  *)
Fitting(o) == {cell \in Cells : /\ o % McSectorSize = 0 => cell # Zero
                               /\ (o % McSectorSize) + cell.len <= McSectorSize}

FewCells == Cells \ ({Bad, Rec(1, b, FALSE, "readable")} \union
                     {Rec(len, b, TRUE, "none") : len \in 1 .. 2})

LaidOutRegions ==
  {d \in [0 .. 4 -> FewCells] : \A o \in DOMAIN d : d[o] \in Fitting(o)}

McRegions == AllRegions \union LaidOutRegions
=================================================================================
