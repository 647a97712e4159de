------------------------------ MODULE MCFileReader ------------------------------
(***************************************************************************)
(* Small files for FileReader: sectors of two bytes, up to three extents    *)
(* far apart.                                                               *)
(***************************************************************************)
EXTENDS FileReader

(* Extents of the given sizes, one after the other in the file, apart on    *)
(* the disc.                                                                *)
Placed(sizes) ==
  LET start[i \in DOMAIN sizes] == IF i = 1 THEN 0 ELSE start[i - 1] + sizes[i - 1]
  IN  [i \in DOMAIN sizes |-> [lba |-> 10 * i, size |-> sizes[i], start |-> start[i]]]

FilesOf(max1, max2, max3) ==
  {Placed(<<i>>) : i \in 0 .. max1}
    \union {Placed(<<i, j>>) : i, j \in 0 .. max2}
    \union {Placed(<<i, j, k>>) : i, j, k \in 0 .. max3}

McCounts == {0, 1, 3, 6}

SeekBy(offsets) == [whence : {"start", "end", "current"}, by : offsets]

(* Files below the 32-bit limit, and seeks that stay inside 64 bits.        *)
SmallFiles == FilesOf(5, 4, 3)
SmallSeeks == SeekBy({-3, -1, 0, 2, 5, 9})

(* Files whose extents together exceed the limit, read from end to end.     *)
LongFiles == {f \in FilesOf(5, 5, 5) : \E i \in DOMAIN f : f[i].size = 5}
NoSeeks   == {}
================================================================================
