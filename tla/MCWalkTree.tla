------------------------------- MODULE MCWalkTree -------------------------------
(***************************************************************************)
(* Small images for WalkTree, made the way read_dir makes its answers: an   *)
(* extent is a run of sectors, a sector past the image is an UnexpectedEof, *)
(* one damaged sector spoils the directory, and the records are those of    *)
(* the sectors in order.                                                    *)
(***************************************************************************)
EXTENDS WalkTree, SequencesExt

CONSTANTS a, b, c, f, none   \* names

McNames == {a, b, c, f, none}
McLbas  == 1 .. 4            \* sector 4 lies past the image
McSizes == 1 .. 3            \* three sectors are over the size limit
McRoot  == <<1, 1>>

ReadExtent(disc, e) ==
  LET run == e[1] .. e[1] + e[2] - 1
      content == [i \in 1 .. e[2] |-> disc[e[1] + i - 1].recs]
      Error(t) == [tag |-> t, recs |-> <<>>]
  IN  CASE e[2] = 3 -> Error("limit")
        [] e[2] # 3 /\ ~ (run \subseteq DOMAIN disc) -> Error("eof")
        [] e[2] # 3 /\ run \subseteq DOMAIN disc /\ \E s \in run : disc[s].bad -> Error("bad")
        [] OTHER -> [tag |-> "ok", recs |-> FlattenSeq(content)]

Dir(name, lba, size) == [name |-> name, dir |-> TRUE, lba |-> lba, size |-> size]
File == [name |-> f, dir |-> FALSE, lba |-> 1, size |-> 1]

Sectors(records, max) ==
  {[bad |-> FALSE, recs |-> r] : r \in UNION {[1 .. n -> records] : n \in 0 .. max}}
    \union {[bad |-> TRUE, recs |-> <<>>]}

(* Every disc of three sectors, damaged or holding some of the records: two *)
(* at most in the first and second sector, one in the third; and an image   *)
(* cut off before its root directory.                                       *)
ImagesOf(records) ==
  {[e \in McLbas \X McSizes |-> ReadExtent(<<s1, s2, s3>>, e)] :
     s1 \in Sectors(records, 2), s2 \in Sectors(records, 2), s3 \in Sectors(records, 1)}
    \union {[e \in McLbas \X McSizes |-> ReadExtent(<<>>, e)]}

(* Loops, shared extents, an extent referenced with two sizes, one past the *)
(* image and one over the limit.                                            *)
AnyImages ==
  ImagesOf({File, Dir(a, 1, 1), Dir(b, 2, 1), Dir(none, 3, 1), Dir(c, 2, 2), Dir(c, 3, 2),
            Dir(c, 4, 1), Dir(a, 3, 3)})
================================================================================
