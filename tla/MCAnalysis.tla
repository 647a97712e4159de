-------------------------------- MODULE MCAnalysis --------------------------------
(***************************************************************************)
(* Small images for Analysis: a disc of twelve sectors of four slots, varied *)
(* in one or two places at a time.                                          *)
(***************************************************************************)
EXTENDS Analysis

(* Records.                                                                 *)
Rec(name, lba, size) ==
  [kind |-> "rec", name |-> <<name>>, dot |-> FALSE, dir |-> FALSE, lba |-> lba,
   size |-> size, extra |-> <<>>, su |-> <<>>, twin |-> TRUE, version |-> None,
   stamp |-> None, doc |-> FALSE, wide |-> <<name>>]
Sub(name, lba, size) == [Rec(name, lba, size) EXCEPT !.dir = TRUE]
Dot(lba, size)       == [Sub(".", lba, size) EXCEPT !.dot = TRUE]
DotDot               == [Sub("..", 4, 4) EXCEPT !.dot = TRUE]
With(rec, su)        == [rec EXCEPT !.su = su]

Sector(a, b, c, d) == <<a, b, c, d>>
Data(n)  == [i \in 1 .. 4 |-> IF i <= n THEN Bytes ELSE Free]
Dir(l, n, a, b) == Sector(Dot(l, n), DotDot, a, b)

(* System Use entries.                                                      *)
Entry(sig, data) == [sig |-> sig, whole |-> TRUE, data |-> data]
NM(text)  == Entry("NM", [text |-> <<text>>, more |-> FALSE])
TF(t)     == Entry("TF", [long |-> FALSE, modify |-> t])
Slashed   == Entry("NM", [text |-> <<"A", "/", "B">>, more |-> FALSE])
PX        == Entry("PX", 7)
CE(l, su) == Entry("CE", [lba |-> l, sectors |-> 1, fits |-> TRUE, area |-> su])
Comp(kind, text, more) == [kind |-> kind, text |-> <<text>>, more |-> more]
SL(comps) == Entry("SL", comps)
Stamp(m, utc, zone) == [minute |-> m, utc |-> utc, zone |-> zone]

(* Path tables and boot catalogs.                                           *)
Row(lba)       == [lba |-> lba, parent |-> 1, dir_id |-> <<"D">>]
NoRow          == [Row(0) EXCEPT !.dir_id = NoName]
Table(lba, rows) == [lba |-> lba, sectors |-> 1, records |-> rows]
BootRow(kind, count, lba, sectors) == [kind |-> kind, count |-> count, lba |-> lba, sectors |-> sectors]

--------------------------------------------------------------------------------
(* The disc: 0 is the system area, 1 the descriptor, 2 and 3 the path        *)
(* tables, 4 the root, 5 a directory in it, 6 to 8 data, 9 to 11 free; the   *)
(* last four are there with several sessions only.                          *)

F == With([Rec("F", 6, 3) EXCEPT !.stamp = Stamp(3, 3, 0)], <<NM("F"), PX, TF(3)>>)
D == Sub("D", 5, 4)
G == With(Rec("G", 7, 4), <<NM("G")>>)

Disc ==
  [l \in 0 .. 15 |->
     CASE l = 4 -> Dir(4, 4, F, D)
       [] l = 5 -> Dir(5, 4, G, Free)
       [] l = 1 -> Data(3)
       [] l \in {6, 7, 8} -> Data(IF l = 6 THEN 3 ELSE 4)
       [] OTHER -> Data(0)]

Clean ==
  [len |-> 12, end |-> 12, disc |-> Disc, root |-> [lba |-> 4, size |-> 4],
   joliet |-> None, older |-> <<>>, pvd |-> 1, catalog |-> None, entries |-> <<>>,
   l_table |-> Table(2, <<Row(4), Row(5)>>), m_table |-> Table(3, <<Row(4), Row(5), NoRow>>),
   space |-> 10, descriptors |-> 1, sp_skip |-> 0, created |-> [utc |-> 3, zone |-> 0],
   odd_dates |-> <<>>, split |-> <<>>, raw |-> FALSE, wrong_edc |-> {}, wrong_ecc |-> {}]

Root(a, b) == [Clean EXCEPT !.disc[4] = Dir(4, 4, a, b)]
Both(a, b) == [Clean EXCEPT !.disc[5] = Dir(5, 4, a, b)]

(* A file or a directory anywhere, in a short and a whole image.             *)
Pointed ==
  {Root([F EXCEPT !.lba = l, !.size = n], D) : l \in {6, 10, 13}, n \in {0, 4, 7}}
    \union {Root(F, [D EXCEPT !.lba = l, !.size = n]) : l \in {5, 11, 13}, n \in {0, 4, 8}}

Cut == {[i EXCEPT !.end = n] : i \in {Clean, [Clean EXCEPT !.space = 12]}, n \in {2, 5, 6, 7, 11}}

(* Directories that lie in each other, with and without names.              *)
Cyclic ==
  {Both(x, y) : x \in {Sub("E", l, 4) : l \in {4, 5}}, y \in {Free, Rec("H", 8, 4)}}
    \union {[Both(Sub("E", 9, 4), G) EXCEPT !.disc[9] = Dir(9, 4, Sub("P", l, 4), Free)] : l \in {4, 5, 9}}
    \union {Root(F, With([D EXCEPT !.name = <<>>], <<>>)), Both(G, [Sub("", 5, 4) EXCEPT !.name = <<>>])}
    \union {Root(Sub("D", 5, 4), Sub("D", 9, 4))}
    (* A and A/B in the root: the same extent, and one inside the other.     *)
    \union {Root(Sub("A", 5, 4), With(Sub("B", l, 4), <<Slashed>>)) : l \in {5, 9}}
    \union {Both(With(Sub("B", l, 4), <<Slashed>>), Free) : l \in {4, 5}}
    \union {[Root(Sub("D", 5, 4), Sub("E", 5, 8)) EXCEPT !.disc[6] = Sector(Rec("Q", 9, 4), Free, Free, Free)]}

(* Three files, one over two.                                               *)
Overlapping ==
  {[Root([F EXCEPT !.lba = 5, !.size = n], D) EXCEPT
      !.disc[5] = Dir(5, 4, Rec("G", 6, m), Rec("H", 7, k))] :
     n \in {4, 8, 16}, m \in {4, 8}, k \in {4, 12}}

(* A directory only the path table has, of one or two sectors.              *)
Orphan(n, a, b) ==
  [Clean EXCEPT !.l_table.records = <<Row(4), Row(5), Row(9)>>, !.disc[9] = Dir(9, n, a, b),
                !.disc[10] = Sector(Rec("L", 6, 4), Rec("M", 7, 4), Free, Free)]
Orphans ==
  {Orphan(n, a, b) : n \in {4, 8}, a \in {Sub("E", 5, 4), Rec("K", 7, 8), Rec("K", 7, 13)},
                     b \in {Free, Rec("J", 8, 4)}}
    \union {[Orphan(4, F, G) EXCEPT !.l_table.records = <<Row(4), Row(l)>>] : l \in {5, 8, 11, 13}}

(* The root of an older session in sector 9, its descriptors from 10 on, the *)
(* active session's in 14 and 15.                                           *)
Pvd(l)     == [kind |-> "pvd", root |-> [lba |-> l, size |-> 4]]
PassedOver == [kind |-> "other"]
Broken     == [kind |-> "bad"]

Older(a, b, chain) ==
  [Clean EXCEPT !.len = 16, !.end = 16, !.space = 16, !.pvd = 14, !.disc[10] = Data(3),
     !.disc[14] = Data(4), !.disc[9] = Dir(9, 4, a, b), !.older = <<[pvd |-> 10, chain |-> chain]>>]

Alone == <<Pvd(9), PassedOver>>
Chains ==
  {(* without a terminator: on into the descriptors of the active session *)
   <<Pvd(9), PassedOver, PassedOver, PassedOver, Pvd(4), PassedOver>>,
   (* a descriptor whose root is cut off, before and in the place of the last *)
   <<Pvd(9), Pvd(17), Pvd(9), PassedOver>>, <<Pvd(9), Pvd(17), PassedOver>>,
   <<Pvd(9), Pvd(8), PassedOver>>, <<Pvd(9), Broken, PassedOver>>}

Sessions2 ==
  {Older(a, b, Alone) : a \in {F, [F EXCEPT !.lba = 8], With(Rec("D", 5, 4), <<>>)},
                        b \in {Free, Rec("Old", 8, 4), Sub("Old", 17, 4)}}
    \union {Older(F, Free, chain) : chain \in Chains}
    \union {[Older(F, Free, chain) EXCEPT !.disc[9][1] = With(@, <<Entry("SP", 0)>>)] : chain \in Chains}

(* A second tree, rooted in sector 9.                                       *)
Joliet(a, b) ==
  [Clean EXCEPT !.joliet = [lba |-> 9, size |-> 4, tables |-> {10}], !.descriptors = 2,
                !.disc[9] = Dir(9, 4, a, b)]
Hybrid ==
  {Joliet(a, b) : a \in {Rec("F", 6, 3), [Rec("F", 6, 3) EXCEPT !.wide = <<"X", ";", "1">>]},
                  b \in {Rec("G", 7, 4), Rec("N", 8, 4), Sub("D", 5, 4)}}
    \union {[Joliet(F, G) EXCEPT !.joliet.lba = l] : l \in {8, 13}}

(* Continuation areas, and links.                                           *)
Linked ==
  {Root(With(F, su), D) :
     su \in {<<SL(<<Comp("root", "", FALSE), Comp("name", "a", FALSE)>>)>>,
             <<SL(<<Comp("name", "a", TRUE)>>), SL(<<Comp("parent", "", FALSE)>>)>>,
             <<SL(<<Comp("name", "a", FALSE)>>), CE(8, <<SL(<<Comp("parent", "", FALSE)>>)>>)>>,
             <<SL(<<Comp("current", "", FALSE)>>), [Entry("stop", 0) EXCEPT !.whole = FALSE]>>}}
    \union {Root(With(F, <<CE(13, <<>>)>>), D), Both(With(G, <<CE(13, <<>>)>>), Free),
            Root(F, With(D, <<Entry("CE", [CE(8, <<>>).data EXCEPT !.sectors = 2, !.fits = FALSE])>>)),
            Root(F, With(D, <<CE(8, <<NM("Dir")>>)>>)),
            [Root(With(F, <<NM("pad"), NM("F")>>), D) EXCEPT !.sp_skip = 1]}

(* The rest: one oddity each, and all at once.                               *)
Bootable ==
  [Clean EXCEPT !.catalog = 9,
     !.entries = <<BootRow("validation", 0, 0, 0), BootRow("bootable", 0, 8, 1), BootRow("more", 1, 0, 0),
                   BootRow("bootable", 0, 11, 2), BootRow("final", 9, 0, 0), BootRow("plain", 0, 7, 0)>>]
Odd ==
  {Clean, Bootable, [Bootable EXCEPT !.catalog = 13], [Bootable EXCEPT !.entries[1].kind = "other"],
   [Bootable EXCEPT !.entries[2].kind = "other", !.entries[5].kind = "other"],
   [Clean EXCEPT !.disc[0] = <<Magic, Free, Free, Free>>, !.disc[1] = Data(4), !.split = <<"space">>],
   [Clean EXCEPT !.disc[8] = <<Magic, Free, Free, Free>>, !.disc[5] = Dir(5, 4, [Rec("T", 8, 2) EXCEPT !.doc = TRUE], Free)],
   Root([F EXCEPT !.twin = FALSE, !.version = 2, !.stamp = Stamp(4, 9, 2)], D),
   [Clean EXCEPT !.disc[11] = Data(1)], [Clean EXCEPT !.raw = TRUE, !.space = 12, !.wrong_edc = {6, 7}, !.wrong_ecc = {7}],
   [Clean EXCEPT !.m_table.records = <<Row(4), [Row(5) EXCEPT !.parent = 2]>>], [Clean EXCEPT !.m_table.lba = 0], [Clean EXCEPT !.l_table.records = <<Row(4), NoRow, Row(5)>>],
   [Clean EXCEPT !.created = None, !.odd_dates = <<"creation">>],
   [Clean EXCEPT !.root.size = 8], [Clean EXCEPT !.root.size = 99], Root(F, Rec("H", 8, 4)),
   Root([F EXCEPT !.extra = <<[lba |-> 8, size |-> 4]>>], D), [Clean EXCEPT !.disc[5] = Data(4)]}

AllImages == Pointed \union Cut \union Cyclic \union Overlapping \union Orphans
               \union Sessions2 \union Hybrid \union Linked \union Odd
================================================================================
