---------------------------------- MODULE Lists ----------------------------------
(***************************************************************************)
(* Lists made of sets, and of other lists: what the code does with sort,     *)
(* filter and map.                                                          *)
(***************************************************************************)
EXTENDS Naturals, FiniteSets, Sequences, SequencesExt

Each(s, Make(_)) == [i \in DOMAIN s |-> Make(s[i])]

(* The members of a finite set in a total order, the least first: the k-th   *)
(* is the one that k members come up to.                                    *)
InOrder(S, Leq(_, _)) ==
  [k \in 1 .. Cardinality(S) |-> CHOOSE x \in S : Cardinality({y \in S : Leq(y, x)}) = k]

Ascending(S) == InOrder(S, LAMBDA m, n : m <= n)

(* The items at some of the places of a list, in its order.                 *)
Items(s, places) == Each(Ascending(places), LAMBDA i : s[i])

Pick(s, Test(_)) == Items(s, {i \in DOMAIN s : Test(s[i])})

IsList(s) == s \in Seq(Range(s))
================================================================================
