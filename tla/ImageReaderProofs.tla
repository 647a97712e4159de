--------------------------- MODULE ImageReaderProofs ---------------------------
(***************************************************************************)
(* What the lists of Lists hold, what the listing of a directory holds, and  *)
(* what the walk of a tree answers, on every image and every device.        *)
(***************************************************************************)
EXTENDS Audits, SequenceTheorems, FiniteSetTheorems, WellFoundedInduction, TLAPS

LEMMA Least ==
  ASSUME NEW T \in SUBSET Nat, T # {}
  PROVE  \E x \in T : \A y \in T : x <= y
<1>1. PICK x \in T : \A y \in T : ~(<<y, x>> \in OpToRel(<, Nat))
  BY Zenon, NatLessThanWellFounded, WFMin
<1>2. \A y \in T : ~(y < x)
  BY <1>1 DEF OpToRel
<1> QED BY <1>2

LEMMA MinIsLeast ==
  ASSUME NEW T \in SUBSET Nat, T # {}
  PROVE  Min(T) \in T /\ \A y \in T : Min(T) <= y
BY Least DEF Min

IsOrder(R, S) ==
  /\ \A x \in S : <<x, x>> \in R
  /\ \A x, y \in S : <<x, y>> \in R \/ <<y, x>> \in R
  /\ \A x, y \in S : <<x, y>> \in R /\ <<y, x>> \in R => x = y
  /\ \A x, y, z \in S : <<x, y>> \in R /\ <<y, z>> \in R => <<x, z>> \in R

(* Those that come up to a member in an order.                              *)
UpTo(R, S, x) == {y \in S : <<y, x>> \in R}

(* The rank of a member in a total order counts from 1 to the size of the    *)
(* set, without gaps.                                                       *)
LEMMA Ranks ==
  ASSUME NEW S, IsFiniteSet(S), NEW R, IsOrder(R, S),
         NEW rank, \A x \in S : rank[x] = Cardinality(UpTo(R, S, x))
  PROVE  /\ Cardinality(S) \in Nat
         /\ \A x \in S : rank[x] \in 1 .. Cardinality(S)
         /\ \A x, y \in S : rank[x] = rank[y] => x = y
         /\ \A x, y \in S : rank[x] <= rank[y] => <<x, y>> \in R
         /\ \A k \in 1 .. Cardinality(S) : \E x \in S : rank[x] = k
<1> DEFINE Up(x) == UpTo(R, S, x)
<1>1. Cardinality(S) \in Nat
  BY FS_CardinalityType
<1>2. ASSUME NEW x \in S
      PROVE  IsFiniteSet(Up(x)) /\ Cardinality(Up(x)) \in Nat
             /\ Cardinality(Up(x)) <= Cardinality(S) /\ Cardinality(Up(x)) # 0
  <2>1. Up(x) \in SUBSET S /\ Up(x) # {}
    BY DEF IsOrder, UpTo
  <2> HIDE DEF Up
  <2> QED BY <2>1, FS_Subset, FS_CardinalityType, FS_EmptySet
<1>3. ASSUME NEW x \in S PROVE rank[x] = Cardinality(Up(x)) /\ rank[x] \in 1 .. Cardinality(S)
  <2>1. rank[x] = Cardinality(Up(x))
    OBVIOUS
  <2> HIDE DEF Up
  <2> QED BY <1>1, <1>2, <2>1
<1>4. ASSUME NEW x \in S, NEW y \in S, <<y, x>> \in R, x # y PROVE rank[y] < rank[x]
  <2>1. Up(y) \in SUBSET Up(x) /\ x \in Up(x) /\ x \notin Up(y)
    BY <1>4 DEF IsOrder, UpTo
  <2>2. rank[x] = Cardinality(Up(x)) /\ rank[y] = Cardinality(Up(y))
    OBVIOUS
  <2>3. Up(y) # Up(x)
    BY <2>1
  <2> HIDE DEF Up
  <2>4. Cardinality(Up(y)) <= Cardinality(Up(x)) /\ Cardinality(Up(y)) # Cardinality(Up(x))
    BY <1>2, <2>1, <2>3, FS_Subset
  <2> QED BY <1>2, <2>2, <2>4
<1> HIDE DEF Up
<1>5a. ASSUME NEW x \in S, NEW y \in S PROVE rank[x] \in Nat /\ rank[y] \in Nat
  <2>1. rank[x] \in 1 .. Cardinality(S) /\ rank[y] \in 1 .. Cardinality(S)
    BY Zenon, <1>3
  <2> HIDE DEF Up
  <2>2. \A n \in 1 .. Cardinality(S) : n \in Nat
    BY <1>1
  <2> QED BY Zenon, <2>1, <2>2
<1>6. ASSUME NEW x \in S, NEW y \in S, rank[x] <= rank[y] PROVE <<x, y>> \in R
  <2>1. SUFFICES ASSUME x # y, <<y, x>> \in R PROVE FALSE
    BY DEF IsOrder
  <2>2. rank[y] < rank[x]
    BY <1>4, <2>1
  <2> QED BY <1>5a, <1>6, <2>2
<1>5. ASSUME NEW x \in S, NEW y \in S, rank[x] = rank[y] PROVE x = y
  <2>1. rank[x] <= rank[y] /\ rank[y] <= rank[x]
    BY <1>5, <1>5a
  <2> QED BY <1>6, <2>1 DEF IsOrder
<1>7a. PICK f : f = [x \in S |-> rank[x]]
  OBVIOUS
<1>7. f \in Injection(S, 1 .. Cardinality(S))
  BY <1>3, <1>5, <1>7a DEF Injection, IsInjective
<1>8. IsFiniteSet(1 .. Cardinality(S)) /\ Cardinality(1 .. Cardinality(S)) = Cardinality(S)
  BY <1>1, FS_Interval
<1>9. f \in Surjection(S, 1 .. Cardinality(S))
  BY <1>7, <1>8, FS_Injection
<1>10. \A k \in 1 .. Cardinality(S) : \E x \in S : rank[x] = k
  BY <1>7a, <1>9 DEF Surjection
<1> QED BY <1>1, <1>3, <1>5, <1>6, <1>10

--------------------------------------------------------------------------------
(* Lists.                                                                   *)

LEMMA ListFacts ==
  ASSUME NEW s, IsList(s)
  PROVE  /\ Len(s) \in Nat /\ DOMAIN s = 1 .. Len(s)
         /\ s = [i \in 1 .. Len(s) |-> s[i]]
         /\ Range(s) = {s[i] : i \in 1 .. Len(s)}
         /\ \A i \in DOMAIN s : s[i] \in Range(s)
<1>1. s \in [1 .. Len(s) -> Range(s)] /\ Len(s) \in Nat /\ DOMAIN s = 1 .. Len(s)
  BY LenProperties DEF IsList
<1>2. Range(s) = {s[i] : i \in 1 .. Len(s)}
  BY <1>1 DEF Range
<1> QED BY <1>1, <1>2

LEMMA IsListAny ==
  ASSUME NEW T, NEW s \in Seq(T)
  PROVE  IsList(s) /\ Range(s) \subseteq T
BY SeqOfRange, RangeOfSeq DEF IsList

LEMMA ListIn ==
  ASSUME NEW T, NEW s, IsList(s), Range(s) \subseteq T
  PROVE  s \in Seq(T)
BY SeqMonotonic DEF IsList

LEMMA FunctionIsList ==
  ASSUME NEW n \in Nat, NEW f, f = [i \in 1 .. n |-> f[i]]
  PROVE  IsList(f) /\ Len(f) = n /\ DOMAIN f = 1 .. n /\ Range(f) = {f[i] : i \in 1 .. n}
<1>1. DOMAIN f = 1 .. n
  OBVIOUS
<1>2. Range(f) = {f[i] : i \in 1 .. n}
  BY <1>1 DEF Range
<1>3. f \in [1 .. n -> Range(f)]
  BY <1>1, <1>2
<1>4. f \in Seq(Range(f))
  BY <1>3, SeqDef
<1>5. Len(f) \in Nat /\ 1 .. Len(f) = 1 .. n
  BY <1>1, <1>4, LenProperties
<1>6. Len(f) = n
  BY <1>5
<1> QED BY <1>1, <1>2, <1>4, <1>6 DEF IsList

LEMMA EmptyList == IsList(<<>>) /\ Len(<<>>) = 0 /\ Range(<<>>) = {} /\ DOMAIN <<>> = {}
<1>1. Range(<<>>) = {}
  BY DEF Range
<1> QED BY <1>1, EmptySeq DEF IsList

LEMMA OneList == ASSUME NEW x PROVE IsList(<<x>>) /\ Range(<<x>>) = {x} /\ Len(<<x>>) = 1
<1>1. <<x>> \in Seq({x}) /\ DOMAIN <<x>> = {1}
  OBVIOUS
<1>2. Range(<<x>>) = {x}
  BY <1>1 DEF Range
<1> QED BY <1>1, <1>2 DEF IsList

LEMMA ConcatList ==
  ASSUME NEW s, NEW t, IsList(s), IsList(t)
  PROVE  /\ IsList(s \o t) /\ Range(s \o t) = Range(s) \cup Range(t)
         /\ Len(s \o t) = Len(s) + Len(t)
<1> DEFINE T == Range(s) \cup Range(t)
<1>1. s \in Seq(T) /\ t \in Seq(T)
  BY SeqMonotonic DEF IsList
<1> HIDE DEF T
<1>2. Range(s \o t) = Range(s) \cup Range(t)
  BY <1>1, RangeConcatenation
<1> QED BY ZenonT(60), <1>1, <1>2, ConcatProperties, IsListAny

(* What is made of each item is a list again.                               *)
LEMMA MappedList ==
  ASSUME NEW s, IsList(s), NEW f, f = [i \in DOMAIN s |-> f[i]]
  PROVE  /\ IsList(f) /\ Len(f) = Len(s) /\ DOMAIN f = DOMAIN s
         /\ Range(f) = {f[i] : i \in DOMAIN s}
BY SMTT(40), ListFacts, FunctionIsList

(* Lists put one after the other hold what they hold.                       *)
LEMMA Flattened ==
  ASSUME NEW ss, IsList(ss), \A i \in DOMAIN ss : IsList(ss[i])
  PROVE  /\ IsList(FlattenSeq(ss))
         /\ Range(FlattenSeq(ss)) = UNION {Range(ss[i]) : i \in DOMAIN ss}
         /\ \A c \in Nat : (\A i \in DOMAIN ss : Len(ss[i]) <= c)
                             => Len(FlattenSeq(ss)) <= Len(ss) * c
<1>1. Len(ss) \in Nat /\ DOMAIN ss = 1 .. Len(ss) /\ ss = [i \in 1 .. Len(ss) |-> ss[i]]
  BY ListFacts
<1>2. CASE Len(ss) = 0
  <2>1. DOMAIN ss = {} /\ FlattenSeq(ss) = ss
    BY <1>1, <1>2 DEF FlattenSeq
  <2>2. Range(ss) = {}
    BY <2>1 DEF Range
  <2>3. \A c \in Nat : Len(FlattenSeq(ss)) <= Len(ss) * c
    BY <1>2, <2>1
  <2> QED BY <2>1, <2>2, <2>3
<1>3. CASE Len(ss) # 0
  <2> DEFINE n == Len(ss)
             Flat(g, k) == g = [i \in 1 .. k |-> IF i = 1 THEN ss[i] ELSE g[i - 1] \o ss[i]]
             T == UNION {Range(ss[i]) : i \in DOMAIN ss}
             F == CHOOSE g : Flat(g, n)
             Short(k) == \A c \in Nat : (\A i \in DOMAIN ss : Len(ss[i]) <= c)
                                          => Len(F[k]) <= k * c
             Bad == {k \in 1 .. n : ~\E g : Flat(g, k)}
             Wrong == {k \in 1 .. n : ~(/\ IsList(F[k])
                                        /\ Range(F[k]) = UNION {Range(ss[i]) : i \in 1 .. k}
                                        /\ Short(k))}
  <2>1. Bad = {}
    <3>1. SUFFICES ASSUME Bad # {} PROVE FALSE
      OBVIOUS
    <3>2. Bad \in SUBSET Nat
      <4>1. \A i \in 1 .. n : i \in Nat
        BY <1>1
      <4> HIDE DEF n, Flat
      <4> QED BY <4>1
    <3>3. PICK k \in Bad : \A m \in Bad : k <= m
      BY <3>1, <3>2, Least
    <3>4. k \in 1 .. n /\ ~\E g : Flat(g, k)
      OBVIOUS
    <3>5. CASE k = 1
      <4> DEFINE g == [i \in 1 .. k |-> ss[i]]
      <4>1. g = [i \in 1 .. k |-> IF i = 1 THEN ss[i] ELSE g[i - 1] \o ss[i]]
        BY <3>5
      <4> HIDE DEF g
      <4> QED BY <3>4, <4>1
    <3>6. CASE k # 1
      <4>0. k - 1 \in 1 .. n /\ ~(k <= k - 1)
        BY <1>1, <3>4, <3>6
      <4>1. k - 1 \in 1 .. n /\ k - 1 \notin Bad
        <5> HIDE DEF n, Flat, Bad
        <5> QED BY <3>3, <4>0
      <4>2. PICK h : Flat(h, k - 1)
        BY <4>1
      <4> DEFINE g == [i \in 1 .. k |-> IF i = k THEN h[k - 1] \o ss[k] ELSE h[i]]
      <4>3. \A i \in 1 .. k - 1 : g[i] = h[i]
        BY <1>1, <3>4
      <4>4. g[k] = h[k - 1] \o ss[k] /\ h[k - 1] = g[k - 1] /\ g = [i \in 1 .. k |-> g[i]]
        BY <1>1, <3>4, <4>1, <4>3
      <4> HIDE DEF g
      <4>5. \A i \in 1 .. k : g[i] = IF i = 1 THEN ss[i] ELSE g[i - 1] \o ss[i]
        <5> TAKE i \in 1 .. k
        <5>1. CASE i = k
          BY <3>6, <4>4, <5>1
        <5>2. CASE i # k
          <6>1. i \in 1 .. k - 1 /\ (i # 1 => i - 1 \in 1 .. k - 1)
            BY <1>1, <3>4, <5>2
          <6>2. h[i] = IF i = 1 THEN ss[i] ELSE h[i - 1] \o ss[i]
            BY <4>2, <6>1
          <6> QED BY <4>3, <6>1, <6>2
        <5> QED BY <5>1, <5>2
      <4>6. Flat(g, k)
        BY <4>4, <4>5
      <4> QED BY <3>4, <4>6
    <3> QED BY <3>5, <3>6
  <2>2. Flat(F, n)
    <3>1. n \in 1 .. n
      BY <1>1, <1>3
    <3>2. \E g : Flat(g, n)
      BY <2>1, <3>1
    <3> HIDE DEF Flat
    <3> QED BY <3>2
  <2>3. FlattenSeq(ss) = F[n]
    BY <1>3 DEF FlattenSeq
  <2>4. \A i \in 1 .. n : F[i] = IF i = 1 THEN ss[i] ELSE F[i - 1] \o ss[i]
    BY Zenon, <2>2
  <2> HIDE DEF F, Flat
  <2>5. Wrong = {}
    <3>1. SUFFICES ASSUME Wrong # {} PROVE FALSE
      OBVIOUS
    <3>2. Wrong \in SUBSET Nat
      BY <1>1
    <3>3. PICK k \in Wrong : \A m \in Wrong : k <= m
      BY <3>1, <3>2, Least
    <3>4. k \in 1 .. n /\ IsList(ss[k])
      BY <1>1
    <3>5. k # 1
      <4>1. SUFFICES ASSUME k = 1 PROVE FALSE
        OBVIOUS
      <4>2. F[k] = ss[k] /\ 1 .. k = {k}
        BY <2>4, <3>4, <4>1
      <4>3. Range(F[k]) = UNION {Range(ss[i]) : i \in 1 .. k}
        BY <4>2
      <4>4. Short(k)
        BY <1>1, <3>4, <4>1, <4>2
      <4> QED BY <3>4, <4>2, <4>3, <4>4
    <3>6. k - 1 \in 1 .. n /\ k - 1 \notin Wrong
      <4>1. k - 1 \in 1 .. n /\ ~(k <= k - 1)
        BY <1>1, <3>4, <3>5
      <4> HIDE DEF Wrong
      <4> QED BY <3>3, <4>1
    <3>7. IsList(F[k - 1]) /\ Range(F[k - 1]) = UNION {Range(ss[i]) : i \in 1 .. k - 1}
          /\ Short(k - 1)
      BY <3>6
    <3>8. F[k] = F[k - 1] \o ss[k]
      BY <2>4, <3>4, <3>5
    <3>9. IsList(F[k]) /\ Range(F[k]) = Range(F[k - 1]) \cup Range(ss[k])
      BY <3>4, <3>7, <3>8, ConcatList
    <3>10. 1 .. k = (1 .. k - 1) \cup {k}
      BY <1>1, <3>4
    <3>11. Range(F[k]) = UNION {Range(ss[i]) : i \in 1 .. k}
      BY <3>7, <3>9, <3>10
    <3>12. Short(k)
      <4> SUFFICES ASSUME NEW c \in Nat, \A i \in DOMAIN ss : Len(ss[i]) <= c
                   PROVE  Len(F[k]) <= k * c
        OBVIOUS
      <4>1. Len(F[k - 1]) <= (k - 1) * c
        BY <3>7
      <4>2. Len(ss[k]) <= c /\ Len(ss[k]) \in Nat /\ Len(F[k - 1]) \in Nat /\ k \in Nat
        BY <1>1, <3>2, <3>4, <3>7, ListFacts
      <4>3. Len(F[k]) = Len(F[k - 1]) + Len(ss[k])
        BY <3>4, <3>7, <3>8, ConcatList
      <4>4. (k - 1) * c + c = k * c /\ (k - 1) * c \in Int /\ k * c \in Int
        BY <4>2
      <4>5. PICK p, q \in Int : p = (k - 1) * c /\ q = k * c
        BY <4>4
      <4>6. p + c = q
        BY <4>4, <4>5
      <4>7. Len(F[k - 1]) <= p
        BY <4>1, <4>5
      <4>8. PICK a, b \in Nat : a = Len(F[k - 1]) /\ b = Len(ss[k])
        BY <4>2
      <4>9. a <= p /\ b <= c /\ Len(F[k]) = a + b
        BY <4>2, <4>3, <4>7, <4>8
      <4>10. a + b <= q
        BY <4>6, <4>9
      <4>11. Len(F[k]) <= q
        BY <4>9, <4>10
      <4> QED BY <4>5, <4>11
    <3> QED BY <3>4, <3>9, <3>11, <3>12
  <2>6. n \in 1 .. n
    BY <1>1, <1>3
  <2>7. IsList(F[n]) /\ Range(F[n]) = UNION {Range(ss[i]) : i \in 1 .. n} /\ Short(n)
    BY <2>5, <2>6
  <2> QED BY <1>1, <2>3, <2>7
<1> QED BY <1>2, <1>3

LEMMA RankTaken ==
  ASSUME NEW S, IsFiniteSet(S), NEW R, IsOrder(R, S), NEW k \in 1 .. Cardinality(S)
  PROVE  \E x \in S : Cardinality(UpTo(R, S, x)) = k
<1>1. PICK rank : rank = [x \in S |-> Cardinality(UpTo(R, S, x))]
  OBVIOUS
<1>2. \E x \in S : rank[x] = k
  BY <1>1, Ranks
<1> QED BY <1>1, <1>2

Rises(o, R) == \A i, j \in DOMAIN o : i < j => <<o[i], o[j]>> \in R /\ o[i] # o[j]

(* A finite set put in a total order is a list of its members, in the order. *)
LEMMA Ordered ==
  ASSUME NEW S, IsFiniteSet(S), NEW R, IsOrder(R, S),
         NEW o, o = [k \in 1 .. Cardinality(S) |-> o[k]],
         \A k \in 1 .. Cardinality(S) : o[k] \in S /\ Cardinality(UpTo(R, S, o[k])) = k
  PROVE  /\ IsList(o) /\ Range(o) = S /\ Len(o) = Cardinality(S)
         /\ Rises(o, R)
<1>1. PICK rank : rank = [x \in S |-> Cardinality(UpTo(R, S, x))]
  OBVIOUS
<1>2. /\ Cardinality(S) \in Nat
      /\ \A x \in S : rank[x] \in 1 .. Cardinality(S)
      /\ \A x, y \in S : rank[x] = rank[y] => x = y
      /\ \A x, y \in S : rank[x] <= rank[y] => <<x, y>> \in R
  BY <1>1, Ranks
<1>3. \A k \in 1 .. Cardinality(S) : o[k] \in S /\ rank[o[k]] = k
  BY <1>1
<1>4. IsList(o) /\ Len(o) = Cardinality(S) /\ DOMAIN o = 1 .. Cardinality(S)
      /\ Range(o) = {o[k] : k \in 1 .. Cardinality(S)}
  BY <1>2, FunctionIsList
<1>5. \A x \in S : x \in Range(o)
  <2> TAKE x \in S
  <2>1. rank[x] \in 1 .. Cardinality(S)
    BY <1>2
  <2>2. rank[o[rank[x]]] = rank[x] /\ o[rank[x]] \in S
    BY Zenon, <1>3, <2>1
  <2>3. o[rank[x]] = x
    BY Zenon, <1>2, <2>2
  <2> QED BY <1>4, <2>1, <2>3
<1>6. Range(o) = S
  BY ZenonT(60), <1>3, <1>4, <1>5
<1>7. ASSUME NEW i \in 1 .. Cardinality(S), NEW j \in 1 .. Cardinality(S), i < j
      PROVE  <<o[i], o[j]>> \in R /\ o[i] # o[j]
  <2>1. i <= j /\ i # j
    BY <1>2, <1>7
  <2>2. rank[o[i]] = i /\ rank[o[j]] = j /\ o[i] \in S /\ o[j] \in S
    BY Zenon, <1>3
  <2> QED BY <1>2, <2>1, <2>2
<1>8. Rises(o, R)
  BY Zenon, <1>4, <1>7 DEF Rises
<1> QED BY <1>4, <1>6, <1>8

LEMMA AscendingFacts ==
  ASSUME NEW S, \A x \in S : x \in Nat, IsFiniteSet(S)
  PROVE  /\ IsList(Ascending(S)) /\ Range(Ascending(S)) = S
         /\ Len(Ascending(S)) = Cardinality(S)
         /\ \A i, j \in DOMAIN Ascending(S) : i < j => Ascending(S)[i] < Ascending(S)[j]
<1>0. PICK R : R = {p \in S \X S : p[1] <= p[2]}
  OBVIOUS
<1>1. \A x, y \in S : <<x, y>> \in R <=> x <= y
  BY <1>0
<1>2. \A x \in S : UpTo(R, S, x) = {y \in S : y <= x}
  BY <1>1 DEF UpTo
<1>3. IsOrder(R, S)
  BY <1>1 DEF IsOrder
<1>4. PICK o : o = Ascending(S)
  OBVIOUS
<1>5. ASSUME NEW k \in 1 .. Cardinality(S)
      PROVE  o[k] \in S /\ Cardinality(UpTo(R, S, o[k])) = k
  <2>1. PICK x \in S : Cardinality(UpTo(R, S, x)) = k
    BY <1>3, RankTaken
  <2>2. Cardinality({y \in S : y <= x}) = k
    BY <1>2, <2>1
  <2>3. o[k] = CHOOSE z \in S : Cardinality({y \in S : y <= z}) = k
    BY <1>4 DEF Ascending, InOrder
  <2>4. o[k] \in S /\ Cardinality({y \in S : y <= o[k]}) = k
    BY Zenon, <2>2, <2>3
  <2> QED BY <1>2, <2>4
<1>6. o = [k \in 1 .. Cardinality(S) |-> o[k]]
  <2> DEFINE c(k) == CHOOSE x \in S : Cardinality({y \in S : y <= x}) = k
  <2>1. o = [k \in 1 .. Cardinality(S) |-> c(k)]
    BY <1>4 DEF Ascending, InOrder
  <2> HIDE DEF c
  <2> QED BY <2>1
<1>6a. \A k \in 1 .. Cardinality(S) : o[k] \in S /\ Cardinality(UpTo(R, S, o[k])) = k
  BY <1>5
<1>7. /\ IsList(o) /\ Range(o) = S /\ Len(o) = Cardinality(S)
      /\ Rises(o, R)
  BY Zenon, <1>3, <1>6, <1>6a, Ordered
<1>8. \A i \in DOMAIN o : o[i] \in S
  BY <1>7, ListFacts
<1>9. ASSUME NEW i \in DOMAIN o, NEW j \in DOMAIN o, i < j PROVE o[i] < o[j]
  <2>1. <<o[i], o[j]>> \in R /\ o[i] # o[j] /\ o[i] \in S /\ o[j] \in S
    BY <1>7, <1>8, <1>9 DEF Rises
  <2>2. o[i] <= o[j]
    BY <1>1, <2>1
  <2>3. o[i] \in Nat /\ o[j] \in Nat
    BY <2>1
  <2> QED BY <2>1, <2>2, <2>3
<1> QED BY <1>4, <1>7, <1>9

(* The items at some places of a list.                                      *)
LEMMA ItemsFacts ==
  ASSUME NEW s, IsList(s), NEW places \in SUBSET DOMAIN s
  PROVE  /\ IsList(Items(s, places)) /\ Range(Items(s, places)) = {s[i] : i \in places}
         /\ Len(Items(s, places)) <= Len(s)
<1>1. Len(s) \in Nat /\ DOMAIN s = 1 .. Len(s)
  BY ListFacts
<1>2. places \in SUBSET Nat /\ places \in SUBSET (1 .. Len(s))
  BY <1>1
<1>3. IsFiniteSet(1 .. Len(s)) /\ Cardinality(1 .. Len(s)) = Len(s)
  BY SMTT(40), <1>1, FS_Interval
<1>4. IsFiniteSet(places) /\ Cardinality(places) <= Len(s)
  BY <1>2, <1>3, FS_Subset
<1> DEFINE a == Ascending(places)
           f == [i \in DOMAIN a |-> s[a[i]]]
<1>5. IsList(a) /\ Range(a) = places /\ Len(a) = Cardinality(places)
  BY <1>2, <1>4, AscendingFacts
<1>6. Items(s, places) = f
  BY DEF Items, Each
<1> HIDE DEF a
<1>7. DOMAIN f = DOMAIN a /\ f = [i \in DOMAIN a |-> f[i]] /\ \A i \in DOMAIN a : f[i] = s[a[i]]
  OBVIOUS
<1> HIDE DEF f
<1>8. IsList(f) /\ Len(f) = Len(a) /\ Range(f) = {f[i] : i \in DOMAIN a}
  BY SMTT(40), <1>5, <1>7, MappedList
<1>9. Range(a) = {a[i] : i \in DOMAIN a}
  BY DEF Range
<1>10. {f[i] : i \in DOMAIN a} = {s[i] : i \in places}
  BY <1>5, <1>7, <1>9
<1> QED BY <1>4, <1>5, <1>6, <1>8, <1>10

--------------------------------------------------------------------------------
(* Reading.                                                                 *)

Failures == {"eof", "io", "bad", "limit", "hangs"}

LEMMA FirstFailureFacts ==
  ASSUME NEW tags, IsList(tags)
  PROVE  \/ FirstFailure(tags) = "ok" /\ \A i \in DOMAIN tags : tags[i] = "ok"
         \/ /\ FirstFailure(tags) # "ok"
            /\ \E i \in DOMAIN tags : FirstFailure(tags) = tags[i]
<1> DEFINE failed == {i \in DOMAIN tags : tags[i] # "ok"}
<1>1. failed \in SUBSET Nat
  BY ListFacts
<1>2. FirstFailure(tags) = IF failed = {} THEN "ok" ELSE tags[Min(failed)]
  BY DEF FirstFailure
<1>3. failed # {} => Min(failed) \in failed
  <2> HIDE DEF failed
  <2> QED BY <1>1, MinIsLeast
<1>4. CASE failed = {}
  BY <1>2, <1>4
<1>5. CASE failed # {}
  <2>1. Min(failed) \in DOMAIN tags /\ tags[Min(failed)] # "ok"
    BY <1>3, <1>5
  <2> QED BY <1>2, <1>5, <2>1
<1> QED BY <1>4, <1>5

(* A tag that turns into "io" turns the first failure into itself or "io".   *)
LEMMA FirstFailureStable ==
  ASSUME NEW s, NEW t, IsList(s), IsList(t), DOMAIN s = DOMAIN t,
         \A i \in DOMAIN s : t[i] = s[i] \/ t[i] = "io"
  PROVE  FirstFailure(t) = FirstFailure(s) \/ FirstFailure(t) = "io"
<1> DEFINE a == {i \in DOMAIN s : s[i] # "ok"}
           b == {i \in DOMAIN t : t[i] # "ok"}
<1>1. a \in SUBSET Nat /\ b \in SUBSET Nat /\ a \subseteq b
  BY ListFacts
<1>2. /\ FirstFailure(s) = IF a = {} THEN "ok" ELSE s[Min(a)]
      /\ FirstFailure(t) = IF b = {} THEN "ok" ELSE t[Min(b)]
  BY DEF FirstFailure
<1>3. CASE b = {}
  BY <1>1, <1>2, <1>3
<1>4. CASE b # {}
  <2>1. Min(b) \in b /\ \A y \in b : Min(b) <= y
    <3> HIDE DEF b
    <3> QED BY <1>1, <1>4, MinIsLeast
  <2>2. CASE t[Min(b)] = "io"
    BY <1>2, <1>4, <2>2
  <2>3. CASE t[Min(b)] # "io"
    <3>1. t[Min(b)] = s[Min(b)] /\ Min(b) \in a
      BY <2>1, <2>3
    <3>2. Min(a) \in a /\ \A y \in a : Min(a) <= y
      <4> HIDE DEF a, b
      <4> QED BY <1>1, <3>1, MinIsLeast
    <3>3. Min(a) <= Min(b) /\ Min(b) <= Min(a)
      <4> HIDE DEF a, b
      <4> QED BY <1>1, <2>1, <3>1, <3>2
    <3>4. Min(a) = Min(b)
      <4>1. Min(a) \in Nat /\ Min(b) \in Nat
        BY <1>1, <2>1, <3>2
      <4> HIDE DEF a, b
      <4> QED BY <3>3, <4>1
    <3> QED BY <1>2, <1>4, <3>1, <3>4
  <2> QED BY <2>2, <2>3
<1> QED BY <1>3, <1>4

LEMMA SectorsFacts ==
  ASSUME NEW n \in Nat
  PROVE  /\ SectorsOf(n) \in Nat /\ n <= SectorsOf(n) * SECTOR
         /\ SectorsOf(n) * SECTOR <= n + SECTOR - 1
         /\ \A i \in 1 .. SectorsOf(n) : n - (i - 1) * SECTOR \in Nat
<1> DEFINE q == (n + SECTOR - 1) \div SECTOR
<1>1. SECTOR \in Nat /\ SECTOR > 0
  BY SectorAssumption
<1>2. q \in Nat
  BY <1>1
<1>3. q * SECTOR <= n + SECTOR - 1 /\ n + SECTOR - 1 < q * SECTOR + SECTOR
  BY <1>1, <1>2, Z3
<1>4. n <= q * SECTOR
  BY <1>1, <1>2, <1>3
<1>5. ASSUME NEW i \in 1 .. q PROVE n - (i - 1) * SECTOR \in Nat
  <2>1. (i - 1) * SECTOR <= (q - 1) * SECTOR
    BY <1>1, <1>2, Z3
  <2>2. (q - 1) * SECTOR = q * SECTOR - SECTOR
    BY <1>1, <1>2, Z3
  <2>3. (i - 1) * SECTOR \in Nat
    BY <1>1, <1>2, Z3
  <2>4. q * SECTOR \in Nat
    BY <1>1, <1>2
  <2> QED BY <1>1, <1>3, <2>1, <2>2, <2>3, <2>4
<1> QED BY <1>2, <1>3, <1>4, <1>5 DEF SectorsOf

(* What a sector answers does not depend on who asks.                       *)
LEMMA ReadTagFacts ==
  ASSUME IsImage(image), NEW l \in Nat
  PROVE  /\ ReadTag(l) \in {"ok", "io", "eof"}
         /\ ReadTag(l) = "eof" => l >= image.end
         /\ ReadTag(l) = "ok" => l \in 0 .. image.end - 1 /\ l \notin bad
<1>1. image.end \in Nat
  BY DEF IsImage
<1> QED BY <1>1 DEF ReadTag

LEMMA RunTagFacts ==
  ASSUME IsImage(image), NEW l \in Nat, NEW n \in Nat
  PROVE  /\ RunTag(l, n) \in {"ok", "io", "eof"}
         /\ RunTag(l, n) = "eof" => \E k \in l .. l + n - 1 : k >= image.end
         /\ RunTag(l, n) = "ok" => \A k \in l .. l + n - 1 : k \in 0 .. image.end - 1
<1>1. PICK tags : tags = [i \in 1 .. n |-> ReadTag(l + i - 1)]
  OBVIOUS
<1>2. IsList(tags) /\ DOMAIN tags = 1 .. n
  BY <1>1, FunctionIsList
<1>3. RunTag(l, n) = FirstFailure(tags)
  BY <1>1 DEF RunTag
<1>4. \A i \in 1 .. n : tags[i] = ReadTag(l + i - 1) /\ l + i - 1 \in Nat /\ l + i - 1 \in l .. l + n - 1
  BY <1>1
<1>5. CASE FirstFailure(tags) = "ok" /\ \A i \in DOMAIN tags : tags[i] = "ok"
  <2>1. ASSUME NEW k \in l .. l + n - 1 PROVE k \in 0 .. image.end - 1
    <3>1. k - l + 1 \in 1 .. n /\ l + (k - l + 1) - 1 = k /\ k \in Nat
      OBVIOUS
    <3>2. ReadTag(k) = "ok"
      BY <1>1, <1>2, <1>5, <3>1
    <3> QED BY <3>1, <3>2, ReadTagFacts
  <2> QED BY <1>3, <1>5, <2>1
<1>6. CASE FirstFailure(tags) # "ok" /\ \E i \in DOMAIN tags : FirstFailure(tags) = tags[i]
  <2>1. PICK i \in 1 .. n : FirstFailure(tags) = tags[i]
    BY <1>2, <1>6
  <2>2. FirstFailure(tags) = ReadTag(l + i - 1) /\ l + i - 1 \in Nat /\ l + i - 1 \in l .. l + n - 1
    BY <1>4, <2>1
  <2> QED BY <1>3, <1>6, <2>2, ReadTagFacts
<1> QED BY <1>2, <1>5, <1>6, FirstFailureFacts

(* A sector of the image is a list of slots.                                *)
LEMMA SectorFacts ==
  ASSUME IsImage(image), NEW l \in 0 .. image.end - 1
  PROVE  /\ IsList(Slots(l)) /\ DOMAIN Slots(l) = 1 .. SECTOR /\ Len(Slots(l)) = SECTOR
         /\ \A i \in 1 .. SECTOR : IsSlot(Slots(l)[i])
<1>1. IsSector(Slots(l))
  BY DEF IsImage, Slots
<1> QED BY <1>1, ListFacts DEF IsSector

(* The slots of a sector that count: up to the end of the directory and the  *)
(* first that is padding.                                                   *)
Places(l, room) == {i \in 1 .. Lesser(SECTOR, room) : \A j \in 1 .. i : Slots(l)[j] # Free}

LEMMA UsedFacts ==
  ASSUME IsImage(image), NEW l \in 0 .. image.end - 1, NEW room \in Nat
  PROVE  /\ IsList(Used(l, room)) /\ Len(Used(l, room)) <= SECTOR
         /\ Range(Used(l, room)) = {Slots(l)[i] : i \in Places(l, room)}
         /\ Used(l, room) # <<>> => Used(l, room)[1] = Slots(l)[1]
<1> DEFINE s == Slots(l)
           n == Lesser(SECTOR, room)
           inside == SubSeq(s, 1, n)
           zeros == {i \in DOMAIN inside : inside[i] = Free}
           k == IF zeros = {} THEN n ELSE Min(zeros) - 1
<1>1. s \in Seq(Range(s)) /\ Len(s) = SECTOR /\ DOMAIN s = 1 .. SECTOR
  BY SectorFacts DEF IsList
<1>2. n \in 0 .. SECTOR
  BY SectorAssumption DEF Lesser
<1>3. SECTOR \in Nat
  BY SectorAssumption
<1> HIDE DEF s, n
<1>4. inside = [i \in 1 .. n |-> s[i]] /\ IsList(inside) /\ DOMAIN inside = 1 .. n /\ Len(inside) = n
  <2>1. inside \in Seq(Range(s)) /\ Len(inside) = n /\ \A i \in 1 .. n : inside[i] = s[i]
    BY <1>1, <1>2, <1>3, SubSeqProperties
  <2>2. inside = [i \in 1 .. n |-> inside[i]]
    BY <2>1, LenProperties
  <2>3. IsList(inside)
    BY <2>1, IsListAny
  <2> HIDE DEF inside
  <2> QED BY <2>1, <2>2, <2>3
<1>5. zeros \in SUBSET Nat
  BY <1>2, <1>4
<1>6. zeros # {} => Min(zeros) \in zeros /\ \A y \in zeros : Min(zeros) <= y
  <2> HIDE DEF zeros
  <2> QED BY <1>5, MinIsLeast
<1>7. Used(l, room) = IF zeros = {} THEN inside ELSE SubSeq(inside, 1, Min(zeros) - 1)
  BY DEF Used, s, n
<1>8. k \in 0 .. n
  <2>1. zeros # {} => Min(zeros) \in 1 .. n
    BY <1>4, <1>6
  <2> HIDE DEF zeros
  <2> QED BY <1>2, <2>1
<1>9. Used(l, room) = [i \in 1 .. k |-> s[i]]
  <2>1. CASE zeros = {}
    BY <1>4, <1>7, <2>1
  <2>2. CASE zeros # {}
    <3>1. k = Min(zeros) - 1
      BY <2>2
    <3> HIDE DEF k, zeros, inside
    <3>2. inside \in Seq(Range(inside))
      BY <1>4 DEF IsList
    <3>3. SubSeq(inside, 1, k) = [i \in 1 .. k |-> inside[i]]
      BY <1>2, <1>4, <1>8, <3>2, SubSeqProperties
    <3>4. \A i \in 1 .. k : inside[i] = s[i]
      BY <1>2, <1>4, <1>8
    <3> QED BY <1>7, <2>2, <3>1, <3>3, <3>4
  <2> QED BY <2>1, <2>2
<1>10. Places(l, room) = 1 .. k
  <2>1. Places(l, room) = {i \in 1 .. n : \A j \in 1 .. i : s[j] # Free}
    BY DEF Places, s, n
  <2>2. \A i \in zeros : i \in 1 .. n /\ s[i] = Free
    BY <1>4
  <2>3. \A i \in 1 .. n : s[i] = Free => i \in zeros
    BY <1>4
  <2>4. ASSUME NEW i \in 1 .. n, \A j \in 1 .. i : s[j] # Free PROVE i \in 1 .. k
    <3>1. CASE zeros = {}
      BY <1>2, <3>1
    <3>2. CASE zeros # {}
      <4>1. Min(zeros) \in zeros /\ Min(zeros) \in 1 .. n /\ s[Min(zeros)] = Free
        BY <1>6, <2>2, <3>2
      <4>2. Min(zeros) \notin 1 .. i
        BY <2>4, <4>1
      <4> HIDE DEF zeros
      <4> QED BY <1>2, <3>2, <4>1, <4>2
    <3> QED BY <3>1, <3>2
  <2>5. ASSUME NEW i \in 1 .. k PROVE i \in 1 .. n /\ \A j \in 1 .. i : s[j] # Free
    <3>1. i \in 1 .. n
      BY <1>2, <1>8
    <3>2. ASSUME NEW j \in 1 .. i, s[j] = Free PROVE FALSE
      <4>1. j \in 1 .. n /\ j <= k
        BY <1>2, <1>8, <3>1
      <4>2. j \in zeros
        BY <2>3, <3>2, <4>1
      <4>3. Min(zeros) <= j /\ k = Min(zeros) - 1 /\ Min(zeros) \in Nat
        BY <1>5, <1>6, <4>2
      <4> HIDE DEF zeros, k
      <4> QED BY <1>2, <4>1, <4>3
    <3> QED BY <3>1, <3>2
  <2> HIDE DEF zeros, k
  <2> QED BY <2>1, <2>4, <2>5
<1> HIDE DEF k
<1>11. PICK u : u = Used(l, room)
  OBVIOUS
<1>12. k \in Nat /\ u = [i \in 1 .. k |-> u[i]] /\ \A i \in 1 .. k : u[i] = s[i]
  BY <1>2, <1>8, <1>9, <1>11
<1>13. IsList(u) /\ Len(u) = k /\ Range(u) = {u[i] : i \in 1 .. k}
  BY <1>12, FunctionIsList
<1>14. Range(u) = {s[i] : i \in Places(l, room)}
  BY <1>10, <1>12, <1>13
<1>15. k <= SECTOR
  BY <1>2, <1>3, <1>8
<1>16. u # <<>> => u[1] = s[1]
  <2>1. k = 0 => u = <<>>
    BY <1>9, <1>11
  <2> QED BY <1>12, <2>1
<1> QED BY <1>11, <1>13, <1>14, <1>15, <1>16 DEF s

--------------------------------------------------------------------------------
(* The System Use area of a record.                                         *)

LEMMA SubList ==
  ASSUME NEW s, IsList(s), NEW m \in Nat \ {0}, NEW n \in Nat, n <= Len(s)
  PROVE  /\ IsList(SubSeq(s, m, n)) /\ Range(SubSeq(s, m, n)) \subseteq Range(s)
         /\ \A i \in DOMAIN SubSeq(s, m, n) : SubSeq(s, m, n)[i] = s[m + i - 1]
<1>1. s \in Seq(Range(s)) /\ Len(s) \in Nat /\ DOMAIN s = 1 .. Len(s)
  BY ListFacts DEF IsList
<1> DEFINE k == IF m <= n THEN n - m + 1 ELSE 0
<1>2. k \in Nat
  BY <1>1
<1>3. SubSeq(s, m, n) \in Seq(Range(s)) /\ DOMAIN SubSeq(s, m, n) = 1 .. k
      /\ \A i \in 1 .. k : SubSeq(s, m, n)[i] = s[m + i - 1]
  <2>1. m \in 1 .. Len(s) + 1 \/ m > n
    BY <1>1
  <2>2. CASE m <= n
    <3>1. m \in 1 .. Len(s) + 1 /\ n \in m - 1 .. Len(s)
      BY <1>1, <2>2
    <3>2. SubSeq(s, m, n) \in Seq(Range(s)) /\ Len(SubSeq(s, m, n)) = n - m + 1
          /\ \A i \in 1 .. n - m + 1 : SubSeq(s, m, n)[i] = s[m + i - 1]
      BY <1>1, <3>1, SubSeqProperties
    <3> QED BY <2>2, <3>2, LenProperties
  <2>3. CASE ~(m <= n)
    <3>1. SubSeq(s, m, n) = [i \in 1 .. 0 |-> s[m + i - 1]]
      BY <2>3
    <3>2. SubSeq(s, m, n) = <<>>
      BY <3>1
    <3> QED BY <2>3, <3>2
  <2> QED BY <2>2, <2>3
<1> QED BY <1>3, IsListAny

LEMMA ScannedFacts ==
  ASSUME NEW area, IsList(area)
  PROVE  IsList(Scanned(area)) /\ Range(Scanned(area)) \subseteq Range(area)
<1> DEFINE stops == {i \in DOMAIN area : area[i].sig = "stop"}
<1>1. Len(area) \in Nat /\ DOMAIN area = 1 .. Len(area)
  BY ListFacts
<1>2. stops \in SUBSET (1 .. Len(area))
  BY <1>1
<1>3. Scanned(area) = IF stops = {} THEN area ELSE SubSeq(area, 1, Min(stops) - 1)
  BY DEF Scanned
<1> HIDE DEF stops
<1>4. CASE stops # {}
  <2>1. stops \in SUBSET Nat
    BY <1>1, <1>2
  <2>2. Min(stops) \in 1 .. Len(area)
    BY <1>2, <1>4, <2>1, MinIsLeast
  <2>3. Min(stops) - 1 \in Nat /\ Min(stops) - 1 <= Len(area)
    BY <1>1, <2>2
  <2> QED BY <1>3, <1>4, <2>3, SubList
<1> QED BY <1>3, <1>4

LEMMA WholeFacts ==
  ASSUME NEW area, IsList(area), NEW sig
  PROVE  /\ IsList(Whole(area, sig))
         /\ \A e \in Range(Whole(area, sig)) : e \in Range(area) /\ e.sig = sig
<1>1. PICK s : s = Scanned(area)
  OBVIOUS
<1>2. IsList(s) /\ Range(s) \subseteq Range(area)
  BY <1>1, ScannedFacts
<1>3. PICK places : places = {i \in DOMAIN s : s[i].sig = sig /\ s[i].whole}
  OBVIOUS
<1>4. Whole(area, sig) = Items(s, places)
  BY <1>1, <1>3 DEF Whole, Pick
<1>5. places \in SUBSET DOMAIN s
  BY <1>3
<1>6. IsList(Items(s, places)) /\ Range(Items(s, places)) = {s[i] : i \in places}
  BY <1>2, <1>5, ItemsFacts
<1>7. \A i \in places : s[i] \in Range(area) /\ s[i].sig = sig
  BY <1>2, <1>3, ListFacts
<1> QED BY <1>4, <1>6, <1>7

(* The first of a list that is not empty.                                   *)
LEMMA FirstFacts ==
  ASSUME NEW s, IsList(s), s # <<>>
  PROVE  1 \in DOMAIN s /\ s[1] \in Range(s)
<1>1. Len(s) \in Nat /\ DOMAIN s = 1 .. Len(s)
  BY ListFacts
<1>2. Len(s) # 0
  BY EmptySeq DEF IsList
<1> QED BY <1>1, <1>2, ListFacts

LEMMA ContinuationFacts ==
  ASSUME NEW area, IsSystemUse(area), continuation(area) # None
  PROVE  continuation(area).lba \in Nat /\ IsArea(continuation(area).area)
<1>1. IsList(area)
  BY DEF IsSystemUse, IsArea
<1>2. PICK w : w = Whole(area, "CE")
  OBVIOUS
<1>3. IsList(w) /\ \A e \in Range(w) : e \in Range(area) /\ e.sig = "CE"
  BY <1>1, <1>2, WholeFacts
<1>4. w # <<>> /\ continuation(area) = w[1].data
  BY <1>2 DEF continuation, FirstOf
<1>5. w[1] \in Range(area) /\ w[1].sig = "CE"
  BY <1>3, <1>4, FirstFacts
<1> QED BY <1>4, <1>5 DEF IsSystemUse

LEMMA TrimmedFacts ==
  ASSUME IsImage(image), NEW area, IsSystemUse(area)
  PROVE  IsSystemUse(Trimmed(area))
<1>1. IsList(area) /\ Len(area) \in Nat /\ image.sp_skip \in Nat
  BY ListFacts DEF IsSystemUse, IsArea, IsImage
<1>2. Lesser(image.sp_skip, Len(area)) + 1 \in Nat \ {0}
  BY <1>1 DEF Lesser
<1>3. PICK t : t = Trimmed(area)
  OBVIOUS
<1>4. IsList(t) /\ Range(t) \subseteq Range(area)
  BY <1>1, <1>2, <1>3, SubList DEF Trimmed
<1>5. IsSystemUse(t)
  BY <1>4 DEF IsSystemUse, IsArea
<1> QED BY <1>3, <1>5

LEMMA ExtendedFacts ==
  ASSUME NEW area, IsSystemUse(area)
  PROVE  IsArea(Extended(area))
<1>1. IsArea(area)
  BY DEF IsSystemUse
<1>2. CASE continuation(area) = None \/ ~continuation(area).fits
  BY <1>1, <1>2 DEF Extended
<1>3. CASE continuation(area) # None /\ continuation(area).fits
  <2>1. PICK more : more = continuation(area).area
    OBVIOUS
  <2>2. IsArea(more)
    BY <1>3, <2>1, ContinuationFacts
  <2>3. IsList(area \o more) /\ Range(area \o more) = Range(area) \cup Range(more)
    BY <1>1, <2>2, ConcatList DEF IsArea
  <2>4. Extended(area) = area \o more
    BY <1>3, <2>1 DEF Extended
  <2>5. \A e \in Range(area) \cup Range(more) : IsText(e)
    BY <1>1, <2>2 DEF IsArea
  <2> QED BY <2>3, <2>4, <2>5 DEF IsArea
<1> QED BY <1>2, <1>3

LEMMA AreaTagFacts ==
  ASSUME IsImage(image), NEW area, IsSystemUse(area)
  PROVE  /\ AreaTag(area) \in {"ok", "io", "eof"}
         /\ AreaTag(area) = "eof" => /\ continuation(area) # None /\ continuation(area).fits
                                     /\ continuation(area).lba \in Nat
                                     /\ continuation(area).lba >= image.end
<1>1. CASE continuation(area) = None \/ ~continuation(area).fits
  BY <1>1 DEF AreaTag
<1>2. CASE continuation(area) # None /\ continuation(area).fits
  <2>1. PICK l : l = continuation(area).lba
    OBVIOUS
  <2>2. l \in Nat
    BY <1>2, <2>1, ContinuationFacts
  <2>3. AreaTag(area) = ReadTag(l)
    BY <1>2, <2>1 DEF AreaTag
  <2> QED BY <1>2, <2>1, <2>2, <2>3, ReadTagFacts
<1> QED BY <1>1, <1>2

LEMMA NameFacts ==
  ASSUME NEW area, IsArea(area)
  PROVE  alternate_name(area) = None \/ alternate_name(area) \in Seq(STRING)
<1>1. PICK parts : parts = Whole(area, "NM")
  OBVIOUS
<1>2. IsList(parts) /\ \A e \in Range(parts) : e.data.text \in Seq(STRING)
  BY <1>1, WholeFacts DEF IsArea, IsText
<1>3. PICK last : last = {i \in DOMAIN parts : ~parts[i].data.more}
  OBVIOUS
<1>4. PICK taken : taken = IF last = {} THEN parts ELSE SubSeq(parts, 1, Min(last))
  OBVIOUS
<1>5. IsList(taken) /\ Range(taken) \subseteq Range(parts)
  <2>1. CASE last = {}
    BY <1>2, <1>4, <2>1
  <2>2. CASE last # {}
    <3>1. Len(parts) \in Nat /\ DOMAIN parts = 1 .. Len(parts)
      BY <1>2, ListFacts
    <3>2. last \in SUBSET Nat /\ last \in SUBSET (1 .. Len(parts))
      BY <1>3, <3>1
    <3>3. Min(last) \in last
      BY <2>2, <3>2, MinIsLeast
    <3>3a. Min(last) \in 1 .. Len(parts)
      BY <3>2, <3>3
    <3>4. Min(last) \in Nat /\ Min(last) <= Len(parts)
      BY <3>1, <3>3a
    <3> QED BY <1>2, <1>4, <2>2, <3>4, SubList
  <2> QED BY <2>1, <2>2
<1>6. PICK texts : texts = [i \in DOMAIN taken |-> taken[i].data.text]
  OBVIOUS
<1>7. IsList(texts) /\ DOMAIN texts = DOMAIN taken /\ \A i \in DOMAIN texts : texts[i] \in Seq(STRING)
  <2>1. texts = [i \in DOMAIN taken |-> texts[i]] /\ DOMAIN texts = DOMAIN taken
    BY <1>6
  <2>2. IsList(texts)
    BY <1>5, <2>1, MappedList
  <2>3. \A i \in DOMAIN taken : taken[i] \in Range(parts)
    BY <1>5, ListFacts
  <2> QED BY <1>2, <1>6, <2>1, <2>2, <2>3
<1>8. \A i \in DOMAIN texts : IsList(texts[i]) /\ Range(texts[i]) \subseteq STRING
  BY <1>7, IsListAny
<1>9. IsList(FlattenSeq(texts)) /\ Range(FlattenSeq(texts)) = UNION {Range(texts[i]) : i \in DOMAIN texts}
  BY <1>7, <1>8, Flattened
<1>10. Range(FlattenSeq(texts)) \subseteq STRING
  BY <1>8, <1>9
<1>11. FlattenSeq(texts) \in Seq(STRING)
  BY <1>9, <1>10, ListIn
<1>12. alternate_name(area) = IF FlattenSeq(texts) = <<>> THEN None ELSE FlattenSeq(texts)
  BY <1>1, <1>3, <1>4, <1>6 DEF alternate_name, UpToLast, NotEmpty, Each
<1> QED BY <1>11, <1>12

--------------------------------------------------------------------------------
(* The listing of a directory.                                              *)

(* The slots of a directory, and the record made of one of them.            *)
InDirectory(lba, size) ==
  UNION {Range(Used(lba + i - 1, size - (i - 1) * SECTOR)) : i \in 1 .. SectorsOf(size)}

Trim(s)   == [s EXCEPT !.su = Trimmed(@)]
Extend(s) == [s EXCEPT !.su = Extended(@)]

Named(lba, size) == {s \in InDirectory(lba, size) : ~s.dot}

(* A record as listed: its continuation area is part of its own.            *)
IsListed(r) ==
  /\ r.kind = "rec" /\ r.name \in Seq(STRING) /\ r.dir \in BOOLEAN
  /\ r.lba \in Nat /\ r.size \in Nat /\ IsArea(r.su)

LEMMA TrimFacts ==
  ASSUME IsImage(image), NEW s, IsRecord(s)
  PROVE  /\ Trim(s).su = Trimmed(s.su) /\ IsSystemUse(Trim(s).su)
         /\ IsListed(Extend(Trim(s)))
         /\ Extend(Trim(s)).su = Extended(Trimmed(s.su))
         /\ Extend(Trim(s)).lba = s.lba /\ Extend(Trim(s)).size = s.size
         /\ Extend(Trim(s)).dir = s.dir
<1>1. PICK fields : fields = DOMAIN s
  OBVIOUS
<1>2. {"kind", "name", "dot", "dir", "lba", "size", "su"} \subseteq fields
  BY <1>1 DEF IsRecord
<1>3. PICK t : t = Trim(s)
  OBVIOUS
<1>4. DOMAIN t = fields /\ t.su = Trimmed(s.su) /\ \A f \in fields \ {"su"} : t[f] = s[f]
  BY <1>1, <1>2, <1>3 DEF Trim
<1>5. PICK u : u = Extend(t)
  OBVIOUS
<1>6. u.su = Extended(t.su) /\ \A f \in fields \ {"su"} : u[f] = t[f]
  BY <1>2, <1>4, <1>5 DEF Extend
<1>7. IsSystemUse(t.su)
  BY <1>4, TrimmedFacts DEF IsRecord
<1>8. IsArea(u.su)
  BY <1>6, <1>7, ExtendedFacts
<1>9. /\ u.kind = s.kind /\ u.name = s.name /\ u.dir = s.dir /\ u.lba = s.lba /\ u.size = s.size
  BY <1>2, <1>4, <1>6
<1>10. IsListed(u)
  BY <1>8, <1>9 DEF IsListed, IsRecord, IsExtent
<1> QED BY <1>3, <1>4, <1>5, <1>6, <1>7, <1>9, <1>10

LEMMA ParseFacts ==
  ASSUME NEW slots, IsList(slots)
  PROVE  /\ ParseTag(slots) \in {"hangs", "bad", "ok"}
         /\ ParseTag(slots) = "ok" => /\ slots # <<>>
                                      /\ \A s \in Range(slots) : s.kind = "rec"
<1>1. Range(slots) = {slots[i] : i \in DOMAIN slots}
  BY DEF Range
<1> QED BY <1>1 DEF ParseTag

(* What the sectors of a directory hold, when all of them can be read.       *)
LEMMA ChunksFacts ==
  ASSUME IsImage(image), NEW lba \in Nat, NEW size \in Nat, RunTag(lba, SectorsOf(size)) = "ok"
  PROVE  /\ IsList(Chunks(lba, size)) /\ DOMAIN Chunks(lba, size) = 1 .. SectorsOf(size)
         /\ \A i \in 1 .. SectorsOf(size) :
              /\ lba + i - 1 \in 0 .. image.end - 1 /\ size - (i - 1) * SECTOR \in Nat
              /\ Chunks(lba, size)[i] = Used(lba + i - 1, size - (i - 1) * SECTOR)
              /\ IsList(Chunks(lba, size)[i]) /\ Len(Chunks(lba, size)[i]) <= SECTOR
         /\ IsList(FlattenSeq(Chunks(lba, size)))
         /\ Range(FlattenSeq(Chunks(lba, size))) = InDirectory(lba, size)
         /\ Len(FlattenSeq(Chunks(lba, size))) <= size + SECTOR
         /\ \A s \in InDirectory(lba, size) : IsSlot(s)
<1>1. PICK n : n = SectorsOf(size)
  OBVIOUS
<1>2. PICK c : c = Chunks(lba, size)
  OBVIOUS
<1>3. /\ n \in Nat /\ n * SECTOR <= size + SECTOR - 1
      /\ \A i \in 1 .. n : size - (i - 1) * SECTOR \in Nat
  BY <1>1, SectorsFacts
<1>4. \A i \in 1 .. n : lba + i - 1 \in 0 .. image.end - 1
  <2>1. \A i \in 1 .. n : lba + i - 1 \in lba .. lba + n - 1
    BY <1>3
  <2> QED BY <1>1, <1>3, <2>1, RunTagFacts
<1>5. c = [i \in 1 .. n |-> c[i]]
      /\ \A i \in 1 .. n : c[i] = Used(lba + i - 1, size - (i - 1) * SECTOR)
  BY <1>1, <1>2 DEF Chunks
<1>6. IsList(c) /\ DOMAIN c = 1 .. n /\ Len(c) = n
  BY <1>3, <1>5, FunctionIsList
<1>7. \A i \in 1 .. n : /\ IsList(c[i]) /\ Len(c[i]) <= SECTOR
                        /\ \A s \in Range(c[i]) : IsSlot(s)
  <2> TAKE i \in 1 .. n
  <2>1. PICK l \in 0 .. image.end - 1, room \in Nat :
          l = lba + i - 1 /\ room = size - (i - 1) * SECTOR
    BY <1>3, <1>4
  <2>2. c[i] = Used(l, room)
    BY <1>5, <2>1
  <2>3. IsList(c[i]) /\ Len(c[i]) <= SECTOR /\ Range(c[i]) = {Slots(l)[k] : k \in Places(l, room)}
    BY <2>2, UsedFacts
  <2>4. \A k \in Places(l, room) : k \in 1 .. SECTOR
    BY SectorAssumption DEF Places, Lesser
  <2>5. \A k \in 1 .. SECTOR : IsSlot(Slots(l)[k])
    BY SectorFacts
  <2> QED BY <2>3, <2>4, <2>5
<1>8. PICK f : f = FlattenSeq(c)
  OBVIOUS
<1>9. /\ IsList(f) /\ Range(f) = UNION {Range(c[i]) : i \in 1 .. n} /\ Len(f) <= n * SECTOR
  BY <1>6, <1>7, <1>8, Flattened, SectorAssumption
<1>10. UNION {Range(c[i]) : i \in 1 .. n} = InDirectory(lba, size)
  BY <1>1, <1>5 DEF InDirectory
<1>11. Len(f) <= size + SECTOR
  <2>1. PICK p \in Nat : p = n * SECTOR
    BY <1>3, SectorAssumption
  <2>2. Len(f) <= p /\ p <= size + SECTOR - 1 /\ Len(f) \in Nat /\ SECTOR \in Nat
    BY <1>3, <1>9, <2>1, ListFacts, SectorAssumption
  <2> QED BY <2>2
<1>12. \A s \in Range(f) : IsSlot(s)
  BY <1>7, <1>9
<1> QED BY <1>1, <1>2, <1>3, <1>4, <1>5, <1>6, <1>7, <1>8, <1>9, <1>10, <1>11, <1>12

Parsed(lba, size) == FirstFailure(Each(Chunks(lba, size), ParseTag))
Areas(lba, size)  == FirstFailure(Each(Records(Chunks(lba, size)), LAMBDA r : AreaTag(r.su)))

LEMMA ReadDirShape ==
  ASSUME NEW lba, NEW size \in Nat
  PROVE  read_dir(lba, size) =
           IF size > MAX_DIR_SIZE THEN Failed("limit")
           ELSE IF RunTag(lba, SectorsOf(size)) # "ok" THEN Failed(RunTag(lba, SectorsOf(size)))
           ELSE IF Parsed(lba, size) # "ok" THEN Failed(Parsed(lba, size))
           ELSE IF Areas(lba, size) # "ok" THEN Failed(Areas(lba, size))
           ELSE [tag |-> "ok", recs |-> Each(Records(Chunks(lba, size)), Extend)]
<1>1. MAX_DIR_SIZE \in Nat
  BY DirSizeAssumption
<1>2. CASE size > MAX_DIR_SIZE
  BY <1>1, <1>2 DEF read_dir
<1>3. CASE ~(size > MAX_DIR_SIZE) /\ RunTag(lba, SectorsOf(size)) # "ok"
  <2>1. size <= MAX_DIR_SIZE
    BY <1>1, <1>3
  <2> QED BY <1>3, <2>1 DEF read_dir, Tried
<1>4. CASE ~(size > MAX_DIR_SIZE) /\ RunTag(lba, SectorsOf(size)) = "ok"
  BY <1>4 DEF read_dir, Tried, Parse, FollowAreas, Parsed, Areas, Extend
<1> QED BY <1>2, <1>3, <1>4

LEMMA ParsedFacts ==
  ASSUME IsImage(image), NEW lba \in Nat, NEW size \in Nat, RunTag(lba, SectorsOf(size)) = "ok"
  PROVE  /\ Parsed(lba, size) \in {"ok", "hangs", "bad"}
         /\ Parsed(lba, size) = "ok" =>
              /\ \A s \in InDirectory(lba, size) : IsRecord(s)
              /\ \A i \in 1 .. SectorsOf(size) :
                   Used(lba + i - 1, size - (i - 1) * SECTOR) # <<>>
<1>1. PICK n : n = SectorsOf(size)
  OBVIOUS
<1>2. PICK c : c = Chunks(lba, size)
  OBVIOUS
<1>3. PICK tags : tags = [i \in DOMAIN c |-> ParseTag(c[i])]
  OBVIOUS
<1>4. IsList(c) /\ DOMAIN c = 1 .. n /\ \A i \in 1 .. n : IsList(c[i])
  BY <1>1, <1>2, ChunksFacts
<1>5. \A i \in 1 .. n : /\ tags[i] \in {"hangs", "bad", "ok"}
                        /\ tags[i] = "ok" => /\ c[i] # <<>>
                                             /\ \A s \in Range(c[i]) : s.kind = "rec"
  BY <1>3, <1>4, ParseFacts
<1>6. IsList(tags) /\ DOMAIN tags = 1 .. n
  BY <1>3, <1>4, MappedList
<1>7. Parsed(lba, size) = FirstFailure(tags)
  BY <1>2, <1>3 DEF Parsed, Each
<1>8. \/ FirstFailure(tags) = "ok" /\ \A i \in 1 .. n : tags[i] = "ok"
      \/ /\ FirstFailure(tags) # "ok"
         /\ \E i \in 1 .. n : FirstFailure(tags) = tags[i]
  BY <1>6, FirstFailureFacts
<1>9. CASE FirstFailure(tags) = "ok" /\ \A i \in 1 .. n : tags[i] = "ok"
  <2>1. \A i \in 1 .. n : c[i] = Used(lba + i - 1, size - (i - 1) * SECTOR)
    BY <1>1, <1>2, ChunksFacts
  <2>2. \A s \in InDirectory(lba, size) : s.kind = "rec" /\ IsSlot(s)
    <3>1. \A s \in InDirectory(lba, size) : \E i \in 1 .. n : s \in Range(c[i])
      BY <1>1, <2>1 DEF InDirectory
    <3>2. \A s \in InDirectory(lba, size) : IsSlot(s)
      BY ChunksFacts
    <3> QED BY <1>5, <1>9, <3>1, <3>2
  <2>3. \A s : s.kind = "rec" /\ IsSlot(s) => IsRecord(s)
    BY DEF IsSlot, Free, Bytes, Magic
  <2> QED BY <1>1, <1>5, <1>7, <1>9, <2>1, <2>2, <2>3
<1>10. CASE FirstFailure(tags) # "ok" /\ \E i \in 1 .. n : FirstFailure(tags) = tags[i]
  BY <1>5, <1>7, <1>10
<1> QED BY <1>8, <1>9, <1>10

(* The records of a directory are made of its slots.                        *)
LEMMA RecordsFacts ==
  ASSUME IsImage(image), NEW lba \in Nat, NEW size \in Nat,
         RunTag(lba, SectorsOf(size)) = "ok", Parsed(lba, size) = "ok"
  PROVE  /\ IsList(Records(Chunks(lba, size)))
         /\ Len(Records(Chunks(lba, size))) <= size + SECTOR
         /\ Range(Records(Chunks(lba, size))) = {Trim(s) : s \in Named(lba, size)}
<1>1. PICK f : f = FlattenSeq(Chunks(lba, size))
  OBVIOUS
<1>2. IsList(f) /\ Range(f) = InDirectory(lba, size) /\ Len(f) <= size + SECTOR
  BY <1>1, ChunksFacts
<1>3. PICK places : places = {i \in DOMAIN f : ~f[i].dot}
  OBVIOUS
<1>4. PICK g : g = Items(f, places)
  OBVIOUS
<1>5. IsList(g) /\ Range(g) = {f[i] : i \in places} /\ Len(g) <= Len(f)
  BY <1>2, <1>3, <1>4, ItemsFacts
<1>6. Range(g) = Named(lba, size)
  BY <1>2, <1>3, <1>5 DEF Named, Range
<1>7. PICK r : r = [i \in DOMAIN g |-> Trim(g[i])]
  OBVIOUS
<1>8. r = [i \in DOMAIN g |-> r[i]] /\ \A i \in DOMAIN g : r[i] = Trim(g[i])
  BY <1>7
<1>9. IsList(r) /\ Len(r) = Len(g) /\ Range(r) = {r[i] : i \in DOMAIN g}
  BY <1>5, <1>8, MappedList
<1>10. Range(r) = {Trim(s) : s \in Named(lba, size)}
  BY <1>6, <1>8, <1>9 DEF Range
<1>11. Records(Chunks(lba, size)) = r
  BY <1>1, <1>3, <1>4, <1>7 DEF Records, Pick, Each, Trim
<1>12. Len(r) <= size + SECTOR
  <2>1. Len(f) \in Nat /\ Len(g) \in Nat
    BY <1>2, <1>5, ListFacts
  <2> QED BY <1>2, <1>5, <1>9, <2>1, SectorAssumption
<1> QED BY <1>9, <1>10, <1>11, <1>12

LEMMA AreasFacts ==
  ASSUME IsImage(image), NEW lba \in Nat, NEW size \in Nat,
         RunTag(lba, SectorsOf(size)) = "ok", Parsed(lba, size) = "ok"
  PROVE  /\ Areas(lba, size) \in {"ok", "io", "eof"}
         /\ Areas(lba, size) = "eof" =>
              \E s \in InDirectory(lba, size) :
                /\ continuation(Trimmed(s.su)) # None /\ continuation(Trimmed(s.su)).fits
                /\ continuation(Trimmed(s.su)).lba \in Nat
                /\ continuation(Trimmed(s.su)).lba >= image.end
<1>1. PICK r : r = Records(Chunks(lba, size))
  OBVIOUS
<1>2. IsList(r) /\ Range(r) = {Trim(s) : s \in Named(lba, size)}
  BY <1>1, RecordsFacts
<1>3. PICK tags : tags = [i \in DOMAIN r |-> AreaTag(r[i].su)]
  OBVIOUS
<1>4. tags = [i \in DOMAIN r |-> tags[i]] /\ DOMAIN tags = DOMAIN r
      /\ \A i \in DOMAIN r : tags[i] = AreaTag(r[i].su)
  BY <1>3
<1>5. IsList(tags)
  BY <1>2, <1>4, MappedList
<1>6. Areas(lba, size) = FirstFailure(tags)
  BY <1>1, <1>3 DEF Areas, Each
<1>7. \A i \in DOMAIN r : \E s \in InDirectory(lba, size) : IsRecord(s) /\ r[i] = Trim(s)
  <2>1. \A i \in DOMAIN r : r[i] \in Range(r)
    BY <1>2, ListFacts
  <2>2. \A s \in Named(lba, size) : s \in InDirectory(lba, size) /\ IsRecord(s)
    BY ParsedFacts DEF Named
  <2> QED BY <1>2, <2>1, <2>2
<1>8. ASSUME NEW i \in DOMAIN r
      PROVE  /\ tags[i] \in {"ok", "io", "eof"}
             /\ tags[i] = "eof" => \E s \in InDirectory(lba, size) :
                                     /\ continuation(Trimmed(s.su)) # None /\ continuation(Trimmed(s.su)).fits
                                     /\ continuation(Trimmed(s.su)).lba \in Nat
                                     /\ continuation(Trimmed(s.su)).lba >= image.end
  <2>1. PICK s \in InDirectory(lba, size) : IsRecord(s) /\ r[i] = Trim(s)
    BY <1>7
  <2>2. PICK a : a = Trimmed(s.su)
    OBVIOUS
  <2>3. tags[i] = AreaTag(a) /\ IsSystemUse(a)
    BY <1>4, <2>1, <2>2, TrimFacts
  <2> QED BY <2>2, <2>3, AreaTagFacts
<1>9. CASE FirstFailure(tags) = "ok"
  BY <1>6, <1>9
<1>10. CASE FirstFailure(tags) # "ok"
  <2>1. PICK i \in DOMAIN r : FirstFailure(tags) = tags[i]
    BY <1>4, <1>5, <1>10, FirstFailureFacts
  <2> QED BY <1>6, <1>8, <2>1
<1> QED BY <1>9, <1>10

(* What a listing holds, and why it may end behind the image.               *)
LEMMA ReadDirFacts ==
  ASSUME IsImage(image), NEW lba \in Nat, NEW size \in Nat
  PROVE  /\ read_dir(lba, size).tag \in {"ok"} \cup Failures
         /\ IsList(read_dir(lba, size).recs)
         /\ Len(read_dir(lba, size).recs) <= MAX_DIR_SIZE + SECTOR
         /\ \A r \in Range(read_dir(lba, size).recs) : IsListed(r)
         /\ read_dir(lba, size).tag # "ok" => read_dir(lba, size).recs = <<>>
         /\ read_dir(lba, size).tag = "ok" =>
              /\ size <= MAX_DIR_SIZE /\ RunTag(lba, SectorsOf(size)) = "ok"
              /\ Parsed(lba, size) = "ok"
              /\ Range(read_dir(lba, size).recs) = {Extend(Trim(s)) : s \in Named(lba, size)}
         /\ read_dir(lba, size).tag = "eof" =>
              \/ \E l \in lba .. lba + SectorsOf(size) - 1 : l >= image.end
              \/ /\ \A l \in lba .. lba + SectorsOf(size) - 1 : l < image.end
                 /\ \E s \in InDirectory(lba, size) :
                      /\ IsRecord(s) /\ continuation(Trimmed(s.su)) # None /\ continuation(Trimmed(s.su)).fits
                      /\ continuation(Trimmed(s.su)).lba \in Nat
                      /\ continuation(Trimmed(s.su)).lba >= image.end
<1>1. PICK d : d = read_dir(lba, size)
  OBVIOUS
<1>2. MAX_DIR_SIZE \in Nat /\ SECTOR \in Nat /\ SectorsOf(size) \in Nat /\ image.end \in Nat
  BY DirSizeAssumption, SectorAssumption, SectorsFacts DEF IsImage
<1>3. ASSUME NEW tag, d = Failed(tag), tag # "ok"
      PROVE  d.tag = tag /\ IsList(d.recs) /\ Len(d.recs) <= MAX_DIR_SIZE + SECTOR
             /\ d.recs = <<>> /\ Range(d.recs) = {}
  <2>1. d.tag = tag /\ d.recs = <<>>
    BY <1>3 DEF Failed
  <2> QED BY <1>2, <2>1, EmptyList
<1>4. CASE size > MAX_DIR_SIZE
  <2>1. d = Failed("limit") /\ "limit" # "ok"
    BY <1>1, <1>4, ReadDirShape
  <2>2. /\ d.tag = "limit" /\ IsList(d.recs) /\ Len(d.recs) <= MAX_DIR_SIZE + SECTOR
        /\ d.recs = <<>> /\ Range(d.recs) = {}
    BY <1>3, <2>1
  <2> QED BY <1>1, <2>2 DEF Failures
<1>5. CASE ~(size > MAX_DIR_SIZE) /\ RunTag(lba, SectorsOf(size)) # "ok"
  <2>1. PICK tag : tag = RunTag(lba, SectorsOf(size))
    OBVIOUS
  <2>2. d = Failed(tag) /\ tag # "ok"
    BY <1>1, <1>5, <2>1, ReadDirShape
  <2>3. tag \in {"ok", "io", "eof"}
        /\ (tag = "eof" => \E k \in lba .. lba + SectorsOf(size) - 1 : k >= image.end)
    BY <1>2, <2>1, RunTagFacts
  <2> QED BY <1>1, <1>3, <2>2, <2>3 DEF Failures
<1>6. CASE ~(size > MAX_DIR_SIZE) /\ RunTag(lba, SectorsOf(size)) = "ok" /\ Parsed(lba, size) # "ok"
  <2>1. PICK tag : tag = Parsed(lba, size)
    OBVIOUS
  <2>2. d = Failed(tag) /\ tag # "ok" /\ tag \in {"ok", "hangs", "bad"}
    BY <1>1, <1>6, <2>1, ReadDirShape, ParsedFacts
  <2> QED BY <1>1, <1>3, <2>2 DEF Failures
<1>7. CASE ~(size > MAX_DIR_SIZE) /\ RunTag(lba, SectorsOf(size)) = "ok" /\ Parsed(lba, size) = "ok"
           /\ Areas(lba, size) # "ok"
  <2>1. PICK tag : tag = Areas(lba, size)
    OBVIOUS
  <2>2. d = Failed(tag) /\ tag # "ok" /\ tag \in {"ok", "io", "eof"}
    BY <1>1, <1>7, <2>1, ReadDirShape, AreasFacts
  <2>3. tag = "eof" =>
          /\ \A l \in lba .. lba + SectorsOf(size) - 1 : l < image.end
          /\ \E s \in InDirectory(lba, size) :
               /\ IsRecord(s) /\ continuation(Trimmed(s.su)) # None /\ continuation(Trimmed(s.su)).fits
               /\ continuation(Trimmed(s.su)).lba \in Nat
               /\ continuation(Trimmed(s.su)).lba >= image.end
    <3>1. \A l \in lba .. lba + SectorsOf(size) - 1 : l \in 0 .. image.end - 1
      BY <1>2, <1>7, RunTagFacts
    <3>2. \A l \in 0 .. image.end - 1 : l < image.end
      BY <1>2
    <3>3. \A s \in InDirectory(lba, size) : IsRecord(s)
      BY <1>7, ParsedFacts
    <3> QED BY <1>7, <2>1, <3>1, <3>2, <3>3, AreasFacts
  <2> QED BY <1>1, <1>3, <2>2, <2>3 DEF Failures
<1>8. CASE ~(size > MAX_DIR_SIZE) /\ RunTag(lba, SectorsOf(size)) = "ok" /\ Parsed(lba, size) = "ok"
           /\ Areas(lba, size) = "ok"
  <2>1. PICK r : r = Records(Chunks(lba, size))
    OBVIOUS
  <2>2. IsList(r) /\ Len(r) <= size + SECTOR /\ Range(r) = {Trim(s) : s \in Named(lba, size)}
    BY <1>8, <2>1, RecordsFacts
  <2>3. PICK x : x = [i \in DOMAIN r |-> Extend(r[i])]
    OBVIOUS
  <2>4. x = [i \in DOMAIN r |-> x[i]] /\ \A i \in DOMAIN r : x[i] = Extend(r[i])
    BY <2>3
  <2>5. IsList(x) /\ Len(x) = Len(r) /\ Range(x) = {x[i] : i \in DOMAIN r}
    BY <2>2, <2>4, MappedList
  <2>6. Range(x) = {Extend(Trim(s)) : s \in Named(lba, size)}
    <3>1. Range(r) = {r[i] : i \in DOMAIN r}
      BY DEF Range
    <3>2. \A y : y \in Range(x) <=> \E i \in DOMAIN r : y = Extend(r[i])
      BY <2>4, <2>5
    <3>3. ASSUME NEW i \in DOMAIN r PROVE \E s \in Named(lba, size) : Extend(r[i]) = Extend(Trim(s))
      <4>1. PICK s \in Named(lba, size) : r[i] = Trim(s)
        BY <2>2, <3>1
      <4> QED BY <4>1
    <3>4. ASSUME NEW s \in Named(lba, size) PROVE \E i \in DOMAIN r : Extend(Trim(s)) = Extend(r[i])
      <4>1. PICK i \in DOMAIN r : r[i] = Trim(s)
        BY <2>2, <3>1
      <4> QED BY <4>1
    <3>5. \A y : y \in Range(x) <=> \E s \in Named(lba, size) : y = Extend(Trim(s))
      BY <3>2, <3>3, <3>4
    <3> QED BY <3>5
  <2>7. d.tag = "ok" /\ d.recs = x
    BY <1>1, <1>8, <2>1, <2>3, ReadDirShape DEF Each
  <2>8. size <= MAX_DIR_SIZE /\ Len(x) <= MAX_DIR_SIZE + SECTOR
    <3>1. Len(r) \in Nat
      BY <2>2, ListFacts
    <3> QED BY <1>2, <1>8, <2>2, <2>5, <3>1
  <2>9. \A y \in Range(x) : IsListed(y)
    <3>1. \A s \in Named(lba, size) : IsRecord(s)
      BY <1>8, ParsedFacts DEF Named
    <3>2. \A s \in Named(lba, size) : IsListed(Extend(Trim(s)))
      BY <3>1, TrimFacts
    <3> QED BY <2>6, <3>2
  <2> QED BY <1>1, <1>8, <2>5, <2>6, <2>7, <2>8, <2>9
<1> QED BY <1>4, <1>5, <1>6, <1>7, <1>8

--------------------------------------------------------------------------------
(* A device that loses sectors.                                             *)

(* The image stays; what could not be read still cannot.                    *)
Worse == image' = image /\ bad \subseteq bad'

Prefix(slots, room) ==
  LET inside == SubSeq(slots, 1, Lesser(SECTOR, room))
      zeros  == {i \in DOMAIN inside : inside[i] = Free}
  IN  IF zeros = {} THEN inside ELSE SubSeq(inside, 1, Min(zeros) - 1)

Shown(slots) == Pick(slots, LAMBDA s : ~s.dot)

(* The parts of a listing, each told from the one before.                   *)
UsedPart == \A l, room, s : s = Slots(l) => Used(l, room) = Prefix(s, room)

ChunkPart ==
  \A lba, size, c : c = Chunks(lba, size) =>
    /\ Parsed(lba, size) = FirstFailure([i \in DOMAIN c |-> ParseTag(c[i])])
    /\ \A g : g = Shown(FlattenSeq(c)) =>
         Records(Chunks(lba, size)) = [i \in DOMAIN g |-> Trim(g[i])]

AreaPart ==
  \A lba, size, r : r = Records(Chunks(lba, size)) =>
    Areas(lba, size) = FirstFailure([i \in DOMAIN r |-> AreaTag(r[i].su)])

ShapePart ==
  \A lba, r, n : \A size \in Nat : r = Records(Chunks(lba, size)) /\ n = SectorsOf(size) =>
    read_dir(lba, size) =
      IF size > MAX_DIR_SIZE THEN Failed("limit")
      ELSE IF RunTag(lba, n) # "ok" THEN Failed(RunTag(lba, n))
      ELSE IF Parsed(lba, size) # "ok" THEN Failed(Parsed(lba, size))
      ELSE IF Areas(lba, size) # "ok" THEN Failed(Areas(lba, size))
      ELSE [tag |-> "ok", recs |-> [i \in DOMAIN r |-> Extend(r[i])]]

LEMMA UsedPartHolds == UsedPart
BY DEF UsedPart, Used, Prefix

LEMMA ChunkPartHolds == ChunkPart
<1> SUFFICES ASSUME NEW lba, NEW size, NEW c, c = Chunks(lba, size)
             PROVE  /\ Parsed(lba, size) = FirstFailure([i \in DOMAIN c |-> ParseTag(c[i])])
                    /\ \A g : g = Shown(FlattenSeq(c)) =>
                         Records(Chunks(lba, size)) = [i \in DOMAIN g |-> Trim(g[i])]
  BY DEF ChunkPart
<1>1. Parsed(lba, size) = FirstFailure([i \in DOMAIN c |-> ParseTag(c[i])])
  BY DEF Parsed, Each
<1>2. ASSUME NEW g, g = Shown(FlattenSeq(c))
      PROVE  Records(Chunks(lba, size)) = [i \in DOMAIN g |-> Trim(g[i])]
  BY <1>2 DEF Records, Each, Trim, Shown
<1> QED BY <1>1, <1>2

LEMMA AreaPartHolds == AreaPart
BY DEF AreaPart, Areas, Each

LEMMA ShapePartHolds == ShapePart
<1> SUFFICES ASSUME NEW lba, NEW r, NEW n, NEW size \in Nat,
                    r = Records(Chunks(lba, size)), n = SectorsOf(size)
             PROVE  read_dir(lba, size) =
                      IF size > MAX_DIR_SIZE THEN Failed("limit")
                      ELSE IF RunTag(lba, n) # "ok" THEN Failed(RunTag(lba, n))
                      ELSE IF Parsed(lba, size) # "ok" THEN Failed(Parsed(lba, size))
                      ELSE IF Areas(lba, size) # "ok" THEN Failed(Areas(lba, size))
                      ELSE [tag |-> "ok", recs |-> [i \in DOMAIN r |-> Extend(r[i])]]
  BY DEF ShapePart
<1> QED BY ReadDirShape DEF Each

LEMMA ReadTagStable ==
  ASSUME Worse
  PROVE  \A l : ReadTag(l)' = ReadTag(l) \/ ReadTag(l)' = "io"
BY DEF Worse, ReadTag

LEMMA RunTagStable ==
  ASSUME Worse, NEW l \in Nat, NEW n \in Nat
  PROVE  RunTag(l, n)' = RunTag(l, n) \/ RunTag(l, n)' = "io"
<1>1. PICK s : s = [i \in 1 .. n |-> ReadTag(l + i - 1)]
  OBVIOUS
<1>2. PICK t : t = [i \in 1 .. n |-> ReadTag(l + i - 1)']
  OBVIOUS
<1>3. IsList(s) /\ IsList(t) /\ DOMAIN s = 1 .. n /\ DOMAIN t = 1 .. n
  BY <1>1, <1>2, FunctionIsList
<1>4. \A i \in 1 .. n : t[i] = s[i] \/ t[i] = "io"
  BY <1>1, <1>2, ReadTagStable
<1>5. RunTag(l, n) = FirstFailure(s)
  BY <1>1 DEF RunTag
<1>6. RunTag(l, n)' = FirstFailure(t)
  BY <1>2 DEF RunTag
<1> QED BY <1>3, <1>4, <1>5, <1>6, FirstFailureStable

LEMMA UsedStable ==
  ASSUME Worse
  PROVE  \A l, room : Used(l, room)' = Used(l, room)
<1>1. \A l : Slots(l)' = Slots(l)
  BY DEF Worse, Slots
<1>2. UsedPart /\ UsedPart'
  BY UsedPartHolds, PTL
<1> TAKE l, room
<1>3. PICK s : s = Slots(l)
  OBVIOUS
<1>4. Used(l, room) = Prefix(s, room)
  BY <1>2, <1>3 DEF UsedPart
<1>5. Used(l, room)' = Prefix(s, room)
  BY <1>1, <1>2, <1>3 DEF UsedPart
<1> QED BY <1>4, <1>5

LEMMA ChunksStable ==
  ASSUME Worse, NEW lba, NEW size
  PROVE  Chunks(lba, size)' = Chunks(lba, size)
BY UsedStable DEF Chunks

LEMMA TrimStable ==
  ASSUME Worse
  PROVE  \A s : Trim(s)' = Trim(s)
<1>1. \A a : Trimmed(a)' = Trimmed(a)
  BY DEF Worse, Trimmed
<1> QED BY <1>1 DEF Trim

LEMMA ListingStable ==
  ASSUME Worse, NEW lba, NEW size
  PROVE  /\ Parsed(lba, size)' = Parsed(lba, size)
         /\ Records(Chunks(lba, size))' = Records(Chunks(lba, size))
<1>1. PICK c : c = Chunks(lba, size)
  OBVIOUS
<1>2. Chunks(lba, size)' = c
  BY <1>1, ChunksStable
<1>3. ChunkPart /\ ChunkPart'
  BY ChunkPartHolds, PTL
<1>4. PICK g : g = Shown(FlattenSeq(c))
  OBVIOUS
<1>5. PICK r : r = [i \in DOMAIN g |-> Trim(g[i])]
  OBVIOUS
<1>6. r = [i \in DOMAIN g |-> Trim(g[i])']
  BY <1>5, TrimStable
<1>7. Parsed(lba, size) = FirstFailure([i \in DOMAIN c |-> ParseTag(c[i])])
      /\ Records(Chunks(lba, size)) = r
  BY <1>1, <1>3, <1>4, <1>5 DEF ChunkPart
<1>8. Parsed(lba, size)' = FirstFailure([i \in DOMAIN c |-> ParseTag(c[i])])
      /\ Records(Chunks(lba, size))' = r
  BY <1>2, <1>3, <1>4, <1>6 DEF ChunkPart
<1> QED BY <1>7, <1>8

(* A worse device answers the same about a directory, or fails with "io".    *)
LEMMA ReadDirStable ==
  ASSUME Worse, IsImage(image), NEW lba \in Nat, NEW size \in Nat
  PROVE  read_dir(lba, size)' = read_dir(lba, size) \/ read_dir(lba, size)' = Failed("io")
<1>1. PICK r : r = Records(Chunks(lba, size))
  OBVIOUS
<1>2. PICK n : n = SectorsOf(size)
  OBVIOUS
<1>3. PICK p : p = Parsed(lba, size)
  OBVIOUS
<1>4. Records(Chunks(lba, size))' = r /\ Parsed(lba, size)' = p
  BY <1>1, <1>3, ListingStable
<1>5. ShapePart /\ ShapePart' /\ AreaPart /\ AreaPart'
  BY ShapePartHolds, AreaPartHolds, PTL
<1>6. n \in Nat
  BY <1>2, SectorsFacts
<1>7. RunTag(lba, n)' = RunTag(lba, n) \/ RunTag(lba, n)' = "io"
  BY <1>6, RunTagStable
<1>8. read_dir(lba, size) =
      IF size > MAX_DIR_SIZE THEN Failed("limit")
      ELSE IF RunTag(lba, n) # "ok" THEN Failed(RunTag(lba, n))
      ELSE IF p # "ok" THEN Failed(p)
      ELSE IF Areas(lba, size) # "ok" THEN Failed(Areas(lba, size))
      ELSE [tag |-> "ok", recs |-> [i \in DOMAIN r |-> Extend(r[i])]]
  BY <1>1, <1>2, <1>3, <1>5 DEF ShapePart
<1>9. read_dir(lba, size)' =
      IF size > MAX_DIR_SIZE THEN Failed("limit")
      ELSE IF RunTag(lba, n)' # "ok" THEN Failed(RunTag(lba, n)')
      ELSE IF p # "ok" THEN Failed(p)
      ELSE IF Areas(lba, size)' # "ok" THEN Failed(Areas(lba, size)')
      ELSE [tag |-> "ok", recs |-> [i \in DOMAIN r |-> Extend(r[i])]]
  BY <1>2, <1>4, <1>5 DEF ShapePart
<1>10. CASE RunTag(lba, n) = "ok" /\ p = "ok"
  <2>1. IsList(r)
    BY <1>1, <1>2, <1>3, <1>10, RecordsFacts
  <2>2. PICK s : s = [i \in DOMAIN r |-> AreaTag(r[i].su)]
    OBVIOUS
  <2>3. PICK t : t = [i \in DOMAIN r |-> AreaTag(r[i].su)']
    OBVIOUS
  <2>4. s = [i \in DOMAIN r |-> s[i]] /\ t = [i \in DOMAIN r |-> t[i]]
    BY <2>2, <2>3
  <2>5. IsList(s) /\ IsList(t) /\ DOMAIN s = DOMAIN t
    BY <2>1, <2>4, MappedList
  <2>6. \A a : AreaTag(a)' = AreaTag(a) \/ AreaTag(a)' = "io"
    BY ReadTagStable DEF AreaTag
  <2>7. \A i \in DOMAIN s : t[i] = s[i] \/ t[i] = "io"
    BY <2>2, <2>3, <2>6
  <2>13. Areas(lba, size) = FirstFailure(s)
    BY <1>1, <1>5, <2>2 DEF AreaPart
  <2>14. Areas(lba, size)' = FirstFailure(t)
    BY <1>4, <1>5, <2>3 DEF AreaPart
  <2>15. Areas(lba, size)' = Areas(lba, size) \/ Areas(lba, size)' = "io"
    BY <2>5, <2>7, <2>13, <2>14, FirstFailureStable
  <2> QED BY <1>7, <1>8, <1>9, <1>10, <2>15
<1>11. CASE ~(RunTag(lba, n) = "ok" /\ p = "ok")
  BY <1>7, <1>8, <1>9, <1>11
<1> QED BY <1>10, <1>11

--------------------------------------------------------------------------------
(* Steps repeated: the walk's, and those of the second tree's worklist.      *)

Turn(which, m) == IF which = "walk" THEN Advance(m) ELSE Claim(m)

IsRun(f, which, m) == f = [n \in Nat |-> IF n = 0 THEN m ELSE Turn(which, f[n - 1])]

Repeat(which, m) == CHOOSE f : IsRun(f, which, m)

RunPart == \A which, m : \E f : IsRun(f, which, m)

LEMMA Induction ==
  ASSUME NEW T \in SUBSET Nat, 0 \in T, \A n \in T : n + 1 \in T
  PROVE  T = Nat
<1> SUFFICES ASSUME Nat \ T # {} PROVE FALSE
  OBVIOUS
<1>1. PICK k \in Nat \ T : \A y \in Nat \ T : k <= y
  <2>1. PICK U : U = Nat \ T
    OBVIOUS
  <2>2. U \in SUBSET Nat /\ U # {}
    BY <2>1
  <2>3. \E x \in U : \A y \in U : x <= y
    BY <2>2, Least
  <2> QED BY <2>1, <2>3
<1>2. k # 0 /\ k - 1 \in Nat /\ ~(k <= k - 1) /\ (k - 1) + 1 = k
  OBVIOUS
<1>3. k - 1 \in T
  BY <1>1, <1>2
<1> QED BY <1>1, <1>2, <1>3

(* The steps can be repeated for ever.                                      *)
LEMMA RunsExist == RunPart
<1> SUFFICES ASSUME NEW which, NEW m PROVE \E f : IsRun(f, which, m)
  BY DEF RunPart
<1> DEFINE Start(g, n) == g = [k \in 0 .. n |-> IF k = 0 THEN m ELSE Turn(which, g[k - 1])]
<1>1. \A n \in Nat : \E g : Start(g, n)
  <2>1. PICK T : T = {n \in Nat : \E g : Start(g, n)}
    OBVIOUS
  <2>2. 0 \in T
    <3>1. Start([k \in 0 .. 0 |-> m], 0)
      OBVIOUS
    <3> QED BY <2>1, <3>1
  <2>3. ASSUME NEW n \in T PROVE n + 1 \in T
    <3>1. n \in Nat /\ \E g : Start(g, n)
      BY <2>1
    <3>2. PICK g : Start(g, n)
      BY <3>1
    <3>3. PICK h : h = [k \in 0 .. n + 1 |-> IF k = n + 1 THEN Turn(which, g[n]) ELSE g[k]]
      OBVIOUS
    <3>4. h = [k \in 0 .. n + 1 |-> h[k]] /\ h[n + 1] = Turn(which, g[n]) /\ \A k \in 0 .. n : h[k] = g[k]
      BY <3>1, <3>3
    <3>5. \A k \in 0 .. n : g[k] = IF k = 0 THEN m ELSE Turn(which, g[k - 1])
      BY Zenon, <3>2
    <3>6. ASSUME NEW k \in 0 .. n + 1 PROVE h[k] = IF k = 0 THEN m ELSE Turn(which, h[k - 1])
      <4>1. CASE k = n + 1
        <5>1. k # 0 /\ k - 1 = n /\ n \in 0 .. n
          BY <3>1, <4>1
        <5> QED BY <3>4, <4>1, <5>1
      <4>2. CASE k # n + 1
        <5>1. k \in 0 .. n /\ (k # 0 => k - 1 \in 0 .. n)
          BY <3>1, <4>2
        <5> QED BY <3>4, <3>5, <5>1
      <4> QED BY <4>1, <4>2
    <3>7. Start(h, n + 1)
      BY <3>4, <3>6
    <3> HIDE DEF Start
    <3>8. n + 1 \in Nat
      BY <3>1
    <3> QED BY <2>1, <3>7, <3>8
  <2>4. T = Nat
    <3> HIDE DEF Start
    <3>1. T \in SUBSET Nat
      BY <2>1
    <3> QED BY <2>2, <2>3, <3>1, Induction
  <2> HIDE DEF Start
  <2> QED BY <2>1, <2>4
<1>2. ASSUME NEW a \in Nat, NEW b \in Nat, NEW g, NEW h, Start(g, a), Start(h, b), a <= b
      PROVE  \A k \in 0 .. a : g[k] = h[k]
  <2>1. \A k \in 0 .. a : g[k] = IF k = 0 THEN m ELSE Turn(which, g[k - 1])
    BY Zenon, <1>2
  <2>2. \A k \in 0 .. b : h[k] = IF k = 0 THEN m ELSE Turn(which, h[k - 1])
    BY Zenon, <1>2
  <2> HIDE DEF Start
  <2>3. PICK T : T = {k \in Nat : k <= a => g[k] = h[k]}
    OBVIOUS
  <2>4. 0 \in T
    <3>1. 0 \in 0 .. a /\ 0 \in 0 .. b
      OBVIOUS
    <3>2. g[0] = m /\ h[0] = m
      BY <2>1, <2>2, <3>1
    <3> QED BY <2>3, <3>2
  <2>5. ASSUME NEW k \in T PROVE k + 1 \in T
    <3>1. k \in Nat /\ (k <= a => g[k] = h[k])
      BY <2>3
    <3>2. ASSUME k + 1 <= a PROVE g[k + 1] = h[k + 1]
      <4>1. k + 1 \in 0 .. a /\ k + 1 \in 0 .. b /\ k <= a /\ k + 1 # 0 /\ (k + 1) - 1 = k
        BY <1>2, <3>1, <3>2
      <4>2. g[k + 1] = Turn(which, g[k]) /\ h[k + 1] = Turn(which, h[k])
        BY <2>1, <2>2, <4>1
      <4> QED BY <3>1, <4>1, <4>2
    <3> QED BY <2>3, <3>1, <3>2
  <2>6. T = Nat
    <3>1. T \in SUBSET Nat
      BY <2>3
    <3> QED BY <2>4, <2>5, <3>1, Induction
  <2>7. \A k \in 0 .. a : k \in T /\ k <= a
    BY <2>6
  <2> QED BY <2>3, <2>7
<1> DEFINE G(n) == CHOOSE g : Start(g, n)
<1>3. \A n \in Nat : Start(G(n), n)
  <2> HIDE DEF Start
  <2> QED BY <1>1
<1>4. PICK f : f = [n \in Nat |-> G(n)[n]]
  OBVIOUS
<1> HIDE DEF G
<1>5. \A n \in Nat : f[n] = IF n = 0 THEN m ELSE Turn(which, f[n - 1])
  <2> TAKE n \in Nat
  <2>1. f[n] = G(n)[n]
    BY <1>4
  <2>2. PICK g : g = G(n)
    OBVIOUS
  <2>3. Start(g, n)
    BY <1>3, <2>2
  <2>4. n \in 0 .. n
    OBVIOUS
  <2>5. g[n] = IF n = 0 THEN m ELSE Turn(which, g[n - 1])
    BY Zenon, <2>3, <2>4
  <2>6. CASE n = 0
    BY <2>1, <2>2, <2>5, <2>6
  <2>7. CASE n # 0
    <3>1. n - 1 \in Nat /\ n - 1 <= n /\ n - 1 \in 0 .. n - 1
      BY <2>7
    <3>2. PICK h : h = G(n - 1)
      OBVIOUS
    <3>3. Start(h, n - 1)
      BY <1>3, <3>1, <3>2
    <3> HIDE DEF Start
    <3>4. h[n - 1] = g[n - 1]
      BY <1>2, <2>3, <3>1, <3>3
    <3>5. f[n - 1] = h[n - 1]
      BY <1>4, <3>1, <3>2
    <3> QED BY <2>1, <2>2, <2>5, <2>7, <3>4, <3>5
  <2> QED BY <2>6, <2>7
<1>6. f = [n \in Nat |-> f[n]]
  BY <1>4
<1>7. IsRun(f, which, m)
  BY <1>5, <1>6 DEF IsRun
<1> QED BY <1>7

LEMMA RunFacts ==
  ASSUME NEW which, NEW m
  PROVE  Repeat(which, m)[0] = m /\ \A n \in Nat : Repeat(which, m)[n + 1] = Turn(which, Repeat(which, m)[n])
<1>1. PICK f : f = Repeat(which, m)
  OBVIOUS
<1>2. IsRun(f, which, m)
  BY <1>1, RunsExist DEF RunPart, Repeat
<1>3. \A n \in Nat : f[n] = IF n = 0 THEN m ELSE Turn(which, f[n - 1])
  BY Zenon, <1>2 DEF IsRun
<1>4. \A n \in Nat : n + 1 \in Nat /\ n + 1 # 0 /\ (n + 1) - 1 = n
  OBVIOUS
<1>5. \A n \in Nat : f[n + 1] = Turn(which, f[n])
  BY <1>3, <1>4
<1> QED BY <1>1, <1>3, <1>5

WalkStart(x) == walk_dir(NoWalk, x.lba, x.size, <<>>, <<>>)

(* The states of the walk of a tree, one after the other.                    *)
WalkRun(x) == Repeat("walk", WalkStart(x))

LEMMA WalkRunFacts ==
  ASSUME NEW x
  PROVE  WalkRun(x)[0] = WalkStart(x) /\ \A n \in Nat : WalkRun(x)[n + 1] = Advance(WalkRun(x)[n])
BY RunFacts DEF WalkRun, Turn

LEMMA MaxVisitsNat ==
  ASSUME IsImage(image)
  PROVE  MaxVisits \in Nat
BY DirSizeAssumption, SectorAssumption DEF MaxVisits, IsImage

LEMMA WalkFromFacts ==
  ASSUME IsImage(image), NEW x
  PROVE  \E n \in 0 .. MaxVisits : /\ WalkFrom(x) = WalkRun(x)[n]
                                   /\ Ended(WalkRun(x)[n]) \/ n = MaxVisits
<1>1. PICK f : f = WalkRun(x)
  OBVIOUS
<1>2. WalkFrom(x) = f[CHOOSE n \in 0 .. MaxVisits : Ended(f[n]) \/ n = MaxVisits]
  BY <1>1 DEF WalkFrom, LastOf, WalkRun, Repeat, IsRun, Turn, WalkStart
<1>3. \E n \in 0 .. MaxVisits : Ended(f[n]) \/ n = MaxVisits
  BY MaxVisitsNat
<1>4. PICK n \in 0 .. MaxVisits : /\ n = CHOOSE k \in 0 .. MaxVisits : Ended(f[k]) \/ k = MaxVisits
                                  /\ Ended(f[n]) \/ n = MaxVisits
  BY Zenon, <1>3
<1> QED BY <1>1, <1>2, <1>4

--------------------------------------------------------------------------------
(* One step of the walk.                                                    *)

IsMachine(m) ==
  m = [tag |-> m.tag, out |-> m.out, visited |-> m.visited, skipped |-> m.skipped, todo |-> m.todo]

(* What entering a directory comes to, given its listing.                   *)
Entered(m, lba, path, up, listing, w) ==
  \/ lba \in m.visited /\ w = m
  \/ /\ lba \notin m.visited /\ IsMachine(w)
     /\ w.visited = m.visited \cup {lba} /\ w.out = m.out /\ w.skipped = m.skipped
     /\ \/ w.tag = "limit" /\ w.todo = m.todo
        \/ listing.tag # "ok" /\ w.tag = listing.tag /\ w.todo = m.todo
        \/ /\ listing.tag = "ok" /\ w.tag = m.tag
           /\ w.todo = EntriesOf(listing.recs, path, Append(up, lba)) \o m.todo

LEMMA WalkDirCases ==
  ASSUME NEW m, IsMachine(m), NEW lba, NEW size, NEW path, NEW up
  PROVE  Entered(m, lba, path, up, read_dir(lba, size), walk_dir(m, lba, size, path, up))
<1>0. PICK w, listing : w = walk_dir(m, lba, size, path, up) /\ listing = read_dir(lba, size)
  OBVIOUS
<1> SUFFICES Entered(m, lba, path, up, listing, w)
  BY <1>0
<1>1. PICK entered : entered = [m EXCEPT !.visited = @ \cup {lba}]
  OBVIOUS
<1>2. entered = [tag |-> m.tag, out |-> m.out, visited |-> m.visited \cup {lba},
                 skipped |-> m.skipped, todo |-> m.todo]
  BY <1>1 DEF IsMachine
<1>3. PICK entries : entries = EntriesOf(listing.recs, path, Append(up, lba))
  OBVIOUS
<1>4. w = IF lba \in m.visited THEN m
          ELSE IF Len(up) > MAX_WALK_DEPTH THEN [entered EXCEPT !.tag = "limit"]
          ELSE IF listing.tag # "ok" THEN [entered EXCEPT !.tag = listing.tag]
          ELSE [entered EXCEPT !.todo = entries \o @]
  BY <1>0, <1>1, <1>3 DEF walk_dir, EnterWith
<1>5. CASE lba \in m.visited
  BY <1>4, <1>5 DEF Entered
<1>6. CASE lba \notin m.visited /\ Len(up) > MAX_WALK_DEPTH
  <2>1. w = [tag |-> "limit", out |-> m.out, visited |-> m.visited \cup {lba},
             skipped |-> m.skipped, todo |-> m.todo]
    BY <1>2, <1>4, <1>6
  <2> QED BY <1>6, <2>1 DEF IsMachine, Entered
<1>7. CASE lba \notin m.visited /\ ~(Len(up) > MAX_WALK_DEPTH) /\ listing.tag # "ok"
  <2>1. w = [tag |-> listing.tag, out |-> m.out, visited |-> m.visited \cup {lba},
             skipped |-> m.skipped, todo |-> m.todo]
    BY <1>2, <1>4, <1>7
  <2> QED BY <1>7, <2>1 DEF IsMachine, Entered
<1>8. CASE lba \notin m.visited /\ ~(Len(up) > MAX_WALK_DEPTH) /\ listing.tag = "ok"
  <2>1. w = [tag |-> m.tag, out |-> m.out, visited |-> m.visited \cup {lba},
             skipped |-> m.skipped, todo |-> entries \o m.todo]
    BY <1>2, <1>4, <1>8
  <2> QED BY <1>3, <1>8, <2>1 DEF IsMachine, Entered
<1> QED BY <1>5, <1>6, <1>7, <1>8

(* What visiting the entry at hand comes to: it is listed, and a directory   *)
(* not seen before is walked.                                               *)
Stepped(m, e, t, listing, v) ==
  /\ IsMachine(v) /\ v.out = Append(m.out, e)
  /\ \/ /\ ~e.rec.dir \/ e.rec.lba \in m.visited
        /\ v.tag = "ok" /\ v.visited = m.visited /\ v.skipped = m.skipped /\ v.todo = t
     \/ /\ e.rec.dir /\ e.rec.lba \notin m.visited
        /\ v.visited = m.visited \cup {e.rec.lba}
        /\ \/ v.tag = "limit" /\ v.skipped = m.skipped /\ v.todo = t
           \/ /\ listing.tag \notin {"ok", "eof"} /\ v.tag = listing.tag
              /\ v.skipped = m.skipped /\ v.todo = t
           \/ /\ listing.tag = "eof" /\ v.tag = "ok"
              /\ v.skipped = m.skipped \cup {e} /\ v.todo = t
           \/ /\ listing.tag = "ok" /\ v.tag = "ok" /\ v.skipped = m.skipped
              /\ v.todo = EntriesOf(listing.recs, e.path, Append(e.up, e.rec.lba)) \o t

LEMMA VisitCases ==
  ASSUME NEW m, IsMachine(m), m.tag = "ok", NEW e, e = Head(m.todo), NEW t, t = Tail(m.todo),
         NEW v, v = Visit(m), NEW listing, listing = read_dir(e.rec.lba, e.rec.size)
  PROVE  Stepped(m, e, t, listing, v)
<1>1. PICK listed : listed = [m EXCEPT !.todo = Tail(@), !.out = Append(@, e)]
  OBVIOUS
<1>2. listed = [tag |-> "ok", out |-> Append(m.out, e), visited |-> m.visited,
                skipped |-> m.skipped, todo |-> t]
  BY <1>1 DEF IsMachine
<1>3. IsMachine(listed)
  BY <1>2 DEF IsMachine
<1>4. PICK below : below = walk_dir(listed, e.rec.lba, e.rec.size, e.path, e.up)
  OBVIOUS
<1>5. v = IF ~e.rec.dir THEN listed
          ELSE IF below.tag = "eof" THEN [below EXCEPT !.tag = "ok", !.skipped = @ \cup {e}]
          ELSE below
  BY <1>1, <1>4 DEF Visit, Passed
<1>6. PICK l, n, path, up : l = e.rec.lba /\ n = e.rec.size /\ path = e.path /\ up = e.up
  OBVIOUS
<1>6a. PICK entries : entries = EntriesOf(listing.recs, path, Append(up, l))
  OBVIOUS
<1>6b. listing = read_dir(l, n) /\ below = walk_dir(listed, l, n, path, up)
  BY <1>4, <1>6
<1>7. Entered(listed, l, path, up, listing, below)
  BY <1>3, <1>6b, WalkDirCases
<1>7a. listed.visited = m.visited /\ listed.tag = "ok" /\ listed.out = Append(m.out, e)
       /\ listed.skipped = m.skipped /\ listed.todo = t
  BY <1>2
<1>8. CASE ~e.rec.dir
  <2>1. v = listed
    BY <1>5, <1>8
  <2>2. v.out = Append(m.out, e) /\ v.tag = "ok" /\ v.visited = m.visited
        /\ v.skipped = m.skipped /\ v.todo = t
    BY <1>2, <2>1
  <2> QED BY Zenon, <1>3, <1>8, <2>1, <2>2 DEF Stepped
<1>9. CASE e.rec.dir /\ l \in m.visited
  <2>1. below = listed /\ below.tag # "eof"
    BY Zenon, <1>7, <1>7a, <1>9 DEF Entered
  <2>2. v = listed
    BY <1>5, <1>9, <2>1
  <2>3. v.out = Append(m.out, e) /\ v.tag = "ok" /\ v.visited = m.visited
        /\ v.skipped = m.skipped /\ v.todo = t
    BY <1>2, <2>2
  <2> QED BY ZenonT(60), Zenon, <1>3, <1>6, <1>9, <2>2, <2>3 DEF Stepped
<1>10. CASE e.rec.dir /\ l \notin m.visited
  <2>1. /\ IsMachine(below) /\ below.visited = m.visited \cup {l}
        /\ below.out = Append(m.out, e) /\ below.skipped = m.skipped
        /\ \/ below.tag = "limit" /\ below.todo = t
           \/ listing.tag # "ok" /\ below.tag = listing.tag /\ below.todo = t
           \/ listing.tag = "ok" /\ below.tag = "ok" /\ below.todo = entries \o t
    BY Zenon, <1>6a, <1>7, <1>7a, <1>10 DEF Entered
  <2>2. CASE below.tag = "eof"
    <3>1. v = [tag |-> "ok", out |-> below.out, visited |-> below.visited,
               skipped |-> below.skipped \cup {e}, todo |-> below.todo]
      BY <1>5, <1>10, <2>1, <2>2 DEF IsMachine
    <3>2. listing.tag = "eof" /\ below.todo = t
      BY <2>1, <2>2
    <3>3. /\ v.tag = "ok" /\ v.out = Append(m.out, e) /\ v.visited = m.visited \cup {l}
          /\ v.skipped = m.skipped \cup {e} /\ v.todo = t
      BY <2>1, <3>1, <3>2
    <3>4. IsMachine(v)
      BY <3>1 DEF IsMachine
    <3> QED BY Zenon, <1>6, <1>10, <3>2, <3>3, <3>4 DEF Stepped
  <2>3. CASE below.tag # "eof"
    <3>1. v = below
      BY <1>5, <1>10, <2>3
    <3>2. IsMachine(v) /\ v.out = Append(m.out, e) /\ v.visited = m.visited \cup {l}
          /\ v.skipped = m.skipped
      BY SMTT(40), <2>1, <3>1
    <3>3. \/ v.tag = "limit" /\ v.todo = t
          \/ listing.tag \notin {"ok", "eof"} /\ v.tag = listing.tag /\ v.todo = t
          \/ /\ listing.tag = "ok" /\ v.tag = "ok"
             /\ v.todo = EntriesOf(listing.recs, e.path, Append(e.up, e.rec.lba)) \o t
      <4>1. entries = EntriesOf(listing.recs, e.path, Append(e.up, e.rec.lba))
        BY <1>6, <1>6a
      <4>2. CASE below.tag = "limit" /\ below.todo = t
        BY SMTT(40), <3>1, <4>2
      <4>3. CASE listing.tag # "ok" /\ below.tag = listing.tag /\ below.todo = t
        BY ZenonT(60), <2>3, <3>1, <4>3
      <4>4. CASE listing.tag = "ok" /\ below.tag = "ok" /\ below.todo = entries \o t
        BY Zenon, <3>1, <4>1, <4>4
      <4> QED BY Zenon, <2>1, <4>2, <4>3, <4>4
    <3> QED BY Zenon, <1>6, <1>10, <3>2, <3>3 DEF Stepped
  <2> QED BY SMTT(40), <2>2, <2>3
<1> QED BY <1>6, <1>8, <1>9, <1>10

--------------------------------------------------------------------------------
(* The entries of a walk.                                                   *)

IsEntry(e) ==
  /\ e.path \in Seq(STRING) /\ IsListed(e.rec)
  /\ IsList(e.up) /\ Len(e.up) \in Nat \ {0}

(* An entry lies in the root or in a directory listed before it.            *)
LiesIn(x, out, e) ==
  \/ e.up = <<x.lba>> /\ e.path = Join(<<>>, NameOf(e.rec))
  \/ \E d \in Range(out) : /\ d.rec.dir /\ e.up = Append(d.up, d.rec.lba)
                           /\ e.path = Join(d.path, NameOf(e.rec))

LEMMA AppendList ==
  ASSUME NEW s, IsList(s), NEW x
  PROVE  IsList(Append(s, x)) /\ Range(Append(s, x)) = Range(s) \cup {x}
         /\ Len(Append(s, x)) = Len(s) + 1 /\ Append(s, x)[Len(s) + 1] = x
         /\ \A i \in 1 .. Len(s) : Append(s, x)[i] = s[i]
<1>1. PICK T : T = Range(s) \cup {x}
  OBVIOUS
<1>2. s \in Seq(T) /\ x \in T
  BY <1>1, SeqMonotonic DEF IsList
<1>3. Append(s, x) \in Seq(T) /\ Len(Append(s, x)) = Len(s) + 1 /\ Len(s) \in Nat
      /\ \A i \in 1 .. Len(s) : Append(s, x)[i] = s[i]
      /\ Append(s, x)[Len(s) + 1] = x
  BY <1>2, AppendProperties, LenProperties
<1>4. IsList(Append(s, x)) /\ Range(Append(s, x)) \subseteq T
  BY <1>3, IsListAny
<1>5. \A y \in T : y \in Range(Append(s, x))
  <2>1. DOMAIN Append(s, x) = 1 .. Len(s) + 1
    BY <1>3, LenProperties
  <2>2. Range(s) = {s[i] : i \in 1 .. Len(s)}
    BY ListFacts
  <2>3. x \in Range(Append(s, x))
    BY <1>3, <2>1 DEF Range
  <2>4. \A i \in 1 .. Len(s) : s[i] \in Range(Append(s, x))
    BY <1>3, <2>1 DEF Range
  <2> QED BY <1>1, <2>2, <2>3, <2>4
<1> QED BY <1>1, <1>3, <1>4, <1>5

LEMMA TailList ==
  ASSUME NEW s, IsList(s), s # <<>>
  PROVE  /\ IsList(Tail(s)) /\ Range(s) = {Head(s)} \cup Range(Tail(s))
         /\ Len(s) = Len(Tail(s)) + 1
<1>1. s \in Seq(Range(s)) /\ Len(s) \in Nat /\ Len(s) # 0 /\ DOMAIN s = 1 .. Len(s)
  BY ListFacts, EmptySeq DEF IsList
<1>2. Tail(s) \in Seq(Range(s)) /\ Len(Tail(s)) = Len(s) - 1 /\ Head(s) = s[1]
      /\ \A i \in 1 .. Len(s) - 1 : Tail(s)[i] = s[i + 1]
  BY <1>1, HeadTailProperties
<1>3. IsList(Tail(s)) /\ Range(Tail(s)) \subseteq Range(s)
  BY <1>2, IsListAny
<1>4. DOMAIN Tail(s) = 1 .. Len(s) - 1
  BY <1>2, LenProperties
<1>5. ASSUME NEW i \in 1 .. Len(s), i # 1 PROVE s[i] \in Range(Tail(s))
  <2>1. i - 1 \in 1 .. Len(s) - 1 /\ (i - 1) + 1 = i
    BY <1>1, <1>5
  <2>2. Tail(s)[i - 1] = s[i]
    BY <1>2, <2>1
  <2> QED BY <1>4, <2>1, <2>2 DEF Range
<1>6. Range(s) = {s[i] : i \in 1 .. Len(s)} /\ 1 \in 1 .. Len(s)
  BY <1>1, ListFacts
<1>7. \A y \in Range(s) : y \in {Head(s)} \cup Range(Tail(s))
  BY <1>2, <1>5, <1>6
<1>8. Head(s) \in Range(s)
  BY <1>2, <1>6
<1> QED BY <1>1, <1>2, <1>3, <1>7, <1>8

LEMMA NameOfFacts ==
  ASSUME NEW rec, IsListed(rec)
  PROVE  NameOf(rec) \in Seq(STRING)
BY NameFacts DEF NameOf, OrElse, IsListed

LEMMA OneMember ==
  ASSUME NEW T, NEW x \in T
  PROVE  <<x>> \in Seq(T) /\ Len(<<x>>) = 1 /\ <<x>>[1] = x
OBVIOUS

LEMMA JoinFacts ==
  ASSUME NEW prefix \in Seq(STRING), NEW name \in Seq(STRING)
  PROVE  Join(prefix, name) \in Seq(STRING)
<1>1. PICK T : T = STRING /\ SEPARATOR \in T
  BY SeparatorAssumption
<1>2. <<SEPARATOR>> \in Seq(T)
  BY <1>1, OneMember
<1>3. prefix \o <<SEPARATOR>> \in Seq(T)
  BY <1>1, <1>2, ConcatProperties
<1>4. (prefix \o <<SEPARATOR>>) \o name \in Seq(T)
  BY <1>1, <1>3, ConcatProperties
<1> QED BY <1>1, <1>4 DEF Join

(* The entries of a listing: one for each record, below the path.           *)
EntriesFor(es, recs, path, up) ==
  /\ IsList(es) /\ Len(es) = Len(recs)
  /\ \A e \in Range(es) : /\ IsEntry(e) /\ e.up = up /\ e.rec \in Range(recs)
                          /\ e.path = Join(path, NameOf(e.rec))
  /\ \A r \in Range(recs) : \E e \in Range(es) : e.rec = r

AreListed(recs) == IsList(recs) /\ \A r \in Range(recs) : IsListed(r)

LEMMA EntriesFacts ==
  ASSUME NEW recs, AreListed(recs), NEW path \in Seq(STRING), NEW up, IsList(up),
         Len(up) \in Nat \ {0}
  PROVE  EntriesFor(EntriesOf(recs, path, up), recs, path, up)
<1>0. PICK es : es = EntriesOf(recs, path, up)
  OBVIOUS
<1>0a. IsList(recs) /\ \A r \in Range(recs) : IsListed(r)
  BY DEF AreListed
<1>1. es = [i \in DOMAIN recs |-> [path |-> Join(path, NameOf(recs[i])), rec |-> recs[i], up |-> up]]
  BY <1>0 DEF EntriesOf, Each
<1>2. es = [i \in DOMAIN recs |-> es[i]]
  BY <1>1
<1>3. IsList(es) /\ Len(es) = Len(recs) /\ DOMAIN es = DOMAIN recs
      /\ Range(es) = {es[i] : i \in DOMAIN recs}
  <2>1. PICK f : f = es
    OBVIOUS
  <2>2. f = [i \in DOMAIN recs |-> f[i]]
    BY <1>2, <2>1
  <2>3. IsList(f) /\ Len(f) = Len(recs) /\ DOMAIN f = DOMAIN recs
        /\ Range(f) = {f[i] : i \in DOMAIN recs}
    BY <1>0a, <2>2, MappedList
  <2> QED BY <2>1, <2>3
<1>4. \A i \in DOMAIN recs : recs[i] \in Range(recs)
  BY <1>0a, ListFacts
<1>5. ASSUME NEW i \in DOMAIN recs
      PROVE  /\ IsEntry(es[i]) /\ es[i].up = up /\ es[i].rec \in Range(recs)
             /\ es[i].path = Join(path, NameOf(es[i].rec))
             /\ es[i].rec = recs[i]
  <2>1. es[i].path = Join(path, NameOf(recs[i])) /\ es[i].rec = recs[i] /\ es[i].up = up
    BY <1>1
  <2>2. IsListed(recs[i])
    BY <1>0a, <1>4
  <2>3. es[i].path \in Seq(STRING)
    BY <2>1, <2>2, NameOfFacts, JoinFacts
  <2> QED BY <1>4, <2>1, <2>2, <2>3 DEF IsEntry
<1>6. Range(recs) = {recs[i] : i \in DOMAIN recs}
  BY DEF Range
<1>7. \A r \in Range(recs) : \E e \in Range(es) : e.rec = r
  BY <1>3, <1>5, <1>6
<1>8. \A e \in Range(es) : /\ IsEntry(e) /\ e.up = up /\ e.rec \in Range(recs)
                           /\ e.path = Join(path, NameOf(e.rec))
  BY <1>3, <1>5
<1> QED BY <1>0, <1>3, <1>7, <1>8 DEF EntriesFor

--------------------------------------------------------------------------------
(* What is true of a walk all along.                                        *)

(* The directories met: the root and those among the entries listed.        *)
IsMet(x, out, l, n) ==
  \/ l = x.lba /\ n = x.size
  \/ \E d \in Range(out) : d.rec.dir /\ l = d.rec.lba /\ n = d.rec.size

(* Every entry has its place in the tree, and every directory left out its   *)
(* reason.                                                                  *)
WalkPlaces(x, m) ==
  /\ IsMachine(m) /\ m.tag \in {"ok"} \cup Failures
  /\ IsList(m.out) /\ IsList(m.todo)
  /\ \A e \in Range(m.out) \cup Range(m.todo) : IsEntry(e) /\ LiesIn(x, m.out, e)
  /\ m.skipped \subseteq Range(m.out)
  /\ \A e \in m.skipped : e.rec.dir /\ read_dir(e.rec.lba, e.rec.size).tag = "eof"
  /\ m.tag = "eof" => read_dir(x.lba, x.size).tag = "eof"

(* A directory met that starts at the sector, and all it holds.             *)
Holds(x, out, all, l) ==
  \E n \in Nat : /\ IsMet(x, out, l, n)
                 /\ \A r \in Range(read_dir(l, n).recs) : \E e \in all : e.rec = r

(* What is listed of a directory walked: all it holds.                      *)
WalkWhole(x, m) ==
  m.tag = "ok" =>
    /\ x.lba \in m.visited
    /\ \A e \in Range(m.out) : e.rec.dir => e.rec.lba \in m.visited
    /\ \A l \in m.visited : Holds(x, m.out, Range(m.out) \cup Range(m.todo), l)

LEMMA LiesInMore ==
  ASSUME NEW x, NEW out, NEW more, Range(out) \subseteq Range(more), NEW e, LiesIn(x, out, e)
  PROVE  LiesIn(x, more, e)
BY DEF LiesIn

LEMMA IsMetMore ==
  ASSUME NEW x, NEW out, NEW more, Range(out) \subseteq Range(more), NEW l, NEW n, IsMet(x, out, l, n)
  PROVE  IsMet(x, more, l, n)
BY DEF IsMet

LEMMA HoldsMore ==
  ASSUME NEW x, NEW out, NEW more, Range(out) \subseteq Range(more), NEW l,
         NEW all, NEW wider, all \subseteq wider, Holds(x, out, all, l)
  PROVE  Holds(x, more, wider, l)
<1>1. PICK n \in Nat : /\ IsMet(x, out, l, n)
                      /\ \A r \in Range(read_dir(l, n).recs) : \E e \in all : e.rec = r
  BY DEF Holds
<1>2. IsMet(x, more, l, n)
  BY <1>1, IsMetMore
<1> QED BY <1>1, <1>2 DEF Holds

(* Where the walk starts.                                                   *)
LEMMA StartCases ==
  ASSUME NEW x, NEW m, m = WalkStart(x), NEW listing, listing = read_dir(x.lba, x.size)
  PROVE  /\ IsMachine(m) /\ m.out = <<>> /\ m.skipped = {} /\ m.visited = {x.lba}
         /\ \/ m.tag = "limit" /\ m.todo = <<>>
            \/ listing.tag # "ok" /\ m.tag = listing.tag /\ m.todo = <<>>
            \/ /\ listing.tag = "ok" /\ m.tag = "ok"
               /\ m.todo = EntriesOf(listing.recs, <<>>, <<x.lba>>) \o <<>>
<1>1. /\ IsMachine(NoWalk) /\ NoWalk.out = <<>> /\ NoWalk.visited = {} /\ NoWalk.skipped = {}
      /\ NoWalk.tag = "ok" /\ NoWalk.todo = <<>>
  BY DEF NoWalk, IsMachine
<1>2. PICK l, n : l = x.lba /\ n = x.size
  OBVIOUS
<1>3. Entered(NoWalk, l, <<>>, <<>>, listing, m)
  BY <1>1, <1>2, WalkDirCases DEF WalkStart
<1>4. l \notin NoWalk.visited /\ {} \cup {l} = {l} /\ Append(<<>>, l) = <<l>>
  BY <1>1
<1>5. m.visited = {l} /\ IsMachine(m) /\ m.out = <<>> /\ m.skipped = {}
  BY <1>1, <1>3, <1>4 DEF Entered
<1>6. \/ m.tag = "limit" /\ m.todo = <<>>
      \/ listing.tag # "ok" /\ m.tag = listing.tag /\ m.todo = <<>>
      \/ /\ listing.tag = "ok" /\ m.tag = "ok"
         /\ m.todo = EntriesOf(listing.recs, <<>>, <<l>>) \o <<>>
  BY <1>1, <1>3, <1>4 DEF Entered
<1> QED BY <1>2, <1>5, <1>6

LEMMA PlacesStart ==
  ASSUME IsImage(image), NEW x, IsExtent(x)
  PROVE  WalkPlaces(x, WalkStart(x)) /\ WalkWhole(x, WalkStart(x))
<1>1. PICK m : m = WalkStart(x)
  OBVIOUS
<1>2. PICK listing : listing = read_dir(x.lba, x.size)
  OBVIOUS
<1>3. /\ listing.tag \in {"ok"} \cup Failures /\ IsList(listing.recs)
      /\ \A r \in Range(listing.recs) : IsListed(r)
      /\ listing.tag # "ok" => listing.recs = <<>>
  BY <1>2, ReadDirFacts DEF IsExtent
<1>4. /\ IsMachine(m) /\ m.out = <<>> /\ m.skipped = {} /\ m.visited = {x.lba}
      /\ \/ m.tag = "limit" /\ m.todo = <<>>
         \/ listing.tag # "ok" /\ m.tag = listing.tag /\ m.todo = <<>>
         \/ /\ listing.tag = "ok" /\ m.tag = "ok"
            /\ m.todo = EntriesOf(listing.recs, <<>>, <<x.lba>>) \o <<>>
  BY <1>1, <1>2, StartCases
<1>5. IsList(m.out) /\ Range(m.out) = {}
  BY <1>4, EmptyList
<1>6. CASE m.tag # "ok" /\ m.todo = <<>> /\ m.tag \in {"limit", listing.tag}
  <2>1. IsList(m.todo) /\ Range(m.todo) = {}
    BY <1>6, EmptyList
  <2>2. m.tag \in {"ok"} \cup Failures /\ (m.tag = "eof" => listing.tag = "eof")
    BY <1>3, <1>6 DEF Failures
  <2>3. WalkPlaces(x, m)
    BY <1>2, <1>4, <1>5, <2>1, <2>2 DEF WalkPlaces
  <2>4. WalkWhole(x, m)
    BY <1>6 DEF WalkWhole
  <2> QED BY <1>1, <2>3, <2>4
<1>7. CASE listing.tag = "ok" /\ m.tag = "ok" /\ m.todo = EntriesOf(listing.recs, <<>>, <<x.lba>>) \o <<>>
  <2>1. PICK up : up = <<x.lba>>
    OBVIOUS
  <2>2. IsList(up) /\ Len(up) \in Nat \ {0} /\ <<>> \in Seq(STRING)
    BY <2>1, OneList
  <2>3. PICK es, recs, path : /\ recs = listing.recs /\ path = <<>>
                              /\ es = EntriesOf(recs, path, up)
    OBVIOUS
  <2>3a. AreListed(recs) /\ path \in Seq(STRING)
    BY <1>3, <2>2, <2>3 DEF AreListed
  <2>4. EntriesFor(es, recs, path, up)
    BY <2>2, <2>3, <2>3a, EntriesFacts
  <2>5. IsList(m.todo) /\ Range(m.todo) = Range(es)
    BY <1>7, <2>1, <2>3, <2>4, EmptyList, ConcatList DEF EntriesFor
  <2>6. \A e \in Range(m.todo) : IsEntry(e) /\ LiesIn(x, m.out, e)
    BY <2>1, <2>3, <2>4, <2>5 DEF LiesIn, EntriesFor
  <2>7. WalkPlaces(x, m)
    BY <1>4, <1>5, <1>7, <2>5, <2>6 DEF WalkPlaces
  <2>8. IsMet(x, m.out, x.lba, x.size) /\ x.size \in Nat
    BY DEF IsMet, IsExtent
  <2>9. \A r \in Range(listing.recs) : \E e \in Range(m.out) \cup Range(m.todo) : e.rec = r
    BY <2>3, <2>4, <2>5 DEF EntriesFor
  <2>10. WalkWhole(x, m)
    BY <1>2, <1>4, <1>5, <2>8, <2>9 DEF WalkWhole, Holds
  <2> QED BY <1>1, <2>7, <2>10
<1> QED BY <1>3, <1>4, <1>6, <1>7

(* An ended walk stays as it is; another lists the next entry.              *)
LEMMA AdvanceCases ==
  ASSUME NEW m, IsMachine(m), IsList(m.todo)
  PROVE  \/ Ended(m) /\ Advance(m) = m
         \/ /\ ~Ended(m) /\ m.tag = "ok" /\ m.todo # <<>>
            /\ \E e, t, listing : /\ e = Head(m.todo) /\ t = Tail(m.todo)
                                  /\ IsList(t) /\ Range(m.todo) = {e} \cup Range(t)
                                  /\ Len(m.todo) = Len(t) + 1
                                  /\ listing = read_dir(e.rec.lba, e.rec.size)
                                  /\ Stepped(m, e, t, listing, Advance(m))
<1>1. CASE Ended(m)
  BY <1>1 DEF Advance
<1>2. CASE ~Ended(m)
  <2>1. m.tag = "ok" /\ m.todo # <<>> /\ Advance(m) = Visit(m)
    BY <1>2 DEF Ended, Advance
  <2>2. PICK e, t, listing, v : /\ e = Head(m.todo) /\ t = Tail(m.todo) /\ v = Visit(m)
                                /\ listing = read_dir(e.rec.lba, e.rec.size)
    OBVIOUS
  <2>3. Stepped(m, e, t, listing, v)
    BY <2>1, <2>2, VisitCases
  <2>4. PICK todo : todo = m.todo
    OBVIOUS
  <2>5. IsList(Tail(todo)) /\ Range(todo) = {Head(todo)} \cup Range(Tail(todo))
        /\ Len(todo) = Len(Tail(todo)) + 1
    BY <2>1, <2>4, TailList
  <2> QED BY <1>2, <2>1, <2>2, <2>3, <2>4, <2>5
<1> QED BY <1>1, <1>2

LEMMA PlacesStep ==
  ASSUME IsImage(image), NEW x, NEW m, WalkPlaces(x, m), NEW v, v = Advance(m)
  PROVE  /\ WalkPlaces(x, v) /\ Range(m.out) \subseteq Range(v.out)
         /\ WalkWhole(x, m) => WalkWhole(x, v)
<1>0. /\ IsMachine(m) /\ IsList(m.out) /\ IsList(m.todo)
      /\ \A e \in Range(m.out) \cup Range(m.todo) : IsEntry(e) /\ LiesIn(x, m.out, e)
      /\ m.skipped \subseteq Range(m.out)
      /\ \A e \in m.skipped : e.rec.dir /\ read_dir(e.rec.lba, e.rec.size).tag = "eof"
  BY DEF WalkPlaces
<1>1. CASE Ended(m) /\ v = m
  BY <1>1
<1>2. CASE ~(Ended(m) /\ v = m)
  <2>0. m.tag = "ok" /\ m.todo # <<>>
    BY <1>0, <1>2, AdvanceCases
  <2>1. PICK e, t, listing : /\ IsList(t) /\ Range(m.todo) = {e} \cup Range(t)
                             /\ listing = read_dir(e.rec.lba, e.rec.size)
                             /\ Stepped(m, e, t, listing, v)
    BY <1>0, <1>2, AdvanceCases
  <2>2. IsEntry(e) /\ LiesIn(x, m.out, e)
    BY <1>0, <2>1
  <2>3. /\ listing.tag \in {"ok"} \cup Failures /\ AreListed(listing.recs)
        /\ listing.tag # "ok" => listing.recs = <<>>
    <3>1. PICK l, n \in Nat : l = e.rec.lba /\ n = e.rec.size
      BY <2>2 DEF IsEntry, IsListed
    <3>2. listing = read_dir(l, n)
      BY <2>1, <3>1
    <3>3. /\ listing.tag \in {"ok"} \cup Failures /\ IsList(listing.recs)
          /\ \A r \in Range(listing.recs) : IsListed(r)
          /\ listing.tag # "ok" => listing.recs = <<>>
      BY SMTT(40), <3>2, ReadDirFacts
    <3> QED BY <3>3 DEF AreListed
  <2>4. IsMachine(v) /\ v.out = Append(m.out, e)
    BY <2>1 DEF Stepped
  <2>5. IsList(v.out) /\ Range(v.out) = Range(m.out) \cup {e}
    <3>1. PICK out : out = m.out
      OBVIOUS
    <3>2. IsList(Append(out, e)) /\ Range(Append(out, e)) = Range(out) \cup {e}
      BY <1>0, <3>1, AppendList
    <3> QED BY <2>4, <3>1, <3>2
  <2>6. \A d \in Range(v.out) \cup Range(t) : IsEntry(d) /\ LiesIn(x, v.out, d)
    <3>1. \A d \in Range(v.out) \cup Range(t) : IsEntry(d) /\ LiesIn(x, m.out, d)
      BY <1>0, <2>1, <2>5
    <3>2. Range(m.out) \subseteq Range(v.out)
      BY <2>5
    <3> QED BY <3>1, <3>2, LiesInMore
  <2>7. PICK es, recs, path, up, lba :
          /\ recs = listing.recs /\ path = e.path /\ lba = e.rec.lba /\ up = Append(e.up, lba)
          /\ es = EntriesOf(recs, path, up)
    OBVIOUS
  <2>8. EntriesFor(es, recs, path, up)
    <3>1. IsList(up) /\ Len(up) \in Nat \ {0}
      <4>1. PICK u : u = e.up
        OBVIOUS
      <4>2. IsList(u) /\ Len(u) \in Nat
        BY <2>2, <4>1 DEF IsEntry
      <4>3. IsList(Append(u, lba)) /\ Len(Append(u, lba)) = Len(u) + 1
        BY <4>2, AppendList
      <4> QED BY <2>7, <4>1, <4>2, <4>3
    <3>2. path \in Seq(STRING) /\ AreListed(recs)
      BY <2>2, <2>3, <2>7 DEF IsEntry
    <3> QED BY <2>7, <3>1, <3>2, EntriesFacts
  <2>9. IsList(es) /\ IsList(es \o t) /\ Range(es \o t) = Range(es) \cup Range(t)
    BY <2>1, <2>8, ConcatList DEF EntriesFor
  <2>10. e.rec.dir => \A d \in Range(es) : IsEntry(d) /\ LiesIn(x, v.out, d)
    <3>1. \A d \in Range(es) : /\ IsEntry(d) /\ d.up = Append(e.up, e.rec.lba)
                               /\ d.path = Join(e.path, NameOf(d.rec))
      BY <2>7, <2>8 DEF EntriesFor
    <3>2. e \in Range(v.out)
      BY <2>5
    <3> QED BY <3>1, <3>2 DEF LiesIn
  <2>11. CASE /\ ~e.rec.dir \/ e.rec.lba \in m.visited
              /\ v.tag = "ok" /\ v.visited = m.visited /\ v.skipped = m.skipped /\ v.todo = t
    <3>1. WalkPlaces(x, v)
      BY <1>0, <2>1, <2>4, <2>5, <2>6, <2>11 DEF WalkPlaces
    <3>2. ASSUME WalkWhole(x, m) PROVE WalkWhole(x, v)
      <4>1. Range(v.out) \cup Range(v.todo) = Range(m.out) \cup Range(m.todo)
        BY <2>1, <2>5, <2>11
      <4>2. \A l \in m.visited : Holds(x, v.out, Range(v.out) \cup Range(v.todo), l)
        BY <2>0, <2>5, <3>2, <4>1, HoldsMore DEF WalkWhole
      <4>3. /\ x.lba \in v.visited
            /\ \A d \in Range(v.out) : d.rec.dir => d.rec.lba \in v.visited
        BY <2>0, <2>5, <2>11, <3>2 DEF WalkWhole
      <4> QED BY <2>11, <4>2, <4>3 DEF WalkWhole
    <3> QED BY <2>5, <3>1, <3>2
  <2>12. CASE /\ e.rec.dir /\ e.rec.lba \notin m.visited
              /\ v.visited = m.visited \cup {e.rec.lba}
              /\ v.tag # "ok" /\ v.tag \in {"limit", listing.tag} \ {"eof"}
              /\ v.skipped = m.skipped /\ v.todo = t
    <3>1. v.tag \in {"ok"} \cup Failures
      BY <2>3, <2>12 DEF Failures
    <3>2. WalkPlaces(x, v)
      BY <1>0, <2>1, <2>4, <2>5, <2>6, <2>12, <3>1 DEF WalkPlaces
    <3> QED BY <2>5, <2>12, <3>2 DEF WalkWhole
  <2>13. CASE /\ e.rec.dir /\ e.rec.lba \notin m.visited
              /\ v.visited = m.visited \cup {e.rec.lba}
              /\ v.tag = "ok"
              /\ \/ listing.tag = "eof" /\ v.skipped = m.skipped \cup {e} /\ v.todo = t
                 \/ listing.tag = "ok" /\ v.skipped = m.skipped /\ v.todo = es \o t
    <3>1. IsList(v.todo) /\ Range(t) \subseteq Range(v.todo)
          /\ \A d \in Range(v.todo) : IsEntry(d) /\ LiesIn(x, v.out, d)
      BY <2>1, <2>6, <2>9, <2>10, <2>13
    <3>2. /\ v.skipped \subseteq Range(v.out)
          /\ \A d \in v.skipped : d.rec.dir /\ read_dir(d.rec.lba, d.rec.size).tag = "eof"
      BY <1>0, <2>1, <2>5, <2>13
    <3>3. WalkPlaces(x, v)
      BY <2>4, <2>5, <2>6, <2>13, <3>1, <3>2 DEF WalkPlaces
    <3>4. ASSUME WalkWhole(x, m) PROVE WalkWhole(x, v)
      <4>1. Range(m.out) \cup Range(m.todo) \subseteq Range(v.out) \cup Range(v.todo)
        BY <2>1, <2>5, <3>1
      <4>3. IsMet(x, v.out, e.rec.lba, e.rec.size) /\ e.rec.size \in Nat
        BY <2>2, <2>5, <2>13 DEF IsMet, IsEntry, IsListed
      <4>4. \A r \in Range(listing.recs) : \E d \in Range(v.out) \cup Range(v.todo) : d.rec = r
        <5>1. CASE listing.tag = "eof"
          BY <2>3, <5>1, EmptyList
        <5>2. CASE listing.tag = "ok" /\ v.todo = es \o t
          BY <2>7, <2>8, <2>9, <5>2 DEF EntriesFor
        <5> QED BY <2>13, <5>1, <5>2
      <4>5. /\ x.lba \in v.visited
            /\ \A d \in Range(v.out) : d.rec.dir => d.rec.lba \in v.visited
        BY <2>0, <2>5, <2>13, <3>4 DEF WalkWhole
      <4>6. \A l \in m.visited : Holds(x, v.out, Range(v.out) \cup Range(v.todo), l)
        BY <2>0, <2>5, <3>4, <4>1, HoldsMore DEF WalkWhole
      <4>7. Holds(x, v.out, Range(v.out) \cup Range(v.todo), e.rec.lba)
        BY <2>1, <4>3, <4>4 DEF Holds
      <4>8. \A l \in v.visited : Holds(x, v.out, Range(v.out) \cup Range(v.todo), l)
        BY <2>13, <4>6, <4>7
      <4> QED BY <4>5, <4>8 DEF WalkWhole
    <3> QED BY <2>5, <3>3, <3>4
  <2> QED
    <3>1. \/ /\ ~e.rec.dir \/ e.rec.lba \in m.visited
             /\ v.tag = "ok" /\ v.visited = m.visited /\ v.skipped = m.skipped /\ v.todo = t
          \/ /\ e.rec.dir /\ e.rec.lba \notin m.visited
             /\ v.visited = m.visited \cup {e.rec.lba}
             /\ \/ v.tag = "limit" /\ v.skipped = m.skipped /\ v.todo = t
                \/ /\ listing.tag \notin {"ok", "eof"} /\ v.tag = listing.tag
                   /\ v.skipped = m.skipped /\ v.todo = t
                \/ /\ listing.tag = "eof" /\ v.tag = "ok"
                   /\ v.skipped = m.skipped \cup {e} /\ v.todo = t
                \/ /\ listing.tag = "ok" /\ v.tag = "ok" /\ v.skipped = m.skipped
                   /\ v.todo = es \o t
      BY Zenon, <2>1, <2>7 DEF Stepped
    <3> QED BY SMTT(40), <2>11, <2>12, <2>13, <3>1
<1> QED BY <1>1, <1>2

LEMMA RunPlaces ==
  ASSUME IsImage(image), NEW x, IsExtent(x)
  PROVE  \A n \in Nat : WalkPlaces(x, WalkRun(x)[n]) /\ WalkWhole(x, WalkRun(x)[n])
<1>1. PICK f : f = WalkRun(x)
  OBVIOUS
<1>2. f[0] = WalkStart(x) /\ \A n \in Nat : f[n + 1] = Advance(f[n])
  BY <1>1, WalkRunFacts
<1>3. PICK T : T = {n \in Nat : WalkPlaces(x, f[n]) /\ WalkWhole(x, f[n])}
  OBVIOUS
<1>4. 0 \in T
  BY <1>2, <1>3, PlacesStart
<1>5. ASSUME NEW n \in T PROVE n + 1 \in T
  <2>1. PICK m : m = f[n]
    OBVIOUS
  <2>2. n \in Nat /\ n + 1 \in Nat /\ WalkPlaces(x, m) /\ WalkWhole(x, m) /\ f[n + 1] = Advance(m)
    BY <1>2, <1>3, <2>1
  <2>3. WalkPlaces(x, f[n + 1]) /\ WalkWhole(x, f[n + 1])
    BY <2>2, PlacesStep
  <2> QED BY <1>3, <2>2, <2>3
<1>6. T \in SUBSET Nat
  BY <1>3
<1>7. T = Nat
  BY <1>4, <1>5, <1>6, Induction
<1> QED BY <1>1, <1>3, <1>7

(* What has ended stays; until then, the entries listed grow.               *)
LEMMA EndedStays ==
  ASSUME NEW x, NEW n \in Nat, Ended(WalkRun(x)[n])
  PROVE  \A k \in Nat : WalkRun(x)[n + k] = WalkRun(x)[n]
<1>1. PICK f : f = WalkRun(x)
  OBVIOUS
<1>2. \A k \in Nat : f[k + 1] = Advance(f[k])
  BY <1>1, WalkRunFacts
<1>3. PICK T : T = {k \in Nat : f[n + k] = f[n]}
  OBVIOUS
<1>4. 0 \in T /\ T \in SUBSET Nat
  BY <1>3
<1>5. ASSUME NEW k \in T PROVE k + 1 \in T
  <2>1. k \in Nat /\ n + k \in Nat /\ n + (k + 1) = (n + k) + 1 /\ f[n + k] = f[n]
    BY <1>3
  <2>2. f[n + (k + 1)] = Advance(f[n])
    BY <1>2, <2>1
  <2>3. Advance(f[n]) = f[n]
    BY <1>1 DEF Advance
  <2> QED BY <1>3, <2>1, <2>2, <2>3
<1>6. T = Nat
  BY <1>4, <1>5, Induction
<1> QED BY <1>1, <1>3, <1>6

LEMMA WalkAtEnd ==
  ASSUME IsImage(image), NEW x
  PROVE  WalkFrom(x) = WalkRun(x)[MaxVisits]
<1>1. PICK n \in 0 .. MaxVisits : /\ WalkFrom(x) = WalkRun(x)[n]
                                  /\ Ended(WalkRun(x)[n]) \/ n = MaxVisits
  BY WalkFromFacts
<1>2. CASE n = MaxVisits
  BY <1>1, <1>2
<1>3. CASE Ended(WalkRun(x)[n])
  <2>1. n \in Nat /\ MaxVisits - n \in Nat /\ n + (MaxVisits - n) = MaxVisits
    BY MaxVisitsNat
  <2>2. WalkRun(x)[n + (MaxVisits - n)] = WalkRun(x)[n]
    BY <1>3, <2>1, EndedStays
  <2> QED BY <1>1, <2>1, <2>2
<1> QED BY <1>1, <1>2, <1>3

(* Every entry of a walk has its place, every omission its reason, and what  *)
(* is walked is listed whole.                                               *)
LEMMA WalkFacts ==
  ASSUME IsImage(image), NEW x, IsExtent(x)
  PROVE  WalkPlaces(x, WalkFrom(x)) /\ WalkWhole(x, WalkFrom(x))
BY RunPlaces, WalkAtEnd, MaxVisitsNat

--------------------------------------------------------------------------------
(* A walk ends: the entries are numbered by the sectors they are listed in.  *)

LEMMA EmptyRange ==
  ASSUME NEW s, IsList(s), Range(s) = {}
  PROVE  s = <<>>
<1>1. s \in Seq({})
  BY DEF IsList
<1>2. Len(s) \in Nat /\ DOMAIN s = 1 .. Len(s) /\ s \in [1 .. Len(s) -> {}]
  BY <1>1, LenProperties
<1>3. Len(s) = 0
  <2>1. Len(s) # 0 => s[1] \in {}
    BY <1>2
  <2> QED BY <2>1
<1> QED BY <1>1, <1>3, EmptySeq

LEMMA ListedInside ==
  ASSUME IsImage(image), NEW lba \in Nat, NEW size \in Nat, read_dir(lba, size).recs # <<>>
  PROVE  lba \in 0 .. image.end - 1
<1>1. PICK n : n = SectorsOf(size)
  OBVIOUS
<1>2. n \in Nat
  BY <1>1, SectorsFacts
<1>3. PICK d : d = read_dir(lba, size)
  OBVIOUS
<1>4. /\ IsList(d.recs) /\ RunTag(lba, n) = "ok"
      /\ Range(d.recs) = {Extend(Trim(s)) : s \in Named(lba, size)}
  BY <1>1, <1>3, ReadDirFacts
<1>5. n # 0
  <2>1. SUFFICES ASSUME n = 0 PROVE FALSE
    OBVIOUS
  <2>2. 1 .. n = {}
    BY <2>1
  <2>3. Named(lba, size) = {}
    BY <1>1, <2>2 DEF Named, InDirectory
  <2>4. Range(d.recs) = {}
    BY <1>4, <2>3
  <2> QED BY <1>3, <1>4, <2>4, EmptyRange
<1>6. lba \in lba .. lba + n - 1
  BY <1>2, <1>5
<1> QED BY <1>2, <1>4, <1>6, RunTagFacts

Inside(visited) == visited \cap (0 .. image.end - 1)

MaxListed == MAX_DIR_SIZE + SECTOR

WalkCount(m, n) ==
  /\ Len(m.out) + Len(m.todo) <= Cardinality(Inside(m.visited)) * MaxListed
  /\ Ended(m) \/ Len(m.out) = n

LEMMA InsideFacts ==
  ASSUME IsImage(image), NEW visited
  PROVE  /\ IsFiniteSet(Inside(visited)) /\ Cardinality(Inside(visited)) \in 0 .. image.end
         /\ \A l \in 0 .. image.end - 1 : l \notin visited =>
              Cardinality(Inside(visited \cup {l})) = Cardinality(Inside(visited)) + 1
         /\ \A l : l \notin 0 .. image.end - 1 => Inside(visited \cup {l}) = Inside(visited)
<1>1. image.end \in Nat
  BY DEF IsImage
<1>2. PICK S : S = 0 .. image.end - 1
  OBVIOUS
<1>3. IsFiniteSet(S) /\ Cardinality(S) = image.end
  BY <1>1, <1>2, FS_Interval
<1>4. PICK V : V = Inside(visited)
  OBVIOUS
<1>5. V \subseteq S
  BY <1>2, <1>4 DEF Inside
<1>6. IsFiniteSet(V) /\ Cardinality(V) \in Nat /\ Cardinality(V) <= image.end
  BY <1>3, <1>5, FS_Subset, FS_CardinalityType
<1>7. ASSUME NEW l \in 0 .. image.end - 1, l \notin visited
      PROVE  Cardinality(Inside(visited \cup {l})) = Cardinality(V) + 1
  <2>1. Inside(visited \cup {l}) = V \cup {l} /\ l \notin V
    BY <1>4, <1>7 DEF Inside
  <2> QED BY <1>6, <2>1, FS_AddElement
<1>8. \A l : l \notin 0 .. image.end - 1 => Inside(visited \cup {l}) = V
  BY <1>4 DEF Inside
<1> QED BY <1>1, <1>4, <1>6, <1>7, <1>8

LEMMA CountStart ==
  ASSUME IsImage(image), NEW x, IsExtent(x)
  PROVE  WalkCount(WalkStart(x), 0)
<1>1. PICK m, listing : m = WalkStart(x) /\ listing = read_dir(x.lba, x.size)
  OBVIOUS
<1>2. PICK l, n \in Nat : l = x.lba /\ n = x.size
  BY DEF IsExtent
<1>3. /\ AreListed(listing.recs) /\ Len(listing.recs) <= MaxListed
      /\ listing.recs # <<>> => l \in 0 .. image.end - 1
  BY <1>1, <1>2, ReadDirFacts, ListedInside DEF AreListed, MaxListed
<1>4. /\ m.out = <<>> /\ m.visited = {} \cup {l}
      /\ \/ m.todo = <<>>
         \/ m.todo = EntriesOf(listing.recs, <<>>, <<l>>) \o <<>>
  BY <1>1, <1>2, StartCases
<1>5. PICK c, d \in Nat : c = Cardinality(Inside({})) /\ d = Cardinality(Inside({} \cup {l}))
  BY InsideFacts
<1>6. MaxListed \in Nat
  BY DirSizeAssumption, SectorAssumption DEF MaxListed
<1>7. Len(m.out) = 0
  BY <1>4, EmptyList
<1>8. CASE m.todo = <<>>
  <2>1. Len(m.todo) = 0 /\ d * MaxListed >= 0
    BY <1>5, <1>6, <1>8, EmptyList
  <2> QED BY <1>1, <1>4, <1>5, <1>7, <2>1 DEF WalkCount
<1>9. CASE m.todo = EntriesOf(listing.recs, <<>>, <<l>>) \o <<>>
  <2>1. PICK es, recs, path, up : /\ recs = listing.recs /\ path = <<>> /\ up = <<l>>
                                  /\ es = EntriesOf(recs, path, up)
    OBVIOUS
  <2>2. AreListed(recs) /\ path \in Seq(STRING) /\ IsList(up) /\ Len(up) \in Nat \ {0}
    BY <1>3, <2>1, OneList
  <2>3. IsList(es) /\ Len(es) = Len(recs)
    <3>1. EntriesFor(es, recs, path, up)
      BY <2>1, <2>2, EntriesFacts
    <3> QED BY <3>1 DEF EntriesFor
  <2>4. IsList(recs) /\ Len(recs) \in Nat
    BY <2>2, ListFacts DEF AreListed
  <2>5. m.todo = es \o <<>> /\ Len(m.todo) = Len(recs) + 0
    BY <1>9, <2>1, <2>3, EmptyList, ConcatList
  <2>6. CASE recs = <<>>
    <3>1. Len(m.todo) = 0 /\ d * MaxListed >= 0
      BY <1>5, <1>6, <2>5, <2>6, EmptyList
    <3> QED BY <1>1, <1>4, <1>5, <1>7, <3>1 DEF WalkCount
  <2>7. CASE recs # <<>>
    <3>1. d = c + 1
      BY <1>3, <1>5, <2>1, <2>7, InsideFacts
    <3>2. MaxListed <= d * MaxListed
      BY <1>5, <1>6, <3>1
    <3>3. Len(m.out) + Len(m.todo) <= d * MaxListed
      BY <1>3, <1>5, <1>6, <1>7, <2>1, <2>4, <2>5, <3>2
    <3> QED BY <1>1, <1>4, <1>5, <1>7, <3>3 DEF WalkCount
  <2> QED BY <2>6, <2>7
<1> QED BY <1>4, <1>8, <1>9

LEMMA CountStep ==
  ASSUME IsImage(image), NEW x, NEW m, WalkPlaces(x, m), NEW n \in Nat, WalkCount(m, n),
         NEW v, v = Advance(m)
  PROVE  WalkCount(v, n + 1)
<1>0. /\ IsMachine(m) /\ IsList(m.out) /\ IsList(m.todo)
      /\ \A e \in Range(m.out) \cup Range(m.todo) : IsEntry(e)
  BY DEF WalkPlaces
<1>1. CASE Ended(m) /\ v = m
  BY <1>1 DEF WalkCount
<1>2. CASE ~(Ended(m) /\ v = m)
  <2>1. PICK e, t, listing : /\ IsList(t) /\ Range(m.todo) = {e} \cup Range(t)
                             /\ Len(m.todo) = Len(t) + 1 /\ ~Ended(m)
                             /\ listing = read_dir(e.rec.lba, e.rec.size)
                             /\ Stepped(m, e, t, listing, v)
    BY <1>0, <1>2, AdvanceCases
  <2>2. IsEntry(e)
    BY <1>0, <2>1
  <2>3. PICK lba, size \in Nat : lba = e.rec.lba /\ size = e.rec.size
    BY <2>2 DEF IsEntry, IsListed
  <2>4. /\ AreListed(listing.recs) /\ Len(listing.recs) <= MaxListed
        /\ listing.recs # <<>> => lba \in 0 .. image.end - 1
    BY <2>1, <2>3, ReadDirFacts, ListedInside DEF AreListed, MaxListed
  <2>5. MaxListed \in Nat
    BY DirSizeAssumption, SectorAssumption DEF MaxListed
  <2>6. PICK a, b, c, d \in Nat : /\ a = Len(m.out) /\ b = Len(t)
                                  /\ c = Cardinality(Inside(m.visited))
                                  /\ d = Cardinality(Inside(m.visited \cup {lba}))
    <3>1. PICK out : out = m.out
      OBVIOUS
    <3> QED BY SMTT(40), <1>0, <2>1, <3>1, ListFacts, InsideFacts
  <2>7. a + (b + 1) <= c * MaxListed /\ a = n
    BY <2>1, <2>6 DEF WalkCount
  <2>8. Len(v.out) = n + 1
    <3>1. PICK out : out = m.out
      OBVIOUS
    <3>2. Len(Append(out, e)) = Len(out) + 1
      BY <1>0, <3>1, AppendList
    <3> QED BY <2>1, <2>6, <2>7, <3>1, <3>2 DEF Stepped
  <2>9. PICK p, q \in Nat : p = c * MaxListed /\ q = d * MaxListed
    BY <2>5, <2>6
  <2>10. lba \notin m.visited => d \in {c, c + 1}
    <3>1. CASE lba \in 0 .. image.end - 1
      BY <2>6, <3>1, InsideFacts
    <3>2. CASE lba \notin 0 .. image.end - 1
      BY <2>6, <3>2, InsideFacts
    <3> QED BY <3>1, <3>2
  <2>11. lba \notin m.visited => p <= q
    <3>1. d = c + 1 => q = p + MaxListed
      BY <2>5, <2>6, <2>9
    <3> QED BY <2>5, <2>9, <2>10, <3>1
  <2>12. CASE v.visited = m.visited /\ v.todo = t
    BY <2>6, <2>7, <2>8, <2>9, <2>12 DEF WalkCount
  <2>13. CASE lba \notin m.visited /\ v.visited = m.visited \cup {lba} /\ v.todo = t
    <3>1. Len(v.out) + Len(v.todo) <= q
      BY <2>6, <2>7, <2>8, <2>9, <2>11, <2>13
    <3> QED BY <2>6, <2>8, <2>9, <2>13, <3>1 DEF WalkCount
  <2>14. CASE /\ lba \notin m.visited /\ v.visited = m.visited \cup {lba}
              /\ v.todo = EntriesOf(listing.recs, e.path, Append(e.up, e.rec.lba)) \o t
    <3>1. PICK es, recs, path, u, up :
            /\ recs = listing.recs /\ path = e.path /\ u = e.up /\ up = Append(u, lba)
            /\ es = EntriesOf(recs, path, up)
      OBVIOUS
    <3>2. IsList(up) /\ Len(up) \in Nat \ {0}
      <4>1. IsList(u) /\ Len(u) \in Nat
        BY <2>2, <3>1 DEF IsEntry
      <4>2. IsList(Append(u, lba)) /\ Len(Append(u, lba)) = Len(u) + 1
        BY <4>1, AppendList
      <4> QED BY <3>1, <4>1, <4>2
    <3>3. EntriesFor(es, recs, path, up)
      BY <2>2, <2>4, <3>1, <3>2, EntriesFacts DEF IsEntry
    <3>4. IsList(es) /\ Len(es) = Len(recs)
      BY <3>3 DEF EntriesFor
    <3>5. PICK k \in Nat : k = Len(recs)
      BY <2>4, <3>1, ListFacts DEF AreListed
    <3>6. v.todo = es \o t
      BY <2>3, <2>14, <3>1
    <3>7. Len(v.todo) = k + b
      BY <2>1, <2>6, <3>4, <3>5, <3>6, ConcatList
    <3>8. CASE recs = <<>>
      <4>1. k = 0
        BY <3>5, <3>8, EmptyList
      <4>2. Len(v.out) + Len(v.todo) <= q
        BY SMTT(40), <2>6, <2>7, <2>8, <2>9, <2>11, <2>14, <3>7, <4>1
      <4> QED BY <2>6, <2>8, <2>9, <2>14, <4>2 DEF WalkCount
    <3>9. CASE recs # <<>>
      <4>1. d = c + 1
        BY <2>4, <2>6, <2>14, <3>1, <3>9, InsideFacts
      <4>2. q = p + MaxListed
        BY <2>5, <2>6, <2>9, <4>1
      <4>3. k <= MaxListed
        BY <2>4, <3>1, <3>5
      <4>4. (n + 1) + (k + b) <= q
        BY SMTT(40), <2>5, <2>6, <2>7, <2>9, <3>5, <4>2, <4>3
      <4>5. Len(v.out) + Len(v.todo) <= q
        BY <2>8, <3>7, <4>4
      <4> QED BY <2>6, <2>8, <2>9, <2>14, <4>5 DEF WalkCount
    <3> QED BY <3>8, <3>9
  <2> QED BY <2>1, <2>3, <2>12, <2>13, <2>14 DEF Stepped
<1> QED BY <1>1, <1>2, <1>0, AdvanceCases

(* The walk of a tree ends, whatever points where, within MaxVisits entries. *)
THEOREM WalkEnds ==
  ASSUME IsImage(image), NEW x, IsExtent(x)
  PROVE  Ended(WalkFrom(x)) /\ Len(WalkFrom(x).out) <= MaxVisits
<1>1. PICK f : f = WalkRun(x)
  OBVIOUS
<1>2. f[0] = WalkStart(x) /\ \A n \in Nat : f[n + 1] = Advance(f[n])
  BY <1>1, WalkRunFacts
<1>3. PICK T : T = {n \in Nat : WalkCount(f[n], n)}
  OBVIOUS
<1>4. 0 \in T /\ T \in SUBSET Nat
  BY <1>2, <1>3, CountStart
<1>5. ASSUME NEW n \in T PROVE n + 1 \in T
  <2>1. PICK m : m = f[n]
    OBVIOUS
  <2>2. n \in Nat /\ n + 1 \in Nat /\ WalkCount(m, n) /\ f[n + 1] = Advance(m) /\ WalkPlaces(x, m)
    BY <1>1, <1>2, <1>3, <2>1, RunPlaces
  <2>3. WalkCount(f[n + 1], n + 1)
    BY <2>2, CountStep
  <2> QED BY <1>3, <2>2, <2>3
<1>6. T = Nat
  BY <1>4, <1>5, Induction
<1>7. PICK m : m = f[MaxVisits]
  OBVIOUS
<1>8. m = WalkFrom(x) /\ MaxVisits \in Nat /\ WalkCount(m, MaxVisits) /\ WalkPlaces(x, m)
  BY <1>1, <1>3, <1>6, <1>7, MaxVisitsNat, WalkAtEnd, RunPlaces
<1>9. PICK a, b, c, k \in Nat : /\ a = Len(m.out) /\ b = Len(m.todo) /\ k = MaxListed
                                /\ c = Cardinality(Inside(m.visited))
  <2>1. PICK out, todo : out = m.out /\ todo = m.todo
    OBVIOUS
  <2>2. IsList(out) /\ IsList(todo)
    BY <1>8, <2>1 DEF WalkPlaces
  <2>3. MaxListed \in Nat
    BY DirSizeAssumption, SectorAssumption DEF MaxListed
  <2> QED BY <2>1, <2>2, <2>3, ListFacts, InsideFacts
<1>9a. a \in Nat /\ b \in Nat
  OBVIOUS
<1>10. image.end \in Nat /\ c <= image.end
  BY <1>9, InsideFacts DEF IsImage
<1>11. a + b <= c * k /\ (Ended(m) \/ a = MaxVisits)
  BY <1>8, <1>9 DEF WalkCount
<1>12. MaxVisits = image.end * k
  BY <1>9 DEF MaxVisits, MaxListed
<1>13. PICK e \in Nat : e = image.end
  BY <1>10
<1>14. c * k <= e * k
  <2>0. c <= e /\ c \in Nat
    BY <1>9, <1>10, <1>13
  <2>1. PICK j \in Nat : e = c + j
    <3>1. e - c \in Nat /\ e = c + (e - c)
      BY <2>0
    <3> QED BY <3>1
  <2>2. e * k = c * k + j * k /\ c * k \in Nat /\ j * k \in Nat
    BY <1>9, <2>1
  <2>3. PICK p, q, r \in Nat : p = c * k /\ q = e * k /\ r = j * k
    BY <1>9, <2>1, <2>2
  <2> QED BY <2>2, <2>3
<1>15. a + b <= MaxVisits
  <2>1. PICK p, q \in Nat : p = c * k /\ q = e * k
    BY <1>9
  <2>2. a + b <= p /\ p <= q /\ MaxVisits = q
    BY <1>11, <1>12, <1>13, <1>14, <2>1
  <2>3. a + b <= q
    BY <1>9a, <2>2
  <2> QED BY <2>2, <2>3
<1>15a. PICK v \in Nat : v = MaxVisits
  BY <1>8
<1>16. a <= MaxVisits
  <2>1. a + b <= v
    BY <1>15, <1>15a
  <2>2. a <= v
    BY <1>9a, <1>15a, <2>1
  <2> QED BY <1>15a, <2>2
<1>17. CASE ~Ended(m)
  <2>1. b = 0
    <3>1. a = v /\ a + b <= v
      BY <1>11, <1>15, <1>15a, <1>17
    <3> QED BY <1>9, <3>1
  <2>2. PICK todo : todo = m.todo
    OBVIOUS
  <2>3. IsList(todo) /\ Len(todo) = 0
    BY <1>8, <1>9, <2>1, <2>2 DEF WalkPlaces
  <2>4. todo = <<>>
    BY <2>3, EmptySeq DEF IsList
  <2> QED BY <1>17, <2>2, <2>4 DEF Ended
<1> QED BY <1>8, <1>9, <1>16, <1>17

--------------------------------------------------------------------------------
(* The walk on a device that loses sectors.                                 *)

(* A walk's step, told from the listing that it reads.                       *)
AdvanceWith(m, e, listing) ==
  LET listed == [m EXCEPT !.todo = Tail(@), !.out = Append(@, e)]
      below  == EnterWith(listed, e.rec.lba, e.path, e.up, listing)
  IN  IF Ended(m) THEN m
      ELSE IF ~e.rec.dir THEN listed
      ELSE Passed(below, e)

RootPart ==
  \A x, l, n, listing : l = x.lba /\ n = x.size /\ listing = read_dir(l, n)
    => WalkStart(x) = EnterWith(NoWalk, l, <<>>, <<>>, listing)

AdvancePart ==
  \A m, e, l, n, listing :
    e = Head(m.todo) /\ l = e.rec.lba /\ n = e.rec.size /\ listing = read_dir(l, n)
      => Advance(m) = AdvanceWith(m, e, listing)

StepPart ==
  \A x, f : f = WalkRun(x) =>
    /\ f[0] = WalkStart(x)
    /\ \A n \in Nat : \A m : m = f[n] => f[n + 1] = Advance(m)

EndPart ==
  IsImage(image) => \A x, f, n : f = WalkRun(x) /\ n = MaxVisits => WalkFrom(x) = f[n]

LEMMA RootPartHolds == RootPart
<1> SUFFICES ASSUME NEW x, NEW l, NEW n, NEW listing,
                    l = x.lba /\ n = x.size /\ listing = read_dir(l, n)
             PROVE  WalkStart(x) = EnterWith(NoWalk, l, <<>>, <<>>, listing)
  BY DEF RootPart
<1> QED BY DEF WalkStart, walk_dir

LEMMA AdvancePartHolds == AdvancePart
<1> SUFFICES ASSUME NEW m, NEW e, NEW l, NEW n, NEW listing,
                    e = Head(m.todo) /\ l = e.rec.lba /\ n = e.rec.size /\ listing = read_dir(l, n)
             PROVE  Advance(m) = AdvanceWith(m, e, listing)
  BY DEF AdvancePart
<1>1. PICK listed : listed = [m EXCEPT !.todo = Tail(@), !.out = Append(@, e)]
  OBVIOUS
<1>2. PICK below : below = walk_dir(listed, e.rec.lba, e.rec.size, e.path, e.up)
  OBVIOUS
<1>3. below = EnterWith(listed, e.rec.lba, e.path, e.up, listing)
  BY <1>2 DEF walk_dir
<1>4. Visit(m) = IF ~e.rec.dir THEN listed
                 ELSE IF below.tag = "eof" THEN [below EXCEPT !.tag = "ok", !.skipped = @ \cup {e}]
                 ELSE below
  BY <1>1, <1>2 DEF Visit, Passed
<1>5. AdvanceWith(m, e, listing) =
        IF Ended(m) THEN m
        ELSE IF ~e.rec.dir THEN listed
        ELSE IF below.tag = "eof" THEN [below EXCEPT !.tag = "ok", !.skipped = @ \cup {e}]
        ELSE below
  BY <1>1, <1>3 DEF AdvanceWith, Passed
<1> QED BY <1>4, <1>5 DEF Advance

LEMMA StepPartHolds == StepPart
BY WalkRunFacts DEF StepPart

LEMMA EndPartHolds == EndPart
BY WalkAtEnd DEF EndPart

(* A sector lost stops the walk where it would be read, or nowhere.         *)
LEMMA EnterIo ==
  ASSUME NEW m, IsMachine(m), NEW lba, NEW path, NEW up, NEW listing,
         NEW a, a = EnterWith(m, lba, path, up, listing),
         NEW b, b = EnterWith(m, lba, path, up, Failed("io"))
  PROVE  /\ a = b \/ b.tag = "io"
         /\ IsMachine(a) /\ IsMachine(b) /\ a.out = m.out /\ b.out = m.out
<1>1. PICK entered : entered = [m EXCEPT !.visited = @ \cup {lba}]
  OBVIOUS
<1>2. entered = [tag |-> m.tag, out |-> m.out, visited |-> m.visited \cup {lba},
                 skipped |-> m.skipped, todo |-> m.todo]
  BY <1>1 DEF IsMachine
<1>3. PICK es : es = EntriesOf(listing.recs, path, Append(up, lba))
  OBVIOUS
<1>4. a = IF lba \in m.visited THEN m
          ELSE IF Len(up) > MAX_WALK_DEPTH THEN [entered EXCEPT !.tag = "limit"]
          ELSE IF listing.tag # "ok" THEN [entered EXCEPT !.tag = listing.tag]
          ELSE [entered EXCEPT !.todo = es \o @]
  BY <1>1, <1>3 DEF EnterWith
<1>5. PICK l : l = Failed("io")
  OBVIOUS
<1>6. l.tag = "io"
  BY <1>5 DEF Failed
<1>7. b = IF lba \in m.visited THEN m
          ELSE IF Len(up) > MAX_WALK_DEPTH THEN [entered EXCEPT !.tag = "limit"]
          ELSE [entered EXCEPT !.tag = "io"]
  BY <1>1, <1>5, <1>6 DEF EnterWith
<1>8. CASE lba \in m.visited
  BY <1>4, <1>7, <1>8
<1>9. CASE lba \notin m.visited /\ Len(up) > MAX_WALK_DEPTH
  <2>1. a = [tag |-> "limit", out |-> m.out, visited |-> m.visited \cup {lba},
             skipped |-> m.skipped, todo |-> m.todo] /\ b = a
    BY <1>2, <1>4, <1>7, <1>9
  <2> QED BY <2>1 DEF IsMachine
<1>10. CASE lba \notin m.visited /\ ~(Len(up) > MAX_WALK_DEPTH)
  <2>1. b = [tag |-> "io", out |-> m.out, visited |-> m.visited \cup {lba},
             skipped |-> m.skipped, todo |-> m.todo]
    BY <1>2, <1>7, <1>10
  <2>2. IsMachine(b) /\ b.out = m.out /\ b.tag = "io"
    BY <2>1 DEF IsMachine
  <2>3. IsMachine(a) /\ a.out = m.out
    <3>1. CASE listing.tag # "ok"
      <4>1. a = [tag |-> listing.tag, out |-> m.out, visited |-> m.visited \cup {lba},
                 skipped |-> m.skipped, todo |-> m.todo]
        BY <1>2, <1>4, <1>10, <3>1
      <4> QED BY <4>1 DEF IsMachine
    <3>2. CASE listing.tag = "ok"
      <4>1. a = [tag |-> m.tag, out |-> m.out, visited |-> m.visited \cup {lba},
                 skipped |-> m.skipped, todo |-> es \o m.todo]
        BY <1>2, <1>4, <1>10, <3>2
      <4> QED BY <4>1 DEF IsMachine
    <3> QED BY <3>1, <3>2
  <2> QED BY <2>2, <2>3
<1> QED BY <1>8, <1>9, <1>10

LEMMA AdvanceIo ==
  ASSUME NEW m, IsMachine(m), NEW e, NEW listing,
         NEW a, a = AdvanceWith(m, e, listing), NEW b, b = AdvanceWith(m, e, Failed("io"))
  PROVE  a = b \/ (b.tag = "io" /\ b.out = a.out)
<1>1. PICK listed : listed = [m EXCEPT !.todo = Tail(@), !.out = Append(@, e)]
  OBVIOUS
<1>2. listed = [tag |-> m.tag, out |-> Append(m.out, e), visited |-> m.visited,
                skipped |-> m.skipped, todo |-> Tail(m.todo)]
  BY <1>1 DEF IsMachine
<1>3. IsMachine(listed)
  BY <1>2 DEF IsMachine
<1>4. PICK lba, path, up : lba = e.rec.lba /\ path = e.path /\ up = e.up
  OBVIOUS
<1>5. PICK c, d : /\ c = EnterWith(listed, lba, path, up, listing)
                  /\ d = EnterWith(listed, lba, path, up, Failed("io"))
  OBVIOUS
<1>6. /\ c = d \/ d.tag = "io"
      /\ IsMachine(c) /\ IsMachine(d) /\ c.out = listed.out /\ d.out = listed.out
  BY <1>3, <1>5, EnterIo
<1>7. a = IF Ended(m) THEN m
          ELSE IF ~e.rec.dir THEN listed
          ELSE Passed(c, e)
  BY <1>1, <1>4, <1>5 DEF AdvanceWith
<1>8. b = IF Ended(m) THEN m
          ELSE IF ~e.rec.dir THEN listed
          ELSE Passed(d, e)
  BY <1>1, <1>4, <1>5 DEF AdvanceWith
<1>9. CASE c = d \/ Ended(m) \/ ~e.rec.dir
  <2>1. CASE c = d
    BY <1>7, <1>8, <2>1
  <2>2. CASE c # d /\ (Ended(m) \/ ~e.rec.dir)
    BY <1>7, <1>8, <2>2
  <2> QED BY <1>9, <2>1, <2>2
<1>10. CASE d.tag = "io" /\ ~Ended(m) /\ e.rec.dir
  <2>1. b = d
    BY <1>8, <1>10 DEF Passed
  <2>2. a.out = c.out
    <3>1. CASE c.tag = "eof"
      <4>1. a = [tag |-> "ok", out |-> c.out, visited |-> c.visited,
                 skipped |-> c.skipped \cup {e}, todo |-> c.todo]
        BY <1>6, <1>7, <1>10, <3>1 DEF IsMachine, Passed
      <4> QED BY <4>1
    <3>2. CASE c.tag # "eof"
      BY <1>7, <1>10, <3>2 DEF Passed
    <3> QED BY <3>1, <3>2
  <2> QED BY <1>6, <1>10, <2>1, <2>2
<1> QED BY <1>6, <1>9, <1>10

Trails(g, f) == g = f \/ (g.tag = "io" /\ Range(g.out) \subseteq Range(f.out))

(* A walk that loses sectors answers the same, or fails after part of the    *)
(* entries.                                                                 *)
LEMMA WalkStable ==
  ASSUME Worse, IsImage(image), NEW x, IsExtent(x)
  PROVE  Trails(WalkFrom(x)', WalkFrom(x))
<1>1. PICK f : f = WalkRun(x)
  OBVIOUS
<1>2. PICK g : g = WalkRun(x)'
  OBVIOUS
<1>3. /\ RootPart /\ RootPart' /\ AdvancePart /\ AdvancePart' /\ StepPart /\ StepPart'
      /\ EndPart /\ EndPart'
  BY RootPartHolds, AdvancePartHolds, StepPartHolds, EndPartHolds, PTL
<1>4. /\ f[0] = WalkStart(x)
      /\ \A n \in Nat : \A m : m = f[n] => f[n + 1] = Advance(m)
  BY <1>1, <1>3 DEF StepPart
<1>5. /\ g[0] = WalkStart(x)'
      /\ \A n \in Nat : \A m : m = g[n] => g[n + 1] = Advance(m)'
  BY <1>2, <1>3 DEF StepPart
<1>6. \A n \in Nat : WalkPlaces(x, f[n])
  BY <1>1, RunPlaces
<1>7. PICK T : T = {n \in Nat : Trails(g[n], f[n])}
  OBVIOUS
<1>8. 0 \in T
  <2>1. PICK l, n \in Nat : l = x.lba /\ n = x.size
    BY DEF IsExtent
  <2>2. PICK listing : listing = read_dir(l, n)
    OBVIOUS
  <2>3. PICK other : other = read_dir(l, n)'
    OBVIOUS
  <2>4. other = listing \/ other = Failed("io")
    BY <2>2, <2>3, ReadDirStable
  <2>5. f[0] = EnterWith(NoWalk, l, <<>>, <<>>, listing)
    BY <1>3, <1>4, <2>1, <2>2 DEF RootPart
  <2>6. g[0] = EnterWith(NoWalk, l, <<>>, <<>>, other)
    BY <1>3, <1>5, <2>1, <2>3 DEF RootPart
  <2>7. IsMachine(NoWalk)
    BY DEF NoWalk, IsMachine
  <2>8. CASE other = Failed("io")
    <3>1. PICK a, b, w : a = f[0] /\ b = g[0] /\ w = NoWalk
      OBVIOUS
    <3>2. a = b \/ (b.tag = "io" /\ a.out = w.out /\ b.out = w.out)
      BY <2>5, <2>6, <2>7, <2>8, <3>1, EnterIo
    <3> QED BY <1>7, <3>1, <3>2 DEF Trails
  <2> QED BY <1>7, <2>4, <2>5, <2>6, <2>8 DEF Trails
<1>9. ASSUME NEW n \in T PROVE n + 1 \in T
  <2>1. PICK m, w, a, b : m = f[n] /\ w = g[n] /\ a = f[n + 1] /\ b = g[n + 1]
    OBVIOUS
  <2>2. n \in Nat /\ n + 1 \in Nat /\ Trails(w, m) /\ WalkPlaces(x, m)
    BY <1>6, <1>7, <2>1
  <2>3. a = Advance(m)
    BY <1>4, <2>1, <2>2
  <2>4. b = Advance(w)'
    BY <1>5, <2>1, <2>2
  <2>5. Range(m.out) \subseteq Range(a.out)
    BY <2>2, <2>3, PlacesStep
  <2>6. IsMachine(m) /\ IsList(m.todo) /\ \A e \in Range(m.todo) : IsEntry(e)
    BY <2>2 DEF WalkPlaces
  <2>7. CASE Ended(w)
    <3>1. b = w
      <4>1. PICK e, l, k : e = Head(w.todo) /\ l = e.rec.lba /\ k = e.rec.size
        OBVIOUS
      <4>2. PICK listing : listing = read_dir(l, k)'
        OBVIOUS
      <4>3. b = AdvanceWith(w, e, listing)
        BY <1>3, <2>4, <4>1, <4>2 DEF AdvancePart
      <4> QED BY <2>7, <4>3 DEF AdvanceWith
    <3>2. w = m => a = m
      BY <2>3, <2>7 DEF Advance
    <3>3. Trails(b, a)
      BY <2>2, <2>5, <3>1, <3>2 DEF Trails
    <3> QED BY <1>7, <2>1, <2>2, <3>3
  <2>8. CASE ~Ended(w)
    <3>1. w = m /\ m.todo # <<>>
      BY <2>2, <2>8 DEF Trails, Ended
    <3>2. PICK e : e = Head(m.todo)
      OBVIOUS
    <3>3. IsEntry(e)
      <4>1. PICK todo : todo = m.todo
        OBVIOUS
      <4>2. Range(todo) = {Head(todo)} \cup Range(Tail(todo))
        BY <2>6, <3>1, <4>1, TailList
      <4> QED BY <2>6, <3>2, <4>1, <4>2
    <3>4. PICK l, k \in Nat : l = e.rec.lba /\ k = e.rec.size
      BY <3>3 DEF IsEntry, IsListed
    <3>5. PICK listing : listing = read_dir(l, k)
      OBVIOUS
    <3>6. PICK other : other = read_dir(l, k)'
      OBVIOUS
    <3>7. other = listing \/ other = Failed("io")
      BY <3>5, <3>6, ReadDirStable
    <3>8. a = AdvanceWith(m, e, listing)
      BY <1>3, <2>3, <3>2, <3>4, <3>5 DEF AdvancePart
    <3>9. b = AdvanceWith(m, e, other)
      BY <1>3, <2>4, <3>1, <3>2, <3>4, <3>6 DEF AdvancePart
    <3>10. a = b \/ (b.tag = "io" /\ b.out = a.out)
      BY <2>6, <3>7, <3>8, <3>9, AdvanceIo
    <3>11. Trails(b, a)
      BY <3>10 DEF Trails
    <3> QED BY <1>7, <2>1, <2>2, <3>11
  <2> QED BY <2>7, <2>8
<1>10. T = Nat
  <2>1. T \in SUBSET Nat
    BY <1>7
  <2> QED BY <1>8, <1>9, <2>1, Induction
<1>11. PICK n \in Nat : n = MaxVisits
  BY MaxVisitsNat
<1>12. WalkFrom(x) = f[n]
  BY <1>1, <1>3, <1>11 DEF EndPart
<1>13. MaxVisits' = n
  BY <1>11 DEF Worse, MaxVisits
<1>14. IsImage(image)'
  BY DEF Worse
<1>15. WalkFrom(x)' = g[n]
  BY <1>2, <1>3, <1>13, <1>14 DEF EndPart
<1> QED BY <1>7, <1>10, <1>12, <1>15

--------------------------------------------------------------------------------
(* A device that has not changed answers the same.                          *)

Steady == image' = image /\ bad' = bad

LEMMA ReadDirSame ==
  ASSUME Steady, NEW lba, NEW size \in Nat
  PROVE  read_dir(lba, size)' = read_dir(lba, size)
<1>1. \A l : ReadTag(l)' = ReadTag(l)
  BY DEF Steady, ReadTag
<1>2. \A n : RunTag(lba, n)' = RunTag(lba, n)
  BY <1>1 DEF RunTag
<1>3. \A a : AreaTag(a)' = AreaTag(a)
  BY <1>1 DEF AreaTag
<1>4. PICK r, n, p : r = Records(Chunks(lba, size)) /\ n = SectorsOf(size) /\ p = Parsed(lba, size)
  OBVIOUS
<1>5. Worse
  BY DEF Steady, Worse
<1>6. Records(Chunks(lba, size))' = r /\ Parsed(lba, size)' = p
  BY <1>4, <1>5, ListingStable
<1>7. ShapePart /\ ShapePart' /\ AreaPart /\ AreaPart'
  BY ShapePartHolds, AreaPartHolds, PTL
<1>8. Areas(lba, size)' = Areas(lba, size)
  <2>1. PICK s : s = [i \in DOMAIN r |-> AreaTag(r[i].su)]
    OBVIOUS
  <2>2. s = [i \in DOMAIN r |-> AreaTag(r[i].su)']
    BY <1>3, <2>1
  <2>3. Areas(lba, size) = FirstFailure(s)
    BY <1>4, <1>7, <2>1 DEF AreaPart
  <2>4. Areas(lba, size)' = FirstFailure(s)
    BY <1>6, <1>7, <2>2 DEF AreaPart
  <2> QED BY <2>3, <2>4
<1>9. read_dir(lba, size) =
      IF size > MAX_DIR_SIZE THEN Failed("limit")
      ELSE IF RunTag(lba, n) # "ok" THEN Failed(RunTag(lba, n))
      ELSE IF p # "ok" THEN Failed(p)
      ELSE IF Areas(lba, size) # "ok" THEN Failed(Areas(lba, size))
      ELSE [tag |-> "ok", recs |-> [i \in DOMAIN r |-> Extend(r[i])]]
  BY <1>4, <1>7 DEF ShapePart
<1>10. read_dir(lba, size)' =
      IF size > MAX_DIR_SIZE THEN Failed("limit")
      ELSE IF RunTag(lba, n)' # "ok" THEN Failed(RunTag(lba, n)')
      ELSE IF p # "ok" THEN Failed(p)
      ELSE IF Areas(lba, size)' # "ok" THEN Failed(Areas(lba, size)')
      ELSE [tag |-> "ok", recs |-> [i \in DOMAIN r |-> Extend(r[i])]]
  BY <1>4, <1>6, <1>7 DEF ShapePart
<1> QED BY <1>2, <1>8, <1>9, <1>10

LEMMA WalkSame ==
  ASSUME Steady, IsImage(image), NEW x, IsExtent(x)
  PROVE  WalkFrom(x)' = WalkFrom(x)
<1>1. PICK f, g : f = WalkRun(x) /\ g = WalkRun(x)'
  OBVIOUS
<1>2. /\ RootPart /\ RootPart' /\ AdvancePart /\ AdvancePart' /\ StepPart /\ StepPart'
      /\ EndPart /\ EndPart'
  BY RootPartHolds, AdvancePartHolds, StepPartHolds, EndPartHolds, PTL
<1>3. /\ f[0] = WalkStart(x)
      /\ \A n \in Nat : \A m : m = f[n] => f[n + 1] = Advance(m)
  BY <1>1, <1>2 DEF StepPart
<1>4. /\ g[0] = WalkStart(x)'
      /\ \A n \in Nat : \A m : m = g[n] => g[n + 1] = Advance(m)'
  BY <1>1, <1>2 DEF StepPart
<1>5. \A n \in Nat : WalkPlaces(x, f[n])
  BY <1>1, RunPlaces
<1>6. PICK T : T = {n \in Nat : g[n] = f[n]}
  OBVIOUS
<1>7. 0 \in T
  <2>1. PICK l, n \in Nat : l = x.lba /\ n = x.size
    BY DEF IsExtent
  <2>2. PICK listing : listing = read_dir(l, n)
    OBVIOUS
  <2>3. listing = read_dir(l, n)'
    BY <2>2, ReadDirSame
  <2>4. f[0] = EnterWith(NoWalk, l, <<>>, <<>>, listing)
    BY <1>2, <1>3, <2>1, <2>2 DEF RootPart
  <2>5. g[0] = EnterWith(NoWalk, l, <<>>, <<>>, listing)
    BY <1>2, <1>4, <2>1, <2>3 DEF RootPart
  <2> QED BY <1>6, <2>4, <2>5
<1>8. ASSUME NEW n \in T PROVE n + 1 \in T
  <2>1. PICK m, a, b : m = f[n] /\ a = f[n + 1] /\ b = g[n + 1]
    OBVIOUS
  <2>2. n \in Nat /\ n + 1 \in Nat /\ g[n] = m /\ WalkPlaces(x, m)
    BY <1>5, <1>6, <2>1
  <2>3. a = Advance(m) /\ b = Advance(m)'
    BY <1>3, <1>4, <2>1, <2>2
  <2>4. PICK e, l, k : e = Head(m.todo) /\ l = e.rec.lba /\ k = e.rec.size
    OBVIOUS
  <2>5. PICK listing, other : listing = read_dir(l, k) /\ other = read_dir(l, k)'
    OBVIOUS
  <2>6. a = AdvanceWith(m, e, listing)
    BY <1>2, <2>3, <2>4, <2>5 DEF AdvancePart
  <2>7. b = AdvanceWith(m, e, other)
    BY <1>2, <2>3, <2>4, <2>5 DEF AdvancePart
  <2>8. CASE Ended(m)
    <3>1. a = m /\ b = m
      BY <2>6, <2>7, <2>8 DEF AdvanceWith
    <3> QED BY <1>6, <2>1, <2>2, <3>1
  <2>9. CASE ~Ended(m)
    <3>1. IsList(m.todo) /\ m.todo # <<>> /\ \A d \in Range(m.todo) : IsEntry(d)
      BY <2>2, <2>9 DEF WalkPlaces, Ended
    <3>2. PICK todo : todo = m.todo
      OBVIOUS
    <3>3. Range(todo) = {Head(todo)} \cup Range(Tail(todo))
      BY <3>1, <3>2, TailList
    <3>4. IsEntry(e)
      BY <2>4, <3>1, <3>2, <3>3
    <3>5. k \in Nat
      BY <2>4, <3>4 DEF IsEntry, IsListed
    <3>6. other = listing
      BY <2>5, <3>5, ReadDirSame
    <3> QED BY <1>6, <2>1, <2>2, <2>6, <2>7, <3>6
  <2> QED BY <2>8, <2>9
<1>9. T = Nat
  <2>1. T \in SUBSET Nat
    BY <1>6
  <2> QED BY <1>7, <1>8, <2>1, Induction
<1>10. PICK n \in Nat : n = MaxVisits
  BY MaxVisitsNat
<1>11. WalkFrom(x) = f[n]
  BY <1>1, <1>2, <1>10 DEF EndPart
<1>12. MaxVisits' = n
  BY <1>10 DEF Steady, MaxVisits
<1>13. IsImage(image)'
  BY DEF Steady
<1>14. WalkFrom(x)' = g[n]
  BY <1>1, <1>2, <1>12, <1>13 DEF EndPart
<1> QED BY <1>6, <1>9, <1>11, <1>14

--------------------------------------------------------------------------------
(* A directory taken for larger.                                            *)

LEMMA UsedWider ==
  ASSUME IsImage(image), NEW l \in 0 .. image.end - 1, NEW a \in Nat, NEW b \in Nat,
         Lesser(SECTOR, a) <= Lesser(SECTOR, b)
  PROVE  Range(Used(l, a)) \subseteq Range(Used(l, b))
<1>1. PICK m, n \in Nat : m = Lesser(SECTOR, a) /\ n = Lesser(SECTOR, b)
  BY SectorAssumption DEF Lesser
<1>2. 1 .. m \subseteq 1 .. n
  BY <1>1
<1>3. Places(l, a) \subseteq Places(l, b)
  BY <1>1, <1>2 DEF Places
<1>4. /\ Range(Used(l, a)) = {Slots(l)[i] : i \in Places(l, a)}
      /\ Range(Used(l, b)) = {Slots(l)[i] : i \in Places(l, b)}
  BY UsedFacts
<1> QED BY <1>3, <1>4

LEMMA SectorsWider ==
  ASSUME NEW a \in Nat, NEW b \in Nat, a <= b
  PROVE  SectorsOf(a) <= SectorsOf(b)
<1>1. SECTOR \in Nat /\ SECTOR > 0
  BY SectorAssumption
<1>2. PICK p, q \in Nat : p = a + SECTOR - 1 /\ q = b + SECTOR - 1
  <2>1. a + SECTOR - 1 \in Nat /\ b + SECTOR - 1 \in Nat
    BY <1>1
  <2> QED BY <2>1
<1>3. p <= q
  BY <1>1, <1>2
<1>4. p \div SECTOR <= q \div SECTOR
  BY <1>1, <1>3, Z3
<1> QED BY <1>2, <1>4 DEF SectorsOf

LEMMA InDirectoryWider ==
  ASSUME IsImage(image), NEW lba \in Nat, NEW a \in Nat, NEW b \in Nat, a <= b,
         RunTag(lba, SectorsOf(b)) = "ok"
  PROVE  InDirectory(lba, a) \subseteq InDirectory(lba, b)
<1>1. PICK m, n \in Nat : m = SectorsOf(a) /\ n = SectorsOf(b)
  BY SectorsFacts
<1>2. m <= n
  BY <1>1, SectorsWider
<1>3. SECTOR \in Nat
  BY SectorAssumption
<1>4. ASSUME NEW i \in 1 .. m
      PROVE  i \in 1 .. n /\ Range(Used(lba + i - 1, a - (i - 1) * SECTOR))
                                \subseteq Range(Used(lba + i - 1, b - (i - 1) * SECTOR))
  <2>1. i \in 1 .. n
    BY <1>2
  <2>2. PICK l \in 0 .. image.end - 1 : l = lba + i - 1
    BY <1>1, <2>1, ChunksFacts
  <2>3. PICK r, s \in Nat : r = a - (i - 1) * SECTOR /\ s = b - (i - 1) * SECTOR
    BY <1>1, <2>1, SectorsFacts
  <2>4. r <= s
    <3>1. PICK p \in Int : p = (i - 1) * SECTOR
      BY <1>3
    <3> QED BY <2>3, <3>1
  <2>5. Lesser(SECTOR, r) <= Lesser(SECTOR, s)
    BY <1>3, <2>4 DEF Lesser
  <2> QED BY <2>1, <2>2, <2>3, <2>5, UsedWider
<1> QED BY <1>1, <1>4 DEF InDirectory

(* A directory taken for larger lists what it did, if it can be read.       *)
LEMMA ReadDirWider ==
  ASSUME IsImage(image), NEW lba \in Nat, NEW a \in Nat, NEW b \in Nat, a <= b,
         read_dir(lba, b).tag = "ok"
  PROVE  Range(read_dir(lba, a).recs) \subseteq Range(read_dir(lba, b).recs)
<1>1. /\ RunTag(lba, SectorsOf(b)) = "ok"
      /\ Range(read_dir(lba, b).recs) = {Extend(Trim(s)) : s \in Named(lba, b)}
  BY ReadDirFacts
<1>2. Named(lba, a) \subseteq Named(lba, b)
  BY <1>1, InDirectoryWider DEF Named
<1>3. CASE read_dir(lba, a).tag = "ok"
  <2>1. Range(read_dir(lba, a).recs) = {Extend(Trim(s)) : s \in Named(lba, a)}
    BY <1>3, ReadDirFacts
  <2> QED BY <1>1, <1>2, <2>1
<1>4. CASE read_dir(lba, a).tag # "ok"
  BY <1>4, ReadDirFacts, EmptyList
<1> QED BY <1>3, <1>4

(* The first slot of a directory that can be read is a record.              *)
LEMMA FirstSlot ==
  ASSUME IsImage(image), NEW lba \in Nat, NEW size \in Nat \ {0}, read_dir(lba, size).tag = "ok"
  PROVE  IsRecord(Slots(lba)[1])
<1>1. RunTag(lba, SectorsOf(size)) = "ok" /\ Parsed(lba, size) = "ok"
  BY ReadDirFacts
<1>2. PICK n \in Nat : n = SectorsOf(size)
  BY SectorsFacts
<1>3. n # 0
  BY <1>2, SectorsFacts, SectorAssumption
<1>4. 1 \in 1 .. n /\ lba + 1 - 1 = lba
  BY <1>3
<1>5. PICK room \in Nat : room = size - (1 - 1) * SECTOR
  BY <1>2, <1>4, SectorsFacts
<1>6. lba \in 0 .. image.end - 1
  <2>1. lba \in lba .. lba + n - 1
    BY <1>2, <1>3
  <2> QED BY <1>1, <1>2, <2>1, RunTagFacts
<1>7. PICK u : u = Used(lba, room)
  OBVIOUS
<1>8. u # <<>>
  BY <1>1, <1>2, <1>4, <1>5, <1>7, ParsedFacts
<1>9. IsList(u) /\ u[1] = Slots(lba)[1]
  BY <1>6, <1>7, <1>8, UsedFacts
<1>10. u[1] \in Range(u)
  BY <1>8, <1>9, FirstFacts
<1>11. Range(u) \subseteq InDirectory(lba, size)
  BY <1>2, <1>4, <1>5, <1>7 DEF InDirectory
<1>12. \A s \in InDirectory(lba, size) : IsRecord(s)
  BY <1>1, ParsedFacts
<1> QED BY <1>9, <1>10, <1>11, <1>12

================================================================================
