------------------------------ MODULE IsoVfsProofs ------------------------------
(***************************************************************************)
(* Proofs about IsoVfs, for every volume, set of workers and address space. *)
(***************************************************************************)
EXTENDS IsoVfs, SequenceTheorems, WellFoundedInduction, TLAPS

(* Of the records naming an extent, one is the last.                        *)
LEMMA LastExists ==
  ASSUME NEW recs, NEW n \in Nat, NEW l, \E i \in 1 .. n : recs[i].lba = l
  PROVE  /\ Last(recs, n, l) \in 1 .. n
         /\ recs[Last(recs, n, l)].lba = l
<1> DEFINE Before == {ss \in Nat \X Nat : ss[1] < ss[2]}
           after  == {k \in Nat : n - k \in 1 .. n /\ recs[n - k].lba = l}
<1>1. IsWellFoundedOn(Before, Nat)
  BY NatLessThanWellFounded DEF OpToRel
<1>2. after \subseteq Nat /\ after # {}
  <2>1. PICK i \in 1 .. n : recs[i].lba = l
    OBVIOUS
  <2>2. n - i \in after
    <3>1. n - i \in Nat /\ n - (n - i) = i
      OBVIOUS
    <3>2. QED
      BY <2>1, <3>1
  <2>3. QED
    BY <2>2
<1>3. PICK k \in after : \A y \in after : ~ (<<y, k>> \in Before)
  <2> HIDE DEF Before, after
  <2>1. QED
    BY <1>1, <1>2, WFMin
<1>4. \A j \in (n - k) + 1 .. n : recs[j].lba # l
  <2> SUFFICES ASSUME NEW j \in (n - k) + 1 .. n, recs[j].lba = l PROVE FALSE
    OBVIOUS
  <2>1. n - j \in Nat /\ n - (n - j) = j /\ j \in 1 .. n /\ n - j < k
    OBVIOUS
  <2>2. n - j \in after
    BY <2>1
  <2>3. <<n - j, k>> \in Before
    BY <2>1
  <2>4. QED
    BY <1>3, <2>2, <2>3
<1>5. \E i \in 1 .. n : recs[i].lba = l /\ \A j \in i + 1 .. n : recs[j].lba # l
  BY <1>4
<1>6. QED
  BY <1>5 DEF Last

(* A volume's directories hold sequences of directory records.              *)
LEMMA RecordsTyped ==
  ASSUME TypeOK, NEW block \in DOMAIN disc
  PROVE  /\ block \in Lbas
         /\ disc[block].self \in Facts
         /\ disc[block].recs \in Seq(DirRecord)
<1>1. disc \in Discs
  BY DEF TypeOK
<1>2. DOMAIN disc \subseteq Lbas /\ disc[block] \in Directory
  BY <1>1, DiscAssumption
<1>3. QED
  BY <1>2 DEF Directory

(* Caching the first n records of a directory: every extent they name is    *)
(* known afterwards, nothing is forgotten, and what the cache now says of   *)
(* an extent it said before or one of the n records says.                   *)
LEMMA InsertedSays ==
  ASSUME NEW recs, NEW n \in Nat
  PROVE  /\ DOMAIN Inserted(recs, n) = DOMAIN cache \union {recs[i].lba : i \in 1 .. n}
         /\ \A l \in DOMAIN Inserted(recs, n) :
              \/ l \in DOMAIN cache /\ Inserted(recs, n)[l] = cache[l]
              \/ \E i \in 1 .. n : /\ recs[i].lba = l
                                   /\ Inserted(recs, n)[l] = FromRecord(recs[i])
<1> DEFINE named == {recs[i].lba : i \in 1 .. n}
           after == Inserted(recs, n)
<1>1. DOMAIN after = DOMAIN cache \union named
  BY DEF Inserted
<1>2. ASSUME NEW l \in DOMAIN after
      PROVE  \/ l \in DOMAIN cache /\ after[l] = cache[l]
             \/ \E i \in 1 .. n : recs[i].lba = l /\ after[l] = FromRecord(recs[i])
  <2>1. CASE l \in named
    <3>1. \E i \in 1 .. n : recs[i].lba = l
      BY <2>1
    <3>2. Last(recs, n, l) \in 1 .. n /\ recs[Last(recs, n, l)].lba = l
      BY <3>1, LastExists
    <3>3. after[l] = FromRecord(recs[Last(recs, n, l)])
      BY <2>1 DEF Inserted
    <3>4. QED
      BY <3>2, <3>3
  <2>2. CASE l \notin named
    <3>1. l \in DOMAIN cache
      BY <1>1, <2>2
    <3>2. after[l] = cache[l]
      BY <2>2, <3>1 DEF Inserted
    <3>3. QED
      BY <3>1, <3>2
  <2>3. QED
    BY <2>1, <2>2
<1>3. QED
  BY <1>1, <1>2

(* The cache stays typed when records are added to it.                      *)
LEMMA InsertedTyped ==
  ASSUME TypeOK, NEW recs \in Seq(DirRecord), NEW n \in 0 .. Len(recs)
  PROVE  /\ DOMAIN Inserted(recs, n) \subseteq Lbas
         /\ \A l \in DOMAIN Inserted(recs, n) : Inserted(recs, n)[l] \in RecordMeta
<1>1. \A i \in 1 .. n : recs[i] \in DirRecord
  BY SMT
<1>2. \A i \in 1 .. n : recs[i].lba \in Lbas /\ FromRecord(recs[i]) \in RecordMeta
  BY <1>1 DEF DirRecord, FromRecord, RecordMeta
<1>3. n \in Nat
  OBVIOUS
<1>4. DOMAIN cache \subseteq Lbas /\ \A l \in DOMAIN cache : cache[l] \in RecordMeta
  BY DEF TypeOK
<1>5. DOMAIN Inserted(recs, n) \subseteq Lbas
  <2>1. DOMAIN Inserted(recs, n) = DOMAIN cache \union {recs[i].lba : i \in 1 .. n}
    BY <1>3, InsertedSays
  <2>2. QED
    BY <1>2, <1>4, <2>1
<1>6. ASSUME NEW l \in DOMAIN Inserted(recs, n) PROVE Inserted(recs, n)[l] \in RecordMeta
  <2>1. \/ l \in DOMAIN cache /\ Inserted(recs, n)[l] = cache[l]
        \/ \E i \in 1 .. n : /\ recs[i].lba = l
                             /\ Inserted(recs, n)[l] = FromRecord(recs[i])
    BY ZenonT(60), <1>3, InsertedSays
  <2>2. QED
    BY <1>2, <1>4, <2>1
<1>7. QED
  BY <1>5, <1>6

--------------------------------------------------------------------------------

(* What an operation on a directory leaves: a prefix of its records cached, *)
(* and the worker holding what it held or one of the records cached.        *)
Enumerated(w) ==
  \E block \in DOMAIN disc : \E n \in 0 .. Len(disc[block].recs) :
    /\ cache' = Inserted(disc[block].recs, n)
    /\ \/ UNCHANGED handle
       \/ \E i \in 1 .. n : handle' = [handle EXCEPT ![w] = disc[block].recs[i]]
    /\ UNCHANGED <<disc, answer>>

(* What an operation on a node leaves: the cache as it was, or with the     *)
(* directory's "." record added; the answer is what the cache now says.     *)
Answered(w) ==
  \E block \in Lbas :
    /\ \/ UNCHANGED cache
       \/ /\ block \in DOMAIN disc
          /\ block \notin DOMAIN cache
          /\ cache' = [l \in DOMAIN cache \union {block} |->
                         IF l = block THEN [dir |-> TRUE, facts |-> disc[block].self]
                         ELSE cache[l]]
    /\ \/ block \in DOMAIN cache'
          /\ answer' = [answer EXCEPT ![w] = Told(block, cache'[block])]
       \/ answer' = [answer EXCEPT ![w] = NotCached]
    /\ UNCHANGED <<disc, handle>>

(* Every step is one or the other.                                          *)
LEMMA StepShape ==
  ASSUME TypeOK, Next
  PROVE  \E w \in Workers : Enumerated(w) \/ Answered(w)
<1>1. PICK w \in Workers :
        \/ \E block \in Lbas : ReadDir(w, block) \/ StatById(w, block)
        \/ \E block \in Lbas, name \in Names : Lookup(w, block, name)
        \/ Stat(w)
  BY DEF Next
<1>2. ASSUME NEW block \in Lbas, ReadDir(w, block) PROVE Enumerated(w)
  <2> DEFINE recs == disc[block].recs
  <2>1. block \in DOMAIN disc
    BY <1>2 DEF ReadDir, Listable
  <2>2. recs \in Seq(DirRecord) /\ Len(recs) \in 0 .. Len(recs) /\ DOMAIN recs = 1 .. Len(recs)
    BY <2>1, RecordsTyped
  <2>3. cache' = Inserted(recs, Len(recs)) /\ UNCHANGED <<disc, answer>>
    BY <1>2 DEF ReadDir
  <2>4. \/ UNCHANGED handle
        \/ \E i \in 1 .. Len(recs) : handle' = [handle EXCEPT ![w] = recs[i]]
    BY <1>2, <2>2 DEF ReadDir
  <2>5. QED
    BY <2>1, <2>2, <2>3, <2>4 DEF Enumerated
<1>3. ASSUME NEW block \in Lbas, NEW name \in Names, Lookup(w, block, name)
      PROVE  Enumerated(w)
  <2> DEFINE recs == disc[block].recs
             matching == {i \in DOMAIN recs : recs[i].name = name}
  <2>1. block \in DOMAIN disc
    BY <1>3 DEF Lookup, Listable
  <2>2. recs \in Seq(DirRecord) /\ Len(recs) \in 0 .. Len(recs) /\ DOMAIN recs = 1 .. Len(recs)
    BY <2>1, RecordsTyped
  <2>3. UNCHANGED <<disc, answer>>
    BY <1>3 DEF Lookup
  <2>4. CASE matching = {}
    BY <1>3, <2>1, <2>2, <2>3, <2>4 DEF Lookup, Enumerated
  <2>5. CASE matching # {}
    <3>1. PICK i \in matching : /\ cache' = Inserted(recs, i)
                                /\ handle' = [handle EXCEPT ![w] = recs[i]]
      BY <1>3, <2>5 DEF Lookup
    <3>2. i \in 0 .. Len(recs) /\ i \in 1 .. i
      BY <2>2
    <3>3. QED
      BY <2>1, <2>3, <3>1, <3>2 DEF Enumerated
  <2>6. QED
    BY <2>4, <2>5
<1>4. ASSUME NEW block \in Lbas, RecordFor(w, block), UNCHANGED <<disc, handle>>
      PROVE  Answered(w)
  <2>1. CASE block \in DOMAIN cache
    BY <1>4, <2>1 DEF RecordFor, Answered
  <2>2. CASE block \notin DOMAIN cache /\ block \in DOMAIN disc
    <3> DEFINE rm == [dir |-> TRUE, facts |-> disc[block].self]
               after == [l \in DOMAIN cache \union {block} |->
                           IF l = block THEN rm ELSE cache[l]]
    <3>1. cache' = after /\ answer' = [answer EXCEPT ![w] = Told(block, rm)]
      BY <1>4, <2>2 DEF RecordFor
    <3>2. block \in DOMAIN cache' /\ cache'[block] = rm
      BY <3>1
    <3>3. QED
      BY <1>4, <2>2, <3>1, <3>2 DEF Answered
  <2>3. CASE block \notin DOMAIN cache \union DOMAIN disc
    BY <1>4, <2>3 DEF RecordFor, Answered
  <2>4. QED
    BY <2>1, <2>2, <2>3
<1>5. ASSUME Stat(w) PROVE Answered(w)
  <2>1. handle[w].lba \in Lbas
    BY <1>5 DEF Stat, TypeOK, DirRecord
  <2>2. QED
    BY <1>4, <1>5, <2>1 DEF Stat
<1>6. ASSUME NEW block \in Lbas, StatById(w, block) PROVE Answered(w)
  BY <1>4, <1>6 DEF StatById
<1>7. QED
  BY <1>1, <1>2, <1>3, <1>5, <1>6

--------------------------------------------------------------------------------

LEMMA InitTyped == Init => TypeOK
<1> SUFFICES ASSUME Init PROVE TypeOK
  OBVIOUS
<1>1. cache = [l \in {Root} |-> [dir |-> TRUE, facts |-> RootFacts]]
  BY DEF Init
<1>2. DOMAIN cache \subseteq Lbas /\ \A l \in DOMAIN cache : cache[l] \in RecordMeta
  BY <1>1, RootAssumption DEF RecordMeta
<1>3. disc \in Discs /\ handle \in [Workers -> DirRecord \union {NoHandle}]
  BY DEF Init
<1>4. Nothing \in {Nothing, NotCached} \union {Told(b, rm) : b \in Lbas, rm \in RecordMeta}
  OBVIOUS
<1>5. answer \in [Workers -> {Nothing, NotCached}
                              \union {Told(b, rm) : b \in Lbas, rm \in RecordMeta}]
  BY <1>4 DEF Init
<1>6. QED
  BY <1>2, <1>3, <1>5 DEF TypeOK

LEMMA StepTyped == TypeOK /\ [Next]_vars => TypeOK'
<1> SUFFICES ASSUME TypeOK, [Next]_vars PROVE TypeOK'
  OBVIOUS
<1>1. ASSUME NEW w \in Workers, Enumerated(w) PROVE TypeOK'
  <2>1. PICK block \in DOMAIN disc : \E n \in 0 .. Len(disc[block].recs) :
          /\ cache' = Inserted(disc[block].recs, n)
          /\ \/ UNCHANGED handle
             \/ \E i \in 1 .. n : handle' = [handle EXCEPT ![w] = disc[block].recs[i]]
          /\ UNCHANGED <<disc, answer>>
    BY <1>1 DEF Enumerated
  <2>1a. PICK n \in 0 .. Len(disc[block].recs) :
          /\ cache' = Inserted(disc[block].recs, n)
          /\ \/ UNCHANGED handle
             \/ \E i \in 1 .. n : handle' = [handle EXCEPT ![w] = disc[block].recs[i]]
          /\ UNCHANGED <<disc, answer>>
    BY <2>1
  <2> DEFINE recs == disc[block].recs
  <2>2. recs \in Seq(DirRecord)
    BY RecordsTyped
  <2>3. DOMAIN cache' \subseteq Lbas /\ \A l \in DOMAIN cache' : cache'[l] \in RecordMeta
    BY <2>1a, <2>2, InsertedTyped
  <2>4. \A i \in 1 .. n : recs[i] \in DirRecord
    BY <2>2, SMT
  <2>5. handle' \in [Workers -> DirRecord \union {NoHandle}]
    BY <2>1a, <2>4 DEF TypeOK
  <2>6. QED
    BY <2>1a, <2>3, <2>5 DEF TypeOK
<1>2. ASSUME NEW w \in Workers, Answered(w) PROVE TypeOK'
  <2> DEFINE Answers == {Nothing, NotCached}
                          \union {Told(b, rm) : b \in Lbas, rm \in RecordMeta}
             KnownAs(c) == DOMAIN c \subseteq Lbas /\ \A l \in DOMAIN c : c[l] \in RecordMeta
  <2>1. PICK block \in Lbas :
          /\ \/ UNCHANGED cache
             \/ /\ block \in DOMAIN disc
                /\ block \notin DOMAIN cache
                /\ cache' = [l \in DOMAIN cache \union {block} |->
                               IF l = block THEN [dir |-> TRUE, facts |-> disc[block].self]
                               ELSE cache[l]]
          /\ \/ block \in DOMAIN cache'
                /\ answer' = [answer EXCEPT ![w] = Told(block, cache'[block])]
             \/ answer' = [answer EXCEPT ![w] = NotCached]
          /\ UNCHANGED <<disc, handle>>
    BY <1>2 DEF Answered
  <2>2. KnownAs(cache)
    BY DEF TypeOK
  <2>3. KnownAs(cache')
    <3>1. CASE UNCHANGED cache
      BY <2>2, <3>1
    <3>2. CASE ~ UNCHANGED cache
      <4>1. [dir |-> TRUE, facts |-> disc[block].self] \in RecordMeta
        BY <2>1, <3>2, RecordsTyped DEF RecordMeta
      <4>2. QED
        BY <2>1, <2>2, <3>2, <4>1
    <3>3. QED
      BY <3>1, <3>2
  <2>4. answer \in [Workers -> Answers]
    BY DEF TypeOK
  <2>5. answer' \in [Workers -> Answers]
    <3>1. CASE /\ block \in DOMAIN cache'
               /\ answer' = [answer EXCEPT ![w] = Told(block, cache'[block])]
      <4>1. Told(block, cache'[block]) \in Answers
        BY <2>3, <3>1
      <4>2. QED
        BY <2>4, <3>1, <4>1
    <3>2. CASE answer' = [answer EXCEPT ![w] = NotCached]
      <4>1. NotCached \in Answers
        OBVIOUS
      <4>2. QED
        BY <2>4, <3>2, <4>1
    <3>3. QED
      BY <2>1, <3>1, <3>2
  <2>6. disc' \in Discs /\ handle' \in [Workers -> DirRecord \union {NoHandle}]
    BY <2>1 DEF TypeOK
  <2>7. QED
    BY <2>3, <2>5, <2>6 DEF TypeOK
<1>3. CASE UNCHANGED vars
  BY <1>3 DEF TypeOK, vars
<1>4. QED
  BY <1>1, <1>2, <1>3, StepShape

(* Type correctness.                                                        *)
THEOREM VfsTypeCorrect == Spec => []TypeOK
<1>1. QED
  BY InitTyped, StepTyped, PTL DEF Spec

--------------------------------------------------------------------------------

(* No step forgets an extent: what can be stat'd once can be stat'd for     *)
(* ever.                                                                    *)
LEMMA StepKeeps == TypeOK /\ [Next]_vars => DOMAIN cache \subseteq DOMAIN cache'
<1> SUFFICES ASSUME TypeOK, [Next]_vars PROVE DOMAIN cache \subseteq DOMAIN cache'
  OBVIOUS
<1>1. ASSUME NEW w \in Workers, Enumerated(w) PROVE DOMAIN cache \subseteq DOMAIN cache'
  <2>1. PICK block \in DOMAIN disc : \E n \in 0 .. Len(disc[block].recs) :
          cache' = Inserted(disc[block].recs, n)
    BY <1>1 DEF Enumerated
  <2>1a. PICK n \in 0 .. Len(disc[block].recs) :
          cache' = Inserted(disc[block].recs, n)
    BY <2>1
  <2>2. n \in Nat
    BY RecordsTyped, SMT
  <2>3. QED
    BY ZenonT(60), <2>1a, <2>2, InsertedSays
<1>2. ASSUME NEW w \in Workers, Answered(w) PROVE DOMAIN cache \subseteq DOMAIN cache'
  BY <1>2 DEF Answered
<1>3. CASE UNCHANGED vars
  BY <1>3 DEF vars
<1>4. QED
  BY <1>1, <1>2, <1>3, StepShape

(* What the cache can answer it can answer ever after.                       *)
THEOREM NeverForgets == Spec => StaysResolvable
<1>1. TypeOK /\ [Next]_vars => [DOMAIN cache \subseteq DOMAIN cache']_vars
  BY StepKeeps
<1>2. QED
  BY <1>1, VfsTypeCorrect, PTL DEF Spec, StaysResolvable

(* A worker can stat the node it found, whatever the others do meanwhile.   *)
THEOREM FoundCanBeStatted == Spec => []HandlesResolve
<1>1. Init => HandlesResolve
  BY DEF Init, HandlesResolve
<1>2. TypeOK /\ HandlesResolve /\ [Next]_vars => HandlesResolve'
  <2> SUFFICES ASSUME TypeOK, HandlesResolve, [Next]_vars,
                      NEW v \in Workers, handle'[v] # NoHandle
               PROVE  handle'[v].lba \in DOMAIN cache'
    BY DEF HandlesResolve
  <2>1. DOMAIN cache \subseteq DOMAIN cache'
    BY StepKeeps
  <2>2. CASE handle'[v] = handle[v]
    BY <2>1, <2>2 DEF HandlesResolve
  <2>3. CASE handle'[v] # handle[v]
    <3>1. PICK w \in Workers : Enumerated(w)
      BY <2>3, StepShape DEF vars, Answered
    <3>2. PICK block \in DOMAIN disc : \E n \in 0 .. Len(disc[block].recs) :
            /\ cache' = Inserted(disc[block].recs, n)
            /\ \/ UNCHANGED handle
               \/ \E i \in 1 .. n : handle' = [handle EXCEPT ![w] = disc[block].recs[i]]
      BY <3>1 DEF Enumerated
    <3>2a. PICK n \in 0 .. Len(disc[block].recs) :
            /\ cache' = Inserted(disc[block].recs, n)
            /\ \/ UNCHANGED handle
               \/ \E i \in 1 .. n : handle' = [handle EXCEPT ![w] = disc[block].recs[i]]
      BY <3>2
    <3>3. PICK i \in 1 .. n : handle' = [handle EXCEPT ![w] = disc[block].recs[i]]
      BY <2>3, <3>2a
    <3>4. handle'[v] = disc[block].recs[i]
      BY <2>3, <3>3 DEF TypeOK
    <3> DEFINE recs == disc[block].recs
    <3>5. DOMAIN Inserted(recs, n) = DOMAIN cache \union {recs[k].lba : k \in 1 .. n}
      BY DEF Inserted
    <3>6. QED
      BY <3>2a, <3>4, <3>5
  <2>4. QED
    BY <2>2, <2>3
<1>3. QED
  BY <1>1, <1>2, VfsTypeCorrect, PTL DEF Spec

(* The cache never says of an extent what no record of the volume says.     *)
THEOREM CacheNeverGuesses == Spec => []CacheFromDisc
<1>1. Init => CacheFromDisc
  BY DEF Init, CacheFromDisc, SaidBySome
<1>2. TypeOK /\ CacheFromDisc /\ [Next]_vars => CacheFromDisc'
  <2> SUFFICES ASSUME TypeOK, CacheFromDisc, [Next]_vars PROVE CacheFromDisc'
    OBVIOUS
  <2>1. ASSUME disc' = disc,
               \A l \in DOMAIN cache' : SaidBySome(l, cache'[l])
        PROVE  CacheFromDisc'
    BY <2>1 DEF CacheFromDisc, SaidBySome
  <2>2. ASSUME NEW w \in Workers, Enumerated(w) PROVE CacheFromDisc'
    <3>1. PICK block \in DOMAIN disc : \E n \in 0 .. Len(disc[block].recs) :
            cache' = Inserted(disc[block].recs, n) /\ UNCHANGED disc
      BY <2>2 DEF Enumerated
    <3>1a. PICK n \in 0 .. Len(disc[block].recs) :
            cache' = Inserted(disc[block].recs, n) /\ UNCHANGED disc
      BY <3>1
    <3> DEFINE recs == disc[block].recs
    <3>2. recs \in Seq(DirRecord) /\ n \in Nat /\ 1 .. n \subseteq DOMAIN recs
      BY RecordsTyped, SMT
    <3>3. ASSUME NEW l \in DOMAIN cache' PROVE SaidBySome(l, cache'[l])
      <4>1. \/ l \in DOMAIN cache /\ cache'[l] = cache[l]
            \/ \E i \in 1 .. n : recs[i].lba = l /\ cache'[l] = FromRecord(recs[i])
        <5>1. l \in DOMAIN Inserted(recs, n) /\ cache' = Inserted(recs, n)
          BY <3>1a, <3>3
        <5> HIDE DEF recs
        <5>2. \/ l \in DOMAIN cache /\ Inserted(recs, n)[l] = cache[l]
              \/ \E i \in 1 .. n : /\ recs[i].lba = l
                                   /\ Inserted(recs, n)[l] = FromRecord(recs[i])
          BY ZenonT(60), <3>2, <5>1, InsertedSays
        <5>3. QED
          BY <5>1, <5>2
      <4>2. QED
        BY <3>2, <4>1 DEF CacheFromDisc, SaidBySome
    <3>4. QED
      BY <2>1, <3>1a, <3>3
  <2>3. ASSUME NEW w \in Workers, Answered(w) PROVE CacheFromDisc'
    <3>1. ASSUME NEW l \in DOMAIN cache' PROVE SaidBySome(l, cache'[l])
      BY <2>3 DEF Answered, CacheFromDisc, SaidBySome
    <3>2. QED
      BY <2>1, <2>3, <3>1 DEF Answered
  <2>4. CASE UNCHANGED vars
    BY <2>1, <2>4 DEF vars, CacheFromDisc
  <2>5. QED
    BY <2>2, <2>3, <2>4, StepShape
<1>3. QED
  BY <1>1, <1>2, VfsTypeCorrect, PTL DEF Spec

--------------------------------------------------------------------------------

(* What a worker holds is a record of the volume.                           *)
HandlesFromDisc ==
  \A w \in Workers : handle[w] # NoHandle =>
    \E b \in DOMAIN disc : \E i \in DOMAIN disc[b].recs : disc[b].recs[i] = handle[w]

LEMMA StepHandles == TypeOK /\ HandlesFromDisc /\ [Next]_vars => HandlesFromDisc'
<1> SUFFICES ASSUME TypeOK, HandlesFromDisc, [Next]_vars PROVE HandlesFromDisc'
  OBVIOUS
<1>1. ASSUME NEW w \in Workers, Enumerated(w) PROVE HandlesFromDisc'
  <2>1. PICK block \in DOMAIN disc : \E n \in 0 .. Len(disc[block].recs) :
          /\ \/ UNCHANGED handle
             \/ \E i \in 1 .. n : handle' = [handle EXCEPT ![w] = disc[block].recs[i]]
          /\ UNCHANGED disc
    BY <1>1 DEF Enumerated
  <2>2. disc[block].recs \in Seq(DirRecord)
    BY RecordsTyped
  <2>3. \/ UNCHANGED handle
        \/ \E i \in DOMAIN disc[block].recs : handle' = [handle EXCEPT ![w] = disc[block].recs[i]]
    <3>1. PICK n \in 0 .. Len(disc[block].recs) :
            \/ UNCHANGED handle
            \/ \E i \in 1 .. n : handle' = [handle EXCEPT ![w] = disc[block].recs[i]]
      BY <2>1
    <3>2. 1 .. n \subseteq DOMAIN disc[block].recs
      BY <2>2, SMT
    <3>3. QED
      BY <3>1, <3>2
  <2>4. QED
    BY <2>1, <2>3 DEF HandlesFromDisc, TypeOK
<1>2. ASSUME NEW w \in Workers, Answered(w) PROVE HandlesFromDisc'
  BY <1>2 DEF Answered, HandlesFromDisc
<1>3. CASE UNCHANGED vars
  BY <1>3 DEF vars, HandlesFromDisc
<1>4. QED
  BY <1>1, <1>2, <1>3, StepShape

(* Of a node a worker holds, the cache knows what the worker's record says, *)
(* wherever the records that name its extent agree: the operation that gave *)
(* the worker the record replaced whatever entry the extent had, and only   *)
(* records of that extent have replaced it since.                           *)
HandleKnown(r) ==
  /\ r.lba \in DOMAIN cache
  /\ NamedAlike(r.lba) => cache[r.lba] = FromRecord(r)

HandlesKnown ==
  /\ HandlesFromDisc
  /\ \A w \in Workers : handle[w] # NoHandle => HandleKnown(handle[w])

(* Two records of the volume that name one extent, where they must agree.   *)
LEMMA RecordsAgree ==
  ASSUME NEW l, NamedAlike(l),
         NEW b \in DOMAIN disc, NEW i \in DOMAIN disc[b].recs, disc[b].recs[i].lba = l,
         NEW c \in DOMAIN disc, NEW j \in DOMAIN disc[c].recs, disc[c].recs[j].lba = l
  PROVE  FromRecord(disc[b].recs[i]) = FromRecord(disc[c].recs[j])
<1>1. QED
  BY DEF NamedAlike

(* Listing a directory leaves every record of the volume known that was, and *)
(* every record listed.                                                     *)
LEMMA ListingKnows ==
  ASSUME TypeOK, NEW block \in DOMAIN disc, NEW n \in 0 .. Len(disc[block].recs),
         cache' = Inserted(disc[block].recs, n), UNCHANGED disc,
         NEW c \in DOMAIN disc, NEW j \in DOMAIN disc[c].recs,
         HandleKnown(disc[c].recs[j]) \/ (c = block /\ j \in 1 .. n)
  PROVE  HandleKnown(disc[c].recs[j])'
<1> DEFINE recs == disc[block].recs
           r == disc[c].recs[j]
           l == r.lba
<1>1. recs \in Seq(DirRecord) /\ n \in Nat /\ 1 .. n \subseteq DOMAIN recs
  BY RecordsTyped, SMT
<1>2. UNCHANGED disc[c].recs[j]
  OBVIOUS
<1> HIDE DEF recs, r
<1>3. DOMAIN Inserted(recs, n) = DOMAIN cache \union {recs[i].lba : i \in 1 .. n}
  BY <1>1, InsertedSays
<1>4. l \in DOMAIN cache'
  <2>1. cache' = Inserted(recs, n)
    BY DEF recs
  <2>2. CASE HandleKnown(r)
    BY <1>3, <2>1, <2>2 DEF HandleKnown
  <2>3. CASE c = block /\ j \in 1 .. n
    BY <1>3, <2>1, <2>3 DEF recs, r
  <2>4. QED
    BY <2>2, <2>3 DEF r
<1>5. ASSUME NamedAlike(l) PROVE cache'[l] = FromRecord(r)
  <2>1. cache' = Inserted(recs, n)
    BY DEF recs
  <2>2. \/ l \in DOMAIN cache /\ cache'[l] = cache[l]
        \/ \E i \in 1 .. n : recs[i].lba = l /\ cache'[l] = FromRecord(recs[i])
    <3> HIDE DEF l
    <3>1. l \in DOMAIN Inserted(recs, n) /\ n \in Nat
      BY <1>1, <1>4, <2>1
    <3>2. \/ l \in DOMAIN cache /\ Inserted(recs, n)[l] = cache[l]
          \/ \E i \in 1 .. n : /\ recs[i].lba = l
                               /\ Inserted(recs, n)[l] = FromRecord(recs[i])
      BY ONLY ZenonT(60), <3>1, InsertedSays
    <3>3. QED
      BY <2>1, <3>2
  <2>3. CASE \E i \in 1 .. n : recs[i].lba = l /\ cache'[l] = FromRecord(recs[i])
    <3>1. PICK i \in 1 .. n : recs[i].lba = l /\ cache'[l] = FromRecord(recs[i])
      BY <2>3
    <3>2. i \in DOMAIN recs
      BY <1>1
    <3>3. FromRecord(disc[block].recs[i]) = FromRecord(disc[c].recs[j])
      BY <1>5, <3>1, <3>2, RecordsAgree DEF recs, r
    <3>4. QED
      BY <3>1, <3>3 DEF recs, r
  <2>4. CASE ~ \E i \in 1 .. n : recs[i].lba = l /\ cache'[l] = FromRecord(recs[i])
    <3>1. l \in DOMAIN cache /\ cache'[l] = cache[l]
      BY <2>2, <2>4
    <3>2. ~ (c = block /\ j \in 1 .. n)
      <4>1. SUFFICES ASSUME c = block, j \in 1 .. n PROVE FALSE
        OBVIOUS
      <4>2. r = recs[j] /\ l \in {recs[i].lba : i \in 1 .. n}
        BY <4>1 DEF recs, r
      <4>3. Last(recs, n, l) \in 1 .. n /\ recs[Last(recs, n, l)].lba = l
        <5>1. \E i \in 1 .. n : recs[i].lba = l
          BY <4>1, <4>2
        <5>2. QED
          BY <1>1, <5>1, LastExists
      <4>4. cache'[l] = FromRecord(recs[Last(recs, n, l)])
        BY <2>1, <4>2, <3>1 DEF Inserted
      <4>5. QED
        BY <2>4, <4>3, <4>4
    <3>3. QED
      BY <1>5, <3>1, <3>2 DEF HandleKnown, r
  <2>5. QED
    BY <2>3, <2>4
<1>6. (NamedAlike(l))' <=> NamedAlike(l)
  BY <1>2 DEF NamedAlike, FromRecord, r
<1>7. QED
  BY <1>2, <1>4, <1>5, <1>6 DEF HandleKnown, FromRecord, r

LEMMA StepKnown == TypeOK /\ HandlesKnown /\ [Next]_vars => HandlesKnown'
<1> SUFFICES ASSUME TypeOK, HandlesKnown, [Next]_vars PROVE HandlesKnown'
  OBVIOUS
<1>1. HandlesFromDisc'
  BY StepHandles DEF HandlesKnown
<1>2. SUFFICES ASSUME NEW v \in Workers, handle'[v] # NoHandle
               PROVE  HandleKnown(handle[v])'
  BY <1>1 DEF HandlesKnown
<1>3. ASSUME NEW w \in Workers, Enumerated(w) PROVE HandleKnown(handle[v])'
  <2>1. PICK block \in DOMAIN disc : \E n \in 0 .. Len(disc[block].recs) :
          /\ cache' = Inserted(disc[block].recs, n)
          /\ \/ UNCHANGED handle
             \/ \E i \in 1 .. n : handle' = [handle EXCEPT ![w] = disc[block].recs[i]]
          /\ UNCHANGED <<disc, answer>>
    BY <1>3 DEF Enumerated
  <2>2. PICK n \in 0 .. Len(disc[block].recs) :
          /\ cache' = Inserted(disc[block].recs, n)
          /\ \/ UNCHANGED handle
             \/ \E i \in 1 .. n : handle' = [handle EXCEPT ![w] = disc[block].recs[i]]
          /\ UNCHANGED <<disc, answer>>
    BY <2>1
  <2>3. 1 .. n \subseteq DOMAIN disc[block].recs
    BY RecordsTyped, SMT
  <2>4. PICK c \in DOMAIN disc : \E j \in DOMAIN disc[c].recs :
          /\ disc[c].recs[j] = handle'[v]
          /\ HandleKnown(disc[c].recs[j]) \/ (c = block /\ j \in 1 .. n)
    <3>1. CASE handle'[v] = handle[v]
      BY <1>2, <3>1 DEF HandlesKnown, HandlesFromDisc
    <3>2. CASE handle'[v] # handle[v]
      <4>1. PICK i \in 1 .. n : handle' = [handle EXCEPT ![w] = disc[block].recs[i]]
        BY <2>2, <3>2
      <4>2. handle'[v] = disc[block].recs[i]
        BY <3>2, <4>1 DEF TypeOK
      <4>3. QED
        BY <2>3, <4>2
    <3>3. QED
      BY <3>1, <3>2
  <2>5. PICK j \in DOMAIN disc[c].recs :
          /\ disc[c].recs[j] = handle'[v]
          /\ HandleKnown(disc[c].recs[j]) \/ (c = block /\ j \in 1 .. n)
    BY <2>4
  <2>6. HandleKnown(disc[c].recs[j])'
    BY <2>2, <2>5, ListingKnows
  <2>7. (disc[c].recs[j])' = handle'[v]
    BY <2>2, <2>5
  <2>8. QED
    BY <2>6, <2>7 DEF HandleKnown, FromRecord
<1>4. ASSUME NEW w \in Workers, Answered(w) PROVE HandleKnown(handle[v])'
  <2>1. UNCHANGED <<disc, handle>> /\ HandleKnown(handle[v])
    BY <1>2, <1>4 DEF Answered, HandlesKnown
  <2>2. handle[v].lba \in DOMAIN cache' /\ cache'[handle[v].lba] = cache[handle[v].lba]
    BY <1>4, <2>1 DEF Answered, HandleKnown
  <2>3. (NamedAlike(handle[v].lba))' <=> NamedAlike(handle[v].lba)
    BY <2>1 DEF NamedAlike, FromRecord
  <2>4. QED
    BY <2>1, <2>2, <2>3 DEF HandleKnown, FromRecord
<1>5. CASE UNCHANGED vars
  <2>1. HandleKnown(handle[v]) /\ UNCHANGED <<disc, cache, handle>>
    BY <1>2, <1>5 DEF HandlesKnown, vars
  <2>2. QED
    BY <2>1 DEF HandleKnown, NamedAlike, FromRecord
<1>6. QED
  BY <1>3, <1>4, <1>5, StepShape

(* A worker that stats what it found is told what the record it found says, *)
(* whatever the others had read or asked by id in between, wherever the     *)
(* records that name the extent agree; its "." record need not.             *)
THEOREM StatAnswersWhatWasFound == Spec => StatAnswersFound
<1>1. Init => HandlesKnown
  BY DEF Init, HandlesKnown, HandlesFromDisc
<1>2. ASSUME TypeOK, HandlesKnown, NEW w \in Workers,
             Stat(w), NamedAlike(handle[w].lba)
      PROVE  answer'[w] = Told(handle[w].lba, FromRecord(handle[w]))
  <2>1. handle[w] # NoHandle /\ RecordFor(w, handle[w].lba) /\ w \in DOMAIN answer
    BY <1>2 DEF Stat, TypeOK
  <2>2. /\ handle[w].lba \in DOMAIN cache
        /\ cache[handle[w].lba] = FromRecord(handle[w])
    BY <1>2, <2>1 DEF HandlesKnown, HandleKnown
  <2>3. answer' = [answer EXCEPT ![w] = Told(handle[w].lba, cache[handle[w].lba])]
    BY <2>1, <2>2 DEF RecordFor
  <2>4. QED
    BY <2>1, <2>2, <2>3
<1>3. ASSUME TypeOK, HandlesKnown
      PROVE  [\A w \in Workers :
                Stat(w) /\ NamedAlike(handle[w].lba)
                  => answer'[w] = Told(handle[w].lba, FromRecord(handle[w])) ]_vars
  BY <1>2, <1>3
<1>4. QED
  BY <1>1, <1>3, StepKnown, VfsTypeCorrect, PTL DEF Spec, StatAnswersFound

================================================================================
