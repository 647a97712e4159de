--------------------------------- MODULE IsoVfs ---------------------------------
(***************************************************************************)
(* IsoVfs (core/src/vfs.rs): a mounted volume shared by workers.  Nodes are *)
(* named by the lba of their extent; what a directory record says of a node *)
(* is kept in a cache by that lba.  Every operation holds the mutex from    *)
(* its first look at the state to its last, so it is one action; what a     *)
(* worker does between two operations is not protected.                     *)
(***************************************************************************)
EXTENDS Naturals, Sequences

CONSTANTS Workers,
          Lbas, Names,
          Facts,         \* what a record says of its node besides `dir`: size,
                         \* further extents, time and symlink target
          Root,          \* the root directory's lba
          RootFacts,     \* what the volume descriptor says of the root
          NoHandle,      \* a worker that has not looked anything up
          Discs          \* the volumes mounted

DirRecord  == [name : Names, dir : BOOLEAN, lba : Lbas, facts : Facts]
RecordMeta == [dir : BOOLEAN, facts : Facts]

(* A directory extent: what its "." record says of it, whether read_dir     *)
(* succeeds on it, and the records read_dir returns.                        *)
Directory == [self : Facts, readable : BOOLEAN, recs : Seq(DirRecord)]

ASSUME RootAssumption == Root \in Lbas /\ RootFacts \in Facts
ASSUME DiscAssumption ==
  \A d \in Discs : DOMAIN d \subseteq Lbas /\ \A l \in DOMAIN d : d[l] \in Directory
ASSUME HandleAssumption == NoHandle \notin DirRecord

VARIABLES disc,      \* lba |-> Directory, for the extents that hold one; fixed
          cache,     \* lba |-> RecordMeta
          handle,    \* the record each worker's last lookup or enumeration chose
          answer     \* what each worker was last told of a node
vars == <<disc, cache, handle, answer>>

(* Mutant: the record is kept as it is.                                      *)
FromRecordWhole(rec) == rec

FromRecord(rec) == [dir |-> rec.dir, facts |-> rec.facts]

Nothing     == [kind |-> "nothing"]
NotCached   == [kind |-> "error"]
Told(b, rm) == [kind |-> "meta", block |-> b, meta |-> rm]

TypeOK ==
  /\ disc \in Discs
  /\ DOMAIN cache \subseteq Lbas
  /\ \A l \in DOMAIN cache : cache[l] \in RecordMeta
  /\ handle \in [Workers -> DirRecord \union {NoHandle}]
  /\ answer \in [Workers -> {Nothing, NotCached}
                              \union {Told(b, rm) : b \in Lbas, rm \in RecordMeta}]

--------------------------------------------------------------------------------

(* IsoVfs::open seeds the cache with the root.                              *)
Init ==
  /\ disc \in Discs
  /\ cache = [l \in {Root} |-> [dir |-> TRUE, facts |-> RootFacts]]
  /\ handle = [w \in Workers |-> NoHandle]
  /\ answer = [w \in Workers |-> Nothing]

(* Inserting the first n records in order: the last one of an lba stays.    *)
Last(recs, n, l) ==
  CHOOSE i \in 1 .. n : recs[i].lba = l /\ \A j \in i + 1 .. n : recs[j].lba # l

(* Mutant: only files are remembered.                                       *)
InsertedFiles(recs, n) ==
  LET named == {recs[i].lba : i \in {j \in 1 .. n : ~recs[j].dir}}
  IN  [l \in DOMAIN cache \union named |->
         IF l \in named THEN FromRecord(recs[Last(recs, n, l)]) ELSE cache[l]]

(* Mutant: every record of the directory is cached with the last one's data. *)
InsertedOneMeta(recs, n) ==
  LET named == {recs[i].lba : i \in 1 .. n}
  IN  [l \in DOMAIN cache \union named |->
         IF l \in named THEN FromRecord(recs[n]) ELSE cache[l]]

(* Mutant: an entry that is there already is kept.                          *)
InsertedOnce(recs, n) ==
  LET named == {recs[i].lba : i \in 1 .. n} \ DOMAIN cache
  IN  [l \in DOMAIN cache \union named |->
         IF l \in named THEN FromRecord(recs[Last(recs, n, l)]) ELSE cache[l]]

Inserted(recs, n) ==
  LET named == {recs[i].lba : i \in 1 .. n}
  IN  [l \in DOMAIN cache \union named |->
         IF l \in named THEN FromRecord(recs[Last(recs, n, l)]) ELSE cache[l]]

(* dir_size and IsoReader::read_dir both succeed on the block.              *)
Listable(block) == block \in DOMAIN disc /\ disc[block].readable

(* read_dir: every record is cached; the worker picks one of the entries.   *)
ReadDir(w, block) ==
  /\ Listable(block)
  /\ LET recs == disc[block].recs
     IN  /\ cache' = Inserted(recs, Len(recs))
         /\ IF recs = <<>> THEN UNCHANGED handle
            ELSE \E i \in DOMAIN recs : handle' = [handle EXCEPT ![w] = recs[i]]
  /\ UNCHANGED <<disc, answer>>

(* lookup: records are cached up to the one that matches, if any does.      *)
Lookup(w, block, name) ==
  /\ Listable(block)
  /\ LET recs == disc[block].recs
         matching == {i \in DOMAIN recs : recs[i].name = name}
     IN  IF matching = {}
         THEN cache' = Inserted(recs, Len(recs)) /\ UNCHANGED handle
         ELSE \E i \in matching :
                /\ \A j \in matching : i <= j
                /\ cache' = Inserted(recs, i)
                /\ handle' = [handle EXCEPT ![w] = recs[i]]
  /\ UNCHANGED <<disc, answer>>

(* record_for, on which meta, extents, read_at and read_link answer: the    *)
(* cached record, or the "." record of a directory, which is then cached;   *)
(* anything else is an error.                                               *)
RecordFor(w, block) ==
  \/ /\ block \in DOMAIN cache
     /\ answer' = [answer EXCEPT ![w] = Told(block, cache[block])]
     /\ UNCHANGED cache
  \/ /\ block \notin DOMAIN cache
     /\ block \in DOMAIN disc
     /\ LET rm == [dir |-> TRUE, facts |-> disc[block].self]
        IN  /\ cache' = [l \in DOMAIN cache \union {block} |->
                           IF l = block THEN rm ELSE cache[l]]
            /\ answer' = [answer EXCEPT ![w] = Told(block, rm)]
  \/ /\ block \notin DOMAIN cache \union DOMAIN disc
     /\ answer' = [answer EXCEPT ![w] = NotCached]
     /\ UNCHANGED cache

(* The worker asks about the node it found, or about an id from elsewhere.   *)
Stat(w) ==
  /\ handle[w] # NoHandle
  /\ RecordFor(w, handle[w].lba)
  /\ UNCHANGED <<disc, handle>>

StatById(w, block) ==
  /\ RecordFor(w, block)
  /\ UNCHANGED <<disc, handle>>

Next ==
  \E w \in Workers :
    \/ \E block \in Lbas : ReadDir(w, block) \/ StatById(w, block)
    \/ \E block \in Lbas, name \in Names : Lookup(w, block, name)
    \/ Stat(w)

Spec == Init /\ [][Next]_vars

--------------------------------------------------------------------------------

(* "the normal root->read_dir->lookup->stat flow always populates it": a    *)
(* node that some worker has found can be stat'd by it from then on,        *)
(* whatever the other workers do.                                           *)
HandlesResolve == \A w \in Workers : handle[w] # NoHandle => handle[w].lba \in DOMAIN cache

(* The cache never says of an extent what no record of the volume says: the *)
(* root's descriptor, a directory's own "." record, or a record that names  *)
(* the extent ("never a guess").                                            *)
SaidBySome(l, rm) ==
  \/ l = Root /\ rm = [dir |-> TRUE, facts |-> RootFacts]
  \/ l \in DOMAIN disc /\ rm = [dir |-> TRUE, facts |-> disc[l].self]
  \/ \E b \in DOMAIN disc : \E i \in DOMAIN disc[b].recs :
       disc[b].recs[i].lba = l /\ FromRecord(disc[b].recs[i]) = rm

CacheFromDisc == \A l \in DOMAIN cache : SaidBySome(l, cache[l])

(* What could be stat'd once can be stat'd for ever.                        *)
StaysResolvable == [][DOMAIN cache \subseteq DOMAIN cache']_vars

(* The directory records that name an extent all say the same of it.  What  *)
(* the extent's own "." record says, and what the descriptor says of the    *)
(* root, may differ: a stat by id caches them undated and bare.             *)
NamedAlike(l) ==
  \A b, c \in DOMAIN disc : \A i \in DOMAIN disc[b].recs, j \in DOMAIN disc[c].recs :
    disc[b].recs[i].lba = l /\ disc[c].recs[j].lba = l
      => FromRecord(disc[b].recs[i]) = FromRecord(disc[c].recs[j])

(* A worker that stats the node it found is told what the record it found   *)
(* says of it, never what a stat by id had made of the extent before or     *)
(* after, wherever the records that name the extent agree on it.            *)
StatAnswersFound ==
  [][\A w \in Workers :
       Stat(w) /\ NamedAlike(handle[w].lba)
         => answer'[w] = Told(handle[w].lba, FromRecord(handle[w])) ]_vars
================================================================================
