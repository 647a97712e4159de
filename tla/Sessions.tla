-------------------------------- MODULE Sessions --------------------------------
(***************************************************************************)
(* IsoReader::open and the session calls of an opened reader                *)
(* (core/src/lib.rs): scan_sessions looks for volume descriptors,           *)
(* read_volume_descriptors follows the chain of one session, and            *)
(* read_session_root_dir and walk_session follow it again for theirs.       *)
(* Each sector read is a step.                                              *)
(***************************************************************************)
EXTENDS Naturals, Sequences, FiniteSets

CONSTANTS FIRST,       \* the first volume descriptor's lba, 16
          ScanLimit,   \* the lba scan_sessions stops before, 4096
          ChainLimit,  \* sectors read of one chain at most, 4096
          UdfLimit,    \* the lba detect_udf stops before, 32
          Roots,       \* root directory extents
          None,
          Images

(* A sector, by what its first bytes make of it: a primary descriptor (its  *)
(* sizes or byte orders may be wrong), type 1 without a signature, a Joliet *)
(* or enhanced supplementary descriptor, an El Torito record, another type 0 *)
(* sector and among them NSR descriptors, a terminator, anything else, or a *)
(* sector that cannot be read.                                              *)
Sector ==
  [type : {"pvd"}, root : Roots, agrees : BOOLEAN]
    \union [type : {"joliet", "enhanced"}, root : Roots]
    \union [type : {"unsigned", "boot", "zero", "nsr", "end", "data", "damaged"}]

(* A root extent: its "." and ".." records are sound, or it is a decoy, or  *)
(* past the image's end, or cannot be read; and what the SP entry of its    *)
(* "." record says.                                                         *)
RootDir == [state : {"sound", "decoy", "cut", "damaged"}, rr : BOOLEAN, skip : Nat]

(* `endless` is a Read that never comes to an end.                          *)
IsImage(im) ==
  /\ IsFiniteSet(DOMAIN im.sectors)
  /\ DOMAIN im.sectors = FIRST .. FIRST + Cardinality(DOMAIN im.sectors) - 1
  /\ \A l \in DOMAIN im.sectors : im.sectors[l] \in Sector
  /\ im.endless \in BOOLEAN
  /\ im.roots \in [Roots -> RootDir]

(* pvd and svd by their root, the boot record by its lba; udf is has_udf.   *)
Descriptors == [pvd : Roots \union {None}, svd : Roots \union {None}, joliet : BOOLEAN,
                boot : Nat \union {None}, rr : BOOLEAN, skip : Nat, udf : BOOLEAN]

ASSUME LimitAssumption ==
  /\ FIRST \in Nat \ {0} /\ ScanLimit \in Nat /\ ChainLimit \in Nat /\ UdfLimit \in Nat
  /\ FIRST < ScanLimit /\ UdfLimit <= ScanLimit
ASSUME NoneAssumption == None \notin Roots \union Nat \union Descriptors
ASSUME ImageAssumption == \A im \in Images : IsImage(im)

VARIABLES img,       \* the image, fixed
          pc,        \* "scan", "chain", "udf", "ready", or "failed": open's error
          lba,       \* the sector to read next
          first,     \* scan_sessions' first_pvd_lba is set
          sessions,  \* session_pvd_lbas
          call,      \* what reads the chain: 0 is open, i > 0 a call for session i
          guard,     \* sectors of the chain read so far
          chain,     \* the descriptors gathered from it
          reader,    \* the opened reader's descriptors, or None
          answer     \* what the last call answered
vars == <<img, pc, lba, first, sessions, call, guard, chain, reader, answer>>

NoDescriptors == [pvd |-> None, svd |-> None, joliet |-> FALSE,
                  boot |-> None, rr |-> FALSE, skip |-> 0, udf |-> FALSE]

NoCall     == [kind |-> "none"]
Error      == [kind |-> "error"]
Listing(i, root, skip) == [kind |-> "listing", session |-> i, root |-> root, skip |-> skip]

Readable(l)  == img.endless \/ l \in DOMAIN img.sectors
SectorAt(l)  == IF l \in DOMAIN img.sectors THEN img.sectors[l] ELSE [type |-> "data"]
RootOf(l)    == img.roots[SectorAt(l).root]

TypeOK ==
  /\ IsImage(img)
  /\ pc \in {"scan", "chain", "udf", "ready", "failed"}
  /\ lba \in Nat /\ guard \in 0 .. ChainLimit
  /\ first \in BOOLEAN
  /\ sessions \in Seq(FIRST .. ScanLimit - 1)
  /\ call \in 0 .. Len(sessions)
  /\ chain \in Descriptors
  /\ reader \in Descriptors \union {None}
  /\ pc \in {"chain", "udf", "ready"} => sessions # <<>>
  /\ reader = None => call = 0
  /\ pc = "ready" => reader # None

--------------------------------------------------------------------------------

Init ==
  /\ img \in Images
  /\ pc = "scan" /\ lba = FIRST /\ first = FALSE /\ sessions = <<>>
  /\ call = 0 /\ guard = 0 /\ chain = NoDescriptors
  /\ reader = None /\ answer = NoCall

(* is_valid_session_candidate; a root past the image is no error there.     *)
Candidate(l) == SectorAt(l).type = "pvd" /\ SectorAt(l).agrees /\ RootOf(l).state = "sound"

Scanning == pc = "scan" /\ lba < ScanLimit /\ Readable(lba)

(* Mutant: a root past the image's end is an error.                          *)
UnscannableCut ==
  \/ SectorAt(lba).type = "damaged"
  \/ SectorAt(lba).type = "pvd" /\ SectorAt(lba).agrees /\ RootOf(lba).state \in {"damaged", "cut"}

(* The sector, or the root of a candidate, cannot be read.                  *)
Unscannable ==
  \/ SectorAt(lba).type = "damaged"
  \/ SectorAt(lba).type = "pvd" /\ SectorAt(lba).agrees /\ RootOf(lba).state = "damaged"

ScanFails ==
  /\ Scanning /\ Unscannable
  /\ pc' = "failed"
  /\ UNCHANGED <<img, lba, first, sessions, call, guard, chain, reader, answer>>

(* Mutant: the scan stops at a terminator.                                   *)
ScanSectorToEnd ==
  /\ Scanning /\ ~Unscannable
  /\ first' = (first \/ (lba = FIRST /\ SectorAt(lba).type = "pvd"))
  /\ sessions' = IF Candidate(lba) THEN Append(sessions, lba) ELSE sessions
  /\ lba' = IF SectorAt(lba).type = "end" THEN ScanLimit ELSE lba + 1
  /\ UNCHANGED <<img, pc, call, guard, chain, reader, answer>>

ScanSector ==
  /\ Scanning /\ ~Unscannable
  /\ first' = (first \/ (lba = FIRST /\ SectorAt(lba).type = "pvd"))
  /\ sessions' = IF Candidate(lba) THEN Append(sessions, lba) ELSE sessions
  /\ lba' = lba + 1
  /\ UNCHANGED <<img, pc, call, guard, chain, reader, answer>>

(* read_volume_descriptors starts for call i at the lba.                    *)
Follow(i, l) ==
  /\ pc' = "chain"
  /\ call' = i
  /\ lba' = l
  /\ guard' = 0
  /\ chain' = NoDescriptors

(* No candidate: the descriptor at FIRST is kept; the last one is active.   *)
ScanEnd ==
  /\ pc = "scan" /\ ~(lba < ScanLimit /\ Readable(lba))
  /\ sessions' = IF sessions = <<>> /\ first THEN <<FIRST>> ELSE sessions
  /\ IF sessions' = <<>>
     THEN pc' = "failed" /\ UNCHANGED <<call, lba, guard, chain>>
     ELSE Follow(0, sessions'[Len(sessions')])
  /\ UNCHANGED <<img, first, reader, answer>>

(* Mutant: one sector too many.                                              *)
GuardedTooLate == guard <= ChainLimit

(* guard += 1; if guard > 4096 { break; }                                   *)
Guarded == guard < ChainLimit

(* The chain's next sector can be read, and there may be more.              *)
Chaining == pc = "chain" /\ Guarded /\ Readable(lba)
Here == SectorAt(lba)

Gather(descriptors) ==
  /\ chain' = descriptors
  /\ lba' = lba + 1
  /\ guard' = guard + 1
  /\ UNCHANGED <<img, pc, first, sessions, call, reader, answer>>

(* check_rock_ridge reads the root of a primary descriptor, unless one with *)
(* an SP entry came before.                                                 *)
RootUnread == ~chain.rr /\ RootOf(lba).state \in {"cut", "damaged"}

ChainPvd ==
  /\ Chaining
  /\ Here.type = "pvd" /\ ~RootUnread
  /\ Gather(IF chain.rr THEN [chain EXCEPT !.pvd = Here.root]
            ELSE [chain EXCEPT !.pvd = Here.root,
                               !.rr = RootOf(lba).rr,
                               !.skip = IF RootOf(lba).rr THEN RootOf(lba).skip ELSE 0])

(* Mutant: the last supplementary descriptor is kept.                        *)
ChainSvdLast ==
  /\ Chaining
  /\ Here.type \in {"joliet", "enhanced"}
  /\ Gather([chain EXCEPT !.svd = Here.root, !.joliet = Here.type = "joliet"])

(* A Joliet descriptor is kept; an enhanced one unless there is a Joliet one. *)
ChainSvd ==
  /\ Chaining
  /\ Here.type \in {"joliet", "enhanced"}
  /\ Gather(IF Here.type = "joliet" \/ ~chain.joliet
            THEN [chain EXCEPT !.svd = Here.root, !.joliet = Here.type = "joliet"]
            ELSE chain)

(* boot_cat = boot_catalog_lba(..): None for a type 0 sector of another kind. *)
ChainBoot ==
  /\ Chaining
  /\ Here.type \in {"boot", "zero", "nsr"}
  /\ Gather([chain EXCEPT !.boot = IF Here.type = "boot" THEN lba ELSE None])

ChainOther ==
  /\ Chaining
  /\ Here.type = "data"
  /\ Gather(chain)

(* read_volume_descriptors returns an error: open or the session call fails. *)
ChainError ==
  /\ pc' = IF call = 0 THEN "failed" ELSE "ready"
  /\ answer' = Error
  /\ UNCHANGED <<img, lba, first, sessions, call, guard, chain, reader>>

ChainFails ==
  /\ pc = "chain" /\ Guarded
  /\ \/ ~Readable(lba)
     \/ Readable(lba) /\ Here.type \in {"unsigned", "damaged"}
     \/ Readable(lba) /\ Here.type = "pvd" /\ RootUnread
  /\ ChainError

(* Mutant: only a terminator ends the loop.                                  *)
ChainOverAtEnd == pc = "chain" /\ Readable(lba) /\ Here.type = "end"

(* The loop ends: a terminator, or the guard.                               *)
ChainOver == pc = "chain" /\ (~Guarded \/ (Readable(lba) /\ Here.type = "end"))

(* open keeps the descriptors; a session call lists the root found, through *)
(* the reader and its sp_skip, not the one just read (_skip); what read_dir *)
(* makes of it, an error included, is DirRecords' and WalkTree's affair.  A *)
(* chain without a primary descriptor, which the code would answer with an  *)
(* error, cannot be: it starts with one.                                    *)
ChainDone ==
  /\ ChainOver /\ chain.pvd # None
  /\ IF call = 0
     THEN pc' = "udf" /\ reader' = chain /\ UNCHANGED answer
     ELSE /\ pc' = "ready"
          /\ answer' = Listing(call, chain.pvd, reader.skip)
          /\ UNCHANGED reader
  /\ UNCHANGED <<img, lba, first, sessions, call, guard, chain>>

(* detect_udf: an NSR descriptor among the sectors it reads.                *)
DetectUdf ==
  /\ pc = "udf"
  /\ pc' = "ready"
  /\ reader' = [reader EXCEPT !.udf = \E l \in FIRST .. UdfLimit - 1 :
                                         Readable(l) /\ SectorAt(l).type = "nsr"]
  /\ UNCHANGED <<img, lba, first, sessions, call, guard, chain, answer>>

(* read_root_dir and walk.                                                  *)
ReadRoot ==
  /\ pc = "ready"
  /\ answer' = Listing(Len(sessions), reader.pvd, reader.skip)
  /\ UNCHANGED <<img, pc, lba, first, sessions, call, guard, chain, reader>>

(* Mutant: sessions are counted from the newest.                             *)
ReadSessionNewest ==
  /\ pc = "ready"
  /\ \E i \in 1 .. Len(sessions) : Follow(i, sessions[Len(sessions) + 1 - i])
  /\ UNCHANGED <<img, first, sessions, reader, answer>>

(* read_session_root_dir and walk_session, by an index in range.            *)
ReadSession ==
  /\ pc = "ready"
  /\ \E i \in 1 .. Len(sessions) : Follow(i, sessions[i])
  /\ UNCHANGED <<img, first, sessions, reader, answer>>

(* An index out of range.                                                   *)
NoSuchSession ==
  /\ pc = "ready"
  /\ answer' = Error
  /\ UNCHANGED <<img, pc, lba, first, sessions, call, guard, chain, reader>>

ChainSteps == \/ ChainPvd \/ ChainSvd \/ ChainBoot \/ ChainOther
              \/ ChainFails \/ ChainDone

OpenSteps == ScanSector \/ ScanFails \/ ScanEnd \/ ChainSteps \/ DetectUdf

Next == OpenSteps \/ ReadRoot \/ ReadSession \/ NoSuchSession

Spec == Init /\ [][Next]_vars

(* A call, once made, runs to its end.                                      *)
FairSpec == Spec /\ WF_vars(OpenSteps)
--------------------------------------------------------------------------------

(* Every primary descriptor's chain has a terminator before the next one,   *)
(* within the guard, and all of it can be read.                             *)
ChainEnds(l) ==
  \E t \in DOMAIN img.sectors :
    /\ l < t /\ t < l + ChainLimit /\ SectorAt(t).type = "end"
    /\ \A m \in l + 1 .. t - 1 : SectorAt(m).type \notin {"pvd", "unsigned", "damaged"}

Regular == \A l \in DOMAIN img.sectors :
  /\ SectorAt(l).type = "pvd" => ChainEnds(l) /\ RootOf(l).state # "damaged"
  /\ SectorAt(l).type # "damaged"

(* The sessions are the sound descriptors that the image has before the     *)
(* scan's limit, in order and none of them lost to a gap, a terminator or a *)
(* decoy; where there is none, the mandatory descriptor at FIRST.  Of what  *)
(* lies past the limit it says nothing: see ScansUntilEof.                  *)
SessionsFound ==
  pc \in {"chain", "udf", "ready"} =>
    LET sound == {l \in FIRST .. ScanLimit - 1 : Readable(l) /\ Candidate(l)}
    IN  /\ {sessions[i] : i \in DOMAIN sessions} = IF sound = {} THEN {FIRST} ELSE sound
        /\ \A i \in 1 .. Len(sessions) - 1 : sessions[i] < sessions[i + 1]
        /\ SectorAt(sessions[1]).type = "pvd"

(* "There may be more sessions after a gap.  Continue scanning until EOF":   *)
(* every sound session of the image is found, wherever it starts.           *)
ScansUntilEof ==
  pc = "ready" /\ Regular /\ ~img.endless =>
    {l \in DOMAIN img.sectors : Candidate(l)} \subseteq {sessions[i] : i \in DOMAIN sessions}

(* The sectors of the chain read so far.                                    *)
ChainStart == IF call = 0 THEN sessions[Len(sessions)] ELSE sessions[call]
ChainRead  == ChainStart .. lba - 1
Latest(types) == {l \in ChainRead : /\ SectorAt(l).type \in types
                                   /\ \A m \in l + 1 .. lba - 1 : SectorAt(m).type \notin types}

(* "Never let an EVD displace a Joliet SVD already found": the supplementary *)
(* descriptor is the last Joliet one of the chain, or else the last enhanced *)
(* one.                                                                     *)
JolietPreferred ==
  pc = "chain" =>
    LET kept == IF Latest({"joliet"}) # {} THEN Latest({"joliet"}) ELSE Latest({"enhanced"})
    IN  /\ chain.joliet <=> Latest({"joliet"}) # {}
        /\ IF kept = {} THEN chain.svd = None
           ELSE \A l \in kept : chain.svd = SectorAt(l).root

(* Open, and every session call, comes to an end, even of a Read that never *)
(* reaches one: "never hang".                                               *)
CallsEnd == pc \in {"scan", "chain", "udf"} ~> pc \in {"ready", "failed"}

(* "Reads that session's own PVD for its root directory", whatever sessions *)
(* and decoys follow it.                                                    *)
SessionOwnPvd ==
  answer.kind = "listing" /\ Regular => answer.root = SectorAt(sessions[answer.session]).root

(* A readable image with a sound session can be opened, whatever else looks *)
(* like a session.                                                          *)
SoundOpens ==
  pc = "failed" /\ Regular =>
    \A l \in FIRST .. ScanLimit - 1 : ~(Readable(l) /\ Candidate(l))
================================================================================
