------------------------------- MODULE DirRecords -------------------------------
(***************************************************************************)
(* IsoReader::read_dir once the sectors of a directory are in memory:       *)
(* parse_dir_records (core/src/dir.rs), the continuation areas and the      *)
(* merging of multi-extent chains (core/src/lib.rs).  A directory's bytes   *)
(* are given by what DirRecord::parse makes of them at each offset; a       *)
(* record's extent is named by the offset of the record.                    *)
(***************************************************************************)
EXTENDS Naturals, Sequences, FiniteSets

CONSTANTS SECTOR,       \* bytes in a sector, 2048
          Names,        \* file identifiers but for "." and ".."
          Regions       \* the directories read: one cell for each offset

(* A cell: a zero length byte; a record that cannot be parsed; or a record  *)
(* of len bytes.  `area` tells whether its continuation area can be read.   *)
Records == [len : Nat \ {0}, name : Names, dot : BOOLEAN, multi : BOOLEAN,
            area : {"none", "readable", "unreadable"}]
Zero == [len |-> 0]
Bad  == [len |-> 0, bad |-> TRUE]

ASSUME SectorAssumption == SECTOR \in Nat \ {0}
ASSUME RegionAssumption ==
  \A d \in Regions :
    /\ IsFiniteSet(DOMAIN d) /\ DOMAIN d = 0 .. Cardinality(DOMAIN d) - 1
    /\ \A o \in DOMAIN d : d[o] \in Records \union {Zero, Bad}

VARIABLES data,     \* the directory, fixed
          pc,       \* "parse", "areas", "merge"; or how read_dir ended: "ok", "error"
          offset,   \* parse_dir_records' cursor
          records,  \* the offsets of the records parsed
          next,     \* the record under the merging iterator
          chain,    \* the offsets merged into the record in hand
          merged    \* read_dir's answer
vars == <<data, pc, offset, records, next, chain, merged>>

(* An entry of the answer: its extents, primary first, and whether the      *)
(* multi-extent flag is still set.                                          *)
Entry == [extents : Seq(Nat) \ {<<>>}, multi : BOOLEAN]

End == Cardinality(DOMAIN data)

(* Mutants: padding is skipped a byte at a time; the offset is rounded down. *)
RoundUpByte(n) == n + 1
RoundDown(n) == (n \div SECTOR) * SECTOR

(* (n + 2047) & !2047.                                                      *)
RoundUp(n) == ((n + SECTOR - 1) \div SECTOR) * SECTOR

TypeOK ==
  /\ DOMAIN data = 0 .. End - 1
  /\ \A o \in DOMAIN data : data[o] \in Records \union {Zero, Bad}
  /\ pc \in {"parse", "areas", "merge", "ok", "error"}
  /\ offset \in 0 .. RoundUp(End)
  /\ records \in Seq(DOMAIN data)
  /\ next \in 1 .. Len(records) + 1
  /\ chain \in Seq(DOMAIN data)
  /\ merged \in Seq(Entry)

--------------------------------------------------------------------------------

Init ==
  /\ data \in Regions
  /\ pc = "parse"
  /\ offset = 0
  /\ records = <<>>
  /\ next = 1
  /\ chain = <<>>
  /\ merged = <<>>

Here == data[offset]

(* A zero length byte: padding to the next sector.                          *)
SkipPadding ==
  /\ pc = "parse" /\ offset < End
  /\ Here = Zero
  /\ offset' = RoundUp(offset)
  /\ UNCHANGED <<data, pc, records, next, chain, merged>>

(* Mutant: a record may end past the directory.                              *)
FitsAnyhow(rec) == TRUE

Fits(rec) == offset + rec.len <= End

(* A record: kept unless it is "." or "..".                                 *)
TakeRecord ==
  /\ pc = "parse" /\ offset < End
  /\ Here \in Records /\ Fits(Here)
  /\ records' = IF Here.dot THEN records ELSE Append(records, offset)
  /\ offset' = offset + Here.len
  /\ UNCHANGED <<data, pc, next, chain, merged>>

(* DirRecord::parse fails, and read_dir with it.                            *)
BadRecord ==
  /\ pc = "parse" /\ offset < End
  /\ Here = Bad \/ (Here \in Records /\ ~Fits(Here))
  /\ pc' = "error"
  /\ UNCHANGED <<data, offset, records, next, chain, merged>>

ParseEnd ==
  /\ pc = "parse" /\ offset >= End
  /\ pc' = "areas"
  /\ UNCHANGED <<data, offset, records, next, chain, merged>>

(* The continuation areas are read; if one cannot be, read_dir fails.       *)
FollowAreas ==
  /\ pc = "areas"
  /\ pc' = IF \E i \in DOMAIN records : data[records[i]].area = "unreadable"
           THEN "error" ELSE "merge"
  /\ UNCHANGED <<data, offset, records, next, chain, merged>>

Peeked == data[records[next]]

(* iter.next(): a record in hand, with no extra extents yet.                *)
PickUp ==
  /\ pc = "merge" /\ chain = <<>> /\ next <= Len(records)
  /\ chain' = <<records[next]>>
  /\ next' = next + 1
  /\ UNCHANGED <<data, pc, offset, records, merged>>

(* Mutant: the chain goes on as long as the name does not change.            *)
GoesOnSameName == next <= Len(records) /\ Peeked.name = data[chain[1]].name

(* The record in hand goes on: the last extent taken for it says that more  *)
(* follow, and the next record has its name.                                *)
GoesOn ==
  /\ data[chain[Len(chain)]].multi
  /\ next <= Len(records)
  /\ Peeked.name = data[chain[1]].name

Join ==
  /\ pc = "merge" /\ chain # <<>>
  /\ GoesOn
  /\ chain' = Append(chain, records[next])
  /\ next' = next + 1
  /\ UNCHANGED <<data, pc, offset, records, merged>>

(* Mutant: a record that breaks the chain is consumed with it.               *)
PushAndDrop ==
  /\ pc = "merge" /\ chain # <<>>
  /\ ~GoesOn
  /\ merged' = Append(merged, [extents |-> chain,
                               multi   |-> data[chain[1]].multi /\ Len(chain) = 1])
  /\ chain' = <<>>
  /\ next' = IF data[chain[Len(chain)]].multi /\ next <= Len(records) THEN next + 1 ELSE next
  /\ UNCHANGED <<data, pc, offset, records>>

(* merged.push: the flag was cleared by the first extent joined.            *)
Push ==
  /\ pc = "merge" /\ chain # <<>>
  /\ ~GoesOn
  /\ merged' = Append(merged, [extents |-> chain,
                               multi   |-> data[chain[1]].multi /\ Len(chain) = 1])
  /\ chain' = <<>>
  /\ UNCHANGED <<data, pc, offset, records, next>>

MergeEnd ==
  /\ pc = "merge" /\ chain = <<>> /\ next > Len(records)
  /\ pc' = "ok"
  /\ UNCHANGED <<data, offset, records, next, chain, merged>>

Next == \/ SkipPadding \/ TakeRecord \/ BadRecord \/ ParseEnd \/ FollowAreas
        \/ PickUp \/ Join \/ Push \/ MergeEnd

Spec == Init /\ [][Next]_vars

(* read_dir is one synchronous call.                                        *)
FairSpec == Spec /\ WF_vars(Next)

--------------------------------------------------------------------------------

Done == pc \in {"ok", "error"}

(* "Zero-length records mark padding to the sector boundary; skip to next   *)
(* sector": parse_dir_records comes back.                                   *)
ReadDirEnds == <>Done

(* It does when no sector starts with a zero byte.                          *)
SectorsStart == \A o \in DOMAIN data : o % SECTOR = 0 => data[o] # Zero

LaidOutEnds == SectorsStart ~> Done

(* Where among the records the last extent of entry e is.                   *)
Cut(e) == IF e = 0 THEN 0
          ELSE LET x == merged[e].extents
               IN  CHOOSE i \in DOMAIN records : records[i] = x[Len(x)]

(* Each entry's extents are the records from where the entry before it      *)
(* ends, and those in hand are the rest of the records taken: merging       *)
(* neither loses an extent, nor doubles one, nor reorders them.             *)
ExtentsPreserved ==
  /\ \A e \in DOMAIN merged : merged[e].extents = SubSeq(records, Cut(e - 1) + 1, Cut(e))
  /\ chain = SubSeq(records, Cut(Len(merged)) + 1, next - 1)

(* Entries are whole chains: the extents of an entry share a name, all but  *)
(* the last announce another one, and the next record of the directory does *)
(* not continue it.  The flag survives only on a chain cut off after its    *)
(* first extent.                                                            *)
ChainsWhole ==
  \A e \in DOMAIN merged :
    LET x == merged[e].extents
        k == Len(x)
        follower == {records[i + 1] : i \in {j \in 1 .. Len(records) - 1 : records[j] = x[k]}}
    IN  /\ \A i \in 1 .. k : data[x[i]].name = data[x[1]].name
        /\ \A i \in 1 .. k - 1 : data[x[i]].multi
        /\ data[x[k]].multi => \A f \in follower : data[f].name # data[x[1]].name
        /\ merged[e].multi <=> k = 1 /\ data[x[1]].multi

(* Where records start, as ECMA-119 lays them out: at the start of a        *)
(* sector, and behind another record of the same sector, up to the padding. *)
StartsIn(T) ==
  {o \in DOMAIN data :
     /\ data[o] # Zero
     /\ \/ o % SECTOR = 0
        \/ \E p \in T : p + data[p].len = o /\ p \div SECTOR = o \div SECTOR}

(* The least set that holds whatever starts in it.                          *)
RecordStarts ==
  {o \in DOMAIN data : \A T \in SUBSET DOMAIN data : StartsIn(T) \subseteq T => o \in T}

(* A directory that was parsed gives every record of every sector, each     *)
(* once and in order, where no record could cross into the next one.        *)
InSectors == \A o \in DOMAIN data : data[o] \in Records => (o % SECTOR) + data[o].len <= SECTOR

EverySectorListed == pc \in {"areas", "merge", "ok"} /\ InSectors =>
  /\ {records[i] : i \in DOMAIN records} = {o \in RecordStarts : ~data[o].dot}
  /\ \A i \in 1 .. Len(records) - 1 : records[i] < records[i + 1]
================================================================================
