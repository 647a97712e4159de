------------------------------- MODULE FileReader -------------------------------
(***************************************************************************)
(* IsoFileReader (core/src/file_reader.rs): streaming Read and Seek over    *)
(* the extents of one file, through a buffer of one sector.  A byte is      *)
(* named by where it lies, <<sector, offset>>.  The device may fail any     *)
(* read of a sector.  Numbers have the widths of the code: U32 is 2^32 and  *)
(* I64 is 2^63, both scaled down for model checking; sums wrap.             *)
(***************************************************************************)
EXTENDS Integers, Sequences

CONSTANTS SECTOR,        \* bytes in a sector
          U32, I64,      \* the unsigned 32-bit and signed 64-bit limits
          ExtentLists,   \* the files read: sequences of extents
          Counts,        \* sizes of the buffers passed to read
          Seeks          \* the requests passed to seek: [whence, by]

(* An extent's start is where its first byte lies in the file: what the     *)
(* code finds by adding up the sizes before it.                             *)
Ext == [lba : Nat, size : 0 .. U32 - 1, start : Nat]

Consecutive(exts) ==
  /\ exts[1].start = 0
  /\ \A i \in 1 .. Len(exts) - 1 : exts[i + 1].start = exts[i].start + exts[i].size

ASSUME SectorAssumption == SECTOR \in Nat \ {0}
ASSUME WidthAssumption  == U32 \in Nat \ {0} /\ I64 \in Nat /\ 2 * U32 <= I64
ASSUME ExtentAssumption ==
  \A exts \in ExtentLists : exts \in Seq(Ext) /\ exts # <<>> /\ Consecutive(exts)
ASSUME CountAssumption  == Counts \subseteq Nat
ASSUME SeekAssumption   ==
  \A s \in Seeks : s.whence \in {"start", "end", "current"} /\ s.by \in Int

VARIABLES extents,    \* [primary] ++ extra_extents
          total,      \* what size() returns
          ext_idx,    \* extents consumed: the one read is extents[ext_idx + 1]
          ext_pos,    \* bytes consumed within that extent
          sector,     \* the sector that sector_buf holds, or Garbage
          buf_start,  \* offset in the extent of sector_buf, or NoSector
          buf_valid, buf_pos,
          want,       \* the size of the caller's buffer while read runs, or Idle
          written,    \* the bytes copied into it so far
          reply       \* what the last call returned
cursor == <<ext_idx, ext_pos>>
buffer == <<sector, buf_start, buf_valid, buf_pos>>
vars == <<extents, total, cursor, buffer, want, written, reply>>

Garbage  == -1
NoSector == -1
Idle     == -1

Lesser(m, n) == IF m < n THEN m ELSE n

NoCall  == [kind |-> "none"]
Error   == [kind |-> "error"]
Data(b) == [kind |-> "data", bytes |-> b]
At(p)   == [kind |-> "at", at |-> p]

(* The bytes in the first n extents.                                        *)
Before(n) == IF n = 0 THEN 0 ELSE extents[n].start + extents[n].size

Size == Before(Len(extents))

AtEnd    == ext_idx >= Len(extents)
Extent   == extents[ext_idx + 1]
Reading  == want # Idle

TypeOK ==
  /\ extents \in Seq(Ext) /\ extents # <<>> /\ Consecutive(extents)
  /\ total \in 0 .. U32 - 1
  /\ ext_idx \in 0 .. Len(extents)
  /\ ext_pos \in 0 .. U32 - 1
  /\ sector \in Nat \union {Garbage}
  /\ buf_start \in Nat \union {NoSector}
  /\ buf_valid \in 0 .. SECTOR
  /\ buf_pos \in 0 .. SECTOR
  /\ want \in Nat \union {Idle}
  /\ written \in Seq((Nat \union {Garbage}) \X Nat)
  /\ ~Reading => written = <<>>

--------------------------------------------------------------------------------

(* IsoFileReader::new.                                                      *)
Init ==
  /\ extents \in ExtentLists
  /\ total = Size % U32
  /\ ext_idx = 0 /\ ext_pos = 0
  /\ sector = Garbage /\ buf_start = NoSector /\ buf_valid = 0 /\ buf_pos = 0
  /\ want = Idle /\ written = <<>>
  /\ reply = NoCall

Return(answer) ==
  /\ want' = Idle
  /\ written' = <<>>
  /\ reply' = answer

ReadCall ==
  /\ ~Reading
  /\ want' \in Counts
  /\ UNCHANGED <<extents, total, cursor, buffer, written, reply>>

MoreWanted == Reading /\ Len(written) < want /\ ~AtEnd

(* Mutant: the buffer of the extent before stays valid.                      *)
NextExtentKeepsBuffer ==
  /\ MoreWanted
  /\ ext_pos >= Extent.size
  /\ ext_idx' = ext_idx + 1
  /\ ext_pos' = 0
  /\ UNCHANGED <<extents, total, buffer, want, written, reply>>

(* Mutant: the reader goes back to the start of the extent it has read.      *)
NextExtentStays ==
  /\ MoreWanted
  /\ ext_pos >= Extent.size
  /\ ext_pos' = 0
  /\ buf_start' = NoSector
  /\ UNCHANGED <<extents, total, ext_idx, sector, buf_valid, buf_pos, want, written, reply>>

(* The current extent is used up: on to the next one.                       *)
NextExtent ==
  /\ MoreWanted
  /\ ext_pos >= Extent.size
  /\ ext_idx' = ext_idx + 1
  /\ ext_pos' = 0
  /\ buf_start' = NoSector
  /\ UNCHANGED <<extents, total, sector, buf_valid, buf_pos, want, written, reply>>

sector_start == (ext_pos \div SECTOR) * SECTOR
Loaded == buf_start = sector_start

(* Mutant: the last sector of an extent counts as full.                      *)
FillWhole ==
  /\ MoreWanted
  /\ ext_pos < Extent.size
  /\ ~Loaded
  /\ sector' = Extent.lba + sector_start \div SECTOR
  /\ buf_valid' = Extent.size - sector_start
  /\ buf_start' = sector_start
  /\ buf_pos' = ext_pos - sector_start
  /\ UNCHANGED <<extents, total, cursor, want, written, reply>>

(* ensure_buf reads the sector under the cursor.                            *)
Fill ==
  /\ MoreWanted
  /\ ext_pos < Extent.size
  /\ ~Loaded
  /\ sector' = Extent.lba + sector_start \div SECTOR
  /\ buf_valid' = Lesser(Extent.size - sector_start, SECTOR)
  /\ buf_start' = sector_start
  /\ buf_pos' = ext_pos - sector_start
  /\ UNCHANGED <<extents, total, cursor, want, written, reply>>

(* ... or fails, with the buffer half overwritten: read returns the error,  *)
(* and the bytes copied before it are not reported.                         *)
FillFails ==
  /\ MoreWanted
  /\ ext_pos < Extent.size
  /\ ~Loaded
  /\ sector' = Garbage
  /\ Return(Error)
  /\ UNCHANGED <<extents, total, cursor, buf_start, buf_valid, buf_pos>>

(* Mutant: copies to the end of the buffer, valid or not.                    *)
availableWhole == SECTOR - buf_pos

available == buf_valid - buf_pos

Copy ==
  /\ MoreWanted
  /\ ext_pos < Extent.size
  /\ Loaded
  /\ available # 0
  /\ LET to_copy == Lesser(available, want - Len(written))
     IN  /\ written' = written \o [i \in 1 .. to_copy |-> <<sector, buf_pos + i - 1>>]
         /\ buf_pos' = buf_pos + to_copy
         /\ ext_pos' = ext_pos + to_copy
  /\ UNCHANGED <<extents, total, ext_idx, sector, buf_start, buf_valid, want, reply>>

ReadReturn ==
  /\ Reading
  /\ \/ Len(written) >= want
     \/ AtEnd
     \/ ~AtEnd /\ ext_pos < Extent.size /\ Loaded /\ available = 0
  /\ Return(Data(written))
  /\ UNCHANGED <<extents, total, cursor, buffer>>

(* Two's complement: what a 64-bit integer keeps of x.                      *)
Signed(x) == ((x + I64) % (2 * I64)) - I64

Clamped(x) == IF x < 0 THEN 0 ELSE Lesser(x, total)

(* Mutant: the current position forgets the extents already read.           *)
TargetInExtent(s) ==
  CASE s.whence = "start"   -> Signed(s.by)
    [] s.whence = "end"     -> Signed(total + s.by)
    [] s.whence = "current" -> Signed(ext_pos + s.by)

Target(s) ==
  CASE s.whence = "start"   -> Signed(s.by)
    [] s.whence = "end"     -> Signed(total + s.by)
    [] s.whence = "current" -> Signed((Before(ext_idx) % U32) + ext_pos + s.by)

(* The extent a position falls into: the first it is inside of; its end     *)
(* belongs to the last extent.  Past all of them, none does.                *)
Holds(i, p) ==
  \/ p < Before(i + 1)
  \/ p = Before(i + 1) /\ i + 1 = Len(extents)

Seek(s) ==
  /\ ~Reading
  /\ LET new_abs == Clamped(Target(s))
         holding == {i \in 0 .. Len(extents) - 1 : Holds(i, new_abs)}
     IN  /\ IF holding = {}
            THEN ext_idx' = Len(extents) /\ ext_pos' = 0
            ELSE \E i \in holding :
                   /\ \A j \in holding : i <= j
                   /\ ext_idx' = i
                   /\ ext_pos' = new_abs - Before(i)
         /\ reply' = At(new_abs)
  /\ buf_start' = NoSector /\ buf_valid' = 0 /\ buf_pos' = 0
  /\ UNCHANGED <<extents, total, sector, want, written>>

ReadSteps == NextExtent \/ Fill \/ FillFails \/ Copy \/ ReadReturn

Next == ReadCall \/ ReadSteps \/ \E s \in Seeks : Seek(s)

Spec == Init /\ [][Next]_vars

(* A call of read runs to its end: nothing else runs in the reader's stead. *)
FairSpec == Spec /\ WF_vars(ReadSteps)

--------------------------------------------------------------------------------

(* The buffer under the cursor is the right sector of the right extent, and *)
(* its cursor agrees with the extent's: a read never copies from a sector   *)
(* left over from before a seek, a failure or a change of extent, and       *)
(* `buf_valid - buf_pos` never goes below zero.                             *)
BufferFaithful ==
  /\ buf_pos <= buf_valid
  /\ ~AtEnd /\ ext_pos < Extent.size /\ Loaded =>
       /\ sector = Extent.lba + buf_start \div SECTOR
       /\ buf_pos = ext_pos - buf_start
       /\ buf_valid = Lesser(Extent.size - buf_start, SECTOR)

(* The cursor stays inside its extent.                                      *)
CursorInside == IF AtEnd THEN ext_pos = 0 ELSE ext_pos <= Extent.size

(* What seek answers is where the cursor is, however far outside the file   *)
(* the request points and even when `total` has wrapped.                    *)
SeekLands ==
  ~Reading /\ reply.kind = "at" => reply.at = Before(ext_idx) + ext_pos

(* Every call of read comes back.                                           *)
ReadReturns == Reading ~> ~Reading

(* The file as one sequence of bytes, and the reader as a FlatFile over it. *)
FlatBytes ==
  [p \in 1 .. Size |->
     LET i == CHOOSE j \in DOMAIN extents : Before(j - 1) < p /\ p <= Before(j)
         o == p - 1 - Before(i - 1)
     IN  <<extents[i].lba + o \div SECTOR, o % SECTOR>>]

Flat == INSTANCE FlatFile
          WITH file <- FlatBytes,
               pos <- Before(ext_idx) + ext_pos - Len(written),
               Offsets <- {s.by : s \in Seeks}
ImplementsFlatFile == Flat!Spec

(* "Total file size in bytes across all extents": no read returns more      *)
(* bytes than size() says the file has.                                     *)
SizeCoversReads == reply.kind = "data" => Len(reply.bytes) <= total
================================================================================
