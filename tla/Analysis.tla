-------------------------------- MODULE Analysis --------------------------------
(***************************************************************************)
(* analyse_with_options (forensic/src/analysis.rs): the audits run one       *)
(* after the other over an opened image, on a device that may lose sectors  *)
(* on the way, and the report made of what they find.  Every audit walks    *)
(* the tree again.                                                          *)
(***************************************************************************)
EXTENDS Audits, OverlapSweep

CONSTANTS Images,    \* the images analysed
          MaxBad,    \* how many sectors the device may lose
          CHUNK      \* the sectors past the volume read at once, 32

ASSUME ImagesAssumption == \A i \in Images : IsImage(i)
ASSUME ChunkAssumption  == CHUNK \in Nat \ {0}

VARIABLES step,      \* the audit to run next, a position in Order
          status,    \* "running", "ok", the error returned, "hangs", or how a
                     \* later call of the caller's ended
          found,     \* audit |-> what it found
          report,    \* the anomalies of the analysis, in order
          skipped    \* history: the entries left out because of an UnexpectedEof
vars == <<image, bad, trees, sweepVars, step, status, found, report, skipped>>

Order == <<"boot", "identity", "endian", "slack", "presystem", "symlinks", "lost",
           "pathtable", "ptendian", "reserved", "names", "versions", "rrtime", "disguised",
           "cycles", "overlaps", "superseded", "bounds", "times", "trees", "trailing",
           "sectors">>

(* What a caller may ask for besides the analysis.                          *)
Calls == {"gaps", "timeline", "hashes"}

(* The order of the report is not that of discovery.                        *)
Sections ==
  <<"endian", "slack", "presystem", "symlinks", "pathtable", "ptendian", "lost",
    "times", "trees", "bounds", "superseded", "reserved", "overlaps", "cycles", "names",
    "disguised", "rrtime", "versions", "trailing", "sectors">>

Running == status = "running"
Errors  == {"eof", "io", "bad", "limit", "hangs"}

TypeOK ==
  /\ image \in Images
  /\ bad \subseteq 0 .. image.end - 1
  /\ SweepTypeOK
  /\ step \in 1 .. Len(Order) + 1
  /\ status \in {"running", "ok", "served", "refused"} \union Errors
  /\ DOMAIN found = Range(Order) \union Calls
  /\ \A i \in step .. Len(Order) : found[Order[i]] = <<>>
  /\ \A i \in DOMAIN report : report[i][1] \in Range(Sections)
  /\ \A e \in skipped : e.path \in Seq(STRING) /\ e.rec.kind = "rec"

Init ==
  /\ image \in Images
  /\ bad = {} /\ trees = None
  /\ SweepInit
  /\ step = 1 /\ status = "running"
  /\ found = [s \in Range(Order) \union Calls |-> <<>>]
  /\ report = <<>> /\ skipped = {}

(* The device loses a sector for good.                                      *)
Decay ==
  /\ status \in {"running", "ok"}
  /\ Cardinality(bad) < MaxBad
  /\ \E l \in 0 .. image.end - 1 : l \notin bad /\ bad' = bad \union {l}
  /\ UNCHANGED <<image, sweepVars, step, status, found, report, skipped>>
  /\ trees' = None

(* No step of the program: the others wait for it.                          *)
Settle ==
  /\ trees = None /\ trees' = Walks
  /\ UNCHANGED <<image, bad, sweepVars, step, status, found, report, skipped>>

At(name) == Running /\ trees # None /\ step <= Len(Order) /\ Order[step] = name

(* An audit ends: its error is that of the whole analysis.                  *)
Conclude(name, result) ==
  IF result.tag = "ok"
  THEN /\ step' = step + 1
       /\ found' = [found EXCEPT ![name] = result.hits]
       /\ UNCHANGED status
  ELSE /\ status' = result.tag
       /\ UNCHANGED <<step, found>>

Run(name, result) ==
  /\ At(name)
  /\ Conclude(name, result)
  /\ UNCHANGED <<image, bad, trees, sweepVars, report, skipped>>

--------------------------------------------------------------------------------
(* Provenance.                                                              *)

(* A boot image that cannot be read has no hash.                            *)
Hashable(b) == b.sectors > 0 /\ RunTag(b.lba, b.sectors) = "ok"

BootEntries ==
  Run("boot", [boot_entries EXCEPT !.hits = Each(@, LAMBDA b : <<b, Hashable(b)>>)])

(* The owners, and the times between which the files were recorded.         *)
identity(out) ==
  LET owners == {posix_attrs(e.rec.su) : e \in Range(out)} \ {None}
      stamps == {e.rec.stamp.utc : e \in {d \in Range(out) : IsFile(d) /\ d.rec.stamp # None}}
  IN  <<owners, IF stamps = {} THEN None ELSE <<Min(stamps), Max(stamps)>>>>

Identity == Run("identity", OverWalk(identity))

--------------------------------------------------------------------------------
(* The audits of Audits, in the order they are called.                      *)

BothEndian ==
  /\ At("endian")
  /\ Conclude("endian", audit_both_endian)
  /\ skipped' = skipped \union active.skipped \union EndianSkipped
  /\ UNCHANGED <<image, bad, trees, sweepVars, report>>

FileSlack ==
  /\ At("slack")
  /\ Conclude("slack", audit_file_slack)
  /\ skipped' = skipped \union SlackSkipped
  /\ UNCHANGED <<image, bad, trees, sweepVars, report>>

PreSystem       == Run("presystem", audit_pre_system)
Symlinks        == Run("symlinks", audit_symlinks)
LostFiles       == Run("lost", recover_lost_files)
PathTable       == Run("pathtable", audit_path_table)
PathTableEndian == Run("ptendian", audit_path_table_endian)

(* The unused bytes of the active session's descriptor: its last slot.      *)
reserved ==
  LET pvd == image.pvd
  IN  IF ReadTag(pvd) # "ok" THEN Err(ReadTag(pvd))
      ELSE Ok(IF Slots(pvd)[SECTOR] = Free THEN <<>> ELSE <<pvd>>)

ReservedFields == Run("reserved", reserved)

--------------------------------------------------------------------------------
(* Names, versions, times and contents.                                     *)

(* A name without its version.                                              *)
norm(name) ==
  LET semis == {i \in DOMAIN name : name[i] = ";"}
  IN  IF semis = {} THEN name ELSE SubSeq(name, 1, Max(semis) - 1)

(* The Rock Ridge name of the first file of the primary tree that has one   *)
(* and starts at the sector.                                                *)
RockRidgeAt(out, lba) ==
  LET named == Pick(out, LAMBDA e : /\ IsFile(e) /\ e.rec.lba = lba
                                    /\ alternate_name(e.rec.su) # None)
  IN  IF named = <<>> THEN None ELSE alternate_name(named[1].rec.su)

name_divergence ==
  IF image.joliet = None THEN Ok(<<>>)
  ELSE IF FirstFailure(<<active.tag, trees.joliet.tag>>) # "ok"
  THEN Err(FirstFailure(<<active.tag, trees.joliet.tag>>))
  ELSE LET Diverges(e) ==
             LET rr == RockRidgeAt(active.out, e.rec.lba)
             IN  IsFile(e) /\ rr # None /\ norm(rr) # norm(e.rec.wide)
       IN  Ok(Pick(trees.joliet.out, Diverges))

NameDivergence == Run("names", name_divergence)

Versions ==
  Run("versions", OverWalk(LAMBDA out :
    Pick(out, LAMBDA e : IsFile(e) /\ e.rec.version \notin {None, 1})))

(* The record's own time against the TF entry's, to the minute.             *)
TimesDiffer(rec) ==
  LET tf == timestamps(rec.su)
  IN  rec.stamp # None /\ tf # None /\ tf.modify # None /\ tf.modify # rec.stamp.minute

RockRidgeTimes ==
  Run("rrtime", OverWalk(LAMBDA out : Pick(out, LAMBDA e : IsFile(e) /\ TimesDiffer(e.rec))))

(* A document whose first sector starts like a program; one that cannot be  *)
(* read is passed over, whatever the error.                                 *)
Disguises(e) ==
  /\ IsFile(e) /\ e.rec.size > 0 /\ e.rec.doc
  /\ ReadTag(e.rec.lba) = "ok" /\ Slots(e.rec.lba)[1] = Magic

Disguised == Run("disguised", OverWalk(LAMBDA out : Pick(out, Disguises)))

--------------------------------------------------------------------------------
(* Directory cycles.  The extents are looked up by path, the root's path    *)
(* being empty; of two directories with one path, the later stays.          *)

LbaAt(out, path) ==
  LET named == {i \in DOMAIN out : out[i].rec.dir /\ out[i].path = path}
  IN  IF named # {} THEN out[Max(named)].rec.lba
      ELSE IF path = <<>> THEN image.root.lba ELSE None

(* The paths of the ancestors of a directory: the parts of the path before   *)
(* its separators, and the empty one.                                       *)
Separators(path) == {k \in DOMAIN path : path[k] = SEPARATOR}

(* Mutant: the directory itself counts as one of its ancestors.              *)
AncestorPathsAndSelf(path) ==
  {<<>>, path} \union {SubSeq(path, 1, k - 1) : k \in Separators(path)}

AncestorPaths(path) == {<<>>} \union {SubSeq(path, 1, k - 1) : k \in Separators(path)}

CyclesBack(out, e) ==
  e.rec.dir /\ \E p \in AncestorPaths(e.path) : LbaAt(out, p) = e.rec.lba

Cycles == Run("cycles", OverWalk(LAMBDA out : Pick(out, LAMBDA e : CyclesBack(out, e))))

--------------------------------------------------------------------------------
(* Overlapping extents: those of the files, sorted, go through the sweep.    *)
(* Sectors at 2^32 - 1, where the sums saturate, are left out.              *)

Ext(out, i) == [start |-> out[i].rec.lba,
                end   |-> out[i].rec.lba + SectorsOf(out[i].rec.size), path |-> i]

WithData(out) == {i \in DOMAIN out : IsFile(out[i]) /\ out[i].rec.size > 0}

(* Mutant: the extents are swept in the order of the listing.                *)
ExtentsOfListed(out) == Each(Ascending(WithData(out)), LAMBDA i : Ext(out, i))

ExtentsOf(out) == InOrder({Ext(out, i) : i \in WithData(out)}, Before)

StartSweep ==
  /\ At("overlaps") /\ exts = <<>>
  /\ IF active.tag # "ok"
     THEN status' = active.tag /\ UNCHANGED <<sweepVars, step>>
     ELSE /\ exts' = ExtentsOf(active.out)
          /\ step' = IF exts' = <<>> THEN step + 1 ELSE step
          /\ UNCHANGED <<at, cover, overlaps, status>>
  /\ UNCHANGED <<image, bad, trees, found, report, skipped>>

Sweep ==
  /\ At("overlaps")
  /\ SweepStep
  /\ UNCHANGED <<image, bad, trees, step, status, found, report, skipped>>

EndSweep ==
  /\ At("overlaps") /\ exts # <<>> /\ at = Len(exts)
  /\ LET later == Ascending({p[1] : p \in overlaps})
         Pair(i) == <<exts[i], exts[CHOOSE c \in DOMAIN exts : <<i, c>> \in overlaps]>>
     IN  Conclude("overlaps", Ok(Each(later, Pair)))
  /\ UNCHANGED <<image, bad, trees, sweepVars, report, skipped>>

--------------------------------------------------------------------------------
(* Older sessions.                                                          *)

(* Mutant: a path of the active tree is looked up among its directories too. *)
ActiveAtAny(out, path) ==
  LET named == {i \in DOMAIN out : out[i].path = path}
  IN  IF named = {} THEN None ELSE out[Max(named)].rec.lba

(* Where the active tree has the path, as a file; the last of several.      *)
ActiveAt(out, path) ==
  LET named == {i \in DOMAIN out : IsFile(out[i]) /\ out[i].path = path}
  IN  IF named = {} THEN None ELSE out[Max(named)].rec.lba

Status(e) ==
  LET live == ActiveAt(active.out, e.path)
  IN  IF live = None THEN "deleted" ELSE IF live # e.rec.lba THEN "replaced" ELSE "live"

superseded ==
  LET old  == image.older
      tags == <<active.tag>> \o Each(trees.older, LAMBDA t : t.tag)
      Gone(i) == Each(Pick(trees.older[i].out, LAMBDA e : IsFile(e) /\ Status(e) # "live"),
                      LAMBDA e : <<i, e, Status(e)>>)
  IN  IF old = <<>> THEN Ok(<<>>)
      ELSE IF FirstFailure(tags) # "ok" THEN Err(FirstFailure(tags))
      ELSE Ok(FlattenSeq([i \in DOMAIN old |-> Gone(i)]))

Superseded == Run("superseded", superseded)

--------------------------------------------------------------------------------
(* Bounds, dates and the two trees.                                         *)

(* Mutant: only where an extent starts is looked at.                         *)
StartOutOfBounds(e) == e.rec.size # 0 /\ e.rec.lba >= image.len

OutOfBounds(e) ==
  /\ e.rec.size # 0
  /\ \/ e.rec.lba >= image.len
     \/ e.rec.lba + SectorsOf(e.rec.size) > image.len

Bounds == Run("bounds", OverWalk(LAMBDA out : Pick(out, OutOfBounds)))

(* Files recorded after the volume was, and a volume in several time zones; *)
(* before them, dates of the volume outside the era of optical discs.       *)
times(out) ==
  LET stamped == Pick(out, LAMBDA e : IsFile(e) /\ e.rec.stamp # None)
      zones   == {image.created.zone} \union {e.rec.stamp.zone : e \in Range(stamped)}
  IN  image.odd_dates \o Pick(stamped, LAMBDA e : e.rec.stamp.utc > image.created.utc)
        \o (IF Cardinality(zones) > 1 THEN <<zones>> ELSE <<>>)

Times == Run("times", IF image.created = None THEN Ok(image.odd_dates) ELSE OverWalk(times))

(* The extents of the files of a tree with something in them.               *)
Starts(out) == {e.rec.lba : e \in {d \in Range(out) : IsFile(d) /\ d.rec.size > 0}}

tree_divergence ==
  IF image.joliet = None THEN Ok(<<>>)
  ELSE IF FirstFailure(<<active.tag, trees.joliet.tag>>) # "ok"
  THEN Err(FirstFailure(<<active.tag, trees.joliet.tag>>))
  ELSE LET p == Starts(active.out)  j == Starts(trees.joliet.out)
       IN  Ok(Each(Ascending(p \ j), LAMBDA l : <<"primary-only", l>>)
                \o Each(Ascending(j \ p), LAMBDA l : <<"joliet-only", l>>))

Trees == Run("trees", tree_divergence)

--------------------------------------------------------------------------------
(* The raw bytes.                                                           *)

(* A raw sector starts with a sync pattern, so is never all zeros.          *)
Nonzero(l) == image.raw \/ \E i \in 1 .. SECTOR : Slots(l)[i] # Free

(* The sectors past the volume, CHUNK at a time, up to a chunk with a byte   *)
(* in it.  A chunk with a sector that cannot be read is an error, whatever  *)
(* else is in it.                                                           *)
trailing_has_nonzero ==
  LET Chunk(i)  == [k \in 1 .. Lesser(CHUNK, image.len - (image.space + i * CHUNK))
                      |-> image.space + i * CHUNK + k - 1]
      TagOf(i)  == FirstFailure(Each(Chunk(i), ReadTag))
      Stops(i)  == TagOf(i) # "ok" \/ \E l \in Range(Chunk(i)) : Nonzero(l)
      stops     == {i \in 0 .. image.len : image.space + i * CHUNK < image.len /\ Stops(i)}
  IN  IF stops = {} THEN Ok(<<>>)
      ELSE IF TagOf(Min(stops)) # "ok" THEN Err(TagOf(Min(stops)))
      ELSE Ok(<<image.space>>)

Trailing == Run("trailing", trailing_has_nonzero)

(* The checksums of raw sectors, up to the first that cannot be read.       *)
edc_ecc ==
  LET unread == {l \in 0 .. image.len - 1 : ReadTag(l) # "ok"}
      upto   == IF unread = {} THEN image.len ELSE Min(unread)
      Wrong(which, S) == LET w == {l \in S : l < upto}
                         IN  IF w = {} THEN <<>> ELSE <<<<which, Cardinality(w), Min(w)>>>>
  IN  IF image.raw THEN Ok(Wrong("edc", image.wrong_edc) \o Wrong("ecc", image.wrong_ecc))
      ELSE Ok(<<>>)

Sectors == Run("sectors", edc_ecc)

Assemble ==
  /\ Running /\ trees # None /\ step = Len(Order) + 1
  /\ report' = FlattenSeq([i \in DOMAIN Sections |->
                 Each(found[Sections[i]], LAMBDA hit : <<Sections[i], hit>>)])
  /\ status' = "ok"
  /\ UNCHANGED <<image, bad, trees, sweepVars, step, found, skipped>>

--------------------------------------------------------------------------------
(* Calls of their own, on the image analysed; one of them stands for each.   *)

Serve(name, result) ==
  /\ status = "ok" /\ trees # None
  /\ status' = IF result.tag = "ok" THEN "served" ELSE "refused"
  /\ found' = [found EXCEPT ![name] = result.hits]
  /\ UNCHANGED <<image, bad, trees, sweepVars, step, report, skipped>>

SectorGaps == Serve("gaps", audit_sector_gaps)
Timeline   == Serve("timeline", timeline)
HashList   == Serve("hashes", hashlist)

(* The calls have returned, or never will.                                  *)
Over == status \notin {"running", "ok"} /\ UNCHANGED vars

Next ==
  \/ Decay \/ Settle
  \/ BootEntries \/ Identity
  \/ BothEndian \/ FileSlack \/ PreSystem \/ Symlinks \/ LostFiles \/ PathTable
  \/ PathTableEndian \/ ReservedFields
  \/ NameDivergence \/ Versions \/ RockRidgeTimes \/ Disguised \/ Cycles
  \/ StartSweep \/ Sweep \/ EndSweep
  \/ Superseded \/ Bounds \/ Times \/ Trees \/ Trailing \/ Sectors
  \/ Assemble
  \/ SectorGaps \/ Timeline \/ HashList
  \/ Over

Spec == Init /\ [][Next]_vars

--------------------------------------------------------------------------------
(* Properties.                                                              *)

Reports(section) == {report[i][2] : i \in {j \in DOMAIN report : report[j][1] = section}}

Analysed == status \in {"ok", "served", "refused"} /\ trees # None

(* The sectors of continuation areas past the end of the image among those a *)
(* directory takes for its listing.                                         *)
RecordsIn(extent) ==
  UNION {Range(Used(l, SECTOR)) :
           l \in {k \in extent.lba .. extent.lba + SectorsOf(extent.size) - 1 : k < image.end}}

AreaRead(area) ==
  LET ce == continuation(area) IN IF ce = None \/ ~ce.fits THEN {} ELSE {ce.lba}

AreasPastEnd(extent) ==
  {l \in UNION {AreaRead(Trimmed(r.su)) : r \in {s \in RecordsIn(extent) : s.kind = "rec"}} :
     l >= image.end}

(* "The unreadable extent is surfaced separately", say lib.rs and the walk   *)
(* of what they leave out for an UnexpectedEof: every such entry is in the  *)
(* report as out of bounds.  Three are not: an empty one; against the       *)
(* comment at lib.rs:565-568, a directory that is inside the image, but not *)
(* a continuation area of it; and, on a device that says it is longer than  *)
(* it is, one before the end that it says.                                  *)
SkippedIsSurfaced ==
  Analysed /\ image.len = image.end =>
    \A e \in skipped :
      \/ e \in Reports("bounds")
      \/ e.rec.size = 0
      \/ e.rec.dir /\ AreasPastEnd(e.rec) # {}

(* What every analysis must read: the descriptors, tables, catalog and roots *)
(* the volume names, the directories of its path table that the tree has    *)
(* not, and the sectors behind the volume; of an older session, the whole   *)
(* chain of descriptors, and a sector of the root of each primary one.      *)
Reach(extent) ==
  (extent.lba .. extent.lba + SectorsOf(extent.size) - 1) \union AreasPastEnd(extent)

Roots == {image.root} \union {root_of(s) : s \in Range(image.older)}
           \union (IF image.joliet = None THEN {} ELSE {image.joliet})

ChainSectors(s) ==
  (s.pvd .. s.pvd + Len(s.chain) - 1) \union {s.chain[k].root.lba : k \in Pvds(s.chain)}

PhantomExtents ==
  {[lba |-> l, size |-> n] : l \in Phantoms(active.out),
     n \in {SECTOR} \union {r.size : r \in UNION {Range(read_dir(p, SECTOR).recs) : p \in Phantoms(active.out)}}}

Mandatory ==
  (0 .. SYSTEM_AREA) \union {image.pvd} \union (UNION {ChainSectors(s) : s \in Range(image.older)})
    \union (IF image.catalog = None THEN {} ELSE {image.catalog})
    \union TableRun(image.l_table) \union TableRun(image.m_table)
    \union (UNION {Reach(x) : x \in Roots \union PhantomExtents})
    \union (image.space .. image.len - 1)

(* An analysis that ends in an UnexpectedEof does so because something the   *)
(* volume names itself is cut off: never because of where an entry of its   *)
(* tree points, be it a file's data or a directory.                         *)
EofJustified == status = "eof" => \E l \in Mandatory : l >= image.end

(* Where no two directories have one path, every directory that lies inside  *)
(* itself is reported as a cycle; where no directory's name contains the     *)
(* separator either, no other is, though they are found by their paths.     *)
PathsDiffer(out) ==
  LET dirs == {i \in DOMAIN out : out[i].rec.dir}
  IN  \A i \in dirs : out[i].path # <<>> /\ \A j \in dirs : i # j => out[i].path # out[j].path

NoSeparator(out) == \A e \in Range(out) : e.rec.dir => SEPARATOR \notin Range(NameOf(e.rec))

InsideItself(out) == {e \in Range(out) : e.rec.dir /\ e.rec.lba \in Range(e.up)}

CyclesFlagged ==
  Analysed /\ active.tag = "ok" /\ PathsDiffer(active.out) =>
    /\ InsideItself(active.out) \subseteq Reports("cycles")
    /\ NoSeparator(active.out) => Reports("cycles") = InsideItself(active.out)

(* A directory of the path table that the tree does not reach loses no file, *)
(* when its first entry is at least as large as it is.                      *)
OwnSize(dir_lba) == Slots(dir_lba)[1].size

FilesLost(dir_lba) ==
  {<<dir_lba, r>> : r \in {x \in Range(read_dir(dir_lba, OwnSize(dir_lba)).recs) : ~x.dir}}

Sized(dir_lba) ==
  LET recs == read_dir(dir_lba, SECTOR).recs
  IN  recs # <<>> /\ recs[1].size >= OwnSize(dir_lba)

LostComplete ==
  Analysed /\ active.tag = "ok" =>
    \A p \in Phantoms(active.out) :
      OwnSize(p) <= SECTOR \/ Sized(p) => FilesLost(p) \subseteq Reports("lost")

(* "Reads each phantom directory extent (sized from its own `.` record)".    *)
LostSized ==
  Analysed /\ active.tag = "ok" =>
    \A p \in Phantoms(active.out) : FilesLost(p) \subseteq Reports("lost")

(* Data of an older session that no file of the active tree starts at is     *)
(* reported, whatever became of its path.                                   *)
OldContentReported ==
  Analysed /\ active.tag = "ok" =>
    \A i \in DOMAIN image.older :
      \A e \in Range(trees.older[i].out) :
        IsFile(e) /\ e.rec.lba \notin {f.rec.lba : f \in {g \in Range(active.out) : IsFile(g)}} =>
          \E why \in {"deleted", "replaced"} : <<i, e, why>> \in Reports("superseded")

(* One directory to a sector: what starts where the root or a directory of   *)
(* the tree starts is of its size.                                          *)
OneSizeEach(out) ==
  LET dirs == {image.root} \union {e.rec : e \in {d \in Range(out) : d.rec.dir}}
  IN  \A d, e \in dirs : d.lba = e.lba => d.size = e.size

(* The gap audit calls no sector unclaimed that a directory or the first     *)
(* extent of a file takes, in a tree whose root has one sector.             *)
GapsUnclaimed ==
  status = "served" /\ active.tag = "ok" /\ image.root.size <= SECTOR
    /\ OneSizeEach(active.out) =>
      {g[1] : g \in Range(found["gaps"])} \intersect Spread(image.root) = {}
================================================================================
