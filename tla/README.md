# Models and proofs of iso9660-forensic

TLA+ modules that model the parts of this repository whose order of steps,
failures and shared state decide whether it is right, TLC configurations that
check them on small instances, and TLAPS proofs for every value of the
constants. Paths below are relative to the repository's root; `core` is the
reader, `forensic` the audits built on it.

## The system

An image (`Read + Seek`) is opened by `IsoReader::open`, which detects the
sector mode, looks for sessions, follows the descriptor chain of the last one
and keeps what it found. An opened reader lists directories (`read_dir`), looks
up paths, walks the tree (`walk`, `walk_joliet`, `walk_session`), and hands out
file readers. `IsoVfs` puts a reader behind a mutex and serves it to several
workers; the `forensic` crate runs audits over an opened reader.

| component | state | operations | what makes it hard | what makes it correct |
|---|---|---|---|---|
| opening and sessions, `core/src/lib.rs` | session list, descriptors, SP skip | `open`, `read_session_root_dir`, `walk_session` | chains that run into each other, decoys, truncated images, sources without an end, values kept from one session and used for another | every sound session up to the scan's limit is found and no decoy; what a chain yields does not depend on accidents of order; every call ends |
| directory reading, `core/src/lib.rs`, `dir.rs` | a cursor in the bytes; a chain under construction | `read_dir`: parse, continuation areas, merge | padding, sector boundaries, cut-off chains | it ends; every record once; extents in order and with the right file |
| directory walk, `core/src/lib.rs` | recursion, `visited`, output | `walk_dir` | cycles, shared extents, dangling references, nesting, errors that are swallowed and errors that are not | it ends; all that is reachable is listed, once, in order; errors as documented |
| file reader, `core/src/file_reader.rs` | extent index, position, sector buffer | `read`, `seek` | stale buffers, boundaries, empty extents, errors in mid-read, 32- and 64-bit limits | it is a flat file |
| vfs adapter, `core/src/vfs.rs` | the reader and a cache of records by lba | `read_dir`, `lookup`, `meta`, `read_at`, `read_link`, `extents` | several workers; nodes that share an lba | what was found can be stat'd; nothing is guessed |
| path lookup, `core/src/lib.rs` | none | `find_entry`, `find_path` | names that shadow each other | not modelled |
| whole-file reading, `core/src/lib.rs` | none | `read_file_entry` | an error in the middle | all of the file or an error |
| sector modes, `core/src/sector.rs` | none | `detect`, `read_sector_data`, EDC and ECC | order of probes | not modelled but for the read of one sector |
| offset window, `core/src/offset.rs` | own position, inner position | `new`, `read`, `seek` | casts, an inner seek that fails, a base and a length nobody checked | it is a stream of its own |
| containers, `opener.rs`, `cue.rs`, `toc.rs`, `nrg.rs`, `mds.rs` | none | parse, `open` | chunk walks and block tables over untrusted lengths, sheets whose lines build on each other | what is opened is the first data track declared |
| other containers, `cdi.rs`, `ccd.rs`, `bw5.rs` | none | parse | lengths and terminators | not modelled |
| metadata, `path_table.rs`, `el_torito.rs`, `rock_ridge.rs` | none | pure parsers | scans that stop at what they cannot read | what a scan finds before it stops |
| metadata, `subq.rs`, `cdtext.rs`, `cdtoc.rs`, `pvd.rs`, `session.rs` | none | pure parsers | lengths and terminators | not modelled |
| audits, `forensic/src/lib.rs` | none | path tables, lost files, byte orders, slack, gaps, symlinks, timeline, hash list | one reader call of several fails; what an audit takes for granted of a listing | what is passed over is reported elsewhere; what is recovered is all there is |
| analysis, `forensic/src/analysis.rs` | the findings | `analyse_with_options` | the pipeline's order; overlap sweep; cycle check by path; superseded files; a device that changes between two audits | the report has every overlap, cycle and superseded extent; only what the volume itself names ends it |
| findings, `findings.rs`, `audit.rs` | none | tables and wording | nothing | not modelled |

Components call each other synchronously; the only concurrency is that of
`IsoVfs`'s workers between two of its operations. Nothing is persisted. What is
difficult is the image: any bytes at all, and a device that may fail any read,
or begin to.
`PROJECT.json` lists each hazard at its line, with the property that covers it.

## The modules

### `WalkTree` and `Traversal` -- the directory walk

`Traversal` is what a walk promises: it explores extents, each at most once,
and ends with everything reachable explored or with an error. `WalkTree` is
`walk_dir` with its recursion written out: `stack` holds the frames (lba, size,
records, loop index), `visited`, `out` and `pc` are the code's set, vector and
place. Entering an activation is `EnterSeen` (`!visited.insert`),
`EnterTooDeep`, `EnterRead`, `EnterEof` (the arm of the caller that swallows
`UnexpectedEof`) or `EnterFail`; the loop is `ListFile`, `ListDir`, `Leave`.
`listing` is a history of what was read. An image is a function from
(lba, size) to what `read_dir` answers, so that one lba may answer differently
for two sizes, as it does in the code.

### `FileReader` and `FlatFile` -- streaming a file

`FlatFile` is a sequence of bytes and a position. `FileReader` is
`IsoFileReader`: a read is a sequence of steps (`NextExtent`, `Fill`,
`FillFails`, `Copy`, `ReadReturn`), a seek one action. A byte is named by its
sector and offset, so a byte copied from the wrong sector is another byte.
`U32` and `I64` are the widths of the code's integers; sums wrap.

### `IsoVfs` -- the shared cache

Each operation holds the mutex throughout and is one action; what a worker does
between a lookup and a stat (`handle`, `answer`) is not protected, and other
workers come in between. The cache maps an lba to what some record said.

### `DirRecords` -- reading a directory

The bytes of a directory are cells: at each offset, what `DirRecord::parse`
makes of them there (a zero byte, a record of some length, garbage). `SkipPadding`,
`TakeRecord`, `BadRecord`, `ParseEnd` are `parse_dir_records`; `FollowAreas` the
continuation areas; `PickUp`, `Join`, `Push`, `MergeEnd` the multi-extent merge
with its peeking iterator. A record's extent is named by the record's offset.

### `Sessions` -- opening an image

A sector is what its first bytes make of it. `ScanSector` and `ScanEnd` are
`scan_sessions`; `ChainPvd`, `ChainSvd`, `ChainBoot`, `ChainOther` the arms of
`read_volume_descriptors`; `ChainFails` and `ChainDone` how it ends,
for `open` (`call = 0`) or for a session call on the opened reader; then
`DetectUdf`. The scan and the chain have the code's limits as constants, and
`endless` is a source that never reports its end.

### `SystemUse`, `ImageReader`, `Audits` -- the reader as the audits see it

`SystemUse` is `rock_ridge.rs`: scans of a System Use field, a sequence of
entries, for the entry they look for, up to one that stops them. `ImageReader`
is an image and a device: a sector is a sequence of slots (records, bytes,
padding); `disc` is what is on it, `end` how far it can be read, `len` how far
it says it can (a window a container's table makes too long, see `Opener`), `bad` the
sectors lost. `read_dir` and `walk_dir` are the calls of core with their order
of errors; the tag of a result is `ok` or the error's kind. (`DirRecords` and
`WalkTree` are the same two with all their steps; here they are one call of
many, so a listing is at once.) The recursion of the walk is an agenda: `todo` has
the entries the calls under way have still to list, those of the innermost first;
`Visit` lists the next and, where it is a directory, `EnterWith` puts its entries in
front, or ends the walk; `Passed` is the caller's arm for `UnexpectedEof`. `Tried` is
the code's `?`. A path is one text, as in the code: `Join` puts `SEPARATOR` between two
names, and nothing tells it from one inside a name. An older session is the
descriptors from its own on, up to a terminator or the 4096th; `walk_session` reads
them all again, and the root of each until one has an SP entry
(`read_volume_descriptors`), and walks the root of the last (`root_of`). `WalkFrom` repeats that to the end, which `MaxVisits` bounds. `Audits` has each audit of
`forensic/src/lib.rs` as an operator: a tag, and the hits in order. Where the
code goes through a hash set, the hits ascend. The worklist of the gap audit is
`Claim`, repeated by `Spread`; `GapsUnclaimed` uses the same traversal on the primary
tree, where the code relies on its walk. `Lists` has what the code does with `filter`, `map`
and `sort`, by places of a list and ranks in a set rather than by recursion, so that
proofs can use it.

### `OverlapSweep` and `Analysis` -- the analysis

`OverlapSweep` is the loop over sorted extents with its one covering extent,
for itself, a step for each turn. `Analysis` is `analyse_with_options`: `step`
is the place in `Order`, the calls in the order they are made; an action runs
one audit, `Conclude` keeps its hits or ends the analysis with its error;
`StartSweep`, `Sweep`, `EndSweep` are the overlap sweep inside it, which is
shown to be `OverlapSweep` (the property `SweepSpec`); `Assemble` puts the
report together, in the order of the code, which is not that of discovery.
`SectorGaps`, `Timeline` and `HashList` are calls of their own on the image.
`Decay` is the environment: a sector that could be read cannot any more, at any
point between two audits, and each audit reads the device anew. `skipped` is a
history of what audits and walks left out. `trees`, the walks of the present
state of the device, is kept in a variable so that TLC does not work them out
in each audit; `Settle` fills it in again after `Decay`.

### `Stream`, `OffsetWindow`, `Opener` -- from a path to a stream

`Stream` is what a `Read + Seek` promises. `OffsetWindow` is `OffsetReader`:
`pos` and `ipos` are its own position and that of the file, which each `Read`
and `Seek` moves together; `Target` has the casts of `seek` to 64 signed bits.
`Opener` is `open`: `StartNrg`, `StartMds` and `StartSheet` look at the file and
its header; then the parsers' loops take a step for each turn, a chunk
(`NrgChunk`), a block or the end of a session's blocks (`MdsBlock`, `MdsSession`),
a line (`TocTrack`, `TocFile`, `TocSkip`, `CueFile`, `CueTrack`, `CueSkip`); where
the loop ends, `OpenNrg`, `OpenMds`, `OpenToc`, `OpenCue` or `NoDataTrack` make the
window or fail. `OpenPlain` and `OpenCcd` parse nothing. Then the caller reads and
seeks (`Call`). `at`, `block`, `file` and `tracks` are the loops' own variables. A
plain file is a window of all of it. Chunks and blocks are records at their real
offsets, with their real lengths; a sheet is its lines. What an image declares
(`Declared`, `ExtentOf`) is said without a parser: a chunk is declared if a chain
of chunks leads to it (`Listed`), a block if the session at its index counts it
in, a line's track has the last file lines before the next track, and the track
of a CUE sheet begins at its INDEX 01 and ends where the next one of its file
begins (`CueExtent`), of which the code knows nothing.

`MC*` modules give the constants small values.

## Runs

| run | shows | bounds and why they are enough |
|---|---|---|
| `Walk` | types; no directory is on the recursion's path twice (`PathAcyclic`); no referenced directory is forgotten (`NothingForgotten`, `EveryDirListed`); pre-order (`PreOrder`); errors as documented (`OutcomeJustified`); it implements `Traversal` (`Refines`); it ends (`Terminates`) | every image of three sectors with up to two records each and depth limit 1: self-loops, two-cycles, shared extents, one extent with two sizes, a dangling extent, one over the size limit, and nesting beyond the limit all occur |
| `File` | the reader implements a flat file; its buffer and cursor; every read returns | sectors of two bytes, up to three extents of up to five, buffers of 0, 1, 3 and 6, seeks from each base inside and outside the file: partial last sectors, empty extents and reads across extents occur |
| `Vfs` | the cache's promises, between any two operations of two workers: what is found stays found, what is told comes from a record, and is what the record found says wherever the records that name an extent agree (`StatAnswersFound`) | volumes of a root, a subdirectory and two file extents, with and without sharing, dated and undated; two workers are enough for one to change what the other found |
| `Dir` | the merge keeps every extent, in order and with its file; all records of all sectors are listed; it ends where no sector starts with a zero byte | sectors of three bytes, up to five cells, two names: chains cut off by the end, by another name and by a file of the same name |
| `Sess` | what is found below the scan's limit, kept and listed, and that all calls end | up to four descriptor sectors of any kinds, a scan of three and chains of four: two sessions, a decoy, a cut or damaged root, a session past the scan, a chain past the guard |
| `FileSize` | **violated**: `size()` is a 32-bit sum, and a file of 4 GiB or more reads longer than its size | |
| `DirHangs` | **violated**: a zero byte at a sector boundary is skipped to itself, and `read_dir` never returns | |
| `SessFar` | **violated**: a session past the scan's limit is not found, though the scan is said to go on until the end (`ScansUntilEof`) | one or two sound sessions with their terminators in four sectors, a scan of two |
| `CueTrack` | **violated**: of a CUE sheet the whole file is handed out, not the data track (`WindowsCueTrack`) | the images of `Images` |
| `Analyse` | what an audit or a walk left out in silence is in the report as out of bounds, with three exceptions named (`SkippedIsSurfaced`); an analysis that ends in `UnexpectedEof` does so for something the volume itself names (`EofJustified`); overlaps, cycles, lost files and superseded contents are reported, under the conditions below (`OverlapsReported`, `CyclesFlagged`, `LostComplete`, `OldContentReported`); no sector a directory or the first extent of a file takes is called a gap (`GapsUnclaimed`); the sweep inside the analysis is the one the proof is about (`SweepSpec`) | 125 images of twelve sectors of four slots (those with an older session of sixteen), each varying one matter of one sound image: extents anywhere, cut images, loops, names with a separator, three overlapping files, orphans, older sessions whose chains end, run on, are damaged or have a cut root, second trees, links; directory limit 16 bytes, depth 2; at most one sector lost (`MaxBad`), at any moment |
| `Images` | the window is that of the first data track the container declares, of a CUE sheet where the track has a file to itself, and there is one if its file is there (`OpensDataTrack`); the window is a stream (`ImplementsStream`) | 38 images: tracks after audio tracks, behind unknown chunks, behind the end of the list; cut headers, blocks past the end, missing files; offsets past the file, before the start and past 2^63, which is scaled down to 4096; buffers of 0 and 2, seeks from each base inside, before, past the end and around 2^63 |
| `LostSized` | **violated**: a lost directory is read with the size of its first child, not of its `.` record | |

Deadlock is not checked where a call ends (`Walk`, `Dir`, and `Sess` and
`Images`, where a failed open leaves nothing to call); it is in `File`, `Vfs`
and `Analyse`.

Conditions are part of the properties and not of the runs: `EveryDirListed`
speaks of walks that meet each extent with one size,
`StatAnswersFound` of extents that the directory records naming them describe
alike, whatever their own "." records and the descriptor say (the test
`known_defect_extentless_nodes_share_one_file_id` in `vfs.rs` records what
happens elsewhere), `LaidOutEnds` of directories no sector of which starts with
a zero byte, `EverySectorListed` of records that keep to their sector,
`SessionOwnPvd` and `SoundOpens` of images whose chains have terminators,
`SessionsFound` of what starts before the scan's limit (`SessFar`), `OpensDataTrack`, for CUE sheets, of tracks with a file to themselves
(`CueTrack`), `SkippedIsSurfaced` of devices that say how long they are and not of
directories with a continuation area past the end, `LostComplete` of
lost directories of one sector or with a first child at least their size,
`CyclesFlagged` of trees where no two directories have one path: every directory
inside itself is reported there, and no other where no directory's name holds the
separator (a directory `A/B` beside an `A` of the same extent is in no cycle and is
reported, as the code splits paths at every separator), `GapsUnclaimed`
of roots of one sector and trees that name each directory with one size. Each run has inputs that meet the condition and inputs that do not.

## Fairness

`walk_dir`, `read_dir`, `open` and a call of `read` are synchronous: nothing
else runs in their stead, and each step is a bounded piece of code. Weak
fairness of their steps is all that `Terminates`, `LaidOutEnds`, `CallsEnd` and
`ReadReturns` use; no one is obliged to make another call. `Terminates` takes
each `read_dir` to return, which `LaidOutEnds` shows under its condition and
`DirHangs` refutes without.

## Proofs

`WalkTreeProofs`, for every image, depth limit and size: types; the inductive
invariant `WalkInv`; from it `PathAcyclic`; that no directory is forgotten
(`DirsFollowed`) and, with `RecordsListed`, no record of any kind
(`NothingForgotten`); and that the walk implements `Traversal`. `PathAcyclic` is not inductive: that a frame's lba
is in `visited` (`FramesRead`) is what keeps it from being entered again, and
`CallReferenced` ties the activation just called to a record that was listed,
which `DirsFollowed` needs when it is entered, skipped or swallowed.
Three more properties rest on it, each with a strengthening of its own.
`PreOrder` (`OrderInv`): every frame but the first belongs to a directory already
listed one level up, since when nothing outside that directory was listed.
`OutcomeJustified` (`OutcomeInv`): an activation that iterates is within the depth
limit, one just called at most one beyond. `EveryDirListed` (`ListedInv`) speaks
of finished walks only; what is kept on the way is that an lba entered was read
with a size it was referenced with (`WasRead`), so that where each extent is met
with one size, that is the size of every entry that names it.

`FileReaderProofs`, for every file, sector size and width: types, `CursorInside`
and `BufferFaithful` together are inductive (`ReaderCorrect`): the buffer's
cursor is the extent's cursor less the buffer's start, the buffer holds no more
than the extent has left, and a step that moves one without the other marks the
buffer stale. `SeekAlwaysLands` adds that a seek's answer is where the cursor is,
also for requests beyond 64 bits and for a total that has wrapped: because the
total never exceeds the true size, the last extent always holds the position.

There too: `FileReader` implements `FlatFile` (`ReaderIsFlatFile`), for files
whose size is below the 32-bit limit (`SizesFit`) and requests that stay within
64 bits (`SeeksFit`), which the run `File` keeps to, and beyond which `FileSize`
shows that size and reads disagree. The invariant is `WrittenFaithful`
(`ReadsTheFile`, without those conditions): what a read has copied are the bytes
of the file up to the cursor. `ByteOf` shows that a byte lies in one extent, with
`BeforeMonotone`, proved by the least counterexample; `BufferBytes` that what
follows the cursor in a buffer that is not stale is what follows it in the file.

`IsoVfsProofs`, for any volume, set of workers and names: types; the cache never
forgets; what a worker found can be stat'd; the cache holds only what a record
says. Entries are replaced, so no proof is by their value: `HandlesResolve`
rests on the domain of the cache growing, `CacheFromDisc` on each source of an
entry. The action property `StatAnswersFound` follows from the latter and from
`HandlesFromDisc`: what a worker holds is a directory record of the volume, and its
extent is in the cache with what a directory record says, for a lookup replaces
what a stat by id had put there; where the records that name the extent agree, the
two are the same.

`AnalysisProofs` begins with the sweep, for any number of extents: types, and `OverlapsReported`:
what is noted is a partial overlap, and of every two extents that partially
overlap the later one is noted, or another file with exactly its sectors. The
sweep remembers one extent; the invariant says what that one stands for: it was
passed, and reaches as far as any extent passed. From the order of the extents,
whatever overlaps one passed then overlaps the one remembered or is the same.

`OpenerProofs` begins with the window, for any file, base, length and width: it is
a `Stream`. The invariant is that the two positions differ by the base and both
are positions a file has; `SignedSum` shows that the casts of `seek` are exact
where they matter, and an error where the exact sum would be one.

Then `Opener` itself, for any images and bounds: types; that what is handed out is a
stream (`OpenedIsStream`, each step of `Opener` being one of `OffsetWindow`); and
`OpensDataTrack`. The invariant `ParseInv` says what the loops have come to: either
no track behind the parser holds data, and none is declared there (`NoneFound`),
or the first data track found is the first declared and holds what the image
gives of it so far (`FirstFound`). Each parser needs a strengthening that says its
place is that of the declaration: the chunks passed are a chain that ends at
`at`, and any chain to a chunk further on goes through `at` (`ChainInv`); the file
of a CUE sheet is that of the last file line (`FileInv`); of a CDRDAO track what
the lines so far give, which only the last track's can still change (`StillLast`,
`GivenNext`, `GivenKept`). A session or block that is held means those before it
are (`EarlierSession`, `EarlierBlock`), so a loop that ends at the first that is
not misses none.

`SessionsProofs`, for every image and every bound of the scan and the chains:
types, `SessionsFound` and `JolietPreferred` from the invariant `OpenInv`. While
the scan runs, the list is the candidates among the sectors passed, all of them
readable (`ScanInv`); `NothingBehind` is why stopping at a sector that cannot be
read loses none: an image's sectors are contiguous. While a chain is read, the
cursor is at or past its session's descriptor (`ChainInv`), so that the sectors
read grow by one with each step (`LatestNext`). `SessionOwnPvd` and `SoundOpens`
come from `OwnInv`, for images whose chains have terminators (`Regular`): the
cursor of a chain has its terminator still ahead, with no descriptor and nothing
damaged in between (`OnCourse`), so the root kept is that of the first
descriptor read (`OwnChain`) and the chain cannot fail.

`DirRecordsProofs`, for every directory and sector size: types, and `ChainsWhole`
from `DirInv`. `RoundUpBounds` shows that skipping padding never goes back and
goes less than a sector forward, also where a sector starts with a zero byte: a
type-correct cursor may still stand still, which `DirHangs` shows. Records are
at increasing offsets (`Increasing`), so only one record can follow an extent,
and the extents in hand are the last ones the iterator passed (`InHand`); the
record behind them is then the one peeked at (`OneFollower`). `ExtentsPreserved`
says that entries and extents in hand divide the records into runs; inductive is
that the runs join up at the iterator (`Contiguous`). `EverySectorListed` compares
the parser with where records start by the layout of ECMA-119, a least fixed
point (`RecordStarts`). Its invariant is `Passed`: the cursor has passed exactly
the records listed, and stands at the start of a sector or behind a record of
its sector, so what is under it starts there (`StartsClosed`); and nothing starts
in the body of a record or in padding, for no sector starts there
(`RecordCovers`, `PaddingCovers`) and no record leads into it (`NoStartWithin`).

`ImageReaderProofs` is about the answers of the reader, for every image. The model
repeats a step until it is done; `Repeat` and `RunFacts` say that such a run
exists and what each of its states is to the next, and by `Induction` what holds of
the first state and is kept by a step holds of the last. Thus: each entry listed comes
from a directory the walk has entered, its path and its ancestors are those of
that entry, and each directory that could be read has its entries in the listing.
`WalkEnds`: the walk is over within `MaxVisits` entries, for a sector is entered
once and a directory that can be read has no more entries than fit into
the size limit (`WalkCount` counts what is listed and what is on the agenda
against the sectors entered). A device that loses sectors only turns answers into
`Io` errors (`Worse`), which no walk passes over: a walk answers as before, or fails
after part of its entries (`WalkStable`).

On this rests `AnalysisProofs`, for every image and every order in which sectors
are lost: all seven invariants of `Analyse`, and that its sweep is
`OverlapSweep`, so that `OverlapsReported` holds of the report as well
(`AnalysisReportsOverlaps`). Each audit is shown by itself to answer well (`Good`):
with a list, with `UnexpectedEof` only where something the volume names lies past
the end (`CutOff`), and with what is said of it below (`Settled`). The inductive
invariant, `AnalysisInv`, is then about the pipeline alone: where it is (`Placed`),
that what has not run has found nothing (`Answered`), that what has run is settled
(`AllSettled`), and that a finished report has under each heading what was found
(`Reporting`). None of the properties is inductive: they speak of a report put
together at the end, from answers given earlier by a device that has changed since.
An older session is walked only after its whole chain was read; a chain that fails
does so because of a sector `Mandatory` has (`ChainFails`), and one that has failed
never succeeds later, though the roots it probes depend on what can be read
(`ChainStable`). Of paths, `JoinAncestors` says what a name adds to the ancestors:
the path itself, and nothing else if it holds no separator.
`AllSettled` is what survives the change: it says, of the walk as the device answers
it now, that each cycle, lost file, superseded content and entry out of bounds
is among the hits; and as sectors are lost, a walk that still succeeds is the one
the audits met (`SettledStable`). `SkippedIsSurfaced` needs besides that what is left
out before the audit of the bounds is an entry of the tree (`Skipped`), so that
this audit meets it. `GapsClear` is about the last call only, the gap audit on an image that does not
change under it: the sectors of each entry of the walk are claimed, and where a
directory has one size, all that a second traversal of the tree (`Spread`) takes is
of such an entry.

The proofs assume what the constants' named assumptions say: positive sector
sizes, a separator that is a text, widths with 2 * U32 <= I64, images that are functions of the stated
type, extents that end after they start, seeks that fit the types of
`SeekFrom` and do not count forwards from the end, and containers whose fields
fit the widths they are read with (`ImagesAssumption`): 64 bits for an offset, 32
for a number of sectors and 16 for their size, a chunk wherever the list leads
and a head fits, and files shorter than 2^63.

Only model-checked, and why:
- all liveness (`Terminates`, `ReadReturns`, `LaidOutEnds`, `CallsEnd`): fairness and ENABLED are beyond the prover;
- that the walk of `ImageReader` is the walk of `WalkTree`, and its `read_dir` the
  one of `DirRecords`: the first are answers, the second steps over other images;
  they are two translations of the same lines, and each is proved about by itself.

## Met while modelling

Besides the five disagreements that runs show; the models have the code's
behaviour in each.

Against a comment of the code, and with no run of its own; the property that
comes nearest leaves the case out by its condition:
- "list its entries once" (`core/src/lib.rs:543`): a directory first named with a
  size that cannot be read is not listed where it is named with its own
  (`EveryDirListed`);
- "the unreadable extent is surfaced separately" (`core/src/lib.rs:565`): a
  directory passed over because one continuation area lies past the end is inside
  the image, and nowhere in the report (`SkippedIsSurfaced`);
- "reads that session's own PVD" (`core/src/lib.rs:511`): where a session has no
  terminator of its own, the root is that of a later one (`SessionOwnPvd`);
- "trim pre-SUSP padding bytes" (`core/src/lib.rs:375`): a session is read with the
  skip of the session that was opened, its own being discarded (`lib.rs:346`,
  `lib.rs:526`; the `skip` of an answer, of which no property speaks);
- "retained as a fallback for malformed or truncated-image diagnostics"
  (`core/src/lib.rs:649`): an image whose only root is cut off does not open
  (`lib.rs:814`; `SoundOpens` speaks of images with a sound session);
- "None (no timestamp) goes last" (`forensic/src/lib.rs:466`): it goes first
  (`timeline`, of which no property speaks).

In core:
- any later type 0 sector of the chain resets the boot catalog (`lib.rs:833`);
- a root directory whose name is empty gives its children paths of root level
  (`lib.rs:560`);
- a CloneCD image opens the whole data file, though `open` is said
  to return a stream "positioned to read the ISO 9660 volume" (`opener.rs:7`),
  which holds when the data track comes first;
- a second or third session whose chain runs on, is damaged, or has a descriptor
  with a cut root before one with an SP entry fails `walk_session` (`lib.rs:814`),
  and the analysis with it (`analysis.rs:475`);
- windows of Nero and Alcohol tracks may reach past the end of the file
  (`opener.rs:55`, `opener.rs:66`): seeking to the end answers a size that
  cannot be read. An Alcohol track without an extra block opens as an empty
  window (`mds.rs:199`), a CDRDAO track with two file lines keeps the first
  one's offset for the second one's file (`toc.rs:148`).

In forensic:
- the report is said to be "in discovery order" (`analysis.rs:87`); it is put
  together in another order at the end;
- the gap audit claims one sector of the root, none of a file's further
  extents (`lib.rs:515`); of a directory that is named with two sizes, the files
  that only the larger one reaches may be called gaps, as what is claimed is what
  the walk lists, once, with the size it meets first (`lib.rs:538`);
- the byte-order audit looks at the first sector of each directory only, and
  always at sector 16, not at the active session's descriptor (`lib.rs:252`);
- a path table, a phantom directory, an older session or a boot catalog past
  the end of the image ends the whole analysis in an error, one dangling file
  the hash list;
- a top-level directory with an empty name is reported as a cycle
  (`analysis.rs:404`), as is a directory `A/B` beside an `A` of
  the same extent (`analysis.rs:411`);
- the bounds audit does not look at a file's further extents.

## Not modelled

- Path lookup: `find_entry` and `find_path` keep nothing; `IsoVfs` does its own
  lookup, which is modelled.
- Sector mode detection, EDC and ECC; Q frames and their CRC: arithmetic over
  bytes, with tables, which unit tests reach better than a model checker.
- The containers `open` does not resolve (`cdi.rs`, the control file of
  `ccd.rs`, `bw5.rs`), disc text and the table of contents: single passes whose
  result no other part uses.
- The bytes of a field: which offset of a record, table or entry a value is
  read from, text encodings, dates.
- Extents that reach sector 2^32 - 1, where the sums of the overlap sweep saturate
  (`analysis.rs:440`).
- Where a read that fails leaves the cursor of a file: the model moves it as the
  code does and the contract leaves it open, as nothing in the repository says.
- What `read_dir` answers for the root of a session call, in `Sessions`:
  `DirRecords` and `ImageReader` have it.
- Wording and severities of findings; the fuzz and test code.

What would come next: the control files of CloneCD and the chunk walk of
`DiscJuggler` images beside that of Nero's; and `ImageReader`'s walk as the last state
of `WalkTree`'s.
