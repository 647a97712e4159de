--------------------------------- MODULE Opener ---------------------------------
(***************************************************************************)
(* `open` (core/src/opener.rs): from the path of an image, in whichever      *)
(* container, to a stream over its data track; and the calls made to that   *)
(* stream.  A file is named by its extension, the basename being the same.  *)
(* The parsers are their loops: a step takes a chunk of an NRG image, a     *)
(* block of an MDS image, a line of a sheet.                                *)
(*                                                                          *)
(* An image is [ext, files, content]: the extension asked for, the lengths  *)
(* of the files there are, and what the one asked for holds:                *)
(*   nrg       [footer, chunks]: the version and trailer offset at the end  *)
(*             of the file, or None, and the chunks by their place;         *)
(*   mds       [signature, count, first, session, track, extra]: the        *)
(*             header, and the three sorts of blocks by their place;        *)
(*   toc, cue  the lines.                                                   *)
(* Reads of a container that fail inside its length are left out.           *)
(***************************************************************************)
EXTENDS OffsetWindow, Sequences

CONSTANTS Images,
          MAX_CHUNK,    \* largest chunk of an NRG image taken in
          MAX_BLOCKS    \* most sessions, and blocks of one, of an MDS image

VARIABLES image,
          outcome,   \* "closed", "parsing", "open", or the error `open` returned
          at,        \* the parser's place: an offset in an NRG image, the number of an
                     \* MDS session, how many lines of a sheet are taken
          block,     \* the number of a block of that session
          file,      \* the file a CUE sheet has named last
          tracks     \* the tracks found so far
parserVars == <<at, block, file, tracks>>
vars == <<image, outcome, parserVars, windowVars>>

Exists(name)  == name \in DOMAIN image.files
length        == image.files[image.ext]
Parsing(ext)  == outcome = "parsing" /\ image.ext = ext

Fail(e) == outcome' = e /\ UNCHANGED <<image, parserVars, windowVars>>

Begin(place) ==
  /\ outcome' = "parsing" /\ at' = place
  /\ UNCHANGED <<image, block, file, tracks, windowVars>>

(* The file is opened and positioned, which fails at 2^63 and beyond.        *)
HandOut(name, base, len) ==
  /\ IF Exists(name) /\ base < I64
     THEN /\ outcome' = "open"
          /\ New([file |-> name, flen |-> image.files[name], base |-> base, len |-> len])
     ELSE outcome' = "io" /\ UNCHANGED windowVars
  /\ UNCHANGED <<image, parserVars>>

--------------------------------------------------------------------------------
(* Nero: nrg.rs.                                                            *)

CHUNK_HEAD == 8
FooterLen(c) == IF c.footer.version = "V2" THEN 12 ELSE 8

(* The header and the subblock of the chunks with tracks.                   *)
Layout(id) ==
  CASE id = "DAOX" -> [head |-> 22, sub |-> 42]
    [] id = "DAOI" -> [head |-> 22, sub |-> 30]
    [] id = "ETN2" -> [head |-> 0, sub |-> 32]
    [] id = "ETNF" -> [head |-> 0, sub |-> 20]

HasTracks(chunk) ==
  chunk.id \in {"DAOX", "DAOI", "ETN2", "ETNF"} /\ chunk.size >= Layout(chunk.id).head

(* The whole subblocks of the chunk.                                        *)
TrackCount(chunk) ==
  IF HasTracks(chunk) THEN (chunk.size - Layout(chunk.id).head) \div Layout(chunk.id).sub ELSE 0

(* Mutant: the end of a track is not held to be behind its start.            *)
TrackLengthUnchecked(sub) == sub.end - sub.start

TrackLength(sub) == LeftOf(sub.end, sub.start)

(* parse_dao, parse_etn.                                                     *)
ChunkTracks(chunk) ==
  [i \in 1 .. TrackCount(chunk) |->
     [code |-> chunk.subs[i].code, start |-> chunk.subs[i].start,
      size |-> IF Layout(chunk.id).head > 0 THEN TrackLength(chunk.subs[i])
               ELSE chunk.subs[i].size]]

Behind(c, p) == p + CHUNK_HEAD + c.chunks[p].size

(* A chunk before the footer, not the END!, not too large to be true, and    *)
(* not said to end past the file.                                           *)
InList(c, len, p) ==
  /\ p + CHUNK_HEAD <= len - FooterLen(c)
  /\ c.chunks[p].id # "END!" /\ c.chunks[p].size <= MAX_CHUNK /\ Behind(c, p) <= len

StartNrg ==
  /\ outcome = "closed" /\ image.ext = "nrg"
  /\ IF ~Exists("nrg") THEN Fail("io")
     ELSE IF image.content.footer = None \/ image.content.footer.offset >= length
          THEN Fail("NotAnIso")
          ELSE Begin(image.content.footer.offset)

NrgChunk ==
  /\ Parsing("nrg") /\ InList(image.content, length, at)
  /\ tracks' = tracks \o ChunkTracks(image.content.chunks[at])
  /\ at' = Behind(image.content, at)
  /\ UNCHANGED <<image, outcome, block, file, windowVars>>

NrgEnds == Parsing("nrg") /\ ~InList(image.content, length, at)

NrgDataCodes == {0, 2, 3, 5, 6, 15, 17}

NrgIsData(t) == t.code \in NrgDataCodes

--------------------------------------------------------------------------------
(* Alcohol 120%: mds.rs.  Mode bytes named one by one there agree with what  *)
(* their last three bits say.                                               *)

HEADER_LEN        == 88
SESSION_BLOCK_LEN == 24
TRACK_BLOCK_LEN   == 80
EXTRA_LEN         == 8

(* Session i and its block j: their place, and whether they are counted and  *)
(* in the file to their end.                                                *)
SessionAt(c, i) == c.first + i * SESSION_BLOCK_LEN
SessionIn(c, len, i) ==
  i < Lesser(c.count, MAX_BLOCKS) /\ SessionAt(c, i) + SESSION_BLOCK_LEN <= len

BlockAt(c, i, j) == c.session[SessionAt(c, i)].first + j * TRACK_BLOCK_LEN
BlockIn(c, len, i, j) ==
  /\ j < Lesser(c.session[SessionAt(c, i)].count, MAX_BLOCKS)
  /\ BlockAt(c, i, j) + TRACK_BLOCK_LEN <= len

read_extra_length(p) ==
  IF p = 0 \/ p + EXTRA_LEN > length THEN 0 ELSE image.content.extra[p]

(* Mutant: the lead-in and lead-out are tracks.                              *)
IsTrackAny(b) == TRUE

IsTrack(b) == b.point \in 1 .. 99

MdsTrack(b) ==
  [mode |-> b.mode, size |-> b.size, start |-> b.start, sectors |-> read_extra_length(b.extra)]

StartMds ==
  /\ outcome = "closed" /\ image.ext = "mds"
  /\ IF ~Exists("mds") \/ length < HEADER_LEN THEN Fail("io")
     ELSE IF ~image.content.signature THEN Fail("NotAnIso")
     ELSE Begin(0)

MdsBlock ==
  /\ Parsing("mds")
  /\ SessionIn(image.content, length, at) /\ BlockIn(image.content, length, at, block)
  /\ LET b == image.content.track[BlockAt(image.content, at, block)]
     IN  tracks' = IF IsTrack(b) THEN Append(tracks, MdsTrack(b)) ELSE tracks
  /\ block' = block + 1
  /\ UNCHANGED <<image, outcome, at, file, windowVars>>

(* The blocks of a session end with the first that is not counted or held.   *)
MdsSession ==
  /\ Parsing("mds")
  /\ SessionIn(image.content, length, at) /\ ~BlockIn(image.content, length, at, block)
  /\ at' = at + 1 /\ block' = 0
  /\ UNCHANGED <<image, outcome, file, tracks, windowVars>>

MdsEnds == Parsing("mds") /\ ~SessionIn(image.content, length, at)

MdsIsData(t) == t.size = 2336 \/ (t.size \in {2048, 2352, 2448} /\ t.mode % 8 # 1)

--------------------------------------------------------------------------------
(* Sheets, line by line.                                                    *)

Lines     == image.content
Line      == Lines[at + 1]
LinesEnd  == at >= Len(Lines)

StartSheet ==
  /\ outcome = "closed" /\ image.ext \in {"toc", "cue"}
  /\ IF ~Exists(image.ext) THEN Fail("io") ELSE Begin(0)

NextLine == at' = at + 1 /\ UNCHANGED <<image, outcome, block, windowVars>>

(* CDRDAO: toc.rs.                                                          *)
TocModes == [MODE1 |-> 2048, MODE1_RAW |-> 2352, MODE2 |-> 2336, MODE2_RAW |-> 2352,
             MODE2_FORM1 |-> 2048]

TocIsData(t) == t.mode \in DOMAIN TocModes

TocTrack ==
  /\ Parsing("toc") /\ ~LinesEnd /\ Line.key = "TRACK"
  /\ tracks' = Append(tracks, [mode |-> Line.mode, datafile |-> None,
                               file_offset |-> 0, length_sectors |-> 0])
  /\ NextLine /\ UNCHANGED file

(* A file line replaces what it gives of the last track.                    *)
apply_file_line(track, line) ==
  IF line.name = None THEN track
  ELSE [track EXCEPT !.datafile       = line.name,
                     !.file_offset    = IF line.offset = None THEN @ ELSE line.offset,
                     !.length_sectors = IF line.length = None THEN @ ELSE line.length]

TocFile ==
  /\ Parsing("toc") /\ ~LinesEnd /\ Line.key = "FILE" /\ tracks # <<>>
  /\ tracks' = [tracks EXCEPT ![Len(tracks)] = apply_file_line(@, Line)]
  /\ NextLine /\ UNCHANGED file

TocSkip ==
  /\ Parsing("toc") /\ ~LinesEnd
  /\ Line.key # "TRACK" /\ ~(Line.key = "FILE" /\ tracks # <<>>)
  /\ NextLine /\ UNCHANGED <<file, tracks>>

(* CUE sheets: cue.rs.  A track follows a file; there is none before the     *)
(* first.                                                                   *)
CueModes == {"MODE1/2048", "MODE1/2352", "MODE2/2336", "MODE2/2352"}

CueIsData(t) == t.mode \in CueModes

CueFile ==
  /\ Parsing("cue") /\ ~LinesEnd /\ Line.key = "FILE"
  /\ file' = Line.name
  /\ NextLine /\ UNCHANGED tracks

CueTrack ==
  /\ Parsing("cue") /\ ~LinesEnd /\ Line.key = "TRACK" /\ file # None
  /\ tracks' = Append(tracks, [file |-> file, mode |-> Line.mode])
  /\ NextLine /\ UNCHANGED file

CueSkip ==
  /\ Parsing("cue") /\ ~LinesEnd
  /\ Line.key # "FILE" /\ ~(Line.key = "TRACK" /\ file # None)
  /\ NextLine /\ UNCHANGED <<file, tracks>>

SheetEnds(ext) == Parsing(ext) /\ LinesEnd

--------------------------------------------------------------------------------
(* The first of the tracks that holds a file system, opened.                *)

IsData(t) ==
  CASE image.ext = "nrg" -> NrgIsData(t)
    [] image.ext = "mds" -> MdsIsData(t)
    [] image.ext = "toc" -> TocIsData(t)
    [] image.ext = "cue" -> CueIsData(t)

Found(k) == k \in DOMAIN tracks /\ IsData(tracks[k]) /\ \A j \in 1 .. k - 1 : ~IsData(tracks[j])

data_track == tracks[CHOOSE k \in DOMAIN tracks : Found(k)]

ParserEnds == NrgEnds \/ MdsEnds \/ SheetEnds("toc") \/ SheetEnds("cue")

NoDataTrack ==
  /\ ParserEnds /\ \A k \in DOMAIN tracks : ~IsData(tracks[k])
  /\ Fail("BadDescriptor")

HasDataTrack == \E k \in DOMAIN tracks : IsData(tracks[k])

OpenNrg ==
  /\ NrgEnds /\ HasDataTrack
  /\ HandOut("nrg", data_track.start, data_track.size)

OpenMds ==
  /\ MdsEnds /\ HasDataTrack
  /\ HandOut("mdf", data_track.start, data_track.sectors * data_track.size)

(* As much as the sheet says, if it says anything, and the file has.         *)
TocLength(name, offset, sectors, mode) ==
  LET avail == LeftOf(image.files[name], offset)
  IN  IF sectors > 0 THEN Lesser(sectors * TocModes[mode], avail) ELSE avail

OpenToc ==
  /\ SheetEnds("toc") /\ HasDataTrack
  /\ LET t == data_track
     IN  IF t.datafile = None THEN Fail("BadDescriptor")
         ELSE HandOut(t.datafile, t.file_offset,
                      TocLength(t.datafile, t.file_offset, t.length_sectors, t.mode))

OpenCue ==
  /\ SheetEnds("cue") /\ HasDataTrack
  /\ HandOut(data_track.file, 0, image.files[data_track.file])

(* Any other file is opened as it is; so is the data file of CloneCD, whose  *)
(* control file is not looked at.                                           *)
OpenPlain ==
  /\ outcome = "closed" /\ image.ext \notin {"nrg", "mds", "toc", "cue", "ccd"}
  /\ HandOut(image.ext, 0, length)

OpenCcd ==
  /\ outcome = "closed" /\ image.ext = "ccd"
  /\ IF Exists("img") THEN HandOut("img", 0, image.files.img) ELSE Fail("BadDescriptor")

--------------------------------------------------------------------------------

Init ==
  /\ image \in Images /\ outcome = "closed" /\ WindowInit
  /\ at = 0 /\ block = 0 /\ file = None /\ tracks = <<>>

Open ==
  \/ StartNrg \/ StartMds \/ StartSheet
  \/ NrgChunk \/ MdsBlock \/ MdsSession
  \/ TocTrack \/ TocFile \/ TocSkip \/ CueFile \/ CueTrack \/ CueSkip
  \/ NoDataTrack \/ OpenNrg \/ OpenMds \/ OpenToc \/ OpenCue \/ OpenPlain \/ OpenCcd

Call == WindowCalls /\ UNCHANGED <<image, outcome, parserVars>>

Next == Open \/ Call

Spec == Init /\ [][Next]_vars

--------------------------------------------------------------------------------
(* What is asked of the images: that the parsers find what they read.       *)

IsSub(s) == s \in [code : Nat, start : 0 .. U64 - 1, end : 0 .. U64 - 1, size : 0 .. U64 - 1]

(* There is a chunk wherever the list leads and a head fits.                 *)
IsNrg(c, len) ==
  c.footer = None \/
    /\ c.footer.offset \in Nat /\ FooterLen(c) <= len
    /\ \A p \in DOMAIN c.chunks :
         /\ p \in Nat /\ c.chunks[p].size \in Nat
         /\ InList(c, len, p) =>
              \A k \in 1 .. TrackCount(c.chunks[p]) : IsSub(c.chunks[p].subs[k])
    /\ \A p \in {c.footer.offset} \cup
                {Behind(c, q) : q \in {q \in DOMAIN c.chunks : InList(c, len, q)}} :
         p + CHUNK_HEAD <= len - FooterLen(c) => p \in DOMAIN c.chunks

(* The number of sectors has 32 bits, their size 16.                         *)
IsBlock(b, c, len) ==
  /\ b \in [point : Nat, mode : Nat, size : Nat, start : 0 .. U64 - 1, extra : Nat]
  /\ b.extra # 0 /\ b.extra + EXTRA_LEN <= len =>
       c.extra[b.extra] \in Nat /\ c.extra[b.extra] * b.size < U64

IsMds(c, len) ==
  /\ c.count \in Nat /\ c.first \in Nat
  /\ \A i \in 0 .. MAX_BLOCKS - 1 : SessionIn(c, len, i) =>
       /\ c.session[SessionAt(c, i)] \in [count : Nat, first : Nat]
       /\ \A j \in 0 .. MAX_BLOCKS - 1 : BlockIn(c, len, i, j) =>
            IsBlock(c.track[BlockAt(c, i, j)], c, len)

IsSheet(lines) == Len(lines) \in Nat /\ DOMAIN lines = 1 .. Len(lines)

IsToc(lines) ==
  /\ IsSheet(lines)
  /\ \A i \in DOMAIN lines :
       /\ lines[i].key = "TRACK" => lines[i].mode \in STRING
       /\ lines[i].key = "FILE" => /\ lines[i].name \in STRING \cup {None}
                                  /\ lines[i].offset \in 0 .. U64 - 1 \cup {None}
                                  /\ lines[i].length \in Nat \cup {None}

IsCue(lines) ==
  /\ IsSheet(lines)
  /\ \A i \in DOMAIN lines :
       /\ lines[i].key = "TRACK" => lines[i].mode \in STRING
       /\ lines[i].key = "FILE" => lines[i].name \in STRING
       /\ lines[i].key = "INDEX" => lines[i].number \in Nat /\ lines[i].frame \in Nat

IsImage(i) ==
  /\ DOMAIN i.files \subseteq Names
  /\ \A name \in DOMAIN i.files : i.files[name] \in 0 .. I64 - 1
  /\ i.ext \in DOMAIN i.files =>
       CASE i.ext = "nrg" -> IsNrg(i.content, i.files.nrg)
         [] i.ext = "mds" -> IsMds(i.content, i.files.mds)
         [] i.ext = "toc" -> IsToc(i.content)
         [] i.ext = "cue" -> IsCue(i.content)
         [] OTHER -> TRUE

ASSUME ImagesAssumption == \A i \in Images : IsImage(i)
ASSUME NamesAssumption == None \notin Names \cup STRING
ASSUME LimitsAssumption == MAX_CHUNK \in Nat /\ MAX_BLOCKS \in Nat

--------------------------------------------------------------------------------

Errors == {"io", "BadDescriptor", "NotAnIso"}

TracksOf(ext) ==
  CASE ext = "nrg" -> [code : Nat, start : 0 .. U64 - 1, size : 0 .. U64 - 1]
    [] ext = "mds" -> {t \in [mode : Nat, size : Nat, start : 0 .. U64 - 1, sectors : Nat] :
                         t.sectors * t.size < U64}
    [] ext = "toc" -> [mode : STRING, datafile : STRING \cup {None},
                       file_offset : 0 .. U64 - 1, length_sectors : Nat]
    [] ext = "cue" -> [file : STRING, mode : STRING]
    [] OTHER       -> {}

TypeOK ==
  /\ image \in Images
  /\ outcome \in {"closed", "parsing", "open"} \cup Errors
  /\ at \in Nat /\ block \in Nat
  /\ file \in STRING \cup {None} /\ tracks \in Seq(TracksOf(image.ext))
  /\ window = None <=> outcome # "open"
  /\ window # None => window \in Windows
  /\ pos \in 0 .. I64 - 1 /\ ipos \in 0 .. I64 - 1

--------------------------------------------------------------------------------
(* The data tracks an image declares, read as a whole, by their places       *)
(* <<i, j>>: subblock j of the chunk at i, block j of session i, line i.      *)

Before(p, q) == p[1] < q[1] \/ (p[1] = q[1] /\ p[2] < q[2])

(* A chunk is in the list of an NRG image if those up to it lie one behind   *)
(* the other from the trailer on, none of them the end of the list.         *)
Listed(p) ==
  LET chunk(q)  == image.content.chunks[q]
      behind(q) == q + CHUNK_HEAD + chunk(q).size
  IN  \E C \in SUBSET {q \in DOMAIN image.content.chunks : q <= p} :
        /\ {image.content.footer.offset, p} \subseteq C
        /\ \A q \in C : /\ q # p => behind(q) \in C
                        /\ chunk(q).id # "END!" /\ chunk(q).size <= MAX_CHUNK
                        /\ q + CHUNK_HEAD <= length - FooterLen(image.content)
                        /\ behind(q) <= length

NrgAt(p) == ChunkTracks(image.content.chunks[p[1]])[p[2]]

NrgDeclared ==
  UNION {{<<p, j>> : j \in {k \in DOMAIN ChunkTracks(image.content.chunks[p]) :
                              NrgAt(<<p, k>>).code \in NrgDataCodes}} :
           p \in {q \in DOMAIN image.content.chunks : Listed(q)}}

(* A track block of an MDS image is declared by a session that counts it in, *)
(* is of a track on the disc, and lies in the file.                         *)
MdsAt(p) ==
  LET c == image.content
  IN  c.track[c.session[c.first + p[1] * 24].first + p[2] * 80]

MdsDeclared ==
  LET c == image.content
  IN  {p \in (0 .. MAX_BLOCKS - 1) \X (0 .. MAX_BLOCKS - 1) :
         /\ p[1] < c.count /\ c.first + p[1] * 24 + 24 <= length
         /\ p[2] < c.session[c.first + p[1] * 24].count
         /\ c.session[c.first + p[1] * 24].first + p[2] * 80 + 80 <= length
         /\ MdsAt(p).point \in 1 .. 99 /\ MdsIsData(MdsAt(p))}

(* The file lines among the first n of the track that line i of a sheet      *)
(* begins, and the last of them to give something.                          *)
FileLines(i, n) ==
  {j \in i + 1 .. n : /\ Lines[j].key = "FILE" /\ Lines[j].name # None
                      /\ \A k \in i + 1 .. j : Lines[k].key # "TRACK"}

LastToGive(i, n, what, default) ==
  LET giving == {j \in FileLines(i, n) : Lines[j][what] # None}
  IN  IF giving = {} THEN default ELSE Lines[CHOOSE j \in giving : \A k \in giving : k <= j][what]

TocDeclared ==
  {<<i, 0>> : i \in {i \in DOMAIN Lines : /\ Lines[i].key = "TRACK"
                                          /\ Lines[i].mode \in DOMAIN TocModes}}

(* Line j is the last before line i to name a file.                          *)
LastFile(i, j) ==
  j \in 1 .. i /\ Lines[j].key = "FILE" /\ \A k \in j + 1 .. i : Lines[k].key # "FILE"

CueDeclared ==
  {<<i, 0>> : i \in {i \in DOMAIN Lines : /\ Lines[i].key = "TRACK" /\ Lines[i].mode \in CueModes
                                          /\ \E j \in 1 .. i : LastFile(i, j)}}

Declared ==
  CASE image.ext = "nrg" -> IF image.content.footer = None THEN {} ELSE NrgDeclared
    [] image.ext = "mds" ->
         IF image.content.signature /\ length >= HEADER_LEN THEN MdsDeclared ELSE {}
    [] image.ext = "toc" -> TocDeclared
    [] image.ext = "cue" -> CueDeclared
    [] OTHER             -> {<<0, 0>>}

(* Where a data track lies: the file, its place in it, and its length.       *)
Extent(f, base, len) == [file |-> f, base |-> base, len |-> len]

SizeOf(f) == IF Exists(f) THEN image.files[f] ELSE 0
Whole(f)  == Extent(f, 0, SizeOf(f))

TocExtent(i, n) ==
  LET f     == LastToGive(i, n, "name", None)
      base  == LastToGive(i, n, "offset", 0)
      said  == LastToGive(i, n, "length", 0) * TocModes[Lines[i].mode]
      avail == LeftOf(SizeOf(f), base)
  IN  Extent(f, base, IF said > 0 THEN Lesser(said, avail) ELSE avail)

(* The lines INDEX 01 of the track that line i of a CUE sheet begins, and     *)
(* the frame of its file that the track begins at: that of the first of     *)
(* them.                                                                    *)
Starts(i) ==
  {j \in i + 1 .. Len(Lines) : /\ Lines[j].key = "INDEX" /\ Lines[j].number = 1
                               /\ \A k \in i + 1 .. j : Lines[k].key \notin {"TRACK", "FILE"}}

Frame(i) ==
  IF Starts(i) = {} THEN 0 ELSE Lines[CHOOSE j \in Starts(i) : \A k \in Starts(i) : j <= k].frame

CueSectorSize(mode) ==
  CASE mode = "MODE1/2048" -> 2048
    [] mode = "MODE2/2336" -> 2336
    [] OTHER               -> 2352

(* The lines that begin the tracks behind that of line i in the same file.   *)
LaterTracks(i) ==
  {k \in i + 1 .. Len(Lines) : /\ Lines[k].key = "TRACK"
                               /\ \A j \in i .. k : Lines[j].key # "FILE"}

(* From where the track begins to where the next one of its file does, or to *)
(* the end of the file, all of it in sectors of one size.                   *)
CueExtent(i) ==
  LET f     == Lines[CHOOSE j \in 1 .. i : LastFile(i, j)].name
      size  == CueSectorSize(Lines[i].mode)
      later == LaterTracks(i)
      end   == IF later = {} THEN SizeOf(f)
               ELSE size * Frame(CHOOSE k \in later : \A l \in later : k <= l)
  IN  Extent(f, size * Frame(i), LeftOf(end, size * Frame(i)))

ExtentOf(p) ==
  CASE image.ext = "nrg" -> Extent("nrg", NrgAt(p).start, NrgAt(p).size)
    [] image.ext = "mds" ->
         Extent("mdf", MdsAt(p).start, read_extra_length(MdsAt(p).extra) * MdsAt(p).size)
    [] image.ext = "toc" -> TocExtent(p[1], Len(Lines))
    [] image.ext = "cue" -> CueExtent(p[1])
    [] image.ext = "ccd" -> Whole("img")
    [] OTHER             -> Whole(image.ext)

IsFirst(p) == p \in Declared /\ \A q \in Declared : ~Before(q, p)

(* A track of a CUE sheet that is all there is in its file.                  *)
FillsFile(e) == e = Whole(e.file)

(* What `open` hands out is the first data track that the container, read as *)
(* a whole, declares: of the file it lies in, from its place on, with its    *)
(* length.  It hands out something if one is declared whose file is there,  *)
(* and which begins where a file can.  Of CUE sheets this is asked where the *)
(* track has a file to itself: see WindowsCueTrack.                         *)
OpensDataTrack ==
  outcome \in {"open"} \cup Errors =>
    LET first == CHOOSE p \in Declared : IsFirst(p)
    IN  (image.ext = "cue" /\ Declared # {} => FillsFile(ExtentOf(first))) =>
          IF /\ Exists(image.ext) \/ image.ext = "ccd"
             /\ Declared # {}
             /\ LET e == ExtentOf(first) IN Exists(e.file) /\ e.base < I64
          THEN /\ outcome = "open"
               /\ Extent(window.file, window.base, window.len) = ExtentOf(first)
          ELSE outcome # "open"

(* "`open()` resolves `.cue`->`.bin` and windows the data track"              *)
(* (docs/formats.md:138): of what a sheet leads to, the bytes from INDEX 01 of *)
(* its first data track to the next track of the file.  The code hands out   *)
(* the file from its start: the lines INDEX are parsed and not used.        *)
WindowsCueTrack ==
  outcome = "open" /\ image.ext = "cue" =>
    Extent(window.file, window.base, window.len)
      = ExtentOf(CHOOSE p \in Declared : IsFirst(p))
================================================================================
