------------------------------ MODULE OpenerProofs ------------------------------
(***************************************************************************)
(* Whatever is in the containers, what `open` hands out lies in the widths   *)
(* the window computes with, and is the first data track there is.          *)
(***************************************************************************)
EXTENDS Opener, SequenceTheorems, WellFoundedInduction, TLAPS

(***************************************************************************)
(* The window: of any file, with any base and length, seen through any       *)
(* sequence of reads and seeks, it is a stream addressed from 0.            *)
(***************************************************************************)

WindowNext == (\E w \in Windows : New(w)) \/ WindowCalls

(* The two positions never drift apart, and both are ones a file has.        *)
(* Before the window there is nothing to move, and no reply.                *)
WindowInv ==
  /\ window = None => pos = 0 /\ reply = NoCall
  /\ window # None => /\ window \in Windows
                      /\ pos \in 0 .. I64 - 1 /\ ipos \in 0 .. I64 - 1
                      /\ ipos = window.base + pos

(* A read, in the terms of the window: as much as both the window and the    *)
(* file still hold.                                                         *)
LEMMA ReadBound ==
  ASSUME NEW flen \in 0 .. I64 - 1, NEW base \in 0 .. I64 - 1, NEW len \in 0 .. U64 - 1,
         NEW p \in 0 .. I64 - 1, NEW n \in Nat
  PROVE  LET most == Lesser(Lesser(LeftOf(len, p), n), LeftOf(flen, base + p))
             end  == Lesser(len, LeftOf(flen, base))
         IN  /\ most \in 0 .. I64 - 1
             /\ most = IF p < end THEN Lesser(n, end - p) ELSE 0
             /\ most > 0 => base + p + most <= flen
BY WidthAssumption, SMT DEF Lesser, LeftOf, U64

(* Where a seek counts from.                                                 *)
From(s) ==
  CASE s.whence = "start"   -> 0
    [] s.whence = "current" -> pos
    [] s.whence = "end"     -> window.len

(* A sum in 64 signed bits, of a number cast to them, is the exact one or    *)
(* fails where that does: the three ways of seeking.                        *)
LEMMA SignedSum ==
  ASSUME NEW from \in 0 .. U64 - 1, NEW by \in Int, NEW limit \in 1 .. I64,
         \/ from = 0 /\ by \in 0 .. U64 - 1
         \/ from < I64 /\ by \in -I64 .. I64 - 1
         \/ by \in -I64 .. 0
  PROVE  LET target == Signed(Signed(from) + by)
         IN  /\ target \in Int
             /\ (target < 0 \/ target >= limit) <=> from + by \notin 0 .. limit - 1
             /\ from + by \in 0 .. limit - 1 => target = from + by
BY WidthAssumption, SMTT(60) DEF Signed, U64

(* A seek, with the casts to 64 signed bits, goes where one without them     *)
(* would, or fails where that one does.                                     *)
LEMMA SeekTarget ==
  ASSUME NEW s \in Seeks, window \in Windows, pos \in 0 .. I64 - 1
  PROVE  /\ From(s) \in {0, pos, window.len} /\ Target(s) \in Int
         /\ (Target(s) < 0 \/ window.base + Target(s) >= I64)
               <=> From(s) + s.by \notin 0 .. I64 - window.base - 1
         /\ From(s) + s.by \in 0 .. I64 - window.base - 1 => Target(s) = From(s) + s.by
<1> DEFINE limit == I64 - window.base
           target == Signed(Signed(From(s)) + s.by)
<1>1. /\ window.base \in 0 .. I64 - 1 /\ window.len \in 0 .. U64 - 1
      /\ I64 \in Nat \ {0} /\ limit \in 1 .. I64
  BY WidthAssumption DEF Windows
<1>2. /\ From(s) \in {0, pos, window.len} /\ s.by \in Int
      /\ \/ From(s) = 0 /\ s.by \in 0 .. U64 - 1
         \/ From(s) = pos /\ s.by \in -I64 .. I64 - 1
         \/ From(s) = window.len /\ s.by \in -I64 .. 0
      /\ Target(s) = target
  <2>1. CASE s.whence = "start"
    <3>1. From(s) = 0 /\ s.by \in 0 .. U64 - 1 /\ Target(s) = Signed(s.by)
      BY <2>1, SeekAssumption DEF Target, From
    <3>2. Signed(0) = 0
      BY <1>1 DEF Signed
    <3>3. s.by \in Int /\ 0 + s.by = s.by
      BY <1>1, <3>1 DEF U64
    <3> QED BY <3>1, <3>2, <3>3
  <2>2. CASE s.whence = "current"
    <3>1. /\ From(s) = pos /\ s.by \in -I64 .. I64 - 1
          /\ Target(s) = Signed(Signed(pos) + s.by)
      BY <2>2, SeekAssumption DEF Target, From
    <3> QED BY <3>1, <1>1
  <2>3. CASE s.whence = "end"
    <3>1. /\ From(s) = window.len /\ s.by \in -I64 .. 0
          /\ Target(s) = Signed(Signed(window.len) + s.by)
      BY <2>3, SeekAssumption DEF Target, From
    <3> QED BY <3>1, <1>1
  <2> QED BY <2>1, <2>2, <2>3, SeekAssumption
<1>3. From(s) \in 0 .. U64 - 1
  BY <1>1, <1>2 DEF U64
<1>4. /\ target \in Int
      /\ (target < 0 \/ target >= limit) <=> From(s) + s.by \notin 0 .. limit - 1
      /\ From(s) + s.by \in 0 .. limit - 1 => target = From(s) + s.by
  <2>1. \/ From(s) = 0 /\ s.by \in 0 .. U64 - 1
        \/ From(s) < I64 /\ s.by \in -I64 .. I64 - 1
        \/ s.by \in -I64 .. 0
    BY <1>1, <1>2
  <2> QED BY <1>1, <1>2, <1>3, <2>1, SignedSum
<1>5. target >= limit <=> window.base + target >= I64
  BY <1>1, <1>4
<1> QED BY <1>2, <1>4, <1>5

LEMMA InvInit == WindowInit => WindowInv
BY DEF WindowInit, WindowInv

LEMMA InvNext == WindowInv /\ [WindowNext]_windowVars => WindowInv'
<1> SUFFICES ASSUME WindowInv, [WindowNext]_windowVars PROVE WindowInv'
  OBVIOUS
<1>1. CASE UNCHANGED windowVars
  BY <1>1 DEF windowVars, WindowInv
<1>2. ASSUME NEW w \in Windows, New(w) PROVE WindowInv'
  BY <1>2, WidthAssumption DEF New, WindowInv, Windows
<1>3. ASSUME NEW n \in Counts, Read(n) PROVE WindowInv'
  <2>1. /\ window \in Windows /\ pos \in 0 .. I64 - 1 /\ ipos = window.base + pos
        /\ window # None /\ window' = window
    BY <1>3 DEF Read, WindowInv
  <2> DEFINE most == Lesser(Lesser(remaining, n), LeftOf(window.flen, ipos))
  <2>2. /\ most \in 0 .. I64 - 1
        /\ most > 0 => window.base + pos + most <= window.flen
    BY <2>1, ReadBound, CountAssumption DEF Windows, remaining
  <2>3. PICK k \in 0 .. most : pos' = pos + k /\ ipos' = ipos + k
    BY <1>3 DEF Read
  <2> QED BY <2>1, <2>2, <2>3, WidthAssumption DEF WindowInv, Windows
<1>4. CASE ReadFails
  BY <1>4 DEF ReadFails, WindowInv
<1>5. ASSUME NEW s \in Seeks, Seek(s) PROVE WindowInv'
  <2>1. window \in Windows /\ pos \in 0 .. I64 - 1 /\ window # None /\ window' = window
    BY <1>5 DEF Seek, WindowInv
  <2>2. Target(s) \in Int
    BY <2>1, SeekTarget
  <2>3. CASE Target(s) < 0 \/ window.base + Target(s) >= I64
    BY <1>5, <2>1, <2>3 DEF Seek, WindowInv
  <2>4. CASE ~(Target(s) < 0 \/ window.base + Target(s) >= I64)
    BY <1>5, <2>1, <2>2, <2>4, WidthAssumption DEF Seek, WindowInv, Windows
  <2> QED BY <2>3, <2>4
<1> QED BY <1>1, <1>2, <1>3, <1>4, <1>5 DEF WindowNext, WindowCalls

--------------------------------------------------------------------------------

(* What the window shows of itself, once open.                              *)
LEMMA ShownOpen ==
  ASSUME window \in Windows, window # None
  PROVE  /\ Shown = [size  |-> window.len,
                     end   |-> Lesser(window.len, LeftOf(window.flen, window.base)),
                     limit |-> I64 - window.base]
         /\ Shown \in [size : Nat, end : Nat, limit : Nat]
         /\ Shown # None
<1>1. Shown \in [size : Nat, end : Nat, limit : Nat]
  BY WidthAssumption DEF Shown, Windows, Lesser, LeftOf, U64
<1> QED BY <1>1, NoneAssumption DEF Shown

LEMMA ReadIsRead ==
  ASSUME WindowInv, NEW n \in Counts, Read(n)
  PROVE  Flat!Read(n) /\ Shown # None /\ Shown' = Shown
<1>1. /\ window \in Windows /\ pos \in 0 .. I64 - 1 /\ ipos = window.base + pos
      /\ window # None /\ window' = window
  BY DEF Read, WindowInv
<1> DEFINE most == Lesser(Lesser(remaining, n), LeftOf(window.flen, ipos))
           end  == Lesser(window.len, LeftOf(window.flen, window.base))
           flat == IF pos < Shown.end THEN Flat!Lesser(n, Shown.end - pos) ELSE 0
<1>2. most = IF pos < end THEN Lesser(n, end - pos) ELSE 0
  BY <1>1, ReadBound, CountAssumption DEF Windows, remaining
<1>3. Shown.end = end /\ Shown # None /\ Shown' = Shown
  BY <1>1, ShownOpen DEF Shown
<1>4. flat = most
  BY <1>2, <1>3 DEF Flat!Lesser, Lesser
<1>5. PICK k \in 0 .. most : /\ k = 0 => most = 0
                             /\ reply' = Data(ipos, k) /\ pos' = pos + k
  BY DEF Read
<1>6. most \in Nat
  BY <1>1, ReadBound, CountAssumption DEF Windows, remaining
<1>7. Told' = Flat!Data(pos, k)
  <2>1. Told' = Data(ipos - window.base, k)
    BY <1>1, <1>5 DEF Told, Data
  <2>2. ipos - window.base = pos
    BY <1>1 DEF Windows
  <2> QED BY <2>1, <2>2 DEF Data, Flat!Data
<1> QED BY <1>3, <1>4, <1>5, <1>7 DEF Flat!Read

LEMMA SeekIsSeek ==
  ASSUME WindowInv, NEW s \in Seeks, Seek(s)
  PROVE  /\ \E by \in {t.by : t \in Seeks}, base \in {0, pos, Shown.size} : Flat!Seek(base, by)
         /\ Shown # None /\ Shown' = Shown
<1>1. window \in Windows /\ pos \in 0 .. I64 - 1 /\ window # None /\ window' = window
  BY DEF Seek, WindowInv
<1>2. Shown.size = window.len /\ Shown.limit = I64 - window.base /\ Shown # None /\ Shown' = Shown
  BY <1>1, ShownOpen DEF Shown
<1>3. From(s) \in {0, pos, Shown.size}
  BY <1>1, <1>2, SeekTarget
<1>4. /\ (Target(s) < 0 \/ window.base + Target(s) >= I64)
           <=> From(s) + s.by \notin 0 .. I64 - window.base - 1
      /\ From(s) + s.by \in 0 .. I64 - window.base - 1 => Target(s) = From(s) + s.by
  BY <1>1, SeekTarget
<1>5. Flat!Seek(From(s), s.by)
  <2>1. CASE From(s) + s.by \notin 0 .. I64 - window.base - 1
    <3>1. reply' = Error /\ pos' = pos
      BY <1>4, <2>1 DEF Seek
    <3> QED BY <3>1, <1>2, <2>1 DEF Flat!Seek, Told, Error, Flat!Error
  <2>2. CASE From(s) + s.by \in 0 .. I64 - window.base - 1
    <3>1. reply' = At(From(s) + s.by) /\ pos' = From(s) + s.by
      BY <1>4, <2>2 DEF Seek
    <3> QED BY <3>1, <1>2, <2>2 DEF Flat!Seek, Told, At, Flat!At
  <2> QED BY <2>1, <2>2
<1> QED BY <1>2, <1>3, <1>5

(* Every sequence of calls to the window, whatever a container's tables say  *)
(* of it, is one of a stream of its own: `OffsetReader` "presents a byte     *)
(* sub-range of a `Read + Seek` as a standalone stream starting at offset 0" *)
(* (offset.rs:1).                                                           *)
THEOREM WindowIsStream == WindowSpec => ImplementsStream
<1>1. WindowInit => Flat!Init
  BY DEF WindowInit, Flat!Init, Shown, Told, NoCall, Flat!NoCall
<1>2. WindowInv /\ [WindowNext]_windowVars => [Flat!Next]_(Flat!vars)
  <2> SUFFICES ASSUME WindowInv, [WindowNext]_windowVars PROVE [Flat!Next]_(Flat!vars)
    OBVIOUS
  <2>1. CASE UNCHANGED windowVars
    BY <2>1 DEF windowVars, Flat!vars, Shown, Told
  <2>2. ASSUME NEW w \in Windows, New(w) PROVE Flat!Open
    <3>1. CASE w # None
      <4>1. Shown = None /\ pos' = pos /\ Told' = Told
        BY <2>2 DEF New, Shown, WindowInv, Told, NoCall
      <4>2. Shown' \in [size : Nat, end : Nat, limit : Nat]
        BY <2>2, <3>1, WidthAssumption DEF New, Shown, Windows, Lesser, LeftOf, U64
      <4> QED BY <4>1, <4>2 DEF Flat!Open
    <3>2. w # None
      BY NoneAssumption
    <3> QED BY <3>1, <3>2
  <2>3. ASSUME NEW n \in Counts, Read(n) PROVE Flat!Next
    BY <2>3, ReadIsRead DEF Flat!Next
  <2>4. CASE ReadFails
    <3>1. Shown # None /\ Shown' = Shown
      BY <2>4, ShownOpen DEF ReadFails, WindowInv, Shown
    <3>2. Flat!Fail
      BY <2>4 DEF ReadFails, Flat!Fail, Told, Error, Flat!Error
    <3> QED BY <3>1, <3>2 DEF Flat!Next
  <2>5. ASSUME NEW s \in Seeks, Seek(s) PROVE Flat!Next
    BY <2>5, SeekIsSeek DEF Flat!Next
  <2> QED BY <2>1, <2>2, <2>3, <2>4, <2>5 DEF WindowNext, WindowCalls, Flat!Next
<1> QED BY <1>1, <1>2, InvInit, InvNext, PTL
      DEF WindowSpec, WindowNext, ImplementsStream, Flat!Spec

(***************************************************************************)
(* The containers.                                                          *)
(***************************************************************************)

(* The places behind the parser.                                            *)
Passed(p) ==
  CASE image.ext = "nrg" -> p[1] < at
    [] image.ext = "mds" -> p[1] < at \/ (p[1] = at /\ p[2] < block)
    [] OTHER             -> p[1] <= at

(* The record t holds what the image gives of the track at p, as far as it   *)
(* has been read.                                                           *)
Holds(t, p) ==
  CASE image.ext = "nrg" -> t = NrgAt(p)
    [] image.ext = "mds" -> t = MdsTrack(MdsAt(p))
    [] image.ext = "toc" -> /\ t.mode = Lines[p[1]].mode
                            /\ t.datafile = LastToGive(p[1], at, "name", None)
                            /\ t.file_offset = LastToGive(p[1], at, "offset", 0)
                            /\ t.length_sectors = LastToGive(p[1], at, "length", 0)
    [] image.ext = "cue" -> \E j \in 1 .. p[1] : LastFile(p[1], j) /\ t.file = Lines[j].name

(* The chain of chunks that ends with p.                                     *)
Chain(C, p) ==
  /\ C \subseteq {q \in DOMAIN image.content.chunks : q <= p}
  /\ image.content.footer.offset \in C /\ p \in C
  /\ \A q \in C : /\ InList(image.content, length, q)
                  /\ q # p => Behind(image.content, q) \in C

(* The chunks passed lead to the one the parser is at, and those of any      *)
(* other listed chunk too.                                                  *)
ChainInv ==
  /\ image.content.footer # None
  /\ at \in {image.content.footer.offset} \cup
            {Behind(image.content, q) :
               q \in {q \in DOMAIN image.content.chunks : InList(image.content, length, q)}}
  /\ \E C \in SUBSET {q \in DOMAIN image.content.chunks : q < at} :
       /\ image.content.footer.offset \in C \cup {at}
       /\ \A q \in C : /\ InList(image.content, length, q)
                       /\ Behind(image.content, q) \in C \cup {at}
  /\ \A p \in DOMAIN image.content.chunks, C \in SUBSET DOMAIN image.content.chunks :
       Chain(C, p) => p < at \/ at \in C

(* The file named last by the lines taken.                                  *)
FileInv ==
  \/ file = None /\ \A j \in 1 .. at : Lines[j].key # "FILE"
  \/ \E j \in 1 .. at : LastFile(at, j) /\ file = Lines[j].name

(* No track has begun since the line of the track at p.                     *)
StillLast(p) == \A i \in p[1] + 1 .. at : Lines[i].key # "TRACK"

FirstFound ==
  \E k \in DOMAIN tracks, p \in Declared :
    /\ Found(k) /\ IsFirst(p) /\ Passed(p) /\ Holds(tracks[k], p)
    /\ image.ext = "toc" => (k = Len(tracks) <=> StillLast(p))

NoneFound ==
  /\ \A k \in DOMAIN tracks : ~IsData(tracks[k])
  /\ \A p \in Declared : ~Passed(p)

(* The track found first is the first one declared, as far as it has been    *)
(* read; as long as none is found, none is behind the parser.                *)
ParseInv ==
  outcome = "parsing" =>
    /\ image.ext \in {"nrg", "mds", "toc", "cue"} /\ Exists(image.ext)
    /\ image.ext = "nrg" => ChainInv
    /\ image.ext = "mds" => image.content.signature /\ length >= HEADER_LEN
    /\ image.ext \in {"toc", "cue"} => at <= Len(Lines)
    /\ image.ext = "cue" => FileInv
    /\ FirstFound \/ NoneFound

(* Before the parser begins it has found nothing.                            *)
Fresh == outcome = "closed" => block = 0 /\ file = None /\ tracks = <<>>

Inv == TypeOK /\ WindowInv /\ Fresh /\ ParseInv

--------------------------------------------------------------------------------
(* The tracks found.                                                        *)

LEMMA ImageFacts == ASSUME TypeOK PROVE IsImage(image)
BY ImagesAssumption DEF TypeOK

LEMMA Least ==
  ASSUME NEW T \in SUBSET Nat, T # {}
  PROVE  \E x \in T : \A y \in T : x <= y
<1>1. PICK x \in T : \A y \in T : ~(<<y, x>> \in OpToRel(<, Nat))
  BY Zenon, NatLessThanWellFounded, WFMin
<1>2. \A y \in T : ~(y < x)
  BY <1>1 DEF OpToRel
<1> QED BY <1>2

LEMMA FoundIsDataTrack ==
  ASSUME TypeOK, NEW k, Found(k)
  PROVE  data_track = tracks[k] /\ HasDataTrack
<1>1. DOMAIN tracks = 1 .. Len(tracks) /\ Len(tracks) \in Nat
  BY LenProperties DEF TypeOK
<1>2. \A l \in DOMAIN tracks : Found(l) => l = k
  BY <1>1 DEF Found
<1>3. k \in DOMAIN tracks /\ IsData(tracks[k])
  BY DEF Found
<1> QED BY <1>2, <1>3 DEF data_track, HasDataTrack

LEMMA DataTrackFound ==
  ASSUME TypeOK, HasDataTrack
  PROVE  \E k \in DOMAIN tracks : Found(k) /\ data_track = tracks[k]
<1>1. DOMAIN tracks = 1 .. Len(tracks) /\ Len(tracks) \in Nat
  BY LenProperties DEF TypeOK
<1> DEFINE B == {k \in DOMAIN tracks : IsData(tracks[k])}
<1>2. PICK k \in B : \A j \in B : k <= j
  <2>1. B \in SUBSET Nat /\ B # {}
    BY <1>1 DEF HasDataTrack
  <2> QED BY <2>1, Least
<1>3. Found(k)
  BY <1>1, <1>2 DEF Found
<1> QED BY <1>3, FoundIsDataTrack

LEMMA DataTrackTyped ==
  ASSUME TypeOK, HasDataTrack
  PROVE  data_track \in TracksOf(image.ext) /\ IsData(data_track)
<1>1. PICK k \in DOMAIN tracks : Found(k) /\ data_track = tracks[k]
  BY DataTrackFound
<1>2. tracks[k] \in TracksOf(image.ext)
  BY <1>1, ElementOfSeq, LenProperties DEF TypeOK
<1> QED BY <1>1, <1>2 DEF Found

--------------------------------------------------------------------------------
(* The widths.                                                              *)

LEMMA TrackCountNat ==
  ASSUME NEW chunk, chunk.size \in Nat
  PROVE  TrackCount(chunk) \in Nat
<1>1. CASE ~HasTracks(chunk)
  BY <1>1 DEF TrackCount
<1>2. CASE HasTracks(chunk)
  <2>1. CASE chunk.id = "DAOX"
    BY <1>2, <2>1 DEF TrackCount, HasTracks, Layout
  <2>2. CASE chunk.id = "DAOI"
    BY <1>2, <2>2 DEF TrackCount, HasTracks, Layout
  <2>3. CASE chunk.id = "ETN2"
    BY <1>2, <2>3 DEF TrackCount, HasTracks, Layout
  <2>4. CASE chunk.id = "ETNF"
    BY <1>2, <2>4 DEF TrackCount, HasTracks, Layout
  <2> QED BY <1>2, <2>1, <2>2, <2>3, <2>4 DEF HasTracks
<1> QED BY <1>1, <1>2

(* The head of a chunk, and the chunk, where the parser looks for one.       *)
LEMMA ChunkHeld ==
  ASSUME Inv, Parsing("nrg"), InList(image.content, length, at)
  PROVE  /\ at \in DOMAIN image.content.chunks /\ at \in Nat
         /\ image.content.chunks[at].size \in Nat
         /\ Behind(image.content, at) \in Nat /\ at < Behind(image.content, at)
<1> DEFINE c == image.content
<1>1. IsNrg(c, length) /\ c.footer # None /\ ChainInv
  BY SMTT(40), ImageFacts DEF Inv, ParseInv, Parsing, IsImage, length, Exists, ChainInv
<1>2. at \in DOMAIN c.chunks
  BY <1>1 DEF IsNrg, ChainInv, InList
<1>3. at \in Nat /\ c.chunks[at].size \in Nat
  BY SMTT(40), <1>1, <1>2 DEF IsNrg
<1> QED BY <1>2, <1>3 DEF Behind, CHUNK_HEAD

LEMMA ChunkTracksTyped ==
  ASSUME Inv, Parsing("nrg"), InList(image.content, length, at)
  PROVE  ChunkTracks(image.content.chunks[at]) \in Seq(TracksOf("nrg"))
<1> DEFINE c == image.content
           chunk == c.chunks[at]
           n == TrackCount(chunk)
<1>1. IsNrg(c, length) /\ c.footer # None
  BY ImageFacts DEF Inv, ParseInv, Parsing, IsImage, length, Exists, ChainInv
<1>2. \A k \in 1 .. n : IsSub(chunk.subs[k])
  BY <1>1, ChunkHeld DEF IsNrg
<1>3. n \in Nat
  BY SMTT(40), ChunkHeld, TrackCountNat
<1>4. ASSUME NEW k \in 1 .. n
      PROVE  [code |-> chunk.subs[k].code, start |-> chunk.subs[k].start,
              size |-> IF Layout(chunk.id).head > 0 THEN TrackLength(chunk.subs[k])
                       ELSE chunk.subs[k].size] \in TracksOf("nrg")
  <2>1. IsSub(chunk.subs[k])
    BY SMTT(40), <1>2
  <2>2. /\ chunk.subs[k].code \in Nat /\ chunk.subs[k].start \in 0 .. U64 - 1
        /\ chunk.subs[k].size \in 0 .. U64 - 1 /\ chunk.subs[k].end \in 0 .. U64 - 1
    BY SMTT(40), <2>1 DEF IsSub
  <2>3. TrackLength(chunk.subs[k]) \in 0 .. U64 - 1
    BY <2>2, WidthAssumption DEF TrackLength, LeftOf, U64
  <2> QED BY <2>2, <2>3 DEF TracksOf
<1> HIDE DEF n, chunk
<1>5. [k \in 1 .. n |->
         [code |-> chunk.subs[k].code, start |-> chunk.subs[k].start,
          size |-> IF Layout(chunk.id).head > 0 THEN TrackLength(chunk.subs[k])
                   ELSE chunk.subs[k].size]] \in Seq(TracksOf("nrg"))
  BY <1>3, <1>4, IsASeq
<1> QED BY <1>5 DEF ChunkTracks, n, chunk

LEMMA FailTyped ==
  ASSUME TypeOK, outcome \in {"closed", "parsing"}, NEW e \in Errors, Fail(e)
  PROVE  TypeOK' /\ UNCHANGED windowVars
<1>1. UNCHANGED <<image, at, block, file, tracks, window, pos, ipos>> /\ outcome' = e
  BY DEF Fail, parserVars, windowVars
<1>2. TypeOK'
  BY <1>1 DEF TypeOK, Errors
<1> QED BY <1>2 DEF Fail

LEMMA BeginTyped ==
  ASSUME TypeOK, outcome = "closed", NEW place \in Nat, Begin(place)
  PROVE  TypeOK' /\ UNCHANGED windowVars
<1>1. /\ UNCHANGED <<image, block, file, tracks, window, pos, ipos>>
      /\ outcome' = "parsing" /\ at' = place
  BY DEF Begin, windowVars
<1>2. TypeOK'
  BY <1>1 DEF TypeOK, Errors
<1> QED BY <1>2 DEF Begin

LEMMA HandOutTyped ==
  ASSUME TypeOK, outcome \in {"closed", "parsing"},
         NEW name, NEW base \in Nat, NEW len, HandOut(name, base, len),
         Exists(name) => len \in 0 .. U64 - 1
  PROVE  TypeOK' /\ [WindowNext]_windowVars
<1>1. UNCHANGED <<image, at, block, file, tracks>>
  BY DEF HandOut, parserVars
<1>2. CASE Exists(name) /\ base < I64
  <2> DEFINE w == [file |-> name, flen |-> image.files[name], base |-> base, len |-> len]
  <2>1. outcome' = "open" /\ New(w)
    BY <1>2 DEF HandOut
  <2>2. name \in Names /\ image.files[name] \in 0 .. I64 - 1
    BY <1>2, ImageFacts DEF IsImage, Exists
  <2>3. base \in 0 .. I64 - 1 /\ len \in 0 .. U64 - 1
    BY <1>2, WidthAssumption
  <2>4. w \in Windows
    BY <2>2, <2>3 DEF Windows
  <2>5. w # None
    BY <2>4, NoneAssumption
  <2>6. window' = w /\ pos' = 0 /\ ipos' = base
    BY <2>1 DEF New
  <2> HIDE DEF w
  <2>7. TypeOK'
    BY <1>1, <2>1, <2>3, <2>4, <2>5, <2>6, WidthAssumption DEF TypeOK
  <2> QED BY <2>1, <2>4, <2>7 DEF WindowNext
<1>3. CASE ~(Exists(name) /\ base < I64)
  <2>1. outcome' = "io" /\ UNCHANGED windowVars
    BY <1>3 DEF HandOut
  <2>2. TypeOK'
    BY <1>1, <2>1 DEF TypeOK, Errors, windowVars
  <2> QED BY <2>1, <2>2
<1> QED BY <1>2, <1>3

LEMMA ParserTyped ==
  ASSUME TypeOK, outcome = "parsing", UNCHANGED <<image, outcome, windowVars>>,
         at' \in Nat, block' \in Nat, file' \in STRING \cup {None},
         tracks' \in Seq(TracksOf(image.ext))
  PROVE  TypeOK'
<1>1. UNCHANGED <<image, outcome, window, pos, ipos>>
  BY DEF windowVars
<1> QED BY <1>1 DEF TypeOK

LEMMA NrgChunkTyped == ASSUME Inv, NrgChunk PROVE TypeOK'
<1>1. /\ UNCHANGED <<image, outcome, block, file, windowVars>> /\ outcome = "parsing"
      /\ image.ext = "nrg" /\ at' = Behind(image.content, at)
      /\ tracks' = tracks \o ChunkTracks(image.content.chunks[at])
  BY DEF NrgChunk, Parsing
<1>2. at' \in Nat /\ ChunkTracks(image.content.chunks[at]) \in Seq(TracksOf("nrg"))
  BY <1>1, ChunkHeld, ChunkTracksTyped DEF NrgChunk
<1>3. tracks' \in Seq(TracksOf("nrg"))
  BY <1>1, <1>2, ConcatProperties DEF Inv, TypeOK
<1> QED BY <1>1, <1>2, <1>3, ParserTyped DEF Inv, TypeOK

(* The block of an MDS image that the parser looks at, and its track.        *)
LEMMA BlockHeld ==
  ASSUME Inv, Parsing("mds"), SessionIn(image.content, length, at),
         BlockIn(image.content, length, at, block)
  PROVE  LET b == image.content.track[BlockAt(image.content, at, block)]
         IN  MdsTrack(b) \in TracksOf("mds") /\ b.point \in Nat
<1> DEFINE c == image.content
           b == c.track[BlockAt(c, at, block)]
<1>1. IsMds(c, length)
  BY ImageFacts DEF Inv, ParseInv, Parsing, IsImage, length, Exists
<1>2. /\ at \in Nat /\ at < MAX_BLOCKS /\ c.count \in Nat
  BY <1>1, LimitsAssumption DEF Inv, TypeOK, SessionIn, Lesser, IsMds
<1>3. c.session[SessionAt(c, at)] \in [count : Nat, first : Nat]
  BY <1>1, <1>2, LimitsAssumption DEF IsMds
<1>4. block \in Nat /\ block < MAX_BLOCKS
  BY SMTT(40), <1>3, LimitsAssumption DEF Inv, TypeOK, BlockIn, Lesser
<1>5. IsBlock(b, c, length)
  BY <1>1, <1>2, <1>4, LimitsAssumption DEF IsMds
<1>6. b \in [point : Nat, mode : Nat, size : Nat, start : 0 .. U64 - 1, extra : Nat]
  BY <1>5 DEF IsBlock
<1>7. read_extra_length(b.extra) \in Nat /\ read_extra_length(b.extra) * b.size < U64
  <2>1. CASE b.extra = 0 \/ b.extra + EXTRA_LEN > length
    <3>1. read_extra_length(b.extra) = 0 /\ 0 * b.size = 0
      BY SMTT(40), <1>6, <2>1 DEF read_extra_length
    <3> QED BY <3>1, WidthAssumption DEF U64
  <2>2. CASE ~(b.extra = 0 \/ b.extra + EXTRA_LEN > length)
    <3>1. length \in Nat
      BY ImageFacts DEF Inv, ParseInv, Parsing, IsImage, length, Exists
    <3>2. b.extra # 0 /\ b.extra + EXTRA_LEN <= length
      BY <1>6, <2>2, <3>1 DEF EXTRA_LEN
    <3>3. read_extra_length(b.extra) = c.extra[b.extra]
      BY <2>2 DEF read_extra_length
    <3> QED BY <1>5, <3>2, <3>3 DEF IsBlock
  <2> QED BY <2>1, <2>2
<1> HIDE DEF b
<1>8. MdsTrack(b) \in TracksOf("mds")
  BY <1>6, <1>7 DEF MdsTrack, TracksOf
<1> QED BY <1>6, <1>8 DEF b

LEMMA MdsBlockTyped == ASSUME Inv, MdsBlock PROVE TypeOK'
<1> DEFINE b == image.content.track[BlockAt(image.content, at, block)]
<1>1. /\ UNCHANGED <<image, outcome, at, file, windowVars>> /\ outcome = "parsing"
      /\ image.ext = "mds" /\ block' = block + 1
      /\ tracks' = IF IsTrack(b) THEN Append(tracks, MdsTrack(b)) ELSE tracks
  BY DEF MdsBlock, Parsing
<1>2. MdsTrack(b) \in TracksOf("mds")
  BY BlockHeld DEF MdsBlock
<1> HIDE DEF b
<1>3. tracks' \in Seq(TracksOf("mds"))
  BY <1>1, <1>2, AppendProperties DEF Inv, TypeOK
<1> QED BY <1>1, <1>3, ParserTyped DEF Inv, TypeOK

(* The line of a sheet the parser looks at.                                 *)
LEMMA LineHeld ==
  ASSUME Inv, outcome = "parsing", image.ext \in {"toc", "cue"}, ~LinesEnd
  PROVE  at + 1 \in DOMAIN Lines /\ Line = Lines[at + 1] /\ at + 1 <= Len(Lines)
<1>1. IsSheet(Lines)
  BY ImageFacts DEF Inv, ParseInv, IsImage, Exists, Lines, IsToc, IsCue
<1> QED BY <1>1 DEF IsSheet, Inv, TypeOK, Line, LinesEnd

LEMMA TocFacts ==
  ASSUME Inv, Parsing("toc")
  PROVE  IsToc(Lines)
BY ImageFacts DEF Inv, ParseInv, IsImage, Exists, Lines, Parsing

LEMMA CueFacts ==
  ASSUME Inv, Parsing("cue")
  PROVE  IsCue(Lines)
BY ImageFacts DEF Inv, ParseInv, IsImage, Exists, Lines, Parsing

LEMMA FileLineTyped ==
  ASSUME NEW t \in TracksOf("toc"), NEW line,
         line.name \in STRING \cup {None}, line.offset \in 0 .. U64 - 1 \cup {None},
         line.length \in Nat \cup {None}
  PROVE  /\ apply_file_line(t, line) \in TracksOf("toc")
         /\ apply_file_line(t, line).mode = t.mode
<1>1. t \in [mode : STRING, datafile : STRING \cup {None},
             file_offset : 0 .. U64 - 1, length_sectors : Nat]
  BY DEF TracksOf
<1>2. /\ apply_file_line(t, line) \in [mode : STRING, datafile : STRING \cup {None},
             file_offset : 0 .. U64 - 1, length_sectors : Nat]
      /\ apply_file_line(t, line).mode = t.mode
  <2>1. CASE line.name = None
    BY <1>1, <2>1 DEF apply_file_line
  <2>2. CASE line.name # None
    BY <1>1, <2>2 DEF apply_file_line
  <2> QED BY <2>1, <2>2
<1> QED BY <1>2 DEF TracksOf

LEMMA TocTyped ==
  ASSUME Inv, TocTrack \/ TocFile \/ TocSkip
  PROVE  TypeOK'
<1>1. /\ UNCHANGED <<image, outcome, block, file, windowVars>> /\ outcome = "parsing"
      /\ image.ext = "toc" /\ at' = at + 1 /\ ~LinesEnd /\ Parsing("toc")
  BY DEF TocTrack, TocFile, TocSkip, Parsing, NextLine
<1>2. at + 1 \in DOMAIN Lines /\ Line = Lines[at + 1] /\ IsToc(Lines)
  BY <1>1, LineHeld, TocFacts
<1>3. tracks \in Seq(TracksOf("toc"))
  BY <1>1 DEF Inv, TypeOK
<1>4. tracks' \in Seq(TracksOf("toc"))
  <2>1. CASE TocTrack
    <3> DEFINE t == [mode |-> Line.mode, datafile |-> None,
                     file_offset |-> 0, length_sectors |-> 0]
    <3>1. Line.mode \in STRING /\ 0 \in 0 .. U64 - 1
      BY <1>2, <2>1, WidthAssumption DEF IsToc, TocTrack, U64
    <3>2. t \in TracksOf("toc")
      BY <3>1 DEF TracksOf
    <3>3. tracks' = Append(tracks, t)
      BY <2>1 DEF TocTrack
    <3> QED BY <1>3, <3>2, <3>3, AppendProperties
  <2>2. CASE TocFile
    <3>1. Len(tracks) \in 1 .. Len(tracks)
      BY <1>3, <2>2, EmptySeq DEF TocFile
    <3>2. tracks[Len(tracks)] \in TracksOf("toc")
      BY <1>3, <3>1, ElementOfSeq
    <3>3. apply_file_line(tracks[Len(tracks)], Line) \in TracksOf("toc")
      BY <1>2, <2>2, <3>2, FileLineTyped DEF IsToc, TocFile
    <3>4. tracks' = [tracks EXCEPT ![Len(tracks)] = apply_file_line(tracks[Len(tracks)], Line)]
      BY <2>2 DEF TocFile
    <3> QED BY <1>3, <3>1, <3>3, <3>4, ExceptSeq
  <2>3. CASE TocSkip
    BY <1>3, <2>3 DEF TocSkip
  <2> QED BY <2>1, <2>2, <2>3
<1> QED BY <1>1, <1>4, ParserTyped DEF Inv, TypeOK

LEMMA CueTyped ==
  ASSUME Inv, CueFile \/ CueTrack \/ CueSkip
  PROVE  TypeOK'
<1>1. /\ UNCHANGED <<image, outcome, block, windowVars>> /\ outcome = "parsing"
      /\ image.ext = "cue" /\ at' = at + 1 /\ ~LinesEnd /\ Parsing("cue")
  BY DEF CueTrack, CueFile, CueSkip, Parsing, NextLine
<1>2. at + 1 \in DOMAIN Lines /\ Line = Lines[at + 1] /\ IsCue(Lines)
  BY <1>1, LineHeld, CueFacts
<1>3. tracks \in Seq(TracksOf("cue")) /\ file \in STRING \cup {None}
  BY <1>1 DEF Inv, TypeOK
<1>4. tracks' \in Seq(TracksOf("cue")) /\ file' \in STRING \cup {None}
  <2>1. CASE CueTrack
    <3> DEFINE t == [file |-> file, mode |-> Line.mode]
    <3>1. Line.mode \in STRING /\ file \in STRING
      BY <1>2, <1>3, <2>1 DEF IsCue, CueTrack
    <3>2. t \in TracksOf("cue")
      BY <3>1 DEF TracksOf
    <3>3. tracks' = Append(tracks, t) /\ file' = file
      BY <2>1 DEF CueTrack
    <3> QED BY <1>3, <3>2, <3>3, AppendProperties
  <2>2. CASE CueFile
    BY <1>2, <1>3, <2>2 DEF CueFile, IsCue
  <2>3. CASE CueSkip
    BY <1>3, <2>3 DEF CueSkip
  <2> QED BY <2>1, <2>2, <2>3
<1> QED BY <1>1, <1>4, ParserTyped DEF Inv, TypeOK

LEMMA OpenTyped ==
  ASSUME Inv, OpenNrg \/ OpenMds \/ OpenToc \/ OpenCue
  PROVE  TypeOK' /\ [WindowNext]_windowVars
<1>1. TypeOK /\ HasDataTrack /\ outcome = "parsing"
  BY DEF Inv, OpenNrg, OpenMds, OpenToc, OpenCue, NrgEnds, MdsEnds, SheetEnds, Parsing
<1>2. data_track \in TracksOf(image.ext) /\ IsData(data_track)
  BY <1>1, DataTrackTyped
<1> DEFINE t == data_track
<1> HIDE DEF t
<1>3. CASE OpenNrg
  <2>1. image.ext = "nrg" /\ HandOut("nrg", t.start, t.size)
    BY <1>3 DEF OpenNrg, NrgEnds, Parsing, t
  <2>2. t.start \in Nat /\ t.size \in 0 .. U64 - 1
    BY <1>2, <2>1, WidthAssumption DEF TracksOf, t, U64
  <2> QED BY <1>1, <2>1, <2>2, HandOutTyped
<1>4. CASE OpenMds
  <2>1. image.ext = "mds" /\ HandOut("mdf", t.start, t.sectors * t.size)
    BY <1>4 DEF OpenMds, MdsEnds, Parsing, t
  <2>2. /\ t \in [mode : Nat, size : Nat, start : 0 .. U64 - 1, sectors : Nat]
        /\ t.sectors * t.size < U64
    BY <1>2, <2>1 DEF TracksOf, t
  <2>3. t.sectors * t.size \in Nat
    BY <2>2
  <2>4. t.start \in Nat /\ t.sectors * t.size \in 0 .. U64 - 1
    BY <2>2, <2>3, WidthAssumption DEF U64
  <2> QED BY <1>1, <2>1, <2>4, HandOutTyped
<1>5. CASE OpenToc
  <2> DEFINE len == TocLength(t.datafile, t.file_offset, t.length_sectors, t.mode)
  <2>1. image.ext = "toc"
    BY <1>5 DEF OpenToc, SheetEnds, Parsing
  <2>2. t.file_offset \in Nat /\ t.length_sectors \in Nat /\ t.mode \in DOMAIN TocModes
    BY <1>2, <2>1, WidthAssumption DEF TracksOf, t, U64, IsData, TocIsData
  <2>3. CASE t.datafile = None
    <3>1. Fail("BadDescriptor")
      BY <1>5, <2>3 DEF OpenToc, t
    <3> QED BY <1>1, <3>1, FailTyped DEF Errors
  <2>4. CASE t.datafile # None
    <3>1. HandOut(t.datafile, t.file_offset, len)
      BY <1>5, <2>4 DEF OpenToc, t
    <3>2. ASSUME Exists(t.datafile) PROVE len \in 0 .. U64 - 1
      <4>1. image.files[t.datafile] \in 0 .. I64 - 1
        BY <1>1, <3>2, ImageFacts DEF IsImage, Exists
      <4>2. LeftOf(image.files[t.datafile], t.file_offset) \in 0 .. I64 - 1
        BY <2>2, <4>1, WidthAssumption DEF LeftOf
      <4>3. TocModes[t.mode] \in Nat
        BY <2>2 DEF TocModes
      <4>4. t.length_sectors * TocModes[t.mode] \in Nat
        BY <2>2, <4>3
      <4> HIDE DEF t
      <4> QED BY <4>2, <4>4, WidthAssumption DEF TocLength, Lesser, U64
    <3> HIDE DEF len
    <3> QED BY <1>1, <2>2, <3>1, <3>2, HandOutTyped
  <2> QED BY <2>3, <2>4
<1>6. CASE OpenCue
  <2>1. HandOut(t.file, 0, image.files[t.file])
    BY <1>6 DEF OpenCue, t
  <2>2. Exists(t.file) => image.files[t.file] \in 0 .. U64 - 1
    BY <1>1, ImageFacts, WidthAssumption DEF IsImage, Exists, U64
  <2> QED BY <1>1, <2>1, <2>2, HandOutTyped
<1> QED BY <1>3, <1>4, <1>5, <1>6

LEMMA StepTyped ==
  ASSUME Inv, [Next]_vars
  PROVE  TypeOK' /\ [WindowNext]_windowVars
<1> USE DEF Inv
<1>1. CASE UNCHANGED vars
  BY <1>1 DEF vars, parserVars, windowVars, TypeOK
<1>2. CASE StartNrg
  <2>1. outcome = "closed"
    BY <1>2 DEF StartNrg
  <2>2. CASE ~Exists("nrg")
    <3>1. Fail("io")
      BY <1>2, <2>2 DEF StartNrg
    <3> QED BY <2>1, <3>1, FailTyped DEF Errors
  <2>3. CASE /\ Exists("nrg")
             /\ image.content.footer = None \/ image.content.footer.offset >= length
    <3>1. Fail("NotAnIso")
      BY <1>2, <2>3 DEF StartNrg
    <3> QED BY <2>1, <3>1, FailTyped DEF Errors
  <2>4. CASE /\ Exists("nrg")
             /\ ~(image.content.footer = None \/ image.content.footer.offset >= length)
    <3>1. Begin(image.content.footer.offset)
      BY <1>2, <2>4 DEF StartNrg
    <3>2. image.content.footer.offset \in Nat
      BY <1>2, <2>4, ImageFacts DEF StartNrg, IsImage, IsNrg, Exists
    <3> QED BY <2>1, <3>1, <3>2, BeginTyped
  <2> QED BY <2>2, <2>3, <2>4
<1>3. CASE StartMds
  <2>1. outcome = "closed" /\ (Fail("io") \/ Fail("NotAnIso") \/ Begin(0))
    BY <1>3 DEF StartMds
  <2> QED BY <2>1, FailTyped, BeginTyped DEF Errors
<1>4. CASE StartSheet
  <2>1. outcome = "closed" /\ (Fail("io") \/ Begin(0))
    BY <1>4 DEF StartSheet
  <2> QED BY <2>1, FailTyped, BeginTyped DEF Errors
<1>5. CASE NrgChunk
  BY <1>5, NrgChunkTyped DEF NrgChunk
<1>6. CASE MdsBlock
  BY <1>6, MdsBlockTyped DEF MdsBlock
<1>7. CASE MdsSession
  <2>1. TypeOK'
    BY <1>7, ParserTyped DEF MdsSession, Parsing, TypeOK
  <2> QED BY <1>7, <2>1 DEF MdsSession
<1>8. CASE TocTrack \/ TocFile \/ TocSkip
  BY <1>8, TocTyped DEF TocTrack, TocFile, TocSkip, NextLine
<1>9. CASE CueFile \/ CueTrack \/ CueSkip
  BY <1>9, CueTyped DEF CueFile, CueTrack, CueSkip, NextLine
<1>10. CASE NoDataTrack
  BY <1>10, FailTyped DEF NoDataTrack, ParserEnds, NrgEnds, MdsEnds, SheetEnds, Parsing, Errors
<1>11. CASE OpenNrg \/ OpenMds \/ OpenToc \/ OpenCue
  BY <1>11, OpenTyped
<1>12. CASE OpenPlain
  <2>1. Exists(image.ext) => length \in 0 .. U64 - 1
    BY ImageFacts, WidthAssumption DEF IsImage, Exists, length, U64
  <2> QED BY <1>12, <2>1, HandOutTyped DEF OpenPlain
<1>13. CASE OpenCcd
  <2>1. outcome = "closed"
    BY <1>13 DEF OpenCcd
  <2>2. CASE Exists("img")
    <3>1. HandOut("img", 0, image.files.img)
      BY <1>13, <2>2 DEF OpenCcd
    <3>2. image.files.img \in 0 .. U64 - 1
      BY <2>2, ImageFacts, WidthAssumption DEF IsImage, Exists, U64
    <3> QED BY <2>1, <3>1, <3>2, HandOutTyped
  <2>3. CASE ~Exists("img")
    BY <1>13, <2>1, <2>3, FailTyped DEF OpenCcd, Errors
  <2> QED BY <2>2, <2>3
<1>14. CASE Call
  <2>1. WindowCalls /\ UNCHANGED <<image, outcome, at, block, file, tracks>>
    BY <1>14 DEF Call, parserVars
  <2>2. WindowInv'
    BY <2>1, InvNext DEF WindowNext
  <2>3. window # None /\ window' = window
    BY <2>1 DEF WindowCalls, Read, ReadFails, Seek
  <2>4. TypeOK'
    BY <2>1, <2>2, <2>3 DEF TypeOK, WindowInv
  <2> QED BY <2>1, <2>4 DEF WindowNext
<1> QED BY <1>1, <1>2, <1>3, <1>4, <1>5, <1>6, <1>7, <1>8, <1>9, <1>10, <1>11, <1>12, <1>13,
           <1>14 DEF Next, Open

--------------------------------------------------------------------------------
(* What the image declares does not change while it is parsed.               *)

LEMMA ImageKept ==
  ASSUME image' = image
  PROVE  /\ length' = length /\ Lines' = Lines
         /\ \A x : Exists(x)' <=> Exists(x)
         /\ \A t : IsData(t)' <=> IsData(t)
         /\ \A p : NrgAt(p)' = NrgAt(p) /\ MdsAt(p)' = MdsAt(p)
         /\ \A p : read_extra_length(p)' = read_extra_length(p)
BY DEF length, Lines, Exists, IsData, NrgAt, MdsAt, read_extra_length

LEMMA DeclaredKept ==
  ASSUME image' = image
  PROVE  Declared' = Declared
<1>1. /\ length' = length /\ Lines' = Lines
      /\ \A p : NrgAt(p)' = NrgAt(p) /\ MdsAt(p)' = MdsAt(p)
  BY ImageKept
<1>2. \A p : Listed(p)' <=> Listed(p)
  BY <1>1 DEF Listed
<1>3. NrgDeclared' = NrgDeclared
  <2> DEFINE chunks == image.content.chunks
             Of(p) == {<<p, j>> : j \in {k \in DOMAIN ChunkTracks(chunks[p]) :
                                           NrgAt(<<p, k>>).code \in NrgDataCodes}}
             listed == {q \in DOMAIN chunks : Listed(q)}
  <2>1. listed' = listed
    BY <1>2
  <2>2. \A p : Of(p)' = Of(p)
    BY <1>1
  <2>3. {Of(p) : p \in listed}' = {Of(p) : p \in listed}
    <3> HIDE DEF Of, listed
    <3> QED BY <2>1, <2>2
  <2> QED BY <2>3 DEF NrgDeclared
<1>4. MdsDeclared' = MdsDeclared
  BY <1>1 DEF MdsDeclared
<1>5. TocDeclared' = TocDeclared
  BY <1>1 DEF TocDeclared
<1>6. \A i, j : LastFile(i, j)' <=> LastFile(i, j)
  BY <1>1 DEF LastFile
<1>7. CueDeclared' = CueDeclared
  BY <1>1, <1>6 DEF CueDeclared
<1> QED BY <1>1, <1>3, <1>4, <1>5, <1>7 DEF Declared

--------------------------------------------------------------------------------
(* Tracks added.                                                            *)

LEMMA Joined ==
  ASSUME TypeOK, image' = image, NEW ts \in Seq(TracksOf(image.ext)), tracks' = tracks \o ts
  PROVE  /\ Len(tracks) \in Nat /\ DOMAIN tracks = 1 .. Len(tracks)
         /\ Len(ts) \in Nat /\ DOMAIN ts = 1 .. Len(ts)
         /\ DOMAIN tracks' = 1 .. Len(tracks) + Len(ts)
         /\ \A k \in DOMAIN tracks : tracks'[k] = tracks[k]
         /\ \A m \in DOMAIN ts : tracks'[Len(tracks) + m] = ts[m]
         /\ \A k \in DOMAIN tracks' \ DOMAIN tracks :
              k - Len(tracks) \in DOMAIN ts /\ tracks'[k] = ts[k - Len(tracks)]
<1>1. /\ Len(tracks) \in Nat /\ DOMAIN tracks = 1 .. Len(tracks)
      /\ Len(ts) \in Nat /\ DOMAIN ts = 1 .. Len(ts) /\ tracks \in Seq(TracksOf(image.ext))
  BY LenProperties DEF TypeOK
<1>2. /\ tracks' \in Seq(TracksOf(image.ext)) /\ Len(tracks') = Len(tracks) + Len(ts)
      /\ \A i \in 1 .. Len(tracks) + Len(ts) :
           tracks'[i] = IF i <= Len(tracks) THEN tracks[i] ELSE ts[i - Len(tracks)]
  BY <1>1, ConcatProperties
<1>3. DOMAIN tracks' = 1 .. Len(tracks) + Len(ts)
  BY <1>2, LenProperties
<1>4. \A k \in DOMAIN tracks : tracks'[k] = tracks[k]
  BY <1>1, <1>2
<1>5. ASSUME NEW m \in DOMAIN ts PROVE tracks'[Len(tracks) + m] = ts[m]
  <2>1. Len(tracks) + m \in 1 .. Len(tracks) + Len(ts) /\ ~(Len(tracks) + m <= Len(tracks))
        /\ (Len(tracks) + m) - Len(tracks) = m
    BY <1>1
  <2> QED BY <1>2, <2>1
<1>6. \A k \in DOMAIN tracks' \ DOMAIN tracks :
        k - Len(tracks) \in DOMAIN ts /\ tracks'[k] = ts[k - Len(tracks)]
  BY <1>1, <1>2, <1>3
<1> QED BY <1>1, <1>3, <1>4, <1>5, <1>6

LEMMA FoundKept ==
  ASSUME TypeOK, image' = image, NEW ts \in Seq(TracksOf(image.ext)), tracks' = tracks \o ts,
         NEW k, Found(k)
  PROVE  k \in DOMAIN tracks' /\ Found(k)' /\ tracks'[k] = tracks[k]
<1>1. k \in DOMAIN tracks /\ IsData(tracks[k]) /\ \A j \in 1 .. k - 1 : ~IsData(tracks[j])
  BY DEF Found
<1>2. /\ Len(tracks) \in Nat /\ DOMAIN tracks = 1 .. Len(tracks) /\ Len(ts) \in Nat
      /\ DOMAIN tracks' = 1 .. Len(tracks) + Len(ts)
      /\ \A i \in DOMAIN tracks : tracks'[i] = tracks[i]
  BY Joined
<1>3. \A t : IsData(t)' <=> IsData(t)
  BY ImageKept
<1>4. \A j \in 1 .. k - 1 : j \in DOMAIN tracks
  BY <1>1, <1>2
<1> QED BY <1>1, <1>2, <1>3, <1>4 DEF Found

LEMMA FoundNew ==
  ASSUME TypeOK, image' = image, NEW ts \in Seq(TracksOf(image.ext)), tracks' = tracks \o ts,
         \A k \in DOMAIN tracks : ~IsData(tracks[k]),
         NEW m \in DOMAIN ts, IsData(ts[m]), \A j \in 1 .. m - 1 : ~IsData(ts[j]),
         NEW k, k = Len(tracks) + m
  PROVE  k \in DOMAIN tracks' /\ Found(k)' /\ tracks'[k] = ts[m]
<1>1. /\ Len(tracks) \in Nat /\ DOMAIN tracks = 1 .. Len(tracks) /\ Len(ts) \in Nat
      /\ DOMAIN ts = 1 .. Len(ts)
      /\ DOMAIN tracks' = 1 .. Len(tracks) + Len(ts)
      /\ \A i \in DOMAIN tracks : tracks'[i] = tracks[i]
      /\ \A i \in DOMAIN tracks' \ DOMAIN tracks :
           i - Len(tracks) \in DOMAIN ts /\ tracks'[i] = ts[i - Len(tracks)]
      /\ tracks'[k] = ts[m]
  BY Joined
<1>2. \A t : IsData(t)' <=> IsData(t)
  BY ImageKept
<1>3. k \in DOMAIN tracks' /\ IsData(tracks[k])'
  BY <1>1, <1>2
<1>4. ASSUME NEW j \in 1 .. k - 1 PROVE ~IsData(tracks[j])'
  <2>1. CASE j \in DOMAIN tracks
    BY <1>1, <1>2, <2>1
  <2>2. CASE j \notin DOMAIN tracks
    <3>1. j \in DOMAIN tracks' \ DOMAIN tracks /\ j - Len(tracks) \in 1 .. m - 1
      BY SMTT(40), <1>1, <2>2
    <3> QED BY <1>1, <1>2, <3>1
  <2> QED BY <2>1, <2>2
<1> QED BY <1>1, <1>3, <1>4 DEF Found

LEMMA NoneAdded ==
  ASSUME TypeOK, image' = image, NEW ts \in Seq(TracksOf(image.ext)), tracks' = tracks \o ts,
         \A k \in DOMAIN tracks : ~IsData(tracks[k]),
         \A m \in DOMAIN ts : ~IsData(ts[m])
  PROVE  (\A k \in DOMAIN tracks : ~IsData(tracks[k]))'
<1>1. \A t : IsData(t)' <=> IsData(t)
  BY ImageKept
<1>2. \A k \in DOMAIN tracks' : ~IsData(tracks[k])'
  BY <1>1, Joined
<1> QED BY <1>2

(* Tracks are added behind the first data track.                            *)
LEMMA FirstKept ==
  ASSUME TypeOK, image' = image, NEW ts \in Seq(TracksOf(image.ext)), tracks' = tracks \o ts,
         FirstFound,
         \A p \in Declared : Passed(p) => Passed(p)',
         \A t : \A p \in Declared : Passed(p) /\ Holds(t, p) => Holds(t, p)',
         image.ext = "toc" => /\ Len(ts) > 0
                              /\ \A p \in Declared : Passed(p) => ~StillLast(p)'
  PROVE  FirstFound'
<1>1. PICK k \in DOMAIN tracks, p \in Declared :
        Found(k) /\ IsFirst(p) /\ Passed(p) /\ Holds(tracks[k], p)
  BY DEF FirstFound
<1>2. k \in DOMAIN tracks' /\ Found(k)' /\ tracks'[k] = tracks[k]
  BY <1>1, FoundKept
<1>3. Declared' = Declared
  BY DeclaredKept
<1>4. IsFirst(p)' /\ p \in Declared'
  BY <1>1, <1>3 DEF IsFirst
<1>5. Passed(p)' /\ Holds(tracks[k], p)'
  <2>1. PICK t : t = tracks[k]
    OBVIOUS
  <2>2. Holds(t, p)' /\ t = tracks'[k]
    BY <1>1, <1>2, <2>1
  <2> QED BY <1>1, <2>2
<1>6. (image.ext = "toc" => (k = Len(tracks) <=> StillLast(p)))'
  <2>1. CASE image.ext # "toc"
    BY <2>1
  <2>2. CASE image.ext = "toc"
    <3>1. ~StillLast(p)'
      BY <1>1, <2>2
    <3>2. Len(tracks') = Len(tracks) + Len(ts) /\ k <= Len(tracks)
          /\ Len(tracks) \in Nat /\ Len(ts) \in Nat
      BY <1>1, Joined, ConcatProperties DEF TypeOK
    <3>3. k # Len(tracks')
      BY <1>1, <2>2, <3>2, Joined
    <3> QED BY <3>1, <3>3
  <2> QED BY <2>1, <2>2
<1> QED BY <1>2, <1>4, <1>5, <1>6 DEF FirstFound

(* The first data track is among the tracks added.                          *)
LEMMA FirstAdded ==
  ASSUME TypeOK, image' = image, NEW ts \in Seq(TracksOf(image.ext)), tracks' = tracks \o ts,
         NoneFound,
         NEW m \in DOMAIN ts, IsData(ts[m]), \A j \in 1 .. m - 1 : ~IsData(ts[j]),
         NEW p, IsFirst(p), Passed(p)', Holds(ts[m], p)',
         image.ext = "toc" => m = Len(ts) /\ StillLast(p)'
  PROVE  FirstFound'
<1>1. PICK k : k = Len(tracks) + m
  OBVIOUS
<1>2. k \in DOMAIN tracks' /\ Found(k)' /\ tracks'[k] = ts[m]
  BY ZenonT(60), <1>1, FoundNew DEF NoneFound
<1>3. Declared' = Declared
  BY DeclaredKept
<1>4. IsFirst(p)' /\ p \in Declared'
  BY <1>3 DEF IsFirst
<1>5. Holds(tracks[k], p)'
  <2>1. PICK t : t = ts[m]
    OBVIOUS
  <2>2. Holds(t, p)' /\ t = tracks'[k]
    BY <1>2, <2>1
  <2> QED BY <2>2
<1>6. (image.ext = "toc" => (k = Len(tracks) <=> StillLast(p)))'
  <2>1. Len(tracks') = Len(tracks) + Len(ts)
    BY ConcatProperties DEF TypeOK
  <2> QED BY <1>1, <2>1
<1> QED BY <1>2, <1>4, <1>5, <1>6 DEF FirstFound

--------------------------------------------------------------------------------
(* Nero.                                                                    *)

LEMMA ListedChain ==
  \A p : Listed(p) <=> \E C \in SUBSET DOMAIN image.content.chunks : Chain(C, p)
BY DEF Listed, Chain, InList, Behind

LEMMA NrgPlaces ==
  ASSUME image.ext = "nrg", image.content.footer # None
  PROVE  \A x : x \in Declared <=>
           \E p \in DOMAIN image.content.chunks :
             \E j \in DOMAIN ChunkTracks(image.content.chunks[p]) :
               x = <<p, j>> /\ Listed(p) /\ NrgIsData(NrgAt(<<p, j>>))
<1> DEFINE chunks == image.content.chunks
           Of(p) == {<<p, j>> : j \in {k \in DOMAIN ChunkTracks(chunks[p]) :
                                         NrgAt(<<p, k>>).code \in NrgDataCodes}}
           listed == {q \in DOMAIN chunks : Listed(q)}
<1>1. Declared = UNION {Of(p) : p \in listed}
  BY DEF Declared, NrgDeclared
<1>2. \A p, x : x \in Of(p) <=> \E j \in DOMAIN ChunkTracks(chunks[p]) :
                                   x = <<p, j>> /\ NrgIsData(NrgAt(<<p, j>>))
  BY DEF NrgIsData
<1>3. \A x : x \in Declared <=> \E p \in listed : x \in Of(p)
  <2> HIDE DEF Of, listed
  <2> QED BY <1>1
<1> HIDE DEF Of
<1> QED BY ZenonT(60), <1>2, <1>3

LEMMA NrgTrackAt ==
  \A p, j : NrgAt(<<p, j>>) = ChunkTracks(image.content.chunks[p])[j]
BY DEF NrgAt

LEMMA NrgStarts ==
  ASSUME Inv, outcome = "closed", image.ext = "nrg", Exists("nrg"),
         image.content.footer # None, Begin(image.content.footer.offset)
  PROVE  ParseInv'
<1> DEFINE c == image.content
           o == image.content.footer.offset
<1>1. /\ image' = image /\ outcome' = "parsing" /\ at' = o /\ tracks' = <<>>
      /\ length' = length /\ Declared' = Declared
  BY ImageKept, DeclaredKept DEF Begin, Inv, Fresh
<1>2. o \in Nat
  BY ImageFacts DEF Inv, IsImage, IsNrg, Exists
<1>3. ChainInv'
  <2>1. \A p, C : Chain(C, p)' <=> Chain(C, p)
    BY <1>1 DEF Chain
  <2>2. \A p, C : Chain(C, p) => o \in C
    BY DEF Chain
  <2>3. PICK d, p : d = c /\ p = o /\ d.footer # None
    OBVIOUS
  <2>4. d = c' /\ p = o' /\ p = at'
    BY <1>1, <2>3
  <2>5. \E C \in SUBSET {q \in DOMAIN d.chunks : q < p} :
          /\ p \in C \cup {p}
          /\ \A q \in C : InList(d, length', q) /\ Behind(d, q) \in C \cup {p}
    <3>1. {} \in SUBSET {q \in DOMAIN d.chunks : q < p}
      OBVIOUS
    <3> QED BY <3>1
  <2>6. \A q \in DOMAIN d.chunks, C \in SUBSET DOMAIN d.chunks : Chain(C, q)' => p \in C
    BY <2>1, <2>2, <2>3
  <2> HIDE DEF c, o
  <2> QED BY <2>3, <2>4, <2>5, <2>6 DEF ChainInv, c, o
<1>4. NoneFound'
  <2>1. DOMAIN tracks' = {}
    BY <1>1
  <2>2. ASSUME NEW p \in Declared PROVE ~Passed(p)'
    <3>1. PICK q \in DOMAIN c.chunks : \E j \in DOMAIN ChunkTracks(c.chunks[q]) :
                                         p = <<q, j>> /\ Listed(q)
      BY NrgPlaces
    <3>2. PICK C : Chain(C, q)
      BY <3>1, ListedChain
    <3>3. o <= q
      BY <3>2 DEF Chain
    <3>4. q \in Nat
      BY ImageFacts, <3>1 DEF Inv, IsImage, IsNrg, Exists
    <3>5. ~(q < o)
      BY <1>2, <3>3, <3>4
    <3> QED BY <1>1, <3>1, <3>5 DEF Passed
  <2> QED BY <1>1, <2>1, <2>2 DEF NoneFound
<1>5. image'.ext = "nrg" /\ Exists("nrg")'
  BY <1>1 DEF Exists
<1> QED BY <1>3, <1>4, <1>5 DEF ParseInv

(* A chunk that is in the list and has not been passed is the one the parser *)
(* is at, or lies behind it.                                                *)
LEMMA NextListed ==
  ASSUME Inv, Parsing("nrg"), InList(image.content, length, at),
         NEW p \in DOMAIN image.content.chunks, NEW C \in SUBSET DOMAIN image.content.chunks,
         Chain(C, p)
  PROVE  \/ p < at
         \/ p = at
         \/ Behind(image.content, at) \in C /\ Behind(image.content, at) <= p
BY DEF Inv, ParseInv, Parsing, ChainInv, Chain

LEMMA ChainGrows ==
  ASSUME Inv, NrgChunk
  PROVE  ChainInv' /\ Listed(at)
<1> DEFINE c == image.content
           o == image.content.footer.offset
           b == Behind(c, at)
<1>1. /\ image' = image /\ length' = length /\ at' = b /\ Parsing("nrg")
      /\ InList(c, length, at)
  BY ImageKept DEF NrgChunk
<1>2. at \in DOMAIN c.chunks /\ at \in Nat /\ b \in Nat /\ at < b
  BY <1>1, ChunkHeld
<1>3. PICK C \in SUBSET {q \in DOMAIN c.chunks : q < at} :
        /\ o \in C \cup {at}
        /\ \A q \in C : InList(c, length, q) /\ Behind(c, q) \in C \cup {at}
  BY <1>1 DEF Inv, ParseInv, Parsing, ChainInv
<1> DEFINE D == C \cup {at}
<1>4. \A q \in DOMAIN c.chunks : q \in Nat
  BY <1>1, ImageFacts DEF Inv, ParseInv, Parsing, ChainInv, IsImage, IsNrg, Exists, length
<1>5. D \subseteq {q \in DOMAIN c.chunks : q <= at} /\ D \subseteq {q \in DOMAIN c.chunks : q < b}
  BY <1>2, <1>3, <1>4
<1>6. Listed(at)
  <2>1. Chain(D, at)
    BY <1>1, <1>3, <1>5 DEF Chain
  <2>2. D \in SUBSET DOMAIN c.chunks
    BY <1>5
  <2> QED BY <2>1, <2>2, ListedChain
<1>7. ChainInv'
  <2>1. \A p, E : Chain(E, p)' <=> Chain(E, p)
    BY <1>1 DEF Chain
  <2>2. ASSUME NEW p \in DOMAIN c.chunks, NEW E \in SUBSET DOMAIN c.chunks, Chain(E, p)
        PROVE  p < b \/ b \in E
    <3>1. p < at \/ p = at \/ b \in E
      BY <1>1, <2>2, NextListed
    <3> QED BY <1>2, <1>4, <3>1
  <2>3. D \in SUBSET {q \in DOMAIN c.chunks : q < b} /\ o \in D \cup {b}
        /\ \A q \in D : InList(c, length, q) /\ Behind(c, q) \in D \cup {b}
    BY <1>1, <1>3, <1>5
  <2>4. b \in {Behind(c, q) : q \in {q \in DOMAIN c.chunks : InList(c, length, q)}}
    BY <1>1, <1>2
  <2>5. c.footer # None
    BY <1>1 DEF Inv, ParseInv, Parsing, ChainInv
  <2> HIDE DEF b, D
  <2> QED BY <1>1, <2>1, <2>2, <2>3, <2>4, <2>5 DEF ChainInv
<1> QED BY <1>6, <1>7

LEMMA NrgChunkParses == ASSUME Inv, NrgChunk PROVE ParseInv'
<1> DEFINE chunks == image.content.chunks
<1>1. /\ image' = image /\ outcome' = "parsing" /\ outcome = "parsing" /\ image.ext = "nrg"
      /\ at' = Behind(image.content, at) /\ tracks' = tracks \o ChunkTracks(chunks[at])
      /\ InList(image.content, length, at) /\ Parsing("nrg")
  BY DEF NrgChunk, Parsing
<1>2. TypeOK /\ (FirstFound \/ NoneFound) /\ Exists("nrg") /\ image.content.footer # None
  BY <1>1 DEF Inv, ParseInv, ChainInv
<1>3. PICK ts \in Seq(TracksOf(image.ext)) : ts = ChunkTracks(chunks[at])
  BY <1>1, ChunkTracksTyped
<1>4. /\ at \in DOMAIN chunks /\ at \in Nat /\ at' \in Nat /\ at < at'
      /\ DOMAIN ts = 1 .. Len(ts) /\ Len(ts) \in Nat
  BY <1>1, ChunkHeld, LenProperties
<1>5. ChainInv' /\ Listed(at)
  BY ChainGrows
<1>6. Declared' = Declared
  BY <1>1, DeclaredKept
<1>7. \A q \in DOMAIN chunks : q \in Nat
  BY <1>1, <1>2, ImageFacts DEF IsImage, IsNrg, Exists
<1>8. \A p : /\ Passed(p) <=> p[1] < at
             /\ Passed(p)' <=> p[1] < at'
  BY <1>1 DEF Passed
<1>9. \A t, p : /\ Holds(t, p) <=> t = NrgAt(p)
                /\ Holds(t, p)' <=> t = NrgAt(p)
  BY <1>1, ImageKept DEF Holds
<1>10. \A t : IsData(t) <=> NrgIsData(t)
  BY <1>1 DEF IsData
<1>11. FirstFound' \/ NoneFound'
  <2>1. CASE FirstFound
    <3>1. \A p \in Declared : Passed(p) => Passed(p)'
      <4>1. ASSUME NEW p \in Declared PROVE p[1] \in Nat
        <5>1. PICK r \in DOMAIN chunks : \E j \in DOMAIN ChunkTracks(chunks[r]) :
                                           p = <<r, j>> /\ Listed(r)
          BY <1>1, <1>2, NrgPlaces
        <5> QED BY <1>7, <5>1
      <4> QED BY <1>4, <1>8, <4>1
    <3> QED BY <1>1, <1>2, <1>3, <1>9, <2>1, <3>1, FirstKept
  <2>2. CASE NoneFound /\ \E m \in DOMAIN ts : NrgIsData(ts[m])
    <3>1. PICK m \in {i \in DOMAIN ts : NrgIsData(ts[i])} :
            \A j \in {i \in DOMAIN ts : NrgIsData(ts[i])} : m <= j
      <4>1. {i \in DOMAIN ts : NrgIsData(ts[i])} \in SUBSET Nat
        BY <1>4
      <4> QED BY <2>2, <4>1, Least
    <3> DEFINE p == <<at, m>>
    <3>2. p \in Declared
      <4>1. m \in DOMAIN ChunkTracks(chunks[at]) /\ NrgIsData(NrgAt(<<at, m>>))
        BY <1>3, <3>1, NrgTrackAt
      <4> QED BY <1>1, <1>2, <1>4, <1>5, <4>1, NrgPlaces
    <3>3. ASSUME NEW q \in Declared PROVE ~Before(q, p)
      <4>1. PICK r \in DOMAIN chunks : \E j \in DOMAIN ChunkTracks(chunks[r]) :
                                         /\ q = <<r, j>> /\ Listed(r)
                                         /\ NrgIsData(NrgAt(<<r, j>>))
        BY <1>1, <1>2, NrgPlaces
      <4>2. PICK j \in DOMAIN ChunkTracks(chunks[r]) :
              q = <<r, j>> /\ NrgIsData(NrgAt(<<r, j>>))
        BY SMTT(40), <4>1
      <4>3. ~(r < at)
        BY <1>8, <2>2, <4>2 DEF NoneFound
      <4>4. r = at => m <= j /\ j \in Nat
        BY SMTT(40), <1>3, <1>4, <3>1, <4>2, NrgTrackAt
      <4> QED BY <1>4, <1>7, <3>1, <4>2, <4>3, <4>4 DEF Before
    <3>4. IsFirst(p)
      BY <3>2, <3>3 DEF IsFirst
    <3>5. PICK q : q = p
      OBVIOUS
    <3>6. Passed(q)' /\ Holds(ts[m], q)' /\ IsFirst(q)
      BY <1>3, <1>4, <1>8, <1>9, <3>4, <3>5, NrgTrackAt
    <3>7. \A j \in 1 .. m - 1 : ~IsData(ts[j])
      BY <1>4, <1>10, <3>1
    <3>8. IsData(ts[m]) /\ m \in DOMAIN ts
      BY <1>10, <3>1
    <3> QED BY <1>1, <1>2, <1>3, <2>2, <3>6, <3>7, <3>8, FirstAdded
  <2>3. CASE NoneFound /\ ~\E m \in DOMAIN ts : NrgIsData(ts[m])
    <3>1. (\A k \in DOMAIN tracks : ~IsData(tracks[k]))'
      BY <1>1, <1>2, <1>3, <1>10, <2>3, NoneAdded DEF NoneFound
    <3>2. ASSUME NEW q \in Declared PROVE ~Passed(q)'
      <4>1. PICK r \in DOMAIN chunks : \E j \in DOMAIN ChunkTracks(chunks[r]) :
                                         /\ q = <<r, j>> /\ Listed(r)
                                         /\ NrgIsData(NrgAt(<<r, j>>))
        BY <1>1, <1>2, NrgPlaces
      <4>2. r # at /\ q[1] = r
        BY <1>3, <2>3, <4>1, NrgTrackAt
      <4>3. ~(r < at)
        BY <1>8, <2>3, <4>2 DEF NoneFound
      <4>4. PICK C \in SUBSET DOMAIN chunks : Chain(C, r)
        BY <4>1, ListedChain
      <4>5. at' <= r
        BY <1>1, <4>2, <4>3, <4>4, NextListed
      <4> QED BY <1>4, <1>7, <1>8, <4>2, <4>5
    <3> QED BY <1>6, <3>1, <3>2 DEF NoneFound
  <2> QED BY <1>2, <2>1, <2>2, <2>3
<1>12. image'.ext = "nrg" /\ Exists("nrg")'
  BY <1>1, <1>2 DEF Exists
<1> QED BY <1>5, <1>11, <1>12 DEF ParseInv

LEMMA NrgAllPassed ==
  ASSUME Inv, NrgEnds, NEW p \in Declared
  PROVE  Passed(p)
<1>1. /\ Parsing("nrg") /\ image.ext = "nrg" /\ ~InList(image.content, length, at)
      /\ ChainInv /\ image.content.footer # None
  BY DEF NrgEnds, Parsing, Inv, ParseInv, ChainInv
<1>2. PICK q \in DOMAIN image.content.chunks :
        \E j \in DOMAIN ChunkTracks(image.content.chunks[q]) : p = <<q, j>> /\ Listed(q)
  BY <1>1, NrgPlaces
<1>3. PICK C \in SUBSET DOMAIN image.content.chunks : Chain(C, q)
  BY <1>2, ListedChain
<1>4. q < at \/ at \in C
  BY <1>1, <1>3 DEF ChainInv
<1>5. at \notin C
  BY <1>1, <1>3 DEF Chain
<1> QED BY <1>1, <1>2, <1>4, <1>5 DEF Passed

--------------------------------------------------------------------------------
(* Alcohol 120%.                                                            *)

MdsReady ==
  /\ image.ext = "mds" /\ IsMds(image.content, length) /\ length \in Nat
  /\ image.content.signature /\ length >= HEADER_LEN

LEMMA SessionTyped ==
  ASSUME MdsReady, NEW i \in Nat, SessionIn(image.content, length, i)
  PROVE  /\ i \in 0 .. MAX_BLOCKS - 1
         /\ image.content.session[SessionAt(image.content, i)] \in [count : Nat, first : Nat]
<1>1. i \in 0 .. MAX_BLOCKS - 1
  BY LimitsAssumption DEF MdsReady, IsMds, SessionIn, Lesser
<1> QED BY <1>1 DEF MdsReady, IsMds

LEMMA EarlierSession ==
  ASSUME MdsReady, NEW i \in Nat, NEW k \in Nat, k <= i, SessionIn(image.content, length, i)
  PROVE  SessionIn(image.content, length, k)
BY LimitsAssumption DEF MdsReady, IsMds, SessionIn, SessionAt, Lesser, SESSION_BLOCK_LEN

LEMMA EarlierBlock ==
  ASSUME MdsReady, NEW i \in Nat, NEW j \in Nat, NEW k \in Nat, k <= j,
         SessionIn(image.content, length, i), BlockIn(image.content, length, i, j)
  PROVE  BlockIn(image.content, length, i, k)
<1> DEFINE s == image.content.session[SessionAt(image.content, i)]
<1>1. s \in [count : Nat, first : Nat]
  BY SessionTyped
<1> HIDE DEF s
<1>2. j < Lesser(s.count, MAX_BLOCKS) /\ (s.first + j * 80) + 80 <= length
  BY DEF BlockIn, BlockAt, TRACK_BLOCK_LEN, s
<1>3. k < Lesser(s.count, MAX_BLOCKS) /\ (s.first + k * 80) + 80 <= length
  BY <1>1, <1>2, LimitsAssumption DEF MdsReady, Lesser
<1> QED BY <1>3 DEF BlockIn, BlockAt, TRACK_BLOCK_LEN, s

LEMMA MdsPlaces ==
  ASSUME MdsReady
  PROVE  /\ \A p \in Declared : p[1] \in Nat /\ p[2] \in Nat /\ p = <<p[1], p[2]>>
         /\ \A i, j \in Nat : <<i, j>> \in Declared <=>
              /\ SessionIn(image.content, length, i) /\ BlockIn(image.content, length, i, j)
              /\ IsTrack(MdsAt(<<i, j>>)) /\ MdsIsData(MdsAt(<<i, j>>))
<1> DEFINE c == image.content
           s(i) == c.session[c.first + i * 24]
<1>1. Declared = MdsDeclared /\ c.count \in Nat
  BY DEF MdsReady, Declared, IsMds
<1>2. \A p \in Declared : p[1] \in Nat /\ p[2] \in Nat /\ p = <<p[1], p[2]>>
  BY <1>1 DEF MdsDeclared
<1>3. ASSUME NEW i \in Nat, NEW j \in Nat
      PROVE  <<i, j>> \in Declared <=>
              /\ SessionIn(c, length, i) /\ BlockIn(c, length, i, j)
              /\ IsTrack(MdsAt(<<i, j>>)) /\ MdsIsData(MdsAt(<<i, j>>))
  <2>1. <<i, j>> \in Declared <=>
          /\ i \in 0 .. MAX_BLOCKS - 1 /\ j \in 0 .. MAX_BLOCKS - 1
          /\ i < c.count /\ (c.first + i * 24) + 24 <= length
          /\ j < s(i).count /\ (s(i).first + j * 80) + 80 <= length
          /\ MdsAt(<<i, j>>).point \in 1 .. 99 /\ MdsIsData(MdsAt(<<i, j>>))
    BY <1>1 DEF MdsDeclared
  <2>2. SessionIn(c, length, i) <=>
          i \in 0 .. MAX_BLOCKS - 1 /\ i < c.count /\ (c.first + i * 24) + 24 <= length
    BY <1>1, LimitsAssumption DEF SessionIn, SessionAt, SESSION_BLOCK_LEN, Lesser
  <2>3. ASSUME SessionIn(c, length, i)
        PROVE  BlockIn(c, length, i, j) <=>
                 /\ j \in 0 .. MAX_BLOCKS - 1
                 /\ j < s(i).count /\ (s(i).first + j * 80) + 80 <= length
    <3>1. s(i) \in [count : Nat, first : Nat]
      BY <2>3, SessionTyped DEF SessionAt, SESSION_BLOCK_LEN
    <3>2. BlockIn(c, length, i, j) <=>
            j < Lesser(s(i).count, MAX_BLOCKS) /\ (s(i).first + j * 80) + 80 <= length
      BY DEF BlockIn, BlockAt, SessionAt, SESSION_BLOCK_LEN, TRACK_BLOCK_LEN
    <3> HIDE DEF s
    <3> QED BY <3>1, <3>2, LimitsAssumption DEF Lesser
  <2> HIDE DEF s, c
  <2> QED BY <2>1, <2>2, <2>3 DEF IsTrack
<1> QED BY <1>2, <1>3

LEMMA MdsBlockAt ==
  \A i, j : MdsAt(<<i, j>>) = image.content.track[BlockAt(image.content, i, j)]
BY DEF MdsAt, BlockAt, SessionAt, SESSION_BLOCK_LEN, TRACK_BLOCK_LEN

LEMMA MdsTrackKind == \A b : MdsIsData(MdsTrack(b)) <=> MdsIsData(b)
BY DEF MdsIsData, MdsTrack

LEMMA MdsIsReady ==
  ASSUME Inv, Parsing("mds")
  PROVE  MdsReady
BY ImageFacts DEF Inv, ParseInv, Parsing, IsImage, length, Exists, MdsReady

LEMMA MdsStarts ==
  ASSUME Inv, outcome = "closed", image.ext = "mds", Exists("mds"), length >= HEADER_LEN,
         image.content.signature, Begin(0)
  PROVE  ParseInv'
<1>1. /\ image' = image /\ outcome' = "parsing" /\ at' = 0 /\ block' = 0 /\ tracks' = <<>>
      /\ length' = length /\ Declared' = Declared
  BY ImageKept, DeclaredKept DEF Begin, Inv, Fresh
<1>2. MdsReady
  BY ImageFacts DEF Inv, IsImage, length, Exists, MdsReady
<1>3. NoneFound'
  <2>1. DOMAIN tracks' = {}
    BY <1>1
  <2>2. ASSUME NEW p \in Declared PROVE ~Passed(p)'
    <3>1. p[1] \in Nat /\ p[2] \in Nat
      BY <1>2, MdsPlaces
    <3>2. ~(p[1] < 0 \/ (p[1] = 0 /\ p[2] < 0))
      BY <3>1
    <3> QED BY <1>1, <3>2 DEF Passed
  <2> QED BY <1>1, <2>1, <2>2 DEF NoneFound
<1>4. image'.ext = "mds" /\ Exists("mds")' /\ image'.content.signature /\ length' >= HEADER_LEN
  BY <1>1 DEF Exists
<1> QED BY <1>1, <1>3, <1>4 DEF ParseInv

LEMMA MdsParses == ASSUME Inv, MdsBlock \/ MdsSession PROVE ParseInv'
<1> DEFINE here == <<at, block>>
           b == image.content.track[BlockAt(image.content, at, block)]
<1>1. /\ image' = image /\ outcome' = "parsing" /\ outcome = "parsing" /\ image.ext = "mds"
      /\ SessionIn(image.content, length, at) /\ Parsing("mds") /\ length' = length
  BY ImageKept DEF MdsBlock, MdsSession, Parsing
<1>2. /\ TypeOK /\ (FirstFound \/ NoneFound) /\ Exists("mds") /\ MdsReady
      /\ at \in Nat /\ block \in Nat /\ tracks \in Seq(TracksOf("mds"))
  BY <1>1, MdsIsReady DEF Inv, ParseInv, TypeOK
<1>3. Declared' = Declared
  BY <1>1, DeclaredKept
<1>4. \A p : /\ Passed(p) <=> p[1] < at \/ (p[1] = at /\ p[2] < block)
             /\ Passed(p)' <=> p[1] < at' \/ (p[1] = at' /\ p[2] < block')
  BY <1>1 DEF Passed
<1>5. \A t, p : /\ Holds(t, p) <=> t = MdsTrack(MdsAt(p))
                /\ Holds(t, p)' <=> t = MdsTrack(MdsAt(p))
  BY <1>1, ImageKept DEF Holds, MdsTrack
<1>6. \A t : IsData(t) <=> MdsIsData(t)
  BY <1>1 DEF IsData
<1>7. \A p \in Declared : Passed(p) => Passed(p)'
  <2>1. ASSUME NEW p \in Declared, Passed(p) PROVE Passed(p)'
    <3>1. p[1] \in Nat /\ p[2] \in Nat
      BY <1>2, MdsPlaces
    <3>2. CASE MdsBlock
      BY <1>2, <1>4, <2>1, <3>1, <3>2 DEF MdsBlock
    <3>3. CASE MdsSession
      BY <1>2, <1>4, <2>1, <3>1, <3>3 DEF MdsSession
    <3> QED BY <3>2, <3>3
  <2> QED BY <2>1
<1>8. PICK ts \in Seq(TracksOf("mds")) :
        /\ tracks' = tracks \o ts
        /\ ts = IF MdsBlock /\ IsTrack(b) THEN <<MdsTrack(b)>> ELSE <<>>
  <2>1. CASE MdsBlock /\ IsTrack(b)
    <3>1. MdsTrack(b) \in TracksOf("mds")
      BY <2>1, BlockHeld DEF MdsBlock
    <3>2. tracks' = tracks \o <<MdsTrack(b)>>
      BY <1>2, <2>1, <3>1, AppendIsConcat DEF MdsBlock
    <3>3. <<MdsTrack(b)>> \in Seq(TracksOf("mds"))
      BY <3>1
    <3> QED BY <2>1, <3>2, <3>3
  <2>2. CASE ~(MdsBlock /\ IsTrack(b))
    <3>1. tracks' = tracks
      BY <2>2 DEF MdsBlock, MdsSession
    <3>2. tracks \o <<>> = tracks /\ <<>> \in Seq(TracksOf("mds"))
      BY <1>2, ConcatEmptySeq, EmptySeq
    <3> QED BY <2>2, <3>1, <3>2
  <2> QED BY <2>1, <2>2
<1>9. FirstFound' \/ NoneFound'
  <2>1. CASE FirstFound
    BY <1>1, <1>2, <1>5, <1>7, <1>8, <2>1, FirstKept
  <2>2. CASE NoneFound /\ MdsBlock /\ IsTrack(b) /\ MdsIsData(b)
    <3>1. BlockIn(image.content, length, at, block) /\ at' = at /\ block' = block + 1
      BY <2>2 DEF MdsBlock
    <3>2. MdsAt(here) = b
      BY MdsBlockAt
    <3>3. here \in Declared
      BY <1>1, <1>2, <2>2, <3>1, <3>2, MdsPlaces
    <3>4. \A q \in Declared : ~Before(q, here)
      BY <1>4, <2>2 DEF NoneFound, Before
    <3>5. PICK p : p = here
      OBVIOUS
    <3>6. IsFirst(p)
      BY <3>3, <3>4, <3>5 DEF IsFirst
    <3>7. ts = <<MdsTrack(b)>> /\ 1 \in DOMAIN ts /\ ts[1] = MdsTrack(b)
      BY <1>8, <2>2
    <3>8. Passed(p)' /\ Holds(ts[1], p)' /\ IsData(ts[1])
      BY <1>2, <1>4, <1>5, <1>6, <2>2, <3>1, <3>2, <3>5, <3>7, MdsTrackKind
    <3>9. \A j \in 1 .. 1 - 1 : ~IsData(ts[j])
      OBVIOUS
    <3> QED BY <1>1, <1>2, <1>8, <2>2, <3>6, <3>7, <3>8, <3>9, FirstAdded
  <2>3. CASE NoneFound /\ ~(MdsBlock /\ IsTrack(b) /\ MdsIsData(b))
    <3>1. \A m \in DOMAIN ts : ~IsData(ts[m])
      <4>1. CASE MdsBlock /\ IsTrack(b)
        BY <1>6, <1>8, <2>3, <4>1, MdsTrackKind
      <4>2. CASE ~(MdsBlock /\ IsTrack(b))
        BY SMTT(40), <1>8, <4>2
      <4> QED BY <4>1, <4>2
    <3>2. (\A k \in DOMAIN tracks : ~IsData(tracks[k]))'
      BY <1>1, <1>2, <1>8, <2>3, <3>1, NoneAdded DEF NoneFound
    <3>3. ASSUME NEW q \in Declared, Passed(q)' PROVE FALSE
      <4>1. /\ q[1] \in Nat /\ q[2] \in Nat /\ q = <<q[1], q[2]>>
            /\ BlockIn(image.content, length, q[1], q[2])
            /\ IsTrack(MdsAt(q)) /\ MdsIsData(MdsAt(q))
        BY <1>2, MdsPlaces
      <4>2. ~(q[1] < at \/ (q[1] = at /\ q[2] < block))
        BY <1>4, <2>3 DEF NoneFound
      <4>3. CASE MdsBlock
        <5>1. q[1] = at /\ q[2] = block
          BY SMTT(40), <1>2, <1>4, <3>3, <4>1, <4>2, <4>3 DEF MdsBlock
        <5>2. MdsAt(q) = b
          BY <4>1, <5>1, MdsBlockAt
        <5> QED BY <2>3, <4>1, <4>3, <5>2
      <4>4. CASE MdsSession
        <5>1. q[1] = at /\ block <= q[2]
          BY SMTT(40), <1>2, <1>4, <3>3, <4>1, <4>2, <4>4 DEF MdsSession
        <5>2. BlockIn(image.content, length, at, block)
          BY <1>1, <1>2, <4>1, <5>1, EarlierBlock
        <5> QED BY <4>4, <5>2 DEF MdsSession
      <4> QED BY <4>3, <4>4
    <3> QED BY <1>3, <3>2, <3>3 DEF NoneFound
  <2> QED BY <1>2, <2>1, <2>2, <2>3
<1>10. image'.ext = "mds" /\ Exists("mds")' /\ image'.content.signature /\ length' >= HEADER_LEN
  BY <1>1, <1>2 DEF Exists, MdsReady
<1> QED BY <1>9, <1>10 DEF ParseInv

LEMMA MdsAllPassed ==
  ASSUME Inv, MdsEnds, NEW p \in Declared
  PROVE  Passed(p)
<1>1. Parsing("mds") /\ ~SessionIn(image.content, length, at) /\ MdsReady /\ at \in Nat
  BY MdsIsReady DEF MdsEnds, Inv, TypeOK
<1>2. p[1] \in Nat /\ SessionIn(image.content, length, p[1])
  BY <1>1, MdsPlaces
<1>3. p[1] < at
  BY <1>1, <1>2, EarlierSession
<1> QED BY <1>1, <1>3 DEF Passed, Parsing

--------------------------------------------------------------------------------
(* Sheets.                                                                  *)

LEMMA SheetFacts ==
  ASSUME IsImage(image), image.ext \in {"toc", "cue"}, Exists(image.ext)
  PROVE  Len(Lines) \in Nat /\ DOMAIN Lines = 1 .. Len(Lines)
BY DEF IsImage, Exists, Lines, IsToc, IsCue, IsSheet

LEMMA TocPlaces ==
  ASSUME image.ext = "toc"
  PROVE  \A p : p \in Declared <=>
           \E i \in DOMAIN Lines : /\ p = <<i, 0>> /\ Lines[i].key = "TRACK"
                                   /\ Lines[i].mode \in DOMAIN TocModes
BY DEF Declared, TocDeclared

LEMMA CuePlaces ==
  ASSUME image.ext = "cue"
  PROVE  \A p : p \in Declared <=>
           \E i \in DOMAIN Lines : /\ p = <<i, 0>> /\ Lines[i].key = "TRACK"
                                   /\ Lines[i].mode \in CueModes
                                   /\ \E j \in 1 .. i : LastFile(i, j)
BY DEF Declared, CueDeclared

LEMMA SheetPlaces ==
  ASSUME image.ext \in {"toc", "cue"}, NEW p \in Declared
  PROVE  p[1] \in DOMAIN Lines /\ p = <<p[1], 0>>
<1>1. \E i \in DOMAIN Lines : p = <<i, 0>>
  BY TocPlaces, CuePlaces
<1> QED BY <1>1

LEMMA SheetStarts ==
  ASSUME Inv, outcome = "closed", image.ext \in {"toc", "cue"}, Exists(image.ext), Begin(0)
  PROVE  ParseInv'
<1>1. /\ image' = image /\ outcome' = "parsing" /\ at' = 0 /\ tracks' = <<>> /\ file' = None
      /\ Lines' = Lines /\ Declared' = Declared
  BY ImageKept, DeclaredKept DEF Begin, Inv, Fresh
<1>2. Len(Lines) \in Nat /\ DOMAIN Lines = 1 .. Len(Lines)
  BY ImageFacts, SheetFacts DEF Inv
<1>3. NoneFound'
  <2>1. DOMAIN tracks' = {}
    BY <1>1
  <2>2. ASSUME NEW p \in Declared PROVE ~Passed(p)'
    <3>1. ~(p[1] <= 0)
      BY <1>2, SheetPlaces
    <3> QED BY <1>1, <3>1 DEF Passed
  <2> QED BY <1>1, <2>1, <2>2 DEF NoneFound
<1>4. FileInv'
  BY <1>1 DEF FileInv
<1>5. image'.ext \in {"toc", "cue"} /\ Exists(image.ext)' /\ at' <= Len(Lines')
  BY <1>1, <1>2 DEF Exists
<1> QED BY <1>3, <1>4, <1>5 DEF ParseInv

LEMMA SheetAllPassed ==
  ASSUME Inv, image.ext \in {"toc", "cue"}, SheetEnds(image.ext), NEW p \in Declared
  PROVE  Passed(p) /\ at = Len(Lines)
<1>1. outcome = "parsing" /\ at >= Len(Lines) /\ at <= Len(Lines) /\ at \in Nat
  BY DEF Inv, ParseInv, SheetEnds, Parsing, LinesEnd, TypeOK
<1>2. Len(Lines) \in Nat /\ DOMAIN Lines = 1 .. Len(Lines)
  BY <1>1, ImageFacts, SheetFacts DEF Inv, ParseInv
<1>3. p[1] <= at
  BY <1>1, <1>2, SheetPlaces
<1> QED BY <1>1, <1>2, <1>3 DEF Passed

(* The next line, and the places in front of it.                            *)
LEMMA NextLineFacts ==
  ASSUME Inv, outcome = "parsing", image.ext \in {"toc", "cue"}, ~LinesEnd, NextLine
  PROVE  /\ image' = image /\ outcome' = "parsing" /\ at' = at + 1 /\ at \in Nat
         /\ Lines' = Lines /\ Declared' = Declared
         /\ at + 1 \in DOMAIN Lines /\ Line = Lines[at + 1] /\ at + 1 <= Len(Lines)
         /\ TypeOK /\ (FirstFound \/ NoneFound) /\ Exists(image.ext)
         /\ \A p : (Passed(p) <=> p[1] <= at) /\ (Passed(p)' <=> p[1] <= at + 1)
         /\ \A p \in Declared : p[1] \in Nat \ {0} /\ (Passed(p) => Passed(p)')
         /\ NoneFound => \A p \in Declared : ~Before(p, <<at + 1, 0>>)
         /\ NoneFound => \A p \in Declared : Passed(p)' => p = <<at + 1, 0>>
<1>1. /\ image' = image /\ outcome' = "parsing" /\ at' = at + 1 /\ at \in Nat
      /\ TypeOK /\ (FirstFound \/ NoneFound) /\ Exists(image.ext)
  BY DEF NextLine, Inv, TypeOK, ParseInv
<1>2. Lines' = Lines /\ Declared' = Declared
  BY <1>1, ImageKept, DeclaredKept
<1>3. at + 1 \in DOMAIN Lines /\ Line = Lines[at + 1] /\ at + 1 <= Len(Lines)
  BY LineHeld
<1>4. Len(Lines) \in Nat /\ DOMAIN Lines = 1 .. Len(Lines)
  BY <1>1, ImageFacts, SheetFacts
<1>5. \A p : (Passed(p) <=> p[1] <= at) /\ (Passed(p)' <=> p[1] <= at + 1)
  BY <1>1 DEF Passed
<1>6. \A p \in Declared : p[1] \in Nat \ {0} /\ p = <<p[1], 0>>
  BY <1>4, SheetPlaces
<1>7. \A p \in Declared : Passed(p) => Passed(p)'
  BY <1>1, <1>5, <1>6
<1>8. ASSUME NoneFound, NEW p \in Declared
      PROVE  ~Before(p, <<at + 1, 0>>) /\ (Passed(p)' => p = <<at + 1, 0>>)
  <2>1. ~(p[1] <= at) /\ p[1] \in Nat /\ p = <<p[1], 0>>
    BY <1>5, <1>6, <1>8 DEF NoneFound
  <2> QED BY <1>1, <1>5, <2>1 DEF Before
<1> QED BY <1>1, <1>2, <1>3, <1>5, <1>6, <1>7, <1>8

LEMMA CueParses == ASSUME Inv, CueFile \/ CueTrack \/ CueSkip PROVE ParseInv'
<1> DEFINE n == at + 1
           t == [file |-> file, mode |-> Line.mode]
<1>1. /\ outcome = "parsing" /\ image.ext = "cue" /\ ~LinesEnd /\ NextLine /\ Parsing("cue")
  BY DEF CueFile, CueTrack, CueSkip, Parsing
<1>2. /\ image' = image /\ outcome' = "parsing" /\ at' = n /\ at \in Nat
      /\ Lines' = Lines /\ Declared' = Declared
      /\ n \in DOMAIN Lines /\ Line = Lines[n] /\ n <= Len(Lines)
      /\ TypeOK /\ (FirstFound \/ NoneFound) /\ Exists("cue")
  BY <1>1, NextLineFacts
<1>3. /\ \A p : (Passed(p) <=> p[1] <= at) /\ (Passed(p)' <=> p[1] <= n)
      /\ \A p \in Declared : p[1] \in Nat \ {0} /\ (Passed(p) => Passed(p)')
      /\ NoneFound => \A p \in Declared : ~Before(p, <<n, 0>>)
      /\ NoneFound => \A p \in Declared : Passed(p)' => p = <<n, 0>>
  BY <1>1, NextLineFacts
<1>4. IsCue(Lines) /\ FileInv /\ tracks \in Seq(TracksOf("cue"))
  BY <1>1, CueFacts DEF Inv, ParseInv, TypeOK
<1>5. \A i, j : LastFile(i, j)' <=> LastFile(i, j)
  BY <1>2 DEF LastFile
<1>6. ASSUME Line.key # "FILE", NEW j
      PROVE  LastFile(n, j) <=> LastFile(at, j)
  BY <1>2, <1>6 DEF LastFile
<1>7. file # None <=> \E j \in 1 .. at : LastFile(at, j)
  <2>1. CASE file = None /\ \A j \in 1 .. at : Lines[j].key # "FILE"
    BY <2>1 DEF LastFile
  <2>2. CASE \E j \in 1 .. at : LastFile(at, j) /\ file = Lines[j].name
    <3>1. PICK j \in 1 .. at : LastFile(at, j) /\ file = Lines[j].name
      BY <2>2
    <3>2. j \in DOMAIN Lines /\ Lines[j].key = "FILE"
      BY <1>2, <1>4, <3>1 DEF LastFile, IsCue, IsSheet
    <3>3. file \in STRING
      BY <1>4, <3>1, <3>2 DEF IsCue
    <3>4. file # None
      BY <3>3, NamesAssumption
    <3> QED BY <3>1, <3>4
  <2> QED BY <1>4, <2>1, <2>2 DEF FileInv
<1>8. ASSUME file # None
      PROVE  \E j \in 1 .. at : LastFile(at, j) /\ file = Lines[j].name
  BY <1>4, <1>8 DEF FileInv
<1>9. FileInv'
  <2>1. CASE CueFile
    <3>1. file' = Lines[n].name /\ Lines[n].key = "FILE"
      BY <1>2, <2>1 DEF CueFile
    <3>2. LastFile(n, n) /\ n \in 1 .. n
      BY <1>2, <3>1 DEF LastFile
    <3> QED BY <1>2, <1>5, <3>1, <3>2 DEF FileInv
  <2>2. CASE CueTrack \/ CueSkip
    <3>1. file' = file /\ Line.key # "FILE"
      BY <2>2 DEF CueTrack, CueSkip
    <3>2. CASE file = None
      <4>1. \A j \in 1 .. at : Lines[j].key # "FILE"
        <5>1. ~\E j \in 1 .. at : LastFile(at, j)
          BY <1>7, <3>2
        <5> QED BY <1>4, <5>1 DEF FileInv
      <4>2. \A j \in 1 .. n : Lines[j].key # "FILE"
        BY <1>2, <3>1, <4>1
      <4> QED BY <1>2, <3>1, <3>2, <4>2 DEF FileInv
    <3>3. CASE file # None
      <4>1. PICK j \in 1 .. at : LastFile(at, j) /\ file = Lines[j].name
        BY <1>8, <3>3
      <4>2. LastFile(n, j) /\ j \in 1 .. n
        BY <1>2, <1>6, <3>1, <4>1
      <4> QED BY <1>2, <1>5, <3>1, <4>1, <4>2 DEF FileInv
    <3> QED BY <3>2, <3>3
  <2> QED BY <2>1, <2>2
<1>10. \A u, p : /\ Holds(u, p) <=> \E j \in 1 .. p[1] : LastFile(p[1], j) /\ u.file = Lines[j].name
                 /\ Holds(u, p)' <=> Holds(u, p)
  BY ZenonT(60), <1>1, <1>2, <1>5 DEF Holds
<1>11. \A u : IsData(u) <=> u.mode \in CueModes
  BY <1>1 DEF IsData, CueIsData
<1>12. PICK ts \in Seq(TracksOf("cue")) :
         tracks' = tracks \o ts /\ ts = IF CueTrack THEN <<t>> ELSE <<>>
  <2>1. CASE CueTrack
    <3>1. t \in TracksOf("cue")
      <4>1. file \in STRING /\ Line.mode \in STRING
        BY <1>2, <1>4, <2>1 DEF CueTrack, IsCue, TypeOK
      <4> QED BY <4>1 DEF TracksOf
    <3>2. tracks' = tracks \o <<t>>
      BY <1>4, <2>1, <3>1, AppendIsConcat DEF CueTrack
    <3>3. <<t>> \in Seq(TracksOf("cue"))
      BY <3>1
    <3> QED BY <2>1, <3>2, <3>3
  <2>2. CASE ~CueTrack
    <3>1. tracks' = tracks
      BY <2>2 DEF CueFile, CueTrack, CueSkip
    <3>2. tracks \o <<>> = tracks /\ <<>> \in Seq(TracksOf("cue"))
      BY <1>4, ConcatEmptySeq, EmptySeq
    <3> QED BY <2>2, <3>1, <3>2
  <2> QED BY <2>1, <2>2
<1>13. FirstFound' \/ NoneFound'
  <2>1. CASE FirstFound
    BY <1>1, <1>2, <1>3, <1>10, <1>12, <2>1, FirstKept
  <2>2. CASE NoneFound /\ CueTrack /\ Line.mode \in CueModes
    <3>1. Line.key = "TRACK" /\ file # None
      BY <2>2 DEF CueTrack
    <3>2. PICK j \in 1 .. at : LastFile(at, j) /\ file = Lines[j].name
      BY <1>8, <3>1
    <3>3. LastFile(n, j) /\ j \in 1 .. n
      BY <1>2, <1>6, <3>1, <3>2
    <3>4. PICK p : p = <<n, 0>>
      OBVIOUS
    <3>5. p \in Declared
      BY <1>1, <1>2, <2>2, <3>1, <3>3, <3>4, CuePlaces
    <3>6. IsFirst(p)
      BY <1>3, <2>2, <3>4, <3>5 DEF IsFirst
    <3>7. ts = <<t>> /\ 1 \in DOMAIN ts /\ ts[1] = t
      BY <1>12, <2>2
    <3>8. Passed(p)' /\ Holds(ts[1], p)' /\ IsData(ts[1])
      <4>1. Passed(p)'
        BY <1>2, <1>3, <3>4
      <4>2. Holds(t, p)
        BY <1>10, <3>2, <3>3, <3>4
      <4>3. PICK u : u = t
        OBVIOUS
      <4>4. Holds(u, p)' /\ u = ts[1]
        BY <1>10, <3>7, <4>2, <4>3
      <4> QED BY <1>11, <2>2, <3>7, <4>1, <4>4
    <3>9. \A i \in 1 .. 1 - 1 : ~IsData(ts[i])
      OBVIOUS
    <3> QED BY <1>1, <1>2, <1>12, <2>2, <3>6, <3>7, <3>8, <3>9, FirstAdded
  <2>3. CASE NoneFound /\ ~(CueTrack /\ Line.mode \in CueModes)
    <3>1. \A m \in DOMAIN ts : ~IsData(ts[m])
      <4>1. CASE CueTrack
        BY <1>11, <1>12, <2>3, <4>1
      <4>2. CASE ~CueTrack
        BY <1>12, <4>2
      <4> QED BY <4>1, <4>2
    <3>2. (\A k \in DOMAIN tracks : ~IsData(tracks[k]))'
      BY <1>1, <1>2, <1>12, <2>3, <3>1, NoneAdded DEF NoneFound
    <3>3. ASSUME NEW q \in Declared, Passed(q)' PROVE FALSE
      <4>1. q = <<n, 0>>
        BY <1>3, <2>3, <3>3
      <4>2. PICK i \in DOMAIN Lines : /\ q = <<i, 0>> /\ Lines[i].key = "TRACK"
                                      /\ Lines[i].mode \in CueModes
                                      /\ \E j \in 1 .. i : LastFile(i, j)
        BY <1>1, CuePlaces
      <4>3. i = n
        BY <4>1, <4>2
      <4>4. Line.key = "TRACK" /\ Line.mode \in CueModes /\ \E j \in 1 .. n : LastFile(n, j)
        BY <1>2, <4>2, <4>3
      <4>5. \E j \in 1 .. at : LastFile(at, j)
        BY <1>6, <4>4 DEF LastFile
      <4>6. CueTrack
        BY <1>7, <4>4, <4>5 DEF CueFile, CueSkip
      <4> QED BY <2>3, <4>4, <4>6
    <3> QED BY <1>2, <3>2, <3>3 DEF NoneFound
  <2> QED BY <1>2, <2>1, <2>2, <2>3
<1>14. image'.ext = "cue" /\ Exists("cue")' /\ at' <= Len(Lines')
  BY <1>1, <1>2 DEF Exists
<1> QED BY <1>2, <1>9, <1>13, <1>14 DEF ParseInv

(* What the lines taken give of a track.                                    *)
LEMMA GivenKept ==
  ASSUME NEW n \in Nat, NEW i \in 1 .. n, NEW what, NEW d,
         \/ Lines[n + 1].key # "FILE" \/ Lines[n + 1].name = None
         \/ \E k \in i + 1 .. n : Lines[k].key = "TRACK"
  PROVE  LastToGive(i, n + 1, what, d) = LastToGive(i, n, what, d)
<1>1. FileLines(i, n + 1) = FileLines(i, n)
  <2>1. n + 1 \notin FileLines(i, n + 1)
    BY DEF FileLines
  <2>2. \A j : j \in i + 1 .. n + 1 <=> j \in i + 1 .. n \/ j = n + 1
    OBVIOUS
  <2> QED BY <2>1, <2>2 DEF FileLines
<1> DEFINE giving(m) == {j \in FileLines(i, m) : Lines[j][what] # None}
<1>2. giving(n + 1) = giving(n)
  BY <1>1
<1>3. \A m : LastToGive(i, m, what, d) =
               IF giving(m) = {} THEN d
               ELSE Lines[CHOOSE j \in giving(m) : \A k \in giving(m) : k <= j][what]
  BY DEF LastToGive
<1> HIDE DEF giving
<1> QED BY <1>2, <1>3

LEMMA GivenNext ==
  ASSUME NEW n \in Nat, NEW i \in 1 .. n, NEW what, NEW d,
         Lines[n + 1].key = "FILE", Lines[n + 1].name # None,
         \A k \in i + 1 .. n : Lines[k].key # "TRACK"
  PROVE  LastToGive(i, n + 1, what, d) =
           IF Lines[n + 1][what] # None THEN Lines[n + 1][what] ELSE LastToGive(i, n, what, d)
<1> DEFINE giving(m) == {j \in FileLines(i, m) : Lines[j][what] # None}
           last(m) == CHOOSE j \in giving(m) : \A k \in giving(m) : k <= j
<1>1. FileLines(i, n + 1) = FileLines(i, n) \cup {n + 1}
  <2>1. n + 1 \in FileLines(i, n + 1)
    <3>1. \A k \in i + 1 .. n + 1 : k \in i + 1 .. n \/ k = n + 1
      OBVIOUS
    <3> QED BY <3>1 DEF FileLines
  <2>2. \A j : j \in i + 1 .. n + 1 <=> j \in i + 1 .. n \/ j = n + 1
    OBVIOUS
  <2> QED BY <2>1, <2>2 DEF FileLines
<1>2. \A m : LastToGive(i, m, what, d) =
               IF giving(m) = {} THEN d ELSE Lines[last(m)][what]
  BY DEF LastToGive
<1>3. CASE Lines[n + 1][what] = None
  <2>1. giving(n + 1) = giving(n)
    BY <1>1, <1>3
  <2> QED BY Zenon, <1>2, <1>3, <2>1
<1>4. CASE Lines[n + 1][what] # None
  <2>1. giving(n + 1) = giving(n) \cup {n + 1}
    BY <1>1, <1>4
  <2>2. \A j \in giving(n) : j \in Nat /\ j <= n
    BY DEF FileLines
  <2> HIDE DEF giving
  <2>3. last(n + 1) = n + 1
    BY <2>1, <2>2
  <2> HIDE DEF last
  <2> QED BY <1>2, <1>4, <2>1, <2>3
<1> QED BY <1>3, <1>4

LEMMA GivenNone ==
  ASSUME NEW n \in Nat, NEW what, NEW d
  PROVE  LastToGive(n, n, what, d) = d
<1>1. FileLines(n, n) = {}
  BY DEF FileLines
<1> QED BY <1>1 DEF LastToGive

(* The track at p, as far as the first n lines of the sheet tell.            *)
TocHolds(t, p, n) ==
  /\ t.mode = Lines[p[1]].mode
  /\ t.datafile = LastToGive(p[1], n, "name", None)
  /\ t.file_offset = LastToGive(p[1], n, "offset", 0)
  /\ t.length_sectors = LastToGive(p[1], n, "length", 0)

LEMMA GivesKept ==
  ASSUME image' = image, NEW i, NEW m, NEW what, NEW d
  PROVE  LastToGive(i, m, what, d)' = LastToGive(i, m, what, d)
<1> DEFINE giving == {j \in FileLines(i, m) : Lines[j][what] # None}
           last == CHOOSE j \in giving : \A k \in giving : k <= j
<1>1. Lines' = Lines
  BY ImageKept
<1>2. giving' = giving
  BY <1>1 DEF FileLines
<1>3. LastToGive(i, m, what, d) = IF giving = {} THEN d ELSE Lines[last][what]
  BY DEF LastToGive
<1>4. LastToGive(i, m, what, d)' = IF giving' = {} THEN d ELSE Lines'[last'][what]
  BY DEF LastToGive
<1>5. last' = last
  <2> HIDE DEF giving
  <2> QED BY <1>2
<1> HIDE DEF giving, last
<1> QED BY <1>1, <1>2, <1>3, <1>4, <1>5

LEMMA TocHoldsIs ==
  ASSUME image' = image, image.ext = "toc"
  PROVE  \A t, p : (Holds(t, p) <=> TocHolds(t, p, at)) /\ (Holds(t, p)' <=> TocHolds(t, p, at'))
<1>1. Lines' = Lines
  BY ImageKept
<1>2. \A i, m, what, d : LastToGive(i, m, what, d)' = LastToGive(i, m, what, d)
  BY GivesKept
<1>3. \A t, p : Holds(t, p) <=> TocHolds(t, p, at)
  BY DEF Holds, TocHolds
<1>4. ASSUME NEW t, NEW p, NEW m, m = at' PROVE Holds(t, p)' <=> TocHolds(t, p, m)
  BY <1>1, <1>2, <1>4 DEF Holds, TocHolds
<1> QED BY <1>3, <1>4

LEMMA HoldsFileLine ==
  ASSUME NEW n \in Nat, NEW p, p[1] \in 1 .. n, NEW t \in TracksOf("toc"), TocHolds(t, p, n),
         Lines[n + 1].key = "FILE", \A k \in p[1] + 1 .. n : Lines[k].key # "TRACK"
  PROVE  TocHolds(apply_file_line(t, Lines[n + 1]), p, n + 1)
<1> DEFINE line == Lines[n + 1]
           u == apply_file_line(t, line)
<1> SUFFICES TocHolds(u, p, n + 1)
  OBVIOUS
<1>1. CASE line.name = None
  <2>1. u = t
    BY <1>1 DEF apply_file_line
  <2> HIDE DEF u
  <2> QED BY <1>1, <2>1, GivenKept DEF TocHolds
<1>2. CASE line.name # None
  <2>1. t \in [mode : STRING, datafile : STRING \cup {None},
               file_offset : 0 .. U64 - 1, length_sectors : Nat]
    BY DEF TracksOf
  <2>2. /\ u.mode = t.mode /\ u.datafile = line.name
        /\ u.file_offset = IF line.offset = None THEN t.file_offset ELSE line.offset
        /\ u.length_sectors = IF line.length = None THEN t.length_sectors ELSE line.length
    BY <1>2, <2>1 DEF apply_file_line
  <2> HIDE DEF u
  <2>3. \A what, d : LastToGive(p[1], n + 1, what, d) =
          IF line[what] # None THEN line[what] ELSE LastToGive(p[1], n, what, d)
    BY SMTT(40), <1>2, GivenNext
  <2>4. /\ LastToGive(p[1], n + 1, "name", None) = line.name
        /\ LastToGive(p[1], n + 1, "offset", 0) =
             IF line.offset # None THEN line.offset ELSE LastToGive(p[1], n, "offset", 0)
        /\ LastToGive(p[1], n + 1, "length", 0) =
             IF line.length # None THEN line.length ELSE LastToGive(p[1], n, "length", 0)
    BY <1>2, <2>3
  <2> HIDE DEF line
  <2> QED BY <2>2, <2>4 DEF TocHolds
<1> QED BY <1>1, <1>2

(* A line that begins a track.                                              *)
LEMMA TocTrackParses == ASSUME Inv, TocTrack PROVE FirstFound' \/ NoneFound'
<1> DEFINE n == at + 1
           t == [mode |-> Line.mode, datafile |-> None, file_offset |-> 0, length_sectors |-> 0]
<1>1. /\ outcome = "parsing" /\ image.ext = "toc" /\ ~LinesEnd /\ NextLine /\ Parsing("toc")
      /\ Line.key = "TRACK" /\ tracks' = Append(tracks, t)
  BY DEF TocTrack, Parsing
<1>2. /\ image' = image /\ at' = n /\ at \in Nat
      /\ Lines' = Lines /\ Declared' = Declared
      /\ n \in DOMAIN Lines /\ Line = Lines[n] /\ n <= Len(Lines)
      /\ TypeOK /\ (FirstFound \/ NoneFound)
  BY <1>1, NextLineFacts
<1>3. /\ \A p : (Passed(p) <=> p[1] <= at) /\ (Passed(p)' <=> p[1] <= n)
      /\ \A p \in Declared : p[1] \in Nat \ {0} /\ (Passed(p) => Passed(p)')
      /\ NoneFound => \A p \in Declared : ~Before(p, <<n, 0>>)
      /\ NoneFound => \A p \in Declared : Passed(p)' => p = <<n, 0>>
  BY <1>1, NextLineFacts
<1>4. IsToc(Lines) /\ tracks \in Seq(TracksOf("toc"))
  BY <1>1, TocFacts DEF Inv, TypeOK
<1>5. t \in TracksOf("toc")
  <2>1. Line.mode \in STRING /\ 0 \in 0 .. U64 - 1
    BY <1>1, <1>2, <1>4, WidthAssumption DEF IsToc, U64
  <2> QED BY <2>1 DEF TracksOf
<1>6. PICK ts \in Seq(TracksOf("toc")) : ts = <<t>> /\ tracks' = tracks \o ts
  <2>1. tracks' = tracks \o <<t>>
    BY <1>1, <1>4, <1>5, AppendIsConcat
  <2>2. <<t>> \in Seq(TracksOf("toc"))
    BY <1>5
  <2> QED BY <2>1, <2>2
<1>7. \A u, p : (Holds(u, p) <=> TocHolds(u, p, at)) /\ (Holds(u, p)' <=> TocHolds(u, p, n))
  BY <1>1, <1>2, TocHoldsIs
<1>8. \A p : StillLast(p)' <=> \A i \in p[1] + 1 .. n : Lines[i].key # "TRACK"
  BY <1>2 DEF StillLast
<1>9. \A u : IsData(u) <=> u.mode \in DOMAIN TocModes
  BY <1>1 DEF IsData, TocIsData
<1>10. ts = <<t>> /\ DOMAIN ts = {1} /\ Len(ts) = 1 /\ ts[1] = t /\ t.mode = Lines[n].mode
  BY <1>2, <1>6
<1> HIDE DEF t
<1>11. CASE FirstFound
  <2>1. ASSUME NEW u, NEW p \in Declared, Passed(p), Holds(u, p) PROVE Holds(u, p)'
    <3>1. p[1] \in 1 .. at
      BY <1>2, <1>3, <2>1
    <3>2. TocHolds(u, p, n)
      BY <1>1, <1>2, <1>7, <2>1, <3>1, GivenKept DEF TocHolds
    <3> QED BY <1>7, <3>2
  <2>2. ASSUME NEW p \in Declared, Passed(p) PROVE ~StillLast(p)'
    <3>1. n \in p[1] + 1 .. n
      BY <1>2, <1>3, <2>2
    <3> QED BY <1>1, <1>2, <1>8, <3>1
  <2>3. ts \in Seq(TracksOf(image.ext)) /\ tracks' = tracks \o ts
    BY <1>1, <1>6
  <2>4. \A p \in Declared : Passed(p) => Passed(p)'
    BY <1>3
  <2>5. \A u : \A p \in Declared : Passed(p) /\ Holds(u, p) => Holds(u, p)'
    BY <2>1
  <2>6. Len(ts) > 0 /\ \A p \in Declared : Passed(p) => ~StillLast(p)'
    BY <1>10, <2>2
  <2>7. FirstFound'
    BY <1>2, <1>11, <2>3, <2>4, <2>5, <2>6, FirstKept
  <2> QED BY <2>7
<1>12. CASE NoneFound /\ Line.mode \in DOMAIN TocModes
  <2>1. PICK p : p = <<n, 0>>
    OBVIOUS
  <2>2. p \in Declared
    BY <1>1, <1>2, <1>12, <2>1, TocPlaces
  <2>3. IsFirst(p)
    BY <1>3, <1>12, <2>1, <2>2 DEF IsFirst
  <2>4. Passed(p)' /\ StillLast(p)'
    BY <1>2, <1>3, <1>8, <2>1
  <2>5. TocHolds(t, p, n)
    <3>1. t.datafile = None /\ t.file_offset = 0 /\ t.length_sectors = 0
      BY DEF t
    <3> QED BY <1>2, <1>10, <2>1, <3>1, GivenNone DEF TocHolds
  <2>6. Holds(ts[1], p)'
    <3>1. PICK u : u = t
      OBVIOUS
    <3>2. Holds(u, p)' /\ u = ts[1]
      BY <1>7, <1>10, <2>5, <3>1
    <3> QED BY <3>2
  <2>7. IsData(ts[1]) /\ 1 \in DOMAIN ts
    BY <1>2, <1>9, <1>10, <1>12
  <2>8. \A i \in 1 .. 1 - 1 : ~IsData(ts[i])
    OBVIOUS
  <2>9. 1 = Len(ts)
    BY <1>10
  <2>10. ts \in Seq(TracksOf(image.ext)) /\ tracks' = tracks \o ts
    BY <1>1, <1>6
  <2>11. image.ext = "toc" => 1 = Len(ts) /\ StillLast(p)'
    BY <2>4, <2>9
  <2>12. FirstFound'
    BY <1>2, <1>12, <2>3, <2>4, <2>6, <2>7, <2>8, <2>10, <2>11, FirstAdded
  <2> QED BY <2>12
<1>13. CASE NoneFound /\ Line.mode \notin DOMAIN TocModes
  <2>1. \A m \in DOMAIN ts : ~IsData(ts[m])
    BY <1>2, <1>9, <1>10, <1>13
  <2>2. (\A k \in DOMAIN tracks : ~IsData(tracks[k]))'
    BY <1>1, <1>2, <1>6, <1>13, <2>1, NoneAdded DEF NoneFound
  <2>3. ASSUME NEW q \in Declared, Passed(q)' PROVE FALSE
    <3>1. q = <<n, 0>>
      BY <1>3, <1>13, <2>3
    <3>2. PICK i \in DOMAIN Lines : q = <<i, 0>> /\ Lines[i].mode \in DOMAIN TocModes
      BY <1>1, TocPlaces
    <3> QED BY <1>2, <1>13, <3>1, <3>2
  <2> QED BY <1>2, <2>2, <2>3 DEF NoneFound
<1> QED BY <1>2, <1>11, <1>12, <1>13

(* Any other line changes no track but the last, and not its mode.           *)
LEMMA TocOtherParses == ASSUME Inv, TocFile \/ TocSkip PROVE FirstFound' \/ NoneFound'
<1> DEFINE n == at + 1
           last == Len(tracks)
<1>1. /\ outcome = "parsing" /\ image.ext = "toc" /\ ~LinesEnd /\ NextLine /\ Parsing("toc")
      /\ Line.key # "TRACK"
  BY DEF TocFile, TocSkip, Parsing
<1>2. /\ image' = image /\ at' = n /\ at \in Nat
      /\ Lines' = Lines /\ Declared' = Declared
      /\ n \in DOMAIN Lines /\ Line = Lines[n] /\ n <= Len(Lines)
      /\ TypeOK /\ (FirstFound \/ NoneFound)
  BY <1>1, NextLineFacts
<1>3. /\ \A p : (Passed(p) <=> p[1] <= at) /\ (Passed(p)' <=> p[1] <= n)
      /\ \A p \in Declared : p[1] \in Nat \ {0} /\ (Passed(p) => Passed(p)')
      /\ NoneFound => \A p \in Declared : Passed(p)' => p = <<n, 0>>
  BY <1>1, NextLineFacts
<1>4. /\ IsToc(Lines) /\ tracks \in Seq(TracksOf("toc"))
      /\ last \in Nat /\ DOMAIN tracks = 1 .. last
  BY <1>1, TocFacts, LenProperties DEF Inv, TypeOK
<1>5. \A u, p : (Holds(u, p) <=> TocHolds(u, p, at)) /\ (Holds(u, p)' <=> TocHolds(u, p, n))
  BY <1>1, <1>2, TocHoldsIs
<1>6. \A u : /\ IsData(u) <=> u.mode \in DOMAIN TocModes
             /\ IsData(u)' <=> IsData(u)
  BY <1>1, <1>2, ImageKept DEF IsData, TocIsData
<1>7. /\ DOMAIN tracks' = DOMAIN tracks /\ Len(tracks') = last
      /\ \A k \in DOMAIN tracks :
           /\ tracks'[k].mode = tracks[k].mode
           /\ tracks'[k] = IF TocFile /\ k = last THEN apply_file_line(tracks[k], Line)
                           ELSE tracks[k]
  <2>1. CASE TocFile
    <3>1. last \in 1 .. last
      BY <1>4, <2>1, EmptySeq DEF TocFile
    <3>2. tracks[last] \in TracksOf("toc")
      BY <1>4, <3>1, ElementOfSeq
    <3> DEFINE u == apply_file_line(tracks[last], Line)
    <3>3. u \in TracksOf("toc") /\ u.mode = tracks[last].mode
      BY <1>2, <1>4, <2>1, <3>2, FileLineTyped DEF IsToc, TocFile
    <3>4. tracks' = [tracks EXCEPT ![last] = u]
      BY <2>1 DEF TocFile
    <3>5. tracks' \in Seq(TracksOf("toc")) /\ Len(tracks') = last
          /\ \A j \in 1 .. last : tracks'[j] = IF j = last THEN u ELSE tracks[j]
      <4> HIDE DEF u
      <4> QED BY <1>4, <3>1, <3>3, <3>4, ExceptSeq
    <3>6. DOMAIN tracks' = 1 .. last
      BY SMTT(40), <3>5, LenProperties
    <3> HIDE DEF u
    <3>7. \A k \in DOMAIN tracks : tracks'[k].mode = tracks[k].mode
      BY Zenon, <1>4, <3>3, <3>5
    <3> QED BY Zenon, <1>4, <2>1, <3>5, <3>6, <3>7 DEF u
  <2>2. CASE ~TocFile
    <3>1. tracks' = tracks
      BY <2>2 DEF TocFile, TocSkip
    <3> QED BY <2>2, <3>1
  <2> QED BY <2>1, <2>2
<1> HIDE DEF last
<1>8. \A k \in DOMAIN tracks : IsData(tracks[k])' <=> IsData(tracks[k])
  BY <1>6, <1>7
<1>9. CASE FirstFound
  <2>1. PICK k \in DOMAIN tracks, p \in Declared :
          /\ Found(k) /\ IsFirst(p) /\ Passed(p) /\ Holds(tracks[k], p)
          /\ k = last <=> StillLast(p)
    BY <1>1, <1>9 DEF FirstFound, last
  <2>2. p[1] \in 1 .. at
    BY <1>2, <1>3, <2>1
  <2>3. Found(k)'
    <3>1. \A j \in 1 .. k - 1 : j \in DOMAIN tracks
      BY <1>4, <2>1
    <3> QED BY <1>7, <1>8, <2>1, <3>1 DEF Found
  <2>4. StillLast(p)' <=> StillLast(p)
    <3>1. \A i : i \in p[1] + 1 .. n <=> i \in p[1] + 1 .. at \/ i = n
      BY <1>2, <2>2
    <3> QED BY <1>1, <1>2, <3>1 DEF StillLast
  <2>5. IsFirst(p)' /\ p \in Declared' /\ Passed(p)'
    BY <1>2, <1>3, <2>1 DEF IsFirst
  <2>6. TocHolds(tracks[k], p, at)
    BY <1>5, <2>1
  <2>7. TocHolds(tracks'[k], p, n)
    <3>1. CASE TocFile /\ k = last
      <4>1. tracks'[k] = apply_file_line(tracks[k], Lines[n]) /\ Lines[n].key = "FILE"
        BY <1>2, <1>7, <2>1, <3>1 DEF TocFile
      <4>2. \A i \in p[1] + 1 .. at : Lines[i].key # "TRACK"
        BY <2>1, <3>1 DEF StillLast
      <4>3. tracks[k] \in TracksOf("toc")
        BY <1>4, <2>1, ElementOfSeq DEF last
      <4> QED BY <1>2, <2>2, <2>6, <4>1, <4>2, <4>3, HoldsFileLine
    <3>2. CASE ~(TocFile /\ k = last)
      <4>1. tracks'[k] = tracks[k]
        BY <1>7, <2>1, <3>2
      <4>2. \/ Lines[n].key # "FILE"
            \/ \E i \in p[1] + 1 .. at : Lines[i].key = "TRACK"
        <5>1. CASE TocFile
          BY <2>1, <3>2, <5>1 DEF StillLast
        <5>2. CASE ~TocFile
          <6>1. tracks # <<>>
            BY <2>1
          <6> QED BY <1>2, <5>2, <6>1 DEF TocFile, TocSkip
        <5> QED BY <5>1, <5>2
      <4>3. \A what, d : LastToGive(p[1], n, what, d) = LastToGive(p[1], at, what, d)
        BY <1>2, <2>2, <4>2, GivenKept
      <4> QED BY <2>6, <4>1, <4>3 DEF TocHolds
    <3> QED BY <3>1, <3>2
  <2>8. Holds(tracks[k], p)'
    <3>1. PICK u : u = tracks'[k]
      OBVIOUS
    <3>2. Holds(u, p)'
      BY <1>5, <2>7, <3>1
    <3> QED BY <3>1, <3>2
  <2>9. (k = Len(tracks) <=> StillLast(p))'
    BY <1>7, <2>1, <2>4
  <2> QED BY <1>7, <2>1, <2>3, <2>5, <2>8, <2>9 DEF FirstFound
<1>10. CASE NoneFound
  <2>1. (\A k \in DOMAIN tracks : ~IsData(tracks[k]))'
    BY <1>7, <1>8, <1>10 DEF NoneFound
  <2>2. ASSUME NEW q \in Declared, Passed(q)' PROVE FALSE
    <3>1. q = <<n, 0>>
      BY <1>3, <1>10, <2>2
    <3>2. PICK i \in DOMAIN Lines : /\ q = <<i, 0>> /\ Lines[i].key = "TRACK"
                                    /\ Lines[i].mode \in DOMAIN TocModes
      BY <1>1, TocPlaces
    <3> QED BY <1>1, <1>2, <3>1, <3>2
  <2> QED BY <1>2, <2>1, <2>2 DEF NoneFound
<1> QED BY <1>2, <1>9, <1>10

LEMMA TocParses == ASSUME Inv, TocTrack \/ TocFile \/ TocSkip PROVE ParseInv'
<1>1. /\ outcome = "parsing" /\ image.ext = "toc" /\ ~LinesEnd /\ NextLine
  BY DEF TocTrack, TocFile, TocSkip, Parsing
<1>2. /\ image' = image /\ outcome' = "parsing" /\ at' = at + 1 /\ Lines' = Lines
      /\ at + 1 <= Len(Lines) /\ Exists("toc")
  BY <1>1, NextLineFacts
<1>3. FirstFound' \/ NoneFound'
  BY TocTrackParses, TocOtherParses
<1>4. image'.ext = "toc" /\ Exists("toc")' /\ at' <= Len(Lines')
  BY <1>1, <1>2 DEF Exists
<1> QED BY <1>2, <1>3, <1>4 DEF ParseInv

--------------------------------------------------------------------------------
(* Every step.                                                              *)

LEMMA StepParses == ASSUME Inv, [Next]_vars, ~UNCHANGED vars PROVE ParseInv' /\ Fresh'
<1>1. ASSUME outcome' \in {"open"} \cup Errors PROVE ParseInv' /\ Fresh'
  BY <1>1 DEF ParseInv, Fresh, Errors
<1>2. \A e \in Errors : Fail(e) => outcome' \in {"open"} \cup Errors
  BY DEF Fail
<1>3. \A name, base, len : HandOut(name, base, len) => outcome' \in {"open"} \cup Errors
  BY DEF HandOut, Errors
<1>4. ASSUME outcome' = "parsing" PROVE Fresh'
  BY <1>4 DEF Fresh
<1>5. CASE StartNrg
  <2>1. outcome = "closed" /\ image.ext = "nrg"
    BY <1>5 DEF StartNrg
  <2>2. CASE Fail("io") \/ Fail("NotAnIso")
    BY <1>1, <1>2, <2>2 DEF Errors
  <2>3. CASE ~(Fail("io") \/ Fail("NotAnIso"))
    <3>1. /\ Exists("nrg") /\ image.content.footer # None
          /\ Begin(image.content.footer.offset)
      BY <1>5, <2>3 DEF StartNrg
    <3> QED BY <1>4, <2>1, <3>1, NrgStarts DEF Begin
  <2> QED BY <2>2, <2>3
<1>6. CASE StartMds
  <2>1. outcome = "closed" /\ image.ext = "mds"
    BY <1>6 DEF StartMds
  <2>2. CASE Fail("io") \/ Fail("NotAnIso")
    BY <1>1, <1>2, <2>2 DEF Errors
  <2>3. CASE ~(Fail("io") \/ Fail("NotAnIso"))
    <3>1. Exists("mds") /\ ~(length < HEADER_LEN) /\ image.content.signature /\ Begin(0)
      BY <1>6, <2>3 DEF StartMds
    <3>2. length \in Nat
      BY <2>1, <3>1, ImageFacts DEF Inv, IsImage, length, Exists
    <3>3. length >= HEADER_LEN
      BY <3>1, <3>2 DEF HEADER_LEN
    <3> QED BY <1>4, <2>1, <3>1, <3>3, MdsStarts DEF Begin
  <2> QED BY <2>2, <2>3
<1>7. CASE StartSheet
  <2>1. outcome = "closed" /\ image.ext \in {"toc", "cue"}
    BY <1>7 DEF StartSheet
  <2>2. CASE ~Exists(image.ext)
    BY <1>1, <1>2, <1>7, <2>2 DEF StartSheet, Errors
  <2>3. CASE Exists(image.ext)
    <3>1. Begin(0)
      BY <1>7, <2>3 DEF StartSheet
    <3> QED BY <1>4, <2>1, <2>3, <3>1, SheetStarts DEF Begin
  <2> QED BY <2>2, <2>3
<1>8. CASE NrgChunk
  BY <1>4, <1>8, NrgChunkParses DEF NrgChunk, Parsing
<1>9. CASE MdsBlock \/ MdsSession
  BY <1>4, <1>9, MdsParses DEF MdsBlock, MdsSession, Parsing
<1>10. CASE TocTrack \/ TocFile \/ TocSkip
  BY <1>4, <1>10, TocParses DEF TocTrack, TocFile, TocSkip, NextLine, Parsing
<1>11. CASE CueFile \/ CueTrack \/ CueSkip
  BY <1>4, <1>11, CueParses DEF CueFile, CueTrack, CueSkip, NextLine, Parsing
<1>12. CASE NoDataTrack
  BY <1>1, <1>2, <1>12 DEF NoDataTrack, Errors
<1>13. CASE OpenNrg \/ OpenMds \/ OpenCue \/ OpenPlain
  BY <1>1, <1>3, <1>13 DEF OpenNrg, OpenMds, OpenCue, OpenPlain
<1>14. CASE OpenToc
  BY <1>1, <1>2, <1>3, <1>14 DEF OpenToc, Errors
<1>15. CASE OpenCcd
  BY <1>1, <1>2, <1>3, <1>15 DEF OpenCcd, Errors
<1>16. CASE Call
  <2>1. window # None /\ outcome' = outcome
    BY <1>16 DEF Call, WindowCalls, Read, ReadFails, Seek
  <2> QED BY <1>1, <2>1 DEF Inv, TypeOK
<1> QED BY <1>5, <1>6, <1>7, <1>8, <1>9, <1>10, <1>11, <1>12, <1>13, <1>14, <1>15, <1>16
        DEF Next, Open

LEMMA StutterParses == ASSUME Inv, UNCHANGED vars PROVE ParseInv' /\ Fresh'
<1>1. UNCHANGED <<image, outcome, at, block, file, tracks>>
  BY DEF vars, parserVars
<1>2. /\ length' = length /\ Lines' = Lines /\ Declared' = Declared
      /\ \A x : Exists(x)' <=> Exists(x)
      /\ \A t : IsData(t)' <=> IsData(t)
      /\ \A p : NrgAt(p)' = NrgAt(p) /\ MdsAt(p)' = MdsAt(p)
      /\ \A p : read_extra_length(p)' = read_extra_length(p)
  BY <1>1, ImageKept, DeclaredKept
<1>3. \A i, j : LastFile(i, j)' <=> LastFile(i, j)
  BY <1>2 DEF LastFile
<1>4. ChainInv' <=> ChainInv
  <2>1. \A C, p : Chain(C, p)' <=> Chain(C, p)
    BY <1>1, <1>2 DEF Chain
  <2> QED BY <1>1, <1>2, <2>1 DEF ChainInv
<1>5. FileInv' <=> FileInv
  BY <1>1, <1>2, <1>3 DEF FileInv
<1>6. ASSUME outcome = "parsing", NEW t, NEW p PROVE Holds(t, p)' <=> Holds(t, p)
  <2>1. CASE image.ext = "toc"
    BY <1>1, <2>1, TocHoldsIs
  <2>2. CASE image.ext = "nrg"
    BY <1>1, <1>2, <2>2 DEF Holds
  <2>3. CASE image.ext = "mds"
    BY <1>1, <1>2, <2>3 DEF Holds, MdsTrack
  <2>4. CASE image.ext = "cue"
    BY <1>1, <1>2, <1>3, <2>4 DEF Holds
  <2> QED BY <1>6, <2>1, <2>2, <2>3, <2>4 DEF Inv, ParseInv
<1>7. \A p : (Passed(p)' <=> Passed(p)) /\ (StillLast(p)' <=> StillLast(p))
  BY <1>1, <1>2 DEF Passed, StillLast
<1>8. \A p : IsFirst(p)' <=> IsFirst(p)
  BY <1>2 DEF IsFirst
<1>9. \A k : /\ Found(k)' <=> Found(k)
             /\ IsData(tracks[k])' <=> IsData(tracks[k])
             /\ outcome = "parsing" => \A p : Holds(tracks[k], p)' <=> Holds(tracks[k], p)
  <2>1. \A k : IsData(tracks[k])' <=> IsData(tracks[k])
    BY <1>1, <1>2
  <2>2. \A k : Found(k)' <=> Found(k)
    BY <1>1, <2>1 DEF Found
  <2>3. ASSUME NEW k, outcome = "parsing", NEW p
        PROVE  Holds(tracks[k], p)' <=> Holds(tracks[k], p)
    <3>1. PICK t : t = tracks[k]
      OBVIOUS
    <3>2. t = tracks'[k] /\ (Holds(t, p)' <=> Holds(t, p))
      BY <1>1, <1>6, <2>3, <3>1
    <3> QED BY <3>1, <3>2
  <2> QED BY <2>1, <2>2, <2>3
<1>10. (outcome = "parsing" => (FirstFound' <=> FirstFound)) /\ (NoneFound' <=> NoneFound)
  BY <1>1, <1>2, <1>7, <1>8, <1>9 DEF FirstFound, NoneFound
<1> QED BY <1>1, <1>2, <1>4, <1>5, <1>10 DEF Inv, ParseInv, Fresh

LEMMA OpenerInvInit == Init => Inv
<1> SUFFICES ASSUME Init PROVE Inv
  OBVIOUS
<1>1. TypeOK
  BY WidthAssumption, EmptySeq DEF Init, TypeOK, WindowInit, Errors
<1>2. WindowInv
  BY InvInit DEF Init
<1>3. Fresh /\ ParseInv
  BY DEF Init, Fresh, ParseInv
<1> QED BY <1>1, <1>2, <1>3 DEF Inv

LEMMA OpenerInvNext == Inv /\ [Next]_vars => Inv'
<1> SUFFICES ASSUME Inv, [Next]_vars PROVE Inv'
  OBVIOUS
<1>1. TypeOK' /\ [WindowNext]_windowVars
  BY StepTyped
<1>2. WindowInv'
  BY <1>1, InvNext DEF Inv
<1>3. ParseInv' /\ Fresh'
  BY StepParses, StutterParses
<1> QED BY <1>1, <1>2, <1>3 DEF Inv

(* What is handed out lies in the widths the window computes with.           *)
THEOREM OpenerTypeCorrect == Spec => []TypeOK
<1>1. Inv => TypeOK
  BY DEF Inv
<1> QED BY <1>1, OpenerInvInit, OpenerInvNext, PTL DEF Spec

(* The stream handed out is one over the part of the file that is the track. *)
THEOREM OpenedIsStream == Spec => ImplementsStream
<1>1. Init => WindowInit
  BY DEF Init
<1>2. Inv /\ [Next]_vars => [WindowNext]_windowVars
  BY StepTyped
<1>3. [WindowNext]_windowVars <=> [(\E w \in Windows : New(w)) \/ WindowCalls]_windowVars
  BY DEF WindowNext
<1>4. Spec => WindowSpec
  BY <1>1, <1>2, <1>3, OpenerInvInit, OpenerInvNext, PTL DEF Spec, WindowSpec
<1> QED BY <1>4, WindowIsStream

--------------------------------------------------------------------------------
(* What `open` answers.                                                     *)

LEMMA DeclaredPairs ==
  ASSUME IsImage(image), Exists(image.ext) \/ image.ext = "ccd"
  PROVE  \A p \in Declared : p[1] \in Int /\ p[2] \in Int /\ p = <<p[1], p[2]>>
<1>1. CASE image.ext = "nrg"
  <2>1. CASE image.content.footer = None
    BY <1>1, <2>1 DEF Declared
  <2>2. CASE image.content.footer # None
    <3> SUFFICES ASSUME NEW p \in Declared
                 PROVE  p[1] \in Int /\ p[2] \in Int /\ p = <<p[1], p[2]>>
      OBVIOUS
    <3>1. PICK q \in DOMAIN image.content.chunks :
            \E j \in DOMAIN ChunkTracks(image.content.chunks[q]) : p = <<q, j>> /\ Listed(q)
      BY <1>1, <2>2, NrgPlaces
    <3>2. PICK j \in DOMAIN ChunkTracks(image.content.chunks[q]) : p = <<q, j>>
      BY <3>1
    <3>3. q \in Nat /\ image.content.chunks[q].size \in Nat
      BY <1>1, <2>2 DEF IsImage, IsNrg, Exists
    <3>4. j \in 1 .. TrackCount(image.content.chunks[q])
      BY DEF ChunkTracks
    <3>5. j \in Int
      BY <3>3, <3>4, TrackCountNat
    <3> QED BY <3>2, <3>3, <3>5
  <2> QED BY <2>1, <2>2
<1>2. CASE image.ext = "mds"
  <2>1. CASE image.content.signature /\ length >= HEADER_LEN
    <3>1. MdsReady
      BY <1>2, <2>1 DEF MdsReady, IsImage, Exists, length
    <3> QED BY <3>1, MdsPlaces
  <2>2. CASE ~(image.content.signature /\ length >= HEADER_LEN)
    BY <1>2, <2>2 DEF Declared
  <2> QED BY <2>1, <2>2
<1>3. CASE image.ext \in {"toc", "cue"}
  <2>1. DOMAIN Lines = 1 .. Len(Lines) /\ Len(Lines) \in Nat
    BY <1>3, SheetFacts
  <2> QED BY <1>3, <2>1, SheetPlaces
<1>4. CASE image.ext \notin {"nrg", "mds", "toc", "cue"}
  BY <1>4 DEF Declared
<1> QED BY <1>1, <1>2, <1>3, <1>4

LEMMA OneFirst ==
  ASSUME IsImage(image), Exists(image.ext) \/ image.ext = "ccd", NEW p, IsFirst(p)
  PROVE  p = CHOOSE q \in Declared : IsFirst(q)
<1>1. p \in Declared
  BY DEF IsFirst
<1>2. ASSUME NEW q \in Declared, IsFirst(q) PROVE q = p
  <2>1. /\ p[1] \in Int /\ p[2] \in Int /\ p = <<p[1], p[2]>>
        /\ q[1] \in Int /\ q[2] \in Int /\ q = <<q[1], q[2]>>
    BY <1>1, DeclaredPairs
  <2>2. ~Before(p, q) /\ ~Before(q, p)
    BY <1>1, <1>2 DEF IsFirst
  <2>3. p[1] = q[1] /\ p[2] = q[2]
    BY <2>1, <2>2 DEF Before
  <2> QED BY <2>1, <2>3
<1> QED BY <1>1, <1>2

(* The outcome and the window that the declared tracks call for.             *)
Answers(o, w) ==
  LET first == CHOOSE p \in Declared : IsFirst(p)
  IN  (image.ext = "cue" /\ Declared # {} => FillsFile(ExtentOf(first))) =>
        IF /\ Exists(image.ext) \/ image.ext = "ccd"
           /\ Declared # {}
           /\ LET e == ExtentOf(first) IN Exists(e.file) /\ e.base < I64
        THEN /\ o = "open"
             /\ Extent(w.file, w.base, w.len) = ExtentOf(first)
        ELSE o # "open"

(* The extent of a CUE track that begins in file f, `next` the line of the    *)
(* track behind it.                                                         *)
CueFrom(f, i, later, next, size) ==
  LET end == IF later = {} THEN SizeOf(f) ELSE size * Frame(next)
  IN  Extent(f, size * Frame(i), LeftOf(end, size * Frame(i)))

LEMMA CueKept ==
  ASSUME image' = image, NEW i
  PROVE  CueExtent(i)' = CueExtent(i)
<1>1. Lines' = Lines
  BY ImageKept
<1>2. \A f : SizeOf(f)' = SizeOf(f)
  BY ImageKept DEF SizeOf
<1>3. \A k, j : LastFile(k, j)' <=> LastFile(k, j)
  BY <1>1 DEF LastFile
<1>4. ASSUME NEW k PROVE Frame(k)' = Frame(k)
  <2>1. PICK S : S = Starts(k)
    OBVIOUS
  <2>2. Starts(k)' = S
    BY <1>1, <2>1 DEF Starts
  <2>3. Frame(k) = IF S = {} THEN 0 ELSE Lines[CHOOSE j \in S : \A l \in S : j <= l].frame
    BY <2>1 DEF Frame
  <2>4. Frame(k)' = IF S = {} THEN 0 ELSE Lines'[CHOOSE j \in S : \A l \in S : j <= l].frame
    BY <2>2 DEF Frame
  <2> QED BY <1>1, <2>3, <2>4
<1>5. LaterTracks(i)' = LaterTracks(i)
  BY <1>1 DEF LaterTracks
<1> DEFINE j == CHOOSE j \in 1 .. i : LastFile(i, j)
           next == CHOOSE k \in LaterTracks(i) : \A l \in LaterTracks(i) : k <= l
<1>6. j' = j
  BY <1>3
<1>7. next' = next
  BY <1>5
<1>8. PICK f, k, size : f = Lines[j].name /\ k = next /\ size = CueSectorSize(Lines[i].mode)
  OBVIOUS
<1>9. /\ CueExtent(i) = CueFrom(f, i, LaterTracks(i), k, size)
      /\ CueExtent(i)' = CueFrom(f, i, LaterTracks(i), k, size)'
  <2>1. Lines'[j'].name = f /\ next' = k /\ CueSectorSize(Lines'[i].mode) = size
    BY <1>1, <1>6, <1>7, <1>8
  <2>2. CueExtent(i) = CueFrom(Lines[j].name, i, LaterTracks(i), next, CueSectorSize(Lines[i].mode))
    BY DEF CueExtent, CueFrom
  <2>3. CueExtent(i)' = CueFrom(Lines[j].name, i, LaterTracks(i), next, CueSectorSize(Lines[i].mode))'
    BY DEF CueExtent, CueFrom
  <2> HIDE DEF j, next
  <2> QED BY <1>8, <2>1, <2>2, <2>3
<1> QED BY <1>2, <1>4, <1>5, <1>9 DEF CueFrom, Extent

LEMMA ExtentKept ==
  ASSUME image' = image, NEW p
  PROVE  ExtentOf(p)' = ExtentOf(p)
<1>1. /\ length' = length /\ Lines' = Lines
      /\ \A x : Exists(x)' <=> Exists(x)
      /\ NrgAt(p)' = NrgAt(p) /\ MdsAt(p)' = MdsAt(p)
      /\ \A x : read_extra_length(x)' = read_extra_length(x)
  BY ImageKept
<1>2. \A f : Whole(f)' = Whole(f)
  BY <1>1 DEF Whole, SizeOf, Extent
<1>3. CASE image.ext = "nrg"
  BY <1>1, <1>3 DEF ExtentOf, Extent
<1>4. CASE image.ext = "mds"
  BY <1>1, <1>4 DEF ExtentOf, Extent
<1>5. CASE image.ext = "toc"
  <2>1. PICK i, n : i = p[1] /\ n = Len(Lines)
    OBVIOUS
  <2>2. \A what, d : LastToGive(i, n, what, d)' = LastToGive(i, n, what, d)
    BY GivesKept
  <2>3. \A f : SizeOf(f)' = SizeOf(f)
    BY <1>1 DEF SizeOf
  <2>4. TocExtent(i, n)' = TocExtent(i, n)
    BY <1>1, <2>2, <2>3 DEF TocExtent, Extent
  <2>5. ExtentOf(p) = TocExtent(i, n) /\ ExtentOf(p)' = TocExtent(i, n)'
    BY <1>1, <1>5, <2>1 DEF ExtentOf
  <2> QED BY <2>4, <2>5
<1>6. CASE image.ext = "cue"
  <2>1. PICK i : i = p[1]
    OBVIOUS
  <2>2. CueExtent(i)' = CueExtent(i)
    BY CueKept
  <2>3. ExtentOf(p) = CueExtent(i) /\ ExtentOf(p)' = CueExtent(i)'
    BY <1>1, <1>6, <2>1 DEF ExtentOf
  <2> QED BY <2>2, <2>3
<1>7. CASE image.ext \notin {"nrg", "mds", "toc", "cue"}
  <2>1. PICK f : f = IF image.ext = "ccd" THEN "img" ELSE image.ext
    OBVIOUS
  <2>2. ExtentOf(p) = Whole(f) /\ ExtentOf(p)' = Whole(f)'
    BY <1>7, <2>1 DEF ExtentOf
  <2> QED BY <1>2, <2>2
<1> QED BY <1>3, <1>4, <1>5, <1>6, <1>7

LEMMA AnswersKept ==
  ASSUME image' = image, outcome' \in {"open"} \cup Errors => Answers(outcome', window')
  PROVE  OpensDataTrack'
<1> DEFINE first == CHOOSE p \in Declared : IsFirst(p)
<1>1. Declared' = Declared /\ \A x : Exists(x)' <=> Exists(x)
  BY ImageKept, DeclaredKept
<1>2. first' = first
  <2>1. \A p : IsFirst(p)' <=> IsFirst(p)
    BY <1>1 DEF IsFirst
  <2> QED BY <1>1, <2>1
<1>3. PICK p : p = first
  OBVIOUS
<1>4. ExtentOf(p)' = ExtentOf(p)
  BY ExtentKept
<1>5. PICK e : e = ExtentOf(first)
  OBVIOUS
<1>6. ExtentOf(first)' = e
  <2> HIDE DEF first
  <2>1. ExtentOf(first)' = ExtentOf(p)'
    BY <1>2, <1>3
  <2> QED BY <1>3, <1>4, <1>5, <2>1
<1>7. OpensDataTrack' <=>
        (outcome' \in {"open"} \cup Errors =>
           ((image'.ext = "cue" /\ Declared' # {} => FillsFile(e)') =>
              IF /\ Exists(image.ext)' \/ image'.ext = "ccd"
                 /\ Declared' # {}
                 /\ Exists(e.file)' /\ e.base < I64
              THEN /\ outcome' = "open"
                   /\ Extent(window'.file, window'.base, window'.len) = e
              ELSE outcome' # "open"))
  BY <1>6 DEF OpensDataTrack, Extent, Errors, FillsFile
<1>8. Answers(outcome', window') <=>
        ((image.ext = "cue" /\ Declared # {} => FillsFile(e)) =>
           IF /\ Exists(image.ext) \/ image.ext = "ccd"
              /\ Declared # {}
              /\ Exists(e.file) /\ e.base < I64
           THEN outcome' = "open" /\ Extent(window'.file, window'.base, window'.len) = e
           ELSE outcome' # "open")
  BY <1>5 DEF Answers
<1>9. FillsFile(e)' <=> FillsFile(e)
  BY ImageKept DEF FillsFile, Whole, SizeOf, Extent
<1> QED BY <1>1, <1>7, <1>8, <1>9

(* A file handed out where the first data track lies.                        *)
LEMMA HandOutAnswers ==
  ASSUME IsImage(image), NEW name, NEW base, NEW len, HandOut(name, base, len),
         Exists(image.ext) \/ image.ext = "ccd" \/ ~Exists(name),
         NEW p, IsFirst(p), ExtentOf(p).file = name, ExtentOf(p).base = base,
         Exists(name) => ExtentOf(p) = Extent(name, base, len)
  PROVE  OpensDataTrack'
<1>1. image' = image
  BY DEF HandOut
<1>2. CASE Exists(name) /\ base < I64
  <2>1. /\ outcome' = "open"
        /\ Extent(window'.file, window'.base, window'.len) = Extent(name, base, len)
    BY <1>2 DEF HandOut, New
  <2>2. p = CHOOSE q \in Declared : IsFirst(q)
    BY <1>2, OneFirst
  <2>3. Declared # {}
    BY DEF IsFirst
  <2>4. Answers(outcome', window')
    BY <1>2, <2>1, <2>2, <2>3 DEF Answers
  <2> QED BY <1>1, <2>4, AnswersKept
<1>3. CASE ~(Exists(name) /\ base < I64)
  <2>1. outcome' = "io"
    BY <1>3 DEF HandOut
  <2>2. ASSUME Exists(image.ext) \/ image.ext = "ccd"
        PROVE  p = CHOOSE q \in Declared : IsFirst(q)
    BY <2>2, OneFirst
  <2>3. Answers(outcome', window')
    BY <1>3, <2>1, <2>2 DEF Answers
  <2> QED BY <1>1, <2>3, AnswersKept
<1> QED BY <1>2, <1>3

(* An error where no track calls for a file.                                *)
LEMMA FailAnswers ==
  ASSUME IsImage(image), NEW e \in Errors, Fail(e),
         \/ ~Exists(image.ext) /\ image.ext # "ccd"
         \/ Declared = {}
         \/ \E p : IsFirst(p) /\ ~Exists(ExtentOf(p).file)
  PROVE  OpensDataTrack'
<1>1. image' = image /\ outcome' = e /\ e # "open"
  BY DEF Fail, Errors
<1>2. ASSUME Exists(image.ext) \/ image.ext = "ccd", NEW p, IsFirst(p)
      PROVE  p = CHOOSE q \in Declared : IsFirst(q)
  BY <1>2, OneFirst
<1>3. Answers(outcome', window')
  BY <1>1, <1>2 DEF Answers
<1> QED BY <1>1, <1>3, AnswersKept

LEMMA AtTheEnd ==
  ASSUME Inv, ParserEnds
  PROVE  /\ IsImage(image) /\ outcome = "parsing" /\ Exists(image.ext)
         /\ HasDataTrack => \E p : IsFirst(p) /\ Holds(data_track, p)
         /\ ~HasDataTrack => Declared = {}
<1>1. /\ IsImage(image) /\ outcome = "parsing" /\ Exists(image.ext) /\ TypeOK
      /\ FirstFound \/ NoneFound
  BY ImageFacts DEF Inv, ParseInv, ParserEnds, NrgEnds, MdsEnds, SheetEnds, Parsing
<1>2. \A p \in Declared : Passed(p)
  BY NrgAllPassed, MdsAllPassed, SheetAllPassed DEF ParserEnds, SheetEnds, Parsing
<1>3. CASE FirstFound
  <2>1. PICK k \in DOMAIN tracks, p \in Declared :
          Found(k) /\ IsFirst(p) /\ Passed(p) /\ Holds(tracks[k], p)
    BY <1>3 DEF FirstFound
  <2>2. data_track = tracks[k] /\ HasDataTrack
    BY <1>1, <2>1, FoundIsDataTrack
  <2> QED BY <1>1, <2>1, <2>2
<1>4. CASE NoneFound
  BY <1>1, <1>2, <1>4 DEF NoneFound, HasDataTrack
<1> QED BY <1>1, <1>3, <1>4

LEMMA NoDataTrackAnswers == ASSUME Inv, NoDataTrack PROVE OpensDataTrack'
<1>1. ParserEnds /\ ~HasDataTrack /\ Fail("BadDescriptor")
  BY DEF NoDataTrack, HasDataTrack
<1>2. Declared = {} /\ IsImage(image)
  BY <1>1, AtTheEnd
<1> QED BY <1>1, <1>2, FailAnswers DEF Errors

LEMMA OpenNrgAnswers == ASSUME Inv, OpenNrg PROVE OpensDataTrack'
<1> DEFINE t == data_track
<1>1. ParserEnds /\ HasDataTrack /\ image.ext = "nrg" /\ HandOut("nrg", t.start, t.size)
  BY DEF OpenNrg, ParserEnds, NrgEnds, Parsing
<1>2. PICK p : IsFirst(p) /\ Holds(t, p)
  BY <1>1, AtTheEnd
<1>3. ExtentOf(p) = Extent("nrg", t.start, t.size)
  BY <1>1, <1>2 DEF Holds, ExtentOf
<1>4. ExtentOf(p).file = "nrg" /\ ExtentOf(p).base = t.start
  BY <1>3 DEF Extent
<1>5. IsImage(image) /\ Exists(image.ext)
  BY <1>1, AtTheEnd
<1> HIDE DEF t
<1> QED BY <1>1, <1>2, <1>3, <1>4, <1>5, HandOutAnswers

LEMMA OpenMdsAnswers == ASSUME Inv, OpenMds PROVE OpensDataTrack'
<1> DEFINE t == data_track
<1>1. /\ ParserEnds /\ HasDataTrack /\ image.ext = "mds"
      /\ HandOut("mdf", t.start, t.sectors * t.size)
  BY DEF OpenMds, ParserEnds, MdsEnds, Parsing
<1>2. PICK p : IsFirst(p) /\ Holds(t, p)
  BY <1>1, AtTheEnd
<1>3. ExtentOf(p) = Extent("mdf", t.start, t.sectors * t.size)
  <2>1. t = MdsTrack(MdsAt(p))
    BY <1>1, <1>2 DEF Holds
  <2>2. /\ t.start = MdsAt(p).start /\ t.size = MdsAt(p).size
        /\ t.sectors = read_extra_length(MdsAt(p).extra)
    BY <2>1 DEF MdsTrack
  <2> HIDE DEF t
  <2> QED BY <1>1, <2>2 DEF ExtentOf
<1>4. ExtentOf(p).file = "mdf" /\ ExtentOf(p).base = t.start
  BY <1>3 DEF Extent
<1>5. IsImage(image) /\ Exists(image.ext)
  BY <1>1, AtTheEnd
<1> HIDE DEF t
<1> QED BY <1>1, <1>2, <1>3, <1>4, <1>5, HandOutAnswers

LEMMA OpenTocAnswers == ASSUME Inv, OpenToc PROVE OpensDataTrack'
<1> DEFINE t == data_track
           len == TocLength(t.datafile, t.file_offset, t.length_sectors, t.mode)
<1>1. ParserEnds /\ HasDataTrack /\ image.ext = "toc" /\ SheetEnds("toc") /\ TypeOK
  BY DEF OpenToc, ParserEnds, SheetEnds, Parsing, Inv
<1>2. PICK p : IsFirst(p) /\ Holds(t, p)
  BY <1>1, AtTheEnd
<1>3. IsImage(image) /\ Exists(image.ext)
  BY <1>1, AtTheEnd
<1>4. TocHolds(t, p, Len(Lines))
  <2>1. p \in Declared
    BY <1>2 DEF IsFirst
  <2>2. at = Len(Lines)
    BY <1>1, <2>1, SheetAllPassed
  <2> QED BY <1>1, <1>2, <2>2 DEF Holds, TocHolds
<1>5. t.length_sectors \in Nat /\ t.mode \in DOMAIN TocModes
  <2>1. data_track \in TracksOf("toc") /\ IsData(data_track)
    BY <1>1, DataTrackTyped
  <2> QED BY <1>1, <2>1 DEF TracksOf, IsData, TocIsData
<1>6. ExtentOf(p) = TocExtent(p[1], Len(Lines))
  BY <1>1 DEF ExtentOf
<1> HIDE DEF t
<1>7. /\ ExtentOf(p).file = t.datafile /\ ExtentOf(p).base = t.file_offset
      /\ Exists(t.datafile) => ExtentOf(p) = Extent(t.datafile, t.file_offset, len)
  <2> DEFINE avail == LeftOf(SizeOf(t.datafile), t.file_offset)
             said == t.length_sectors * TocModes[t.mode]
  <2>1. ExtentOf(p) = Extent(t.datafile, t.file_offset,
                             IF said > 0 THEN Lesser(said, avail) ELSE avail)
    BY <1>4, <1>6 DEF TocExtent, TocHolds
  <2>2. said > 0 <=> t.length_sectors > 0
    <3>1. TocModes[t.mode] \in Nat \ {0}
      BY <1>5 DEF TocModes
    <3>2. PICK m \in Nat \ {0} : m = TocModes[t.mode]
      BY <3>1
    <3>3. PICK l \in Nat : l = t.length_sectors
      BY <1>5
    <3>4. l * m > 0 <=> l > 0
      OBVIOUS
    <3> QED BY <3>2, <3>3, <3>4
  <2>3. Exists(t.datafile) => len = IF t.length_sectors > 0 THEN Lesser(said, avail) ELSE avail
    BY DEF TocLength, SizeOf
  <2> HIDE DEF avail, said, len
  <2> QED BY <2>1, <2>2, <2>3 DEF Extent
<1>8. CASE t.datafile = None
  <2>1. Fail("BadDescriptor")
    BY <1>8 DEF OpenToc, t
  <2>2. ~Exists(t.datafile)
    BY <1>3, <1>8, NamesAssumption DEF IsImage, Exists
  <2> QED BY <1>2, <1>3, <1>7, <2>1, <2>2, FailAnswers DEF Errors
<1>9. CASE t.datafile # None
  <2>1. HandOut(t.datafile, t.file_offset, len)
    BY <1>9 DEF OpenToc, t
  <2> HIDE DEF len
  <2> QED BY <1>2, <1>3, <1>7, <2>1, HandOutAnswers
<1> QED BY <1>8, <1>9

LEMMA OpenCueAnswers == ASSUME Inv, OpenCue PROVE OpensDataTrack'
<1> DEFINE f == data_track.file
<1>1. ParserEnds /\ HasDataTrack /\ image.ext = "cue" /\ HandOut(f, 0, image.files[f])
  BY DEF OpenCue, ParserEnds, SheetEnds, Parsing
<1>2. PICK p : IsFirst(p) /\ Holds(data_track, p)
  BY <1>1, AtTheEnd
<1>3. IsImage(image) /\ Exists(image.ext)
  BY <1>1, AtTheEnd
<1>4. PICK j \in 1 .. p[1] : LastFile(p[1], j) /\ f = Lines[j].name
  BY <1>1, <1>2 DEF Holds
<1>5. p[1] \in Int
  BY <1>2, <1>3, DeclaredPairs DEF IsFirst
<1>6. j = CHOOSE k \in 1 .. p[1] : LastFile(p[1], k)
  <2>1. ASSUME NEW k \in 1 .. p[1], LastFile(p[1], k) PROVE k = j
    <3>1. k \in Int /\ j \in Int /\ ~(j < k) /\ ~(k < j)
      BY <1>4, <1>5, <2>1 DEF LastFile
    <3> QED BY <3>1
  <2> QED BY <1>4, <2>1
<1>7. PICK e : e = ExtentOf(p)
  OBVIOUS
<1>8. e.file = f
  BY <1>1, <1>4, <1>6, <1>7 DEF ExtentOf, CueExtent, Extent
<1>9. CASE FillsFile(e)
  <2>1. /\ e.file = f /\ e.base = 0
        /\ Exists(f) => e = Extent(f, 0, image.files[f])
    BY <1>8, <1>9 DEF FillsFile, Whole, Extent, SizeOf
  <2> HIDE DEF f
  <2> QED BY <1>1, <1>2, <1>3, <1>7, <2>1, HandOutAnswers
<1>10. CASE ~FillsFile(e)
  <2>1. p = CHOOSE q \in Declared : IsFirst(q)
    BY <1>2, <1>3, OneFirst
  <2>2. Declared # {}
    BY <1>2 DEF IsFirst
  <2>3. Answers(outcome', window')
    BY <1>1, <1>7, <1>10, <2>1, <2>2 DEF Answers
  <2>4. image' = image
    BY <1>1 DEF HandOut
  <2> QED BY <2>3, <2>4, AnswersKept
<1> QED BY <1>9, <1>10

LEMMA StartAnswers ==
  ASSUME Inv, StartNrg \/ StartMds \/ StartSheet
  PROVE  OpensDataTrack'
<1>1. IsImage(image)
  BY ImageFacts DEF Inv
<1>2. ASSUME outcome' = "parsing" PROVE OpensDataTrack'
  BY <1>2 DEF OpensDataTrack, Errors
<1>3. CASE StartNrg
  <2>1. image.ext = "nrg"
    BY <1>3 DEF StartNrg
  <2>2. CASE ~Exists("nrg")
    <3>1. Fail("io")
      BY <1>3, <2>2 DEF StartNrg
    <3> QED BY <1>1, <2>1, <2>2, <3>1, FailAnswers DEF Errors
  <2>3. CASE /\ Exists("nrg")
             /\ image.content.footer = None \/ image.content.footer.offset >= length
    <3>1. Fail("NotAnIso")
      BY <1>3, <2>3 DEF StartNrg
    <3>2. Declared = {}
      <4>1. CASE image.content.footer = None
        BY <2>1, <4>1 DEF Declared
      <4>2. CASE image.content.footer # None
        <5> SUFFICES ASSUME NEW p \in Declared PROVE FALSE
          OBVIOUS
        <5>1. PICK q \in DOMAIN image.content.chunks :
                \E j \in DOMAIN ChunkTracks(image.content.chunks[q]) : p = <<q, j>> /\ Listed(q)
          BY <2>1, <4>2, NrgPlaces
        <5>2. InList(image.content, length, image.content.footer.offset)
          BY <5>1, ListedChain DEF Chain
        <5>3. image.content.footer.offset \in Nat /\ length \in Nat
          BY <1>1, <2>1, <2>3, <4>2 DEF IsImage, IsNrg, Exists, length
        <5>4. image.content.footer.offset + 8 <= length - FooterLen(image.content)
          BY <5>2 DEF InList, CHUNK_HEAD
        <5>5. FooterLen(image.content) \in Nat
          BY DEF FooterLen
        <5> QED BY <2>3, <4>2, <5>3, <5>4, <5>5
      <4> QED BY <4>1, <4>2
    <3> QED BY <1>1, <3>1, <3>2, FailAnswers DEF Errors
  <2>4. CASE /\ Exists("nrg")
             /\ ~(image.content.footer = None \/ image.content.footer.offset >= length)
    BY <1>2, <1>3, <2>4 DEF StartNrg, Begin
  <2> QED BY <2>2, <2>3, <2>4
<1>4. CASE StartMds
  <2>1. image.ext = "mds"
    BY <1>4 DEF StartMds
  <2>2. CASE ~Exists("mds")
    <3>1. Fail("io")
      BY <1>4, <2>2 DEF StartMds
    <3> QED BY <1>1, <2>1, <2>2, <3>1, FailAnswers DEF Errors
  <2>3. CASE Exists("mds") /\ (length < HEADER_LEN \/ ~image.content.signature)
    <3>1. Fail("io") \/ Fail("NotAnIso")
      BY <1>4, <2>3 DEF StartMds
    <3>2. length \in Nat
      BY <1>1, <2>1, <2>3 DEF IsImage, Exists, length
    <3>3. Declared = {}
      BY <2>1, <2>3, <3>2 DEF Declared, HEADER_LEN
    <3> QED BY <1>1, <3>1, <3>3, FailAnswers DEF Errors
  <2>4. CASE Exists("mds") /\ ~(length < HEADER_LEN) /\ image.content.signature
    BY <1>2, <1>4, <2>4 DEF StartMds, Begin
  <2> QED BY <2>2, <2>3, <2>4
<1>5. CASE StartSheet
  <2>1. image.ext # "ccd"
    BY <1>5 DEF StartSheet
  <2>2. CASE ~Exists(image.ext)
    BY <1>1, <1>5, <2>1, <2>2, FailAnswers DEF StartSheet, Errors
  <2>3. CASE Exists(image.ext)
    BY <1>2, <1>5, <2>3 DEF StartSheet, Begin
  <2> QED BY <2>2, <2>3
<1> QED BY <1>3, <1>4, <1>5

LEMMA OpenWholeAnswers ==
  ASSUME Inv, OpenPlain \/ OpenCcd
  PROVE  OpensDataTrack'
<1> DEFINE p == <<0, 0>>
<1>1. IsImage(image) /\ image.ext \notin {"nrg", "mds", "toc", "cue"}
  BY ImageFacts DEF Inv, OpenPlain, OpenCcd
<1>2. IsFirst(p)
  BY <1>1 DEF IsFirst, Declared, Before
<1>3. CASE OpenPlain
  <2>1. image.ext # "ccd" /\ HandOut(image.ext, 0, length)
    BY <1>3 DEF OpenPlain
  <2>2. ExtentOf(p) = Whole(image.ext)
    BY <1>1, <2>1 DEF ExtentOf
  <2>3. /\ ExtentOf(p).file = image.ext /\ ExtentOf(p).base = 0
        /\ Exists(image.ext) => ExtentOf(p) = Extent(image.ext, 0, length)
    BY <2>2 DEF Whole, Extent, SizeOf, length
  <2> HIDE DEF p
  <2> QED BY <1>1, <1>2, <2>1, <2>3, HandOutAnswers
<1>4. CASE OpenCcd
  <2>1. ExtentOf(p) = Whole("img") /\ image.ext = "ccd"
    BY <1>4 DEF ExtentOf, OpenCcd
  <2>2. /\ ExtentOf(p).file = "img" /\ ExtentOf(p).base = 0
        /\ Exists("img") => ExtentOf(p) = Extent("img", 0, image.files.img)
    BY <2>1 DEF Whole, Extent, SizeOf
  <2> HIDE DEF p
  <2>3. CASE Exists("img")
    <3>1. HandOut("img", 0, image.files.img)
      BY <1>4, <2>3 DEF OpenCcd
    <3> QED BY <1>1, <1>2, <2>1, <2>2, <3>1, HandOutAnswers
  <2>4. CASE ~Exists("img")
    <3>1. Fail("BadDescriptor")
      BY <1>4, <2>4 DEF OpenCcd
    <3> QED BY <1>1, <1>2, <2>2, <2>4, <3>1, FailAnswers DEF Errors
  <2> QED BY <2>3, <2>4
<1> QED BY <1>3, <1>4

(* What is open stays what it was.                                          *)
LEMMA CallAnswers ==
  ASSUME OpensDataTrack, image' = image, outcome' = outcome, window' = window
  PROVE  OpensDataTrack'
<1>1. outcome \in {"open"} \cup Errors => Answers(outcome, window)
  BY DEF OpensDataTrack, Answers
<1> QED BY <1>1, AnswersKept

(* Whatever the container declares, and however the parsers come by it, what *)
(* `open` hands out is the first of the data tracks, and it fails only where *)
(* there is none, or its file is missing or does not reach so far.          *)
THEOREM OpensFirstDataTrack == Spec => []OpensDataTrack
<1>1. Init => OpensDataTrack
  BY DEF Init, OpensDataTrack, Errors
<1>2. Inv /\ OpensDataTrack /\ [Next]_vars => OpensDataTrack'
  <2> SUFFICES ASSUME Inv, OpensDataTrack, [Next]_vars PROVE OpensDataTrack'
    OBVIOUS
  <2>1. ASSUME outcome' = "parsing" PROVE OpensDataTrack'
    BY <2>1 DEF OpensDataTrack, Errors
  <2>2. CASE UNCHANGED vars
    BY <2>2, CallAnswers DEF vars, windowVars
  <2>3. CASE StartNrg \/ StartMds \/ StartSheet
    BY <2>3, StartAnswers
  <2>4. CASE NrgChunk \/ MdsBlock \/ MdsSession
    BY <2>1, <2>4 DEF NrgChunk, MdsBlock, MdsSession, Parsing
  <2>5. CASE TocTrack \/ TocFile \/ TocSkip \/ CueFile \/ CueTrack \/ CueSkip
    BY <2>1, <2>5 DEF TocTrack, TocFile, TocSkip, CueFile, CueTrack, CueSkip, NextLine, Parsing
  <2>6. CASE NoDataTrack
    BY <2>6, NoDataTrackAnswers
  <2>7. CASE OpenNrg \/ OpenMds \/ OpenToc \/ OpenCue
    BY <2>7, OpenNrgAnswers, OpenMdsAnswers, OpenTocAnswers, OpenCueAnswers
  <2>8. CASE OpenPlain \/ OpenCcd
    BY <2>8, OpenWholeAnswers
  <2>9. CASE Call
    BY <2>9, CallAnswers DEF Call, WindowCalls, Read, ReadFails, Seek
  <2> QED BY <2>2, <2>3, <2>4, <2>5, <2>6, <2>7, <2>8, <2>9 DEF Next, Open
<1> QED BY <1>1, <1>2, OpenerInvInit, OpenerInvNext, PTL DEF Spec

================================================================================
