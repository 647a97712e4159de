-------------------------------- MODULE MCOpener --------------------------------
(***************************************************************************)
(* Opener over a few images of each container.  Offsets and lengths of the   *)
(* tables are the real ones; 2^63 is scaled down to 4096.                    *)
(***************************************************************************)
EXTENDS Opener, TLC

Names4 == {"iso", "nrg", "mds", "mdf", "toc", "cue", "ccd", "img", "a.bin", "b.bin"}

(* A caller asks for a sector, or a header within it, from its place, moves  *)
(* back and forth, asks for the size, and goes past what there is.          *)
CallSeeks ==
  {[whence |-> w[1], by |-> w[2]] :
     w \in {<<"start", 0>>, <<"start", 2>>, <<"start", I64 - 1>>, <<"start", U64 - 1>>,
            <<"current", -3>>, <<"current", I64 - 1>>, <<"end", 0>>, <<"end", -2>>}}

Img(ext, files, content) == [ext |-> ext, files |-> files, content |-> content]

Plain == {Img("iso", [iso |-> 5], None), Img("iso", [img |-> 5], None),
          Img("ccd", [ccd |-> 9, img |-> 4], None), Img("ccd", [ccd |-> 9], None)}

--------------------------------------------------------------------------------

(* NRG images of 200 bytes: 64 of data, the chunks from 64 on.               *)
Sub(code, start, end) == [code |-> code, start |-> start, end |-> end, size |-> 6]
Chunk(id, size, subs) == [id |-> id, size |-> size, subs |-> subs]

Audio == Sub(7, 0, 8)
Disc  == Sub(0, 8, 13)

Nrg(version, offset, len, chunks) ==
  Img("nrg", [nrg |-> len],
      [footer |-> [version |-> version, offset |-> offset], chunks |-> chunks])

EndAt(p) == p :> Chunk("END!", 0, <<>>)

NrgImages ==
  {(* disc-at-once, the data track after an audio track *)
   Nrg("V2", 64, 200, 64 :> Chunk("DAOX", 106, <<Audio, Disc>>) @@ EndAt(178)),
   (* a chunk not known before the tracks; one more after the end of the list *)
   Nrg("V1", 64, 200, 64 :> Chunk("CUES", 8, <<>>) @@ 80 :> Chunk("ETNF", 20, <<Disc>>)
                        @@ EndAt(108) @@ 116 :> Chunk("ETNF", 20, <<Sub(3, 0, 9)>>)
                        @@ EndAt(144)),
   (* the list ends before the data track *)
   Nrg("V1", 64, 200, 64 :> Chunk("ETNF", 20, <<Audio>>) @@ EndAt(92)
                        @@ 100 :> Chunk("ETNF", 20, <<Disc>>) @@ EndAt(128)),
   (* half a subblock, a header cut short, a chunk said to end past the file *)
   Nrg("V1", 64, 200, 64 :> Chunk("DAOI", 51, <<Disc>>) @@ 123 :> Chunk("DAOI", 21, <<>>)
                        @@ 152 :> Chunk("ETN2", 32, <<Disc>>)),
   Nrg("V1", 64, 200, 64 :> Chunk("ETNF", 137, <<Disc>>)),
   (* a list that only the footer ends *)
   Nrg("V2", 64, 112, 64 :> Chunk("ETN2", 32, <<Audio>>)),
   (* tables that lie: an end before the start, a start past the file, and past what a *)
   (* file can have *)
   Nrg("V2", 64, 200, 64 :> Chunk("DAOX", 64, <<Sub(5, 9, 4)>>) @@ EndAt(136)),
   Nrg("V1", 64, 200, 64 :> Chunk("ETNF", 20, <<Sub(0, 197, 0)>>) @@ EndAt(92)),
   Nrg("V1", 64, 200, 64 :> Chunk("ETNF", 20, <<Sub(0, 300, 0)>>) @@ EndAt(92)),
   Nrg("V2", 64, 200, 64 :> Chunk("ETN2", 32, <<Sub(0, I64, 0)>>) @@ EndAt(104)),
   (* no list, no footer *)
   Nrg("V1", 200, 200, EndAt(64)),
   Img("nrg", [nrg |-> 200], [footer |-> None, chunks |-> EndAt(64)])}

--------------------------------------------------------------------------------

Block(point, mode, size, start, extra) ==
  [point |-> point, mode |-> mode, size |-> size, start |-> start, extra |-> extra]

LeadIn   == Block(160, 170, 2048, 0, 0)
AudioOne == Block(1, 169, 2352, 0, 0)
DataTwo(extra) == Block(2, 170, 2048, 4, extra)

(* A header, two sessions at 88 and 112, tracks from 136 and 296 on, the     *)
(* extra block at 400.                                                      *)
Mds(files, len, count, blocks1, blocks2) ==
  LET t(bs, p) == [q \in {p + (i - 1) * TRACK_BLOCK_LEN : i \in DOMAIN bs} |->
                     bs[(q - p) \div TRACK_BLOCK_LEN + 1]]
  IN  Img("mds", "mds" :> len @@ files,
          [signature |-> TRUE, count |-> count, first |-> 88,
           session |-> 88 :> [count |-> Len(blocks1), first |-> 136]
                       @@ 112 :> [count |-> Len(blocks2), first |-> 296],
           track |-> t(blocks1, 136) @@ t(blocks2, 296),
           extra |-> 400 :> 1])

MdsImages ==
  {Mds([mdf |-> 9], 408, 2, <<LeadIn, AudioOne>>, <<DataTwo(400)>>),
   Mds([mdf |-> 2060], 408, 1, <<DataTwo(400)>>, <<>>),
   (* only one session counted; no extra block; one that ends past the file *)
   Mds([mdf |-> 9], 408, 1, <<LeadIn, AudioOne>>, <<DataTwo(400)>>),
   Mds([mdf |-> 9], 408, 2, <<LeadIn, DataTwo(0)>>, <<>>),
   Mds([mdf |-> 9], 406, 2, <<LeadIn, DataTwo(400)>>, <<>>),
   (* the blocks of the second session past the end of the file *)
   Mds([mdf |-> 9], 300, 2, <<LeadIn, AudioOne>>, <<DataTwo(0)>>),
   (* 2336 bytes to a sector are data whatever the mode *)
   Mds([mdf |-> 9], 408, 1, <<Block(1, 169, 2336, 1, 400), AudioOne>>, <<>>),
   Mds(<<>>, 408, 1, <<DataTwo(400)>>, <<>>),
   Mds([mdf |-> 9], 80, 0, <<>>, <<>>)}

--------------------------------------------------------------------------------

Mode(m)           == [key |-> "TRACK", mode |-> m]
File(name, o, l)  == [key |-> "FILE", name |-> name, offset |-> o, length |-> l]
Index(n, frame)   == [key |-> "INDEX", number |-> n, frame |-> frame]
Other             == [key |-> "other"]
Bins              == [x \in {"a.bin", "b.bin"} |-> IF x = "a.bin" THEN 6 ELSE 9]
Sheet(ext, lines) == Img(ext, ext :> 80 @@ Bins, lines)

TocImages ==
  {Sheet("toc", lines) : lines \in
     {<<Other, Mode("AUDIO"), File("a.bin", None, 2), Mode("MODE1"), File("a.bin", 2, 1)>>,
      <<File("a.bin", 1, 1), Mode("MODE1_RAW"), Other, File("b.bin", 4, None), Mode("MODE1")>>,
      (* a second file line, without the offset of the first *)
      <<Mode("MODE2"), File("a.bin", 3, 0), File("b.bin", None, None), Mode("AUDIO")>>,
      <<Mode("MODE1"), File(None, 3, 1), Mode("MODE1"), File("a.bin", 0, None)>>,
      <<Mode("MODE1"), File("c.bin", 3, 1)>>,
      <<Mode("MODE2_FORM2"), File("a.bin", 7, 1)>>,
      <<Mode("MODE2_FORM1"), File("a.bin", 7, 1)>>}}

CueImages ==
  {Sheet("cue", lines) : lines \in
     {(* a file to each track *)
      <<Mode("MODE1/2048"), File("a.bin", None, None), Mode("AUDIO"), Index(1, 0),
        File("b.bin", None, None), Index(1, 1), Mode("MODE2/2352"), Other, Index(0, 0),
        Index(1, 0)>>,
      <<File("c.bin", None, None), File("a.bin", None, None), Mode("MODE1/2352")>>,
      <<File("c.bin", None, None), Mode("MODE1/2048"), File("a.bin", None, None)>>,
      <<Mode("MODE1/2048")>>}}

(* One file, with an audio track before the data track or behind it.         *)
SharedBin(lines) == Img("cue", [cue |-> 80] @@ [x \in {"a.bin"} |-> 2400],
                        <<File("a.bin", None, None)>> \o lines)

SharedBins ==
  {SharedBin(<<Mode("AUDIO"), Index(1, 0), Mode("MODE1/2352"), Index(0, 0), Index(1, 1)>>),
   SharedBin(<<Mode("MODE1/2352"), Index(1, 0), Mode("AUDIO"), Index(1, 1)>>)}

MCImages == Plain \cup NrgImages \cup MdsImages \cup TocImages \cup CueImages \cup SharedBins
================================================================================
