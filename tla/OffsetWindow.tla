------------------------------ MODULE OffsetWindow ------------------------------
(***************************************************************************)
(* OffsetReader (core/src/offset.rs): a part of a file, [base, base + len),  *)
(* given out as a stream of its own.  The reader keeps a position in the    *)
(* window, the file one of its own; every read and seek moves both.         *)
(***************************************************************************)
EXTENDS Integers

CONSTANTS None,
          Names,    \* the files
          Counts,   \* the sizes of the caller's buffers
          Seeks,    \* the caller's seeks: [whence, by]
          I64       \* 2^63

U64 == 2 * I64

(* The callers in the crates seek from the start, and to the end; nobody     *)
(* asks for a position past the end by counting from it.                    *)
ASSUME WidthAssumption == I64 \in Nat \ {0}
ASSUME CountAssumption == Counts \subseteq Nat
ASSUME SeekAssumption ==
  \A s \in Seeks :
    \/ s.whence = "start" /\ s.by \in 0 .. U64 - 1
    \/ s.whence = "current" /\ s.by \in -I64 .. I64 - 1
    \/ s.whence = "end" /\ s.by \in -I64 .. 0

(* A window: the file, how long it is, and what it is said to be taken from  *)
(* it.  base and len come from a container's tables; nothing compares them  *)
(* with the length of the file.                                             *)
Windows == [file : Names, flen : 0 .. I64 - 1, base : 0 .. I64 - 1, len : 0 .. U64 - 1]

ASSUME NoneAssumption == None \notin Windows \cup [size : Nat, end : Nat, limit : Nat]

VARIABLES window,   \* the window, or None
          pos,      \* the position in the window
          ipos,     \* the position in the file
          reply     \* what the last call returned; data by its place in the file
windowVars == <<window, pos, ipos, reply>>

Lesser(m, n) == IF m < n THEN m ELSE n
LeftOf(n, m) == IF m < n THEN n - m ELSE 0

NoCall     == [kind |-> "none"]
Error      == [kind |-> "error"]
Data(p, k) == [kind |-> "data", from |-> p, count |-> k]
At(p)      == [kind |-> "at", at |-> p]

WindowInit == window = None /\ pos = 0 /\ ipos = 0 /\ reply = NoCall

(* OffsetReader::new positions the file at the base.                        *)
New(w) ==
  /\ window = None
  /\ window' = w /\ pos' = 0 /\ ipos' = w.base
  /\ UNCHANGED reply

(* Mutant: a read is not held back at the end of the window.                 *)
RemainingOfFile == LeftOf(window.flen, ipos)

remaining == LeftOf(window.len, pos)

(* The file gives some of what is asked, none at its end or if asked none.   *)
Read(n) ==
  /\ window # None
  /\ LET cap  == Lesser(remaining, n)
         most == Lesser(cap, LeftOf(window.flen, ipos))
     IN  \E k \in 0 .. most :
           /\ k = 0 => most = 0
           /\ reply' = Data(ipos, k)
           /\ pos' = pos + k /\ ipos' = ipos + k
  /\ UNCHANGED window

ReadFails ==
  /\ window # None /\ remaining > 0
  /\ reply' = Error
  /\ UNCHANGED <<window, pos, ipos>>

(* What 64 bits, taken as signed, keep of x.                                *)
Signed(x) == IF x >= I64 THEN x - U64 ELSE IF x < -I64 THEN x + U64 ELSE x

Target(s) ==
  CASE s.whence = "start"   -> Signed(s.by)
    [] s.whence = "current" -> Signed(Signed(pos) + s.by)
    [] s.whence = "end"     -> Signed(Signed(window.len) + s.by)

(* The file cannot be positioned at 2^63 and beyond.                        *)
Seek(s) ==
  /\ window # None
  /\ LET target == Target(s)
     IN  IF target < 0 \/ window.base + target >= I64
         THEN reply' = Error /\ UNCHANGED <<pos, ipos>>
         ELSE /\ pos' = target /\ ipos' = window.base + target
              /\ reply' = At(target)
  /\ UNCHANGED window

WindowCalls ==
  \/ \E n \in Counts : Read(n)
  \/ ReadFails
  \/ \E s \in Seeks : Seek(s)

WindowSpec == WindowInit /\ [][(\E w \in Windows : New(w)) \/ WindowCalls]_windowVars

--------------------------------------------------------------------------------

(* The window as a stream: its bytes are those of the file, `base` further   *)
(* on, as far as both the window and the file go.                           *)
Shown ==
  IF window = None THEN None
  ELSE [size  |-> window.len,
        end   |-> Lesser(window.len, LeftOf(window.flen, window.base)),
        limit |-> I64 - window.base]

Told == IF reply.kind = "data" THEN Data(reply.from - window.base, reply.count) ELSE reply

Flat == INSTANCE Stream
          WITH Closed <- None, stream <- Shown, reply <- Told,
               Distances <- {s.by : s \in Seeks}

(* "Presents a byte sub-range of a `Read + Seek` as a standalone stream       *)
(* starting at offset 0", with "a clean EOF at the track end rather than    *)
(* spilling into trailing container metadata", whatever the calls.          *)
ImplementsStream == Flat!Spec
================================================================================
