-------------------------------- MODULE FlatFile --------------------------------
(***************************************************************************)
(* What a reader of a file promises to its caller, whatever the extents the *)
(* file is stored in: a sequence of bytes and a position in it.             *)
(***************************************************************************)
EXTENDS Integers, Sequences

CONSTANTS Counts,   \* the sizes of the caller's buffers
          Offsets   \* the distances the caller seeks

VARIABLES file,     \* the bytes, fixed
          pos,      \* the next byte to be read
          reply     \* what the last call returned

vars == <<file, pos, reply>>

Lesser(m, n) == IF m < n THEN m ELSE n

NoCall  == [kind |-> "none"]
Error   == [kind |-> "error"]
Data(b) == [kind |-> "data", bytes |-> b]
At(p)   == [kind |-> "at", at |-> p]

Init == pos = 0 /\ reply = NoCall

(* A read of n bytes returns n, or all there are.                           *)
Read(n) ==
  LET k == Lesser(n, Len(file) - pos)
  IN  /\ reply' = Data(SubSeq(file, pos + 1, pos + k))
      /\ pos' = pos + k

(* A failed read may have consumed some of what it was asked for.           *)
Fail(n) ==
  /\ reply' = Error
  /\ pos' \in pos .. pos + Lesser(n, Len(file) - pos)

(* A seek stays inside the file, and says where it went.                    *)
Seek(base, by) ==
  /\ pos' = IF base + by < 0 THEN 0 ELSE Lesser(base + by, Len(file))
  /\ reply' = At(pos')

Next ==
  /\ \/ \E n \in Counts : Read(n) \/ Fail(n)
     \/ \E by \in Offsets, base \in {0, pos, Len(file)} : Seek(base, by)
  /\ UNCHANGED file

Spec == Init /\ [][Next]_vars
================================================================================
