--------------------------------- MODULE Stream ---------------------------------
(***************************************************************************)
(* What a `Read + Seek` promises: bytes addressed from 0, of which only     *)
(* those before `end` exist, a size that seeking to the end reports, and a  *)
(* limit to the positions that can be asked for.                            *)
(***************************************************************************)
EXTENDS Integers

CONSTANTS Counts,      \* the sizes of the caller's buffers
          Distances,   \* how far the caller seeks
          Closed       \* the stream before it is opened

VARIABLES stream,      \* [size, end, limit], fixed once opened
          pos,         \* the next byte to be read
          reply        \* what the last call returned
vars == <<stream, pos, reply>>

Lesser(m, n) == IF m < n THEN m ELSE n

NoCall     == [kind |-> "none"]
Error      == [kind |-> "error"]
Data(p, k) == [kind |-> "data", from |-> p, count |-> k]
At(p)      == [kind |-> "at", at |-> p]

Init == stream = Closed /\ pos = 0 /\ reply = NoCall

Open ==
  /\ stream = Closed /\ stream' \in [size : Nat, end : Nat, limit : Nat]
  /\ UNCHANGED <<pos, reply>>

(* Some of the bytes asked for, and none only if there are none.            *)
Read(n) ==
  LET most == IF pos < stream.end THEN Lesser(n, stream.end - pos) ELSE 0
  IN  \E k \in 0 .. most :
        /\ k = 0 => most = 0
        /\ reply' = Data(pos, k) /\ pos' = pos + k

(* A read that fails has read nothing.                                      *)
Fail == reply' = Error /\ UNCHANGED pos

(* Any position below the limit, be it past the end.                        *)
Seek(base, by) ==
  LET target == base + by
  IN  IF target \in 0 .. stream.limit - 1
      THEN pos' = target /\ reply' = At(target)
      ELSE reply' = Error /\ UNCHANGED pos

Next ==
  \/ Open
  \/ /\ stream # Closed
     /\ \/ \E n \in Counts : Read(n)
        \/ Fail
        \/ \E by \in Distances, base \in {0, pos, stream.size} : Seek(base, by)
     /\ UNCHANGED stream

Spec == Init /\ [][Next]_vars
================================================================================
