------------------------------- MODULE Traversal -------------------------------
(***************************************************************************)
(* What a directory walk promises, without saying in which order it works. *)
(* An extent <<lba, size>> is referenced when it is the root or when some   *)
(* listed directory holds a directory record for it.  A traversal takes     *)
(* the referenced extents whose lba it has not seen, one at a time, in any  *)
(* order; it may only finish when none is left.                             *)
(***************************************************************************)
EXTENDS Naturals, Sequences

CONSTANT Root          \* the extent the traversal starts from

VARIABLES img,          \* the image, any: what reading an extent gives; fixed
          seen,         \* the lbas taken so far
          listing,      \* lba |-> the records read there, for the lbas listed
          status        \* "running", "ok", or the error it stopped with

vars == <<img, seen, listing, status>>

(* The extents named by the directory records of the listings read so far.  *)
Referenced ==
  {Root} \union
  UNION {{<<listing[l][i].lba, listing[l][i].size>> :
            i \in {j \in DOMAIN listing[l] : listing[l][j].dir}} :
         l \in DOMAIN listing}

Frontier == {e \in Referenced : e[1] \notin seen}

Init ==
  /\ seen = {}
  /\ listing = <<>>
  /\ status = "running"

(* A readable extent is listed.                                             *)
List(e) ==
  /\ img[e].tag = "ok"
  /\ seen' = seen \union {e[1]}
  /\ listing' = [l \in DOMAIN listing \union {e[1]} |->
                   IF l = e[1] THEN img[e].recs ELSE listing[l]]
  /\ UNCHANGED status

(* An extent past the end of the image is seen, but lists nothing: only the *)
(* root is missed by the caller.                                            *)
Dangle(e) ==
  /\ img[e].tag = "eof"
  /\ seen' = seen \union {e[1]}
  /\ status' = IF e = Root /\ seen = {} THEN "eof" ELSE status
  /\ UNCHANGED listing

(* A damaged or oversized directory, or one too deep, stops the traversal.  *)
Abort(e) ==
  /\ \/ status' = "limit"
     \/ img[e].tag \in {"bad", "limit"} /\ status' = img[e].tag
  /\ seen' = seen \union {e[1]}
  /\ UNCHANGED listing

Finish ==
  /\ Frontier = {}
  /\ status' = "ok"
  /\ UNCHANGED <<seen, listing>>

Next ==
  /\ status = "running"
  /\ \/ \E e \in Frontier : List(e) \/ Dangle(e) \/ Abort(e)
     \/ Finish
  /\ UNCHANGED img

Spec == Init /\ [][Next]_vars
================================================================================
