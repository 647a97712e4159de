------------------------------- MODULE MCSessions -------------------------------
(* Small images for Sessions: the first descriptor at lba 1, a scan of three *)
(* sectors and chains of four at most.                                       *)
EXTENDS Sessions

CONSTANTS r1, r2

McRoots == {r1, r2}

Dir(state, rr, skip) == [state |-> state, rr |-> rr, skip |-> skip]
Pvd(root) == [type |-> "pvd", root |-> root, agrees |-> TRUE]
Svd(t, root) == [type |-> t, root |-> root]
Other(types) == {[type |-> t] : t \in types}

(* Roots with and without padding, decoys, and roots beyond reach.           *)
RootPairs ==
  {<<Dir("sound", TRUE, 1), Dir("sound", TRUE, 2)>>,
   <<Dir("sound", FALSE, 0), Dir("sound", TRUE, 1)>>,
   <<Dir("sound", TRUE, 1), Dir("decoy", TRUE, 2)>>,
   <<Dir("decoy", FALSE, 0), Dir("cut", FALSE, 0)>>,
   <<Dir("damaged", FALSE, 0), Dir("sound", FALSE, 0)>>}

Image(sectors, endless, pair) ==
  [sectors |-> sectors, endless |-> endless,
   roots |-> [r \in McRoots |-> IF r = r1 THEN pair[1] ELSE pair[2]]]

ImagesOf(kinds, max, pairs) ==
  {Image(s, e, p) : s \in UNION {[1 .. n -> kinds] : n \in 0 .. max}, e \in BOOLEAN, p \in pairs}

AnyImages ==
  ImagesOf({Pvd(r1), Pvd(r2), [Pvd(r1) EXCEPT !.agrees = FALSE], Svd("joliet", r1),
           Svd("enhanced", r2)} \union Other({"unsigned", "boot", "nsr", "end", "data", "damaged"}),
          3, RootPairs)
    \union ImagesOf({Pvd(r1), Pvd(r2), Svd("joliet", r1), Svd("joliet", r2), Svd("enhanced", r2)}
                     \union Other({"zero", "end"}),
                   4, {<<Dir("sound", TRUE, 1), Dir("sound", TRUE, 2)>>,
                       <<Dir("sound", TRUE, 1), Dir("cut", FALSE, 0)>>})

(* One or two sound sessions, each with its terminator.                      *)
TwoSessions ==
  ImagesOf({Pvd(r1), Pvd(r2)} \union Other({"end"}), 4,
          {<<Dir("sound", TRUE, 1), Dir("sound", TRUE, 2)>>,
           <<Dir("sound", FALSE, 0), Dir("sound", TRUE, 1)>>})
================================================================================
