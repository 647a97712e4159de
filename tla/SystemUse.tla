-------------------------------- MODULE SystemUse --------------------------------
(***************************************************************************)
(* The System Use area of a directory record (core/src/rock_ridge.rs): a    *)
(* sequence of SUSP entries, scanned from the front by every getter.        *)
(***************************************************************************)
EXTENDS Lists

CONSTANT None            \* an absent value

(* An entry: its signature; whether it is at least as long as the getter of *)
(* its kind demands (`whole`); and the fields the getter takes from it.     *)
(* "stop" is what ends every scan: a length byte below 3, a length past the *)
(* end of the area, or the pad byte of an area of odd length with a          *)
(* continuation area behind it.                                             *)

(* The entries a getter looks at.                                           *)
Scanned(area) ==
  LET stops == {i \in DOMAIN area : area[i].sig = "stop"}
  IN  IF stops = {} THEN area ELSE SubSeq(area, 1, Min(stops) - 1)

Whole(area, sig) == Pick(Scanned(area), LAMBDA e : e.sig = sig /\ e.whole)

FirstOf(entries) == IF entries = <<>> THEN None ELSE entries[1].data

continuation(area) == FirstOf(Whole(area, "CE"))
posix_attrs(area)  == FirstOf(Whole(area, "PX"))

(* A TF entry in the long format is passed over, for a later short one.     *)
timestamps(area) == FirstOf(Pick(Whole(area, "TF"), LAMBDA e : ~e.data.long))

(* The bytes of an SP entry, wherever they stand.                           *)
sp_skip(area) ==
  LET found == Pick(area, LAMBDA e : e.sig = "SP" /\ e.whole)
  IN  IF found = <<>> THEN 0 ELSE found[1].data

--------------------------------------------------------------------------------

(* NM entries are concatenated up to the first that does not continue.      *)
UpToLast(parts) ==
  LET last == {i \in DOMAIN parts : ~parts[i].data.more}
  IN  IF last = {} THEN parts ELSE SubSeq(parts, 1, Min(last))

NotEmpty(name) == IF name = <<>> THEN None ELSE name

alternate_name(area) ==
  NotEmpty(FlattenSeq(Each(UpToLast(Whole(area, "NM")), LAMBDA e : e.data.text)))

(* The components of all the SL entries, in order.                          *)
Components(area) ==
  LET links == Whole(area, "SL") IN FlattenSeq([i \in DOMAIN links |-> links[i].data])

(* One component of a link.  A component after one that continues is taken  *)
(* as text, whatever its flags; the root is its own separator.              *)
AddComponent(acc, comp) ==
  LET text == CASE comp.kind = "parent"  -> <<"..">>
                [] comp.kind = "current" -> <<".">>
                [] OTHER                 -> comp.text
  IN  [path |-> CASE acc.continued                               -> acc.path \o comp.text
                  [] ~acc.continued /\ comp.kind = "root"        -> Append(acc.path, "/")
                  [] ~acc.continued /\ comp.kind # "root" /\ acc.sep
                       -> Append(acc.path, "/") \o text
                  [] OTHER                                       -> acc.path \o text,
       sep       |-> IF acc.continued THEN acc.sep ELSE comp.kind # "root",
       continued |-> comp.more]

(* The target, a sequence of pieces of text.                                *)
symlink_target(area) ==
  IF Whole(area, "SL") = <<>> THEN None
  ELSE FoldLeft(AddComponent, [path |-> <<>>, sep |-> FALSE, continued |-> FALSE],
                Components(area)).path
==================================================================================
