------------------------------ MODULE OnePass ------------------------------
(***************************************************************************)
(* The single pass handleRumor makes over the rumors stored for an origin  *)
(* after it has raised NextID (gossiper.go:172-184): each stored ID that   *)
(* equals the current NextID raises it by one, and the pass never goes     *)
(* back.                                                                   *)
(***************************************************************************)
EXTENDS Naturals, Sequences

(* The IDs stored in a list of rumors of one origin. *)
IDs(list) == {list[i] : i \in DOMAIN list}

(* A pass can raise NextID from "from" to "to": every ID in between is in  *)
(* the list, and they were stored in increasing order.                     *)
Raises(list, from, to) ==
  /\ \A id \in from .. (to - 1) : id \in IDs(list)
  /\ \A i, j \in DOMAIN list :
       (list[i] \in from .. (to - 1) /\ list[j] \in from .. (to - 1) /\ list[i] < list[j])
         => i < j

(* NextID after the pass, one iteration after the other.                   *)
OnePass(list, from) ==
  LET next[i \in 0 .. Len(list)] ==
        IF i = 0 THEN from
        ELSE IF list[i] = next[i - 1] THEN next[i - 1] + 1
        ELSE next[i - 1]
  IN  next[Len(list)]
=============================================================================
