---------------------------- MODULE RumorSpread ----------------------------
(***************************************************************************)
(* What gossiping promises, without packets, statuses or acknowledgements: *)
(* a rumor is published once, by its origin, and then spreads by being     *)
(* copied from a node that knows it.  Nothing is invented, altered or      *)
(* forgotten.                                                              *)
(***************************************************************************)
EXTENDS Naturals

CONSTANTS Nodes, MaxID

VARIABLE known  \* [n] the rumors n knows

Rumor == [origin : Nodes, id : 1 .. MaxID]

Init == known = [n \in Nodes |-> {}]

Publish(n, r) ==
  /\ r.origin = n
  /\ \A m \in Nodes : r \notin known[m]
  /\ known' = [known EXCEPT ![n] = @ \cup {r}]

Learn(n, r) ==
  /\ \E m \in Nodes : r \in known[m]
  /\ known' = [known EXCEPT ![n] = @ \cup {r}]

Next == \E n \in Nodes, r \in Rumor : Publish(n, r) \/ Learn(n, r)

Spec == Init /\ [][Next]_known
=============================================================================
