------------------------------ MODULE MCPrivate ------------------------------
(* An instance of Private for TLC: three nodes that know each other; the    *)
(* second of the two rumors of a is a TLC message with a clock.            *)
EXTENDS Private, TLC

CONSTANTS a, b, c

Triangle == [n \in {a, b, c} |-> {a, b, c} \ {n}]
NoneAdded == [n \in {a, b, c} |-> {}]
Second == {[origin |-> a, id |-> 2]}

Relays == Permutations({b, c})

(* Mongered rumors that wait for an acknowledgement, with who waits. *)
Waiting == UNION {{<<n, m>>} \X rumorsToAck[n][m] : n \in Nodes, m \in Nodes}

(* Bounds: one datagram is in flight; two rumors wait for acknowledgements, *)
(* of two nodes, and none that was acknowledged for its coin; a sends its   *)
(* TLC message before it has heard of b and c.                             *)
Quiet ==
  /\ Cardinality(net) + Cardinality(mail) <= 1
  /\ Cardinality(Waiting) <= 2
  /\ \A n \in Nodes : Cardinality({w \in Waiting : w[1][1] = n}) <= 1
  /\ \A n, m \in Nodes : rumorsAcked[n][m] = {}
  /\ \A p \in net : p.kind = "rumor" => p.want[b] = 0 /\ p.want[c] = 0
=============================================================================
