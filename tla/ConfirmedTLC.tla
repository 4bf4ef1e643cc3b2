---------------------------- MODULE ConfirmedTLC ----------------------------
(***************************************************************************)
(* What TLC messages promise, without packets, acknowledgements or rounds: *)
(* a message is stored by its origin when it is published, and then by     *)
(* other nodes; the origin confirms it once a majority of the nodes has    *)
(* stored it, and the others only after the origin.  Nothing is forgotten. *)
(***************************************************************************)
CONSTANTS
  Nodes,
  IDs,
  Quorums  \* the sets of nodes that are a majority

VARIABLES
  stored,    \* [n][o] the messages of o that n stored
  confirmed  \* [n][o] those n takes as confirmed

Init ==
  /\ stored = [n \in Nodes |-> [o \in Nodes |-> {}]]
  /\ confirmed = stored

Store(n, o, id) ==
  /\ o = n \/ id \in stored[o][o]
  /\ stored' = [stored EXCEPT ![n][o] = @ \cup {id}]
  /\ UNCHANGED confirmed

Confirm(n, o, id) ==
  /\ id \in stored[n][o]
  /\ IF o = n THEN {m \in Nodes : id \in stored[m][o]} \in Quorums
     ELSE id \in confirmed[o][o]
  /\ confirmed' = [confirmed EXCEPT ![n][o] = @ \cup {id}]
  /\ UNCHANGED stored

Next == \E n, o \in Nodes, id \in IDs : Store(n, o, id) \/ Confirm(n, o, id)

Spec == Init /\ [][Next]_<<stored, confirmed>>
=============================================================================
