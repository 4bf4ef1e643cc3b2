------------------------------ MODULE MCGossip ------------------------------
(* Instances of Gossip for TLC. *)
EXTENDS Gossip, TLC

CONSTANTS a, b

(* Two gossipers: a is started with b as its peer, b's web client adds a. *)
PairNodes == {a, b}
PairLinks == a :> {b} @@ b :> {}
PairAdded == a :> {} @@ b :> {a}

JustA == {a}
=============================================================================
