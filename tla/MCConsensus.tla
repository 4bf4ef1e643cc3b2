----------------------------- MODULE MCConsensus -----------------------------
(* Instances of Consensus for TLC: two nodes that list two files and one.   *)
EXTENDS Consensus, TLC

CONSTANTS a, b

TwoAndOne == a :> 2 @@ b :> 1

(* The fittest file is the first of b, or the second of a. *)
FirstIsFittest  == <<a, 1>> :> 1 @@ <<b, 1>> :> 3 @@ <<a, 2>> :> 2
SecondIsFittest == <<a, 1>> :> 1 @@ <<b, 1>> :> 2 @@ <<a, 2>> :> 3

(* A node that has a message sends it on to any peer it knows (randPeer),   *)
(* its origin included: b gets its own messages back, a does not.           *)
HearsEcho == a :> {b} @@ b :> {a, b}

(* Bound: one goroutine at a time is in incrementMytime; what several do    *)
(* there at once is for Rounds and for the theorems.                       *)
OneAtATime == Cardinality({x \in Nodes \X Callers : stage[x[1]][x[2]] # "out"}) <= 1

(* Bound: the files are listed in a node's first round. *)
ListedEarly == OneAtATime /\ \A n \in Nodes : myTime[n] > 0 => files[n] = MaxFiles[n]
=============================================================================
