------------------------------ MODULE MCRounds ------------------------------
(* Instances of Rounds for TLC: two nodes that list two files and one, and  *)
(* four nodes of which two list a file and one sends another rumor.         *)
EXTENDS Rounds, TLC

CONSTANTS a, b, c, d

TwoAndOne == a :> 2 @@ b :> 1
NoRumors  == [n \in Nodes |-> 0]

TwoOfFour == a :> 1 @@ b :> 1 @@ c :> 0 @@ d :> 0
OneRumor  == [n \in Nodes |-> IF n = a THEN 1 ELSE 0]

(* Bound: of the six goroutines that can be in incrementMytime, four at a   *)
(* time are; three of one node can be among them.                          *)
FourAtATime == Cardinality({x \in Nodes \X Callers : stage[x[1]][x[2]] # "out"}) <= 4
=============================================================================
