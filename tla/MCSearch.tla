------------------------------ MODULE MCSearch ------------------------------
(* Instance of Search for TLC: three nodes that know each other; b and c   *)
(* have one chunk each of the file split, c has all of the file whole; a   *)
(* starts a search without a budget and one with a budget, of which b and  *)
(* c get enough to pass it on to each other.                               *)
EXTENDS Search, TLC

CONSTANTS a, b, c, split, whole, growing, single, word

Triangle == a :> <<b, c>> @@ b :> <<a, c>> @@ c :> <<a, b>>

SplitPart(i) == [name |-> split, meta |-> split, chunkCount |-> 2, chunkMap |-> <<i>>]
Whole == [name |-> whole, meta |-> whole, chunkCount |-> 1, chunkMap |-> <<1>>]
Holders == a :> {} @@ b :> {SplitPart(2)} @@ c :> {SplitPart(1), Whole}

AllMatch == {word} \X {split, whole}
AtA == growing :> a @@ single :> a
ForWord == growing :> word @@ single :> word
OneBudget == growing :> NoBudget @@ single :> 5

(* Bounds: the datagrams in flight, a lost one among them, and the searches *)
(* recent or about to be.                                                  *)
Quiet ==
  /\ BagCardinality(requests) <= 2 /\ BagCardinality(replies) <= 2
  /\ BagCardinality(requests) + BagCardinality(replies) <= 3
  /\ SumFunction([n \in Nodes |-> BagCardinality(entering[n])
                                    + BagCardinality(recentSearchs[n])]) <= 2
=============================================================================
