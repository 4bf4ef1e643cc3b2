------------------------------ MODULE Induction ------------------------------
(***************************************************************************)
(* Induction over the natural numbers with the property as a set of        *)
(* numbers, and what follows from it: largest elements, and the existence  *)
(* of recursively defined functions; and that injections on 1 .. n are     *)
(* onto.  The proofs of the loops of the code rest on these.               *)
(***************************************************************************)
EXTENDS FiniteSetTheorems, WellFoundedInduction, TLAPS

LEMMA NatWellFounded == IsWellFoundedOn({p \in Nat \X Nat : p[1] < p[2]}, Nat)
<1>1. OpToRel(<, Nat) = {p \in Nat \X Nat : p[1] < p[2]}
  BY Zenon DEF OpToRel
<1> QED
  BY <1>1, NatLessThanWellFounded

(* A set of numbers that is not empty has a smallest element. *)
THEOREM LeastElement ==
  ASSUME NEW T \in SUBSET Nat, T # {}
  PROVE  \E m \in T : \A k \in T : m <= k
<1> DEFINE R == {p \in Nat \X Nat : p[1] < p[2]}
<1>1. PICK x \in T : \A y \in T : <<y, x>> \notin R
  <2>1. IsWellFoundedOn(R, Nat)
    BY NatWellFounded
  <2> HIDE DEF R
  <2> QED
    BY <2>1, WFMin
<1>2. \A y \in T : <<y, x>> \in R <=> y < x
  OBVIOUS
<1>3. \A y \in T : ~ (y < x)
  BY <1>1, <1>2
<1> QED
  BY <1>3

(* A set that has 0 and with every number the next one has them all. *)
THEOREM SetInduction ==
  ASSUME NEW T, 0 \in T, \A n \in Nat : n \in T => n + 1 \in T
  PROVE  \A n \in Nat : n \in T
<1> SUFFICES ASSUME NEW n \in Nat, n \notin T
             PROVE  FALSE
  OBVIOUS
<1> DEFINE C == {m \in Nat : m \notin T}
<1>1. PICK m \in C : \A k \in C : m <= k
  BY LeastElement
<1>2. m # 0 /\ m - 1 \in Nat /\ m - 1 \notin C
  BY <1>1
<1> QED
  BY <1>1, <1>2

(* A finite set of numbers that is not empty has a largest element. *)
THEOREM LargestElement ==
  ASSUME NEW S \in SUBSET Nat, S # {}, IsFiniteSet(S)
  PROVE  \E m \in S : \A k \in S : k <= m
<1> DEFINE T == {n \in Nat : \A A \in SUBSET Nat :
                   A # {} /\ IsFiniteSet(A) /\ Cardinality(A) = n
                     => \E m \in A : \A k \in A : k <= m}
<1>1. 0 \in T
  BY FS_EmptySet
<1>2. ASSUME NEW n \in Nat, n \in T
      PROVE  n + 1 \in T
  <2> SUFFICES ASSUME NEW A \in SUBSET Nat, A # {}, IsFiniteSet(A), Cardinality(A) = n + 1
               PROVE  \E m \in A : \A k \in A : k <= m
    OBVIOUS
  <2>1. PICK x \in A : TRUE
    OBVIOUS
  <2>2. IsFiniteSet(A \ {x}) /\ Cardinality(A \ {x}) = n
    <3>1. IsFiniteSet(A \ {x}) /\ Cardinality(A \ {x}) = Cardinality(A) - 1
      BY FS_RemoveElement
    <3> QED
      BY <3>1
  <2>3. CASE A \ {x} = {}
    BY <2>3
  <2>4. CASE A \ {x} # {}
    <3>1. PICK m \in A \ {x} : \A k \in A \ {x} : k <= m
      BY <1>2, <2>2, <2>4
    <3> QED
      BY <3>1
  <2> QED
    BY <2>3, <2>4
<1> HIDE DEF T
<1>3. \A n \in Nat : n \in T
  BY <1>1, <1>2, SetInduction
<1>4. Cardinality(S) \in Nat
  BY FS_CardinalityType
<1> QED
  BY <1>3, <1>4 DEF T

(* So has the set of values of a function on a finite set.                 *)
THEOREM LargestValue ==
  ASSUME NEW D, IsFiniteSet(D), D # {}, NEW f \in [D -> Nat]
  PROVE  \E m \in {f[x] : x \in D} : \A k \in {f[x] : x \in D} : k <= m
<1> DEFINE S == {f[x] : x \in D}
<1>1. f \in Surjection(D, S)
  BY DEF Surjection
<1>2. S \in SUBSET Nat /\ S # {}
  OBVIOUS
<1> HIDE DEF S
<1>3. IsFiniteSet(S)
  BY <1>1, FS_Surjection
<1>4. \E m \in S : \A k \in S : k <= m
  BY <1>2, <1>3, LargestElement
<1> QED
  BY <1>4 DEF S

(* A sequence of count numbers of 1 .. count, none twice, has them all.    *)
THEOREM InjectionOnto ==
  ASSUME NEW count \in Nat, NEW h \in [1 .. count -> 1 .. count],
         \A i, j \in 1 .. count : h[i] = h[j] => i = j
  PROVE  \A c \in 1 .. count : \E i \in 1 .. count : h[i] = c
<1> SUFFICES ASSUME NEW c \in 1 .. count, \A i \in 1 .. count : h[i] # c
             PROVE  FALSE
  OBVIOUS
<1> DEFINE S == 1 .. count
           T == (1 .. count) \ {c}
<1>1. IsFiniteSet(S) /\ Cardinality(S) = count
  BY FS_Interval
<1>2. IsFiniteSet(T) /\ Cardinality(T) = Cardinality(S) - 1
  BY <1>1, FS_RemoveElement
<1>3. h \in [S -> T]
  OBVIOUS
<1>4. Cardinality(T) < Cardinality(S)
  BY <1>1, <1>2
<1> HIDE DEF S, T
<1>5. \E x, y \in S : x # y /\ h[x] = h[y]
  <2>1. IsFiniteSet(S) /\ IsFiniteSet(T)
    BY <1>1, <1>2
  <2> QED
    BY <1>3, <1>4, <2>1, FS_PigeonHole, Zenon
<1> QED
  BY <1>5 DEF S

(* The function f on 0 .. last starts with base and goes on by steps.      *)
Iterates(f, S, base, last, step) ==
  /\ f \in [0 .. last -> S]
  /\ f[0] = base
  /\ \A i \in 0 .. last : i # 0 => f[i] = step[<<i, f[i - 1]>>]

(* There is such a function, for every first value and every step.         *)
THEOREM IterationExists ==
  ASSUME NEW S, NEW base \in S, NEW last \in Nat, NEW step \in [Nat \X S -> S]
  PROVE  \E f : Iterates(f, S, base, last, step)
<1> DEFINE T == {n \in Nat : \E f : Iterates(f, S, base, n, step)}
<1>1. 0 \in T
  <2> DEFINE f == [i \in 0 .. 0 |-> base]
  <2>1. Iterates(f, S, base, 0, step)
    BY DEF Iterates
  <2> QED
    BY <2>1
<1>2. ASSUME NEW n \in Nat, n \in T
      PROVE  n + 1 \in T
  <2>1. PICK f : Iterates(f, S, base, n, step)
    BY <1>2
  <2> DEFINE g == [i \in 0 .. n + 1 |-> IF i = n + 1 THEN step[<<n + 1, f[n]>>] ELSE f[i]]
  <2>2. f[n] \in S /\ step[<<n + 1, f[n]>>] \in S
    BY <2>1 DEF Iterates
  <2>3. g \in [0 .. n + 1 -> S]
    BY <2>1, <2>2 DEF Iterates
  <2>4. g[0] = base
    BY <2>1 DEF Iterates
  <2>5. ASSUME NEW i \in 0 .. n + 1, i # 0
        PROVE  g[i] = step[<<i, g[i - 1]>>]
    <3>1. g[i - 1] = f[i - 1]
      BY <2>5
    <3>2. CASE i = n + 1
      BY <3>1, <3>2
    <3>3. CASE i # n + 1
      BY <2>1, <2>5, <3>1, <3>3 DEF Iterates
    <3> QED
      BY <3>2, <3>3
  <2> HIDE DEF g
  <2>6. Iterates(g, S, base, n + 1, step)
    BY <2>3, <2>4, <2>5 DEF Iterates
  <2> QED
    BY <2>6
<1> HIDE DEF T
<1>3. last \in T
  BY <1>1, <1>2, SetInduction
<1> QED
  BY <1>3 DEF T
=============================================================================
