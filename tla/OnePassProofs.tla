---------------------------- MODULE OnePassProofs ----------------------------
(***************************************************************************)
(* What the loop of OnePass computes, for every list of rumors.            *)
(***************************************************************************)
EXTENDS OnePass, Induction

(* The values NextID takes in the pass. *)
LEMMA PassValues ==
  ASSUME NEW list \in Seq(Nat), NEW from \in Nat
  PROVE  \E next \in [0 .. Len(list) -> Nat] :
           /\ next[0] = from
           /\ \A i \in 1 .. Len(list) :
                next[i] = IF list[i] = next[i - 1] THEN next[i - 1] + 1 ELSE next[i - 1]
           /\ OnePass(list, from) = next[Len(list)]
<1> DEFINE len == Len(list)
           step == [p \in Nat \X Nat |->
                      IF p[1] \in 1 .. len /\ list[p[1]] = p[2] THEN p[2] + 1 ELSE p[2]]
           body(f) == [i \in 0 .. len |->
                         IF i = 0 THEN from
                         ELSE IF list[i] = f[i - 1] THEN f[i - 1] + 1
                         ELSE f[i - 1]]
           next == CHOOSE f : f = body(f)
<1>1. len \in Nat /\ step \in [Nat \X Nat -> Nat]
  OBVIOUS
<1>2. PICK f : Iterates(f, Nat, from, len, step)
  <2> HIDE DEF step, len
  <2> QED
    BY <1>1, IterationExists, Zenon
<1>3. \A i \in 0 .. len : i # 0 =>
        f[i] = IF list[i] = f[i - 1] THEN f[i - 1] + 1 ELSE f[i - 1]
  <2> SUFFICES ASSUME NEW i \in 0 .. len, i # 0
               PROVE  f[i] = IF list[i] = f[i - 1] THEN f[i - 1] + 1 ELSE f[i - 1]
    OBVIOUS
  <2>1. f[i - 1] \in Nat /\ i \in 1 .. len
    BY <1>2 DEF Iterates
  <2>2. f[i] = step[<<i, f[i - 1]>>]
    BY <1>2 DEF Iterates
  <2> HIDE DEF len
  <2> QED
    BY <2>1, <2>2
<1>4. f = body(f)
  BY <1>2, <1>3 DEF Iterates
<1>5. next = body(next)
  <2> HIDE DEF body
  <2> QED
    BY <1>4
<1>6. OnePass(list, from) = next[len]
  BY DEF OnePass
<1> HIDE DEF next
<1> DEFINE T == {i \in Nat : i \in 0 .. len => next[i] = f[i]}
<1>7. 0 \in T
  <2>1. next[0] = from
    BY <1>1, <1>5
  <2> QED
    BY <1>2, <2>1 DEF Iterates
<1>8. ASSUME NEW i \in Nat, i \in T
      PROVE  i + 1 \in T
  <2> SUFFICES ASSUME i + 1 \in 0 .. len
               PROVE  next[i + 1] = f[i + 1]
    OBVIOUS
  <2>1. next[i] = f[i]
    BY <1>8
  <2>2. next[i + 1] = IF list[i + 1] = next[i] THEN next[i] + 1 ELSE next[i]
    BY <1>5
  <2>3. f[i + 1] = IF list[i + 1] = f[i] THEN f[i] + 1 ELSE f[i]
    BY <1>3
  <2> QED
    BY <2>1, <2>2, <2>3
<1> HIDE DEF T
<1>9. \A i \in Nat : i \in T
  BY <1>7, <1>8, SetInduction
<1>10. next[len] = f[len]
  BY <1>1, <1>9 DEF T
<1>11. OnePass(list, from) = f[Len(list)]
  BY <1>6, <1>10
<1>12. \A i \in 1 .. Len(list) :
         f[i] = IF list[i] = f[i - 1] THEN f[i - 1] + 1 ELSE f[i - 1]
  BY <1>1, <1>3
<1>13. f \in [0 .. Len(list) -> Nat] /\ f[0] = from
  BY <1>2 DEF Iterates
<1> HIDE DEF body, next, step
<1> QED
  BY <1>11, <1>12, <1>13, Zenon

(* The pass never lowers NextID. *)
LEMMA OnePassRises ==
  ASSUME NEW list \in Seq(Nat), NEW from \in Nat
  PROVE  OnePass(list, from) \in Nat /\ from <= OnePass(list, from)
<1> DEFINE len == Len(list)
<1>1. PICK next \in [0 .. len -> Nat] :
        /\ next[0] = from
        /\ \A i \in 1 .. len :
             next[i] = IF list[i] = next[i - 1] THEN next[i - 1] + 1 ELSE next[i - 1]
        /\ OnePass(list, from) = next[len]
  BY PassValues
<1>2. len \in Nat
  OBVIOUS
<1> HIDE DEF len
<1> DEFINE T == {i \in Nat : i \in 0 .. len => from <= next[i]}
<1>3. 0 \in T
  BY <1>1
<1>4. ASSUME NEW i \in Nat, i \in T
      PROVE  i + 1 \in T
  <2> SUFFICES ASSUME i + 1 \in 0 .. len
               PROVE  from <= next[i + 1]
    OBVIOUS
  <2>1. i \in 0 .. len /\ i + 1 \in 1 .. len
    BY <1>2
  <2>2. next[i] \in Nat /\ from <= next[i]
    BY <1>1, <1>4, <2>1
  <2>3. next[i + 1] = IF list[i + 1] = next[i] THEN next[i] + 1 ELSE next[i]
    BY <1>1, <2>1
  <2> QED
    BY <2>2, <2>3
<1> HIDE DEF T
<1>5. \A i \in Nat : i \in T
  BY <1>3, <1>4, SetInduction
<1>6. len \in 0 .. len /\ next[len] \in Nat
  BY <1>1, <1>2
<1> QED
  BY <1>1, <1>2, <1>5, <1>6 DEF T

(* The first i IDs of a list raise NextID from "from" to "to".             *)
RaisedBy(list, i, from, to) ==
  /\ \A id \in Nat : from <= id /\ id < to => \E k \in 1 .. i : list[k] = id
  /\ \A k, j \in 1 .. i :
       from <= list[k] /\ list[k] < list[j] /\ list[j] < to => k < j

(* One iteration of the pass goes on as far as one more ID allows. *)
LEMMA PassStep ==
  ASSUME NEW list, NEW i \in Nat, NEW from \in Nat, NEW to \in Nat, from <= to,
         \A k \in 1 .. i + 1 : list[k] \in Nat,
         \A k \in 1 .. i : list[k] # list[i + 1],
         RaisedBy(list, i, from, to), ~ RaisedBy(list, i, from, to + 1),
         NEW next, next = IF list[i + 1] = to THEN to + 1 ELSE to
  PROVE  RaisedBy(list, i + 1, from, next) /\ ~ RaisedBy(list, i + 1, from, next + 1)
<1> DEFINE x == list[i + 1]
<1>1. i + 1 \in 1 .. i + 1 /\ x \in Nat
  OBVIOUS
<1>2. \A k \in 1 .. i + 1 : k = i + 1 \/ k \in 1 .. i
  OBVIOUS
<1>3. \A k \in 1 .. i : k \in 1 .. i + 1 /\ k < i + 1 /\ list[k] \in Nat /\ list[k] # x
  OBVIOUS
<1>4. CASE x = to
  <2>1. RaisedBy(list, i + 1, from, to + 1)
    <3>1. ASSUME NEW id \in Nat, from <= id, id < to + 1
          PROVE  \E k \in 1 .. i + 1 : list[k] = id
      <4>1. CASE id = to
        BY <1>1, <1>4, <4>1
      <4>2. CASE id # to
        BY <1>3, <3>1, <4>2 DEF RaisedBy
      <4> QED
        BY <4>1, <4>2
    <3>2. ASSUME NEW k \in 1 .. i + 1, NEW j \in 1 .. i + 1,
                 from <= list[k], list[k] < list[j], list[j] < to + 1
          PROVE  k < j
      <4>1. k # i + 1 /\ k \in 1 .. i
        BY <1>1, <1>2, <1>4, <3>2
      <4>2. CASE j = i + 1
        BY <1>3, <4>1, <4>2
      <4>3. CASE j # i + 1
        <5>1. j \in 1 .. i /\ list[j] # to
          BY <1>2, <1>3, <1>4, <4>3
        <5>2. list[j] < to
          BY <1>3, <3>2, <5>1
        <5> QED
          BY <3>2, <4>1, <5>1, <5>2 DEF RaisedBy
      <4> QED
        BY <4>2, <4>3
    <3> QED
      BY <3>1, <3>2 DEF RaisedBy
  <2>2. ~ RaisedBy(list, i + 1, from, to + 1 + 1)
    <3> SUFFICES ASSUME RaisedBy(list, i + 1, from, to + 1 + 1)
                 PROVE  FALSE
      OBVIOUS
    <3>1. to + 1 \in Nat /\ from <= to + 1 /\ to + 1 < to + 1 + 1 /\ to < to + 1
      OBVIOUS
    <3>2. PICK k \in 1 .. i + 1 : list[k] = to + 1
      BY <3>1 DEF RaisedBy
    <3>3. k \in 1 .. i
      BY <1>2, <1>4, <3>2
    <3>4. i + 1 < k
      BY <1>1, <1>4, <3>1, <3>2 DEF RaisedBy
    <3> QED
      BY <3>3, <3>4
  <2> QED
    BY <1>4, <2>1, <2>2
<1>5. CASE x # to
  <2>1. ASSUME NEW id \in Nat, from <= id, id < to
        PROVE  id # x
    BY <1>3, <2>1 DEF RaisedBy
  <2>2. RaisedBy(list, i + 1, from, to)
    <3>1. ASSUME NEW id \in Nat, from <= id, id < to
          PROVE  \E k \in 1 .. i + 1 : list[k] = id
      BY <1>3, <3>1 DEF RaisedBy
    <3>2. ASSUME NEW k \in 1 .. i + 1, NEW j \in 1 .. i + 1,
                 from <= list[k], list[k] < list[j], list[j] < to
          PROVE  k < j
      <4>1. list[k] < to /\ from <= list[j]
        BY <3>2
      <4>2. k \in 1 .. i /\ j \in 1 .. i
        BY <1>2, <2>1, <3>2, <4>1
      <4> QED
        BY <3>2, <4>2 DEF RaisedBy
    <3> QED
      BY <3>1, <3>2 DEF RaisedBy
  <2>3. ~ RaisedBy(list, i + 1, from, to + 1)
    <3> SUFFICES ASSUME RaisedBy(list, i + 1, from, to + 1)
                 PROVE  RaisedBy(list, i, from, to + 1)
      OBVIOUS
    <3>1. ASSUME NEW id \in Nat, from <= id, id < to + 1
          PROVE  \E k \in 1 .. i : list[k] = id
      <4>1. PICK k \in 1 .. i + 1 : list[k] = id
        BY <3>1 DEF RaisedBy
      <4>2. id # x
        BY <1>5, <2>1, <3>1
      <4> QED
        BY <1>2, <4>1, <4>2
    <3>2. ASSUME NEW k \in 1 .. i, NEW j \in 1 .. i,
                 from <= list[k], list[k] < list[j], list[j] < to + 1
          PROVE  k < j
      BY <1>3, <3>2 DEF RaisedBy
    <3> QED
      BY <3>1, <3>2 DEF RaisedBy
  <2> QED
    BY <1>5, <2>2, <2>3
<1> QED
  BY <1>4, <1>5

(* However the rumors of an origin were stored, as long as none was stored *)
(* twice, the pass of handleRumor (gossiper.go:172-184) raises NextID over *)
(* stored rumors only, and as far as they were stored in order.            *)
THEOREM OnePassFurthest ==
  ASSUME NEW list \in Seq(Nat),
         \A i, j \in DOMAIN list : list[i] = list[j] => i = j,
         NEW from \in Nat
  PROVE  /\ OnePass(list, from) \in Nat
         /\ from <= OnePass(list, from)
         /\ Raises(list, from, OnePass(list, from))
         /\ ~ Raises(list, from, OnePass(list, from) + 1)
<1> DEFINE len == Len(list)
<1>1. PICK next \in [0 .. len -> Nat] :
        /\ next[0] = from
        /\ \A i \in 1 .. len :
             next[i] = IF list[i] = next[i - 1] THEN next[i - 1] + 1 ELSE next[i - 1]
        /\ OnePass(list, from) = next[len]
  BY PassValues
<1>2. /\ len \in Nat /\ DOMAIN list = 1 .. len
      /\ \A i \in 1 .. len : list[i] \in Nat
  OBVIOUS
<1>3. \A i, j \in 1 .. len : list[i] = list[j] => i = j
  BY <1>2
<1> HIDE DEF len
<1> DEFINE Right(i) == /\ from <= next[i]
                       /\ RaisedBy(list, i, from, next[i])
                       /\ ~ RaisedBy(list, i, from, next[i] + 1)
           T == {i \in Nat : i \in 0 .. len => Right(i)}
<1>4. 0 \in T
  <2>1. RaisedBy(list, 0, from, from)
    BY DEF RaisedBy
  <2>2. ~ RaisedBy(list, 0, from, from + 1)
    <3>1. from <= from /\ from < from + 1
      OBVIOUS
    <3> QED
      BY <3>1 DEF RaisedBy
  <2> QED
    BY <1>1, <2>1, <2>2
<1>5. ASSUME NEW i \in Nat, i \in T
      PROVE  i + 1 \in T
  <2> SUFFICES ASSUME i + 1 \in 0 .. len
               PROVE  Right(i + 1)
    OBVIOUS
  <2>1. Right(i) /\ i \in 0 .. len /\ i + 1 \in 1 .. len
    BY <1>2, <1>5
  <2>2. next[i] \in Nat
    BY <1>1, <2>1
  <2>3. next[i + 1] = IF list[i + 1] = next[i] THEN next[i] + 1 ELSE next[i]
    BY <1>1, <2>1
  <2>4. \A k \in 1 .. i + 1 : k \in 1 .. len
    BY <1>2, <2>1
  <2>5. \A k \in 1 .. i : k \in 1 .. len /\ k # i + 1
    BY <1>2, <2>1
  <2>6. /\ \A k \in 1 .. i + 1 : list[k] \in Nat
        /\ \A k \in 1 .. i : list[k] # list[i + 1]
    BY <1>2, <1>3, <2>1, <2>4, <2>5
  <2>7. from <= next[i] /\ RaisedBy(list, i, from, next[i])
        /\ ~ RaisedBy(list, i, from, next[i] + 1)
    BY <2>1
  <2>8. RaisedBy(list, i + 1, from, next[i + 1]) /\ ~ RaisedBy(list, i + 1, from, next[i + 1] + 1)
    BY <2>2, <2>3, <2>6, <2>7, PassStep
  <2>9. from <= next[i + 1]
    BY <2>2, <2>3, <2>7
  <2> QED
    BY <2>8, <2>9
<1> HIDE DEF T
<1>6. \A i \in Nat : i \in T
  BY <1>4, <1>5, SetInduction
<1>7. Right(len)
  BY <1>2, <1>6 DEF T
<1>8. next[len] \in Nat /\ next[len] + 1 \in Nat
  BY <1>1, <1>2
<1>9. ASSUME NEW to \in Nat
      PROVE  RaisedBy(list, len, from, to) <=> Raises(list, from, to)
  <2>1. \A id \in Nat : id \in from .. (to - 1) <=> from <= id /\ id < to
    OBVIOUS
  <2>2. from .. (to - 1) \subseteq Nat
    OBVIOUS
  <2>3. \A id : id \in IDs(list) <=> \E k \in 1 .. len : list[k] = id
    BY <1>2 DEF IDs
  <2>4. (\A id \in Nat : from <= id /\ id < to => \E k \in 1 .. len : list[k] = id)
          <=> \A id \in from .. (to - 1) : id \in IDs(list)
    BY <2>1, <2>2, <2>3
  <2>5. ASSUME NEW k \in 1 .. len, NEW j \in 1 .. len
        PROVE  from <= list[k] /\ list[k] < list[j] /\ list[j] < to
                 <=> list[k] \in from .. (to - 1) /\ list[j] \in from .. (to - 1)
                       /\ list[k] < list[j]
    <3>1. list[k] \in Nat /\ list[j] \in Nat
      BY <1>2
    <3> QED
      BY <3>1
  <2> QED
    BY <1>2, <2>4, <2>5 DEF RaisedBy, Raises
<1> QED
  BY <1>1, <1>7, <1>8, <1>9
=============================================================================
