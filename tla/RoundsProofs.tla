---------------------------- MODULE RoundsProofs ----------------------------
(***************************************************************************)
(* Proofs about Rounds, for any nodes, files, rumors and -ackAll.          *)
(***************************************************************************)
EXTENDS Rounds, Induction

-----------------------------------------------------------------------------
(* A set of nodes that contains a majority is one. *)
LEMMA LargerMajority ==
  ASSUME NEW T \in SUBSET Nodes, NEW S \in SUBSET T, Majority(Cardinality(S))
  PROVE  Majority(Cardinality(T))
<1>1. IsFiniteSet(Nodes) /\ IsFiniteSet(T) /\ IsFiniteSet(S)
  BY RoundsAssumption, FS_Subset DEF RoundsAssumption
<1>2. Cardinality(S) \in Nat /\ Cardinality(T) \in Nat /\ N \in Nat
  BY <1>1, FS_CardinalityType DEF N
<1>3. Cardinality(S) <= Cardinality(T)
  BY <1>1, FS_Subset
<1> HIDE DEF N
<1> QED
  BY <1>2, <1>3 DEF Majority

-----------------------------------------------------------------------------
(* The invariant holds in the initial state. *)
LEMMA InvInit == Init => IInv
<1> SUFFICES ASSUME Init PROVE IInv
  OBVIOUS
<1>1. RoundsType
  BY DEF Init, RoundsType
<1>2. AckedOK /\ CollectedOK /\ ConfirmedOK /\ PublishedOK /\ ConfirmationsHonest
  BY DEF Init, AckedOK, CollectedOK, ConfirmedOK, PublishedOK, ConfirmationsHonest
<1> QED
  BY <1>1, <1>2 DEF IInv

-----------------------------------------------------------------------------
(* Steps that leave messages, acknowledgements and channels alone keep it, *)
(* as long as no round is left backwards.                                  *)
LEMMA InvRoundStep ==
  ASSUME IInv, UNCHANGED <<messages, tlcVars, acked, ackVars>>,
         myTime' \in [Nodes -> Nat], \A n \in Nodes : myTime'[n] >= myTime[n]
  PROVE  IInv'
<1> USE DEF IInv, messages, tlcVars, ackVars
<1>1. RoundsType'
  BY DEF RoundsType
<1>2. AckedOK'
  <2> SUFFICES ASSUME NEW ack \in acked
               PROVE  /\ ack.id \in known[ack.from][ack.to]
                      /\ AnyRound \/ 2 * myTime'[ack.from] + 1 >= ack.id
    BY DEF AckedOK, AnyRound
  <2>1. ack.from \in Nodes /\ ack.id \in Nat
    BY DEF RoundsType
  <2>2. myTime[ack.from] \in Nat /\ myTime'[ack.from] \in Nat
    BY <2>1 DEF RoundsType
  <2> QED
    BY <2>1, <2>2 DEF AckedOK, AnyRound
<1>3. CollectedOK' /\ ConfirmedOK' /\ PublishedOK' /\ ConfirmationsHonest'
  BY DEF CollectedOK, ConfirmedOK, PublishedOK, ConfirmationsHonest
<1> QED
  BY <1>1, <1>2, <1>3

(* Steps that only close, remove or fill channels keep it. *)
LEMMA InvChannelStep ==
  ASSUME IInv, UNCHANGED <<messages, tlcVars, acked, myTime, acks>>,
         tlcAcks' \in [Nodes -> [IDs -> {"none", "open", "closed"}]],
         inbox' \in [Nodes -> [IDs -> SUBSET Nodes]],
         \A n \in Nodes, id \in IDs :
           /\ tlcAcks'[n][id] # "none" => tlcAcks[n][id] # "none"
           /\ \A m \in inbox'[n][id] : [from |-> m, to |-> n, id |-> id] \in acked
  PROVE  IInv'
<1> USE DEF IInv, messages, tlcVars
<1>1. RoundsType'
  BY DEF RoundsType
<1>2. AckedOK' /\ PublishedOK' /\ ConfirmationsHonest'
  BY DEF AckedOK, PublishedOK, ConfirmationsHonest, AnyRound
<1>3. CollectedOK'
  BY DEF CollectedOK
<1>4. ConfirmedOK'
  BY DEF ConfirmedOK
<1> QED
  BY <1>1, <1>2, <1>3, <1>4

(* A round begins or is checked, a message is halted, notified or removed. *)
LEMMA InvRounds ==
  ASSUME IInv, NEW n \in Nodes,
         \/ ListFileLater(n)
         \/ \E k \in Callers :
              \/ CountWitnesses(n, k) \/ ReadLength(n, k) \/ CheckRound(n, k)
              \/ AddRound(n, k) \/ StartNotifying(n, k) \/ NotifyHalted(n, k)
         \/ \E f \in Files : RemoveEntry(n, f)
  PROVE  IInv'
<1>1. myTime \in [Nodes -> Nat]
  BY DEF IInv, RoundsType
<1>2. UNCHANGED <<messages, tlcVars, acked, ackVars>>
  BY DEF ListFileLater, CountWitnesses, ReadLength, CheckRound, AddRound, StartNotifying,
         NotifyHalted, RemoveEntry, roundVars
<1>3. myTime' = myTime \/ myTime' = [myTime EXCEPT ![n] = @ + 1]
  BY DEF ListFileLater, CountWitnesses, ReadLength, CheckRound, AddRound, StartNotifying,
         NotifyHalted, RemoveEntry, roundVars
<1>4. myTime' \in [Nodes -> Nat] /\ \A m \in Nodes : myTime'[m] >= myTime[m]
  BY <1>1, <1>3
<1> QED
  BY <1>2, <1>4, InvRoundStep

(* Channels are closed, removed, or get an acknowledgement. *)
LEMMA InvChannels ==
  ASSUME IInv, NEW n \in Nodes,
         \/ \E k \in Callers : CloseAcks(n, k)
         \/ \E id \in IDs : RemoveChannel(n, id)
         \/ \E ack \in acked : AckArrives(n, ack)
  PROVE  IInv'
<1> USE DEF IInv
<1>1. CASE \E k \in Callers : CloseAcks(n, k)
  <2>1. UNCHANGED <<messages, tlcVars, acked, myTime, acks, inbox>>
    BY <1>1 DEF CloseAcks, roundVars
  <2>2. \/ tlcAcks' = tlcAcks
        \/ tlcAcks' = [tlcAcks EXCEPT ![n] =
              [id \in IDs |-> IF @[id] = "open" THEN "closed" ELSE @[id]]]
    BY <1>1 DEF CloseAcks
  <2>3. /\ tlcAcks' \in [Nodes -> [IDs -> {"none", "open", "closed"}]]
        /\ \A m \in Nodes, id \in IDs : tlcAcks'[m][id] # "none" => tlcAcks[m][id] # "none"
    <3>1. tlcAcks \in [Nodes -> [IDs -> {"none", "open", "closed"}]]
      BY DEF RoundsType
    <3> DEFINE row == [id \in IDs |-> IF tlcAcks[n][id] = "open" THEN "closed" ELSE tlcAcks[n][id]]
    <3>2. /\ row \in [IDs -> {"none", "open", "closed"}]
          /\ \A id \in IDs : row[id] # "none" => tlcAcks[n][id] # "none"
      BY <3>1
    <3>3. tlcAcks' = tlcAcks \/ tlcAcks' = [tlcAcks EXCEPT ![n] = row]
      BY <2>2
    <3> HIDE DEF row, IInv
    <3> QED
      BY <3>1, <3>2, <3>3
  <2>4. inbox' \in [Nodes -> [IDs -> SUBSET Nodes]]
    BY <2>1 DEF RoundsType
  <2> QED
    BY <2>1, <2>3, <2>4, InvChannelStep DEF CollectedOK
<1>2. CASE \E id \in IDs : RemoveChannel(n, id)
  <2> PICK id \in IDs : RemoveChannel(n, id)
    BY <1>2
  <2>1. UNCHANGED <<messages, tlcVars, acked, myTime, acks>>
    BY DEF RemoveChannel, roundVars
  <2>2. /\ tlcAcks' = [tlcAcks EXCEPT ![n][id] = "none"]
        /\ inbox' = [inbox EXCEPT ![n][id] = {}]
    BY DEF RemoveChannel
  <2>3. /\ tlcAcks' \in [Nodes -> [IDs -> {"none", "open", "closed"}]]
        /\ inbox' \in [Nodes -> [IDs -> SUBSET Nodes]]
        /\ \A m \in Nodes, i \in IDs :
             /\ tlcAcks'[m][i] # "none" => tlcAcks[m][i] # "none"
             /\ inbox'[m][i] \subseteq inbox[m][i]
    BY <2>2 DEF RoundsType
  <2> QED
    BY <2>1, <2>3, InvChannelStep DEF CollectedOK
<1>3. CASE \E ack \in acked : AckArrives(n, ack)
  <2> PICK ack \in acked : AckArrives(n, ack)
    BY <1>3
  <2>1. UNCHANGED <<messages, tlcVars, acked, myTime, acks, tlcAcks>>
    BY DEF AckArrives, roundVars
  <2>2. \/ inbox' = inbox
        \/ inbox' = [inbox EXCEPT ![n][ack.id] = @ \cup ({ack.from} \ acks[n][ack.id])]
    BY DEF AckArrives
  <2>3. ack = [from |-> ack.from, to |-> n, id |-> ack.id] /\ ack.from \in Nodes
    BY DEF AckArrives, RoundsType
  <2>4. /\ inbox' \in [Nodes -> [IDs -> SUBSET Nodes]]
        /\ \A m \in Nodes, i \in IDs :
             inbox'[m][i] \subseteq inbox[m][i] \cup
               (IF m = n /\ i = ack.id THEN {ack.from} ELSE {})
    <3>1. inbox \in [Nodes -> [IDs -> SUBSET Nodes]]
      BY DEF RoundsType
    <3> DEFINE row == [inbox[n] EXCEPT ![ack.id] = @ \cup ({ack.from} \ acks[n][ack.id])]
    <3>2. /\ row \in [IDs -> SUBSET Nodes]
          /\ \A i \in IDs : row[i] \subseteq
               inbox[n][i] \cup (IF i = ack.id THEN {ack.from} ELSE {})
      BY <2>3, <3>1
    <3>3. inbox' = inbox \/ inbox' = [inbox EXCEPT ![n] = row]
      BY <2>2
    <3> HIDE DEF row, IInv
    <3> QED
      BY <3>1, <3>2, <3>3
  <2>5. \A m \in Nodes, i \in IDs : \A k \in inbox'[m][i] :
          [from |-> k, to |-> m, id |-> i] \in acked
    BY <2>3, <2>4 DEF CollectedOK
  <2> QED
    BY <2>1, <2>4, <2>5, InvChannelStep DEF RoundsType
<1> QED
  BY <1>1, <1>2, <1>3

(* Another rumor takes an ID. *)
LEMMA InvOtherRumor ==
  ASSUME IInv, NEW n \in Nodes, OtherRumor(n)
  PROVE  IInv'
<1> USE DEF IInv
<1>1. nextID' = [nextID EXCEPT ![n] = @ + 1] /\ nextID \in [Nodes -> Nat]
  BY DEF OtherRumor, TakeID, RoundsType
<1>2. UNCHANGED <<published, tlcVars, acked, roundVars, ackVars>>
  BY DEF OtherRumor
<1>3. nextID' \in [Nodes -> Nat] /\ \A m \in Nodes : nextID'[m] >= nextID[m]
  BY <1>1
<1>4. RoundsType' /\ AckedOK' /\ CollectedOK' /\ PublishedOK' /\ ConfirmationsHonest'
  BY <1>2, <1>3
  DEF RoundsType, AckedOK, CollectedOK, PublishedOK, ConfirmationsHonest, tlcVars,
      roundVars, ackVars, AnyRound
<1>5. ConfirmedOK'
  <2>1. UNCHANGED <<published, confirmed, acks, tlcAcks>>
    BY <1>2 DEF tlcVars, ackVars
  <2>2. \A m \in Nodes : nextID[m] \in Nat /\ nextID'[m] \in Nat /\ nextID'[m] >= nextID[m]
    BY <1>1, <1>3
  <2>3. IDs \subseteq Int
    BY DEF IDs
  <2>4. \A m \in Nodes, id \in IDs : id < nextID[m] => id < nextID'[m]
    BY <2>2, <2>3
  <2> QED
    BY <2>1, <2>4 DEF ConfirmedOK
<1> QED
  BY <1>4, <1>5

-----------------------------------------------------------------------------
(* A message is published, at once or when its round has come. *)

(* Its ID has not collected anything, so nothing that was counted is lost. *)
LEMMA InvPublish ==
  ASSUME IInv, NEW n \in Nodes, PublishTLC(n),
         UNCHANGED <<confirmed, early, reported, acked, myTime, inbox>>
  PROVE  IInv'
<1> DEFINE new == nextID[n]
           msg == [id |-> new, of |-> 0]
<1>1. RoundsType
  BY DEF IInv
<1>2. new \in Nat /\ new \in IDs
  BY <1>1 DEF RoundsType, PublishTLC, TakeID
<1>3. /\ nextID' = [nextID EXCEPT ![n] = new + 1]
      /\ published' = [published EXCEPT ![n] = @ \cup {msg}]
      /\ known' = [known EXCEPT ![n][n] = @ \cup {new}]
      /\ tlcAcks' = [tlcAcks EXCEPT ![n][new] = "open"]
      /\ acks' = [acks EXCEPT ![n][new] = {n}]
  BY <1>1 DEF PublishTLC, TakeID, RoundsType
<1> HIDE DEF new
<1>4. nextID' \in [Nodes -> Nat] /\ published' \in [Nodes -> SUBSET [id : IDs, of : Nat]]
  BY <1>1, <1>2, <1>3 DEF RoundsType
<1>5. /\ known' \in [Nodes -> [Nodes -> SUBSET Nat]]
      /\ \A m, o \in Nodes : known[m][o] \subseteq known'[m][o]
      /\ new \in known'[n][n]
  BY <1>1, <1>2, <1>3 DEF RoundsType
<1>6. /\ tlcAcks' \in [Nodes -> [IDs -> {"none", "open", "closed"}]]
      /\ \A m \in Nodes, id \in IDs :
           (m = n /\ id = new) \/ tlcAcks'[m][id] = tlcAcks[m][id]
  <2> DEFINE row == [tlcAcks[n] EXCEPT ![new] = "open"]
  <2>1. /\ row \in [IDs -> {"none", "open", "closed"}]
        /\ \A id \in IDs : id = new \/ row[id] = tlcAcks[n][id]
    BY <1>1 DEF RoundsType
  <2>2. tlcAcks' = [tlcAcks EXCEPT ![n] = row]
    BY <1>3
  <2> HIDE DEF row
  <2> QED
    BY <1>1, <2>1, <2>2 DEF RoundsType
<1>7. /\ acks' \in [Nodes -> [IDs -> SUBSET Nodes]]
      /\ \A m \in Nodes, id \in IDs :
           IF m = n /\ id = new THEN acks'[m][id] = {n} ELSE acks'[m][id] = acks[m][id]
  <2> DEFINE row == [acks[n] EXCEPT ![new] = {n}]
  <2>1. /\ row \in [IDs -> SUBSET Nodes]
        /\ \A id \in IDs : IF id = new THEN row[id] = {n} ELSE row[id] = acks[n][id]
    BY <1>1 DEF RoundsType
  <2>2. acks' = [acks EXCEPT ![n] = row]
    BY <1>3
  <2> HIDE DEF row
  <2> QED
    BY <1>1, <2>1, <2>2 DEF RoundsType
<1>8. RoundsType'
  BY <1>1, <1>4, <1>5, <1>6, <1>7 DEF RoundsType
<1>9. AckedOK'
  BY <1>1, <1>5 DEF IInv, AckedOK, RoundsType, AnyRound
<1>10. CollectedOK'
  <2> SUFFICES ASSUME NEW m \in Nodes, NEW id \in IDs
               PROVE  /\ \A k \in inbox[m][id] : [from |-> k, to |-> m, id |-> id] \in acked
                      /\ \A k \in acks'[m][id] :
                           \/ k = m /\ id \in known'[m][m]
                           \/ [from |-> k, to |-> m, id |-> id] \in acked
    BY DEF CollectedOK
  <2>1. CASE m = n /\ id = new
    BY <1>5, <1>7, <2>1 DEF IInv, CollectedOK
  <2>2. CASE ~ (m = n /\ id = new)
    <3>1. acks'[m][id] = acks[m][id]
      BY <1>7, <2>2
    <3> QED
      BY <1>5, <3>1 DEF IInv, CollectedOK
  <2> QED
    BY <2>1, <2>2
<1>11. ConfirmedOK'
  <2>1. IDs \subseteq Nat
    BY DEF IDs
  <2>2. /\ nextID'[n] = new + 1
        /\ \A m \in Nodes : m # n => nextID'[m] = nextID[m]
    BY <1>1, <1>3 DEF RoundsType
  <2>3. \A m \in Nodes, id \in IDs : id < nextID[m] => id < nextID'[m] /\ ~ (m = n /\ id = new)
    BY <1>2, <2>1, <2>2 DEF new
  <2>4. \A m \in Nodes : \A id \in confirmed'[m][m] :
          id \in IDs /\ id < nextID'[m] /\ Majority(Cardinality(acks'[m][id]))
    BY <1>7, <2>3 DEF IInv, ConfirmedOK
  <2>5. \A m \in Nodes, id \in IDs : tlcAcks'[m][id] # "none" => id < nextID'[m]
    BY <1>2, <1>6, <2>2, <2>3 DEF IInv, ConfirmedOK
  <2>6. \A m \in Nodes : \A q \in published'[m] : q.of # 0 => q.of \in confirmed'[m][m]
    BY <1>1, <1>3 DEF IInv, ConfirmedOK, RoundsType
  <2> QED
    BY <2>4, <2>5, <2>6 DEF ConfirmedOK
<1>12. ConfirmationsHonest'
  BY DEF IInv, ConfirmationsHonest
<1>13. PublishedOK'
  BY <1>1, <1>3, <1>5 DEF IInv, PublishedOK, RoundsType
<1> QED
  BY <1>8, <1>9, <1>10, <1>11, <1>12, <1>13 DEF IInv

(* Listing a file now and publishing a halted one are publications. *)
LEMMA InvPublications ==
  ASSUME IInv, NEW n \in Nodes,
         ListFileEx2(n) \/ ListFileNow(n) \/ \E f \in Files : PublishReleased(n, f)
  PROVE  IInv'
<1>1. PublishTLC(n) /\ UNCHANGED <<confirmed, early, reported, acked, myTime, inbox>>
  BY DEF ListFileEx2, ListFileNow, PublishReleased, roundVars
<1> QED
  BY <1>1, InvPublish

-----------------------------------------------------------------------------
(* Acknowledgements are collected. *)

(* Counting one more acknowledgement keeps what is known of those counted, *)
(* and a majority stays one.                                               *)
LEMMA AcksAfterReceive ==
  ASSUME IInv, NEW n \in Nodes, NEW id \in IDs, NEW m \in inbox[n][id],
         ReceiveAck(n, id, m), UNCHANGED <<known, acked>>
  PROVE  /\ inbox' \in [Nodes -> [IDs -> SUBSET Nodes]]
         /\ acks' \in [Nodes -> [IDs -> SUBSET Nodes]]
         /\ CollectedOK'
         /\ \A k \in Nodes, i \in IDs :
              Majority(Cardinality(acks[k][i])) => Majority(Cardinality(acks'[k][i]))
<1>1. /\ inbox \in [Nodes -> [IDs -> SUBSET Nodes]]
      /\ acks \in [Nodes -> [IDs -> SUBSET Nodes]]
      /\ m \in Nodes
  BY DEF IInv, RoundsType
<1>2. /\ inbox' \in [Nodes -> [IDs -> SUBSET Nodes]]
      /\ \A k \in Nodes, i \in IDs : inbox'[k][i] \subseteq inbox[k][i]
  <2> DEFINE row == [inbox[n] EXCEPT ![id] = @ \ {m}]
  <2>1. row \in [IDs -> SUBSET Nodes] /\ \A i \in IDs : row[i] \subseteq inbox[n][i]
    BY <1>1
  <2>2. inbox' = [inbox EXCEPT ![n] = row]
    BY DEF ReceiveAck
  <2> HIDE DEF row
  <2> QED
    BY <1>1, <2>1, <2>2
<1>3. /\ acks' \in [Nodes -> [IDs -> SUBSET Nodes]]
      /\ \A k \in Nodes, i \in IDs :
           /\ acks[k][i] \subseteq acks'[k][i]
           /\ acks'[k][i] \subseteq acks[k][i] \cup (IF k = n /\ i = id THEN {m} ELSE {})
  <2> DEFINE row == [acks[n] EXCEPT ![id] = @ \cup {m}]
  <2>1. /\ row \in [IDs -> SUBSET Nodes]
        /\ \A i \in IDs : /\ acks[n][i] \subseteq row[i]
                          /\ row[i] \subseteq acks[n][i] \cup (IF i = id THEN {m} ELSE {})
    BY <1>1
  <2>2. acks' = [acks EXCEPT ![n] = row]
    BY DEF ReceiveAck
  <2> HIDE DEF row
  <2> QED
    BY <1>1, <2>1, <2>2
<1>4. [from |-> m, to |-> n, id |-> id] \in acked
  BY DEF IInv, CollectedOK
<1>5. CollectedOK'
  <2>1. \A k \in Nodes, i \in IDs : \A j \in inbox'[k][i] :
          [from |-> j, to |-> k, id |-> i] \in acked
    BY <1>2 DEF IInv, CollectedOK
  <2>2. \A k \in Nodes, i \in IDs : \A j \in acks'[k][i] :
          \/ j = k /\ i \in known[k][k]
          \/ [from |-> j, to |-> k, id |-> i] \in acked
    BY <1>3, <1>4 DEF IInv, CollectedOK
  <2> QED
    BY <2>1, <2>2 DEF CollectedOK
<1>6. \A k \in Nodes, i \in IDs :
        Majority(Cardinality(acks[k][i])) => Majority(Cardinality(acks'[k][i]))
  BY <1>3, LargerMajority
<1> QED
  BY <1>2, <1>3, <1>5, <1>6

(* The acknowledgement does not make a majority. *)
LEMMA InvCollectAck ==
  ASSUME IInv, NEW n \in Nodes, NEW id \in IDs, NEW m \in inbox[n][id],
         CollectAck(n, id, m)
  PROVE  IInv'
<1>1. ReceiveAck(n, id, m) /\ UNCHANGED <<messages, tlcVars, acked, roundVars, tlcAcks>>
  BY DEF CollectAck
<1>2. UNCHANGED <<known, acked>>
  BY <1>1 DEF tlcVars
<1>3. /\ inbox' \in [Nodes -> [IDs -> SUBSET Nodes]]
      /\ acks' \in [Nodes -> [IDs -> SUBSET Nodes]]
      /\ CollectedOK'
      /\ \A k \in Nodes, i \in IDs :
           Majority(Cardinality(acks[k][i])) => Majority(Cardinality(acks'[k][i]))
  BY <1>1, <1>2, AcksAfterReceive
<1>4. RoundsType' /\ AckedOK' /\ PublishedOK' /\ ConfirmationsHonest'
  BY <1>1, <1>3
  DEF IInv, RoundsType, AckedOK, PublishedOK, ConfirmationsHonest, messages, tlcVars,
      roundVars, AnyRound
<1>5. ConfirmedOK'
  BY <1>1, <1>3 DEF IInv, ConfirmedOK, messages, tlcVars
<1> QED
  BY <1>3, <1>4, <1>5 DEF IInv

(* It does, and the confirmation is published. *)
LEMMA InvConfirm ==
  ASSUME IInv, NEW n \in Nodes, NEW id \in IDs, NEW m \in inbox[n][id],
         Confirm(n, id, m)
  PROVE  IInv'
<1> DEFINE msg == [id |-> nextID[n], of |-> id]
<1>1. /\ ReceiveAck(n, id, m)
      /\ Majority(Cardinality(acks'[n][id]))
      /\ confirmed' = [confirmed EXCEPT ![n][n] = @ \cup {id}]
      /\ nextID' = [nextID EXCEPT ![n] = @ + 1]
      /\ published' = [published EXCEPT ![n] = @ \cup {msg}]
      /\ UNCHANGED <<known, early, reported, acked, roundVars, tlcAcks>>
  BY DEF Confirm, TakeID
<1>2. RoundsType /\ id \in Nat /\ IDs \subseteq Nat
  BY DEF IInv, IDs
<1>3. /\ inbox' \in [Nodes -> [IDs -> SUBSET Nodes]]
      /\ acks' \in [Nodes -> [IDs -> SUBSET Nodes]]
      /\ CollectedOK'
      /\ \A k \in Nodes, i \in IDs :
           Majority(Cardinality(acks[k][i])) => Majority(Cardinality(acks'[k][i]))
  BY <1>1, AcksAfterReceive
<1>4. /\ nextID' \in [Nodes -> Nat]
      /\ \A k \in Nodes : nextID[k] \in Nat /\ nextID'[k] \in Nat /\ nextID[k] <= nextID'[k]
  BY <1>1, <1>2 DEF RoundsType
<1>5. /\ confirmed' \in [Nodes -> [Nodes -> SUBSET Nat]]
      /\ \A k, o \in Nodes :
           /\ confirmed[k][o] \subseteq confirmed'[k][o]
           /\ confirmed'[k][o] \subseteq
                confirmed[k][o] \cup (IF k = n /\ o = n THEN {id} ELSE {})
      /\ id \in confirmed'[n][n]
  BY <1>1, <1>2 DEF RoundsType
<1>takes. nextID[n] \in IDs
  BY DEF Confirm, TakeID
<1>6. /\ published' \in [Nodes -> SUBSET [id : IDs, of : Nat]]
      /\ \A k \in Nodes : published'[k] \subseteq
           published[k] \cup (IF k = n THEN {msg} ELSE {})
  BY <1>1, <1>2, <1>takes DEF RoundsType
<1>7. RoundsType'
  BY <1>1, <1>2, <1>3, <1>4, <1>5, <1>6 DEF RoundsType, roundVars
<1>8. AckedOK'
  BY <1>1 DEF IInv, AckedOK, roundVars, AnyRound
<1>9. ConfirmationsHonest'
  BY <1>1, <1>5 DEF IInv, ConfirmationsHonest
<1>10. ConfirmedOK'
  <2>1. tlcAcks[n][id] # "none"
    BY <1>1 DEF ReceiveAck
  <2>2. id < nextID[n]
    BY <2>1 DEF IInv, ConfirmedOK
  <2>3. \A k \in Nodes, i \in IDs : i < nextID[k] => i < nextID'[k]
    BY <1>2, <1>4
  <2>4. \A k \in Nodes : \A i \in confirmed'[k][k] :
          i \in IDs /\ i < nextID'[k] /\ Majority(Cardinality(acks'[k][i]))
    BY <1>1, <1>3, <1>5, <2>2, <2>3 DEF IInv, ConfirmedOK
  <2>5. \A k \in Nodes, i \in IDs : tlcAcks'[k][i] # "none" => i < nextID'[k]
    BY <1>1, <2>3 DEF IInv, ConfirmedOK
  <2>6. \A k \in Nodes : \A q \in published'[k] : q.of # 0 => q.of \in confirmed'[k][k]
    BY <1>5, <1>6 DEF IInv, ConfirmedOK
  <2> QED
    BY <2>4, <2>5, <2>6 DEF ConfirmedOK
<1>11. PublishedOK'
  <2>1. msg.of # 0
    BY DEF IDs
  <2> QED
    BY <1>1, <1>6, <2>1 DEF IInv, PublishedOK
<1> QED
  BY <1>3, <1>7, <1>8, <1>9, <1>10, <1>11 DEF IInv

-----------------------------------------------------------------------------
(* A TLC message arrives. *)

(* What a node holds of one origin changes, nothing else. *)
LEMMA OneOrigin ==
  ASSUME NEW f \in [Nodes -> [Nodes -> SUBSET Nat]], NEW n \in Nodes, NEW o \in Nodes,
         NEW S \in SUBSET Nat, NEW g, g = [f EXCEPT ![n][o] = S]
  PROVE  /\ g \in [Nodes -> [Nodes -> SUBSET Nat]]
         /\ \A m, p \in Nodes : g[m][p] = IF m = n /\ p = o THEN S ELSE f[m][p]
<1> DEFINE row == [f[n] EXCEPT ![o] = S]
<1>1. /\ row \in [Nodes -> SUBSET Nat]
      /\ \A p \in Nodes : row[p] = IF p = o THEN S ELSE f[n][p]
  OBVIOUS
<1>2. g = [f EXCEPT ![n] = row]
  OBVIOUS
<1> HIDE DEF row
<1> QED
  BY <1>1, <1>2

(* Storing messages, acknowledging stored messages of the round, and taking *)
(* as confirmed what the origin confirmed, keeps the invariant.            *)
LEMMA InvArrival ==
  ASSUME IInv, UNCHANGED <<messages, myTime, ackVars>>,
         known' \in [Nodes -> [Nodes -> SUBSET Nat]],
         confirmed' \in [Nodes -> [Nodes -> SUBSET Nat]],
         early' \in [Nodes -> [Nodes -> SUBSET Nat]],
         reported' \in [Nodes -> [Nodes -> SUBSET Nat]],
         \A m, o \in Nodes :
           /\ known[m][o] \subseteq known'[m][o]
           /\ confirmed[m][o] \subseteq confirmed'[m][o]
           /\ confirmed'[m][o] \cup early'[m][o] \cup reported'[m][o] \subseteq confirmed[o][o],
         acked \subseteq acked',
         \A ack \in acked' \ acked :
           /\ ack \in [from : Nodes, to : Nodes, id : Nat]
           /\ ack.id \in known'[ack.from][ack.to]
           /\ AnyRound \/ 2 * myTime[ack.from] + 1 >= ack.id
  PROVE  IInv'
<1>1. RoundsType
  BY DEF IInv
<1>2. \A o \in Nodes : confirmed'[o][o] = confirmed[o][o]
  OBVIOUS
<1>3. UNCHANGED <<nextID, published, tlcAcks, acks, inbox>>
  BY DEF messages, ackVars
<1>4. RoundsType'
  BY <1>1, <1>3 DEF RoundsType
<1>5. AckedOK'
  <2>1. \A ack \in acked :
          /\ ack.id \in known'[ack.from][ack.to]
          /\ AnyRound \/ 2 * myTime[ack.from] + 1 >= ack.id
    BY <1>1 DEF IInv, AckedOK, RoundsType, AnyRound
  <2>2. \A ack \in acked' :
          /\ ack.id \in known'[ack.from][ack.to]
          /\ AnyRound \/ 2 * myTime'[ack.from] + 1 >= ack.id
    BY <2>1 DEF AnyRound
  <2> QED
    BY <2>2 DEF AckedOK, AnyRound
<1>6. CollectedOK'
  BY <1>3 DEF IInv, CollectedOK
<1>7. ConfirmedOK'
  BY <1>2, <1>3 DEF IInv, ConfirmedOK
<1>8. ConfirmationsHonest'
  BY <1>2 DEF ConfirmationsHonest
<1>9. PublishedOK'
  BY <1>3 DEF IInv, PublishedOK
<1> QED
  BY <1>4, <1>5, <1>6, <1>7, <1>8, <1>9 DEF IInv

(* The message is stored; in the round it is acknowledged as well, and its  *)
(* early confirmation is reported.                                         *)
LEMMA InvMessage ==
  ASSUME IInv, NEW n \in Nodes, NEW o \in Nodes, NEW msg \in published[o],
         TLCOutOfRound(n, o, msg) \/ TLCInRound(n, o, msg)
  PROVE  IInv'
<1> DEFINE ackOf == [from |-> n, to |-> o, id |-> msg.id]
<1>1. RoundsType /\ ConfirmationsHonest /\ msg.id \in Nat
  BY DEF IInv, RoundsType, IDs
<1>2. /\ UNCHANGED <<messages, myTime, ackVars, confirmed>>
      /\ known' = [known EXCEPT ![n][o] = @ \cup {msg.id}]
  BY DEF TLCOutOfRound, TLCInRound, roundVars
<1>3. /\ known' \in [Nodes -> [Nodes -> SUBSET Nat]]
      /\ \A m, p \in Nodes : known[m][p] \subseteq known'[m][p]
      /\ msg.id \in known'[n][o]
  BY <1>1, <1>2 DEF RoundsType
<1>4. /\ early' = early \/ early' = [early EXCEPT ![n][o] = @ \ {msg.id}]
      /\ \/ reported' = reported
         \/ /\ reported' = [reported EXCEPT ![n][o] = @ \cup {msg.id}]
            /\ msg.id \in early[n][o]
  BY DEF TLCOutOfRound, TLCInRound
<1>5. /\ early' \in [Nodes -> [Nodes -> SUBSET Nat]]
      /\ \A m, p \in Nodes : early'[m][p] \subseteq early[m][p]
  <2>1. early \in [Nodes -> [Nodes -> SUBSET Nat]] /\ early[n][o] \ {msg.id} \in SUBSET Nat
    BY <1>1 DEF RoundsType
  <2>2. CASE early' = early
    BY <2>1, <2>2
  <2>3. CASE early' = [early EXCEPT ![n][o] = early[n][o] \ {msg.id}]
    BY <2>1, <2>3, OneOrigin
  <2> QED
    BY <1>4, <2>2, <2>3
<1>6. /\ reported' \in [Nodes -> [Nodes -> SUBSET Nat]]
      /\ \A m, p \in Nodes : reported'[m][p] \subseteq reported[m][p] \cup early[m][p]
  <2>1. reported \in [Nodes -> [Nodes -> SUBSET Nat]] /\ reported[n][o] \cup {msg.id} \in SUBSET Nat
    BY <1>1 DEF RoundsType
  <2>2. CASE reported' = reported
    BY <2>1, <2>2
  <2>3. CASE /\ reported' = [reported EXCEPT ![n][o] = reported[n][o] \cup {msg.id}]
             /\ msg.id \in early[n][o]
    BY <2>1, <2>3, OneOrigin
  <2> QED
    BY <1>4, <2>2, <2>3
<1>7. \/ acked' = acked
      \/ acked' = acked \cup {ackOf} /\ InRound(n, msg.id)
  BY DEF TLCOutOfRound, TLCInRound, AckTLC
<1>8. InRound(n, msg.id) => AnyRound \/ 2 * myTime[n] + 1 >= msg.id
  BY <1>1 DEF InRound, RoundsType
<1>9. \A m, p \in Nodes :
        /\ confirmed[m][p] \subseteq confirmed'[m][p]
        /\ confirmed'[m][p] \cup early'[m][p] \cup reported'[m][p] \subseteq confirmed[p][p]
  BY <1>1, <1>2, <1>5, <1>6 DEF ConfirmationsHonest
<1>10. confirmed' \in [Nodes -> [Nodes -> SUBSET Nat]]
  BY <1>1, <1>2 DEF RoundsType
<1>11. /\ acked \subseteq acked'
       /\ \A ack \in acked' \ acked :
            /\ ack \in [from : Nodes, to : Nodes, id : Nat]
            /\ ack.id \in known'[ack.from][ack.to]
            /\ AnyRound \/ 2 * myTime[ack.from] + 1 >= ack.id
  BY <1>1, <1>3, <1>7, <1>8
<1> QED
  BY <1>2, <1>3, <1>5, <1>6, <1>9, <1>10, <1>11, InvArrival

(* A confirmation is taken over or put aside; its origin published it. *)
LEMMA InvConfirmation ==
  ASSUME IInv, NEW n \in Nodes, NEW o \in Nodes, NEW msg \in published[o],
         EarlyConfirmation(n, o, msg) \/ Confirmation(n, o, msg)
  PROVE  IInv'
<1>1. RoundsType /\ ConfirmationsHonest /\ msg.of \in Nat
  BY DEF IInv, RoundsType
<1>2. msg.of \in confirmed[o][o]
  BY DEF IInv, ConfirmedOK, EarlyConfirmation, Confirmation
<1>3. UNCHANGED <<messages, myTime, ackVars, known, acked>>
  BY DEF EarlyConfirmation, Confirmation, roundVars
<1>4. /\ confirmed' = confirmed \/ confirmed' = [confirmed EXCEPT ![n][o] = @ \cup {msg.of}]
      /\ early' = early \/ early' = [early EXCEPT ![n][o] = @ \cup {msg.of}]
      /\ reported' = reported \/ reported' = [reported EXCEPT ![n][o] = @ \cup {msg.of}]
  BY DEF EarlyConfirmation, Confirmation
<1>5. /\ confirmed' \in [Nodes -> [Nodes -> SUBSET Nat]]
      /\ \A m, p \in Nodes :
           /\ confirmed[m][p] \subseteq confirmed'[m][p]
           /\ confirmed'[m][p] \subseteq confirmed[m][p] \cup confirmed[p][p]
  <2>1. /\ confirmed \in [Nodes -> [Nodes -> SUBSET Nat]]
        /\ confirmed[n][o] \cup {msg.of} \in SUBSET Nat
    BY <1>1 DEF RoundsType
  <2>2. CASE confirmed' = confirmed
    BY <2>1, <2>2
  <2>3. CASE confirmed' = [confirmed EXCEPT ![n][o] = confirmed[n][o] \cup {msg.of}]
    BY <1>2, <2>1, <2>3, OneOrigin
  <2> QED
    BY <1>4, <2>2, <2>3
<1>6. /\ early' \in [Nodes -> [Nodes -> SUBSET Nat]]
      /\ \A m, p \in Nodes : early'[m][p] \subseteq early[m][p] \cup confirmed[p][p]
  <2>1. /\ early \in [Nodes -> [Nodes -> SUBSET Nat]]
        /\ early[n][o] \cup {msg.of} \in SUBSET Nat
    BY <1>1 DEF RoundsType
  <2>2. CASE early' = early
    BY <2>1, <2>2
  <2>3. CASE early' = [early EXCEPT ![n][o] = early[n][o] \cup {msg.of}]
    BY <1>2, <2>1, <2>3, OneOrigin
  <2> QED
    BY <1>4, <2>2, <2>3
<1>7. /\ reported' \in [Nodes -> [Nodes -> SUBSET Nat]]
      /\ \A m, p \in Nodes : reported'[m][p] \subseteq reported[m][p] \cup confirmed[p][p]
  <2>1. /\ reported \in [Nodes -> [Nodes -> SUBSET Nat]]
        /\ reported[n][o] \cup {msg.of} \in SUBSET Nat
    BY <1>1 DEF RoundsType
  <2>2. CASE reported' = reported
    BY <2>1, <2>2
  <2>3. CASE reported' = [reported EXCEPT ![n][o] = reported[n][o] \cup {msg.of}]
    BY <1>2, <2>1, <2>3, OneOrigin
  <2> QED
    BY <1>4, <2>2, <2>3
<1>8. \A m, p \in Nodes :
        confirmed'[m][p] \cup early'[m][p] \cup reported'[m][p] \subseteq confirmed[p][p]
  BY <1>1, <1>5, <1>6, <1>7 DEF ConfirmationsHonest
<1>9. known' \in [Nodes -> [Nodes -> SUBSET Nat]]
  BY <1>1, <1>3 DEF RoundsType
<1> QED
  BY <1>3, <1>5, <1>6, <1>7, <1>8, <1>9, InvArrival

-----------------------------------------------------------------------------
(* Every step keeps the invariant. *)
LEMMA InvNext == IInv /\ [Next]_vars => IInv'
<1> SUFFICES ASSUME IInv, [Next]_vars PROVE IInv'
  OBVIOUS
<1>1. CASE UNCHANGED vars
  <2>1. UNCHANGED <<messages, tlcVars, acked, ackVars, roundVars>>
    BY <1>1 DEF vars
  <2>2. myTime' \in [Nodes -> Nat] /\ \A n \in Nodes : myTime'[n] >= myTime[n]
    BY <2>1 DEF roundVars, IInv, RoundsType
  <2> QED
    BY <2>1, <2>2, InvRoundStep
<1>2. CASE Next
  <2> PICK n \in Nodes :
        \/ ListFileEx2(n) \/ ListFileNow(n) \/ ListFileLater(n) \/ OtherRumor(n)
        \/ \E k \in Callers : IncrementMytime(n, k)
        \/ \E f \in Files : PublishReleased(n, f) \/ RemoveEntry(n, f)
        \/ \E id \in IDs :
             \/ RemoveChannel(n, id)
             \/ \E m \in inbox[n][id] : CollectAck(n, id, m) \/ Confirm(n, id, m)
        \/ \E ack \in acked : AckArrives(n, ack)
        \/ \E o \in Nodes : \E msg \in published[o] : TLCArrives(n, o, msg)
    BY <1>2 DEF Next
  <2>1. CASE ListFileEx2(n) \/ ListFileNow(n) \/ \E f \in Files : PublishReleased(n, f)
    BY <2>1, InvPublications
  <2>2. CASE OtherRumor(n)
    BY <2>2, InvOtherRumor
  <2>3. CASE ListFileLater(n) \/ \E f \in Files : RemoveEntry(n, f)
    BY <2>3, InvRounds
  <2>4. CASE \E k \in Callers : IncrementMytime(n, k)
    <3> PICK k \in Callers : IncrementMytime(n, k)
      BY <2>4
    <3>1. CASE CloseAcks(n, k)
      BY <3>1, InvChannels
    <3>2. CASE \/ CountWitnesses(n, k) \/ ReadLength(n, k) \/ CheckRound(n, k)
               \/ AddRound(n, k) \/ StartNotifying(n, k) \/ NotifyHalted(n, k)
      BY <3>2, InvRounds
    <3> QED
      BY <3>1, <3>2 DEF IncrementMytime
  <2>5. CASE \/ \E id \in IDs : RemoveChannel(n, id)
             \/ \E ack \in acked : AckArrives(n, ack)
    BY <2>5, InvChannels
  <2>6. CASE \E id \in IDs : \E m \in inbox[n][id] : CollectAck(n, id, m) \/ Confirm(n, id, m)
    BY <2>6, InvCollectAck, InvConfirm
  <2>7. CASE \E o \in Nodes : \E msg \in published[o] : TLCArrives(n, o, msg)
    BY <2>7, InvMessage, InvConfirmation DEF TLCArrives
  <2> QED
    BY <2>1, <2>2, <2>3, <2>4, <2>5, <2>6, <2>7
<1> QED
  BY <1>1, <1>2

(* The invariant holds throughout: every acknowledgement that a goroutine  *)
(* of waitForAckTLC counts is backed by its sender's tlcMessages.          *)
THEOREM Inductive == Spec => []IInv
<1> QED
  BY InvInit, InvNext, PTL DEF Spec

-----------------------------------------------------------------------------
(* What follows from it. *)

(* The nodes counted for a confirmed message have it. *)
LEMMA CountedHaveIt ==
  ASSUME IInv, NEW o \in Nodes, NEW id \in confirmed[o][o]
  PROVE  /\ id \in IDs /\ acks[o][id] \subseteq Nodes
         /\ Majority(Cardinality(acks[o][id]))
         /\ \A m \in acks[o][id] : id \in known[m][o]
<1>1. id \in IDs /\ Majority(Cardinality(acks[o][id]))
  BY DEF IInv, ConfirmedOK
<1>2. acks[o][id] \subseteq Nodes
  BY <1>1 DEF IInv, RoundsType
<1>3. ASSUME NEW m \in acks[o][id] PROVE id \in known[m][o]
  BY <1>1 DEF IInv, CollectedOK, AckedOK
<1> QED
  BY <1>1, <1>2, <1>3

(* ConfirmedByMajority for any number of nodes: a message its origin takes *)
(* as confirmed (waitForAckTLC) is stored by a majority.                   *)
THEOREM ConfirmedMeansMajority == Spec => []ConfirmedByMajority
<1>1. IInv => ConfirmedByMajority
  <2> SUFFICES ASSUME IInv, NEW o \in Nodes, NEW id \in confirmed[o][o]
               PROVE  Majority(Cardinality({m \in Nodes : id \in known[m][o]}))
    BY DEF ConfirmedByMajority
  <2> DEFINE holders == {m \in Nodes : id \in known[m][o]}
  <2>1. acks[o][id] \subseteq holders /\ Majority(Cardinality(acks[o][id]))
    BY CountedHaveIt
  <2> HIDE DEF holders
  <2>2. holders \subseteq Nodes
    BY DEF holders
  <2>3. Majority(Cardinality(holders))
    BY <2>1, <2>2, LargerMajority
  <2> QED
    BY <2>3 DEF holders
<1> QED
  BY <1>1, Inductive, PTL

(* ConfirmedInRound for any number of nodes: without -ackAll a majority    *)
(* had reached the round of a confirmed message (handleTLCMessage, ackTLC). *)
THEOREM ConfirmedMeansInRound == Spec => []ConfirmedInRound
<1>1. IInv => ConfirmedInRound
  <2> SUFFICES ASSUME IInv, ~ AnyRound, NEW o \in Nodes, NEW id \in confirmed[o][o]
               PROVE  Majority(Cardinality({o} \cup {m \in Nodes : 2 * myTime[m] + 1 >= id}))
    BY DEF ConfirmedInRound
  <2> DEFINE inRound == {o} \cup {m \in Nodes : 2 * myTime[m] + 1 >= id}
  <2>1. /\ id \in IDs /\ acks[o][id] \subseteq Nodes
        /\ Majority(Cardinality(acks[o][id]))
    BY CountedHaveIt
  <2>2. ASSUME NEW m \in acks[o][id] PROVE m \in inRound
    <3>1. CASE m = o
      BY <3>1
    <3>2. CASE m # o
      <4>1. [from |-> m, to |-> o, id |-> id] \in acked
        BY <2>1, <3>2 DEF IInv, CollectedOK
      <4>2. 2 * myTime[m] + 1 >= id
        BY <4>1 DEF IInv, AckedOK
      <4> QED
        BY <2>1, <4>2
    <3> QED
      BY <3>1, <3>2
  <2> HIDE DEF inRound
  <2>3. acks[o][id] \subseteq inRound
    BY <2>2
  <2>4. inRound \subseteq Nodes
    BY DEF inRound
  <2>5. Majority(Cardinality(inRound))
    BY <2>1, <2>3, <2>4, LargerMajority
  <2> QED
    BY <2>5 DEF inRound
<1> QED
  BY <1>1, Inductive, PTL

(* ConfirmationsHonest for any number of nodes: confirmOutofOrderTLC and   *)
(* handleTLCMessage take as confirmed only what the origin confirmed.      *)
THEOREM HonestConfirmations == Spec => []ConfirmationsHonest
<1>1. IInv => ConfirmationsHonest
  BY DEF IInv
<1> QED
  BY <1>1, Inductive, PTL

-----------------------------------------------------------------------------
(* Rounds implements ConfirmedTLC. *)

LEMMA MajorityIsQuorum ==
  ASSUME NEW S \in SUBSET Nodes, Majority(Cardinality(S))
  PROVE  S \in Quorums
<1>1. Cardinality(S) \in Nat /\ N \in Nat
  BY RoundsAssumption, FS_Subset, FS_CardinalityType DEF RoundsAssumption, N
<1>2. Cardinality(S) > N \div 2
  BY DEF Majority
<1>3. \A c, k \in Nat : c > k \div 2 => 2 * c > k
  BY Z3
<1>4. 2 * Cardinality(S) > N
  BY <1>1, <1>2, <1>3
<1> QED
  BY <1>4 DEF Quorums

LEMMA StoredStep ==
  ASSUME IInv, NEW n \in Nodes, NEW o \in Nodes, NEW id \in IDs,
         o = n \/ id \in known[o][o],
         known' = [known EXCEPT ![n][o] = @ \cup {id}], UNCHANGED confirmed
  PROVE  CT!Next
<1>1. CT!Store(n, o, id)
  BY DEF CT!Store
<1> QED
  BY <1>1 DEF CT!Next

(* The IDs of published messages are among those the bounds allow. *)
LEMMA ConfirmedStep ==
  ASSUME IInv, NEW n \in Nodes, NEW o \in Nodes, NEW id \in IDs,
         id \in known[n][o],
         o = n => Majority(Cardinality({m \in Nodes : id \in known[m][o]})),
         o # n => id \in confirmed[o][o],
         confirmed' = [confirmed EXCEPT ![n][o] = @ \cup {id}], UNCHANGED known
  PROVE  CT!Next
<1>1. CASE o = n
  <2>1. {m \in Nodes : id \in known[m][o]} \in Quorums
    BY <1>1, MajorityIsQuorum
  <2> QED
    BY <1>1, <2>1 DEF CT!Confirm, CT!Next
<1>2. CASE o # n
  BY <1>2 DEF CT!Confirm, CT!Next
<1> QED
  BY <1>1, <1>2

LEMMA ConfirmsInit == Init => CT!Init
BY DEF Init, CT!Init

(* Every step stores one message, confirms one, or does neither.           *)
LEMMA ConfirmsNext ==
  ASSUME IInv, [Next]_vars
  PROVE  [CT!Next]_<<known, confirmed>>
<1>2. CASE UNCHANGED vars
  BY <1>2 DEF vars, tlcVars
<1>3. ASSUME NEW n \in Nodes,
             ListFileEx2(n) \/ ListFileNow(n) \/ \E f \in Files : PublishReleased(n, f)
      PROVE  CT!Next
  <2>1. PublishTLC(n) /\ UNCHANGED confirmed
    BY <1>3 DEF ListFileEx2, ListFileNow, PublishReleased
  <2>2. nextID[n] \in IDs /\ known' = [known EXCEPT ![n][n] = @ \cup {nextID[n]}]
    BY <2>1 DEF PublishTLC, TakeID
  <2> QED
    BY <2>1, <2>2, StoredStep
<1>4. ASSUME NEW n \in Nodes,
             \/ ListFileLater(n) \/ OtherRumor(n)
             \/ \E k \in Callers : IncrementMytime(n, k)
             \/ \E f \in Files : RemoveEntry(n, f)
             \/ \E id \in IDs :
                  RemoveChannel(n, id) \/ \E m \in inbox[n][id] : CollectAck(n, id, m)
             \/ \E ack \in acked : AckArrives(n, ack)
      PROVE  UNCHANGED <<known, confirmed>>
  BY <1>4
  DEF ListFileLater, OtherRumor, IncrementMytime, CountWitnesses, ReadLength, CheckRound,
      AddRound, CloseAcks, StartNotifying, NotifyHalted, RemoveEntry, RemoveChannel,
      CollectAck, AckArrives,
      tlcVars
<1>5. ASSUME NEW n \in Nodes, NEW id \in IDs, NEW m \in inbox[n][id], Confirm(n, id, m)
      PROVE  CT!Next
  <2>1. IInv'
    BY <1>5, InvConfirm
  <2>2. confirmed' = [confirmed EXCEPT ![n][n] = @ \cup {id}] /\ UNCHANGED known
    BY <1>5 DEF Confirm
  <2>3. id \in confirmed'[n][n]
    BY <2>2 DEF IInv, RoundsType
  <2>4. /\ acks'[n][id] \subseteq Nodes /\ Majority(Cardinality(acks'[n][id]))
        /\ \A k \in acks'[n][id] : id \in known'[k][n]
    <3>1. acks'[n][id] \subseteq Nodes
      BY <2>1 DEF IInv, RoundsType
    <3>2. Majority(Cardinality(acks'[n][id]))
      BY <1>5 DEF Confirm
    <3>3. ASSUME NEW k \in acks'[n][id] PROVE id \in known'[k][n]
      <4>1. CollectedOK' /\ AckedOK'
        BY <2>1 DEF IInv
      <4>2. (k = n /\ id \in known'[n][n]) \/ [from |-> k, to |-> n, id |-> id] \in acked'
        BY <4>1 DEF CollectedOK
      <4> QED
        BY <4>1, <4>2 DEF AckedOK
    <3> QED
      BY <3>1, <3>2, <3>3
  <2> DEFINE holders == {k \in Nodes : id \in known[k][n]}
  <2>5. acks'[n][id] \subseteq holders
    BY <2>2, <2>4
  <2>6. Majority(Cardinality(holders))
    <3> HIDE DEF holders
    <3>1. holders \in SUBSET Nodes
      BY DEF holders
    <3> QED
      BY <2>4, <2>5, <3>1, LargerMajority
  <2>7. id \in known[n][n]
    BY <1>5 DEF Confirm, ReceiveAck, IInv, PublishedOK
  <2> QED
    BY <2>2, <2>6, <2>7, ConfirmedStep
<1>6. ASSUME NEW n \in Nodes, NEW o \in Nodes, NEW msg \in published[o], TLCArrives(n, o, msg)
      PROVE  CT!Next \/ UNCHANGED <<known, confirmed>>
  <2>1. msg.id \in IDs
    BY DEF IInv, RoundsType
  <2>2. CASE TLCOutOfRound(n, o, msg) \/ TLCInRound(n, o, msg)
    <3>1. /\ known' = [known EXCEPT ![n][o] = @ \cup {msg.id}] /\ UNCHANGED confirmed
          /\ msg.of = 0
      BY <2>2 DEF TLCOutOfRound, TLCInRound
    <3>2. msg.id \in known[o][o]
      BY <3>1 DEF IInv, PublishedOK
    <3> QED
      BY <2>1, <3>1, <3>2, StoredStep
  <2>3. CASE EarlyConfirmation(n, o, msg)
    BY <2>3 DEF EarlyConfirmation
  <2>4. CASE Confirmation(n, o, msg)
    <3>1. /\ confirmed' = [confirmed EXCEPT ![n][o] = @ \cup {msg.of}] /\ UNCHANGED known
          /\ msg.of # 0 /\ msg.of \in known[n][o] /\ msg.of \notin confirmed[n][o]
      BY <2>4 DEF Confirmation
    <3>2. msg.of \in confirmed[o][o]
      BY <3>1 DEF IInv, ConfirmedOK
    <3>3. msg.of \in IDs
      BY <3>2 DEF IInv, ConfirmedOK
    <3> QED
      BY <3>1, <3>2, <3>3, ConfirmedStep
  <2> QED
    BY <1>6, <2>2, <2>3, <2>4 DEF TLCArrives
<1>7. CASE Next
  <2> PICK n \in Nodes :
        \/ ListFileEx2(n) \/ ListFileNow(n) \/ ListFileLater(n) \/ OtherRumor(n)
        \/ \E k \in Callers : IncrementMytime(n, k)
        \/ \E f \in Files : PublishReleased(n, f) \/ RemoveEntry(n, f)
        \/ \E id \in IDs :
             \/ RemoveChannel(n, id)
             \/ \E m \in inbox[n][id] : CollectAck(n, id, m) \/ Confirm(n, id, m)
        \/ \E ack \in acked : AckArrives(n, ack)
        \/ \E o \in Nodes : \E msg \in published[o] : TLCArrives(n, o, msg)
    BY <1>7 DEF Next
  <2>1. CASE ListFileEx2(n) \/ ListFileNow(n) \/ \E f \in Files : PublishReleased(n, f)
    BY <1>3, <2>1
  <2>2. CASE \E id \in IDs : \E m \in inbox[n][id] : Confirm(n, id, m)
    BY <1>5, <2>2
  <2>3. CASE \E o \in Nodes : \E msg \in published[o] : TLCArrives(n, o, msg)
    BY <1>6, <2>3
  <2>4. CASE \/ ListFileLater(n) \/ OtherRumor(n)
             \/ \E k \in Callers : IncrementMytime(n, k)
             \/ \E f \in Files : RemoveEntry(n, f)
             \/ \E id \in IDs :
                  RemoveChannel(n, id) \/ \E m \in inbox[n][id] : CollectAck(n, id, m)
             \/ \E ack \in acked : AckArrives(n, ack)
    BY <1>4, <2>4
  <2> QED
    BY <2>1, <2>2, <2>3, <2>4
<1> QED
  BY <1>2, <1>7

(* Rounds implements ConfirmedTLC for any number of nodes, files and        *)
(* rumors, with and without rounds (waitForAckTLC, handleTLCMessage).       *)
THEOREM ConfirmsHold == Spec => Confirms
<1>1. Init => CT!Init
  BY ConfirmsInit
<1>2. IInv /\ [Next]_vars => [CT!Next]_<<known, confirmed>>
  BY ConfirmsNext
<1> QED
  BY <1>1, <1>2, Inductive, PTL DEF Spec, Confirms, CT!Spec

-----------------------------------------------------------------------------
(* Type correctness. *)

(* The bounds LastID and the largest of Files are numbers. *)
LEMMA LargestMax ==
  ASSUME NEW f \in [Nodes -> Nat], NEW n \in Nodes
  PROVE  LET m == Max({f[x] : x \in Nodes}) IN m \in Nat /\ f[n] <= m
<1> DEFINE S == {f[x] : x \in Nodes}
<1>1. \E m \in S : \A k \in S : k <= m
  BY RoundsAssumption, LargestValue DEF RoundsAssumption
<1>2. S \in SUBSET Nat /\ f[n] \in S
  OBVIOUS
<1> HIDE DEF S
<1>3. \E m \in S : \A k \in S : m >= k
  BY <1>1, <1>2
<1>4. Max(S) \in S /\ \A k \in S : Max(S) >= k
  BY <1>3 DEF Max
<1>5. Max(S) \in Nat /\ f[n] <= Max(S)
  BY <1>2, <1>4
<1> QED
  BY <1>5 DEF S

LEMMA BoundsType ==
  ASSUME NEW n \in Nodes
  PROVE  LastID \in Nat /\ MaxFiles[n] \in Nat /\ 1 .. MaxFiles[n] \subseteq Files
<1> USE RoundsAssumption DEF RoundsAssumption
<1> DEFINE f == [x \in Nodes |-> MaxRumors[x] + 2 * MaxFiles[x]]
<1>1. f \in [Nodes -> Nat]
  OBVIOUS
<1>2. {f[x] : x \in Nodes} = {MaxRumors[x] + 2 * MaxFiles[x] : x \in Nodes}
  OBVIOUS
<1>3. LastID = Max({f[x] : x \in Nodes})
  BY <1>2 DEF LastID
<1> HIDE DEF f
<1>4. LastID \in Nat
  BY <1>1, <1>3, LargestMax
<1>5. MaxFiles \in [Nodes -> Nat]
  OBVIOUS
<1>6. /\ Max({MaxFiles[x] : x \in Nodes}) \in Nat
      /\ MaxFiles[n] <= Max({MaxFiles[x] : x \in Nodes})
  BY <1>5, LargestMax
<1> QED
  BY <1>4, <1>5, <1>6 DEF Files

LEMMA NextHaltedOK ==
  ASSUME NEW n \in Nodes, NEW i \in Nat, gossipWithConf[n] \in Seq(GossipWithConf)
  PROVE  /\ NextHalted(n, i) \in Nat
         /\ NextHalted(n, i) # 0 =>
              /\ NextHalted(n, i) \in DOMAIN gossipWithConf[n]
              /\ gossipWithConf[n][NextHalted(n, i)].file # 0
<1> DEFINE list == gossipWithConf[n]
           later == {j \in DOMAIN list : i < j /\ list[j].file # 0}
<1>1. NextHalted(n, i) = IF later = {} THEN 0 ELSE Min(later)
  BY DEF NextHalted
<1>2. DOMAIN list = 1 .. Len(list) /\ Len(list) \in Nat
  OBVIOUS
<1>3. later \in SUBSET Nat
  BY <1>2
<1>4. later # {} => Min(later) \in later
  <2> HIDE DEF later
  <2>1. later # {} => \E m \in later : \A k \in later : m <= k
    BY <1>3, LeastElement
  <2> QED
    BY <2>1 DEF Min
<1> QED
  BY <1>1, <1>3, <1>4

LEMMA WithoutEntryType ==
  ASSUME NEW list \in Seq(GossipWithConf), NEW f
  PROVE  WithoutEntry(list, f) \in Seq(GossipWithConf)
<1> DEFINE places == {k \in DOMAIN list : list[k].file = f}
           i == Max(places)
<1>1. DOMAIN list = 1 .. Len(list) /\ Len(list) \in Nat
  OBVIOUS
<1>2. places \in SUBSET Nat /\ IsFiniteSet(places)
  <2>1. IsFiniteSet(1 .. Len(list))
    BY <1>1, FS_Interval
  <2>2. places \subseteq 1 .. Len(list) /\ places \in SUBSET Nat
    BY <1>1
  <2> HIDE DEF places
  <2> QED
    BY <2>1, <2>2, FS_Subset
<1>3. places # {} => Max(places) \in places
  <2> HIDE DEF places
  <2>1. places # {} => \E m \in places : \A k \in places : k <= m
    BY <1>2, LargestElement
  <2>2. places # {} => \E m \in places : \A k \in places : m >= k
    BY <1>2, <2>1
  <2> QED
    BY <2>2 DEF Max
<1>4. CASE places = {}
  BY <1>4 DEF WithoutEntry
<1>5. CASE places # {}
  <2>1. i \in 1 .. Len(list)
    BY <1>1, <1>3, <1>5
  <2>2. WithoutEntry(list, f) = SubSeq(list, 1, i - 1) \o SubSeq(list, i + 1, Len(list))
    BY <1>5 DEF WithoutEntry
  <2> HIDE DEF i
  <2>3. /\ SubSeq(list, 1, i - 1) \in Seq(GossipWithConf)
        /\ SubSeq(list, i + 1, Len(list)) \in Seq(GossipWithConf)
    BY <1>1, <2>1
  <2> QED
    BY <2>2, <2>3
<1> QED
  BY <1>4, <1>5

(* The parts of TypeOK, by the groups of variables. *)
MessagesType ==
  /\ nextID \in [Nodes -> 1 .. LastID + 1]
  /\ published \in [Nodes -> SUBSET TLCMessages]
TLCVarsType ==
  /\ known \in [Nodes -> [Nodes -> SUBSET IDs]]
  /\ confirmed \in [Nodes -> [Nodes -> SUBSET IDs]]
  /\ early \in [Nodes -> [Nodes -> SUBSET IDs]]
  /\ reported \in [Nodes -> [Nodes -> SUBSET IDs]]
ListType ==
  /\ gossipWithConf \in [Nodes -> Seq(GossipWithConf)]
  /\ notifying \in [Nodes -> Nat]
  /\ \A n \in Nodes : notifying[n] # 0 =>
       /\ notifying[n] \in DOMAIN gossipWithConf[n]
       /\ gossipWithConf[n][notifying[n]].file # 0
RoundVarsType ==
  /\ myTime \in [Nodes -> Nat]
  /\ halted \in [Nodes -> [Files -> {"none", "waiting", "released", "published"}]]
  /\ lenGossipConf \in [Nodes -> [Callers -> Nat]]
  /\ ListType
AckVarsType ==
  /\ tlcAcks \in [Nodes -> [IDs -> {"none", "open", "closed"}]]
  /\ acks \in [Nodes -> [IDs -> SUBSET Nodes]]
  /\ inbox \in [Nodes -> [IDs -> SUBSET Nodes]]
BoundsOfType ==
  /\ files \in [Nodes -> Nat]
  /\ others \in [Nodes -> Nat]

LEMMA TypeParts ==
  TypeOK <=> /\ MessagesType /\ TLCVarsType /\ RoundVarsType /\ AckVarsType /\ BoundsOfType
             /\ acked \subseteq TLCAcks /\ panicked \subseteq Nodes
             /\ stage \in [Nodes -> [Callers -> Stages]]
BY DEF TypeOK, MessagesType, TLCVarsType, RoundVarsType, ListType, AckVarsType, BoundsOfType

LEMMA TypePartsNext ==
  TypeOK' <=> /\ MessagesType' /\ TLCVarsType' /\ RoundVarsType' /\ AckVarsType'
              /\ BoundsOfType'
              /\ acked' \subseteq TLCAcks /\ panicked' \subseteq Nodes
              /\ stage' \in [Nodes -> [Callers -> Stages]]
BY DEF TypeOK, MessagesType, TLCVarsType, RoundVarsType, ListType, AckVarsType, BoundsOfType

LEMMA SameTypes ==
  ASSUME TypeOK
  PROVE  /\ UNCHANGED messages => MessagesType'
         /\ UNCHANGED tlcVars => TLCVarsType'
         /\ UNCHANGED roundVars => RoundVarsType'
         /\ UNCHANGED ackVars => AckVarsType'
         /\ UNCHANGED bounds => BoundsOfType'
         /\ UNCHANGED acked => acked' \subseteq TLCAcks
         /\ UNCHANGED panicked => panicked' \subseteq Nodes
         /\ UNCHANGED stage => stage' \in [Nodes -> [Callers -> Stages]]
<1>1. /\ MessagesType /\ TLCVarsType /\ RoundVarsType /\ AckVarsType /\ BoundsOfType
      /\ acked \subseteq TLCAcks /\ panicked \subseteq Nodes
      /\ stage \in [Nodes -> [Callers -> Stages]]
  BY TypeParts
<1>2. UNCHANGED messages => MessagesType'
  BY <1>1 DEF messages, MessagesType
<1>3. UNCHANGED tlcVars => TLCVarsType'
  BY <1>1 DEF tlcVars, TLCVarsType
<1>4. UNCHANGED roundVars => RoundVarsType'
  BY <1>1 DEF roundVars, RoundVarsType, ListType
<1>5. UNCHANGED ackVars => AckVarsType'
  BY <1>1 DEF ackVars, AckVarsType
<1>6. UNCHANGED bounds => BoundsOfType'
  BY <1>1 DEF bounds, BoundsOfType
<1> QED
  BY <1>1, <1>2, <1>3, <1>4, <1>5, <1>6

(* Values of the two-level functions. *)
LEMMA Updated ==
  ASSUME NEW D, NEW E, NEW S, NEW f \in [D -> [E -> S]], NEW d \in D, NEW e, NEW v,
         e \in E => v \in S
  PROVE  [f EXCEPT ![d][e] = v] \in [D -> [E -> S]]
<1>1. [f[d] EXCEPT ![e] = v] \in [E -> S]
  OBVIOUS
<1> QED
  BY <1>1

LEMMA TypeInit == Init => TypeOK
<1> SUFFICES ASSUME Init PROVE TypeOK
  OBVIOUS
<1>1. nextID \in [Nodes -> 1 .. LastID + 1]
  BY BoundsType DEF Init
<1>2. gossipWithConf \in [Nodes -> Seq(GossipWithConf)]
  BY DEF Init
<1> QED
  BY <1>1, <1>2 DEF Init, TypeOK, Stages

LEMMA PublishType ==
  ASSUME TypeOK, NEW n \in Nodes, PublishTLC(n),
         UNCHANGED <<confirmed, early, reported, inbox>>
  PROVE  MessagesType' /\ TLCVarsType' /\ AckVarsType'
<1>1. MessagesType /\ TLCVarsType /\ AckVarsType
  BY TypeParts
<1>2. nextID[n] \in IDs /\ nextID[n] + 1 \in 1 .. LastID + 1
  BY BoundsType DEF PublishTLC, TakeID, IDs
<1>3. [id |-> nextID[n], of |-> 0] \in TLCMessages
  BY <1>2 DEF TLCMessages
<1>4. MessagesType'
  BY <1>1, <1>2, <1>3 DEF PublishTLC, TakeID, MessagesType
<1>5. known' = [known EXCEPT ![n][n] = known[n][n] \cup {nextID[n]}]
  BY DEF PublishTLC
<1>6. known[n][n] \cup {nextID[n]} \in SUBSET IDs
  BY <1>1, <1>2 DEF TLCVarsType
<1>7. TLCVarsType'
  BY <1>1, <1>5, <1>6, Updated DEF TLCVarsType
<1>8. /\ tlcAcks' = [tlcAcks EXCEPT ![n][nextID[n]] = "open"]
      /\ acks' = [acks EXCEPT ![n][nextID[n]] = {n}]
  BY DEF PublishTLC
<1>9. AckVarsType'
  BY <1>1, <1>2, <1>8, Updated DEF AckVarsType
<1> QED
  BY <1>4, <1>7, <1>9

LEMMA StageType ==
  ASSUME TypeOK, NEW n \in Nodes, NEW k \in Callers
  PROVE  /\ After(k) \in Stages /\ Advancing(k) \in Stages
         /\ \A v \in Stages :
              [stage EXCEPT ![n][k] = v] \in [Nodes -> [Callers -> Stages]]
<1>1. After(k) \in Stages /\ Advancing(k) \in Stages
  BY DEF After, Advancing, Stages
<1>2. stage \in [Nodes -> [Callers -> Stages]]
  BY TypeParts
<1> QED
  BY <1>1, <1>2, Updated

LEMMA TypeEx2 ==
  ASSUME TypeOK, NEW n \in Nodes, ListFileEx2(n)
  PROVE  TypeOK'
<1>1. /\ PublishTLC(n) /\ files' = [files EXCEPT ![n] = @ + 1]
      /\ UNCHANGED <<confirmed, early, reported, acked, roundVars, inbox, stage, others,
                     panicked>>
  BY DEF ListFileEx2
<1>2. MessagesType' /\ TLCVarsType' /\ AckVarsType'
  BY <1>1, PublishType
<1>3. BoundsOfType'
  BY <1>1, TypeParts DEF BoundsOfType
<1> QED
  BY <1>1, <1>2, <1>3, SameTypes, TypePartsNext

LEMMA TypeNow ==
  ASSUME TypeOK, NEW n \in Nodes, ListFileNow(n)
  PROVE  TypeOK'
<1> DEFINE e == [round |-> myTime[n], file |-> 0]
<1>1. /\ PublishTLC(n) /\ files' = [files EXCEPT ![n] = @ + 1]
      /\ UNCHANGED <<confirmed, early, reported, acked, myTime, halted, notifying,
                     lenGossipConf, inbox, others, panicked>>
      /\ notifying[n] = 0
      /\ gossipWithConf' = [gossipWithConf EXCEPT ![n] = Append(gossipWithConf[n], e)]
      /\ stage' = [stage EXCEPT ![n][Client] = "check"]
  BY DEF ListFileNow, ConfMutexFree
<1>2. MessagesType' /\ TLCVarsType' /\ AckVarsType'
  BY <1>1, PublishType
<1>3. BoundsOfType'
  BY <1>1, TypeParts DEF BoundsOfType
<1>4. RoundVarsType'
  <2>1. RoundVarsType
    BY TypeParts
  <2>2. e \in GossipWithConf
    BY <2>1 DEF RoundVarsType, GossipWithConf
  <2> HIDE DEF e
  <2>3. Append(gossipWithConf[n], e) \in Seq(GossipWithConf)
    BY <2>1, <2>2 DEF RoundVarsType, ListType
  <2>4. ListType'
    BY <1>1, <2>1, <2>3 DEF RoundVarsType, ListType
  <2> QED
    BY <1>1, <2>1, <2>4 DEF RoundVarsType
<1>5. stage' \in [Nodes -> [Callers -> Stages]]
  BY <1>1, StageType DEF Callers, Stages
<1> QED
  BY <1>1, <1>2, <1>3, <1>4, <1>5, SameTypes, TypePartsNext

LEMMA TypeLater ==
  ASSUME TypeOK, NEW n \in Nodes, ListFileLater(n)
  PROVE  TypeOK'
<1>1. /\ files[n] < MaxFiles[n]
      /\ files' = [files EXCEPT ![n] = files[n] + 1]
      /\ gossipWithConf' = [gossipWithConf EXCEPT ![n] =
           Append(@, [round |-> Len(@), file |-> files'[n]])]
      /\ halted' = [halted EXCEPT ![n][files'[n]] = "waiting"]
      /\ notifying[n] = 0
      /\ UNCHANGED <<messages, tlcVars, acked, myTime, notifying, lenGossipConf, ackVars,
                     stage, others, panicked>>
  BY DEF ListFileLater, ConfMutexFree
<1>2. RoundVarsType /\ BoundsOfType
  BY TypeParts
<1>3. files' \in [Nodes -> Nat] /\ files'[n] = files[n] + 1 /\ files[n] \in Nat
  BY <1>1, <1>2 DEF BoundsOfType
<1>4. files'[n] \in Files
  <2>1. files'[n] \in 1 .. MaxFiles[n]
    BY <1>1, <1>3, BoundsType
  <2> QED
    BY <2>1, BoundsType
<1>5. BoundsOfType'
  BY <1>1, <1>2, <1>3 DEF BoundsOfType
<1> DEFINE e == [round |-> Len(gossipWithConf[n]), file |-> files'[n]]
<1>6. gossipWithConf' = [gossipWithConf EXCEPT ![n] = Append(gossipWithConf[n], e)]
  BY <1>1
<1>7. e \in GossipWithConf
  BY <1>2, <1>4 DEF RoundVarsType, ListType, GossipWithConf
<1> HIDE DEF e
<1>8. Append(gossipWithConf[n], e) \in Seq(GossipWithConf)
  BY <1>2, <1>7 DEF RoundVarsType, ListType
<1>9. ListType'
  BY <1>1, <1>2, <1>6, <1>8 DEF RoundVarsType, ListType
<1>10. halted' \in [Nodes -> [Files -> {"none", "waiting", "released", "published"}]]
  BY <1>1, <1>2, Updated DEF RoundVarsType
<1>11. RoundVarsType'
  BY <1>1, <1>2, <1>9, <1>10 DEF RoundVarsType
<1> QED
  BY <1>1, <1>5, <1>11, SameTypes, TypePartsNext

LEMMA TypeOther ==
  ASSUME TypeOK, NEW n \in Nodes, OtherRumor(n)
  PROVE  TypeOK'
<1>1. /\ nextID[n] \in IDs /\ nextID' = [nextID EXCEPT ![n] = nextID[n] + 1]
      /\ others' = [others EXCEPT ![n] = @ + 1]
      /\ UNCHANGED <<published, tlcVars, acked, roundVars, ackVars, stage, files, panicked>>
  BY DEF OtherRumor, TakeID
<1>2. MessagesType'
  BY <1>1, TypeParts, BoundsType DEF MessagesType, IDs
<1>3. BoundsOfType'
  BY <1>1, TypeParts DEF BoundsOfType
<1> QED
  BY <1>1, <1>2, <1>3, SameTypes, TypePartsNext

LEMMA TypeCount ==
  ASSUME TypeOK, NEW n \in Nodes, NEW k \in Callers, CountWitnesses(n, k)
  PROVE  TypeOK'
<1> DEFINE v == IF Majority(Cardinality(Witnesses(n))) THEN "counted" ELSE "short"
<1>1. /\ stage' = [stage EXCEPT ![n][k] = v]
      /\ UNCHANGED <<messages, tlcVars, acked, roundVars, ackVars, bounds, panicked>>
  BY DEF CountWitnesses
<1>2. v \in Stages
  BY DEF Stages
<1> HIDE DEF v
<1>3. stage' \in [Nodes -> [Callers -> Stages]]
  BY <1>1, <1>2, StageType
<1> QED
  BY <1>1, <1>3, SameTypes, TypePartsNext

(* Whoever reads the length or compares it changes nothing else of the     *)
(* rounds.                                                                 *)
LEMMA LengthType ==
  ASSUME TypeOK, NEW n \in Nodes, NEW k \in Callers, NEW len \in Nat,
         \/ UNCHANGED lenGossipConf
         \/ lenGossipConf' = [lenGossipConf EXCEPT ![n][k] = len],
         UNCHANGED <<myTime, gossipWithConf, halted, notifying>>
  PROVE  RoundVarsType'
<1>1. RoundVarsType
  BY TypeParts
<1>2. lenGossipConf' \in [Nodes -> [Callers -> Nat]]
  <2>1. lenGossipConf \in [Nodes -> [Callers -> Nat]]
    BY <1>1 DEF RoundVarsType
  <2>2. [lenGossipConf EXCEPT ![n][k] = len] \in [Nodes -> [Callers -> Nat]]
    BY <2>1, Updated
  <2> QED
    BY <2>1, <2>2
<1> QED
  BY <1>1, <1>2 DEF RoundVarsType, ListType

LEMMA TypeLength ==
  ASSUME TypeOK, NEW n \in Nodes, NEW k \in Callers, ReadLength(n, k)
  PROVE  TypeOK'
<1> DEFINE len == Len(gossipWithConf[n])
<1>1. len \in Nat
  BY TypeParts DEF RoundVarsType, ListType
<1>2. /\ \/ UNCHANGED lenGossipConf
         \/ lenGossipConf' = [lenGossipConf EXCEPT ![n][k] = len]
      /\ UNCHANGED <<myTime, gossipWithConf, halted, notifying>>
      /\ UNCHANGED <<messages, tlcVars, acked, ackVars, bounds, panicked>>
  BY DEF ReadLength
<1>3. \/ stage' = [stage EXCEPT ![n][k] = "measured"]
      \/ stage' = [stage EXCEPT ![n][k] = After(k)]
  BY DEF ReadLength
<1> HIDE DEF len
<1>4. RoundVarsType'
  BY <1>1, <1>2, LengthType
<1>5. stage' \in [Nodes -> [Callers -> Stages]]
  BY <1>3, StageType DEF Stages
<1> QED
  BY <1>2, <1>4, <1>5, SameTypes, TypePartsNext

LEMMA TypeCheck ==
  ASSUME TypeOK, NEW n \in Nodes, NEW k \in Callers, CheckRound(n, k)
  PROVE  TypeOK'
<1> DEFINE v == IF lenGossipConf[n][k] > myTime[n] THEN "passed" ELSE After(k)
<1>1. /\ stage' = [stage EXCEPT ![n][k] = v]
      /\ lenGossipConf' = [lenGossipConf EXCEPT ![n][k] = 0]
      /\ UNCHANGED <<myTime, gossipWithConf, halted, notifying>>
      /\ UNCHANGED <<messages, tlcVars, acked, ackVars, bounds, panicked>>
  BY DEF CheckRound
<1>2. v \in Stages
  BY StageType DEF Stages
<1> HIDE DEF v
<1>3. stage' \in [Nodes -> [Callers -> Stages]]
  BY <1>1, <1>2, StageType
<1>4. RoundVarsType'
  BY <1>1, LengthType
<1> QED
  BY <1>1, <1>3, <1>4, SameTypes, TypePartsNext

LEMMA TypeAdd ==
  ASSUME TypeOK, NEW n \in Nodes, NEW k \in Callers, AddRound(n, k)
  PROVE  TypeOK'
<1>1. /\ stage' = [stage EXCEPT ![n][k] = "added"]
      /\ myTime' = [myTime EXCEPT ![n] = @ + 1]
      /\ UNCHANGED <<gossipWithConf, halted, notifying, lenGossipConf>>
      /\ UNCHANGED <<messages, tlcVars, acked, ackVars, bounds, panicked>>
  BY DEF AddRound
<1>2. stage' \in [Nodes -> [Callers -> Stages]]
  BY <1>1, StageType DEF Stages
<1>3. RoundVarsType'
  BY <1>1, TypeParts DEF RoundVarsType, ListType
<1> QED
  BY <1>1, <1>2, <1>3, SameTypes, TypePartsNext

LEMMA TypeClose ==
  ASSUME TypeOK, NEW n \in Nodes, NEW k \in Callers, CloseAcks(n, k)
  PROVE  TypeOK'
<1>1. UNCHANGED <<messages, tlcVars, acked, roundVars, acks, inbox, bounds>>
  BY DEF CloseAcks
<1>2. CASE panicked' = panicked \cup {n} /\ UNCHANGED <<tlcAcks, stage>>
  <2>1. UNCHANGED ackVars
    BY <1>1, <1>2 DEF ackVars
  <2>2. panicked' \subseteq Nodes
    BY <1>2, TypeParts
  <2> QED
    BY <1>1, <1>2, <2>1, <2>2, SameTypes, TypePartsNext
<1>3. CASE /\ tlcAcks' = [tlcAcks EXCEPT ![n] =
                [id \in IDs |-> IF @[id] = "open" THEN "closed" ELSE @[id]]]
           /\ stage' = [stage EXCEPT ![n][k] = "notify"]
           /\ UNCHANGED panicked
  <2>1. stage' \in [Nodes -> [Callers -> Stages]]
    BY <1>3, StageType DEF Stages
  <2> DEFINE T == {"none", "open", "closed"}
             g == [id \in IDs |-> IF tlcAcks[n][id] = "open" THEN "closed" ELSE tlcAcks[n][id]]
  <2>2. tlcAcks \in [Nodes -> [IDs -> T]]
    BY TypeParts DEF AckVarsType
  <2>3. "closed" \in T
    OBVIOUS
  <2>4. tlcAcks' = [tlcAcks EXCEPT ![n] = g]
    BY <1>3
  <2> HIDE DEF T
  <2>5. g \in [IDs -> T]
    BY <2>2, <2>3
  <2> HIDE DEF g
  <2>6. tlcAcks' \in [Nodes -> [IDs -> T]]
    BY <2>2, <2>4, <2>5
  <2>7. AckVarsType'
    BY <1>1, <2>6, TypeParts DEF T, AckVarsType
  <2> QED
    BY <1>1, <1>3, <2>1, <2>7, SameTypes, TypePartsNext
<1> QED
  BY <1>2, <1>3 DEF CloseAcks

(* Where the round is sent to next, from the i-th entry on. *)
LEMMA NotifyType ==
  ASSUME TypeOK, NEW n \in Nodes, NEW i \in Nat,
         notifying' = [notifying EXCEPT ![n] = NextHalted(n, i)],
         UNCHANGED gossipWithConf
  PROVE  ListType'
<1>1. ListType
  BY TypeParts DEF RoundVarsType
<1>2. gossipWithConf[n] \in Seq(GossipWithConf)
  BY <1>1 DEF ListType
<1> DEFINE next == NextHalted(n, i)
<1>3. /\ next \in Nat
      /\ next # 0 => next \in DOMAIN gossipWithConf[n] /\ gossipWithConf[n][next].file # 0
  BY <1>2, NextHaltedOK
<1>4. notifying' = [notifying EXCEPT ![n] = next]
  OBVIOUS
<1> HIDE DEF next
<1> QED
  BY <1>1, <1>3, <1>4 DEF ListType

LEMMA TypeStart ==
  ASSUME TypeOK, NEW n \in Nodes, NEW k \in Callers, StartNotifying(n, k)
  PROVE  TypeOK'
<1> DEFINE v == IF notifying'[n] = 0 THEN After(k) ELSE "notifying"
<1>1. /\ stage' = [stage EXCEPT ![n][k] = v]
      /\ notifying' = [notifying EXCEPT ![n] = NextHalted(n, 0)]
      /\ UNCHANGED <<myTime, gossipWithConf, halted, lenGossipConf>>
      /\ UNCHANGED <<messages, tlcVars, acked, ackVars, bounds, panicked>>
  BY DEF StartNotifying
<1>2. v \in Stages
  BY StageType DEF Stages
<1> HIDE DEF v
<1>3. stage' \in [Nodes -> [Callers -> Stages]]
  BY <1>1, <1>2, StageType
<1>4. ListType'
  BY <1>1, NotifyType
<1>5. RoundVarsType'
  BY <1>1, <1>4, TypeParts DEF RoundVarsType
<1> QED
  BY <1>1, <1>3, <1>5, SameTypes, TypePartsNext

LEMMA TypeNotify ==
  ASSUME TypeOK, NEW n \in Nodes, NEW k \in Callers, NotifyHalted(n, k)
  PROVE  TypeOK'
<1> DEFINE v == IF notifying'[n] = 0 THEN After(k) ELSE stage[n][k]
           e == gossipWithConf[n][notifying[n]]
           w == IF e.round = myTime[n] THEN "released" ELSE halted[n][e.file]
           T == {"none", "waiting", "released", "published"}
<1>1. /\ stage' = [stage EXCEPT ![n][k] = v]
      /\ notifying' = [notifying EXCEPT ![n] = NextHalted(n, notifying[n])]
      /\ halted[n][e.file] = "waiting"
      /\ halted' = [halted EXCEPT ![n][e.file] = w]
      /\ UNCHANGED <<myTime, gossipWithConf, lenGossipConf>>
      /\ UNCHANGED <<messages, tlcVars, acked, ackVars, bounds, panicked>>
  BY DEF NotifyHalted
<1>2. v \in Stages
  BY TypeParts, StageType DEF Stages
<1>3. w \in T
  BY <1>1
<1>4. halted \in [Nodes -> [Files -> T]]
  BY TypeParts DEF RoundVarsType
<1> HIDE DEF v, w, T
<1>5. stage' \in [Nodes -> [Callers -> Stages]]
  BY <1>1, <1>2, StageType
<1>6. notifying[n] \in Nat
  BY TypeParts DEF RoundVarsType, ListType
<1>7. ListType'
  BY <1>1, <1>6, NotifyType
<1>8. halted' \in [Nodes -> [Files -> T]]
  BY <1>1, <1>3, <1>4, Updated
<1>9. RoundVarsType'
  BY <1>1, <1>7, <1>8, TypeParts DEF RoundVarsType, T
<1> QED
  BY <1>1, <1>5, <1>9, SameTypes, TypePartsNext

LEMMA TypeReleased ==
  ASSUME TypeOK, NEW n \in Nodes, NEW f \in Files, PublishReleased(n, f)
  PROVE  TypeOK'
<1>1. /\ PublishTLC(n)
      /\ halted' = [halted EXCEPT ![n][f] = "published"]
      /\ UNCHANGED <<confirmed, early, reported, inbox>>
      /\ UNCHANGED <<myTime, gossipWithConf, notifying, lenGossipConf>>
      /\ UNCHANGED <<acked, stage, bounds, panicked>>
  BY DEF PublishReleased
<1>2. MessagesType' /\ TLCVarsType' /\ AckVarsType'
  BY <1>1, PublishType
<1>3. halted' \in [Nodes -> [Files -> {"none", "waiting", "released", "published"}]]
  BY <1>1, TypeParts, Updated DEF RoundVarsType
<1>4. RoundVarsType'
  BY <1>1, <1>3, TypeParts DEF RoundVarsType, ListType
<1> QED
  BY <1>1, <1>2, <1>4, SameTypes, TypePartsNext

LEMMA TypeRemoveEntry ==
  ASSUME TypeOK, NEW n \in Nodes, NEW f \in Files, RemoveEntry(n, f)
  PROVE  TypeOK'
<1> DEFINE list == WithoutEntry(gossipWithConf[n], f)
<1>1. /\ notifying[n] = 0
      /\ halted' = [halted EXCEPT ![n][f] = "none"]
      /\ gossipWithConf' = [gossipWithConf EXCEPT ![n] = list]
      /\ UNCHANGED <<myTime, notifying, lenGossipConf>>
      /\ UNCHANGED <<messages, tlcVars, acked, ackVars, stage, bounds, panicked>>
  BY DEF RemoveEntry, ConfMutexFree
<1>2. RoundVarsType
  BY TypeParts
<1>3. list \in Seq(GossipWithConf)
  BY <1>2, WithoutEntryType DEF RoundVarsType, ListType
<1> HIDE DEF list
<1>4. ListType'
  BY <1>1, <1>2, <1>3 DEF RoundVarsType, ListType
<1>5. halted' \in [Nodes -> [Files -> {"none", "waiting", "released", "published"}]]
  BY <1>1, <1>2, Updated DEF RoundVarsType
<1>6. RoundVarsType'
  BY <1>1, <1>2, <1>4, <1>5 DEF RoundVarsType
<1> QED
  BY <1>1, <1>6, SameTypes, TypePartsNext

LEMMA ReceiveType ==
  ASSUME TypeOK, NEW n \in Nodes, NEW id \in IDs, NEW m \in inbox[n][id],
         ReceiveAck(n, id, m), UNCHANGED tlcAcks
  PROVE  AckVarsType'
<1>1. AckVarsType
  BY TypeParts
<1>2. /\ inbox' = [inbox EXCEPT ![n][id] = inbox[n][id] \ {m}]
      /\ acks' = [acks EXCEPT ![n][id] = acks[n][id] \cup {m}]
  BY DEF ReceiveAck
<1>3. inbox[n][id] \ {m} \in SUBSET Nodes /\ acks[n][id] \cup {m} \in SUBSET Nodes
  BY <1>1 DEF AckVarsType
<1> QED
  BY <1>1, <1>2, <1>3, Updated DEF AckVarsType

LEMMA TypeCollect ==
  ASSUME TypeOK, NEW n \in Nodes, NEW id \in IDs, NEW m \in inbox[n][id],
         CollectAck(n, id, m)
  PROVE  TypeOK'
<1>1. /\ ReceiveAck(n, id, m)
      /\ UNCHANGED <<messages, tlcVars, acked, roundVars, tlcAcks, stage, bounds, panicked>>
  BY DEF CollectAck
<1>2. AckVarsType'
  BY <1>1, ReceiveType
<1> QED
  BY <1>1, <1>2, SameTypes, TypePartsNext

LEMMA TypeConfirm ==
  ASSUME TypeOK, NEW n \in Nodes, NEW id \in IDs, NEW m \in inbox[n][id],
         Confirm(n, id, m)
  PROVE  TypeOK'
<1>1. /\ ReceiveAck(n, id, m)
      /\ confirmed' = [confirmed EXCEPT ![n][n] = confirmed[n][n] \cup {id}]
      /\ nextID[n] \in IDs
      /\ nextID' = [nextID EXCEPT ![n] = nextID[n] + 1]
      /\ published' = [published EXCEPT ![n] =
           published[n] \cup {[id |-> nextID[n], of |-> id]}]
      /\ stage' = [stage EXCEPT ![n][id] = Advancing(id)]
      /\ UNCHANGED <<known, early, reported, acked, roundVars, tlcAcks, bounds, panicked>>
  BY DEF Confirm, TakeID
<1>2. AckVarsType'
  BY <1>1, ReceiveType
<1>3. MessagesType'
  <2>1. [id |-> nextID[n], of |-> id] \in TLCMessages
    BY <1>1 DEF TLCMessages
  <2>2. nextID[n] + 1 \in 1 .. LastID + 1
    BY <1>1, BoundsType DEF IDs
  <2> QED
    BY <1>1, <2>1, <2>2, TypeParts DEF MessagesType
<1>4. TLCVarsType'
  <2>1. TLCVarsType
    BY TypeParts
  <2>2. confirmed[n][n] \cup {id} \in SUBSET IDs
    BY <2>1 DEF TLCVarsType
  <2> QED
    BY <1>1, <2>1, <2>2, Updated DEF TLCVarsType
<1>5. stage' \in [Nodes -> [Callers -> Stages]]
  <2>1. id \in Callers
    BY DEF Callers
  <2> QED
    BY <1>1, <2>1, StageType
<1> QED
  BY <1>1, <1>2, <1>3, <1>4, <1>5, SameTypes, TypePartsNext

LEMMA TypeRemoveChannel ==
  ASSUME TypeOK, NEW n \in Nodes, NEW id \in IDs, RemoveChannel(n, id)
  PROVE  TypeOK'
<1>1. /\ tlcAcks' = [tlcAcks EXCEPT ![n][id] = "none"]
      /\ stage' = [stage EXCEPT ![n][id] = "out"]
      /\ inbox' = [inbox EXCEPT ![n][id] = {}]
      /\ UNCHANGED <<messages, tlcVars, acked, roundVars, acks, bounds, panicked>>
  BY DEF RemoveChannel
<1>2. AckVarsType
  BY TypeParts
<1>3. tlcAcks' \in [Nodes -> [IDs -> {"none", "open", "closed"}]]
  BY <1>1, <1>2, Updated DEF AckVarsType
<1>4. AckVarsType'
  BY <1>1, <1>2, <1>3, Updated DEF AckVarsType
<1>5. stage' \in [Nodes -> [Callers -> Stages]]
  <2>1. id \in Callers /\ "out" \in Stages
    BY DEF Callers, Stages
  <2> QED
    BY <1>1, <2>1, StageType
<1> QED
  BY <1>1, <1>4, <1>5, SameTypes, TypePartsNext

LEMMA TypeAckArrives ==
  ASSUME TypeOK, NEW n \in Nodes, NEW ack \in acked, AckArrives(n, ack)
  PROVE  TypeOK'
<1>1. /\ ack \in TLCAcks /\ ack.from \in Nodes /\ ack.id \in IDs
      /\ AckVarsType /\ panicked \subseteq Nodes
  BY TypeParts DEF TLCAcks
<1>2. UNCHANGED <<messages, tlcVars, acked, roundVars, tlcAcks, acks, stage, bounds>>
  BY DEF AckArrives
<1>3. CASE panicked' = panicked \cup {n} /\ UNCHANGED inbox
  <2>1. UNCHANGED ackVars
    BY <1>2, <1>3 DEF ackVars
  <2> QED
    BY <1>1, <1>2, <1>3, <2>1, SameTypes, TypePartsNext
<1>4. CASE /\ inbox' = [inbox EXCEPT ![n][ack.id] = @ \cup ({ack.from} \ acks[n][ack.id])]
           /\ UNCHANGED panicked
  <2>1. inbox[n][ack.id] \cup ({ack.from} \ acks[n][ack.id]) \in SUBSET Nodes
    BY <1>1 DEF AckVarsType
  <2>2. inbox' = [inbox EXCEPT ![n][ack.id] =
           inbox[n][ack.id] \cup ({ack.from} \ acks[n][ack.id])]
    BY <1>4
  <2>3. AckVarsType'
    BY <1>1, <1>2, <2>1, <2>2, Updated DEF AckVarsType
  <2> QED
    BY <1>2, <1>4, <2>3, SameTypes, TypePartsNext
<1> QED
  BY <1>3, <1>4 DEF AckArrives

(* What messages in circulation carry. *)
LEMMA MessageType ==
  ASSUME TypeOK, NEW o \in Nodes, NEW msg \in published[o]
  PROVE  msg.id \in IDs /\ msg.of \in {0} \cup IDs
BY TypeParts DEF MessagesType, TLCMessages

LEMMA TypeOutOfRound ==
  ASSUME TypeOK, NEW n \in Nodes, NEW o \in Nodes, NEW msg \in published[o],
         TLCOutOfRound(n, o, msg)
  PROVE  TypeOK'
<1>1. /\ known' = [known EXCEPT ![n][o] = known[n][o] \cup {msg.id}]
      /\ UNCHANGED <<confirmed, early, reported>>
      /\ UNCHANGED <<messages, acked, roundVars, ackVars, stage, bounds, panicked>>
  BY DEF TLCOutOfRound
<1>2. TLCVarsType
  BY TypeParts
<1>3. known[n][o] \cup {msg.id} \in SUBSET IDs
  BY <1>2, MessageType DEF TLCVarsType
<1>4. TLCVarsType'
  BY <1>1, <1>2, <1>3, Updated DEF TLCVarsType
<1> QED
  BY <1>1, <1>4, SameTypes, TypePartsNext

LEMMA TypeInRound ==
  ASSUME TypeOK, NEW n \in Nodes, NEW o \in Nodes, NEW msg \in published[o],
         TLCInRound(n, o, msg)
  PROVE  TypeOK'
<1>1. /\ known' = [known EXCEPT ![n][o] = known[n][o] \cup {msg.id}]
      /\ AckTLC(n, o, msg.id)
      /\ UNCHANGED <<messages, confirmed, roundVars, ackVars, bounds, panicked>>
  BY DEF TLCInRound
<1>2. TLCVarsType /\ acked \subseteq TLCAcks /\ stage \in [Nodes -> [Callers -> Stages]]
  BY TypeParts
<1>3. msg.id \in IDs
  BY MessageType
<1>4. known' \in [Nodes -> [Nodes -> SUBSET IDs]]
  <2>1. known[n][o] \cup {msg.id} \in SUBSET IDs
    BY <1>2, <1>3 DEF TLCVarsType
  <2> QED
    BY <1>1, <1>2, <2>1, Updated DEF TLCVarsType
<1>5. acked' \subseteq TLCAcks
  <2>1. o # n => [from |-> n, to |-> o, id |-> msg.id] \in TLCAcks
    BY <1>3 DEF TLCAcks
  <2> QED
    BY <1>1, <1>2, <2>1 DEF AckTLC
<1>6. CASE UNCHANGED <<early, reported, stage>>
  <2>1. TLCVarsType'
    BY <1>1, <1>2, <1>4, <1>6 DEF TLCVarsType
  <2> QED
    BY <1>1, <1>5, <1>6, <2>1, SameTypes, TypePartsNext
<1>7. CASE /\ early' = [early EXCEPT ![n][o] = @ \ {msg.id}]
           /\ reported' = [reported EXCEPT ![n][o] = @ \cup {msg.id}]
           /\ stage' = [stage EXCEPT ![n][Worker] = "check"]
  <2>1. /\ early[n][o] \ {msg.id} \in SUBSET IDs
        /\ reported[n][o] \cup {msg.id} \in SUBSET IDs
    BY <1>2, <1>3 DEF TLCVarsType
  <2>2. /\ early' = [early EXCEPT ![n][o] = early[n][o] \ {msg.id}]
        /\ reported' = [reported EXCEPT ![n][o] = reported[n][o] \cup {msg.id}]
    BY <1>7
  <2>3. /\ early' \in [Nodes -> [Nodes -> SUBSET IDs]]
        /\ reported' \in [Nodes -> [Nodes -> SUBSET IDs]]
    BY <1>2, <2>1, <2>2, Updated DEF TLCVarsType
  <2>4. TLCVarsType'
    BY <1>1, <1>2, <1>4, <2>3 DEF TLCVarsType
  <2>5. Worker \in Callers /\ "check" \in Stages
    BY DEF Callers, Stages
  <2>6. stage' \in [Nodes -> [Callers -> Stages]]
    BY <1>7, <2>5, StageType
  <2> QED
    BY <1>1, <1>5, <2>4, <2>6, SameTypes, TypePartsNext
<1> QED
  BY <1>6, <1>7 DEF TLCInRound

LEMMA TypeEarly ==
  ASSUME TypeOK, NEW n \in Nodes, NEW o \in Nodes, NEW msg \in published[o],
         EarlyConfirmation(n, o, msg)
  PROVE  TypeOK'
<1>1. /\ early' = [early EXCEPT ![n][o] = early[n][o] \cup {msg.of}]
      /\ msg.of # 0
      /\ UNCHANGED <<known, confirmed, reported>>
      /\ UNCHANGED <<messages, acked, roundVars, ackVars, stage, bounds, panicked>>
  BY DEF EarlyConfirmation
<1>2. TLCVarsType
  BY TypeParts
<1>3. early[n][o] \cup {msg.of} \in SUBSET IDs
  BY <1>1, <1>2, MessageType DEF TLCVarsType
<1>4. TLCVarsType'
  BY <1>1, <1>2, <1>3, Updated DEF TLCVarsType
<1> QED
  BY <1>1, <1>4, SameTypes, TypePartsNext

LEMMA TypeConfirmation ==
  ASSUME TypeOK, NEW n \in Nodes, NEW o \in Nodes, NEW msg \in published[o],
         Confirmation(n, o, msg)
  PROVE  TypeOK'
<1>1. /\ confirmed' = [confirmed EXCEPT ![n][o] = confirmed[n][o] \cup {msg.of}]
      /\ reported' = [reported EXCEPT ![n][o] = reported[n][o] \cup {msg.of}]
      /\ stage' = [stage EXCEPT ![n][Worker] = Advancing(Worker)]
      /\ msg.of # 0
      /\ UNCHANGED <<known, early>>
      /\ UNCHANGED <<messages, acked, roundVars, ackVars, bounds, panicked>>
  BY DEF Confirmation
<1>2. TLCVarsType
  BY TypeParts
<1>3. /\ confirmed[n][o] \cup {msg.of} \in SUBSET IDs
      /\ reported[n][o] \cup {msg.of} \in SUBSET IDs
  BY <1>1, <1>2, MessageType DEF TLCVarsType
<1>4. TLCVarsType'
  BY <1>1, <1>2, <1>3, Updated DEF TLCVarsType
<1>5. stage' \in [Nodes -> [Callers -> Stages]]
  <2>1. Worker \in Callers
    BY DEF Callers
  <2> QED
    BY <1>1, <2>1, StageType
<1> QED
  BY <1>1, <1>4, <1>5, SameTypes, TypePartsNext

LEMMA TypeNext == TypeOK /\ [Next]_vars => TypeOK'
<1> SUFFICES ASSUME TypeOK, [Next]_vars PROVE TypeOK'
  OBVIOUS
<1>1. CASE UNCHANGED vars
  BY <1>1, SameTypes, TypePartsNext DEF vars
<1>2. ASSUME NEW n \in Nodes, NEW k \in Callers, IncrementMytime(n, k)
      PROVE  TypeOK'
  BY <1>2, TypeCount, TypeLength, TypeCheck, TypeAdd, TypeClose, TypeStart, TypeNotify
  DEF IncrementMytime
<1>3. ASSUME NEW n \in Nodes, NEW o \in Nodes, NEW msg \in published[o],
             TLCArrives(n, o, msg)
      PROVE  TypeOK'
  BY <1>3, TypeOutOfRound, TypeInRound, TypeEarly, TypeConfirmation DEF TLCArrives
<1> QED
  BY <1>1, <1>2, <1>3, TypeEx2, TypeNow, TypeLater, TypeOther, TypeReleased,
     TypeRemoveEntry, TypeRemoveChannel, TypeCollect, TypeConfirm, TypeAckArrives DEF Next

(* Type correctness, for any number of nodes, files and rumors: among the   *)
(* rest, the entry of gossipWithConf that incrementMytime is sending the    *)
(* round to stays in its place and keeps its channel until it has the       *)
(* round, whoever lists files or is released meanwhile                      *)
(* (blockchain.go:258-268, 361-371), and no node acknowledges a message of  *)
(* its own.                                                                *)
THEOREM TypesOK == Spec => []TypeOK
BY TypeInit, TypeNext, PTL DEF Spec
=============================================================================
