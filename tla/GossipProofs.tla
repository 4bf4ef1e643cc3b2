---------------------------- MODULE GossipProofs ----------------------------
(***************************************************************************)
(* Proofs about Gossip, for any nodes, peers, authors, clocks and bounds.  *)
(***************************************************************************)
EXTENDS Gossip, OnePassProofs, SequenceTheorems, TLAPS

-----------------------------------------------------------------------------
(* Lemmas about the operators Gossip is built from. *)

(* Appending an ID to a list adds it to the IDs of the list, and nothing    *)
(* else.                                                                   *)
LEMMA IDsAppend ==
  ASSUME NEW list \in Seq(1 .. MaxID), NEW id \in 1 .. MaxID
  PROVE  IDs(Append(list, id)) = IDs(list) \cup {id}
<1>1. DOMAIN Append(list, id) = DOMAIN list \cup {Len(list) + 1}
  OBVIOUS
<1>2. \A i \in DOMAIN list : Append(list, id)[i] = list[i]
  OBVIOUS
<1>3. Append(list, id)[Len(list) + 1] = id
  OBVIOUS
<1> QED
  BY <1>1, <1>2, <1>3, Zenon DEF IDs

(* Storing a rumor of o at n changes what is held there by that rumor only. *)
LEMMA HeldAfterStore ==
  ASSUME TypeOK, NEW n \in Nodes, NEW o \in Nodes, NEW id \in 1 .. MaxID,
         rumors' = [rumors EXCEPT ![n][o] = Append(@, id)]
  PROVE  /\ Held(n, o)' = Held(n, o) \cup {id}
         /\ \A m, q \in Nodes : (m # n \/ q # o) => Held(m, q)' = Held(m, q)
<1>1. rumors[n][o] \in Seq(1 .. MaxID)
  BY DEF TypeOK
<1>2. rumors'[n][o] = Append(rumors[n][o], id)
  BY DEF TypeOK
<1>3. \A m, q \in Nodes : (m # n \/ q # o) => rumors'[m][q] = rumors[m][q]
  BY DEF TypeOK
<1>4. IDs(Append(rumors[n][o], id)) = IDs(rumors[n][o]) \cup {id}
  BY <1>1, IDsAppend
<1> QED
  BY <1>2, <1>3, <1>4 DEF Held

(* What a node stored of an origin is a sequence of IDs. *)
LEMMA RumorsType ==
  ASSUME TypeOK, NEW n \in Nodes, NEW o \in Nodes
  PROVE  rumors[n][o] \in Seq(1 .. MaxID)
BY DEF TypeOK

(* The pass over them never lowers NextID. *)
LEMMA PassType ==
  ASSUME TypeOK, NEW n \in Nodes, NEW o \in Nodes, NEW from \in Nat
  PROVE  OnePass(rumors[n][o], from) \in Nat /\ from <= OnePass(rumors[n][o], from)
<1>1. rumors[n][o] \in Seq(1 .. MaxID) /\ 1 .. MaxID \subseteq Nat
  BY RumorsType
<1>2. rumors[n][o] \in Seq(Nat)
  BY <1>1, SeqMonotonic
<1> QED
  BY <1>2, OnePassRises

(* When none is stored twice, it raises NextID as far as they are in order. *)
LEMMA PassOfStored ==
  ASSUME TypeOK, StoredOnce, NEW n \in Nodes, NEW o \in Nodes, NEW from \in Nat
  PROVE  /\ Raises(rumors[n][o], from, OnePass(rumors[n][o], from))
         /\ ~ Raises(rumors[n][o], from, OnePass(rumors[n][o], from) + 1)
<1>1. rumors[n][o] \in Seq(1 .. MaxID) /\ 1 .. MaxID \subseteq Nat
  BY RumorsType
<1>2. rumors[n][o] \in Seq(Nat)
  BY <1>1, SeqMonotonic
<1>3. \A i, j \in DOMAIN rumors[n][o] : rumors[n][o][i] = rumors[n][o][j] => i = j
  BY DEF StoredOnce
<1> QED
  BY <1>2, <1>3, OnePassFurthest

(* The IDs a node holds are IDs of rumors. *)
LEMMA HeldType ==
  ASSUME TypeOK, NEW n \in Nodes, NEW o \in Nodes
  PROVE  Held(n, o) \subseteq 1 .. MaxID
<1> DEFINE S == 1 .. MaxID
           list == rumors[n][o]
<1>1. list \in Seq(S)
  BY RumorsType
<1> HIDE DEF S, list
<1>2. \A i \in DOMAIN list : list[i] \in S
  BY <1>1
<1> QED
  BY <1>2 DEF Held, IDs, S, list

(* A packet in flight is a rumor or a status, and its kind tells which.     *)
LEMMA PacketType ==
  ASSUME TypeOK, NEW p \in net
  PROVE  /\ p.kind = "rumor" => p \in RumorPacket
         /\ p.kind = "status" => p \in StatusPacket
         /\ p.from \in Nodes
         /\ p.want \in [Nodes -> Nat]
BY DEF TypeOK, RumorPacket, StatusPacket

(* What gossipWorker handles as a rumor is one.                             *)
LEMMA TakenType ==
  ASSUME TypeOK, NEW n \in Nodes, NEW p \in net \cup arrived[n], RumorArrives(n, p)
  PROVE  /\ p \in RumorPacket /\ p.from \in Nodes /\ p.want \in [Nodes -> Nat]
         /\ p.rumor \in Rumor /\ p.rumor.origin \in Nodes /\ p.rumor.id \in 1 .. MaxID
         /\ p.rumor = [origin |-> p.rumor.origin, id |-> p.rumor.id]
<1>1. p \in RumorPacket
  <2>1. CASE p \in arrived[n]
    BY <2>1 DEF TypeOK
  <2>2. CASE p \notin arrived[n]
    BY <2>2, PacketType DEF RumorArrives
  <2> QED
    BY <2>1, <2>2
<1> QED
  BY <1>1 DEF RumorPacket, Rumor

(* A TLC message whose clock was handled is gone when it was handled.       *)
LEMMA TakenArrived ==
  ASSUME TypeOK, NEW n \in Nodes, NEW p, RumorArrives(n, p)
  PROVE  /\ arrived' \in [Nodes -> SUBSET RumorPacket]
         /\ arrived'[n] = {}
         /\ \A k \in Nodes : k # n => arrived'[k] = arrived[k]
BY DEF TypeOK, RumorArrives

(* A status is handled, or the clock of a rumor.                            *)
LEMMA HandledType ==
  ASSUME TypeOK, NEW n \in Nodes, NEW p \in net, StatusArrives(n, p)
  PROVE  /\ p.from \in Nodes /\ p.want \in [Nodes -> Nat]
         /\ p.kind = "status" \/ (p.kind = "rumor" /\ p.rumor \in Clocked)
         /\ arrived' \in [Nodes -> SUBSET RumorPacket]
<1>1. p.kind = "rumor" => p \in RumorPacket
  BY PacketType
<1>2. arrived' \in [Nodes -> SUBSET RumorPacket]
  <2>1. CASE arrived' = arrived
    BY <2>1 DEF TypeOK
  <2>2. CASE p \in RumorPacket /\ arrived' = [arrived EXCEPT ![n] = {p}]
    BY <2>2 DEF TypeOK
  <2> QED
    BY <1>1, <2>1, <2>2 DEF StatusArrives
<1> QED
  BY <1>2, PacketType DEF StatusArrives

(* Acknowledgements are about rumors. *)
LEMMA AckType ==
  ASSUME TypeOK
  PROVE  \A n, m \in Nodes : rumorsToAck[n][m] \subseteq Rumor /\ rumorsAcked[n][m] \subseteq Rumor
BY DEF TypeOK

(* The rumor in hand is a rumor, from a node. *)
LEMMA InHandType ==
  ASSUME TypeOK, NEW n \in Nodes, NEW p \in inHand[n]
  PROVE  /\ p \in RumorPacket /\ p.from \in Nodes /\ p.want \in [Nodes -> Nat]
         /\ p.rumor \in Rumor /\ p.rumor.origin \in Nodes /\ p.rumor.id \in 1 .. MaxID
<1>1. p \in RumorPacket
  BY DEF TypeOK
<1> QED
  BY <1>1 DEF RumorPacket, Rumor

(* What the sending operators build are packets.                            *)
LEMMA SentType ==
  ASSUME NEW n \in Nodes, NEW m \in Nodes, NEW want \in [Nodes -> Nat]
  PROVE  /\ \A r \in Rumor : RumorTo(n, m, r, want) \in RumorPacket
         /\ StatusTo(n, m, want) \in StatusPacket
BY DEF RumorTo, StatusTo, RumorPacket, StatusPacket

(* The clock that goes with a rumor is a status.                            *)
LEMMA ClockType ==
  ASSUME TypeOK, NEW n \in Nodes, NEW r, NEW own \in [Nodes -> Nat]
  PROVE  ClockOf(n, r, own) \in [Nodes -> Nat]
<1>1. NoStatus \in [Nodes -> Nat]
  BY DEF NoStatus
<1>2. r \in Clocked => clocks[n][r] \in [Nodes -> Nat]
  BY DEF TypeOK
<1> QED
  BY <1>1, <1>2 DEF ClockOf

(* A set of packets sent by mongering.                                      *)
LEMMA MongeringType ==
  ASSUME TypeOK, NEW n \in Nodes, NEW own \in [Nodes -> Nat],
         NEW mongered \in SUBSET (Rumor \X Nodes)
  PROVE  Mongering(n, own, mongered) \subseteq RumorPacket
<1>1. \A x \in mongered : x[1] \in Rumor /\ x[2] \in Nodes
  OBVIOUS
<1> QED
  BY <1>1, ClockType, SentType DEF Mongering

(* Recording the mongered rumors keeps the type of rumorsToAck.             *)
LEMMA StoreToAckType ==
  ASSUME TypeOK, NEW n \in Nodes, NEW left \in [Nodes -> SUBSET Rumor],
         NEW mongered \in SUBSET (Rumor \X Nodes), StoreToAck(n, left, mongered)
  PROVE  rumorsToAck' \in [Nodes -> [Nodes -> SUBSET Rumor]]
<1>1. \A x \in mongered : x[1] \in Rumor
  OBVIOUS
<1>2. \A m \in Nodes : left[m] \cup {x[1] : x \in {y \in mongered : y[2] = m}} \in SUBSET Rumor
  BY <1>1
<1>3. [m \in Nodes |-> left[m] \cup {x[1] : x \in {y \in mongered : y[2] = m}}]
        \in [Nodes -> SUBSET Rumor]
  BY <1>2
<1> QED
  BY <1>3 DEF TypeOK, StoreToAck

(* A step that sends packets keeps the type of the network.                 *)
LEMMA TransmitType ==
  ASSUME TypeOK, NEW sent \in SUBSET (RumorPacket \cup StatusPacket), Transmit(sent)
  PROVE  net' \subseteq RumorPacket \cup StatusPacket
BY DEF TypeOK, Transmit

(* What the handling of a status keeps of types: statuses only get new      *)
(* entries, rumorsToAck only loses some.                                   *)
LEMMA StatusStepType ==
  ASSUME TypeOK, NEW n \in Nodes, NEW m \in Nodes, NEW want \in [Nodes -> Nat],
         AddOrigins(n, want)
  PROVE  /\ nextID' \in [Nodes -> [Nodes -> Nat]]
         /\ \A got : Unacked(n, m, got) \in [Nodes -> SUBSET Rumor]
         /\ \A got : got \subseteq Answered(n, m, want) => got \subseteq Rumor
BY DEF TypeOK, AddOrigins, Unacked, Answered

-----------------------------------------------------------------------------
(* Type correctness. *)

(* The initial state is well typed. *)
LEMMA TypeInit == Init => TypeOK
<1> SUFFICES ASSUME Init PROVE TypeOK
  OBVIOUS
<1> USE DEF Init
<1>1. nextID \in [Nodes -> [Nodes -> Nat]]
  OBVIOUS
<1>2. rumors \in [Nodes -> [Nodes -> Seq(1 .. MaxID)]]
  OBVIOUS
<1>6. clocks \in [Nodes -> [Clocked -> [Nodes -> Nat]]]
  BY DEF NoStatus
<1>3. /\ rumorsToAck \in [Nodes -> [Nodes -> SUBSET Rumor]]
      /\ rumorsAcked \in [Nodes -> [Nodes -> SUBSET Rumor]]
  OBVIOUS
<1>4. /\ peers \in [Nodes -> SUBSET Nodes]
      /\ routingTable \in [Nodes -> [Nodes -> Nodes \cup {None}]]
  BY GossipAssumption
<1>5. /\ unstored \in [Nodes -> SUBSET (1 .. MaxID)]
      /\ arrived \in [Nodes -> SUBSET RumorPacket]
      /\ inHand \in [Nodes -> SUBSET RumorPacket]
      /\ net \subseteq RumorPacket \cup StatusPacket
  OBVIOUS
<1> QED
  BY <1>1, <1>2, <1>3, <1>4, <1>5, <1>6 DEF TypeOK

(* A publishing goroutine that takes an ID, and one that stores its rumor.  *)
LEMMA TypeTakeID ==
  ASSUME TypeOK, NEW n \in Nodes, TakeID(n)
  PROVE  TypeOK'
<1>1. nextID[n][n] \in 1 .. MaxID
  BY GossipAssumption DEF TypeOK, TakeID
<1>2. nextID' \in [Nodes -> [Nodes -> Nat]] /\ \A m \in Nodes : nextID'[m][m] # 0
  BY <1>1, GossipAssumption DEF TypeOK, TakeID
<1>3. unstored' \in [Nodes -> SUBSET (1 .. MaxID)]
  BY <1>1 DEF TypeOK, TakeID
<1> QED
  BY <1>2, <1>3 DEF TypeOK, TakeID

(* Publishing keeps the types. *)
LEMMA TypePublish ==
  ASSUME TypeOK, NEW n \in Nodes, NEW id \in unstored[n], Publish(n, id)
  PROVE  TypeOK'
<1> DEFINE r == [origin |-> n, id |-> id]
<1>1. r \in Rumor
  BY DEF TypeOK, Rumor
<1>2. rumors' \in [Nodes -> [Nodes -> Seq(1 .. MaxID)]]
  BY DEF TypeOK, Publish
<1>3. rumorsToAck' \in [Nodes -> [Nodes -> SUBSET Rumor]] /\ net' \subseteq RumorPacket \cup StatusPacket
  <2>1. CASE UNCHANGED <<rumorsToAck, net>>
    BY <2>1 DEF TypeOK
  <2>2. ASSUME NEW m \in peers[n], StoreToAck(n, rumorsToAck[n], {<<r, m>>}),
               Transmit(Mongering(n, nextID[n], {<<r, m>>}))
        PROVE  rumorsToAck' \in [Nodes -> [Nodes -> SUBSET Rumor]] /\ net' \subseteq RumorPacket \cup StatusPacket
    <3>1. {<<r, m>>} \in SUBSET (Rumor \X Nodes)
      BY <1>1 DEF TypeOK
    <3>2. rumorsToAck[n] \in [Nodes -> SUBSET Rumor] /\ nextID[n] \in [Nodes -> Nat]
      BY DEF TypeOK
    <3> HIDE DEF r
    <3> QED
      BY <2>2, <3>1, <3>2, StoreToAckType, MongeringType, TransmitType
  <2> QED
    BY <2>1, <2>2 DEF Publish
<1>4. unstored' \in [Nodes -> SUBSET (1 .. MaxID)]
  BY DEF TypeOK, Publish
<1> QED
  BY <1>2, <1>3, <1>4 DEF TypeOK, Publish

(* A rumor that is already stored, and one that is new.                     *)
LEMMA TypeKnownRumor ==
  ASSUME TypeOK, NEW n \in Nodes, NEW p \in net \cup arrived[n], HandleKnownRumor(n, p)
  PROVE  TypeOK'
<1>1. RumorArrives(n, p) /\ p.from \in Nodes /\ p.rumor.origin \in Nodes
  BY TakenType DEF HandleKnownRumor
<1>2. nextID' \in [Nodes -> [Nodes -> Nat]] /\ \A m \in Nodes : nextID'[m][m] # 0
  BY <1>1 DEF TypeOK, HandleKnownRumor, Expected
<1>3. net' \subseteq RumorPacket \cup StatusPacket
  <2>1. StatusTo(n, p.from, nextID'[n]) \in StatusPacket
    BY <1>1, <1>2, SentType
  <2>2. Transmit({StatusTo(n, p.from, nextID'[n])})
    BY DEF HandleKnownRumor
  <2> QED
    BY <2>1, <2>2, TransmitType
<1>4. peers' \in [Nodes -> SUBSET Nodes] /\ arrived' \in [Nodes -> SUBSET RumorPacket]
  BY <1>1, TakenArrived DEF TypeOK, RumorArrives, AddPeer
<1> QED
  BY <1>2, <1>3, <1>4 DEF TypeOK, HandleKnownRumor

(* The first half of handling a new rumor keeps the types. *)
LEMMA TypeNewRumor ==
  ASSUME TypeOK, NEW n \in Nodes, NEW p \in net \cup arrived[n], HandleNewRumor(n, p)
  PROVE  TypeOK'
<1>1. /\ p \in RumorPacket /\ p.from \in Nodes
      /\ p.rumor.origin \in Nodes /\ p.rumor.id \in 1 .. MaxID
      /\ RumorArrives(n, p)
  BY TakenType DEF HandleNewRumor
<1>2. PICK next \in Nat : /\ next # 0
                          /\ nextID' = [nextID EXCEPT ![n][p.rumor.origin] = next]
  <2>1. Expected(n, p.rumor.origin) \in Nat \ {0}
    BY <1>1 DEF TypeOK, Expected
  <2>2. CASE nextID' = [nextID EXCEPT ![n][p.rumor.origin] = Expected(n, p.rumor.origin)]
    BY <2>1, <2>2
  <2> DEFINE next == OnePass(rumors[n][p.rumor.origin], p.rumor.id + 1)
  <2>3. CASE nextID' = [nextID EXCEPT ![n][p.rumor.origin] = next]
    <3>1. p.rumor.id + 1 \in Nat /\ p.rumor.id + 1 > 0
      BY <1>1, GossipAssumption
    <3>2. next \in Nat /\ p.rumor.id + 1 <= next
      BY <1>1, <3>1, PassType
    <3>3. next # 0
      BY <1>1, <3>1, <3>2
    <3> HIDE DEF next
    <3> QED
      BY <2>3, <3>2, <3>3
  <2> QED
    BY <2>2, <2>3 DEF HandleNewRumor
<1>3. nextID' \in [Nodes -> [Nodes -> Nat]] /\ \A m \in Nodes : nextID'[m][m] # 0
  BY <1>1, <1>2 DEF TypeOK
<1>4. peers' \in [Nodes -> SUBSET Nodes]
  <2>1. peers' = [peers EXCEPT ![n] = @ \cup {p.from}]
    BY DEF HandleNewRumor, RumorArrives, AddPeer
  <2> QED
    BY <1>1, <2>1 DEF TypeOK
<1>5. routingTable' \in [Nodes -> [Nodes -> Nodes \cup {None}]]
  BY <1>1 DEF TypeOK, HandleNewRumor
<1>6. inHand' \in [Nodes -> SUBSET RumorPacket]
  BY <1>1 DEF TypeOK, HandleNewRumor
<1>8. arrived' \in [Nodes -> SUBSET RumorPacket]
  BY <1>1, TakenArrived
<1>7. net' \subseteq RumorPacket \cup StatusPacket
  BY TransmitType DEF HandleNewRumor
<1> QED
  BY <1>3, <1>4, <1>5, <1>6, <1>7, <1>8 DEF TypeOK, HandleNewRumor

(* So does the second half. *)
LEMMA TypeStoreRumor ==
  ASSUME TypeOK, NEW n \in Nodes, StoreRumor(n)
  PROVE  TypeOK'
<1>1. PICK p \in inHand[n], m \in peers[n] :
        /\ rumors' = [rumors EXCEPT ![n][p.rumor.origin] = Append(@, p.rumor.id)]
        /\ StoreToAck(n, rumorsToAck[n], {<<p.rumor, m>>})
        /\ StoreClock(n, p)
        /\ Transmit({StatusTo(n, p.from, nextID[n]), RumorTo(n, m, p.rumor, p.want)})
        /\ inHand' = [inHand EXCEPT ![n] = {}]
        /\ UNCHANGED <<nextID, rumorsAcked, peers, routingTable, unstored, arrived>>
  BY DEF StoreRumor
<1>3. /\ p.from \in Nodes /\ p.want \in [Nodes -> Nat] /\ m \in Nodes /\ p.rumor \in Rumor
      /\ p.rumor.origin \in Nodes /\ p.rumor.id \in 1 .. MaxID
  BY InHandType DEF TypeOK
<1>4. rumors' \in [Nodes -> [Nodes -> Seq(1 .. MaxID)]]
  <2>1. rumors[n][p.rumor.origin] \in Seq(1 .. MaxID)
    BY <1>3, RumorsType
  <2>2. Append(rumors[n][p.rumor.origin], p.rumor.id) \in Seq(1 .. MaxID)
    BY <1>3, <2>1
  <2> QED
    BY <1>1, <1>3, <2>2 DEF TypeOK
<1>5. {<<p.rumor, m>>} \in SUBSET (Rumor \X Nodes)
  BY <1>3
<1>6. rumorsToAck' \in [Nodes -> [Nodes -> SUBSET Rumor]]
  <2>1. rumorsToAck[n] \in [Nodes -> SUBSET Rumor]
    BY DEF TypeOK
  <2> QED
    BY <1>1, <1>5, <2>1, StoreToAckType
<1>7. net' \subseteq RumorPacket \cup StatusPacket
  <2>1. nextID[n] \in [Nodes -> Nat]
    BY DEF TypeOK
  <2>2. StatusTo(n, p.from, nextID[n]) \in StatusPacket
    BY <1>3, <2>1, SentType
  <2>3. RumorTo(n, m, p.rumor, p.want) \in RumorPacket
    BY <1>3, SentType
  <2> QED
    BY <1>1, <2>2, <2>3, TransmitType
<1>8. clocks' \in [Nodes -> [Clocked -> [Nodes -> Nat]]]
  <2>1. [r \in Clocked |-> IF r = p.rumor THEN p.want ELSE clocks[n][r]]
          \in [Clocked -> [Nodes -> Nat]]
    BY <1>3 DEF TypeOK
  <2> QED
    BY <1>1, <2>1 DEF TypeOK, StoreClock
<1> QED
  BY <1>1, <1>4, <1>6, <1>7, <1>8 DEF TypeOK

(* The three ways a status is handled.  They differ in what they send and   *)
(* in what becomes of rumorsAcked.                                         *)
LEMMA TypeStatus ==
  ASSUME TypeOK, NEW n \in Nodes, NEW p \in net, NEW got, NEW mongered,
         StatusArrives(n, p), AddOrigins(n, p.want),
         got \subseteq Answered(n, p.from, p.want),
         mongered \in SUBSET (Rumor \X Nodes),
         StoreToAck(n, Unacked(n, p.from, got), mongered),
         \/ StoreAcked(n, p.from, got)
         \/ rumorsAcked' = [rumorsAcked EXCEPT ![n][p.from] = {}],
         \/ Transmit(Mongering(n, nextID'[n], mongered))
         \/ Transmit({StatusTo(n, p.from, nextID'[n])}),
         UNCHANGED <<rumors, clocks, routingTable, unstored, inHand>>
  PROVE  TypeOK'
<1>1. /\ p.from \in Nodes /\ p.want \in [Nodes -> Nat]
      /\ arrived' \in [Nodes -> SUBSET RumorPacket]
  BY HandledType
<1>2. /\ nextID' \in [Nodes -> [Nodes -> Nat]]
      /\ Unacked(n, p.from, got) \in [Nodes -> SUBSET Rumor]
      /\ got \subseteq Rumor
  BY <1>1, StatusStepType
<1>3. \A m \in Nodes : nextID'[m][m] # 0
  BY <1>1 DEF TypeOK, AddOrigins
<1>4. rumorsToAck' \in [Nodes -> [Nodes -> SUBSET Rumor]]
  BY <1>2, StoreToAckType
<1>5. rumorsAcked' \in [Nodes -> [Nodes -> SUBSET Rumor]]
  <2>1. CASE StoreAcked(n, p.from, got)
    BY <1>1, <1>2, <2>1 DEF TypeOK, StoreAcked
  <2>2. CASE rumorsAcked' = [rumorsAcked EXCEPT ![n][p.from] = {}]
    BY <1>1, <2>2 DEF TypeOK
  <2> QED
    BY <2>1, <2>2
<1>6. peers' \in [Nodes -> SUBSET Nodes]
  <2>1. peers' = [peers EXCEPT ![n] = @ \cup {p.from}]
    BY DEF StatusArrives, AddPeer
  <2> QED
    BY <1>1, <2>1 DEF TypeOK
<1>7. net' \subseteq RumorPacket \cup StatusPacket
  <2>1. StatusTo(n, p.from, nextID'[n]) \in StatusPacket
    BY <1>1, <1>2, SentType
  <2>2. nextID'[n] \in [Nodes -> Nat]
    BY <1>2
  <2>3. Mongering(n, nextID'[n], mongered) \subseteq RumorPacket
    BY <2>2, MongeringType
  <2> QED
    BY <2>1, <2>3, TransmitType
<1> QED
  BY <1>1, <1>2, <1>3, <1>4, <1>5, <1>6, <1>7 DEF TypeOK

(* And handling a status, in each of its three outcomes. *)
LEMMA TypeHandleStatus ==
  ASSUME TypeOK, NEW n \in Nodes, NEW p \in net, HandleStatus(n, p)
  PROVE  TypeOK'
<1>1. p.from \in Nodes /\ p.want \in [Nodes -> Nat]
  BY HandledType DEF HandleStatus, SendMissing, AskForMissing, FlipCoins
<1>2. CASE SendMissing(n, p)
  <2>1. PICK o \in Ahead(n, p.want), got \in SUBSET Answered(n, p.from, p.want) :
          LET r == [origin |-> o, id |-> p.want[o]]
              mongered == IF Holds(n, r) THEN {<<r, p.from>>} ELSE {}
          IN
          /\ StoreAcked(n, p.from, got)
          /\ StoreToAck(n, Unacked(n, p.from, got), mongered)
          /\ Transmit(Mongering(n, nextID'[n], mongered))
    BY <1>2 DEF SendMissing
  <2> DEFINE r == [origin |-> o, id |-> p.want[o]]
             mongered == IF Holds(n, r) THEN {<<r, p.from>>} ELSE {}
  <2>2. Holds(n, r) => r \in Rumor
    <3>1. o \in Nodes
      BY DEF Ahead, Common, Listed
    <3>2. \A id \in Held(n, o) : id \in 1 .. MaxID
      BY <3>1, HeldType
    <3> QED
      BY <3>1, <3>2 DEF Holds, Rumor
  <2>3. mongered \in SUBSET (Rumor \X Nodes)
    BY <1>1, <2>2
  <2> HIDE DEF r, mongered
  <2>4. /\ StoreAcked(n, p.from, got)
        /\ StoreToAck(n, Unacked(n, p.from, got), mongered)
        /\ Transmit(Mongering(n, nextID'[n], mongered))
    BY <2>1 DEF r, mongered
  <2> QED
    BY <1>2, <2>3, <2>4, TypeStatus DEF SendMissing
<1>3. CASE AskForMissing(n, p)
  BY <1>3, TypeStatus DEF AskForMissing
<1>4. CASE FlipCoins(n, p)
  <2>1. PICK got \in SUBSET Answered(n, p.from, p.want) :
          /\ rumorsAcked' = [rumorsAcked EXCEPT ![n][p.from] = {}]
          /\ \E mongered \in SUBSET
                 ({r \in got \cup rumorsAcked[n][p.from] : Holds(n, r)} \X peers'[n]) :
               /\ StoreToAck(n, Unacked(n, p.from, got), mongered)
               /\ Transmit(Mongering(n, nextID'[n], mongered))
    BY <1>4, Zenon DEF FlipCoins
  <2>2. PICK mongered \in SUBSET
               ({r \in got \cup rumorsAcked[n][p.from] : Holds(n, r)} \X peers'[n]) :
          /\ StoreToAck(n, Unacked(n, p.from, got), mongered)
          /\ Transmit(Mongering(n, nextID'[n], mongered))
    BY <2>1
  <2>3. got \cup rumorsAcked[n][p.from] \subseteq Rumor
    BY <1>1 DEF TypeOK, Answered
  <2>4. peers'[n] \subseteq Nodes
    BY <1>1, <1>4 DEF TypeOK, FlipCoins, StatusArrives, AddPeer
  <2>5. mongered \in SUBSET (Rumor \X Nodes)
    BY <2>3, <2>4
  <2> QED
    BY <1>4, <2>1, <2>2, <2>5, TypeStatus DEF FlipCoins
<1> QED
  BY <1>2, <1>3, <1>4 DEF HandleStatus

(* Taking rumors out of a row of rumorsToAck keeps its type. *)
LEMMA UnackedType ==
  ASSUME TypeOK, NEW n \in Nodes, NEW m \in Nodes, NEW got
  PROVE  Unacked(n, m, got) \in [Nodes -> SUBSET Rumor]
<1>1. rumorsToAck[n] \in [Nodes -> SUBSET Rumor]
  BY DEF TypeOK
<1>2. rumorsToAck[n][m] \ got \in SUBSET Rumor
  BY <1>1
<1> QED
  BY <1>1, <1>2 DEF Unacked

(* The tickers. *)
LEMMA TypeTickers ==
  ASSUME TypeOK, NEW n \in Nodes, NEW m \in Nodes
  PROVE  /\ \A r \in Rumor : AckTimeout(n, m, r) => TypeOK'
         /\ AntiEntropy(n, m) => TypeOK'
<1>1. ASSUME NEW r \in Rumor, AckTimeout(n, m, r) PROVE TypeOK'
  <2>1. PICK k \in peers[n] :
          /\ StoreToAck(n, Unacked(n, m, {r}), {<<r, k>>})
          /\ Transmit(Mongering(n, nextID[n], {<<r, k>>}))
    BY <1>1 DEF AckTimeout
  <2>2. Unacked(n, m, {r}) \in [Nodes -> SUBSET Rumor]
    BY UnackedType
  <2>3. {<<r, k>>} \in SUBSET (Rumor \X Nodes) /\ nextID[n] \in [Nodes -> Nat]
    BY DEF TypeOK
  <2>4. /\ rumorsToAck' \in [Nodes -> [Nodes -> SUBSET Rumor]]
        /\ net' \subseteq RumorPacket \cup StatusPacket
    BY <2>1, <2>2, <2>3, StoreToAckType, MongeringType, TransmitType
  <2> QED
    BY <1>1, <2>4 DEF TypeOK, AckTimeout
<1>2. ASSUME AntiEntropy(n, m) PROVE TypeOK'
  <2>1. nextID[n] \in [Nodes -> Nat]
    BY DEF TypeOK
  <2>2. net' \subseteq RumorPacket \cup StatusPacket
    BY <1>2, <2>1, SentType, TransmitType DEF AntiEntropy
  <2> QED
    BY <1>2, <2>2 DEF TypeOK, AntiEntropy
<1> QED
  BY <1>1, <1>2

(* A step that only makes a node know one more peer: AddNode, and what the  *)
(* packets of other components do to Gossip.                               *)
PeerStep(n, m) ==
  /\ AddPeer(n, m)
  /\ UNCHANGED <<nextID, rumors, clocks, rumorsToAck, rumorsAcked, routingTable,
                 unstored, arrived, inHand, net>>

LEMMA TypePeerStep ==
  ASSUME TypeOK, NEW n \in Nodes, NEW m \in Nodes, PeerStep(n, m)
  PROVE  TypeOK'
<1>1. peers' \in [Nodes -> SUBSET Nodes]
  BY DEF TypeOK, PeerStep, AddPeer
<1> QED
  BY <1>1 DEF TypeOK, PeerStep

(* The web server adds nodes. *)
LEMMA AddNodeIsPeerStep ==
  ASSUME NEW n, NEW m, AddNode(n, m)
  PROVE  PeerStep(n, m)
BY DEF AddNode, PeerStep

(* Every step keeps the types. *)
LEMMA TypeNext == TypeOK /\ [Next]_vars => TypeOK'
<1> SUFFICES ASSUME TypeOK, [Next]_vars PROVE TypeOK'
  OBVIOUS
<1>1. CASE UNCHANGED vars
  BY <1>1 DEF TypeOK, vars
<1>2. CASE Next
  BY <1>2, TypeTakeID, TypePublish, TypeKnownRumor, TypeNewRumor, TypeStoreRumor,
     TypeHandleStatus, TypeTickers, TypePeerStep, AddNodeIsPeerStep DEF Next, HandleRumor
<1> QED
  BY <1>1, <1>2

(* Every reachable state has the types TypeOK gives it.                     *)
THEOREM TypeCorrect == Spec => []TypeOK
  BY TypeInit, TypeNext, PTL DEF Spec

-----------------------------------------------------------------------------
(* The inductive invariant. *)

(* NextID is a number, *)
LEMMA NextIDType ==
  ASSUME TypeOK
  PROVE  \A n, o \in Nodes : nextID[n][o] \in Nat
BY DEF TypeOK

(* after a step too. *)
LEMMA NextIDTypeAfter ==
  ASSUME TypeOK'
  PROVE  \A n, o \in Nodes : nextID'[n][o] \in Nat
BY DEF TypeOK

(* No step lowers a NextID or forgets a rumor, so what packets and          *)
(* acknowledgements claim stays true.                                      *)
Grows ==
  \A n, o \in Nodes : /\ nextID[n][o] <= nextID'[n][o]
                      /\ Held(n, o) \subseteq Held(n, o)'

(* A rumor that is held stays held. *)
LEMMA HoldsGrows ==
  ASSUME Grows, NEW n \in Nodes, NEW r \in Rumor, Holds(n, r)
  PROVE  Holds(n, r)'
BY DEF Grows, Holds, Rumor

(* Once a TLC message with a clock is published, there is one for ever.     *)
LEMMA ClocksStay ==
  ASSUME Grows
  PROVE  NoClocks' => NoClocks
<1> SUFFICES ASSUME NEW r \in Clocked, Holds(r.origin, r) PROVE Holds(r.origin, r)'
  BY DEF NoClocks
<1>1. r \in Rumor /\ r.origin \in Nodes
  BY GossipAssumption DEF Rumor
<1> QED
  BY <1>1, HoldsGrows

(* A packet is right if it shows what its sender has, and no status or      *)
(* clock it carries is ahead of the origins.                               *)
Right(p) == PacketOK(p) /\ \A o \in Nodes : p.want[o] <= nextID[o][o]

(* Packets that are right stay right, and so does the network if those that *)
(* are sent are.                                                           *)
LEMMA PacketsStayOK ==
  ASSUME TypeOK, TypeOK', Grows, \A p \in net : PacketOK(p), StatusBounded,
         NEW sent, Transmit(sent), \A p \in sent : Right(p)'
  PROVE  \A p \in net' : Right(p)'
<1>1. ASSUME NEW p \in net PROVE Right(p)'
  <2>1. p.from \in Nodes /\ p.want \in [Nodes -> Nat]
    BY PacketType
  <2>2. ASSUME p.kind = "rumor" PROVE Holds(p.from, p.rumor)'
    <3>1. p.rumor \in Rumor
      BY <2>2, PacketType DEF RumorPacket
    <3>2. Holds(p.from, p.rumor)
      BY <2>2 DEF PacketOK
    <3> QED
      BY <2>1, <3>1, <3>2, HoldsGrows
  <2>3. ASSUME NEW o \in Nodes, NEW m \in Nodes, p.want[o] <= nextID[m][o]
        PROVE  p.want[o] <= nextID'[m][o]
    <3>1. nextID[m][o] <= nextID'[m][o]
      BY DEF Grows
    <3>2. nextID[m][o] \in Nat /\ nextID'[m][o] \in Nat /\ p.want[o] \in Nat
      BY <2>1 DEF TypeOK
    <3> QED
      BY <2>3, <3>1, <3>2
  <2>4. p.kind = "status" => \A o \in Nodes : p.want[o] <= nextID'[p.from][o]
    BY <2>1, <2>3 DEF PacketOK
  <2>5. \A o \in Nodes : p.want[o] <= nextID'[o][o]
    BY <2>3 DEF StatusBounded
  <2> QED
    BY <2>2, <2>4, <2>5 DEF Right, PacketOK
<1>2. net' \subseteq net \cup sent
  BY DEF Transmit
<1> QED
  BY <1>1, <1>2

(* The clock that goes with a rumor is not ahead of the origins.            *)
LEMMA ClockBounded ==
  ASSUME TypeOK, TypeOK', Grows, ClocksOK, NEW n \in Nodes, NEW r,
         NEW own \in [Nodes -> Nat], \A o \in Nodes : own[o] <= nextID'[o][o], NEW o \in Nodes
  PROVE  ClockOf(n, r, own)[o] <= nextID'[o][o]
<1>1. nextID[o][o] \in Nat /\ nextID'[o][o] \in Nat /\ nextID[o][o] <= nextID'[o][o]
  BY DEF TypeOK, Grows
<1>2. NoStatus[o] <= nextID'[o][o]
  BY <1>1 DEF NoStatus
<1>3. ASSUME r \in Clocked PROVE clocks[n][r][o] <= nextID'[o][o]
  <2>1. clocks[n][r][o] \in Nat
    BY <1>3 DEF TypeOK
  <2>2. clocks[n][r][o] <= nextID[o][o]
    BY <1>3 DEF ClocksOK
  <2> QED
    BY <1>1, <2>1, <2>2
<1> QED
  BY <1>2, <1>3 DEF ClockOf

(* Mongered packets carry rumors their sender holds.                        *)
LEMMA MongeringOK ==
  ASSUME TypeOK, TypeOK', Grows, ClocksOK, NEW n \in Nodes, NEW own \in [Nodes -> Nat],
         \A o \in Nodes : own[o] <= nextID'[o][o],
         NEW mongered, \A x \in mongered : Holds(n, x[1])'
  PROVE  \A p \in Mongering(n, own, mongered) : Right(p)'
<1> SUFFICES ASSUME NEW x \in mongered, NEW p, p = RumorTo(n, x[2], x[1], ClockOf(n, x[1], own))
             PROVE  Right(p)'
  BY DEF Mongering
<1>1. p.kind = "rumor" /\ p.from = n /\ p.rumor = x[1] /\ p.want = ClockOf(n, x[1], own)
  BY DEF RumorTo
<1>2. \A o \in Nodes : p.want[o] <= nextID'[o][o]
  BY <1>1, ClockBounded
<1> QED
  BY <1>1, <1>2 DEF Right, PacketOK

(* A status that is sent is its sender's. *)
LEMMA StatusToOK ==
  ASSUME TypeOK', NEW n \in Nodes, NEW m, NEW p, p = StatusTo(n, m, nextID'[n]),
         \A o \in Nodes : nextID'[n][o] <= nextID'[o][o]
  PROVE  Right(p)'
<1>1. \A o \in Nodes : nextID'[n][o] <= nextID'[n][o]
  BY NextIDTypeAfter
<1>2. p.kind = "status" /\ p.from = n /\ p.want = nextID'[n]
  BY DEF StatusTo
<1> QED
  BY <1>1, <1>2 DEF Right, PacketOK

(* Packets that are right are bounded by the status of the origins.         *)
LEMMA PacketsBounded ==
  ASSUME \A n, o \in Nodes : nextID'[n][o] <= nextID'[o][o],
         \A p \in net' : Right(p)'
  PROVE  StatusBounded' /\ \A p \in net' : PacketOK(p)'
BY DEF StatusBounded, Right

(* What gossipWorker takes is right, so what it keeps of it is.             *)
LEMMA ClocksStayOK ==
  ASSUME TypeOK, TypeOK', Grows, ClocksOK, StatusBounded, UNCHANGED clocks,
         \A k \in Nodes : \A p \in arrived'[k] \cup inHand'[k] :
           p \in arrived[k] \cup inHand[k] \cup net
  PROVE  ClocksOK'
<1> SUFFICES ASSUME NEW k \in Nodes, NEW o \in Nodes
             PROVE  /\ \A p \in arrived'[k] \cup inHand'[k] : p.want[o] <= nextID'[o][o]
                    /\ \A r \in Clocked : clocks[k][r][o] <= nextID'[o][o]
  BY DEF ClocksOK
<1>1. nextID[o][o] \in Nat /\ nextID'[o][o] \in Nat /\ nextID[o][o] <= nextID'[o][o]
  BY DEF TypeOK, Grows
<1>2. ASSUME NEW p \in arrived'[k] \cup inHand'[k] PROVE p.want[o] <= nextID'[o][o]
  <2>1. p \in RumorPacket
    BY DEF TypeOK
  <2>2. p.want[o] \in Nat
    BY <2>1 DEF RumorPacket
  <2>3. p.want[o] <= nextID[o][o]
    BY DEF ClocksOK, StatusBounded
  <2> QED
    BY <1>1, <2>2, <2>3
<1>3. ASSUME NEW r \in Clocked PROVE clocks[k][r][o] <= nextID'[o][o]
  <2>1. clocks[k][r][o] \in Nat /\ clocks[k][r][o] <= nextID[o][o]
    BY DEF TypeOK, ClocksOK
  <2> QED
    BY <1>1, <2>1
<1> QED
  BY <1>2, <1>3

(* The acknowledgement state stays right when what is added to it is.       *)
LEMMA AcksStayOK ==
  ASSUME TypeOK, TypeOK', Grows, AcksOK,
         \A n, m \in Nodes : \A r \in rumorsToAck'[n][m] :
           r \in rumorsToAck[n][m] \/ Holds(n, r)',
         \A n, m \in Nodes : \A r \in rumorsAcked'[n][m] :
           r \in rumorsAcked[n][m]
             \/ (Holds(n, r)' /\ (NoClocks' => r.id <= nextID'[m][r.origin]))
  PROVE  AcksOK'
<1>1. ASSUME NEW n \in Nodes, NEW m \in Nodes, NEW r \in rumorsToAck'[n][m]
      PROVE  Holds(n, r)'
  <2>1. r \in Rumor
    BY DEF TypeOK
  <2> QED
    BY <2>1, HoldsGrows DEF AcksOK
<1>2. ASSUME NEW n \in Nodes, NEW m \in Nodes, NEW r \in rumorsAcked'[n][m]
      PROVE  Holds(n, r)' /\ (NoClocks' => r.id <= nextID'[m][r.origin])
  <2>1. r \in Rumor
    BY DEF TypeOK
  <2>2. r.id \in Nat /\ r.origin \in Nodes
    BY <2>1, GossipAssumption DEF Rumor
  <2>3. nextID[m][r.origin] \in Nat /\ nextID'[m][r.origin] \in Nat
    BY <2>2, NextIDType, NextIDTypeAfter
  <2>4. nextID[m][r.origin] <= nextID'[m][r.origin]
    BY <2>2 DEF Grows
  <2>5. CASE r \in rumorsAcked[n][m]
    <3>1. Holds(n, r) /\ (NoClocks => r.id <= nextID[m][r.origin])
      BY <2>5 DEF AcksOK
    <3> QED
      BY <2>1, <2>2, <2>3, <2>4, <3>1, HoldsGrows, ClocksStay
  <2> QED
    BY <2>5
<1> QED
  BY <1>1, <1>2 DEF AcksOK

(* What is in rumorsToAck after rumormongering was left there or mongered.  *)
LEMMA StoreToAckAdds ==
  ASSUME TypeOK, NEW n \in Nodes, NEW left, NEW mongered,
         \A m \in Nodes : left[m] \subseteq rumorsToAck[n][m],
         \A x \in mongered : Holds(n, x[1])',
         StoreToAck(n, left, mongered)
  PROVE  \A k, m \in Nodes : \A r \in rumorsToAck'[k][m] :
           r \in rumorsToAck[k][m] \/ Holds(k, r)'
<1> DEFINE row == [m \in Nodes |-> left[m] \cup {x[1] : x \in {y \in mongered : y[2] = m}}]
<1>1. rumorsToAck' = [rumorsToAck EXCEPT ![n] = row]
  BY DEF StoreToAck
<1>2. rumorsToAck'[n] = row /\ \A k \in Nodes : k # n => rumorsToAck'[k] = rumorsToAck[k]
  BY <1>1 DEF TypeOK
<1>3. ASSUME NEW m \in Nodes, NEW r \in row[m] PROVE r \in rumorsToAck[n][m] \/ Holds(n, r)'
  BY <1>3
<1> QED
  BY <1>2, <1>3

(* NextID changes at most by listing new origins. *)
Lists ==
  \A n, o \in Nodes :
    nextID'[n][o] = nextID[n][o] \/ (nextID[n][o] = 0 /\ nextID'[n][o] = 1)

(* gossipWorker handled the clock of a TLC message, if it did anything, and *)
(* has nothing in hand.                                                    *)
Takes ==
  \A k \in Nodes : \A p \in arrived'[k] :
    p \in arrived[k] \/ (p \in net /\ p.kind = "rumor" /\ inHand[k] = {})

(* A step that stores no rumor and at most lists new origins keeps the      *)
(* invariant if what it sends and acknowledges is right.                   *)
LEMMA QuietStep ==
  ASSUME IInv, TypeOK', Lists, Takes,
         UNCHANGED <<rumors, clocks, routingTable, unstored, inHand>>,
         \A p \in net' : Right(p)', AcksOK'
  PROVE  IInv'
<1> USE DEF IInv
<1>1. \A n, o \in Nodes : nextID[n][o] \in Nat /\ nextID'[n][o] \in Nat
  BY NextIDType, NextIDTypeAfter
<1>2. \A n, o \in Nodes : Held(n, o)' = Held(n, o)
  BY DEF Held
<1>3. \A n, o \in Nodes : \A id : Counted(n, o, id)' <=> Counted(n, o, id)
  BY <1>2 DEF Counted
<1>4. \A n, o \in Nodes : nextID[n][o] # 0 => nextID'[n][o] = nextID[n][o]
  BY DEF Lists
<1>5. \A n \in Nodes : nextID'[n][n] = nextID[n][n] /\ nextID[n][n] # 0
  BY <1>4 DEF TypeOK
<1>6. InHandOK'
  <2> SUFFICES ASSUME NEW n \in Nodes, NEW p \in inHand[n]
               PROVE  /\ inHand[n] = {p}
                      /\ Holds(p.from, p.rumor)'
                      /\ ~ Holds(n, p.rumor)'
                      /\ p.rumor.origin # n
                      /\ routingTable[n][p.rumor.origin] # None
                      /\ nextID'[n][p.rumor.origin] # 0
    BY DEF InHandOK
  <2>1. p.rumor.origin \in Nodes /\ p.from \in Nodes
    BY InHandType
  <2>2. \A m \in Nodes : Holds(m, p.rumor)' <=> Holds(m, p.rumor)
    BY <1>2, <2>1 DEF Holds
  <2> QED
    BY <1>4, <2>1, <2>2 DEF InHandOK
<1>7. OwnOK'
  BY <1>2, <1>5 DEF OwnOK
<1>8. OriginOK'
  BY <1>2, <1>4 DEF OriginOK
<1>9. PrefixHeld'
  <2> SUFFICES ASSUME NEW n \in Nodes, NEW o \in Nodes, NEW id \in 1 .. (nextID'[n][o] - 1)
               PROVE  Counted(n, o, id)
    BY <1>3 DEF PrefixHeld
  <2>1. nextID'[n][o] = nextID[n][o]
    BY <1>1 DEF Lists
  <2> QED
    BY <2>1 DEF PrefixHeld
<1>10. StatusBounded' /\ \A p \in net' : PacketOK(p)'
  <2>1. ASSUME NEW n \in Nodes, NEW o \in Nodes PROVE nextID'[n][o] <= nextID'[o][o]
    BY <1>1, <1>5 DEF Lists, StatusBounded
  <2> QED
    BY <2>1, PacketsBounded
<1>13. ArrivedOK'
  <2> SUFFICES ASSUME NEW k \in Nodes, NEW p \in arrived'[k]
               PROVE  Holds(p.from, p.rumor)' /\ inHand[k] = {}
    BY DEF ArrivedOK
  <2>1. Holds(p.from, p.rumor) /\ inHand[k] = {}
    BY DEF Takes, ArrivedOK, PacketOK
  <2> QED
    BY <2>1 DEF Holds, Held
<1>14. ClocksOK'
  <2>1. Grows
    BY <1>1, <1>2 DEF Lists, Grows
  <2>2. \A k \in Nodes : \A p \in arrived'[k] \cup inHand'[k] :
          p \in arrived[k] \cup inHand[k] \cup net
    BY DEF Takes
  <2> QED
    BY <2>1, <2>2, ClocksStayOK
<1>11. RouteUsable'
  BY DEF RouteUsable
<1>12. StoredOnce'
  BY DEF StoredOnce
<1> QED
  BY <1>6, <1>7, <1>8, <1>9, <1>10, <1>11, <1>12, <1>13, <1>14

(* The same step leaves statuses bounded, and what it mongers is right.     *)
LEMMA QuietBounds ==
  ASSUME IInv, TypeOK', Lists, UNCHANGED rumors, NEW n \in Nodes
  PROVE  /\ Grows
         /\ \A k, o \in Nodes : nextID[k][o] <= nextID'[o][o] /\ nextID'[k][o] <= nextID'[o][o]
         /\ \A own : own = nextID[n] \/ own = nextID'[n] =>
              \A mongered : (\A x \in mongered : Holds(n, x[1])') =>
                \A p \in Mongering(n, own, mongered) : Right(p)'
<1>1. \A k, o \in Nodes : nextID[k][o] \in Nat /\ nextID'[k][o] \in Nat
  BY NextIDType, NextIDTypeAfter DEF IInv
<1>2. \A o \in Nodes : nextID'[o][o] = nextID[o][o] /\ nextID[o][o] # 0
  BY DEF IInv, TypeOK, Lists
<1>3. Grows
  BY <1>1 DEF Grows, Lists, Held
<1>4. \A k, o \in Nodes : nextID[k][o] <= nextID'[o][o] /\ nextID'[k][o] <= nextID'[o][o]
  BY <1>1, <1>2 DEF IInv, StatusBounded, Lists
<1>5. nextID[n] \in [Nodes -> Nat] /\ nextID'[n] \in [Nodes -> Nat]
  BY DEF IInv, TypeOK
<1>6. ASSUME NEW own, own = nextID[n] \/ own = nextID'[n],
             NEW mongered, \A x \in mongered : Holds(n, x[1])'
      PROVE  \A p \in Mongering(n, own, mongered) : Right(p)'
  <2>1. own \in [Nodes -> Nat] /\ \A o \in Nodes : own[o] <= nextID'[o][o]
    BY <1>4, <1>5, <1>6
  <2> QED
    BY <1>3, <1>6, <2>1, MongeringOK DEF IInv
<1> QED
  BY <1>3, <1>4, <1>6

(* The same, from what the step sends and adds to the acknowledgements.     *)
LEMMA QuietSend ==
  ASSUME IInv, TypeOK', Lists, Takes,
         UNCHANGED <<rumors, clocks, routingTable, unstored, inHand>>,
         NEW sent,
         \A k, m \in Nodes : \A r \in rumorsToAck'[k][m] :
           r \in rumorsToAck[k][m] \/ Holds(k, r)',
         \A k, m \in Nodes : \A r \in rumorsAcked'[k][m] :
           r \in rumorsAcked[k][m]
             \/ (Holds(k, r) /\ (NoClocks' => r.id <= nextID'[m][r.origin])),
         Transmit(sent), \A p \in sent : Right(p)'
  PROVE  IInv'
<1>1. Grows
  <2>1. \A k, o \in Nodes : nextID[k][o] <= nextID'[k][o]
    BY NextIDType, NextIDTypeAfter DEF IInv, Lists
  <2>2. \A k, o \in Nodes : Held(k, o)' = Held(k, o)
    BY DEF Held
  <2> QED
    BY <2>1, <2>2 DEF Grows
<1>2. \A k, r : Holds(k, r)' <=> Holds(k, r)
  BY DEF Holds, Held
<1>3. \A p \in net' : Right(p)'
  BY <1>1, PacketsStayOK DEF IInv
<1>4. AcksOK'
  BY <1>1, <1>2, AcksStayOK DEF IInv
<1> QED
  BY <1>3, <1>4, QuietStep

(* The tickers, and a rumor that is already stored: nothing changes but     *)
(* what is in flight and what waits for an acknowledgement.                *)
LEMMA InvTickers ==
  ASSUME IInv, TypeOK', NEW n \in Nodes, NEW m \in Nodes
  PROVE  /\ \A r \in Rumor : AckTimeout(n, m, r) => IInv'
         /\ AntiEntropy(n, m) => IInv'
<1>1. ASSUME NEW r \in Rumor, AckTimeout(n, m, r) PROVE IInv'
  <2>1. PICK k \in peers[n] :
          /\ StoreToAck(n, Unacked(n, m, {r}), {<<r, k>>})
          /\ Transmit(Mongering(n, nextID[n], {<<r, k>>}))
    BY <1>1 DEF AckTimeout
  <2>2. Holds(n, r)
    BY <1>1 DEF IInv, AcksOK, AckTimeout
  <2>3. \A j \in Nodes : Unacked(n, m, {r})[j] \subseteq rumorsToAck[n][j]
    BY DEF IInv, TypeOK, Unacked
  <2>4. UNCHANGED <<nextID, rumors, clocks, rumorsAcked, routingTable, unstored, arrived,
                 inHand>>
    BY <1>1 DEF AckTimeout
  <2>5. Holds(n, r)'
    BY <2>2, <2>4 DEF Holds, Held
  <2>7. Lists /\ Takes
    BY <2>4 DEF Lists, Takes
  <2>6. \A p \in Mongering(n, nextID[n], {<<r, k>>}) : Right(p)'
    <3> DEFINE mongered == {<<r, k>>}
    <3>1. \A x \in mongered : Holds(n, x[1])'
      BY <2>5
    <3> HIDE DEF mongered
    <3>2. \A p \in Mongering(n, nextID[n], mongered) : Right(p)'
      BY <2>4, <2>7, <3>1, QuietBounds
    <3> QED
      BY <3>2 DEF mongered
  <2>8. \A j, i \in Nodes : \A q \in rumorsToAck'[j][i] :
          q \in rumorsToAck[j][i] \/ Holds(j, q)'
    <3> DEFINE mongered == {<<r, k>>}
    <3>1. \A x \in mongered : Holds(n, x[1])'
      BY <2>5
    <3>2. StoreToAck(n, Unacked(n, m, {r}), mongered)
      BY <2>1
    <3> HIDE DEF mongered
    <3> QED
      BY <2>3, <3>1, <3>2, StoreToAckAdds DEF IInv
  <2>9. \A a, b \in Nodes : \A q \in rumorsAcked'[a][b] : q \in rumorsAcked[a][b]
    BY <2>4
  <2> QED
    BY <2>1, <2>4, <2>6, <2>7, <2>8, <2>9, QuietSend
<1>2. ASSUME AntiEntropy(n, m) PROVE IInv'
  <2>1. /\ UNCHANGED <<nextID, rumors, clocks, rumorsToAck, rumorsAcked, routingTable,
                      unstored, arrived, inHand>>
        /\ Transmit({StatusTo(n, m, nextID[n])})
    BY <1>2 DEF AntiEntropy
  <2>3. Lists /\ Takes
    BY <2>1 DEF Lists, Takes
  <2>2. \A p \in {StatusTo(n, m, nextID[n])} : Right(p)'
    BY <2>1, <2>3, QuietBounds, StatusToOK
  <2> QED
    BY <2>1, <2>2, <2>3, QuietSend
<1> QED
  BY <1>1, <1>2

(* A new peer. *)
LEMMA InvPeerStep ==
  ASSUME IInv, NEW n \in Nodes, NEW m \in Nodes, PeerStep(n, m)
  PROVE  IInv'
<1>1. TypeOK'
  BY TypePeerStep DEF IInv
<1>2. Lists /\ Takes /\ UNCHANGED <<rumors, clocks, routingTable, unstored, inHand>>
  BY DEF PeerStep, Lists, Takes
<1>3. \A p \in net' : Right(p)'
  BY DEF IInv, PeerStep, Right, PacketOK, StatusBounded, Holds, Held
<1>4. AcksOK'
  BY DEF IInv, PeerStep, AcksOK, NoClocks, Holds, Held
<1> QED
  BY <1>1, <1>2, <1>3, <1>4, QuietStep

(* A rumor that is already stored. *)
LEMMA InvKnownRumor ==
  ASSUME IInv, TypeOK', NEW n \in Nodes, NEW p \in net \cup arrived[n], HandleKnownRumor(n, p)
  PROVE  IInv'
<1> DEFINE o == p.rumor.origin
<1>1. RumorArrives(n, p) /\ p.from \in Nodes /\ o \in Nodes
  BY TakenType DEF IInv, HandleKnownRumor
<1>2. /\ UNCHANGED <<rumors, clocks, rumorsToAck, rumorsAcked, routingTable, unstored, inHand>>
      /\ nextID' = [nextID EXCEPT ![n][o] = Expected(n, o)]
      /\ Transmit({StatusTo(n, p.from, nextID'[n])})
  BY DEF HandleKnownRumor
<1>3. Lists
  BY <1>1, <1>2 DEF Lists, Expected, IInv, TypeOK
<1>4. Takes
  BY <1>1, TakenArrived DEF IInv, Takes
<1>5. \A q \in {StatusTo(n, p.from, nextID'[n])} : Right(q)'
  BY <1>2, <1>3, QuietBounds, StatusToOK
<1> QED
  BY <1>2, <1>3, <1>4, <1>5, QuietSend

(* A status: what it acknowledges, and what is sent in return.              *)
LEMMA InvStatus ==
  ASSUME IInv, TypeOK', NEW n \in Nodes, NEW p \in net, NEW got, NEW mongered,
         StatusArrives(n, p), AddOrigins(n, p.want),
         got \subseteq Answered(n, p.from, p.want),
         \A x \in mongered : Holds(n, x[1]),
         StoreToAck(n, Unacked(n, p.from, got), mongered),
         \/ StoreAcked(n, p.from, got)
         \/ rumorsAcked' = [rumorsAcked EXCEPT ![n][p.from] = {}],
         \/ Transmit(Mongering(n, nextID'[n], mongered))
         \/ Transmit({StatusTo(n, p.from, nextID'[n])}),
         UNCHANGED <<rumors, clocks, routingTable, unstored, inHand>>
  PROVE  IInv'
<1> DEFINE m == p.from
<1>1. /\ m \in Nodes /\ p.want \in [Nodes -> Nat]
      /\ p.kind = "status" \/ (p.kind = "rumor" /\ p.rumor \in Clocked)
  BY HandledType DEF IInv
<1>2. Lists
  BY <1>1 DEF IInv, TypeOK, Lists, AddOrigins
<1>3. \A j \in Nodes : Unacked(n, m, got)[j] \subseteq rumorsToAck[n][j]
  BY <1>1 DEF IInv, TypeOK, Unacked
<1>12. Takes
  BY DEF IInv, TypeOK, StatusArrives, Idle, Takes
<1>13. ASSUME p.kind # "status" PROVE ~ NoClocks'
  <2>1. p.rumor \in Clocked /\ p.rumor \in Rumor /\ p.rumor.origin \in Nodes
    BY <1>1, <1>13, GossipAssumption DEF Rumor
  <2>2. Holds(m, p.rumor)
    BY <1>1, <1>13 DEF IInv, PacketOK
  <2>3. Holds(p.rumor.origin, p.rumor)
    BY <1>1, <2>1, <2>2 DEF IInv, OriginOK, Holds
  <2>4. Holds(p.rumor.origin, p.rumor)'
    BY <2>3 DEF Holds, Held
  <2> QED
    BY <2>1, <2>4 DEF NoClocks
<1>4. ASSUME NEW r \in got
      PROVE  Holds(n, r) /\ (NoClocks' => r.id <= nextID'[m][r.origin])
  <2>1. /\ r \in rumorsToAck[n][m]
        /\ r.origin \in Common(n, p.want)
        /\ p.want[r.origin] >= r.id
    BY DEF Answered
  <2>2. r \in Rumor
    BY <1>1, <2>1, AckType DEF IInv
  <2>3. r.origin \in Nodes /\ r.id \in Nat
    BY <2>2, GossipAssumption DEF Rumor
  <2>4. NoClocks' => p.want[r.origin] <= nextID[m][r.origin]
    BY <1>13, <2>3 DEF IInv, PacketOK
  <2>5. nextID[m][r.origin] <= nextID'[m][r.origin]
    BY <1>1, <1>2, <2>3, NextIDType, NextIDTypeAfter DEF IInv, Lists
  <2>6. /\ p.want[r.origin] \in Nat /\ nextID[m][r.origin] \in Nat
        /\ nextID'[m][r.origin] \in Nat
    BY <1>1, <2>3, NextIDType, NextIDTypeAfter DEF IInv
  <2>7. NoClocks' => r.id <= nextID'[m][r.origin]
    BY <2>1, <2>3, <2>4, <2>5, <2>6
  <2>8. Holds(n, r)
    BY <1>1, <2>1 DEF IInv, AcksOK
  <2> QED
    BY <2>7, <2>8
<1>5. \A k, j \in Nodes : \A r \in rumorsAcked'[k][j] :
        r \in rumorsAcked[k][j]
          \/ (Holds(k, r) /\ (NoClocks' => r.id <= nextID'[j][r.origin]))
  <2>1. \A k, j \in Nodes : rumorsAcked'[k][j] \subseteq
          rumorsAcked[k][j] \cup (IF k = n /\ j = m THEN got ELSE {})
    <3> rumorsAcked \in [Nodes -> [Nodes -> SUBSET Rumor]]
      BY DEF IInv, TypeOK
    <3>1. CASE StoreAcked(n, m, got)
      BY <1>1, <3>1 DEF StoreAcked
    <3>2. CASE rumorsAcked' = [rumorsAcked EXCEPT ![n][m] = {}]
      BY <1>1, <3>2
    <3> QED
      BY <3>1, <3>2
  <2> QED
    BY <1>4, <2>1
<1>6. \A x \in mongered : Holds(n, x[1])'
  BY DEF Holds, Held
<1>7. \A k, j \in Nodes : \A r \in rumorsToAck'[k][j] :
         r \in rumorsToAck[k][j] \/ Holds(k, r)'
  BY <1>3, <1>6, StoreToAckAdds DEF IInv
<1>8. \A q \in Mongering(n, nextID'[n], mongered) : Right(q)'
  BY <1>2, <1>6, QuietBounds
<1>9. \A q \in {StatusTo(n, m, nextID'[n])} : Right(q)'
  BY <1>2, QuietBounds, StatusToOK
<1> HIDE DEF m
<1>10. CASE Transmit(Mongering(n, nextID'[n], mongered))
  BY <1>2, <1>12, <1>7, <1>5, <1>8, <1>10, QuietSend
<1>11. CASE Transmit({StatusTo(n, p.from, nextID'[n])})
  BY <1>2, <1>12, <1>7, <1>5, <1>9, <1>11, QuietSend DEF m
<1> QED
  BY <1>10, <1>11

(* Handling a status keeps the invariant, in each of its three outcomes. *)
LEMMA InvHandleStatus ==
  ASSUME IInv, TypeOK', NEW n \in Nodes, NEW p \in net, HandleStatus(n, p)
  PROVE  IInv'
<1>1. CASE SendMissing(n, p)
  <2>1. PICK o \in Ahead(n, p.want), got \in SUBSET Answered(n, p.from, p.want) :
          LET r == [origin |-> o, id |-> p.want[o]]
              mongered == IF Holds(n, r) THEN {<<r, p.from>>} ELSE {}
          IN
          /\ StoreAcked(n, p.from, got)
          /\ StoreToAck(n, Unacked(n, p.from, got), mongered)
          /\ Transmit(Mongering(n, nextID'[n], mongered))
    BY <1>1 DEF SendMissing
  <2> DEFINE r == [origin |-> o, id |-> p.want[o]]
             mongered == IF Holds(n, r) THEN {<<r, p.from>>} ELSE {}
  <2>2. \A x \in mongered : Holds(n, x[1])
    OBVIOUS
  <2> HIDE DEF r, mongered
  <2>3. /\ StoreAcked(n, p.from, got)
        /\ StoreToAck(n, Unacked(n, p.from, got), mongered)
        /\ Transmit(Mongering(n, nextID'[n], mongered))
    BY <2>1 DEF r, mongered
  <2> QED
    BY <1>1, <2>2, <2>3, InvStatus DEF SendMissing
<1>2. CASE AskForMissing(n, p)
  <2>1. PICK got \in SUBSET Answered(n, p.from, p.want) :
          /\ StoreAcked(n, p.from, got)
          /\ StoreToAck(n, Unacked(n, p.from, got), {})
    BY <1>2 DEF AskForMissing
  <2> DEFINE mongered == {}
  <2>2. \A x \in mongered : Holds(n, x[1])
    OBVIOUS
  <2>3. StoreToAck(n, Unacked(n, p.from, got), mongered)
    BY <2>1
  <2> HIDE DEF mongered
  <2> QED
    BY <1>2, <2>1, <2>2, <2>3, InvStatus DEF AskForMissing
<1>3. CASE FlipCoins(n, p)
  <2>1. PICK got \in SUBSET Answered(n, p.from, p.want) :
          /\ rumorsAcked' = [rumorsAcked EXCEPT ![n][p.from] = {}]
          /\ \E mongered \in SUBSET
                 ({r \in got \cup rumorsAcked[n][p.from] : Holds(n, r)} \X peers'[n]) :
               /\ StoreToAck(n, Unacked(n, p.from, got), mongered)
               /\ Transmit(Mongering(n, nextID'[n], mongered))
    BY <1>3, Zenon DEF FlipCoins
  <2>2. PICK mongered \in SUBSET
               ({r \in got \cup rumorsAcked[n][p.from] : Holds(n, r)} \X peers'[n]) :
          /\ StoreToAck(n, Unacked(n, p.from, got), mongered)
          /\ Transmit(Mongering(n, nextID'[n], mongered))
    BY <2>1
  <2>3. \A x \in mongered : Holds(n, x[1])
    OBVIOUS
  <2> QED
    BY <1>3, <2>1, <2>2, <2>3, InvStatus DEF FlipCoins
<1> QED
  BY <1>1, <1>2, <1>3 DEF HandleStatus

(* A node publishes: OwnOK ties the IDs it takes to what it stores.         *)
LEMMA InvTakeID ==
  ASSUME IInv, TypeOK', NEW n \in Nodes, TakeID(n)
  PROVE  IInv'
<1> DEFINE id == nextID[n][n]
<1>1. id \in 1 .. MaxID
  BY GossipAssumption DEF IInv, TypeOK, TakeID
<1>2. /\ \A m, o \in Nodes : nextID[m][o] \in Nat /\ nextID'[m][o] \in Nat
      /\ nextID'[n][n] = id + 1
      /\ \A m, o \in Nodes : (m # n \/ o # n) => nextID'[m][o] = nextID[m][o]
  BY NextIDType, NextIDTypeAfter DEF IInv, TypeOK, TakeID
<1>3. /\ unstored'[n] = unstored[n] \cup {id}
      /\ \A m \in Nodes : m # n => unstored'[m] = unstored[m]
  BY DEF IInv, TypeOK, TakeID
<1>4. UNCHANGED <<rumors, clocks, rumorsToAck, rumorsAcked, peers, routingTable, arrived, inHand,
               net>>
  BY DEF TakeID
<1>5. \A m, o : Held(m, o)' = Held(m, o)
  BY <1>4 DEF Held
<1>6. \A m, r : Holds(m, r)' <=> Holds(m, r)
  BY <1>5 DEF Holds
<1> HIDE DEF id
<1>7. Grows
  BY <1>2, <1>5 DEF Grows, id
<1>8. \A p \in net' : PacketOK(p)'
  <2>1. \A p \in net : p.from \in Nodes /\ p.want \in [Nodes -> Nat]
    BY PacketType DEF IInv
  <2>2. \A m, o \in Nodes : nextID[m][o] <= nextID'[m][o]
    BY <1>7 DEF Grows
  <2> QED
    BY <1>2, <1>4, <1>6, <2>1, <2>2 DEF IInv, PacketOK
<1>9. InHandOK'
  <2>1. \A m \in Nodes : \A p \in inHand[m] : p.rumor.origin \in Nodes /\ p.rumor.origin # m
    BY InHandType DEF IInv, InHandOK
  <2> QED
    BY <1>2, <1>4, <1>6, <2>1 DEF IInv, InHandOK
<1>10. AcksOK'
  BY <1>4, <1>7, AcksStayOK DEF IInv
<1>11. OwnOK'
  BY <1>1, <1>2, <1>3, <1>5 DEF IInv, OwnOK, id
<1>12. OriginOK'
  <2>1. \A m, o \in Nodes : nextID[m][o] # 0 => nextID'[m][o] # 0
    BY <1>2 DEF id
  <2> QED
    BY <1>4, <1>5, <2>1 DEF IInv, OriginOK
<1>13. PrefixHeld'
  <2> SUFFICES ASSUME NEW m \in Nodes, NEW o \in Nodes, NEW k \in 1 .. (nextID'[m][o] - 1)
               PROVE  Counted(m, o, k)'
    BY DEF PrefixHeld
  <2>1. CASE m = n /\ o = n /\ k = id
    BY <1>3, <2>1 DEF Counted
  <2>2. CASE ~ (m = n /\ o = n /\ k = id)
    <3>1. k \in 1 .. (nextID[m][o] - 1)
      BY <1>1, <1>2, <2>2 DEF id
    <3>2. Counted(m, o, k)
      BY <3>1 DEF IInv, PrefixHeld
    <3> QED
      BY <1>3, <1>4, <1>5, <3>2 DEF Counted
  <2> QED
    BY <2>1, <2>2
<1>14. StatusBounded'
  <2>1. \A m, o \in Nodes : nextID'[m][o] <= nextID'[o][o]
    BY <1>2 DEF IInv, StatusBounded, id
  <2>2. \A p \in net : p.want \in [Nodes -> Nat]
    BY PacketType DEF IInv
  <2>3. \A o \in Nodes : nextID[o][o] <= nextID'[o][o]
    BY <1>7 DEF Grows
  <2> QED
    BY <1>2, <1>4, <2>1, <2>2, <2>3 DEF IInv, StatusBounded
<1>15. RouteUsable' /\ StoredOnce'
  BY <1>4 DEF IInv, RouteUsable, StoredOnce
<1>16. ArrivedOK' /\ ClocksOK'
  <2>1. ArrivedOK'
    BY <1>4, <1>6 DEF IInv, ArrivedOK
  <2> QED
    BY <1>4, <1>7, <2>1, ClocksStayOK DEF IInv
<1> QED
  BY <1>16, <1>8, <1>9, <1>10, <1>11, <1>12, <1>13, <1>14, <1>15 DEF IInv

(* Storing a rumor that is not stored yet, by its publisher or by           *)
(* gossipWorker.                                                           *)
LEMMA StoreStep ==
  ASSUME IInv, NEW n \in Nodes, NEW o \in Nodes, NEW id \in 1 .. MaxID,
         id \notin Held(n, o),
         rumors' = [rumors EXCEPT ![n][o] = Append(@, id)],
         UNCHANGED <<nextID, routingTable>>
  PROVE  /\ Grows
         /\ StoredOnce'
         /\ RouteUsable'
         /\ (nextID[n][o] # 0 /\ id \in Held(o, o)' /\ (n # o => routingTable[n][o] # None))
              => OriginOK'
<1> USE DEF IInv
<1>1. /\ Held(n, o)' = Held(n, o) \cup {id}
      /\ \A m, q \in Nodes : (m # n \/ q # o) => Held(m, q)' = Held(m, q)
  BY HeldAfterStore
<1>2. Grows
  <2>1. \A m, q \in Nodes : nextID[m][q] <= nextID'[m][q]
    BY NextIDType
  <2> QED
    BY <1>1, <2>1 DEF Grows
<1>3. StoredOnce'
  <2>1. rumors[n][o] \in Seq(1 .. MaxID)
    BY RumorsType
  <2>2. rumors'[n][o] = Append(rumors[n][o], id)
    BY DEF TypeOK
  <2>3. \A m, q \in Nodes : (m # n \/ q # o) => rumors'[m][q] = rumors[m][q]
    BY DEF TypeOK
  <2>4. \A i \in DOMAIN rumors[n][o] : rumors[n][o][i] # id
    BY DEF Held, IDs
  <2>5. \A i, j \in DOMAIN rumors'[n][o] :
          rumors'[n][o][i] = rumors'[n][o][j] => i = j
    <3>1. \A i, j \in DOMAIN rumors[n][o] : rumors[n][o][i] = rumors[n][o][j] => i = j
      BY DEF StoredOnce
    <3> QED
      BY <2>1, <2>2, <2>4, <3>1
  <2> QED
    BY <2>3, <2>5 DEF StoredOnce
<1>4. RouteUsable'
  BY DEF RouteUsable
<1>5. ASSUME nextID[n][o] # 0, id \in Held(o, o)', n # o => routingTable[n][o] # None
      PROVE  OriginOK'
  <2> SUFFICES ASSUME NEW m \in Nodes, NEW q \in Nodes, NEW k \in Held(m, q)'
               PROVE  /\ k \in Held(q, q)'
                      /\ nextID[m][q] # 0
                      /\ m # q => routingTable[m][q] # None
    BY DEF OriginOK
  <2>1. CASE m = n /\ q = o /\ k = id
    BY <1>5, <2>1
  <2>2. CASE k \in Held(m, q)
    <3>1. k \in Held(q, q) /\ nextID[m][q] # 0 /\ (m # q => routingTable[m][q] # None)
      BY <2>2 DEF OriginOK
    <3> QED
      BY <1>2, <3>1 DEF Grows
  <2> QED
    BY <1>1, <2>1, <2>2
<1> QED
  BY <1>2, <1>3, <1>4, <1>5

(* A publishing goroutine stores its rumor and mongers it. *)
LEMMA InvPublish ==
  ASSUME IInv, TypeOK', NEW n \in Nodes, NEW id \in unstored[n], Publish(n, id)
  PROVE  IInv'
<1> DEFINE r == [origin |-> n, id |-> id]
<1>1. id \in 1 .. MaxID
  BY DEF IInv, TypeOK
<1>2. /\ id \notin Held(n, n)
      /\ id < nextID[n][n]
  BY <1>1 DEF IInv, OwnOK
<1>3. /\ rumors' = [rumors EXCEPT ![n][n] = Append(@, id)]
      /\ unstored' = [unstored EXCEPT ![n] = @ \ {id}]
      /\ UNCHANGED <<nextID, clocks, rumorsAcked, peers, routingTable, arrived, inHand>>
  BY DEF Publish
<1>4. /\ Held(n, n)' = Held(n, n) \cup {id}
      /\ \A m, q \in Nodes : (m # n \/ q # n) => Held(m, q)' = Held(m, q)
  BY <1>1, <1>3, HeldAfterStore DEF IInv
<1>5. nextID[n][n] # 0
  BY DEF IInv, TypeOK
<1>6. Grows /\ StoredOnce' /\ RouteUsable' /\ OriginOK'
  BY <1>1, <1>2, <1>3, <1>4, <1>5, StoreStep
<1>7. Holds(n, r)'
  BY <1>4 DEF Holds
<1>8. /\ \A p \in net' : Right(p)'
      /\ AcksOK'
  <2>1. CASE UNCHANGED <<rumorsToAck, net>>
    <3>1. AcksOK'
      BY <1>3, <1>6, <2>1, AcksStayOK DEF IInv
    <3>2. \A p \in net : Right(p)'
      <4> SUFFICES ASSUME NEW p \in net PROVE Right(p)'
        OBVIOUS
      <4>1. PacketOK(p) /\ p.from \in Nodes
        BY PacketType DEF IInv
      <4>2. p.kind = "rumor" => p.rumor \in Rumor
        BY PacketType DEF IInv, RumorPacket
      <4> QED
        BY <1>3, <1>6, <4>1, <4>2, HoldsGrows DEF IInv, StatusBounded, Right, PacketOK
    <3> QED
      BY <2>1, <3>1, <3>2
  <2>2. ASSUME NEW m \in peers[n], StoreToAck(n, rumorsToAck[n], {<<r, m>>}),
               Transmit(Mongering(n, nextID[n], {<<r, m>>}))
        PROVE  (\A p \in net' : Right(p)') /\ AcksOK'
    <3> DEFINE mongered == {<<r, m>>}
    <3> HIDE DEF r
    <3>1. \A x \in mongered : Holds(n, x[1])'
      BY <1>7
    <3>2. StoreToAck(n, rumorsToAck[n], mongered) /\ Transmit(Mongering(n, nextID[n], mongered))
      BY <2>2
    <3> HIDE DEF mongered
    <3>3. \A p \in Mongering(n, nextID[n], mongered) : Right(p)'
      <4>1. nextID[n] \in [Nodes -> Nat] /\ \A o \in Nodes : nextID[n][o] <= nextID'[o][o]
        BY <1>3 DEF IInv, TypeOK, StatusBounded
      <4> QED
        BY <1>6, <3>1, <4>1, MongeringOK DEF IInv
    <3>4. \A k, j \in Nodes : \A q \in rumorsToAck'[k][j] :
            q \in rumorsToAck[k][j] \/ Holds(k, q)'
      BY <3>1, <3>2, StoreToAckAdds DEF IInv
    <3>5. AcksOK'
      BY <1>3, <1>6, <3>4, AcksStayOK DEF IInv
    <3> QED
      BY <1>6, <3>2, <3>3, <3>5, PacketsStayOK DEF IInv
  <2> QED
    BY <2>1, <2>2 DEF Publish
<1>9. InHandOK'
  <2> SUFFICES ASSUME NEW m \in Nodes, NEW p \in inHand[m]
               PROVE  /\ inHand[m] = {p}
                      /\ Holds(p.from, p.rumor)'
                      /\ ~ Holds(m, p.rumor)'
                      /\ p.rumor.origin # m
                      /\ routingTable[m][p.rumor.origin] # None
                      /\ nextID[m][p.rumor.origin] # 0
    BY <1>3 DEF InHandOK
  <2>1. p.from \in Nodes /\ p.rumor \in Rumor /\ p.rumor.origin \in Nodes
    BY InHandType DEF IInv
  <2>2. /\ inHand[m] = {p} /\ Holds(p.from, p.rumor) /\ ~ Holds(m, p.rumor)
        /\ p.rumor.origin # m /\ routingTable[m][p.rumor.origin] # None
        /\ nextID[m][p.rumor.origin] # 0
    BY DEF IInv, InHandOK
  <2>3. ~ Holds(m, p.rumor)'
    BY <1>4, <2>1, <2>2 DEF Holds
  <2> QED
    BY <1>6, <2>1, <2>2, <2>3, HoldsGrows
<1>10. OwnOK'
  <2>1. unstored'[n] = unstored[n] \ {id} /\ \A m \in Nodes : m # n => unstored'[m] = unstored[m]
    BY <1>3 DEF IInv, TypeOK
  <2> QED
    BY <1>2, <1>3, <1>4, <2>1 DEF IInv, OwnOK
<1>11. PrefixHeld'
  <2> SUFFICES ASSUME NEW m \in Nodes, NEW o \in Nodes, NEW k \in 1 .. (nextID[m][o] - 1)
               PROVE  Counted(m, o, k)'
    BY <1>3 DEF PrefixHeld
  <2>1. Counted(m, o, k)
    BY DEF IInv, PrefixHeld
  <2>2. CASE k \in Held(m, o)
    BY <1>6, <2>2 DEF Grows, Counted
  <2>3. CASE \E p \in inHand[m] : p.rumor = [origin |-> o, id |-> k]
    BY <1>3, <2>3 DEF Counted
  <2>4. CASE m = o /\ k \in unstored[m]
    <3>1. unstored'[n] = unstored[n] \ {id} /\ \A i \in Nodes : i # n => unstored'[i] = unstored[i]
      BY <1>3 DEF IInv, TypeOK
    <3> QED
      BY <1>4, <2>4, <3>1 DEF Counted
  <2> QED
    BY <2>1, <2>2, <2>3, <2>4 DEF Counted
<1>13. ArrivedOK' /\ ClocksOK'
  <2>1. ArrivedOK'
    <3> SUFFICES ASSUME NEW m \in Nodes, NEW p \in arrived[m]
                 PROVE  Holds(p.from, p.rumor)' /\ inHand[m] = {}
      BY <1>3 DEF ArrivedOK
    <3>1. p \in RumorPacket /\ Holds(p.from, p.rumor) /\ inHand[m] = {}
      BY DEF IInv, TypeOK, ArrivedOK
    <3> QED
      BY <1>6, <3>1, HoldsGrows DEF RumorPacket
  <2> QED
    BY <1>3, <1>6, <2>1, ClocksStayOK DEF IInv
<1>12. StatusBounded' /\ \A p \in net' : PacketOK(p)'
  BY <1>3, <1>8, PacketsBounded DEF IInv, StatusBounded
<1> QED
  BY <1>6, <1>8, <1>9, <1>10, <1>11, <1>12, <1>13 DEF IInv

(* gossipWorker receives a new rumor.  It is not older than NextID, since   *)
(* the node has all of those.                                              *)
LEMMA InvNewRumor ==
  ASSUME IInv, TypeOK', NEW n \in Nodes, NEW p \in net \cup arrived[n], HandleNewRumor(n, p)
  PROVE  IInv'
<1> DEFINE o  == p.rumor.origin
           id == p.rumor.id
<1>1. /\ p \in RumorPacket /\ p.from \in Nodes /\ p.rumor \in Rumor
      /\ o \in Nodes /\ id \in 1 .. MaxID /\ p.rumor = [origin |-> o, id |-> id]
      /\ RumorArrives(n, p)
  BY TakenType DEF IInv, HandleNewRumor
<1>2. /\ inHand[n] = {} /\ id \notin Held(n, o)
      /\ inHand' = [inHand EXCEPT ![n] = {p}]
      /\ UNCHANGED <<rumors, clocks, rumorsToAck, rumorsAcked, unstored>>
      /\ Transmit({})
      /\ Holds(p.from, p.rumor)
  BY <1>1 DEF IInv, ArrivedOK, PacketOK, HandleNewRumor, RumorArrives, Idle, Holds
<1>3. id \in Held(p.from, o) /\ id \in Held(o, o) /\ o # n
  <2>1. id \in Held(p.from, o)
    BY <1>2 DEF Holds
  <2> QED
    BY <1>1, <1>2, <2>1 DEF IInv, OriginOK
<1>4. nextID[n][o] \in Nat /\ id \in Nat
  BY <1>1, NextIDType, GossipAssumption DEF IInv
<1> HIDE DEF o, id
<1>5. id >= Expected(n, o)
  <2> SUFFICES ASSUME id < Expected(n, o) PROVE FALSE
    BY <1>4 DEF Expected
  <2>1. id \in 1 .. (nextID[n][o] - 1)
    BY <1>1, <1>4, GossipAssumption DEF Expected
  <2> QED
    BY <1>1, <1>2, <1>3, <2>1 DEF IInv, PrefixHeld, Counted
<1>6. routingTable' = [routingTable EXCEPT ![n][o] = p.from]
  BY <1>5 DEF HandleNewRumor, o, id
<1>7. PICK next \in Nat :
        /\ nextID' = [nextID EXCEPT ![n][o] = next]
        /\ next # 0 /\ nextID[n][o] <= next
        /\ \A k \in 1 .. (next - 1) :
             k \in 1 .. (nextID[n][o] - 1) \/ k = id \/ k \in Held(n, o)
  <2>1. CASE id = Expected(n, o)
    <3> DEFINE next == OnePass(rumors[n][o], id + 1)
    <3>1. nextID' = [nextID EXCEPT ![n][o] = next]
      BY <2>1 DEF HandleNewRumor, o, id
    <3>2. /\ next \in Nat /\ id + 1 <= next
          /\ Raises(rumors[n][o], id + 1, next)
      <4>1. TypeOK /\ StoredOnce /\ id + 1 \in Nat /\ n \in Nodes /\ o \in Nodes
        BY <1>1, <1>4 DEF IInv
      <4> QED
        BY <4>1, PassType, PassOfStored
    <3> HIDE DEF next
    <3>3. next \in Nat /\ next > id
      BY <1>4, <3>2
    <3>4. \A k \in (id + 1) .. (next - 1) : k \in Held(n, o)
      BY <3>2 DEF Raises, Held
    <3>5. next # 0 /\ nextID[n][o] <= next
      BY <1>4, <2>1, <3>3 DEF Expected
    <3>6. \A k \in 1 .. (next - 1) :
            k \in 1 .. (nextID[n][o] - 1) \/ k = id \/ k \in Held(n, o)
      BY <1>4, <2>1, <3>3, <3>4 DEF Expected
    <3> QED
      BY <3>1, <3>3, <3>5, <3>6
  <2>2. CASE id # Expected(n, o)
    <3>1. nextID' = [nextID EXCEPT ![n][o] = Expected(n, o)]
      BY <2>2 DEF HandleNewRumor, o, id
    <3>2. /\ Expected(n, o) \in Nat /\ Expected(n, o) # 0 /\ nextID[n][o] <= Expected(n, o)
          /\ \A k \in 1 .. (Expected(n, o) - 1) : k \in 1 .. (nextID[n][o] - 1)
      BY <1>4 DEF Expected
    <3> QED
      BY <3>1, <3>2
  <2> QED
    BY <2>1, <2>2
<1>8. /\ \A m, q \in Nodes : nextID[m][q] \in Nat /\ nextID'[m][q] \in Nat
      /\ nextID'[n][o] = next
      /\ \A m, q \in Nodes : (m # n \/ q # o) => nextID'[m][q] = nextID[m][q]
  BY <1>1, <1>7, NextIDType, NextIDTypeAfter DEF IInv, TypeOK
<1>9. /\ routingTable'[n][o] = p.from
      /\ \A m, q \in Nodes : (m # n \/ q # o) => routingTable'[m][q] = routingTable[m][q]
      /\ inHand'[n] = {p}
      /\ \A m \in Nodes : m # n => inHand'[m] = inHand[m]
  BY <1>1, <1>2, <1>6 DEF IInv, TypeOK
<1>10. \A m, q : Held(m, q)' = Held(m, q)
  BY <1>2 DEF Held
<1>11. \A m, r : Holds(m, r)' <=> Holds(m, r)
  BY <1>10 DEF Holds
<1>12. Grows
  BY <1>7, <1>8, <1>10 DEF Grows
<1>13. \A q \in net' : Right(q)'
  <2>1. \A q \in {} : Right(q)'
    OBVIOUS
  <2> QED
    BY <1>2, <1>12, <2>1, PacketsStayOK DEF IInv
<1>14. AcksOK'
  BY <1>2, <1>12, AcksStayOK DEF IInv
<1>15. \A m, q \in Nodes : routingTable[m][q] # None => routingTable'[m][q] # None
  BY <1>1, <1>9, GossipAssumption
<1>16. InHandOK'
  <2> SUFFICES ASSUME NEW m \in Nodes, NEW q \in inHand'[m]
               PROVE  /\ inHand'[m] = {q}
                      /\ Holds(q.from, q.rumor)
                      /\ ~ Holds(m, q.rumor)
                      /\ q.rumor.origin # m
                      /\ routingTable'[m][q.rumor.origin] # None
                      /\ nextID'[m][q.rumor.origin] # 0
    BY <1>11 DEF InHandOK
  <2>1. CASE m = n
    BY <1>1, <1>2, <1>3, <1>7, <1>8, <1>9, <2>1, GossipAssumption DEF Holds, o, id
  <2>2. CASE m # n
    <3>1. q \in inHand[m] /\ inHand'[m] = inHand[m]
      BY <1>9, <2>2
    <3>2. q.rumor.origin \in Nodes
      BY <3>1, InHandType DEF IInv
    <3> QED
      BY <1>8, <1>9, <2>2, <3>1, <3>2 DEF IInv, InHandOK
  <2> QED
    BY <2>1, <2>2
<1>17. OwnOK'
  BY <1>2, <1>3, <1>8, <1>10 DEF IInv, OwnOK
<1>18. OriginOK'
  <2>1. \A m, q \in Nodes : nextID[m][q] # 0 => nextID'[m][q] # 0
    BY <1>7, <1>8
  <2> QED
    BY <1>10, <1>15, <2>1 DEF IInv, OriginOK
<1>19. PrefixHeld'
  <2> SUFFICES ASSUME NEW m \in Nodes, NEW q \in Nodes, NEW k \in 1 .. (nextID'[m][q] - 1)
               PROVE  Counted(m, q, k)'
    BY DEF PrefixHeld
  <2>1. ASSUME k \in 1 .. (nextID[m][q] - 1) PROVE Counted(m, q, k)'
    <3>1. Counted(m, q, k)
      BY <2>1 DEF IInv, PrefixHeld
    <3> QED
      BY <1>2, <1>9, <1>10, <3>1 DEF Counted
  <2>2. CASE m = n /\ q = o
    <3>1. CASE k = id
      BY <1>1, <1>9, <2>2, <3>1 DEF Counted
    <3>2. CASE k \in Held(n, o)
      BY <1>10, <2>2, <3>2 DEF Counted
    <3> QED
      BY <1>7, <1>8, <2>1, <2>2, <3>1, <3>2
  <2>3. CASE ~ (m = n /\ q = o)
    BY <1>8, <2>1, <2>3
  <2> QED
    BY <2>2, <2>3
<1>20. StatusBounded' /\ \A q \in net' : PacketOK(q)'
  <2>1. next <= nextID[o][o]
    <3>1. \A k \in Held(n, o) \cup {id} : k < nextID[o][o]
      <4>1. \A k \in Held(n, o) \cup {id} : k \in Held(o, o)
        BY <1>1, <1>3 DEF IInv, OriginOK
      <4> QED
        BY <1>1, <4>1, HeldType DEF IInv, OwnOK
    <3>2. nextID[n][o] <= nextID[o][o] /\ nextID[o][o] # 0
      BY <1>1 DEF IInv, StatusBounded, TypeOK
    <3>3. CASE next = 1
      BY <1>1, <1>8, <3>2, <3>3
    <3>4. CASE next # 1
      <4>1. next - 1 \in 1 .. (next - 1)
        BY <1>7, <3>4
      <4>2. next - 1 \in 1 .. (nextID[n][o] - 1) \/ next - 1 \in Held(n, o) \cup {id}
        BY <1>7, <4>1
      <4> QED
        BY <1>1, <1>7, <1>8, <3>1, <3>2, <4>2
    <3> QED
      BY <3>3, <3>4
  <2>2. \A m, q \in Nodes : nextID'[m][q] <= nextID'[q][q]
    BY <1>1, <1>3, <1>8, <2>1 DEF IInv, StatusBounded
  <2> QED
    BY <1>13, <2>2, PacketsBounded
<1>21. RouteUsable'
  <2> SUFFICES ASSUME NEW m \in Nodes, NEW q \in Nodes, routingTable'[m][q] # None
               PROVE  \/ routingTable'[m][q] = q
                      \/ routingTable'[routingTable'[m][q]][q] # None
    BY DEF RouteUsable
  <2>1. CASE m = n /\ q = o
    <3>1. p.from = o \/ routingTable[p.from][o] # None
      BY <1>1, <1>3 DEF IInv, OriginOK
    <3> QED
      BY <1>1, <1>9, <1>15, <2>1, <3>1
  <2>2. CASE ~ (m = n /\ q = o)
    <3>1. routingTable'[m][q] = routingTable[m][q]
      BY <1>9, <2>2
    <3>2. routingTable[m][q] \in Nodes
      BY <3>1 DEF IInv, TypeOK
    <3>3. routingTable[m][q] = q \/ routingTable[routingTable[m][q]][q] # None
      BY <3>1 DEF IInv, RouteUsable
    <3> QED
      BY <1>15, <3>1, <3>2, <3>3
  <2> QED
    BY <2>1, <2>2
<1>22. StoredOnce'
  BY <1>2 DEF IInv, StoredOnce
<1>23. ArrivedOK' /\ ClocksOK'
  <2>1. /\ arrived'[n] = {}
        /\ \A k \in Nodes : k # n => arrived'[k] = arrived[k]
    BY <1>1, TakenArrived DEF IInv
  <2>2. ArrivedOK'
    BY <1>9, <1>11, <2>1 DEF IInv, ArrivedOK
  <2>3. \A k \in Nodes : \A q \in arrived'[k] \cup inHand'[k] :
          q \in arrived[k] \cup inHand[k] \cup net
    BY <1>9, <2>1
  <2> QED
    BY <1>2, <1>12, <2>2, <2>3, ClocksStayOK DEF IInv
<1> QED
  BY <1>23, <1>14, <1>16, <1>17, <1>18, <1>19, <1>20, <1>21, <1>22 DEF IInv

(* gossipWorker stores the rumor it has in hand. *)
LEMMA InvStoreRumor ==
  ASSUME IInv, TypeOK', NEW n \in Nodes, StoreRumor(n)
  PROVE  IInv'
<1>1. PICK p \in inHand[n], m \in peers[n] :
        /\ rumors' = [rumors EXCEPT ![n][p.rumor.origin] = Append(@, p.rumor.id)]
        /\ StoreToAck(n, rumorsToAck[n], {<<p.rumor, m>>})
        /\ StoreClock(n, p)
        /\ Transmit({StatusTo(n, p.from, nextID[n]), RumorTo(n, m, p.rumor, p.want)})
        /\ inHand' = [inHand EXCEPT ![n] = {}]
        /\ UNCHANGED <<nextID, rumorsAcked, peers, routingTable, unstored, arrived>>
  BY DEF StoreRumor
<1> DEFINE o  == p.rumor.origin
           id == p.rumor.id
           mongered == {<<p.rumor, m>>}
<1>2. /\ p.from \in Nodes /\ p.rumor \in Rumor /\ o \in Nodes /\ id \in 1 .. MaxID
      /\ p.rumor = [origin |-> o, id |-> id] /\ p.want \in [Nodes -> Nat]
  BY InHandType DEF IInv, Rumor
<1>3. /\ inHand[n] = {p} /\ id \in Held(p.from, o) /\ id \notin Held(n, o) /\ o # n
      /\ routingTable[n][o] # None /\ nextID[n][o] # 0
  BY DEF IInv, InHandOK, Holds
<1> HIDE DEF o, id
<1>4. /\ Held(n, o)' = Held(n, o) \cup {id}
      /\ \A k, q \in Nodes : (k # n \/ q # o) => Held(k, q)' = Held(k, q)
  BY <1>1, <1>2, HeldAfterStore DEF IInv, o, id
<1>5. id \in Held(o, o)'
  BY <1>2, <1>3, <1>4 DEF IInv, OriginOK
<1>6. Grows /\ StoredOnce' /\ RouteUsable' /\ OriginOK'
  BY <1>1, <1>2, <1>3, <1>5, StoreStep DEF o, id
<1>7. Holds(n, p.rumor)'
  BY <1>4 DEF Holds, o, id
<1>8. \A x \in mongered : Holds(n, x[1])'
  BY <1>7
<1>9. StoreToAck(n, rumorsToAck[n], mongered)
  BY <1>1
<1>17. /\ \A k, q \in Nodes : nextID'[k][q] <= nextID'[q][q]
       /\ \A q \in Nodes : p.want[q] <= nextID'[q][q]
  BY <1>1 DEF IInv, StatusBounded, ClocksOK
<1> HIDE DEF mongered
<1>10. AcksOK'
  <2>1. \A k, j \in Nodes : \A q \in rumorsToAck'[k][j] :
          q \in rumorsToAck[k][j] \/ Holds(k, q)'
    BY <1>8, <1>9, StoreToAckAdds DEF IInv
  <2> QED
    BY <1>1, <1>6, <2>1, AcksStayOK DEF IInv
<1>11. \A q \in net' : Right(q)'
  <2> DEFINE sent == {StatusTo(n, p.from, nextID'[n]), RumorTo(n, m, p.rumor, p.want)}
  <2>1. ASSUME NEW q, q = StatusTo(n, p.from, nextID'[n]) PROVE Right(q)'
    BY <1>17, <2>1, StatusToOK
  <2>2. ASSUME NEW q, q = RumorTo(n, m, p.rumor, p.want) PROVE Right(q)'
    <3>1. q.kind = "rumor" /\ q.from = n /\ q.rumor = p.rumor /\ q.want = p.want
      BY <2>2 DEF RumorTo
    <3> QED
      BY <1>7, <1>17, <3>1 DEF Right, PacketOK
  <2>3. Transmit(sent) /\ \A q \in sent : Right(q)'
    BY <1>1, <2>1, <2>2
  <2> HIDE DEF sent
  <2> QED
    BY <1>6, <2>3, PacketsStayOK DEF IInv
<1>12. /\ inHand'[n] = {}
       /\ \A k \in Nodes : k # n => inHand'[k] = inHand[k]
  BY <1>1 DEF IInv, TypeOK
<1>13. InHandOK'
  <2> SUFFICES ASSUME NEW k \in Nodes, NEW q \in inHand'[k]
               PROVE  /\ inHand'[k] = {q}
                      /\ Holds(q.from, q.rumor)'
                      /\ ~ Holds(k, q.rumor)'
                      /\ q.rumor.origin # k
                      /\ routingTable[k][q.rumor.origin] # None
                      /\ nextID[k][q.rumor.origin] # 0
    BY <1>1 DEF InHandOK
  <2>1. k # n /\ q \in inHand[k] /\ inHand'[k] = inHand[k]
    BY <1>12
  <2>2. q.from \in Nodes /\ q.rumor \in Rumor /\ q.rumor.origin \in Nodes
    BY <2>1, InHandType DEF IInv
  <2>3. /\ inHand[k] = {q} /\ Holds(q.from, q.rumor) /\ ~ Holds(k, q.rumor)
        /\ q.rumor.origin # k /\ routingTable[k][q.rumor.origin] # None
        /\ nextID[k][q.rumor.origin] # 0
    BY <2>1 DEF IInv, InHandOK
  <2>4. ~ Holds(k, q.rumor)'
    BY <1>4, <2>1, <2>2, <2>3 DEF Holds
  <2> QED
    BY <1>6, <2>1, <2>2, <2>3, <2>4, HoldsGrows
<1>14. OwnOK'
  <2>1. \A k \in Nodes : Held(k, k)' = Held(k, k)
    BY <1>3, <1>4
  <2> QED
    BY <1>1, <2>1 DEF IInv, OwnOK
<1>15. PrefixHeld'
  <2> SUFFICES ASSUME NEW k \in Nodes, NEW q \in Nodes, NEW i \in 1 .. (nextID[k][q] - 1)
               PROVE  Counted(k, q, i)'
    BY <1>1 DEF PrefixHeld
  <2>1. Counted(k, q, i)
    BY DEF IInv, PrefixHeld
  <2>2. CASE i \in Held(k, q)
    BY <1>6, <2>2 DEF Grows, Counted
  <2>3. CASE \E x \in inHand[k] : x.rumor = [origin |-> q, id |-> i]
    <3>1. CASE k = n
      <4>1. o = q /\ id = i
        BY <1>3, <2>3, <3>1 DEF o, id
      <4> QED
        BY <1>4, <3>1, <4>1 DEF Counted
    <3>2. CASE k # n
      BY <1>12, <2>3, <3>2 DEF Counted
    <3> QED
      BY <3>1, <3>2
  <2>4. CASE k = q /\ i \in unstored[k]
    BY <1>1, <2>4 DEF Counted
  <2> QED
    BY <2>1, <2>2, <2>3, <2>4 DEF Counted
<1>18. ArrivedOK'
  <2> SUFFICES ASSUME NEW k \in Nodes, NEW q \in arrived[k]
               PROVE  Holds(q.from, q.rumor)' /\ inHand'[k] = {}
    BY <1>1 DEF ArrivedOK
  <2>1. q \in RumorPacket /\ Holds(q.from, q.rumor) /\ inHand[k] = {}
    BY DEF IInv, TypeOK, ArrivedOK
  <2> QED
    BY <1>6, <1>12, <2>1, HoldsGrows DEF RumorPacket
<1>19. ClocksOK'
  <2> SUFFICES ASSUME NEW k \in Nodes, NEW q \in Nodes
               PROVE  /\ \A x \in arrived[k] \cup inHand'[k] : x.want[q] <= nextID[q][q]
                      /\ \A r \in Clocked : clocks'[k][r][q] <= nextID[q][q]
    BY <1>1 DEF ClocksOK
  <2>1. \A x \in arrived[k] \cup inHand'[k] : x.want[q] <= nextID[q][q]
    BY <1>12 DEF IInv, ClocksOK
  <2>2. ASSUME NEW r \in Clocked PROVE clocks'[k][r] = clocks[k][r] \/ clocks'[k][r] = p.want
    BY <1>1 DEF IInv, TypeOK, StoreClock
  <2>3. \A r \in Clocked : clocks[k][r][q] <= nextID[q][q]
    BY DEF IInv, ClocksOK
  <2>4. p.want[q] <= nextID[q][q]
    BY <1>1, <1>17
  <2> QED
    BY <2>1, <2>2, <2>3, <2>4
<1>16. StatusBounded' /\ \A q \in net' : PacketOK(q)'
  BY <1>11, <1>17, PacketsBounded
<1> QED
  BY <1>6, <1>10, <1>11, <1>13, <1>14, <1>15, <1>16, <1>18, <1>19 DEF IInv

(* The invariant holds initially. *)
LEMMA InvInit == Init => IInv
<1> SUFFICES ASSUME Init PROVE IInv
  OBVIOUS
<1>1. TypeOK
  BY TypeInit
<1>2. /\ \A n \in Nodes : inHand[n] = {} /\ unstored[n] = {} /\ arrived[n] = {}
      /\ \A n, o \in Nodes : /\ rumors[n][o] = << >>
                             /\ rumorsToAck[n][o] = {} /\ rumorsAcked[n][o] = {}
                             /\ routingTable[n][o] = None
                             /\ nextID[n][o] = IF o = n THEN 1 ELSE 0
      /\ net = {}
  BY DEF Init
<1>3. \A n, o \in Nodes : Held(n, o) = {}
  BY <1>2 DEF Held, IDs
<1>8. ArrivedOK /\ ClocksOK
  <2>1. \A n, o \in Nodes : \A r \in Clocked : clocks[n][r][o] = 0
    BY DEF Init, NoStatus
  <2> QED
    BY <1>2, <2>1 DEF ArrivedOK, ClocksOK
<1>4. InHandOK /\ AcksOK /\ OriginOK
  BY <1>2, <1>3 DEF InHandOK, AcksOK, OriginOK
<1>5. OwnOK
  BY <1>2, <1>3, GossipAssumption DEF OwnOK
<1>6. PrefixHeld
  BY <1>2 DEF PrefixHeld
<1>7. StatusBounded /\ RouteUsable /\ StoredOnce
  BY <1>2 DEF StatusBounded, RouteUsable, StoredOnce
<1> QED
  BY <1>1, <1>2, <1>4, <1>5, <1>6, <1>7, <1>8 DEF IInv

(* Every step keeps the invariant. *)
LEMMA InvNext == IInv /\ [Next]_vars => IInv'
<1> SUFFICES ASSUME IInv, [Next]_vars PROVE IInv'
  OBVIOUS
<1>1. TypeOK'
  BY TypeNext DEF IInv
<1>2. CASE UNCHANGED vars
  BY <1>2 DEF vars, IInv, TypeOK, PacketOK, ArrivedOK, ClocksOK, NoClocks, InHandOK, AcksOK, OwnOK, OriginOK, PrefixHeld,
              StatusBounded, RouteUsable, StoredOnce, Counted, Holds, Held
<1>3. CASE Next
  BY <1>1, <1>3, InvTakeID, InvPublish, InvKnownRumor, InvNewRumor, InvStoreRumor,
     InvHandleStatus, InvTickers, InvPeerStep, AddNodeIsPeerStep DEF Next, HandleRumor
<1> QED
  BY <1>2, <1>3

(* IInv holds in every reachable state. *)
THEOREM Inductive == Spec => []IInv
  BY InvInit, InvNext, PTL DEF Spec

(* The status of a node counts only rumors it has.                          *)
THEOREM PrefixIsHeld == Spec => []PrefixHeld
<1>1. IInv => PrefixHeld
  BY DEF IInv
<1> QED
  BY <1>1, Inductive, PTL

(* No status is ahead of the origin's own.                                  *)
THEOREM StatusIsBounded == Spec => []StatusBounded
<1>1. IInv => StatusBounded
  BY DEF IInv
<1> QED
  BY <1>1, Inductive, PTL

(* The next hop of a route is the destination or has a route to it.         *)
THEOREM RoutesAreUsable == Spec => []RouteUsable
<1>1. IInv => RouteUsable
  BY DEF IInv
<1> QED
  BY <1>1, Inductive, PTL

(* No rumor is stored twice. *)
THEOREM RumorsAreStoredOnce == Spec => []StoredOnce
<1>1. IInv => StoredOnce
  BY DEF IInv
<1> QED
  BY <1>1, Inductive, PTL

(* Until a TLC message with a clock is published, a peer that acknowledged  *)
(* a rumor received all the earlier ones of its origin.                    *)
THEOREM AckImpliesPrefix == Spec => []AckedPrefix
<1>1. IInv => AckedPrefix
  <2> SUFFICES ASSUME IInv, NoClocks, NEW n \in Nodes, NEW m \in Nodes, NEW r \in rumorsAcked[n][m],
                      NEW id \in 1 .. (r.id - 1)
               PROVE  Counted(m, r.origin, id)
    BY DEF AckedPrefix
  <2>1. r.origin \in Nodes /\ r.id \in Nat
    BY AckType, GossipAssumption DEF IInv, Rumor
  <2>2. r.id <= nextID[m][r.origin] /\ nextID[m][r.origin] \in Nat
    BY <2>1, NextIDType DEF IInv, AcksOK
  <2>3. id \in 1 .. (nextID[m][r.origin] - 1)
    BY <2>1, <2>2
  <2> QED
    BY <2>1, <2>3 DEF IInv, PrefixHeld
<1> QED
  BY <1>1, Inductive, PTL

-----------------------------------------------------------------------------
(* Gossip implements RumorSpread. *)

(* Storing a rumor is learning it, for the node that stores it.             *)
LEMMA KnownAfterStore ==
  ASSUME TypeOK, NEW n \in Nodes, NEW r \in Rumor,
         rumors' = [rumors EXCEPT ![n][r.origin] = Append(@, r.id)]
  PROVE  Known' = [Known EXCEPT ![n] = @ \cup {r}]
<1>1. r.origin \in Nodes /\ r.id \in 1 .. MaxID
  BY DEF Rumor
<1>2. /\ Held(n, r.origin)' = Held(n, r.origin) \cup {r.id}
      /\ \A m, q \in Nodes : (m # n \/ q # r.origin) => Held(m, q)' = Held(m, q)
  BY <1>1, HeldAfterStore
<1>3. \A m \in Nodes : \A q \in Rumor :
        Holds(m, q)' <=> (Holds(m, q) \/ (m = n /\ q = r))
  BY <1>1, <1>2 DEF Holds, Rumor
<1>4. \A m \in Nodes : {q \in Rumor : Holds(m, q)'} =
        IF m = n THEN {q \in Rumor : Holds(m, q)} \cup {r} ELSE {q \in Rumor : Holds(m, q)}
  BY <1>3
<1> QED
  BY <1>4 DEF Known

(* Where no rumor is stored, the abstract state does not change. *)
LEMMA KnownUnchanged ==
  ASSUME UNCHANGED rumors
  PROVE  UNCHANGED Known
BY DEF Known, Holds, Held

(* Every step of Gossip is a step of RumorSpread, or stutters. *)
LEMMA SpreadNext == IInv /\ [Next]_vars => [RS!Next]_Known
<1> SUFFICES ASSUME IInv, [Next]_vars PROVE RS!Next \/ UNCHANGED Known
  OBVIOUS
<1>1. ASSUME NEW n \in Nodes, NEW id \in unstored[n], Publish(n, id)
      PROVE  RS!Next
  <2> DEFINE r == [origin |-> n, id |-> id]
  <2>1. id \in 1 .. MaxID /\ id \notin Held(n, n)
    BY <1>1 DEF IInv, TypeOK, OwnOK
  <2>2. r \in Rumor /\ r.origin = n /\ r.id = id
    BY <2>1 DEF Rumor
  <2>3. rumors' = [rumors EXCEPT ![n][r.origin] = Append(@, r.id)]
    BY <1>1, <2>2 DEF Publish
  <2> HIDE DEF r
  <2>4. \A m \in Nodes : r \notin Known[m]
    BY <2>1, <2>2 DEF IInv, OriginOK, Known, Holds
  <2>5. Known' = [Known EXCEPT ![n] = @ \cup {r}]
    BY <2>2, <2>3, KnownAfterStore DEF IInv
  <2>6. RS!Publish(n, r)
    BY <2>2, <2>4, <2>5 DEF RS!Publish
  <2> QED
    BY <2>2, <2>6 DEF RS!Next, RS!Rumor, Rumor
<1>2. ASSUME NEW n \in Nodes, StoreRumor(n)
      PROVE  RS!Next
  <2>1. PICK p \in inHand[n] :
          rumors' = [rumors EXCEPT ![n][p.rumor.origin] = Append(@, p.rumor.id)]
    BY <1>2 DEF StoreRumor
  <2>2. p.rumor \in Rumor /\ p.from \in Nodes /\ Holds(p.from, p.rumor)
    BY InHandType DEF IInv, InHandOK
  <2>3. p.rumor \in Known[p.from]
    BY <2>2 DEF Known
  <2>4. Known' = [Known EXCEPT ![n] = @ \cup {p.rumor}]
    BY <2>1, <2>2, KnownAfterStore DEF IInv
  <2>5. RS!Learn(n, p.rumor)
    BY <2>2, <2>3, <2>4 DEF RS!Learn
  <2> QED
    BY <2>2, <2>5 DEF RS!Next, RS!Rumor, Rumor
<1>3. ASSUME UNCHANGED rumors PROVE UNCHANGED Known
  BY <1>3, KnownUnchanged
<1>4. CASE UNCHANGED vars
  BY <1>3, <1>4 DEF vars
<1>5. CASE Next
  <2>1. ASSUME NEW n \in Nodes, TakeID(n) PROVE UNCHANGED rumors
    BY <2>1 DEF TakeID
  <2>2. ASSUME NEW n \in Nodes, NEW p \in net \cup arrived[n], HandleRumor(n, p) PROVE UNCHANGED rumors
    BY <2>2 DEF HandleRumor, HandleKnownRumor, HandleNewRumor
  <2>3. ASSUME NEW n \in Nodes, NEW p \in net, HandleStatus(n, p) PROVE UNCHANGED rumors
    BY <2>3 DEF HandleStatus, SendMissing, AskForMissing, FlipCoins
  <2>4. ASSUME NEW n \in Nodes, NEW m \in Nodes, NEW r \in Rumor, AckTimeout(n, m, r)
        PROVE  UNCHANGED rumors
    BY <2>4 DEF AckTimeout
  <2>5. ASSUME NEW n \in Nodes, NEW m \in Nodes, AntiEntropy(n, m) PROVE UNCHANGED rumors
    BY <2>5 DEF AntiEntropy
  <2>6. ASSUME NEW n \in Nodes, NEW m \in Nodes, AddNode(n, m) PROVE UNCHANGED rumors
    BY <2>6 DEF AddNode
  <2> QED
    BY <1>1, <1>2, <1>3, <1>5, <2>1, <2>2, <2>3, <2>4, <2>5, <2>6 DEF Next
<1> QED
  BY <1>4, <1>5

(* Rumors spread by copying: every behaviour of the gossipers is one of     *)
(* RumorSpread.                                                            *)
THEOREM GossipSpreads == Spec => Spread
<1>1. Init => RS!Init
  <2> SUFFICES ASSUME Init PROVE Known = [n \in Nodes |-> {}]
    BY DEF RS!Init
  <2>1. \A n, o \in Nodes : Held(n, o) = {}
    BY DEF Init, Held, IDs
  <2> QED
    BY <2>1 DEF Known, Holds, Rumor
<1>2. IInv /\ [Next]_vars => [RS!Next]_Known
  BY SpreadNext
<1> QED
  BY <1>1, <1>2, Inductive, PTL DEF Spec, Spread, RS!Spec

=============================================================================
