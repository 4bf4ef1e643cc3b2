---------------------------- MODULE PrivateProofs ----------------------------
(***************************************************************************)
(* Proofs about Private, for any nodes, flags and bounds: Gossip keeps its *)
(* inductive invariant when point-to-point messages use its routes, and    *)
(* therefore those messages are never stranded.                            *)
(***************************************************************************)
EXTENDS Private, GossipProofs

(* For Gossip the packets of this module are at most a new peer. *)
LEMMA MailIsPeerStep ==
  ASSUME PrivateTypeOK, NEW n \in Nodes, NEW p \in mail, MailArrives(n, p)
  PROVE  p.from \in Nodes /\ PeerStep(n, p.from)
<1>1. p \in Mail
  BY DEF PrivateTypeOK
<1>2. p.from \in Nodes
  BY <1>1 DEF Mail
<1>3. PeerStep(n, p.from)
  BY DEF MailArrives, PeerStep
<1> QED
  BY <1>2, <1>3

(* A step of Private is one of Gossip, or leaves Gossip alone, or makes a   *)
(* node know one more peer.                                                *)
LEMMA GossipPart ==
  ASSUME PrivateTypeOK, [PrivateNext]_allVars
  PROVE  [Next]_vars \/ \E n, m \in Nodes : PeerStep(n, m)
<1>1. CASE UNCHANGED allVars
  BY <1>1 DEF allVars
<1>2. CASE PrivateNext
  <2>1. ASSUME NEW n \in Nodes, NEW d \in Nodes, SendPrivate(n, d)
        PROVE  UNCHANGED vars
    BY <2>1 DEF SendPrivate
  <2>2. ASSUME NEW n \in Nodes, NEW r \in Rumor, SendAck(n, r)
        PROVE  UNCHANGED vars
    BY <2>2 DEF SendAck
  <2>3. ASSUME NEW n \in Nodes, NEW p \in mail, HandlePrivateMsg(n, p)
        PROVE  \E m \in Nodes : PeerStep(n, m)
    <3>1. MailArrives(n, p)
      BY <2>3 DEF HandlePrivateMsg, Deliver, Discard, Forward
    <3> QED
      BY <3>1, MailIsPeerStep
  <2> QED
    BY <1>2, <2>1, <2>2, <2>3 DEF PrivateNext
<1> QED
  BY <1>1, <1>2

(* Routes are never removed. *)
LEMMA RoutesStay ==
  ASSUME TypeOK, [Next]_vars \/ \E n, m \in Nodes : PeerStep(n, m)
  PROVE  \A n, o \in Nodes : routingTable[n][o] # None => routingTable'[n][o] # None
<1>1. CASE \E n, m \in Nodes : PeerStep(n, m)
  BY <1>1 DEF PeerStep
<1>2. CASE UNCHANGED vars
  BY <1>2 DEF vars
<1>3. CASE Next
  <2>1. ASSUME NEW n \in Nodes, NEW p \in net \cup arrived[n], HandleNewRumor(n, p)
        PROVE  \A m, o \in Nodes : routingTable[m][o] # None => routingTable'[m][o] # None
    <3>1. p \in RumorPacket /\ p.from \in Nodes /\ p.rumor.origin \in Nodes
      BY <2>1, TakenType DEF HandleNewRumor
    <3>2. \/ routingTable' = routingTable
          \/ routingTable' = [routingTable EXCEPT ![n][p.rumor.origin] = p.from]
      BY <2>1 DEF HandleNewRumor
    <3>3. routingTable \in [Nodes -> [Nodes -> Nodes \cup {None}]]
      BY DEF TypeOK
    <3>4. p.from # None
      BY <3>1, GossipAssumption
    <3>5. ASSUME NEW m \in Nodes, NEW o \in Nodes, routingTable[m][o] # None
          PROVE  routingTable'[m][o] # None
      <4>1. CASE routingTable' = routingTable
        BY <3>5, <4>1
      <4>2. CASE routingTable' = [routingTable EXCEPT ![n][p.rumor.origin] = p.from]
        <5>1. routingTable'[m][o] \in {routingTable[m][o], p.from}
          BY <3>1, <3>3, <4>2
        <5> QED
          BY <3>4, <3>5, <5>1
      <4> QED
        BY <3>2, <4>1, <4>2
    <3> QED
      BY <3>5
  <2>2. ASSUME NEW n \in Nodes, NEW p \in net \cup arrived[n], HandleKnownRumor(n, p)
        PROVE  UNCHANGED routingTable
    BY <2>2 DEF HandleKnownRumor
  <2>3. ASSUME NEW n \in Nodes, NEW p \in net, HandleStatus(n, p)
        PROVE  UNCHANGED routingTable
    BY <2>3 DEF HandleStatus, SendMissing, AskForMissing, FlipCoins
  <2>4. ASSUME NEW n \in Nodes, NEW m \in Nodes,
               \/ AntiEntropy(n, m) \/ AddNode(n, m)
               \/ \E r \in Rumor : AckTimeout(n, m, r)
        PROVE  UNCHANGED routingTable
    BY <2>4 DEF AntiEntropy, AddNode, AckTimeout
  <2>5. ASSUME NEW n \in Nodes,
               TakeID(n) \/ StoreRumor(n) \/ \E id \in unstored[n] : Publish(n, id)
        PROVE  UNCHANGED routingTable
    BY <2>5 DEF TakeID, StoreRumor, Publish
  <2> QED
    BY <1>3, <2>1, <2>2, <2>3, <2>4, <2>5 DEF Next, HandleRumor
<1> QED
  BY <1>1, <1>2, <1>3

-----------------------------------------------------------------------------
(* What Send puts in flight. *)
Sent(n, kind, origin, d, limit) ==
  [kind |-> kind, origin |-> origin, dest |-> d, hopLimit |-> limit,
   from |-> n, to |-> NextHop(n, d)]

(* Send adds at most that message, and only where there is a route. *)
LEMMA SendAdds ==
  ASSUME NEW n, NEW kind, NEW origin, NEW d, NEW limit, Send(n, kind, origin, d, limit)
  PROVE  \A p \in mail' :
           p \in mail \/ (p = Sent(n, kind, origin, d, limit) /\ NextHop(n, d) # None)
BY DEF Send, Sent

(* A hop limit stays in its width. *)
LEMMA Minus1Type ==
  ASSUME NEW limit \in 0 .. (Width - 1)
  PROVE  Minus1(limit) \in 0 .. (Width - 1)
BY PrivateAssumption, Z3 DEF Minus1

(* A message to a node that has a route to its destination is a message.    *)
LEMMA SentMailType ==
  ASSUME TypeOK, NEW n \in Nodes, NEW kind \in {"private", "ack"}, NEW origin \in Nodes,
         NEW d \in Nodes, NEW limit \in 0 .. (Width - 1), NextHop(n, d) # None
  PROVE  Sent(n, kind, origin, d, limit) \in Mail
BY DEF Sent, Mail, NextHop, TypeOK

(* Every packet of this module is made by one of these Sends. *)
LEMMA MailSteps ==
  ASSUME PrivateTypeOK, [PrivateNext]_allVars, NEW p \in mail'
  PROVE  \/ p \in mail
         \/ \E n, o, d \in Nodes : \E kind \in {"private", "ack"}, limit \in 0 .. (Width - 1) :
              p = Sent(n, kind, o, d, limit) /\ NextHop(n, d) # None
<1>1. CASE UNCHANGED allVars
  BY <1>1 DEF allVars
<1>2. ASSUME NEW n \in Nodes, NEW d \in Nodes, SendPrivate(n, d)
      PROVE  p \in mail \/ (p = Sent(n, "private", n, d, HOPLIMIT - 1) /\ NextHop(n, d) # None)
  BY <1>2, SendAdds DEF SendPrivate
<1>3. ASSUME NEW n \in Nodes, NEW r \in Rumor, SendAck(n, r)
      PROVE  \/ p \in mail
             \/ p = Sent(n, "ack", n, r.origin, Minus1(HopLimit)) /\ NextHop(n, r.origin) # None
  BY <1>3, SendAdds DEF SendAck
<1>4. ASSUME NEW n \in Nodes, NEW q \in mail, HandlePrivateMsg(n, q)
      PROVE  \/ p \in mail
             \/ /\ p = Sent(n, q.kind, q.origin, q.dest, Minus1(q.hopLimit))
                /\ NextHop(n, q.dest) # None
  BY <1>4, SendAdds DEF HandlePrivateMsg, Deliver, Discard, Forward
<1>5. HOPLIMIT - 1 \in 0 .. (Width - 1)
  BY PrivateAssumption
<1>6. Minus1(HopLimit) \in 0 .. (Width - 1)
  BY PrivateAssumption, Minus1Type
<1>7. \A r \in Rumor : r.origin \in Nodes
  BY DEF Rumor
<1>8. ASSUME NEW q \in mail
      PROVE  /\ q.kind \in {"private", "ack"} /\ q.origin \in Nodes /\ q.dest \in Nodes
             /\ Minus1(q.hopLimit) \in 0 .. (Width - 1)
  <2>1. q \in Mail
    BY DEF PrivateTypeOK
  <2>2. q.kind \in {"private", "ack"} /\ q.origin \in Nodes /\ q.dest \in Nodes
        /\ q.hopLimit \in 0 .. (Width - 1)
    BY <2>1 DEF Mail
  <2> QED
    BY <2>2, Minus1Type
<1>9. CASE Next /\ UNCHANGED mail
  BY <1>9
<1>10. CASE \E n \in Nodes, d \in Nodes : SendPrivate(n, d)
  BY <1>10, <1>2, <1>5
<1>11. CASE \E n \in Nodes : \E r \in Rumor : SendAck(n, r)
  BY <1>11, <1>3, <1>6, <1>7
<1>12. CASE \E n \in Nodes : \E q \in mail : HandlePrivateMsg(n, q)
  BY <1>12, <1>4, <1>8
<1> QED
  BY <1>1, <1>9, <1>10, <1>11, <1>12 DEF PrivateNext

-----------------------------------------------------------------------------
(* Gossip's invariant and the type of what is in flight. *)
PrivateInv == IInv /\ PrivateTypeOK

LEMMA PrivateInvInit == PrivateInit => PrivateInv /\ NeverStranded
<1> SUFFICES ASSUME PrivateInit PROVE PrivateInv /\ NeverStranded
  OBVIOUS
<1>1. IInv
  BY InvInit DEF PrivateInit
<1>2. mail = {}
  BY DEF PrivateInit
<1>3. TypeOK /\ OriginOK
  BY <1>1 DEF IInv
<1>4. \A r \in Rumor : r.origin \in Nodes
  BY DEF Rumor
<1>5. PrivateInv
  BY <1>1, <1>2, <1>3 DEF PrivateInv, PrivateTypeOK
<1>6. NeverStranded
  BY <1>2, <1>3, <1>4 DEF NeverStranded, OriginOK, Holds
<1> QED
  BY <1>5, <1>6

LEMMA PrivateInvNext == PrivateInv /\ [PrivateNext]_allVars => PrivateInv'
<1> SUFFICES ASSUME PrivateInv, [PrivateNext]_allVars PROVE PrivateInv'
  OBVIOUS
<1>1. IInv'
  <2>1. CASE [Next]_vars
    BY <2>1, InvNext DEF PrivateInv
  <2>2. CASE \E n, m \in Nodes : PeerStep(n, m)
    BY <2>2, InvPeerStep DEF PrivateInv
  <2> QED
    BY <2>1, <2>2, GossipPart DEF PrivateInv
<1>2. TypeOK'
  BY <1>1 DEF IInv
<1>3. ASSUME NEW p \in mail' PROVE p \in Mail
  <2>1. PrivateTypeOK /\ TypeOK
    BY DEF PrivateInv, PrivateTypeOK
  <2>2. CASE p \in mail
    BY <2>1, <2>2 DEF PrivateTypeOK
  <2>3. ASSUME NEW n \in Nodes, NEW o \in Nodes, NEW d \in Nodes,
               NEW kind \in {"private", "ack"}, NEW limit \in 0 .. (Width - 1),
               p = Sent(n, kind, o, d, limit), NextHop(n, d) # None
        PROVE  p \in Mail
    BY <2>1, <2>3, SentMailType
  <2> QED
    BY <2>1, <2>2, <2>3, MailSteps
<1> QED
  BY <1>1, <1>2, <1>3 DEF PrivateInv, PrivateTypeOK

(* A message in flight is at its destination or has a route from there. *)
OnItsWay(p) == p.to = p.dest \/ routingTable[p.to][p.dest] # None

LEMMA StrandedNext ==
  PrivateInv /\ NeverStranded /\ [PrivateNext]_allVars => NeverStranded'
<1> SUFFICES ASSUME PrivateInv, NeverStranded, [PrivateNext]_allVars PROVE NeverStranded'
  OBVIOUS
<1>1. PrivateTypeOK /\ TypeOK /\ RouteUsable
  BY DEF PrivateInv, PrivateTypeOK, IInv
<1>2. PrivateInv'
  BY PrivateInvNext
<1>3. OriginOK'
  BY <1>2 DEF PrivateInv, IInv
<1>4. \A n \in Nodes : \A r \in Rumor :
        Holds(n, r)' /\ r.origin # n => routingTable'[n][r.origin] # None
  <2>1. \A r \in Rumor : r.origin \in Nodes
    BY DEF Rumor
  <2> QED
    BY <1>3, <2>1 DEF OriginOK, Holds
<1>5. \A n, o \in Nodes : routingTable[n][o] # None => routingTable'[n][o] # None
  BY <1>1, GossipPart, RoutesStay
<1>6. ASSUME NEW p \in mail' PROVE OnItsWay(p)'
  <2>1. CASE p \in mail
    <3>1. p \in Mail
      BY <1>1, <2>1 DEF PrivateTypeOK
    <3>2. p.to \in Nodes /\ p.dest \in Nodes
      BY <3>1 DEF Mail
    <3>3. OnItsWay(p)
      BY <2>1 DEF NeverStranded, OnItsWay
    <3> QED
      BY <1>5, <3>2, <3>3 DEF OnItsWay
  <2>2. ASSUME NEW n \in Nodes, NEW o \in Nodes, NEW d \in Nodes,
               NEW kind \in {"private", "ack"}, NEW limit \in 0 .. (Width - 1),
               p = Sent(n, kind, o, d, limit), NextHop(n, d) # None
        PROVE  OnItsWay(p)'
    <3>1. p.to = routingTable[n][d] /\ p.dest = d
      BY <2>2 DEF Sent, NextHop
    <3>2. routingTable[n][d] \in Nodes
      BY <1>1, <2>2 DEF NextHop, TypeOK
    <3>3. routingTable[n][d] = d \/ routingTable[routingTable[n][d]][d] # None
      BY <1>1, <2>2 DEF RouteUsable, NextHop
    <3> QED
      BY <1>5, <3>1, <3>2, <3>3 DEF OnItsWay
  <2> QED
    BY <1>1, <2>1, <2>2, MailSteps
<1> QED
  BY <1>4, <1>6 DEF NeverStranded, OnItsWay

(* Every variable of Private, and of Gossip under it, has its type, the hop *)
(* limits their width (handlePrivateMsg, gossiper.go:341-393).              *)
THEOREM PrivateTypeCorrect == PrivateSpec => []PrivateTypeOK
<1>1. PrivateInit => PrivateInv
  BY PrivateInvInit
<1>2. PrivateInv => PrivateTypeOK
  BY DEF PrivateInv
<1> QED
  BY <1>1, <1>2, PrivateInvNext, PTL DEF PrivateSpec

(* A message sent is never dropped for want of a route, and an              *)
(* acknowledgement always has one (sendNewTLCAck, sendNewMsg.go:79-109).    *)
THEOREM NeverStrandedHolds == PrivateSpec => []NeverStranded
<1>1. PrivateInit => PrivateInv /\ NeverStranded
  BY PrivateInvInit
<1>2. PrivateInv /\ NeverStranded /\ [PrivateNext]_allVars => (PrivateInv /\ NeverStranded)'
  BY PrivateInvNext, StrandedNext
<1> QED
  BY <1>1, <1>2, PTL DEF PrivateSpec
=============================================================================
