------------------------------- MODULE Private -------------------------------
(***************************************************************************)
(* Point-to-point messages on top of Gossip: private messages and          *)
(* acknowledgements of TLC messages go hop by hop along the routing tables *)
(* that rumors write, until they arrive or their hop limit runs out        *)
(* (gossiper.go:341-393, sendNewMsg.go:61-109).  Data requests and replies *)
(* are forwarded by the same code, written once more.                      *)
(*                                                                         *)
(* Abstracted: the text; which TLC messages are acknowledged and what an   *)
(* acknowledgement that arrives does (Rounds); gos.private, the list of    *)
(* messages the web client shows.                                          *)
(***************************************************************************)
EXTENDS Gossip

CONSTANTS
  HOPLIMIT,   \* the constant of fileHandler.go:29
  HopLimit,   \* the -hopLimit flag
  Width,      \* hop limits are uint32: they wrap around at 2^32
  Senders,    \* bound: the nodes whose clients send private messages
  MaxMail     \* bound: how many of these packets are in flight

ASSUME PrivateAssumption ==
  /\ HOPLIMIT \in Nat \ {0}
  /\ Width \in Nat \ {0} /\ HOPLIMIT <= Width /\ HopLimit \in 0 .. (Width - 1)
  /\ Senders \subseteq Nodes
  /\ MaxMail \in Nat

VARIABLE mail  \* private messages and acknowledgements in flight

(* Mutant of Minus1: the hop limit is signed. *)
Minus1Signed(limit) == limit - 1

Minus1(limit) == (limit + Width - 1) % Width

(* Mutant of NextHop: the message goes to any peer. *)
NextHopAny(n, d) == IF peers[n] = {} THEN None ELSE CHOOSE m \in peers[n] : TRUE

NextHop(n, d) == routingTable[n][d]

(* sendMsgTo, if there is a route; without one the message is dropped. *)
Send(n, kind, origin, d, limit) ==
  LET to   == NextHop(n, d)
      sent == IF to = None THEN {}
              ELSE {[kind |-> kind, origin |-> origin, dest |-> d, hopLimit |-> limit,
                     from |-> n, to |-> to]}
  IN /\ mail' \in SUBSET (mail \cup sent)
     /\ Cardinality(mail') <= MaxMail

(* sendNewPrivateMessage *)
SendPrivate(n, d) ==
  /\ n \in Senders /\ d # n
  /\ Send(n, "private", n, d, HOPLIMIT - 1)
  /\ UNCHANGED vars

(* ackTLC and sendNewTLCAck, after handleRumor is done with the message. *)
SendAck(n, r) ==
  /\ Idle(n)
  /\ Holds(n, r) /\ r.origin # n
  /\ Send(n, "ack", n, r.origin, Minus1(HopLimit))
  /\ UNCHANGED vars

MailArrives(n, p) ==
  /\ p.to = n
  /\ Idle(n)
  /\ AddPeer(n, p.from)
  /\ UNCHANGED <<nextID, rumors, clocks, rumorsToAck, rumorsAcked, routingTable,
                 unstored, arrived, inHand, net>>

(* handlePrivateMsg *)
Deliver(n, p) ==
  /\ MailArrives(n, p)
  /\ p.dest = n
  /\ mail' \in SUBSET mail

Discard(n, p) ==
  /\ MailArrives(n, p)
  /\ p.dest # n /\ p.hopLimit = 0
  /\ mail' \in SUBSET mail

Forward(n, p) ==
  /\ MailArrives(n, p)
  /\ p.dest # n /\ p.hopLimit # 0
  /\ Send(n, p.kind, p.origin, p.dest, Minus1(p.hopLimit))

HandlePrivateMsg(n, p) == Deliver(n, p) \/ Discard(n, p) \/ Forward(n, p)

-----------------------------------------------------------------------------
allVars == <<vars, mail>>

PrivateInit ==
  /\ Init
  /\ mail = {}

PrivateNext ==
  \/ Next /\ UNCHANGED mail
  \/ \E n \in Nodes :
       \/ \E d \in Nodes : SendPrivate(n, d)
       \/ \E r \in Rumor : SendAck(n, r)
       \/ \E p \in mail : HandlePrivateMsg(n, p)

PrivateSpec == PrivateInit /\ [][PrivateNext]_allVars

-----------------------------------------------------------------------------
(* Properties. *)

Mail == [kind : {"private", "ack"}, origin : Nodes, dest : Nodes,
         hopLimit : 0 .. (Width - 1), from : Nodes, to : Nodes]

PrivateTypeOK ==
  /\ TypeOK
  /\ mail \subseteq Mail

(* A message is never dropped for want of a route once it was sent, and an  *)
(* acknowledgement not even then: wherever a message was sent or forwarded  *)
(* to is its destination or has a route to it, also when it arrives late    *)
(* or twice and the routes have changed since.  Only the hop limit and the  *)
(* network can end it.                                                     *)
NeverStranded ==
  /\ \A p \in mail : p.to = p.dest \/ routingTable[p.to][p.dest] # None
  /\ \A n \in Nodes : \A r \in Rumor :
       Holds(n, r) /\ r.origin # n => routingTable[n][r.origin] # None
=============================================================================
