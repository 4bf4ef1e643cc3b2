------------------------------- MODULE Gossip -------------------------------
(***************************************************************************)
(* Rumor mongering, status exchange and anti-entropy between gossipers     *)
(* (gossiper.go, main.go, routing.go, sendNewMsg.go).                      *)
(*                                                                         *)
(* Each node runs one goroutine that handles packets (gossipWorker), one   *)
(* anti-entropy goroutine, one goroutine per mongered rumor that waits for *)
(* its acknowledgement, and the goroutines of the clients that publish new *)
(* rumors.  They share the node's state under mutexes.  A step of the      *)
(* model is what happens between two points where another goroutine of the *)
(* same node can see a difference: publishing releases statusMutex after   *)
(* it took an ID and before it stores the rumor, and handleRumor counts a  *)
(* rumor in the status before it stores it.                                *)
(*                                                                         *)
(* In hw3ex3 and hw3ex4 a TLC message carries a clock, the status of its   *)
(* author, and whoever receives it handles the clock first, as if it were  *)
(* the status of the peer that sent the message, the author or a relay.    *)
(*                                                                         *)
(* Abstracted: a node's address is its name; the text of a rumor and the   *)
(* block of a TLC message (a rumor is its origin and its ID); the order of *)
(* Status.Want, of rumorsToAck and of rumorsAcked.  What a TLC message     *)
(* does beyond being a rumor, its author's resending included, is Rounds.  *)
(***************************************************************************)
EXTENDS OnePass, FiniteSets

CONSTANTS
  Nodes,        \* the gossipers
  Links,        \* [node -> its -peers flag]
  Added,        \* bound: [node -> the peers its web client adds at run time]
  Authors,      \* bound: the nodes whose clients publish rumors
  Clocked,      \* the rumors that are TLC messages with a clock (hw3ex3, hw3ex4)
  MaxID,        \* bound: how many rumors each author publishes
  MaxInFlight,  \* bound: how many datagrams the network holds, the rest is lost
  None          \* "" of the routing table

ASSUME GossipAssumption ==
  /\ Links \in [Nodes -> SUBSET Nodes]
  /\ Added \in [Nodes -> SUBSET Nodes]
  /\ Authors \subseteq Nodes
  /\ MaxID \in Nat
  /\ Clocked \subseteq [origin : Nodes, id : 1 .. MaxID]
  /\ MaxInFlight \in Nat
  /\ None \notin Nodes

VARIABLES
  nextID,        \* [n][o] NextID of o in n's Status.Want, 0 when o is not listed
  rumors,        \* [n][o] IDs of the rumors of o that n stored, in storage order
  clocks,        \* [n][r] the clock n stored with the TLC message r of another node
  rumorsToAck,   \* [n][m] rumors n mongered to m and m has not acknowledged
  rumorsAcked,   \* [n][m] rumors acknowledged by m, no coin flipped for them yet
  peers,         \* [n] the peers n knows
  routingTable,  \* [n][o] the next hop from n to o, or None
  unstored,      \* [n] IDs taken by publishing goroutines of n, rumor not stored yet
  arrived,       \* [n] the TLC message of which gossipWorker has handled the clock only
  inHand,        \* [n] the rumor packet gossipWorker is about to store
  net            \* datagrams in flight

vars == <<nextID, rumors, clocks, rumorsToAck, rumorsAcked, peers, routingTable,
          unstored, arrived, inHand, net>>

-----------------------------------------------------------------------------
(* Data. *)

Rumor == [origin : Nodes, id : 1 .. MaxID]

(* "want" is the status a packet carries: of a rumor, its clock.           *)
RumorPacket  == [kind : {"rumor"}, from : Nodes, to : Nodes, rumor : Rumor,
                 want : [Nodes -> Nat]]
StatusPacket == [kind : {"status"}, from : Nodes, to : Nodes, want : [Nodes -> Nat]]

RumorTo(n, m, r, clock) ==
  [kind |-> "rumor", from |-> n, to |-> m, rumor |-> r, want |-> clock]

(* sendStatusTo: the status of n as "want" shows it. *)
StatusTo(n, m, want) == [kind |-> "status", from |-> n, to |-> m, want |-> want]

Held(n, o) == IDs(rumors[n][o])

Holds(n, r) == r.id \in Held(n, r.origin)

(* gossipWorker is between two packets. *)
Idle(n) == arrived[n] = {} /\ inHand[n] = {}

(* A status that lists nobody. *)
NoStatus == [o \in Nodes |-> 0]

(* The clock n sends along with r while its own status is "own": its own    *)
(* messages point at its status, those of others have the clock they came  *)
(* with.                                                                   *)
ClockOf(n, r, own) ==
  IF r \notin Clocked THEN NoStatus ELSE IF r.origin = n THEN own ELSE clocks[n][r]

(* Mutant of Init: a gossiper that does not list itself.                    *)
InitUnlisted ==
  /\ nextID = [n \in Nodes |-> [o \in Nodes |-> 0]]
  /\ rumors = [n \in Nodes |-> [o \in Nodes |-> << >>]]
  /\ clocks = [n \in Nodes |-> [r \in Clocked |-> NoStatus]]
  /\ rumorsToAck = [n \in Nodes |-> [m \in Nodes |-> {}]]
  /\ rumorsAcked = [n \in Nodes |-> [m \in Nodes |-> {}]]
  /\ peers = Links
  /\ routingTable = [n \in Nodes |-> [o \in Nodes |-> None]]
  /\ unstored = [n \in Nodes |-> {}]
  /\ arrived = [n \in Nodes |-> {}]
  /\ inHand = [n \in Nodes |-> {}]
  /\ net = {}

Init ==
  /\ nextID = [n \in Nodes |-> [o \in Nodes |-> IF o = n THEN 1 ELSE 0]]
  /\ rumors = [n \in Nodes |-> [o \in Nodes |-> << >>]]
  /\ clocks = [n \in Nodes |-> [r \in Clocked |-> NoStatus]]
  /\ rumorsToAck = [n \in Nodes |-> [m \in Nodes |-> {}]]
  /\ rumorsAcked = [n \in Nodes |-> [m \in Nodes |-> {}]]
  /\ peers = Links
  /\ routingTable = [n \in Nodes |-> [o \in Nodes |-> None]]
  /\ unstored = [n \in Nodes |-> {}]
  /\ arrived = [n \in Nodes |-> {}]
  /\ inHand = [n \in Nodes |-> {}]
  /\ net = {}

-----------------------------------------------------------------------------
(* UDP: a datagram may be lost, delayed, reordered or delivered twice: a   *)
(* step that sends "sent" leaves in flight any of those and of the ones    *)
(* that were, the received one included.                                   *)
Transmit(sent) ==
  /\ net' \in SUBSET (net \cup sent)
  /\ Cardinality(net') <= MaxInFlight

(* rumormongering, for each <<rumor, peer>> of "mongered": storeMsgToAck,   *)
(* and the packet in "Mongering".  The goroutine it starts,                *)
(* rumormongeringWorker, is the action AckTimeout.  "left" is what is left *)
(* of n's row of rumorsToAck before that.                                  *)
StoreToAck(n, left, mongered) ==
  rumorsToAck' = [rumorsToAck EXCEPT ![n] =
    [m \in Nodes |-> left[m] \cup {x[1] : x \in {y \in mongered : y[2] = m}}]]

Mongering(n, own, mongered) ==
  {RumorTo(n, x[2], x[1], ClockOf(n, x[1], own)) : x \in mongered}

(* handleGossiperConnection: the sender of a packet becomes a peer. *)
AddPeer(n, m) == peers' = [peers EXCEPT ![n] = @ \cup {m}]

-----------------------------------------------------------------------------
(* Publishing: sendNewRumorMessage and sendRumorMsg. *)

(* Mutant of TakeID: NextID is not raised.                                  *)
TakeIDAgain(n) ==
  /\ n \in Authors
  /\ nextID[n][n] <= MaxID
  /\ unstored' = [unstored EXCEPT ![n] = @ \cup {nextID[n][n]}]
  /\ UNCHANGED <<nextID, rumors, clocks, rumorsToAck, rumorsAcked, peers, routingTable,
                 arrived, inHand, net>>

(* Under statusMutex: take the node's own NextID and raise it. *)
TakeID(n) ==
  /\ n \in Authors
  /\ nextID[n][n] <= MaxID
  /\ unstored' = [unstored EXCEPT ![n] = @ \cup {nextID[n][n]}]
  /\ nextID' = [nextID EXCEPT ![n][n] = @ + 1]
  /\ UNCHANGED <<rumors, clocks, rumorsToAck, rumorsAcked, peers, routingTable, arrived,
                 inHand, net>>

(* storeMsg, then rumormongering with a random peer if there is one. *)
Publish(n, id) ==
  LET r == [origin |-> n, id |-> id] IN
  /\ id \in unstored[n]
  /\ unstored' = [unstored EXCEPT ![n] = @ \ {id}]
  /\ rumors' = [rumors EXCEPT ![n][n] = Append(@, id)]
  /\ \/ peers[n] = {} /\ UNCHANGED <<rumorsToAck, net>>
     \/ \E m \in peers[n] :
          /\ StoreToAck(n, rumorsToAck[n], {<<r, m>>})
          /\ Transmit(Mongering(n, nextID[n], {<<r, m>>}))
  /\ UNCHANGED <<nextID, clocks, rumorsAcked, peers, routingTable, arrived, inHand>>

-----------------------------------------------------------------------------
(* handleRumor *)

(* NextID of the origin, after the origin was added to the status if it    *)
(* was unknown.                                                            *)
Expected(n, o) == IF nextID[n][o] = 0 THEN 1 ELSE nextID[n][o]

(* A rumor without a clock, or a TLC message of which the clock was handled.*)
RumorArrives(n, p) ==
  /\ \/ p \in arrived[n]
     \/ p.kind = "rumor" /\ p.to = n /\ p.rumor \notin Clocked /\ Idle(n)
  /\ arrived' = [arrived EXCEPT ![n] = {}]
  /\ AddPeer(n, p.from)

(* A rumor that is already stored is only acknowledged. *)
HandleKnownRumor(n, p) ==
  LET o == p.rumor.origin IN
  /\ RumorArrives(n, p)
  /\ Holds(n, p.rumor)
  /\ nextID' = [nextID EXCEPT ![n][o] = Expected(n, o)]
  /\ Transmit({StatusTo(n, p.from, nextID'[n])})
  /\ UNCHANGED <<rumors, clocks, rumorsToAck, rumorsAcked, routingTable, unstored, inHand>>

(* A new rumor, up to the release of rumorsMutex and statusMutex: the      *)
(* route to its origin, and NextID if it is the one expected.              *)
HandleNewRumor(n, p) ==
  LET o  == p.rumor.origin
      id == p.rumor.id
  IN
  /\ RumorArrives(n, p)
  /\ ~ Holds(n, p.rumor)
  /\ routingTable' = IF id >= Expected(n, o)
                     THEN [routingTable EXCEPT ![n][o] = p.from]
                     ELSE routingTable
  /\ \/ /\ id = Expected(n, o)
        /\ nextID' = [nextID EXCEPT ![n][o] = OnePass(rumors[n][o], id + 1)]
     \/ /\ id # Expected(n, o)
        /\ nextID' = [nextID EXCEPT ![n][o] = Expected(n, o)]
  /\ inHand' = [inHand EXCEPT ![n] = {p}]
  /\ Transmit({})
  /\ UNCHANGED <<rumors, clocks, rumorsToAck, rumorsAcked, unstored>>

(* A TLC message is stored with the clock it came with. *)
StoreClock(n, p) ==
  clocks' = [clocks EXCEPT ![n] =
    [r \in Clocked |-> IF r = p.rumor THEN p.want ELSE @[r]]]

(* Mutant of StoreRumor: the rumor replaces the ones stored before.         *)
StoreRumorAlone(n) ==
  \E p \in inHand[n], m \in peers[n] :
    /\ rumors' = [rumors EXCEPT ![n][p.rumor.origin] = <<p.rumor.id>>]
    /\ StoreToAck(n, rumorsToAck[n], {<<p.rumor, m>>})
    /\ StoreClock(n, p)
    /\ Transmit({StatusTo(n, p.from, nextID[n]), RumorTo(n, m, p.rumor, p.want)})
    /\ inHand' = [inHand EXCEPT ![n] = {}]
    /\ UNCHANGED <<nextID, rumorsAcked, peers, routingTable, unstored, arrived>>

(* The rest of handleRumor for a new rumor: storeNewMsg, sendStatusTo and   *)
(* rumormongering with a random peer, which may be the sender.             *)
StoreRumor(n) ==
  \E p \in inHand[n], m \in peers[n] :
    /\ rumors' = [rumors EXCEPT ![n][p.rumor.origin] = Append(@, p.rumor.id)]
    /\ StoreToAck(n, rumorsToAck[n], {<<p.rumor, m>>})
    /\ StoreClock(n, p)
    /\ Transmit({StatusTo(n, p.from, nextID[n]), RumorTo(n, m, p.rumor, p.want)})
    /\ inHand' = [inHand EXCEPT ![n] = {}]
    /\ UNCHANGED <<nextID, rumorsAcked, peers, routingTable, unstored, arrived>>

-----------------------------------------------------------------------------
(* handleStatus *)

(* Mutant of StatusArrives: gossipWorker takes a packet in the middle of     *)
(* another one.                                                            *)
StatusArrivesBusy(n, p) ==
  /\ p.to = n
  /\ \/ p.kind = "status" /\ arrived' = arrived
     \/ /\ p.kind = "rumor" /\ p.rumor \in Clocked
        /\ arrived' = [arrived EXCEPT ![n] = @ \cup {p}]
  /\ AddPeer(n, p.from)

(* A status, or a TLC message: its clock is handled as the status of the    *)
(* peer that sent it, before handleRumor.                                  *)
StatusArrives(n, p) ==
  /\ p.to = n
  /\ \/ p.kind = "status" /\ arrived' = arrived
     \/ /\ p.kind = "rumor" /\ p.rumor \in Clocked
        /\ arrived' = [arrived EXCEPT ![n] = {p}]
  /\ Idle(n)
  /\ AddPeer(n, p.from)

Listed(want) == {o \in Nodes : want[o] # 0}

(* The origins both sides list. *)
Common(n, want) == {o \in Listed(want) : nextID[n][o] # 0}

(* Mutant of Ahead: one rumor ahead does not count.                         *)
AheadByTwo(n, want) == {o \in Common(n, want) : nextID[n][o] > want[o] + 1}

Ahead(n, want) == {o \in Common(n, want) : nextID[n][o] > want[o]}

(* msgToReceive: the sender has rumors n has not counted. *)
Behind(n, want) ==
  \/ \E o \in Common(n, want) : nextID[n][o] < want[o]
  \/ \E o \in Listed(want) \ Common(n, want) : want[o] > 1

(* Mutant of AddOrigins: a new origin gets the sender's NextID.             *)
AddOriginsCopied(n, want) ==
  nextID' = [nextID EXCEPT ![n] =
    [o \in Nodes |-> IF o \in Listed(want) /\ @[o] = 0 THEN want[o] ELSE @[o]]]

(* New origins of the status are added to n's own. *)
AddOrigins(n, want) ==
  nextID' = [nextID EXCEPT ![n] =
    [o \in Nodes |-> IF o \in Listed(want) /\ @[o] = 0 THEN 1 ELSE @[o]]]

(* Mutants of Answered: off by one more, and whatever NextID is.            *)
AnsweredEarly(n, m, want) ==
  {r \in rumorsToAck[n][m] : r.origin \in Common(n, want) /\ want[r.origin] + 1 >= r.id}

AnsweredAny(n, m, want) == {r \in rumorsToAck[n][m] : r.origin \in Common(n, want)}

(* The unacknowledged rumors that the status answers: NextID >= ID.        *)
Answered(n, m, want) ==
  {r \in rumorsToAck[n][m] : r.origin \in Common(n, want) /\ want[r.origin] >= r.id}

(* "got" is msgToAck.  Removing an entry from rumorsToAck makes the loop    *)
(* skip the entry after it, so up to half of the answered rumors of an     *)
(* origin can stay.                                                        *)
Acked(n, m, want, got) ==
  /\ got \subseteq Answered(n, m, want)
  /\ \A o \in Nodes :
       LET of(S) == {r \in S : r.origin = o} IN
       2 * Cardinality(of(got)) >= Cardinality(of(Answered(n, m, want)))

Unacked(n, m, got) == [rumorsToAck[n] EXCEPT ![m] = @ \ got]

StoreAcked(n, m, got) == rumorsAcked' = [rumorsAcked EXCEPT ![n][m] = @ \cup got]

(* n is ahead on some origin: the rumor the sender wants goes to it.       *)
(* Which origin depends on the order of Want.                              *)
SendMissing(n, p) ==
  LET m == p.from IN
  /\ StatusArrives(n, p)
  /\ AddOrigins(n, p.want)
  /\ \E o \in Ahead(n, p.want), got \in SUBSET Answered(n, m, p.want) :
       LET r == [origin |-> o, id |-> p.want[o]]
           mongered == IF Holds(n, r) THEN {<<r, m>>} ELSE {}
       IN
       /\ Acked(n, m, p.want, got)
       /\ StoreAcked(n, m, got)
       /\ StoreToAck(n, Unacked(n, m, got), mongered)
       /\ Transmit(Mongering(n, nextID'[n], mongered))
  /\ UNCHANGED <<rumors, clocks, routingTable, unstored, inHand>>

(* n is behind: it answers with its own status. *)
AskForMissing(n, p) ==
  LET m == p.from IN
  /\ StatusArrives(n, p)
  /\ Ahead(n, p.want) = {}
  /\ Behind(n, p.want)
  /\ AddOrigins(n, p.want)
  /\ \E got \in SUBSET Answered(n, m, p.want) :
       /\ Acked(n, m, p.want, got)
       /\ StoreAcked(n, m, got)
       /\ StoreToAck(n, Unacked(n, m, got), {})
  /\ Transmit({StatusTo(n, m, nextID'[n])})
  /\ UNCHANGED <<rumors, clocks, routingTable, unstored, inHand>>

(* In sync: a coin for every acknowledged rumor, now or earlier, and those *)
(* that win it go to a random peer each.  A rumor acknowledged twice has   *)
(* two coins.                                                              *)
FlipCoins(n, p) ==
  LET m == p.from IN
  /\ StatusArrives(n, p)
  /\ Ahead(n, p.want) = {}
  /\ ~ Behind(n, p.want)
  /\ AddOrigins(n, p.want)
  /\ \E got \in SUBSET Answered(n, m, p.want) :
       LET coins == {r \in got \cup rumorsAcked[n][m] : Holds(n, r)} IN
       /\ Acked(n, m, p.want, got)
       /\ rumorsAcked' = [rumorsAcked EXCEPT ![n][m] = {}]
       /\ \E mongered \in SUBSET (coins \X peers'[n]) :
            /\ \A r \in coins :
                 Cardinality({x \in mongered : x[1] = r})
                   <= IF r \in got /\ r \in rumorsAcked[n][m] THEN 2 ELSE 1
            /\ StoreToAck(n, Unacked(n, m, got), mongered)
            /\ Transmit(Mongering(n, nextID'[n], mongered))
  /\ UNCHANGED <<rumors, clocks, routingTable, unstored, inHand>>

-----------------------------------------------------------------------------
(* Tickers. *)

(* rumormongeringWorker: the rumor was not acknowledged in time, it is     *)
(* mongered to a random peer, maybe the same.                              *)
AckTimeout(n, m, r) ==
  /\ r \in rumorsToAck[n][m]
  /\ \E k \in peers[n] :
       /\ StoreToAck(n, Unacked(n, m, {r}), {<<r, k>>})
       /\ Transmit(Mongering(n, nextID[n], {<<r, k>>}))
  /\ UNCHANGED <<nextID, rumors, clocks, rumorsAcked, peers, routingTable, unstored,
                 arrived, inHand>>

(* antientropy: the status goes to a random peer. *)
AntiEntropy(n, m) ==
  /\ m \in peers[n]
  /\ Transmit({StatusTo(n, m, nextID[n])})
  /\ UNCHANGED <<nextID, rumors, clocks, rumorsToAck, rumorsAcked, peers, routingTable,
                 unstored, arrived, inHand>>

(* The web server's POST of a new node. *)
AddNode(n, m) ==
  /\ m \in Added[n] \ peers[n]
  /\ AddPeer(n, m)
  /\ UNCHANGED <<nextID, rumors, clocks, rumorsToAck, rumorsAcked, routingTable,
                 unstored, arrived, inHand, net>>

-----------------------------------------------------------------------------
HandleRumor(n, p) == HandleKnownRumor(n, p) \/ HandleNewRumor(n, p)

HandleStatus(n, p) == SendMissing(n, p) \/ AskForMissing(n, p) \/ FlipCoins(n, p)

Next ==
  \E n \in Nodes :
    \/ TakeID(n)
    \/ \E id \in unstored[n] : Publish(n, id)
    \/ \E p \in net \cup arrived[n] : HandleRumor(n, p)
    \/ StoreRumor(n)
    \/ \E p \in net : HandleStatus(n, p)
    \/ \E m \in Nodes, r \in Rumor : AckTimeout(n, m, r)
    \/ \E m \in Nodes : AntiEntropy(n, m) \/ AddNode(n, m)

Spec == Init /\ [][Next]_vars

-----------------------------------------------------------------------------
(* Fairness: the tickers keep ticking, gossipWorker keeps handling what     *)
(* arrives, a publishing goroutine finishes, and the network is fair-lossy: *)
(* a datagram sent again and again is delivered, and once handled it is    *)
(* not delivered for ever.                                                 *)

Delivered(sent) == sent \subseteq net'

(* A status that still is its sender's, and what it asks for is sent.      *)
AnswerStatus(n, m) ==
  \E p \in net :
    /\ p.kind = "status" /\ p.from = m /\ p.want = nextID[m]
    /\ HandleStatus(n, p)
    /\ \A o \in Ahead(n, p.want) :
         LET r == [origin |-> o, id |-> p.want[o]] IN
         Holds(n, r) => Delivered({RumorTo(n, m, r, ClockOf(n, r, nextID'[n]))})

ReceiveNext(n) ==
  \E p \in net :
    /\ p.kind = "rumor" /\ p.rumor.id = Expected(n, p.rumor.origin)
    /\ HandleRumor(n, p) \/ HandleStatus(n, p)

Fairness ==
  \A n \in Nodes :
    /\ WF_vars(\E id \in unstored[n] : Publish(n, id))
    /\ WF_vars(StoreRumor(n) \/ \E p \in arrived[n] : HandleRumor(n, p))
    /\ SF_vars(ReceiveNext(n))
    /\ \A m \in Nodes \ {n} :
         /\ SF_vars(AnswerStatus(n, m))
         /\ WF_vars(AntiEntropy(n, m) /\ Delivered({StatusTo(n, m, nextID[n])}))

FairSpec == Spec /\ Fairness

-----------------------------------------------------------------------------
(* Properties. *)

(* Every variable has its type; a node lists itself from the start, and     *)
(* gossipWorker handles one packet at a time.                              *)
TypeOK ==
  /\ nextID \in [Nodes -> [Nodes -> Nat]]
  /\ \A n \in Nodes : nextID[n][n] # 0
  /\ rumors \in [Nodes -> [Nodes -> Seq(1 .. MaxID)]]
  /\ clocks \in [Nodes -> [Clocked -> [Nodes -> Nat]]]
  /\ rumorsToAck \in [Nodes -> [Nodes -> SUBSET Rumor]]
  /\ rumorsAcked \in [Nodes -> [Nodes -> SUBSET Rumor]]
  /\ peers \in [Nodes -> SUBSET Nodes]
  /\ routingTable \in [Nodes -> [Nodes -> Nodes \cup {None}]]
  /\ unstored \in [Nodes -> SUBSET (1 .. MaxID)]
  /\ arrived \in [Nodes -> SUBSET RumorPacket]
  /\ inHand \in [Nodes -> SUBSET RumorPacket]
  /\ net \subseteq RumorPacket \cup StatusPacket

(* Where a rumor counted in n's status can be: stored, in gossipWorker's    *)
(* hands, or in those of a publishing goroutine.                           *)
Counted(n, o, id) ==
  \/ id \in Held(n, o)
  \/ \E p \in inHand[n] : p.rumor = [origin |-> o, id |-> id]
  \/ n = o /\ id \in unstored[n]

(* The status never skips a rumor: every ID below NextID of an origin was   *)
(* received or published (handleRumor's "if we were expecting this          *)
(* message", gossiper.go:150), in whatever order rumors arrive.            *)
PrefixHeld ==
  \A n, o \in Nodes : \A id \in 1 .. (nextID[n][o] - 1) : Counted(n, o, id)

(* No status, held, in flight or carried as a clock, is ahead of the        *)
(* origin's own: nobody asks for a rumor its origin has not published.     *)
StatusBounded ==
  /\ \A n, o \in Nodes : nextID[n][o] <= nextID[o][o]
  /\ \A p \in net : \A o \in Nodes : p.want[o] <= nextID[o][o]

(* A route is never a dead end: the next hop to an origin is the origin or  *)
(* has a route to it, so a forwarded private message, data request or reply *)
(* is not dropped for want of an entry (gossiper.go:371-392).              *)
RouteUsable ==
  \A n, o \in Nodes :
    routingTable[n][o] # None =>
      \/ routingTable[n][o] = o
      \/ routingTable[routingTable[n][o]][o] # None

(* A rumor is stored once, although its check (gossiper.go:153-160) and its *)
(* storing (gossiper.go:189) do not hold the mutex together.               *)
StoredOnce ==
  \A n, o \in Nodes : \A i, j \in DOMAIN rumors[n][o] :
    rumors[n][o][i] = rumors[n][o][j] => i = j

(* No TLC message with a clock was published yet (never one before hw3ex3). *)
NoClocks == \A r \in Clocked : ~ Holds(r.origin, r)

(* What an acknowledgement guarantees as long as no TLC message carries a   *)
(* clock: when m acknowledged a rumor, it had received all the earlier     *)
(* rumors of that origin.  A clock is taken for the status of whoever      *)
(* relays it (gossiper.go:734-737), so after one no acknowledgement means  *)
(* anything.                                                               *)
AckedPrefix ==
  NoClocks =>
    \A n, m \in Nodes : \A r \in rumorsAcked[n][m] : \A id \in 1 .. (r.id - 1) :
      Counted(m, r.origin, id)

(* NextID stopped below a stored rumor: no status asks for it, nor for a    *)
(* later one, ever again.                                                  *)
LeftBehind(n, o) == nextID[n][o] \in Held(n, o)

(* A node lacks no rumor that o has published so far.                      *)
CaughtUp(n, o) == Held(o, o) \subseteq Held(n, o)

(* Every rumor reaches every node, however many datagrams are lost          *)
(* (antientropy and the status exchange make up for them), unless the      *)
(* single pass of gossiper.go:172-184 left a node behind: it then neither  *)
(* asks for the rumors it lacks nor lets its neighbours have them.  Again  *)
(* and again, that is, all nodes have all that was published until then.   *)
Converges ==
  \A o \in Authors :
    []<>((\A n \in Nodes : CaughtUp(n, o)) \/ (\E n \in Nodes : LeftBehind(n, o)))

(* What test_2_ring.sh:176-178 expects of a status: NextID is the first ID  *)
(* the node does not have.                                                 *)
WantsMissing ==
  \A n, o \in Nodes : Idle(n) => ~ LeftBehind(n, o)

-----------------------------------------------------------------------------
(* What gossiping promises: RumorSpread, a node knowing what it has stored. *)

Known == [n \in Nodes |-> {r \in Rumor : Holds(n, r)}]

RS == INSTANCE RumorSpread WITH known <- Known

(* Whatever the network does, rumors spread by being copied: none is        *)
(* published twice under the same ID, invented or forgotten.               *)
Spread == RS!Spec

-----------------------------------------------------------------------------
(* The inductive invariant behind these properties. *)

(* A packet shows what its sender has: the rumor it carries is stored; a    *)
(* status is not ahead of its sender's.                                    *)
PacketOK(p) ==
  /\ p.kind = "rumor" => Holds(p.from, p.rumor)
  /\ p.kind = "status" => \A o \in Nodes : p.want[o] <= nextID[p.from][o]

(* So does the one whose clock was handled, which gossipWorker handles next.*)
ArrivedOK ==
  \A n \in Nodes : \A p \in arrived[n] : Holds(p.from, p.rumor) /\ inHand[n] = {}

(* No clock in gossipWorker's hands, or stored, is ahead of the origins.    *)
ClocksOK ==
  \A n, o \in Nodes :
    /\ \A p \in arrived[n] \cup inHand[n] : p.want[o] <= nextID[o][o]
    /\ \A r \in Clocked : clocks[n][r][o] <= nextID[o][o]

(* The rumor gossipWorker is storing is new to the node, another's, from a  *)
(* peer that has it, and has a route.                                      *)
InHandOK ==
  \A n \in Nodes : \A p \in inHand[n] :
    /\ inHand[n] = {p}
    /\ Holds(p.from, p.rumor)
    /\ ~ Holds(n, p.rumor)
    /\ p.rumor.origin # n
    /\ routingTable[n][p.rumor.origin] # None
    /\ nextID[n][p.rumor.origin] # 0

(* Only stored rumors are mongered and acknowledged, and without clocks a   *)
(* peer that acknowledged one has NextID at least at its ID.               *)
AcksOK ==
  \A n, m \in Nodes :
    /\ \A r \in rumorsToAck[n][m] : Holds(n, r)
    /\ \A r \in rumorsAcked[n][m] :
         Holds(n, r) /\ (NoClocks => r.id <= nextID[m][r.origin])

(* A node holds or is about to hold exactly the rumors it took an ID for.   *)
OwnOK ==
  \A n \in Nodes : \A id \in 1 .. MaxID :
    /\ (id \in Held(n, n) \/ id \in unstored[n]) <=> id < nextID[n][n]
    /\ ~ (id \in Held(n, n) /\ id \in unstored[n])

(* Rumors come from their origin, and leave a route and an entry in the     *)
(* status.                                                                 *)
OriginOK ==
  \A n, o \in Nodes : \A id \in Held(n, o) :
    /\ id \in Held(o, o)
    /\ nextID[n][o] # 0
    /\ n # o => routingTable[n][o] # None

IInv ==
  /\ TypeOK
  /\ \A p \in net : PacketOK(p)
  /\ ArrivedOK
  /\ ClocksOK
  /\ InHandOK
  /\ AcksOK
  /\ OwnOK
  /\ OriginOK
  /\ PrefixHeld
  /\ StatusBounded
  /\ RouteUsable
  /\ StoredOnce
=============================================================================
