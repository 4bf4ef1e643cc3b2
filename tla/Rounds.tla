------------------------------- MODULE Rounds -------------------------------
(***************************************************************************)
(* TLC messages, their confirmation by a majority, and the rounds built on *)
(* them: hw3ex2 and hw3ex3 (blockchain.go, gossiper.go:732-791).           *)
(*                                                                         *)
(* Listing a file publishes a TLC message, if the round allows it, and     *)
(* starts a goroutine that collects its acknowledgements from a channel    *)
(* listed in gos.tlcAcks; with a majority of them it publishes the         *)
(* confirmation.  Otherwise a goroutine waits for the message's round.     *)
(* Whoever confirms a message or learns of a confirmation calls            *)
(* incrementMytime, which is not atomic: gossipWorker, the client's        *)
(* goroutine and the collecting goroutines can be in it at the same time.  *)
(*                                                                         *)
(* Abstracted: the gossiping of TLC messages (a published message can      *)
(* arrive anywhere at any time, again and again, see Gossip), the hops of  *)
(* an acknowledgement and its loss (it can arrive never or many times),    *)
(* the block of a message, the capacity of ten of the tlcAcks channels.    *)
(***************************************************************************)
EXTENDS Naturals, Sequences, FiniteSetsExt

CONSTANTS
  Nodes,
  Ex2,         \* the -hw3ex2 flag: confirmations without rounds
  AckAll,      \* the -ackAll flag
  MaxFiles,    \* bound: [node -> files it lists]
  MaxRumors    \* bound: [node -> other rumors (chat, route rumors) it sends]

ASSUME RoundsAssumption ==
  /\ IsFiniteSet(Nodes)
  /\ Ex2 \in BOOLEAN
  /\ AckAll \in BOOLEAN
  /\ MaxFiles \in [Nodes -> Nat]
  /\ MaxRumors \in [Nodes -> Nat]

(* A file takes two IDs, for its message and for the confirmation. *)
LastID == Max({MaxRumors[n] + 2 * MaxFiles[n] : n \in Nodes})
IDs == 1 .. LastID
Files == 1 .. Max({MaxFiles[n] : n \in Nodes})

(* Who can be in incrementMytime: gossipWorker, the client's goroutine, and *)
(* the goroutine that collects the acknowledgements of a message.          *)
Worker  == 0
Client  == LastID + 1
Callers == {Worker, Client} \cup IDs

VARIABLES
  nextID,       \* [n] NextID of n in its own status
  published,    \* [o] TLC messages of o in circulation
  known,        \* [n][o] IDs of tlcMessages
  confirmed,    \* [n][o] IDs of tlcMessages with Confirmed set
  early,        \* [n][o] unconfirmedTLC: IDs confirmed before the message came
  reported,     \* [n][o] IDs reported as CONFIRMED GOSSIP
  acked,        \* acknowledgements sent
  myTime,       \* [n] the round
  gossipWithConf, \* [n] the list of [round, file], file 0 for a nil channel
  halted,       \* [n][file] state of the goroutine waitForRound
  notifying,    \* [n] the entry of gossipWithConf a caller is sending to, or 0
  tlcAcks,      \* [n][id] channel of the goroutine waitForAckTLC of a message
  acks,         \* [n][id] the nodes whose acknowledgement it received
  inbox,        \* [n][id] acknowledgements in the channel
  stage,        \* [n][caller] where the caller is in incrementMytime
  lenGossipConf, \* [n][caller] the length of gossipWithConf it has read
  files,        \* [n] files listed so far
  others,       \* [n] other rumors sent so far
  panicked      \* nodes whose process ended in a panic

messages  == <<nextID, published>>
tlcVars   == <<known, confirmed, early, reported>>
roundVars == <<myTime, gossipWithConf, halted, notifying, lenGossipConf>>
ackVars   == <<tlcAcks, acks, inbox>>
bounds    == <<files, others>>
vars == <<messages, tlcVars, acked, roundVars, ackVars, stage, bounds, panicked>>

N == Cardinality(Nodes)   \* the -N flag

(* Mutant of Majority: half of the nodes is enough.                        *)
MajorityOrHalf(count) == count >= N \div 2

(* len(acks) > N / 2 *)
Majority(count) == count > N \div 2

Init ==
  /\ nextID = [n \in Nodes |-> 1]
  /\ published = [n \in Nodes |-> {}]
  /\ known = [n \in Nodes |-> [o \in Nodes |-> {}]]
  /\ confirmed = known
  /\ early = known
  /\ reported = known
  /\ acked = {}
  /\ myTime = [n \in Nodes |-> 0]
  /\ gossipWithConf = [n \in Nodes |-> << >>]
  /\ halted = [n \in Nodes |-> [f \in Files |-> "none"]]
  /\ notifying = [n \in Nodes |-> 0]
  /\ tlcAcks = [n \in Nodes |-> [id \in IDs |-> "none"]]
  /\ acks = [n \in Nodes |-> [id \in IDs |-> {}]]
  /\ inbox = acks
  /\ stage = [n \in Nodes |-> [k \in Callers |-> "out"]]
  /\ lenGossipConf = [n \in Nodes |-> [k \in Callers |-> 0]]
  /\ files = [n \in Nodes |-> 0]
  /\ others = [n \in Nodes |-> 0]
  /\ panicked = {}

(* gossipWithConfMutex is held while the round is sent to the channels. *)
ConfMutexFree(n) == notifying[n] = 0

Runs(n) == n \notin panicked

-----------------------------------------------------------------------------
(* The node's own NextID is taken.  The bound is enough for every file and  *)
(* rumor.                                                                  *)
TakeID(n) ==
  /\ nextID[n] \in IDs
  /\ nextID' = [nextID EXCEPT ![n] = @ + 1]

(* Publishing a TLC message: sendNewRumorMessage, tlcMessages, and the     *)
(* goroutine waitForAckTLC with its channel.                               *)
PublishTLC(n) ==
  LET id == nextID[n] IN
  /\ TakeID(n)
  /\ published' = [published EXCEPT ![n] = @ \cup {[id |-> id, of |-> 0]}]
  /\ known' = [known EXCEPT ![n][n] = @ \cup {id}]
  /\ tlcAcks' = [tlcAcks EXCEPT ![n][id] = "open"]
  /\ acks' = [acks EXCEPT ![n][id] = {n}]

(* listFile without rounds. *)
ListFileEx2(n) ==
  /\ Runs(n) /\ Ex2
  /\ files[n] < MaxFiles[n]
  /\ PublishTLC(n)
  /\ files' = [files EXCEPT ![n] = @ + 1]
  /\ UNCHANGED <<confirmed, early, reported, acked, roundVars, inbox, stage, others,
                 panicked>>

(* sendNewGossipWithConf when the round has no message of the node yet. *)
ListFileNow(n) ==
  /\ Runs(n) /\ ~ Ex2 /\ ConfMutexFree(n)
  /\ files[n] < MaxFiles[n]
  /\ stage[n][Client] = "out"
  /\ Len(gossipWithConf[n]) = myTime[n]
  /\ PublishTLC(n)
  /\ gossipWithConf' = [gossipWithConf EXCEPT ![n] =
       Append(@, [round |-> myTime[n], file |-> 0])]
  /\ stage' = [stage EXCEPT ![n][Client] = "check"]
  /\ files' = [files EXCEPT ![n] = @ + 1]
  /\ UNCHANGED <<confirmed, early, reported, acked, myTime, halted, notifying,
                 lenGossipConf, inbox, others, panicked>>

(* Otherwise the message is for the round after those that have one. *)
ListFileLater(n) ==
  /\ Runs(n) /\ ~ Ex2 /\ ConfMutexFree(n)
  /\ files[n] < MaxFiles[n]
  /\ stage[n][Client] = "out"
  /\ Len(gossipWithConf[n]) # myTime[n]
  /\ files' = [files EXCEPT ![n] = @ + 1]
  /\ gossipWithConf' = [gossipWithConf EXCEPT ![n] =
       Append(@, [round |-> Len(@), file |-> files'[n]])]
  /\ halted' = [halted EXCEPT ![n][files'[n]] = "waiting"]
  /\ UNCHANGED <<messages, tlcVars, acked, myTime, notifying, lenGossipConf, ackVars,
                 stage, others, panicked>>

(* A rumor that is not a TLC message takes an ID as well. *)
OtherRumor(n) ==
  /\ Runs(n)
  /\ others[n] < MaxRumors[n]
  /\ others' = [others EXCEPT ![n] = @ + 1]
  /\ TakeID(n)
  /\ UNCHANGED <<published, tlcVars, acked, roundVars, ackVars, stage, files, panicked>>

-----------------------------------------------------------------------------
(* incrementMytime, by one of its callers. *)

LastOwn(n) == CHOOSE id \in known[n][n] : \A i \in known[n][n] : i <= id

(* The nodes with a confirmed message whose ID is that of n's last one. *)
Witnesses(n) ==
  IF known[n][n] = {} THEN {} ELSE {o \in Nodes : LastOwn(n) \in confirmed[n][o]}

(* Back in the caller: a goroutine waitForAckTLC has still to remove its    *)
(* channel.                                                                *)
After(k) == IF k \in IDs THEN "remove" ELSE "out"

(* Where a caller is that learned of a confirmation. *)
Advancing(k) == IF Ex2 THEN After(k) ELSE "check"

(* The witnesses are counted under one mutex, and once. *)
CountWitnesses(n, k) ==
  /\ Runs(n)
  /\ stage[n][k] = "check"
  /\ stage' = [stage EXCEPT ![n][k] =
       IF Majority(Cardinality(Witnesses(n))) THEN "counted" ELSE "short"]
  /\ UNCHANGED <<messages, tlcVars, acked, roundVars, ackVars, bounds, panicked>>

(* The length is read under another, whatever the count was. *)
ReadLength(n, k) ==
  /\ Runs(n) /\ ConfMutexFree(n)
  /\ \/ /\ stage[n][k] = "counted"
        /\ lenGossipConf' = [lenGossipConf EXCEPT ![n][k] = Len(gossipWithConf[n])]
        /\ stage' = [stage EXCEPT ![n][k] = "measured"]
     \/ /\ stage[n][k] = "short"
        /\ stage' = [stage EXCEPT ![n][k] = After(k)]
        /\ UNCHANGED lenGossipConf
  /\ UNCHANGED <<messages, tlcVars, acked, myTime, gossipWithConf, halted, notifying,
                 ackVars, bounds, panicked>>

(* The round is compared with that length, which may be an old one by then. *)
CheckRound(n, k) ==
  /\ Runs(n)
  /\ stage[n][k] = "measured"
  /\ stage' = [stage EXCEPT ![n][k] =
       IF lenGossipConf[n][k] > myTime[n] THEN "passed" ELSE After(k)]
  /\ lenGossipConf' = [lenGossipConf EXCEPT ![n][k] = 0]
  /\ UNCHANGED <<messages, tlcVars, acked, myTime, gossipWithConf, halted, notifying,
                 ackVars, bounds, panicked>>

AddRound(n, k) ==
  /\ Runs(n)
  /\ stage[n][k] = "passed"
  /\ myTime' = [myTime EXCEPT ![n] = @ + 1]
  /\ stage' = [stage EXCEPT ![n][k] = "added"]
  /\ UNCHANGED <<messages, tlcVars, acked, gossipWithConf, halted, notifying,
                 lenGossipConf, ackVars, bounds, panicked>>

(* The channels of tlcAcks are closed; closing one twice is a panic. *)
CloseAcks(n, k) ==
  /\ Runs(n)
  /\ stage[n][k] = "added"
  /\ IF \E id \in IDs : tlcAcks[n][id] = "closed"
     THEN /\ panicked' = panicked \cup {n}
          /\ UNCHANGED <<tlcAcks, stage>>
     ELSE /\ tlcAcks' = [tlcAcks EXCEPT ![n] =
               [id \in IDs |-> IF @[id] = "open" THEN "closed" ELSE @[id]]]
          /\ stage' = [stage EXCEPT ![n][k] = "notify"]
          /\ UNCHANGED panicked
  /\ UNCHANGED <<messages, tlcVars, acked, roundVars, acks, inbox, bounds>>

(* The first entry of gossipWithConf after the i-th that has a channel, 0   *)
(* for none.                                                               *)
NextHalted(n, i) ==
  LET later == {j \in DOMAIN gossipWithConf[n] : i < j /\ gossipWithConf[n][j].file # 0}
  IN  IF later = {} THEN 0 ELSE Min(later)

(* The round goes to every goroutine that waits for one, with the mutex    *)
(* held until all have received it.                                        *)
StartNotifying(n, k) ==
  /\ Runs(n) /\ ConfMutexFree(n)
  /\ stage[n][k] = "notify"
  /\ notifying' = [notifying EXCEPT ![n] = NextHalted(n, 0)]
  /\ stage' = [stage EXCEPT ![n][k] = IF notifying'[n] = 0 THEN After(k) ELSE "notifying"]
  /\ UNCHANGED <<messages, tlcVars, acked, myTime, gossipWithConf, halted,
                 lenGossipConf, ackVars, bounds, panicked>>

NotifyHalted(n, k) ==
  /\ Runs(n)
  /\ stage[n][k] = "notifying"
  /\ LET e == gossipWithConf[n][notifying[n]] IN
       /\ halted[n][e.file] = "waiting"
       /\ halted' = [halted EXCEPT ![n][e.file] =
            IF e.round = myTime[n] THEN "released" ELSE @]
  /\ notifying' = [notifying EXCEPT ![n] = NextHalted(n, @)]
  /\ stage' = [stage EXCEPT ![n][k] = IF notifying'[n] = 0 THEN After(k) ELSE @]
  /\ UNCHANGED <<messages, tlcVars, acked, myTime, gossipWithConf, lenGossipConf,
                 ackVars, bounds, panicked>>

IncrementMytime(n, k) ==
  \/ CountWitnesses(n, k)
  \/ ReadLength(n, k)
  \/ CheckRound(n, k)
  \/ AddRound(n, k)
  \/ CloseAcks(n, k)
  \/ StartNotifying(n, k)
  \/ NotifyHalted(n, k)

-----------------------------------------------------------------------------
(* waitForRound, once its round came: the message is published, and then   *)
(* its entry leaves gossipWithConf.                                        *)

PublishReleased(n, f) ==
  /\ Runs(n)
  /\ halted[n][f] = "released"
  /\ PublishTLC(n)
  /\ halted' = [halted EXCEPT ![n][f] = "published"]
  /\ UNCHANGED <<confirmed, early, reported, acked, myTime, gossipWithConf,
                 notifying, lenGossipConf, inbox, stage, bounds, panicked>>

(* The list without the last entry that has the channel of f. *)
WithoutEntry(list, f) ==
  LET places == {k \in DOMAIN list : list[k].file = f}
      i == Max(places)
  IN  IF places = {} THEN list ELSE SubSeq(list, 1, i - 1) \o SubSeq(list, i + 1, Len(list))

RemoveEntry(n, f) ==
  /\ Runs(n) /\ ConfMutexFree(n)
  /\ halted[n][f] = "published"
  /\ halted' = [halted EXCEPT ![n][f] = "none"]
  /\ gossipWithConf' = [gossipWithConf EXCEPT ![n] = WithoutEntry(@, f)]
  /\ UNCHANGED <<messages, tlcVars, acked, myTime, notifying, lenGossipConf, ackVars,
                 stage, bounds, panicked>>

-----------------------------------------------------------------------------
(* waitForAckTLC *)

ReceiveAck(n, id, m) ==
  /\ Runs(n)
  /\ tlcAcks[n][id] # "none" /\ stage[n][id] = "out"
  /\ m \in inbox[n][id]
  /\ inbox' = [inbox EXCEPT ![n][id] = @ \ {m}]
  /\ acks' = [acks EXCEPT ![n][id] = @ \cup {m}]

(* An acknowledgement that does not make a majority. *)
CollectAck(n, id, m) ==
  /\ ReceiveAck(n, id, m)
  /\ ~ Majority(Cardinality(acks'[n][id]))
  /\ UNCHANGED <<messages, tlcVars, acked, roundVars, tlcAcks, stage, bounds, panicked>>

(* The one that does: the confirmation is published under a new ID. *)
Confirm(n, id, m) ==
  /\ ReceiveAck(n, id, m)
  /\ Majority(Cardinality(acks'[n][id]))
  /\ confirmed' = [confirmed EXCEPT ![n][n] = @ \cup {id}]
  /\ TakeID(n)
  /\ published' = [published EXCEPT ![n] = @ \cup {[id |-> nextID[n], of |-> id]}]
  /\ stage' = [stage EXCEPT ![n][id] = Advancing(id)]
  /\ UNCHANGED <<known, early, reported, acked, roundVars, tlcAcks, bounds, panicked>>

(* deleteTLCAcksChannel, after the confirmation, or because the channel was *)
(* closed and is empty; the goroutine returns.                             *)
RemoveChannel(n, id) ==
  /\ Runs(n)
  /\ \/ stage[n][id] = "remove"
     \/ stage[n][id] = "out" /\ tlcAcks[n][id] = "closed" /\ inbox[n][id] = {}
  /\ tlcAcks' = [tlcAcks EXCEPT ![n][id] = "none"]
  /\ stage' = [stage EXCEPT ![n][id] = "out"]
  /\ inbox' = [inbox EXCEPT ![n][id] = {}]
  /\ UNCHANGED <<messages, tlcVars, acked, roundVars, acks, bounds, panicked>>

-----------------------------------------------------------------------------
(* gossipWorker. *)

WorkerIdle(n) == Runs(n) /\ stage[n][Worker] = "out"

(* Mutant: the ID of an acknowledgement is not compared. *)
AckArrivesAny(n, ack) ==
  /\ WorkerIdle(n)
  /\ ack.to = n
  /\ IF \E id \in IDs : tlcAcks[n][id] = "closed"
     THEN panicked' = panicked \cup {n} /\ UNCHANGED inbox
     ELSE /\ inbox' = [inbox EXCEPT ![n] = [id \in IDs |->
               IF tlcAcks[n][id] = "open" THEN @[id] \cup ({ack.from} \ acks[n][id]) ELSE @[id]]]
          /\ UNCHANGED panicked
  /\ UNCHANGED <<messages, tlcVars, acked, roundVars, tlcAcks, acks, stage, bounds>>

(* handlePrivateMsg, for an acknowledgement: it is sent on every channel of *)
(* tlcAcks, and on a closed one that is a panic.  Its message's goroutine   *)
(* alone takes notice, the first time it comes.                            *)
AckArrives(n, ack) ==
  /\ WorkerIdle(n)
  /\ ack.to = n
  /\ IF \E id \in IDs : tlcAcks[n][id] = "closed"
     THEN panicked' = panicked \cup {n} /\ UNCHANGED inbox
     ELSE /\ tlcAcks[n][ack.id] = "open"
          /\ inbox' = [inbox EXCEPT ![n][ack.id] = @ \cup ({ack.from} \ acks[n][ack.id])]
          /\ UNCHANGED panicked
  /\ UNCHANGED <<messages, tlcVars, acked, roundVars, tlcAcks, acks, stage, bounds>>

(* Messages are acknowledged whatever the round. *)
AnyRound == Ex2 \/ AckAll

(* Mutant: messages of later rounds are acknowledged too. *)
InRoundOrLater(n, id) == AnyRound \/ id >= 2 * myTime[n] + 1

(* Acknowledged are messages of the round, counted by their ID. *)
InRound(n, id) == AnyRound \/ id = 2 * myTime[n] + 1

(* Mutant: its own messages are acknowledged too. *)
AckTLCOwn(n, o, id) ==
  acked' = IF id \in confirmed[n][o] THEN acked
           ELSE acked \cup {[from |-> n, to |-> o, id |-> id]}

(* ackTLC: not for its own messages nor for those known to be confirmed. *)
AckTLC(n, o, id) ==
  acked' = IF o = n \/ id \in confirmed[n][o] THEN acked
           ELSE acked \cup {[from |-> n, to |-> o, id |-> id]}

(* A TLC message that is not in the round is only stored. *)
TLCOutOfRound(n, o, msg) ==
  /\ WorkerIdle(n)
  /\ msg \in published[o] /\ msg.of = 0
  /\ ~ InRound(n, msg.id)
  /\ known' = [known EXCEPT ![n][o] = @ \cup {msg.id}]
  /\ UNCHANGED <<messages, confirmed, early, reported, acked, roundVars, ackVars,
                 stage, bounds, panicked>>

(* One in the round is acknowledged; if its confirmation came before it,   *)
(* confirmOutofOrderTLC reports it and tries to advance.                   *)
TLCInRound(n, o, msg) ==
  /\ WorkerIdle(n)
  /\ msg \in published[o] /\ msg.of = 0
  /\ InRound(n, msg.id)
  /\ known' = [known EXCEPT ![n][o] = @ \cup {msg.id}]
  /\ AckTLC(n, o, msg.id)
  /\ IF msg.id \in early[n][o]
     THEN /\ early' = [early EXCEPT ![n][o] = @ \ {msg.id}]
          /\ reported' = [reported EXCEPT ![n][o] = @ \cup {msg.id}]
          /\ stage' = [stage EXCEPT ![n][Worker] = "check"]
     ELSE UNCHANGED <<early, reported, stage>>
  /\ UNCHANGED <<messages, confirmed, roundVars, ackVars, bounds, panicked>>

(* Mutant: it is put aside under its own ID. *)
EarlyConfirmationByID(n, o, msg) ==
  /\ WorkerIdle(n)
  /\ msg \in published[o] /\ msg.of # 0
  /\ msg.of \notin known[n][o]
  /\ early' = [early EXCEPT ![n][o] = @ \cup {msg.id}]
  /\ UNCHANGED <<messages, known, confirmed, reported, acked, roundVars, ackVars,
                 stage, bounds, panicked>>

(* A confirmation that comes before the message is put aside. *)
EarlyConfirmation(n, o, msg) ==
  /\ WorkerIdle(n)
  /\ msg \in published[o] /\ msg.of # 0
  /\ msg.of \notin known[n][o]
  /\ early' = [early EXCEPT ![n][o] = @ \cup {msg.of}]
  /\ UNCHANGED <<messages, known, confirmed, reported, acked, roundVars, ackVars,
                 stage, bounds, panicked>>

Confirmation(n, o, msg) ==
  /\ WorkerIdle(n)
  /\ msg \in published[o] /\ msg.of # 0
  /\ msg.of \in known[n][o] \ confirmed[n][o]
  /\ confirmed' = [confirmed EXCEPT ![n][o] = @ \cup {msg.of}]
  /\ reported' = [reported EXCEPT ![n][o] = @ \cup {msg.of}]
  /\ stage' = [stage EXCEPT ![n][Worker] = Advancing(Worker)]
  /\ UNCHANGED <<messages, known, early, acked, roundVars, ackVars, bounds, panicked>>

TLCArrives(n, o, msg) ==
  \/ TLCOutOfRound(n, o, msg)
  \/ TLCInRound(n, o, msg)
  \/ EarlyConfirmation(n, o, msg)
  \/ Confirmation(n, o, msg)

-----------------------------------------------------------------------------
Next ==
  \E n \in Nodes :
    \/ ListFileEx2(n) \/ ListFileNow(n) \/ ListFileLater(n) \/ OtherRumor(n)
    \/ \E k \in Callers : IncrementMytime(n, k)
    \/ \E f \in Files : PublishReleased(n, f) \/ RemoveEntry(n, f)
    \/ \E id \in IDs :
         \/ RemoveChannel(n, id)
         \/ \E m \in inbox[n][id] : CollectAck(n, id, m) \/ Confirm(n, id, m)
    \/ \E ack \in acked : AckArrives(n, ack)
    \/ \E o \in Nodes : \E msg \in published[o] : TLCArrives(n, o, msg)

Spec == Init /\ [][Next]_vars

-----------------------------------------------------------------------------
(* Properties. *)

TLCMessages == [id : IDs, of : {0} \cup IDs]
TLCAcks == {ack \in [from : Nodes, to : Nodes, id : IDs] : ack.from # ack.to}
GossipWithConf == [round : Nat, file : {0} \cup Files]
Stages == {"out", "check", "counted", "short", "measured", "passed", "added", "notify",
           "notifying", "remove"}

(* Type correctness; a node never acknowledges a message of its own, and   *)
(* the entry a round is being sent to stays where it is in gossipWithConf. *)
TypeOK ==
  /\ nextID \in [Nodes -> 1 .. LastID + 1]
  /\ published \in [Nodes -> SUBSET TLCMessages]
  /\ known \in [Nodes -> [Nodes -> SUBSET IDs]]
  /\ confirmed \in [Nodes -> [Nodes -> SUBSET IDs]]
  /\ early \in [Nodes -> [Nodes -> SUBSET IDs]]
  /\ reported \in [Nodes -> [Nodes -> SUBSET IDs]]
  /\ acked \subseteq TLCAcks
  /\ myTime \in [Nodes -> Nat]
  /\ gossipWithConf \in [Nodes -> Seq(GossipWithConf)]
  /\ halted \in [Nodes -> [Files -> {"none", "waiting", "released", "published"}]]
  /\ notifying \in [Nodes -> Nat]
  /\ \A n \in Nodes : notifying[n] # 0 =>
       /\ notifying[n] \in DOMAIN gossipWithConf[n]
       /\ gossipWithConf[n][notifying[n]].file # 0
  /\ tlcAcks \in [Nodes -> [IDs -> {"none", "open", "closed"}]]
  /\ acks \in [Nodes -> [IDs -> SUBSET Nodes]]
  /\ inbox \in [Nodes -> [IDs -> SUBSET Nodes]]
  /\ stage \in [Nodes -> [Callers -> Stages]]
  /\ lenGossipConf \in [Nodes -> [Callers -> Nat]]
  /\ files \in [Nodes -> Nat]
  /\ others \in [Nodes -> Nat]
  /\ panicked \subseteq Nodes

(* A message its origin takes as confirmed is in tlcMessages of a majority *)
(* of the nodes: acknowledgements that come late, twice or while another   *)
(* message is collecting its own are never counted for a message their     *)
(* sender has not stored.                                                  *)
ConfirmedByMajority ==
  \A o \in Nodes : \A id \in confirmed[o][o] :
    Majority(Cardinality({m \in Nodes : id \in known[m][o]}))

(* Whatever the order in which messages and confirmations arrive, a node   *)
(* takes as confirmed, puts aside as confirmed or reports only what the    *)
(* origin confirmed itself.                                                *)
ConfirmationsHonest ==
  \A n, o \in Nodes :
    confirmed[n][o] \cup early[n][o] \cup reported[n][o] \subseteq confirmed[o][o]

(* Without -ackAll, a message is confirmed only when a majority, its origin *)
(* counted, has reached the round its ID stands for: rounds move on in      *)
(* step as far as the acknowledgements can make them.                      *)
ConfirmedInRound ==
  \A o \in Nodes : \A id \in confirmed[o][o] :
    AnyRound \/ Majority(Cardinality({o} \cup {m \in Nodes : 2 * myTime[m] + 1 >= id}))

(* No goroutine sends on a closed channel or closes one twice.  It fails:  *)
(* the channels closed by incrementMytime stay in gos.tlcAcks until their  *)
(* goroutines take them out, and until then an acknowledgement that        *)
(* arrives, or another round, ends the process.                            *)
NeverPanics == panicked = {}

-----------------------------------------------------------------------------
(* What TLC messages promise: ConfirmedTLC, seen in tlcMessages. *)

Quorums == {Q \in SUBSET Nodes : 2 * Cardinality(Q) > N}

CT == INSTANCE ConfirmedTLC WITH stored <- known

(* Lost, late and doubled messages, confirmations and acknowledgements only *)
(* delay: a message that is stored was published, one that is confirmed is  *)
(* stored by a majority when its origin confirms it, and is confirmed       *)
(* elsewhere only after that; nothing is taken back.                       *)
Confirms == CT!Spec

-----------------------------------------------------------------------------
(* The inductive invariant behind ConfirmedByMajority, ConfirmationsHonest, *)
(* ConfirmedInRound and Confirms.                                          *)

RoundsType ==
  /\ nextID \in [Nodes -> Nat]
  /\ published \in [Nodes -> SUBSET [id : IDs, of : Nat]]
  /\ known \in [Nodes -> [Nodes -> SUBSET Nat]]
  /\ confirmed \in [Nodes -> [Nodes -> SUBSET Nat]]
  /\ early \in [Nodes -> [Nodes -> SUBSET Nat]]
  /\ reported \in [Nodes -> [Nodes -> SUBSET Nat]]
  /\ acked \subseteq [from : Nodes, to : Nodes, id : Nat]
  /\ myTime \in [Nodes -> Nat]
  /\ tlcAcks \in [Nodes -> [IDs -> {"none", "open", "closed"}]]
  /\ acks \in [Nodes -> [IDs -> SUBSET Nodes]]
  /\ inbox \in [Nodes -> [IDs -> SUBSET Nodes]]

(* Who acknowledged a message has it, and had reached its round.           *)
AckedOK ==
  \A ack \in acked :
    /\ ack.id \in known[ack.from][ack.to]
    /\ AnyRound \/ 2 * myTime[ack.from] + 1 >= ack.id

(* The acknowledgements a goroutine has in its channel or has counted were *)
(* sent for its message; the first is its node's own.                      *)
CollectedOK ==
  \A n \in Nodes, id \in IDs :
    /\ \A m \in inbox[n][id] : [from |-> m, to |-> n, id |-> id] \in acked
    /\ \A m \in acks[n][id] :
         \/ m = n /\ id \in known[n][n]
         \/ [from |-> m, to |-> n, id |-> id] \in acked

(* A confirmation is published when a majority was counted; a new message  *)
(* takes no ID that has been collecting acknowledgements.                  *)
ConfirmedOK ==
  \A n \in Nodes :
    /\ \A id \in confirmed[n][n] :
         id \in IDs /\ id < nextID[n] /\ Majority(Cardinality(acks[n][id]))
    /\ \A id \in IDs : tlcAcks[n][id] # "none" => id < nextID[n]
    /\ \A msg \in published[n] : msg.of # 0 => msg.of \in confirmed[n][n]

(* A node has the messages it published and collects acknowledgements for. *)
PublishedOK ==
  \A n \in Nodes :
    /\ \A msg \in published[n] : msg.of = 0 => msg.id \in known[n][n]
    /\ \A id \in IDs : tlcAcks[n][id] # "none" => id \in known[n][n]

IInv ==
  /\ RoundsType
  /\ AckedOK
  /\ CollectedOK
  /\ ConfirmedOK
  /\ PublishedOK
  /\ ConfirmationsHonest
=============================================================================
