------------------------------ MODULE Consensus ------------------------------
(***************************************************************************)
(* Blocks decided by rounds of TLC messages, QSC: hw3ex4 (blockchain.go,   *)
(* gossiper.go:732-791).                                                   *)
(*                                                                         *)
(* A consensus takes three rounds.  In the first a node publishes a TLC    *)
(* message with its file; in the next two, one with the fittest confirmed  *)
(* message it knows; after the third the fittest is its next block.  The   *)
(* rounds are those of Rounds, but here messages have a content, and       *)
(* tlcMessages is the list the code keeps: the message a node publishes    *)
(* for a later round is listed with the ID of the message it was copied    *)
(* from, because sendNewRumorMessage gives it its own ID only afterwards.  *)
(*                                                                         *)
(* Abstracted, besides what Rounds abstracts: the hash of a block is the   *)
(* sequence of files that leads to it (no collisions), the fitness of two  *)
(* files is never equal, other rumors take no IDs, a round starts and its  *)
(* channels are closed in one step, and a node whose process ended in a    *)
(* panic is one that takes no more steps.                                  *)
(***************************************************************************)
EXTENDS Naturals, SequencesExt

CONSTANTS
  Nodes,
  AckAll,      \* the -ackAll flag
  MaxFiles,    \* bound: [node -> files it lists]
  Fitness,     \* [file -> what rand.Float32 gave it]
  Hears,       \* bound: [node -> whose messages ever reach it]
  MaxID,       \* bound: the IDs a node takes
  None         \* "": the origin and the file of an empty message

Files == UNION {{<<n, k>> : k \in 1 .. MaxFiles[n]} : n \in Nodes}

ASSUME ConsensusAssumption ==
  /\ IsFiniteSet(Nodes) /\ None \notin Nodes /\ None \notin Files
  /\ AckAll \in BOOLEAN
  /\ MaxFiles \in [Nodes -> Nat]
  /\ Fitness \in [Files -> Nat]
  /\ \A f, g \in Files : Fitness[f] = Fitness[g] => f = g
  /\ Hears \in [Nodes -> SUBSET Nodes]
  /\ MaxID \in Nat

IDs == 1 .. MaxID

(* Who can be in incrementMytime, as in Rounds. *)
Worker  == 0
Client  == MaxID + 1
Callers == {Worker, Client} \cup IDs

VARIABLES
  nextID,       \* [n] NextID of n in its own status
  published,    \* [o] TLC messages of o in circulation
  tlcMessages,  \* [n][o] list of [id, conf, file, prev]; conf 0 is Confirmed -1
  early,        \* [n][o] unconfirmedTLC: IDs confirmed before the message came
  acked,        \* acknowledgements sent
  myTime,       \* [n] the round
  blocks,       \* [n] list of blocks
  gossipWithConf, \* [n] list of [round, file], file None for a nil channel
  halted,       \* [n] messages of the goroutines waitForRound that wait
  released,     \* [n] those whose round came
  leaving,      \* [n] files published since, entry not removed yet
  notifying,    \* [n] the entry of gossipWithConf a caller is sending to, or 0
  tlcAcks,      \* [n][id] channel of the goroutine waitForAckTLC of a message
  acks,         \* [n][id] the nodes whose acknowledgement it received
  inbox,        \* [n][id] acknowledgements in the channel
  stage,        \* [n][caller] where the caller is in incrementMytime
  lenGossipConf, \* [n][caller] the length of gossipWithConf it has read
  files         \* [n] files listed so far

messages  == <<nextID, published, tlcMessages>>
roundVars == <<myTime, gossipWithConf, halted, released, leaving,
               notifying, lenGossipConf>>
ackVars   == <<tlcAcks, acks, inbox>>
vars == <<messages, early, acked, blocks, roundVars, ackVars, stage, files>>

N == Cardinality(Nodes)

Majority(count) == count > N \div 2

(* TLCMessage{}: the first block, and what findFittestTLC finds if nothing. *)
Empty == [origin |-> None, id |-> 0, file |-> None, prev |-> << >>]

(* Mutant of Hash: the first block is hashed like the others.              *)
HashAny(block) == Append(block.prev, block.file)

(* BlockPublish.Hash *)
Hash(block) == IF block.file = None THEN << >> ELSE Append(block.prev, block.file)

Init ==
  /\ nextID = [n \in Nodes |-> 1]
  /\ published = [n \in Nodes |-> {}]
  /\ tlcMessages = [n \in Nodes |-> [o \in Nodes |-> << >>]]
  /\ early = [n \in Nodes |-> [o \in Nodes |-> {}]]
  /\ acked = {}
  /\ myTime = [n \in Nodes |-> 0]
  /\ blocks = [n \in Nodes |-> <<Empty>>]
  /\ gossipWithConf = [n \in Nodes |-> << >>]
  /\ halted = [n \in Nodes |-> {}]
  /\ released = [n \in Nodes |-> {}]
  /\ leaving = [n \in Nodes |-> {}]
  /\ notifying = [n \in Nodes |-> 0]
  /\ tlcAcks = [n \in Nodes |-> [id \in IDs |-> "none"]]
  /\ acks = [n \in Nodes |-> [id \in IDs |-> {}]]
  /\ inbox = acks
  /\ stage = [n \in Nodes |-> [k \in Callers |-> "out"]]
  /\ lenGossipConf = [n \in Nodes |-> [k \in Callers |-> 0]]
  /\ files = [n \in Nodes |-> 0]

ConfMutexFree(n) == notifying[n] = 0

-----------------------------------------------------------------------------
(* Listing a file: listFile, sendNewGossipWithConf, waitForRound.          *)

(* sendNewRumorMessage for a message with content c, and the goroutine     *)
(* waitForAckTLC with its channel; "stored" is the ID it is stored with.   *)
PublishTLC(n, c, stored) ==
  LET id == nextID[n] IN
  /\ id \in IDs
  /\ nextID' = [nextID EXCEPT ![n] = @ + 1]
  /\ published' = [published EXCEPT ![n] = @ \cup
       {[id |-> id, of |-> 0, file |-> c.file, prev |-> c.prev]}]
  /\ tlcMessages' = [tlcMessages EXCEPT ![n][n] = Append(@,
       [id |-> stored, conf |-> 0, file |-> c.file, prev |-> c.prev])]
  /\ tlcAcks' = [tlcAcks EXCEPT ![n][id] = "open"]
  /\ acks' = [acks EXCEPT ![n][id] = {n}]

NewContent(n) == [file |-> <<n, files[n] + 1>>, prev |-> Hash(Last(blocks[n]))]

MayListNow(n) ==
  \/ Len(gossipWithConf[n]) = 0
  \/ myTime[n] % 7 = 0 /\ Len(gossipWithConf[n]) = myTime[n] \div 7

Lists(n) ==
  /\ ConfMutexFree(n)
  /\ files[n] < MaxFiles[n]
  /\ stage[n][Client] = "out"
  /\ files' = [files EXCEPT ![n] = @ + 1]

ListFileNow(n) ==
  /\ Lists(n)
  /\ MayListNow(n)
  /\ PublishTLC(n, NewContent(n), nextID[n])
  /\ gossipWithConf' = [gossipWithConf EXCEPT ![n] =
       Append(@, [round |-> myTime[n], file |-> None])]
  /\ stage' = [stage EXCEPT ![n][Client] = "check"]
  /\ UNCHANGED <<early, acked, myTime, blocks, halted, released, leaving, notifying,
                 lenGossipConf, inbox>>

(* Otherwise the message waits, with the hash of the block that is last now. *)
ListFileLater(n) ==
  /\ Lists(n)
  /\ ~ MayListNow(n)
  /\ halted' = [halted EXCEPT ![n] = @ \cup {NewContent(n)}]
  /\ gossipWithConf' = [gossipWithConf EXCEPT ![n] =
       Append(@, [round |-> Len(@), file |-> NewContent(n).file])]
  /\ UNCHANGED <<messages, early, acked, myTime, blocks, released, leaving, notifying,
                 lenGossipConf, ackVars, stage>>

PublishReleased(n) ==
  \E c \in released[n] :
    /\ PublishTLC(n, c, nextID[n])
    /\ released' = [released EXCEPT ![n] = @ \ {c}]
    /\ leaving' = [leaving EXCEPT ![n] = @ \cup {c.file}]
    /\ UNCHANGED <<early, acked, myTime, blocks, gossipWithConf, halted, notifying,
                   lenGossipConf, inbox, stage, files>>

(* The list without the last entry that has the channel of f. *)
WithoutEntry(list, f) ==
  LET places == {k \in DOMAIN list : list[k].file = f}
      i == Max(places)
  IN  IF places = {} THEN list ELSE SubSeq(list, 1, i - 1) \o SubSeq(list, i + 1, Len(list))

RemoveEntry(n) ==
  \E f \in leaving[n] :
    /\ ConfMutexFree(n)
    /\ leaving' = [leaving EXCEPT ![n] = @ \ {f}]
    /\ gossipWithConf' = [gossipWithConf EXCEPT ![n] = WithoutEntry(@, f)]
    /\ UNCHANGED <<messages, early, acked, myTime, blocks, halted, released, notifying,
                   lenGossipConf, ackVars, stage, files>>

-----------------------------------------------------------------------------
(* incrementMytime, by one of its callers. *)

(* The ID of the last message n has in its own list: that of the message   *)
(* its last one was copied from, if it is for a later round.               *)
LastOwn(n) == Last(tlcMessages[n][n]).id

(* The messages n knows to be confirmed under that ID, and their origins.  *)
ConfirmedNow(n) ==
  IF tlcMessages[n][n] = << >> THEN {}
  ELSE UNION {{[origin |-> o, id |-> m.id, file |-> m.file, prev |-> m.prev] :
                m \in {x \in ToSet(tlcMessages[n][o]) : x.conf = LastOwn(n)}} : o \in Nodes}

Witnesses(n) == {m.origin : m \in ConfirmedNow(n)}

(* Mutant of Fittest: whether a message is confirmed is not looked at.     *)
FittestOfAll(n) ==
  LET all == UNION {{[origin |-> o, id |-> m.id, file |-> m.file, prev |-> m.prev] :
                      m \in ToSet(tlcMessages[n][o])} : o \in Nodes}
  IN {m \in all : \A x \in all : Fitness[x.file] <= Fitness[m.file]}

(* findFittestTLC: of two copies of a message either may be found. *)
Fittest(n) ==
  LET fittest == {m \in ConfirmedNow(n) :
                    \A x \in ConfirmedNow(n) : Fitness[x.file] <= Fitness[m.file]}
  IN IF fittest = {} THEN {Empty} ELSE fittest

After(k) == IF k \in IDs THEN "remove" ELSE "out"

(* The witnesses, the length and the round are read one after the other,   *)
(* under two mutexes and none, as in Rounds.                               *)
CountWitnesses(n, k) ==
  /\ stage[n][k] = "check"
  /\ stage' = [stage EXCEPT ![n][k] =
       IF Majority(Cardinality(Witnesses(n))) THEN "counted" ELSE "short"]
  /\ UNCHANGED <<messages, early, acked, roundVars, blocks, ackVars, files>>

ReadLength(n, k) ==
  /\ ConfMutexFree(n)
  /\ \/ /\ stage[n][k] = "counted"
        /\ lenGossipConf' = [lenGossipConf EXCEPT ![n][k] = Len(gossipWithConf[n])]
        /\ stage' = [stage EXCEPT ![n][k] = "measured"]
     \/ /\ stage[n][k] = "short"
        /\ stage' = [stage EXCEPT ![n][k] = After(k)]
        /\ UNCHANGED lenGossipConf
  /\ UNCHANGED <<messages, early, acked, blocks, myTime, gossipWithConf, halted, released,
                 leaving, notifying, ackVars, files>>

CheckRound(n, k) ==
  /\ stage[n][k] = "measured"
  /\ stage' = [stage EXCEPT ![n][k] =
       IF lenGossipConf[n][k] > myTime[n] THEN "passed" ELSE After(k)]
  /\ lenGossipConf' = [lenGossipConf EXCEPT ![n][k] = 0]
  /\ UNCHANGED <<messages, early, acked, blocks, myTime, gossipWithConf, halted, released,
                 leaving, notifying, ackVars, files>>

NoneClosed(n) == \A id \in IDs : tlcAcks[n][id] # "closed"

(* The round, and the channels of tlcAcks; closing one twice is a panic. *)
AddRound(n, k) ==
  /\ stage[n][k] = "passed"
  /\ NoneClosed(n)
  /\ myTime' = [myTime EXCEPT ![n] = @ + 1]
  /\ tlcAcks' = [tlcAcks EXCEPT ![n] =
       [id \in IDs |-> IF @[id] = "open" THEN "closed" ELSE @[id]]]
  /\ stage' = [stage EXCEPT ![n][k] = "added"]
  /\ UNCHANGED <<messages, early, acked, blocks, gossipWithConf, halted, released, leaving,
                 notifying, lenGossipConf, acks, inbox, files>>

(* After three rounds the fittest message is the next block. *)
AppendBlock(n, k) ==
  /\ stage[n][k] = "added"
  /\ myTime[n] % 3 = 0
  /\ \E fittest \in Fittest(n) : blocks' = [blocks EXCEPT ![n] = Append(@, fittest)]
  /\ stage' = [stage EXCEPT ![n][k] = "notify"]
  /\ UNCHANGED <<messages, early, acked, roundVars, ackVars, files>>

(* In between the node publishes it as its own, on top of itself. *)
PublishFittest(n, k) ==
  /\ stage[n][k] = "added"
  /\ ConfMutexFree(n)
  /\ myTime[n] % 3 # 0
  /\ \E fittest \in Fittest(n) :
       \/ /\ fittest # Empty
          /\ PublishTLC(n, [file |-> fittest.file, prev |-> Hash(fittest)], fittest.id)
          /\ gossipWithConf' = [gossipWithConf EXCEPT ![n] =
               Append(@, [round |-> myTime[n], file |-> None])]
       \/ /\ fittest = Empty
          /\ UNCHANGED <<messages, gossipWithConf, tlcAcks, acks>>
  /\ stage' = [stage EXCEPT ![n][k] = "notify"]
  /\ UNCHANGED <<early, acked, blocks, myTime, halted, released, leaving, notifying,
                 lenGossipConf, inbox, files>>

(* The first entry of gossipWithConf after the i-th that has a channel, 0   *)
(* for none.                                                               *)
NextHalted(n, i) ==
  LET later == {j \in DOMAIN gossipWithConf[n] :
                  i < j /\ gossipWithConf[n][j].file # None}
  IN  IF later = {} THEN 0 ELSE Min(later)

(* After three rounds the number of the consensus goes to every goroutine  *)
(* that waits, with the mutex held until all have received it.             *)
StartNotifying(n, k) ==
  /\ stage[n][k] = "notify"
  /\ \/ /\ myTime[n] % 3 # 0
        /\ stage' = [stage EXCEPT ![n][k] = After(k)]
        /\ UNCHANGED notifying
     \/ /\ myTime[n] % 3 = 0
        /\ ConfMutexFree(n)
        /\ notifying' = [notifying EXCEPT ![n] = NextHalted(n, 0)]
        /\ stage' = [stage EXCEPT ![n][k] =
             IF notifying'[n] = 0 THEN After(k) ELSE "notifying"]
  /\ UNCHANGED <<messages, early, acked, blocks, myTime, gossipWithConf, halted, released,
                 leaving, lenGossipConf, ackVars, files>>

NotifyHalted(n, k) ==
  /\ stage[n][k] = "notifying"
  /\ \E c \in halted[n] :
       LET e == gossipWithConf[n][notifying[n]]
           now == IF e.round = myTime[n] \div 3 THEN {c} ELSE {}
       IN
       /\ c.file = e.file
       /\ halted' = [halted EXCEPT ![n] = @ \ now]
       /\ released' = [released EXCEPT ![n] = @ \cup now]
  /\ notifying' = [notifying EXCEPT ![n] = NextHalted(n, @)]
  /\ stage' = [stage EXCEPT ![n][k] = IF notifying'[n] = 0 THEN After(k) ELSE @]
  /\ UNCHANGED <<messages, early, acked, blocks, myTime, gossipWithConf, leaving,
                 lenGossipConf, ackVars, files>>

IncrementMytime(n, k) ==
  \/ CountWitnesses(n, k)
  \/ ReadLength(n, k)
  \/ CheckRound(n, k)
  \/ AddRound(n, k)
  \/ AppendBlock(n, k)
  \/ PublishFittest(n, k)
  \/ StartNotifying(n, k)
  \/ NotifyHalted(n, k)

-----------------------------------------------------------------------------
(* waitForAckTLC *)

(* Confirmed is set on the first message of n's list of o that has the ID. *)
SetConfirmed(n, o, id) ==
  LET i == SelectInSeq(tlcMessages[n][o], LAMBDA m : m.id = id) IN
  tlcMessages' = IF i = 0 THEN tlcMessages
                 ELSE [tlcMessages EXCEPT ![n][o][i].conf = id]

ReceiveAck(n, id, m) ==
  /\ tlcAcks[n][id] # "none" /\ stage[n][id] = "out"
  /\ m \in inbox[n][id]
  /\ inbox' = [inbox EXCEPT ![n][id] = @ \ {m}]
  /\ acks' = [acks EXCEPT ![n][id] = @ \cup {m}]

CollectAck(n, id, m) ==
  /\ ReceiveAck(n, id, m)
  /\ ~ Majority(Cardinality(acks'[n][id]))
  /\ UNCHANGED <<messages, early, acked, blocks, roundVars, tlcAcks, stage, files>>

(* The confirmation is published whether the message is found or not. *)
Confirm(n, id, m) ==
  /\ ReceiveAck(n, id, m)
  /\ Majority(Cardinality(acks'[n][id]))
  /\ SetConfirmed(n, n, id)
  /\ nextID[n] \in IDs
  /\ nextID' = [nextID EXCEPT ![n] = @ + 1]
  /\ published' = [published EXCEPT ![n] = @ \cup
       {[c EXCEPT !.id = nextID[n], !.of = id] : c \in {x \in @ : x.id = id}}]
  /\ stage' = [stage EXCEPT ![n][id] = "check"]
  /\ UNCHANGED <<early, acked, blocks, roundVars, tlcAcks, files>>

RemoveChannel(n, id) ==
  /\ \/ stage[n][id] = "remove"
     \/ stage[n][id] = "out" /\ tlcAcks[n][id] = "closed" /\ inbox[n][id] = {}
  /\ tlcAcks' = [tlcAcks EXCEPT ![n][id] = "none"]
  /\ stage' = [stage EXCEPT ![n][id] = "out"]
  /\ inbox' = [inbox EXCEPT ![n][id] = {}]
  /\ UNCHANGED <<messages, early, acked, blocks, roundVars, acks, files>>

-----------------------------------------------------------------------------
(* gossipWorker. *)

(* Mutant: the ID of an acknowledgement is not compared. *)
AckArrivesAny(n, ack) ==
  /\ stage[n][Worker] = "out"
  /\ ack.to = n
  /\ NoneClosed(n)
  /\ inbox' = [inbox EXCEPT ![n] = [id \in IDs |->
       IF tlcAcks[n][id] = "open" THEN @[id] \cup ({ack.from} \ acks[n][id]) ELSE @[id]]]
  /\ UNCHANGED <<messages, early, acked, blocks, roundVars, tlcAcks, acks, stage, files>>

(* handlePrivateMsg, for an acknowledgement; on a closed channel it panics. *)
AckArrives(n, ack) ==
  /\ stage[n][Worker] = "out"
  /\ ack.to = n
  /\ NoneClosed(n)
  /\ tlcAcks[n][ack.id] = "open"
  /\ inbox' = [inbox EXCEPT ![n][ack.id] = @ \cup ({ack.from} \ acks[n][ack.id])]
  /\ UNCHANGED <<messages, early, acked, blocks, roundVars, tlcAcks, acks, stage, files>>

(* validBlockPublish: the file is not in a block yet, and the message is    *)
(* on top of the last block if a consensus is starting.                    *)
ValidBlockPublish(n, msg) ==
  /\ \A i \in DOMAIN blocks[n] : blocks[n][i].file # msg.file
  /\ msg.prev = Hash(Last(blocks[n])) \/ myTime[n] % 3 # 0

InRound(n, id) == AckAll \/ id = 2 * myTime[n] + 1

(* The message n has under the ID of msg, or under the one msg confirms. *)
Position(n, o, msg) ==
  SelectInSeq(tlcMessages[n][o], LAMBDA m : m.id = msg.id \/ m.id = msg.of)

Store(n, o, msg) ==
  tlcMessages' = IF Position(n, o, msg) # 0 THEN tlcMessages
                 ELSE [tlcMessages EXCEPT ![n][o] = Append(@,
                        [id |-> msg.id, conf |-> 0, file |-> msg.file, prev |-> msg.prev])]

(* ackTLC: not for its own messages nor for those known to be confirmed. *)
AckTLC(n, o, id) ==
  acked' = IF o = n \/ \E m \in ToSet(tlcMessages[n][o]) : m.conf = id THEN acked
           ELSE acked \cup {[from |-> n, to |-> o, id |-> id]}

TLCArrives(n, o, msg) ==
  /\ stage[n][Worker] = "out"
  /\ o \in Hears[n]
  /\ msg \in published[o]

(* A message of another round or that is not valid is only stored. *)
TLCStored(n, o, msg) ==
  /\ TLCArrives(n, o, msg)
  /\ msg.of = 0
  /\ ~ (InRound(n, msg.id) /\ ValidBlockPublish(n, msg))
  /\ Store(n, o, msg)
  /\ UNCHANGED <<nextID, published, early, acked, blocks, roundVars, ackVars, stage, files>>

(* A valid one is acknowledged too, and confirmed if the confirmation came  *)
(* before it (confirmOutofOrderTLC).                                       *)
TLCAcknowledged(n, o, msg) ==
  /\ TLCArrives(n, o, msg)
  /\ msg.of = 0
  /\ InRound(n, msg.id) /\ ValidBlockPublish(n, msg)
  /\ Store(n, o, msg)
  /\ AckTLC(n, o, msg.id)
  /\ early' = [early EXCEPT ![n][o] = @ \ {msg.id}]
  /\ stage' = IF msg.id \in early[n][o] THEN [stage EXCEPT ![n][Worker] = "check"] ELSE stage
  /\ UNCHANGED <<nextID, published, blocks, roundVars, ackVars, files>>

EarlyConfirmation(n, o, msg) ==
  /\ TLCArrives(n, o, msg)
  /\ msg.of # 0
  /\ Position(n, o, msg) = 0
  /\ early' = [early EXCEPT ![n][o] = @ \cup {msg.of}]
  /\ UNCHANGED <<messages, acked, blocks, roundVars, ackVars, stage, files>>

Confirmation(n, o, msg) ==
  LET i == Position(n, o, msg) IN
  /\ TLCArrives(n, o, msg)
  /\ msg.of # 0
  /\ i # 0
  /\ tlcMessages[n][o][i].conf = 0
  /\ tlcMessages' = [tlcMessages EXCEPT ![n][o][i].conf = msg.of]
  /\ stage' = [stage EXCEPT ![n][Worker] = "check"]
  /\ UNCHANGED <<nextID, published, early, acked, blocks, roundVars, ackVars, files>>

-----------------------------------------------------------------------------
Next ==
  \E n \in Nodes :
    \/ ListFileNow(n) \/ ListFileLater(n) \/ PublishReleased(n) \/ RemoveEntry(n)
    \/ \E k \in Callers : IncrementMytime(n, k)
    \/ \E id \in IDs :
         \/ RemoveChannel(n, id)
         \/ \E m \in inbox[n][id] : CollectAck(n, id, m) \/ Confirm(n, id, m)
    \/ \E ack \in acked : AckArrives(n, ack)
    \/ \E o \in Nodes : \E msg \in published[o] :
         \/ TLCStored(n, o, msg)
         \/ TLCAcknowledged(n, o, msg)
         \/ EarlyConfirmation(n, o, msg)
         \/ Confirmation(n, o, msg)

Spec == Init /\ [][Next]_vars

-----------------------------------------------------------------------------
(* Properties. *)

Messages == [id : IDs, of : {0} \cup IDs, file : Files, prev : Seq(Files)]
Listed   == [id : IDs, conf : {0} \cup IDs, file : Files, prev : Seq(Files)]
Blocks   == [origin : Nodes, id : IDs, file : Files, prev : Seq(Files)] \cup {Empty}
Contents == [file : Files, prev : Seq(Files)]
GossipWithConf == [round : Nat, file : {None} \cup Files]
Stages == {"out", "check", "counted", "short", "measured", "passed", "added", "notify",
           "notifying", "remove"}

(* Type correctness; there is always a last block, and the entry a round    *)
(* is being sent to stays where it is in gossipWithConf.                   *)
TypeOK ==
  /\ nextID \in [Nodes -> Nat]
  /\ published \in [Nodes -> SUBSET Messages]
  /\ tlcMessages \in [Nodes -> [Nodes -> Seq(Listed)]]
  /\ early \in [Nodes -> [Nodes -> SUBSET IDs]]
  /\ acked \subseteq [from : Nodes, to : Nodes, id : IDs]
  /\ myTime \in [Nodes -> Nat]
  /\ blocks \in [Nodes -> Seq(Blocks) \ {<< >>}]
  /\ gossipWithConf \in [Nodes -> Seq(GossipWithConf)]
  /\ halted \in [Nodes -> SUBSET Contents]
  /\ released \in [Nodes -> SUBSET Contents]
  /\ leaving \in [Nodes -> SUBSET Files]
  /\ notifying \in [Nodes -> Nat]
  /\ \A n \in Nodes : notifying[n] # 0 =>
       /\ notifying[n] \in DOMAIN gossipWithConf[n]
       /\ gossipWithConf[n][notifying[n]].file # None
  /\ tlcAcks \in [Nodes -> [IDs -> {"none", "open", "closed"}]]
  /\ acks \in [Nodes -> [IDs -> SUBSET Nodes]]
  /\ inbox \in [Nodes -> [IDs -> SUBSET Nodes]]
  /\ stage \in [Nodes -> [Callers -> Stages]]
  /\ lenGossipConf \in [Nodes -> [Callers -> Nat]]
  /\ files \in [Nodes -> Nat]

(* The blocks a node decided on.  The empty ones are left out: the first,   *)
(* and those appended when nothing was found under the last own ID.        *)
Appended(n) == {i \in DOMAIN blocks[n] : blocks[n][i] # Empty}

SameContent(x, y) == x.file = y.file /\ x.prev = y.prev

(* A list of tlcMessages has the message p. *)
Has(list, p) == \E x \in ToSet(list) : x.id = p.id /\ SameContent(x, p)

(* A message of o with the ID and the content of p was confirmed by o, and *)
(* it is stored by a majority.                                             *)
ByMajority(o, p) ==
  /\ \E x \in published[o] : x.of = p.id /\ SameContent(x, p)
  /\ Majority(Cardinality({m \in Nodes : m = o \/ Has(tlcMessages[m][o], p)}))

(* What a node appends to its blocks is empty, or a message that its origin *)
(* confirmed and a majority stored with this content: whatever the node    *)
(* takes for its last own message, findFittestTLC never picks an           *)
(* unconfirmed one.  That it picks none, or one twice, is not excluded.    *)
BlocksConfirmed ==
  \A n \in Nodes : \A i \in Appended(n) : ByMajority(blocks[n][i].origin, blocks[n][i])

(* The hash of the first block, or of a message a majority stored.         *)
Founded(prev) ==
  \/ prev = << >>
  \/ \E o \in Nodes : \E x \in published[o] :
       /\ prev = Append(x.prev, x.file)
       /\ ByMajority(o, x)

(* PrevHash is the hash of a message confirmed by a majority, or that of    *)
(* the first block: no message, for whatever round and however long it was *)
(* halted, builds on something that was only proposed.  Whether it is the  *)
(* last block of the node by then is another matter (blockchain.go:31).    *)
HistoryConfirmed ==
  \A n \in Nodes : \A msg \in published[n] : Founded(msg.prev)

SameFile(i, n, m) ==
  i \in Appended(n) /\ i \in Appended(m) => blocks[n][i].file = blocks[m][i].file

(* What the nodes report as "CONSENSUS ON QSC round" (blockchain.go:217):   *)
(* one file for all of them.                                               *)
Agreement == \A n, m \in Nodes : SameFile(2, n, m)

-----------------------------------------------------------------------------
(* The inductive invariant behind BlocksConfirmed and HistoryConfirmed.     *)

(* No two messages of a node have one ID.  A confirmation has the content  *)
(* of the message it confirms, for which a majority was counted.           *)
PublishedOK ==
  \A n \in Nodes : \A x \in published[n] :
    /\ x.id < nextID[n]
    /\ \A y \in published[n] : x.id = y.id => x = y
    /\ x.of # 0 =>
         /\ \E y \in published[n] : y.of = 0 /\ y.id = x.of /\ SameContent(x, y)
         /\ Majority(Cardinality(acks[n][x.of]))

(* Acknowledgements are collected for messages that were published.        *)
ChannelsOK ==
  \A n \in Nodes, id \in IDs : tlcAcks[n][id] # "none" =>
    \E x \in published[n] : x.id = id /\ x.of = 0

(* Before the i-th no message of the list has its ID. *)
First(list, i) == \A j \in DOMAIN list : j < i => list[j].id # list[i].id

(* Every ID in a list is that of a message its origin published, whose     *)
(* content the first entry with the ID has; those after it are the copies  *)
(* the node itself listed.  Only the first is ever taken as confirmed,     *)
(* after the origin confirmed it.                                          *)
ListOK(list, msgs) ==
  \A i \in DOMAIN list :
    /\ \E p \in msgs :
         /\ p.of = 0 /\ p.id = list[i].id
         /\ First(list, i) => SameContent(p, list[i])
    /\ list[i].conf # 0 =>
         /\ list[i].conf = list[i].id
         /\ First(list, i)
         /\ \E p \in msgs : p.of = list[i].id

ListedOK == \A n, o \in Nodes : ListOK(tlcMessages[n][o], published[o])

(* Who acknowledged a message has it in its list. *)
AckedOK ==
  \A ack \in acked : \E p \in published[ack.to] :
    p.of = 0 /\ p.id = ack.id /\ Has(tlcMessages[ack.from][ack.to], p)

CollectedOK ==
  \A n \in Nodes, id \in IDs :
    /\ \A m \in inbox[n][id] : [from |-> m, to |-> n, id |-> id] \in acked
    /\ \A m \in acks[n][id] : m = n \/ [from |-> m, to |-> n, id |-> id] \in acked

(* What a halted message builds on was confirmed when it was listed.       *)
HaltedOK ==
  \A n \in Nodes : \A c \in halted[n] \cup released[n] : Founded(c.prev)

IInv ==
  /\ TypeOK
  /\ PublishedOK
  /\ ChannelsOK
  /\ ListedOK
  /\ AckedOK
  /\ CollectedOK
  /\ HaltedOK
  /\ BlocksConfirmed
  /\ HistoryConfirmed
=============================================================================
