# A TLA+ model of Peerster

This directory holds a verification project for Peerster (`src/`), a gossiper written in Go: TLA+ modules
translated from the source, TLC runs that check them on small instances, and TLAPS proofs of the main
properties for every instance. `PROJECT.json` relates every definition to the lines it models, every run to
its properties and every property to a plausible bug that it catches.

## 1. Inventory

A Peerster process keeps one `Gossiper` struct (`structs.go:211-241`). These goroutines share it, under one
mutex per group of fields: `gossipWorker`, which handles one datagram at a time (`gossiper.go:104`); the loop of
the client connection or the web server's handlers; `antientropy` and `routeMessage`, which wait for tickers; one
`rumormongeringWorker` per mongered rumor; one thread per download, per search, per unconfirmed TLC message and
per halted round. Nothing but files is written to disk: a restarted process starts from nothing.

| component | code | state | operations | what makes it hard | what makes it correct |
|---|---|---|---|---|---|
| rumor mongering, anti-entropy | `gossiper.go:118-338`, `main.go:170-351`, `sendNewMsg.go:19-59`, `routing.go` | `Status`, `rumors`, `rumorsToAck`, `rumorsAcked`, `peers`, `routingTable` | publish, route rumor, handle rumor, handle status, ack timeout, anti-entropy | datagrams lost, doubled, reordered; NextID raised before the rumor is stored; acknowledgements inferred from statuses, and from clocks of TLC messages that are not their sender's status | a status never skips a rumor; a rumor is stored once; rumors only spread by copying; all rumors reach all nodes (the code breaks this when the pass over the stored ones leaves a node behind: `gossip_wants`); routes lead to the origin |
| files | `fileHandler.go`, `gossiper.go:396-565` | `filesIndex`, `downloads`, `.part` files, downloaded files | index, start a download, data request, data reply, resend | unbuffered channels under a mutex; late and doubled replies; index, file and `.part` written in steps | the file is the metafile's chunks in order; what is announced can be served; a download ends |
| search | `fileSearch.go`, `gossiper.go:568-666` | `recentSearchs`, `searchs`, `SearchResult` | search with and without budget, search request, search reply | duplicates suppressed by a goroutine that may be late; unsigned budgets; matches merged by file name | the budget bounds the requests; a full match names a holder of every chunk |
| private messages | `gossiper.go:341-393`, `sendNewMsg.go:77-109` | `routingTable`, `private` | send, forward, deliver | routes that change while a message travels | the hop limit ends every message |
| TLC and rounds | `blockchain.go:15-434`, `gossiper.go:732-791` | `tlcMessages`, `unconfirmedTLC`, `tlcAcks`, `gossipWithConf`, `myTime` | list a file, ack, confirm, resend, advance a round, wait for a round | confirmations before the message, closing channels others send on, rounds counted from message IDs | confirmed means a majority has it; a round is entered after a majority confirmed |
| consensus (QSC) | `blockchain.go:204-255, 457-507` | `blocks` | validate, fittest, append a block | built on rounds | nodes agree on the chain |
| web server, clients, simple mode | `http.go`, `client/main.go`, `static/`, `main.go:140-167` | none of their own | parse, encode, relay | | |

## 2. Plan and state of the work

Most important first. "Done" means modelled, checked and, where it says so, proved.

| module | what | composed with | runs | proofs | state |
|---|---|---|---|---|---|
| `Induction` | facts about numbers, finite sets and functions built one step at a time, which the proofs about loops rest on | used by the proof modules | | in the module | done |
| `OnePass` | the loop of `handleRumor` that raises NextID, iteration by iteration | used by `Gossip` | those of `Gossip` | `OnePassProofs` | done |
| `RumorSpread` | abstract specification: a rumor is published once by its origin and only copied after that | implemented by `Gossip` | `gossip_reorder` (`Spread`) | `GossipProofs` | done |
| `Gossip` | rumors, statuses, acknowledgements, routes, peers the web client adds | | `gossip_reorder`, `gossip_wants` | `GossipProofs` | done |
| `Private` | private messages and acknowledgements of TLC messages on routes that change | extends `Gossip` | `gossip_triangle` | `PrivateProofs` | done |
| `Delivery` | abstract specification: a download appends the chunks of its file in order | implemented by `FileTransfer` | `share` (`Delivers`) | `FileTransferProofs` | done |
| `FileTransfer` | indexing and downloading | | `share`, `listen`, `abort` | `FileTransferProofs` | done |
| `Search` | searches, budgets, matches, reply routes | | `search` | `SearchProofs` | done |
| `ConfirmedTLC` | abstract specification: a message is confirmed by its origin once a majority stored it, then elsewhere | implemented by `Rounds` | `rounds_four` (`Confirms`) | `RoundsProofs` | done |
| `Rounds` | TLC messages (hw3ex2) and their rounds (hw3ex3) | | `rounds_pair`, `rounds_four`, `rounds_panic` | `RoundsProofs` | done |
| `Consensus` | messages with content, blocks, three rounds (hw3ex4) | the rounds of `Rounds`, with contents | `consensus`, `consensus_agreement` | `ConsensusProofs` | done |

The hazards without a property have a note in `PROJECT.json` that says why.

## 3. The modules and the code

General conventions. A step is what one goroutine does between two points where another one can interfere: taking
or releasing a mutex, sending or receiving on a channel, handling a packet. Names are the code's. Identifiers,
texts, hashes and addresses are model values; a node is its name and its address at once. Printing, JSON and the
files of the web client are left out. Comments that begin with "Mutant" mark variants of a definition that carry a
plausible bug; no specification uses them, they are there to show that each property can fail.

### Gossip

| state | code |
|---|---|
| `nextID[n][o]`, 0 if not listed | `Status.Want` |
| `rumors[n][o]`, IDs in order of arrival | `rumors` |
| `rumorsToAck[n][m]`, `rumorsAcked[n][m]` | the maps of those names, with a `rumormongeringWorker` for each entry of the first |
| `clocks[n][r]` | the `VectorClock` of a stored TLC message of another node |
| `peers`, `routingTable` | the same |
| `unstored[n]` | IDs a publishing goroutine took under `statusMutex` and has not stored yet (`sendNewMsg.go:31` to `46`) |
| `inHand[n]` | the new rumor of `handleRumor` between the update of the status and `storeNewMsg` (`gossiper.go:187` to `189`) |
| `arrived[n]` | a TLC message whose clock has been handled, before `handleRumor` takes the message (`gossiper.go:734` to `739`) |
| `net` | datagrams in flight |

`TakeID` and `Publish` are the two halves of `sendNewRumorMessage` and `sendRumorMsg`; `HandleKnownRumor`,
`HandleNewRumor` and `StoreRumor` are `handleRumor`; `SendMissing`, `AskForMissing` and `FlipCoins` are the three
outcomes of `handleStatus`; `AddNode` is the web server's POST `/nodes` (`http.go:60-83`), which may add each node of
the constant `Added`; `AckTimeout` is the ticker of `rumormongeringWorker` and `AntiEntropy` that of
`antientropy`. `Transmit` is the network: any subset of what was in flight and what is sent, so datagrams get
lost, stay (to be received again), and overtake each other.

Merged: the instant in which an origin is listed with NextID 1 and then raised within one packet; one whole
`handleStatus`. Left open (a nondeterministic choice): the order of `Want`, which decides what `SendMissing` sends;
which acknowledged entries the loop at `gossiper.go:230-234` skips because it removes while it ranges, up to half
of them; the coins; the random peers. Route rumors are rumors; client messages without text are no different.

`Clocked` are the rumors that are TLC messages of hw3ex3 and hw3ex4. They carry a clock, the status of their
author: `ClockOf` is the clock a message is sent with (the author's own status, as it is when the message is sent,
since `blockchain.go:42` stores a pointer; at any other node the clock it came with, which `StoreClock` keeps). Whoever
receives one passes the clock to `handleStatus` as the status of the peer the message came from, be it the author or a
relay, and then the message to `handleRumor` (`gossiper.go:734-739`). So `StatusArrives` takes both status packets and
`Clocked` rumors, whose packet then waits in `arrived` for `RumorArrives`. What else a TLC message does is `Rounds`;
that its author sends it again until it is confirmed is left out here.

An acknowledgement is any status whose NextID is at least the ID (`gossiper.go:231`), also that of a peer that has
the earlier rumors and not this one. `AckedPrefix` therefore says of an acknowledged rumor only that the peer has
received the earlier ones. With clocks not even that is true: the clock of a relayed message is its author's status,
who has all of its own rumors, while the relay may have none of them and counts as having acknowledged them. That is
why `AckedPrefix` ends with the first TLC message that has a clock (`NoClocks`). Nothing is lost by it, since
anti-entropy does not look at acknowledgements.

`RumorSpread` is implemented with the rumors a node stores as the state: `Publish` is its `Publish`, `StoreRumor`
its `Learn`.

### Private

`Private` extends `Gossip` with one variable, `mail`: private messages and acknowledgements of TLC messages in
flight. Every action of `Gossip` goes on next to its own, so that routes change while a message travels. `NextHop`
and `Send` are the lookup in `routingTable` and `sendMsgTo`; `SendPrivate` is `sendNewPrivateMessage`, `SendAck` is
`ackTLC` with `sendNewTLCAck` for any rumor a node holds; `Deliver`, `Discard` and `Forward` are the three outcomes of
`handlePrivateMsg`. `Minus1` is the subtraction of unsigned numbers of `Width` values (2^32 in the code): the hop limit
of an acknowledgement is the flag `-hopLimit` minus one (`blockchain.go:402`), whatever the flag is. Data requests
and data replies are forwarded by a second copy of the same code and are not modelled again.

### FileTransfer

`pc[t]` follows a download thread, `handleFileDownload` and `handleFileDownloadFromSearch` alike: asking for the
metafile or for a chunk, writing it, waiting for `downloadsMutex` to take its channel out of `downloads`, done.
`sending` and `reply` are `handleDataReply` inside its loop over the channels, which holds `downloadsMutex`.
`indexed`, `chunkMap` and `parts` are `filesIndex`, its `ChunkMap` and the `.part` files; a chunk enters the index
before its file is created and filled (`fileHandler.go:216-241`). `StartIndexing`, `IndexChunk` and `EndIndexing` are
`handleFileIndexing`. A metafile is handled in one step of the thread.

`Delivery` is implemented with `got` the chunks in the downloaded file and `status` derived from `pc`: a thread that
stops after its last chunk has the file whole, one that stops before it has given up.

Abstracted: the hops between requester and holder, the file name (each download writes to a file of its own),
packet sizes.

### Search

`phase[s]` follows `newFileSearch`; `match` and `full` are its maps; `sending` and `reply` are `handleSearchReply`
inside its loop over `searchs` with `searchsMutex` held. `entering` counts the goroutines `handleDuplicateSearch`
that have been started and have not recorded their search yet, `recentSearchs` those that have and have not
forgotten it. `DivideBudget` is the requests `divideBudget` sends. Requests and replies in flight are bags:
they are lost (nothing forces their delivery) or reordered; they are not doubled, since a doubled request would
spend budget twice. Replies travel hop by hop with their hop limit.

Abstracted: keywords are one value per search and a relation says which names contain one; files do not change
while searches run; only search requests write the routing table; peers are fixed; a budget is at least 1 (the
command line client guarantees it, `client/main.go:86`; the web server does not).

### Rounds

`known`, `confirmed` and `early` are `tlcMessages`, its `Confirmed` fields and `unconfirmedTLC`; `tlcAcks` says for
each own message whether its channel is open, closed or out of `gos.tlcAcks`; `acks` and `inbox` belong to the
goroutine `waitForAckTLC` of that message. `stage[n][k]` is where caller `k` is in `incrementMytime`, which
`gossipWorker`, the client and every collecting goroutine run concurrently: counting the witnesses, reading the length
of `gossipWithConf`, comparing the two numbers, the increment, closing the channels and notifying the halted messages
are steps of their own, because the code holds no mutex from one to the next. `CountWitnesses` is under
`tlcMessagesMutex`, `ReadLength` waits for `gossipWithConfMutex` (`lenGossipConf[n][k]` is what it reads) and
`CheckRound` compares that length with `myTime` afterwards: a caller may go on with a count and a length that are old
by then (`blockchain.go:176-192`). `halted[n][f]` follows `waitForRound`. A panic (send on a closed channel, second
close) stops the process: its node takes no more steps.

The constant `Ex2` is the mode: with it (hw3ex2) a file is published at once (`ListFileEx2`), every message is
acknowledged (`AnyRound`) and nobody counts rounds; without it (hw3ex3) the rounds decide (`Advancing`).

`ConfirmedTLC` is implemented with `known` and `confirmed` as its state, and the majorities of the nodes as its
quorums.

Abstracted: how messages spread (a published message can arrive anywhere, at any time, again and again; resending
is therefore no step), the hops and the loss of acknowledgements (one that is never received is lost; one that
comes before its channel is in `gos.tlcAcks` is ignored, which is the same), blocks, the ten places in a channel.
Merged: the statements of one publication (`blockchain.go:281-296`), between which the node's own goroutines could
interleave. One client lists files at a time; the web server's handlers could be several. `N` is the number of
nodes, what the flag `-N` is documented to be.

### Consensus

The rounds of `Rounds` decide here about messages with a content: a file and the hash of the block below. State and
actions have the names they have in `Rounds`, except that `tlcMessages[n][o]` is the list the code keeps. It has to be:
the message a node publishes for the second or third round is a copy of the fittest it knows, listed with the ID of
the message it was copied from, because `sendNewRumorMessage` numbers it only afterwards (`blockchain.go:238`); whatever
looks up a message by its ID, or takes the node's last own ID (`LastOwn`), sees that old one. `ConfirmedNow`,
`Fittest` and `ValidBlockPublish` are the searches of `findFittestTLC` and the test of `validBlockPublish`;
`AppendBlock` and `PublishFittest` are the two ways on from a new round (`blockchain.go:204-255`).

Abstracted: a hash is the sequence of files that leads to the block (no collisions); fitnesses differ; nodes publish
no other rumors, which would shift IDs (`Rounds` has them). The check of the round has the three steps it has in
`Rounds`; merged, compared with `Rounds`: the increment of the round and the closing of channels. `Hears` bounds whose
messages reach a node, for the network: its own may, since whoever receives a message sends it on to a random peer,
who may be its author (`gossiper.go:192-193`, `main.go:276-282`). `MaxID` bounds the IDs a node takes.

Three things `BlocksConfirmed` and `HistoryConfirmed` do not say. The code appends an empty block when a round ends
without a fittest message (`blockchain.go:210`, `498`), which no majority confirmed: `Appended` are the other blocks,
and nothing is claimed of the empty ones. A message may build on a hash that is no longer the last (`blockchain.go:31`
takes it when the message is listed, and the message may then be halted for a round): `HistoryConfirmed` says that the
hash is that of something confirmed, not that it is the last. And a block that two callers append twice is still
confirmed. The hazards at those lines have notes instead of properties.

The round goes to the halted messages one entry of `gossipWithConf` after the other: `notifying[n]` is the place of
the entry a caller is sending to, and `NextHalted` the next that has a channel. `Rounds` has the same.

## 4. The runs

| run | instance | shows |
|---|---|---|
| `gossip_reorder` | 2 nodes, one publishes 3 rumors, the other adds it as a peer at any time, 1 datagram in flight | the inductive invariant and what follows from it; that `Gossip` implements `RumorSpread`; `Converges` under fairness |
| `gossip_triangle` | 3 nodes that all know each other, 2 rumors of one of which the second is a TLC message with a clock, private messages and acknowledgements, `-hopLimit 0` | `NeverStranded`, `RouteUsable` and the inductive invariant, on routes that are overwritten and may form a loop, and with clocks taken for the status of a relay |
| `gossip_wants` | 2 nodes, 3 rumors | violation: after 3, 2, 1 the status asks for 3 although it is there |
| `share` | b downloads two files that share a chunk while a indexes them | the inductive invariant; files written in order, which `Delivers` states as a refinement; announced chunks on disk; downloads end |
| `listen` | one download | violation: `gossipWorker` blocks with `downloadsMutex` held |
| `abort` | two downloads of a file from two peers, one of which does not have it | violation: the other peer's empty reply ends the download that would succeed |
| `search` | 3 nodes that all know each other, a search without a budget and one with a budget of 5, a file in two parts that two nodes have one of each, and a whole one | the inductive invariant; full matches are served, replies find their way (along routes that are overwritten and may form a loop) and go to the searches that have not ended, budgets are spent, `gossipWorker` comes back |
| `rounds_pair` | 2 nodes, two files and one, hw3ex3 | the inductive invariant; confirmed means known to a majority that reached the message's round |
| `rounds_four` | 4 nodes, two of them list a file, one sends another rumor, hw3ex2 | early and late confirmations are only taken for what they confirm; `Rounds` implements `ConfirmedTLC` |
| `rounds_panic` | as `rounds_pair` | violation: an acknowledgement is sent on a closed channel |
| `consensus` | 2 nodes, two files and one, hw3ex4, b gets its own messages back | the inductive invariant; what blocks and hashes refer to was confirmed by a majority |
| `consensus_agreement` | the same, with another file the fittest | violation: two nodes report a consensus on different files |

Bounds and why they are enough. Three rumors are the least for a stored rumor to be skipped twice by the single pass
(3, 2, 1). One datagram in flight does not mean one message at a time: the one in flight can be received again,
replaced or lost at every step, so old packets meet new state; `MaxInFlight` only limits how many different old
packets are around, and the proofs hold without that limit; `MaxMail` likewise. Three nodes that know each other, and
two rumors, are the least for a route to be overwritten and for two relays to have each other as next hop: c hears the
second from a, b the first from a and the second from c, and c the first, late, from b. Searches need no more, for b
and c each pass the request on to the other, and the requests of both write routes to a. `Quiet` cuts both instances:
one datagram in flight (three in `search`), how many rumors wait for an acknowledgement and how many searches are
recent, and in `gossip_triangle` b and c are symmetric (it has no liveness property). `Hops = 2` lets a search reply
run out of hops. `HOPLIMIT = 2` lets a message be forwarded once and discarded; `Width = 4` shows the wrap of
`-hopLimit 0`. Two files that share a chunk are the least for a reply to answer two downloads. `MaxBudget = 4` instead
of 32 leaves one tick of the growing search. Two files of one node are the least for a halted message. Four nodes are
the least for a majority that needs two acknowledgements and leaves somebody out, who gets the confirmation first.
`MaxID = 6` in `consensus` is three rounds of a message and its confirmation each: the first block and the start of
the next consensus. `ListedEarly` bounds that run: one goroutine at a time is in `incrementMytime` (in `rounds_pair`
`FourAtATime` lets four of the six there be, three of one node among them, and the theorems have no such bound) and
files are listed in a node's first round; one node gets its own messages back, the other does not. The proofs hold
without these bounds. `CHECK_DEADLOCK FALSE` where the system stops by itself: downloads and searches that are over,
or a `gossipWorker` or a node that waits or has panicked, or has used its bounds.

Findings. `gossip_wants`, `listen`, `abort`, `rounds_panic` and `consensus_agreement` are expected to fail;
`PROJECT.json` quotes what each contradicts. Agreement fails even with two nodes of which each
message reaches the other, where a majority is everybody: a node that gets its own copy of the fittest message back
lists it a second time, under the ID it really has, where it had listed it under that of the original; what it takes
for its last own ID changes (`blockchain.go:179`), and it decides on messages of another round than the other node.
`Converges` makes the exception that `gossip_wants` shows: a node whose NextID stopped below a stored rumor
(`LeftBehind`) never asks for what it lacks, nor do its neighbours get that from it, so that with three rumors not
all of them need reach all nodes. It claims nothing else is in the way, for two nodes; with a relay in between it is
not checked.
`RouteUsable` says that a next hop has a route, not that routes have no cycles: they can have some when rumors
arrive out of order, and the hop limit is what ends a message then. `FullMatchServed` is about names that stand for
one file (`OneFile`); matches are merged by name (`fileSearch.go:83-105`).

### Fairness

* `Gossip`: the anti-entropy ticker keeps ticking for every peer (the code picks one at random each time) and its
  status gets through again and again; `gossipWorker` handles the packets that keep arriving and finishes a TLC
  message whose clock it has handled, a publishing goroutine finishes. Strong fairness is used only for datagrams that
  are sent again and again (fair-lossy network).
* `FileTransfer`: a thread that can run does; the timer of five seconds fires and its request gets through again and
  again; a request that keeps arriving is served.
* `Search`: threads and `gossipWorker` go on when they can. Nothing is assumed of datagrams.
* `Rounds` and `Consensus` state no liveness: with the panics and waits they contain there is none to state.

## 5. What is proved

`GossipProofs` holds for all sets of nodes, links, authors and bounds under `GossipAssumption` (links are between
nodes, authors are nodes, the messages with clocks are any of the rumors, `None` is not a node, the two bounds are
numbers; the set of nodes need not be finite).

* `TypeCorrect`: `Spec => []TypeOK`.
* `Inductive`: `Spec => []IInv`. None of `PrefixHeld`, `StatusBounded`, `RouteUsable` and `StoredOnce` is inductive
  alone. That a route is usable needs that who sends a rumor stores it (`PacketOK`) and that who stores one has a
  route (`OriginOK`); that a rumor is stored once needs that the one in `gossipWorker`'s hands is not stored yet, and
  is another node's (`InHandOK`), which in turn needs that a node's own rumors are exactly those it took an ID for
  (`OwnOK`); that no status is ahead of the origin needs the same and that packets in flight are not (`PacketOK`);
  acknowledgements need that NextID of a peer never falls, and that the status they come with is the peer's,
  which is only true before the first clock (`AcksOK`, under `NoClocks`). A message whose clock has been handled is
  still one its sender has (`ArrivedOK`), and no clock, stored or in `gossipWorker`'s hands, is ahead of the
  origins (`ClocksOK`). `IInv` is their conjunction; one lemma per
  action shows that it is preserved; `gossip_reorder` checks it with TLC without clocks, `gossip_triangle` with one.
* `PrefixIsHeld`, `StatusIsBounded`, `RoutesAreUsable`, `RumorsAreStoredOnce` follow from it, and so does
  `AckImpliesPrefix`, which is about acknowledgements before the first clock.
* `GossipSpreads`: `Spec => RS!Spec`, `Gossip` implements `RumorSpread`: `Publish` is its `Publish`, `StoreRumor` its
  `Learn`, everything else a stutter.

`PrivateProofs` adds `PrivateAssumption` (the hop limits are numbers of the given width). A step of `Private` is a step
of `Gossip`, or one that leaves its variables alone, or one that only adds a peer; so the invariant of `Gossip`
carries over.

* `PrivateTypeCorrect`: `PrivateSpec => []PrivateTypeOK`; the wrap of the hop limit keeps it in its width.
* `NeverStrandedHolds`: `PrivateSpec => []NeverStranded`. A node sends along its own route, whose next hop is the
  destination or has a route (`RouteUsable`), and routes are overwritten and never removed, so that this still holds
  when the message arrives; who holds a rumor has a route to its origin (`OriginOK`).

`Induction` proves what the loops need and the library only has for operators: `SetInduction` (a set of numbers that
has 0 and with every number the next), `LeastElement`, `LargestElement` and `LargestValue` of a finite set,
`InjectionOnto` (a sequence of `n` numbers from `1 .. n`, none twice, has them all), and `IterationExists`: a function
given by its first value and a step exists, so that the recursive functions of the models have the values the code's
loops compute.

`OnePassProofs` is about `handleRumor`'s pass over the stored rumors, for every list and every NextID.

* `OnePassFurthest`: the pass raises NextID only over stored rumors, in the order they are stored in, and no
  further than one pass in that order comes. It describes what the code computes, not what it should: that a pass
  may stop below a stored rumor is the finding of `gossip_wants`. `PrefixHeld` rests on its first half.

`FileTransferProofs` holds for all nodes, threads, files and peers under `TransferAssumption`.

* `TypeCorrect`: `Spec => []TypeOK`, with the bounds of the chunk numbers: a thread past the end of its metafile would
  index out of range. That needs `RepliesOK`: what answers a request for a metafile is that metafile or empty.
* `Inductive`: `Spec => []IInv`. A reply carries the hash that was asked for, and a thread takes it only for the chunk
  it waits for; so the file is as long as the chunks taken (`Progress`). A chunk a thread has passed is in its `.part`
  file (`WrittenOnDisk`), also those of an indexing that has passed it (`IndexedOnDisk`); what is announced is one of
  the two, or is being written (`AnnouncedOnDisk`). The three are stable because a `.part` file that is there is only
  truncated to be written again, which is the exception `AnnouncedOnDisk` makes.
* `FilesArePrefixes`, `AnnouncedIsOnDisk` follow from it.
* `DownloadsDeliver`: `Spec => DL!Spec`, `FileTransfer` implements `Delivery`: writing a chunk is its `WriteChunk`, the
  last step of a thread its `Finish` or `GiveUp`, everything else a stutter.

`SearchProofs` holds for all networks, files, searches and budgets under `SearchAssumption`.

* `Inductive`: `Spec => []IInv`. It has three parts that no action relates. Routes: whoever a request came from is its
  origin or has a route to it (`PacketsOK`), so that the next hop of every route has one too (`RoutesOK`), and routes
  are never removed. Channels: a place in `searchs` belongs to one search (`ChannelsOK`), so that deleting it takes out
  that search and nothing else, and this waits until `gossipWorker` is through the list. Matches: what a reply says of
  its sender's files is true (`Answers`), and a match has no chunk twice and each from a node that has it
  (`MatchOf`), which the loop over the chunks of a reply keeps (`AddChunks`, by `IterationExists`).
* `RepliesFindWay`, `ChannelsAreRead` follow from it.
* `TypesOK`: `Spec => []TypeOK`; it rests on what `divideBudget` computes: no request gets a budget of 0.
* `FullMatchesServed`: `Spec => []FullMatchServed`. A full match has as many chunks as the metafile has and none
  twice, so it has them all (`InjectionOnto`).
* `BudgetsAreSpent`: `Spec => BudgetSpent`. The budgets in flight are a sum over a bag that steps change in many places
  at once. The proof counts units instead: a sum of numbers is the size of a set with one element for every unit
  (`SumIsCount`, by induction over the size of the set, since the sum takes elements out in an order nobody knows),
  where a request that is handled takes its units out (`UnitsLess`), requests that are sent bring theirs
  (`UnitsAdded`), and the shares of `divideBudget`, quotient and remainder, have as many as the budget
  (`SharesCount`). That there are finitely many requests in flight is a part of `IInv` (`RequestsOK`).

`RoundsProofs` holds for all finite sets of nodes, in both modes, with and without `-ackAll`, and all bounds under
`RoundsAssumption`.

* `TypesOK`: `Spec => []TypeOK`. That the round is always sent to an entry with a channel needs that no entry is
  removed, nor one added, while `gossipWithConfMutex` is held.
* `Inductive`: `Spec => []IInv`. That a confirmed message is stored by a majority does not follow from the state of
  one step before: the majority was counted in `acks`, one acknowledgement at a time. So `IInv` says that an
  acknowledgement ever sent is backed by its sender's `tlcMessages` and round (`AckedOK`; both only grow), that
  those in a channel or counted were sent for that message (`CollectedOK`), and that a confirmed message has a
  counted majority (`ConfirmedOK`). The last would be lost if a publication reset `acks` of a message that has
  been confirmed: a channel belongs to an ID that was taken, and a publication takes a new one. `ConfirmedOK` also
  says that a confirmation in circulation was published by its origin, which makes `ConfirmationsHonest` inductive.
* `ConfirmedMeansMajority`, `ConfirmedMeansInRound`, `HonestConfirmations`: the three properties of the runs follow
  (`LargerMajority`: a set of nodes that contains a majority is one).
* `ConfirmsHold`: `Spec => CT!Spec`, `Rounds` implements `ConfirmedTLC`: publishing and receiving a message is its
  `Store`, collecting the acknowledgement that makes a majority or receiving a confirmation its `Confirm`.

`ConsensusProofs` holds for all finite sets of nodes, files and fitnesses, with and without `-ackAll`, and any
messages that reach a node, its own included, under `ConsensusAssumption`.

* `TypesOK`: `Spec => []TypeOK`.
* `Inductive`: `Spec => []IInv`. Nothing follows from IDs alone here, since a node lists its copies of the fittest
  message under the ID of the original, in its own list: one list may have an ID twice, with different contents.
  What holds is that the first entry with an ID has the content its origin published under it (`ListOK`), and
  the searches of the code, which all stop at the first (`Position`, `SetConfirmed`), only ever mark that one as
  confirmed. With `PublishedOK` (no two messages of a node have one ID, and a confirmation has the content of its
  message and a counted majority), `ChannelsOK`, and the acknowledgements as in `Rounds` (`AckedOK`, `CollectedOK`),
  an entry that is marked was confirmed by its origin and is stored, with its content, by a majority
  (`ConfirmedEntry`). `HaltedOK` says the same of the block a message builds on, while it waits for its round.
* `BlocksAreConfirmed`: `Spec => []BlocksConfirmed`. What `findFittestTLC` finds is such an entry, whatever the node
  takes for its last own ID; majorities are never lost, as lists only grow (`Grows`).
* `HistoryIsConfirmed`: `Spec => []HistoryConfirmed`. A message builds on the last block or on the fittest message.

Only model-checked: all liveness (`Converges`, `DownloadEnds`, `WorkerReturns`), which is beyond the prover. Every
invariant and every action property of the passing runs, and every refinement, is the statement of a theorem.

## 6. Not modelled

* Web server: posting a message, listing a file and starting a search or a download are the client's operations,
  which the modules have; adding a peer is in `Gossip`. The rest is parsing and encoding. Its append to `searchs`
  without a mutex (`http.go:321`) and its budget 0 for a text that is no number (`http.go:311`) are hazards no
  property covers: `Search` has budgets of at least 1 and searches that register under the mutex.
* Command line client, web client: parsing and encoding around operations that are modelled.
* Simple mode: relays every message to all peers and keeps no state.
* Restarts: nothing is persisted and the code does not handle them. A restarted node would publish from ID 1 again.
* Go data races on fields read without their mutex; they are listed among the hazards.
* That a known peer is recognised as a part of a text (`gossiper.go:690`), the size of datagrams (`gossiper.go:670`) and
  the ten places in the channels of acknowledgements (`blockchain.go:59`): the modules have sets of addresses, whole
  packets and channels without a limit.
