------------------------------- MODULE Search -------------------------------
(***************************************************************************)
(* Searching files by keywords (fileSearch.go, gossiper.go:568-666,        *)
(* 849-857).                                                               *)
(*                                                                         *)
(* A client registers a channel in gos.searchs and starts a thread that    *)
(* sends requests with a budget, once or, without a budget, with a growing *)
(* one every second.  A node that gets a request answers with the files it *)
(* has and spreads the rest of the budget over its other peers, unless it  *)
(* handled the same search in the last half second.  Replies travel back   *)
(* along the routes the requests left, and gossipWorker hands them to      *)
(* every channel of gos.searchs, with searchsMutex held.                   *)
(*                                                                         *)
(* Abstracted: the keywords of a search are one value and Matches says     *)
(* which names contain one of them; the files do not change during the     *)
(* searches; budgets are at least 1, so that Budget-1 does not wrap around;*)
(* rumors, which write the routing table too.                              *)
(***************************************************************************)
EXTENDS Naturals, SequencesExt
INSTANCE BagsExt

CONSTANTS
  Nodes,
  Peers,        \* [node -> the list of its peers]
  Names,        \* file names
  Keywords,
  Matches,      \* {<<keywords, name>>}: a keyword is part of the name
  Files,        \* [node -> its files [name, meta, chunkCount, chunkMap]]
  Searches,     \* bound: the searches clients start
  At,           \* [search -> the node it runs on]
  For,          \* [search -> its keywords]
  Budget,       \* [search -> its budget, NoBudget for none]
  NoBudget,
  MaxBudget,    \* MAXBUDGET, 32 in the code
  Hops,         \* HOPLIMIT, 10 in the code
  None          \* no route, no match, no sender

ASSUME SearchAssumption ==
  /\ Peers \in [Nodes -> Seq(Nodes)]
  /\ \A n \in Nodes : IsInjective(Peers[n])
  /\ Matches \subseteq Keywords \X Names
  /\ \A n \in Nodes : \A f, g \in Files[n] : f.name = g.name => f = g
  /\ \A n \in Nodes : \A f \in Files[n] :
       /\ f.name \in Names /\ f.chunkCount \in Nat
       /\ f.chunkMap \in Seq(1 .. f.chunkCount)
  /\ At \in [Searches -> Nodes]
  /\ For \in [Searches -> Keywords]
  /\ NoBudget \notin Nat
  /\ Budget \in [Searches -> (Nat \ {0}) \cup {NoBudget}]
  /\ MaxBudget \in Nat /\ Hops \in Nat \ {0}
  /\ None \notin Nodes

MatchThreshold == 2

VARIABLES
  phase,        \* [search] where its thread is
  budget,       \* [search] budg, that of the next requests is twice it less one
  match,        \* [search][name] the match put together, None before the first
  full,         \* [search] the names with a full match
  searchs,      \* [node] the channels (searches) that get the search replies
  SearchResult, \* [node][name] the full match downloads use, or None
  sending,      \* [node] the channels gossipWorker has still to send to
  reply,        \* [node] the reply it is sending, None between replies
  entering,     \* [node] bag of searches whose goroutine has not recorded them
  recentSearchs, \* [node] bag of searches
  routingTable, \* [node][origin] next hop, None for none
  requests,     \* bag of search requests in flight
  replies       \* bag of search replies in flight

threadVars == <<phase, budget, match, full, SearchResult>>
workerVars == <<sending, reply>>
recentVars == <<entering, recentSearchs>>
vars == <<threadVars, searchs, workerVars, recentVars, routingTable, requests, replies>>

Init ==
  /\ phase = [s \in Searches |-> "none"]
  /\ budget = [s \in Searches |-> 2]
  /\ match = [s \in Searches |-> [f \in Names |-> None]]
  /\ full = [s \in Searches |-> {}]
  /\ searchs = [n \in Nodes |-> << >>]
  /\ SearchResult = [n \in Nodes |-> [f \in Names |-> None]]
  /\ sending = [n \in Nodes |-> << >>]
  /\ reply = [n \in Nodes |-> None]
  /\ entering = [n \in Nodes |-> EmptyBag]
  /\ recentSearchs = [n \in Nodes |-> EmptyBag]
  /\ routingTable = [n \in Nodes |-> [o \in Nodes |-> None]]
  /\ requests = EmptyBag
  /\ replies = EmptyBag

(* gossipWorker holds searchsMutex while it hands out a reply.             *)
WorkerIdle(n) == sending[n] = << >>
MutexFree(n) == WorkerIdle(n)

-----------------------------------------------------------------------------
(* divideBudget *)

(* What the i-th of k peers gets of the budget b.                          *)
Share(b, k, i) == b \div k + (IF i <= b % k THEN 1 ELSE 0)

(* The requests that spread the budget b over the peers of n other than    *)
(* the one the request came from.                                          *)
DivideBudget(n, b, origin, from, keywords) ==
  LET peers == RemoveFirst(Peers[n], from)
  IN  {[origin |-> origin, keywords |-> keywords, from |-> n, to |-> peers[i],
        budget |-> Share(b, Len(peers), i)] :
         i \in {j \in DOMAIN peers : Share(b, Len(peers), j) > 0}}

-----------------------------------------------------------------------------
(* newFileSearch *)

(* A client starts a search: its channel, its thread, and with a budget    *)
(* the requests.                                                           *)
StartSearch(s) ==
  LET n == At[s] IN
  /\ phase[s] = "none" /\ MutexFree(n)
  /\ phase' = [phase EXCEPT ![s] = "searching"]
  /\ searchs' = [searchs EXCEPT ![n] = Append(@, s)]
  /\ requests' = IF Budget[s] = NoBudget THEN requests
       ELSE requests (+) SetToBag(DivideBudget(n, Budget[s] - 1, n, None, For[s]))
  /\ UNCHANGED <<budget, match, full, SearchResult, workerVars, recentVars,
                 routingTable, replies>>

(* Without a budget, a tick of the ticker, which stops at MAXBUDGET.       *)
Tick(s) ==
  LET n == At[s] IN
  /\ phase[s] = "searching" /\ Budget[s] = NoBudget
  /\ budget[s] # MaxBudget
  /\ budget' = [budget EXCEPT ![s] = 2 * @]
  /\ requests' = requests (+)
       SetToBag(DivideBudget(n, budget'[s] - 1, n, None, For[s]))
  /\ UNCHANGED <<phase, match, full, SearchResult, searchs, workerVars, recentVars,
                 routingTable, replies>>

(* With one, the search ends after two seconds.                            *)
Timeout(s) ==
  /\ phase[s] = "searching" /\ Budget[s] # NoBudget
  /\ phase' = [phase EXCEPT ![s] = "ending"]
  /\ UNCHANGED <<budget, match, full, SearchResult, searchs, workerVars, recentVars,
                 routingTable, requests, replies>>

(* Mutant: a chunk is added for every node that has it. *)
AddChunksAgain(m, origin, chunkMap) ==
  m \o [i \in DOMAIN chunkMap |-> [chunk |-> chunkMap[i], node |-> origin]]

HasChunk(chunks, c) == \E i \in DOMAIN chunks : chunks[i].chunk = c

(* A match is completed by the chunks it does not have yet, each with the  *)
(* node that has it.                                                       *)
AddChunks(m, origin, chunkMap) ==
  LET after[i \in 0 .. Len(chunkMap)] ==
        IF i = 0 THEN m
        ELSE IF HasChunk(after[i - 1], chunkMap[i]) THEN after[i - 1]
        ELSE Append(after[i - 1], [chunk |-> chunkMap[i], node |-> origin])
  IN  after[Len(chunkMap)]

AddResult(m, origin, f) ==
  LET old == IF m = None
             THEN [meta |-> f.meta, chunkCount |-> f.chunkCount, chunks |-> << >>]
             ELSE m
  IN  [old EXCEPT !.chunks = AddChunks(@, origin, f.chunkMap)]

(* The results of the reply r that the thread of s looks at.               *)
ResultsFor(s, r) == {f \in r.results : <<For[s], f.name>> \in Matches}

NewMatch(s, r) ==
  [name \in Names |->
     IF \E f \in ResultsFor(s, r) : f.name = name
     THEN AddResult(match[s][name], r.origin,
                    CHOOSE f \in ResultsFor(s, r) : f.name = name)
     ELSE match[s][name]]

IsFull(m) == m.chunkCount = Len(m.chunks)

(* The names a reply gives a full match.                                   *)
FullOf(s, r) ==
  {name \in {f.name : f \in ResultsFor(s, r)} : IsFull(NewMatch(s, r)[name])}

ReceiveReply(s, r) ==
  /\ phase[s] = "searching"
  /\ match' = [match EXCEPT ![s] = NewMatch(s, r)]
  /\ full' = [full EXCEPT ![s] = @ \cup FullOf(s, r)]
  /\ SearchResult' = [SearchResult EXCEPT ![At[s]] =
       [name \in Names |-> IF name \in FullOf(s, r) THEN match'[s][name] ELSE @[name]]]
  /\ phase' = [phase EXCEPT ![s] =
       IF Cardinality(full'[s]) >= MatchThreshold THEN "ending" ELSE @]
  /\ UNCHANGED budget

(* Mutant: the channel stays in the list. *)
EndSearchListed(s) ==
  /\ phase[s] = "ending" /\ MutexFree(At[s])
  /\ phase' = [phase EXCEPT ![s] = "done"]
  /\ UNCHANGED <<budget, match, full, SearchResult, searchs, workerVars, recentVars,
                 routingTable, requests, replies>>

(* The list of channels without the last place that has the one of s. *)
Deleted(list, s) ==
  IF s \in ToSet(list)
  THEN RemoveAt(list, CHOOSE i \in DOMAIN list :
         list[i] = s /\ \A j \in DOMAIN list : list[j] = s => j <= i)
  ELSE list

(* deleteSearchChannel *)
EndSearch(s) ==
  /\ phase[s] = "ending" /\ MutexFree(At[s])
  /\ phase' = [phase EXCEPT ![s] = "done"]
  /\ searchs' = [searchs EXCEPT ![At[s]] = Deleted(@, s)]
  /\ UNCHANGED <<budget, match, full, SearchResult, workerVars, recentVars,
                 routingTable, requests, replies>>

-----------------------------------------------------------------------------
(* handleSearchRequest *)

Search(r) == [origin |-> r.origin, keywords |-> r.keywords]

Found(n, keywords) == {f \in Files[n] : <<keywords, f.name>> \in Matches}

(* A search in recentSearchs is not handled again.                         *)
DuplicateRequest(n, r) ==
  /\ WorkerIdle(n) /\ r.to = n
  /\ BagIn(Search(r), recentSearchs[n])
  /\ requests' = BagRemove(requests, r)
  /\ UNCHANGED <<threadVars, searchs, workerVars, recentVars, routingTable, replies>>

(* Mutant: a route that changes is forgotten, until the next request. *)
UpdateRouteForgotten(n, origin, addr) ==
  routingTable' = [routingTable EXCEPT ![n][origin] = IF @ \in {None, addr} THEN addr ELSE None]

UpdateRoute(n, origin, addr) ==
  routingTable' = [routingTable EXCEPT ![n][origin] = addr]

(* Mutant: the node handles the request for free. *)
RestAll(r) == r.budget

(* What is left of the budget of a request for the other peers.            *)
Rest(r) == r.budget - 1

(* Another one is answered and passed on; the goroutine that records it as *)
(* recent may do so any time later.                                        *)
NewRequest(n, r) ==
  /\ WorkerIdle(n) /\ r.to = n
  /\ ~ BagIn(Search(r), recentSearchs[n])
  /\ entering' = [entering EXCEPT ![n] = BagAdd(@, Search(r))]
  /\ UpdateRoute(n, r.origin, r.from)
  /\ replies' = IF Found(n, r.keywords) = {} THEN replies
       ELSE BagAdd(replies, [origin |-> n, dest |-> r.origin, hops |-> Hops - 1,
                             results |-> Found(n, r.keywords), to |-> r.from])
  /\ requests' = BagRemove(requests, r) (+)
       SetToBag(DivideBudget(n, Rest(r), r.origin, r.from, r.keywords))
  /\ UNCHANGED <<threadVars, searchs, workerVars, recentSearchs>>

(* handleDuplicateSearch: recorded, and half a second later forgotten.     *)
RecordSearch(n, search) ==
  /\ BagIn(search, entering[n])
  /\ entering' = [entering EXCEPT ![n] = BagRemove(@, search)]
  /\ recentSearchs' = [recentSearchs EXCEPT ![n] = BagAdd(@, search)]
  /\ UNCHANGED <<threadVars, searchs, workerVars, routingTable, requests, replies>>

ForgetSearch(n, search) ==
  /\ BagIn(search, recentSearchs[n])
  /\ recentSearchs' = [recentSearchs EXCEPT ![n] = BagRemove(@, search)]
  /\ UNCHANGED <<threadVars, searchs, workerVars, entering, routingTable, requests, replies>>

-----------------------------------------------------------------------------
(* handleSearchReply *)

(* A reply for the node goes to all of its searches, ...                   *)
AcceptReply(n, r) ==
  /\ WorkerIdle(n) /\ r.to = n
  /\ r.dest = n
  /\ sending' = [sending EXCEPT ![n] = searchs[n]]
  /\ reply' = [reply EXCEPT ![n] = IF searchs[n] = << >> THEN None ELSE r]
  /\ replies' = BagRemove(replies, r)
  /\ UNCHANGED <<threadVars, searchs, recentVars, routingTable, requests>>

(* ... one after the other: each send waits for the search's thread.       *)
SendReply(n) ==
  /\ ~ WorkerIdle(n)
  /\ ReceiveReply(Head(sending[n]), reply[n])
  /\ sending' = [sending EXCEPT ![n] = Tail(@)]
  /\ reply' = [reply EXCEPT ![n] = IF Len(sending[n]) = 1 THEN None ELSE @]
  /\ UNCHANGED <<searchs, recentVars, routingTable, requests, replies>>

(* Mutant: a hop limit of 0 is not the end. *)
MayForwardAlways(n, r) == routingTable[n][r.dest] # None

(* HopLimit and route allow to forward a reply. *)
MayForward(n, r) == r.hops > 0 /\ routingTable[n][r.dest] # None

(* One for another node is forwarded while it has hops left, ...           *)
ForwardReply(n, r) ==
  /\ WorkerIdle(n) /\ r.to = n
  /\ r.dest # n
  /\ MayForward(n, r)
  /\ replies' = BagAdd(BagRemove(replies, r),
       [origin |-> r.origin, dest |-> r.dest, hops |-> r.hops - 1,
        results |-> r.results, to |-> routingTable[n][r.dest]])
  /\ UNCHANGED <<threadVars, searchs, workerVars, recentVars, routingTable, requests>>

(* ... and dropped without hops or without a route.                        *)
DropReply(n, r) ==
  /\ WorkerIdle(n) /\ r.to = n
  /\ r.dest # n
  /\ ~ MayForward(n, r)
  /\ replies' = BagRemove(replies, r)
  /\ UNCHANGED <<threadVars, searchs, workerVars, recentVars, routingTable, requests>>

-----------------------------------------------------------------------------
ThreadStep(s) == StartSearch(s) \/ Tick(s) \/ Timeout(s) \/ EndSearch(s)

HandleSearchRequest(n) ==
  \E r \in BagToSet(requests) : DuplicateRequest(n, r) \/ NewRequest(n, r)

HandleDuplicateSearch(n) ==
  \/ \E search \in BagToSet(entering[n]) : RecordSearch(n, search)
  \/ \E search \in BagToSet(recentSearchs[n]) : ForgetSearch(n, search)

HandleSearchReply(n) ==
  \E r \in BagToSet(replies) : AcceptReply(n, r) \/ ForwardReply(n, r) \/ DropReply(n, r)

Next ==
  \/ \E s \in Searches : ThreadStep(s)
  \/ \E n \in Nodes :
       \/ HandleSearchRequest(n)
       \/ HandleDuplicateSearch(n)
       \/ HandleSearchReply(n)
       \/ SendReply(n)

(* A thread that can go on does, and so does gossipWorker with a thread    *)
(* that receives.  Datagrams may be lost: no fairness for them.            *)
Fairness ==
  /\ \A s \in Searches : WF_vars(Timeout(s)) /\ WF_vars(EndSearch(s))
  /\ \A n \in Nodes : WF_vars(SendReply(n))

Spec == Init /\ [][Next]_vars
FairSpec == Spec /\ Fairness

-----------------------------------------------------------------------------
(* Properties. *)

SearchRecord == [origin : Nodes, keywords : Keywords]
Results == UNION {Files[n] : n \in Nodes}
Requests == [origin : Nodes, keywords : Keywords, from : Nodes, to : Nodes,
             budget : Nat \ {0}]
Replies == [origin : Nodes, dest : Nodes, hops : 0 .. Hops - 1,
            results : SUBSET Results, to : Nodes]
Match == [meta : {f.meta : f \in Results}, chunkCount : Nat,
          chunks : Seq([chunk : Nat, node : Nodes])]

(* Type correctness; the hop limit of a reply never wraps around below 0,  *)
(* and no request travels with nothing to spend.                           *)
TypeOK ==
  /\ phase \in [Searches -> {"none", "searching", "ending", "done"}]
  /\ budget \in [Searches -> Nat \ {0}]
  /\ match \in [Searches -> [Names -> Match \cup {None}]]
  /\ full \in [Searches -> SUBSET Names]
  /\ searchs \in [Nodes -> Seq(Searches)]
  /\ SearchResult \in [Nodes -> [Names -> Match \cup {None}]]
  /\ sending \in [Nodes -> Seq(Searches)]
  /\ reply \in [Nodes -> Replies \cup {None}]
  /\ entering = [n \in Nodes |-> entering[n]]
  /\ recentSearchs = [n \in Nodes |-> recentSearchs[n]]
  /\ \A n \in Nodes : /\ BagToSet(entering[n]) \subseteq SearchRecord
                      /\ BagToSet(recentSearchs[n]) \subseteq SearchRecord
  /\ routingTable \in [Nodes -> [Nodes -> Nodes \cup {None}]]
  /\ BagToSet(requests) \subseteq Requests
  /\ BagToSet(replies) \subseteq Replies

(* The name stands for one file, wherever it is.                           *)
OneFile(name) ==
  \A f, g \in Results : f.name = name /\ g.name = name =>
    f.meta = g.meta /\ f.chunkCount = g.chunkCount

(* A full match, which downloads rely on, names for every chunk of the     *)
(* metafile exactly one node, and that node has the chunk of that file,    *)
(* however often and in whatever order the replies came.  It takes a name  *)
(* that stands for one file only: matches are merged by name.              *)
FullMatchServed ==
  \A n \in Nodes, name \in Names :
    LET m == SearchResult[n][name] IN
    m # None /\ OneFile(name) =>
      /\ Len(m.chunks) = m.chunkCount
      /\ {m.chunks[i].chunk : i \in DOMAIN m.chunks} = 1 .. m.chunkCount
      /\ \A i \in DOMAIN m.chunks : \E f \in Files[m.chunks[i].node] :
           /\ f.name = name /\ f.meta = m.meta
           /\ m.chunks[i].chunk \in ToSet(f.chunkMap)

(* A reply on its way is at the node that searches or at one with a route  *)
(* to it: only the hop limit can stop it, though routes change while it    *)
(* travels and may even form a cycle.                                      *)
ReplyFindsWay ==
  \A r \in BagToSet(replies) : r.to = r.dest \/ routingTable[r.to][r.dest] # None

(* The searches on n whose channel is in the list. *)
Registered(n) == {s \in Searches : At[s] = n /\ phase[s] \in {"searching", "ending"}}

(* A reply goes to all the searches of the node that have not taken their  *)
(* channel out of the list, and to no search that has ended, also while    *)
(* gossipWorker is half through the list and other searches end.           *)
ChannelsRead ==
  \A n \in Nodes :
    /\ ToSet(searchs[n]) = Registered(n)
    /\ ToSet(sending[n]) \subseteq Registered(n)

(* The inductive invariant of SearchProofs: routes, requests and replies,  *)
(* and the lists of channels.                                              *)
RoutesOK ==
  /\ routingTable \in [Nodes -> [Nodes -> Nodes \cup {None}]]
  /\ \A n, o \in Nodes :
       \/ routingTable[n][o] \in {None, o}
       \/ routingTable[routingTable[n][o]][o] # None

PacketsOK ==
  /\ \A r \in BagToSet(requests) :
       /\ r.origin \in Nodes /\ r.from \in Nodes
       /\ r.from = r.origin \/ routingTable[r.from][r.origin] # None
  /\ \A r \in BagToSet(replies) : r.dest \in Nodes /\ r.to \in Nodes

ChannelsOK ==
  /\ phase \in [Searches -> {"none", "searching", "ending", "done"}]
  /\ searchs \in [Nodes -> Seq(Searches)]
  /\ sending \in [Nodes -> Seq(Searches)]
  /\ \A n \in Nodes : IsInjective(searchs[n])

(* A match is one of files with that name: no chunk twice, every chunk     *)
(* from a node that has it.                                                *)
MatchOf(name, m) ==
  /\ m \in Match
  /\ \E f \in Results : f.name = name /\ m.meta = f.meta /\ m.chunkCount = f.chunkCount
  /\ \A i, j \in DOMAIN m.chunks : m.chunks[i].chunk = m.chunks[j].chunk => i = j
  /\ \A i \in DOMAIN m.chunks : \E f \in Files[m.chunks[i].node] :
       f.name = name /\ m.chunks[i].chunk \in ToSet(f.chunkMap)

Answers(r) == r.origin \in Nodes /\ r.results \subseteq Files[r.origin]

MatchesOK ==
  /\ \A r \in BagToSet(replies) : Answers(r)
  /\ \A n \in Nodes : WorkerIdle(n) \/ Answers(reply[n])
  /\ match \in [Searches -> [Names -> Match \cup {None}]]
  /\ \A s \in Searches, name \in Names :
       match[s][name] = None \/ MatchOf(name, match[s][name])
  /\ SearchResult \in [Nodes -> [Names -> Match \cup {None}]]
  /\ \A n \in Nodes, name \in Names :
       LET m == SearchResult[n][name] IN m = None \/ (MatchOf(name, m) /\ IsFull(m))

(* Requests in flight are finitely many, and each is there at least once.  *)
RequestsOK == IsABag(requests) /\ IsFiniteSet(BagToSet(requests))

IInv ==
  /\ RoutesOK /\ PacketsOK /\ ReplyFindsWay /\ RequestsOK
  /\ ChannelsOK /\ ChannelsRead
  /\ MatchesOK /\ TypeOK

BudgetIn(bag) ==
  SumFunction([r \in BagToSet(bag) |-> r.budget * bag[r]])

(* Requests are paid for: a search puts no more than its budget less one   *)
(* into the network, and every request handled, duplicate or not, takes at *)
(* least one out, so that a search reaches no more nodes than its budget.  *)
BudgetSpent ==
  [][requests' # requests =>
       \/ BudgetIn(requests') < BudgetIn(requests)
       \/ \E s \in Searches :
            /\ phase'[s] # phase[s] \/ budget'[s] # budget[s]
            /\ BudgetIn(requests') < BudgetIn(requests) +
                 (IF Budget[s] = NoBudget THEN budget'[s] ELSE Budget[s])]_vars

(* gossipWorker is sending a reply to a search that has ended and waits    *)
(* for searchsMutex, which gossipWorker holds.                             *)
HeldUp(n) == ~ WorkerIdle(n) /\ phase[Head(sending[n])] = "ending"

(* Nothing but that keeps gossipWorker from its next datagram: no search   *)
(* leaves a channel in the list that nobody reads from any more.           *)
WorkerReturns == \A n \in Nodes : []<>(WorkerIdle(n) \/ HeldUp(n))
=============================================================================
