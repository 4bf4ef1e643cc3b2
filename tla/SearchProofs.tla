---------------------------- MODULE SearchProofs ----------------------------
(***************************************************************************)
(* Proofs about Search, for any network, files, searches and budgets: a    *)
(* reply never loses its way, the channels gossipWorker sends replies to   *)
(* are those of the searches that have not ended, a full match leads to    *)
(* every chunk, and the requests of a search use up its budget.            *)
(***************************************************************************)
EXTENDS Search, SequenceTheorems, Induction

(* What the operations on bags leave in them. *)
LEMMA BagOperations ==
  ASSUME NEW B, NEW x, NEW S
  PROVE  /\ BagToSet(BagAdd(B, x)) = BagToSet(B) \cup {x}
         /\ BagToSet(BagRemove(B, x)) \subseteq BagToSet(B)
         /\ BagToSet(B (+) SetToBag(S)) = BagToSet(B) \cup S
<1>1. BagToSet(BagAdd(B, x)) = BagToSet(B) \cup {x}
  BY DEF BagToSet, BagAdd
<1>2. BagToSet(BagRemove(B, x)) \subseteq BagToSet(B)
  BY DEF BagToSet, BagRemove
<1>3. BagToSet(B (+) SetToBag(S)) = BagToSet(B) \cup S
  BY DEF BagToSet, SetToBag, (+)
<1> QED
  BY <1>1, <1>2, <1>3

(* A search taken out of the list leaves the others in it, once each. *)
LEMMA DeletedOK ==
  ASSUME NEW list \in Seq(Searches), IsInjective(list), NEW s \in Searches
  PROVE  /\ Deleted(list, s) \in Seq(Searches)
         /\ IsInjective(Deleted(list, s))
         /\ ToSet(Deleted(list, s)) = ToSet(list) \ {s}
<1>1. CASE s \notin ToSet(list)
  BY <1>1 DEF Deleted
<1>2. CASE s \in ToSet(list)
  <2>1. PICK k \in DOMAIN list : list[k] = s
    BY <1>2 DEF ToSet
  <2>2. \A j \in DOMAIN list : list[j] = s => j = k
    BY <2>1 DEF IsInjective
  <2>3. (CHOOSE i \in DOMAIN list :
           list[i] = s /\ \A j \in DOMAIN list : list[j] = s => j <= i) = k
    <3> DEFINE P(i) == list[i] = s /\ \A j \in DOMAIN list : list[j] = s => j <= i
    <3>1. P(k)
      BY <2>1, <2>2
    <3>2. \A i \in DOMAIN list : P(i) => i = k
      BY <2>2
    <3> HIDE DEF P
    <3>3. (CHOOSE i \in DOMAIN list : P(i)) = k
      BY <2>1, <3>1, <3>2
    <3> QED
      BY <3>3 DEF P
  <2> DEFINE rest == RemoveAt(list, k)
  <2>4. Deleted(list, s) = rest
    BY <1>2, <2>3 DEF Deleted
  <2>5. k \in 1 .. Len(list)
    BY <2>1
  <2>6. /\ rest \in Seq(Searches)
        /\ Len(rest) = Len(list) - 1
        /\ \A i \in 1 .. Len(rest) : rest[i] = list[IF i < k THEN i ELSE i + 1]
    <3> DEFINE front == SubSeq(list, 1, k - 1)
               back  == SubSeq(list, k + 1, Len(list))
    <3>1. /\ front \in Seq(Searches) /\ Len(front) = k - 1
          /\ \A i \in 1 .. k - 1 : front[i] = list[i]
      BY <2>5
    <3>2. /\ back \in Seq(Searches) /\ Len(back) = Len(list) - k
          /\ \A i \in 1 .. Len(list) - k : back[i] = list[k + i]
      BY <2>5
    <3>3. rest = front \o back
      BY DEF RemoveAt
    <3> HIDE DEF front, back, rest
    <3>4. /\ rest \in Seq(Searches) /\ Len(rest) = Len(front) + Len(back)
          /\ \A i \in 1 .. Len(front) + Len(back) :
               rest[i] = IF i <= Len(front) THEN front[i] ELSE back[i - Len(front)]
      BY <3>1, <3>2, <3>3, ConcatProperties
    <3>5. Len(rest) = Len(list) - 1
      BY <2>5, <3>1, <3>2, <3>4
    <3>6. ASSUME NEW i \in 1 .. Len(rest)
          PROVE  rest[i] = list[IF i < k THEN i ELSE i + 1]
      <4>1. CASE i < k
        BY <2>5, <3>1, <3>2, <3>4, <4>1
      <4>2. CASE i >= k
        <5>1. rest[i] = back[i - (k - 1)]
          BY <2>5, <3>1, <3>2, <3>4, <4>2
        <5>2. i - (k - 1) \in 1 .. Len(list) - k
          BY <2>5, <3>5, <4>2
        <5>3. back[i - (k - 1)] = list[k + (i - (k - 1))]
          BY <3>2, <5>2
        <5> QED
          BY <2>5, <4>2, <5>1, <5>3
      <4> QED
        BY <2>5, <4>1, <4>2
    <3> QED
      BY <3>4, <3>5, <3>6
  <2> HIDE DEF rest
  <2>7. DOMAIN list = 1 .. Len(list) /\ DOMAIN rest = 1 .. Len(rest)
    BY <2>6
  <2>8. IsInjective(rest)
    BY <2>5, <2>6, <2>7 DEF IsInjective
  <2>9. ToSet(rest) \subseteq ToSet(list) \ {s}
    BY <2>2, <2>5, <2>6, <2>7 DEF ToSet
  <2>10. ASSUME NEW x \in ToSet(list), x # s
         PROVE  x \in ToSet(rest)
    <3>1. PICK i \in DOMAIN list : list[i] = x
      BY DEF ToSet
    <3>2. CASE i < k
      <4>1. i \in 1 .. Len(rest) /\ rest[i] = x
        BY <2>5, <2>6, <2>7, <3>1, <3>2
      <4> QED
        BY <2>7, <4>1 DEF ToSet
    <3>3. CASE i > k
      <4>1. i - 1 \in 1 .. Len(rest) /\ rest[i - 1] = x
        BY <2>5, <2>6, <2>7, <3>1, <3>3
      <4> QED
        BY <2>7, <4>1 DEF ToSet
    <3>4. i # k
      BY <2>1, <2>10, <3>1
    <3> QED
      BY <2>5, <2>7, <3>1, <3>2, <3>3, <3>4
  <2> QED
    BY <2>4, <2>6, <2>8, <2>9, <2>10
<1> QED
  BY <1>1, <1>2

(* A new search is added at the end. *)
LEMMA AppendedOK ==
  ASSUME NEW list \in Seq(Searches), IsInjective(list),
         NEW s \in Searches, s \notin ToSet(list)
  PROVE  /\ Append(list, s) \in Seq(Searches)
         /\ IsInjective(Append(list, s))
         /\ ToSet(Append(list, s)) = ToSet(list) \cup {s}
<1> DEFINE longer == Append(list, s)
<1>1. /\ longer \in Seq(Searches)
      /\ DOMAIN longer = 1 .. Len(list) + 1 /\ DOMAIN list = 1 .. Len(list)
      /\ Len(list) \in Nat
      /\ longer[Len(list) + 1] = s
      /\ \A i \in 1 .. Len(list) : longer[i] = list[i]
  OBVIOUS
<1> HIDE DEF longer
<1>2. \A i \in DOMAIN list : list[i] # s
  BY DEF ToSet
<1>3. IsInjective(longer)
  BY <1>1, <1>2 DEF IsInjective
<1>4. ToSet(longer) = ToSet(list) \cup {s}
  <2>1. ToSet(longer) \subseteq ToSet(list) \cup {s}
    BY <1>1 DEF ToSet
  <2>2. s \in ToSet(longer)
    BY <1>1 DEF ToSet
  <2>3. ToSet(list) \subseteq ToSet(longer)
    BY <1>1 DEF ToSet
  <2> QED
    BY <2>1, <2>2, <2>3
<1> QED
  BY <1>1, <1>3, <1>4 DEF longer

(* What is left to send to is part of the list. *)
LEMMA TailOK ==
  ASSUME NEW list \in Seq(Searches), list # << >>
  PROVE  /\ Tail(list) \in Seq(Searches)
         /\ ToSet(Tail(list)) \subseteq ToSet(list)
         /\ Head(list) \in ToSet(list)
<1>1. /\ Tail(list) \in Seq(Searches)
      /\ Len(Tail(list)) = Len(list) - 1 /\ Len(list) >= 1
      /\ \A i \in 1 .. Len(list) - 1 : Tail(list)[i] = list[i + 1]
      /\ DOMAIN Tail(list) = 1 .. Len(list) - 1
      /\ DOMAIN list = 1 .. Len(list)
      /\ Head(list) = list[1]
  OBVIOUS
<1> QED
  BY <1>1 DEF ToSet

(* Every request of divideBudget says where it comes from. *)
LEMMA DividedFrom ==
  ASSUME NEW n, NEW b, NEW origin, NEW from, NEW keywords,
         NEW r \in DivideBudget(n, b, origin, from, keywords)
  PROVE  r.origin = origin /\ r.from = n
<1>1. \E to, share : r = [origin |-> origin, keywords |-> keywords, from |-> n,
                           to |-> to, budget |-> share]
  BY Zenon DEF DivideBudget
<1> QED
  BY <1>1

(* What divideBudget takes the peer a request came from out of. *)
LEMMA RemoveFirstType ==
  ASSUME NEW S, NEW list \in Seq(S), NEW e
  PROVE  RemoveFirst(list, e) \in Seq(S)
<1>1. CASE ~ \E i \in 1 .. Len(list) : list[i] = e
  BY <1>1 DEF RemoveFirst
<1>2. CASE \E i \in 1 .. Len(list) : list[i] = e
  <2> DEFINE I == {i \in 1 .. Len(list) : list[i] = e}
             k == Min(I)
  <2>1. I \in SUBSET Nat /\ I # {}
    BY <1>2
  <2>2. \E m \in I : \A j \in I : m <= j
    <3> HIDE DEF I
    <3> QED
      BY <2>1, LeastElement
  <2>3. k \in I
    <3> HIDE DEF I
    <3> QED
      BY <2>2 DEF Min
  <2>4. RemoveFirst(list, e) = RemoveAt(list, k)
    BY <1>2, <2>1 DEF RemoveFirst, SelectInSeq
  <2>5. k \in 1 .. Len(list)
    BY <2>3
  <2> HIDE DEF k
  <2>6. /\ SubSeq(list, 1, k - 1) \in Seq(S)
        /\ SubSeq(list, k + 1, Len(list)) \in Seq(S)
    BY <2>5
  <2> QED
    BY <2>4, <2>6, ConcatProperties DEF RemoveAt
<1> QED
  BY <1>1, <1>2

(* divideBudget only sends requests with something to spend.  *)
LEMMA DividedType ==
  ASSUME NEW n \in Nodes, NEW b \in Nat, NEW origin \in Nodes, NEW from,
         NEW keywords \in Keywords
  PROVE  DivideBudget(n, b, origin, from, keywords) \subseteq Requests
<1> DEFINE peers == RemoveFirst(Peers[n], from)
<1>1. peers \in Seq(Nodes)
  BY RemoveFirstType, SearchAssumption
<1>2. DOMAIN peers = 1 .. Len(peers) /\ Len(peers) \in Nat
  BY <1>1
<1>3. \A i \in DOMAIN peers : peers[i] \in Nodes
  BY <1>1
<1>4. ASSUME NEW i \in DOMAIN peers
      PROVE  Share(b, Len(peers), i) \in Nat
  <2>1. Len(peers) \in Nat \ {0}
    BY <1>2
  <2>2. b \div Len(peers) \in Nat
    BY <2>1
  <2> QED
    BY <2>2 DEF Share
<1>5. DivideBudget(n, b, origin, from, keywords) =
        {[origin |-> origin, keywords |-> keywords, from |-> n, to |-> peers[i],
          budget |-> Share(b, Len(peers), i)] :
           i \in {j \in DOMAIN peers : Share(b, Len(peers), j) > 0}}
  BY DEF DivideBudget
<1> HIDE DEF peers
<1> QED
  BY <1>3, <1>4, <1>5 DEF Requests

LEMMA InitOK ==
  ASSUME Init
  PROVE  IInv
<1> USE SearchAssumption
<1>1. RoutesOK
  BY DEF Init, RoutesOK
<1>2. PacketsOK /\ ReplyFindsWay
  BY DEF Init, PacketsOK, ReplyFindsWay, EmptyBag, SetToBag, BagToSet
<1>3. ChannelsOK
  BY DEF Init, ChannelsOK, IsInjective
<1>4. ChannelsRead
  BY DEF Init, ChannelsRead, Registered, ToSet
<1>5. BagToSet(EmptyBag) = {}
  BY DEF EmptyBag, SetToBag, BagToSet
<1>6. MatchesOK
  BY <1>5 DEF Init, MatchesOK, WorkerIdle
<1>7. TypeOK
  BY <1>5 DEF Init, TypeOK
<1>8. RequestsOK
  BY FS_EmptySet DEF Init, RequestsOK, IsABag, EmptyBag, SetToBag, BagToSet
<1> QED
  BY <1>1, <1>2, <1>3, <1>4, <1>6, <1>7, <1>8 DEF IInv

-----------------------------------------------------------------------------
(* Routes and packets. *)

RoutesPart == RoutesOK /\ PacketsOK /\ ReplyFindsWay

(* Routes that only change by UpdateRoute are never removed, and packets    *)
(* that came from or are at nodes with a route keep one.                   *)
LEMMA RouteStep ==
  ASSUME RoutesOK, NEW n \in Nodes, NEW o \in Nodes, NEW addr \in Nodes,
         addr = o \/ routingTable[addr][o] # None,
         UpdateRoute(n, o, addr)
  PROVE  /\ RoutesOK'
         /\ routingTable'[n][o] # None
         /\ \A m, d \in Nodes : routingTable[m][d] # None => routingTable'[m][d] # None
<1>1. None \notin Nodes
  BY SearchAssumption
<1>2. /\ routingTable' \in [Nodes -> [Nodes -> Nodes \cup {None}]]
      /\ \A m, d \in Nodes : routingTable'[m][d] =
           IF m = n /\ d = o THEN addr ELSE routingTable[m][d]
  BY DEF RoutesOK, UpdateRoute
<1>3. \A m, d \in Nodes : routingTable[m][d] # None => routingTable'[m][d] # None
  BY <1>1, <1>2
<1>4. ASSUME NEW m \in Nodes, NEW d \in Nodes, routingTable'[m][d] \notin {None, d}
      PROVE  routingTable'[routingTable'[m][d]][d] # None
  <2>1. CASE m = n /\ d = o
    BY <1>2, <1>3, <1>4, <2>1
  <2>2. CASE ~ (m = n /\ d = o)
    <3>1. routingTable'[m][d] = routingTable[m][d] /\ routingTable[m][d] \in Nodes
      BY <1>2, <1>4, <2>2 DEF RoutesOK
    <3>2. routingTable[routingTable[m][d]][d] # None
      BY <1>4, <3>1 DEF RoutesOK
    <3> QED
      BY <1>3, <3>1, <3>2
  <2> QED
    BY <2>1, <2>2
<1>5. RoutesOK'
  BY <1>2, <1>4 DEF RoutesOK
<1> QED
  BY <1>1, <1>2, <1>3, <1>5

(* Requests a node sends for its own search. *)
LEMMA OwnRequests ==
  ASSUME RoutesPart, NEW n \in Nodes,
         \A r \in BagToSet(requests') :
           r \in BagToSet(requests) \/ (r.origin = n /\ r.from = n),
         UNCHANGED <<routingTable, replies>>
  PROVE  RoutesPart'
<1>1. RoutesOK' /\ ReplyFindsWay'
  BY DEF RoutesPart, RoutesOK, ReplyFindsWay
<1>2. PacketsOK'
  BY DEF RoutesPart, PacketsOK
<1> QED
  BY <1>1, <1>2 DEF RoutesPart

LEMMA NewRequestRoutes ==
  ASSUME RoutesPart, NEW n \in Nodes, NEW r \in BagToSet(requests), NewRequest(n, r)
  PROVE  RoutesPart'
<1>1. /\ r.origin \in Nodes /\ r.from \in Nodes
      /\ r.from = r.origin \/ routingTable[r.from][r.origin] # None
  BY DEF RoutesPart, PacketsOK
<1>2. UpdateRoute(n, r.origin, r.from)
  BY DEF NewRequest
<1>3. /\ RoutesOK'
      /\ routingTable'[n][r.origin] # None
      /\ \A m, d \in Nodes : routingTable[m][d] # None => routingTable'[m][d] # None
  BY <1>1, <1>2, RouteStep DEF RoutesPart
<1> DEFINE answer == [origin |-> n, dest |-> r.origin, hops |-> Hops - 1,
                      results |-> Found(n, r.keywords), to |-> r.from]
           passed == DivideBudget(n, Rest(r), r.origin, r.from, r.keywords)
<1>4. BagToSet(replies') \subseteq BagToSet(replies) \cup {answer}
  BY BagOperations DEF NewRequest
<1>5. BagToSet(requests') \subseteq BagToSet(requests) \cup passed
  <2>1. BagToSet(requests') = BagToSet(BagRemove(requests, r)) \cup passed
    BY BagOperations DEF NewRequest
  <2> QED
    BY <2>1, BagOperations
<1>6. answer.dest = r.origin /\ answer.to = r.from
  OBVIOUS
<1> HIDE DEF answer, passed
<1>7. ASSUME NEW q \in BagToSet(requests')
      PROVE  /\ q.origin \in Nodes /\ q.from \in Nodes
             /\ q.from = q.origin \/ routingTable'[q.from][q.origin] # None
  <2>1. CASE q \in BagToSet(requests)
    BY <1>3, <2>1 DEF RoutesPart, PacketsOK
  <2>2. CASE q \in passed
    <3>1. q.origin = r.origin /\ q.from = n
      BY <2>2, DividedFrom DEF passed
    <3> QED
      BY <1>1, <1>3, <3>1
  <2> QED
    BY <1>5, <1>7, <2>1, <2>2
<1>8. ASSUME NEW q \in BagToSet(replies')
      PROVE  /\ q.dest \in Nodes /\ q.to \in Nodes
             /\ q.to = q.dest \/ routingTable'[q.to][q.dest] # None
  <2>1. CASE q \in BagToSet(replies)
    BY <1>3, <2>1 DEF RoutesPart, PacketsOK, ReplyFindsWay
  <2>2. CASE q = answer
    BY <1>1, <1>3, <1>6, <2>2
  <2> QED
    BY <1>4, <1>8, <2>1, <2>2
<1>9. PacketsOK' /\ ReplyFindsWay'
  BY <1>7, <1>8 DEF PacketsOK, ReplyFindsWay
<1> QED
  BY <1>3, <1>9 DEF RoutesPart

(* Packets that are taken from the network and nothing else. *)
LEMMA FewerPackets ==
  ASSUME RoutesPart, UNCHANGED routingTable,
         BagToSet(requests') \subseteq BagToSet(requests),
         BagToSet(replies') \subseteq BagToSet(replies)
  PROVE  RoutesPart'
<1>1. RoutesOK'
  BY DEF RoutesPart, RoutesOK
<1>2. PacketsOK' /\ ReplyFindsWay'
  BY DEF RoutesPart, PacketsOK, ReplyFindsWay
<1> QED
  BY <1>1, <1>2 DEF RoutesPart

LEMMA ForwardRoutes ==
  ASSUME RoutesPart, NEW n \in Nodes, NEW r \in BagToSet(replies), ForwardReply(n, r)
  PROVE  RoutesPart'
<1> DEFINE next == [origin |-> r.origin, dest |-> r.dest, hops |-> r.hops - 1,
                    results |-> r.results, to |-> routingTable[n][r.dest]]
<1>1. r.dest \in Nodes /\ r.to = n /\ routingTable[n][r.dest] # None
  BY DEF RoutesPart, PacketsOK, ForwardReply, MayForward
<1>2. UNCHANGED <<routingTable, requests>>
  BY DEF ForwardReply
<1>3. BagToSet(replies') \subseteq BagToSet(replies) \cup {next}
  <2>1. replies' = BagAdd(BagRemove(replies, r), next)
    BY DEF ForwardReply
  <2> HIDE DEF next
  <2>2. BagToSet(replies') = BagToSet(BagRemove(replies, r)) \cup {next}
    BY <2>1, BagOperations
  <2> QED
    BY <2>2, BagOperations
<1>4. RoutesOK'
  BY <1>2 DEF RoutesPart, RoutesOK
<1>5. next.dest = r.dest /\ next.to = routingTable[n][r.dest]
  OBVIOUS
<1> HIDE DEF next
<1>6. /\ next.dest \in Nodes /\ next.to \in Nodes
      /\ next.to = next.dest \/ routingTable[next.to][next.dest] # None
  BY <1>1, <1>5 DEF RoutesPart, RoutesOK
<1>7. PacketsOK' /\ ReplyFindsWay'
  BY <1>2, <1>3, <1>6 DEF RoutesPart, PacketsOK, ReplyFindsWay
<1> QED
  BY <1>4, <1>7 DEF RoutesPart

LEMMA RoutesNext ==
  ASSUME RoutesPart, [Next]_vars
  PROVE  RoutesPart'
<1> USE SearchAssumption
<1>1. CASE UNCHANGED vars
  <2>1. UNCHANGED <<routingTable, requests, replies>>
    BY <1>1 DEF vars
  <2> QED
    BY <2>1, FewerPackets
<1>2. ASSUME NEW s \in Searches, StartSearch(s)
      PROVE  RoutesPart'
  <2>1. At[s] \in Nodes
    OBVIOUS
  <2> DEFINE own == DivideBudget(At[s], Budget[s] - 1, At[s], None, For[s])
  <2>2. /\ requests' = requests \/ requests' = requests (+) SetToBag(own)
        /\ UNCHANGED <<routingTable, replies>>
    BY <1>2 DEF StartSearch
  <2>3. \A r \in own : r.origin = At[s] /\ r.from = At[s]
    BY DividedFrom
  <2> HIDE DEF own
  <2>4. BagToSet(requests') \subseteq BagToSet(requests) \cup own
    <3>1. BagToSet(requests (+) SetToBag(own)) = BagToSet(requests) \cup own
      BY BagOperations
    <3> QED
      BY <2>2, <3>1
  <2>5. \A r \in BagToSet(requests') :
          r \in BagToSet(requests) \/ (r.origin = At[s] /\ r.from = At[s])
    BY <2>3, <2>4
  <2> QED
    BY <2>1, <2>2, <2>5, OwnRequests
<1>3. ASSUME NEW s \in Searches, Tick(s)
      PROVE  RoutesPart'
  <2>1. At[s] \in Nodes
    OBVIOUS
  <2> DEFINE own == DivideBudget(At[s], budget'[s] - 1, At[s], None, For[s])
  <2>2. /\ requests' = requests \/ requests' = requests (+) SetToBag(own)
        /\ UNCHANGED <<routingTable, replies>>
    BY <1>3 DEF Tick
  <2>3. \A r \in own : r.origin = At[s] /\ r.from = At[s]
    BY DividedFrom
  <2> HIDE DEF own
  <2>4. BagToSet(requests') \subseteq BagToSet(requests) \cup own
    <3>1. BagToSet(requests (+) SetToBag(own)) = BagToSet(requests) \cup own
      BY BagOperations
    <3> QED
      BY <2>2, <3>1
  <2>5. \A r \in BagToSet(requests') :
          r \in BagToSet(requests) \/ (r.origin = At[s] /\ r.from = At[s])
    BY <2>3, <2>4
  <2> QED
    BY <2>1, <2>2, <2>5, OwnRequests
<1>4. ASSUME NEW s \in Searches, Timeout(s) \/ EndSearch(s)
      PROVE  RoutesPart'
  <2>1. UNCHANGED <<routingTable, requests, replies>>
    BY <1>4 DEF Timeout, EndSearch
  <2> QED
    BY <2>1, FewerPackets
<1>5. ASSUME NEW n \in Nodes, NEW r \in BagToSet(requests), DuplicateRequest(n, r)
      PROVE  RoutesPart'
  <2>1. UNCHANGED <<routingTable, replies>> /\ requests' = BagRemove(requests, r)
    BY <1>5 DEF DuplicateRequest
  <2> QED
    BY <2>1, BagOperations, FewerPackets
<1>6. ASSUME NEW n \in Nodes, HandleDuplicateSearch(n)
      PROVE  RoutesPart'
  <2>1. UNCHANGED <<routingTable, requests, replies>>
    BY <1>6 DEF HandleDuplicateSearch, RecordSearch, ForgetSearch
  <2> QED
    BY <2>1, FewerPackets
<1>7. ASSUME NEW n \in Nodes, NEW r \in BagToSet(replies),
             AcceptReply(n, r) \/ DropReply(n, r)
      PROVE  RoutesPart'
  <2>1. UNCHANGED <<routingTable, requests>> /\ replies' = BagRemove(replies, r)
    BY <1>7 DEF AcceptReply, DropReply
  <2> QED
    BY <2>1, BagOperations, FewerPackets
<1>8. ASSUME NEW n \in Nodes, SendReply(n)
      PROVE  RoutesPart'
  <2>1. UNCHANGED <<routingTable, requests, replies>>
    BY <1>8 DEF SendReply
  <2> QED
    BY <2>1, FewerPackets
<1> QED
  BY <1>1, <1>2, <1>3, <1>4, <1>5, <1>6, <1>7, <1>8, NewRequestRoutes, ForwardRoutes
     DEF Next, ThreadStep, HandleSearchRequest, HandleSearchReply

-----------------------------------------------------------------------------
(* Channels. *)

ChannelsPart == ChannelsOK /\ ChannelsRead

(* The list and what is left to send to stay, searches that are registered  *)
(* stay registered.                                                        *)
LEMMA SameChannels ==
  ASSUME ChannelsPart, phase' \in [Searches -> {"none", "searching", "ending", "done"}],
         searchs' = searchs, sending' \in [Nodes -> Seq(Searches)],
         \A n \in Nodes : ToSet(sending'[n]) \subseteq ToSet(searchs[n]),
         \A s \in Searches : phase'[s] = phase[s] \/
           {phase[s], phase'[s]} \subseteq {"searching", "ending"}
  PROVE  ChannelsPart'
<1>1. ChannelsOK'
  BY DEF ChannelsPart, ChannelsOK
<1>2. \A n \in Nodes : Registered(n)' = Registered(n)
  BY DEF Registered
<1>3. ChannelsRead'
  BY <1>2 DEF ChannelsPart, ChannelsRead
<1> QED
  BY <1>1, <1>3 DEF ChannelsPart

LEMMA StartChannels ==
  ASSUME ChannelsPart, NEW s \in Searches, StartSearch(s)
  PROVE  ChannelsPart'
<1> DEFINE n == At[s]
<1>1. n \in Nodes
  BY SearchAssumption
<1>2. /\ phase[s] = "none"
      /\ phase' = [phase EXCEPT ![s] = "searching"]
      /\ searchs' = [searchs EXCEPT ![n] = Append(@, s)]
      /\ sending' = sending
  BY DEF StartSearch, workerVars
<1>3. s \notin ToSet(searchs[n])
  BY <1>1, <1>2 DEF ChannelsPart, ChannelsRead, Registered
<1>4. /\ Append(searchs[n], s) \in Seq(Searches)
      /\ IsInjective(Append(searchs[n], s))
      /\ ToSet(Append(searchs[n], s)) = ToSet(searchs[n]) \cup {s}
  BY <1>1, <1>3, AppendedOK DEF ChannelsPart, ChannelsOK
<1>5. ChannelsOK'
  BY <1>1, <1>2, <1>4 DEF ChannelsPart, ChannelsOK
<1>6. \A m \in Nodes : Registered(m)' = IF m = n THEN Registered(m) \cup {s} ELSE Registered(m)
  BY <1>1, <1>2 DEF ChannelsPart, ChannelsOK, Registered
<1>7. \A m \in Nodes : ToSet(searchs'[m]) =
        IF m = n THEN ToSet(searchs[m]) \cup {s} ELSE ToSet(searchs[m])
  BY <1>1, <1>2, <1>4 DEF ChannelsPart, ChannelsOK
<1>8. ChannelsRead'
  BY <1>2, <1>6, <1>7 DEF ChannelsPart, ChannelsRead
<1> QED
  BY <1>5, <1>8 DEF ChannelsPart

(* gossipWorker is not half through the list, so nothing is left to send   *)
(* to the search that ends.                                                *)
LEMMA EndChannels ==
  ASSUME ChannelsPart, NEW s \in Searches, EndSearch(s)
  PROVE  ChannelsPart'
<1> DEFINE n == At[s]
<1>1. n \in Nodes
  BY SearchAssumption
<1>2. /\ phase[s] = "ending" /\ sending[n] = << >>
      /\ phase' = [phase EXCEPT ![s] = "done"]
      /\ searchs' = [searchs EXCEPT ![n] = Deleted(@, s)]
      /\ sending' = sending
  BY DEF EndSearch, MutexFree, WorkerIdle, workerVars
<1>3. /\ Deleted(searchs[n], s) \in Seq(Searches)
      /\ IsInjective(Deleted(searchs[n], s))
      /\ ToSet(Deleted(searchs[n], s)) = ToSet(searchs[n]) \ {s}
  BY <1>1, DeletedOK DEF ChannelsPart, ChannelsOK
<1>4. ChannelsOK'
  BY <1>1, <1>2, <1>3 DEF ChannelsPart, ChannelsOK
<1>5. \A m \in Nodes : Registered(m)' = IF m = n THEN Registered(m) \ {s} ELSE Registered(m)
  BY <1>1, <1>2 DEF ChannelsPart, ChannelsOK, Registered
<1>6. \A m \in Nodes : ToSet(searchs'[m]) =
        IF m = n THEN ToSet(searchs[m]) \ {s} ELSE ToSet(searchs[m])
  BY <1>1, <1>2, <1>3 DEF ChannelsPart, ChannelsOK
<1>7. ToSet(sending[n]) = {}
  BY <1>2 DEF ToSet
<1>8. ChannelsRead'
  BY <1>2, <1>5, <1>6, <1>7 DEF ChannelsPart, ChannelsRead
<1> QED
  BY <1>4, <1>8 DEF ChannelsPart

LEMMA SendChannels ==
  ASSUME ChannelsPart, NEW n \in Nodes, SendReply(n)
  PROVE  ChannelsPart'
<1> DEFINE s == Head(sending[n])
<1>1. sending[n] \in Seq(Searches) /\ sending[n] # << >>
  BY DEF SendReply, WorkerIdle, ChannelsPart, ChannelsOK
<1>2. /\ Tail(sending[n]) \in Seq(Searches)
      /\ ToSet(Tail(sending[n])) \subseteq ToSet(sending[n])
      /\ s \in Searches
  BY <1>1, TailOK
<1>3. /\ searchs' = searchs
      /\ sending' = [sending EXCEPT ![n] = Tail(@)]
      /\ phase[s] = "searching"
      /\ phase' \in {phase, [phase EXCEPT ![s] = "ending"]}
  <2>1. searchs' = searchs /\ sending' = [sending EXCEPT ![n] = Tail(@)]
    BY DEF SendReply
  <2>2. ReceiveReply(s, reply[n])
    BY DEF SendReply
  <2>3. phase' = [phase EXCEPT ![s] =
          IF Cardinality(full'[s]) >= MatchThreshold THEN "ending" ELSE @]
    BY <2>2 DEF ReceiveReply
  <2>4. phase[s] = "searching"
    BY <2>2 DEF ReceiveReply
  <2>5. phase' \in {phase, [phase EXCEPT ![s] = "ending"]}
    BY <1>2, <2>3 DEF ChannelsPart, ChannelsOK
  <2> QED
    BY <2>1, <2>4, <2>5
<1>4. phase' \in [Searches -> {"none", "searching", "ending", "done"}]
  BY <1>2, <1>3 DEF ChannelsPart, ChannelsOK
<1>5. \A q \in Searches : phase'[q] = phase[q] \/
        {phase[q], phase'[q]} \subseteq {"searching", "ending"}
  BY <1>2, <1>3 DEF ChannelsPart, ChannelsOK
<1>6. sending' \in [Nodes -> Seq(Searches)]
  BY <1>2, <1>3 DEF ChannelsPart, ChannelsOK
<1>7. \A m \in Nodes : ToSet(sending'[m]) \subseteq ToSet(searchs[m])
  <2>1. \A m \in Nodes : ToSet(sending'[m]) \subseteq ToSet(sending[m])
    BY <1>2, <1>3 DEF ChannelsPart, ChannelsOK
  <2> QED
    BY <2>1 DEF ChannelsPart, ChannelsRead
<1> QED
  BY <1>3, <1>4, <1>5, <1>6, <1>7, SameChannels

(* Steps that leave the threads, the list and gossipWorker's send alone.   *)
LEMMA OtherChannels ==
  ASSUME ChannelsPart, UNCHANGED <<phase, searchs, sending>>
  PROVE  ChannelsPart'
<1>1. \A n \in Nodes : ToSet(sending'[n]) \subseteq ToSet(searchs[n])
  BY DEF ChannelsPart, ChannelsRead
<1> QED
  BY <1>1, SameChannels DEF ChannelsPart, ChannelsOK

LEMMA ChannelsNext ==
  ASSUME ChannelsPart, [Next]_vars
  PROVE  ChannelsPart'
<1>1. CASE UNCHANGED vars
  BY <1>1, OtherChannels DEF vars, threadVars, workerVars
<1>2. ASSUME NEW s \in Searches, Tick(s)
      PROVE  ChannelsPart'
  BY <1>2, OtherChannels DEF Tick, workerVars
<1>3. ASSUME NEW s \in Searches, Timeout(s)
      PROVE  ChannelsPart'
  <2>1. /\ phase[s] = "searching" /\ phase' = [phase EXCEPT ![s] = "ending"]
        /\ searchs' = searchs /\ sending' = sending
    BY <1>3 DEF Timeout, workerVars
  <2>2. phase' \in [Searches -> {"none", "searching", "ending", "done"}]
    BY <2>1 DEF ChannelsPart, ChannelsOK
  <2>3. \A q \in Searches : phase'[q] = phase[q] \/
          {phase[q], phase'[q]} \subseteq {"searching", "ending"}
    BY <2>1 DEF ChannelsPart, ChannelsOK
  <2>4. /\ sending' \in [Nodes -> Seq(Searches)]
        /\ \A n \in Nodes : ToSet(sending'[n]) \subseteq ToSet(searchs[n])
    BY <2>1 DEF ChannelsPart, ChannelsOK, ChannelsRead
  <2> QED
    BY <2>1, <2>2, <2>3, <2>4, SameChannels
<1>4. ASSUME NEW n \in Nodes, HandleSearchRequest(n) \/ HandleDuplicateSearch(n)
      PROVE  ChannelsPart'
  <2>1. UNCHANGED <<phase, searchs, sending>>
    BY <1>4 DEF HandleSearchRequest, DuplicateRequest, NewRequest, HandleDuplicateSearch,
                RecordSearch, ForgetSearch, threadVars, workerVars
  <2> QED
    BY <2>1, OtherChannels
<1>5. ASSUME NEW n \in Nodes, NEW r \in BagToSet(replies), AcceptReply(n, r)
      PROVE  ChannelsPart'
  <2>1. /\ sending' = [sending EXCEPT ![n] = searchs[n]]
        /\ UNCHANGED <<phase, searchs>>
    BY <1>5 DEF AcceptReply, threadVars
  <2>2. /\ sending' \in [Nodes -> Seq(Searches)]
        /\ \A m \in Nodes : ToSet(sending'[m]) \subseteq ToSet(searchs[m])
    BY <2>1 DEF ChannelsPart, ChannelsOK, ChannelsRead
  <2> QED
    BY <2>1, <2>2, SameChannels DEF ChannelsPart, ChannelsOK
<1>6. ASSUME NEW n \in Nodes, NEW r \in BagToSet(replies),
             ForwardReply(n, r) \/ DropReply(n, r)
      PROVE  ChannelsPart'
  <2>1. UNCHANGED <<phase, searchs, sending>>
    BY <1>6 DEF ForwardReply, DropReply, threadVars, workerVars
  <2> QED
    BY <2>1, OtherChannels
<1> QED
  BY <1>1, <1>2, <1>3, <1>4, <1>5, <1>6, StartChannels, EndChannels, SendChannels
     DEF Next, ThreadStep, HandleSearchReply

-----------------------------------------------------------------------------
(* Matches. *)

ChunkNode == [chunk : Nat, node : Nodes]

(* The chunks of a match while the chunks of a reply are added.            *)
LEMMA ChunksAfter ==
  ASSUME NEW m \in Seq(ChunkNode), NEW origin \in Nodes, NEW chunkMap \in Seq(Nat)
  PROVE  \E after \in [0 .. Len(chunkMap) -> Seq(ChunkNode)] :
           /\ after[0] = m
           /\ \A i \in 1 .. Len(chunkMap) :
                after[i] = IF HasChunk(after[i - 1], chunkMap[i]) THEN after[i - 1]
                           ELSE Append(after[i - 1], [chunk |-> chunkMap[i], node |-> origin])
           /\ AddChunks(m, origin, chunkMap) = after[Len(chunkMap)]
<1> DEFINE len == Len(chunkMap)
           entry(i) == [chunk |-> chunkMap[i], node |-> origin]
           step == [p \in Nat \X Seq(ChunkNode) |->
                      IF p[1] \in 1 .. len /\ ~ HasChunk(p[2], chunkMap[p[1]])
                      THEN Append(p[2], entry(p[1])) ELSE p[2]]
           body(f) == [i \in 0 .. len |->
                         IF i = 0 THEN m
                         ELSE IF HasChunk(f[i - 1], chunkMap[i]) THEN f[i - 1]
                         ELSE Append(f[i - 1], entry(i))]
           after == CHOOSE f : f = body(f)
<1>1. len \in Nat
  OBVIOUS
<1>2. step \in [Nat \X Seq(ChunkNode) -> Seq(ChunkNode)]
  <2>1. \A i \in 1 .. len : entry(i) \in ChunkNode
    BY DEF ChunkNode
  <2> HIDE DEF entry
  <2>2. \A i \in 1 .. len, q \in Seq(ChunkNode) : Append(q, entry(i)) \in Seq(ChunkNode)
    BY <2>1
  <2> QED
    BY <2>2
<1>3. PICK f : Iterates(f, Seq(ChunkNode), m, len, step)
  <2> HIDE DEF step, len
  <2> QED
    BY <1>1, <1>2, IterationExists, Zenon
<1>4. \A i \in 0 .. len : i # 0 =>
        f[i] = IF HasChunk(f[i - 1], chunkMap[i]) THEN f[i - 1] ELSE Append(f[i - 1], entry(i))
  <2> SUFFICES ASSUME NEW i \in 0 .. len, i # 0
               PROVE  f[i] = IF HasChunk(f[i - 1], chunkMap[i]) THEN f[i - 1]
                             ELSE Append(f[i - 1], entry(i))
    OBVIOUS
  <2>1. f[i - 1] \in Seq(ChunkNode) /\ i \in 1 .. len /\ i \in Nat
    <3>1. f \in [0 .. len -> Seq(ChunkNode)]
      BY <1>3 DEF Iterates
    <3> HIDE DEF len
    <3>2. i - 1 \in 0 .. len /\ i \in 1 .. len /\ i \in Nat
      BY <1>1
    <3> QED
      BY <3>1, <3>2
  <2>2. f[i] = step[<<i, f[i - 1]>>]
    BY <1>3 DEF Iterates
  <2> HIDE DEF len, entry
  <2> QED
    BY <2>1, <2>2
<1>5. f = body(f)
  BY <1>3, <1>4 DEF Iterates
<1>6. after = body(after)
  <2> HIDE DEF body
  <2> QED
    BY <1>5
<1>7. AddChunks(m, origin, chunkMap) = after[len]
  BY DEF AddChunks
<1> HIDE DEF after
<1> DEFINE T == {i \in Nat : i \in 0 .. len => after[i] = f[i]}
<1>8. 0 \in T
  <2>1. after[0] = m
    BY <1>1, <1>6
  <2> QED
    BY <1>3, <2>1 DEF Iterates
<1>9. ASSUME NEW i \in Nat, i \in T
      PROVE  i + 1 \in T
  <2> SUFFICES ASSUME i + 1 \in 0 .. len
               PROVE  after[i + 1] = f[i + 1]
    OBVIOUS
  <2>1. after[i] = f[i]
    BY <1>1, <1>9
  <2> DEFINE next(g) == IF HasChunk(g[i], chunkMap[i + 1]) THEN g[i]
                        ELSE Append(g[i], entry(i + 1))
  <2>2. after[i + 1] = next(after)
    <3>1. i + 1 # 0 /\ (i + 1) - 1 = i
      OBVIOUS
    <3> DEFINE value(j) == IF j = 0 THEN m
                           ELSE IF HasChunk(after[j - 1], chunkMap[j]) THEN after[j - 1]
                           ELSE Append(after[j - 1], entry(j))
    <3>2. after = [j \in 0 .. len |-> value(j)]
      BY <1>6
    <3> HIDE DEF value
    <3>3. after[i + 1] = value(i + 1)
      BY <3>2
    <3>4. value(i + 1) = IF HasChunk(after[(i + 1) - 1], chunkMap[i + 1])
                         THEN after[(i + 1) - 1]
                         ELSE Append(after[(i + 1) - 1], entry(i + 1))
      BY <3>1, Zenon DEF value
    <3> QED
      BY <3>1, <3>3, <3>4, Zenon
  <2>3. f[i + 1] = next(f)
    BY <1>4
  <2> QED
    BY <2>1, <2>2, <2>3
<1> HIDE DEF T
<1>10. \A i \in Nat : i \in T
  BY <1>8, <1>9, SetInduction
<1>11. after[len] = f[len]
  BY <1>1, <1>10 DEF T
<1>12. AddChunks(m, origin, chunkMap) = f[Len(chunkMap)]
  BY <1>7, <1>11
<1>13. f \in [0 .. Len(chunkMap) -> Seq(ChunkNode)] /\ f[0] = m
  BY <1>3 DEF Iterates
<1>14. \A i \in 1 .. Len(chunkMap) :
         f[i] = IF HasChunk(f[i - 1], chunkMap[i]) THEN f[i - 1]
                ELSE Append(f[i - 1], [chunk |-> chunkMap[i], node |-> origin])
  BY <1>4
<1> QED
  BY <1>12, <1>13, <1>14

(* No chunk is in the list twice, and every node of it has the chunk.      *)
Served(name, chunks) ==
  /\ \A i, j \in DOMAIN chunks : chunks[i].chunk = chunks[j].chunk => i = j
  /\ \A i \in DOMAIN chunks : \E f \in Files[chunks[i].node] :
       f.name = name /\ chunks[i].chunk \in ToSet(f.chunkMap)

LEMMA AppendServed ==
  ASSUME NEW name, NEW chunks \in Seq(ChunkNode), Served(name, chunks),
         NEW c, NEW origin, ~ HasChunk(chunks, c),
         NEW f \in Files[origin], f.name = name, c \in ToSet(f.chunkMap)
  PROVE  Served(name, Append(chunks, [chunk |-> c, node |-> origin]))
<1> DEFINE e == [chunk |-> c, node |-> origin]
           longer == Append(chunks, e)
           n == Len(chunks)
<1>1. /\ DOMAIN longer = 1 .. n + 1 /\ DOMAIN chunks = 1 .. n /\ n \in Nat
      /\ longer[n + 1] = e
      /\ \A i \in 1 .. n : longer[i] = chunks[i]
  OBVIOUS
<1>2. e.chunk = c /\ e.node = origin
  OBVIOUS
<1> HIDE DEF longer, e, n
<1>3. \A i \in 1 .. n : chunks[i].chunk # c
  BY <1>1 DEF HasChunk
<1>4. \A i, j \in 1 .. n : chunks[i].chunk = chunks[j].chunk => i = j
  BY <1>1 DEF Served
<1>5. ASSUME NEW i \in 1 .. n + 1, NEW j \in 1 .. n + 1,
             longer[i].chunk = longer[j].chunk
      PROVE  i = j
  <2>1. (i = n + 1 \/ i \in 1 .. n) /\ (j = n + 1 \/ j \in 1 .. n)
    BY <1>1
  <2> QED
    BY <1>1, <1>2, <1>3, <1>4, <1>5, <2>1
<1>6. ASSUME NEW i \in 1 .. n + 1
      PROVE  \E g \in Files[longer[i].node] :
               g.name = name /\ longer[i].chunk \in ToSet(g.chunkMap)
  <2>1. CASE i = n + 1
    BY <1>1, <1>2, <2>1
  <2>2. CASE i # n + 1
    <3>1. i \in 1 .. n
      BY <1>1, <2>2
    <3> QED
      BY <1>1, <3>1 DEF Served
  <2> QED
    BY <2>1, <2>2
<1>7. Served(name, longer)
  BY <1>1, <1>5, <1>6 DEF Served
<1> QED
  BY <1>7 DEF longer, e

(* The loop over the chunks of a result (fileSearch.go:91-107).            *)
LEMMA AddChunksOK ==
  ASSUME NEW name, NEW m \in Seq(ChunkNode), Served(name, m),
         NEW origin \in Nodes, NEW f \in Files[origin], f.name = name,
         f.chunkMap \in Seq(Nat)
  PROVE  /\ AddChunks(m, origin, f.chunkMap) \in Seq(ChunkNode)
         /\ Served(name, AddChunks(m, origin, f.chunkMap))
<1> DEFINE len == Len(f.chunkMap)
<1>1. PICK after \in [0 .. len -> Seq(ChunkNode)] :
        /\ after[0] = m
        /\ \A i \in 1 .. len :
             after[i] = IF HasChunk(after[i - 1], f.chunkMap[i]) THEN after[i - 1]
                        ELSE Append(after[i - 1], [chunk |-> f.chunkMap[i], node |-> origin])
        /\ AddChunks(m, origin, f.chunkMap) = after[len]
  BY ChunksAfter
<1>2. /\ len \in Nat
      /\ \A i \in 1 .. len : f.chunkMap[i] \in ToSet(f.chunkMap)
  BY DEF ToSet
<1> HIDE DEF len
<1> DEFINE T == {i \in Nat : i \in 0 .. len => Served(name, after[i])}
<1>3. 0 \in T
  BY <1>1
<1>4. ASSUME NEW i \in Nat, i \in T
      PROVE  i + 1 \in T
  <2> SUFFICES ASSUME i + 1 \in 0 .. len
               PROVE  Served(name, after[i + 1])
    OBVIOUS
  <2>1. i \in 0 .. len /\ i + 1 \in 1 .. len /\ (i + 1) - 1 = i
    BY <1>2
  <2>2. after[i] \in Seq(ChunkNode) /\ Served(name, after[i])
    BY <1>1, <1>4, <2>1
  <2> DEFINE c == f.chunkMap[i + 1]
             e == [chunk |-> c, node |-> origin]
  <2>3. after[i + 1] = IF HasChunk(after[i], c) THEN after[i] ELSE Append(after[i], e)
    BY <1>1, <2>1
  <2>4. c \in ToSet(f.chunkMap)
    BY <1>2, <2>1
  <2> HIDE DEF c
  <2>5. ~ HasChunk(after[i], c) => Served(name, Append(after[i], e))
    BY <2>2, <2>4, AppendServed
  <2> QED
    BY <2>2, <2>3, <2>5
<1> HIDE DEF T
<1>5. \A i \in Nat : i \in T
  BY <1>3, <1>4, SetInduction
<1>6. Served(name, after[len])
  BY <1>2, <1>5 DEF T
<1>7. after[len] \in Seq(ChunkNode)
  BY <1>1, <1>2
<1> QED
  BY <1>1, <1>6, <1>7

LEMMA FileTypes ==
  ASSUME NEW n \in Nodes, NEW f \in Files[n]
  PROVE  /\ f \in Results /\ f.name \in Names /\ f.chunkCount \in Nat
         /\ f.chunkMap \in Seq(Nat)
<1>1. /\ f.name \in Names /\ f.chunkCount \in Nat
      /\ f.chunkMap \in Seq(1 .. f.chunkCount)
  BY SearchAssumption
<1>2. f.chunkMap \in Seq(Nat)
  BY <1>1, SeqMonotonic
<1>3. f \in Results
  BY DEF Results
<1> QED
  BY <1>1, <1>2, <1>3

(* A result of a node that has the file leaves a match one of such files.   *)
LEMMA AddResultOK ==
  ASSUME NEW name, NEW m, m = None \/ MatchOf(name, m),
         NEW origin \in Nodes, NEW f \in Files[origin], f.name = name
  PROVE  MatchOf(name, AddResult(m, origin, f))
<1> DEFINE old == IF m = None
                  THEN [meta |-> f.meta, chunkCount |-> f.chunkCount, chunks |-> << >>]
                  ELSE m
           chunks == AddChunks(old.chunks, origin, f.chunkMap)
<1>1. /\ f \in Results /\ f.name \in Names /\ f.chunkCount \in Nat
      /\ f.chunkMap \in Seq(Nat)
  BY FileTypes
<1>2. /\ old \in Match
      /\ \E g \in Results : g.name = name /\ old.meta = g.meta
                            /\ old.chunkCount = g.chunkCount
      /\ old.chunks \in Seq(ChunkNode) /\ Served(name, old.chunks)
  <2>1. CASE m = None
    <3> DEFINE new == [meta |-> f.meta, chunkCount |-> f.chunkCount, chunks |-> << >>]
    <3>1. old = new
      BY <2>1
    <3>2. << >> \in Seq(ChunkNode) /\ DOMAIN << >> = {}
      OBVIOUS
    <3>3. new \in Match
      BY <1>1, <3>2 DEF Match, ChunkNode
    <3>4. /\ new.chunks = << >> /\ new.meta = f.meta /\ new.chunkCount = f.chunkCount
      OBVIOUS
    <3> HIDE DEF new, old
    <3>5. Served(name, << >>)
      BY <3>2 DEF Served
    <3> QED
      BY <1>1, <3>1, <3>2, <3>3, <3>4, <3>5
  <2>2. CASE m # None
    BY <2>2 DEF MatchOf, Match, ChunkNode, Served
  <2> QED
    BY <2>1, <2>2
<1>3. AddResult(m, origin, f) = [old EXCEPT !.chunks = chunks]
  BY DEF AddResult
<1>4. chunks \in Seq(ChunkNode) /\ Served(name, chunks)
  <2> HIDE DEF old
  <2> QED
    BY <1>1, <1>2, AddChunksOK
<1> DEFINE new == [old EXCEPT !.chunks = chunks]
<1> HIDE DEF old, chunks
<1>5. /\ new \in Match /\ new.meta = old.meta /\ new.chunkCount = old.chunkCount
      /\ new.chunks = chunks
  BY <1>2, <1>4 DEF Match, ChunkNode
<1> HIDE DEF new
<1>6. MatchOf(name, new)
  BY <1>2, <1>4, <1>5 DEF MatchOf, Served
<1> QED
  BY <1>3, <1>6 DEF new

(* The matches of a thread after it has looked at a reply.                 *)
LEMMA NewMatchOK ==
  ASSUME MatchesOK, NEW s \in Searches, NEW r, Answers(r)
  PROVE  /\ NewMatch(s, r) \in [Names -> Match \cup {None}]
         /\ \A name \in Names :
              NewMatch(s, r)[name] = None \/ MatchOf(name, NewMatch(s, r)[name])
         /\ FullOf(s, r) \subseteq Names
         /\ \A name \in FullOf(s, r) :
              MatchOf(name, NewMatch(s, r)[name]) /\ IsFull(NewMatch(s, r)[name])
<1> DEFINE new == NewMatch(s, r)
<1>1. /\ r.origin \in Nodes
      /\ ResultsFor(s, r) \subseteq Files[r.origin]
  BY DEF Answers, ResultsFor
<1>2. ASSUME NEW name \in Names, NEW g \in ResultsFor(s, r), g.name = name
      PROVE  MatchOf(name, new[name])
  <2> DEFINE f == CHOOSE h \in ResultsFor(s, r) : h.name = name
  <2>1. f \in ResultsFor(s, r) /\ f.name = name
    BY <1>2
  <2>2. new[name] = AddResult(match[s][name], r.origin, f)
    BY <1>2 DEF NewMatch
  <2> HIDE DEF f
  <2>3. match[s][name] = None \/ MatchOf(name, match[s][name])
    BY DEF MatchesOK
  <2> QED
    BY <1>1, <2>1, <2>2, <2>3, AddResultOK
<1>3. ASSUME NEW name \in Names, ~ \E g \in ResultsFor(s, r) : g.name = name
      PROVE  new[name] = match[s][name]
  BY <1>3 DEF NewMatch
<1>4. ASSUME NEW name \in Names
      PROVE  new[name] = None \/ MatchOf(name, new[name])
  BY <1>2, <1>3 DEF MatchesOK
<1>5. \A name \in Names : new[name] \in Match \cup {None}
  BY <1>4 DEF MatchOf
<1>6. new \in [Names -> Match \cup {None}]
  BY <1>5 DEF NewMatch
<1>7. ASSUME NEW name \in FullOf(s, r)
      PROVE  name \in Names /\ MatchOf(name, new[name]) /\ IsFull(new[name])
  <2>1. PICK g \in ResultsFor(s, r) : g.name = name
    BY DEF FullOf
  <2>2. name \in Names
    BY <1>1, <2>1, FileTypes
  <2>3. IsFull(new[name])
    BY DEF FullOf
  <2> QED
    BY <1>2, <2>1, <2>2, <2>3
<1> QED
  BY <1>4, <1>6, <1>7

LEMMA SendMatches ==
  ASSUME ChannelsPart, MatchesOK, TypeOK, NEW n \in Nodes, SendReply(n)
  PROVE  MatchesOK' /\ full' \in [Searches -> SUBSET Names]
<1> DEFINE s == Head(sending[n])
           r == reply[n]
           new == NewMatch(s, r)
<1>1. sending[n] \in Seq(Searches) /\ sending[n] # << >>
  BY DEF SendReply, WorkerIdle, ChannelsPart, ChannelsOK
<1>2. s \in Searches /\ At[s] \in Nodes
  BY <1>1, SearchAssumption
<1>3. Answers(r)
  BY <1>1 DEF MatchesOK, WorkerIdle
<1>4. ReceiveReply(s, r) /\ UNCHANGED replies
  BY DEF SendReply
<1>5. /\ match' = [match EXCEPT ![s] = new]
      /\ full' = [full EXCEPT ![s] = @ \cup FullOf(s, r)]
      /\ SearchResult' = [SearchResult EXCEPT ![At[s]] =
           [name \in Names |-> IF name \in FullOf(s, r) THEN match'[s][name] ELSE @[name]]]
  BY <1>4 DEF ReceiveReply
<1>6. /\ new \in [Names -> Match \cup {None}]
      /\ \A name \in Names : new[name] = None \/ MatchOf(name, new[name])
      /\ FullOf(s, r) \subseteq Names
      /\ \A name \in FullOf(s, r) : MatchOf(name, new[name]) /\ IsFull(new[name])
  BY <1>2, <1>3, NewMatchOK
<1>7. /\ match \in [Searches -> [Names -> Match \cup {None}]]
      /\ SearchResult \in [Nodes -> [Names -> Match \cup {None}]]
  BY DEF MatchesOK
<1> HIDE DEF new, s
<1>8. /\ match' \in [Searches -> [Names -> Match \cup {None}]]
      /\ match'[s] = new
      /\ \A q \in Searches : q # s => match'[q] = match[q]
  BY <1>2, <1>5, <1>6, <1>7
<1>9. \A q \in Searches, name \in Names :
        match'[q][name] = None \/ MatchOf(name, match'[q][name])
  BY <1>6, <1>8 DEF MatchesOK
<1>10. SearchResult' \in [Nodes -> [Names -> Match \cup {None}]]
  BY <1>2, <1>5, <1>6, <1>7, <1>8
<1>11. ASSUME NEW m \in Nodes, NEW name \in Names
       PROVE  \/ SearchResult'[m][name] = None
              \/ MatchOf(name, SearchResult'[m][name]) /\ IsFull(SearchResult'[m][name])
  <2>1. CASE m = At[s] /\ name \in FullOf(s, r)
    <3>1. SearchResult'[m][name] = new[name]
      BY <1>2, <1>5, <1>7, <1>8, <2>1
    <3> QED
      BY <1>6, <2>1, <3>1
  <2>2. CASE ~ (m = At[s] /\ name \in FullOf(s, r))
    <3>1. SearchResult'[m][name] = SearchResult[m][name]
      BY <1>2, <1>5, <1>7, <1>8, <2>2
    <3> QED
      BY <3>1 DEF MatchesOK
  <2> QED
    BY <2>1, <2>2
<1>12. ASSUME NEW m \in Nodes, sending'[m] # << >>
       PROVE  Answers(reply'[m])
  <2>1. /\ sending' = [sending EXCEPT ![n] = Tail(@)]
        /\ reply' = [reply EXCEPT ![n] = IF Len(sending[n]) = 1 THEN None ELSE @]
    BY DEF SendReply
  <2>2. sending \in [Nodes -> Seq(Searches)]
    BY DEF ChannelsPart, ChannelsOK
  <2>3. CASE m # n
    <3>1. sending'[m] = sending[m]
      BY <2>1, <2>2, <2>3
    <3> QED
      BY <1>12, <2>3, <3>1, <2>1 DEF MatchesOK, WorkerIdle
  <2>4. CASE m = n
    <3>1. Len(sending[n]) # 1
      BY <1>1, <1>12, <2>1, <2>2, <2>4
    <3>2. reply \in [Nodes -> Replies \cup {None}]
      BY DEF TypeOK
    <3>3. reply'[m] = reply[m]
      BY <2>1, <2>4, <3>1, <3>2
    <3> QED
      BY <1>3, <2>4, <3>3
  <2> QED
    BY <2>3, <2>4
<1>13. MatchesOK'
  BY <1>4, <1>8, <1>9, <1>10, <1>11, <1>12 DEF MatchesOK, WorkerIdle, Answers
<1>14. full' \in [Searches -> SUBSET Names]
  BY <1>2, <1>5, <1>6 DEF TypeOK
<1> QED
  BY <1>13, <1>14

(* Steps that leave the matches alone and bring no reply to the node.       *)
LEMMA SameMatches ==
  ASSUME MatchesOK, UNCHANGED <<match, SearchResult, workerVars>>,
         \A r \in BagToSet(replies') : r \in BagToSet(replies) \/ Answers(r)
  PROVE  MatchesOK'
BY DEF MatchesOK, WorkerIdle, workerVars, Answers

LEMMA MatchesNext ==
  ASSUME ChannelsPart, MatchesOK, TypeOK, [Next]_vars
  PROVE  MatchesOK'
<1>1. CASE UNCHANGED vars
  <2>1. UNCHANGED <<match, SearchResult, workerVars, replies>>
    BY <1>1 DEF vars, threadVars
  <2> QED
    BY <2>1, SameMatches
<1>2. ASSUME NEW s \in Searches, ThreadStep(s)
      PROVE  MatchesOK'
  <2>1. UNCHANGED <<match, SearchResult, workerVars, replies>>
    BY <1>2 DEF ThreadStep, StartSearch, Tick, Timeout, EndSearch
  <2> QED
    BY <2>1, SameMatches
<1>3. ASSUME NEW n \in Nodes, HandleDuplicateSearch(n)
      PROVE  MatchesOK'
  <2>1. UNCHANGED <<match, SearchResult, workerVars, replies>>
    BY <1>3 DEF HandleDuplicateSearch, RecordSearch, ForgetSearch, threadVars
  <2> QED
    BY <2>1, SameMatches
<1>4. ASSUME NEW n \in Nodes, NEW r \in BagToSet(requests), DuplicateRequest(n, r)
      PROVE  MatchesOK'
  <2>1. UNCHANGED <<match, SearchResult, workerVars, replies>>
    BY <1>4 DEF DuplicateRequest, threadVars
  <2> QED
    BY <2>1, SameMatches
<1>5. ASSUME NEW n \in Nodes, NEW r \in BagToSet(requests), NewRequest(n, r)
      PROVE  MatchesOK'
  <2> DEFINE answer == [origin |-> n, dest |-> r.origin, hops |-> Hops - 1,
                        results |-> Found(n, r.keywords), to |-> r.from]
  <2>1. /\ UNCHANGED <<match, SearchResult, workerVars>>
        /\ replies' = replies \/ replies' = BagAdd(replies, answer)
    BY <1>5 DEF NewRequest, threadVars
  <2>2. Answers(answer)
    BY DEF Answers, Found
  <2> HIDE DEF answer
  <2>3. BagToSet(BagAdd(replies, answer)) = BagToSet(replies) \cup {answer}
    BY BagOperations
  <2> QED
    BY <2>1, <2>2, <2>3, SameMatches
<1>6. ASSUME NEW n \in Nodes, NEW r \in BagToSet(replies), AcceptReply(n, r)
      PROVE  MatchesOK'
  <2>1. /\ UNCHANGED <<match, SearchResult>>
        /\ sending' = [sending EXCEPT ![n] = searchs[n]]
        /\ reply' = [reply EXCEPT ![n] = IF searchs[n] = << >> THEN None ELSE r]
        /\ replies' = BagRemove(replies, r)
    BY <1>6 DEF AcceptReply, threadVars
  <2>2. BagToSet(replies') \subseteq BagToSet(replies)
    BY <2>1, BagOperations
  <2>3. sending \in [Nodes -> Seq(Searches)] /\ reply \in [Nodes -> Replies \cup {None}]
    BY DEF TypeOK
  <2>4. Answers(r)
    BY DEF MatchesOK
  <2>5. ASSUME NEW m \in Nodes, sending'[m] # << >>
        PROVE  Answers(reply'[m])
    <3>1. CASE m = n
      BY <2>1, <2>3, <2>4, <2>5, <3>1
    <3>2. CASE m # n
      <4>1. sending'[m] = sending[m] /\ reply'[m] = reply[m]
        BY <2>1, <2>3, <3>2
      <4> QED
        BY <2>5, <4>1 DEF MatchesOK, WorkerIdle
    <3> QED
      BY <3>1, <3>2
  <2>6. \A q \in BagToSet(replies') : Answers(q)
    BY <2>2 DEF MatchesOK
  <2> QED
    BY <2>1, <2>5, <2>6 DEF MatchesOK, WorkerIdle, Answers
<1>7. ASSUME NEW n \in Nodes, NEW r \in BagToSet(replies), ForwardReply(n, r)
      PROVE  MatchesOK'
  <2> DEFINE next == [origin |-> r.origin, dest |-> r.dest, hops |-> r.hops - 1,
                      results |-> r.results, to |-> routingTable[n][r.dest]]
  <2>1. /\ UNCHANGED <<match, SearchResult, workerVars>>
        /\ replies' = BagAdd(BagRemove(replies, r), next)
    BY <1>7 DEF ForwardReply, threadVars
  <2>2. Answers(next)
    BY DEF MatchesOK, Answers
  <2> HIDE DEF next
  <2>3. BagToSet(replies') = BagToSet(BagRemove(replies, r)) \cup {next}
    BY <2>1, BagOperations
  <2>4. BagToSet(BagRemove(replies, r)) \subseteq BagToSet(replies)
    BY BagOperations
  <2> QED
    BY <2>1, <2>2, <2>3, <2>4, SameMatches
<1>8. ASSUME NEW n \in Nodes, NEW r \in BagToSet(replies), DropReply(n, r)
      PROVE  MatchesOK'
  <2>1. UNCHANGED <<match, SearchResult, workerVars>> /\ replies' = BagRemove(replies, r)
    BY <1>8 DEF DropReply, threadVars
  <2>2. BagToSet(replies') \subseteq BagToSet(replies)
    BY <2>1, BagOperations
  <2> QED
    BY <2>1, <2>2, SameMatches
<1> QED
  BY <1>1, <1>2, <1>3, <1>4, <1>5, <1>6, <1>7, <1>8, SendMatches
     DEF Next, HandleSearchRequest, HandleSearchReply

-----------------------------------------------------------------------------
(* Types: what is not part of the above. *)

PacketTypes ==
  /\ budget \in [Searches -> Nat \ {0}]
  /\ entering = [n \in Nodes |-> entering[n]]
  /\ recentSearchs = [n \in Nodes |-> recentSearchs[n]]
  /\ \A n \in Nodes : /\ BagToSet(entering[n]) \subseteq SearchRecord
                      /\ BagToSet(recentSearchs[n]) \subseteq SearchRecord
  /\ BagToSet(requests) \subseteq Requests
  /\ BagToSet(replies) \subseteq Replies

(* Steps of a thread: at most requests of its own.                         *)
LEMMA OwnTypes ==
  ASSUME PacketTypes, NEW s \in Searches, ThreadStep(s)
  PROVE  PacketTypes'
<1> USE SearchAssumption
<1>1. At[s] \in Nodes /\ For[s] \in Keywords
  OBVIOUS
<1>2. UNCHANGED <<recentVars, replies>>
  BY DEF ThreadStep, StartSearch, Tick, Timeout, EndSearch
<1>3. budget' \in [Searches -> Nat \ {0}]
  <2>1. CASE Tick(s)
    <3>1. 2 * budget[s] \in Nat \ {0}
      BY DEF PacketTypes
    <3>2. budget' = [budget EXCEPT ![s] = 2 * budget[s]]
      BY <2>1 DEF Tick
    <3> QED
      BY <3>1, <3>2 DEF PacketTypes
  <2>2. CASE ~ Tick(s)
    BY <2>2 DEF ThreadStep, StartSearch, Timeout, EndSearch, PacketTypes
  <2> QED
    BY <2>1, <2>2
<1>4. BagToSet(requests') \subseteq Requests
  <2>1. CASE StartSearch(s) /\ Budget[s] # NoBudget
    <3> DEFINE own == DivideBudget(At[s], Budget[s] - 1, At[s], None, For[s])
    <3>1. requests' = requests (+) SetToBag(own)
      BY <2>1 DEF StartSearch
    <3>2. Budget[s] - 1 \in Nat
      BY <2>1
    <3>3. own \subseteq Requests
      BY <1>1, <3>2, DividedType
    <3> HIDE DEF own
    <3>4. BagToSet(requests (+) SetToBag(own)) = BagToSet(requests) \cup own
      BY BagOperations
    <3> QED
      BY <3>1, <3>3, <3>4 DEF PacketTypes
  <2>2. CASE Tick(s)
    <3> DEFINE own == DivideBudget(At[s], budget'[s] - 1, At[s], None, For[s])
    <3>1. requests' = requests (+) SetToBag(own)
      BY <2>2 DEF Tick
    <3>2. budget'[s] - 1 \in Nat
      BY <1>3
    <3>3. own \subseteq Requests
      BY <1>1, <3>2, DividedType
    <3> HIDE DEF own
    <3>4. BagToSet(requests (+) SetToBag(own)) = BagToSet(requests) \cup own
      BY BagOperations
    <3> QED
      BY <3>1, <3>3, <3>4 DEF PacketTypes
  <2>3. CASE ~ Tick(s) /\ ~ (StartSearch(s) /\ Budget[s] # NoBudget)
    <3>1. requests' = requests
      BY <2>3 DEF ThreadStep, StartSearch, Timeout, EndSearch
    <3> QED
      BY <3>1 DEF PacketTypes
  <2> QED
    BY <2>1, <2>2, <2>3
<1> QED
  BY <1>2, <1>3, <1>4 DEF PacketTypes, recentVars

LEMMA NewRequestTypes ==
  ASSUME PacketTypes, NEW n \in Nodes, NEW r \in BagToSet(requests), NewRequest(n, r)
  PROVE  PacketTypes'
<1> DEFINE answer == [origin |-> n, dest |-> r.origin, hops |-> Hops - 1,
                      results |-> Found(n, r.keywords), to |-> r.from]
           passed == DivideBudget(n, Rest(r), r.origin, r.from, r.keywords)
           search == Search(r)
<1>1. r \in Requests
  BY DEF PacketTypes
<1>2. /\ r.origin \in Nodes /\ r.from \in Nodes /\ r.keywords \in Keywords
      /\ Rest(r) \in Nat
  BY <1>1 DEF Requests, Rest
<1>3. passed \subseteq Requests
  BY <1>2, DividedType
<1>4. search \in SearchRecord
  BY <1>2 DEF Search, SearchRecord
<1>5. answer \in Replies
  <2>1. Found(n, r.keywords) \in SUBSET Results
    BY DEF Found, Results
  <2>2. Hops - 1 \in 0 .. Hops - 1
    BY SearchAssumption
  <2> QED
    BY <1>2, <2>1, <2>2 DEF Replies
<1>6. /\ entering' = [entering EXCEPT ![n] = BagAdd(@, search)]
      /\ replies' = replies \/ replies' = BagAdd(replies, answer)
      /\ requests' = BagRemove(requests, r) (+) SetToBag(passed)
      /\ UNCHANGED <<budget, recentSearchs>>
  BY DEF NewRequest, threadVars
<1> HIDE DEF passed, search, answer
<1>7. BagToSet(requests') \subseteq Requests
  <2>1. BagToSet(requests') = BagToSet(BagRemove(requests, r)) \cup passed
    BY <1>6, BagOperations
  <2>2. BagToSet(BagRemove(requests, r)) \subseteq BagToSet(requests)
    BY BagOperations
  <2> QED
    BY <1>3, <2>1, <2>2 DEF PacketTypes
<1>8. BagToSet(replies') \subseteq Replies
  <2>1. BagToSet(BagAdd(replies, answer)) = BagToSet(replies) \cup {answer}
    BY BagOperations
  <2> QED
    BY <1>5, <1>6, <2>1 DEF PacketTypes
<1>9. ASSUME NEW m \in Nodes
      PROVE  BagToSet(entering'[m]) \subseteq SearchRecord
  <2>1. BagToSet(BagAdd(entering[n], search)) = BagToSet(entering[n]) \cup {search}
    BY BagOperations
  <2>2. \/ entering'[m] = entering[m]
        \/ m = n /\ entering'[m] = BagAdd(entering[n], search)
    BY <1>6 DEF PacketTypes
  <2> QED
    BY <1>4, <2>1, <2>2 DEF PacketTypes
<1>10. entering' = [m \in Nodes |-> entering'[m]]
  BY <1>6 DEF PacketTypes
<1> QED
  BY <1>6, <1>7, <1>8, <1>9, <1>10 DEF PacketTypes

LEMMA HandleDuplicateTypes ==
  ASSUME PacketTypes, NEW n \in Nodes, HandleDuplicateSearch(n)
  PROVE  PacketTypes'
<1>1. UNCHANGED <<budget, requests, replies>>
  BY DEF HandleDuplicateSearch, RecordSearch, ForgetSearch, threadVars
<1>2. PICK search \in SearchRecord :
        \/ /\ entering' = [entering EXCEPT ![n] = BagRemove(@, search)]
           /\ recentSearchs' = [recentSearchs EXCEPT ![n] = BagAdd(@, search)]
        \/ /\ recentSearchs' = [recentSearchs EXCEPT ![n] = BagRemove(@, search)]
           /\ entering' = entering
  BY DEF HandleDuplicateSearch, RecordSearch, ForgetSearch, PacketTypes
<1>3. /\ BagToSet(BagRemove(entering[n], search)) \subseteq BagToSet(entering[n])
      /\ BagToSet(BagRemove(recentSearchs[n], search)) \subseteq BagToSet(recentSearchs[n])
      /\ BagToSet(BagAdd(recentSearchs[n], search)) = BagToSet(recentSearchs[n]) \cup {search}
  BY BagOperations
<1>4. ASSUME NEW m \in Nodes
      PROVE  /\ BagToSet(entering'[m]) \subseteq SearchRecord
             /\ BagToSet(recentSearchs'[m]) \subseteq SearchRecord
  <2>1. CASE m = n
    <3>1. \/ entering'[m] = BagRemove(entering[n], search)
          \/ entering'[m] = entering[n]
      BY <1>2, <2>1 DEF PacketTypes
    <3>2. \/ recentSearchs'[m] = BagAdd(recentSearchs[n], search)
          \/ recentSearchs'[m] = BagRemove(recentSearchs[n], search)
      BY <1>2, <2>1 DEF PacketTypes
    <3>3. BagToSet(entering[n]) \subseteq SearchRecord
          /\ BagToSet(recentSearchs[n]) \subseteq SearchRecord
      BY DEF PacketTypes
    <3> QED
      BY <1>3, <3>1, <3>2, <3>3
  <2>2. CASE m # n
    <3>1. entering'[m] = entering[m] /\ recentSearchs'[m] = recentSearchs[m]
      BY <1>2, <2>2 DEF PacketTypes
    <3> QED
      BY <3>1 DEF PacketTypes
  <2> QED
    BY <2>1, <2>2
<1>5. /\ entering' = [m \in Nodes |-> entering'[m]]
      /\ recentSearchs' = [m \in Nodes |-> recentSearchs'[m]]
  BY <1>2 DEF PacketTypes
<1> QED
  BY <1>1, <1>4, <1>5 DEF PacketTypes

LEMMA ForwardTypes ==
  ASSUME PacketTypes, RoutesOK, NEW n \in Nodes, NEW r \in BagToSet(replies),
         ForwardReply(n, r)
  PROVE  PacketTypes'
<1> DEFINE next == [origin |-> r.origin, dest |-> r.dest, hops |-> r.hops - 1,
                    results |-> r.results, to |-> routingTable[n][r.dest]]
<1>1. r \in Replies
  BY DEF PacketTypes
<1>2. r.hops > 0 /\ routingTable[n][r.dest] \in Nodes
  BY <1>1 DEF ForwardReply, MayForward, RoutesOK, Replies
<1>3. next \in Replies
  <2>1. r.hops - 1 \in 0 .. Hops - 1
    BY <1>1, <1>2, SearchAssumption DEF Replies
  <2> QED
    BY <1>1, <1>2, <2>1 DEF Replies
<1>4. /\ UNCHANGED <<budget, recentVars, requests>>
      /\ replies' = BagAdd(BagRemove(replies, r), next)
  BY DEF ForwardReply, threadVars
<1> HIDE DEF next
<1>5. BagToSet(replies') = BagToSet(BagRemove(replies, r)) \cup {next}
  BY <1>4, BagOperations
<1>6. BagToSet(BagRemove(replies, r)) \subseteq BagToSet(replies)
  BY BagOperations
<1> QED
  BY <1>3, <1>4, <1>5, <1>6 DEF PacketTypes, recentVars

(* Steps that only take packets out of the network. *)
LEMMA FewerTypes ==
  ASSUME PacketTypes, UNCHANGED <<budget, recentVars>>,
         BagToSet(requests') \subseteq BagToSet(requests),
         BagToSet(replies') \subseteq BagToSet(replies)
  PROVE  PacketTypes'
BY DEF PacketTypes, recentVars

LEMMA TypesNext ==
  ASSUME PacketTypes, RoutesOK, [Next]_vars
  PROVE  PacketTypes'
<1>1. CASE UNCHANGED vars
  <2>1. UNCHANGED <<budget, recentVars, requests, replies>>
    BY <1>1 DEF vars, threadVars
  <2> QED
    BY <2>1, FewerTypes
<1>2. ASSUME NEW n \in Nodes, NEW r \in BagToSet(requests), DuplicateRequest(n, r)
      PROVE  PacketTypes'
  <2>1. UNCHANGED <<budget, recentVars, replies>> /\ requests' = BagRemove(requests, r)
    BY <1>2 DEF DuplicateRequest, threadVars
  <2>2. BagToSet(requests') \subseteq BagToSet(requests)
    BY <2>1, BagOperations
  <2> QED
    BY <2>1, <2>2, FewerTypes
<1>3. ASSUME NEW n \in Nodes, NEW r \in BagToSet(replies),
             AcceptReply(n, r) \/ DropReply(n, r)
      PROVE  PacketTypes'
  <2>1. UNCHANGED <<budget, recentVars, requests>> /\ replies' = BagRemove(replies, r)
    BY <1>3 DEF AcceptReply, DropReply, threadVars
  <2>2. BagToSet(replies') \subseteq BagToSet(replies)
    BY <2>1, BagOperations
  <2> QED
    BY <2>1, <2>2, FewerTypes
<1>4. ASSUME NEW n \in Nodes, SendReply(n)
      PROVE  PacketTypes'
  <2>1. UNCHANGED <<budget, recentVars, requests, replies>>
    BY <1>4 DEF SendReply, ReceiveReply
  <2> QED
    BY <2>1, FewerTypes
<1> QED
  BY <1>1, <1>2, <1>3, <1>4, OwnTypes, NewRequestTypes, HandleDuplicateTypes, ForwardTypes
     DEF Next, HandleSearchRequest, HandleSearchReply

(* The reply gossipWorker is sending and the lists of full matches.        *)
LEMMA WorkerTypes ==
  ASSUME IInv, [Next]_vars
  PROVE  reply' \in [Nodes -> Replies \cup {None}] /\ full' \in [Searches -> SUBSET Names]
<1>1. reply \in [Nodes -> Replies \cup {None}] /\ full \in [Searches -> SUBSET Names]
  BY DEF IInv, TypeOK
<1>2. ASSUME NEW n \in Nodes, SendReply(n)
      PROVE  reply' \in [Nodes -> Replies \cup {None}] /\ full' \in [Searches -> SUBSET Names]
  <2>1. full' \in [Searches -> SUBSET Names]
    BY <1>2, SendMatches DEF IInv, ChannelsPart
  <2>2. reply' = [reply EXCEPT ![n] = IF Len(sending[n]) = 1 THEN None ELSE @]
    BY <1>2 DEF SendReply
  <2> QED
    BY <1>1, <2>1, <2>2
<1>3. ASSUME NEW n \in Nodes, NEW r \in BagToSet(replies), AcceptReply(n, r)
      PROVE  reply' \in [Nodes -> Replies \cup {None}] /\ full' = full
  <2>1. r \in Replies
    BY DEF IInv, TypeOK
  <2>2. /\ reply' = [reply EXCEPT ![n] = IF searchs[n] = << >> THEN None ELSE r]
        /\ full' = full
    BY <1>3 DEF AcceptReply, threadVars
  <2> QED
    BY <1>1, <2>1, <2>2
<1>4. ASSUME NEW n \in Nodes, \/ HandleSearchRequest(n) \/ HandleDuplicateSearch(n)
                              \/ \E r \in BagToSet(replies) : ForwardReply(n, r) \/ DropReply(n, r)
      PROVE  reply' = reply /\ full' = full
  BY <1>4 DEF HandleSearchRequest, DuplicateRequest, NewRequest, HandleDuplicateSearch,
              RecordSearch, ForgetSearch, ForwardReply, DropReply, threadVars, workerVars
<1>5. ASSUME NEW s \in Searches, ThreadStep(s)
      PROVE  reply' = reply /\ full' = full
  BY <1>5 DEF ThreadStep, StartSearch, Tick, Timeout, EndSearch, workerVars
<1>6. CASE UNCHANGED vars
  BY <1>1, <1>6 DEF vars, threadVars, workerVars
<1> QED
  BY <1>1, <1>2, <1>3, <1>4, <1>5, <1>6 DEF Next, HandleSearchReply

-----------------------------------------------------------------------------
(* Budgets.  A sum of natural numbers counts units: w[x] of them for every *)
(* x.                                                                      *)

Units(w) == UNION {{x} \X (1 .. w[x]) : x \in DOMAIN w}

(* The units after the first a up to the b next ones of x. *)
Column(x, a, b) == {x} \X (a + 1 .. a + b)

LEMMA UnitIn ==
  ASSUME NEW w
  PROVE  \A p : p \in Units(w) <=> \E x \in DOMAIN w : \E i \in 1 .. w[x] : p = <<x, i>>
<1> DEFINE column(x) == {x} \X (1 .. w[x])
<1>1. Units(w) = UNION {column(x) : x \in DOMAIN w}
  BY DEF Units
<1>2. \A x, p : p \in column(x) <=> \E i \in 1 .. w[x] : p = <<x, i>>
  OBVIOUS
<1> HIDE DEF column
<1>3. \A p : p \in Units(w) <=> \E x \in DOMAIN w : p \in column(x)
  BY <1>1
<1> QED
  BY <1>2, <1>3

LEMMA ColumnIn ==
  ASSUME NEW x, NEW a, NEW b
  PROVE  \A p : p \in Column(x, a, b) <=> \E i \in a + 1 .. a + b : p = <<x, i>>
BY DEF Column

LEMMA UnitsFinite ==
  ASSUME NEW D, IsFiniteSet(D), NEW w \in [D -> Nat]
  PROVE  IsFiniteSet(Units(w)) /\ Cardinality(Units(w)) \in Nat
<1>1. CASE D = {}
  <2>1. Units(w) = {}
    BY <1>1, UnitIn
  <2> QED
    BY <2>1, FS_EmptySet
<1>2. CASE D # {}
  <2>1. PICK m \in {w[x] : x \in D} : \A k \in {w[x] : x \in D} : k <= m
    BY <1>2, LargestValue
  <2>2. m \in Nat
    OBVIOUS
  <2>3. IsFiniteSet(1 .. m)
    <3>1. 1 \in Int /\ m \in Int
      BY <2>2
    <3> QED
      BY <3>1, FS_Interval
  <2>4. IsFiniteSet(D \X (1 .. m))
    BY <2>3, FS_Product
  <2>5. Units(w) \in SUBSET (D \X (1 .. m))
    <3>1. ASSUME NEW x \in D, NEW i \in 1 .. w[x]
          PROVE  <<x, i>> \in D \X (1 .. m)
      BY <2>1, <2>2
    <3>2. \A p \in Units(w) : p \in D \X (1 .. m)
      BY <3>1, UnitIn
    <3> QED
      BY <3>2
  <2> QED
    BY <2>4, <2>5, FS_Subset, FS_CardinalityType
<1> QED
  BY <1>1, <1>2

(* The units of two sets that have none in common. *)
LEMMA DisjointCount ==
  ASSUME NEW A, NEW B, IsFiniteSet(A), IsFiniteSet(B), A \cap B = {}
  PROVE  Cardinality(A \cup B) = Cardinality(A) + Cardinality(B)
<1>1. Cardinality(A) \in Nat /\ Cardinality(B) \in Nat
  BY FS_CardinalityType
<1>2. Cardinality(A \cap B) = 0
  BY FS_EmptySet
<1>3. Cardinality(A \cup B) = Cardinality(A) + Cardinality(B) - Cardinality(A \cap B)
  BY FS_Union
<1> QED
  BY <1>1, <1>2, <1>3

(* Those of one element, from one number to another. *)
LEMMA ColumnCount ==
  ASSUME NEW x, NEW a \in Nat, NEW b \in Nat
  PROVE  IsFiniteSet(Column(x, a, b)) /\ Cardinality(Column(x, a, b)) = b
<1>1. IsFiniteSet(a + 1 .. a + b) /\ Cardinality(a + 1 .. a + b) = b
  <2>1. a + 1 \in Int /\ a + b \in Int
    OBVIOUS
  <2>2. /\ IsFiniteSet(a + 1 .. a + b)
        /\ Cardinality(a + 1 .. a + b) = IF a + 1 > a + b THEN 0 ELSE (a + b) - (a + 1) + 1
    BY <2>1, FS_Interval
  <2> QED
    BY <2>2
<1>2. IsFiniteSet({x}) /\ Cardinality({x}) = 1
  BY FS_Singleton
<1> DEFINE column == a + 1 .. a + b
<1> HIDE DEF column
<1>3. IsFiniteSet({x} \X column) /\ Cardinality({x} \X column) = 1 * b
  BY <1>1, <1>2, FS_Product DEF column
<1> QED
  BY <1>3 DEF column, Column

(* One element taken out. *)
LEMMA UnitsTake ==
  ASSUME NEW D, IsFiniteSet(D), NEW w \in [D -> Nat], NEW x \in D
  PROVE  Cardinality(Units(w)) = w[x] + Cardinality(Units([y \in D \ {x} |-> w[y]]))
<1> DEFINE rest == [y \in D \ {x} |-> w[y]]
           column == Column(x, 0, w[x])
<1>1. IsFiniteSet(D \ {x}) /\ rest \in [D \ {x} -> Nat]
  BY FS_RemoveElement
<1>2. IsFiniteSet(Units(rest)) /\ Cardinality(Units(rest)) \in Nat
  <2> HIDE DEF rest
  <2> QED
    BY <1>1, UnitsFinite
<1>3. IsFiniteSet(column) /\ Cardinality(column) = w[x]
  <2>1. w[x] \in Nat /\ 0 \in Nat
    OBVIOUS
  <2> QED
    BY <2>1, ColumnCount
<1>4. Units(w) = column \cup Units(rest)
  <2>1. ASSUME NEW p
        PROVE  p \in Units(w) <=> p \in column \cup Units(rest)
    <3>1. p \in Units(w) <=> \E y \in D : \E i \in 1 .. w[y] : p = <<y, i>>
      BY UnitIn
    <3>2. p \in Units(rest) <=> \E y \in D \ {x} : \E i \in 1 .. w[y] : p = <<y, i>>
      BY UnitIn
    <3>3. p \in column <=> \E i \in 1 .. w[x] : p = <<x, i>>
      BY ColumnIn
    <3> QED
      BY <3>1, <3>2, <3>3
  <2> QED
    BY <2>1
<1>5. column \cap Units(rest) = {}
  <2>1. \A p \in Units(rest) : \E y \in D \ {x} : \E i \in 1 .. w[y] : p = <<y, i>>
    BY UnitIn
  <2>2. \A p \in column : \E i \in 1 .. w[x] : p = <<x, i>>
    BY ColumnIn
  <2> QED
    BY <2>1, <2>2
<1> HIDE DEF rest, column
<1>6. Cardinality(Units(w)) = Cardinality(column) + Cardinality(Units(rest))
  BY <1>2, <1>3, <1>4, <1>5, DisjointCount
<1> QED
  BY <1>3, <1>6 DEF rest

(* Fewer units: b less of one element, which may be gone.                  *)
LEMMA UnitsLess ==
  ASSUME NEW D, IsFiniteSet(D), NEW w \in [D -> Nat],
         NEW E \in SUBSET D, NEW v \in [E -> Nat],
         NEW x \in D, NEW b \in Nat, b <= w[x],
         \A y \in E : y # x => v[y] = w[y],
         x \in E => v[x] + b <= w[x]
  PROVE  Cardinality(Units(v)) + b <= Cardinality(Units(w))
<1> DEFINE a == w[x] - b
           column == Column(x, a, b)
<1>1. a \in Nat /\ a + b = w[x]
  OBVIOUS
<1>2. IsFiniteSet(column) /\ Cardinality(column) = b
  <2> HIDE DEF a
  <2> QED
    BY <1>1, ColumnCount
<1>3. IsFiniteSet(Units(v)) /\ Cardinality(Units(v)) \in Nat
  <2>1. IsFiniteSet(E)
    BY FS_Subset
  <2> QED
    BY <2>1, UnitsFinite
<1>4. \A p : p \in Units(v) <=> \E y \in E : \E i \in 1 .. v[y] : p = <<y, i>>
  BY UnitIn
<1>5. \A p : p \in column <=> \E i \in a + 1 .. a + b : p = <<x, i>>
  BY ColumnIn
<1>6. Units(v) \cap column = {}
  <2> SUFFICES ASSUME NEW i \in a + 1 .. a + b, x \in E, i \in 1 .. v[x]
               PROVE  FALSE
    BY <1>4, <1>5
  <2>1. v[x] \in Nat /\ w[x] \in Nat
    OBVIOUS
  <2> QED
    BY <1>1, <2>1
<1>7. Units(v) \cup column \in SUBSET Units(w)
  <2>1. ASSUME NEW y \in E, NEW i \in 1 .. v[y]
        PROVE  i \in 1 .. w[y]
    BY <2>1
  <2>2. \A i \in a + 1 .. a + b : i \in 1 .. w[x]
    BY <1>1
  <2>3. \A p : p \in Units(w) <=> \E y \in D : \E i \in 1 .. w[y] : p = <<y, i>>
    BY UnitIn
  <2> HIDE DEF column
  <2> QED
    BY <1>4, <1>5, <2>1, <2>2, <2>3
<1>8. IsFiniteSet(Units(w))
  BY UnitsFinite
<1> HIDE DEF column
<1>9. Cardinality(Units(v) \cup column) = Cardinality(Units(v)) + b
  BY <1>2, <1>3, <1>6, DisjointCount
<1> QED
  BY <1>7, <1>8, <1>9, FS_Subset

(* Added numbers have no more units than the numbers have together. *)
LEMMA UnitsAdded ==
  ASSUME NEW D, IsFiniteSet(D), NEW w \in [D -> Nat],
         NEW E, IsFiniteSet(E), NEW v \in [E -> Nat],
         NEW u \in [D \cup E -> Nat],
         \A x \in D \cup E : u[x] = (IF x \in D THEN w[x] ELSE 0) + (IF x \in E THEN v[x] ELSE 0)
  PROVE  Cardinality(Units(u)) <= Cardinality(Units(w)) + Cardinality(Units(v))
<1> DEFINE base(x) == IF x \in D THEN w[x] ELSE 0
           f == [p \in Units(v) |-> <<p[1], base(p[1]) + p[2]>>]
           S == {f[p] : p \in Units(v)}
<1>1. \A x : base(x) \in Nat
  OBVIOUS
<1>2. IsFiniteSet(Units(w)) /\ Cardinality(Units(w)) \in Nat
      /\ IsFiniteSet(Units(v)) /\ Cardinality(Units(v)) \in Nat
  BY UnitsFinite
<1>3. f \in Surjection(Units(v), S)
  BY DEF Surjection
<1>4. Units(u) \subseteq Units(w) \cup S
  <2> SUFFICES ASSUME NEW x \in D \cup E, NEW i \in 1 .. u[x], <<x, i>> \notin Units(w)
               PROVE  <<x, i>> \in S
    BY UnitIn
  <2>1. ~ (x \in D /\ i \in 1 .. w[x])
    BY UnitIn
  <2>2. u[x] = base(x) + (IF x \in E THEN v[x] ELSE 0)
    OBVIOUS
  <2>3. x \in E /\ i - base(x) \in 1 .. v[x]
    BY <1>1, <2>1, <2>2
  <2> DEFINE q == <<x, i - base(x)>>
  <2>4. q \in Units(v)
    BY <2>3, UnitIn
  <2>5. f[q] = <<x, i>>
    <3>1. q[1] = x /\ base(x) + q[2] = i
      BY <1>1
    <3> QED
      BY <2>4, <3>1
  <2> QED
    BY <2>4, <2>5
<1> HIDE DEF f, S
<1>5. IsFiniteSet(S) /\ Cardinality(S) <= Cardinality(Units(v)) /\ Cardinality(S) \in Nat
  BY <1>2, <1>3, FS_Surjection, FS_CardinalityType
<1>6. /\ IsFiniteSet(Units(w) \cup S)
      /\ Cardinality(Units(w) \cup S) <= Cardinality(Units(w)) + Cardinality(S)
  <2>1. /\ IsFiniteSet(Units(w) \cup S)
        /\ Cardinality(Units(w) \cup S) =
             Cardinality(Units(w)) + Cardinality(S) - Cardinality(Units(w) \cap S)
    BY <1>2, <1>5, FS_Union
  <2>2. Cardinality(Units(w) \cap S) \in Nat
    BY <1>2, FS_Subset, FS_CardinalityType
  <2> QED
    BY <1>2, <1>5, <2>1, <2>2
<1>7. /\ Cardinality(Units(u)) <= Cardinality(Units(w) \cup S)
      /\ IsFiniteSet(Units(u))
  BY <1>4, <1>6, FS_Subset
<1>8. Cardinality(Units(u)) \in Nat /\ Cardinality(Units(w) \cup S) \in Nat
  BY <1>6, <1>7, FS_CardinalityType
<1> QED
  BY <1>2, <1>5, <1>6, <1>7, <1>8

(* SumFunction counts the units. *)
LEMMA SumIsCount ==
  ASSUME NEW D, IsFiniteSet(D), NEW w \in [D -> Nat]
  PROVE  SumFunction(w) = Cardinality(Units(w))
<1> DEFINE count(s) == Cardinality(Units([y \in s |-> w[y]]))
           value(f, s) == IF s = {} THEN 0
                          ELSE w[CHOOSE x \in s : TRUE] + f[s \ {CHOOSE x \in s : TRUE}]
           g == [s \in SUBSET D |-> count(s)]
           sum == CHOOSE f : f = [s \in SUBSET D |-> value(f, s)]
<1>1. SumFunction(w) = sum[D]
  BY DEF SumFunction, SumFunctionOnSet, FoldFunctionOnSet, MapThenFoldSet
<1>2. \A s \in SUBSET D : count(s) = value(g, s)
  <2> SUFFICES ASSUME NEW s \in SUBSET D
               PROVE  count(s) = value(g, s)
    OBVIOUS
  <2> DEFINE v == [y \in s |-> w[y]]
             x == CHOOSE x \in s : TRUE
  <2>1. IsFiniteSet(s) /\ v \in [s -> Nat]
    BY FS_Subset
  <2>2. CASE s = {}
    <3>1. Units(v) = {}
      BY <2>2, UnitIn
    <3>2. count(s) = 0
      BY <3>1, FS_EmptySet
    <3> QED
      BY <2>2, <3>2
  <2>3. CASE s # {}
    <3>1. x \in s
      BY <2>3
    <3> HIDE DEF x
    <3>2. [y \in s \ {x} |-> v[y]] = [y \in s \ {x} |-> w[y]]
      OBVIOUS
    <3>3. v[x] = w[x]
      BY <3>1
    <3> HIDE DEF v
    <3>4. Cardinality(Units(v)) = v[x] + Cardinality(Units([y \in s \ {x} |-> v[y]]))
      BY <2>1, <3>1, UnitsTake
    <3>5. count(s) = w[x] + count(s \ {x})
      BY <3>2, <3>3, <3>4 DEF v
    <3>6. g[s \ {x}] = count(s \ {x})
      BY <3>1
    <3> HIDE DEF g, count
    <3> QED
      BY <2>3, <3>5, <3>6 DEF x
  <2> QED
    BY <2>2, <2>3
<1>3. g = [s \in SUBSET D |-> value(g, s)]
  <2> HIDE DEF value, count
  <2> QED
    BY <1>2
<1>4. sum = [s \in SUBSET D |-> value(sum, s)]
  <2> HIDE DEF value, g
  <2> QED
    BY <1>3
<1> HIDE DEF sum
<1> DEFINE T == {n \in Nat : \A s \in SUBSET D : Cardinality(s) = n => sum[s] = g[s]}
<1>5. 0 \in T
  <2> SUFFICES ASSUME NEW s \in SUBSET D, Cardinality(s) = 0
               PROVE  sum[s] = g[s]
    OBVIOUS
  <2>1. s = {}
    BY FS_Subset, FS_EmptySet
  <2>2. sum[s] = value(sum, s) /\ g[s] = value(g, s)
    <3> HIDE DEF value, g
    <3> QED
      BY <1>3, <1>4
  <2> HIDE DEF g
  <2> QED
    BY <2>1, <2>2
<1>6. ASSUME NEW n \in Nat, n \in T
      PROVE  n + 1 \in T
  <2> HIDE DEF g
  <2> SUFFICES ASSUME NEW s \in SUBSET D, Cardinality(s) = n + 1
               PROVE  sum[s] = g[s]
    OBVIOUS
  <2> DEFINE x == CHOOSE x \in s : TRUE
  <2>1. IsFiniteSet(s) /\ s # {}
    BY FS_Subset, FS_EmptySet
  <2>2. x \in s
    BY <2>1
  <2>3. sum[s] = value(sum, s) /\ g[s] = value(g, s)
    <3> HIDE DEF value
    <3> QED
      BY <1>3, <1>4
  <2> HIDE DEF x
  <2>4. Cardinality(s \ {x}) = n
    <3>1. Cardinality(s \ {x}) = Cardinality(s) - 1
      BY <2>1, <2>2, FS_RemoveElement
    <3> QED
      BY <3>1
  <2>5. sum[s \ {x}] = g[s \ {x}]
    BY <1>6, <2>4
  <2> QED
    BY <2>1, <2>3, <2>5 DEF x
<1> HIDE DEF T
<1>7. \A n \in Nat : n \in T
  BY <1>5, <1>6, SetInduction
<1>8. sum[D] = g[D]
  BY <1>7, FS_CardinalityType DEF T
<1>9. [y \in D |-> w[y]] = w
  OBVIOUS
<1> QED
  BY <1>1, <1>8, <1>9

(* The shares of all peers together are the budget.                        *)
LEMMA SharesCount ==
  ASSUME NEW b \in Nat, NEW k \in Nat \ {0}
  PROVE  /\ IsFiniteSet(Units([i \in 1 .. k |-> Share(b, k, i)]))
         /\ Cardinality(Units([i \in 1 .. k |-> Share(b, k, i)])) = b
<1> DEFINE q == b \div k
           rest == b % k
           first(j) == [i \in 1 .. j |-> Share(b, k, i)]
           total(j) == j * q + (IF j <= rest THEN j ELSE rest)
           T == {j \in Nat : Cardinality(Units(first(j))) = total(j)}
<1>1. q \in Nat /\ rest \in Nat /\ rest < k /\ b = k * q + rest
  OBVIOUS
<1>2. \A i : Share(b, k, i) = q + (IF i <= rest THEN 1 ELSE 0)
  BY DEF Share
<1> HIDE DEF q, rest
<1>3. \A j \in Nat : IsFiniteSet(1 .. j) /\ first(j) \in [1 .. j -> Nat]
  <2> SUFFICES ASSUME NEW j \in Nat
               PROVE  IsFiniteSet(1 .. j) /\ first(j) \in [1 .. j -> Nat]
    OBVIOUS
  <2>1. IsFiniteSet(1 .. j)
    BY FS_Interval
  <2>2. first(j) \in [1 .. j -> Nat]
    BY <1>1, <1>2
  <2> QED
    BY <2>1, <2>2
<1>4. 0 \in T
  <2>1. 1 .. 0 = {}
    OBVIOUS
  <2>2. Units(first(0)) = {}
    BY <2>1, UnitIn
  <2> QED
    BY <1>1, <2>2, FS_EmptySet
<1>5. ASSUME NEW j \in Nat, j \in T
      PROVE  j + 1 \in T
  <2>1. j + 1 \in 1 .. j + 1 /\ j + 1 \in Nat
    OBVIOUS
  <2>2. [i \in (1 .. j + 1) \ {j + 1} |-> first(j + 1)[i]] = first(j)
    <3>1. (1 .. j + 1) \ {j + 1} = 1 .. j
      OBVIOUS
    <3> QED
      BY <3>1
  <2>3. first(j + 1)[j + 1] = q + (IF j + 1 <= rest THEN 1 ELSE 0)
    BY <1>2, <2>1
  <2>4. IsFiniteSet(1 .. j + 1) /\ first(j + 1) \in [1 .. j + 1 -> Nat]
    BY <1>3, <2>1
  <2>5. Cardinality(Units(first(j))) = total(j)
    BY <1>5
  <2> HIDE DEF first
  <2>6. Cardinality(Units(first(j + 1))) =
          first(j + 1)[j + 1] +
            Cardinality(Units([i \in (1 .. j + 1) \ {j + 1} |-> first(j + 1)[i]]))
    BY <2>1, <2>4, UnitsTake
  <2>7. (j + 1) * q = j * q + q /\ j * q \in Nat
    BY <1>1
  <2> QED
    BY <1>1, <2>2, <2>3, <2>5, <2>6, <2>7
<1> HIDE DEF T
<1>6. k \in T
  BY <1>4, <1>5, SetInduction
<1>7. Cardinality(Units(first(k))) = k * q + rest
  BY <1>1, <1>6 DEF T
<1>8. IsFiniteSet(Units(first(k)))
  <2> HIDE DEF first
  <2> QED
    BY <1>3, UnitsFinite
<1> QED
  BY <1>1, <1>7, <1>8

(* divideBudget hands out no more than the budget.                         *)
LEMMA DividedBudget ==
  ASSUME NEW n \in Nodes, NEW b \in Nat, NEW origin \in Nodes, NEW from,
         NEW keywords \in Keywords
  PROVE  LET D == DivideBudget(n, b, origin, from, keywords) IN
         /\ IsFiniteSet(D)
         /\ Cardinality(Units([r \in D |-> r.budget])) <= b
<1> DEFINE peers == RemoveFirst(Peers[n], from)
           k == Len(peers)
           D == DivideBudget(n, b, origin, from, keywords)
           w == [r \in D |-> r.budget]
           share == [i \in 1 .. k |-> Share(b, k, i)]
           request(i) == [origin |-> origin, keywords |-> keywords, from |-> n,
                          to |-> peers[i], budget |-> Share(b, k, i)]
           I == {j \in DOMAIN peers : Share(b, k, j) > 0}
<1>1. D = {request(i) : i \in I}
  BY DEF DivideBudget
<1>2. DOMAIN peers = 1 .. k /\ k \in Nat
  BY RemoveFirstType, SearchAssumption
<1>3. IsFiniteSet(I)
  <2>1. IsFiniteSet(1 .. k)
    BY <1>2, FS_Interval
  <2> QED
    BY <1>2, <2>1, FS_Subset
<1>4. IsFiniteSet(D)
  <2> DEFINE f == [i \in I |-> request(i)]
  <2>1. f \in Surjection(I, D)
    BY <1>1 DEF Surjection
  <2> HIDE DEF f, I, D
  <2> QED
    BY <1>3, <2>1, FS_Surjection
<1>5. \A i \in I : request(i).budget = Share(b, k, i)
  OBVIOUS
<1>6. w \in [D -> Nat]
  BY DividedType DEF Requests
<1> HIDE DEF D, request
<1>7. CASE I = {}
  <2>1. Units(w) = {}
    BY <1>1, <1>7, UnitIn
  <2> QED
    BY <1>4, <2>1, FS_EmptySet DEF D
<1>8. CASE I # {}
  <2>1. k \in Nat \ {0}
    BY <1>2, <1>8
  <2> HIDE DEF k, I
  <2> DEFINE J == {p \in Units(share) : p[1] \in I}
             f == [p \in J |-> <<request(p[1]), p[2]>>]
  <2>2. IsFiniteSet(Units(share)) /\ Cardinality(Units(share)) = b
    BY <2>1, SharesCount
  <2>3. IsFiniteSet(J) /\ Cardinality(J) <= b /\ Cardinality(J) \in Nat
    BY <2>2, FS_Subset, FS_CardinalityType
  <2>4. \A p : p \in Units(w) <=> \E i \in I : \E u \in 1 .. Share(b, k, i) : p = <<request(i), u>>
    <3>1. DOMAIN w = D /\ \A r \in D : w[r] = r.budget
      OBVIOUS
    <3> HIDE DEF w
    <3>2. \A p : p \in Units(w) <=> \E r \in D : \E u \in 1 .. w[r] : p = <<r, u>>
      BY <3>1, UnitIn
    <3> QED
      BY <1>1, <1>5, <3>1, <3>2
  <2>5. \A p : p \in J <=> \E i \in I : \E u \in 1 .. Share(b, k, i) : p = <<i, u>>
    <3>1. DOMAIN share = 1 .. k /\ \A i \in 1 .. k : share[i] = Share(b, k, i)
      OBVIOUS
    <3> HIDE DEF share
    <3>2. \A p : p \in Units(share) <=>
            \E i \in DOMAIN share : \E u \in 1 .. share[i] : p = <<i, u>>
      BY UnitIn
    <3>3. I \subseteq 1 .. k
      BY <1>2 DEF I
    <3> QED
      BY <3>1, <3>2, <3>3
  <2>6. f \in Surjection(J, Units(w))
    <3>1. \A p \in J : f[p] \in Units(w)
      BY <2>4, <2>5
    <3>2. ASSUME NEW p \in Units(w)
          PROVE  \E o \in J : f[o] = p
      <4>1. PICK i \in I : \E u \in 1 .. Share(b, k, i) : p = <<request(i), u>>
        BY <2>4
      <4>2. PICK u \in 1 .. Share(b, k, i) : p = <<request(i), u>>
        BY <4>1
      <4>3. <<i, u>> \in J
        BY <2>5
      <4>4. f[<<i, u>>] = <<request(i), u>>
        BY <4>3
      <4> QED
        BY <4>2, <4>3, <4>4
    <3> QED
      BY <3>1, <3>2 DEF Surjection
  <2> HIDE DEF f, J, w
  <2>7. Cardinality(Units(w)) <= Cardinality(J) /\ IsFiniteSet(Units(w))
    BY <2>3, <2>6, FS_Surjection
  <2>8. Cardinality(Units(w)) <= b
    BY <2>3, <2>7, FS_CardinalityType
  <2> QED
    BY <1>4, <2>8 DEF D, w
<1> QED
  BY <1>7, <1>8

(* A bag of requests, and what each of them carries. *)
RequestBag(bag) ==
  IsABag(bag) /\ IsFiniteSet(BagToSet(bag)) /\ BagToSet(bag) \subseteq Requests

Carried(bag) == [r \in BagToSet(bag) |-> r.budget * bag[r]]

LEMMA BudgetIsCount ==
  ASSUME NEW bag, RequestBag(bag)
  PROVE  /\ Carried(bag) \in [BagToSet(bag) -> Nat]
         /\ BudgetIn(bag) = Cardinality(Units(Carried(bag)))
         /\ BudgetIn(bag) \in Nat
<1>1. \A r \in BagToSet(bag) : r.budget \in Nat /\ bag[r] \in Nat
  BY DEF RequestBag, IsABag, BagToSet, Requests
<1>2. Carried(bag) \in [BagToSet(bag) -> Nat]
  BY <1>1 DEF Carried
<1>3. BudgetIn(bag) = SumFunction(Carried(bag))
  BY DEF BudgetIn, Carried
<1> QED
  BY <1>2, <1>3, SumIsCount, UnitsFinite DEF RequestBag

(* A request handled takes its budget out. *)
LEMMA RemovedBudget ==
  ASSUME NEW bag, RequestBag(bag), NEW r \in BagToSet(bag)
  PROVE  /\ RequestBag(BagRemove(bag, r))
         /\ BudgetIn(BagRemove(bag, r)) + r.budget <= BudgetIn(bag)
<1> DEFINE less == BagRemove(bag, r)
           D == BagToSet(bag)
           E == BagToSet(less)
<1>1. r.budget \in Nat /\ bag[r] \in Nat \ {0}
  BY DEF RequestBag, IsABag, BagToSet, Requests
<1>2. /\ E = IF bag[r] = 1 THEN D \ {r} ELSE D
      /\ \A x \in E : less[x] = IF x = r THEN bag[x] - 1 ELSE bag[x]
      /\ less = [x \in E |-> less[x]]
  BY DEF BagRemove, BagToSet
<1>3. \A x \in D : bag[x] \in Nat \ {0}
  BY DEF RequestBag, IsABag, BagToSet
<1> HIDE DEF less
<1>4. RequestBag(less)
  <2>1. \A x \in E : less[x] \in {n \in Nat : n > 0}
    BY <1>2, <1>3
  <2>2. IsABag(less)
    BY <1>2, <2>1 DEF IsABag, BagToSet
  <2>3. E \in SUBSET D
    BY <1>2
  <2> QED
    BY <2>2, <2>3, FS_Subset DEF RequestBag
<1> DEFINE w == Carried(bag)
           v == Carried(less)
<1>5. /\ w \in [D -> Nat] /\ BudgetIn(bag) = Cardinality(Units(w))
      /\ v \in [E -> Nat] /\ BudgetIn(less) = Cardinality(Units(v))
  BY <1>4, BudgetIsCount
<1>6. /\ \A x \in D : w[x] = x.budget * bag[x]
      /\ \A x \in E : v[x] = x.budget * less[x]
  BY DEF Carried
<1>7. \A y \in E : y # r => v[y] = w[y]
  BY <1>2, <1>6
<1>8. /\ r.budget * bag[r] = r.budget + r.budget * (bag[r] - 1)
      /\ r.budget * (bag[r] - 1) \in Nat
  <2> DEFINE a == r.budget
             c == bag[r] - 1
  <2>1. a \in Nat /\ c \in Nat /\ bag[r] = c + 1
    BY <1>1
  <2> HIDE DEF a, c
  <2>2. a * (c + 1) = a + a * c /\ a * c \in Nat
    BY <2>1
  <2> QED
    BY <2>1, <2>2 DEF a, c
<1>9. r.budget <= w[r]
  BY <1>1, <1>6, <1>8
<1>10. r \in E => v[r] + r.budget <= w[r]
  BY <1>1, <1>2, <1>6, <1>8
<1>11. IsFiniteSet(D) /\ E \in SUBSET D
  BY <1>2 DEF RequestBag
<1> HIDE DEF w, v, D, E
<1>12. Cardinality(Units(v)) + r.budget <= Cardinality(Units(w))
  <2>1. r \in D
    BY DEF D
  <2> QED
    BY <1>1, <1>5, <1>7, <1>9, <1>10, <1>11, <2>1, UnitsLess
<1> QED
  BY <1>4, <1>5, <1>12 DEF less

(* Requests that are sent add what they carry. *)
LEMMA AddedBudget ==
  ASSUME NEW bag, RequestBag(bag), NEW S \in SUBSET Requests, IsFiniteSet(S)
  PROVE  /\ RequestBag(bag (+) SetToBag(S))
         /\ BudgetIn(bag (+) SetToBag(S))
              <= BudgetIn(bag) + Cardinality(Units([r \in S |-> r.budget]))
<1> DEFINE more == bag (+) SetToBag(S)
           D == BagToSet(bag)
           E == BagToSet(more)
           v == [r \in S |-> r.budget]
<1>1. \A x \in D : bag[x] \in Nat \ {0}
  BY DEF RequestBag, IsABag, BagToSet
<1>2. /\ E = D \cup S
      /\ \A x \in E : more[x] = (IF x \in D THEN bag[x] ELSE 0) + (IF x \in S THEN 1 ELSE 0)
      /\ more = [x \in E |-> more[x]]
  BY DEF (+), BagToSet, SetToBag
<1> HIDE DEF more
<1>3. RequestBag(more)
  <2>1. \A x \in E : more[x] \in {n \in Nat : n > 0}
    BY <1>1, <1>2
  <2>2. IsABag(more)
    BY <1>2, <2>1 DEF IsABag, BagToSet
  <2>3. IsFiniteSet(D \cup S)
    BY FS_Union DEF RequestBag
  <2> QED
    BY <1>2, <2>2, <2>3 DEF RequestBag
<1> DEFINE w == Carried(bag)
           u == Carried(more)
<1>4. /\ w \in [D -> Nat] /\ BudgetIn(bag) = Cardinality(Units(w))
      /\ u \in [E -> Nat] /\ BudgetIn(more) = Cardinality(Units(u))
  BY <1>3, BudgetIsCount
<1>5. v \in [S -> Nat]
  BY DEF Requests
<1>6. /\ \A x \in D : w[x] = x.budget * bag[x]
      /\ \A x \in E : u[x] = x.budget * more[x]
      /\ \A x \in S : v[x] = x.budget
  BY DEF Carried
<1>7. \A x \in E : x.budget \in Nat
  BY <1>2 DEF RequestBag, Requests
<1>8. ASSUME NEW x \in D \cup S
      PROVE  u[x] = (IF x \in D THEN w[x] ELSE 0) + (IF x \in S THEN v[x] ELSE 0)
  <2>1. x.budget \in Nat /\ u[x] = x.budget * more[x]
    BY <1>2, <1>6, <1>7
  <2>2. CASE x \in D /\ x \in S
    <3>1. u[x] = x.budget * (bag[x] + 1)
      BY <1>2, <2>1, <2>2
    <3>2. x.budget * (bag[x] + 1) = x.budget * bag[x] + x.budget
      BY <1>1, <2>1, <2>2
    <3> QED
      BY <1>6, <2>2, <3>1, <3>2
  <2>3. CASE x \in D /\ x \notin S
    <3>1. more[x] = bag[x]
      BY <1>1, <1>2, <2>3
    <3>2. w[x] \in Nat
      BY <1>4, <2>3
    <3> QED
      BY <1>6, <2>1, <2>3, <3>1, <3>2
  <2>4. CASE x \notin D /\ x \in S
    <3>1. more[x] = 1
      BY <1>2, <2>4
    <3> QED
      BY <1>6, <2>1, <2>4, <3>1
  <2> QED
    BY <2>2, <2>3, <2>4
<1>9. IsFiniteSet(D) /\ u \in [D \cup S -> Nat]
  BY <1>2, <1>4 DEF RequestBag
<1> HIDE DEF w, v, u, D, E
<1>10. Cardinality(Units(u)) <= Cardinality(Units(w)) + Cardinality(Units(v))
  BY <1>4, <1>5, <1>8, <1>9, UnitsAdded
<1> QED
  BY <1>3, <1>4, <1>10 DEF more, v

(* Requests a search sends. *)
LEMMA SentBudget ==
  ASSUME RequestBag(requests), NEW n \in Nodes, NEW b \in Nat, NEW keywords \in Keywords,
         requests' = requests (+) SetToBag(DivideBudget(n, b, n, None, keywords))
  PROVE  /\ RequestBag(requests')
         /\ BudgetIn(requests') \in Nat /\ BudgetIn(requests) \in Nat
         /\ BudgetIn(requests') <= BudgetIn(requests) + b
<1> DEFINE D == DivideBudget(n, b, n, None, keywords)
<1>1. /\ IsFiniteSet(D) /\ D \in SUBSET Requests
      /\ Cardinality(Units([r \in D |-> r.budget])) <= b
  BY DividedBudget, DividedType
<1>2. Cardinality(Units([r \in D |-> r.budget])) \in Nat
  <2> DEFINE w == [r \in D |-> r.budget]
  <2>1. w \in [D -> Nat]
    BY <1>1 DEF Requests
  <2> HIDE DEF w, D
  <2>2. Cardinality(Units(w)) \in Nat
    BY <1>1, <2>1, UnitsFinite
  <2> QED
    BY <2>2 DEF w
<1>3. requests' = requests (+) SetToBag(D)
  OBVIOUS
<1> HIDE DEF D
<1>4. /\ RequestBag(requests')
      /\ BudgetIn(requests') <= BudgetIn(requests) + Cardinality(Units([r \in D |-> r.budget]))
  BY <1>1, <1>3, AddedBudget
<1>5. BudgetIn(requests') \in Nat /\ BudgetIn(requests) \in Nat
  BY <1>4, BudgetIsCount
<1> QED
  BY <1>1, <1>2, <1>4, <1>5

LEMMA NewRequestBudget ==
  ASSUME RequestBag(requests), NEW n \in Nodes, NEW r \in BagToSet(requests),
         NewRequest(n, r)
  PROVE  RequestBag(requests') /\ BudgetIn(requests') < BudgetIn(requests)
<1> DEFINE D == DivideBudget(n, Rest(r), r.origin, r.from, r.keywords)
           less == BagRemove(requests, r)
           sent == Cardinality(Units([q \in D |-> q.budget]))
<1>1. /\ r \in Requests /\ r.budget \in Nat \ {0}
      /\ Rest(r) \in Nat /\ Rest(r) = r.budget - 1
  BY DEF RequestBag, Requests, Rest
<1>2. r.origin \in Nodes /\ r.keywords \in Keywords
  BY <1>1 DEF Requests
<1>3. IsFiniteSet(D) /\ D \in SUBSET Requests /\ sent <= Rest(r)
  BY <1>1, <1>2, DividedBudget, DividedType
<1>4. sent \in Nat
  <2> DEFINE w == [q \in D |-> q.budget]
  <2>1. w \in [D -> Nat]
    BY <1>3 DEF Requests
  <2> HIDE DEF w, D
  <2>2. Cardinality(Units(w)) \in Nat
    BY <1>3, <2>1, UnitsFinite
  <2> QED
    BY <2>2 DEF w
<1>5. requests' = less (+) SetToBag(D)
  BY DEF NewRequest
<1>6. RequestBag(less) /\ BudgetIn(less) + r.budget <= BudgetIn(requests)
  BY RemovedBudget
<1> HIDE DEF D, less
<1>7. RequestBag(requests') /\ BudgetIn(requests') <= BudgetIn(less) + sent
  BY <1>3, <1>5, <1>6, AddedBudget
<1>8. BudgetIn(requests') \in Nat /\ BudgetIn(less) \in Nat /\ BudgetIn(requests) \in Nat
  BY <1>6, <1>7, BudgetIsCount
<1> HIDE DEF sent
<1> QED
  BY <1>1, <1>3, <1>4, <1>6, <1>7, <1>8

LEMMA DuplicateBudget ==
  ASSUME RequestBag(requests), NEW n \in Nodes, NEW r \in BagToSet(requests),
         DuplicateRequest(n, r)
  PROVE  RequestBag(requests') /\ BudgetIn(requests') < BudgetIn(requests)
<1>1. requests' = BagRemove(requests, r)
  BY DEF DuplicateRequest
<1>2. r.budget \in Nat \ {0}
  BY DEF RequestBag, Requests
<1>3. RequestBag(requests') /\ BudgetIn(requests') + r.budget <= BudgetIn(requests)
  BY <1>1, RemovedBudget
<1>4. BudgetIn(requests') \in Nat /\ BudgetIn(requests) \in Nat
  BY <1>3, BudgetIsCount
<1> QED
  BY <1>2, <1>3, <1>4

(* What a search may add to the network in a step.                         *)
Pays(s) ==
  /\ phase'[s] # phase[s] \/ budget'[s] # budget[s]
  /\ BudgetIn(requests') < BudgetIn(requests) +
       (IF Budget[s] = NoBudget THEN budget'[s] ELSE Budget[s])

LEMMA ThreadBudget ==
  ASSUME RequestBag(requests), TypeOK, NEW s \in Searches, ThreadStep(s)
  PROVE  RequestBag(requests') /\ (requests' = requests \/ Pays(s))
<1> USE SearchAssumption
<1>1. At[s] \in Nodes /\ For[s] \in Keywords
  OBVIOUS
<1>2. CASE StartSearch(s) /\ Budget[s] # NoBudget
  <2> DEFINE b == Budget[s] - 1
  <2>1. Budget[s] \in Nat /\ b \in Nat
    BY <1>2
  <2>2. requests' = requests (+) SetToBag(DivideBudget(At[s], b, At[s], None, For[s]))
    BY <1>2 DEF StartSearch
  <2>3. phase'[s] # phase[s]
    BY <1>2 DEF StartSearch, TypeOK
  <2> HIDE DEF b
  <2>4. /\ RequestBag(requests')
        /\ BudgetIn(requests') \in Nat /\ BudgetIn(requests) \in Nat
        /\ BudgetIn(requests') <= BudgetIn(requests) + b
    BY <1>1, <2>1, <2>2, SentBudget
  <2>5. BudgetIn(requests') < BudgetIn(requests) + Budget[s]
    BY <2>1, <2>4 DEF b
  <2> QED
    BY <1>2, <2>3, <2>4, <2>5 DEF Pays
<1>3. CASE Tick(s)
  <2> DEFINE b == budget'[s] - 1
  <2>1. budget[s] \in Nat \ {0} /\ budget'[s] = 2 * budget[s]
    BY <1>3 DEF Tick, TypeOK
  <2>2. budget'[s] \in Nat /\ b \in Nat /\ budget'[s] # budget[s]
    BY <2>1
  <2>3. requests' = requests (+) SetToBag(DivideBudget(At[s], b, At[s], None, For[s]))
    BY <1>3 DEF Tick
  <2> HIDE DEF b
  <2>4. /\ RequestBag(requests')
        /\ BudgetIn(requests') \in Nat /\ BudgetIn(requests) \in Nat
        /\ BudgetIn(requests') <= BudgetIn(requests) + b
    BY <1>1, <2>2, <2>3, SentBudget
  <2>5. BudgetIn(requests') < BudgetIn(requests) + budget'[s]
    BY <2>2, <2>4 DEF b
  <2>6. Budget[s] = NoBudget
    BY <1>3 DEF Tick
  <2> QED
    BY <2>2, <2>4, <2>5, <2>6 DEF Pays
<1>4. CASE (StartSearch(s) /\ Budget[s] = NoBudget) \/ Timeout(s) \/ EndSearch(s)
  BY <1>4 DEF StartSearch, Timeout, EndSearch
<1> QED
  BY <1>2, <1>3, <1>4 DEF ThreadStep

LEMMA BudgetNext ==
  ASSUME RequestBag(requests), TypeOK, [Next]_vars
  PROVE  /\ RequestBag(requests')
         /\ \/ requests' = requests
            \/ BudgetIn(requests') < BudgetIn(requests)
            \/ \E s \in Searches : Pays(s)
<1>1. CASE UNCHANGED vars
  BY <1>1 DEF vars
<1>2. ASSUME NEW s \in Searches, ThreadStep(s)
      PROVE  RequestBag(requests') /\ (requests' = requests \/ Pays(s))
  BY <1>2, ThreadBudget
<1>3. ASSUME NEW n \in Nodes, HandleSearchRequest(n)
      PROVE  RequestBag(requests') /\ BudgetIn(requests') < BudgetIn(requests)
  BY <1>3, DuplicateBudget, NewRequestBudget DEF HandleSearchRequest
<1>4. ASSUME NEW n \in Nodes,
             HandleDuplicateSearch(n) \/ HandleSearchReply(n) \/ SendReply(n)
      PROVE  requests' = requests
  BY <1>4 DEF HandleDuplicateSearch, RecordSearch, ForgetSearch, HandleSearchReply,
              AcceptReply, ForwardReply, DropReply, SendReply
<1> QED
  BY <1>1, <1>2, <1>3, <1>4 DEF Next

-----------------------------------------------------------------------------
(* The theorems. *)

(* The inductive invariant (fileSearch.go, gossiper.go:568-666): routes,    *)
(* requests, replies, the lists of channels and the matches agree.         *)
THEOREM Inductive == Spec => []IInv
<1>1. Init => IInv
  BY InitOK
<1>2. IInv /\ [Next]_vars => IInv'
  <2> SUFFICES ASSUME IInv, [Next]_vars
               PROVE  IInv'
    OBVIOUS
  <2>1. RoutesPart /\ ChannelsPart /\ MatchesOK /\ TypeOK /\ PacketTypes
    BY DEF IInv, RoutesPart, ChannelsPart, TypeOK, PacketTypes
  <2>2. RoutesPart' /\ ChannelsPart' /\ MatchesOK' /\ PacketTypes'
    <3>1. RoutesOK
      BY <2>1 DEF RoutesPart
    <3> QED
      BY <2>1, <3>1, RoutesNext, ChannelsNext, MatchesNext, TypesNext
  <2>3. reply' \in [Nodes -> Replies \cup {None}] /\ full' \in [Searches -> SUBSET Names]
    BY WorkerTypes
  <2>4. TypeOK'
    BY <2>2, <2>3 DEF TypeOK, RoutesPart, RoutesOK, ChannelsPart, ChannelsOK, MatchesOK,
                      PacketTypes
  <2>5. RequestsOK'
    <3>1. RequestBag(requests)
      BY DEF IInv, RequestsOK, TypeOK, RequestBag
    <3>2. RequestBag(requests')
      BY <2>1, <3>1, BudgetNext
    <3> QED
      BY <3>2 DEF RequestsOK, RequestBag
  <2> QED
    BY <2>2, <2>4, <2>5 DEF IInv, RoutesPart, ChannelsPart
<1> QED
  BY <1>1, <1>2, PTL DEF Spec

(* Type correctness: in particular divideBudget (fileSearch.go:226-259)     *)
(* sends no request with nothing to spend, and handleSearchReply           *)
(* (gossiper.go:643-660) never takes the hop limit below 0.                *)
THEOREM TypesOK == Spec => []TypeOK
<1>1. IInv => TypeOK
  BY DEF IInv
<1> QED
  BY <1>1, Inductive, PTL

(* As many chunks as the file has, no chunk twice and each a chunk of the   *)
(* file: they are all there.                                               *)
LEMMA FullMatch ==
  ASSUME NEW name, NEW m, MatchOf(name, m), IsFull(m), OneFile(name)
  PROVE  /\ Len(m.chunks) = m.chunkCount
         /\ {m.chunks[i].chunk : i \in DOMAIN m.chunks} = 1 .. m.chunkCount
         /\ \A i \in DOMAIN m.chunks : \E f \in Files[m.chunks[i].node] :
              /\ f.name = name /\ f.meta = m.meta
              /\ m.chunks[i].chunk \in ToSet(f.chunkMap)
<1> DEFINE count == m.chunkCount
           h == [i \in 1 .. count |-> m.chunks[i].chunk]
<1>1. /\ m.chunks \in Seq(ChunkNode) /\ count \in Nat /\ Len(m.chunks) = count
  BY DEF MatchOf, Match, IsFull, ChunkNode
<1>2. DOMAIN m.chunks = 1 .. count /\ \A i \in 1 .. count : m.chunks[i] \in ChunkNode
  BY <1>1
<1>3. PICK g \in Results : g.name = name /\ m.meta = g.meta /\ m.chunkCount = g.chunkCount
  BY DEF MatchOf
<1>4. ASSUME NEW i \in 1 .. count
      PROVE  \E f \in Files[m.chunks[i].node] :
               /\ f.name = name /\ f.meta = m.meta
               /\ m.chunks[i].chunk \in ToSet(f.chunkMap)
               /\ m.chunks[i].chunk \in 1 .. count
  <2>1. m.chunks[i].node \in Nodes
    BY <1>2 DEF ChunkNode
  <2>2. PICK f \in Files[m.chunks[i].node] :
          f.name = name /\ m.chunks[i].chunk \in ToSet(f.chunkMap)
    BY <1>2 DEF MatchOf
  <2>3. f \in Results
    BY <2>1 DEF Results
  <2>4. f.meta = m.meta /\ f.chunkCount = count
    BY <1>3, <2>2, <2>3 DEF OneFile
  <2>5. f.chunkMap \in Seq(1 .. count)
    BY <2>1, <2>4, SearchAssumption
  <2>6. m.chunks[i].chunk \in 1 .. count
    <3> DEFINE S == 1 .. count
    <3>1. f.chunkMap \in Seq(S)
      BY <2>5
    <3> HIDE DEF S
    <3>2. \A j \in DOMAIN f.chunkMap : f.chunkMap[j] \in S
      BY <3>1
    <3>3. m.chunks[i].chunk \in S
      BY <2>2, <3>2 DEF ToSet
    <3> QED
      BY <3>3 DEF S
  <2> QED
    BY <2>2, <2>4, <2>6
<1>5. h \in [1 .. count -> 1 .. count]
  BY <1>4
<1>6. \A i, j \in 1 .. count : h[i] = h[j] => i = j
  BY <1>2 DEF MatchOf
<1>7. \A c \in 1 .. count : \E i \in 1 .. count : h[i] = c
  <2> HIDE DEF h, count
  <2> QED
    BY <1>1, <1>5, <1>6, InjectionOnto
<1>8. {m.chunks[i].chunk : i \in DOMAIN m.chunks} = 1 .. count
  <2>1. \A i \in 1 .. count : m.chunks[i].chunk \in 1 .. count
    BY <1>4
  <2>2. \A c \in 1 .. count : \E i \in 1 .. count : m.chunks[i].chunk = c
    BY <1>7
  <2> HIDE DEF count
  <2> QED
    BY <1>2, <2>1, <2>2
<1> QED
  BY <1>1, <1>2, <1>4, <1>8

(* Whatever requests and replies are lost or delayed, a full match           *)
(* of a name that stands for one file (fileSearch.go:65-116) leads          *)
(* downloads to every chunk of the file.                                   *)
THEOREM FullMatchesServed == Spec => []FullMatchServed
<1>1. IInv => FullMatchServed
  <2> SUFFICES ASSUME IInv, NEW n \in Nodes, NEW name \in Names,
                      SearchResult[n][name] # None, OneFile(name)
               PROVE  LET m == SearchResult[n][name] IN
                      /\ Len(m.chunks) = m.chunkCount
                      /\ {m.chunks[i].chunk : i \in DOMAIN m.chunks} = 1 .. m.chunkCount
                      /\ \A i \in DOMAIN m.chunks : \E f \in Files[m.chunks[i].node] :
                           /\ f.name = name /\ f.meta = m.meta
                           /\ m.chunks[i].chunk \in ToSet(f.chunkMap)
    BY DEF FullMatchServed
  <2>1. MatchOf(name, SearchResult[n][name]) /\ IsFull(SearchResult[n][name])
    BY DEF IInv, MatchesOK
  <2> QED
    BY <2>1, FullMatch
<1> QED
  BY <1>1, Inductive, PTL

(* handleSearchReply (gossiper.go:632-665) never drops a reply for want of  *)
(* a route.                                                                *)
THEOREM RepliesFindWay == Spec => []ReplyFindsWay
<1>1. IInv => ReplyFindsWay
  BY DEF IInv
<1> QED
  BY <1>1, Inductive, PTL

(* gos.searchs (fileSearch.go:262-281, gossiper.go:634-641) holds exactly   *)
(* the channels of the searches that have not ended.                       *)
THEOREM ChannelsAreRead == Spec => []ChannelsRead
<1>1. IInv => ChannelsRead
  BY DEF IInv
<1> QED
  BY <1>1, Inductive, PTL

(* A step of a search puts less than its budget into the network            *)
(* (fileSearch.go:41-63), and every request handled takes more out of it    *)
(* than divideBudget (fileSearch.go:226-259) puts back, also when           *)
(* recentSearchs drops it as a duplicate: the flood of a search ends.      *)
THEOREM BudgetsAreSpent == Spec => BudgetSpent
<1>1. IInv /\ [Next]_vars =>
        (requests' # requests =>
          \/ BudgetIn(requests') < BudgetIn(requests)
          \/ \E s \in Searches :
               /\ phase'[s] # phase[s] \/ budget'[s] # budget[s]
               /\ BudgetIn(requests') < BudgetIn(requests) +
                    (IF Budget[s] = NoBudget THEN budget'[s] ELSE Budget[s]))
  <2> SUFFICES ASSUME IInv, [Next]_vars, requests' # requests
               PROVE  \/ BudgetIn(requests') < BudgetIn(requests)
                      \/ \E s \in Searches : Pays(s)
    BY DEF Pays
  <2>1. RequestBag(requests) /\ TypeOK
    BY DEF IInv, RequestsOK, TypeOK, RequestBag
  <2> QED
    BY <2>1, BudgetNext
<1> QED
  BY <1>1, Inductive, PTL DEF Spec, BudgetSpent
=============================================================================
