--------------------------- MODULE ConsensusProofs ---------------------------
(***************************************************************************)
(* Proofs about Consensus, for any nodes, files, fitness, -ackAll and any  *)
(* messages that reach a node.                                             *)
(***************************************************************************)
EXTENDS Consensus, SequenceTheorems, Induction

-----------------------------------------------------------------------------
(* Lists of messages. *)

(* The list with Confirmed of its i-th message set. *)
WithConf(list, i, c) == [list EXCEPT ![i].conf = c]

LEMMA ListGrows ==
  ASSUME NEW list, NEW P, NEW Q, P \subseteq Q, ListOK(list, P)
  PROVE  ListOK(list, Q)
BY DEF ListOK

LEMMA ListAppend ==
  ASSUME NEW list \in Seq(Listed), NEW P, ListOK(list, P),
         NEW e \in Listed, e.conf = 0,
         NEW p \in P, p.of = 0, p.id = e.id,
         (\A j \in DOMAIN list : list[j].id # e.id) => SameContent(p, e)
  PROVE  ListOK(Append(list, e), P)
<1> DEFINE new == Append(list, e)
<1>1. /\ DOMAIN new = 1 .. Len(list) + 1 /\ DOMAIN list = 1 .. Len(list)
      /\ Len(list) \in Nat
      /\ \A i \in DOMAIN list : new[i] = list[i]
      /\ new[Len(list) + 1] = e
  OBVIOUS
<1> HIDE DEF new
<1>2. ASSUME NEW i \in DOMAIN list
      PROVE  First(new, i) <=> First(list, i)
  BY <1>1, <1>2 DEF First
<1>3. First(new, Len(list) + 1) <=> \A j \in DOMAIN list : list[j].id # e.id
  BY <1>1 DEF First
<1>4. ASSUME NEW i \in DOMAIN new
      PROVE  /\ \E q \in P :
                  /\ q.of = 0 /\ q.id = new[i].id
                  /\ First(new, i) => SameContent(q, new[i])
             /\ new[i].conf # 0 =>
                  /\ new[i].conf = new[i].id
                  /\ First(new, i)
                  /\ \E q \in P : q.of = new[i].id
  <2>1. CASE i \in DOMAIN list
    BY <1>1, <1>2, <2>1 DEF ListOK
  <2>2. CASE i = Len(list) + 1
    BY <1>1, <1>3, <2>2
  <2> QED
    BY <1>1, <2>1, <2>2
<1>5. ListOK(new, P)
  BY <1>4 DEF ListOK
<1> QED
  BY <1>5 DEF new

LEMMA ListSet ==
  ASSUME NEW list \in Seq(Listed), NEW P, ListOK(list, P),
         NEW i \in DOMAIN list, First(list, i), NEW p \in P, p.of = list[i].id
  PROVE  ListOK(WithConf(list, i, list[i].id), P)
<1> DEFINE e == [list[i] EXCEPT !.conf = list[i].id]
           new == [list EXCEPT ![i] = e]
<1>1. list[i] \in Listed /\ \A j \in DOMAIN list : list[j] \in Listed
  OBVIOUS
<1>2. /\ e.id = list[i].id /\ e.conf = list[i].id
      /\ e.file = list[i].file /\ e.prev = list[i].prev
  BY <1>1 DEF Listed
<1> HIDE DEF e
<1>3. /\ DOMAIN new = DOMAIN list /\ new[i] = e
      /\ \A j \in DOMAIN list : j # i => new[j] = list[j]
  OBVIOUS
<1> HIDE DEF new
<1>4. \A j \in DOMAIN list : new[j].id = list[j].id
  BY <1>2, <1>3
<1>5. \A j \in DOMAIN list : First(new, j) <=> First(list, j)
  BY <1>3, <1>4 DEF First
<1>6. ListOK(new, P)
  <2> SUFFICES ASSUME NEW j \in DOMAIN list
               PROVE  /\ \E q \in P :
                           /\ q.of = 0 /\ q.id = new[j].id
                           /\ First(new, j) => SameContent(q, new[j])
                      /\ new[j].conf # 0 =>
                           /\ new[j].conf = new[j].id
                           /\ First(new, j)
                           /\ \E q \in P : q.of = new[j].id
    BY <1>3 DEF ListOK
  <2>1. CASE j # i
    BY <1>3, <1>5, <2>1 DEF ListOK
  <2>2. CASE j = i
    BY <1>2, <1>3, <1>5, <2>2 DEF ListOK, SameContent
  <2> QED
    BY <2>1, <2>2
<1> QED
  BY <1>6 DEF new, e, WithConf

LEMMA HasAppend ==
  ASSUME NEW list \in Seq(Listed), NEW e, NEW p, Has(list, p)
  PROVE  Has(Append(list, e), p)
<1>1. PICK i \in DOMAIN list : list[i].id = p.id /\ SameContent(list[i], p)
  BY DEF Has, ToSet
<1>2. i \in DOMAIN Append(list, e) /\ Append(list, e)[i] = list[i]
  OBVIOUS
<1> QED
  BY <1>1, <1>2 DEF Has, ToSet

LEMMA HasSet ==
  ASSUME NEW list \in Seq(Listed), NEW i \in DOMAIN list, NEW c, NEW p, Has(list, p)
  PROVE  Has(WithConf(list, i, c), p)
<1> DEFINE new == [list EXCEPT ![i].conf = c]
<1>1. PICK j \in DOMAIN list : list[j].id = p.id /\ SameContent(list[j], p)
  BY DEF Has, ToSet
<1>2. list[j] \in Listed /\ list[i] \in Listed
  OBVIOUS
<1>3. /\ j \in DOMAIN new /\ new[j].id = list[j].id
      /\ new[j].file = list[j].file /\ new[j].prev = list[j].prev
  <2>1. CASE j = i
    BY <1>2, <2>1 DEF Listed
  <2>2. CASE j # i
    BY <2>2
  <2> QED
    BY <2>1, <2>2
<1> HIDE DEF new
<1>4. Has(new, p)
  BY <1>1, <1>3 DEF Has, ToSet, SameContent
<1> QED
  BY <1>4 DEF new, WithConf

(* The position the code finds is that of the first match. *)
LEMMA MinLeast ==
  ASSUME NEW I \in SUBSET Nat, I # {}
  PROVE  Min(I) \in I /\ \A k \in I : Min(I) <= k
<1>1. \E m \in I : \A k \in I : m <= k
  BY LeastElement
<1> QED
  BY <1>1 DEF Min

LEMMA PositionFirst ==
  ASSUME NEW n, NEW o, NEW msg, tlcMessages[n][o] \in Seq(Listed)
  PROVE  LET list == tlcMessages[n][o]
             i == Position(n, o, msg)
         IN  \/ i = 0 /\ \A j \in DOMAIN list : list[j].id # msg.id /\ list[j].id # msg.of
             \/ /\ i \in DOMAIN list /\ i # 0
                /\ list[i].id = msg.id \/ list[i].id = msg.of
                /\ \A j \in DOMAIN list :
                     j < i => list[j].id # msg.id /\ list[j].id # msg.of
<1> DEFINE list == tlcMessages[n][o]
           I == {j \in 1 .. Len(list) : list[j].id = msg.id \/ list[j].id = msg.of}
<1>1. Position(n, o, msg) = IF I # {} THEN Min(I) ELSE 0
  BY DEF Position, SelectInSeq
<1>2. DOMAIN list = 1 .. Len(list) /\ Len(list) \in Nat
  OBVIOUS
<1>3. I \in SUBSET Nat /\ \A j \in I : j \in DOMAIN list
  BY <1>2
<1>4. \A j \in DOMAIN list : j \in I <=> list[j].id = msg.id \/ list[j].id = msg.of
  BY <1>2
<1> HIDE DEF I
<1>5. CASE I = {}
  BY <1>1, <1>4, <1>5
<1>6. CASE I # {}
  <2>1. PICK v \in I : v = Min(I) /\ \A k \in I : v <= k
    BY <1>3, <1>6, MinLeast
  <2>2. v \in DOMAIN list
    BY <1>3
  <2>3. v # 0 /\ v \in Nat
    BY <1>2, <2>2
  <2>4. \A j \in DOMAIN list : j < v => j \notin I
    BY <1>3, <2>1, <2>3
  <2> QED
    BY <1>1, <1>4, <1>6, <2>1, <2>2, <2>3, <2>4
<1> QED
  BY <1>5, <1>6

LEMMA SetConfirmedFirst ==
  ASSUME NEW n, NEW o, NEW id, tlcMessages[n][o] \in Seq(Listed), SetConfirmed(n, o, id)
  PROVE  \/ UNCHANGED tlcMessages
         \/ \E i \in DOMAIN tlcMessages[n][o] :
              /\ tlcMessages[n][o][i].id = id
              /\ First(tlcMessages[n][o], i)
              /\ tlcMessages' = [tlcMessages EXCEPT ![n][o] =
                   WithConf(tlcMessages[n][o], i, id)]
<1> DEFINE list == tlcMessages[n][o]
           I == {j \in 1 .. Len(list) : list[j].id = id}
           i == IF I # {} THEN Min(I) ELSE 0
<1>1. tlcMessages' = IF i = 0 THEN tlcMessages
                     ELSE [tlcMessages EXCEPT ![n][o][i].conf = id]
  BY DEF SetConfirmed, SelectInSeq
<1>2. DOMAIN list = 1 .. Len(list) /\ Len(list) \in Nat
  OBVIOUS
<1>3. I \in SUBSET Nat /\ \A j \in I : j \in DOMAIN list
  BY <1>2
<1>4. \A j \in DOMAIN list : j \in I <=> list[j].id = id
  BY <1>2
<1> HIDE DEF I
<1>5. CASE I = {}
  BY <1>1, <1>5
<1>6. CASE I # {}
  <2>1. PICK v \in I : v = i /\ \A k \in I : v <= k
    BY <1>3, <1>6, MinLeast
  <2>2. v \in DOMAIN list
    BY <1>3
  <2>3. v # 0 /\ v \in Nat
    BY <1>2, <2>2
  <2>4. \A j \in DOMAIN list : j < v => j \notin I
    BY <1>3, <2>1, <2>3
  <2>5. list[v].id = id /\ First(list, v)
    BY <1>4, <2>1, <2>2, <2>4 DEF First
  <2>6. tlcMessages' = [tlcMessages EXCEPT ![n][o] = WithConf(tlcMessages[n][o], v, id)]
    BY <1>1, <2>1, <2>3 DEF WithConf
  <2> QED
    BY <2>2, <2>5, <2>6
<1> QED
  BY <1>5, <1>6

(* A set of nodes that contains a majority is one. *)
LEMMA LargerMajority ==
  ASSUME NEW T \in SUBSET Nodes, NEW S \in SUBSET T, Majority(Cardinality(S))
  PROVE  Majority(Cardinality(T))
<1>1. IsFiniteSet(Nodes) /\ IsFiniteSet(T) /\ IsFiniteSet(S)
  BY ConsensusAssumption, FS_Subset DEF ConsensusAssumption
<1>2. Cardinality(S) \in Nat /\ Cardinality(T) \in Nat /\ N \in Nat
  BY <1>1, FS_CardinalityType DEF N
<1>3. Cardinality(S) <= Cardinality(T)
  BY <1>1, FS_Subset
<1> HIDE DEF N
<1> QED
  BY <1>2, <1>3 DEF Majority

(* A majority of nodes that have a message stays one. *)
LEMMA MajorityKept ==
  ASSUME NEW o, NEW p, NEW L, NEW M,
         \A m \in Nodes : Has(L[m][o], p) => Has(M[m][o], p),
         Majority(Cardinality({m \in Nodes : m = o \/ Has(L[m][o], p)}))
  PROVE  Majority(Cardinality({m \in Nodes : m = o \/ Has(M[m][o], p)}))
<1> DEFINE S == {m \in Nodes : m = o \/ Has(L[m][o], p)}
           T == {m \in Nodes : m = o \/ Has(M[m][o], p)}
<1>1. T \in SUBSET Nodes /\ S \in SUBSET T
  OBVIOUS
<1> HIDE DEF S, T
<1>2. Majority(Cardinality(S)) => Majority(Cardinality(T))
  BY <1>1, LargerMajority
<1> QED
  BY <1>2 DEF S, T

-----------------------------------------------------------------------------
(* Type correctness, by the groups of variables. *)

MsgType ==
  /\ nextID \in [Nodes -> Nat]
  /\ published \in [Nodes -> SUBSET Messages]
ListedType == tlcMessages \in [Nodes -> [Nodes -> Seq(Listed)]]
EarlyType  == early \in [Nodes -> [Nodes -> SUBSET IDs]]
AckedType  == acked \subseteq [from : Nodes, to : Nodes, id : IDs]
TimeType ==
  /\ myTime \in [Nodes -> Nat]
  /\ lenGossipConf \in [Nodes -> [Callers -> Nat]]
BlocksType == blocks \in [Nodes -> Seq(Blocks) \ {<< >>}]
ConfType ==
  /\ gossipWithConf \in [Nodes -> Seq(GossipWithConf)]
  /\ notifying \in [Nodes -> Nat]
  /\ \A n \in Nodes : notifying[n] # 0 =>
       /\ notifying[n] \in DOMAIN gossipWithConf[n]
       /\ gossipWithConf[n][notifying[n]].file # None
HaltType ==
  /\ halted \in [Nodes -> SUBSET Contents]
  /\ released \in [Nodes -> SUBSET Contents]
  /\ leaving \in [Nodes -> SUBSET Files]
ChanType ==
  /\ tlcAcks \in [Nodes -> [IDs -> {"none", "open", "closed"}]]
  /\ acks \in [Nodes -> [IDs -> SUBSET Nodes]]
  /\ inbox \in [Nodes -> [IDs -> SUBSET Nodes]]
StageType == stage \in [Nodes -> [Callers -> Stages]]
FilesType == files \in [Nodes -> Nat]

LEMMA TypeParts ==
  TypeOK <=> /\ MsgType /\ ListedType /\ EarlyType /\ AckedType /\ TimeType /\ BlocksType
             /\ ConfType /\ HaltType /\ ChanType /\ StageType /\ FilesType
BY DEF TypeOK, MsgType, ListedType, EarlyType, AckedType, TimeType, BlocksType, ConfType,
       HaltType, ChanType, StageType, FilesType

LEMMA TypePartsNext ==
  TypeOK' <=> /\ MsgType' /\ ListedType' /\ EarlyType' /\ AckedType' /\ TimeType'
              /\ BlocksType' /\ ConfType' /\ HaltType' /\ ChanType' /\ StageType'
              /\ FilesType'
BY DEF TypeOK, MsgType, ListedType, EarlyType, AckedType, TimeType, BlocksType, ConfType,
       HaltType, ChanType, StageType, FilesType

LEMMA SameTypes ==
  ASSUME TypeOK
  PROVE  /\ UNCHANGED <<nextID, published>> => MsgType'
         /\ UNCHANGED tlcMessages => ListedType'
         /\ UNCHANGED early => EarlyType'
         /\ UNCHANGED acked => AckedType'
         /\ UNCHANGED <<myTime, lenGossipConf>> => TimeType'
         /\ UNCHANGED blocks => BlocksType'
         /\ UNCHANGED <<gossipWithConf, notifying>> => ConfType'
         /\ UNCHANGED <<halted, released, leaving>> => HaltType'
         /\ UNCHANGED <<tlcAcks, acks, inbox>> => ChanType'
         /\ UNCHANGED stage => StageType'
         /\ UNCHANGED files => FilesType'
<1>1. /\ MsgType /\ ListedType /\ EarlyType /\ AckedType /\ TimeType /\ BlocksType
      /\ ConfType /\ HaltType /\ ChanType /\ StageType /\ FilesType
  BY TypeParts
<1>2. UNCHANGED <<nextID, published>> => MsgType'
  BY <1>1 DEF MsgType
<1>3. /\ UNCHANGED tlcMessages => ListedType'
      /\ UNCHANGED early => EarlyType'
      /\ UNCHANGED acked => AckedType'
      /\ UNCHANGED <<myTime, lenGossipConf>> => TimeType'
      /\ UNCHANGED blocks => BlocksType'
  BY <1>1 DEF ListedType, EarlyType, AckedType, TimeType, BlocksType
<1>4. UNCHANGED <<gossipWithConf, notifying>> => ConfType'
  BY <1>1 DEF ConfType
<1>5. UNCHANGED <<halted, released, leaving>> => HaltType'
  BY <1>1 DEF HaltType
<1>6. UNCHANGED <<tlcAcks, acks, inbox>> => ChanType'
  BY <1>1 DEF ChanType
<1>7. UNCHANGED stage => StageType'
  BY <1>1 DEF StageType
<1>8. UNCHANGED files => FilesType'
  BY <1>1 DEF FilesType
<1> QED
  BY <1>2, <1>3, <1>4, <1>5, <1>6, <1>7, <1>8

(* Values of the two-level functions. *)
LEMMA Updated ==
  ASSUME NEW D, NEW E, NEW S, NEW f \in [D -> [E -> S]], NEW d \in D, NEW e, NEW v,
         e \in E => v \in S
  PROVE  [f EXCEPT ![d][e] = v] \in [D -> [E -> S]]
<1>1. [f[d] EXCEPT ![e] = v] \in [E -> S]
  OBVIOUS
<1> QED
  BY <1>1

LEMMA TypeInit == Init => TypeOK
<1> SUFFICES ASSUME Init PROVE TypeOK
  OBVIOUS
<1>1. /\ MsgType /\ EarlyType /\ AckedType /\ TimeType /\ HaltType /\ ChanType /\ FilesType
  BY DEF Init, MsgType, EarlyType, AckedType, TimeType, HaltType, ChanType, FilesType
<1>2. ListedType
  BY DEF Init, ListedType
<1>3. BlocksType
  <2>1. <<Empty>> \in Seq(Blocks) \ {<< >>}
    BY DEF Blocks
  <2> QED
    BY <2>1 DEF Init, BlocksType
<1>4. ConfType
  BY DEF Init, ConfType
<1>5. StageType
  BY DEF Init, StageType, Stages
<1> QED
  BY <1>1, <1>2, <1>3, <1>4, <1>5, TypeParts

LEMMA StageSet ==
  ASSUME TypeOK, NEW n \in Nodes, NEW k \in Callers
  PROVE  /\ After(k) \in Stages
         /\ \A v \in Stages :
              [stage EXCEPT ![n][k] = v] \in [Nodes -> [Callers -> Stages]]
<1>1. After(k) \in Stages
  BY DEF After, Stages
<1>2. stage \in [Nodes -> [Callers -> Stages]]
  BY TypeParts DEF StageType
<1> QED
  BY <1>1, <1>2, Updated

LEMMA HashType ==
  ASSUME NEW b \in Blocks
  PROVE  Hash(b) \in Seq(Files)
<1>1. CASE b = Empty
  BY <1>1 DEF Empty, Hash
<1>2. CASE b \in [origin : Nodes, id : IDs, file : Files, prev : Seq(Files)]
  <2>1. b.prev \in Seq(Files) /\ b.file \in Files
    BY <1>2
  <2> QED
    BY <2>1 DEF Hash
<1> QED
  BY <1>1, <1>2 DEF Blocks

LEMMA ContentType ==
  ASSUME TypeOK, NEW n \in Nodes, files[n] < MaxFiles[n]
  PROVE  NewContent(n) \in Contents
<1>1. blocks[n] \in Seq(Blocks) /\ blocks[n] # << >>
  BY TypeParts DEF BlocksType
<1>2. Last(blocks[n]) \in Blocks
  BY <1>1 DEF Last
<1>3. Hash(Last(blocks[n])) \in Seq(Files)
  BY <1>2, HashType
<1>4. <<n, files[n] + 1>> \in Files
  <2>1. files[n] \in Nat /\ MaxFiles[n] \in Nat
    BY TypeParts, ConsensusAssumption DEF FilesType, ConsensusAssumption
  <2>2. files[n] + 1 \in 1 .. MaxFiles[n]
    BY <2>1
  <2> QED
    BY <2>2 DEF Files
<1> QED
  BY <1>3, <1>4 DEF NewContent, Contents

(* What is published and listed when a message with that content is. *)
LEMMA PublishType ==
  ASSUME TypeOK, NEW n \in Nodes, NEW c, c.file \in Files, c.prev \in Seq(Files),
         NEW stored \in IDs, PublishTLC(n, c, stored), UNCHANGED inbox
  PROVE  MsgType' /\ ListedType' /\ ChanType'
<1>1. MsgType /\ ListedType /\ ChanType
  BY TypeParts
<1>2. nextID[n] \in IDs /\ nextID[n] \in Nat
  BY <1>1 DEF PublishTLC, MsgType
<1> DEFINE p == [id |-> nextID[n], of |-> 0, file |-> c.file, prev |-> c.prev]
           e == [id |-> stored, conf |-> 0, file |-> c.file, prev |-> c.prev]
<1>3. /\ nextID' = [nextID EXCEPT ![n] = nextID[n] + 1]
      /\ published' = [published EXCEPT ![n] = published[n] \cup {p}]
      /\ tlcMessages' = [tlcMessages EXCEPT ![n][n] = Append(tlcMessages[n][n], e)]
      /\ tlcAcks' = [tlcAcks EXCEPT ![n][nextID[n]] = "open"]
      /\ acks' = [acks EXCEPT ![n][nextID[n]] = {n}]
  BY DEF PublishTLC
<1>4. p \in Messages
  BY <1>2 DEF Messages
<1>5. e \in Listed
  BY DEF Listed
<1> HIDE DEF p, e
<1>6. MsgType'
  BY <1>1, <1>2, <1>3, <1>4 DEF MsgType
<1>7. Append(tlcMessages[n][n], e) \in Seq(Listed)
  BY <1>1, <1>5 DEF ListedType
<1>8. ListedType'
  BY <1>1, <1>3, <1>7, Updated DEF ListedType
<1>9. ChanType'
  BY <1>1, <1>2, <1>3, Updated DEF ChanType
<1> QED
  BY <1>6, <1>8, <1>9

(* A new entry of gossipWithConf, and the mutex that covers it. *)
LEMMA ConfAppend ==
  ASSUME TypeOK, NEW n \in Nodes, NEW e \in GossipWithConf, notifying[n] = 0,
         gossipWithConf' = [gossipWithConf EXCEPT ![n] = Append(gossipWithConf[n], e)],
         UNCHANGED notifying
  PROVE  ConfType'
<1>1. ConfType
  BY TypeParts
<1>2. Append(gossipWithConf[n], e) \in Seq(GossipWithConf)
  BY <1>1 DEF ConfType
<1> QED
  BY <1>1, <1>2 DEF ConfType

LEMMA TypeListNow ==
  ASSUME TypeOK, NEW n \in Nodes, ListFileNow(n)
  PROVE  TypeOK'
<1> DEFINE e == [round |-> myTime[n], file |-> None]
<1>1. /\ files[n] < MaxFiles[n]
      /\ files' = [files EXCEPT ![n] = @ + 1]
      /\ PublishTLC(n, NewContent(n), nextID[n])
      /\ notifying[n] = 0
      /\ gossipWithConf' = [gossipWithConf EXCEPT ![n] = Append(gossipWithConf[n], e)]
      /\ stage' = [stage EXCEPT ![n][Client] = "check"]
      /\ UNCHANGED <<early, acked, myTime, lenGossipConf, blocks, halted, released, leaving,
                     notifying, inbox>>
  BY DEF ListFileNow, Lists, ConfMutexFree
<1>2. NewContent(n).file \in Files /\ NewContent(n).prev \in Seq(Files)
  BY <1>1, ContentType DEF Contents
<1>3. nextID[n] \in IDs
  BY <1>1 DEF PublishTLC
<1>4. MsgType' /\ ListedType' /\ ChanType'
  BY <1>1, <1>2, <1>3, PublishType
<1>5. e \in GossipWithConf
  BY TypeParts DEF TimeType, GossipWithConf
<1> HIDE DEF e
<1>6. ConfType'
  BY <1>1, <1>5, ConfAppend
<1>7. StageType'
  BY <1>1, StageSet DEF StageType, Callers, Stages
<1>8. FilesType'
  BY <1>1, TypeParts DEF FilesType
<1> QED
  BY <1>1, <1>4, <1>6, <1>7, <1>8, SameTypes, TypePartsNext

LEMMA TypeListLater ==
  ASSUME TypeOK, NEW n \in Nodes, ListFileLater(n)
  PROVE  TypeOK'
<1> DEFINE e == [round |-> Len(gossipWithConf[n]), file |-> NewContent(n).file]
<1>1. /\ files[n] < MaxFiles[n]
      /\ files' = [files EXCEPT ![n] = @ + 1]
      /\ notifying[n] = 0
      /\ halted' = [halted EXCEPT ![n] = @ \cup {NewContent(n)}]
      /\ gossipWithConf' = [gossipWithConf EXCEPT ![n] = Append(gossipWithConf[n], e)]
      /\ UNCHANGED <<nextID, published, tlcMessages, early, acked, myTime, lenGossipConf,
                     blocks, released, leaving, notifying, tlcAcks, acks, inbox, stage>>
  BY DEF ListFileLater, Lists, ConfMutexFree, messages, ackVars
<1>2. NewContent(n) \in Contents
  BY <1>1, ContentType
<1>3. HaltType'
  BY <1>1, <1>2, TypeParts DEF HaltType
<1>4. e \in GossipWithConf
  <2>1. NewContent(n).file \in Files
    BY <1>2 DEF Contents
  <2>2. Len(gossipWithConf[n]) \in Nat
    BY TypeParts DEF ConfType
  <2> QED
    BY <2>1, <2>2 DEF GossipWithConf
<1> HIDE DEF e
<1>5. ConfType'
  BY <1>1, <1>4, ConfAppend
<1>6. FilesType'
  BY <1>1, TypeParts DEF FilesType
<1> QED
  BY <1>1, <1>3, <1>5, <1>6, SameTypes, TypePartsNext

LEMMA TypeReleased ==
  ASSUME TypeOK, NEW n \in Nodes, PublishReleased(n)
  PROVE  TypeOK'
<1>1. PICK c \in released[n] :
        /\ PublishTLC(n, c, nextID[n])
        /\ released' = [released EXCEPT ![n] = @ \ {c}]
        /\ leaving' = [leaving EXCEPT ![n] = @ \cup {c.file}]
        /\ UNCHANGED <<early, acked, myTime, lenGossipConf, blocks, gossipWithConf, halted,
                       notifying, inbox, stage, files>>
  BY DEF PublishReleased
<1>2. HaltType /\ c \in Contents
  BY TypeParts DEF HaltType
<1>3. c.file \in Files /\ c.prev \in Seq(Files)
  BY <1>2 DEF Contents
<1>4. nextID[n] \in IDs
  BY <1>1 DEF PublishTLC
<1>5. MsgType' /\ ListedType' /\ ChanType'
  BY <1>1, <1>3, <1>4, PublishType
<1>6. HaltType'
  BY <1>1, <1>2, <1>3 DEF HaltType
<1> QED
  BY <1>1, <1>5, <1>6, SameTypes, TypePartsNext

LEMMA WithoutEntryType ==
  ASSUME NEW list \in Seq(GossipWithConf), NEW f
  PROVE  WithoutEntry(list, f) \in Seq(GossipWithConf)
<1> DEFINE places == {k \in DOMAIN list : list[k].file = f}
           i == Max(places)
<1>1. DOMAIN list = 1 .. Len(list) /\ Len(list) \in Nat
  OBVIOUS
<1>2. places \in SUBSET Nat /\ IsFiniteSet(places)
  <2>1. IsFiniteSet(1 .. Len(list))
    BY <1>1, FS_Interval
  <2>2. places \subseteq 1 .. Len(list) /\ places \in SUBSET Nat
    BY <1>1
  <2> HIDE DEF places
  <2> QED
    BY <2>1, <2>2, FS_Subset
<1>3. places # {} => Max(places) \in places
  <2> HIDE DEF places
  <2>1. places # {} => \E m \in places : \A k \in places : k <= m
    BY <1>2, LargestElement
  <2>2. places # {} => \E m \in places : \A k \in places : m >= k
    BY <1>2, <2>1
  <2> QED
    BY <2>2 DEF Max
<1>4. CASE places = {}
  BY <1>4 DEF WithoutEntry
<1>5. CASE places # {}
  <2>1. i \in 1 .. Len(list)
    BY <1>1, <1>3, <1>5
  <2>2. WithoutEntry(list, f) = SubSeq(list, 1, i - 1) \o SubSeq(list, i + 1, Len(list))
    BY <1>5 DEF WithoutEntry
  <2> HIDE DEF i
  <2>3. /\ SubSeq(list, 1, i - 1) \in Seq(GossipWithConf)
        /\ SubSeq(list, i + 1, Len(list)) \in Seq(GossipWithConf)
    BY <1>1, <2>1
  <2> QED
    BY <2>2, <2>3
<1> QED
  BY <1>4, <1>5

LEMMA TypeRemoveEntry ==
  ASSUME TypeOK, NEW n \in Nodes, RemoveEntry(n)
  PROVE  TypeOK'
<1>1. PICK f \in leaving[n] :
        /\ notifying[n] = 0
        /\ leaving' = [leaving EXCEPT ![n] = @ \ {f}]
        /\ gossipWithConf' = [gossipWithConf EXCEPT ![n] = WithoutEntry(gossipWithConf[n], f)]
        /\ UNCHANGED <<nextID, published, tlcMessages, early, acked, myTime, lenGossipConf,
                       blocks, halted, released, notifying, tlcAcks, acks, inbox, stage,
                       files>>
  BY DEF RemoveEntry, ConfMutexFree, messages, ackVars
<1>2. HaltType'
  BY <1>1, TypeParts DEF HaltType
<1>3. ConfType
  BY TypeParts
<1>4. WithoutEntry(gossipWithConf[n], f) \in Seq(GossipWithConf)
  BY <1>3, WithoutEntryType DEF ConfType
<1>5. ConfType'
  BY <1>1, <1>3, <1>4 DEF ConfType
<1> QED
  BY <1>1, <1>2, <1>5, SameTypes, TypePartsNext

LEMMA TypeCheck ==
  ASSUME TypeOK, NEW n \in Nodes, NEW k \in Callers,
         CountWitnesses(n, k) \/ ReadLength(n, k) \/ CheckRound(n, k)
  PROVE  TypeOK'
<1>1. PICK v : /\ v \in {"counted", "short", "measured", "passed", After(k)}
               /\ stage' = [stage EXCEPT ![n][k] = v]
  BY DEF CountWitnesses, ReadLength, CheckRound
<1>2. UNCHANGED <<nextID, published, tlcMessages, early, acked, myTime, gossipWithConf,
                  halted, released, leaving, notifying, blocks, tlcAcks, acks, inbox, files>>
  BY DEF CountWitnesses, ReadLength, CheckRound, messages, roundVars, ackVars
<1>3. v \in Stages
  BY <1>1, StageSet DEF Stages
<1>4. StageType'
  BY <1>1, <1>3, StageSet DEF StageType
<1>5. PICK len \in Nat : \/ UNCHANGED lenGossipConf
                        \/ lenGossipConf' = [lenGossipConf EXCEPT ![n][k] = len]
  <2>1. Len(gossipWithConf[n]) \in Nat
    BY TypeParts DEF ConfType
  <2> QED
    BY <2>1 DEF CountWitnesses, ReadLength, CheckRound, roundVars
<1>6. TimeType'
  <2>1. TimeType
    BY TypeParts
  <2>2. lenGossipConf \in [Nodes -> [Callers -> Nat]]
    BY <2>1 DEF TimeType
  <2>3. [lenGossipConf EXCEPT ![n][k] = len] \in [Nodes -> [Callers -> Nat]]
    BY <2>2, Updated
  <2>4. lenGossipConf' \in [Nodes -> [Callers -> Nat]]
    BY <1>5, <2>2, <2>3
  <2> QED
    BY <1>2, <2>1, <2>4 DEF TimeType
<1> QED
  BY <1>2, <1>4, <1>6, SameTypes, TypePartsNext

LEMMA TypeAdd ==
  ASSUME TypeOK, NEW n \in Nodes, NEW k \in Callers, AddRound(n, k)
  PROVE  TypeOK'
<1> DEFINE T == {"none", "open", "closed"}
           g == [id \in IDs |-> IF tlcAcks[n][id] = "open" THEN "closed" ELSE tlcAcks[n][id]]
<1>1. /\ myTime' = [myTime EXCEPT ![n] = @ + 1]
      /\ tlcAcks' = [tlcAcks EXCEPT ![n] = g]
      /\ stage' = [stage EXCEPT ![n][k] = "added"]
      /\ UNCHANGED <<nextID, published, tlcMessages, early, acked, blocks, gossipWithConf,
                     lenGossipConf, halted, released, leaving, notifying, acks, inbox, files>>
  BY DEF AddRound, messages
<1>2. tlcAcks \in [Nodes -> [IDs -> T]] /\ "closed" \in T
  BY TypeParts DEF ChanType
<1> HIDE DEF T
<1>3. g \in [IDs -> T]
  BY <1>2
<1> HIDE DEF g
<1>4. tlcAcks' \in [Nodes -> [IDs -> T]]
  BY <1>1, <1>2, <1>3
<1>5. ChanType'
  BY <1>1, <1>4, TypeParts DEF T, ChanType
<1>6. TimeType'
  BY <1>1, TypeParts DEF TimeType
<1>7. StageType'
  BY <1>1, StageSet DEF StageType, Stages
<1> QED
  BY <1>1, <1>5, <1>6, <1>7, SameTypes, TypePartsNext

LEMMA FittestType ==
  ASSUME TypeOK, NEW n \in Nodes, NEW b \in Fittest(n)
  PROVE  /\ b \in Blocks
         /\ b # Empty => b \in ConfirmedNow(n)
<1>1. b = Empty \/ b \in ConfirmedNow(n)
  BY DEF Fittest
<1>2. CASE b \in ConfirmedNow(n)
  <2>1. PICK o \in Nodes : \E m \in ToSet(tlcMessages[n][o]) :
          b = [origin |-> o, id |-> m.id, file |-> m.file, prev |-> m.prev]
    BY <1>2 DEF ConfirmedNow
  <2> PICK m \in ToSet(tlcMessages[n][o]) :
        b = [origin |-> o, id |-> m.id, file |-> m.file, prev |-> m.prev]
    BY <2>1
  <2>2. m \in Listed
    BY TypeParts DEF ListedType, ToSet
  <2> QED
    BY <1>2, <2>1, <2>2 DEF Blocks, Listed
<1> QED
  BY <1>1, <1>2 DEF Blocks

LEMMA TypeBlock ==
  ASSUME TypeOK, NEW n \in Nodes, NEW k \in Callers, AppendBlock(n, k)
  PROVE  TypeOK'
<1>1. PICK b \in Fittest(n) : blocks' = [blocks EXCEPT ![n] = Append(blocks[n], b)]
  BY DEF AppendBlock
<1>2. /\ stage' = [stage EXCEPT ![n][k] = "notify"]
      /\ UNCHANGED <<nextID, published, tlcMessages, early, acked, myTime, lenGossipConf,
                     gossipWithConf, halted, released, leaving, notifying, tlcAcks, acks,
                     inbox, files>>
  BY DEF AppendBlock, messages, roundVars, ackVars
<1>3. b \in Blocks /\ BlocksType
  BY FittestType, TypeParts
<1>4. Append(blocks[n], b) \in Seq(Blocks) \ {<< >>}
  BY <1>3 DEF BlocksType
<1>5. BlocksType'
  BY <1>1, <1>3, <1>4 DEF BlocksType
<1>6. StageType'
  BY <1>2, StageSet DEF StageType, Stages
<1> QED
  BY <1>2, <1>5, <1>6, SameTypes, TypePartsNext

LEMMA TypePublishFittest ==
  ASSUME TypeOK, NEW n \in Nodes, NEW k \in Callers, PublishFittest(n, k)
  PROVE  TypeOK'
<1> DEFINE e == [round |-> myTime[n], file |-> None]
<1>1. /\ notifying[n] = 0
      /\ stage' = [stage EXCEPT ![n][k] = "notify"]
      /\ UNCHANGED <<early, acked, blocks, myTime, lenGossipConf, halted, released, leaving,
                     notifying, inbox, files>>
  BY DEF PublishFittest, ConfMutexFree
<1>2. StageType'
  BY <1>1, StageSet DEF StageType, Stages
<1>3. PICK b \in Fittest(n) :
        \/ /\ b # Empty
           /\ PublishTLC(n, [file |-> b.file, prev |-> Hash(b)], b.id)
           /\ gossipWithConf' = [gossipWithConf EXCEPT ![n] = Append(gossipWithConf[n], e)]
        \/ UNCHANGED <<messages, gossipWithConf, tlcAcks, acks>>
  BY DEF PublishFittest
<1>4. CASE UNCHANGED <<messages, gossipWithConf, tlcAcks, acks>>
  BY <1>1, <1>2, <1>4, SameTypes, TypePartsNext DEF messages
<1>5. CASE /\ b # Empty
           /\ PublishTLC(n, [file |-> b.file, prev |-> Hash(b)], b.id)
           /\ gossipWithConf' = [gossipWithConf EXCEPT ![n] = Append(gossipWithConf[n], e)]
  <2>1. b \in Blocks /\ Hash(b) \in Seq(Files)
    BY FittestType, HashType
  <2>2. b.file \in Files /\ b.id \in IDs
    BY <1>5, <2>1 DEF Blocks
  <2> DEFINE c == [file |-> b.file, prev |-> Hash(b)]
  <2>3. c.file \in Files /\ c.prev \in Seq(Files) /\ PublishTLC(n, c, b.id)
    BY <1>5, <2>1, <2>2
  <2> HIDE DEF c
  <2>4. MsgType' /\ ListedType' /\ ChanType'
    BY <1>1, <2>2, <2>3, PublishType
  <2>5. e \in GossipWithConf
    BY TypeParts DEF TimeType, GossipWithConf
  <2> HIDE DEF e
  <2>6. ConfType'
    BY <1>1, <1>5, <2>5, ConfAppend
  <2> QED
    BY <1>1, <1>2, <2>4, <2>6, SameTypes, TypePartsNext
<1> QED
  BY <1>3, <1>4, <1>5

(* Where the number of the consensus is sent to next, from the i-th entry on. *)
LEMMA NotifyType ==
  ASSUME TypeOK, NEW n \in Nodes, NEW i \in Nat,
         notifying' = [notifying EXCEPT ![n] = NextHalted(n, i)],
         UNCHANGED gossipWithConf
  PROVE  ConfType'
<1> DEFINE list == gossipWithConf[n]
           later == {j \in DOMAIN list : i < j /\ list[j].file # None}
           next == NextHalted(n, i)
<1>1. next = IF later = {} THEN 0 ELSE Min(later)
  BY DEF NextHalted
<1>2. ConfType /\ list \in Seq(GossipWithConf)
  BY TypeParts DEF ConfType
<1>3. later \in SUBSET Nat
  BY <1>2
<1>4. later # {} => Min(later) \in later
  <2> HIDE DEF later
  <2> QED
    BY <1>3, MinLeast
<1>5. /\ next \in Nat
      /\ next # 0 => next \in DOMAIN gossipWithConf[n] /\ gossipWithConf[n][next].file # None
  <2> HIDE DEF next
  <2>1. CASE later = {}
    BY <1>1, <2>1
  <2>2. CASE later # {}
    <3>1. next \in later
      BY <1>1, <1>4, <2>2
    <3> QED
      BY <1>3, <3>1
  <2> QED
    BY <2>1, <2>2
<1>6. notifying' = [notifying EXCEPT ![n] = next]
  OBVIOUS
<1> HIDE DEF next
<1> QED
  BY <1>2, <1>5, <1>6 DEF ConfType

LEMMA TypeStart ==
  ASSUME TypeOK, NEW n \in Nodes, NEW k \in Callers, StartNotifying(n, k)
  PROVE  TypeOK'
<1>1. UNCHANGED <<nextID, published, tlcMessages, early, acked, blocks, myTime, lenGossipConf,
                  gossipWithConf, halted, released, leaving, tlcAcks, acks, inbox, files>>
  BY DEF StartNotifying, messages, ackVars
<1>2. CASE stage' = [stage EXCEPT ![n][k] = After(k)] /\ UNCHANGED notifying
  <2>1. StageType'
    BY <1>2, StageSet DEF StageType
  <2> QED
    BY <1>1, <1>2, <2>1, SameTypes, TypePartsNext
<1>3. CASE /\ notifying' = [notifying EXCEPT ![n] = NextHalted(n, 0)]
           /\ stage' = [stage EXCEPT ![n][k] =
                IF notifying'[n] = 0 THEN After(k) ELSE "notifying"]
  <2>1. ConfType'
    BY <1>1, <1>3, NotifyType
  <2>2. PICK v : v \in Stages /\ stage' = [stage EXCEPT ![n][k] = v]
    BY <1>3, StageSet DEF Stages
  <2>3. StageType'
    BY <2>2, StageSet DEF StageType
  <2> QED
    BY <1>1, <2>1, <2>3, SameTypes, TypePartsNext
<1> QED
  BY <1>2, <1>3 DEF StartNotifying

LEMMA TypeNotify ==
  ASSUME TypeOK, NEW n \in Nodes, NEW k \in Callers, NotifyHalted(n, k)
  PROVE  TypeOK'
<1>1. /\ notifying' = [notifying EXCEPT ![n] = NextHalted(n, notifying[n])]
      /\ stage' = [stage EXCEPT ![n][k] = IF notifying'[n] = 0 THEN After(k) ELSE @]
      /\ UNCHANGED <<nextID, published, tlcMessages, early, acked, blocks, myTime,
                     lenGossipConf, gossipWithConf, leaving, tlcAcks, acks, inbox, files>>
  BY DEF NotifyHalted, messages, ackVars
<1>2. PICK c \in halted[n] : \E now \in SUBSET {c} :
        /\ halted' = [halted EXCEPT ![n] = @ \ now]
        /\ released' = [released EXCEPT ![n] = @ \cup now]
  BY DEF NotifyHalted
<1>3. HaltType'
  BY <1>1, <1>2, TypeParts DEF HaltType
<1>4. notifying[n] \in Nat
  BY TypeParts DEF ConfType
<1>5. ConfType'
  BY <1>1, <1>4, NotifyType
<1>6. stage[n][k] \in Stages
  BY TypeParts DEF StageType
<1>7. PICK v : v \in Stages /\ stage' = [stage EXCEPT ![n][k] = v]
  BY <1>1, <1>6, StageSet
<1>8. StageType'
  BY <1>7, StageSet DEF StageType
<1> QED
  BY <1>1, <1>3, <1>5, <1>8, SameTypes, TypePartsNext

LEMMA ReceiveType ==
  ASSUME TypeOK, NEW n \in Nodes, NEW id \in IDs, NEW m \in inbox[n][id],
         ReceiveAck(n, id, m), UNCHANGED tlcAcks
  PROVE  ChanType'
<1>1. ChanType
  BY TypeParts
<1>2. /\ inbox' = [inbox EXCEPT ![n][id] = inbox[n][id] \ {m}]
      /\ acks' = [acks EXCEPT ![n][id] = acks[n][id] \cup {m}]
  BY DEF ReceiveAck
<1>3. inbox[n][id] \ {m} \in SUBSET Nodes /\ acks[n][id] \cup {m} \in SUBSET Nodes
  BY <1>1 DEF ChanType
<1> QED
  BY <1>1, <1>2, <1>3, Updated DEF ChanType

LEMMA TypeCollect ==
  ASSUME TypeOK, NEW n \in Nodes, NEW id \in IDs, NEW m \in inbox[n][id],
         CollectAck(n, id, m)
  PROVE  TypeOK'
<1>1. /\ ReceiveAck(n, id, m)
      /\ UNCHANGED <<nextID, published, tlcMessages, early, acked, blocks, myTime,
                     lenGossipConf, gossipWithConf, halted, released, leaving, notifying,
                     tlcAcks, stage, files>>
  BY DEF CollectAck, messages, roundVars
<1>2. ChanType'
  BY <1>1, ReceiveType
<1> QED
  BY <1>1, <1>2, SameTypes, TypePartsNext

LEMMA ListSetType ==
  ASSUME NEW list \in Seq(Listed), NEW i \in DOMAIN list, NEW c \in {0} \cup IDs
  PROVE  WithConf(list, i, c) \in Seq(Listed)
<1>1. list[i] \in Listed
  OBVIOUS
<1>2. [list[i] EXCEPT !.conf = c] \in Listed
  BY <1>1 DEF Listed
<1> QED
  BY <1>2 DEF WithConf

(* One list of a node's tlcMessages changes. *)
LEMMA ListedSet ==
  ASSUME TypeOK, NEW n \in Nodes, NEW o \in Nodes, NEW list \in Seq(Listed),
         tlcMessages' = [tlcMessages EXCEPT ![n][o] = list]
  PROVE  ListedType'
BY TypeParts, Updated DEF ListedType

(* What the confirmation of a message carries. *)
LEMMA ConfirmationType ==
  ASSUME TypeOK, NEW n \in Nodes, NEW id \in IDs, nextID[n] \in IDs
  PROVE  {[c EXCEPT !.id = nextID[n], !.of = id] : c \in {x \in published[n] : x.id = id}}
           \in SUBSET Messages
<1>1. published[n] \in SUBSET Messages
  BY TypeParts DEF MsgType
<1>2. \A c \in Messages : [c EXCEPT !.id = nextID[n], !.of = id] \in Messages
  BY DEF Messages
<1> QED
  BY <1>1, <1>2

LEMMA TypeConfirm ==
  ASSUME TypeOK, NEW n \in Nodes, NEW id \in IDs, NEW m \in inbox[n][id],
         Confirm(n, id, m)
  PROVE  TypeOK'
<1> DEFINE new == {[c EXCEPT !.id = nextID[n], !.of = id] :
                     c \in {x \in published[n] : x.id = id}}
<1>1. /\ ReceiveAck(n, id, m)
      /\ SetConfirmed(n, n, id)
      /\ nextID[n] \in IDs
      /\ nextID' = [nextID EXCEPT ![n] = @ + 1]
      /\ published' = [published EXCEPT ![n] = published[n] \cup new]
      /\ stage' = [stage EXCEPT ![n][id] = "check"]
      /\ UNCHANGED <<early, acked, blocks, myTime, lenGossipConf, gossipWithConf, halted,
                     released, leaving, notifying, tlcAcks, files>>
  BY DEF Confirm, roundVars
<1>2. ChanType'
  BY <1>1, ReceiveType
<1>3. new \in SUBSET Messages
  BY <1>1, ConfirmationType
<1> HIDE DEF new
<1>4. MsgType'
  BY <1>1, <1>3, TypeParts DEF MsgType
<1>5. ListedType'
  <2>1. tlcMessages[n][n] \in Seq(Listed)
    BY TypeParts DEF ListedType
  <2>2. SetConfirmed(n, n, id)
    BY <1>1
  <2>3. \/ UNCHANGED tlcMessages
        \/ \E i \in DOMAIN tlcMessages[n][n] :
             /\ tlcMessages[n][n][i].id = id
             /\ First(tlcMessages[n][n], i)
             /\ tlcMessages' = [tlcMessages EXCEPT ![n][n] =
                  WithConf(tlcMessages[n][n], i, id)]
    BY <2>1, <2>2, SetConfirmedFirst
  <2>4. CASE UNCHANGED tlcMessages
    BY <2>4, SameTypes
  <2>5. ASSUME NEW i \in DOMAIN tlcMessages[n][n],
               tlcMessages' = [tlcMessages EXCEPT ![n][n] = WithConf(tlcMessages[n][n], i, id)]
        PROVE  ListedType'
    <3>1. WithConf(tlcMessages[n][n], i, id) \in Seq(Listed)
      BY <2>1, ListSetType
    <3> QED
      BY <2>5, <3>1, ListedSet
  <2> QED
    BY <2>3, <2>4, <2>5
<1>6. StageType'
  BY <1>1, StageSet DEF StageType, Callers, Stages
<1> QED
  BY <1>1, <1>2, <1>4, <1>5, <1>6, SameTypes, TypePartsNext

LEMMA TypeRemoveChannel ==
  ASSUME TypeOK, NEW n \in Nodes, NEW id \in IDs, RemoveChannel(n, id)
  PROVE  TypeOK'
<1>1. /\ tlcAcks' = [tlcAcks EXCEPT ![n][id] = "none"]
      /\ stage' = [stage EXCEPT ![n][id] = "out"]
      /\ inbox' = [inbox EXCEPT ![n][id] = {}]
      /\ UNCHANGED <<nextID, published, tlcMessages, early, acked, blocks, myTime,
                     lenGossipConf, gossipWithConf, halted, released, leaving, notifying,
                     acks, files>>
  BY DEF RemoveChannel, messages, roundVars
<1>2. ChanType
  BY TypeParts
<1>3. tlcAcks' \in [Nodes -> [IDs -> {"none", "open", "closed"}]]
  BY <1>1, <1>2, Updated DEF ChanType
<1>4. ChanType'
  BY <1>1, <1>2, <1>3, Updated DEF ChanType
<1>5. StageType'
  BY <1>1, StageSet DEF StageType, Callers, Stages
<1> QED
  BY <1>1, <1>4, <1>5, SameTypes, TypePartsNext

LEMMA TypeAckArrives ==
  ASSUME TypeOK, NEW n \in Nodes, NEW ack \in acked, AckArrives(n, ack)
  PROVE  TypeOK'
<1>1. ack.from \in Nodes /\ ack.id \in IDs /\ ChanType
  BY TypeParts DEF AckedType
<1>2. /\ inbox' = [inbox EXCEPT ![n][ack.id] =
           inbox[n][ack.id] \cup ({ack.from} \ acks[n][ack.id])]
      /\ UNCHANGED <<nextID, published, tlcMessages, early, acked, blocks, myTime,
                     lenGossipConf, gossipWithConf, halted, released, leaving, notifying,
                     tlcAcks, acks, stage, files>>
  BY DEF AckArrives, messages, roundVars
<1>3. inbox[n][ack.id] \cup ({ack.from} \ acks[n][ack.id]) \in SUBSET Nodes
  BY <1>1 DEF ChanType
<1>4. ChanType'
  BY <1>1, <1>2, <1>3, Updated DEF ChanType
<1> QED
  BY <1>2, <1>4, SameTypes, TypePartsNext

LEMMA StoreType ==
  ASSUME TypeOK, NEW n \in Nodes, NEW o \in Nodes, NEW msg \in published[o],
         Store(n, o, msg)
  PROVE  ListedType'
<1> DEFINE e == [id |-> msg.id, conf |-> 0, file |-> msg.file, prev |-> msg.prev]
<1>1. msg \in Messages /\ tlcMessages[n][o] \in Seq(Listed)
  BY TypeParts DEF MsgType, ListedType
<1>2. e \in Listed
  BY <1>1 DEF Messages, Listed
<1>3. \/ UNCHANGED tlcMessages
      \/ tlcMessages' = [tlcMessages EXCEPT ![n][o] = Append(tlcMessages[n][o], e)]
  BY DEF Store
<1> HIDE DEF e
<1>4. Append(tlcMessages[n][o], e) \in Seq(Listed)
  BY <1>1, <1>2
<1> QED
  BY <1>3, <1>4, ListedSet, SameTypes

LEMMA TypeStored ==
  ASSUME TypeOK, NEW n \in Nodes, NEW o \in Nodes, NEW msg \in published[o],
         TLCStored(n, o, msg)
  PROVE  TypeOK'
<1>1. /\ Store(n, o, msg)
      /\ UNCHANGED <<nextID, published, early, acked, blocks, myTime, lenGossipConf,
                     gossipWithConf, halted, released, leaving, notifying, tlcAcks, acks,
                     inbox, stage, files>>
  BY DEF TLCStored, roundVars, ackVars
<1>2. ListedType'
  BY <1>1, StoreType
<1> QED
  BY <1>1, <1>2, SameTypes, TypePartsNext

LEMMA TypeAcknowledged ==
  ASSUME TypeOK, NEW n \in Nodes, NEW o \in Nodes, NEW msg \in published[o],
         TLCAcknowledged(n, o, msg)
  PROVE  TypeOK'
<1>1. /\ Store(n, o, msg)
      /\ AckTLC(n, o, msg.id)
      /\ early' = [early EXCEPT ![n][o] = early[n][o] \ {msg.id}]
      /\ UNCHANGED <<nextID, published, blocks, myTime, lenGossipConf, gossipWithConf, halted,
                     released, leaving, notifying, tlcAcks, acks, inbox, files>>
  BY DEF TLCAcknowledged, roundVars, ackVars
<1>2. stage' = stage \/ stage' = [stage EXCEPT ![n][Worker] = "check"]
  BY DEF TLCAcknowledged
<1>3. ListedType'
  BY <1>1, StoreType
<1>4. AckedType'
  <2>1. msg.id \in IDs
    BY TypeParts DEF MsgType, Messages
  <2> QED
    BY <1>1, <2>1, TypeParts DEF AckTLC, AckedType
<1>5. EarlyType'
  <2>1. early \in [Nodes -> [Nodes -> SUBSET IDs]]
    BY TypeParts DEF EarlyType
  <2>2. early[n][o] \ {msg.id} \in SUBSET IDs
    BY <2>1
  <2> QED
    BY <1>1, <2>1, <2>2, Updated DEF EarlyType
<1>6. StageType'
  <2>1. Worker \in Callers /\ "check" \in Stages
    BY DEF Callers, Stages
  <2>2. CASE stage' = stage
    BY <2>2, SameTypes
  <2>3. CASE stage' = [stage EXCEPT ![n][Worker] = "check"]
    BY <2>1, <2>3, StageSet DEF StageType
  <2> QED
    BY <1>2, <2>2, <2>3
<1> QED
  BY <1>1, <1>3, <1>4, <1>5, <1>6, SameTypes, TypePartsNext

LEMMA TypeEarly ==
  ASSUME TypeOK, NEW n \in Nodes, NEW o \in Nodes, NEW msg \in published[o],
         EarlyConfirmation(n, o, msg)
  PROVE  TypeOK'
<1>1. /\ msg.of # 0
      /\ early' = [early EXCEPT ![n][o] = early[n][o] \cup {msg.of}]
      /\ UNCHANGED <<nextID, published, tlcMessages, acked, blocks, myTime, lenGossipConf,
                     gossipWithConf, halted, released, leaving, notifying, tlcAcks, acks,
                     inbox, stage, files>>
  BY DEF EarlyConfirmation, messages, roundVars, ackVars
<1>2. early \in [Nodes -> [Nodes -> SUBSET IDs]]
  BY TypeParts DEF EarlyType
<1>3. msg.of \in IDs
  BY <1>1, TypeParts DEF MsgType, Messages
<1>4. early[n][o] \cup {msg.of} \in SUBSET IDs
  BY <1>2, <1>3
<1>5. EarlyType'
  BY <1>1, <1>2, <1>4, Updated DEF EarlyType
<1> QED
  BY <1>1, <1>5, SameTypes, TypePartsNext

LEMMA TypeConfirmation ==
  ASSUME TypeOK, NEW n \in Nodes, NEW o \in Nodes, NEW msg \in published[o],
         Confirmation(n, o, msg)
  PROVE  TypeOK'
<1> DEFINE i == Position(n, o, msg)
<1>1. /\ i # 0
      /\ tlcMessages' = [tlcMessages EXCEPT ![n][o][i].conf = msg.of]
      /\ stage' = [stage EXCEPT ![n][Worker] = "check"]
      /\ UNCHANGED <<nextID, published, early, acked, blocks, myTime, lenGossipConf,
                     gossipWithConf, halted, released, leaving, notifying, tlcAcks, acks,
                     inbox, files>>
  BY DEF Confirmation, roundVars, ackVars
<1>2. tlcMessages[n][o] \in Seq(Listed) /\ msg.of \in {0} \cup IDs
  BY TypeParts DEF ListedType, MsgType, Messages
<1>3. i \in DOMAIN tlcMessages[n][o]
  BY <1>1, <1>2, PositionFirst
<1> HIDE DEF i
<1>4. WithConf(tlcMessages[n][o], i, msg.of) \in Seq(Listed)
  BY <1>2, <1>3, ListSetType
<1>5. tlcMessages' = [tlcMessages EXCEPT ![n][o] = WithConf(tlcMessages[n][o], i, msg.of)]
  BY <1>1 DEF WithConf
<1>6. ListedType'
  BY <1>4, <1>5, ListedSet
<1>7. StageType'
  BY <1>1, StageSet DEF StageType, Callers, Stages
<1> QED
  BY <1>1, <1>6, <1>7, SameTypes, TypePartsNext

LEMMA TypeNext == TypeOK /\ [Next]_vars => TypeOK'
<1> SUFFICES ASSUME TypeOK, [Next]_vars PROVE TypeOK'
  OBVIOUS
<1>1. CASE UNCHANGED vars
  BY <1>1, SameTypes, TypePartsNext DEF vars, messages, roundVars, ackVars
<1>2. ASSUME NEW n \in Nodes, NEW k \in Callers, IncrementMytime(n, k)
      PROVE  TypeOK'
  BY <1>2, TypeCheck, TypeAdd, TypeBlock, TypePublishFittest, TypeStart, TypeNotify
     DEF IncrementMytime
<1> QED
  BY <1>1, <1>2, TypeListNow, TypeListLater, TypeReleased, TypeRemoveEntry, TypeRemoveChannel,
     TypeCollect, TypeConfirm, TypeAckArrives, TypeStored, TypeAcknowledged, TypeEarly,
     TypeConfirmation DEF Next

(* Type correctness, for any nodes, files, fitness and -ackAll: among the   *)
(* rest, a node always has a last block, and the entry of gossipWithConf    *)
(* that incrementMytime sends the number of the consensus to stays in its   *)
(* place (blockchain.go:258-268, 361-371).                                  *)
THEOREM TypesOK == Spec => []TypeOK
BY TypeInit, TypeNext, PTL DEF Spec

-----------------------------------------------------------------------------
(* What messages, lists, channels and acknowledgements say of each other.   *)

Core == PublishedOK /\ ChannelsOK /\ ListedOK /\ AckedOK /\ CollectedOK

LEMMA CoreInit == Init => Core
<1> SUFFICES ASSUME Init PROVE Core
  OBVIOUS
<1>1. ListedOK
  BY DEF Init, ListedOK, ListOK
<1>2. CollectedOK
  BY DEF Init, CollectedOK
<1>3. PublishedOK /\ ChannelsOK /\ AckedOK
  BY DEF Init, PublishedOK, ChannelsOK, AckedOK
<1> QED
  BY <1>1, <1>2, <1>3 DEF Core

(* A message a node takes as confirmed was confirmed by its origin and is   *)
(* stored by a majority.                                                   *)
LEMMA ConfirmedEntry ==
  ASSUME TypeOK, Core, NEW n \in Nodes, NEW o \in Nodes,
         NEW i \in DOMAIN tlcMessages[n][o], tlcMessages[n][o][i].conf # 0,
         NEW b, b.id = tlcMessages[n][o][i].id, SameContent(b, tlcMessages[n][o][i])
  PROVE  ByMajority(o, b)
<1> DEFINE list == tlcMessages[n][o]
<1>1. PICK p \in published[o] :
        p.of = 0 /\ p.id = b.id /\ (First(list, i) => SameContent(p, list[i]))
  BY DEF Core, ListedOK, ListOK
<1>2. First(list, i) /\ \E x \in published[o] : x.of = b.id
  BY DEF Core, ListedOK, ListOK
<1>3. PICK x \in published[o] : x.of = b.id
  BY <1>2
<1>4. SameContent(p, b)
  BY <1>1, <1>2 DEF SameContent
<1>5. x.of # 0
  <2>1. p.id \in IDs
    BY TypeParts DEF MsgType, Messages
  <2> QED
    BY <1>1, <1>3, <2>1 DEF IDs
<1>6. PICK y \in published[o] : y.of = 0 /\ y.id = x.of /\ SameContent(x, y)
  BY <1>5 DEF Core, PublishedOK
<1>7. y = p
  BY <1>1, <1>3, <1>6 DEF Core, PublishedOK
<1>8. SameContent(x, b)
  BY <1>4, <1>6, <1>7 DEF SameContent
<1> DEFINE S == acks[o][b.id]
           T == {m \in Nodes : m = o \/ Has(tlcMessages[m][o], b)}
<1>9. Majority(Cardinality(S))
  BY <1>3, <1>5 DEF Core, PublishedOK
<1>10. b.id \in IDs /\ S \in SUBSET Nodes
  BY <1>1, TypeParts DEF MsgType, Messages, ChanType
<1>11. ASSUME NEW m \in S, m # o
       PROVE  Has(tlcMessages[m][o], b)
  <2>1. [from |-> m, to |-> o, id |-> b.id] \in acked
    BY <1>10, <1>11 DEF Core, CollectedOK
  <2>2. PICK q \in published[o] : q.of = 0 /\ q.id = b.id /\ Has(tlcMessages[m][o], q)
    BY <2>1 DEF Core, AckedOK
  <2>3. q = p
    BY <1>1, <2>2 DEF Core, PublishedOK
  <2> QED
    BY <1>1, <1>4, <2>2, <2>3 DEF Has, SameContent
<1>12. T \in SUBSET Nodes /\ S \in SUBSET T
  BY <1>10, <1>11
<1> HIDE DEF S, T
<1>13. Majority(Cardinality(T))
  BY <1>9, <1>12, LargerMajority
<1> QED
  BY <1>3, <1>8, <1>13 DEF T, ByMajority

LEMMA CoreSame ==
  ASSUME Core, UNCHANGED <<nextID, published, tlcMessages, acked, tlcAcks, acks, inbox>>
  PROVE  Core'
BY DEF Core, PublishedOK, ChannelsOK, ListedOK, AckedOK, CollectedOK

(* Channels are closed, removed, or given an acknowledgement that was sent. *)
LEMMA CoreChannels ==
  ASSUME Core, UNCHANGED <<nextID, published, tlcMessages, acked, acks>>,
         \A n \in Nodes, id \in IDs : tlcAcks'[n][id] # "none" => tlcAcks[n][id] # "none",
         \A n \in Nodes, id \in IDs : \A m \in inbox'[n][id] :
           m \in inbox[n][id] \/ [from |-> m, to |-> n, id |-> id] \in acked
  PROVE  Core'
<1>1. PublishedOK' /\ ListedOK' /\ AckedOK'
  BY DEF Core, PublishedOK, ListedOK, AckedOK
<1>2. ChannelsOK'
  BY DEF Core, ChannelsOK
<1>3. CollectedOK'
  BY DEF Core, CollectedOK
<1> QED
  BY <1>1, <1>2, <1>3 DEF Core

LEMMA ReceiveCollected ==
  ASSUME TypeOK, CollectedOK, NEW n \in Nodes, NEW id \in IDs, NEW m \in inbox[n][id],
         ReceiveAck(n, id, m), UNCHANGED acked
  PROVE  /\ CollectedOK'
         /\ \A k \in Nodes, j \in IDs : acks[k][j] \subseteq acks'[k][j]
<1>1. ChanType
  BY TypeParts
<1>2. /\ inbox' = [inbox EXCEPT ![n][id] = inbox[n][id] \ {m}]
      /\ acks' = [acks EXCEPT ![n][id] = acks[n][id] \cup {m}]
  BY DEF ReceiveAck
<1>3. \A k \in Nodes, j \in IDs :
        /\ inbox'[k][j] = IF k = n /\ j = id THEN inbox[n][id] \ {m} ELSE inbox[k][j]
        /\ acks'[k][j] = IF k = n /\ j = id THEN acks[n][id] \cup {m} ELSE acks[k][j]
  BY <1>1, <1>2 DEF ChanType
<1>4. CollectedOK'
  BY <1>3 DEF CollectedOK
<1> QED
  BY <1>3, <1>4

(* The majorities counted for confirmations stay. *)
LEMMA CountsKept ==
  ASSUME TypeOK', PublishedOK, NEW n \in Nodes, NEW x \in published[n], x.of \in IDs,
         acks[n][x.of] \subseteq acks'[n][x.of]
  PROVE  Majority(Cardinality(acks'[n][x.of]))
<1>1. x.of # 0
  BY DEF IDs
<1>2. Majority(Cardinality(acks[n][x.of]))
  BY <1>1 DEF PublishedOK
<1>3. acks'[n][x.of] \in SUBSET Nodes
  BY TypePartsNext DEF ChanType
<1> QED
  BY <1>2, <1>3, LargerMajority

LEMMA CoreCollect ==
  ASSUME TypeOK, TypeOK', Core, NEW n \in Nodes, NEW id \in IDs, NEW m \in inbox[n][id],
         CollectAck(n, id, m)
  PROVE  Core'
<1>1. /\ ReceiveAck(n, id, m)
      /\ UNCHANGED <<nextID, published, tlcMessages, acked, tlcAcks>>
  BY DEF CollectAck, messages
<1>2. /\ CollectedOK'
      /\ \A k \in Nodes, j \in IDs : acks[k][j] \subseteq acks'[k][j]
  BY <1>1, ReceiveCollected DEF Core
<1>3. ChannelsOK' /\ ListedOK' /\ AckedOK'
  BY <1>1 DEF Core, ChannelsOK, ListedOK, AckedOK
<1>4. PublishedOK'
  <2> SUFFICES ASSUME NEW k \in Nodes, NEW x \in published[k], x.of # 0
               PROVE  Majority(Cardinality(acks'[k][x.of]))
    BY <1>1 DEF Core, PublishedOK
  <2>1. x.of \in IDs
    BY TypeParts DEF MsgType, Messages
  <2> QED
    BY <1>2, <2>1, CountsKept DEF Core
<1> QED
  BY <1>2, <1>3, <1>4 DEF Core

(* Messages in circulation and listed messages stay. *)
Grows ==
  /\ \A o \in Nodes : published[o] \subseteq published'[o]
  /\ \A m, o \in Nodes : \A p : Has(tlcMessages[m][o], p) => Has(tlcMessages'[m][o], p)

LEMMA AckedKept ==
  ASSUME TypeOK, AckedOK, Grows, UNCHANGED acked
  PROVE  AckedOK'
<1>1. \A ack \in acked : ack.from \in Nodes /\ ack.to \in Nodes
  BY TypeParts DEF AckedType
<1> QED
  BY <1>1 DEF AckedOK, Grows

LEMMA ListChanges ==
  ASSUME TypeOK, NEW n \in Nodes, NEW o \in Nodes, NEW list,
         tlcMessages' = [tlcMessages EXCEPT ![n][o] = list],
         \A p : Has(tlcMessages[n][o], p) => Has(list, p),
         \A k \in Nodes : published[k] \subseteq published'[k]
  PROVE  Grows
<1>1. tlcMessages \in [Nodes -> [Nodes -> Seq(Listed)]]
  BY TypeParts DEF ListedType
<1>2. \A k, l \in Nodes : tlcMessages'[k][l] =
        IF k = n /\ l = o THEN list ELSE tlcMessages[k][l]
  BY <1>1
<1> QED
  BY <1>2 DEF Grows

(* A node publishes a message, with an ID of its own or as a copy. *)
LEMMA CorePublish ==
  ASSUME TypeOK, TypeOK', Core, NEW n \in Nodes, NEW c, c.file \in Files,
         c.prev \in Seq(Files), NEW stored \in IDs, PublishTLC(n, c, stored),
         UNCHANGED <<acked, inbox>>,
         \/ stored = nextID[n]
         \/ \E i \in DOMAIN tlcMessages[n][n] : tlcMessages[n][n][i].id = stored
  PROVE  Core' /\ Grows
<1> DEFINE id == nextID[n]
           p == [id |-> nextID[n], of |-> 0, file |-> c.file, prev |-> c.prev]
           e == [id |-> stored, conf |-> 0, file |-> c.file, prev |-> c.prev]
<1>1. /\ id \in IDs
      /\ nextID' = [nextID EXCEPT ![n] = id + 1]
      /\ published' = [published EXCEPT ![n] = published[n] \cup {p}]
      /\ tlcMessages' = [tlcMessages EXCEPT ![n][n] = Append(tlcMessages[n][n], e)]
      /\ tlcAcks' = [tlcAcks EXCEPT ![n][id] = "open"]
      /\ acks' = [acks EXCEPT ![n][id] = {n}]
  BY DEF PublishTLC
<1>2. MsgType /\ ListedType /\ ChanType
  BY TypeParts
<1>3. /\ p.id = id /\ p.of = 0 /\ p.file = c.file /\ p.prev = c.prev
      /\ e.id = stored /\ e.conf = 0 /\ e.file = c.file /\ e.prev = c.prev
      /\ e \in Listed
  BY DEF Listed
<1>4. id \in Nat
  BY <1>1, <1>2 DEF MsgType
<1> HIDE DEF p, e
<1>5. \A k \in Nodes :
        /\ nextID'[k] = IF k = n THEN id + 1 ELSE nextID[k]
        /\ published'[k] = IF k = n THEN published[n] \cup {p} ELSE published[k]
  BY <1>1, <1>2 DEF MsgType
<1>6. \A k \in Nodes, j \in IDs :
        /\ tlcAcks'[k][j] = IF k = n /\ j = id THEN "open" ELSE tlcAcks[k][j]
        /\ acks'[k][j] = IF k = n /\ j = id THEN {n} ELSE acks[k][j]
  BY <1>1, <1>2 DEF ChanType
<1>7. /\ Grows
      /\ tlcMessages'[n][n] = Append(tlcMessages[n][n], e)
      /\ \A k, l \in Nodes : k # n \/ l # n => tlcMessages'[k][l] = tlcMessages[k][l]
  <2>1. \A k \in Nodes : published[k] \subseteq published'[k]
    BY <1>5
  <2>2. \A q : Has(tlcMessages[n][n], q) => Has(Append(tlcMessages[n][n], e), q)
    BY <1>2, HasAppend DEF ListedType
  <2>3. Grows
    BY <1>1, <2>1, <2>2, ListChanges
  <2>4. /\ tlcMessages'[n][n] = Append(tlcMessages[n][n], e)
        /\ \A k, l \in Nodes : k # n \/ l # n => tlcMessages'[k][l] = tlcMessages[k][l]
    BY <1>1, <1>2 DEF ListedType
  <2> QED
    BY <2>3, <2>4
<1>8. ASSUME NEW x \in published[n]
      PROVE  /\ x.id \in Nat /\ x.id < id
             /\ x.of # 0 => x.of \in IDs /\ x.of < id
  <2>1. x.id \in Nat /\ x.of \in {0} \cup IDs /\ \A y \in published[n] : y.id \in Nat
    BY <1>2 DEF MsgType, Messages, IDs
  <2>2. \A y \in published[n] : y.id < id
    BY DEF Core, PublishedOK
  <2>3. x.of # 0 => \E y \in published[n] : y.id = x.of
    BY DEF Core, PublishedOK
  <2> QED
    BY <2>1, <2>2, <2>3
<1> HIDE DEF id
<1>9. PublishedOK'
  <2> SUFFICES ASSUME NEW k \in Nodes, NEW x \in published'[k]
               PROVE  /\ x.id < nextID'[k]
                      /\ \A y \in published'[k] : x.id = y.id => x = y
                      /\ x.of # 0 =>
                           /\ \E y \in published'[k] :
                                y.of = 0 /\ y.id = x.of /\ SameContent(x, y)
                           /\ Majority(Cardinality(acks'[k][x.of]))
    BY DEF PublishedOK
  <2>1. CASE k # n
    <3>1. x \in published[k] /\ published'[k] = published[k] /\ nextID'[k] = nextID[k]
      BY <1>5, <2>1
    <3>2. x.of # 0 => x.of \in IDs
      BY <1>2, <3>1 DEF MsgType, Messages
    <3>3. x.of # 0 => acks'[k][x.of] = acks[k][x.of]
      BY <1>6, <2>1, <3>2
    <3> QED
      BY <3>1, <3>3 DEF Core, PublishedOK
  <2>2. CASE k = n /\ x \in published[n]
    <3>1. /\ published'[k] = published[n] \cup {p} /\ nextID'[k] = id + 1
      BY <1>5, <2>2
    <3>2. x.id < nextID'[k]
      BY <1>4, <1>8, <2>2, <3>1
    <3>3. x.id # p.id
      BY <1>3, <1>4, <1>8, <2>2
    <3>4. \A y \in published'[k] : x.id = y.id => x = y
      BY <2>2, <3>1, <3>3 DEF Core, PublishedOK
    <3>5. ASSUME x.of # 0
          PROVE  /\ \E y \in published'[k] :
                      y.of = 0 /\ y.id = x.of /\ SameContent(x, y)
                 /\ Majority(Cardinality(acks'[k][x.of]))
      <4>1. x.of \in IDs /\ x.of # id
        BY <1>4, <1>8, <2>2, <3>5 DEF IDs
      <4>2. acks'[k][x.of] = acks[k][x.of]
        BY <1>6, <2>2, <4>1
      <4> QED
        BY <2>2, <3>1, <3>5, <4>2 DEF Core, PublishedOK
    <3> QED
      BY <3>2, <3>4, <3>5
  <2>3. CASE k = n /\ x = p
    <3>1. /\ published'[k] = published[n] \cup {p} /\ nextID'[k] = id + 1
      BY <1>5, <2>3
    <3>2. x.id < nextID'[k] /\ x.of = 0
      BY <1>3, <1>4, <2>3, <3>1
    <3>3. ASSUME NEW y \in published'[k], x.id = y.id
          PROVE  x = y
      <4>1. y \notin published[n]
        BY <1>3, <1>4, <1>8, <2>3, <3>3
      <4> QED
        BY <2>3, <3>1, <4>1
    <3> QED
      BY <3>2, <3>3
  <2> QED
    BY <1>5, <2>1, <2>2, <2>3
<1>10. ChannelsOK'
  <2> SUFFICES ASSUME NEW k \in Nodes, NEW j \in IDs, tlcAcks'[k][j] # "none"
               PROVE  \E x \in published'[k] : x.id = j /\ x.of = 0
    BY DEF ChannelsOK
  <2>1. CASE k = n /\ j = id
    BY <1>3, <1>5, <2>1
  <2>2. CASE ~ (k = n /\ j = id)
    <3>1. tlcAcks[k][j] # "none"
      BY <1>6, <2>2
    <3> QED
      BY <1>7, <3>1 DEF Core, ChannelsOK, Grows
  <2> QED
    BY <2>1, <2>2
<1>11. ListedOK'
  <2> SUFFICES ASSUME NEW k \in Nodes, NEW o \in Nodes
               PROVE  ListOK(tlcMessages'[k][o], published'[o])
    BY DEF ListedOK
  <2>1. ListOK(tlcMessages[k][o], published'[o])
    <3>1. ListOK(tlcMessages[k][o], published[o]) /\ published[o] \subseteq published'[o]
      BY <1>7 DEF Core, ListedOK, Grows
    <3> QED
      BY <3>1, ListGrows
  <2>2. CASE ~ (k = n /\ o = n)
    BY <1>7, <2>1, <2>2
  <2>3. CASE k = n /\ o = n
    <3>1. tlcMessages[n][n] \in Seq(Listed) /\ ListOK(tlcMessages[n][n], published'[n])
      BY <1>2, <2>1, <2>3 DEF ListedType
    <3>2. \E q \in published'[n] :
            /\ q.of = 0 /\ q.id = e.id
            /\ (\A j \in DOMAIN tlcMessages[n][n] : tlcMessages[n][n][j].id # e.id) =>
                 SameContent(q, e)
      <4>1. CASE stored = id
        <5>1. p \in published'[n] /\ SameContent(p, e)
          BY <1>3, <1>5 DEF SameContent
        <5> QED
          BY <1>3, <4>1, <5>1
      <4>2. CASE \E i \in DOMAIN tlcMessages[n][n] : tlcMessages[n][n][i].id = stored
        BY <1>3, <3>1, <4>2 DEF ListOK
      <4> QED
        BY <4>1, <4>2 DEF id
    <3>3. ListOK(Append(tlcMessages[n][n], e), published'[n])
      BY <1>3, <3>1, <3>2, ListAppend
    <3> QED
      BY <1>7, <2>3, <3>3
  <2> QED
    BY <2>2, <2>3
<1>12. AckedOK'
  BY <1>7, AckedKept DEF Core
<1>13. CollectedOK'
  BY <1>6 DEF Core, CollectedOK
<1> QED
  BY <1>7, <1>9, <1>10, <1>11, <1>12, <1>13 DEF Core

(* A node counts a majority of acknowledgements and publishes that. *)
LEMMA CoreConfirm ==
  ASSUME TypeOK, TypeOK', Core, NEW n \in Nodes, NEW id \in IDs, NEW m \in inbox[n][id],
         Confirm(n, id, m)
  PROVE  Core' /\ Grows
<1> DEFINE new == {[c EXCEPT !.id = nextID[n], !.of = id] :
                     c \in {x \in published[n] : x.id = id}}
<1>1. /\ ReceiveAck(n, id, m)
      /\ Majority(Cardinality(acks'[n][id]))
      /\ SetConfirmed(n, n, id)
      /\ nextID[n] \in IDs
      /\ nextID' = [nextID EXCEPT ![n] = nextID[n] + 1]
      /\ published' = [published EXCEPT ![n] = published[n] \cup new]
      /\ UNCHANGED <<acked, tlcAcks>>
      /\ tlcAcks[n][id] # "none"
  BY DEF Confirm, ReceiveAck
<1>2. MsgType /\ ListedType /\ ChanType
  BY TypeParts
<1>3. PICK x \in published[n] : x.id = id /\ x.of = 0
  BY <1>1 DEF Core, ChannelsOK
<1> DEFINE d == [x EXCEPT !.id = nextID[n], !.of = id]
<1>4. x \in Messages
  BY <1>2, <1>3 DEF MsgType
<1>5. d.id = nextID[n] /\ d.of = id /\ SameContent(d, x)
  BY <1>4 DEF Messages, SameContent
<1>6. new = {d}
  <2>1. {y \in published[n] : y.id = id} = {x}
    BY <1>3 DEF Core, PublishedOK
  <2> QED
    BY <2>1
<1> HIDE DEF d, new
<1>7. nextID[n] \in Nat /\ id # 0
  BY <1>2 DEF MsgType, IDs
<1>8. \A k \in Nodes :
        /\ nextID'[k] = IF k = n THEN nextID[n] + 1 ELSE nextID[k]
        /\ published'[k] = IF k = n THEN published[n] \cup {d} ELSE published[k]
  BY <1>1, <1>2, <1>6 DEF MsgType
<1>9. \A k \in Nodes : published[k] \subseteq published'[k]
  BY <1>8
<1>10. /\ CollectedOK'
       /\ \A k \in Nodes, j \in IDs : acks[k][j] \subseteq acks'[k][j]
  BY <1>1, ReceiveCollected DEF Core
<1>11. \A y \in published[n] : y.id \in Nat /\ y.id < nextID[n]
  BY <1>2 DEF MsgType, Messages, IDs, Core, PublishedOK
<1>12. PublishedOK'
  <2> SUFFICES ASSUME NEW k \in Nodes, NEW y \in published'[k]
               PROVE  /\ y.id < nextID'[k]
                      /\ \A z \in published'[k] : y.id = z.id => y = z
                      /\ y.of # 0 =>
                           /\ \E z \in published'[k] :
                                z.of = 0 /\ z.id = y.of /\ SameContent(y, z)
                           /\ Majority(Cardinality(acks'[k][y.of]))
    BY DEF PublishedOK
  <2>1. CASE y \in published[k]
    <3>1. y.id < nextID'[k]
      BY <1>7, <1>8, <1>11, <2>1 DEF Core, PublishedOK
    <3>2. ASSUME NEW z \in published'[k], y.id = z.id
          PROVE  y = z
      <4>1. CASE z \in published[k]
        BY <2>1, <3>2, <4>1 DEF Core, PublishedOK
      <4>2. CASE k = n /\ z = d
        BY <1>5, <1>7, <1>11, <2>1, <3>2, <4>2
      <4> QED
        BY <1>8, <4>1, <4>2
    <3>3. ASSUME y.of # 0
          PROVE  /\ \E z \in published'[k] :
                      z.of = 0 /\ z.id = y.of /\ SameContent(y, z)
                 /\ Majority(Cardinality(acks'[k][y.of]))
      <4>1. y.of \in IDs
        BY <1>2, <2>1, <3>3 DEF MsgType, Messages
      <4>2. acks[k][y.of] \subseteq acks'[k][y.of]
        BY <1>10, <4>1
      <4>3. Majority(Cardinality(acks'[k][y.of]))
        BY <2>1, <4>1, <4>2, CountsKept DEF Core
      <4>4. \E z \in published[k] : z.of = 0 /\ z.id = y.of /\ SameContent(y, z)
        BY <2>1, <3>3 DEF Core, PublishedOK
      <4> QED
        BY <1>9, <4>3, <4>4
    <3> QED
      BY <3>1, <3>2, <3>3
  <2>2. CASE k = n /\ y = d
    <3>1. y.id < nextID'[k]
      BY <1>5, <1>7, <1>8, <2>2
    <3>2. ASSUME NEW z \in published'[k], y.id = z.id
          PROVE  y = z
      BY <1>5, <1>7, <1>8, <1>11, <2>2, <3>2
    <3>3. x \in published'[k] /\ x.of = 0 /\ x.id = y.of /\ SameContent(y, x)
      BY <1>3, <1>5, <1>9, <2>2
    <3>4. Majority(Cardinality(acks'[k][y.of]))
      BY <1>1, <1>5, <2>2
    <3> QED
      BY <3>1, <3>2, <3>3, <3>4
  <2> QED
    BY <1>8, <2>1, <2>2
<1>13. ChannelsOK'
  BY <1>1, <1>9 DEF Core, ChannelsOK
<1>14. \A k, o \in Nodes : ListOK(tlcMessages[k][o], published'[o])
  <2> SUFFICES ASSUME NEW k \in Nodes, NEW o \in Nodes
               PROVE  ListOK(tlcMessages[k][o], published'[o])
    OBVIOUS
  <2>1. ListOK(tlcMessages[k][o], published[o]) /\ published[o] \subseteq published'[o]
    BY <1>9 DEF Core, ListedOK
  <2> QED
    BY <2>1, ListGrows
<1>15. tlcMessages[n][n] \in Seq(Listed)
  BY <1>2 DEF ListedType
<1>16. \/ UNCHANGED tlcMessages
       \/ \E i \in DOMAIN tlcMessages[n][n] :
            /\ tlcMessages[n][n][i].id = id
            /\ First(tlcMessages[n][n], i)
            /\ tlcMessages' = [tlcMessages EXCEPT ![n][n] =
                 WithConf(tlcMessages[n][n], i, id)]
  <2>1. SetConfirmed(n, n, id)
    BY <1>1
  <2> QED
    BY <1>15, <2>1, SetConfirmedFirst
<1>17. ListedOK' /\ Grows
  <2>1. CASE UNCHANGED tlcMessages
    BY <1>9, <1>14, <2>1 DEF ListedOK, Grows
  <2>2. ASSUME NEW i \in DOMAIN tlcMessages[n][n], tlcMessages[n][n][i].id = id,
               First(tlcMessages[n][n], i),
               tlcMessages' = [tlcMessages EXCEPT ![n][n] = WithConf(tlcMessages[n][n], i, id)]
        PROVE  ListedOK' /\ Grows
    <3>1. /\ Grows
          /\ tlcMessages'[n][n] = WithConf(tlcMessages[n][n], i, id)
          /\ \A k, l \in Nodes : k # n \/ l # n => tlcMessages'[k][l] = tlcMessages[k][l]
      <4>1. \A q : Has(tlcMessages[n][n], q) => Has(WithConf(tlcMessages[n][n], i, id), q)
        BY <1>15, HasSet
      <4>2. Grows
        BY <1>9, <2>2, <4>1, ListChanges
      <4>3. /\ tlcMessages'[n][n] = WithConf(tlcMessages[n][n], i, id)
            /\ \A k, l \in Nodes : k # n \/ l # n => tlcMessages'[k][l] = tlcMessages[k][l]
        BY <1>2, <2>2 DEF ListedType
      <4> QED
        BY <4>2, <4>3
    <3>2. d \in published'[n] /\ d.of = tlcMessages[n][n][i].id
      BY <1>5, <1>8, <2>2
    <3>3. ListOK(WithConf(tlcMessages[n][n], i, id), published'[n])
      BY <1>14, <1>15, <2>2, <3>2, ListSet
    <3> QED
      BY <1>14, <3>1, <3>3 DEF ListedOK
  <2> QED
    BY <1>16, <2>1, <2>2
<1>18. AckedOK'
  BY <1>1, <1>17, AckedKept DEF Core
<1> QED
  BY <1>10, <1>12, <1>13, <1>17, <1>18 DEF Core

(* What is stored of a message that arrives: its content, under its ID. *)
LEMMA StoreLists ==
  ASSUME TypeOK, Core, NEW n \in Nodes, NEW o \in Nodes, NEW msg \in published[o],
         msg.of = 0, Store(n, o, msg), UNCHANGED published
  PROVE  ListedOK' /\ Grows /\ Has(tlcMessages'[n][o], msg)
<1> DEFINE list == tlcMessages[n][o]
           i == Position(n, o, msg)
           e == [id |-> msg.id, conf |-> 0, file |-> msg.file, prev |-> msg.prev]
<1>1. MsgType /\ ListedType /\ list \in Seq(Listed)
  BY TypeParts DEF ListedType
<1>2. \/ i = 0 /\ \A j \in DOMAIN list : list[j].id # msg.id /\ list[j].id # msg.of
      \/ /\ i \in DOMAIN list /\ i # 0
         /\ list[i].id = msg.id \/ list[i].id = msg.of
         /\ \A j \in DOMAIN list : j < i => list[j].id # msg.id /\ list[j].id # msg.of
  BY <1>1, PositionFirst
<1>3. tlcMessages' = IF i # 0 THEN tlcMessages
                     ELSE [tlcMessages EXCEPT ![n][o] = Append(list, e)]
  BY DEF Store
<1>4. /\ e \in Listed /\ e.id = msg.id /\ e.conf = 0
      /\ SameContent(msg, e) /\ SameContent(e, msg)
  BY <1>1 DEF MsgType, Messages, Listed, SameContent
<1> HIDE DEF i, e
<1>5. CASE i # 0
  <2>1. UNCHANGED tlcMessages
    BY <1>3, <1>5
  <2>2. ListedOK' /\ Grows
    BY <2>1 DEF Core, ListedOK, Grows
  <2>3. i \in DOMAIN list /\ list[i].id # 0
    <3>1. i \in DOMAIN list
      BY <1>2, <1>5
    <3>2. list[i] \in Listed
      BY <1>1, <3>1
    <3> QED
      BY <3>1, <3>2 DEF Listed, IDs
  <2>4. list[i].id = msg.id /\ First(list, i)
    BY <1>2, <1>5, <2>3 DEF First
  <2>5. PICK p \in published[o] : p.of = 0 /\ p.id = list[i].id /\ SameContent(p, list[i])
    BY <2>3, <2>4 DEF Core, ListedOK, ListOK
  <2>6. p = msg
    BY <2>4, <2>5 DEF Core, PublishedOK
  <2>7. Has(tlcMessages[n][o], msg)
    BY <2>3, <2>4, <2>5, <2>6 DEF Has, ToSet, SameContent
  <2> QED
    BY <2>1, <2>2, <2>7
<1>6. CASE i = 0
  <2>1. /\ tlcMessages' = [tlcMessages EXCEPT ![n][o] = Append(list, e)]
        /\ \A j \in DOMAIN list : list[j].id # msg.id
    BY <1>2, <1>3, <1>6
  <2>2. \A q : Has(list, q) => Has(Append(list, e), q)
    BY <1>1, HasAppend
  <2>3. Grows
    <3>1. \A k \in Nodes : published[k] \subseteq published'[k]
      OBVIOUS
    <3> QED
      BY <2>1, <2>2, <3>1, ListChanges
  <2>4. /\ tlcMessages'[n][o] = Append(list, e)
        /\ \A k, l \in Nodes : k # n \/ l # o => tlcMessages'[k][l] = tlcMessages[k][l]
    BY <1>1, <2>1 DEF ListedType
  <2>5. ListOK(list, published[o])
    BY DEF Core, ListedOK
  <2>6. ListOK(Append(list, e), published[o])
    BY <1>1, <1>4, <2>5, ListAppend
  <2>7. ListedOK'
    BY <2>4, <2>6 DEF Core, ListedOK
  <2>8. Has(Append(list, e), msg)
    <3>1. Len(list) + 1 \in DOMAIN Append(list, e) /\ Append(list, e)[Len(list) + 1] = e
      BY <1>1
    <3> QED
      BY <1>4, <3>1 DEF Has, ToSet
  <2> QED
    BY <2>3, <2>4, <2>7, <2>8
<1> QED
  BY <1>5, <1>6

LEMMA CoreStored ==
  ASSUME TypeOK, Core, NEW n \in Nodes, NEW o \in Nodes, NEW msg \in published[o],
         TLCStored(n, o, msg)
  PROVE  Core' /\ Grows
<1>1. /\ Store(n, o, msg) /\ msg.of = 0
      /\ UNCHANGED <<nextID, published, acked, tlcAcks, acks, inbox>>
  BY DEF TLCStored, ackVars
<1>2. ListedOK' /\ Grows
  BY <1>1, StoreLists
<1>3. AckedOK'
  BY <1>1, <1>2, AckedKept DEF Core
<1>4. PublishedOK' /\ ChannelsOK' /\ CollectedOK'
  BY <1>1 DEF Core, PublishedOK, ChannelsOK, CollectedOK
<1> QED
  BY <1>2, <1>3, <1>4 DEF Core

LEMMA CoreAcknowledged ==
  ASSUME TypeOK, Core, NEW n \in Nodes, NEW o \in Nodes, NEW msg \in published[o],
         TLCAcknowledged(n, o, msg)
  PROVE  Core' /\ Grows
<1> DEFINE ack == [from |-> n, to |-> o, id |-> msg.id]
<1>1. /\ Store(n, o, msg) /\ msg.of = 0
      /\ acked' = acked \/ acked' = acked \cup {ack}
      /\ UNCHANGED <<nextID, published, tlcAcks, acks, inbox>>
  BY DEF TLCAcknowledged, AckTLC, ackVars
<1>2. ListedOK' /\ Grows /\ Has(tlcMessages'[n][o], msg)
  BY <1>1, StoreLists
<1>3. AckedOK'
  <2>1. ack.from = n /\ ack.to = o /\ ack.id = msg.id
    OBVIOUS
  <2> HIDE DEF ack
  <2> SUFFICES ASSUME NEW a \in acked'
               PROVE  \E p \in published'[a.to] :
                        p.of = 0 /\ p.id = a.id /\ Has(tlcMessages'[a.from][a.to], p)
    BY DEF AckedOK
  <2>2. CASE a \in acked
    <3>1. a.from \in Nodes /\ a.to \in Nodes
      BY <2>2, TypeParts DEF AckedType
    <3>2. PICK p \in published[a.to] :
            p.of = 0 /\ p.id = a.id /\ Has(tlcMessages[a.from][a.to], p)
      BY <2>2 DEF Core, AckedOK
    <3> QED
      BY <1>2, <3>1, <3>2 DEF Grows
  <2>3. CASE a = ack
    BY <1>1, <1>2, <2>1, <2>3
  <2> QED
    BY <1>1, <2>2, <2>3
<1>4. PublishedOK' /\ ChannelsOK'
  BY <1>1 DEF Core, PublishedOK, ChannelsOK
<1>5. CollectedOK'
  BY <1>1 DEF Core, CollectedOK
<1> QED
  BY <1>2, <1>3, <1>4, <1>5 DEF Core

(* A confirmation marks the message it is for. *)
LEMMA CoreConfirmation ==
  ASSUME TypeOK, Core, NEW n \in Nodes, NEW o \in Nodes, NEW msg \in published[o],
         Confirmation(n, o, msg)
  PROVE  Core' /\ Grows
<1> DEFINE list == tlcMessages[n][o]
           i == Position(n, o, msg)
<1>1. /\ msg.of # 0 /\ i # 0
      /\ tlcMessages' = [tlcMessages EXCEPT ![n][o][i].conf = msg.of]
      /\ UNCHANGED <<nextID, published, acked, tlcAcks, acks, inbox>>
  BY DEF Confirmation, ackVars
<1>2. MsgType /\ ListedType /\ list \in Seq(Listed)
  BY TypeParts DEF ListedType
<1>3. /\ i \in DOMAIN list
      /\ list[i].id = msg.id \/ list[i].id = msg.of
      /\ \A j \in DOMAIN list : j < i => list[j].id # msg.id /\ list[j].id # msg.of
  BY <1>1, <1>2, PositionFirst
<1>4. tlcMessages' = [tlcMessages EXCEPT ![n][o] = WithConf(list, i, msg.of)]
  BY <1>1 DEF WithConf
<1> HIDE DEF i
<1>5. PICK p \in published[o] : p.of = 0 /\ p.id = list[i].id
  BY <1>3 DEF Core, ListedOK, ListOK
<1>6. list[i].id = msg.of
  <2>1. p.id # msg.id
    BY <1>1, <1>5 DEF Core, PublishedOK
  <2> QED
    BY <1>3, <1>5, <2>1
<1>7. First(list, i)
  BY <1>3, <1>6 DEF First
<1>8. ListOK(list, published[o])
  BY DEF Core, ListedOK
<1>9. ListOK(WithConf(list, i, msg.of), published[o])
  BY <1>2, <1>3, <1>6, <1>7, <1>8, ListSet
<1>10. Grows
  <2>1. \A q : Has(list, q) => Has(WithConf(list, i, msg.of), q)
    BY <1>2, <1>3, HasSet
  <2>2. \A k \in Nodes : published[k] \subseteq published'[k]
    BY <1>1
  <2> QED
    BY <1>4, <2>1, <2>2, ListChanges
<1>11. /\ tlcMessages'[n][o] = WithConf(list, i, msg.of)
       /\ \A k, l \in Nodes : k # n \/ l # o => tlcMessages'[k][l] = tlcMessages[k][l]
  BY <1>2, <1>4 DEF ListedType
<1>12. ListedOK'
  BY <1>1, <1>9, <1>11 DEF Core, ListedOK
<1>13. AckedOK'
  BY <1>1, <1>10, AckedKept DEF Core
<1>14. PublishedOK' /\ ChannelsOK' /\ CollectedOK'
  BY <1>1 DEF Core, PublishedOK, ChannelsOK, CollectedOK
<1> QED
  BY <1>10, <1>12, <1>13, <1>14 DEF Core

-----------------------------------------------------------------------------
(* What is built on. *)

LEMMA MajorityGrows ==
  ASSUME Grows, NEW o \in Nodes, NEW p, ByMajority(o, p)
  PROVE  ByMajority(o, p)'
<1>1. \E x \in published'[o] : x.of = p.id /\ SameContent(x, p)
  BY DEF ByMajority, Grows
<1>2. Majority(Cardinality({m \in Nodes : m = o \/ Has(tlcMessages'[m][o], p)}))
  <2>1. \A m \in Nodes : Has(tlcMessages[m][o], p) => Has(tlcMessages'[m][o], p)
    BY DEF Grows
  <2>2. Majority(Cardinality({m \in Nodes : m = o \/ Has(tlcMessages[m][o], p)}))
    BY DEF ByMajority
  <2> QED
    BY <2>1, <2>2, MajorityKept
<1> QED
  BY <1>1, <1>2 DEF ByMajority

LEMMA FoundedGrows ==
  ASSUME Grows, NEW prev, Founded(prev)
  PROVE  Founded(prev)'
<1>1. CASE prev = << >>
  BY <1>1 DEF Founded
<1>2. ASSUME NEW o \in Nodes, NEW x \in published[o],
             prev = Append(x.prev, x.file), ByMajority(o, x)
      PROVE  Founded(prev)'
  <2>1. x \in published'[o]
    BY DEF Grows
  <2>2. ByMajority(o, x)'
    BY <1>2, MajorityGrows
  <2> QED
    BY <1>2, <2>1, <2>2 DEF Founded
<1> QED
  BY <1>1, <1>2 DEF Founded

(* A confirmed message can be built on, whatever ID it is known under. *)
LEMMA FoundedOn ==
  ASSUME TypeOK, Core, NEW o \in Nodes, NEW b \in Blocks, b # Empty, ByMajority(o, b)
  PROVE  Founded(Hash(b))
<1>1. b.id \in IDs /\ b.file \in Files
  BY DEF Blocks
<1>2. Hash(b) = Append(b.prev, b.file)
  BY <1>1, ConsensusAssumption DEF Hash, ConsensusAssumption
<1>3. PICK x \in published[o] : x.of = b.id /\ SameContent(x, b)
  BY DEF ByMajority
<1>4. x.of # 0
  BY <1>1, <1>3 DEF IDs
<1>5. PICK y \in published[o] : y.of = 0 /\ y.id = x.of /\ SameContent(x, y)
  BY <1>4 DEF Core, PublishedOK
<1>6. y.id = b.id /\ y.file = b.file /\ y.prev = b.prev
  BY <1>3, <1>5 DEF SameContent
<1>7. \A m \in Nodes : Has(tlcMessages[m][o], b) <=> Has(tlcMessages[m][o], y)
  BY <1>6 DEF Has, SameContent
<1>8. Majority(Cardinality({m \in Nodes : m = o \/ Has(tlcMessages[m][o], b)}))
  BY DEF ByMajority
<1>9. Majority(Cardinality({m \in Nodes : m = o \/ Has(tlcMessages[m][o], y)}))
  <2>1. {m \in Nodes : m = o \/ Has(tlcMessages[m][o], b)}
          = {m \in Nodes : m = o \/ Has(tlcMessages[m][o], y)}
    BY <1>7
  <2> QED
    BY <1>8, <2>1
<1>10. ByMajority(o, y)
  BY <1>3, <1>5, <1>9 DEF ByMajority
<1> QED
  BY <1>2, <1>6, <1>10 DEF Founded

LEMMA FittestConfirmed ==
  ASSUME TypeOK, Core, NEW n \in Nodes, NEW b \in Fittest(n), b # Empty
  PROVE  /\ b.origin \in Nodes /\ ByMajority(b.origin, b)
         /\ \E i \in DOMAIN tlcMessages[n][n] : tlcMessages[n][n][i].id = b.id
<1>1. b \in ConfirmedNow(n)
  BY FittestType
<1> DEFINE own == tlcMessages[n][n]
<1>2. own # << >>
  BY <1>1 DEF ConfirmedNow
<1>3. PICK o \in Nodes : \E m \in ToSet(tlcMessages[n][o]) :
        /\ m.conf = LastOwn(n)
        /\ b = [origin |-> o, id |-> m.id, file |-> m.file, prev |-> m.prev]
  BY <1>1, <1>2 DEF ConfirmedNow
<1> PICK m \in ToSet(tlcMessages[n][o]) :
        /\ m.conf = LastOwn(n)
        /\ b = [origin |-> o, id |-> m.id, file |-> m.file, prev |-> m.prev]
  BY <1>3
<1> PICK j \in DOMAIN tlcMessages[n][o] : tlcMessages[n][o][j] = m
  BY DEF ToSet
<1>4. ListedType /\ own \in Seq(Listed)
  BY TypeParts DEF ListedType
<1>5. Len(own) \in DOMAIN own /\ LastOwn(n) = own[Len(own)].id
  BY <1>2, <1>4 DEF LastOwn, Last
<1>6. own[Len(own)] \in Listed
  BY <1>4, <1>5
<1>7. m.conf # 0
  BY <1>3, <1>5, <1>6 DEF Listed, IDs
<1>8. m.conf = m.id
  BY <1>7 DEF Core, ListedOK, ListOK
<1>9. b.origin = o /\ b.id = m.id /\ SameContent(b, m)
  BY DEF SameContent
<1>10. ByMajority(o, b)
  BY <1>7, <1>9, ConfirmedEntry
<1>11. b.id = own[Len(own)].id
  BY <1>5, <1>8, <1>9
<1> QED
  BY <1>5, <1>9, <1>10, <1>11

(* What a new message builds on: the last block, or the fittest message. *)
LEMMA ContentFounded ==
  ASSUME TypeOK, Core, BlocksConfirmed, NEW n \in Nodes
  PROVE  Founded(NewContent(n).prev)
<1> DEFINE b == Last(blocks[n])
           i == Len(blocks[n])
<1>1. blocks[n] \in Seq(Blocks) \ {<< >>}
  BY TypeParts DEF BlocksType
<1>2. i \in DOMAIN blocks[n] /\ b = blocks[n][i] /\ b \in Blocks
  BY <1>1 DEF Last
<1>3. NewContent(n).prev = Hash(b)
  BY DEF NewContent
<1>4. CASE b = Empty
  BY <1>3, <1>4 DEF Founded, Hash, Empty
<1>5. CASE b # Empty
  <2>1. ByMajority(b.origin, b)
    BY <1>2, <1>5 DEF BlocksConfirmed, Appended
  <2>2. b.origin \in Nodes
    BY <1>2, <1>5 DEF Blocks
  <2>3. Founded(Hash(b))
    BY <1>2, <1>5, <2>1, <2>2, FoundedOn
  <2> QED
    BY <1>3, <2>3
<1> QED
  BY <1>4, <1>5

LEMMA HistoryGrows ==
  ASSUME Grows, HistoryConfirmed,
         \A n \in Nodes : \A msg \in published'[n] \ published[n] : Founded(msg.prev)
  PROVE  HistoryConfirmed'
<1> SUFFICES ASSUME NEW n \in Nodes, NEW msg \in published'[n]
             PROVE  Founded(msg.prev)'
  BY DEF HistoryConfirmed
<1>1. Founded(msg.prev)
  BY DEF HistoryConfirmed
<1> QED
  BY <1>1, FoundedGrows

LEMMA BlocksGrow ==
  ASSUME Grows, TypeOK, BlocksConfirmed, UNCHANGED blocks
  PROVE  BlocksConfirmed'
<1> SUFFICES ASSUME NEW n \in Nodes, NEW i \in Appended(n)'
             PROVE  ByMajority(blocks[n][i].origin, blocks[n][i])'
  BY DEF BlocksConfirmed
<1>1. PICK b : b = blocks[n][i]
  OBVIOUS
<1>2. i \in Appended(n) /\ i \in DOMAIN blocks[n] /\ b # Empty
  BY <1>1 DEF Appended
<1>3. ByMajority(b.origin, b)
  BY <1>1, <1>2 DEF BlocksConfirmed
<1>4. b.origin \in Nodes
  BY <1>1, <1>2, TypeParts DEF BlocksType, Blocks
<1>5. ByMajority(b.origin, b)'
  BY <1>3, <1>4, MajorityGrows
<1> QED
  BY <1>1, <1>5 DEF ByMajority

LEMMA HaltedGrows ==
  ASSUME Grows, HaltedOK,
         \A n \in Nodes : \A c \in (halted'[n] \cup released'[n]) \ (halted[n] \cup released[n]) :
           Founded(c.prev)
  PROVE  HaltedOK'
<1> SUFFICES ASSUME NEW n \in Nodes, NEW c \in halted'[n] \cup released'[n]
             PROVE  Founded(c.prev)'
  BY DEF HaltedOK
<1>1. Founded(c.prev)
  BY DEF HaltedOK
<1> QED
  BY <1>1, FoundedGrows

(* Steps that neither publish, append a block nor halt a message. *)
LEMMA SameHistory ==
  ASSUME TypeOK, Grows, BlocksConfirmed, HistoryConfirmed, HaltedOK,
         UNCHANGED <<published, blocks, halted, released>>
  PROVE  BlocksConfirmed' /\ HistoryConfirmed' /\ HaltedOK'
BY BlocksGrow, HistoryGrows, HaltedGrows

LEMMA PublishHistory ==
  ASSUME TypeOK, Grows, BlocksConfirmed, HistoryConfirmed, HaltedOK,
         NEW n \in Nodes, NEW c, NEW stored, PublishTLC(n, c, stored), Founded(c.prev),
         UNCHANGED blocks,
         \A k \in Nodes : halted'[k] \subseteq halted[k] /\ released'[k] \subseteq released[k]
  PROVE  BlocksConfirmed' /\ HistoryConfirmed' /\ HaltedOK'
<1>1. published \in [Nodes -> SUBSET Messages]
  BY TypeParts DEF MsgType
<1> DEFINE p == [id |-> nextID[n], of |-> 0, file |-> c.file, prev |-> c.prev]
<1>2. published' = [published EXCEPT ![n] = published[n] \cup {p}] /\ p.prev = c.prev
  BY DEF PublishTLC
<1> HIDE DEF p
<1>3. \A k \in Nodes : \A msg \in published'[k] \ published[k] : Founded(msg.prev)
  BY <1>1, <1>2
<1>4. HistoryConfirmed'
  BY <1>3, HistoryGrows
<1>5. HaltedOK'
  BY HaltedGrows
<1> QED
  BY <1>4, <1>5, BlocksGrow

(* Steps that change neither messages, blocks nor what is halted. *)
LEMMA SameInv ==
  ASSUME IInv, TypeOK', Core', Grows, UNCHANGED <<published, blocks, halted, released>>
  PROVE  IInv'
<1>1. BlocksConfirmed' /\ HistoryConfirmed' /\ HaltedOK'
  BY SameHistory DEF IInv
<1> QED
  BY <1>1 DEF IInv, Core

LEMMA InvListNow ==
  ASSUME IInv, TypeOK', NEW n \in Nodes, ListFileNow(n)
  PROVE  IInv'
<1>1. /\ files[n] < MaxFiles[n]
      /\ PublishTLC(n, NewContent(n), nextID[n])
      /\ UNCHANGED <<acked, inbox, blocks, halted, released>>
  BY DEF ListFileNow, Lists
<1>2. TypeOK /\ Core
  BY DEF IInv, Core
<1> DEFINE c == NewContent(n)
<1>3. c.file \in Files /\ c.prev \in Seq(Files) /\ Founded(c.prev)
  BY <1>1, <1>2, ContentType, ContentFounded DEF IInv, Contents
<1>4. PublishTLC(n, c, nextID[n]) /\ nextID[n] \in IDs
  BY <1>1 DEF PublishTLC
<1> HIDE DEF c
<1>5. Core' /\ Grows
  BY <1>1, <1>2, <1>3, <1>4, CorePublish
<1>6. BlocksConfirmed' /\ HistoryConfirmed' /\ HaltedOK'
  BY <1>1, <1>2, <1>3, <1>4, <1>5, PublishHistory DEF IInv
<1> QED
  BY <1>5, <1>6 DEF IInv, Core

LEMMA InvListLater ==
  ASSUME IInv, TypeOK', NEW n \in Nodes, ListFileLater(n)
  PROVE  IInv'
<1>1. /\ halted' = [halted EXCEPT ![n] = halted[n] \cup {NewContent(n)}]
      /\ UNCHANGED <<nextID, published, tlcMessages, acked, tlcAcks, acks, inbox, blocks,
                     released>>
  BY DEF ListFileLater, messages, ackVars
<1>2. TypeOK /\ Core /\ HaltType
  BY TypeParts DEF IInv, Core
<1>3. Core' /\ Grows
  BY <1>1, <1>2, CoreSame DEF Grows
<1>4. Founded(NewContent(n).prev)
  BY <1>2, ContentFounded DEF IInv
<1> DEFINE d == NewContent(n)
<1>5. \A k \in Nodes : \A c \in halted'[k] \ halted[k] : c = d
  BY <1>1, <1>2 DEF HaltType
<1> HIDE DEF d
<1>6. \A k \in Nodes : \A c \in (halted'[k] \cup released'[k]) \ (halted[k] \cup released[k]) :
        Founded(c.prev)
  BY <1>1, <1>4, <1>5 DEF d
<1>7. HaltedOK'
  BY <1>3, <1>6, HaltedGrows DEF IInv
<1>8. BlocksConfirmed' /\ HistoryConfirmed'
  BY <1>1, <1>2, <1>3, BlocksGrow, HistoryGrows DEF IInv
<1> QED
  BY <1>3, <1>7, <1>8 DEF IInv, Core

LEMMA InvReleased ==
  ASSUME IInv, TypeOK', NEW n \in Nodes, PublishReleased(n)
  PROVE  IInv'
<1>1. PICK c \in released[n] :
        /\ PublishTLC(n, c, nextID[n])
        /\ released' = [released EXCEPT ![n] = released[n] \ {c}]
        /\ UNCHANGED <<acked, inbox, blocks, halted>>
  BY DEF PublishReleased
<1>2. TypeOK /\ Core /\ HaltType
  BY TypeParts DEF IInv, Core
<1>3. c.file \in Files /\ c.prev \in Seq(Files) /\ Founded(c.prev)
  BY <1>2 DEF HaltType, Contents, IInv, HaltedOK
<1>4. nextID[n] \in IDs
  BY <1>1 DEF PublishTLC
<1>5. Core' /\ Grows
  BY <1>1, <1>2, <1>3, <1>4, CorePublish
<1>6. \A k \in Nodes : halted'[k] \subseteq halted[k] /\ released'[k] \subseteq released[k]
  BY <1>1, <1>2 DEF HaltType
<1>7. BlocksConfirmed' /\ HistoryConfirmed' /\ HaltedOK'
  BY <1>1, <1>2, <1>3, <1>5, <1>6, PublishHistory DEF IInv
<1> QED
  BY <1>5, <1>7 DEF IInv, Core

LEMMA InvBlock ==
  ASSUME IInv, TypeOK', NEW n \in Nodes, NEW k \in Callers, AppendBlock(n, k)
  PROVE  IInv'
<1>1. PICK b \in Fittest(n) : blocks' = [blocks EXCEPT ![n] = Append(blocks[n], b)]
  BY DEF AppendBlock
<1>2. UNCHANGED <<nextID, published, tlcMessages, acked, tlcAcks, acks, inbox, halted, released>>
  BY DEF AppendBlock, messages, roundVars, ackVars
<1>3. TypeOK /\ Core /\ BlocksType
  BY TypeParts DEF IInv, Core
<1>4. Core' /\ Grows
  BY <1>2, <1>3, CoreSame DEF Grows
<1>5. HistoryConfirmed' /\ HaltedOK'
  BY <1>2, <1>4, HistoryGrows, HaltedGrows DEF IInv
<1>6. ASSUME NEW m \in Nodes, NEW i \in DOMAIN blocks'[m], blocks'[m][i] # Empty
      PROVE  ByMajority(blocks[m][i].origin, blocks[m][i])'
  <2>1. PICK d : d = blocks'[m][i]
    OBVIOUS
  <2>2. d.origin \in Nodes /\ ByMajority(d.origin, d)
    <3>1. CASE i \in DOMAIN blocks[m] /\ blocks'[m][i] = blocks[m][i]
      <4>1. ByMajority(d.origin, d)
        BY <1>6, <2>1, <3>1 DEF IInv, BlocksConfirmed, Appended
      <4>2. d \in Blocks
        BY <1>3, <2>1, <3>1 DEF BlocksType
      <4> QED
        BY <1>6, <2>1, <4>1, <4>2 DEF Blocks
    <3>2. CASE blocks'[m][i] = b
      BY <1>3, <1>6, <2>1, <3>2, <1>1, FittestConfirmed
    <3>3. blocks[m] \in Seq(Blocks) /\ blocks[n] \in Seq(Blocks)
      BY <1>3 DEF BlocksType
    <3>4. blocks'[m] = IF m = n THEN Append(blocks[n], b) ELSE blocks[m]
      BY <1>1, <1>3 DEF BlocksType
    <3> QED
      BY <3>1, <3>2, <3>3, <3>4
  <2>3. ByMajority(d.origin, d)'
    BY <1>4, <2>2, MajorityGrows
  <2> QED
    BY <2>1, <2>3 DEF ByMajority
<1>7. BlocksConfirmed'
  BY <1>6 DEF BlocksConfirmed, Appended
<1> QED
  BY <1>4, <1>5, <1>7 DEF IInv, Core

LEMMA InvPublishFittest ==
  ASSUME IInv, TypeOK', NEW n \in Nodes, NEW k \in Callers, PublishFittest(n, k)
  PROVE  IInv'
<1>1. PICK b \in Fittest(n) :
        \/ b # Empty /\ PublishTLC(n, [file |-> b.file, prev |-> Hash(b)], b.id)
        \/ UNCHANGED <<messages, tlcAcks, acks>>
  BY DEF PublishFittest
<1>2. UNCHANGED <<acked, inbox, blocks, halted, released>>
  BY DEF PublishFittest
<1>3. TypeOK /\ Core
  BY DEF IInv, Core
<1>4. CASE UNCHANGED <<messages, tlcAcks, acks>>
  <2>1. Core' /\ Grows
    BY <1>2, <1>3, <1>4, CoreSame DEF messages, Grows
  <2> QED
    BY <1>2, <1>4, <2>1, SameInv DEF messages
<1>5. CASE b # Empty /\ PublishTLC(n, [file |-> b.file, prev |-> Hash(b)], b.id)
  <2>1. b \in Blocks /\ Hash(b) \in Seq(Files)
    BY <1>3, FittestType, HashType
  <2>2. /\ b.origin \in Nodes /\ ByMajority(b.origin, b)
        /\ \E i \in DOMAIN tlcMessages[n][n] : tlcMessages[n][n][i].id = b.id
    BY <1>3, <1>5, FittestConfirmed
  <2>3. b.file \in Files /\ b.id \in IDs /\ Founded(Hash(b))
    BY <1>3, <1>5, <2>1, <2>2, FoundedOn DEF Blocks
  <2> DEFINE c == [file |-> b.file, prev |-> Hash(b)]
  <2>4. /\ c.file \in Files /\ c.prev \in Seq(Files) /\ Founded(c.prev)
        /\ PublishTLC(n, c, b.id)
    BY <1>5, <2>1, <2>3
  <2> HIDE DEF c
  <2>5. Core' /\ Grows
    BY <1>2, <1>3, <2>2, <2>3, <2>4, CorePublish
  <2>6. BlocksConfirmed' /\ HistoryConfirmed' /\ HaltedOK'
    BY <1>2, <1>3, <2>4, <2>5, PublishHistory DEF IInv
  <2> QED
    BY <2>5, <2>6 DEF IInv, Core
<1> QED
  BY <1>1, <1>4, <1>5

LEMMA InvNotify ==
  ASSUME IInv, TypeOK', NEW n \in Nodes, NEW k \in Callers, NotifyHalted(n, k)
  PROVE  IInv'
<1>1. PICK c \in halted[n] : \E now \in SUBSET {c} :
        /\ halted' = [halted EXCEPT ![n] = @ \ now]
        /\ released' = [released EXCEPT ![n] = @ \cup now]
  BY DEF NotifyHalted
<1>2. UNCHANGED <<nextID, published, tlcMessages, acked, tlcAcks, acks, inbox, blocks>>
  BY DEF NotifyHalted, messages, ackVars
<1>3. TypeOK /\ Core /\ HaltType
  BY TypeParts DEF IInv, Core
<1>4. Core' /\ Grows
  BY <1>2, <1>3, CoreSame DEF Grows
<1>5. \A m \in Nodes : halted'[m] \cup released'[m] \subseteq halted[m] \cup released[m]
  BY <1>1, <1>3 DEF HaltType
<1>6. HaltedOK'
  BY <1>4, <1>5, HaltedGrows DEF IInv
<1>7. BlocksConfirmed' /\ HistoryConfirmed'
  BY <1>2, <1>3, <1>4, BlocksGrow, HistoryGrows DEF IInv
<1> QED
  BY <1>4, <1>6, <1>7 DEF IInv, Core

LEMMA InvConfirm ==
  ASSUME IInv, TypeOK', NEW n \in Nodes, NEW id \in IDs, NEW m \in inbox[n][id],
         Confirm(n, id, m)
  PROVE  IInv'
<1> DEFINE new == {[c EXCEPT !.id = nextID[n], !.of = id] :
                     c \in {x \in published[n] : x.id = id}}
<1>1. /\ published' = [published EXCEPT ![n] = published[n] \cup new]
      /\ UNCHANGED <<blocks, halted, released>>
  BY DEF Confirm, roundVars
<1>2. TypeOK /\ Core /\ MsgType
  BY TypeParts DEF IInv, Core
<1>3. Core' /\ Grows
  BY <1>2, CoreConfirm
<1>4. \A y \in new : \E x \in published[n] : y.prev = x.prev
  <2>1. ASSUME NEW c \in Messages
        PROVE  [c EXCEPT !.id = nextID[n], !.of = id].prev = c.prev
    BY DEF Messages
  <2>2. \A c \in published[n] : c \in Messages
    BY <1>2 DEF MsgType
  <2> QED
    BY <2>1, <2>2
<1> HIDE DEF new
<1>5. \A k \in Nodes : \A msg \in published'[k] \ published[k] : Founded(msg.prev)
  BY <1>1, <1>2, <1>4 DEF MsgType, IInv, HistoryConfirmed
<1>6. HistoryConfirmed'
  BY <1>3, <1>5, HistoryGrows DEF IInv
<1>7. BlocksConfirmed' /\ HaltedOK'
  BY <1>1, <1>2, <1>3, BlocksGrow, HaltedGrows DEF IInv
<1> QED
  BY <1>3, <1>6, <1>7 DEF IInv, Core

(* The other steps of a round, of the channels and of the acknowledgements. *)
LEMMA InvRound ==
  ASSUME IInv, TypeOK', NEW n \in Nodes, NEW k \in Callers,
         \/ RemoveEntry(n) \/ CountWitnesses(n, k) \/ ReadLength(n, k)
         \/ CheckRound(n, k) \/ AddRound(n, k) \/ StartNotifying(n, k)
  PROVE  IInv'
<1>1. TypeOK /\ Core
  BY DEF IInv, Core
<1>2. UNCHANGED <<nextID, published, tlcMessages, acked, acks, inbox, blocks, halted, released>>
  BY DEF RemoveEntry, CountWitnesses, ReadLength, CheckRound, AddRound, StartNotifying,
         messages, ackVars, roundVars
<1>3. \A m \in Nodes, id \in IDs : tlcAcks'[m][id] # "none" => tlcAcks[m][id] # "none"
  <2>1. CASE UNCHANGED tlcAcks
    BY <2>1
  <2>2. CASE AddRound(n, k)
    BY <2>2, <1>1, TypeParts DEF AddRound, ChanType
  <2> QED
    BY <2>1, <2>2
    DEF RemoveEntry, CountWitnesses, ReadLength, CheckRound, StartNotifying, ackVars
<1>4. Core'
  BY <1>1, <1>2, <1>3, CoreChannels
<1>5. Grows
  BY <1>2 DEF Grows
<1> QED
  BY <1>2, <1>4, <1>5, SameInv

LEMMA InvRemoveChannel ==
  ASSUME IInv, TypeOK', NEW n \in Nodes, NEW id \in IDs, RemoveChannel(n, id)
  PROVE  IInv'
<1>1. /\ tlcAcks' = [tlcAcks EXCEPT ![n][id] = "none"]
      /\ inbox' = [inbox EXCEPT ![n][id] = {}]
      /\ UNCHANGED <<nextID, published, tlcMessages, acked, acks, blocks, halted, released>>
  BY DEF RemoveChannel, messages, roundVars
<1>2. TypeOK /\ Core /\ ChanType
  BY TypeParts DEF IInv, Core
<1>3. \A m \in Nodes, j \in IDs : tlcAcks'[m][j] # "none" => tlcAcks[m][j] # "none"
  BY <1>1, <1>2 DEF ChanType
<1>4. \A m \in Nodes, j \in IDs : inbox'[m][j] \subseteq inbox[m][j]
  BY <1>1, <1>2 DEF ChanType
<1>5. Core'
  BY <1>1, <1>2, <1>3, <1>4, CoreChannels
<1>6. Grows
  BY <1>1 DEF Grows
<1> QED
  BY <1>1, <1>5, <1>6, SameInv

LEMMA InvAckArrives ==
  ASSUME IInv, TypeOK', NEW n \in Nodes, NEW ack \in acked, AckArrives(n, ack)
  PROVE  IInv'
<1>1. /\ ack.to = n
      /\ inbox' = [inbox EXCEPT ![n][ack.id] =
           inbox[n][ack.id] \cup ({ack.from} \ acks[n][ack.id])]
      /\ UNCHANGED <<nextID, published, tlcMessages, acked, tlcAcks, acks, blocks, halted,
                     released>>
  BY DEF AckArrives, messages, roundVars
<1>2. TypeOK /\ Core /\ ChanType
  BY TypeParts DEF IInv, Core
<1>3. /\ ack.id \in IDs
      /\ ack = [from |-> ack.from, to |-> n, id |-> ack.id]
  BY <1>1, <1>2, TypeParts DEF AckedType
<1>4. \A m \in Nodes, j \in IDs : \A x \in inbox'[m][j] :
        x \in inbox[m][j] \/ (m = n /\ j = ack.id /\ x = ack.from)
  BY <1>1, <1>2, <1>3 DEF ChanType
<1>5. \A m \in Nodes, j \in IDs : \A x \in inbox'[m][j] :
        x \in inbox[m][j] \/ [from |-> x, to |-> m, id |-> j] \in acked
  BY <1>3, <1>4
<1>6. Core'
  BY <1>1, <1>2, <1>5, CoreChannels
<1>7. Grows
  BY <1>1 DEF Grows
<1> QED
  BY <1>1, <1>6, <1>7, SameInv

LEMMA InvCollect ==
  ASSUME IInv, TypeOK', NEW n \in Nodes, NEW id \in IDs, NEW m \in inbox[n][id],
         CollectAck(n, id, m)
  PROVE  IInv'
<1>1. UNCHANGED <<published, tlcMessages, blocks, halted, released>>
  BY DEF CollectAck, messages, roundVars
<1>2. Core'
  BY CoreCollect DEF IInv, Core
<1>3. Grows
  BY <1>1 DEF Grows
<1> QED
  BY <1>1, <1>2, <1>3, SameInv

LEMMA InvArrives ==
  ASSUME IInv, TypeOK', NEW n \in Nodes, NEW o \in Nodes, NEW msg \in published[o],
         \/ TLCStored(n, o, msg)
         \/ TLCAcknowledged(n, o, msg)
         \/ EarlyConfirmation(n, o, msg)
         \/ Confirmation(n, o, msg)
  PROVE  IInv'
<1>1. UNCHANGED <<published, blocks, halted, released>>
  BY DEF TLCStored, TLCAcknowledged, EarlyConfirmation, Confirmation, messages, roundVars
<1>2. TypeOK /\ Core
  BY DEF IInv, Core
<1>3. CASE EarlyConfirmation(n, o, msg)
  <2>1. UNCHANGED <<nextID, published, tlcMessages, acked, tlcAcks, acks, inbox>>
    BY <1>3 DEF EarlyConfirmation, messages, ackVars
  <2>2. Core' /\ Grows
    BY <1>2, <2>1, CoreSame DEF Grows
  <2> QED
    BY <1>1, <2>2, SameInv
<1>4. CASE TLCStored(n, o, msg) \/ TLCAcknowledged(n, o, msg) \/ Confirmation(n, o, msg)
  <2>1. Core' /\ Grows
    BY <1>2, <1>4, CoreStored, CoreAcknowledged, CoreConfirmation
  <2> QED
    BY <1>1, <2>1, SameInv
<1> QED
  BY <1>3, <1>4

LEMMA InvInit == Init => IInv
<1> SUFFICES ASSUME Init PROVE IInv
  OBVIOUS
<1>1. TypeOK /\ Core
  BY TypeInit, CoreInit
<1>2. BlocksConfirmed
  BY DEF Init, BlocksConfirmed, Appended
<1>3. HistoryConfirmed /\ HaltedOK
  BY DEF Init, HistoryConfirmed, HaltedOK
<1> QED
  BY <1>1, <1>2, <1>3 DEF IInv, Core

LEMMA InvNext == IInv /\ [Next]_vars => IInv'
<1> SUFFICES ASSUME IInv, [Next]_vars PROVE IInv'
  OBVIOUS
<1>1. TypeOK'
  BY TypeNext DEF IInv
<1>2. CASE UNCHANGED vars
  <2>1. UNCHANGED <<nextID, published, tlcMessages, acked, tlcAcks, acks, inbox, blocks,
                    halted, released>>
    BY <1>2 DEF vars, messages, roundVars, ackVars
  <2>2. Core'
    BY <2>1, CoreSame DEF IInv, Core
  <2>3. Grows
    BY <2>1 DEF Grows
  <2> QED
    BY <1>1, <2>1, <2>2, <2>3, SameInv
<1>3. ASSUME NEW n \in Nodes, NEW k \in Callers, IncrementMytime(n, k)
      PROVE  IInv'
  BY <1>1, <1>3, InvRound, InvBlock, InvPublishFittest, InvNotify DEF IncrementMytime
<1>4. ASSUME NEW n \in Nodes, RemoveEntry(n)
      PROVE  IInv'
  BY <1>1, <1>4, InvRound DEF Callers
<1> QED
  BY <1>1, <1>2, <1>3, <1>4, InvListNow, InvListLater, InvReleased, InvRemoveChannel,
     InvCollect, InvConfirm, InvAckArrives, InvArrives DEF Next

(* The invariant of the messages, lists, channels and acknowledgements:     *)
(* among the rest, no two messages of a node have one ID                    *)
(* (sendNewMsg.go:19-59), an acknowledgement is of a message its sender     *)
(* stored (gossiper.go:756-770), and what a node marks as confirmed         *)
(* (blockchain.go:91-99, gossiper.go:778-784) was confirmed by its origin.  *)
THEOREM Inductive == Spec => []IInv
BY InvInit, InvNext, PTL DEF Spec

(* Whatever a node appends to its blocks (blockchain.go:226-255) is a       *)
(* message that a majority stored with this content and its origin          *)
(* confirmed: findFittestTLC (blockchain.go:491-507) never picks another,   *)
(* even when the node lists messages under the IDs of their copies.         *)
THEOREM BlocksAreConfirmed == Spec => []BlocksConfirmed
<1>1. IInv => BlocksConfirmed
  BY DEF IInv
<1> QED
  BY <1>1, Inductive, PTL

(* PrevHash (blockchain.go:15-47) is always the hash of the first block or  *)
(* of a message a majority stored, however long a message was halted.       *)
THEOREM HistoryIsConfirmed == Spec => []HistoryConfirmed
<1>1. IInv => HistoryConfirmed
  BY DEF IInv
<1> QED
  BY <1>1, Inductive, PTL
=============================================================================
