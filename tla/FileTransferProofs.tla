------------------------- MODULE FileTransferProofs -------------------------
(***************************************************************************)
(* Proofs about FileTransfer, for any nodes, files, downloads and bounds.  *)
(***************************************************************************)
EXTENDS FileTransfer, SequenceTheorems, TLAPS

-----------------------------------------------------------------------------
(* Lemmas on data. *)

LEMMA MetaType ==
  /\ \A f \in Files : Meta[f] \in Seq(Chunks) /\ Len(Meta[f]) \in Nat
  /\ \A f \in Files : \A i \in 1 .. Len(Meta[f]) : Meta[f][i] \in Chunks
  /\ \A f \in Files : f \notin Chunks
BY TransferAssumption, LenProperties, ElementOfSeq DEF TransferAssumption

LEMMA ThreadConstants ==
  ASSUME NEW t \in Threads
  PROVE  /\ At[t] \in Nodes /\ Wants[t] \in Files
         /\ MetaOf(t) = Meta[Wants[t]] /\ MetaOf(t) \in Seq(Chunks) /\ Len(MetaOf(t)) \in Nat
         /\ \A i \in 0 .. Len(MetaOf(t)) : From[t][i] \in Nodes
         /\ \A i \in 1 .. Len(MetaOf(t)) : MetaOf(t)[i] \in Chunks
<1>1. At[t] \in Nodes /\ Wants[t] \in Files
  BY TransferAssumption DEF TransferAssumption
<1>2. MetaOf(t) = Meta[Wants[t]]
  BY DEF MetaOf
<1>3. MetaOf(t) \in Seq(Chunks) /\ Len(MetaOf(t)) \in Nat
  BY <1>1, <1>2, MetaType
<1>4. \A i \in 1 .. Len(MetaOf(t)) : MetaOf(t)[i] \in Chunks
  BY <1>1, <1>2, MetaType
<1>5. From[t] \in [0 .. Len(MetaOf(t)) -> Nodes]
  BY <1>2, TransferAssumption DEF TransferAssumption
<1> QED
  BY <1>1, <1>2, <1>3, <1>4, <1>5

LEMMA HashOfType ==
  ASSUME NEW t \in Threads, NEW i \in 0 .. Len(MetaOf(t))
  PROVE  /\ HashOf(t, i) \in Hash
         /\ i # 0 => HashOf(t, i) = MetaOf(t)[i] /\ HashOf(t, i) \in Chunks
<1>1. CASE i = 0
  BY <1>1, ThreadConstants DEF HashOf, Hash
<1>2. CASE i # 0
  <2>1. i \in 1 .. Len(MetaOf(t))
    BY <1>2, ThreadConstants
  <2> QED
    BY <1>2, <2>1, ThreadConstants DEF HashOf, Hash
<1> QED
  BY <1>1, <1>2

LEMMA RequestType ==
  ASSUME NEW t \in Threads, NEW i \in 0 .. Len(MetaOf(t))
  PROVE  Request(t, i) \in DataRequest
BY ThreadConstants, HashOfType DEF Request, DataRequest

LEMMA PartsType ==
  ASSUME TypeOK, NEW n \in Nodes, NEW c, NEW s \in {"full", "empty"},
         parts' = [parts EXCEPT ![n][c] = s]
  PROVE  parts' \in [Nodes -> [Chunks -> PartStates]]
BY DEF TypeOK, PartStates

(* What is in flight after a step was in flight or sent by it. *)
LEMMA TransmitType ==
  ASSUME TypeOK, NEW sent, sent \subseteq DataRequest \cup DataReply, Transmit(sent)
  PROVE  net' \subseteq DataRequest \cup DataReply
BY DEF TypeOK, Transmit

(* Removing an entry of a list leaves a list. *)
LEMMA RemoveAtType ==
  ASSUME NEW S, NEW s \in Seq(S), NEW i \in DOMAIN s
  PROVE  RemoveAt(s, i) \in Seq(S)
<1>1. Len(s) \in Nat /\ i \in 1 .. Len(s)
  BY LenProperties
<1>2. \A k \in 1 .. Len(s) : s[k] \in S
  BY ElementOfSeq
<1>3. SubSeq(s, 1, i - 1) \in Seq(S)
  BY <1>1, <1>2, SubSeqProperties
<1>4. SubSeq(s, i + 1, Len(s)) \in Seq(S)
  BY <1>1, <1>2, SubSeqProperties
<1> QED
  BY <1>3, <1>4, ConcatProperties DEF RemoveAt

-----------------------------------------------------------------------------
(* Types. *)

LEMMA TypeInit == Init => TypeOK
BY ThreadConstants, MetaType
DEF Init, TypeOK, PCs, PartStates, IndexingFile

(* handleFileIndexing. *)
LEMMA TypeIndexing ==
  ASSUME TypeOK, NEW n \in Nodes,
         (\E f \in Shared[n] : StartIndexing(n, f)) \/ IndexChunk(n) \/ EndIndexing(n)
  PROVE  TypeOK'
<1> USE DEF TypeOK
<1>1. ASSUME NEW f \in Shared[n], StartIndexing(n, f) PROVE TypeOK'
  <2>1. f \in Files
    BY TransferAssumption DEF TransferAssumption
  <2>2. Len(Meta[f]) \in Nat
    BY <2>1, MetaType
  <2> DEFINE w == [file |-> f, chunk |-> 1, open |-> FALSE]
  <2>3. w \in IndexingFile
    BY <2>1 DEF IndexingFile
  <2>4. indexing' = [indexing EXCEPT ![n] = {w}]
    BY <1>1 DEF StartIndexing
  <2>5. w.file = f /\ w.chunk = 1
    OBVIOUS
  <2> HIDE DEF w
  <2>6. indexing' \in [Nodes -> SUBSET IndexingFile]
    BY <2>3, <2>4
  <2>7. \A m \in Nodes : \A v \in indexing'[m] :
          indexing'[m] = {v} /\ v.chunk \in 1 .. (Len(Meta[v.file]) + 1)
    BY <2>2, <2>4, <2>5
  <2> QED
    BY <1>1, <2>6, <2>7 DEF StartIndexing, threadVars, workerVars, diskVars
<1>2. CASE IndexChunk(n)
  <2>1. PICK w \in indexing[n] :
        /\ w.chunk <= Len(Meta[w.file])
        /\ \/ /\ parts' = [parts EXCEPT ![n][Meta[w.file][w.chunk]] = "full"]
              /\ indexing' = [indexing EXCEPT ![n] =
                   {[file |-> w.file, chunk |-> w.chunk + 1, open |-> FALSE]}]
           \/ /\ parts' = [parts EXCEPT ![n][Meta[w.file][w.chunk]] = "empty"]
              /\ indexing' = [indexing EXCEPT ![n] =
                   {[file |-> w.file, chunk |-> w.chunk, open |-> TRUE]}]
        /\ UNCHANGED <<threadVars, downloads, workerVars, indexed, chunkMap, net>>
    BY <1>2 DEF IndexChunk
  <2>2. w \in IndexingFile /\ w.file \in Files /\ w.chunk \in Nat /\ w.chunk > 0
    BY DEF IndexingFile
  <2>3. Len(Meta[w.file]) \in Nat
    BY <2>2, MetaType
  <2>4. PICK s \in {"full", "empty"}, k \in {w.chunk, w.chunk + 1}, o \in BOOLEAN :
          /\ parts' = [parts EXCEPT ![n][Meta[w.file][w.chunk]] = s]
          /\ indexing' = [indexing EXCEPT ![n] = {[file |-> w.file, chunk |-> k, open |-> o]}]
    BY <2>1
  <2> DEFINE v == [file |-> w.file, chunk |-> k, open |-> o]
  <2>5. v \in IndexingFile /\ v.file = w.file /\ v.chunk \in 1 .. (Len(Meta[w.file]) + 1)
    BY <2>1, <2>2, <2>3 DEF IndexingFile
  <2>6. indexing' = [indexing EXCEPT ![n] = {v}]
    BY <2>4
  <2> HIDE DEF v
  <2>7. indexing' \in [Nodes -> SUBSET IndexingFile]
    BY <2>5, <2>6
  <2>8. \A m \in Nodes : \A q \in indexing'[m] :
          indexing'[m] = {q} /\ q.chunk \in 1 .. (Len(Meta[q.file]) + 1)
    BY <2>5, <2>6
  <2>9. parts' \in [Nodes -> [Chunks -> PartStates]]
    <3> DEFINE part == Meta[w.file][w.chunk]
    <3>1. parts' = [parts EXCEPT ![n][part] = s]
      BY <2>4
    <3> HIDE DEF part
    <3> QED
      BY <3>1, PartsType
  <2>10. UNCHANGED <<pc, asking, file, downloads, sending, reply, indexed, chunkMap, net>>
    BY <2>1 DEF threadVars, workerVars
  <2> QED
    BY <2>7, <2>8, <2>9, <2>10
<1>3. CASE EndIndexing(n)
  <2> PICK w \in indexing[n] :
        /\ indexed' = [indexed EXCEPT ![n] = @ \cup {w.file}]
        /\ chunkMap' = [chunkMap EXCEPT ![n][w.file] = Len(Meta[w.file])]
        /\ indexing' = [indexing EXCEPT ![n] = {}]
        /\ UNCHANGED <<threadVars, downloads, workerVars, parts, net>>
    BY <1>3 DEF EndIndexing
  <2>1. w.file \in Files
    BY DEF IndexingFile
  <2>2. Len(Meta[w.file]) \in Nat
    BY <2>1, MetaType
  <2>3. indexed' \in [Nodes -> SUBSET Files]
    BY <2>1
  <2>4. chunkMap' \in [Nodes -> [Files -> Nat]]
    BY <2>1, <2>2
  <2>5. \A m \in Nodes, f \in Files : chunkMap'[m][f] <= Len(Meta[f])
    BY <2>1, <2>2
  <2>6. indexing' \in [Nodes -> SUBSET IndexingFile]
    OBVIOUS
  <2>7. \A m \in Nodes : \A q \in indexing'[m] :
          indexing'[m] = {q} /\ q.chunk \in 1 .. (Len(Meta[q.file]) + 1)
    OBVIOUS
  <2> QED
    BY <2>3, <2>4, <2>5, <2>6, <2>7 DEF threadVars, workerVars
<1> QED
  BY <1>1, <1>2, <1>3

(* gossipWorker. *)
LEMMA TypeWorker ==
  ASSUME TypeOK, NEW n \in Nodes, NEW p \in net,
         HandleDataRequest(n, p) \/ HandleDataReply(n, p)
  PROVE  TypeOK'
<1>1. CASE HandleDataRequest(n, p)
  <2> DEFINE q == [kind |-> "reply", from |-> n, to |-> p.from, hash |-> p.hash,
                   data |-> HasData(n, p.hash)]
  <2>1. p \in DataRequest
    BY <1>1 DEF HandleDataRequest, TypeOK, DataReply
  <2>2. q \in DataReply
    BY <2>1 DEF DataRequest, DataReply, HasData
  <2>3. Transmit({q})
    BY <1>1 DEF HandleDataRequest
  <2> HIDE DEF q
  <2>4. net' \subseteq DataRequest \cup DataReply
    BY <2>2, <2>3, TransmitType
  <2> QED
    BY <1>1, <2>4 DEF HandleDataRequest, TypeOK, threadVars, workerVars, diskVars, clientVars
<1>2. CASE HandleDataReply(n, p)
  <2>1. p \in DataReply
    BY <1>2 DEF HandleDataReply, TypeOK, DataRequest
  <2>2. net' \subseteq DataRequest \cup DataReply
    BY <1>2, TransmitType DEF HandleDataReply
  <2>3. /\ sending' = [sending EXCEPT ![n] = downloads[n]]
        /\ reply' = [reply EXCEPT ![n] = IF downloads[n] = << >> THEN {} ELSE {p}]
    BY <1>2 DEF HandleDataReply
  <2>4. sending' \in [Nodes -> Seq(Threads)] /\ reply' \in [Nodes -> SUBSET DataReply]
    BY <2>1, <2>3 DEF TypeOK
  <2>5. \A m \in Nodes : reply'[m] = {} <=> sending'[m] = << >>
    BY <2>3 DEF TypeOK
  <2> QED
    BY <1>2, <2>2, <2>4, <2>5 DEF HandleDataReply, TypeOK, threadVars, diskVars, clientVars
<1> QED
  BY <1>1, <1>2

(* A thread's receive takes the channel off the worker's list. *)
LEMMA ReceiveType ==
  ASSUME TypeOK, NEW t \in Threads, NEW p \in reply[At[t]], Receive(t, p)
  PROVE  /\ p \in DataReply /\ pc[t] = "select"
         /\ sending' \in [Nodes -> Seq(Threads)]
         /\ reply' \in [Nodes -> SUBSET DataReply]
         /\ \A m \in Nodes : reply'[m] = {} <=> sending'[m] = << >>
         /\ \A m \in Nodes : reply'[m] \subseteq reply[m]
<1> DEFINE n == At[t]
<1>1. n \in Nodes
  BY ThreadConstants
<1>2. /\ pc[t] = "select"
      /\ sending[n] # << >>
      /\ sending' = [sending EXCEPT ![n] = Tail(@)]
      /\ reply' = [reply EXCEPT ![n] = IF Len(sending[n]) = 1 THEN {} ELSE @]
  BY DEF Receive
<1>3. sending[n] \in Seq(Threads) /\ reply[n] \in SUBSET DataReply /\ reply[n] # {}
  BY <1>1 DEF TypeOK
<1>4. /\ Tail(sending[n]) \in Seq(Threads)
      /\ Len(sending[n]) \in Nat
      /\ Len(Tail(sending[n])) = Len(sending[n]) - 1
  BY <1>2, <1>3, HeadTailProperties, LenProperties
<1>5. Tail(sending[n]) = << >> <=> Len(sending[n]) = 1
  <2>1. \A q \in Seq(Threads) : q = << >> <=> Len(q) = 0
    BY EmptySeq
  <2>2. Tail(sending[n]) = << >> <=> Len(Tail(sending[n])) = 0
    BY <1>4, <2>1
  <2> QED
    BY <1>4, <2>2
<1> HIDE DEF n
<1>6. sending' \in [Nodes -> Seq(Threads)]
  BY <1>1, <1>2, <1>4 DEF TypeOK
<1>7. reply' \in [Nodes -> SUBSET DataReply] /\ \A m \in Nodes : reply'[m] \subseteq reply[m]
  BY <1>1, <1>2, <1>3 DEF TypeOK
<1>8. \A m \in Nodes : reply'[m] = {} <=> sending'[m] = << >>
  BY <1>1, <1>2, <1>3, <1>5 DEF TypeOK
<1> QED
  BY <1>2, <1>3, <1>6, <1>7, <1>8 DEF n

LEMMA TypeReceive ==
  ASSUME TypeOK, RepliesOK, NEW t \in Threads, NEW p \in reply[At[t]], ReceiveReply(t, p)
  PROVE  TypeOK'
<1>1. At[t] \in Nodes /\ Wants[t] \in Files /\ Len(MetaOf(t)) \in Nat
      /\ MetaOf(t) = Meta[Wants[t]]
  BY ThreadConstants
<1>2. asking[t] \in 0 .. Len(MetaOf(t))
  BY <1>1 DEF TypeOK
<1>3. Receive(t, p)
  BY DEF ReceiveReply, ReceiveRefusal, ReceiveOther, ReceiveMetafile, ReceiveChunk
<1>4. /\ sending' \in [Nodes -> Seq(Threads)]
      /\ reply' \in [Nodes -> SUBSET DataReply]
      /\ \A m \in Nodes : reply'[m] = {} <=> sending'[m] = << >>
  BY <1>3, ReceiveType
<1>5. CASE ReceiveRefusal(t, p)
  <2>1. pc' \in [Threads -> PCs]
    BY <1>5 DEF ReceiveRefusal, TypeOK, PCs
  <2> QED
    BY <1>4, <1>5, <2>1 DEF ReceiveRefusal, TypeOK, diskVars, clientVars
<1>6. CASE ReceiveOther(t, p)
  BY <1>4, <1>6 DEF ReceiveOther, TypeOK, threadVars, diskVars, clientVars
<1>7. CASE ReceiveMetafile(t, p) /\ Len(MetaOf(t)) # 0
  <2>1. /\ asking' = [asking EXCEPT ![t] = 1]
        /\ file' = [file EXCEPT ![t] = << >>]
        /\ indexed' = [indexed EXCEPT ![At[t]] = @ \cup {Wants[t]}]
        /\ chunkMap' = [chunkMap EXCEPT ![At[t]][Wants[t]] = 0]
        /\ Transmit({Request(t, 1)})
        /\ UNCHANGED <<pc, downloads, parts, indexing>>
    BY <1>7 DEF ReceiveMetafile, clientVars
  <2>2. asking' \in [Threads -> Nat] /\ \A u \in Threads : asking'[u] <= Len(MetaOf(u))
    BY <1>1, <1>7, <2>1 DEF TypeOK
  <2>3. file' \in [Threads -> Seq(Chunks)]
    BY <2>1, EmptySeq DEF TypeOK
  <2>4. indexed' \in [Nodes -> SUBSET Files]
    BY <1>1, <2>1 DEF TypeOK
  <2>5. chunkMap' \in [Nodes -> [Files -> Nat]]
    BY <1>1, <2>1 DEF TypeOK
  <2>6. \A m \in Nodes, f \in Files : chunkMap'[m][f] <= Len(Meta[f])
    <3>1. Len(Meta[Wants[t]]) \in Nat
      BY <1>1
    <3> QED
      BY <1>1, <2>1, <3>1 DEF TypeOK
  <2>7. net' \subseteq DataRequest \cup DataReply
    <3>1. Request(t, 1) \in DataRequest
      BY <1>1, <1>7, RequestType
    <3> QED
      BY <2>1, <3>1, TransmitType
  <2> QED
    BY <1>4, <2>1, <2>2, <2>3, <2>4, <2>5, <2>6, <2>7 DEF TypeOK
<1>8. CASE ReceiveChunk(t, p)
  <2>1. /\ asking[t] > 0 /\ p.hash = HashOf(t, asking[t])
        /\ indexed' = [indexed EXCEPT ![At[t]] = @ \cup {Wants[t]}]
        /\ chunkMap' = [chunkMap EXCEPT ![At[t]][Wants[t]] = asking[t]]
        /\ file' = [file EXCEPT ![t] = Append(@, p.hash)]
        /\ pc' = [pc EXCEPT ![t] = "create"]
        /\ UNCHANGED <<asking, downloads, parts, indexing, net>>
    BY <1>8 DEF ReceiveChunk, Answers, ChunkNumber, clientVars
  <2>2. p.hash \in Chunks
    BY <1>2, <2>1, HashOfType
  <2>3. file' \in [Threads -> Seq(Chunks)]
    <3>1. Append(file[t], p.hash) \in Seq(Chunks)
      BY <2>2, AppendProperties DEF TypeOK
    <3> QED
      BY <2>1, <3>1 DEF TypeOK
  <2>4. indexed' \in [Nodes -> SUBSET Files]
    BY <1>1, <2>1 DEF TypeOK
  <2>5. chunkMap' \in [Nodes -> [Files -> Nat]]
    BY <1>1, <1>2, <2>1 DEF TypeOK
  <2>6. \A m \in Nodes, f \in Files : chunkMap'[m][f] <= Len(Meta[f])
    BY <1>1, <1>2, <2>1 DEF TypeOK
  <2>7. pc' \in [Threads -> PCs]
    BY <2>1 DEF TypeOK, PCs
  <2> QED
    BY <1>4, <2>1, <2>3, <2>4, <2>5, <2>6, <2>7 DEF TypeOK
<1>9. ReceiveMetafile(t, p) => Len(MetaOf(t)) # 0
  <2> SUFFICES ASSUME ReceiveMetafile(t, p) PROVE Len(MetaOf(t)) # 0
    OBVIOUS
  <2>1. p.data /\ p.hash = Wants[t]
    BY DEF ReceiveMetafile, Answers, HashOf
  <2>2. p.kind = "reply"
    BY <1>3, ReceiveType DEF DataReply
  <2>3. Meta[Wants[t]] # << >>
    BY <1>1, <2>1, <2>2 DEF RepliesOK
  <2>4. \A q \in Seq(Chunks) : q = << >> <=> Len(q) = 0
    BY EmptySeq
  <2> QED
    BY <1>1, <2>3, <2>4, ThreadConstants
<1> QED
  BY <1>5, <1>6, <1>7, <1>8, <1>9 DEF ReceiveReply

(* The other steps of a download. *)
LEMMA TypeAsk ==
  ASSUME TypeOK, NEW t \in Threads,
         StartDownload(t) \/ NoRoute(t) \/ AskMetafile(t) \/ Timeout(t)
  PROVE  TypeOK'
<1>1. At[t] \in Nodes /\ Len(MetaOf(t)) \in Nat
  BY ThreadConstants
<1>2. CASE StartDownload(t)
  <2>1. Append(downloads[At[t]], t) \in Seq(Threads)
    BY <1>1, AppendProperties DEF TypeOK
  <2>2. downloads' \in [Nodes -> Seq(Threads)]
    BY <1>1, <1>2, <2>1 DEF StartDownload, TypeOK
  <2>3. pc' \in [Threads -> PCs]
    BY <1>2 DEF StartDownload, TypeOK, PCs
  <2> QED
    BY <1>2, <2>2, <2>3 DEF StartDownload, TypeOK, workerVars, diskVars, clientVars
<1>3. CASE NoRoute(t)
  <2>1. pc' \in [Threads -> PCs]
    BY <1>3 DEF NoRoute, TypeOK, PCs
  <2> QED
    BY <1>3, <2>1 DEF NoRoute, TypeOK, workerVars, diskVars, clientVars
<1>4. CASE AskMetafile(t)
  <2>1. pc' \in [Threads -> PCs]
    BY <1>4 DEF AskMetafile, TypeOK, PCs
  <2>2. net' \subseteq DataRequest \cup DataReply
    <3>1. Request(t, 0) \in DataRequest
      BY <1>1, RequestType
    <3> QED
      BY <1>4, <3>1, TransmitType DEF AskMetafile
  <2> QED
    BY <1>4, <2>1, <2>2 DEF AskMetafile, TypeOK, workerVars, diskVars, clientVars
<1>5. CASE Timeout(t)
  <2>1. net' \subseteq DataRequest \cup DataReply
    <3>1. asking[t] \in 0 .. Len(MetaOf(t))
      BY <1>1 DEF TypeOK
    <3>2. Request(t, asking[t]) \in DataRequest
      BY <3>1, RequestType
    <3> QED
      BY <1>5, <3>2, TransmitType DEF Timeout
  <2> QED
    BY <1>5, <2>1 DEF Timeout, TypeOK, threadVars, workerVars, diskVars, clientVars
<1> QED
  BY <1>2, <1>3, <1>4, <1>5

LEMMA TypeStore ==
  ASSUME TypeOK, NEW t \in Threads, CreatePart(t) \/ WritePart(t)
  PROVE  TypeOK'
<1>1. At[t] \in Nodes /\ Len(MetaOf(t)) \in Nat /\ asking[t] \in 0 .. Len(MetaOf(t))
  BY ThreadConstants DEF TypeOK
<1> DEFINE part == HashOf(t, asking[t])
<1>2. CASE CreatePart(t)
  <2>1. /\ parts' = [parts EXCEPT ![At[t]][part] = "empty"]
        /\ pc' = [pc EXCEPT ![t] = "write"]
        /\ UNCHANGED <<asking, file, downloads, sending, reply, indexed, chunkMap, indexing, net>>
    BY <1>2 DEF CreatePart, workerVars, clientVars
  <2> HIDE DEF part
  <2>2. parts' \in [Nodes -> [Chunks -> PartStates]]
    BY <1>1, <2>1, PartsType
  <2>3. pc' \in [Threads -> PCs]
    BY <2>1 DEF TypeOK, PCs
  <2> QED
    BY <2>1, <2>2, <2>3 DEF TypeOK
<1>3. CASE WritePart(t)
  <2>1. /\ parts' = [parts EXCEPT ![At[t]][part] = "full"]
        /\ UNCHANGED <<file, downloads, sending, reply, indexed, chunkMap, indexing>>
    BY <1>3 DEF WritePart, workerVars, clientVars
  <2> HIDE DEF part
  <2>2. parts' \in [Nodes -> [Chunks -> PartStates]]
    BY <1>1, <2>1, PartsType
  <2>3. CASE asking[t] = Len(MetaOf(t))
    <3>1. pc' = [pc EXCEPT ![t] = "finishing"] /\ UNCHANGED <<asking, net>>
      BY <1>3, <2>3 DEF WritePart
    <3>2. pc' \in [Threads -> PCs]
      BY <3>1 DEF TypeOK, PCs
    <3> QED
      BY <2>1, <2>2, <3>1, <3>2 DEF TypeOK
  <2>4. CASE asking[t] # Len(MetaOf(t))
    <3>1. /\ pc' = [pc EXCEPT ![t] = "select"]
          /\ asking' = [asking EXCEPT ![t] = @ + 1]
          /\ Transmit({Request(t, asking[t] + 1)})
      BY <1>3, <2>4 DEF WritePart
    <3>2. asking[t] + 1 \in 0 .. Len(MetaOf(t))
      BY <1>1, <2>4
    <3>3. asking' \in [Threads -> Nat] /\ \A u \in Threads : asking'[u] <= Len(MetaOf(u))
      BY <3>1, <3>2 DEF TypeOK
    <3>4. pc' \in [Threads -> PCs]
      BY <3>1 DEF TypeOK, PCs
    <3>5. Request(t, asking[t] + 1) \in DataRequest
      BY <3>2, RequestType
    <3>6. net' \subseteq DataRequest \cup DataReply
      BY <3>1, <3>5, TransmitType
    <3> QED
      BY <2>1, <2>2, <3>3, <3>4, <3>6 DEF TypeOK
  <2> QED
    BY <2>3, <2>4
<1> QED
  BY <1>2, <1>3

LEMMA TypeRemove ==
  ASSUME TypeOK, NEW t \in Threads, RemoveChannel(t)
  PROVE  TypeOK'
<1>1. At[t] \in Nodes
  BY ThreadConstants
<1>2. PICK i \in DOMAIN downloads[At[t]] :
        downloads' = [downloads EXCEPT ![At[t]] = RemoveAt(@, i)]
  BY DEF RemoveChannel
<1>3. RemoveAt(downloads[At[t]], i) \in Seq(Threads)
  BY <1>1, RemoveAtType DEF TypeOK
<1>4. downloads' \in [Nodes -> Seq(Threads)]
  BY <1>1, <1>2, <1>3 DEF TypeOK
<1>5. pc' \in [Threads -> PCs]
  BY DEF RemoveChannel, TypeOK, PCs
<1>6. UNCHANGED <<asking, file, sending, reply, indexed, chunkMap, parts, indexing, net>>
  BY DEF RemoveChannel, workerVars, diskVars, clientVars
<1> QED
  BY <1>4, <1>5, <1>6 DEF TypeOK

LEMMA TypeNext == TypeOK /\ RepliesOK /\ [Next]_vars => TypeOK'
<1> SUFFICES ASSUME TypeOK, RepliesOK, [Next]_vars PROVE TypeOK'
  OBVIOUS
<1>1. CASE \E n \in Nodes :
             \/ \E f \in Shared[n] : StartIndexing(n, f)
             \/ IndexChunk(n)
             \/ EndIndexing(n)
  BY <1>1, TypeIndexing
<1>2. CASE \E n \in Nodes : \E p \in net : HandleDataRequest(n, p) \/ HandleDataReply(n, p)
  BY <1>2, TypeWorker
<1>3. CASE \E t \in Threads : StartDownload(t) \/ ThreadStep(t) \/ Timeout(t)
  BY <1>3, TypeAsk, TypeReceive, TypeStore, TypeRemove DEF ThreadStep
<1>4. CASE UNCHANGED vars
  BY <1>4 DEF TypeOK, vars, threadVars, workerVars, diskVars, clientVars
<1> QED
  BY <1>1, <1>2, <1>3, <1>4 DEF Next
-----------------------------------------------------------------------------
(* Replies with data. *)

(* A reply sent or received in a step was in flight, or has been looked up. *)
LEMMA RepliesKept ==
  ASSUME RepliesOK, NEW sent,
         net' \subseteq net \cup sent,
         \A n \in Nodes : reply'[n] \subseteq reply[n] \cup net,
         \A q \in sent : q.kind = "reply" /\ q.data /\ q.hash \in Files => Meta[q.hash] # << >>
  PROVE  RepliesOK'
BY DEF RepliesOK

LEMMA RepliesLeft ==
  ASSUME RepliesOK, net' \subseteq net, \A n \in Nodes : reply'[n] \subseteq reply[n] \cup net
  PROVE  RepliesOK'
BY DEF RepliesOK

LEMMA RepliesNext == TypeOK /\ RepliesOK /\ [Next]_vars => RepliesOK'
<1> SUFFICES ASSUME TypeOK, RepliesOK, [Next]_vars PROVE RepliesOK'
  OBVIOUS
<1>0. ASSUME UNCHANGED <<net, reply>> PROVE RepliesOK'
  BY <1>0 DEF RepliesOK
<1>1. ASSUME NEW t \in Threads, NEW i, Transmit({Request(t, i)}),
             \A n \in Nodes : reply'[n] \subseteq reply[n] \cup net
      PROVE  RepliesOK'
  <2>1. Request(t, i).kind # "reply"
    BY DEF Request
  <2>2. net' \subseteq net \cup {Request(t, i)}
    BY <1>1 DEF Transmit
  <2> QED
    BY <1>1, <2>1, <2>2, RepliesKept
<1>2. CASE \E n \in Nodes :
             \/ \E f \in Shared[n] : StartIndexing(n, f)
             \/ IndexChunk(n)
             \/ EndIndexing(n)
  BY <1>0, <1>2 DEF StartIndexing, IndexChunk, EndIndexing, workerVars
<1>3. ASSUME NEW n \in Nodes, NEW p \in net, HandleDataRequest(n, p) PROVE RepliesOK'
  <2> DEFINE q == [kind |-> "reply", from |-> n, to |-> p.from, hash |-> p.hash,
                   data |-> HasData(n, p.hash)]
  <2>1. q.data = HasData(n, p.hash) /\ q.hash = p.hash
    OBVIOUS
  <2>2. Transmit({q}) /\ UNCHANGED reply
    BY <1>3 DEF HandleDataRequest, workerVars
  <2> HIDE DEF q
  <2>3. q.data /\ q.hash \in Files => Meta[q.hash] # << >>
    BY <2>1, MetaType DEF HasData
  <2>4. net' \subseteq net \cup {q} /\ \A m \in Nodes : reply'[m] \subseteq reply[m] \cup net
    BY <2>2 DEF Transmit
  <2>5. ASSUME NEW r \in net' \cup UNION {reply'[m] : m \in Nodes},
               r.kind = "reply" /\ r.data /\ r.hash \in Files
        PROVE  Meta[r.hash] # << >>
    <3>1. CASE r = q
      BY <2>3, <2>5, <3>1
    <3>2. CASE r \in net \/ \E m \in Nodes : r \in reply[m]
      BY <2>5, <3>2 DEF RepliesOK
    <3> QED
      BY <2>4, <2>5, <3>1, <3>2
  <2> QED
    BY <2>5 DEF RepliesOK
<1>4. ASSUME NEW n \in Nodes, NEW p \in net, HandleDataReply(n, p) PROVE RepliesOK'
  <2>1. net' \subseteq net
    BY <1>4 DEF HandleDataReply, Transmit
  <2>2. reply' = [reply EXCEPT ![n] = IF downloads[n] = << >> THEN {} ELSE {p}]
    BY <1>4 DEF HandleDataReply
  <2>3. \A m \in Nodes : reply'[m] \subseteq reply[m] \cup net
    BY <2>2 DEF TypeOK
  <2> QED
    BY <2>1, <2>3, RepliesLeft
<1>5. ASSUME NEW t \in Threads, StartDownload(t) \/ ThreadStep(t) \/ Timeout(t) PROVE RepliesOK'
  <2>1. CASE StartDownload(t) \/ NoRoute(t) \/ CreatePart(t) \/ RemoveChannel(t)
    BY <1>0, <2>1 DEF StartDownload, NoRoute, CreatePart, RemoveChannel, workerVars
  <2>2. CASE AskMetafile(t)
    BY <1>1, <2>2 DEF AskMetafile, workerVars
  <2>3. CASE Timeout(t)
    BY <1>1, <2>3 DEF Timeout, workerVars
  <2>4. ASSUME NEW p \in reply[At[t]], ReceiveReply(t, p) PROVE RepliesOK'
    <3>1. Receive(t, p)
      BY <2>4 DEF ReceiveReply, ReceiveRefusal, ReceiveOther, ReceiveMetafile, ReceiveChunk
    <3>2. \A n \in Nodes : reply'[n] \subseteq reply[n] \cup net
      BY <3>1, ReceiveType
    <3>3. CASE UNCHANGED net
      BY <3>2, <3>3, RepliesLeft
    <3>4. CASE ReceiveMetafile(t, p)
      BY <1>1, <3>2, <3>4 DEF ReceiveMetafile
    <3> QED
      BY <2>4, <3>3, <3>4 DEF ReceiveReply, ReceiveRefusal, ReceiveOther, ReceiveChunk
  <2>5. CASE WritePart(t)
    BY <1>0, <1>1, <2>5 DEF WritePart, workerVars
  <2> QED
    BY <1>5, <2>1, <2>2, <2>3, <2>4, <2>5 DEF ThreadStep
<1>6. CASE UNCHANGED vars
  BY <1>0, <1>6 DEF vars, workerVars
<1> QED
  BY <1>2, <1>3, <1>4, <1>5, <1>6 DEF Next

-----------------------------------------------------------------------------
(* How far a download is. *)

(* What a step may do to the downloaded file of a thread. *)
StepOf(t) ==
  \/ (* the file is left alone *)
     /\ file'[t] = file[t]
     /\ Written(t)' = Written(t)
     /\ pc'[t] \in {"create", "write"} => asking'[t] # 0
     /\ pc'[t] \in {"finishing", "done"} => asking'[t] = Len(MetaOf(t))
  \/ (* it is begun *)
     /\ file'[t] = << >>
     /\ Written(t)' = 0
     /\ pc[t] = "select" /\ pc'[t] = "select"
     /\ asking[t] = 0
  \/ (* it gets the next chunk *)
     /\ asking[t] \in 1 .. Len(MetaOf(t))
     /\ file'[t] = Append(file[t], MetaOf(t)[asking[t]])
     /\ Written(t) = asking[t] - 1 /\ Written(t)' = asking[t]
     /\ pc[t] = "select" /\ pc'[t] = "create" /\ asking'[t] = asking[t]

LEMMA StepOfUnchanged ==
  ASSUME NEW t \in Threads, Progress(t), UNCHANGED <<pc[t], asking[t], file[t]>>
  PROVE  StepOf(t)
BY DEF Progress, StepOf, Written

LEMMA StepOfThread ==
  ASSUME TypeOK, NEW t \in Threads, Progress(t),
         StartDownload(t) \/ ThreadStep(t) \/ Timeout(t)
  PROVE  StepOf(t)
<1>1. Len(MetaOf(t)) \in Nat /\ asking[t] \in 0 .. Len(MetaOf(t))
  BY ThreadConstants DEF TypeOK
<1>2. pc \in [Threads -> PCs] /\ asking \in [Threads -> Nat] /\ file \in [Threads -> Seq(Chunks)]
  BY DEF TypeOK
<1>3. CASE StartDownload(t)
  BY <1>2, <1>3 DEF StartDownload, StepOf, Written
<1>4. CASE NoRoute(t)
  BY <1>2, <1>4 DEF NoRoute, StepOf, Written
<1>5. CASE AskMetafile(t)
  BY <1>2, <1>5 DEF AskMetafile, StepOf, Written
<1>6. CASE Timeout(t)
  BY <1>2, <1>6, StepOfUnchanged DEF Timeout, threadVars
<1>7. ASSUME NEW p \in reply[At[t]], ReceiveReply(t, p) PROVE StepOf(t)
  <2>1. CASE ReceiveRefusal(t, p)
    BY <1>2, <2>1 DEF ReceiveRefusal, Receive, StepOf, Written
  <2>2. CASE ReceiveOther(t, p)
    BY <1>2, <2>2, StepOfUnchanged DEF ReceiveOther, threadVars
  <2>3. CASE ReceiveMetafile(t, p)
    BY <1>2, <2>3 DEF ReceiveMetafile, Receive, StepOf, Written
  <2>4. CASE ReceiveChunk(t, p)
    <3>1. /\ pc[t] = "select" /\ asking[t] > 0 /\ p.hash = HashOf(t, asking[t])
          /\ file' = [file EXCEPT ![t] = Append(@, p.hash)]
          /\ pc' = [pc EXCEPT ![t] = "create"]
          /\ UNCHANGED asking
      BY <2>4 DEF ReceiveChunk, Receive, Answers
    <3>2. p.hash = MetaOf(t)[asking[t]]
      BY <1>1, <3>1, HashOfType
    <3>3. file'[t] = Append(file[t], MetaOf(t)[asking[t]])
      BY <1>2, <3>1, <3>2
    <3>4. pc'[t] = "create" /\ asking'[t] = asking[t]
      BY <1>2, <3>1
    <3>5. Written(t) = asking[t] - 1 /\ Written(t)' = asking[t]
      BY <3>1, <3>4 DEF Written
    <3> QED
      BY <1>1, <3>1, <3>3, <3>4, <3>5 DEF StepOf
  <2> QED
    BY <1>7, <2>1, <2>2, <2>3, <2>4 DEF ReceiveReply
<1>8. CASE CreatePart(t)
  BY <1>2, <1>8 DEF CreatePart, StepOf, Written, Progress
<1>9. CASE WritePart(t)
  <2>1. CASE asking[t] = Len(MetaOf(t))
    BY <1>2, <1>9, <2>1 DEF WritePart, StepOf, Written
  <2>2. CASE asking[t] # Len(MetaOf(t))
    BY <1>1, <1>2, <1>9, <2>2 DEF WritePart, StepOf, Written
  <2> QED
    BY <2>1, <2>2
<1>10. CASE RemoveChannel(t)
  <2>1. pc'[t] = IF pc[t] = "finishing" THEN "done" ELSE "aborted"
    BY <1>2, <1>10 DEF RemoveChannel
  <2>2. UNCHANGED <<asking, file>> /\ pc[t] \in {"finishing", "aborting"}
    BY <1>10 DEF RemoveChannel
  <2> QED
    BY <1>2, <2>1, <2>2 DEF StepOf, Written, Progress
<1> QED
  BY <1>3, <1>4, <1>5, <1>6, <1>7, <1>8, <1>9, <1>10
  DEF ThreadStep

(* A step of one thread, or of none, moves no other thread. *)
LEMMA StepOfNext ==
  ASSUME TypeOK, [Next]_vars, NEW t \in Threads, Progress(t)
  PROVE  StepOf(t)
<1>1. CASE UNCHANGED threadVars
  BY <1>1, StepOfUnchanged DEF threadVars
<1>2. ASSUME NEW u \in Threads, StartDownload(u) \/ ThreadStep(u) \/ Timeout(u) PROVE StepOf(t)
  <2>1. CASE u = t
    BY <1>2, <2>1, StepOfThread
  <2>2. CASE u # t
    <3>1. UNCHANGED <<pc[t], asking[t], file[t]>>
      BY <1>2, <2>2
      DEF StartDownload, ThreadStep, Timeout, NoRoute, AskMetafile, ReceiveReply,
          ReceiveRefusal, ReceiveOther, ReceiveMetafile, ReceiveChunk, CreatePart,
          WritePart, RemoveChannel, threadVars, TypeOK
    <3> QED
      BY <3>1, StepOfUnchanged
  <2> QED
    BY <2>1, <2>2
<1> QED
  BY <1>1, <1>2
  DEF Next, StartIndexing, IndexChunk, EndIndexing, HandleDataRequest, HandleDataReply, vars

LEMMA ProgressNext ==
  ASSUME TypeOK, [Next]_vars, NEW t \in Threads, Progress(t)
  PROVE  Progress(t)'
<1>1. StepOf(t)
  BY StepOfNext
<1>2. file[t] \in Seq(Chunks) /\ Len(file[t]) \in Nat
  BY LenProperties DEF TypeOK
<1>3. Len(MetaOf(t)) \in Nat /\ \A i \in 1 .. Len(MetaOf(t)) : MetaOf(t)[i] \in Chunks
  BY ThreadConstants
<1>4. CASE /\ file'[t] = file[t]
           /\ Written(t)' = Written(t)
           /\ pc'[t] \in {"create", "write"} => asking'[t] # 0
           /\ pc'[t] \in {"finishing", "done"} => asking'[t] = Len(MetaOf(t))
  BY <1>4 DEF Progress
<1>5. CASE file'[t] = << >> /\ Written(t)' = 0 /\ pc'[t] = "select"
  BY <1>5 DEF Progress
<1>6. CASE /\ asking[t] \in 1 .. Len(MetaOf(t))
           /\ file'[t] = Append(file[t], MetaOf(t)[asking[t]])
           /\ Written(t) = asking[t] - 1 /\ Written(t)' = asking[t]
           /\ pc[t] = "select" /\ pc'[t] = "create" /\ asking'[t] = asking[t]
  <2>1. MetaOf(t)[asking[t]] \in Chunks
    BY <1>3, <1>6
  <2>2. Len(file[t]) = asking[t] - 1
    BY <1>6 DEF Progress
  <2>3. /\ Len(file'[t]) = asking[t]
        /\ \A i \in 1 .. (asking[t] - 1) : file'[t][i] = file[t][i]
        /\ file'[t][asking[t]] = MetaOf(t)[asking[t]]
    BY <1>2, <1>6, <2>1, <2>2, AppendProperties
  <2>4. \A i \in 1 .. (asking[t] - 1) : file[t][i] = MetaOf(t)[i]
    BY <1>6 DEF Progress
  <2>5. \A i \in 1 .. asking[t] : i \in 1 .. (asking[t] - 1) \/ i = asking[t]
    BY <1>6
  <2>6. \A i \in 1 .. asking[t] : file'[t][i] = MetaOf(t)[i]
    BY <2>3, <2>4, <2>5
  <2> QED
    BY <1>6, <2>3, <2>6 DEF Progress
<1> QED
  BY <1>1, <1>4, <1>5, <1>6 DEF StepOf
-----------------------------------------------------------------------------
(* Chunks on disk. *)

(* A .part file is only touched to be written: what is on disk, or being    *)
(* written, stays so.                                                      *)
LEMMA OnDiskStays ==
  ASSUME TypeOK, IndexedOnDisk, [Next]_vars, NEW n \in Nodes, NEW c \in Chunks, OnDisk(n, c)
  PROVE  OnDisk(n, c)'
<1>t. /\ pc \in [Threads -> PCs] /\ asking \in [Threads -> Nat]
      /\ parts \in [Nodes -> [Chunks -> PartStates]]
      /\ indexing \in [Nodes -> SUBSET IndexingFile]
  BY DEF TypeOK
<1>0. ASSUME UNCHANGED parts, UNCHANGED indexing,
             \A t \in Threads : pc[t] \in {"create", "write"} =>
               pc'[t] \in {"create", "write"} /\ asking'[t] = asking[t]
      PROVE  OnDisk(n, c)'
  BY <1>0 DEF OnDisk, BeingWritten, HashOf
<1>1. ASSUME NEW m \in Nodes, NEW f \in Shared[m], StartIndexing(m, f) PROVE OnDisk(n, c)'
  <2>1. /\ indexing[m] = {}
        /\ indexing' = [indexing EXCEPT ![m] = {[file |-> f, chunk |-> 1, open |-> FALSE]}]
        /\ UNCHANGED <<pc, asking, parts>>
    BY <1>1 DEF StartIndexing, threadVars, diskVars
  <2>2. \A w \in indexing[n] : w \in indexing'[n]
    BY <1>t, <2>1
  <2> QED
    BY <2>1, <2>2 DEF OnDisk, BeingWritten, HashOf
<1>2. ASSUME NEW m \in Nodes, IndexChunk(m) PROVE OnDisk(n, c)'
  <2>1. PICK w \in indexing[m] :
        /\ \/ /\ w.open
              /\ parts' = [parts EXCEPT ![m][Meta[w.file][w.chunk]] = "full"]
           \/ /\ ~ w.open
              /\ parts' = [parts EXCEPT ![m][Meta[w.file][w.chunk]] = "empty"]
              /\ indexing' = [indexing EXCEPT ![m] =
                   {[file |-> w.file, chunk |-> w.chunk, open |-> TRUE]}]
        /\ \A k \in Nodes \ {m} : indexing'[k] = indexing[k]
        /\ UNCHANGED <<pc, asking>>
    BY <1>2, <1>t DEF IndexChunk, threadVars
  <2>2. indexing[m] = {w}
    BY DEF TypeOK
  <2>3. \A k \in Nodes, d \in Chunks : k # m \/ d # Meta[w.file][w.chunk] => parts'[k][d] = parts[k][d]
    BY <1>t, <2>1
  <2>4. CASE n = m /\ c = Meta[w.file][w.chunk]
    <3>1. CASE w.open
      BY <1>t, <2>1, <2>4, <3>1 DEF OnDisk
    <3>2. CASE ~ w.open
      <4> DEFINE v == [file |-> w.file, chunk |-> w.chunk, open |-> TRUE]
      <4>1. v \in indexing'[n] /\ v.open /\ Meta[v.file][v.chunk] = c
        BY <1>t, <2>1, <2>4, <3>2
      <4> HIDE DEF v
      <4> QED
        BY <4>1 DEF OnDisk, BeingWritten
    <3> QED
      BY <3>1, <3>2
  <2>5. CASE n # m \/ c # Meta[w.file][w.chunk]
    <3>1. CASE parts[n][c] = "full"
      BY <2>3, <2>5, <3>1 DEF OnDisk
    <3>2. CASE \E t \in Threads : At[t] = n /\ pc[t] \in {"create", "write"} /\ HashOf(t, asking[t]) = c
      BY <2>1, <3>2 DEF OnDisk, BeingWritten, HashOf
    <3>3. CASE \E q \in indexing[n] : q.open /\ Meta[q.file][q.chunk] = c
      <4>1. n # m
        BY <2>2, <2>5, <3>3
      <4> QED
        BY <2>1, <3>3, <4>1 DEF OnDisk, BeingWritten
    <3> QED
      BY <3>1, <3>2, <3>3 DEF OnDisk, BeingWritten
  <2> QED
    BY <2>4, <2>5
<1>3. ASSUME NEW m \in Nodes, EndIndexing(m) PROVE OnDisk(n, c)'
  <2>1. PICK w \in indexing[m] :
          /\ w.chunk > Len(Meta[w.file])
          /\ indexing' = [indexing EXCEPT ![m] = {}]
          /\ UNCHANGED <<pc, asking, parts>>
    BY <1>3 DEF EndIndexing, threadVars
  <2>2. indexing[m] = {w} /\ w \in IndexingFile
    BY DEF TypeOK
  <2>3. Len(Meta[w.file]) \in Nat /\ w.chunk \in Nat
    BY <2>2, MetaType DEF IndexingFile
  <2>4. ~ w.open
    BY <2>1, <2>3 DEF IndexedOnDisk
  <2>5. \A q \in indexing[n] : q.open => q \in indexing'[n]
    BY <1>t, <2>1, <2>2, <2>4
  <2> QED
    BY <2>1, <2>5 DEF OnDisk, BeingWritten, HashOf
<1>4. ASSUME NEW m \in Nodes, NEW p \in net, HandleDataRequest(m, p) \/ HandleDataReply(m, p)
      PROVE  OnDisk(n, c)'
  BY <1>0, <1>4 DEF HandleDataRequest, HandleDataReply, threadVars, diskVars, clientVars
<1>5. ASSUME NEW t \in Threads, StartDownload(t) \/ ThreadStep(t) \/ Timeout(t) PROVE OnDisk(n, c)'
  <2>1. CASE \/ StartDownload(t) \/ NoRoute(t) \/ AskMetafile(t) \/ Timeout(t) \/ RemoveChannel(t)
             \/ \E p \in reply[At[t]] : ReceiveReply(t, p)
    <3>1. UNCHANGED <<parts, indexing>>
      BY <2>1
      DEF StartDownload, NoRoute, AskMetafile, Timeout, RemoveChannel, ReceiveReply,
          ReceiveRefusal, ReceiveOther, ReceiveMetafile, ReceiveChunk, diskVars, clientVars
    <3>2. \A u \in Threads : pc[u] \in {"create", "write"} => pc'[u] = pc[u] /\ asking'[u] = asking[u]
      BY <2>1, <1>t
      DEF StartDownload, NoRoute, AskMetafile, Timeout, RemoveChannel, ReceiveReply, Receive,
          ReceiveRefusal, ReceiveOther, ReceiveMetafile, ReceiveChunk, threadVars
    <3> QED
      BY <1>0, <3>1, <3>2
  <2> DEFINE part == HashOf(t, asking[t])
  <2>2. CASE CreatePart(t)
    <3>1. /\ parts' = [parts EXCEPT ![At[t]][part] = "empty"]
          /\ pc[t] = "create" /\ pc' = [pc EXCEPT ![t] = "write"]
          /\ UNCHANGED <<asking, indexing>>
      BY <2>2 DEF CreatePart, clientVars
    <3>2. \A u \in Threads : pc[u] \in {"create", "write"} => pc'[u] \in {"create", "write"}
      BY <1>t, <3>1
    <3>3. CASE At[t] = n /\ part = c
      BY <1>t, <3>1, <3>3 DEF OnDisk, BeingWritten, HashOf
    <3>4. CASE At[t] # n \/ part # c
      <4> HIDE DEF part
      <4>1. parts'[n][c] = parts[n][c]
        BY <1>t, <3>1, <3>4
      <4> QED
        BY <3>1, <3>2, <4>1 DEF OnDisk, BeingWritten, HashOf
    <3> QED
      BY <3>3, <3>4
  <2>3. CASE WritePart(t)
    <3>1. /\ parts' = [parts EXCEPT ![At[t]][part] = "full"]
          /\ pc[t] = "write" /\ UNCHANGED indexing
          /\ \A u \in Threads \ {t} : pc'[u] = pc[u] /\ asking'[u] = asking[u]
      BY <1>t, <2>3 DEF WritePart, clientVars
    <3>2. CASE At[t] = n /\ part = c
      BY <1>t, <3>1, <3>2 DEF OnDisk
    <3>3. CASE At[t] # n \/ part # c
      <4>1. \A u \in Threads : At[u] = n /\ HashOf(u, asking[u]) = c => u # t
        BY <3>3
      <4> HIDE DEF part
      <4>2. parts'[n][c] = parts[n][c]
        BY <1>t, <3>1, <3>3
      <4> QED
        BY <3>1, <4>1, <4>2 DEF OnDisk, BeingWritten, HashOf
    <3> QED
      BY <3>2, <3>3
  <2> QED
    BY <1>5, <2>1, <2>2, <2>3 DEF ThreadStep
<1>6. CASE UNCHANGED vars
  BY <1>0, <1>6 DEF vars, threadVars, diskVars, clientVars
<1> QED
  BY <1>1, <1>2, <1>3, <1>4, <1>5, <1>6 DEF Next

LEMMA WrittenOnDiskNext ==
  ASSUME TypeOK, \A t \in Threads : Progress(t), WrittenOnDisk, IndexedOnDisk, [Next]_vars
  PROVE  WrittenOnDisk'
<1> SUFFICES ASSUME NEW t \in Threads, NEW i \in 1 .. Written(t)'
             PROVE  OnDisk(At[t], MetaOf(t)[i])'
  BY DEF WrittenOnDisk
<1>1. At[t] \in Nodes /\ Len(MetaOf(t)) \in Nat /\ asking[t] \in 0 .. Len(MetaOf(t))
      /\ \A j \in 1 .. Len(MetaOf(t)) : MetaOf(t)[j] \in Chunks
  BY ThreadConstants DEF TypeOK
<1>2. Written(t) \in 0 .. Len(MetaOf(t))
  BY <1>1 DEF Written
<1>3. StepOf(t)
  BY StepOfNext
<1>4. CASE i \in 1 .. Written(t)
  <2>1. OnDisk(At[t], MetaOf(t)[i]) /\ MetaOf(t)[i] \in Chunks
    BY <1>1, <1>2, <1>4 DEF WrittenOnDisk
  <2> QED
    BY <1>1, <2>1, OnDiskStays
<1>5. CASE i \notin 1 .. Written(t)
  <2>1. /\ asking[t] \in 1 .. Len(MetaOf(t))
        /\ Written(t) = asking[t] - 1 /\ Written(t)' = asking[t]
        /\ pc'[t] = "create" /\ asking'[t] = asking[t]
    BY <1>2, <1>3, <1>5 DEF StepOf
  <2>2. i = asking[t]
    BY <1>5, <2>1
  <2>3. HashOf(t, asking'[t]) = MetaOf(t)[i]
    BY <2>1, <2>2, HashOfType
  <2> QED
    BY <2>1, <2>3 DEF OnDisk, BeingWritten, HashOf
<1> QED
  BY <1>4, <1>5
LEMMA IndexedOnDiskNext ==
  ASSUME TypeOK, IndexedOnDisk, [Next]_vars
  PROVE  IndexedOnDisk'
<1>t. /\ parts \in [Nodes -> [Chunks -> PartStates]]
      /\ indexing \in [Nodes -> SUBSET IndexingFile]
  BY DEF TypeOK
<1> SUFFICES ASSUME NEW n \in Nodes, NEW w \in indexing'[n]
             PROVE  /\ w.open => w.chunk <= Len(Meta[w.file])
                    /\ \A i \in 1 .. (w.chunk - 1) : OnDisk(n, Meta[w.file][i])'
  BY DEF IndexedOnDisk
<1>0. CASE w \in indexing[n]
  <2>1. w \in IndexingFile /\ w.chunk \in 1 .. (Len(Meta[w.file]) + 1)
    BY <1>0 DEF TypeOK
  <2>2. w.file \in Files /\ w.chunk \in Nat
    BY <2>1 DEF IndexingFile
  <2>3. Len(Meta[w.file]) \in Nat /\ \A i \in 1 .. Len(Meta[w.file]) : Meta[w.file][i] \in Chunks
    BY <2>2, MetaType
  <2>4. ASSUME NEW i \in 1 .. (w.chunk - 1) PROVE OnDisk(n, Meta[w.file][i])'
    <3>1. Meta[w.file][i] \in Chunks
      BY <2>1, <2>2, <2>3
    <3>2. OnDisk(n, Meta[w.file][i])
      BY <1>0 DEF IndexedOnDisk
    <3> QED
      BY <3>1, <3>2, OnDiskStays
  <2> QED
    BY <1>0, <2>4 DEF IndexedOnDisk
<1>1. ASSUME NEW m \in Nodes, NEW f \in Shared[m], StartIndexing(m, f), w \notin indexing[n]
      PROVE  w.chunk = 1 /\ ~ w.open
  BY <1>1, <1>t DEF StartIndexing
<1>2. ASSUME NEW m \in Nodes, IndexChunk(m), w \notin indexing[n]
      PROVE  /\ w.open => w.chunk <= Len(Meta[w.file])
             /\ \A i \in 1 .. (w.chunk - 1) : OnDisk(n, Meta[w.file][i])'
  <2>1. n = m
    BY <1>2, <1>t DEF IndexChunk
  <2>2. PICK v \in indexing[n] :
          /\ v.chunk <= Len(Meta[v.file])
          /\ \/ /\ v.open
                /\ parts' = [parts EXCEPT ![n][Meta[v.file][v.chunk]] = "full"]
                /\ w = [file |-> v.file, chunk |-> v.chunk + 1, open |-> FALSE]
             \/ w = [file |-> v.file, chunk |-> v.chunk, open |-> TRUE]
    BY <1>2, <1>t, <2>1 DEF IndexChunk
  <2>3. v \in IndexingFile /\ v.chunk \in 1 .. (Len(Meta[v.file]) + 1)
    BY DEF TypeOK
  <2>4. v.file \in Files /\ v.chunk \in Nat
    BY <2>3 DEF IndexingFile
  <2>5. Len(Meta[v.file]) \in Nat /\ \A i \in 1 .. Len(Meta[v.file]) : Meta[v.file][i] \in Chunks
    BY <2>4, MetaType
  <2>6. ASSUME NEW i \in 1 .. (v.chunk - 1) PROVE OnDisk(n, Meta[v.file][i])'
    <3>1. Meta[v.file][i] \in Chunks
      BY <2>2, <2>4, <2>5
    <3>2. OnDisk(n, Meta[v.file][i])
      BY DEF IndexedOnDisk
    <3> QED
      BY <3>1, <3>2, OnDiskStays
  <2>7. CASE /\ parts' = [parts EXCEPT ![n][Meta[v.file][v.chunk]] = "full"]
             /\ w = [file |-> v.file, chunk |-> v.chunk + 1, open |-> FALSE]
    <3>1. Meta[v.file][v.chunk] \in Chunks
      BY <2>2, <2>3, <2>4, <2>5
    <3>2. OnDisk(n, Meta[v.file][v.chunk])'
      BY <1>t, <2>7, <3>1 DEF OnDisk
    <3>3. w.file = v.file /\ w.chunk = v.chunk + 1 /\ w.open = FALSE
      BY <2>7
    <3>4. \A i \in 1 .. v.chunk : i \in 1 .. (v.chunk - 1) \/ i = v.chunk
      BY <2>4
    <3>5. \A i \in 1 .. v.chunk : OnDisk(n, Meta[v.file][i])'
      BY <2>6, <3>2, <3>4
    <3>6. w.chunk - 1 = v.chunk
      BY <2>4, <3>3
    <3> QED
      BY <3>3, <3>5, <3>6
  <2>8. CASE w = [file |-> v.file, chunk |-> v.chunk, open |-> TRUE]
    <3>1. w.file = v.file /\ w.chunk = v.chunk
      BY <2>8
    <3> QED
      BY <2>2, <2>6, <3>1
  <2> QED
    BY <2>2, <2>7, <2>8
<1>3. ASSUME NEW m \in Nodes, EndIndexing(m) PROVE w \in indexing[n]
  BY <1>3, <1>t DEF EndIndexing
<1>4. CASE \/ \E m \in Nodes : \E p \in net : HandleDataRequest(m, p) \/ HandleDataReply(m, p)
           \/ \E t \in Threads : StartDownload(t) \/ ThreadStep(t) \/ Timeout(t)
           \/ UNCHANGED vars
  <2>1. UNCHANGED indexing
    BY <1>4
    DEF HandleDataRequest, HandleDataReply, StartDownload, ThreadStep, NoRoute, AskMetafile,
        Timeout, ReceiveReply, ReceiveRefusal, ReceiveOther, ReceiveMetafile, ReceiveChunk,
        CreatePart, WritePart, RemoveChannel, clientVars, vars
  <2> QED
    BY <1>0, <2>1
<1> QED
  BY <1>0, <1>1, <1>2, <1>3, <1>4 DEF Next

(* A node announces the chunks of a file it has indexed, or that one of its *)
(* downloads has written.                                                  *)
LEMMA AnnouncedNext ==
  ASSUME TypeOK, RepliesOK, \A t \in Threads : Progress(t), WrittenOnDisk, IndexedOnDisk,
         AnnouncedOnDisk, [Next]_vars
  PROVE  AnnouncedOnDisk'
<1>t. /\ indexed \in [Nodes -> SUBSET Files] /\ chunkMap \in [Nodes -> [Files -> Nat]]
      /\ indexed' \in [Nodes -> SUBSET Files]
  BY TypeNext DEF TypeOK
<1> SUFFICES ASSUME NEW n \in Nodes, NEW f \in indexed'[n], NEW i \in 1 .. chunkMap'[n][f]
             PROVE  OnDisk(n, Meta[f][i])'
  BY DEF AnnouncedOnDisk
<1>1. f \in Files /\ Len(Meta[f]) \in Nat /\ \A j \in 1 .. Len(Meta[f]) : Meta[f][j] \in Chunks
  BY <1>t, MetaType
<1>2. i \in 1 .. Len(Meta[f])
  <2>1. chunkMap'[n][f] \in Nat /\ chunkMap'[n][f] <= Len(Meta[f])
    BY <1>1, TypeNext DEF TypeOK
  <2> QED
    BY <1>1, <2>1
<1>3. Meta[f][i] \in Chunks
  BY <1>1, <1>2
<1>4. CASE f \in indexed[n] /\ chunkMap'[n][f] = chunkMap[n][f]
  <2>1. OnDisk(n, Meta[f][i])
    BY <1>4 DEF AnnouncedOnDisk
  <2> QED
    BY <1>3, <2>1, OnDiskStays
<1>5. ASSUME NEW m \in Nodes, EndIndexing(m),
             f \notin indexed[n] \/ chunkMap'[n][f] # chunkMap[n][f]
      PROVE  OnDisk(n, Meta[f][i])'
  <2>1. PICK w \in indexing[m] :
          /\ w.chunk > Len(Meta[w.file])
          /\ indexed' = [indexed EXCEPT ![m] = @ \cup {w.file}]
          /\ chunkMap' = [chunkMap EXCEPT ![m][w.file] = Len(Meta[w.file])]
    BY <1>5 DEF EndIndexing
  <2>2. n = m /\ f = w.file
    BY <1>5, <1>t, <1>1, <2>1
  <2>3. w.chunk \in Nat
    BY DEF TypeOK, IndexingFile
  <2>4. i \in 1 .. (w.chunk - 1)
    BY <1>1, <1>2, <2>1, <2>2, <2>3
  <2>5. OnDisk(n, Meta[f][i])
    BY <2>2, <2>4 DEF IndexedOnDisk
  <2> QED
    BY <1>3, <2>5, OnDiskStays
<1>6. ASSUME NEW t \in Threads, NEW p \in reply[At[t]], ReceiveReply(t, p),
             f \notin indexed[n] \/ chunkMap'[n][f] # chunkMap[n][f]
      PROVE  OnDisk(n, Meta[f][i])'
  <2>1. At[t] \in Nodes /\ Wants[t] \in Files /\ MetaOf(t) = Meta[Wants[t]]
    BY ThreadConstants
  <2>2. CASE ReceiveMetafile(t, p)
    <3>1. /\ indexed' = [indexed EXCEPT ![At[t]] = @ \cup {Wants[t]}]
          /\ chunkMap' = [chunkMap EXCEPT ![At[t]][Wants[t]] = 0]
      BY <2>2 DEF ReceiveMetafile
    <3>2. n = At[t] /\ f = Wants[t]
      BY <1>6, <1>t, <1>1, <2>1, <3>1
    <3> QED
      BY <1>t, <2>1, <3>1, <3>2
  <2>3. CASE ReceiveChunk(t, p)
    <3>1. /\ indexed' = [indexed EXCEPT ![At[t]] = @ \cup {Wants[t]}]
          /\ chunkMap' = [chunkMap EXCEPT ![At[t]][Wants[t]] = asking[t]]
          /\ pc' = [pc EXCEPT ![t] = "create"]
          /\ asking' = asking
      BY <2>3 DEF ReceiveChunk, ChunkNumber
    <3>2. n = At[t] /\ f = Wants[t]
      BY <1>6, <1>t, <1>1, <2>1, <3>1
    <3>3. chunkMap'[n][f] = asking[t]
      BY <1>t, <1>1, <3>1, <3>2
    <3>4. Written(t)' = asking[t]
      BY <3>1 DEF Written, TypeOK
    <3>5. WrittenOnDisk'
      BY WrittenOnDiskNext
    <3> QED
      BY <2>1, <3>2, <3>3, <3>4, <3>5 DEF WrittenOnDisk
  <2>4. CASE ReceiveRefusal(t, p) \/ ReceiveOther(t, p)
    <3>1. UNCHANGED <<indexed, chunkMap>>
      BY <2>4 DEF ReceiveRefusal, ReceiveOther, diskVars
    <3> QED
      BY <1>6, <3>1
  <2> QED
    BY <1>6, <2>2, <2>3, <2>4 DEF ReceiveReply
<1>7. CASE \/ \E m \in Nodes :
                \/ \E g \in Shared[m] : StartIndexing(m, g)
                \/ IndexChunk(m)
                \/ \E p \in net : HandleDataRequest(m, p) \/ HandleDataReply(m, p)
           \/ \E t \in Threads :
                \/ StartDownload(t) \/ NoRoute(t) \/ AskMetafile(t) \/ Timeout(t)
                \/ CreatePart(t) \/ WritePart(t) \/ RemoveChannel(t)
           \/ UNCHANGED vars
  <2>1. UNCHANGED <<indexed, chunkMap>>
    BY <1>7
    DEF StartIndexing, IndexChunk, HandleDataRequest, HandleDataReply, StartDownload, NoRoute,
        AskMetafile, Timeout, CreatePart, WritePart, RemoveChannel, diskVars, vars
  <2> QED
    BY <1>4, <2>1
<1> QED
  BY <1>4, <1>5, <1>6, <1>7 DEF Next, ThreadStep
-----------------------------------------------------------------------------
(* The inductive invariant and what follows from it. *)

LEMMA IInvInit == Init => IInv
<1> SUFFICES ASSUME Init PROVE IInv
  OBVIOUS
<1>1. TypeOK
  BY TypeInit
<1>2. RepliesOK
  BY DEF Init, RepliesOK
<1>3. \A t \in Threads : Written(t) = 0
  BY DEF Init, Written
<1>4. \A t \in Threads : Progress(t)
  BY <1>3 DEF Init, Progress
<1>5. WrittenOnDisk
  BY <1>3 DEF WrittenOnDisk
<1>6. IndexedOnDisk /\ AnnouncedOnDisk
  BY DEF Init, IndexedOnDisk, AnnouncedOnDisk
<1> QED
  BY <1>1, <1>2, <1>4, <1>5, <1>6 DEF IInv

LEMMA IInvNext == IInv /\ [Next]_vars => IInv'
<1> SUFFICES ASSUME IInv, [Next]_vars PROVE IInv'
  OBVIOUS
<1>1. TypeOK' /\ RepliesOK'
  BY TypeNext, RepliesNext DEF IInv
<1>2. \A t \in Threads : Progress(t)'
  BY ProgressNext DEF IInv
<1>3. WrittenOnDisk'
  BY WrittenOnDiskNext DEF IInv
<1>4. IndexedOnDisk'
  BY IndexedOnDiskNext DEF IInv
<1>5. AnnouncedOnDisk'
  BY AnnouncedNext DEF IInv
<1> QED
  BY <1>1, <1>2, <1>3, <1>4, <1>5 DEF IInv

(* IInv holds in every state of the program.                               *)
THEOREM Inductive == Spec => []IInv
BY IInvInit, IInvNext, PTL DEF Spec

(* Every variable keeps its type, and the worker holds a reply exactly while *)
(* it has channels left to send it to: chunk numbers never pass the end of  *)
(* the metafile, which chunkHash and ChunkMap are indexed with.            *)
THEOREM TypeCorrect == Spec => []TypeOK
<1>1. IInv => TypeOK
  BY DEF IInv
<1> QED
  BY <1>1, Inductive, PTL

LEMMA PrefixFromProgress ==
  ASSUME TypeOK, NEW t \in Threads, Progress(t)
  PROVE  /\ file[t] = SubSeq(MetaOf(t), 1, Written(t))
         /\ pc[t] \in {"finishing", "done"} => file[t] = MetaOf(t)
<1>1. MetaOf(t) \in Seq(Chunks) /\ Len(MetaOf(t)) \in Nat /\ asking[t] \in 0 .. Len(MetaOf(t))
  BY ThreadConstants DEF TypeOK
<1>2. file[t] \in Seq(Chunks)
  BY DEF TypeOK
<1>3. Written(t) \in 0 .. Len(MetaOf(t))
  BY <1>1 DEF Written
<1>4. Len(file[t]) = Written(t) /\ \A i \in 1 .. Written(t) : file[t][i] = MetaOf(t)[i]
  BY DEF Progress
<1> DEFINE begin == SubSeq(MetaOf(t), 1, Written(t))
<1>5. /\ begin \in Seq(Chunks) /\ Len(begin) = Written(t)
      /\ \A i \in 1 .. Written(t) : begin[i] = MetaOf(t)[i]
  <2>1. 1 \in 1 .. (Len(MetaOf(t)) + 1) /\ Written(t) \in (1 - 1) .. Len(MetaOf(t))
    BY <1>1, <1>3
  <2>2. /\ begin \in Seq(Chunks)
        /\ Len(begin) = Written(t) - 1 + 1
        /\ \A i \in 1 .. (Written(t) - 1 + 1) : begin[i] = MetaOf(t)[1 + i - 1]
    BY <1>1, <2>1, SubSeqProperties
  <2> QED
    BY <1>3, <2>2
<1> HIDE DEF begin
<1>6. file[t] = begin
  BY <1>2, <1>4, <1>5, SeqEqual
<1>7. ASSUME pc[t] \in {"finishing", "done"} PROVE file[t] = MetaOf(t)
  <2>1. Written(t) = Len(MetaOf(t))
    BY <1>7 DEF Written, Progress
  <2> QED
    BY <1>1, <1>2, <1>4, <2>1, SeqEqual
<1> QED
  BY <1>6, <1>7 DEF begin

(* A downloaded file is the beginning of the metafile's file, and the whole *)
(* file when the download has finished, whatever happens to the datagrams  *)
(* and whatever else the node downloads.                                   *)
THEOREM FilesArePrefixes == Spec => []FileIsPrefix
<1>1. IInv => FileIsPrefix
  BY PrefixFromProgress DEF IInv, FileIsPrefix
<1> QED
  BY <1>1, Inductive, PTL

(* A node that announces a chunk in a search reply has it on disk, or is   *)
(* writing it.                                                             *)
THEOREM AnnouncedIsOnDisk == Spec => []AnnouncedOnDisk
<1>1. IInv => AnnouncedOnDisk
  BY DEF IInv
<1> QED
  BY <1>1, Inductive, PTL

-----------------------------------------------------------------------------
(* FileTransfer implements Delivery. *)

LEMMA DeliveryInit == Init => DL!Init
BY DEF Init, DL!Init, Status, Statuses

LEMMA StatusUnchanged ==
  ASSUME NEW t \in Threads, pc'[t] = pc[t]
  PROVE  Status(t)' = Status(t)
BY DEF Status

(* The file and the status of the threads a step does not move. *)
LEMMA OthersUnchanged ==
  ASSUME TypeOK, NEW t \in Threads, StartDownload(t) \/ ThreadStep(t) \/ Timeout(t)
  PROVE  /\ \A u \in Threads \ {t} : file'[u] = file[u] /\ Status(u)' = Status(u)
         /\ file' = [file EXCEPT ![t] = file'[t]]
<1>1. \A u \in Threads \ {t} : file'[u] = file[u] /\ pc'[u] = pc[u]
  BY DEF StartDownload, ThreadStep, Timeout, NoRoute, AskMetafile, ReceiveReply,
         ReceiveRefusal, ReceiveOther, ReceiveMetafile, ReceiveChunk, CreatePart,
         WritePart, RemoveChannel, threadVars, TypeOK
<1>2. file' = [file EXCEPT ![t] = file'[t]]
  BY DEF StartDownload, ThreadStep, Timeout, NoRoute, AskMetafile, ReceiveReply,
         ReceiveRefusal, ReceiveOther, ReceiveMetafile, ReceiveChunk, CreatePart,
         WritePart, RemoveChannel, threadVars, TypeOK
<1> QED
  BY <1>1, <1>2, StatusUnchanged
(* A step that leaves a file and its status alone is no step of Delivery. *)
LEMMA NoDelivery ==
  ASSUME TypeOK, NEW t \in Threads, StartDownload(t) \/ ThreadStep(t) \/ Timeout(t),
         file'[t] = file[t], Status(t)' = Status(t)
  PROVE  UNCHANGED <<file, Statuses>>
<1>1. UNCHANGED file
  BY OthersUnchanged DEF TypeOK
<1>2. \A u \in Threads : Status(u)' = Status(u)
  BY OthersUnchanged
<1> QED
  BY <1>1, <1>2 DEF Statuses

(* A step that changes the status alone. *)
LEMMA StatusDelivery ==
  ASSUME TypeOK, NEW t \in Threads, ThreadStep(t), file' = file, NEW st, Status(t)' = st
  PROVE  Statuses' = [Statuses EXCEPT ![t] = st]
BY OthersUnchanged DEF Statuses

LEMMA DeliveryReceive ==
  ASSUME TypeOK, NEW t \in Threads, Progress(t), NEW p \in reply[At[t]], ReceiveReply(t, p)
  PROVE  [DL!Next]_<<file, Statuses>>
<1> USE DEF Statuses
<1>0. ThreadStep(t)
  BY DEF ThreadStep
<1>1. pc[t] = "select"
  BY DEF ReceiveReply, ReceiveRefusal, ReceiveOther, ReceiveMetafile, ReceiveChunk, Receive
<1>2. Status(t) = "running"
  BY <1>1 DEF Status
<1>3. CASE ReceiveRefusal(t, p)
  <2>1. pc'[t] = "aborting" /\ UNCHANGED file
    BY <1>3 DEF ReceiveRefusal, TypeOK
  <2>2. Status(t)' = "given up"
    BY <2>1 DEF Status
  <2>3. Statuses' = [Statuses EXCEPT ![t] = "given up"]
    BY <1>0, <2>1, <2>2, StatusDelivery
  <2>4. Statuses[t] = "running"
    BY <1>2
  <2> QED
    BY <2>1, <2>3, <2>4 DEF DL!Next, DL!GiveUp
<1>4. CASE ReceiveOther(t, p)
  BY <1>0, <1>4, NoDelivery, StatusUnchanged DEF ReceiveOther, threadVars
<1>5. CASE ReceiveMetafile(t, p)
  <2>1. file'[t] = << >> /\ pc'[t] = pc[t] /\ asking[t] = 0
    BY <1>5 DEF ReceiveMetafile, TypeOK
  <2>2. Len(file[t]) = 0
    BY <1>1, <2>1 DEF Progress, Written
  <2>3. file[t] = << >>
    BY <2>2, EmptySeq DEF TypeOK
  <2> QED
    BY <1>0, <2>1, <2>3, NoDelivery, StatusUnchanged
<1>6. CASE ReceiveChunk(t, p)
  <2>1. /\ asking[t] > 0 /\ p.hash = HashOf(t, asking[t])
        /\ file' = [file EXCEPT ![t] = Append(@, p.hash)]
        /\ pc'[t] = "create"
    BY <1>6 DEF ReceiveChunk, Answers, TypeOK
  <2>2. asking[t] \in 1 .. Len(MetaOf(t))
    BY <2>1, ThreadConstants DEF TypeOK
  <2>3. p.hash = MetaOf(t)[asking[t]]
    BY <2>1, <2>2, HashOfType, ThreadConstants
  <2>4. Len(file[t]) = asking[t] - 1
    BY <1>1, <2>2 DEF Progress, Written
  <2>5. Len(file[t]) < Len(MetaOf(t)) /\ Len(file[t]) + 1 = asking[t]
    BY <2>2, <2>4, ThreadConstants
  <2>6. file' = [file EXCEPT ![t] = Append(@, MetaOf(t)[Len(@) + 1])]
    BY <2>1, <2>3, <2>5
  <2>7. Status(t)' = "running"
    BY <2>1 DEF Status
  <2>8. UNCHANGED Statuses
    BY <1>0, <1>2, <2>7, OthersUnchanged
  <2>9. Statuses[t] = "running" /\ [u \in Threads |-> MetaOf(u)][t] = MetaOf(t)
    BY <1>2
  <2> QED
    BY <2>5, <2>6, <2>8, <2>9 DEF DL!Next, DL!WriteChunk
<1> QED
  BY <1>3, <1>4, <1>5, <1>6 DEF ReceiveReply

LEMMA DeliveryStore ==
  ASSUME TypeOK, NEW t \in Threads, Progress(t), CreatePart(t) \/ WritePart(t)
  PROVE  [DL!Next]_<<file, Statuses>>
<1> USE DEF Statuses
<1>0. ThreadStep(t)
  BY DEF ThreadStep
<1>1. UNCHANGED file /\ pc[t] \in {"create", "write"}
  BY DEF CreatePart, WritePart
<1>2. Status(t) = "running"
  BY <1>1 DEF Status
<1>3. CASE pc'[t] \in {"write", "select"}
  <2>1. Status(t)' = Status(t)
    BY <1>2, <1>3 DEF Status
  <2> QED
    BY <1>0, <1>1, <2>1, NoDelivery
<1>4. CASE pc'[t] = "finishing"
  <2>1. WritePart(t) /\ asking[t] = Len(MetaOf(t))
    BY <1>4 DEF CreatePart, WritePart, TypeOK
  <2>2. Written(t) = Len(MetaOf(t))
    BY <1>1, <2>1 DEF Written
  <2>3. file[t] = MetaOf(t)
    <3>1. /\ Len(file[t]) = Len(MetaOf(t))
          /\ \A i \in 1 .. Len(file[t]) : file[t][i] = MetaOf(t)[i]
      BY <2>2 DEF Progress
    <3>2. file[t] \in Seq(Chunks) /\ MetaOf(t) \in Seq(Chunks)
      BY ThreadConstants DEF TypeOK
    <3> QED
      BY <3>1, <3>2, SeqEqual
  <2>4. Status(t)' = "whole"
    BY <1>4 DEF Status
  <2>5. Statuses' = [Statuses EXCEPT ![t] = "whole"]
    BY <1>0, <1>1, <2>4, StatusDelivery
  <2>6. Statuses[t] = "running" /\ [u \in Threads |-> MetaOf(u)][t] = MetaOf(t)
    BY <1>2
  <2> QED
    BY <1>1, <2>3, <2>5, <2>6 DEF DL!Next, DL!Finish
<1>5. pc'[t] \in {"write", "select", "finishing"}
  BY DEF CreatePart, WritePart, TypeOK
<1> QED
  BY <1>3, <1>4, <1>5

LEMMA DeliveryNext == IInv /\ [Next]_vars => [DL!Next]_<<file, Statuses>>
<1> SUFFICES ASSUME IInv, [Next]_vars
             PROVE  [DL!Next]_<<file, Statuses>>
  OBVIOUS
<1> USE DEF Statuses
<1>0. TypeOK /\ \A t \in Threads : Progress(t)
  BY DEF IInv
<1>1. CASE UNCHANGED threadVars
  BY <1>1 DEF threadVars, Status
<1>2. ASSUME NEW t \in Threads, StartDownload(t) \/ Timeout(t)
      PROVE  [DL!Next]_<<file, Statuses>>
  <2>1. file'[t] = file[t] /\ Status(t)' = Status(t)
    BY <1>0, <1>2 DEF StartDownload, Timeout, threadVars, Status, TypeOK
  <2> QED
    BY <1>0, <1>2, <2>1, NoDelivery
<1>3. ASSUME NEW t \in Threads, NoRoute(t)
      PROVE  [DL!Next]_<<file, Statuses>>
  <2>1. UNCHANGED file /\ pc[t] = "start" /\ pc'[t] = "returned"
    BY <1>0, <1>3 DEF NoRoute, TypeOK
  <2>2. Status(t) = "running" /\ Status(t)' = "given up"
    BY <2>1 DEF Status
  <2>3. Statuses' = [Statuses EXCEPT ![t] = "given up"]
    BY <1>0, <1>3, <2>1, <2>2, StatusDelivery DEF ThreadStep
  <2>4. Statuses[t] = "running"
    BY <2>2
  <2> QED
    BY <2>1, <2>3, <2>4 DEF DL!Next, DL!GiveUp
<1>4. ASSUME NEW t \in Threads, AskMetafile(t) \/ RemoveChannel(t)
      PROVE  [DL!Next]_<<file, Statuses>>
  <2>1. UNCHANGED file /\ Status(t)' = Status(t)
    BY <1>0, <1>4 DEF AskMetafile, RemoveChannel, Status, TypeOK
  <2> QED
    BY <1>0, <1>4, <2>1, NoDelivery DEF ThreadStep
<1>5. ASSUME NEW t \in Threads, NEW p \in reply[At[t]], ReceiveReply(t, p)
      PROVE  [DL!Next]_<<file, Statuses>>
  BY <1>0, <1>5, DeliveryReceive
<1>6. ASSUME NEW t \in Threads, CreatePart(t) \/ WritePart(t)
      PROVE  [DL!Next]_<<file, Statuses>>
  BY <1>0, <1>6, DeliveryStore
<1> QED
  BY <1>1, <1>2, <1>3, <1>4, <1>5, <1>6
  DEF Next, ThreadStep, StartIndexing, IndexChunk, EndIndexing, HandleDataRequest,
      HandleDataReply, vars

(* Downloading implements Delivery: a downloaded file only grows, by the    *)
(* chunk that is next, and a download that ends as finished has it whole.  *)
THEOREM DownloadsDeliver == Spec => Delivers
<1>1. Init => DL!Init
  BY DeliveryInit
<1>2. IInv /\ [Next]_vars => [DL!Next]_<<file, Statuses>>
  BY DeliveryNext
<1> QED
  BY <1>1, <1>2, Inductive, PTL DEF Spec, Delivers, DL!Spec
=============================================================================
