---------------------------- MODULE FileTransfer ----------------------------
(***************************************************************************)
(* Indexing and downloading files (fileHandler.go, gossiper.go:395-565,    *)
(* 811-843).                                                               *)
(*                                                                         *)
(* A client starts a download by appending a channel to gos.downloads and  *)
(* starting a thread that reads from it.  gossipWorker hands every data    *)
(* reply to every channel of the list, one unbuffered send after the other *)
(* and with downloadsMutex held; a thread that ends takes the same mutex   *)
(* to remove its channel.  A thread asks for the metafile and then for one *)
(* chunk after the other, asking again every five seconds.                 *)
(*                                                                         *)
(* Abstracted: a hash is the file or the chunk it is the hash of; the hops *)
(* between the two ends of a transfer are the network; the file a download *)
(* writes is its own (no two downloads of a node use the same file name).  *)
(***************************************************************************)
EXTENDS Naturals, FiniteSets, SequencesExt

CONSTANTS
  Nodes,
  Files,        \* metafile hashes
  Chunks,       \* chunk hashes
  Meta,         \* [file -> the chunk hashes in its metafile]
  Shared,       \* [node -> the files its clients index]
  Threads,      \* bound: the downloads clients start
  At,           \* [thread -> the node it runs on]
  Wants,        \* [thread -> the file it downloads]
  From,         \* [thread -> [0 for the metafile, i for chunk i -> the node asked]]
  MaxInFlight   \* bound: how many datagrams the network holds, the rest is lost

ASSUME TransferAssumption ==
  /\ Files \cap Chunks = {}
  /\ Meta \in [Files -> Seq(Chunks)]
  /\ Shared \in [Nodes -> SUBSET Files]
  /\ At \in [Threads -> Nodes]
  /\ Wants \in [Threads -> Files]
  /\ \A t \in Threads : From[t] \in [0 .. Len(Meta[Wants[t]]) -> Nodes]
  /\ MaxInFlight \in Nat

VARIABLES
  pc,         \* [thread] where it is
  asking,     \* [thread] what it waits for: 0 the metafile, i chunk i
  file,       \* [thread] the chunks written to the downloaded file
  downloads,  \* [node] the channels (threads) that get the data replies
  sending,    \* [node] the channels gossipWorker has still to send to
  reply,      \* [node] the data reply it is sending, {} between replies
  indexed,    \* [node] the files in filesIndex
  chunkMap,   \* [node][file] length of its ChunkMap, which is 1, 2, ...
  parts,      \* [node][chunk] its .part file
  indexing,   \* [node] the file handleFileIndexing is indexing, if any
  net         \* datagrams in flight

clientVars == <<indexing>>
diskVars   == <<indexed, chunkMap, parts>>
workerVars == <<sending, reply>>
threadVars == <<pc, asking, file>>
vars == <<threadVars, downloads, workerVars, diskVars, clientVars, net>>

Hash == Files \cup Chunks

PCs == {"idle", "start", "select", "create", "write", "finishing", "aborting",
        "done", "aborted", "returned"}

PartStates == {"none", "empty", "full"}

DataRequest == [kind : {"request"}, from : Nodes, to : Nodes, hash : Hash]
DataReply   == [kind : {"reply"}, from : Nodes, to : Nodes, hash : Hash, data : BOOLEAN]

(* Where handleFileIndexing is: the chunk that is next, its .part file open. *)
IndexingFile == [file : Files, chunk : Nat, open : BOOLEAN]

MetaOf(t) == Meta[Wants[t]]

(* The hash a thread waits for when asking for i: the metafile's or chunkHash. *)
HashOf(t, i) == IF i = 0 THEN Wants[t] ELSE MetaOf(t)[i]

Request(t, i) == [kind |-> "request", from |-> At[t], to |-> From[t][i], hash |-> HashOf(t, i)]

Init ==
  /\ pc = [t \in Threads |-> "idle"]
  /\ asking = [t \in Threads |-> 0]
  /\ file = [t \in Threads |-> << >>]
  /\ downloads = [n \in Nodes |-> << >>]
  /\ sending = [n \in Nodes |-> << >>]
  /\ reply = [n \in Nodes |-> {}]
  /\ indexed = [n \in Nodes |-> {}]
  /\ chunkMap = [n \in Nodes |-> [f \in Files |-> 0]]
  /\ parts = [n \in Nodes |-> [c \in Chunks |-> "none"]]
  /\ indexing = [n \in Nodes |-> {}]
  /\ net = {}

(* UDP: a datagram may be lost, delayed, reordered or delivered twice. *)
Transmit(sent) ==
  /\ net' \in SUBSET (net \cup sent)
  /\ Cardinality(net') <= MaxInFlight

(* gossipWorker holds downloadsMutex while it sends a reply to the channels. *)
MutexFree(n) == sending[n] = << >>

-----------------------------------------------------------------------------
(* handleFileIndexing: the chunks are written one after the other, each    *)
(* .part file first created (or truncated), and then the file is indexed.  *)

StartIndexing(n, f) ==
  /\ f \in Shared[n]
  /\ indexing[n] = {}
  /\ indexing' = [indexing EXCEPT ![n] = {[file |-> f, chunk |-> 1, open |-> FALSE]}]
  /\ UNCHANGED <<threadVars, downloads, workerVars, diskVars, net>>

IndexChunk(n) ==
  \E w \in indexing[n] :
    LET part == Meta[w.file][w.chunk] IN
    /\ w.chunk <= Len(Meta[w.file])
    /\ IF w.open
       THEN /\ parts' = [parts EXCEPT ![n][part] = "full"]
            /\ indexing' = [indexing EXCEPT ![n] =
                 {[file |-> w.file, chunk |-> w.chunk + 1, open |-> FALSE]}]
       ELSE /\ parts' = [parts EXCEPT ![n][part] = "empty"]
            /\ indexing' = [indexing EXCEPT ![n] =
                 {[file |-> w.file, chunk |-> w.chunk, open |-> TRUE]}]
    /\ UNCHANGED <<threadVars, downloads, workerVars, indexed, chunkMap, net>>

(* Mutant of EndIndexing: the last chunk is not written.                    *)
EndIndexingEarly(n) ==
  \E w \in indexing[n] :
    /\ w.chunk >= Len(Meta[w.file])
    /\ indexed' = [indexed EXCEPT ![n] = @ \cup {w.file}]
    /\ chunkMap' = [chunkMap EXCEPT ![n][w.file] = Len(Meta[w.file])]
    /\ indexing' = [indexing EXCEPT ![n] = {}]
    /\ UNCHANGED <<threadVars, downloads, workerVars, parts, net>>

EndIndexing(n) ==
  \E w \in indexing[n] :
    /\ w.chunk > Len(Meta[w.file])
    /\ indexed' = [indexed EXCEPT ![n] = @ \cup {w.file}]
    /\ chunkMap' = [chunkMap EXCEPT ![n][w.file] = Len(Meta[w.file])]
    /\ indexing' = [indexing EXCEPT ![n] = {}]
    /\ UNCHANGED <<threadVars, downloads, workerVars, parts, net>>

-----------------------------------------------------------------------------
(* gossipWorker: handleDataRequest and handleDataReply. *)

(* What a node has for a hash: a metafile of its index, if it is not empty, *)
(* or a chunk that one of its metafiles names and whose .part file has data. *)
HasData(n, h) ==
  \/ h \in indexed[n] /\ Meta[h] # << >>
  \/ /\ h \in Chunks
     /\ \E f \in indexed[n] : h \in {Meta[f][i] : i \in DOMAIN Meta[f]}
     /\ parts[n][h] = "full"

(* A request is always answered, with no data when there is none. *)
HandleDataRequest(n, p) ==
  /\ p.kind = "request" /\ p.to = n
  /\ MutexFree(n)
  /\ Transmit({[kind |-> "reply", from |-> n, to |-> p.from, hash |-> p.hash,
                data |-> HasData(n, p.hash)]})
  /\ UNCHANGED <<threadVars, downloads, workerVars, diskVars, clientVars>>

HandleDataReply(n, p) ==
  /\ p.kind = "reply" /\ p.to = n
  /\ MutexFree(n)
  /\ sending' = [sending EXCEPT ![n] = downloads[n]]
  /\ reply' = [reply EXCEPT ![n] = IF downloads[n] = << >> THEN {} ELSE {p}]
  /\ Transmit({})
  /\ UNCHANGED <<threadVars, downloads, diskVars, clientVars>>

-----------------------------------------------------------------------------
(* A download: handleClientConnection, handleFileDownload and              *)
(* handleFileDownloadFromSearch.                                           *)

(* The client's goroutine appends the channel and starts the thread. *)
StartDownload(t) ==
  LET n == At[t] IN
  /\ pc[t] = "idle"
  /\ MutexFree(n)
  /\ downloads' = [downloads EXCEPT ![n] = Append(@, t)]
  /\ pc' = [pc EXCEPT ![t] = "start"]
  /\ UNCHANGED <<asking, file, workerVars, diskVars, clientVars, net>>

(* No route to the peer: the thread returns, its channel stays in the list. *)
NoRoute(t) ==
  /\ pc[t] = "start"
  /\ pc' = [pc EXCEPT ![t] = "returned"]
  /\ UNCHANGED <<asking, file, downloads, workerVars, diskVars, clientVars, net>>

AskMetafile(t) ==
  /\ pc[t] = "start"
  /\ pc' = [pc EXCEPT ![t] = "select"]
  /\ Transmit({Request(t, 0)})
  /\ UNCHANGED <<asking, file, downloads, workerVars, diskVars, clientVars>>

(* Mutant of Timeout: only the metafile is asked for again.                 *)
TimeoutMetafile(t) ==
  /\ pc[t] = "select"
  /\ asking[t] = 0
  /\ Transmit({Request(t, asking[t])})
  /\ UNCHANGED <<threadVars, downloads, workerVars, diskVars, clientVars>>

(* case <-timer.C: the last request is sent again. *)
Timeout(t) ==
  /\ pc[t] = "select"
  /\ Transmit({Request(t, asking[t])})
  /\ UNCHANGED <<threadVars, downloads, workerVars, diskVars, clientVars>>

(* case dataReply := <-ch: the worker's send to t and t's receive. *)
Receive(t, p) ==
  LET n == At[t] IN
  /\ pc[t] = "select"
  /\ sending[n] # << >> /\ Head(sending[n]) = t
  /\ p \in reply[n]
  /\ sending' = [sending EXCEPT ![n] = Tail(@)]
  /\ reply' = [reply EXCEPT ![n] = IF Len(sending[n]) = 1 THEN {} ELSE @]

(* The peer does not have what t asks for. *)
Refused(t, p) == ~ p.data /\ p.hash \in {Wants[t], HashOf(t, asking[t])}

(* Mutant of Answers: any data will do for a chunk.                         *)
AnswersAny(t, p) == p.data /\ (asking[t] = 0 => p.hash = Wants[t])

Answers(t, p) == p.data /\ p.hash = HashOf(t, asking[t])

ReceiveRefusal(t, p) ==
  /\ Receive(t, p)
  /\ Refused(t, p)
  /\ pc' = [pc EXCEPT ![t] = "aborting"]
  /\ UNCHANGED <<asking, file, downloads, diskVars, clientVars, net>>

ReceiveOther(t, p) ==
  /\ Receive(t, p)
  /\ ~ Refused(t, p)
  /\ ~ Answers(t, p)
  /\ UNCHANGED <<threadVars, downloads, diskVars, clientVars, net>>

(* The metafile: the file is indexed with no chunk, created empty, and the *)
(* first chunk is asked for.                                               *)
ReceiveMetafile(t, p) ==
  LET n == At[t] IN
  /\ Receive(t, p)
  /\ Answers(t, p)
  /\ asking[t] = 0
  /\ asking' = [asking EXCEPT ![t] = 1]
  /\ file' = [file EXCEPT ![t] = << >>]
  /\ indexed' = [indexed EXCEPT ![n] = @ \cup {Wants[t]}]
  /\ chunkMap' = [chunkMap EXCEPT ![n][Wants[t]] = 0]
  /\ Transmit({Request(t, 1)})
  /\ UNCHANGED <<pc, downloads, parts, clientVars>>

(* Mutant of ChunkNumber: chunkCount, which is one ahead.                   *)
ChunkCount(t) == asking[t] + 1

(* chunkCount - 1, what is appended to ChunkMap when a chunk arrives. *)
ChunkNumber(t) == asking[t]

(* A chunk: it is put in the ChunkMap of the index and written to the file. *)
(* ChunkMap is the thread's own copy, so it replaces what the index had.   *)
ReceiveChunk(t, p) ==
  LET n == At[t] IN
  /\ Receive(t, p)
  /\ Answers(t, p)
  /\ asking[t] > 0
  /\ indexed' = [indexed EXCEPT ![n] = @ \cup {Wants[t]}]
  /\ chunkMap' = [chunkMap EXCEPT ![n][Wants[t]] = ChunkNumber(t)]
  /\ file' = [file EXCEPT ![t] = Append(@, p.hash)]
  /\ pc' = [pc EXCEPT ![t] = "create"]
  /\ UNCHANGED <<asking, downloads, parts, clientVars, net>>

(* os.Create of the chunk's .part file, which truncates an existing one. *)
CreatePart(t) ==
  /\ pc[t] = "create"
  /\ parts' = [parts EXCEPT ![At[t]][HashOf(t, asking[t])] = "empty"]
  /\ pc' = [pc EXCEPT ![t] = "write"]
  /\ UNCHANGED <<asking, file, downloads, workerVars, indexed, chunkMap, clientVars, net>>

(* f.Write, and then the next chunk or the end. *)
WritePart(t) ==
  /\ pc[t] = "write"
  /\ parts' = [parts EXCEPT ![At[t]][HashOf(t, asking[t])] = "full"]
  /\ IF asking[t] = Len(MetaOf(t))
     THEN /\ pc' = [pc EXCEPT ![t] = "finishing"]
          /\ UNCHANGED <<asking, net>>
     ELSE /\ pc' = [pc EXCEPT ![t] = "select"]
          /\ asking' = [asking EXCEPT ![t] = @ + 1]
          /\ Transmit({Request(t, asking[t] + 1)})
  /\ UNCHANGED <<file, downloads, workerVars, indexed, chunkMap, clientVars>>

(* The thread removes its channel and returns. *)
RemoveChannel(t) ==
  LET n == At[t] IN
  /\ pc[t] \in {"finishing", "aborting"}
  /\ MutexFree(n)
  /\ \E i \in DOMAIN downloads[n] :
       /\ downloads[n][i] = t
       /\ downloads' = [downloads EXCEPT ![n] = RemoveAt(@, i)]
  /\ pc' = [pc EXCEPT ![t] = IF @ = "finishing" THEN "done" ELSE "aborted"]
  /\ UNCHANGED <<asking, file, workerVars, diskVars, clientVars, net>>

-----------------------------------------------------------------------------
ReceiveReply(t, p) ==
  \/ ReceiveRefusal(t, p)
  \/ ReceiveOther(t, p)
  \/ ReceiveMetafile(t, p)
  \/ ReceiveChunk(t, p)

ThreadStep(t) ==
  \/ AskMetafile(t)
  \/ NoRoute(t)
  \/ \E p \in reply[At[t]] : ReceiveReply(t, p)
  \/ CreatePart(t)
  \/ WritePart(t)
  \/ RemoveChannel(t)

Next ==
  \/ \E n \in Nodes :
       \/ \E f \in Shared[n] : StartIndexing(n, f)
       \/ IndexChunk(n)
       \/ EndIndexing(n)
       \/ \E p \in net : HandleDataRequest(n, p) \/ HandleDataReply(n, p)
  \/ \E t \in Threads : StartDownload(t) \/ ThreadStep(t) \/ Timeout(t)

Spec == Init /\ [][Next]_vars

(* The goroutines run, the timer ticks, and the network is fair-lossy: a   *)
(* datagram sent again and again is delivered.                             *)

Asked(t) == Request(t, asking[t])

(* The reply to what t asks for is sent, and arrives. *)
ServeFairly(t) ==
  \E p \in net :
    /\ p = Asked(t)
    /\ HandleDataRequest(p.to, p)
    /\ \E q \in net' : q.kind = "reply" /\ q.to = At[t] /\ q.hash = p.hash

AnswerArrives(t) ==
  \E p \in net : p.hash = Asked(t).hash /\ HandleDataReply(At[t], p)

Fairness ==
  \A t \in Threads :
    /\ WF_vars(ThreadStep(t))
    /\ WF_vars(Timeout(t) /\ Asked(t) \in net')
    /\ SF_vars(ServeFairly(t))
    /\ SF_vars(AnswerArrives(t))

FairSpec == Spec /\ Fairness

-----------------------------------------------------------------------------
(* Properties. *)

(* Every variable has its type, and the worker has a reply in hand exactly  *)
(* while it has channels to send it to.                                    *)
TypeOK ==
  /\ pc \in [Threads -> PCs]
  /\ asking \in [Threads -> Nat]
  /\ \A t \in Threads : asking[t] <= Len(MetaOf(t))
  /\ file \in [Threads -> Seq(Chunks)]
  /\ downloads \in [Nodes -> Seq(Threads)]
  /\ sending \in [Nodes -> Seq(Threads)]
  /\ reply \in [Nodes -> SUBSET DataReply]
  /\ \A n \in Nodes : reply[n] = {} <=> sending[n] = << >>
  /\ indexed \in [Nodes -> SUBSET Files]
  /\ chunkMap \in [Nodes -> [Files -> Nat]]
  /\ \A n \in Nodes, f \in Files : chunkMap[n][f] <= Len(Meta[f])
  /\ parts \in [Nodes -> [Chunks -> PartStates]]
  /\ indexing \in [Nodes -> SUBSET IndexingFile]
  /\ \A n \in Nodes : \A w \in indexing[n] :
       indexing[n] = {w} /\ w.chunk \in 1 .. (Len(Meta[w.file]) + 1)
  /\ net \subseteq DataRequest \cup DataReply

(* The chunks t has written when it asks for i. *)
Written(t) ==
  IF pc[t] \in {"create", "write", "finishing", "done"} THEN asking[t]
  ELSE IF asking[t] = 0 THEN 0 ELSE asking[t] - 1

(* The downloaded file is the beginning of the metafile's file, each chunk  *)
(* once and in order, whatever replies are lost, late, doubled or meant for *)
(* another download of the same node; once finished it is the whole file.  *)
FileIsPrefix ==
  \A t \in Threads :
    /\ file[t] = SubSeq(MetaOf(t), 1, Written(t))
    /\ pc[t] \in {"finishing", "done"} => file[t] = MetaOf(t)

(* A download or an indexing is about to write this chunk's .part file. *)
BeingWritten(n, c) ==
  \/ \E t \in Threads : At[t] = n /\ pc[t] \in {"create", "write"} /\ HashOf(t, asking[t]) = c
  \/ \E w \in indexing[n] : w.open /\ Meta[w.file][w.chunk] = c

OnDisk(n, c) == parts[n][c] = "full" \/ BeingWritten(n, c)

(* Every chunk a node announces (its ChunkMap is what a search reply shows, *)
(* gossiper.go:613-618) is on its disk, except for the moment in which it  *)
(* is written: asking for it then gets the requester an empty reply, which *)
(* aborts its download.                                                    *)
AnnouncedOnDisk ==
  \A n \in Nodes : \A f \in indexed[n] : \A i \in 1 .. chunkMap[n][f] :
    OnDisk(n, Meta[f][i])

(* The worker holds downloadsMutex to send to a thread that will never      *)
(* receive again: it returned, or waits for that mutex.                    *)
Stuck(n) ==
  sending[n] # << >> /\ pc[Head(sending[n])] \in {"finishing", "aborting", "returned"}

(* A download that is running ends, whole or refused, however many          *)
(* datagrams are lost, unless gossipWorker of one of the two ends is stuck. *)
DownloadEnds ==
  \A t \in Threads :
    pc[t] = "select" ~>
      \/ pc[t] \in {"finishing", "done", "aborting", "aborted"}
      \/ \E n \in {At[t]} \cup {From[t][i] : i \in DOMAIN From[t]} : Stuck(n)

(* What the comment at gossiper.go:110 says of gossipWorker: it goes on     *)
(* listening for packets.                                                  *)
KeepsListening == \A n \in Nodes : []<>MutexFree(n)

(* What fileHandler.go:144 and :159 say of a download that is given up: the *)
(* peer it asks said that it cannot send what it was asked for.            *)
AbortedByPeer ==
  [][\A t \in Threads :
       pc[t] = "select" /\ pc'[t] = "aborting" =>
         \E p \in reply[At[t]] : p.from = From[t][asking[t]]]_vars

-----------------------------------------------------------------------------
(* What downloading promises: Delivery, seen in the downloaded files. *)

Status(t) ==
  CASE pc[t] \in {"finishing", "done"} -> "whole"
    [] pc[t] \in {"aborting", "aborted", "returned"} -> "given up"
    [] OTHER -> "running"

Statuses == [t \in Threads |-> Status(t)]

DL == INSTANCE Delivery WITH
        Wanted <- [t \in Threads |-> MetaOf(t)],
        got    <- file,
        status <- Statuses

(* Whatever datagrams are lost, late or doubled, and whatever the other     *)
(* downloads of the node receive, a downloaded file only grows, by the      *)
(* chunk that is next, and the download ends when it is whole.             *)
Delivers == DL!Spec

-----------------------------------------------------------------------------
(* The inductive invariant behind FileIsPrefix, AnnouncedOnDisk and         *)
(* Delivers.                                                               *)

(* No node has an empty metafile to send. *)
RepliesOK ==
  \A p \in net \cup UNION {reply[n] : n \in Nodes} :
    p.kind = "reply" /\ p.data /\ p.hash \in Files => Meta[p.hash] # << >>

(* Which chunk a thread asks for says how much of the file it has. *)
Progress(t) ==
  /\ pc[t] \in {"create", "write"} => asking[t] # 0
  /\ pc[t] \in {"finishing", "done"} => asking[t] = Len(MetaOf(t))
  /\ Len(file[t]) = Written(t)
  /\ \A i \in 1 .. Written(t) : file[t][i] = MetaOf(t)[i]

WrittenOnDisk ==
  \A t \in Threads : \A i \in 1 .. Written(t) : OnDisk(At[t], MetaOf(t)[i])

(* handleFileIndexing has put the chunks before its current one on disk.   *)
IndexedOnDisk ==
  \A n \in Nodes : \A w \in indexing[n] :
    /\ w.open => w.chunk <= Len(Meta[w.file])
    /\ \A i \in 1 .. (w.chunk - 1) : OnDisk(n, Meta[w.file][i])

IInv ==
  /\ TypeOK
  /\ RepliesOK
  /\ \A t \in Threads : Progress(t)
  /\ WrittenOnDisk
  /\ IndexedOnDisk
  /\ AnnouncedOnDisk
=============================================================================
