---------------------------- MODULE ServerProofs ----------------------------
(***************************************************************************)
(* For any clients, descriptors, logs, requests and bounds: the types of   *)
(* the broker process, who owns its descriptors, and that none is lost.    *)
(* The inductive invariant IInv says, for every point of the accept loop   *)
(* and of a connection's thread, which descriptors that point holds.       *)
(***************************************************************************)
EXTENDS Server, TLAPS

(* The loop holds a descriptor only between accept and the thread's start, *)
(* and then it is the connection of a client that has no thread.           *)
LoopOwns ==
  IF main = "spawn"
  THEN local \in Fd /\ fdt[local] \in Client /\ at[fdt[local]] = "none"
  ELSE local = None

ThreadOwns ==
  \A c \in Client :
    IF at[c] = "none" THEN cfd[c] = None ELSE cfd[c] \in Fd /\ fdt[cfd[c]] = c

(* A thread holds a log exactly while it reads one, and not another's.     *)
LogOwns ==
  /\ \A c \in Client :
       IF at[c] \in {"load", "slurp"}
       THEN lfd[c] \in Fd /\ fdt[lfd[c]] \in LogFile
       ELSE lfd[c] = None
  /\ \A c, d \in Client : lfd[c] # None /\ lfd[c] = lfd[d] => c = d

(* A connection waits for accept once, and has no descriptor yet.          *)
QueueWaits ==
  /\ \A i, j \in 1..Len(queue) : queue[i] = queue[j] => i = j
  /\ \A i \in 1..Len(queue), fd \in Fd : fdt[fd] # queue[i]

(* A client that has not connected is unknown to the server.               *)
Unconnected ==
  \A c \in Client : conn[c] = "none" =>
    /\ \A i \in 1..Len(queue) : queue[i] # c
    /\ \A fd \in Fd : fdt[fd] # c

Busy(c) == at[c] \in {"handle", "load", "fetch", "open", "slurp", "write"}

(* A thread past the read has its request, and in the loops of a fetch it  *)
(* has not run past the topics and the partitions asked for.               *)
InRange(c) ==
  /\ Busy(c) => req[c] \in Frame
  /\ Fetching(c) => req[c].body \in FetchRequest /\ Done(c) <= Len(Topics(c))
  /\ at[c] \in {"open", "slurp"} =>
       /\ Done(c) < Len(Topics(c))
       /\ Len(parts[c]) <= Len(Topic(c).partitions)
  /\ at[c] = "slurp" => Len(parts[c]) < Len(Topic(c).partitions)
  /\ at[c] \notin {"open", "slurp"} => parts[c] = <<>>

LoopsInRange == \A c \in Client : InRange(c)

Owns == LoopOwns /\ ThreadOwns /\ LogOwns /\ QueueWaits /\ Unconnected /\ NoDescriptorLeak
IInv == TypeOK /\ Owns /\ LoopsInRange

-----------------------------------------------------------------------------
(* Nothing is owned where nothing runs.                                    *)
LEMMA NothingOwned ==
  ASSUME ServerAssumption,
         fdt = [fd \in Fd |-> Free], main = "accept", local = None, queue = <<>>,
         at = [c \in Client |-> "none"],
         cfd = [c \in Client |-> None], lfd = [c \in Client |-> None]
  PROVE  Owns
  BY DEF ServerAssumption, Owns, LoopOwns, ThreadOwns, LogOwns, QueueWaits, Unconnected,
         NoDescriptorLeak, FreeFds

LEMMA NothingOwnedNext ==
  ASSUME ServerAssumption, Terminate
  PROVE  Owns'
  BY DEF Terminate, ServerAssumption, Owns, LoopOwns, ThreadOwns, LogOwns, QueueWaits,
         Unconnected, NoDescriptorLeak, FreeFds

(* A step that leaves the descriptors, the queue and the loop alone, and   *)
(* starts no thread and no reading of a log, keeps the ownership.          *)
LEMMA OwnsUndisturbed ==
  ASSUME Owns, UNCHANGED <<fdt, queue, main, local, cfd, lfd>>,
         \A c \in Client : (at[c] = "none") = (at'[c] = "none"),
         \A c \in Client : (at[c] \in {"load", "slurp"}) = (at'[c] \in {"load", "slurp"}),
         \A c \in Client : conn'[c] = "none" => conn[c] = "none"
  PROVE  Owns'
  BY DEF Owns, LoopOwns, ThreadOwns, LogOwns, QueueWaits, Unconnected, NoDescriptorLeak, FreeFds

-----------------------------------------------------------------------------
(* A connection is queued.                                                 *)
LEMMA OwnsConnect ==
  ASSUME TypeOK, Owns, NEW c \in Client, Connect(c)
  PROVE  Owns'
<1>1. queue' = Append(queue, c) /\ Len(queue') = Len(queue) + 1 /\ Len(queue) \in Nat
      /\ queue'[Len(queue) + 1] = c /\ \A i \in 1..Len(queue) : queue'[i] = queue[i]
  BY DEF Connect, TypeOK
<1>2. UNCHANGED <<fdt, main, local, at, cfd, lfd>> /\ conn[c] = "none"
      /\ conn' = [conn EXCEPT ![c] = "open"]
  BY DEF Connect, thread
<1>3. LoopOwns' /\ ThreadOwns' /\ LogOwns' /\ NoDescriptorLeak'
  BY <1>2 DEF Owns, LoopOwns, ThreadOwns, LogOwns, NoDescriptorLeak, FreeFds
<1>4. QueueWaits'
  BY <1>1, <1>2 DEF Owns, QueueWaits, Unconnected
<1>5. Unconnected'
  BY <1>1, <1>2 DEF Owns, Unconnected, TypeOK, ClientTypes
<1> QED BY <1>3, <1>4, <1>5 DEF Owns

(* The head of the queue leaves it: what is left still waits.              *)
LEMMA TailWaits ==
  ASSUME TypeOK, queue # <<>>, queue' = Tail(queue)
  PROVE  /\ Len(queue) \in Nat \ {0} /\ Len(queue') = Len(queue) - 1
         /\ \A i \in 1..Len(queue') : queue'[i] = queue[i + 1]
         /\ Head(queue) = queue[1] /\ Head(queue) \in Client
  BY DEF TypeOK, LoopTypes

LEMMA OwnsAccept ==
  ASSUME ServerAssumption, TypeOK, Owns, Accept
  PROVE  Owns'
<1>1. PICK fd \in FreeFds : fdt' = [fdt EXCEPT ![fd] = Head(queue)] /\ local' = fd
  BY DEF Accept
<1>2. main = "accept" /\ main' = "spawn" /\ queue # <<>> /\ queue' = Tail(queue)
      /\ UNCHANGED <<at, cfd, lfd, conn>> /\ local = None
  BY DEF Accept, thread, client, Owns, LoopOwns
<1>3. fd \in Fd /\ fdt[fd] = Free /\ fdt \in [Fd -> {Free} \cup Client \cup LogFile] /\ None \notin Fd
  BY DEF FreeFds, TypeOK, ProcessTypes, ServerAssumption
<1>4. Free \notin Client \cup LogFile
  BY DEF ServerAssumption
<1> DEFINE c == Head(queue)
<1>5. c \in Client /\ c = queue[1] /\ 1 \in 1..Len(queue) /\ \A g \in Fd : fdt[g] # c
  BY <1>2, TailWaits DEF Owns, QueueWaits
<1>6. at[c] = "none"
  BY <1>5 DEF Owns, ThreadOwns
<1>7. LoopOwns'
  BY <1>1, <1>2, <1>3, <1>5, <1>6 DEF LoopOwns
<1>8. ThreadOwns'
  BY <1>1, <1>2, <1>3, <1>4 DEF Owns, ThreadOwns
<1>9. LogOwns'
  BY <1>1, <1>2, <1>3, <1>4 DEF Owns, LogOwns
<1>10. QueueWaits'
  BY <1>1, <1>2, <1>3, <1>5, TailWaits DEF Owns, QueueWaits
<1>11. Unconnected'
  BY <1>1, <1>2, <1>3, <1>5, TailWaits DEF Owns, Unconnected
<1>12. NoDescriptorLeak'
  BY <1>1, <1>2, <1>3 DEF Owns, NoDescriptorLeak, FreeFds
<1> QED BY <1>7, <1>8, <1>9, <1>10, <1>11, <1>12 DEF Owns

LEMMA OwnsAcceptAborted ==
  ASSUME TypeOK, Owns, AcceptAborted
  PROVE  Owns'
<1>1. queue # <<>> /\ queue' = Tail(queue) /\ UNCHANGED <<fdt, main, local, at, cfd, lfd, conn>>
  BY DEF AcceptAborted, thread, client
<1>2. LoopOwns' /\ ThreadOwns' /\ LogOwns' /\ NoDescriptorLeak'
  BY <1>1 DEF Owns, LoopOwns, ThreadOwns, LogOwns, NoDescriptorLeak, FreeFds
<1>3. QueueWaits' /\ Unconnected'
  BY <1>1, TailWaits DEF Owns, QueueWaits, Unconnected
<1> QED BY <1>2, <1>3 DEF Owns

(* The descriptor passes from the loop to the thread.                      *)
LEMMA OwnsSpawn ==
  ASSUME ServerAssumption, TypeOK, Owns, Spawn
  PROVE  Owns'
<1> DEFINE c == fdt[local]
<1>1. local \in Fd /\ c \in Client /\ at[c] = "none" /\ cfd[c] = None /\ Opened(local) = c
  BY DEF Spawn, Owns, LoopOwns, ThreadOwns, Opened
<1>2. at' = [at EXCEPT ![c] = "read"] /\ cfd' = [cfd EXCEPT ![c] = local] /\ local' = None
      /\ main' = "drop" /\ UNCHANGED <<fdt, queue, lfd, conn>>
  BY <1>1 DEF Spawn, MovedFrom, client
<1>3. LoopOwns'
  BY <1>2 DEF LoopOwns
<1>4. ThreadOwns' /\ LogOwns'
  BY <1>1, <1>2 DEF Owns, ThreadOwns, LogOwns, TypeOK, ThreadTypes
<1>5. QueueWaits' /\ Unconnected'
  BY <1>2 DEF Owns, QueueWaits, Unconnected
<1>6. NoDescriptorLeak'
  BY <1>1, <1>2 DEF Owns, NoDescriptorLeak, FreeFds, TypeOK, ThreadTypes, ServerAssumption
<1> QED BY <1>3, <1>4, <1>5, <1>6 DEF Owns

(* The loop's local closes nothing: it was moved from.                     *)
LEMMA OwnsDrop ==
  ASSUME Owns, Drop
  PROVE  Owns'
<1>1. main = "drop" /\ local = None
  BY DEF Drop, Owns, LoopOwns
<1>2. UNCHANGED <<fdt, local, queue, at, cfd, lfd, conn>> /\ main' = "accept"
  BY <1>1 DEF Drop, Closed, thread, client
<1> QED BY <1>1, <1>2 DEF Owns, LoopOwns, ThreadOwns, LogOwns, QueueWaits, Unconnected,
           NoDescriptorLeak, FreeFds

-----------------------------------------------------------------------------
(* A thread opens a log on a free descriptor and goes to where it reads it. *)
LEMMA OwnsOpen ==
  ASSUME ServerAssumption, TypeOK, Owns, NEW c \in Client, NEW fd \in FreeFds, NEW log \in LogFile,
         at[c] \notin {"none", "load", "slurp"},
         fdt' = [fdt EXCEPT ![fd] = log], lfd' = [lfd EXCEPT ![c] = fd],
         NEW label \in {"load", "slurp"}, at' = [at EXCEPT ![c] = label],
         UNCHANGED <<queue, main, local, cfd, conn>>
  PROVE  Owns'
<1>1. fd \in Fd /\ fdt[fd] = Free /\ None \notin Fd /\ Free \notin Client \cup LogFile
      /\ log \notin Client /\ fdt \in [Fd -> {Free} \cup Client \cup LogFile]
  BY DEF FreeFds, TypeOK, ProcessTypes, ServerAssumption
<1>2. LoopOwns' /\ ThreadOwns'
  BY <1>1 DEF Owns, LoopOwns, ThreadOwns, TypeOK
<1>3. LogOwns'
  BY <1>1 DEF Owns, LogOwns, TypeOK, ThreadTypes
<1>4. QueueWaits' /\ Unconnected'
  <2>1. \A i \in 1..Len(queue) : queue[i] \in Client
    BY DEF TypeOK, LoopTypes
  <2>2. \A g \in Fd, d \in Client : fdt'[g] = d => fdt[g] = d
    BY <1>1
  <2> QED BY <2>1, <2>2 DEF Owns, QueueWaits, Unconnected
<1>6. NoDescriptorLeak'
  <2>1. \A g \in Fd \ {fd} : g \in FreeFds' => g \in FreeFds
    BY <1>1 DEF FreeFds
  <2>2. fd \in {cfd'[c], lfd'[c]}
    BY DEF TypeOK, ThreadTypes
  <2>3. \A d \in Client : cfd'[d] = cfd[d] /\ (lfd[d] # lfd'[d] => lfd[d] = None)
    BY DEF Owns, LogOwns, TypeOK
  <2>4. \A g \in Fd \ {fd} : g \notin FreeFds' => g \notin FreeFds
    BY <1>1 DEF FreeFds
  <2> QED BY <1>1, <2>2, <2>3, <2>4 DEF Owns, NoDescriptorLeak
<1> QED BY <1>2, <1>3, <1>4, <1>6 DEF Owns

(* A thread closes the log it has read and goes back to where it was.      *)
LEMMA OwnsClose ==
  ASSUME ServerAssumption, TypeOK, Owns, NEW c \in Client,
         at[c] \in {"load", "slurp"},
         fdt' = Closed(lfd[c]), lfd' = [lfd EXCEPT ![c] = None],
         NEW label \in {"handle", "open"}, at' = [at EXCEPT ![c] = label],
         UNCHANGED <<queue, main, local, cfd, conn>>
  PROVE  Owns'
<1> DEFINE fd == lfd[c]
<1>1. fd \in Fd /\ fdt[fd] \in LogFile /\ None \notin Fd /\ Free \notin Client \cup LogFile
      /\ Client \cap LogFile = {} /\ fdt \in [Fd -> {Free} \cup Client \cup LogFile]
  BY DEF Owns, LogOwns, TypeOK, ProcessTypes, ServerAssumption
<1>2. fdt' = [fdt EXCEPT ![fd] = Free]
  BY <1>1 DEF Closed
<1>3. LoopOwns' /\ ThreadOwns'
  BY <1>1, <1>2 DEF Owns, LoopOwns, ThreadOwns, TypeOK
<1>4. LogOwns'
  <2>1. \A d \in Client : d # c /\ lfd[d] # None => lfd[d] # fd
    BY <1>1 DEF Owns, LogOwns
  <2> QED BY <1>1, <1>2, <2>1 DEF Owns, LogOwns, TypeOK, ThreadTypes
<1>5. QueueWaits' /\ Unconnected'
  <2>1. \A i \in 1..Len(queue) : queue[i] \in Client
    BY DEF TypeOK, LoopTypes
  <2>2. \A g \in Fd, d \in Client : fdt'[g] = d => fdt[g] = d
    BY <1>1, <1>2
  <2> QED BY <2>1, <2>2 DEF Owns, QueueWaits, Unconnected
<1>6. NoDescriptorLeak'
  BY <1>1, <1>2 DEF Owns, NoDescriptorLeak, FreeFds, TypeOK, ThreadTypes
<1> QED BY <1>3, <1>4, <1>5, <1>6 DEF Owns

(* Every step of the specification keeps the ownership.                    *)
LEMMA OwnsStep ==
  ASSUME ServerAssumption, TypeOK, Owns, LoopsInRange, Next
  PROVE  Owns'
<1>1. CASE Start
  BY <1>1, OwnsUndisturbed DEF Start, loop, thread, client
<1>2. CASE LogAppend
  BY <1>2, OwnsUndisturbed DEF LogAppend, loop, thread, client
<1>3. ASSUME NEW c \in Client, Connect(c) PROVE Owns'
  BY <1>3, OwnsConnect
<1>4. ASSUME NEW c \in Client, Depart(c) PROVE Owns'
  <2>1. \A d \in Client : conn'[d] = "none" => conn[d] = "none"
    BY <1>4 DEF Depart, TypeOK
  <2> QED BY <1>4, <2>1, OwnsUndisturbed DEF Depart, loop, thread
<1>5. ASSUME NEW c \in Client, NEW r \in Request, Send(c, r) PROVE Owns'
  BY <1>5, OwnsUndisturbed DEF Send, loop, thread
<1>6. CASE MainStep
  BY <1>6, OwnsAccept, OwnsAcceptAborted, OwnsSpawn, OwnsDrop, NothingOwnedNext
     DEF MainStep, StartThrows
<1>7. ASSUME NEW c \in Client, serve_client(c) PROVE Owns'
  <2>1. CASE OpenMetadata(c)
    <3>1. at[c] = "handle" /\ MetaFile \in LogFile /\ at' = [at EXCEPT ![c] = "load"]
          /\ UNCHANGED <<queue, main, local, cfd, conn>>
      BY <2>1 DEF OpenMetadata, UsesMetadata, loop, client
    <3>2. PICK fd \in FreeFds : fdt' = [fdt EXCEPT ![fd] = MetaFile] /\ lfd' = [lfd EXCEPT ![c] = fd]
      BY <2>1 DEF OpenMetadata
    <3> QED BY <3>1, <3>2, OwnsOpen
  <2>2. CASE LoadMetadata(c)
    BY <2>2, OwnsClose DEF LoadMetadata, loop, client
  <2>3. CASE OpenLog(c)
    <3>1. at[c] = "open" /\ Log(c) \in LogFile /\ at' = [at EXCEPT ![c] = "slurp"]
          /\ UNCHANGED <<queue, main, local, cfd, conn>>
      BY <2>3 DEF OpenLog, loop, client
    <3>2. PICK fd \in FreeFds : fdt' = [fdt EXCEPT ![fd] = Log(c)] /\ lfd' = [lfd EXCEPT ![c] = fd]
      BY <2>3 DEF OpenLog
    <3> QED BY <3>1, <3>2, OwnsOpen
  <2>4. CASE ReadLog(c)
    BY <2>4, OwnsClose DEF ReadLog, loop, client
  <2>5. CASE Crash(c)
    BY <2>5, NothingOwnedNext DEF Crash
  <2>6. CASE ReadRequest(c) \/ WriteResponse(c)
    BY <2>6, OwnsUndisturbed DEF ReadRequest, WriteResponse, loop, TypeOK, ThreadTypes
  <2>7. CASE handle_api_versions(c) \/ handle_describe_topic_partitions(c) \/ handle_fetch(c)
    BY <2>7, OwnsUndisturbed
       DEF handle_api_versions, handle_describe_topic_partitions, handle_fetch, Handling, Respond,
           loop, client, TypeOK, ThreadTypes
  <2>8. CASE FetchTopic(c) \/ FetchDone(c) \/ OpenFails(c) \/ TopicDone(c)
    <3>1. /\ at[c] \in {"fetch", "open"}
          /\ \E label \in {"fetch", "open", "write"} : at' = [at EXCEPT ![c] = label]
      BY <2>8 DEF FetchTopic, FetchDone, OpenFails, TopicDone, GoTo, EndTopic
    <3>2. UNCHANGED <<fdt, queue, main, local, cfd, lfd, conn>>
      BY <2>8 DEF FetchTopic, FetchDone, OpenFails, TopicDone, GoTo, EndTopic, loop, client
    <3> QED BY <3>1, <3>2, OwnsUndisturbed DEF TypeOK
  <2> QED BY <1>7, <2>1, <2>2, <2>3, <2>4, <2>5, <2>6, <2>7, <2>8 DEF serve_client
<1> QED BY <1>1, <1>2, <1>3, <1>4, <1>5, <1>6, <1>7 DEF Next, Environment

-----------------------------------------------------------------------------
(* The end of the process leaves the initial values behind.                *)
LEMMA TypesAtTheEnd ==
  ASSUME TypeOK, Terminate
  PROVE  TypeOK' /\ LoopsInRange'
<1>1. \A S : <<>> \in Seq(S)
  OBVIOUS
<1>2. LoopsInRange'
  BY DEF Terminate, LoopsInRange, InRange, Busy, Fetching
<1>3. parts' \in [Client -> Seq(PartitionData)] /\ sent' \in [Client -> Seq(Frame)]
      /\ taken' \in [Client -> Nat] /\ queue' \in Seq(Client)
  BY <1>1 DEF Terminate
<1>4. fdt' \in [Fd -> {Free} \cup Client \cup LogFile] /\ local' \in Fd \cup {None}
      /\ cfd' \in [Client -> Fd \cup {None}] /\ lfd' \in [Client -> Fd \cup {None}]
      /\ req' \in [Client -> Frame \cup {None}]
  BY DEF Terminate
<1>5. \A d \in Client : ~Fetching(d)'
  BY DEF Terminate, Fetching
<1> QED BY <1>2, <1>3, <1>4, <1>5 DEF Terminate, TypeOK, ProcessTypes, LoopTypes, ThreadTypes, BodyTypes, ClientTypes, disk

LEMMA ElementType ==
  ASSUME NEW S, NEW seq \in Seq(S), NEW i \in 1..Len(seq)
  PROVE  seq[i] \in S
  OBVIOUS

(* What a thread knows of its fetch.                                       *)
LEMMA FetchFacts ==
  ASSUME ServerAssumption, TypeOK, LoopsInRange, NEW c \in Client, Fetching(c)
  PROVE  /\ Topics(c) \in Seq([id : Id, partitions : Seq(Pid)])
         /\ body[c] \in FetchResponse
         /\ Done(c) \in Nat
         /\ Done(c) < Len(Topics(c)) =>
              Topic(c).id \in Id /\ Topic(c).partitions \in Seq(Pid)
<1>1. req[c].body \in FetchRequest /\ body[c] \in FetchResponse
  BY DEF LoopsInRange, InRange, TypeOK, BodyTypes
<1>2. Topics(c) \in Seq([id : Id, partitions : Seq(Pid)]) /\ Done(c) \in Nat
  BY <1>1 DEF Topics, Done, FetchRequest, FetchResponse
<1>3. ASSUME Done(c) < Len(Topics(c))
      PROVE  Topic(c) \in [id : Id, partitions : Seq(Pid)]
  <2>1. Done(c) + 1 \in 1..Len(Topics(c))
    BY <1>2, <1>3
  <2>2. Topics(c)[Done(c) + 1] \in [id : Id, partitions : Seq(Pid)]
    BY <1>2, <2>1, ElementType
  <2> QED BY <2>2 DEF Topic
<1> QED BY <1>1, <1>2, <1>3

LEMMA FetchSteps ==
  ASSUME ServerAssumption, CatalogAssumption, TypeOK, LoopsInRange, NEW c \in Client,
         FetchTopic(c) \/ OpenFails(c) \/ TopicDone(c)
  PROVE  TypeOK' /\ LoopsInRange'
<1>1. Fetching(c) /\ Done(c) < Len(Topics(c))
  BY DEF FetchTopic, OpenFails, TopicDone, Fetching, LoopsInRange, InRange
<1>2. UnknownTopicId \in PartitionData /\ parts[c] \in Seq(PartitionData)
  BY DEF UnknownTopicId, PartitionData, TypeOK, ThreadTypes
<1>3. ASSUME NEW ps \in Seq(PartitionData), EndTopic(c, ps) PROVE TypeOK' /\ LoopsInRange'
  <2> DEFINE entry == [id |-> Topic(c).id, partitions |-> ps]
             Entries == [id : Id, partitions : Seq(PartitionData)]
  <2>1. entry \in Entries
    BY <1>1, FetchFacts
  <2>2. body[c].responses \in Seq(Entries) /\ body[c] \in FetchResponse
    BY <1>1, FetchFacts DEF FetchResponse
  <2>3. Append(body[c].responses, entry) \in Seq(Entries)
        /\ Len(Append(body[c].responses, entry)) = Done(c) + 1
    BY <2>1, <2>2 DEF Done
  <2>4. body' = [body EXCEPT ![c] = [responses |-> Append(body[c].responses, entry)]]
    <3>1. body' = [body EXCEPT ![c] = [body[c] EXCEPT !.responses = Append(body[c].responses, entry)]]
      BY <1>3 DEF EndTopic
    <3>2. \A rs : [body[c] EXCEPT !.responses = rs] = [responses |-> rs]
      BY <2>2 DEF FetchResponse
    <3> QED BY <3>1, <3>2
  <2>5. parts' = [parts EXCEPT ![c] = <<>>] /\ at' = [at EXCEPT ![c] = "fetch"]
        /\ UNCHANGED <<up, starts, written, view, queue, fdt, main, local, cfd, lfd, req,
                        conn, sent, taken, replies>>
    BY <1>3 DEF EndTopic, proc, disk, loop, client
  <2>6. /\ body'[c] = [responses |-> Append(body[c].responses, entry)]
        /\ \A d \in Client \ {c} : body'[d] = body[d]
        /\ DOMAIN body' = Client
    BY <2>4 DEF TypeOK, BodyTypes
  <2>7. BodyTypes'
    <3>1. body'[c] \in FetchResponse
      BY <2>3, <2>6 DEF FetchResponse
    <3>2. \A d \in Client \ {c} : at'[d] = at[d]
      BY <2>5 DEF TypeOK, ThreadTypes
    <3>3. \A d \in Client \ {c} : Fetching(d)' => body'[d] \in FetchResponse
      BY <2>6, <3>2 DEF TypeOK, BodyTypes, Fetching
    <3> QED BY <2>6, <3>1, <3>3 DEF BodyTypes, FetchResponse, PartitionData
  <2>8. TypeOK'
    <3>1. parts' \in [Client -> Seq(PartitionData)]
      BY <1>2, <2>5 DEF TypeOK, ThreadTypes
    <3>2. ThreadTypes'
      BY <2>5, <3>1 DEF TypeOK, ThreadTypes
    <3>3. ProcessTypes' /\ LoopTypes' /\ ClientTypes'
      BY <2>5 DEF TypeOK, ProcessTypes, LoopTypes, ClientTypes
    <3> QED BY <2>7, <3>2, <3>3 DEF TypeOK
  <2>9. Done(c)' = Done(c) + 1 /\ Topics(c)' = Topics(c)
        /\ \A d \in Client \ {c} : Done(d)' = Done(d) /\ Topics(d)' = Topics(d) /\ Topic(d)' = Topic(d)
    <3>1. Len(body'[c].responses) = Done(c) + 1 /\ Topics(c)' = Topics(c)
      BY <2>3, <2>5, <2>6 DEF Topics
    <3>2. \A d \in Client \ {c} : Done(d)' = Done(d) /\ Topics(d)' = Topics(d)
      BY <2>5, <2>6 DEF Done, Topics
    <3> QED BY <3>1, <3>2 DEF Done, Topic
  <2>10. LoopsInRange'
    <3>1. \A d \in Client \ {c} : at'[d] = at[d] /\ req'[d] = req[d] /\ parts'[d] = parts[d]
      BY <2>5 DEF TypeOK
    <3>2. at'[c] = "fetch" /\ req'[c] = req[c]
      BY <2>5 DEF TypeOK, ThreadTypes
    <3>3. req[c] \in Frame /\ req[c].body \in FetchRequest /\ Done(c) + 1 <= Len(Topics(c))
      <4>1. Done(c) \in Nat /\ Len(Topics(c)) \in Nat
        BY <1>1, FetchFacts
      <4> QED BY <1>1, <4>1 DEF LoopsInRange, InRange, Busy, Fetching
    <3>4. parts'[c] = <<>>
      BY <2>5 DEF TypeOK, ThreadTypes
    <3> QED BY <2>9, <3>1, <3>2, <3>3, <3>4 DEF LoopsInRange, InRange, Busy, Fetching
  <2> QED BY <2>8, <2>10
<1>4. ASSUME FetchTopic(c), GoTo(c, "open") PROVE TypeOK' /\ LoopsInRange'
  <2>1. at' = [at EXCEPT ![c] = "open"] /\ at[c] = "fetch"
        /\ UNCHANGED <<up, starts, written, view, queue, fdt, main, local, cfd, lfd, req, body, parts,
                        conn, sent, taken, replies>>
    BY <1>4 DEF FetchTopic, GoTo, proc, disk, loop, client
  <2>2. TypeOK'
    BY <2>1 DEF TypeOK, ProcessTypes, LoopTypes, ThreadTypes, BodyTypes, ClientTypes, Fetching
  <2>3. Len(parts[c]) = 0 /\ Len(Topic(c).partitions) \in Nat
    <3>1. parts[c] = <<>>
      BY <2>1 DEF LoopsInRange, InRange
    <3>2. Topic(c).partitions \in Seq(Pid)
      BY <1>1, FetchFacts
    <3> QED BY <3>1, <3>2
  <2>4. \A d \in Client : Done(d)' = Done(d) /\ Topics(d)' = Topics(d) /\ Topic(d)' = Topic(d)
    BY <2>1 DEF Done, Topics, Topic
  <2>5. \A d \in Client \ {c} : at'[d] = at[d]
    BY <2>1 DEF TypeOK
  <2>6. at'[c] = "open" /\ req[c] \in Frame /\ req[c].body \in FetchRequest
    BY <1>1, <2>1 DEF TypeOK, ThreadTypes, LoopsInRange, InRange, Busy, Fetching
  <2>7. LoopsInRange'
    BY <1>1, <2>1, <2>3, <2>4, <2>5, <2>6 DEF LoopsInRange, InRange, Busy, Fetching
  <2> QED BY <2>2, <2>7
<1>5. <<UnknownTopicId>> \in Seq(PartitionData)
      /\ Append(parts[c], UnknownTopicId) \in Seq(PartitionData)
  BY <1>2
<1>6. CASE FetchTopic(c)
  BY <1>3, <1>4, <1>5, <1>6 DEF FetchTopic
<1>7. CASE OpenFails(c)
  BY <1>3, <1>5, <1>7 DEF OpenFails
<1>8. CASE TopicDone(c)
  BY <1>2, <1>3, <1>8 DEF TopicDone
<1> QED BY <1>6, <1>7, <1>8

(* A step of one thread, or of none: the others stay where they are.       *)
LEMMA OthersInRange ==
  ASSUME TypeOK, LoopsInRange, NEW c \in Client,
         \A d \in Client \ {c} :
           at'[d] = at[d] /\ req'[d] = req[d] /\ body'[d] = body[d] /\ parts'[d] = parts[d],
         DOMAIN body' = Client,
         InRange(c)', Fetching(c)' => body'[c] \in FetchResponse
  PROVE  LoopsInRange' /\ BodyTypes'
<1>1. \A d \in Client \ {c} : InRange(d)'
  BY DEF LoopsInRange, InRange, Busy, Fetching, Done, Topics, Topic
<1>2. \A d \in Client \ {c} : Fetching(d)' => body'[d] \in FetchResponse
  BY DEF TypeOK, BodyTypes, Fetching
<1> QED BY <1>1, <1>2 DEF LoopsInRange, BodyTypes, FetchResponse, PartitionData

LEMMA NoneMoves ==
  ASSUME TypeOK, LoopsInRange, UNCHANGED <<at, req, body, parts>>
  PROVE  LoopsInRange' /\ BodyTypes'
  BY DEF LoopsInRange, InRange, Busy, Fetching, Done, Topics, Topic, TypeOK, BodyTypes,
         FetchResponse, PartitionData

(* What happens outside the process, and in the accept loop.               *)
LEMMA EnvironmentSteps ==
  ASSUME ServerAssumption, TypeOK, LoopsInRange, Environment
  PROVE  TypeOK' /\ LoopsInRange'
<1>1. UNCHANGED <<at, cfd, lfd, req, body, parts, view, main, local, fdt, taken, replies>>
  BY DEF Environment, Start, LogAppend, Connect, Depart, Send, loop, thread, client
<1>2. LoopsInRange' /\ BodyTypes' /\ ThreadTypes'
  BY <1>1, NoneMoves DEF TypeOK, ThreadTypes
<1>3. ProcessTypes'
  <2>1. CASE Start
    BY <1>1, <2>1 DEF Start, disk, TypeOK, ProcessTypes, ServerAssumption
  <2>2. CASE LogAppend
    BY <1>1, <2>2 DEF LogAppend, proc, TypeOK, ProcessTypes
  <2>3. CASE UNCHANGED <<proc, disk>>
    BY <1>1, <2>3 DEF proc, disk, TypeOK, ProcessTypes
  <2> QED BY <2>1, <2>2, <2>3 DEF Environment, Connect, Depart, Send
<1>4. LoopTypes'
  <2>1. queue' = queue \/ \E c \in Client : queue' = Append(queue, c)
    BY DEF Environment, Start, LogAppend, Connect, Depart, Send, loop
  <2> QED BY <1>1, <2>1 DEF TypeOK, LoopTypes
<1>5. ClientTypes'
  <2>1. conn' \in [Client -> {"none", "open", "closed"}]
    BY DEF Environment, Start, LogAppend, Connect, Depart, Send, client, TypeOK, ClientTypes
  <2>2. ASSUME NEW c \in Client, NEW r \in Request, Send(c, r)
        PROVE  sent' \in [Client -> Seq(Frame)]
    <3>1. sent[c] \in Seq(Frame) /\ Len(sent[c]) + 1 \in Nat
      BY DEF TypeOK, ClientTypes
    <3>2. Append(sent[c], [corr |-> Len(sent[c]) + 1, body |-> r]) \in Seq(Frame)
      BY <3>1 DEF Frame
    <3> QED BY <2>2, <3>2 DEF Send, TypeOK, ClientTypes
  <2>3. sent' \in [Client -> Seq(Frame)]
    BY <2>2 DEF Environment, Start, LogAppend, Connect, Depart, client, TypeOK, ClientTypes
  <2> QED BY <1>1, <2>1, <2>3 DEF TypeOK, ClientTypes, Frame
<1> QED BY <1>2, <1>3, <1>4, <1>5 DEF TypeOK

LEMMA MainSteps ==
  ASSUME ServerAssumption, TypeOK, Owns, LoopsInRange, MainStep
  PROVE  TypeOK' /\ LoopsInRange'
<1>1. CASE Accept
  <2>1. PICK fd \in FreeFds : fdt' = [fdt EXCEPT ![fd] = Head(queue)] /\ local' = fd
    BY <1>1 DEF Accept
  <2>2. queue # <<>> /\ queue' = Tail(queue) /\ main' = "spawn"
        /\ UNCHANGED <<up, starts, written, view, at, cfd, lfd, req, body, parts, conn, sent, taken, replies>>
    BY <1>1 DEF Accept, proc, disk, thread, client
  <2>3. ProcessTypes' /\ LoopTypes'
    BY <2>1, <2>2, TailWaits DEF TypeOK, ProcessTypes, LoopTypes, FreeFds
  <2> QED BY <2>2, <2>3, NoneMoves DEF TypeOK, ThreadTypes, ClientTypes, Frame
<1>2. CASE AcceptAborted \/ Drop
  <2>1. UNCHANGED <<up, starts, written, view, at, cfd, lfd, req, body, parts, conn, sent, taken, replies>>
        /\ fdt' = fdt /\ local' \in {local, None}
    BY <1>2 DEF AcceptAborted, Drop, proc, disk, thread, client, Closed, Owns, LoopOwns
  <2>2. main' \in {"accept", main} /\ queue' \in Seq(Client)
    BY <1>2 DEF AcceptAborted, Drop, TypeOK, LoopTypes
  <2>3. ProcessTypes' /\ LoopTypes'
    BY <2>1, <2>2 DEF TypeOK, ProcessTypes, LoopTypes
  <2> QED BY <2>1, <2>3, NoneMoves DEF TypeOK, ThreadTypes, ClientTypes, Frame
<1>3. CASE Spawn
  <2> DEFINE c == fdt[local]
  <2>1. local \in Fd /\ c \in Client /\ Opened(local) = c /\ at[c] = "none"
    BY <1>3 DEF Spawn, Owns, LoopOwns, Opened
  <2>2. at' = [at EXCEPT ![c] = "read"] /\ cfd' = [cfd EXCEPT ![c] = local] /\ local' = None
        /\ main' = "drop"
        /\ UNCHANGED <<up, starts, written, view, queue, fdt, lfd, req, body, parts, conn, sent, taken, replies>>
    BY <1>3, <2>1 DEF Spawn, MovedFrom, proc, disk, client
  <2>3. at'[c] = "read" /\ parts'[c] = <<>>
    BY <2>1, <2>2 DEF TypeOK, ThreadTypes, LoopsInRange, InRange
  <2>4. LoopsInRange' /\ BodyTypes'
    BY <2>1, <2>2, <2>3, OthersInRange DEF TypeOK, ThreadTypes, BodyTypes, InRange, Busy, Fetching
  <2>5. ThreadTypes'
    BY <2>1, <2>2 DEF TypeOK, ThreadTypes, Frame, PartitionData
  <2>6. ProcessTypes' /\ LoopTypes' /\ ClientTypes'
    BY <2>2 DEF TypeOK, ProcessTypes, LoopTypes, ClientTypes, Frame
  <2> QED BY <2>4, <2>5, <2>6 DEF TypeOK
<1>4. CASE StartThrows
  BY <1>4, TypesAtTheEnd DEF StartThrows
<1> QED BY <1>1, <1>2, <1>3, <1>4 DEF MainStep

(* A step of a connection's thread that stays inside the process.          *)
LEMMA ThreadSteps ==
  ASSUME ServerAssumption, CatalogAssumption, TypeOK, Owns, LoopsInRange,
         NEW c \in Client, serve_client(c)
  PROVE  TypeOK' /\ LoopsInRange'
<1>1. CASE ReadRequest(c)
  <2> DEFINE p == Peer(c)
  <2>1. p \in Client /\ at[c] = "read" /\ req' = [req EXCEPT ![c] = NextFrame(c)]
        /\ taken' = [taken EXCEPT ![p] = @ + 1] /\ at' = [at EXCEPT ![c] = "handle"]
        /\ UNCHANGED <<up, starts, written, view, queue, main, local, fdt, cfd, lfd, body, parts, conn, sent, replies>>
    BY <1>1 DEF ReadRequest, proc, disk, loop
  <2>2. NextFrame(c) \in Frame
    <3>1. sent[p] \in Seq(Frame) /\ taken[p] + 1 \in 1..Len(sent[p])
      BY <1>1, <2>1 DEF ReadRequest, FramePending, TypeOK, ClientTypes
    <3> QED BY <3>1, ElementType DEF NextFrame
  <2>3. LoopsInRange' /\ BodyTypes'
    <3>1. at'[c] = "handle" /\ req'[c] \in Frame /\ parts'[c] = <<>>
      BY <2>1, <2>2 DEF TypeOK, ThreadTypes, LoopsInRange, InRange
    <3>2. InRange(c)' /\ ~Fetching(c)'
      BY <3>1 DEF InRange, Busy, Fetching, Frame
    <3> QED BY <2>1, <3>2, OthersInRange DEF TypeOK, ThreadTypes, BodyTypes
  <2>4. ThreadTypes'
    BY <2>1, <2>2 DEF TypeOK, ThreadTypes, Frame, PartitionData
  <2>5. ProcessTypes' /\ LoopTypes'
    BY <2>1 DEF TypeOK, ProcessTypes, LoopTypes
  <2>6. ClientTypes'
    <3>1. taken' \in [Client -> Nat]
      BY <2>1 DEF TypeOK, ClientTypes
    <3> QED BY <2>1, <3>1 DEF TypeOK, ClientTypes, Frame
  <2> QED BY <2>3, <2>4, <2>5, <2>6 DEF TypeOK
<1>2. CASE handle_api_versions(c) \/ handle_describe_topic_partitions(c)
  <2>1. PICK response : Respond(c, response) /\ at[c] = "handle"
    BY <1>2 DEF handle_api_versions, handle_describe_topic_partitions, Handling
  <2>2. at' = [at EXCEPT ![c] = "write"] /\ body' = [body EXCEPT ![c] = response]
        /\ UNCHANGED <<up, starts, written, view, queue, main, local, fdt, cfd, lfd, req, parts,
                       conn, sent, taken, replies>>
    BY <2>1 DEF Respond, proc, disk, loop, client
  <2>3. LoopsInRange' /\ BodyTypes'
    <3>1. at'[c] = "write" /\ req'[c] \in Frame /\ parts'[c] = <<>>
      BY <2>1, <2>2 DEF TypeOK, ThreadTypes, LoopsInRange, InRange, Busy
    <3>2. InRange(c)' /\ ~Fetching(c)'
      BY <3>1 DEF InRange, Busy, Fetching, Frame
    <3> QED BY <2>2, <3>2, OthersInRange DEF TypeOK, ThreadTypes, BodyTypes
  <2>4. ThreadTypes' /\ ProcessTypes' /\ LoopTypes' /\ ClientTypes'
    BY <2>2 DEF TypeOK, ThreadTypes, ProcessTypes, LoopTypes, ClientTypes, Frame, PartitionData
  <2> QED BY <2>3, <2>4 DEF TypeOK
<1>3. CASE handle_fetch(c)
  <2>1. at' = [at EXCEPT ![c] = "fetch"] /\ body' = [body EXCEPT ![c] = [responses |-> <<>>]]
        /\ at[c] = "handle" /\ req[c].body.api = "FETCH"
        /\ UNCHANGED <<up, starts, written, view, queue, main, local, fdt, cfd, lfd, req, parts,
                       conn, sent, taken, replies>>
    BY <1>3 DEF handle_fetch, Handling, proc, disk, loop, client
  <2>2. req[c] \in Frame /\ req[c].body \in FetchRequest
    <3>1. req[c] \in Frame
      BY <2>1 DEF LoopsInRange, InRange, Busy
    <3> QED BY <2>1, <3>1
            DEF Frame, ServerAssumption, FetchRequest, ApiVersionsRequest, DescribeRequest, MalformedRequest
  <2>3. at'[c] = "fetch" /\ req'[c] = req[c] /\ parts'[c] = <<>> /\ body'[c] = [responses |-> <<>>]
    BY <2>1 DEF TypeOK, ThreadTypes, BodyTypes, LoopsInRange, InRange
  <2>4. body'[c] \in FetchResponse /\ Done(c)' = 0
    BY <2>3 DEF FetchResponse, Done
  <2>5. Topics(c)' = Topics(c) /\ Len(Topics(c)) \in Nat
    BY <2>2, <2>3 DEF Topics, FetchRequest
  <2>6. InRange(c)'
    <3>1. Done(c)' <= Len(Topics(c)')
      BY <2>4, <2>5
    <3>2. req'[c] \in Frame' /\ req'[c].body \in FetchRequest
      BY <2>2, <2>3 DEF Frame
    <3> QED BY <2>3, <3>1, <3>2 DEF InRange, Busy, Fetching
  <2>7. LoopsInRange' /\ BodyTypes'
    BY <2>1, <2>4, <2>6, OthersInRange DEF TypeOK, ThreadTypes, BodyTypes
  <2>8. ThreadTypes' /\ ProcessTypes' /\ LoopTypes' /\ ClientTypes'
    BY <2>1 DEF TypeOK, ThreadTypes, ProcessTypes, LoopTypes, ClientTypes, Frame, PartitionData
  <2> QED BY <2>7, <2>8 DEF TypeOK
<1>4. CASE FetchTopic(c) \/ OpenFails(c) \/ TopicDone(c)
  BY <1>4, FetchSteps
<1>5. CASE FetchDone(c)
  <2>1. at' = [at EXCEPT ![c] = "write"] /\ at[c] = "fetch"
        /\ UNCHANGED <<up, starts, written, view, queue, main, local, fdt, cfd, lfd, req, body, parts,
                       conn, sent, taken, replies>>
    BY <1>5 DEF FetchDone, GoTo, proc, disk, loop, client
  <2>2. LoopsInRange' /\ BodyTypes'
    <3>1. at'[c] = "write" /\ req'[c] \in Frame /\ parts'[c] = <<>>
      BY <2>1 DEF TypeOK, ThreadTypes, LoopsInRange, InRange, Busy
    <3>2. InRange(c)' /\ ~Fetching(c)'
      BY <3>1 DEF InRange, Busy, Fetching, Frame
    <3> QED BY <2>1, <3>2, OthersInRange DEF TypeOK, ThreadTypes, BodyTypes
  <2>3. ThreadTypes' /\ ProcessTypes' /\ LoopTypes' /\ ClientTypes'
    BY <2>1 DEF TypeOK, ThreadTypes, ProcessTypes, LoopTypes, ClientTypes, Frame, PartitionData
  <2> QED BY <2>2, <2>3 DEF TypeOK
<1>6. CASE OpenMetadata(c)
  <2>1. PICK fd \in FreeFds : fdt' = [fdt EXCEPT ![fd] = MetaFile] /\ lfd' = [lfd EXCEPT ![c] = fd]
    BY <1>6 DEF OpenMetadata
  <2>2. at' = [at EXCEPT ![c] = "load"] /\ at[c] = "handle" /\ MetaFile \in LogFile
        /\ UNCHANGED <<up, starts, written, view, queue, main, local, cfd, req, body, parts,
                       conn, sent, taken, replies>>
    BY <1>6 DEF OpenMetadata, UsesMetadata, proc, disk, loop, client
  <2>3. LoopsInRange' /\ BodyTypes'
    <3>1. at'[c] = "load" /\ req'[c] \in Frame /\ parts'[c] = <<>>
      BY <2>2 DEF TypeOK, ThreadTypes, LoopsInRange, InRange, Busy
    <3>2. InRange(c)' /\ ~Fetching(c)'
      BY <3>1 DEF InRange, Busy, Fetching, Frame
    <3> QED BY <2>2, <3>2, OthersInRange DEF TypeOK, ThreadTypes, BodyTypes
  <2>4. ProcessTypes' /\ LoopTypes' /\ ClientTypes'
    BY <2>1, <2>2 DEF TypeOK, ProcessTypes, LoopTypes, ClientTypes, Frame
  <2>5. ThreadTypes'
    BY <2>1, <2>2 DEF TypeOK, ThreadTypes, Frame, PartitionData, FreeFds
  <2> QED BY <2>3, <2>4, <2>5 DEF TypeOK
<1>7. CASE LoadMetadata(c)
  <2>1. at' = [at EXCEPT ![c] = "handle"] /\ at[c] = "load" /\ view' = Snapshot(written)
        /\ fdt' = Closed(lfd[c]) /\ lfd' = [lfd EXCEPT ![c] = None]
        /\ UNCHANGED <<up, starts, written, queue, main, local, cfd, req, body, parts,
                       conn, sent, taken, replies>>
    BY <1>7 DEF LoadMetadata, proc, disk, loop, client
  <2>2. LoopsInRange' /\ BodyTypes'
    <3>1. at'[c] = "handle" /\ req'[c] \in Frame /\ parts'[c] = <<>>
      BY <2>1 DEF TypeOK, ThreadTypes, LoopsInRange, InRange, Busy
    <3>2. InRange(c)' /\ ~Fetching(c)'
      BY <3>1 DEF InRange, Busy, Fetching, Frame
    <3> QED BY <2>1, <3>2, OthersInRange DEF TypeOK, ThreadTypes, BodyTypes
  <2>3. LoopTypes' /\ ClientTypes'
    BY <2>1 DEF TypeOK, LoopTypes, ClientTypes, Frame
  <2>4. ThreadTypes'
    BY <2>1 DEF TypeOK, ThreadTypes, Frame, PartitionData
  <2>5. ProcessTypes'
    <3>1. fdt' \in [Fd -> {Free} \cup Client \cup LogFile]
      BY <2>1 DEF Closed, TypeOK, ProcessTypes
    <3>2. written \in {0} \cup BatchEnd
      BY DEF TypeOK, ProcessTypes
    <3>3. view' \in {Unloaded} \cup {Snapshot(n) : n \in {0} \cup BatchEnd}
      BY <2>1, <3>2
    <3> QED BY <2>1, <3>1, <3>3, <3>2 DEF TypeOK, ProcessTypes
  <2> QED BY <2>2, <2>3, <2>4, <2>5 DEF TypeOK
<1>8. CASE OpenLog(c)
  <2>1. PICK fd \in FreeFds : fdt' = [fdt EXCEPT ![fd] = Log(c)] /\ lfd' = [lfd EXCEPT ![c] = fd]
    BY <1>8 DEF OpenLog
  <2>2. at' = [at EXCEPT ![c] = "slurp"] /\ at[c] = "open" /\ Log(c) \in LogFile
        /\ Len(parts[c]) < Len(Topic(c).partitions)
        /\ UNCHANGED <<up, starts, written, view, queue, main, local, cfd, req, body, parts,
                       conn, sent, taken, replies>>
    BY <1>8 DEF OpenLog, proc, disk, loop, client
  <2>3. LoopsInRange' /\ BodyTypes'
    <3>1. at'[c] = "slurp"
      BY <2>2 DEF TypeOK, ThreadTypes
    <3>2. Done(c)' = Done(c) /\ Topics(c)' = Topics(c) /\ Topic(c)' = Topic(c)
      BY <2>2 DEF Done, Topics, Topic
    <3>3. InRange(c) /\ Len(parts[c]) <= Len(Topic(c).partitions)
      BY <2>2 DEF LoopsInRange, InRange
    <3>4. InRange(c)'
      BY <2>2, <3>1, <3>2, <3>3 DEF InRange, Busy, Fetching, Frame, FetchRequest
    <3>5. body'[c] \in FetchResponse
      BY <2>2 DEF TypeOK, BodyTypes, Fetching
    <3> QED BY <2>2, <3>4, <3>5, OthersInRange DEF TypeOK, ThreadTypes, BodyTypes
  <2>4. ProcessTypes' /\ LoopTypes' /\ ClientTypes'
    BY <2>1, <2>2 DEF TypeOK, ProcessTypes, LoopTypes, ClientTypes, Frame
  <2>5. ThreadTypes'
    BY <2>1, <2>2 DEF TypeOK, ThreadTypes, Frame, PartitionData, FreeFds
  <2> QED BY <2>3, <2>4, <2>5 DEF TypeOK
<1>9. CASE ReadLog(c)
  <2> DEFINE data == make_partition_data(c)
  <2>1. at' = [at EXCEPT ![c] = "open"] /\ at[c] = "slurp"
        /\ parts' = [parts EXCEPT ![c] = Append(parts[c], data)]
        /\ fdt' = Closed(lfd[c]) /\ lfd' = [lfd EXCEPT ![c] = None]
        /\ UNCHANGED <<up, starts, written, view, queue, main, local, cfd, req, body,
                       conn, sent, taken, replies>>
    BY <1>9 DEF ReadLog, proc, disk, loop, client
  <2>2. Fetching(c) /\ InRange(c) /\ Done(c) < Len(Topics(c)) /\ Len(parts[c]) < Len(Topic(c).partitions)
    BY <2>1 DEF LoopsInRange, InRange, Fetching
  <2>3. Topic(c).partitions \in Seq(Pid) /\ parts[c] \in Seq(PartitionData)
    BY <2>2, FetchFacts DEF TypeOK, ThreadTypes
  <2>4. data \in PartitionData
    <3>1. Len(parts[c]) + 1 \in 1..Len(Topic(c).partitions)
      BY <2>2, <2>3
    <3>2. Partition(c) \in Pid
      BY <2>3, <3>1, ElementType DEF Partition
    <3>3. fdt[lfd[c]] \in LogFile
      BY <2>1 DEF Owns, LogOwns
    <3> QED BY <3>2, <3>3 DEF make_partition_data, PartitionData
  <2>5. Append(parts[c], data) \in Seq(PartitionData) /\ Len(Append(parts[c], data)) = Len(parts[c]) + 1
    BY <2>3, <2>4
  <2>6. LoopsInRange' /\ BodyTypes'
    <3>1. at'[c] = "open" /\ Len(parts'[c]) = Len(parts[c]) + 1
      BY <2>1, <2>5 DEF TypeOK, ThreadTypes
    <3>2. Done(c)' = Done(c) /\ Topics(c)' = Topics(c) /\ Topic(c)' = Topic(c)
      BY <2>1 DEF Done, Topics, Topic
    <3>3. Len(parts'[c]) <= Len(Topic(c).partitions)
      BY <2>2, <2>3, <3>1
    <3>4. InRange(c)'
      BY <2>1, <2>2, <3>1, <3>2, <3>3 DEF InRange, Busy, Fetching, Frame, FetchRequest
    <3>5. body'[c] \in FetchResponse
      BY <2>1, <2>2 DEF TypeOK, BodyTypes
    <3> QED BY <2>1, <3>4, <3>5, OthersInRange DEF TypeOK, ThreadTypes, BodyTypes
  <2>7. ProcessTypes' /\ LoopTypes' /\ ClientTypes'
    <3>1. fdt' \in [Fd -> {Free} \cup Client \cup LogFile]
      BY <2>1 DEF Closed, TypeOK, ProcessTypes
    <3> QED BY <2>1, <3>1 DEF TypeOK, ProcessTypes, LoopTypes, ClientTypes, Frame
  <2>8. ThreadTypes'
    <3>1. parts' \in [Client -> Seq(PartitionData)]
      BY <2>1, <2>5 DEF TypeOK, ThreadTypes
    <3> QED BY <2>1, <3>1 DEF TypeOK, ThreadTypes, Frame, PartitionData
  <2> QED BY <2>6, <2>7, <2>8 DEF TypeOK
<1>10. CASE WriteResponse(c)
  <2>1. at' = [at EXCEPT ![c] = "read"] /\ at[c] = "write"
        /\ req' = [req EXCEPT ![c] = None] /\ body' = [body EXCEPT ![c] = None]
        /\ DOMAIN replies' = DOMAIN replies
        /\ UNCHANGED <<up, starts, written, view, queue, main, local, fdt, cfd, lfd, parts,
                       conn, sent, taken>>
    BY <1>10 DEF WriteResponse, proc, disk, loop
  <2>2. LoopsInRange' /\ BodyTypes'
    <3>1. at'[c] = "read" /\ parts'[c] = <<>>
      BY <2>1 DEF TypeOK, ThreadTypes, LoopsInRange, InRange
    <3>2. InRange(c)' /\ ~Fetching(c)'
      BY <3>1 DEF InRange, Busy, Fetching, Frame
    <3> QED BY <2>1, <3>2, OthersInRange DEF TypeOK, ThreadTypes, BodyTypes
  <2>3. ThreadTypes' /\ ProcessTypes' /\ LoopTypes' /\ ClientTypes'
    BY <2>1 DEF TypeOK, ThreadTypes, ProcessTypes, LoopTypes, ClientTypes, Frame, PartitionData
  <2> QED BY <2>2, <2>3 DEF TypeOK
<1>11. CASE Crash(c)
  BY <1>11, TypesAtTheEnd DEF Crash
<1> QED BY <1>1, <1>2, <1>3, <1>4, <1>5, <1>6, <1>7, <1>8, <1>9, <1>10, <1>11 DEF serve_client

-----------------------------------------------------------------------------
(* The invariant holds at the start, and every step keeps it.              *)
THEOREM Inductive == Spec => []IInv
<1>1. Init => IInv
  <2> SUFFICES ASSUME Init PROVE IInv
    OBVIOUS
  <2>1. Owns
    BY NothingOwned, ServerAssumption DEF Init
  <2>2. LoopsInRange
    BY DEF Init, LoopsInRange, InRange, Busy, Fetching
  <2>3. TypeOK
    <3>1. \A S : <<>> \in Seq(S)
      OBVIOUS
    <3>2. parts \in [Client -> Seq(PartitionData)] /\ sent \in [Client -> Seq(Frame)]
          /\ taken \in [Client -> Nat] /\ queue \in Seq(Client)
      BY <3>1 DEF Init
    <3>3. ThreadTypes /\ ClientTypes /\ BodyTypes
      BY <3>2 DEF Init, ThreadTypes, ClientTypes, BodyTypes, Fetching
    <3>4. 0 \in 0..MaxStarts
      BY ServerAssumption DEF ServerAssumption
    <3>5. ProcessTypes /\ LoopTypes
      BY <3>2, <3>4 DEF Init, ProcessTypes, LoopTypes
    <3> QED BY <3>3, <3>5 DEF TypeOK
  <2> QED BY <2>1, <2>2, <2>3 DEF IInv
<1>2. IInv /\ [Next]_vars => IInv'
  <2>1. ASSUME IInv, Next PROVE IInv'
    BY <2>1, ServerAssumption, CatalogAssumption, OwnsStep, EnvironmentSteps, MainSteps, ThreadSteps
       DEF IInv, Next
  <2>2. ASSUME IInv, UNCHANGED vars PROVE IInv'
    <3>1. UNCHANGED <<up, starts, written, view, queue, fdt, main, local, at, cfd, lfd, req, body, parts,
                      conn, sent, taken, replies>>
      BY <2>2 DEF vars, proc, disk, loop, thread, client
    <3>2. Owns'
      BY <2>2, <3>1, OwnsUndisturbed DEF IInv
    <3>3. LoopsInRange' /\ BodyTypes'
      BY <2>2, <3>1, NoneMoves DEF IInv
    <3>4. TypeOK'
      BY <2>2, <3>1, <3>3 DEF IInv, TypeOK, ThreadTypes, ProcessTypes, LoopTypes, ClientTypes, Frame, PartitionData
    <3> QED BY <3>2, <3>3, <3>4 DEF IInv
  <2> QED BY <2>1, <2>2
<1> QED BY <1>1, <1>2, PTL DEF Spec

(* Types: whatever the clients, the logs and the limits, every variable    *)
(* keeps to its type (server.cpp:152-188).                                 *)
THEOREM TypeCorrect == Spec => []TypeOK
<1>1. IInv => TypeOK
  BY DEF IInv
<1> QED BY <1>1, Inductive, PTL

(* One owner per descriptor, and the owner's descriptor open on what the   *)
(* owner believes, however threads and the kernel's reuse of descriptors   *)
(* interleave (file_descriptor.hpp:26-37, server.cpp:184-186).             *)
THEOREM OneOwner == Spec => []DescriptorOwnership
<1>1. IInv => DescriptorOwnership
  <2> SUFFICES ASSUME IInv PROVE DescriptorOwnership
    OBVIOUS
  <2>1. \A c \in Live : Peer(c) = c
    BY DEF IInv, Owns, ThreadOwns, Live, Peer, Opened
  <2>2. \A c \in Client : lfd[c] # None => Opened(lfd[c]) \in LogFile
    BY DEF IInv, Owns, LogOwns, Opened
  <2>3. \A c, d \in Client : lfd[c] # None /\ lfd[c] = lfd[d] => c = d
    BY DEF IInv, Owns, LogOwns
  <2>4. local # None => Opened(local) \in Client \ Live
    BY DEF IInv, Owns, LoopOwns, Live, Opened
  <2> QED BY <2>1, <2>2, <2>3, <2>4 DEF DescriptorOwnership
<1> QED BY <1>1, Inductive, PTL

(* No path through the code, and no error path, loses a descriptor         *)
(* (file_descriptor.hpp:28-32).                                            *)
THEOREM NoneLost == Spec => []NoDescriptorLeak
<1>1. IInv => NoDescriptorLeak
  BY DEF IInv, Owns
<1> QED BY <1>1, Inductive, PTL
=============================================================================
