------------------------------- MODULE Server -------------------------------
(***************************************************************************)
(* The broker process: the accept loop of Server::start, one detached      *)
(* serve_client thread per connection, the kernel's descriptor table they  *)
(* share, and the clients at the other end (src/network/server.cpp).       *)
(*                                                                         *)
(* A request frame is read whole and a response frame is written whole.    *)
(* The metadata singleton is built by the thread that calls get_instance   *)
(* first, the others waiting, and never changes afterwards.  An exception  *)
(* no handler catches, a null request and SIGPIPE all end the process:     *)
(* Terminate.                                                              *)
(***************************************************************************)
EXTENDS Catalog, SequencesExt

CONSTANTS
  Client,      \* client connections, at most one per client and process life
  Fd,          \* descriptors open() and accept() can return to this process
  LogFile,     \* the <<name, partition>> logs under /tmp/kraft-combined-logs
  Request,     \* the request bodies clients send
  Departing,   \* the clients that may close their connection
  Backlog,     \* connections the kernel queues for accept
  MaxThreads,  \* threads the system lets the process start
  MaxSent,     \* bound: requests on one connection
  MaxStarts,   \* bound: starts of the process
  None,        \* a moved-from FileDescriptor (fd_ = -1); also "no value"
  Free,        \* an unused entry of the descriptor table
  Unloaded     \* the singleton before its first use

MetaFile == <<"__cluster_metadata", 0>>

FetchRequest ==
  [api : {"FETCH"}, topics : Seq([id : Id, partitions : Seq(Pid)])]
ApiVersionsRequest == [api : {"API_VERSIONS"}, version : Nat]
DescribeRequest    == [api : {"DESCRIBE_TOPIC_PARTITIONS"}, names : Seq(Name)]
(* A frame RequestMessage::read does not survive: a field that does not fit, *)
(* an unexpected tag or cursor, or an API key with no request class.       *)
MalformedRequest   == [api : {"MALFORMED"}]

ASSUME ServerAssumption ==
  /\ Request \subseteq FetchRequest \cup ApiVersionsRequest
                         \cup DescribeRequest \cup MalformedRequest
  /\ LogFile \subseteq (Name \cup {"__cluster_metadata"}) \X Pid
  /\ Departing \subseteq Client
  /\ Client \cap LogFile = {}
  /\ Free \notin Client \cup LogFile
  /\ None \notin Fd
  /\ \A n \in {0} \cup BatchEnd : Unloaded # Snapshot(n)
  /\ {Backlog, MaxThreads, MaxSent, MaxStarts} \subseteq Nat

VARIABLES
  up,       \* the process is running
  starts,   \* times it was started
  written,  \* records of MetaLog on disk
  view,     \* the ClusterMetadata singleton
  queue,    \* connections completed by the kernel and not yet accepted
  fdt,      \* the process's descriptor table
  main,     \* program counter of Server::start
  local,    \* fd_ of the loop's local `client`
  at,       \* program counter of each connection's thread
  cfd,      \* fd_ of the thread's `client`
  lfd,      \* fd_ of the `log_fd` in read_record_batches
  req,      \* the request the thread serves
  body,     \* the response it builds
  parts,    \* the partitions of the fetched topic so far
  conn,     \* the client's end of the connection
  sent,     \* frames the client sent on this connection
  taken,    \* how many of them the server has read
  replies   \* frames the client received

proc    == <<up, starts>>
disk    == <<written>>
loop    == <<queue, main, local>>
thread  == <<at, cfd, lfd, req, body, parts>>
client  == <<conn, sent, taken, replies>>
vars    == <<proc, disk, view, loop, fdt, thread, client>>

FreeFds == {fd \in Fd : fdt[fd] = Free}

(* What a descriptor refers to; None refers to nothing.                    *)
Opened(fd) == IF fd \in Fd THEN fdt[fd] ELSE Free

(* Mutant: a copy constructor, which leaves both owners with fd.           *)
FdKept(fd) == fd

(* What the move constructor leaves in the FileDescriptor moved from.      *)
MovedFrom(fd) == None

(* Mutant: no destructor.                                                  *)
NeverClosed(fd) == fdt

(* ~FileDescriptor: the table once the owner of fd is gone.                *)
Closed(fd) == IF fd = None THEN fdt ELSE [fdt EXCEPT ![fd] = Free]

(* The end of the process, for whatever reason: the kernel closes every    *)
(* descriptor and resets every connection, accepted or queued.             *)
Terminate ==
  /\ up' = FALSE
  /\ view' = Unloaded
  /\ queue' = <<>>
  /\ main' = "accept"
  /\ local' = None
  /\ fdt' = [fd \in Fd |-> Free]
  /\ at' = [c \in Client |-> "none"]
  /\ cfd' = [c \in Client |-> None]
  /\ lfd' = [c \in Client |-> None]
  /\ req' = [c \in Client |-> None]
  /\ body' = [c \in Client |-> None]
  /\ parts' = [c \in Client |-> <<>>]
  /\ conn' = [c \in Client |-> "none"]
  /\ sent' = [c \in Client |-> <<>>]
  /\ taken' = [c \in Client |-> 0]
  /\ replies' = [c \in Client |-> <<>>]
  /\ UNCHANGED <<starts, disk>>

Init ==
  /\ up = FALSE
  /\ starts = 0
  /\ written = 0
  /\ view = Unloaded
  /\ queue = <<>>
  /\ main = "accept"
  /\ local = None
  /\ fdt = [fd \in Fd |-> Free]
  /\ at = [c \in Client |-> "none"]
  /\ cfd = [c \in Client |-> None]
  /\ lfd = [c \in Client |-> None]
  /\ req = [c \in Client |-> None]
  /\ body = [c \in Client |-> None]
  /\ parts = [c \in Client |-> <<>>]
  /\ conn = [c \in Client |-> "none"]
  /\ sent = [c \in Client |-> <<>>]
  /\ taken = [c \in Client |-> 0]
  /\ replies = [c \in Client |-> <<>>]

-----------------------------------------------------------------------------
(* The world outside the process.                                          *)

(* The process is started, or started again, and listens.                  *)
Start ==
  /\ ~up
  /\ starts < MaxStarts
  /\ up' = TRUE
  /\ starts' = starts + 1
  /\ UNCHANGED <<disk, view, loop, fdt, thread, client>>

(* The controller appends batches to the metadata log.                     *)
LogAppend ==
  /\ \E n \in BatchEnd : n > written /\ written' = n
  /\ UNCHANGED <<proc, view, loop, fdt, thread, client>>

Connect(c) ==
  /\ up
  /\ conn[c] = "none"
  /\ Len(queue) < Backlog
  /\ conn' = [conn EXCEPT ![c] = "open"]
  /\ queue' = Append(queue, c)
  /\ UNCHANGED <<proc, disk, view, main, local, fdt, thread, sent, taken, replies>>

Send(c, r) ==
  /\ conn[c] = "open"
  /\ Len(sent[c]) < MaxSent
  /\ sent' = [sent EXCEPT ![c] = Append(@, [corr |-> Len(@) + 1, body |-> r])]
  /\ UNCHANGED <<proc, disk, view, loop, fdt, thread, conn, taken, replies>>

Depart(c) ==
  /\ c \in Departing
  /\ conn[c] = "open"
  /\ conn' = [conn EXCEPT ![c] = "closed"]
  /\ UNCHANGED <<proc, disk, view, loop, fdt, thread, sent, taken, replies>>

-----------------------------------------------------------------------------
(* Server::start.                                                          *)

Live == {c \in Client : at[c] # "none"}

Accept ==
  /\ main = "accept"
  /\ queue # <<>>
  /\ \E fd \in FreeFds :
       /\ fdt' = [fdt EXCEPT ![fd] = Head(queue)]
       /\ local' = fd
  /\ queue' = Tail(queue)
  /\ main' = "spawn"
  /\ UNCHANGED <<proc, disk, view, thread, client>>

(* accept reports ECONNABORTED for a connection closed while it waited.    *)
AcceptAborted ==
  /\ main = "accept"
  /\ queue # <<>>
  /\ conn[Head(queue)] = "closed"
  /\ queue' = Tail(queue)
  /\ UNCHANGED <<proc, disk, view, main, local, fdt, thread, client>>

(* Mutant: the loop joins the thread before it accepts again.              *)
SpawnJoins ==
  /\ main = "spawn"
  /\ Live = {}
  /\ LET c == Opened(local)
     IN  /\ at' = [at EXCEPT ![c] = "read"]
         /\ cfd' = [cfd EXCEPT ![c] = local]
  /\ local' = MovedFrom(local)
  /\ main' = "drop"
  /\ UNCHANGED <<proc, disk, view, queue, fdt, lfd, req, body, parts, client>>

(* The thread takes the connection over: its parameter is moved from the   *)
(* loop's local.                                                           *)
Spawn ==
  /\ main = "spawn"
  /\ Cardinality(Live) < MaxThreads
  /\ LET c == Opened(local)
     IN  /\ at' = [at EXCEPT ![c] = "read"]
         /\ cfd' = [cfd EXCEPT ![c] = local]
  /\ local' = MovedFrom(local)
  /\ main' = "drop"
  /\ UNCHANGED <<proc, disk, view, queue, fdt, lfd, req, body, parts, client>>

(* The loop's local goes out of scope.                                     *)
Drop ==
  /\ main = "drop"
  /\ fdt' = Closed(local)
  /\ local' = None
  /\ main' = "accept"
  /\ UNCHANGED <<proc, disk, view, queue, thread, client>>

(* accept fails with EMFILE, whether or not a connection waits (the kernel *)
(* takes the descriptor first), or std::thread throws: neither is caught.  *)
StartThrows ==
  /\ up
  /\ \/ main = "accept" /\ FreeFds = {}
     \/ main = "spawn" /\ Cardinality(Live) >= MaxThreads
  /\ Terminate

MainStep == Accept \/ AcceptAborted \/ Spawn \/ Drop \/ StartThrows

-----------------------------------------------------------------------------
(* serve_client: one request at a time, answered before the next is read.  *)

(* The client at the other end of the thread's descriptor.                 *)
Peer(c) == Opened(cfd[c])

FramePending(c) == Len(sent[Peer(c)]) > taken[Peer(c)]
NextFrame(c) == sent[Peer(c)][taken[Peer(c)] + 1]

ReadRequest(c) ==
  /\ at[c] = "read"
  /\ Peer(c) \in Client
  /\ FramePending(c)
  /\ NextFrame(c).body \notin MalformedRequest
  /\ req' = [req EXCEPT ![c] = NextFrame(c)]
  /\ taken' = [taken EXCEPT ![Peer(c)] = @ + 1]
  /\ at' = [at EXCEPT ![c] = "handle"]
  /\ UNCHANGED <<proc, disk, view, loop, fdt, cfd, lfd, body, parts, conn, sent, replies>>

Handling(c, api) == at[c] = "handle" /\ req[c].body.api = api

(* The response is complete: the thread goes on to write it.               *)
Respond(c, response) ==
  /\ body' = [body EXCEPT ![c] = response]
  /\ at' = [at EXCEPT ![c] = "write"]
  /\ UNCHANGED <<proc, disk, view, loop, fdt, cfd, lfd, req, parts, client>>

Advertised == [FETCH |-> 0..16, API_VERSIONS |-> 0..4, DESCRIBE_TOPIC_PARTITIONS |-> 0..0]

handle_api_versions(c) ==
  /\ Handling(c, "API_VERSIONS")
  /\ Respond(c, IF req[c].body.version # 4
                THEN [error |-> "UNSUPPORTED_VERSION", keys |-> <<>>]
                ELSE [error |-> "NONE", keys |-> Advertised])

(* The handlers of the other two requests call get_instance once per topic. *)
UsesMetadata(c) ==
  /\ at[c] = "handle"
  /\ \/ req[c].body.api = "FETCH" /\ req[c].body.topics # <<>>
     \/ req[c].body.api = "DESCRIBE_TOPIC_PARTITIONS" /\ req[c].body.names # <<>>

Loading == {c \in Client : at[c] = "load"}

(* Mutant: the catalogue is read again for every request.                  *)
OpenMetadataAgain(c) ==
  /\ UsesMetadata(c)
  /\ Loading = {}
  /\ MetaFile \in LogFile
  /\ \E fd \in FreeFds :
       /\ fdt' = [fdt EXCEPT ![fd] = MetaFile]
       /\ lfd' = [lfd EXCEPT ![c] = fd]
  /\ at' = [at EXCEPT ![c] = "load"]
  /\ UNCHANGED <<proc, disk, view, loop, cfd, req, body, parts, client>>

(* The first caller constructs the singleton; the language makes the others *)
(* wait.  The constructor starts by opening the metadata log.              *)
OpenMetadata(c) ==
  /\ UsesMetadata(c)
  /\ view = Unloaded
  /\ Loading = {}
  /\ MetaFile \in LogFile
  /\ \E fd \in FreeFds :
       /\ fdt' = [fdt EXCEPT ![fd] = MetaFile]
       /\ lfd' = [lfd EXCEPT ![c] = fd]
  /\ at' = [at EXCEPT ![c] = "load"]
  /\ UNCHANGED <<proc, disk, view, loop, cfd, req, body, parts, client>>

LoadMetadata(c) ==
  /\ at[c] = "load"
  /\ Readable(written)
  /\ view' = Snapshot(written)
  /\ fdt' = Closed(lfd[c])
  /\ lfd' = [lfd EXCEPT ![c] = None]
  /\ at' = [at EXCEPT ![c] = "handle"]
  /\ UNCHANGED <<proc, disk, loop, cfd, req, body, parts, client>>

get_instance(c) == UsesMetadata(c) => view # Unloaded

make_response_topic(name) ==
  IF name \in DOMAIN view.ids
  THEN [name |-> name, error |-> "NONE", id |-> view.ids[name],
        partitions |-> view.parts[view.ids[name]]]
  ELSE [name |-> name, error |-> "UNKNOWN_TOPIC_OR_PARTITION", id |-> None,
        partitions |-> <<>>]

(* get_partition_ids finds nothing for a known topic, and throws.          *)
DescribeThrows(name) ==
  name \in DOMAIN view.ids /\ view.ids[name] \notin DOMAIN view.parts

handle_describe_topic_partitions(c) ==
  /\ Handling(c, "DESCRIBE_TOPIC_PARTITIONS")
  /\ get_instance(c)
  /\ LET names == req[c].body.names
     IN  /\ \A i \in DOMAIN names : ~DescribeThrows(names[i])
         /\ Respond(c, [topics |-> [i \in DOMAIN names |-> make_response_topic(names[i])]])

-----------------------------------------------------------------------------
(* handle_fetch: topic by topic, and in a topic partition by partition.    *)

handle_fetch(c) ==
  /\ Handling(c, "FETCH")
  /\ get_instance(c)
  /\ body' = [body EXCEPT ![c] = [responses |-> <<>>]]
  /\ at' = [at EXCEPT ![c] = "fetch"]
  /\ UNCHANGED <<proc, disk, view, loop, fdt, cfd, lfd, req, parts, client>>

Topics(c) == req[c].body.topics
Done(c)   == Len(body[c].responses)
Topic(c)  == Topics(c)[Done(c) + 1]

(* The log of the first partition of the topic that has no answer yet.     *)
Partition(c) == Topic(c).partitions[Len(parts[c]) + 1]
Log(c)       == <<view.names[Topic(c).id], Partition(c)>>

make_partition_data(c) ==
  [index |-> Partition(c), error |-> "NONE", records |-> fdt[lfd[c]]]

(* Mutant: no partition rather than partition 0.                           *)
UnknownTopicIdNoIndex == [error |-> "UNKNOWN_TOPIC_ID", index |-> -1, records |-> None]

(* What the catch block appends, whatever was thrown.                      *)
UnknownTopicId == [error |-> "UNKNOWN_TOPIC_ID", index |-> 0, records |-> None]

EndTopic(c, partitions) ==
  /\ body' = [body EXCEPT ![c].responses =
                Append(@, [id |-> Topic(c).id, partitions |-> partitions])]
  /\ parts' = [parts EXCEPT ![c] = <<>>]
  /\ at' = [at EXCEPT ![c] = "fetch"]
  /\ UNCHANGED <<proc, disk, view, loop, fdt, cfd, lfd, req, client>>

GoTo(c, label) ==
  /\ at' = [at EXCEPT ![c] = label]
  /\ UNCHANGED <<proc, disk, view, loop, fdt, cfd, lfd, req, body, parts, client>>

FetchTopic(c) ==
  /\ at[c] = "fetch"
  /\ Done(c) < Len(Topics(c))
  /\ IF Topic(c).id \in DOMAIN view.names
     THEN GoTo(c, "open")
     ELSE EndTopic(c, <<UnknownTopicId>>)

FetchDone(c) ==
  /\ at[c] = "fetch"
  /\ Done(c) = Len(Topics(c))
  /\ GoTo(c, "write")

OpenLog(c) ==
  /\ at[c] = "open"
  /\ Len(parts[c]) < Len(Topic(c).partitions)
  /\ Log(c) \in LogFile
  /\ \E fd \in FreeFds :
       /\ fdt' = [fdt EXCEPT ![fd] = Log(c)]
       /\ lfd' = [lfd EXCEPT ![c] = fd]
  /\ at' = [at EXCEPT ![c] = "slurp"]
  /\ UNCHANGED <<proc, disk, view, loop, cfd, req, body, parts, client>>

(* Mutant: the exception is caught inside the partition loop.              *)
OpenFailsGoesOn(c) ==
  /\ at[c] = "open"
  /\ Len(parts[c]) < Len(Topic(c).partitions)
  /\ Log(c) \notin LogFile \/ FreeFds = {}
  /\ parts' = [parts EXCEPT ![c] = Append(@, UnknownTopicId)]
  /\ UNCHANGED <<proc, disk, view, loop, fdt, at, cfd, lfd, req, body, client>>

(* No such file, or no descriptor: the exception leaves the partition loop. *)
OpenFails(c) ==
  /\ at[c] = "open"
  /\ Len(parts[c]) < Len(Topic(c).partitions)
  /\ Log(c) \notin LogFile \/ FreeFds = {}
  /\ EndTopic(c, Append(parts[c], UnknownTopicId))

ReadLog(c) ==
  /\ at[c] = "slurp"
  /\ parts' = [parts EXCEPT ![c] = Append(@, make_partition_data(c))]
  /\ fdt' = Closed(lfd[c])
  /\ lfd' = [lfd EXCEPT ![c] = None]
  /\ at' = [at EXCEPT ![c] = "open"]
  /\ UNCHANGED <<proc, disk, view, loop, cfd, req, body, client>>

TopicDone(c) ==
  /\ at[c] = "open"
  /\ Len(parts[c]) = Len(Topic(c).partitions)
  /\ EndTopic(c, parts[c])

-----------------------------------------------------------------------------
(* A response written to a client that has left goes nowhere.              *)
WriteResponse(c) ==
  /\ at[c] = "write"
  /\ Peer(c) \in Client
  /\ replies' = IF conn[Peer(c)] = "open"
                THEN [replies EXCEPT ![Peer(c)] =
                        Append(@, [corr |-> req[c].corr, body |-> body[c]])]
                ELSE replies
  /\ at' = [at EXCEPT ![c] = "read"]
  /\ req' = [req EXCEPT ![c] = None]
  /\ body' = [body EXCEPT ![c] = None]
  /\ UNCHANGED <<proc, disk, view, loop, fdt, cfd, lfd, parts, conn, sent, taken>>

(* Reading: the end of the stream or a reset, or a frame that does not parse. *)
ReadThrows(c) ==
  /\ at[c] = "read"
  /\ \/ Peer(c) \notin Client
     \/ Peer(c) \in Client /\ conn[Peer(c)] = "closed"
     \/ Peer(c) \in Client /\ FramePending(c) /\ NextFrame(c).body \in MalformedRequest

(* get_instance: the metadata log cannot be opened, or a record is short.  *)
MetadataThrows(c) ==
  \/ /\ UsesMetadata(c)
     /\ view = Unloaded
     /\ Loading = {}
     /\ MetaFile \notin LogFile \/ FreeFds = {}
  \/ at[c] = "load" /\ ~Readable(written)

HandleThrows(c) ==
  /\ Handling(c, "DESCRIBE_TOPIC_PARTITIONS")
  /\ UsesMetadata(c)
  /\ view # Unloaded
  /\ \E name \in ToSet(req[c].body.names) : DescribeThrows(name)

(* SIGPIPE or ECONNRESET.                                                  *)
WriteThrows(c) ==
  /\ at[c] = "write"
  /\ Peer(c) \in Client => conn[Peer(c)] = "closed"

(* Nothing above serve_client catches: std::terminate.                     *)
Crash(c) ==
  /\ ReadThrows(c) \/ MetadataThrows(c) \/ HandleThrows(c) \/ WriteThrows(c)
  /\ Terminate

serve_client(c) ==
  \/ ReadRequest(c)
  \/ handle_api_versions(c)
  \/ OpenMetadata(c)
  \/ LoadMetadata(c)
  \/ handle_describe_topic_partitions(c)
  \/ handle_fetch(c)
  \/ FetchTopic(c)
  \/ FetchDone(c)
  \/ OpenLog(c)
  \/ OpenFails(c)
  \/ ReadLog(c)
  \/ TopicDone(c)
  \/ WriteResponse(c)
  \/ Crash(c)

Environment ==
  \/ Start
  \/ LogAppend
  \/ \E c \in Client : Connect(c) \/ Depart(c)
  \/ \E c \in Client, r \in Request : Send(c, r)

Next == Environment \/ MainStep \/ \E c \in Client : serve_client(c)

Spec == Init /\ [][Next]_vars

(* The system schedules every thread; clients and the log owe nothing.     *)
FairSpec ==
  /\ Spec
  /\ WF_vars(MainStep)
  /\ \A c \in Client : WF_vars(serve_client(c))

-----------------------------------------------------------------------------
(* Properties.                                                             *)

Fetching(c) == at[c] \in {"fetch", "open", "slurp"}

PartitionData ==
  [index : Pid \cup {0}, error : {"NONE", "UNKNOWN_TOPIC_ID"}, records : LogFile \cup {None}]
FetchResponse == [responses : Seq([id : Id, partitions : Seq(PartitionData)])]

Frame == [corr : Nat, body : Request]

ProcessTypes ==
  /\ up \in BOOLEAN
  /\ starts \in 0..MaxStarts
  /\ written \in {0} \cup BatchEnd
  /\ view \in {Unloaded} \cup {Snapshot(n) : n \in {0} \cup BatchEnd}
  /\ fdt \in [Fd -> {Free} \cup Client \cup LogFile]

LoopTypes ==
  /\ queue \in Seq(Client)
  /\ main \in {"accept", "spawn", "drop"}
  /\ local \in Fd \cup {None}

ThreadTypes ==
  /\ at \in [Client -> {"none", "read", "handle", "load", "fetch", "open", "slurp", "write"}]
  /\ cfd \in [Client -> Fd \cup {None}]
  /\ lfd \in [Client -> Fd \cup {None}]
  /\ req \in [Client -> Frame \cup {None}]
  /\ parts \in [Client -> Seq(PartitionData)]

BodyTypes ==
  /\ DOMAIN body = Client
  /\ \A c \in Client : Fetching(c) => body[c] \in FetchResponse

ClientTypes ==
  /\ conn \in [Client -> {"none", "open", "closed"}]
  /\ sent \in [Client -> Seq(Frame)]
  /\ taken \in [Client -> Nat]
  /\ DOMAIN replies = Client

(* Every variable has its type: the descriptor table maps each descriptor  *)
(* to what the kernel has open there, and each program counter is at a     *)
(* point of the code (server.cpp:152-188).                                 *)
TypeOK == ProcessTypes /\ LoopTypes /\ ThreadTypes /\ BodyTypes /\ ClientTypes

(* A descriptor has one owner: the loop's local, a connection's thread or  *)
(* the log a thread reads; and the owner's descriptor is open on what the  *)
(* owner believes, though descriptors move between threads, are closed by  *)
(* whichever scope ends last and are handed out again by the kernel        *)
(* (file_descriptor.hpp:26-37, server.cpp:184-186).                        *)
DescriptorOwnership ==
  /\ \A c \in Live : Peer(c) = c
  /\ \A c \in Client : lfd[c] # None => Opened(lfd[c]) \in LogFile
  /\ \A c, d \in Client : lfd[c] # None /\ lfd[c] = lfd[d] => c = d
  /\ local # None => Opened(local) \in Client \ Live

(* Every open descriptor still has an owner that will close it: the error  *)
(* paths (a failed open, a fetch cut short) leak none.                     *)
NoDescriptorLeak ==
  \A fd \in Fd \ FreeFds :
    fd = local \/ \E c \in Client : fd \in {cfd[c], lfd[c]}

(* The entries about one topic in the describe replies on one connection.  *)
Described(c) ==
  UNION {ToSet(replies[c][i].body.topics) :
           i \in {j \in DOMAIN replies[c] :
                    sent[c][j].body.api = "DESCRIBE_TOPIC_PARTITIONS"}}

(* In one life of the process every client is told the same of a topic,    *)
(* however far the metadata log has grown between the requests             *)
(* (cluster_metadata.hpp:133-136).                                         *)
DescribeAgree ==
  \A c, d \in Client : \A t \in Described(c), u \in Described(d) :
    t.name = u.name => t = u

(* What the clients see is what the abstract broker promises: answers in   *)
(* request order, to the connection that asked, with its correlation id    *)
(* and from one catalogue (server.cpp:55-172).                             *)
Promise == INSTANCE Broker
ImplementsBroker == Promise!Spec

(* A request is answered unless its client leaves first, as long as no     *)
(* accepted thread or the loop is refused a turn: what happens on another  *)
(* connection is no excuse (server.hpp:26).                                *)
Asked(c, i)    == conn[c] = "open" /\ Len(sent[c]) >= i
Answered(c, i) == Len(replies[c]) >= i
EveryRequestAnswered ==
  \A c \in Client : \A i \in 1..MaxSent :
    Asked(c, i) ~> Answered(c, i) \/ conn[c] = "closed"

(* Two descriptors for each client, its connection and the log its thread  *)
(* reads, and one for the connection that is accepted.                     *)
EnoughFds == IsFiniteSet(Client) /\ IsFiniteSet(Fd) /\ Cardinality(Fd) > 2 * Cardinality(Client)

(* No client leaves, no frame is malformed, no topic lacks its partition   *)
(* records, and neither threads nor descriptors run out.                   *)
Peaceful ==
  /\ Departing = {}
  /\ Request \cap MalformedRequest = {}
  /\ MetaFile \in LogFile
  /\ \A n \in {0} \cup BatchEnd :
       /\ Readable(n)
       /\ \A name \in DOMAIN Snapshot(n).ids : Snapshot(n).ids[name] \in DOMAIN Snapshot(n).parts
  /\ Cardinality(Client) <= MaxThreads
  /\ EnoughFds

(* In peace nothing kills the process: the shared descriptor table, the    *)
(* moved-from locals and the caught exceptions never surface in another    *)
(* thread (server.cpp:152-188).                                            *)
Survives == [][Peaceful /\ up => up']_up

(* UNKNOWN_TOPIC_ID says "This server does not host this topic ID."        *)
(* (constants.hpp:22); the catch block of server.cpp:75-79 sends it for    *)
(* whatever was thrown.                                                    *)
UnknownTopicIdMeansNotHosted ==
  \A c \in Client : \A i \in DOMAIN replies[c] :
    sent[c][i].body.api = "FETCH" =>
      \A r \in ToSet(replies[c][i].body.responses) :
        UnknownTopicId \in ToSet(r.partitions) => r.id \notin DOMAIN view.names

(* What is asked for of a topic the catalogue knows has a log.             *)
LogsThere ==
  \A n \in {0} \cup BatchEnd : \A q \in Request : q.api = "FETCH" =>
    \A topic \in ToSet(q.topics) : topic.id \in DOMAIN Snapshot(n).names =>
      \A pid \in ToSet(topic.partitions) : <<Snapshot(n).names[topic.id], pid>> \in LogFile

(* What it takes for UNKNOWN_TOPIC_ID to be true: the failures it hides,   *)
(* an open that found no log or no descriptor, do not occur, whatever the  *)
(* other threads hold open meanwhile (server.cpp:51-82).                   *)
UnknownTopicIdIsHonest == EnoughFds /\ LogsThere => UnknownTopicIdMeansNotHosted
=============================================================================
