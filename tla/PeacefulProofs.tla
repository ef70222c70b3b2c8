--------------------------- MODULE PeacefulProofs ---------------------------
(***************************************************************************)
(* What it takes for the process to live on.  A descriptor that is in use  *)
(* is a connection's or the log's that the connection's thread reads, so   *)
(* that two per client are enough for all that is open, and one more for   *)
(* the accept that waits; and an exception that nobody catches is always   *)
(* the doing of a client, of a log or of a limit.                          *)
(***************************************************************************)
EXTENDS BrokerProofs, FiniteSetTheorems

(* The descriptor of a client's connection, in the loop or in its thread.  *)
Connection ==
  [c \in Client |-> IF main = "spawn" /\ fdt[local] = c THEN local ELSE cfd[c]]
Image(f) == {f[c] : c \in Client}

LEMMA ImageSize ==
  ASSUME IsFiniteSet(Client), NEW f, DOMAIN f = Client, f = [c \in Client |-> f[c]]
  PROVE  IsFiniteSet(Image(f)) /\ Cardinality(Image(f)) <= Cardinality(Client)
<1>1. f \in Surjection(Client, Image(f))
  BY DEF Surjection, Image
<1> QED BY <1>1, FS_Surjection

LEMMA InUse ==
  ASSUME ServerAssumption, IInv
  PROVE  Fd \ FreeFds \subseteq Image(Connection) \cup Image(lfd)
<1> SUFFICES ASSUME NEW fd \in Fd \ FreeFds
             PROVE  fd \in Image(Connection) \/ fd \in Image(lfd)
  OBVIOUS
<1>1. fd \in Fd /\ fd # None
  BY DEF ServerAssumption
<1>2. fd = local \/ \E c \in Client : fd \in {cfd[c], lfd[c]}
  BY DEF IInv, Owns, NoDescriptorLeak
<1>3. CASE fd = local
  <2>1. main = "spawn" /\ fdt[local] \in Client
    BY <1>1, <1>3 DEF IInv, Owns, LoopOwns
  <2>2. Connection[fdt[local]] = fd
    BY <1>3, <2>1 DEF Connection
  <2> QED BY <2>1, <2>2 DEF Image
<1>4. ASSUME NEW c \in Client, fd = cfd[c] PROVE fd \in Image(Connection)
  <2>1. at[c] # "none"
    BY <1>1, <1>4 DEF IInv, Owns, ThreadOwns
  <2>2. ~(main = "spawn" /\ fdt[local] = c)
    BY <2>1 DEF IInv, Owns, LoopOwns
  <2>3. Connection[c] = fd
    BY <1>4, <2>2 DEF Connection
  <2> QED BY <2>3 DEF Image
<1>5. ASSUME NEW c \in Client, fd = lfd[c] PROVE fd \in Image(lfd)
  BY <1>5 DEF Image
<1> QED BY <1>2, <1>3, <1>4, <1>5

LEMMA OneIsFree ==
  ASSUME ServerAssumption, IInv, EnoughFds
  PROVE  FreeFds # {}
<1> DEFINE A == Image(Connection)
           B == Image(lfd)
           n == Cardinality(Client)
<1>1. IsFiniteSet(A) /\ Cardinality(A) <= n
  BY ImageSize DEF Connection, EnoughFds
<1>2. IsFiniteSet(B) /\ Cardinality(B) <= n
  BY ImageSize DEF EnoughFds, IInv, TypeOK, ThreadTypes
<1>3. Fd \ FreeFds \subseteq A \cup B
  BY InUse
<1> HIDE DEF A, B
<1>4. IsFiniteSet(A \cup B) /\ Cardinality(A \cup B) <= n + n
  <2>1. /\ IsFiniteSet(A \cup B)
        /\ Cardinality(A \cup B) = Cardinality(A) + Cardinality(B) - Cardinality(A \cap B)
    BY <1>1, <1>2, FS_Union
  <2>2. A \cap B \in SUBSET A
    OBVIOUS
  <2>3. Cardinality(A \cap B) \in Nat
    BY <1>1, <2>2, FS_Subset, FS_CardinalityType
  <2>4. Cardinality(A) \in Nat /\ Cardinality(B) \in Nat /\ n \in Nat
    BY <1>1, <1>2, FS_CardinalityType DEF EnoughFds
  <2> DEFINE a == Cardinality(A)
             b == Cardinality(B)
             i == Cardinality(A \cap B)
  <2> HIDE DEF a, b, i, n
  <2>5. a \in Nat /\ b \in Nat /\ i \in Nat /\ n \in Nat /\ a <= n /\ b <= n
    BY <1>1, <1>2, <2>3, <2>4 DEF a, b, i
  <2>6. a + b - i <= n + n
    BY <2>5
  <2> QED BY <2>1, <2>6 DEF a, b, i
<1>5. SUFFICES ASSUME FreeFds = {} PROVE FALSE
  OBVIOUS
<1>6. Fd \in SUBSET (A \cup B)
  BY <1>3, <1>5
<1>7. Cardinality(Fd) <= Cardinality(A \cup B)
  BY <1>4, <1>6, FS_Subset
<1>8. Cardinality(Fd) \in Nat /\ Cardinality(A \cup B) \in Nat /\ n \in Nat
  BY <1>4, FS_CardinalityType DEF EnoughFds
<1>9. Cardinality(Fd) > 2 * n
  BY DEF EnoughFds
<1> DEFINE f == Cardinality(Fd)
           u == Cardinality(A \cup B)
<1> HIDE DEF f, u, n
<1>10. f \in Nat /\ u \in Nat /\ n \in Nat /\ f <= u /\ u <= n + n /\ f > 2 * n
  BY <1>4, <1>7, <1>8, <1>9 DEF f, u
<1> QED BY <1>10

(* Two descriptors per client and one more are enough: no accept and no    *)
(* open is ever refused one, whatever the threads do and however their     *)
(* requests fail (file_descriptor.hpp:26-37, server.cpp:51-82, 174-188).   *)
THEOREM DescriptorsSuffice == ASSUME EnoughFds PROVE Spec => [](FreeFds # {})
<1>1. IInv => FreeFds # {}
  BY OneIsFree, ServerAssumption
<1> QED BY <1>1, Inductive, PTL

-----------------------------------------------------------------------------
(* Nobody has left where nobody may.                                       *)
NobodyLeft == Departing = {} => \A c \in Client : conn[c] # "closed"

LEMMA NobodyLeaves ==
  ASSUME IInv, NobodyLeft, [Next]_vars
  PROVE  NobodyLeft'
<1> SUFFICES ASSUME Departing = {}, NEW c \in Client PROVE conn'[c] # "closed"
  BY DEF NobodyLeft
<1>1. conn[c] # "closed" /\ conn \in [Client -> {"none", "open", "closed"}]
  BY DEF NobodyLeft, IInv, TypeOK, ClientTypes
<1>2. CASE UNCHANGED conn
  BY <1>1, <1>2
<1>3. CASE \E d \in Client : Connect(d)
  BY <1>1, <1>3 DEF Connect
<1>4. CASE Terminate
  BY <1>4 DEF Terminate
<1>5. UNCHANGED conn \/ (\E d \in Client : Connect(d)) \/ Terminate
  <2>1. CASE Environment
    BY <2>1 DEF Environment, Start, LogAppend, Depart, Send, client
  <2>2. CASE MainStep
    BY <2>2 DEF MainStep, Accept, AcceptAborted, Spawn, Drop, StartThrows, client
  <2>3. ASSUME NEW d \in Client, serve_client(d) PROVE UNCHANGED conn \/ Terminate
    BY <2>3 DEF serve_client, ReadRequest, handle_api_versions, OpenMetadata, LoadMetadata,
       handle_describe_topic_partitions, handle_fetch, FetchTopic, FetchDone, OpenLog, OpenFails,
       ReadLog, TopicDone, WriteResponse, Crash, Respond, GoTo, EndTopic, client
  <2>4. CASE UNCHANGED vars
    BY <2>4 DEF vars, client
  <2> QED BY <2>1, <2>2, <2>3, <2>4 DEF Next
<1> QED BY <1>2, <1>3, <1>4, <1>5

(* Who is in a thread has an unbroken connection.                          *)
LEMMA PeerIsThere ==
  ASSUME IInv, NobodyLeft, Departing = {}, NEW c \in Client, at[c] # "none"
  PROVE  Peer(c) = c /\ conn[c] # "closed"
BY DEF IInv, Owns, ThreadOwns, Peer, Opened, NobodyLeft

LEMMA FrameIsRequest ==
  ASSUME IInv, NEW c \in Client, taken[c] < Len(sent[c])
  PROVE  sent[c][taken[c] + 1].body \in Request
<1>1. sent[c] \in Seq(Frame) /\ taken[c] \in Nat
  BY DEF IInv, TypeOK, ClientTypes
<1>2. taken[c] + 1 \in 1..Len(sent[c])
  BY <1>1
<1>3. sent[c][taken[c] + 1] \in Frame
  BY <1>1, <1>2, ElementType
<1> QED BY <1>3 DEF Frame

LEMMA ThreadsSurvive ==
  ASSUME ServerAssumption, Peaceful, IInv, NobodyLeft, NEW c \in Client
  PROVE  ~Crash(c)
<1>1. FreeFds # {}
  BY OneIsFree DEF Peaceful
<1>2. ~ReadThrows(c)
  <2> SUFFICES ASSUME at[c] = "read", FramePending(c), NextFrame(c).body \in MalformedRequest
               PROVE  FALSE
    BY PeerIsThere DEF ReadThrows, Peaceful
  <2>1. Peer(c) = c /\ taken[c] \in Nat /\ sent[c] \in Seq(Frame)
    BY PeerIsThere DEF Peaceful, IInv, TypeOK, ClientTypes
  <2>2. taken[c] < Len(sent[c])
    BY <2>1 DEF FramePending
  <2>3. NextFrame(c).body \in Request
    BY <2>1, <2>2, FrameIsRequest DEF NextFrame
  <2> QED BY <2>3 DEF Peaceful
<1>3. ~MetadataThrows(c)
  <2>1. Readable(written)
    BY DEF Peaceful, IInv, TypeOK, ProcessTypes
  <2> QED BY <1>1, <2>1 DEF MetadataThrows, Peaceful
<1>4. ~HandleThrows(c)
  <2> SUFFICES ASSUME view # Unloaded, NEW name, DescribeThrows(name) PROVE FALSE
    BY DEF HandleThrows
  <2>1. PICK n \in {0} \cup BatchEnd : view = Snapshot(n)
    BY DEF IInv, TypeOK, ProcessTypes
  <2> QED BY <2>1 DEF DescribeThrows, Peaceful
<1>5. ~WriteThrows(c)
  BY PeerIsThere DEF WriteThrows, Peaceful
<1> QED BY <1>2, <1>3, <1>4, <1>5 DEF Crash

(* While the loop has a connection to hand over, its client has no thread. *)
LEMMA StartSurvives ==
  ASSUME ServerAssumption, Peaceful, IInv
  PROVE  ~StartThrows
<1>1. FreeFds # {}
  BY OneIsFree DEF Peaceful
<1>2. ASSUME main = "spawn" PROVE ~(Cardinality(Live) >= MaxThreads)
  <2> DEFINE c == fdt[local]
             others == Client \ {c}
  <2>1. c \in Client /\ at[c] = "none"
    BY <1>2 DEF IInv, Owns, LoopOwns
  <2>2. Live \in SUBSET others
    BY <2>1 DEF Live
  <2>3. IsFiniteSet(others) /\ Cardinality(others) = Cardinality(Client) - 1
    BY <2>1, FS_RemoveElement DEF Peaceful, EnoughFds
  <2>4. IsFiniteSet(Live) /\ Cardinality(Live) <= Cardinality(others)
    BY <2>2, <2>3, FS_Subset
  <2> DEFINE n == Cardinality(Client)
             l == Cardinality(Live)
  <2>5. n \in Nat /\ l \in Nat /\ MaxThreads \in Nat /\ n <= MaxThreads
    BY <2>4, FS_CardinalityType DEF Peaceful, EnoughFds, ServerAssumption
  <2>6. l <= n - 1
    BY <2>3, <2>4
  <2> HIDE DEF n, l
  <2>7. ~(l >= MaxThreads)
    BY <2>5, <2>6
  <2> QED BY <2>7 DEF l
<1> QED BY <1>1, <1>2 DEF StartThrows

(* Only an exception ends the process.                                     *)
LEMMA EndsByException ==
  ASSUME [Next]_vars, up, ~up'
  PROVE  StartThrows \/ \E c \in Client : Crash(c)
<1>1. CASE Environment
  BY <1>1 DEF Environment, Start, LogAppend, Connect, Depart, Send, proc
<1>2. CASE MainStep
  BY <1>2 DEF MainStep, Accept, AcceptAborted, Spawn, Drop, proc
<1>3. ASSUME NEW c \in Client, serve_client(c) PROVE Crash(c)
  BY <1>3 DEF serve_client, ReadRequest, handle_api_versions, OpenMetadata, LoadMetadata,
     handle_describe_topic_partitions, handle_fetch, FetchTopic, FetchDone, OpenLog, OpenFails,
     ReadLog, TopicDone, WriteResponse, Respond, GoTo, EndTopic, proc
<1>4. CASE UNCHANGED vars
  BY <1>4 DEF vars, proc
<1> QED BY <1>1, <1>2, <1>3, <1>4 DEF Next

(* With any number of clients that stay and send requests that parse, and  *)
(* with logs and limits that suit them, no interleaving of accepts, opens, *)
(* loads and failed fetches makes an exception reach the end of a thread   *)
(* or of the loop (server.cpp:152-188).                                    *)
THEOREM LivesOn == Spec => Survives
<1>1. Init => NobodyLeft
  BY DEF Init, NobodyLeft
<1>2. IInv /\ NobodyLeft /\ [Next]_vars => NobodyLeft'
  BY NobodyLeaves
<1>3. IInv /\ NobodyLeft /\ [Next]_vars => [Peaceful /\ up => up']_up
  BY ServerAssumption, ThreadsSurvive, StartSurvives, EndsByException
<1> QED BY <1>1, <1>2, <1>3, Inductive, PTL DEF Spec, Survives

-----------------------------------------------------------------------------
(* UNKNOWN_TOPIC_ID in a reply, in one that is being built and in one that *)
(* was sent, stands at a topic the catalogue does not know.                *)
Honest(reply, cat) ==
  \A r \in ToSet(reply.responses) :
    UnknownTopicId \in ToSet(r.partitions) => r.id \notin DOMAIN cat.names

HonestSoFar(c) ==
  Fetching(c) \/ (at[c] = "write" /\ req[c].body.api = "FETCH") => Honest(body[c], view)
HonestBefore(c) ==
  \A i \in 1..Len(replies[c]) : sent[c][i].body.api = "FETCH" => Honest(replies[c][i].body, view)
HonestTo(c) == HonestSoFar(c) /\ HonestBefore(c)

LEMMA EmptyIsHonest ==
  ASSUME NEW q, q.api = "FETCH", ~Promise!NeedsCatalogue(q), NEW v, NEW b \in Promise!Answers(q, v), NEW w
  PROVE  Honest(b, w)
<1>1. DOMAIN q.topics = {}
  BY DEF Promise!NeedsCatalogue
<1>2. PICK r \in [DOMAIN q.topics -> UNION {Promise!TopicData(q.topics[i], v) : i \in DOMAIN q.topics}] :
        b = [responses |-> r]
  BY DEF Promise!Answers
<1>3. ToSet(b.responses) = {}
  BY <1>1, <1>2 DEF ToSet
<1> QED BY <1>3 DEF Honest

LEMMA OneMore ==
  ASSUME NEW S, NEW seq \in Seq(S), NEW e
  PROVE  ToSet(Append(seq, e)) = ToSet(seq) \cup {e}
<1>1. Len(seq) \in Nat /\ Len(Append(seq, e)) = Len(seq) + 1 /\ Append(seq, e)[Len(seq) + 1] = e
      /\ \A i \in 1..Len(seq) : Append(seq, e)[i] = seq[i]
  BY Appended
<1>2. DOMAIN seq = 1..Len(seq) /\ DOMAIN Append(seq, e) = 1..(Len(seq) + 1)
  BY <1>1
<1>3. 1..(Len(seq) + 1) = 1..Len(seq) \cup {Len(seq) + 1}
  BY <1>1
<1> QED BY <1>1, <1>2, <1>3 DEF ToSet

(* The open of a log a fetch asks for succeeds.                            *)
LEMMA OpensSucceed ==
  ASSUME ServerAssumption, EnoughFds, LogsThere, IInv, Kept, NEW c \in Client
  PROVE  ~OpenFails(c)
<1> SUFFICES ASSUME at[c] = "open", Len(parts[c]) < Len(Topic(c).partitions) PROVE Log(c) \in LogFile
  BY OneIsFree DEF OpenFails
<1>1. Fetching(c) /\ Busy(c)
  BY DEF Fetching, Busy
<1>2. Topics(c) \in Seq([id : Id, partitions : Seq(Pid)]) /\ Done(c) \in Nat /\ Done(c) < Len(Topics(c))
      /\ req[c].body.api = "FETCH" /\ req[c].body \in Request /\ view # Unloaded
  BY <1>1, FetchAt, PartsSoFar, AtRequest
<1>3. PICK n \in {0} \cup BatchEnd : view = Snapshot(n)
  BY <1>2 DEF IInv, TypeOK, ProcessTypes
<1>4. Topic(c) \in ToSet(req[c].body.topics)
  <2>1. Done(c) + 1 \in DOMAIN Topics(c)
    BY <1>2
  <2> QED BY <2>1 DEF ToSet, Topic, Topics
<1>5. Partition(c) \in ToSet(Topic(c).partitions)
  <2>1. Topic(c).partitions \in Seq(Pid) /\ Len(parts[c]) \in Nat
    BY PartsSoFar
  <2>2. Len(parts[c]) + 1 \in DOMAIN Topic(c).partitions
    BY <2>1
  <2> QED BY <2>2 DEF ToSet, Partition
<1>6. Topic(c).id \in DOMAIN Snapshot(n).names
  BY <1>3, PartsSoFar
<1> QED BY <1>2, <1>3, <1>4, <1>5, <1>6 DEF LogsThere, Log

-----------------------------------------------------------------------------
(* The steps.                                                              *)

LEMMA HonestStays ==
  ASSUME NEW c \in Client, HonestTo(c), UNCHANGED <<view, sent[c], replies[c], body[c], req[c]>>,
         Fetching(c)' => Fetching(c),
         at'[c] = "write" => Fetching(c) \/ at[c] = "write"
  PROVE  HonestTo(c)'
BY DEF HonestTo, HonestSoFar, HonestBefore, Honest

LEMMA NothingHonest ==
  ASSUME Terminate
  PROVE  \A c \in Client : HonestTo(c)'
BY DEF Terminate, HonestTo, HonestSoFar, HonestBefore, Fetching

LEMMA HonestLoads ==
  ASSUME ServerAssumption, IInv, Kept, NEW c \in Client, LoadMetadata(c), NEW d \in Client
  PROVE  HonestTo(d)'
<1>1. at[c] = "load" /\ view = Unloaded /\ at' = [at EXCEPT ![c] = "handle"]
      /\ UNCHANGED <<req, body, parts, sent, replies>>
  BY DEF LoadMetadata, client, Kept, LoadsOnce
<1>2. at'[d] \in {at[d], "handle"}
  BY <1>1 DEF IInv, TypeOK, ThreadTypes
<1>3. HonestBefore(d)'
  <2> SUFFICES ASSUME NEW i \in 1..Len(replies[d]), sent[d][i].body.api = "FETCH"
               PROVE  Honest(replies[d][i].body, view')
    BY <1>1 DEF HonestBefore, Honest
  <2>1. replies[d][i].body \in Promise!Answers(sent[d][i].body, view)
        /\ ~Promise!NeedsCatalogue(sent[d][i].body)
    BY <1>1 DEF Kept, Keeps, Served
  <2> QED BY <2>1, EmptyIsHonest
<1>4. ASSUME at[d] = "write", req[d].body.api = "FETCH" PROVE Honest(body[d], view')
  <2>1. body[d] \in Promise!Answers(req[d].body, view) /\ ~Promise!NeedsCatalogue(req[d].body)
    BY <1>1, <1>4 DEF Kept, Keeps, Catalogued, Building, Built
  <2> QED BY <1>4, <2>1, EmptyIsHonest
<1>5. ASSUME Fetching(d) PROVE Honest(body[d], view')
  <2>1. /\ Topics(d) \in Seq([id : Id, partitions : Seq(Pid)]) /\ body[d] \in FetchResponse
        /\ Done(d) \in Nat /\ Done(d) <= Len(Topics(d)) /\ req[d].body.api = "FETCH"
    BY <1>5, FetchAt
  <2>2. Topics(d) = <<>>
    BY <1>1, <1>5, <2>1 DEF Kept, Keeps, Catalogued, Fetching, Promise!NeedsCatalogue, Topics
  <2>3. Done(d) = 0
    BY <2>1, <2>2
  <2>4. ToSet(body[d].responses) = {}
    <3>1. body[d].responses \in Seq([id : Id, partitions : Seq(PartitionData)])
      BY <2>1 DEF FetchResponse
    <3>2. DOMAIN body[d].responses = {}
      BY <2>3, <3>1 DEF Done
    <3> QED BY <3>2 DEF ToSet
  <2> QED BY <2>4 DEF Honest
<1> QED BY <1>1, <1>2, <1>3, <1>4, <1>5 DEF HonestTo, HonestSoFar, Fetching, Honest

LEMMA HonestTopic ==
  ASSUME ServerAssumption, IInv, NEW c \in Client, HonestTo(c), Fetching(c), NEW ps, EndTopic(c, ps),
         UnknownTopicId \in ToSet(ps) => Topic(c).id \notin DOMAIN view.names
  PROVE  HonestTo(c)'
<1> DEFINE entry == [id |-> Topic(c).id, partitions |-> ps]
           rs    == body[c].responses
<1>1. UNCHANGED <<view, sent, replies>>
  BY DEF EndTopic, client
<1>2. body[c] \in FetchResponse
  BY FetchFacts DEF IInv
<1>3. body'[c] = [responses |-> Append(rs, entry)]
  <2>1. body' = [body EXCEPT ![c] = [body[c] EXCEPT !.responses = Append(rs, entry)]]
    BY DEF EndTopic
  <2>2. \A x : [body[c] EXCEPT !.responses = x] = [responses |-> x]
    BY <1>2 DEF FetchResponse
  <2> QED BY <2>1, <2>2 DEF IInv, TypeOK, BodyTypes
<1>4. ToSet(body'[c].responses) = ToSet(rs) \cup {entry}
  <2>1. rs \in Seq([id : Id, partitions : Seq(PartitionData)])
    BY <1>2 DEF FetchResponse
  <2> HIDE DEF rs, entry
  <2> QED BY <1>3, <2>1, OneMore
<1>5. Honest(body[c], view)
  BY DEF HonestTo, HonestSoFar
<1>6. Honest(body'[c], view)
  BY <1>4, <1>5 DEF Honest
<1> QED BY <1>1, <1>6 DEF HonestTo, HonestSoFar, HonestBefore, Honest

LEMMA HonestFetch ==
  ASSUME ServerAssumption, EnoughFds, LogsThere, IInv, Kept, NEW c \in Client, HonestTo(c),
         FetchTopic(c) \/ OpenFails(c) \/ TopicDone(c)
  PROVE  HonestTo(c)'
<1>1. CASE FetchTopic(c)
  <2>1. at[c] = "fetch" /\ Fetching(c)
    BY <1>1 DEF FetchTopic, Fetching
  <2>2. CASE Topic(c).id \in DOMAIN view.names
    BY <1>1, <2>1, <2>2, HonestStays DEF FetchTopic, GoTo, client, IInv, TypeOK, ThreadTypes
  <2>3. CASE Topic(c).id \notin DOMAIN view.names
    BY <1>1, <2>1, <2>3, HonestTopic DEF FetchTopic
  <2> QED BY <2>2, <2>3
<1>2. CASE TopicDone(c)
  <2>1. at[c] = "open" /\ Fetching(c) /\ EndTopic(c, parts[c])
    BY <1>2 DEF TopicDone, Fetching
  <2>2. UnknownTopicId \notin ToSet(parts[c])
    <3>1. \A i \in 1..Len(parts[c]) : \E x, y : parts[c][i] = [index |-> x, error |-> "NONE", records |-> y]
      <4>1. PartsBuilt(c)
        BY DEF Kept, Keeps, Building
      <4> QED BY <2>1, <4>1 DEF PartsBuilt
    <3>2. DOMAIN parts[c] = 1..Len(parts[c])
      BY DEF IInv, TypeOK, ThreadTypes
    <3>3. \A x, y : UnknownTopicId # [index |-> x, error |-> "NONE", records |-> y]
      BY DEF UnknownTopicId
    <3> QED BY <3>1, <3>2, <3>3 DEF ToSet
  <2> QED BY <2>1, <2>2, HonestTopic
<1> QED BY <1>1, <1>2, OpensSucceed

LEMMA HonestReply ==
  ASSUME ServerAssumption, IInv, Kept, NEW c \in Client, HonestTo(c), WriteResponse(c)
  PROVE  HonestTo(c)'
<1> DEFINE reply == [corr |-> req[c].corr, body |-> body[c]]
           k     == Len(replies[c])
<1>1. at[c] = "write" /\ at' = [at EXCEPT ![c] = "read"] /\ UNCHANGED <<view, sent>>
  BY DEF WriteResponse
<1>2. replies' = IF conn[c] = "open" THEN [replies EXCEPT ![c] = Append(replies[c], reply)] ELSE replies
  BY <1>1, ReplyIsNext DEF WriteResponse
<1>3. HonestSoFar(c)'
  BY <1>1 DEF HonestSoFar, Fetching, IInv, TypeOK, ThreadTypes
<1>4. CASE conn[c] = "open"
  <2>1. replies[c] \in Seq(Reply)
    BY DEF Kept, Keeps, Asks
  <2>2. k + 1 = taken[c] /\ k \in Nat /\ req[c] = sent[c][k + 1]
    <3>1. k + 1 = taken[c] /\ req[c] = sent[c][taken[c]]
      BY <1>1, <1>4, ReplyIsNext
    <3>2. k \in Nat
      BY <2>1
    <3> QED BY <3>1, <3>2
  <2>3. replies'[c] = Append(replies[c], reply)
    BY <1>2, <1>4 DEF IInv, TypeOK, ClientTypes
  <2>4. Len(replies'[c]) = k + 1 /\ replies'[c][k + 1].body = body[c]
        /\ \A i \in 1..k : replies'[c][i] = replies[c][i]
    BY <2>1, <2>3, Appended
  <2>5. sent[c][k + 1].body.api = "FETCH" => Honest(body[c], view)
    BY <1>1, <2>2 DEF HonestTo, HonestSoFar
  <2>6. \A i \in 1..k : sent[c][i].body.api = "FETCH" => Honest(replies[c][i].body, view)
    BY DEF HonestTo, HonestBefore
  <2>7. \A i \in 1..(k + 1) : i \in 1..k \/ i = k + 1
    BY <2>2
  <2> HIDE DEF k
  <2>8. \A i \in 1..(k + 1) : sent[c][i].body.api = "FETCH" => Honest(replies'[c][i].body, view)
    BY <2>4, <2>5, <2>6, <2>7
  <2> QED BY <1>1, <1>3, <2>4, <2>8 DEF HonestTo, HonestBefore, Honest
<1>5. CASE conn[c] # "open"
  BY <1>1, <1>2, <1>3, <1>5 DEF HonestTo, HonestBefore, Honest
<1> QED BY <1>4, <1>5

LEMMA HonestEnvironment ==
  ASSUME IInv, Kept, Environment, NEW c \in Client, HonestTo(c)
  PROVE  HonestTo(c)'
<1>1. CASE UNCHANGED sent
  BY <1>1, HonestStays DEF Environment, Start, LogAppend, Connect, Depart, Send, thread, client, Fetching
<1>2. ASSUME NEW d \in Client, NEW r \in Request, Send(d, r) PROVE HonestTo(c)'
  <2>1. sent' = [sent EXCEPT ![d] = Append(sent[d], [corr |-> Len(sent[d]) + 1, body |-> r])]
        /\ UNCHANGED <<view, at, req, body, replies>>
    BY <1>2 DEF Send, thread
  <2>2. replies[c] \in Seq(Reply) /\ Len(replies[c]) <= taken[c] /\ taken[c] <= Len(sent[c])
    BY DEF Kept, Keeps, Asks
  <2>3. sent[c] \in Seq(Frame) /\ taken[c] \in Nat /\ sent \in [Client -> Seq(Frame)]
    BY DEF IInv, TypeOK, ClientTypes
  <2>4. \A i \in 1..Len(sent[c]) : sent'[c][i] = sent[c][i]
    <3>1. sent'[c] = sent[c] \/ \E e : sent'[c] = Append(sent[c], e)
      BY <2>1, <2>3
    <3> QED BY <2>3, <3>1, Appended
  <2>5. \A i \in 1..Len(replies[c]) : i \in 1..Len(sent[c])
    BY <2>2, <2>3
  <2> QED BY <2>1, <2>4, <2>5 DEF HonestTo, HonestSoFar, HonestBefore, Honest, Fetching
<1> QED BY <1>1, <1>2 DEF Environment, Start, LogAppend, Connect, Depart, client

LEMMA HonestLoop ==
  ASSUME IInv, MainStep, NEW c \in Client, HonestTo(c)
  PROVE  HonestTo(c)'
<1>1. CASE Accept \/ AcceptAborted \/ Drop
  BY <1>1, HonestStays DEF Accept, AcceptAborted, Drop, thread, client, Fetching
<1>2. CASE Spawn
  <2>1. at'[c] \in {at[c], "read"}
    BY <1>2 DEF Spawn, IInv, TypeOK, ThreadTypes
  <2> QED BY <1>2, <2>1, HonestStays DEF Spawn, client, Fetching
<1>3. CASE StartThrows
  BY <1>3, NothingHonest DEF StartThrows
<1> QED BY <1>1, <1>2, <1>3 DEF MainStep

LEMMA HonestThread ==
  ASSUME ServerAssumption, EnoughFds, LogsThere, IInv, Kept, NEW d \in Client, serve_client(d),
         NEW c \in Client, HonestTo(c)
  PROVE  HonestTo(c)'
<1>1. CASE LoadMetadata(d) \/ Crash(d)
  BY <1>1, HonestLoads, NothingHonest DEF Crash
<1>2. CASE c # d /\ ~LoadMetadata(d) /\ ~Crash(d)
  <2>1. UNCHANGED <<view, sent, at[c], req[c], body[c], replies[c]>>
    <3>1. CASE ReadRequest(d) \/ OpenMetadata(d) \/ OpenLog(d) \/ ReadLog(d)
      BY <1>2, <3>1 DEF ReadRequest, OpenMetadata, OpenLog, ReadLog, client, IInv, TypeOK, ThreadTypes
    <3>2. CASE handle_api_versions(d) \/ handle_describe_topic_partitions(d) \/ handle_fetch(d)
      BY <1>2, <3>2 DEF handle_api_versions, handle_describe_topic_partitions, handle_fetch, Respond,
         client, IInv, TypeOK, ThreadTypes, BodyTypes
    <3>3. CASE FetchTopic(d) \/ FetchDone(d) \/ OpenFails(d) \/ TopicDone(d)
      BY <1>2, <3>3 DEF FetchTopic, FetchDone, OpenFails, TopicDone, GoTo, EndTopic,
         client, IInv, TypeOK, ThreadTypes, BodyTypes
    <3>4. CASE WriteResponse(d)
      BY <1>2, <3>4, ReplyIsNext DEF WriteResponse, IInv, TypeOK, ThreadTypes, BodyTypes, ClientTypes
    <3> QED BY <1>2, <3>1, <3>2, <3>3, <3>4 DEF serve_client
  <2> QED BY <2>1, HonestStays DEF Fetching
<1>3. CASE c = d /\ (ReadRequest(c) \/ OpenMetadata(c) \/ OpenLog(c) \/ ReadLog(c) \/ FetchDone(c))
  <2>1. \/ at'[c] \in {"handle", "load"} /\ UNCHANGED <<view, sent, replies>>
        \/ Fetching(c) /\ UNCHANGED <<view, sent, replies, body, req>>
    BY <1>3 DEF ReadRequest, OpenMetadata, OpenLog, ReadLog, FetchDone, GoTo, Fetching, client,
       IInv, TypeOK, ThreadTypes
  <2>2. CASE at'[c] \in {"handle", "load"} /\ UNCHANGED <<view, sent, replies>>
    BY <2>2 DEF HonestTo, HonestSoFar, HonestBefore, Honest, Fetching
  <2> QED BY <2>1, <2>2, HonestStays
<1>4. CASE c = d /\ (handle_api_versions(c) \/ handle_describe_topic_partitions(c))
  <2>1. at'[c] = "write" /\ req'[c].body.api # "FETCH" /\ UNCHANGED <<view, sent, replies>>
    BY <1>4 DEF handle_api_versions, handle_describe_topic_partitions, Handling, Respond, client,
       IInv, TypeOK, ThreadTypes
  <2> QED BY <2>1 DEF HonestTo, HonestSoFar, HonestBefore, Honest, Fetching
<1>5. CASE c = d /\ handle_fetch(c)
  <2>1. body'[c] = [responses |-> <<>>] /\ UNCHANGED <<view, sent, replies>>
    BY <1>5 DEF handle_fetch, client, IInv, TypeOK, BodyTypes
  <2>2. Honest(body'[c], view)
    BY <2>1 DEF Honest, ToSet
  <2> QED BY <2>1, <2>2 DEF HonestTo, HonestSoFar, HonestBefore, Honest
<1>6. CASE c = d /\ (FetchTopic(c) \/ OpenFails(c) \/ TopicDone(c))
  BY <1>6, HonestFetch
<1>7. CASE c = d /\ WriteResponse(c)
  BY <1>7, HonestReply
<1> QED BY <1>1, <1>2, <1>3, <1>4, <1>5, <1>6, <1>7 DEF serve_client

(* With a log for every partition and descriptors enough, UNKNOWN_TOPIC_ID *)
(* is only ever said of a topic the catalogue does not know: nothing else  *)
(* can be thrown where the catch block of handle_fetch catches, whatever   *)
(* the other threads do (constants.hpp:22, server.cpp:51-82).              *)
THEOREM HonestWhenItCan == Spec => []UnknownTopicIdIsHonest
<1> DEFINE HInv == EnoughFds /\ LogsThere => \A c \in Client : HonestTo(c)
<1>1. Init => HInv
  BY DEF Init, HonestTo, HonestSoFar, HonestBefore, Fetching
<1>2. IInv /\ Kept /\ HInv /\ [Next]_vars => HInv'
  <2> SUFFICES ASSUME IInv, Kept, EnoughFds, LogsThere, [Next]_vars, NEW c \in Client, HonestTo(c)
               PROVE  HonestTo(c)'
    BY DEF EnoughFds, LogsThere
  <2>1. CASE Environment
    BY <2>1, HonestEnvironment
  <2>2. CASE MainStep
    BY <2>2, HonestLoop
  <2>3. CASE \E d \in Client : serve_client(d)
    BY <2>3, HonestThread, ServerAssumption
  <2>4. CASE UNCHANGED vars
    BY <2>4, HonestStays DEF vars, thread, client, Fetching
  <2> QED BY <2>1, <2>2, <2>3, <2>4 DEF Next
<1>3. IInv /\ Kept /\ HInv => UnknownTopicIdIsHonest
  <2> SUFFICES ASSUME IInv, Kept, HInv, EnoughFds, LogsThere PROVE UnknownTopicIdMeansNotHosted
    BY DEF UnknownTopicIdIsHonest
  <2>1. \A c \in Client : DOMAIN replies[c] = 1..Len(replies[c])
    BY DEF Kept, Keeps, Asks
  <2> QED BY <2>1 DEF UnknownTopicIdMeansNotHosted, HonestTo, HonestBefore, Honest
<1> QED BY <1>1, <1>2, <1>3, Inductive, KeptAlways, PTL DEF Spec
=============================================================================
