---------------------------- MODULE BrokerProofs ----------------------------
(***************************************************************************)
(* For any clients, descriptors, logs, requests and bounds: the process of *)
(* Server implements Broker.  Beyond who owns what (ServerProofs), the     *)
(* invariant says which request a thread is at and how far its reply has   *)
(* come: whatever was put into it is what the one catalogue of the process *)
(* allows, and the catalogue is there before anything that depends on it.  *)
(***************************************************************************)
EXTENDS ServerProofs

Catalogues == {Unloaded} \cup {Snapshot(n) : n \in {0} \cup BatchEnd}
Reply      == [corr : Nat, body : UNION {Promise!Answers(r, v) : r \in Request, v \in Catalogues}]

(* One thread builds the catalogue, and then there is none yet.            *)
LoadsOnce ==
  /\ \A c \in Client : at[c] = "load" => view = Unloaded
  /\ \A c, d \in Client : at[c] = "load" /\ at[d] = "load" => c = d

(* A thread is at the last request taken from its connection, and the ones *)
(* before it are answered.                                                 *)
Asks(c) ==
  /\ taken[c] <= Len(sent[c])
  /\ Busy(c) => taken[c] >= 1 /\ req[c] = sent[c][taken[c]]
  /\ replies[c] \in Seq(Reply)
  /\ Len(replies[c]) <= taken[c]
  /\ conn[c] # "closed" /\ Busy(c) => Len(replies[c]) + 1 = taken[c]
  /\ conn[c] # "closed" /\ ~Busy(c) => Len(replies[c]) = taken[c]

(* What depends on the catalogue is done when it is there.                 *)
Catalogued(c) ==
  at[c] \in {"fetch", "open", "slurp", "write"} /\ Promise!NeedsCatalogue(req[c].body)
    => view # Unloaded

(* The replies that were sent are the catalogue's.                         *)
Served(c) ==
  \A i \in 1..Len(replies[c]) :
    /\ replies[c][i].body \in Promise!Answers(sent[c][i].body, view)
    /\ Promise!NeedsCatalogue(sent[c][i].body) => view # Unloaded

LogOf(c, i) == <<view.names[Topic(c).id], Topic(c).partitions[i]>>

(* So is the one that is being built: whole topics, and of the topic the   *)
(* thread is at, the first partitions.                                     *)
TopicsBuilt(c) ==
  Fetching(c) => \A i \in 1..Done(c) : body[c].responses[i] \in Promise!TopicData(Topics(c)[i], view)
PartsBuilt(c) ==
  at[c] \in {"open", "slurp"} =>
    /\ Topic(c).id \in DOMAIN view.names
    /\ \A i \in 1..Len(parts[c]) :
         /\ LogOf(c, i) \in LogFile
         /\ parts[c][i] = [index |-> Topic(c).partitions[i], error |-> "NONE", records |-> LogOf(c, i)]
LogOpen(c) == at[c] = "slurp" => fdt[lfd[c]] = Log(c)
Built(c)   == at[c] = "write" => body[c] \in Promise!Answers(req[c].body, view)

Building(c) == TopicsBuilt(c) /\ PartsBuilt(c) /\ LogOpen(c) /\ Built(c)

Keeps(c) == Asks(c) /\ Catalogued(c) /\ Served(c) /\ Building(c)

Kept == LoadsOnce /\ \A c \in Client : Keeps(c)

-----------------------------------------------------------------------------
(* The abstract broker's answers.                                          *)

(* Both modules read the metadata log in the same way.                     *)
LEMMA SameSnapshot ==
  ASSUME NEW n
  PROVE  Promise!Snapshot(n) = Snapshot(n)
<1>1. Promise!Records(n) = Records(n)
  BY DEF Promise!Records, Records, Promise!Parsed, Parsed, Promise!Largest, Largest
<1>2. ASSUME NEW m PROVE Promise!topic_ids(m) = topic_ids(m)
  BY DEF Promise!topic_ids, topic_ids, Promise!OfType, OfType, Promise!Largest, Largest
<1>3. ASSUME NEW m PROVE Promise!topic_names(m) = topic_names(m)
  BY DEF Promise!topic_names, topic_names, Promise!OfType, OfType, Promise!Largest, Largest
<1>4. ASSUME NEW m PROVE Promise!partition_ids(m) = partition_ids(m)
  <2>1. ASSUME NEW S PROVE Promise!Cardinality(S) = Cardinality(S)
    BY DEF Promise!Cardinality, Cardinality
  <2>2. ASSUME NEW S, NEW k PROVE Promise!Nth(S, k) = Nth(S, k)
    <3>1. \A i : Promise!Cardinality({j \in S : j <= i}) = Cardinality({j \in S : j <= i})
      BY <2>1
    <3>2. {i \in S : Promise!Cardinality({j \in S : j <= i}) = k} = {i \in S : Cardinality({j \in S : j <= i}) = k}
      BY <3>1
    <3>3. ASSUME NEW T PROVE Promise!Largest(T) = Largest(T)
      BY DEF Promise!Largest, Largest
    <3> QED BY <3>2, <3>3 DEF Promise!Nth, Nth
  <2>3. Promise!OfType(m, "partition") = OfType(m, "partition")
    BY DEF Promise!OfType, OfType
  <2> QED BY <2>1, <2>2, <2>3 DEF Promise!partition_ids, partition_ids
<1>5. Promise!Snapshot(n) = Snapshot(n)
  BY <1>1, <1>2, <1>3, <1>4 DEF Promise!Snapshot, Snapshot
<1> QED BY <1>5

(* A request that names no topic is answered without the catalogue.        *)
LEMMA NoCatalogue ==
  ASSUME NEW q, ~Promise!NeedsCatalogue(q), NEW v, NEW w
  PROVE  Promise!Answers(q, v) = Promise!Answers(q, w)
<1>1. CASE q.api = "API_VERSIONS"
  BY <1>1 DEF Promise!Answers
<1>2. CASE q.api = "DESCRIBE_TOPIC_PARTITIONS"
  <2>1. q.names = <<>>
    BY <1>2 DEF Promise!NeedsCatalogue
  <2>2. \A u : [i \in DOMAIN q.names |-> Promise!TopicDescription(q.names[i], u)] = <<>>
    BY <2>1
  <2> QED BY <1>2, <2>2 DEF Promise!Answers
<1>3. CASE q.api = "FETCH"
  <2>1. DOMAIN q.topics = {}
    BY <1>3 DEF Promise!NeedsCatalogue
  <2>2. \A u : UNION {Promise!TopicData(q.topics[i], u) : i \in DOMAIN q.topics} = {}
    BY <2>1
  <2>3. \A u : {f \in [DOMAIN q.topics -> {}] : \A i \in DOMAIN q.topics : f[i] \in Promise!TopicData(q.topics[i], u)}
                 = [DOMAIN q.topics -> {}]
    BY <2>1
  <2> QED BY <1>3, <2>2, <2>3 DEF Promise!Answers
<1>4. CASE q.api \notin {"API_VERSIONS", "DESCRIBE_TOPIC_PARTITIONS", "FETCH"}
  BY <1>4 DEF Promise!Answers
<1> QED BY <1>1, <1>2, <1>3, <1>4

LEMMA FetchAnswer ==
  ASSUME NEW q, q.api = "FETCH", NEW v, NEW S, NEW r \in [DOMAIN q.topics -> S],
         \A i \in DOMAIN q.topics : r[i] \in Promise!TopicData(q.topics[i], v)
  PROVE  [responses |-> r] \in Promise!Answers(q, v)
<1>1. r \in [DOMAIN q.topics -> UNION {Promise!TopicData(q.topics[i], v) : i \in DOMAIN q.topics}]
  OBVIOUS
<1> QED BY <1>1 DEF Promise!Answers

LEMMA DescribeAnswer ==
  ASSUME NEW q, q.api = "DESCRIBE_TOPIC_PARTITIONS"
  PROVE  [topics |-> [i \in DOMAIN q.names |-> make_response_topic(q.names[i])]] \in Promise!Answers(q, view)
<1>1. [i \in DOMAIN q.names |-> make_response_topic(q.names[i])]
      = [i \in DOMAIN q.names |-> Promise!TopicDescription(q.names[i], view)]
  BY DEF make_response_topic, Promise!TopicDescription
<1> QED BY <1>1 DEF Promise!Answers

LEMMA UnknownTopic ==
  ASSUME NEW topic, NEW v, topic.id \notin DOMAIN v.names
  PROVE  [id |-> topic.id, partitions |-> <<UnknownTopicId>>] \in Promise!TopicData(topic, v)
BY DEF Promise!TopicData, UnknownTopicId

(* The first partitions of a topic, each with its own log: all of them, or *)
(* those before the one that failed.                                       *)
LogIn(topic, v, i) == <<v.names[topic.id], topic.partitions[i]>>
FirstParts(topic, v, k) ==
  [i \in 1..k |-> [index |-> topic.partitions[i], error |-> "NONE", records |-> LogIn(topic, v, i)]]

LEMMA WholeTopic ==
  ASSUME NEW topic, NEW v, NEW k \in Nat, k = Len(topic.partitions), topic.id \in DOMAIN v.names,
         \A i \in 1..k : LogIn(topic, v, i) \in LogFile
  PROVE  [id |-> topic.id, partitions |-> FirstParts(topic, v, k)] \in Promise!TopicData(topic, v)
<1>1. k \in {j \in 0..Len(topic.partitions) : topic.id \in DOMAIN v.names
                 /\ \A i \in 1..j : LogIn(topic, v, i) \in LogFile} \cap {Len(topic.partitions)}
  OBVIOUS
<1> QED BY <1>1 DEF Promise!TopicData, FirstParts, LogIn

LEMMA CutTopic ==
  ASSUME NEW topic, NEW v, NEW k \in Nat, Len(topic.partitions) \in Nat, k < Len(topic.partitions),
         topic.id \in DOMAIN v.names, \A i \in 1..k : LogIn(topic, v, i) \in LogFile
  PROVE  [id |-> topic.id, partitions |-> Append(FirstParts(topic, v, k), UnknownTopicId)]
           \in Promise!TopicData(topic, v)
<1>1. k \in {j \in 0..Len(topic.partitions) : topic.id \in DOMAIN v.names
                 /\ \A i \in 1..j : LogIn(topic, v, i) \in LogFile} \ {Len(topic.partitions)}
  OBVIOUS
<1>2. UnknownTopicId = [index |-> 0, error |-> "UNKNOWN_TOPIC_ID", records |-> None]
  BY DEF UnknownTopicId
<1> QED BY <1>1, <1>2 DEF Promise!TopicData, FirstParts, LogIn

-----------------------------------------------------------------------------
(* A thread that does not move keeps what it knows.                        *)
LEMMA NotMoved ==
  ASSUME NEW c \in Client, Keeps(c),
         UNCHANGED <<view, at[c], req[c], body[c], parts[c], taken[c], replies[c], sent[c]>>,
         conn'[c] # "closed" => conn[c] # "closed",
         at[c] = "slurp" => fdt'[lfd'[c]] = fdt[lfd[c]]
  PROVE  Keeps(c)'
<1>1. Asks(c)'
  BY DEF Keeps, Asks, Busy
<1>2. Catalogued(c)' /\ Served(c)'
  BY DEF Keeps, Catalogued, Served
<1>3. Topics(c)' = Topics(c) /\ Done(c)' = Done(c) /\ Topic(c)' = Topic(c) /\ Partition(c)' = Partition(c)
      /\ Log(c)' = Log(c) /\ \A i : LogOf(c, i)' = LogOf(c, i)
  BY DEF Topics, Done, Topic, Partition, Log, LogOf
<1>4. Building(c)'
  BY <1>3 DEF Keeps, Building, TopicsBuilt, PartsBuilt, LogOpen, Built, Fetching
<1> QED BY <1>1, <1>2, <1>4 DEF Keeps

(* Nor does one that stays between requests, whoever starts it.            *)
LEMMA StaysIdle ==
  ASSUME NEW c \in Client, Keeps(c), at[c] \in {"none", "read"}, at'[c] \in {"none", "read"},
         UNCHANGED <<view, taken[c], replies[c], sent[c], conn[c]>>
  PROVE  Keeps(c)'
<1>1. ~Busy(c) /\ ~Busy(c)'
  BY DEF Busy
<1> QED BY <1>1 DEF Keeps, Asks, Catalogued, Served, Building, TopicsBuilt, PartsBuilt, LogOpen, Built,
             Fetching

(* The end of the process leaves nothing to keep.                          *)
LEMMA NothingKept ==
  ASSUME Terminate
  PROVE  Kept'
<1> SUFFICES ASSUME NEW c \in Client PROVE Keeps(c)'
  BY DEF Terminate, Kept, LoadsOnce
<1>1. at'[c] = "none" /\ taken'[c] = 0 /\ replies'[c] = <<>> /\ sent'[c] = <<>>
  BY DEF Terminate
<1>2. <<>> \in Seq(Reply) /\ Len(<<>>) = 0
  OBVIOUS
<1>3. Asks(c)'
  BY <1>1, <1>2 DEF Asks, Busy
<1> QED BY <1>1, <1>2, <1>3 DEF Keeps, Catalogued, Served, Building, TopicsBuilt, PartsBuilt, LogOpen,
             Built, Fetching

(* The logs of the other threads stay open where they are when c opens or  *)
(* closes one, or the loop accepts.                                        *)
LEMMA LogsStay ==
  ASSUME ServerAssumption, IInv, NEW d \in Client, at[d] = "slurp", lfd'[d] = lfd[d],
         NEW fd, fd \in FreeFds \/ \E c \in Client \ {d} : fd = lfd[c], NEW x,
         fdt' = [fdt EXCEPT ![fd] = x]
  PROVE  fdt'[lfd'[d]] = fdt[lfd[d]]
<1>1. lfd[d] \in Fd /\ fdt[lfd[d]] \in LogFile /\ None \notin Fd /\ Free \notin LogFile
  BY DEF IInv, Owns, LogOwns, ServerAssumption
<1>2. lfd[d] # fd
  BY <1>1 DEF IInv, Owns, LogOwns, FreeFds
<1> QED BY <1>1, <1>2 DEF IInv, TypeOK, ProcessTypes

LEMMA KeptOutside ==
  ASSUME ServerAssumption, IInv, Kept, Environment
  PROVE  Kept'
<1>1. CASE Start \/ LogAppend
  BY <1>1, NotMoved DEF Start, LogAppend, Kept, LoadsOnce, loop, thread, client
<1>2. ASSUME NEW c \in Client, Connect(c) \/ Depart(c) PROVE Kept'
  <2>1. \/ conn' = [conn EXCEPT ![c] = "open"] /\ conn[c] = "none"
        \/ conn' = [conn EXCEPT ![c] = "closed"]
    BY <1>2 DEF Connect, Depart
  <2>2. \A d \in Client : conn'[d] # "closed" => conn[d] # "closed"
    BY <2>1 DEF IInv, TypeOK, ClientTypes
  <2>3. UNCHANGED <<view, fdt, at, cfd, lfd, req, body, parts, sent, taken, replies>>
    BY <1>2 DEF Connect, Depart, thread
  <2> QED BY <2>2, <2>3, NotMoved DEF Kept, LoadsOnce
<1>3. ASSUME NEW c \in Client, NEW r \in Request, Send(c, r) PROVE Kept'
  <2> DEFINE frame == [corr |-> Len(sent[c]) + 1, body |-> r]
  <2>1. sent' = [sent EXCEPT ![c] = Append(sent[c], frame)]
        /\ UNCHANGED <<view, fdt, at, cfd, lfd, req, body, parts, conn, taken, replies>>
    BY <1>3 DEF Send, thread
  <2>2. \A d \in Client \ {c} : sent'[d] = sent[d]
    BY <2>1 DEF IInv, TypeOK, ClientTypes
  <2>3. \A d \in Client \ {c} : Keeps(d)'
    BY <2>1, <2>2, NotMoved DEF Kept
  <2>4. sent[c] \in Seq(Frame) /\ sent'[c] = Append(sent[c], frame) /\ Len(sent[c]) \in Nat /\ taken[c] \in Nat
    BY <2>1 DEF IInv, TypeOK, ClientTypes
  <2>5. Len(sent'[c]) = Len(sent[c]) + 1 /\ \A i \in 1..Len(sent[c]) : sent'[c][i] = sent[c][i]
    BY <2>4
  <2>6. Keeps(c)
    BY DEF Kept
  <2>7. Asks(c)'
    BY <2>1, <2>4, <2>5, <2>6 DEF Keeps, Asks, Busy
  <2>8. \A i \in 1..Len(replies[c]) : sent'[c][i] = sent[c][i]
    <3>1. Len(replies[c]) \in Nat /\ Len(replies[c]) <= Len(sent[c])
      BY <2>4, <2>6 DEF Keeps, Asks
    <3> QED BY <2>4, <2>5, <3>1
  <2>9. Catalogued(c)' /\ Served(c)'
    BY <2>1, <2>6, <2>8 DEF Keeps, Catalogued, Served
  <2>10. Building(c)'
    BY <2>1, <2>6 DEF Keeps, Building, TopicsBuilt, PartsBuilt, LogOpen, Built, Fetching, Topics, Done,
                      Topic, Partition, Log, LogOf
  <2> QED BY <2>1, <2>3, <2>7, <2>9, <2>10 DEF Kept, LoadsOnce, Keeps
<1> QED BY <1>1, <1>2, <1>3 DEF Environment

LEMMA KeptLoop ==
  ASSUME ServerAssumption, IInv, Kept, MainStep
  PROVE  Kept'
<1>1. CASE Accept
  <2>1. PICK fd \in FreeFds : fdt' = [fdt EXCEPT ![fd] = Head(queue)]
    BY <1>1 DEF Accept
  <2>2. UNCHANGED <<view, at, cfd, lfd, req, body, parts, conn, sent, taken, replies>>
    BY <1>1 DEF Accept, thread, client
  <2>3. \A d \in Client : at[d] = "slurp" => fdt'[lfd'[d]] = fdt[lfd[d]]
    BY <2>1, <2>2, LogsStay
  <2> QED BY <2>2, <2>3, NotMoved DEF Kept, LoadsOnce
<1>2. CASE AcceptAborted
  BY <1>2, NotMoved DEF AcceptAborted, Kept, LoadsOnce, thread, client
<1>3. CASE Spawn
  <2>1. PICK c \in Client : at[c] = "none" /\ at' = [at EXCEPT ![c] = "read"]
    BY <1>3 DEF Spawn, IInv, Owns, LoopOwns, Opened
  <2>2. UNCHANGED <<view, fdt, lfd, req, body, parts, conn, sent, taken, replies>>
    BY <1>3 DEF Spawn, client
  <2>3. at'[c] = "read" /\ \A d \in Client \ {c} : at'[d] = at[d]
    BY <2>1 DEF IInv, TypeOK, ThreadTypes
  <2>4. Keeps(c)'
    BY <2>1, <2>2, <2>3, StaysIdle DEF Kept
  <2>5. \A d \in Client \ {c} : Keeps(d)'
    BY <2>2, <2>3, NotMoved DEF Kept
  <2> QED BY <2>2, <2>3, <2>4, <2>5 DEF Kept, LoadsOnce
<1>4. CASE Drop
  <2>1. fdt' = fdt
    BY <1>4 DEF Drop, Closed, IInv, Owns, LoopOwns
  <2> QED BY <1>4, <2>1, NotMoved DEF Drop, Kept, LoadsOnce, thread, client
<1>5. CASE StartThrows
  BY <1>5, NothingKept DEF StartThrows
<1> QED BY <1>1, <1>2, <1>3, <1>4, <1>5 DEF MainStep

-----------------------------------------------------------------------------
(* The steps of a connection's thread.                                     *)

LEMMA OthersKeep ==
  ASSUME ServerAssumption, IInv, Kept, NEW c \in Client, UNCHANGED <<view, conn, sent>>,
         \A d \in Client \ {c} :
           UNCHANGED <<at[d], req[d], body[d], parts[d], taken[d], replies[d], lfd[d]>>,
         fdt' = fdt \/ \E fd \in FreeFds \cup {lfd[c]} : \E x : fdt' = [fdt EXCEPT ![fd] = x]
  PROVE  \A d \in Client \ {c} : Keeps(d)'
<1> SUFFICES ASSUME NEW d \in Client \ {c} PROVE Keeps(d)'
  OBVIOUS
<1>1. at[d] = "slurp" => fdt'[lfd'[d]] = fdt[lfd[d]]
  BY LogsStay
<1> QED BY <1>1, NotMoved DEF Kept

LEMMA StaysBusy ==
  ASSUME NEW c \in Client, Keeps(c), Busy(c), Busy(c)',
         UNCHANGED <<view, conn, sent, taken, replies, req>>
  PROVE  Asks(c)' /\ Served(c)'
BY DEF Keeps, Asks, Served

(* The request a busy thread is at is one the client sent.                 *)
LEMMA AtRequest ==
  ASSUME IInv, NEW c \in Client, Busy(c)
  PROVE  req[c] \in Frame /\ req[c].body \in Request /\ req[c].corr \in Nat
BY DEF IInv, LoopsInRange, InRange, Frame

LEMMA ReadKeeps ==
  ASSUME ServerAssumption, IInv, Kept, NEW c \in Client, ReadRequest(c)
  PROVE  Kept'
<1>1. Peer(c) = c /\ at[c] = "read"
  BY DEF ReadRequest, IInv, Owns, ThreadOwns, Peer, Opened
<1>2. /\ Len(sent[c]) > taken[c]
      /\ req' = [req EXCEPT ![c] = sent[c][taken[c] + 1]]
      /\ taken' = [taken EXCEPT ![c] = taken[c] + 1]
      /\ at' = [at EXCEPT ![c] = "handle"]
      /\ UNCHANGED <<view, fdt, lfd, body, parts, conn, sent, replies>>
  BY <1>1 DEF ReadRequest, FramePending, NextFrame
<1>3. at'[c] = "handle" /\ req'[c] = sent[c][taken[c] + 1] /\ taken'[c] = taken[c] + 1
      /\ taken[c] \in Nat /\ Len(sent[c]) \in Nat
      /\ \A d \in Client \ {c} : UNCHANGED <<at[d], req[d], body[d], parts[d], taken[d], replies[d], lfd[d]>>
  BY <1>2 DEF IInv, TypeOK, ThreadTypes, ClientTypes
<1>4. \A d \in Client \ {c} : Keeps(d)'
  BY <1>2, <1>3, OthersKeep
<1>5. Keeps(c) /\ ~Busy(c) /\ Busy(c)'
  BY <1>1, <1>3 DEF Kept, Busy
<1>6. replies[c] \in Seq(Reply) /\ Len(replies[c]) \in Nat
  BY <1>5 DEF Keeps, Asks
<1>7. Asks(c)'
  BY <1>2, <1>3, <1>5, <1>6 DEF Keeps, Asks
<1>8. Catalogued(c)' /\ Served(c)' /\ Building(c)'
  BY <1>2, <1>3, <1>5 DEF Keeps, Catalogued, Served, Building, TopicsBuilt, PartsBuilt, LogOpen, Built, Fetching
<1> QED BY <1>2, <1>3, <1>4, <1>7, <1>8 DEF Kept, LoadsOnce, Keeps

(* A handler is done: its reply is one the catalogue allows.               *)
LEMMA RespondKeeps ==
  ASSUME ServerAssumption, IInv, Kept, NEW c \in Client, at[c] = "handle", NEW response,
         Respond(c, response), response \in Promise!Answers(req[c].body, view),
         Promise!NeedsCatalogue(req[c].body) => view # Unloaded
  PROVE  Kept'
<1>1. /\ body' = [body EXCEPT ![c] = response]
      /\ at' = [at EXCEPT ![c] = "write"]
      /\ UNCHANGED <<view, fdt, lfd, req, parts, conn, sent, taken, replies>>
  BY DEF Respond, client
<1>2. at'[c] = "write" /\ body'[c] = response
      /\ \A d \in Client \ {c} : UNCHANGED <<at[d], req[d], body[d], parts[d], taken[d], replies[d], lfd[d]>>
  BY <1>1 DEF IInv, TypeOK, ThreadTypes, BodyTypes
<1>3. \A d \in Client \ {c} : Keeps(d)'
  BY <1>1, <1>2, OthersKeep
<1>4. Asks(c)' /\ Served(c)'
  BY <1>1, <1>2, StaysBusy DEF Kept, Busy
<1>5. Catalogued(c)' /\ Building(c)'
  BY <1>1, <1>2 DEF Catalogued, Building, TopicsBuilt, PartsBuilt, LogOpen, Built, Fetching
<1> QED BY <1>1, <1>2, <1>3, <1>4, <1>5 DEF Kept, LoadsOnce, Keeps

LEMMA HandlersKeep ==
  ASSUME ServerAssumption, IInv, Kept, NEW c \in Client,
         handle_api_versions(c) \/ handle_describe_topic_partitions(c)
  PROVE  Kept'
<1> DEFINE q == req[c].body
<1>1. CASE handle_api_versions(c)
  <2> DEFINE response == IF q.version # 4
                         THEN [error |-> "UNSUPPORTED_VERSION", keys |-> <<>>]
                         ELSE [error |-> "NONE", keys |-> Advertised]
  <2>1. at[c] = "handle" /\ q.api = "API_VERSIONS" /\ Respond(c, response)
    BY <1>1 DEF handle_api_versions, Handling
  <2>2. response = Promise!ApiVersionsReply(q)
    BY DEF Promise!ApiVersionsReply, Advertised
  <2>3. response \in Promise!Answers(q, view) /\ ~Promise!NeedsCatalogue(q)
    BY <2>1, <2>2 DEF Promise!Answers, Promise!NeedsCatalogue
  <2> QED BY <2>1, <2>3, RespondKeeps
<1>2. CASE handle_describe_topic_partitions(c)
  <2> DEFINE response == [topics |-> [i \in DOMAIN q.names |-> make_response_topic(q.names[i])]]
  <2>1. at[c] = "handle" /\ q.api = "DESCRIBE_TOPIC_PARTITIONS" /\ Respond(c, response)
    BY <1>2 DEF handle_describe_topic_partitions, Handling
  <2>2. Promise!NeedsCatalogue(q) => view # Unloaded
    BY <1>2, <2>1 DEF handle_describe_topic_partitions, get_instance, UsesMetadata, Promise!NeedsCatalogue
  <2>3. response \in Promise!Answers(q, view)
    BY <2>1, DescribeAnswer
  <2> QED BY <2>1, <2>2, <2>3, RespondKeeps
<1> QED BY <1>1, <1>2

LEMMA OpenMetadataKeeps ==
  ASSUME ServerAssumption, IInv, Kept, NEW c \in Client, OpenMetadata(c)
  PROVE  Kept'
<1>1. PICK fd \in FreeFds : fdt' = [fdt EXCEPT ![fd] = MetaFile] /\ lfd' = [lfd EXCEPT ![c] = fd]
  BY DEF OpenMetadata
<1>2. at[c] = "handle" /\ view = Unloaded /\ Loading = {} /\ at' = [at EXCEPT ![c] = "load"]
      /\ UNCHANGED <<view, req, body, parts, conn, sent, taken, replies>>
  BY DEF OpenMetadata, UsesMetadata, client
<1>3. at'[c] = "load"
      /\ \A d \in Client \ {c} : UNCHANGED <<at[d], req[d], body[d], parts[d], taken[d], replies[d], lfd[d]>>
  BY <1>1, <1>2 DEF IInv, TypeOK, ThreadTypes
<1>4. \A d \in Client \ {c} : Keeps(d)'
  BY <1>1, <1>2, <1>3, OthersKeep
<1>5. Asks(c)' /\ Served(c)'
  BY <1>2, <1>3, StaysBusy DEF Kept, Busy
<1>6. Catalogued(c)' /\ Building(c)'
  BY <1>3 DEF Catalogued, Building, TopicsBuilt, PartsBuilt, LogOpen, Built, Fetching
<1>7. LoadsOnce'
  BY <1>2, <1>3 DEF LoadsOnce, Loading
<1> QED BY <1>4, <1>5, <1>6, <1>7 DEF Kept, Keeps

(* The catalogue appears: what was built without it does not depend on it. *)
LEMMA CatalogueAppears ==
  ASSUME ServerAssumption, IInv, NEW d \in Client, Keeps(d), view = Unloaded,
         UNCHANGED <<at[d], req[d], body[d], parts[d], taken[d], replies[d], conn[d], sent[d]>>
  PROVE  Keeps(d)'
<1>1. Asks(d)'
  BY DEF Keeps, Asks, Busy
<1>2. Served(d)'
  <2> SUFFICES ASSUME NEW i \in 1..Len(replies[d])
               PROVE  /\ replies[d][i].body \in Promise!Answers(sent[d][i].body, view')
                      /\ ~Promise!NeedsCatalogue(sent[d][i].body)
    BY DEF Served
  <2>1. ~Promise!NeedsCatalogue(sent[d][i].body)
        /\ replies[d][i].body \in Promise!Answers(sent[d][i].body, view)
    BY DEF Keeps, Served
  <2> QED BY <2>1, NoCatalogue
<1>3. at[d] \in {"fetch", "open", "slurp", "write"} => ~Promise!NeedsCatalogue(req[d].body)
  BY DEF Keeps, Catalogued
<1>4. Catalogued(d)'
  BY <1>3 DEF Catalogued
<1>5. CASE Fetching(d)
  <2>1. Topics(d) \in Seq([id : Id, partitions : Seq(Pid)]) /\ Done(d) \in Nat
    BY <1>5, FetchFacts DEF IInv
  <2>2. req[d].body.api = "FETCH" /\ Done(d) <= Len(Topics(d))
        /\ (at[d] \in {"open", "slurp"} => Done(d) < Len(Topics(d)))
    <3>1. InRange(d) /\ req[d].body \in FetchRequest
      BY <1>5 DEF IInv, LoopsInRange, InRange
    <3>2. req[d].body.api = "FETCH"
      BY <3>1 DEF FetchRequest
    <3> QED BY <1>5, <3>1, <3>2 DEF InRange
  <2>3. Topics(d) = <<>>
    BY <1>3, <1>5, <2>2 DEF Fetching, Promise!NeedsCatalogue, Topics
  <2>4. Done(d) = 0 /\ at[d] = "fetch"
    <3>1. Len(Topics(d)) = 0
      BY <2>3
    <3> QED BY <1>5, <2>1, <2>2, <3>1 DEF Fetching
  <2>5. Done(d)' = Done(d)
    BY DEF Done
  <2> QED BY <1>1, <1>2, <1>4, <2>4, <2>5
          DEF Keeps, Building, TopicsBuilt, PartsBuilt, LogOpen, Built
<1>6. CASE at[d] = "write"
  <2>1. body[d] \in Promise!Answers(req[d].body, view')
    BY <1>3, <1>6, NoCatalogue DEF Keeps, Building, Built
  <2> QED BY <1>1, <1>2, <1>4, <1>6, <2>1
          DEF Keeps, Building, TopicsBuilt, PartsBuilt, LogOpen, Built, Fetching
<1>7. CASE ~Fetching(d) /\ at[d] # "write"
  BY <1>1, <1>2, <1>4, <1>7 DEF Keeps, Building, TopicsBuilt, PartsBuilt, LogOpen, Built, Fetching
<1> QED BY <1>5, <1>6, <1>7

LEMMA LoadKeeps ==
  ASSUME ServerAssumption, IInv, Kept, NEW c \in Client, LoadMetadata(c)
  PROVE  Kept'
<1>1. at[c] = "load" /\ view = Unloaded /\ at' = [at EXCEPT ![c] = "handle"]
      /\ UNCHANGED <<req, body, parts, conn, sent, taken, replies>>
  BY DEF LoadMetadata, client, Kept, LoadsOnce
<1>2. at'[c] = "handle" /\ \A d \in Client \ {c} : at'[d] = at[d] /\ at[d] # "load"
  BY <1>1 DEF IInv, TypeOK, ThreadTypes, Kept, LoadsOnce
<1>3. \A d \in Client \ {c} : Keeps(d)'
  BY <1>1, <1>2, CatalogueAppears DEF Kept
<1>4. Asks(c)'
  BY <1>1, <1>2 DEF Kept, Keeps, Asks, Busy
<1>5. Served(c)'
  <2> SUFFICES ASSUME NEW i \in 1..Len(replies[c])
               PROVE  /\ replies[c][i].body \in Promise!Answers(sent[c][i].body, view')
                      /\ ~Promise!NeedsCatalogue(sent[c][i].body)
    BY <1>1 DEF Served
  <2>1. ~Promise!NeedsCatalogue(sent[c][i].body)
        /\ replies[c][i].body \in Promise!Answers(sent[c][i].body, view)
    BY <1>1 DEF Kept, Keeps, Served
  <2> QED BY <2>1, NoCatalogue
<1>6. Catalogued(c)' /\ Building(c)'
  BY <1>2 DEF Catalogued, Building, TopicsBuilt, PartsBuilt, LogOpen, Built, Fetching
<1>7. LoadsOnce'
  BY <1>2 DEF LoadsOnce
<1> QED BY <1>3, <1>4, <1>5, <1>6, <1>7 DEF Kept, Keeps

LEMMA Appended ==
  ASSUME NEW S, NEW seq \in Seq(S), NEW e
  PROVE  /\ Len(seq) \in Nat /\ Len(Append(seq, e)) = Len(seq) + 1
         /\ Append(seq, e)[Len(seq) + 1] = e
         /\ \A i \in 1..Len(seq) : Append(seq, e)[i] = seq[i]
<1>1. seq \in Seq(S \cup {e})
  OBVIOUS
<1> QED BY <1>1

LEMMA Indexed ==
  ASSUME NEW S, NEW seq \in Seq(S)
  PROVE  seq \in [1..Len(seq) -> S]
OBVIOUS

LEMMA HandleFetchKeeps ==
  ASSUME ServerAssumption, IInv, Kept, NEW c \in Client, handle_fetch(c)
  PROVE  Kept'
<1>1. /\ body' = [body EXCEPT ![c] = [responses |-> <<>>]]
      /\ at' = [at EXCEPT ![c] = "fetch"]
      /\ at[c] = "handle" /\ req[c].body.api = "FETCH"
      /\ UNCHANGED <<view, fdt, lfd, req, parts, conn, sent, taken, replies>>
  BY DEF handle_fetch, Handling, client
<1>2. at'[c] = "fetch" /\ body'[c] = [responses |-> <<>>]
      /\ \A d \in Client \ {c} : UNCHANGED <<at[d], req[d], body[d], parts[d], taken[d], replies[d], lfd[d]>>
  BY <1>1 DEF IInv, TypeOK, ThreadTypes, BodyTypes
<1>3. \A d \in Client \ {c} : Keeps(d)'
  BY <1>1, <1>2, OthersKeep
<1>4. Asks(c)' /\ Served(c)'
  BY <1>1, <1>2, StaysBusy DEF Kept, Busy
<1>5. Catalogued(c)'
  BY <1>1 DEF handle_fetch, get_instance, UsesMetadata, Catalogued, Promise!NeedsCatalogue
<1>6. Done(c)' = 0
  BY <1>2 DEF Done
<1>7. Building(c)'
  BY <1>2, <1>6 DEF Building, TopicsBuilt, PartsBuilt, LogOpen, Built, Fetching
<1> QED BY <1>1, <1>2, <1>3, <1>4, <1>5, <1>7 DEF Kept, LoadsOnce, Keeps

(* A topic is answered, and the reply goes on to the next one.             *)
LEMMA EndTopicKeeps ==
  ASSUME ServerAssumption, IInv, Kept, NEW c \in Client, Fetching(c), Done(c) < Len(Topics(c)),
         NEW ps, EndTopic(c, ps),
         [id |-> Topic(c).id, partitions |-> ps] \in Promise!TopicData(Topic(c), view),
         view # Unloaded
  PROVE  Kept'
<1> DEFINE entry == [id |-> Topic(c).id, partitions |-> ps]
           rs    == body[c].responses
<1>1. parts' = [parts EXCEPT ![c] = <<>>] /\ at' = [at EXCEPT ![c] = "fetch"]
      /\ UNCHANGED <<view, fdt, lfd, req, conn, sent, taken, replies>>
  BY DEF EndTopic, client
<1>2. body[c] \in FetchResponse
  BY FetchFacts DEF IInv
<1>3. body'[c] = [responses |-> Append(rs, entry)] /\ \A d \in Client \ {c} : body'[d] = body[d]
  <2>1. body' = [body EXCEPT ![c] = [body[c] EXCEPT !.responses = Append(rs, entry)]]
    BY DEF EndTopic
  <2>2. \A x : [body[c] EXCEPT !.responses = x] = [responses |-> x]
    BY <1>2 DEF FetchResponse
  <2> QED BY <2>1, <2>2 DEF IInv, TypeOK, BodyTypes
<1>4. at'[c] = "fetch"
      /\ \A d \in Client \ {c} : UNCHANGED <<at[d], req[d], body[d], parts[d], taken[d], replies[d], lfd[d]>>
  BY <1>1, <1>3 DEF IInv, TypeOK, ThreadTypes
<1>5. \A d \in Client \ {c} : Keeps(d)'
  BY <1>1, <1>4, OthersKeep
<1>6. Asks(c)' /\ Served(c)'
  BY <1>1, <1>4, StaysBusy DEF Kept, Busy, Fetching
<1>7. Catalogued(c)'
  BY <1>1 DEF Catalogued
<1>8. TopicsBuilt(c)'
  <2>1. rs \in Seq([id : Id, partitions : Seq(PartitionData)]) /\ Len(rs) \in Nat /\ Done(c) = Len(rs)
    BY <1>2 DEF FetchResponse, Done
  <2>2. Done(c)' = Done(c) + 1 /\ Topics(c)' = Topics(c)
        /\ body'[c].responses[Done(c) + 1] = entry
        /\ \A i \in 1..Done(c) : body'[c].responses[i] = rs[i]
    <3>1. body'[c].responses = Append(rs, entry)
      BY <1>3
    <3>2. Len(Append(rs, entry)) = Len(rs) + 1 /\ Append(rs, entry)[Len(rs) + 1] = entry
          /\ \A i \in 1..Len(rs) : Append(rs, entry)[i] = rs[i]
      BY <2>1, Appended
    <3>3. Topics(c)' = Topics(c)
      BY <1>1 DEF Topics
    <3> QED BY <2>1, <3>1, <3>2, <3>3 DEF Done
  <2>3. \A i \in 1..Done(c) : rs[i] \in Promise!TopicData(Topics(c)[i], view)
    BY DEF Kept, Keeps, Building, TopicsBuilt
  <2>4. entry \in Promise!TopicData(Topics(c)[Done(c) + 1], view)
    BY DEF Topic
  <2>5. \A i \in 1..(Done(c) + 1) : i \in 1..Done(c) \/ i = Done(c) + 1
    BY <2>1
  <2>6. \A i \in 1..(Done(c) + 1) : body'[c].responses[i] \in Promise!TopicData(Topics(c)[i], view)
    BY <2>2, <2>3, <2>4, <2>5
  <2> QED BY <1>1, <2>2, <2>6 DEF TopicsBuilt
<1>9. Building(c)'
  BY <1>4, <1>8 DEF Building, PartsBuilt, LogOpen, Built
<1> QED BY <1>1, <1>4, <1>5, <1>6, <1>7, <1>9 DEF Kept, LoadsOnce, Keeps

(* In a fetch that has a topic to answer, the catalogue is there.          *)
LEMMA FetchAt ==
  ASSUME ServerAssumption, IInv, Kept, NEW c \in Client, Fetching(c)
  PROVE  /\ Topics(c) \in Seq([id : Id, partitions : Seq(Pid)]) /\ Len(Topics(c)) \in Nat
         /\ Done(c) \in Nat /\ Done(c) <= Len(Topics(c)) /\ body[c] \in FetchResponse
         /\ req[c].body.api = "FETCH"
         /\ Done(c) < Len(Topics(c)) => view # Unloaded
<1>1. InRange(c) /\ req[c].body \in FetchRequest /\ Done(c) <= Len(Topics(c))
  BY DEF IInv, LoopsInRange, InRange
<1>2. req[c].body.api = "FETCH"
  BY <1>1 DEF FetchRequest
<1>3. Topics(c) \in Seq([id : Id, partitions : Seq(Pid)]) /\ Done(c) \in Nat /\ body[c] \in FetchResponse
  BY FetchFacts DEF IInv
<1>4. ASSUME Done(c) < Len(Topics(c)) PROVE view # Unloaded
  <2>1. Topics(c) # <<>>
    BY <1>3, <1>4
  <2>2. Promise!NeedsCatalogue(req[c].body)
    BY <1>2, <2>1 DEF Promise!NeedsCatalogue, Topics
  <2> QED BY <2>2 DEF Kept, Keeps, Catalogued, Fetching
<1> QED BY <1>1, <1>2, <1>3, <1>4

(* Past the open of a topic's first log: what is known of its partitions.  *)
LEMMA PartsSoFar ==
  ASSUME ServerAssumption, IInv, Kept, NEW c \in Client, at[c] \in {"open", "slurp"}
  PROVE  /\ Done(c) < Len(Topics(c)) /\ Fetching(c) /\ view # Unloaded
         /\ Topic(c).partitions \in Seq(Pid) /\ Topic(c).id \in DOMAIN view.names
         /\ parts[c] \in Seq(PartitionData) /\ Len(parts[c]) \in Nat /\ Len(Topic(c).partitions) \in Nat
         /\ \A i \in 1..Len(parts[c]) : LogIn(Topic(c), view, i) \in LogFile
         /\ parts[c] = FirstParts(Topic(c), view, Len(parts[c]))
<1>1. Fetching(c) /\ Done(c) < Len(Topics(c)) /\ PartsBuilt(c)
  BY DEF Fetching, IInv, LoopsInRange, InRange, Kept, Keeps, Building
<1>2. Topic(c).partitions \in Seq(Pid)
  BY <1>1, FetchFacts DEF IInv
<1>3. parts[c] \in Seq(PartitionData)
  BY DEF IInv, TypeOK, ThreadTypes
<1>4. \A i \in 1..Len(parts[c]) :
        /\ LogIn(Topic(c), view, i) \in LogFile
        /\ parts[c][i] = [index |-> Topic(c).partitions[i], error |-> "NONE", records |-> LogIn(Topic(c), view, i)]
  BY <1>1 DEF PartsBuilt, LogOf, LogIn
<1>5. parts[c] = [i \in 1..Len(parts[c]) |-> parts[c][i]] /\ Len(parts[c]) \in Nat
  BY <1>3
<1>6. parts[c] = FirstParts(Topic(c), view, Len(parts[c]))
  BY <1>4, <1>5 DEF FirstParts
<1>7. Topic(c).id \in DOMAIN view.names /\ view # Unloaded
  BY <1>1, FetchAt DEF PartsBuilt
<1>8. \A i \in 1..Len(parts[c]) : LogIn(Topic(c), view, i) \in LogFile
  BY <1>4
<1>9. Len(Topic(c).partitions) \in Nat
  BY <1>2
<1>10. Len(parts[c]) \in Nat
  BY <1>3
<1> QED BY ONLY <1>1, <1>2, <1>3, <1>6, <1>7, <1>8, <1>9, <1>10

LEMMA GoOnKeeps ==
  ASSUME ServerAssumption, IInv, Kept, NEW c \in Client, Fetching(c),
         NEW label \in {"open", "write"}, GoTo(c, label),
         Catalogued(c)', Building(c)'
  PROVE  Kept'
<1>1. /\ at' = [at EXCEPT ![c] = label]
      /\ UNCHANGED <<view, fdt, lfd, req, body, parts, conn, sent, taken, replies>>
  BY DEF GoTo, client
<1>2. at'[c] = label
      /\ \A d \in Client \ {c} : UNCHANGED <<at[d], req[d], body[d], parts[d], taken[d], replies[d], lfd[d]>>
  BY <1>1 DEF IInv, TypeOK, ThreadTypes
<1>3. \A d \in Client \ {c} : Keeps(d)'
  BY <1>1, <1>2, OthersKeep
<1>4. Asks(c)' /\ Served(c)'
  BY <1>1, <1>2, StaysBusy DEF Kept, Busy, Fetching
<1> QED BY <1>1, <1>2, <1>3, <1>4 DEF Kept, LoadsOnce, Keeps

LEMMA FetchTopicKeeps ==
  ASSUME ServerAssumption, IInv, Kept, NEW c \in Client, FetchTopic(c)
  PROVE  Kept'
<1>1. at[c] = "fetch" /\ Fetching(c) /\ Done(c) < Len(Topics(c))
  BY DEF FetchTopic, Fetching
<1>2. view # Unloaded
  BY <1>1, FetchAt
<1>3. CASE Topic(c).id \in DOMAIN view.names
  <2>1. GoTo(c, "open")
    BY <1>3 DEF FetchTopic
  <2>2. at' = [at EXCEPT ![c] = "open"] /\ UNCHANGED <<view, req, body, parts>>
    BY <2>1 DEF GoTo
  <2>3. at'[c] = "open"
    BY <2>2 DEF IInv, TypeOK, ThreadTypes
  <2>4. parts[c] = <<>>
    BY <1>1 DEF IInv, LoopsInRange, InRange
  <2>5. Done(c)' = Done(c) /\ Topics(c)' = Topics(c) /\ Topic(c)' = Topic(c)
    BY <2>2 DEF Done, Topics, Topic
  <2>6. TopicsBuilt(c)'
    BY <1>1, <2>2, <2>5 DEF TopicsBuilt, Kept, Keeps, Building
  <2>7. PartsBuilt(c)'
    BY <1>3, <2>2, <2>4, <2>5 DEF PartsBuilt
  <2>8. Building(c)'
    BY <2>3, <2>6, <2>7 DEF Building, LogOpen, Built
  <2>9. Catalogued(c)'
    BY <1>2, <2>2 DEF Catalogued
  <2> QED BY <1>1, <2>1, <2>8, <2>9, GoOnKeeps
<1>4. CASE Topic(c).id \notin DOMAIN view.names
  <2>1. EndTopic(c, <<UnknownTopicId>>)
    BY <1>4 DEF FetchTopic
  <2> QED BY <1>1, <1>2, <1>4, <2>1, UnknownTopic, EndTopicKeeps
<1> QED BY <1>3, <1>4

LEMMA OpenFailsKeeps ==
  ASSUME ServerAssumption, IInv, Kept, NEW c \in Client, OpenFails(c)
  PROVE  Kept'
<1>1. at[c] = "open" /\ EndTopic(c, Append(parts[c], UnknownTopicId))
      /\ Len(parts[c]) < Len(Topic(c).partitions)
  BY DEF OpenFails
<1>2. [id |-> Topic(c).id, partitions |-> Append(parts[c], UnknownTopicId)]
        \in Promise!TopicData(Topic(c), view)
  BY <1>1, PartsSoFar, CutTopic
<1> QED BY <1>1, <1>2, PartsSoFar, EndTopicKeeps

LEMMA TopicDoneKeeps ==
  ASSUME ServerAssumption, IInv, Kept, NEW c \in Client, TopicDone(c)
  PROVE  Kept'
<1>1. at[c] = "open" /\ EndTopic(c, parts[c]) /\ Len(parts[c]) = Len(Topic(c).partitions)
  BY DEF TopicDone
<1>2. [id |-> Topic(c).id, partitions |-> parts[c]] \in Promise!TopicData(Topic(c), view)
  BY <1>1, PartsSoFar, WholeTopic
<1> QED BY <1>1, <1>2, PartsSoFar, EndTopicKeeps

LEMMA FetchDoneKeeps ==
  ASSUME ServerAssumption, IInv, Kept, NEW c \in Client, FetchDone(c)
  PROVE  Kept'
<1>1. at[c] = "fetch" /\ Fetching(c) /\ Done(c) = Len(Topics(c)) /\ GoTo(c, "write")
  BY DEF FetchDone, Fetching
<1>2. at' = [at EXCEPT ![c] = "write"] /\ UNCHANGED <<view, req, body, parts>>
  BY <1>1 DEF GoTo
<1>3. at'[c] = "write"
  BY <1>2 DEF IInv, TypeOK, ThreadTypes
<1> DEFINE q == req[c].body
           rs == body[c].responses
<1>4. Topics(c) \in Seq([id : Id, partitions : Seq(Pid)]) /\ body[c] \in FetchResponse /\ q.api = "FETCH"
  BY <1>1, FetchAt
<1>5. DOMAIN q.topics = 1..Len(Topics(c))
  BY <1>4 DEF Topics
<1>6. body[c] = [responses |-> rs] /\ rs \in Seq([id : Id, partitions : Seq(PartitionData)])
  BY <1>4 DEF FetchResponse
<1>7. rs \in [DOMAIN q.topics -> [id : Id, partitions : Seq(PartitionData)]]
  <2>1. Len(rs) = Len(Topics(c))
    BY <1>1 DEF Done
  <2>2. rs \in [1..Len(rs) -> [id : Id, partitions : Seq(PartitionData)]]
    BY <1>6, Indexed
  <2> QED BY <1>5, <2>1, <2>2
<1>8. \A i \in DOMAIN q.topics : rs[i] \in Promise!TopicData(q.topics[i], view)
  BY <1>1, <1>5 DEF Kept, Keeps, Building, TopicsBuilt, Topics
<1>9. body[c] \in Promise!Answers(q, view)
  <2> HIDE DEF rs, q
  <2>1. [responses |-> rs] \in Promise!Answers(q, view)
    BY <1>4, <1>7, <1>8, FetchAnswer
  <2> QED BY <1>6, <2>1
<1>10. Building(c)'
  BY <1>2, <1>3, <1>9 DEF Building, TopicsBuilt, PartsBuilt, LogOpen, Built, Fetching
<1>11. Catalogued(c)'
  BY <1>1, <1>2 DEF Catalogued, Kept, Keeps
<1> QED BY <1>1, <1>10, <1>11, GoOnKeeps

LEMMA OpenLogKeeps ==
  ASSUME ServerAssumption, IInv, Kept, NEW c \in Client, OpenLog(c)
  PROVE  Kept'
<1>1. PICK fd \in FreeFds : fdt' = [fdt EXCEPT ![fd] = Log(c)] /\ lfd' = [lfd EXCEPT ![c] = fd]
  BY DEF OpenLog
<1>2. at[c] = "open" /\ at' = [at EXCEPT ![c] = "slurp"]
      /\ UNCHANGED <<view, req, body, parts, conn, sent, taken, replies>>
  BY DEF OpenLog, client
<1>3. at'[c] = "slurp" /\ fdt'[lfd'[c]] = Log(c)
      /\ \A d \in Client \ {c} : UNCHANGED <<at[d], req[d], body[d], parts[d], taken[d], replies[d], lfd[d]>>
  BY <1>1, <1>2 DEF IInv, TypeOK, ThreadTypes, ProcessTypes, FreeFds
<1>4. \A d \in Client \ {c} : Keeps(d)'
  BY <1>1, <1>2, <1>3, OthersKeep
<1>5. Asks(c)' /\ Served(c)'
  BY <1>2, <1>3, StaysBusy DEF Kept, Busy
<1>6. Done(c)' = Done(c) /\ Topics(c)' = Topics(c) /\ Topic(c)' = Topic(c) /\ Log(c)' = Log(c)
      /\ \A i : LogOf(c, i)' = LogOf(c, i)
  BY <1>2 DEF Done, Topics, Topic, Log, Partition, LogOf
<1>7. TopicsBuilt(c)' /\ PartsBuilt(c)'
  BY <1>2, <1>6 DEF Kept, Keeps, Building, TopicsBuilt, PartsBuilt, Fetching
<1>8. Building(c)'
  BY <1>3, <1>6, <1>7 DEF Building, LogOpen, Built
<1>9. Catalogued(c)'
  BY <1>2, PartsSoFar DEF Catalogued
<1> QED BY <1>2, <1>3, <1>4, <1>5, <1>8, <1>9 DEF Kept, LoadsOnce, Keeps

LEMMA ReadLogKeeps ==
  ASSUME ServerAssumption, IInv, Kept, NEW c \in Client, ReadLog(c)
  PROVE  Kept'
<1> DEFINE data == make_partition_data(c)
           k    == Len(parts[c])
<1>1. /\ at[c] = "slurp" /\ at' = [at EXCEPT ![c] = "open"]
      /\ parts' = [parts EXCEPT ![c] = Append(parts[c], data)]
      /\ fdt' = Closed(lfd[c]) /\ lfd' = [lfd EXCEPT ![c] = None]
      /\ UNCHANGED <<view, req, body, conn, sent, taken, replies>>
  BY DEF ReadLog, client
<1>2. fdt' = fdt \/ \E fd \in FreeFds \cup {lfd[c]} : \E x : fdt' = [fdt EXCEPT ![fd] = x]
  <2>1. fdt' = fdt \/ fdt' = [fdt EXCEPT ![lfd[c]] = Free]
    BY <1>1 DEF Closed
  <2> QED BY <2>1
<1>3. at'[c] = "open" /\ parts'[c] = Append(parts[c], data)
      /\ \A d \in Client \ {c} : UNCHANGED <<at[d], req[d], body[d], parts[d], taken[d], replies[d], lfd[d]>>
  BY <1>1 DEF IInv, TypeOK, ThreadTypes
<1>4. \A d \in Client \ {c} : Keeps(d)'
  BY <1>1, <1>2, <1>3, OthersKeep
<1>5. Asks(c)' /\ Served(c)'
  BY <1>1, <1>3, StaysBusy DEF Kept, Busy
<1>6. Done(c)' = Done(c) /\ Topics(c)' = Topics(c) /\ Topic(c)' = Topic(c) /\ \A i : LogOf(c, i)' = LogOf(c, i)
  BY <1>1 DEF Done, Topics, Topic, LogOf
<1>7. TopicsBuilt(c)'
  BY <1>1, <1>6 DEF Kept, Keeps, Building, TopicsBuilt, Fetching
<1>8. LogOf(c, k + 1) \in LogFile
      /\ data = [index |-> Topic(c).partitions[k + 1], error |-> "NONE", records |-> LogOf(c, k + 1)]
  <2>1. fdt[lfd[c]] = Log(c) /\ fdt[lfd[c]] \in LogFile
    BY <1>1 DEF Kept, Keeps, Building, LogOpen, IInv, Owns, LogOwns
  <2>2. Log(c) = LogOf(c, k + 1)
    BY DEF Log, LogOf, Partition
  <2> QED BY <2>1, <2>2 DEF make_partition_data, Partition
<1>9. PartsBuilt(c)'
  <2> DEFINE Known(i, p) == /\ LogOf(c, i) \in LogFile
                            /\ p = [index |-> Topic(c).partitions[i], error |-> "NONE", records |-> LogOf(c, i)]
  <2>1. Topic(c).id \in DOMAIN view.names /\ \A i \in 1..k : Known(i, parts[c][i])
    BY <1>1 DEF Kept, Keeps, Building, PartsBuilt
  <2>2. Known(k + 1, data)
    BY <1>8
  <2>3. parts[c] \in Seq(PartitionData)
    BY DEF IInv, TypeOK, ThreadTypes
  <2>4. k \in Nat /\ Len(parts'[c]) = k + 1 /\ parts'[c][k + 1] = data /\ \A i \in 1..k : parts'[c][i] = parts[c][i]
    <3> HIDE DEF data
    <3> QED BY <1>3, <2>3, Appended
  <2>5. \A i \in 1..(k + 1) : i \in 1..k \/ i = k + 1
    BY <2>4
  <2> HIDE DEF Known, data
  <2>6. \A i \in 1..(k + 1) : Known(i, parts'[c][i])
    BY <2>1, <2>2, <2>4, <2>5
  <2>7. Topic(c).id \in DOMAIN view.names /\ \A i \in 1..Len(parts'[c]) : Known(i, parts'[c][i])
    BY <2>1, <2>4, <2>6
  <2> QED BY <1>1, <1>6, <2>7 DEF PartsBuilt, Known
<1>10. Building(c)'
  BY <1>3, <1>7, <1>9 DEF Building, LogOpen, Built
<1>11. Catalogued(c)'
  BY <1>1, PartsSoFar DEF Catalogued
<1> QED BY <1>1, <1>3, <1>4, <1>5, <1>10, <1>11 DEF Kept, LoadsOnce, Keeps

(* The reply a thread writes is the next one of its own connection.        *)
LEMMA ReplyIsNext ==
  ASSUME ServerAssumption, IInv, Kept, NEW c \in Client, at[c] = "write"
  PROVE  /\ Peer(c) = c /\ conn[c] \in {"open", "closed"}
         /\ [corr |-> req[c].corr, body |-> body[c]] \in Reply
         /\ req[c] = sent[c][taken[c]] /\ taken[c] \in Nat /\ taken[c] <= Len(sent[c])
         /\ body[c] \in Promise!Answers(req[c].body, view)
         /\ Promise!NeedsCatalogue(req[c].body) => view # Unloaded
         /\ conn[c] = "open" => Len(replies[c]) + 1 = taken[c]
<1>1. cfd[c] \in Fd /\ fdt[cfd[c]] = c
  BY DEF IInv, Owns, ThreadOwns
<1>2. Peer(c) = c
  BY <1>1 DEF Peer, Opened
<1>3. conn[c] \in {"open", "closed"}
  BY <1>1 DEF IInv, Owns, Unconnected, TypeOK, ClientTypes
<1>4. Busy(c)
  BY DEF Busy
<1>5. body[c] \in Promise!Answers(req[c].body, view)
  BY DEF Kept, Keeps, Building, Built
<1>6. [corr |-> req[c].corr, body |-> body[c]] \in Reply
  <2>1. req[c].body \in Request /\ req[c].corr \in Nat
    BY <1>4, AtRequest
  <2>2. view \in Catalogues
    BY DEF IInv, TypeOK, ProcessTypes, Catalogues
  <2>3. body[c] \in UNION {Promise!Answers(r, v) : r \in Request, v \in Catalogues}
    BY <1>5, <2>1, <2>2
  <2> QED BY <2>1, <2>3 DEF Reply
<1>7. req[c] = sent[c][taken[c]] /\ taken[c] <= Len(sent[c])
      /\ (conn[c] # "closed" => Len(replies[c]) + 1 = taken[c])
  BY <1>4 DEF Kept, Keeps, Asks
<1>8. taken[c] \in Nat
  BY DEF IInv, TypeOK, ClientTypes
<1>9. Promise!NeedsCatalogue(req[c].body) => view # Unloaded
  BY DEF Kept, Keeps, Catalogued
<1> QED BY <1>2, <1>3, <1>5, <1>6, <1>7, <1>8, <1>9

LEMMA WriteKeeps ==
  ASSUME ServerAssumption, IInv, Kept, NEW c \in Client, WriteResponse(c)
  PROVE  Kept'
<1> DEFINE reply == [corr |-> req[c].corr, body |-> body[c]]
           k     == Len(replies[c])
<1>1. at[c] = "write" /\ at' = [at EXCEPT ![c] = "read"]
      /\ req' = [req EXCEPT ![c] = None] /\ body' = [body EXCEPT ![c] = None]
      /\ UNCHANGED <<view, fdt, lfd, parts, conn, sent, taken>>
  BY DEF WriteResponse
<1>2. replies' = IF conn[c] = "open" THEN [replies EXCEPT ![c] = Append(replies[c], reply)] ELSE replies
  BY <1>1, ReplyIsNext DEF WriteResponse
<1>3. at'[c] = "read"
      /\ \A d \in Client \ {c} : UNCHANGED <<at[d], req[d], body[d], parts[d], taken[d], replies[d], lfd[d]>>
  BY <1>1, <1>2 DEF IInv, TypeOK, ThreadTypes, BodyTypes, ClientTypes
<1>4. \A d \in Client \ {c} : Keeps(d)'
  BY <1>1, <1>3, OthersKeep
<1>5. ~Busy(c)' /\ Catalogued(c)' /\ Building(c)'
  BY <1>3 DEF Busy, Catalogued, Building, TopicsBuilt, PartsBuilt, LogOpen, Built, Fetching
<1>6. Asks(c) /\ Served(c) /\ Busy(c)
  BY <1>1 DEF Kept, Keeps, Busy
<1>7. CASE conn[c] = "open"
  <2>1. replies[c] \in Seq(Reply) /\ k \in Nat /\ k + 1 = taken[c] /\ reply \in Reply
    <3>1. replies[c] \in Seq(Reply)
      BY <1>6 DEF Asks
    <3>2. k + 1 = taken[c] /\ reply \in Reply
      BY <1>1, <1>7, ReplyIsNext
    <3>3. k \in Nat
      BY <3>1
    <3> QED BY <3>1, <3>2, <3>3
  <2>2. replies'[c] = Append(replies[c], reply)
    BY <1>2, <1>7 DEF IInv, TypeOK, ClientTypes
  <2>3. replies'[c] \in Seq(Reply) /\ Len(replies'[c]) = k + 1 /\ replies'[c][k + 1] = reply
        /\ \A i \in 1..k : replies'[c][i] = replies[c][i]
    <3> HIDE DEF reply
    <3> QED BY <2>1, <2>2, Appended
  <2>4. Asks(c)'
    BY <1>1, <1>5, <1>6, <2>1, <2>3 DEF Asks
  <2>5. Served(c)'
    <3> DEFINE Fits(i, b) == /\ b \in Promise!Answers(sent[c][i].body, view)
                             /\ Promise!NeedsCatalogue(sent[c][i].body) => view # Unloaded
    <3>1. \A i \in 1..k : Fits(i, replies[c][i].body)
      BY <1>6 DEF Served
    <3>2. Fits(k + 1, body[c])
      BY <1>1, <2>1, ReplyIsNext
    <3>3. \A i \in 1..(k + 1) : i \in 1..k \/ i = k + 1
      BY <2>1
    <3>6. replies'[c][k + 1].body = body[c]
      BY <2>3
    <3> HIDE DEF Fits
    <3>4. \A i \in 1..(k + 1) : Fits(i, replies'[c][i].body)
      BY <2>3, <3>1, <3>2, <3>3, <3>6
    <3>5. \A i \in 1..Len(replies'[c]) : Fits(i, replies'[c][i].body)
      BY <2>3, <3>4
    <3> QED BY <1>1, <3>5 DEF Served, Fits
  <2> QED BY <1>1, <1>3, <1>4, <1>5, <2>4, <2>5 DEF Kept, LoadsOnce, Keeps
<1>8. CASE conn[c] = "closed"
  <2>1. replies' = replies
    BY <1>2, <1>8
  <2>2. Asks(c)' /\ Served(c)'
    BY <1>1, <1>5, <1>6, <1>8, <2>1 DEF Asks, Served
  <2> QED BY <1>1, <1>3, <1>4, <1>5, <2>2 DEF Kept, LoadsOnce, Keeps
<1> QED BY <1>1, <1>7, <1>8, ReplyIsNext

LEMMA KeptStep ==
  ASSUME ServerAssumption, IInv, Kept, Next
  PROVE  Kept'
<1>1. CASE Environment
  BY <1>1, KeptOutside
<1>2. CASE MainStep
  BY <1>2, KeptLoop
<1>3. ASSUME NEW c \in Client, serve_client(c) PROVE Kept'
  <2>1. CASE ReadRequest(c) \/ WriteResponse(c)
    BY <2>1, ReadKeeps, WriteKeeps
  <2>2. CASE handle_api_versions(c) \/ handle_describe_topic_partitions(c) \/ handle_fetch(c)
    BY <2>2, HandlersKeep, HandleFetchKeeps
  <2>3. CASE OpenMetadata(c) \/ LoadMetadata(c)
    BY <2>3, OpenMetadataKeeps, LoadKeeps
  <2>4. CASE FetchTopic(c) \/ FetchDone(c) \/ OpenFails(c) \/ TopicDone(c)
    BY <2>4, FetchTopicKeeps, FetchDoneKeeps, OpenFailsKeeps, TopicDoneKeeps
  <2>5. CASE OpenLog(c) \/ ReadLog(c)
    BY <2>5, OpenLogKeeps, ReadLogKeeps
  <2>6. CASE Crash(c)
    BY <2>6, NothingKept DEF Crash
  <2> QED BY <1>3, <2>1, <2>2, <2>3, <2>4, <2>5, <2>6 DEF serve_client
<1> QED BY <1>1, <1>2, <1>3 DEF Next

(* What a thread knows of its request and of its reply holds in every      *)
(* interleaving of the threads, the loop, the clients and the log.         *)
THEOREM KeptAlways == Spec => []Kept
<1>1. Init => Kept
  <2> SUFFICES ASSUME Init, NEW c \in Client PROVE Keeps(c)
    BY DEF Init, Kept, LoadsOnce
  <2>1. at[c] = "none" /\ taken[c] = 0 /\ replies[c] = <<>> /\ sent[c] = <<>>
    BY DEF Init
  <2>2. <<>> \in Seq(Reply) /\ Len(<<>>) = 0
    OBVIOUS
  <2>3. Asks(c)
    BY <2>1, <2>2 DEF Asks, Busy
  <2> QED BY <2>1, <2>2, <2>3 DEF Keeps, Catalogued, Served, Building, TopicsBuilt, PartsBuilt, LogOpen,
               Built, Fetching
<1>2. ASSUME IInv, Kept, UNCHANGED vars PROVE Kept'
  <2>1. UNCHANGED <<view, fdt, at, lfd, req, body, parts, conn, sent, taken, replies>>
    BY <1>2 DEF vars, thread, client
  <2> QED BY <1>2, <2>1, NotMoved DEF Kept, LoadsOnce
<1>3. IInv /\ Kept /\ [Next]_vars => Kept'
  BY <1>2, KeptStep, ServerAssumption
<1> QED BY <1>1, <1>3, Inductive, PTL DEF Spec

-----------------------------------------------------------------------------
(* Every step is one of the abstract broker's, or changes nothing it sees. *)

LEMMA Unseen ==
  ASSUME NEW c \in Client,
         \/ ReadRequest(c) \/ handle_api_versions(c) \/ handle_describe_topic_partitions(c)
         \/ handle_fetch(c) \/ OpenMetadata(c) \/ FetchTopic(c) \/ FetchDone(c) \/ OpenLog(c)
         \/ OpenFails(c) \/ ReadLog(c) \/ TopicDone(c)
  PROVE  UNCHANGED Promise!vars
<1>1. CASE ReadRequest(c)
  BY <1>1 DEF ReadRequest, disk, Promise!vars
<1>2. CASE handle_api_versions(c) \/ handle_describe_topic_partitions(c) \/ handle_fetch(c)
  BY <1>2 DEF handle_api_versions, handle_describe_topic_partitions, handle_fetch, Respond, disk, client,
              Promise!vars
<1>3. CASE OpenMetadata(c) \/ OpenLog(c) \/ ReadLog(c)
  BY <1>3 DEF OpenMetadata, OpenLog, ReadLog, disk, client, Promise!vars
<1>4. CASE FetchTopic(c) \/ FetchDone(c) \/ OpenFails(c) \/ TopicDone(c)
  BY <1>4 DEF FetchTopic, FetchDone, OpenFails, TopicDone, GoTo, EndTopic, disk, client, Promise!vars
<1> QED BY <1>1, <1>2, <1>3, <1>4

LEMMA Answering ==
  ASSUME ServerAssumption, IInv, Kept, NEW c \in Client, WriteResponse(c)
  PROVE  Promise!Answer(c) \/ UNCHANGED Promise!vars
<1>1. at[c] = "write" /\ UNCHANGED <<written, view, sent>>
  BY DEF WriteResponse, disk
<1>2. Peer(c) = c
  BY <1>1, ReplyIsNext
<1>3. CASE conn[c] = "open"
  <2>1. Len(replies[c]) + 1 = taken[c] /\ taken[c] <= Len(sent[c]) /\ req[c] = sent[c][taken[c]]
    BY <1>1, <1>3, ReplyIsNext
  <2>2. Len(replies[c]) \in Nat /\ Len(sent[c]) \in Nat
    BY DEF Kept, Keeps, Asks, IInv, TypeOK, ClientTypes
  <2>3. Len(replies[c]) < Len(sent[c])
    BY <2>1, <2>2
  <2>4. sent[c][Len(replies[c]) + 1] = req[c]
    BY <2>1
  <2>5. replies' = [replies EXCEPT ![c] = Append(replies[c], [corr |-> req[c].corr, body |-> body[c]])]
    BY <1>2, <1>3 DEF WriteResponse
  <2>6. body[c] \in Promise!Answers(req[c].body, view)
        /\ (Promise!NeedsCatalogue(req[c].body) => view # Unloaded)
    BY <1>1, ReplyIsNext
  <2> QED BY <1>1, <2>3, <2>4, <2>5, <2>6 DEF Promise!Answer
<1>4. CASE conn[c] # "open"
  BY <1>1, <1>2, <1>4 DEF WriteResponse, Promise!vars
<1> QED BY <1>3, <1>4

LEMMA Dying ==
  ASSUME Terminate
  PROVE  Promise!Die
BY DEF Terminate, disk, Promise!Die

LEMMA LoadsPromise ==
  ASSUME IInv, Kept, NEW c \in Client, LoadMetadata(c)
  PROVE  Promise!Load
<1>1. view = Unloaded /\ view' = Promise!Snapshot(written) /\ UNCHANGED <<written, sent, replies>>
  BY SameSnapshot DEF LoadMetadata, Kept, LoadsOnce, disk, client
<1> QED BY <1>1 DEF Promise!Load

LEMMA PromisedStep ==
  ASSUME ServerAssumption, IInv, Kept, Next
  PROVE  Promise!Next \/ UNCHANGED Promise!vars
<1>1. CASE Start
  BY <1>1 DEF Start, disk, client, Promise!vars
<1>2. CASE LogAppend
  BY <1>2 DEF LogAppend, client, Promise!Write, Promise!Next
<1>3. ASSUME NEW c \in Client, Connect(c) \/ Depart(c) PROVE UNCHANGED Promise!vars
  BY <1>3 DEF Connect, Depart, disk, Promise!vars
<1>4. ASSUME NEW c \in Client, NEW r \in Request, Send(c, r) PROVE Promise!Next
  BY <1>4 DEF Send, disk, Promise!Ask, Promise!Next
<1>5. CASE MainStep
  <2>1. CASE StartThrows
    BY <2>1, Dying DEF StartThrows, Promise!Next
  <2>2. CASE Accept \/ AcceptAborted \/ Spawn \/ Drop
    BY <2>2 DEF Accept, AcceptAborted, Spawn, Drop, disk, client, Promise!vars
  <2> QED BY <1>5, <2>1, <2>2 DEF MainStep
<1>6. ASSUME NEW c \in Client, serve_client(c) PROVE Promise!Next \/ UNCHANGED Promise!vars
  <2>1. CASE LoadMetadata(c)
    BY <2>1, LoadsPromise DEF Promise!Next
  <2>2. CASE WriteResponse(c)
    BY <2>2, Answering DEF Promise!Next
  <2>3. CASE Crash(c)
    BY <2>3, Dying DEF Crash, Promise!Next
  <2> QED BY <1>6, <2>1, <2>2, <2>3, Unseen DEF serve_client
<1> QED BY <1>1, <1>2, <1>3, <1>4, <1>5, <1>6 DEF Next, Environment

(* Whatever the interleaving, what the clients see is what the abstract    *)
(* broker promises: answers in request order, to the connection that       *)
(* asked, with its correlation id and from the one catalogue of the        *)
(* process (server.cpp:55-172).                                            *)
THEOREM KeepsThePromise == Spec => ImplementsBroker
<1>1. Init => Promise!Init
  BY DEF Init, Promise!Init
<1>2. IInv /\ Kept /\ [Next]_vars => [Promise!Next]_Promise!vars
  <2>1. ASSUME UNCHANGED vars PROVE UNCHANGED Promise!vars
    BY <2>1 DEF vars, disk, client, Promise!vars
  <2> QED BY <2>1, PromisedStep, ServerAssumption
<1> QED BY <1>1, <1>2, Inductive, KeptAlways, PTL DEF Spec, Promise!Spec, ImplementsBroker

-----------------------------------------------------------------------------
(* A topic entry of a describe reply is what the catalogue says of its name. *)
LEMMA DescribedIs ==
  ASSUME IInv, Kept, NEW c \in Client, NEW t \in Described(c)
  PROVE  t = Promise!TopicDescription(t.name, view)
<1>1. PICK i \in DOMAIN replies[c] :
        sent[c][i].body.api = "DESCRIBE_TOPIC_PARTITIONS" /\ t \in ToSet(replies[c][i].body.topics)
  BY DEF Described
<1> DEFINE q == sent[c][i].body
           b == replies[c][i].body
<1>2. i \in 1..Len(replies[c])
  BY <1>1 DEF Kept, Keeps, Asks
<1>3. b \in Promise!Answers(q, view)
  BY <1>2 DEF Kept, Keeps, Served
<1>4. b = [topics |-> [j \in DOMAIN q.names |-> Promise!TopicDescription(q.names[j], view)]]
  <2>1. q.api = "DESCRIBE_TOPIC_PARTITIONS"
    BY <1>1
  <2> HIDE DEF q, b
  <2> QED BY <1>3, <2>1 DEF Promise!Answers
<1>5. PICK j \in DOMAIN q.names : t = Promise!TopicDescription(q.names[j], view)
  <2>1. t \in ToSet(b.topics)
    BY <1>1
  <2> HIDE DEF q, b
  <2> QED BY <1>4, <2>1 DEF ToSet
<1>6. \A n : Promise!TopicDescription(n, view).name = n
  BY DEF Promise!TopicDescription
<1> QED BY <1>5, <1>6

(* In one life of the process no two clients are told different things of  *)
(* a topic, and neither is one client twice (cluster_metadata.hpp:133-136). *)
THEOREM AllToldTheSame == Spec => []DescribeAgree
<1>1. IInv /\ Kept => DescribeAgree
  <2> SUFFICES ASSUME IInv, Kept, NEW c \in Client, NEW d \in Client,
                      NEW t \in Described(c), NEW u \in Described(d), t.name = u.name
               PROVE  t = u
    BY DEF DescribeAgree
  <2>1. t = Promise!TopicDescription(t.name, view) /\ u = Promise!TopicDescription(u.name, view)
    BY DescribedIs
  <2> QED BY <2>1
<1> QED BY <1>1, Inductive, KeptAlways, PTL
=============================================================================
