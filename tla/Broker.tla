------------------------------- MODULE Broker -------------------------------
(***************************************************************************)
(* What the broker promises its clients, without threads, descriptors or   *)
(* loops: the requests of a connection are answered in their order, each   *)
(* with a reply the catalogue allows.  The catalogue is the metadata log   *)
(* as it was at one moment of the process's life, the same for everyone.   *)
(***************************************************************************)
EXTENDS Catalog

CONSTANTS Client, LogFile, Request, Unloaded, None

VARIABLES
  written,  \* records of MetaLog on disk
  view,     \* the catalogue of this process life
  sent,     \* requests of each connection
  replies   \* replies on each connection

vars == <<written, view, sent, replies>>

Init ==
  /\ written = 0
  /\ view = Unloaded
  /\ sent = [c \in Client |-> <<>>]
  /\ replies = [c \in Client |-> <<>>]

-----------------------------------------------------------------------------
(* The replies a request may get from the catalogue cat.                   *)

ApiVersionsReply(q) ==
  IF q.version = 4
  THEN [error |-> "NONE",
        keys |-> [FETCH |-> 0..16, API_VERSIONS |-> 0..4, DESCRIBE_TOPIC_PARTITIONS |-> 0..0]]
  ELSE [error |-> "UNSUPPORTED_VERSION", keys |-> <<>>]

TopicDescription(name, cat) ==
  IF name \in DOMAIN cat.ids
  THEN [name |-> name, error |-> "NONE", id |-> cat.ids[name],
        partitions |-> cat.parts[cat.ids[name]]]
  ELSE [name |-> name, error |-> "UNKNOWN_TOPIC_OR_PARTITION", id |-> None,
        partitions |-> <<>>]

(* Either every partition asked for with its own log, or the first few and *)
(* then one UNKNOWN_TOPIC_ID.  A partition that has no log is never served. *)
TopicData(topic, cat) ==
  LET asked     == topic.partitions
      known     == topic.id \in DOMAIN cat.names
      log(i)    == <<cat.names[topic.id], asked[i]>>
      served(k) == [i \in 1..k |-> [index |-> asked[i], error |-> "NONE", records |-> log(i)]]
      refused   == [index |-> 0, error |-> "UNKNOWN_TOPIC_ID", records |-> None]
      readable  == {k \in 0..Len(asked) : known /\ \A i \in 1..k : log(i) \in LogFile}
      complete  == {served(k) : k \in readable \cap {Len(asked)}}
      cut       == {Append(served(k), refused) : k \in readable \ {Len(asked)}}
  IN  {[id |-> topic.id, partitions |-> p] :
         p \in IF known THEN complete \cup cut ELSE {<<refused>>}}

Answers(q, cat) ==
  CASE q.api = "API_VERSIONS" ->
         {ApiVersionsReply(q)}
    [] q.api = "DESCRIBE_TOPIC_PARTITIONS" ->
         {[topics |-> [i \in DOMAIN q.names |-> TopicDescription(q.names[i], cat)]]}
    [] q.api = "FETCH" ->
         {[responses |-> r] :
            r \in {f \in [DOMAIN q.topics -> UNION {TopicData(q.topics[i], cat) : i \in DOMAIN q.topics}] :
                     \A i \in DOMAIN q.topics : f[i] \in TopicData(q.topics[i], cat)}}
    [] OTHER -> {}

NeedsCatalogue(q) ==
  \/ q.api = "FETCH" /\ q.topics # <<>>
  \/ q.api = "DESCRIBE_TOPIC_PARTITIONS" /\ q.names # <<>>

-----------------------------------------------------------------------------
Write ==
  /\ \E n \in BatchEnd : n > written /\ written' = n
  /\ UNCHANGED <<view, sent, replies>>

Load ==
  /\ view = Unloaded
  /\ view' = Snapshot(written)
  /\ UNCHANGED <<written, sent, replies>>

Ask(c) ==
  /\ \E r \in Request : sent' = [sent EXCEPT ![c] = Append(@, [corr |-> Len(@) + 1, body |-> r])]
  /\ UNCHANGED <<written, view, replies>>

Answer(c) ==
  /\ Len(replies[c]) < Len(sent[c])
  /\ LET q == sent[c][Len(replies[c]) + 1]
     IN  /\ NeedsCatalogue(q.body) => view # Unloaded
         /\ \E b \in Answers(q.body, view) :
              replies' = [replies EXCEPT ![c] = Append(@, [corr |-> q.corr, body |-> b])]
  /\ UNCHANGED <<written, view, sent>>

(* The process ends, and its connections with it.                          *)
Die ==
  /\ view' = Unloaded
  /\ sent' = [c \in Client |-> <<>>]
  /\ replies' = [c \in Client |-> <<>>]
  /\ UNCHANGED written

Next == Write \/ Load \/ Die \/ \E c \in Client : Ask(c) \/ Answer(c)

Spec == Init /\ [][Next]_vars
=============================================================================
