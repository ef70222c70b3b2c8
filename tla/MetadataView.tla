---------------------------- MODULE MetadataView ----------------------------
(***************************************************************************)
(* What ClusterMetadata promises the threads that use it: one catalogue,   *)
(* complete before anyone sees it and the same ever after, and lookups     *)
(* that take effect at one moment.                                         *)
(***************************************************************************)
EXTENDS Catalog

CONSTANTS Thread, None, Unknown, Unloaded

VARIABLES
  written,  \* records of the metadata log on disk
  view,     \* the catalogue, or Unloaded
  asked,    \* the lookup each thread waits for
  answer    \* what its last lookup returned

vars == <<written, view, asked, answer>>

Key == [get_topic_id |-> Name, get_topic_name |-> Id, get_partition_ids |-> Id]
Lookup == UNION {[op : {op}, key : Key[op]] : op \in DOMAIN Key}

(* The map a lookup searches.                                              *)
Searched(cat, op) ==
  [get_topic_id |-> cat.ids, get_topic_name |-> cat.names, get_partition_ids |-> cat.parts][op]

Found(cat, q) ==
  IF q.key \in DOMAIN Searched(cat, q.op) THEN Searched(cat, q.op)[q.key] ELSE Unknown

Init ==
  /\ written = 0
  /\ view = Unloaded
  /\ asked = [t \in Thread |-> None]
  /\ answer = [t \in Thread |-> None]

Write ==
  /\ \E n \in BatchEnd : n > written /\ written' = n
  /\ UNCHANGED <<view, asked, answer>>

Load ==
  /\ view = Unloaded
  /\ \E n \in {0} \cup BatchEnd : n <= written /\ Readable(n) /\ view' = Snapshot(n)
  /\ UNCHANGED <<written, asked, answer>>

Ask(t) ==
  /\ asked[t] = None
  /\ \E q \in Lookup : asked' = [asked EXCEPT ![t] = q]
  /\ UNCHANGED <<written, view, answer>>

Answer(t) ==
  /\ asked[t] # None
  /\ view # Unloaded
  /\ answer' = [answer EXCEPT ![t] = Found(view, asked[t])]
  /\ asked' = [asked EXCEPT ![t] = None]
  /\ UNCHANGED <<written, view>>

Next == Write \/ Load \/ \E t \in Thread : Ask(t) \/ Answer(t)

Spec == Init /\ [][Next]_vars
=============================================================================
