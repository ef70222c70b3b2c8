------------------------------ MODULE Catalog ------------------------------
(***************************************************************************)
(* The cluster metadata log and the three maps the broker builds from it   *)
(* (src/metadata/cluster_metadata.cpp).  The log grows by whole record     *)
(* batches; a record is a topic record (type 2 on disk), a partition       *)
(* record (type 3), one of the types the broker skips, one whose value is  *)
(* too short for the fields the constructor reads, or one with a key or a  *)
(* header, at which reading the log stops.                                 *)
(***************************************************************************)
EXTENDS Integers, Sequences, FiniteSets

CONSTANTS
  Name,       \* topic names
  Id,         \* topic UUIDs
  Pid,        \* partition numbers
  MetaLog,    \* the records of the metadata log, in the order they are written
  BatchEnd    \* the lengths of MetaLog at which a record batch ends

TopicRecord     == [type : {"topic"}, name : Name, id : Id]
PartitionRecord == [type : {"partition"}, pid : Pid, id : Id]
SkippedRecord   == [type : {"skipped"}]
ShortRecord     == [type : {"short"}]
KeyedRecord     == [type : {"keyed"}]

MetadataRecord ==
  TopicRecord \cup PartitionRecord \cup SkippedRecord \cup ShortRecord \cup KeyedRecord

ASSUME CatalogAssumption ==
  /\ Pid \subseteq Nat
  /\ MetaLog \in Seq(MetadataRecord)
  /\ BatchEnd \subseteq 0..Len(MetaLog)

(* read_record_batches stops before the first batch it cannot parse.       *)
Parsed(n) ==
  {b \in {0} \cup BatchEnd : b <= n /\ \A i \in 1..b : MetaLog[i].type # "keyed"}

Largest(S) == CHOOSE i \in S : \A j \in S : j <= i

(* How many records it finds when n are on disk.                           *)
Records(n) == Largest(Parsed(n))

(* The constructor throws on a value its fields do not fit in.             *)
Readable(n) == \A i \in 1..Records(n) : MetaLog[i].type # "short"

-----------------------------------------------------------------------------
(* What the constructor leaves in its maps after the first n records.  A   *)
(* later topic record replaces an earlier one with the same key;           *)
(* partition records accumulate in log order.                              *)

OfType(n, type) == {i \in 1..n : MetaLog[i].type = type}

topic_ids(n) ==
  [name \in {MetaLog[i].name : i \in OfType(n, "topic")} |->
     MetaLog[Largest({i \in OfType(n, "topic") : MetaLog[i].name = name})].id]

topic_names(n) ==
  [u \in {MetaLog[i].id : i \in OfType(n, "topic")} |->
     MetaLog[Largest({i \in OfType(n, "topic") : MetaLog[i].id = u})].name]

(* The k-th of some positions, in log order.                               *)
Nth(S, k) == Largest({i \in S : Cardinality({j \in S : j <= i}) = k})

partition_ids(n) ==
  [u \in {MetaLog[i].id : i \in OfType(n, "partition")} |->
     LET own == {i \in OfType(n, "partition") : MetaLog[i].id = u}
     IN  [k \in 1..Cardinality(own) |-> MetaLog[Nth(own, k)].pid]]

(* The catalogue a process that loaded the first n records answers from.   *)
Snapshot(n) ==
  [ids   |-> topic_ids(Records(n)),
   names |-> topic_names(Records(n)),
   parts |-> partition_ids(Records(n))]
=============================================================================
