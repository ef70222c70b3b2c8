------------------------------ MODULE MCServer ------------------------------
(***************************************************************************)
(* Instances of Server for TLC: metadata logs, requests and symmetries.    *)
(***************************************************************************)
EXTENDS Server, TLC

CONSTANTS u1, u2    \* two topic ids

T(n, u) == [type |-> "topic", name |-> n, id |-> u]
P(p, u) == [type |-> "partition", id |-> u, pid |-> p]
Skip    == [type |-> "skipped"]
Short   == [type |-> "short"]

Fetch(ts)      == [api |-> "FETCH", topics |-> ts]
Wants(u, ps)   == [id |-> u, partitions |-> ps]
Describe(ns)   == [api |-> "DESCRIBE_TOPIC_PARTITIONS", names |-> ns]
ApiVersions(v) == [api |-> "API_VERSIONS", version |-> v]
Malformed      == [api |-> "MALFORMED"]

Names == {"foo", "bar"}

(* foo with two partitions; then foo deleted, created again with another   *)
(* id and one partition.                                                   *)
RecreatedLog  == <<T("foo", u1), P(0, u1), P(1, u1), Skip, T("foo", u2), P(0, u2)>>
RecreatedEnds == {3, 6}
FirstBatch    == {3}

(* foo complete, then a batch with only the topic record of bar, then its  *)
(* partition.                                                              *)
HalfTopicLog  == <<T("foo", u1), P(0, u1), T("bar", u2), P(0, u2)>>
HalfTopicEnds == {2, 3, 4}

(* A batch with a record the constructor cannot read.                      *)
ShortLog  == <<T("foo", u1), P(0, u1), Short>>
ShortEnds == {2, 3}

FooLogs == {MetaFile, <<"foo", 0>>, <<"foo", 1>>}

(* Partition 1 of foo has no log: the fetch is cut short there.            *)
PartLogs == {MetaFile, <<"foo", 0>>}

(* What contends for descriptors: a fetch, and a frame that kills.         *)
FdRequests == {Fetch(<<Wants(u1, <<0, 1>>)>>), Malformed}

(* What reads the catalogue: both names, the old id and the new one.       *)
CatalogueRequests ==
  {Describe(<<"foo", "bar">>), Fetch(<<Wants(u1, <<0, 1>>), Wants(u2, <<0>>)>>)}

PeacefulRequests ==
  {Describe(<<"foo">>), ApiVersions(4), Fetch(<<>>), Fetch(<<Wants(u1, <<0, 1>>)>>)}

DescribeBar  == {Describe(<<"bar">>)}
DescribeFoo  == {Describe(<<"foo">>)}
FetchFoo     == {Fetch(<<Wants(u1, <<0, 1>>)>>)}

Symmetric == Permutations(Client) \cup Permutations(Fd)
=============================================================================
