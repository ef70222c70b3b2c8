-------------------------- MODULE MCClusterMetadata --------------------------
(***************************************************************************)
(* Instances of ClusterMetadata for TLC.                                   *)
(***************************************************************************)
EXTENDS ClusterMetadata, TLC

CONSTANTS foo, u1, u2

T(n, u) == [type |-> "topic", name |-> n, id |-> u]
P(p, u) == [type |-> "partition", id |-> u, pid |-> p]
Skip    == [type |-> "skipped"]
Short   == [type |-> "short"]
Keyed   == [type |-> "keyed"]

(* foo, created again under a second id, and a record nobody can read.     *)
GrowingLog  == <<T(foo, u1), P(0, u1), Skip, P(1, u1), T(foo, u2), P(0, u2), Short>>
GrowingEnds == {2, 5, 6, 7}

(* A batch with a keyed record between two others.                         *)
KeyedLog  == <<T(foo, u1), Keyed, P(0, u1)>>
KeyedEnds == {1, 2, 3}

Symmetric == Permutations(Thread)
=============================================================================
