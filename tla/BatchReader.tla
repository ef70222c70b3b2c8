----------------------------- MODULE BatchReader -----------------------------
(***************************************************************************)
(* What reading a log promises: the batches are delivered whole and in     *)
(* order, and the reading ends where the log ends or a batch does not      *)
(* parse.  ClusterMetadata and Server read logs this way.                  *)
(***************************************************************************)
EXTENDS Integers, Sequences

VARIABLES
  log,             \* the batches of the log, as a reader keeps them
  whole,           \* those that are on disk whole
  sound,           \* those with no batch before them that does not parse
  record_batches,  \* the result
  returned         \* it is complete

vars == <<log, whole, sound, record_batches, returned>>

Init ==
  /\ record_batches = <<>>
  /\ returned = FALSE

(* The controller appends.                                                 *)
Grow ==
  /\ whole \subseteq whole'
  /\ \A k \in whole' : 1..k \subseteq whole'
  /\ UNCHANGED <<log, sound, record_batches, returned>>

Following == Len(record_batches) + 1

Deliver ==
  /\ ~returned
  /\ Following \in whole \cap sound
  /\ record_batches' = Append(record_batches, log[Following])
  /\ UNCHANGED <<log, whole, sound, returned>>

Return ==
  /\ ~returned
  /\ Following \notin whole \cap sound
  /\ returned' = TRUE
  /\ UNCHANGED <<log, whole, sound, record_batches>>

Next == Grow \/ Deliver \/ Return

Spec == Init /\ [][Next]_vars
=============================================================================
