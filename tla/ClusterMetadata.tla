-------------------------- MODULE ClusterMetadata --------------------------
(***************************************************************************)
(* The ClusterMetadata singleton (cluster_metadata.{hpp,cpp}): threads     *)
(* that call get_instance and look something up.  The first constructs it  *)
(* under the guard of the function-local static, reading the metadata log  *)
(* batch by batch while the controller still appends to it, and then       *)
(* record by record into the three maps; the lookups take the mutex.       *)
(***************************************************************************)
EXTENDS Catalog

CONSTANTS
  Thread,    \* threads of the process
  MaxCalls,  \* bound: lookups of one thread
  None,      \* no lookup; nobody holds the mutex
  Unknown,   \* the lookup threw
  Unloaded   \* (of the abstract view) before the singleton exists

ASSUME ThreadAssumption == MaxCalls \in Nat /\ None \notin Thread

VARIABLES
  running,        \* the process has not terminated
  written,        \* records of MetaLog on disk
  guard,          \* of the static in get_instance
  pc,             \* where each thread is
  asked,          \* its lookup
  answer,         \* what its last lookup returned
  calls,          \* lookups it has made
  floor,          \* records on disk when the constructor opened the log
  got,            \* records in the batches read so far
  next,           \* the record the constructor is at
  topic_ids_, topic_names_, partition_ids_,
  mutex_          \* its owner

maps  == <<topic_ids_, topic_names_, partition_ids_>>
load  == <<floor, got, next>>
call  == <<asked, answer, calls>>
vars  == <<running, written, guard, pc, call, load, maps, mutex_>>

View == INSTANCE MetadataView
          WITH view <- IF guard = "set"
                       THEN [ids |-> topic_ids_, names |-> topic_names_, parts |-> partition_ids_]
                       ELSE Unloaded

(* What tells them apart: the values the constants stand for differ.       *)
ASSUME ViewAssumption ==
  /\ None \notin View!Lookup
  /\ \A n \in {0} \cup BatchEnd : Unloaded # Snapshot(n)

EmptyMap == [k \in {} |-> None]

(* Mutant: emplace, which keeps what is there.                            *)
Emplace(map, key, value) ==
  [k \in DOMAIN map \cup {key} |-> IF k \in DOMAIN map THEN map[k] ELSE value]

(* map[key] = value                                                        *)
Assign(map, key, value) ==
  [k \in DOMAIN map \cup {key} |-> IF k = key THEN value ELSE map[k]]

(* map[key].push_back(value)                                               *)
PushBack(map, key, value) ==
  Assign(map, key, IF key \in DOMAIN map THEN Append(map[key], value) ELSE <<value>>)

Init ==
  /\ running = TRUE
  /\ written = 0
  /\ guard = "unset"
  /\ pc = [t \in Thread |-> "idle"]
  /\ asked = [t \in Thread |-> None]
  /\ answer = [t \in Thread |-> None]
  /\ calls = [t \in Thread |-> 0]
  /\ floor = 0
  /\ got = 0
  /\ next = 0
  /\ topic_ids_ = EmptyMap
  /\ topic_names_ = EmptyMap
  /\ partition_ids_ = EmptyMap
  /\ mutex_ = None

(* The controller appends batches.                                         *)
LogAppend ==
  /\ \E n \in BatchEnd : n > written /\ written' = n
  /\ UNCHANGED <<running, guard, pc, call, load, maps, mutex_>>

-----------------------------------------------------------------------------
(* get_instance.                                                           *)

GoTo(t, label) == pc' = [pc EXCEPT ![t] = label]

Call(t) ==
  /\ pc[t] = "idle"
  /\ calls[t] < MaxCalls
  /\ \E q \in View!Lookup : asked' = [asked EXCEPT ![t] = q]
  /\ calls' = [calls EXCEPT ![t] = @ + 1]
  /\ GoTo(t, "enter")
  /\ UNCHANGED <<running, written, guard, answer, load, maps, mutex_>>

(* The static is constructed by the first thread that comes by...          *)
Construct(t) ==
  /\ pc[t] = "enter"
  /\ guard = "unset"
  /\ guard' = "running"
  /\ GoTo(t, "open")
  /\ UNCHANGED <<running, written, call, load, maps, mutex_>>

(* Mutant: double-checked, so nobody waits for the construction to end.    *)
ConstructedOrRunning(t) ==
  /\ pc[t] = "enter"
  /\ guard # "unset"
  /\ GoTo(t, "lock")
  /\ UNCHANGED <<running, written, guard, call, load, maps, mutex_>>

(* ...and the others wait until it is.                                     *)
Constructed(t) ==
  /\ pc[t] = "enter"
  /\ guard = "set"
  /\ GoTo(t, "lock")
  /\ UNCHANGED <<running, written, guard, call, load, maps, mutex_>>

-----------------------------------------------------------------------------
(* The constructor: read_record_batches, then the loop over the records.   *)

(* Mutant: a second construction goes on where the first one stopped.      *)
OpenLogAgain(t) ==
  /\ pc[t] = "open"
  /\ floor' = written
  /\ got' = 0
  /\ GoTo(t, "read")
  /\ UNCHANGED <<running, written, guard, call, next, maps, mutex_>>

OpenLog(t) ==
  /\ pc[t] = "open"
  /\ floor' = written
  /\ got' = 0
  /\ next' = 0
  /\ GoTo(t, "read")
  /\ UNCHANGED <<running, written, guard, call, maps, mutex_>>

(* What leaves the constructor half-way destroys the maps and frees the    *)
(* guard.                                                                  *)
Unwind(t) ==
  /\ guard' = "unset"
  /\ topic_ids_' = EmptyMap
  /\ topic_names_' = EmptyMap
  /\ partition_ids_' = EmptyMap
  /\ GoTo(t, "thrown")
  /\ UNCHANGED <<running, written, call, load, mutex_>>

OpenThrows(t) ==
  /\ pc[t] = "open"
  /\ Unwind(t)

(* Mutant: the last batch on disk is taken for a torn one.                 *)
BatchFollowsAndMore ==
  \E b \in BatchEnd : b > got /\ b < written /\ \A i \in got + 1 .. b : MetaLog[i].type # "keyed"

(* The batch after the records read so far is whole on disk and parses.    *)
BatchFollows ==
  \E b \in BatchEnd : b > got /\ b <= written /\ \A i \in got + 1 .. b : MetaLog[i].type # "keyed"

ReadBatch(t) ==
  /\ pc[t] = "read"
  /\ BatchFollows
  /\ \E b \in BatchEnd :
       /\ b > got
       /\ \A d \in BatchEnd : d > got => b <= d
       /\ got' = b
  /\ UNCHANGED <<running, written, guard, pc, call, floor, next, maps, mutex_>>

(* The end of the file, a batch half written there, or one with a key: the *)
(* exception ends the reading.                                             *)
ReadEnds(t) ==
  /\ pc[t] = "read"
  /\ ~BatchFollows
  /\ GoTo(t, "apply")
  /\ UNCHANGED <<running, written, guard, call, load, maps, mutex_>>

Record == MetaLog[next + 1]

ApplyRecord(t) ==
  /\ pc[t] = "apply"
  /\ next < got
  /\ Record.type # "short"
  /\ IF Record.type = "topic"
     THEN /\ topic_ids_' = Assign(topic_ids_, Record.name, Record.id)
          /\ topic_names_' = Assign(topic_names_, Record.id, Record.name)
     ELSE UNCHANGED <<topic_ids_, topic_names_>>
  /\ partition_ids_' = IF Record.type = "partition"
                       THEN PushBack(partition_ids_, Record.id, Record.pid)
                       ELSE partition_ids_
  /\ next' = next + 1
  /\ UNCHANGED <<running, written, guard, pc, call, floor, got, mutex_>>

ApplyThrows(t) ==
  /\ pc[t] = "apply"
  /\ next < got
  /\ Record.type = "short"
  /\ Unwind(t)

Publish(t) ==
  /\ pc[t] = "apply"
  /\ next = got
  /\ guard' = "set"
  /\ GoTo(t, "lock")
  /\ UNCHANGED <<running, written, call, load, maps, mutex_>>

(* Nobody catches what the constructor threw (server.cpp:68, 123).         *)
Terminate(t) ==
  /\ pc[t] = "thrown"
  /\ running' = FALSE
  /\ UNCHANGED <<written, guard, pc, call, load, maps, mutex_>>

-----------------------------------------------------------------------------
(* get_topic_id, get_topic_name and get_partition_ids.                     *)

Lock(t) ==
  /\ pc[t] = "lock"
  /\ mutex_ = None
  /\ mutex_' = t
  /\ GoTo(t, "find")
  /\ UNCHANGED <<running, written, guard, call, load, maps>>

(* The map of the lookup.                                                  *)
SearchedMap(op) ==
  CASE op = "get_topic_id"      -> topic_ids_
    [] op = "get_topic_name"    -> topic_names_
    [] op = "get_partition_ids" -> partition_ids_

(* Mutant: unlocked at the end of the body, which a throw does not reach.  *)
FindUnlocksLast(t) ==
  /\ pc[t] = "find"
  /\ LET q   == asked[t]
         map == SearchedMap(q.op)
     IN  /\ answer' = [answer EXCEPT ![t] = IF q.key \in DOMAIN map THEN map[q.key] ELSE Unknown]
         /\ mutex_' = IF q.key \in DOMAIN map THEN None ELSE t
  /\ asked' = [asked EXCEPT ![t] = None]
  /\ GoTo(t, "idle")
  /\ UNCHANGED <<running, written, guard, calls, load, maps>>

(* The lookup returns or throws; the lock_guard unlocks either way.        *)
Find(t) ==
  /\ pc[t] = "find"
  /\ LET q   == asked[t]
         map == SearchedMap(q.op)
     IN  answer' = [answer EXCEPT ![t] = IF q.key \in DOMAIN map THEN map[q.key] ELSE Unknown]
  /\ asked' = [asked EXCEPT ![t] = None]
  /\ mutex_' = None
  /\ GoTo(t, "idle")
  /\ UNCHANGED <<running, written, guard, calls, load, maps>>

Step(t) ==
  /\ running
  /\ \/ Construct(t)
     \/ Constructed(t)
     \/ OpenLog(t)
     \/ ReadBatch(t)
     \/ ReadEnds(t)
     \/ ApplyRecord(t)
     \/ ApplyThrows(t)
     \/ Publish(t)
     \/ Terminate(t)
     \/ Lock(t)
     \/ Find(t)

(* Calls come from outside; open may fail, and need not.                   *)
Environment ==
  \/ LogAppend
  \/ \E t \in Thread : running /\ (Call(t) \/ OpenThrows(t))

Next == Environment \/ \E t \in Thread : Step(t)

Spec == Init /\ [][Next]_vars

(* The system schedules every thread.  The mutex is not starved: each      *)
(* thread has only so many lookups to make.                                *)
FairSpec == Spec /\ \A t \in Thread : WF_vars(Step(t))

-----------------------------------------------------------------------------
(* Properties.                                                             *)

Constructing(t) == pc[t] \in {"open", "read", "apply"}

(* Every variable has its type (cluster_metadata.hpp:148-151).             *)
TypeOK ==
  /\ running \in BOOLEAN
  /\ written \in {0} \cup BatchEnd
  /\ guard \in {"unset", "running", "set"}
  /\ pc \in [Thread -> {"idle", "enter", "open", "read", "apply", "thrown", "lock", "find"}]
  /\ asked \in [Thread -> View!Lookup \cup {None}]
  /\ calls \in [Thread -> 0..MaxCalls]
  /\ floor \in 0..written
  /\ got \in {0} \cup BatchEnd
  /\ got <= written
  /\ next \in 0..got
  /\ DOMAIN topic_ids_ \subseteq Name /\ DOMAIN topic_names_ \subseteq Id
  /\ DOMAIN partition_ids_ \subseteq Id
  /\ mutex_ \in Thread \cup {None}

(* One thread at a time is in the constructor, and while it is no thread   *)
(* looks anything up: the half-built maps are never read                   *)
(* (cluster_metadata.hpp:133-136).                                         *)
NobodySeesHalfBuiltMaps ==
  /\ \A t, u \in Thread : Constructing(t) /\ Constructing(u) => t = u
  /\ \A t, u \in Thread : Constructing(t) => pc[u] \notin {"lock", "find"}

(* "Reads every `RecordBatch` that belongs to a given partition."          *)
(* (cluster_metadata.hpp:127): what was on disk when the constructor       *)
(* opened the log is in the maps once they can be seen.                    *)
ReadsEveryBatch == guard = "set" => got >= floor

(* The maps built record by record, in a log that grows, are those of the  *)
(* declarative catalogue, and every lookup is answered from them           *)
(* (cluster_metadata.cpp:12-76).                                           *)
ImplementsView == View!Spec

(* A lookup returns, or throws, unless the process ends: no thread waits   *)
(* forever for the static or for the mutex (cluster_metadata.cpp:29-54).   *)
EveryLookupEnds ==
  \A t \in Thread : asked[t] # None ~> (asked[t] = None \/ ~running)
=============================================================================
