----------------------- MODULE ClusterMetadataProofs -----------------------
(***************************************************************************)
(* For any number of threads and any log: the maps of the singleton are    *)
(* built by one thread while no thread looks anything up.  The guard of    *)
(* the static carries the argument: it is "running" exactly while someone  *)
(* constructs, and "set" before anyone goes on to a lookup.                *)
(*                                                                         *)
(* Then ClusterMetadata implements MetadataView: the maps after some       *)
(* records, built one record at a time, are those the catalogue defines    *)
(* for a log of that length, and only whole batches, all of which parse,   *)
(* are in maps that can be searched.                                       *)
(***************************************************************************)
EXTENDS ClusterMetadata, FiniteSetTheorems, TLAPS

Reading(t) == pc[t] \in {"lock", "find"}

GuardedByStatic ==
  /\ \A t \in Thread : Constructing(t) => guard = "running"
  /\ \A t, u \in Thread : Constructing(t) /\ Constructing(u) => t = u
  /\ \A t \in Thread : Reading(t) => guard = "set"

IInv == DOMAIN pc = Thread /\ GuardedByStatic

(* Only the thread that steps moves.                                       *)
LEMMA Moves ==
  ASSUME DOMAIN pc = Thread, NEW t \in Thread, NEW label, GoTo(t, label)
  PROVE  /\ DOMAIN pc' = Thread
         /\ pc'[t] = label
         /\ \A u \in Thread \ {t} : pc'[u] = pc[u]
  BY DEF GoTo

LEMMA Kept ==
  ASSUME IInv, UNCHANGED <<guard, pc>>
  PROVE  IInv'
  BY DEF IInv, GuardedByStatic, Constructing, Reading

(* A thread moves on without touching the guard.                           *)
LEMMA GuardKept ==
  ASSUME IInv, NEW t \in Thread, NEW label, GoTo(t, label), guard' = guard,
         label \in {"open", "read", "apply"} => Constructing(t),
         label \in {"lock", "find"} => guard = "set"
  PROVE  IInv'
  BY Moves DEF IInv, GuardedByStatic, Constructing, Reading

THEOREM Inductive == Spec => []IInv
<1>1. Init => IInv
  BY DEF Init, IInv, GuardedByStatic, Constructing, Reading
<1>2. IInv /\ [Next]_vars => IInv'
  <2> SUFFICES ASSUME IInv, [Next]_vars PROVE IInv'
    OBVIOUS
  <2>1. CASE UNCHANGED vars
    BY <2>1, Kept DEF vars
  <2>2. CASE LogAppend
    BY <2>2, Kept DEF LogAppend
  <2>3. ASSUME NEW t \in Thread, Call(t) PROVE IInv'
    BY <2>3, GuardKept DEF Call
  <2>4. ASSUME NEW t \in Thread, Construct(t) PROVE IInv'
    BY <2>4, Moves DEF Construct, IInv, GuardedByStatic, Constructing, Reading
  <2>5. ASSUME NEW t \in Thread, Constructed(t) PROVE IInv'
    BY <2>5, GuardKept DEF Constructed
  <2>6. ASSUME NEW t \in Thread, OpenLog(t) \/ ReadEnds(t) PROVE IInv'
    <3>1. Constructing(t) /\ guard' = guard /\ \E label \in {"read", "apply"} : GoTo(t, label)
      BY <2>6 DEF OpenLog, ReadEnds, Constructing
    <3> QED BY <3>1, GuardKept
  <2>7. ASSUME NEW t \in Thread, ReadBatch(t) \/ ApplyRecord(t) \/ Terminate(t) PROVE IInv'
    BY <2>7, Kept DEF ReadBatch, ApplyRecord, Terminate
  <2>8. ASSUME NEW t \in Thread, OpenThrows(t) \/ ApplyThrows(t) PROVE IInv'
    <3>1. Constructing(t) /\ guard' = "unset" /\ GoTo(t, "thrown")
      BY <2>8 DEF OpenThrows, ApplyThrows, Unwind, Constructing
    <3> QED BY <3>1, Moves DEF IInv, GuardedByStatic, Constructing, Reading
  <2>9. ASSUME NEW t \in Thread, Publish(t) PROVE IInv'
    <3>1. Constructing(t) /\ guard' = "set" /\ GoTo(t, "lock")
      BY <2>9 DEF Publish, Constructing
    <3> QED BY <3>1, Moves DEF IInv, GuardedByStatic, Constructing, Reading
  <2>10. ASSUME NEW t \in Thread, Lock(t) \/ Find(t) PROVE IInv'
    <3>1. Reading(t) /\ guard' = guard /\ \E label \in {"find", "idle"} : GoTo(t, label)
      BY <2>10 DEF Lock, Find, Reading
    <3>2. guard = "set"
      BY <3>1 DEF IInv, GuardedByStatic
    <3> QED BY <3>1, <3>2, GuardKept
  <2> QED BY <2>1, <2>2, <2>3, <2>4, <2>5, <2>6, <2>7, <2>8, <2>9, <2>10 DEF Next, Environment, Step
<1> QED BY <1>1, <1>2, PTL DEF Spec

(* No thread reads a map another one is still filling, and no two fill     *)
(* them (cluster_metadata.hpp:133-136).                                    *)
THEOREM HalfBuiltMapsUnseen == Spec => []NobodySeesHalfBuiltMaps
<1>1. IInv => NobodySeesHalfBuiltMaps
  BY DEF IInv, GuardedByStatic, NobodySeesHalfBuiltMaps, Constructing, Reading
<1> QED BY <1>1, Inductive, PTL

-----------------------------------------------------------------------------
(* Every batch that was on disk when the log was opened is read.           *)

(* The positions in the log are ends of batches, and whoever applies       *)
(* records, or has applied them, has read up to where the log was.         *)
LogRead ==
  /\ {written, floor, got} \subseteq {0} \cup BatchEnd
  /\ floor <= written
  /\ guard = "set" => floor <= got
  /\ \A t \in Thread : pc[t] = "apply" => floor <= got

LEMMA PositionsAreNumbers ==
  ASSUME CatalogAssumption
  PROVE  {0} \cup BatchEnd \subseteq Nat
  BY DEF CatalogAssumption

(* The guard of the static keeps everyone else away from the log while one *)
(* thread reads it.                                                        *)
LEMMA AloneInTheLog ==
  ASSUME IInv, NEW t \in Thread, Constructing(t)
  PROVE  guard # "set" /\ \A u \in Thread \ {t} : pc[u] # "apply"
  BY DEF IInv, GuardedByStatic, Constructing

LEMMA LogReadKept ==
  ASSUME LogRead, UNCHANGED <<written, floor, got>>,
         guard' = "set" => guard = "set" \/ \E t \in Thread : pc[t] = "apply",
         \A t \in Thread : pc'[t] = "apply" => pc[t] = "apply"
  PROVE  LogRead'
  BY DEF LogRead

LEMMA LogReadStep ==
  ASSUME CatalogAssumption, \A i \in 1..Len(MetaLog) : MetaLog[i].type # "keyed",
         IInv, LogRead, [Next]_vars
  PROVE  LogRead'
<1>0. /\ {0} \cup BatchEnd \subseteq Nat
      /\ {written, floor, got} \subseteq {0} \cup BatchEnd
      /\ written \in Nat /\ floor \in Nat /\ got \in Nat
  BY PositionsAreNumbers DEF LogRead
<1>1. CASE UNCHANGED vars
  BY <1>1, LogReadKept DEF vars, load
<1>2. CASE LogAppend
  <2>1. written' \in BatchEnd /\ written' > written /\ UNCHANGED <<guard, pc, floor, got>>
    BY <1>2 DEF LogAppend, load
  <2> QED BY <1>0, <2>1 DEF LogRead
<1>3. ASSUME NEW t \in Thread,
             Call(t) \/ Construct(t) \/ Constructed(t) \/ OpenThrows(t) \/ ApplyRecord(t)
               \/ ApplyThrows(t) \/ Publish(t) \/ Terminate(t) \/ Lock(t) \/ Find(t)
      PROVE  LogRead'
  <2>1. UNCHANGED <<written, floor, got>>
    BY <1>3 DEF Call, Construct, Constructed, OpenThrows, ApplyRecord, ApplyThrows, Publish,
                Terminate, Lock, Find, Unwind, load
  <2>2. guard' = guard \/ guard' # "set" \/ pc[t] = "apply"
    BY <1>3 DEF Call, Construct, Constructed, OpenThrows, ApplyRecord, ApplyThrows, Publish,
                Terminate, Lock, Find, Unwind
  <2>3. pc' = pc \/ \E label \in {"enter", "open", "lock", "thrown", "find", "idle"} : GoTo(t, label)
    BY <1>3 DEF Call, Construct, Constructed, OpenThrows, ApplyRecord, ApplyThrows, Publish,
                Terminate, Lock, Find, Unwind
  <2>4. \A u \in Thread : pc'[u] = "apply" => pc[u] = "apply"
    BY <2>3, Moves DEF IInv
  <2> QED BY <2>1, <2>2, <2>4, LogReadKept
<1>4. ASSUME NEW t \in Thread, OpenLog(t) PROVE LogRead'
  <2>1. Constructing(t) /\ GoTo(t, "read") /\ floor' = written /\ got' = 0
        /\ UNCHANGED <<written, guard>>
    BY <1>4 DEF OpenLog, Constructing
  <2>2. guard' # "set" /\ \A u \in Thread : pc'[u] # "apply"
    BY <2>1, AloneInTheLog, Moves DEF IInv
  <2>3. written' \in Nat /\ 0 <= written'
    BY <1>0, <2>1
  <2> QED BY <1>0, <2>1, <2>2, <2>3 DEF LogRead
<1>5. ASSUME NEW t \in Thread, ReadBatch(t) PROVE LogRead'
  <2>1. Constructing(t) /\ pc[t] = "read" /\ got' \in BatchEnd
        /\ UNCHANGED <<written, guard, pc, floor>>
    BY <1>5 DEF ReadBatch, Constructing
  <2>2. guard' # "set" /\ \A u \in Thread : pc'[u] # "apply"
    BY <2>1, AloneInTheLog
  <2> QED BY <2>1, <2>2 DEF LogRead
<1>6. ASSUME NEW t \in Thread, ReadEnds(t) PROVE LogRead'
  <2>1. ~BatchFollows /\ UNCHANGED <<written, guard, floor, got>>
    BY <1>6 DEF ReadEnds, load
  <2>2. floor <= got
    <3>1. SUFFICES ASSUME floor > got PROVE FALSE
      BY <1>0
    <3>2. floor \in BatchEnd /\ floor <= written
      BY <1>0, <3>1 DEF LogRead
    <3>3. \A i \in got + 1 .. floor : MetaLog[i].type # "keyed"
      BY <1>0, <3>2 DEF CatalogAssumption
    <3> QED BY <2>1, <3>1, <3>2, <3>3 DEF BatchFollows
  <2> QED BY <2>1, <2>2 DEF LogRead
<1> QED BY <1>1, <1>2, <1>3, <1>4, <1>5, <1>6 DEF Next, Environment, Step

(* With no batch that fails to parse, every batch that was on disk when    *)
(* the constructor opened the log is in the maps once they can be seen,    *)
(* however the log grows meanwhile (cluster_metadata.hpp:127).             *)
THEOREM EveryBatchRead ==
  ASSUME \A i \in 1..Len(MetaLog) : MetaLog[i].type # "keyed"
  PROVE  Spec => []ReadsEveryBatch
<1>1. Init => LogRead
  BY DEF Init, LogRead
<1>2. IInv /\ LogRead /\ [Next]_vars => LogRead'
  BY LogReadStep, CatalogAssumption
<1>3. LogRead => ReadsEveryBatch
  BY PositionsAreNumbers, CatalogAssumption DEF LogRead, ReadsEveryBatch
<1> QED BY <1>1, <1>2, <1>3, Inductive, PTL DEF Spec

-----------------------------------------------------------------------------
(* Types.                                                                  *)

LEMMA WrittenRecords ==
  ASSUME CatalogAssumption, NEW k \in Nat, NEW b \in BatchEnd, k < b
  PROVE  MetaLog[k + 1] \in MetadataRecord
<1>1. Len(MetaLog) \in Nat /\ b \in 0..Len(MetaLog)
  BY DEF CatalogAssumption
<1>2. k + 1 \in 1..Len(MetaLog)
  BY <1>1
<1> QED BY <1>2 DEF CatalogAssumption

LEMMA TopicOf ==
  ASSUME NEW r \in MetadataRecord, r.type = "topic"
  PROVE  r.name \in Name /\ r.id \in Id
  BY DEF MetadataRecord, TopicRecord, PartitionRecord, SkippedRecord, ShortRecord, KeyedRecord

LEMMA PartitionOf ==
  ASSUME NEW r \in MetadataRecord, r.type = "partition"
  PROVE  r.id \in Id
  BY DEF MetadataRecord, TopicRecord, PartitionRecord, SkippedRecord, ShortRecord, KeyedRecord

LEMMA Counted ==
  ASSUME CatalogAssumption, TypeOK
  PROVE  /\ {0} \cup BatchEnd \subseteq Nat
         /\ written \in Nat /\ floor \in Nat /\ got \in Nat /\ next \in Nat
         /\ floor <= written /\ got <= written /\ next <= got
<1>1. {0} \cup BatchEnd \subseteq Nat /\ written \in Nat /\ got \in Nat
  BY PositionsAreNumbers DEF TypeOK
<1> QED BY <1>1 DEF TypeOK

Labels == {"idle", "enter", "open", "read", "apply", "thrown", "lock", "find"}

LEMMA TypedMove ==
  ASSUME TypeOK, NEW t \in Thread, NEW label \in Labels, GoTo(t, label)
  PROVE  pc' \in [Thread -> Labels]
  BY DEF TypeOK, GoTo, Labels

LEMMA TypeStep ==
  ASSUME CatalogAssumption, ThreadAssumption, TypeOK, [Next]_vars
  PROVE  TypeOK'
<1>0. pc \in [Thread -> Labels] /\ (TypeOK' <=> (TypeOK /\ pc \in [Thread -> Labels])')
  BY DEF TypeOK, Labels
<1>1. CASE UNCHANGED vars
  BY <1>1 DEF TypeOK, vars, call, load, maps, View!Lookup
<1>2. CASE LogAppend
  <2>1. written' \in BatchEnd /\ written' > written
    BY <1>2 DEF LogAppend
  <2>2. written' \in Nat /\ floor \in 0..written' /\ got <= written'
    BY <2>1, Counted
  <2> QED BY <1>2, <2>1, <2>2 DEF LogAppend, TypeOK, call, load, maps, View!Lookup
<1>3. ASSUME NEW t \in Thread, Call(t) PROVE TypeOK'
  <2>1. pc' \in [Thread -> Labels]
    BY <1>3, TypedMove DEF Call, Labels
  <2>2. calls' \in [Thread -> 0..MaxCalls]
    <3>1. calls[t] \in Nat /\ calls[t] < MaxCalls /\ calls' = [calls EXCEPT ![t] = calls[t] + 1]
      BY <1>3, ThreadAssumption DEF Call, TypeOK
    <3>2. calls[t] + 1 \in 0..MaxCalls
      BY <3>1, ThreadAssumption
    <3> QED BY <3>1, <3>2 DEF TypeOK
  <2>3. asked' \in [Thread -> View!Lookup \cup {None}]
    BY <1>3 DEF Call, TypeOK
  <2> QED BY <1>3, <2>1, <2>2, <2>3 DEF Call, TypeOK, load, maps, Labels, View!Lookup
<1>4. ASSUME NEW t \in Thread, Construct(t) \/ Constructed(t) \/ ReadEnds(t) \/ Publish(t)
      PROVE  TypeOK'
  <2>1. \E label \in Labels : GoTo(t, label)
    BY <1>4 DEF Construct, Constructed, ReadEnds, Publish, Labels
  <2>2. pc' \in [Thread -> Labels]
    BY <2>1, TypedMove
  <2>3. guard' \in {"unset", "running", "set"} /\ UNCHANGED <<running, written, call, load, maps, mutex_>>
    BY <1>4 DEF Construct, Constructed, ReadEnds, Publish, TypeOK
  <2> QED BY <2>2, <2>3 DEF TypeOK, call, load, maps, Labels, View!Lookup
<1>5. ASSUME NEW t \in Thread, OpenLog(t) PROVE TypeOK'
  <2>1. pc' \in [Thread -> Labels]
    BY <1>5, TypedMove DEF OpenLog, Labels
  <2>2. floor' = written /\ got' = 0 /\ next' = 0 /\ written' = written
    BY <1>5 DEF OpenLog
  <2>3. floor' \in 0..written' /\ got' \in {0} \cup BatchEnd /\ got' <= written' /\ next' \in 0..got'
    BY <2>2, Counted
  <2> QED BY <1>5, <2>1, <2>3 DEF OpenLog, TypeOK, call, maps, Labels, View!Lookup
<1>6. ASSUME NEW t \in Thread, OpenThrows(t) \/ ApplyThrows(t) PROVE TypeOK'
  <2>1. Unwind(t)
    BY <1>6 DEF OpenThrows, ApplyThrows
  <2>2. pc' \in [Thread -> Labels]
    BY <2>1, TypedMove DEF Unwind, Labels
  <2>3. DOMAIN EmptyMap = {}
    BY DEF EmptyMap
  <2> QED BY <2>1, <2>2, <2>3 DEF Unwind, TypeOK, call, load, Labels, View!Lookup
<1>7. ASSUME NEW t \in Thread, ReadBatch(t) PROVE TypeOK'
  <2>1. got' \in BatchEnd /\ got' > got /\ \A d \in BatchEnd : d > got => got' <= d
    BY <1>7 DEF ReadBatch
  <2>2. PICK b \in BatchEnd : b > got /\ b <= written
    BY <1>7 DEF ReadBatch, BatchFollows
  <2>3. got' <= b
    BY <2>1, <2>2
  <2>4. got' \in Nat /\ got' <= written /\ next \in 0..got'
    BY <2>1, <2>2, <2>3, Counted
  <2> QED BY <1>7, <2>1, <2>4 DEF ReadBatch, TypeOK, call, maps, View!Lookup
<1>8. ASSUME NEW t \in Thread, ApplyRecord(t) PROVE TypeOK'
  <2>1. next < got /\ next' = next + 1 /\ got \in BatchEnd
    <3>1. next < got /\ next' = next + 1
      BY <1>8 DEF ApplyRecord
    <3> QED BY <3>1, Counted DEF TypeOK
  <2>2. Record \in MetadataRecord
    BY <2>1, Counted, WrittenRecords DEF Record
  <2>3. next' \in 0..got
    BY <2>1, Counted
  <2>4. DOMAIN topic_ids_' \subseteq Name /\ DOMAIN topic_names_' \subseteq Id
    BY <1>8, <2>2, TopicOf DEF ApplyRecord, Assign, TypeOK
  <2>5. DOMAIN partition_ids_' \subseteq Id
    BY <1>8, <2>2, PartitionOf DEF ApplyRecord, PushBack, Assign, TypeOK
  <2> QED BY <1>8, <2>3, <2>4, <2>5 DEF ApplyRecord, TypeOK, call, View!Lookup
<1>9. ASSUME NEW t \in Thread, Terminate(t) PROVE TypeOK'
  BY <1>9 DEF Terminate, TypeOK, call, load, maps, View!Lookup
<1>10. ASSUME NEW t \in Thread, Lock(t) \/ Find(t) PROVE TypeOK'
  <2>1. \E label \in Labels : GoTo(t, label)
    BY <1>10 DEF Lock, Find, Labels
  <2>2. pc' \in [Thread -> Labels]
    BY <2>1, TypedMove
  <2>3. asked' \in [Thread -> View!Lookup \cup {None}] /\ mutex_' \in Thread \cup {None}
    BY <1>10 DEF Lock, Find, TypeOK, call
  <2>4. UNCHANGED <<running, written, guard, calls, load, maps>>
    BY <1>10 DEF Lock, Find, call
  <2> QED BY <2>2, <2>3, <2>4 DEF TypeOK, load, maps, Labels, View!Lookup
<1> QED BY <1>1, <1>2, <1>3, <1>4, <1>5, <1>6, <1>7, <1>8, <1>9, <1>10 DEF Next, Environment, Step

(* Every variable has its type, and the constructor stays inside the log   *)
(* it has read (cluster_metadata.hpp:148-151, cluster_metadata.cpp:56-76). *)
THEOREM TypeCorrect == Spec => []TypeOK
<1>1. Init => TypeOK
  BY ThreadAssumption DEF Init, TypeOK, EmptyMap, CatalogAssumption
<1>2. TypeOK /\ [Next]_vars => TypeOK'
  BY TypeStep, CatalogAssumption, ThreadAssumption
<1> QED BY <1>1, <1>2, PTL DEF Spec

-----------------------------------------------------------------------------
(* ClusterMetadata implements MetadataView: what the maps hold.            *)

AreMapsOf(n) ==
  /\ topic_ids_ = topic_ids(n)
  /\ topic_names_ = topic_names(n)
  /\ partition_ids_ = partition_ids(n)

NoneKeyed(n) == \A i \in 1..n : MetaLog[i].type # "keyed"
NoneShort(n) == \A i \in 1..n : MetaLog[i].type # "short"

(* The maps are empty until records are applied to them, and then those of *)
(* the records applied; they are shown when all that were read are.        *)
Filled ==
  /\ guard = "unset" => AreMapsOf(0)
  /\ \A t \in Thread : pc[t] = "open" => AreMapsOf(0)
  /\ \A t \in Thread : pc[t] \in {"read", "apply"} =>
       AreMapsOf(next) /\ NoneKeyed(got) /\ NoneShort(next)
  /\ guard = "set" => AreMapsOf(got) /\ NoneKeyed(got) /\ NoneShort(got)

(* A thread asks for something exactly while it is in a lookup.            *)
Asking ==
  \A t \in Thread :
    /\ pc[t] = "idle" => asked[t] = None
    /\ pc[t] # "idle" => asked[t] \in View!Lookup

-----------------------------------------------------------------------------
(* One more record.                                                        *)

LEMMA OneMore ==
  ASSUME NEW n \in Nat, NEW type
  PROVE  /\ MetaLog[n + 1].type = type => OfType(n + 1, type) = OfType(n, type) \cup {n + 1}
         /\ MetaLog[n + 1].type # type => OfType(n + 1, type) = OfType(n, type)
  BY DEF OfType

LEMMA LargestIs ==
  ASSUME NEW S \in SUBSET Int, NEW m \in S, \A i \in S : i <= m
  PROVE  Largest(S) = m
<1>1. \A j \in S : (\A i \in S : i <= j) => j = m
  OBVIOUS
<1> QED BY <1>1 DEF Largest

LEMMA NoRecords == EmptyMap = topic_ids(0) /\ EmptyMap = topic_names(0) /\ EmptyMap = partition_ids(0)
<1>1. \A type : OfType(0, type) = {}
  BY DEF OfType
<1> QED BY <1>1 DEF EmptyMap, topic_ids, topic_names, partition_ids

LEMMA AnotherTopic ==
  ASSUME NEW n \in Nat, MetaLog[n + 1].type = "topic"
  PROVE  /\ topic_ids(n + 1) = Assign(topic_ids(n), MetaLog[n + 1].name, MetaLog[n + 1].id)
         /\ topic_names(n + 1) = Assign(topic_names(n), MetaLog[n + 1].id, MetaLog[n + 1].name)
<1> DEFINE T == OfType(n, "topic")
<1>1. OfType(n + 1, "topic") = T \cup {n + 1}
  BY OneMore
<1>2. \A i \in T \cup {n + 1} : i \in Int /\ i <= n + 1
  BY DEF OfType
<1> HIDE DEF T
<1>3. topic_ids(n + 1) = Assign(topic_ids(n), MetaLog[n + 1].name, MetaLog[n + 1].id)
  <2> DEFINE key == MetaLog[n + 1].name
             Of(name) == {i \in T : MetaLog[i].name = name}
  <2>1. {MetaLog[i].name : i \in T \cup {n + 1}} = {MetaLog[i].name : i \in T} \cup {key}
    OBVIOUS
  <2>2. ASSUME NEW name, name # key
        PROVE  {i \in T \cup {n + 1} : MetaLog[i].name = name} = Of(name)
    BY <2>2
  <2>3. Largest({i \in T \cup {n + 1} : MetaLog[i].name = key}) = n + 1
    <3> DEFINE S == {i \in T \cup {n + 1} : MetaLog[i].name = key}
    <3>1. (\A i \in S : i \in Int /\ i <= n + 1) /\ n + 1 \in S
      BY <1>2
    <3> HIDE DEF S
    <3>2. Largest(S) = n + 1
      BY <3>1, LargestIs
    <3> QED BY <3>2 DEF S
  <2>4. topic_ids(n) = [name \in {MetaLog[i].name : i \in T} |-> MetaLog[Largest(Of(name))].id]
    BY DEF topic_ids, T
  <2>5. topic_ids(n + 1) = [name \in {MetaLog[i].name : i \in T \cup {n + 1}} |->
                              MetaLog[Largest({i \in T \cup {n + 1} : MetaLog[i].name = name})].id]
    BY <1>1 DEF topic_ids
  <2> DEFINE New(k) == MetaLog[Largest({i \in T \cup {n + 1} : MetaLog[i].name = k})].id
             Old(k) == MetaLog[Largest(Of(k))].id
             D == {MetaLog[i].name : i \in T}
  <2>6. New(key) = MetaLog[n + 1].id /\ \A k : k # key => New(k) = Old(k)
    BY <2>2, <2>3
  <2>7. topic_ids(n) = [k \in D |-> Old(k)] /\ topic_ids(n + 1) = [k \in D \cup {key} |-> New(k)]
    BY <2>1, <2>4, <2>5
  <2> HIDE DEF key, Of, New, Old, D
  <2>8. topic_ids(n + 1) = Assign(topic_ids(n), key, MetaLog[n + 1].id)
    BY <2>6, <2>7 DEF Assign
  <2> QED BY <2>8 DEF key
<1>4. topic_names(n + 1) = Assign(topic_names(n), MetaLog[n + 1].id, MetaLog[n + 1].name)
  <2> DEFINE key == MetaLog[n + 1].id
             Of(u) == {i \in T : MetaLog[i].id = u}
  <2>1. {MetaLog[i].id : i \in T \cup {n + 1}} = {MetaLog[i].id : i \in T} \cup {key}
    OBVIOUS
  <2>2. ASSUME NEW u, u # key
        PROVE  {i \in T \cup {n + 1} : MetaLog[i].id = u} = Of(u)
    BY <2>2
  <2>3. Largest({i \in T \cup {n + 1} : MetaLog[i].id = key}) = n + 1
    <3> DEFINE S == {i \in T \cup {n + 1} : MetaLog[i].id = key}
    <3>1. (\A i \in S : i \in Int /\ i <= n + 1) /\ n + 1 \in S
      BY <1>2
    <3> HIDE DEF S
    <3>2. Largest(S) = n + 1
      BY <3>1, LargestIs
    <3> QED BY <3>2 DEF S
  <2>4. topic_names(n) = [u \in {MetaLog[i].id : i \in T} |-> MetaLog[Largest(Of(u))].name]
    BY DEF topic_names, T
  <2>5. topic_names(n + 1) = [u \in {MetaLog[i].id : i \in T \cup {n + 1}} |->
                                MetaLog[Largest({i \in T \cup {n + 1} : MetaLog[i].id = u})].name]
    BY <1>1 DEF topic_names
  <2> DEFINE New(k) == MetaLog[Largest({i \in T \cup {n + 1} : MetaLog[i].id = k})].name
             Old(k) == MetaLog[Largest(Of(k))].name
             D == {MetaLog[i].id : i \in T}
  <2>6. New(key) = MetaLog[n + 1].name /\ \A k : k # key => New(k) = Old(k)
    BY <2>2, <2>3
  <2>7. topic_names(n) = [k \in D |-> Old(k)] /\ topic_names(n + 1) = [k \in D \cup {key} |-> New(k)]
    BY <2>1, <2>4, <2>5
  <2> HIDE DEF key, Of, New, Old, D
  <2>8. topic_names(n + 1) = Assign(topic_names(n), key, MetaLog[n + 1].name)
    BY <2>6, <2>7 DEF Assign
  <2> QED BY <2>8 DEF key
<1> QED BY <1>3, <1>4

LEMMA NoTopic ==
  ASSUME NEW n \in Nat, MetaLog[n + 1].type # "topic"
  PROVE  topic_ids(n + 1) = topic_ids(n) /\ topic_names(n + 1) = topic_names(n)
<1>1. OfType(n + 1, "topic") = OfType(n, "topic")
  BY OneMore
<1> QED BY <1>1 DEF topic_ids, topic_names

LEMMA NoPartition ==
  ASSUME NEW n \in Nat, MetaLog[n + 1].type # "partition"
  PROVE  partition_ids(n + 1) = partition_ids(n)
<1>1. OfType(n + 1, "partition") = OfType(n, "partition")
  BY OneMore
<1> QED BY <1>1 DEF partition_ids

(* The partitions in the records at the positions S.                       *)
Rank(S, i) == Cardinality({j \in S : j <= i})
Row(S)     == [k \in 1..Cardinality(S) |-> MetaLog[Nth(S, k)].pid]

LEMMA Indexed ==
  ASSUME NEW S, NEW seq \in Seq(S)
  PROVE  seq \in [1..Len(seq) -> S]
  OBVIOUS

LEMMA LongerRow ==
  ASSUME NEW n \in Nat, NEW S \in SUBSET (1..n)
  PROVE  Row(S \cup {n + 1}) = Append(Row(S), MetaLog[n + 1].pid)
<1> DEFINE S1 == S \cup {n + 1}
           c  == Cardinality(S)
           At(k) == MetaLog[Largest({i \in S : Rank(S, i) = k})].pid
           At1(k) == MetaLog[Largest({i \in S1 : Rank(S1, i) = k})].pid
<1>1. IsFiniteSet(S) /\ c \in Nat
  <2>1. IsFiniteSet(1..n)
    BY FS_Interval
  <2> QED BY <2>1, FS_Subset, FS_CardinalityType
<1>2. n + 1 \notin S /\ (\A i \in S : i \in Int /\ i < n + 1) /\ \A i \in S1 : i <= n + 1
  OBVIOUS
<1>3. Cardinality(S1) = c + 1
  BY <1>1, <1>2, FS_AddElement
<1>4. ASSUME NEW i \in S PROVE Rank(S1, i) = Rank(S, i) /\ Rank(S, i) \in Nat /\ Rank(S, i) <= c
  <2>1. {j \in S1 : j <= i} = {j \in S : j <= i}
    BY <1>2
  <2>2. {j \in S : j <= i} \in SUBSET S
    OBVIOUS
  <2>3. IsFiniteSet({j \in S : j <= i}) /\ Cardinality({j \in S : j <= i}) <= c
    BY <2>2, <1>1, FS_Subset
  <2> QED BY <2>1, <2>3, FS_CardinalityType DEF Rank
<1>5. Rank(S1, n + 1) = c + 1
  <2>1. {j \in S1 : j <= n + 1} = S1
    BY <1>2
  <2> QED BY <2>1, <1>3 DEF Rank
<1> HIDE DEF c
<1>6. ASSUME NEW k \in 1..c PROVE At1(k) = At(k)
  <2>1. Rank(S1, n + 1) # k
    BY <1>1, <1>5
  <2>2. \A i \in S : Rank(S1, i) = Rank(S, i)
    BY <1>4
  <2>3. {i \in S1 : Rank(S1, i) = k} = {i \in S : Rank(S, i) = k}
    BY <2>1, <2>2
  <2> QED BY <2>3
<1>7. At1(c + 1) = MetaLog[n + 1].pid
  <2>1. \A i \in S : Rank(S1, i) # c + 1
    BY <1>1, <1>4
  <2>2. {i \in S1 : Rank(S1, i) = c + 1} = {n + 1}
    BY <2>1, <1>5
  <2>3. Largest({n + 1}) = n + 1
    BY LargestIs
  <2> QED BY <2>2, <2>3
<1>8. Row(S) = [k \in 1..c |-> At(k)] /\ Row(S1) = [k \in 1..c + 1 |-> At1(k)]
  BY <1>3 DEF Row, Nth, Rank, c
<1> HIDE DEF S1, At, At1
<1>9. Append([k \in 1..c |-> At(k)], MetaLog[n + 1].pid) = [k \in 1..c + 1 |-> At1(k)]
  <2> DEFINE s == [k \in 1..c |-> At(k)]
             e == MetaLog[n + 1].pid
             E == {At(k) : k \in 1..c} \cup {e}
  <2>1. s \in Seq(E) /\ Len(s) = c /\ e \in E
    BY <1>1
  <2>2. s \in [1..c -> E] /\ \A k \in 1..c : s[k] = At(k)
    OBVIOUS
  <2> HIDE DEF s, e, E
  <2>3. Append(s, e) = [k \in 1..c + 1 |-> IF k = c + 1 THEN e ELSE s[k]]
    <3> DEFINE a == Append(s, e)
    <3>1. a \in Seq(E) /\ Len(a) = c + 1
      BY <1>1, <2>1
    <3>2. a \in [1..c + 1 -> E]
      BY <3>1, Indexed
    <3>3. a[c + 1] = e /\ \A k \in 1..c : a[k] = s[k]
      BY <1>1, <2>1
    <3> HIDE DEF a
    <3>4. \A k \in 1..c + 1 : a[k] = IF k = c + 1 THEN e ELSE s[k]
      BY <1>1, <3>3
    <3>5. a = [k \in 1..c + 1 |-> IF k = c + 1 THEN e ELSE s[k]]
      BY <3>2, <3>4
    <3> QED BY <3>5 DEF a
  <2>4. \A k \in 1..c + 1 : At1(k) = IF k = c + 1 THEN e ELSE s[k]
    BY <1>1, <1>6, <1>7, <2>2 DEF e
  <2>5. Append(s, e) = [k \in 1..c + 1 |-> At1(k)]
    BY <2>3, <2>4
  <2> QED BY <2>5 DEF s, e
<1> QED BY <1>8, <1>9 DEF S1

LEMMA AnotherPartition ==
  ASSUME NEW n \in Nat, MetaLog[n + 1].type = "partition"
  PROVE  partition_ids(n + 1) = PushBack(partition_ids(n), MetaLog[n + 1].id, MetaLog[n + 1].pid)
<1> DEFINE T == OfType(n, "partition")
           key == MetaLog[n + 1].id
           value == MetaLog[n + 1].pid
           Of(u) == {i \in T : MetaLog[i].id = u}
           Of1(u) == {i \in T \cup {n + 1} : MetaLog[i].id = u}
           D == {MetaLog[i].id : i \in T}
<1>1. OfType(n + 1, "partition") = T \cup {n + 1}
  BY OneMore
<1>2. T \in SUBSET (1..n)
  BY DEF OfType
<1> HIDE DEF T
<1>3. {MetaLog[i].id : i \in T \cup {n + 1}} = D \cup {key}
  OBVIOUS
<1>4. \A u : u # key => Of1(u) = Of(u)
  OBVIOUS
<1>5. Of1(key) = Of(key) \cup {n + 1} /\ Of(key) \in SUBSET (1..n)
  BY <1>2
<1>6. key \notin D => Of(key) = {}
  OBVIOUS
<1>7. partition_ids(n) = [u \in D |-> Row(Of(u))]
  BY DEF partition_ids, Row, Nth, Rank, T
<1>8. partition_ids(n + 1) = [u \in D \cup {key} |-> Row(Of1(u))]
  <2> DEFINE T1 == OfType(n + 1, "partition")
  <2>1. partition_ids(n + 1) = [u \in {MetaLog[i].id : i \in T1} |-> Row({i \in T1 : MetaLog[i].id = u})]
    BY DEF partition_ids, Row, Nth, Rank
  <2> QED BY <2>1, <1>1, <1>3
<1> HIDE DEF key, value, Of, Of1, D
<1>9. Row(Of1(key)) = Append(Row(Of(key)), value)
  BY <1>5, LongerRow DEF value
<1>10. Row({}) = <<>>
  BY FS_EmptySet DEF Row
<1>11. Row(Of1(key)) = IF key \in D THEN Append(partition_ids(n)[key], value) ELSE <<value>>
  <2>1. CASE key \in D
    BY <2>1, <1>7, <1>9
  <2>2. CASE key \notin D
    <3>1. Row(Of(key)) = <<>>
      BY <2>2, <1>6, <1>10
    <3>2. Append(<<>>, value) = <<value>>
      OBVIOUS
    <3> QED BY <2>2, <3>1, <3>2, <1>9
  <2> QED BY <2>1, <2>2
<1>12. partition_ids(n + 1) = Assign(partition_ids(n), key, Row(Of1(key)))
  BY <1>4, <1>7, <1>8 DEF Assign
<1> QED BY <1>7, <1>11, <1>12 DEF PushBack, key, value

-----------------------------------------------------------------------------
(* The maps hold what the records applied so far say.                      *)

LEMMA FilledKept ==
  ASSUME Filled, UNCHANGED <<guard, load, maps>>,
         \A t \in Thread : pc'[t] = pc[t] \/ pc'[t] \notin {"open", "read", "apply"}
  PROVE  Filled'
  BY DEF Filled, AreMapsOf, NoneKeyed, NoneShort, load, maps

(* What one thread does to the maps it builds concerns no other.           *)
LEMMA AloneAtWork ==
  ASSUME IInv, NEW t \in Thread, Constructing(t), NEW label, GoTo(t, label)
  PROVE  /\ guard = "running" /\ pc'[t] = label
         /\ \A u \in Thread \ {t} : pc'[u] \notin {"open", "read", "apply"}
<1>1. \A u \in Thread \ {t} : ~Constructing(u) /\ pc'[u] = pc[u]
  BY Moves DEF IInv, GuardedByStatic
<1> QED BY <1>1, Moves DEF IInv, GuardedByStatic, Constructing

LEMMA ReadBatchFills ==
  ASSUME CatalogAssumption, IInv, TypeOK, Filled, NEW t \in Thread, ReadBatch(t)
  PROVE  Filled'
<1>1. /\ pc[t] = "read" /\ UNCHANGED <<guard, pc, next, maps>>
      /\ got' \in BatchEnd /\ got' > got /\ \A d \in BatchEnd : d > got => got' <= d
  BY DEF ReadBatch
<1>2. guard = "running" /\ \A u \in Thread \ {t} : ~Constructing(u)
  BY <1>1 DEF IInv, GuardedByStatic, Constructing
<1>3. NoneKeyed(got')
  <2>1. PICK b \in BatchEnd : b > got /\ \A i \in got + 1 .. b : MetaLog[i].type # "keyed"
    BY DEF ReadBatch, BatchFollows
  <2>2. got' <= b /\ b \in Nat /\ got' \in Nat /\ got \in Nat
    BY <1>1, <2>1, Counted
  <2>3. NoneKeyed(got)
    BY <1>1 DEF Filled
  <2>4. \A i \in 1..got' : i \in 1..got \/ i \in got + 1 .. b
    BY <2>2
  <2> QED BY <2>1, <2>3, <2>4 DEF NoneKeyed
<1> QED BY <1>1, <1>2, <1>3 DEF Filled, AreMapsOf, NoneKeyed, NoneShort, maps, Constructing

LEMMA ApplyRecordFills ==
  ASSUME CatalogAssumption, IInv, TypeOK, Filled, NEW t \in Thread, ApplyRecord(t)
  PROVE  Filled'
<1>1. /\ pc[t] = "apply" /\ next' = next + 1 /\ next \in Nat
      /\ Record.type # "short" /\ UNCHANGED <<guard, pc, got>>
  BY Counted DEF ApplyRecord
<1>2. guard = "running" /\ \A u \in Thread \ {t} : ~Constructing(u)
  BY <1>1 DEF IInv, GuardedByStatic, Constructing
<1>3. AreMapsOf(next) /\ NoneKeyed(got) /\ NoneShort(next)
  BY <1>1 DEF Filled
<1>4. NoneShort(next')
  BY <1>1, <1>3 DEF NoneShort, Record
<1>5. AreMapsOf(next)'
  <2>1. CASE Record.type = "topic"
    BY <2>1, <1>1, <1>3, AnotherTopic, NoPartition DEF ApplyRecord, AreMapsOf, Record
  <2>2. CASE Record.type = "partition"
    BY <2>2, <1>1, <1>3, AnotherPartition, NoTopic DEF ApplyRecord, AreMapsOf, Record
  <2>3. CASE Record.type \notin {"topic", "partition"}
    BY <2>3, <1>1, <1>3, NoTopic, NoPartition DEF ApplyRecord, AreMapsOf, Record
  <2> QED BY <2>1, <2>2, <2>3
<1> QED BY <1>1, <1>2, <1>3, <1>4, <1>5 DEF Filled, NoneKeyed, NoneShort, Constructing

LEMMA FilledStep ==
  ASSUME CatalogAssumption, IInv, TypeOK, Filled, [Next]_vars
  PROVE  Filled'
<1>1. CASE UNCHANGED vars \/ LogAppend
  BY <1>1, FilledKept DEF vars, LogAppend
<1>2. ASSUME NEW t \in Thread, Call(t) \/ Constructed(t) \/ Terminate(t) \/ Lock(t) \/ Find(t)
      PROVE  Filled'
  <2>1. UNCHANGED <<guard, load, maps>>
    BY <1>2 DEF Call, Constructed, Terminate, Lock, Find
  <2>2. pc' = pc \/ \E label \in {"enter", "lock", "find", "idle"} : GoTo(t, label)
    BY <1>2 DEF Call, Constructed, Terminate, Lock, Find
  <2>3. \A u \in Thread : pc'[u] = pc[u] \/ pc'[u] \notin {"open", "read", "apply"}
    BY <2>2, Moves DEF IInv
  <2> QED BY <2>1, <2>3, FilledKept
<1>3. ASSUME NEW t \in Thread, Construct(t) PROVE Filled'
  <2>1. guard = "unset" /\ guard' = "running" /\ GoTo(t, "open") /\ UNCHANGED <<load, maps>>
    BY <1>3 DEF Construct
  <2>2. AreMapsOf(0)'
    BY <2>1 DEF Filled, AreMapsOf, maps
  <2>3. \A u \in Thread : pc'[u] \notin {"read", "apply"}
    BY <2>1, Moves DEF IInv, GuardedByStatic, Constructing
  <2> QED BY <2>1, <2>2, <2>3 DEF Filled
<1>4. ASSUME NEW t \in Thread, OpenLog(t) PROVE Filled'
  <2>1. pc[t] = "open" /\ GoTo(t, "read") /\ got' = 0 /\ next' = 0 /\ UNCHANGED <<guard, maps>>
    BY <1>4 DEF OpenLog
  <2>2. guard = "running" /\ \A u \in Thread : pc'[u] # "open"
    BY <2>1, AloneAtWork DEF Constructing
  <2>3. AreMapsOf(next)'
    BY <2>1 DEF Filled, AreMapsOf, maps
  <2>4. NoneKeyed(got') /\ NoneShort(next')
    BY <2>1 DEF NoneKeyed, NoneShort
  <2> QED BY <2>1, <2>2, <2>3, <2>4 DEF Filled, NoneKeyed, NoneShort
<1>5. ASSUME NEW t \in Thread, OpenThrows(t) \/ ApplyThrows(t) PROVE Filled'
  <2>1. Constructing(t) /\ Unwind(t)
    BY <1>5 DEF OpenThrows, ApplyThrows, Constructing
  <2>2. \A u \in Thread : pc'[u] \notin {"open", "read", "apply"}
    BY <2>1, AloneAtWork DEF Unwind
  <2>3. guard' = "unset" /\ AreMapsOf(0)'
    BY <2>1, NoRecords DEF Unwind, AreMapsOf
  <2> QED BY <2>2, <2>3 DEF Filled
<1>6. ASSUME NEW t \in Thread, ReadBatch(t) PROVE Filled'
  BY <1>6, ReadBatchFills
<1>7. ASSUME NEW t \in Thread, ReadEnds(t) PROVE Filled'
  <2>1. pc[t] = "read" /\ GoTo(t, "apply") /\ UNCHANGED <<guard, load, maps>>
    BY <1>7 DEF ReadEnds
  <2>2. guard = "running" /\ \A u \in Thread : pc'[u] # "open"
    BY <2>1, AloneAtWork DEF Constructing
  <2> QED BY <2>1, <2>2 DEF Filled, AreMapsOf, NoneKeyed, NoneShort, load, maps
<1>8. ASSUME NEW t \in Thread, ApplyRecord(t) PROVE Filled'
  BY <1>8, ApplyRecordFills
<1>9. ASSUME NEW t \in Thread, Publish(t) PROVE Filled'
  <2>1. pc[t] = "apply" /\ next = got /\ guard' = "set" /\ GoTo(t, "lock") /\ UNCHANGED <<load, maps>>
    BY <1>9 DEF Publish
  <2>2. \A u \in Thread : pc'[u] \notin {"open", "read", "apply"}
    BY <2>1, AloneAtWork DEF Constructing
  <2> QED BY <2>1, <2>2 DEF Filled, AreMapsOf, NoneKeyed, NoneShort, load, maps
<1> QED BY <1>1, <1>2, <1>3, <1>4, <1>5, <1>6, <1>7, <1>8, <1>9 DEF Next, Environment, Step

-----------------------------------------------------------------------------
(* Lookups.                                                                *)

LEMMA AskingStep ==
  ASSUME IInv, TypeOK, Asking, [Next]_vars
  PROVE  Asking'
<1>1. CASE UNCHANGED vars \/ LogAppend
  BY <1>1 DEF vars, LogAppend, call, Asking, View!Lookup
<1>2. ASSUME NEW t \in Thread, Call(t) PROVE Asking'
  <2>1. GoTo(t, "enter") /\ \E q \in View!Lookup : asked' = [asked EXCEPT ![t] = q]
    BY <1>2 DEF Call
  <2>2. asked'[t] \in View!Lookup /\ \A u \in Thread \ {t} : asked'[u] = asked[u]
    BY <2>1 DEF TypeOK
  <2> QED BY <2>1, <2>2, Moves DEF IInv, Asking, View!Lookup
<1>3. ASSUME NEW t \in Thread, Find(t) PROVE Asking'
  <2>1. GoTo(t, "idle") /\ asked' = [asked EXCEPT ![t] = None]
    BY <1>3 DEF Find
  <2>2. asked'[t] = None /\ \A u \in Thread \ {t} : asked'[u] = asked[u]
    BY <2>1 DEF TypeOK
  <2> QED BY <2>1, <2>2, Moves DEF IInv, Asking, View!Lookup
<1>4. ASSUME NEW t \in Thread, ReadBatch(t) \/ ApplyRecord(t) \/ Terminate(t) PROVE Asking'
  BY <1>4 DEF ReadBatch, ApplyRecord, Terminate, call, Asking, View!Lookup
<1>5. ASSUME NEW t \in Thread, Construct(t) \/ Constructed(t) \/ OpenLog(t) \/ OpenThrows(t) \/ ReadEnds(t)
                                 \/ ApplyThrows(t) \/ Publish(t) \/ Lock(t)
      PROVE  Asking'
  <2>1. pc[t] # "idle" /\ asked' = asked
    BY <1>5 DEF Construct, Constructed, OpenLog, OpenThrows, ReadEnds, ApplyThrows, Publish, Lock, Unwind, call
  <2>2. \E label \in Labels \ {"idle"} : GoTo(t, label)
    BY <1>5 DEF Construct, Constructed, OpenLog, OpenThrows, ReadEnds, ApplyThrows, Publish, Lock, Unwind, Labels
  <2> QED BY <2>1, <2>2, Moves DEF IInv, Asking, View!Lookup
<1> QED BY <1>1, <1>2, <1>3, <1>4, <1>5 DEF Next, Environment, Step

(* The catalogue and the lookups of the promise, in the terms of the code. *)
Catalogue == [ids |-> topic_ids_, names |-> topic_names_, parts |-> partition_ids_]
Shown     == IF guard = "set" THEN Catalogue ELSE Unloaded

LEMMA SameSnapshot ==
  ASSUME NEW n
  PROVE  View!Snapshot(n) = Snapshot(n) /\ (View!Readable(n) <=> Readable(n))
<1>1. View!Records(n) = Records(n)
  BY DEF View!Records, Records, View!Parsed, Parsed, View!Largest, Largest
<1>2. ASSUME NEW m PROVE View!topic_ids(m) = topic_ids(m)
  BY DEF View!topic_ids, topic_ids, View!OfType, OfType, View!Largest, Largest
<1>3. ASSUME NEW m PROVE View!topic_names(m) = topic_names(m)
  BY DEF View!topic_names, topic_names, View!OfType, OfType, View!Largest, Largest
<1>4. ASSUME NEW m PROVE View!partition_ids(m) = partition_ids(m)
  <2>1. ASSUME NEW S PROVE View!Cardinality(S) = Cardinality(S)
    BY DEF View!Cardinality, Cardinality
  <2>2. ASSUME NEW S, NEW k PROVE View!Nth(S, k) = Nth(S, k)
    <3>1. \A i : View!Cardinality({j \in S : j <= i}) = Cardinality({j \in S : j <= i})
      BY <2>1
    <3>2. {i \in S : View!Cardinality({j \in S : j <= i}) = k} = {i \in S : Cardinality({j \in S : j <= i}) = k}
      BY <3>1
    <3>3. ASSUME NEW T PROVE View!Largest(T) = Largest(T)
      BY DEF View!Largest, Largest
    <3> QED BY <3>2, <3>3 DEF View!Nth, Nth
  <2>3. View!OfType(m, "partition") = OfType(m, "partition")
    BY DEF View!OfType, OfType
  <2> QED BY <2>1, <2>2, <2>3 DEF View!partition_ids, partition_ids
<1>5. View!Snapshot(n) = Snapshot(n)
  BY <1>1, <1>2, <1>3, <1>4 DEF View!Snapshot, Snapshot
<1>6. View!Readable(n) <=> Readable(n)
  BY <1>1 DEF View!Readable, Readable
<1> QED BY <1>5, <1>6

LEMMA WholeLog ==
  ASSUME CatalogAssumption, NEW n \in {0} \cup BatchEnd, NoneKeyed(n)
  PROVE  Records(n) = n
<1>1. {0} \cup BatchEnd \subseteq Nat
  BY PositionsAreNumbers
<1>2. n \in Parsed(n) /\ \A b \in Parsed(n) : b \in Int /\ b <= n
  BY <1>1 DEF Parsed, NoneKeyed
<1> QED BY <1>2, LargestIs DEF Records

LEMMA ShownIsSnapshot ==
  ASSUME CatalogAssumption, TypeOK, AreMapsOf(got), NoneKeyed(got)
  PROVE  Catalogue = Snapshot(got)
<1>1. Records(got) = got
  BY WholeLog DEF TypeOK
<1> QED BY <1>1 DEF Snapshot, Catalogue, AreMapsOf

LEMMA Finding ==
  ASSUME TypeOK, Filled, Asking, CatalogAssumption, IInv, ViewAssumption,
         NEW t \in Thread, Find(t)
  PROVE  View!Answer(t)
<1>1. pc[t] = "find" /\ asked' = [asked EXCEPT ![t] = None] /\ UNCHANGED <<written, guard, maps>>
  BY DEF Find
<1>2. guard = "set" /\ asked[t] \in View!Lookup
  BY <1>1 DEF IInv, GuardedByStatic, Reading, Asking
<1>3. Shown = Catalogue /\ Shown' = Shown
  BY <1>1, <1>2 DEF Shown, Catalogue, maps
<1>4. Shown # Unloaded
  <2>1. Catalogue = Snapshot(got) /\ got \in {0} \cup BatchEnd
    BY <1>2, ShownIsSnapshot DEF Filled, TypeOK
  <2> QED BY <2>1, <1>3 DEF ViewAssumption
<1>5. asked[t] # None
  BY <1>2 DEF ViewAssumption
<1>6. asked[t].op \in {"get_topic_id", "get_topic_name", "get_partition_ids"}
  BY <1>2 DEF View!Lookup, View!Key
<1>7. View!Searched(Shown, asked[t].op) = SearchedMap(asked[t].op)
  BY <1>3, <1>6 DEF View!Searched, SearchedMap, Catalogue
<1>8. answer' = [answer EXCEPT ![t] = View!Found(Shown, asked[t])]
  BY <1>7 DEF Find, View!Found
<1> QED BY <1>1, <1>3, <1>4, <1>5, <1>8 DEF View!Answer, Shown, Catalogue

LEMMA Publishing ==
  ASSUME TypeOK, Filled, CatalogAssumption, IInv, NEW t \in Thread, Publish(t)
  PROVE  View!Load
<1>1. pc[t] = "apply" /\ next = got /\ guard' = "set" /\ UNCHANGED <<written, call, maps>>
  BY DEF Publish
<1>2. guard = "running"
  BY <1>1 DEF IInv, GuardedByStatic, Constructing
<1>3. AreMapsOf(got) /\ NoneKeyed(got) /\ NoneShort(got)
  BY <1>1 DEF Filled
<1>4. got \in {0} \cup BatchEnd /\ got <= written
  BY DEF TypeOK
<1>5. Records(got) = got /\ Catalogue = Snapshot(got)
  BY <1>3, <1>4, WholeLog, ShownIsSnapshot
<1>6. View!Readable(got) /\ Catalogue = View!Snapshot(got)
  BY <1>3, <1>5, SameSnapshot DEF Readable, NoneShort
<1>7. Shown = Unloaded /\ Shown' = Catalogue
  BY <1>1, <1>2 DEF Shown, Catalogue, maps
<1> QED BY <1>1, <1>4, <1>6, <1>7 DEF View!Load, Shown, Catalogue, call

LEMMA ViewStep ==
  ASSUME CatalogAssumption, ViewAssumption, IInv, TypeOK, Filled, Asking, [Next]_vars
  PROVE  [View!Next]_View!vars
<1>1. CASE UNCHANGED vars
  BY <1>1 DEF vars, call, maps, View!vars
<1>2. CASE LogAppend
  BY <1>2 DEF LogAppend, View!Write, View!Next, call, maps
<1>3. ASSUME NEW t \in Thread, Call(t) PROVE View!Next
  <2>1. asked[t] = None
    BY <1>3 DEF Call, Asking
  <2> QED BY <1>3, <2>1 DEF Call, View!Ask, View!Next, maps
<1>4. ASSUME NEW t \in Thread, Find(t) PROVE View!Next
  BY <1>4, Finding DEF View!Next
<1>5. ASSUME NEW t \in Thread, Publish(t) PROVE View!Next
  BY <1>5, Publishing DEF View!Next
<1>6. ASSUME NEW t \in Thread, Constructed(t) \/ ReadEnds(t) \/ OpenLog(t) \/ ReadBatch(t) \/ Terminate(t) \/ Lock(t)
      PROVE  UNCHANGED View!vars
  BY <1>6 DEF Constructed, ReadEnds, OpenLog, ReadBatch, Terminate, Lock, call, maps, View!vars
<1>7. ASSUME NEW t \in Thread, Construct(t) \/ ApplyRecord(t) \/ OpenThrows(t) \/ ApplyThrows(t)
      PROVE  UNCHANGED View!vars
  <2>1. guard # "set" /\ guard' # "set"
    <3>1. guard = "unset" \/ Constructing(t)
      BY <1>7 DEF Construct, ApplyRecord, OpenThrows, ApplyThrows, Constructing
    <3>2. guard # "set"
      BY <3>1 DEF IInv, GuardedByStatic
    <3> QED BY <1>7, <3>2 DEF Construct, ApplyRecord, OpenThrows, ApplyThrows, Unwind
  <2>2. UNCHANGED <<written, asked, answer>>
    BY <1>7 DEF Construct, ApplyRecord, OpenThrows, ApplyThrows, Unwind, call
  <2> QED BY <2>1, <2>2 DEF View!vars
<1> QED BY <1>1, <1>2, <1>3, <1>4, <1>5, <1>6, <1>7 DEF Next, Environment, Step

(* The maps built record by record under the guard of the static, from a   *)
(* log that grows, are one catalogue that appears at once, and every       *)
(* lookup is answered from it (cluster_metadata.cpp:12-76).                *)
THEOREM BuiltAsPromised == Spec => ImplementsView
<1>1. Init => View!Init
  BY DEF Init, View!Init
<1>2. Init => Filled /\ Asking
  <2> SUFFICES ASSUME Init PROVE Filled /\ Asking
    OBVIOUS
  <2>1. AreMapsOf(0)
    BY NoRecords DEF Init, AreMapsOf
  <2> QED BY <2>1 DEF Init, Filled, Asking
<1>3. IInv /\ TypeOK /\ Filled /\ Asking /\ [Next]_vars => Filled' /\ Asking'
  BY FilledStep, AskingStep, CatalogAssumption
<1>4. IInv /\ TypeOK /\ Filled /\ Asking /\ [Next]_vars => [View!Next]_View!vars
  BY ViewStep, CatalogAssumption, ViewAssumption
<1> QED BY <1>1, <1>2, <1>3, <1>4, Inductive, TypeCorrect, PTL DEF Spec, ImplementsView, View!Spec
=============================================================================
