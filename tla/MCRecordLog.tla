----------------------------- MODULE MCRecordLog -----------------------------
(***************************************************************************)
(* Logs for RecordLog: batches of no, one and two records, with values of  *)
(* no, one and two bytes, time stamps before and after that of the batch   *)
(* and one as far before it as can be told, a null array, and in the       *)
(* second place each kind of batch that does not parse.  Members hold      *)
(* different numbers, so that no two can be mistaken for each other.       *)
(***************************************************************************)
EXTENDS RecordLog, SequencesExt

HeadOf(k) ==
  [[f \in {BatchLayout[i] : i \in 1..12} |-> 10 * k + 100 * (CHOOSE i \in 1..12 : BatchLayout[i] = f)]
     EXCEPT !["producer_id_"] = -k]

RecordOf(k, value) ==
  [head |-> [length_ |-> 7 + Len(value), attributes_ |-> 50 + k, timestamp_delta_ |-> 60 + k,
             offset_delta_ |-> 70 + k, key |-> 1, value_len_ |-> Len(value)],
   value |-> value, headers |-> 0]

Stamped(r, delta) == [r EXCEPT !.head["timestamp_delta_"] = delta]

Batch(k, rs) == [head |-> HeadOf(k), count |-> Len(rs), records |-> rs]

Keyed      == [RecordOf(1, <<5>>) EXCEPT !.head["key"] = 4]
NullValue  == [RecordOf(1, <<>>) EXCEPT !.head["value_len_"] = -1]
WithHeader == [RecordOf(1, <<5>>) EXCEPT !.headers = 2]
NullArray  == [Batch(2, <<>>) EXCEPT !.count = -1]

SmallestVarlong == -(2 ^ (Bits - 1))

One   == Batch(1, <<RecordOf(1, <<5, 6>>), Stamped(RecordOf(2, <<>>), SmallestVarlong)>>)
Three == Batch(3, <<Stamped(RecordOf(1, <<9>>), -61)>>)

Second ==
  <<Batch(2, <<RecordOf(1, <<8>>)>>), NullArray, Batch(2, <<>>),
    Batch(2, <<RecordOf(2, <<8>>), Keyed>>), Batch(2, <<NullValue>>),
    Batch(2, <<WithHeader, RecordOf(2, <<8>>)>>)>>

Logs == [l \in DOMAIN Second |-> <<One, Second[l], Three>>]

(* The fields of a record and of a batch, and where they are in the file.  *)
OfRecord(r) == EncodedFields(r.head, RecordLayout) \o r.value \o <<r.headers>>
Opening(b)  == Fields(b.head, BatchLayout) \o <<b.count>>
OfBatch(b)  == Opening(b) \o FlattenSeq([j \in DOMAIN b.records |-> OfRecord(b.records[j])])

BatchesBefore(l, k) == FlattenSeq([j \in 1 .. k - 1 |-> OfBatch(Logs[l][j])])
RecordsBefore(b, r) == FlattenSeq([j \in 1 .. r - 1 |-> OfRecord(b.records[j])])

(* TLC evaluates a definition once, but what a constant stands for at each *)
(* use: that is to be no more than a name.                                 *)
FilesOfLogs    == [l \in DOMAIN Logs |-> BatchesBefore(l, Len(Logs[l]) + 1)]
BatchAtOfLogs  == [l \in DOMAIN Logs |-> [k \in 1 .. Len(Logs[l]) + 1 |-> Len(BatchesBefore(l, k))]]
RecordAtOfLogs ==
  [l \in DOMAIN Logs |-> [k \in DOMAIN Logs[l] |->
     LET b == Logs[l][k]
     IN  [r \in 1 .. Len(b.records) + 1 |->
            Len(BatchesBefore(l, k)) + Len(Opening(b)) + Len(RecordsBefore(b, r))]]]

LogFiles    == FilesOfLogs
LogBatchAt  == BatchAtOfLogs
LogRecordAt == RecordAtOfLogs
=============================================================================
