------------------------------ MODULE RecordLog ------------------------------
(***************************************************************************)
(* read_record_batches (metadata/cluster_metadata.cpp:12-27) field by      *)
(* field, against a log the controller is still appending to, and the      *)
(* batches as RecordBatch::write puts them into the reply of a fetch.      *)
(*                                                                         *)
(* A file is the sequence of its fields; of a record's value, the sequence *)
(* of its bytes.  A field of variable length is the unsigned number its    *)
(* digits spell, in a file and in a reply.  A field some of whose bytes    *)
(* are missing is missing: the read of it meets the end of the file.       *)
(* Where batches and records are in a file is said by position, as many    *)
(* fields as come before them.                                             *)
(***************************************************************************)
EXTENDS VarintCodec, Sequences

CONSTANTS
  Files,    \* the logs there may be
  BatchAt,  \* where each batch of a log is, and after the last where the log ends
  RecordAt  \* where each record of a batch is, and after the last where the batch ends

(* The fields before the records in a batch, and before the value in a     *)
(* record, as Kafka's log format orders them.                              *)
BatchLayout ==
  <<"base_offset_", "batch_length_", "partition_leader_epoch_", "magic_", "crc_",
    "attributes_", "last_offset_delta_", "base_timestamp_", "max_timestamp_",
    "producer_id_", "producer_epoch_", "base_sequence_">>
RecordLayout ==
  <<"length_", "attributes_", "timestamp_delta_", "offset_delta_", "key", "value_len_">>

(* The members of a record that are VARINTs; one is a VARLONG.             *)
Varints  == {"length_", "offset_delta_", "value_len_"}
Varlongs == {"timestamp_delta_"}

(* What a field of a file may be, what Record::read makes of it, and what  *)
(* Record::write makes of the member.                                      *)
OnDisk(name) ==
  CASE name \in Varints  -> Encodings(HalfBits)
    [] name \in Varlongs -> Encodings(Bits)
    [] OTHER             -> Int
Decoded(name, u) ==
  CASE name \in Varints  -> read_varint(u)
    [] name \in Varlongs -> read_varlong(u)
    [] OTHER             -> u
Encoded(name, x) ==
  CASE name \in Varints  -> ZigZag(HalfBits, x)
    [] name \in Varlongs -> ZigZag(Bits, x)
    [] OTHER             -> x

(* What a length that may be negative announces.                           *)
Elements(n) == IF n < 0 THEN 0 ELSE n

Batches(l)    == 1 .. Len(BatchAt[l]) - 1
Records(l, k) == 1 .. Len(RecordAt[l][k]) - 1

ValueAt(l, k, r)     == RecordAt[l][k][r] + Len(RecordLayout)
ValueLength(l, k, r) == Elements(read_varint(Files[l][ValueAt(l, k, r)]))

(* Batch follows batch and record follows record; the count is before the  *)
(* first record, the length before the value and the headers behind it.    *)
ASSUME LogAssumption ==
  \A l \in DOMAIN Files :
    /\ Files[l] \in Seq(Int)
    /\ BatchAt[l] \in Seq(0 .. Len(Files[l])) \ {<<>>}
    /\ BatchAt[l][1] = 0 /\ BatchAt[l][Len(BatchAt[l])] = Len(Files[l])
    /\ \A j, k \in DOMAIN BatchAt[l] : j < k => BatchAt[l][j] < BatchAt[l][k]
    /\ \A k \in Batches(l) :
         /\ RecordAt[l][k] \in Seq(0 .. BatchAt[l][k + 1]) \ {<<>>}
         /\ RecordAt[l][k][1] = BatchAt[l][k] + Len(BatchLayout) + 1
         /\ Len(RecordAt[l][k]) = Elements(Files[l][RecordAt[l][k][1]]) + 1
         /\ RecordAt[l][k][Len(RecordAt[l][k])] = BatchAt[l][k + 1]
         /\ \A r \in Records(l, k) :
              /\ \A j \in DOMAIN RecordLayout :
                   Files[l][RecordAt[l][k][r] + j] \in OnDisk(RecordLayout[j])
              /\ ValueAt(l, k, r) < BatchAt[l][k + 1]
              /\ RecordAt[l][k][r + 1] = ValueAt(l, k, r) + ValueLength(l, k, r) + 1

(* n fields of a file, those of a record as they are read, and what they   *)
(* are to the object they are members of.                                  *)
Section(f, from, n) == [j \in 1..n |-> f[from + j]]
DecodedSection(f, from, n) == [j \in 1..n |-> Decoded(RecordLayout[j], f[from + j])]
Members(order, values) ==
  [m \in {order[j] : j \in DOMAIN order} |-> values[CHOOSE j \in DOMAIN order : order[j] = m]]

RecordIn(l, k, r) ==
  [head  |-> Members(RecordLayout, DecodedSection(Files[l], RecordAt[l][k][r], Len(RecordLayout))),
   value |-> Section(Files[l], ValueAt(l, k, r), ValueLength(l, k, r))]
BatchIn(l, k) ==
  [head    |-> Members(BatchLayout, Section(Files[l], BatchAt[l][k], Len(BatchLayout))),
   records |-> [r \in Records(l, k) |-> RecordIn(l, k, r)]]

(* A null key, a value that is there, no headers.                          *)
RecordParses(l, k, r) ==
  /\ RecordIn(l, k, r).head["key"] = 1
  /\ RecordIn(l, k, r).head["value_len_"] >= 0
  /\ Files[l][RecordAt[l][k][r + 1]] = 0

VARIABLES
  which,    \* the log, some of it not written yet
  size,     \* how many fields of it are on disk
  index,    \* how many the reader has read
  pc,       \* where the reader is
  fields,   \* the fields of the batch it has read
  left,     \* the records of the array it has still to read
  records,  \* those it has read
  record,   \* the fields of the record it has read
  value_,
  record_batches,
  reply,        \* what is written of them into a fetch reply
  batches_out,  \* how many are begun there
  records_out   \* how many records of the last of those are written

batch  == <<fields, left, records, record, value_>>
reader == <<index, pc, batch, record_batches>>
writer == <<reply, batches_out, records_out>>
vars   == <<which, size, reader, writer>>

file == Files[which]
log  == [k \in Batches(which) |-> BatchIn(which, k)]

Promise == INSTANCE BatchReader
             WITH whole <- {k \in Batches(which) : BatchAt[which][k + 1] <= size},
                  sound <- {k \in Batches(which) :
                              \A j \in 1..k : \A r \in Records(which, j) : RecordParses(which, j, r)},
                  returned <- pc = "returned"

Init ==
  /\ which \in DOMAIN Files
  /\ size = 0
  /\ index = 0
  /\ pc = "batch"
  /\ fields = <<>>
  /\ left = 0
  /\ records = <<>>
  /\ record = <<>>
  /\ value_ = <<>>
  /\ record_batches = <<>>
  /\ reply = <<>>
  /\ batches_out = 0
  /\ records_out = 0

(* The controller appends.                                                 *)
LogAppend ==
  /\ size < Len(file)
  /\ size' = size + 1
  /\ UNCHANGED <<which, reader, writer>>

-----------------------------------------------------------------------------
(* The order in which RecordBatch::read and Record::read ask for fields.   *)
BatchRead ==
  <<"base_offset_", "batch_length_", "partition_leader_epoch_", "magic_", "crc_",
    "attributes_", "last_offset_delta_", "base_timestamp_", "max_timestamp_",
    "producer_id_", "producer_epoch_", "base_sequence_">>
RecordRead ==
  <<"length_", "attributes_", "timestamp_delta_", "offset_delta_", "key", "value_len_">>

(* n fields can be read; the next one.                                     *)
There(n) == index + n <= size
Field    == file[index + 1]

ReadField ==
  /\ pc = "batch"
  /\ There(1)
  /\ fields' = Append(fields, Field)
  /\ index' = index + 1
  /\ pc' = IF Len(fields') = Len(BatchRead) THEN "count" ELSE "batch"
  /\ UNCHANGED <<which, size, writer, left, records, record, value_, record_batches>>

(* Mutant: a null array is not told apart.                                 *)
ReadCountUnsigned ==
  /\ pc = "count"
  /\ There(1)
  /\ index' = index + 1
  /\ left' = Field
  /\ pc' = IF left' = 0 THEN "push" ELSE "record"
  /\ UNCHANGED <<which, size, writer, fields, records, record, value_, record_batches>>

(* read_array: below 0, no elements.                                       *)
ReadCount ==
  /\ pc = "count"
  /\ There(1)
  /\ index' = index + 1
  /\ left' = Elements(Field)
  /\ pc' = IF left' = 0 THEN "push" ELSE "record"
  /\ UNCHANGED <<which, size, writer, fields, records, record, value_, record_batches>>

(* What Record::read takes the next field of a record for.                 *)
Member == RecordRead[Len(record) + 1]
Value  == Decoded(Member, Field)

(* Only a null key is expected, and no vector has a negative size.         *)
Refused ==
  /\ There(1)
  /\ \/ pc = "record" /\ Member = "key" /\ Value # 1
     \/ pc = "record" /\ Member = "value_len_" /\ Value < 0
     \/ pc = "headers" /\ Field # 0

ReadRecordField ==
  /\ pc = "record"
  /\ There(1)
  /\ ~Refused
  /\ record' = Append(record, Value)
  /\ index' = index + 1
  /\ pc' = IF Len(record') = Len(RecordRead) THEN "value" ELSE "record"
  /\ UNCHANGED <<which, size, writer, fields, left, records, value_, record_batches>>

ReadValue ==
  /\ pc = "value"
  /\ LET n == Members(RecordRead, record)["value_len_"]
     IN  /\ There(n)
         /\ value_' = Section(file, index, n)
         /\ index' = index + n
  /\ pc' = "headers"
  /\ UNCHANGED <<which, size, writer, fields, left, records, record, record_batches>>

(* No headers: the record is read.                                         *)
ReadHeaders ==
  /\ pc = "headers"
  /\ There(1)
  /\ ~Refused
  /\ index' = index + 1
  /\ records' = Append(records, [head |-> Members(RecordRead, record), value |-> value_])
  /\ record' = <<>>
  /\ value_' = <<>>
  /\ left' = left - 1
  /\ pc' = IF left' = 0 THEN "push" ELSE "record"
  /\ UNCHANGED <<which, size, writer, fields, record_batches>>

ReadBatch == [head |-> Members(BatchRead, fields), records |-> records]

PushBack ==
  /\ pc = "push"
  /\ record_batches' = Append(record_batches, ReadBatch)
  /\ fields' = <<>>
  /\ records' = <<>>
  /\ pc' = "batch"
  /\ UNCHANGED <<which, size, writer, index, left, record, value_>>

Missing == IF pc = "value" THEN ~There(Members(RecordRead, record)["value_len_"]) ELSE ~There(1)

(* Mutant: the batch is read in its place in the vector.                   *)
CatchKeepsPart ==
  /\ pc \in {"batch", "count", "record", "value", "headers"}
  /\ Missing \/ Refused
  /\ pc' = "returned"
  /\ record_batches' = IF Len(fields) = Len(BatchRead) THEN Append(record_batches, ReadBatch) ELSE record_batches
  /\ UNCHANGED <<which, size, writer, index, batch>>

(* Mutant: the end of the file is waited for to move on.                   *)
CatchRefusedOnly ==
  /\ pc \in {"batch", "count", "record", "value", "headers"}
  /\ Refused
  /\ pc' = "returned"
  /\ UNCHANGED <<which, size, writer, index, batch, record_batches>>

(* catch (...): the batches before this one are the result.                *)
Catch ==
  /\ pc \in {"batch", "count", "record", "value", "headers"}
  /\ Missing \/ Refused
  /\ pc' = "returned"
  /\ UNCHANGED <<which, size, writer, index, batch, record_batches>>

read_record_batches ==
  \/ ReadField
  \/ ReadCount
  \/ ReadRecordField
  \/ ReadValue
  \/ ReadHeaders
  \/ PushBack
  \/ Catch

-----------------------------------------------------------------------------
(* The batches read, as the reply to a fetch holds them.                   *)

RecordWritten ==
  <<"length_", "attributes_", "timestamp_delta_", "offset_delta_", "key", "value_len_">>

(* Mutant: two members of the same width in the wrong order.               *)
BatchWrittenSwapped ==
  <<"base_offset_", "batch_length_", "partition_leader_epoch_", "magic_", "crc_",
    "attributes_", "last_offset_delta_", "max_timestamp_", "base_timestamp_",
    "producer_id_", "producer_epoch_", "base_sequence_">>

(* The order in which RecordBatch::write puts the fields.                  *)
BatchWritten ==
  <<"base_offset_", "batch_length_", "partition_leader_epoch_", "magic_", "crc_",
    "attributes_", "last_offset_delta_", "base_timestamp_", "max_timestamp_",
    "producer_id_", "producer_epoch_", "base_sequence_">>

Fields(object, names)        == [j \in DOMAIN names |-> object[names[j]]]
EncodedFields(object, names) == [j \in DOMAIN names |-> Encoded(names[j], object[names[j]])]

(* The records of the batch that is being written.                         *)
Writing == IF batches_out = 0 THEN <<>> ELSE record_batches[batches_out].records
BatchIsWritten == records_out = Len(Writing)

(* RecordBatch::write, to the count that write_array begins with.          *)
WriteBatch ==
  /\ pc = "returned"
  /\ BatchIsWritten
  /\ batches_out < Len(record_batches)
  /\ batches_out' = batches_out + 1
  /\ records_out' = 0
  /\ LET b == record_batches[batches_out']
     IN  reply' = reply \o Fields(b.head, BatchWritten) \o <<Len(b.records)>>
  /\ UNCHANGED <<which, size, reader>>

(* A turn of write_array: Record::write.                                   *)
WriteRecord ==
  /\ pc = "returned"
  /\ ~BatchIsWritten
  /\ records_out' = records_out + 1
  /\ LET r == Writing[records_out']
     IN  reply' = reply \o EncodedFields(r.head, RecordWritten) \o r.value \o <<0>>
  /\ UNCHANGED <<which, size, reader, batches_out>>

Next == LogAppend \/ read_record_batches \/ WriteBatch \/ WriteRecord

(* The thread is scheduled.                                                *)
Spec == Init /\ [][Next]_vars /\ WF_vars(read_record_batches)

-----------------------------------------------------------------------------
(* Properties.                                                             *)

(* The reader is inside what is on disk, and inside its loops.             *)
TypeOK ==
  /\ which \in DOMAIN Files
  /\ size \in 0..Len(file)
  /\ index \in 0..size
  /\ pc \in {"batch", "count", "record", "value", "headers", "push", "returned"}
  /\ Len(fields) \in 0..Len(BatchRead)
  /\ Len(record) \in 0..Len(RecordRead)
  /\ left \in Nat
  /\ pc \in {"record", "value", "headers"} => left > 0
  /\ Len(record_batches) <= Len(log)
  /\ batches_out \in 0..Len(record_batches)
  /\ records_out \in 0..Len(Writing)

(* Where a fetch alters what it copies: at the count of a null array, and  *)
(* at a timestamp_delta_ that is the smallest VARLONG.                     *)
NullCount(j) == file[j] < 0 /\ \E k \in Batches(which) : j = RecordAt[which][k][1]
SmallestDelta(j) ==
  /\ file[j] = 2 ^ Bits - 1
  /\ \E k \in Batches(which) : \E r \in Records(which, k) : j = RecordAt[which][k][r] + 3

(* What a fetch sends is what is in the log, field by field and with       *)
(* nothing between two batches, but for these, which it sends as 0; and    *)
(* all of the batches read (cluster_metadata.hpp:19-56, 74-105,            *)
(* ireadable.hpp:65, ireadable.cpp:44).                                    *)
CopyButForEdges ==
  /\ Len(reply) <= size
  /\ \A j \in DOMAIN reply :
       reply[j] = file[j] \/ (reply[j] = 0 /\ (NullCount(j) \/ SmallestDelta(j)))
  /\ pc = "returned" /\ BatchIsWritten /\ batches_out = Len(record_batches) =>
       Len(reply) = BatchAt[which][Len(record_batches) + 1]

(* The reader delivers whole batches only, those that were on disk among   *)
(* them, up to the first that does not parse, also when it is appended to  *)
(* while it is being read (cluster_metadata.cpp:12-27).                    *)
ImplementsBatchReader == Promise!Spec

(* The loop without a condition ends, at the torn or missing end of a log  *)
(* the controller writes a bounded amount to (cluster_metadata.cpp:18).    *)
ReadingEnds == <>(pc = "returned")
=============================================================================
