--------------------------- MODULE RecordLogProofs ---------------------------
(***************************************************************************)
(* RecordLog for any logs and widths: its types, what a fetch sends of a   *)
(* log, and that it implements BatchReader.  IInv says of every place in   *)
(* read_record_batches where in the log the reader then is and what it has *)
(* kept of what it passed; of the reply, how long it is and where it is a  *)
(* copy.                                                                   *)
(***************************************************************************)
EXTENDS RecordLog, VarintCodecProofs

(* The batch and the record that are being read.                           *)
Here == Len(record_batches) + 1
This == Len(records) + 1

AnyRecord == {RecordIn(which, k, r) : k \in Nat, r \in Nat}
AnyBatch  == {BatchIn(which, k) : k \in Nat}

Typed ==
  /\ which \in DOMAIN Files
  /\ size \in 0..Len(file)
  /\ index \in 0..size
  /\ pc \in {"batch", "count", "record", "value", "headers", "push", "returned"}
  /\ fields \in Seq(Int) /\ Len(fields) <= Len(BatchLayout)
  /\ record \in Seq(Int) /\ Len(record) <= Len(RecordLayout)
  /\ left \in Nat
  /\ records \in Seq(AnyRecord)
  /\ record_batches \in Seq(AnyBatch)

(* What has been read whole.                                               *)
BatchesRead ==
  /\ \A k \in 1..Len(record_batches) :
       /\ k \in Batches(which)
       /\ record_batches[k] = BatchIn(which, k)
       /\ \A r \in Records(which, k) : RecordParses(which, k, r)
  /\ Here \in DOMAIN BatchAt[which]
  /\ BatchAt[which][Here] <= index

RecordsRead ==
  pc # "returned" =>
    \A r \in 1..Len(records) : records[r] = RecordIn(which, Here, r) /\ RecordParses(which, Here, r)

(* Before, at and behind the array of a batch.                             *)
InHead ==
  /\ pc # "returned" => fields = Section(file, BatchAt[which][Here], Len(fields))
  /\ pc \in {"batch", "count"} =>
       index = BatchAt[which][Here] + Len(fields) /\ records = <<>> /\ record = <<>>
  /\ pc = "batch" => Len(fields) < Len(BatchLayout)
  /\ pc \notin {"batch", "returned"} => Here \in Batches(which) /\ Len(fields) = Len(BatchLayout)

AtEnd ==
  pc = "push" =>
    /\ index = BatchAt[which][Here + 1]
    /\ Len(records) = Len(RecordAt[which][Here]) - 1
    /\ record = <<>>

(* In a record.                                                            *)
InRecords ==
  pc \in {"record", "value", "headers"} =>
    /\ This \in Records(which, Here)
    /\ left = Len(RecordAt[which][Here]) - This
    /\ record = DecodedSection(file, RecordAt[which][Here][This], Len(record))
    /\ Len(record) >= 5 => record[5] = 1
    /\ pc = "record" => Len(record) < 6 /\ index = RecordAt[which][Here][This] + Len(record)
    /\ pc # "record" => Len(record) = 6 /\ record[6] >= 0
    /\ pc = "value" => index = ValueAt(which, Here, This)
    /\ pc = "headers" =>
         /\ index = RecordAt[which][Here][This + 1] - 1
         /\ value_ = Section(file, ValueAt(which, Here, This), ValueLength(which, Here, This))

Reads == BatchesRead /\ RecordsRead /\ InHead /\ AtEnd /\ InRecords

(* How far the reply is, and that it is a copy so far.                     *)
Edge(j)   == NullCount(j) \/ SmallestDelta(j)
Copied(s) == \A j \in 1..Len(s) : s[j] = file[j] \/ (s[j] = 0 /\ Edge(j))

Replies ==
  /\ batches_out \in 0..Len(record_batches)
  /\ pc # "returned" => batches_out = 0
  /\ batches_out = 0 => reply = <<>> /\ records_out = 0
  /\ batches_out > 0 =>
       /\ records_out \in 0 .. Len(RecordAt[which][batches_out]) - 1
       /\ Len(reply) = RecordAt[which][batches_out][records_out + 1]
  /\ reply \in Seq(Int)
  /\ Copied(reply)

IInv == Typed /\ Reads /\ Replies

-----------------------------------------------------------------------------
(* Layouts: the orders in which the code reads and writes are that of the  *)
(* format, and a layout gives back what was filed by it.                   *)

LEMMA Orders ==
  /\ BatchRead = BatchLayout /\ BatchWritten = BatchLayout
  /\ RecordRead = RecordLayout /\ RecordWritten = RecordLayout
BY DEF BatchRead, BatchLayout, BatchWritten, RecordRead, RecordLayout, RecordWritten

LEMMA Lengths ==
  /\ Len(BatchLayout) = 12 /\ DOMAIN BatchLayout = 1..12
  /\ Len(RecordLayout) = 6 /\ DOMAIN RecordLayout = 1..6
BY DEF BatchLayout, RecordLayout

LEMMA RecordNames ==
  /\ \A i, j \in 1..6 : RecordLayout[i] = RecordLayout[j] => i = j
  /\ RecordLayout[1] = "length_" /\ RecordLayout[2] = "attributes_"
  /\ RecordLayout[3] = "timestamp_delta_" /\ RecordLayout[4] = "offset_delta_"
  /\ RecordLayout[5] = "key" /\ RecordLayout[6] = "value_len_"
BY DEF RecordLayout

LEMMA BatchNames == \A i, j \in 1..12 : BatchLayout[i] = BatchLayout[j] => i = j
BY DEF BatchLayout

LEMMA Filed ==
  ASSUME NEW order, NEW values, NEW j \in DOMAIN order,
         \A i, h \in DOMAIN order : order[i] = order[h] => i = h
  PROVE  Members(order, values)[order[j]] = values[j]
<1> DEFINE m == order[j]
<1>1. m \in {order[h] : h \in DOMAIN order}
  OBVIOUS
<1>2. (CHOOSE h \in DOMAIN order : order[h] = m) = j
  OBVIOUS
<1> QED BY <1>1, <1>2 DEF Members

LEMMA FiledAndBack ==
  ASSUME NEW order, NEW values,
         \A i, h \in DOMAIN order : order[i] = order[h] => i = h
  PROVE  Fields(Members(order, values), order) = [j \in DOMAIN order |-> values[j]]
<1>1. \A j \in DOMAIN order : Members(order, values)[order[j]] = values[j]
  BY Filed
<1> HIDE DEF Members
<1> QED BY <1>1 DEF Fields

LEMMA EncodedFiledAndBack ==
  ASSUME NEW order, NEW values,
         \A i, h \in DOMAIN order : order[i] = order[h] => i = h
  PROVE  EncodedFields(Members(order, values), order) = [j \in DOMAIN order |-> Encoded(order[j], values[j])]
<1>1. \A j \in DOMAIN order : Members(order, values)[order[j]] = values[j]
  BY Filed
<1> HIDE DEF Members
<1> QED BY <1>1 DEF EncodedFields

(* Which of a record's fields the code converts, and to what.              *)
LEMMA Lengthened ==
  ASSUME NEW j \in {1, 4, 6}
  PROVE  /\ OnDisk(RecordLayout[j]) = Encodings(HalfBits)
         /\ \A u : Decoded(RecordLayout[j], u) = read_varint(u)
         /\ \A x : Encoded(RecordLayout[j], x) = ZigZag(HalfBits, x)
<1>1. RecordLayout[j] \in Varints
  BY RecordNames DEF Varints
<1>2. RecordLayout[j] \notin Varlongs
  BY RecordNames DEF Varlongs
<1> QED BY <1>1, <1>2 DEF OnDisk, Decoded, Encoded

LEMMA Stamped ==
  /\ OnDisk(RecordLayout[3]) = Encodings(Bits)
  /\ \A u : Decoded(RecordLayout[3], u) = read_varlong(u)
  /\ \A x : Encoded(RecordLayout[3], x) = ZigZag(Bits, x)
<1>1. RecordLayout[3] \notin Varints /\ RecordLayout[3] \in Varlongs
  BY RecordNames DEF Varints, Varlongs
<1> QED BY <1>1 DEF OnDisk, Decoded, Encoded

LEMMA Unchanged ==
  ASSUME NEW j \in {2, 5}
  PROVE  /\ OnDisk(RecordLayout[j]) = Int
         /\ \A u : Decoded(RecordLayout[j], u) = u /\ Encoded(RecordLayout[j], u) = u
<1>1. RecordLayout[j] \notin Varints /\ RecordLayout[j] \notin Varlongs
  BY RecordNames DEF Varints, Varlongs
<1> QED BY <1>1 DEF OnDisk, Decoded, Encoded

(* A field that is read and written is what it was, but for one.           *)
LEMMA ReadAndWritten ==
  ASSUME NEW j \in 1..6, NEW u \in OnDisk(RecordLayout[j])
  PROVE  LET x == Decoded(RecordLayout[j], u)
             v == Encoded(RecordLayout[j], x)
         IN  /\ u \in Int /\ x \in Int /\ v \in Int
             /\ v = u \/ (v = 0 /\ j = 3 /\ u = 2 ^ Bits - 1)
<1>1. CASE j \in {1, 4, 6}
  <2>1. u \in Encodings(HalfBits)
    BY <1>1, Lengthened
  <2>2. u \in Int
    BY <2>1, Powers DEF Encodings
  <2> QED BY <1>1, <2>1, <2>2, Lengthened, VarintWrittenBack
<1>2. CASE j = 3
  <2>1. u \in Encodings(Bits)
    BY <1>2, Stamped
  <2>2. u \in Int
    BY <2>1, Powers DEF Encodings
  <2>3. CASE u = 2 ^ Bits - 1
    BY <1>2, <2>2, <2>3, Stamped, LargestIsZero, ZeroWritten
  <2>4. CASE u # 2 ^ Bits - 1
    BY <1>2, <2>1, <2>2, <2>4, Stamped, VarlongWrittenBack
  <2> QED BY <2>3, <2>4
<1>3. CASE j \in {2, 5}
  BY <1>3, Unchanged
<1> QED BY <1>1, <1>2, <1>3

-----------------------------------------------------------------------------
(* Places in a log.                                                        *)

LEMMA Natural == ASSUME NEW n \in Int PROVE Elements(n) \in Nat
BY DEF Elements

LEMMA InSequence ==
  ASSUME NEW S, NEW s \in Seq(S), s # <<>>
  PROVE  Len(s) \in Nat \ {0} /\ DOMAIN s = 1..Len(s) /\ \A j \in 1..Len(s) : s[j] \in S
OBVIOUS

LEMMA InFile ==
  ASSUME NEW l \in DOMAIN Files
  PROVE  /\ Files[l] \in Seq(Int) /\ Len(Files[l]) \in Nat
         /\ \A p \in 1..Len(Files[l]) : Files[l][p] \in Int
<1>1. Files[l] \in Seq(Int)
  BY LogAssumption
<1> QED BY <1>1

LEMMA BatchPlaces ==
  ASSUME NEW l \in DOMAIN Files
  PROVE  /\ Len(BatchAt[l]) \in Nat \ {0} /\ DOMAIN BatchAt[l] = 1..Len(BatchAt[l])
         /\ \A k \in DOMAIN BatchAt[l] : BatchAt[l][k] \in 0..Len(Files[l])
         /\ BatchAt[l][1] = 0 /\ BatchAt[l][Len(BatchAt[l])] = Len(Files[l])
         /\ \A j, k \in DOMAIN BatchAt[l] : j < k => BatchAt[l][j] < BatchAt[l][k]
<1>1. BatchAt[l] \in Seq(0 .. Len(Files[l])) /\ BatchAt[l] # <<>>
  BY LogAssumption
<1>2. /\ BatchAt[l][1] = 0 /\ BatchAt[l][Len(BatchAt[l])] = Len(Files[l])
      /\ \A j, k \in DOMAIN BatchAt[l] : j < k => BatchAt[l][j] < BatchAt[l][k]
  BY LogAssumption
<1> QED BY <1>1, <1>2

LEMMA BatchPlace ==
  ASSUME NEW l \in DOMAIN Files, NEW k \in Batches(l)
  PROVE  /\ k \in Nat \ {0} /\ k \in DOMAIN BatchAt[l] /\ k + 1 \in DOMAIN BatchAt[l]
         /\ BatchAt[l][k] \in 0..Len(Files[l]) /\ BatchAt[l][k + 1] \in 0..Len(Files[l])
         /\ RecordAt[l][k] \in Seq(0 .. BatchAt[l][k + 1])
         /\ Len(RecordAt[l][k]) \in Nat \ {0}
         /\ \A j \in 1..Len(RecordAt[l][k]) : RecordAt[l][k][j] \in 0 .. BatchAt[l][k + 1]
         /\ RecordAt[l][k][1] = BatchAt[l][k] + 13
         /\ RecordAt[l][k][1] \in 1..BatchAt[l][k + 1]
         /\ Len(RecordAt[l][k]) = Elements(Files[l][RecordAt[l][k][1]]) + 1
         /\ RecordAt[l][k][Len(RecordAt[l][k])] = BatchAt[l][k + 1]
<1>1. k \in Nat \ {0} /\ k \in DOMAIN BatchAt[l] /\ k + 1 \in DOMAIN BatchAt[l]
  BY BatchPlaces DEF Batches
<1>2. BatchAt[l][k] \in 0..Len(Files[l]) /\ BatchAt[l][k + 1] \in 0..Len(Files[l])
  BY <1>1, BatchPlaces
<1>3. /\ RecordAt[l][k] \in Seq(0 .. BatchAt[l][k + 1]) /\ RecordAt[l][k] # <<>>
      /\ RecordAt[l][k][1] = BatchAt[l][k] + 13
      /\ Len(RecordAt[l][k]) = Elements(Files[l][RecordAt[l][k][1]]) + 1
      /\ RecordAt[l][k][Len(RecordAt[l][k])] = BatchAt[l][k + 1]
  <2>1. RecordAt[l][k] \in Seq(0 .. BatchAt[l][k + 1]) \ {<<>>}
    BY LogAssumption
  <2>2. RecordAt[l][k][1] = BatchAt[l][k] + 12 + 1
    BY LogAssumption, Lengths
  <2>3. /\ Len(RecordAt[l][k]) = Elements(Files[l][RecordAt[l][k][1]]) + 1
        /\ RecordAt[l][k][Len(RecordAt[l][k])] = BatchAt[l][k + 1]
    BY LogAssumption
  <2> QED BY <1>2, <2>1, <2>2, <2>3
<1>4. /\ Len(RecordAt[l][k]) \in Nat \ {0}
      /\ \A j \in 1..Len(RecordAt[l][k]) : RecordAt[l][k][j] \in 0 .. BatchAt[l][k + 1]
  BY <1>3, InSequence
<1>5. RecordAt[l][k][1] \in 0 .. BatchAt[l][k + 1]
  BY <1>4
<1> QED BY <1>1, <1>2, <1>3, <1>4, <1>5

LEMMA RecordFields ==
  ASSUME NEW l \in DOMAIN Files, NEW k \in Batches(l), NEW r \in Records(l, k), NEW j \in 1..6
  PROVE  Files[l][RecordAt[l][k][r] + j] \in OnDisk(RecordLayout[j])
BY LogAssumption, Lengths

LEMMA RecordPlace ==
  ASSUME NEW l \in DOMAIN Files, NEW k \in Batches(l), NEW r \in Records(l, k)
  PROVE  /\ r \in Nat \ {0} /\ r + 1 \in 1..Len(RecordAt[l][k])
         /\ RecordAt[l][k][r] \in 0 .. BatchAt[l][k + 1]
         /\ RecordAt[l][k][r + 1] \in 0 .. BatchAt[l][k + 1]
         /\ ValueAt(l, k, r) = RecordAt[l][k][r] + 6
         /\ ValueLength(l, k, r) \in Nat
         /\ RecordAt[l][k][r + 1] = RecordAt[l][k][r] + 7 + ValueLength(l, k, r)
<1> USE Lengths
<1>1. r \in Nat \ {0} /\ r \in 1..Len(RecordAt[l][k]) /\ r + 1 \in 1..Len(RecordAt[l][k])
  BY BatchPlace DEF Records
<1>2. RecordAt[l][k][r] \in 0 .. BatchAt[l][k + 1] /\ RecordAt[l][k][r + 1] \in 0 .. BatchAt[l][k + 1]
  BY <1>1, BatchPlace
<1>3. RecordAt[l][k][r + 1] = ValueAt(l, k, r) + ValueLength(l, k, r) + 1
  BY LogAssumption
<1>4. ValueAt(l, k, r) = RecordAt[l][k][r] + 6
  BY DEF ValueAt
<1>5. ValueLength(l, k, r) \in Nat
  <2>1. Files[l][RecordAt[l][k][r] + 6] \in Encodings(HalfBits)
    BY RecordFields, Lengthened
  <2>2. read_varint(Files[l][ValueAt(l, k, r)]) \in Int
    BY <1>4, <2>1, VarintWrittenBack
  <2> QED BY <2>2, Natural DEF ValueLength
<1> QED BY <1>1, <1>2, <1>3, <1>4, <1>5

(* What a record and a batch are made of, and a record is sent as.         *)
Resent(f, at) == [j \in 1..6 |-> Encoded(RecordLayout[j], Decoded(RecordLayout[j], f[at + j]))]

LEMMA RecordMade ==
  ASSUME NEW l \in DOMAIN Files, NEW k \in Batches(l), NEW r \in Records(l, k)
  PROVE  /\ RecordParses(l, k, r) <=>
              /\ Files[l][RecordAt[l][k][r] + 5] = 1
              /\ read_varint(Files[l][RecordAt[l][k][r] + 6]) >= 0
              /\ Files[l][RecordAt[l][k][r + 1]] = 0
         /\ EncodedFields(RecordIn(l, k, r).head, RecordLayout) = Resent(Files[l], RecordAt[l][k][r])
         /\ RecordIn(l, k, r).value = Section(Files[l], ValueAt(l, k, r), ValueLength(l, k, r))
<1> DEFINE s == DecodedSection(Files[l], RecordAt[l][k][r], 6)
<1>1. RecordIn(l, k, r).head = Members(RecordLayout, s)
  BY Lengths DEF RecordIn
<1>2. RecordIn(l, k, r).value = Section(Files[l], ValueAt(l, k, r), ValueLength(l, k, r))
  BY DEF RecordIn
<1>3. \A j \in 1..6 : s[j] = Decoded(RecordLayout[j], Files[l][RecordAt[l][k][r] + j])
  BY DEF DecodedSection
<1>4. s[5] = Files[l][RecordAt[l][k][r] + 5] /\ s[6] = read_varint(Files[l][RecordAt[l][k][r] + 6])
  BY <1>3, Unchanged, Lengthened
<1> HIDE DEF s
<1>5. Members(RecordLayout, s)[RecordLayout[5]] = s[5] /\ Members(RecordLayout, s)[RecordLayout[6]] = s[6]
  BY Lengths, RecordNames, Filed
<1>6. EncodedFields(Members(RecordLayout, s), RecordLayout) = [j \in 1..6 |-> Encoded(RecordLayout[j], s[j])]
  BY Lengths, RecordNames, EncodedFiledAndBack
<1>7. EncodedFields(RecordIn(l, k, r).head, RecordLayout) = Resent(Files[l], RecordAt[l][k][r])
  BY <1>1, <1>3, <1>6 DEF Resent
<1>8. RecordIn(l, k, r).head["key"] = s[5] /\ RecordIn(l, k, r).head["value_len_"] = s[6]
  BY <1>1, <1>5, RecordNames
<1>9. RecordParses(l, k, r) <=> s[5] = 1 /\ s[6] >= 0 /\ Files[l][RecordAt[l][k][r + 1]] = 0
  BY <1>8 DEF RecordParses
<1> QED BY <1>2, <1>4, <1>7, <1>9

LEMMA BatchMade ==
  ASSUME NEW l \in DOMAIN Files, NEW k \in Batches(l)
  PROVE  /\ BatchIn(l, k).records = [r \in Records(l, k) |-> RecordIn(l, k, r)]
         /\ Len(BatchIn(l, k).records) = Len(RecordAt[l][k]) - 1
         /\ Fields(BatchIn(l, k).head, BatchLayout) = Section(Files[l], BatchAt[l][k], 12)
<1> DEFINE s == Section(Files[l], BatchAt[l][k], 12)
<1>1. BatchIn(l, k).head = Members(BatchLayout, s)
  BY Lengths DEF BatchIn
<1>2. BatchIn(l, k).records = [r \in Records(l, k) |-> RecordIn(l, k, r)]
  BY DEF BatchIn
<1>3. Len(BatchIn(l, k).records) = Len(RecordAt[l][k]) - 1
  <2>1. Len(RecordAt[l][k]) - 1 \in Nat
    BY BatchPlace
  <2> QED BY <1>2, <2>1 DEF Records
<1>4. s = [j \in 1..12 |-> s[j]]
  BY DEF Section
<1> HIDE DEF s
<1>5. Fields(Members(BatchLayout, s), BatchLayout) = [j \in DOMAIN BatchLayout |-> s[j]]
  BY Lengths, BatchNames, FiledAndBack
<1> QED BY <1>1, <1>2, <1>3, <1>4, <1>5, Lengths DEF s

-----------------------------------------------------------------------------
(* Sections that grow.                                                     *)

LEMMA SectionGrows ==
  ASSUME NEW f, NEW from, NEW s \in Seq(Int), s = Section(f, from, Len(s)),
         NEW x \in Int, x = f[from + (Len(s) + 1)]
  PROVE  /\ Append(s, x) \in Seq(Int) /\ Len(Append(s, x)) = Len(s) + 1
         /\ Append(s, x) = Section(f, from, Len(s) + 1)
         /\ \A j \in 1..Len(s) : Append(s, x)[j] = s[j]
         /\ Append(s, x)[Len(s) + 1] = x
<1> DEFINE a == Append(s, x)
           n == Len(s) + 1
<1>1. a \in Seq(Int) /\ Len(a) = n /\ n \in Nat
  OBVIOUS
<1>2. (\A j \in 1..Len(s) : a[j] = s[j]) /\ a[n] = x
  OBVIOUS
<1>3. \A j \in 1..Len(s) : s[j] = f[from + j]
  BY DEF Section
<1>4. a = [j \in 1..n |-> a[j]]
  BY <1>1
<1> HIDE DEF a
<1>5. \A j \in 1..n : a[j] = f[from + j]
  <2> SUFFICES ASSUME NEW j \in 1..n PROVE a[j] = f[from + j]
    OBVIOUS
  <2>1. CASE j = n
    BY <2>1, <1>2
  <2>2. CASE j \in 1..Len(s)
    BY <2>2, <1>2, <1>3
  <2> QED BY <2>1, <2>2, <1>1
<1>6. a = Section(f, from, n)
  BY <1>4, <1>5 DEF Section
<1> QED BY <1>1, <1>2, <1>6 DEF a

LEMMA DecodedGrows ==
  ASSUME NEW f, NEW from, NEW s \in Seq(Int), s = DecodedSection(f, from, Len(s)),
         NEW x \in Int, x = Decoded(RecordLayout[Len(s) + 1], f[from + (Len(s) + 1)])
  PROVE  /\ Append(s, x) \in Seq(Int) /\ Len(Append(s, x)) = Len(s) + 1
         /\ Append(s, x) = DecodedSection(f, from, Len(s) + 1)
         /\ \A j \in 1..Len(s) : Append(s, x)[j] = s[j]
         /\ Append(s, x)[Len(s) + 1] = x
<1> DEFINE a == Append(s, x)
           n == Len(s) + 1
<1>1. a \in Seq(Int) /\ Len(a) = n /\ n \in Nat
  OBVIOUS
<1>2. (\A j \in 1..Len(s) : a[j] = s[j]) /\ a[n] = x
  OBVIOUS
<1>3. \A j \in 1..Len(s) : s[j] = Decoded(RecordLayout[j], f[from + j])
  BY DEF DecodedSection
<1>4. a = [j \in 1..n |-> a[j]]
  BY <1>1
<1> HIDE DEF a
<1>5. \A j \in 1..n : a[j] = Decoded(RecordLayout[j], f[from + j])
  <2> SUFFICES ASSUME NEW j \in 1..n PROVE a[j] = Decoded(RecordLayout[j], f[from + j])
    OBVIOUS
  <2>1. CASE j = n
    BY <2>1, <1>2
  <2>2. CASE j \in 1..Len(s)
    BY <2>2, <1>2, <1>3
  <2> QED BY <2>1, <2>2, <1>1
<1>6. a = DecodedSection(f, from, n)
  BY <1>4, <1>5 DEF DecodedSection
<1> QED BY <1>1, <1>2, <1>6 DEF a

LEMMA SectionTyped ==
  ASSUME NEW f \in Seq(Int), NEW from \in Nat, NEW n \in Nat, from + n <= Len(f)
  PROVE  Section(f, from, n) \in Seq(Int) /\ Len(Section(f, from, n)) = n
<1>1. \A j \in 1..n : f[from + j] \in Int
  OBVIOUS
<1> QED BY <1>1 DEF Section

(* The reply grows by a copy.                                              *)
Continues(s, t) ==
  \A j \in 1..Len(t) : t[j] = file[Len(s) + j] \/ (t[j] = 0 /\ Edge(Len(s) + j))

LEMMA CopyGrows ==
  ASSUME NEW s \in Seq(Int), Copied(s), NEW t \in Seq(Int), Continues(s, t)
  PROVE  s \o t \in Seq(Int) /\ Len(s \o t) = Len(s) + Len(t) /\ Copied(s \o t)
<1> DEFINE a == s \o t
<1>1. /\ a \in Seq(Int) /\ Len(a) = Len(s) + Len(t)
      /\ \A j \in 1..Len(s) : a[j] = s[j]
      /\ \A j \in 1..Len(t) : a[Len(s) + j] = t[j]
  OBVIOUS
<1> HIDE DEF a
<1>2. ASSUME NEW j \in 1..Len(a)
      PROVE  a[j] = file[j] \/ (a[j] = 0 /\ Edge(j))
  <2>1. CASE j \in 1..Len(s)
    BY <2>1, <1>1 DEF Copied
  <2>2. CASE j > Len(s)
    <3>1. PICK i \in 1..Len(t) : j = Len(s) + i
      <4>1. j - Len(s) \in 1..Len(t) /\ j = Len(s) + (j - Len(s))
        BY <2>2, <1>1
      <4> QED BY <4>1
    <3>2. a[Len(s) + i] = t[i]
      BY <1>1
    <3>3. t[i] = file[Len(s) + i] \/ (t[i] = 0 /\ Edge(Len(s) + i))
      BY DEF Continues
    <3> HIDE DEF file
    <3> QED BY <3>1, <3>2, <3>3
  <2> QED BY <2>1, <2>2, <1>1
<1>3. Copied(a)
  BY <1>2 DEF Copied
<1> QED BY <1>1, <1>3 DEF a

-----------------------------------------------------------------------------
(* Each step preserves the invariant.                                      *)

LEMMA InitInv == Init => IInv
<1> SUFFICES ASSUME Init PROVE IInv
  OBVIOUS
<1> USE DEF Init
<1>1. Len(file) \in Nat
  BY InFile DEF file
<1>2. Typed
  BY <1>1, Lengths DEF Typed
<1>3. 1 \in DOMAIN BatchAt[which] /\ BatchAt[which][1] = 0
  BY BatchPlaces
<1>4. Here = 1
  BY DEF Here
<1>5. <<>> = Section(file, BatchAt[which][Here], Len(<<>>))
  BY DEF Section
<1>6. Reads
  BY <1>3, <1>4, <1>5, Lengths DEF Reads, BatchesRead, RecordsRead, InHead, AtEnd, InRecords
<1>7. Replies
  BY DEF Replies, Copied
<1> QED BY <1>2, <1>6, <1>7 DEF IInv

(* The controller moves nothing but the end of the file.                   *)
LEMMA LogAppendInv == IInv /\ LogAppend => IInv'
<1> SUFFICES ASSUME IInv, LogAppend PROVE IInv'
  OBVIOUS
<1> USE DEF LogAppend, reader, writer, batch
<1>1. Typed'
  <2>1. size \in 0..Len(file) /\ Len(file) \in Nat /\ index \in 0..size
    BY InFile DEF IInv, Typed, file
  <2>2. size' \in 0..Len(file) /\ index \in 0..size' /\ file' = file
    BY <2>1 DEF file
  <2> QED BY <2>2 DEF IInv, Typed, AnyRecord, AnyBatch
<1>2. Reads'
  BY DEF IInv, Reads, BatchesRead, RecordsRead, InHead, AtEnd, InRecords, Here, This, file
<1>3. Replies'
  BY DEF IInv, Replies, Copied, Edge, NullCount, SmallestDelta, file
<1> QED BY <1>1, <1>2, <1>3 DEF IInv

(* While batches are read there is no reply.                               *)
LEMMA NoReplyYet ==
  ASSUME IInv, pc # "returned", UNCHANGED <<which, writer>>, Len(record_batches') \in Nat
  PROVE  Replies'
<1>1. batches_out = 0 /\ reply = <<>> /\ records_out = 0
  BY DEF IInv, Replies
<1>2. batches_out' = 0 /\ reply' = <<>> /\ records_out' = 0
  BY <1>1 DEF writer
<1> QED BY <1>2 DEF Replies, Copied

(* What every step of the reader starts from.                              *)
LEMMA Reader ==
  ASSUME IInv
  PROVE  /\ which \in DOMAIN Files /\ file \in Seq(Int) /\ Len(file) \in Nat
         /\ size \in 0..Len(file) /\ index \in 0..size
         /\ \A p \in 1..Len(file) : file[p] \in Int
         /\ Len(record_batches) \in Nat /\ Len(records) \in Nat
         /\ Here \in DOMAIN BatchAt[which] /\ BatchAt[which][Here] \in 0..index
<1>1. which \in DOMAIN Files /\ file \in Seq(Int) /\ Len(file) \in Nat /\ \A p \in 1..Len(file) : file[p] \in Int
  BY InFile DEF IInv, Typed, file
<1>2. size \in 0..Len(file) /\ index \in 0..size /\ Len(record_batches) \in Nat /\ Len(records) \in Nat
  BY DEF IInv, Typed
<1>3. Here \in DOMAIN BatchAt[which] /\ BatchAt[which][Here] <= index
  BY DEF IInv, Reads, BatchesRead
<1>4. BatchAt[which][Here] \in 0..Len(file)
  BY <1>1, <1>3, BatchPlaces DEF file
<1> QED BY <1>1, <1>2, <1>3, <1>4

LEMMA ReadFieldInv == IInv /\ ReadField => IInv'
<1> SUFFICES ASSUME IInv, ReadField PROVE IInv'
  OBVIOUS
<1> DEFINE at == BatchAt[which][Here]
<1>1. /\ pc = "batch" /\ index + 1 <= size /\ index' = index + 1
      /\ fields' = Append(fields, file[index + 1])
      /\ pc' = IF Len(fields') = 12 THEN "count" ELSE "batch"
      /\ UNCHANGED <<which, size, left, records, record, value_, record_batches>>
      /\ UNCHANGED <<which, writer>>
  BY Orders, Lengths DEF ReadField, There, Field, writer
<1>2. /\ fields \in Seq(Int) /\ Len(fields) < 12 /\ fields = Section(file, at, Len(fields))
      /\ index = at + Len(fields) /\ records = <<>> /\ record = <<>>
  <2>1. fields \in Seq(Int)
    BY DEF IInv, Typed
  <2>2. fields = Section(file, at, Len(fields))
    BY <1>1 DEF IInv, Reads, InHead
  <2>3. Len(fields) < 12 /\ index = at + Len(fields) /\ records = <<>> /\ record = <<>>
    BY <1>1, Lengths DEF IInv, Reads, InHead
  <2> QED BY <2>1, <2>2, <2>3
<1>3. /\ index \in Nat /\ at \in 0..index /\ index + 1 \in 1..Len(file)
      /\ Len(fields) \in Nat /\ file[index + 1] \in Int
  <2>1. index \in Nat /\ at \in 0..index /\ index + 1 \in 1..Len(file)
    BY <1>1, Reader
  <2>2. file[index + 1] \in Int
    BY <2>1, Reader
  <2> QED BY <1>2, <2>1, <2>2
<1>4. index + 1 = at + (Len(fields) + 1)
  <2>1. index = at + Len(fields)
    BY <1>2
  <2>2. index \in Nat /\ at \in 0..index /\ Len(fields) \in Nat
    BY <1>3
  <2> HIDE DEF at
  <2> QED BY <2>1, <2>2
<1>5. fields' \in Seq(Int) /\ Len(fields') = Len(fields) + 1 /\ fields' = Section(file, at, Len(fields'))
  <2> HIDE DEF at, file
  <2>1. file[index + 1] = file[at + (Len(fields) + 1)]
    BY <1>4
  <2> QED BY <1>1, <1>2, <1>3, <2>1, SectionGrows
<1>6. Here' = Here /\ file' = file /\ at' = at
  BY <1>1 DEF Here, file
<1>7. Typed'
  <2>1. index' \in 0..size' /\ size' \in 0..Len(file')
    BY <1>1, <1>3, <1>6, Reader
  <2>2. pc' \in {"batch", "count"}
    BY <1>1
  <2>3. Len(fields') <= 12
    BY <1>2, <1>3, <1>5
  <2> QED BY <1>1, <1>5, <2>1, <2>2, <2>3, Lengths DEF IInv, Typed, AnyRecord, AnyBatch
<1>8. BatchesRead'
  <2>1. BatchAt[which][Here] <= index + 1
    BY <1>1, Reader
  <2> QED BY <1>1, <1>6, <2>1 DEF IInv, Reads, BatchesRead
<1>9. Here \in Batches(which)
  <2>1. Here # Len(BatchAt[which])
    BY <1>3, BatchPlaces, Reader DEF file
  <2> QED BY <2>1, BatchPlaces, Reader DEF Batches
<1>10. InHead'
  <2>1. pc' = "count" => Len(fields') = 12
    BY <1>1
  <2>2. pc' = "batch" => Len(fields') < 12
    BY <1>1, <1>2, <1>3, <1>5
  <2>3. index' = at + Len(fields')
    BY <1>1, <1>4, <1>5
  <2>4. pc' \in {"batch", "count"}
    BY <1>1
  <2> QED BY <1>1, <1>2, <1>5, <1>6, <1>9, <2>1, <2>2, <2>3, <2>4, Lengths DEF InHead
<1>11. RecordsRead' /\ AtEnd' /\ InRecords'
  <2>1. Len(records') = 0
    BY <1>1, <1>2
  <2> QED BY <1>1, <2>1 DEF RecordsRead, AtEnd, InRecords
<1>12. Replies'
  BY <1>1, NoReplyYet, Reader
<1> QED BY <1>7, <1>8, <1>10, <1>11, <1>12 DEF IInv, Reads

LEMMA ReadCountInv == IInv /\ ReadCount => IInv'
<1> SUFFICES ASSUME IInv, ReadCount PROVE IInv'
  OBVIOUS
<1> DEFINE at == BatchAt[which][Here]
           c  == RecordAt[which][Here][1]
<1>1. /\ pc = "count" /\ index + 1 <= size /\ index' = index + 1
      /\ left' = Elements(file[index + 1])
      /\ pc' = IF left' = 0 THEN "push" ELSE "record"
      /\ UNCHANGED <<which, size, fields, records, record, value_, record_batches>>
      /\ UNCHANGED <<which, writer>>
  BY DEF ReadCount, There, Field, writer
<1>2. /\ Here \in Batches(which) /\ Len(fields) = 12 /\ index = at + 12
      /\ records = <<>> /\ record = <<>>
  BY <1>1, Lengths DEF IInv, Reads, InHead
<1>3. at \in 0..index /\ index + 1 \in 1..Len(file) /\ file[index + 1] \in Int
  BY <1>1, Reader
<1>4. index + 1 = c
  BY <1>2, <1>3, BatchPlace, Reader
<1>5. left' = Len(RecordAt[which][Here]) - 1 /\ left' \in Nat /\ Len(RecordAt[which][Here]) \in Nat
  <2>1. left' \in Nat
    BY <1>1, <1>3, Natural
  <2>2. Len(RecordAt[which][Here]) = left' + 1
    BY <1>1, <1>2, <1>4, BatchPlace, Reader DEF file
  <2> DEFINE n == left'
             m == Len(RecordAt[which][Here])
  <2>3. n \in Nat /\ m = n + 1
    BY <2>1, <2>2
  <2> HIDE DEF n, m
  <2>4. n = m - 1 /\ m \in Nat
    BY <2>3
  <2> QED BY <2>3, <2>4 DEF n, m
<1>6. Here' = Here /\ file' = file /\ Len(records) = 0 /\ Len(record) = 0 /\ This' = 1
  BY <1>1, <1>2 DEF Here, This, file
<1>7. Typed'
  <2>1. index' \in 0..size' /\ size' \in 0..Len(file')
    BY <1>1, <1>3, <1>6, Reader
  <2>2. pc' \in {"push", "record"}
    BY <1>1
  <2> QED BY <1>1, <1>5, <2>1, <2>2 DEF IInv, Typed, AnyRecord, AnyBatch
<1>8. BatchesRead'
  <2>1. BatchAt[which][Here] <= index + 1
    BY <1>1, Reader
  <2> QED BY <1>1, <1>6, <2>1 DEF IInv, Reads, BatchesRead
<1>9. InHead'
  <2>1. pc' \in {"push", "record"}
    BY <1>1
  <2> QED BY <1>1, <1>2, <1>6, <2>1, Lengths DEF IInv, Reads, InHead
<1>10. AtEnd'
  <2> SUFFICES ASSUME left' = 0
               PROVE  /\ index + 1 = BatchAt[which][Here + 1]
                      /\ 0 = Len(RecordAt[which][Here]) - 1
    BY <1>1, <1>2, <1>6 DEF AtEnd
  <2>1. Len(RecordAt[which][Here]) = 1
    BY <1>5
  <2>2. RecordAt[which][Here][Len(RecordAt[which][Here])] = BatchAt[which][Here + 1]
    BY <1>2, BatchPlace, Reader
  <2> QED BY <1>4, <2>1, <2>2
<1>11. InRecords'
  <2> SUFFICES ASSUME left' # 0
               PROVE  /\ 1 \in Records(which, Here)
                      /\ left' = Len(RecordAt[which][Here]) - 1
                      /\ <<>> = DecodedSection(file, RecordAt[which][Here][1], 0)
                      /\ index + 1 = RecordAt[which][Here][1] + 0
    BY <1>1, <1>2, <1>6 DEF InRecords
  <2>1. <<>> = DecodedSection(file, c, 0)
    BY DEF DecodedSection
  <2>2. 1 \in Records(which, Here)
    <3> DEFINE n == left'
               m == Len(RecordAt[which][Here])
    <3>1. n = m - 1 /\ n \in Nat /\ m \in Nat /\ n # 0
      BY <1>5
    <3> HIDE DEF n, m
    <3>2. 1 \in 1 .. m - 1
      BY <3>1
    <3> QED BY <3>2 DEF Records, m
  <2>3. index + 1 = c + 0
    BY <1>3, <1>4
  <2> QED BY <1>5, <2>1, <2>2, <2>3
<1>12. RecordsRead'
  BY <1>1, <1>6 DEF RecordsRead
<1>13. Replies'
  BY <1>1, NoReplyYet, Reader
<1> QED BY <1>7, <1>8, <1>9, <1>10, <1>11, <1>12, <1>13 DEF IInv, Reads

(* In a record, what is known of it.                                       *)
LEMMA InRecord ==
  ASSUME IInv, pc \in {"record", "value", "headers"}
  PROVE  /\ Here \in Batches(which) /\ This \in Records(which, Here)
         /\ record \in Seq(Int) /\ Len(record) \in 0..6
         /\ record = DecodedSection(file, RecordAt[which][Here][This], Len(record))
         /\ Len(record) >= 5 => record[5] = 1
         /\ left \in Nat /\ left = Len(RecordAt[which][Here]) - This
<1>1. record \in Seq(Int) /\ left \in Nat
  BY DEF IInv, Typed
<1>2. Len(record) \in 0..6
  <2>1. Len(record) \in Nat
    BY <1>1
  <2>2. Len(record) <= 6
    BY Lengths DEF IInv, Typed
  <2> DEFINE n == Len(record)
  <2> HIDE DEF n
  <2>3. n \in Nat /\ n <= 6 => n \in 0..6
    OBVIOUS
  <2> QED BY <2>1, <2>2, <2>3 DEF n
<1>3. Here \in Batches(which)
  BY DEF IInv, Reads, InHead
<1>4. /\ This \in Records(which, Here)
      /\ record = DecodedSection(file, RecordAt[which][Here][This], Len(record))
      /\ Len(record) >= 5 => record[5] = 1
      /\ left = Len(RecordAt[which][Here]) - This
  BY DEF IInv, Reads, InRecords
<1> QED BY <1>1, <1>2, <1>3, <1>4 DEF IInv, Reads

LEMMA ReadRecordFieldInv == IInv /\ ReadRecordField => IInv'
<1> SUFFICES ASSUME IInv, ReadRecordField PROVE IInv'
  OBVIOUS
<1> DEFINE at == RecordAt[which][Here][This]
           n  == Len(record)
           u  == file[index + 1]
           x  == Decoded(RecordLayout[n + 1], u)
<1>1. /\ pc = "record" /\ index + 1 <= size /\ index' = index + 1
      /\ record' = Append(record, x)
      /\ pc' = IF Len(record') = 6 THEN "value" ELSE "record"
      /\ UNCHANGED <<which, size, fields, left, records, value_, record_batches>>
      /\ UNCHANGED <<which, writer>>
  BY Orders, Lengths DEF ReadRecordField, There, Field, Member, Value, writer
<1>2. /\ Here \in Batches(which) /\ This \in Records(which, Here)
      /\ record \in Seq(Int) /\ record = DecodedSection(file, at, n)
      /\ n >= 5 => record[5] = 1
      /\ left = Len(RecordAt[which][Here]) - This
  BY <1>1, InRecord
<1>3. n \in 0..5 /\ index = at + n
  <2>1. n \in 0..6
    BY <1>1, InRecord
  <2>2. n < 6 /\ index = at + n
    BY <1>1 DEF IInv, Reads, InRecords
  <2> HIDE DEF n, at
  <2> QED BY <2>1, <2>2
<1>4. index \in Nat /\ at \in Nat /\ index + 1 \in 1..Len(file)
  <2>1. at \in Nat
    BY <1>2, RecordPlace, Reader
  <2>2. index \in Nat /\ index + 1 \in 1..Len(file)
    BY <1>1, Reader
  <2> QED BY <2>1, <2>2
<1>5. index + 1 = at + (n + 1) /\ n + 1 \in 1..6
  <2> HIDE DEF at, n
  <2> QED BY <1>3, <1>4
<1>6. x \in Int
  <2>1. u \in OnDisk(RecordLayout[n + 1])
    <3>1. which \in DOMAIN Files
      BY Reader
    <3>2. \A j \in 1..6 : Files[which][at + j] \in OnDisk(RecordLayout[j])
      BY <1>2, <3>1, RecordFields
    <3> HIDE DEF at, n
    <3> QED BY <1>5, <3>2 DEF file
  <2> HIDE DEF u, n
  <2> QED BY <1>5, <2>1, ReadAndWritten
<1>7. /\ record' \in Seq(Int) /\ Len(record') = n + 1
      /\ record' = DecodedSection(file, at, n + 1)
      /\ (\A j \in 1..n : record'[j] = record[j]) /\ record'[n + 1] = x
  <2> HIDE DEF at, file
  <2>1. u = file[at + (n + 1)]
    BY <1>5
  <2> QED BY <1>1, <1>2, <1>6, <2>1, DecodedGrows
<1>8. (n = 4 => x = 1) /\ (n = 5 => x >= 0)
  <2>1. ~Refused /\ There(1)
    BY DEF ReadRecordField
  <2>2. ~(RecordRead[n + 1] = "key" /\ x # 1) /\ ~(RecordRead[n + 1] = "value_len_" /\ x < 0)
    BY <1>1, <2>1, Orders DEF Refused, Field, Member, Value
  <2>3. RecordRead[4 + 1] = "key" /\ RecordRead[5 + 1] = "value_len_"
    BY Orders, RecordNames
  <2> HIDE DEF x, n
  <2> QED BY <1>6, <2>2, <2>3
<1> HIDE DEF x, u
<1>9. Here' = Here /\ This' = This /\ file' = file
  BY <1>1 DEF Here, This, file
<1>10. Typed'
  <2>1. index' \in 0..size' /\ size' \in 0..Len(file')
    BY <1>1, <1>4, <1>9, Reader
  <2>2. pc' \in {"value", "record"}
    BY <1>1
  <2>3. Len(record') <= 6
    <3> HIDE DEF n
    <3> QED BY <1>3, <1>7
  <2> QED BY <1>1, <1>7, <2>1, <2>2, <2>3, Lengths DEF IInv, Typed, AnyRecord, AnyBatch
<1>11. BatchesRead'
  <2>1. BatchAt[which][Here] <= index + 1
    BY <1>1, Reader
  <2> QED BY <1>1, <1>9, <2>1 DEF IInv, Reads, BatchesRead
<1>12. pc' \in {"value", "record"}
  BY <1>1
<1>13. InHead' /\ RecordsRead' /\ AtEnd'
  BY <1>1, <1>9, <1>12 DEF IInv, Reads, InHead, RecordsRead, AtEnd
<1>14. InRecords'
  <2>1. ASSUME n + 1 >= 5 PROVE record'[5] = 1
    <3>1. CASE n = 4
      BY <3>1, <1>7, <1>8
    <3>2. CASE n = 5
      BY <3>2, <1>2, <1>7
    <3> HIDE DEF n
    <3> QED BY <2>1, <3>1, <3>2, <1>3
  <2>2. ASSUME pc' = "record" PROVE n + 1 < 6
    <3>1. n + 1 # 6
      BY <2>2, <1>1, <1>7
    <3> HIDE DEF n
    <3> QED BY <3>1, <1>3
  <2>3. ASSUME pc' = "value"
        PROVE  n + 1 = 6 /\ record'[6] >= 0 /\ index' = ValueAt(which, Here, This)
    <3>1. n + 1 = 6
      BY <2>3, <1>1, <1>7
    <3>2. n = 5
      <4> HIDE DEF n
      <4> QED BY <3>1, <1>3
    <3>3. record'[6] >= 0
      BY <3>1, <3>2, <1>7, <1>8
    <3>4. index' = ValueAt(which, Here, This)
      <4>1. ValueAt(which, Here, This) = at + 6
        BY <1>2, RecordPlace, Reader
      <4> QED BY <1>1, <1>5, <3>1, <4>1
    <3> QED BY <3>1, <3>3, <3>4
  <2> QED BY <1>1, <1>2, <1>5, <1>7, <1>9, <1>12, <2>1, <2>2, <2>3 DEF InRecords
<1>15. Replies'
  BY <1>1, NoReplyYet, Reader
<1> QED BY <1>10, <1>11, <1>13, <1>14, <1>15 DEF IInv, Reads

(* Behind its length, a record's fields are all there.                     *)
LEMMA InValue ==
  ASSUME IInv, pc \in {"value", "headers"}
  PROVE  /\ Members(RecordRead, record) = RecordIn(which, Here, This).head
         /\ Members(RecordRead, record)["value_len_"] = ValueLength(which, Here, This)
         /\ file[RecordAt[which][Here][This] + 5] = 1
         /\ read_varint(file[RecordAt[which][Here][This] + 6]) >= 0
<1> DEFINE at == RecordAt[which][Here][This]
<1>1. Here \in Batches(which) /\ This \in Records(which, Here) /\ which \in DOMAIN Files
  BY InRecord, Reader
<1>2. record \in Seq(Int) /\ record = DecodedSection(file, at, 6) /\ record[5] = 1 /\ record[6] >= 0
  <2>1. Len(record) = 6 /\ record[6] >= 0
    BY DEF IInv, Reads, InRecords
  <2>2. /\ record \in Seq(Int) /\ record = DecodedSection(file, at, Len(record))
        /\ Len(record) >= 5 => record[5] = 1
    BY InRecord
  <2>3. 6 >= 5
    OBVIOUS
  <2> QED BY <2>1, <2>2, <2>3
<1>3. Members(RecordRead, record) = RecordIn(which, Here, This).head
  BY <1>2, Orders, Lengths DEF RecordIn, file
<1>4. record[5] = file[at + 5] /\ record[6] = read_varint(file[at + 6])
  <2>1. record[5] = Decoded(RecordLayout[5], file[at + 5]) /\ record[6] = Decoded(RecordLayout[6], file[at + 6])
    BY <1>2 DEF DecodedSection
  <2> QED BY <2>1, Unchanged, Lengthened
<1>5. Members(RecordRead, record)["value_len_"] = record[6]
  BY Filed, Orders, RecordNames, Lengths
<1>6. ValueLength(which, Here, This) = record[6]
  <2>1. ValueAt(which, Here, This) = at + 6
    BY <1>1, RecordPlace
  <2>2. ValueLength(which, Here, This) = Elements(read_varint(file[at + 6]))
    BY <2>1 DEF ValueLength, file
  <2>3. record[6] \in Int
    <3>1. Len(record) = 6
      BY DEF IInv, Reads, InRecords
    <3> QED BY <1>2, <3>1
  <2>4. Elements(record[6]) = record[6]
    BY <1>2, <2>3 DEF Elements
  <2> QED BY <1>4, <2>2, <2>4
<1> QED BY <1>2, <1>3, <1>4, <1>5, <1>6

LEMMA ReadValueInv == IInv /\ ReadValue => IInv'
<1> SUFFICES ASSUME IInv, ReadValue PROVE IInv'
  OBVIOUS
<1> DEFINE n  == ValueLength(which, Here, This)
           v  == ValueAt(which, Here, This)
<1>1. /\ pc = "value" /\ pc' = "headers"
      /\ UNCHANGED <<which, size, fields, left, records, record, record_batches>>
      /\ UNCHANGED <<which, writer>>
  BY DEF ReadValue, writer
<1>2. index + n <= size /\ value_' = Section(file, index, n) /\ index' = index + n
  BY <1>1, InValue DEF ReadValue, There
<1>3. /\ Here \in Batches(which) /\ This \in Records(which, Here)
      /\ record = DecodedSection(file, RecordAt[which][Here][This], Len(record))
      /\ Len(record) >= 5 => record[5] = 1
      /\ left = Len(RecordAt[which][Here]) - This
  BY <1>1, InRecord
<1>4. Len(record) = 6 /\ record[6] >= 0 /\ index = v
  BY <1>1 DEF IInv, Reads, InRecords
<1>5. /\ n \in Nat /\ RecordAt[which][Here][This + 1] = v + n + 1 /\ v \in Nat
      /\ BatchAt[which][Here] \in 0..index /\ index \in 0..size /\ size \in Nat
  <2>1. /\ n \in Nat /\ RecordAt[which][Here][This] \in Nat /\ v = RecordAt[which][Here][This] + 6
        /\ RecordAt[which][Here][This + 1] = RecordAt[which][Here][This] + 7 + n
    BY <1>3, RecordPlace, Reader
  <2>2. BatchAt[which][Here] \in 0..index /\ index \in 0..size /\ size \in Nat
    BY Reader
  <2> HIDE DEF n, v
  <2> QED BY <2>1, <2>2
<1>6. Here' = Here /\ This' = This /\ file' = file
  BY <1>1 DEF Here, This, file
<1>7. index' \in 0..size /\ BatchAt[which][Here] <= index' /\ index' = RecordAt[which][Here][This + 1] - 1
  <2>1. index' = index + n /\ index = v /\ index + n <= size
    BY <1>2, <1>4
  <2> HIDE DEF n, v
  <2> QED BY <1>5, <2>1
<1>8. Typed' /\ BatchesRead'
  BY <1>1, <1>6, <1>7 DEF IInv, Typed, AnyRecord, AnyBatch, Reads, BatchesRead
<1>9. InHead' /\ RecordsRead' /\ AtEnd'
  BY <1>1, <1>6 DEF IInv, Reads, InHead, RecordsRead, AtEnd
<1>10. InRecords'
  BY <1>1, <1>2, <1>3, <1>4, <1>6, <1>7 DEF InRecords
<1>11. Replies'
  BY <1>1, NoReplyYet, Reader
<1> QED BY <1>8, <1>9, <1>10, <1>11 DEF IInv, Reads

LEMMA Longer ==
  ASSUME NEW S, NEW s \in Seq(S), NEW x \in S
  PROVE  /\ Append(s, x) \in Seq(S) /\ Len(Append(s, x)) = Len(s) + 1
         /\ \A j \in 1..Len(s) : Append(s, x)[j] = s[j]
         /\ Append(s, x)[Len(s) + 1] = x
OBVIOUS

(* Up to the next, there is this one.                                      *)
LEMMA OneMore ==
  ASSUME NEW n \in Nat, NEW j \in 1 .. n + 1
  PROVE  j \in 1..n \/ j = n + 1
OBVIOUS

LEMMA ReadHeadersInv == IInv /\ ReadHeaders => IInv'
<1> SUFFICES ASSUME IInv, ReadHeaders PROVE IInv'
  OBVIOUS
<1> DEFINE places == RecordAt[which][Here]
           r == RecordIn(which, Here, This)
<1>1. /\ pc = "headers" /\ index + 1 <= size /\ index' = index + 1
      /\ records' = Append(records, [head |-> Members(RecordRead, record), value |-> value_])
      /\ record' = <<>> /\ left' = left - 1
      /\ pc' = IF left' = 0 THEN "push" ELSE "record"
      /\ UNCHANGED <<which, size, fields, record_batches>>
      /\ UNCHANGED <<which, writer>>
  BY DEF ReadHeaders, There, writer
<1>2. /\ Here \in Batches(which) /\ This \in Records(which, Here)
      /\ left \in Nat /\ left = Len(places) - This
  BY <1>1, InRecord
<1>3. index = places[This + 1] - 1 /\ value_ = Section(file, ValueAt(which, Here, This), ValueLength(which, Here, This))
  BY <1>1 DEF IInv, Reads, InRecords
<1>4. /\ This \in Nat \ {0} /\ This + 1 \in 1..Len(places) /\ Len(places) \in Nat
      /\ places[This + 1] \in Nat /\ index \in Nat
      /\ Here \in Nat \ {0} /\ places[Len(places)] = BatchAt[which][Here + 1]
  BY <1>2, RecordPlace, BatchPlace, Reader
<1>5. index + 1 = places[This + 1]
  <2> DEFINE x == places[This + 1]
  <2>1. x \in Nat /\ index = x - 1
    BY <1>3, <1>4
  <2> HIDE DEF x
  <2>2. index + 1 = x
    BY <2>1
  <2> QED BY <2>2 DEF x
<1>6. RecordParses(which, Here, This)
  <2>1. file[RecordAt[which][Here][This] + 5] = 1 /\ read_varint(file[RecordAt[which][Here][This] + 6]) >= 0
    BY <1>1, InValue
  <2>2. file[index + 1] = 0
    BY <1>1 DEF ReadHeaders, Refused, Field
  <2> QED BY <1>2, <1>5, <2>1, <2>2, RecordMade, Reader DEF file
<1>7. [head |-> Members(RecordRead, record), value |-> value_] = r
  BY <1>1, <1>3, InValue DEF RecordIn, file
<1>8. r \in AnyRecord /\ records \in Seq(AnyRecord)
  BY <1>4 DEF AnyRecord, IInv, Typed
<1>9. /\ records' \in Seq(AnyRecord) /\ Len(records') = Len(records) + 1
      /\ \A j \in 1..Len(records) : records'[j] = records[j]
      /\ records'[Len(records) + 1] = r
  BY <1>1, <1>7, <1>8, Longer
<1> HIDE DEF r
<1>10. Here' = Here /\ This' = This + 1 /\ file' = file /\ Len(records') = This
  BY <1>1, <1>9 DEF Here, This, file
<1>11. left' \in Nat /\ left' = Len(places) - This'
  <2> DEFINE m == Len(places)
  <2>1. /\ m \in Nat /\ This + 1 \in 1..m /\ This \in Nat
        /\ left = m - This /\ left' = left - 1 /\ This' = This + 1
    BY <1>1, <1>2, <1>4, <1>10
  <2> HIDE DEF m
  <2>2. left' \in Nat /\ left' = m - This'
    BY <2>1
  <2> QED BY <2>2 DEF m
<1>12. pc' \in {"push", "record"}
  BY <1>1
<1>13. Typed'
  <2>1. index' \in 0..size' /\ size' \in 0..Len(file')
    BY <1>1, <1>4, <1>10, Reader
  <2>2. record' \in Seq(Int) /\ Len(record') = 0
    BY <1>1
  <2>3. AnyRecord' = AnyRecord /\ AnyBatch' = AnyBatch
    BY <1>1 DEF AnyRecord, AnyBatch
  <2> QED BY <1>1, <1>9, <1>11, <1>12, <2>1, <2>2, <2>3, Lengths DEF IInv, Typed
<1>14. BatchesRead'
  <2>1. BatchAt[which][Here] <= index + 1
    BY <1>1, Reader
  <2> QED BY <1>1, <1>10, <2>1 DEF IInv, Reads, BatchesRead
<1>15. InHead'
  BY <1>1, <1>10, <1>12 DEF IInv, Reads, InHead
<1>16. RecordsRead'
  <2> SUFFICES ASSUME NEW j \in 1 .. Len(records) + 1
               PROVE  records'[j] = RecordIn(which, Here, j) /\ RecordParses(which, Here, j)
    BY <1>1, <1>9, <1>10 DEF RecordsRead
  <2>1. CASE j \in 1..Len(records)
    BY <2>1, <1>1, <1>9 DEF IInv, Reads, RecordsRead
  <2>2. CASE j = This
    BY <2>2, <1>6, <1>9 DEF r, This
  <2> QED BY <2>1, <2>2, OneMore, Reader DEF This
<1>17. AtEnd'
  <2> SUFFICES ASSUME left' = 0
               PROVE  index + 1 = BatchAt[which][Here + 1] /\ This = Len(places) - 1
    BY <1>1, <1>10 DEF AtEnd
  <2> DEFINE m == Len(places)
  <2>1. m \in Nat /\ This \in Nat /\ left' = m - This' /\ This' = This + 1
    BY <1>4, <1>10, <1>11
  <2> HIDE DEF m
  <2>2. m = This + 1 /\ This = m - 1
    BY <2>1
  <2> QED BY <1>4, <1>5, <2>2 DEF m
<1>18. InRecords'
  <2> SUFFICES ASSUME left' # 0
               PROVE  /\ This' \in Records(which, Here)
                      /\ <<>> = DecodedSection(file, places[This'], 0)
                      /\ index + 1 = places[This'] + 0
    BY <1>1, <1>10, <1>11 DEF InRecords
  <2>1. This' \in Records(which, Here)
    <3> DEFINE m == Len(places)
    <3>1. m \in Nat /\ This \in Nat /\ left' = m - This' /\ This' = This + 1 /\ left' \in Nat
      BY <1>4, <1>10, <1>11
    <3> HIDE DEF m
    <3>2. This' \in 1 .. m - 1
      BY <3>1
    <3> QED BY <3>2 DEF Records, m
  <2>2. <<>> = DecodedSection(file, places[This'], 0)
    BY DEF DecodedSection
  <2>3. index + 1 = places[This'] + 0
    <3> DEFINE x == places[This + 1]
    <3>1. x \in Nat /\ index + 1 = x
      BY <1>4, <1>5
    <3> HIDE DEF x
    <3>2. x = x + 0
      BY <3>1
    <3> QED BY <3>1, <3>2, <1>10 DEF x
  <2> QED BY <2>1, <2>2, <2>3
<1>19. Replies'
  BY <1>1, NoReplyYet, Reader
<1> QED BY <1>13, <1>14, <1>15, <1>16, <1>17, <1>18, <1>19 DEF IInv, Reads

(* What PushBack finds in the fields and the records it has kept.          *)
LEMMA BatchIsRead ==
  ASSUME IInv, pc = "push"
  PROVE  /\ Here \in Batches(which)
         /\ ReadBatch = BatchIn(which, Here)
         /\ \A r \in Records(which, Here) : RecordParses(which, Here, r)
<1> DEFINE n == Len(records)
<1>1. Here \in Batches(which) /\ fields = Section(file, BatchAt[which][Here], Len(fields)) /\ Len(fields) = 12
  BY Lengths DEF IInv, Reads, InHead
<1>2. n = Len(RecordAt[which][Here]) - 1 /\ n \in Nat
  BY Reader DEF IInv, Reads, AtEnd
<1>3. Records(which, Here) = 1..n
  BY <1>2 DEF Records
<1>4. \A r \in 1..n : records[r] = RecordIn(which, Here, r) /\ RecordParses(which, Here, r)
  BY DEF IInv, Reads, RecordsRead
<1>5. records = [r \in Records(which, Here) |-> RecordIn(which, Here, r)]
  <2>1. records \in Seq(AnyRecord)
    BY DEF IInv, Typed
  <2>2. records = [r \in 1..n |-> records[r]]
    BY <2>1
  <2> HIDE DEF n
  <2> QED BY <1>3, <1>4, <2>2
<1>6. Members(BatchRead, fields) = BatchIn(which, Here).head
  BY <1>1, Orders, Lengths DEF BatchIn, file
<1>7. BatchIn(which, Here) = [head |-> BatchIn(which, Here).head, records |-> BatchIn(which, Here).records]
  BY DEF BatchIn
<1>8. BatchIn(which, Here).records = records
  BY <1>5 DEF BatchIn
<1>9. ReadBatch = BatchIn(which, Here)
  BY <1>6, <1>7, <1>8 DEF ReadBatch
<1> QED BY <1>1, <1>3, <1>4, <1>9

LEMMA PushBackInv == IInv /\ PushBack => IInv'
<1> SUFFICES ASSUME IInv, PushBack PROVE IInv'
  OBVIOUS
<1> DEFINE b == BatchIn(which, Here)
<1>1. /\ pc = "push" /\ pc' = "batch"
      /\ record_batches' = Append(record_batches, ReadBatch)
      /\ fields' = <<>> /\ records' = <<>>
      /\ UNCHANGED <<which, size, index, left, record, value_>>
      /\ UNCHANGED <<which, writer>>
  BY DEF PushBack, writer
<1>2. ReadBatch = b /\ Here \in Batches(which)
      /\ \A r \in Records(which, Here) : RecordParses(which, Here, r)
  BY <1>1, BatchIsRead
<1>3. index = BatchAt[which][Here + 1] /\ record = <<>>
  BY <1>1 DEF IInv, Reads, AtEnd
<1>4. Here \in Nat \ {0} /\ Here + 1 \in DOMAIN BatchAt[which] /\ record_batches \in Seq(AnyBatch)
  BY <1>2, BatchPlace, Reader DEF IInv, Typed
<1>5. b \in AnyBatch
  BY <1>4 DEF AnyBatch
<1>6. /\ record_batches' \in Seq(AnyBatch) /\ Len(record_batches') = Len(record_batches) + 1
      /\ \A j \in 1..Len(record_batches) : record_batches'[j] = record_batches[j]
      /\ record_batches'[Len(record_batches) + 1] = b
  BY <1>1, <1>2, <1>4, <1>5, Longer
<1> HIDE DEF b
<1>7. Here' = Here + 1 /\ file' = file /\ Len(record_batches') = Here
  BY <1>1, <1>6 DEF Here, file
<1>8. Typed'
  <2>1. AnyRecord' = AnyRecord /\ AnyBatch' = AnyBatch
    BY <1>1 DEF AnyRecord, AnyBatch
  <2>2. fields' \in Seq(Int) /\ Len(fields') = 0 /\ records' \in Seq(AnyRecord)
    BY <1>1
  <2> QED BY <1>1, <1>6, <1>7, <2>1, <2>2, Lengths DEF IInv, Typed
<1>9. BatchesRead'
  <2>1. \A k \in 1..Len(record_batches) :
          /\ k \in Batches(which)
          /\ record_batches[k] = BatchIn(which, k)
          /\ \A r \in Records(which, k) : RecordParses(which, k, r)
    BY DEF IInv, Reads, BatchesRead
  <2>2. \A k \in 1 .. Len(record_batches) + 1 :
          /\ k \in Batches(which)
          /\ record_batches'[k] = BatchIn(which, k)
          /\ \A r \in Records(which, k) : RecordParses(which, k, r)
    <3> SUFFICES ASSUME NEW k \in 1 .. Len(record_batches) + 1
                 PROVE  /\ k \in Batches(which)
                        /\ record_batches'[k] = BatchIn(which, k)
                        /\ \A r \in Records(which, k) : RecordParses(which, k, r)
      OBVIOUS
    <3>1. CASE k \in 1..Len(record_batches)
      BY <3>1, <2>1, <1>6
    <3>2. CASE k = Here
      BY <3>2, <1>2, <1>6 DEF b, Here
    <3> QED BY <3>1, <3>2, OneMore, Reader DEF Here
  <2>3. BatchAt[which][Here + 1] <= index
    <3> DEFINE x == BatchAt[which][Here + 1]
    <3>1. index = x /\ index \in Nat
      BY <1>3, Reader
    <3> HIDE DEF x
    <3>2. x <= index
      BY <3>1
    <3> QED BY <3>2 DEF x
  <2> QED BY <1>1, <1>4, <1>6, <1>7, <2>2, <2>3 DEF BatchesRead
<1>10. InHead' /\ RecordsRead' /\ AtEnd' /\ InRecords'
  <2>1. <<>> = Section(file, BatchAt[which][Here + 1], 0)
    BY DEF Section
  <2>2. Len(fields') = 0 /\ Len(records') = 0
    BY <1>1
  <2>3. index = BatchAt[which][Here + 1] + 0
    BY <1>3, Reader
  <2> QED BY <1>1, <1>3, <1>7, <2>1, <2>2, <2>3, Lengths DEF InHead, RecordsRead, AtEnd, InRecords
<1>11. Replies'
  <2>1. Len(record_batches') \in Nat
    BY <1>6, Reader
  <2> QED BY <1>1, <2>1, NoReplyYet
<1> QED BY <1>8, <1>9, <1>10, <1>11 DEF IInv, Reads

LEMMA CatchInv == IInv /\ Catch => IInv'
<1> SUFFICES ASSUME IInv, Catch PROVE IInv'
  OBVIOUS
<1>1. /\ pc # "returned" /\ pc' = "returned"
      /\ UNCHANGED <<which, size, index, fields, left, records, record, value_, record_batches>>
      /\ UNCHANGED <<which, writer>>
  BY DEF Catch, batch, writer
<1>2. Here' = Here /\ file' = file /\ AnyRecord' = AnyRecord /\ AnyBatch' = AnyBatch
  BY <1>1 DEF Here, file, AnyRecord, AnyBatch
<1>3. Typed'
  BY <1>1, <1>2 DEF IInv, Typed
<1>4. Reads'
  BY <1>1, <1>2 DEF IInv, Reads, BatchesRead, RecordsRead, InHead, AtEnd, InRecords
<1>5. Replies'
  BY <1>1, NoReplyYet, Reader
<1> QED BY <1>3, <1>4, <1>5 DEF IInv

(* The batches that are written are those of the log, each at its place.   *)
LEMMA Writer ==
  ASSUME IInv
  PROVE  /\ batches_out \in 0..Len(record_batches)
         /\ \A k \in 1..Len(record_batches) :
              /\ k \in Batches(which) /\ record_batches[k] = BatchIn(which, k)
              /\ \A r \in Records(which, k) : RecordParses(which, k, r)
         /\ records_out \in 0..Len(Writing) /\ Len(Writing) \in Nat
         /\ batches_out > 0 => /\ Writing = BatchIn(which, batches_out).records
                               /\ Len(Writing) = Len(RecordAt[which][batches_out]) - 1
                               /\ Len(reply) = RecordAt[which][batches_out][records_out + 1]
         /\ BatchIsWritten => Len(reply) = BatchAt[which][batches_out + 1]
<1>1. /\ batches_out \in 0..Len(record_batches)
      /\ \A k \in 1..Len(record_batches) :
              /\ k \in Batches(which) /\ record_batches[k] = BatchIn(which, k)
              /\ \A r \in Records(which, k) : RecordParses(which, k, r)
  BY DEF IInv, Replies, Reads, BatchesRead
<1>2. CASE batches_out = 0
  <2>1. Writing = <<>> /\ Len(reply) = 0 /\ records_out = 0
    BY <1>2 DEF Writing, IInv, Replies
  <2>2. BatchAt[which][0 + 1] = 0
    BY BatchPlaces, Reader
  <2> QED BY <1>1, <1>2, <2>1, <2>2
<1>3. CASE batches_out > 0
  <2> DEFINE places == RecordAt[which][batches_out]
             n == Len(places)
             w == Len(Writing)
  <2>1. batches_out \in 1..Len(record_batches)
    BY <1>1, <1>3, Reader
  <2>2. batches_out \in Batches(which) /\ record_batches[batches_out] = BatchIn(which, batches_out)
    BY <1>1, <2>1
  <2>3. Writing = BatchIn(which, batches_out).records
    BY <1>3, <2>2 DEF Writing
  <2>4. w = n - 1 /\ n \in Nat \ {0} /\ places[n] = BatchAt[which][batches_out + 1]
    BY <2>2, <2>3, BatchMade, BatchPlace, Reader
  <2>5. records_out \in 0 .. n - 1 /\ Len(reply) = places[records_out + 1]
    BY <1>3 DEF IInv, Replies
  <2>6. BatchIsWritten => records_out = w
    BY DEF BatchIsWritten
  <2> HIDE DEF n, w, places
  <2>7. records_out \in 0..w /\ w \in Nat /\ (records_out = w => records_out + 1 = n)
    BY <2>4, <2>5
  <2>8. BatchIsWritten => Len(reply) = BatchAt[which][batches_out + 1]
    BY <2>4, <2>5, <2>6, <2>7
  <2> QED BY <1>1, <2>3, <2>4, <2>5, <2>7, <2>8 DEF n, w, places
<1> QED BY <1>1, <1>2, <1>3, Reader

(* A reply that has grown, with the reader where it was.                   *)
LEMMA GrownReply ==
  ASSUME IInv, pc = "returned", UNCHANGED <<which, size, reader>>,
         batches_out' \in 1..Len(record_batches),
         records_out' \in 0 .. Len(RecordAt[which][batches_out']) - 1,
         Len(reply') = RecordAt[which][batches_out'][records_out' + 1],
         reply' \in Seq(Int), Copied(reply')
  PROVE  IInv'
<1> USE DEF reader, batch
<1>1. Here' = Here /\ file' = file /\ AnyRecord' = AnyRecord /\ AnyBatch' = AnyBatch
  BY DEF Here, file, AnyRecord, AnyBatch
<1>2. Typed'
  BY <1>1 DEF IInv, Typed
<1>3. Reads'
  BY <1>1 DEF IInv, Reads, BatchesRead, RecordsRead, InHead, AtEnd, InRecords
<1>4. (Copied(reply))' = Copied(reply')
  BY <1>1 DEF Copied, Edge, NullCount, SmallestDelta
<1>5. batches_out' \in 0..Len(record_batches) /\ batches_out' > 0
  BY Reader
<1>6. Replies'
  BY <1>4, <1>5 DEF Replies
<1> QED BY <1>2, <1>3, <1>6 DEF IInv

LEMMA WriteBatchInv == IInv /\ WriteBatch => IInv'
<1> SUFFICES ASSUME IInv, WriteBatch PROVE IInv'
  OBVIOUS
<1> DEFINE k  == batches_out + 1
           at == BatchAt[which][k]
           s  == Section(file, at, 12)
           c  == Len(BatchIn(which, k).records)
           n  == Len(RecordAt[which][k])
<1>1. /\ pc = "returned" /\ BatchIsWritten /\ batches_out < Len(record_batches)
      /\ batches_out' = k /\ records_out' = 0
      /\ UNCHANGED <<which, size, reader>>
  BY DEF WriteBatch
<1>2. k \in 1..Len(record_batches) /\ Len(reply) = at
  BY <1>1, Writer, Reader
<1>3. k \in Batches(which) /\ record_batches[k] = BatchIn(which, k)
  BY <1>2, Writer
<1>4. reply' = (reply \o s) \o <<c>>
  <2>1. Fields(BatchIn(which, k).head, BatchWritten) = s
    BY <1>3, BatchMade, Orders, Reader DEF file
  <2>2. reply' = reply \o Fields(record_batches[k].head, BatchWritten) \o <<Len(record_batches[k].records)>>
    BY <1>1 DEF WriteBatch
  <2> QED BY <1>3, <2>1, <2>2
<1>5. /\ c = n - 1 /\ n \in Nat \ {0} /\ n = Elements(file[at + 13]) + 1 /\ at + 13 = RecordAt[which][k][1]
      /\ at \in Nat /\ at + 13 \in 1..Len(file)
  <2>1. /\ c = n - 1 /\ n \in Nat \ {0} /\ RecordAt[which][k][1] = at + 13
        /\ n = Elements(file[RecordAt[which][k][1]]) + 1
    BY <1>3, BatchMade, BatchPlace, Reader DEF file
  <2>2. at \in Nat /\ BatchAt[which][k + 1] \in 0..Len(file) /\ RecordAt[which][k][1] \in 1..BatchAt[which][k + 1]
    BY <1>3, BatchPlace, Reader DEF file
  <2> HIDE DEF at, n, c
  <2>3. RecordAt[which][k][1] \in 1..Len(file)
    BY <2>2, Reader
  <2> QED BY <2>1, <2>2, <2>3
<1>6. file[at + 13] \in Int
  BY <1>5, Reader
<1>7. s \in Seq(Int) /\ Len(s) = 12 /\ \A j \in 1..12 : s[j] = file[at + j]
  <2>1. at + 12 <= Len(file)
    <3>1. at \in Nat /\ at + 13 \in 1..Len(file) /\ Len(file) \in Nat
      BY <1>5, Reader
    <3> HIDE DEF at, file
    <3> QED BY <3>1
  <2>2. s \in Seq(Int) /\ Len(s) = 12
    BY <1>5, <2>1, SectionTyped, Reader
  <2> QED BY <2>2 DEF Section
<1>8. c \in Int /\ (c = file[at + 13] \/ (c = 0 /\ Edge(at + 13)))
  <2>1. c = Elements(file[at + 13])
    <3> HIDE DEF c, n
    <3>1. Elements(file[at + 13]) \in Nat
      BY <1>6, Natural
    <3> QED BY <1>5, <3>1
  <2>2. CASE file[at + 13] < 0
    BY <1>3, <1>5, <2>1, <2>2 DEF Elements, Edge, NullCount
  <2>3. CASE ~(file[at + 13] < 0)
    BY <1>6, <2>1, <2>3 DEF Elements
  <2> QED BY <2>2, <2>3
<1>9. reply \in Seq(Int) /\ Copied(reply)
  BY DEF IInv, Replies
<1> HIDE DEF s, c, at, n, k, file
<1>10. reply \o s \in Seq(Int) /\ Len(reply \o s) = at + 12 /\ Copied(reply \o s)
  <2>1. Continues(reply, s)
    BY <1>2, <1>7 DEF Continues
  <2> QED BY <1>2, <1>7, <1>9, <2>1, CopyGrows
<1>11. /\ reply' \in Seq(Int) /\ Len(reply') = at + 13 /\ Copied(reply')
  <2> DEFINE t == <<c>>
             u == reply \o s
  <2>1. t \in Seq(Int) /\ Len(t) = 1 /\ t[1] = c
    BY <1>8
  <2>2. (at + 12) + 1 = at + 13
    BY <1>5
  <2>3. u \in Seq(Int) /\ Len(u) = at + 12 /\ Copied(u)
    BY <1>10
  <2> HIDE DEF t, u
  <2>4. Continues(u, t)
    <3> SUFFICES ASSUME NEW j \in 1..Len(t)
                 PROVE  t[j] = file[Len(u) + j] \/ (t[j] = 0 /\ Edge(Len(u) + j))
      BY DEF Continues
    <3>1. j = 1 /\ Len(u) = at + 12
      BY <2>1, <2>3
    <3> QED BY <3>1, <2>1, <2>2, <1>8
  <2>5. u \o t \in Seq(Int) /\ Len(u \o t) = Len(u) + 1 /\ Copied(u \o t)
    BY <2>1, <2>4, <2>3, CopyGrows
  <2> QED BY <1>4, <1>10, <2>2, <2>5 DEF u, t
<1>12. 0 \in 0 .. n - 1 /\ Len(reply') = RecordAt[which][k][0 + 1]
  BY <1>5, <1>11
<1> QED BY <1>1, <1>2, <1>11, <1>12, GrownReply DEF n

LEMMA WriteRecordInv == IInv /\ WriteRecord => IInv'
<1> SUFFICES ASSUME IInv, WriteRecord PROVE IInv'
  OBVIOUS
<1> DEFINE k  == batches_out
           i  == records_out + 1
           at == RecordAt[which][k][i]
           m  == ValueLength(which, k, i)
           s  == Resent(file, at)
           v  == Section(file, at + 6, m)
<1>1. /\ pc = "returned" /\ ~BatchIsWritten /\ records_out' = i
      /\ UNCHANGED <<which, size, reader>> /\ batches_out' = k
  BY DEF WriteRecord
<1>2. records_out \in 0 .. Len(Writing) - 1 /\ Len(Writing) \in Nat
  <2>1. records_out \in 0..Len(Writing) /\ Len(Writing) \in Nat /\ records_out # Len(Writing)
    BY <1>1, Writer DEF BatchIsWritten
  <2> DEFINE w == Len(Writing)
  <2> HIDE DEF w
  <2>2. w \in Nat /\ records_out \in 0..w /\ records_out # w => records_out \in 0 .. w - 1
    OBVIOUS
  <2> QED BY <2>1, <2>2 DEF w
<1>3. k \in 1..Len(record_batches)
  <2>1. k # 0
    <3>1. k = 0 => Len(Writing) = 0
      BY DEF Writing
    <3> QED BY <3>1, <1>2
  <2> QED BY <2>1, Writer, Reader
<1>4. /\ k \in Batches(which) /\ Len(Writing) = Len(RecordAt[which][k]) - 1 /\ Len(reply) = at
      /\ Writing = [r \in Records(which, k) |-> RecordIn(which, k, r)]
      /\ \A r \in Records(which, k) : RecordParses(which, k, r)
  <2>1. /\ k \in Batches(which) /\ k > 0
        /\ \A r \in Records(which, k) : RecordParses(which, k, r)
    BY <1>3, Writer, Reader
  <2>2. /\ Writing = BatchIn(which, k).records /\ Len(Writing) = Len(RecordAt[which][k]) - 1
        /\ Len(reply) = at
    BY <2>1, Writer
  <2>3. BatchIn(which, k).records = [r \in Records(which, k) |-> RecordIn(which, k, r)]
    BY <2>1, BatchMade, Reader
  <2> QED BY <2>1, <2>2, <2>3
<1>5. i \in Records(which, k)
  <2> DEFINE w == Len(Writing)
  <2>1. Records(which, k) = 1..w
    BY <1>4 DEF Records
  <2> HIDE DEF w
  <2>2. records_out \in 0 .. w - 1 /\ w \in Nat => records_out + 1 \in 1..w
    OBVIOUS
  <2> QED BY <1>2, <2>1, <2>2 DEF w
<1>6. /\ at \in Nat /\ m \in Nat /\ ValueAt(which, k, i) = at + 6
      /\ RecordAt[which][k][i + 1] = at + 7 + m /\ at + 7 + m \in 0..Len(file)
      /\ i \in 0 .. Len(RecordAt[which][k]) - 1
  <2>1. /\ at \in Nat /\ m \in Nat /\ ValueAt(which, k, i) = at + 6
        /\ RecordAt[which][k][i + 1] = at + 7 + m
        /\ RecordAt[which][k][i + 1] \in 0..BatchAt[which][k + 1]
    BY <1>4, <1>5, RecordPlace, Reader
  <2>2. BatchAt[which][k + 1] \in 0..Len(file)
    BY <1>4, BatchPlace, Reader DEF file
  <2>3. i \in 0 .. Len(RecordAt[which][k]) - 1
    BY <1>5 DEF Records
  <2> HIDE DEF at, m, i, k
  <2>4. at + 7 + m \in 0..Len(file)
    BY <2>1, <2>2, Reader
  <2> QED BY <2>1, <2>3, <2>4
<1>7. reply' = ((reply \o s) \o v) \o <<0>>
  <2>1. Writing[i] = RecordIn(which, k, i)
    BY <1>4, <1>5
  <2>2. reply' = reply \o EncodedFields(Writing[i].head, RecordWritten) \o Writing[i].value \o <<0>>
    BY <1>1 DEF WriteRecord
  <2>3. EncodedFields(RecordIn(which, k, i).head, RecordWritten) = s
    BY <1>4, <1>5, RecordMade, Orders, Reader DEF file
  <2>4. RecordIn(which, k, i).value = v
    BY <1>4, <1>5, <1>6, RecordMade, Reader DEF file
  <2> QED BY <2>1, <2>2, <2>3, <2>4
<1>8. file[at + 7 + m] = 0
  BY <1>4, <1>5, <1>6, RecordMade, Reader DEF file
<1>9. reply \in Seq(Int) /\ Copied(reply)
  BY DEF IInv, Replies
<1>10. \A j \in 1..6 : file[at + j] \in OnDisk(RecordLayout[j])
  <2>1. which \in DOMAIN Files
    BY Reader
  <2>2. \A j \in 1..6 : Files[which][at + j] \in OnDisk(RecordLayout[j])
    BY <1>4, <1>5, <2>1, RecordFields
  <2> QED BY <2>2 DEF file
<1>11. ASSUME NEW j \in 1..6
       PROVE  s[j] \in Int /\ (s[j] = file[at + j] \/ (s[j] = 0 /\ Edge(at + j)))
  <2> DEFINE u == file[at + j]
  <2>1. s[j] = Encoded(RecordLayout[j], Decoded(RecordLayout[j], u)) /\ u \in OnDisk(RecordLayout[j])
    BY <1>10 DEF Resent
  <2> HIDE DEF u, s
  <2>2. s[j] \in Int /\ (s[j] = u \/ (s[j] = 0 /\ j = 3 /\ u = 2 ^ Bits - 1))
    BY <2>1, ReadAndWritten
  <2>3. j = 3 /\ u = 2 ^ Bits - 1 => Edge(at + j)
    BY <1>4, <1>5 DEF Edge, SmallestDelta, u
  <2> QED BY <2>2, <2>3 DEF u
<1> HIDE DEF at, m, i, k, file
<1>12. s \in Seq(Int) /\ Len(s) = 6 /\ v \in Seq(Int) /\ Len(v) = m
  <2>1. at + 6 \in Nat /\ at + 6 <= Len(file) /\ (at + 6) + m <= Len(file)
    BY <1>6, Reader
  <2>2. file \in Seq(Int) /\ 6 \in Nat /\ at \in Nat /\ m \in Nat
    BY <1>6, Reader DEF file
  <2>3. s \in Seq(Int) /\ Len(s) = 6
    BY <1>11 DEF Resent
  <2>4. v \in Seq(Int) /\ Len(v) = m
    BY <2>1, <2>2, SectionTyped
  <2> QED BY <2>3, <2>4
<1>13. \A j \in 1..m : v[j] = file[(at + 6) + j]
  BY DEF Section
<1> HIDE DEF s, v
<1> DEFINE a == reply \o s
           b == a \o v
           z == <<0>>
<1>14. a \in Seq(Int) /\ Len(a) = at + 6 /\ Copied(a)
  <2>1. Continues(reply, s)
    BY <1>4, <1>11, <1>12 DEF Continues
  <2> QED BY <1>4, <1>9, <1>12, <2>1, CopyGrows
<1> HIDE DEF a
<1>15. b \in Seq(Int) /\ Len(b) = (at + 6) + m /\ Copied(b)
  <2>1. Continues(a, v)
    BY <1>12, <1>13, <1>14 DEF Continues
  <2> QED BY <1>12, <1>14, <2>1, CopyGrows
<1>16. b \o z \in Seq(Int) /\ Len(b \o z) = at + 7 + m /\ Copied(b \o z)
  <2>1. z \in Seq(Int) /\ Len(z) = 1 /\ z[1] = 0
    OBVIOUS
  <2> HIDE DEF b, z
  <2>2. (at + 6) + m + 1 = at + 7 + m
    BY <1>6
  <2>3. Continues(b, z)
    BY <1>8, <1>15, <2>1, <2>2 DEF Continues
  <2> QED BY <1>15, <2>1, <2>2, <2>3, CopyGrows
<1>17. reply' = b \o z
  BY <1>7 DEF a
<1> HIDE DEF b, z
<1> QED BY <1>1, <1>3, <1>6, <1>16, <1>17, GrownReply DEF k, i

-----------------------------------------------------------------------------
(* In every state the reader has read the beginning of the log and nothing *)
(* else, and the reply is as much of it as has been written.               *)
THEOREM Inductive == Spec => []IInv
<1>1. Init => IInv
  BY InitInv
<1>2. IInv /\ [Next]_vars => IInv'
  <2> SUFFICES ASSUME IInv, [Next]_vars PROVE IInv'
    OBVIOUS
  <2>1. CASE LogAppend
    BY <2>1, LogAppendInv
  <2>2. CASE read_record_batches
    BY <2>2, ReadFieldInv, ReadCountInv, ReadRecordFieldInv, ReadValueInv, ReadHeadersInv,
       PushBackInv, CatchInv DEF read_record_batches
  <2>3. CASE WriteBatch
    BY <2>3, WriteBatchInv
  <2>4. CASE WriteRecord
    BY <2>4, WriteRecordInv
  <2>5. CASE UNCHANGED vars
    BY <2>5 DEF vars, reader, writer, batch, IInv, Typed, Reads, BatchesRead, RecordsRead, InHead,
       AtEnd, InRecords, Replies, Copied, Edge, NullCount, SmallestDelta, Here, This, AnyRecord, AnyBatch, file
  <2> QED BY <2>1, <2>2, <2>3, <2>4, <2>5 DEF Next
<1> QED BY <1>1, <1>2, PTL DEF Spec

(* The reader is never beyond what is on disk, and counts the records of a *)
(* batch down to none (cluster_metadata.cpp:18-26, ireadable.hpp:62-77).   *)
THEOREM TypeCorrect == Spec => []TypeOK
<1>1. IInv => TypeOK
  <2> SUFFICES ASSUME IInv PROVE TypeOK
    OBVIOUS
  <2>1. /\ which \in DOMAIN Files /\ size \in 0..Len(file) /\ index \in 0..size
        /\ pc \in {"batch", "count", "record", "value", "headers", "push", "returned"}
        /\ left \in Nat
    BY DEF IInv, Typed
  <2>2. Len(fields) \in 0..Len(BatchRead) /\ Len(record) \in 0..Len(RecordRead)
    <3> DEFINE n == Len(fields)
               m == Len(record)
    <3>1. n \in Nat /\ n <= 12 /\ m \in Nat /\ m <= 6
      BY Lengths DEF IInv, Typed
    <3> HIDE DEF n, m
    <3>2. n \in 0..12 /\ m \in 0..6
      BY <3>1
    <3> QED BY <3>2, Orders, Lengths DEF n, m
  <2>3. ASSUME pc \in {"record", "value", "headers"} PROVE left > 0
    <3> DEFINE n == Len(RecordAt[which][Here])
    <3>1. This \in 1 .. n - 1 /\ left = n - This
      BY <2>3, InRecord DEF Records
    <3>2. n \in Nat
      BY <2>3, InRecord, BatchPlace, Reader
    <3> HIDE DEF n
    <3> QED BY <3>1, <3>2
  <2>4. Len(record_batches) <= Len(log)
    <3> DEFINE n == Len(BatchAt[which])
               b == Len(record_batches)
    <3>1. n \in Nat \ {0} /\ b \in Nat /\ b + 1 \in 1..n
      BY BatchPlaces, Reader DEF Here
    <3>2. Len(log) = n - 1
      <4>1. n - 1 \in Nat
        BY <3>1
      <4> QED BY <4>1 DEF log, Batches
    <3> HIDE DEF n, b
    <3>3. b <= n - 1
      BY <3>1
    <3> QED BY <3>2, <3>3 DEF b
  <2>5. batches_out \in 0..Len(record_batches) /\ records_out \in 0..Len(Writing)
    BY Writer
  <2> QED BY <2>1, <2>2, <2>3, <2>4, <2>5 DEF TypeOK
<1> QED BY <1>1, Inductive, PTL

(* Every field of a batch in a fetch reply is the field of the log at that *)
(* place, however far the controller has written the log, but for two that *)
(* become 0: the count of a null array, and a timestamp_delta_ that is the *)
(* smallest VARLONG.  All the batches read are in the reply in the end     *)
(* (cluster_metadata.hpp:19-56, 74-105, ireadable.hpp:65,                  *)
(* ireadable.cpp:44).                                                      *)
THEOREM CopiesButForEdges == Spec => []CopyButForEdges
<1>1. IInv => CopyButForEdges
  <2> SUFFICES ASSUME IInv PROVE CopyButForEdges
    OBVIOUS
  <2>1. \A j \in DOMAIN reply :
          reply[j] = file[j] \/ (reply[j] = 0 /\ (NullCount(j) \/ SmallestDelta(j)))
    <3>1. DOMAIN reply = 1..Len(reply) /\ Copied(reply)
      BY DEF IInv, Replies
    <3> QED BY <3>1 DEF Copied, Edge
  <2>2. BatchIsWritten /\ batches_out = Len(record_batches) =>
          Len(reply) = BatchAt[which][Len(record_batches) + 1]
    BY Writer
  <2>3. Len(reply) <= size
    <3>1. CASE batches_out = 0
      BY <3>1, Reader DEF IInv, Replies
    <3>2. CASE batches_out > 0
      <4> DEFINE k == batches_out
                 i == records_out + 1
                 n == Len(RecordAt[which][k])
      <4>1. k \in 1..Len(record_batches) /\ k \in Batches(which)
        BY <3>2, Writer, Reader
      <4>2. i \in 1..n /\ Len(reply) = RecordAt[which][k][i]
        <5>1. records_out \in 0 .. n - 1 /\ Len(reply) = RecordAt[which][k][records_out + 1]
          BY <3>2 DEF IInv, Replies
        <5>2. n \in Nat
          BY <4>1, BatchPlace, Reader
        <5> HIDE DEF n
        <5> QED BY <5>1, <5>2
      <4>3. RecordAt[which][k][i] \in 0..BatchAt[which][k + 1] /\ BatchAt[which][k + 1] \in Nat
        <5>1. which \in DOMAIN Files /\ Len(file) \in Nat
          BY Reader
        <5>2. \A j \in 1..n : RecordAt[which][k][j] \in 0..BatchAt[which][k + 1]
          BY <4>1, <5>1, BatchPlace
        <5>3. BatchAt[which][k + 1] \in 0..Len(file)
          BY <4>1, <5>1, BatchPlace DEF file
        <5> QED BY <4>2, <5>1, <5>2, <5>3
      <4>4. BatchAt[which][k + 1] <= BatchAt[which][Here]
        <5>1. k + 1 \in DOMAIN BatchAt[which]
          BY <4>1, BatchPlace, Reader
        <5>2. k + 1 = Here \/ k + 1 < Here
          BY <4>1, Reader DEF Here
        <5> QED BY <5>1, <5>2, <4>3, BatchPlaces, Reader
      <4>5. BatchAt[which][Here] \in 0..index /\ index \in 0..size /\ size \in Nat
        BY Reader
      <4> HIDE DEF k, i
      <4> QED BY <4>2, <4>3, <4>4, <4>5
    <3> QED BY <3>1, <3>2, Writer, Reader
  <2> QED BY <2>1, <2>2, <2>3 DEF CopyButForEdges
<1> QED BY <1>1, Inductive, PTL

-----------------------------------------------------------------------------
(* RecordLog implements BatchReader.                                       *)

Whole == {k \in Batches(which) : BatchAt[which][k + 1] <= size}
Sound == {k \in Batches(which) : \A j \in 1..k : \A r \in Records(which, j) : RecordParses(which, j, r)}

(* What the next field of a record is.                                     *)
LEMMA NextInRecord ==
  ASSUME IInv, pc = "record"
  PROVE  /\ Len(record) \in 0..5
         /\ index = RecordAt[which][Here][This] + Len(record)
         /\ RecordRead[Len(record) + 1] = "key" => Len(record) = 4
         /\ RecordRead[Len(record) + 1] = "value_len_" => Len(record) = 5
<1> DEFINE n == Len(record)
<1>1. n \in 0..6
  BY InRecord
<1>2. n < 6 /\ index = RecordAt[which][Here][This] + n
  BY DEF IInv, Reads, InRecords
<1> HIDE DEF n
<1>3. n \in 0..5 /\ n + 1 \in 1..6 /\ 5 \in 1..6 /\ 6 \in 1..6
  BY <1>1, <1>2
<1>4. (RecordRead[n + 1] = "key" => n + 1 = 5) /\ (RecordRead[n + 1] = "value_len_" => n + 1 = 6)
  BY <1>3, RecordNames, Orders
<1>5. (n + 1 = 5 => n = 4) /\ (n + 1 = 6 => n = 5)
  BY <1>3
<1> QED BY <1>2, <1>3, <1>4, <1>5 DEF n

(* A batch that is whole and parses has whatever the reader asks for next, *)
(* and as the reader expects it.                                           *)
LEMMA NothingStopsHere ==
  ASSUME IInv, Here \in Whole, Here \in Sound,
         pc \in {"batch", "count", "record", "value", "headers"}
  PROVE  ~Missing /\ ~Refused
<1> DEFINE next == BatchAt[which][Here + 1]
           places == RecordAt[which][Here]
<1>1. /\ Here \in Batches(which) /\ Here \in Nat \ {0} /\ next <= size
      /\ \A r \in Records(which, Here) : RecordParses(which, Here, r)
  <2>1. Here \in Batches(which) /\ next <= size
    BY DEF Whole
  <2>2. Here \in Nat \ {0}
    BY <2>1, BatchPlace, Reader
  <2>3. Here \in 1..Here
    BY <2>2
  <2> QED BY <2>1, <2>2, <2>3 DEF Sound
<1>2. next \in Nat /\ size \in Nat /\ index \in Nat
  <2>1. next \in 0..Len(file)
    BY <1>1, BatchPlace, Reader DEF file
  <2> QED BY <2>1, Reader
<1>3. CASE pc \in {"batch", "count"}
  <2> DEFINE at == BatchAt[which][Here]
             n == Len(fields)
  <2>1. index = at + n /\ (pc = "batch" => n < 12) /\ (pc = "count" => n = 12)
    BY <1>3, Lengths DEF IInv, Reads, InHead
  <2>2. n \in Nat
    BY DEF IInv, Typed
  <2>3. at \in Nat /\ at + 13 \in 1..next
    <3>1. which \in DOMAIN Files /\ at \in 0..index /\ index \in Nat
      BY <1>2, Reader
    <3>2. RecordAt[which][Here][1] = at + 13 /\ RecordAt[which][Here][1] \in 1..next
      BY <1>1, <3>1, BatchPlace
    <3> HIDE DEF at, next
    <3> QED BY <3>1, <3>2
  <2> HIDE DEF at, n, next
  <2>4. index + 1 <= size
    BY <1>1, <1>2, <1>3, <2>1, <2>2, <2>3
  <2> QED BY <1>3, <2>4 DEF Missing, Refused, There
<1>4. CASE pc \in {"record", "value", "headers"}
  <2> DEFINE p == places[This]
             q == places[This + 1]
             m == ValueLength(which, Here, This)
  <2>1. This \in Records(which, Here)
    BY <1>4, InRecord
  <2>2. p \in Nat /\ m \in Nat /\ q = p + 7 + m /\ q \in 0..next /\ ValueAt(which, Here, This) = p + 6
    <3>1. which \in DOMAIN Files
      BY Reader
    <3>2. /\ p \in 0..next /\ q \in 0..next /\ ValueAt(which, Here, This) = p + 6
          /\ m \in Nat /\ q = p + 7 + m
      BY <1>1, <2>1, <3>1, RecordPlace
    <3> HIDE DEF p, q, m, next
    <3> QED BY <3>2, <1>2
  <2>3. file[p + 5] = 1 /\ read_varint(file[p + 6]) >= 0 /\ file[q] = 0
    BY <1>1, <2>1, RecordMade, Reader DEF file
  <2>4. read_varint(file[p + 6]) \in Int
    <3>1. which \in DOMAIN Files
      BY Reader
    <3>2. \A j \in 1..6 : Files[which][p + j] \in OnDisk(RecordLayout[j])
      BY <1>1, <2>1, <3>1, RecordFields
    <3>3. file[p + 6] \in OnDisk(RecordLayout[6])
      <4> HIDE DEF p
      <4> QED BY <3>2 DEF file
    <3>4. OnDisk(RecordLayout[6]) = Encodings(HalfBits)
      BY Lengthened
    <3> QED BY <3>3, <3>4, VarintWrittenBack
  <2>5. CASE pc = "record"
    <3> DEFINE n == Len(record)
    <3>1. /\ n \in 0..5 /\ index = p + n
          /\ (RecordRead[n + 1] = "key" => n = 4) /\ (RecordRead[n + 1] = "value_len_" => n = 5)
      BY <2>5, NextInRecord
    <3> HIDE DEF n, p, q, m, next
    <3>2. index + 1 <= size
      BY <1>1, <1>2, <2>2, <3>1
    <3>3. (n = 4 => index + 1 = p + 5) /\ (n = 5 => index + 1 = p + 6)
      BY <2>2, <3>1
    <3>4. /\ ~(RecordRead[n + 1] = "key" /\ Decoded(RecordRead[n + 1], file[index + 1]) # 1)
          /\ ~(RecordRead[n + 1] = "value_len_" /\ Decoded(RecordRead[n + 1], file[index + 1]) < 0)
      <4>1. ASSUME RecordRead[n + 1] = "key" PROVE Decoded(RecordRead[n + 1], file[index + 1]) = 1
        <5>1. n = 4 /\ Decoded(RecordLayout[5], file[p + 5]) = 1
          BY <4>1, <2>3, <3>1, Unchanged
        <5> QED BY <4>1, <5>1, <3>3, RecordNames
      <4>2. ASSUME RecordRead[n + 1] = "value_len_" PROVE ~(Decoded(RecordRead[n + 1], file[index + 1]) < 0)
        <5>1. n = 5 /\ Decoded(RecordLayout[6], file[p + 6]) >= 0 /\ Decoded(RecordLayout[6], file[p + 6]) \in Int
          BY <4>2, <2>3, <2>4, <3>1, Lengthened
        <5>2. Decoded(RecordRead[n + 1], file[index + 1]) = Decoded(RecordLayout[6], file[p + 6])
          BY <4>2, <5>1, <3>3, RecordNames
        <5> DEFINE x == Decoded(RecordLayout[6], file[p + 6])
        <5> HIDE DEF x
        <5>3. x \in Int /\ x >= 0 => ~(x < 0)
          OBVIOUS
        <5> QED BY <5>1, <5>2, <5>3 DEF x
      <4> QED BY <4>1, <4>2
    <3> QED BY <2>5, <3>2, <3>4 DEF Missing, Refused, There, Field, Member, Value, n
  <2>6. CASE pc = "value"
    <3>1. index = p + 6 /\ Members(RecordRead, record)["value_len_"] = m
      BY <2>2, <2>6, InValue DEF IInv, Reads, InRecords
    <3> HIDE DEF p, q, m, next
    <3>2. index + m <= size
      BY <1>1, <1>2, <2>2, <3>1
    <3> QED BY <2>6, <3>1, <3>2 DEF Missing, Refused, There
  <2>7. CASE pc = "headers"
    <3>1. index = q - 1
      BY <2>7 DEF IInv, Reads, InRecords
    <3> HIDE DEF p, q, m, next
    <3>2. index + 1 = q /\ index + 1 <= size
      BY <1>1, <1>2, <2>2, <3>1
    <3> QED BY <2>3, <2>7, <3>2 DEF Missing, Refused, There, Field
  <2> QED BY <1>4, <2>5, <2>6, <2>7
<1> QED BY <1>3, <1>4

(* What is whole stays whole, and the batches before it are whole.         *)
LEMMA WholeGrows ==
  ASSUME IInv, LogAppend
  PROVE  Whole \subseteq Whole' /\ \A k \in Whole' : 1..k \subseteq Whole'
<1>1. which' = which /\ size' = size + 1 /\ size \in Nat /\ which \in DOMAIN Files
  BY Reader DEF LogAppend
<1>2. ASSUME NEW k \in Batches(which)
      PROVE  k \in Nat \ {0} /\ k + 1 \in DOMAIN BatchAt[which] /\ BatchAt[which][k + 1] \in Nat
  <2>1. BatchAt[which][k + 1] \in 0..Len(file) /\ Len(file) \in Nat
    BY BatchPlace, Reader DEF file
  <2> QED BY <2>1, BatchPlace, Reader
<1>3. Whole \subseteq Whole'
  <2> SUFFICES ASSUME NEW k \in Whole PROVE k \in Whole'
    OBVIOUS
  <2> DEFINE x == BatchAt[which][k + 1]
  <2>1. k \in Batches(which) /\ x <= size
    BY DEF Whole
  <2>2. x \in Nat
    BY <2>1, <1>2
  <2> HIDE DEF x
  <2>3. x <= size + 1
    BY <1>1, <2>1, <2>2
  <2> QED BY <1>1, <2>1, <2>3 DEF Whole, x
<1>4. ASSUME NEW k \in Whole', NEW j \in 1..k
      PROVE  j \in Whole'
  <2> DEFINE x == BatchAt[which][k + 1]
             y == BatchAt[which][j + 1]
  <2>1. k \in Batches(which) /\ x <= size + 1
    BY <1>1 DEF Whole
  <2>2. k \in Nat /\ j \in Batches(which)
    <3>1. k \in Nat \ {0} /\ k \in 1 .. Len(BatchAt[which]) - 1 /\ Len(BatchAt[which]) \in Nat
      BY <1>1, <1>2, <2>1, BatchPlaces DEF Batches
    <3> DEFINE n == Len(BatchAt[which])
    <3> HIDE DEF n
    <3>2. n \in Nat /\ k \in 1 .. n - 1 => j \in 1 .. n - 1
      OBVIOUS
    <3> QED BY <3>1, <3>2 DEF Batches, n
  <2>3. y \in Nat /\ x \in Nat /\ j + 1 \in DOMAIN BatchAt[which] /\ k + 1 \in DOMAIN BatchAt[which]
    BY <1>2, <2>1, <2>2
  <2>4. y <= x
    <3>1. CASE j = k
      BY <3>1, <2>3
    <3>2. CASE j # k
      <4>1. j + 1 < k + 1
        BY <3>2, <2>2
      <4>2. y < x
        BY <4>1, <2>3, <1>1, BatchPlaces
      <4> QED BY <4>2, <2>3
    <3> QED BY <3>1, <3>2
  <2> HIDE DEF x, y
  <2>5. y <= size + 1
    BY <1>1, <2>1, <2>3, <2>4
  <2> QED BY <1>1, <2>2, <2>5 DEF Whole, y
<1> QED BY <1>3, <1>4

(* Read field by field while it is being appended to, a log is delivered in  *)
(* whole batches, in order, and the reading returns only in front of a     *)
(* batch that is not whole or that it cannot parse                         *)
(* (cluster_metadata.cpp:12-27).                                           *)
THEOREM BatchesAreWhole == Spec => ImplementsBatchReader
<1>1. Init => Promise!Init
  BY DEF Init, Promise!Init
<1>2. IInv /\ [Next]_vars => [Promise!Next]_(Promise!vars)
  <2> SUFFICES ASSUME IInv, [Next]_vars PROVE [Promise!Next]_(Promise!vars)
    OBVIOUS
  <2>1. CASE LogAppend
    <3>1. UNCHANGED <<which, record_batches, pc>>
      BY <2>1 DEF LogAppend, reader
    <3>2. Whole \subseteq Whole' /\ \A k \in Whole' : 1..k \subseteq Whole'
      BY <2>1, WholeGrows
    <3>3. Promise!Grow
      BY <3>1, <3>2 DEF Promise!Grow, Whole, log
    <3> QED BY <3>3 DEF Promise!Next
  <2>2. CASE ReadField \/ ReadCount \/ ReadRecordField \/ ReadValue \/ ReadHeaders
    <3>1. UNCHANGED <<which, size, record_batches>> /\ pc # "returned" /\ pc' # "returned"
      BY <2>2 DEF ReadField, ReadCount, ReadRecordField, ReadValue, ReadHeaders
    <3>2. UNCHANGED Promise!vars
      BY <3>1 DEF Promise!vars, log
    <3> QED BY <3>2
  <2>3. CASE PushBack
    <3>1. /\ pc = "push" /\ pc' = "batch" /\ UNCHANGED <<which, size>>
          /\ record_batches' = Append(record_batches, ReadBatch)
      BY <2>3 DEF PushBack
    <3>2. /\ Here \in Batches(which) /\ ReadBatch = BatchIn(which, Here)
          /\ \A r \in Records(which, Here) : RecordParses(which, Here, r)
      BY <3>1, BatchIsRead
    <3>3. Here \in Whole
      <4>1. index = BatchAt[which][Here + 1]
        BY <3>1 DEF IInv, Reads, AtEnd
      <4>2. index <= size
        BY Reader
      <4> QED BY <3>2, <4>1, <4>2 DEF Whole
    <3>4. Here \in Sound
      <4>1. \A j \in 1..Len(record_batches) : \A r \in Records(which, j) : RecordParses(which, j, r)
        BY DEF IInv, Reads, BatchesRead
      <4>2. \A j \in 1..Here : j \in 1..Len(record_batches) \/ j = Here
        BY OneMore, Reader DEF Here
      <4> QED BY <3>2, <4>1, <4>2 DEF Sound
    <3>5. log[Here] = ReadBatch
      BY <3>2 DEF log
    <3>6. Promise!Following = Here
      BY DEF Promise!Following, Here
    <3>7. UNCHANGED log
      BY <3>1 DEF log
    <3> HIDE DEF log
    <3>8. Promise!Deliver
      BY <3>1, <3>3, <3>4, <3>5, <3>6, <3>7 DEF Promise!Deliver, Whole, Sound
    <3> QED BY <3>8 DEF Promise!Next
  <2>4. CASE Catch
    <3>1. /\ pc \in {"batch", "count", "record", "value", "headers"} /\ pc' = "returned"
          /\ Missing \/ Refused
          /\ UNCHANGED <<which, size, record_batches>>
      BY <2>4 DEF Catch
    <3>2. ~(Here \in Whole /\ Here \in Sound)
      BY <3>1, NothingStopsHere
    <3>3. Promise!Following = Here
      BY DEF Promise!Following, Here
    <3>4. Promise!Return
      BY <3>1, <3>2, <3>3 DEF Promise!Return, Whole, Sound, log
    <3> QED BY <3>4 DEF Promise!Next
  <2>5. CASE WriteBatch \/ WriteRecord \/ UNCHANGED vars
    <3>1. UNCHANGED <<which, size, record_batches, pc>>
      BY <2>5 DEF WriteBatch, WriteRecord, vars, reader
    <3>2. UNCHANGED Promise!vars
      BY <3>1 DEF Promise!vars, log
    <3> QED BY <3>2
  <2> QED BY <2>1, <2>2, <2>3, <2>4, <2>5 DEF Next, read_record_batches
<1> QED BY <1>1, <1>2, Inductive, PTL DEF Spec, ImplementsBatchReader, Promise!Spec
=============================================================================
