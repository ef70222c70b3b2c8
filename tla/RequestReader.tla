---------------------------- MODULE RequestReader ----------------------------
(***************************************************************************)
(* RequestMessage::read over the payload of one frame (message/messages.hpp *)
(* and the readers of headers.hpp, fetch.hpp, api_versions.hpp,            *)
(* describe_topic_partitions.hpp): the header, and then the request its    *)
(* API key names, field by field out of a ReadableBuffer.                  *)
(*                                                                         *)
(* A field of fixed width is the sequence of its bytes.  A string or array *)
(* is preceded by its length in digits of base Base, 128 in the code.      *)
(***************************************************************************)
EXTENDS Integers, Sequences, SequencesExt, TLC

CONSTANTS
  Message,  \* the messages clients send, each a sequence of [type, value] fields
  Base,     \* what a digit of a length counts to
  Null      \* a null string or array

Width == [INT8 |-> 1, INT16 |-> 2, INT32 |-> 4, INT64 |-> 8, UUID |-> 16]

(* The order in which the readers ask for fields: api key, version,        *)
(* correlation id and client id;                                           *)
RequestHeader == <<"INT16", "INT16", "INT32", "NULLABLE_STRING", "TAGS">>

(* the name and the version of the client's software;                      *)
ApiVersionsRequest == <<"COMPACT_STRING", "COMPACT_STRING", "TAGS">>

(* topics, of which the name, partition limit and cursor;                  *)
TopicRequest == <<"COMPACT_STRING", "TAGS">>
DescribeTopicPartitionsRequest == <<"TopicRequest", "INT32", "CURSOR", "TAGS">>

(* partition, epoch, offset, epoch, offset and byte limit; topic id and    *)
(* partitions; the same of the topics to forget; and time and size limits, *)
(* isolation level, session, topics, topics to forget and rack.            *)
FetchPartition == <<"INT32", "INT32", "INT64", "INT32", "INT64", "INT32", "TAGS">>
FetchTopic     == <<"UUID", "FetchPartition", "TAGS">>
Partition      == <<"INT32">>
ForgottonTopic == <<"UUID", "Partition", "TAGS">>
FetchRequest ==
  <<"INT32", "INT32", "INT32", "INT8", "INT32", "INT32",
    "FetchTopic", "ForgottonTopic", "COMPACT_STRING", "TAGS">>

(* Where the name of a layout stands for a type, a COMPACT_ARRAY of them.  *)
Layout ==
  [RequestHeader |-> RequestHeader, ApiVersionsRequest |-> ApiVersionsRequest,
   DescribeTopicPartitionsRequest |-> DescribeTopicPartitionsRequest,
   TopicRequest |-> TopicRequest, FetchRequest |-> FetchRequest, FetchTopic |-> FetchTopic,
   FetchPartition |-> FetchPartition, ForgottonTopic |-> ForgottonTopic, Partition |-> Partition]

(* The request class of an API key.                                        *)
RequestOf ==
  <<0, 1>> :> "FetchRequest" @@ <<0, 18>> :> "ApiVersionsRequest"
    @@ <<0, 75>> :> "DescribeTopicPartitionsRequest"

-----------------------------------------------------------------------------
(* The client: the bytes of a message.                                     *)

Digits(n) ==
  LET d[m \in 0..n] == IF m < Base THEN <<m>> ELSE <<(m % Base) + Base>> \o d[m \div Base]
  IN  d[n]

Encoding(field) ==
  CASE field.type = "COUNT" ->
         IF field.value = Null THEN <<0>> ELSE Digits(field.value + 1)
    [] field.type = "COMPACT_STRING" ->
         IF field.value = Null THEN <<0>> ELSE Digits(Len(field.value) + 1) \o field.value
    [] field.type = "NULLABLE_STRING" ->
         IF field.value = Null THEN <<255, 255>> ELSE <<0, Len(field.value)>> \o field.value
    [] field.type \in {"TAGS", "CURSOR"} -> <<field.value>>
    [] OTHER -> field.value

Bytes(m) == FlattenSeq([j \in DOMAIN m |-> Encoding(m[j])])

VARIABLES
  message,  \* what the client means
  buffer,   \* the payload that reached the server: bytes_ of the ReadableBuffer
  index_,   \* how many bytes of it are read
  stage,    \* "header", "request", or how the reading ended
  stack,    \* the objects being read, the innermost last
  fields    \* the fields read

reading == <<message, buffer>>
vars    == <<reading, index_, stage, stack, fields>>

(* An object that is about to be read, with left elements of its array     *)
(* behind it.                                                              *)
Object(layout, left) == [layout |-> layout, next |-> 1, left |-> left]

(* The payload is the message, a piece of it, or has more behind it: the   *)
(* client speaks another version, or stopped short.                        *)
Init ==
  /\ message \in Message
  /\ \/ \E n \in 0 .. Len(Bytes(message)) : buffer = SubSeq(Bytes(message), 1, n)
     \/ buffer = Append(Bytes(message), 255)
  /\ index_ = 0
  /\ stage = "header"
  /\ stack = <<Object("RequestHeader", 0)>>
  /\ fields = <<>>

-----------------------------------------------------------------------------
Top     == Last(stack)
Type    == Layout[Top.layout][Top.next]
IsArray == Type \in DOMAIN Layout

(* Mutant: an object's tagged fields are not read.                         *)
ObjectEndsEarly == Top.next >= Len(Layout[Top.layout])

(* The fields of the innermost object are read.                            *)
ObjectEnd == Top.next > Len(Layout[Top.layout])

(* Where the digits of a length end: behind the buffer if it holds no last *)
(* digit.                                                                  *)
DigitsEnd ==
  LET last == {j \in index_ + 1 .. Len(buffer) : (buffer[j] \div Base) % 2 = 0}
  IN  IF last = {} THEN Len(buffer) + 1 ELSE CHOOSE j \in last : \A k \in last : j <= k

(* read_unsigned_varint.                                                   *)
Length ==
  LET n[j \in index_ + 1 .. DigitsEnd + 1] ==
        IF j > DigitsEnd THEN 0 ELSE (buffer[j] % Base) + Base * n[j + 1]
  IN  n[index_ + 1]

(* Mutant: the length is taken for the number of elements.                 *)
LengthIsCount(n) == n

(* What a length announces: one less, or nothing if it is null.            *)
Count(n) == IF n = 0 THEN 0 ELSE n - 1

(* The INT16 before a NULLABLE_STRING; negative if it is null.             *)
NullableCount ==
  IF buffer[index_ + 1] >= 128 THEN 0 ELSE 256 * buffer[index_ + 1] + buffer[index_ + 2]

(* Where the next field ends.                                              *)
End ==
  CASE Type \in DOMAIN Width      -> index_ + Width[Type]
    [] Type \in {"TAGS", "CURSOR"} -> index_ + 1
    [] Type = "NULLABLE_STRING" ->
         index_ + 2 + IF index_ + 2 > Len(buffer) THEN 0 ELSE NullableCount
    [] Type = "COMPACT_STRING" ->
         DigitsEnd + IF DigitsEnd > Len(buffer) THEN 0 ELSE Count(Length)
    [] IsArray -> DigitsEnd

(* ReadableBuffer::read throws of bytes that are not there.                *)
Fits == End <= Len(buffer)

(* No tagged fields, and no cursor: 0x00 and 0xFF.                         *)
Expected ==
  /\ Type = "TAGS"   => buffer[End] = 0
  /\ Type = "CURSOR" => buffer[End] = 255

Value ==
  CASE Type \in {"TAGS", "CURSOR"} -> buffer[End]
    [] Type = "NULLABLE_STRING"    -> SubSeq(buffer, End - NullableCount + 1, End)
    [] Type = "COMPACT_STRING"     -> SubSeq(buffer, End - Count(Length) + 1, End)
    [] OTHER                       -> SubSeq(buffer, index_ + 1, End)

Busy     == stage \in {"header", "request"}
Advanced == [stack EXCEPT ![Len(stack)].next = @ + 1]

ReadField ==
  /\ Busy /\ ~ObjectEnd /\ ~IsArray
  /\ Fits /\ Expected
  /\ index_' = End
  /\ fields' = Append(fields, [type |-> Type, value |-> Value])
  /\ stack' = Advanced
  /\ UNCHANGED <<reading, stage>>

(* read_compact_array: the count, and on to the first element.             *)
ReadCount ==
  /\ Busy /\ ~ObjectEnd /\ IsArray
  /\ Fits
  /\ index_' = End
  /\ fields' = Append(fields, [type |-> "COUNT", value |-> Count(Length)])
  /\ stack' = IF Count(Length) = 0 THEN Advanced
              ELSE Append(Advanced, Object(Type, Count(Length) - 1))
  /\ UNCHANGED <<reading, stage>>

(* The fields read by then are gone with the objects that were to hold them. *)
Throw ==
  /\ Busy /\ ~ObjectEnd
  /\ Fits => ~IsArray /\ ~Expected
  /\ stage' = "thrown"
  /\ UNCHANGED <<reading, index_, stack, fields>>

(* Mutant: the loop goes round once more.                                  *)
ElementReadOnce ==
  /\ Busy /\ ObjectEnd /\ Len(stack) > 1
  /\ stack' = IF Top.left >= 0
              THEN Append(Front(stack), Object(Top.layout, Top.left - 1))
              ELSE Front(stack)
  /\ UNCHANGED <<reading, index_, stage, fields>>

(* The loop over the elements of an array.                                 *)
ElementRead ==
  /\ Busy /\ ObjectEnd /\ Len(stack) > 1
  /\ stack' = IF Top.left > 0
              THEN Append(Front(stack), Object(Top.layout, Top.left - 1))
              ELSE Front(stack)
  /\ UNCHANGED <<reading, index_, stage, fields>>

(* The switch on the API key.  An unknown one leaves request_ null, and    *)
(* the call through it ends the process.                                   *)
HeaderRead ==
  /\ stage = "header" /\ ObjectEnd
  /\ IF fields[1].value \in DOMAIN RequestOf
     THEN stage' = "request" /\ stack' = <<Object(RequestOf[fields[1].value], 0)>>
     ELSE stage' = "null" /\ stack' = stack
  /\ UNCHANGED <<reading, index_, fields>>

RequestRead ==
  /\ stage = "request" /\ ObjectEnd /\ Len(stack) = 1
  /\ stage' = "done"
  /\ UNCHANGED <<reading, index_, stack, fields>>

Next == ReadField \/ ReadCount \/ Throw \/ ElementRead \/ HeaderRead \/ RequestRead

Spec == Init /\ [][Next]_vars

-----------------------------------------------------------------------------
(* Properties.                                                             *)

(* The reader stays inside the buffer, its loops inside their arrays, and  *)
(* objects inside each other no deeper than the readers call each other    *)
(* (readable_buffer.hpp:19-27, ireadable.hpp:75-105).                      *)
ReaderTypeOK ==
  /\ index_ \in 0 .. Len(buffer)
  /\ stage \in {"header", "request", "done", "thrown", "null"}
  /\ Len(stack) \in 1..3
  /\ \A k \in DOMAIN stack :
       /\ stack[k].next \in 1 .. Len(Layout[stack[k].layout]) + 1
       /\ stack[k].left \in Nat

(* What a field is to the server, which does not tell null from empty.     *)
Understood(field) ==
  IF field.value # Null THEN field
  ELSE [field EXCEPT !.value = IF field.type = "COUNT" THEN 0 ELSE <<>>]

Whole == Len(buffer) >= Len(Bytes(message))

(* What the readers have no use for: another API key, tagged fields, a     *)
(* cursor.                                                                 *)
Unwelcome ==
  \/ message[1].value \notin DOMAIN RequestOf
  \/ \E field \in ToSet(message) :
       \/ field.type = "TAGS" /\ field.value # 0
       \/ field.type = "CURSOR" /\ field.value # 255

(* A frame that came whole is read as it was meant, whatever strings and   *)
(* arrays in it are null, empty or long enough for a length of two digits, *)
(* and bytes behind it do no harm; only what the readers refuse throws     *)
(* (messages.hpp:24-38).                                                   *)
WholeFrameIsRead ==
  /\ stage = "done" => fields = [j \in DOMAIN message |-> Understood(message[j])]
  /\ stage \in {"thrown", "null"} /\ Whole => Unwelcome

(* No frame that stops short is taken for a request, wherever it stops: in *)
(* a length, between two elements or before the last tagged fields, so     *)
(* that no handler sees half of a client's topics (readable_buffer.hpp:22). *)
CutFrameIsRefused == stage = "done" => Whole /\ ~Unwelcome
=============================================================================
