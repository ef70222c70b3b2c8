------------------------------ MODULE MCCodec ------------------------------
(* A number on its way to the wire and back (Varint), or the payload of a  *)
(* frame on its way to a request (RequestReader): a behaviour is one of    *)
(* either, and leaves the other alone.                                     *)
EXTENDS Varint

CONSTANTS Base, Null

VARIABLES message, buffer, index_, stage, stack, fields

frame == <<message, buffer, index_, stage, stack, fields>>

Field(type, v) == [type |-> type, value |-> v]
Fixed(type, width, v) == Field(type, [j \in 1..width |-> IF j = width THEN v ELSE 0])
Int16(v) == Fixed("INT16", 2, v)
Int32(v) == Fixed("INT32", 4, v)
Int64(v) == Fixed("INT64", 8, v)
Uuid(v)  == Fixed("UUID", 16, v)
NoTags   == Field("TAGS", 0)

Header(api, client, tags) ==
  <<Int16(api), Int16(4), Int32(7), Field("NULLABLE_STRING", client), Field("TAGS", tags)>>

ApiVersions(name, version) ==
  Header(18, <<1>>, 0) \o <<Field("COMPACT_STRING", name), Field("COMPACT_STRING", version), NoTags>>

Describe(client, names, cursor) ==
  Header(75, client, 0) \o <<Field("COUNT", Len(names))>>
    \o [j \in 1 .. 2 * Len(names) |->
          IF j % 2 = 1 THEN Field("COMPACT_STRING", names[(j + 1) \div 2]) ELSE NoTags]
    \o <<Int32(5), Field("CURSOR", cursor), NoTags>>

Partition(p) == <<Int32(p), Int32(0), Int64(3), Int32(1), Int64(0), Int32(9), NoTags>>
Topic(id, partitions) == <<Uuid(id)>> \o partitions \o <<NoTags>>

Fetch(topics, forgotten, rack) ==
  Header(1, <<>>, 0) \o <<Int32(1), Int32(2), Int32(3), Fixed("INT8", 1, 1), Int32(4), Int32(5)>>
    \o topics \o forgotten \o <<Field("COMPACT_STRING", rack), NoTags>>

None  == <<Field("COUNT", 0)>>
Nulls == <<Field("COUNT", Null)>>
Two   == <<Field("COUNT", 2)>>

MCMessage ==
  {ApiVersions(<<1, 2, 3>>, Null), ApiVersions(<<>>, <<255>>),
   Describe(Null, <<>>, 255), Describe(<<1>>, <<<<1>>, <<>>, <<2, 0, 1>>>>, 255),
   Describe(<<1, 2>>, <<<<1>>>>, 1),
   Fetch(None, Nulls, <<>>),
   Fetch(Two \o Topic(1, Two \o Partition(0) \o Partition(1)) \o Topic(2, None),
         Two \o Topic(3, Two \o <<Int32(0), Int32(1)>>) \o Topic(0, Nulls), <<1, 1, 1, 1>>),
   Header(2, <<>>, 0), Header(18, <<>>, 1)}

Reader == INSTANCE RequestReader WITH Message <- MCMessage

(* A number already read, and a frame already refused.                     *)
NoNumber ==
  /\ kind = "VARINT" /\ value = 0 /\ pc = "done"
  /\ n = 0 /\ i = 0 /\ bytes = <<>>
NoFrame ==
  /\ message = Header(2, <<>>, 0) /\ buffer = <<>> /\ index_ = 0
  /\ stage = "thrown" /\ stack = <<Reader!Object("RequestHeader", 0)>> /\ fields = <<>>

CodecInit == (Init /\ NoFrame) \/ (NoNumber /\ Reader!Init)
CodecNext == (Next /\ UNCHANGED frame) \/ (Reader!Next /\ UNCHANGED vars)
CodecSpec == CodecInit /\ [][CodecNext]_<<vars, frame>> /\ WF_vars(Next /\ UNCHANGED frame)

ReaderTypeOK      == Reader!ReaderTypeOK
WholeFrameIsRead  == Reader!WholeFrameIsRead
CutFrameIsRefused == Reader!CutFrameIsRefused
=============================================================================
