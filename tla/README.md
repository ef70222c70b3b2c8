# A verification project for the Kafka broker

The broker is a C++ process that answers three Kafka requests (ApiVersions,
DescribeTopicPartitions, Fetch) from logs another process writes under
`/tmp/kraft-combined-logs`. This directory holds TLA+ models of it, the TLC runs
that check them on small instances, and proofs for instances of any size. Paths
below are relative to the repository's root.

## Inventory

| Component | Code | State | Operations |
|---|---|---|---|
| Accept loop | `src/network/server.cpp:23-49,174-188` | listening socket, the loop's local `Client` | `Server()`, `start` |
| Connection threads | `src/network/server.cpp:51-172`, `network/client.hpp` | one thread and one descriptor per connection, the request, the response being built | `serve_client`, `handle_fetch`, `handle_api_versions`, `handle_describe_topic_partitions` |
| File descriptors | `protocol/file_descriptor.{hpp,cpp}` | `fd_`, and behind it the kernel's table | open, move, close, `read`, `write` |
| Cluster metadata | `metadata/cluster_metadata.{hpp,cpp}` | the static's guard, three maps, `mutex_` | `get_instance`, the constructor, `get_topic_id`, `get_topic_name`, `get_partition_ids` |
| Record log | `metadata/cluster_metadata.{hpp,cpp}` | a file that another process appends to | `read_record_batches`, `RecordBatch::read`, `Record::read` and their `write` |
| Messages | `message/*.hpp` | fields of requests and responses | `RequestMessage::read`, `ResponseMessage::write` |
| Primitive codecs | `protocol/i{readable,writable}.*` | none | `read_*`, `write_*` |
| Byte buffers | `protocol/{readable,writable}_buffer.hpp` | bytes and an index | `read`, `write` |
| Earlier server | `src/TCPServer.*`, `src/Buffer.*`, `src/KafkaResponse.hpp`, `src/ErrorCode.hpp` | | not in `CMakeLists.txt`, so not in the program |

How they interact. `start` accepts a connection, wraps the descriptor in a
`Client`, moves it into a detached thread and accepts the next. The threads share
the process: its descriptor table, the `ClusterMetadata` singleton, and its fate,
for an exception that leaves `serve_client` ends them all. A thread reads a frame,
calls the handler and writes the response before it reads again. The handlers of
Fetch and DescribeTopicPartitions call `get_instance`; the first such call builds
the maps from the metadata log. Fetch then opens one partition log at a time.

What is hard here: who owns a descriptor across two threads and the kernel's reuse
of numbers; limits (descriptors, threads) reached in the middle of something;
exceptions, some caught in a place that loses information, others nowhere; threads
that race for the singleton; logs that grow while they are read; arithmetic at the
edges of the variable-length integers. `PROJECT.json` lists the hazards by line.

What correctness means, per component:
- accept loop and threads: one owner per descriptor, none lost, every request of a
  connection answered, in order, and by nobody else's failure prevented;
- handlers: the reply is one the catalogue and the logs allow, the same catalogue
  for everyone, with an error code that means what its comment says;
- cluster metadata: nobody sees half-built maps, all of the log that was there is in
  them, no lookup waits for ever;
- file descriptors and frames: a frame is handed over whole however the kernel cuts
  the stream, replies leave without a byte repeated or left out, and a slow client
  ends nobody's process;
- record log: only whole batches are delivered, those that were on disk among them,
  and what a fetch sends is what the log holds, but at two edges that are named;
- codecs: what was written is read back, and reading stops where writing stopped;
- messages: a request is what its client meant, and a frame that stops short is none.

## Modules

```
Catalog ──────┬── Server ──────────── MCServer (TLC instances), ServerProofs, BrokerProofs,
              │     │                   PeacefulProofs
 (log, maps)  │     └─ implements ─── Broker
              └── ClusterMetadata ─── MCClusterMetadata, ClusterMetadataProofs
                    └─ implements ─── MetadataView
Framing ───────────────────────────── MCFraming, FramingProofs
   └─ implements ─ Exchange             (how Server reads and writes a frame)
VarintCodec ──┬── RecordLog ───────── MCRecordLog, RecordLogProofs
              │     └─ implements ─── BatchReader (how Server and ClusterMetadata read a log)
              └── Varint ──────────── VarintProofs, MCCodec
                                      (VarintCodecProofs for both)
RequestReader ─────────────────────── MCCodec
                                        (which payloads are MalformedRequest of Server)
```

The abstract specifications at the two seams are what the larger models take as one
step: Exchange is the frame that `ReadRequest` and `WriteResponse` of Server move,
BatchReader the batches that `ReadBatch` of ClusterMetadata and `ReadLog` of Server get.

**Catalog** has no state: the metadata log as a sequence of records with the lengths
at which batches end, and the three maps as functions of a prefix of it. A record is
a topic record, a partition record, one the constructor skips, one too short for its
fields (`short`, the constructor throws) or one with a key or header (`keyed`,
reading stops before its batch).

**Server** is the process and what surrounds it.

| State | Code |
|---|---|
| `main`, `local` | where `start` is; `fd_` of its local `client` |
| `at[c]`, `cfd[c]`, `lfd[c]` | where the thread of connection `c` is; `fd_` of its `client`; `fd_` of the `log_fd` in `read_record_batches` |
| `req[c]`, `body[c]`, `parts[c]` | the request, the response so far, the partitions of the current topic so far |
| `view` | the singleton: `Unloaded`, or its three maps |
| `fdt`, `queue` | the kernel's descriptor table (without the listening socket) and accept queue |
| `conn`, `sent`, `taken`, `replies` | the client's end: state, frames sent, how many the server has read, frames received |
| `up`, `starts`, `written` | the process, its starts, the records on disk |

A thread is known by its connection. It reaches the connection only through its
descriptor: `Peer(c) == Opened(cfd[c])`, so a descriptor closed or reused under it
makes it read from the wrong place, as it would in the process. A step of the model
is a stretch of code with at most one operation that another thread, the kernel or a
failure can see: a frame read, an `open`, a log read and closed, a lookup that can
throw, a frame written. `handle_fetch` is thus several actions and the other handlers
one. `Terminate` is the whole end of a process; `StartThrows` and `Crash` lead there
and their guards name the exceptions nobody catches. A frame that does not parse, or
whose key has no request class, is `MalformedRequest`.

**Broker** is what clients may rely on: one catalogue per life of the process, the
metadata log as it was at one moment of it; replies in request order, each in a set
that the request and the catalogue determine. `Server` implements it under the
identity mapping of `written`, `view`, `sent` and `replies`.

**ClusterMetadata** opens up what is one step in Server (`OpenMetadata`,
`LoadMetadata`): the guard of the function-local static, the batches read one by one
while the log grows, the records applied one by one, construction that throws and is
begun again by another thread before the process is gone, and the lookups with their
mutex. **MetadataView** is its promise: one catalogue that appears at once.

**Framing** is one connection, byte by byte, below what Server calls a frame.

| State | Code |
|---|---|
| `pc` | `"length"` and `"payload"`: the two calls of `FileDescriptor::read` in `read_bytes`; `"handle"`: between reading and replying; `"reply_length"` and `"reply"`: the two calls of `FileDescriptor::write` in `write_bytes` |
| `buf`, `p`, `nbytes` | the buffer and the two variables of the loops (`file_descriptor.cpp:7-31`) |
| `taken` | requests read by `serve_client` |
| `sent`, `got`, `out`, `drained` | the two directions of the socket: bytes put in and taken out |
| `open` | the client has not closed the connection |

A byte is its position in its stream. `ReadSome` and `WriteSome` are one turn of a loop
and transfer any number of bytes that the request, the stream and the kernel's buffer
allow. `Throws` has every way an exception leaves the thread: the stream ends or is
reset inside a transfer, the reply meets a closed connection, the payload is no request
(`Doubtful`), the length is negative. **Exchange** is the connection as Server has it:
frames arrive whole, are taken whole and one at a time, answered whole and in order, and
the process ends only for a client that left or a frame that is no request.

**RecordLog** is `read_record_batches` field by field against a log that the controller
appends to field by field, so that the end of the file can be met anywhere.

| State | Code |
|---|---|
| `which`, `size` | the file, of which `size` fields are on disk |
| `index`, `pc` | the position of `log_fd` and the read that comes next |
| `fields`, `left`, `records`, `record`, `value_` | the half-read `RecordBatch`, the loop of `read_array`, the half-read `Record` |
| `record_batches` | the result |
| `reply`, `batches_out`, `records_out` | what `RecordBatch::write` has put into a fetch reply, and the places of the two loops that call it and `Record::write` |

A file is the sequence of its fields and of the bytes of the values. A VARINT or VARLONG
stands in it, and in a reply, as the unsigned number that its digits spell: `Record::read`
makes a member of it with `read_varint` or `read_varlong` (`Decoded`), and `Record::write`
zigzags the member (`Encoded`), both as VarintCodec has them. The constants say by
position what is in it: `BatchAt` where each batch is, `RecordAt` where each record of a
batch is. `BatchIn` and `RecordIn` are what a reader should make of that; the actions know
nothing of the positions and go by the counts and lengths they read. A key that is there
and headers that are there are one field each, since the reader stops at their first byte.
`Catch` is the `catch (...)` that drops the half-read batch and returns. **BatchReader**
delivers whole batches one at a time and returns where the next is not whole or does not
parse.

**VarintCodec** is zigzag as the code computes it and undoes it, with its wrapping
arithmetic and its narrowing; the widths are parameters. **Varint** writes one such number
digit by digit into a byte stream and reads it back.

**RequestReader** is `RequestMessage::read` over the payload that `read_bytes` got: the
header, the switch on the API key, and the fields of the request, out of a
`ReadableBuffer`.

| State | Code |
|---|---|
| `buffer`, `index_` | `bytes_` and `index_` of the `ReadableBuffer` |
| `stack` | the objects whose `read` has been called, the innermost last; of each the field that comes next and how many elements its array still has behind it |
| `fields` | the values read |
| `stage` | the header, the request, or the end: `"done"`, `"thrown"`, or `"null"` where `request_` is null |
| `message` | the client's: what it means by the bytes |

The layouts are the sequences of `read_*` calls in `headers.hpp`, `fetch.hpp`,
`api_versions.hpp` and `describe_topic_partitions.hpp`; a field of fixed width is its
bytes. `ReadField`, `ReadCount` and `ElementRead` know no message: they go by layouts,
lengths and counts. A count that no memory holds throws in the code before an element is
read; in the model it throws when the elements are not there. What the client means, and
the bytes of it, follow the Kafka protocol and are external. A frame is
`MalformedRequest` in Server where the reading ends in `"thrown"` or `"null"`.
**MCCodec** holds the frames of the run and joins RequestReader to Varint: a behaviour
sends a number or a frame through the codecs.

Definitions named "Mutant: ..." are altered copies of the definition below them. No
specification uses them: they show that a property would notice such a change.

## Runs

| Run | Instance | Shows |
|---|---|---|
| `threads` | 3 clients that may leave, 3 descriptors, 2 threads, 2 starts | `TypeOK`, `DescriptorOwnership`, `NoDescriptorLeak` |
| `answers` | 2 clients, 2 requests each, 3 descriptors, 2 starts, one partition without a log | `DescribeAgree`, `ImplementsBroker` |
| `peaceful` | 2 clients that stay, 1 request each, 5 descriptors | `EveryRequestAnswered`, `Survives`, `UnknownTopicIdIsHonest` |
| `growing` | 2 threads, 2 lookups each, 4 batches with a recreated topic and a short record | `TypeOK`, `NobodySeesHalfBuiltMaps`, `ReadsEveryBatch`, `ImplementsView`, `EveryLookupEnds` |
| `framing` | 4 frames of 6, 2, 1 (perhaps no request) and -1 bytes, kernel buffers of 5 bytes | `TypeOK`, `WholeFrames`, `RepliesInOrder`, `ImplementsExchange`, `EveryFrameServed` |
| `recordlog` | six logs of 3 batches; the second is normal, a null array, empty, keyed, with a null value or with a header; one time stamp is the smallest VARLONG; widths of 8 and 10 bits | `TypeOK`, `CopyButForEdges`, `ImplementsBatchReader`, `ReadingEnds` |
| `roundtrip` | all values of 5 and 10 bits in 3-bit digits; nine frames, whole, cut after any byte or with a byte behind them | `VarintComesBack`, `VarlongComesBackUnlessSmallest`, `ShiftDefined`, `ReadsWhatWasWritten`; `ReaderTypeOK`, `WholeFrameIsRead`, `CutFrameIsRefused` |

Five more runs end in a counterexample, where the code disagrees with its own comments:

- `departure`: a client that closes its connection makes `read` throw "incomplete
  read" in its thread; nothing catches it and the process ends. `server.hpp:26`
  says that `start` keeps "serving their requests". `EveryRequestAnswered` asks for an
  answer to each request *unless its client leaves first*: what is violated is the promise
  to the client that stays. A server that took the end of a stream for the normal end of
  a connection would keep it, with clients leaving as they do in this run.
- `half_topic`: `get_partition_ids` is called outside the `try` (`server.cpp:133`).
  If the catalogue was read between the batch with the topic record and the one with
  its partition records, describing that topic ends the process.
- `unknown_id`: `catch (...)` in `make_fetchable_topic_response` reports any failure
  as UNKNOWN_TOPIC_ID of partition 0; the comment at `constants.hpp:22` says that the
  topic is not hosted.
- `keyed`: one batch with a keyed record hides all batches behind it, against
  "Reads every `RecordBatch`" (`cluster_metadata.hpp:127`).
- `smallest`: `n + 1` wraps in `read_varlong`, and the smallest INT64 comes back as 0. The
  run `recordlog` has such a time stamp in a log, and a fetch sends 0 for it.

One more disagreement has no run, because no line of the repository says which side is
meant: `handle_api_versions` refuses every version but 4 (`server.cpp:103`), and its reply
to version 4 advertises 0 to 4 (`server.cpp:108`).

### Bounds, and why they are enough

- Clients 2 or 3, threads 2: a third connection is what it takes to have one thread
  busy, one descriptor freed and reused, and one connection waiting. Descriptors 3 in
  `threads` and `answers`, so that accept and every open can be refused; 5 in
  `peaceful`, two for connections, two for logs and one for the accept that waits (the
  model's accept fails as soon as no descriptor is free, as the kernel's does).
- `Backlog` is 5 in the code and 2 in the runs; nothing depends on the number.
- `MaxSent` 1 or 2 frames per connection: 2 show order and pipelining. `MaxStarts` 2
  shows that nothing of one life reaches the next.
- The logs: `RecreatedLog` (a topic, then the same name under a new id), `HalfTopicLog`
  (topic and partition records in different batches), `ShortLog`, `GrowingLog`,
  `KeyedLog`; each has one instance of the case it is for.
- Frames: a prefix of 4 bytes against kernel buffers of 5, so that a prefix, a payload
  and a reply of 7 are cut at every place and both directions fill up at once; the first
  two frames are served, the third may be no request, the fourth cannot be read.
- Record logs: values of 0, 1 and 2 bytes and batches of 0, 1 and 2 records are the
  cases of the loops; a batch before and one behind the peculiar one show what precedes
  the end of reading and what it hides. No two members of a batch have the same value.
  Some are negative, the largest encoding of a VARLONG is among the time stamps, and one of
  a VARINT is above the middle of its width: two fields may be changed by a fetch, the count
  of a null array and that time stamp, and the run fails without either exception. 8 bits
  hold every VARINT the logs have, and 10 are more, as 64 are more than 32.
- Symmetry (clients, descriptors) is used in `threads` and `answers`, which check no
  liveness. The counterexample runs use as little as shows the point.
- Frames to be parsed: every request, with arrays that are null, empty, of one or more
  elements and inside each other, strings that are null, empty or not, a tagged field, a
  cursor and an unknown API key. Lengths are in digits of one bit, so that one element is
  enough for a length of two digits and three for one of three. Each frame is cut after
  each of its bytes.
- Deadlock checking is off: a broker with no client left to serve waits in accept, and
  the bounded environments come to an end.

### Fairness

`Server!FairSpec` has weak fairness for the accept loop and for each thread: the system
schedules threads and each of their steps, once possible, stays possible until it is
taken, or the process ends. Clients, the controller and restarts owe nothing.
`ClusterMetadata!FairSpec` is the same per thread; the mutex needs no strong fairness
because each thread makes a bounded number of lookups. `open` failing is never forced.
`Framing!FairSpec` has weak fairness of the thread and of the client's reading: a client
that stays reads its replies whatever it still has to send. Without it the server waits
in `write` for ever, as it does in the code. The client need not send, nor stay.
`RecordLog!Spec` has weak fairness of the reader; the log it reads grows only so far.
`Varint!Spec`, and for it `CodecSpec`, has weak fairness of the one thread there is.

## Proofs

`ServerProofs` proves, from `ServerAssumption` and `CatalogAssumption` only (what the
constants are; no bound on clients, descriptors, logs or requests):

- `TypeCorrect`: `Spec => []TypeOK`
- `OneOwner`: `Spec => []DescriptorOwnership`
- `NoneLost`: `Spec => []NoDescriptorLeak`

None of the three is inductive alone. `IInv` adds, to `TypeOK`, who owns what at which
program counter: the loop has a descriptor exactly between accept and the hand-over
(`LoopOwns`), a thread has its connection's exactly while it lives (`ThreadOwns`) and a
log's exactly while it reads one (`LogOwns`); a connection in the accept queue is there
once and has no thread (`QueueWaits`), and one that was never made is nowhere
(`Unconnected`), so that an accept cannot give a connection a second thread. Lastly
`LoopsInRange` keeps the fetch inside its request: without it the log that the next
step opens would have no type. `Inductive` shows `Init => IInv` and
`IInv /\ [Next]_vars => IInv'`, with one lemma per kind of step; opening and closing a
log, which metadata and fetch share, are proved once. `IInv` was model-checked on the
instances of `threads` and `answers` before it was proved.

`ClusterMetadataProofs` proves `HalfBuiltMapsUnseen`:
`Spec => []NobodySeesHalfBuiltMaps`, for any number of threads and any log. The
invariant says what the static's guard is while someone constructs ("running") and
while someone looks up ("set"). On top of it, `EveryBatchRead` proves
`Spec => []ReadsEveryBatch` for any log in which no batch fails to parse, the assumption
that the `keyed` run shows to be needed: `LogRead` says where the positions in the log
are, and that whoever applies records has read as far as the log went when it was opened;
the first invariant keeps other threads from opening it again meanwhile.

`TypeCorrect` of the same module proves `Spec => []TypeOK`, through constructions that
throw and are begun again.

`BuiltAsPromised` of the same module proves `Spec => ImplementsView`, for any number of
threads and any log, keyed and short records included. The core is that one more record
turns the maps of the first `n` records into those of `n + 1` exactly as the constructor
does (`AnotherTopic`, `AnotherPartition`, `NoTopic`, `NoPartition`). Catalogue and code
say different things there: the catalogue looks for the last topic record with a key and
counts the partition records before each, the code assigns and appends. `Filled` lifts it
to the threads: maps empty until someone applies records, then those of the records
applied, and of whole batches that all parse once they are shown; `Asking` says that a
thread has a question exactly while it is in a lookup. `ViewAssumption` says that `None`
is no lookup and `Unloaded` no catalogue.

`FramingProofs` proves, for any frames, prefix length and kernel buffer:

- `TypeCorrect`: `Spec => []TypeOK`, with it that the loops stay inside their buffer
- `FramesWhole`: `Spec => []WholeFrames`
- `RepliesOrdered`: `Spec => []RepliesInOrder`
- `FramesAreAtomic`: `Spec => ImplementsExchange`

Its `IInv` says what was transferred and what is left at each place of the loops: while
reading, the buffer before `p` holds the bytes of the stream before `got` and nothing of
the next frame; while writing to a client that is there, `Len(out)` is where the next
byte of the reply belongs. `FramingAssumption` says that frame follows frame in both
streams and that an empty frame is no request. `FramesAreAtomic` then maps the last byte of a frame to the step of Exchange
and every other transfer to none.

`BrokerProofs` builds on `IInv` of `ServerProofs` and proves, for any clients,
descriptors, logs, requests and bounds:

- `KeptAlways`: `Spec => []Kept`
- `KeepsThePromise`: `Spec => ImplementsBroker`
- `AllToldTheSame`: `Spec => []DescribeAgree`

`Kept` says what ownership leaves open, per connection: one thread loads the catalogue
and only while there is none (`LoadsOnce`); a thread is at the last request taken, and
those before it are answered (`Asks`); what depends on the catalogue is done when it is
there (`Catalogued`); the replies sent are among those it allows (`Served`); and so is
the one being built, whole topics first, then the first partitions of the topic the
thread is at, with the log it has open being the one of the next (`Building`). `Served`
is needed although a reply is right when it is sent: that it still is depends on the
catalogue not changing in one life of the process, which `Catalogued` and `LoadsOnce`
give. `DescribeAgree` follows from `Served` because an answer to a description is a
function of the catalogue.

`PeacefulProofs` builds on `IInv` of `ServerProofs` and `Kept` of `BrokerProofs`:

- `DescriptorsSuffice`: with two descriptors per client and one more, one is free in every
  reachable state. A descriptor in use is the connection's of some client, in the loop or
  in its thread, or the log's that this thread reads: two images of the set of clients.
- `LivesOn`: `Spec => Survives`, which says that an uncaught exception has one of the
  causes that `Peaceful` excludes: a client that leaves or sends garbage, a log that is
  missing or has a record or a topic that the constructor or the handler cannot digest,
  more clients than threads, fewer descriptors than above. `departure` and `half_topic`
  show what happens without two of these conditions. `Peaceful` stands inside the
  property, and the mutant of the run `peaceful`, which breaks the property, shows that
  the instance satisfies it.
- `HonestWhenItCan`: `Spec => []UnknownTopicIdIsHonest`, the other side of the run
  `unknown_id`: with the descriptors of `DescriptorsSuffice` and a log for every partition
  that is asked for of a known topic, the code says what the comment at `constants.hpp:22`
  says. Clients may leave and the process may end. `Broker` cannot say this, since it
  lets a fetch be cut short for no reason; the invariant (`HonestTo`) follows each
  UNKNOWN_TOPIC_ID from the reply in construction to the one that was sent, and shows
  that it stays true when the catalogue appears: what was built without one names no topic.

So for each of the five disagreements it is proved what it takes to avoid it: `LivesOn` for
`departure` and `half_topic` (the process lives on; that requests are then answered is
checked by the run `peaceful`), `HonestWhenItCan` for `unknown_id`, `EveryBatchRead` for
`keyed`, `VarlongsComeBack` for `smallest`.

`RecordLogProofs` proves, for any logs and any widths:

- `TypeCorrect`: `Spec => []TypeOK`
- `CopiesButForEdges`: `Spec => []CopyButForEdges`
- `BatchesAreWhole`: `Spec => ImplementsBatchReader`

from `LogAssumption`, which says what a log is: batch follows batch and record follows
record, a count stands before the first record and a length before the value, and a field
of variable length is an encoding of its width. It does not say that a record parses. `IInv` says, for every `pc`, where in the log `index` is and that
the half-read objects are made of the section of the file before it: `fields` those of the batch
that begins at `BatchAt[which][Here]`, `records` the records of it that were passed and all
parsed, `record` and `value_` those of the next. So the position that the code reaches by
adding up lengths is the one where the next record begins, and `PushBack` happens exactly
at the beginning of the next batch. `Replies` says the same of the reply, up to the two
fields that a fetch changes; that there is no third in a record is `ReadAndWritten`, from
the theorems about VarintCodec. In the refinement
`PushBack` is the delivery, `Catch` the return, and everything else a stutter; the core is
`NothingStopsHere`: in a batch that is on disk whole and parses, no read meets the end of
the file and nothing is refused.

`VarintCodecProofs` proves, for any two widths, the narrower first:

- `ZigZagOfVarlong`, `ZigZagOfVarint`: the decoder undoes zigzag for every VARLONG but the
  smallest, and for every VARINT
- `SmallestIsLost`: the smallest VARLONG comes back as 0, so that the run `smallest` shows
  a flaw of the code and not one of small widths
- `VarlongWrittenBack`, `VarintWrittenBack`: what is read and written again, as a fetch does
  with a record, is what it was, for every encoding of a VARLONG but the largest and for
  every encoding of a VARINT

`VarintProofs` builds on it and proves, for any widths and digit size:

- `ShiftsDefined`: `Spec => []ShiftDefined`
- `VarintsComeBack`: `Spec => []VarintComesBack`
- `VarlongsComeBack`: `Spec => []VarlongComesBackUnlessSmallest`

The two loops need no sum of powers: in `IInv`, what is left to write is the quotient of
the zigzagged value by a power of two and what has been read is its remainder by another,
so that one turn is one fact about quotients and remainders (`OneMoreDigit`, `TopDigit`).
That the loop ends before the shift is as wide as the number follows from what is left
being 0 once the power exceeds the value. `ShiftDefined` is a statement about what
`write_unsigned_varlong` writes; the reader has no bound of its own. `PowerAssumption` states the two laws of powers
that the provers do not know (positive, and `2^(a+b) = 2^a * 2^b`), up to the width;
TLC evaluates it.

Every safety property and every refinement that a passing run checks is thus proved, but
for those of RequestReader, whose bytes and lengths are built by recursive functions over
the message. Only model-checked, besides these, is liveness: `EveryRequestAnswered`, `EveryLookupEnds`,
`EveryFrameServed`, `ReadingEnds` and `ReadsWhatWasWritten`, since the proof system has
neither fairness nor ENABLED.

## Not modelled

- The earlier server (`src/TCPServer.*` and its helpers): not compiled.
- The layouts of responses: the repository has their writers and no reader. The fields the
  handlers never assign (`fetch.hpp:154`) are written as they are, and nothing in the
  repository says what a client should find there.
- The layouts of other versions of a request. The code reads every version by one layout,
  Fetch from 0 to 16 and ApiVersions too (`server.cpp:103-109` looks at the version
  afterwards). An ApiVersions request before version 3 has no tagged fields and stops
  short: `CutFrameIsRefused` has such frames, and in Server they end the process.
- What follows the null `request_` of an unknown API key (`messages.hpp:37`): the process
  ends, `MalformedRequest` has that; no line says what should happen instead.
- Memory: the buffer that a frame's length sizes before its payload arrives, the size of
  a fetch reply, which ignores the offset and the limits of the request.
- Byte order. The fixed-width fields of a batch are numbers
  in RecordLog. Server has the batches of a log as one value, so that the two fields which
  a fetch changes are seen in RecordLog only.
- Numbers of more digits than their width has, from a client or in a log: the shift of
  `ireadable.cpp:51` is undefined there.
- What becomes of the process once accept finds no descriptor or the system no thread: it
  ends, and `Survives` says that it does not come to that with enough of both. No line says
  what should happen with fewer.
- The move assignment of `FileDescriptor`, which nothing in the program uses.
- `Server()` failing: the process is then never up.

## Plan

Done: Catalog, Server with Broker, ClusterMetadata with MetadataView, Framing with
Exchange, RecordLog with BatchReader, VarintCodec and Varint, RequestReader; every safety property but
those of RequestReader and all four refinements proved.

What could still be added:

1. The seams as theorems: that the reader inside ClusterMetadata is a BatchReader, as
   RecordLog is, and that the connection of one thread of Server is an Exchange, so that
   the two levels meet in one abstract specification each.
2. The type invariant of RequestReader as a theorem: a reader of any layout stays inside
   its buffer, for any message.
3. The layouts of responses, should the repository get a client or a recorded exchange
   to check them against.
