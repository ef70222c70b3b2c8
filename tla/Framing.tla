------------------------------- MODULE Framing -------------------------------
(***************************************************************************)
(* Frames on a connection: read_bytes and write_bytes over the loops of    *)
(* FileDescriptor::read and write (protocol/file_descriptor.cpp,           *)
(* ireadable.cpp, iwritable.cpp).  A system call transfers any number of   *)
(* bytes up to what is asked, what is there and what fits; the client      *)
(* sends ahead of the replies and may leave in the middle of a frame.      *)
(*                                                                         *)
(* A byte is its position in the stream it belongs to, counted from 1, so  *)
(* that a buffer shows which bytes are in it and in which order.           *)
(***************************************************************************)
EXTENDS Integers, Sequences

CONSTANTS
  Prefix,       \* bytes of a frame's length (4 in the code)
  SockBuf,      \* bytes the kernel holds in each direction
  Frames,       \* bound: requests the client has to send
  Length,       \* the length each one declares; below 0, one BYTES refuses
  Doubtful,     \* those whose payload may be no request: the handlers throw
  Start,        \* bytes of the request stream before each frame
  ReplyLength,  \* the length of the reply to each
  ReplyStart    \* bytes of the reply stream before each reply

PayloadSize(k) == IF Length[k] < 0 THEN 0 ELSE Length[k]

FrameEnd(k) == Start[k] + Prefix + PayloadSize(k)
ReplyEnd(k) == ReplyStart[k] + Prefix + ReplyLength[k]

(* Frame follows frame.                                                    *)
ASSUME FramingAssumption ==
  /\ Prefix \in Nat \ {0} /\ SockBuf \in Nat \ {0} /\ Frames \in Nat
  /\ Doubtful \subseteq 1..Frames /\ \A k \in 1..Frames : Length[k] = 0 => k \in Doubtful
  /\ Length \in [1..Frames -> Int] /\ ReplyLength \in [1..Frames -> Nat]
  /\ Start \in [1..Frames + 1 -> Nat] /\ ReplyStart \in [1..Frames + 1 -> Nat]
  /\ Start[1] = 0 /\ ReplyStart[1] = 0
  /\ \A k \in 1..Frames : Start[k + 1] = FrameEnd(k) /\ ReplyStart[k + 1] = ReplyEnd(k)
  /\ \A j, k \in 1..Frames : j < k => FrameEnd(j) <= Start[k] /\ ReplyEnd(j) <= ReplyStart[k]

VARIABLES
  open,     \* the client has not closed the connection
  sent,     \* bytes it has written
  got,      \* bytes the server has read
  pc,       \* where the server's thread is
  buf,      \* the buffer it reads into; 0 where nothing was read yet
  p,        \* where in the buffer the next transfer begins
  nbytes,   \* bytes still to transfer
  taken,    \* requests read
  out,      \* the bytes the server has written, in order
  drained   \* how many of them the client has read

request == <<sent, got, buf, taken>>
reply   == <<out, drained>>
vars    == <<open, request, pc, p, nbytes, reply>>

Whole(n)    == {k \in 1..Frames : FrameEnd(k) <= n}
Answered(n) == {k \in 1..Frames : ReplyEnd(k) <= n}

Promise == INSTANCE Exchange
             WITH alive <- pc # "thrown", arrived <- Whole(sent), replied <- Answered(Len(out))

Blank(n) == [i \in 1..n |-> 0]

Init ==
  /\ open = TRUE
  /\ sent = 0
  /\ got = 0
  /\ pc = "length"
  /\ buf = Blank(Prefix)
  /\ p = 1
  /\ nbytes = Prefix
  /\ taken = 0
  /\ out = <<>>
  /\ drained = 0

-----------------------------------------------------------------------------
(* The client.                                                             *)

ClientWrite ==
  /\ open
  /\ \E n \in 1..SockBuf :
       /\ sent + n - got <= SockBuf
       /\ sent + n <= Start[Frames + 1]
       /\ sent' = sent + n
  /\ UNCHANGED <<open, got, pc, buf, p, nbytes, taken, reply>>

ClientRead ==
  /\ open
  /\ \E n \in 1..SockBuf : drained + n <= Len(out) /\ drained' = drained + n
  /\ UNCHANGED <<open, request, pc, p, nbytes, out>>

ClientLeaves ==
  /\ open
  /\ open' = FALSE
  /\ UNCHANGED <<request, pc, p, nbytes, reply>>

-----------------------------------------------------------------------------
(* The two calls of FileDescriptor::read in read_bytes.                    *)

Reading == pc \in {"length", "payload"}

(* A read of n bytes begins.                                               *)
Receive(label, n) ==
  /\ pc' = label
  /\ buf' = Blank(n)
  /\ p' = 1
  /\ nbytes' = n

(* The bytes first, first + 1, ... of the stream from p on.                *)
Filled(n, first) ==
  [i \in DOMAIN buf |-> IF p <= i /\ i < p + n THEN first + i - p ELSE buf[i]]

(* Mutant: p += nr forgotten.                                              *)
ReadSomeInPlace ==
  /\ Reading
  /\ \E nr \in 1..nbytes :
       /\ got + nr <= sent
       /\ buf' = Filled(nr, got + 1)
       /\ nbytes' = nbytes - nr
       /\ got' = got + nr
  /\ UNCHANGED <<open, sent, pc, p, taken, reply>>

(* Mutant: the call asks for a buffer's worth however little is missing.   *)
ReadSomeTooMuch ==
  /\ Reading
  /\ nbytes > 0
  /\ \E nr \in 1..SockBuf :
       /\ got + nr <= sent
       /\ buf' = Filled(nr, got + 1)
       /\ p' = p + nr
       /\ nbytes' = IF nr > nbytes THEN 0 ELSE nbytes - nr
       /\ got' = got + nr
  /\ UNCHANGED <<open, sent, pc, taken, reply>>

(* A turn of the loop: nr is whatever ::read returns.                      *)
ReadSome ==
  /\ Reading
  /\ \E nr \in 1..nbytes :
       /\ got + nr <= sent
       /\ buf' = Filled(nr, got + 1)
       /\ p' = p + nr
       /\ nbytes' = nbytes - nr
       /\ got' = got + nr
  /\ UNCHANGED <<open, sent, pc, taken, reply>>

(* The length that the bytes in the buffer spell, if they are a prefix.    *)
Spelled == {Length[k] : k \in {j \in 1..Frames : buf = [i \in 1..Prefix |-> Start[j] + i]}}

LengthRead ==
  /\ pc = "length"
  /\ nbytes = 0
  /\ \E n \in Spelled : n >= 0 /\ Receive("payload", n)
  /\ UNCHANGED <<open, sent, got, taken, reply>>

PayloadRead ==
  /\ pc = "payload"
  /\ nbytes = 0
  /\ taken' = taken + 1
  /\ pc' = "handle"
  /\ UNCHANGED <<open, sent, got, buf, p, nbytes, reply>>

-----------------------------------------------------------------------------
(* The handlers end, with a reply; the two calls of FileDescriptor::write  *)
(* in write_bytes.                                                         *)

Writing == pc \in {"reply_length", "reply"}

(* A write of n bytes begins.                                              *)
Transmit(label, n) ==
  /\ pc' = label
  /\ p' = 1
  /\ nbytes' = n

Handle ==
  /\ pc = "handle"
  /\ Length[taken] > 0
  /\ Transmit("reply_length", Prefix)
  /\ UNCHANGED <<open, request, reply>>

(* The bytes of the reply before p, in the reply stream.                   *)
Source == ReplyStart[taken] + (IF pc = "reply" THEN Prefix ELSE 0) + p - 1

(* Mutant: p += nw forgotten.                                              *)
WriteSomeFromStart ==
  /\ Writing
  /\ open
  /\ \E nw \in 1..nbytes :
       /\ Len(out) + nw - drained <= SockBuf
       /\ out' = out \o [i \in 1..nw |-> Source + i]
       /\ nbytes' = nbytes - nw
  /\ UNCHANGED <<open, request, pc, p, drained>>

(* Mutant: nothing is written until there is room for all of it.           *)
WriteAllAtOnce ==
  /\ Writing
  /\ open
  /\ nbytes > 0
  /\ Len(out) + nbytes - drained <= SockBuf
  /\ out' = out \o [i \in 1..nbytes |-> Source + i]
  /\ p' = p + nbytes
  /\ nbytes' = 0
  /\ UNCHANGED <<open, request, pc, drained>>

(* A turn of the loop: nw is whatever ::write returns.                     *)
WriteSome ==
  /\ Writing
  /\ open
  /\ \E nw \in 1..nbytes :
       /\ Len(out) + nw - drained <= SockBuf
       /\ out' = out \o [i \in 1..nw |-> Source + i]
       /\ p' = p + nw
       /\ nbytes' = nbytes - nw
  /\ UNCHANGED <<open, request, pc, drained>>

(* The kernel may accept what a client that has left will not read.        *)
WriteNowhere ==
  /\ Writing
  /\ ~open
  /\ \E nw \in 1..nbytes : p' = p + nw /\ nbytes' = nbytes - nw
  /\ UNCHANGED <<open, request, pc, reply>>

LengthWritten ==
  /\ pc = "reply_length"
  /\ nbytes = 0
  /\ Transmit("reply", ReplyLength[taken])
  /\ UNCHANGED <<open, request, reply>>

(* The loop of serve_client: the next request.                             *)
ReplyWritten ==
  /\ pc = "reply"
  /\ nbytes = 0
  /\ Receive("length", Prefix)
  /\ UNCHANGED <<open, sent, got, taken, reply>>

(* Mutant: what is not there yet is taken for the end of the stream.       *)
ThrowsEarly ==
  /\ \/ Reading /\ nbytes > 0 /\ got = sent
     \/ (Reading \/ Writing) /\ nbytes > 0 /\ ~open
     \/ pc = "handle" /\ taken \in Doubtful
     \/ pc = "length" /\ nbytes = 0 /\ \E n \in Spelled : n < 0
  /\ pc' = "thrown"
  /\ UNCHANGED <<open, request, p, nbytes, reply>>

(* The stream ends or is reset, the reply meets a closed connection, the   *)
(* payload is no request or BYTES cannot have the length: nothing catches  *)
(* the exception, and an unhandled SIGPIPE ends the process as well.       *)
Throws ==
  /\ \/ (Reading \/ Writing) /\ nbytes > 0 /\ ~open
     \/ pc = "handle" /\ taken \in Doubtful
     \/ pc = "length" /\ nbytes = 0 /\ \E n \in Spelled : n < 0
  /\ pc' = "thrown"
  /\ UNCHANGED <<open, request, p, nbytes, reply>>

Serve ==
  \/ ReadSome
  \/ LengthRead
  \/ PayloadRead
  \/ Handle
  \/ WriteSome
  \/ WriteNowhere
  \/ LengthWritten
  \/ ReplyWritten
  \/ Throws

Next == ClientWrite \/ ClientRead \/ ClientLeaves \/ Serve

Spec == Init /\ [][Next]_vars

(* The thread is scheduled, and a client that stays reads its replies      *)
(* whatever it still has to send.                                          *)
FairSpec == Spec /\ WF_vars(Serve) /\ WF_vars(ClientRead)

-----------------------------------------------------------------------------
(* Properties.                                                             *)

(* Every variable has its type, and the loops stay inside their buffer     *)
(* (file_descriptor.cpp:8, 22).                                            *)
TypeOK ==
  /\ open \in BOOLEAN
  /\ sent \in 0..Start[Frames + 1]
  /\ got \in 0..sent
  /\ pc \in {"length", "payload", "handle", "reply_length", "reply", "thrown"}
  /\ buf \in Seq(Nat)
  /\ p \in Nat \ {0}
  /\ nbytes \in Nat
  /\ taken \in 0..Frames
  /\ out \in Seq(Nat)
  /\ drained \in 0..Len(out)
  /\ Reading => p + nbytes = Len(buf) + 1

(* The handlers get the payload of the request they are at, each byte in   *)
(* its place and none of the next frame's, however the stream was cut into *)
(* reads and whatever arrived behind it (ireadable.cpp:84-89,              *)
(* file_descriptor.cpp:7-19).                                              *)
WholeFrames ==
  pc = "handle" => buf = [i \in 1..Length[taken] |-> Start[taken] + Prefix + i]

(* The client receives the replies byte by byte in their order, none       *)
(* repeated or left out at the seams between two writes, two calls of      *)
(* write or two replies (iwritable.cpp:67-70, file_descriptor.cpp:21-31).  *)
RepliesInOrder == \A i \in 1..Len(out) : out[i] = i

(* Seen from outside, a frame is read in one step and written in one step, *)
(* as Server has it; being slow, cutting frames in pieces or sending ahead *)
(* never ends the process (network/client.hpp:15-25).                      *)
ImplementsExchange == Promise!Spec

(* A request that arrived is answered if its client stays and reads, also  *)
(* when the buffers are full in both directions (server.cpp:152-172).      *)
EveryFrameServed ==
  \A k \in 1..Frames :
    k \in Whole(sent) /\ (\A j \in 1..k : Length[j] >= 0 /\ j \notin Doubtful) ~> k \in Answered(Len(out)) \/ ~open
=============================================================================
