---------------------------- MODULE FramingProofs ----------------------------
(***************************************************************************)
(* For any frames, buffers and cuts: the loops of read and write transfer  *)
(* whole frames, in order, and the connection implements Exchange.  The    *)
(* invariant places the loops in the two streams: what was transferred of  *)
(* the frame and what is left of it are the frame.                         *)
(***************************************************************************)
EXTENDS Framing, SequenceTheorems, TLAPS

(* Where in the request stream the bytes of the current read begin.        *)
Base == Start[taken + 1] + (IF pc = "payload" THEN Prefix ELSE 0)

(* How many bytes the current read is to transfer.                         *)
InRequest ==
  /\ Reading =>
       /\ got = Base + p - 1
       /\ p + nbytes = Len(buf) + 1
       /\ \A i \in 1..Len(buf) : i < p => buf[i] = Base + i
  /\ pc = "length" => Len(buf) = Prefix
  /\ pc = "payload" => taken < Frames /\ Length[taken + 1] \in Nat /\ Len(buf) = Length[taken + 1]

Between ==
  pc = "handle" \/ Writing => taken \in 1..Frames /\ got = Start[taken + 1] /\ Length[taken] \in Nat

(* How much of the reply the client has been sent, while it is there.      *)
InReply ==
  /\ pc = "reply_length" => p + nbytes = Prefix + 1
  /\ pc = "reply" => p + nbytes = ReplyLength[taken] + 1
  /\ open /\ Reading => Len(out) = ReplyStart[taken + 1]
  /\ open /\ pc = "handle" => Len(out) = ReplyStart[taken]
  /\ open /\ Writing => Len(out) = Source

Types ==
  /\ open \in BOOLEAN
  /\ sent \in 0..Start[Frames + 1]
  /\ got \in 0..sent
  /\ pc \in {"length", "payload", "handle", "reply_length", "reply", "thrown"}
  /\ buf \in Seq(Nat)
  /\ p \in Nat \ {0}
  /\ nbytes \in Nat
  /\ taken \in 0..Frames
  /\ out \in Seq(Nat)
  /\ drained \in 0..Len(out)

IInv == Types /\ InRequest /\ Between /\ InReply /\ WholeFrames /\ RepliesInOrder

-----------------------------------------------------------------------------
(* The numbers of the two streams.                                         *)
LEMMA Numbers ==
  ASSUME FramingAssumption
  PROVE  /\ Prefix \in Nat \ {0} /\ SockBuf \in Nat \ {0} /\ Frames \in Nat
         /\ \A k \in 1..Frames + 1 : Start[k] \in Nat /\ ReplyStart[k] \in Nat
  BY DEF FramingAssumption

LEMMA Sizes ==
  ASSUME FramingAssumption, NEW k \in 1..Frames
  PROVE  /\ Start[k] \in Nat /\ Length[k] \in Int
         /\ ReplyStart[k] \in Nat /\ ReplyLength[k] \in Nat
         /\ FrameEnd(k) \in Nat /\ Start[k] < FrameEnd(k) /\ Start[k + 1] = FrameEnd(k)
         /\ ReplyEnd(k) \in Nat /\ ReplyStart[k] < ReplyEnd(k) /\ ReplyStart[k + 1] = ReplyEnd(k)
<1>1. k \in 1..Frames + 1 /\ Prefix \in Nat \ {0}
  BY DEF FramingAssumption
<1>2. Start[k] \in Nat /\ Length[k] \in Int /\ ReplyStart[k] \in Nat /\ ReplyLength[k] \in Nat
  BY <1>1 DEF FramingAssumption
<1>3. Start[k + 1] = FrameEnd(k) /\ ReplyStart[k + 1] = ReplyEnd(k)
  BY DEF FramingAssumption
<1>4. PayloadSize(k) \in Nat
  BY <1>2 DEF PayloadSize
<1>5. FrameEnd(k) \in Nat /\ Start[k] < FrameEnd(k)
  BY <1>1, <1>2, <1>4 DEF FrameEnd
<1>6. ReplyEnd(k) \in Nat /\ ReplyStart[k] < ReplyEnd(k)
  BY <1>1, <1>2 DEF ReplyEnd
<1> QED BY <1>2, <1>3, <1>5, <1>6

LEMMA Order ==
  ASSUME FramingAssumption, NEW j \in 1..Frames, NEW k \in 1..Frames, j < k
  PROVE  FrameEnd(j) <= Start[k] /\ ReplyEnd(j) <= ReplyStart[k]
  BY DEF FramingAssumption

(* A buffer just made.                                                     *)
LEMMA BlankBuffer ==
  ASSUME NEW n \in Nat
  PROVE  Blank(n) \in Seq(Nat) /\ Len(Blank(n)) = n
  BY DEF Blank

LEMMA FilledBuffer ==
  ASSUME buf \in Seq(Nat), p \in Nat \ {0}, NEW n \in Nat, NEW first \in Nat
  PROVE  /\ Filled(n, first) \in Seq(Nat)
         /\ Len(Filled(n, first)) = Len(buf)
         /\ \A i \in 1..Len(buf) :
              Filled(n, first)[i] = IF p <= i /\ i < p + n THEN first + i - p ELSE buf[i]
<1>1. DOMAIN buf = 1..Len(buf) /\ Len(buf) \in Nat /\ \A i \in 1..Len(buf) : buf[i] \in Nat
  BY LenProperties, ElementOfSeq
<1>2. Filled(n, first) = [i \in 1..Len(buf) |->
                            IF p <= i /\ i < p + n THEN first + i - p ELSE buf[i]]
  BY <1>1 DEF Filled
<1>3. \A i \in 1..Len(buf) : (IF p <= i /\ i < p + n THEN first + i - p ELSE buf[i]) \in Nat
  BY <1>1
<1> QED BY <1>1, <1>2, <1>3

LEMMA Typed ==
  ASSUME FramingAssumption, Types
  PROVE  /\ Prefix \in Nat \ {0} /\ SockBuf \in Nat \ {0} /\ Frames \in Nat
         /\ Start[Frames + 1] \in Nat /\ sent \in Nat /\ sent <= Start[Frames + 1]
         /\ got \in Nat /\ got <= sent /\ taken \in Nat /\ taken <= Frames
         /\ p \in Nat \ {0} /\ nbytes \in Nat
         /\ buf \in Seq(Nat) /\ Len(buf) \in Nat /\ out \in Seq(Nat) /\ Len(out) \in Nat
         /\ drained \in Nat /\ drained <= Len(out)
         /\ Start[taken + 1] \in Nat /\ ReplyStart[taken + 1] \in Nat /\ Base \in Nat
<1>1. Prefix \in Nat \ {0} /\ SockBuf \in Nat \ {0} /\ Frames \in Nat /\ Start[Frames + 1] \in Nat
  <2>1. Prefix \in Nat \ {0} /\ SockBuf \in Nat \ {0} /\ Frames \in Nat
    BY DEF FramingAssumption
  <2>2. Frames + 1 \in 1..Frames + 1
    BY <2>1
  <2> QED BY <2>1, <2>2, Numbers
<1>2. buf \in Seq(Nat) /\ Len(buf) \in Nat /\ out \in Seq(Nat) /\ Len(out) \in Nat
  <2>1. buf \in Seq(Nat) /\ out \in Seq(Nat)
    BY DEF Types
  <2> QED BY <2>1, LenProperties
<1>3. sent \in Nat /\ sent <= Start[Frames + 1]
  BY <1>1 DEF Types
<1>4. got \in Nat /\ got <= sent /\ drained \in Nat /\ drained <= Len(out)
  BY <1>2, <1>3 DEF Types
<1>5. taken \in Nat /\ taken <= Frames /\ taken + 1 \in 1..Frames + 1
  BY <1>1 DEF Types
<1>6. Start[taken + 1] \in Nat /\ ReplyStart[taken + 1] \in Nat
  BY <1>5, Numbers
<1>7. Base \in Nat
  BY <1>1, <1>6 DEF Base
<1> QED BY <1>1, <1>2, <1>3, <1>4, <1>5, <1>6, <1>7 DEF Types

(* A prefix at its place spells the length of its own frame and no other.  *)
LEMMA SpelledHere ==
  ASSUME FramingAssumption, Types, InRequest, pc = "length", nbytes = 0
  PROVE  taken < Frames /\ Spelled = {Length[taken + 1]}
<1>1. Prefix \in Nat \ {0} /\ Frames \in Nat /\ taken \in 0..Frames
      /\ Start[taken + 1] \in Nat /\ Start[Frames + 1] \in Nat /\ Len(buf) = Prefix
      /\ got = Start[taken + 1] + Prefix /\ p = Prefix + 1
      /\ sent \in 0..Start[Frames + 1] /\ got \in 0..sent
  BY Numbers DEF Types, InRequest, Reading, Base
<1>2. taken < Frames
  BY <1>1
<1>3. buf = [i \in 1..Prefix |-> Start[taken + 1] + i]
  <2>1. DOMAIN buf = 1..Prefix /\ buf = [i \in 1..Prefix |-> buf[i]]
    <3>1. buf \in [1..Len(buf) -> Nat]
      BY LenProperties DEF Types
    <3> QED BY <1>1, <3>1
  <2>2. \A i \in 1..Prefix : buf[i] = Start[taken + 1] + i
    BY <1>1 DEF InRequest, Reading, Base
  <2> QED BY <2>1, <2>2
<1>4. ASSUME NEW j \in 1..Frames, buf = [i \in 1..Prefix |-> Start[j] + i]
      PROVE  j = taken + 1
  <2>10. 1 \in 1..Prefix
    BY <1>1
  <2>11. buf[1] = Start[j] + 1
    BY <1>4, <2>10
  <2>12. buf[1] = Start[taken + 1] + 1
    BY <1>3, <2>10
  <2>1. Start[j] \in Nat /\ FrameEnd(j) \in Nat /\ Start[j] < FrameEnd(j)
    BY Sizes
  <2>2. taken + 1 \in 1..Frames
    BY <1>1, <1>2
  <2>3. Start[j] = Start[taken + 1]
    <3>1. Start[j] + 1 = Start[taken + 1] + 1
      BY <2>11, <2>12
    <3>2. Start[taken + 1] \in Nat
      BY <1>1
    <3>3. \A a, b \in Nat : a + 1 = b + 1 => a = b
      OBVIOUS
    <3> QED BY <2>1, <3>1, <3>2, <3>3, Zenon
  <2>6. FrameEnd(taken + 1) \in Nat /\ Start[taken + 1] < FrameEnd(taken + 1)
    BY <2>2, Sizes
  <2>4. ~(j < taken + 1)
    <3>1. j < taken + 1 => FrameEnd(j) <= Start[taken + 1]
      BY <2>2, Order
    <3> QED BY <1>1, <2>1, <2>3, <3>1
  <2>5. ~(taken + 1 < j)
    <3>1. taken + 1 < j => FrameEnd(taken + 1) <= Start[j]
      BY <2>2, Order
    <3> QED BY <1>1, <2>1, <2>3, <2>6, <3>1
  <2> QED BY <1>1, <2>2, <2>4, <2>5
<1>5. taken + 1 \in 1..Frames
  BY <1>1, <1>2
<1> QED BY <1>2, <1>3, <1>4, <1>5 DEF Spelled

-----------------------------------------------------------------------------
(* The invariant holds at first, and every step keeps it.                  *)
LEMMA AtFirst ==
  ASSUME FramingAssumption, Init
  PROVE  IInv
<1>1. Prefix \in Nat \ {0} /\ Frames \in Nat /\ Start[Frames + 1] \in Nat
      /\ Start[1] = 0 /\ ReplyStart[1] = 0
  BY Numbers DEF FramingAssumption
<1>2. buf \in Seq(Nat) /\ Len(buf) = Prefix
  BY <1>1, BlankBuffer DEF Init
<1>3. out = <<>> /\ out \in Seq(Nat) /\ Len(out) = 0
  BY DEF Init
<1>4. Types
  BY <1>1, <1>2, <1>3 DEF Init, Types
<1>5. InRequest
  BY <1>1, <1>2 DEF Init, InRequest, Reading, Base
<1> QED BY <1>1, <1>3, <1>4, <1>5 DEF Init, IInv, Between, InReply, WholeFrames, RepliesInOrder,
          Reading, Writing

LEMMA ClientKeeps ==
  ASSUME FramingAssumption, IInv, ClientWrite \/ ClientRead \/ ClientLeaves
  PROVE  IInv'
<1>1. Types'
  <2>1. Start[Frames + 1] \in Nat /\ SockBuf \in Nat
        /\ got \in Nat /\ got <= sent /\ sent \in Nat /\ drained \in Nat /\ Len(out) \in Nat
    BY Typed DEF IInv, Types
  <2>3. CASE ClientWrite
    <3>1. PICK n \in 1..SockBuf : sent' = sent + n /\ sent + n <= Start[Frames + 1]
      BY <2>3 DEF ClientWrite
    <3>2. sent' \in 0..Start[Frames + 1] /\ got \in 0..sent'
      BY <2>1, <3>1
    <3> QED BY <2>3, <3>2 DEF ClientWrite, IInv, Types, reply
  <2>4. CASE ClientRead
    <3>1. PICK n \in 1..SockBuf : drained' = drained + n /\ drained + n <= Len(out)
      BY <2>4 DEF ClientRead
    <3>2. drained' \in 0..Len(out)
      BY <2>1, <3>1
    <3> QED BY <2>4, <3>2 DEF ClientRead, IInv, Types, request
  <2>5. CASE ClientLeaves
    BY <2>5 DEF ClientLeaves, IInv, Types, request, reply
  <2> QED BY <2>3, <2>4, <2>5
<1>2. UNCHANGED <<got, pc, buf, p, nbytes, taken, out>> /\ (open' => open)
  BY DEF ClientWrite, ClientRead, ClientLeaves, request, reply
<1>3. InRequest' /\ Between' /\ WholeFrames' /\ RepliesInOrder'
  BY <1>2 DEF IInv, InRequest, Between, WholeFrames, RepliesInOrder, Reading, Writing, Base
<1>4. InReply'
  BY <1>2 DEF IInv, InReply, Reading, Writing, Source
<1> QED BY <1>1, <1>3, <1>4 DEF IInv

LEMMA ReadSomeKeeps ==
  ASSUME FramingAssumption, IInv, ReadSome
  PROVE  IInv'
<1>1. PICK nr \in 1..nbytes :
        /\ got + nr <= sent
        /\ buf' = Filled(nr, got + 1)
        /\ p' = p + nr
        /\ nbytes' = nbytes - nr
        /\ got' = got + nr
  BY DEF ReadSome
<1>2. Reading /\ UNCHANGED <<open, sent, pc, taken, out, drained>>
  BY DEF ReadSome, reply
<1>3. p \in Nat \ {0} /\ nbytes \in Nat /\ nr \in Nat \ {0} /\ nr <= nbytes
      /\ got \in Nat /\ sent \in Nat /\ Base \in Nat
      /\ buf \in Seq(Nat) /\ Len(buf) \in Nat /\ Start[Frames + 1] \in Nat
  <2>1. p \in Nat \ {0} /\ nbytes \in Nat /\ got \in Nat /\ sent \in Nat /\ Base \in Nat
        /\ buf \in Seq(Nat) /\ Len(buf) \in Nat /\ Start[Frames + 1] \in Nat
    BY Typed DEF IInv, Types
  <2> QED BY <1>1, <2>1
<1>4. buf' \in Seq(Nat) /\ Len(buf') = Len(buf)
      /\ \A i \in 1..Len(buf) : buf'[i] = IF p <= i /\ i < p + nr THEN got + 1 + i - p ELSE buf[i]
  <2>1. got + 1 \in Nat
    BY <1>3
  <2>2. /\ Filled(nr, got + 1) \in Seq(Nat)
        /\ Len(Filled(nr, got + 1)) = Len(buf)
        /\ \A i \in 1..Len(buf) : Filled(nr, got + 1)[i] =
             IF p <= i /\ i < p + nr THEN got + 1 + i - p ELSE buf[i]
    BY <1>3, <2>1, FilledBuffer
  <2> QED BY <1>1, <2>2
<1>5. Types'
  <2>1. got' \in 0..sent /\ p' \in Nat \ {0} /\ nbytes' \in Nat
    BY <1>1, <1>3
  <2> QED BY <1>2, <1>4, <2>1 DEF IInv, Types
<1>6. InRequest'
  <2>1. Base \in Nat /\ Base' = Base
    BY <1>2, <1>3 DEF Base
  <2>2. got = Base + p - 1 /\ p + nbytes = Len(buf) + 1
        /\ \A i \in 1..Len(buf) : i < p => buf[i] = Base + i
    BY <1>2 DEF IInv, InRequest
  <2>3. got' = Base + p' - 1 /\ p' + nbytes' = Len(buf') + 1
    <3>1. got + nr = Base + (p + nr) - 1 /\ (p + nr) + (nbytes - nr) = Len(buf) + 1
      <4>1. got = Base + p - 1 /\ p + nbytes = Len(buf) + 1
        BY <2>2
      <4>2. got + nr = Base + (p + nr) - 1
        BY <1>3, <4>1
      <4>3. (p + nr) + (nbytes - nr) = p + nbytes
        BY <1>3
      <4> QED BY <4>1, <4>2, <4>3
    <3>2. Len(buf') = Len(buf)
      BY <1>4
    <3> QED BY <1>1, <3>1, <3>2
  <2>4. ASSUME NEW i \in 1..Len(buf), i < p'  PROVE  buf'[i] = Base + i
    <3>1. i \in Nat /\ (i < p => buf[i] = Base + i)
          /\ buf'[i] = IF p <= i /\ i < p + nr THEN got + 1 + i - p ELSE buf[i]
      BY <1>4, <2>2
    <3>2. CASE i < p
      BY <1>3, <3>1, <3>2
    <3>3. CASE p <= i
      <4>1. i < p + nr
        BY <1>1, <2>4
      <4>2. buf'[i] = got + 1 + i - p
        BY <3>1, <3>3, <4>1
      <4> QED BY <1>3, <2>1, <2>2, <3>1, <4>2
    <3> QED BY <1>3, <3>1, <3>2, <3>3
  <2>5. (pc' = "length" => Len(buf') = Prefix)
        /\ (pc' = "payload" => taken' < Frames /\ Length[taken' + 1] \in Nat
                               /\ Len(buf') = Length[taken' + 1])
    BY <1>2, <1>4 DEF IInv, InRequest
  <2> QED BY <1>4, <2>1, <2>3, <2>4, <2>5 DEF InRequest
<1>7. Between' /\ InReply' /\ WholeFrames' /\ RepliesInOrder'
  BY <1>2 DEF IInv, Between, InReply, WholeFrames, RepliesInOrder, Reading, Writing
<1> QED BY <1>5, <1>6, <1>7 DEF IInv

LEMMA LengthReadKeeps ==
  ASSUME FramingAssumption, IInv, LengthRead
  PROVE  IInv'
<1>1. taken < Frames /\ Spelled = {Length[taken + 1]}
  BY SpelledHere DEF IInv, LengthRead
<1> DEFINE n == Length[taken + 1]
<1>2. n >= 0 /\ Receive("payload", n) /\ pc = "length" /\ nbytes = 0
      /\ UNCHANGED <<open, sent, got, taken, out, drained>>
  BY <1>1 DEF LengthRead, reply
<1>3. taken + 1 \in 1..Frames /\ n \in Nat /\ Start[taken + 1] \in Nat /\ Prefix \in Nat
  <2>1. taken \in Nat /\ Frames \in Nat /\ Prefix \in Nat
    BY Typed DEF IInv, Types
  <2>2. taken + 1 \in 1..Frames
    BY <1>1, <2>1
  <2> QED BY <1>2, <2>1, <2>2, Sizes
<1>4. pc' = "payload" /\ p' = 1 /\ nbytes' = n /\ buf' \in Seq(Nat) /\ Len(buf') = n
  BY <1>2, <1>3, BlankBuffer DEF Receive
<1>5. Types'
  BY <1>2, <1>3, <1>4 DEF IInv, Types
<1>6. got = Start[taken + 1] + Prefix
  BY <1>2, <1>3 DEF IInv, InRequest, Reading, Base, Types
<1>7. Base' = Start[taken + 1] + Prefix
  BY <1>2, <1>4 DEF Base
<1>8. InRequest'
  <2>1. got = Base' + p' - 1 /\ p' + nbytes' = Len(buf') + 1
    <3>1. Base' = got
      BY <1>6, <1>7, Zenon
    <3>3. got \in Nat
      BY Typed DEF IInv
    <3>2. nbytes' \in Nat /\ Len(buf') = nbytes' /\ p' = 1
      BY <1>3, <1>4
    <3> QED BY <3>1, <3>2, <3>3
  <2>2. \A i \in 1..Len(buf') : ~(i < p')
    BY <1>3, <1>4
  <2> QED BY <1>1, <1>2, <1>3, <1>4, <2>1, <2>2 DEF InRequest
<1>9. Between' /\ InReply' /\ WholeFrames' /\ RepliesInOrder'
  BY <1>2, <1>4 DEF IInv, Between, InReply, WholeFrames, RepliesInOrder, Reading, Writing
<1> QED BY <1>5, <1>8, <1>9 DEF IInv

LEMMA PayloadReadKeeps ==
  ASSUME FramingAssumption, IInv, PayloadRead
  PROVE  IInv'
<1>1. pc = "payload" /\ nbytes = 0 /\ taken' = taken + 1 /\ pc' = "handle"
      /\ UNCHANGED <<open, sent, got, buf, p, nbytes, out, drained>>
  BY DEF PayloadRead, reply
<1>2. taken \in Nat /\ Frames \in Nat /\ taken < Frames /\ taken + 1 \in 1..Frames
      /\ Length[taken + 1] \in Nat /\ Len(buf) = Length[taken + 1] /\ p \in Nat
      /\ Prefix \in Nat /\ Start[taken + 1] \in Nat
      /\ Start[taken + 2] = FrameEnd(taken + 1) /\ PayloadSize(taken + 1) = Length[taken + 1]
  <2>1. taken \in Nat /\ Frames \in Nat /\ taken < Frames /\ Length[taken + 1] \in Nat
        /\ Len(buf) = Length[taken + 1] /\ p \in Nat /\ Prefix \in Nat
    BY <1>1, Typed DEF IInv, Types, InRequest
  <2>2. taken + 1 \in 1..Frames /\ taken + 2 = (taken + 1) + 1
    BY <2>1
  <2> QED BY <2>1, <2>2, Sizes DEF PayloadSize
<1>3. got = Start[taken + 1] + Prefix + Length[taken + 1] /\ p = Length[taken + 1] + 1
  BY <1>1, <1>2 DEF IInv, InRequest, Reading, Base
<1>4. got = Start[taken' + 1]
  <2>1. taken' + 1 = taken + 2
    BY <1>1, <1>2
  <2> QED BY <1>2, <1>3, <2>1 DEF FrameEnd
<1>5. Types' /\ InRequest'
  BY <1>1, <1>2 DEF IInv, Types, InRequest, Reading
<1>6. Between' /\ InReply' /\ RepliesInOrder'
  BY <1>1, <1>2, <1>4 DEF IInv, Between, InReply, RepliesInOrder, Reading, Writing
<1>7. WholeFrames'
  <2>1. buf \in Seq(Nat) /\ DOMAIN buf = 1..Length[taken + 1]
        /\ buf = [i \in 1..Length[taken + 1] |-> buf[i]]
    BY <1>2, LenProperties DEF IInv, Types
  <2>2. \A i \in 1..Length[taken + 1] : buf[i] = Start[taken + 1] + Prefix + i
    BY <1>1, <1>2, <1>3 DEF IInv, InRequest, Reading, Base
  <2> QED BY <1>1, <2>1, <2>2 DEF WholeFrames
<1> QED BY <1>5, <1>6, <1>7 DEF IInv

(* The handlers and the write of a frame.                                  *)
LEMMA HandleKeeps ==
  ASSUME FramingAssumption, IInv, Handle
  PROVE  IInv'
<1>1. pc = "handle" /\ pc' = "reply_length" /\ p' = 1 /\ nbytes' = Prefix
      /\ UNCHANGED <<open, sent, got, buf, taken, out, drained>>
  BY DEF Handle, Transmit, request, reply
<1>2. Prefix \in Nat \ {0} /\ taken \in 1..Frames /\ Frames \in Nat
  BY <1>1, Typed DEF IInv, Between
<1>3. Types'
  BY <1>1, <1>2 DEF IInv, Types
<1>4. InRequest' /\ Between' /\ WholeFrames' /\ RepliesInOrder'
  BY <1>1 DEF IInv, InRequest, Between, WholeFrames, RepliesInOrder, Reading, Writing
<1>5. ReplyStart[taken] \in Nat
  BY <1>2, Sizes
<1>6. open' => Len(out') = Source'
  BY <1>1, <1>5 DEF IInv, InReply, Source
<1>7. InReply'
  BY <1>1, <1>2, <1>6 DEF InReply, Reading, Writing
<1> QED BY <1>3, <1>4, <1>7 DEF IInv

(* What a write appends goes on where the replies ended.                   *)
LEMMA Appended ==
  ASSUME out \in Seq(Nat), RepliesInOrder, NEW n \in Nat, out' = out \o [i \in 1..n |-> Len(out) + i]
  PROVE  /\ out' \in Seq(Nat) /\ Len(out') = Len(out) + n /\ Len(out) \in Nat
         /\ RepliesInOrder'
<1> DEFINE t == [i \in 1..n |-> Len(out) + i]
<1>1. Len(out) \in Nat
  BY LenProperties
<1>2. t \in Seq(Nat) /\ Len(t) = n /\ \A i \in 1..n : t[i] = Len(out) + i
  BY <1>1
<1> HIDE DEF t
<1>3. out' \in Seq(Nat) /\ Len(out') = Len(out) + n
      /\ \A i \in 1..Len(out) + n : out'[i] = IF i <= Len(out) THEN out[i] ELSE t[i - Len(out)]
  <2>1. out' = out \o t
    BY DEF t
  <2> QED BY <1>2, <2>1, ConcatProperties
<1>4. ASSUME NEW i \in 1..Len(out) + n  PROVE  out'[i] = i
  <2>1. CASE i <= Len(out)
    BY <1>1, <1>3, <2>1 DEF RepliesInOrder
  <2>2. CASE i > Len(out)
    <3>1. i - Len(out) \in 1..n
      BY <1>1, <2>2
    <3>2. out'[i] = t[i - Len(out)]
      BY <1>1, <1>3, <2>2
    <3>3. t[i - Len(out)] = Len(out) + (i - Len(out))
      BY <1>2, <3>1
    <3> QED BY <1>1, <3>2, <3>3
  <2> QED BY <1>1, <2>1, <2>2
<1> QED BY <1>1, <1>3, <1>4 DEF RepliesInOrder

LEMMA WriteSomeKeeps ==
  ASSUME FramingAssumption, IInv, WriteSome
  PROVE  IInv'
<1>1. PICK nw \in 1..nbytes :
        /\ Len(out) + nw - drained <= SockBuf
        /\ out' = out \o [i \in 1..nw |-> Source + i]
        /\ p' = p + nw
        /\ nbytes' = nbytes - nw
  BY DEF WriteSome
<1>2. Writing /\ open /\ UNCHANGED <<open, sent, got, buf, taken, pc, drained>>
  BY DEF WriteSome, request
<1>3. p \in Nat \ {0} /\ nbytes \in Nat /\ nw \in Nat \ {0} /\ nw <= nbytes /\ Prefix \in Nat
      /\ out \in Seq(Nat) /\ Len(out) \in Nat /\ drained \in Nat /\ drained <= Len(out)
  <2>1. p \in Nat \ {0} /\ nbytes \in Nat /\ Prefix \in Nat
        /\ out \in Seq(Nat) /\ Len(out) \in Nat /\ drained \in Nat /\ drained <= Len(out)
    BY Typed DEF IInv
  <2> QED BY <1>1, <2>1
<1>4. Len(out) = Source
  BY <1>2 DEF IInv, InReply
<1>5. out' \in Seq(Nat) /\ Len(out') = Len(out) + nw /\ RepliesInOrder'
  <2>1. nw \in Nat /\ out' = out \o [i \in 1..nw |-> Len(out) + i]
    BY <1>1, <1>3, <1>4
  <2> QED BY <1>3, <2>1, Appended DEF IInv
<1>6. Types'
  <2>1. p' \in Nat \ {0} /\ nbytes' \in Nat /\ drained \in 0..Len(out')
    BY <1>1, <1>3, <1>5
  <2> QED BY <1>2, <1>5, <2>1 DEF IInv, Types
<1>7. InRequest' /\ Between' /\ WholeFrames'
  BY <1>2 DEF IInv, InRequest, Between, WholeFrames, Reading, Writing
<1>8. Len(out') = Source' /\ p' + nbytes' = p + nbytes
  <2>1. ReplyStart[taken] \in Nat
    BY <1>2, Sizes DEF IInv, Between
  <2>2. Source' = Source + nw
    BY <1>1, <1>2, <1>3, <2>1 DEF Source
  <2>3. (p + nw) + (nbytes - nw) = p + nbytes
    BY <1>3
  <2> QED BY <1>1, <1>4, <1>5, <2>2, <2>3
<1>9. InReply'
  BY <1>2, <1>8 DEF IInv, InReply, Reading, Writing
<1> QED BY <1>5, <1>6, <1>7, <1>9 DEF IInv

LEMMA WriteNowhereKeeps ==
  ASSUME FramingAssumption, IInv, WriteNowhere
  PROVE  IInv'
<1>1. PICK nw \in 1..nbytes : p' = p + nw /\ nbytes' = nbytes - nw
  BY DEF WriteNowhere
<1>2. Writing /\ ~open /\ UNCHANGED <<open, sent, got, buf, taken, pc, out, drained>>
  BY DEF WriteNowhere, request, reply
<1>3. p \in Nat \ {0} /\ nbytes \in Nat
  BY Typed DEF IInv
<1>4. p' \in Nat \ {0} /\ nbytes' \in Nat /\ p' + nbytes' = p + nbytes
  <2>1. nw \in Nat \ {0} /\ nw <= nbytes
    BY <1>1, <1>3
  <2>2. (p + nw) + (nbytes - nw) = p + nbytes
    BY <1>3, <2>1
  <2> QED BY <1>1, <1>3, <2>1, <2>2
<1>5. Types'
  BY <1>2, <1>4 DEF IInv, Types
<1>6. InRequest' /\ Between' /\ WholeFrames' /\ RepliesInOrder'
  BY <1>2 DEF IInv, InRequest, Between, WholeFrames, RepliesInOrder, Reading, Writing
<1>7. InReply'
  BY <1>2, <1>4 DEF IInv, InReply, Reading, Writing
<1> QED BY <1>5, <1>6, <1>7 DEF IInv

LEMMA LengthWrittenKeeps ==
  ASSUME FramingAssumption, IInv, LengthWritten
  PROVE  IInv'
<1>1. pc = "reply_length" /\ nbytes = 0 /\ pc' = "reply" /\ p' = 1 /\ nbytes' = ReplyLength[taken]
      /\ UNCHANGED <<open, sent, got, buf, taken, out, drained>>
  BY DEF LengthWritten, Transmit, request, reply
<1>2. Prefix \in Nat \ {0} /\ p = Prefix + 1
      /\ ReplyStart[taken] \in Nat /\ ReplyLength[taken] \in Nat
  <2>1. Prefix \in Nat \ {0} /\ p \in Nat
    BY Typed DEF IInv
  <2>2. taken \in 1..Frames
    BY <1>1 DEF IInv, Between, Writing
  <2> QED BY <1>1, <2>1, <2>2, Sizes DEF IInv, InReply
<1>3. Types'
  BY <1>1, <1>2 DEF IInv, Types
<1>4. InRequest' /\ Between' /\ WholeFrames' /\ RepliesInOrder'
  BY <1>1 DEF IInv, InRequest, Between, WholeFrames, RepliesInOrder, Reading, Writing
<1>5. Source' = Source
  BY <1>1, <1>2 DEF Source
<1>6. InReply'
  BY <1>1, <1>2, <1>5 DEF IInv, InReply, Reading, Writing
<1> QED BY <1>3, <1>4, <1>6 DEF IInv

LEMMA ReplyWrittenKeeps ==
  ASSUME FramingAssumption, IInv, ReplyWritten
  PROVE  IInv'
<1>1. pc = "reply" /\ nbytes = 0 /\ pc' = "length" /\ p' = 1 /\ nbytes' = Prefix
      /\ buf' = Blank(Prefix) /\ UNCHANGED <<open, sent, got, taken, out, drained>>
  BY DEF ReplyWritten, Receive, reply
<1>2. Prefix \in Nat \ {0} /\ taken \in 1..Frames /\ p \in Nat /\ Start[taken + 1] \in Nat
  BY <1>1, Typed DEF IInv, Between, Writing
<1>3. buf' \in Seq(Nat) /\ Len(buf') = Prefix
  BY <1>1, <1>2, BlankBuffer
<1>4. Types'
  BY <1>1, <1>2, <1>3 DEF IInv, Types
<1>5. got = Start[taken + 1]
  BY <1>1 DEF IInv, Between, Writing
<1>6. InRequest'
  <2>1. Base' = got
    BY <1>1, <1>2, <1>5 DEF Base
  <2>2. got = got + 1 - 1
    <3>1. got \in Nat
      BY Typed DEF IInv
    <3> QED BY <3>1
  <2>3. \A i \in 1..Len(buf') : ~(i < p')
    BY <1>1, <1>2, <1>3
  <2> QED BY <1>1, <1>2, <1>3, <2>1, <2>2, <2>3 DEF InRequest
<1>7. open => Len(out) = ReplyStart[taken + 1]
  <2>1. p = ReplyLength[taken] + 1
    <3>1. ReplyLength[taken] \in Nat
      BY <1>2, Sizes
    <3> QED BY <1>1, <1>2, <3>1 DEF IInv, InReply
  <2>2. open => Len(out) = ReplyStart[taken] + Prefix + p - 1
    BY <1>1 DEF IInv, InReply, Writing, Source
  <2>3. ReplyStart[taken] \in Nat /\ ReplyLength[taken] \in Nat
        /\ ReplyStart[taken + 1] = ReplyEnd(taken)
    BY <1>2, Sizes
  <2> QED BY <1>2, <2>1, <2>2, <2>3 DEF ReplyEnd
<1>8. Between' /\ InReply' /\ WholeFrames' /\ RepliesInOrder'
  BY <1>1, <1>7 DEF IInv, Between, InReply, WholeFrames, RepliesInOrder, Reading, Writing
<1> QED BY <1>4, <1>6, <1>8 DEF IInv

LEMMA ThrowsKeeps ==
  ASSUME FramingAssumption, IInv, Throws
  PROVE  IInv'
<1>1. pc' = "thrown" /\ UNCHANGED <<open, sent, got, buf, taken, p, nbytes, out, drained>>
  BY DEF Throws, request, reply
<1> QED BY <1>1 DEF IInv, Types, InRequest, Between, InReply, WholeFrames, RepliesInOrder,
           Reading, Writing

-----------------------------------------------------------------------------
THEOREM Inductive == Spec => []IInv
<1>1. Init => IInv
  BY FramingAssumption, AtFirst
<1>2. IInv /\ [Next]_vars => IInv'
  <2> SUFFICES ASSUME IInv, [Next]_vars PROVE IInv'
    OBVIOUS
  <2> USE FramingAssumption
  <2>1. CASE ClientWrite \/ ClientRead \/ ClientLeaves
    BY <2>1, ClientKeeps
  <2>2. CASE Serve
    BY <2>2, ReadSomeKeeps, LengthReadKeeps, PayloadReadKeeps, HandleKeeps, WriteSomeKeeps,
       WriteNowhereKeeps, LengthWrittenKeeps, ReplyWrittenKeeps, ThrowsKeeps DEF Serve
  <2>3. CASE UNCHANGED vars
    BY <2>3 DEF vars, request, reply, IInv, Types, InRequest, Between, InReply, WholeFrames,
       RepliesInOrder, Reading, Writing, Base, Source
  <2> QED BY <2>1, <2>2, <2>3 DEF Next
<1> QED BY <1>1, <1>2, PTL DEF Spec

(* Every variable has its type, and the loops stay inside their buffer.    *)
THEOREM TypeCorrect == Spec => []TypeOK
<1>1. IInv => TypeOK
  BY DEF IInv, Types, InRequest, TypeOK
<1> QED BY <1>1, Inductive, PTL

(* The handlers get the payload of the request they are at, for any cut of *)
(* the stream.                                                             *)
THEOREM FramesWhole == Spec => []WholeFrames
<1>1. IInv => WholeFrames
  BY DEF IInv
<1> QED BY <1>1, Inductive, PTL

(* The client receives the replies byte by byte in their order.            *)
THEOREM RepliesOrdered == Spec => []RepliesInOrder
<1>1. IInv => RepliesInOrder
  BY DEF IInv
<1> QED BY <1>1, Inductive, PTL

-----------------------------------------------------------------------------
(* Implementing Exchange.                                                  *)

LEMMA Chain ==
  ASSUME NEW a \in Nat, NEW b \in Nat, NEW c \in Nat, NEW n \in Nat,
         a <= b \/ a = c, b < c, c <= n
  PROVE  a <= n
OBVIOUS

LEMMA NotBefore ==
  ASSUME NEW a \in Nat, NEW b \in Nat, NEW c \in Nat, NEW n \in Nat,
         n <= a, a <= b, b < c
  PROVE  ~(c <= n)
OBVIOUS

LEMMA Antisymmetry ==
  ASSUME NEW a \in Nat, NEW b \in Nat, a <= b
  PROVE  b <= a <=> a = b
OBVIOUS

LEMMA Transitivity ==
  ASSUME NEW a \in Nat, NEW b \in Nat, NEW c \in Nat, a <= b, b <= c
  PROVE  a <= c
OBVIOUS

(* n bytes from offset i of a part of size bytes stay inside the part.     *)
LEMMA Inside ==
  ASSUME NEW start \in Nat, NEW size \in Nat, NEW rest \in Nat, NEW i \in Nat \ {0},
         NEW left \in Nat, NEW n \in Nat, i + left = size + 1, n <= left,
         NEW at \in Nat, at = start + i - 1, NEW end \in Nat, end = start + size + rest
  PROVE  start <= at /\ at + n <= end
OBVIOUS

LEMMA Between3 ==
  ASSUME NEW a \in Nat, NEW b \in Nat, NEW n \in Nat \ {0}, NEW c \in Nat, NEW d \in Nat,
         a <= b, d = b + n, d <= c
  PROVE  b <= c /\ b # c /\ a <= d
OBVIOUS

LEMMA After ==
  ASSUME NEW a \in Nat, NEW b \in Nat, NEW c \in Nat, a + b <= c
  PROVE  a + b \in Nat /\ a <= a + b /\ a <= c
OBVIOUS

LEMMA Trichotomy ==
  ASSUME NEW i \in Nat, NEW j \in Nat
  PROVE  (i < j /\ i # j /\ ~(j < i)) \/ (i = j /\ ~(i < j) /\ ~(j < i)) \/ (j < i /\ i # j /\ ~(i < j))
OBVIOUS

(* The frames that have arrived are the first ones.                        *)
LEMMA WholeFirst ==
  ASSUME FramingAssumption, NEW n \in Nat, NEW k \in Whole(n), NEW j \in 1..k
  PROVE  j \in Whole(n)
<1>1. k \in 1..Frames /\ FrameEnd(k) <= n /\ Frames \in Nat
  BY Numbers DEF Whole
<1>2. j \in 1..Frames
  BY <1>1
<1>3. j = k \/ j < k
  BY <1>1
<1>4. FrameEnd(j) \in Nat
  BY <1>2, Sizes
<1>5. FrameEnd(k) \in Nat /\ Start[k] \in Nat /\ Start[k] < FrameEnd(k)
  BY <1>1, Sizes
<1>6. j < k => FrameEnd(j) <= Start[k]
  BY <1>1, <1>2, Order
<1>7. FrameEnd(j) <= Start[k] \/ FrameEnd(j) = FrameEnd(k)
  BY <1>3, <1>6
<1>8. FrameEnd(j) <= n
  BY ONLY <1>1, <1>4, <1>5, <1>7, n \in Nat, Chain
<1> QED BY <1>2, <1>8 DEF Whole

LEMMA WholeGrows ==
  ASSUME FramingAssumption, NEW m \in Nat, NEW n \in Nat, m <= n
  PROVE  Whole(m) \subseteq Whole(n)
<1> SUFFICES ASSUME NEW k \in 1..Frames, FrameEnd(k) <= m PROVE FrameEnd(k) <= n
  BY DEF Whole
<1>1. FrameEnd(k) \in Nat
  BY Sizes
<1>2. \A a, b, c \in Nat : a <= b /\ b <= c => a <= c
  OBVIOUS
<1> QED BY <1>1, <1>2

(* In the middle of the reply to request k, the earlier ones are answered. *)
LEMMA AnsweredSoFar ==
  ASSUME FramingAssumption, NEW k \in 1..Frames, NEW m \in Nat,
         ReplyStart[k] <= m, m <= ReplyEnd(k)
  PROVE  /\ Answered(m) \subseteq 1..Frames
         /\ \A j \in 1..Frames : j \in Answered(m) <=> (j < k \/ (j = k /\ m = ReplyEnd(k)))
<1>1. ReplyStart[k] \in Nat /\ ReplyEnd(k) \in Nat /\ ReplyStart[k] < ReplyEnd(k)
  BY Sizes
<1>2. ASSUME NEW j \in 1..Frames
      PROVE  ReplyEnd(j) <= m <=> (j < k \/ (j = k /\ m = ReplyEnd(k)))
  <2>1. ReplyStart[j] \in Nat /\ ReplyEnd(j) \in Nat /\ ReplyStart[j] < ReplyEnd(j)
    BY Sizes
  <2>2. j \in Nat /\ k \in Nat
    BY Numbers
  <2>3. CASE j < k
    <3>1. ReplyEnd(j) <= ReplyStart[k]
      BY <2>3, Order
    <3> QED BY <1>1, <2>1, <2>3, <3>1, Transitivity, Zenon
  <2>4. CASE j = k
    <3>1. ~(j < k)
      BY <2>2, <2>4
    <3>2. ReplyEnd(k) <= m <=> m = ReplyEnd(k)
      BY <1>1, Antisymmetry, Zenon
    <3> QED BY <2>4, <3>1, <3>2, Zenon
  <2>5. CASE k < j
    <3>1. ReplyEnd(k) <= ReplyStart[j]
      BY <2>5, Order
    <3>2. ~(ReplyEnd(j) <= m)
      BY <1>1, <2>1, <3>1, NotBefore, Zenon
    <3>3. ~(j < k) /\ j # k
      BY <2>2, <2>5
    <3> QED BY <3>2, <3>3
  <2> QED BY <2>2, <2>3, <2>4, <2>5, Trichotomy, Zenon
<1>3. \A j \in 1..Frames : ReplyEnd(j) <= m <=> (j < k \/ (j = k /\ m = ReplyEnd(k)))
  BY <1>2
<1>4. \A j : j \in Answered(m) <=> (j \in 1..Frames /\ ReplyEnd(j) <= m)
  BY Zenon DEF Answered
<1> QED BY <1>3, <1>4, Zenon

LEMMA TakeStep ==
  ASSUME FramingAssumption, IInv, PayloadRead
  PROVE  Promise!Take
<1>1. pc = "payload" /\ nbytes = 0 /\ taken' = taken + 1 /\ pc' = "handle"
      /\ UNCHANGED <<open, sent, out>>
  BY DEF PayloadRead, reply
<1>2. taken \in Nat /\ taken + 1 \in 1..Frames /\ Length[taken + 1] \in Nat
      /\ Frames \in Nat /\ Prefix \in Nat /\ got <= sent /\ got \in Nat /\ sent \in Nat
  <2>1. taken \in Nat /\ Frames \in Nat /\ Prefix \in Nat /\ got <= sent /\ got \in Nat /\ sent \in Nat
    BY Typed DEF IInv
  <2> QED BY <1>1, <2>1 DEF IInv, InRequest
<1>3. FrameEnd(taken + 1) = got
  <2>1. PayloadSize(taken + 1) = Length[taken + 1]
    BY <1>2 DEF PayloadSize
  <2>2. p = Length[taken + 1] + 1 /\ got = Start[taken + 1] + Prefix + p - 1
    <3>1. p \in Nat
      BY Typed DEF IInv
    <3>2. p + nbytes = Length[taken + 1] + 1 /\ got = Base + p - 1
      BY <1>1 DEF IInv, InRequest, Reading
    <3>3. Base = Start[taken + 1] + Prefix
      BY <1>1 DEF Base
    <3> QED BY <1>1, <1>2, <3>1, <3>2, <3>3
  <2>3. Start[taken + 1] \in Nat
    BY <1>2, Sizes
  <2> QED BY <1>2, <2>1, <2>2, <2>3 DEF FrameEnd
<1>4. taken + 1 \in Whole(sent)
  BY <1>2, <1>3 DEF Whole
<1>5. open => taken \in Answered(Len(out)) \cup {0}
  <2> SUFFICES ASSUME open, taken # 0 PROVE taken \in Answered(Len(out))
    OBVIOUS
  <2>1. taken \in 1..Frames
    BY <1>2
  <2>2. Len(out) = ReplyEnd(taken) /\ ReplyEnd(taken) \in Nat
    BY <1>1, <2>1, Sizes DEF IInv, InReply, Reading
  <2> QED BY <2>1, <2>2 DEF Answered
<1> QED BY <1>1, <1>2, <1>4, <1>5 DEF Promise!Take

LEMMA ReplyStep ==
  ASSUME FramingAssumption, IInv, WriteSome
  PROVE  Promise!Reply \/ UNCHANGED Promise!vars
<1>1. PICK nw \in 1..nbytes : out' = out \o [i \in 1..nw |-> Source + i]
  BY DEF WriteSome
<1>2. Writing /\ open /\ UNCHANGED <<open, sent, taken, pc>>
  BY DEF WriteSome, request
<1>3. taken \in 1..Frames /\ nw \in Nat \ {0} /\ nw <= nbytes /\ nbytes \in Nat /\ p \in Nat \ {0}
      /\ Prefix \in Nat /\ out \in Seq(Nat) /\ Len(out) \in Nat /\ Len(out) = Source
  <2>1. nbytes \in Nat /\ p \in Nat \ {0} /\ Prefix \in Nat /\ out \in Seq(Nat) /\ Len(out) \in Nat
    BY Typed DEF IInv
  <2> QED BY <1>1, <1>2, <2>1 DEF IInv, Between, InReply
<1>4. Len(out') = Len(out) + nw
  <2>1. nw \in Nat /\ Source \in Nat /\ out \in Seq(Nat)
    BY <1>3
  <2>2. DOMAIN [i \in 1..nw |-> Source + i] = 1..nw
        /\ [i \in 1..nw |-> Source + i] \in Seq(Nat)
    BY <2>1
  <2>3. Len([i \in 1..nw |-> Source + i]) = nw
    BY <2>1, <2>2
  <2> QED BY <1>1, <2>1, <2>2, <2>3, ConcatProperties
<1>5. ReplyStart[taken] \in Nat /\ ReplyLength[taken] \in Nat /\ ReplyEnd(taken) \in Nat
  BY <1>3, Sizes
<1>6. ReplyStart[taken] <= Len(out) /\ Len(out) + nw <= ReplyEnd(taken)
  <2>1. CASE pc = "reply_length"
    <3>1. p + nbytes = Prefix + 1
      BY <2>1 DEF IInv, InReply
    <3>2. Len(out) = ReplyStart[taken] + p - 1
      <4>1. Source = ReplyStart[taken] + 0 + p - 1
        BY <2>1 DEF Source
      <4> QED BY <1>3, <1>5, <4>1
    <3>3. ReplyEnd(taken) = ReplyStart[taken] + Prefix + ReplyLength[taken]
      BY DEF ReplyEnd
    <3> QED BY <1>3, <1>5, <3>1, <3>2, <3>3, Inside, Zenon
  <2>2. CASE pc = "reply"
    <3> DEFINE body == ReplyStart[taken] + Prefix
    <3>1. p + nbytes = ReplyLength[taken] + 1
      BY <2>2 DEF IInv, InReply
    <3>2. Len(out) = body + p - 1
      BY <1>3, <2>2 DEF Source
    <3>3. ReplyEnd(taken) = body + ReplyLength[taken]
      BY DEF ReplyEnd
    <3>4. body \in Nat /\ ReplyStart[taken] <= body
      <4>1. \A a, b \in Nat : a + b \in Nat /\ a <= a + b
        OBVIOUS
      <4> QED BY <1>3, <1>5, <4>1, Zenon
    <3> HIDE DEF body
    <3>5. ReplyEnd(taken) = body + ReplyLength[taken] + 0
      <4>1. \A a, b \in Nat : a + b = a + b + 0
        OBVIOUS
      <4> QED BY <1>5, <3>3, <3>4, <4>1
    <3>6. body <= Len(out) /\ Len(out) + nw <= ReplyEnd(taken)
      <4>1. 0 \in Nat /\ nw \in Nat
        BY <1>3
      <4>2. ReplyLength[taken] \in Nat /\ p \in Nat \ {0} /\ nbytes \in Nat /\ nw <= nbytes
            /\ Len(out) \in Nat /\ ReplyEnd(taken) \in Nat
        BY <1>3, <1>5
      <4> QED BY ONLY <3>1, <3>2, <3>4, <3>5, <4>1, <4>2, Inside
    <3> QED BY <1>3, <1>5, <3>4, <3>6, Transitivity, Zenon
  <2> QED BY <1>2, <2>1, <2>2 DEF Writing
<1>7. Len(out') \in Nat
  BY <1>3, <1>4
<1>8. Len(out) <= ReplyEnd(taken) /\ Len(out) # ReplyEnd(taken) /\ ReplyStart[taken] <= Len(out')
      /\ Len(out') <= ReplyEnd(taken)
  <2>1. Len(out') <= ReplyEnd(taken)
    BY <1>4, <1>6
  <2>2. nw \in Nat \ {0} /\ Len(out) \in Nat /\ ReplyStart[taken] \in Nat /\ ReplyEnd(taken) \in Nat
    BY <1>3, <1>5
  <2> QED BY ONLY <1>4, <1>6, <1>7, <2>1, <2>2, Between3
<1>9. Answered(Len(out)) \subseteq 1..Frames
      /\ \A j \in 1..Frames : j \in Answered(Len(out)) <=> j < taken
  BY <1>3, <1>6, <1>8, AnsweredSoFar, Zenon
<1>10. Answered(Len(out')) \subseteq 1..Frames
       /\ \A j \in 1..Frames : j \in Answered(Len(out'))
                                <=> (j < taken \/ (j = taken /\ Len(out') = ReplyEnd(taken)))
  BY <1>3, <1>7, <1>8, AnsweredSoFar, Zenon
<1>11. CASE Len(out') = ReplyEnd(taken)
  <2>1. taken \notin Answered(Len(out)) \cup {0}
    <3>1. taken \in Nat \ {0} /\ ~(taken < taken)
      BY <1>3
    <3> QED BY <1>3, <1>9, <3>1
  <2>2. Answered(Len(out')) = Answered(Len(out)) \cup {taken}
    BY <1>3, <1>9, <1>10, <1>11, Zenon
  <2> QED BY <1>2, <2>1, <2>2 DEF Promise!Reply, Writing
<1>12. CASE Len(out') # ReplyEnd(taken)
  <2>1. Answered(Len(out')) = Answered(Len(out))
    BY <1>9, <1>10, <1>12, Zenon
  <2> QED BY <1>2, <2>1 DEF Promise!vars
<1> QED BY <1>11, <1>12

LEMMA DieStep ==
  ASSUME FramingAssumption, IInv, Throws
  PROVE  Promise!Die
<1>1. pc # "thrown" /\ pc' = "thrown" /\ UNCHANGED <<open, sent, taken, out>>
  BY DEF Throws, Reading, Writing, request, reply
<1>2. CASE ~open
  BY <1>1, <1>2 DEF Promise!Die
<1>3. CASE open /\ pc = "handle" /\ taken \in Doubtful
  <2>1. taken \in 1..Frames /\ Len(out) = ReplyStart[taken]
    BY <1>3 DEF IInv, Between, InReply
  <2>2. ReplyStart[taken] \in Nat /\ ReplyEnd(taken) \in Nat /\ ReplyStart[taken] < ReplyEnd(taken)
    BY <2>1, Sizes
  <2>3. taken \notin Answered(Len(out))
    BY <2>1, <2>2 DEF Answered
  <2> QED BY <1>1, <1>3, <2>3 DEF Promise!Die
<1>4. CASE pc = "length" /\ nbytes = 0 /\ \E n \in Spelled : n < 0
  <2>1. taken < Frames /\ Length[taken + 1] < 0
    BY <1>4, SpelledHere DEF IInv
  <2>2. taken + 1 \in 1..Frames /\ Frames \in Nat /\ taken \in Nat /\ Prefix \in Nat
        /\ got <= sent /\ Start[taken + 1] \in Nat /\ p \in Nat /\ sent \in Nat
    <3>1. Frames \in Nat /\ taken \in Nat /\ Prefix \in Nat
          /\ got <= sent /\ Start[taken + 1] \in Nat /\ p \in Nat /\ sent \in Nat
      BY Typed DEF IInv
    <3> QED BY <2>1, <3>1
  <2>3. got = Start[taken + 1] + Prefix
    BY <1>4, <2>2 DEF IInv, InRequest, Reading, Base
  <2>4. PayloadSize(taken + 1) = 0
    BY <2>1 DEF PayloadSize
  <2>5. FrameEnd(taken + 1) = got
    BY <2>2, <2>3, <2>4 DEF FrameEnd
  <2>6. taken + 1 \in Whole(sent)
    BY <2>2, <2>5 DEF Whole
  <2> QED BY <1>1, <2>1, <2>6 DEF Promise!Die
<1> QED BY <1>2, <1>3, <1>4 DEF Throws

(* Frames are read in one step and written in one step, as far as the rest *)
(* of the broker can tell.                                                 *)
THEOREM FramesAreAtomic == Spec => ImplementsExchange
<1> USE FramingAssumption
<1>1. Init => Promise!Init
  <2> SUFFICES ASSUME Init PROVE Promise!Init
    OBVIOUS
  <2>1. \A k \in 1..Frames : FrameEnd(k) \in Nat \ {0} /\ ReplyEnd(k) \in Nat \ {0}
    <3> TAKE k \in 1..Frames
    <3>1. /\ Start[k] \in Nat /\ ReplyStart[k] \in Nat
          /\ FrameEnd(k) \in Nat /\ Start[k] < FrameEnd(k)
          /\ ReplyEnd(k) \in Nat /\ ReplyStart[k] < ReplyEnd(k)
      BY Sizes
    <3> QED BY <3>1
  <2>2. sent = 0 /\ Len(out) = 0 /\ pc = "length" /\ open = TRUE /\ taken = 0
    BY DEF Init
  <2>3. \A i \in Nat \ {0} : ~(i <= 0)
    OBVIOUS
  <2>4. Whole(0) = {} /\ Answered(0) = {}
    BY <2>1, <2>3, Zenon DEF Whole, Answered
  <2> QED BY <2>2, <2>4 DEF Promise!Init
<1>2. IInv /\ [Next]_vars => [Promise!Next]_(Promise!vars)
  <2> SUFFICES ASSUME IInv, [Next]_vars PROVE Promise!Next \/ UNCHANGED Promise!vars
    OBVIOUS
  <2>1. CASE ClientWrite
    <3>1. PICK n \in 1..SockBuf : sent' = sent + n
      BY <2>1 DEF ClientWrite
    <3>2. sent \in Nat /\ sent' \in Nat /\ sent <= sent'
      <4>1. sent \in Nat /\ SockBuf \in Nat
        BY Typed DEF IInv
      <4> QED BY <3>1, <4>1
    <3>3. Whole(sent) \subseteq Whole(sent') /\ \A k \in Whole(sent') : \A j \in 1..k : j \in Whole(sent')
      BY <3>2, WholeGrows, WholeFirst
    <3>4. Whole(sent') \in SUBSET (1..Frames)
      BY DEF Whole
    <3>5. open /\ UNCHANGED <<open, pc, taken, out>>
      BY <2>1 DEF ClientWrite, reply
    <3>6. Promise!Arrive
      BY <3>3, <3>4, <3>5 DEF Promise!Arrive
    <3> QED BY <3>6 DEF Promise!Next
  <2>2. CASE ClientLeaves
    BY <2>2 DEF ClientLeaves, request, reply, Promise!Leave, Promise!Next
  <2>3. CASE ClientRead
    BY <2>3 DEF ClientRead, request, Promise!vars
  <2>4. CASE Serve
    <3>1. CASE PayloadRead
      BY <3>1, TakeStep DEF Promise!Next
    <3>2. CASE WriteSome
      BY <3>2, ReplyStep DEF Promise!Next
    <3>3. CASE Throws
      BY <3>3, DieStep DEF Promise!Next
    <3>4. CASE ReadSome \/ LengthRead
      BY <3>4 DEF ReadSome, LengthRead, Receive, Reading, reply, Promise!vars
    <3>5. CASE Handle \/ WriteNowhere \/ LengthWritten \/ ReplyWritten
      BY <3>5 DEF Handle, WriteNowhere, LengthWritten, ReplyWritten, Receive, Transmit, Writing,
                  request, reply, Promise!vars
    <3> QED BY <2>4, <3>1, <3>2, <3>3, <3>4, <3>5 DEF Serve
  <2>5. CASE UNCHANGED vars
    BY <2>5 DEF vars, request, reply, Promise!vars
  <2> QED BY <2>1, <2>2, <2>3, <2>4, <2>5 DEF Next
<1> QED BY <1>1, <1>2, Inductive, PTL DEF Spec, Promise!Spec, ImplementsExchange
=============================================================================
