------------------------------- MODULE Varint -------------------------------
(***************************************************************************)
(* The loops that write and read a number of variable length               *)
(* (protocol/iwritable.cpp, ireadable.cpp): base-128 digits, least         *)
(* significant first, each with a flag that says another follows.  One     *)
(* value is zigzagged, written to a byte stream and read back.  The width  *)
(* of a digit is a parameter: the code has Group = 7.                      *)
(***************************************************************************)
EXTENDS VarintCodec, Sequences

CONSTANT Group  \* bits of a digit

(* The last digit of the code's VARLONG is shifted by 63: i does not wrap.  *)
ASSUME GroupAssumption ==
  /\ Group \in Nat \ {0}
  /\ Group <= Bits
  /\ Bits <= 256

VARIABLES
  kind,   \* "VARINT" or "VARLONG"
  value,  \* what is written
  pc,     \* in which loop the code is
  n,      \* the loop's n: what is left to write, then what is read so far
  i,      \* the reader's shift count
  bytes   \* the stream

vars == <<kind, value, pc, n, i, bytes>>

Width(k) == IF k = "VARINT" THEN HalfBits ELSE Bits

Init ==
  /\ kind \in {"VARINT", "VARLONG"}
  /\ value \in Values(Width(kind))
  /\ pc = "write"
  /\ n = ZigZag(Width(kind), value)
  /\ i = 0
  /\ bytes = <<>>

(* Mutant: the flag is computed before n is shifted.                       *)
WriteDigitFlagFirst ==
  LET rest == n \div 2 ^ Group
  IN  /\ pc = "write"
      /\ bytes' = Append(bytes, [digit |-> n % 2 ^ Group, more |-> n > 0])
      /\ IF rest > 0 THEN n' = rest /\ pc' = "write" ELSE n' = 0 /\ pc' = "read"
      /\ UNCHANGED <<kind, value, i>>

(* A turn of the loop in write_unsigned_varlong.                           *)
WriteDigit ==
  LET rest == n \div 2 ^ Group
  IN  /\ pc = "write"
      /\ bytes' = Append(bytes, [digit |-> n % 2 ^ Group, more |-> rest > 0])
      /\ IF rest > 0 THEN n' = rest /\ pc' = "write" ELSE n' = 0 /\ pc' = "read"
      /\ UNCHANGED <<kind, value, i>>

(* Mutant: the reader takes no more digits than a VARINT has.              *)
ReadDigitOfVarint ==
  /\ pc = "read"
  /\ n' = Unsigned(Bits, n + Head(bytes).digit * 2 ^ i)
  /\ bytes' = Tail(bytes)
  /\ IF Head(bytes).more /\ i + Group < HalfBits
     THEN i' = (i + Group) % 256 /\ pc' = "read"
     ELSE i' = i /\ pc' = "done"
  /\ UNCHANGED <<kind, value>>

(* A turn of the loop in read_unsigned_varlong.                            *)
ReadDigit ==
  /\ pc = "read"
  /\ n' = Unsigned(Bits, n + Head(bytes).digit * 2 ^ i)
  /\ bytes' = Tail(bytes)
  /\ IF Head(bytes).more THEN i' = (i + Group) % 256 /\ pc' = "read" ELSE i' = i /\ pc' = "done"
  /\ UNCHANGED <<kind, value>>

Next == WriteDigit \/ ReadDigit

Spec == Init /\ [][Next]_vars /\ WF_vars(Next)

-----------------------------------------------------------------------------
(* Properties.                                                             *)

Decoded == IF kind = "VARINT" THEN read_varint(n) ELSE read_varlong(n)

(* Every VARINT comes back as it was, the smallest included: the sum wraps *)
(* round in a VARLONG's width, which a VARINT does not reach               *)
(* (ireadable.cpp:34-56, iwritable.cpp:36-56).                             *)
VarintComesBack == pc = "done" /\ kind = "VARINT" => Decoded = value

(* Every VARLONG but the smallest comes back as it was.                    *)
VarlongComesBackUnlessSmallest ==
  pc = "done" /\ kind = "VARLONG" /\ value # -(2 ^ (Bits - 1)) => Decoded = value

(* What the writer wrote never makes the reader shift by the width of n or *)
(* more, which is undefined (ireadable.cpp:51), nor read past its end.     *)
ShiftDefined == pc = "read" => i < Bits /\ bytes # <<>>

(* Reading ends, and takes exactly the bytes that were written.            *)
ReadsWhatWasWritten == <>[](pc = "done" /\ bytes = <<>>)

(* "Reads a VARLONG from a byte stream." (ireadable.hpp:43), which         *)
(* write_varlong wrote.                                                    *)
VarlongComesBack == pc = "done" /\ kind = "VARLONG" => Decoded = value
=============================================================================
