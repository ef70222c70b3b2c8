----------------------------- MODULE VarintCodec -----------------------------
(***************************************************************************)
(* What the numbers of variable length become on their way to and from a   *)
(* byte stream (protocol/iwritable.cpp, ireadable.cpp), apart from their   *)
(* digits: zigzag into an unsigned number of the same width, and back.     *)
(* Widths are parameters: the code has Bits = 64 and HalfBits = 32.        *)
(***************************************************************************)
EXTENDS Integers

CONSTANTS
  Bits,     \* of a VARLONG
  HalfBits  \* of a VARINT

ASSUME WidthAssumption ==
  /\ {Bits, HalfBits} \subseteq Nat \ {0}
  /\ HalfBits < Bits

(* What the provers do not know of powers; true of any widths.             *)
ASSUME PowerAssumption ==
  /\ 2 ^ 0 = 1 /\ 2 ^ 1 = 2
  /\ \A a, b \in 0..Bits :
       a + b <= Bits => 2 ^ a \in Nat \ {0} /\ 2 ^ (a + b) = 2 ^ a * 2 ^ b

(* The numbers of a width, without and with a sign.                        *)
Encodings(w) == 0 .. 2 ^ w - 1
Values(w)    == -(2 ^ (w - 1)) .. 2 ^ (w - 1) - 1

Unsigned(w, x) == x % (2 ^ w)
Signed(w, x)   == LET u == Unsigned(w, x) IN IF 2 * u < 2 ^ w THEN u ELSE u - 2 ^ w

(* (n << 1) ^ (n >> (w - 1)): the shift right leaves no bit or all.        *)
ZigZag(w, x) ==
  LET doubled == Unsigned(w, 2 * x)
  IN  IF x < 0 THEN 2 ^ w - 1 - doubled ELSE doubled

(* Mutant: the complement, without the one that makes it a negation.       *)
ReadVarlongComplement(u) ==
  Signed(Bits, IF u % 2 = 1 THEN -(u \div 2) ELSE u \div 2)

(* (n & 1) ? -((n + 1) >> 1) : (n >> 1), in the arithmetic of an           *)
(* UNSIGNED_VARLONG, where n + 1 can wrap round.                           *)
read_varlong(u) ==
  Signed(Bits, IF u % 2 = 1 THEN -(Unsigned(Bits, u + 1) \div 2) ELSE u \div 2)

(* Mutant: n is an UNSIGNED_VARINT, which n + 1 can reach the end of.      *)
ReadVarintNarrow(u) ==
  Signed(HalfBits, IF u % 2 = 1 THEN -(Unsigned(HalfBits, u + 1) \div 2) ELSE u \div 2)

(* The narrowing of what read_varlong returns.                             *)
read_varint(u) == Signed(HalfBits, read_varlong(u))
=============================================================================
