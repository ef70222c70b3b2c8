-------------------------- MODULE VarintCodecProofs --------------------------
(***************************************************************************)
(* Zigzag and its inverse for any widths: the reader undoes the writer for *)
(* every VARINT and for every VARLONG but the smallest, and the writer the *)
(* reader for every encoding but that one's.  Before these, the arithmetic *)
(* of quotients and remainders they rest on.                               *)
(***************************************************************************)
EXTENDS VarintCodec, TLAPS

Half(w) == 2 ^ (w - 1)

LEMMA PowerOfSum ==
  ASSUME NEW a \in 0..Bits, NEW b \in 0..Bits, a + b <= Bits
  PROVE  2 ^ a \in Nat \ {0} /\ 2 ^ (a + b) = 2 ^ a * 2 ^ b
BY PowerAssumption

LEMMA PowerPositive ==
  ASSUME NEW a \in 0..Bits
  PROVE  2 ^ a \in Nat \ {0}
<1>1. 0 \in 0..Bits /\ a + 0 <= Bits
  BY WidthAssumption
<1> QED BY <1>1, PowerOfSum

LEMMA Powers ==
  /\ \A w \in {HalfBits, Bits} : Half(w) \in Nat \ {0} /\ 2 ^ w = 2 * Half(w)
  /\ 2 ^ HalfBits <= Half(Bits)
<1>1. ASSUME NEW w \in {HalfBits, Bits}
      PROVE  Half(w) \in Nat \ {0} /\ 2 ^ w = 2 * Half(w)
  <2>1. w - 1 \in 0..Bits /\ 1 \in 0..Bits /\ 1 + (w - 1) <= Bits /\ 1 + (w - 1) = w
    BY WidthAssumption
  <2>2. 2 ^ (1 + (w - 1)) = 2 ^ 1 * 2 ^ (w - 1)
    BY <2>1, PowerOfSum
  <2>3. 2 ^ (w - 1) \in Nat \ {0}
    BY <2>1, PowerPositive
  <2> QED BY <2>1, <2>2, <2>3, PowerAssumption DEF Half
<1>2. 2 ^ HalfBits <= Half(Bits)
  <2> DEFINE d == Bits - 1 - HalfBits
  <2>1. d \in 0..Bits /\ HalfBits \in 0..Bits /\ d + HalfBits <= Bits /\ d + HalfBits = Bits - 1
    BY WidthAssumption
  <2>2. 2 ^ d \in Nat \ {0} /\ 2 ^ (d + HalfBits) = 2 ^ d * 2 ^ HalfBits
    BY <2>1, PowerOfSum
  <2>3. 2 ^ HalfBits \in Nat \ {0}
    BY <2>1, PowerPositive
  <2>4. ASSUME NEW x \in Nat \ {0}, NEW y \in Nat \ {0} PROVE y <= x * y
    OBVIOUS
  <2>5. 2 ^ HalfBits <= 2 ^ d * 2 ^ HalfBits
    BY <2>2, <2>3, <2>4
  <2> QED BY <2>1, <2>2, <2>5 DEF Half
<1> QED BY <1>1, <1>2

-----------------------------------------------------------------------------
(* Arithmetic modulo a width.                                              *)

LEMMA InRange ==
  ASSUME NEW m \in Nat \ {0}, NEW x \in 0 .. m - 1
  PROVE  x % m = x
  OBVIOUS

LEMMA BelowZero ==
  ASSUME NEW m \in Nat \ {0}, NEW x \in -m .. -1
  PROVE  x % m = x + m
  OBVIOUS

LEMMA Parity ==
  ASSUME NEW x \in Int
  PROVE  /\ (2 * x) % 2 = 0 /\ (2 * x) \div 2 = x
         /\ (2 * x + 1) % 2 = 1 /\ (2 * x + 1) \div 2 = x
  OBVIOUS

(* Quotient and remainder are what they are called.                        *)
LEMMA Division ==
  ASSUME NEW m \in Nat \ {0}, NEW q \in Int, NEW r \in 0 .. m - 1
  PROVE  (m * q + r) \div m = q /\ (m * q + r) % m = r
<1> DEFINE x == m * q + r
           y == x \div m
           z == x % m
<1>1. x \in Int /\ y \in Int /\ z \in 0 .. m - 1 /\ x = m * y + z
  OBVIOUS
<1> HIDE DEF y, z
<1>2. m * (y - q) = r - z
  BY <1>1
<1>3. y = q
  <2>1. ASSUME y - q >= 1 PROVE FALSE
    <3>1. m * (y - q) >= m
      BY <1>1, <2>1
    <3> QED BY <3>1, <1>1, <1>2
  <2>2. ASSUME q - y >= 1 PROVE FALSE
    <3>1. m * (q - y) >= m
      BY <1>1, <2>2
    <3>2. m * (q - y) = z - r
      BY <1>1
    <3> QED BY <3>1, <3>2, <1>1
  <2> QED BY <2>1, <2>2, <1>1
<1> QED BY <1>1, <1>2, <1>3 DEF y, z

LEMMA Parts ==
  ASSUME NEW m \in Nat \ {0}, NEW x \in Nat
  PROVE  /\ x \div m \in Nat /\ x % m \in 0 .. m - 1
         /\ x = m * (x \div m) + (x % m)
<1> DEFINE y == x \div m
           z == x % m
<1>1. y \in Int /\ z \in 0 .. m - 1 /\ x = m * y + z
  OBVIOUS
<1> HIDE DEF y, z
<1>2. ASSUME y <= -1 PROVE FALSE
  <2>1. m * y <= -m
    BY <1>1, <1>2
  <2> QED BY <2>1, <1>1
<1>3. /\ y \in Nat /\ z \in 0 .. m - 1
      /\ x = m * y + z
  BY <1>1, <1>2
<1> QED BY <1>3 DEF y, z

LEMMA ZigZagIs ==
  ASSUME NEW w, Half(w) \in Nat \ {0}, 2 ^ w = 2 * Half(w), NEW x \in Int, -Half(w) <= x, x < Half(w)
  PROVE  ZigZag(w, x) = IF x < 0 THEN 2 * (-x - 1) + 1 ELSE 2 * x
<1> DEFINE m == 2 ^ w
<1>1. m \in Nat \ {0} /\ 2 * x \in -m .. m - 1
  OBVIOUS
<1> HIDE DEF m
<1>2. CASE x < 0
  <2>1. (2 * x) % m = 2 * x + m
    <3>1. 2 * x \in -m .. -1
      BY <1>1, <1>2
    <3> QED BY <3>1, <1>1, BelowZero
  <2> QED BY <2>1, <1>1, <1>2 DEF ZigZag, Unsigned, m
<1>3. CASE x >= 0
  <2>1. (2 * x) % m = 2 * x
    BY <1>1, <1>3, InRange
  <2> QED BY <2>1, <1>1, <1>3 DEF ZigZag, Unsigned, m
<1> QED BY <1>2, <1>3

LEMMA SignedIs ==
  ASSUME NEW w, Half(w) \in Nat \ {0}, 2 ^ w = 2 * Half(w), NEW x \in Int, -Half(w) <= x, x < Half(w)
  PROVE  Signed(w, x) = x
<1> DEFINE m == 2 ^ w
<1>1. m \in Nat \ {0} /\ x \in -m .. m - 1
  OBVIOUS
<1>2. m = 2 * Half(w)
  OBVIOUS
<1> HIDE DEF m
<1>3. CASE x < 0
  <2>1. x % m = x + m
    <3>1. x \in -m .. -1
      BY <1>1, <1>3
    <3> QED BY <3>1, <1>1, BelowZero
  <2> QED BY <2>1, <1>1, <1>2, <1>3 DEF Signed, Unsigned, m
<1>4. CASE x >= 0
  <2>1. x % m = x
    BY <1>1, <1>4, InRange
  <2> QED BY <2>1, <1>1, <1>2, <1>4 DEF Signed, Unsigned, m
<1> QED BY <1>3, <1>4

(* The reader undoes a zigzag that leaves room for the sum n + 1.          *)
LEMMA ReadUndoes ==
  ASSUME NEW x \in Int, -Half(Bits) < x, x < Half(Bits)
  PROVE  read_varlong(IF x < 0 THEN 2 * (-x - 1) + 1 ELSE 2 * x) = x
<1> DEFINE m == 2 ^ Bits
<1>1. m \in Nat \ {0} /\ m = 2 * Half(Bits) /\ Half(Bits) \in Nat \ {0}
  BY Powers
<1>2. Signed(Bits, x) = x
  BY <1>1, SignedIs
<1> HIDE DEF m
<1>3. CASE x < 0
  <2> DEFINE u == 2 * (-x - 1) + 1
  <2>1. u % 2 = 1 /\ u \in Int
    BY Parity
  <2>2. u + 1 \in 0 .. m - 1
    BY <1>1, <1>3
  <2>3. (u + 1) % m = u + 1
    BY <1>1, <2>2, InRange
  <2>4. u + 1 = 2 * (-x)
    OBVIOUS
  <2>5. (u + 1) \div 2 = -x
    BY <2>4, Parity
  <2> HIDE DEF u
  <2>6. read_varlong(u) = Signed(Bits, -(-x))
    BY <2>1, <2>3, <2>5 DEF read_varlong, Unsigned, m
  <2>7. -(-x) = x
    OBVIOUS
  <2> QED BY <2>6, <2>7, <1>2, <1>3 DEF u
<1>4. CASE x >= 0
  <2>1. (2 * x) % 2 = 0 /\ (2 * x) \div 2 = x
    BY Parity
  <2>2. read_varlong(2 * x) = Signed(Bits, x)
    BY <2>1 DEF read_varlong
  <2> QED BY <2>2, <1>2, <1>4
<1> QED BY <1>3, <1>4

-----------------------------------------------------------------------------
(* (n << 1) ^ (n >> 63) and (n & 1) ? -((n + 1) >> 1) : (n >> 1) undo each *)
(* other for every VARLONG but the smallest (iwritable.cpp:44-46,          *)
(* ireadable.cpp:42-45).                                                   *)
THEOREM ZigZagOfVarlong ==
  ASSUME NEW x \in Values(Bits), x # -Half(Bits)
  PROVE  read_varlong(ZigZag(Bits, x)) = x
<1>1. x \in Int /\ -Half(Bits) < x /\ x < Half(Bits)
  BY Powers DEF Values, Half
<1>2. ZigZag(Bits, x) = IF x < 0 THEN 2 * (-x - 1) + 1 ELSE 2 * x
  BY <1>1, ZigZagIs, Powers
<1> QED BY <1>1, <1>2, ReadUndoes

(* The largest encoding is read as 0 in any width: n + 1 wraps to it       *)
(* (ireadable.cpp:44).                                                     *)
LEMMA LargestIsZero == read_varlong(2 ^ Bits - 1) = 0
<1> DEFINE m == 2 ^ Bits
           h == Half(Bits)
           y == Unsigned(Bits, (m - 1) + 1) \div 2
<1>1. m \in Nat \ {0} /\ h \in Nat \ {0} /\ m = 2 * h
  BY Powers
<1> HIDE DEF m, h
<1>2. (m - 1) % 2 = 1
  <2>1. m - 1 = 2 * (h - 1) + 1
    BY <1>1
  <2> QED BY <1>1, <2>1, Parity
<1>3. m % m = 0 /\ 0 % m = 0
  <2>1. 0 \in 0 .. m - 1 /\ m = m * 1 + 0
    BY <1>1
  <2>2. 0 % m = 0
    BY <1>1, <2>1, InRange
  <2>3. (m * 1 + 0) % m = 0
    BY <1>1, <2>1, Division
  <2> QED BY <2>1, <2>2, <2>3
<1>4. y = 0
  BY <1>1, <1>3 DEF Unsigned, m
<1>5. read_varlong(m - 1) = Signed(Bits, -y)
  BY <1>2 DEF read_varlong
<1> HIDE DEF y
<1>6. read_varlong(m - 1) = Signed(Bits, 0)
  BY <1>4, <1>5
<1> QED BY <1>1, <1>3, <1>6 DEF Signed, Unsigned, m

(* So the smallest VARLONG, which has that encoding, is lost               *)
(* (iwritable.cpp:44-46, ireadable.cpp:42-45).                             *)
THEOREM SmallestIsLost == read_varlong(ZigZag(Bits, -Half(Bits))) = 0
<1> DEFINE h == Half(Bits)
<1>1. h \in Nat \ {0} /\ 2 ^ Bits = 2 * h
  BY Powers
<1>2. ZigZag(Bits, -h) = 2 * (-(-h) - 1) + 1
  <2>1. -h \in Int /\ -h <= -h /\ -h < h /\ -h < 0
    BY <1>1
  <2> HIDE DEF h
  <2>2. Half(Bits) = h
    BY DEF h
  <2> QED BY <1>1, <2>1, <2>2, ZigZagIs
<1> HIDE DEF h
<1>3. ZigZag(Bits, -h) = 2 ^ Bits - 1
  BY <1>1, <1>2
<1> QED BY <1>3, LargestIsZero DEF h

(* For a VARINT they do without exception: its reader computes in the      *)
(* width of a VARLONG (iwritable.cpp:36-38, ireadable.cpp:34-36).          *)
THEOREM ZigZagOfVarint ==
  ASSUME NEW x \in Values(HalfBits)
  PROVE  read_varint(ZigZag(HalfBits, x)) = x
<1>1. x \in Int /\ -Half(HalfBits) <= x /\ x < Half(HalfBits)
  BY Powers DEF Values, Half
<1>2. ZigZag(HalfBits, x) = IF x < 0 THEN 2 * (-x - 1) + 1 ELSE 2 * x
  BY <1>1, ZigZagIs, Powers
<1>3. -Half(Bits) < x /\ x < Half(Bits)
  BY <1>1, Powers
<1>4. read_varlong(ZigZag(HalfBits, x)) = x
  BY <1>1, <1>2, <1>3, ReadUndoes
<1>5. Signed(HalfBits, x) = x
  BY <1>1, SignedIs, Powers
<1> QED BY <1>4, <1>5 DEF read_varint

-----------------------------------------------------------------------------
(* The other way round: what was read is written as it was.                *)

(* Every encoding is that of a value of its width.                         *)
LEMMA EveryEncoding ==
  ASSUME NEW h \in Nat \ {0}, NEW u \in 0 .. 2 * h - 1
  PROVE  \E x \in Int : /\ -h <= x /\ x < h
                        /\ u = IF x < 0 THEN 2 * (-x - 1) + 1 ELSE 2 * x
<1>1. PICK q \in Nat : u = 2 * q \/ u = 2 * q + 1
  <2>1. u \div 2 \in Nat /\ (u = 2 * (u \div 2) \/ u = 2 * (u \div 2) + 1)
    OBVIOUS
  <2> QED BY <2>1
<1>2. CASE u = 2 * q
  BY <1>1, <1>2
<1>3. CASE u = 2 * q + 1
  <2> DEFINE x == -q - 1
  <2>1. x \in Int /\ -h <= x /\ x < 0 /\ x < h
    BY <1>1, <1>3
  <2>2. u = 2 * (-x - 1) + 1
    BY <1>1, <1>3
  <2> HIDE DEF x
  <2> QED BY <2>1, <2>2
<1> QED BY <1>1, <1>2, <1>3

(* A VARLONG that was read is written in the encoding it was read from,    *)
(* but for the largest, that of the smallest value (ireadable.cpp:42-45,   *)
(* iwritable.cpp:44-46).                                                   *)
THEOREM VarlongWrittenBack ==
  ASSUME NEW u \in Encodings(Bits), u # 2 ^ Bits - 1
  PROVE  read_varlong(u) \in Int /\ ZigZag(Bits, read_varlong(u)) = u
<1> DEFINE h == Half(Bits)
<1>1. h \in Nat \ {0} /\ 2 ^ Bits = 2 * h
  BY Powers
<1>2. u \in 0 .. 2 * h - 1 /\ u # 2 * h - 1
  BY <1>1 DEF Encodings
<1> HIDE DEF h
<1>3. PICK x \in Int : -h <= x /\ x < h /\ u = IF x < 0 THEN 2 * (-x - 1) + 1 ELSE 2 * x
  BY <1>1, <1>2, EveryEncoding
<1>4. -h < x
  BY <1>1, <1>2, <1>3
<1>5. read_varlong(u) = x
  BY <1>3, <1>4, ReadUndoes DEF h
<1>6. ZigZag(Bits, x) = IF x < 0 THEN 2 * (-x - 1) + 1 ELSE 2 * x
  BY <1>1, <1>3, ZigZagIs DEF h
<1> QED BY <1>3, <1>5, <1>6

(* A VARINT always is (ireadable.cpp:34-36, iwritable.cpp:36-38).          *)
THEOREM VarintWrittenBack ==
  ASSUME NEW u \in Encodings(HalfBits)
  PROVE  read_varint(u) \in Int /\ ZigZag(HalfBits, read_varint(u)) = u
<1> DEFINE h == Half(HalfBits)
<1>1. h \in Nat \ {0} /\ 2 ^ HalfBits = 2 * h /\ 2 * h <= Half(Bits) /\ Half(Bits) \in Nat
  BY Powers
<1>2. u \in 0 .. 2 * h - 1
  BY <1>1 DEF Encodings
<1> HIDE DEF h
<1>3. PICK x \in Int : -h <= x /\ x < h /\ u = IF x < 0 THEN 2 * (-x - 1) + 1 ELSE 2 * x
  BY <1>1, <1>2, EveryEncoding
<1>4. -Half(Bits) < x /\ x < Half(Bits)
  BY <1>1, <1>3
<1>5. read_varlong(u) = x
  BY <1>3, <1>4, ReadUndoes
<1>6. Signed(HalfBits, x) = x
  BY <1>1, <1>3, SignedIs DEF h
<1>7. ZigZag(HalfBits, x) = IF x < 0 THEN 2 * (-x - 1) + 1 ELSE 2 * x
  BY <1>1, <1>3, ZigZagIs DEF h
<1> QED BY <1>3, <1>5, <1>6, <1>7 DEF read_varint

(* What is read as 0 is written as 0.                                      *)
LEMMA ZeroWritten == ZigZag(Bits, 0) = 0
<1> DEFINE h == Half(Bits)
<1>1. h \in Nat \ {0} /\ 2 ^ Bits = 2 * h /\ -h <= 0 /\ 0 < h
  BY Powers
<1>2. ZigZag(Bits, 0) = IF 0 < 0 THEN 2 * (-0 - 1) + 1 ELSE 2 * 0
  <2> HIDE DEF h
  <2>1. Half(Bits) = h
    BY DEF h
  <2> QED BY <1>1, <2>1, ZigZagIs
<1> QED BY <1>2
=============================================================================
