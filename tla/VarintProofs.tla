---------------------------- MODULE VarintProofs ----------------------------
(***************************************************************************)
(* Varint for any widths: what is read is what was written, but for the    *)
(* smallest VARLONG, and no shift on the way is undefined.  IInv says of   *)
(* the loops that what is left of the zigzagged value and what has been    *)
(* read of it are its quotient and its remainder by the same power of two. *)
(***************************************************************************)
EXTENDS Varint, VarintCodecProofs

-----------------------------------------------------------------------------
(* Digits.                                                                 *)

(* One more digit of base b above a.                                       *)
LEMMA OneMoreDigit ==
  ASSUME NEW a \in Nat \ {0}, NEW b \in Nat \ {0}, NEW x \in Nat
  PROVE  /\ (x \div a) \div b = x \div (a * b)
         /\ x % (a * b) = (x % a) + ((x \div a) % b) * a
<1> DEFINE q == x \div a
           r == x % a
           t == q \div b
           d == q % b
<1>1. q \in Nat /\ r \in 0 .. a - 1 /\ x = a * q + r
  BY Parts
<1> HIDE DEF q, r
<1>2. t \in Nat /\ d \in 0 .. b - 1 /\ q = b * t + d
  BY <1>1, Parts
<1> HIDE DEF t, d
<1>3. x = (a * b) * t + (r + d * a)
  <2>1. a * (b * t + d) = (a * b) * t + d * a
    BY <1>1, <1>2
  <2> QED BY <2>1, <1>1, <1>2
<1>4. r + d * a \in 0 .. a * b - 1
  <2>1. d * a <= (b - 1) * a
    BY <1>1, <1>2
  <2>2. (b - 1) * a = a * b - a
    OBVIOUS
  <2>3. d * a \in Nat
    BY <1>1, <1>2
  <2> QED BY <2>1, <2>2, <2>3, <1>1, <1>2
<1>5. a * b \in Nat \ {0}
  OBVIOUS
<1>6. x \div (a * b) = t /\ x % (a * b) = r + d * a
  <2> DEFINE m == a * b
             s == r + d * a
  <2>1. m \in Nat \ {0} /\ s \in 0 .. m - 1 /\ x = m * t + s /\ t \in Int
    BY <1>2, <1>3, <1>4, <1>5
  <2> HIDE DEF m, s
  <2>2. x \div m = t /\ x % m = s
    BY <2>1, Division
  <2> QED BY <2>2 DEF m, s
<1> QED BY <1>6 DEF q, r, t, d

(* Of a number below a * b nothing is left above one digit of base b.      *)
LEMMA TopDigit ==
  ASSUME NEW a \in Nat \ {0}, NEW b \in Nat \ {0}, NEW x \in Nat, x < a * b
  PROVE  x \div a < b
<1>1. x \div a \in Nat /\ x % a \in 0 .. a - 1 /\ x = a * (x \div a) + (x % a)
  BY Parts
<1>2. ASSUME NEW q \in Nat, q >= b PROVE a * q >= a * b
  BY <1>2
<1> QED BY <1>1, <1>2

LEMMA NothingAbove ==
  ASSUME NEW b \in Nat \ {0}, NEW x \in Nat
  PROVE  (x \div b > 0) <=> (x >= b)
OBVIOUS

-----------------------------------------------------------------------------
(* The invariant of the loops.                                             *)

Zigzagged  == ZigZag(Width(kind), value)
Above(e)   == Zigzagged \div 2 ^ e
DigitAt(e) == Above(e) % 2 ^ Group

Typed ==
  /\ kind \in {"VARINT", "VARLONG"}
  /\ value \in Values(Width(kind))
  /\ pc \in {"write", "read", "done"}
  /\ i \in Nat
  /\ bytes \in Seq([digit : Nat, more : BOOLEAN])

(* The digits written are those of the value, and n is what is above them. *)
Writing ==
  pc = "write" =>
    /\ i = 0
    /\ Group * Len(bytes) < Bits
    /\ n = Above(Group * Len(bytes))
    /\ \A j \in 1..Len(bytes) :
         bytes[j] = [digit |-> DigitAt(Group * (j - 1)), more |-> TRUE]

(* The digits left are those from i upwards, n is what is below them, and  *)
(* there is nothing above the last.                                        *)
Reading ==
  pc = "read" =>
    /\ bytes # <<>>
    /\ i + Group * (Len(bytes) - 1) < Bits
    /\ n = Zigzagged % 2 ^ i
    /\ \A j \in 1..Len(bytes) :
         bytes[j] = [digit |-> DigitAt(i + Group * (j - 1)), more |-> j < Len(bytes)]
    /\ Above(i + Group * (Len(bytes) - 1)) < 2 ^ Group

Complete == pc = "done" => n = Zigzagged /\ bytes = <<>>

IInv == Typed /\ Writing /\ Reading /\ Complete

(* What is written fits the wider of the two types.                        *)
LEMMA ZigzaggedFits ==
  ASSUME Typed
  PROVE  Zigzagged \in Nat /\ Zigzagged < 2 ^ Bits
<1> DEFINE w == Width(kind)
<1>1. w \in {HalfBits, Bits}
  BY DEF Typed, Width
<1>2. Half(w) \in Nat \ {0} /\ 2 ^ w = 2 * Half(w)
  BY <1>1, Powers
<1>3. value \in Int /\ -Half(w) <= value /\ value < Half(w)
  BY <1>2 DEF Typed, Values, Half
<1>4. Zigzagged = IF value < 0 THEN 2 * (-value - 1) + 1 ELSE 2 * value
  BY <1>2, <1>3, ZigZagIs DEF Zigzagged
<1>5. 2 ^ w \in Nat /\ 2 ^ Bits \in Nat /\ 2 ^ w <= 2 ^ Bits
  BY <1>1, <1>2, Powers
<1> HIDE DEF w
<1> QED BY <1>2, <1>3, <1>4, <1>5

LEMMA Positive == Group \in Nat \ {0} /\ 2 ^ Group \in Nat \ {0} /\ Bits \in Nat \ {0}
<1>1. Group \in 0..Bits
  BY WidthAssumption, GroupAssumption
<1> QED BY <1>1, PowerPositive, WidthAssumption, GroupAssumption

(* The next quotient and, with the digit between, the next remainder.      *)
LEMMA OneDigitUp ==
  ASSUME Typed, NEW e \in Nat, e + Group <= Bits
  PROVE  /\ Above(e) \div 2 ^ Group = Above(e + Group)
         /\ Zigzagged % 2 ^ (e + Group) = (Zigzagged % 2 ^ e) + DigitAt(e) * 2 ^ e
<1>1. e \in 0..Bits /\ Group \in 0..Bits
  BY Positive
<1>2. 2 ^ e \in Nat \ {0} /\ 2 ^ Group \in Nat \ {0} /\ 2 ^ (e + Group) = 2 ^ e * 2 ^ Group
  BY <1>1, PowerOfSum, PowerPositive
<1> DEFINE a == 2 ^ e
           b == 2 ^ Group
           x == Zigzagged
<1>3. a \in Nat \ {0} /\ b \in Nat \ {0} /\ x \in Nat
  BY <1>2, ZigzaggedFits
<1> HIDE DEF a, b, x
<1>4. (x \div a) \div b = x \div (a * b) /\ x % (a * b) = (x % a) + ((x \div a) % b) * a
  BY <1>3, OneMoreDigit
<1> QED BY <1>2, <1>4 DEF a, b, x, Above, DigitAt

(* While something is left above a digit, the next one is within Bits.     *)
LEMMA MoreIsWithin ==
  ASSUME Typed, NEW e \in Nat, e < Bits, Above(e) >= 2 ^ Group
  PROVE  e + Group < Bits
<1> SUFFICES ASSUME e + Group >= Bits PROVE FALSE
  BY Positive
<1> DEFINE d == Bits - e
<1>1. d \in 0..Bits /\ e \in 0..Bits /\ e + d = Bits /\ d <= Group
  BY Positive
<1>2. 2 ^ d \in Nat \ {0} /\ 2 ^ e \in Nat \ {0} /\ 2 ^ Bits = 2 ^ e * 2 ^ d
  BY <1>1, PowerPositive, PowerOfSum
<1>3. 2 ^ d <= 2 ^ Group
  <2> DEFINE f == Group - d
  <2>1. f \in 0..Bits /\ f + d <= Bits /\ f + d = Group
    BY <1>1, GroupAssumption
  <2>2. 2 ^ f \in Nat \ {0} /\ 2 ^ Group = 2 ^ f * 2 ^ d
    BY <1>1, <2>1, PowerPositive, PowerOfSum
  <2>3. ASSUME NEW x \in Nat \ {0}, NEW y \in Nat \ {0} PROVE y <= x * y
    OBVIOUS
  <2> QED BY <2>2, <2>3, <1>2
<1>4. Above(e) < 2 ^ d
  <2>1. Zigzagged \in Nat /\ Zigzagged < 2 ^ e * 2 ^ d
    BY <1>2, ZigzaggedFits
  <2> QED BY <1>2, <2>1, TopDigit DEF Above
<1>5. Above(e) \in Int
  BY <1>2, ZigzaggedFits DEF Above
<1> QED BY <1>2, <1>3, <1>4, <1>5, Positive

-----------------------------------------------------------------------------
(* Each step preserves the invariant.                                      *)

LEMMA InitInv == Init => IInv
<1> SUFFICES ASSUME Init PROVE IInv
  OBVIOUS
<1> USE DEF Init
<1>1. Typed
  BY DEF Typed
<1>2. Zigzagged \in Nat /\ n = Zigzagged
  BY <1>1, ZigzaggedFits DEF Zigzagged
<1>3. Group * Len(bytes) = 0 /\ 0 < Bits
  BY Positive
<1>4. Above(0) = Zigzagged
  BY <1>2, PowerAssumption DEF Above
<1> QED BY <1>1, <1>2, <1>3, <1>4 DEF IInv, Writing, Reading, Complete

LEMMA WriteDigitInv == IInv /\ WriteDigit => IInv'
<1> SUFFICES ASSUME IInv, WriteDigit PROVE IInv'
  OBVIOUS
<1> DEFINE c    == Len(bytes)
           e    == Group * c
           rest == n \div 2 ^ Group
           byte == [digit |-> n % 2 ^ Group, more |-> rest > 0]
<1>1. /\ pc = "write" /\ i = 0 /\ e < Bits /\ n = Above(e) /\ Typed
      /\ \A j \in 1..c : bytes[j] = [digit |-> DigitAt(Group * (j - 1)), more |-> TRUE]
  BY DEF IInv, Writing, WriteDigit
<1>2. c \in Nat /\ e \in Nat /\ Group * (c + 1) = e + Group
  BY <1>1, Positive DEF Typed
<1>3. Zigzagged' = Zigzagged
  BY DEF WriteDigit, Zigzagged, Width, ZigZag, Unsigned
<1>4. n \in Nat /\ rest \in Nat /\ n % 2 ^ Group = DigitAt(e) /\ DigitAt(e) \in Nat
  <2>1. e \in 0..Bits
    BY <1>1, <1>2, Positive
  <2>2. n \in Nat
    BY <1>1, <2>1, ZigzaggedFits, PowerPositive, Parts DEF Above
  <2>3. rest \in Nat /\ n % 2 ^ Group \in Nat
    BY <2>2, Positive, Parts
  <2>4. n % 2 ^ Group = DigitAt(e)
    BY <1>1 DEF DigitAt
  <2> QED BY <2>2, <2>3, <2>4
<1>5. /\ bytes' \in Seq([digit : Nat, more : BOOLEAN]) /\ Len(bytes') = c + 1
      /\ bytes'[c + 1] = [digit |-> DigitAt(e), more |-> rest > 0]
      /\ \A j \in 1..c : bytes'[j] = bytes[j]
  <2>1. bytes' = Append(bytes, byte)
    BY DEF WriteDigit
  <2>2. byte \in [digit : Nat, more : BOOLEAN]
    BY <1>4
  <2>3. byte = [digit |-> DigitAt(e), more |-> rest > 0]
    BY <1>4
  <2> HIDE DEF byte
  <2> QED BY <1>1, <1>2, <2>1, <2>2, <2>3 DEF Typed
<1>6. ~(rest > 0) => Above(e) < 2 ^ Group
  BY <1>1, <1>4, NothingAbove, Positive
<1>7. rest > 0 => e + Group < Bits /\ rest = Above(e + Group)
  <2> SUFFICES ASSUME rest > 0 PROVE e + Group < Bits /\ rest = Above(e + Group)
    OBVIOUS
  <2>1. Above(e) >= 2 ^ Group
    BY <1>1, <1>4, NothingAbove, Positive
  <2> HIDE DEF e
  <2>2. e + Group < Bits
    BY <1>1, <1>2, <2>1, MoreIsWithin
  <2>3. Above(e) \div 2 ^ Group = Above(e + Group)
    BY <1>1, <1>2, <2>2, OneDigitUp, Positive
  <2> QED BY <1>1, <2>2, <2>3
<1> HIDE DEF byte
<1>8. CASE rest > 0
  <2>1. n' = rest /\ pc' = "write" /\ i' = 0
    BY <1>1, <1>8 DEF WriteDigit
  <2>2. Group * Len(bytes') < Bits
    BY <1>2, <1>5, <1>7, <1>8
  <2>3. n' = Above(Group * Len(bytes'))
    BY <1>2, <1>5, <1>7, <1>8, <2>1
  <2>4. \A j \in 1..Len(bytes') : bytes'[j] = [digit |-> DigitAt(Group * (j - 1)), more |-> TRUE]
    <3> SUFFICES ASSUME NEW j \in 1 .. c + 1
                 PROVE  bytes'[j] = [digit |-> DigitAt(Group * (j - 1)), more |-> TRUE]
      BY <1>5
    <3>1. CASE j \in 1..c
      BY <3>1, <1>1, <1>5
    <3>2. CASE j = c + 1
      <4>1. Group * (j - 1) = e /\ (rest > 0) = TRUE
        BY <3>2, <1>2, <1>8
      <4> QED BY <3>2, <4>1, <1>5
    <3> QED BY <3>1, <3>2, <1>2
  <2>5. Typed'
    BY <1>1, <1>5, <2>1 DEF Typed, WriteDigit, Width, Values
  <2>6. Writing'
    BY <1>2, <1>3, <1>5, <2>1, <2>2, <2>3, <2>4 DEF Writing, Above, DigitAt
  <2> QED BY <2>1, <2>5, <2>6 DEF IInv, Reading, Complete
<1>9. CASE ~(rest > 0)
  <2>1. n' = 0 /\ pc' = "read" /\ i' = 0
    BY <1>1, <1>9 DEF WriteDigit
  <2>2. \A j \in 1..Len(bytes') :
          bytes'[j] = [digit |-> DigitAt(0 + Group * (j - 1)), more |-> j < Len(bytes')]
    <3> SUFFICES ASSUME NEW j \in 1 .. c + 1
                 PROVE  bytes'[j] = [digit |-> DigitAt(Group * (j - 1)), more |-> j < c + 1]
      BY <1>5, Positive
    <3>1. CASE j \in 1..c
      <4>1. (j < c + 1) = TRUE
        BY <3>1, <1>2
      <4> QED BY <3>1, <4>1, <1>1, <1>5
    <3>2. CASE j = c + 1
      <4>1. Group * (j - 1) = e /\ (rest > 0) = FALSE /\ (j < c + 1) = FALSE
        BY <3>2, <1>2, <1>9
      <4> QED BY <3>2, <4>1, <1>5
    <3> QED BY <3>1, <3>2, <1>2
  <2>3. 0 + Group * (Len(bytes') - 1) = e
    BY <1>2, <1>5, Positive
  <2>4. Above(e) < 2 ^ Group
    BY <1>6, <1>9
  <2>5. 0 = Zigzagged % 2 ^ 0
    BY <1>1, ZigzaggedFits, PowerAssumption
  <2>6. bytes' # <<>>
    BY <1>2, <1>5
  <2>7. Typed'
    BY <1>1, <1>5, <2>1 DEF Typed, WriteDigit, Width, Values
  <2>8. Reading'
    BY <1>1, <1>3, <2>1, <2>2, <2>3, <2>4, <2>5, <2>6 DEF Reading, Above, DigitAt
  <2> QED BY <2>1, <2>7, <2>8 DEF IInv, Writing, Complete
<1> QED BY <1>8, <1>9

LEMMA ReadDigitInv == IInv /\ ReadDigit => IInv'
<1> SUFFICES ASSUME IInv, ReadDigit PROVE IInv'
  OBVIOUS
<1> DEFINE c == Len(bytes)
<1>1. /\ pc = "read" /\ Typed /\ bytes # <<>> /\ n = Zigzagged % 2 ^ i
      /\ i + Group * (c - 1) < Bits /\ Above(i + Group * (c - 1)) < 2 ^ Group
      /\ \A j \in 1..c : bytes[j] = [digit |-> DigitAt(i + Group * (j - 1)), more |-> j < c]
  BY DEF IInv, Reading, ReadDigit
<1>2. c \in Nat \ {0} /\ i \in Nat /\ Group * (c - 1) \in Nat /\ i \in 0..Bits
  <2>1. c \in Nat \ {0} /\ i \in Nat
    BY <1>1 DEF Typed
  <2>2. c - 1 \in Nat
    BY <2>1
  <2>3. Group * (c - 1) \in Nat
    BY <2>2, Positive
  <2> QED BY <1>1, <2>1, <2>3, Positive
<1>3. Zigzagged' = Zigzagged /\ Zigzagged \in Nat /\ Zigzagged < 2 ^ Bits
  BY <1>1, ZigzaggedFits DEF ReadDigit, Zigzagged, Width, ZigZag, Unsigned
<1>4. /\ bytes' \in Seq([digit : Nat, more : BOOLEAN]) /\ Len(bytes') = c - 1
      /\ \A j \in 1 .. c - 1 : bytes'[j] = bytes[j + 1]
  BY <1>1, <1>2 DEF ReadDigit, Typed
<1>5. Head(bytes).digit = DigitAt(i) /\ Head(bytes).more = (1 < c)
  <2>1. i + Group * (1 - 1) = i
    BY <1>2, Positive
  <2>2. bytes[1] = [digit |-> DigitAt(i + Group * (1 - 1)), more |-> 1 < c]
    BY <1>1, <1>2
  <2>3. Head(bytes) = bytes[1]
    BY <1>1 DEF Typed
  <2> QED BY <2>1, <2>2, <2>3
<1>6. n' = Unsigned(Bits, (Zigzagged % 2 ^ i) + DigitAt(i) * 2 ^ i)
  BY <1>1, <1>5 DEF ReadDigit
<1>7. 2 ^ i \in Nat \ {0} /\ 2 ^ Bits \in Nat \ {0}
  BY <1>2, PowerPositive, Positive
<1> HIDE DEF c
<1>8. CASE 1 < c
  <2>1. i + Group <= i + Group * (c - 1)
    <3>1. ASSUME NEW x \in Nat \ {0}, NEW y \in Nat \ {0} PROVE x <= x * y
      OBVIOUS
    <3>2. c - 1 \in Nat \ {0}
      BY <1>2, <1>8
    <3> QED BY <1>2, <3>1, <3>2, Positive
  <2>2. i + Group < Bits /\ i + Group \in Nat
    BY <1>1, <1>2, <2>1, Positive
  <2>3. i' = i + Group /\ pc' = "read"
    <3>1. i' = (i + Group) % 256 /\ pc' = "read"
      BY <1>5, <1>8 DEF ReadDigit
    <3>2. i + Group \in 0 .. 256 - 1
      BY <2>2, Positive, GroupAssumption
    <3> QED BY <3>1, <3>2, InRange
  <2>4. n' = Zigzagged % 2 ^ i'
    <3>1. Zigzagged % 2 ^ (i + Group) = (Zigzagged % 2 ^ i) + DigitAt(i) * 2 ^ i
      BY <1>1, <1>2, <2>2, OneDigitUp, Positive
    <3>2. Zigzagged % 2 ^ (i + Group) \in 0 .. 2 ^ Bits - 1
      <4>1. 2 ^ (i + Group) \in Nat \ {0}
        BY <2>2, PowerPositive, Positive
      <4>2. ASSUME NEW m \in Nat \ {0}, NEW x \in Nat PROVE x % m \in 0..x
        BY Parts
      <4>3. Zigzagged % 2 ^ (i + Group) \in 0..Zigzagged
        BY <1>3, <4>1, <4>2
      <4> QED BY <1>3, <1>7, <4>3
    <3> QED BY <1>6, <1>7, <2>3, <3>1, <3>2, InRange DEF Unsigned
  <2>5. i' + Group * (Len(bytes') - 1) = i + Group * (c - 1)
    <3>1. Group * (c - 1) = Group + Group * ((c - 1) - 1)
      BY <1>2, Positive
    <3> QED BY <1>2, <1>4, <2>3, <3>1, Positive
  <2>6. \A j \in 1..Len(bytes') :
          bytes'[j] = [digit |-> DigitAt(i' + Group * (j - 1)), more |-> j < Len(bytes')]
    <3> SUFFICES ASSUME NEW j \in 1 .. c - 1
                 PROVE  bytes'[j] = [digit |-> DigitAt(i' + Group * (j - 1)), more |-> j < c - 1]
      BY <1>4
    <3>1. j + 1 \in 1..c /\ (j + 1 < c) = (j < c - 1)
      BY <1>2
    <3>2. i + Group * ((j + 1) - 1) = i' + Group * (j - 1)
      <4>1. Group * ((j + 1) - 1) = Group + Group * (j - 1)
        BY Positive
      <4> QED BY <1>2, <2>3, <4>1, Positive
    <3>3. bytes[j + 1] = [digit |-> DigitAt(i + Group * ((j + 1) - 1)), more |-> j + 1 < c]
      BY <1>1, <3>1
    <3> QED BY <1>4, <3>1, <3>2, <3>3
  <2>7. bytes' # <<>>
    BY <1>2, <1>4, <1>8
  <2>8. Typed'
    BY <1>1, <1>4, <2>2, <2>3 DEF Typed, ReadDigit, Width, Values
  <2>9. Reading'
    BY <1>1, <1>3, <2>3, <2>4, <2>5, <2>6, <2>7 DEF Reading, Above, DigitAt
  <2> QED BY <2>3, <2>8, <2>9 DEF IInv, Writing, Complete
<1>9. CASE ~(1 < c)
  <2>1. c = 1 /\ i + Group * (c - 1) = i
    BY <1>2, <1>9, Positive
  <2>2. i' = i /\ pc' = "done" /\ bytes' = <<>>
    <3>1. bytes' = <<>>
      BY <1>4, <2>1
    <3> QED BY <1>5, <1>9, <3>1 DEF ReadDigit
  <2>3. n' = Zigzagged
    <3>1. /\ Above(i) \in Nat
          /\ Zigzagged = 2 ^ i * Above(i) + (Zigzagged % 2 ^ i)
          /\ Zigzagged % 2 ^ i \in Nat
      <4> DEFINE a == 2 ^ i
                 x == Zigzagged
      <4>1. a \in Nat \ {0} /\ x \in Nat
        BY <1>3, <1>7
      <4> HIDE DEF a, x
      <4>2. x \div a \in Nat /\ x % a \in 0 .. a - 1 /\ x = a * (x \div a) + (x % a)
        BY <4>1, Parts
      <4>3. x % a \in Nat
        BY <4>1, <4>2
      <4> QED BY <4>2, <4>3 DEF a, x, Above
    <3>2. DigitAt(i) = Above(i)
      <4>1. Above(i) \in 0 .. 2 ^ Group - 1
        BY <1>1, <2>1, <3>1, Positive
      <4> QED BY <4>1, InRange, Positive DEF DigitAt
    <3>3. (Zigzagged % 2 ^ i) + DigitAt(i) * 2 ^ i = Zigzagged
      BY <1>7, <3>1, <3>2
    <3> QED BY <1>3, <1>6, <1>7, <3>3, InRange DEF Unsigned
  <2>4. Typed'
    BY <1>1, <1>4, <2>2 DEF Typed, ReadDigit, Width, Values
  <2> QED BY <1>3, <2>2, <2>3, <2>4 DEF IInv, Writing, Reading, Complete
<1> QED BY <1>8, <1>9

THEOREM Inductive == Spec => []IInv
<1>1. IInv /\ [Next]_vars => IInv'
  <2>1. IInv /\ UNCHANGED vars => IInv'
    BY DEF vars, IInv, Typed, Writing, Reading, Complete, Above, DigitAt, Zigzagged,
           Width, ZigZag, Unsigned, Values
  <2> QED BY <2>1, WriteDigitInv, ReadDigitInv DEF Next
<1> QED BY <1>1, InitInv, PTL DEF Spec

-----------------------------------------------------------------------------
(* No shift reaches the width of n, and no byte is asked for that was not  *)
(* written (ireadable.cpp:47-56).                                          *)
THEOREM ShiftsDefined == Spec => []ShiftDefined
<1>1. IInv => ShiftDefined
  <2> SUFFICES ASSUME IInv, pc = "read" PROVE i < Bits /\ bytes # <<>>
    BY DEF ShiftDefined
  <2>1. i \in Nat /\ Len(bytes) - 1 \in Nat /\ bytes # <<>>
    BY DEF IInv, Typed, Reading
  <2>2. Group * (Len(bytes) - 1) \in Nat
    BY <2>1, Positive
  <2> QED BY <2>1, <2>2, Positive DEF IInv, Reading
<1> QED BY <1>1, Inductive, PTL

(* A VARINT read is the VARINT written (ireadable.cpp:34-56,               *)
(* iwritable.cpp:36-56).                                                   *)
THEOREM VarintsComeBack == Spec => []VarintComesBack
<1>1. IInv => VarintComesBack
  BY ZigZagOfVarint DEF IInv, Typed, Complete, VarintComesBack, Decoded, Zigzagged, Width
<1> QED BY <1>1, Inductive, PTL

(* A VARLONG read is the VARLONG written, unless it is the smallest        *)
(* (ireadable.cpp:42-56, iwritable.cpp:44-56).                             *)
THEOREM VarlongsComeBack == Spec => []VarlongComesBackUnlessSmallest
<1>1. IInv => VarlongComesBackUnlessSmallest
  BY ZigZagOfVarlong
     DEF IInv, Typed, Complete, VarlongComesBackUnlessSmallest, Decoded, Zigzagged, Width, Half
<1> QED BY <1>1, Inductive, PTL
=============================================================================
