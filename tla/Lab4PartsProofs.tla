-------------------------- MODULE Lab4PartsProofs --------------------------
(***************************************************************************)
(* The parts the handlers are built on, proved one by one: the bytes of    *)
(* the bitmaps, the sizes and addresses of a device, and the walk along a  *)
(* path.                                                                   *)
(*                                                                         *)
(* Bitmaps: for every size of the bitmap and of the reserved part, the bit *)
(* arithmetic of bmap_raw.c does to the set of bits what the other modules *)
(* take it to do, and the scan loop of bmap.c is the closed form Scan of   *)
(* Lab4Bmap.  A byte is the sum of its eight digits (FromDigits); an       *)
(* allocation adds the weight of a digit that is 0 and a release subtracts *)
(* that of one that is 1.  The loop is a recursive function: Outcome is    *)
(* its closed form, OutcomeTurn one turn of it.                            *)
(*                                                                         *)
(* Sizes: integer division and remainder, for every word, unit and device  *)
(* (GeometryAssumption, ReservedAssumption).                               *)
(*                                                                         *)
(* Paths: a walk that is alone follows the trail of inodes that its path   *)
(* names, whatever is left in the static pointer of strtok.                *)
(***************************************************************************)
EXTENDS Lab4BmapRaw, Lab4Geometry, Lab4Paths, Lab4Lemmas

-----------------------------------------------------------------------------
(* One byte.                                                               *)

BitOf(b, i) == (b \div 2^i) % 2

FromDigits(f) == f[0] + 2 * f[1] + 4 * f[2] + 8 * f[3] + 16 * f[4] + 32 * f[5]
                   + 64 * f[6] + 128 * f[7]

LEMMA Powers == /\ 2^0 = 1 /\ 2^1 = 2 /\ 2^2 = 4 /\ 2^3 = 8
                /\ 2^4 = 16 /\ 2^5 = 32 /\ 2^6 = 64 /\ 2^7 = 128
  OBVIOUS

\* A byte by its digits.
LEMMA Digits ==
    ASSUME NEW b \in Byte
    PROVE  \E f \in [0..7 -> {0, 1}] :
              b = FromDigits(f)
<1>1. PICK f : f = [i \in 0..7 |-> CASE i = 0 -> b % 2
                                      [] i = 1 -> (b \div 2) % 2
                                      [] i = 2 -> (b \div 4) % 2
                                      [] i = 3 -> (b \div 8) % 2
                                      [] i = 4 -> (b \div 16) % 2
                                      [] i = 5 -> (b \div 32) % 2
                                      [] i = 6 -> (b \div 64) % 2
                                      [] i = 7 -> (b \div 128) % 2]
  OBVIOUS
<1>2. /\ f[0] = b % 2 /\ f[1] = (b \div 2) % 2 /\ f[2] = (b \div 4) % 2
      /\ f[3] = (b \div 8) % 2 /\ f[4] = (b \div 16) % 2 /\ f[5] = (b \div 32) % 2
      /\ f[6] = (b \div 64) % 2 /\ f[7] = (b \div 128) % 2
  BY <1>1
<1>3. b \in Int /\ 0 <= b /\ b <= 255
  BY DEF Byte
<1>4. b = (b % 2) + 2 * ((b \div 2) % 2) + 4 * ((b \div 4) % 2) + 8 * ((b \div 8) % 2)
            + 16 * ((b \div 16) % 2) + 32 * ((b \div 32) % 2)
            + 64 * ((b \div 64) % 2) + 128 * ((b \div 128) % 2)
  BY <1>3
<1>5. f \in [0..7 -> {0, 1}]
  <2>1. \A x \in Int : x % 2 \in {0, 1}
    OBVIOUS
  <2>2. /\ f[0] \in {0, 1} /\ f[1] \in {0, 1} /\ f[2] \in {0, 1} /\ f[3] \in {0, 1}
        /\ f[4] \in {0, 1} /\ f[5] \in {0, 1} /\ f[6] \in {0, 1} /\ f[7] \in {0, 1}
    BY <1>2, <1>3, <2>1
  <2> QED
    BY <1>1, <2>2
<1> QED
  BY <1>2, <1>4, <1>5 DEF FromDigits

LEMMA LastDigit ==
    ASSUME NEW d \in {0, 1}, NEW r \in Int
    PROVE  (d + 2 * r) % 2 = d /\ (d + 2 * r) \div 2 = r
  OBVIOUS

LEMMA DigitOf ==
    ASSUME NEW f \in [0..7 -> {0, 1}], NEW b,
           b = FromDigits(f)
    PROVE  b \in Byte /\ \A i \in 0..7 : BitOf(b, i) = f[i]
<1>1. /\ f[0] \in {0, 1} /\ f[1] \in {0, 1} /\ f[2] \in {0, 1} /\ f[3] \in {0, 1}
      /\ f[4] \in {0, 1} /\ f[5] \in {0, 1} /\ f[6] \in {0, 1} /\ f[7] \in {0, 1}
  OBVIOUS
<1>2. PICK d0, d1, d2, d3, d4, d5, d6, d7 \in {0, 1} :
         /\ d0 = f[0] /\ d1 = f[1] /\ d2 = f[2] /\ d3 = f[3]
         /\ d4 = f[4] /\ d5 = f[5] /\ d6 = f[6] /\ d7 = f[7]
  BY <1>1
<1>3. b = d0 + 2 * d1 + 4 * d2 + 8 * d3 + 16 * d4 + 32 * d5 + 64 * d6 + 128 * d7
  BY <1>2 DEF FromDigits
<1>4. b \in Byte
  BY <1>3 DEF Byte
<1>5. b \div 1 = b /\ b % 2 = d0
  BY <1>3
<1>6. /\ b \div 2 = d1 + 2 * d2 + 4 * d3 + 8 * d4 + 16 * d5 + 32 * d6 + 64 * d7
      /\ (b \div 2) % 2 = d1
  <2>1. b \div 2 = d1 + 2 * d2 + 4 * d3 + 8 * d4 + 16 * d5 + 32 * d6 + 64 * d7
    BY <1>3
  <2> QED
    BY <2>1
<1>7. (b \div 4) % 2 = d2
  <2>1. b \div 4 = d2 + 2 * d3 + 4 * d4 + 8 * d5 + 16 * d6 + 32 * d7
    BY <1>3
  <2>2. PICK r \in Int : r = d3 + 2 * d4 + 4 * d5 + 8 * d6 + 16 * d7
    OBVIOUS
  <2>3. b \div 4 = d2 + 2 * r
    BY <2>1, <2>2
  <2> QED
    BY <2>2, <2>3, LastDigit
<1>8. (b \div 8) % 2 = d3
  <2>1. b \div 8 = d3 + 2 * d4 + 4 * d5 + 8 * d6 + 16 * d7
    BY <1>3
  <2> QED
    BY <2>1
<1>9. (b \div 16) % 2 = d4
  <2>1. b \div 16 = d4 + 2 * d5 + 4 * d6 + 8 * d7
    BY <1>3
  <2>2. PICK r \in Int : r = d5 + 2 * d6 + 4 * d7
    OBVIOUS
  <2>3. b \div 16 = d4 + 2 * r
    BY <2>1, <2>2
  <2> QED
    BY <2>2, <2>3, LastDigit
<1>10. (b \div 32) % 2 = d5
  <2>1. b \div 32 = d5 + 2 * d6 + 4 * d7
    BY <1>3
  <2> QED
    BY <2>1
<1>11. (b \div 64) % 2 = d6
  <2>1. b \div 64 = d6 + 2 * d7
    BY <1>3
  <2>2. PICK r \in Int : r = d7
    OBVIOUS
  <2>3. b \div 64 = d6 + 2 * r
    BY <2>1, <2>2
  <2> QED
    BY <2>2, <2>3, LastDigit
<1>12. (b \div 128) % 2 = d7
  <2>1. b \div 128 = d7
    BY <1>3
  <2> QED
    BY <2>1
<1>13. ASSUME NEW i \in 0..7 PROVE BitOf(b, i) = f[i]
  <2>1. i \in {0, 1, 2, 3, 4, 5, 6, 7}
    OBVIOUS
  <2>2. /\ BitOf(b, 0) = f[0] /\ BitOf(b, 1) = f[1] /\ BitOf(b, 2) = f[2] /\ BitOf(b, 3) = f[3]
        /\ BitOf(b, 4) = f[4] /\ BitOf(b, 5) = f[5] /\ BitOf(b, 6) = f[6] /\ BitOf(b, 7) = f[7]
    BY <1>2, <1>5, <1>6, <1>7, <1>8, <1>9, <1>10, <1>11, <1>12, Powers DEF BitOf
  <2> QED
    BY <2>1, <2>2
<1> QED
  BY <1>4, <1>13

\* Changing one digit changes the byte by its weight and no other bit.
LEMMA SetDigit ==
    ASSUME NEW b \in Byte, NEW j \in 0..7, BitOf(b, j) = 0
    PROVE  /\ b + 2^j \in Byte
           /\ \A i \in 0..7 : BitOf(b + 2^j, i) = IF i = j THEN 1 ELSE BitOf(b, i)
<1>1. PICK f \in [0..7 -> {0, 1}] : b = FromDigits(f)
  BY Digits
<1>2. \A i \in 0..7 : BitOf(b, i) = f[i]
  BY <1>1, DigitOf
<1>3. PICK g \in [0..7 -> {0, 1}] : g = [f EXCEPT ![j] = 1]
  OBVIOUS
<1>4. f[j] = 0 /\ \A i \in 0..7 : g[i] = IF i = j THEN 1 ELSE f[i]
  BY <1>2, <1>3
<1>5. b + 2^j = FromDigits(g)
  <2>1. j \in {0, 1, 2, 3, 4, 5, 6, 7}
    OBVIOUS
  <2>2. FromDigits(f) \in Int /\ \A i \in 0..7 : f[i] \in Int
    <3>1. \A i \in 0..7 : f[i] \in Int
      OBVIOUS
    <3>2. FromDigits(f) \in Int
      BY <3>1 DEF FromDigits
    <3> QED
      BY <3>1, <3>2
  <2>3. CASE j = 0
    BY <2>3, <2>2, <1>1, <1>4, Powers DEF FromDigits
  <2>4. CASE j = 1
    BY <2>4, <2>2, <1>1, <1>4, Powers DEF FromDigits
  <2>5. CASE j = 2
    BY <2>5, <2>2, <1>1, <1>4, Powers DEF FromDigits
  <2>6. CASE j = 3
    BY <2>6, <2>2, <1>1, <1>4, Powers DEF FromDigits
  <2>7. CASE j = 4
    BY <2>7, <2>2, <1>1, <1>4, Powers DEF FromDigits
  <2>8. CASE j = 5
    BY <2>8, <2>2, <1>1, <1>4, Powers DEF FromDigits
  <2>9. CASE j = 6
    BY <2>9, <2>2, <1>1, <1>4, Powers DEF FromDigits
  <2>10. CASE j = 7
    BY <2>10, <2>2, <1>1, <1>4, Powers DEF FromDigits
  <2> QED
    BY <2>1, <2>3, <2>4, <2>5, <2>6, <2>7, <2>8, <2>9, <2>10
<1>6. b + 2^j \in Byte /\ \A i \in 0..7 : BitOf(b + 2^j, i) = g[i]
  BY <1>5, DigitOf
<1> QED
  BY <1>2, <1>4, <1>6

LEMMA ClearDigit ==
    ASSUME NEW b \in Byte, NEW j \in 0..7, BitOf(b, j) = 1
    PROVE  /\ b - 2^j \in Byte
           /\ \A i \in 0..7 : BitOf(b - 2^j, i) = IF i = j THEN 0 ELSE BitOf(b, i)
<1>1. PICK f \in [0..7 -> {0, 1}] : b = FromDigits(f)
  BY Digits
<1>2. \A i \in 0..7 : BitOf(b, i) = f[i]
  BY <1>1, DigitOf
<1>3. PICK g \in [0..7 -> {0, 1}] : g = [f EXCEPT ![j] = 0]
  OBVIOUS
<1>4. f[j] = 1 /\ \A i \in 0..7 : g[i] = IF i = j THEN 0 ELSE f[i]
  BY <1>2, <1>3
<1>5. \A i \in 0..7 : BitOf(FromDigits(g), i) = g[i]
  BY DigitOf
<1>6. FromDigits(g) \in Byte
  BY DigitOf
<1>7. BitOf(FromDigits(g), j) = 0
  BY <1>4, <1>5
<1>8. FromDigits(g) + 2^j = b
  <2>1. PICK h \in [0..7 -> {0, 1}] : h = [g EXCEPT ![j] = 1]
    OBVIOUS
  <2>2. h = f
    BY <1>3, <1>4, <2>1
  <2>3. j \in {0, 1, 2, 3, 4, 5, 6, 7}
    OBVIOUS
  <2>4. FromDigits(f) \in Int /\ \A i \in 0..7 : f[i] \in Int
    <3>1. \A i \in 0..7 : f[i] \in Int
      OBVIOUS
    <3>2. FromDigits(f) \in Int
      BY <3>1 DEF FromDigits
    <3> QED
      BY <3>1, <3>2
  <2>5. CASE j = 0
    BY <2>5, <2>4, <1>1, <1>4, Powers DEF FromDigits
  <2>6. CASE j = 1
    BY <2>6, <2>4, <1>1, <1>4, Powers DEF FromDigits
  <2>7. CASE j = 2
    BY <2>7, <2>4, <1>1, <1>4, Powers DEF FromDigits
  <2>8. CASE j = 3
    BY <2>8, <2>4, <1>1, <1>4, Powers DEF FromDigits
  <2>9. CASE j = 4
    BY <2>9, <2>4, <1>1, <1>4, Powers DEF FromDigits
  <2>10. CASE j = 5
    BY <2>10, <2>4, <1>1, <1>4, Powers DEF FromDigits
  <2>11. CASE j = 6
    BY <2>11, <2>4, <1>1, <1>4, Powers DEF FromDigits
  <2>12. CASE j = 7
    BY <2>12, <2>4, <1>1, <1>4, Powers DEF FromDigits
  <2> QED
    BY <2>3, <2>5, <2>6, <2>7, <2>8, <2>9, <2>10, <2>11, <2>12
<1>9. 2^j \in Int /\ b - 2^j = FromDigits(g)
  <2>1. 2^j \in Int
    <3>1. j \in {0, 1, 2, 3, 4, 5, 6, 7}
      OBVIOUS
    <3> QED
      BY <3>1, Powers
  <2>2. b \in Int /\ FromDigits(g) \in Int
    BY <1>6 DEF Byte
  <2> QED
    BY <1>8, <2>1, <2>2
<1> QED
  BY <1>2, <1>4, <1>5, <1>6, <1>9

-----------------------------------------------------------------------------
(* One bit of the array.                                                   *)

Bytes == [ByteIndex -> Byte]

LEMMA BitPlace ==
    ASSUME NEW nr \in 0..NumBits
    PROVE  /\ nr \div 8 \in ByteIndex /\ nr % 8 \in 0..7
           /\ \A m \in 0..NumBits :
                 nr \div 8 = m \div 8 /\ nr % 8 = m % 8 => nr = m
<1>1. NumBits \in Int /\ nr \in Int /\ 0 <= nr /\ nr <= NumBits
  BY BitsAssumption
<1>2. nr \div 8 \in 0..(NumBits \div 8) /\ nr % 8 \in 0..7
  BY <1>1
<1>3. \A m \in Int : m = 8 * (m \div 8) + (m % 8)
  OBVIOUS
<1>4. ASSUME NEW m \in 0..NumBits, nr \div 8 = m \div 8, nr % 8 = m % 8 PROVE nr = m
  <2>1. m \in Int
    BY <1>1
  <2> QED
    BY <1>1, <1>3, <1>4, <2>1
<1> QED
  BY <1>2, <1>4 DEF ByteIndex

LEMMA TestBit ==
    ASSUME NEW nr, NEW a
    PROVE  lab4_test_bit(nr, a) <=> BitOf(a[nr \div 8], nr % 8) = 1
  BY DEF lab4_test_bit, BitOf, Mask

LEMMA BitBinary ==
    ASSUME NEW b \in Byte, NEW i \in 0..7
    PROVE  BitOf(b, i) \in {0, 1}
<1>1. PICK f \in [0..7 -> {0, 1}] : b = FromDigits(f)
  BY Digits
<1> QED
  BY <1>1, DigitOf

LEMMA SetBit ==
    ASSUME NEW a \in Bytes, NEW nr \in 0..NumBits
    PROVE  /\ lab4_set_bit(nr, a) \in Bytes
           /\ \A m \in 0..NumBits :
                 lab4_test_bit(m, lab4_set_bit(nr, a)) <=> m = nr \/ lab4_test_bit(m, a)
<1> DEFINE B == nr \div 8
           J == nr % 8
<1>1. B \in ByteIndex /\ J \in 0..7
  BY BitPlace
<1>2. CASE lab4_test_bit(nr, a)
  BY <1>2 DEF lab4_set_bit
<1>3. CASE ~lab4_test_bit(nr, a)
  <2>1. PICK b \in Byte : b = a[B]
    BY <1>1 DEF Bytes
  <2>2. BitOf(b, J) = 0
    <3>1. BitOf(b, J) # 1
      BY <1>3, <2>1, TestBit
    <3> QED
      BY <3>1, <1>1, BitBinary
  <2>3. /\ b + 2^J \in Byte
        /\ \A i \in 0..7 : BitOf(b + 2^J, i) = IF i = J THEN 1 ELSE BitOf(b, i)
    BY <1>1, <2>2, SetDigit
  <2>4. PICK c \in Byte : c = b + 2^J
    BY <2>3
  <2>5. lab4_set_bit(nr, a) = [a EXCEPT ![B] = c]
    BY <1>3, <2>1, <2>4 DEF lab4_set_bit, Mask
  <2>6. PICK z : z = lab4_set_bit(nr, a)
    OBVIOUS
  <2>7. z \in Bytes /\ \A x \in ByteIndex : z[x] = IF x = B THEN c ELSE a[x]
    BY <2>5, <2>6 DEF Bytes
  <2>8. ASSUME NEW m \in 0..NumBits
        PROVE  lab4_test_bit(m, z) <=> m = nr \/ lab4_test_bit(m, a)
    <3>1. m \div 8 \in ByteIndex /\ m % 8 \in 0..7
      BY BitPlace
    <3>2. CASE m \div 8 # B
      <4>1. m # nr /\ z[m \div 8] = a[m \div 8]
        BY <3>1, <3>2, <2>7
      <4> QED
        BY <4>1, TestBit
    <3>3. CASE m \div 8 = B
      <4>1. z[m \div 8] = c /\ a[m \div 8] = b
        BY <1>1, <3>3, <2>1, <2>7
      <4>2. BitOf(c, m % 8) = IF m % 8 = J THEN 1 ELSE BitOf(b, m % 8)
        BY <3>1, <2>3, <2>4
      <4>3. m % 8 = J <=> m = nr
        BY <3>3, BitPlace
      <4> QED
        BY <4>1, <4>2, <4>3, TestBit
    <3> QED
      BY <3>2, <3>3
  <2> QED
    BY <2>6, <2>7, <2>8
<1> QED
  BY <1>2, <1>3

LEMMA ClearBit ==
    ASSUME NEW a \in Bytes, NEW nr \in 0..NumBits
    PROVE  /\ lab4_clear_bit(nr, a) \in Bytes
           /\ \A m \in 0..NumBits :
                 lab4_test_bit(m, lab4_clear_bit(nr, a)) <=> m # nr /\ lab4_test_bit(m, a)
<1> DEFINE B == nr \div 8
           J == nr % 8
<1>1. B \in ByteIndex /\ J \in 0..7
  BY BitPlace
<1>2. CASE ~lab4_test_bit(nr, a)
  BY <1>2 DEF lab4_clear_bit
<1>3. CASE lab4_test_bit(nr, a)
  <2>1. PICK b \in Byte : b = a[B]
    BY <1>1 DEF Bytes
  <2>2. BitOf(b, J) = 1
    BY <1>3, <2>1, TestBit
  <2>3. /\ b - 2^J \in Byte
        /\ \A i \in 0..7 : BitOf(b - 2^J, i) = IF i = J THEN 0 ELSE BitOf(b, i)
    BY <1>1, <2>2, ClearDigit
  <2>4. PICK c \in Byte : c = b - 2^J
    BY <2>3
  <2>5. lab4_clear_bit(nr, a) = [a EXCEPT ![B] = c]
    BY <1>3, <2>1, <2>4 DEF lab4_clear_bit, Mask
  <2>6. PICK z : z = lab4_clear_bit(nr, a)
    OBVIOUS
  <2>7. z \in Bytes /\ \A x \in ByteIndex : z[x] = IF x = B THEN c ELSE a[x]
    BY <2>5, <2>6 DEF Bytes
  <2>8. ASSUME NEW m \in 0..NumBits
        PROVE  lab4_test_bit(m, z) <=> m # nr /\ lab4_test_bit(m, a)
    <3>1. m \div 8 \in ByteIndex /\ m % 8 \in 0..7
      BY BitPlace
    <3>2. CASE m \div 8 # B
      <4>1. m # nr /\ z[m \div 8] = a[m \div 8]
        BY <3>1, <3>2, <2>7
      <4> QED
        BY <4>1, TestBit
    <3>3. CASE m \div 8 = B
      <4>1. z[m \div 8] = c /\ a[m \div 8] = b
        BY <1>1, <3>3, <2>1, <2>7
      <4>2. BitOf(c, m % 8) = IF m % 8 = J THEN 0 ELSE BitOf(b, m % 8)
        BY <3>1, <2>3, <2>4
      <4>3. m % 8 = J <=> m = nr
        BY <3>3, BitPlace
      <4> QED
        BY <4>1, <4>2, <4>3, TestBit
    <3> QED
      BY <3>2, <3>3
  <2> QED
    BY <2>6, <2>7, <2>8
<1> QED
  BY <1>2, <1>3
-----------------------------------------------------------------------------
(* The scan loop.                                                          *)

\* The probes that find a clear bit when `left` are still to be made from p.
Clear(a, p, left) == {k \in 0..(left - 1) : ~lab4_test_bit(Probe(p, NumBits, k), a)}

\* What the loop returns when `left` probes are still to be made from p.
Outcome(a, p, left) == IF Clear(a, p, left) = {} THEN NumBits
                       ELSE Probe(p, NumBits, Min(Clear(a, p, left)))

LEMMA ProbeNext ==
    ASSUME NEW n \in Nat \ {0}, NEW p \in 0..n, NEW k \in Nat, k + 1 \in 0..(n - 1)
    PROVE  Probe((p + 1) % n, n, k) = Probe(p, n, k + 1)
<1>1. n \in Int /\ p \in Int /\ k \in Int /\ n >= 2 /\ 0 <= p /\ p <= n /\ 0 <= k /\ k + 1 <= n - 1
  OBVIOUS
<1>2. Probe(p, n, k + 1) = (p + (k + 1)) % n
  BY <1>1 DEF Probe
<1>3. CASE k = 0
  BY <1>2, <1>3 DEF Probe
<1>4. CASE k # 0
  <2>1. PICK q : q = (p + 1) % n
    OBVIOUS
  <2>2. q = IF p + 1 < n THEN p + 1 ELSE p + 1 - n
    <3>1. PICK x \in 0..(2 * n - 1) : x = p + 1
      BY <1>1
    <3>2. x % n = IF x < n THEN x ELSE x - n
      BY SmallMod
    <3> QED
      BY <2>1, <3>1, <3>2
  <2>3. q \in 0..(n - 1)
    BY <1>1, <2>2
  <2>4. PICK y \in 0..(2 * n - 1) : y = q + k
    BY <1>1, <2>3
  <2>5. y % n = IF y < n THEN y ELSE y - n
    BY SmallMod
  <2>6. PICK z \in 0..(2 * n - 1) : z = p + (k + 1)
    BY <1>1
  <2>7. z % n = IF z < n THEN z ELSE z - n
    BY SmallMod
  <2>8. y % n = z % n
    BY <1>1, <2>2, <2>3, <2>4, <2>5, <2>6, <2>7
  <2>9. Probe(q, n, k) = y % n
    BY <1>4, <2>4 DEF Probe
  <2> QED
    BY <1>2, <2>1, <2>6, <2>8, <2>9
<1> QED
  BY <1>3, <1>4

\* One turn of the loop.
LEMMA OutcomeTurn ==
    ASSUME NEW a, NEW p \in 0..NumBits, NEW left \in 1..NumBits
    PROVE  Outcome(a, p, left) = IF ~lab4_test_bit(p, a) THEN p
                                 ELSE Outcome(a, (p + 1) % NumBits, left - 1)
<1>1. NumBits \in Nat \ {0} /\ left \in Int /\ left - 1 \in Nat
  BY BitsAssumption
<1>2. Probe(p, NumBits, 0) = p
  BY DEF Probe
<1>3. PICK C : C = Clear(a, p, left)
  OBVIOUS
<1>4. C \in SUBSET Nat
  BY <1>1, <1>3 DEF Clear
<1>5. CASE ~lab4_test_bit(p, a)
  <2>1. 0 \in C
    BY <1>1, <1>2, <1>3, <1>5 DEF Clear
  <2>2. PICK m : m = Min(C) /\ m \in C /\ m =< 0
    BY <1>4, <2>1, MinOfNat
  <2>3. m \in Nat
    BY <1>4, <2>2
  <2>4. Min(C) = 0
    BY <2>2, <2>3
  <2> QED
    BY <1>2, <1>3, <1>5, <2>1, <2>4 DEF Outcome
<1>6. CASE lab4_test_bit(p, a)
  <2>1. PICK q : q = (p + 1) % NumBits
    OBVIOUS
  <2>2. PICK D : D = Clear(a, q, left - 1)
    OBVIOUS
  <2>3. D \in SUBSET Nat
    BY <1>1, <2>2 DEF Clear
  <2>4. 0 \notin C
    BY <1>2, <1>3, <1>6 DEF Clear
  <2>5. \A k \in 0..(left - 2) : Probe(q, NumBits, k) = Probe(p, NumBits, k + 1)
    <3> SUFFICES ASSUME NEW k \in 0..(left - 2)
                 PROVE  Probe(q, NumBits, k) = Probe(p, NumBits, k + 1)
      OBVIOUS
    <3>1. k \in Nat /\ k + 1 \in 0..(NumBits - 1)
      BY <1>1
    <3> QED
      BY <1>1, <2>1, <3>1, ProbeNext
  <2>6. \A k \in D : k + 1 \in C /\ Probe(q, NumBits, k) = Probe(p, NumBits, k + 1)
    <3> SUFFICES ASSUME NEW k \in D
                 PROVE  k + 1 \in C /\ Probe(q, NumBits, k) = Probe(p, NumBits, k + 1)
      OBVIOUS
    <3>1. k \in 0..((left - 1) - 1) /\ ~lab4_test_bit(Probe(q, NumBits, k), a)
      BY <2>2 DEF Clear
    <3>2. k \in 0..(left - 2) /\ k + 1 \in 0..(left - 1)
      BY <1>1, <3>1
    <3>3. Probe(q, NumBits, k) = Probe(p, NumBits, k + 1)
      BY <2>5, <3>2
    <3> QED
      BY <1>3, <3>1, <3>2, <3>3 DEF Clear
  <2>7. \A k \in C : k - 1 \in D
    <3> SUFFICES ASSUME NEW k \in C PROVE k - 1 \in D
      OBVIOUS
    <3>1. k \in 0..(left - 1) /\ ~lab4_test_bit(Probe(p, NumBits, k), a) /\ k # 0
      BY <1>3, <2>4 DEF Clear
    <3>2. k - 1 \in 0..(left - 2) /\ k - 1 \in 0..((left - 1) - 1) /\ (k - 1) + 1 = k
      BY <1>1, <3>1
    <3>3. Probe(q, NumBits, k - 1) = Probe(p, NumBits, k)
      BY <2>5, <3>2
    <3> QED
      BY <2>2, <3>1, <3>2, <3>3 DEF Clear
  <2>8. CASE C = {}
    <3>1. D = {}
      BY <2>6, <2>8
    <3> QED
      BY <1>3, <1>6, <2>1, <2>2, <2>8, <3>1 DEF Outcome
  <2>9. CASE C # {}
    <3>1. PICK m : m = Min(C) /\ m \in C /\ \A y \in C : m =< y
      BY <1>4, <2>9, MinOfNat
    <3>2. D # {}
      BY <2>7, <2>9
    <3>3. PICK d : d = Min(D) /\ d \in D /\ \A y \in D : d =< y
      BY <2>3, <3>2, MinOfNat
    <3>4. m \in Nat /\ d \in Nat
      BY <1>4, <2>3, <3>1, <3>3
    <3>5. m =< d + 1
      BY <2>6, <3>1, <3>3
    <3>6. d =< m - 1
      BY <2>7, <3>1, <3>3
    <3>7. m = d + 1
      BY <3>4, <3>5, <3>6
    <3>8. Outcome(a, p, left) = Probe(p, NumBits, m)
      BY <1>3, <2>9, <3>1 DEF Outcome
    <3>9. Outcome(a, q, left - 1) = Probe(q, NumBits, d)
      BY <2>2, <3>2, <3>3 DEF Outcome
    <3>10. Probe(q, NumBits, d) = Probe(p, NumBits, d + 1)
      BY <2>6, <3>3
    <3> QED
      BY <1>6, <2>1, <3>7, <3>8, <3>9, <3>10
  <2> QED
    BY <2>8, <2>9
<1> QED
  BY <1>5, <1>6

LEMMA OutcomeEnd ==
    ASSUME NEW a, NEW p
    PROVE  Outcome(a, p, 0) = NumBits
<1>1. Clear(a, p, 0) = {}
  BY DEF Clear
<1> QED
  BY <1>1 DEF Outcome

\* The recursion of the loop has a solution, and only one.
LEMMA LoopOutcome ==
    ASSUME NEW a, NEW pos \in 0..NumBits
    PROVE  ScanLoop(a, pos) = Outcome(a, pos, NumBits)
<1> DEFINE G(h) == [count \in 0..NumBits |->
                       [p \in 0..NumBits |->
                       IF count = NumBits THEN NumBits
                       ELSE IF ~lab4_test_bit(p, a) THEN p
                       ELSE h[count + 1][(p + 1) % NumBits]]]
<1>1. NumBits \in Nat \ {0}
  BY BitsAssumption
<1>2. \A p \in 0..NumBits : (p + 1) % NumBits \in 0..NumBits
  BY <1>1
<1>3. \E h : h = G(h)
  <2>1. PICK h : h = [count \in 0..NumBits |->
                        [p \in 0..NumBits |-> Outcome(a, p, NumBits - count)]]
    OBVIOUS
  <2>2. ASSUME NEW c \in 0..NumBits, NEW p \in 0..NumBits
        PROVE  Outcome(a, p, NumBits - c) =
                  IF c = NumBits THEN NumBits
                  ELSE IF ~lab4_test_bit(p, a) THEN p
                  ELSE h[c + 1][(p + 1) % NumBits]
    <3>1. CASE c = NumBits
      <4>1. NumBits - c = 0
        BY <1>1, <3>1
      <4> QED
        BY <3>1, <4>1, OutcomeEnd
    <3>2. CASE c # NumBits
      <4>1. PICK left \in 1..NumBits : left = NumBits - c
        BY <1>1, <3>2
      <4>2. PICK q \in 0..NumBits : q = (p + 1) % NumBits
        BY <1>2
      <4>3. c + 1 \in 0..NumBits /\ NumBits - (c + 1) = left - 1
        BY <1>1, <3>2, <4>1
      <4>4. h[c + 1][q] = Outcome(a, q, left - 1)
        BY <2>1, <4>3
      <4>5. Outcome(a, p, left) = IF ~lab4_test_bit(p, a) THEN p ELSE Outcome(a, q, left - 1)
        BY <4>2, OutcomeTurn
      <4> QED
        BY <3>2, <4>1, <4>2, <4>4, <4>5
    <3> QED
      BY <3>1, <3>2
  <2>3. h = G(h)
    BY <2>1, <2>2
  <2> QED
    BY <2>3
<1>4. PICK f : f = CHOOSE h : h = G(h)
  OBVIOUS
<1>5. f = G(f)
  <2> HIDE DEF G
  <2> QED
    BY <1>3, <1>4, Zenon
<1>6. ScanLoop(a, pos) = f[0][pos]
  BY <1>4 DEF ScanLoop
<1>7. ASSUME NEW c \in 0..NumBits, NEW p \in 0..NumBits
      PROVE  f[c][p] = IF c = NumBits THEN NumBits
                       ELSE IF ~lab4_test_bit(p, a) THEN p
                       ELSE f[c + 1][(p + 1) % NumBits]
  <2>1. f[c][p] = G(f)[c][p]
    <3> HIDE DEF G
    <3> QED
      BY <1>5
  <2> QED
    BY <2>1
<1> DEFINE S == {j \in Nat : \A p \in 0..NumBits :
                    j <= NumBits => f[NumBits - j][p] = Outcome(a, p, j)}
<1>8. 0 \in S
  <2>1. ASSUME NEW p \in 0..NumBits PROVE f[NumBits - 0][p] = Outcome(a, p, 0)
    <3>1. NumBits - 0 = NumBits /\ NumBits \in 0..NumBits
      BY <1>1
    <3>2. f[NumBits][p] = NumBits
      BY <1>7, <3>1
    <3> QED
      BY <3>1, <3>2, OutcomeEnd
  <2> QED
    BY <2>1
<1>9. ASSUME NEW j \in Nat, j \in S PROVE j + 1 \in S
  <2>1. ASSUME NEW p \in 0..NumBits, j + 1 <= NumBits
        PROVE  f[NumBits - (j + 1)][p] = Outcome(a, p, j + 1)
    <3>1. PICK left \in 1..NumBits : left = j + 1
      BY <1>1, <2>1
    <3>2. PICK q \in 0..NumBits : q = (p + 1) % NumBits
      BY <1>2
    <3>3. PICK c \in 0..NumBits : c = NumBits - left
      BY <1>1
    <3>4. c # NumBits /\ c + 1 = NumBits - j /\ left - 1 = j /\ j <= NumBits
      BY <1>1, <3>1, <3>3
    <3>5. f[c + 1][q] = Outcome(a, q, j)
      BY <1>9, <3>4
    <3>6. f[c][p] = IF ~lab4_test_bit(p, a) THEN p ELSE f[c + 1][q]
      BY <1>7, <3>2, <3>4
    <3>7. Outcome(a, p, left) = IF ~lab4_test_bit(p, a) THEN p ELSE Outcome(a, q, j)
      BY <3>2, <3>4, OutcomeTurn
    <3> QED
      BY <3>1, <3>3, <3>5, <3>6, <3>7
  <2> QED
    BY <2>1
<1>10. NumBits \in S
  <2> HIDE DEF S
  <2>1. Nat \subseteq S
    BY <1>8, <1>9, NatInduct
  <2> QED
    BY <1>1, <2>1
<1>11. f[NumBits - NumBits][pos] = Outcome(a, pos, NumBits)
  BY <1>1, <1>10
<1>12. NumBits - NumBits = 0
  BY <1>1
<1> QED
  BY <1>6, <1>11, <1>12

\* The padding bit behind the bitmap is clear: the loop is the closed form.
LEMMA LoopIsScan ==
    ASSUME NEW a, NEW pos \in 0..NumBits, ~lab4_test_bit(NumBits, a)
    PROVE  ScanLoop(a, pos) = Scan(SetBits(a), pos, NumBits)
<1>1. NumBits \in Nat \ {0}
  BY BitsAssumption
<1>2. \A k \in 0..(NumBits - 1) : Probe(pos, NumBits, k) \in 0..NumBits
  BY <1>1 DEF Probe
<1>3. \A x \in 0..NumBits : x \notin SetBits(a) <=> ~lab4_test_bit(x, a)
  BY <1>1 DEF SetBits, Bits
<1>4. Clear(a, pos, NumBits) = ClearProbes(SetBits(a), pos, NumBits)
  BY <1>2, <1>3 DEF Clear, ClearProbes
<1> QED
  BY <1>4, LoopOutcome DEF Scan, Outcome
-----------------------------------------------------------------------------
(* The invariant.                                                          *)

(***************************************************************************)
(* No bit from the hint on is set, the bit behind the last one included:   *)
(* the scan stops at its first probe.                                      *)
(***************************************************************************)
RawInv == /\ addr \in Bytes
          /\ hint \in 0..NumBits
          /\ given \in 0..NumBits
          /\ \A nr \in hint..NumBits : ~lab4_test_bit(nr, addr)

LEMMA FormattedBits ==
    /\ FormattedMap \in Bytes
    /\ \A m \in 0..NumBits : lab4_test_bit(m, FormattedMap) <=> m < NumReserved
<1> DEFINE Zero == [i \in ByteIndex |-> 0]
           G(h) == [k \in 0..NumReserved |-> IF k = 0 THEN Zero
                                             ELSE lab4_set_bit(k - 1, h[k - 1])]
<1>1. NumBits \in Nat /\ NumReserved \in Nat /\ NumReserved <= NumBits
  BY BitsAssumption
<1>2. Zero \in Bytes
  BY DEF Bytes, Byte
<1>3. \A m \in 0..NumBits : ~lab4_test_bit(m, Zero)
  <2>1. PICK f \in [0..7 -> {0, 1}] : f = [i \in 0..7 |-> 0]
    OBVIOUS
  <2>2. \A i \in 0..7 : f[i] = 0
    BY <2>1
  <2>3. 0 = FromDigits(f)
    BY <2>2 DEF FromDigits
  <2>4. \A i \in 0..7 : BitOf(0, i) = 0
    BY <2>2, <2>3, DigitOf
  <2>5. ASSUME NEW m \in 0..NumBits PROVE ~lab4_test_bit(m, Zero)
    <3>1. m \div 8 \in ByteIndex /\ m % 8 \in 0..7
      BY BitPlace
    <3>2. Zero[m \div 8] = 0
      BY <3>1
    <3>3. BitOf(Zero[m \div 8], m % 8) = 0
      BY <2>4, <3>1, <3>2
    <3> HIDE DEF Zero
    <3> QED
      BY <3>3, TestBit
  <2> QED
    BY <2>5
<1>4. \E h : h = G(h)
  <2>1. PICK g : g = [x \in Nat \X Bytes |->
                         IF x[1] \in 0..NumBits THEN lab4_set_bit(x[1], x[2]) ELSE x[2]]
    OBVIOUS
  <2>2. g \in [Nat \X Bytes -> Bytes]
    <3>1. \A n \in 0..NumBits : \A a \in Bytes : lab4_set_bit(n, a) \in Bytes
      BY SetBit
    <3> QED
      BY <2>1, <3>1
  <2>3. PICK z \in Bytes : z = Zero
    BY <1>2
  <2>4. PICK f \in [Nat -> Bytes] : Sequel(f, z, g)
    BY <2>2, NatRecursion
  <2>5. PICK h : h = [k \in 0..NumReserved |-> f[k]]
    OBVIOUS
  <2>6. ASSUME NEW k \in 0..NumReserved
        PROVE  h[k] = IF k = 0 THEN Zero ELSE lab4_set_bit(k - 1, h[k - 1])
    <3>1. CASE k = 0
      BY <2>3, <2>4, <2>5, <3>1 DEF Sequel
    <3>2. CASE k # 0
      <4>1. PICK j \in Nat : j = k - 1
        BY <1>1, <3>2
      <4>2. j + 1 = k /\ j \in 0..NumBits /\ j \in 0..NumReserved
        BY <1>1, <4>1
      <4>3. f[k] = g[<<j, f[j]>>]
        BY <2>4, <4>2 DEF Sequel
      <4>4. g[<<j, f[j]>>] = lab4_set_bit(j, f[j])
        BY <2>1, <2>4, <4>2
      <4>5. h[k] = f[k] /\ h[j] = f[j]
        BY <2>5, <4>2
      <4> QED
        BY <3>2, <4>1, <4>3, <4>4, <4>5
    <3> QED
      BY <3>1, <3>2
  <2>7. h = G(h)
    <3> HIDE DEF Zero
    <3> QED
      BY <2>5, <2>6
  <2> QED
    BY <2>7
<1>5. PICK s : s = CHOOSE h : h = G(h)
  OBVIOUS
<1>6. s = G(s)
  <2> HIDE DEF G
  <2> QED
    BY <1>4, <1>5, Zenon
<1>7. FormattedMap = s[NumReserved]
  BY <1>5 DEF FormattedMap
<1>8. ASSUME NEW k \in 0..NumReserved
      PROVE  s[k] = IF k = 0 THEN Zero ELSE lab4_set_bit(k - 1, s[k - 1])
  <2>1. s[k] = G(s)[k]
    <3> HIDE DEF G
    <3> QED
      BY <1>6
  <2> HIDE DEF Zero
  <2> QED
    BY <2>1
<1> HIDE DEF Zero
<1> DEFINE S == {k \in Nat : k <= NumReserved =>
                    /\ s[k] \in Bytes
                    /\ \A m \in 0..NumBits : lab4_test_bit(m, s[k]) <=> m < k}
<1>9. 0 \in S
  <2>1. s[0] = Zero
    BY <1>1, <1>8
  <2>2. \A m \in 0..NumBits : ~(m < 0)
    BY <1>1
  <2> QED
    BY <1>2, <1>3, <2>1, <2>2
<1>10. ASSUME NEW k \in Nat, k \in S PROVE k + 1 \in S
  <2>1. ASSUME k + 1 <= NumReserved
        PROVE  /\ s[k + 1] \in Bytes
               /\ \A m \in 0..NumBits : lab4_test_bit(m, s[k + 1]) <=> m < k + 1
    <3>1. /\ k \in 0..NumBits /\ k + 1 \in 0..NumReserved /\ (k + 1) - 1 = k
          /\ k + 1 # 0 /\ k <= NumReserved
      BY <1>1, <2>1
    <3>2. s[k + 1] = lab4_set_bit(k, s[k])
      BY <1>8, <3>1
    <3>3. s[k] \in Bytes /\ \A m \in 0..NumBits : lab4_test_bit(m, s[k]) <=> m < k
      BY <1>10, <3>1
    <3>4. /\ lab4_set_bit(k, s[k]) \in Bytes
          /\ \A m \in 0..NumBits :
                lab4_test_bit(m, lab4_set_bit(k, s[k])) <=> m = k \/ lab4_test_bit(m, s[k])
      BY <3>1, <3>3, SetBit
    <3>5. \A m \in 0..NumBits : m < k + 1 <=> m = k \/ m < k
      BY <1>1
    <3> QED
      BY <3>2, <3>3, <3>4, <3>5
  <2> QED
    BY <2>1
<1>11. NumReserved \in S
  <2> HIDE DEF S
  <2>1. Nat \subseteq S
    BY <1>9, <1>10, NatInduct
  <2> QED
    BY <1>1, <2>1
<1> QED
  BY <1>1, <1>7, <1>11

LEMMA RawInit == Init => RawInv
<1> SUFFICES ASSUME Init PROVE RawInv
  OBVIOUS
<1>1. NumBits \in Nat /\ NumReserved \in Nat /\ NumReserved <= NumBits
  BY BitsAssumption
<1>2. \A m \in NumReserved..NumBits : m \in 0..NumBits /\ ~(m < NumReserved)
  BY <1>1
<1> QED
  BY <1>1, <1>2, FormattedBits DEF Init, RawInv

\* The bit at the hint is clear, so the scan returns the hint.
LEMMA HintIsFree ==
    ASSUME RawInv
    PROVE  ScanLoop(addr, hint) = hint
<1>1. NumBits \in Nat \ {0} /\ hint \in 0..NumBits
  BY BitsAssumption DEF RawInv
<1>2. hint \in hint..NumBits /\ NumBits \in hint..NumBits
  BY <1>1
<1>3. hint \notin SetBits(addr) /\ ~lab4_test_bit(NumBits, addr)
  BY <1>2 DEF RawInv, SetBits
<1>4. Scan(SetBits(addr), hint, NumBits) = hint
  BY <1>1, <1>3, ScanHint
<1> QED
  BY <1>1, <1>3, <1>4, LoopIsScan

\* What a step does, in terms of the bits.
Took == /\ hint < NumBits
        /\ addr' = lab4_set_bit(hint, addr)
        /\ hint' = hint + 1
        /\ given' = hint

FoundNone == given' = NumBits /\ UNCHANGED <<addr, hint>>

LEMMA RawSteps ==
    ASSUME RawInv, Next
    PROVE  \/ Took
           \/ FoundNone
           \/ \E nr \in Bits : Release(nr)
  BY HintIsFree DEF Next, Allocate, Took, FoundNone

LEMMA RawStep == RawInv /\ [Next]_rawVars => RawInv'
<1> SUFFICES ASSUME RawInv, [Next]_rawVars PROVE RawInv'
  OBVIOUS
<1>1. /\ NumBits \in Nat \ {0} /\ hint \in 0..NumBits /\ given \in 0..NumBits
      /\ addr \in Bytes /\ \A nr \in hint..NumBits : ~lab4_test_bit(nr, addr)
  BY BitsAssumption DEF RawInv
<1>2. CASE Took
  <2>1. hint + 1 \in 0..NumBits /\ hint \in 0..NumBits
    BY <1>1, <1>2 DEF Took
  <2>2. /\ lab4_set_bit(hint, addr) \in Bytes
        /\ \A m \in 0..NumBits :
              lab4_test_bit(m, lab4_set_bit(hint, addr)) <=> m = hint \/ lab4_test_bit(m, addr)
    BY <1>1, SetBit
  <2>3. \A nr \in (hint + 1)..NumBits : nr \in 0..NumBits /\ nr \in hint..NumBits /\ nr # hint
    BY <1>1
  <2>4. \A nr \in (hint + 1)..NumBits : ~lab4_test_bit(nr, lab4_set_bit(hint, addr))
    BY <1>1, <2>2, <2>3
  <2> QED
    BY <1>1, <1>2, <2>1, <2>2, <2>4 DEF Took, RawInv
<1>3. CASE FoundNone
  <2>1. NumBits \in 0..NumBits
    BY <1>1
  <2> QED
    BY <1>1, <1>3, <2>1 DEF FoundNone, RawInv
<1>4. ASSUME NEW nr \in Bits, Release(nr) PROVE RawInv'
  <2>1. nr \in 0..NumBits
    BY <1>1 DEF Bits
  <2>2. /\ lab4_clear_bit(nr, addr) \in Bytes
        /\ \A m \in 0..NumBits :
              lab4_test_bit(m, lab4_clear_bit(nr, addr)) <=> m # nr /\ lab4_test_bit(m, addr)
    BY <1>1, <2>1, ClearBit
  <2>3. \A m \in hint..NumBits : m \in 0..NumBits
    BY <1>1
  <2>4. \A m \in hint..NumBits : ~lab4_test_bit(m, lab4_clear_bit(nr, addr))
    BY <1>1, <2>2, <2>3
  <2> QED
    BY <1>1, <1>4, <2>2, <2>4 DEF Release, RawInv
<1>5. CASE UNCHANGED rawVars
  BY <1>5 DEF rawVars, RawInv
<1> QED
  BY <1>2, <1>3, <1>4, <1>5, RawSteps

LEMMA RawCorrect == Spec => []RawInv
  BY RawInit, RawStep, PTL DEF Spec

-----------------------------------------------------------------------------
(* The theorems.                                                           *)

(***************************************************************************)
(* The arithmetic of lab4_set_bit and lab4_clear_bit never leaves a byte,  *)
(* and the hint and the number given out stay inside the bitmap.           *)
(***************************************************************************)
THEOREM BytesStayBytes == Spec => []RawTypeOK
<1>1. RawInv => RawTypeOK
  BY DEF RawInv, RawTypeOK, Bytes
<1> QED
  BY <1>1, RawCorrect, PTL

(***************************************************************************)
(* The scan loop of bmap.c over the bytes returns what the closed form     *)
(* Scan of the set of their bits says, for every bitmap size and hint.     *)
(***************************************************************************)
THEOREM LoopMatchesScan == Spec => []ScanAgrees
<1>1. RawInv => ScanAgrees
  <2> SUFFICES ASSUME RawInv, NEW pos \in 0..NumBits
               PROVE  ScanLoop(addr, pos) = Scan(SetBits(addr), pos, NumBits)
    BY DEF ScanAgrees
  <2>1. NumBits \in hint..NumBits
    BY BitsAssumption DEF RawInv
  <2> QED
    BY <2>1, LoopIsScan DEF RawInv
<1> QED
  BY <1>1, RawCorrect, PTL

(***************************************************************************)
(* A step of the allocator sets the one bit it gives out, clears the one   *)
(* bit it releases, or changes no byte: the mask never reaches a           *)
(* neighbouring bit, whatever the size of the bitmap.                      *)
(***************************************************************************)
THEOREM OneBitChanges == Spec => OneBitAStep
<1>1. RawInv /\ [Next]_rawVars =>
         [\/ /\ given' < NumBits
             /\ given' \notin SetBits(addr)
             /\ SetBits(addr') = SetBits(addr) \cup {given'}
          \/ \E nr \in SetBits(addr) : SetBits(addr') = SetBits(addr) \ {nr}
          \/ given' = NumBits /\ addr' = addr]_rawVars
  <2> SUFFICES ASSUME RawInv, Next
               PROVE  \/ /\ given' < NumBits
                         /\ given' \notin SetBits(addr)
                         /\ SetBits(addr') = SetBits(addr) \cup {given'}
                      \/ \E nr \in SetBits(addr) : SetBits(addr') = SetBits(addr) \ {nr}
                      \/ given' = NumBits /\ addr' = addr
    OBVIOUS
  <2>1. /\ NumBits \in Nat \ {0} /\ hint \in 0..NumBits
        /\ addr \in Bytes /\ \A nr \in hint..NumBits : ~lab4_test_bit(nr, addr)
    BY BitsAssumption DEF RawInv
  <2>2. Bits \subseteq 0..NumBits
    BY <2>1 DEF Bits
  <2>3. CASE Took
    <3>1. hint \in Bits /\ hint \in hint..NumBits
      BY <2>1, <2>3 DEF Took, Bits
    <3>2. \A m \in 0..NumBits :
             lab4_test_bit(m, lab4_set_bit(hint, addr)) <=> m = hint \/ lab4_test_bit(m, addr)
      BY <2>1, SetBit
    <3>3. SetBits(lab4_set_bit(hint, addr)) = SetBits(addr) \cup {hint}
      BY <2>2, <3>1, <3>2 DEF SetBits
    <3>4. hint \notin SetBits(addr)
      BY <2>1, <3>1 DEF SetBits
    <3> QED
      BY <2>3, <3>3, <3>4 DEF Took
  <2>4. CASE FoundNone
    BY <2>4 DEF FoundNone
  <2>5. ASSUME NEW nr \in Bits, Release(nr)
        PROVE  \E n \in SetBits(addr) : SetBits(addr') = SetBits(addr) \ {n}
    <3>1. \A m \in 0..NumBits :
             lab4_test_bit(m, lab4_clear_bit(nr, addr)) <=> m # nr /\ lab4_test_bit(m, addr)
      BY <2>1, <2>2, ClearBit
    <3>2. SetBits(lab4_clear_bit(nr, addr)) = SetBits(addr) \ {nr}
      BY <2>2, <3>1 DEF SetBits
    <3> QED
      BY <2>5, <3>2 DEF Release
  <2> QED
    BY <2>3, <2>4, <2>5, RawSteps
<1> QED
  BY <1>1, RawCorrect, PTL DEF Spec, OneBitAStep

(***************************************************************************)
(* alloc_new_inode gives out numbers in rising order only: what was        *)
(* released below its hint is never found again.                           *)
(***************************************************************************)
THEOREM NumbersOnlyGrow == Spec => NumbersGrow
<1>1. RawInv /\ [Next]_rawVars => [given' # given => given' >= hint]_rawVars
  <2> SUFFICES ASSUME RawInv, Next, given' # given PROVE given' >= hint
    OBVIOUS
  <2>1. NumBits \in Nat /\ hint \in 0..NumBits
    BY BitsAssumption DEF RawInv
  <2>2. CASE Took
    BY <2>1, <2>2 DEF Took
  <2>3. CASE FoundNone
    BY <2>1, <2>3 DEF FoundNone
  <2>4. ~ \E nr \in Bits : Release(nr)
    BY DEF Release
  <2> QED
    BY <2>2, <2>3, <2>4, RawSteps
<1> QED
  BY <1>1, RawCorrect, PTL DEF Spec, NumbersGrow

-----------------------------------------------------------------------------
(* The sizes and addresses of a device.                                    *)

LEMMA DivScale ==
    ASSUME NEW a \in Nat, NEW k \in Nat \ {0}, NEW d \in Nat \ {0}
    PROVE  (a * k) \div (d * k) = a \div d
<1>1. PICK q \in Nat, r \in 0..(d - 1) : a = d * q + r
  <2>1. a \div d \in Nat /\ a % d \in 0..(d - 1) /\ a = d * (a \div d) + (a % d)
    OBVIOUS
  <2> QED
    BY <2>1
<1>2. a * k = (d * k) * q + r * k
  BY <1>1
<1>3. 0 <= r * k /\ r * k < d * k
  BY <1>1
<1>4. d * k \in Nat \ {0} /\ r * k \in Nat
  BY <1>1
<1>5. (a * k) \div (d * k) = q
  <2>1. PICK D \in Nat \ {0}, R \in Nat, A \in Nat : D = d * k /\ R = r * k /\ A = a * k
    BY <1>4
  <2>2. A = D * q + R /\ R < D
    BY <1>2, <1>3, <2>1
  <2>3. A \div D = q
    BY <2>2
  <2> QED
    BY <2>1, <2>3
<1>6. a \div d = q
  BY <1>1
<1> QED
  BY <1>5, <1>6

\* A quotient is below what bounds the dividend.
LEMMA DivBound ==
    ASSUME NEW x \in Nat, NEW y \in Nat, NEW d \in Nat \ {0}, x <= y * d
    PROVE  x \div d <= y
<1>1. PICK q \in Nat : q = x \div d /\ q * d <= x
  <2>1. x \div d \in Nat /\ x % d \in Nat /\ x = d * (x \div d) + (x % d)
    OBVIOUS
  <2> QED
    BY <2>1
<1>2. CASE q <= y
  BY <1>1, <1>2
<1>3. CASE q >= y + 1
  <2>1. q * d >= (y + 1) * d
    BY <1>3
  <2>2. (y + 1) * d = y * d + d
    OBVIOUS
  <2> QED
    BY <1>1, <2>1, <2>2
<1> QED
  BY <1>1, <1>2, <1>3

\* Words.
LEMMA Unsigned ==
    ASSUME NEW x \in Int
    PROVE  /\ U32(x) \in 0..(Word - 1)
           /\ x \in 0..(Word - 1) => U32(x) = x
           /\ x \in Nat => U32(x) <= x
<1>1. Word \in Nat /\ Word > 0
  BY GeometryAssumption
<1>2. x % Word \in 0..(Word - 1)
  BY <1>1
<1>3. x = Word * (x \div Word) + (x % Word)
  BY <1>1
<1>4. CASE x \in 0..(Word - 1)
  BY <1>1, <1>4 DEF U32
<1>5. ASSUME x \in Nat PROVE x % Word <= x
  <2>1. x \div Word \in Nat
    BY <1>1, <1>5
  <2>2. Word * (x \div Word) >= 0
    BY <1>1, <2>1
  <2> QED
    BY <1>1, <1>2, <1>3, <2>2
<1> QED
  BY <1>2, <1>4, <1>5 DEF U32

LEMMA Signed ==
    ASSUME NEW x \in Nat
    PROVE  /\ S32(x) \in Int
           /\ S32(x) <= x
           /\ x < Word \div 2 => S32(x) = x
<1>1. Word \in Nat /\ Word > 0
  BY GeometryAssumption
<1>2. U32(x) \in 0..(Word - 1) /\ U32(x) <= x
  BY Unsigned
<1>3. ASSUME x < Word \div 2 PROVE S32(x) = x
  <2>1. x \in 0..(Word - 1)
    BY <1>1, <1>3
  <2>2. U32(x) = x
    BY <2>1, Unsigned
  <2> QED
    BY <1>3, <2>2 DEF S32
<1> QED
  BY <1>1, <1>2, <1>3 DEF S32

GeometryInv ==
    /\ dev \in [units : DeviceUnits, sector : SectorSizes]
    /\ Formatted => /\ sb.sector = dev.sector
                    /\ sb.darea = DareaSize(S32(dev.units), dev.sector)
    /\ Mounted => /\ Formatted
                  /\ sbi.cluster = ClusterSize(dev.sector)
                  /\ sbi.start = U32(Reserved * ClusterSize(dev.sector))
                  /\ sbi.size = U32(sb.darea * ClusterSize(dev.sector))

LEMMA GeometryStarts == GeometryInit => GeometryInv
  BY GeometryAssumption DEF GeometryInit, GeometryInv, Formatted, Mounted

LEMMA GeometrySteps == GeometryInv /\ [GeometryNext]_geometryVars => GeometryInv'
<1> SUFFICES ASSUME GeometryInv, [GeometryNext]_geometryVars PROVE GeometryInv'
  OBVIOUS
<1>1. CASE Format
  <2>1. ~Mounted
    BY <1>1 DEF Format, GeometryInv
  <2> QED
    BY <1>1, <2>1 DEF Format, GeometryInv, Formatted, Mounted
<1>2. CASE Mount
  BY <1>2 DEF Mount, GeometryInv, Formatted, Mounted
<1>3. CASE UNCHANGED geometryVars
  BY <1>3 DEF geometryVars, GeometryInv, Formatted, Mounted
<1> QED
  BY <1>1, <1>2, <1>3 DEF GeometryNext

LEMMA GeometryCorrect == GeometrySpec => []GeometryInv
  BY GeometryStarts, GeometrySteps, PTL DEF GeometrySpec

\* The blocks of a plain device.
LEMMA PlainBlocks ==
    ASSUME GeometryInv, Mounted, Plain
    PROVE  MaxBlock <= RealClusters - Reserved
<1>1. /\ Word \in Nat /\ Word >= 256 /\ UnitBytes \in Nat /\ UnitBytes >= 4
      /\ UnitBytes \in Nat \ {0}
  BY GeometryAssumption
<1>2. PICK u \in Nat : u = dev.units
  BY GeometryAssumption DEF GeometryInv
<1>3. dev.sector = UnitBytes
  BY DEF Plain
<1>4. PICK c \in Nat \ {0} : c = 8 * UnitBytes
  BY <1>1
<1>5. ClusterSize(UnitBytes) = c
  BY <1>4 DEF ClusterSize, BlockShift
<1>6. RealClusters = u \div 8
  <2>1. RealClusters = (u * UnitBytes) \div (8 * UnitBytes)
    BY <1>2, <1>3, <1>4, <1>5 DEF RealClusters
  <2> QED
    BY <1>1, <2>1, DivScale
<1>7. u \div 8 > 4 /\ u \div 8 \in Nat
  BY <1>6 DEF Plain, Reserved
<1>8. PICK s \in Int : s = S32(u) /\ s <= u /\ (u < Word \div 2 => s = u)
  BY Signed
<1>9. PICK x \in Int : x = Quotient(s * UnitBytes, c) - 4
  <2>1. s * UnitBytes \in Int
    BY <1>1
  <2> QED
    BY <2>1 DEF Quotient
<1>10. PICK d \in 0..(Word - 1) : d = sb.darea /\ d = U32(x)
  <2>1. sb.darea = U32(x)
    BY <1>2, <1>3, <1>5, <1>8, <1>9 DEF GeometryInv, DareaSize, Reserved
  <2> QED
    BY <2>1, Unsigned
<1>11. d * c \in Nat
  BY <1>1
<1>12. PICK z \in Nat : z = sbi.size /\ z <= d * c /\ z < Word
  <2>1. sbi.size = U32(d * c)
    BY <1>3, <1>5, <1>10 DEF GeometryInv
  <2> QED
    BY <1>1, <1>11, <2>1, Unsigned
<1>13. MaxBlock = z \div c
  BY <1>3, <1>5, <1>12 DEF GeometryInv, MaxBlock
<1>14. CASE x >= 0
  <2>1. s >= 0
    <3> SUFFICES ASSUME s < 0 PROVE FALSE
      OBVIOUS
    <3>1. PICK y \in Int : y = s * UnitBytes /\ y < 0
      BY <1>1
    <3>2. (-y) \div c \in Nat
      BY <3>1
    <3>3. Quotient(y, c) \in Int /\ Quotient(y, c) <= 0
      BY <3>1, <3>2 DEF Quotient
    <3> QED
      BY <1>9, <1>14, <3>1, <3>3
  <2>2. s * UnitBytes >= 0 /\ s \in Nat
    BY <1>1, <2>1
  <2>3. Quotient(s * UnitBytes, c) = s \div 8
    <3>1. (s * UnitBytes) \div (8 * UnitBytes) = s \div 8
      BY <1>1, <2>2, DivScale
    <3> QED
      BY <1>4, <2>2, <3>1 DEF Quotient
  <2>4. x = s \div 8 - 4 /\ x <= u \div 8 - 4
    BY <1>8, <1>9, <2>2, <2>3
  <2>5. d <= x
    BY <1>10, <1>14, Unsigned
  <2>6. z \div c <= d
    BY <1>12, DivBound
  <2>7. z \div c \in Int
    OBVIOUS
  <2> QED
    BY <1>6, <1>13, <2>4, <2>5, <2>6, <2>7 DEF Reserved
<1>15. CASE x < 0
  <2>1. ~(u < Word \div 2)
    <3> SUFFICES ASSUME s = u PROVE FALSE
      BY <1>8
    <3>1. s * UnitBytes >= 0 /\ s \in Nat
      BY <1>1
    <3>2. (s * UnitBytes) \div (8 * UnitBytes) = s \div 8
      BY <1>1, <3>1, DivScale
    <3>3. x = u \div 8 - 4
      BY <1>4, <1>9, <3>1, <3>2 DEF Quotient
    <3> QED
      BY <1>7, <1>15, <3>3
  <2>2. PICK y \in Nat : y = u \div 8 - 4
    BY <1>7
  <2>3. Word <= y * 32
    BY <1>1, <2>1, <2>2
  <2>4. y * 32 <= y * c
    BY <1>1, <1>4
  <2>5. y * c \in Nat
    OBVIOUS
  <2>6. z <= y * c
    BY <1>1, <1>12, <2>3, <2>4, <2>5
  <2>7. z \div c <= y
    BY <2>6, DivBound
  <2> QED
    BY <1>6, <1>13, <2>2, <2>7 DEF Reserved
<1> QED
  BY <1>14, <1>15

(***************************************************************************)
(* On every device with sectors of the size the kernel counts in, the      *)
(* blocks scan_allocate_dbmap may give out lie on the device, also where   *)
(* its size has wrapped around in get_no_of_sectors or lab4_fill_super.    *)
(***************************************************************************)
THEOREM ScanStaysOnDevice == GeometrySpec => []ScanOnDevice
<1>1. GeometryInv => ScanOnDevice
  BY PlainBlocks DEF ScanOnDevice
<1> QED
  BY <1>1, GeometryCorrect, PTL

\* A number below a word and the bytes before the data area, read as an int,
\* is true to itself, negative, or lies before the data area.
LEMMA WrapsBefore ==
    ASSUME NEW x \in Nat, NEW start \in Nat, start < Word, x < Word + start,
           S32(x) >= start
    PROVE  S32(x) = x
<1>1. Word \in Nat /\ Word >= 256
  BY GeometryAssumption
<1>2. PICK u \in 0..(Word - 1) : u = U32(x)
  BY Unsigned
<1>3. S32(x) = IF u < Word \div 2 THEN u ELSE u - Word
  BY <1>2 DEF S32
<1>4. S32(x) = u /\ u >= start
  BY <1>1, <1>2, <1>3
<1>5. CASE x < Word
  BY <1>1, <1>2, <1>4, <1>5, Unsigned
<1>6. CASE x >= Word
  <2>1. x % Word = x - Word
    BY <1>1, <1>6
  <2> QED
    BY <1>1, <1>2, <1>4, <1>6, <2>1 DEF U32
<1> QED
  BY <1>1, <1>5, <1>6

(***************************************************************************)
(* Whatever the size of the device, an address that lab4_lookup or         *)
(* delete_block reads in i_blocks and that lies in the data area is that   *)
(* of the block's own cluster.                                             *)
(***************************************************************************)
THEOREM BlocksFound == GeometrySpec => []AddressesTrue
<1>1. ASSUME GeometryInv PROVE AddressesTrue
  <2> SUFFICES ASSUME Mounted, NEW b \in 0..(MaxBlock - 1), Address(b) >= sbi.start
               PROVE  Address(b) = (Reserved + b) * ClusterSize(dev.sector)
    BY DEF AddressesTrue
  <2>1. /\ Word \in Nat /\ Word >= 256
        /\ dev.sector \in Nat \ {0} /\ dev.sector \in SectorSizes /\ dev.units \in Nat
    BY <1>1, GeometryAssumption DEF GeometryInv
  <2>2. PICK c \in Nat \ {0} : c = ClusterSize(dev.sector) /\ 4 * c < Word
    <3>1. ClusterSize(dev.sector) \in Nat \ {0}
      BY <2>1 DEF ClusterSize, BlockShift
    <3> QED
      BY <2>1, <3>1, ReservedAssumption DEF Reserved
  <2>3. sbi.start = 4 * c /\ 4 * c \in Nat
    BY <1>1, <2>1, <2>2, Unsigned DEF GeometryInv, Reserved
  <2>4. PICK d \in Nat : d = sb.darea
    <3>1. PICK s \in Int : s = S32(dev.units)
      BY <2>1, Signed
    <3>2. s * dev.sector \in Int
      BY <2>1
    <3>3. Quotient(s * dev.sector, c) - 4 \in Int
      BY <2>2, <3>2 DEF Quotient
    <3>4. sb.darea = U32(Quotient(s * dev.sector, c) - 4)
      BY <1>1, <2>2, <3>1 DEF GeometryInv, DareaSize, Reserved
    <3> QED
      BY <2>1, <3>3, <3>4, Unsigned
  <2>5. PICK z \in Nat : z = sbi.size /\ z < Word
    <3>1. d * c \in Int
      BY <2>2, <2>4
    <3>2. sbi.size = U32(d * c)
      BY <1>1, <2>2, <2>4 DEF GeometryInv
    <3> QED
      BY <2>1, <3>1, <3>2, Unsigned
  <2>6. PICK m \in Nat : m = z \div c /\ m * c <= z
    BY <2>2, <2>5
  <2>7. b \in Nat /\ b <= m
    BY <1>1, <2>2, <2>5, <2>6 DEF GeometryInv, MaxBlock
  <2>8. b * c <= m * c /\ b * c \in Nat /\ (4 + b) * c = b * c + 4 * c
    BY <2>2, <2>6, <2>7
  <2>9. PICK x \in Nat : x = b * c + 4 * c /\ x < Word + 4 * c
    BY <2>1, <2>2, <2>3, <2>5, <2>6, <2>8
  <2>10. Address(b) = S32(x)
    BY <1>1, <2>2, <2>3, <2>9 DEF Address, GeometryInv
  <2>11. S32(x) = x
    BY <2>2, <2>3, <2>9, <2>10, WrapsBefore
  <2> QED
    BY <2>2, <2>8, <2>9, <2>10, <2>11 DEF Reserved
<1>2. GeometryInv => AddressesTrue
  BY <1>1
<1> QED
  BY <1>2, GeometryCorrect, PTL

-----------------------------------------------------------------------------
(* The walk along a path.                                                  *)

Nodes  == {Root, NotFound} \cup {e.node : e \in Tree}
Places == {Nowhere} \cup [thread : Threads, nth : {0, 1}, at : Nat \ {0}]
Walks  == [pc : {"idle", "token", "lookup", "load", "done"}, path : Paths \cup {<< >>},
           nth : {0, 1}, ino : Nodes, from : Places, name : Names \cup {NoName},
           alone : BOOLEAN]

PathsTypes == /\ walk \in [Threads -> Walks]
              /\ olds \in Places
              /\ ended \subseteq Places
              /\ \A t \in Threads : Walking(t) => walk[t].path \in Paths

\* A walk that is alone so far has the others idle.
Solitude == \A t, u \in Threads :
               Walking(t) /\ walk[t].alone /\ u # t => ~Walking(u)

\* The inodes along a path: node[k] is reached with the first k names.
Trail(path, node) ==
    /\ node[0] = Root
    /\ \A k \in 1..Len(path) : node[k] = IF node[k - 1] = NotFound THEN NotFound
                                         ELSE Lookup(node[k - 1], path[k])
    /\ Resolve(path) = node[Len(path)]

\* No name from place k on has been terminated by strtok.
Untouched(t, k) == \A p \in ended : p.thread = t => p.at < k

\* What a thread knows that is about to ask strtok for name k.
Before(t, node, k, place) ==
    /\ walk[t].ino = node[k - 1]
    /\ walk[t].ino # NotFound
    /\ place = Place(t, walk[t].nth, k)
    /\ Untouched(t, k)

\* Thread t has name k, or has seen the end of the path.
Holds(t, node, k) ==
    /\ walk[t].ino = node[k - 1]
    /\ walk[t].ino # NotFound
    /\ \/ /\ k <= Len(walk[t].path)
          /\ walk[t].name = walk[t].path[k]
          /\ olds = Place(t, walk[t].nth, k + 1)
          /\ Untouched(t, k + 1)
       \/ /\ k = Len(walk[t].path) + 1
          /\ walk[t].name = NoName

OnPath(t) ==
    \E node : /\ Trail(walk[t].path, node)
              /\ \E k \in 1..(Len(walk[t].path) + 1) :
                    /\ walk[t].pc = "token"  => Before(t, node, k, walk[t].from)
                    /\ walk[t].pc = "load"   => Before(t, node, k, olds)
                    /\ walk[t].pc = "lookup" => Holds(t, node, k)
                    /\ walk[t].pc = "done"   => walk[t].ino = Resolve(walk[t].path)

PathsInv == /\ PathsTypes
            /\ Solitude
            /\ \A t \in Threads : Walking(t) /\ walk[t].alone => OnPath(t)

LEMMA PathShape == ASSUME NEW path \in Paths
                   PROVE  Len(path) \in Nat /\ \A k \in 1..Len(path) : path[k] \in Names
<1>1. PICK m \in 1..MaxDepth : path \in [1..m -> Names]
  BY DEF Paths
<1>2. m \in Nat /\ path \in Seq(Names) /\ Len(path) = m
  BY <1>1, PathsAssumption
<1> QED
  BY <1>1, <1>2

LEMMA LookupNode == ASSUME NEW d, NEW n PROVE Lookup(d, n) \in Nodes
<1>1. CASE Hits(d, n) = {}
  BY <1>1 DEF Lookup, Nodes
<1>2. CASE Hits(d, n) # {}
  <2>1. PICK e : e = CHOOSE x \in Hits(d, n) : TRUE
    OBVIOUS
  <2>2. \E x : x \in Hits(d, n)
    BY <1>2
  <2>3. e \in Hits(d, n)
    BY <2>1, <2>2, Zenon
  <2>4. e \in Tree
    BY <2>3 DEF Hits
  <2>5. Lookup(d, n) = e.node
    BY <1>2, <2>1 DEF Lookup
  <2> QED
    BY <2>4, <2>5 DEF Nodes
<1> QED
  BY <1>1, <1>2

\* The recursion of Resolve has a solution.
LEMMA HasTrail == ASSUME NEW path \in Paths PROVE \E node : Trail(path, node)
<1> DEFINE Following(x, k) == IF x = NotFound THEN NotFound ELSE Lookup(x, path[k])
           G(h) == [k \in 0..Len(path) |->
                       IF k = 0 THEN Root
                       ELSE IF h[k - 1] = NotFound THEN NotFound
                       ELSE Lookup(h[k - 1], path[k])]
<1>1. Len(path) \in Nat
  BY PathShape
<1>2. \E h : h = G(h)
  <2>1. PICK g : g = [x \in Nat \X Nodes |-> Following(x[2], x[1] + 1)]
    OBVIOUS
  <2>2. g \in [Nat \X Nodes -> Nodes]
    <3>1. NotFound \in Nodes
      BY DEF Nodes
    <3>2. \A x \in Nat \X Nodes : Following(x[2], x[1] + 1) \in Nodes
      BY <3>1, LookupNode
    <3> HIDE DEF Following
    <3> QED
      BY <2>1, <3>2
  <2>3. PICK r \in Nodes : r = Root
    BY DEF Nodes
  <2>4. PICK f \in [Nat -> Nodes] : Sequel(f, r, g)
    BY <2>2, NatRecursion
  <2>5. PICK h : h = [k \in 0..Len(path) |-> f[k]]
    OBVIOUS
  <2>6. ASSUME NEW k \in 0..Len(path)
        PROVE  h[k] = IF k = 0 THEN Root
                      ELSE IF h[k - 1] = NotFound THEN NotFound
                      ELSE Lookup(h[k - 1], path[k])
    <3>1. CASE k = 0
      BY <2>3, <2>4, <2>5, <3>1 DEF Sequel
    <3>2. CASE k # 0
      <4>1. PICK j \in Nat : j = k - 1
        BY <1>1, <3>2
      <4>2. j + 1 = k /\ j \in 0..Len(path)
        BY <1>1, <4>1
      <4>3. f[k] = g[<<j, f[j]>>]
        BY <2>4, <4>2 DEF Sequel
      <4>4. g[<<j, f[j]>>] = Following(f[j], k)
        BY <2>1, <4>2
      <4>5. h[k] = f[k] /\ h[j] = f[j]
        BY <2>5, <4>2
      <4> QED
        BY <3>2, <4>1, <4>3, <4>4, <4>5
    <3> QED
      BY <3>1, <3>2
  <2>7. h = G(h)
    BY <2>5, <2>6
  <2> QED
    BY <2>7
<1>3. PICK node : node = CHOOSE h : h = G(h)
  OBVIOUS
<1>4. node = G(node)
  <2> HIDE DEF G
  <2> QED
    BY <1>2, <1>3, Zenon
<1>5. Resolve(path) = node[Len(path)]
  BY <1>3 DEF Resolve
<1>6. ASSUME NEW k \in 0..Len(path)
      PROVE  node[k] = IF k = 0 THEN Root
                       ELSE IF node[k - 1] = NotFound THEN NotFound
                       ELSE Lookup(node[k - 1], path[k])
  <2>1. node[k] = G(node)[k]
    <3> HIDE DEF G
    <3> QED
      BY <1>4
  <2> QED
    BY <2>1
<1>7. node[0] = Root
  BY <1>1, <1>6
<1>8. \A k \in 1..Len(path) : node[k] = IF node[k - 1] = NotFound THEN NotFound
                                        ELSE Lookup(node[k - 1], path[k])
  <2> SUFFICES ASSUME NEW k \in 1..Len(path)
               PROVE  node[k] = IF node[k - 1] = NotFound THEN NotFound
                                ELSE Lookup(node[k - 1], path[k])
    OBVIOUS
  <2>1. k \in 0..Len(path) /\ k # 0
    BY <1>1
  <2> QED
    BY <1>6, <2>1
<1> QED
  BY <1>5, <1>7, <1>8 DEF Trail

\* A name that is not there ends the trail.
LEMMA DeadEnd ==
    ASSUME NEW path \in Paths, NEW node, Trail(path, node),
           NEW k \in 1..Len(path), node[k] = NotFound
    PROVE  Resolve(path) = NotFound
<1>1. Len(path) \in Nat /\ k \in Nat /\ k <= Len(path)
  BY PathShape
<1> DEFINE S == {j \in Nat : k + j <= Len(path) => node[k + j] = NotFound}
<1>2. 0 \in S
  BY <1>1
<1>3. ASSUME NEW j \in Nat, j \in S PROVE j + 1 \in S
  <2>1. ASSUME k + (j + 1) <= Len(path) PROVE node[k + (j + 1)] = NotFound
    <3>1. PICK m \in 1..Len(path) : m = k + (j + 1)
      BY <1>1, <2>1
    <3>2. m - 1 = k + j /\ k + j <= Len(path)
      BY <1>1, <3>1
    <3>3. node[m - 1] = NotFound
      BY <1>3, <3>2
    <3> QED
      BY <3>1, <3>3 DEF Trail
  <2> QED
    BY <2>1
<1>4. Nat \subseteq S
  <2> HIDE DEF S
  <2> QED
    BY <1>2, <1>3, NatInduct
<1>5. PICK j \in Nat : j = Len(path) - k
  BY <1>1
<1>6. node[k + j] = NotFound /\ k + j = Len(path)
  BY <1>1, <1>4, <1>5
<1> QED
  BY <1>6 DEF Trail

LEMMA PathsStart == PathsInit => PathsInv
<1> SUFFICES ASSUME PathsInit PROVE PathsInv
  OBVIOUS
<1>1. Nowhere \in Places /\ Root \in Nodes /\ << >> \in Paths \cup {<< >>}
  BY DEF Places, Nodes
<1>2. PathsTypes
  BY <1>1 DEF PathsInit, PathsTypes, Walks, Walking
<1>3. \A t \in Threads : ~Walking(t)
  BY DEF PathsInit, Walking
<1> QED
  BY <1>2, <1>3 DEF PathsInv, Solitude

LEMMA BeginStep ==
    ASSUME PathsInv, NEW t \in Threads, NEW path \in Paths, Begin(t, path)
    PROVE  PathsInv'
<1>1. PICK n \in {0, 1} : n = 1 - walk[t].nth
  BY DEF PathsInv, PathsTypes, Walks
<1>2. PICK alone \in BOOLEAN : alone = (\A u \in Threads : ~Walking(u))
  OBVIOUS
<1>3. PICK w : w = [pc |-> "token", path |-> path, nth |-> n, ino |-> Root,
                    from |-> Place(t, n, 1), name |-> NoName, alone |-> alone]
  OBVIOUS
<1>4. walk' = [u \in Threads |-> IF u = t THEN w
                                 ELSE [walk[u] EXCEPT !.alone = @ /\ ~Walking(u)]]
  BY <1>1, <1>2, <1>3 DEF Begin, FirstPlace
<1>5. Place(t, n, 1) \in Places /\ Root \in Nodes
  BY DEF Place, Places, Nodes
<1>6. w \in Walks
  BY <1>3, <1>5 DEF Walks
<1>7. PICK walk1 : walk1 = walk'
  OBVIOUS
<1>8. walk1[t] = w
  BY <1>4, <1>7
<1>9. ASSUME NEW u \in Threads, u # t
      PROVE  /\ walk1[u] \in Walks
             /\ walk1[u].pc = walk[u].pc /\ walk1[u].path = walk[u].path
             /\ walk1[u].alone => walk[u].alone /\ ~Walking(u)
  <2>1. PICK x \in Walks : x = walk[u]
    BY DEF PathsInv, PathsTypes
  <2>2. PICK b \in BOOLEAN : b = (x.alone /\ ~Walking(u))
    BY <2>1 DEF Walks
  <2>3. walk1[u] = [x EXCEPT !.alone = b]
    BY <1>4, <1>7, <1>9, <2>1, <2>2
  <2> QED
    BY <2>1, <2>2, <2>3 DEF Walks
<1>10. ~Walking(t) /\ UNCHANGED olds /\ ended' = {p \in ended : p.thread # t}
  BY DEF Begin
<1>11. Walking(t)'
  BY <1>3, <1>7, <1>8 DEF Walking
<1>12. \A u \in Threads : u # t => (Walking(u)' <=> Walking(u))
  BY <1>7, <1>9 DEF Walking
<1>13. PathsTypes'
  <2>1. walk1 \in [Threads -> Walks]
    BY <1>4, <1>6, <1>7, <1>8, <1>9
  <2>2. \A u \in Threads : Walking(u)' => walk1[u].path \in Paths
    BY <1>3, <1>8, <1>9, <1>12 DEF PathsInv, PathsTypes
  <2> QED
    BY <1>7, <1>10, <2>1, <2>2 DEF PathsInv, PathsTypes
<1>14. Solitude'
  <2> SUFFICES ASSUME NEW x \in Threads, NEW y \in Threads,
                      Walking(x)', walk1[x].alone, y # x
               PROVE  ~Walking(y)'
    BY <1>7 DEF Solitude
  <2>1. x = t
    BY <1>9, <1>12
  <2> QED
    BY <1>2, <1>3, <1>8, <1>12, <2>1
<1>15. ASSUME NEW u \in Threads, Walking(u)', walk1[u].alone PROVE OnPath(u)'
  <2>1. u = t
    BY <1>9, <1>12, <1>15
  <2>2. PICK node : Trail(path, node)
    BY HasTrail
  <2>3. 1 \in 1..(Len(path) + 1) /\ 1 - 1 = 0
    BY PathShape
  <2>4. Before(t, node, 1, w.from)'
    <3>1. w.ino = Root /\ w.from = Place(t, w.nth, 1)
      BY <1>3
    <3>2. node[1 - 1] = Root
      BY <2>2, <2>3 DEF Trail
    <3>3. Untouched(t, 1)'
      BY <1>10 DEF Untouched
    <3> QED
      BY <1>7, <1>8, <3>1, <3>2, <3>3, PathsAssumption DEF Before
  <2>5. w.pc = "token" /\ w.path = path
    BY <1>3
  <2> QED
    BY <1>7, <1>8, <2>1, <2>2, <2>3, <2>4, <2>5 DEF OnPath
<1> QED
  BY <1>7, <1>13, <1>14, <1>15 DEF PathsInv

\* A step of thread t that leaves the records of the others.
LEMMA OwnStep ==
    ASSUME PathsInv, NEW t \in Threads, NEW w \in Walks, Walking(t),
           walk' = [walk EXCEPT ![t] = w],
           olds' \in Places, ended' \subseteq Places,
           w.pc # "idle" => w.alone = walk[t].alone /\ w.path = walk[t].path,
           w.pc # "idle" /\ w.alone /\ OnPath(t) => OnPath(t)'
    PROVE  PathsInv'
<1>1. walk \in [Threads -> Walks]
  BY DEF PathsInv, PathsTypes
<1>2. walk' \in [Threads -> Walks] /\ walk'[t] = w
  BY <1>1
<1>3. \A u \in Threads : u # t => walk'[u] = walk[u]
  BY <1>1
<1>4. \A u \in Threads : u # t => (Walking(u)' <=> Walking(u))
  BY <1>3 DEF Walking
<1>5. Walking(t)' <=> w.pc # "idle"
  BY <1>2 DEF Walking
<1>6. PathsTypes'
  <2>1. \A u \in Threads : Walking(u)' => walk'[u].path \in Paths
    BY <1>2, <1>3, <1>4, <1>5 DEF PathsInv, PathsTypes
  <2> QED
    BY <1>2, <2>1 DEF PathsTypes
<1>7. Solitude'
  BY <1>2, <1>3, <1>4, <1>5 DEF PathsInv, Solitude
<1>8. ASSUME NEW u \in Threads, Walking(u)', walk'[u].alone PROVE OnPath(u)'
  <2>1. u = t
    BY <1>3, <1>4, <1>8 DEF PathsInv, Solitude
  <2> QED
    BY <1>2, <1>5, <1>8, <2>1 DEF PathsInv
<1> QED
  BY <1>6, <1>7, <1>8 DEF PathsInv

LEMMA LoadStep ==
    ASSUME PathsInv, NEW t \in Threads, Load(t)
    PROVE  PathsInv'
<1>1. PICK x \in Walks : x = walk[t] /\ x.pc = "load"
  BY DEF Load, PathsInv, PathsTypes
<1>2. walk \in [Threads -> Walks] /\ olds \in Places /\ ended \subseteq Places
  BY DEF PathsInv, PathsTypes
<1>3. PICK w : w = [x EXCEPT !.pc = "token", !.from = olds]
  OBVIOUS
<1>4. /\ w \in Walks /\ w.pc = "token" /\ w.from = olds /\ w.path = x.path
      /\ w.alone = x.alone /\ w.ino = x.ino /\ w.nth = x.nth
  BY <1>1, <1>2, <1>3 DEF Walks
<1>5. walk' = [walk EXCEPT ![t] = w] /\ olds' = olds /\ ended' = ended
  BY <1>1, <1>2, <1>3 DEF Load
<1>6. walk'[t] = w
  BY <1>2, <1>5
<1>7. ASSUME OnPath(t) PROVE OnPath(t)'
  <2>1. PICK node : /\ Trail(x.path, node)
                    /\ \E k \in 1..(Len(x.path) + 1) : Before(t, node, k, olds)
    BY <1>1, <1>7 DEF OnPath
  <2>2. PICK k \in 1..(Len(x.path) + 1) : Before(t, node, k, olds)
    BY <2>1
  <2>3. Before(t, node, k, w.from)'
    BY <1>1, <1>4, <1>5, <1>6, <2>2 DEF Before, Untouched
  <2> QED
    BY <1>4, <1>6, <2>1, <2>2, <2>3 DEF OnPath
<1>8. Walking(t)
  BY <1>1 DEF Walking
<1> QED
  BY <1>1, <1>2, <1>4, <1>5, <1>7, <1>8, OwnStep

LEMMA TokenStep ==
    ASSUME PathsInv, NEW t \in Threads, Token(t)
    PROVE  PathsInv'
<1>1. PICK x \in Walks : x = walk[t] /\ x.pc = "token"
  BY DEF Token, PathsInv, PathsTypes
<1>2. walk \in [Threads -> Walks] /\ olds \in Places /\ ended \subseteq Places
  BY DEF PathsInv, PathsTypes
<1>3. PICK p \in Places : p = x.from
  BY DEF Walks
<1>4. PICK path : path = walk[p.thread].path
  OBVIOUS
<1>5. Walking(t)
  BY <1>1 DEF Walking
<1>6. InUse(p) => /\ p \in [thread : Threads, nth : {0, 1}, at : Nat \ {0}]
                  /\ path \in Paths
  BY <1>3, <1>4 DEF Places, InUse, PathsInv, PathsTypes
<1>7. PICK name \in Names \cup {NoName} :
         /\ walk' = [walk EXCEPT ![t].pc = "lookup", ![t].name = name]
         /\ \/ /\ InUse(p) /\ p.at <= Len(path)
               /\ name = path[p.at]
               /\ olds' = [p EXCEPT !.at = IF p \in ended THEN Len(path) + 1 ELSE p.at + 1]
               /\ ended' = ended \cup {p}
            \/ /\ InUse(p) /\ p.at > Len(path) /\ name = NoName
               /\ olds' = p /\ ended' = ended
            \/ /\ ~InUse(p)
               /\ olds' = p /\ ended' = ended
  <2>1. ASSUME InUse(p), p.at <= Len(path) PROVE path[p.at] \in Names
    <3>1. p.at \in 1..Len(path)
      BY <1>6, <2>1, PathShape
    <3> QED
      BY <1>6, <2>1, <3>1, PathShape
  <2>2. \E name \in Names \cup {NoName} :
           /\ walk' = [walk EXCEPT ![t].pc = "lookup", ![t].name = name]
           /\ \/ /\ InUse(p) /\ p.at <= Len(path) /\ name = path[p.at]
                 /\ olds' = [p EXCEPT !.at = IF p \in ended THEN Len(path) + 1 ELSE p.at + 1]
                 /\ ended' = ended \cup {p}
              \/ /\ InUse(p) /\ p.at > Len(path) /\ name = NoName
                 /\ olds' = p /\ ended' = ended
              \/ ~InUse(p) /\ olds' = p /\ ended' = ended
    BY <1>1, <1>3, <1>4, <2>1 DEF Token
  <2> QED
    BY <2>2
<1>8. PICK w : w = [x EXCEPT !.pc = "lookup", !.name = name]
  OBVIOUS
<1>9. /\ w \in Walks /\ w.pc = "lookup" /\ w.name = name /\ w.path = x.path
      /\ w.alone = x.alone /\ w.ino = x.ino /\ w.nth = x.nth
  BY <1>1, <1>8 DEF Walks
<1>10. walk' = [walk EXCEPT ![t] = w]
  BY <1>1, <1>2, <1>7, <1>8
<1>11. walk'[t] = w
  BY <1>2, <1>10
<1>12. olds' \in Places /\ ended' \subseteq Places
  <2>1. ASSUME InUse(p), p.at <= Len(path) PROVE olds' \in Places
    <3>1. PICK a \in Nat \ {0} : a = IF p \in ended THEN Len(path) + 1 ELSE p.at + 1
      BY <1>6, <2>1, PathShape
    <3>2. olds' = [p EXCEPT !.at = a]
      BY <1>6, <1>7, <2>1, <3>1, PathShape
    <3> QED
      BY <1>6, <2>1, <3>2 DEF Places
  <2>2. CASE InUse(p) /\ p.at <= Len(path)
    BY <1>2, <1>6, <1>7, <2>1, <2>2, PathShape
  <2>3. CASE ~(InUse(p) /\ p.at <= Len(path))
    BY <1>2, <1>7, <2>3
  <2> QED
    BY <2>2, <2>3
<1>13. ASSUME OnPath(t), x.alone PROVE OnPath(t)'
  <2>1. PICK node : /\ Trail(x.path, node)
                    /\ \E k \in 1..(Len(x.path) + 1) : Before(t, node, k, p)
    BY <1>1, <1>3, <1>13 DEF OnPath
  <2>2. PICK k \in 1..(Len(x.path) + 1) : Before(t, node, k, p)
    BY <2>1
  <2>3. x.path \in Paths
    BY <1>1, <1>5 DEF PathsInv, PathsTypes
  <2>4. Len(x.path) \in Nat /\ k \in Nat /\ k >= 1
    BY <2>3, PathShape
  <2>5. p = Place(t, x.nth, k) /\ Untouched(t, k) /\ x.ino = node[k - 1] /\ x.ino # NotFound
    BY <1>1, <2>2 DEF Before
  <2>6. p.thread = t /\ p.nth = x.nth /\ p.at = k
    BY <2>5 DEF Place
  <2>7. InUse(p) /\ path = x.path /\ p \notin ended
    <3>1. p # Nowhere
      BY <2>4, <2>6 DEF Nowhere
    <3>2. p \notin ended
      BY <2>4, <2>5, <2>6 DEF Untouched
    <3> QED
      BY <1>1, <1>4, <1>5, <2>6, <3>1, <3>2 DEF InUse
  <2>8. Holds(t, node, k)'
    <3>1. CASE k <= Len(x.path)
      <4>1. name = x.path[k] /\ ended' = ended \cup {p}
        BY <1>7, <2>4, <2>6, <2>7, <3>1
      <4>2. olds' = [p EXCEPT !.at = k + 1]
        BY <1>7, <2>4, <2>6, <2>7, <3>1
      <4>3. olds' = Place(t, x.nth, k + 1)
        BY <2>5, <4>2 DEF Place
      <4>4. Untouched(t, k + 1)'
        <5> SUFFICES ASSUME NEW q \in ended', q.thread = t PROVE q.at < k + 1
          BY DEF Untouched
        <5>1. CASE q = p
          BY <2>4, <2>6, <5>1
        <5>2. CASE q # p
          <6>1. q \in ended /\ q \in Places
            BY <1>2, <4>1, <5>2
          <6>2. q.at < k
            BY <2>5, <6>1 DEF Untouched
          <6>3. q.at \in Nat
            BY <6>1 DEF Places, Nowhere
          <6> QED
            BY <2>4, <6>2, <6>3
        <5> QED
          BY <5>1, <5>2
      <4> QED
        BY <1>9, <1>11, <2>5, <3>1, <4>1, <4>3, <4>4 DEF Holds
    <3>2. CASE ~(k <= Len(x.path))
      <4>1. k = Len(x.path) + 1 /\ name = NoName
        BY <1>7, <2>4, <2>6, <2>7, <3>2
      <4> QED
        BY <1>9, <1>11, <2>5, <4>1 DEF Holds
    <3> QED
      BY <3>1, <3>2
  <2> QED
    BY <1>9, <1>11, <2>1, <2>2, <2>8 DEF OnPath
<1> QED
  BY <1>1, <1>5, <1>9, <1>10, <1>12, <1>13, OwnStep

LEMMA LookupNameStep ==
    ASSUME PathsInv, NEW t \in Threads, LookupName(t)
    PROVE  PathsInv'
<1>1. PICK x \in Walks : x = walk[t] /\ x.pc = "lookup"
  BY DEF LookupName, PathsInv, PathsTypes
<1>2. walk \in [Threads -> Walks] /\ olds \in Places /\ ended \subseteq Places
  BY DEF PathsInv, PathsTypes
<1>3. Walking(t) /\ UNCHANGED <<olds, ended>>
  BY <1>1 DEF Walking, LookupName
<1>4. PICK found \in Nodes : found = Lookup(x.ino, x.name)
  BY LookupNode
<1>5. ASSUME OnPath(t)
      PROVE  \E node : /\ Trail(x.path, node)
                       /\ \E k \in 1..(Len(x.path) + 1) : Holds(t, node, k)
  BY <1>1, <1>5 DEF OnPath
<1>6. x.path \in Paths
  BY <1>1, <1>3 DEF PathsInv, PathsTypes
<1>7. Len(x.path) \in Nat /\ \A k \in 1..Len(x.path) : x.path[k] \in Names
  BY <1>6, PathShape
<1>8. 1 \in 1..(Len(x.path) + 1)
  BY <1>7
<1>9. CASE x.name = NoName
  <2>1. PICK w : w = [x EXCEPT !.pc = "done"]
    OBVIOUS
  <2>2. w \in Walks /\ w.pc = "done" /\ w.path = x.path /\ w.alone = x.alone /\ w.ino = x.ino
    BY <2>1 DEF Walks
  <2>3. walk' = [walk EXCEPT ![t] = w]
    BY <1>1, <1>2, <1>9, <2>1 DEF LookupName
  <2>4. walk'[t] = w
    BY <1>2, <2>3
  <2>5. ASSUME OnPath(t) PROVE OnPath(t)'
    <3>1. PICK node : /\ Trail(x.path, node)
                      /\ \E k \in 1..(Len(x.path) + 1) : Holds(t, node, k)
      BY <1>5, <2>5
    <3>2. PICK k \in 1..(Len(x.path) + 1) : Holds(t, node, k)
      BY <3>1
    <3>3. ~(k <= Len(x.path))
      <4>1. ASSUME k <= Len(x.path) PROVE x.name = x.path[k]
        BY <1>1, <1>7, <3>2, <4>1 DEF Holds
      <4>2. ASSUME k <= Len(x.path) PROVE FALSE
        BY <1>7, <1>9, <4>1, <4>2, PathsAssumption
      <4> QED
        BY <4>2
    <3>4. k - 1 = Len(x.path)
      BY <1>7, <3>3
    <3>5. x.ino = Resolve(x.path)
      BY <1>1, <3>1, <3>2, <3>4 DEF Holds, Trail
    <3> QED
      BY <1>8, <2>2, <2>4, <3>1, <3>5 DEF OnPath
  <2> QED
    BY <1>1, <1>2, <1>3, <2>2, <2>3, <2>5, OwnStep
\* The name k of an alone walk has been looked up.
<1>10. ASSUME OnPath(t), x.name # NoName
       PROVE  \E node : /\ Trail(x.path, node)
                        /\ \E k \in 1..Len(x.path) :
                              /\ node[k] = found
                              /\ olds = Place(t, x.nth, k + 1)
                              /\ Untouched(t, k + 1)
  <2>1. PICK node : /\ Trail(x.path, node)
                    /\ \E k \in 1..(Len(x.path) + 1) : Holds(t, node, k)
    BY <1>5, <1>10
  <2>2. PICK k \in 1..(Len(x.path) + 1) : Holds(t, node, k)
    BY <2>1
  <2>3. /\ k <= Len(x.path) /\ x.name = x.path[k] /\ x.ino = node[k - 1] /\ x.ino # NotFound
        /\ olds = Place(t, x.nth, k + 1) /\ Untouched(t, k + 1)
    BY <1>1, <1>10, <2>2 DEF Holds
  <2>4. k \in 1..Len(x.path)
    BY <1>7, <2>3
  <2>5. node[k] = found
    BY <1>4, <2>1, <2>3, <2>4 DEF Trail
  <2> QED
    BY <2>1, <2>3, <2>4, <2>5
<1>11. CASE x.name # NoName /\ found = NotFound
  <2>1. PICK w : w = [x EXCEPT !.pc = "done", !.ino = NotFound]
    OBVIOUS
  <2>2. w \in Walks /\ w.pc = "done" /\ w.path = x.path /\ w.alone = x.alone /\ w.ino = NotFound
    BY <1>4, <1>11, <2>1 DEF Walks
  <2>3. walk' = [walk EXCEPT ![t] = w]
    BY <1>1, <1>2, <1>4, <1>11, <2>1 DEF LookupName
  <2>4. walk'[t] = w
    BY <1>2, <2>3
  <2>5. ASSUME OnPath(t) PROVE OnPath(t)'
    <3>1. PICK node : /\ Trail(x.path, node)
                      /\ \E k \in 1..Len(x.path) : node[k] = found
      BY <1>10, <1>11, <2>5
    <3>2. Resolve(x.path) = NotFound
      BY <1>6, <1>11, <3>1, DeadEnd
    <3> QED
      BY <1>8, <2>2, <2>4, <3>1, <3>2 DEF OnPath
  <2> QED
    BY <1>1, <1>2, <1>3, <2>2, <2>3, <2>5, OwnStep
<1>12. CASE x.name # NoName /\ found # NotFound
  <2>1. PICK w : w = [x EXCEPT !.pc = "load", !.ino = found]
    OBVIOUS
  <2>2. /\ w \in Walks /\ w.pc = "load" /\ w.path = x.path /\ w.alone = x.alone
        /\ w.ino = found /\ w.nth = x.nth
    BY <1>4, <2>1 DEF Walks
  <2>3. walk' = [walk EXCEPT ![t] = w]
    BY <1>1, <1>2, <1>4, <1>12, <2>1 DEF LookupName
  <2>4. walk'[t] = w
    BY <1>2, <2>3
  <2>5. ASSUME OnPath(t) PROVE OnPath(t)'
    <3>1. PICK node : /\ Trail(x.path, node)
                      /\ \E k \in 1..Len(x.path) :
                            /\ node[k] = found
                            /\ olds = Place(t, x.nth, k + 1)
                            /\ Untouched(t, k + 1)
      BY <1>10, <1>12, <2>5
    <3>2. PICK k \in 1..Len(x.path) : /\ node[k] = found
                                      /\ olds = Place(t, x.nth, k + 1)
                                      /\ Untouched(t, k + 1)
      BY <3>1
    <3>3. PICK j \in 1..(Len(x.path) + 1) : j = k + 1 /\ j - 1 = k
      BY <1>7
    <3>4. Before(t, node, j, olds)'
      BY <1>3, <1>12, <2>2, <2>4, <3>2, <3>3 DEF Before, Untouched
    <3> QED
      BY <2>2, <2>4, <3>1, <3>3, <3>4 DEF OnPath
  <2> QED
    BY <1>1, <1>2, <1>3, <2>2, <2>3, <2>5, OwnStep
<1> QED
  BY <1>9, <1>11, <1>12

LEMMA ReturnStep ==
    ASSUME PathsInv, NEW t \in Threads, Return(t)
    PROVE  PathsInv'
<1>1. PICK x \in Walks : x = walk[t] /\ x.pc = "done"
  BY DEF Return, PathsInv, PathsTypes
<1>2. walk \in [Threads -> Walks] /\ olds \in Places /\ ended \subseteq Places
  BY DEF PathsInv, PathsTypes
<1>3. PICK w : w = [x EXCEPT !.pc = "idle", !.path = << >>, !.ino = Root,
                             !.from = Nowhere, !.name = NoName, !.alone = TRUE]
  OBVIOUS
<1>4. w \in Walks /\ w.pc = "idle"
  <2>1. Root \in Nodes /\ Nowhere \in Places
    BY DEF Nodes, Places
  <2> QED
    BY <1>3, <2>1 DEF Walks
<1>5. walk' = [walk EXCEPT ![t] = w] /\ UNCHANGED <<olds, ended>>
  BY <1>1, <1>2, <1>3 DEF Return
<1>6. Walking(t)
  BY <1>1 DEF Walking
<1> QED
  BY <1>2, <1>4, <1>5, <1>6, OwnStep

LEMMA PathsStep == PathsInv /\ [PathsNext]_pathVars => PathsInv'
<1> SUFFICES ASSUME PathsInv, [PathsNext]_pathVars PROVE PathsInv'
  OBVIOUS
<1>1. CASE UNCHANGED pathVars
  BY <1>1 DEF pathVars, PathsInv, PathsTypes, Solitude, OnPath, Before, Holds, Untouched, Walking
<1>2. CASE PathsNext
  <2>1. PICK t \in Threads : Step(t) \/ \E path \in Paths : Begin(t, path)
    BY <1>2 DEF PathsNext
  <2> QED
    BY <2>1, BeginStep, LoadStep, TokenStep, LookupNameStep, ReturnStep DEF Step
<1> QED
  BY <1>1, <1>2

(***************************************************************************)
(* For every tree, every number of threads and every length of paths: a    *)
(* walk of lab4_read_inode that no other walk overlaps ends at what its    *)
(* path names, and at ENOENT exactly where the path leads nowhere.         *)
(***************************************************************************)
THEOREM WalksAloneAreRight == PathsSpec => []RightWhenAlone
<1>1. PathsInv => RightWhenAlone
  BY DEF PathsInv, OnPath, RightWhenAlone, Walking
<1> QED
  BY <1>1, PathsStart, PathsStep, PTL DEF PathsSpec
=============================================================================
