--------------------------- MODULE EncodingProofs ---------------------------
(***************************************************************************)
(* The way of a message through the library, proved for every width of a   *)
(* byte, key, header and message: arithmetic of bytes, the strings of a    *)
(* body, headers, the pad, requests, replies, packets on the wire, and at  *)
(* the end the invariant of the state machine and what follows from it.    *)
(*                                                                         *)
(* What a lemma says of all members of a sequence is often an operator of  *)
(* its own (Joined, Fours, RequestLayout, ..), to be expanded where the    *)
(* members are needed.                                                     *)
(***************************************************************************)
EXTENDS Encoding, SequenceTheorems, WellFoundedInduction, TLAPS

-----------------------------------------------------------------------------
(***************************************************************************)
(* Arithmetic of bytes, for every width of a byte.                         *)
(***************************************************************************)
\* A byte has at least four values, a word at least sixteen.
LEMMA ByteModType ==
  /\ Nibble \in Nat /\ Nibble >= 2
  /\ ByteMod \in Nat /\ ByteMod >= 4 /\ ByteMod >= Nibble
  /\ WordMod \in Nat /\ WordMod >= ByteMod /\ WordMod >= 16
<1>1. Nibble \in Nat /\ Nibble >= 2
  BY EncodingAssumption
<1>2. \A m, n \in Nat : m >= 2 /\ n >= m => m * n \in Nat /\ m * n >= 2 * n
  OBVIOUS
<1>3. ByteMod \in Nat /\ ByteMod >= 2 * Nibble
  BY <1>1, <1>2 DEF ByteMod
<1>4. WordMod \in Nat /\ WordMod >= 4 * ByteMod
  <2>1. \A n \in Nat : n >= 4 => n * n >= 4 * n /\ n * n \in Nat
    OBVIOUS
  <2> QED BY <1>1, <1>3, <2>1 DEF WordMod
<1> QED BY <1>1, <1>3, <1>4

\* Products grow with their factors.
LEMMA Product ==
  ASSUME NEW a \in Nat, NEW m \in Nat, NEW n \in Nat
  PROVE  /\ a * n \in Nat
         /\ m < n => a * m + a <= a * n
         /\ m <= n => a * m <= a * n
<1>1. \A d \in Nat : a * d \in Nat /\ (d >= 1 => a * d >= a)
  OBVIOUS
<1>2. ASSUME m <= n PROVE \E d \in Nat : n = m + d /\ a * n = a * m + a * d
  <2>1. n - m \in Nat /\ n = m + (n - m)
    BY <1>2
  <2>2. \A d \in Nat : a * (m + d) = a * m + a * d
    OBVIOUS
  <2> QED BY <2>1, <2>2
<1> QED
  <2>1. a * n \in Nat /\ a * m \in Nat
    BY <1>1
  <2>2. ASSUME m <= n PROVE a * m <= a * n /\ (m < n => a * m + a <= a * n)
    <3>1. PICK d \in Nat : n = m + d /\ a * n = a * m + a * d
      BY <1>2, <2>2
    <3>2. PICK x \in Nat : x = a * d
      BY <1>1
    <3>3. PICK y \in Nat, z \in Nat : y = a * m /\ z = a * n
      BY <2>1
    <3>4. z = y + x /\ (m < n => x >= a)
      BY <1>1, <3>1, <3>2, <3>3
    <3> QED BY <3>3, <3>4
  <2> QED BY <2>1, <2>2

\* A number is quotient times divisor plus remainder ..
LEMMA DivMod ==
  ASSUME NEW n \in Nat, NEW b \in Nat, b > 0
  PROVE  /\ n \div b \in Nat /\ n % b \in 0 .. b - 1
         /\ n = b * (n \div b) + (n % b)
<1>1. PICK q \in Nat : q = n \div b
  OBVIOUS
<1>2. n % b = n - b * (n \div b)
  BY SMT
<1>3. PICK x \in Nat : x = b * q
  BY Product
<1>4. PICK r \in 0 .. b - 1 : r = n % b
  OBVIOUS
<1>5. r = n - x
  BY <1>1, <1>2, <1>3, <1>4
<1>6. n = x + r
  BY <1>5
<1>7. b * (n \div b) + (n % b) = x + r
  <2>1. b * (n \div b) = x
    BY <1>1, <1>3
  <2> QED BY <1>4, <2>1
<1> QED BY <1>1, <1>4, <1>6, <1>7

\* .. and is so in one way.
LEMMA DivModUnique ==
  ASSUME NEW n \in Nat, NEW b \in Nat, b > 0, NEW q \in Nat, NEW r \in 0 .. b - 1,
         n = b * q + r
  PROVE  n \div b = q /\ n % b = r
<1>1. PICK p \in Nat : p = n \div b
  BY DivMod
<1>2. PICK s \in 0 .. b - 1 : s = n % b
  BY DivMod
<1>3. b * q \in Nat /\ b * p \in Nat
  BY Product
<1>4. PICK x \in Nat, y \in Nat : x = b * q /\ y = b * p
  BY <1>3
<1>5. x + r = y + s
  BY <1>1, <1>2, <1>4, DivMod
<1>6. ~(p < q)
  <2> SUFFICES ASSUME p < q PROVE FALSE
    OBVIOUS
  <2>1. y + b <= x
    BY <1>4, Product
  <2> QED BY <1>5, <2>1
<1>7. ~(q < p)
  <2> SUFFICES ASSUME q < p PROVE FALSE
    OBVIOUS
  <2>1. x + b <= y
    BY <1>4, Product
  <2> QED BY <1>5, <2>1
<1>8. p = q
  BY <1>6, <1>7
<1>9. r = s
  BY <1>4, <1>5, <1>8
<1> QED BY <1>1, <1>2, <1>8, <1>9

\* Bytes are numbers.
LEMMA ByteNat ==
  /\ Byte \subseteq Nat
  /\ \A n \in Nat : n \in Byte <=> n < ByteMod
<1>1. PICK B \in Nat : B = ByteMod /\ B >= 4
  BY ByteModType
<1> QED BY <1>1 DEF Byte

\* A byte is cut to itself.
LEMMA U8Type == ASSUME NEW n \in Nat PROVE U8(n) \in Byte /\ (n \in Byte => U8(n) = n)
<1>1. U8(n) \in Byte
  BY ByteModType, DivMod DEF U8, Byte
<1>2. ASSUME n \in Byte PROVE U8(n) = n
  <2>1. n = ByteMod * 0 + n
    BY ByteModType
  <2> QED BY <1>2, <2>1, ByteModType, DivModUnique DEF U8, Byte
<1> QED BY <1>1, <1>2

\* Two bytes are a number below WordMod, and the number tells which.
LEMMA TwoBytes ==
  ASSUME NEW a \in Byte, NEW b \in Byte
  PROVE  /\ a * ByteMod + b \in 0 .. WordMod - 1
         /\ U16(a * ByteMod + b) = <<a, b>>
<1>1. PICK B \in Nat : B = ByteMod /\ B >= 4
  BY ByteModType
<1>2. a \in Nat /\ b \in Nat /\ a < B /\ b < B
  BY <1>1 DEF Byte
<1>3. a * B = B * a
  BY <1>1, <1>2
<1>4. PICK x \in Nat : x = B * a
  BY <1>1, <1>2, Product
<1>5. PICK w \in Nat : w = WordMod
  BY ByteModType
<1>6. x + B <= w
  <2>1. B * a + B <= B * B
    BY <1>1, <1>2, Product
  <2> QED BY <1>1, <1>4, <1>5, <2>1 DEF WordMod
<1>7. x + b \in 0 .. w - 1
  BY <1>1, <1>2, <1>6
<1>8. (x + b) \div B = a /\ (x + b) % B = b
  BY <1>1, <1>2, <1>4, DivModUnique
<1>9. U8(a) = a
  BY <1>2, U8Type
<1> QED BY <1>1, <1>3, <1>4, <1>5, <1>7, <1>8, <1>9 DEF U16, U8

\* A number cut to two bytes is its remainder.
LEMMA U16Value ==
  ASSUME NEW n \in Nat
  PROVE  /\ U16(n) \in Seq(Byte) /\ Len(U16(n)) = 2
         /\ U16(n)[1] * ByteMod + U16(n)[2] = n % WordMod
         /\ n \in 0 .. WordMod - 1 => n % WordMod = n
<1>1. PICK B \in Nat : B = ByteMod /\ B >= 4
  BY ByteModType
<1>2. PICK m \in Nat, r0 \in 0 .. B - 1 : m = n \div B /\ r0 = n % B /\ n = B * m + r0
  BY <1>1, DivMod
<1>3. PICK q \in Nat, r1 \in 0 .. B - 1 : q = m \div B /\ r1 = m % B /\ m = B * q + r1
  BY <1>1, DivMod
<1>4. U16(n) = <<r1, r0>>
  BY <1>1, <1>2, <1>3 DEF U16, U8
<1>5. r0 \in Byte /\ r1 \in Byte
  BY <1>1 DEF Byte
<1>6. PICK x \in Nat : x = r1 * B + r0 /\ x \in 0 .. WordMod - 1
  <2>1. r1 * ByteMod + r0 \in 0 .. WordMod - 1
    BY <1>5, TwoBytes
  <2> QED BY <1>1, <2>1, ByteModType
<1>7. n = WordMod * q + x
  <2>1. B * (B * q + r1) + r0 = (B * B) * q + (r1 * B + r0)
    OBVIOUS
  <2> QED BY <1>1, <1>2, <1>3, <1>6, <2>1 DEF WordMod
<1>8. n % WordMod = x
  BY <1>6, <1>7, ByteModType, DivModUnique
<1>9. ASSUME n \in 0 .. WordMod - 1 PROVE n % WordMod = n
  <2>1. n = WordMod * 0 + n
    BY ByteModType
  <2> QED BY <1>9, <2>1, ByteModType, DivModUnique
<1> QED BY <1>1, <1>4, <1>5, <1>6, <1>8, <1>9

\* A number cut to four bytes is no larger, and the same if it fits.
LEMMA U32Value ==
  ASSUME NEW n \in Nat
  PROVE  /\ U32(n) \in Seq(Byte) /\ Len(U32(n)) = 4
         /\ U32At(U32(n), 1) \in Quad /\ U32At(U32(n), 1) <= n
         /\ n \in Quad => U32At(U32(n), 1) = n
<1>0. PICK q : q = U32(n)
  OBVIOUS
<1>1. PICK W \in Nat : W = WordMod /\ W >= 16
  BY ByteModType
<1>2. PICK m \in Nat, s \in 0 .. W - 1 : m = n \div W /\ s = n % W /\ n = W * m + s
  BY <1>1, DivMod
<1>3. PICK f \in 0 .. W - 1 : f = m % W
  BY <1>1, DivMod
<1>4. PICK u \in Seq(Byte) : u = U16(m) /\ Len(u) = 2 /\ u[1] * ByteMod + u[2] = f
  BY <1>1, <1>3, U16Value
<1>5. PICK t \in Seq(Byte) : t = U16(n) /\ Len(t) = 2 /\ t[1] * ByteMod + t[2] = s
  BY <1>1, <1>2, U16Value
<1>6. q = <<u[1], u[2], t[1], t[2]>>
  BY <1>0, <1>1, <1>2, <1>4, <1>5 DEF U32, U16
<1>7. /\ q \in Seq(Byte) /\ Len(q) = 4
      /\ q[1] = u[1] /\ q[2] = u[2] /\ q[3] = t[1] /\ q[4] = t[2]
  <2>1. u[1] \in Byte /\ u[2] \in Byte /\ t[1] \in Byte /\ t[2] \in Byte
    <3>1. 1 \in 1 .. 2 /\ 2 \in 1 .. 2
      OBVIOUS
    <3> QED BY <1>4, <1>5, <3>1, ElementOfSeq
  <2> QED BY <1>6, <2>1
<1>8. f <= m /\ (n \in Quad => f = m)
  <2>1. f <= m
    <3>1. PICK p \in Nat : m = W * p + f /\ W * p \in Nat
      <4>1. m \div W \in Nat /\ m = W * (m \div W) + (m % W)
        BY <1>1, DivMod
      <4>2. PICK p \in Nat : p = m \div W
        BY <4>1
      <4>3. W * p \in Nat
        BY <1>1, Product
      <4> QED BY <1>3, <4>1, <4>2, <4>3
    <3>2. PICK x \in Nat : x = W * p
      BY <3>1
    <3> QED BY <3>1, <3>2
  <2>2. ASSUME n \in Quad PROVE f = m
    <3>1. m < W
      <4> SUFFICES ASSUME W <= m PROVE FALSE
        BY <1>1
      <4>1. W * W <= W * m /\ W * W \in Nat /\ W * m \in Nat
        BY <1>1, Product
      <4>2. PICK x \in Nat, y \in Nat : x = W * W /\ y = W * m
        BY <4>1
      <4>3. x <= y /\ n = y + s /\ n <= x - 1
        BY <1>1, <1>2, <2>2, <4>1, <4>2 DEF Quad
      <4> QED BY <4>3
    <3>2. m = W * 0 + m
      BY <1>1
    <3> QED BY <1>1, <1>3, <3>1, <3>2, DivModUnique
  <2> QED BY <2>1, <2>2
<1>9. PICK x \in Nat, y \in Nat, z \in Nat : x = W * f /\ y = W * m /\ z = W * W
  BY <1>1, <1>3, Product
<1>10. x <= y /\ x + W <= z
  BY <1>1, <1>3, <1>8, <1>9, Product
<1>11. f * W = x
  BY <1>1, <1>3, <1>9
<1>12. PICK v \in Nat : v = x + s
  OBVIOUS
<1>13. v \in Quad
  <2>1. Quad = 0 .. z - 1
    BY <1>1, <1>9 DEF Quad
  <2> QED BY <1>1, <1>10, <1>12, <2>1
<1>14. v <= n /\ (n \in Quad => v = n)
  <2>1. n = y + s
    BY <1>2, <1>9
  <2>2. v <= n
    BY <1>10, <1>12, <2>1
  <2>3. ASSUME n \in Quad PROVE v = n
    BY <1>8, <1>9, <1>12, <2>1, <2>3
  <2> QED BY <2>2, <2>3
<1>15. v = (q[1] * ByteMod + q[2]) * WordMod + (q[3] * ByteMod + q[4])
  BY <1>1, <1>4, <1>5, <1>7, <1>11, <1>12
<1>16. U32At(q, 1) = v
  BY <1>15 DEF U32At, U16At
<1> QED BY <1>0, <1>7, <1>13, <1>14, <1>16

\* The same four bytes are the same number.
LEMMA U32Same ==
  ASSUME NEW data, NEW q, NEW k \in Nat, \A i \in 1 .. 4 : data[k + i] = q[i]
  PROVE  U32At(data, k + 1) = U32At(q, 1)
<1>1. data[k + 1] = q[1] /\ data[k + 2] = q[2] /\ data[k + 3] = q[3] /\ data[k + 4] = q[4]
  OBVIOUS
<1>2. (k + 1) + 1 = k + 2 /\ (k + 1) + 2 = k + 3 /\ (k + 3) + 1 = k + 4
  OBVIOUS
<1>3. 1 + 1 = 2 /\ 1 + 2 = 3 /\ 3 + 1 = 4
  OBVIOUS
<1> QED BY <1>1, <1>2, <1>3, Zenon DEF U32At, U16At

\* Four bytes are a number, and the number tells which.
LEMMA FourBytes ==
  ASSUME NEW a \in Byte, NEW b \in Byte, NEW c \in Byte, NEW d \in Byte
  PROVE  /\ (a * ByteMod + b) * WordMod + (c * ByteMod + d) \in Quad
         /\ U32((a * ByteMod + b) * WordMod + (c * ByteMod + d)) = <<a, b, c, d>>
<1>1. PICK B \in Nat : B = ByteMod /\ B >= 4
  BY ByteModType
<1>2. PICK W \in Nat : W = WordMod /\ W >= 16
  BY ByteModType
<1>3. PICK x \in 0 .. W - 1 : x = a * B + b /\ U16(x) = <<a, b>>
  BY <1>1, <1>2, TwoBytes
<1>4. PICK y \in 0 .. W - 1 : y = c * B + d
  BY <1>1, <1>2, TwoBytes
<1>5. PICK p \in Nat : p = W * x /\ p + W <= W * W /\ W * W \in Nat
  BY <1>2, <1>3, Product
<1>6. PICK v \in Nat : v = p + y /\ v \in Quad
  <2>1. PICK z \in Nat : z = W * W
    BY <1>5
  <2> QED BY <1>2, <1>4, <1>5, <2>1 DEF Quad
<1>7. v \div W = x
  BY <1>2, <1>3, <1>4, <1>5, <1>6, DivModUnique
<1>8. a \in Nat /\ b \in Nat /\ c \in 0 .. B - 1 /\ d \in 0 .. B - 1
  BY <1>1 DEF Byte
<1>9. PICK m \in Nat : m = B * x + c
  <2>1. B * x \in Nat
    BY <1>1, <1>3, Product
  <2>2. PICK z \in Nat : z = B * x
    BY <2>1
  <2> QED BY <1>8, <2>2
<1>10. v = B * m + d
  <2>1. B * (B * x + c) + d = (B * B) * x + (c * B + d)
    BY <1>1, <1>3, <1>8
  <2> QED BY <1>1, <1>2, <1>4, <1>5, <1>6, <1>9, <2>1 DEF WordMod
<1>11. v \div B = m /\ v % B = d
  BY <1>1, <1>8, <1>10, DivModUnique
<1>12. m % B = c
  BY <1>1, <1>3, <1>8, <1>9, DivModUnique
<1>13. U16(v) = <<c, d>>
  BY <1>1, <1>11, <1>12 DEF U16, U8
<1>14. U8(x \div B) = a /\ U8(x) = b /\ U8(v \div B) = c /\ U8(v) = d
  BY <1>1, <1>3, <1>13 DEF U16
<1>15. U32(v) = <<a, b, c, d>>
  BY <1>1, <1>2, <1>7, <1>14 DEF U32
<1>16. v = (a * ByteMod + b) * WordMod + (c * ByteMod + d)
  <2>1. x * W = p
    BY <1>2, <1>3, <1>5
  <2> QED BY <1>1, <1>2, <1>3, <1>4, <1>6, <2>1
<1> QED BY <1>6, <1>15, <1>16

-----------------------------------------------------------------------------
(***************************************************************************)
(* Induction, in the form the provers can use: a set of numbers with 0 and *)
(* the successor of each of its members holds all of them.                 *)
(***************************************************************************)
\* A set of numbers has a least member.
LEMMA LeastNumber ==
  ASSUME NEW T, T \subseteq Nat, T # {}
  PROVE  \E n \in T : \A k \in T : n <= k
<1> DEFINE R == OpToRel(<, Nat)
<1>1. IsWellFoundedOn(R, Nat)
  BY NatLessThanWellFounded
<1>2. \A x, y \in Nat : y < x => <<y, x>> \in R
  BY DEF OpToRel
<1> HIDE DEF R
<1>3. PICK n \in T : \A y \in T : ~ (<<y, n>> \in R)
  BY <1>1, WFMin
<1>4. ASSUME NEW k \in T PROVE n <= k
  <2>1. n \in Nat /\ k \in Nat
    OBVIOUS
  <2>2. ~(k < n)
    BY <1>2, <1>3, <2>1
  <2> QED BY <2>1, <2>2
<1> QED
  BY <1>4

\* So one with 0 and all successors holds all numbers.
LEMMA Induction ==
  ASSUME NEW S, 0 \in S, \A n \in Nat : n \in S => n + 1 \in S
  PROVE  \A n \in Nat : n \in S
<1> SUFFICES ASSUME NEW m \in Nat, m \notin S PROVE FALSE
  OBVIOUS
<1> DEFINE T == Nat \ S
<1>1. PICK n \in T : \A k \in T : n <= k
  <2>1. T \subseteq Nat /\ T # {}
    OBVIOUS
  <2> HIDE DEF T
  <2> QED BY <2>1, LeastNumber
<1>2. n \in Nat /\ n # 0 /\ n \notin S
  BY <1>1
<1>3. n - 1 \in Nat /\ (n - 1) + 1 = n /\ ~(n <= n - 1)
  BY <1>2
<1>4. n - 1 \in S
  BY <1>1, <1>3
<1> QED
  BY <1>2, <1>3, <1>4

-----------------------------------------------------------------------------
\* The c members after the first x.
LEMMA Slice ==
  ASSUME NEW S, NEW data \in Seq(S), NEW x \in Nat, NEW c \in Nat, x + c <= Len(data),
         NEW r, r = SubSeq(data, x + 1, x + c)
  PROVE  /\ r \in Seq(S) /\ Len(r) = c
         /\ \A i \in 1 .. c : r[i] = data[x + i]
<1>1. PICK m \in Nat, n \in Nat : m = x + 1 /\ n = x + c
  OBVIOUS
<1>2. PICK l \in Nat : l = Len(data)
  OBVIOUS
<1>3. 1 <= m /\ n <= l
  BY <1>1, <1>2
<1>4. n - m + 1 = c
  BY <1>1
<1>5. m <= n <=> c # 0
  BY <1>1
<1>6. \A i \in m .. n : i \in 1 .. Len(data)
  BY <1>1, <1>2, <1>3
<1>7. \A i \in m .. n : data[i] \in S
  BY <1>6, ElementOfSeq
<1>8. /\ SubSeq(data, m, n) \in Seq(S)
      /\ Len(SubSeq(data, m, n)) = IF m <= n THEN n - m + 1 ELSE 0
      /\ \A i \in 1 .. n - m + 1 : SubSeq(data, m, n)[i] = data[m + i - 1]
  BY <1>7, SubSeqProperties
<1>9. \A i \in 1 .. c : m + i - 1 = x + i
  BY <1>1
<1>10. Len(SubSeq(data, m, n)) = c
  BY <1>4, <1>5, <1>8
<1>11. \A i \in 1 .. c : SubSeq(data, m, n)[i] = data[x + i]
  BY <1>4, <1>8, <1>9
<1> QED BY <1>1, <1>8, <1>10, <1>11

\* The members of two sequences, one after the other.
Joined(q, a, b, m, n) ==
  /\ Len(q) = m + n
  /\ \A i \in 1 .. m : q[i] = a[i]
  /\ \A i \in 1 .. n : q[m + i] = b[i]

\* A concatenation has the members of both.
LEMMA Join ==
  ASSUME NEW S, NEW a \in Seq(S), NEW b \in Seq(S),
         NEW m \in Nat, NEW n \in Nat, m = Len(a), n = Len(b)
  PROVE  a \o b \in Seq(S) /\ Joined(a \o b, a, b, m, n)
<1>1. PICK q \in Seq(S) : q = a \o b
  BY ConcatProperties
<1>2. /\ Len(q) = Len(a) + Len(b)
      /\ \A i \in 1 .. Len(a) + Len(b) :
           q[i] = IF i <= Len(a) THEN a[i] ELSE b[i - Len(a)]
  BY <1>1, ConcatProperties
<1>3. \A i \in 1 .. m : i \in 1 .. m + n /\ i <= m
  OBVIOUS
<1>4. \A i \in 1 .. n : m + i \in 1 .. m + n /\ ~(m + i <= m) /\ (m + i) - m = i
  OBVIOUS
<1>5. \A i \in 1 .. m : q[i] = a[i]
  BY <1>2, <1>3, Zenon
<1>6. \A i \in 1 .. n : q[m + i] = b[i]
  <2>1. \A i \in 1 .. n : q[m + i] = b[(m + i) - m]
    BY <1>2, <1>4, Zenon
  <2> QED BY <1>4, <2>1, Zenon
<1> QED BY <1>1, <1>2, <1>5, <1>6, Zenon DEF Joined

-----------------------------------------------------------------------------
(***************************************************************************)
(* Strings one after the other: where each ends, and what is there.        *)
(***************************************************************************)
EndsEq(sizes, n, f) == f = [k \in 0 .. n |-> IF k = 0 THEN 0 ELSE f[k - 1] + sizes[k]]

\* The recursive function of Ends exists ..
LEMMA EndsExist == ASSUME NEW sizes PROVE \A n \in Nat : \E f : EndsEq(sizes, n, f)
<1> DEFINE S == {n \in Nat : \E f : EndsEq(sizes, n, f)}
<1>1. 0 \in S
  <2> DEFINE f == [k \in 0 .. 0 |-> 0]
  <2>1. EndsEq(sizes, 0, f)
    BY DEF EndsEq
  <2> QED BY <2>1
<1>2. ASSUME NEW n \in Nat, n \in S PROVE n + 1 \in S
  <2>1. PICK f : EndsEq(sizes, n, f)
    BY <1>2
  <2> DEFINE g == [k \in 0 .. n + 1 |-> IF k = n + 1 THEN f[n] + sizes[n + 1] ELSE f[k]]
  <2>2. ASSUME NEW k \in 0 .. n + 1 PROVE g[k] = IF k = 0 THEN 0 ELSE g[k - 1] + sizes[k]
    BY <2>1 DEF EndsEq
  <2>3. EndsEq(sizes, n + 1, g)
    BY <2>2 DEF EndsEq
  <2> HIDE DEF g
  <2> QED BY <2>3
<1> HIDE DEF S
<1>3. \A n \in Nat : n \in S
  BY <1>1, <1>2, Induction
<1> QED BY <1>3 DEF S

\* .. so Ends is one ..
LEMMA EndsAre ==
  ASSUME NEW sizes, Len(sizes) \in Nat
  PROVE  EndsEq(sizes, Len(sizes), Ends(sizes))
<1>1. \E f : EndsEq(sizes, Len(sizes), f)
  BY EndsExist
<1> QED BY <1>1 DEF Ends, EndsEq

\* .. and each end is the end before and the size.
LEMMA EndsStep ==
  ASSUME NEW sizes \in Seq(Nat)
  PROVE  /\ Ends(sizes)[0] = 0
         /\ \A k \in 0 .. Len(sizes) : Ends(sizes)[k] \in Nat
         /\ \A k \in 1 .. Len(sizes) :
              Ends(sizes)[k] = Ends(sizes)[k - 1] + sizes[k] /\ sizes[k] \in Nat
<1>1. PICK f : f = Ends(sizes)
  OBVIOUS
<1>2. PICK n \in Nat : n = Len(sizes)
  OBVIOUS
<1>3. f = [k \in 0 .. n |-> IF k = 0 THEN 0 ELSE f[k - 1] + sizes[k]]
  BY <1>1, <1>2, EndsAre DEF EndsEq
<1>4. f[0] = 0 /\ \A k \in 1 .. n : f[k] = f[k - 1] + sizes[k]
  BY <1>3
<1>5. \A k \in 1 .. n : sizes[k] \in Nat
  BY <1>2
<1> DEFINE S == {k \in Nat : k \in 0 .. n => f[k] \in Nat}
<1>6. 0 \in S
  BY <1>4
<1>7. ASSUME NEW k \in Nat, k \in S PROVE k + 1 \in S
  <2> SUFFICES ASSUME k + 1 \in 0 .. n PROVE f[k + 1] \in Nat
    OBVIOUS
  <2>1. k + 1 \in 1 .. n /\ k \in 0 .. n /\ (k + 1) - 1 = k
    OBVIOUS
  <2>2. f[k] \in Nat
    BY <1>7, <2>1
  <2> QED BY <1>4, <1>5, <2>1, <2>2
<1> HIDE DEF S
<1>8. \A k \in Nat : k \in S
  BY <1>6, <1>7, Induction
<1>9. \A k \in 0 .. n : f[k] \in Nat
  BY <1>8 DEF S
<1> QED BY <1>1, <1>2, <1>4, <1>5, <1>9

\* The ends grow.
LEMMA EndsGrow ==
  ASSUME NEW sizes \in Seq(Nat)
  PROVE  \A k \in 0 .. Len(sizes) : \A j \in 0 .. k : Ends(sizes)[j] <= Ends(sizes)[k]
<1>1. PICK f : f = Ends(sizes)
  OBVIOUS
<1>2. PICK n \in Nat : n = Len(sizes)
  OBVIOUS
<1>3. /\ \A k \in 0 .. n : f[k] \in Nat
      /\ \A k \in 1 .. n : f[k] = f[k - 1] + sizes[k] /\ sizes[k] \in Nat
  BY <1>1, <1>2, EndsStep
<1> DEFINE S == {k \in Nat : k \in 0 .. n => \A j \in 0 .. k : f[j] <= f[k]}
<1>4. 0 \in S
  BY <1>3
<1>5. ASSUME NEW k \in Nat, k \in S PROVE k + 1 \in S
  <2> SUFFICES ASSUME k + 1 \in 0 .. n, NEW j \in 0 .. k + 1 PROVE f[j] <= f[k + 1]
    OBVIOUS
  <2>1. k + 1 \in 1 .. n /\ k \in 0 .. n /\ (k + 1) - 1 = k
    OBVIOUS
  <2>2. PICK x \in Nat, y \in Nat : x = f[k] /\ y = f[k + 1] /\ x <= y
    <3>1. f[k + 1] = f[k] + sizes[k + 1] /\ sizes[k + 1] \in Nat /\ f[k] \in Nat
      BY <1>3, <2>1
    <3> QED BY <3>1
  <2>3. CASE j = k + 1
    BY <2>2, <2>3
  <2>4. CASE j \in 0 .. k
    <3>1. f[j] <= x
      BY <1>5, <2>1, <2>2, <2>4
    <3>2. f[j] \in Nat
      BY <1>3, <2>1, <2>4
    <3> QED BY <2>2, <3>1, <3>2
  <2> QED BY <2>3, <2>4
<1> HIDE DEF S
<1>6. \A k \in Nat : k \in S
  BY <1>4, <1>5, Induction
<1>7. \A k \in 0 .. n : \A j \in 0 .. k : f[j] <= f[k]
  BY <1>6 DEF S
<1> QED BY <1>1, <1>2, <1>7

\* Every position before the end of the strings is in one of them.
LEMMA EndsCover ==
  ASSUME NEW sizes \in Seq(Nat)
  PROVE  \A p \in 1 .. Total(sizes) : \E k \in 1 .. Len(sizes) : \E i \in 1 .. sizes[k] :
           p = Ends(sizes)[k - 1] + i
<1>1. PICK f : f = Ends(sizes)
  OBVIOUS
<1>2. PICK n \in Nat : n = Len(sizes)
  OBVIOUS
<1>3. /\ f[0] = 0
      /\ \A k \in 0 .. n : f[k] \in Nat
      /\ \A k \in 1 .. n : f[k] = f[k - 1] + sizes[k] /\ sizes[k] \in Nat
  BY <1>1, <1>2, EndsStep
<1> DEFINE Covered(p) == \E k \in 1 .. n : \E i \in 1 .. sizes[k] : p = f[k - 1] + i
           S == {k \in Nat : k \in 0 .. n => \A p \in 1 .. f[k] : Covered(p)}
<1>4. 0 \in S
  BY <1>3
<1>5. ASSUME NEW k \in Nat, k \in S PROVE k + 1 \in S
  <2> SUFFICES ASSUME k + 1 \in 0 .. n, NEW p \in 1 .. f[k + 1] PROVE Covered(p)
    OBVIOUS
  <2>1. k + 1 \in 1 .. n /\ k \in 0 .. n /\ (k + 1) - 1 = k
    OBVIOUS
  <2>2. PICK x \in Nat, s \in Nat : x = f[k] /\ s = sizes[k + 1] /\ f[k + 1] = x + s
    BY <1>3, <2>1
  <2>3. CASE p <= x
    <3>1. p \in 1 .. f[k]
      BY <2>2, <2>3
    <3> QED BY <1>5, <2>1, <3>1
  <2>4. CASE p > x
    <3>1. PICK i \in 1 .. s : p = x + i
      <4>1. p - x \in 1 .. s /\ p = x + (p - x)
        BY <2>2, <2>4, SMTT(30)
      <4> QED BY <4>1
    <3>2. i \in 1 .. sizes[k + 1] /\ p = f[(k + 1) - 1] + i
      BY <2>1, <2>2, <3>1
    <3> QED BY <2>1, <3>2
  <2> QED BY <2>2, <2>3, <2>4
<1> HIDE DEF S, Covered
<1>6. \A k \in Nat : k \in S
  BY <1>4, <1>5, Induction
<1>7. \A p \in 1 .. f[n] : Covered(p)
  BY <1>6 DEF S
<1> QED BY <1>1, <1>2, <1>7 DEF Total, Covered

Lens(strings) == [k \in 1 .. Len(strings) |-> Len(strings[k])]

\* The lengths of the strings are numbers.
LEMMA LensType ==
  ASSUME NEW strings \in Seq(Seq(Byte))
  PROVE  /\ Lens(strings) \in Seq(Nat) /\ Len(Lens(strings)) = Len(strings)
         /\ \A k \in 1 .. Len(strings) : Lens(strings)[k] = Len(strings[k])
<1>1. \A k \in 1 .. Len(strings) : Len(strings[k]) \in Nat
  OBVIOUS
<1> QED BY <1>1 DEF Lens

FlatEq(seqs, n, f) == f = [i \in 1 .. n |-> IF i = 1 THEN seqs[i] ELSE f[i - 1] \o seqs[i]]

\* The same of the recursive function of FlattenSeq.
LEMMA FlatExist == ASSUME NEW seqs PROVE \A n \in Nat : \E f : FlatEq(seqs, n, f)
<1> DEFINE S == {n \in Nat : \E f : FlatEq(seqs, n, f)}
<1>1. 0 \in S
  <2> DEFINE f == [k \in 1 .. 0 |-> 0]
  <2>1. FlatEq(seqs, 0, f)
    BY DEF FlatEq
  <2> QED BY <2>1
<1>2. ASSUME NEW n \in Nat, n \in S PROVE n + 1 \in S
  <2>1. PICK f : FlatEq(seqs, n, f)
    BY <1>2
  <2> DEFINE last == IF n = 0 THEN seqs[1] ELSE f[n] \o seqs[n + 1]
             g == [k \in 1 .. n + 1 |-> IF k = n + 1 THEN last ELSE f[k]]
  <2>2. ASSUME NEW k \in 1 .. n + 1
        PROVE  g[k] = IF k = 1 THEN seqs[k] ELSE g[k - 1] \o seqs[k]
    <3>1. CASE k = n + 1
      BY <2>1, <3>1 DEF FlatEq
    <3>2. CASE k # n + 1
      <4>1. k \in 1 .. n /\ g[k] = f[k] /\ (k # 1 => g[k - 1] = f[k - 1])
        BY <3>2
      <4> QED BY <2>1, <4>1 DEF FlatEq
    <3> QED BY <3>1, <3>2
  <2>3. FlatEq(seqs, n + 1, g)
    BY <2>2 DEF FlatEq
  <2> HIDE DEF g
  <2> QED BY <2>3
<1> HIDE DEF S
<1>3. \A n \in Nat : n \in S
  BY <1>1, <1>2, Induction
<1> QED BY <1>3 DEF S

\* FlattenSeq is that function's last value.
LEMMA FlattenIs ==
  ASSUME NEW seqs, Len(seqs) \in Nat, Len(seqs) # 0
  PROVE  \E f : FlatEq(seqs, Len(seqs), f) /\ FlattenSeq(seqs) = f[Len(seqs)]
<1> DEFINE f == CHOOSE f : FlatEq(seqs, Len(seqs), f)
<1>1. FlatEq(seqs, Len(seqs), f)
  BY FlatExist
<1>2. FlattenSeq(seqs) = f[Len(seqs)]
  BY DEF FlattenSeq, FlatEq
<1> HIDE DEF f
<1> QED BY <1>1, <1>2

\* What FlattenSeq makes of strings: each where the sizes say.
FlatParts(strings, q, n) ==
  /\ q \in Seq(Byte) /\ Len(q) = Ends(Lens(strings))[n]
  /\ \A k \in 1 .. n : \A i \in 1 .. Len(strings[k]) :
       q[Ends(Lens(strings))[k - 1] + i] = strings[k][i]

\* One more sequence leaves the parts before where they were.
LEMMA FlatPartsMore ==
  ASSUME NEW strings \in Seq(Seq(Byte)), NEW n \in 1 .. Len(strings) - 1,
         NEW q, FlatParts(strings, q, n)
  PROVE  FlatParts(strings, q \o strings[n + 1], n + 1)
<1>1. PICK e : e = Ends(Lens(strings))
  OBVIOUS
<1>2. PICK N \in Nat : N = Len(strings)
  OBVIOUS
<1>3. n \in Nat /\ n + 1 \in 1 .. N /\ n \in 1 .. N /\ (n + 1) - 1 = n
  BY <1>2
<1>4. PICK s \in Seq(Byte), l \in Nat : s = strings[n + 1] /\ l = Len(s)
  BY <1>2, <1>3
<1>5. /\ \A k \in 0 .. N : e[k] \in Nat
      /\ \A k \in 1 .. N : e[k] = e[k - 1] + Len(strings[k]) /\ Len(strings[k]) \in Nat
  <2>1. Lens(strings) \in Seq(Nat) /\ Len(Lens(strings)) = N
    BY <1>2, LensType
  <2>2. \A k \in 1 .. N : Lens(strings)[k] = Len(strings[k]) /\ Len(strings[k]) \in Nat
    BY <1>2, LensType
  <2> QED BY <1>1, <2>1, <2>2, EndsStep
<1>6. PICK m \in Nat : m = e[n] /\ q \in Seq(Byte) /\ Len(q) = m
  BY <1>1, <1>3, <1>5 DEF FlatParts
<1>0. PICK r : r = q \o s
  OBVIOUS
<1>7. /\ r \in Seq(Byte) /\ Len(r) = m + l
      /\ \A j \in 1 .. m + l : r[j] = IF j <= m THEN q[j] ELSE s[j - m]
  <2>1. /\ q \o s \in Seq(Byte) /\ Len(q \o s) = Len(q) + Len(s)
        /\ \A j \in 1 .. Len(q) + Len(s) :
             (q \o s)[j] = IF j <= Len(q) THEN q[j] ELSE s[j - Len(q)]
    BY <1>4, <1>6, ConcatProperties
  <2> QED BY <1>0, <1>4, <1>6, <2>1
<1>8. e[n + 1] = m + l
  BY <1>3, <1>4, <1>5, <1>6
<1>9. ASSUME NEW k \in 1 .. n + 1, NEW i \in 1 .. Len(strings[k])
      PROVE  r[e[k - 1] + i] = strings[k][i]
  <2>1. CASE k = n + 1
    <3>1. i \in 1 .. l /\ e[k - 1] = m
      BY <1>3, <1>4, <1>6, <2>1
    <3>2. m + i \in 1 .. m + l /\ ~(m + i <= m) /\ (m + i) - m = i
      BY <3>1
    <3> QED BY <1>4, <1>7, <2>1, <3>1, <3>2
  <2>2. CASE k \in 1 .. n
    <3>1. q[e[k - 1] + i] = strings[k][i]
      BY <1>1, <2>2 DEF FlatParts
    <3>2. PICK x \in Nat, y \in Nat, c \in Nat :
            x = e[k - 1] /\ y = e[k] /\ c = Len(strings[k]) /\ y = x + c
      <4>1. k \in 1 .. N /\ k - 1 \in 0 .. N /\ k \in 0 .. N
        BY <1>3, <2>2
      <4> QED BY <1>5, <4>1
    <3>3. y <= m
      <4>1. Lens(strings) \in Seq(Nat) /\ Len(Lens(strings)) = N
        BY <1>2, LensType
      <4>2. n \in 0 .. N /\ k \in 0 .. n
        BY <1>3, <2>2
      <4> QED BY <1>1, <1>6, <3>2, <4>1, <4>2, EndsGrow
    <3>4. x + i \in 1 .. m + l /\ x + i <= m
      <4>1. i \in 1 .. c
        BY <3>2
      <4>2. x + c <= m
        BY <3>2, <3>3
      <4> HIDE <1>9
      <4> QED BY <4>1, <4>2
    <3> QED BY <1>7, <3>1, <3>2, <3>4
  <2>3. k = n + 1 \/ k \in 1 .. n
    BY <1>3
  <2> QED BY <2>1, <2>2, <2>3
<1> QED BY <1>0, <1>1, <1>4, <1>7, <1>8, <1>9 DEF FlatParts

\* Each sequence is found between its ends.
LEMMA FlattenParts ==
  ASSUME NEW strings \in Seq(Seq(Byte))
  PROVE  FlatParts(strings, FlattenSeq(strings), Len(strings))
<1>1. PICK N \in Nat : N = Len(strings)
  OBVIOUS
<1>2. PICK e : e = Ends(Lens(strings))
  OBVIOUS
<1>3. /\ e[0] = 0
      /\ \A k \in 1 .. N : e[k] = e[k - 1] + Len(strings[k]) /\ Len(strings[k]) \in Nat
  <2>1. Lens(strings) \in Seq(Nat) /\ Len(Lens(strings)) = N
    BY <1>1, LensType
  <2>2. \A k \in 1 .. N : Lens(strings)[k] = Len(strings[k]) /\ Len(strings[k]) \in Nat
    BY <1>1, LensType
  <2> QED BY <1>2, <2>1, <2>2, EndsStep
<1>4. CASE N = 0
  <2>1. Len(strings) = 0
    BY <1>1, <1>4
  <2>2. FlattenSeq(strings) = strings
    BY <2>1 DEF FlattenSeq
  <2>3. strings = <<>>
    BY <2>1
  <2>4. strings \in Seq(Byte)
    BY <2>3
  <2>5. 1 .. 0 = {}
    OBVIOUS
  <2> QED BY <1>2, <1>3, <2>1, <2>2, <2>4, <2>5 DEF FlatParts
<1>5. CASE N # 0
  <2>1. PICK f : FlatEq(strings, N, f) /\ FlattenSeq(strings) = f[N]
    BY <1>1, <1>5, FlattenIs
  <2> DEFINE S == {n \in Nat : n \in 1 .. N => FlatParts(strings, f[n], n)}
  <2>2. 0 \in S
    OBVIOUS
  <2>3. ASSUME NEW n \in Nat, n \in S PROVE n + 1 \in S
    <3> SUFFICES ASSUME n + 1 \in 1 .. N PROVE FlatParts(strings, f[n + 1], n + 1)
      OBVIOUS
    <3>1. CASE n = 0
      <4>1. f[1] = strings[1] /\ strings[1] \in Seq(Byte)
        BY <1>1, <1>5, <2>1 DEF FlatEq
      <4>2. e[1] = Len(strings[1]) /\ e[0] = 0 /\ Len(strings[1]) \in Nat
        BY <1>3, <1>5
      <4>3. \A i \in 1 .. Len(strings[1]) : strings[1][e[1 - 1] + i] = strings[1][i]
        BY <4>2
      <4>4. FlatParts(strings, f[1], 1)
        BY <1>2, <4>1, <4>2, <4>3 DEF FlatParts
      <4> QED BY <3>1, <4>4
    <3>2. CASE n # 0
      <4>1. n \in 1 .. N /\ n \in 1 .. N - 1 /\ n + 1 # 1 /\ (n + 1) - 1 = n
        BY <3>2
      <4>2. f[n + 1] = f[n] \o strings[n + 1]
        BY <2>1, <4>1 DEF FlatEq
      <4>3. FlatParts(strings, f[n], n)
        BY <2>3, <4>1
      <4> QED BY <1>1, <4>1, <4>2, <4>3, FlatPartsMore
    <3> QED BY <3>1, <3>2
  <2> HIDE DEF S
  <2>4. \A n \in Nat : n \in S
    BY <2>2, <2>3, Induction
  <2>5. FlatParts(strings, f[N], N)
    BY <1>5, <2>4 DEF S
  <2> QED BY <1>1, <2>1, <2>5
<1> QED BY <1>4, <1>5

\* Strings that were put one after the other are found again where the sizes say.
LEMMA StringsFound ==
  ASSUME NEW strings \in Seq(Seq(Byte)), NEW data \in Seq(Byte), NEW start \in Nat,
         NEW sizes, sizes = Lens(strings),
         start + Total(sizes) <= Len(data),
         \A j \in 1 .. Total(sizes) : data[start + j] = FlattenSeq(strings)[j]
  PROVE  StringsAt(data, start, sizes) = strings
<1>1. PICK N \in Nat : N = Len(strings)
  OBVIOUS
<1>2. PICK e : e = Ends(sizes)
  OBVIOUS
<1>3. sizes \in Seq(Nat) /\ Len(sizes) = N /\ DOMAIN sizes = 1 .. N
  BY <1>1, LensType
<1>4. /\ \A k \in 0 .. N : e[k] \in Nat
      /\ \A k \in 1 .. N : e[k] = e[k - 1] + Len(strings[k]) /\ Len(strings[k]) \in Nat
  <2>1. \A k \in 1 .. N : sizes[k] = Len(strings[k]) /\ Len(strings[k]) \in Nat
    BY <1>1, LensType
  <2> QED BY <1>2, <1>3, <2>1, EndsStep
<1>5. PICK t \in Nat : t = Total(sizes) /\ t = e[N]
  BY <1>2, <1>3, <1>4 DEF Total
<1>6. PICK q \in Seq(Byte) :
        /\ q = FlattenSeq(strings)
        /\ \A k \in 1 .. N : \A i \in 1 .. Len(strings[k]) : q[e[k - 1] + i] = strings[k][i]
  BY <1>1, <1>2, FlattenParts DEF FlatParts
<1>7. ASSUME NEW k \in 1 .. N
      PROVE  SubSeq(data, start + e[k - 1] + 1, start + e[k]) = strings[k]
  <2>1. PICK a \in Nat, c \in Nat : a = e[k - 1] /\ c = Len(strings[k]) /\ e[k] = a + c
    <3>1. k - 1 \in 0 .. N /\ k \in 0 .. N
      OBVIOUS
    <3> QED BY <1>4, <3>1
  <2>2. a + c <= t
    <3>1. N \in 0 .. Len(sizes) /\ k \in 0 .. N
      BY <1>3
    <3>2. e[k] <= e[N]
      BY <1>2, <1>3, <3>1, EndsGrow
    <3> QED BY <1>5, <2>1, <3>2
  <2>3. PICK s \in Seq(Byte) : s = strings[k] /\ Len(s) = c
    BY <1>1, <2>1
  <2>4. PICK x \in Nat : x = start + a
    OBVIOUS
  <2>5. x + c <= Len(data)
    <3>1. PICK l \in Nat : l = Len(data) /\ start + t <= l
      BY <1>5
    <3>2. x + c <= l
      BY <2>2, <2>4, <3>1
    <3> QED BY <3>1, <3>2
  <2>0. PICK r : r = SubSeq(data, x + 1, x + c)
    OBVIOUS
  <2>6. r \in Seq(Byte) /\ Len(r) = c /\ \A i \in 1 .. c : r[i] = data[x + i]
    BY <2>0, <2>5, Slice, SMTT(30)
  <2>7. ASSUME NEW i \in 1 .. c PROVE r[i] = s[i]
    <3>1. a + i \in 1 .. t
      BY <2>2
    <3>2. x + i = start + (a + i)
      BY <2>4
    <3>3. data[start + (a + i)] = q[a + i]
      BY <1>5, <1>6, <3>1
    <3>4. q[a + i] = s[i]
      BY <1>6, <2>1, <2>3
    <3> QED BY <2>6, <3>2, <3>3, <3>4
  <2>8. r = s
    BY <2>3, <2>6, <2>7, SeqEqual
  <2>9. start + e[k - 1] + 1 = x + 1 /\ start + e[k] = x + c
    BY <2>1, <2>4
  <2> QED BY <2>0, <2>3, <2>8, <2>9
<1>8. StringsAt(data, start, sizes) = [k \in 1 .. N |-> strings[k]]
  BY <1>2, <1>3, <1>7 DEF StringsAt
<1>9. strings = [k \in 1 .. N |-> strings[k]]
  BY <1>1
<1> QED BY <1>8, <1>9

\* Strings that were read from data, put one after the other again.
ReadBack(strings, data, start, sizes) ==
  /\ Len(strings) = Len(sizes) /\ Lens(strings) = sizes
  /\ FlattenSeq(strings) = SubSeq(data, start + 1, start + Total(sizes))

\* The strings that are read have the sizes, and one after the other are the data.
LEMMA StringsRead ==
  ASSUME NEW data \in Seq(Byte), NEW start \in Nat, NEW sizes \in Seq(Nat),
         start + Total(sizes) <= Len(data),
         NEW strings, strings = StringsAt(data, start, sizes)
  PROVE  strings \in Seq(Seq(Byte)) /\ ReadBack(strings, data, start, sizes)
<1>1. PICK N \in Nat : N = Len(sizes) /\ DOMAIN sizes = 1 .. N
  OBVIOUS
<1>2. PICK e : e = Ends(sizes)
  OBVIOUS
<1>3. /\ \A k \in 0 .. N : e[k] \in Nat
      /\ \A k \in 1 .. N : e[k] = e[k - 1] + sizes[k] /\ sizes[k] \in Nat
  BY <1>1, <1>2, EndsStep
<1>4. PICK t \in Nat : t = Total(sizes) /\ t = e[N]
  BY <1>1, <1>2, <1>3 DEF Total
<1>5. PICK l \in Nat : l = Len(data) /\ start + t <= l
  BY <1>4
<1>6. ASSUME NEW k \in 1 .. N
      PROVE  /\ strings[k] \in Seq(Byte) /\ Len(strings[k]) = sizes[k]
             /\ \A i \in 1 .. sizes[k] : strings[k][i] = data[start + (e[k - 1] + i)]
  <2>1. PICK a \in Nat, c \in Nat : a = e[k - 1] /\ c = sizes[k] /\ e[k] = a + c
    <3>1. k - 1 \in 0 .. N /\ k \in 0 .. N
      OBVIOUS
    <3> QED BY <1>3, <3>1
  <2>2. a + c <= t
    <3>1. N \in 0 .. Len(sizes) /\ k \in 0 .. N
      BY <1>1
    <3>2. e[k] <= e[N]
      BY <1>1, <1>2, <3>1, EndsGrow
    <3> QED BY <1>4, <2>1, <3>2
  <2>3. PICK x \in Nat : x = start + a
    OBVIOUS
  <2>4. x + c <= l
    BY <1>5, <2>2, <2>3
  <2>0. PICK r : r = SubSeq(data, x + 1, x + c)
    OBVIOUS
  <2>5. r \in Seq(Byte) /\ Len(r) = c /\ \A i \in 1 .. c : r[i] = data[x + i]
    BY <2>0, <1>5, <2>4, Slice
  <2>6. start + e[k - 1] + 1 = x + 1 /\ start + e[k] = x + c
    <3>1. start + (a + c) = x + c
      BY <2>3
    <3> QED BY <2>1, <2>3, <3>1
  <2>7. strings[k] = SubSeq(data, start + e[k - 1] + 1, start + e[k])
    BY <1>1, <1>2 DEF StringsAt
  <2>8. \A i \in 1 .. c : x + i = start + (a + i)
    BY <2>3
  <2>9. strings[k] = r
    BY <2>0, <2>6, <2>7
  <2> QED BY <2>1, <2>5, <2>8, <2>9
<1>7. strings \in Seq(Seq(Byte)) /\ Len(strings) = N
  <2>1. strings = [k \in 1 .. N |-> strings[k]]
    BY <1>1 DEF StringsAt
  <2> QED BY <1>6, <2>1
<1>8. Lens(strings) = sizes
  <2>1. sizes = [k \in 1 .. N |-> sizes[k]]
    BY <1>1
  <2> QED BY <1>6, <1>7, <2>1 DEF Lens
<1>9. PICK q \in Seq(Byte) :
        /\ q = FlattenSeq(strings) /\ Len(q) = t
        /\ \A k \in 1 .. N : \A i \in 1 .. Len(strings[k]) : q[e[k - 1] + i] = strings[k][i]
  <2>1. FlatParts(strings, FlattenSeq(strings), N)
    BY <1>7, FlattenParts
  <2> QED BY <1>2, <1>4, <1>8, <2>1 DEF FlatParts
<1>0. PICK r : r = SubSeq(data, start + 1, start + t)
  OBVIOUS
<1>10. r \in Seq(Byte) /\ Len(r) = t /\ \A j \in 1 .. t : r[j] = data[start + j]
  BY <1>0, <1>5, Slice
<1>11. ASSUME NEW j \in 1 .. t PROVE q[j] = r[j]
  <2>0. j \in 1 .. Total(sizes)
    BY <1>4
  <2>1. PICK k \in 1 .. N : \E i \in 1 .. sizes[k] : j = e[k - 1] + i
    BY <1>1, <1>2, <2>0, EndsCover
  <2>2. PICK i \in 1 .. sizes[k] : j = e[k - 1] + i
    BY <2>1
  <2>3. q[j] = strings[k][i]
    BY <1>6, <1>9, <2>2
  <2> QED BY <1>6, <1>10, <2>2, <2>3
<1>12. q = r
  BY <1>9, <1>10, <1>11, SeqEqual
<1> QED BY <1>0, <1>1, <1>4, <1>7, <1>8, <1>9, <1>12 DEF ReadBack

-----------------------------------------------------------------------------
(***************************************************************************)
(* Headers.                                                                *)
(***************************************************************************)
Fours(q, a, b, c) ==
  Len(q) = 12 /\ \A i \in 1 .. 4 : q[i] = a[i] /\ q[4 + i] = b[i] /\ q[8 + i] = c[i]

\* The members of three sequences of four.
LEMMA ThreeFours ==
  ASSUME NEW S, NEW a \in Seq(S), NEW b \in Seq(S), NEW c \in Seq(S),
         4 = Len(a), 4 = Len(b), 4 = Len(c)
  PROVE  (a \o b) \o c \in Seq(S) /\ Fours((a \o b) \o c, a, b, c)
<1>1. PICK d \in Seq(S) : d = a \o b /\ Joined(d, a, b, 4, 4)
  <2>1. 4 \in Nat
    OBVIOUS
  <2> QED BY <2>1, Join
<1>2. PICK q \in Seq(S) : q = d \o c /\ Joined(q, d, c, 8, 4)
  <2>1. 4 \in Nat /\ 8 \in Nat /\ 8 = Len(d)
    BY <1>1 DEF Joined
  <2> QED BY <2>1, Join
<1>3. \A i \in 1 .. 4 : i \in 1 .. 8 /\ 4 + i \in 1 .. 8
  OBVIOUS
<1>4. \A i \in 1 .. 4 : q[i] = a[i] /\ q[4 + i] = b[i] /\ q[8 + i] = c[i]
  BY <1>1, <1>2, <1>3, Zenon DEF Joined
<1>5. Len(q) = 12
  BY <1>2 DEF Joined
<1> QED BY <1>1, <1>2, <1>4, <1>5 DEF Fours

\* The twelve bytes of a header.
LEMMA HeaderBytesAre ==
  ASSUME NEW h \in Header, NEW q, q = HeaderBytes(h),
         Version(h) \in Byte, h.type \in Byte, h.flags \in Byte
  PROVE  /\ q \in Seq(Byte) /\ Len(q) = 12
         /\ q[1] = Version(h) /\ q[2] = h.type /\ q[3] = h.seq /\ q[4] = h.flags
         /\ \A i \in 1 .. 4 : q[4 + i] = U32(h.id)[i] /\ q[8 + i] = U32(h.length)[i]
<1>1. PICK a : a = <<Version(h), h.type, h.seq, h.flags>>
  OBVIOUS
<1>2. h.seq \in Byte /\ h.id \in Nat /\ h.length \in Nat
  BY DEF Header, Quad
<1>3. /\ a \in Seq(Byte) /\ Len(a) = 4
      /\ a[1] = Version(h) /\ a[2] = h.type /\ a[3] = h.seq /\ a[4] = h.flags
  BY <1>1, <1>2
<1>4. PICK b \in Seq(Byte) : b = U32(h.id) /\ Len(b) = 4
  BY <1>2, U32Value
<1>5. PICK c \in Seq(Byte) : c = U32(h.length) /\ Len(c) = 4
  BY <1>2, U32Value
<1>6. q = (a \o b) \o c
  BY <1>1, <1>4, <1>5 DEF HeaderBytes
<1>7. q \in Seq(Byte) /\ Fours(q, a, b, c)
  <2>1. 4 = Len(a) /\ 4 = Len(b) /\ 4 = Len(c)
    BY <1>3, <1>4, <1>5
  <2>2. (a \o b) \o c \in Seq(Byte) /\ Fours((a \o b) \o c, a, b, c)
    BY <1>3, <2>1, ThreeFours
  <2> QED BY <1>6, <2>2, Zenon
<1>8. q[1] = a[1] /\ q[2] = a[2] /\ q[3] = a[3] /\ q[4] = a[4]
  BY <1>7 DEF Fours
<1> QED BY <1>3, <1>4, <1>5, <1>7, <1>8 DEF Fours

\* The two halves of the version byte.
LEMMA VersionIs ==
  ASSUME NEW a \in 0 .. Nibble - 1, NEW b \in 0 .. Nibble - 1
  PROVE  /\ a * Nibble + b \in Byte
         /\ (a * Nibble + b) \div Nibble = a /\ (a * Nibble + b) % Nibble = b
<1>1. PICK N \in Nat : N = Nibble /\ N >= 2
  BY ByteModType
<1>2. PICK x \in Nat : x = N * a /\ x + N <= N * N
  BY <1>1, Product
<1>3. a * N = x
  BY <1>1, <1>2
<1>4. PICK z \in Nat : z = ByteMod /\ z = N * N
  BY <1>1, ByteModType DEF ByteMod
<1>5. x + b \in 0 .. z - 1
  BY <1>1, <1>2, <1>4
<1>6. (x + b) \div N = a /\ (x + b) % N = b
  BY <1>1, <1>2, DivModUnique
<1> QED BY <1>1, <1>3, <1>4, <1>5, <1>6 DEF Byte

\* What holds of all twelve, one by one.
LEMMA TwelveMembers ==
  ASSUME NEW S, NEW f, \A i \in 1 .. 12 : f[i] \in S
  PROVE  /\ f[1] \in S /\ f[2] \in S /\ f[3] \in S /\ f[4] \in S
         /\ f[5] \in S /\ f[6] \in S /\ f[7] \in S /\ f[8] \in S
         /\ f[9] \in S /\ f[10] \in S /\ f[11] \in S /\ f[12] \in S
OBVIOUS

\* A header with another length.
LEMMA WithLength ==
  ASSUME NEW h \in Header, NEW v
  PROVE  [h EXCEPT !.length = v] =
           [ major |-> h.major, minor |-> h.minor, type |-> h.type, seq |-> h.seq,
             flags |-> h.flags, id |-> h.id, length |-> v ]
BY DEF Header

\* The numbers of flags and types are bytes, whatever a byte's width.
LEMMA SmallBytes == 0 .. 3 \subseteq Byte
BY ByteModType DEF Byte

\* FlagsFromBits refuses the unknown flags and no others.
LEMMA KnownFlag == \A b \in Nat : FlagsFromBits(b) # Error <=> b \in KnownFlags
BY ErrorAssumption DEF FlagsFromBits

\* A header as the library makes them is read back, its length cut to four bytes,
\* unless its flags are unknown.
LEMMA HeaderRead ==
  ASSUME NEW h \in Header, h.major = Major, h.minor \in Minors, h.type \in Types,
         h.flags \in 0 .. 3,
         NEW data, Len(data) \in Nat, Len(data) >= 12,
         \A i \in 1 .. 12 : data[i] = HeaderBytes(h)[i]
  PROVE  /\ h.flags \notin KnownFlags => HeaderFromBytes(data) = Error
         /\ h.flags \in KnownFlags =>
              \E v \in Quad : /\ HeaderFromBytes(data) = [h EXCEPT !.length = v]
                              /\ v <= h.length /\ (h.length \in Quad => v = h.length)
<1>1. PICK q : q = HeaderBytes(h)
  OBVIOUS
<1>2. Major \in 0 .. Nibble - 1 /\ h.minor \in 0 .. Nibble - 1
  BY EncodingAssumption, ByteModType, SMTT(30) DEF Minors
<1>3. Version(h) \in Byte /\ Version(h) \div Nibble = h.major /\ Version(h) % Nibble = h.minor
  BY <1>2, VersionIs DEF Version
<1>4. h.type \in Byte /\ h.flags \in Byte /\ h.flags \in Nat
  BY SmallBytes DEF Types
<1>5. /\ q[1] = Version(h) /\ q[2] = h.type /\ q[3] = h.seq /\ q[4] = h.flags
      /\ \A i \in 1 .. 4 : q[4 + i] = U32(h.id)[i] /\ q[8 + i] = U32(h.length)[i]
  BY <1>1, <1>3, <1>4, HeaderBytesAre
<1>6. /\ data[1] = Version(h) /\ data[2] = h.type /\ data[3] = h.seq /\ data[4] = h.flags
      /\ \A i \in 1 .. 4 : data[4 + i] = U32(h.id)[i] /\ data[8 + i] = U32(h.length)[i]
  <2>1. \A i \in 1 .. 4 : i \in 1 .. 12 /\ 4 + i \in 1 .. 12 /\ 8 + i \in 1 .. 12
    OBVIOUS
  <2>2. \A i \in 1 .. 12 : data[i] = q[i]
    BY <1>1
  <2>3. data[1] = q[1] /\ data[2] = q[2] /\ data[3] = q[3] /\ data[4] = q[4]
    BY <2>2
  <2> QED BY <1>5, <2>1, <2>2, <2>3
<1>7. HeaderAccepted(data) <=> h.flags \in KnownFlags
  BY <1>3, <1>4, <1>6, KnownFlag DEF HeaderAccepted, HeaderLen
<1>8. CASE h.flags \notin KnownFlags
  BY <1>7, <1>8 DEF HeaderFromBytes
<1>9. CASE h.flags \in KnownFlags
  <2>1. h.id \in Quad /\ h.id \in Nat /\ h.length \in Nat
    BY DEF Header, Quad
  <2>2. U32At(data, 5) = h.id
    <3>1. U32At(data, 4 + 1) = U32At(U32(h.id), 1)
      <4>1. \A i \in 1 .. 4 : data[4 + i] = U32(h.id)[i]
        BY <1>6
      <4>2. 4 \in Nat
        OBVIOUS
      <4> QED BY <4>1, <4>2, U32Same, Zenon
    <3>2. U32At(U32(h.id), 1) = h.id
      BY <2>1, U32Value
    <3> QED BY <3>1, <3>2
  <2>3. PICK v \in Quad : /\ U32At(data, 9) = v
                         /\ v <= h.length /\ (h.length \in Quad => v = h.length)
    <3>1. U32At(data, 8 + 1) = U32At(U32(h.length), 1)
      BY <1>6, U32Same, SMTT(30)
    <3> QED BY <2>1, <3>1, U32Value
  <2>4. FlagsFromBits(data[4]) = h.flags
    BY <1>6, <1>9 DEF FlagsFromBits
  <2>5. HeaderFromBytes(data) =
          [ major |-> h.major, minor |-> h.minor, type |-> h.type, seq |-> h.seq,
            flags |-> h.flags, id |-> h.id, length |-> v ]
    BY <1>3, <1>6, <1>7, <1>9, <2>2, <2>3, <2>4 DEF HeaderFromBytes
  <2>6. [h EXCEPT !.length = v] =
          [ major |-> h.major, minor |-> h.minor, type |-> h.type, seq |-> h.seq,
            flags |-> h.flags, id |-> h.id, length |-> v ]
    BY WithLength
  <2> QED BY <1>9, <2>3, <2>5, <2>6
<1> QED BY <1>8, <1>9

\* A header that is accepted is encoded to the bytes it was read from.
LEMMA HeaderFaithful ==
  ASSUME NEW data \in Seq(Byte), HeaderFromBytes(data) # Error
  PROVE  /\ Len(data) >= 12
         /\ HeaderFromBytes(data) \in Header
         /\ HeaderBytes(HeaderFromBytes(data)) = SubSeq(data, 1, HeaderLen)
<1>1. HeaderAccepted(data)
  BY DEF HeaderFromBytes
<1>2. Len(data) \in Nat /\ Len(data) >= 12
  BY <1>1 DEF HeaderAccepted, HeaderLen
<1>3. /\ data[1] \in Byte /\ data[2] \in Byte /\ data[3] \in Byte /\ data[4] \in Byte
      /\ data[5] \in Byte /\ data[6] \in Byte /\ data[7] \in Byte /\ data[8] \in Byte
      /\ data[9] \in Byte /\ data[10] \in Byte /\ data[11] \in Byte /\ data[12] \in Byte
  <2>1. \A i \in 1 .. 12 : i \in 1 .. Len(data)
    BY <1>2
  <2>2. \A i \in 1 .. 12 : data[i] \in Byte
    BY <2>1, ElementOfSeq
  <2> QED BY <2>2, TwelveMembers, Zenon
<1>4. FlagsFromBits(data[4]) = data[4]
  BY <1>1, <1>3 DEF HeaderAccepted, FlagsFromBits
<1>5. U32At(data, 5) \in Quad /\ U32(U32At(data, 5)) = <<data[5], data[6], data[7], data[8]>>
  <2>1. PICK a \in Byte, b \in Byte, c \in Byte, d \in Byte :
          a = data[5] /\ b = data[6] /\ c = data[7] /\ d = data[8]
    BY <1>3, Zenon
  <2>2. U32At(data, 5) = (a * ByteMod + b) * WordMod + (c * ByteMod + d)
    BY <2>1 DEF U32At, U16At
  <2>3. /\ (a * ByteMod + b) * WordMod + (c * ByteMod + d) \in Quad
        /\ U32((a * ByteMod + b) * WordMod + (c * ByteMod + d)) = <<a, b, c, d>>
    BY FourBytes
  <2> QED BY <2>1, <2>2, <2>3, Zenon
<1>6. U32At(data, 9) \in Quad /\ U32(U32At(data, 9)) = <<data[9], data[10], data[11], data[12]>>
  <2>1. PICK a \in Byte, b \in Byte, c \in Byte, d \in Byte :
          a = data[9] /\ b = data[10] /\ c = data[11] /\ d = data[12]
    BY <1>3, Zenon
  <2>2. U32At(data, 9) = (a * ByteMod + b) * WordMod + (c * ByteMod + d)
    BY <2>1 DEF U32At, U16At
  <2>3. /\ (a * ByteMod + b) * WordMod + (c * ByteMod + d) \in Quad
        /\ U32((a * ByteMod + b) * WordMod + (c * ByteMod + d)) = <<a, b, c, d>>
    BY FourBytes
  <2> QED BY <2>1, <2>2, <2>3, Zenon
<1>7. PICK a, b : a = data[1] \div Nibble /\ b = data[1] % Nibble
  OBVIOUS
<1>8. a \in Nat /\ b \in Nat /\ a * Nibble + b = data[1]
  <2>1. PICK n \in Nat : n = data[1]
    BY <1>3, ByteNat, Zenon
  <2>2. a \in Nat /\ b \in Nat /\ n = Nibble * a + b
    <3>1. Nibble \in Nat /\ Nibble > 0
      BY ByteModType
    <3>2. n \div Nibble \in Nat /\ n % Nibble \in Nat /\ n = Nibble * (n \div Nibble) + (n % Nibble)
      BY <3>1, DivMod
    <3> QED BY <1>7, <2>1, <3>2, Zenon
  <2>3. Nibble * a = a * Nibble
    BY <2>2, ByteModType
  <2> QED BY <2>1, <2>2, <2>3
<1>9. PICK h : h = HeaderFromBytes(data)
  OBVIOUS
<1>10. h = [ major |-> a, minor |-> b, type |-> data[2], seq |-> data[3], flags |-> data[4],
             id |-> U32At(data, 5), length |-> U32At(data, 9) ]
  BY <1>1, <1>4, <1>7, <1>9 DEF HeaderFromBytes
<1>11. h \in Header
  <2>1. data[2] \in Nat /\ data[3] \in Byte /\ data[4] \in Nat
    BY <1>3, ByteNat, Zenon
  <2>2. U32At(data, 9) \in Nat
    BY <1>6 DEF Quad
  <2> QED BY <1>5, <1>8, <1>10, <2>1, <2>2 DEF Header
<1>12. Version(h) = data[1] /\ h.type = data[2] /\ h.seq = data[3] /\ h.flags = data[4]
  BY <1>8, <1>10 DEF Version
<1>13. PICK q : q = HeaderBytes(h)
  OBVIOUS
<1>14. /\ q \in Seq(Byte) /\ Len(q) = 12
       /\ q[1] = Version(h) /\ q[2] = h.type /\ q[3] = h.seq /\ q[4] = h.flags
       /\ \A i \in 1 .. 4 : q[4 + i] = U32(h.id)[i] /\ q[8 + i] = U32(h.length)[i]
  BY <1>3, <1>11, <1>12, <1>13, HeaderBytesAre, SMTT(30)
<1>15. PICK r : r = SubSeq(data, 0 + 1, 0 + 12)
  OBVIOUS
<1>16. r \in Seq(Byte) /\ Len(r) = 12 /\ \A i \in 1 .. 12 : r[i] = data[0 + i]
  BY <1>2, <1>15, Slice
<1>17. ASSUME NEW i \in 1 .. 12 PROVE q[i] = r[i]
  <2>1. r[i] = data[i]
    BY <1>16
  <2>2. CASE i \in 1 .. 4
    BY <1>12, <1>14, <2>1, <2>2
  <2>3. CASE i \in 5 .. 8
    <3>1. /\ q[4 + 1] = data[5] /\ q[4 + 2] = data[6]
          /\ q[4 + 3] = data[7] /\ q[4 + 4] = data[8]
      BY <1>5, <1>10, <1>14
    <3> QED BY <2>1, <2>3, <3>1
  <2>4. CASE i \in 9 .. 12
    <3>1. /\ q[8 + 1] = data[9] /\ q[8 + 2] = data[10]
          /\ q[8 + 3] = data[11] /\ q[8 + 4] = data[12]
      BY <1>6, <1>10, <1>14
    <3> QED BY <2>1, <2>4, <3>1
  <2> QED BY <2>2, <2>3, <2>4
<1>18. q = r
  BY <1>14, <1>16, <1>17, SeqEqual
<1> QED BY <1>2, <1>9, <1>11, <1>13, <1>15, <1>18 DEF HeaderLen

-----------------------------------------------------------------------------
(***************************************************************************)
(* The pad, and the conversions of a packet with it.                       *)
(***************************************************************************)
\* md5 returns as many bytes as the hash is long. No assumption of the model, for it
\* is of all inputs, which TLC cannot list; every theorem below has it as hypothesis.
HashIsDigest == \A q \in Seq(Byte) : Hash(q) \in [1 .. HashLen -> Byte]

HashesEq(first, n, f) ==
  f = [k \in 1 .. n |-> IF k = 1 THEN Hash(first) ELSE Hash(first \o f[k - 1])]

\* The recursive function of Hashes exists ..
LEMMA HashesExist == ASSUME NEW first PROVE \A n \in Nat : \E f : HashesEq(first, n, f)
<1> DEFINE S == {n \in Nat : \E f : HashesEq(first, n, f)}
<1>1. 0 \in S
  <2> DEFINE f == [k \in 1 .. 0 |-> 0]
  <2>1. HashesEq(first, 0, f)
    BY DEF HashesEq
  <2> QED BY <2>1
<1>2. ASSUME NEW n \in Nat, n \in S PROVE n + 1 \in S
  <2>1. PICK f : HashesEq(first, n, f)
    BY <1>2
  <2> DEFINE last == IF n = 0 THEN Hash(first) ELSE Hash(first \o f[n])
             g == [k \in 1 .. n + 1 |-> IF k = n + 1 THEN last ELSE f[k]]
  <2>2. ASSUME NEW k \in 1 .. n + 1
        PROVE  g[k] = IF k = 1 THEN Hash(first) ELSE Hash(first \o g[k - 1])
    <3>1. CASE k = n + 1
      BY <2>1, <3>1 DEF HashesEq
    <3>2. CASE k # n + 1
      <4>1. k \in 1 .. n /\ g[k] = f[k] /\ (k # 1 => g[k - 1] = f[k - 1])
        BY <3>2
      <4> QED BY <2>1, <4>1 DEF HashesEq
    <3> QED BY <3>1, <3>2
  <2>3. HashesEq(first, n + 1, g)
    BY <2>2 DEF HashesEq
  <2> HIDE DEF g
  <2> QED BY <2>3
<1> HIDE DEF S
<1>3. \A n \in Nat : n \in S
  BY <1>1, <1>2, Induction
<1> QED BY <1>3 DEF S

\* .. and its values are hashes.
LEMMA HashesType ==
  ASSUME HashIsDigest, NEW first \in Seq(Byte), NEW n \in Nat
  PROVE  \A k \in 1 .. n : Hashes(first, n)[k] \in [1 .. HashLen -> Byte]
<1>1. PICK f : f = Hashes(first, n)
  OBVIOUS
<1>2. HashesEq(first, n, f)
  <2>1. \E g : HashesEq(first, n, g)
    BY HashesExist
  <2> QED BY <1>1, <2>1 DEF Hashes, HashesEq
<1>3. \A q \in [1 .. HashLen -> Byte] : q \in Seq(Byte)
  BY EncodingAssumption
<1> DEFINE S == {k \in Nat : k \in 1 .. n => f[k] \in [1 .. HashLen -> Byte]}
<1>4. 0 \in S
  OBVIOUS
<1>5. ASSUME NEW k \in Nat, k \in S PROVE k + 1 \in S
  <2> SUFFICES ASSUME k + 1 \in 1 .. n PROVE f[k + 1] \in [1 .. HashLen -> Byte]
    OBVIOUS
  <2>1. CASE k = 0
    <3>1. f[1] = Hash(first)
      BY <1>2, <2>1 DEF HashesEq
    <3> QED BY <2>1, <3>1 DEF HashIsDigest
  <2>2. CASE k # 0
    <3>1. k \in 1 .. n /\ k + 1 # 1 /\ (k + 1) - 1 = k
      BY <2>2
    <3>2. f[k + 1] = Hash(first \o f[k])
      BY <1>2, <3>1 DEF HashesEq
    <3>3. f[k] \in Seq(Byte)
      BY <1>3, <1>5, <3>1
    <3>4. first \o f[k] \in Seq(Byte)
      BY <3>3, ConcatProperties
    <3> QED BY <3>2, <3>4 DEF HashIsDigest
  <2> QED BY <2>1, <2>2
<1> HIDE DEF S
<1>6. \A k \in Nat : k \in S
  BY <1>4, <1>5, Induction
<1> QED BY <1>1, <1>6 DEF S

\* Larger numbers have larger quotients.
LEMMA DivMonotone ==
  ASSUME NEW m \in Nat, NEW n \in Nat, m <= n, NEW b \in Nat, b > 0
  PROVE  m \div b <= n \div b
<1>1. PICK p \in Nat, r \in 0 .. b - 1 : p = m \div b /\ m = b * p + r
  BY DivMod
<1>2. PICK q \in Nat, s \in 0 .. b - 1 : q = n \div b /\ n = b * q + s
  BY DivMod
<1>3. ~(q < p)
  <2> SUFFICES ASSUME q < p PROVE FALSE
    OBVIOUS
  <2>1. PICK x \in Nat, y \in Nat : x = b * p /\ y = b * q /\ y + b <= x
    BY Product
  <2>2. m = x + r /\ n = y + s
    BY <1>1, <1>2, <2>1
  <2> QED BY <2>1, <2>2
<1> QED BY <1>1, <1>2, <1>3

\* What is hashed first are bytes.
LEMMA FirstBlockType ==
  ASSUME NEW h \in Header, Version(h) \in Byte
  PROVE  FirstBlock(h) \in Seq(Byte)
<1>1. PICK a : a = U32(h.id)
  OBVIOUS
<1>2. PICK b : b = <<Version(h), h.seq>>
  OBVIOUS
<1>3. a \in Seq(Byte)
  <2>1. h.id \in Nat
    BY DEF Header, Quad
  <2> QED BY <1>1, <2>1, U32Value
<1>4. b \in Seq(Byte)
  <2>1. h.seq \in Byte
    BY DEF Header
  <2> QED BY <1>2, <2>1
<1>5. Key \in Seq(Byte)
  BY EncodingAssumption
<1>6. a \o Key \in Seq(Byte)
  BY <1>3, <1>5, ConcatProperties
<1>7. (a \o Key) \o b \in Seq(Byte)
  BY <1>4, <1>6, ConcatProperties
<1> QED BY <1>1, <1>2, <1>7 DEF FirstBlock

\* The pad has the length that the header has, and is made of bytes.
LEMMA PadType ==
  ASSUME HashIsDigest, NEW h \in Header, Version(h) \in Byte
  PROVE  /\ Pad(h) \in Seq(Byte) /\ Len(Pad(h)) = h.length
         /\ DOMAIN Pad(h) = 1 .. h.length
<1>1. PICK n \in Nat : n = h.length
  BY DEF Header
<1>2. PICK L \in Nat : L = HashLen /\ L > 0
  BY EncodingAssumption
<1>3. PICK m \in Nat : m = 1 + (n \div L)
  BY <1>2, DivMod
<1>4. PICK f : f = Hashes(FirstBlock(h), m)
  OBVIOUS
<1>5. \A k \in 1 .. m : f[k] \in [1 .. L -> Byte]
  BY <1>2, <1>4, FirstBlockType, HashesType
<1>6. PICK g : g = [i \in 1 .. n |-> f[1 + (i - 1) \div L][1 + ((i - 1) % L)]]
  OBVIOUS
<1>7. Pad(h) = g
  BY <1>1, <1>2, <1>3, <1>4, <1>6 DEF Pad, Padding
<1>8. ASSUME NEW i \in 1 .. n PROVE g[i] \in Byte
  <2>1. PICK j \in Nat : j = i - 1 /\ j <= n
    OBVIOUS
  <2>2. PICK k \in Nat, r \in 0 .. L - 1 : k = j \div L /\ r = j % L
    BY <1>2, DivMod
  <2>3. k <= n \div L /\ n \div L \in Nat
    BY <1>2, <2>1, <2>2, DivMod, DivMonotone
  <2>4. 1 + k \in 1 .. m /\ 1 + r \in 1 .. L
    BY <1>2, <1>3, <2>2, <2>3
  <2>5. g[i] = f[1 + k][1 + r]
    BY <1>6, <2>1, <2>2
  <2> QED BY <1>5, <2>4, <2>5
<1>9. g \in [1 .. n -> Byte]
  BY <1>6, <1>8
<1> QED BY <1>1, <1>7, <1>9

\* A packet as the two loops handle it.
Framed(p) ==
  /\ p \in Packet
  /\ Version(p.header) \in Byte
  /\ p.header.length = Len(p.body)

\* A header with other flags.
LEMMA WithFlags ==
  ASSUME NEW h \in Header, NEW k
  PROVE  [h EXCEPT !.flags = k] =
           [ major |-> h.major, minor |-> h.minor, type |-> h.type, seq |-> h.seq,
             flags |-> k, id |-> h.id, length |-> h.length ]
BY DEF Header

\* A header is its fields.
LEMMA HeaderIs ==
  ASSUME NEW h \in Header
  PROVE  h = [ major |-> h.major, minor |-> h.minor, type |-> h.type, seq |-> h.seq,
               flags |-> h.flags, id |-> h.id, length |-> h.length ]
BY DEF Header

\* What Flip changes: the one flag, and the other way back.
LEMMA FlipIs ==
  ASSUME NEW h \in Header
  PROVE  /\ Flip(h) \in Header /\ Flip(Flip(h)) = h
         /\ IsClear(Flip(h)) = ~IsClear(h)
         /\ Version(Flip(h)) = Version(h) /\ Flip(h).length = h.length
         /\ Pad(Flip(h)) = Pad(h)
<1>1. PICK f \in Nat : f = h.flags
  BY DEF Header
<1>2. f % 2 = 1 => f - 1 \in Nat /\ (f - 1) % 2 = 0 /\ (f - 1) + 1 = f
  OBVIOUS
<1>3. f % 2 # 1 => f + 1 \in Nat /\ (f + 1) % 2 = 1 /\ (f + 1) - 1 = f
  OBVIOUS
<1>4. PICK k \in Nat : /\ k = IF IsClear(h) THEN f - 1 ELSE f + 1
                       /\ k % 2 = 1 <=> ~IsClear(h)
                       /\ f = IF k % 2 = 1 THEN k - 1 ELSE k + 1
  <2>1. IsClear(h) <=> f % 2 = 1
    BY <1>1 DEF IsClear
  <2> QED BY <1>2, <1>3, <2>1
<1>5. PICK w : w = [ major |-> h.major, minor |-> h.minor, type |-> h.type, seq |-> h.seq,
                     flags |-> k, id |-> h.id, length |-> h.length ]
  OBVIOUS
<1>6. Flip(h) = w
  BY <1>1, <1>4, <1>5, WithFlags DEF Flip
<1>7. IsClear(w) <=> k % 2 = 1
  BY <1>5 DEF IsClear
<1>8. w \in Header
  BY <1>5 DEF Header
<1>9. /\ w.major = h.major /\ w.minor = h.minor /\ w.type = h.type /\ w.seq = h.seq
      /\ w.id = h.id /\ w.length = h.length /\ w.flags = k
  BY <1>5
<1>10. Flip(w) = h
  <2>1. Flip(w) = [ major |-> w.major, minor |-> w.minor, type |-> w.type, seq |-> w.seq,
                    flags |-> f, id |-> w.id, length |-> w.length ]
    <3>1. f = IF IsClear(w) THEN w.flags - 1 ELSE w.flags + 1
      BY <1>4, <1>7, <1>9
    <3>2. Flip(w) = [w EXCEPT !.flags = f]
      BY <3>1, Zenon DEF Flip
    <3> QED BY <1>8, <3>2, WithFlags
  <2>2. Flip(w) = [ major |-> h.major, minor |-> h.minor, type |-> h.type, seq |-> h.seq,
                    flags |-> h.flags, id |-> h.id, length |-> h.length ]
    BY <1>1, <1>9, <2>1, Zenon
  <2> QED BY <2>2, HeaderIs
<1>11. Version(w) = Version(h)
  BY <1>9, Zenon DEF Version
<1>12. Pad(w) = Pad(h)
  BY <1>9, <1>11, Zenon DEF Pad, Padding, FirstBlock
<1>13. IsClear(w) = ~IsClear(h)
  BY <1>4, <1>7 DEF IsClear
<1> QED BY <1>6, <1>8, <1>9, <1>10, <1>11, <1>12, <1>13

\* Converting in place: bytes of the same number, and converting back gives the body.
LEMMA ConvertedBack ==
  ASSUME HashIsDigest, NEW h \in Header, Version(h) \in Byte,
         NEW body \in Seq(Byte), Len(body) = h.length
  PROVE  \E other \in Seq(Byte) :
           /\ Len(other) = Len(body)
           /\ ConvertInplace(h, body) = other /\ Convert(h, body) = other
           /\ ConvertInplace(h, other) = body
<1>1. PICK n \in Nat : n = h.length /\ Len(body) = n /\ DOMAIN body = 1 .. n
  BY DEF Header
<1>2. PICK pad \in Seq(Byte) : pad = Pad(h) /\ Len(pad) = n /\ DOMAIN pad = 1 .. n
  BY <1>1, PadType
<1>3. \A i \in 1 .. n : body[i] \in Byte /\ pad[i] \in Byte
  BY <1>1, <1>2, ElementOfSeq
<1>4. \A x, y \in Byte : ExclusiveOr(x, y) \in Byte /\ ExclusiveOr(ExclusiveOr(x, y), y) = x
  BY EncodingAssumption
<1>5. PICK other : other = [i \in 1 .. n |-> ExclusiveOr(body[i], pad[i])]
  OBVIOUS
<1>6. \A i \in 1 .. n : other[i] \in Byte /\ ExclusiveOr(other[i], pad[i]) = body[i]
  BY <1>3, <1>4, <1>5
<1>7. other \in [1 .. n -> Byte]
  BY <1>5, <1>6
<1>8. other \in Seq(Byte) /\ Len(other) = n /\ DOMAIN other = 1 .. n
  BY <1>7
<1>9. ~(n > n)
  OBVIOUS
<1>10. ConvertInplace(h, body) = other
  BY <1>1, <1>2, <1>5, <1>9 DEF ConvertInplace
<1>11. Convert(h, body) = other
  BY <1>1, <1>2, <1>5 DEF Convert
<1>12. body = [i \in 1 .. n |-> body[i]]
  BY <1>1
<1>13. [i \in 1 .. n |-> ExclusiveOr(other[i], pad[i])] = body
  BY <1>6, <1>12
<1>14. ConvertInplace(h, other) = body
  BY <1>2, <1>8, <1>9, <1>13 DEF ConvertInplace
<1> QED BY <1>1, <1>8, <1>10, <1>11, <1>14

\* Converting a packet in place gives a packet again, the same as the copy, and
\* converting that gives the first.
LEMMA ConvertedPacket ==
  ASSUME HashIsDigest, NEW p, Framed(p)
  PROVE  \E other :
           /\ Framed(other) /\ other.header = Flip(p.header)
           /\ ToConverted(p, ~IsClear(p.header)) = other
           /\ AsConverted(p, ~IsClear(p.header)) = other
           /\ ToConverted(other, IsClear(p.header)) = p
<1>1. PICK h \in Header, body \in Seq(Byte) : p = [header |-> h, body |-> body]
  BY DEF Framed, Packet
<1>2. p.header = h /\ p.body = body
  BY <1>1
<1>3. Version(h) \in Byte /\ Len(body) = h.length
  BY <1>2 DEF Framed
<1>4. PICK w : w = Flip(h)
  OBVIOUS
<1>5. /\ w \in Header /\ Flip(w) = h /\ IsClear(w) = ~IsClear(h)
      /\ Version(w) = Version(h) /\ w.length = h.length /\ Pad(w) = Pad(h)
  BY <1>4, FlipIs
<1>6. PICK hidden \in Seq(Byte) :
        /\ Len(hidden) = Len(body)
        /\ ConvertInplace(h, body) = hidden /\ Convert(h, body) = hidden
        /\ ConvertInplace(h, hidden) = body
  BY <1>3, ConvertedBack
<1>7. ConvertInplace(w, body) = hidden
  BY <1>5, <1>6 DEF ConvertInplace
<1>8. PICK other : other = [header |-> w, body |-> hidden]
  OBVIOUS
<1>9. other \in Packet /\ other.header = w /\ other.body = hidden
  BY <1>5, <1>8 DEF Packet
<1>10. Framed(other)
  BY <1>3, <1>5, <1>6, <1>9 DEF Framed
<1>11. hidden # Panic /\ body # Panic
  BY ErrorAssumption
<1>12. other # Error
  BY <1>9, ErrorAssumption
<1>13. IsClear(h) \in BOOLEAN /\ IsClear(w) \in BOOLEAN
  BY DEF IsClear
<1>14. IsClear(h) # ~IsClear(h) /\ IsClear(w) # IsClear(h)
  BY <1>5, <1>13
<1>15. ToConverted(p, ~IsClear(h)) = other
  BY <1>2, <1>4, <1>7, <1>8, <1>11, <1>14, Zenon DEF ToConverted
<1>16. NewPacket(w, hidden) = other
  <2>1. ~(Len(hidden) < w.length)
    BY <1>3, <1>5, <1>6
  <2> QED BY <1>8, <2>1 DEF NewPacket
<1>17. AsConverted(p, ~IsClear(h)) = other
  BY <1>2, <1>4, <1>6, <1>12, <1>14, <1>16, Zenon DEF AsConverted
<1>18. ToConverted(other, IsClear(h)) = p
  BY <1>1, <1>5, <1>6, <1>9, <1>11, <1>14, Zenon DEF ToConverted
<1> QED BY <1>2, <1>4, <1>9, <1>10, <1>15, <1>17, <1>18

-----------------------------------------------------------------------------
(***************************************************************************)
(* Requests.                                                               *)
(***************************************************************************)
\* A sequence whose members are the first of another's is its prefix.
LEMMA PrefixFrom ==
  ASSUME NEW S, NEW q \in Seq(S), NEW data \in Seq(S), NEW n \in Nat,
         n = Len(q), n <= Len(data), \A i \in 1 .. n : q[i] = data[i]
  PROVE  IsPrefix(q, data)
<1>1. PICK l \in Nat : l = Len(data) /\ n <= l
  OBVIOUS
<1>2. 0 + n <= Len(q) /\ 0 + n <= Len(data)
  BY <1>1
<1>3. PICK a : a = SubSeq(q, 0 + 1, 0 + n)
  OBVIOUS
<1>4. PICK b : b = SubSeq(data, 0 + 1, 0 + n)
  OBVIOUS
<1>5. a \in Seq(S) /\ Len(a) = n /\ \A i \in 1 .. n : a[i] = q[0 + i]
  BY <1>2, <1>3, Slice
<1>6. b \in Seq(S) /\ Len(b) = n /\ \A i \in 1 .. n : b[i] = data[0 + i]
  BY <1>2, <1>4, Slice
<1>7. a = b
  <2>1. \A i \in 1 .. n : a[i] = b[i]
    BY <1>5, <1>6
  <2> QED BY <1>5, <1>6, <2>1, SeqEqual
<1>8. 0 + 1 = 1 /\ 0 + n = n
  OBVIOUS
<1>9. SubSeq(q, 1, n) = SubSeq(data, 1, n)
  BY <1>3, <1>4, <1>7, <1>8, Zenon
<1> QED BY <1>1, <1>9 DEF IsPrefix

Five(q, a, b, c, d, e, m, t) ==
  /\ Len(q) = (9 + m) + t
  /\ \A i \in 1 .. 5 : q[i] = a[i]
  /\ \A i \in 1 .. 3 : q[5 + i] = b[i]
  /\ q[9] = c[1]
  /\ \A i \in 1 .. m : q[9 + i] = d[i]
  /\ \A i \in 1 .. t : q[(9 + m) + i] = e[i]

\* The members of the five parts of a request.
LEMMA FiveParts ==
  ASSUME NEW S, NEW a \in Seq(S), NEW b \in Seq(S), NEW c \in Seq(S), NEW d \in Seq(S),
         NEW e \in Seq(S), NEW m \in Nat, NEW t \in Nat,
         5 = Len(a), 3 = Len(b), 1 = Len(c), m = Len(d), t = Len(e)
  PROVE  /\ (((a \o b) \o c) \o d) \o e \in Seq(S)
         /\ Five((((a \o b) \o c) \o d) \o e, a, b, c, d, e, m, t)
<1>1. PICK x \in Seq(S) : x = a \o b /\ Joined(x, a, b, 5, 3)
  <2>1. 5 \in Nat /\ 3 \in Nat
    OBVIOUS
  <2> QED BY <2>1, Join
<1>2. PICK y \in Seq(S) : y = x \o c /\ Joined(y, x, c, 8, 1)
  <2>1. 8 \in Nat /\ 1 \in Nat /\ 8 = Len(x)
    BY <1>1 DEF Joined
  <2> QED BY <2>1, Join
<1>3. PICK z \in Seq(S) : z = y \o d /\ Joined(z, y, d, 9, m)
  <2>1. 9 \in Nat /\ 9 = Len(y)
    BY <1>2 DEF Joined
  <2> QED BY <2>1, Join
<1>4. PICK q \in Seq(S) : q = z \o e /\ Joined(q, z, e, 9 + m, t)
  <2>1. 9 + m \in Nat /\ 9 + m = Len(z)
    BY <1>3 DEF Joined
  <2> QED BY <2>1, Join
<1>5. \A i \in 1 .. 9 : i \in 1 .. 9 + m
  OBVIOUS
<1>6. \A i \in 1 .. 9 : q[i] = y[i]
  BY <1>3, <1>4, <1>5 DEF Joined
<1>7. \A i \in 1 .. 5 : q[i] = a[i]
  <2>1. \A i \in 1 .. 5 : i \in 1 .. 8 /\ i \in 1 .. 9
    OBVIOUS
  <2> QED BY <1>1, <1>2, <1>6, <2>1, Zenon DEF Joined
<1>8. \A i \in 1 .. 3 : q[5 + i] = b[i]
  <2>1. \A i \in 1 .. 3 : 5 + i \in 1 .. 8 /\ 5 + i \in 1 .. 9
    OBVIOUS
  <2> QED BY <1>1, <1>2, <1>6, <2>1, Zenon DEF Joined
<1>9. q[9] = c[1]
  <2>1. y[8 + 1] = c[1]
    BY <1>2, SMTT(30) DEF Joined
  <2>2. q[9] = y[9]
    BY <1>6
  <2> QED BY <2>1, <2>2
<1>10. \A i \in 1 .. m : q[9 + i] = d[i]
  <2>1. \A i \in 1 .. m : 9 + i \in 1 .. 9 + m
    OBVIOUS
  <2> QED BY <1>3, <1>4, <2>1, Zenon DEF Joined
<1>11. /\ Len(q) = (9 + m) + t
       /\ \A i \in 1 .. t : q[(9 + m) + i] = e[i]
  BY <1>4, Zenon DEF Joined
<1>12. Five(q, a, b, c, d, e, m, t)
  BY <1>7, <1>8, <1>9, <1>10, <1>11, Zenon DEF Five
<1> QED BY <1>1, <1>2, <1>3, <1>4, <1>12, Zenon

\* Where RequestBytes puts what, for m arguments and strings of t bytes in all.
RequestLayout(q, r, m, t) ==
  /\ Len(q) = (9 + m) + t
  /\ \A i \in 1 .. 5 : q[i] = r.fixed[i]
  /\ \A i \in 1 .. 3 : q[5 + i] = U8(Len(r.strings[i]))
  /\ q[9] = U8(m)
  /\ \A i \in 1 .. m : q[9 + i] = U8(Len(r.strings[i + 3]))
  /\ \A i \in 1 .. t : q[(9 + m) + i] = FlattenSeq(r.strings)[i]

\* The strings of a request, one after the other, are as long as their sizes say.
LEMMA FlattenType ==
  ASSUME NEW strings \in Seq(Seq(Byte))
  PROVE  /\ Total(Lens(strings)) \in Nat
         /\ FlattenSeq(strings) \in Seq(Byte)
         /\ Len(FlattenSeq(strings)) = Total(Lens(strings))
<1>1. PICK n \in Nat : n = Len(strings)
  OBVIOUS
<1>2. Lens(strings) \in Seq(Nat) /\ Len(Lens(strings)) = n
  BY <1>1, LensType
<1>3. Total(Lens(strings)) = Ends(Lens(strings))[n] /\ Ends(Lens(strings))[n] \in Nat
  <2>1. n \in 0 .. n
    OBVIOUS
  <2> QED BY <1>2, <2>1, EndsStep DEF Total
<1>4. FlatParts(strings, FlattenSeq(strings), n)
  BY <1>1, FlattenParts
<1> QED BY <1>3, <1>4 DEF FlatParts

\* What to_bytes makes of a request.
LEMMA RequestLaidOut ==
  ASSUME NEW r \in Request, Len(r.fixed) = 5, NEW m \in Nat, Len(r.strings) = 3 + m,
         NEW t, t = Total(Lens(r.strings))
  PROVE  /\ t \in Nat /\ RequestBytes(r) \in Seq(Byte)
         /\ RequestLayout(RequestBytes(r), r, m, t)
<1>1. PICK a \in Seq(Byte) : a = r.fixed /\ 5 = Len(a)
  BY DEF Request
<1>2. PICK strings \in Seq(Seq(Byte)) : strings = r.strings /\ Len(strings) = 3 + m
  BY DEF Request
<1>3. \A i \in 1 .. 3 + m : U8(Len(strings[i])) \in Byte
  <2>1. \A i \in 1 .. 3 + m : Len(strings[i]) \in Nat
    BY <1>2
  <2> QED BY <2>1, U8Type
<1>4. PICK b : b = [i \in 1 .. 3 |-> U8(Len(strings[i]))]
  OBVIOUS
<1>5. b \in Seq(Byte) /\ 3 = Len(b) /\ \A i \in 1 .. 3 : b[i] = U8(Len(strings[i]))
  <2>1. \A i \in 1 .. 3 : i \in 1 .. 3 + m
    OBVIOUS
  <2>2. b \in [1 .. 3 -> Byte]
    BY <1>3, <1>4, <2>1
  <2> QED BY <1>4, <2>2
<1>6. PICK c : c = <<U8(m)>>
  OBVIOUS
<1>7. c \in Seq(Byte) /\ 1 = Len(c) /\ c[1] = U8(m)
  BY <1>6, U8Type
<1>8. PICK d : d = [i \in 1 .. m |-> U8(Len(strings[i + 3]))]
  OBVIOUS
<1>9. d \in Seq(Byte) /\ m = Len(d) /\ \A i \in 1 .. m : d[i] = U8(Len(strings[i + 3]))
  <2>1. \A i \in 1 .. m : i + 3 \in 1 .. 3 + m
    OBVIOUS
  <2>2. d \in [1 .. m -> Byte]
    BY <1>3, <1>8, <2>1
  <2> QED BY <1>8, <2>2
<1>10. PICK e \in Seq(Byte) : e = FlattenSeq(strings) /\ t = Len(e) /\ t \in Nat
  BY <1>2, FlattenType
<1>11. ArgCount(r) = m
  BY <1>2 DEF ArgCount
<1>12. RequestBytes(r) = (((a \o b) \o c) \o d) \o e
  BY <1>1, <1>2, <1>4, <1>6, <1>8, <1>10, <1>11 DEF RequestBytes
<1>13. PICK q \in Seq(Byte) : q = RequestBytes(r) /\ Five(q, a, b, c, d, e, m, t)
  BY <1>1, <1>5, <1>7, <1>9, <1>10, <1>12, FiveParts, ZenonT(30)
<1>14. RequestLayout(q, r, m, t)
  BY <1>1, <1>2, <1>5, <1>7, <1>9, <1>10, <1>13, Zenon DEF Five, RequestLayout
<1> QED BY <1>10, <1>13, <1>14

\* The sizes that a request's bytes give for its strings.
SizesLayout(s, data, m) ==
  /\ Len(s) = 3 + m
  /\ \A i \in 1 .. 3 : s[i] = data[5 + i]
  /\ \A i \in 1 .. m : s[3 + i] = data[9 + i]

\* What size_from_bytes and from_bytes take for the sizes.
LEMMA RequestSizesAre ==
  ASSUME NEW data \in Seq(Byte), HasSizes(data), NEW m, m = data[9],
         NEW s, s = RequestSizes(data)
  PROVE  /\ m \in Byte /\ m \in Nat /\ Len(data) \in Nat /\ 9 + m <= Len(data)
         /\ s \in Seq(Byte) /\ s \in Seq(Nat) /\ SizesLayout(s, data, m)
<1>1. PICK l \in Nat : l = Len(data) /\ l >= 9 /\ l >= 9 + m
  BY DEF HasSizes, RequestMinLen
<1>2. m \in Byte /\ m \in Nat
  <2>1. 9 \in 1 .. Len(data)
    BY <1>1
  <2>2. data[9] \in Byte
    BY <2>1, ElementOfSeq
  <2> QED BY <2>2, ByteNat
<1>3. PICK a : a = SubSeq(data, 5 + 1, 5 + 3)
  OBVIOUS
<1>4. a \in Seq(Byte) /\ Len(a) = 3 /\ \A i \in 1 .. 3 : a[i] = data[5 + i]
  <2>1. 5 + 3 <= Len(data)
    BY <1>1
  <2> QED BY <1>3, <2>1, Slice
<1>5. PICK b : b = SubSeq(data, 9 + 1, 9 + m)
  OBVIOUS
<1>6. b \in Seq(Byte) /\ Len(b) = m /\ \A i \in 1 .. m : b[i] = data[9 + i]
  <2>1. 9 + m <= Len(data)
    BY <1>1, <1>2
  <2> QED BY <1>2, <1>5, <2>1, Slice
<1>7. s \in Seq(Byte) /\ Joined(s, a, b, 3, m)
  <2>1. 3 \in Nat /\ 3 = Len(a) /\ m = Len(b)
    BY <1>4, <1>6
  <2>2. 5 + 1 = 6 /\ 5 + 3 = 8
    OBVIOUS
  <2>3. s = a \o b
    BY <1>3, <1>5, <2>2, Zenon DEF RequestSizes, RequestMinLen
  <2>4. a \o b \in Seq(Byte) /\ Joined(a \o b, a, b, 3, m)
    BY <1>2, <1>4, <1>6, <2>1, Join
  <2> QED BY <2>3, <2>4, Zenon
<1>8. s \in Seq(Nat)
  BY <1>7, ByteNat, SeqMonotonic
<1>9. SizesLayout(s, data, m)
  BY <1>4, <1>6, <1>7, Zenon DEF Joined, SizesLayout
<1> QED BY <1>1, <1>2, <1>7, <1>8, <1>9

\* A request that is accepted is encoded to a prefix of what it was read from.
LEMMA RequestFaithful ==
  ASSUME NEW data \in Seq(Byte), NEW r, r = RequestFromBytes(data), r # Error
  PROVE  r \in Request /\ IsPrefix(RequestBytes(r), data)
<1>1. PICK m : m = data[9]
  OBVIOUS
<1>2. PICK s : s = RequestSizes(data)
  OBVIOUS
<1>3. HasSizes(data)
  BY DEF RequestFromBytes
<1>4. /\ m \in Byte /\ m \in Nat /\ Len(data) \in Nat /\ 9 + m <= Len(data)
      /\ s \in Seq(Byte) /\ s \in Seq(Nat) /\ Len(s) = 3 + m
      /\ \A i \in 1 .. 3 : s[i] = data[5 + i]
      /\ \A i \in 1 .. m : s[3 + i] = data[9 + i]
  <2>1. /\ m \in Byte /\ m \in Nat /\ Len(data) \in Nat /\ 9 + m <= Len(data)
        /\ s \in Seq(Byte) /\ s \in Seq(Nat) /\ SizesLayout(s, data, m)
    BY <1>1, <1>2, <1>3, RequestSizesAre
  <2> QED BY <2>1, Zenon DEF SizesLayout
<1>5. PICK l \in Nat : l = Len(data) /\ 9 + m <= l
  BY <1>4
<1>6. PICK start \in Nat : start = 9 + m
  BY <1>4
<1>7. PICK t : t = Total(s)
  OBVIOUS
<1>8. PICK strings : strings = StringsAt(data, start, s)
  OBVIOUS
<1>9. start + Total(s) <= Len(data)
  BY <1>1, <1>2, <1>6 DEF RequestFromBytes, Readable, RequestMinLen
<1>10. /\ strings \in Seq(Seq(Byte)) /\ Len(strings) = 3 + m /\ Lens(strings) = s
       /\ FlattenSeq(strings) = SubSeq(data, start + 1, start + Total(s))
  <2>1. strings \in Seq(Seq(Byte)) /\ ReadBack(strings, data, start, s)
    BY <1>4, <1>8, <1>9, StringsRead
  <2> QED BY <1>4, <2>1 DEF ReadBack
<1>11. PICK fixed : fixed = SubSeq(data, 0 + 1, 0 + 5)
  OBVIOUS
<1>12. fixed \in Seq(Byte) /\ Len(fixed) = 5 /\ \A i \in 1 .. 5 : fixed[i] = data[0 + i]
  <2>1. 0 + 5 <= Len(data)
    BY <1>4, <1>5
  <2> QED BY <1>11, <2>1, Slice
<1>13. r = [fixed |-> fixed, strings |-> strings]
  BY <1>1, <1>2, <1>6, <1>8, <1>11 DEF RequestFromBytes, RequestMinLen
<1>14. r \in Request /\ r.fixed = fixed /\ r.strings = strings
  BY <1>10, <1>12, <1>13 DEF Request
<1>15. t = Total(Lens(r.strings))
  BY <1>7, <1>10, <1>14
<1>16. PICK q \in Seq(Byte) : q = RequestBytes(r) /\ RequestLayout(q, r, m, t) /\ t \in Nat
  BY <1>4, <1>10, <1>12, <1>14, <1>15, RequestLaidOut
<1>17. PICK n \in Nat : n = Len(q) /\ n = (9 + m) + t /\ n <= l
  <2>1. Len(q) = (9 + m) + t
    BY <1>16 DEF RequestLayout
  <2> QED BY <1>4, <1>5, <1>6, <1>7, <1>9, <1>16, <2>1
<1>18. \A i \in 1 .. 3 + m : U8(Len(strings[i])) = s[i]
  <2>1. \A i \in 1 .. 3 + m : s[i] = Len(strings[i])
    BY <1>4, <1>10, LensType
  <2>2. \A i \in 1 .. 3 + m : s[i] \in Byte
    BY <1>4, ElementOfSeq
  <2> QED BY <2>1, <2>2, ByteNat, U8Type
<1>19. \A i \in 1 .. 5 : q[i] = data[i]
  <2>1. \A i \in 1 .. 5 : q[i] = fixed[i]
    BY <1>14, <1>16 DEF RequestLayout
  <2> QED BY <1>12, <2>1
<1>20. \A i \in 1 .. 3 : q[5 + i] = data[5 + i]
  <2>1. \A i \in 1 .. 3 : i \in 1 .. 3 + m
    BY <1>4
  <2>2. \A i \in 1 .. 3 : q[5 + i] = U8(Len(strings[i]))
    BY <1>14, <1>16 DEF RequestLayout
  <2> QED BY <1>4, <1>18, <2>1, <2>2, Zenon
<1>21. q[9] = data[9]
  <2>1. q[9] = U8(m)
    BY <1>16 DEF RequestLayout
  <2> QED BY <1>1, <1>4, <2>1, U8Type
<1>22. \A i \in 1 .. m : q[9 + i] = data[9 + i]
  <2>1. \A i \in 1 .. m : i + 3 \in 1 .. 3 + m /\ i + 3 = 3 + i
    BY <1>4
  <2>2. \A i \in 1 .. m : q[9 + i] = U8(Len(strings[i + 3]))
    BY <1>14, <1>16 DEF RequestLayout
  <2> QED BY <1>4, <1>18, <2>1, <2>2, Zenon
<1>23. \A i \in 1 .. t : q[start + i] = data[start + i]
  <2>1. PICK e : e = SubSeq(data, start + 1, start + t)
    OBVIOUS
  <2>2. \A i \in 1 .. t : e[i] = data[start + i]
    BY <1>7, <1>9, <1>16, <2>1, Slice
  <2>3. \A i \in 1 .. t : q[(9 + m) + i] = FlattenSeq(r.strings)[i]
    BY <1>16 DEF RequestLayout
  <2>4. FlattenSeq(r.strings) = e
    BY <1>7, <1>10, <1>14, <2>1
  <2> QED BY <1>6, <2>2, <2>3, <2>4, Zenon
<1>24. ASSUME NEW i \in 1 .. n PROVE q[i] = data[i]
  <2>1. CASE i \in 1 .. 5
    BY <1>19, <2>1
  <2>2. CASE i \in 6 .. 8
    <3>1. i - 5 \in 1 .. 3 /\ 5 + (i - 5) = i
      BY <2>2
    <3> QED BY <1>20, <3>1
  <2>3. CASE i = 9
    BY <1>21, <2>3
  <2>4. CASE i \in 10 .. 9 + m
    <3>1. i - 9 \in 1 .. m /\ 9 + (i - 9) = i
      BY <1>4, <2>4
    <3> QED BY <1>22, <3>1
  <2>5. CASE i > 9 + m
    <3>1. i - start \in 1 .. t /\ start + (i - start) = i
      BY <1>4, <1>6, <1>16, <1>17, <2>5
    <3> QED BY <1>23, <3>1
  <2> QED BY <1>4, <2>1, <2>2, <2>3, <2>4, <2>5
<1> QED BY <1>5, <1>14, <1>16, <1>17, <1>24, PrefixFrom

\* The data and the encoding are the same as far as both go.
Agree(data, q) == \A i \in 1 .. Len(data) : i <= Len(q) => data[i] = q[i]

\* If the sizes are all there, they are those of the strings.
LEMMA RequestHead ==
  ASSUME NEW r \in Request, Len(r.fixed) = 5, NEW m \in Nat, Len(r.strings) = 3 + m,
         FitsRequest(r), NEW data \in Seq(Byte), Agree(data, RequestBytes(r)), HasSizes(data)
  PROVE  data[9] = m /\ RequestSizes(data) = Lens(r.strings)
<1>1. PICK t \in Nat : t = Total(Lens(r.strings))
  BY FlattenType DEF Request
<1>2. PICK q \in Seq(Byte) : q = RequestBytes(r) /\ RequestLayout(q, r, m, t) /\ t \in Nat
  BY <1>1, RequestLaidOut
<1>3. PICK n \in Nat : n = Len(q) /\ n = (9 + m) + t
  BY <1>2 DEF RequestLayout
<1>4. PICK l \in Nat : l = Len(data) /\ l >= 9
  BY DEF HasSizes, RequestMinLen
<1>5. \A i \in 1 .. l : i <= n => data[i] = q[i]
  BY <1>2, <1>3, <1>4, Zenon DEF Agree
<1>6. PICK strings \in Seq(Seq(Byte)) : strings = r.strings /\ Len(strings) = 3 + m
  BY DEF Request
<1>7. m \in Byte /\ \A i \in 1 .. 3 + m : Len(strings[i]) \in Byte
  <2>1. ArgCount(r) = m
    BY DEF ArgCount
  <2>2. \A i \in 1 .. 3 + m : Len(strings[i]) \in Nat /\ Len(strings[i]) < ByteMod
    BY <1>6 DEF FitsRequest
  <2> QED BY <2>1, <2>2, ByteNat DEF FitsRequest
<1>8. U8(m) = m /\ \A i \in 1 .. 3 + m : U8(Len(strings[i])) = Len(strings[i])
  BY <1>7, ByteNat, U8Type
<1>9. data[9] = m
  <2>1. 9 \in 1 .. l /\ 9 <= n
    BY <1>3, <1>4
  <2>2. q[9] = U8(m)
    BY <1>2 DEF RequestLayout
  <2> QED BY <1>5, <1>8, <2>1, <2>2, Zenon
<1>10. PICK s : s = RequestSizes(data)
  OBVIOUS
<1>11. 9 + m <= l /\ s \in Seq(Nat) /\ SizesLayout(s, data, m)
  BY <1>4, <1>9, <1>10, RequestSizesAre
<1>12. \A i \in 1 .. 3 : s[i] = Len(strings[i])
  <2>1. \A i \in 1 .. 3 : 5 + i \in 1 .. l /\ 5 + i <= n /\ i \in 1 .. 3 + m
    BY <1>3, <1>4
  <2>2. \A i \in 1 .. 3 : q[5 + i] = U8(Len(strings[i]))
    BY <1>2, <1>6 DEF RequestLayout
  <2>3. \A i \in 1 .. 3 : s[i] = data[5 + i]
    BY <1>11 DEF SizesLayout
  <2> QED BY <1>5, <1>8, <2>1, <2>2, <2>3, Zenon
<1>13. \A i \in 1 .. m : s[3 + i] = Len(strings[3 + i])
  <2>1. \A i \in 1 .. m : 9 + i \in 1 .. l /\ 9 + i <= n /\ i + 3 \in 1 .. 3 + m /\ i + 3 = 3 + i
    BY <1>3, <1>4, <1>11
  <2>2. \A i \in 1 .. m : q[9 + i] = U8(Len(strings[i + 3]))
    BY <1>2, <1>6 DEF RequestLayout
  <2>3. \A i \in 1 .. m : s[3 + i] = data[9 + i]
    BY <1>11 DEF SizesLayout
  <2>4. \A i \in 1 .. m : U8(Len(strings[i + 3])) = Len(strings[3 + i])
    BY <1>8, <2>1, Zenon
  <2>5. \A i \in 1 .. m : data[9 + i] = q[9 + i]
    BY <1>5, <2>1, Zenon
  <2> QED BY <2>2, <2>3, <2>4, <2>5, Zenon
<1>14. PICK z \in Seq(Nat) : z = Lens(strings) /\ Len(z) = 3 + m
  BY <1>6, LensType
<1>15. \A i \in 1 .. 3 + m : z[i] = Len(strings[i])
  BY <1>6, <1>14, LensType
<1>16. ASSUME NEW i \in 1 .. 3 + m PROVE s[i] = z[i]
  <2>1. CASE i \in 1 .. 3
    BY <1>12, <1>15, <2>1
  <2>2. CASE i \notin 1 .. 3
    <3>1. i - 3 \in 1 .. m /\ 3 + (i - 3) = i
      BY <2>2
    <3> QED BY <1>13, <1>15, <3>1
  <2> QED BY <2>1, <2>2
<1>17. Len(s) = 3 + m
  BY <1>11 DEF SizesLayout
<1>18. s = z
  BY <1>11, <1>14, <1>16, <1>17, SeqEqual
<1> QED BY <1>6, <1>9, <1>10, <1>14, <1>18

\* A request whose fields fit the widths of their lengths is read from its bytes,
\* also when more follow; from fewer nothing is.
LEMMA RequestDecoded ==
  ASSUME NEW r \in Request, Len(r.fixed) = 5, \A i \in 1 .. 5 : r.fixed[i] \in Fixed[i],
         NEW m \in Nat, Len(r.strings) = 3 + m, IsText(r.strings), FitsRequest(r),
         NEW data \in Seq(Byte), Agree(data, RequestBytes(r))
  PROVE  /\ Len(data) >= Len(RequestBytes(r)) => RequestFromPacket(data) = r
         /\ Len(data) < Len(RequestBytes(r)) =>
              RequestFromPacket(data) = IF HasSizes(data) THEN Error ELSE Panic
<1>1. PICK sizes : sizes = Lens(r.strings)
  OBVIOUS
<1>2. PICK t \in Nat : t = Total(sizes)
  BY <1>1, FlattenType DEF Request
<1>3. PICK q \in Seq(Byte) : q = RequestBytes(r) /\ RequestLayout(q, r, m, t) /\ t \in Nat
  BY <1>1, <1>2, RequestLaidOut
<1>4. PICK n \in Nat : n = Len(q) /\ n = (9 + m) + t
  BY <1>3 DEF RequestLayout
<1>5. PICK l \in Nat : l = Len(data)
  OBVIOUS
<1>6. \A i \in 1 .. l : i <= n => data[i] = q[i]
  BY <1>3, <1>4, <1>5, Zenon DEF Agree
<1>7. PICK start \in Nat : start = 9 + m
  OBVIOUS
<1>8. CASE ~HasSizes(data)
  <2>1. ~(l >= n)
    <3> SUFFICES ASSUME l >= n PROVE FALSE
      OBVIOUS
    <3>1. m \in Byte
      <4>1. ArgCount(r) = m
        BY DEF ArgCount
      <4> QED BY <4>1, ByteNat DEF FitsRequest
    <3>2. 9 \in 1 .. l /\ 9 <= n
      BY <1>4
    <3>3. data[9] = U8(m)
      BY <1>3, <1>6, <3>2 DEF RequestLayout
    <3>4. data[9] = m
      BY <3>1, <3>3, U8Type
    <3> QED BY <1>3, <1>4, <1>5, <1>8, <3>4 DEF HasSizes, RequestMinLen
  <2>2. RequestFromPacket(data) = Panic
    BY <1>8 DEF RequestFromPacket
  <2> QED BY <1>3, <1>4, <1>5, <1>8, <2>1, <2>2
<1>9. CASE HasSizes(data)
  <2>1. data[9] = m /\ RequestSizes(data) = sizes
    BY <1>1, <1>9, RequestHead
  <2>2. Readable(data, start, sizes) => start + t <= l
    BY <1>2, <1>5 DEF Readable
  <2>3. CASE l < n
    <3>1. ~Readable(data, start, sizes)
      BY <1>3, <1>4, <1>7, <2>2, <2>3
    <3>2. RequestFromBytes(data) = Error
      BY <1>7, <2>1, <3>1, Zenon DEF RequestFromBytes, RequestMinLen
    <3>3. RequestFromPacket(data) = Error
      BY <1>9, <3>2 DEF RequestFromPacket
    <3> QED BY <1>3, <1>4, <1>5, <1>9, <2>3, <3>3
  <2>4. CASE l >= n
    <3>1. start + t <= l
      BY <1>4, <1>7, <2>4
    <3>2. \A i \in 1 .. n : i \in 1 .. l /\ i <= n
      BY <2>4
    <3>3. \A i \in 1 .. n : data[i] = q[i]
      BY <1>6, <3>2
    <3>4. StringsAt(data, start, sizes) = r.strings
      <4>1. PICK strings \in Seq(Seq(Byte)) : strings = r.strings
        BY DEF Request
      <4>2. \A j \in 1 .. t : start + j \in 1 .. n
        BY <1>3, <1>4, <1>7, SMTT(30)
      <4>3. \A j \in 1 .. t : q[start + j] = FlattenSeq(strings)[j]
        BY <1>3, <1>7, <4>1 DEF RequestLayout
      <4>4. \A j \in 1 .. t : data[start + j] = FlattenSeq(strings)[j]
        BY <3>3, <4>2, <4>3
      <4> QED BY <1>1, <1>2, <1>5, <3>1, <4>1, <4>4, StringsFound, SMTT(30)
    <3>5. Readable(data, start, sizes)
      BY <1>2, <1>5, <3>1, <3>4 DEF Readable
    <3>6. \A i \in 1 .. 5 : data[i] = r.fixed[i]
      <4>1. \A i \in 1 .. 5 : i \in 1 .. n
        BY <1>4
      <4>2. \A i \in 1 .. 5 : q[i] = r.fixed[i]
        BY <1>3 DEF RequestLayout
      <4> QED BY <3>3, <4>1, <4>2, Zenon
    <3>7. PICK fixed : fixed = SubSeq(data, 0 + 1, 0 + 5)
      OBVIOUS
    <3>8. fixed = r.fixed
      <4>1. 0 + 5 <= Len(data)
        BY <1>4, <1>5, <2>4
      <4>2. fixed \in Seq(Byte) /\ Len(fixed) = 5 /\ \A i \in 1 .. 5 : fixed[i] = data[0 + i]
        BY <3>7, <4>1, Slice
      <4>3. r.fixed \in Seq(Byte)
        BY DEF Request
      <4>4. \A i \in 1 .. 5 : fixed[i] = r.fixed[i]
        BY <3>6, <4>2
      <4> QED BY <4>2, <4>3, <4>4, SeqEqual
    <3>9. SubSeq(data, 1, 5) = r.fixed
      BY <3>7, <3>8
    <3>10. r = [fixed |-> r.fixed, strings |-> r.strings]
      BY DEF Request
    <3>11. \A i \in 1 .. 5 : data[i] \in Fixed[i]
      BY <3>6, Zenon
    <3>12. RequestFromBytes(data) = [fixed |-> SubSeq(data, 1, 5), strings |-> StringsAt(data, start, sizes)]
      BY <1>7, <1>9, <2>1, <3>5, <3>11, Zenon DEF RequestFromBytes, RequestMinLen
    <3>13. ~(Len(data) < RequestSize(data))
      <4>1. RequestSize(data) = 9 + t
        BY <1>2, <2>1 DEF RequestSize, RequestMinLen
      <4> QED BY <1>3, <1>4, <1>5, <2>4, <4>1
    <3>14. RequestFromPacket(data) = r
      BY <1>9, <3>4, <3>9, <3>10, <3>12, <3>13, Zenon DEF RequestFromPacket
    <3> QED BY <1>3, <1>4, <1>5, <2>4, <3>14
  <2> QED BY <1>4, <1>5, <2>3, <2>4
<1> QED BY <1>8, <1>9

\* The length check of from_packet refuses no request that from_bytes accepts.
LEMMA RequestChecked ==
  ASSUME NEW data \in Seq(Byte), RequestFromPacket(data) # Panic
  PROVE  RequestFromPacket(data) = RequestFromBytes(data)
<1>1. HasSizes(data)
  BY DEF RequestFromPacket
<1>2. PICK m : m = data[9]
  OBVIOUS
<1>3. PICK s : s = RequestSizes(data)
  OBVIOUS
<1>4. m \in Nat /\ s \in Seq(Nat) /\ Len(data) \in Nat
  BY <1>1, <1>2, <1>3, RequestSizesAre
<1>5. PICK t \in Nat : t = Total(s)
  <2>1. PICK k \in Nat : k = Len(s)
    BY <1>4
  <2> QED BY <1>4, <2>1, EndsStep DEF Total
<1>6. CASE Len(data) < RequestSize(data)
  <2>1. Len(data) < 9 + t
    BY <1>3, <1>5, <1>6 DEF RequestSize, RequestMinLen
  <2>2. ~((9 + m) + t <= Len(data))
    BY <1>4, <2>1
  <2>3. RequestFromBytes(data) = Error
    BY <1>2, <1>3, <1>5, <2>2 DEF RequestFromBytes, Readable, RequestMinLen
  <2> QED BY <1>1, <1>6, <2>3 DEF RequestFromPacket
<1>7. CASE ~(Len(data) < RequestSize(data))
  BY <1>1, <1>7 DEF RequestFromPacket
<1> QED BY <1>6, <1>7

-----------------------------------------------------------------------------
(***************************************************************************)
(* Replies.                                                                *)
(***************************************************************************)
\* A pair is its members.
LEMMA PairIs ==
  ASSUME NEW f, NEW a, NEW b, f = [k \in 1 .. 2 |-> f[k]], f[1] = a, f[2] = b
  PROVE  f = <<a, b>>
OBVIOUS

\* Two strings, one after the other.
TwoAt(data, sizes, m, n) ==
  /\ Total(sizes) = m + n
  /\ StringsAt(data, 5, sizes) =
       <<SubSeq(data, 5 + 1, 5 + m), SubSeq(data, (5 + m) + 1, (5 + m) + n)>>

\* The strings of two sizes.
LEMMA TwoStrings ==
  ASSUME NEW m \in Nat, NEW n \in Nat, NEW sizes, sizes = <<m, n>>, NEW data
  PROVE  TwoAt(data, sizes, m, n)
<1>1. sizes \in Seq(Nat) /\ Len(sizes) = 2 /\ sizes[1] = m /\ sizes[2] = n
  OBVIOUS
<1>2. PICK e : e = Ends(sizes)
  OBVIOUS
<1>3. e[0] = 0 /\ \A k \in 1 .. 2 : e[k] = e[k - 1] + sizes[k]
  BY <1>1, <1>2, EndsStep
<1>4. e[1] = m /\ e[2] = m + n
  <2>1. e[1] = e[0] + sizes[1] /\ e[2] = e[1] + sizes[2]
    BY <1>3
  <2> QED BY <1>1, <1>3, <2>1
<1>5. DOMAIN sizes = 1 .. 2
  BY <1>1
<1>6. StringsAt(data, 5, sizes) =
        [k \in 1 .. 2 |-> SubSeq(data, 5 + e[k - 1] + 1, 5 + e[k])]
  BY <1>2, <1>5, Zenon DEF StringsAt
<1>7. /\ 5 + e[1 - 1] + 1 = 5 + 1 /\ 5 + e[1] = 5 + m
      /\ 5 + e[2 - 1] + 1 = (5 + m) + 1 /\ 5 + e[2] = (5 + m) + n
  BY <1>3, <1>4
<1>8. PICK a, b : /\ a = SubSeq(data, 5 + 1, 5 + m)
                  /\ b = SubSeq(data, (5 + m) + 1, (5 + m) + n)
  OBVIOUS
<1>9. [k \in 1 .. 2 |-> SubSeq(data, 5 + e[k - 1] + 1, 5 + e[k])] = <<a, b>>
  <2>1. SubSeq(data, 5 + e[1 - 1] + 1, 5 + e[1]) = a
    BY <1>7, <1>8, Zenon
  <2>2. SubSeq(data, 5 + e[2 - 1] + 1, 5 + e[2]) = b
    BY <1>7, <1>8, Zenon
  <2>3. PICK f : f = [k \in 1 .. 2 |-> SubSeq(data, 5 + e[k - 1] + 1, 5 + e[k])]
    OBVIOUS
  <2>4. f[1] = a /\ f[2] = b
    <3>1. 1 \in 1 .. 2 /\ 2 \in 1 .. 2
      OBVIOUS
    <3> QED BY <2>1, <2>2, <2>3, <3>1, Zenon
  <2>5. f = [k \in 1 .. 2 |-> f[k]]
    BY <2>3
  <2>6. f = <<a, b>>
    BY <2>4, <2>5, PairIs
  <2> QED BY <2>3, <2>6, Zenon
<1>10. Total(sizes) = m + n
  BY <1>1, <1>2, <1>4 DEF Total
<1> QED BY <1>6, <1>8, <1>9, <1>10 DEF TwoAt

\* Where ReplyBytes puts what.
ReplyLayout(q, r, m, n) ==
  /\ Len(q) = (5 + m) + n
  /\ q[1] = U16(m)[1] /\ q[2] = U16(m)[2]
  /\ q[3] = U16(n)[1] /\ q[4] = U16(n)[2]
  /\ q[5] = r.status
  /\ \A i \in 1 .. m : q[5 + i] = r.msg[i]
  /\ \A i \in 1 .. n : q[(5 + m) + i] = r.data[i]

\* What to_bytes makes of a reply.
LEMMA ReplyLaidOut ==
  ASSUME NEW r \in Reply, NEW m \in Nat, NEW n \in Nat, m = Len(r.msg), n = Len(r.data)
  PROVE  ReplyBytes(r) \in Seq(Byte) /\ ReplyLayout(ReplyBytes(r), r, m, n)
<1>1. PICK msg \in Seq(Byte), more \in Seq(Byte) :
        msg = r.msg /\ more = r.data /\ m = Len(msg) /\ n = Len(more)
  BY DEF Reply
<1>2. PICK a \in Seq(Byte) : a = U16(m) /\ 2 = Len(a)
  BY U16Value
<1>3. PICK b \in Seq(Byte) : b = U16(n) /\ 2 = Len(b)
  BY U16Value
<1>0. PICK c : c = <<r.status>>
  OBVIOUS
<1>4. c \in Seq(Byte) /\ 1 = Len(c) /\ c[1] = r.status
  <2>1. PICK s \in Byte : s = r.status
    BY DEF Reply
  <2> QED BY <1>0, <2>1
<1>5. PICK x \in Seq(Byte) : x = a \o b /\ Joined(x, a, b, 2, 2)
  <2>1. 2 \in Nat
    OBVIOUS
  <2> QED BY <1>2, <1>3, <2>1, Join
<1>6. PICK y \in Seq(Byte) : y = x \o c /\ Joined(y, x, c, 4, 1)
  <2>1. 4 \in Nat /\ 1 \in Nat /\ 4 = Len(x)
    BY <1>5 DEF Joined
  <2> QED BY <1>4, <2>1, Join
<1>7. PICK z \in Seq(Byte) : z = y \o msg /\ Joined(z, y, msg, 5, m)
  <2>1. 5 \in Nat /\ 5 = Len(y)
    BY <1>6 DEF Joined
  <2> QED BY <1>1, <2>1, Join
<1>8. PICK q \in Seq(Byte) : q = z \o more /\ Joined(q, z, more, 5 + m, n)
  <2>1. 5 + m \in Nat /\ 5 + m = Len(z)
    BY <1>7 DEF Joined
  <2> QED BY <1>1, <2>1, Join
<1>9. \A i \in 1 .. 5 : q[i] = y[i]
  <2>1. \A i \in 1 .. 5 : i \in 1 .. 5 + m
    OBVIOUS
  <2> QED BY <1>7, <1>8, <2>1, Zenon DEF Joined
<1>10. q[1] = a[1] /\ q[2] = a[2] /\ q[3] = b[1] /\ q[4] = b[2] /\ q[5] = c[1]
  <2>1. \A i \in 1 .. 4 : i \in 1 .. 5
    OBVIOUS
  <2>2. \A i \in 1 .. 4 : q[i] = x[i]
    BY <1>6, <1>9, <2>1, Zenon DEF Joined
  <2>3. x[1] = a[1] /\ x[2] = a[2] /\ x[2 + 1] = b[1] /\ x[2 + 2] = b[2]
    <3>1. 1 \in 1 .. 2 /\ 2 \in 1 .. 2
      OBVIOUS
    <3> QED BY <1>5, <3>1, Zenon DEF Joined
  <2>4. y[4 + 1] = c[1]
    BY <1>6 DEF Joined
  <2>5. q[1] = x[1] /\ q[2] = x[2] /\ q[3] = x[3] /\ q[4] = x[4] /\ q[5] = y[5]
    BY <1>9, <2>2
  <2> QED BY <2>3, <2>4, <2>5
<1>11. \A i \in 1 .. m : q[5 + i] = msg[i]
  <2>1. \A i \in 1 .. m : 5 + i \in 1 .. 5 + m
    OBVIOUS
  <2> QED BY <1>7, <1>8, <2>1, Zenon DEF Joined
<1>12. /\ Len(q) = (5 + m) + n
       /\ \A i \in 1 .. n : q[(5 + m) + i] = more[i]
  BY <1>8, Zenon DEF Joined
<1>13. ReplyBytes(r) = q
  BY <1>0, <1>1, <1>2, <1>3, <1>4, <1>5, <1>6, <1>7, <1>8, Zenon DEF ReplyBytes
<1>14. ReplyLayout(q, r, m, n)
  BY <1>1, <1>2, <1>3, <1>4, <1>10, <1>11, <1>12, Zenon DEF ReplyLayout
<1> QED BY <1>13, <1>14

\* The sizes that a reply's bytes give for its strings.
LEMMA ReplySizesAre ==
  ASSUME NEW data \in Seq(Byte), Len(data) >= 4
  PROVE  \E m \in Nat, n \in Nat :
           /\ ReplySizes(data) = <<m, n>>
           /\ U16(m) = <<data[1], data[2]>> /\ U16(n) = <<data[3], data[4]>>
           /\ m = data[1] * ByteMod + data[2] /\ n = data[3] * ByteMod + data[4]
<1>1. /\ data[1] \in Byte /\ data[2] \in Byte /\ data[3] \in Byte /\ data[4] \in Byte
  <2>1. 1 \in 1 .. Len(data) /\ 2 \in 1 .. Len(data) /\ 3 \in 1 .. Len(data) /\ 4 \in 1 .. Len(data)
    OBVIOUS
  <2> QED BY <2>1, ElementOfSeq
<1>2. PICK a \in Byte, b \in Byte, c \in Byte, d \in Byte :
        a = data[1] /\ b = data[2] /\ c = data[3] /\ d = data[4]
  BY <1>1, Zenon
<1>3. PICK m \in Nat : m = a * ByteMod + b /\ U16(m) = <<a, b>>
  <2>1. /\ a * ByteMod + b \in 0 .. WordMod - 1
        /\ U16(a * ByteMod + b) = <<a, b>>
    BY TwoBytes
  <2>2. \A x \in 0 .. WordMod - 1 : x \in Nat
    BY ByteModType
  <2> QED BY <2>1, <2>2, Zenon
<1>4. PICK n \in Nat : n = c * ByteMod + d /\ U16(n) = <<c, d>>
  <2>1. /\ c * ByteMod + d \in 0 .. WordMod - 1
        /\ U16(c * ByteMod + d) = <<c, d>>
    BY TwoBytes
  <2>2. \A x \in 0 .. WordMod - 1 : x \in Nat
    BY ByteModType
  <2> QED BY <2>1, <2>2, Zenon
<1>5. 1 + 1 = 2 /\ 3 + 1 = 4
  OBVIOUS
<1>6. U16At(data, 1) = m /\ U16At(data, 3) = n
  BY <1>2, <1>3, <1>4, <1>5, Zenon DEF U16At
<1>7. ReplySizes(data) = <<m, n>>
  BY <1>6, Zenon DEF ReplySizes
<1> QED BY <1>2, <1>3, <1>4, <1>7, Zenon

\* A reply that is accepted is encoded to a prefix of what it was read from.
LEMMA ReplyFaithful ==
  ASSUME NEW data \in Seq(Byte), NEW r, r = ReplyFromBytes(data), r # Error
  PROVE  r \in Reply /\ IsPrefix(ReplyBytes(r), data)
<1>1. PICK l \in Nat : l = Len(data) /\ l >= 5
  BY DEF ReplyFromBytes, ReplyMinLen
<1>2. PICK m \in Nat, n \in Nat :
        /\ ReplySizes(data) = <<m, n>>
        /\ U16(m) = <<data[1], data[2]>> /\ U16(n) = <<data[3], data[4]>>
  <2>1. Len(data) >= 4
    BY <1>1
  <2> QED BY <2>1, ReplySizesAre
<1>3. PICK sizes : sizes = <<m, n>>
  OBVIOUS
<1>4. PICK a : a = SubSeq(data, 5 + 1, 5 + m)
  OBVIOUS
<1>5. PICK b : b = SubSeq(data, (5 + m) + 1, (5 + m) + n)
  OBVIOUS
<1>6. Total(sizes) = m + n /\ StringsAt(data, 5, sizes) = <<a, b>>
  <2>1. TwoAt(data, sizes, m, n)
    BY <1>3, TwoStrings
  <2> QED BY <1>3, <1>4, <1>5, <2>1, Zenon DEF TwoAt
<1>7. 5 + (m + n) <= l
  <2>1. Readable(data, 5, sizes)
    BY <1>2, <1>3 DEF ReplyFromBytes, ReplyMinLen
  <2> QED BY <1>1, <1>6, <2>1 DEF Readable
<1>8. a \in Seq(Byte) /\ Len(a) = m /\ \A i \in 1 .. m : a[i] = data[5 + i]
  <2>1. 5 + m <= Len(data)
    BY <1>1, <1>7
  <2> QED BY <1>4, <2>1, Slice
<1>9. b \in Seq(Byte) /\ Len(b) = n /\ \A i \in 1 .. n : b[i] = data[(5 + m) + i]
  <2>1. (5 + m) + n <= Len(data) /\ 5 + m \in Nat
    BY <1>1, <1>7
  <2> QED BY <1>5, <2>1, Slice
<1>10. r = [status |-> data[5], msg |-> a, data |-> b]
  BY <1>2, <1>3, <1>6 DEF ReplyFromBytes, ReplyMinLen
<1>11. data[5] \in Byte
  <2>1. 5 \in 1 .. Len(data)
    BY <1>1
  <2> QED BY <2>1, ElementOfSeq
<1>12. r \in Reply /\ r.status = data[5] /\ r.msg = a /\ r.data = b
  BY <1>8, <1>9, <1>10, <1>11 DEF Reply
<1>13. PICK q \in Seq(Byte) : q = ReplyBytes(r) /\ ReplyLayout(q, r, m, n)
  <2>1. m = Len(r.msg) /\ n = Len(r.data)
    BY <1>8, <1>9, <1>12
  <2> QED BY <1>12, <2>1, ReplyLaidOut
<1>14. PICK k \in Nat : k = Len(q) /\ k = (5 + m) + n /\ k <= l
  <2>1. Len(q) = (5 + m) + n
    BY <1>13 DEF ReplyLayout
  <2> QED BY <1>7, <2>1
<1>15. /\ q[1] = data[1] /\ q[2] = data[2] /\ q[3] = data[3] /\ q[4] = data[4]
       /\ q[5] = data[5]
  <2>1. /\ q[1] = U16(m)[1] /\ q[2] = U16(m)[2] /\ q[3] = U16(n)[1] /\ q[4] = U16(n)[2]
        /\ q[5] = r.status
    BY <1>13 DEF ReplyLayout
  <2>2. /\ U16(m)[1] = data[1] /\ U16(m)[2] = data[2]
        /\ U16(n)[1] = data[3] /\ U16(n)[2] = data[4]
    BY <1>2
  <2> QED BY <1>12, <2>1, <2>2, Zenon
<1>16. \A i \in 1 .. m : q[5 + i] = data[5 + i]
  <2>1. \A i \in 1 .. m : q[5 + i] = a[i]
    BY <1>12, <1>13, Zenon DEF ReplyLayout
  <2> QED BY <1>8, <2>1, Zenon
<1>17. \A i \in 1 .. n : q[(5 + m) + i] = data[(5 + m) + i]
  <2>1. \A i \in 1 .. n : q[(5 + m) + i] = b[i]
    BY <1>12, <1>13, Zenon DEF ReplyLayout
  <2> QED BY <1>9, <2>1, Zenon
<1>18. ASSUME NEW i \in 1 .. k PROVE q[i] = data[i]
  <2>1. CASE i \in 1 .. 5
    BY <1>15, <2>1
  <2>2. CASE i \in 6 .. 5 + m
    <3>1. i - 5 \in 1 .. m /\ 5 + (i - 5) = i
      BY <2>2
    <3> QED BY <1>16, <3>1
  <2>3. CASE i > 5 + m
    <3>1. i - (5 + m) \in 1 .. n /\ (5 + m) + (i - (5 + m)) = i
      BY <1>14, <2>3
    <3> QED BY <1>17, <3>1
  <2> QED BY <2>1, <2>2, <2>3
<1> QED BY <1>1, <1>12, <1>13, <1>14, <1>18, PrefixFrom

\* A reply whose fields fit the widths of their lengths is read from its bytes,
\* also when more follow; from fewer nothing is.
LEMMA ReplyDecoded ==
  ASSUME NEW r \in Reply, r.status \in Statuses, IsText(<<r.msg, r.data>>), FitsReply(r),
         NEW data \in Seq(Byte), Agree(data, ReplyBytes(r))
  PROVE  /\ Len(data) >= Len(ReplyBytes(r)) => ReplyFromBytes(data) = r
         /\ Len(data) < Len(ReplyBytes(r)) => ReplyFromBytes(data) = Error
<1>1. PICK msg \in Seq(Byte), more \in Seq(Byte) : msg = r.msg /\ more = r.data
  BY DEF Reply
<1>2. PICK m \in Nat, n \in Nat : m = Len(msg) /\ n = Len(more)
  OBVIOUS
<1>3. PICK q \in Seq(Byte) : q = ReplyBytes(r) /\ ReplyLayout(q, r, m, n)
  BY <1>1, <1>2, ReplyLaidOut
<1>4. PICK k \in Nat : k = Len(q) /\ k = (5 + m) + n
  BY <1>3 DEF ReplyLayout
<1>5. PICK l \in Nat : l = Len(data)
  OBVIOUS
<1>6. \A i \in 1 .. l : i <= k => data[i] = q[i]
  BY <1>3, <1>4, <1>5, Zenon DEF Agree
<1>7. CASE l < 5
  <2>1. ReplyFromBytes(data) = Error
    BY <1>5, <1>7 DEF ReplyFromBytes, ReplyMinLen
  <2>2. l < k
    BY <1>4, <1>7
  <2> QED BY <1>3, <1>4, <1>5, <2>1, <2>2
<1>8. CASE l >= 5
  <2>1. ReplySizes(data) = <<m, n>>
    <3>1. PICK x \in Nat, y \in Nat :
            /\ ReplySizes(data) = <<x, y>>
            /\ x = data[1] * ByteMod + data[2] /\ y = data[3] * ByteMod + data[4]
      <4>1. Len(data) >= 4
        BY <1>5, <1>8
      <4> QED BY <4>1, ReplySizesAre
    <3>2. \A i \in 1 .. 4 : data[i] = q[i]
      <4>1. \A i \in 1 .. 4 : i \in 1 .. l /\ i <= k
        BY <1>4, <1>8
      <4> QED BY <1>6, <4>1, Zenon
    <3>3. data[1] = q[1] /\ data[2] = q[2] /\ data[3] = q[3] /\ data[4] = q[4]
      BY <3>2
    <3>4. /\ data[1] = U16(m)[1] /\ data[2] = U16(m)[2]
          /\ data[3] = U16(n)[1] /\ data[4] = U16(n)[2]
      BY <1>3, <3>3, Zenon DEF ReplyLayout
    <3>5. m \in 0 .. WordMod - 1 /\ n \in 0 .. WordMod - 1
      <4>1. m < WordMod /\ n < WordMod
        BY <1>1, <1>2 DEF FitsReply
      <4> QED BY <4>1, ByteModType
    <3>6. U16(m)[1] * ByteMod + U16(m)[2] = m /\ U16(n)[1] * ByteMod + U16(n)[2] = n
      BY <3>5, U16Value
    <3>7. x = m /\ y = n
      BY <3>1, <3>4, <3>6, Zenon
    <3> QED BY <3>1, <3>7, Zenon
  <2>2. PICK sizes : sizes = <<m, n>>
    OBVIOUS
  <2>3. PICK a : a = SubSeq(data, 5 + 1, 5 + m)
    OBVIOUS
  <2>4. PICK b : b = SubSeq(data, (5 + m) + 1, (5 + m) + n)
    OBVIOUS
  <2>5. Total(sizes) = m + n /\ StringsAt(data, 5, sizes) = <<a, b>>
    <3>1. TwoAt(data, sizes, m, n)
      BY <2>2, TwoStrings
    <3> QED BY <2>2, <2>3, <2>4, <3>1, Zenon DEF TwoAt
  <2>6. CASE l < k
    <3>1. ~(5 + (m + n) <= l)
      BY <1>4, <2>6
    <3>2. ~Readable(data, 5, sizes)
      BY <1>5, <2>5, <3>1, Zenon DEF Readable
    <3>3. ReplyFromBytes(data) = Error
      BY <2>1, <2>2, <3>2, Zenon DEF ReplyFromBytes, ReplyMinLen
    <3> QED BY <1>3, <1>4, <1>5, <2>6, <3>3
  <2>7. CASE l >= k
    <3>1. 5 + m <= l /\ (5 + m) + n <= l /\ 5 + (m + n) <= l /\ 5 + m \in Nat
      BY <1>4, <2>7
    <3>2. \A i \in 1 .. k : i \in 1 .. l /\ i <= k
      BY <2>7
    <3>3. \A i \in 1 .. k : data[i] = q[i]
      BY <1>6, <3>2, Zenon
    <3>4. a = msg
      <4>1. a \in Seq(Byte) /\ Len(a) = m /\ \A i \in 1 .. m : a[i] = data[5 + i]
        <5>1. 5 + m <= Len(data)
          BY <1>5, <3>1
        <5> QED BY <2>3, <5>1, Slice
      <4>2. \A i \in 1 .. m : 5 + i \in 1 .. k
        BY <1>4
      <4>3. \A i \in 1 .. m : q[5 + i] = msg[i]
        BY <1>1, <1>3, Zenon DEF ReplyLayout
      <4>4. \A i \in 1 .. m : a[i] = msg[i]
        BY <3>3, <4>1, <4>2, <4>3, Zenon
      <4> QED BY <1>2, <4>1, <4>4, SeqEqual
    <3>5. b = more
      <4>1. b \in Seq(Byte) /\ Len(b) = n /\ \A i \in 1 .. n : b[i] = data[(5 + m) + i]
        BY <1>5, <2>4, <3>1, Slice
      <4>2. \A i \in 1 .. n : (5 + m) + i \in 1 .. k
        BY <1>4
      <4>3. \A i \in 1 .. n : q[(5 + m) + i] = more[i]
        BY <1>1, <1>3, Zenon DEF ReplyLayout
      <4>4. \A i \in 1 .. n : b[i] = more[i]
        BY <3>3, <4>1, <4>2, <4>3, Zenon
      <4> QED BY <1>2, <4>1, <4>4, SeqEqual
    <3>6. data[5] = r.status
      <4>1. 5 \in 1 .. k
        BY <1>4
      <4> QED BY <1>3, <3>3, <4>1, Zenon DEF ReplyLayout
    <3>7. StringsAt(data, 5, sizes) = <<r.msg, r.data>>
      BY <1>1, <2>5, <3>4, <3>5, Zenon
    <3>8. Readable(data, 5, sizes)
      BY <1>5, <2>5, <3>1, <3>7, Zenon DEF Readable
    <3>9. ReplyFromBytes(data) =
            [status |-> data[5], msg |-> <<r.msg, r.data>>[1], data |-> <<r.msg, r.data>>[2]]
      BY <1>5, <1>8, <2>1, <2>2, <3>6, <3>7, <3>8, Zenon DEF ReplyFromBytes, ReplyMinLen
    <3>10. r = [status |-> r.status, msg |-> r.msg, data |-> r.data]
      BY DEF Reply
    <3>11. ReplyFromBytes(data) = r
      BY <3>6, <3>9, <3>10
    <3> QED BY <1>3, <1>4, <1>5, <2>7, <3>11
  <2> QED BY <1>4, <1>5, <2>6, <2>7
<1> QED BY <1>5, <1>7, <1>8

\* The length check of from_packet refuses no reply that from_bytes accepts.
LEMMA ReplyChecked ==
  ASSUME NEW data \in Seq(Byte)
  PROVE  ReplyFromPacket(data) = ReplyFromBytes(data)
<1>1. PICK l \in Nat : l = Len(data)
  OBVIOUS
<1>2. CASE l < 4
  <2>1. ReplyFromPacket(data) = Error
    BY <1>1, <1>2 DEF ReplyFromPacket
  <2>2. ReplyFromBytes(data) = Error
    BY <1>1, <1>2 DEF ReplyFromBytes, ReplyMinLen
  <2> QED BY <2>1, <2>2
<1>3. CASE ~(l < 4)
  <2>1. PICK m \in Nat, n \in Nat : ReplySizes(data) = <<m, n>>
    <3>1. Len(data) >= 4
      BY <1>1, <1>3
    <3> QED BY <3>1, ReplySizesAre
  <2>2. PICK sizes : sizes = <<m, n>>
    OBVIOUS
  <2>3. Total(sizes) = m + n
    BY <2>2, TwoStrings, Zenon DEF TwoAt
  <2>4. CASE l < 5 + Total(sizes)
    <3>1. ~(5 + Total(sizes) <= l)
      BY <2>3, <2>4
    <3>2. ReplyFromBytes(data) = Error
      BY <1>1, <2>1, <2>2, <3>1, Zenon DEF ReplyFromBytes, ReplyMinLen, Readable
    <3>3. ReplyFromPacket(data) = Error
      BY <1>1, <2>1, <2>2, <2>4, Zenon DEF ReplyFromPacket, ReplyMinLen
    <3> QED BY <3>2, <3>3
  <2>5. CASE ~(l < 5 + Total(sizes))
    BY <1>1, <1>3, <2>1, <2>2, <2>5, Zenon DEF ReplyFromPacket, ReplyMinLen
  <2> QED BY <2>4, <2>5
<1> QED BY <1>2, <1>3

-----------------------------------------------------------------------------
(***************************************************************************)
(* Packets on the wire.                                                    *)
(***************************************************************************)
\* What a packet of this library has in its header, whatever was done to it.
Ours(h) ==
  /\ h.major = Major /\ h.minor \in Minors /\ h.type \in Types
  /\ h.flags \in 0 .. 3

\* A packet whose flag is set, and the one that is written for it.
LEMMA WireIs ==
  ASSUME HashIsDigest, NEW p, Framed(p), Ours(p.header), p.header.flags \in {1, 3}
  PROVE  \E w : /\ w = ToConverted(p, FALSE)
                /\ Framed(w) /\ Ours(w.header)
                /\ w.header.flags = p.header.flags - 1
                /\ w.header.length = p.header.length
                /\ AsConverted(p, FALSE) = w /\ ToConverted(w, TRUE) = p
<1>1. PICK h \in Header : h = p.header
  BY DEF Framed, Packet
<1>2. IsClear(h) /\ h.flags \in {1, 3}
  BY <1>1 DEF IsClear
<1>3. ~IsClear(h) = FALSE /\ IsClear(h) = TRUE
  BY <1>2
<1>4. PICK w : /\ Framed(w) /\ w.header = Flip(h)
               /\ ToConverted(p, ~IsClear(h)) = w
               /\ AsConverted(p, ~IsClear(h)) = w
               /\ ToConverted(w, IsClear(h)) = p
  BY <1>1, ConvertedPacket, Zenon
<1>5. ToConverted(p, FALSE) = w /\ AsConverted(p, FALSE) = w /\ ToConverted(w, TRUE) = p
  BY <1>3, <1>4, Zenon
<1>6. Flip(h) = [ major |-> h.major, minor |-> h.minor, type |-> h.type, seq |-> h.seq,
                  flags |-> h.flags - 1, id |-> h.id, length |-> h.length ]
  <2>1. Flip(h) = [h EXCEPT !.flags = h.flags - 1]
    BY <1>2, Zenon DEF Flip
  <2> QED BY <2>1, WithFlags
<1>7. /\ w.header.major = h.major /\ w.header.minor = h.minor /\ w.header.type = h.type
      /\ w.header.flags = h.flags - 1 /\ w.header.length = h.length
  BY <1>4, <1>6
<1>8. Ours(w.header)
  <2>1. h.flags - 1 \in 0 .. 3
    BY <1>2
  <2> QED BY <1>1, <1>7, <2>1, Zenon DEF Ours
<1> QED BY <1>1, <1>4, <1>5, <1>7, <1>8, Zenon

\* The bytes of a packet, and what is read from them: the packet, unless its
\* length does not fit its field or a flag is unknown.
LEMMA PacketRead ==
  ASSUME NEW w, Framed(w), Ours(w.header), NEW data, data = PacketBytes(w),
         NEW header, header = HeaderFromBytes(SubSeq(data, 1, HeaderLen))
  PROVE  /\ data \in Seq(Byte)
         /\ w.header.flags \notin KnownFlags => header = Error
         /\ w.header.flags \in KnownFlags =>
              \E x : /\ header # Error /\ Framed(x)
                     /\ NewPacket(header, SubSeq(data, HeaderLen + 1, HeaderLen + header.length)) = x
                     /\ w.header.length \in Quad => x = w
<1>1. PICK h \in Header, body \in Seq(Byte) :
        h = w.header /\ body = w.body /\ w = [header |-> h, body |-> body]
  BY DEF Framed, Packet
<1>2. PICK n \in Nat : n = h.length /\ n = Len(body)
  BY <1>1 DEF Framed, Header
<1>3. Version(h) \in Byte /\ Ours(h)
  BY <1>1 DEF Framed
<1>4. h.type \in Byte /\ h.flags \in Byte
  BY <1>3, SmallBytes DEF Ours, Types
<1>5. PICK q \in Seq(Byte) : q = HeaderBytes(h) /\ 12 = Len(q)
  BY <1>3, <1>4, HeaderBytesAre
<1>6. data \in Seq(Byte) /\ Joined(data, q, body, 12, n)
  <2>1. 12 \in Nat
    OBVIOUS
  <2>2. q \o body \in Seq(Byte) /\ Joined(q \o body, q, body, 12, n)
    BY <1>2, <1>5, <2>1, Join
  <2>3. data = q \o body
    BY <1>1, <1>5, Zenon DEF PacketBytes
  <2> QED BY <2>2, <2>3, Zenon
<1>7. Len(data) = 12 + n
  BY <1>6 DEF Joined
<1>8. PICK first : first = SubSeq(data, 0 + 1, 0 + 12)
  OBVIOUS
<1>9. first \in Seq(Byte) /\ Len(first) = 12 /\ \A i \in 1 .. 12 : first[i] = data[0 + i]
  <2>1. 0 + 12 <= Len(data)
    BY <1>7
  <2> QED BY <1>6, <1>8, <2>1, Slice, SMTT(30)
<1>10. \A i \in 1 .. 12 : first[i] = HeaderBytes(h)[i]
  <2>1. \A i \in 1 .. 12 : data[i] = q[i]
    BY <1>6, Zenon DEF Joined
  <2>2. \A i \in 1 .. 12 : first[i] = data[i]
    BY <1>9, SMTT(30)
  <2> QED BY <1>5, <2>1, <2>2, Zenon
<1>11. header = HeaderFromBytes(first)
  <2>1. 0 + 1 = 1 /\ 0 + 12 = 12
    OBVIOUS
  <2> QED BY <1>8, <2>1, Zenon DEF HeaderLen
<1>12. /\ h.flags \notin KnownFlags => header = Error
       /\ h.flags \in KnownFlags =>
            \E v \in Quad : /\ header = [h EXCEPT !.length = v]
                            /\ v <= h.length /\ (h.length \in Quad => v = h.length)
  <2>1. Len(first) \in Nat /\ Len(first) >= 12
    BY <1>9
  <2>2. /\ h.major = Major /\ h.minor \in Minors /\ h.type \in Types /\ h.flags \in 0 .. 3
    BY <1>3 DEF Ours
  <2> QED BY <1>10, <1>11, <2>1, <2>2, HeaderRead, Zenon
<1>13. ASSUME h.flags \in KnownFlags
       PROVE  \E x : /\ header # Error /\ Framed(x)
                     /\ NewPacket(header, SubSeq(data, HeaderLen + 1, HeaderLen + header.length)) = x
                     /\ h.length \in Quad => x = w
  <2>1. PICK v \in Quad : /\ header = [h EXCEPT !.length = v]
                         /\ v <= h.length /\ (h.length \in Quad => v = h.length)
    BY <1>12, <1>13
  <2>2. v \in Nat /\ v <= n
    BY <1>2, <2>1 DEF Quad
  <2>3. header = [ major |-> h.major, minor |-> h.minor, type |-> h.type, seq |-> h.seq,
                   flags |-> h.flags, id |-> h.id, length |-> v ]
    BY <2>1, WithLength
  <2>4. header \in Header /\ header.length = v /\ Version(header) = Version(h)
    BY <2>2, <2>3 DEF Header, Version
  <2>5. header # Error
    BY <2>4, ErrorAssumption
  <2>6. PICK b : b = SubSeq(data, 12 + 1, 12 + v)
    OBVIOUS
  <2>7. b \in Seq(Byte) /\ Len(b) = v /\ \A i \in 1 .. v : b[i] = data[12 + i]
    <3>1. 12 + v <= Len(data)
      BY <1>7, <2>2
    <3> QED BY <1>6, <2>2, <2>6, <3>1, Slice
  <2>8. PICK x : x = [header |-> header, body |-> b]
    OBVIOUS
  <2>9. x \in Packet /\ x.header = header /\ x.body = b
    BY <2>4, <2>7, <2>8 DEF Packet
  <2>10. Framed(x)
    BY <1>3, <2>4, <2>7, <2>9 DEF Framed
  <2>11. NewPacket(header, b) = x
    <3>1. ~(Len(b) < header.length)
      BY <2>2, <2>4, <2>7
    <3> QED BY <2>8, <3>1, Zenon DEF NewPacket
  <2>12. NewPacket(header, SubSeq(data, HeaderLen + 1, HeaderLen + header.length)) = x
    BY <2>4, <2>6, <2>11, Zenon DEF HeaderLen
  <2>13. ASSUME h.length \in Quad PROVE x = w
    <3>1. v = n
      BY <1>2, <2>1, <2>13
    <3>2. \A i \in 1 .. n : b[i] = body[i]
      BY <1>6, <2>7, <3>1, Zenon DEF Joined
    <3>3. b = body
      BY <1>2, <2>7, <3>1, <3>2, SeqEqual
    <3>4. header = h
      BY <1>2, <2>3, <3>1, HeaderIs
    <3> QED BY <1>1, <2>8, <3>3, <3>4
  <2> QED BY <2>5, <2>10, <2>12, <2>13, Zenon
<1> QED BY <1>1, <1>6, <1>12, <1>13, Zenon

-----------------------------------------------------------------------------
(***************************************************************************)
(* A message on its way.                                                   *)
(***************************************************************************)
Encoded(m) == IF m \in Requests THEN RequestBytes(m) ELSE ReplyBytes(m)

Decoded(m, body) == IF m \in Requests THEN RequestFromPacket(body) ELSE ReplyFromBytes(body)

FitsFields(m) == IF m \in Requests THEN FitsRequest(m) ELSE FitsReply(m)

\* What is left of the encoding in the body that is sent.
AsSent(body, full, d) ==
  /\ Len(body) <= Len(full) + 1
  /\ d \in {"none", "flags"} => body = full
  /\ d = "short" => Len(body) < Len(full) /\ Agree(body, full)
  /\ d = "long" => Len(full) <= Len(body) /\ Agree(body, full)

OnItsWay(p, full, d) ==
  /\ Framed(p) /\ Ours(p.header)
  /\ p.header.flags = IF d = "flags" THEN 3 ELSE 1
  /\ AsSent(p.body, full, d)

Wire(p, k) == PacketBytes(IF k THEN ToConverted(p, FALSE) ELSE p)

\* What every message is: its parts, and that it is text.
LEMMA RequestIs ==
  ASSUME NEW r \in Requests
  PROVE  /\ r \in Request /\ Len(r.fixed) = 5 /\ IsText(r.strings)
         /\ \A i \in 1 .. 5 : r.fixed[i] \in Fixed[i]
         /\ \E m \in Nat : Len(r.strings) = 3 + m
<1>1. /\ r \in [fixed : Seq(Byte), strings : Seq(Seq(Byte \ NotText))]
      /\ Len(r.fixed) = 5 /\ \A i \in 1 .. 5 : r.fixed[i] \in Fixed[i]
      /\ Len(r.strings) >= 3
  BY MessageAssumption
<1>2. PICK strings \in Seq(Seq(Byte \ NotText)) : strings = r.strings
  BY <1>1
<1>3. \A k \in 1 .. Len(strings) : strings[k] \in Seq(Byte \ NotText)
  BY ElementOfSeq
<1>4. \A q \in Seq(Byte \ NotText) : q \in Seq(Byte) /\ \A j \in DOMAIN q : q[j] \notin NotText
  OBVIOUS
<1>5. strings \in Seq(Seq(Byte))
  BY <1>3, <1>4
<1>6. IsText(strings)
  <2>1. DOMAIN strings = 1 .. Len(strings)
    OBVIOUS
  <2> QED BY <1>3, <1>4, <2>1 DEF IsText
<1>7. r \in Request
  BY <1>1, <1>2, <1>5 DEF Request
<1>8. \E m \in Nat : Len(r.strings) = 3 + m
  <2>1. PICK n \in Nat : n = Len(strings) /\ n >= 3
    BY <1>1, <1>2
  <2>2. n - 3 \in Nat /\ n = 3 + (n - 3)
    BY <2>1
  <2> QED BY <1>2, <2>1, <2>2
<1> QED BY <1>1, <1>2, <1>6, <1>7, <1>8

\* The same of a reply.
LEMMA ReplyIs ==
  ASSUME NEW r \in Replies
  PROVE  r \in Reply /\ r.status \in Statuses /\ IsText(<<r.msg, r.data>>)
<1>1. r \in [ status : Statuses \cap Byte,
              msg : Seq(Byte \ NotText), data : Seq(Byte \ NotText) ]
  BY MessageAssumption
<1>2. PICK a \in Seq(Byte \ NotText), b \in Seq(Byte \ NotText) : a = r.msg /\ b = r.data
  BY <1>1
<1>3. /\ a \in Seq(Byte) /\ \A j \in DOMAIN a : a[j] \notin NotText
      /\ b \in Seq(Byte) /\ \A j \in DOMAIN b : b[j] \notin NotText
  OBVIOUS
<1>4. IsText(<<a, b>>)
  <2>0. PICK s : s = <<a, b>>
    OBVIOUS
  <2>1. DOMAIN s = 1 .. 2 /\ s[1] = a /\ s[2] = b
    BY <2>0
  <2>2. \A k \in 1 .. 2 : k = 1 \/ k = 2
    OBVIOUS
  <2> QED BY <1>3, <2>0, <2>1, <2>2, Zenon DEF IsText
<1> QED BY <1>1, <1>2, <1>3, <1>4 DEF Reply

\* What is made of a message are bytes ..
LEMMA EncodedType ==
  ASSUME NEW m \in Requests \cup Replies
  PROVE  Encoded(m) \in Seq(Byte)
<1>1. CASE m \in Requests
  <2>1. m \in Request /\ Len(m.fixed) = 5 /\ \E n \in Nat : Len(m.strings) = 3 + n
    BY <1>1, RequestIs
  <2>2. PICK n \in Nat : Len(m.strings) = 3 + n
    BY <2>1
  <2>3. RequestBytes(m) \in Seq(Byte)
    BY <2>1, <2>2, RequestLaidOut
  <2> QED BY <1>1, <2>3 DEF Encoded
<1>2. CASE m \notin Requests
  <2>1. m \in Reply
    BY <1>2, ReplyIs
  <2>2. Len(m.msg) \in Nat /\ Len(m.data) \in Nat
    BY <2>1 DEF Reply
  <2>3. ReplyBytes(m) \in Seq(Byte)
    BY <2>1, <2>2, ReplyLaidOut
  <2> QED BY <1>2, <2>3 DEF Encoded
<1> QED BY <1>1, <1>2

\* .. and no more than a header's length can say, also with one more.
LEMMA EncodedFits ==
  ASSUME NEW m \in Requests \cup Replies
  PROVE  \A n \in Nat : n <= Len(Encoded(m)) + 1 => n \in Quad
<1>1. Len(Encoded(m)) + 1 \in Quad
  BY MessageAssumption DEF Encoded
<1>2. PICK l \in Nat : l = Len(Encoded(m))
  BY EncodedType
<1>3. PICK s \in Nat : Quad = 0 .. s - 1
  <2>1. WordMod * WordMod \in Nat
    BY ByteModType, Product
  <2> QED BY <2>1 DEF Quad
<1> QED BY <1>1, <1>2, <1>3

\* The packet that is made of a body.
LEMMA PackedOnItsWay ==
  ASSUME NEW full \in Seq(Byte), NEW i \in Headers, NEW p,
         p = NewPacket([ major |-> Major, minor |-> 0, type |-> 3, seq |-> i.seq,
                         flags |-> 1, id |-> i.id, length |-> Len(full) ], full)
  PROVE  OnItsWay(p, full, "none")
<1>1. PICK n \in Nat : n = Len(full)
  OBVIOUS
<1>2. PICK h : h = [ major |-> Major, minor |-> 0, type |-> 3, seq |-> i.seq,
                     flags |-> 1, id |-> i.id, length |-> n ]
  OBVIOUS
<1>3. i.id \in Quad /\ i.seq \in Byte
  BY EncodingAssumption
<1>4. Major \in 0 .. Nibble - 1 /\ 0 \in 0 .. Nibble - 1 /\ Major \in Nat
  BY EncodingAssumption, ByteModType
<1>5. h \in Header
  BY <1>1, <1>2, <1>3, <1>4 DEF Header
<1>6. Version(h) \in Byte
  <2>1. Version(h) = Major * Nibble + 0
    BY <1>2 DEF Version
  <2> QED BY <1>4, <2>1, VersionIs
<1>7. Ours(h) /\ h.flags = 1 /\ h.length = n
  BY <1>2 DEF Ours, Minors, Types
<1>8. p = [header |-> h, body |-> full]
  <2>1. ~(n < n)
    OBVIOUS
  <2> QED BY <1>1, <1>2, <1>7, <2>1 DEF NewPacket
<1>9. p \in Packet /\ p.header = h /\ p.body = full
  BY <1>5, <1>8 DEF Packet
<1>10. Framed(p)
  BY <1>1, <1>6, <1>7, <1>9 DEF Framed
<1>11. AsSent(full, full, "none")
  BY <1>1 DEF AsSent
<1> QED BY <1>7, <1>9, <1>10, <1>11 DEF OnItsWay

\* The parts of a packet.
LEMMA PacketOf ==
  ASSUME NEW h \in Header, NEW b \in Seq(Byte), NEW x, x = [header |-> h, body |-> b]
  PROVE  x \in Packet /\ x.header = h /\ x.body = b
BY DEF Packet

\* What Damage does to it.
LEMMA CutOnItsWay ==
  ASSUME NEW full \in Seq(Byte), NEW p, OnItsWay(p, full, "none"),
         NEW n \in 0 .. Len(p.body) - 1, NEW x,
         x = [header |-> [p.header EXCEPT !.length = n], body |-> SubSeq(p.body, 1, n)]
  PROVE  OnItsWay(x, full, "short")
<1>1. PICK h \in Header, body \in Seq(Byte) : h = p.header /\ body = p.body
  BY DEF OnItsWay, Framed, Packet
<1>2. body = full /\ Ours(h) /\ Version(h) \in Byte /\ h.flags = 1
  BY <1>1 DEF OnItsWay, AsSent, Framed
<1>3. PICK l \in Nat : l = Len(full) /\ n \in Nat /\ n < l
  BY <1>1, <1>2
<1>4. PICK b : b = SubSeq(full, 0 + 1, 0 + n)
  OBVIOUS
<1>5. b \in Seq(Byte) /\ Len(b) = n /\ \A i \in 1 .. n : b[i] = full[0 + i]
  <2>1. 0 + n <= Len(full)
    BY <1>3
  <2> QED BY <1>3, <1>4, <2>1, Slice
<1>6. Agree(b, full)
  BY <1>5 DEF Agree
<1>7. PICK w \in Header :
        w = [ major |-> h.major, minor |-> h.minor, type |-> h.type, seq |-> h.seq,
              flags |-> h.flags, id |-> h.id, length |-> n ]
  BY <1>3 DEF Header
<1>8. x = [header |-> w, body |-> b]
  <2>1. [h EXCEPT !.length = n] = w
    BY <1>7, WithLength
  <2>2. 0 + 1 = 1 /\ 0 + n = n
    BY <1>3
  <2> QED BY <1>1, <1>2, <1>4, <2>1, <2>2, Zenon
<1>9. w.length = n /\ w.flags = 1 /\ Version(w) \in Byte /\ Ours(w)
  BY <1>2, <1>3, <1>7 DEF Header, Version, Ours
<1>10. x \in Packet /\ x.header = w /\ x.body = b
  <2>1. b \in Seq(Byte)
    BY <1>5
  <2> QED BY <1>8, <2>1, PacketOf, ZenonT(30)
<1>11. AsSent(b, full, "short")
  BY <1>3, <1>5, <1>6 DEF AsSent
<1>12. Framed(x)
  BY <1>5, <1>9, <1>10 DEF Framed
<1> QED BY <1>9, <1>10, <1>11, <1>12 DEF OnItsWay

\* A byte more, and a length that says so.
LEMMA LengthenedOnItsWay ==
  ASSUME NEW full \in Seq(Byte), NEW p, OnItsWay(p, full, "none"), NEW x,
         x = [header |-> [p.header EXCEPT !.length = @ + 1], body |-> Append(p.body, 0)]
  PROVE  OnItsWay(x, full, "long")
<1>1. PICK h \in Header, body \in Seq(Byte) : h = p.header /\ body = p.body
  BY DEF OnItsWay, Framed, Packet
<1>2. /\ body = full /\ Ours(h) /\ Version(h) \in Byte /\ h.flags = 1
      /\ h.length = Len(full)
  BY <1>1 DEF OnItsWay, AsSent, Framed
<1>3. PICK l \in Nat : l = Len(full) /\ h.length = l
  BY <1>2
<1>4. 0 \in Byte
  BY SmallBytes
<1>0. PICK b : b = Append(full, 0)
  OBVIOUS
<1>5. b \in Seq(Byte) /\ Len(b) = l + 1 /\ \A i \in 1 .. l : b[i] = full[i]
  <2>1. /\ Append(full, 0) \in Seq(Byte) /\ Len(Append(full, 0)) = Len(full) + 1
        /\ \A i \in 1 .. Len(full) : Append(full, 0)[i] = full[i]
    BY <1>4, AppendProperties
  <2> QED BY <1>0, <1>3, <2>1, Zenon
<1>6. Agree(b, full)
  <2>1. \A i \in 1 .. l + 1 : i <= l => i \in 1 .. l
    OBVIOUS
  <2> QED BY <1>3, <1>5, <2>1, Zenon DEF Agree
<1>7. PICK w \in Header :
        w = [ major |-> h.major, minor |-> h.minor, type |-> h.type, seq |-> h.seq,
              flags |-> h.flags, id |-> h.id, length |-> l + 1 ]
  <2>1. l + 1 \in Nat
    OBVIOUS
  <2> QED BY <2>1 DEF Header
<1>8. x = [header |-> w, body |-> b]
  <2>1. [h EXCEPT !.length = l + 1] = w
    BY <1>7, WithLength
  <2>2. [h EXCEPT !.length = @ + 1] = [h EXCEPT !.length = l + 1]
    BY <1>3, Zenon
  <2> QED BY <1>0, <1>1, <1>2, <2>1, <2>2, Zenon
<1>9. w.length = l + 1 /\ w.flags = 1 /\ Version(w) \in Byte /\ Ours(w)
  BY <1>2, <1>7 DEF Header, Version, Ours
<1>10. x \in Packet /\ x.header = w /\ x.body = b
  <2>1. b \in Seq(Byte)
    BY <1>5
  <2> QED BY <1>8, <2>1, PacketOf, ZenonT(30)
<1>11. AsSent(b, full, "long")
  BY <1>3, <1>5, <1>6 DEF AsSent
<1>12. Framed(x)
  BY <1>5, <1>9, <1>10 DEF Framed
<1> QED BY <1>9, <1>10, <1>11, <1>12 DEF OnItsWay

\* A flag this library does not know.
LEMMA FlaggedOnItsWay ==
  ASSUME NEW full \in Seq(Byte), NEW p, OnItsWay(p, full, "none"), NEW x,
         x = [p EXCEPT !.header.flags = @ + 2]
  PROVE  OnItsWay(x, full, "flags")
<1>1. PICK h \in Header, body \in Seq(Byte) :
        h = p.header /\ body = p.body /\ p = [header |-> h, body |-> body]
  BY DEF OnItsWay, Framed, Packet
<1>2. /\ body = full /\ Ours(h) /\ Version(h) \in Byte /\ h.flags = 1
      /\ h.length = Len(full)
  BY <1>1 DEF OnItsWay, AsSent, Framed
<1>3. PICK w \in Header :
        w = [ major |-> h.major, minor |-> h.minor, type |-> h.type, seq |-> h.seq,
              flags |-> 3, id |-> h.id, length |-> h.length ]
  BY DEF Header
<1>4. [h EXCEPT !.flags = 3] = w
  BY <1>3, WithFlags
<1>5. x = [header |-> w, body |-> full]
  <2>1. x = [header |-> [h EXCEPT !.flags = h.flags + 2], body |-> body]
    BY <1>1
  <2>2. h.flags + 2 = 3
    BY <1>2
  <2> QED BY <1>2, <1>4, <2>1, <2>2, Zenon
<1>6. w.length = h.length /\ w.flags = 3 /\ Version(w) \in Byte /\ Ours(w)
  BY <1>2, <1>3 DEF Header, Version, Ours
<1>7. x \in Packet /\ x.header = w /\ x.body = full
  BY <1>5, PacketOf, ZenonT(30)
<1>8. AsSent(full, full, "flags")
  BY DEF AsSent
<1>9. Framed(x)
  BY <1>2, <1>6, <1>7 DEF Framed
<1> QED BY <1>6, <1>7, <1>8, <1>9 DEF OnItsWay

\* Another byte in the body.
LEMMA CorruptedOnItsWay ==
  ASSUME NEW full \in Seq(Byte), NEW p, OnItsWay(p, full, "none"),
         NEW k \in DOMAIN p.body, NEW b \in Corrupt, NEW x,
         x = [p EXCEPT !.body[k] = b]
  PROVE  OnItsWay(x, full, "byte")
<1>1. PICK h \in Header, body \in Seq(Byte) :
        h = p.header /\ body = p.body /\ p = [header |-> h, body |-> body]
  BY DEF OnItsWay, Framed, Packet
<1>2. /\ body = full /\ Ours(h) /\ Version(h) \in Byte /\ h.flags = 1
      /\ h.length = Len(full)
  BY <1>1 DEF OnItsWay, AsSent, Framed
<1>3. PICK c : c = [full EXCEPT ![k] = b]
  OBVIOUS
<1>4. c \in Seq(Byte) /\ Len(c) = Len(full)
  <2>1. b \in Byte
    BY EncodingAssumption
  <2>2. k \in 1 .. Len(full)
    BY <1>1, <1>2
  <2>3. [full EXCEPT ![k] = b] \in Seq(Byte) /\ Len([full EXCEPT ![k] = b]) = Len(full)
    BY <2>1, <2>2, ExceptSeq
  <2> QED BY <1>3, <2>3, Zenon
<1>5. x = [header |-> h, body |-> c]
  BY <1>1, <1>2, <1>3
<1>6. x \in Packet /\ x.header = h /\ x.body = c
  BY <1>4, <1>5, PacketOf, ZenonT(30)
<1>7. AsSent(c, full, "byte")
  BY <1>4 DEF AsSent
<1>8. Framed(x)
  BY <1>2, <1>4, <1>6 DEF Framed
<1> QED BY <1>2, <1>6, <1>7, <1>8 DEF OnItsWay

\* What is written for a packet, with or without the key.
LEMMA WrittenIs ==
  ASSUME HashIsDigest, NEW full, NEW d, NEW p, OnItsWay(p, full, d), NEW k \in BOOLEAN
  PROVE  \E w : /\ Wire(p, k) = PacketBytes(w)
                /\ Framed(w) /\ Ours(w.header)
                /\ w.header.flags \in IF d = "flags" THEN {2, 3} ELSE {0, 1}
                /\ w.header.length = p.header.length
                /\ k => ToConverted(w, TRUE) = p
                /\ ~k => w = p
<1>1. Framed(p) /\ Ours(p.header) /\ p.header.flags = IF d = "flags" THEN 3 ELSE 1
  BY DEF OnItsWay
<1>2. CASE k
  <2>1. p.header.flags \in {1, 3}
    BY <1>1
  <2>2. PICK w : /\ w = ToConverted(p, FALSE)
                 /\ Framed(w) /\ Ours(w.header)
                 /\ w.header.flags = p.header.flags - 1
                 /\ w.header.length = p.header.length
                 /\ AsConverted(p, FALSE) = w /\ ToConverted(w, TRUE) = p
    BY <1>1, <2>1, WireIs, Zenon
  <2>3. w.header.flags \in IF d = "flags" THEN {2, 3} ELSE {0, 1}
    <3>1. CASE d = "flags"
      <4>1. w.header.flags = 3 - 1
        BY <1>1, <2>2, <3>1, Zenon
      <4>2. w.header.flags = 2
        BY <4>1
      <4> QED BY <3>1, <4>2
    <3>2. CASE d # "flags"
      <4>1. w.header.flags = 1 - 1
        BY <1>1, <2>2, <3>2, Zenon
      <4>2. w.header.flags = 0
        BY <4>1
      <4> QED BY <3>2, <4>2
    <3> QED BY <3>1, <3>2
  <2>4. Wire(p, k) = PacketBytes(w)
    BY <1>2, <2>2, Zenon DEF Wire
  <2> QED BY <1>2, <2>2, <2>3, <2>4, Zenon
<1>3. CASE ~k
  <2>1. p.header.flags \in IF d = "flags" THEN {2, 3} ELSE {0, 1}
    BY <1>1
  <2>2. Wire(p, k) = PacketBytes(p)
    BY <1>3, Zenon DEF Wire
  <2> QED BY <1>1, <1>3, <2>1, <2>2, Zenon
<1> QED BY <1>2, <1>3

\* What is read of it: nothing if a flag is unknown, and otherwise a packet, the
\* one that was sent if its length fits the field.
Received(data, header, r, p, k, d) ==
  /\ data \in Seq(Byte)
  /\ d = "flags" => header = Error
  /\ d # "flags" =>
       /\ header # Error
       /\ \E x : /\ x = IF k THEN ToConverted(r, TRUE) ELSE r
                 /\ Framed(x)
                 /\ p.header.length \in Quad => x = p

\* That is what the read loop gets.
LEMMA ReadIs ==
  ASSUME HashIsDigest, NEW full, NEW d, NEW p, OnItsWay(p, full, d), NEW k \in BOOLEAN,
         NEW data, data = Wire(p, k),
         NEW header, header = HeaderFromBytes(SubSeq(data, 1, HeaderLen)),
         NEW r, r = NewPacket(header, SubSeq(data, HeaderLen + 1, HeaderLen + header.length))
  PROVE  Received(data, header, r, p, k, d)
<1>1. PICK w : /\ Wire(p, k) = PacketBytes(w)
               /\ Framed(w) /\ Ours(w.header)
               /\ w.header.flags \in IF d = "flags" THEN {2, 3} ELSE {0, 1}
               /\ w.header.length = p.header.length
               /\ k => ToConverted(w, TRUE) = p
               /\ ~k => w = p
  BY WrittenIs, ZenonT(30)
<1>2. /\ d = "flags" => w.header.flags \notin KnownFlags
      /\ d # "flags" => w.header.flags \in KnownFlags
  BY <1>1 DEF KnownFlags
<1>3. /\ data \in Seq(Byte)
      /\ w.header.flags \notin KnownFlags => header = Error
      /\ w.header.flags \in KnownFlags =>
           \E x : /\ header # Error /\ Framed(x) /\ r = x
                  /\ w.header.length \in Quad => x = w
  <2>1. data = PacketBytes(w)
    BY <1>1, Zenon
  <2>2. /\ data \in Seq(Byte)
        /\ w.header.flags \notin KnownFlags => header = Error
        /\ w.header.flags \in KnownFlags =>
             \E x : /\ header # Error /\ Framed(x)
                    /\ NewPacket(header, SubSeq(data, HeaderLen + 1, HeaderLen + header.length)) = x
                    /\ w.header.length \in Quad => x = w
    BY <1>1, <2>1, PacketRead
  <2> QED BY <2>2, Zenon
<1>4. ASSUME d # "flags"
      PROVE  /\ header # Error
             /\ \E x : /\ x = IF k THEN ToConverted(r, TRUE) ELSE r
                       /\ Framed(x)
                       /\ p.header.length \in Quad => x = p
  <2>1. header # Error /\ Framed(r) /\ (w.header.length \in Quad => r = w)
    BY <1>2, <1>3, <1>4, Zenon
  <2>2. CASE ~k
    BY <1>1, <2>1, <2>2, Zenon
  <2>3. CASE k /\ IsClear(r.header)
    <3>1. IsClear(r.header) = TRUE
      BY <2>3
    <3>2. ToConverted(r, TRUE) = r
      BY <3>1, Zenon DEF ToConverted
    <3>3. p.header.length \in Quad => r = p
      BY <1>1, <2>1, <2>3, <3>2, Zenon
    <3> QED BY <2>1, <2>3, <3>2, <3>3, Zenon
  <2>4. CASE k /\ ~IsClear(r.header)
    <3>1. ~IsClear(r.header) = TRUE
      BY <2>4
    <3>2. PICK x : Framed(x) /\ ToConverted(r, ~IsClear(r.header)) = x
      BY <2>1, ConvertedPacket, Zenon
    <3>3. ToConverted(r, TRUE) = x
      BY <3>1, <3>2, Zenon
    <3>4. p.header.length \in Quad => x = p
      BY <1>1, <2>1, <2>4, <3>3, Zenon
    <3> QED BY <2>1, <2>4, <3>2, <3>3, <3>4, Zenon
  <2> QED BY <2>2, <2>3, <2>4
<1> QED BY <1>2, <1>3, <1>4, Zenon DEF Received

-----------------------------------------------------------------------------
(***************************************************************************)
(* The inductive invariant: what each stage leaves of the message.         *)
(***************************************************************************)
StagesOK ==
  /\ message \in Requests \cup Replies
  /\ keyed \in BOOLEAN
  /\ stage \in {"made", "packed", "written", "read"}
  /\ damage \in {"none", "short", "long", "flags", "byte"}

\* Nothing is written before Write.
NothingWritten == stage \in {"made", "packed"} => bytes = <<>>

\* The packet, once made, is on its way.
Packed ==
  /\ stage = "made" => packet = NoPacket /\ damage = "none"
  /\ stage \in {"packed", "written"} => OnItsWay(packet, Encoded(message), damage)

Written ==
  /\ stage = "written" => bytes = Wire(packet, keyed)
  /\ stage \in {"written", "read"} => bytes \in Seq(Byte)

\* What is read is what was sent, unless a flag is unknown.
ReadBackTo ==
  stage = "read" =>
    \/ damage = "flags" /\ packet = NoPacket /\ result = Error
    \/ /\ Framed(packet)
       /\ result = Decoded(message, packet.body)
       /\ AsSent(packet.body, Encoded(message), damage)

EncodingInv == StagesOK /\ NothingWritten /\ Packed /\ Written /\ ReadBackTo


\* The invariant holds at first, and each step keeps it.
LEMMA InitOK == Init => EncodingInv
BY DEF Init, EncodingInv, StagesOK, NothingWritten, Packed, Written, ReadBackTo

\* Pack: the packet is on its way with the whole body.
LEMMA PackOK == EncodingInv /\ Pack => EncodingInv'
<1> SUFFICES ASSUME EncodingInv, Pack PROVE EncodingInv'
  OBVIOUS
<1>1. PICK m \in Requests \cup Replies : m = message
  BY DEF EncodingInv, StagesOK
<1>2. PICK full \in Seq(Byte) : full = Encoded(m)
  BY EncodedType
<1>3. full = IF IsRequest THEN RequestBytes(message) ELSE ReplyBytes(message)
  BY <1>1, <1>2 DEF Encoded, IsRequest
<1>4. PICK i \in Headers :
        packet' = NewPacket([ major |-> Major, minor |-> 0, type |-> 3, seq |-> i.seq,
                              flags |-> 1, id |-> i.id, length |-> Len(full) ], full)
  BY <1>3, Zenon DEF Pack
<1>5. OnItsWay(packet', full, "none")
  BY <1>4, PackedOnItsWay
<1>6. /\ stage = "made" /\ stage' = "packed" /\ damage = "none" /\ bytes = <<>>
      /\ UNCHANGED <<message, keyed, damage, bytes, result>>
  BY DEF Pack, EncodingInv, Packed, NothingWritten
<1>7. OnItsWay(packet', Encoded(message'), damage')
  BY <1>1, <1>2, <1>5, <1>6, Zenon
<1> QED BY <1>6, <1>7 DEF EncodingInv, StagesOK, NothingWritten, Packed, Written, ReadBackTo

\* Damage: it is on its way with what is left of the body.
LEMMA DamageOK == EncodingInv /\ Damage => EncodingInv'
<1> SUFFICES ASSUME EncodingInv, Damage PROVE EncodingInv'
  OBVIOUS
<1>1. /\ stage = "packed" /\ damage = "none"
      /\ UNCHANGED <<stage, message, keyed, bytes, result>>
  BY DEF Damage
<1>2. PICK full \in Seq(Byte) : full = Encoded(message)
  BY EncodedType DEF EncodingInv, StagesOK
<1>3. OnItsWay(packet, full, "none")
  BY <1>1, <1>2, Zenon DEF EncodingInv, Packed
<1>4. damage' \in {"short", "long", "flags", "byte"} /\ OnItsWay(packet', full, damage')
  <2>1. CASE /\ \E n \in 0 .. Len(packet.body) - 1 :
                  packet' = [header |-> [packet.header EXCEPT !.length = n],
                             body |-> SubSeq(packet.body, 1, n)]
             /\ damage' = "short"
    <3>1. OnItsWay(packet', full, "short")
      BY <1>3, <2>1, CutOnItsWay
    <3> QED BY <2>1, <3>1
  <2>2. CASE /\ packet' = [header |-> [packet.header EXCEPT !.length = @ + 1],
                           body |-> Append(packet.body, 0)]
             /\ damage' = "long"
    <3>1. OnItsWay(packet', full, "long")
      BY <1>3, <2>2, LengthenedOnItsWay
    <3> QED BY <2>2, <3>1
  <2>3. CASE /\ packet' = [packet EXCEPT !.header.flags = @ + 2]
             /\ damage' = "flags"
    <3>1. OnItsWay(packet', full, "flags")
      BY <1>3, <2>3, FlaggedOnItsWay
    <3> QED BY <2>3, <3>1
  <2>4. CASE /\ \E k \in DOMAIN packet.body, b \in Corrupt :
                  packet' = [packet EXCEPT !.body[k] = b]
             /\ damage' = "byte"
    <3>1. OnItsWay(packet', full, "byte")
      BY <1>3, <2>4, CorruptedOnItsWay
    <3> QED BY <2>4, <3>1
  <2> QED BY <2>1, <2>2, <2>3, <2>4 DEF Damage
<1>5. OnItsWay(packet', Encoded(message'), damage')
  BY <1>1, <1>2, <1>4, Zenon
<1> QED BY <1>1, <1>4, <1>5 DEF EncodingInv, StagesOK, NothingWritten, Packed, Written, ReadBackTo

\* Write: the bytes are those of the packet, obfuscated if there is a key.
LEMMA WriteOK == ASSUME HashIsDigest PROVE EncodingInv /\ Write => EncodingInv'
<1> SUFFICES ASSUME EncodingInv, Write PROVE EncodingInv'
  OBVIOUS
<1>1. /\ stage = "packed" /\ stage' = "written"
      /\ bytes' = PacketBytes(IF keyed THEN ToConverted(packet, FALSE) ELSE packet)
      /\ UNCHANGED <<message, keyed, packet, damage, result>>
  BY DEF Write
<1>2. bytes' = Wire(packet, keyed)
  BY <1>1 DEF Wire
<1>3. OnItsWay(packet, Encoded(message), damage) /\ keyed \in BOOLEAN
  BY <1>1 DEF EncodingInv, Packed, StagesOK
<1>4. bytes' \in Seq(Byte)
  <2>1. PICK d : d = bytes'
    OBVIOUS
  <2>2. PICK header : header = HeaderFromBytes(SubSeq(d, 1, HeaderLen))
    OBVIOUS
  <2>3. PICK r : r = NewPacket(header, SubSeq(d, HeaderLen + 1, HeaderLen + header.length))
    OBVIOUS
  <2>4. d = Wire(packet, keyed)
    BY <1>2, <2>1
  <2>5. d \in Seq(Byte)
    <3>1. Received(d, header, r, packet, keyed, damage)
      BY <1>3, <2>2, <2>3, <2>4, ReadIs, Zenon
    <3> QED BY <3>1, Zenon DEF Received
  <2> QED BY <2>1, <2>5
<1>5. bytes' = Wire(packet', keyed') /\ OnItsWay(packet', Encoded(message'), damage')
  BY <1>1, <1>2, <1>3, Zenon
<1> QED BY <1>1, <1>4, <1>5 DEF EncodingInv, StagesOK, NothingWritten, Packed, Written, ReadBackTo

\* Read: the packet is the one that was written, if its header decodes.
LEMMA ReadOK == ASSUME HashIsDigest PROVE EncodingInv /\ Read => EncodingInv'
<1> SUFFICES ASSUME EncodingInv, Read PROVE EncodingInv'
  OBVIOUS
<1>1. /\ stage = "written" /\ stage' = "read"
      /\ UNCHANGED <<message, keyed, damage, bytes>>
  BY DEF Read
<1>2. PICK m \in Requests \cup Replies : m = message
  BY DEF EncodingInv, StagesOK
<1>3. PICK full \in Seq(Byte) : full = Encoded(m)
  BY EncodedType
<1>4. PICK header : header = HeaderFromBytes(SubSeq(bytes, 1, HeaderLen))
  OBVIOUS
<1>5. PICK r : r = NewPacket(header, SubSeq(bytes, HeaderLen + 1, HeaderLen + header.length))
  OBVIOUS
<1>6. /\ header = Error => packet' = NoPacket /\ result' = Error
      /\ header # Error =>
           /\ packet' = IF keyed THEN ToConverted(r, TRUE) ELSE r
           /\ result' = IF IsRequest THEN RequestFromPacket(packet'.body)
                                     ELSE ReplyFromBytes(packet'.body)
  BY <1>4, <1>5, Zenon DEF Read
<1>7. OnItsWay(packet, full, damage) /\ keyed \in BOOLEAN /\ bytes = Wire(packet, keyed)
  BY <1>1, <1>2, <1>3, Zenon DEF EncodingInv, Packed, StagesOK, Written
<1>8. /\ bytes \in Seq(Byte)
      /\ damage = "flags" => header = Error
      /\ damage # "flags" =>
           /\ header # Error
           /\ \E x : /\ x = IF keyed THEN ToConverted(r, TRUE) ELSE r
                     /\ Framed(x)
                     /\ packet.header.length \in Quad => x = packet
  <2>1. Received(bytes, header, r, packet, keyed, damage)
    BY <1>4, <1>5, <1>7, ReadIs, Zenon
  <2> QED BY <2>1, Zenon DEF Received
<1>9. ASSUME damage # "flags"
      PROVE  /\ Framed(packet')
             /\ result' = Decoded(m, packet'.body)
             /\ AsSent(packet'.body, full, damage)
  <2>1. Framed(packet') /\ (packet.header.length \in Quad => packet' = packet)
    BY <1>6, <1>8, <1>9, Zenon
  <2>2. result' = Decoded(m, packet'.body)
    BY <1>2, <1>6, <1>8, <1>9, Zenon DEF Decoded, IsRequest
  <2>3. AsSent(packet'.body, full, damage)
    <3>1. /\ AsSent(packet.body, full, damage) /\ Framed(packet)
      BY <1>7 DEF OnItsWay
    <3>2. packet.header.length = Len(packet.body) /\ packet.body \in Seq(Byte)
      BY <3>1 DEF Framed, Packet
    <3>3. packet.header.length \in Nat /\ packet.header.length <= Len(full) + 1
      BY <3>1, <3>2 DEF AsSent
    <3>4. packet.header.length \in Quad
      BY <1>3, <3>3, EncodedFits
    <3> QED BY <2>1, <3>1, <3>4
  <2> QED BY <2>1, <2>2, <2>3
<1>10. \/ damage' = "flags" /\ packet' = NoPacket /\ result' = Error
       \/ /\ Framed(packet')
          /\ result' = Decoded(message', packet'.body)
          /\ AsSent(packet'.body, Encoded(message'), damage')
  BY <1>1, <1>2, <1>3, <1>6, <1>8, <1>9, Zenon
<1> QED BY <1>1, <1>8, <1>10 DEF EncodingInv, StagesOK, NothingWritten, Packed, Written, ReadBackTo

\* Whatever the stage, the invariant holds of the message, its packet and its
\* bytes: what is written is the packet, and what is read is what was sent.
THEOREM MessageOnItsWay ==
  ASSUME HashIsDigest
  PROVE  Spec => []EncodingInv
<1>1. Init => EncodingInv
  BY InitOK
<1>2. EncodingInv /\ [Next]_vars => EncodingInv'
  <2>1. EncodingInv /\ UNCHANGED vars => EncodingInv'
    BY DEF vars, EncodingInv, StagesOK, NothingWritten, Packed, Written, ReadBackTo
  <2> QED BY <2>1, PackOK, DamageOK, WriteOK, ReadOK DEF Next
<1> QED BY <1>1, <1>2, PTL DEF Spec

-----------------------------------------------------------------------------
(***************************************************************************)
(* What follows from the invariant.                                        *)
(***************************************************************************)
\* What is written are bytes.
LEMMA TypedFrom == EncodingInv => TypeOK
<1> SUFFICES ASSUME EncodingInv PROVE TypeOK
  OBVIOUS
<1>1. stage \in {"made", "packed", "written", "read"}
  BY DEF EncodingInv, StagesOK
<1>2. bytes \in Seq(Byte)
  <2>1. <<>> \in Seq(Byte)
    OBVIOUS
  <2> QED BY <1>1, <2>1 DEF EncodingInv, NothingWritten, Written
<1>3. ASSUME packet # NoPacket
      PROVE  packet.body \in Seq(Byte) /\ packet.header.length = Len(packet.body)
  <2>1. Framed(packet)
    BY <1>1, <1>3 DEF EncodingInv, Packed, ReadBackTo, OnItsWay
  <2> QED BY <2>1 DEF Framed, Packet
<1> QED BY <1>1, <1>2, <1>3 DEF TypeOK

\* On a packet on its way both conversions agree and are undone.
LEMMA ConversionsFrom == ASSUME HashIsDigest PROVE EncodingInv => ConversionsAgree
<1> SUFFICES ASSUME EncodingInv, stage = "packed"
             PROVE  LET hidden == ToConverted(packet, FALSE)
                    IN /\ hidden # Panic
                       /\ AsConverted(packet, FALSE) = hidden
                       /\ ToConverted(hidden, TRUE) = packet
  BY DEF ConversionsAgree
<1>1. Framed(packet) /\ Ours(packet.header) /\ packet.header.flags \in {1, 3}
  BY DEF EncodingInv, Packed, OnItsWay
<1>2. PICK w : /\ w = ToConverted(packet, FALSE) /\ Framed(w)
               /\ AsConverted(packet, FALSE) = w /\ ToConverted(w, TRUE) = packet
  BY <1>1, WireIs, Zenon
<1>3. w # Panic
  BY <1>2, ErrorAssumption DEF Framed
<1> QED BY <1>2, <1>3, Zenon

\* What was read is what from_bytes makes of the body.
LEMMA LengthCheckFrom == EncodingInv => LengthCheckAgrees
<1> SUFFICES ASSUME EncodingInv, stage = "read", packet # NoPacket
             PROVE  IF IsRequest THEN result # Panic => result = RequestFromBytes(packet.body)
                                 ELSE result = ReplyFromPacket(packet.body)
  BY DEF LengthCheckAgrees
<1>1. packet.body \in Seq(Byte) /\ result = Decoded(message, packet.body)
  BY DEF EncodingInv, ReadBackTo, Framed, Packet
<1>2. CASE IsRequest
  <2>1. result = RequestFromPacket(packet.body)
    BY <1>1, <1>2, Zenon DEF Decoded, IsRequest
  <2> QED BY <1>1, <1>2, <2>1, RequestChecked
<1>3. CASE ~IsRequest
  <2>1. result = ReplyFromBytes(packet.body)
    BY <1>1, <1>3, Zenon DEF Decoded, IsRequest
  <2> QED BY <1>1, <1>3, <2>1, ReplyChecked
<1> QED BY <1>2, <1>3

\* What a body that agrees with the message's is decoded to.
LEMMA DecodedIs ==
  ASSUME NEW m \in Requests \cup Replies, FitsFields(m),
         NEW body \in Seq(Byte), Agree(body, Encoded(m))
  PROVE  /\ Len(body) >= Len(Encoded(m)) => Decoded(m, body) = m
         /\ Len(body) < Len(Encoded(m)) =>
              Decoded(m, body) = IF m \in Requests /\ ~HasSizes(body) THEN Panic ELSE Error
<1>1. CASE m \in Requests
  <2>1. /\ m \in Request /\ Len(m.fixed) = 5 /\ IsText(m.strings)
        /\ \A i \in 1 .. 5 : m.fixed[i] \in Fixed[i]
        /\ \E n \in Nat : Len(m.strings) = 3 + n
    BY <1>1, RequestIs
  <2>2. PICK n \in Nat : Len(m.strings) = 3 + n
    BY <2>1
  <2>3. Encoded(m) = RequestBytes(m) /\ Decoded(m, body) = RequestFromPacket(body)
    BY <1>1 DEF Encoded, Decoded
  <2>4. FitsRequest(m) /\ Agree(body, RequestBytes(m))
    BY <1>1, <2>3 DEF FitsFields
  <2>5. /\ Len(body) >= Len(RequestBytes(m)) => RequestFromPacket(body) = m
        /\ Len(body) < Len(RequestBytes(m)) =>
             RequestFromPacket(body) = IF HasSizes(body) THEN Error ELSE Panic
    BY <2>1, <2>2, <2>4, RequestDecoded
  <2> QED BY <1>1, <2>3, <2>5, Zenon
<1>2. CASE m \notin Requests
  <2>1. m \in Reply /\ m.status \in Statuses /\ IsText(<<m.msg, m.data>>)
    BY <1>2, ReplyIs
  <2>2. Encoded(m) = ReplyBytes(m) /\ Decoded(m, body) = ReplyFromBytes(body)
    BY <1>2 DEF Encoded, Decoded
  <2>3. FitsReply(m) /\ Agree(body, ReplyBytes(m))
    BY <1>2, <2>2 DEF FitsFields
  <2>4. /\ Len(body) >= Len(ReplyBytes(m)) => ReplyFromBytes(body) = m
        /\ Len(body) < Len(ReplyBytes(m)) => ReplyFromBytes(body) = Error
    BY <2>1, <2>3, ReplyDecoded
  <2> QED BY <1>2, <2>2, <2>4, Zenon
<1> QED BY <1>1, <1>2

\* The whole body, or more, is decoded to the message.
LEMMA RoundTripFrom == EncodingInv => RoundTrip
<1> SUFFICES ASSUME EncodingInv, stage = "read", damage \in {"none", "long"}, Fits
             PROVE  result = message
  BY DEF RoundTrip
<1>1. PICK m \in Requests \cup Replies : m = message
  BY DEF EncodingInv, StagesOK
<1>2. FitsFields(m)
  BY <1>1, Zenon DEF Fits, FitsFields, IsRequest
<1>3. PICK full \in Seq(Byte) : full = Encoded(m)
  BY EncodedType
<1>4. PICK body : body = packet.body
  OBVIOUS
<1>5. body \in Seq(Byte) /\ result = Decoded(m, body) /\ AsSent(body, full, damage)
  BY <1>1, <1>3, <1>4 DEF EncodingInv, ReadBackTo, Framed, Packet
<1>6. Agree(body, full) /\ Len(body) >= Len(full)
  <2>1. CASE damage = "none"
    <3>1. body = full
      BY <1>5, <2>1 DEF AsSent
    <3> QED BY <3>1 DEF Agree
  <2>2. CASE damage = "long"
    BY <1>5, <2>2 DEF AsSent
  <2> QED BY <2>1, <2>2
<1>7. Decoded(m, body) = m
  BY <1>2, <1>3, <1>5, <1>6, DecodedIs
<1> QED BY <1>1, <1>5, <1>7

\* Less of it is refused.
LEMMA ShortBodyFrom == EncodingInv => ShortBodyRefused
<1> SUFFICES ASSUME EncodingInv, stage = "read", damage = "short", Fits
             PROVE  result = Error \/ (IsRequest /\ ~HasSizes(packet.body) /\ result = Panic)
  BY DEF ShortBodyRefused
<1>1. PICK m \in Requests \cup Replies : m = message
  BY DEF EncodingInv, StagesOK
<1>2. FitsFields(m)
  BY <1>1, Zenon DEF Fits, FitsFields, IsRequest
<1>3. PICK full \in Seq(Byte) : full = Encoded(m)
  BY EncodedType
<1>4. PICK body : body = packet.body
  OBVIOUS
<1>5. body \in Seq(Byte) /\ result = Decoded(m, body) /\ AsSent(body, full, damage)
  BY <1>1, <1>3, <1>4 DEF EncodingInv, ReadBackTo, Framed, Packet
<1>6. Agree(body, full) /\ Len(body) < Len(full)
  BY <1>5 DEF AsSent
<1>7. Decoded(m, body) = IF m \in Requests /\ ~HasSizes(body) THEN Panic ELSE Error
  BY <1>2, <1>3, <1>5, <1>6, DecodedIs
<1> QED BY <1>1, <1>4, <1>5, <1>7, Zenon DEF IsRequest

\* What is accepted is encoded to the same bytes.
LEMMA FaithfulFrom == EncodingInv => DecodingFaithful
<1> SUFFICES ASSUME EncodingInv PROVE DecodingFaithful
  OBVIOUS
<1>1. ASSUME stage \in {"written", "read"}, HeaderFromBytes(bytes) # Error
      PROVE  HeaderBytes(HeaderFromBytes(bytes)) = SubSeq(bytes, 1, HeaderLen)
  <2>1. bytes \in Seq(Byte)
    BY <1>1 DEF EncodingInv, Written
  <2> QED BY <1>1, <2>1, HeaderFaithful
<1>2. ASSUME stage = "read", result \notin {Error, Panic}
      PROVE  IsPrefix(IF IsRequest THEN RequestBytes(result) ELSE ReplyBytes(result), packet.body)
  <2>1. Framed(packet) /\ result = Decoded(message, packet.body)
    BY <1>2 DEF EncodingInv, ReadBackTo
  <2>2. PICK body \in Seq(Byte) : body = packet.body
    BY <2>1 DEF Framed, Packet
  <2>3. PICK r : r = result
    OBVIOUS
  <2>4. CASE IsRequest
    <3>1. r = RequestFromPacket(body)
      BY <2>1, <2>2, <2>3, <2>4, Zenon DEF Decoded, IsRequest
    <3>2. RequestFromPacket(body) # Panic /\ r # Error
      BY <1>2, <2>3, <3>1
    <3>3. r = RequestFromBytes(body)
      BY <3>1, <3>2, RequestChecked
    <3>4. IsPrefix(RequestBytes(r), body)
      BY <3>2, <3>3, RequestFaithful
    <3> QED BY <2>2, <2>3, <2>4, <3>4, Zenon
  <2>5. CASE ~IsRequest
    <3>1. r = ReplyFromBytes(body)
      BY <2>1, <2>2, <2>3, <2>5, Zenon DEF Decoded, IsRequest
    <3>2. IsPrefix(ReplyBytes(r), body)
      BY <1>2, <2>3, <3>1, ReplyFaithful
    <3> QED BY <2>2, <2>3, <2>5, <3>2, Zenon
  <2> QED BY <2>4, <2>5
<1> QED BY <1>1, <1>2, Zenon DEF DecodingFaithful

\* What goes over the wire are bytes, and a header's length is that of the body.
THEOREM Typed ==
  ASSUME HashIsDigest
  PROVE  Spec => []TypeOK
BY MessageOnItsWay, TypedFrom, PTL

\* Converting a packet in place and into a copy is the same, does not panic and
\* is undone by the way back, for every key and every function of md5's range.
THEOREM ConversionsAlwaysAgree ==
  ASSUME HashIsDigest
  PROVE  Spec => []ConversionsAgree
<1>1. EncodingInv => ConversionsAgree
  BY ConversionsFrom
<1> QED BY <1>1, MessageOnItsWay, PTL

\* The length checks of from_packet refuse nothing that from_bytes accepts.
THEOREM LengthChecksAlwaysAgree ==
  ASSUME HashIsDigest
  PROVE  Spec => []LengthCheckAgrees
BY MessageOnItsWay, LengthCheckFrom, PTL

\* A message whose fields fit is read as it was made.
THEOREM MessagesComeBack ==
  ASSUME HashIsDigest
  PROVE  Spec => []RoundTrip
BY MessageOnItsWay, RoundTripFrom, PTL

\* No part of a body is taken for a message.
THEOREM ShortBodiesAreRefused ==
  ASSUME HashIsDigest
  PROVE  Spec => []ShortBodyRefused
BY MessageOnItsWay, ShortBodyFrom, PTL

\* What is decoded is encoded to the bytes it was decoded from.
THEOREM DecodingKeepsAll ==
  ASSUME HashIsDigest
  PROVE  Spec => []DecodingFaithful
BY MessageOnItsWay, FaithfulFrom, PTL
=============================================================================
