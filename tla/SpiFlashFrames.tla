--------------------------- MODULE SpiFlashFrames ---------------------------
(***************************************************************************)
(* What the device of SpiFlash makes of a frame, bit by bit and for every  *)
(* frame, width, geometry and number of busy cycles: the bits come         *)
(* together to the bytes of the frame, the bytes to its command, address   *)
(* and data; what a master reads is the status or the array, and what a    *)
(* transaction leaves behind is what the C simulation leaves behind.       *)
(***************************************************************************)
EXTENDS SpiFlashProofs, WellFoundedInduction

-----------------------------------------------------------------------------
(* Induction, from the well-foundedness of < on the naturals.              *)

(* A set of naturals that is not empty has a least element.                *)
LEMMA LeastNumber ==
  ASSUME NEW T, T \subseteq Nat, T # {}
  PROVE  \E m \in T : \A k \in T : m <= k
<1> DEFINE R == OpToRel(<, Nat)
<1>1. IsWellFoundedOn(R, Nat)
  BY NatLessThanWellFounded
<1>2. \A i, j \in Nat : i < j => <<i, j>> \in R
  BY DEF OpToRel
<1> HIDE DEF R
<1>3. PICK m \in T : \A k \in T : ~ (<<k, m>> \in R)
  BY <1>1, WFMin, Zenon
<1>4. ASSUME NEW k \in T PROVE m <= k
  <2>1. m \in Nat /\ k \in Nat /\ <<k, m>> \notin R
    BY <1>3
  <2>2. ~ (k < m)
    BY <1>2, <2>1
  <2> QED  BY <2>1, <2>2
<1> QED  BY <1>4

(* A set with 0 that has the successor of each of its members has them all. *)
LEMMA NatSet ==
  ASSUME NEW S, 0 \in S, \A i \in Nat : i \in S => i + 1 \in S
  PROVE  Nat \subseteq S
<1> SUFFICES ASSUME Nat \ S # {} PROVE FALSE
  OBVIOUS
<1>1. PICK m \in Nat \ S : \A k \in Nat \ S : m <= k
  <2> HIDE DEF Nat
  <2> QED  BY LeastNumber
<1>2. m # 0
  BY <1>1
<1>3. m - 1 \in Nat /\ m - 1 \notin Nat \ S
  BY <1>1, <1>2
<1> QED  BY <1>1, <1>3

-----------------------------------------------------------------------------
(* Powers of two.                                                          *)

LEMMA PowerSum ==
  ASSUME NEW i \in Nat, NEW k \in Nat, i + k <= ByteBits * AddrBytes
  PROVE  2 ^ (i + k) = 2 ^ i * 2 ^ k /\ 2 ^ (i + k) \in Nat \ {0} /\ 2 ^ k \in Nat \ {0}
<1> DEFINE top == ByteBits * AddrBytes
           S == {m \in Nat : i + m <= top => 2 ^ (i + m) = 2 ^ i * 2 ^ m}
<1>1. top \in Nat /\ i \in 0 .. top /\ k \in 0 .. top /\ i + k \in 0 .. top
  <2>1. top \in Nat
    BY Widths
  <2> QED  BY <2>1
<1>2. /\ 2 ^ 0 = 1
      /\ \A m \in 0 .. top : 2 ^ m \in Nat \ {0} /\ 2 ^ (m + 1) = 2 * 2 ^ m
  BY PowersOfTwo
<1> HIDE DEF top
<1>3. 0 \in S
  <2>1. i + 0 = i /\ 2 ^ i \in Nat
    BY <1>1, <1>2
  <2>2. 2 ^ i * 1 = 2 ^ i
    BY <2>1
  <2> QED  BY <1>2, <2>1, <2>2
<1>4. ASSUME NEW m \in Nat, m \in S PROVE m + 1 \in S
  <2> SUFFICES ASSUME i + (m + 1) <= top
               PROVE  2 ^ (i + (m + 1)) = 2 ^ i * 2 ^ (m + 1)
    OBVIOUS
  <2>1. i + m \in 0 .. top /\ m \in 0 .. top /\ i + (m + 1) = (i + m) + 1
    BY <1>1
  <2>2. 2 ^ (i + m) = 2 ^ i * 2 ^ m
    BY <1>4, <2>1
  <2>3. 2 ^ i \in Nat /\ 2 ^ m \in Nat /\ 2 ^ (m + 1) = 2 * 2 ^ m
        /\ 2 ^ ((i + m) + 1) = 2 * 2 ^ (i + m)
    BY <1>1, <1>2, <2>1
  <2>4. \A p, q \in Nat : p * (2 * q) = 2 * (p * q)
    OBVIOUS
  <2> QED  BY <2>1, <2>2, <2>3, <2>4
<1>5. k \in S
  <2> HIDE DEF S
  <2> QED  BY <1>3, <1>4, NatSet
<1> QED  BY <1>1, <1>2, <1>5

(* A whole number of bytes has as many values as its bytes together.       *)
LEMMA BytePowers ==
  ASSUME NEW j \in 0 .. AddrBytes
  PROVE  /\ 2 ^ (ByteBits * j) \in Nat \ {0} /\ 2 ^ (ByteBits * j) <= AddrSpace
         /\ j < AddrBytes => 2 ^ (ByteBits * (j + 1)) = 2 ^ (ByteBits * j) * 2 ^ ByteBits
<1> DEFINE a == ByteBits * j
           b == ByteBits * (AddrBytes - j)
           top == ByteBits * AddrBytes
<1>1. ByteBits \in Nat /\ AddrBytes \in Nat /\ j \in Nat /\ j <= AddrBytes
  BY Widths
<1>2. a \in Nat /\ b \in Nat /\ top \in Nat /\ a + b = top /\ ByteBits * (j + 1) = a + ByteBits
  BY <1>1
<1>3. j < AddrBytes => b >= ByteBits
  BY <1>1
<1>4. AddrSpace = 2 ^ top
  BY DEF AddrSpace
<1>5. \A i, k \in Nat : i + k <= top => /\ 2 ^ (i + k) = 2 ^ i * 2 ^ k
                                         /\ 2 ^ (i + k) \in Nat \ {0} /\ 2 ^ k \in Nat \ {0}
  BY PowerSum
<1>6. \A i \in 0 .. top : 2 ^ i \in Nat \ {0}
  BY PowersOfTwo
<1> HIDE DEF a, b, top
<1>7. 2 ^ a \in Nat \ {0} /\ 2 ^ b \in Nat \ {0} /\ 2 ^ top = 2 ^ a * 2 ^ b
  BY <1>2, <1>5, <1>6
<1>8. 2 ^ a <= AddrSpace
  <2>1. \A p, q \in Nat \ {0} : p <= p * q
    OBVIOUS
  <2> QED  BY <1>4, <1>7, <2>1
<1>9. j < AddrBytes => 2 ^ (ByteBits * (j + 1)) = 2 ^ a * 2 ^ ByteBits
  BY <1>1, <1>2, <1>3, <1>5
<1> QED  BY <1>7, <1>8, <1>9 DEF a

-----------------------------------------------------------------------------
(* Bits and bytes.                                                         *)

(* The i-th bit and what lies above it are what lies above the next.       *)
LEMMA TopBits ==
  ASSUME NEW v \in Nat, NEW i \in 0 .. (ByteBits - 1)
  PROVE  2 * (v \div 2 ^ (i + 1)) + Bit(v, i) = v \div 2 ^ i
<1> DEFINE q == 2 ^ i
           w == v \div q
           h == w \div 2
           b == w % 2
<1>1. q \in Nat /\ q > 0 /\ 2 ^ (i + 1) = 2 * q
  <2>1. i \in 0 .. ByteBits
    BY Widths
  <2> QED  BY <2>1, Widths
<1>2. Bit(v, i) = b
  BY DEF Bit
<1> HIDE DEF q
<1>3. w \in Nat /\ w * q <= v /\ v < w * q + q
  BY <1>1
<1> HIDE DEF w
<1>4. h \in Nat /\ b \in {0, 1} /\ w = 2 * h + b
  BY <1>3
<1> HIDE DEF h, b
<1>5. v \div (2 * q) = h
  <2> DEFINE d == 2 * q
             x == h * d
  <2>1. w * q = x + b * q
    BY <1>1, <1>4
  <2>2. d \in Nat /\ d > 0 /\ x \in Nat
    BY <1>1, <1>4
  <2>3. b * q \in {0, q}
    BY <1>1, <1>4
  <2>4. x <= v /\ v < x + d
    <3> DEFINE y == w * q
               z == b * q
    <3>1. y = x + z /\ z \in {0, q} /\ y <= v /\ v < y + q /\ d = 2 * q
      BY <1>3, <2>1, <2>3
    <3> HIDE DEF y, z, x, d
    <3> QED  BY <1>1, <2>2, <3>1
  <2> HIDE DEF d
  <2>5. ASSUME NEW m \in Nat, m * d <= v, v < m * d + d PROVE m = h
    <3>1. CASE m > h
      <4>1. m * d >= h * d + d
        BY <1>4, <2>2, <3>1
      <4> QED  BY <2>2, <2>4, <2>5, <4>1
    <3>2. CASE m < h
      <4>1. h * d >= m * d + d
        BY <1>4, <2>2, <3>2
      <4> QED  BY <2>2, <2>4, <2>5, <4>1
    <3> QED  BY <1>4, <3>1, <3>2
  <2>6. v \div d \in Nat /\ (v \div d) * d <= v /\ v < (v \div d) * d + d
    BY <2>2
  <2> QED  BY <2>5, <2>6 DEF d
<1> QED  BY <1>1, <1>2, <1>4, <1>5 DEF w, q

(* Nothing lies above the first bit of a byte, and all of it above the last. *)
LEMMA EndBits ==
  ASSUME NEW v \in Cell
  PROVE  v \in Nat /\ v \div 2 ^ ByteBits = 0 /\ v \div 2 ^ 0 = v
<1>1. v \in Nat /\ v < 2 ^ ByteBits /\ 2 ^ ByteBits \in Nat /\ 2 ^ 0 = 1
  <2>1. ByteBits \in 0 .. ByteBits
    BY Widths
  <2>2. 2 ^ ByteBits \in Nat
    BY <2>1, Widths
  <2> QED  BY <2>2, SpiAssumption, PowersOfTwo
<1> DEFINE p == 2 ^ ByteBits
<1>2. p \in Nat /\ v < p
  BY <1>1
<1> HIDE DEF p
<1>3. v \div p = 0
  BY <1>1, <1>2
<1>4. v \div 1 = v
  BY <1>1
<1> QED  BY <1>1, <1>3, <1>4 DEF p

(* Whole bytes and the bits after them, as one more bit comes.             *)
LEMMA NextBit ==
  ASSUME NEW i \in Nat
  PROVE  /\ i \div ByteBits \in Nat /\ i % ByteBits \in 0 .. (ByteBits - 1)
         /\ i = (i \div ByteBits) * ByteBits + (i % ByteBits)
         /\ i % ByteBits = ByteBits - 1 =>
              (i + 1) % ByteBits = 0 /\ (i + 1) \div ByteBits = (i \div ByteBits) + 1
         /\ i % ByteBits < ByteBits - 1 =>
              (i + 1) % ByteBits = (i % ByteBits) + 1 /\ (i + 1) \div ByteBits = i \div ByteBits
<1> DEFINE q == i \div ByteBits
           r == i % ByteBits
           q1 == (i + 1) \div ByteBits
           r1 == (i + 1) % ByteBits
<1>1. ByteBits \in Nat /\ ByteBits >= 2
  BY Widths
<1>2. q \in Nat /\ r \in 0 .. (ByteBits - 1) /\ i = q * ByteBits + r
  BY <1>1
<1>3. q1 \in Nat /\ r1 \in 0 .. (ByteBits - 1) /\ i + 1 = q1 * ByteBits + r1
  BY <1>1
<1> HIDE DEF q, r, q1, r1
<1>4. q1 * ByteBits + r1 = q * ByteBits + r + 1
  BY <1>2, <1>3
<1>5. CASE q1 > q + 1
  <2>1. q1 * ByteBits >= q * ByteBits + 2 * ByteBits
    BY <1>1, <1>2, <1>3, <1>5
  <2>2. q * ByteBits \in Nat /\ q1 * ByteBits \in Nat
    BY <1>1, <1>2, <1>3
  <2> QED  BY <1>1, <1>2, <1>3, <1>4, <2>1, <2>2
<1>6. CASE q1 < q
  <2>1. q * ByteBits >= q1 * ByteBits + ByteBits
    BY <1>1, <1>2, <1>3, <1>6
  <2>2. q * ByteBits \in Nat /\ q1 * ByteBits \in Nat
    BY <1>1, <1>2, <1>3
  <2> QED  BY <1>1, <1>2, <1>3, <1>4, <2>1, <2>2
<1>7. CASE q1 = q
  <2>1. r1 = r + 1
    BY <1>1, <1>2, <1>3, <1>4, <1>7
  <2> QED  BY <1>1, <1>2, <1>3, <1>7, <2>1 DEF q, r, q1, r1
<1>8. CASE q1 = q + 1
  <2>1. q1 * ByteBits = q * ByteBits + ByteBits
    BY <1>1, <1>2, <1>8
  <2>2. r1 = r + 1 - ByteBits
    BY <1>1, <1>2, <1>3, <1>4, <2>1
  <2>3. r = ByteBits - 1 /\ r1 = 0
    BY <1>1, <1>2, <1>3, <2>2
  <2> QED  BY <1>1, <1>2, <1>8, <2>3 DEF q, r, q1, r1
<1> QED  BY <1>2, <1>3, <1>5, <1>6, <1>7, <1>8

-----------------------------------------------------------------------------
(* The address of a frame.                                                 *)

(* AddrPrefix is what its recursive definition says.                       *)
LEMMA AddrPrefixDef ==
  ASSUME NEW f
  PROVE  AddrPrefix(f) = [j \in 0 .. AddrBytes |->
                            IF j = 0 THEN 0
                                     ELSE AddrPrefix(f)[j - 1] * 2 ^ ByteBits + f[1 + j]]
<1> DEFINE E(g, m) == g = [j \in 0 .. m |->
                             IF j = 0 THEN 0 ELSE g[j - 1] * 2 ^ ByteBits + f[1 + j]]
           S == {m \in Nat : \E g : E(g, m)}
<1>1. 0 \in S
  <2>1. E([j \in 0 .. 0 |-> 0], 0)
    OBVIOUS
  <2> QED  BY <2>1
<1>2. ASSUME NEW i \in Nat, i \in S PROVE i + 1 \in S
  <2>1. PICK g : E(g, i)
    BY <1>2
  <2> DEFINE h == [j \in 0 .. i + 1 |->
                     IF j <= i THEN g[j] ELSE g[i] * 2 ^ ByteBits + f[1 + j]]
             r == [j \in 0 .. i + 1 |->
                     IF j = 0 THEN 0 ELSE h[j - 1] * 2 ^ ByteBits + f[1 + j]]
  <2>2. ASSUME NEW j \in 0 .. i + 1
        PROVE  h[j] = IF j = 0 THEN 0 ELSE h[j - 1] * 2 ^ ByteBits + f[1 + j]
    <3>1. /\ j \in Int /\ 0 <= j /\ j <= i + 1
          /\ h[j] = IF j <= i THEN g[j] ELSE g[i] * 2 ^ ByteBits + f[1 + j]
      OBVIOUS
    <3>2. j # 0 => h[j - 1] = g[j - 1]
      BY <3>1
    <3>3. j <= i => g[j] = IF j = 0 THEN 0 ELSE g[j - 1] * 2 ^ ByteBits + f[1 + j]
      BY <2>1, <3>1
    <3>4. j > i => j = i + 1 /\ j - 1 = i
      BY <3>1
    <3> HIDE DEF h
    <3> QED  BY <3>1, <3>2, <3>3, <3>4
  <2>3. E(h, i + 1)
    <3> HIDE DEF r
    <3>1. \A j \in 0 .. i + 1 : h[j] = r[j]
      BY <2>2 DEF r
    <3>2. h = [j \in 0 .. i + 1 |-> h[j]] /\ r = [j \in 0 .. i + 1 |-> r[j]]
      BY DEF r
    <3> HIDE DEF h
    <3>3. h = r
      BY <3>1, <3>2
    <3> QED  BY <3>3 DEF r
  <2>4. \E g1 : E(g1, i + 1)
    <3> HIDE DEF E, h
    <3> QED  BY <2>3
  <2> QED  BY <2>4
<1>3. AddrBytes \in S
  <2> HIDE DEF S
  <2> QED  BY <1>1, <1>2, NatSet, Widths
<1>4. PICK g : E(g, AddrBytes)
  BY <1>3
<1> QED  BY <1>4 DEF AddrPrefix

LEMMA AddrPrefixStep ==
  ASSUME NEW f
  PROVE  /\ AddrPrefix(f)[0] = 0
         /\ \A j \in 0 .. (AddrBytes - 1) :
              AddrPrefix(f)[j + 1] = AddrPrefix(f)[j] * 2 ^ ByteBits + f[j + 2]
<1> DEFINE a == AddrPrefix(f)
<1>1. AddrBytes \in Nat
  BY Widths
<1>2. a = [j \in 0 .. AddrBytes |-> IF j = 0 THEN 0 ELSE a[j - 1] * 2 ^ ByteBits + f[1 + j]]
  BY AddrPrefixDef
<1> HIDE DEF a
<1>3. \A j \in 0 .. AddrBytes :
        a[j] = IF j = 0 THEN 0 ELSE a[j - 1] * 2 ^ ByteBits + f[1 + j]
  BY <1>2
<1>4. a[0] = 0
  BY <1>1, <1>3
<1>5. ASSUME NEW j \in 0 .. (AddrBytes - 1)
      PROVE  a[j + 1] = a[j] * 2 ^ ByteBits + f[j + 2]
  <2>1. j + 1 \in 0 .. AddrBytes /\ j + 1 # 0 /\ (j + 1) - 1 = j /\ 1 + (j + 1) = j + 2
    BY <1>1
  <2> QED  BY <1>3, <2>1
<1> QED  BY <1>4, <1>5 DEF a

(* The first bytes of an address fit the register, with room for the rest. *)
LEMMA AddrPrefixFits ==
  ASSUME NEW f \in Seq(Cell), NEW j \in 0 .. AddrBytes, j + 1 <= Len(f)
  PROVE  AddrPrefix(f)[j] \in Nat /\ AddrPrefix(f)[j] < 2 ^ (ByteBits * j)
         /\ AddrPrefix(f)[j] < AddrSpace
<1> DEFINE a == AddrPrefix(f)
           P(m) == m <= AddrBytes /\ m + 1 <= Len(f) =>
                     a[m] \in Nat /\ a[m] < 2 ^ (ByteBits * m)
           S == {m \in Nat : P(m)}
<1>1. /\ ByteBits \in Nat /\ AddrBytes \in Nat /\ Len(f) \in Nat
      /\ 2 ^ ByteBits \in Nat /\ 2 ^ ByteBits > 0
  <2>1. ByteBits \in 0 .. ByteBits
    BY Widths
  <2> QED  BY <2>1, Widths
<1>2. /\ a[0] = 0
      /\ \A m \in 0 .. (AddrBytes - 1) : a[m + 1] = a[m] * 2 ^ ByteBits + f[m + 2]
  BY AddrPrefixStep
<1> HIDE DEF a
<1>3. 0 \in S
  <2>1. ByteBits * 0 = 0
    BY <1>1
  <2>2. 2 ^ (ByteBits * 0) = 1
    BY <2>1, PowersOfTwo, Zenon
  <2>3. a[0] \in Nat /\ a[0] < 1
    BY <1>2
  <2>4. P(0)
    BY <2>2, <2>3
  <2> QED  BY <2>4
<1>4. ASSUME NEW m \in Nat, m \in S PROVE m + 1 \in S
  <2> SUFFICES ASSUME m + 1 <= AddrBytes, (m + 1) + 1 <= Len(f)
               PROVE  a[m + 1] \in Nat /\ a[m + 1] < 2 ^ (ByteBits * (m + 1))
    OBVIOUS
  <2>1. a[m] \in Nat /\ a[m] < 2 ^ (ByteBits * m)
    BY <1>1, <1>4
  <2>2. m \in 0 .. AddrBytes /\ m < AddrBytes /\ m \in 0 .. (AddrBytes - 1)
    BY <1>1
  <2>3. a[m + 1] = a[m] * 2 ^ ByteBits + f[m + 2]
    BY <1>2, <2>2
  <2>4. f[m + 2] \in Nat /\ f[m + 2] < 2 ^ ByteBits
    <3>1. m + 2 \in 1 .. Len(f)
      BY <1>1
    <3>2. f[m + 2] \in Cell
      BY <3>1
    <3>3. Cell = 0 .. (2 ^ ByteBits - 1)
      BY SpiAssumption
    <3> QED  BY <1>1, <3>2, <3>3
  <2>5. /\ 2 ^ (ByteBits * (m + 1)) = 2 ^ (ByteBits * m) * 2 ^ ByteBits
        /\ 2 ^ (ByteBits * m) \in Nat
    BY <2>2, BytePowers
  <2>6. ASSUME NEW x \in Nat, NEW p \in Nat, NEW w \in Nat, NEW b \in Nat, x < p, b < w
        PROVE  x * w + b \in Nat /\ x * w + b < p * w
    <3>1. (x + 1) * w <= p * w
      BY <2>6
    <3>2. (x + 1) * w = x * w + w /\ x * w \in Nat /\ p * w \in Nat
      OBVIOUS
    <3> QED  BY <2>6, <3>1, <3>2
  <2> DEFINE p == 2 ^ (ByteBits * m)
             w == 2 ^ ByteBits
             x == a[m]
             b == f[m + 2]
  <2>7. x \in Nat /\ p \in Nat /\ w \in Nat /\ b \in Nat /\ x < p /\ b < w
    BY <1>1, <2>1, <2>4, <2>5
  <2> HIDE DEF p, w, x, b
  <2>8. x * w + b \in Nat /\ x * w + b < p * w
    BY <2>6, <2>7
  <2> QED  BY <2>3, <2>5, <2>8 DEF p, w, x, b
<1>5. j \in S
  <2>1. j \in Nat
    BY <1>1
  <2> HIDE DEF S
  <2> QED  BY <1>3, <1>4, <2>1, NatSet
<1>6. a[j] \in Nat /\ a[j] < 2 ^ (ByteBits * j)
  BY <1>1, <1>5
<1>7. 2 ^ (ByteBits * j) <= AddrSpace /\ 2 ^ (ByteBits * j) \in Nat /\ AddrSpace \in Nat
  BY BytePowers, Widths
<1> QED  BY <1>6, <1>7 DEF a

(* One more byte of the address.                                           *)
LEMMA NextAddrByte ==
  ASSUME NEW f \in Seq(Cell), NEW j \in 0 .. (AddrBytes - 1), j + 2 <= Len(f)
  PROVE  (AddrPrefix(f)[j] * 2 ^ ByteBits + f[j + 2]) % AddrSpace = AddrPrefix(f)[j + 1]
<1>1. AddrPrefix(f)[j + 1] = AddrPrefix(f)[j] * 2 ^ ByteBits + f[j + 2]
  BY AddrPrefixStep
<1>2. AddrPrefix(f)[j + 1] \in Nat /\ AddrPrefix(f)[j + 1] < AddrSpace
  <2>1. j + 1 \in 0 .. AddrBytes /\ (j + 1) + 1 <= Len(f)
    BY Widths
  <2> QED  BY <2>1, AddrPrefixFits
<1>3. \A x, d \in Nat : x < d => x % d = x
  OBVIOUS
<1> QED  BY <1>1, <1>2, <1>3, Widths

-----------------------------------------------------------------------------
(* The invariant.                                                          *)

(* The whole bytes received.                                               *)
Received == n \div ByteBits

(* The shift register holds the first bits of the next byte.               *)
BitsInv ==
  cs => /\ frame \in Frames /\ rxCnt = n % ByteBits
        /\ rxCnt = 0 => rx = 0
        /\ rxCnt > 0 => rx = frame[Received + 1] \div 2 ^ (ByteBits - rxCnt)

(* The state follows from the command byte and the number of bytes.        *)
StateInv ==
  cs /\ Running =>
    /\ st = "IDLE" <=> Received = 0
    /\ Received > 0 => cmd = frame[1]
    /\ st = "RDSR_STREAM" <=> Received > 0 /\ frame[1] = RDSR
    /\ st = "ADDR" <=> Received \in 1 .. AddrBytes /\ frame[1] \in {READ, PP, SE}
    /\ st = "READ_DATA" <=> Received > AddrBytes /\ frame[1] = READ
    /\ st = "PP_DATA" <=> Received > AddrBytes /\ frame[1] = PP

(* The address register holds the address bytes received.                  *)
AddrInv ==
  cs /\ Running /\ Received > 0 /\ frame[1] \in {READ, PP, SE} =>
    IF Received <= AddrBytes
      THEN addrLeft = AddrBytes + 1 - Received /\ addrReg = AddrPrefix(frame)[Received - 1]
      ELSE addrReg = FrameAddr

(* While bits go out their index follows the bits that come in.            *)
StreamInv ==
  cs /\ Running /\ st \in {"RDSR_STREAM", "READ_DATA"} =>
    txIdx = IF sclk THEN ByteBits - 1 - rxCnt
                    ELSE IF rxCnt = ByteBits - 1 THEN ByteBits - 1 ELSE ByteBits - 2 - rxCnt

(* The ready bit on the wire was true when it was put out and still is.    *)
StatusInv ==
  cs /\ Running /\ st = "RDSR_STREAM" /\ ~ sclk /\ rxCnt = ByteBits - 1 /\ miso = "0" => ~ wip

(* The cell a read is at, and its bit on the wire.                         *)
ReadAt == FrameAddr + (Received - 1 - AddrBytes)
ReadInv ==
  cs /\ Running /\ st = "READ_DATA" =>
    /\ addrTmp = IF ~ sclk /\ rxCnt = ByteBits - 1 THEN ReadAt + 1 ELSE ReadAt
    /\ ~ (sclk /\ rxCnt = 0) => ReadAt \in Addr /\ txShift = mem[ReadAt]
    /\ ~ sclk => miso = Level(mem[ReadAt], ByteBits - 1 - rxCnt)

(* The data bytes received, and those the page has room for.               *)
DataBytes == Received - 1 - AddrBytes
Room == PageSize - (FrameAddr % PageSize)

(* The array differs from what it was when CS fell only by the data of a   *)
(* program, if the latch is set and as far as the page goes.               *)
ProgramInv ==
  cs /\ Running /\ st = "PP_DATA" /\ FrameAddr \in Addr =>
    /\ pageLimit = FrameAddr + Room
    /\ programmed = IF ~ wel THEN 0 ELSE IF DataBytes <= Room THEN DataBytes ELSE Room
    /\ addrTmp = FrameAddr + programmed
    /\ \A x \in Addr :
         mem[x] = IF x \in FrameAddr .. (FrameAddr + programmed - 1)
                    THEN BitAnd(memAt[x], frame[AddrBytes + 2 + (x - FrameAddr)])
                    ELSE memAt[x]
OldArrayInv ==
  /\ ~ cs => mem = memAt
  /\ cs /\ Running /\ st # "PP_DATA" => programmed = 0 /\ mem = memAt

(* Only in a transaction that says SE is there anything to erase.          *)
EraseInv == Running /\ cmd = SE /\ wel => cs /\ Received > 0

Decoded ==
  /\ BitsInv /\ StateInv /\ AddrInv /\ StreamInv /\ StatusInv /\ ReadInv
  /\ ProgramInv /\ OldArrayInv /\ EraseInv /\ AbortsOnlyPastEnd

FrameInv == SpiInv /\ Decoded

-----------------------------------------------------------------------------
(* The bits of a frame come together to its bytes.                         *)

(* The frame, and how much of it was sent.                                 *)
LEMMA FrameFacts ==
  ASSUME TypeOK, BitsInv, cs
  PROVE  /\ frame \in Seq(Cell) /\ Len(frame) \in Nat /\ 1 \in 1 .. Len(frame)
         /\ n \in Nat /\ Received \in Nat /\ rxCnt \in 0 .. (ByteBits - 1)
         /\ n = Received * ByteBits + rxCnt
<1>1. frame \in Seq(Cell) /\ frame # <<>>
  BY SpiAssumption DEF BitsInv
<1>2. Len(frame) \in Nat /\ Len(frame) >= 1
  BY <1>1
<1>3. Len(frame) * ByteBits \in Nat
  BY <1>2, Widths
<1>4. n \in Nat
  BY <1>3 DEF TypeOK, WiresOK
<1>5. rxCnt = n % ByteBits
  BY DEF BitsInv
<1> QED  BY <1>1, <1>2, <1>4, <1>5, NextBit DEF Received

LEMMA ByteOfFrame ==
  ASSUME TypeOK, BitsInv, cs, n < Len(frame) * ByteBits
  PROVE  /\ Received + 1 \in 1 .. Len(frame) /\ frame[Received + 1] \in Cell
         /\ rxCnt = ByteBits - 1 => Byte = frame[Received + 1]
         /\ rxCnt < ByteBits - 1 =>
              Byte = frame[Received + 1] \div 2 ^ (ByteBits - (rxCnt + 1))
<1> DEFINE v == frame[Received + 1]
           i == ByteBits - 1 - rxCnt
<1>1. /\ frame \in Seq(Cell) /\ Len(frame) \in Nat /\ n \in Nat /\ Received \in Nat
      /\ rxCnt \in 0 .. (ByteBits - 1) /\ ByteBits \in Nat /\ ByteBits >= 2
  BY FrameFacts, Widths
<1>2. Received + 1 \in 1 .. Len(frame)
  BY <1>1, InFrame DEF Received
<1>3. v \in Cell
  <2> DEFINE j == Received + 1
  <2>1. j \in 1 .. Len(frame)
    BY <1>2
  <2> HIDE DEF j
  <2>2. frame[j] \in Cell
    BY <1>1, <2>1
  <2> QED  BY <2>2 DEF j
<1>4. i \in 0 .. (ByteBits - 1) /\ i + 1 = ByteBits - rxCnt /\ i = ByteBits - (rxCnt + 1)
  BY <1>1
<1>5. FrameBit(n + 1) = Bit(v, i)
  <2>1. (n + 1) - 1 = n
    BY <1>1
  <2> QED  BY <2>1 DEF FrameBit, Received, BitsInv
<1>6. rx = v \div 2 ^ (i + 1)
  <2>1. CASE rxCnt = 0
    <3>1. i + 1 = ByteBits
      BY <1>1, <2>1
    <3>2. v \div 2 ^ ByteBits = 0
      BY <1>3, EndBits
    <3>3. rx = 0
      BY <2>1 DEF BitsInv
    <3> HIDE DEF v, i
    <3> QED  BY <3>1, <3>2, <3>3
  <2>2. CASE rxCnt > 0
    BY <1>4, <2>2 DEF BitsInv
  <2> QED  BY <1>1, <2>1, <2>2
<1>7. v \in Nat /\ v \div 2 ^ 0 = v
  BY <1>3, EndBits
<1>8. Byte = v \div 2 ^ i
  BY <1>4, <1>5, <1>6, <1>7, TopBits DEF Byte
<1>9. rxCnt = ByteBits - 1 => i = 0
  BY <1>1
<1> QED  BY <1>2, <1>3, <1>4, <1>7, <1>8, <1>9

(* One more bit: the bytes received and the shift register.                *)
LEMMA RiseFacts ==
  ASSUME TypeOK, BitsInv, SclkRise
  PROVE  /\ cs /\ cs' /\ ~ sclk /\ sclk' /\ Running /\ frame' = frame
         /\ FrameAddr' = FrameAddr /\ Room' = Room
         /\ frame \in Seq(Cell) /\ Received \in Nat /\ Received + 1 <= Len(frame)
         /\ frame[1] \in Cell /\ n \in Nat /\ n' = n + 1
         /\ PartOfByte => Received' = Received /\ rxCnt' = rxCnt + 1 /\ rxCnt < ByteBits - 1
         /\ WholeByte => /\ Received' = Received + 1 /\ rxCnt = ByteBits - 1 /\ rxCnt' = 0
                         /\ Byte = frame[Received + 1]
         /\ BitsInv'
<1>1. /\ cs /\ cs' /\ ~ sclk /\ sclk' /\ Running /\ frame' = frame /\ n' = n + 1
      /\ n < Len(frame) * ByteBits /\ (PartOfByte \/ WholeByte)
  BY DEF SclkRise
<1>2. /\ frame \in Seq(Cell) /\ Len(frame) \in Nat /\ 1 \in 1 .. Len(frame)
      /\ n \in Nat /\ Received \in Nat /\ rxCnt \in 0 .. (ByteBits - 1)
  BY <1>1, FrameFacts
<1>3. /\ Received + 1 \in 1 .. Len(frame)
      /\ rxCnt = ByteBits - 1 => Byte = frame[Received + 1]
      /\ rxCnt < ByteBits - 1 =>
           Byte = frame[Received + 1] \div 2 ^ (ByteBits - (rxCnt + 1))
  BY <1>1, ByteOfFrame
<1>4. frame[1] \in Cell
  BY <1>2
<1>5. FrameAddr' = FrameAddr /\ Room' = Room
  BY <1>1 DEF FrameAddr, Room
<1>6. frame \in Frames /\ rxCnt = n % ByteBits
  BY <1>1 DEF BitsInv
<1>7. PartOfByte => /\ Received' = Received /\ rxCnt' = rxCnt + 1 /\ rxCnt < ByteBits - 1
                    /\ rx' = Byte /\ rxCnt' = n' % ByteBits
  BY <1>1, <1>2, <1>6, NextBit DEF PartOfByte, Received
<1>8. WholeByte => /\ Received' = Received + 1 /\ rxCnt = ByteBits - 1 /\ rxCnt' = 0
                   /\ rx' = 0 /\ rxCnt' = n' % ByteBits
  BY <1>1, <1>2, <1>6, NextBit DEF WholeByte, Received
<1>9. BitsInv'
  BY <1>1, <1>2, <1>3, <1>6, <1>7, <1>8 DEF BitsInv
<1> QED  BY <1>1, <1>2, <1>3, <1>4, <1>5, <1>7, <1>8, <1>9

(* The counts of bits the properties use, in whole bytes.                  *)
LEMMA Counts ==
  ASSUME NEW i \in Nat
  PROVE  /\ i >= ByteBits <=> i \div ByteBits > 0
         /\ i >= HeaderBits <=> i \div ByteBits > AddrBytes
         /\ i \div ByteBits > AddrBytes =>
              /\ (i - HeaderBits) \div ByteBits = (i \div ByteBits) - 1 - AddrBytes
              /\ (i - HeaderBits) % ByteBits = i % ByteBits
<1> DEFINE D == i \div ByteBits
           R == i % ByteBits
           B == ByteBits
           A == AddrBytes
<1>1. /\ D \in Nat /\ R \in 0 .. (B - 1) /\ i = D * B + R /\ i \in Nat
      /\ B \in Nat /\ B >= 2 /\ A \in Nat
  BY NextBit, Widths
<1> HIDE DEF D, R, B, A
<1>2. ASSUME NEW k \in Nat
      PROVE  k * B \in Nat /\ (k * B <= i <=> k <= D)
  <2>1. k * B \in Nat /\ D * B \in Nat
    BY <1>1
  <2>2. k <= D => k * B <= D * B
    BY <1>1
  <2>3. k > D => k * B >= D * B + B
    BY <1>1
  <2> QED  BY <1>1, <2>1, <2>2, <2>3
<1>3. i >= B <=> D > 0
  <2>1. 1 * B = B
    BY <1>1
  <2> QED  BY <1>1, <1>2, <2>1
<1>4. HeaderBits = (1 + A) * B
  BY <1>1 DEF HeaderBits, B, A
<1>5. i >= HeaderBits <=> D > A
  BY <1>1, <1>2, <1>4
<1>6. ASSUME D > A
      PROVE  (i - HeaderBits) \div B = D - 1 - A /\ (i - HeaderBits) % B = R
  <2> DEFINE d == D - 1 - A
             m == i - HeaderBits
             q == m \div B
             r == m % B
  <2>1. d \in Nat
    BY <1>1, <1>6
  <2>2. D * B = d * B + (1 + A) * B
    BY <1>1
  <2>3. d * B \in Nat /\ (1 + A) * B \in Nat
    BY <1>1, <2>1
  <2>4. m = d * B + R /\ m \in Nat
    BY <1>1, <1>4, <2>2, <2>3
  <2> HIDE DEF d, m
  <2>5. q \in Nat /\ r \in 0 .. (B - 1) /\ m = q * B + r
    <3>1. \A u \in Nat : /\ u \div B \in Nat /\ u % B \in 0 .. (B - 1)
                          /\ u = (u \div B) * B + (u % B)
      BY NextBit DEF B
    <3> QED  BY <2>4, <3>1
  <2> HIDE DEF q, r
  <2>6. q * B \in Nat
    BY <1>1, <2>5
  <2>7. q > d => q * B >= d * B + B
    BY <1>1, <2>1, <2>5
  <2>8. q < d => d * B >= q * B + B
    BY <1>1, <2>1, <2>5
  <2>9. q = d
    BY <1>1, <2>1, <2>3, <2>4, <2>5, <2>6, <2>7, <2>8
  <2>10. r = R
    BY <1>1, <2>1, <2>3, <2>4, <2>5, <2>9
  <2> QED  BY <2>9, <2>10 DEF q, r, m, d
<1> QED  BY <1>3, <1>5, <1>6 DEF D, R, B, A

-----------------------------------------------------------------------------
(* SCLK rises.                                                             *)

(* A bit in the middle of a byte.                                          *)
LEMMA PartOfByteDecoded ==
  ASSUME FrameInv, SclkRise, PartOfByte
  PROVE  Decoded'
<1>1. /\ TypeOK /\ BitsInv /\ StateInv /\ AddrInv /\ StreamInv /\ ReadInv
      /\ ProgramInv /\ OldArrayInv /\ EraseInv
  BY DEF FrameInv, Decoded, SpiInv
<1>2. /\ cs /\ cs' /\ ~ sclk /\ sclk' /\ Running /\ frame' = frame
      /\ FrameAddr' = FrameAddr /\ Room' = Room /\ Received' = Received
      /\ rxCnt' = rxCnt + 1 /\ rxCnt < ByteBits - 1 /\ BitsInv'
  BY <1>1, RiseFacts
<1>3. rxCnt \in 0 .. (ByteBits - 1) /\ ByteBits \in Nat
  BY <1>1, Widths DEF TypeOK, RegistersOK
<1>4. /\ UNCHANGED <<st, cmd, addrReg, addrTmp, pageLimit, txShift, addrLeft, txIdx,
                     programmed, mem, wel, memAt>>
      /\ Running'
  BY <1>2 DEF SclkRise, PartOfByte, regs, Running
<1>5. ReadAt' = ReadAt /\ DataBytes' = DataBytes
  BY <1>2 DEF ReadAt, DataBytes
<1>6. StateInv'
  BY <1>1, <1>2, <1>4 DEF StateInv
<1>7. AddrInv'
  BY <1>1, <1>2, <1>4 DEF AddrInv
<1>8. StreamInv'
  BY <1>1, <1>2, <1>3, <1>4 DEF StreamInv
<1>9. StatusInv'
  BY <1>2 DEF StatusInv
<1>10. ReadInv'
  BY <1>1, <1>2, <1>3, <1>4, <1>5 DEF ReadInv
<1>11. ProgramInv'
  BY <1>1, <1>2, <1>4, <1>5 DEF ProgramInv
<1>12. OldArrayInv'
  BY <1>1, <1>2, <1>4 DEF OldArrayInv
<1>13. EraseInv'
  BY <1>1, <1>2, <1>4 DEF EraseInv
<1>14. AbortsOnlyPastEnd'
  BY <1>4 DEF AbortsOnlyPastEnd, Running
<1> QED
  BY <1>2, <1>6, <1>7, <1>8, <1>9, <1>10, <1>11, <1>12, <1>13, <1>14 DEF Decoded

(* The command byte.                                                       *)
LEMMA CommandByteDecoded ==
  ASSUME FrameInv, SclkRise, WholeByte, CommandByte
  PROVE  Decoded'
<1>1. TypeOK /\ BitsInv /\ StateInv /\ OldArrayInv
  BY DEF FrameInv, Decoded, SpiInv
<1>2. /\ cs /\ cs' /\ sclk' /\ Running /\ frame' = frame /\ Received \in Nat
      /\ Received' = Received + 1 /\ rxCnt' = 0 /\ Byte = frame[Received + 1] /\ BitsInv'
  BY <1>1, RiseFacts
<1>3. Received = 0 /\ Received' = 1 /\ Byte = frame[1]
  BY <1>1, <1>2 DEF CommandByte, StateInv
<1>4. /\ cmd' = frame[1] /\ programmed = 0 /\ mem = memAt
      /\ UNCHANGED <<programmed, mem, memAt>>
  BY <1>1, <1>2, <1>3 DEF CommandByte, OldArrayInv, SclkRise
<1>5. AddrBytes \in Nat /\ AddrBytes >= 1 /\ ByteBits \in Nat
  BY Widths
<1>6. /\ WREN \notin {RDSR, READ, PP, SE} /\ RDSR \notin {READ, PP, SE}
      /\ READ \notin {PP, SE} /\ PP # SE
  BY SpiAssumption
<1>7. \/ frame[1] = RDSR /\ st' = "RDSR_STREAM" /\ txIdx' = ByteBits - 1
      \/ frame[1] \in {READ, PP, SE} /\ st' = "ADDR" /\ addrReg' = 0 /\ addrLeft' = AddrBytes
      \/ frame[1] \notin {RDSR, READ, PP, SE} /\ st' = "IGNORE"
  BY <1>3, <1>6 DEF CommandByte, WrenByte, RdsrByte, AddressedByte, OtherByte
<1>8. StateInv'
  BY <1>2, <1>3, <1>4, <1>5, <1>6, <1>7 DEF StateInv
<1>9. AddrInv'
  <2>1. AddrPrefix(frame)[0] = 0
    BY AddrPrefixStep
  <2> QED  BY <1>2, <1>3, <1>5, <1>6, <1>7, <2>1 DEF AddrInv
<1>10. StreamInv'
  BY <1>2, <1>5, <1>7 DEF StreamInv
<1>11. StatusInv' /\ ReadInv' /\ ProgramInv'
  BY <1>2, <1>7 DEF StatusInv, ReadInv, ProgramInv
<1>12. OldArrayInv' /\ EraseInv'
  BY <1>2, <1>3, <1>4 DEF OldArrayInv, EraseInv
<1>13. AbortsOnlyPastEnd'
  BY <1>7 DEF AbortsOnlyPastEnd
<1> QED
  BY <1>2, <1>8, <1>9, <1>10, <1>11, <1>12, <1>13 DEF Decoded

(* The page of an address in the array ends there too.                     *)
LEMMA PageRoom ==
  ASSUME NEW a \in Addr
  PROVE  LET room == PageSize - (a % PageSize)
         IN  /\ room \in Nat /\ room >= 1 /\ PageEnd(a) % AddrSpace = a + room
             /\ a + room <= FlashSize
<1> DEFINE p == PageSize
           q == a \div p
           r == a % p
           k == FlashSize \div p
<1>1. /\ p \in Nat /\ p > 0 /\ a \in Nat /\ a < FlashSize /\ FlashSize \in Nat
      /\ AddrSpace \in Nat /\ FlashSize < AddrSpace /\ FlashSize % p = 0
  BY GeometryAssumption, DeviceAssumption, Widths DEF Addr
<1> HIDE DEF p
<1>2. q \in Nat /\ r \in 0 .. (p - 1) /\ a = q * p + r
  BY <1>1
<1>3. k \in Nat /\ FlashSize = k * p
  BY <1>1
<1>4. PageEnd(a) = q * p + p
  BY DEF PageEnd, p
<1> HIDE DEF q, r, k
<1>5. q * p \in Nat /\ k * p \in Nat
  BY <1>1, <1>2, <1>3
<1>6. k > q
  <2>1. k <= q => k * p <= q * p
    BY <1>1, <1>2, <1>3
  <2> QED  BY <1>1, <1>2, <1>3, <1>5, <2>1
<1>7. q * p + p <= k * p
  BY <1>1, <1>2, <1>3, <1>6
<1>8. PageEnd(a) \in Nat /\ PageEnd(a) <= FlashSize /\ PageEnd(a) = a + (p - r)
      /\ p - r \in Nat /\ p - r >= 1
  BY <1>1, <1>2, <1>3, <1>4, <1>5, <1>7
<1>9. \A x, d \in Nat : x < d => x % d = x
  OBVIOUS
<1>10. PageEnd(a) % AddrSpace = PageEnd(a)
  BY <1>1, <1>8, <1>9
<1> QED  BY <1>8, <1>10 DEF r, p

LEMMA FrameAddrFits ==
  ASSUME frame \in Seq(Cell), AddrBytes < Len(frame)
  PROVE  FrameAddr \in Nat /\ FrameAddr < AddrSpace
<1>1. AddrBytes \in 0 .. AddrBytes /\ AddrBytes + 1 <= Len(frame)
  BY Widths
<1> QED  BY <1>1, AddrPrefixFits DEF FrameAddr

(* The registers after one more address byte.                              *)
LEMMA AddressRegister ==
  ASSUME FrameInv, SclkRise, WholeByte, st = "ADDR"
  PROVE  /\ Received \in 1 .. AddrBytes /\ frame[1] \in {READ, PP, SE} /\ cmd = frame[1]
         /\ addrLeft = AddrBytes + 1 - Received /\ AddrInt = AddrPrefix(frame)[Received]
<1>1. TypeOK /\ BitsInv /\ StateInv /\ AddrInv
  BY DEF FrameInv, Decoded, SpiInv
<1>2. /\ cs /\ Running /\ frame \in Seq(Cell) /\ Received \in Nat
      /\ Received + 1 <= Len(frame) /\ Byte = frame[Received + 1]
  BY <1>1, RiseFacts
<1>3. Received \in 1 .. AddrBytes /\ frame[1] \in {READ, PP, SE} /\ cmd = frame[1]
  BY <1>1, <1>2 DEF StateInv
<1>4. addrLeft = AddrBytes + 1 - Received /\ addrReg = AddrPrefix(frame)[Received - 1]
  BY <1>1, <1>2, <1>3 DEF AddrInv
<1> DEFINE j == Received - 1
<1>5. j \in 0 .. (AddrBytes - 1) /\ j + 2 <= Len(frame) /\ j + 2 = Received + 1
      /\ j + 1 = Received
  BY <1>2, <1>3, Widths
<1>6. (AddrPrefix(frame)[j] * 2 ^ ByteBits + frame[j + 2]) % AddrSpace
        = AddrPrefix(frame)[j + 1]
  <2> HIDE DEF j
  <2> QED  BY <1>2, <1>5, NextAddrByte
<1> QED  BY <1>2, <1>3, <1>4, <1>5, <1>6 DEF AddrInt

(* A byte of the address that is not the last one.                         *)
LEMMA EarlyAddressByteDecoded ==
  ASSUME FrameInv, SclkRise, WholeByte, AddressByte, addrLeft # 1
  PROVE  Decoded'
<1>1. TypeOK /\ BitsInv /\ StateInv /\ OldArrayInv /\ EraseInv
  BY DEF FrameInv, Decoded, SpiInv
<1>2. /\ cs /\ cs' /\ sclk' /\ Running /\ frame' = frame
      /\ FrameAddr' = FrameAddr /\ Received' = Received + 1 /\ rxCnt' = 0 /\ BitsInv'
  BY <1>1, RiseFacts
<1>3. /\ Received \in 1 .. AddrBytes /\ frame[1] \in {READ, PP, SE} /\ cmd = frame[1]
      /\ addrLeft = AddrBytes + 1 - Received /\ AddrInt = AddrPrefix(frame)[Received]
  BY AddressRegister DEF AddressByte
<1>4. /\ st = "ADDR" /\ st' = "ADDR" /\ addrReg' = AddrInt /\ addrLeft' = addrLeft - 1
      /\ UNCHANGED <<cmd, programmed, mem, wel, memAt>>
  BY DEF AddressByte, SclkRise
<1>5. AddrBytes \in Nat /\ Received + 1 <= AddrBytes /\ Received' \in 1 .. AddrBytes
  BY <1>2, <1>3, Widths
<1>6. StateInv'
  BY <1>2, <1>3, <1>4, <1>5, SpiAssumption DEF StateInv
<1>7. AddrInv'
  BY <1>2, <1>3, <1>4, <1>5 DEF AddrInv
<1>8. StreamInv' /\ StatusInv' /\ ReadInv' /\ ProgramInv' /\ AbortsOnlyPastEnd'
  BY <1>4 DEF StreamInv, StatusInv, ReadInv, ProgramInv, AbortsOnlyPastEnd
<1>9. OldArrayInv' /\ EraseInv'
  BY <1>1, <1>2, <1>4, <1>5 DEF OldArrayInv, EraseInv
<1> QED  BY <1>2, <1>6, <1>7, <1>8, <1>9 DEF Decoded

(* The last byte of the address: a read, a program or an erase begins.     *)
LEMMA LastAddressByteDecoded ==
  ASSUME FrameInv, SclkRise, WholeByte, AddressByte, addrLeft = 1
  PROVE  Decoded'
<1>1. TypeOK /\ BitsInv /\ StateInv /\ OldArrayInv
  BY DEF FrameInv, Decoded, SpiInv
<1>2. /\ cs /\ cs' /\ sclk' /\ Running /\ frame' = frame /\ frame \in Seq(Cell)
      /\ FrameAddr' = FrameAddr /\ Room' = Room /\ Received' = Received + 1 /\ rxCnt' = 0
      /\ Received + 1 <= Len(frame) /\ BitsInv'
  BY <1>1, RiseFacts
<1>3. /\ frame[1] \in {READ, PP, SE} /\ cmd = frame[1] /\ Received \in Nat
      /\ Received = AddrBytes /\ AddrInt = FrameAddr
  <2>1. /\ Received \in 1 .. AddrBytes /\ addrLeft = AddrBytes + 1 - Received
        /\ frame[1] \in {READ, PP, SE} /\ cmd = frame[1]
        /\ AddrInt = AddrPrefix(frame)[Received]
    BY AddressRegister DEF AddressByte
  <2> QED  BY <2>1, Widths DEF FrameAddr
<1>4. /\ st = "ADDR" /\ addrReg' = AddrInt /\ addrTmp' = AddrInt
      /\ UNCHANGED <<cmd, programmed, mem, wel, memAt>>
      /\ StartRead \/ StartProgram \/ StartEraseWait
  BY DEF AddressByte, SclkRise
<1>5. /\ AddrBytes \in Nat /\ ByteBits \in Nat /\ Received' = AddrBytes + 1
      /\ ReadAt' = FrameAddr /\ DataBytes' = 0 /\ FrameAddr \in Nat
  BY <1>2, <1>3, Widths, FrameAddrFits DEF ReadAt, DataBytes
<1>6. /\ WREN \notin {RDSR, READ, PP, SE} /\ RDSR \notin {READ, PP, SE}
      /\ READ \notin {PP, SE} /\ PP # SE
  BY SpiAssumption
<1>7. AddrInv' /\ StatusInv'
  BY <1>2, <1>3, <1>4, <1>5 DEF AddrInv, StatusInv
<1>8. programmed = 0 /\ mem = memAt
  BY <1>1, <1>2, <1>4 DEF OldArrayInv
<1>9. OldArrayInv' /\ EraseInv'
  BY <1>2, <1>4, <1>5, <1>8 DEF OldArrayInv, EraseInv
<1>10. CASE StartRead
  <2>1. /\ cmd = READ /\ txIdx' = ByteBits - 1
        /\ IF FrameAddr \in Addr THEN st' = "READ_DATA" ELSE st' = "ABORT"
    BY <1>3, <1>10 DEF StartRead, Abort
  <2>2. StateInv'
    BY <1>2, <1>3, <1>4, <1>5, <1>6, <2>1 DEF StateInv, Running
  <2>3. StreamInv' /\ ReadInv' /\ ProgramInv'
    BY <1>2, <1>3, <1>4, <1>5, <2>1 DEF StreamInv, ReadInv, ProgramInv
  <2>4. AbortsOnlyPastEnd'
    <3> SUFFICES ASSUME FrameAddr \notin Addr
                 PROVE  Sent(READ)' /\ (FrameAddr + ((n - HeaderBits) \div ByteBits) >= FlashSize)'
      BY <2>1 DEF AbortsOnlyPastEnd
    <3>1. n' >= ByteBits /\ (n' - HeaderBits) \div ByteBits = DataBytes'
      <4>1. n' \in Nat
        BY <1>1, <1>2, RiseFacts
      <4> QED  BY <1>5, <4>1, Counts DEF Received, DataBytes
    <3>2. FrameAddr >= FlashSize
      BY <1>5, GeometryAssumption DEF Addr
    <3>3. frame' # <<>> /\ frame'[1] = READ
      BY <1>2, <1>3, <2>1
    <3> QED  BY <1>2, <1>5, <3>1, <3>2, <3>3 DEF Sent, HeaderBits
  <2> QED  BY <1>2, <1>7, <1>9, <2>2, <2>3, <2>4 DEF Decoded
<1>11. CASE StartProgram
  <2>1. cmd = PP /\ st' = "PP_DATA" /\ pageLimit' = PageEnd(FrameAddr) % AddrSpace
    BY <1>3, <1>11 DEF StartProgram
  <2>2. StateInv'
    BY <1>2, <1>3, <1>4, <1>5, <1>6, <2>1 DEF StateInv
  <2>3. StreamInv' /\ ReadInv' /\ AbortsOnlyPastEnd'
    BY <2>1 DEF StreamInv, ReadInv, AbortsOnlyPastEnd
  <2>4. ProgramInv'
    <3> SUFFICES ASSUME FrameAddr \in Addr PROVE ProgramInv'
      BY <1>2 DEF ProgramInv, Addr
    <3>1. Room \in Nat /\ pageLimit' = FrameAddr + Room
      BY <2>1, PageRoom DEF Room
    <3>2. \A x \in Addr : x \notin FrameAddr .. (FrameAddr + 0 - 1)
      BY <1>5
    <3> QED  BY <1>2, <1>3, <1>4, <1>5, <1>8, <3>1, <3>2 DEF ProgramInv
  <2> QED  BY <1>2, <1>7, <1>9, <2>2, <2>3, <2>4 DEF Decoded
<1>12. CASE StartEraseWait
  <2>1. cmd = SE /\ st' = "IGNORE"
    BY <1>12 DEF StartEraseWait
  <2>2. StateInv'
    BY <1>2, <1>3, <1>4, <1>5, <1>6, <2>1 DEF StateInv
  <2>3. StreamInv' /\ ReadInv' /\ ProgramInv' /\ AbortsOnlyPastEnd'
    BY <2>1 DEF StreamInv, ReadInv, ProgramInv, AbortsOnlyPastEnd
  <2> QED  BY <1>2, <1>7, <1>9, <2>2, <2>3 DEF Decoded
<1> QED  BY <1>4, <1>10, <1>11, <1>12

(* A byte that comes in during a read of the array or of the status, or    *)
(* that is ignored.                                                        *)
LEMMA QuietByteDecoded ==
  ASSUME FrameInv, SclkRise, WholeByte, ReadDataByte \/ IgnoredByte
  PROVE  Decoded'
<1>1. /\ TypeOK /\ BitsInv /\ StateInv /\ AddrInv /\ StreamInv /\ ReadInv
      /\ OldArrayInv /\ EraseInv
  BY DEF FrameInv, Decoded, SpiInv
<1>2. /\ cs /\ cs' /\ ~ sclk /\ sclk' /\ Running /\ frame' = frame
      /\ FrameAddr' = FrameAddr /\ Received' = Received + 1 /\ Received \in Nat
      /\ rxCnt = ByteBits - 1 /\ rxCnt' = 0 /\ BitsInv'
  BY <1>1, RiseFacts
<1>3. /\ st \in {"READ_DATA", "RDSR_STREAM", "IGNORE"}
      /\ UNCHANGED <<st, cmd, addrReg, pageLimit, addrLeft, txIdx, programmed, mem, wel, memAt>>
  BY DEF SclkRise, ReadDataByte, IgnoredByte, regs
<1>4. ByteBits \in Nat /\ ByteBits >= 2 /\ AddrBytes \in Nat /\ AddrBytes >= 1
  BY Widths
<1>5. /\ Received > 0
      /\ frame[1] \in {READ, PP, SE} => Received > AddrBytes
  BY <1>1, <1>2, <1>3, <1>4 DEF StateInv
<1>6. StateInv'
  BY <1>1, <1>2, <1>3, <1>4, <1>5 DEF StateInv, Running
<1>7. AddrInv'
  BY <1>1, <1>2, <1>3, <1>4, <1>5 DEF AddrInv
<1>8. StreamInv'
  BY <1>1, <1>2, <1>3, <1>4 DEF StreamInv
<1>9. StatusInv' /\ ProgramInv' /\ AbortsOnlyPastEnd'
  BY <1>2, <1>3 DEF StatusInv, ProgramInv, AbortsOnlyPastEnd
<1>10. ReadInv'
  <2> SUFFICES ASSUME st = "READ_DATA" PROVE ReadInv'
    BY <1>3 DEF ReadInv
  <2>1. txIdx = ByteBits - 1 /\ addrTmp = ReadAt + 1
    BY <1>1, <1>2 DEF StreamInv, ReadInv
  <2>2. addrTmp' = addrTmp
    BY <1>3, <1>4, <2>1 DEF ReadDataByte, IgnoredByte
  <2>3. FrameAddr \in Nat
    <3>1. frame \in Seq(Cell) /\ Received + 1 <= Len(frame)
      BY <1>1, RiseFacts
    <3>2. Received > AddrBytes /\ Len(frame) \in Nat
      BY <1>1, <1>2, <3>1 DEF StateInv
    <3> QED  BY <1>2, <1>4, <3>1, <3>2, FrameAddrFits
  <2>4. ReadAt' = ReadAt + 1
    BY <1>2, <1>4, <2>3 DEF ReadAt
  <2> QED  BY <1>2, <1>4, <2>1, <2>2, <2>4 DEF ReadInv
<1>11. OldArrayInv' /\ EraseInv'
  BY <1>1, <1>2, <1>3 DEF OldArrayInv, EraseInv, Running
<1> QED  BY <1>2, <1>6, <1>7, <1>8, <1>9, <1>10, <1>11 DEF Decoded

(* A byte of data of a program.                                            *)
LEMMA ProgramByteDecoded ==
  ASSUME FrameInv, SclkRise, WholeByte, ProgramByte
  PROVE  Decoded'
<1>1. /\ TypeOK /\ BitsInv /\ StateInv /\ AddrInv /\ ProgramInv /\ EraseInv /\ LatchOff
  BY DEF FrameInv, Decoded, SpiInv
<1>2. /\ cs /\ cs' /\ sclk' /\ Running /\ frame' = frame /\ frame \in Seq(Cell)
      /\ FrameAddr' = FrameAddr /\ Room' = Room /\ Received' = Received + 1 /\ Received \in Nat
      /\ Byte = frame[Received + 1] /\ Received + 1 <= Len(frame) /\ rxCnt' = 0
      /\ n \in Nat /\ n' = n + 1 /\ BitsInv'
  BY <1>1, RiseFacts
<1>3. /\ st = "PP_DATA" /\ st' \in {"PP_DATA", "ABORT"}
      /\ UNCHANGED <<cmd, addrReg, pageLimit, addrLeft, wel, memAt>>
  BY DEF SclkRise, ProgramByte, Abort
<1>4. ByteBits \in Nat /\ ByteBits >= 2 /\ AddrBytes \in Nat /\ AddrBytes >= 1
  BY Widths
<1>5. Received > AddrBytes /\ frame[1] = PP /\ Len(frame) \in Nat
  BY <1>1, <1>2, <1>3 DEF StateInv
<1>6. FrameAddr \in Nat /\ FrameAddr < AddrSpace
  BY <1>2, <1>4, <1>5, FrameAddrFits
<1>7. /\ DataBytes \in Nat /\ DataBytes' = DataBytes + 1
      /\ Received + 1 = AddrBytes + 2 + DataBytes
  BY <1>2, <1>4, <1>5 DEF DataBytes
<1>8. StateInv'
  BY <1>1, <1>2, <1>3, <1>4, <1>5 DEF StateInv, Running
<1>9. AddrInv'
  BY <1>1, <1>2, <1>3, <1>4, <1>5 DEF AddrInv, Running
<1>10. StreamInv' /\ StatusInv' /\ ReadInv' /\ OldArrayInv'
  BY <1>2, <1>3 DEF StreamInv, StatusInv, ReadInv, OldArrayInv, Running
<1>11. EraseInv'
  BY <1>1, <1>2, <1>3 DEF EraseInv
<1>12. CASE FrameAddr \notin Addr
  <2>1. ProgramInv'
    BY <1>2, <1>12 DEF ProgramInv, Addr
  <2>2. AbortsOnlyPastEnd'
    <3>1. FrameAddr >= FlashSize
      BY <1>6, <1>12, GeometryAssumption DEF Addr
    <3>2. n' >= ByteBits
      <4>1. n >= ByteBits <=> Received > 0
        BY <1>2, Counts DEF Received
      <4> QED  BY <1>2, <1>4, <1>5, <4>1
    <3>3. frame # <<>>
      BY <1>2, <1>5
    <3> QED  BY <1>2, <1>5, <3>1, <3>2, <3>3 DEF AbortsOnlyPastEnd, Sent
  <2> QED  BY <1>2, <1>8, <1>9, <1>10, <1>11, <2>1, <2>2 DEF Decoded
<1>13. CASE FrameAddr \in Addr
  <2>1. Room \in Nat /\ Room >= 1 /\ FrameAddr + Room <= FlashSize
    BY <1>13, PageRoom DEF Room
  <2>2. /\ pageLimit = FrameAddr + Room
        /\ programmed = IF ~ wel THEN 0 ELSE IF DataBytes <= Room THEN DataBytes ELSE Room
        /\ addrTmp = FrameAddr + programmed
        /\ \A x \in Addr :
             mem[x] = IF x \in FrameAddr .. (FrameAddr + programmed - 1)
                        THEN BitAnd(memAt[x], frame[AddrBytes + 2 + (x - FrameAddr)])
                        ELSE memAt[x]
    BY <1>1, <1>2, <1>3, <1>13 DEF ProgramInv
  <2>3. FlashSize \in Nat /\ AddrSpace \in Nat /\ FlashSize < AddrSpace
    BY GeometryAssumption, DeviceAssumption, Widths
  <2>4. CASE wel /\ ~ wip /\ addrTmp < pageLimit
    <3>1. programmed = DataBytes /\ programmed < Room
      BY <1>6, <1>7, <2>1, <2>2, <2>4
    <3>2. addrTmp \in Addr
      BY <1>6, <1>7, <2>1, <2>2, <2>3, <3>1 DEF Addr
    <3>3. /\ st' = "PP_DATA" /\ mem' = Programmed(mem, addrTmp, <<Byte>>, 1)
          /\ addrTmp' = (addrTmp + 1) % AddrSpace /\ programmed' = programmed + 1
      BY <1>3, <2>4, <3>2 DEF ProgramByte
    <3>4. addrTmp' = FrameAddr + programmed'
      <4>1. addrTmp + 1 \in Nat /\ addrTmp + 1 < AddrSpace
        BY <1>6, <1>7, <2>1, <2>2, <2>3, <3>1
      <4>2. \A x, d \in Nat : x < d => x % d = x
        OBVIOUS
      <4>3. (addrTmp + 1) % AddrSpace = addrTmp + 1
        BY <2>3, <4>1, <4>2
      <4> QED  BY <1>6, <1>7, <2>2, <3>1, <3>3, <4>3
    <3>5. programmed' = IF DataBytes' <= Room THEN DataBytes' ELSE Room
      BY <1>7, <2>1, <3>1, <3>3
    <3>6. ASSUME NEW x \in Addr
          PROVE  mem'[x] = IF x \in FrameAddr .. (FrameAddr + programmed' - 1)
                             THEN BitAnd(memAt[x], frame[AddrBytes + 2 + (x - FrameAddr)])
                             ELSE memAt[x]
      <4>1. x \in Nat
        BY GeometryAssumption DEF Addr
      <4>2. mem'[x] = IF x \in addrTmp .. (addrTmp + 1 - 1)
                        THEN BitAnd(mem[x], <<Byte>>[x - addrTmp + 1]) ELSE mem[x]
        BY <3>3 DEF Programmed
      <4>3. addrTmp = FrameAddr + DataBytes
        BY <2>2, <3>1
      <4>4. CASE x = addrTmp
        <5>1. /\ x \in addrTmp .. (addrTmp + 1 - 1) /\ x - addrTmp + 1 = 1
              /\ x \notin FrameAddr .. (FrameAddr + programmed - 1)
              /\ x \in FrameAddr .. (FrameAddr + programmed' - 1)
              /\ AddrBytes + 2 + (x - FrameAddr) = Received + 1
          BY <1>4, <1>6, <1>7, <3>1, <3>3, <4>1, <4>3, <4>4
        <5>2. mem[x] = memAt[x]
          BY <2>2, <5>1
        <5>3. mem'[x] = BitAnd(mem[x], Byte)
          BY <4>2, <5>1
        <5> QED  BY <1>2, <5>1, <5>2, <5>3
      <4>5. CASE x # addrTmp
        <5>1. /\ x \notin addrTmp .. (addrTmp + 1 - 1)
              /\ x \in FrameAddr .. (FrameAddr + programmed - 1)
                   <=> x \in FrameAddr .. (FrameAddr + programmed' - 1)
          BY <1>6, <1>7, <3>1, <3>3, <4>1, <4>3, <4>5
        <5>2. mem'[x] = mem[x]
          BY <4>2, <5>1
        <5> QED  BY <2>2, <5>1, <5>2
      <4> QED  BY <4>4, <4>5
    <3>7. ProgramInv'
      BY <1>2, <1>3, <2>2, <2>4, <3>3, <3>4, <3>5, <3>6 DEF ProgramInv
    <3>8. AbortsOnlyPastEnd'
      BY <3>3 DEF AbortsOnlyPastEnd
    <3> QED  BY <1>2, <1>8, <1>9, <1>10, <1>11, <3>7, <3>8 DEF Decoded
  <2>5. CASE ~ (wel /\ ~ wip /\ addrTmp < pageLimit)
    <3>1. UNCHANGED <<st, mem, addrTmp, programmed>>
      BY <2>5 DEF ProgramByte
    <3>2. wel => ~ (addrTmp < pageLimit)
      BY <1>1, <2>5 DEF LatchOff
    <3>3. programmed' = IF ~ wel THEN 0 ELSE IF DataBytes' <= Room THEN DataBytes' ELSE Room
      BY <1>6, <1>7, <2>1, <2>2, <3>1, <3>2
    <3>4. ProgramInv'
      BY <1>2, <1>3, <2>2, <3>1, <3>3 DEF ProgramInv
    <3>5. AbortsOnlyPastEnd'
      BY <1>3, <3>1 DEF AbortsOnlyPastEnd
    <3> QED  BY <1>2, <1>8, <1>9, <1>10, <1>11, <3>4, <3>5 DEF Decoded
  <2> QED  BY <2>4, <2>5
<1> QED  BY <1>12, <1>13

LEMMA SclkRiseDecoded ==
  ASSUME FrameInv, SclkRise
  PROVE  Decoded'
<1>1. CASE PartOfByte
  BY <1>1, PartOfByteDecoded
<1>2. CASE WholeByte
  BY <1>2, CommandByteDecoded, EarlyAddressByteDecoded, LastAddressByteDecoded,
     QuietByteDecoded, ProgramByteDecoded DEF WholeByte
<1> QED  BY <1>1, <1>2 DEF SclkRise

-----------------------------------------------------------------------------
(* SCLK falls.                                                             *)

LEMMA SclkFallDecoded ==
  ASSUME FrameInv, SclkFall
  PROVE  Decoded'
<1>1. /\ TypeOK /\ BitsInv /\ StateInv /\ AddrInv /\ StreamInv /\ ReadInv
      /\ ProgramInv /\ OldArrayInv /\ EraseInv
  BY DEF FrameInv, Decoded, SpiInv
<1>2. /\ cs /\ sclk /\ cs' /\ ~ sclk' /\ Running
      /\ UNCHANGED <<frame, n, rx, rxCnt, cmd, addrReg, addrLeft, pageLimit, programmed,
                     mem, wel, wip, memAt>>
  BY DEF SclkFall, master, timer, history
<1>3. /\ Received' = Received /\ FrameAddr' = FrameAddr /\ Room' = Room
      /\ ReadAt' = ReadAt /\ DataBytes' = DataBytes
  BY <1>2 DEF Received, FrameAddr, Room, ReadAt, DataBytes
<1>4. /\ frame \in Seq(Cell) /\ Len(frame) \in Nat /\ 1 \in 1 .. Len(frame) /\ n \in Nat
      /\ Received \in Nat /\ rxCnt \in 0 .. (ByteBits - 1)
      /\ n = Received * ByteBits + rxCnt
  BY <1>1, <1>2, FrameFacts
<1>5. ByteBits \in Nat /\ ByteBits >= 2 /\ AddrBytes \in Nat /\ AddrBytes >= 1
  BY Widths
<1>6. BitsInv'
  BY <1>1, <1>2, <1>3 DEF BitsInv
<1>7. AddrInv'
  BY <1>1, <1>2, <1>3 DEF AddrInv
<1>8. ASSUME st' = st
      PROVE  StateInv' /\ OldArrayInv' /\ EraseInv' /\ Running' /\ AbortsOnlyPastEnd'
  BY <1>1, <1>2, <1>3, <1>8
     DEF StateInv, OldArrayInv, EraseInv, Running, AbortsOnlyPastEnd
<1>9. CASE OutStatus
  <2>1. /\ st = "RDSR_STREAM" /\ st' = st /\ UNCHANGED addrTmp
        /\ miso' = Level(Status, txIdx)
        /\ txIdx' = IF txIdx = 0 THEN ByteBits - 1 ELSE txIdx - 1
    BY <1>9 DEF OutStatus, StepTx
  <2>2. txIdx = ByteBits - 1 - rxCnt
    BY <1>1, <1>2, <2>1 DEF StreamInv
  <2>3. StreamInv'
    BY <1>2, <1>4, <1>5, <2>1, <2>2 DEF StreamInv
  <2>4. StatusInv'
    <3> SUFFICES ASSUME rxCnt = ByteBits - 1, miso' = "0" PROVE ~ wip
      BY <1>2 DEF StatusInv
    <3>1. Level(Status, 0) = "0"
      BY <1>4, <1>5, <2>1, <2>2
    <3>2. Status \in Nat /\ (wip => Status \in {1, 3})
      BY DEF Status
    <3>3. Bit(Status, 0) = Status % 2
      <4>1. 2 ^ 0 = 1
        BY PowersOfTwo
      <4>2. \A v \in Nat : v \div 1 = v
        OBVIOUS
      <4> QED  BY <3>2, <4>1, <4>2 DEF Bit
    <3>4. Bit(Status, 0) # 1
      BY <3>1 DEF Level
    <3>5. 1 % 2 = 1 /\ 3 % 2 = 1
      OBVIOUS
    <3> QED  BY <3>2, <3>3, <3>4, <3>5
  <2>5. ReadInv' /\ ProgramInv'
    BY <2>1 DEF ReadInv, ProgramInv
  <2> QED  BY <1>6, <1>7, <1>8, <2>1, <2>3, <2>4, <2>5 DEF Decoded
<1>10. CASE OutNothing
  <2>1. st \notin {"RDSR_STREAM", "READ_DATA"} /\ st' = st /\ UNCHANGED addrTmp
    BY <1>10 DEF OutNothing
  <2>2. StreamInv' /\ StatusInv' /\ ReadInv'
    BY <2>1 DEF StreamInv, StatusInv, ReadInv
  <2>3. ProgramInv'
    BY <1>1, <1>2, <1>3, <2>1 DEF ProgramInv, Running
  <2> QED  BY <1>6, <1>7, <1>8, <2>1, <2>2, <2>3 DEF Decoded
<1>11. ASSUME st = "READ_DATA"
       PROVE  /\ txIdx = ByteBits - 1 - rxCnt /\ addrTmp = ReadAt /\ frame[1] = READ
              /\ rxCnt # 0 => ReadAt \in Addr /\ txShift = mem[ReadAt]
              /\ Received > AddrBytes /\ ReadAt \in Nat
  <2>1. /\ txIdx = ByteBits - 1 - rxCnt /\ addrTmp = ReadAt /\ frame[1] = READ
        /\ rxCnt # 0 => ReadAt \in Addr /\ txShift = mem[ReadAt]
        /\ Received > AddrBytes
    BY <1>1, <1>2, <1>11 DEF StreamInv, ReadInv, StateInv
  <2>2. addrTmp \in Nat
    BY <1>1, Widths DEF TypeOK, RegistersOK
  <2> QED  BY <2>1, <2>2
<1>12. CASE OutRead
  <2> DEFINE cur == IF txIdx = ByteBits - 1 THEN mem[addrTmp] ELSE txShift
  <2>1. /\ st = "READ_DATA" /\ st' = st /\ (txIdx = ByteBits - 1 => addrTmp \in Addr)
        /\ txShift' = cur /\ miso' = Level(cur, txIdx)
        /\ addrTmp' = IF txIdx = 0 THEN (addrTmp + 1) % AddrSpace ELSE addrTmp
        /\ txIdx' = IF txIdx = 0 THEN ByteBits - 1 ELSE txIdx - 1
    BY <1>12 DEF OutRead, StepTx
  <2>2. /\ txIdx = ByteBits - 1 - rxCnt /\ addrTmp = ReadAt /\ ReadAt \in Nat
        /\ rxCnt # 0 => ReadAt \in Addr /\ txShift = mem[ReadAt]
    BY <1>11, <2>1
  <2>3. ReadAt \in Addr /\ cur = mem[ReadAt]
    BY <1>4, <1>5, <2>1, <2>2
  <2> HIDE DEF cur
  <2>4. (ReadAt + 1) % AddrSpace = ReadAt + 1
    <3>1. ReadAt + 1 \in Nat /\ ReadAt + 1 < AddrSpace /\ AddrSpace \in Nat
      BY <2>2, <2>3, GeometryAssumption, DeviceAssumption, Widths DEF Addr
    <3>2. \A x, d \in Nat : x < d => x % d = x
      OBVIOUS
    <3> QED  BY <3>1, <3>2
  <2>5. StreamInv'
    BY <1>2, <1>4, <1>5, <2>1, <2>2 DEF StreamInv
  <2>6. ReadInv'
    <3>1. txIdx = 0 <=> rxCnt = ByteBits - 1
      BY <1>4, <1>5, <2>2
    <3>2. addrTmp' = IF rxCnt = ByteBits - 1 THEN ReadAt + 1 ELSE ReadAt
      BY <2>1, <2>2, <2>4, <3>1
    <3>3. txShift' = mem[ReadAt] /\ miso' = Level(mem[ReadAt], ByteBits - 1 - rxCnt)
      BY <2>1, <2>2, <2>3
    <3> QED  BY <1>2, <1>3, <2>3, <3>2, <3>3 DEF ReadInv
  <2>7. StatusInv' /\ ProgramInv'
    BY <2>1 DEF StatusInv, ProgramInv
  <2> QED  BY <1>6, <1>7, <1>8, <2>1, <2>5, <2>6, <2>7 DEF Decoded
<1>13. CASE OutReadPastEnd
  <2>1. st = "READ_DATA" /\ st' = "ABORT" /\ addrTmp \notin Addr
    BY <1>13 DEF OutReadPastEnd, Abort
  <2>2. /\ ReadAt \in Nat /\ ReadAt \notin Addr /\ frame[1] = READ /\ Received > AddrBytes
    BY <1>11, <2>1
  <2>3. ReadAt >= FlashSize
    BY <2>2, GeometryAssumption DEF Addr
  <2>4. /\ n >= ByteBits
        /\ FrameAddr + ((n - HeaderBits) \div ByteBits) = ReadAt
    <3>1. /\ n >= ByteBits <=> Received > 0
          /\ Received > AddrBytes => (n - HeaderBits) \div ByteBits = Received - 1 - AddrBytes
      BY <1>4, Counts DEF Received
    <3> QED  BY <1>4, <1>5, <2>2, <3>1 DEF ReadAt
  <2>5. AbortsOnlyPastEnd'
    <3>1. frame # <<>>
      BY <1>4
    <3>2. n' = n /\ frame' = frame
      BY <1>2
    <3>3. Sent(READ)' /\ (FrameAddr + ((n - HeaderBits) \div ByteBits) >= FlashSize)'
      BY <1>3, <2>2, <2>3, <2>4, <3>1, <3>2 DEF Sent, HeaderBits
    <3> QED  BY <3>3 DEF AbortsOnlyPastEnd
  <2>6. /\ StateInv' /\ AddrInv' /\ StreamInv' /\ StatusInv' /\ ReadInv'
        /\ ProgramInv' /\ OldArrayInv' /\ EraseInv'
    BY <1>2, <2>1 DEF StateInv, AddrInv, StreamInv, StatusInv, ReadInv, ProgramInv,
                      OldArrayInv, EraseInv, Running
  <2> QED  BY <1>6, <2>5, <2>6 DEF Decoded
<1> QED  BY <1>9, <1>10, <1>12, <1>13 DEF SclkFall

-----------------------------------------------------------------------------
(* The other steps.                                                        *)

LEMMA CsFallDecoded ==
  ASSUME FrameInv, CsFall
  PROVE  Decoded'
<1>1. BitsInv /\ OldArrayInv /\ EraseInv /\ Deselected
  BY DEF FrameInv, Decoded, SpiInv
<1>2. /\ Running /\ ~ cs /\ cs' /\ frame' \in Frames /\ n' = 0 /\ rxCnt' = 0 /\ programmed' = 0
      /\ UNCHANGED <<st, rx, cmd, mem, wel, memAt>>
  BY DEF CsFall, regs, history
<1>3. Received' = 0 /\ n' % ByteBits = 0
  <2>1. 0 \div ByteBits = 0 /\ 0 % ByteBits = 0
    BY Widths
  <2> QED  BY <1>2, <2>1 DEF Received
<1>4. st = "IDLE" /\ rx = 0 /\ mem = memAt /\ ~ (cmd = SE /\ wel)
  BY <1>1, <1>2 DEF Deselected, OldArrayInv, EraseInv
<1>5. BitsInv'
  BY <1>2, <1>3, <1>4 DEF BitsInv
<1>6. StateInv'
  BY <1>2, <1>3, <1>4, Widths DEF StateInv
<1>7. /\ AddrInv' /\ StreamInv' /\ StatusInv' /\ ReadInv' /\ ProgramInv' /\ OldArrayInv'
      /\ EraseInv' /\ AbortsOnlyPastEnd'
  BY <1>2, <1>3, <1>4 DEF AddrInv, StreamInv, StatusInv, ReadInv, ProgramInv, OldArrayInv,
                          EraseInv, AbortsOnlyPastEnd
<1> QED  BY <1>5, <1>6, <1>7 DEF Decoded

LEMMA CsRiseDecoded ==
  ASSUME FrameInv, CsRise
  PROVE  Decoded'
<1>1. ~ cs' /\ st' = "IDLE" /\ memAt' = mem' /\ cmd' = cmd
  BY DEF CsRise, regs
<1>2. EraseInv'
  <2>1. wel' = wel \/ ~ wel'
    BY DEF CsRise, EndProgram, EndErase, EndOther
  <2>2. cmd = SE /\ wel => ~ wel'
    BY DEF CsRise, EndProgram, EndErase, EndOther
  <2> QED  BY <1>1, <2>1, <2>2 DEF EraseInv
<1> QED
  BY <1>1, <1>2 DEF Decoded, BitsInv, StateInv, AddrInv, StreamInv, StatusInv, ReadInv,
                    ProgramInv, OldArrayInv, AbortsOnlyPastEnd

LEMMA ResetDecoded == Reset => Decoded'
BY DEF Reset, Decoded, BitsInv, StateInv, AddrInv, StreamInv, StatusInv, ReadInv,
       ProgramInv, OldArrayInv, EraseInv, AbortsOnlyPastEnd

LEMMA ClkEdgeDecoded ==
  ASSUME FrameInv, ClkEdge
  PROVE  Decoded'
<1>1. Decoded /\ GapKept
  BY DEF FrameInv, SpiInv
<1>2. UNCHANGED <<cs, sclk, miso, frame, n, st, rx, rxCnt, addrLeft, cmd, addrReg, addrTmp,
                  pageLimit, txShift, txIdx, programmed, mem, wel, memAt>>
  BY DEF ClkEdge, master, regs, history
<1>3. cs => (wip' => wip)
  BY <1>1 DEF ClkEdge, BusyStart, BusyCount, GapKept
<1>4. StatusInv'
  BY <1>1, <1>2, <1>3 DEF Decoded, StatusInv, Running
<1>5. /\ Received' = Received /\ FrameAddr' = FrameAddr /\ Room' = Room
      /\ ReadAt' = ReadAt /\ DataBytes' = DataBytes /\ Running' = Running
  BY <1>2 DEF Received, FrameAddr, Room, ReadAt, DataBytes, Running
<1>6. BitsInv' /\ StateInv' /\ AddrInv' /\ StreamInv' /\ ReadInv'
  BY <1>1, <1>2, <1>5 DEF Decoded, BitsInv, StateInv, AddrInv, StreamInv, ReadInv
<1>7. ProgramInv' /\ OldArrayInv' /\ EraseInv' /\ AbortsOnlyPastEnd'
  BY <1>1, <1>2, <1>5
     DEF Decoded, ProgramInv, OldArrayInv, EraseInv, AbortsOnlyPastEnd, Sent
<1> QED  BY <1>4, <1>6, <1>7 DEF Decoded

LEMMA DecodedInit == Init => Decoded
BY DEF Init, Decoded, BitsInv, StateInv, AddrInv, StreamInv, StatusInv, ReadInv,
       ProgramInv, OldArrayInv, EraseInv, AbortsOnlyPastEnd

LEMMA FrameInvStep == FrameInv /\ [Next]_vars => FrameInv'
<1> SUFFICES ASSUME FrameInv, [Next]_vars PROVE FrameInv'
  OBVIOUS
<1>1. SpiInv'
  BY SpiInvStep DEF FrameInv
<1>2. CASE Next
  <2>1. Decoded'
    BY <1>2, ClkEdgeDecoded, SclkRiseDecoded, SclkFallDecoded, CsFallDecoded, CsRiseDecoded,
       ResetDecoded DEF Next, SpiEdge
  <2> QED  BY <1>1, <2>1 DEF FrameInv
<1>3. CASE UNCHANGED vars
  <2>1. /\ UNCHANGED <<cs, sclk, miso, frame, n, st, rx, rxCnt, addrLeft, cmd, addrReg,
                       addrTmp, pageLimit, txShift, txIdx, programmed, mem, wel, wip, memAt>>
    BY <1>3 DEF vars, master, regs, timer, history
  <2>2. /\ Received' = Received /\ FrameAddr' = FrameAddr /\ Room' = Room
        /\ ReadAt' = ReadAt /\ DataBytes' = DataBytes /\ Running' = Running
    BY <2>1 DEF Received, FrameAddr, Room, ReadAt, DataBytes, Running
  <2>3. BitsInv' /\ StateInv' /\ AddrInv' /\ StreamInv' /\ ReadInv' /\ StatusInv'
    BY <2>1, <2>2
       DEF FrameInv, Decoded, BitsInv, StateInv, AddrInv, StreamInv, ReadInv, StatusInv
  <2>4. ProgramInv' /\ OldArrayInv' /\ EraseInv' /\ AbortsOnlyPastEnd'
    BY <2>1, <2>2
       DEF FrameInv, Decoded, ProgramInv, OldArrayInv, EraseInv, AbortsOnlyPastEnd, Sent
  <2> QED  BY <1>1, <2>3, <2>4 DEF FrameInv, Decoded
<1> QED  BY <1>2, <1>3

(* At every moment the registers are what the bits sent so far make of     *)
(* them, whatever the frame and wherever the transaction stands.           *)
THEOREM FrameInvariant == Spec => []FrameInv
<1>1. Init => FrameInv
  BY SpiInvInit, DecodedInit DEF FrameInv
<1>2. FrameInv /\ [Next]_vars => FrameInv'
  BY FrameInvStep
<1> QED  BY <1>1, <1>2, PTL DEF Spec

-----------------------------------------------------------------------------
(* The properties.                                                         *)

(* The device model stops only for a master that reads up to the end of    *)
(* the array or beyond, or programs beyond it (spi_flash.vhd:35, an index  *)
(* out of the range of mem).                                               *)
THEOREM AbortsPastEnd == Spec => []AbortsOnlyPastEnd
<1>1. FrameInv => AbortsOnlyPastEnd
  BY DEF FrameInv, Decoded
<1> QED  BY <1>1, FrameInvariant, PTL

LEMMA ReadyStep == FrameInv /\ [Next]_vars =>
  [SclkRise /\ Sent(RDSR) /\ (n' % ByteBits = 0) /\ miso = "0" => ~ wip /\ ~ StartPending]_vars
<1> SUFFICES ASSUME FrameInv, SclkRise, Sent(RDSR), n' % ByteBits = 0, miso = "0"
             PROVE  ~ wip /\ ~ StartPending
  OBVIOUS
<1>1. TypeOK /\ BitsInv /\ StateInv /\ StatusInv /\ GapKept
  BY DEF FrameInv, Decoded, SpiInv
<1>2. cs /\ ~ sclk /\ Running /\ n \in Nat /\ n' = n + 1
  BY <1>1, RiseFacts
<1>3. Received > 0 /\ frame[1] = RDSR
  BY <1>2, Counts DEF Sent, Received
<1>4. st = "RDSR_STREAM"
  BY <1>1, <1>2, <1>3 DEF StateInv
<1>5. rxCnt = ByteBits - 1
  <2>1. rxCnt = n % ByteBits /\ rxCnt \in 0 .. (ByteBits - 1) /\ ByteBits \in Nat
    BY <1>1, <1>2, Widths DEF BitsInv, TypeOK, RegistersOK
  <2>2. rxCnt < ByteBits - 1 => (n + 1) % ByteBits = rxCnt + 1
    BY <1>2, <2>1, NextBit
  <2> QED  BY <1>2, <2>1, <2>2
<1> QED  BY <1>1, <1>2, <1>4, <1>5 DEF StatusInv, GapKept

(* A master that sees the ready bit finds the device idle: between the     *)
(* edge that puts the bit out and the edge it is sampled at no busy period *)
(* begins (spi_flash.vhd:176-181 and the strobes of lines 131-149).        *)
THEOREM ReadyIsIdle == Spec => ReadyMeansIdle
<1>1. FrameInv /\ [Next]_vars =>
        [SclkRise /\ Sent(RDSR) /\ (n' % ByteBits = 0) /\ miso = "0"
           => ~ wip /\ ~ StartPending]_vars
  BY ReadyStep
<1> QED  BY <1>1, FrameInvariant, PTL DEF Spec, ReadyMeansIdle

LEMMA StreamStep == FrameInv /\ [Next]_vars =>
  [SclkRise /\ SentWithAddr(READ) => miso = MemBit(n' - HeaderBits)]_vars
<1> SUFFICES ASSUME FrameInv, SclkRise, SentWithAddr(READ)
             PROVE  miso = MemBit(n' - HeaderBits)
  OBVIOUS
<1>1. TypeOK /\ BitsInv /\ StateInv /\ ReadInv
  BY DEF FrameInv, Decoded, SpiInv
<1>2. cs /\ ~ sclk /\ Running /\ n \in Nat /\ n' = n + 1
  BY <1>1, RiseFacts
<1>3. Received > AddrBytes /\ frame[1] = READ /\ n >= HeaderBits
  BY <1>2, Counts DEF SentWithAddr, Sent, Received
<1>4. st = "READ_DATA"
  BY <1>1, <1>2, <1>3 DEF StateInv
<1>5. miso = Level(mem[ReadAt], ByteBits - 1 - rxCnt)
  BY <1>1, <1>2, <1>4 DEF ReadInv
<1>6. HeaderBits \in Nat
  BY Widths DEF HeaderBits
<1>7. (n' - HeaderBits) - 1 = n - HeaderBits
  BY <1>2, <1>6
<1>8. /\ (n - HeaderBits) \div ByteBits = Received - 1 - AddrBytes
      /\ (n - HeaderBits) % ByteBits = rxCnt
  BY <1>1, <1>2, <1>3, Counts DEF Received, BitsInv
<1> QED  BY <1>5, <1>7, <1>8 DEF MemBit, ReadAt

(* A read streams the array from its address on: every bit the master      *)
(* samples is the bit of the array its number says, from the first edge    *)
(* after the address on (spi_flash.vhd:182-200).                           *)
THEOREM ReadsStreamArray == Spec => ReadStreams
<1>1. FrameInv /\ [Next]_vars =>
        [SclkRise /\ SentWithAddr(READ) => miso = MemBit(n' - HeaderBits)]_vars
  BY StreamStep
<1> QED  BY <1>1, FrameInvariant, PTL DEF Spec, ReadStreams

-----------------------------------------------------------------------------
(* A transaction, and the C simulation's command.                          *)

LEMMA SmallerOfTwo ==
  ASSUME NEW a \in Int, NEW b \in Int
  PROVE  Min({a, b}) = IF a <= b THEN a ELSE b
<1>1. \E x \in {a, b} : \A y \in {a, b} : x <= y
  <2>1. CASE a <= b
    BY <2>1
  <2>2. CASE b <= a
    BY <2>2
  <2> QED  BY <2>1, <2>2
<1>2. Min({a, b}) \in {a, b} /\ Min({a, b}) <= a /\ Min({a, b}) <= b
  BY <1>1 DEF Min
<1> QED  BY <1>2

(* The device before the command, as the simulation has it.                *)
Simulated == [mem |-> memAt, wip |-> wip, wel |-> wel, busy |-> busyCnt]

(* The simulated command leaves the device that CS rising leaves.          *)
Leaves(d) == mem' = d.mem /\ wel' = d.wel /\ (wip' \/ StartPending') = d.wip

(* What the counts of a judged transaction say of its frame.               *)
LEMMA JudgedFacts ==
  ASSUME FrameInv, CsRise
  PROVE  /\ cs /\ Running /\ UNCHANGED wip /\ ~ StartPending /\ (wel => ~ wip)
         /\ wel \in BOOLEAN /\ wip \in BOOLEAN
         /\ frame \in Seq(Cell) /\ Received \in Nat /\ Received <= Len(frame)
         /\ frame # <<>> /\ Len(frame) \in Nat
         /\ \A c \in Cell : /\ Sent(c) <=> frame[1] = c /\ Received > 0
                            /\ SentWithAddr(c) <=> frame[1] = c /\ Received > AddrBytes
<1>1. TypeOK /\ BitsInv /\ LatchOff /\ GapKept
  BY DEF FrameInv, Decoded, SpiInv
<1>2. cs /\ Running /\ UNCHANGED wip
  BY DEF CsRise
<1>3. ~ StartPending /\ (wel => ~ wip) /\ wel \in BOOLEAN /\ wip \in BOOLEAN
  BY <1>1, <1>2 DEF LatchOff, GapKept, TypeOK, DeviceOK
<1>4. /\ frame \in Seq(Cell) /\ Len(frame) \in Nat /\ 1 \in 1 .. Len(frame)
      /\ n \in Nat /\ Received \in Nat /\ rxCnt \in 0 .. (ByteBits - 1)
      /\ n = Received * ByteBits + rxCnt
  BY <1>1, <1>2, FrameFacts
<1>5. Received <= Len(frame)
  <2>1. n <= Len(frame) * ByteBits
    BY <1>1, <1>4, Widths DEF TypeOK, WiresOK
  <2>2. ASSUME Received >= Len(frame) + 1 PROVE FALSE
    <3>1. Received * ByteBits >= Len(frame) * ByteBits + ByteBits
      BY <1>4, <2>2, Widths
    <3>2. Len(frame) * ByteBits \in Nat /\ Received * ByteBits \in Nat
      BY <1>4, Widths
    <3> QED  BY <1>4, <2>1, <3>1, <3>2, Widths
  <2> QED  BY <1>4, <2>2
<1>6. frame # <<>>
  BY <1>4
<1>7. /\ n >= ByteBits <=> Received > 0
      /\ n >= HeaderBits <=> Received > AddrBytes
  BY <1>4, Counts DEF Received
<1>8. ASSUME NEW c \in Cell
      PROVE  /\ Sent(c) <=> frame[1] = c /\ Received > 0
             /\ SentWithAddr(c) <=> frame[1] = c /\ Received > AddrBytes
  <2>1. Sent(c) <=> frame[1] = c /\ Received > 0
    BY <1>6, <1>7 DEF Sent
  <2> QED  BY <1>4, <1>7, <2>1, Widths DEF SentWithAddr
<1> QED  BY <1>2, <1>3, <1>4, <1>5, <1>6, <1>8

(* A program: the cells the simulation programs at once are those that     *)
(* were programmed byte by byte, and the latch decides the same way.       *)
LEMMA ProgramAsSimulated ==
  ASSUME FrameInv, CsRise, frame[1] = PP, Received > AddrBytes, FrameAddr \in Addr
  PROVE  Leaves(PageProgram(Simulated, FrameAddr, SubSeq(frame, 2 + AddrBytes, Received)))
<1> DEFINE cells == SubSeq(frame, 2 + AddrBytes, Received)
           result == PageProgram(Simulated, FrameAddr, cells)
<1>1. /\ cs /\ Running /\ UNCHANGED wip /\ ~ StartPending /\ (wel => ~ wip)
      /\ wel \in BOOLEAN /\ wip \in BOOLEAN
      /\ frame \in Seq(Cell) /\ Received \in Nat /\ Received <= Len(frame) /\ Len(frame) \in Nat
  BY JudgedFacts
<1>2. TypeOK /\ StateInv /\ ProgramInv
  BY DEF FrameInv, Decoded, SpiInv
<1>3. AddrBytes \in Nat /\ AddrBytes >= 1 /\ PP # SE
  BY Widths, SpiAssumption
<1>4. st = "PP_DATA" /\ cmd = PP
  BY <1>1, <1>2, <1>3 DEF StateInv
<1>5. /\ programmed = IF ~ wel THEN 0 ELSE IF DataBytes <= Room THEN DataBytes ELSE Room
      /\ \A x \in Addr :
           mem[x] = IF x \in FrameAddr .. (FrameAddr + programmed - 1)
                      THEN BitAnd(memAt[x], frame[AddrBytes + 2 + (x - FrameAddr)])
                      ELSE memAt[x]
  BY <1>1, <1>2, <1>4 DEF ProgramInv
<1>6. DataBytes \in Nat /\ Room \in Nat /\ Room >= 1 /\ FrameAddr \in Nat /\ FrameAddr < FlashSize
  BY <1>1, <1>3, PageRoom, GeometryAssumption DEF DataBytes, Room, Addr
<1>7. /\ Len(cells) = DataBytes
      /\ \A i \in 1 .. DataBytes : cells[i] = frame[AddrBytes + 1 + i]
      /\ cells # <<>> <=> DataBytes > 0
  <2>1. Len(cells) = DataBytes
    BY <1>1, <1>3 DEF DataBytes
  <2>2. \A i \in 1 .. DataBytes : cells[i] = frame[AddrBytes + 1 + i]
    BY <1>1, <1>3 DEF DataBytes
  <2>3. cells \in Seq(Cell)
    BY <1>1, <1>3
  <2> HIDE DEF cells
  <2>4. cells # <<>> <=> Len(cells) > 0
    BY <2>3
  <2> QED  BY <2>1, <2>2, <2>4
<1> HIDE DEF cells
<1>8. mem \in [Addr -> Cell] /\ memAt \in [Addr -> Cell]
  BY <1>2 DEF TypeOK, DeviceOK
<1>9. Simulated.mem = memAt /\ Simulated.wip = wip /\ Simulated.wel = wel
  BY DEF Simulated
<1>10. CASE wel /\ programmed > 0
  <2>1. /\ DataBytes > 0 /\ programmed \in Nat /\ programmed <= DataBytes
        /\ programmed = IF DataBytes <= Room THEN DataBytes ELSE Room
    BY <1>5, <1>6, <1>10
  <2>2. Min({Len(cells), PageSize - (FrameAddr % PageSize)}) = programmed
    <3>1. Min({DataBytes, Room}) = IF DataBytes <= Room THEN DataBytes ELSE Room
      BY <1>6, SmallerOfTwo
    <3> QED  BY <1>7, <2>1, <3>1 DEF Room
  <2>3. Accepts(Simulated, FrameAddr) /\ cells # <<>>
    BY <1>1, <1>6, <1>7, <1>9, <1>10, <2>1 DEF Accepts
  <2>4. result = StartBusy(Simulated, Programmed(memAt, FrameAddr, cells, programmed), ProgTicks)
    BY <1>9, <2>2, <2>3 DEF PageProgram
  <2>5. Programmed(memAt, FrameAddr, cells, programmed) = mem
    <3>1. ASSUME NEW x \in Addr
          PROVE  mem[x] = IF x \in FrameAddr .. (FrameAddr + programmed - 1)
                            THEN BitAnd(memAt[x], cells[x - FrameAddr + 1])
                            ELSE memAt[x]
      <4>1. x \in Int
        BY GeometryAssumption DEF Addr
      <4>2. CASE x \in FrameAddr .. (FrameAddr + programmed - 1)
        <5>1. x - FrameAddr + 1 \in 1 .. DataBytes
          BY <1>6, <2>1, <4>1, <4>2
        <5>2. cells[x - FrameAddr + 1] = frame[AddrBytes + 1 + (x - FrameAddr + 1)]
          BY <1>7, <5>1
        <5>3. AddrBytes + 1 + (x - FrameAddr + 1) = AddrBytes + 2 + (x - FrameAddr)
          BY <1>3, <1>6, <4>1
        <5> QED  BY <1>5, <4>2, <5>2, <5>3
      <4> QED  BY <1>5, <4>2
    <3> QED  BY <1>8, <3>1 DEF Programmed
  <2>6. result.mem = mem /\ result.wel = FALSE /\ result.wip = TRUE
    <3> HIDE DEF result
    <3> QED  BY <2>4, <2>5 DEF StartBusy, Simulated
  <2>7. EndProgram
    BY <1>3, <1>4, <1>10 DEF CsRise, EndErase, EndOther
  <2>8. mem' = mem /\ wel' = FALSE /\ startProg' = ~ wip /\ ~ wip
    BY <1>1, <1>10, <2>7 DEF EndProgram
  <2>9. (wip' \/ StartPending') = TRUE
    BY <2>8 DEF StartPending
  <2> HIDE DEF result
  <2>10. Leaves(result)
    BY <2>6, <2>8, <2>9 DEF Leaves
  <2> QED  BY <2>10 DEF result, cells
<1>11. CASE ~ (wel /\ programmed > 0)
  <2>1. EndOther
    BY <1>3, <1>4, <1>11 DEF CsRise, EndProgram, EndErase
  <2>2. programmed = 0
    BY <1>5, <1>6, <1>11
  <2>3. ~ wel \/ cells = <<>>
    BY <1>5, <1>6, <1>7, <1>11
  <2>4. result = Simulated
    BY <1>9, <2>3 DEF PageProgram, Accepts
  <2>5. mem = memAt
    <3>1. \A x \in Addr : mem[x] = memAt[x]
      BY <1>5, <1>6, <2>2
    <3> QED  BY <1>8, <3>1
  <2>6. UNCHANGED <<mem, wel, startProg, startErase>>
    BY <2>1 DEF EndOther, strobe
  <2>7. (wip' \/ StartPending') = wip
    BY <1>1, <2>6 DEF StartPending
  <2> HIDE DEF result
  <2>8. Leaves(result)
    BY <1>9, <2>4, <2>5, <2>6, <2>7 DEF Leaves
  <2> QED  BY <2>8 DEF result, cells
<1> QED  BY <1>10, <1>11

(* An erase, of the sector of the address bytes that came.                 *)
LEMMA EraseAsSimulated ==
  ASSUME FrameInv, CsRise, frame[1] = SE, Received > 0, EraseAddr \in Addr
  PROVE  Leaves(EraseSector(Simulated, EraseAddr))
<1> DEFINE result == EraseSector(Simulated, EraseAddr)
<1>1. /\ cs /\ Running /\ UNCHANGED wip /\ ~ StartPending /\ (wel => ~ wip)
      /\ wel \in BOOLEAN /\ wip \in BOOLEAN /\ Received \in Nat
  BY JudgedFacts
<1>2. StateInv /\ AddrInv /\ OldArrayInv
  BY DEF FrameInv, Decoded
<1>3. AddrBytes \in Nat /\ AddrBytes >= 1 /\ PP # SE
  BY Widths, SpiAssumption
<1>4. st # "PP_DATA" /\ cmd = SE /\ addrReg = EraseAddr /\ mem = memAt
  <2>1. st # "PP_DATA" /\ cmd = SE /\ mem = memAt
    BY <1>1, <1>2, <1>3 DEF StateInv, OldArrayInv
  <2>2. addrReg = IF Received <= AddrBytes THEN AddrPrefix(frame)[Received - 1] ELSE FrameAddr
    BY <1>1, <1>2 DEF AddrInv
  <2>3. Min({Received - 1, AddrBytes}) = IF Received - 1 <= AddrBytes THEN Received - 1 ELSE AddrBytes
    BY <1>1, <1>3, SmallerOfTwo
  <2>4. EraseAddr = AddrPrefix(frame)[Min({Received - 1, AddrBytes})]
    BY DEF EraseAddr, Received
  <2> HIDE DEF Received
  <2>5. CASE Received <= AddrBytes
    BY <1>1, <1>3, <2>1, <2>2, <2>3, <2>4, <2>5
  <2>6. CASE ~ (Received <= AddrBytes)
    <3>1. Min({Received - 1, AddrBytes}) = AddrBytes
      BY <1>1, <1>3, <2>3, <2>6
    <3> QED  BY <2>1, <2>2, <2>4, <2>6, <3>1 DEF FrameAddr
  <2> QED  BY <2>5, <2>6
<1>5. Simulated.mem = memAt /\ Simulated.wip = wip /\ Simulated.wel = wel
  BY DEF Simulated
<1>6. EraseAddr < FlashSize
  BY GeometryAssumption DEF Addr
<1>7. CASE wel
  <2>1. EndErase
    BY <1>3, <1>4, <1>7 DEF CsRise, EndProgram, EndOther
  <2>2. result = StartBusy(Simulated, Erased(memAt, EraseAddr, SectorSize), EraseTicks)
    BY <1>1, <1>5, <1>6, <1>7 DEF EraseSector, Accepts
  <2> HIDE DEF result
  <2>3. result.mem = Erased(memAt, EraseAddr, SectorSize) /\ result.wel = FALSE
        /\ result.wip = TRUE
    BY <2>2 DEF StartBusy, Simulated
  <2>4. mem' = Erased(memAt, EraseAddr, SectorSize) /\ wel' = FALSE /\ startErase'
    BY <1>1, <1>4, <1>7, <2>1 DEF EndErase
  <2>5. (wip' \/ StartPending') = TRUE
    BY <2>4 DEF StartPending
  <2>6. Leaves(result)
    BY <2>3, <2>4, <2>5 DEF Leaves
  <2> QED  BY <2>6 DEF result
<1>8. CASE ~ wel
  <2>1. EndOther
    BY <1>8 DEF CsRise, EndProgram, EndErase
  <2>2. result = Simulated
    BY <1>5, <1>8 DEF EraseSector, Accepts
  <2>3. UNCHANGED <<mem, wel, startProg, startErase>>
    BY <2>1 DEF EndOther, strobe
  <2>4. (wip' \/ StartPending') = wip
    BY <1>1, <2>3 DEF StartPending
  <2> HIDE DEF result
  <2>5. Leaves(result)
    BY <1>4, <1>5, <2>2, <2>3, <2>4 DEF Leaves
  <2> QED  BY <2>5 DEF result
<1> QED  BY <1>7, <1>8

(* A transaction that is neither changes nothing when CS rises.            *)
LEMMA OtherChangesNothing ==
  ASSUME FrameInv, CsRise, ~ SentWithAddr(PP), ~ Sent(SE)
  PROVE  mem' = memAt /\ wel' = wel /\ (wip' \/ StartPending') = wip
<1>1. /\ cs /\ Running /\ UNCHANGED wip /\ ~ StartPending
      /\ wel \in BOOLEAN /\ wip \in BOOLEAN /\ Received \in Nat
      /\ \A c \in Cell : /\ Sent(c) <=> frame[1] = c /\ Received > 0
                         /\ SentWithAddr(c) <=> frame[1] = c /\ Received > AddrBytes
  BY JudgedFacts
<1>2. StateInv /\ OldArrayInv /\ EraseInv
  BY DEF FrameInv, Decoded
<1>3. PP \in Cell /\ SE \in Cell
  BY SpiAssumption
<1>4. st # "PP_DATA"
  BY <1>1, <1>2, <1>3 DEF StateInv
<1>5. programmed = 0 /\ mem = memAt
  BY <1>1, <1>2, <1>4 DEF OldArrayInv
<1>6. ~ (cmd = SE /\ wel)
  BY <1>1, <1>2, <1>3 DEF EraseInv, StateInv
<1>7. EndOther
  BY <1>5, <1>6 DEF CsRise, EndProgram, EndErase
<1>8. UNCHANGED <<mem, wel, startProg, startErase>>
  BY <1>7 DEF EndOther, strobe
<1>9. (wip' \/ StartPending') = wip
  BY <1>1, <1>8 DEF StartPending
<1> QED  BY <1>5, <1>8, <1>9

(* The latch is what it was when CS fell, or what the WREN found busy.     *)
LatchInv ==
  Running => wel = IF cs /\ Received > 0 /\ frame[1] = WREN THEN ~ wipAt ELSE welAt

LEMMA RiseLatch ==
  ASSUME FrameInv, LatchInv, SclkRise
  PROVE  LatchInv'
<1>1. TypeOK /\ BitsInv /\ StateInv /\ LatchOff
  BY DEF FrameInv, Decoded, SpiInv
<1>2. /\ cs /\ cs' /\ Running /\ frame' = frame /\ Received \in Nat /\ welAt' = welAt
      /\ PartOfByte => Received' = Received /\ rxCnt < ByteBits - 1
      /\ WholeByte => /\ Received' = Received + 1 /\ rxCnt = ByteBits - 1
                      /\ Byte = frame[Received + 1]
      /\ wipAt' = IF st = "IDLE" /\ rxCnt = ByteBits - 1 THEN wip ELSE wipAt
  BY <1>1, RiseFacts DEF SclkRise
<1>3. wel \in BOOLEAN /\ wip \in BOOLEAN /\ rxCnt \in Int /\ ByteBits \in Nat
  BY <1>1, Widths DEF TypeOK, DeviceOK, RegistersOK
<1>4. wel = IF Received > 0 /\ frame[1] = WREN THEN ~ wipAt ELSE welAt
  BY <1>2 DEF LatchInv
<1>5. CASE PartOfByte
  <2>1. wel' = wel /\ wipAt' = wipAt /\ Received' = Received
    BY <1>2, <1>3, <1>5 DEF PartOfByte
  <2> QED  BY <1>2, <1>4, <2>1 DEF LatchInv
<1>6. CASE WholeByte /\ Received = 0
  <2>1. st = "IDLE" /\ wipAt' = wip /\ Received' = 1 /\ Byte = frame[1]
    BY <1>1, <1>2, <1>6 DEF StateInv
  <2>2. CommandByte
    BY <1>6, <2>1 DEF WholeByte, AddressByte, ReadDataByte, ProgramByte, IgnoredByte
  <2>3. CASE frame[1] = WREN
    <3>1. wel' = (wel \/ ~ wip)
      BY <2>1, <2>2, <2>3, SpiAssumption
         DEF CommandByte, WrenByte, RdsrByte, AddressedByte, OtherByte
    <3>2. wel => ~ wip
      BY <1>1 DEF LatchOff
    <3>3. wel' = ~ wipAt'
      BY <1>3, <2>1, <3>1, <3>2
    <3> QED  BY <1>2, <2>1, <2>3, <3>3 DEF LatchInv
  <2>4. CASE frame[1] # WREN
    <3>1. wel' = wel
      BY <2>1, <2>2, <2>4 DEF CommandByte, WrenByte, RdsrByte, AddressedByte, OtherByte
    <3> QED  BY <1>2, <1>4, <2>4, <3>1 DEF LatchInv
  <2> QED  BY <2>3, <2>4
<1>7. CASE WholeByte /\ Received > 0
  <2>1. st # "IDLE"
    BY <1>1, <1>2, <1>7 DEF StateInv
  <2>2. wel' = wel /\ wipAt' = wipAt /\ Received' > 0
    BY <1>2, <1>7, <2>1
       DEF WholeByte, CommandByte, AddressByte, ReadDataByte, ProgramByte, IgnoredByte
  <2> QED  BY <1>2, <1>4, <1>7, <2>2 DEF LatchInv
<1> QED  BY <1>2, <1>5, <1>6, <1>7 DEF SclkRise

LEMMA LatchStep ==
  ASSUME FrameInv, LatchInv, [Next]_vars
  PROVE  LatchInv'
<1>1. CASE SclkRise
  BY <1>1, RiseLatch
<1>2. CASE ClkEdge \/ SclkFall \/ UNCHANGED vars
  <2>1. UNCHANGED <<cs, frame, n, wel, welAt, wipAt>> /\ (Running' => Running)
    BY <1>2 DEF ClkEdge, SclkFall, vars, master, history, Running
  <2>2. Received' = Received
    BY <2>1 DEF Received
  <2> QED  BY <2>1, <2>2 DEF LatchInv
<1>3. CASE CsFall
  <2>1. ~ cs /\ Running /\ n' = 0 /\ UNCHANGED <<wel, welAt>>
    BY <1>3 DEF CsFall, history
  <2>2. ~ (Received' > 0)
    <3>1. 0 \div ByteBits = 0
      BY Widths
    <3> QED  BY <2>1, <3>1 DEF Received
  <2> QED  BY <2>1, <2>2 DEF LatchInv
<1>4. CASE CsRise \/ Reset
  <2>1. ~ cs' /\ welAt' = wel'
    BY <1>4 DEF CsRise, Reset
  <2> QED  BY <2>1 DEF LatchInv
<1> QED  BY <1>1, <1>2, <1>3, <1>4 DEF Next, SpiEdge

LEMMA LatchInvariant == Spec => [](FrameInv /\ LatchInv)
<1>1. Init => LatchInv
  BY DEF Init, LatchInv
<1>2. FrameInv /\ LatchInv /\ [Next]_vars => LatchInv'
  BY LatchStep
<1> QED  BY <1>1, <1>2, FrameInvariant, PTL DEF Spec

(* The device is what the simulation is given, and no WREN has come; or    *)
(* one has, and the latch says whether it was refused.                     *)
LEMMA SimulatedStep == FrameInv /\ LatchInv /\ [Next]_vars =>
  [CsRise /\ Judged
     => SameArray /\ wel' = (AsSimulated.wel /\ ~ (Sent(WREN) /\ wipAt))]_vars
<1> SUFFICES ASSUME FrameInv, LatchInv, CsRise, Judged
             PROVE  SameArray /\ wel' = (AsSimulated.wel /\ ~ (Sent(WREN) /\ wipAt))
  OBVIOUS
<1>1. /\ cs /\ Running
      /\ \A c \in Cell : /\ Sent(c) <=> frame[1] = c /\ Received > 0
                         /\ SentWithAddr(c) <=> frame[1] = c /\ Received > AddrBytes
  BY JudgedFacts
<1>2. /\ PP \in Cell /\ SE \in Cell /\ WREN \in Cell
      /\ PP # SE /\ WREN # PP /\ WREN # SE /\ AddrBytes \in Nat
  BY SpiAssumption
<1>3. Received \in Nat
  BY JudgedFacts
<1>4. wel = IF Sent(WREN) THEN ~ wipAt ELSE welAt
  BY <1>1, <1>2 DEF LatchInv
<1>5. ASSUME ~ Sent(WREN), Leaves(AsSimulated)
      PROVE  SameArray /\ wel' = (AsSimulated.wel /\ ~ (Sent(WREN) /\ wipAt))
  <2>1. AsSimulated.wel \in BOOLEAN
    <3>1. wel' \in BOOLEAN
      BY SpiInvStep DEF FrameInv, SpiInv, TypeOK, DeviceOK, Next, SpiEdge
    <3> QED  BY <1>5, <3>1 DEF Leaves
  <2> QED  BY <1>5, <2>1 DEF Leaves, SameArray
<1>6. CASE SentWithAddr(PP)
  <2>1. frame[1] = PP /\ Received > AddrBytes /\ FrameAddr \in Addr
        /\ ~ Sent(WREN) /\ ~ Sent(SE)
    BY <1>1, <1>2, <1>6 DEF Judged
  <2>2. AsSimulated = PageProgram(Simulated, FrameAddr, SubSeq(frame, 2 + AddrBytes, Received))
    BY <1>4, <1>6, <2>1 DEF AsSimulated, Simulated, Received
  <2> QED  BY <1>5, <2>1, <2>2, ProgramAsSimulated
<1>7. CASE Sent(SE)
  <2>1. frame[1] = SE /\ Received > 0 /\ EraseAddr \in Addr
        /\ ~ Sent(WREN) /\ ~ SentWithAddr(PP)
    BY <1>1, <1>2, <1>7 DEF Judged
  <2>2. AsSimulated = EraseSector(Simulated, EraseAddr)
    BY <1>4, <1>7, <2>1 DEF AsSimulated, Simulated
  <2> QED  BY <1>5, <2>1, <2>2, EraseAsSimulated
<1>8. CASE ~ SentWithAddr(PP) /\ ~ Sent(SE)
  <2>1. mem' = memAt /\ wel' = wel /\ (wip' \/ StartPending') = wip
    BY <1>8, OtherChangesNothing
  <2>2. CASE Sent(WREN)
    <3>1. AsSimulated = WriteEnable([mem |-> memAt, wip |-> wip, wel |-> welAt, busy |-> busyCnt])
      BY <1>8, <2>2 DEF AsSimulated
    <3>2. AsSimulated.mem = memAt /\ AsSimulated.wip = wip /\ AsSimulated.wel = TRUE
      BY <3>1 DEF WriteEnable
    <3>3. wel' = ~ wipAt
      BY <1>4, <2>1, <2>2
    <3> QED  BY <2>1, <2>2, <3>2, <3>3 DEF SameArray
  <2>3. CASE ~ Sent(WREN)
    <3>1. AsSimulated = Simulated
      BY <1>4, <1>8, <2>3 DEF AsSimulated, Simulated
    <3>2. Leaves(Simulated)
      BY <2>1 DEF Leaves, Simulated
    <3> QED  BY <1>5, <2>3, <3>1, <3>2
  <2> QED  BY <2>2, <2>3
<1> QED  BY <1>6, <1>7, <1>8

(* What a transaction has done to the device when CS rises, in the middle  *)
(* of a byte or not, is what the C simulation does for its command in one  *)
(* step (spi_flash.vhd:131-149, 223 and 284-298 against flash_sim.c:43-93),*)
(* but for a WREN that meets a busy device: it leaves the latch clear.     *)
THEOREM TransactionsAsSimulated == Spec => LikeFlashSim
<1>1. FrameInv /\ LatchInv /\ [Next]_vars =>
        [CsRise /\ Judged
           => SameArray /\ wel' = (AsSimulated.wel /\ ~ (Sent(WREN) /\ wipAt))]_vars
  BY SimulatedStep
<1> QED  BY <1>1, LatchInvariant, PTL DEF Spec, LikeFlashSim
=============================================================================
