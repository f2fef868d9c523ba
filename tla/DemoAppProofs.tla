---------------------------- MODULE DemoAppProofs ----------------------------
(***************************************************************************)
(* Theorems about DemoApp, for every size, every layout of the fields that *)
(* keeps the boot counter before the name, and every set of commands.      *)
(***************************************************************************)
EXTENDS DemoApp, FiniteSetTheorems, SequenceTheorems, WellFoundedInduction, TLAPS

Contents == [0 .. (Size - 1) -> Byte]
WriteType == [addr : Nat, data : Seq(Byte)]

Fits(k) == Offset[k] + Width[k] <= Size

(* The write of a command that makes one.                                  *)
TheWrite ==
  CASE cmd.op = "boot" ->
         SetField("boot", ToLeBytes((FromLeBytes(FieldBytes("boot", before)) + 1) % Base ^ WordLen))
    [] cmd.op = "write" -> WriteOf(cmd.addr, cmd.data)
    [] cmd.op = "setname" -> SetField("name", Padded(cmd.name))
    [] cmd.op = "set" /\ cmd.key = "baud" -> SetField("baud", ToLeBytes(cmd.value))
    [] cmd.op = "set" /\ cmd.key = "mode" -> SetField("mode", <<cmd.value>>)

OneWrite == {"boot", "write", "setname", "set"}

(* The first j fields of a format are written, all else is as before.      *)
ResetTo(j, v) ==
  /\ \A i \in 1 .. j : /\ Fits(FormatOrder[i])
                       /\ FieldBytes(FormatOrder[i], v) = FormatWrites[i].data
  /\ \A x \in 0 .. (Size - 1) :
       x \notin FieldAddrs({FormatOrder[i] : i \in 1 .. j}) => v[x] = before[x]

(* The user's expectations, as long as the format has not begun to write.  *)
Kept(v) ==
  \A k \in Keys : \A m \in promised[k] : Fits(k) => Meaning(k, FieldBytes(k, v)) = m

TypeInv ==
  /\ up = (shell # "off") /\ shell \in {"off", "cli", "repl"}
  /\ outcome \in {"ok", "error", "panic"}
  /\ val \in Contents /\ before \in Contents
  /\ cmd \in Commands \cup {NoCmd}
  /\ todo \in Seq(WriteType) /\ Len(todo) <= 4
  /\ pending = {} \/ (todo # <<>> /\ pending = {Head(todo)} /\ WriteFits(Head(todo)))
  /\ shown \in Seq(Byte) /\ Len(shown) <= Size
  /\ DOMAIN promised = Keys /\ \A k \in Keys : promised[k] = {} \/ \E m : promised[k] = {m}

CommandInv ==
  /\ shell = "off" => val = Fresh /\ cmd = NoCmd
  /\ cmd = NoCmd => todo = <<>>
  /\ cmd # NoCmd /\ todo = <<>> => shown = <<>> /\ val = before

WritesInv ==
  todo # <<>> =>
    \/ cmd.op \in OneWrite /\ todo = <<TheWrite>> /\ val = before
       /\ (cmd.op = "boot" => Fits("boot")) /\ (cmd.op = "setname" => Len(cmd.name) <= NameLen)
    \/ /\ cmd.op = "format" /\ shell = "repl"
       /\ \E j \in 0 .. 3 : todo = SubSeq(FormatWrites, j + 1, 4) /\ ResetTo(j, val)

PromiseInv == shell # "off" /\ (todo = <<>> \/ cmd.op # "format") => Kept(val)

AppInv == TypeInv /\ CommandInv /\ WritesInv /\ PromiseInv

-----------------------------------------------------------------------------
(* The layout.                                                             *)

(* The fields lie one after the other and do not overlap.                  *)
LEMMA Layout ==
  /\ \A k \in Keys : /\ Offset[k] \in Nat /\ Width[k] \in Nat \ {0}
                      /\ \A l \in Keys : l # k => \/ Offset[k] + Width[k] <= Offset[l]
                                                   \/ Offset[l] + Width[l] <= Offset[k]
  /\ Offset["boot"] = 0 /\ Width["boot"] = WordLen
  /\ Width["name"] = NameLen /\ Width["baud"] = WordLen /\ Width["mode"] = 1
  /\ Size \in Nat /\ WordLen \in Nat \ {0} /\ NameLen \in Nat \ {0}
BY AppAssumption DEF Keys, Offset, Width

(* A field that fits has bytes, as many as it is wide.                     *)
LEMMA FieldType ==
  ASSUME NEW v \in Contents, NEW k \in Keys, Fits(k)
  PROVE  FieldBytes(k, v) \in [1 .. Width[k] -> Byte]
<1>1. ASSUME NEW i \in 1 .. Width[k] PROVE v[Offset[k] + i - 1] \in Byte
  <2>1. Offset[k] + i - 1 \in 0 .. (Size - 1)
    BY Layout DEF Fits
  <2> QED  BY <2>1 DEF Contents
<1> QED
  BY <1>1 DEF FieldBytes

(* A write leaves an array of bytes.                                       *)
LEMMA UpdatedType ==
  ASSUME NEW v \in Contents, NEW r \in WriteType
  PROVE  EE!Updated(v, r) \in Contents
<1>1. r.addr \in Nat /\ r.data \in Seq(Byte) /\ Len(r.data) \in Nat
  BY DEF WriteType
<1>2. ASSUME NEW i \in 0 .. (Size - 1), i \in r.addr .. (r.addr + Len(r.data) - 1)
      PROVE  r.data[i - r.addr + 1] \in Byte
  <2>1. i - r.addr + 1 \in 1 .. Len(r.data)
    BY <1>1, <1>2
  <2> QED  BY <1>1, <2>1
<1> QED
  BY <1>2 DEF EE!Updated, Contents

(* A field that a write covers exactly holds its data afterwards.          *)
LEMMA FieldWritten ==
  ASSUME NEW v \in Contents, NEW k \in Keys, NEW data \in Seq(Byte),
         Len(data) = Width[k], Fits(k)
  PROVE  FieldBytes(k, EE!Updated(v, SetField(k, data))) = data
<1> DEFINE r == SetField(k, data)
<1>1. r.addr = Offset[k] /\ r.data = data
  BY DEF SetField, WriteOf
<1> HIDE DEF r
<1>2. /\ Offset[k] \in Nat /\ Width[k] \in Nat /\ Size \in Nat
      /\ Offset[k] + Width[k] <= Size
  BY Layout DEF Fits
<1>3. ASSUME NEW i \in 1 .. Width[k]
      PROVE  EE!Updated(v, r)[Offset[k] + i - 1] = data[i]
  <2>1. /\ Offset[k] + i - 1 \in 0 .. (Size - 1)
        /\ Offset[k] + i - 1 \in r.addr .. (r.addr + Len(r.data) - 1)
        /\ (Offset[k] + i - 1) - r.addr + 1 = i
    BY <1>1, <1>2
  <2>2. EE!Updated(v, r)[Offset[k] + i - 1] = r.data[(Offset[k] + i - 1) - r.addr + 1]
    BY <2>1 DEF EE!Updated
  <2> QED  BY <1>1, <2>1, <2>2
<1>4. FieldBytes(k, EE!Updated(v, r)) = [i \in 1 .. Width[k] |-> data[i]]
  BY <1>3 DEF FieldBytes
<1>5. data = [i \in 1 .. Len(data) |-> data[i]]
  OBVIOUS
<1> QED
  BY <1>4, <1>5 DEF r

(* A field that a write does not reach keeps its bytes.                    *)
LEMMA FieldUntouched ==
  ASSUME NEW v \in Contents, NEW k \in Keys, NEW r \in WriteType, ~ Touched(k, r), Fits(k)
  PROVE  FieldBytes(k, EE!Updated(v, r)) = FieldBytes(k, v)
<1>1. /\ Offset[k] \in Nat /\ Width[k] \in Nat /\ Size \in Nat
      /\ Offset[k] + Width[k] <= Size /\ r.addr \in Nat /\ Len(r.data) \in Nat
  BY Layout DEF Fits, WriteType
<1>2. Offset[k] + Width[k] <= r.addr \/ r.addr + Len(r.data) <= Offset[k]
  BY <1>1 DEF Touched
<1>3. ASSUME NEW i \in 1 .. Width[k]
      PROVE  EE!Updated(v, r)[Offset[k] + i - 1] = v[Offset[k] + i - 1]
  <2> DEFINE o == Offset[k]
             w == Width[k]
             a == r.addr
             n == Len(r.data)
  <2>1. /\ o \in Nat /\ w \in Nat /\ Size \in Nat /\ o + w <= Size /\ a \in Nat /\ n \in Nat
        /\ i \in 1 .. w /\ (o + w <= a \/ a + n <= o)
    BY <1>1, <1>2
  <2> HIDE DEF o, w, a, n
  <2>2. o + i - 1 \in 0 .. (Size - 1) /\ o + i - 1 \notin a .. (a + n - 1)
    BY <2>1
  <2>3. EE!Updated(v, r)[o + i - 1] = v[o + i - 1]
    BY <2>2 DEF EE!Updated, a, n
  <2> QED  BY <2>3 DEF o
<1> QED
  BY <1>3 DEF FieldBytes

(* A write of one field does not touch another one.                        *)
LEMMA OtherField ==
  ASSUME NEW k \in Keys, NEW l \in Keys, l # k, NEW data \in Seq(Byte), Len(data) = Width[k]
  PROVE  ~ Touched(l, SetField(k, data))
BY Layout DEF Touched, SetField, WriteOf

-----------------------------------------------------------------------------
(* What the fields mean.                                                   *)

(* Induction, from the well-foundedness of < on the naturals: a set with 0 *)
(* that has the successor of each of its members has all of them.          *)
LEMMA NatSet ==
  ASSUME NEW S, 0 \in S, \A i \in Nat : i \in S => i + 1 \in S
  PROVE  Nat \subseteq S
<1> DEFINE R == OpToRel(<, Nat)
           T == Nat \ S
<1> SUFFICES ASSUME T # {} PROVE FALSE
  OBVIOUS
<1>1. IsWellFoundedOn(R, Nat)
  BY NatLessThanWellFounded
<1>2. \A i, j \in Nat : i < j => <<i, j>> \in R
  BY DEF OpToRel
<1> HIDE DEF R
<1>3. T \subseteq Nat
  OBVIOUS
<1>4. PICK m \in T : \A k \in T : ~ (<<k, m>> \in R)
  <2> HIDE DEF T
  <2> QED  BY <1>1, <1>3, WFMin, Zenon
<1>5. m \in Nat /\ m # 0 /\ m - 1 \in Nat /\ m - 1 < m
  BY <1>3
<1>6. <<m - 1, m>> \in R
  BY <1>2, <1>5
<1>7. m - 1 \in S
  BY <1>4, <1>5, <1>6
<1>8. m \in S
  <2>1. (m - 1) + 1 = m
    BY <1>5
  <2> QED  BY <1>5, <1>7, <2>1
<1> QED  BY <1>8

LEMMA BasePowers ==
  /\ Base \in Nat /\ Base >= 2 /\ WordLen \in Nat /\ WordLen >= 1
  /\ Base ^ 0 = 1
  /\ \A i \in 0 .. WordLen : Base ^ i \in Nat \ {0}
  /\ \A i \in 0 .. (WordLen - 1) : Base ^ (i + 1) = Base * Base ^ i
<1> DEFINE S == {m \in Nat : m <= WordLen => Base ^ m \in Nat \ {0}}
<1>1. Base \in Nat /\ Base >= 2 /\ WordLen \in Nat /\ WordLen >= 1
  BY AppAssumption DEF Base
<1>2. Base ^ 0 = 1 /\ \A i \in 0 .. (WordLen - 1) : Base ^ (i + 1) = Base * Base ^ i
  BY PowersOfBase
<1>3. 0 \in S
  BY <1>2
<1>4. ASSUME NEW m \in Nat, m \in S PROVE m + 1 \in S
  <2> SUFFICES ASSUME m + 1 <= WordLen PROVE Base ^ (m + 1) \in Nat \ {0}
    OBVIOUS
  <2>1. m \in 0 .. (WordLen - 1) /\ Base ^ m \in Nat \ {0}
    BY <1>1, <1>4
  <2>2. \A a, b \in Nat \ {0} : a * b \in Nat \ {0}
    OBVIOUS
  <2> QED  BY <1>1, <1>2, <2>1, <2>2
<1>5. Nat \subseteq S
  <2> HIDE DEF S
  <2> QED  BY <1>3, <1>4, NatSet
<1> QED  BY <1>1, <1>2, <1>5

(* One more digit of a number.                                             *)
LEMMA NextDigit ==
  ASSUME NEW v \in Nat, NEW p \in Nat \ {0}, NEW b \in Nat \ {0}
  PROVE  (v % p) + ((v \div p) % b) * p = v % (b * p)
<1> DEFINE w == v \div p
           r == v % p
           h == w \div b
           c == w % b
           d == b * p
           q == v \div d
           s == v % d
<1>1. w \in Nat /\ r \in 0 .. (p - 1) /\ v = w * p + r
  OBVIOUS
<1> HIDE DEF w, r
<1>2. h \in Nat /\ c \in 0 .. (b - 1) /\ w = h * b + c
  BY <1>1
<1> HIDE DEF h, c
<1>3. d \in Nat /\ d > 0
  OBVIOUS
<1>4. q \in Nat /\ s \in 0 .. (d - 1) /\ v = q * d + s
  BY <1>3
<1> HIDE DEF q, s
<1>5. h * d \in Nat /\ q * d \in Nat /\ c * p \in Nat
  BY <1>2, <1>3, <1>4
<1>6. w * p = h * d + c * p
  BY <1>1, <1>2
<1>7. c * p + p <= d
  <2>1. (c + 1) * p <= b * p
    BY <1>2
  <2>2. (c + 1) * p = c * p + p
    BY <1>2
  <2> QED  BY <2>1, <2>2
<1> DEFINE x == h * d
           y == q * d
           z == c * p
<1>8. /\ x \in Nat /\ y \in Nat /\ z \in Nat /\ v = x + z + r /\ v = y + s
      /\ z + r < d /\ s < d /\ z + r >= 0
  BY <1>1, <1>3, <1>4, <1>5, <1>6, <1>7
<1>9. q > h => y >= x + d
  BY <1>2, <1>3, <1>4
<1>10. q < h => x >= y + d
  BY <1>2, <1>3, <1>4
<1>11. q = h => x = y
  OBVIOUS
<1> HIDE DEF x, y, z, d
<1>12. s = z + r
  BY <1>1, <1>2, <1>3, <1>4, <1>8, <1>9, <1>10, <1>11
<1> QED  BY <1>1, <1>2, <1>12, <1>8 DEF s, z, r, w, c, d

(* LePrefix is what its recursive definition says.                         *)
LEMMA LePrefixDef ==
  ASSUME NEW b \in Seq(Byte)
  PROVE  /\ LePrefix(b)[0] = 0
         /\ \A j \in 1 .. Len(b) : LePrefix(b)[j] = LePrefix(b)[j - 1] + b[j] * Base ^ (j - 1)
<1> DEFINE E(g, m) == g = [j \in 0 .. m |->
                             IF j = 0 THEN 0 ELSE g[j - 1] + b[j] * Base ^ (j - 1)]
           S == {m \in Nat : \E g : E(g, m)}
           v == LePrefix(b)
<1>1. 0 \in S
  <2>1. E([j \in 0 .. 0 |-> 0], 0)
    OBVIOUS
  <2> QED  BY <2>1
<1>2. ASSUME NEW i \in Nat, i \in S PROVE i + 1 \in S
  <2>1. PICK g : E(g, i)
    BY <1>2
  <2> DEFINE h == [j \in 0 .. i + 1 |->
                     IF j <= i THEN g[j] ELSE g[i] + b[j] * Base ^ (j - 1)]
             r == [j \in 0 .. i + 1 |->
                     IF j = 0 THEN 0 ELSE h[j - 1] + b[j] * Base ^ (j - 1)]
  <2>2. ASSUME NEW j \in 0 .. i + 1
        PROVE  h[j] = IF j = 0 THEN 0 ELSE h[j - 1] + b[j] * Base ^ (j - 1)
    <3>1. /\ j \in Int /\ 0 <= j /\ j <= i + 1
          /\ h[j] = IF j <= i THEN g[j] ELSE g[i] + b[j] * Base ^ (j - 1)
      OBVIOUS
    <3>2. j # 0 => h[j - 1] = g[j - 1]
      BY <3>1
    <3>3. j <= i => g[j] = IF j = 0 THEN 0 ELSE g[j - 1] + b[j] * Base ^ (j - 1)
      BY <2>1, <3>1
    <3>4. j > i => j = i + 1 /\ j - 1 = i
      BY <3>1
    <3> HIDE DEF h
    <3> QED  BY <3>1, <3>2, <3>3, <3>4
  <2>3. E(h, i + 1)
    <3> HIDE DEF r
    <3>1. \A j \in 0 .. i + 1 : h[j] = r[j]
      BY <2>2 DEF r
    <3>2. h = [j \in 0 .. i + 1 |-> h[j]] /\ r = [j \in 0 .. i + 1 |-> r[j]]
      BY DEF r
    <3> HIDE DEF h
    <3>3. h = r
      BY <3>1, <3>2
    <3> QED  BY <3>3 DEF r
  <2>4. \E g1 : E(g1, i + 1)
    <3> HIDE DEF E, h
    <3> QED  BY <2>3
  <2> HIDE DEF E
  <2> QED  BY <2>4
<1>3. Len(b) \in Nat
  OBVIOUS
<1>4. Len(b) \in S
  <2> HIDE DEF S
  <2> QED  BY <1>1, <1>2, <1>3, NatSet
<1>5. PICK g : E(g, Len(b))
  BY <1>4
<1>6. v = [j \in 0 .. Len(b) |-> IF j = 0 THEN 0 ELSE v[j - 1] + b[j] * Base ^ (j - 1)]
  BY <1>5 DEF LePrefix
<1> HIDE DEF v
<1>7. \A j \in 0 .. Len(b) : v[j] = IF j = 0 THEN 0 ELSE v[j - 1] + b[j] * Base ^ (j - 1)
  BY <1>6
<1> QED  BY <1>3, <1>7 DEF v

(* A byte alone is its own value.                                          *)
LEMMA OneByte ==
  ASSUME NEW v \in Byte
  PROVE  FromLeBytes(<<v>>) = v
<1> DEFINE b == <<v>>
<1>1. b \in Seq(Byte) /\ Len(b) = 1 /\ b[1] = v /\ v \in Nat
  BY AppAssumption DEF Byte
<1> HIDE DEF b
<1>2. LePrefix(b)[0] = 0 /\ LePrefix(b)[1] = LePrefix(b)[1 - 1] + b[1] * Base ^ (1 - 1)
  BY <1>1, LePrefixDef
<1>3. 1 - 1 = 0 /\ Base ^ 0 = 1
  BY BasePowers
<1>4. LePrefix(b)[1] = 0 + v * 1
  BY <1>1, <1>2, <1>3
<1>5. 0 + v * 1 = v
  BY <1>1
<1> QED  BY <1>1, <1>4, <1>5 DEF FromLeBytes, b

(* The bytes of a word.                                                    *)
LEMMA BytesOfWord ==
  ASSUME NEW v \in Nat
  PROVE  ToLeBytes(v) \in [1 .. WordLen -> Byte]
<1>1. ASSUME NEW i \in 1 .. WordLen PROVE (v \div Base ^ (i - 1)) % Base \in Byte
  <2> DEFINE p == Base ^ (i - 1)
  <2>1. i - 1 \in 0 .. WordLen
    BY BasePowers
  <2>2. p \in Nat \ {0}
    BY <2>1, BasePowers
  <2> HIDE DEF p
  <2>3. v \div p \in Nat
    BY <2>2
  <2>4. (v \div p) % Base \in 0 .. (Base - 1)
    BY <2>3, BasePowers
  <2>5. Base - 1 = Blank
    BY AppAssumption DEF Base
  <2> QED  BY <2>4, <2>5 DEF Byte, p
<1> QED  BY <1>1 DEF ToLeBytes

(* The first j bytes of a word are its value modulo the j-th power.        *)
LEMMA BytesGiveWord ==
  ASSUME NEW v \in Word
  PROVE  FromLeBytes(ToLeBytes(v)) = v
<1> DEFINE b == ToLeBytes(v)
           a == LePrefix(b)
           S == {m \in Nat : m <= WordLen => a[m] = v % Base ^ m}
           top == Base ^ WordLen
<1>1. top \in Nat \ {0}
  BY BasePowers
<1>2. v \in Nat /\ v < top
  <2>1. v \in 0 .. (top - 1)
    BY DEF Word
  <2> HIDE DEF top
  <2> QED  BY <1>1, <2>1
<1>3. b \in [1 .. WordLen -> Byte] /\ WordLen \in Nat
  BY <1>2, BytesOfWord, BasePowers
<1>4. \A j \in 1 .. WordLen : b[j] = (v \div Base ^ (j - 1)) % Base
  BY DEF ToLeBytes
<1> HIDE DEF b
<1>5. b \in Seq(Byte) /\ Len(b) = WordLen
  BY <1>3
<1>6. a[0] = 0 /\ \A j \in 1 .. WordLen : a[j] = a[j - 1] + b[j] * Base ^ (j - 1)
  BY <1>5, LePrefixDef
<1> HIDE DEF a
<1>7. 0 \in S
  <2>1. v % 1 = 0
    BY <1>2
  <2> QED  BY <1>6, <2>1, BasePowers
<1>8. ASSUME NEW m \in Nat, m \in S PROVE m + 1 \in S
  <2> SUFFICES ASSUME m + 1 <= WordLen PROVE a[m + 1] = v % Base ^ (m + 1)
    OBVIOUS
  <2> DEFINE p == Base ^ m
  <2>1. /\ m \in 0 .. WordLen /\ m \in 0 .. (WordLen - 1) /\ m + 1 \in 1 .. WordLen
        /\ (m + 1) - 1 = m /\ m <= WordLen
    BY <1>3
  <2>2. p \in Nat \ {0} /\ Base ^ (m + 1) = Base * p /\ Base \in Nat \ {0}
    BY <2>1, BasePowers
  <2>3. a[m] = v % p
    BY <1>8, <2>1
  <2>4. a[m + 1] = a[m] + ((v \div p) % Base) * p
    BY <1>4, <1>6, <2>1
  <2> HIDE DEF p
  <2>5. (v % p) + ((v \div p) % Base) * p = v % (Base * p)
    BY <1>2, <2>2, NextDigit
  <2> QED  BY <2>2, <2>3, <2>4, <2>5
<1>9. a[WordLen] = v % top
  <2>1. Nat \subseteq S
    <3> HIDE DEF S
    <3> QED  BY <1>7, <1>8, NatSet
  <2> QED  BY <1>3, <2>1
<1> HIDE DEF top
<1>10. v % top = v
  BY <1>1, <1>2
<1> QED  BY <1>5, <1>9, <1>10 DEF FromLeBytes, a, b

(* The value of a word's bytes is a word.                                  *)
LEMMA WordOfBytes ==
  ASSUME NEW b \in [1 .. WordLen -> Byte]
  PROVE  FromLeBytes(b) \in Word
<1> DEFINE a == LePrefix(b)
           S == {m \in Nat : m <= WordLen => a[m] \in Nat /\ a[m] < Base ^ m}
           top == Base ^ WordLen
<1>1. b \in Seq(Byte) /\ Len(b) = WordLen /\ WordLen \in Nat
  BY BasePowers
<1>2. a[0] = 0 /\ \A j \in 1 .. WordLen : a[j] = a[j - 1] + b[j] * Base ^ (j - 1)
  BY <1>1, LePrefixDef
<1> HIDE DEF a
<1>3. 0 \in S
  BY <1>2, BasePowers
<1>4. ASSUME NEW m \in Nat, m \in S PROVE m + 1 \in S
  <2> SUFFICES ASSUME m + 1 <= WordLen
               PROVE  a[m + 1] \in Nat /\ a[m + 1] < Base ^ (m + 1)
    OBVIOUS
  <2> DEFINE p == Base ^ m
             x == a[m]
             c == b[m + 1]
  <2>1. /\ m \in 0 .. WordLen /\ m \in 0 .. (WordLen - 1) /\ m + 1 \in 1 .. WordLen
        /\ (m + 1) - 1 = m /\ m <= WordLen
    BY <1>1
  <2>2. p \in Nat \ {0} /\ Base ^ (m + 1) = Base * p
    BY <2>1, BasePowers
  <2>3. x \in Nat /\ x < p
    BY <1>4, <2>1
  <2>4. c \in Nat /\ c + 1 <= Base
    <3>1. c \in Byte
      BY <2>1
    <3> QED  BY <3>1, AppAssumption DEF Byte, Base
  <2>5. a[m + 1] = x + c * p
    BY <1>2, <2>1
  <2> HIDE DEF p, x, c
  <2>6. (c + 1) * p <= Base * p
    BY <2>2, <2>4, BasePowers
  <2>7. (c + 1) * p = c * p + p /\ c * p \in Nat
    BY <2>2, <2>4
  <2> QED  BY <2>2, <2>3, <2>5, <2>6, <2>7, BasePowers
<1>5. a[WordLen] \in Nat /\ a[WordLen] < top
  <2>1. Nat \subseteq S
    <3> HIDE DEF S
    <3> QED  BY <1>3, <1>4, NatSet
  <2> QED  BY <1>1, <2>1
<1>6. top \in Nat
  BY BasePowers
<1> HIDE DEF top
<1>7. a[WordLen] \in 0 .. (top - 1)
  BY <1>5, <1>6
<1> QED  BY <1>1, <1>7 DEF FromLeBytes, Word, a, top

(* Words and their bytes are one to one.                                   *)
LEMMA Encodings ==
  /\ Base ^ WordLen \in Nat \ {0}
  /\ \A v \in Word : ToLeBytes(v) \in [1 .. WordLen -> Byte] /\ FromLeBytes(ToLeBytes(v)) = v
  /\ \A b \in [1 .. WordLen -> Byte] : FromLeBytes(b) \in Word
  /\ \A v \in Byte : FromLeBytes(<<v>>) = v
<1>1. Base ^ WordLen \in Nat \ {0}
  BY BasePowers
<1>2. \A v \in Word : v \in Nat
  <2> DEFINE top == Base ^ WordLen
  <2>1. \A v \in 0 .. (top - 1) : v \in Nat
    <3> HIDE DEF top
    <3> QED  BY <1>1
  <2> QED  BY <2>1 DEF Word
<1> QED  BY <1>1, <1>2, BytesOfWord, BytesGiveWord, WordOfBytes, OneByte

(* A word has WordLen bytes, which give it back.                           *)
LEMMA WordBytes ==
  ASSUME NEW v \in Word
  PROVE  /\ ToLeBytes(v) \in Seq(Byte) /\ Len(ToLeBytes(v)) = WordLen
         /\ FromLeBytes(ToLeBytes(v)) = v
<1>1. ToLeBytes(v) \in [1 .. WordLen -> Byte] /\ FromLeBytes(ToLeBytes(v)) = v
  BY Encodings
<1>2. WordLen \in Nat
  BY AppAssumption
<1> QED
  BY <1>1, <1>2

(* A name is filled up with zeros, and has none itself.                    *)
LEMMA PaddedType ==
  ASSUME NEW name \in Seq(1 .. Blank), Len(name) <= NameLen
  PROVE  /\ Padded(name) \in Seq(Byte) /\ Len(Padded(name)) = NameLen
         /\ \A i \in 1 .. NameLen : Padded(name)[i] = IF i <= Len(name) THEN name[i] ELSE 0
         /\ \A i \in 1 .. Len(name) : name[i] # 0
<1>1. NameLen \in Nat /\ Blank \in Nat /\ Len(name) \in Nat
  BY AppAssumption
<1>2. ASSUME NEW i \in 1 .. NameLen
      PROVE  (IF i <= Len(name) THEN name[i] ELSE 0) \in Byte
  <2>1. CASE i <= Len(name)
    <3>1. i \in 1 .. Len(name)
      BY <1>1, <2>1
    <3>2. name[i] \in 1 .. Blank
      BY <3>1, ElementOfSeq
    <3> QED  BY <1>1, <2>1, <3>2 DEF Byte
  <2>2. CASE ~ (i <= Len(name))
    BY <1>1, <2>2 DEF Byte
  <2> QED  BY <2>1, <2>2
<1>3. Padded(name) \in [1 .. NameLen -> Byte]
  BY <1>2 DEF Padded
<1>4. \A i \in 1 .. Len(name) : name[i] \in 1 .. Blank
  BY ElementOfSeq
<1> QED
  BY <1>1, <1>3, <1>4 DEF Padded

(* A name comes back as it was typed.                                      *)
LEMMA NameRoundTrip ==
  ASSUME NEW name \in Seq(1 .. Blank), Len(name) <= NameLen
  PROVE  NameIn(Padded(name)) = name
<1> DEFINE b == Padded(name)
           zeros == {i \in DOMAIN b : b[i] = 0}
<1>0. /\ b \in Seq(Byte) /\ Len(b) = NameLen /\ Len(name) \in Nat /\ NameLen \in Nat
      /\ \A i \in 1 .. NameLen : b[i] = IF i <= Len(name) THEN name[i] ELSE 0
      /\ \A i \in 1 .. Len(name) : name[i] # 0
      /\ DOMAIN b = 1 .. NameLen
  <2>1. b \in Seq(Byte) /\ Len(b) = NameLen
    BY PaddedType
  <2> QED  BY <2>1, PaddedType
<1> HIDE DEF b
<1>1. \A i \in 1 .. NameLen : i \in zeros <=> i > Len(name)
  BY <1>0
<1>2. (IF zeros = {} THEN Len(b) ELSE Min(zeros) - 1) = Len(name)
  <2>1. CASE Len(name) = NameLen
    <3>1. zeros = {}
      BY <1>0, <1>1, <2>1
    <3> QED  BY <1>0, <2>1, <3>1
  <2>2. CASE Len(name) < NameLen
    <3> DEFINE m == Len(name) + 1
    <3>1. m \in zeros /\ \A y \in zeros : m <= y
      BY <1>0, <1>1, <2>2
    <3>2. zeros \subseteq Nat /\ m \in Nat
      BY <1>0
    <3> HIDE DEF zeros, m
    <3>3. Min(zeros) \in zeros /\ \A y \in zeros : Min(zeros) <= y
      BY <3>1 DEF Min
    <3>4. Min(zeros) = m
      <4>1. Min(zeros) <= m /\ m <= Min(zeros)
        BY <3>1, <3>3
      <4>2. Min(zeros) \in Nat
        BY <3>2, <3>3
      <4> QED  BY <3>2, <4>1, <4>2
    <3>5. zeros # {}
      BY <3>1
    <3> QED  BY <1>0, <3>4, <3>5 DEF m
  <2> QED  BY <1>0, <2>1, <2>2
<1>3. NameIn(b) = SubSeq(b, 1, Len(name))
  BY <1>2 DEF NameIn
<1>4. SubSeq(b, 1, Len(name)) = name
  <2>1. /\ SubSeq(b, 1, Len(name)) \in Seq(Byte) /\ Len(SubSeq(b, 1, Len(name))) = Len(name)
        /\ \A i \in 1 .. Len(name) : SubSeq(b, 1, Len(name))[i] = b[i]
    <3>1. 1 \in 1 .. Len(b) + 1 /\ Len(name) \in 0 .. Len(b)
      BY <1>0
    <3> QED  BY <1>0, <3>1
  <2>2. \A i \in 1 .. Len(name) : SubSeq(b, 1, Len(name))[i] = name[i]
    BY <1>0, <2>1
  <2>3. SubSeq(b, 1, Len(name)) = [i \in 1 .. Len(name) |-> SubSeq(b, 1, Len(name))[i]]
    BY <2>1
  <2>4. name = [i \in 1 .. Len(name) |-> name[i]]
    OBVIOUS
  <2> QED  BY <2>2, <2>3, <2>4
<1> QED
  BY <1>3, <1>4 DEF b
-----------------------------------------------------------------------------
(* The commands and their writes.                                          *)

(* A command has the fields of its kind.                                   *)
LEMMA CommandFields ==
  ASSUME NEW c \in Commands
  PROVE  /\ c.op \in {"info", "help", "bad", "quit", "format", "read", "dump", "dumprest", "boot",
                      "get", "setname", "set", "write"}
         /\ c.op \in {"read", "dump"} => c.addr \in Nat /\ c.n \in Nat
         /\ c.op = "dumprest" => c.addr \in Nat
         /\ c.op = "boot" => c.inc \in BOOLEAN
         /\ c.op = "get" => c.key \in Keys
         /\ c.op = "setname" => c.name \in Seq(1 .. Blank)
         /\ c.op = "set" => \/ c.key = "baud" /\ c.value \in Word
                            \/ c.key = "mode" /\ c.value \in Byte
         /\ c.op = "write" => c.addr \in Nat /\ c.data \in Seq(Byte)
         /\ c # NoCmd
<1> DEFINE Names == Seq(1 .. Blank)
           Datas == Seq(Byte)
<1>1. c \in CommandType
  BY AppAssumption
<1>2. \/ c \in [op : {"info", "help", "bad", "quit", "format"}]
      \/ c \in [op : {"read", "dump"}, addr : Nat, n : Nat] \/ c \in [op : {"dumprest"}, addr : Nat]
      \/ c \in [op : {"boot"}, inc : BOOLEAN] \/ c \in [op : {"get"}, key : Keys \ {"boot"}]
      \/ c \in [op : {"setname"}, name : Names]
      \/ c \in [op : {"set"}, key : {"baud"}, value : Word]
      \/ c \in [op : {"set"}, key : {"mode"}, value : Byte]
      \/ c \in [op : {"write"}, addr : Nat, data : Datas]
  BY <1>1 DEF CommandType
<1> HIDE DEF Names, Datas
<1>3. c.op # "none"
  BY <1>2
<1>4. NoCmd.op = "none"
  BY DEF NoCmd
<1>5. c.op \in {"info", "help", "bad", "quit", "format", "read", "dump", "dumprest", "boot",
                "get", "setname", "set", "write"}
  BY <1>2
<1>6. c.op = "setname" => c.name \in Names
  BY <1>2
<1>7. c.op = "write" => c.addr \in Nat /\ c.data \in Datas
  BY <1>2
<1>8. c.op = "set" => (c.key = "baud" /\ c.value \in Word) \/ (c.key = "mode" /\ c.value \in Byte)
  BY <1>2
<1>9. /\ c.op \in {"read", "dump"} => c.addr \in Nat /\ c.n \in Nat
      /\ c.op = "dumprest" => c.addr \in Nat
      /\ c.op = "boot" => c.inc \in BOOLEAN
      /\ c.op = "get" => c.key \in Keys
  BY <1>2
<1> QED
  BY <1>3, <1>4, <1>5, <1>6, <1>7, <1>8, <1>9 DEF Names, Datas

(* What is carried out was typed.                                          *)
LEMMA Serves ==
  ASSUME TypeInv, NEW op \in {"info", "help", "bad", "quit", "format", "read", "dump", "dumprest",
                             "boot", "get", "setname", "set", "write"}, cmd.op = op
  PROVE  cmd \in Commands
BY DEF TypeInv, NoCmd

(* The data of a field, and what it says.                                  *)
FieldData(k, data, m) == data \in Seq(Byte) /\ Len(data) = Width[k] /\ Meaning(k, data) = m

(* The encodings the program writes say what was given to it.              *)
LEMMA FieldDatas ==
  /\ \A v \in Word : FieldData("boot", ToLeBytes(v), v) /\ FieldData("baud", ToLeBytes(v), v)
  /\ \A v \in Byte : FieldData("mode", <<v>>, v)
  /\ \A s \in Seq(1 .. Blank) : Len(s) <= NameLen => FieldData("name", Padded(s), s)
<1>1. ASSUME NEW v \in Word
      PROVE  FieldData("boot", ToLeBytes(v), v) /\ FieldData("baud", ToLeBytes(v), v)
  BY WordBytes, Layout DEF FieldData, Meaning
<1>2. ASSUME NEW v \in Byte PROVE FieldData("mode", <<v>>, v)
  BY Encodings, Layout DEF FieldData, Meaning
<1>3. ASSUME NEW s \in Seq(1 .. Blank), Len(s) <= NameLen PROVE FieldData("name", Padded(s), s)
  <2>1. Padded(s) \in Seq(Byte) /\ Len(Padded(s)) = NameLen
    BY <1>3, PaddedType
  <2>2. NameIn(Padded(s)) = s
    BY <1>3, NameRoundTrip
  <2> QED  BY <2>1, <2>2, Layout DEF FieldData, Meaning
<1> QED
  BY <1>1, <1>2, <1>3

(* A write of a field is a write.                                          *)
LEMMA FieldWriteType ==
  ASSUME NEW k \in Keys, NEW data \in Seq(Byte)
  PROVE  SetField(k, data) \in WriteType
BY Layout DEF SetField, WriteOf, WriteType

(* The next value of the boot counter.                                     *)
NextBoot == (FromLeBytes(FieldBytes("boot", before)) + 1) % Base ^ WordLen

(* The counter stays a word when it is counted up.                         *)
LEMMA NextBootIsWord ==
  ASSUME before \in Contents, Fits("boot")
  PROVE  NextBoot \in Word
<1>1. FieldBytes("boot", before) \in [1 .. WordLen -> Byte]
  BY FieldType, Layout DEF Keys
<1>2. FromLeBytes(FieldBytes("boot", before)) \in Word
  BY <1>1, Encodings
<1> DEFINE p == Base ^ WordLen
           v == FromLeBytes(FieldBytes("boot", before))
<1>3. p \in Nat \ {0} /\ v \in 0 .. (p - 1)
  BY <1>2, Encodings DEF Word
<1> HIDE DEF p, v
<1>4. (v + 1) % p \in 0 .. (p - 1)
  BY <1>3
<1> QED
  BY <1>4 DEF NextBoot, Word, p, v

(* Which field a command of one write sets, if any, and to what.           *)
LEMMA WhatIsWritten ==
  ASSUME TypeInv, cmd \in Commands,
         cmd.op = "boot" => Fits("boot"), cmd.op = "setname" => Len(cmd.name) <= NameLen
  PROVE  /\ cmd.op = "boot" => \E data : TheWrite = SetField("boot", data)
                                        /\ FieldData("boot", data, NextBoot)
         /\ cmd.op = "setname" => \E data : TheWrite = SetField("name", data)
                                           /\ FieldData("name", data, cmd.name)
         /\ cmd.op = "set" => /\ cmd.key \in Keys
                              /\ \E data : TheWrite = SetField(cmd.key, data)
                                         /\ FieldData(cmd.key, data, cmd.value)
         /\ cmd.op = "write" => TheWrite = WriteOf(cmd.addr, cmd.data)
<1>1. CASE cmd.op = "boot"
  <2>1. TheWrite = SetField("boot", ToLeBytes(NextBoot))
    BY <1>1 DEF TheWrite, NextBoot
  <2>2. NextBoot \in Word
    BY <1>1, NextBootIsWord DEF TypeInv
  <2> QED  BY <1>1, <2>1, <2>2, FieldDatas
<1>2. CASE cmd.op = "setname"
  <2>1. TheWrite = SetField("name", Padded(cmd.name))
    BY <1>2 DEF TheWrite
  <2>2. cmd.name \in Seq(1 .. Blank)
    BY <1>2, CommandFields
  <2> QED  BY <1>2, <2>1, <2>2, FieldDatas
<1>3. CASE cmd.op = "set" /\ cmd.key = "baud"
  <2>1. TheWrite = SetField("baud", ToLeBytes(cmd.value))
    BY <1>3 DEF TheWrite
  <2>2. cmd.value \in Word
    BY <1>3, CommandFields
  <2> QED  BY <1>3, <2>1, <2>2, FieldDatas DEF Keys
<1>4. CASE cmd.op = "set" /\ cmd.key = "mode"
  <2>1. TheWrite = SetField("mode", <<cmd.value>>)
    BY <1>4 DEF TheWrite
  <2>2. cmd.value \in Byte
    BY <1>4, CommandFields
  <2> QED  BY <1>4, <2>1, <2>2, FieldDatas DEF Keys
<1>5. CASE cmd.op = "write"
  BY <1>5 DEF TheWrite
<1>6. cmd.op = "set" => cmd.key = "baud" \/ cmd.key = "mode"
  BY CommandFields
<1> QED
  BY <1>1, <1>2, <1>3, <1>4, <1>5, <1>6

(* The one write of a command is a write.                                  *)
LEMMA TheWriteType ==
  ASSUME TypeInv, cmd \in Commands, cmd.op \in OneWrite,
         cmd.op = "boot" => Fits("boot"), cmd.op = "setname" => Len(cmd.name) <= NameLen
  PROVE  TheWrite \in WriteType
<1>1. CASE cmd.op = "boot"
  BY <1>1, WhatIsWritten, FieldWriteType DEF FieldData, Keys
<1>2. CASE cmd.op = "setname"
  BY <1>2, WhatIsWritten, FieldWriteType DEF FieldData, Keys
<1>3. CASE cmd.op = "set"
  BY <1>3, WhatIsWritten, FieldWriteType DEF FieldData
<1>4. CASE cmd.op = "write"
  BY <1>4, WhatIsWritten, CommandFields DEF WriteOf, WriteType
<1> QED
  BY <1>1, <1>2, <1>3, <1>4 DEF OneWrite

(* The four writes of a format: each field once, with its default.         *)
LEMMA FormatFacts ==
  /\ FormatWrites \in Seq(WriteType) /\ Len(FormatWrites) = 4
  /\ \A i \in 1 .. 4 :
       /\ FormatOrder[i] \in Keys
       /\ FormatWrites[i] = SetField(FormatOrder[i], FormatWrites[i].data)
       /\ FieldData(FormatOrder[i], FormatWrites[i].data, Default[FormatOrder[i]])
  /\ \A k \in Keys : \E i \in 1 .. 4 : FormatOrder[i] = k
  /\ \A i, j \in 1 .. 4 : FormatOrder[i] = FormatOrder[j] => i = j
<1>1. 0 \in Word /\ DefaultBaud \in Word /\ 0 \in Byte
  BY Encodings, AppAssumption DEF Word, Byte
<1>2. <<>> \in Seq(1 .. Blank) /\ Len(<<>>) <= NameLen
  BY AppAssumption
<1>3. /\ FieldData("boot", ToLeBytes(0), 0)
      /\ FieldData("baud", ToLeBytes(DefaultBaud), DefaultBaud)
      /\ FieldData("name", Padded(<<>>), <<>>) /\ FieldData("mode", <<0>>, 0)
  BY <1>1, <1>2, FieldDatas
<1> DEFINE d1 == ToLeBytes(0)
           d2 == ToLeBytes(DefaultBaud)
           d3 == Padded(<<>>)
           d4 == <<0>>
<1>4. FormatWrites = <<SetField("boot", d1), SetField("baud", d2), SetField("name", d3),
                       SetField("mode", d4)>>
  BY DEF FormatWrites
<1>5. /\ FieldData("boot", d1, 0) /\ FieldData("baud", d2, DefaultBaud)
      /\ FieldData("name", d3, <<>>) /\ FieldData("mode", d4, 0)
  BY <1>3
<1> HIDE DEF d1, d2, d3, d4
<1>6. /\ SetField("boot", d1) \in WriteType /\ SetField("baud", d2) \in WriteType
      /\ SetField("name", d3) \in WriteType /\ SetField("mode", d4) \in WriteType
  BY <1>5, FieldWriteType DEF FieldData, Keys
<1>7. \A k, data : SetField(k, data).data = data
  BY DEF SetField, WriteOf
<1>8. FormatWrites \in Seq(WriteType) /\ Len(FormatWrites) = 4
  BY <1>4, <1>6
<1>9. /\ FormatOrder[1] = "boot" /\ FormatOrder[2] = "baud" /\ FormatOrder[3] = "name"
      /\ FormatOrder[4] = "mode"
      /\ Default["boot"] = 0 /\ Default["baud"] = DefaultBaud /\ Default["name"] = <<>>
      /\ Default["mode"] = 0
  BY DEF FormatOrder, Default
<1>10. ASSUME NEW i \in 1 .. 4
       PROVE  /\ FormatOrder[i] \in Keys
              /\ FormatWrites[i] = SetField(FormatOrder[i], FormatWrites[i].data)
              /\ FieldData(FormatOrder[i], FormatWrites[i].data, Default[FormatOrder[i]])
  <2>1. CASE i = 1
    BY <2>1, <1>4, <1>5, <1>7, <1>9 DEF Keys
  <2>2. CASE i = 2
    BY <2>2, <1>4, <1>5, <1>7, <1>9 DEF Keys
  <2>3. CASE i = 3
    BY <2>3, <1>4, <1>5, <1>7, <1>9 DEF Keys
  <2>4. CASE i = 4
    BY <2>4, <1>4, <1>5, <1>7, <1>9 DEF Keys
  <2> QED  BY <2>1, <2>2, <2>3, <2>4
<1>11. \A k \in Keys : \E i \in 1 .. 4 : FormatOrder[i] = k
  BY <1>9 DEF Keys
<1>12. \A i, j \in 1 .. 4 : FormatOrder[i] = FormatOrder[j] => i = j
  BY <1>9
<1> QED
  BY <1>8, <1>10, <1>11, <1>12
-----------------------------------------------------------------------------
(* The invariant, step by step.                                            *)

(* A read that is in bounds yields the bytes asked for.                    *)
LEMMA BytesType ==
  ASSUME val \in Contents, NEW a \in Nat, NEW n \in Nat, Reads(a, n)
  PROVE  Bytes(a, n) \in Seq(Byte) /\ Len(Bytes(a, n)) = n /\ Len(Bytes(a, n)) <= Size
<1>1. a + n <= Size /\ Size \in Nat
  BY Layout DEF Reads
<1>2. ASSUME NEW i \in 1 .. n PROVE val[a + i - 1] \in Byte
  <2>1. a + i - 1 \in 0 .. (Size - 1)
    BY <1>1
  <2> QED  BY <2>1 DEF Contents
<1>3. Bytes(a, n) \in [1 .. n -> Byte]
  BY <1>2 DEF Bytes
<1> QED
  BY <1>1, <1>3

(* Reading at the place of a field reads the field.                        *)
LEMMA BytesOfField ==
  ASSUME NEW k \in Keys
  PROVE  Bytes(Offset[k], Width[k]) = FieldBytes(k, val) /\ (Reads(Offset[k], Width[k]) <=> Fits(k))
BY DEF Bytes, FieldBytes, Reads, Fits

(* A command that reads shows bytes, and is answered.                      *)
LEMMA Shown ==
  ASSUME val \in Contents, NEW a \in Nat, NEW n \in Nat, Show(a, n)
  PROVE  /\ shown' \in Seq(Byte) /\ Len(shown') <= Size
         /\ DoneOnly("ok") \/ DoneOnly("error")
<1>1. CASE Reads(a, n)
  BY <1>1, BytesType DEF Show
<1>2. CASE ~ Reads(a, n)
  <2>1. shown' = <<>> /\ DoneOnly("error")
    BY <1>2 DEF Show
  <2>2. <<>> \in Seq(Byte) /\ Len(<<>>) <= Size
    BY Layout
  <2> QED  BY <2>1, <2>2
<1> QED
  BY <1>1, <1>2

(* Showing nothing is showing bytes.                                       *)
LEMMA NothingShown ==
  ASSUME shown' = <<>>
  PROVE  shown' \in Seq(Byte) /\ Len(shown') <= Size
BY Layout

(* What the fields say is unchanged where they are.                        *)
LEMMA KeptUnchanged ==
  ASSUME Kept(val), UNCHANGED <<val, promised>>
  PROVE  Kept(val)'
BY DEF Kept

(* A command is answered and the EEPROM left alone.                        *)
LEMMA AnsweredStep ==
  ASSUME AppInv, shell # "off", todo = <<>>, pending = {}, DoneOnly("ok") \/ DoneOnly("error"),
         shown' \in Seq(Byte), Len(shown') <= Size
  PROVE  AppInv'
<1>1. /\ cmd' = NoCmd /\ todo' = <<>> /\ outcome' \in {"ok", "error", "panic"}
      /\ UNCHANGED <<shell, before, up, val, pending, promised>>
  BY DEF DoneOnly, Done, ee
<1>2. TypeInv'
  BY <1>1, EmptySeq DEF AppInv, TypeInv
<1>3. CommandInv'
  BY <1>1 DEF AppInv, CommandInv
<1>4. WritesInv'
  BY <1>1 DEF WritesInv
<1>5. PromiseInv'
  <2>1. Kept(val)
    BY DEF AppInv, PromiseInv
  <2> QED  BY <1>1, <2>1, KeptUnchanged DEF PromiseInv
<1> QED
  BY <1>2, <1>3, <1>4, <1>5 DEF AppInv

(* An erased array is an array of bytes.                                   *)
LEMMA FreshType ==
  Fresh \in Contents
BY AppAssumption DEF Fresh, Contents, Byte

(* The process ends.                                                       *)
LEMMA ClosedStep ==
  ASSUME AppInv, Closed, todo = <<>>, pending = {}, todo' = <<>>, cmd' = NoCmd,
         outcome' \in {"ok", "error", "panic"}, shown' \in Seq(Byte), Len(shown') <= Size
  PROVE  AppInv'
<1>1. /\ shell' = "off" /\ up' = FALSE /\ val' = Fresh /\ pending' = pending
      /\ before' = before /\ promised' = promised
  BY DEF Closed, history
<1>2. TypeInv'
  BY <1>1, FreshType, EmptySeq DEF AppInv, TypeInv
<1>3. CommandInv' /\ WritesInv' /\ PromiseInv'
  BY <1>1 DEF CommandInv, WritesInv, PromiseInv
<1> QED
  BY <1>2, <1>3 DEF AppInv

(* A process begins: every field says what erased bytes say.               *)
LEMMA NewProcessStep ==
  ASSUME AppInv, NEW s \in {"cli", "repl"}, NEW c \in Commands \cup {NoCmd}, NewProcess(s, c)
  PROVE  AppInv'
<1>1. /\ shell = "off" /\ shell' = s /\ cmd' = c /\ up' = TRUE /\ UNCHANGED <<val, pending>>
      /\ todo' = <<>> /\ shown' = <<>> /\ outcome' = "ok" /\ before' = val
      /\ promised' = [k \in Keys |-> {Unset(k)}]
  BY DEF NewProcess
<1>2. val = Fresh /\ todo = <<>> /\ pending = {}
  BY <1>1 DEF AppInv, CommandInv, TypeInv
<1>3. TypeInv'
  <2>1. \A k \in Keys : promised'[k] = {Unset(k)}
    BY <1>1
  <2>2. DOMAIN promised' = Keys
    BY <1>1
  <2>3. shown' \in Seq(Byte) /\ Len(shown') <= Size
    BY <1>1, NothingShown
  <2>4. (DOMAIN promised = Keys /\ \A k \in Keys : promised[k] = {} \/ \E m : promised[k] = {m})'
    BY <2>1, <2>2
  <2>5. todo' \in Seq(WriteType) /\ Len(todo') <= 4
    BY <1>1
  <2> QED  BY <1>1, <1>2, <2>3, <2>4, <2>5, FreshType DEF AppInv, TypeInv
<1>4. CommandInv' /\ WritesInv'
  BY <1>1 DEF CommandInv, WritesInv
<1>5. Kept(val)'
  <2> SUFFICES ASSUME NEW k \in Keys, Fits(k)
               PROVE  Meaning(k, FieldBytes(k, Fresh)) = Unset(k)
    BY <1>1, <1>2 DEF Kept
  <2>1. /\ Offset[k] \in Nat /\ Width[k] \in Nat /\ Size \in Nat /\ Offset[k] + Width[k] <= Size
    BY Layout DEF Fits
  <2>2. ASSUME NEW i \in 1 .. Width[k] PROVE Fresh[Offset[k] + i - 1] = Blank
    <3>1. Offset[k] + i - 1 \in 0 .. (Size - 1)
      BY <2>1
    <3> QED  BY <3>1 DEF Fresh
  <2>3. FieldBytes(k, Fresh) = [i \in 1 .. Width[k] |-> Blank]
    BY <2>2 DEF FieldBytes
  <2> QED  BY <2>3 DEF Unset
<1> QED
  BY <1>3, <1>4, <1>5 DEF AppInv, PromiseInv

(* A line is typed.                                                        *)
LEMMA TypeStep ==
  ASSUME AppInv, NEW c \in Commands, Type(c)
  PROVE  AppInv'
<1>1. /\ shell = "repl" /\ cmd = NoCmd /\ cmd' = c /\ shown' = <<>> /\ before' = val
      /\ UNCHANGED <<up, val, pending, shell, todo, outcome, promised>>
  BY DEF Type, ee
<1>2. todo = <<>> /\ pending = {}
  BY <1>1 DEF AppInv, CommandInv, TypeInv
<1>3. shown' \in Seq(Byte) /\ Len(shown') <= Size
  BY <1>1, NothingShown
<1>4. TypeInv'
  BY <1>1, <1>2, <1>3 DEF AppInv, TypeInv
<1>5. CommandInv' /\ WritesInv'
  BY <1>1, <1>2 DEF CommandInv, WritesInv
<1>6. PromiseInv'
  <2>1. Kept(val)
    BY <1>1, <1>2 DEF AppInv, PromiseInv
  <2> QED  BY <1>1, <2>1, KeptUnchanged DEF PromiseInv
<1> QED
  BY <1>4, <1>5, <1>6 DEF AppInv

(* The writes of a command begin.                                          *)
LEMMA BeginStep ==
  ASSUME AppInv, shell # "off", cmd \in Commands, todo = <<>>, pending = {},
         NEW w \in Seq(WriteType), w # <<>>, Len(w) <= 4, Begin(w),
         shown' \in Seq(Byte), Len(shown') <= Size,
         \/ /\ cmd.op \in OneWrite /\ w = <<TheWrite>>
            /\ cmd.op = "boot" => Fits("boot")
            /\ cmd.op = "setname" => Len(cmd.name) <= NameLen
         \/ cmd.op = "format" /\ shell = "repl" /\ w = FormatWrites
  PROVE  AppInv'
<1>1. todo' = w /\ UNCHANGED <<up, val, pending, shell, cmd, outcome, before, promised>>
  BY DEF Begin, ee, history
<1>2. w # <<>> /\ cmd # NoCmd /\ val = before
  <2>1. cmd # NoCmd
    BY CommandFields
  <2> QED  BY <2>1 DEF AppInv, CommandInv
<1>3. TypeInv'
  <2>1. todo' \in Seq(WriteType) /\ Len(todo') <= 4
    BY <1>1
  <2>2. pending' = {}
    BY <1>1
  <2>3. (DOMAIN promised = Keys /\ \A k \in Keys : promised[k] = {} \/ \E m : promised[k] = {m})'
    BY <1>1 DEF AppInv, TypeInv
  <2>4. (/\ up = (shell # "off") /\ shell \in {"off", "cli", "repl"}
         /\ outcome \in {"ok", "error", "panic"} /\ val \in Contents /\ before \in Contents
         /\ cmd \in Commands \cup {NoCmd})'
    BY <1>1 DEF AppInv, TypeInv
  <2> QED  BY <2>1, <2>2, <2>3, <2>4 DEF TypeInv
<1>4. CommandInv'
  BY <1>1, <1>2 DEF AppInv, CommandInv
<1>5. WritesInv'
  <2>1. CASE /\ cmd.op \in OneWrite /\ w = <<TheWrite>>
             /\ cmd.op = "boot" => Fits("boot")
             /\ cmd.op = "setname" => Len(cmd.name) <= NameLen
    <3>1. TheWrite' = TheWrite
      BY <1>1 DEF TheWrite
    <3> QED  BY <1>1, <1>2, <2>1, <3>1 DEF WritesInv
  <2>2. CASE cmd.op = "format" /\ shell = "repl" /\ w = FormatWrites
    <3>1. ResetTo(0, val)'
      BY <1>1, <1>2 DEF ResetTo
    <3>2. todo' = SubSeq(FormatWrites, 0 + 1, 4)
      BY <1>1, <2>2, FormatFacts
    <3> QED  BY <1>1, <2>2, <3>1, <3>2 DEF WritesInv
  <2> QED  BY <2>1, <2>2
<1>6. PromiseInv'
  <2>1. CASE cmd.op # "format"
    <3>1. Kept(val)
      BY DEF AppInv, PromiseInv
    <3> QED  BY <1>1, <3>1, KeptUnchanged DEF PromiseInv
  <2>2. CASE cmd.op = "format"
    BY <1>1, <1>2, <2>2 DEF PromiseInv
  <2> QED  BY <2>1, <2>2
<1> QED
  BY <1>3, <1>4, <1>5, <1>6 DEF AppInv

-----------------------------------------------------------------------------
(* The writes, step by step.                                               *)

(* While there are writes to make, what they are.                          *)
LEMMA WritesShape ==
  ASSUME AppInv, todo # <<>>
  PROVE  /\ cmd \in Commands /\ shell # "off" /\ val \in Contents /\ before \in Contents
         /\ \/ /\ cmd.op \in OneWrite /\ cmd.op # "format" /\ todo = <<TheWrite>> /\ val = before
               /\ cmd.op = "boot" => Fits("boot")
               /\ cmd.op = "setname" => Len(cmd.name) <= NameLen
               /\ TheWrite \in WriteType /\ Len(todo) = 1 /\ Head(todo) = TheWrite
            \/ /\ cmd.op = "format" /\ shell = "repl"
               /\ \E j \in 0 .. 3 : /\ todo = SubSeq(FormatWrites, j + 1, 4) /\ ResetTo(j, val)
                                    /\ Len(todo) = 4 - j /\ Head(todo) = FormatWrites[j + 1]
<1>1. cmd \in Commands /\ shell # "off" /\ val \in Contents /\ before \in Contents
  BY DEF AppInv, TypeInv, CommandInv
<1>2. CASE /\ cmd.op \in OneWrite /\ todo = <<TheWrite>> /\ val = before
           /\ cmd.op = "boot" => Fits("boot")
           /\ cmd.op = "setname" => Len(cmd.name) <= NameLen
  <2>1. TheWrite \in WriteType
    BY <1>1, <1>2, TheWriteType DEF AppInv
  <2>2. Len(todo) = 1 /\ Head(todo) = TheWrite
    BY <1>2
  <2>3. cmd.op # "format"
    BY <1>2 DEF OneWrite
  <2> QED  BY <1>1, <1>2, <2>1, <2>2, <2>3
<1>3. CASE /\ cmd.op = "format" /\ shell = "repl"
           /\ \E j \in 0 .. 3 : todo = SubSeq(FormatWrites, j + 1, 4) /\ ResetTo(j, val)
  <2>1. PICK j \in 0 .. 3 : todo = SubSeq(FormatWrites, j + 1, 4) /\ ResetTo(j, val)
    BY <1>3
  <2> DEFINE f == FormatWrites
  <2>2. f \in Seq(WriteType) /\ Len(f) = 4 /\ todo = SubSeq(f, j + 1, 4)
    BY <2>1, FormatFacts
  <2> HIDE DEF f
  <2>3. Len(todo) = 4 - j /\ Head(todo) = f[j + 1]
    BY <2>2
  <2> QED  BY <1>1, <1>3, <2>1, <2>3 DEF f
<1> QED
  BY <1>2, <1>3 DEF AppInv, WritesInv

(* A write is asked of the EEPROM.                                         *)
LEMMA AskWriteStep ==
  ASSUME AppInv, AskWrite
  PROVE  AppInv'
<1>1. /\ todo # <<>> /\ WriteFits(Head(todo)) /\ pending' = {Head(todo)}
      /\ UNCHANGED <<up, val, shell, cmd, todo, shown, outcome, before, promised>>
  BY DEF AskWrite, history
<1>2. TypeInv'
  BY <1>1 DEF AppInv, TypeInv, WriteFits
<1>3. CommandInv'
  BY <1>1 DEF AppInv, CommandInv
<1>4. WritesInv'
  <2>1. TheWrite' = TheWrite /\ \A j \in 0 .. 3 : ResetTo(j, val)' = ResetTo(j, val)
    BY <1>1 DEF TheWrite, ResetTo
  <2>2. CASE cmd.op \in OneWrite
    BY <1>1, <2>1, <2>2 DEF AppInv, WritesInv, OneWrite
  <2>3. CASE cmd.op = "format"
    BY <1>1, <2>1, <2>3 DEF AppInv, WritesInv, OneWrite
  <2> QED  BY <1>1, <2>2, <2>3 DEF AppInv, WritesInv
<1>5. PromiseInv'
  BY <1>1, KeptUnchanged DEF AppInv, PromiseInv
<1> QED
  BY <1>2, <1>3, <1>4, <1>5 DEF AppInv

(* After a failure a user expects at most one meaning of a field.          *)
LEMMA PromisedFails ==
  ASSUME AppInv, promised' = IfFormat
  PROVE  (DOMAIN promised = Keys /\ \A k \in Keys : promised[k] = {} \/ \E m : promised[k] = {m})'
<1>1. CASE cmd.op = "format"
  <2>1. DOMAIN promised' = Keys /\ \A k \in Keys : promised'[k] = {}
    BY <1>1 DEF IfFormat
  <2> QED  BY <2>1
<1>2. CASE cmd.op # "format"
  BY <1>2 DEF IfFormat, AppInv, TypeInv
<1> QED
  BY <1>1, <1>2

(* A write does not happen, and the command fails.                         *)
LEMMA FailedStep ==
  ASSUME AppInv, todo # <<>>, Done("error"), pending' = {}, promised' = IfFormat,
         UNCHANGED <<up, val, shown>>
  PROVE  AppInv'
<1>1. /\ cmd' = NoCmd /\ todo' = <<>> /\ outcome' = "error"
      /\ UNCHANGED <<shell, before, up, val, shown>>
  BY DEF Done
<1>2. TypeInv'
  <2>1. (DOMAIN promised = Keys /\ \A k \in Keys : promised[k] = {} \/ \E m : promised[k] = {m})'
    BY PromisedFails
  <2>2. todo' \in Seq(WriteType) /\ Len(todo') <= 4
    BY <1>1
  <2> QED  BY <1>1, <2>1, <2>2 DEF AppInv, TypeInv
<1>3. CommandInv' /\ WritesInv'
  BY <1>1 DEF AppInv, CommandInv, WritesInv
<1>4. PromiseInv'
  <2>1. CASE cmd.op = "format"
    <3>1. \A k \in Keys : promised'[k] = {}
      BY <2>1 DEF IfFormat
    <3> QED  BY <3>1 DEF PromiseInv, Kept
  <2>2. CASE cmd.op # "format"
    <3>1. Kept(val) \/ shell = "off"
      BY <2>2 DEF AppInv, PromiseInv
    <3>2. promised' = promised
      BY <2>2 DEF IfFormat
    <3> QED  BY <1>1, <3>1, <3>2, KeptUnchanged DEF PromiseInv
  <2> QED  BY <2>1, <2>2
<1> QED
  BY <1>2, <1>3, <1>4 DEF AppInv

(* What a user expects after a command is still at most one meaning.       *)
LEMMA ExpectedType ==
  ASSUME AppInv, NEW k \in Keys
  PROVE  Expected(k) = {} \/ \E m : Expected(k) = {m}
<1>1. promised[k] = {} \/ \E m : promised[k] = {m}
  BY DEF AppInv, TypeInv
<1>2. CASE cmd.op = "boot" /\ k = "boot"
  <2>1. Expected(k) = {(v + 1) % Base ^ WordLen : v \in promised[k]}
    BY <1>2 DEF Expected
  <2> DEFINE next(v) == (v + 1) % Base ^ WordLen
  <2>2. Expected(k) = {next(v) : v \in promised[k]}
    BY <2>1
  <2> HIDE DEF next
  <2> QED  BY <1>1, <2>2
<1>3. CASE ~ (cmd.op = "boot" /\ k = "boot")
  <2>1. CASE cmd.op = "setname" /\ k = "name"
    BY <2>1 DEF Expected
  <2>2. CASE cmd.op = "set" /\ cmd.key = k
    BY <2>2 DEF Expected
  <2>3. CASE cmd.op = "format"
    BY <2>3 DEF Expected
  <2>4. CASE cmd.op = "write" /\ Touched(k, cmd)
    BY <2>4 DEF Expected
  <2>5. CASE /\ ~ (cmd.op = "setname" /\ k = "name") /\ ~ (cmd.op = "set" /\ cmd.key = k)
             /\ cmd.op # "format" /\ ~ (cmd.op = "write" /\ Touched(k, cmd))
    <3>1. Expected(k) = promised[k]
      BY <1>3, <2>5 DEF Expected
    <3> QED  BY <1>1, <3>1
  <2> QED  BY <2>1, <2>2, <2>3, <2>4, <2>5
<1> QED
  BY <1>2, <1>3

(* A write of a field sets it, and leaves the meaning of the others.       *)
LEMMA SetOneField ==
  ASSUME Kept(val), val \in Contents, NEW l \in Keys, NEW data, NEW x, FieldData(l, data, x),
         val' = EE!Updated(val, SetField(l, data))
  PROVE  /\ Fits(l) => Meaning(l, FieldBytes(l, val')) = x
         /\ \A k \in Keys : k # l =>
              \A m \in promised[k] : Fits(k) => Meaning(k, FieldBytes(k, val')) = m
<1>1. data \in Seq(Byte) /\ Len(data) = Width[l] /\ Meaning(l, data) = x
  BY DEF FieldData
<1>2. ASSUME Fits(l) PROVE Meaning(l, FieldBytes(l, val')) = x
  <2>1. FieldBytes(l, val') = data
    BY <1>1, <1>2, FieldWritten
  <2> QED  BY <1>1, <2>1
<1>3. ASSUME NEW k \in Keys, k # l, NEW m \in promised[k], Fits(k)
      PROVE  Meaning(k, FieldBytes(k, val')) = m
  <2>1. ~ Touched(k, SetField(l, data))
    BY <1>1, <1>3, OtherField
  <2>2. SetField(l, data) \in WriteType
    BY <1>1, FieldWriteType
  <2>3. FieldBytes(k, val') = FieldBytes(k, val)
    BY <1>3, <2>1, <2>2, FieldUntouched
  <2> QED  BY <1>3, <2>3 DEF Kept
<1> QED
  BY <1>2, <1>3

(* After its one write a command has given each field what is expected.    *)
LEMMA OneWriteKeeps ==
  ASSUME AppInv, Kept(val), val = before, cmd \in Commands, cmd.op \in OneWrite,
         cmd.op = "boot" => Fits("boot"), cmd.op = "setname" => Len(cmd.name) <= NameLen,
         val' = EE!Updated(val, TheWrite), NEW k \in Keys, NEW m \in Expected(k), Fits(k)
  PROVE  Meaning(k, FieldBytes(k, val')) = m
<1>0. TypeInv /\ val \in Contents
  BY DEF AppInv, TypeInv
<1>1. CASE cmd.op = "boot"
  <2>1. PICK data : TheWrite = SetField("boot", data) /\ FieldData("boot", data, NextBoot)
    BY <1>0, <1>1, WhatIsWritten
  <2>2. CASE k = "boot"
    <3>1. Expected(k) = {(v + 1) % Base ^ WordLen : v \in promised[k]}
      BY <1>1, <2>2 DEF Expected
    <3>2. PICK v \in promised[k] : m = (v + 1) % Base ^ WordLen
      BY <3>1
    <3>3. Meaning("boot", FieldBytes("boot", val)) = v
      BY <2>2, <3>2 DEF Kept
    <3>4. m = NextBoot
      BY <3>2, <3>3 DEF NextBoot, Meaning
    <3>5. Fits("boot") => Meaning("boot", FieldBytes("boot", val')) = NextBoot
      BY <1>0, <2>1, SetOneField DEF Keys
    <3> QED  BY <2>2, <3>4, <3>5
  <2>3. CASE k # "boot"
    <3>1. Expected(k) = promised[k]
      BY <1>1, <2>3 DEF Expected
    <3> QED  BY <1>0, <2>1, <2>3, <3>1, SetOneField DEF Keys
  <2> QED  BY <2>2, <2>3
<1>2. CASE cmd.op = "setname"
  <2>1. PICK data : TheWrite = SetField("name", data) /\ FieldData("name", data, cmd.name)
    BY <1>0, <1>2, WhatIsWritten
  <2>2. CASE k = "name"
    <3>1. Expected(k) = {cmd.name}
      BY <1>2, <2>2 DEF Expected
    <3>2. Fits("name") => Meaning("name", FieldBytes("name", val')) = cmd.name
      BY <1>0, <2>1, SetOneField DEF Keys
    <3> QED  BY <2>2, <3>1, <3>2
  <2>3. CASE k # "name"
    <3>1. Expected(k) = promised[k]
      BY <1>2, <2>3 DEF Expected
    <3> QED  BY <1>0, <2>1, <2>3, <3>1, SetOneField DEF Keys
  <2> QED  BY <2>2, <2>3
<1>3. CASE cmd.op = "set"
  <2>1. cmd.key \in Keys
    BY <1>0, <1>3, WhatIsWritten
  <2>2. PICK data : TheWrite = SetField(cmd.key, data) /\ FieldData(cmd.key, data, cmd.value)
    BY <1>0, <1>3, WhatIsWritten
  <2>3. CASE k = cmd.key
    <3>1. Expected(k) = {cmd.value}
      BY <1>3, <2>3 DEF Expected
    <3>2. Fits(cmd.key) => Meaning(cmd.key, FieldBytes(cmd.key, val')) = cmd.value
      BY <1>0, <2>1, <2>2, SetOneField
    <3> QED  BY <2>3, <3>1, <3>2
  <2>4. CASE k # cmd.key
    <3>1. Expected(k) = promised[k]
      BY <1>3, <2>4 DEF Expected
    <3> QED  BY <1>0, <2>1, <2>2, <2>4, <3>1, SetOneField
  <2> QED  BY <2>3, <2>4
<1>4. CASE cmd.op = "write"
  <2>1. TheWrite = WriteOf(cmd.addr, cmd.data) /\ TheWrite \in WriteType
    BY <1>0, <1>4, WhatIsWritten, TheWriteType
  <2>2. ~ Touched(k, cmd)
    BY <1>4 DEF Expected
  <2>3. ~ Touched(k, TheWrite)
    BY <2>1, <2>2 DEF Touched, WriteOf
  <2>4. Expected(k) = promised[k]
    BY <1>4, <2>2 DEF Expected
  <2>5. FieldBytes(k, val') = FieldBytes(k, val)
    BY <1>0, <2>1, <2>3, FieldUntouched
  <2> QED  BY <2>4, <2>5 DEF Kept
<1> QED
  BY <1>1, <1>2, <1>3, <1>4 DEF OneWrite

(* One more field of a format is written.                                  *)
LEMMA ResetStep ==
  ASSUME NEW v \in Contents, NEW j \in 0 .. 3, ResetTo(j, v), WriteFits(FormatWrites[j + 1])
  PROVE  ResetTo(j + 1, EE!Updated(v, FormatWrites[j + 1]))
<1> DEFINE l == FormatOrder[j + 1]
           data == FormatWrites[j + 1].data
           r == FormatWrites[j + 1]
           u == EE!Updated(v, r)
<1>1. /\ l \in Keys /\ r = SetField(l, data) /\ data \in Seq(Byte) /\ Len(data) = Width[l]
  BY FormatFacts DEF FieldData
<1>2. r.addr = Offset[l] /\ r.data = data
  BY <1>1 DEF SetField, WriteOf
<1>3. Fits(l)
  BY <1>1, <1>2 DEF WriteFits, Fits
<1>4. ASSUME NEW i \in 1 .. (j + 1)
      PROVE  Fits(FormatOrder[i]) /\ FieldBytes(FormatOrder[i], u) = FormatWrites[i].data
  <2>1. CASE i = j + 1
    <3>1. FieldBytes(l, EE!Updated(v, SetField(l, data))) = data
      BY <1>1, <1>3, FieldWritten
    <3> QED  BY <1>1, <1>3, <2>1, <3>1
  <2>2. CASE i # j + 1
    <3>1. i \in 1 .. j /\ i \in 1 .. 4 /\ j + 1 \in 1 .. 4
      BY <2>2
    <3>2. Fits(FormatOrder[i]) /\ FieldBytes(FormatOrder[i], v) = FormatWrites[i].data
      BY <3>1 DEF ResetTo
    <3>3. FormatOrder[i] \in Keys /\ FormatOrder[i] # l
      BY <2>2, <3>1, FormatFacts
    <3>4. ~ Touched(FormatOrder[i], SetField(l, data))
      BY <1>1, <3>3, OtherField
    <3>5. SetField(l, data) \in WriteType
      BY <1>1, FieldWriteType
    <3>6. FieldBytes(FormatOrder[i], EE!Updated(v, SetField(l, data)))
            = FieldBytes(FormatOrder[i], v)
      BY <3>2, <3>3, <3>4, <3>5, FieldUntouched
    <3> QED  BY <1>1, <3>2, <3>6
  <2> QED  BY <2>1, <2>2
<1>5. ASSUME NEW x \in 0 .. (Size - 1), x \notin FieldAddrs({FormatOrder[i] : i \in 1 .. (j + 1)})
      PROVE  u[x] = before[x]
  <2>1. x \notin FieldAddrs({FormatOrder[i] : i \in 1 .. j})
    BY <1>5 DEF FieldAddrs
  <2>2. x \notin Offset[l] .. (Offset[l] + Width[l] - 1)
    BY <1>5 DEF FieldAddrs
  <2>3. u[x] = v[x]
    BY <1>1, <1>2, <2>2 DEF EE!Updated
  <2> QED  BY <2>1, <2>3 DEF ResetTo
<1> QED
  BY <1>4, <1>5 DEF ResetTo

(* A write of the EEPROM that is done, and what it was.                    *)
LEMMA Succeeded ==
  ASSUME AppInv, EE!Succeed
  PROVE  /\ todo # <<>> /\ WriteFits(Head(todo)) /\ val' = EE!Updated(val, Head(todo))
         /\ pending' = {} /\ up' = up
<1>1. PICK r \in pending : val' = EE!Updated(val, r) /\ pending' = {} /\ up' = up
  BY DEF EE!Succeed
<1>2. todo # <<>> /\ r = Head(todo) /\ WriteFits(Head(todo))
  BY DEF AppInv, TypeInv
<1> QED
  BY <1>1, <1>2

(* All four fields are written: each has its default.                      *)
LEMMA FormatKeeps ==
  ASSUME NEW v, ResetTo(4, v), NEW k \in Keys
  PROVE  Meaning(k, FieldBytes(k, v)) = Default[k]
<1>1. PICK i \in 1 .. 4 : FormatOrder[i] = k
  BY FormatFacts
<1>2. FieldBytes(k, v) = FormatWrites[i].data
  BY <1>1 DEF ResetTo
<1>3. Meaning(k, FormatWrites[i].data) = Default[k]
  BY <1>1, FormatFacts DEF FieldData
<1> QED
  BY <1>2, <1>3

(* What is left of the writes of a format.                                 *)
LEMMA RestOfFormat ==
  ASSUME NEW j \in 0 .. 3
  PROVE  /\ FormatWrites[j + 1] \in WriteType /\ FormatWrites # <<>>
         /\ j # 3 => /\ Tail(SubSeq(FormatWrites, j + 1, 4)) = SubSeq(FormatWrites, (j + 1) + 1, 4)
                     /\ SubSeq(FormatWrites, (j + 1) + 1, 4) \in Seq(WriteType)
                     /\ Len(SubSeq(FormatWrites, (j + 1) + 1, 4)) = 3 - j
<1> DEFINE f == FormatWrites
           T == WriteType
<1>1. f \in Seq(T) /\ Len(f) = 4
  BY FormatFacts
<1> HIDE DEF f, T
<1>2. f[j + 1] \in T /\ f # <<>>
  <2>1. j + 1 \in 1 .. Len(f)
    BY <1>1
  <2> QED  BY <1>1, <2>1, ElementOfSeq, SMTT(20)
<1>3. ASSUME j # 3
      PROVE  /\ Tail(SubSeq(f, j + 1, 4)) = SubSeq(f, (j + 1) + 1, 4)
             /\ SubSeq(f, (j + 1) + 1, 4) \in Seq(T) /\ Len(SubSeq(f, (j + 1) + 1, 4)) = 3 - j
  <2> DEFINE m == (j + 1) + 1
  <2>1. j + 1 \in 1 .. Len(f) /\ 4 \in j + 1 .. Len(f) /\ m \in Int /\ m <= 4 /\ 4 - m + 1 = 3 - j
    BY <1>1, <1>3
  <2>2. Tail(SubSeq(f, j + 1, 4)) = SubSeq(f, m, 4)
    BY <1>1, <2>1, HeadTailOfSubSeq
  <2>3. ASSUME NEW i \in m .. 4 PROVE f[i] \in T
    <3>1. i \in 1 .. Len(f)
      BY <1>1, <2>1
    <3> QED  BY <1>1, <3>1, ElementOfSeq
  <2> HIDE DEF m
  <2>4. SubSeq(f, m, 4) \in Seq(T) /\ Len(SubSeq(f, m, 4)) = IF m <= 4 THEN 4 - m + 1 ELSE 0
    BY <2>1, <2>3, SubSeqProperties
  <2> QED  BY <2>1, <2>2, <2>4 DEF m
<1> QED
  BY <1>2, <1>3 DEF f, T

(* A write is done: the command, or the next field of a format, goes on.   *)
LEMMA WriteOkStep ==
  ASSUME AppInv, WriteOk
  PROVE  AppInv'
<1>0. /\ todo # <<>> /\ WriteFits(Head(todo)) /\ val' = EE!Updated(val, Head(todo))
      /\ pending' = {} /\ up' = up /\ shown' = shown
  BY Succeeded DEF WriteOk
<1>1. cmd \in Commands /\ shell # "off" /\ val \in Contents /\ before \in Contents
  BY <1>0, WritesShape
<1>2. ASSUME Len(todo) = 1, Kept(val)', val' \in Contents
      PROVE  AppInv'
  <2>1. /\ cmd' = NoCmd /\ todo' = <<>> /\ outcome' = "ok" /\ UNCHANGED <<shell, before>>
        /\ promised' = [k \in Keys |-> Expected(k)]
    BY <1>2 DEF WriteOk, Done
  <2>2. (DOMAIN promised = Keys /\ \A k \in Keys : promised[k] = {} \/ \E m : promised[k] = {m})'
    <3>1. DOMAIN promised' = Keys /\ \A k \in Keys : promised'[k] = Expected(k)
      BY <2>1
    <3> QED  BY <3>1, ExpectedType
  <2>3. todo' \in Seq(WriteType) /\ Len(todo') <= 4
    BY <2>1
  <2>4. TypeInv'
    BY <1>0, <1>1, <1>2, <2>1, <2>2, <2>3 DEF AppInv, TypeInv
  <2>5. CommandInv' /\ WritesInv'
    BY <1>1, <2>1 DEF CommandInv, WritesInv
  <2>6. PromiseInv'
    BY <1>2 DEF PromiseInv
  <2> QED  BY <2>4, <2>5, <2>6 DEF AppInv
<1>3. CASE /\ cmd.op \in OneWrite /\ cmd.op # "format" /\ todo = <<TheWrite>> /\ val = before
           /\ cmd.op = "boot" => Fits("boot")
           /\ cmd.op = "setname" => Len(cmd.name) <= NameLen
           /\ TheWrite \in WriteType /\ Len(todo) = 1 /\ Head(todo) = TheWrite
  <2>1. val' = EE!Updated(val, TheWrite) /\ val' \in Contents
    BY <1>0, <1>1, <1>3, UpdatedType
  <2>2. Kept(val)
    BY <1>1, <1>3 DEF AppInv, PromiseInv
  <2>3. promised' = [k \in Keys |-> Expected(k)]
    BY <1>3 DEF WriteOk
  <2>4. Kept(val)'
    <3> SUFFICES ASSUME NEW k \in Keys, NEW m \in Expected(k), Fits(k)
                 PROVE  Meaning(k, FieldBytes(k, val')) = m
      BY <2>3 DEF Kept
    <3> QED  BY <1>1, <1>3, <2>1, <2>2, OneWriteKeeps
  <2> QED  BY <1>2, <1>3, <2>1, <2>4
<1>4. CASE /\ cmd.op = "format" /\ shell = "repl"
           /\ \E j \in 0 .. 3 : /\ todo = SubSeq(FormatWrites, j + 1, 4) /\ ResetTo(j, val)
                                /\ Len(todo) = 4 - j /\ Head(todo) = FormatWrites[j + 1]
  <2>1. PICK j \in 0 .. 3 : /\ todo = SubSeq(FormatWrites, j + 1, 4) /\ ResetTo(j, val)
                            /\ Len(todo) = 4 - j /\ Head(todo) = FormatWrites[j + 1]
    BY <1>4
  <2>2. ResetTo(j + 1, val')
    BY <1>0, <1>1, <2>1, ResetStep
  <2>3. FormatWrites[j + 1] \in WriteType
    BY RestOfFormat
  <2>4. val' \in Contents
    BY <1>0, <1>1, <2>1, <2>3, UpdatedType
  <2>5. CASE j = 3
    <3>1. ResetTo(4, val') /\ Len(todo) = 1
      BY <2>1, <2>2, <2>5
    <3>2. promised' = [k \in Keys |-> Expected(k)]
      BY <3>1 DEF WriteOk
    <3>3. \A k \in Keys : promised'[k] = {Default[k]}
      BY <1>4, <3>2 DEF Expected
    <3>4. Kept(val)'
      BY <3>1, <3>3, FormatKeeps DEF Kept
    <3> QED  BY <1>2, <2>4, <3>1, <3>4
  <2>6. CASE j # 3
    <3>1. j \in 0 .. 2 /\ Len(todo) > 1
      BY <2>1, <2>6
    <3>3. todo' = Tail(todo) /\ UNCHANGED <<shell, cmd, outcome, before, promised>>
      BY <3>1 DEF WriteOk, history
    <3>4. /\ todo' = SubSeq(FormatWrites, (j + 1) + 1, 4) /\ todo' \in Seq(WriteType)
          /\ Len(todo') = 3 - j
      BY <2>1, <2>6, <3>3, RestOfFormat
    <3>5. todo' # <<>> /\ Len(todo') <= 4
      <4>1. Len(todo') \in 1 .. 3
        BY <3>1, <3>4
      <4>2. Len(<<>>) = 0 /\ \A n \in 1 .. 3 : n <= 4 /\ n # 0
        OBVIOUS
      <4> QED  BY <4>1, <4>2, Zenon
    <3>6. TypeInv'
      <4>1. TypeInv /\ pending' = {} /\ UNCHANGED <<up, shown>>
        BY <1>0 DEF AppInv
      <4> QED  BY <2>4, <3>3, <3>4, <3>5, <4>1 DEF TypeInv
    <3>7. CommandInv'
      BY <1>1, <3>3, <3>5, CommandFields DEF CommandInv
    <3>8. WritesInv'
      <4>1. ResetTo(j + 1, val)'
        BY <2>2, <3>3 DEF ResetTo
      <4>2. j + 1 \in 0 .. 3 /\ todo' = SubSeq(FormatWrites, (j + 1) + 1, 4)
        BY <3>1, <3>4
      <4> QED  BY <1>4, <3>3, <4>1, <4>2 DEF WritesInv
    <3>9. PromiseInv'
      BY <1>4, <3>3, <3>5 DEF PromiseInv
    <3> QED  BY <3>6, <3>7, <3>8, <3>9 DEF AppInv
  <2> QED  BY <2>5, <2>6
<1> QED
  BY <1>0, <1>3, <1>4, WritesShape

-----------------------------------------------------------------------------
(* The invariant of the program.                                           *)

(* The invariant holds before the first process.                           *)
LEMMA InitInv == Init => AppInv
<1> SUFFICES ASSUME Init PROVE AppInv
  OBVIOUS
<1>1. TypeInv
  <2>1. /\ up = FALSE /\ val = Fresh /\ pending = {} /\ shell = "off" /\ cmd = NoCmd
        /\ todo = <<>> /\ shown = <<>> /\ outcome = "ok" /\ before = Fresh
        /\ promised = [k \in Keys |-> {Unset(k)}]
    BY DEF Init
  <2>2. \A k \in Keys : promised[k] = {Unset(k)}
    BY <2>1
  <2>3. DOMAIN promised = Keys /\ \A k \in Keys : promised[k] = {} \/ \E m : promised[k] = {m}
    BY <2>1, <2>2
  <2>4. todo \in Seq(WriteType) /\ Len(todo) <= 4 /\ shown \in Seq(Byte) /\ Len(shown) <= Size
    BY <2>1, Layout
  <2> QED  BY <2>1, <2>3, <2>4, FreshType DEF TypeInv
<1>2. CommandInv /\ WritesInv /\ PromiseInv
  BY DEF Init, CommandInv, WritesInv, PromiseInv
<1> QED
  BY <1>1, <1>2 DEF AppInv

(* Every step of the program keeps the invariant.                          *)
LEMMA ProgramStep ==
  ASSUME AppInv, Program
  PROVE  AppInv'
<1>0. TypeInv /\ val \in Contents
  BY DEF AppInv, TypeInv
<1>1. CASE PrintFixed \/ Bad \/ FormatNew
  <2>1. shell # "off" /\ todo = <<>> /\ pending = {} /\ shown' = <<>>
    BY <1>1 DEF PrintFixed, Bad, FormatNew, Serving
  <2>2. DoneOnly("ok") \/ DoneOnly("error")
    BY <1>1 DEF PrintFixed, Bad, FormatNew
  <2> QED  BY <2>1, <2>2, NothingShown, AnsweredStep
<1>2. CASE Quit
  <2>1. /\ cmd.op = "quit" /\ shell # "off" /\ todo = <<>> /\ pending = {} /\ Closed
        /\ cmd' = NoCmd /\ outcome' = "ok" /\ todo' = todo /\ shown' = shown
    BY <1>2 DEF Quit, Serving
  <2>2. shown' \in Seq(Byte) /\ Len(shown') <= Size
    BY <1>0, <2>1 DEF TypeInv
  <2> QED  BY <2>1, <2>2, ClosedStep
<1>3. CASE ReadCmd
  <2>1. shell # "off" /\ todo = <<>> /\ pending = {} /\ cmd.op = "read" /\ Show(cmd.addr, cmd.n)
    BY <1>3 DEF ReadCmd, Serving
  <2>2. cmd.addr \in Nat /\ cmd.n \in Nat
    BY <1>0, <2>1, Serves, CommandFields
  <2> QED  BY <1>0, <2>1, <2>2, Shown, AnsweredStep
<1>4. CASE Dump
  <2>1. /\ shell # "off" /\ todo = <<>> /\ pending = {} /\ cmd.op \in {"dump", "dumprest"}
        /\ Rest(cmd.addr) >= 0
        /\ Show(cmd.addr, IF cmd.op = "dump" THEN cmd.n ELSE Rest(cmd.addr))
    BY <1>4 DEF Dump, Dumping, Serving
  <2>2. cmd.addr \in Nat /\ (cmd.op = "dump" => cmd.n \in Nat)
    BY <1>0, <2>1, Serves, CommandFields
  <2>3. Rest(cmd.addr) \in Nat
    BY <2>1, <2>2, AppAssumption DEF Rest
  <2> QED  BY <1>0, <2>1, <2>2, <2>3, Shown, AnsweredStep
<1>5. CASE DumpUnderflow
  <2>1. /\ shell # "off" /\ todo = <<>> /\ pending = {} /\ cmd.op \in {"dump", "dumprest"}
    BY <1>5 DEF DumpUnderflow, DumpPanics, DumpWraps, Dumping, Serving
  <2>2. CASE shown' = <<>> /\ DoneOnly("error")
    BY <2>1, <2>2, NothingShown, AnsweredStep
  <2>3. CASE Closed /\ cmd' = NoCmd /\ outcome' = "panic" /\ shown' = <<>> /\ UNCHANGED todo
    BY <2>1, <2>3, NothingShown, ClosedStep
  <2>4. CASE cmd.op = "dump" /\ Show(cmd.addr, cmd.n)
    <3>1. cmd.addr \in Nat /\ cmd.n \in Nat
      BY <1>0, <2>1, <2>4, Serves, CommandFields
    <3> QED  BY <1>0, <2>1, <2>4, <3>1, Shown, AnsweredStep
  <2> QED  BY <1>5, <2>2, <2>3, <2>4 DEF DumpUnderflow, DumpPanics, DumpWraps
<1>6. CASE Get
  <2>1. /\ shell # "off" /\ todo = <<>> /\ pending = {} /\ cmd.op = "get"
        /\ Show(Offset[cmd.key], Width[cmd.key])
    BY <1>6 DEF Get, Serving
  <2>2. cmd.key \in Keys
    BY <1>0, <2>1, Serves, CommandFields
  <2>3. Offset[cmd.key] \in Nat /\ Width[cmd.key] \in Nat
    BY <2>2, Layout
  <2> QED  BY <1>0, <2>1, <2>3, Shown, AnsweredStep
<1>7. CASE Boot
  <2>1. shell # "off" /\ todo = <<>> /\ pending = {} /\ Show(0, WordLen)
    BY <1>7 DEF Boot, Serving
  <2> QED  BY <1>0, <2>1, Layout, Shown, AnsweredStep
<1>8. CASE BootInc
  <2>1. shell # "off" /\ todo = <<>> /\ pending = {} /\ cmd.op = "boot" /\ cmd \in Commands
    BY <1>0, <1>8, Serves DEF BootInc, Serving
  <2>2. CASE ~ Reads(0, WordLen)
    <3>1. shown' = <<>> /\ DoneOnly("error")
      BY <1>8, <2>2 DEF BootInc
    <3> QED  BY <2>1, <3>1, NothingShown, AnsweredStep
  <2>3. CASE Reads(0, WordLen)
    <3>1. Bytes(0, WordLen) = FieldBytes("boot", val) /\ Fits("boot")
      BY <2>3, BytesOfField, Layout DEF Keys
    <3>2. val = before
      BY <2>1, CommandFields DEF AppInv, CommandInv
    <3>3. TheWrite = SetField("boot", ToLeBytes(NextBoot))
      BY <2>1 DEF TheWrite, NextBoot
    <3>4. /\ shown' = Bytes(0, WordLen)
          /\ Begin(<<SetField("boot",
                       ToLeBytes((FromLeBytes(Bytes(0, WordLen)) + 1) % Base ^ WordLen))>>)
      BY <1>8, <2>3 DEF BootInc
    <3>5. Begin(<<TheWrite>>)
      BY <3>1, <3>2, <3>3, <3>4 DEF NextBoot
    <3>6. shown' \in Seq(Byte) /\ Len(shown') <= Size
      BY <1>0, <2>3, <3>4, BytesType, Layout
    <3>7. cmd.op \in OneWrite /\ cmd.op # "setname"
      BY <2>1 DEF OneWrite
    <3>8. TheWrite \in WriteType
      BY <1>0, <2>1, <3>1, <3>7, TheWriteType
    <3>9. <<TheWrite>> \in Seq(WriteType) /\ <<TheWrite>> # <<>> /\ Len(<<TheWrite>>) <= 4
      BY <3>8
    <3> QED  BY <2>1, <3>1, <3>5, <3>6, <3>7, <3>9, BeginStep
  <2> QED  BY <2>2, <2>3
<1>9. ASSUME cmd.op \in {"write", "setname", "set"}, shell # "off", todo = <<>>, pending = {},
             shown' = <<>>, cmd.op = "setname" => Len(cmd.name) <= NameLen, Begin(<<TheWrite>>)
      PROVE  AppInv'
  <2>1. cmd \in Commands /\ cmd.op \in OneWrite /\ cmd.op # "boot"
    BY <1>0, <1>9, Serves DEF OneWrite
  <2>2. TheWrite \in WriteType
    BY <1>0, <1>9, <2>1, TheWriteType
  <2>3. <<TheWrite>> \in Seq(WriteType) /\ <<TheWrite>> # <<>> /\ Len(<<TheWrite>>) <= 4
    BY <2>2
  <2> QED  BY <1>9, <2>1, <2>3, NothingShown, BeginStep
<1>10. CASE Write
  <2>1. TheWrite = WriteOf(cmd.addr, cmd.data)
    BY <1>10 DEF Write, Serving, TheWrite
  <2> QED  BY <1>9, <1>10, <2>1 DEF Write, Serving
<1>11. CASE SetName
  <2>1. shell # "off" /\ todo = <<>> /\ pending = {} /\ cmd.op = "setname" /\ shown' = <<>>
    BY <1>11 DEF SetName, Serving
  <2>2. CASE Len(cmd.name) > NameLen
    BY <1>11, <2>1, <2>2, NothingShown, AnsweredStep DEF SetName
  <2>3. CASE ~ (Len(cmd.name) > NameLen)
    <3>1. TheWrite = SetField("name", Padded(cmd.name))
      BY <2>1 DEF TheWrite
    <3>2. cmd.name \in Seq(1 .. Blank)
      BY <1>0, <2>1, Serves, CommandFields
    <3>3. Len(cmd.name) <= NameLen
      BY <2>3, <3>2, Layout
    <3>4. Begin(<<TheWrite>>)
      BY <1>11, <2>3, <3>1 DEF SetName
    <3> QED  BY <1>9, <2>1, <3>3, <3>4
  <2> QED  BY <2>2, <2>3
<1>12. CASE SetBaud
  <2>1. TheWrite = SetField("baud", ToLeBytes(cmd.value))
    BY <1>12 DEF SetBaud, Serving, TheWrite
  <2> QED  BY <1>9, <1>12, <2>1 DEF SetBaud, Serving
<1>13. CASE SetMode
  <2>1. TheWrite = SetField("mode", <<cmd.value>>)
    BY <1>13 DEF SetMode, Serving, TheWrite
  <2> QED  BY <1>9, <1>13, <2>1 DEF SetMode, Serving
<1>14. CASE FormatFields
  <2>1. /\ shell # "off" /\ todo = <<>> /\ pending = {} /\ cmd.op = "format" /\ shell = "repl"
        /\ Begin(FormatWrites) /\ shown' = <<>> /\ cmd \in Commands
    BY <1>0, <1>14, Serves DEF FormatFields, Serving
  <2>2. FormatWrites \in Seq(WriteType) /\ FormatWrites # <<>> /\ Len(FormatWrites) <= 4
    <3>1. FormatWrites \in Seq(WriteType) /\ Len(FormatWrites) = 4
      BY FormatFacts
    <3>2. FormatWrites # <<>>
      BY RestOfFormat
    <3> HIDE DEF FormatWrites
    <3> QED  BY <3>1, <3>2
  <2> QED  BY <2>1, <2>2, NothingShown, BeginStep
<1>15. CASE AskWrite
  BY <1>15, AskWriteStep
<1>16. CASE RefuseWrite
  <2>1. /\ todo # <<>> /\ pending' = {} /\ Done("error") /\ promised' = IfFormat
        /\ UNCHANGED <<up, val, shown>>
    BY <1>16 DEF RefuseWrite, ee
  <2> QED  BY <2>1, FailedStep
<1>17. CASE WriteOk
  BY <1>17, WriteOkStep
<1>18. CASE WriteFails
  <2>1. /\ pending # {} /\ pending' = {} /\ Done("error") /\ promised' = IfFormat
        /\ UNCHANGED <<up, val, shown>>
    BY <1>18 DEF WriteFails, EE!Fail
  <2>2. todo # <<>>
    BY <1>0, <2>1 DEF TypeInv
  <2> QED  BY <2>1, <2>2, FailedStep
<1> QED
  BY <1>1, <1>2, <1>3, <1>4, <1>5, <1>6, <1>7, <1>8, <1>10, <1>11, <1>12, <1>13, <1>14, <1>15,
     <1>16, <1>17, <1>18 DEF Program

(* So does every step.                                                     *)
LEMMA StepInv == AppInv /\ [Next]_vars => AppInv'
<1> SUFFICES ASSUME AppInv, [Next]_vars PROVE AppInv'
  OBVIOUS
<1>1. CASE Program
  BY <1>1, ProgramStep
<1>2. ASSUME NEW c \in Commands, Cli(c) PROVE AppInv'
  BY <1>2, NewProcessStep DEF Cli
<1>3. CASE Repl
  BY <1>3, NewProcessStep DEF Repl
<1>4. ASSUME NEW c \in Commands, Type(c) PROVE AppInv'
  BY <1>4, TypeStep
<1>5. CASE Exit
  <2>1. /\ cmd = NoCmd /\ Closed /\ cmd' = cmd /\ todo' = todo /\ shown' = shown
        /\ outcome' = outcome
    BY <1>5 DEF Exit
  <2>2. todo = <<>> /\ pending = {}
    BY <2>1 DEF AppInv, TypeInv, CommandInv
  <2>3. /\ outcome' \in {"ok", "error", "panic"} /\ shown' \in Seq(Byte) /\ Len(shown') <= Size
        /\ cmd' = NoCmd /\ todo' = <<>>
    BY <2>1, <2>2 DEF AppInv, TypeInv
  <2> QED  BY <2>1, <2>2, <2>3, ClosedStep
<1>6. CASE NewMockFails \/ UNCHANGED vars
  <2>1. /\ UNCHANGED <<up, val, pending, shell, cmd, todo, shown, before, promised>>
        /\ outcome' \in {"error", outcome}
    BY <1>6 DEF NewMockFails, vars, ee, history
  <2>2. TypeInv'
    BY <2>1 DEF AppInv, TypeInv
  <2>3. CommandInv'
    BY <2>1 DEF AppInv, CommandInv
  <2>4. WritesInv'
    <3>1. TheWrite' = TheWrite /\ \A j \in 0 .. 3 : ResetTo(j, val)' = ResetTo(j, val)
      BY <2>1 DEF TheWrite, ResetTo
    <3> QED  BY <2>1, <3>1 DEF AppInv, WritesInv
  <2>5. PromiseInv'
    BY <2>1, KeptUnchanged DEF AppInv, PromiseInv
  <2> QED  BY <2>2, <2>3, <2>4, <2>5 DEF AppInv
<1> QED
  BY <1>1, <1>2, <1>3, <1>4, <1>5, <1>6 DEF Next, User

(* The program keeps its invariant: the writes of a command are those that *)
(* the command is for, what is left of a format is known to be reset in    *)
(* order, and between commands each field says what the user expects.      *)
THEOREM AppInvariant == Spec => []AppInv
<1> QED
  BY InitInv, StepInv, PTL DEF Spec

(* Every variable has its type, no write that reaches the EEPROM runs out  *)
(* of it, and nothing is left of a command that is done.                   *)
THEOREM AppTypeOK == Spec => []TypeOK
<1>1. AppInv => TypeOK
  <2> SUFFICES ASSUME AppInv PROVE TypeOK
    OBVIOUS
  <2>1. \A k \in Keys : Cardinality(promised[k]) <= 1
    <3> SUFFICES ASSUME NEW k \in Keys PROVE Cardinality(promised[k]) <= 1
      OBVIOUS
    <3>1. promised[k] = {} \/ \E m : promised[k] = {m}
      BY DEF AppInv, TypeInv
    <3>2. CASE promised[k] = {}
      <4>1. Cardinality(promised[k]) = 0
        BY <3>2, FS_EmptySet
      <4> QED  BY <4>1
    <3>3. ASSUME NEW m, promised[k] = {m} PROVE Cardinality(promised[k]) <= 1
      <4>1. Cardinality(promised[k]) = 1
        BY <3>3, FS_Singleton
      <4> QED  BY <4>1
    <3> QED  BY <3>1, <3>2, <3>3
  <2>2. \A r \in pending : r.data \in Seq(Byte) /\ r.addr + Len(r.data) <= Size
    <3> SUFFICES ASSUME NEW r \in pending PROVE r.data \in Seq(Byte) /\ r.addr + Len(r.data) <= Size
      OBVIOUS
    <3>1. todo # <<>> /\ r = Head(todo) /\ WriteFits(r) /\ todo \in Seq(WriteType)
      BY DEF AppInv, TypeInv
    <3>2. Head(todo) \in WriteType
      BY <3>1, HeadTailProperties
    <3> QED  BY <3>1, <3>2 DEF WriteFits, WriteType
  <2>3. cmd = NoCmd => todo = <<>> /\ pending = {}
    BY DEF AppInv, TypeInv, CommandInv
  <2>4. pending \subseteq (IF todo = <<>> THEN {} ELSE {Head(todo)})
    BY DEF AppInv, TypeInv
  <2> QED  BY <2>1, <2>2, <2>3, <2>4 DEF AppInv, TypeInv, TypeOK, Contents
<1> QED
  BY <1>1, AppInvariant, PTL

-----------------------------------------------------------------------------
(* What a command shows and does.                                          *)

(* While a command is carried out, only the program takes steps.           *)
LEMMA CommandRuns ==
  ASSUME AppInv, Next, cmd # NoCmd
  PROVE  Program /\ shell # "off"
<1>1. shell # "off"
  BY DEF AppInv, CommandInv
<1>2. ~ User /\ ~ NewMockFails
  BY <1>1 DEF User, Repl, Exit, Cli, Type, NewProcess, NewMockFails
<1> QED
  BY <1>1, <1>2 DEF Next

(* The steps that carry out the writes of a command.                       *)
WriteSteps == AskWrite \/ RefuseWrite \/ WriteOk \/ WriteFails

(* They are for commands that write, and show nothing.                     *)
LEMMA WriteStepsWrite ==
  ASSUME AppInv, WriteSteps
  PROVE  todo # <<>> /\ cmd.op \in OneWrite \cup {"format"} /\ UNCHANGED shown
<1>1. todo # <<>>
  <2>1. CASE AskWrite \/ RefuseWrite
    BY <2>1 DEF AskWrite, RefuseWrite
  <2>2. CASE WriteOk
    BY <2>2, Succeeded DEF WriteOk
  <2>3. CASE WriteFails
    BY <2>3 DEF WriteFails, EE!Fail, AppInv, TypeInv
  <2> QED  BY <2>1, <2>2, <2>3 DEF WriteSteps
<1>2. cmd.op \in OneWrite \cup {"format"}
  BY <1>1, WritesShape
<1>3. shown' = shown
  BY DEF WriteSteps, AskWrite, RefuseWrite, WriteOk, WriteFails
<1> QED
  BY <1>1, <1>2, <1>3

(* A get shows the field it asks for, or nothing.                          *)
LEMMA ShowKept ==
  ASSUME Kept(val), shown = <<>>, NEW k \in Keys, NEW v \in promised[k], shown' # shown,
         Show(Offset[k], Width[k])
  PROVE  Meaning(k, shown') = v
<1>1. Reads(Offset[k], Width[k]) /\ shown' = Bytes(Offset[k], Width[k])
  BY DEF Show
<1>2. shown' = FieldBytes(k, val) /\ Fits(k)
  BY <1>1, BytesOfField
<1> QED
  BY <1>2 DEF Kept

(* kv get and boot show what was last stored in the field, or nothing when *)
(* the field does not fit, for any interleaving of commands that set it by *)
(* other ways, that write next to it, or that fail.                        *)
THEOREM GetShowsPromised == Spec => ShowsPromised
<1> DEFINE A == \A k \in Keys : \A v \in promised[k] :
                  shown' # shown /\ cmd # NoCmd /\ Asks(k) => Meaning(k, shown') = v
<1>1. AppInv /\ [Next]_vars => [A]_vars
  <2> SUFFICES ASSUME AppInv, Next, NEW k \in Keys, NEW v \in promised[k],
                      shown' # shown, cmd # NoCmd, Asks(k)
               PROVE  Meaning(k, shown') = v
    OBVIOUS
  <2>1. Program
    BY CommandRuns
  <2>2. cmd.op \in {"get", "boot"}
    BY DEF Asks
  <2>3. ~ WriteSteps
    BY WriteStepsWrite
  <2>4. Get \/ Boot \/ BootInc
    BY <2>1, <2>2, <2>3 DEF Program, WriteSteps, PrintFixed, Bad, Quit, ReadCmd, Dump,
       DumpUnderflow, DumpPanics, DumpWraps, Dumping, Write, SetName, SetBaud, SetMode, FormatNew, FormatFields, Serving
  <2>5. todo = <<>> /\ shell # "off"
    BY <2>4 DEF Get, Boot, BootInc, Serving
  <2>6. shown = <<>> /\ Kept(val)
    BY <2>5 DEF AppInv, CommandInv, PromiseInv
  <2>7. CASE Get
    <3>1. cmd.op = "get" /\ k = cmd.key
      BY <2>7 DEF Get, Serving, Asks
    <3>2. Show(Offset[k], Width[k])
      BY <2>7, <3>1 DEF Get
    <3> QED  BY <2>6, <3>2, ShowKept
  <2>8. CASE Boot \/ BootInc
    <3>1. k = "boot"
      BY <2>8 DEF Boot, BootInc, Serving, Asks
    <3>2. Offset[k] = 0 /\ Width[k] = WordLen
      BY <3>1, Layout
    <3>3. Reads(0, WordLen) /\ shown' = Bytes(0, WordLen)
      BY <2>6, <2>8 DEF Boot, BootInc, Show
    <3>4. shown' = FieldBytes(k, val) /\ Fits(k)
      BY <3>2, <3>3, BytesOfField
    <3> QED  BY <2>6, <3>4 DEF Kept
  <2> QED  BY <2>4, <2>7, <2>8
<1> QED
  BY <1>1, AppInvariant, PTL DEF Spec, ShowsPromised

(* The shell's format resets the fields in their order: however it ends,   *)
(* those it has reset come before those it has not, and no byte outside    *)
(* them has changed.                                                       *)
THEOREM FormatResetsInOrder == Spec => FormatInOrder
<1> DEFINE Reset(j) == {FormatOrder[i] : i \in 1 .. j}
           Up(j) == /\ outcome' = "ok" => j = 4
                    /\ \A k \in Reset(j) : Meaning(k, FieldBytes(k, val')) = Default[k]
                    /\ \A x \in (0 .. (Size - 1)) \ FieldAddrs(Reset(j)) : val'[x] = before[x]
           A == shell = "repl" /\ cmd.op = "format" /\ cmd' = NoCmd =>
                  \E j \in 0 .. 4 :
                    LET reset == {FormatOrder[i] : i \in 1 .. j}
                    IN /\ outcome' = "ok" => j = 4
                       /\ \A k \in reset : Meaning(k, FieldBytes(k, val')) = Default[k]
                       /\ \A x \in (0 .. (Size - 1)) \ FieldAddrs(reset) : val'[x] = before[x]
<1>1. ASSUME NEW j \in 0 .. 4, ResetTo(j, val'), outcome' = "ok" => j = 4
      PROVE  Up(j)
  <2>1. ASSUME NEW i \in 1 .. j
        PROVE  Meaning(FormatOrder[i], FieldBytes(FormatOrder[i], val')) = Default[FormatOrder[i]]
    <3>1. i \in 1 .. 4
      OBVIOUS
    <3>2. FieldBytes(FormatOrder[i], val') = FormatWrites[i].data
      BY <1>1 DEF ResetTo
    <3> QED  BY <3>1, <3>2, FormatFacts DEF FieldData
  <2>2. \A x \in (0 .. (Size - 1)) \ FieldAddrs(Reset(j)) : val'[x] = before[x]
    BY <1>1 DEF ResetTo
  <2> QED  BY <1>1, <2>1, <2>2
<1>2. AppInv /\ [Next]_vars => [A]_vars
  <2> SUFFICES ASSUME AppInv, Next, shell = "repl", cmd.op = "format", cmd' = NoCmd
               PROVE  \E j \in 0 .. 4 : Up(j)
    OBVIOUS
  <2>1. cmd # NoCmd
    BY DEF NoCmd
  <2>2. Program
    BY <2>1, CommandRuns
  <2>3. RefuseWrite \/ WriteOk \/ WriteFails
    BY <2>1, <2>2 DEF Program, PrintFixed, Bad, Quit, ReadCmd, Dump, DumpUnderflow,
       DumpPanics, DumpWraps, Dumping, Get, Boot,
       BootInc, Write, SetName, SetBaud, SetMode, FormatNew, FormatFields, Serving, AskWrite, Begin
  <2>4. todo # <<>>
    BY <2>3, WriteStepsWrite DEF WriteSteps
  <2>5. PICK j \in 0 .. 3 : /\ todo = SubSeq(FormatWrites, j + 1, 4) /\ ResetTo(j, val)
                            /\ Len(todo) = 4 - j /\ Head(todo) = FormatWrites[j + 1]
    BY <2>4, WritesShape
  <2>6. CASE RefuseWrite \/ WriteFails
    <3>1. val' = val /\ outcome' = "error"
      BY <2>6 DEF RefuseWrite, WriteFails, EE!Fail, Done, ee
    <3>2. Up(j)
      BY <1>1, <2>5, <3>1
    <3> QED  BY <3>2
  <2>7. CASE WriteOk
    <3>1. ~ (Len(todo) > 1)
      BY <2>1, <2>7 DEF WriteOk
    <3>2. j + 1 = 4
      BY <2>5, <3>1
    <3>3. WriteFits(FormatWrites[j + 1]) /\ val' = EE!Updated(val, FormatWrites[j + 1])
      BY <2>5, <2>7, Succeeded DEF WriteOk
    <3>4. val \in Contents
      BY DEF AppInv, TypeInv
    <3>5. ResetTo(j + 1, val')
      BY <2>5, <3>3, <3>4, ResetStep
    <3>6. Up(4)
      BY <1>1, <3>2, <3>5
    <3> QED  BY <3>6
  <2> QED  BY <2>3, <2>6, <2>7
<1> QED
  BY <1>2, AppInvariant, PTL DEF Spec, FormatInOrder
=============================================================================
