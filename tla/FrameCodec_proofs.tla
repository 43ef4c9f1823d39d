--------------------------- MODULE FrameCodec_proofs ---------------------------
(***************************************************************************)
(* Where the bytes of a frame are, and that the receiver makes of it what  *)
(* the sender meant, for any layout and any checksum.                      *)
(***************************************************************************)
EXTENDS FrameCodec, TLAPS

USE DEF Byte, U16, LenIdx, Header

\* What the assumptions say of the sizes.
LEMMA Layout ==
  /\ Base \in Nat /\ Base > 7
  /\ Width \in Nat /\ Width > Base
  /\ Sync \in Seq(Byte) /\ Len(Sync) \in Nat /\ Len(Sync) > 0
<1>1. Base \in Nat /\ Base > 7 /\ Sync \in Seq(Byte) /\ Len(Sync) > 0
  BY LayoutAssumption
<1>2. Len(Sync) \in Nat
  BY <1>1
<1>3. Width \in Nat /\ Width > Base
  <2>1. Base * Base >= 8 * Base
    BY <1>1
  <2> QED
    BY <1>1, <2>1 DEF Width
<1> QED
  BY <1>1, <1>2, <1>3

\* Two bytes are an unsigned short.
LEMMA TwoBytes ==
  ASSUME NEW a \in Byte, NEW b \in Byte
  PROVE  a * Base \in U16 /\ a * Base + b \in U16
<1>1. Base \in Nat /\ Base > 1 /\ a \in Nat /\ a <= Base - 1 /\ b \in Nat /\ b <= Base - 1
  BY Layout
<1>2. a * Base \in Nat /\ a * Base <= (Base - 1) * Base
  BY <1>1
<1>3. (Base - 1) * Base = Width - Base
  BY <1>1 DEF Width
<1>4. Width \in Nat
  BY Layout
<1> HIDE DEF Byte
<1> QED
  BY <1>1, <1>2, <1>3, <1>4

\* An unsigned short is two bytes.
LEMMA Digits ==
  ASSUME NEW n \in U16
  PROVE  /\ n \div Base \in Byte /\ n % Base \in Byte
         /\ (n \div Base) * Base + (n % Base) = n
<1>1. Base \in Nat /\ Base > 1 /\ n \in Nat /\ n < Base * Base
  BY Layout DEF Width
<1> DEFINE q == n \div Base
           r == n % Base
<1>2. q \in Int /\ r \in 0..(Base - 1) /\ n = Base * q + r
  BY <1>1
<1> HIDE DEF q, r
<1>3. q >= 0
  <2>1. CASE q <= -1
    <3>1. Base * q <= Base * (-1)
      BY <1>1, <1>2, <2>1
    <3> QED
      BY <1>1, <1>2, <3>1
  <2> QED
    BY <1>2, <2>1
<1>4. q < Base
  <2>1. CASE q >= Base
    <3>1. Base * q >= Base * Base
      BY <1>1, <1>2, <2>1
    <3> QED
      BY <1>1, <1>2, <3>1
  <2> QED
    BY <1>1, <1>2, <2>1
<1>5. q * Base = Base * q
  BY <1>1, <1>2
<1>6. q \in Byte /\ r \in Byte /\ q * Base + r = n
  BY <1>1, <1>2, <1>3, <1>4, <1>5
<1>7. q = n \div Base /\ r = n % Base
  BY DEF q, r
<1> HIDE DEF Byte
<1> QED
  BY ONLY <1>6, <1>7

\* Two bytes read together are a number, and no other two bytes are the same one.
LEMMA ReadBack ==
  ASSUME NEW n \in U16
  PROVE  Bytes(n) \in Seq(Byte) /\ Value(n \div Base, n % Base) = n
BY Digits DEF Bytes, Value

\* What concatenation puts where.
LEMMA Concat ==
  ASSUME NEW S, NEW s \in Seq(S), NEW t \in Seq(S)
  PROVE  /\ s \o t \in Seq(S) /\ Len(s \o t) = Len(s) + Len(t)
         /\ \A i \in 1..Len(s) : (s \o t)[i] = s[i]
         /\ \A i \in 1..Len(t) : (s \o t)[Len(s) + i] = t[i]
OBVIOUS

LEMMA TwoMore ==
  ASSUME NEW S, NEW s \in Seq(S), NEW x \in S, NEW y \in S
  PROVE  /\ s \o <<x, y>> \in Seq(S) /\ Len(s \o <<x, y>>) = Len(s) + 2
         /\ \A i \in 1..Len(s) : (s \o <<x, y>>)[i] = s[i]
         /\ (s \o <<x, y>>)[Len(s) + 1] = x /\ (s \o <<x, y>>)[Len(s) + 2] = y
<1>1. <<x, y>> \in Seq(S) /\ Len(<<x, y>>) = 2
  OBVIOUS
<1>2. \A i \in 1..2 : (s \o <<x, y>>)[Len(s) + i] = <<x, y>>[i]
  BY <1>1, Concat
<1>3. 1 \in 1..2 /\ 2 \in 1..2 /\ <<x, y>>[1] = x /\ <<x, y>>[2] = y
  OBVIOUS
<1>4. (s \o <<x, y>>)[Len(s) + 1] = x /\ (s \o <<x, y>>)[Len(s) + 2] = y
  BY <1>2, <1>3
<1> QED
  BY <1>1, <1>4, Concat

-----------------------------------------------------------------------------
(* The control byte                                                        *)

LEMMA Bits ==
  ASSUME NEW m \in Message
  PROVE  /\ Control(m) \in Byte
         /\ IsBitSet(Control(m), 0) <=> m.rel
         /\ IsBitSet(Control(m), 1) <=> m.ack
         /\ IsBitSet(Control(m), 2) <=> m.nack
<1>1. 2^0 = 1 /\ 2^1 = 2 /\ 2^2 = 4
  OBVIOUS
<1> DEFINE p == IF m.rel THEN 1 ELSE 0
           q == IF m.ack THEN 1 ELSE 0
           r == IF m.nack THEN 1 ELSE 0
<1>2. Control(m) = p + 2 * q + 4 * r
  BY <1>1 DEF Control, Bit
<1>3. p \in {0, 1} /\ q \in {0, 1} /\ r \in {0, 1}
  OBVIOUS
<1>4. (p = 1 <=> m.rel) /\ (q = 1 <=> m.ack) /\ (r = 1 <=> m.nack)
  OBVIOUS
<1> HIDE DEF p, q, r
<1>5. /\ ((p + 2 * q + 4 * r) \div 1) % 2 = p
      /\ ((p + 2 * q + 4 * r) \div 2) % 2 = q
      /\ ((p + 2 * q + 4 * r) \div 4) % 2 = r
  BY <1>3
<1>6. Control(m) \in Byte
  BY <1>2, <1>3, Layout
<1> QED
  BY <1>1, <1>2, <1>4, <1>5, <1>6 DEF IsBitSet
-----------------------------------------------------------------------------
(* The bytes of a frame                                                    *)

\* What _assmeble_packet puts where, with any checksum.
LEMMA Shape ==
  ASSUME NEW m \in Message, NEW c \in U16,
         Len(m.payload) \in U16, LenCrc(Len(m.payload)) \in U16
  PROVE  LET f == WithChecksum(m, c)
             n == Len(m.payload)
             k == LenCrc(n)
             z == Len(Sync)
         IN  /\ f \in Seq(Byte) /\ Len(f) = Header + n
             /\ \A i \in 1..z : f[i] = Sync[i]
             /\ f[z + 1] = m.seq /\ f[z + 2] = Control(m)
             /\ f[z + 3] = m.cmd \div Base /\ f[z + 4] = m.cmd % Base
             /\ f[z + 5] = c \div Base /\ f[z + 6] = c % Base
             /\ f[z + 7] = n \div Base /\ f[z + 8] = n % Base
             /\ f[z + 9] = k \div Base /\ f[z + 10] = k % Base
             /\ \A i \in 1..n : f[Header + i] = m.payload[i]
<1> DEFINE hi(v) == v \div Base
           lo(v) == v % Base
           b1 == <<m.seq, Control(m)>>
           b2 == b1 \o Bytes(m.cmd)
           b3 == b2 \o Bytes(c)
<1>1. /\ m.seq \in Byte /\ Control(m) \in Byte /\ m.cmd \in U16 /\ m.payload \in Seq(Byte)
  BY Bits DEF Message
<1>4. \A v \in U16 : Bytes(v) = <<hi(v), lo(v)>> /\ hi(v) \in Byte /\ lo(v) \in Byte
  BY Digits DEF Bytes
<1> HIDE DEF hi, lo, Byte
<1>5. b1 \in Seq(Byte) /\ Len(b1) = 2 /\ b1[1] = m.seq /\ b1[2] = Control(m)
  BY <1>1
<1>6. ASSUME NEW s \in Seq(Byte), NEW v \in U16
      PROVE  /\ s \o Bytes(v) \in Seq(Byte) /\ Len(s \o Bytes(v)) = Len(s) + 2
             /\ \A i \in 1..Len(s) : (s \o Bytes(v))[i] = s[i]
             /\ (s \o Bytes(v))[Len(s) + 1] = hi(v) /\ (s \o Bytes(v))[Len(s) + 2] = lo(v)
  <2>1. Bytes(v) = <<hi(v), lo(v)>> /\ hi(v) \in Byte /\ lo(v) \in Byte
    BY <1>4
  <2> QED
    BY <2>1, TwoMore
<1> HIDE DEF b1
<1>7. /\ b2 \in Seq(Byte) /\ Len(b2) = 4 /\ b2[1] = m.seq /\ b2[2] = Control(m)
      /\ b2[3] = hi(m.cmd) /\ b2[4] = lo(m.cmd)
  <2>1. /\ b2 \in Seq(Byte) /\ Len(b2) = Len(b1) + 2
        /\ \A i \in 1..Len(b1) : b2[i] = b1[i]
        /\ b2[Len(b1) + 1] = hi(m.cmd) /\ b2[Len(b1) + 2] = lo(m.cmd)
    BY <1>1, <1>5, <1>6
  <2>2. 1 \in 1..2 /\ 2 \in 1..2
    OBVIOUS
  <2> HIDE DEF b2
  <2> QED
    BY ONLY <1>5, <2>1, <2>2
<1> HIDE DEF b2
<1>8. /\ b3 \in Seq(Byte) /\ Len(b3) = 6 /\ b3[1] = m.seq /\ b3[2] = Control(m)
      /\ b3[3] = hi(m.cmd) /\ b3[4] = lo(m.cmd) /\ b3[5] = hi(c) /\ b3[6] = lo(c)
  <2>1. /\ b3 \in Seq(Byte) /\ Len(b3) = Len(b2) + 2
        /\ \A i \in 1..Len(b2) : b3[i] = b2[i]
        /\ b3[Len(b2) + 1] = hi(c) /\ b3[Len(b2) + 2] = lo(c)
    BY <1>7, <1>6
  <2>2. 1 \in 1..4 /\ 2 \in 1..4 /\ 3 \in 1..4 /\ 4 \in 1..4
    OBVIOUS
  <2> HIDE DEF b3
  <2> QED
    BY ONLY <1>7, <2>1, <2>2
<1> HIDE DEF b3
<1> DEFINE z == Len(Sync)
           a1 == Sync \o b3
<1>2. Sync \in Seq(Byte) /\ z \in Nat
  BY Layout
<1>9. /\ a1 \in Seq(Byte) /\ Len(a1) = z + 6
      /\ \A i \in 1..z : a1[i] = Sync[i]
      /\ \A i \in 1..6 : a1[z + i] = b3[i]
  <2>1. Sync \in Seq(Byte) /\ b3 \in Seq(Byte)
    BY <1>2, <1>8
  <2>2. /\ Sync \o b3 \in Seq(Byte) /\ Len(Sync \o b3) = Len(Sync) + Len(b3)
        /\ \A i \in 1..Len(Sync) : (Sync \o b3)[i] = Sync[i]
        /\ \A i \in 1..Len(b3) : (Sync \o b3)[Len(Sync) + i] = b3[i]
    BY ONLY <2>1, Concat
  <2>3. Len(b3) = 6
    BY <1>8
  <2> QED
    BY ONLY <2>2, <2>3 DEF z, a1
<1> HIDE DEF a1, z
<1> DEFINE n == Len(m.payload)
           a2 == a1 \o Bytes(n)
<1>29. n \in U16 /\ n \in Nat
  OBVIOUS
<1> HIDE DEF n
<1>10. /\ a2 \in Seq(Byte) /\ Len(a2) = z + 8
       /\ \A i \in 1..(z + 6) : a2[i] = a1[i]
       /\ a2[z + 7] = hi(n) /\ a2[z + 8] = lo(n)
  <2>1. /\ Len(a2) = Len(a1) + 2 /\ \A i \in 1..Len(a1) : a2[i] = a1[i]
        /\ a2 \in Seq(Byte) /\ a2[Len(a1) + 1] = hi(n) /\ a2[Len(a1) + 2] = lo(n)
    BY <1>29, <1>6, <1>9
  <2>2. z + 6 + 1 = z + 7 /\ z + 6 + 2 = z + 8
    BY <1>2
  <2> QED
    BY <1>9, <2>1, <2>2
<1> HIDE DEF a2
<1> DEFINE k == LenCrc(n)
           a3 == a2 \o Bytes(k)
<1>30. k \in U16
  BY DEF n
<1> HIDE DEF k
<1>11. /\ a3 \in Seq(Byte) /\ Len(a3) = z + 10
       /\ \A i \in 1..(z + 8) : a3[i] = a2[i]
       /\ a3[z + 9] = hi(k) /\ a3[z + 10] = lo(k)
  <2>1. /\ Len(a3) = Len(a2) + 2 /\ \A i \in 1..Len(a2) : a3[i] = a2[i]
        /\ a3 \in Seq(Byte) /\ a3[Len(a2) + 1] = hi(k) /\ a3[Len(a2) + 2] = lo(k)
    BY <1>30, <1>6, <1>10
  <2>2. z + 8 + 1 = z + 9 /\ z + 8 + 2 = z + 10
    BY <1>2
  <2> QED
    BY <1>10, <2>1, <2>2
<1> HIDE DEF a3
<1> DEFINE p == m.payload
<1>31. p \in Seq(Byte) /\ Len(p) = n
  BY <1>1 DEF n
<1> HIDE DEF p
<1> DEFINE f == a3 \o p
<1>12. /\ f \in Seq(Byte) /\ Len(f) = z + 10 + n
       /\ \A i \in 1..(z + 10) : f[i] = a3[i]
       /\ \A i \in 1..n : f[z + 10 + i] = p[i]
  <2>1. a3 \in Seq(Byte) /\ p \in Seq(Byte) /\ Len(a3) = z + 10 /\ Len(p) = n
    BY <1>31, <1>11
  <2>2. /\ a3 \o p \in Seq(Byte) /\ Len(a3 \o p) = Len(a3) + Len(p)
        /\ \A i \in 1..Len(a3) : (a3 \o p)[i] = a3[i]
        /\ \A i \in 1..Len(p) : (a3 \o p)[Len(a3) + i] = p[i]
    BY ONLY <2>1, Concat
  <2> QED
    BY ONLY <2>1, <2>2 DEF f
<1> HIDE DEF f
<1>13. \A i \in 1..(z + 6) : f[i] = a1[i]
  <2>1. ASSUME NEW i \in 1..(z + 6)
        PROVE  i \in 1..(z + 8) /\ i \in 1..(z + 10)
    BY <1>2
  <2> QED
    BY <1>10, <1>11, <1>12, <2>1
<1>14. f[z + 7] = hi(n) /\ f[z + 8] = lo(n)
  <2>1. z + 7 \in 1..(z + 8) /\ z + 8 \in 1..(z + 8)
        /\ z + 7 \in 1..(z + 10) /\ z + 8 \in 1..(z + 10)
    BY <1>2
  <2> QED
    BY <1>10, <1>11, <1>12, <2>1
<1>15. f[z + 9] = hi(k) /\ f[z + 10] = lo(k)
  <2>1. z + 9 \in 1..(z + 10) /\ z + 10 \in 1..(z + 10)
    BY <1>2
  <2> QED
    BY <1>11, <1>12, <2>1
<1>16. \A i \in 1..6 : f[z + i] = b3[i]
  <2>1. ASSUME NEW i \in 1..6 PROVE z + i \in 1..(z + 6)
    BY <1>2
  <2> QED
    BY <1>9, <1>13, <2>1
<1>17. \A i \in 1..z : f[i] = Sync[i]
  <2>1. ASSUME NEW i \in 1..z PROVE i \in 1..(z + 6)
    BY <1>2
  <2> QED
    BY <1>9, <1>13, <2>1
<1>18. /\ f[z + 1] = m.seq /\ f[z + 2] = Control(m)
       /\ f[z + 3] = hi(m.cmd) /\ f[z + 4] = lo(m.cmd)
       /\ f[z + 5] = hi(c) /\ f[z + 6] = lo(c)
  <2>1. 1 \in 1..6 /\ 2 \in 1..6 /\ 3 \in 1..6 /\ 4 \in 1..6 /\ 5 \in 1..6 /\ 6 \in 1..6
    OBVIOUS
  <2> QED
    BY ONLY <1>8, <1>16, <2>1
<1>19. Header = z + 10
  BY <1>2 DEF z
<1>20. \A v : hi(v) = v \div Base /\ lo(v) = v % Base
  BY DEF hi, lo
<1>21. /\ f \in Seq(Byte) /\ Len(f) = Header + n
       /\ \A i \in 1..n : f[Header + i] = p[i]
  BY <1>12, <1>19
<1>3. WithChecksum(m, c) = f
  BY DEF WithChecksum, Fields, f, a3, k, n, a2, a1, b3, b2, b1, p
<1>22. n = Len(m.payload) /\ k = LenCrc(n) /\ z = Len(Sync) /\ p = m.payload
  BY DEF n, k, z, p
<1> HIDE DEF Header
<1> QED
  BY ONLY <1>3, <1>14, <1>15, <1>17, <1>18, <1>20, <1>21, <1>22

\* What follows the first h elements.
LEMMA Rest ==
  ASSUME NEW S, NEW s \in Seq(S), NEW t \in Seq(S), NEW h \in Nat,
         Len(s) = h + Len(t), \A i \in 1..Len(t) : s[h + i] = t[i]
  PROVE  SubSeq(s, h + 1, Len(s)) = t
<1> DEFINE r == SubSeq(s, h + 1, Len(s))
<1>1. Len(t) \in Nat /\ Len(s) \in Nat
  OBVIOUS
<1>2. r \in Seq(S) /\ Len(r) = Len(t) /\ \A i \in 1..Len(t) : r[i] = s[h + i]
  BY <1>1
<1> HIDE DEF r
<1>3. r = t
  BY <1>1, <1>2
<1> QED
  BY <1>3 DEF r

\* Overwriting two elements of a sequence.
LEMMA TwoOverwritten ==
  ASSUME NEW S, NEW s \in Seq(S), NEW x \in S, NEW a \in 1..Len(s), NEW b \in 1..Len(s)
  PROVE  LET t == [s EXCEPT ![a] = x, ![b] = x]
         IN  /\ t \in Seq(S) /\ Len(t) = Len(s)
             /\ \A i \in 1..Len(s) : t[i] = IF i \in {a, b} THEN x ELSE s[i]
<1> DEFINE r == [s EXCEPT ![a] = x]
           t == [r EXCEPT ![b] = x]
<1>1. r \in Seq(S) /\ Len(r) = Len(s) /\ \A i \in 1..Len(s) : r[i] = IF i = a THEN x ELSE s[i]
  OBVIOUS
<1> HIDE DEF r
<1>2. t \in Seq(S) /\ Len(t) = Len(s) /\ \A i \in 1..Len(s) : t[i] = IF i = b THEN x ELSE r[i]
  BY <1>1
<1>3. t = [s EXCEPT ![a] = x, ![b] = x]
  BY DEF r
<1> HIDE DEF t
<1>4. \A i \in 1..Len(s) : t[i] = IF i \in {a, b} THEN x ELSE s[i]
  BY <1>1, <1>2
<1> QED
  BY <1>2, <1>3, <1>4

\* _checksum_calc: a frame whose checksum is blanked is the frame with none.
LEMMA BlankFrame ==
  ASSUME NEW m \in Message, NEW c \in U16,
         Len(m.payload) \in U16, LenCrc(Len(m.payload)) \in U16
  PROVE  Blank(WithChecksum(m, c)) = WithChecksum(m, 0)
<1> DEFINE f == WithChecksum(m, c)
           g == WithChecksum(m, 0)
           n == Len(m.payload)
           z == Len(Sync)
<1>1. 0 \in U16 /\ 0 \div Base = 0 /\ 0 % Base = 0 /\ z \in Nat /\ n \in Nat
      /\ Header = z + 10 /\ 0 \in Byte
  BY Layout
<1>2. /\ f \in Seq(Byte) /\ Len(f) = Header + n
      /\ \A i \in 1..z : f[i] = Sync[i]
      /\ f[z + 1] = m.seq /\ f[z + 2] = Control(m)
      /\ f[z + 3] = m.cmd \div Base /\ f[z + 4] = m.cmd % Base
      /\ f[z + 7] = n \div Base /\ f[z + 8] = n % Base
      /\ f[z + 9] = LenCrc(n) \div Base /\ f[z + 10] = LenCrc(n) % Base
      /\ \A i \in 1..n : f[Header + i] = m.payload[i]
  BY Shape
<1>3. /\ g \in Seq(Byte) /\ Len(g) = Header + n
      /\ \A i \in 1..z : g[i] = Sync[i]
      /\ g[z + 1] = m.seq /\ g[z + 2] = Control(m)
      /\ g[z + 3] = m.cmd \div Base /\ g[z + 4] = m.cmd % Base
      /\ g[z + 5] = 0 /\ g[z + 6] = 0
      /\ g[z + 7] = n \div Base /\ g[z + 8] = n % Base
      /\ g[z + 9] = LenCrc(n) \div Base /\ g[z + 10] = LenCrc(n) % Base
      /\ \A i \in 1..n : g[Header + i] = m.payload[i]
  BY <1>1, Shape
<1> DEFINE h == Blank(f)
<1>4. h = [f EXCEPT ![z + 5] = 0, ![z + 6] = 0]
  BY <1>1 DEF Blank, ChecksumIdx
<1> HIDE DEF f, g, h, n, z, Header, Byte
<1>5. /\ h \in Seq(Byte) /\ Len(h) = Header + n
      /\ \A i \in 1..(Header + n) : h[i] = IF i \in {z + 5, z + 6} THEN 0 ELSE f[i]
  <2>4. Len(f) = Header + n /\ f \in Seq(Byte)
    BY ONLY <1>2
  <2>5. z + 5 \in 1..(Header + n) /\ z + 6 \in 1..(Header + n)
    BY ONLY <1>1
  <2>1. z + 5 \in 1..Len(f) /\ z + 6 \in 1..Len(f) /\ 0 \in Byte /\ f \in Seq(Byte)
    BY ONLY <1>1, <2>4, <2>5
  <2> DEFINE t == [f EXCEPT ![z + 5] = 0, ![z + 6] = 0]
  <2>2. /\ t \in Seq(Byte) /\ Len(t) = Len(f)
        /\ \A i \in 1..Len(f) : t[i] = IF i \in {z + 5, z + 6} THEN 0 ELSE f[i]
    BY ONLY <2>1, TwoOverwritten
  <2>3. h = t
    BY <1>4
  <2> HIDE DEF t
  <2> QED
    BY <1>2, <2>2, <2>3
<1>6. ASSUME NEW i \in 1..(Header + n) PROVE h[i] = g[i]
  <2>1. i <= z \/ i \in {z + 5, z + 6} \/ i \in {z + 1, z + 2, z + 3, z + 4}
        \/ i \in {z + 7, z + 8, z + 9, z + 10} \/ i > Header
    BY <1>1
  <2>2. CASE i <= z
    <3>1. i \in 1..z /\ i \notin {z + 5, z + 6}
      BY <1>1, <2>2
    <3> QED
      BY <1>2, <1>3, <1>5, <3>1
  <2>3. CASE i \in {z + 5, z + 6}
    BY <1>3, <1>5, <2>3
  <2>4. CASE i \in {z + 1, z + 2, z + 3, z + 4} \/ i \in {z + 7, z + 8, z + 9, z + 10}
    <3>1. i \notin {z + 5, z + 6}
      BY <1>1, <2>4
    <3>2. f[i] = g[i]
      BY <1>2, <1>3, <2>4
    <3> QED
      BY <1>5, <3>1, <3>2
  <2>5. CASE i > Header
    <3>1. PICK j \in 1..n : i = Header + j
      <4>1. i - Header \in 1..n /\ i = Header + (i - Header)
        BY <1>1, <2>5
      <4> QED
        BY <4>1
    <3>2. i \notin {z + 5, z + 6}
      BY <1>1, <2>5
    <3> QED
      BY <1>2, <1>3, <1>5, <3>1, <3>2
  <2> QED
    BY <2>1, <2>2, <2>3, <2>4, <2>5
<1>7. h = g
  BY <1>1, <1>3, <1>5, <1>6
<1> QED
  BY <1>7 DEF f, g, h
-----------------------------------------------------------------------------
(* What the receiver makes of a frame                                      *)

\* An answer is a typed event.
LEMMA Answers ==
  ASSUME NEW seq \in Byte, NEW kind \in {"none", "ack", "nack", "data", "junk"}
  PROVE  Nothing \in Event /\ Answer(kind, seq) \in Event
<1>1. 0 \in Byte /\ 0 \in U16
  BY Layout
<1>2. <<>> \in Seq(Byte)
  OBVIOUS
<1> HIDE DEF Byte, U16
<1> QED
  BY <1>1, <1>2 DEF Nothing, Answer, Event

\* Whatever bytes are in it, a complete frame is processed to a typed event.
LEMMA ProcessedType ==
  ASSUME NEW f \in Seq(Byte), Len(f) >= Header
  PROVE  Processed(f) \in Event
<1>1. Len(Sync) \in Nat /\ Len(Sync) > 0 /\ Len(f) \in Nat
  BY Layout
<1>2. /\ SeqIdx \in 1..Len(f) /\ CmdIdx \in 1..Len(f) /\ CmdIdx + 1 \in 1..Len(f)
  BY <1>1 DEF SeqIdx, CmdIdx
<1> HIDE DEF Byte
<1>3. f[SeqIdx] \in Byte /\ f[CmdIdx] \in Byte /\ f[CmdIdx + 1] \in Byte
  BY <1>2
<1>4. Field(f, CmdIdx) \in U16
  BY <1>3, TwoBytes DEF Field, Value
<1>5. SubSeq(f, Header + 1, Len(f)) \in Seq(Byte)
  <2>1. Header \in Nat
    BY <1>1
  <2> HIDE DEF Header
  <2>2. \A i \in (Header + 1)..Len(f) : i \in 1..Len(f)
    BY <1>1, <2>1
  <2> QED
    BY <1>1, <2>1, <2>2
<1> HIDE DEF Byte, U16, Header
<1>6. Disassembled(f) \in Event
  BY <1>3, <1>4, <1>5 DEF Disassembled, Packet, Event, IsBitSet
<1>7. Answer("ack", f[SeqIdx]) \in Event /\ Answer("nack", f[SeqIdx]) \in Event
      /\ Answer("junk", f[SeqIdx]) \in Event
  BY <1>3, Answers
<1> QED
  BY <1>6, <1>7 DEF Processed

\* Assembling and taking apart (:263-354 against :617-658): whatever the layout,
\* the checksum and the message, a frame that arrives as it was sent is processed as
\* what its sender meant, and an answer is never taken for a packet.
THEOREM RoundTrip ==
  ASSUME NEW m, Sendable(m), LenCrc(Len(m.payload)) \in U16, Checksum(m) \in U16
  PROVE  Processed(FrameOf(m)) = Meaning(m)
<1> DEFINE f == FrameOf(m)
           n == Len(m.payload)
           z == Len(Sync)
<1>1. /\ m \in Message /\ n \in Nat /\ n \in U16 /\ z \in Nat /\ Header = z + 10
      /\ m.cmd \in U16 /\ m.seq \in Byte /\ m.payload \in Seq(Byte)
      /\ m.rel \in BOOLEAN /\ m.ack \in BOOLEAN /\ m.nack \in BOOLEAN
  <2>1. m \in Message /\ Header + n < Width
    BY DEF Sendable
  <2>2. n \in Nat /\ z \in Nat /\ Header = z + 10 /\ Width \in Nat
    BY <2>1, Layout DEF Message
  <2>3. n \in U16
    <3>1. Header + n < Width
      BY <2>1
    <3> HIDE DEF n, Header
    <3> QED
      BY <2>2, <3>1
  <2> HIDE DEF U16, Byte
  <2> QED
    BY <2>1, <2>2, <2>3 DEF Message
<1>2. /\ f \in Seq(Byte) /\ Len(f) = Header + n
      /\ f[z + 1] = m.seq /\ f[z + 2] = Control(m)
      /\ f[z + 3] = m.cmd \div Base /\ f[z + 4] = m.cmd % Base
      /\ f[z + 5] = Checksum(m) \div Base /\ f[z + 6] = Checksum(m) % Base
      /\ f[z + 7] = n \div Base /\ f[z + 8] = n % Base
      /\ \A i \in 1..n : f[Header + i] = m.payload[i]
  BY <1>1, Shape DEF FrameOf
<1>3. Blank(f) = WithChecksum(m, 0)
  BY <1>1, BlankFrame DEF FrameOf
<1> HIDE DEF f, Byte, U16, Header
<1>4. /\ SeqIdx = z + 1 /\ ControlIdx = z + 2 /\ CmdIdx = z + 3 /\ CmdIdx + 1 = z + 4
      /\ ChecksumIdx = z + 5 /\ ChecksumIdx + 1 = z + 6
      /\ LenIdx + 1 = z + 7 /\ LenIdx + 1 + 1 = z + 8
  BY <1>1 DEF SeqIdx, ControlIdx, CmdIdx, ChecksumIdx, LenIdx
<1> HIDE DEF n, z, LenIdx
<1>5. /\ Field(f, CmdIdx) = m.cmd /\ Field(f, ChecksumIdx) = Checksum(m)
      /\ Field(f, LenIdx + 1) = n
  <2>1. /\ Value(m.cmd \div Base, m.cmd % Base) = m.cmd /\ Value(n \div Base, n % Base) = n
        /\ Value(Checksum(m) \div Base, Checksum(m) % Base) = Checksum(m)
    BY <1>1, ReadBack
  <2> QED
    BY <1>2, <1>4, <2>1 DEF Field
<1>6. ChecksumValid(f)
  BY <1>3, <1>5 DEF ChecksumValid, Checksum
<1>7. /\ IsBitSet(f[ControlIdx], 0) <=> m.rel
      /\ IsBitSet(f[ControlIdx], 1) <=> m.ack
      /\ IsBitSet(f[ControlIdx], 2) <=> m.nack
  <2>1. f[ControlIdx] = Control(m)
    BY <1>2, <1>4
  <2> QED
    BY <1>1, <2>1, Bits
<1>8. f[SeqIdx] = m.seq
  BY <1>2, <1>4
<1>9. SubSeq(f, Header + 1, Len(f)) = m.payload
  <2>1. Header \in Nat /\ Len(m.payload) = n
    BY <1>1 DEF n
  <2>2. /\ f \in Seq(Byte) /\ m.payload \in Seq(Byte) /\ Len(f) = Header + Len(m.payload)
        /\ \A i \in 1..Len(m.payload) : f[Header + i] = m.payload[i]
    BY ONLY <1>1, <1>2, <2>1
  <2> QED
    BY ONLY <2>1, <2>2, Rest
<1>10. CASE IsData(m)
  <2>1. ~ IsAcked(f) /\ ~ IsNacked(f)
    BY <1>5, <1>7, <1>10 DEF IsAcked, IsNacked, Says, Sendable
  <2>2. Processed(f) = Disassembled(f)
    BY <1>6, <2>1 DEF Processed
  <2>3. Disassembled(f) = Packet(m.seq, m.rel, m.cmd, m.payload)
    <3>1. IsBitSet(f[ControlIdx], 0) = m.rel
      BY <1>1, <1>7 DEF IsBitSet
    <3> QED
      BY <1>5, <1>8, <1>9, <3>1 DEF Disassembled
  <2> QED
    BY <1>10, <2>2, <2>3 DEF Meaning, IsData, f
<1>11. CASE ~ IsData(m)
  <2>1. m.cmd = 0 /\ n = 0
    BY <1>11 DEF Sendable, n
  <2>4. m.ack \in BOOLEAN /\ m.nack \in BOOLEAN
    BY <1>1
  <2>2. IsAcked(f) <=> m.ack
    BY <1>5, <1>7, <2>1 DEF IsAcked, Says
  <2>3. IsNacked(f) <=> m.nack
    BY <1>5, <1>7, <2>1 DEF IsNacked, Says
  <2> QED
    BY <1>8, <1>11, <2>2, <2>3 DEF Processed, Meaning, IsData, f
<1> QED
  BY <1>10, <1>11

===============================================================================
