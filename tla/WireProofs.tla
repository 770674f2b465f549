----------------------------- MODULE WireProofs -----------------------------
(***************************************************************************)
(* What the two ends of an exchange make of each other's packets, for      *)
(* every request, decision, address and length a packet may be cut to: the *)
(* codec gives back what it was given, and neither end takes a packet for  *)
(* what the other did not say.                                             *)
(*                                                                         *)
(* A packet is known here by what it holds at each offset.  The first part *)
(* is about bytes and addresses, the second about each packet as it is     *)
(* built and read, the third about the exchange.                           *)
(***************************************************************************)
EXTENDS Wire, SequenceTheorems, TLAPS

Octets == Seq(Byte)

\* A packet holds a field at an offset; a packet is what is left of another.
Holds(b, off, f) == off + Len(f) <= Len(b) /\ \A i \in 1 .. Len(f) : b[off + i] = f[i]
Begins(c, b)     == Len(c) <= Len(b) /\ \A i \in 1 .. Len(c) : c[i] = b[i]

-----------------------------------------------------------------------------
(* Bytes.                                                                  *)

LEMMA Pairs == \A v, w \in Byte : <<v, w>> \in Octets /\ Len(<<v, w>>) = 2
  BY DEF Octets

LEMMA Quads == \A u, v, w, x \in Byte : <<u, v, w, x>> \in Octets /\ Len(<<u, v, w, x>>) = 4
  BY DEF Octets

LEMMA Functions ==
  ASSUME NEW S, NEW n \in Nat, NEW f \in [1 .. n -> S]
  PROVE  f \in Seq(S) /\ Len(f) = n
  BY DEF Octets

LEMMA ZerosAre == \A n \in Nat : /\ Zeros(n) \in Octets /\ Len(Zeros(n)) = n
                                 /\ \A i \in 1 .. n : Zeros(n)[i] = 0
  BY Functions DEF Zeros, Byte, Octets

\* What is put after a packet is held at its end, and what it held stays.
LEMMA Put ==
  ASSUME NEW s \in Octets, NEW f \in Octets
  PROVE  /\ s \o f \in Octets /\ Len(s \o f) = Len(s) + Len(f)
         /\ Holds(s \o f, Len(s), f)
         /\ Holds(s \o f, 0, s)
         /\ \A off \in Nat, g \in Octets : Holds(s, off, g) => Holds(s \o f, off, g)
<1>1. /\ s \o f \in Octets /\ Len(s \o f) = Len(s) + Len(f)
      /\ \A i \in 1 .. Len(s) + Len(f) : (s \o f)[i] = IF i <= Len(s) THEN s[i] ELSE f[i - Len(s)]
  BY ConcatProperties DEF Octets
<1>2. Len(s) \in Nat /\ Len(f) \in Nat BY LenProperties DEF Octets
<1>3. ASSUME NEW off \in Nat, NEW g \in Octets, Holds(s, off, g) PROVE Holds(s \o f, off, g)
  <2>1. Len(g) \in Nat BY LenProperties, SMTT(30) DEF Octets
  <2> QED BY <1>1, <1>2, <1>3, <2>1 DEF Holds
<1> QED BY <1>1, <1>2, <1>3 DEF Holds

LEMMA ReadHalf ==
  ASSUME NEW b \in Octets, NEW off \in Nat, NEW v \in Half, Holds(b, off, W16(v))
  PROVE  R16(b, off) = v
<1>1. b[off + 1] = v \div 256 /\ b[off + 2] = v % 256 BY DEF Holds, W16
<1> QED BY <1>1, SMTT(30) DEF R16, Half

LEMMA HalfIsPut == \A v \in Half : W16(v) \in Octets /\ Len(W16(v)) = 2
<1> SUFFICES ASSUME NEW v \in Half PROVE W16(v) \in Octets /\ Len(W16(v)) = 2 OBVIOUS
<1>1. v \in Int /\ 0 <= v /\ v < 65536 BY SMTT(30) DEF Half
<1>2. v \div 256 \in Int /\ 0 <= v \div 256 /\ v \div 256 < 256 BY <1>1
<1>3. v % 256 \in Int /\ 0 <= v % 256 /\ v % 256 < 256 BY <1>1
<1>4. v \div 256 \in Byte /\ v % 256 \in Byte BY <1>2, <1>3 DEF Byte
<1> QED BY <1>4, Pairs DEF W16

LEMMA WordIsPut == \A v \in Word : W32(v) \in Octets /\ Len(W32(v)) = 4
<1> SUFFICES ASSUME NEW v \in Word PROVE W32(v) \in Octets /\ Len(W32(v)) = 4 OBVIOUS
<1>1. v[1] \in Half /\ v[2] \in Half BY DEF Word
<1>2. /\ W16(v[1]) \in Octets /\ Len(W16(v[1])) = 2
      /\ W16(v[2]) \in Octets /\ Len(W16(v[2])) = 2
  BY <1>1, HalfIsPut
<1>3. W16(v[1]) \o W16(v[2]) \in Octets /\ Len(W16(v[1]) \o W16(v[2])) = 2 + 2
  BY <1>2, Put
<1> QED BY <1>3 DEF W32

LEMMA ReadWord ==
  ASSUME NEW b \in Octets, NEW off \in Nat, NEW v \in Word, Holds(b, off, W32(v))
  PROVE  R32(b, off) = v
<1>1. v[1] \in Half /\ v[2] \in Half /\ v = <<v[1], v[2]>> BY DEF Word
<1>2. /\ W16(v[1]) \in Octets /\ Len(W16(v[1])) = 2
      /\ W16(v[2]) \in Octets /\ Len(W16(v[2])) = 2
  BY <1>1, HalfIsPut
<1> DEFINE p == W16(v[1])
           q == W16(v[2])
<1>h. p \in Octets /\ q \in Octets /\ Len(p) = 2 /\ Len(q) = 2 BY <1>2
<1>3. Holds(W32(v), 0, p) /\ Holds(W32(v), 2, q) /\ Len(W32(v)) = 4
  <2> HIDE DEF p, q
  <2>1. Holds(p \o q, 0, p) /\ Holds(p \o q, Len(p), q) /\ Len(p \o q) = Len(p) + Len(q)
    BY <1>h, Put
  <2>2. Holds(p \o q, 0, p) /\ Holds(p \o q, 2, q) /\ Len(p \o q) = 4 BY <1>h, <2>1
  <2> QED BY <2>2 DEF W32, p, q
<1>4. Len(b) \in Nat BY LenProperties DEF Octets
<1>5. Holds(b, off, W16(v[1])) /\ Holds(b, off + 2, W16(v[2]))
  BY <1>2, <1>3, <1>4 DEF Holds
<1>6. R16(b, off) = v[1] /\ R16(b, off + 2) = v[2] BY <1>1, <1>5, ReadHalf
<1>7. off + 4 <= Len(b) BY <1>3 DEF Holds
<1> QED BY <1>1, <1>4, <1>6, <1>7 DEF R32

LEMMA ReadBytes ==
  ASSUME NEW b \in Octets, NEW off \in Nat, NEW f \in Octets, Holds(b, off, f)
  PROVE  Bytes(b, off, Len(f)) = f
<1>1. Len(b) \in Nat /\ Len(f) \in Nat BY LenProperties DEF Octets
<1>2. \A i \in off + 1 .. off + Len(f) : b[i] \in Byte
  BY <1>1, ElementOfSeq DEF Holds, Octets
<1> DEFINE s == SubSeq(b, off + 1, off + Len(f))
<1>3. /\ s \in Seq(Byte) /\ Len(s) = Len(f)
      /\ \A i \in 1 .. Len(f) : s[i] = b[off + 1 + i - 1]
  BY <1>1, <1>2, SubSeqProperties
<1>4. \A i \in 1 .. Len(f) : s[i] = f[i] BY <1>1, <1>3 DEF Holds
<1> QED BY <1>3, <1>4, SeqEqual DEF Bytes, Octets

\* What is left of a packet holds what the packet held, as far as it goes.
LEMMA Left ==
  ASSUME NEW b \in Octets, NEW c \in Octets, Begins(c, b)
  PROVE  /\ Len(c) \in Nat /\ Len(b) \in Nat /\ Len(c) <= Len(b)
         /\ \A i \in 1 .. Len(c) : c[i] = b[i] /\ c[i] \in Byte
         /\ \A off \in Nat, f \in Octets : Holds(b, off, f) /\ off + Len(f) <= Len(c) => Holds(c, off, f)
<1>1. Len(c) \in Nat /\ Len(b) \in Nat BY LenProperties DEF Octets
<1>2. \A i \in 1 .. Len(c) : c[i] \in Byte BY ElementOfSeq DEF Octets
<1>3. ASSUME NEW off \in Nat, NEW f \in Octets, Holds(b, off, f), off + Len(f) <= Len(c)
      PROVE  Holds(c, off, f)
  <2>1. Len(f) \in Nat BY LenProperties DEF Octets
  <2> QED BY <1>1, <1>3, <2>1 DEF Holds, Begins
<1> QED BY <1>1, <1>2, <1>3 DEF Begins

LEMMA CutLeaves ==
  ASSUME NEW b \in Octets, NEW n \in Nat, n < Len(b)
  PROVE  SubSeq(b, 1, n) \in Octets /\ Len(SubSeq(b, 1, n)) = n /\ Begins(SubSeq(b, 1, n), b)
<1>1. Len(b) \in Nat BY LenProperties DEF Octets
<1>2. \A i \in 1 .. n : b[i] \in Byte BY <1>1, ElementOfSeq DEF Octets
<1>3. /\ SubSeq(b, 1, n) \in Octets /\ Len(SubSeq(b, 1, n)) = IF 1 <= n THEN n - 1 + 1 ELSE 0
      /\ \A i \in 1 .. n - 1 + 1 : SubSeq(b, 1, n)[i] = b[1 + i - 1]
  BY <1>2, SubSeqProperties DEF Octets
<1> QED BY <1>1, <1>3 DEF Begins

-----------------------------------------------------------------------------
(* Addresses.                                                              *)

LEMMA HighAndLow ==
  \A v \in Half : /\ v \div 256 \in Byte /\ v % 256 \in Byte
                  /\ W16(v)[1] = v \div 256 /\ W16(v)[2] = v % 256
<1> SUFFICES ASSUME NEW v \in Half
    PROVE  /\ v \div 256 \in Byte /\ v % 256 \in Byte
           /\ W16(v)[1] = v \div 256 /\ W16(v)[2] = v % 256
  OBVIOUS
<1>1. v \in Int /\ 0 <= v /\ v < 65536 BY DEF Half
<1>2. v \div 256 \in Int /\ 0 <= v \div 256 /\ v \div 256 < 256 BY <1>1
<1>3. v % 256 \in Int /\ 0 <= v % 256 /\ v % 256 < 256 BY <1>1
<1>4. W16(v)[1] = v \div 256 /\ W16(v)[2] = v % 256 BY DEF W16
<1> QED BY <1>2, <1>3, <1>4, SMTT(30) DEF Byte

LEMMA Joined ==
  ASSUME NEW v \in Half, NEW b, NEW o \in Nat, b[o + 1] = v \div 256, b[o + 2] = v % 256
  PROVE  R16(b, o) = v
  BY DEF Half, R16

\* Eight groups in sixteen bytes, the high byte first.
LEMMA FlatGroupsAre ==
  ASSUME NEW g \in [1 .. 8 -> Half]
  PROVE  /\ FlatGroups(g) \in Octets /\ Len(FlatGroups(g)) = 16
         /\ \A k \in 1 .. 8 : /\ FlatGroups(g)[2 * k - 1] = g[k] \div 256
                              /\ FlatGroups(g)[2 * k] = g[k] % 256
<1> DEFINE byte(i) == W16(g[(i + 1) \div 2])[2 - (i % 2)]
<1>1. Len(g) = 8 BY Functions
<1>2. FlatGroups(g) = [i \in 1 .. 16 |-> byte(i)] BY <1>1 DEF FlatGroups
<1>3. ASSUME NEW k \in 1 .. 8 PROVE byte(2 * k - 1) = g[k] \div 256 /\ byte(2 * k) = g[k] % 256
  <2>1. (2 * k - 1 + 1) \div 2 = k /\ (2 * k - 1) % 2 = 1 BY <1>3
  <2>2. (2 * k + 1) \div 2 = k /\ (2 * k) % 2 = 0 BY <1>3
  <2>3. byte(2 * k - 1) = W16(g[k])[1] /\ byte(2 * k) = W16(g[k])[2] BY <2>1, <2>2
  <2>4. g[k] \in Half OBVIOUS
  <2> QED BY <2>3, <2>4, HighAndLow
<1>4. ASSUME NEW i \in 1 .. 16 PROVE byte(i) \in Byte
  <2>1. PICK k \in 1 .. 8 : i = 2 * k - 1 \/ i = 2 * k BY <1>4
  <2>2. g[k] \in Half OBVIOUS
  <2>3. byte(i) = g[k] \div 256 \/ byte(i) = g[k] % 256 BY <1>3, <2>1
  <2> QED BY <2>2, <2>3, HighAndLow
<1> HIDE DEF byte
<1>5. FlatGroups(g) \in [1 .. 16 -> Byte] BY <1>2, <1>4
<1>6. \A k \in 1 .. 8 : 2 * k - 1 \in 1 .. 16 /\ 2 * k \in 1 .. 16 OBVIOUS
<1> QED BY <1>2, <1>3, <1>5, <1>6, Functions DEF Octets

LEMMA ReadGroups ==
  ASSUME NEW b \in Octets, NEW off \in Nat, NEW g \in [1 .. 8 -> Half],
         Holds(b, off, FlatGroups(g))
  PROVE  [i \in 1 .. 8 |-> R16(b, off + 2 * (i - 1))] = g
<1>1. ASSUME NEW k \in 1 .. 8 PROVE R16(b, off + 2 * (k - 1)) = g[k]
  <2>1. /\ b[off + (2 * k - 1)] = g[k] \div 256
        /\ b[off + 2 * k] = g[k] % 256
    <3>1. 2 * k - 1 \in 1 .. 16 /\ 2 * k \in 1 .. 16 BY <1>1
    <3>2. /\ b[off + (2 * k - 1)] = FlatGroups(g)[2 * k - 1]
          /\ b[off + 2 * k] = FlatGroups(g)[2 * k]
      BY <3>1, FlatGroupsAre, ZenonT(40) DEF Holds
    <3> QED BY <3>2, FlatGroupsAre
  <2>2. off + 2 * (k - 1) + 1 = off + (2 * k - 1) /\ off + 2 * (k - 1) + 2 = off + 2 * k
        /\ off + 2 * (k - 1) \in Nat
    BY <1>1
  <2>3. g[k] \in Half OBVIOUS
  <2> DEFINE o == off + 2 * (k - 1)
  <2>4. o \in Nat /\ b[o + 1] = g[k] \div 256 /\ b[o + 2] = g[k] % 256 BY <2>1, <2>2
  <2> HIDE DEF o
  <2>5. R16(b, o) = g[k] BY <2>3, <2>4, Joined
  <2> QED BY <2>5 DEF o
<1> QED BY <1>1

LEMMA NoGroups == \A k : Zeros(k) \in [1 .. k -> Half]
<1> SUFFICES ASSUME NEW k PROVE Zeros(k) \in [1 .. k -> Half] OBVIOUS
<1>1. 0 \in Half BY DEF Half
<1> QED BY <1>1, Zenon DEF Zeros

\* The groups of a text with a gap, and of one without.
LEMMA GroupsAre ==
  ASSUME NEW t, t.head \in Seq(Half), t.tail \in Seq(Half), Len(t.head) + Len(t.tail) <= 8
  PROVE  /\ Groups(t) \in [1 .. 8 -> Half]
         /\ SubSeq(Groups(t), 1, Len(t.head)) = t.head
         /\ SubSeq(Groups(t), 8 - Len(t.tail) + 1, 8) = t.tail
<1> DEFINE head == t.head
           tail == t.tail
           n == 8 - Len(head) - Len(tail)
           z == Zeros(n)
           h == head \o z
           g == h \o tail
<1>h. head \in Seq(Half) /\ tail \in Seq(Half) /\ Len(head) + Len(tail) <= 8 OBVIOUS
<1> HIDE DEF head, tail
<1>1. Len(head) \in Nat /\ Len(tail) \in Nat BY <1>h, LenProperties
<1>l. Len(head) + Len(tail) <= 8 BY <1>h, Zenon
<1>2. n \in Nat BY <1>1, <1>l
<1>3. z \in [1 .. n -> Half] BY NoGroups, Zenon
<1>4. z \in Seq(Half) /\ Len(z) = n BY <1>2, <1>3, Functions
<1> HIDE DEF z, n
<1>5. /\ h \in Seq(Half) /\ Len(h) = Len(head) + n
      /\ \A i \in 1 .. Len(head) + n : h[i] = IF i <= Len(head) THEN head[i] ELSE z[i - Len(head)]
  BY <1>h, <1>4, ConcatProperties
<1> HIDE DEF h
<1>6. /\ g \in Seq(Half) /\ Len(g) = Len(h) + Len(tail)
      /\ \A i \in 1 .. Len(h) + Len(tail) : g[i] = IF i <= Len(h) THEN h[i] ELSE tail[i - Len(h)]
  BY <1>h, <1>5, ConcatProperties
<1> HIDE DEF g
<1>7. Len(h) = 8 - Len(tail) /\ Len(g) = 8 BY <1>1, <1>5, <1>6 DEF n
<1>8. g \in [1 .. 8 -> Half] BY <1>6, <1>7, LenProperties
<1>9. SubSeq(g, 1, Len(head)) = head
  <2>1. \A i \in 1 .. Len(head) : g[i] \in Half /\ g[i] = head[i] BY <1>1, <1>2, <1>5, <1>6, <1>7, <1>8
  <2>2. /\ SubSeq(g, 1, Len(head)) \in Seq(Half)
        /\ Len(SubSeq(g, 1, Len(head))) = IF 1 <= Len(head) THEN Len(head) - 1 + 1 ELSE 0
        /\ \A i \in 1 .. Len(head) - 1 + 1 : SubSeq(g, 1, Len(head))[i] = g[1 + i - 1]
    BY <1>1, <2>1, SubSeqProperties
  <2>3. Len(SubSeq(g, 1, Len(head))) = Len(head) BY <1>1, <2>2
  <2>4. \A i \in 1 .. Len(head) : SubSeq(g, 1, Len(head))[i] = head[i] BY <1>1, <2>1, <2>2
  <2> QED BY <1>h, <2>2, <2>3, <2>4, SeqEqual
<1>10. SubSeq(g, 8 - Len(tail) + 1, 8) = tail
  <2> DEFINE m == 8 - Len(tail) + 1
  <2>1. \A i \in m .. 8 : g[i] \in Half BY <1>1, <1>7, <1>8, <1>2, <1>5
  <2>2. /\ SubSeq(g, m, 8) \in Seq(Half)
        /\ Len(SubSeq(g, m, 8)) = IF m <= 8 THEN 8 - m + 1 ELSE 0
        /\ \A i \in 1 .. 8 - m + 1 : SubSeq(g, m, 8)[i] = g[m + i - 1]
    BY <1>1, <2>1, SubSeqProperties
  <2>3. Len(SubSeq(g, m, 8)) = Len(tail) BY <1>1, <2>2
  <2>4. ASSUME NEW i \in 1 .. Len(tail) PROVE SubSeq(g, m, 8)[i] = tail[i]
    <3>1. SubSeq(g, m, 8)[i] = g[m + i - 1] BY <1>1, <2>2
    <3>2. m + i - 1 = Len(h) + i BY <1>1, <1>7
    <3>3. g[Len(h) + i] = tail[(Len(h) + i) - Len(h)]
      <4>1. Len(h) \in Nat BY <1>1, <1>2, <1>5
      <4>2. Len(h) + i \in 1 .. Len(h) + Len(tail) /\ ~(Len(h) + i <= Len(h)) BY <1>1, <4>1
      <4> QED BY <1>6, <4>2
    <3>4. (Len(h) + i) - Len(h) = i BY <1>1, <1>7
    <3> QED BY <3>1, <3>2, <3>3, <3>4
  <2> QED BY <1>h, <2>2, <2>3, <2>4, SeqEqual
<1> QED BY <1>8, <1>9, <1>10 DEF g, h, z, n, head, tail, Groups

\* Four numbers in sixteen bytes.
LEMMA QuadIsPut ==
  ASSUME NEW t, t.quad \in [1 .. 4 -> Byte]
  PROVE  /\ t.quad \in Octets /\ Len(t.quad) = 4
         /\ EncodeIp(t) \in Octets /\ Len(EncodeIp(t)) = 16 /\ Holds(EncodeIp(t), 12, t.quad)
         /\ \A i \in 1 .. 10 : EncodeIp(t)[i] = 0
         /\ EncodeIp(t)[11] = 255 /\ EncodeIp(t)[12] = 255
<1> DEFINE q == t.quad
<1>q. q \in [1 .. 4 -> Byte] OBVIOUS
<1> HIDE DEF q
<1> DEFINE z == Zeros(10)
           f == <<255, 255>>
<1>1. z \in Octets /\ Len(z) = 10 /\ \A i \in 1 .. 10 : z[i] = 0 BY ZerosAre
<1>2. f \in Octets /\ Len(f) = 2
  <2>1. 255 \in Byte BY DEF Byte
  <2> QED BY <2>1, Pairs
<1>3. q \in Octets /\ Len(q) = 4 BY <1>q, Functions DEF Octets
<1> HIDE DEF z
<1>5. f[1] = 255 /\ f[2] = 255 OBVIOUS
<1> HIDE DEF f
<1>6. /\ z \o f \in Octets /\ Len(z \o f) = Len(z) + Len(f) /\ Holds(z \o f, 0, z)
      /\ Holds(z \o f, Len(z), f)
  BY <1>1, <1>2, Put
<1> DEFINE h == z \o f
<1>7. h \in Octets /\ Len(h) = 12 BY <1>1, <1>2, <1>6
<1>8. Holds(h, 0, z) /\ Holds(h, 10, f) BY <1>1, <1>6
<1> HIDE DEF h
<1>9. \A i \in 1 .. 10 : h[i] = 0 BY <1>1, <1>8, SMTT(30) DEF Holds
<1>10. h[11] = 255 /\ h[12] = 255
  <2>1. h[10 + 1] = f[1] /\ h[10 + 2] = f[2] BY <1>2, <1>8 DEF Holds
  <2> QED BY <2>1, <1>5
<1>11. /\ h \o q \in Octets /\ Len(h \o q) = Len(h) + Len(q) /\ Holds(h \o q, 0, h)
      /\ Holds(h \o q, Len(h), q)
  BY <1>3, <1>7, Put
<1>12. \A i \in 1 .. 12 : (h \o q)[i] = h[i] BY <1>7, <1>11 DEF Holds
<1> DEFINE e == h \o q
<1> HIDE DEF e
<1>13. (\A i \in 1 .. 10 : e[i] = 0) /\ e[11] = 255 /\ e[12] = 255
  <2>1. \A i \in 1 .. 12 : e[i] = h[i] BY <1>12 DEF e
  <2>2. e[11] = h[11] /\ e[12] = h[12] BY <2>1
  <2>3. \A i \in 1 .. 10 : e[i] = h[i] BY <2>1
  <2> QED BY <2>2, <2>3, <1>9, <1>10
<1>14. h \o q \in Octets /\ Len(h \o q) = 16 /\ Holds(h \o q, 12, q) BY <1>3, <1>7, <1>11
<1>15. EncodeIp(t) = e
  <2>1. q # <<>> BY <1>3, EmptySeq
  <2> QED BY <2>1 DEF EncodeIp, e, h, z, f, q
<1>16. e \in Octets /\ Len(e) = 16 /\ Holds(e, 12, q) BY <1>14 DEF e
<1> QED BY <1>3, <1>13, <1>15, <1>16 DEF q

LEMMA AddressIsPut ==
  ASSUME NEW t, IsAddress(t) \/ t = Unspecified
  PROVE  EncodeIp(t) \in Octets /\ Len(EncodeIp(t)) = 16
<1>1. CASE t = V4(t.quad) /\ t.quad \in [1 .. 4 -> Byte]
  BY <1>1, QuadIsPut
<1>2. CASE t.quad = <<>> /\ Groups(t) \in [1 .. 8 -> Half]
  BY <1>2, FlatGroupsAre DEF EncodeIp
<1>3. CASE t = V6(t.head, FALSE, <<>>) /\ t.head \in [1 .. 8 -> Half]
  <2>1. t.quad = <<>> /\ t.tail = <<>> BY <1>3 DEF V6
  <2>2. t.head \in Seq(Half) /\ Len(t.head) = 8 BY <1>3, Functions, ZenonT(40)
  <2>3. t.head \in Seq(Half) /\ t.tail \in Seq(Half) /\ Len(t.head) + Len(t.tail) <= 8
    BY <2>1, <2>2, EmptySeq
  <2>4. Groups(t) \in [1 .. 8 -> Half] BY <2>3, GroupsAre
  <2> QED BY <1>2, <2>1, <2>4
<1>4. CASE /\ t = V6(t.head, TRUE, t.tail) /\ t.head \in Seq(Half) /\ t.tail \in Seq(Half)
           /\ Len(t.head) + Len(t.tail) <= 6
  <2>1. t.quad = <<>> BY <1>4 DEF V6
  <2>2. t.head \in Seq(Half) /\ t.tail \in Seq(Half) /\ Len(t.head) + Len(t.tail) <= 6 BY <1>4
  <2>3. Len(t.head) \in Nat /\ Len(t.tail) \in Nat BY <2>2, LenProperties
  <2>4. Len(t.head) + Len(t.tail) <= 8
    <3>1. \A m, n \in Nat : m + n <= 6 => m + n <= 8 OBVIOUS
    <3> QED BY <2>2, <2>3, <3>1
  <2>5. Groups(t) \in [1 .. 8 -> Half] BY <2>2, <2>4, GroupsAre
  <2> QED BY <1>2, <2>1, <2>5
<1>5. CASE t = Unspecified
  <2>1. t.quad = <<>> /\ t.head = <<>> /\ t.tail = <<>> BY <1>5 DEF Unspecified, V6
  <2>2. t.head \in Seq(Half) /\ t.tail \in Seq(Half) /\ Len(t.head) + Len(t.tail) <= 8 BY <2>1
  <2>3. Groups(t) \in [1 .. 8 -> Half] BY <2>2, GroupsAre
  <2> QED BY <1>2, <2>1, <2>3
<1> QED BY <1>1, <1>3, <1>4, <1>5 DEF IsAddress

\* There is at most one gap.
LEMMA OneGap ==
  ASSUME NEW g, NEW r, IsGap(g, r)
  PROVE  (CHOOSE q \in ZeroRuns(g) : IsGap(g, q)) = r
<1> DEFINE q == CHOOSE q \in ZeroRuns(g) : IsGap(g, q)
<1>1. r \in ZeroRuns(g) BY DEF IsGap
<1>2. q \in ZeroRuns(g) /\ IsGap(g, q) BY <1>1
<1> HIDE DEF q
<1>3. /\ r = <<r[1], r[2]>> /\ r[1] \in Nat /\ r[2] \in Nat
      /\ q = <<q[1], q[2]>> /\ q[1] \in Nat /\ q[2] \in Nat
  BY <1>1, <1>2 DEF ZeroRuns
<1>4. /\ q[2] - q[1] < r[2] - r[1] \/ (q[2] - q[1] = r[2] - r[1] /\ r[1] <= q[1])
      /\ r[2] - r[1] < q[2] - q[1] \/ (r[2] - r[1] = q[2] - q[1] /\ q[1] <= r[1])
  BY <1>1, <1>2 DEF IsGap
<1>5. q[1] = r[1] /\ q[2] = r[2] BY <1>3, <1>4
<1>6. q = r BY <1>3, <1>5
<1> QED BY <1>6 DEF q

\* An address comes back from the bytes it was put in as the text it was.
THEOREM AddressComesBack ==
  ASSUME NEW t, IsAddress(t), NEW b \in Octets, NEW off \in Nat, Holds(b, off, EncodeIp(t))
  PROVE  DecodeIp(b, off) = t
<1> DEFINE groups == [i \in 1 .. 8 |-> R16(b, off + 2 * (i - 1))]
<1>1. CASE t = V4(t.quad) /\ t.quad \in [1 .. 4 -> Byte]
  <2> DEFINE e == EncodeIp(t)
  <2>3. /\ t.quad \in Octets /\ Len(t.quad) = 4
        /\ e \in Octets /\ Len(e) = 16 /\ Holds(e, 12, t.quad)
        /\ \A i \in 1 .. 10 : e[i] = 0
        /\ e[11] = 255 /\ e[12] = 255
    BY <1>1, QuadIsPut
  <2>4. Holds(b, off, e) OBVIOUS
  <2> HIDE DEF e
  <2>5. \A i \in 1 .. 16 : b[off + i] = e[i] BY <2>3, <2>4 DEF Holds
  <2>1. \A i \in 1 .. 10 : b[off + i] = 0
    <3>1. \A i \in 1 .. 10 : b[off + i] = e[i] BY <2>5
    <3> QED BY <2>3, <3>1
  <2>6. b[off + 11] = 255 /\ b[off + 12] = 255
    <3>1. b[off + 11] = e[11] /\ b[off + 12] = e[12] BY <2>5
    <3> QED BY <2>3, <3>1
  <2>7. \A k \in 1 .. 5 : groups[k] = 0
    <3> SUFFICES ASSUME NEW k \in 1 .. 5 PROVE groups[k] = 0 OBVIOUS
    <3>1. 2 * k - 1 \in 1 .. 10 /\ 2 * k \in 1 .. 10 OBVIOUS
    <3>2. b[off + (2 * k - 1)] = 0 /\ b[off + 2 * k] = 0 BY <2>1, <3>1
    <3>3. off + 2 * (k - 1) + 1 = off + (2 * k - 1) /\ off + 2 * (k - 1) + 2 = off + 2 * k OBVIOUS
    <3>4. R16(b, off + 2 * (k - 1)) = 0 BY <3>2, <3>3 DEF R16
    <3> QED BY <3>4
  <2>8. groups[6] = 65535
    <3>1. off + 2 * (6 - 1) + 1 = off + 11 /\ off + 2 * (6 - 1) + 2 = off + 12 OBVIOUS
    <3>2. R16(b, off + 2 * (6 - 1)) = 65535 BY <2>6, <3>1 DEF R16
    <3> QED BY <3>2
  <2>9. Mapped(groups) BY <2>7, <2>8 DEF Mapped
  <2>10. Holds(b, off + 12, t.quad)
    <3>1. Len(b) \in Nat BY LenProperties DEF Octets
    <3>2. off + 12 + Len(t.quad) <= Len(b) BY <2>3, <2>4, <3>1 DEF Holds
    <3>3. ASSUME NEW i \in 1 .. 4 PROVE b[(off + 12) + i] = t.quad[i]
      <4>1. e[12 + i] = t.quad[i] BY <2>3 DEF Holds
      <4>2. 12 + i \in 1 .. 16 /\ off + (12 + i) = (off + 12) + i OBVIOUS
      <4>3. b[off + (12 + i)] = e[12 + i] BY <2>3, <2>4, <4>2 DEF Holds
      <4> QED BY <4>1, <4>2, <4>3
    <3> QED BY <2>3, <3>2, <3>3 DEF Holds
  <2>11. Bytes(b, off + 12, 4) = t.quad
    <3>1. off + 12 \in Nat OBVIOUS
    <3> DEFINE o == off + 12
    <3>2. o \in Nat /\ Holds(b, o, t.quad) /\ t.quad \in Octets BY <2>3, <2>10, <3>1
    <3> HIDE DEF o
    <3>3. Bytes(b, o, Len(t.quad)) = t.quad BY <3>2, ReadBytes
    <3> QED BY <2>3, <3>3 DEF o
  <2> QED BY <1>1, <2>9, <2>11 DEF DecodeIp
<1>2. ASSUME t.quad = <<>>, Groups(t) \in [1 .. 8 -> Half] PROVE groups = Groups(t)
  <2>1. Holds(b, off, FlatGroups(Groups(t))) BY <1>2 DEF EncodeIp
  <2> QED BY <1>2, <2>1, ReadGroups
<1>3. CASE /\ t = V6(t.head, FALSE, <<>>) /\ t.head \in [1 .. 8 -> Half]
           /\ ZeroRuns(t.head) = {} /\ ~Mapped(t.head)
  <2>1. t.quad = <<>> /\ t.tail = <<>> BY <1>3 DEF V6
  <2>2. t.head \in Seq(Half) /\ Len(t.head) = 8 BY <1>3, Functions
  <2>7. t.head \in Seq(Half) /\ t.tail \in Seq(Half) /\ Len(t.head) + Len(t.tail) <= 8
    BY <2>1, <2>2, EmptySeq
  <2>3. Groups(t) \in [1 .. 8 -> Half] /\ SubSeq(Groups(t), 1, 8) = t.head
    BY <2>2, <2>7, GroupsAre
  <2>4. Groups(t) \in Seq(Half) /\ Len(Groups(t)) = 8 BY <2>3, Functions
  <2>5. Groups(t) = t.head BY <2>3, <2>4, SubSeqFull
  <2>6. groups = t.head BY <1>2, <2>1, <2>3, <2>5
  <2> QED BY <1>3, <2>6 DEF DecodeIp
<1>4. CASE /\ t = V6(t.head, TRUE, t.tail) /\ t.head \in Seq(Half) /\ t.tail \in Seq(Half)
           /\ Len(t.head) + Len(t.tail) <= 6
           /\ IsGap(Groups(t), <<Len(t.head) + 1, 8 - Len(t.tail)>>)
           /\ ~Mapped(Groups(t))
  <2> DEFINE g == Groups(t)
             r == <<Len(t.head) + 1, 8 - Len(t.tail)>>
  <2>1. t.quad = <<>> BY <1>4 DEF V6
  <2>11. t.head \in Seq(Half) /\ t.tail \in Seq(Half) /\ Len(t.head) + Len(t.tail) <= 6 BY <1>4
  <2>2. Len(t.head) \in Nat /\ Len(t.tail) \in Nat BY <2>11, LenProperties
  <2>12. Len(t.head) + Len(t.tail) <= 8
    <3>1. \A m, n \in Nat : m + n <= 6 => m + n <= 8 OBVIOUS
    <3> QED BY <2>2, <2>11, <3>1
  <2>3. /\ g \in [1 .. 8 -> Half]
        /\ SubSeq(g, 1, Len(t.head)) = t.head
        /\ SubSeq(g, 8 - Len(t.tail) + 1, 8) = t.tail
    BY <2>11, <2>12, GroupsAre
  <2>4. groups = g BY <1>2, <2>1, <2>3
  <2>5. IsGap(g, r) /\ r \in ZeroRuns(g) /\ ~Mapped(g) BY <1>4 DEF IsGap
  <2>6. r[1] - 1 = Len(t.head) /\ r[2] + 1 = 8 - Len(t.tail) + 1 BY <2>2
  <2> HIDE DEF g, r, groups
  <2>7. (CHOOSE q \in ZeroRuns(g) : IsGap(g, q)) = r BY <2>5, OneGap
  <2>8. ZeroRuns(g) # {} BY <2>5
  <2>9. DecodeIp(b, off) = V6(SubSeq(g, 1, r[1] - 1), TRUE, SubSeq(g, r[2] + 1, 8))
    BY <2>4, <2>5, <2>7, <2>8 DEF DecodeIp, groups
  <2>10. DecodeIp(b, off) = V6(t.head, TRUE, t.tail) BY <2>3, <2>6, <2>9
  <2> QED BY <1>4, <2>10
<1> QED BY <1>1, <1>3, <1>4 DEF IsAddress

-----------------------------------------------------------------------------
(* Packets as they are built.                                              *)

\* Three and five fields in a row.
LEMMA Three ==
  ASSUME NEW a \in Octets, NEW b \in Octets, NEW c \in Octets
  PROVE  /\ a \o b \o c \in Octets
         /\ Len(a \o b \o c) = Len(a) + Len(b) + Len(c)
         /\ Holds(a \o b \o c, 0, a)
         /\ Holds(a \o b \o c, Len(a), b)
         /\ Holds(a \o b \o c, Len(a) + Len(b), c)
<1>1. /\ a \o b \in Octets /\ Len(a \o b) = Len(a) + Len(b)
      /\ Holds(a \o b, 0, a) /\ Holds(a \o b, Len(a), b)
  BY Put
<1> DEFINE s == a \o b
<1>2. Len(a) \in Nat /\ Len(b) \in Nat /\ Len(c) \in Nat BY LenProperties DEF Octets
<1>3. s \in Octets BY <1>1
<1> HIDE DEF s
<1>4. /\ s \o c \in Octets /\ Len(s \o c) = Len(s) + Len(c) /\ Holds(s \o c, Len(s), c)
      /\ \A off \in Nat, g \in Octets : Holds(s, off, g) => Holds(s \o c, off, g)
  BY <1>3, Put
<1>5. Holds(s \o c, 0, a) /\ Holds(s \o c, Len(a), b) BY <1>1, <1>2, <1>4 DEF s
<1> QED BY <1>1, <1>4, <1>5 DEF s

LEMMA Five ==
  ASSUME NEW a \in Octets, NEW b \in Octets, NEW c \in Octets, NEW d \in Octets, NEW e \in Octets
  PROVE  /\ a \o b \o c \o d \o e \in Octets
         /\ Len(a \o b \o c \o d \o e) = Len(a) + Len(b) + Len(c) + Len(d) + Len(e)
         /\ Holds(a \o b \o c \o d \o e, 0, a)
         /\ Holds(a \o b \o c \o d \o e, Len(a), b)
         /\ Holds(a \o b \o c \o d \o e, Len(a) + Len(b), c)
         /\ Holds(a \o b \o c \o d \o e, Len(a) + Len(b) + Len(c), d)
         /\ Holds(a \o b \o c \o d \o e, Len(a) + Len(b) + Len(c) + Len(d), e)
<1> DEFINE s == a \o b \o c
<1>1. /\ s \in Octets /\ Len(s) = Len(a) + Len(b) + Len(c)
      /\ Holds(s, 0, a) /\ Holds(s, Len(a), b) /\ Holds(s, Len(a) + Len(b), c)
  BY Three
<1>2. Len(a) \in Nat /\ Len(b) \in Nat /\ Len(c) \in Nat /\ Len(d) \in Nat /\ Len(e) \in Nat
  BY LenProperties DEF Octets
<1> HIDE DEF s
<1> DEFINE r == s \o d
<1>3. /\ r \in Octets /\ Len(r) = Len(s) + Len(d) /\ Holds(r, Len(s), d)
      /\ \A off \in Nat, g \in Octets : Holds(s, off, g) => Holds(r, off, g)
  BY <1>1, Put
<1> HIDE DEF r
<1> DEFINE q == r \o e
<1>4. /\ q \in Octets /\ Len(q) = Len(r) + Len(e) /\ Holds(q, Len(r), e)
      /\ \A off \in Nat, g \in Octets : Holds(r, off, g) => Holds(q, off, g)
  BY <1>3, Put
<1> HIDE DEF q
<1>5. Holds(q, 0, a) /\ Holds(q, Len(a), b) BY <1>1, <1>2, <1>3, <1>4
<1>6. Len(a) + Len(b) \in Nat /\ Holds(q, Len(a) + Len(b), c) BY <1>1, <1>2, <1>3, <1>4
<1>7. Len(a) + Len(b) + Len(c) \in Nat /\ Holds(q, Len(a) + Len(b) + Len(c), d)
  BY <1>1, <1>2, <1>3, <1>4
<1> QED BY <1>1, <1>3, <1>4, <1>5, <1>6, <1>7 DEF q, r, s

\* The options parse when there are none, and when there is one without data.
LEMMA NoOption ==
  ASSUME NEW b \in Octets, NEW off \in Nat, Len(b) = off
  PROVE  OptionsParse(b, off)
<1> DEFINE last == Len(b) + 3
           next(p, o) == o + 4 > Len(b)
                         \/ LET n == R16(b, o + 2) IN o + 4 + n <= Len(b) /\ p[o + 4 + n + Padding(n)]
           f == [o \in off .. last |-> TRUE]
           g == CHOOSE p : p = [o \in off .. last |-> next(p, o)]
<1>1. \A p : \A o \in off .. last : next(p, o) = TRUE
  <2> SUFFICES ASSUME NEW o \in off .. last PROVE o + 4 > Len(b) OBVIOUS
  <2> QED OBVIOUS
<1>2. f = [o \in off .. last |-> next(f, o)] BY <1>1
<1>3. g = [o \in off .. last |-> next(g, o)] BY <1>2
<1>4. off \in off .. last OBVIOUS
<1>5. OptionsParse(b, off) = g[off] BY DEF OptionsParse
<1> HIDE DEF g, next, last, f
<1>6. g[off] = next(g, off) BY <1>3, <1>4
<1> QED BY <1>1, <1>4, <1>5, <1>6

LEMMA OneOption ==
  ASSUME NEW b \in Octets, NEW off \in Nat, Len(b) = off + 4, R16(b, off + 2) = 0
  PROVE  OptionsParse(b, off)
<1> DEFINE last == Len(b) + 3
           next(p, o) == o + 4 > Len(b)
                         \/ LET n == R16(b, o + 2) IN o + 4 + n <= Len(b) /\ p[o + 4 + n + Padding(n)]
           f == [o \in off .. last |-> TRUE]
           g == CHOOSE p : p = [o \in off .. last |-> next(p, o)]
<1>1. \A p : \A o \in off + 1 .. last : next(p, o) = TRUE
  <2> SUFFICES ASSUME NEW o \in off + 1 .. last PROVE o + 4 > Len(b) OBVIOUS
  <2> QED OBVIOUS
<1>2. ASSUME NEW p PROVE next(p, off) <=> p[off + 4]
  <2>1. Padding(0) = 0 BY DEF Padding
  <2>2. off + 4 + 0 <= Len(b) /\ ~(off + 4 > Len(b)) /\ off + 4 + 0 + 0 = off + 4 OBVIOUS
  <2> QED BY <2>1, <2>2
<1>4. off \in off .. last /\ off + 4 \in off .. last /\ off + 4 \in off + 1 .. last OBVIOUS
<1>5. OptionsParse(b, off) = g[off] BY DEF OptionsParse
<1>6. f = [o \in off .. last |-> next(f, o)]
  <2>1. f[off + 4] = TRUE BY <1>4
  <2>2. next(f, off) = TRUE BY <1>2, <2>1
  <2> HIDE DEF next
  <2>3. \A o \in off .. last : next(f, o) = TRUE BY <1>1, <2>2
  <2> QED BY <2>3
<1>3. g = [o \in off .. last |-> next(g, o)] BY <1>6
<1> HIDE DEF g, next, last, f
<1>7. g[off] = next(g, off) /\ g[off + 4] = next(g, off + 4) BY <1>3, <1>4
<1>8. g[off + 4] = TRUE BY <1>1, <1>4, <1>7
<1>9. next(g, off) BY <1>2, <1>8
<1> QED BY <1>5, <1>7, <1>9

LEMMA PcpHeaderIs ==
  ASSUME NEW op \in Byte, NEW life \in Word, NEW client, IsAddress(client)
  PROVE  /\ PcpHeader(op, life, client) \in Octets
         /\ Len(PcpHeader(op, life, client)) = 24
         /\ Holds(PcpHeader(op, life, client), 0, <<2, op, 0, 0>>)
         /\ Holds(PcpHeader(op, life, client), 4, W32(life))
         /\ Holds(PcpHeader(op, life, client), 8, EncodeIp(client))
<1> DEFINE a == <<2, op, 0, 0>>
           b == W32(life)
           c == EncodeIp(client)
<1>1. a \in Octets /\ Len(a) = 4
  <2>1. 2 \in Byte /\ 0 \in Byte BY DEF Byte
  <2> QED BY <2>1, Quads
<1>2. b \in Octets /\ Len(b) = 4 BY WordIsPut
<1>3. c \in Octets /\ Len(c) = 16 BY AddressIsPut
<1>4. PcpHeader(op, life, client) = a \o b \o c BY DEF PcpHeader
<1> HIDE DEF a, b, c
<1>5. /\ a \o b \o c \in Octets /\ Len(a \o b \o c) = 24
      /\ Holds(a \o b \o c, 0, a) /\ Holds(a \o b \o c, 4, b) /\ Holds(a \o b \o c, 8, c)
  <2>1. /\ a \o b \o c \in Octets /\ Len(a \o b \o c) = Len(a) + Len(b) + Len(c)
        /\ Holds(a \o b \o c, 0, a) /\ Holds(a \o b \o c, Len(a), b)
        /\ Holds(a \o b \o c, Len(a) + Len(b), c)
    BY <1>1, <1>2, <1>3, Three
  <2> QED BY <1>1, <1>2, <1>3, <2>1
<1> QED BY <1>4, <1>5 DEF a, b, c

\* What a part of a packet holds, the packet holds.
LEMMA Within ==
  ASSUME NEW b \in Octets, NEW s \in Octets, NEW f \in Octets, NEW off \in Nat, NEW o \in Nat,
         Holds(b, off, s), Holds(s, o, f)
  PROVE  Holds(b, off + o, f)
<1>1. Len(b) \in Nat /\ Len(s) \in Nat /\ Len(f) \in Nat BY LenProperties DEF Octets
<1>2. off + o + Len(f) <= Len(b) BY <1>1 DEF Holds
<1>3. ASSUME NEW i \in 1 .. Len(f) PROVE b[off + o + i] = f[i]
  <2>1. o + i \in 1 .. Len(s) /\ off + (o + i) = off + o + i BY <1>1 DEF Holds
  <2>2. b[off + (o + i)] = s[o + i] BY <2>1 DEF Holds
  <2>3. s[o + i] = f[i] BY DEF Holds
  <2> QED BY <2>1, <2>2, <2>3
<1> QED BY <1>2, <1>3 DEF Holds

LEMMA ReadQuad ==
  ASSUME NEW b, NEW off \in Nat, NEW u, NEW v, NEW w, NEW x, Holds(b, off, <<u, v, w, x>>)
  PROVE  b[off + 1] = u /\ b[off + 2] = v /\ b[off + 3] = w /\ b[off + 4] = x
<1> DEFINE f == <<u, v, w, x>>
<1>1. Len(f) = 4 /\ f[1] = u /\ f[2] = v /\ f[3] = w /\ f[4] = x OBVIOUS
<1> HIDE DEF f
<1>2. Holds(b, off, f) BY DEF f
<1>3. \A i \in 1 .. 4 : b[off + i] = f[i] BY <1>1, <1>2 DEF Holds
<1> QED BY <1>1, <1>3

\* The numbers the packets are built from.
LEMMA Numbers ==
  /\ \A n \in 0 .. 255 : n \in Byte
  /\ 0 \in Half /\ <<0, 0>> \in Word
  /\ \A n \in 0 .. 127 : 128 + n \in Byte
<1>1. \A n \in 0 .. 255 : n \in Byte BY DEF Byte
<1>4. 0 \in Half BY DEF Half
<1>2. <<0, 0>> \in Word BY <1>4 DEF Word
<1>3. \A n \in 0 .. 127 : 128 + n \in 0 .. 255 OBVIOUS
<1> QED BY <1>1, <1>2, <1>3, <1>4

LEMMA OptionIs ==
  /\ EncodeOption(PreferFailure) \in Octets /\ Len(EncodeOption(PreferFailure)) = 4
  /\ Holds(EncodeOption(PreferFailure), 2, W16(0))
<1> DEFINE a == <<2, 0>>
           b == W16(0)
           c == Zeros(0)
<1>1. a \in Octets /\ Len(a) = 2 BY Numbers, Pairs
<1>2. b \in Octets /\ Len(b) = 2 BY Numbers, HalfIsPut
<1>3. c \in Octets /\ Len(c) = 0 BY ZerosAre
<1>4. PreferFailure.code = 2 /\ PreferFailure.data = <<>> /\ Len(<<>>) = 0 /\ Padding(0) = 0
  BY DEF PreferFailure, Padding
<1>5. EncodeOption(PreferFailure) = a \o b \o <<>> \o c BY <1>4 DEF EncodeOption
<1> HIDE DEF a, b, c
<1> DEFINE s == a \o b
<1>6. s \in Octets /\ Len(s) = Len(a) + Len(b) /\ Holds(s, Len(a), b) BY <1>1, <1>2, Put
<1> HIDE DEF s
<1>7. s \o <<>> = s BY <1>6, ConcatEmptySeq DEF Octets
<1>8. /\ s \o c \in Octets /\ Len(s \o c) = Len(s) + Len(c)
      /\ \A off \in Nat, g \in Octets : Holds(s, off, g) => Holds(s \o c, off, g)
  BY <1>3, <1>6, Put
<1>9. Holds(s \o c, 2, b) BY <1>1, <1>2, <1>6, <1>8
<1>10. Len(s \o c) = 4 BY <1>1, <1>2, <1>3, <1>6, <1>8
<1> QED BY <1>5, <1>7, <1>8, <1>9, <1>10 DEF s, b

\* The port a NAT-PMP request suggests.
Suggested(tx) == IF tx.lifetime = <<0, 0>> THEN 0 ELSE tx.external

LEMMA NatpmpMapRequestIs ==
  ASSUME NEW tx, IsRequest(tx), tx.kind = "map"
  PROVE  /\ NatpmpMapRequest(tx) \in Octets /\ Len(NatpmpMapRequest(tx)) = 12
         /\ Holds(NatpmpMapRequest(tx), 0, <<0, IF tx.protocol = "udp" THEN 1 ELSE 2>>)
         /\ Holds(NatpmpMapRequest(tx), 4, W16(tx.internal))
         /\ Holds(NatpmpMapRequest(tx), 6, W16(Suggested(tx)))
         /\ Holds(NatpmpMapRequest(tx), 8, W32(tx.lifetime))
<1> DEFINE op == IF tx.protocol = "udp" THEN 1 ELSE 2
           a == <<0, op>>
           b == W16(0)
           c == W16(tx.internal)
           d == W16(Suggested(tx))
           e == W32(tx.lifetime)
<1>t. tx.internal \in Half /\ Suggested(tx) \in Half /\ tx.lifetime \in Word
  BY Numbers DEF IsRequest, Suggested
<1>1. a \in Octets /\ Len(a) = 2
  <2>1. op \in 0 .. 255 OBVIOUS
  <2> QED BY <2>1, Numbers, Pairs
<1>2. b \in Octets /\ Len(b) = 2 BY Numbers, HalfIsPut
<1>3. c \in Octets /\ Len(c) = 2 BY <1>t, HalfIsPut
<1>4. d \in Octets /\ Len(d) = 2 BY <1>t, HalfIsPut
<1>5. e \in Octets /\ Len(e) = 4 BY <1>t, WordIsPut
<1>6. NatpmpMapRequest(tx) = a \o b \o c \o d \o e BY DEF NatpmpMapRequest, Suggested
<1> HIDE DEF a, b, c, d, e
<1>f. a \in Octets /\ b \in Octets /\ c \in Octets /\ d \in Octets /\ e \in Octets
  BY <1>1, <1>2, <1>3, <1>4, <1>5
<1> DEFINE p == a \o b \o c \o d \o e
<1>7. /\ p \in Octets /\ Len(p) = Len(a) + Len(b) + Len(c) + Len(d) + Len(e)
      /\ Holds(p, 0, a) /\ Holds(p, Len(a) + Len(b), c)
      /\ Holds(p, Len(a) + Len(b) + Len(c), d) /\ Holds(p, Len(a) + Len(b) + Len(c) + Len(d), e)
  BY <1>f, Five
<1> HIDE DEF p
<1>8. Len(p) = 12 /\ Holds(p, 4, c) /\ Holds(p, 6, d) /\ Holds(p, 8, e)
  BY <1>1, <1>2, <1>3, <1>4, <1>5, <1>7
<1> QED BY <1>6, <1>7, <1>8 DEF p, a, c, d, e

LEMMA PcpMapRequestIs ==
  ASSUME NEW tx, IsRequest(tx), tx.kind = "map"
  PROVE  LET p == PcpMapRequest(tx) IN
         /\ p \in Octets /\ Len(p) = IF tx.exact THEN 64 ELSE 60
         /\ Holds(p, 0, <<2, 1, 0, 0>>) /\ Holds(p, 4, W32(tx.lifetime))
         /\ Holds(p, 8, EncodeIp(tx.client)) /\ Holds(p, 24, tx.nonce)
         /\ Holds(p, 36, <<ProtoNumber[tx.protocol], 0, 0, 0>>)
         /\ Holds(p, 40, W16(tx.internal)) /\ Holds(p, 42, W16(tx.external))
         /\ tx.exact => R16(p, 62) = 0
<1> DEFINE a == PcpHeader(1, tx.lifetime, tx.client)
           b == tx.nonce
           c == <<ProtoNumber[tx.protocol], 0, 0, 0>>
           d == W16(tx.internal)
           e == W16(tx.external)
           u == EncodeIp(Unspecified)
           o == IF tx.exact THEN EncodeOption(PreferFailure) ELSE <<>>
           h1 == <<2, 1, 0, 0>>
           h2 == W32(tx.lifetime)
           h3 == EncodeIp(tx.client)
<1>t. /\ tx.internal \in Half /\ tx.external \in Half /\ tx.lifetime \in Word
      /\ IsAddress(tx.client) /\ tx.nonce \in [1 .. 12 -> Byte] /\ tx.protocol \in {"tcp", "udp"}
  BY DEF IsRequest
<1>1. /\ a \in Octets /\ Len(a) = 24
      /\ Holds(a, 0, h1) /\ Holds(a, 4, h2) /\ Holds(a, 8, h3)
  BY <1>t, Numbers, PcpHeaderIs
<1>2. b \in Octets /\ Len(b) = 12
  <2>1. b \in [1 .. 12 -> Byte] BY <1>t
  <2> HIDE DEF b
  <2> QED BY <2>1, Functions, ZenonT(40) DEF Octets
<1>3. c \in Octets /\ Len(c) = 4
  <2>1. ProtoNumber[tx.protocol] \in {6, 17} BY <1>t DEF ProtoNumber
  <2>2. ProtoNumber[tx.protocol] \in Byte /\ 0 \in Byte BY <2>1 DEF Byte
  <2> QED BY <2>2, Quads
<1>4. d \in Octets /\ Len(d) = 2 BY <1>t, HalfIsPut
<1>5. e \in Octets /\ Len(e) = 2 BY <1>t, HalfIsPut
<1>6. u \in Octets /\ Len(u) = 16 BY AddressIsPut
<1>7. o \in Octets /\ Len(o) = (IF tx.exact THEN 4 ELSE 0) /\ (tx.exact => Holds(o, 2, W16(0)))
  BY OptionIs, EmptySeq DEF Octets
<1>8. h1 \in Octets /\ h2 \in Octets /\ h3 \in Octets
  <2>1. 2 \in Byte /\ 1 \in Byte /\ 0 \in Byte BY DEF Byte
  <2>3. h1 \in Octets BY <2>1, Quads
  <2>2. h2 \in Octets /\ h3 \in Octets BY <1>t, WordIsPut, AddressIsPut
  <2> QED BY <2>2, <2>3
<1>9. PcpMapRequest(tx) = a \o b \o c \o d \o e \o u \o o BY DEF PcpMapRequest
<1> HIDE DEF a, b, c, d, e, u, o, h1, h2, h3
<1> DEFINE s == a \o b \o c \o d \o e
<1>f. a \in Octets /\ b \in Octets /\ c \in Octets /\ d \in Octets /\ e \in Octets
  BY <1>1, <1>2, <1>3, <1>4, <1>5
<1>10. /\ s \in Octets /\ Len(s) = Len(a) + Len(b) + Len(c) + Len(d) + Len(e)
       /\ Holds(s, 0, a) /\ Holds(s, Len(a), b) /\ Holds(s, Len(a) + Len(b), c)
       /\ Holds(s, Len(a) + Len(b) + Len(c), d) /\ Holds(s, Len(a) + Len(b) + Len(c) + Len(d), e)
  BY <1>f, Five
<1> HIDE DEF s
<1>11. /\ Len(s) = 44 /\ Holds(s, 0, a) /\ Holds(s, 24, b) /\ Holds(s, 36, c)
       /\ Holds(s, 40, d) /\ Holds(s, 42, e)
  BY <1>1, <1>2, <1>3, <1>4, <1>5, <1>10
<1> DEFINE p == s \o u \o o
<1>12. /\ p \in Octets /\ Len(p) = Len(s) + Len(u) + Len(o) /\ Holds(p, 0, s)
       /\ Holds(p, Len(s) + Len(u), o)
  BY <1>6, <1>7, <1>10, Three
<1> HIDE DEF p
<1>13. Len(p) = (IF tx.exact THEN 64 ELSE 60) /\ Holds(p, 60, o)
  BY <1>6, <1>7, <1>11, <1>12
<1>14. /\ Holds(p, 0 + 0, a) /\ Holds(p, 0 + 24, b) /\ Holds(p, 0 + 36, c)
       /\ Holds(p, 0 + 40, d) /\ Holds(p, 0 + 42, e)
  BY <1>f, <1>10, <1>11, <1>12, Within
<1>15. Holds(p, 0, a) /\ Holds(p, 24, b) /\ Holds(p, 36, c) /\ Holds(p, 40, d) /\ Holds(p, 42, e)
  BY <1>14
<1>16. Holds(p, 0 + 0, h1) /\ Holds(p, 0 + 4, h2) /\ Holds(p, 0 + 8, h3)
  BY <1>1, <1>8, <1>12, <1>15, Within
<1>17. ASSUME tx.exact PROVE R16(p, 62) = 0
  <2>1. W16(0) \in Octets BY Numbers, HalfIsPut
  <2>2. Holds(p, 60 + 2, W16(0)) BY <1>7, <1>12, <1>13, <1>17, <2>1, Within
  <2>3. Holds(p, 62, W16(0)) BY <2>2
  <2> QED BY <1>12, <2>3, Numbers, ReadHalf
<1>18. Holds(p, 0, h1) /\ Holds(p, 4, h2) /\ Holds(p, 8, h3) BY <1>16
<1>19. p = PcpMapRequest(tx) BY <1>9, SMTT(30) DEF p, s
<1> QED BY <1>12, <1>13, <1>15, <1>17, <1>18, <1>19 DEF b, c, d, e, h1, h2, h3

LEMMA ByteIsHalf == \A n \in Byte : n \in Half
  BY DEF Byte, Half

LEMMA PcpResponseIs ==
  ASSUME NEW op \in 0 .. 127, NEW res \in Byte, NEW life \in Word, NEW body \in Octets
  PROVE  LET p == PcpResponse(op, res, life, body) IN
         /\ p \in Octets /\ Len(p) = 24 + Len(body)
         /\ Holds(p, 0, <<2, 128 + op, 0, res>>) /\ Holds(p, 4, W32(life)) /\ Holds(p, 8, W32(Now))
         /\ Holds(p, 24, body)
<1> DEFINE a == <<2, 128 + op, 0, res>>
           b == W32(life)
           c == W32(Now)
           d == Zeros(12)
<1>1. a \in Octets /\ Len(a) = 4
  <2>1. 2 \in Byte /\ 0 \in Byte /\ 128 + op \in Byte BY DEF Byte
  <2> QED BY <2>1, Quads
<1>2. b \in Octets /\ Len(b) = 4 BY WordIsPut
<1>3. c \in Octets /\ Len(c) = 4 BY WireAssumption, WordIsPut
<1>4. d \in Octets /\ Len(d) = 12 BY ZerosAre
<1>5. PcpResponse(op, res, life, body) = a \o b \o c \o d \o body BY DEF PcpResponse
<1> HIDE DEF a, b, c, d
<1>f. a \in Octets /\ b \in Octets /\ c \in Octets /\ d \in Octets /\ body \in Octets
  BY <1>1, <1>2, <1>3, <1>4
<1> DEFINE p == a \o b \o c \o d \o body
<1>6. /\ p \in Octets /\ Len(p) = Len(a) + Len(b) + Len(c) + Len(d) + Len(body)
      /\ Holds(p, 0, a) /\ Holds(p, Len(a), b) /\ Holds(p, Len(a) + Len(b), c)
      /\ Holds(p, Len(a) + Len(b) + Len(c) + Len(d), body)
  BY <1>f, Five
<1> HIDE DEF p
<1>7. Len(body) \in Nat BY LenProperties DEF Octets
<1>8. Len(p) = 24 + Len(body) /\ Holds(p, 4, b) /\ Holds(p, 8, c) /\ Holds(p, 24, body)
  BY <1>1, <1>2, <1>3, <1>4, <1>6, <1>7
<1>9. p = PcpResponse(op, res, life, body) BY <1>5 DEF p
<1> QED BY <1>6, <1>8, <1>9 DEF a, b, c

LEMMA PcpMapResponseIs ==
  ASSUME NEW r, NEW d, NEW ip, IsAddress(ip) \/ ip = Unspecified,
         r.nonce \in Octets, Len(r.nonce) = 12, r.protocol \in {"tcp", "udp"}, r.internal \in Half,
         d.result \in Byte, d.external \in Half, d.lifetime \in Word
  PROVE  LET p == PcpMapResponse(r, d, ip) IN
         /\ p \in Octets /\ Len(p) = 60
         /\ Holds(p, 0, <<2, 129, 0, d.result>>) /\ Holds(p, 4, W32(d.lifetime))
         /\ Holds(p, 8, W32(Now)) /\ Holds(p, 24, r.nonce)
         /\ Holds(p, 36, <<ProtoNumber[r.protocol], 0, 0, 0>>)
         /\ Holds(p, 40, W16(r.internal)) /\ Holds(p, 42, W16(d.external))
         /\ Holds(p, 44, EncodeIp(ip))
<1> DEFINE f == r.nonce
           g == <<ProtoNumber[r.protocol], 0, 0, 0>>
           h == W16(r.internal)
           i == W16(d.external)
           j == EncodeIp(ip)
           s == f \o g \o h \o i \o j
           p == PcpResponse(1, d.result, d.lifetime, s)
<1>1. f \in Octets /\ Len(f) = 12 OBVIOUS
<1>2. g \in Octets /\ Len(g) = 4
  <2>1. ProtoNumber[r.protocol] \in {6, 17} BY DEF ProtoNumber
  <2>2. ProtoNumber[r.protocol] \in Byte /\ 0 \in Byte BY <2>1 DEF Byte
  <2> QED BY <2>2, Quads
<1>3. h \in Octets /\ Len(h) = 2 BY HalfIsPut
<1>4. i \in Octets /\ Len(i) = 2 BY HalfIsPut
<1>5. j \in Octets /\ Len(j) = 16 BY AddressIsPut
<1>6. PcpMapResponse(r, d, ip) = p BY DEF PcpMapResponse
<1> HIDE DEF f, g, h, i, j
<1>f. f \in Octets /\ g \in Octets /\ h \in Octets /\ i \in Octets /\ j \in Octets
  BY <1>1, <1>2, <1>3, <1>4, <1>5
<1>7. /\ s \in Octets /\ Len(s) = Len(f) + Len(g) + Len(h) + Len(i) + Len(j)
      /\ Holds(s, 0, f) /\ Holds(s, Len(f), g) /\ Holds(s, Len(f) + Len(g), h)
      /\ Holds(s, Len(f) + Len(g) + Len(h), i) /\ Holds(s, Len(f) + Len(g) + Len(h) + Len(i), j)
  BY <1>f, Five
<1> HIDE DEF s
<1>8. /\ Len(s) = 36 /\ Holds(s, 12, g) /\ Holds(s, 16, h) /\ Holds(s, 18, i) /\ Holds(s, 20, j)
  BY <1>1, <1>2, <1>3, <1>4, <1>5, <1>7
<1>9. /\ p \in Octets /\ Len(p) = 24 + Len(s)
      /\ Holds(p, 0, <<2, 128 + 1, 0, d.result>>) /\ Holds(p, 4, W32(d.lifetime))
      /\ Holds(p, 8, W32(Now)) /\ Holds(p, 24, s)
  <2>1. 1 \in 0 .. 127 OBVIOUS
  <2> QED BY <1>7, <2>1, PcpResponseIs, ZenonT(40)
<1> HIDE DEF p
<1>10. /\ Holds(p, 24 + 0, f) /\ Holds(p, 24 + 12, g) /\ Holds(p, 24 + 16, h)
       /\ Holds(p, 24 + 18, i) /\ Holds(p, 24 + 20, j)
  BY <1>f, <1>7, <1>8, <1>9, Within, SMTT(30)
<1>11. /\ Holds(p, 24, f) /\ Holds(p, 36, g) /\ Holds(p, 40, h) /\ Holds(p, 42, i) /\ Holds(p, 44, j)
  BY <1>10
<1>12. Len(p) = 60 /\ 128 + 1 = 129 BY <1>8, <1>9
<1> QED BY <1>6, <1>9, <1>11, <1>12 DEF f, g, h, i, j

\* The operation of a NAT-PMP mapping.
OpOf(protocol) == IF protocol = "udp" THEN 1 ELSE 2

LEMMA NatpmpMapResponseIs ==
  ASSUME NEW r, NEW d, r.internal \in Half,
         d.result \in Byte, d.external \in Half, d.lifetime \in Word
  PROVE  LET p == NatpmpMapResponse(r, d) IN
         /\ p \in Octets /\ Len(p) = 16
         /\ Holds(p, 0, <<0, 128 + OpOf(r.protocol)>>) /\ Holds(p, 2, W16(d.result))
         /\ Holds(p, 4, W32(Now)) /\ Holds(p, 8, W16(r.internal)) /\ Holds(p, 10, W16(d.external))
         /\ Holds(p, 12, W32(d.lifetime))
<1> DEFINE a == <<0, 128 + OpOf(r.protocol)>>
           b == W16(d.result)
           c == W32(Now)
           e == W16(r.internal)
           f == W16(d.external)
           g == W32(d.lifetime)
<1>1. a \in Octets /\ Len(a) = 2
  <2>1. 0 \in Byte /\ 128 + OpOf(r.protocol) \in Byte BY DEF OpOf, Byte
  <2> QED BY <2>1, Pairs
<1>2. b \in Octets /\ Len(b) = 2
  <2>1. d.result \in Half BY ByteIsHalf
  <2> QED BY <2>1, HalfIsPut
<1>3. c \in Octets /\ Len(c) = 4 BY WireAssumption, WordIsPut
<1>4. e \in Octets /\ Len(e) = 2 BY HalfIsPut
<1>5. f \in Octets /\ Len(f) = 2 BY HalfIsPut
<1>6. g \in Octets /\ Len(g) = 4 BY WordIsPut
<1>7. NatpmpMapResponse(r, d) = a \o b \o c \o e \o f \o g BY DEF NatpmpMapResponse, OpOf
<1> HIDE DEF a, b, c, e, f, g
<1>f. a \in Octets /\ b \in Octets /\ c \in Octets /\ e \in Octets /\ f \in Octets
  BY <1>1, <1>2, <1>3, <1>4, <1>5
<1> DEFINE s == a \o b \o c \o e \o f
<1>8. /\ s \in Octets /\ Len(s) = Len(a) + Len(b) + Len(c) + Len(e) + Len(f)
      /\ Holds(s, 0, a) /\ Holds(s, Len(a), b) /\ Holds(s, Len(a) + Len(b), c)
      /\ Holds(s, Len(a) + Len(b) + Len(c), e) /\ Holds(s, Len(a) + Len(b) + Len(c) + Len(e), f)
  BY <1>f, Five
<1> HIDE DEF s
<1>9. /\ Len(s) = 12 /\ Holds(s, 2, b) /\ Holds(s, 4, c) /\ Holds(s, 8, e) /\ Holds(s, 10, f)
  BY <1>1, <1>2, <1>3, <1>4, <1>5, <1>8
<1> DEFINE p == s \o g
<1>10. /\ p \in Octets /\ Len(p) = Len(s) + Len(g) /\ Holds(p, Len(s), g)
       /\ \A off \in Nat, x \in Octets : Holds(s, off, x) => Holds(p, off, x)
  BY <1>6, <1>8, Put
<1> HIDE DEF p
<1>11. /\ Len(p) = 16 /\ Holds(p, 12, g) BY <1>6, <1>9, <1>10
<1>12. /\ Holds(p, 0, a) /\ Holds(p, 2, b) /\ Holds(p, 4, c) /\ Holds(p, 8, e) /\ Holds(p, 10, f)
  BY <1>f, <1>8, <1>9, <1>10
<1>13. p = NatpmpMapResponse(r, d) BY <1>7 DEF p, s
<1> QED BY <1>10, <1>11, <1>12, <1>13 DEF a, b, c, e, f, g

\* Result 3 while the gateway has no external address.
AddressResult(ip) == IF ip = None THEN 3 ELSE 0

LEMMA NatpmpAddressResponseIs ==
  ASSUME NEW ip \in ExternalIp
  PROVE  LET p == NatpmpAddressResponse(ip) IN
         /\ p \in Octets /\ Len(p) = 12
         /\ Holds(p, 0, <<0, 128, 0, AddressResult(ip)>>) /\ Holds(p, 4, W32(Now))
<1> DEFINE a == <<0, 128, 0, AddressResult(ip)>>
           b == W32(Now)
           c == IF ip = None THEN Zeros(4) ELSE ip.quad
           p == a \o b \o c
<1>1. a \in Octets /\ Len(a) = 4
  <2>1. 0 \in Byte /\ 128 \in Byte /\ AddressResult(ip) \in Byte BY DEF Byte, AddressResult
  <2> QED BY <2>1, Quads
<1>2. b \in Octets /\ Len(b) = 4 BY WireAssumption, WordIsPut
<1>3. c \in Octets /\ Len(c) = 4
  <2>1. CASE ip = None
    <3>1. Zeros(4) \in Octets /\ Len(Zeros(4)) = 4 BY ZerosAre
    <3> QED BY <2>1, <3>1
  <2>2. CASE ip # None
    <3>1. c \in [1 .. 4 -> Byte] BY <2>2, WireAssumption
    <3> HIDE DEF c
    <3> QED BY <3>1, Functions, ZenonT(40) DEF Octets
  <2> QED BY <2>1, <2>2
<1>4. NatpmpAddressResponse(ip) = p BY DEF NatpmpAddressResponse, AddressResult
<1> HIDE DEF a, b, c
<1>5. /\ p \in Octets /\ Len(p) = Len(a) + Len(b) + Len(c)
      /\ Holds(p, 0, a) /\ Holds(p, Len(a), b)
  BY <1>1, <1>2, <1>3, Three
<1> HIDE DEF p
<1>6. Len(p) = 12 /\ Holds(p, 4, b) BY <1>1, <1>2, <1>3, <1>5
<1> QED BY <1>4, <1>5, <1>6 DEF a, b

\* The unspecified address is one of the texts, and so is what a PCP client is told.
LEMMA ToldIsAddress ==
  ASSUME NEW ip \in ExternalIp
  PROVE  IsAddress(Told(ip))
<1>1. CASE ip # None
  <2>1. Told(ip) = ip BY <1>1 DEF Told
  <2>2. ip = V4(ip.quad) /\ ip.quad \in [1 .. 4 -> Byte] BY <1>1, WireAssumption
  <2> QED BY <2>1, <2>2 DEF IsAddress
<1>2. CASE ip = None
  <2> DEFINE u == Unspecified
             g == Groups(u)
  <2>1. Told(ip) = u BY <1>2 DEF Told
  <2>2. u.head = <<>> /\ u.tail = <<>> /\ u = V6(u.head, TRUE, u.tail) BY DEF Unspecified, V6
  <2>3. Len(u.head) = 0 /\ Len(u.tail) = 0 /\ u.head \in Seq(Half) /\ u.tail \in Seq(Half)
    BY <2>2, EmptySeq
  <2>4. g = Zeros(8)
    <3> DEFINE z == Zeros(8)
               e == <<>>
    <3>1. z \in Octets BY ZerosAre
    <3>2. g = e \o z \o e BY <2>2 DEF Groups
    <3> HIDE DEF z, g
    <3>3. e \o z \o e = z BY <3>1 DEF Octets
    <3> QED BY <3>2, <3>3 DEF z
  <2>5. \A i \in 1 .. 8 : g[i] = 0 BY <2>4 DEF Zeros
  <2> HIDE DEF g
  <2>6. IsGap(g, <<1, 8>>)
    <3>1. <<1, 8>> \in ZeroRuns(g) BY <2>5 DEF ZeroRuns
    <3>2. ASSUME NEW q \in ZeroRuns(g)
          PROVE  q[2] - q[1] < 8 - 1 \/ (q[2] - q[1] = 8 - 1 /\ 1 <= q[1])
      BY DEF ZeroRuns
    <3> QED BY <3>1, <3>2 DEF IsGap
  <2>7. ~Mapped(g) BY <2>5 DEF Mapped
  <2>8. /\ u = V6(u.head, TRUE, u.tail) /\ u.head \in Seq(Half) /\ u.tail \in Seq(Half)
        /\ Len(u.head) + Len(u.tail) <= 6
        /\ <<Len(u.head) + 1, 8 - Len(u.tail)>> = <<1, 8>>
    BY <2>2, <2>3
  <2>9. IsGap(Groups(u), <<Len(u.head) + 1, 8 - Len(u.tail)>>) /\ ~Mapped(Groups(u))
    BY <2>6, <2>7, <2>8 DEF g
  <2> HIDE DEF u
  <2> QED BY <2>1, <2>8, <2>9 DEF IsAddress
<1> QED BY <1>1, <1>2

LEMMA UnsupportedVersionIs ==
  /\ UnsupportedVersion \in Octets /\ Len(UnsupportedVersion) = 8
  /\ Holds(UnsupportedVersion, 0, <<0, 0, 0, 1>>)
  /\ Holds(UnsupportedVersion, 4, W32(Now))
<1> DEFINE a == <<0, 0, 0, 1>>
           b == W32(Now)
<1>1. a \in Octets /\ Len(a) = 4
  <2>1. 0 \in Byte /\ 1 \in Byte BY DEF Byte
  <2> QED BY <2>1, Quads
<1>2. b \in Octets /\ Len(b) = 4 BY WireAssumption, WordIsPut
<1>3. UnsupportedVersion = a \o b BY DEF UnsupportedVersion
<1> HIDE DEF a, b
<1>4. /\ a \o b \in Octets /\ Len(a \o b) = Len(a) + Len(b)
      /\ Holds(a \o b, 0, a) /\ Holds(a \o b, Len(a), b)
  BY <1>1, <1>2, Put
<1>5. Len(a \o b) = 8 /\ Holds(a \o b, 4, b) BY <1>1, <1>2, <1>4
<1> QED BY <1>3, <1>4, <1>5 DEF a, b

LEMMA UnsupportedOpcodeIs ==
  ASSUME NEW b \in Octets, Len(b) >= 2, b[1] = 0, b[2] \in 0 .. 127
  PROVE  /\ UnsupportedOpcode(b) \in Octets /\ Len(UnsupportedOpcode(b)) >= 8
         /\ Holds(UnsupportedOpcode(b), 0, <<0, 128 + b[2], 0, 5>>)
         /\ Holds(UnsupportedOpcode(b), 4, W32(Now))
<1> DEFINE size == IF Len(b) < 8 THEN 8 ELSE Len(b)
           z == Zeros(size - Len(b))
           back == b \o z
           x == <<back[1], 128 + b[2], 0, 5>>
           y == W32(Now)
           w == SubSeq(back, 9, size)
<1>1. Len(b) \in Nat BY LenProperties DEF Octets
<1>2. size - Len(b) \in Nat /\ size \in Nat /\ size >= 8 BY <1>1
<1> HIDE DEF size
<1>3. z \in Octets /\ Len(z) = size - Len(b) BY <1>2, ZerosAre
<1> HIDE DEF z
<1>4. /\ back \in Octets /\ Len(back) = Len(b) + Len(z)
      /\ \A i \in 1 .. Len(b) + Len(z) : back[i] = IF i <= Len(b) THEN b[i] ELSE z[i - Len(b)]
  BY <1>3, ConcatProperties DEF Octets
<1> HIDE DEF back
<1>5. back[1] = 0 /\ Len(back) = size BY <1>1, <1>2, <1>3, <1>4
<1>6. x = <<0, 128 + b[2], 0, 5>> /\ x \in Octets /\ Len(x) = 4
  <2>1. 0 \in Byte /\ 5 \in Byte BY DEF Byte
  <2>2. 128 + b[2] \in Byte BY Numbers
  <2> QED BY <2>1, <2>2, <1>5, Quads
<1>7. y \in Octets /\ Len(y) = 4 BY WireAssumption, WordIsPut
<1>8. w \in Octets
  <2>1. \A i \in 9 .. size : back[i] \in Byte BY <1>2, <1>4, <1>5, ElementOfSeq DEF Octets
  <2> QED BY <1>2, <2>1, SubSeqProperties DEF Octets
<1>9. UnsupportedOpcode(b) = x \o y \o w BY DEF UnsupportedOpcode, size, z, back
<1> HIDE DEF x, y, w
<1>10. /\ x \o y \o w \in Octets /\ Len(x \o y \o w) = Len(x) + Len(y) + Len(w)
       /\ Holds(x \o y \o w, 0, x) /\ Holds(x \o y \o w, Len(x), y)
  <2>1. x \in Octets /\ y \in Octets /\ w \in Octets BY <1>6, <1>7, <1>8
  <2> QED BY <2>1, Three
<1>11. Len(w) \in Nat BY <1>8, LenProperties DEF Octets
<1>12. Len(x \o y \o w) >= 8 /\ Holds(x \o y \o w, 4, y) BY <1>6, <1>7, <1>10, <1>11
<1> QED BY <1>6, <1>9, <1>10, <1>12 DEF y

LEMMA SmallIsHalf ==
  ASSUME NEW n \in Nat, n <= 65535
  PROVE  n \in Half
<1> DEFINE m == 65535
<1>1. m \in Nat /\ n <= m OBVIOUS
<1>2. Half = 0 .. m BY SMT DEF Half
<1> HIDE DEF m
<1>3. n \in 0 .. m BY <1>1
<1> QED BY <1>2, <1>3

LEMMA TwoBytes ==
  ASSUME NEW u \in Byte, NEW v \in Byte
  PROVE  u * 256 + v \in Half
<1>1. u \in Nat /\ v \in Nat /\ u <= 255 /\ v <= 255 BY DEF Byte
<1>2. u * 256 + v <= 65535 /\ u * 256 + v \in Nat BY <1>1
<1> QED BY <1>2, SmallIsHalf

\* The operations a NAT-PMP gateway tells apart.
LEMMA Operations == \A n \in Byte : n = 0 \/ n \in 1 .. 2 \/ n > 2
  BY DEF Byte

LEMMA ReadIsHalf ==
  ASSUME NEW b \in Octets, NEW off \in Nat, off + 2 <= Len(b)
  PROVE  R16(b, off) \in Half
<1>1. off + 1 \in 1 .. Len(b) /\ off + 2 \in 1 .. Len(b) /\ Len(b) \in Nat BY LenProperties DEF Octets
<1>2. b[off + 1] \in Byte /\ b[off + 2] \in Byte BY <1>1, ElementOfSeq DEF Octets
<1> QED BY <1>2, TwoBytes DEF R16

LEMMA ReadIsWord ==
  ASSUME NEW b \in Octets, NEW off \in Nat, off + 4 <= Len(b)
  PROVE  R32(b, off) \in Word
<1>1. Len(b) \in Nat BY LenProperties DEF Octets
<1>2. R16(b, off) \in Half BY <1>1, ReadIsHalf
<1>3. R16(b, off + 2) \in Half
  <2>1. (off + 2) + 2 <= Len(b) /\ off + 2 \in Nat BY <1>1
  <2> QED BY <2>1, ReadIsHalf
<1> QED BY <1>1, <1>2, <1>3 DEF R32, Word

LEMMA ReadIsBytes ==
  ASSUME NEW b \in Octets, NEW off \in Nat, NEW n \in Nat, off + n <= Len(b)
  PROVE  Bytes(b, off, n) \in Octets
<1>1. Len(b) \in Nat BY LenProperties DEF Octets
<1>2. \A i \in off + 1 .. off + n : b[i] \in Byte BY <1>1, ElementOfSeq DEF Octets
<1> QED BY <1>1, <1>2, SubSeqProperties DEF Octets, Bytes

LEMMA ReadsNatpmp ==
  ASSUME NEW b \in Octets, Len(b) >= 2
  PROVE  ReadNatpmp(b) \in Reading
<1>1. Len(b) \in Nat BY LenProperties DEF Octets
<1>2. b[2] \in Byte BY <1>1, ElementOfSeq DEF Octets
<1>3. ASSUME Len(b) >= 12
      PROVE  R16(b, 4) \in Half /\ R16(b, 6) \in Half /\ R32(b, 8) \in Word
  BY <1>1, <1>3, ReadIsHalf, ReadIsWord
<1>4. CASE b[2] >= 128 \/ b[2] = 0 \/ (b[2] \in 1 .. 2 /\ Len(b) < 12) \/ b[2] > 2
  BY <1>1, <1>2, <1>4 DEF ReadNatpmp, Reading, Kind, Byte
<1>5. CASE b[2] \in 1 .. 2 /\ Len(b) >= 12
  <2>1. ReadNatpmp(b) = [kind |-> "map", dialect |-> "natpmp",
                         protocol |-> IF b[2] = 1 THEN "udp" ELSE "tcp",
                         internal |-> R16(b, 4), external |-> R16(b, 6), lifetime |-> R32(b, 8)]
    BY <1>1, <1>5 DEF ReadNatpmp
  <2> QED BY <1>3, <1>5, <2>1 DEF Reading
<1>6. b[2] = 0 \/ b[2] \in 1 .. 2 \/ b[2] > 2 BY <1>2, Operations
<1>7. Len(b) < 12 \/ Len(b) >= 12 BY <1>1
<1> QED BY <1>4, <1>5, <1>6, <1>7

LEMMA ReadsPcp ==
  ASSUME NEW b \in Octets, NEW from, Len(b) >= 2
  PROVE  ReadPcp(b, from) \in Reading
<1>1. Len(b) \in Nat BY LenProperties DEF Octets
<1>2. CASE Len(b) < 60 \/ Len(b) > MaxPacketSize \/ b[2] # 1 \/ ~OptionsParse(b, 60)
  BY <1>1, <1>2 DEF ReadPcp, Reading, Kind
<1>3. CASE Len(b) >= 60 /\ ~(Len(b) > MaxPacketSize) /\ b[2] = 1 /\ OptionsParse(b, 60)
  <2>1. R16(b, 40) \in Half /\ R16(b, 42) \in Half /\ R32(b, 4) \in Word /\ Bytes(b, 24, 12) \in Octets
    BY <1>1, <1>3, ReadIsHalf, ReadIsWord, ReadIsBytes
  <2>2. ReadPcp(b, from) = [kind |-> IF DecodeIp(b, 8) = from THEN "map" ELSE "mismatch",
                            dialect |-> "pcp", protocol |-> ProtoName(b[37]),
                            internal |-> R16(b, 40), external |-> R16(b, 42), lifetime |-> R32(b, 4),
                            nonce |-> Bytes(b, 24, 12)]
    BY <1>1, <1>3 DEF ReadPcp
  <2>3. ProtoName(b[37]) \in {"tcp", "udp", "other"} BY DEF ProtoName
  <2> QED BY <2>1, <2>2, <2>3 DEF Reading, Octets
<1> QED BY <1>1, <1>2, <1>3

\* Whatever the gateway receives, it makes something of it.
LEMMA GatewayReadsReading ==
  ASSUME NEW b \in Octets, NEW from
  PROVE  GatewayReads(b, from) \in Reading
<1>1. Kind("version") \in Reading BY DEF Kind, Reading
<1>2. Len(b) \in Nat BY LenProperties DEF Octets
<1> QED BY <1>1, <1>2, ReadsNatpmp, ReadsPcp DEF GatewayReads

\* What a client makes of a packet of each dialect.
LEMMA HeardNatpmp ==
  ASSUME NEW b, NEW tx, Len(b) >= 2, b[1] = 0
  PROVE  LET m == DecodeNatpmp(b) IN
         ClientReads(b, tx) =
           IF m = Bad THEN Verdict("malformed", None)
           ELSE IF "natpmp" # tx.dialect
           THEN Verdict(IF m.result = 1 THEN "version" ELSE "ignored", m)
           ELSE IF ~Matches(tx, m) THEN Verdict("ignored", m)
           ELSE Verdict(IF m.result = 1 THEN "version" ELSE IF m.result = 0 THEN "success" ELSE "error", m)
<1> HIDE DEF DecodeNatpmp, Matches
<1>1. ~(Len(b) < 2 \/ b[1] \notin {0, 2}) /\ b[1] # 2 BY SMT
<1> QED BY <1>1 DEF ClientReads

LEMMA HeardPcp ==
  ASSUME NEW b, NEW tx, Len(b) >= 2, b[1] = 2
  PROVE  LET m == DecodePcp(b) IN
         ClientReads(b, tx) =
           IF m = Bad THEN Verdict("malformed", None)
           ELSE IF "pcp" # tx.dialect THEN Verdict("ignored", m)
           ELSE IF ~Matches(tx, m) THEN Verdict("ignored", m)
           ELSE Verdict(IF m.result = 1 THEN "version" ELSE IF m.result = 0 THEN "success" ELSE "error", m)
<1> HIDE DEF DecodePcp, Matches
<1>1. ~(Len(b) < 2 \/ b[1] \notin {0, 2}) BY SMT
<1> QED BY <1>1 DEF ClientReads

LEMMA ByteIsNat == \A n \in Byte : n \in Nat /\ n <= 255
  BY DEF Byte

\* A NAT-PMP reply that is not malformed has its result and its epoch, and the
\* fields of a mapping if it is long enough.
OpcodeOf(n) == IF n >= 128 THEN n - 128 ELSE n

LEMMA NatpmpFields ==
  ASSUME NEW b \in Octets, Len(b) >= 2, DecodeNatpmp(b) # Bad
  PROVE  LET m == DecodeNatpmp(b) IN
         /\ Len(b) >= 4 /\ m.result = R16(b, 2) /\ m.epoch = R32(b, 4)
         /\ b[2] >= 128 \/ m.result = 1
         /\ m.kind = "address" <=> OpcodeOf(b[2]) = 0
         /\ m.kind = "address" \/ m.kind = "map"
         /\ m.kind = "map" =>
              /\ OpcodeOf(b[2]) \in 1 .. 2
              /\ m.protocol = IF OpcodeOf(b[2]) = 1 THEN "udp" ELSE "tcp"
              /\ m.result = 0 => Len(b) >= 16
              /\ Len(b) >= 16 => m.internal = R16(b, 8) /\ m.external = R16(b, 10)
                                 /\ m.lifetime = R32(b, 12)
<1>1. Len(b) \in Nat BY LenProperties DEF Octets
<1>2. b[2] \in Nat
  <2>1. b[2] \in Byte BY <1>1, ElementOfSeq DEF Octets
  <2> QED BY <2>1, ByteIsNat
<1>3. OpcodeOf(b[2]) \in Nat BY <1>2 DEF OpcodeOf
<1> DEFINE op == OpcodeOf(b[2])
           result == R16(b, 2)
           epoch == R32(b, 4)
<1>4. /\ Len(b) >= 4
      /\ b[2] >= 128 \/ result = 1
  BY <1>1, <1>2 DEF DecodeNatpmp
<1>5. CASE op = 0
  <2>1. DecodeNatpmp(b) = [Response("address", op, result, epoch) EXCEPT
                             !.ip = IF result = 0 THEN V4(Bytes(b, 8, 4)) ELSE None]
    BY <1>1, <1>2, <1>4, <1>5 DEF DecodeNatpmp, OpcodeOf
  <2>2. /\ DecodeNatpmp(b).kind = "address" /\ DecodeNatpmp(b).result = result
        /\ DecodeNatpmp(b).epoch = epoch
    BY <2>1 DEF Response
  <2> HIDE DEF result, epoch
  <2> QED BY <1>4, <1>5, <2>2 DEF result, epoch
<1>6. CASE op # 0
  <2> DEFINE msg == [Response("map", op, result, epoch) EXCEPT
                       !.protocol = IF op = 1 THEN "udp" ELSE "tcp"]
  <2>1. op \in 1 .. 2 /\ (result = 0 => Len(b) >= 16)
    BY <1>1, <1>2, <1>3, <1>4, <1>6 DEF DecodeNatpmp, OpcodeOf
  <2>2. /\ msg.kind = "map" /\ msg.result = result /\ msg.epoch = epoch
        /\ msg.protocol = IF op = 1 THEN "udp" ELSE "tcp"
    BY DEF Response
  <2>3. CASE Len(b) < 16
    <3>1. DecodeNatpmp(b) = msg
      BY <1>1, <1>2, <1>4, <1>6, <2>1, <2>3 DEF DecodeNatpmp, OpcodeOf
    <3> HIDE DEF msg, result, epoch, op
    <3> QED BY <1>1, <1>4, <1>6, <2>1, <2>2, <2>3, <3>1 DEF result, epoch, op
  <2>4. CASE Len(b) >= 16
    <3> DEFINE full == [msg EXCEPT !.internal = R16(b, 8), !.external = R16(b, 10),
                                   !.lifetime = R32(b, 12)]
    <3>1. DecodeNatpmp(b) = full
      BY <1>1, <1>2, <1>4, <1>6, <2>1, <2>4 DEF DecodeNatpmp, OpcodeOf
    <3>2. /\ full.kind = "map" /\ full.result = result /\ full.epoch = epoch
          /\ full.protocol = IF op = 1 THEN "udp" ELSE "tcp"
          /\ full.internal = R16(b, 8) /\ full.external = R16(b, 10) /\ full.lifetime = R32(b, 12)
      BY DEF Response
    <3> HIDE DEF full, msg, result, epoch, op
    <3> QED BY <1>1, <1>4, <1>6, <2>1, <2>4, <3>1, <3>2 DEF result, epoch, op
  <2> QED BY <1>1, <2>3, <2>4
<1> QED BY <1>5, <1>6

\* The same of a PCP reply.
LEMMA PcpFields ==
  ASSUME NEW b \in Octets, Len(b) >= 2, DecodePcp(b) # Bad
  PROVE  LET m == DecodePcp(b) IN
         /\ Len(b) >= 24 /\ b[2] >= 128 /\ m.result = b[4] /\ m.epoch = R32(b, 8)
         /\ m.lifetime = R32(b, 4)
         /\ m.kind = IF b[2] = 128 THEN "announce" ELSE IF b[2] = 129 THEN "map" ELSE "other"
         /\ m.kind = "map" =>
              /\ m.result = 0 => Len(b) >= 60
              /\ Len(b) >= 60 =>
                   /\ m.nonce = Bytes(b, 24, 12) /\ m.external = R16(b, 42)
                   /\ m.ip = DecodeIp(b, 44)
<1>1. Len(b) \in Nat BY LenProperties DEF Octets
<1>2. b[2] \in Nat
  <2>1. b[2] \in Byte BY <1>1, ElementOfSeq DEF Octets
  <2> QED BY <2>1, ByteIsNat
<1>3. Len(b) >= 24 /\ ~(Len(b) > MaxPacketSize) /\ b[2] >= 128 BY <1>1, <1>2 DEF DecodePcp
<1> DEFINE op == b[2] - 128
           kind == IF op = 0 THEN "announce" ELSE IF op = 1 THEN "map" ELSE "other"
           msg == [Response(kind, op, b[4], R32(b, 8)) EXCEPT !.lifetime = R32(b, 4)]
           full == [msg EXCEPT !.nonce = Bytes(b, 24, 12), !.protocol = ProtoName(b[37]),
                               !.internal = R16(b, 40), !.external = R16(b, 42),
                               !.ip = DecodeIp(b, 44)]
<1>4. /\ op = 0 <=> b[2] = 128
      /\ op = 1 <=> b[2] = 129
      /\ op \in Nat
  BY <1>2, <1>3
<1>5. /\ msg.kind = kind /\ msg.result = b[4] /\ msg.epoch = R32(b, 8) /\ msg.lifetime = R32(b, 4)
  BY DEF Response
<1>6. /\ full.kind = kind /\ full.result = b[4] /\ full.epoch = R32(b, 8)
      /\ full.lifetime = R32(b, 4) /\ full.nonce = Bytes(b, 24, 12)
      /\ full.external = R16(b, 42) /\ full.ip = DecodeIp(b, 44)
  BY DEF Response
<1>7. \/ DecodePcp(b) = msg /\ (op # 1 \/ (Len(b) < 60 /\ msg.result # 0))
      \/ DecodePcp(b) = full /\ op = 1 /\ Len(b) >= 60
  <2> HIDE DEF kind
  <2>1. CASE op = 1 BY <1>1, <1>3, <2>1 DEF DecodePcp, kind
  <2>2. CASE op # 1 BY <1>1, <1>3, <2>2 DEF DecodePcp, kind
  <2> QED BY <2>1, <2>2
<1> HIDE DEF full, msg, op
<1> QED BY <1>1, <1>3, <1>4, <1>5, <1>6, <1>7

LEMMA NoneIsNoValue == None \notin Nat /\ None \notin Octets
  BY WireAssumption, SMTT(30) DEF Octets

LEMMA HalfIsNat == \A n \in Half : n \in Nat
  BY DEF Half

LEMMA TooShort ==
  ASSUME NEW b \in Octets, NEW tx, ClientReads(b, tx).msg # None \/ ClientReads(b, tx).verdict # "malformed"
  PROVE  Len(b) >= 2 /\ Len(b) \in Nat
<1>1. Len(b) \in Nat BY LenProperties DEF Octets
<1>2. ASSUME Len(b) < 2 PROVE ClientReads(b, tx) = Verdict("malformed", None)
  BY <1>2 DEF ClientReads
<1>3. ASSUME Len(b) < 2
      PROVE  ClientReads(b, tx).msg = None /\ ClientReads(b, tx).verdict = "malformed"
  BY <1>2, <1>3 DEF Verdict
<1> QED BY <1>1, <1>3

\* A client takes a NAT-PMP reply for the success of its mapping only if it says
\* so and is the answer for that mapping.
LEMMA SuccessNatpmp ==
  ASSUME NEW b \in Octets, NEW tx, Len(b) >= 2, b[1] = 0,
         ClientReads(b, tx).verdict = "success", tx.kind = "map"
  PROVE  /\ tx.dialect = "natpmp" /\ b[2] >= 128 /\ Len(b) >= 16 /\ R16(b, 2) = 0
         /\ OpcodeOf(b[2]) \in 1 .. 2 /\ R16(b, 8) = tx.internal
         /\ tx.protocol = IF OpcodeOf(b[2]) = 1 THEN "udp" ELSE "tcp"
         /\ ClientReads(b, tx).msg.external = R16(b, 10)
         /\ ClientReads(b, tx).msg.lifetime = R32(b, 12)
<1> DEFINE m == DecodeNatpmp(b)
           read2 == ClientReads(b, tx)
<1>1. /\ m # Bad /\ tx.dialect = "natpmp" /\ Matches(tx, m) /\ read2 = Verdict("success", m)
      /\ m.result = 0
  <2> HIDE DEF m
  <2>1. read2 = IF m = Bad THEN Verdict("malformed", None)
           ELSE IF "natpmp" # tx.dialect
           THEN Verdict(IF m.result = 1 THEN "version" ELSE "ignored", m)
           ELSE IF ~Matches(tx, m) THEN Verdict("ignored", m)
           ELSE Verdict(IF m.result = 1 THEN "version" ELSE IF m.result = 0 THEN "success" ELSE "error", m)
    BY HeardNatpmp DEF m
  <2> HIDE DEF read2
  <2>2. read2.verdict = "success" BY DEF read2
  <2> QED BY <2>1, <2>2 DEF Verdict
<1>2. m.kind = "map" /\ (m.internal = None \/ (m.internal = tx.internal /\ m.protocol = tx.protocol))
  <2> HIDE DEF m
  <2> QED BY <1>1 DEF Matches
<1>3. /\ m.result = R16(b, 2) /\ (b[2] >= 128 \/ m.result = 1)
      /\ OpcodeOf(b[2]) \in 1 .. 2
      /\ m.protocol = IF OpcodeOf(b[2]) = 1 THEN "udp" ELSE "tcp"
      /\ m.result = 0 => Len(b) >= 16
      /\ Len(b) >= 16 => m.internal = R16(b, 8) /\ m.external = R16(b, 10)
                         /\ m.lifetime = R32(b, 12)
  <2>1. m # Bad /\ m.kind = "map" BY <1>1, <1>2
  <2> QED BY <2>1, NatpmpFields
<1> HIDE DEF m
<1>4. Len(b) >= 16 /\ m.internal = R16(b, 8) /\ b[2] >= 128 BY <1>1, <1>3
<1>5. R16(b, 8) # None
  <2>1. 8 + 2 <= Len(b)
    <3>1. Len(b) \in Nat BY LenProperties DEF Octets
    <3> QED BY <1>4, <3>1
  <2> QED BY <2>1, ReadIsHalf, HalfIsNat, NoneIsNoValue
<1>6. read2.msg = m BY <1>1 DEF Verdict
<1> QED BY <1>1, <1>2, <1>3, <1>4, <1>5, <1>6

\* The same of a PCP reply.
LEMMA SuccessPcp ==
  ASSUME NEW b \in Octets, NEW tx, Len(b) >= 2, b[1] = 2,
         ClientReads(b, tx).verdict = "success", tx.kind = "map"
  PROVE  /\ tx.dialect = "pcp" /\ b[2] = 129 /\ Len(b) >= 60 /\ b[4] = 0
         /\ Bytes(b, 24, 12) = tx.nonce
         /\ ClientReads(b, tx).msg.external = R16(b, 42)
         /\ ClientReads(b, tx).msg.lifetime = R32(b, 4)
         /\ ClientReads(b, tx).msg.ip = DecodeIp(b, 44)
<1> DEFINE m == DecodePcp(b)
           read2 == ClientReads(b, tx)
<1>1. /\ m # Bad /\ tx.dialect = "pcp" /\ Matches(tx, m) /\ read2 = Verdict("success", m)
      /\ m.result = 0
  <2> HIDE DEF m
  <2>1. read2 = IF m = Bad THEN Verdict("malformed", None)
           ELSE IF "pcp" # tx.dialect THEN Verdict("ignored", m)
           ELSE IF ~Matches(tx, m) THEN Verdict("ignored", m)
           ELSE Verdict(IF m.result = 1 THEN "version" ELSE IF m.result = 0 THEN "success" ELSE "error", m)
    BY HeardPcp DEF m
  <2> HIDE DEF read2
  <2>2. read2.verdict = "success" BY DEF read2
  <2> QED BY <2>1, <2>2 DEF Verdict
<1>2. m.kind = "map" /\ m.nonce \in {None, tx.nonce}
  <2> HIDE DEF m
  <2> QED BY <1>1 DEF Matches
<1>3. /\ m.result = b[4] /\ m.lifetime = R32(b, 4) /\ b[2] >= 128
      /\ m.kind = IF b[2] = 128 THEN "announce" ELSE IF b[2] = 129 THEN "map" ELSE "other"
      /\ m.result = 0 => Len(b) >= 60
      /\ Len(b) >= 60 => /\ m.nonce = Bytes(b, 24, 12) /\ m.external = R16(b, 42)
                         /\ m.ip = DecodeIp(b, 44)
  <2>1. m # Bad /\ m.kind = "map" BY <1>1, <1>2
  <2> QED BY <2>1, PcpFields
<1> HIDE DEF m
<1>4. Len(b) >= 60 /\ m.nonce = Bytes(b, 24, 12) /\ b[2] = 129 BY <1>1, <1>2, <1>3
<1>5. Bytes(b, 24, 12) # None
  <2>1. 24 + 12 <= Len(b)
    <3>1. Len(b) \in Nat BY LenProperties DEF Octets
    <3> QED BY <1>4, <3>1
  <2> QED BY <2>1, ReadIsBytes, NoneIsNoValue
<1>6. read2.msg = m BY <1>1 DEF Verdict
<1> QED BY <1>1, <1>2, <1>3, <1>4, <1>5, <1>6

\* Whoever sends the gateway's epoch in its place is believed.
LEMMA EpochIsHeard ==
  ASSUME NEW p \in Octets, NEW c \in Octets, Begins(c, p), NEW tx, Len(c) >= 8,
         \/ p[1] = 0 /\ Holds(p, 4, W32(Now))
         \/ p[1] = 2 /\ Holds(p, 8, W32(Now)),
         ClientReads(c, tx).msg # None
  PROVE  ClientReads(c, tx).msg.epoch = Now
<1>1. /\ Len(c) \in Nat /\ c[1] = p[1] /\ Len(c) >= 2
      /\ \A off \in Nat, f \in Octets : Holds(p, off, f) /\ off + Len(f) <= Len(c) => Holds(c, off, f)
  BY Left
<1>2. W32(Now) \in Octets /\ Len(W32(Now)) = 4 /\ Now \in Word BY WireAssumption, WordIsPut
<1>3. CASE p[1] = 0 /\ Holds(p, 4, W32(Now))
  <2> DEFINE m == DecodeNatpmp(c)
  <2>1. m # Bad /\ ClientReads(c, tx).msg = m
    <3> HIDE DEF m
    <3>1. \/ m # Bad /\ \E v : ClientReads(c, tx) = Verdict(v, m)
          \/ ClientReads(c, tx) = Verdict("malformed", None)
      BY <1>1, <1>3, HeardNatpmp DEF m
    <3> QED BY <3>1 DEF Verdict
  <2>2. m.epoch = R32(c, 4) BY <1>1, <2>1, NatpmpFields
  <2>3. Holds(c, 4, W32(Now))
    <3>1. 4 + Len(W32(Now)) <= Len(c) BY <1>1, <1>2
    <3> QED BY <1>1, <1>2, <1>3, <3>1
  <2>4. R32(c, 4) = Now BY <1>2, <2>3, ReadWord
  <2> QED BY <2>1, <2>2, <2>4
<1>4. CASE p[1] = 2 /\ Holds(p, 8, W32(Now))
  <2> DEFINE m == DecodePcp(c)
  <2>1. m # Bad /\ ClientReads(c, tx).msg = m
    <3> HIDE DEF m
    <3>1. \/ m # Bad /\ \E v : ClientReads(c, tx) = Verdict(v, m)
          \/ ClientReads(c, tx) = Verdict("malformed", None)
      BY <1>1, <1>4, HeardPcp DEF m
    <3> QED BY <3>1 DEF Verdict
  <2>2. m.epoch = R32(c, 8) /\ Len(c) >= 24 BY <1>1, <2>1, PcpFields
  <2>3. Holds(c, 8, W32(Now))
    <3>1. 8 + Len(W32(Now)) <= Len(c) BY <1>1, <1>2, <2>2
    <3> QED BY <1>1, <1>2, <1>4, <3>1
  <2>4. R32(c, 8) = Now BY <1>2, <2>3, ReadWord
  <2> QED BY <2>1, <2>2, <2>4
<1> QED BY <1>3, <1>4

\* What the gateway takes for a request of a mapping, and what it takes for an
\* operation it does not know.
LEMMA MapReading ==
  ASSUME NEW b \in Octets, NEW from, NEW r, r = GatewayReads(b, from), r.kind \in {"map", "mismatch"}
  PROVE  \/ /\ b[1] = 0 /\ b[2] \in 1 .. 2 /\ Len(b) >= 12
            /\ r.kind = "map" /\ r.dialect = "natpmp"
            /\ r.protocol = IF b[2] = 1 THEN "udp" ELSE "tcp"
            /\ r.internal = R16(b, 4) /\ r.external = R16(b, 6) /\ r.lifetime = R32(b, 8)
         \/ /\ b[1] = 2 /\ b[2] = 1 /\ Len(b) >= 60 /\ gateway # "natpmp"
            /\ r.kind = (IF DecodeIp(b, 8) = from THEN "map" ELSE "mismatch") /\ r.dialect = "pcp"
            /\ r.protocol = ProtoName(b[37]) /\ r.nonce = Bytes(b, 24, 12)
            /\ r.internal = R16(b, 40) /\ r.external = R16(b, 42) /\ r.lifetime = R32(b, 4)
<1>1. Len(b) \in Nat BY LenProperties DEF Octets
<1>2. \/ r = ReadNatpmp(b) /\ b[1] = 0 /\ Len(b) >= 2
      \/ r = ReadPcp(b, from) /\ b[1] = 2 /\ Len(b) >= 2 /\ gateway # "natpmp"
  <2>1. r # Kind("version") BY DEF Kind
  <2> QED BY <1>1, <2>1 DEF GatewayReads
<1>3. CASE r = ReadNatpmp(b) /\ b[1] = 0 /\ Len(b) >= 2
  <2>1. b[2] \in Nat
    <3>1. b[2] \in Byte BY <1>1, <1>3, ElementOfSeq DEF Octets
    <3> QED BY <3>1, ByteIsNat
  <2>2. ASSUME b[2] \notin 1 .. 2 \/ Len(b) < 12
        PROVE  r.kind \in {"address", "malformed", "ignored", "opcode"}
    BY <1>1, <1>3, <2>1, <2>2 DEF ReadNatpmp, Kind
  <2>3. b[2] \in 1 .. 2 /\ Len(b) >= 12 BY <1>1, <2>2
  <2>4. r = [kind |-> "map", dialect |-> "natpmp", protocol |-> IF b[2] = 1 THEN "udp" ELSE "tcp",
             internal |-> R16(b, 4), external |-> R16(b, 6), lifetime |-> R32(b, 8)]
    BY <1>1, <1>3, <2>3 DEF ReadNatpmp
  <2> QED BY <1>3, <2>3, <2>4
<1>4. CASE r = ReadPcp(b, from) /\ b[1] = 2 /\ Len(b) >= 2 /\ gateway # "natpmp"
  <2>1. ASSUME b[2] # 1 \/ Len(b) < 60 \/ Len(b) > MaxPacketSize \/ ~OptionsParse(b, 60)
        PROVE  r.kind \in {"announce", "malformed", "ignored", "opcode"}
    BY <1>1, <1>4, <2>1 DEF ReadPcp, Kind
  <2>2. b[2] = 1 /\ Len(b) >= 60 /\ ~(Len(b) > MaxPacketSize) /\ OptionsParse(b, 60)
    BY <1>1, <2>1
  <2>3. r = [kind |-> IF DecodeIp(b, 8) = from THEN "map" ELSE "mismatch",
             dialect |-> "pcp", protocol |-> ProtoName(b[37]),
             internal |-> R16(b, 40), external |-> R16(b, 42), lifetime |-> R32(b, 4),
             nonce |-> Bytes(b, 24, 12)]
    BY <1>1, <1>4, <2>2 DEF ReadPcp
  <2> QED BY <1>4, <2>2, <2>3
<1> QED BY <1>2, <1>3, <1>4

LEMMA OpcodeReading ==
  ASSUME NEW b \in Octets, NEW from, GatewayReads(b, from).kind = "opcode"
  PROVE  /\ Len(b) >= 2 /\ b[2] \in 0 .. 127
         /\ b[1] = 0 \/ (b[1] = 2 /\ b[2] # 1)
<1>1. Len(b) \in Nat BY LenProperties DEF Octets
<1>2. Len(b) >= 2 /\ (b[1] = 0 \/ b[1] = 2) BY <1>1 DEF GatewayReads, Kind
<1>3. b[2] \in Nat
  <2>1. b[2] \in Byte BY <1>1, <1>2, ElementOfSeq DEF Octets
  <2> QED BY <2>1, ByteIsNat
<1>6. \A n \in Nat : ~(n >= 128) => n \in 0 .. 127 OBVIOUS
<1>4. CASE b[1] = 0
  <2>1. GatewayReads(b, from) = ReadNatpmp(b) BY <1>1, <1>2, <1>4 DEF GatewayReads
  <2>2. ASSUME b[2] >= 128 PROVE FALSE BY <2>1, <2>2 DEF ReadNatpmp, Kind
  <2> QED BY <1>2, <1>3, <1>4, <1>6, <2>2
<1>5. CASE b[1] = 2
  <2>1. GatewayReads(b, from) = ReadPcp(b, from) BY <1>1, <1>2, <1>5 DEF GatewayReads, Kind
  <2>2. ASSUME b[2] >= 128 PROVE FALSE BY <2>1, <2>2 DEF ReadPcp, Kind
  <2>3. ASSUME b[2] = 1 PROVE FALSE
    <3>1. ReadPcp(b, from).kind \in {"malformed", "map", "mismatch"} BY <2>3 DEF ReadPcp, Kind
    <3> QED BY <2>1, <3>1
  <2> QED BY <1>2, <1>3, <1>5, <1>6, <2>2, <2>3
<1> QED BY <1>2, <1>4, <1>5

\* What the reply to a request for a mapping is made of.
LEMMA MapReadingFields ==
  ASSUME NEW b \in Octets, NEW from, NEW r, r = GatewayReads(b, from), r.kind \in {"map", "mismatch"}
  PROVE  /\ r.internal \in Half
         /\ r.dialect = "natpmp" \/ r.dialect = "pcp"
         /\ r.dialect = "pcp" => r.nonce \in Octets /\ Len(r.nonce) = 12
<1>1. Len(b) \in Nat BY LenProperties DEF Octets
<1>2. CASE b[1] = 0 /\ Len(b) >= 12 /\ r.dialect = "natpmp" /\ r.internal = R16(b, 4)
  <2>1. R16(b, 4) \in Half BY <1>1, <1>2, ReadIsHalf
  <2> QED BY <1>2, <2>1
<1>3. CASE b[1] = 2 /\ Len(b) >= 60 /\ r.dialect = "pcp" /\ r.internal = R16(b, 40)
           /\ r.nonce = Bytes(b, 24, 12)
  <2>1. R16(b, 40) \in Half BY <1>1, <1>3, ReadIsHalf
  <2>2. Bytes(b, 24, 12) \in Octets /\ Len(Bytes(b, 24, 12)) = 12
    <3>1. Bytes(b, 24, 12) \in Octets BY <1>1, <1>3, ReadIsBytes
    <3>2. \A i \in 25 .. 36 : b[i] \in Byte BY <1>1, <1>3, ElementOfSeq DEF Octets
    <3>3. Len(SubSeq(b, 25, 36)) = 12 BY <1>1, <1>3, <3>2, SubSeqProperties DEF Octets
    <3> QED BY <3>1, <3>3 DEF Bytes
  <2> QED BY <1>3, <2>1, <2>2
<1> QED BY <1>2, <1>3, MapReading

LEMMA FirstFour ==
  ASSUME NEW b, NEW u, NEW v, NEW w, NEW x, Holds(b, 0, <<u, v, w, x>>)
  PROVE  b[1] = u /\ b[2] = v /\ b[3] = w /\ b[4] = x
<1>1. b[0 + 1] = u /\ b[0 + 2] = v /\ b[0 + 3] = w /\ b[0 + 4] = x BY ReadQuad
<1> QED BY <1>1

\* A reply that grants no mapping.
Grants(b) ==
  /\ b[1] = 0 => b[2] \notin {0, 128} /\ ~(b[3] = 0 /\ b[4] = 5)
  /\ b[1] = 2 => b[2] = 129 /\ b[4] = 0

\* It says the time at the gateway.
Tells(b) ==
  \/ b[1] = 0 /\ Holds(b, 4, W32(Now))
  \/ b[1] = 2 /\ Holds(b, 8, W32(Now))

LEMMA PcpErrorIs ==
  ASSUME NEW op \in 0 .. 127, NEW res \in Byte, NEW body \in Octets, op # 1 \/ res # 0
  PROVE  LET p == PcpResponse(op, res, <<0, 0>>, body) IN
         p \in Octets /\ Len(p) >= 24 /\ Tells(p) /\ ~Grants(p)
<1> DEFINE p == PcpResponse(op, res, <<0, 0>>, body)
<1>1. <<0, 0>> \in Word BY Numbers
<1>2. /\ p \in Octets /\ Len(p) = 24 + Len(body)
      /\ Holds(p, 0, <<2, 128 + op, 0, res>>) /\ Holds(p, 8, W32(Now))
  BY <1>1, PcpResponseIs, ZenonT(40)
<1> HIDE DEF p
<1>3. p[1] = 2 /\ p[2] = 128 + op /\ p[4] = res BY <1>2, FirstFour
<1>4. Len(body) \in Nat BY LenProperties DEF Octets
<1> QED BY <1>2, <1>3, <1>4 DEF Tells, Grants, p

LEMMA PeerBody == Zeros(12) \o <<6>> \o Zeros(43) \in Octets
<1>1. 6 \in Byte BY DEF Byte
<1>2. <<6>> \in Octets BY <1>1 DEF Octets
<1>3. Zeros(12) \in Octets /\ Zeros(43) \in Octets BY ZerosAre
<1> DEFINE x == Zeros(12)
           y == <<6>>
           z == Zeros(43)
<1>4. x \in Octets /\ y \in Octets /\ z \in Octets BY <1>2, <1>3
<1> HIDE DEF x, y, z
<1>5. x \o y \o z \in Octets BY <1>4, Three
<1> QED BY <1>5 DEF x, y, z

LEMMA MapReplyIs ==
  ASSUME NEW r, NEW d \in Decision, r.internal \in Half
  PROVE  LET p == NatpmpMapResponse(r, d) IN p \in Octets /\ Len(p) = 16 /\ Tells(p)
<1> DEFINE p == NatpmpMapResponse(r, d)
<1>1. d.result \in Byte /\ d.external \in Half /\ d.lifetime \in Word BY WireAssumption
<1>2. /\ p \in Octets /\ Len(p) = 16
      /\ Holds(p, 0, <<0, 128 + OpOf(r.protocol)>>) /\ Holds(p, 4, W32(Now))
  BY <1>1, NatpmpMapResponseIs
<1> HIDE DEF p
<1>3. p[1] = 0
  <2> DEFINE f == <<0, 128 + OpOf(r.protocol)>>
  <2>1. Len(f) = 2 /\ f[1] = 0 OBVIOUS
  <2>2. Holds(p, 0, f) BY <1>2
  <2> HIDE DEF f
  <2>3. p[0 + 1] = 0 BY <2>1, <2>2 DEF Holds
  <2> QED BY <2>3
<1> QED BY <1>2, <1>3 DEF Tells, p

LEMMA PcpMapReplyIs ==
  ASSUME NEW r, NEW d, NEW ip, IsAddress(ip) \/ ip = Unspecified,
         r.nonce \in Octets, Len(r.nonce) = 12, r.protocol \in {"tcp", "udp"}, r.internal \in Half,
         d.result \in Byte, d.external \in Half, d.lifetime \in Word
  PROVE  LET p == PcpMapResponse(r, d, ip) IN
         /\ p \in Octets /\ Len(p) = 60 /\ Tells(p) /\ p[1] = 2 /\ p[2] = 129 /\ p[4] = d.result
<1> DEFINE p == PcpMapResponse(r, d, ip)
<1>1. /\ p \in Octets /\ Len(p) = 60
      /\ Holds(p, 0, <<2, 129, 0, d.result>>) /\ Holds(p, 8, W32(Now))
  BY ZenonT(60), PcpMapResponseIs
<1> HIDE DEF p
<1>2. p[1] = 2 /\ p[2] = 129 /\ p[4] = d.result BY <1>1, FirstFour
<1> QED BY <1>1, <1>2 DEF Tells, p

\* Every reply says the time, and none but the answer to a request for a mapping
\* grants one.
LEMMA ReplyIs ==
  ASSUME NEW b \in Octets, NEW from, NEW r, r = GatewayReads(b, from), NEW d \in Decision,
         NEW ip \in ExternalIp, r.kind \notin {"malformed", "ignored"},
         r.kind \in {"map", "mismatch"} /\ r.dialect = "pcp" => r.protocol \in {"tcp", "udp"}
  PROVE  LET p == Reply(b, r, d, ip) IN
         /\ p \in Octets /\ Len(p) >= 8 /\ Tells(p)
         /\ \/ ~Grants(p)
            \/ r.kind = "map" /\ r.dialect = "natpmp" /\ p = NatpmpMapResponse(r, d)
            \/ r.kind = "map" /\ r.dialect = "pcp" /\ p = PcpMapResponse(r, d, Told(ip))
<1> DEFINE p == Reply(b, r, d, ip)
<1>1. r.kind \in {"version", "address", "announce", "opcode", "map", "mismatch"}
  <2>1. r \in Reading BY GatewayReadsReading
  <2> QED BY <2>1 DEF Reading
<1>2. d.result \in Byte /\ d.external \in Half /\ d.lifetime \in Word BY WireAssumption
<1>3. IsAddress(Told(ip)) BY ToldIsAddress
<1>4. CASE r.kind = "version"
  <2>1. p = UnsupportedVersion BY <1>4 DEF Reply
  <2>2. p \in Octets /\ Len(p) = 8 /\ Holds(p, 0, <<0, 0, 0, 1>>) /\ Holds(p, 4, W32(Now))
    BY <2>1, UnsupportedVersionIs
  <2> HIDE DEF p
  <2>3. p[1] = 0 /\ p[2] = 0 BY <2>2, FirstFour
  <2>4. Tells(p) /\ ~Grants(p) BY <2>2, <2>3 DEF Tells, Grants
  <2> QED BY <2>2, <2>4 DEF p
<1>5. CASE r.kind = "address"
  <2>1. p = NatpmpAddressResponse(ip) BY <1>5 DEF Reply
  <2>2. /\ p \in Octets /\ Len(p) = 12 /\ Holds(p, 0, <<0, 128, 0, AddressResult(ip)>>)
        /\ Holds(p, 4, W32(Now))
    BY <2>1, NatpmpAddressResponseIs
  <2> HIDE DEF p
  <2>3. p[1] = 0 /\ p[2] = 128 BY <2>2, FirstFour
  <2>4. Tells(p) /\ ~Grants(p) BY <2>2, <2>3 DEF Tells, Grants
  <2> QED BY <2>2, <2>4 DEF p
<1>6. CASE r.kind = "announce"
  <2>1. p = PcpResponse(0, 0, <<0, 0>>, <<>>) BY <1>6 DEF Reply
  <2> DEFINE zero == 0
             body == <<>>
  <2>2. zero \in 0 .. 127 /\ zero \in Byte /\ body \in Octets /\ zero # 1 BY DEF Byte, Octets
  <2>5. p = PcpResponse(zero, zero, <<0, 0>>, body) BY <2>1
  <2> HIDE DEF zero, body
  <2>3. p \in Octets /\ Len(p) >= 24 /\ Tells(p) /\ ~Grants(p) BY <2>2, <2>5, PcpErrorIs
  <2> HIDE DEF p
  <2>4. Len(p) >= 8
    <3>1. Len(p) \in Nat BY <2>3, LenProperties DEF Octets
    <3> QED BY <2>3, <3>1
  <2> QED BY <2>3, <2>4 DEF p
<1>7. CASE r.kind = "opcode"
  <2>1. Len(b) >= 2 /\ b[2] \in 0 .. 127 /\ (b[1] = 0 \/ (b[1] = 2 /\ b[2] # 1))
    BY <1>7, OpcodeReading
  <2>2. CASE b[1] = 0
    <3>1. p = UnsupportedOpcode(b) BY <1>7, <2>2 DEF Reply
    <3>2. p \in Octets /\ Len(p) >= 8 /\ Holds(p, 0, <<0, 128 + b[2], 0, 5>>) /\ Holds(p, 4, W32(Now))
      BY <2>1, <2>2, <3>1, UnsupportedOpcodeIs
    <3> HIDE DEF p
    <3>3. p[1] = 0 /\ p[3] = 0 /\ p[4] = 5 BY <3>2, FirstFour
    <3>4. Tells(p) /\ ~Grants(p) BY <3>2, <3>3 DEF Tells, Grants
    <3> QED BY <3>2, <3>4 DEF p
  <2>3. CASE b[1] = 2
    <3> DEFINE body == IF b[2] = 2 THEN Zeros(12) \o <<6>> \o Zeros(43) ELSE <<>>
    <3>1. body \in Octets
      <4>1. <<>> \in Octets BY DEF Octets
      <4> QED BY <4>1, PeerBody
    <3>2. p = PcpResponse(b[2], 4, <<0, 0>>, body) BY <1>7, <2>3 DEF Reply
    <3>3. 4 \in Byte /\ b[2] # 1 BY <2>1, <2>3 DEF Byte
    <3> HIDE DEF body
    <3>4. p \in Octets /\ Len(p) >= 24 /\ Tells(p) /\ ~Grants(p) BY <2>1, <3>1, <3>2, <3>3, PcpErrorIs
    <3> HIDE DEF p
    <3>5. Len(p) >= 8
      <4>1. Len(p) \in Nat BY <3>4, LenProperties DEF Octets
      <4> QED BY <3>4, <4>1
    <3> QED BY <3>4, <3>5 DEF p
  <2> QED BY <2>1, <2>2, <2>3
<1>8. CASE r.kind = "mismatch"
  <2>1. r.internal \in Half /\ r.dialect = "pcp" /\ r.nonce \in Octets /\ Len(r.nonce) = 12
    BY <1>8, MapReading, MapReadingFields
  <2>2. p = PcpMapResponse(r, AddressMismatch, Unspecified) BY <1>8 DEF Reply
  <2>3. AddressMismatch.result = 12 /\ AddressMismatch.external = 0 /\ AddressMismatch.lifetime = <<0, 0>>
    BY DEF AddressMismatch
  <2>4. AddressMismatch.result \in Byte /\ AddressMismatch.external \in Half
        /\ AddressMismatch.lifetime \in Word
    <3>1. 12 \in Byte BY DEF Byte
    <3> QED BY <2>3, <3>1, Numbers
  <2>5. p \in Octets /\ Len(p) = 60 /\ Tells(p) /\ p[1] = 2 /\ p[2] = 129 /\ p[4] = AddressMismatch.result
    <3> HIDE DEF p
    <3>1. r.protocol \in {"tcp", "udp"} BY <1>8, <2>1
    <3> QED BY <2>1, <2>2, <2>4, <3>1, PcpMapReplyIs
  <2> HIDE DEF p
  <2>6. ~Grants(p) BY <2>3, <2>5 DEF Grants
  <2> QED BY <2>5, <2>6 DEF p
<1>9. CASE r.kind = "map"
  <2>1. r.internal \in Half /\ (r.dialect = "natpmp" \/ r.dialect = "pcp")
        /\ (r.dialect = "pcp" => r.nonce \in Octets /\ Len(r.nonce) = 12)
    BY <1>9, MapReadingFields
  <2>2. CASE r.dialect = "natpmp"
    <3>1. p = NatpmpMapResponse(r, d) BY <1>9, <2>2 DEF Reply
    <3>2. p \in Octets /\ Len(p) = 16 /\ Tells(p) BY <2>1, <3>1, MapReplyIs
    <3> HIDE DEF p
    <3> QED BY <1>9, <2>2, <3>1, <3>2 DEF p
  <2>3. CASE r.dialect = "pcp"
    <3>1. p = PcpMapResponse(r, d, Told(ip)) BY <1>9, <2>3 DEF Reply
    <3>2. p \in Octets /\ Len(p) = 60 /\ Tells(p)
      <4> HIDE DEF p
      <4>1. r.protocol \in {"tcp", "udp"} BY <1>9, <2>3
      <4> QED BY <1>2, <1>3, <2>1, <2>3, <3>1, <4>1, PcpMapReplyIs
    <3> HIDE DEF p
    <3> QED BY <1>9, <2>3, <3>1, <3>2 DEF p
  <2> QED BY <2>1, <2>2, <2>3
<1> QED BY <1>1, <1>4, <1>5, <1>6, <1>7, <1>8, <1>9

\* What a client reads in the answer to a request for a mapping, however short.
LEMMA NatpmpMapIsHeard ==
  ASSUME NEW r, NEW d \in Decision, r.internal \in Half, r.protocol \in {"tcp", "udp"},
         NEW c \in Octets, Begins(c, NatpmpMapResponse(r, d)), Len(c) >= 16
  PROVE  /\ c[1] = 0 /\ c[2] = 128 + OpOf(r.protocol)
         /\ R16(c, 2) = d.result /\ R16(c, 8) = r.internal
         /\ R16(c, 10) = d.external /\ R32(c, 12) = d.lifetime
<1> DEFINE p == NatpmpMapResponse(r, d)
           f == <<0, 128 + OpOf(r.protocol)>>
<1>1. d.result \in Byte /\ d.external \in Half /\ d.lifetime \in Word BY WireAssumption
<1>2. /\ p \in Octets /\ Len(p) = 16
      /\ Holds(p, 0, f) /\ Holds(p, 2, W16(d.result))
      /\ Holds(p, 8, W16(r.internal)) /\ Holds(p, 10, W16(d.external))
      /\ Holds(p, 12, W32(d.lifetime))
  BY <1>1, NatpmpMapResponseIs
<1>3. Begins(c, p) OBVIOUS
<1> HIDE DEF p
<1>4. /\ Len(c) \in Nat
      /\ \A off \in Nat, g \in Octets : Holds(p, off, g) /\ off + Len(g) <= Len(c) => Holds(c, off, g)
  BY <1>2, <1>3, Left
<1>5. d.result \in Half BY <1>1, ByteIsHalf
<1> DEFINE u == W16(d.result)
           v == W16(r.internal)
           w == W16(d.external)
           x == W32(d.lifetime)
<1>6. f \in Octets /\ Len(f) = 2 /\ f[1] = 0 /\ f[2] = 128 + OpOf(r.protocol)
  <2>1. 0 \in Byte /\ 128 + OpOf(r.protocol) \in Byte BY DEF OpOf, Byte
  <2> QED BY <2>1, Pairs
<1>7. /\ u \in Octets /\ Len(u) = 2 /\ v \in Octets /\ Len(v) = 2 /\ w \in Octets /\ Len(w) = 2
      /\ x \in Octets /\ Len(x) = 4
  BY <1>1, <1>5, HalfIsPut, WordIsPut
<1>8. Holds(p, 0, f) /\ Holds(p, 2, u) /\ Holds(p, 8, v) /\ Holds(p, 10, w) /\ Holds(p, 12, x)
  BY <1>2
<1> HIDE DEF f, u, v, w, x
<1>9. 0 + Len(f) <= Len(c) /\ 2 + Len(u) <= Len(c) /\ 8 + Len(v) <= Len(c) /\ 10 + Len(w) <= Len(c)
      /\ 12 + Len(x) <= Len(c)
  BY <1>4, <1>6, <1>7
<1>10. Holds(c, 0, f) /\ Holds(c, 2, u) /\ Holds(c, 8, v) /\ Holds(c, 10, w) /\ Holds(c, 12, x)
  BY <1>4, <1>6, <1>7, <1>8, <1>9
<1>11. c[1] = 0 /\ c[2] = 128 + OpOf(r.protocol)
  <2>1. c[0 + 1] = f[1] /\ c[0 + 2] = f[2] BY <1>6, <1>10 DEF Holds
  <2> QED BY <1>6, <2>1
<1>12. R16(c, 2) = d.result BY <1>5, <1>10, ReadHalf DEF u
<1>13. R16(c, 8) = r.internal BY <1>10, ReadHalf DEF v
<1>14. R16(c, 10) = d.external BY <1>1, <1>10, ReadHalf DEF w
<1>15. R32(c, 12) = d.lifetime BY <1>1, <1>10, ReadWord DEF x
<1> QED BY <1>11, <1>12, <1>13, <1>14, <1>15

LEMMA PcpMapIsHeard ==
  ASSUME NEW r, NEW d, NEW ip, IsAddress(ip) \/ ip = Unspecified,
         r.nonce \in Octets, Len(r.nonce) = 12, r.protocol \in {"tcp", "udp"}, r.internal \in Half,
         d.result \in Byte, d.external \in Half, d.lifetime \in Word,
         NEW c \in Octets, Begins(c, PcpMapResponse(r, d, ip)), Len(c) >= 60
  PROVE  /\ c[1] = 2 /\ c[2] = 129 /\ c[4] = d.result /\ Bytes(c, 24, 12) = r.nonce
         /\ R16(c, 42) = d.external /\ R32(c, 4) = d.lifetime
         /\ IsAddress(ip) => DecodeIp(c, 44) = ip
<1> DEFINE p == PcpMapResponse(r, d, ip)
           f == <<2, 129, 0, d.result>>
           u == W32(d.lifetime)
           v == r.nonce
           w == W16(d.external)
           x == EncodeIp(ip)
<1>2. /\ p \in Octets /\ Len(p) = 60
      /\ Holds(p, 0, f) /\ Holds(p, 4, u) /\ Holds(p, 24, v) /\ Holds(p, 42, w) /\ Holds(p, 44, x)
  BY ZenonT(60), PcpMapResponseIs
<1>3. Begins(c, p) OBVIOUS
<1> HIDE DEF p
<1>4. /\ Len(c) \in Nat
      /\ \A off \in Nat, g \in Octets : Holds(p, off, g) /\ off + Len(g) <= Len(c) => Holds(c, off, g)
  BY <1>2, <1>3, Left
<1>6. f \in Octets /\ Len(f) = 4
  <2>1. 2 \in Byte /\ 129 \in Byte /\ 0 \in Byte BY DEF Byte
  <2> QED BY <2>1, Quads
<1>7. /\ u \in Octets /\ Len(u) = 4 /\ v \in Octets /\ Len(v) = 12 /\ w \in Octets /\ Len(w) = 2
      /\ x \in Octets /\ Len(x) = 16
  BY HalfIsPut, WordIsPut, AddressIsPut
<1> HIDE DEF f, u, v, w, x
<1>9. 0 + Len(f) <= Len(c) /\ 4 + Len(u) <= Len(c) /\ 24 + Len(v) <= Len(c) /\ 42 + Len(w) <= Len(c)
      /\ 44 + Len(x) <= Len(c)
  BY <1>4, <1>6, <1>7
<1>10. Holds(c, 0, f) /\ Holds(c, 4, u) /\ Holds(c, 24, v) /\ Holds(c, 42, w) /\ Holds(c, 44, x)
  BY <1>2, <1>4, <1>6, <1>7, <1>9, ZenonT(40)
<1>11. c[1] = 2 /\ c[2] = 129 /\ c[4] = d.result BY <1>10, FirstFour DEF f
<1>12. Bytes(c, 24, 12) = r.nonce
  <2>1. Bytes(c, 24, Len(v)) = v BY <1>7, <1>10, ReadBytes
  <2> QED BY <1>7, <2>1 DEF v
<1>13. R32(c, 4) = d.lifetime BY <1>10, ReadWord DEF u
<1>14. R16(c, 42) = d.external BY <1>10, ReadHalf DEF w
<1>15. IsAddress(ip) => DecodeIp(c, 44) = ip BY <1>10, AddressComesBack DEF x
<1> QED BY <1>11, <1>12, <1>13, <1>14, <1>15

\* A client takes a reply, cut or not, for the success of its mapping only if the
\* gateway granted that mapping, and reads in it what the gateway decided.
LEMMA SuccessIsGranted ==
  ASSUME NEW b \in Octets, NEW from, NEW r, r = GatewayReads(b, from), NEW d \in Decision,
         NEW ip \in ExternalIp, r.kind \notin {"malformed", "ignored"},
         r.kind \in {"map", "mismatch"} => r.protocol \in {"tcp", "udp"},
         NEW c \in Octets, Begins(c, Reply(b, r, d, ip)), NEW tx, tx.kind = "map",
         ClientReads(c, tx).verdict = "success"
  PROVE  /\ r.kind = "map" /\ d.result = 0 /\ r.dialect = tx.dialect
         /\ ClientReads(c, tx).msg.external = d.external
         /\ ClientReads(c, tx).msg.lifetime = d.lifetime
         /\ r.dialect = "natpmp" => r.internal = tx.internal /\ r.protocol = tx.protocol
         /\ r.dialect = "pcp" => r.nonce = tx.nonce /\ ClientReads(c, tx).msg.ip = Told(ip)
<1> DEFINE p == Reply(b, r, d, ip)
           m == ClientReads(c, tx).msg
<1>1. /\ p \in Octets /\ Len(p) >= 8 /\ Tells(p)
      /\ \/ ~Grants(p)
         \/ r.kind = "map" /\ r.dialect = "natpmp" /\ p = NatpmpMapResponse(r, d)
         \/ r.kind = "map" /\ r.dialect = "pcp" /\ p = PcpMapResponse(r, d, Told(ip))
  BY ReplyIs, ZenonT(40)
<1>2. Begins(c, p) OBVIOUS
<1> HIDE DEF p
<1>3. Len(c) >= 2 /\ Len(c) \in Nat BY TooShort
<1>4. /\ \A i \in 1 .. Len(c) : c[i] = p[i]
  BY <1>1, <1>2, Left
<1>5. (p[1] = 0 \/ p[1] = 2) /\ c[1] = p[1] BY <1>1, <1>3, <1>4 DEF Tells
<1>6. CASE p[1] = 0
  <2>1. /\ tx.dialect = "natpmp" /\ c[2] >= 128 /\ Len(c) >= 16 /\ R16(c, 2) = 0
        /\ OpcodeOf(c[2]) \in 1 .. 2 /\ R16(c, 8) = tx.internal
        /\ tx.protocol = IF OpcodeOf(c[2]) = 1 THEN "udp" ELSE "tcp"
        /\ m.external = R16(c, 10) /\ m.lifetime = R32(c, 12)
    BY <1>3, <1>5, <1>6, SuccessNatpmp
  <2> HIDE DEF m
  <2>2. p[2] = c[2] /\ p[3] = c[3] /\ p[4] = c[4] BY <1>3, <1>4, <2>1
  <2>3. Grants(p)
    <3>1. c[2] \notin {0, 128} BY <2>1 DEF OpcodeOf
    <3>2. ~(c[3] = 0 /\ c[4] = 5) BY <2>1 DEF R16
    <3> QED BY <1>6, <2>2, <3>1, <3>2 DEF Grants
  <2>4. r.kind = "map" /\ r.protocol \in {"tcp", "udp"} BY <1>1, <2>3
  <2>5. r.internal \in Half BY <2>4, MapReadingFields
  <2>6. CASE r.dialect = "natpmp" /\ p = NatpmpMapResponse(r, d)
    <3>1. /\ c[2] = 128 + OpOf(r.protocol) /\ R16(c, 2) = d.result /\ R16(c, 8) = r.internal
          /\ R16(c, 10) = d.external /\ R32(c, 12) = d.lifetime
      BY <1>2, <2>1, <2>4, <2>5, <2>6, NatpmpMapIsHeard
    <3>2. OpcodeOf(c[2]) = OpOf(r.protocol) BY <3>1 DEF OpcodeOf, OpOf
    <3>3. tx.protocol = r.protocol BY <2>1, <2>4, <3>2 DEF OpOf
    <3> QED BY <2>1, <2>4, <2>6, <3>1, <3>3 DEF m
  <2>7. CASE r.dialect = "pcp" /\ p = PcpMapResponse(r, d, Told(ip))
    <3>1. r.nonce \in Octets /\ Len(r.nonce) = 12 BY <2>4, <2>7, MapReadingFields
    <3>2. d.result \in Byte /\ d.external \in Half /\ d.lifetime \in Word BY WireAssumption
    <3>3. IsAddress(Told(ip)) BY ToldIsAddress
    <3>4. p[1] = 2 BY <2>4, <2>5, <2>7, <3>1, <3>2, <3>3, PcpMapReplyIs
    <3> QED BY <1>6, <3>4
  <2> QED BY <1>1, <2>3, <2>6, <2>7
<1>7. CASE p[1] = 2
  <2>1. /\ tx.dialect = "pcp" /\ c[2] = 129 /\ Len(c) >= 60 /\ c[4] = 0
        /\ Bytes(c, 24, 12) = tx.nonce
        /\ m.external = R16(c, 42) /\ m.lifetime = R32(c, 4) /\ m.ip = DecodeIp(c, 44)
    BY <1>3, <1>5, <1>7, SuccessPcp
  <2> HIDE DEF m
  <2>2. p[2] = c[2] /\ p[4] = c[4] BY <1>3, <1>4, <2>1
  <2>3. Grants(p) BY <1>7, <2>1, <2>2 DEF Grants
  <2>4. r.kind = "map" /\ r.protocol \in {"tcp", "udp"} BY <1>1, <2>3
  <2>5. r.internal \in Half BY <2>4, MapReadingFields
  <2>6. CASE r.dialect = "natpmp" /\ p = NatpmpMapResponse(r, d)
    <3>1. Tells(p) /\ Len(p) = 16 BY <2>5, <2>6, MapReplyIs
    <3>2. Begins(c, p) /\ Len(c) >= 60 /\ Len(c) \in Nat BY <1>2, <1>3, <2>1
    <3> QED BY <3>1, <3>2 DEF Begins
  <2>7. CASE r.dialect = "pcp" /\ p = PcpMapResponse(r, d, Told(ip))
    <3>1. r.nonce \in Octets /\ Len(r.nonce) = 12 BY <2>4, <2>7, MapReadingFields
    <3>2. d.result \in Byte /\ d.external \in Half /\ d.lifetime \in Word BY WireAssumption
    <3>3. IsAddress(Told(ip)) BY ToldIsAddress
    <3>4. /\ c[4] = d.result /\ Bytes(c, 24, 12) = r.nonce
          /\ R16(c, 42) = d.external /\ R32(c, 4) = d.lifetime
          /\ DecodeIp(c, 44) = Told(ip)
      <4>1. Begins(c, PcpMapResponse(r, d, Told(ip))) /\ Len(c) >= 60 BY <1>2, <2>1, <2>7
      <4> QED BY <2>4, <2>5, <3>1, <3>2, <3>3, <4>1, PcpMapIsHeard
    <3> QED BY <2>1, <2>4, <2>7, <3>4 DEF m
  <2> QED BY <1>1, <2>3, <2>6, <2>7
<1> QED BY <1>5, <1>6, <1>7

\* What each request is encoded as.
LEMMA EncodeIs ==
  ASSUME NEW tx, IsRequest(tx)
  PROVE  \/ tx.kind = "map" /\ tx.dialect = "pcp" /\ Encode(tx) = PcpMapRequest(tx)
         \/ tx.kind = "map" /\ tx.dialect = "natpmp" /\ Encode(tx) = NatpmpMapRequest(tx)
         \/ tx.kind = "probe" /\ tx.dialect = "pcp" /\ Encode(tx) = PcpHeader(0, <<0, 0>>, tx.client)
         \/ tx.kind # "map" /\ tx.dialect = "natpmp" /\ Encode(tx) = <<0, 0>>
<1>1. tx.kind \in {"map", "probe", "address"} /\ tx.dialect \in {"pcp", "natpmp"}
      /\ (tx.kind = "address" => tx.dialect = "natpmp")
  BY DEF IsRequest
<1> QED BY <1>1 DEF Encode

LEMMA ProbeIs ==
  ASSUME NEW tx, IsRequest(tx)
  PROVE  LET p == PcpHeader(0, <<0, 0>>, tx.client) IN
         p \in Octets /\ Len(p) = 24 /\ p[1] = 2 /\ p[2] = 0
<1> DEFINE op == 0
           life == <<0, 0>>
           p == PcpHeader(op, life, tx.client)
<1>1. op \in Byte /\ life \in Word BY Numbers DEF Byte
<1>2. IsAddress(tx.client) BY DEF IsRequest
<1> HIDE DEF op, life
<1>3. p \in Octets /\ Len(p) = 24 /\ Holds(p, 0, <<2, op, 0, 0>>) BY <1>1, <1>2, PcpHeaderIs
<1> HIDE DEF p
<1>4. p[1] = 2 /\ p[2] = op BY <1>3, FirstFour
<1> QED BY <1>3, <1>4 DEF p, op, life

LEMMA AddressRequestIs ==
  <<0, 0>> \in Octets /\ Len(<<0, 0>>) = 2 /\ <<0, 0>>[1] = 0 /\ <<0, 0>>[2] = 0
<1>1. 0 \in Byte BY DEF Byte
<1> QED BY <1>1, Pairs

LEMMA EncodeIsOctets ==
  ASSUME NEW tx, IsRequest(tx)
  PROVE  Encode(tx) \in Octets
<1>1. CASE tx.kind = "map" /\ tx.dialect = "pcp" /\ Encode(tx) = PcpMapRequest(tx)
  BY <1>1, PcpMapRequestIs
<1>2. CASE tx.kind = "map" /\ tx.dialect = "natpmp" /\ Encode(tx) = NatpmpMapRequest(tx)
  BY <1>2, NatpmpMapRequestIs
<1>3. CASE tx.kind = "probe" /\ tx.dialect = "pcp" /\ Encode(tx) = PcpHeader(0, <<0, 0>>, tx.client)
  BY <1>3, ProbeIs
<1>4. CASE tx.kind # "map" /\ tx.dialect = "natpmp" /\ Encode(tx) = <<0, 0>>
  BY <1>4, AddressRequestIs
<1> QED BY <1>1, <1>2, <1>3, <1>4, EncodeIs

LEMMA NatpmpMapRequestIsHeard ==
  ASSUME NEW tx, IsRequest(tx), tx.kind = "map", NEW c \in Octets,
         Begins(c, NatpmpMapRequest(tx)), Len(c) >= 12
  PROVE  /\ c[1] = 0 /\ c[2] = (IF tx.protocol = "udp" THEN 1 ELSE 2)
         /\ R16(c, 4) = tx.internal /\ R16(c, 6) = Suggested(tx) /\ R32(c, 8) = tx.lifetime
<1> DEFINE p == NatpmpMapRequest(tx)
           op == IF tx.protocol = "udp" THEN 1 ELSE 2
           f == <<0, op>>
           u == W16(tx.internal)
           v == W16(Suggested(tx))
           w == W32(tx.lifetime)
<1>1. tx.internal \in Half /\ tx.external \in Half /\ tx.lifetime \in Word BY DEF IsRequest
<1>2. Suggested(tx) \in Half BY <1>1, Numbers DEF Suggested
<1>3. p \in Octets /\ Holds(p, 0, f) /\ Holds(p, 4, u) /\ Holds(p, 6, v) /\ Holds(p, 8, w)
  BY NatpmpMapRequestIs
<1>4. Begins(c, p) OBVIOUS
<1> HIDE DEF p
<1>5. /\ Len(c) \in Nat
      /\ \A off \in Nat, g \in Octets : Holds(p, off, g) /\ off + Len(g) <= Len(c) => Holds(c, off, g)
  BY <1>3, <1>4, Left
<1>6. f \in Octets /\ Len(f) = 2 /\ f[1] = 0 /\ f[2] = op
  <2>1. 0 \in Byte /\ op \in Byte BY DEF Byte
  <2> HIDE DEF op
  <2> QED BY <2>1, Pairs
<1>7. u \in Octets /\ Len(u) = 2 /\ v \in Octets /\ Len(v) = 2 /\ w \in Octets /\ Len(w) = 4
  BY <1>1, <1>2, HalfIsPut, WordIsPut
<1> HIDE DEF f, u, v, w
<1>8. 0 + Len(f) <= Len(c) /\ 4 + Len(u) <= Len(c) /\ 6 + Len(v) <= Len(c) /\ 8 + Len(w) <= Len(c)
  BY <1>5, <1>6, <1>7
<1>9. Holds(c, 0, f) /\ Holds(c, 4, u) /\ Holds(c, 6, v) /\ Holds(c, 8, w)
  BY <1>3, <1>5, <1>6, <1>7, <1>8
<1>10. c[1] = 0 /\ c[2] = op
  <2>1. c[0 + 1] = f[1] /\ c[0 + 2] = f[2] BY <1>6, <1>9 DEF Holds
  <2> QED BY <1>6, <2>1
<1>11. R16(c, 4) = tx.internal BY <1>1, <1>9, ReadHalf DEF u
<1>12. R16(c, 6) = Suggested(tx) BY <1>2, <1>9, ReadHalf DEF v
<1>13. R32(c, 8) = tx.lifetime BY <1>1, <1>9, ReadWord DEF w
<1> QED BY <1>10, <1>11, <1>12, <1>13

LEMMA PcpMapRequestIsHeard ==
  ASSUME NEW tx, IsRequest(tx), tx.kind = "map", NEW c \in Octets,
         Begins(c, PcpMapRequest(tx)), Len(c) >= 60
  PROVE  /\ c[1] = 2 /\ c[2] = 1 /\ c[37] = ProtoNumber[tx.protocol]
         /\ DecodeIp(c, 8) = tx.client /\ Bytes(c, 24, 12) = tx.nonce
         /\ R16(c, 40) = tx.internal /\ R16(c, 42) = tx.external /\ R32(c, 4) = tx.lifetime
<1> DEFINE p == PcpMapRequest(tx)
           f == <<2, 1, 0, 0>>
           u == W32(tx.lifetime)
           v == EncodeIp(tx.client)
           w == tx.nonce
           x == <<ProtoNumber[tx.protocol], 0, 0, 0>>
           y == W16(tx.internal)
           z == W16(tx.external)
<1>1. /\ tx.internal \in Half /\ tx.external \in Half /\ tx.lifetime \in Word /\ IsAddress(tx.client)
      /\ tx.nonce \in [1 .. 12 -> Byte] /\ tx.protocol \in {"tcp", "udp"}
  BY DEF IsRequest
<1>2. /\ p \in Octets /\ Holds(p, 0, f) /\ Holds(p, 4, u) /\ Holds(p, 8, v) /\ Holds(p, 24, w)
      /\ Holds(p, 36, x) /\ Holds(p, 40, y) /\ Holds(p, 42, z)
  BY PcpMapRequestIs
<1>3. Begins(c, p) OBVIOUS
<1> HIDE DEF p
<1>4. /\ Len(c) \in Nat
      /\ \A off \in Nat, g \in Octets : Holds(p, off, g) /\ off + Len(g) <= Len(c) => Holds(c, off, g)
  BY <1>2, <1>3, Left
<1>5. f \in Octets /\ Len(f) = 4
  <2>1. 2 \in Byte /\ 1 \in Byte /\ 0 \in Byte BY DEF Byte
  <2> QED BY <2>1, Quads
<1>6. x \in Octets /\ Len(x) = 4
  <2>1. ProtoNumber[tx.protocol] \in {6, 17} BY <1>1 DEF ProtoNumber
  <2>2. ProtoNumber[tx.protocol] \in Byte /\ 0 \in Byte BY <2>1 DEF Byte
  <2> QED BY <2>2, Quads
<1>7. w \in Octets /\ Len(w) = 12
  <2>1. w \in [1 .. 12 -> Byte] BY <1>1
  <2> HIDE DEF w
  <2> QED BY <2>1, Functions, ZenonT(40) DEF Octets
<1>8. /\ u \in Octets /\ Len(u) = 4 /\ v \in Octets /\ Len(v) = 16
      /\ y \in Octets /\ Len(y) = 2 /\ z \in Octets /\ Len(z) = 2
  BY <1>1, HalfIsPut, WordIsPut, AddressIsPut
<1> HIDE DEF f, u, v, w, x, y, z
<1>9. /\ 0 + Len(f) <= Len(c) /\ 4 + Len(u) <= Len(c) /\ 8 + Len(v) <= Len(c) /\ 24 + Len(w) <= Len(c)
      /\ 36 + Len(x) <= Len(c) /\ 40 + Len(y) <= Len(c) /\ 42 + Len(z) <= Len(c)
  BY <1>4, <1>5, <1>6, <1>7, <1>8
<1>10. /\ Holds(c, 0, f) /\ Holds(c, 4, u) /\ Holds(c, 8, v) /\ Holds(c, 24, w)
       /\ Holds(c, 36, x) /\ Holds(c, 40, y) /\ Holds(c, 42, z)
  BY <1>2, <1>4, <1>5, <1>6, <1>7, <1>8, <1>9
<1>11. c[1] = 2 /\ c[2] = 1 BY <1>10, FirstFour DEF f
<1>12. c[37] = ProtoNumber[tx.protocol]
  <2>1. c[36 + 1] = ProtoNumber[tx.protocol] BY <1>10, ReadQuad DEF x
  <2> QED BY <2>1
<1>13. DecodeIp(c, 8) = tx.client BY <1>1, <1>10, AddressComesBack DEF v
<1>14. Bytes(c, 24, 12) = tx.nonce
  <2>1. Bytes(c, 24, Len(w)) = w BY <1>7, <1>10, ReadBytes
  <2> QED BY <1>7, <2>1 DEF w
<1>15. R16(c, 40) = tx.internal BY <1>1, <1>10, ReadHalf DEF y
<1>16. R16(c, 42) = tx.external BY <1>1, <1>10, ReadHalf DEF z
<1>17. R32(c, 4) = tx.lifetime BY <1>1, <1>10, ReadWord DEF u
<1> QED BY <1>11, <1>12, <1>13, <1>14, <1>15, <1>16, <1>17

\* What the gateway takes for a request of a mapping has the fields that were
\* asked for, wherever the packet was cut.
LEMMA RequestIsUnderstood ==
  ASSUME NEW tx, IsRequest(tx), NEW c \in Octets, Begins(c, Encode(tx)),
         NEW from, NEW r, r = GatewayReads(c, from), r.kind \in {"map", "mismatch"}
  PROVE  /\ tx.kind = "map" /\ r.dialect = tx.dialect
         /\ r.protocol = tx.protocol /\ r.internal = tx.internal /\ r.lifetime = tx.lifetime
         /\ r.external = IF tx.dialect = "natpmp" THEN Suggested(tx) ELSE tx.external
         /\ tx.dialect = "pcp" => /\ r.nonce = tx.nonce
                                  /\ r.kind = IF from = tx.client THEN "map" ELSE "mismatch"
<1> DEFINE p == Encode(tx)
<1>1. p \in Octets BY EncodeIsOctets
<1>2. Begins(c, p) OBVIOUS
<1>e. \/ tx.kind = "map" /\ tx.dialect = "pcp" /\ p = PcpMapRequest(tx)
      \/ tx.kind = "map" /\ tx.dialect = "natpmp" /\ p = NatpmpMapRequest(tx)
      \/ tx.kind = "probe" /\ tx.dialect = "pcp" /\ p = PcpHeader(0, <<0, 0>>, tx.client)
      \/ tx.kind # "map" /\ tx.dialect = "natpmp" /\ p = <<0, 0>>
  BY EncodeIs
<1> HIDE DEF p
<1>3. /\ Len(c) \in Nat /\ Len(p) \in Nat /\ Len(c) <= Len(p) /\ \A i \in 1 .. Len(c) : c[i] = p[i]
  BY <1>1, <1>2, Left
<1>4. tx.protocol \in {"tcp", "udp"} \/ tx.kind # "map" BY DEF IsRequest
<1>5. \/ /\ c[1] = 0 /\ c[2] \in 1 .. 2 /\ Len(c) >= 12
         /\ r.kind = "map" /\ r.dialect = "natpmp"
         /\ r.protocol = IF c[2] = 1 THEN "udp" ELSE "tcp"
         /\ r.internal = R16(c, 4) /\ r.external = R16(c, 6) /\ r.lifetime = R32(c, 8)
      \/ /\ c[1] = 2 /\ c[2] = 1 /\ Len(c) >= 60 /\ gateway # "natpmp"
         /\ r.kind = (IF DecodeIp(c, 8) = from THEN "map" ELSE "mismatch") /\ r.dialect = "pcp"
         /\ r.protocol = ProtoName(c[37]) /\ r.nonce = Bytes(c, 24, 12)
         /\ r.internal = R16(c, 40) /\ r.external = R16(c, 42) /\ r.lifetime = R32(c, 4)
  BY MapReading
<1>6. Len(c) >= 12 /\ c[1] = p[1] /\ c[2] = p[2] BY <1>3, <1>5
<1>7. CASE tx.kind = "map" /\ tx.dialect = "pcp" /\ p = PcpMapRequest(tx)
  <2>1. p[1] = 2
    <3>1. Holds(p, 0, <<2, 1, 0, 0>>) BY <1>7, PcpMapRequestIs
    <3> QED BY <3>1, FirstFour
  <2>2. Len(c) >= 60 BY <1>5, <1>6, <2>1
  <2>3. /\ c[37] = ProtoNumber[tx.protocol]
        /\ DecodeIp(c, 8) = tx.client /\ Bytes(c, 24, 12) = tx.nonce
        /\ R16(c, 40) = tx.internal /\ R16(c, 42) = tx.external /\ R32(c, 4) = tx.lifetime
    BY <1>2, <1>7, <2>2, PcpMapRequestIsHeard
  <2>4. ProtoName(ProtoNumber[tx.protocol]) = tx.protocol BY <1>4, <1>7 DEF ProtoName, ProtoNumber
  <2> QED BY <1>5, <1>6, <1>7, <2>1, <2>3, <2>4
<1>8. CASE tx.kind = "map" /\ tx.dialect = "natpmp" /\ p = NatpmpMapRequest(tx)
  <2>1. /\ c[1] = 0 /\ c[2] = (IF tx.protocol = "udp" THEN 1 ELSE 2)
        /\ R16(c, 4) = tx.internal /\ R16(c, 6) = Suggested(tx) /\ R32(c, 8) = tx.lifetime
    BY <1>2, <1>6, <1>8, NatpmpMapRequestIsHeard
  <2> QED BY <1>4, <1>5, <1>8, <2>1
<1>9. CASE tx.kind = "probe" /\ tx.dialect = "pcp" /\ p = PcpHeader(0, <<0, 0>>, tx.client)
  <2>1. p[1] = 2 /\ p[2] = 0 BY <1>9, ProbeIs
  <2> QED BY <1>5, <1>6, <2>1
<1>10. CASE tx.kind # "map" /\ tx.dialect = "natpmp" /\ p = <<0, 0>>
  <2>1. Len(p) = 2 BY <1>10
  <2> QED BY <1>3, <1>6, <2>1
<1> QED BY <1>e, <1>7, <1>8, <1>9, <1>10

LEMMA BeginsItself == \A b \in Octets : Begins(b, b) /\ Len(b) \in Nat
<1> TAKE b \in Octets
<1>1. Len(b) \in Nat BY LenProperties DEF Octets
<1> QED BY <1>1 DEF Begins

\* A request that arrives whole is taken for what it is, by a gateway that speaks
\* its dialect.
LEMMA WholeIsUnderstood ==
  ASSUME NEW tx, IsRequest(tx), NEW from, NEW r, r = GatewayReads(Encode(tx), from)
  PROVE  \/ tx.dialect = "pcp" /\ gateway = "natpmp" /\ r.kind = "version"
         \/ tx.dialect = "pcp" /\ gateway # "natpmp" /\ tx.kind = "map" /\ r.kind \in {"map", "mismatch"}
         \/ tx.dialect = "pcp" /\ gateway # "natpmp" /\ tx.kind = "probe" /\ r.kind = "announce"
         \/ tx.dialect = "natpmp" /\ tx.kind = "map" /\ r.kind = "map"
         \/ tx.dialect = "natpmp" /\ tx.kind # "map" /\ r.kind = "address"
<1> DEFINE p == Encode(tx)
<1>1. p \in Octets BY EncodeIsOctets
<1>e. \/ tx.kind = "map" /\ tx.dialect = "pcp" /\ p = PcpMapRequest(tx)
      \/ tx.kind = "map" /\ tx.dialect = "natpmp" /\ p = NatpmpMapRequest(tx)
      \/ tx.kind = "probe" /\ tx.dialect = "pcp" /\ p = PcpHeader(0, <<0, 0>>, tx.client)
      \/ tx.kind # "map" /\ tx.dialect = "natpmp" /\ p = <<0, 0>>
  BY EncodeIs
<1>2. r = GatewayReads(p, from) OBVIOUS
<1> HIDE DEF p
<1>3. CASE tx.kind = "map" /\ tx.dialect = "pcp" /\ p = PcpMapRequest(tx)
  <2>1. /\ Holds(p, 0, <<2, 1, 0, 0>>) /\ Len(p) = IF tx.exact THEN 64 ELSE 60
        /\ tx.exact => R16(p, 62) = 0
    BY <1>3, PcpMapRequestIs
  <2>2. p[1] = 2 /\ p[2] = 1 BY <2>1, FirstFour
  <2>3. OptionsParse(p, 60)
    <3>1. CASE tx.exact
      <4>1. Len(p) = 60 + 4 /\ R16(p, 60 + 2) = 0 BY <2>1, <3>1
      <4> QED BY <1>1, <4>1, OneOption
    <3>2. CASE ~tx.exact
      <4>1. Len(p) = 60 BY <2>1, <3>2
      <4> QED BY <1>1, <4>1, NoOption
    <3> QED BY <3>1, <3>2
  <2>4. Len(p) >= 60 /\ ~(Len(p) > MaxPacketSize) BY <2>1 DEF MaxPacketSize
  <2>5. CASE gateway = "natpmp"
    <3>1. r = Kind("version") BY <1>2, <2>2, <2>4, <2>5 DEF GatewayReads
    <3> QED BY <1>3, <2>5, <3>1 DEF Kind
  <2>6. CASE gateway # "natpmp"
    <3>1. r = ReadPcp(p, from) BY <1>1, <1>2, <2>2, <2>4, <2>6, BeginsItself DEF GatewayReads
    <3>2. r.kind \in {"map", "mismatch"} BY <1>1, <2>2, <2>3, <2>4, <3>1, BeginsItself DEF ReadPcp
    <3> QED BY <1>3, <2>6, <3>2
  <2> QED BY <2>5, <2>6
<1>4. CASE tx.kind = "map" /\ tx.dialect = "natpmp" /\ p = NatpmpMapRequest(tx)
  <2>1. Len(p) = 12 /\ p \in Octets BY <1>4, NatpmpMapRequestIs
  <2>2. p[1] = 0 /\ p[2] = (IF tx.protocol = "udp" THEN 1 ELSE 2)
    <3>1. Begins(p, p) /\ Len(p) >= 12 BY <2>1, BeginsItself
    <3> QED BY <1>4, <2>1, <3>1, NatpmpMapRequestIsHeard
  <2>3. r = ReadNatpmp(p) BY <1>2, <2>1, <2>2 DEF GatewayReads
  <2>4. p[2] \in 1 .. 2 BY <2>2
  <2>5. r.kind = "map" BY <2>1, <2>3, <2>4 DEF ReadNatpmp
  <2> QED BY <1>4, <2>5
<1>5. CASE tx.kind = "probe" /\ tx.dialect = "pcp" /\ p = PcpHeader(0, <<0, 0>>, tx.client)
  <2>1. Len(p) = 24 /\ p[1] = 2 /\ p[2] = 0 BY <1>5, ProbeIs
  <2>2. CASE gateway = "natpmp"
    <3>1. r = Kind("version") BY <1>2, <2>1, <2>2 DEF GatewayReads
    <3> QED BY <1>5, <2>2, <3>1 DEF Kind
  <2>3. CASE gateway # "natpmp"
    <3>1. OptionsParse(p, 24) BY <1>1, <2>1, NoOption
    <3>2. r = ReadPcp(p, from) BY <1>2, <2>1, <2>3 DEF GatewayReads
    <3>3. r = Kind("announce") BY <2>1, <3>1, <3>2 DEF ReadPcp, MaxPacketSize
    <3> QED BY <1>5, <2>3, <3>3 DEF Kind
  <2> QED BY <2>2, <2>3
<1>6. CASE tx.kind # "map" /\ tx.dialect = "natpmp" /\ p = <<0, 0>>
  <2>1. Len(p) = 2 /\ p[1] = 0 /\ p[2] = 0 BY <1>6
  <2>2. r = ReadNatpmp(p) BY <1>2, <2>1 DEF GatewayReads
  <2>3. r = Kind("address") BY <2>1, <2>2 DEF ReadNatpmp
  <2> QED BY <1>6, <2>3 DEF Kind
<1> QED BY <1>e, <1>3, <1>4, <1>5, <1>6

\* A client that asked in PCP changes dialects when it is told to.
LEMMA VersionIsHeard ==
  ASSUME NEW tx, tx.dialect = "pcp"
  PROVE  ClientReads(UnsupportedVersion, tx).verdict = "version"
<1> DEFINE p == UnsupportedVersion
           m == DecodeNatpmp(p)
<1>1. p \in Octets /\ Len(p) = 8 /\ Holds(p, 0, <<0, 0, 0, 1>>) BY UnsupportedVersionIs
<1> HIDE DEF p
<1>2. p[1] = 0 /\ p[2] = 0 /\ p[3] = 0 /\ p[4] = 1 BY <1>1, FirstFour
<1>3. R16(p, 2) = 1 BY <1>2 DEF R16
<1>4. m = [Response("address", 0, 1, R32(p, 4)) EXCEPT !.ip = None]
  BY <1>1, <1>2, <1>3 DEF DecodeNatpmp
<1>5. m.result = 1 /\ m.kind = "address" BY <1>4 DEF Response
<1> HIDE DEF m
<1>6. m # Bad BY <1>5 DEF Bad, Kind
<1>7. ClientReads(p, tx) = Verdict("version", m)
  <2>1. ClientReads(p, tx) =
           IF m = Bad THEN Verdict("malformed", None)
           ELSE IF "natpmp" # tx.dialect
           THEN Verdict(IF m.result = 1 THEN "version" ELSE "ignored", m)
           ELSE IF ~Matches(tx, m) THEN Verdict("ignored", m)
           ELSE Verdict(IF m.result = 1 THEN "version" ELSE IF m.result = 0 THEN "success" ELSE "error", m)
    <3>1. Len(p) >= 2 /\ p[1] = 0 BY <1>1, <1>2
    <3> QED BY <3>1, HeardNatpmp DEF m
  <2> QED BY <1>5, <1>6, <2>1
<1> QED BY <1>7 DEF Verdict, p

LEMMA AddressIsHeard ==
  ASSUME NEW ip \in ExternalIp, NEW tx, tx.dialect = "natpmp", tx.kind # "map"
  PROVE  LET v == ClientReads(NatpmpAddressResponse(ip), tx) IN
         /\ v.verdict = IF ip = None THEN "error" ELSE "success"
         /\ v.msg.result = AddressResult(ip)
<1> DEFINE p == NatpmpAddressResponse(ip)
           m == DecodeNatpmp(p)
           res == AddressResult(ip)
<1>1. p \in Octets /\ Len(p) = 12 /\ Holds(p, 0, <<0, 128, 0, res>>) BY NatpmpAddressResponseIs
<1>r. res \in Nat /\ res # 1 /\ (res = 0 <=> ip # None) BY DEF AddressResult
<1> HIDE DEF p, res
<1>2. p[1] = 0 /\ p[2] = 128 /\ p[3] = 0 /\ p[4] = res BY <1>1, FirstFour
<1>3. R16(p, 2) = res BY <1>2, <1>r DEF R16
<1>4. m = [Response("address", 0, res, R32(p, 4)) EXCEPT
             !.ip = IF res = 0 THEN V4(Bytes(p, 8, 4)) ELSE None]
  BY <1>1, <1>2, <1>3, <1>r DEF DecodeNatpmp
<1>5. m.result = res /\ m.kind = "address" BY <1>4 DEF Response
<1> HIDE DEF m
<1>6. m # Bad /\ Matches(tx, m) BY <1>5 DEF Bad, Kind, Matches
<1>7. ClientReads(p, tx) = Verdict(IF ip = None THEN "error" ELSE "success", m)
  <2>1. ClientReads(p, tx) =
           IF m = Bad THEN Verdict("malformed", None)
           ELSE IF "natpmp" # tx.dialect
           THEN Verdict(IF m.result = 1 THEN "version" ELSE "ignored", m)
           ELSE IF ~Matches(tx, m) THEN Verdict("ignored", m)
           ELSE Verdict(IF m.result = 1 THEN "version" ELSE IF m.result = 0 THEN "success" ELSE "error", m)
    <3>1. Len(p) >= 2 /\ p[1] = 0 BY <1>1, <1>2
    <3> QED BY <3>1, HeardNatpmp DEF m
  <2> QED BY <1>5, <1>6, <1>r, <2>1
<1> QED BY <1>5, <1>7 DEF Verdict, p, res

LEMMA AnnounceIsHeard ==
  ASSUME NEW tx, tx.dialect = "pcp", tx.kind = "probe"
  PROVE  ClientReads(PcpResponse(0, 0, <<0, 0>>, <<>>), tx).verdict = "success"
<1> DEFINE zero == 0
           life == <<0, 0>>
           body == <<>>
           p == PcpResponse(zero, zero, life, body)
           m == DecodePcp(p)
<1>1. zero \in 0 .. 127 /\ zero \in Byte /\ body \in Octets /\ Len(body) = 0 BY DEF Byte, Octets
<1>2. life \in Word BY Numbers
<1> HIDE DEF zero, body, life
<1>3. p \in Octets /\ Len(p) = 24 + Len(body) /\ Holds(p, 0, <<2, 128 + zero, 0, zero>>)
  BY <1>1, <1>2, ZenonT(60), PcpResponseIs
<1> HIDE DEF p
<1>4. p[1] = 2 /\ p[2] = 128 /\ p[4] = 0 BY <1>3, FirstFour DEF zero
<1>5. Len(p) = 24 BY <1>1, <1>3
<1>6. OptionsParse(p, 24) BY <1>3, <1>5, NoOption
<1>7. m = [Response("announce", 0, 0, R32(p, 8)) EXCEPT !.lifetime = R32(p, 4)]
  BY <1>4, <1>5, <1>6 DEF DecodePcp, MaxPacketSize
<1>8. m.result = 0 /\ m.kind = "announce" BY <1>7 DEF Response
<1> HIDE DEF m
<1>9. m # Bad /\ Matches(tx, m) BY <1>8 DEF Bad, Kind, Matches
<1>10. ClientReads(p, tx) = Verdict("success", m)
  <2>1. ClientReads(p, tx) =
           IF m = Bad THEN Verdict("malformed", None)
           ELSE IF "pcp" # tx.dialect THEN Verdict("ignored", m)
           ELSE IF ~Matches(tx, m) THEN Verdict("ignored", m)
           ELSE Verdict(IF m.result = 1 THEN "version" ELSE IF m.result = 0 THEN "success" ELSE "error", m)
    <3>1. Len(p) >= 2 /\ p[1] = 2 BY <1>4, <1>5
    <3> QED BY <3>1, HeardPcp DEF m
  <2> QED BY <1>8, <1>9, <2>1
<1> QED BY <1>10 DEF Verdict, p, zero, life, body

\* A decision arrives as what it is.
LEMMA NatpmpDecisionIsHeard ==
  ASSUME NEW r, NEW d \in Decision, NEW tx, tx.dialect = "natpmp", tx.kind = "map",
         r.internal \in Half, r.internal = tx.internal,
         r.protocol \in {"tcp", "udp"}, r.protocol = tx.protocol
  PROVE  LET v == ClientReads(NatpmpMapResponse(r, d), tx) IN
         /\ v.verdict = IF d.result = 0 THEN "success" ELSE "error"
         /\ v.msg.result = d.result
<1> DEFINE p == NatpmpMapResponse(r, d)
           m == DecodeNatpmp(p)
<1>1. p \in Octets /\ Len(p) = 16 BY MapReplyIs
<1>2. /\ p[1] = 0 /\ p[2] = 128 + OpOf(r.protocol) /\ R16(p, 2) = d.result /\ R16(p, 8) = r.internal
  <2>1. Begins(p, p) /\ Len(p) >= 16 BY <1>1, BeginsItself
  <2> QED BY <1>1, <2>1, NatpmpMapIsHeard, ZenonT(40)
<1>3. d.result # 1 BY WireAssumption
<1> HIDE DEF p
<1>4. p[2] >= 128 /\ p[2] \in Nat /\ p[2] - 128 = OpOf(r.protocol) /\ OpOf(r.protocol) \in 1 .. 2
  BY <1>2 DEF OpOf
<1>5. m # Bad
  <2> DEFINE op == OpOf(r.protocol)
             msg == [Response("map", op, R16(p, 2), R32(p, 4)) EXCEPT
                       !.protocol = IF op = 1 THEN "udp" ELSE "tcp"]
             full == [msg EXCEPT !.internal = R16(p, 8), !.external = R16(p, 10),
                                 !.lifetime = R32(p, 12)]
  <2>1. m = full
    <3>1. /\ op \in 1 .. 2 /\ op # 0 /\ ~(op > 2)
          /\ p[2] >= 128 /\ ~(p[2] < 128) /\ p[2] - 128 = op
      BY <1>4
    <3>2. ~(Len(p) < 4) /\ ~(Len(p) < 16) BY <1>1
    <3> HIDE DEF op
    <3> QED BY <3>1, <3>2 DEF DecodeNatpmp
  <2>2. full.kind = "map" BY DEF Response
  <2> HIDE DEF full, m
  <2> QED BY <2>1, <2>2 DEF Bad, Kind
<1>6. /\ m.result = d.result /\ m.kind = "map" /\ m.internal = tx.internal /\ m.protocol = tx.protocol
  <2>1. OpcodeOf(p[2]) = OpOf(r.protocol) BY <1>4 DEF OpcodeOf
  <2>2. Len(p) >= 2 /\ Len(p) >= 16 BY <1>1
  <2>3. /\ m.result = R16(p, 2)
        /\ m.kind = "address" <=> OpcodeOf(p[2]) = 0
        /\ m.kind = "address" \/ m.kind = "map"
        /\ m.kind = "map" =>
             /\ m.protocol = IF OpcodeOf(p[2]) = 1 THEN "udp" ELSE "tcp"
             /\ Len(p) >= 16 => m.internal = R16(p, 8)
    BY <1>1, <1>5, <2>2, NatpmpFields
  <2> HIDE DEF m
  <2>4. m.kind = "map" BY <1>4, <2>1, <2>3
  <2>5. m.protocol = r.protocol BY <2>1, <2>3, <2>4 DEF OpOf
  <2> QED BY <1>2, <2>2, <2>3, <2>4, <2>5
<1> HIDE DEF m
<1>7. Matches(tx, m) BY <1>6 DEF Matches
<1>8. ClientReads(p, tx) = Verdict(IF d.result = 0 THEN "success" ELSE "error", m)
  <2>1. ClientReads(p, tx) =
           IF m = Bad THEN Verdict("malformed", None)
           ELSE IF "natpmp" # tx.dialect
           THEN Verdict(IF m.result = 1 THEN "version" ELSE "ignored", m)
           ELSE IF ~Matches(tx, m) THEN Verdict("ignored", m)
           ELSE Verdict(IF m.result = 1 THEN "version" ELSE IF m.result = 0 THEN "success" ELSE "error", m)
    <3>1. Len(p) >= 2 /\ p[1] = 0 BY <1>1, <1>2
    <3> QED BY <3>1, HeardNatpmp DEF m
  <2> QED BY <1>3, <1>5, <1>6, <1>7, <2>1
<1> QED BY <1>6, <1>8 DEF Verdict, p

LEMMA PcpDecisionIsHeard ==
  ASSUME NEW r, NEW d, NEW ip, IsAddress(ip) \/ ip = Unspecified, NEW tx,
         tx.dialect = "pcp", tx.kind = "map", r.nonce = tx.nonce,
         r.nonce \in Octets, Len(r.nonce) = 12, r.protocol \in {"tcp", "udp"}, r.internal \in Half,
         d.result \in Byte, d.result # 1, d.external \in Half, d.lifetime \in Word
  PROVE  LET v == ClientReads(PcpMapResponse(r, d, ip), tx) IN
         /\ v.verdict = IF d.result = 0 THEN "success" ELSE "error"
         /\ v.msg.result = d.result
<1> DEFINE p == PcpMapResponse(r, d, ip)
           m == DecodePcp(p)
<1>0. p = PcpMapResponse(r, d, ip) OBVIOUS
<1>1. p \in Octets /\ Len(p) = 60 /\ p[1] = 2 /\ p[2] = 129 /\ p[4] = d.result
  <2> HIDE DEF p
  <2> QED BY <1>0, PcpMapReplyIs
<1>2. Bytes(p, 24, 12) = r.nonce
  <2>1. Begins(p, p) /\ Len(p) >= 60 BY <1>1, BeginsItself
  <2> QED BY <1>1, <2>1, PcpMapIsHeard, ZenonT(40)
<1> HIDE DEF p
<1>3. OptionsParse(p, 60) BY <1>1, NoOption
<1>4. m # Bad
  <2> DEFINE msg == [Response("map", 1, p[4], R32(p, 8)) EXCEPT !.lifetime = R32(p, 4)]
             full == [msg EXCEPT !.nonce = Bytes(p, 24, 12), !.protocol = ProtoName(p[37]),
                                 !.internal = R16(p, 40), !.external = R16(p, 42),
                                 !.ip = DecodeIp(p, 44)]
  <2>1. m = full BY <1>1, <1>3 DEF DecodePcp, MaxPacketSize
  <2>2. full.kind = "map" BY DEF Response
  <2> HIDE DEF full, m
  <2> QED BY <2>1, <2>2 DEF Bad, Kind
<1>5. m.result = d.result /\ m.kind = "map" /\ m.nonce = tx.nonce
  <2>1. Len(p) >= 2 /\ Len(p) >= 60 BY <1>1
  <2>2. /\ m.result = p[4]
        /\ m.kind = IF p[2] = 128 THEN "announce" ELSE IF p[2] = 129 THEN "map" ELSE "other"
        /\ m.kind = "map" => (Len(p) >= 60 => m.nonce = Bytes(p, 24, 12))
    BY <1>1, <1>4, <2>1, PcpFields
  <2> HIDE DEF m
  <2> QED BY <1>1, <1>2, <2>1, <2>2
<1> HIDE DEF m
<1>6. Matches(tx, m) BY <1>5 DEF Matches
<1>7. ClientReads(p, tx) = Verdict(IF d.result = 0 THEN "success" ELSE "error", m)
  <2>1. ClientReads(p, tx) =
           IF m = Bad THEN Verdict("malformed", None)
           ELSE IF "pcp" # tx.dialect THEN Verdict("ignored", m)
           ELSE IF ~Matches(tx, m) THEN Verdict("ignored", m)
           ELSE Verdict(IF m.result = 1 THEN "version" ELSE IF m.result = 0 THEN "success" ELSE "error", m)
    <3>1. Len(p) >= 2 /\ p[1] = 2 BY <1>1
    <3> QED BY <3>1, HeardPcp DEF m
  <2> QED BY <1>4, <1>5, <1>6, <2>1
<1> QED BY <1>5, <1>7 DEF Verdict, p

-----------------------------------------------------------------------------
(* The exchange.                                                           *)

CutOf(b) == {SubSeq(b, 1, n) : n \in {k \in Cut : k < Len(b)}}

\* What may have reached the gateway, whole or not.
Received(w) ==
  IF asked = None THEN Foreign
  ELSE IF w THEN {Encode(asked)} ELSE CutOf(Encode(asked))

Dropped == {"malformed", "ignored"}

\* The gateway made what it did of a packet it may have received, and replied to it.
Served ==
  \E w \in BOOLEAN : \E b \in Received(w) :
    /\ read = GatewayReads(b, source)
    /\ IF read.kind \in Dropped THEN packet = b /\ whole = w
       ELSE externalIp \in ExternalIp /\ \E d \in Decision :
              /\ decided = IF read.kind = "map" THEN d ELSE None
              /\ IF whole THEN w /\ packet = Reply(b, read, d, externalIp)
                 ELSE packet \in {Reply(b, read, d, externalIp)}
                                   \cup CutOf(Reply(b, read, d, externalIp))

\* The exchange so far.
WireInv ==
  /\ gateway \in {"both", "natpmp"} /\ whole \in BOOLEAN
  /\ asked # None => asked \in Asked
  /\ packet = None => asked = None /\ read = None
  /\ packet # None /\ read = None => packet \in Received(whole)
  /\ read # None => Served
  /\ heard # None =>
       /\ read # None /\ read.kind \notin Dropped
       /\ inflight \in InFlight \cup ({asked} \ {None})
       /\ heard = ClientReads(packet, inflight)

LEMMA CutIs ==
  ASSUME NEW b \in Octets, NEW c \in {b} \cup CutOf(b)
  PROVE  c \in Octets /\ Begins(c, b)
<1>1. CASE c = b BY <1>1, BeginsItself
<1>2. CASE c \in CutOf(b)
  <2>1. PICK n \in Cut : n < Len(b) /\ c = SubSeq(b, 1, n) BY <1>2 DEF CutOf
  <2>2. n \in Nat BY WireAssumption
  <2> QED BY <2>1, <2>2, CutLeaves
<1> QED BY <1>1, <1>2

LEMMA ReceivedIs ==
  ASSUME asked # None => asked \in Asked, NEW w \in BOOLEAN, NEW b \in Received(w)
  PROVE  /\ b \in Octets /\ b # None
         /\ asked = None => b \in Foreign
         /\ asked # None => /\ IsRequest(asked) /\ Begins(b, Encode(asked))
                            /\ w => b = Encode(asked)
<1>1. CASE asked = None
  <2>1. b \in Foreign BY <1>1 DEF Received
  <2>2. b \in Octets BY <2>1, WireAssumption DEF Octets
  <2> QED BY <1>1, <2>1, <2>2, NoneIsNoValue
<1>2. CASE asked # None
  <2>1. IsRequest(asked) BY <1>2, WireAssumption
  <2>2. Encode(asked) \in Octets BY <2>1, EncodeIsOctets
  <2>3. b \in {Encode(asked)} \cup CutOf(Encode(asked)) /\ (w => b = Encode(asked))
    BY <1>2 DEF Received
  <2>4. b \in Octets /\ Begins(b, Encode(asked)) BY <2>2, <2>3, CutIs
  <2> QED BY <1>2, <2>1, <2>3, <2>4, NoneIsNoValue
<1> QED BY <1>1, <1>2

\* Only a request of this client is taken for the request of a mapping.
LEMMA MapIsAsked ==
  ASSUME asked # None => asked \in Asked, NEW w \in BOOLEAN, NEW b \in Received(w),
         NEW r, r = GatewayReads(b, source), r.kind \in {"map", "mismatch"}
  PROVE  asked # None /\ r.protocol \in {"tcp", "udp"}
<1>1. b \in Octets BY ReceivedIs
<1>2. \/ b[1] = 0 /\ b[2] \in 1 .. 2 /\ Len(b) >= 12
      \/ b[1] = 2 /\ b[2] = 1 /\ Len(b) >= 60
  BY <1>1, MapReading
<1>3. asked # None
  <2>1. SUFFICES ASSUME asked = None PROVE FALSE OBVIOUS
  <2>2. b \in Foreign BY <2>1, ReceivedIs
  <2>3. Len(b) >= 2
    <3>1. Len(b) \in Nat BY <1>1, LenProperties DEF Octets
    <3> QED BY <1>2, <3>1
  <2>4. ~(b[1] = 2 /\ b[2] = 1) /\ ~(b[1] = 0 /\ b[2] \in 1 .. 2) BY <2>2, <2>3, WireAssumption
  <2> QED BY <1>2, <2>4
<1>4. IsRequest(asked) /\ Begins(b, Encode(asked)) BY <1>3, ReceivedIs
<1>5. asked.kind = "map" /\ r.protocol = asked.protocol BY <1>1, <1>4, RequestIsUnderstood
<1> QED BY <1>3, <1>4, <1>5 DEF IsRequest

\* The reply is a packet.
LEMMA ReplyIsSent ==
  ASSUME asked # None => asked \in Asked, NEW w \in BOOLEAN, NEW b \in Received(w),
         NEW r, r = GatewayReads(b, source), r.kind \notin Dropped,
         NEW d \in Decision, NEW ip \in ExternalIp,
         NEW c \in {Reply(b, r, d, ip)} \cup CutOf(Reply(b, r, d, ip))
  PROVE  /\ Reply(b, r, d, ip) \in Octets /\ Tells(Reply(b, r, d, ip))
         /\ c \in Octets /\ Begins(c, Reply(b, r, d, ip))
<1>1. b \in Octets BY ReceivedIs
<1>2. r.kind \in {"map", "mismatch"} => r.protocol \in {"tcp", "udp"} BY MapIsAsked
<1>3. r.kind \notin {"malformed", "ignored"} BY DEF Dropped
<1> DEFINE p == Reply(b, r, d, ip)
<1>4. p \in Octets /\ Tells(p) BY <1>1, <1>2, <1>3, ReplyIs
<1>5. c \in {p} \cup CutOf(p) OBVIOUS
<1> HIDE DEF p
<1>6. c \in Octets /\ Begins(c, p) BY <1>4, <1>5, CutIs
<1> QED BY <1>4, <1>6 DEF p

LEMMA SameGateway ==
  ASSUME gateway' = gateway
  PROVE  \A b, from : GatewayReads(b, from)' = GatewayReads(b, from)
  BY DEF GatewayReads

LEMMA WireInitInv == Init => WireInv
  BY DEF Init, WireInv

LEMMA WireStepInv == WireInv /\ [Next]_vars => WireInv'
<1> SUFFICES ASSUME WireInv, [Next]_vars PROVE WireInv' OBVIOUS
<1>1. ASSUME NEW tx \in Asked, Ask(tx) PROVE WireInv'
  <2>1. asked = None /\ packet = None /\ read = None /\ heard = None
    BY <1>1 DEF Ask, WireInv
  <2>2. asked' = tx /\ tx # None /\ read' = None /\ heard' = None /\ gateway' = gateway
    BY <1>1, <2>1, WireAssumption DEF Ask
  <2>3. packet' \in Received(whole)' /\ whole' \in BOOLEAN
    BY <1>1, <2>2 DEF Ask, Arrives, Received, CutOf
  <2>4. packet' # None
    <3>1. IsRequest(tx) BY WireAssumption
    <3>2. Encode(tx) \in Octets BY <3>1, EncodeIsOctets
    <3>3. packet' \in {Encode(tx)} \cup CutOf(Encode(tx)) BY <1>1 DEF Ask, Arrives, CutOf
    <3>4. packet' \in Octets BY <3>2, <3>3, CutIs
    <3> QED BY <3>4, NoneIsNoValue
  <2> QED BY <2>2, <2>3, <2>4 DEF WireInv
<1>2. ASSUME NEW b \in Foreign, ForeignAsks(b) PROVE WireInv'
  <2>1. asked = None /\ packet = None /\ read = None /\ heard = None
    BY <1>2 DEF ForeignAsks, WireInv
  <2>2. /\ asked' = None /\ read' = None /\ heard' = None /\ gateway' = gateway /\ whole' = whole
        /\ packet' = b
    BY <1>2, <2>1 DEF ForeignAsks
  <2>3. b # None BY WireAssumption
  <2>4. packet' \in Received(whole)' BY <2>2 DEF Received
  <2> QED BY <2>2, <2>3, <2>4 DEF WireInv
<1>3. ASSUME NEW d \in Decision, NEW ip \in ExternalIp, Serve(d, ip) PROVE WireInv'
  <2>1. /\ packet # None /\ read = None /\ heard = None /\ packet \in Received(whole)
        /\ asked # None => asked \in Asked
        /\ whole \in BOOLEAN /\ gateway \in {"both", "natpmp"}
    BY <1>3 DEF Serve, WireInv
  <2>2. /\ asked' = asked /\ source' = source /\ heard' = None /\ gateway' = gateway
        /\ read' = GatewayReads(packet, source)
        /\ decided' = IF read'.kind = "map" THEN d ELSE None
        /\ externalIp' = ip
    BY <1>3, <2>1 DEF Serve
  <2>3. packet \in Octets BY <2>1, ReceivedIs
  <2>4. read' # None
    <3>1. read' \in Reading BY <2>2, <2>3, GatewayReadsReading
    <3> QED BY <3>1, WireAssumption
  <2>5. packet \in Received(whole) /\ Received(whole)' = Received(whole') BY <2>1, <2>2 DEF Received
  <2>6. \A w : Received(w)' = Received(w) BY <2>2 DEF Received
  <2>9. \A b, from : GatewayReads(b, from)' = GatewayReads(b, from) BY <2>2, SameGateway
  <2>7. CASE read'.kind \in Dropped
    <3>1. packet' = packet /\ whole' = whole BY <1>3, <2>7 DEF Serve, Dropped
    <3> QED BY <2>1, <2>2, <2>4, <2>6, <2>7, <2>9, <3>1 DEF WireInv, Served
  <2>8. CASE read'.kind \notin Dropped
    <3> DEFINE p == Reply(packet, read', d, ip)
    <3>1. /\ whole' \in BOOLEAN
          /\ IF whole' THEN whole /\ packet' = p ELSE packet' \in {p} \cup CutOf(p)
      BY <1>3, <2>1, <2>8 DEF Serve, Arrives, CutOf, Dropped
    <3>2. packet' \in {p} \cup CutOf(p) BY <3>1
    <3>3. packet' \in Octets BY <2>1, <2>2, <2>8, <3>2, ReplyIsSent
    <3>4. packet' # None BY <3>3, NoneIsNoValue
    <3>5. Served'
      <4>1. PICK b, w : b = packet /\ w = whole OBVIOUS
      <4>2. w \in BOOLEAN /\ b \in Received(w)' BY <2>1, <2>6, <4>1
      <4>3. read' = GatewayReads(b, source)' BY <2>2, <2>9, <4>1
      <4>4. IF whole' THEN w /\ packet' = Reply(b, read', d, externalIp')
            ELSE packet' \in {Reply(b, read', d, externalIp')} \cup CutOf(Reply(b, read', d, externalIp'))
        BY <2>2, <3>1, <4>1
      <4> QED BY <2>2, <2>8, <4>2, <4>3, <4>4 DEF Served
    <3> QED BY <2>1, <2>2, <2>4, <3>1, <3>4, <3>5 DEF WireInv
  <2> QED BY <2>7, <2>8
<1>4. ASSUME NEW tx \in InFlight \cup ({asked} \ {None}), Hear(tx) PROVE WireInv'
  <2>1. /\ read # None /\ read.kind \notin Dropped /\ inflight' = tx /\ heard' = ClientReads(packet, tx)
        /\ UNCHANGED <<asked, gateway, source, packet, whole, read, decided, externalIp>>
    BY <1>4 DEF Hear, Dropped
  <2>2. \A b, from : GatewayReads(b, from)' = GatewayReads(b, from) BY <2>1, SameGateway
  <2> QED BY <2>1, <2>2 DEF WireInv, Served, Received
<1>5. CASE UNCHANGED vars
  <2>1. \A b, from : GatewayReads(b, from)' = GatewayReads(b, from) BY <1>5, SameGateway DEF vars
  <2> QED BY <1>5, <2>1 DEF vars, WireInv, Served, Received
<1> QED BY <1>1, <1>2, <1>3, <1>4, <1>5 DEF Next

\* The exchange is what it is said to be in every state: what was read comes from
\* a packet that was sent, what was heard from the reply to it (the history that
\* Served states, of Serve() and Hear()).
THEOREM WireInvariance == Spec => []WireInv
BY WireInitInv, WireStepInv, PTL DEF Spec

\* What the exchange so far says of the request and of the reply under way.
LEMMA Said ==
  ASSUME WireInv, read # None
  PROVE  \E b \in Octets, w \in BOOLEAN :
           /\ read = GatewayReads(b, source)
           /\ read.kind \in {"map", "mismatch"} => asked # None /\ read.protocol \in {"tcp", "udp"}
           /\ asked # None => /\ asked \in Asked /\ IsRequest(asked) /\ Begins(b, Encode(asked))
                              /\ w => b = Encode(asked)
           /\ read.kind \in Dropped => whole = w
           /\ read.kind \notin Dropped =>
                externalIp \in ExternalIp /\ \E d \in Decision :
                  /\ decided = IF read.kind = "map" THEN d ELSE None
                  /\ packet \in Octets /\ Begins(packet, Reply(b, read, d, externalIp))
                  /\ Tells(Reply(b, read, d, externalIp))
                  /\ Reply(b, read, d, externalIp) \in Octets
                  /\ whole => w /\ packet = Reply(b, read, d, externalIp)
<1>1. (asked # None => asked \in Asked) /\ Served /\ whole \in BOOLEAN BY DEF WireInv
<1>2. PICK w \in BOOLEAN : \E b \in Received(w) :
        /\ read = GatewayReads(b, source)
        /\ IF read.kind \in Dropped THEN packet = b /\ whole = w
           ELSE externalIp \in ExternalIp /\ \E d \in Decision :
                  /\ decided = IF read.kind = "map" THEN d ELSE None
                  /\ IF whole THEN w /\ packet = Reply(b, read, d, externalIp)
                     ELSE packet \in {Reply(b, read, d, externalIp)}
                                       \cup CutOf(Reply(b, read, d, externalIp))
  BY <1>1 DEF Served
<1>3. PICK b \in Received(w) :
        /\ read = GatewayReads(b, source)
        /\ IF read.kind \in Dropped THEN packet = b /\ whole = w
           ELSE externalIp \in ExternalIp /\ \E d \in Decision :
                  /\ decided = IF read.kind = "map" THEN d ELSE None
                  /\ IF whole THEN w /\ packet = Reply(b, read, d, externalIp)
                     ELSE packet \in {Reply(b, read, d, externalIp)}
                                       \cup CutOf(Reply(b, read, d, externalIp))
  BY <1>2
<1>4. /\ b \in Octets
      /\ asked # None => /\ IsRequest(asked) /\ Begins(b, Encode(asked))
                         /\ w => b = Encode(asked)
  BY <1>1, ReceivedIs
<1>5. read.kind \in {"map", "mismatch"} => asked # None /\ read.protocol \in {"tcp", "udp"}
  BY <1>1, <1>3, MapIsAsked
<1>6. ASSUME read.kind \notin Dropped
      PROVE  externalIp \in ExternalIp /\ \E d \in Decision :
               /\ decided = IF read.kind = "map" THEN d ELSE None
               /\ packet \in Octets /\ Begins(packet, Reply(b, read, d, externalIp))
               /\ Tells(Reply(b, read, d, externalIp))
               /\ Reply(b, read, d, externalIp) \in Octets
               /\ whole => w /\ packet = Reply(b, read, d, externalIp)
  <2>1. PICK d \in Decision :
          /\ decided = IF read.kind = "map" THEN d ELSE None
          /\ IF whole THEN w /\ packet = Reply(b, read, d, externalIp)
             ELSE packet \in {Reply(b, read, d, externalIp)}
                               \cup CutOf(Reply(b, read, d, externalIp))
    BY <1>3, <1>6
  <2>2. packet \in {Reply(b, read, d, externalIp)} \cup CutOf(Reply(b, read, d, externalIp)) BY <2>1
  <2>3. /\ Reply(b, read, d, externalIp) \in Octets /\ Tells(Reply(b, read, d, externalIp))
        /\ packet \in Octets /\ Begins(packet, Reply(b, read, d, externalIp))
    BY <1>1, <1>3, <1>6, <2>2, ReplyIsSent
  <2>4. externalIp \in ExternalIp BY <1>3, <1>6
  <2> QED BY <2>1, <2>3, <2>4
<1>7. read.kind \in Dropped => whole = w BY <1>3
<1>8. b \in Octets BY <1>4
<1> WITNESS b \in Octets, w \in BOOLEAN
<1>9. asked # None => /\ asked \in Asked /\ IsRequest(asked) /\ Begins(b, Encode(asked))
                      /\ w => b = Encode(asked)
  BY <1>1, <1>4
<1> QED BY <1>3, <1>5, <1>6, <1>7, <1>9

LEMMA RequestIsReadHolds == WireInv => RequestIsRead
<1> SUFFICES ASSUME WireInv, asked # None, read # None, read.kind \in {"map", "mismatch"}
             PROVE  /\ asked.kind = "map" /\ read.dialect = asked.dialect
                    /\ read.protocol = asked.protocol /\ read.internal = asked.internal
                    /\ read.lifetime = asked.lifetime
                    /\ read.external = IF asked.dialect = "natpmp" /\ asked.lifetime = <<0, 0>> THEN 0
                                       ELSE asked.external
                    /\ asked.dialect = "pcp" => /\ read.nonce = asked.nonce
                                                /\ (read.kind = "mismatch") = (source # asked.client)
  BY DEF RequestIsRead
<1>1. PICK b \in Octets : /\ read = GatewayReads(b, source) /\ IsRequest(asked)
                          /\ Begins(b, Encode(asked))
  BY Said
<1>2. /\ asked.kind = "map" /\ read.dialect = asked.dialect
      /\ read.protocol = asked.protocol /\ read.internal = asked.internal /\ read.lifetime = asked.lifetime
      /\ read.external = IF asked.dialect = "natpmp" THEN Suggested(asked) ELSE asked.external
      /\ asked.dialect = "pcp" => /\ read.nonce = asked.nonce
                                  /\ read.kind = IF source = asked.client THEN "map" ELSE "mismatch"
  BY <1>1, RequestIsUnderstood
<1>3. read.external = IF asked.dialect = "natpmp" /\ asked.lifetime = <<0, 0>> THEN 0
                      ELSE asked.external
  BY <1>2 DEF Suggested
<1>4. asked.dialect = "pcp" => (read.kind = "mismatch") = (source # asked.client)
  BY <1>2
<1> QED BY <1>2, <1>3, <1>4

LEMMA OneNonce ==
  ASSUME NEW tx \in Asked \cup InFlight, NEW ty \in Asked \cup InFlight,
         tx.kind = "map", tx.dialect = "pcp", ty.kind = "map", ty.dialect = "pcp",
         tx.nonce = ty.nonce
  PROVE  tx.protocol = ty.protocol /\ tx.internal = ty.internal
BY WireAssumption

LEMMA HeardIsSaidHolds == WireInv => HeardIsSaid
<1> SUFFICES ASSUME WireInv PROVE HeardIsSaid OBVIOUS
<1>1. RequestIsRead BY RequestIsReadHolds
<1>2. ASSUME heard # None
      PROVE  /\ heard.msg # None /\ Len(packet) >= 8 => heard.msg.epoch = Now
             /\ heard.verdict = "success" /\ inflight.kind = "map" =>
                  /\ asked # None /\ decided # None /\ decided.result = 0
                  /\ asked.kind = "map" /\ asked.dialect = inflight.dialect
                  /\ asked.protocol = inflight.protocol /\ asked.internal = inflight.internal
                  /\ asked.dialect = "pcp" => asked.nonce = inflight.nonce /\ heard.msg.ip = Told(externalIp)
                  /\ heard.msg.external = decided.external /\ heard.msg.lifetime = decided.lifetime
  <2>1. /\ read # None /\ read.kind \notin Dropped /\ heard = ClientReads(packet, inflight)
        /\ inflight \in InFlight \cup ({asked} \ {None})
    BY <1>2 DEF WireInv
  <2>2. PICK b \in Octets :
          /\ read = GatewayReads(b, source)
          /\ read.kind \in {"map", "mismatch"} => asked # None /\ read.protocol \in {"tcp", "udp"}
          /\ asked # None => asked \in Asked /\ IsRequest(asked) /\ Begins(b, Encode(asked))
          /\ externalIp \in ExternalIp
          /\ \E d \in Decision :
               /\ decided = IF read.kind = "map" THEN d ELSE None
               /\ packet \in Octets /\ Begins(packet, Reply(b, read, d, externalIp))
               /\ Tells(Reply(b, read, d, externalIp))
               /\ Reply(b, read, d, externalIp) \in Octets
    BY <2>1, Said
  <2>3. PICK d \in Decision :
          /\ decided = IF read.kind = "map" THEN d ELSE None
          /\ packet \in Octets /\ Begins(packet, Reply(b, read, d, externalIp))
          /\ Tells(Reply(b, read, d, externalIp))
          /\ Reply(b, read, d, externalIp) \in Octets
    BY <2>2
  <2>4. ASSUME heard.msg # None, Len(packet) >= 8
        PROVE  heard.msg.epoch = Now
    <3> DEFINE p == Reply(b, read, d, externalIp)
    <3>1. p \in Octets /\ Begins(packet, p) /\ packet \in Octets /\ Tells(p) BY <2>3
    <3> HIDE DEF p
    <3>2. (p[1] = 0 /\ Holds(p, 4, W32(Now))) \/ (p[1] = 2 /\ Holds(p, 8, W32(Now)))
      BY <3>1 DEF Tells
    <3>3. ClientReads(packet, inflight).msg # None BY <2>1, <2>4
    <3> QED BY <2>1, <2>4, <3>1, <3>2, <3>3, EpochIsHeard
  <2>5. ASSUME heard.verdict = "success", inflight.kind = "map"
        PROVE  /\ asked # None /\ decided # None /\ decided.result = 0
               /\ asked.kind = "map" /\ asked.dialect = inflight.dialect
               /\ asked.protocol = inflight.protocol /\ asked.internal = inflight.internal
               /\ asked.dialect = "pcp" => asked.nonce = inflight.nonce /\ heard.msg.ip = Told(externalIp)
               /\ heard.msg.external = decided.external /\ heard.msg.lifetime = decided.lifetime
    <3>1. /\ read.kind = "map" /\ d.result = 0 /\ read.dialect = inflight.dialect
          /\ heard.msg.external = d.external /\ heard.msg.lifetime = d.lifetime
          /\ read.dialect = "natpmp" => read.internal = inflight.internal /\ read.protocol = inflight.protocol
          /\ read.dialect = "pcp" => read.nonce = inflight.nonce /\ heard.msg.ip = Told(externalIp)
      <4>1. read.kind \notin {"malformed", "ignored"} BY <2>1 DEF Dropped
      <4>2. ClientReads(packet, inflight).verdict = "success" BY <2>1, <2>5
      <4>3. read.kind \in {"map", "mismatch"} => read.protocol \in {"tcp", "udp"} BY <2>2
      <4>4. /\ externalIp \in ExternalIp /\ b \in Octets /\ read = GatewayReads(b, source)
            /\ packet \in Octets /\ Begins(packet, Reply(b, read, d, externalIp))
        BY <2>2, <2>3
      <4>5. /\ read.kind = "map" /\ d.result = 0 /\ read.dialect = inflight.dialect
            /\ ClientReads(packet, inflight).msg.external = d.external
            /\ ClientReads(packet, inflight).msg.lifetime = d.lifetime
            /\ read.dialect = "natpmp" =>
                 read.internal = inflight.internal /\ read.protocol = inflight.protocol
            /\ read.dialect = "pcp" =>
                 /\ read.nonce = inflight.nonce
                 /\ ClientReads(packet, inflight).msg.ip = Told(externalIp)
        BY <2>5, <4>1, <4>2, <4>3, <4>4, SuccessIsGranted
      <4>6. heard = ClientReads(packet, inflight) BY <2>1
      <4> QED BY <4>5, <4>6
    <3>2. asked # None /\ asked \in Asked /\ IsRequest(asked) BY <2>2, <3>1
    <3>3. decided = d /\ d # None BY <2>3, <3>1, WireAssumption
    <3>4. /\ asked.kind = "map" /\ read.dialect = asked.dialect
          /\ read.protocol = asked.protocol /\ read.internal = asked.internal
          /\ asked.dialect = "pcp" => read.nonce = asked.nonce
      BY <1>1, <2>1, <3>1, <3>2 DEF RequestIsRead
    <3>5. asked.dialect = "pcp" \/ asked.dialect = "natpmp" BY <3>2 DEF IsRequest
    <3>6. CASE asked.dialect = "natpmp" BY <3>1, <3>2, <3>3, <3>4, <3>6
    <3>7. CASE asked.dialect = "pcp"
      <4>1. asked.nonce = inflight.nonce BY <3>1, <3>4, <3>7
      <4>2. inflight \in Asked \cup InFlight BY <2>1, <3>2
      <4>3. asked.protocol = inflight.protocol /\ asked.internal = inflight.internal
        <5>1. asked.kind = "map" /\ inflight.kind = "map" /\ inflight.dialect = "pcp"
          BY <2>5, <3>1, <3>4, <3>7, Zenon
        <5>2. asked \in Asked \cup InFlight BY <3>2
        <5> QED BY <3>7, <4>1, <4>2, <5>1, <5>2, OneNonce
      <4>4. heard.msg.ip = Told(externalIp) /\ asked.dialect = inflight.dialect BY <3>1, <3>4, <3>7, Zenon
      <4>5. decided # None /\ decided.result = 0
            /\ heard.msg.external = decided.external /\ heard.msg.lifetime = decided.lifetime
        BY <3>1, <3>3
      <4>6. asked # None /\ asked.kind = "map" BY <3>2, <3>4, Zenon
      <4> QED BY <4>1, <4>3, <4>4, <4>5, <4>6, Zenon
    <3> QED BY <3>5, <3>6, <3>7
  <2> QED BY <2>4, <2>5
<1> QED BY <1>1, <1>2 DEF HeardIsSaid

\* A client takes a reply, whichever arrives and wherever it was cut, for the success
\* of its mapping only if the gateway granted that mapping, and reads in it what the
\* gateway decided and its epoch (process_packet() of pmp_session.js).
THEOREM HeardCorrect == Spec => []HeardIsSaid
BY WireInvariance, HeardIsSaidHolds, PTL

LEMMA AnswerFitsHolds == WireInv => AnswerFits
<1> SUFFICES ASSUME WireInv PROVE AnswerFits OBVIOUS
<1>1. ASSUME asked # None, read # None, whole
      PROVE  read.kind \notin {"malformed", "ignored"}
  <2>1. PICK b \in Octets, w \in BOOLEAN :
          /\ read = GatewayReads(b, source) /\ IsRequest(asked)
          /\ w => b = Encode(asked)
          /\ read.kind \in Dropped => whole = w
    BY <1>1, Said
  <2>2. SUFFICES ASSUME read.kind \in {"malformed", "ignored"} PROVE FALSE OBVIOUS
  <2>3. b = Encode(asked) BY <1>1, <2>1, <2>2 DEF Dropped
  <2> QED BY <2>1, <2>2, <2>3, WholeIsUnderstood
<1>2. ASSUME asked # None, heard # None, whole, inflight = asked
      PROVE  IF asked.dialect = "pcp" /\ gateway = "natpmp" THEN heard.verdict = "version"
             ELSE IF asked.kind # "map" /\ asked.dialect = "natpmp" /\ externalIp = None
             THEN heard.verdict = "error" /\ heard.msg.result = 3
             ELSE IF asked.kind # "map" THEN heard.verdict = "success"
             ELSE IF asked.dialect = "pcp" /\ source # asked.client
             THEN heard.verdict = "error" /\ heard.msg.result = 12
             ELSE /\ decided # None
                  /\ heard.verdict = IF decided.result = 0 THEN "success" ELSE "error"
                  /\ heard.msg.result = decided.result
  <2>1. /\ read # None /\ read.kind \notin Dropped /\ heard = ClientReads(packet, asked)
        /\ gateway \in {"both", "natpmp"}
    BY <1>2 DEF WireInv
  <2>2. PICK b \in Octets, w \in BOOLEAN :
          /\ read = GatewayReads(b, source)
          /\ asked \in Asked /\ IsRequest(asked)
          /\ w => b = Encode(asked)
          /\ externalIp \in ExternalIp
          /\ \E d \in Decision :
               /\ decided = IF read.kind = "map" THEN d ELSE None
               /\ whole => w /\ packet = Reply(b, read, d, externalIp)
    BY <1>2, <2>1, Said
  <2>3. PICK d \in Decision :
          /\ decided = IF read.kind = "map" THEN d ELSE None
          /\ packet = Reply(b, read, d, externalIp) /\ b = Encode(asked)
    BY <1>2, <2>2
  <2>4. read = GatewayReads(Encode(asked), source) /\ Begins(Encode(asked), Encode(asked))
        /\ Encode(asked) \in Octets
    BY <2>2, <2>3, EncodeIsOctets, BeginsItself
  <2>d. d # None /\ d.result \in Byte /\ d.result # 1 /\ d.external \in Half /\ d.lifetime \in Word
    BY WireAssumption
  <2>m. ASSUME asked.kind = "map", read.kind \in {"map", "mismatch"}
        PROVE  /\ read.dialect = asked.dialect /\ read.protocol = asked.protocol
               /\ read.internal = asked.internal /\ read.internal \in Half
               /\ read.protocol \in {"tcp", "udp"}
               /\ asked.dialect = "pcp" =>
                    /\ read.nonce = asked.nonce /\ read.nonce \in Octets /\ Len(read.nonce) = 12
                    /\ read.kind = IF source = asked.client THEN "map" ELSE "mismatch"
    <3>1. /\ read.dialect = asked.dialect /\ read.protocol = asked.protocol
          /\ read.internal = asked.internal
          /\ asked.dialect = "pcp" =>
               /\ read.nonce = asked.nonce
               /\ read.kind = IF source = asked.client THEN "map" ELSE "mismatch"
      BY <2>2, <2>4, <2>m, RequestIsUnderstood
    <3>2. read.protocol \in {"tcp", "udp"} BY <2>2, <2>m, <3>1 DEF IsRequest
    <3>3. read.internal \in Half /\ (read.dialect = "pcp" => read.nonce \in Octets /\ Len(read.nonce) = 12)
      BY <2>4, <2>m, MapReadingFields
    <3> QED BY <3>1, <3>2, <3>3
  <2>5. \/ asked.dialect = "pcp" /\ gateway = "natpmp" /\ read.kind = "version"
        \/ /\ asked.dialect = "pcp" /\ gateway # "natpmp" /\ asked.kind = "map"
           /\ read.kind \in {"map", "mismatch"}
        \/ asked.dialect = "pcp" /\ gateway # "natpmp" /\ asked.kind = "probe" /\ read.kind = "announce"
        \/ asked.dialect = "natpmp" /\ asked.kind = "map" /\ read.kind = "map"
        \/ asked.dialect = "natpmp" /\ asked.kind # "map" /\ read.kind = "address"
    BY <2>2, <2>4, WholeIsUnderstood
  <2>6. CASE asked.dialect = "pcp" /\ gateway = "natpmp" /\ read.kind = "version"
    <3>1. packet = UnsupportedVersion BY <2>3, <2>6 DEF Reply
    <3>2. heard.verdict = "version" BY <2>1, <2>6, <3>1, VersionIsHeard
    <3> QED BY <2>6, <3>2
  <2>7. CASE asked.dialect = "pcp" /\ gateway # "natpmp" /\ asked.kind = "map" /\ read.kind = "mismatch"
    <3>1. packet = PcpMapResponse(read, AddressMismatch, Unspecified) BY <2>3, <2>7 DEF Reply
    <3>2. /\ AddressMismatch.result = 12 /\ AddressMismatch.external = 0
          /\ AddressMismatch.lifetime = <<0, 0>>
      BY DEF AddressMismatch
    <3>3. /\ AddressMismatch.result \in Byte /\ AddressMismatch.result # 1
          /\ AddressMismatch.external \in Half /\ AddressMismatch.lifetime \in Word
      <4>1. 12 \in Byte BY DEF Byte
      <4> QED BY <3>2, <4>1, Numbers
    <3>4. heard.verdict = "error" /\ heard.msg.result = 12
      <4> DEFINE e == AddressMismatch
                 ip == Unspecified
      <4>1. e.result \in Byte /\ e.result # 1 /\ e.external \in Half /\ e.lifetime \in Word /\ e.result = 12
        BY <3>2, <3>3
      <4>2. packet = PcpMapResponse(read, e, ip) /\ (IsAddress(ip) \/ ip = Unspecified) BY <3>1
      <4> HIDE DEF e, ip
      <4>3. /\ ClientReads(PcpMapResponse(read, e, ip), asked).verdict =
                 IF e.result = 0 THEN "success" ELSE "error"
            /\ ClientReads(PcpMapResponse(read, e, ip), asked).msg.result = e.result
        BY <2>7, <2>m, <4>1, <4>2, PcpDecisionIsHeard
      <4> QED BY <2>1, <4>1, <4>2, <4>3
    <3>5. source # asked.client BY <2>7, <2>m
    <3>6. gateway = "both" BY <2>1, <2>7
    <3> QED BY <2>7, <3>4, <3>5, <3>6
  <2>8. CASE asked.kind = "map" /\ read.kind = "map" /\ asked.dialect = "pcp" /\ gateway # "natpmp"
    <3>0. source = asked.client BY <2>8, <2>m
    <3>1. packet = PcpMapResponse(read, d, Told(externalIp)) BY <2>3, <2>8, <2>m DEF Reply
    <3>2. IsAddress(Told(externalIp)) BY <2>2, ToldIsAddress
    <3>3. heard.verdict = (IF d.result = 0 THEN "success" ELSE "error") /\ heard.msg.result = d.result
      BY <2>1, <2>8, <2>d, <2>m, <3>1, <3>2, PcpDecisionIsHeard
    <3> QED BY <2>3, <2>8, <2>d, <3>0, <3>3
  <2>9. CASE asked.kind = "map" /\ read.kind = "map" /\ asked.dialect = "natpmp"
    <3>1. packet = NatpmpMapResponse(read, d) BY <2>3, <2>9, <2>m DEF Reply
    <3>2. heard.verdict = (IF d.result = 0 THEN "success" ELSE "error") /\ heard.msg.result = d.result
      BY <2>1, <2>9, <2>m, <3>1, NatpmpDecisionIsHeard
    <3> QED BY <2>3, <2>9, <2>d, <3>2
  <2>10. CASE asked.dialect = "pcp" /\ gateway # "natpmp" /\ asked.kind = "probe" /\ read.kind = "announce"
    <3>1. packet = PcpResponse(0, 0, <<0, 0>>, <<>>) BY <2>3, <2>10 DEF Reply
    <3>2. heard.verdict = "success" BY <2>1, <2>10, <3>1, AnnounceIsHeard
    <3> QED BY <2>10, <3>2
  <2>11. CASE asked.dialect = "natpmp" /\ asked.kind # "map" /\ read.kind = "address"
    <3>1. packet = NatpmpAddressResponse(externalIp) BY <2>3, <2>11 DEF Reply
    <3>2. /\ heard.verdict = IF externalIp = None THEN "error" ELSE "success"
          /\ heard.msg.result = AddressResult(externalIp)
      BY <2>1, <2>2, <2>11, <3>1, AddressIsHeard
    <3> QED BY <2>11, <3>2 DEF AddressResult
  <2> QED BY <2>5, <2>6, <2>7, <2>8, <2>9, <2>10, <2>11
<1> QED BY <1>1, <1>2 DEF AnswerFits

\* A request and a reply that arrive whole do what they were sent for, whatever the
\* address, the ports, the lifetime and the decision (wire.js, both ends).
THEOREM FitsCorrect == Spec => []AnswerFits
BY WireInvariance, AnswerFitsHolds, PTL
==============================================================================
