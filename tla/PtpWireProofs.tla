--------------------------- MODULE PtpWireProofs ---------------------------
(***************************************************************************)
(* The codec, proved for every hardware address, sequence identifier,      *)
(* timestamp and filling of the pbuf, and for every residence time that    *)
(* fits the int32_t it is read into.                                       *)
(***************************************************************************)
EXTENDS PtpWire, SequenceTheorems, TLAPS

-----------------------------------------------------------------------------
(***************************************************************************)
(* Words.                                                                  *)
(***************************************************************************)
LEMMA WordFacts ==
    ASSUME NEW n \in Nat, NEW w \in Word(n)
    PROVE  /\ w \in Seq(Byte) /\ Len(w) = n /\ DOMAIN w = 1 .. n
           /\ \A k \in 1 .. n : w[k] \in Byte
BY DEF Word

LEMMA WordEqual ==
    ASSUME NEW n \in Nat, NEW v \in Word(n), NEW w \in Word(n),
           \A k \in 1 .. n : v[k] = w[k]
    PROVE  v = w
BY SeqEqual DEF Word

LEMMA IsWord ==
    ASSUME NEW n \in Nat, NEW f, f = [k \in 1 .. n |-> f[k]],
           \A k \in 1 .. n : f[k] \in Byte
    PROVE  f \in Word(n)
<1>1. f \in [1 .. n -> Byte]
  OBVIOUS
<1>2. f \in Seq(Byte) /\ Len(f) = n
  BY <1>1
<1> QED BY <1>2 DEF Word

\* What lies at a place is loaded from it.
LEMMA Loads ==
    ASSUME NEW n \in Nat, NEW w \in Word(n), NEW at \in Nat, NEW p,
           \A k \in 1 .. n : p[at + k - 1] = w[k]
    PROVE  Load(p, at, n) = w
<1> DEFINE l == Load(p, at, n)
<1>w. \A k \in 1 .. n : w[k] \in Byte
  BY WordFacts
<1>1. /\ l = [k \in 1 .. n |-> l[k]]
      /\ \A k \in 1 .. n : l[k] = w[k] /\ l[k] \in Byte
  BY <1>w DEF Load
<1> HIDE DEF l
<1>2. l \in Word(n)
  BY <1>1, IsWord
<1>3. l = w
  BY <1>1, <1>2, WordEqual
<1> QED BY <1>3 DEF l

LEMMA ConcatWord ==
    ASSUME NEW m \in Nat, NEW n \in Nat, NEW v \in Word(m), NEW w \in Word(n)
    PROVE  /\ v \o w \in Word(m + n)
           /\ \A k \in 1 .. m : (v \o w)[k] = v[k]
           /\ \A k \in 1 .. n : (v \o w)[m + k] = w[k]
<1>1. v \in Seq(Byte) /\ w \in Seq(Byte) /\ Len(v) = m /\ Len(w) = n
  BY DEF Word
<1>2. /\ v \o w \in Seq(Byte) /\ Len(v \o w) = m + n
      /\ \A k \in 1 .. (m + n) : (v \o w)[k] = IF k <= m THEN v[k] ELSE w[k - m]
  BY <1>1, ConcatProperties
<1>3. \A k \in 1 .. n : (v \o w)[m + k] = w[k]
  <2>1. SUFFICES ASSUME NEW k \in 1 .. n PROVE (v \o w)[m + k] = w[k]
    OBVIOUS
  <2>2. m + k \in 1 .. (m + n) /\ ~(m + k <= m) /\ (m + k) - m = k
    OBVIOUS
  <2> QED BY <1>2, <2>2
<1> QED BY <1>2, <1>3 DEF Word

LEMMA SwapWord ==
    ASSUME NEW n \in Nat, NEW w \in Word(n)
    PROVE  /\ Swap(w) \in Word(n) /\ Swap(w) = Reverse(w)
           /\ \A k \in 1 .. n : Swap(w)[k] = w[n - k + 1]
<1>1. Len(w) = n /\ \A k \in 1 .. n : w[k] \in Byte
  BY WordFacts
<1> DEFINE s == Swap(w)
<1>2. s = [k \in 1 .. n |-> w[n - k + 1]] /\ s = Reverse(w)
  BY <1>1 DEF Swap, Reverse
<1> HIDE DEF s
<1>3. \A k \in 1 .. n : s[k] = w[n - k + 1] /\ n - k + 1 \in 1 .. n
  BY <1>2
<1>4. s \in Word(n)
  BY <1>1, <1>2, <1>3, IsWord
<1> QED BY <1>2, <1>3, <1>4 DEF s

LEMMA SwapTwice ==
    ASSUME NEW n \in Nat, NEW w \in Word(n)
    PROVE  Swap(Swap(w)) = w
<1>1. \A k \in 1 .. n : n - k + 1 \in 1 .. n /\ n - (n - k + 1) + 1 = k
  OBVIOUS
<1>2. Swap(w) \in Word(n) /\ \A k \in 1 .. n : Swap(w)[k] = w[n - k + 1]
  BY SwapWord
<1>3. /\ Swap(Swap(w)) \in Word(n)
      /\ \A k \in 1 .. n : Swap(Swap(w))[k] = Swap(w)[n - k + 1]
  BY <1>2, SwapWord
<1>4. \A k \in 1 .. n : Swap(Swap(w))[k] = w[k]
  BY <1>1, <1>2, <1>3
<1> QED BY <1>3, <1>4, WordEqual

LEMMA PartOfWord ==
    ASSUME NEW n \in Nat, NEW w \in Word(n), NEW a \in 1 .. n, NEW b \in 1 .. n, a <= b
    PROVE  /\ SubSeq(w, a, b) \in Word(b - a + 1)
           /\ \A k \in 1 .. (b - a + 1) : SubSeq(w, a, b)[k] = w[a + k - 1]
<1>1. w \in Seq(Byte) /\ Len(w) = n
  BY DEF Word
<1>2. /\ SubSeq(w, a, b) \in Seq(Byte) /\ Len(SubSeq(w, a, b)) = b - a + 1
      /\ \A k \in 1 .. (b - a + 1) : SubSeq(w, a, b)[k] = w[a + k - 1]
  BY <1>1, SubSeqProperties
<1> QED BY <1>2 DEF Word

LEMMA ZerosWord ==
    ASSUME NEW n \in Nat
    PROVE  Zeros(n) \in Word(n) /\ \A k \in 1 .. n : Zeros(n)[k] = 0
<1> DEFINE z == Zeros(n)
<1>1. z = [k \in 1 .. n |-> z[k]] /\ \A k \in 1 .. n : z[k] = 0 /\ z[k] \in Byte
  BY DEF Zeros, Byte
<1> HIDE DEF z
<1>2. z \in Word(n)
  BY <1>1, IsWord
<1> QED BY <1>1, <1>2 DEF z

LEMMA PairWord ==
    ASSUME NEW a \in Byte, NEW b \in Byte
    PROVE  <<a, b>> \in Word(2) /\ <<a, b>>[1] = a /\ <<a, b>>[2] = b
BY DEF Word

-----------------------------------------------------------------------------
(***************************************************************************)
(* A message of the network, and what the slave reads of it.               *)
(***************************************************************************)
\* A message that begins with v, and one that holds x after its first a bytes.
Begins(s, m, v) == \A k \in 1 .. m : s[k] = v[k]
Holds(s, a, n, x) == \A k \in 1 .. n : s[a + k] = x[k]

LEMMA Piece ==
    ASSUME NEW m \in Nat, NEW n \in Nat, NEW l \in Nat, l = m + n,
           NEW v \in Word(m), NEW w \in Word(n)
    PROVE  v \o w \in Word(l) /\ Begins(v \o w, m, v) /\ Holds(v \o w, m, n, w)
BY ConcatWord DEF Begins, Holds

LEMMA BeginsAlso ==
    ASSUME NEW m \in Nat, NEW n \in Nat, n <= m, NEW s, NEW v, NEW w,
           Begins(s, m, v), Begins(v, n, w)
    PROVE  Begins(s, n, w)
BY DEF Begins

LEMMA HeldByBegin ==
    ASSUME NEW m \in Nat, NEW a \in Nat, NEW n \in Nat, a + n <= m, NEW s, NEW v, NEW x,
           Begins(s, m, v), Holds(v, a, n, x)
    PROVE  Holds(s, a, n, x)
<1>1. \A k \in 1 .. n : a + k \in 1 .. m
  OBVIOUS
<1> QED BY <1>1 DEF Begins, Holds

LEMMA HeldTogether ==
    ASSUME NEW a \in Nat, NEW m \in Nat, NEW n \in Nat, NEW b \in Nat, NEW l \in Nat,
           b = a + m, l = m + n, NEW s, NEW v \in Word(m), NEW w \in Word(n),
           Holds(s, a, m, v), Holds(s, b, n, w)
    PROVE  Holds(s, a, l, v \o w)
<1> DEFINE c == v \o w
<1>1. Begins(c, m, v) /\ Holds(c, m, n, w)
  BY Piece
<1> HIDE DEF c
<1>2. SUFFICES ASSUME NEW k \in 1 .. l PROVE s[a + k] = c[k]
  BY DEF Holds, c
<1>3. CASE k <= m
  BY <1>1, <1>3 DEF Begins, Holds
<1>4. CASE ~(k <= m)
  <2>1. k - m \in 1 .. n /\ b + (k - m) = a + k /\ m + (k - m) = k
    BY <1>4
  <2>2. s[b + (k - m)] = w[k - m] /\ c[m + (k - m)] = w[k - m]
    BY <2>1, <1>1 DEF Holds
  <2> QED BY <2>1, <2>2
<1> QED BY <1>3, <1>4

\* The payload counts from 0.
Payload(s, size) == [at \in 0 .. size |-> s[at + 1]]

LEMMA LoadsHeld ==
    ASSUME NEW size \in Nat, NEW s,
           NEW a \in Nat, NEW n \in Nat, a + n <= size + 1, NEW x \in Word(n), Holds(s, a, n, x)
    PROVE  Load(Payload(s, size), a, n) = x
<1> DEFINE p == Payload(s, size)
<1>1. \A k \in 1 .. n : a + k - 1 \in 0 .. size /\ a + k - 1 + 1 = a + k
  OBVIOUS
<1>2. \A k \in 1 .. n : p[a + k - 1] = x[k]
  BY <1>1 DEF Holds, Payload
<1> QED BY <1>2, Loads

LEMMA Power256 == 256^0 = 1 /\ 256^1 = 256 /\ 256^2 = 65536 /\ 256^3 = 16777216
OBVIOUS

LEMMA ResidenceWord ==
    ASSUME NEW ns \in Int
    PROVE  /\ Signed48(ns) \in Word(6)
           /\ Signed48(ns)[6] = ns % 256
           /\ Signed48(ns)[5] = (ns \div 256) % 256
           /\ Signed48(ns)[4] = (ns \div 65536) % 256
           /\ Signed48(ns)[3] = (ns \div 16777216) % 256
<1> DEFINE z == Signed48(ns)
<1>1. z = [k \in 1 .. 6 |-> z[k]]
  BY DEF Signed48
<1>2. /\ \A k \in 1 .. 2 : z[k] \in Byte
      /\ z[3] = (ns \div 256^3) % 256 /\ z[4] = (ns \div 256^2) % 256
      /\ z[5] = (ns \div 256^1) % 256 /\ z[6] = (ns \div 256^0) % 256
  BY DEF Signed48, Byte
<1> HIDE DEF z
<1>3. /\ z[3] = (ns \div 16777216) % 256 /\ z[4] = (ns \div 65536) % 256
      /\ z[5] = (ns \div 256) % 256 /\ z[6] = ns % 256
  BY <1>2, Power256
<1>4. \A i \in Int : i % 256 \in Byte
  BY DEF Byte
<1>5. ns \div 16777216 \in Int /\ ns \div 65536 \in Int /\ ns \div 256 \in Int
  OBVIOUS
<1>6. z[3] \in Byte /\ z[4] \in Byte /\ z[5] \in Byte /\ z[6] \in Byte
  BY <1>3, <1>4, <1>5
<1>7. \A k \in 1 .. 6 : z[k] \in Byte
  BY <1>2, <1>6
<1>8. z \in Word(6)
  BY <1>1, <1>7, IsWord
<1> QED BY <1>3, <1>8 DEF z

LEMMA ByteWord == ASSUME NEW a \in Byte PROVE <<a>> \in Word(1) /\ <<a>>[1] = a
BY DEF Word

LEMMA FirstBytes ==
    ASSUME NEW m, IsMessage(m)
    PROVE  /\ 16 * m.transportSpecific + m.messageID \in Byte
           /\ (16 * m.transportSpecific + m.messageID) % 16 = m.messageID
           /\ <<16 * m.transportSpecific + m.messageID, 2, 0, 54, 0, 0>> \in Word(6)
<1>1. m.messageID \in 0 .. 15 /\ m.transportSpecific \in {0, 1}
  BY DEF IsMessage
<1>2. /\ 16 * m.transportSpecific + m.messageID \in 0 .. 255
      /\ (16 * m.transportSpecific + m.messageID) % 16 = m.messageID
  BY <1>1
<1>3. \A b \in 0 .. 255 : <<b, 2, 0, 54, 0, 0>> \in Word(6)
  BY DEF Word, Byte
<1> QED BY <1>2, <1>3 DEF Byte

\* The pieces of a message at the offsets of the standard.
Laid(first, flags, correction, clockIdentity, sequenceID, sec, nanosec, requestor) ==
    first \o flags \o correction \o <<128, 0>> \o Zeros(4) \o clockIdentity
    \o <<0, 1>> \o sequenceID \o <<3, 0>> \o sec \o nanosec \o requestor

LEMMA Layout ==
    ASSUME NEW first \in Word(6), NEW flags \in Word(2), NEW correction \in Word(6),
           NEW clockIdentity \in Word(8), NEW sequenceID \in Word(2), NEW sec \in Word(6),
           NEW nanosec \in Word(4), NEW requestor \in Word(10), NEW s,
           s = Laid(first, flags, correction, clockIdentity, sequenceID, sec, nanosec, requestor)
    PROVE  /\ s \in Word(54) /\ s[1] = first[1]
           /\ Holds(s, 6, 2, flags) /\ Holds(s, 8, 8, correction \o <<128, 0>>)
           /\ Holds(s, 20, 8, clockIdentity) /\ Holds(s, 30, 2, sequenceID)
           /\ Holds(s, 34, 6, sec) /\ Holds(s, 40, 4, nanosec) /\ Holds(s, 44, 10, requestor)
<1> DEFINE s1 == first \o flags
           s2 == s1 \o correction
           s3 == s2 \o <<128, 0>>
           s4 == s3 \o Zeros(4)
           s5 == s4 \o clockIdentity
           s6 == s5 \o <<0, 1>>
           s7 == s6 \o sequenceID
           s8 == s7 \o <<3, 0>>
           s9 == s8 \o sec
           s10 == s9 \o nanosec
           s11 == s10 \o requestor
<1>0. s = s11
  BY DEF Laid
<1>1. <<128, 0>> \in Word(2) /\ Zeros(4) \in Word(4) /\ <<0, 1>> \in Word(2) /\ <<3, 0>> \in Word(2)
  <2>1. 0 \in Byte /\ 1 \in Byte /\ 3 \in Byte /\ 128 \in Byte
    BY DEF Byte
  <2>2. <<128, 0>> \in Word(2) /\ <<0, 1>> \in Word(2) /\ <<3, 0>> \in Word(2)
    BY <2>1, PairWord
  <2>3. Zeros(4) \in Word(4)
    BY ZerosWord
  <2> QED BY <2>2, <2>3
<1>5. s1 \in Word(8) /\ Begins(s1, 6, first) /\ Holds(s1, 6, 2, flags)
  BY Piece
<1> HIDE DEF s1
<1>6. s2 \in Word(14) /\ Begins(s2, 8, s1) /\ Holds(s2, 8, 6, correction)
  BY <1>1, <1>5, Piece
<1> HIDE DEF s2
<1>7. s3 \in Word(16) /\ Begins(s3, 14, s2) /\ Holds(s3, 14, 2, <<128, 0>>)
  BY <1>1, <1>6, Piece
<1> HIDE DEF s3
<1>8. s4 \in Word(20) /\ Begins(s4, 16, s3)
  BY <1>1, <1>7, Piece
<1> HIDE DEF s4
<1>9. s5 \in Word(28) /\ Begins(s5, 20, s4) /\ Holds(s5, 20, 8, clockIdentity)
  BY <1>8, Piece
<1> HIDE DEF s5
<1>10. s6 \in Word(30) /\ Begins(s6, 28, s5)
  BY <1>1, <1>9, Piece
<1> HIDE DEF s6
<1>11. s7 \in Word(32) /\ Begins(s7, 30, s6) /\ Holds(s7, 30, 2, sequenceID)
  BY <1>10, Piece
<1> HIDE DEF s7
<1>12. s8 \in Word(34) /\ Begins(s8, 32, s7)
  BY <1>1, <1>11, Piece
<1> HIDE DEF s8
<1>13. s9 \in Word(40) /\ Begins(s9, 34, s8) /\ Holds(s9, 34, 6, sec)
  BY <1>12, Piece
<1> HIDE DEF s9
<1>14. s10 \in Word(44) /\ Begins(s10, 40, s9) /\ Holds(s10, 40, 4, nanosec)
  BY <1>13, Piece
<1> HIDE DEF s10
<1>15. s11 \in Word(54) /\ Begins(s11, 44, s10) /\ Holds(s11, 44, 10, requestor)
  BY <1>14, Piece
<1> HIDE DEF s11
<1>16. /\ Begins(s11, 40, s9) /\ Begins(s11, 34, s8) /\ Begins(s11, 32, s7)
       /\ Begins(s11, 30, s6) /\ Begins(s11, 28, s5) /\ Begins(s11, 20, s4)
       /\ Begins(s11, 16, s3) /\ Begins(s11, 14, s2) /\ Begins(s11, 8, s1)
       /\ Begins(s11, 6, first)
  <2>1. Begins(s11, 40, s9) /\ Begins(s11, 34, s8) /\ Begins(s11, 32, s7)
    BY <1>13, <1>14, <1>15, <1>12, BeginsAlso
  <2>2. Begins(s11, 30, s6) /\ Begins(s11, 28, s5) /\ Begins(s11, 20, s4)
    BY <2>1, <1>11, <1>10, <1>9, BeginsAlso
  <2>3. /\ Begins(s11, 16, s3) /\ Begins(s11, 14, s2) /\ Begins(s11, 8, s1)
        /\ Begins(s11, 6, first)
    BY <2>2, <1>8, <1>7, <1>6, <1>5, BeginsAlso
  <2> QED BY <2>1, <2>2, <2>3
<1>17. /\ Holds(s11, 6, 2, flags) /\ Holds(s11, 8, 6, correction)
       /\ Holds(s11, 14, 2, <<128, 0>>) /\ Holds(s11, 20, 8, clockIdentity)
       /\ Holds(s11, 30, 2, sequenceID) /\ Holds(s11, 34, 6, sec)
       /\ Holds(s11, 40, 4, nanosec)
  BY <1>5, <1>6, <1>7, <1>9, <1>11, <1>13, <1>14, <1>15, <1>16, HeldByBegin
<1>18. Holds(s11, 8, 8, correction \o <<128, 0>>) /\ correction \o <<128, 0>> \in Word(8)
  BY <1>1, <1>17, HeldTogether, Piece
<1>19. s11[1] = first[1]
  BY <1>16 DEF Begins
<1> QED
  BY <1>0, <1>15, <1>17, <1>18, <1>19

LEMMA PacketBytes ==
    ASSUME NEW m, IsMessage(m), m.correction \in Int
    PROVE  /\ MessageID(Packet(m)) = m.messageID
           /\ Load(Packet(m), 6, 2) = m.flags
           /\ Load(Packet(m), 8, 8) = Signed48(m.correction) \o <<128, 0>>
           /\ Load(Packet(m), 20, 8) = m.clockIdentity
           /\ Load(Packet(m), 30, 2) = m.sequenceID
           /\ Load(Packet(m), 34, 6) = m.time.sec
           /\ Load(Packet(m), 40, 4) = m.time.nanosec
           /\ Load(Packet(m), 44, 10) = m.requestor
           /\ DOMAIN Packet(m) = 0 .. 53
           /\ \A at \in 0 .. 53 : Packet(m)[at] \in Byte
<1> DEFINE first == <<16 * m.transportSpecific + m.messageID, 2, 0, 54, 0, 0>>
           s == Standard(m)
           p == Packet(m)
<1>1. first \in Word(6) /\ first[1] % 16 = m.messageID
  BY FirstBytes
<1> DEFINE c == Signed48(m.correction)
<1>2. c \in Word(6)
  <2>1. \A ns \in Int : Signed48(ns) \in Word(6)
    BY ResidenceWord
  <2> QED BY <2>1
<1>3. /\ m.flags \in Word(2) /\ m.clockIdentity \in Word(8) /\ m.sequenceID \in Word(2)
      /\ m.time.sec \in Word(6) /\ m.time.nanosec \in Word(4) /\ m.requestor \in Word(10)
  BY DEF IsMessage
<1>4. s = Laid(first, m.flags, c, m.clockIdentity, m.sequenceID, m.time.sec, m.time.nanosec,
               m.requestor)
  BY DEF Standard, Laid
<1>5. p = Payload(s, 53)
  BY DEF Packet, Payload
<1> HIDE DEF first, s, p, c
<1>6. /\ s \in Word(54) /\ s[1] = first[1]
      /\ Holds(s, 6, 2, m.flags) /\ Holds(s, 8, 8, c \o <<128, 0>>)
      /\ Holds(s, 20, 8, m.clockIdentity) /\ Holds(s, 30, 2, m.sequenceID)
      /\ Holds(s, 34, 6, m.time.sec) /\ Holds(s, 40, 4, m.time.nanosec)
      /\ Holds(s, 44, 10, m.requestor)
  BY <1>1, <1>2, <1>3, <1>4, Layout
<1>7. c \o <<128, 0>> \in Word(8)
  <2>1. 128 \in Byte /\ 0 \in Byte
    BY DEF Byte
  <2>2. <<128, 0>> \in Word(2)
    BY <2>1, PairWord
  <2> QED BY <2>2, <1>2, Piece
<1>8. /\ Load(p, 6, 2) = m.flags /\ Load(p, 20, 8) = m.clockIdentity
      /\ Load(p, 30, 2) = m.sequenceID /\ Load(p, 34, 6) = m.time.sec
      /\ Load(p, 40, 4) = m.time.nanosec /\ Load(p, 44, 10) = m.requestor
      /\ Load(p, 8, 8) = c \o <<128, 0>>
  <2>1. \A a, n \in Nat : \A x \in Word(n) :
           a + n <= 54 /\ Holds(s, a, n, x) => Load(Payload(s, 53), a, n) = x
    BY LoadsHeld
  <2>2. Load(p, 6, 2) = m.flags /\ Load(p, 20, 8) = m.clockIdentity
    BY <1>3, <1>5, <1>6, <2>1
  <2>3. Load(p, 30, 2) = m.sequenceID /\ Load(p, 34, 6) = m.time.sec
    BY <1>3, <1>5, <1>6, <2>1
  <2>4. Load(p, 40, 4) = m.time.nanosec /\ Load(p, 44, 10) = m.requestor
    BY <1>3, <1>5, <1>6, <2>1
  <2>5. Load(p, 8, 8) = c \o <<128, 0>>
    <3> DEFINE d == c \o <<128, 0>>
    <3>1. d \in Word(8) /\ Holds(s, 8, 8, d)
      BY <1>6, <1>7
    <3> HIDE DEF d
    <3>2. Load(p, 8, 8) = d
      BY <1>5, <3>1, <2>1
    <3> QED BY <3>2 DEF d
  <2> QED BY <2>2, <2>3, <2>4, <2>5
<1>9. DOMAIN p = 0 .. 53 /\ \A at \in 0 .. 53 : p[at] \in Byte
  <2>1. \A k \in 1 .. 54 : s[k] \in Byte
    BY <1>6, WordFacts
  <2> QED BY <1>5, <2>1 DEF Payload
<1>10. MessageID(p) = m.messageID
  BY <1>1, <1>5, <1>6 DEF MessageID, Payload
<1> QED BY <1>8, <1>9, <1>10 DEF p, c

\* The bits of the word that has been swapped are those of the octets of the standard.
LEMMA FlagsLoaded ==
    ASSUME NEW w, NEW field, w[2] = field[1], w[1] = field[2]
    PROVE  ptp_load_flags(w) = MeantFlags(field)
<1>1. /\ 8 \div 8 + 1 = 2 /\ 9 \div 8 + 1 = 2 /\ 10 \div 8 + 1 = 2 /\ 13 \div 8 + 1 = 2
      /\ 14 \div 8 + 1 = 2 /\ 15 \div 8 + 1 = 2
      /\ 8 % 8 = 0 /\ 9 % 8 = 1 /\ 10 % 8 = 2 /\ 13 % 8 = 5 /\ 14 % 8 = 6 /\ 15 % 8 = 7
  OBVIOUS
<1>2. /\ \A k \in 0 .. 5 : k \div 8 + 1 = 1 /\ k % 8 = k
  OBVIOUS
<1>3. /\ Bit(w, 8) = (field[1] \div 2^0) % 2 /\ Bit(w, 9) = (field[1] \div 2^1) % 2
      /\ Bit(w, 10) = (field[1] \div 2^2) % 2 /\ Bit(w, 13) = (field[1] \div 2^5) % 2
      /\ Bit(w, 14) = (field[1] \div 2^6) % 2 /\ Bit(w, 15) = (field[1] \div 2^7) % 2
  BY <1>1 DEF Bit
<1>4. \A k \in 0 .. 5 : Bit(w, k) = (field[2] \div 2^k) % 2
  BY <1>2 DEF Bit
<1>5. /\ Bit(w, 0) = (field[2] \div 2^0) % 2 /\ Bit(w, 1) = (field[2] \div 2^1) % 2
      /\ Bit(w, 2) = (field[2] \div 2^2) % 2 /\ Bit(w, 3) = (field[2] \div 2^3) % 2
      /\ Bit(w, 4) = (field[2] \div 2^4) % 2 /\ Bit(w, 5) = (field[2] \div 2^5) % 2
  BY <1>4
<1> QED BY <1>3, <1>5, Zenon DEF ptp_load_flags, MeantFlags

\* The header that ptp_extract_header() makes of it.
LEMMA HeaderBytes ==
    ASSUME NEW m, IsMessage(m), m.correction \in Int,
           NEW h, h = ptp_extract_header(Packet(m))
    PROVE  /\ h.messageID = m.messageID
           /\ h.sequenceID = Reverse(m.sequenceID) /\ h.sequenceID \in Word(2)
           /\ h.clockIdentity = m.clockIdentity
           /\ h.correction_ns = CorrectionNs(Packet(m))
           /\ h.flags = MeantFlags(m.flags)
<1> DEFINE p == Packet(m)
<1>1. /\ h.messageID = MessageID(p) /\ h.sequenceID = Swap(Load(p, 30, 2))
      /\ h.clockIdentity = Load(p, 20, 8) /\ h.correction_ns = CorrectionNs(p)
      /\ h.flags = ptp_load_flags(Swap(Load(p, 6, 2)))
  BY DEF ptp_extract_header, Flags
<1> HIDE DEF p
<1>2. /\ MessageID(p) = m.messageID /\ Load(p, 30, 2) = m.sequenceID
      /\ Load(p, 20, 8) = m.clockIdentity /\ Load(p, 6, 2) = m.flags
  BY PacketBytes DEF p
<1>3. m.sequenceID \in Word(2) /\ m.flags \in Word(2)
  BY DEF IsMessage
<1>4. Swap(m.sequenceID) \in Word(2) /\ Swap(m.sequenceID) = Reverse(m.sequenceID)
  BY <1>3, SwapWord
<1>5. Swap(m.flags)[1] = m.flags[2] /\ Swap(m.flags)[2] = m.flags[1]
  BY <1>3, SwapWord
<1> DEFINE w == Swap(m.flags)
<1>6. h.flags = ptp_load_flags(w)
  BY <1>1, <1>2
<1>7. w[2] = m.flags[1] /\ w[1] = m.flags[2]
  BY <1>5
<1> HIDE DEF w
<1>8. ptp_load_flags(w) = MeantFlags(m.flags)
  BY <1>7, FlagsLoaded
<1> QED BY <1>1, <1>2, <1>4, <1>6, <1>8 DEF p

\* The 48 bits of the seconds, read as the upper ones of 64.
LEMMA SecondsWord ==
    ASSUME NEW sec \in Word(6), NEW p, Load(p, 34, 6) = sec
    PROVE  Seconds(p) = Reverse(sec) \o Zeros(2) /\ Seconds(p) \in Word(8)
<1> DEFINE padded == sec \o Zeros(2)
           part == SubSeq(padded, 1, 6)
           shifted == Zeros(2) \o sec
           reversed == Swap(sec)
           want == reversed \o Zeros(2)
<1>0. Zeros(2) \in Word(2) /\ \A k \in 1 .. 2 : Zeros(2)[k] = 0
  BY ZerosWord
<1>1. padded \in Word(8) /\ Begins(padded, 6, sec)
  BY <1>0, Piece
<1>2. shifted \in Word(8) /\ Begins(shifted, 2, Zeros(2)) /\ Holds(shifted, 2, 6, sec)
  BY <1>0, Piece
<1>3. /\ reversed \in Word(6) /\ reversed = Reverse(sec)
      /\ \A k \in 1 .. 6 : reversed[k] = sec[6 - k + 1]
  BY SwapWord
<1>4. Seconds(p) = Swap(Zeros(2) \o SubSeq(padded, 1, Len(padded) - 2))
  BY DEF Seconds, ShiftLeft16
<1> HIDE DEF padded, reversed
<1>5. want \in Word(8) /\ Begins(want, 6, reversed) /\ Holds(want, 6, 2, Zeros(2))
  BY <1>0, <1>3, Piece
<1> HIDE DEF want
<1>6. part = sec
  <2>1. part \in Word(6 - 1 + 1) /\ \A k \in 1 .. (6 - 1 + 1) : part[k] = padded[1 + k - 1]
    BY <1>1, PartOfWord
  <2> HIDE DEF part
  <2>2. part \in Word(6) /\ \A k \in 1 .. 6 : part[k] = sec[k]
    BY <1>1, <2>1 DEF Begins
  <2> QED BY <2>2, WordEqual
<1>7. Seconds(p) = Swap(shifted)
  <2>1. Len(padded) = 8
    BY <1>1, WordFacts
  <2>2. Seconds(p) = Swap(Zeros(2) \o part)
    BY <1>4, <2>1
  <2> HIDE DEF part
  <2> QED BY <1>6, <2>2
<1> HIDE DEF shifted
<1>8. Swap(shifted) \in Word(8) /\ \A k \in 1 .. 8 : Swap(shifted)[k] = shifted[8 - k + 1]
  BY <1>2, SwapWord
<1>9. \A k \in 1 .. 8 : Swap(shifted)[k] = want[k]
  <2>1. SUFFICES ASSUME NEW k \in 1 .. 8 PROVE shifted[8 - k + 1] = want[k]
    BY <1>8
  <2>2. CASE k <= 6
    <3>1. 6 - k + 1 \in 1 .. 6 /\ 2 + (6 - k + 1) = 8 - k + 1
      BY <2>2
    <3>2. shifted[2 + (6 - k + 1)] = sec[6 - k + 1]
      BY <1>2, <3>1 DEF Holds
    <3>3. want[k] = sec[6 - k + 1]
      BY <1>3, <1>5, <2>2 DEF Begins
    <3> QED BY <3>1, <3>2, <3>3
  <2>3. CASE ~(k <= 6)
    <3>1. 8 - k + 1 \in 1 .. 2 /\ k - 6 \in 1 .. 2 /\ 6 + (k - 6) = k
      BY <2>3
    <3>2. shifted[8 - k + 1] = 0
      BY <1>0, <1>2, <3>1 DEF Begins
    <3>3. want[6 + (k - 6)] = 0
      BY <1>0, <1>5, <3>1 DEF Holds
    <3> QED BY <3>1, <3>2, <3>3
  <2> QED BY <2>2, <2>3
<1>10. Swap(shifted) = want
  BY <1>5, <1>8, <1>9, WordEqual
<1> QED BY <1>3, <1>5, <1>7, <1>10 DEF want

\* The correction without its sign, and the assignment that brings the sign back.
FitsInt32(ns) == ns \in Int /\ -2147483648 <= ns /\ ns <= 2147483647

LEMMA Int32Bytes ==
    ASSUME NEW ns, FitsInt32(ns), NEW b1, NEW b2, NEW b3, NEW b4,
           b1 = ns % 256, b2 = (ns \div 256) % 256,
           b3 = (ns \div 65536) % 256, b4 = (ns \div 16777216) % 256
    PROVE  (IF b4 < 128 THEN b4 ELSE b4 - 256) * 16777216 + b3 * 65536 + b2 * 256 + b1 = ns
BY SMT DEF FitsInt32

HoldsCorrection(p, ns) == Load(p, 8, 8) = Signed48(ns) \o <<128, 0>>

LEMMA CorrectionWord ==
    ASSUME NEW ns \in Int, NEW p, HoldsCorrection(p, ns)
    PROVE  /\ CorrectionNs(p) \in Word(8)
           /\ CorrectionNs(p)[1] = ns % 256
           /\ CorrectionNs(p)[2] = (ns \div 256) % 256
           /\ CorrectionNs(p)[3] = (ns \div 65536) % 256
           /\ CorrectionNs(p)[4] = (ns \div 16777216) % 256
<1> DEFINE c == Signed48(ns)
           field == c \o <<128, 0>>
           swapped == Swap(field)
           upper == SubSeq(swapped, 3, 8)
           w == upper \o Zeros(2)
<1>1. c \in Word(6) /\ c[6] = ns % 256 /\ c[5] = (ns \div 256) % 256
      /\ c[4] = (ns \div 65536) % 256 /\ c[3] = (ns \div 16777216) % 256
  BY ResidenceWord
<1>2. <<128, 0>> \in Word(2) /\ Zeros(2) \in Word(2)
  <2>1. 128 \in Byte /\ 0 \in Byte
    BY DEF Byte
  <2> QED BY <2>1, PairWord, ZerosWord
<1>3. CorrectionNs(p) = SubSeq(swapped, 3, Len(swapped)) \o Zeros(2)
  BY DEF CorrectionNs, ShiftRight16, HoldsCorrection
<1> HIDE DEF c
<1>4. field \in Word(8) /\ Begins(field, 6, c)
  BY <1>1, <1>2, Piece
<1> HIDE DEF field
<1>5. swapped \in Word(8) /\ \A k \in 1 .. 8 : swapped[k] = field[8 - k + 1]
  BY <1>4, SwapWord
<1> HIDE DEF swapped
<1>6. upper \in Word(6) /\ \A k \in 1 .. 6 : upper[k] = swapped[k + 2]
  <2>1. /\ upper \in Word(8 - 3 + 1)
        /\ \A k \in 1 .. (8 - 3 + 1) : upper[k] = swapped[3 + k - 1]
    BY <1>5, PartOfWord
  <2> HIDE DEF upper
  <2> QED BY <2>1
<1>7. CorrectionNs(p) = w
  <2>1. Len(swapped) = 8
    BY <1>5, WordFacts
  <2> QED BY <1>3, <2>1
<1> HIDE DEF upper
<1>8. w \in Word(8) /\ Begins(w, 6, upper)
  BY <1>2, <1>6, Piece
<1> HIDE DEF w
<1>9. w[1] = c[6] /\ w[2] = c[5] /\ w[3] = c[4] /\ w[4] = c[3]
  <2>1. w[1] = swapped[3] /\ w[2] = swapped[4] /\ w[3] = swapped[5] /\ w[4] = swapped[6]
    BY <1>6, <1>8 DEF Begins
  <2>2. /\ swapped[3] = field[6] /\ swapped[4] = field[5]
        /\ swapped[5] = field[4] /\ swapped[6] = field[3]
    BY <1>5
  <2> QED BY <1>4, <2>1, <2>2 DEF Begins
<1> QED BY <1>1, <1>7, <1>8, <1>9

LEMMA CorrectionSigned ==
    ASSUME NEW ns \in Int, NEW p, HoldsCorrection(p, ns)
    PROVE  /\ Signed(CorrectionNs(p)) \in Int
           /\ FitsInt32(ns) => Signed(CorrectionNs(p)) = ns
<1> DEFINE v == CorrectionNs(p)
<1>1. /\ v[1] = ns % 256 /\ v[2] = (ns \div 256) % 256
      /\ v[3] = (ns \div 65536) % 256 /\ v[4] = (ns \div 16777216) % 256
  BY CorrectionWord
<1> HIDE DEF v
<1>2. PICK b1, b2, b3, b4 \in Int :
         /\ b1 = ns % 256 /\ b2 = (ns \div 256) % 256
         /\ b3 = (ns \div 65536) % 256 /\ b4 = (ns \div 16777216) % 256
  BY SMT
<1>3. Signed(v) = (IF b4 < 128 THEN b4 ELSE b4 - 256) * 16777216 + b3 * 65536 + b2 * 256 + b1
  BY <1>1, <1>2, SMT DEF Signed
<1>4. Signed(v) \in Int
  BY <1>3, SMT
<1>5. ASSUME FitsInt32(ns) PROVE Signed(v) = ns
  BY <1>2, <1>3, <1>5, Int32Bytes, SMT
<1> QED BY <1>4, <1>5 DEF v

-----------------------------------------------------------------------------
(***************************************************************************)
(* The Delay_Req, field after field.                                       *)
(***************************************************************************)
LEMMA ZerosEqual ==
    ASSUME NEW n \in Nat, NEW w \in Word(n), \A k \in 1 .. n : w[k] = 0
    PROVE  w = Zeros(n)
BY ZerosWord, WordEqual

LEMMA ZerosSwapped == ASSUME NEW n \in Nat PROVE Swap(Zeros(n)) = Zeros(n)
<1> DEFINE z == Zeros(n)
<1>1. z \in Word(n) /\ \A k \in 1 .. n : z[k] = 0
  BY ZerosWord
<1> HIDE DEF z
<1>2. Swap(z) \in Word(n) /\ \A k \in 1 .. n : Swap(z)[k] = z[n - k + 1]
  BY <1>1, SwapWord
<1>3. \A k \in 1 .. n : n - k + 1 \in 1 .. n
  OBVIOUS
<1>4. Swap(z) = Zeros(n)
  BY <1>1, <1>2, <1>3, ZerosEqual
<1> QED BY <1>4 DEF z

LEMMA ZerosTogether ==
    ASSUME NEW m \in Nat, NEW n \in Nat, NEW l \in Nat, l = m + n
    PROVE  Zeros(m) \o Zeros(n) = Zeros(l)
<1> DEFINE y == Zeros(m)
           z == Zeros(n)
           c == y \o z
<1>1. /\ y \in Word(m) /\ (\A k \in 1 .. m : y[k] = 0)
      /\ z \in Word(n) /\ (\A k \in 1 .. n : z[k] = 0)
  BY ZerosWord
<1> HIDE DEF y, z
<1>2. c \in Word(l) /\ Begins(c, m, y) /\ Holds(c, m, n, z)
  BY <1>1, Piece
<1> HIDE DEF c
<1>3. \A k \in 1 .. l : c[k] = 0
  <2>1. SUFFICES ASSUME NEW k \in 1 .. l PROVE c[k] = 0
    OBVIOUS
  <2>2. CASE k <= m
    BY <1>1, <1>2, <2>2 DEF Begins
  <2>3. CASE ~(k <= m)
    <3>1. k - m \in 1 .. n /\ m + (k - m) = k
      BY <2>3
    <3>2. c[m + (k - m)] = 0
      BY <1>1, <1>2, <3>1 DEF Holds
    <3> QED BY <3>1, <3>2
  <2> QED BY <2>2, <2>3
<1>4. c = Zeros(l)
  BY <1>2, <1>3, ZerosEqual
<1> QED BY <1>4 DEF c, y, z

LEMMA ZerosShifted ==
    /\ SubSeq(Zeros(8), 1, 6) = Zeros(6)
    /\ ShiftLeft16(Zeros(8)) = Zeros(8)
<1> DEFINE z == Zeros(8)
           part == SubSeq(z, 1, 6)
<1>1. z \in Word(8) /\ \A k \in 1 .. 8 : z[k] = 0
  BY ZerosWord
<1> HIDE DEF z
<1>2. part \in Word(6 - 1 + 1) /\ \A k \in 1 .. (6 - 1 + 1) : part[k] = z[1 + k - 1]
  BY <1>1, PartOfWord
<1>3. Len(z) = 8
  BY <1>1, WordFacts
<1>4. ShiftLeft16(z) = Zeros(2) \o SubSeq(z, 1, 6)
  BY <1>3 DEF ShiftLeft16
<1>5. ShiftLeft16(z) = Zeros(2) \o part
  BY <1>4
<1> HIDE DEF part
<1>6. part \in Word(6) /\ \A k \in 1 .. 6 : part[k] = 0
  BY <1>1, <1>2
<1>7. part = Zeros(6)
  BY <1>6, ZerosEqual
<1>8. ShiftLeft16(z) = Zeros(8)
  <2>1. \A m, n, l \in Nat : l = m + n => Zeros(m) \o Zeros(n) = Zeros(l)
    BY ZerosTogether
  <2>2. 8 = 2 + 6
    OBVIOUS
  <2>3. Zeros(2) \o Zeros(6) = Zeros(8)
    BY <2>1, <2>2
  <2> QED BY <1>5, <1>7, <2>3
<1> QED BY <1>7, <1>8 DEF z, part

\* A pbuf of the size of a Delay_Req, and what lies in it from a place on.
Pbuf(p) == DOMAIN p = 0 .. 43 /\ \A at \in 0 .. 43 : p[at] \in Byte
Lies(p, a, n, x) == \A k \in 1 .. n : p[a + k - 1] = x[k]

\* What is stored is at its place, and nothing else changes.
LEMMA Stores ==
    ASSUME NEW p, Pbuf(p), NEW at \in Nat, NEW n \in Nat, NEW w \in Word(n)
    PROVE  /\ DOMAIN Store(p, at, w) = 0 .. 43
           /\ \A k \in 0 .. 43 :
                 Store(p, at, w)[k] = IF at <= k /\ k < at + n THEN w[k - at + 1] ELSE p[k]
<1>1. Len(w) = n /\ DOMAIN p = 0 .. 43
  BY WordFacts DEF Pbuf
<1>2. Store(p, at, w) = [k \in 0 .. 43 |-> IF k \in at .. (at + n - 1) THEN w[k - at + 1] ELSE p[k]]
  BY <1>1 DEF Store
<1> QED BY <1>2

LEMMA StoredLies ==
    ASSUME NEW p, Pbuf(p), NEW at \in Nat, NEW n \in Nat, at + n <= 44, NEW w \in Word(n)
    PROVE  Pbuf(Store(p, at, w)) /\ Lies(Store(p, at, w), at, n, w)
<1> DEFINE q == Store(p, at, w)
<1>1. /\ DOMAIN q = 0 .. 43
      /\ \A k \in 0 .. 43 : q[k] = IF at <= k /\ k < at + n THEN w[k - at + 1] ELSE p[k]
  BY Stores
<1> HIDE DEF q
<1>2. \A k \in 0 .. 43 : q[k] \in Byte
  <2>1. \A k \in 1 .. n : w[k] \in Byte
    BY WordFacts
  <2>2. SUFFICES ASSUME NEW k \in 0 .. 43 PROVE q[k] \in Byte
    OBVIOUS
  <2>3. CASE at <= k /\ k < at + n
    <3>1. k - at + 1 \in 1 .. n
      BY <2>3
    <3> QED BY <1>1, <2>1, <2>3, <3>1
  <2>4. CASE ~(at <= k /\ k < at + n)
    BY <1>1, <2>4 DEF Pbuf
  <2> QED BY <2>3, <2>4
<1>3. \A k \in 1 .. n : q[at + k - 1] = w[k]
  <2>1. SUFFICES ASSUME NEW k \in 1 .. n PROVE q[at + k - 1] = w[k]
    OBVIOUS
  <2>2. /\ at + k - 1 \in 0 .. 43 /\ at <= at + k - 1 /\ at + k - 1 < at + n
        /\ (at + k - 1) - at + 1 = k
    OBVIOUS
  <2> QED BY <1>1, <2>2
<1> QED BY <1>1, <1>2, <1>3 DEF Pbuf, Lies, q

\* A pbuf that goes on after its first b bytes.
Grown(p, q, b) == \A k \in 0 .. (b - 1) : q[k] = p[k]

LEMMA StoredGrows ==
    ASSUME NEW p, Pbuf(p), NEW at \in Nat, NEW n \in Nat, at + n <= 44, NEW w \in Word(n)
    PROVE  Grown(p, Store(p, at, w), at)
<1>1. \A k \in 0 .. (at - 1) : k \in 0 .. 43 /\ ~(at <= k)
  OBVIOUS
<1> DEFINE q == Store(p, at, w)
<1>2. \A k \in 0 .. 43 : q[k] = IF at <= k /\ k < at + n THEN w[k - at + 1] ELSE p[k]
  BY Stores
<1> HIDE DEF q
<1>3. Grown(p, q, at)
  BY <1>1, <1>2 DEF Grown
<1> QED BY <1>3 DEF q

LEMMA GrownTwice ==
    ASSUME NEW b \in Nat, NEW c \in Nat, b <= c, NEW p, NEW q, NEW r, Grown(p, q, b), Grown(q, r, c)
    PROVE  Grown(p, r, b)
BY DEF Grown

LEMMA GrownLies ==
    ASSUME NEW p, NEW q, NEW b \in Nat, Grown(p, q, b),
           NEW a \in Nat, NEW n \in Nat, a + n <= b, NEW x, Lies(p, a, n, x)
    PROVE  Lies(q, a, n, x)
<1>1. \A k \in 1 .. n : a + k - 1 \in 0 .. (b - 1)
  OBVIOUS
<1> QED BY <1>1 DEF Grown, Lies

LEMMA LieTogether ==
    ASSUME NEW p, NEW a \in Nat, NEW m \in Nat, NEW n \in Nat, NEW b \in Nat, NEW l \in Nat,
           b = a + m, l = m + n, NEW v \in Word(m), NEW w \in Word(n),
           Lies(p, a, m, v), Lies(p, b, n, w)
    PROVE  Lies(p, a, l, v \o w) /\ v \o w \in Word(l)
<1> DEFINE c == v \o w
<1>1. c \in Word(l) /\ Begins(c, m, v) /\ Holds(c, m, n, w)
  BY Piece
<1> HIDE DEF c
<1>2. \A k \in 1 .. l : p[a + k - 1] = c[k]
  <2>1. SUFFICES ASSUME NEW k \in 1 .. l PROVE p[a + k - 1] = c[k]
    OBVIOUS
  <2>2. CASE k <= m
    BY <1>1, <2>2 DEF Lies, Begins
  <2>3. CASE ~(k <= m)
    <3>1. k - m \in 1 .. n /\ m + (k - m) = k /\ b + (k - m) - 1 = a + k - 1
      BY <2>3
    <3>2. c[m + (k - m)] = w[k - m] /\ p[b + (k - m) - 1] = w[k - m]
      BY <1>1, <3>1 DEF Holds, Lies
    <3> QED BY <3>1, <3>2
  <2> QED BY <2>2, <2>3
<1> QED BY <1>1, <1>2 DEF Lies, c

LEMMA LoadsLying ==
    ASSUME NEW p, NEW a \in Nat, NEW n \in Nat, NEW x \in Word(n), Lies(p, a, n, x)
    PROVE  Load(p, a, n) = x
BY Loads DEF Lies

LEMMA ClockIdentityWord ==
    ASSUME NEW mac \in Word(6)
    PROVE  ClockIdentity(mac) \in Word(8)
<1> DEFINE v == SubSeq(mac, 1, 3)
           w == SubSeq(mac, 4, 6)
<1>1. v \in Word(3 - 1 + 1) /\ w \in Word(6 - 4 + 1)
  BY PartOfWord
<1>2. v \in Word(3) /\ w \in Word(3)
  BY <1>1
<1> HIDE DEF v, w
<1>3. <<255, 254>> \in Word(2)
  <2>1. 255 \in Byte /\ 254 \in Byte
    BY DEF Byte
  <2> QED BY <2>1, PairWord
<1>4. v \o <<255, 254>> \in Word(5)
  BY <1>2, <1>3, Piece
<1>5. (v \o <<255, 254>>) \o w \in Word(8)
  BY <1>2, <1>4, Piece
<1> QED BY <1>5 DEF ClockIdentity, v, w

LEMMA Swap2 == ASSUME NEW a \in Byte, NEW b \in Byte PROVE Swap(<<a, b>>) = <<b, a>>
<1>1. <<a, b>> \in Word(2) /\ <<b, a>> \in Word(2)
  BY PairWord
<1> DEFINE v == <<a, b>>
           w == <<b, a>>
<1>2. v[1] = a /\ v[2] = b /\ w[1] = b /\ w[2] = a
  OBVIOUS
<1> HIDE DEF v, w
<1>3. v \in Word(2) /\ w \in Word(2)
  BY <1>1 DEF v, w
<1>4. Swap(v) \in Word(2) /\ \A k \in 1 .. 2 : Swap(v)[k] = v[2 - k + 1]
  BY <1>3, SwapWord
<1>5. \A k \in 1 .. 2 : Swap(v)[k] = w[k]
  BY <1>2, <1>4
<1>6. Swap(v) = w
  BY <1>3, <1>4, <1>5, WordEqual
<1> QED BY <1>6 DEF v, w

\* What ptp_construct_binary_header() takes from sDelayReqHeader.
LEMMA HeaderWords ==
    ASSUME NEW s \in Word(2), Mac \in Word(6)
    PROVE  LET h == DelayReqHeader(s)
           IN  /\ <<FirstByte(h), h.versionPTP>> \o Swap(h.messageLength) = <<1, 2>> \o <<0, 44>>
               /\ h.subdomainNumber = 0
               /\ Swap(Correction(h)) = Zeros(8)
               /\ h.clockIdentity = ClockIdentity(Mac)
               /\ Swap(h.sourcePortID) = <<0, 1>> /\ h.sourcePortID = <<1, 0>>
               /\ h.sequenceID = s
               /\ <<h.control, h.logMessagePeriod>> = <<1, 127>>
<1> DEFINE h == DelayReqHeader(s)
<1>1. /\ h.messageID = 1 /\ h.transportSpecific = 0 /\ h.versionPTP = 2
      /\ h.messageLength = <<44, 0>> /\ h.subdomainNumber = 0
      /\ h.correction_ns = Zeros(8) /\ h.correction_subns = Zeros(2)
  BY DEF DelayReqHeader
<1>2. /\ h.clockIdentity = ClockIdentity(Mac) /\ h.sourcePortID = <<1, 0>>
      /\ h.sequenceID = s /\ h.control = 1 /\ h.logMessagePeriod = 127
  BY DEF DelayReqHeader
<1> HIDE DEF h
<1>3. FirstByte(h) = 1
  BY <1>1 DEF FirstByte
<1>4. Swap(<<44, 0>>) = <<0, 44>> /\ Swap(<<1, 0>>) = <<0, 1>>
  <2>1. 0 \in Byte /\ 1 \in Byte /\ 44 \in Byte
    BY DEF Byte
  <2> QED BY <2>1, Swap2
<1>5. <<FirstByte(h), h.versionPTP>> \o Swap(h.messageLength) = <<1, 2>> \o <<0, 44>>
  BY <1>1, <1>3, <1>4
<1>6. Swap(Correction(h)) = Zeros(8)
  <2>1. Correction(h) = Zeros(2) \o Zeros(6)
    BY <1>1, ZerosShifted DEF Correction
  <2>2. \A m, n, l \in Nat : l = m + n => Zeros(m) \o Zeros(n) = Zeros(l)
    BY ZerosTogether
  <2>3. 8 = 2 + 6
    OBVIOUS
  <2>4. Correction(h) = Zeros(8)
    BY <2>1, <2>2, <2>3
  <2> QED BY <2>4, ZerosSwapped
<1> QED BY <1>1, <1>2, <1>4, <1>5, <1>6 DEF h

LEMMA RequestBytes ==
    ASSUME NEW s \in Word(2), Mac \in Word(6), NEW old \in Byte, NEW q,
           q = ptp_send_delay_req_message([at \in 0 .. 43 |-> old], s)
    PROVE  /\ Pbuf(q)
           /\ Lies(q, 0, 4, <<1, 2>> \o <<0, 44>>) /\ Lies(q, 4, 1, <<0>>)
           /\ Lies(q, 6, 2, Zeros(2)) /\ Lies(q, 8, 8, Zeros(8))
           /\ Lies(q, 20, 8, ClockIdentity(Mac)) /\ Lies(q, 28, 2, <<0, 1>>)
           /\ Lies(q, 30, 2, Swap(s)) /\ Lies(q, 32, 2, <<1, 127>>)
           /\ Lies(q, 34, 6, Zeros(6)) /\ Lies(q, 40, 4, Zeros(4))
<1> DEFINE p0 == [at \in 0 .. 43 |-> old]
           id == ClockIdentity(Mac)
           start == <<1, 2>> \o <<0, 44>>
           h == DelayReqHeader(s)
           p1 == Store(p0, 0, start)
           p2 == Store(p1, 4, <<0>>)
           p3 == Store(p2, 6, Zeros(2))
           p4 == Store(p3, 8, Zeros(8))
           p5 == Store(p4, 20, id)
           p6 == Store(p5, 28, <<0, 1>>)
           p7 == Store(p6, 30, Swap(s))
           p8 == Store(p7, 32, <<1, 127>>)
           p9 == Store(p8, 34, Zeros(6))
           p10 == Store(p9, 40, Zeros(4))
<1>1. /\ <<FirstByte(h), h.versionPTP>> \o Swap(h.messageLength) = start
      /\ h.subdomainNumber = 0 /\ Swap(Correction(h)) = Zeros(8) /\ h.clockIdentity = id
      /\ Swap(h.sourcePortID) = <<0, 1>> /\ h.sequenceID = s
      /\ <<h.control, h.logMessagePeriod>> = <<1, 127>>
  BY HeaderWords, Zenon
<1> HIDE DEF h, start, id
<1>2. ptp_construct_binary_header(p0, h) = p8
  BY <1>1 DEF ptp_construct_binary_header, StoreFlags, StorePorts
<1>3. q = p10
  <2>1. q = ptp_write_binary_timestamps(p8, [sec |-> Zeros(8), nanosec |-> Zeros(4)])
    BY <1>2 DEF ptp_send_delay_req_message, h
  <2> HIDE DEF p8
  <2>2. q = Store(Store(p8, 34, SubSeq(Swap(ShiftLeft16(Zeros(8))), 1, 6)), 40, Swap(Zeros(4)))
    BY <2>1 DEF ptp_write_binary_timestamps
  <2>3. Swap(ShiftLeft16(Zeros(8))) = Zeros(8) /\ Swap(Zeros(4)) = Zeros(4)
    BY ZerosShifted, ZerosSwapped
  <2>4. SubSeq(Swap(ShiftLeft16(Zeros(8))), 1, 6) = Zeros(6)
    BY <2>3, ZerosShifted
  <2> QED BY <2>2, <2>3, <2>4
<1>4. Pbuf(p0)
  BY DEF Pbuf
<1>5. start \in Word(4) /\ <<0>> \in Word(1) /\ <<0, 1>> \in Word(2) /\ <<1, 127>> \in Word(2)
  <2>1. 0 \in Byte /\ 1 \in Byte /\ 2 \in Byte /\ 44 \in Byte /\ 127 \in Byte
    BY DEF Byte
  <2>2. /\ <<0>> \in Word(1) /\ <<0, 1>> \in Word(2) /\ <<1, 127>> \in Word(2)
        /\ <<1, 2>> \in Word(2) /\ <<0, 44>> \in Word(2)
    BY <2>1, PairWord, ByteWord
  <2>3. <<1, 2>> \o <<0, 44>> \in Word(4)
    BY <2>2, Piece
  <2> QED BY <2>2, <2>3 DEF start
<1>6. /\ Zeros(2) \in Word(2) /\ Zeros(4) \in Word(4) /\ Zeros(6) \in Word(6)
      /\ Zeros(8) \in Word(8) /\ id \in Word(8) /\ Swap(s) \in Word(2)
  BY ZerosWord, ClockIdentityWord, SwapWord DEF id
<1> HIDE DEF p0
<1>7. Pbuf(p1) /\ Lies(p1, 0, 4, start)
  BY <1>4, <1>5, StoredLies
<1> HIDE DEF p1
<1>8. Pbuf(p2) /\ Lies(p2, 4, 1, <<0>>) /\ Grown(p1, p2, 4)
  BY <1>5, <1>7, StoredLies, StoredGrows
<1> HIDE DEF p2
<1>9. Pbuf(p3) /\ Lies(p3, 6, 2, Zeros(2)) /\ Grown(p2, p3, 6)
  BY <1>6, <1>8, StoredLies, StoredGrows
<1> HIDE DEF p3
<1>10. Pbuf(p4) /\ Lies(p4, 8, 8, Zeros(8)) /\ Grown(p3, p4, 8)
  BY <1>6, <1>9, StoredLies, StoredGrows
<1> HIDE DEF p4
<1>11. Pbuf(p5) /\ Lies(p5, 20, 8, id) /\ Grown(p4, p5, 20)
  BY <1>6, <1>10, StoredLies, StoredGrows
<1> HIDE DEF p5
<1>12. Pbuf(p6) /\ Lies(p6, 28, 2, <<0, 1>>) /\ Grown(p5, p6, 28)
  BY <1>5, <1>11, StoredLies, StoredGrows
<1> HIDE DEF p6
<1>13. Pbuf(p7) /\ Lies(p7, 30, 2, Swap(s)) /\ Grown(p6, p7, 30)
  BY <1>6, <1>12, StoredLies, StoredGrows
<1> HIDE DEF p7
<1>14. Pbuf(p8) /\ Lies(p8, 32, 2, <<1, 127>>) /\ Grown(p7, p8, 32)
  BY <1>5, <1>13, StoredLies, StoredGrows
<1> HIDE DEF p8
<1>15. Pbuf(p9) /\ Lies(p9, 34, 6, Zeros(6)) /\ Grown(p8, p9, 34)
  BY <1>6, <1>14, StoredLies, StoredGrows
<1> HIDE DEF p9
<1>16. Pbuf(p10) /\ Lies(p10, 40, 4, Zeros(4)) /\ Grown(p9, p10, 40)
  BY <1>6, <1>15, StoredLies, StoredGrows
<1> HIDE DEF p10
<1>17. Grown(p8, p10, 34) /\ Grown(p7, p10, 32) /\ Grown(p6, p10, 30) /\ Grown(p5, p10, 28)
  BY <1>16, <1>15, <1>14, <1>13, <1>12, GrownTwice
<1>18. Grown(p4, p10, 20) /\ Grown(p3, p10, 8) /\ Grown(p2, p10, 6) /\ Grown(p1, p10, 4)
  BY <1>17, <1>11, <1>10, <1>9, <1>8, GrownTwice
<1>19. /\ Lies(p10, 0, 4, start) /\ Lies(p10, 4, 1, <<0>>) /\ Lies(p10, 6, 2, Zeros(2))
       /\ Lies(p10, 8, 8, Zeros(8)) /\ Lies(p10, 20, 8, id)
  BY <1>7, <1>8, <1>9, <1>10, <1>11, <1>17, <1>18, GrownLies
<1>20. /\ Lies(p10, 28, 2, <<0, 1>>) /\ Lies(p10, 30, 2, Swap(s))
       /\ Lies(p10, 32, 2, <<1, 127>>) /\ Lies(p10, 34, 6, Zeros(6))
  BY <1>12, <1>13, <1>14, <1>15, <1>16, <1>17, GrownLies
<1> QED BY <1>3, <1>16, <1>19, <1>20 DEF start, id

-----------------------------------------------------------------------------
(***************************************************************************)
(* The states of the codec.                                                *)
(***************************************************************************)
LEMMA MacWord == Mac \in Word(6) /\ \A mac \in OtherMacs : mac \in Word(6)
BY WireAssumption

\* The identity and the port in a Delay_Req are the ten bytes of its requestor.
LEMMA IdentityWord ==
    ASSUME NEW mac \in Word(6)
    PROVE  ClockIdentity(mac) \o <<0, 1>> \in Word(10) /\ ClockIdentity(mac) \o <<0, 2>> \in Word(10)
<1>1. ClockIdentity(mac) \in Word(8)
  BY ClockIdentityWord
<1>2. <<0, 1>> \in Word(2) /\ <<0, 2>> \in Word(2)
  <2>1. 0 \in Byte /\ 1 \in Byte /\ 2 \in Byte
    BY DEF Byte
  <2> QED BY <2>1, PairWord
<1> QED BY <1>1, <1>2, Piece

LEMMA RequestFields ==
    ASSUME IsRequest
    PROVE  /\ Pbuf(payload)
           /\ delayReq.sequenceID \in Word(2) /\ delayReq.sourcePortID = <<1, 0>>
           /\ Load(payload, 0, 5) = <<1, 2, 0, 44, 0>>
           /\ Load(payload, 6, 10) = Zeros(10)
           /\ Requestor(payload) = ClockIdentity(Mac) \o <<0, 1>>
           /\ Number(payload) = Reverse(delayReq.sequenceID)
           /\ Load(payload, 32, 12) = <<1, 127>> \o Zeros(10)
<1>1. PICK old \in Fillings, s \in SeqIds :
         /\ delayReq = DelayReqHeader(s)
         /\ payload = ptp_send_delay_req_message([at \in 0 .. 43 |-> old], s)
  BY DEF IsRequest
<1>2. old \in Byte /\ s \in Word(2) /\ Mac \in Word(6)
  BY WireAssumption, MacWord
<1>3. delayReq.sequenceID = s /\ delayReq.sourcePortID = <<1, 0>>
  BY <1>1, <1>2 DEF DelayReqHeader
<1> DEFINE q == payload
<1>4. /\ Pbuf(q)
      /\ Lies(q, 0, 4, <<1, 2>> \o <<0, 44>>) /\ Lies(q, 4, 1, <<0>>)
      /\ Lies(q, 6, 2, Zeros(2)) /\ Lies(q, 8, 8, Zeros(8))
      /\ Lies(q, 20, 8, ClockIdentity(Mac)) /\ Lies(q, 28, 2, <<0, 1>>)
      /\ Lies(q, 30, 2, Swap(s)) /\ Lies(q, 32, 2, <<1, 127>>)
      /\ Lies(q, 34, 6, Zeros(6)) /\ Lies(q, 40, 4, Zeros(4))
  BY <1>1, <1>2, RequestBytes
<1> HIDE DEF q
<1>5. \A n \in Nat : Zeros(n) \in Word(n)
  BY ZerosWord
<1>6. \A m, n, l \in Nat : l = m + n => Zeros(m) \o Zeros(n) = Zeros(l)
  BY ZerosTogether
<1>7. 0 \in Byte /\ 1 \in Byte /\ 2 \in Byte /\ 44 \in Byte /\ 127 \in Byte
  BY DEF Byte
<1>8. <<0, 1>> \in Word(2) /\ <<1, 127>> \in Word(2) /\ <<1, 2>> \in Word(2) /\ <<0, 44>> \in Word(2)
  BY <1>7, PairWord
<1>9. Load(q, 0, 5) = <<1, 2, 0, 44, 0>>
  <2> DEFINE v == <<1, 2>>
             w == <<0, 44>>
             c == v \o w
             x == <<1, 2, 0, 44, 0>>
  <2>1. /\ v[1] = 1 /\ v[2] = 2 /\ w[1] = 0 /\ w[2] = 44
        /\ x[1] = 1 /\ x[2] = 2 /\ x[3] = 0 /\ x[4] = 44 /\ x[5] = 0
    OBVIOUS
  <2>2. x \in Word(5)
    BY DEF Word, Byte
  <2>3. v \in Word(2) /\ w \in Word(2)
    BY <1>8
  <2> HIDE DEF v, w, x
  <2>4. Begins(c, 2, v) /\ Holds(c, 2, 2, w)
    BY <2>3, Piece
  <2>5. Lies(q, 0, 4, c)
    BY <1>4 DEF v, w
  <2> HIDE DEF c
  <2>6. c[1] = 1 /\ c[2] = 2 /\ c[3] = 0 /\ c[4] = 44
    <3>1. c[1] = 1 /\ c[2] = 2
      BY <2>1, <2>4 DEF Begins
    <3>2. c[2 + 1] = 0 /\ c[2 + 2] = 44
      BY <2>1, <2>4 DEF Holds
    <3> QED BY <3>1, <3>2
  <2>7. q[0] = 1 /\ q[1] = 2 /\ q[2] = 0 /\ q[3] = 44
    <3>1. q[0 + 1 - 1] = 1 /\ q[0 + 2 - 1] = 2 /\ q[0 + 3 - 1] = 0 /\ q[0 + 4 - 1] = 44
      BY <2>5, <2>6 DEF Lies
    <3> QED BY <3>1
  <2>8. q[4] = 0
    <3>1. q[4 + 1 - 1] = <<0>>[1]
      BY <1>4 DEF Lies
    <3> QED BY <3>1
  <2>9. Lies(q, 0, 5, x)
    BY <2>1, <2>7, <2>8 DEF Lies
  <2>10. Load(q, 0, 5) = x
    BY <2>2, <2>9, LoadsLying
  <2> QED BY <2>10 DEF x
<1>10. Load(q, 6, 10) = Zeros(10)
  <2>1. Lies(q, 6, 10, Zeros(2) \o Zeros(8))
    BY <1>4, <1>5, LieTogether
  <2>2. Zeros(2) \o Zeros(8) = Zeros(10)
    <3>1. 10 = 2 + 8
      OBVIOUS
    <3> QED BY <3>1, <1>6
  <2>3. Lies(q, 6, 10, Zeros(10)) /\ Zeros(10) \in Word(10)
    BY <1>5, <2>1, <2>2
  <2> QED BY <2>3, LoadsLying
<1>11. Requestor(q) = ClockIdentity(Mac) \o <<0, 1>>
  <2> DEFINE id == ClockIdentity(Mac)
             port == <<0, 1>>
             c == id \o port
  <2>1. id \in Word(8) /\ Lies(q, 20, 8, id) /\ port \in Word(2) /\ Lies(q, 28, 2, port)
    BY <1>2, <1>4, <1>8, ClockIdentityWord
  <2> HIDE DEF id, port
  <2>2. Lies(q, 20, 10, c) /\ c \in Word(10)
    BY <2>1, LieTogether
  <2> HIDE DEF c
  <2>3. Load(q, 20, 10) = c
    BY <2>2, LoadsLying
  <2> QED BY <2>3 DEF Requestor, c, id, port
<1>12. Number(q) = Reverse(s)
  <2>1. Swap(s) \in Word(2) /\ Swap(s) = Reverse(s) /\ Lies(q, 30, 2, Swap(s))
    BY <1>2, <1>4, SwapWord
  <2>2. Load(q, 30, 2) = Swap(s)
    BY <2>1, LoadsLying
  <2> QED BY <2>1, <2>2 DEF Number
<1>13. Load(q, 32, 12) = <<1, 127>> \o Zeros(10)
  <2> DEFINE v == <<1, 127>>
             c == v \o Zeros(10)
  <2>1. v \in Word(2) /\ Lies(q, 32, 2, v)
    BY <1>4, <1>8
  <2> HIDE DEF v
  <2>2. Lies(q, 34, 10, Zeros(6) \o Zeros(4))
    BY <1>4, <1>5, LieTogether
  <2>3. Zeros(6) \o Zeros(4) = Zeros(10)
    <3>1. 10 = 6 + 4
      OBVIOUS
    <3> QED BY <3>1, <1>6
  <2>4. Lies(q, 34, 10, Zeros(10)) /\ Zeros(10) \in Word(10)
    BY <1>5, <2>2, <2>3
  <2>5. Lies(q, 32, 12, c) /\ c \in Word(12)
    BY <2>1, <2>4, LieTogether
  <2> HIDE DEF c
  <2>6. Load(q, 32, 12) = c
    BY <2>5, LoadsLying
  <2> QED BY <2>6 DEF c, v
<1> QED BY <1>2, <1>3, <1>4, <1>9, <1>10, <1>11, <1>12, <1>13 DEF q

\* The identity and the port returned in a message, against those of the Delay_Req.
LEMMA RequestorOurs ==
    ASSUME NEW p, NEW r \in Word(10), Load(p, 44, 10) = r, NEW id \in Word(8),
           \A at \in 0 .. 53 : p[at] \in Byte
    PROVE  (Load(p, 44, 8) = id /\ Swap(Load(p, 52, 2)) = <<1, 0>>) <=> r = id \o <<0, 1>>
<1> DEFINE port == <<0, 1>>
           c == id \o port
<1>0. 0 \in Byte /\ 1 \in Byte
  BY DEF Byte
<1>1. port \in Word(2) /\ Swap(port) = <<1, 0>> /\ Swap(<<1, 0>>) = port
  BY <1>0, PairWord, Swap2
<1> HIDE DEF port
<1>2. c \in Word(10) /\ Begins(c, 8, id) /\ Holds(c, 8, 2, port)
  BY <1>1, Piece
<1> HIDE DEF c
<1>3. ASSUME r = c PROVE Load(p, 44, 8) = id /\ Load(p, 52, 2) = port
  <2>1. \A k \in 1 .. 10 : p[44 + k - 1] = c[k]
    <3>1. \A k \in 1 .. 10 : Load(p, 44, 10)[k] = p[44 + k - 1]
      BY DEF Load
    <3> QED BY <3>1, <1>3
  <2>2. \A k \in 1 .. 8 : p[44 + k - 1] = id[k]
    BY <2>1, <1>2 DEF Begins
  <2>3. \A k \in 1 .. 2 : p[52 + k - 1] = port[k]
    <3>1. SUFFICES ASSUME NEW k \in 1 .. 2 PROVE p[52 + k - 1] = port[k]
      OBVIOUS
    <3>2. 8 + k \in 1 .. 10 /\ 44 + (8 + k) - 1 = 52 + k - 1
      OBVIOUS
    <3>3. p[44 + (8 + k) - 1] = c[8 + k] /\ c[8 + k] = port[k]
      BY <2>1, <3>2, <1>2 DEF Holds
    <3> QED BY <3>2, <3>3
  <2>4. Lies(p, 44, 8, id) /\ Lies(p, 52, 2, port)
    BY <2>2, <2>3 DEF Lies
  <2> QED BY <1>1, <2>4, LoadsLying
<1>4. ASSUME Load(p, 44, 8) = id, Swap(Load(p, 52, 2)) = <<1, 0>> PROVE r = c
  <2> DEFINE l == Load(p, 52, 2)
  <2>1. /\ l = [k \in 1 .. 2 |-> l[k]]
        /\ \A k \in 1 .. 2 : l[k] = p[52 + k - 1]
    BY DEF Load
  <2>2. \A k \in 1 .. 2 : 52 + k - 1 \in 0 .. 53
    OBVIOUS
  <2> HIDE DEF l
  <2>3. \A k \in 1 .. 2 : l[k] \in Byte
    BY <2>1, <2>2
  <2>4. l \in Word(2)
    BY <2>1, <2>3, IsWord
  <2>5. l = port
    <3>1. Swap(l) = <<1, 0>>
      BY <1>4 DEF l
    <3>2. Swap(Swap(l)) = l
      BY <2>4, SwapTwice
    <3> QED BY <1>1, <3>1, <3>2
  <2>6. Lies(p, 44, 8, id)
    <3>1. \A k \in 1 .. 8 : Load(p, 44, 8)[k] = p[44 + k - 1]
      BY DEF Load
    <3> QED BY <3>1, <1>4 DEF Lies
  <2>7. Lies(p, 52, 2, port)
    BY <2>1, <2>5 DEF Lies
  <2>8. Lies(p, 44, 10, c)
    <3>1. Lies(p, 44, 10, id \o port)
      BY <1>1, <2>6, <2>7, LieTogether
    <3> QED BY <3>1 DEF c
  <2>9. Load(p, 44, 10) = c
    BY <1>2, <2>8, LoadsLying
  <2> QED BY <2>9
<1> QED BY <1>1, <1>3, <1>4 DEF c, port

\* A message of Answer is one of the standard.
LEMMA AnswerIsMessage ==
    ASSUME IsRequest,
           NEW type \in Types, NEW transport \in {0, 1}, NEW time \in Times, NEW ns \in Residences,
           NEW requestor \in {Requestor(payload), ClockIdentity(Mac) \o <<0, 2>>}
                             \cup {ClockIdentity(mac) \o <<0, 1>> : mac \in OtherMacs},
           NEW number \in {Number(payload)} \cup {Reverse(s) : s \in SeqIds},
           NEW flags \in FlagFields
    PROVE  IsMessage([messageID |-> type, transportSpecific |-> transport, flags |-> flags,
                      correction |-> ns, clockIdentity |-> Master, time |-> time,
                      sequenceID |-> number, requestor |-> requestor])
<1>1. type \in 0 .. 15 /\ time.sec \in Word(6) /\ time.nanosec \in Word(4)
  BY WireAssumption
<1>2. flags \in Word(2)
  BY WireAssumption
<1>3. Master \in Word(8)
  <2>1. PICK mac : mac = (CHOOSE m \in OtherMacs : TRUE)
    OBVIOUS
  <2>2. mac \in OtherMacs
    BY <2>1, WireAssumption
  <2>3. ClockIdentity(mac) \in Word(8)
    BY <2>2, MacWord, ClockIdentityWord
  <2> QED BY <2>1, <2>3 DEF Master
<1>4. requestor \in Word(10)
  <2>1. Requestor(payload) = ClockIdentity(Mac) \o <<0, 1>>
    BY RequestFields
  <2> QED BY <2>1, MacWord, IdentityWord
<1>5. number \in Word(2)
  <2>1. \A w \in Word(2) : Reverse(w) \in Word(2)
    BY SwapWord
  <2>2. Number(payload) = Reverse(delayReq.sequenceID) /\ delayReq.sequenceID \in Word(2)
    BY RequestFields
  <2>3. \A s \in SeqIds : s \in Word(2)
    BY WireAssumption
  <2> QED BY <2>1, <2>2, <2>3
<1> DEFINE m == [messageID |-> type, transportSpecific |-> transport, flags |-> flags,
                 correction |-> ns, clockIdentity |-> Master, time |-> time,
                 sequenceID |-> number, requestor |-> requestor]
<1>6. m # Nothing
  BY DEF Nothing
<1>7. /\ m.messageID = type /\ m.transportSpecific = transport /\ m.flags = flags
      /\ m.correction = ns /\ m.clockIdentity = Master /\ m.time = time
      /\ m.sequenceID = number /\ m.requestor = requestor
  OBVIOUS
<1> HIDE DEF m
<1>8. IsMessage(m)
  BY <1>1, <1>2, <1>3, <1>4, <1>5, <1>6, <1>7 DEF IsMessage
<1> QED BY <1>8 DEF m

\* A message is processed only while a Delay_Req waits for its answer.
LEMMA AnswerReceives ==
    ASSUME IsRequest \/ IsRead, Answer
    PROVE  IsRequest /\ \E m : IsMessage(m) /\ Receive(m)
<1>1. IsRequest
  BY DEF Answer, IsRead, IsMessage
<1>2. PICK type \in Types, transport \in {0, 1}, time \in Times, ns \in Residences,
           requestor \in {Requestor(payload), ClockIdentity(Mac) \o <<0, 2>>}
                           \cup {ClockIdentity(mac) \o <<0, 1>> : mac \in OtherMacs},
           number \in {Number(payload)} \cup {Reverse(s) : s \in SeqIds},
           flags \in FlagFields :
             Receive([messageID |-> type, transportSpecific |-> transport, flags |-> flags,
                      correction |-> ns, clockIdentity |-> Master, time |-> time,
                      sequenceID |-> number, requestor |-> requestor])
  BY DEF Answer
<1>3. IsMessage([messageID |-> type, transportSpecific |-> transport, flags |-> flags,
                 correction |-> ns, clockIdentity |-> Master, time |-> time,
                 sequenceID |-> number, requestor |-> requestor])
  BY <1>1, <1>2, AnswerIsMessage
<1> QED BY <1>1, <1>2, <1>3

-----------------------------------------------------------------------------
(***************************************************************************)
(* The invariant and what follows from it.                                 *)
(***************************************************************************)
LEMMA ShapeInit == Init => IsRequest
BY DEF Init, IsRequest

LEMMA ShapeStep == (IsRequest \/ IsRead) /\ [Next]_wireVars => (IsRequest \/ IsRead)'
<1> SUFFICES ASSUME IsRequest \/ IsRead, [Next]_wireVars PROVE (IsRequest \/ IsRead)'
  OBVIOUS
<1>1. CASE \E old \in Fillings, s \in SeqIds : SendDelayReq(old, s)
  BY <1>1 DEF SendDelayReq, IsRequest
<1>2. CASE Answer
  <2>1. PICK m : IsMessage(m) /\ Receive(m)
    BY <1>2, AnswerReceives
  <2>2. /\ message' = m /\ payload' = Packet(m) /\ header' = ptp_extract_header(payload')
        /\ \/ accepted' = Nothing
           \/ accepted' = [taken |-> TRUE, time |-> ptp_extract_timestamps(payload'),
                           nanosec |-> Signed(header'.correction_ns)]
    BY <2>1 DEF Receive
  <2> QED BY <2>1, <2>2 DEF IsRead
<1>3. CASE UNCHANGED wireVars
  BY <1>3 DEF wireVars, IsRequest, IsRead
<1> QED BY <1>1, <1>2, <1>3 DEF Next

LEMMA Shape == Spec => [](IsRequest \/ IsRead)
BY ShapeInit, ShapeStep, PTL DEF Spec

\* What a message was read as.
LEMMA ReadFields ==
    ASSUME IsRead
    PROVE  /\ DOMAIN payload = 0 .. 53 /\ \A at \in 0 .. 53 : payload[at] \in Byte
           /\ header.messageID \in 0 .. 15 /\ header.sequenceID \in Word(2)
           /\ header.sequenceID = Reverse(message.sequenceID)
           /\ header.clockIdentity = message.clockIdentity
           /\ header.flags = MeantFlags(message.flags)
<1> DEFINE m == message
<1>1. IsMessage(m) /\ payload = Packet(m) /\ header = ptp_extract_header(Packet(m))
  BY DEF IsRead
<1>2. m.correction \in Int /\ m.messageID \in 0 .. 15
  BY <1>1, WireAssumption DEF IsMessage
<1> HIDE DEF m
<1>3. /\ header.messageID = m.messageID
      /\ header.sequenceID = Reverse(m.sequenceID) /\ header.sequenceID \in Word(2)
      /\ header.clockIdentity = m.clockIdentity
      /\ header.flags = MeantFlags(m.flags)
  BY <1>1, <1>2, HeaderBytes
<1>4. DOMAIN payload = 0 .. 53 /\ \A at \in 0 .. 53 : payload[at] \in Byte
  BY <1>1, <1>2, PacketBytes
<1> QED BY <1>2, <1>3, <1>4 DEF m

LEMMA ReadValues ==
    ASSUME IsRead, accepted.taken
    PROVE  /\ accepted.time = [sec |-> Reverse(message.time.sec) \o Zeros(2),
                               nanosec |-> Reverse(message.time.nanosec)]
           /\ accepted.time.sec \in Word(8)
           /\ accepted.nanosec \in Int
           /\ FitsInt32(message.correction) => accepted.nanosec = message.correction
<1>1. /\ IsMessage(message) /\ payload = Packet(message)
      /\ header = ptp_extract_header(Packet(message))
  BY DEF IsRead
<1>2. accepted = [taken |-> TRUE, time |-> ptp_extract_timestamps(payload),
                  nanosec |-> Signed(header.correction_ns)]
  BY DEF IsRead, Nothing
<1> DEFINE m == message
           p == payload
           time == ptp_extract_timestamps(p)
           ns == Signed(header.correction_ns)
<1>3. accepted.time = time /\ accepted.nanosec = ns
  BY <1>2
<1>4. m.correction \in Int /\ m.time.sec \in Word(6) /\ m.time.nanosec \in Word(4)
  BY <1>1, WireAssumption DEF IsMessage
<1>5. header.correction_ns = CorrectionNs(Packet(m))
  BY <1>1, <1>4, HeaderBytes
<1>6. /\ Load(p, 34, 6) = m.time.sec /\ Load(p, 40, 4) = m.time.nanosec
      /\ Load(p, 8, 8) = Signed48(m.correction) \o <<128, 0>>
  BY <1>1, <1>4, PacketBytes
<1>7. time = [sec |-> Seconds(p), nanosec |-> Swap(Load(p, 40, 4))]
  BY DEF ptp_extract_timestamps
<1>8. ns = Signed(CorrectionNs(p))
  BY <1>1, <1>5
<1> HIDE DEF m, p, time, ns
<1>9. Seconds(p) = Reverse(m.time.sec) \o Zeros(2) /\ Seconds(p) \in Word(8)
  BY <1>4, <1>6, SecondsWord
<1>10. Swap(Load(p, 40, 4)) = Reverse(m.time.nanosec)
  BY <1>4, <1>6, SwapWord
<1>11. /\ time = [sec |-> Reverse(m.time.sec) \o Zeros(2), nanosec |-> Reverse(m.time.nanosec)]
       /\ time.sec \in Word(8)
  BY <1>7, <1>9, <1>10
<1>12. HoldsCorrection(p, m.correction)
  BY <1>6 DEF HoldsCorrection
<1>13. ns \in Int /\ (FitsInt32(m.correction) => ns = m.correction)
  BY <1>4, <1>8, <1>12, CorrectionSigned
<1> QED BY <1>3, <1>11, <1>13 DEF m

LEMMA WireFollows == IsRequest \/ IsRead => WireInv /\ FieldsAreStandard /\ HeaderIsRead /\ TimeIsRead
<1>1. CASE IsRequest
  <2>1. message = Nothing /\ header = Nothing /\ accepted = Nothing /\ ~accepted.taken
    BY <1>1 DEF IsRequest, Nothing
  <2>2. TypeOK
    BY <1>1, <2>1, RequestFields DEF TypeOK, Pbuf
  <2>3. FieldsAreStandard
    <3>1. Requestor(payload) = SubSeq(Mac, 1, 3) \o <<255, 254>> \o SubSeq(Mac, 4, 6) \o <<0, 1>>
      BY <1>1, RequestFields DEF ClockIdentity
    <3> QED BY <1>1, <3>1, RequestFields DEF FieldsAreStandard
  <2> QED BY <1>1, <2>1, <2>2, <2>3 DEF WireInv, HeaderIsRead, TimeIsRead
<1>2. CASE IsRead
  <2>1. message # Nothing
    BY <1>2 DEF IsRead, IsMessage
  <2>2. TypeOK
    BY <1>2, <2>1, ReadFields, ReadValues DEF TypeOK
  <2>3. HeaderIsRead
    BY <1>2, ReadFields DEF HeaderIsRead
  <2>4. TimeIsRead
    BY <1>2, ReadValues DEF TimeIsRead
  <2> QED BY <1>2, <2>1, <2>2, <2>3, <2>4 DEF WireInv, FieldsAreStandard
<1> QED BY <1>1, <1>2

\* The codec is type-correct; inductively, what the pbuf holds is a Delay_Req of this
\* slave in old data, or a message of another with what was read of it.
THEOREM WireInvariant == Spec => []WireInv
BY Shape, WireFollows, PTL

\* ptp_send_delay_req_message() puts the standard's value into every octet that carries
\* a field of the Delay_Req, whatever the pbuf held before and for every hardware address
\* and sequence identifier; the five reserved octets keep what the pbuf held.
THEOREM FieldsStandard == Spec => []FieldsAreStandard
BY Shape, WireFollows, PTL

\* ptp_extract_header() reads identifiers and flags where the standard has them.
THEOREM HeaderRead == Spec => []HeaderIsRead
BY Shape, WireFollows, PTL

\* ptp_extract_timestamps() reads every 48-bit and 32-bit number as it was meant.
THEOREM TimeRead == Spec => []TimeIsRead
BY Shape, WireFollows, PTL

\* What ptp_process_packet() assumes of the network: residence times of an int32_t.
ShortResidences == \A ns \in Residences : FitsInt32(ns)

LEMMA CorrectionFollows ==
    ASSUME ShortResidences
    PROVE  IsRequest \/ IsRead => CorrectionIsRead
<1>1. CASE IsRequest
  BY <1>1 DEF IsRequest, Nothing, CorrectionIsRead
<1>2. CASE IsRead
  <2>1. FitsInt32(message.correction)
    BY <1>2 DEF IsRead, IsMessage, ShortResidences
  <2> QED BY <1>2, <2>1, ReadValues DEF CorrectionIsRead
<1> QED BY <1>1, <1>2

\* Every residence time that fits the int32_t it is read into is read with its sign.
THEOREM CorrectionRead == ASSUME ShortResidences PROVE Spec => []CorrectionIsRead
BY Shape, CorrectionFollows, PTL

LEMMA AnswerTaken ==
    ASSUME IsRequest \/ IsRead, Answer
    PROVE  accepted'.taken = (/\ message'.messageID = 9
                              /\ message'.requestor = Requestor(payload)
                              /\ message'.sequenceID = Number(payload))
<1>1. IsRequest
  BY AnswerReceives
<1>2. PICK m : IsMessage(m) /\ Receive(m)
  BY AnswerReceives
<1> DEFINE p == Packet(m)
           h == ptp_extract_header(p)
           id == ClockIdentity(Mac)
           number == delayReq.sequenceID
           ours == IsOurs(p)
<1>3. /\ message' = m /\ payload' = p /\ header' = h
      /\ accepted' = IF h.messageID = 9 /\ h.sequenceID = number /\ ours
                     THEN [taken |-> TRUE, time |-> ptp_extract_timestamps(p),
                           nanosec |-> Signed(h.correction_ns)]
                     ELSE Nothing
  BY <1>2 DEF Receive
<1>4. m.correction \in Int /\ m.sequenceID \in Word(2) /\ m.requestor \in Word(10)
  BY <1>2, WireAssumption DEF IsMessage
<1>5. /\ number \in Word(2) /\ delayReq.sourcePortID = <<1, 0>>
      /\ Requestor(payload) = id \o <<0, 1>> /\ Number(payload) = Reverse(number)
  BY <1>1, RequestFields
<1>6. h.messageID = m.messageID /\ h.sequenceID = Reverse(m.sequenceID)
  BY <1>2, <1>4, HeaderBytes
<1>7. Load(p, 44, 10) = m.requestor /\ \A at \in 0 .. 53 : p[at] \in Byte
  BY <1>2, <1>4, PacketBytes
<1>8. ours <=> (Load(p, 44, 8) = id /\ Swap(Load(p, 52, 2)) = <<1, 0>>)
  BY <1>5 DEF IsOurs, ptp_read_delay_resp_id_data
<1>9. id \in Word(8)
  BY MacWord, ClockIdentityWord
<1> HIDE DEF h, p, id, ours, number
<1>10. ours <=> m.requestor = id \o <<0, 1>>
  BY <1>4, <1>7, <1>8, <1>9, RequestorOurs
<1>11. h.sequenceID = number <=> m.sequenceID = Reverse(number)
  <2>1. Reverse(Reverse(m.sequenceID)) = m.sequenceID /\ Reverse(Reverse(number)) = number
    BY <1>4, <1>5, SwapTwice DEF Swap
  <2> QED BY <1>6, <2>1
<1>12. accepted'.taken = (h.messageID = 9 /\ h.sequenceID = number /\ ours)
  <2>1. CASE h.messageID = 9 /\ h.sequenceID = number /\ ours
    BY <1>3, <2>1
  <2>2. CASE ~(h.messageID = 9 /\ h.sequenceID = number /\ ours)
    BY <1>3, <2>2 DEF Nothing
  <2> QED BY <2>1, <2>2
<1> QED BY <1>3, <1>5, <1>6, <1>10, <1>11, <1>12

\* "if sent to us as a response to our Delay_Req": of all messages of the network the
\* slave takes exactly those that return identity, port and number of its Delay_Req.
THEOREM OnlyOwnTaken == Spec => OwnAnswerTaken
<1>1. (IsRequest \/ IsRead) /\ [Next]_wireVars =>
         [ message = Nothing /\ message' # Nothing =>
             accepted'.taken = (/\ message'.messageID = 9
                                /\ message'.requestor = Requestor(payload)
                                /\ message'.sequenceID = Number(payload)) ]_wireVars
  <2> SUFFICES ASSUME IsRequest \/ IsRead, Next, message' # Nothing
               PROVE  accepted'.taken = (/\ message'.messageID = 9
                                         /\ message'.requestor = Requestor(payload)
                                         /\ message'.sequenceID = Number(payload))
    OBVIOUS
  <2>1. Answer
    BY DEF Next, SendDelayReq
  <2> QED BY <2>1, AnswerTaken
<1> QED BY <1>1, Shape, PTL DEF Spec, OwnAnswerTaken
=============================================================================
