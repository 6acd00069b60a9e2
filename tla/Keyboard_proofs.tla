--------------------------- MODULE Keyboard_proofs ---------------------------
(***************************************************************************)
(* The receiver keeps its place in the stream of bytes, the OSD never sees *)
(* a key that was let go, and the matrix follows the keys, for every set   *)
(* of keys and every way a command may cut into the stream.                *)
(***************************************************************************)
EXTENDS Keyboard, SequenceTheorems, FiniteSetTheorems, WellFoundedInduction, TLAPS

Bit == {0, 1}

\* Every variable has its type.
Typed ==
  /\ held \subseteq Keys
  /\ out \in Seq(Byte) /\ sent \in 0..10
  /\ expects \in {"command", "option"} /\ lamps \in 0..7
  /\ shiftreg \in Seq(Bit) /\ Len(shiftreg) <= 10 /\ (shiftreg # <<>> => shiftreg[1] = 0)
  /\ qreg \in Byte /\ q \in Byte /\ dsr \in BOOLEAN
  /\ tx \in {"idle", "delay", "request"} /\ txd \in Byte
  /\ state \in 0..30
  /\ keymatrix \subseteq Matrix \cup ({8} \X (0..5))
  /\ key_osd \subseteq OsdKeys /\ key_jcuken \in BOOLEAN
  /\ led_rus \in Bit
  /\ o_osd \in BOOLEAN /\ key_osd_x \in BOOLEAN /\ garbled \in BOOLEAN

-----------------------------------------------------------------------------
(* The bytes under way.                                                    *)

\* A byte in front of a stream.
Ahead(x, t) == <<x>> \o t
\* What is to come, the byte in the receiver first.
Coming == IF dsr THEN Ahead(qreg, out) ELSE out
\* With it what the decoder has taken of a code: in state st, x taken and t to come.
StreamOf(st, x, t) ==
  CASE st \in {4, 5, 25, 30} -> Ahead(x, t)
    [] st \in {6, 7}   -> Ahead(\hF0, t)
    [] st \in {8, 9}   -> Ahead(\hF0, Ahead(x, t))
    [] st \in {10, 11} -> Ahead(\hE0, t)
    [] st \in {12, 13} -> Ahead(\hE0, Ahead(x, t))
    [] st \in {14, 15} -> Ahead(\hE0, Ahead(\hF0, t))
    [] st \in {16, 17} -> Ahead(\hE0, Ahead(\hF0, Ahead(x, t)))
    [] OTHER -> t
Stream == StreamOf(state, q, Coming)

\* The stream is cut, or will be when the delay of ps2tx ends.
Lost == garbled \/ (tx = "delay" /\ shiftreg # <<>>)

\* When there is a byte in the receiver, and when ps2tx is at work.
Handshake ==
  /\ dsr => state \in {2, 3, 6, 7, 10, 11, 14, 15, 23, 24, 28, 29}
  /\ rden => dsr
  /\ tx # "idle" => state \in {20, 23, 28} /\ ~dsr
  /\ state = 5 => q \notin {\hE0, \hF0}
  /\ state = 13 => q # \hF0

\* The receiver has the bits that the keyboard has sent, and the keyboard repeats
\* the bits of a byte that no one was looking at.
InPlace ==
  ~Lost =>
    /\ tx = "idle" => IF sent = 0 THEN shiftreg = <<>>
                      ELSE out # <<>> /\ shiftreg = SubSeq(Frame[Head(out)], 1, sent)
    /\ tx # "idle" => shiftreg = <<>> /\ sent <= DELAY_BITS
    /\ tx = "request" => sent = 0

\* The answer to a command is the next byte.
Answered ==
  ~Lost =>
    /\ state \in {23, 24, 28, 29} /\ tx = "idle" => Coming # <<>> /\ Coming[1] = \hFA
    /\ state \in {25, 30} => q = \hFA

\* A break prefix has something behind it.
Tidy(s) == \A i \in 1..Len(s) : s[i] = \hF0 => i < Len(s) /\ s[i + 1] # \hF0
BreakIsLast(s, c) ==
  \E i \in 2..Len(s) : s[i] = c /\ s[i - 1] = \hF0 /\ \A j \in (i + 1)..Len(s) : s[j] # c
NotIn(s, c) == \A i \in 1..Len(s) : s[i] # c

\* In stream s a key of the OSD that is not among the held keys h is up, or will be
\* when the stream is through.
UpIn(s, osd, c) == BreakIsLast(s, c) \/ (NotIn(s, c) /\ c \notin osd)
Safe(s, osd, h) ==
  Tidy(s) /\ \A c \in OsdKeys : (\A k \in h : k.code # c) => UpIn(s, osd, c)

GoingUp == ~Lost => Safe(Stream, key_osd, held)

KbInv == Typed /\ Handshake /\ InPlace /\ Answered /\ GoingUp

-----------------------------------------------------------------------------
(* Sequences.                                                              *)

LEMMA SameRange == ASSUME NEW m \in Nat, NEW n \in Nat, 1..m = 1..n PROVE m = n
<1>1. CASE m < n
  <2>1. n \in 1..n /\ n \notin 1..m
    BY <1>1
  <2> QED BY <2>1
<1>2. CASE n < m
  <2>1. m \in 1..m /\ m \notin 1..n
    BY <1>2
  <2> QED BY <2>1
<1> QED BY <1>1, <1>2

LEMMA SeqOf ==
  ASSUME NEW S, NEW n \in Nat, NEW s \in [1..n -> S]
  PROVE  s \in Seq(S) /\ Len(s) = n
<1>1. s \in Seq(S)
  BY SeqDef
<1>2. Len(s) \in Nat /\ 1..Len(s) = 1..n
  BY <1>1
<1> QED BY <1>1, <1>2, SameRange

LEMMA Joined ==
  ASSUME NEW S, NEW s \in Seq(S), NEW t \in Seq(S)
  PROVE  /\ s \o t \in Seq(S) /\ Len(s \o t) = Len(s) + Len(t)
         /\ Len(s) \in Nat /\ Len(t) \in Nat
         /\ \A i \in 1..Len(s) : (s \o t)[i] = s[i]
         /\ \A i \in 1..Len(t) : (s \o t)[Len(s) + i] = t[i]
OBVIOUS

LEMMA Before ==
  ASSUME NEW S, NEW x \in S, NEW s \in Seq(S)
  PROVE  /\ <<x>> \o s \in Seq(S) /\ Len(<<x>> \o s) = Len(s) + 1 /\ (<<x>> \o s)[1] = x
         /\ \A i \in 1..Len(s) : (<<x>> \o s)[i + 1] = s[i]
OBVIOUS

LEMMA Behind ==
  ASSUME NEW S, NEW x \in S, NEW s \in Seq(S)
  PROVE  /\ Append(s, x) \in Seq(S) /\ Len(Append(s, x)) = Len(s) + 1
         /\ Append(s, x)[Len(s) + 1] = x /\ \A i \in 1..Len(s) : Append(s, x)[i] = s[i]
OBVIOUS

LEMMA Piece ==
  ASSUME NEW S, NEW s \in Seq(S), NEW m \in 1..Len(s), NEW n \in m..Len(s)
  PROVE  /\ SubSeq(s, m, n) \in Seq(S) /\ Len(SubSeq(s, m, n)) = n - m + 1
         /\ \A i \in 1..(n - m + 1) : SubSeq(s, m, n)[i] = s[m + i - 1]
OBVIOUS

-----------------------------------------------------------------------------
(* Bits and frames.                                                        *)

LEMMA WeightIs ==
  /\ Weight[1] = 1 /\ Weight[2] = 2 /\ Weight[3] = 4 /\ Weight[4] = 8
  /\ Weight[5] = 16 /\ Weight[6] = 32 /\ Weight[7] = 64 /\ Weight[8] = 128
BY DEF Weight

\* A byte has eight bits.
LEMMA BitsTyped == \A b \in Byte : Bits[b] \in [1..8 -> Bit]
<1> SUFFICES ASSUME NEW b \in Byte, NEW i \in 1..8 PROVE (b \div Weight[i]) % 2 \in Bit
  BY DEF Bits
<1>1. i \in {1, 2, 3, 4, 5, 6, 7, 8}
  OBVIOUS
<1> QED BY <1>1, WeightIs DEF Byte, Bit

\* Halving drops the last bit.
LEMMA Halving ==
  ASSUME NEW b \in Byte
  PROVE  /\ b \div 4 = (b \div 2) \div 2 /\ b \div 8 = (b \div 4) \div 2
         /\ b \div 16 = (b \div 8) \div 2 /\ b \div 32 = (b \div 16) \div 2
         /\ b \div 64 = (b \div 32) \div 2 /\ b \div 128 = (b \div 64) \div 2
<1> b \in Int
  BY DEF Byte
<1>1. b \div 4 = (b \div 2) \div 2
  BY SMTT(20)
<1>2. b \div 8 = (b \div 4) \div 2
  BY SMTT(20)
<1>3. b \div 16 = (b \div 8) \div 2
  BY SMTT(20)
<1>4. b \div 32 = (b \div 16) \div 2
  BY SMTT(20)
<1>5. b \div 64 = (b \div 32) \div 2
  BY SMTT(20)
<1>6. b \div 128 = (b \div 64) \div 2
  BY SMTT(20)
<1> QED BY <1>1, <1>2, <1>3, <1>4, <1>5, <1>6

LEMMA LastBit ==
  ASSUME NEW a \in Nat
  PROVE  a = 2 * (a \div 2) + (a % 2)
OBVIOUS

\* The bits of a byte, weighed, are the byte.
LEMMA Rebuilt ==
  ASSUME NEW b \in Byte
  PROVE  b = Bits[b][1] + 2 * Bits[b][2] + 4 * Bits[b][3] + 8 * Bits[b][4] + 16 * Bits[b][5]
             + 32 * Bits[b][6] + 64 * Bits[b][7] + 128 * Bits[b][8]
<1> DEFINE d2 == b \div 2  d4 == b \div 4  d8 == b \div 8  d16 == b \div 16
           d32 == b \div 32  d64 == b \div 64  d128 == b \div 128
<1>1. /\ Bits[b][1] = b % 2 /\ Bits[b][2] = d2 % 2 /\ Bits[b][3] = d4 % 2 /\ Bits[b][4] = d8 % 2
      /\ Bits[b][5] = d16 % 2 /\ Bits[b][6] = d32 % 2 /\ Bits[b][7] = d64 % 2
      /\ Bits[b][8] = d128 % 2
  <2>1. \A i \in 1..8 : Bits[b][i] = (b \div Weight[i]) % 2
    BY DEF Bits
  <2>2. b \div 1 = b
    BY DEF Byte
  <2> QED BY <2>1, <2>2, WeightIs
<1>2. /\ d4 = d2 \div 2 /\ d8 = d4 \div 2 /\ d16 = d8 \div 2 /\ d32 = d16 \div 2
      /\ d64 = d32 \div 2 /\ d128 = d64 \div 2
  BY Halving DEF Byte
<1>3. /\ b = 2 * d2 + (b % 2) /\ d2 = 2 * d4 + (d2 % 2) /\ d4 = 2 * d8 + (d4 % 2)
      /\ d8 = 2 * d16 + (d8 % 2) /\ d16 = 2 * d32 + (d16 % 2) /\ d32 = 2 * d64 + (d32 % 2)
      /\ d64 = 2 * d128 + (d64 % 2)
  <2>1. b \in Nat /\ d2 \in Nat /\ d4 \in Nat /\ d8 \in Nat /\ d16 \in Nat /\ d32 \in Nat /\ d64 \in Nat
    BY DEF Byte
  <2> HIDE DEF d2, d4, d8, d16, d32, d64, d128
  <2>2. b \div 2 = d2
    BY DEF d2
  <2> QED BY <1>2, <2>1, <2>2, LastBit
<1>4. d128 \in {0, 1}
  BY DEF Byte
<1>5. d128 = d128 % 2
  BY <1>4
<1>6. /\ d2 \in Int /\ d4 \in Int /\ d8 \in Int /\ d16 \in Int /\ d32 \in Int /\ d64 \in Int
      /\ d128 \in Int /\ b \in Int
      /\ b % 2 \in Int /\ d2 % 2 \in Int /\ d4 % 2 \in Int /\ d8 % 2 \in Int /\ d16 % 2 \in Int
      /\ d32 % 2 \in Int /\ d64 % 2 \in Int /\ d128 % 2 \in Int
  BY DEF Byte
<1> DEFINE x1 == b % 2  x2 == d2 % 2  x3 == d4 % 2  x4 == d8 % 2  x5 == d16 % 2
           x6 == d32 % 2  x7 == d64 % 2
<1>7. b = x1 + 2 * x2 + 4 * x3 + 8 * x4 + 16 * x5 + 32 * x6 + 64 * x7 + 128 * d128
  <2>1. /\ b = 2 * d2 + x1 /\ d2 = 2 * d4 + x2 /\ d4 = 2 * d8 + x3 /\ d8 = 2 * d16 + x4
        /\ d16 = 2 * d32 + x5 /\ d32 = 2 * d64 + x6 /\ d64 = 2 * d128 + x7
    BY <1>3
  <2>2. /\ d2 \in Int /\ d4 \in Int /\ d8 \in Int /\ d16 \in Int /\ d32 \in Int /\ d64 \in Int
        /\ d128 \in Int /\ b \in Int /\ x1 \in Int /\ x2 \in Int /\ x3 \in Int /\ x4 \in Int
        /\ x5 \in Int /\ x6 \in Int /\ x7 \in Int
    BY <1>6
  <2> HIDE DEF d2, d4, d8, d16, d32, d64, d128, x1, x2, x3, x4, x5, x6, x7
  <2> QED BY <2>1, <2>2
<1>8. b = x1 + 2 * x2 + 4 * x3 + 8 * x4 + 16 * x5 + 32 * x6 + 64 * x7 + 128 * (d128 % 2)
  BY <1>5, <1>7, Zenon
<1> QED BY <1>1, <1>8, Zenon

\* The ones of a sequence that gets one more element.
LEMMA OnesAppend ==
  ASSUME NEW s \in Seq(Bit), NEW x \in Bit
  PROVE  Ones(Append(s, x)) = Ones(s) + x /\ Ones(s) \in Nat
<1> DEFINE n == Len(s)  t == Append(s, x)
           S == {i \in DOMAIN s : s[i] = 1}  T == {i \in DOMAIN t : t[i] = 1}
<1>1. n \in Nat /\ DOMAIN s = 1..n /\ DOMAIN t = 1..(n + 1) /\ t[n + 1] = x
      /\ \A i \in 1..n : t[i] = s[i]
  OBVIOUS
<1>2. IsFiniteSet(S) /\ Cardinality(S) \in Nat
  <2>1. IsFiniteSet(1..n)
    BY <1>1, FS_Interval
  <2> QED BY <1>1, <2>1, FS_Subset, FS_CardinalityType
<1>3. CASE x = 1
  <2>1. T = S \cup {n + 1} /\ n + 1 \notin S
    BY <1>1, <1>3
  <2> QED BY <1>2, <1>3, <2>1, FS_AddElement DEF Ones
<1>4. CASE x = 0
  <2>1. T = S
    BY <1>1, <1>4
  <2>2. Ones(t) = Ones(s)
    BY <2>1, Zenon DEF Ones
  <2>3. Ones(s) \in Nat
    BY <1>2, Zenon DEF Ones
  <2> QED BY <1>4, <2>2, <2>3
<1> QED BY <1>3, <1>4 DEF Bit

\* The bits of a byte as a sequence, with the parity behind them.
Parity(b) == (Ones(Bits[b]) + 1) % 2

LEMMA BitsSeq ==
  ASSUME NEW b \in Byte
  PROVE  Bits[b] \in Seq(Bit) /\ Len(Bits[b]) = 8 /\ Parity(b) \in Bit
         /\ Append(Bits[b], Parity(b)) \in Seq(Bit)
         /\ Ones(Append(Bits[b], Parity(b))) % 2 = 1
<1>1. Bits[b] \in [1..8 -> Bit]
  BY BitsTyped
<1>2. Bits[b] \in Seq(Bit) /\ Len(Bits[b]) = 8
  BY <1>1, SeqOf, 8 \in Nat, Zenon
<1>3. Ones(Bits[b]) \in Nat
  BY <1>2, OnesAppend DEF Bit
<1>4. Parity(b) \in Bit
  BY <1>3 DEF Parity, Bit
<1>5. Ones(Append(Bits[b], Parity(b))) = Ones(Bits[b]) + Parity(b)
  BY <1>2, <1>4, OnesAppend
<1>6. (Ones(Bits[b]) + Parity(b)) % 2 = 1
  BY <1>3 DEF Parity
<1>7. Append(Bits[b], Parity(b)) \in Seq(Bit)
  BY <1>2, <1>4, Behind, Zenon
<1> QED BY <1>2, <1>4, <1>5, <1>6, <1>7, Zenon

\* What a frame is made of.
LEMMA Started ==
  ASSUME NEW s \in Seq(Bit), NEW n \in Nat, Len(s) = n
  PROVE  /\ <<0>> \o s \in Seq(Bit) /\ Len(<<0>> \o s) = n + 1 /\ (<<0>> \o s)[1] = 0
         /\ \A i \in 1..n : (<<0>> \o s)[i + 1] = s[i]
<1>1. 0 \in Bit
  BY DEF Bit
<1> QED BY <1>1

LEMMA Ended ==
  ASSUME NEW h \in Seq(Bit), NEW n \in Nat, Len(h) = n, NEW p \in Bit
  PROVE  /\ h \o <<p, 1>> \in Seq(Bit) /\ Len(h \o <<p, 1>>) = n + 2
         /\ (h \o <<p, 1>>)[n + 1] = p /\ (h \o <<p, 1>>)[n + 2] = 1
         /\ \A i \in 1..n : (h \o <<p, 1>>)[i] = h[i]
<1>1. 1 \in Bit
  BY DEF Bit
<1> QED BY <1>1

LEMMA Middle ==
  ASSUME NEW f \in Seq(Bit), NEW n \in Nat, n >= 1, Len(f) = n + 2
  PROVE  /\ SubSeq(f, 2, n + 1) \in Seq(Bit) /\ Len(SubSeq(f, 2, n + 1)) = n
         /\ \A i \in 1..n : SubSeq(f, 2, n + 1)[i] = f[i + 1]
OBVIOUS

LEMMA Pushed ==
  ASSUME NEW s \in Seq(Bit), NEW n \in Nat, Len(s) = n, NEW p \in Bit
  PROVE  /\ Append(s, p) \in Seq(Bit) /\ Len(Append(s, p)) = n + 1 /\ Append(s, p)[n + 1] = p
         /\ \A i \in 1..n : Append(s, p)[i] = s[i]
OBVIOUS

LEMMA FrameOf ==
  ASSUME NEW n \in Nat, n = 8, NEW s \in Seq(Bit), Len(s) = n, NEW p \in Bit
  PROVE  LET f == (<<0>> \o s) \o <<p, 1>> IN
         /\ f \in Seq(Bit) /\ Len(f) = n + 1 + 2 /\ f[1] = 0 /\ f[n + 1 + 2] = 1
         /\ SubSeq(f, 2, n + 1 + 1) = Append(s, p)
         /\ \A i \in 1..n : f[i + 1] = s[i]
<1> DEFINE h == <<0>> \o s
<1>1. h \in Seq(Bit) /\ Len(h) = n + 1 /\ h[1] = 0 /\ \A i \in 1..n : h[i + 1] = s[i]
  BY Started
<1> HIDE DEF h
<1> DEFINE f == h \o <<p, 1>>
<1>2. /\ f \in Seq(Bit) /\ Len(f) = n + 1 + 2 /\ f[n + 1 + 1] = p /\ f[n + 1 + 2] = 1
      /\ \A i \in 1..(n + 1) : f[i] = h[i]
  <2>1. n + 1 \in Nat
    OBVIOUS
  <2>2. \A k \in Nat : Len(h) = k =>
          /\ f \in Seq(Bit) /\ Len(f) = k + 2 /\ f[k + 1] = p /\ f[k + 2] = 1
          /\ \A i \in 1..k : f[i] = h[i]
    <3> SUFFICES ASSUME NEW k \in Nat, Len(h) = k
                 PROVE  /\ f \in Seq(Bit) /\ Len(f) = k + 2 /\ f[k + 1] = p /\ f[k + 2] = 1
                        /\ \A i \in 1..k : f[i] = h[i]
      BY Zenon
    <3>1. h \in Seq(Bit)
      BY <1>1, Zenon
    <3> HIDE DEF f
    <3>2. /\ h \o <<p, 1>> \in Seq(Bit) /\ Len(h \o <<p, 1>>) = k + 2
          /\ (h \o <<p, 1>>)[k + 1] = p /\ (h \o <<p, 1>>)[k + 2] = 1
          /\ \A i \in 1..k : (h \o <<p, 1>>)[i] = h[i]
      BY <3>1, Ended
    <3> QED BY <3>2, Zenon DEF f
  <2> HIDE DEF f
  <2> QED BY <1>1, <2>1, <2>2
<1> HIDE DEF f
<1>3. f[1] = 0 /\ \A i \in 1..n : f[i + 1] = s[i]
  BY <1>1, <1>2
<1> DEFINE m == SubSeq(f, 2, n + 1 + 1)  a == Append(s, p)
<1>4. m \in Seq(Bit) /\ Len(m) = n + 1 /\ \A i \in 1..(n + 1) : m[i] = f[i + 1]
  <2>1. n + 1 \in Nat /\ n + 1 >= 1
    OBVIOUS
  <2> QED BY <1>2, <2>1, Middle
<1>5. a \in Seq(Bit) /\ Len(a) = n + 1 /\ a[n + 1] = p /\ \A i \in 1..n : a[i] = s[i]
  BY Pushed
<1> HIDE DEF m, a
<1>6. \A i \in 1..Len(m) : m[i] = a[i]
  BY <1>2, <1>3, <1>4, <1>5
<1>7. m = a
  BY <1>4, <1>5, <1>6, SeqEqual, Zenon
<1> QED BY <1>2, <1>3, <1>7, Zenon DEF f, h, m, a

\* A frame carries its byte.
LEMMA FrameIs ==
  ASSUME NEW b \in Byte
  PROVE  /\ Frame[b] \in Seq(Bit) /\ Len(Frame[b]) = 11
         /\ Frame[b][1] = 0 /\ ByteOf(Frame[b]) = b
<1>1. Bits[b] \in Seq(Bit) /\ Len(Bits[b]) = 8 /\ Parity(b) \in Bit
      /\ Ones(Append(Bits[b], Parity(b))) % 2 = 1
  BY BitsSeq, Zenon
<1>2. Frame[b] = <<0>> \o Bits[b] \o <<Parity(b), 1>>
  BY Zenon DEF Frame, Parity
<1> DEFINE f == Frame[b]  s == Bits[b]
<1>3. /\ f \in Seq(Bit) /\ Len(f) = 11 /\ f[1] = 0 /\ f[11] = 1
      /\ SubSeq(f, 2, 10) = Append(s, Parity(b))
      /\ f[2] = s[1] /\ f[3] = s[2] /\ f[4] = s[3] /\ f[5] = s[4] /\ f[6] = s[5]
      /\ f[7] = s[6] /\ f[8] = s[7] /\ f[9] = s[8]
  <2>1. \A n \in Nat : n = 8 =>
          /\ f \in Seq(Bit) /\ Len(f) = n + 1 + 2 /\ f[1] = 0 /\ f[n + 1 + 2] = 1
          /\ SubSeq(f, 2, n + 1 + 1) = Append(s, Parity(b))
          /\ \A i \in 1..n : f[i + 1] = s[i]
    <3> DEFINE g == (<<0>> \o s) \o <<Parity(b), 1>>
    <3>1. \A n \in Nat : n = 8 =>
            /\ g \in Seq(Bit) /\ Len(g) = n + 1 + 2 /\ g[1] = 0 /\ g[n + 1 + 2] = 1
            /\ SubSeq(g, 2, n + 1 + 1) = Append(s, Parity(b))
            /\ \A i \in 1..n : g[i + 1] = s[i]
      <4> HIDE DEF s
      <4>1. s \in Seq(Bit) /\ Len(s) = 8 /\ Parity(b) \in Bit
        BY <1>1, Zenon DEF s
      <4> QED BY <4>1, FrameOf
    <3>2. f = g
      BY <1>2, Zenon
    <3> HIDE DEF f, g, s
    <3> QED BY <3>1, <3>2
  <2> HIDE DEF f, s
  <2>2. 8 + 1 + 2 = 11 /\ 8 + 1 + 1 = 10 /\ 8 \in Nat
    OBVIOUS
  <2>3. /\ f \in Seq(Bit) /\ Len(f) = 11 /\ f[1] = 0 /\ f[11] = 1
        /\ SubSeq(f, 2, 10) = Append(s, Parity(b)) /\ \A i \in 1..8 : f[i + 1] = s[i]
    BY <2>1, <2>2, Zenon
  <2>4. /\ f[2] = s[1] /\ f[3] = s[2] /\ f[4] = s[3] /\ f[5] = s[4] /\ f[6] = s[5]
        /\ f[7] = s[6] /\ f[8] = s[7] /\ f[9] = s[8]
    BY <2>3
  <2> QED BY <2>3, <2>4, Zenon
<1> HIDE DEF f, s
<1>4. ByteOf(f) = f[2] + 2 * f[3] + 4 * f[4] + 8 * f[5] + 16 * f[6] + 32 * f[7] + 64 * f[8]
                  + 128 * f[9]
  <2>1. f[11] = 1 /\ Ones(SubSeq(f, 2, 10)) % 2 = 1
    BY <1>1, <1>3, Zenon DEF s
  <2> QED BY <2>1 DEF ByteOf
<1>5. b = s[1] + 2 * s[2] + 4 * s[3] + 8 * s[4] + 16 * s[5] + 32 * s[6] + 64 * s[7] + 128 * s[8]
  BY Rebuilt, Zenon DEF s
<1>6. ByteOf(f) = b
  BY <1>3, <1>4, <1>5
<1> QED BY <1>3, <1>6, Zenon DEF f

\* What the receiver makes of eleven bits is a byte.
LEMMA ByteOfTyped ==
  ASSUME NEW s \in Seq(Bit), Whole(s)
  PROVE  ByteOf(s) \in Byte
<1>1. /\ s[2] \in 0..1 /\ s[3] \in 0..1 /\ s[4] \in 0..1 /\ s[5] \in 0..1
      /\ s[6] \in 0..1 /\ s[7] \in 0..1 /\ s[8] \in 0..1 /\ s[9] \in 0..1
  BY DEF Whole, Bit
<1> DEFINE x2 == s[2]  x3 == s[3]  x4 == s[4]  x5 == s[5]  x6 == s[6]  x7 == s[7]
           x8 == s[8]  x9 == s[9]
<1>4. x2 + 2 * x3 + 4 * x4 + 8 * x5 + 16 * x6 + 32 * x7 + 64 * x8 + 128 * x9 \in Byte
  <2>1. /\ x2 \in 0..1 /\ x3 \in 0..1 /\ x4 \in 0..1 /\ x5 \in 0..1
        /\ x6 \in 0..1 /\ x7 \in 0..1 /\ x8 \in 0..1 /\ x9 \in 0..1
    BY <1>1
  <2> HIDE DEF x2, x3, x4, x5, x6, x7, x8, x9
  <2> QED BY <2>1 DEF Byte
<1>3. \hFF \in Byte
  BY DEF Byte
<1> QED BY <1>3, <1>4, Zenon DEF ByteOf

-----------------------------------------------------------------------------
(* The receiver.                                                           *)

LEMMA Less == IsWellFoundedOn({ss \in Nat \X Nat : ss[1] < ss[2]}, Nat)
BY NatLessThanWellFounded DEF OpToRel

\* A set of positions has a first.
LEMMA MinIs ==
  ASSUME NEW S, S \subseteq Nat, S # {}
  PROVE  Min(S) \in S /\ \A y \in S : Min(S) <= y
<1>1. PICK x \in S : \A y \in S : ~(<<y, x>> \in {ss \in Nat \X Nat : ss[1] < ss[2]})
  BY Less, WFMin
<1>2. ASSUME NEW y \in S PROVE x <= y
  <2>1. x \in Nat /\ y \in Nat
    OBVIOUS
  <2>2. ~(<<y, x>> \in {ss \in Nat \X Nat : ss[1] < ss[2]})
    BY <1>1
  <2> QED BY <2>1, <2>2
<1> QED BY <1>2 DEF Min

\* A start bit is looked for only before a frame.
LEMMA FromStartIs ==
  ASSUME NEW s \in Seq(Bit)
  PROVE  /\ FromStart(s) \in Seq(Bit) /\ Len(FromStart(s)) <= Len(s)
         /\ FromStart(s) # <<>> => FromStart(s)[1] = 0
         /\ s = <<>> => FromStart(s) = <<>>
         /\ s # <<>> /\ s[1] = 0 => FromStart(s) = s
<1> DEFINE zeros == {i \in DOMAIN s : s[i] = 0}
<1>1. Len(s) \in Nat /\ DOMAIN s = 1..Len(s)
  OBVIOUS
<1>2. CASE zeros = {}
  <2>1. FromStart(s) = <<>>
    BY <1>2, Zenon DEF FromStart
  <2>2. ~(s # <<>> /\ s[1] = 0)
    BY <1>1, <1>2
  <2> QED BY <1>1, <2>1, <2>2
<1>3. CASE zeros # {}
  <2> DEFINE m == Min(zeros)
  <2>1. zeros \subseteq Nat
    BY <1>1
  <2>2. m \in zeros /\ \A y \in zeros : m <= y
    BY <1>3, <2>1, MinIs
  <2>3. m \in 1..Len(s) /\ s[m] = 0
    BY <1>1, <2>2, Zenon
  <2>4. FromStart(s) = SubSeq(s, m, Len(s))
    BY <1>3, Zenon DEF FromStart
  <2>5. s # <<>> /\ s[1] = 0 => m = 1
    <3>1. s # <<>> /\ s[1] = 0 => m <= 1
      BY <1>1, <2>2
    <3> HIDE DEF m
    <3> QED BY <1>1, <2>3, <3>1
  <2> HIDE DEF m, zeros
  <2>6. Len(s) \in m..Len(s) /\ 1 \in 1..(Len(s) - m + 1) /\ m + 1 - 1 = m
    BY <1>1, <2>3
  <2>7. /\ SubSeq(s, m, Len(s)) \in Seq(Bit) /\ Len(SubSeq(s, m, Len(s))) = Len(s) - m + 1
        /\ SubSeq(s, m, Len(s))[1] = s[m]
    BY <2>3, <2>6, Piece
  <2>8. SubSeq(s, 1, Len(s)) = s
    BY SubSeqFull, Zenon
  <2>9. s # <<>> /\ Len(s) - m + 1 <= Len(s)
    BY <1>1, <2>3
  <2> QED BY <2>3, <2>4, <2>5, <2>7, <2>8, <2>9, Zenon
<1> QED BY <1>2, <1>3

\* Nothing is received that was not sent: bits m + 1 to n of a frame behind the
\* first m.
LEMMA NextBits ==
  ASSUME NEW f \in Seq(Bit), f # <<>>, f[1] = 0, NEW m \in Nat, NEW n \in 1..Len(f), m < n
  PROVE  /\ SubSeq(f, 1, m) \o SubSeq(f, m + 1, n) = SubSeq(f, 1, n)
         /\ FromStart(SubSeq(f, 1, n)) = SubSeq(f, 1, n)
         /\ Len(SubSeq(f, 1, n)) = n
<1> DEFINE s == SubSeq(f, 1, n)
<1>1. Len(f) \in Nat /\ 1 \in 1..Len(f) /\ n \in 1..Len(f)
  OBVIOUS
<1>2. s \in Seq(Bit) /\ Len(s) = n - 1 + 1 /\ \A i \in 1..(n - 1 + 1) : s[i] = f[1 + i - 1]
  BY <1>1, Piece
<1>3. SubSeq(f, 1, m) \o SubSeq(f, m + 1, n) = s
  <2>1. m \in (1 - 1)..Len(f) /\ n \in m..Len(f) /\ 1 \in 1..(Len(f) + 1)
    BY <1>1
  <2> QED BY <2>1, ConcatAdjacentSubSeq
<1> HIDE DEF s
<1>4. Len(s) = n /\ s # <<>> /\ s[1] = 0
  BY <1>1, <1>2
<1>5. FromStart(s) = s
  BY <1>2, <1>4, FromStartIs, Zenon
<1> QED BY <1>3, <1>4, <1>5, Zenon DEF s

LEMMA ReceivesFrame ==
  ASSUME NEW b \in Byte, NEW m \in 0..10, NEW n \in 1..11, m < n,
         shiftreg = SubSeq(Frame[b], 1, m), Receive(SubSeq(Frame[b], m + 1, n))
  PROVE  /\ n = 11 => qreg' = b /\ dsr' = TRUE /\ shiftreg' = <<>>
         /\ n < 11 => shiftreg' = SubSeq(Frame[b], 1, n) /\ UNCHANGED <<qreg, dsr>>
<1> DEFINE f == Frame[b]  s == SubSeq(f, 1, n)
<1>1. f \in Seq(Bit) /\ Len(f) = 11 /\ f[1] = 0 /\ ByteOf(f) = b
  BY FrameIs, Zenon
<1>2. SubSeq(f, 1, m) \o SubSeq(f, m + 1, n) = s /\ FromStart(s) = s /\ Len(s) = n
  <2> HIDE DEF f
  <2>1. n \in 1..Len(f) /\ m \in Nat
    BY <1>1
  <2>3. f # <<>>
    <3>1. 11 # 0
      OBVIOUS
    <3> QED BY <1>1, <3>1, EmptySeq, Zenon
  <2> QED BY <1>1, <2>1, <2>3, NextBits
<1>3. IF Whole(s) THEN /\ qreg' = ByteOf(s) /\ dsr' = TRUE
                       /\ shiftreg' = FromStart(SubSeq(s, 12, Len(s)))
                  ELSE shiftreg' = s /\ UNCHANGED <<qreg, dsr>>
  BY <1>2, Zenon DEF Receive
<1> HIDE DEF f
<1>4. CASE n = 11
  <2>1. Whole(s)
    BY <1>2, <1>4 DEF Whole
  <2>2. s = f
    BY <1>1, <1>4, SubSeqFull, Zenon
  <2>3. SubSeq(s, 12, Len(s)) = <<>>
    <3>1. Len(s) \in Int /\ Len(s) < 12 /\ 12 \in Int
      BY <1>2, <1>4
    <3> QED BY <3>1, SubSeqEmpty, Zenon
  <2>4. FromStart(<<>>) = <<>>
    BY FromStartIs, EmptySeq, Zenon
  <2> HIDE DEF s
  <2>5. ~(n < 11)
    BY <1>4
  <2> QED BY <1>1, <1>3, <2>1, <2>2, <2>3, <2>4, <2>5, Zenon
<1>5. CASE n < 11
  <2>1. ~Whole(s)
    BY <1>2, <1>5 DEF Whole
  <2> QED BY <1>3, <1>5, <2>1 DEF f
<1> QED BY <1>4, <1>5

\* The receiver keeps its type, whatever comes in.
LEMMA ReceiveTyped ==
  ASSUME NEW bits \in Seq(Bit), Len(bits) <= 11, shiftreg \in Seq(Bit), Len(shiftreg) <= 10,
         qreg \in Byte, dsr \in BOOLEAN, Receive(bits)
  PROVE  /\ shiftreg' \in Seq(Bit) /\ Len(shiftreg') <= 10
         /\ shiftreg' # <<>> => shiftreg'[1] = 0
         /\ qreg' \in Byte /\ dsr' \in BOOLEAN
<1> DEFINE all == shiftreg \o bits
           s == FromStart(all)
<1>1. all \in Seq(Bit) /\ Len(all) = Len(shiftreg) + Len(bits) /\ Len(shiftreg) \in Nat
      /\ Len(bits) \in Nat
  BY Joined
<1>2. s \in Seq(Bit) /\ Len(s) <= Len(all) /\ (s # <<>> => s[1] = 0)
  BY <1>1, FromStartIs, Zenon
<1>3. IF Whole(s) THEN /\ qreg' = ByteOf(s) /\ dsr' = TRUE
                       /\ shiftreg' = FromStart(SubSeq(s, 12, Len(s)))
                  ELSE shiftreg' = s /\ UNCHANGED <<qreg, dsr>>
  BY Zenon DEF Receive
<1> HIDE DEF all, s
<1>4. Len(s) \in Nat /\ Len(s) <= 21
  BY <1>1, <1>2
<1>5. CASE ~Whole(s)
  BY <1>2, <1>3, <1>4, <1>5 DEF Whole
<1>6. CASE Whole(s)
  <2> DEFINE n == Len(s)  r == SubSeq(s, 12, n)
  <2>1. r \in Seq(Bit) /\ Len(r) <= 10
    <3> n \in Nat /\ n <= 21 /\ n >= 11 /\ n = Len(s)
      BY <1>4, <1>6 DEF Whole
    <3> HIDE DEF n
    <3>1. CASE n = 11
      <4>1. n \in Int /\ n < 12 /\ 12 \in Int
        BY <3>1
      <4>2. r = <<>>
        BY <4>1, SubSeqEmpty, Zenon
      <4> HIDE DEF r
      <4>3. r \in Seq(Bit) /\ Len(r) = 0
        BY <4>2, EmptySeq, Zenon
      <4> QED BY <4>3
    <3>2. CASE n # 11
      <4>1. 12 \in 1..Len(s) /\ n \in 12..Len(s)
        BY <3>2
      <4>2. r \in Seq(Bit) /\ Len(r) = n - 12 + 1
        BY <1>2, <4>1, Piece
      <4> HIDE DEF r
      <4> QED BY <4>2
    <3> QED BY <3>1, <3>2
  <2> HIDE DEF r
  <2>2. /\ FromStart(r) \in Seq(Bit) /\ Len(FromStart(r)) <= Len(r)
        /\ FromStart(r) # <<>> => FromStart(r)[1] = 0
    BY <2>1, FromStartIs, Zenon
  <2>3. Len(FromStart(r)) <= 10
    BY <2>1, <2>2
  <2>4. ByteOf(s) \in Byte
    BY <1>2, <1>6, ByteOfTyped, Zenon
  <2> QED BY <1>3, <1>6, <2>2, <2>3, <2>4, Zenon DEF r
<1> QED BY <1>5, <1>6

-----------------------------------------------------------------------------
(* Types.                                                                  *)

Cells == Matrix \cup ({8} \X (0..5))

LEMMA MatrixCells ==
  ASSUME NEW code \in Byte, NEW m \in BOOLEAN
  PROVE  scan2matrix(code, m) \subseteq Cells
<1>1. \A table : CellsIn(table)[code] \subseteq Matrix
  BY DEF CellsIn
<1>2. CommonCells[code] \subseteq Matrix
  BY <1>1, Zenon DEF CommonCells
<1>3. LayoutCells[m][code] \subseteq Matrix
  <2>1. LayoutCells[m] = CellsIn(IF m THEN jcuken ELSE qwerty)
    BY Zenon DEF LayoutCells
  <2> QED BY <1>1, <2>1, Zenon
<1> QED BY <1>2, <1>3, Zenon DEF scan2matrix, Cells

LEMMA LineCells == \A code, ext : Line(code, ext) \subseteq Cells
<1>1. /\ key_ctrl \in Cells /\ key_shift \in Cells /\ key_rus \in Cells
      /\ key_blkvvod \in Cells /\ key_blksbr \in Cells /\ key_bushold \in Cells
  BY DEF Cells, key_ctrl, key_shift, key_rus, key_blkvvod, key_blksbr, key_bushold
<1> QED BY <1>1 DEF Line

\* The states of the decoder.
Decoder == Listen \/ Await \/ Pass \/ Prefix \/ KeyDown \/ KeyUp \/ Command \/ Acknowledge

DecoderTyped ==
  /\ state \in 0..30 /\ txd \in Byte /\ keymatrix \subseteq Cells
  /\ key_osd \subseteq OsdKeys /\ key_jcuken \in BOOLEAN

LEMMA KeysStayTyped ==
  ASSUME DecoderTyped, UNCHANGED <<keyVars, txd>>, state' \in 0..30
  PROVE  DecoderTyped'
BY DEF DecoderTyped, keyVars

LEMMA KeyDownTyped ==
  ASSUME DecoderTyped, q \in Byte, KeyDown
  PROVE  DecoderTyped'
<1> DEFINE ext == state = 13  line == Line(q, ext)  cell == scan2matrix(q, key_jcuken)
<1>1. line \subseteq Cells /\ cell \subseteq Cells /\ ext \in BOOLEAN
  BY LineCells, MatrixCells DEF DecoderTyped
<1>2. state' \in 0..30 /\ txd' \in Byte
  BY DEF KeyDown, DecoderTyped
<1>3. keymatrix' \in {keymatrix, keymatrix \cup line, keymatrix \cup cell}
  BY Zenon DEF KeyDown
<1>4. key_osd' \in {key_osd, key_osd \cup ({q} \cap OsdKeys), key_osd \ {q}}
  BY Zenon DEF KeyDown
<1>5. key_jcuken' \in {key_jcuken, ext}
  BY Zenon DEF KeyDown
<1> HIDE DEF line, cell, ext
<1>6. keymatrix' \subseteq Cells
  BY <1>1, <1>3 DEF DecoderTyped
<1>7. key_osd' \subseteq OsdKeys
  BY <1>4 DEF DecoderTyped
<1>8. key_jcuken' \in BOOLEAN
  BY <1>1, <1>5, Zenon DEF DecoderTyped
<1> QED BY <1>2, <1>6, <1>7, <1>8, Zenon DEF DecoderTyped

LEMMA KeyUpTyped ==
  ASSUME DecoderTyped, q \in Byte, KeyUp
  PROVE  DecoderTyped'
<1> DEFINE ext == state = 17  line == Line(q, ext)  cell == scan2matrix(q, key_jcuken)
<1>1. state' \in 0..30 /\ txd' \in Byte
  BY DEF KeyUp, DecoderTyped
<1>2. keymatrix' \in {keymatrix, keymatrix \ line, keymatrix \ cell}
  BY Zenon DEF KeyUp
<1>3. key_osd' \in {key_osd, OsdRelease(q)} /\ key_jcuken' = key_jcuken
  BY Zenon DEF KeyUp
<1> HIDE DEF line, cell, ext
<1>4. keymatrix' \subseteq Cells
  BY <1>2 DEF DecoderTyped
<1>5. key_osd' \subseteq OsdKeys
  BY <1>3 DEF DecoderTyped, OsdRelease
<1> QED BY <1>1, <1>3, <1>4, <1>5, Zenon DEF DecoderTyped

LEMMA CommandTyped ==
  ASSUME DecoderTyped, led_rus \in Bit, Command
  PROVE  DecoderTyped'
<1>1. Option \in Byte
  BY DEF Option, Bit, Byte
<1>2. txd' \in Byte /\ state' \in 0..30
  BY <1>1 DEF Command, DecoderTyped, Byte
<1>3. UNCHANGED keyVars
  BY DEF Command
<1> QED BY <1>2, <1>3 DEF DecoderTyped, keyVars

LEMMA StateTyped ==
  ASSUME state \in 0..30, Listen \/ Await \/ Pass \/ Prefix \/ Acknowledge
  PROVE  state' \in 0..30 /\ UNCHANGED <<keyVars, txd>>
<1>1. CASE Listen
  BY <1>1 DEF Listen
<1>2. CASE Await
  BY <1>2 DEF Await
<1>3. CASE Pass
  BY <1>3 DEF Pass, rden, wren
<1>4. CASE Prefix
  BY <1>4 DEF Prefix
<1>5. CASE Acknowledge
  BY <1>5 DEF Acknowledge, Refused
<1> QED BY <1>1, <1>2, <1>3, <1>4, <1>5

LEMMA DecoderStaysTyped ==
  ASSUME DecoderTyped, q \in Byte, led_rus \in Bit, Decoder
  PROVE  DecoderTyped'
<1>1. CASE Listen \/ Await \/ Pass \/ Prefix \/ Acknowledge
  <2>1. state \in 0..30
    BY DEF DecoderTyped
  <2> QED BY <1>1, <2>1, StateTyped, KeysStayTyped, Zenon
<1> QED BY <1>1, KeyDownTyped, KeyUpTyped, CommandTyped, Zenon DEF Decoder

LEMMA TypedIs ==
  Typed <=>
    /\ DecoderTyped
    /\ held \subseteq Keys /\ out \in Seq(Byte) /\ sent \in 0..10
    /\ expects \in {"command", "option"} /\ lamps \in 0..7
    /\ shiftreg \in Seq(Bit) /\ Len(shiftreg) <= 10 /\ (shiftreg # <<>> => shiftreg[1] = 0)
    /\ qreg \in Byte /\ q \in Byte /\ dsr \in BOOLEAN /\ tx \in {"idle", "delay", "request"}
    /\ led_rus \in Bit /\ o_osd \in BOOLEAN /\ key_osd_x \in BOOLEAN /\ garbled \in BOOLEAN
BY Zenon DEF Typed, DecoderTyped, Cells

LEMMA ClockTyped ==
  ASSUME Typed, NEW retrace \in BOOLEAN, Clock(retrace)
  PROVE  Typed'
<1>1. Decoder /\ Beside(retrace) /\ UNCHANGED <<userVars, devVars, shiftreg, qreg, rusVars, garbled>>
  BY Zenon DEF Clock, Decoder
<1>2. DecoderTyped'
  BY <1>1, TypedIs, DecoderStaysTyped, Zenon
<1>3. q' \in Byte /\ dsr' \in BOOLEAN
  <2>1. (q' = qreg /\ dsr' = FALSE) \/ (q' = q /\ dsr' = dsr)
    BY <1>1, Zenon DEF Beside
  <2> QED BY <2>1, Zenon DEF Typed
<1>4. tx' \in {"idle", "delay", "request"}
  <2>1. tx' = "delay" \/ tx' = tx
    BY <1>1, Zenon DEF Beside
  <2> QED BY <2>1 DEF Typed
<1>5. key_osd_x' \in BOOLEAN /\ o_osd' \in BOOLEAN
  <2>1. (o_osd' = ~o_osd \/ o_osd' = o_osd) /\ key_osd_x' = (key_bushold \in keymatrix)
    BY <1>1, Zenon DEF Beside
  <2>2. (key_bushold \in keymatrix) \in BOOLEAN
    OBVIOUS
  <2>3. o_osd' \in BOOLEAN
    <3>1. (~o_osd) \in BOOLEAN
      OBVIOUS
    <3> QED BY <2>1, <3>1, Zenon DEF Typed
  <2> QED BY <2>1, <2>2, <2>3, Zenon
<1>6. /\ held' = held /\ out' = out /\ sent' = sent /\ expects' = expects /\ lamps' = lamps
      /\ shiftreg' = shiftreg /\ qreg' = qreg /\ led_rus' = led_rus /\ garbled' = garbled
  BY <1>1, Zenon DEF userVars, devVars, rusVars
<1> QED BY <1>2, <1>3, <1>4, <1>5, <1>6, Zenon DEF Typed, DecoderTyped, Cells

\* The next cut of the byte that is being sent.
NextCut == Min({c \in Cuts : c > sent})

LEMMA NextCutIs ==
  ASSUME sent \in 0..10
  PROVE  NextCut \in 1..11 /\ NextCut > sent
<1> DEFINE S == {c \in Cuts : c > sent}
<1>1. S \subseteq Nat /\ 11 \in S
  <2>1. S \subseteq 1..11 /\ 11 \in Cuts
    BY WireAssumption, Zenon
  <2>2. 11 > sent
    OBVIOUS
  <2>3. 11 \in S
    BY <2>1, <2>2, Zenon
  <2> HIDE DEF S
  <2> QED BY <2>1, <2>3
<1>2. S # {}
  BY <1>1
<1>3. NextCut \in S
  BY <1>1, <1>2, MinIs, Zenon DEF NextCut
<1>4. NextCut \in Cuts /\ NextCut > sent
  BY <1>3, Zenon
<1> QED BY <1>4, WireAssumption, Zenon

LEMMA HeadTail ==
  ASSUME NEW S, NEW s \in Seq(S), s # <<>>
  PROVE  Head(s) \in S /\ Tail(s) \in Seq(S)
OBVIOUS

\* What is sent in one go.
SentBits == SubSeq(Frame[Head(out)], sent + 1, NextCut)

LEMMA SentBitsTyped ==
  ASSUME out \in Seq(Byte), out # <<>>, sent \in 0..10
  PROVE  SentBits \in Seq(Bit) /\ Len(SentBits) <= 11
<1> DEFINE f == Frame[Head(out)]  m == sent + 1  n == NextCut
<1>1. f \in Seq(Bit) /\ Len(f) = 11
  BY HeadTail, FrameIs, Zenon
<1>2. n \in 1..11 /\ n > sent
  BY NextCutIs
<1> HIDE DEF f, n
<1>3. m \in 1..Len(f) /\ n \in m..Len(f) /\ n - m + 1 <= 11
  BY <1>1, <1>2
<1> HIDE DEF m
<1>4. SubSeq(f, m, n) \in Seq(Bit) /\ Len(SubSeq(f, m, n)) = n - m + 1
  BY <1>1, <1>3, Piece
<1>5. Len(SubSeq(f, m, n)) <= 11
  BY <1>3, <1>4, Zenon
<1> QED BY <1>4, <1>5, Zenon DEF SentBits, f, m, n

LEMMA SendsTyped ==
  ASSUME Typed, DeviceSends
  PROVE  Typed'
<1>1. out # <<>> /\ out \in Seq(Byte) /\ sent \in 0..10
  BY Zenon DEF DeviceSends, Typed
<1>2. SentBits \in Seq(Bit) /\ Len(SentBits) <= 11 /\ NextCut \in 1..11 /\ Tail(out) \in Seq(Byte)
  BY <1>1, SentBitsTyped, NextCutIs, HeadTail, Zenon
<1>3. /\ Receive(SentBits) \/ UNCHANGED <<shiftreg, qreg, dsr>>
      /\ (NextCut = 11 /\ sent' = 0 /\ out' = Tail(out)) \/ (NextCut # 11 /\ sent' = NextCut /\ out' = out)
      /\ UNCHANGED <<userVars, expects, lamps, q, txVars, state, keyVars, ledVars, osdVars,
                     rusVars, garbled, resets>>
  BY Zenon DEF DeviceSends, SentBits, NextCut
<1>4. /\ shiftreg' \in Seq(Bit) /\ Len(shiftreg') <= 10 /\ (shiftreg' # <<>> => shiftreg'[1] = 0)
      /\ qreg' \in Byte /\ dsr' \in BOOLEAN
  <2>1. /\ shiftreg \in Seq(Bit) /\ Len(shiftreg) <= 10 /\ (shiftreg # <<>> => shiftreg[1] = 0)
        /\ qreg \in Byte /\ dsr \in BOOLEAN
    BY Zenon DEF Typed
  <2>2. CASE Receive(SentBits)
    BY <1>2, <2>1, <2>2, ReceiveTyped, Zenon
  <2> QED BY <1>3, <2>1, <2>2, Zenon
<1>5. sent' \in 0..10 /\ out' \in Seq(Byte)
  <2>1. CASE NextCut = 11
    BY <1>2, <1>3, <2>1
  <2>2. CASE NextCut # 11
    <3>1. sent' = NextCut /\ out' = out
      BY <1>3, <2>2, Zenon
    <3>2. NextCut \in 0..10
      BY <1>2, <2>2
    <3> QED BY <1>1, <3>1, <3>2, Zenon
  <2> QED BY <2>1, <2>2
<1> QED BY <1>3, <1>4, <1>5, Zenon
    DEF Typed, userVars, txVars, keyVars, ledVars, osdVars, rusVars

LEMMA InhibitTyped ==
  ASSUME Typed, Inhibit
  PROVE  Typed'
<1>1. /\ tx' = "request" /\ sent' = 0 /\ garbled' = (garbled \/ shiftreg # <<>>)
      /\ UNCHANGED <<userVars, out, expects, lamps, rxVars, txd, state, keyVars, ledVars, osdVars,
                     rusVars, resets>>
  BY Zenon DEF Inhibit
<1>2. tx' \in {"idle", "delay", "request"} /\ sent' \in 0..10
  BY <1>1
<1>3. (garbled \/ shiftreg # <<>>) \in BOOLEAN
  OBVIOUS
<1> QED BY <1>1, <1>2, <1>3, Zenon
    DEF Typed, userVars, rxVars, keyVars, ledVars, osdVars, rusVars

LEMMA TakesTyped ==
  ASSUME Typed, DeviceTakes
  PROVE  Typed'
<1>1. /\ tx' = "idle" /\ out' = <<\hFA>> \o out
      /\ \/ txd < 8 /\ lamps' = txd /\ expects' = "command"
         \/ expects' = (IF txd = \hED THEN "option" ELSE "command") /\ lamps' = lamps
      /\ UNCHANGED <<userVars, sent, rxVars, txd, state, keyVars, ledVars, osdVars, rusVars,
                     garbled, resets>>
  BY Zenon DEF DeviceTakes
<1>2. out' \in Seq(Byte)
  <2>1. \hFA \in Byte /\ out \in Seq(Byte)
    BY DEF Typed, Byte
  <2> QED BY <1>1, <2>1, Before
<1>3. lamps' \in 0..7 /\ expects' \in {"command", "option"} /\ tx' \in {"idle", "delay", "request"}
  <2>1. lamps \in 0..7 /\ txd \in 0..255
    BY DEF Typed, Byte
  <2> QED BY <1>1, <2>1
<1> QED BY <1>1, <1>2, <1>3, Zenon
    DEF Typed, userVars, rxVars, keyVars, ledVars, osdVars, rusVars

LEMMA ResetTyped ==
  ASSUME Typed, Reset
  PROVE  Typed'
<1>1. /\ state' = 0 /\ keymatrix' = {} /\ key_osd' = {} /\ key_jcuken' = FALSE
      /\ shiftreg' = <<>> /\ q' = 0 /\ dsr' = FALSE /\ tx' = "idle"
      /\ o_osd' = FALSE /\ key_osd_x' = FALSE
      /\ garbled' = (garbled \/ shiftreg # <<>> \/ dsr \/ state \in 3..17 \/ (tx = "delay" /\ sent > 0))
      /\ UNCHANGED <<userVars, devVars, qreg, txd, rusVars>>
  BY Zenon DEF Reset
<1>2. /\ state' \in 0..30 /\ keymatrix' \subseteq Cells /\ key_osd' \subseteq OsdKeys
      /\ key_jcuken' \in BOOLEAN /\ q' \in Byte /\ dsr' \in BOOLEAN
      /\ tx' \in {"idle", "delay", "request"} /\ o_osd' \in BOOLEAN /\ key_osd_x' \in BOOLEAN
  <2>1. 0 \in 0..30 /\ 0 \in Byte /\ {} \subseteq Cells /\ {} \subseteq OsdKeys
    BY DEF Byte
  <2> QED BY <1>1, <2>1, Zenon
<1>3. shiftreg' \in Seq(Bit) /\ Len(shiftreg') <= 10 /\ shiftreg' = <<>>
  BY <1>1
<1>4. garbled' \in BOOLEAN
  <2>1. (garbled \/ shiftreg # <<>> \/ dsr \/ state \in 3..17 \/ (tx = "delay" /\ sent > 0)) \in BOOLEAN
    OBVIOUS
  <2> QED BY <1>1, <2>1, Zenon
<1> QED BY <1>1, <1>2, <1>3, <1>4, Zenon DEF Typed, userVars, devVars, rusVars, Cells

-----------------------------------------------------------------------------
(* What the keyboard sends for its keys.                                   *)

LEMMA Coded ==
  ASSUME NEW k \in Keys
  PROVE  /\ Make(k) \in Seq(Byte) /\ Break(k) \in Seq(Byte) /\ Make(k) \o Break(k) \in Seq(Byte)
         /\ k.code \in Byte /\ k.code # \hE0 /\ k.code # \hF0
<1>1. k.code \in Byte /\ k.code # \hE0 /\ k.code # \hF0 /\ \hE0 \in Byte /\ \hF0 \in Byte
  BY KeysAssumption DEF Byte
<1>2. Make(k) \in Seq(Byte)
  BY <1>1 DEF Make
<1>3. Break(k) \in Seq(Byte)
  BY <1>1 DEF Break
<1>4. Make(k) \o Break(k) \in Seq(Byte)
  BY <1>2, <1>3, Joined
<1> QED BY <1>1, <1>2, <1>3, <1>4

\* A key that moves, or only looks as if it did, and what it sends.
User == \E k \in Keys :
  \/ k \notin held /\ held' = held \cup {k} /\ UserActs(Make(k))
  \/ k \in held /\ held' = held \ {k} /\ UserActs(Break(k))
  \/ held' = held /\ UserActs(Make(k) \o Break(k))
  \/ k \in held /\ held' = held /\ UserActs(Make(k))

LEMMA UserIs ==
  ASSUME Typed, Press \/ Release \/ Strike \/ Repeat
  PROVE  User
<1>1. held \subseteq Keys /\ Struck \subseteq Keys
  BY KeysAssumption DEF Typed
<1> QED BY <1>1, Zenon DEF Press, Release, Strike, Repeat, User

LEMMA UserTyped ==
  ASSUME Typed, User
  PROVE  Typed'
<1>1. PICK k \in Keys :
        \/ k \notin held /\ held' = held \cup {k} /\ UserActs(Make(k))
        \/ k \in held /\ held' = held \ {k} /\ UserActs(Break(k))
        \/ held' = held /\ UserActs(Make(k) \o Break(k))
        \/ k \in held /\ held' = held /\ UserActs(Make(k))
  BY Zenon DEF User
<1>2. held' \subseteq Keys
  BY <1>1 DEF Typed
<1>3. PICK bytes \in Seq(Byte) : UserActs(bytes)
  BY <1>1, Coded, Zenon
<1>4. /\ out' = out \o bytes
      /\ UNCHANGED <<sent, expects, lamps, rxVars, txVars, state, keyVars, ledVars, osdVars,
                     rusVars, garbled, resets>>
  BY <1>3, Zenon DEF UserActs
<1>5. out' \in Seq(Byte)
  BY <1>4, Joined DEF Typed
<1> QED BY <1>2, <1>4, <1>5, Zenon
    DEF Typed, rxVars, txVars, keyVars, ledVars, osdVars, rusVars

LEMMA LampTyped ==
  ASSUME Typed, SwitchLamp
  PROVE  Typed'
<1>1. /\ led_rus' = 1 - led_rus
      /\ UNCHANGED <<held, devVars, rxVars, txVars, state, keyVars, ledVars, osdVars,
                     garbled, resets>>
  BY Zenon DEF SwitchLamp
<1>2. led_rus' \in Bit
  BY <1>1 DEF Typed, Bit
<1> QED BY <1>1, <1>2, Zenon DEF Typed, devVars, rxVars, txVars, keyVars, ledVars, osdVars

-----------------------------------------------------------------------------
(* Streams: s is the stream, osd what the OSD sees, h the keys held.       *)

LEMMA OsdCodes == \hE0 \notin OsdKeys /\ \hF0 \notin OsdKeys /\ \hFA \notin OsdKeys
                  /\ OsdKeys \subseteq Byte
BY DEF OsdKeys, Byte

LEMMA BeforeOne ==
  ASSUME NEW x \in Byte, NEW t \in Seq(Byte), NEW s, s = <<x>> \o t
  PROVE  /\ s \in Seq(Byte) /\ Len(t) \in Nat /\ Len(s) = Len(t) + 1 /\ s[1] = x
         /\ \A i \in 1..Len(t) : s[i + 1] = t[i]
         /\ \A i \in 2..Len(s) : i - 1 \in 1..Len(t) /\ s[i] = t[i - 1]
<1>1. /\ s \in Seq(Byte) /\ Len(s) = Len(t) + 1 /\ s[1] = x
      /\ \A i \in 1..Len(t) : s[i + 1] = t[i]
  BY Before
<1>2. Len(t) \in Nat
  OBVIOUS
<1>3. ASSUME NEW i \in 2..Len(s)
      PROVE  i - 1 \in 1..Len(t) /\ s[i] = t[i - 1]
  <2>1. i - 1 \in 1..Len(t) /\ (i - 1) + 1 = i
    BY <1>1, <1>2
  <2> QED BY <1>1, <2>1, Zenon
<1> QED BY <1>1, <1>2, <1>3

LEMMA AheadIs ==
  ASSUME NEW x \in Byte, NEW t \in Seq(Byte)
  PROVE  /\ Ahead(x, t) \in Seq(Byte) /\ Ahead(x, t) # <<>> /\ Ahead(x, t)[1] = x
         /\ Len(t) \in Nat /\ Len(Ahead(x, t)) = Len(t) + 1
         /\ \A i \in 1..Len(t) : Ahead(x, t)[i + 1] = t[i]
         /\ \A i \in 2..Len(Ahead(x, t)) : i - 1 \in 1..Len(t) /\ Ahead(x, t)[i] = t[i - 1]
<1> DEFINE s == Ahead(x, t)
<1>1. s = <<x>> \o t
  BY DEF Ahead
<1> HIDE DEF s
<1>2. /\ s \in Seq(Byte) /\ Len(t) \in Nat /\ Len(s) = Len(t) + 1 /\ s[1] = x
      /\ \A i \in 1..Len(t) : s[i + 1] = t[i]
      /\ \A i \in 2..Len(s) : i - 1 \in 1..Len(t) /\ s[i] = t[i - 1]
  BY <1>1, BeforeOne
<1>3. s # <<>>
  BY <1>2
<1> QED BY <1>2, <1>3 DEF s

\* A byte that is no break prefix comes in front of a stream, or leaves it.
LEMMA TidyFront ==
  ASSUME NEW x \in Byte, NEW t \in Seq(Byte)
  PROVE  /\ Tidy(Ahead(x, t)) => Tidy(t)
         /\ Tidy(t) /\ x # \hF0 => Tidy(Ahead(x, t))
         /\ Tidy(Ahead(x, t)) /\ x = \hF0 => t # <<>> /\ t[1] # \hF0
<1> DEFINE s == Ahead(x, t)
<1>1. /\ Len(t) \in Nat /\ Len(s) = Len(t) + 1 /\ s[1] = x
      /\ \A i \in 1..Len(t) : s[i + 1] = t[i]
      /\ \A i \in 2..Len(s) : i - 1 \in 1..Len(t) /\ s[i] = t[i - 1]
  BY AheadIs
<1> HIDE DEF s
<1>2. ASSUME Tidy(s), NEW i \in 1..Len(t), t[i] = \hF0
      PROVE  i < Len(t) /\ t[i + 1] # \hF0
  <2>1. i + 1 \in 1..Len(s) /\ s[i + 1] = \hF0
    BY <1>1, <1>2
  <2>2. i + 1 < Len(s) /\ s[i + 1 + 1] # \hF0
    BY <1>2, <2>1 DEF Tidy
  <2>3. i + 1 \in 1..Len(t)
    BY <1>1, <2>2
  <2> QED BY <1>1, <2>2, <2>3
<1>3. ASSUME Tidy(t), x # \hF0, NEW i \in 1..Len(s), s[i] = \hF0
      PROVE  i < Len(s) /\ s[i + 1] # \hF0
  <2>1. i \in 2..Len(s)
    BY <1>1, <1>3
  <2>2. i - 1 \in 1..Len(t) /\ t[i - 1] = \hF0
    BY <1>1, <1>3, <2>1
  <2>3. i - 1 < Len(t) /\ t[(i - 1) + 1] # \hF0
    BY <1>3, <2>2 DEF Tidy
  <2>4. (i - 1) + 1 = i
    BY <2>1
  <2>5. i \in 1..Len(t)
    BY <1>1, <2>1, <2>3
  <2> QED BY <1>1, <2>3, <2>4, <2>5
<1>4. ASSUME Tidy(s), x = \hF0
      PROVE  t # <<>> /\ t[1] # \hF0
  <2>1. 1 \in 1..Len(s)
    BY <1>1
  <2>2. 1 < Len(s) /\ s[1 + 1] # \hF0
    BY <1>1, <1>4, <2>1 DEF Tidy
  <2>3. 1 \in 1..Len(t)
    BY <1>1, <2>2
  <2> QED BY <1>1, <2>2, <2>3
<1> QED BY <1>2, <1>3, <1>4 DEF Tidy, s

\* c comes first and never again.
OnlyFirst(t, c) == t # <<>> /\ t[1] = c /\ \A j \in 2..Len(t) : t[j] # c

LEMMA UpFront ==
  ASSUME NEW x \in Byte, NEW t \in Seq(Byte), NEW c
  PROVE  /\ NotIn(Ahead(x, t), c) <=> x # c /\ NotIn(t, c)
         /\ BreakIsLast(t, c) => BreakIsLast(Ahead(x, t), c)
         /\ BreakIsLast(Ahead(x, t), c) =>
              BreakIsLast(t, c) \/ (x = \hF0 /\ OnlyFirst(t, c))
<1> DEFINE s == Ahead(x, t)
<1>1. /\ Len(t) \in Nat /\ Len(s) = Len(t) + 1 /\ s[1] = x
      /\ \A i \in 1..Len(t) : s[i + 1] = t[i]
      /\ \A i \in 2..Len(s) : i - 1 \in 1..Len(t) /\ s[i] = t[i - 1]
  BY AheadIs
<1> HIDE DEF s
<1>2. NotIn(s, c) <=> x # c /\ NotIn(t, c)
  <2>1. ASSUME NotIn(s, c) PROVE x # c /\ NotIn(t, c)
    <3>1. 1 \in 1..Len(s) /\ \A i \in 1..Len(t) : i + 1 \in 1..Len(s)
      BY <1>1
    <3> QED BY <1>1, <2>1, <3>1 DEF NotIn
  <2>2. ASSUME x # c, NotIn(t, c) PROVE NotIn(s, c)
    <3>1. \A i \in 1..Len(s) : i = 1 \/ i \in 2..Len(s)
      BY <1>1
    <3> QED BY <1>1, <2>2, <3>1 DEF NotIn
  <2> QED BY <2>1, <2>2
<1>3. ASSUME BreakIsLast(t, c) PROVE BreakIsLast(s, c)
  <2>1. PICK i \in 2..Len(t) : t[i] = c /\ t[i - 1] = \hF0 /\ \A j \in (i + 1)..Len(t) : t[j] # c
    BY <1>3 DEF BreakIsLast
  <2>2. i \in 1..Len(t) /\ i - 1 \in 1..Len(t) /\ i + 1 \in 2..Len(s)
    BY <1>1
  <2>3. s[i + 1] = c /\ s[(i - 1) + 1] = \hF0 /\ (i - 1) + 1 = (i + 1) - 1
    BY <1>1, <2>1, <2>2
  <2>4. ASSUME NEW j \in ((i + 1) + 1)..Len(s) PROVE s[j] # c
    <3>1. j \in 2..Len(s) /\ j - 1 \in (i + 1)..Len(t)
      BY <1>1
    <3> QED BY <1>1, <2>1, <3>1
  <2> QED BY <2>2, <2>3, <2>4 DEF BreakIsLast
<1>4. ASSUME BreakIsLast(s, c)
      PROVE  \/ BreakIsLast(t, c)
             \/ x = \hF0 /\ OnlyFirst(t, c)
  <2>1. PICK i \in 2..Len(s) : s[i] = c /\ s[i - 1] = \hF0 /\ \A j \in (i + 1)..Len(s) : s[j] # c
    BY <1>4 DEF BreakIsLast
  <2>2. i - 1 \in 1..Len(t) /\ t[i - 1] = c
    BY <1>1, <2>1
  <2>3. ASSUME NEW j \in ((i - 1) + 1)..Len(t) PROVE t[j] # c
    <3>1. j \in 1..Len(t) /\ j + 1 \in (i + 1)..Len(s)
      BY <1>1
    <3> QED BY <1>1, <2>1, <3>1
  <2>4. CASE i = 2
    <3>1. t[1] = c /\ s[1] = \hF0
      BY <2>1, <2>2, <2>4
    <3>2. \A j \in 2..Len(t) : t[j] # c
      BY <2>3, <2>4
    <3>3. t # <<>>
      BY <1>1, <2>2
    <3>4. x = \hF0
      BY <1>1, <3>1
    <3> QED BY <3>1, <3>2, <3>3, <3>4, Zenon DEF OnlyFirst
  <2>5. CASE i # 2
    <3>1. i - 1 \in 2..Len(t) /\ i - 1 \in 2..Len(s)
      BY <1>1, <2>2, <2>5
    <3>2. t[(i - 1) - 1] = \hF0
      BY <1>1, <2>1, <3>1
    <3> QED BY <2>2, <2>3, <3>1, <3>2 DEF BreakIsLast
  <2> QED BY <2>4, <2>5
<1> QED BY <1>2, <1>3, <1>4, Zenon DEF s

LEMMA TidyBack ==
  ASSUME NEW s \in Seq(Byte), NEW t \in Seq(Byte), Tidy(s), Tidy(t)
  PROVE  Tidy(s \o t)
<1> DEFINE u == s \o t
<1>1. /\ u \in Seq(Byte) /\ Len(u) = Len(s) + Len(t) /\ Len(s) \in Nat /\ Len(t) \in Nat
      /\ \A i \in 1..Len(s) : u[i] = s[i]
      /\ \A i \in 1..Len(t) : u[Len(s) + i] = t[i]
  BY Joined
<1> HIDE DEF u
<1>2. ASSUME NEW i \in 1..Len(u), u[i] = \hF0 PROVE i < Len(u) /\ u[i + 1] # \hF0
  <2>1. CASE i \in 1..Len(s)
    <3>1. i < Len(s) /\ s[i + 1] # \hF0
      BY <1>1, <1>2, <2>1 DEF Tidy
    <3>2. i + 1 \in 1..Len(s)
      BY <1>1, <3>1
    <3> QED BY <1>1, <3>1, <3>2
  <2>2. CASE i \notin 1..Len(s)
    <3> DEFINE k == i - Len(s)
    <3>1. k \in 1..Len(t) /\ i = Len(s) + k
      BY <1>1, <2>2
    <3> HIDE DEF k
    <3>2. t[k] = \hF0
      BY <1>1, <1>2, <3>1
    <3>3. k < Len(t) /\ t[k + 1] # \hF0
      BY <3>1, <3>2 DEF Tidy
    <3>4. k + 1 \in 1..Len(t) /\ i + 1 = Len(s) + (k + 1)
      BY <1>1, <3>1, <3>3
    <3> QED BY <1>1, <3>1, <3>3, <3>4
  <2> QED BY <2>1, <2>2
<1> QED BY <1>2 DEF Tidy, u

LEMMA UpBack ==
  ASSUME NEW s \in Seq(Byte), NEW t \in Seq(Byte), NEW c
  PROVE  /\ NotIn(s, c) /\ NotIn(t, c) => NotIn(s \o t, c)
         /\ BreakIsLast(s, c) /\ NotIn(t, c) => BreakIsLast(s \o t, c)
         /\ BreakIsLast(t, c) => BreakIsLast(s \o t, c)
<1> DEFINE u == s \o t
<1>1. /\ u \in Seq(Byte) /\ Len(u) = Len(s) + Len(t) /\ Len(s) \in Nat /\ Len(t) \in Nat
      /\ \A i \in 1..Len(s) : u[i] = s[i]
      /\ \A i \in 1..Len(t) : u[Len(s) + i] = t[i]
  BY Joined
<1> HIDE DEF u
<1>2. ASSUME NEW j \in 1..Len(u), j \notin 1..Len(s)
      PROVE  j - Len(s) \in 1..Len(t) /\ u[j] = t[j - Len(s)]
  <2>1. j - Len(s) \in 1..Len(t) /\ j = Len(s) + (j - Len(s))
    BY <1>1, <1>2
  <2> QED BY <1>1, <2>1
<1>3. ASSUME NotIn(s, c), NotIn(t, c) PROVE NotIn(u, c)
  <2> SUFFICES ASSUME NEW j \in 1..Len(u) PROVE u[j] # c
    BY DEF NotIn
  <2>1. CASE j \in 1..Len(s)
    BY <1>1, <1>3, <2>1 DEF NotIn
  <2>2. CASE j \notin 1..Len(s)
    BY <1>2, <1>3, <2>2 DEF NotIn
  <2> QED BY <2>1, <2>2
<1>4. ASSUME BreakIsLast(s, c), NotIn(t, c) PROVE BreakIsLast(u, c)
  <2>1. PICK i \in 2..Len(s) : s[i] = c /\ s[i - 1] = \hF0 /\ \A j \in (i + 1)..Len(s) : s[j] # c
    BY <1>4 DEF BreakIsLast
  <2>2. i \in 1..Len(s) /\ i - 1 \in 1..Len(s) /\ i \in 2..Len(u)
    BY <1>1
  <2>3. ASSUME NEW j \in (i + 1)..Len(u) PROVE u[j] # c
    <3>1. CASE j \in 1..Len(s)
      <4>1. j \in (i + 1)..Len(s)
        BY <3>1
      <4> QED BY <1>1, <2>1, <3>1, <4>1
    <3>2. CASE j \notin 1..Len(s)
      <4>1. j \in 1..Len(u)
        BY <1>1
      <4> QED BY <1>2, <1>4, <3>2, <4>1 DEF NotIn
    <3> QED BY <3>1, <3>2
  <2>4. u[i] = c /\ u[i - 1] = \hF0
    <3>1. u[i] = s[i] /\ u[i - 1] = s[i - 1]
      BY <1>1, <2>2, Zenon
    <3> QED BY <2>1, <3>1, Zenon
  <2> QED BY <2>2, <2>3, <2>4 DEF BreakIsLast
<1>5. ASSUME BreakIsLast(t, c) PROVE BreakIsLast(u, c)
  <2>1. PICK i \in 2..Len(t) : t[i] = c /\ t[i - 1] = \hF0 /\ \A j \in (i + 1)..Len(t) : t[j] # c
    BY <1>5 DEF BreakIsLast
  <2> DEFINE k == Len(s) + i
  <2>2. i \in 1..Len(t) /\ i - 1 \in 1..Len(t) /\ k \in 2..Len(u) /\ k - 1 = Len(s) + (i - 1)
    BY <1>1
  <2>3. u[k] = c /\ u[k - 1] = \hF0
    <3>1. u[k] = t[i] /\ u[Len(s) + (i - 1)] = t[i - 1]
      BY <1>1, <2>2, Zenon
    <3> QED BY <2>1, <2>2, <3>1, Zenon
  <2>4. ASSUME NEW j \in (k + 1)..Len(u) PROVE u[j] # c
    <3>1. j \in 1..Len(u) /\ j \notin 1..Len(s) /\ j - Len(s) >= i + 1
      BY <1>1
    <3>2. j - Len(s) \in 1..Len(t) /\ u[j] = t[j - Len(s)]
      BY <1>2, <3>1
    <3>3. j - Len(s) \in (i + 1)..Len(t)
      BY <1>1, <3>1, <3>2
    <3> QED BY <2>1, <3>2, <3>3
  <2> HIDE DEF k
  <2> QED BY <2>2, <2>3, <2>4 DEF BreakIsLast
<1> QED BY <1>3, <1>4, <1>5 DEF u

\* The decoder takes a byte that is no break prefix; if it is a code, the OSD may
\* come to see it.
LEMMA SafeDrop ==
  ASSUME NEW x \in Byte, x # \hF0, NEW t \in Seq(Byte), 
         NEW osd, NEW osd2, osd2 \subseteq osd \cup {x}, NEW h, Safe(Ahead(x, t), osd, h)
  PROVE  Safe(t, osd2, h)
<1> DEFINE s == Ahead(x, t)
<1>1. Tidy(t)
  BY TidyFront, Zenon DEF Safe
<1>2. ASSUME NEW c \in OsdKeys, \A k \in h : k.code # c
      PROVE  UpIn(t, osd2, c)
  <2>1. UpIn(s, osd, c)
    BY <1>2, Zenon DEF Safe
  <2>2. CASE BreakIsLast(s, c)
    BY <2>2, UpFront, Zenon DEF UpIn
  <2>3. CASE NotIn(s, c) /\ c \notin osd
    <3>1. x # c /\ NotIn(t, c)
      BY <2>3, UpFront, Zenon
    <3>2. c \notin osd2
      BY <2>3, <3>1
    <3> QED BY <3>1, <3>2, Zenon DEF UpIn
  <2> QED BY <2>1, <2>2, <2>3, Zenon DEF UpIn
<1> QED BY <1>1, <1>2, Zenon DEF Safe

\* It takes the first byte of an extended code.
LEMMA SafeExtended ==
  ASSUME NEW t \in Seq(Byte), NEW osd, NEW h, Safe(Ahead(\hE0, t), osd, h)
  PROVE  Safe(t, osd, h)
<1> DEFINE x == \hE0
<1>1. x \in Byte /\ x # \hF0 /\ osd \subseteq osd \cup {x} /\ Safe(Ahead(x, t), osd, h)
  BY DEF Byte
<1> HIDE DEF x
<1> QED BY <1>1, SafeDrop

\* It takes a break prefix and its code: the OSD no longer sees that one.
LEMMA SafeBreak ==
  ASSUME NEW x \in Byte, NEW t \in Seq(Byte), 
         NEW osd, NEW osd2, osd2 \subseteq osd, x \in OsdKeys => x \notin osd2,
         NEW h, Safe(Ahead(\hF0, Ahead(x, t)), osd, h)
  PROVE  Safe(t, osd2, h)
<1> DEFINE r == Ahead(x, t)  s == Ahead(\hF0, r)
<1>1. r \in Seq(Byte) /\ r[1] = x
      /\ Len(t) \in Nat /\ Len(r) = Len(t) + 1 /\ \A i \in 1..Len(t) : r[i + 1] = t[i]
  BY AheadIs
<1>2. \hF0 \in Byte
  BY DEF Byte
<1>3. Tidy(r) /\ x # \hF0
  <2>1. Tidy(s)
    BY Zenon DEF Safe
  <2>2. Tidy(s) => Tidy(r)
    BY <1>1, <1>2, TidyFront
  <2>3. Tidy(s) => r[1] # \hF0
    BY <1>1, <1>2, TidyFront
  <2> QED BY <1>1, <2>1, <2>2, <2>3, Zenon
<1>4. Tidy(t)
  BY <1>2, <1>3, TidyFront, Zenon
<1>6. \A y \in Byte, u \in Seq(Byte) : \A c :
        /\ NotIn(Ahead(y, u), c) => NotIn(u, c)
        /\ BreakIsLast(Ahead(y, u), c) => BreakIsLast(u, c) \/ OnlyFirst(u, c)
  BY UpFront, ZenonT(40)
<1>5. ASSUME NEW c \in OsdKeys, \A k \in h : k.code # c
      PROVE  UpIn(t, osd2, c)
  <2>1. UpIn(s, osd, c)
    BY <1>5, Zenon DEF Safe
  <2>2. CASE NotIn(s, c) /\ c \notin osd
    <3>1. NotIn(r, c)
      BY <1>1, <1>2, <1>6, <2>2, ZenonT(40)
    <3>2. NotIn(t, c)
      BY <1>2, <3>1, UpFront, Zenon
    <3>3. c \notin osd2
      BY <2>2
    <3> QED BY <3>2, <3>3, Zenon DEF UpIn
  <2>3. CASE BreakIsLast(r, c)
    <3>1. BreakIsLast(t, c)
      BY <1>2, <1>3, <2>3, UpFront, Zenon
    <3> QED BY <3>1, Zenon DEF UpIn
  <2>4. CASE OnlyFirst(r, c)
    <3>1. NotIn(t, c)
      <4>1. \A i \in 1..Len(t) : i + 1 \in 2..Len(r)
        BY <1>1
      <4> QED BY <1>1, <2>4, <4>1 DEF NotIn, OnlyFirst
    <3>2. c \notin osd2
      BY <1>1, <2>4, Zenon DEF OnlyFirst
    <3> QED BY <3>1, <3>2, Zenon DEF UpIn
  <2>5. BreakIsLast(s, c) => BreakIsLast(r, c) \/ OnlyFirst(r, c)
    BY <1>1, <1>2, <1>6, ZenonT(40)
  <2> QED BY <2>1, <2>2, <2>3, <2>4, <2>5, Zenon DEF UpIn
<1> QED BY <1>4, <1>5, Zenon DEF Safe

\* An answer comes in front.
LEMMA SafeFront ==
  ASSUME NEW x \in Byte, x # \hF0, x \notin OsdKeys, NEW t \in Seq(Byte), NEW osd, NEW h,
         Safe(t, osd, h)
  PROVE  Safe(Ahead(x, t), osd, h)
<1> DEFINE s == Ahead(x, t)
<1>1. Tidy(s)
  BY TidyFront, Zenon DEF Safe
<1>2. ASSUME NEW c \in OsdKeys, \A k \in h : k.code # c
      PROVE  UpIn(s, osd, c)
  <2>1. UpIn(t, osd, c) /\ x # c
    BY <1>2, Zenon DEF Safe
  <2>2. NotIn(t, c) => NotIn(s, c)
    BY <2>1, UpFront, Zenon
  <2>3. BreakIsLast(t, c) => BreakIsLast(s, c)
    BY UpFront, Zenon
  <2> QED BY <2>1, <2>2, <2>3, Zenon DEF UpIn
<1> QED BY <1>1, <1>2, Zenon DEF Safe

\* What comes behind says nothing of the keys it is not about, and the truth of
\* those it is about.
LEMMA SafeBack ==
  ASSUME NEW s \in Seq(Byte), NEW t \in Seq(Byte), NEW osd, NEW h, NEW h2, Safe(s, osd, h),
         Tidy(t),
         \A c \in OsdKeys : (\A k \in h2 : k.code # c) =>
            BreakIsLast(t, c) \/ (NotIn(t, c) /\ \A k \in h : k.code # c)
  PROVE  Safe(s \o t, osd, h2)
<1>1. Tidy(s \o t)
  BY TidyBack, Zenon DEF Safe
<1>2. ASSUME NEW c \in OsdKeys, \A k \in h2 : k.code # c
      PROVE  UpIn(s \o t, osd, c)
  <2>1. BreakIsLast(t, c) \/ (NotIn(t, c) /\ \A k \in h : k.code # c)
    BY <1>2, Zenon
  <2>2. CASE BreakIsLast(t, c)
    BY <2>2, UpBack, Zenon DEF UpIn
  <2>3. CASE NotIn(t, c) /\ \A k \in h : k.code # c
    <3>1. UpIn(s, osd, c)
      BY <2>3, Zenon DEF Safe
    <3> QED BY <2>3, <3>1, UpBack, Zenon DEF UpIn
  <2> QED BY <2>1, <2>2, <2>3, Zenon
<1> QED BY <1>1, <1>2, Zenon DEF Safe

-----------------------------------------------------------------------------
(* One cycle of the decoder.                                               *)

LEMMA BesideIs ==
  ASSUME NEW retrace, Beside(retrace), Handshake
  PROVE  /\ rden => q' = qreg /\ dsr' = FALSE
         /\ ~rden => q' = q /\ dsr' = dsr
         /\ wren => tx' = "delay"
         /\ ~wren => tx' = tx
BY Zenon DEF Beside, Handshake

LEMMA ClockParts ==
  ASSUME NEW retrace, Clock(retrace)
  PROVE  Decoder /\ Beside(retrace) /\ held' = held /\ out' = out /\ sent' = sent
         /\ shiftreg' = shiftreg /\ qreg' = qreg /\ garbled' = garbled
BY Zenon DEF Clock, Decoder, userVars, devVars

LEMMA ClockHandshake ==
  ASSUME Typed, Handshake, NEW retrace, Clock(retrace)
  PROVE  Handshake'
<1>1. /\ rden => q' = qreg /\ dsr' = FALSE
      /\ ~rden => q' = q /\ dsr' = dsr
      /\ wren => tx' = "delay"
      /\ ~wren => tx' = tx
      /\ Decoder
  BY ClockParts, BesideIs, Zenon
<1> state \in 0..30 /\ dsr \in BOOLEAN
  BY Zenon DEF Typed
<1>2. CASE Listen
  BY <1>1, <1>2 DEF Handshake, Listen, rden, wren
<1>3. CASE Await
  BY <1>1, <1>3 DEF Handshake, Await, rden, wren
<1>4. CASE Pass
  BY <1>1, <1>4 DEF Handshake, Pass, rden, wren
<1>5. CASE Prefix
  BY <1>1, <1>5 DEF Handshake, Prefix, rden, wren
<1>6. CASE KeyDown
  <2>1. state \in {5, 13} /\ state' = 1
    BY <1>6, Zenon DEF KeyDown
  <2> QED BY <1>1, <2>1 DEF Handshake, rden, wren
<1>7. CASE KeyUp
  <2>1. state \in {9, 17} /\ state' = 1
    BY <1>7, Zenon DEF KeyUp
  <2> QED BY <1>1, <2>1 DEF Handshake, rden, wren
<1>8. CASE Command
  BY <1>1, <1>8 DEF Handshake, Command, rden, wren
<1>9. CASE Acknowledge
  BY <1>1, <1>9 DEF Handshake, Acknowledge, rden, wren, Refused
<1> QED BY <1>1, <1>2, <1>3, <1>4, <1>5, <1>6, <1>7, <1>8, <1>9, Zenon DEF Decoder

\* The decoder loses no stream, and ps2tx begins to delay between two bytes or
\* loses the one that is there.
LEMMA ClockLost ==
  ASSUME Handshake, NEW retrace, Clock(retrace)
  PROVE  Lost => Lost'
<1>1. /\ wren => tx' = "delay"
      /\ ~wren => tx' = tx
      /\ shiftreg' = shiftreg /\ garbled' = garbled
  BY ClockParts, BesideIs, Zenon
<1> QED BY <1>1, Zenon DEF Lost

\* While ps2tx is idle an empty receiver means that the keyboard is between two
\* bytes.
LEMMA NothingSent ==
  ASSUME Typed, InPlace, ~Lost, tx = "idle", shiftreg = <<>>
  PROVE  sent = 0
<1> SUFFICES ASSUME sent # 0 PROVE FALSE
  OBVIOUS
<1>1. out # <<>> /\ shiftreg = SubSeq(Frame[Head(out)], 1, sent)
  BY Zenon DEF InPlace
<1> DEFINE f == Frame[Head(out)]
<1>2. f \in Seq(Bit) /\ Len(f) = 11 /\ sent \in 0..10
  BY <1>1, HeadTail, FrameIs, Zenon DEF Typed
<1> HIDE DEF f
<1>3. 1 \in 1..Len(f) /\ sent \in 1..Len(f)
  BY <1>2
<1>4. Len(SubSeq(f, 1, sent)) = sent - 1 + 1
  BY <1>2, <1>3, Piece
<1>5. Len(shiftreg) = 0 /\ Len(shiftreg) = sent - 1 + 1
  BY <1>1, <1>4, EmptySeq, Zenon DEF f
<1> QED BY <1>2, <1>5

LEMMA ClockInPlace ==
  ASSUME Typed, Handshake, InPlace, NEW retrace, Clock(retrace)
  PROVE  InPlace'
<1>1. /\ wren => tx' = "delay"
      /\ ~wren => tx' = tx
      /\ shiftreg' = shiftreg /\ garbled' = garbled /\ out' = out /\ sent' = sent
  BY ClockParts, BesideIs, Zenon
<1> SUFFICES ASSUME ~Lost'
             PROVE  /\ tx' = "idle" => IF sent = 0 THEN shiftreg = <<>>
                                       ELSE out # <<>> /\ shiftreg = SubSeq(Frame[Head(out)], 1, sent)
                    /\ tx' # "idle" => shiftreg = <<>> /\ sent <= DELAY_BITS
                    /\ tx' = "request" => sent = 0
  BY <1>1, Zenon DEF InPlace
<1>2. ~Lost
  BY ClockLost, Zenon
<1>3. CASE ~wren
  BY <1>1, <1>2, <1>3, Zenon DEF InPlace
<1>4. CASE wren
  <2>1. tx' = "delay" /\ shiftreg = <<>>
    BY <1>1, <1>4, Zenon DEF Lost
  <2>2. tx = "idle"
    BY <1>4 DEF Handshake, wren
  <2>3. sent = 0
    BY <1>2, <2>1, <2>2, NothingSent, Zenon
  <2>4. 0 <= DELAY_BITS
    BY WireAssumption
  <2> QED BY <2>1, <2>3, <2>4, Zenon
<1> QED BY <1>3, <1>4, Zenon

LEMMA StreamOfIs ==
  ASSUME NEW st \in 0..30, NEW x, NEW t
  PROVE  /\ st \in {4, 5, 25, 30} => StreamOf(st, x, t) = Ahead(x, t)
         /\ st \in {6, 7} => StreamOf(st, x, t) = Ahead(\hF0, t)
         /\ st \in {8, 9} => StreamOf(st, x, t) = Ahead(\hF0, Ahead(x, t))
         /\ st \in {10, 11} => StreamOf(st, x, t) = Ahead(\hE0, t)
         /\ st \in {12, 13} => StreamOf(st, x, t) = Ahead(\hE0, Ahead(x, t))
         /\ st \in {14, 15} => StreamOf(st, x, t) = Ahead(\hE0, Ahead(\hF0, t))
         /\ st \in {16, 17} => StreamOf(st, x, t) = Ahead(\hE0, Ahead(\hF0, Ahead(x, t)))
         /\ st \in (0..3) \cup (18..24) \cup (26..29) => StreamOf(st, x, t) = t
BY DEF StreamOf

\* A byte moves from the receiver to the decoder, or stays.
LEMMA ClockComing ==
  ASSUME Handshake, NEW retrace, Clock(retrace)
  PROVE  /\ rden => Coming = Ahead(q', Coming')
         /\ ~rden => Coming' = Coming /\ q' = q
<1>1. /\ rden => q' = qreg /\ dsr' = FALSE
      /\ ~rden => q' = q /\ dsr' = dsr
      /\ out' = out /\ qreg' = qreg
  BY ClockParts, BesideIs, Zenon
<1>2. rden => dsr
  BY Zenon DEF Handshake
<1>3. ASSUME rden PROVE Coming = Ahead(q', Coming')
  BY <1>1, <1>2, <1>3, Zenon DEF Coming
<1>4. ASSUME ~rden PROVE Coming' = Coming
  BY <1>1, <1>4 DEF Coming
<1> QED BY <1>1, <1>3, <1>4, Zenon

LEMMA ClockAnswered ==
  ASSUME Typed, Handshake, Answered, NEW retrace, Clock(retrace)
  PROVE  Answered'
<1> SUFFICES ASSUME ~Lost'
             PROVE  /\ state' \in {23, 24, 28, 29} /\ tx' = "idle" =>
                         Coming' # <<>> /\ Coming'[1] = \hFA
                    /\ state' \in {25, 30} => q' = \hFA
  BY Zenon DEF Answered
<1>1. ~Lost
  BY ClockLost, Zenon
<1>2. Decoder /\ (wren => tx' = "delay") /\ (~wren => tx' = tx)
  BY ClockParts, BesideIs, Zenon
<1>3. /\ state' \in {23, 24, 28, 29} => wren \/ (state \in {23, 28} /\ ~rden)
      /\ state' \in {25, 30} => state \in {24, 29} /\ rden
  <2> state \in 0..30
    BY Zenon DEF Typed
  <2>1. CASE Listen
    BY <2>1 DEF Listen
  <2>2. CASE Await
    BY <2>2 DEF Await, rden
  <2>3. CASE Pass
    BY <2>3 DEF Pass, rden, wren
  <2>4. CASE Prefix
    BY <2>4 DEF Prefix
  <2>5. CASE KeyDown \/ KeyUp
    <3>1. state' = 1
      BY <2>5, Zenon DEF KeyDown, KeyUp
    <3> QED BY <3>1
  <2>6. CASE Command
    BY <2>6 DEF Command
  <2>7. CASE Acknowledge
    BY <2>7 DEF Acknowledge, Refused
  <2> QED BY <1>2, <2>1, <2>2, <2>3, <2>4, <2>5, <2>6, <2>7, Zenon DEF Decoder
<1>4. ASSUME state' \in {23, 24, 28, 29}, tx' = "idle"
      PROVE  Coming' # <<>> /\ Coming'[1] = \hFA
  <2>1. tx = "idle" /\ state \in {23, 28} /\ ~rden
    BY <1>2, <1>3, <1>4
  <2>2. Coming' = Coming
    BY <2>1, ClockComing, Zenon
  <2>3. state \in {23, 24, 28, 29}
    BY <2>1
  <2> QED BY <1>1, <2>1, <2>2, <2>3, Zenon DEF Answered
<1>5. ASSUME state' \in {25, 30}
      PROVE  q' = \hFA
  <2>1. state \in {24, 29} /\ rden
    BY <1>3, <1>5
  <2>2. tx = "idle" /\ dsr
    BY <2>1 DEF Handshake
  <2>3. state \in {23, 24, 28, 29}
    BY <2>1
  <2>4. Coming[1] = \hFA
    BY <1>1, <2>2, <2>3, Zenon DEF Answered
  <2>5. Coming = Ahead(qreg, out) /\ q' = qreg
    BY <2>1, <2>2, ClockParts, BesideIs, Zenon DEF Coming
  <2>6. Ahead(qreg, out)[1] = qreg
    BY AheadIs, Zenon DEF Typed
  <2> QED BY <2>4, <2>5, <2>6, Zenon
<1> QED BY <1>4, <1>5, Zenon

\* Every step of the decoder but those that are done with a code or an answer
\* leaves the stream as it is.
LEMMA ClockStream ==
  ASSUME Typed, Handshake, NEW retrace \in BOOLEAN, Clock(retrace),
         state \notin {5, 9, 13, 17, 25, 30}
  PROVE  Stream' = Stream /\ UNCHANGED keyVars
<1> DEFINE a == Coming  b == Coming'  x == q  y == q'
<1>1. /\ Decoder
      /\ rden => a = Ahead(y, b)
      /\ ~rden => b = a /\ y = x
  BY ClockParts, ClockComing, Zenon
<1>2. state \in 0..30 /\ state' \in 0..30
  <2>1. Typed'
    BY ClockTyped, Zenon
  <2> QED BY <2>1, Zenon DEF Typed
<1>3. Stream = StreamOf(state, x, a) /\ Stream' = StreamOf(state', y, b)
  BY Zenon DEF Stream
<1>4. ~KeyDown /\ ~KeyUp /\ ~Acknowledge
  BY <1>2 DEF KeyDown, KeyUp, Acknowledge
<1> HIDE DEF a, b, y
<1>5. StreamOf(state', y, b) = StreamOf(state, x, a)
  <2>1. CASE Listen
    BY <1>1, <1>2, <2>1, StreamOfIs DEF Listen, rden
  <2>2. CASE Await
    BY <1>1, <1>2, <2>2, StreamOfIs DEF Await, rden
  <2>3. CASE Pass
    <3>1. CASE rden
      <4>1. \/ state = 3 /\ state' = 4
            \/ state = 7 /\ state' = 8
            \/ state = 11 /\ state' = 12
            \/ state = 15 /\ state' = 16
            \/ state = 24 /\ state' = 25
            \/ state = 29 /\ state' = 30
        <5>1. state \in {3, 7, 11, 15, 24, 29}
          BY <3>1 DEF rden
        <5>2. state' = state + 1
          BY <2>3, <5>1 DEF Pass
        <5> QED BY <5>1, <5>2
      <4>2. a = Ahead(y, b)
        BY <1>1, <3>1, Zenon
      <4> HIDE DEF x
      <4>3. CASE state = 3 /\ state' = 4
        BY <4>2, <4>3 DEF StreamOf
      <4>4. CASE state = 7 /\ state' = 8
        BY <4>2, <4>4 DEF StreamOf
      <4>5. CASE state = 11 /\ state' = 12
        BY <4>2, <4>5 DEF StreamOf
      <4>6. CASE state = 15 /\ state' = 16
        BY <4>2, <4>6 DEF StreamOf
      <4>7. CASE state = 24 /\ state' = 25
        BY <4>2, <4>7 DEF StreamOf
      <4>8. CASE state = 29 /\ state' = 30
        BY <4>2, <4>8 DEF StreamOf
      <4> QED BY <4>1, <4>3, <4>4, <4>5, <4>6, <4>7, <4>8, Zenon
    <3>2. CASE ~rden
      <4>1. \/ state = 0 /\ state' = 18
            \/ state = 1 /\ state' = 2
            \/ state = 8 /\ state' = 9
            \/ state = 16 /\ state' = 17
            \/ state = 19 /\ state' = 20
            \/ state = 22 /\ state' = 23
            \/ state = 27 /\ state' = 28
        <5>1. state \in {0, 1, 8, 16, 19, 22, 27}
          BY <2>3, <3>2 DEF Pass, wren
        <5>2. state' = IF state = 0 THEN 18 ELSE state + 1
          BY <2>3, <5>1 DEF Pass
        <5> QED BY <5>1, <5>2
      <4>2. b = a /\ y = x
        BY <1>1, <3>2, Zenon
      <4> QED BY <1>2, <4>1, <4>2, StreamOfIs
    <3> QED BY <3>1, <3>2
  <2>4. CASE Prefix
    <3>1. \/ state = 4 /\ state' = 10 /\ x = \hE0
          \/ state = 4 /\ state' = 6 /\ x = \hF0
          \/ state = 4 /\ state' = 5
          \/ state = 12 /\ state' = 14 /\ x = \hF0
          \/ state = 12 /\ state' = 13
      BY <2>4 DEF Prefix
    <3>2. ~rden
      BY <3>1 DEF rden
    <3>3. b = a /\ y = x
      BY <1>1, <3>2, Zenon
    <3> HIDE DEF x
    <3> QED BY <1>2, <3>1, <3>3, StreamOfIs
  <2>5. CASE Command
    <3>1. state \in {18, 20, 21, 26} /\ state' \in {1, 19, 20, 22, 27}
      BY <2>5 DEF Command
    <3>2. ~rden
      BY <3>1 DEF rden
    <3>3. b = a
      BY <1>1, <3>2, Zenon
    <3> QED BY <1>2, <3>1, <3>3, StreamOfIs
  <2> QED BY <1>1, <1>4, <2>1, <2>2, <2>3, <2>4, <2>5, Zenon DEF Decoder
<1>6. UNCHANGED keyVars
  BY <1>1, <1>4, Zenon DEF Decoder, Listen, Await, Pass, Prefix, Command
<1> QED BY <1>3, <1>5, <1>6, Zenon

\* No key of the OSD has a line of its own.
LEMMA OsdHasNoLine == \A code \in OsdKeys, ext \in BOOLEAN : Line(code, ext) = {}
BY DEF OsdKeys, Line

\* What the decoder does with a code it has taken whole.
LEMMA TakenCode ==
  ASSUME Typed, KeyDown \/ KeyUp
  PROVE  /\ KeyDown => key_osd' \subseteq key_osd \cup {q}
         /\ KeyUp => key_osd' \subseteq key_osd /\ (q \in OsdKeys => q \notin key_osd')
<1>1. ASSUME KeyDown PROVE key_osd' \subseteq key_osd \cup {q}
  <2>1. key_osd' \in {key_osd, key_osd \cup ({q} \cap OsdKeys), key_osd \ {q}}
    BY <1>1, Zenon DEF KeyDown
  <2> QED BY <2>1
<1>2. ASSUME KeyUp PROVE key_osd' \subseteq key_osd /\ (q \in OsdKeys => q \notin key_osd')
  <2>1. (Line(q, state = 17) # {} /\ key_osd' = key_osd) \/ key_osd' = key_osd \ {q}
    BY <1>2, Zenon DEF KeyUp, OsdRelease
  <2>2. (state = 17) \in BOOLEAN
    OBVIOUS
  <2>3. q \in OsdKeys => Line(q, state = 17) = {}
    BY <2>2, OsdHasNoLine, Zenon
  <2> QED BY <2>1, <2>3
<1> QED BY <1>1, <1>2

\* When the decoder is done with a code, or with the answer to a command, the stream
\* is what the keyboard has to send.
LEMMA ClockTaken ==
  ASSUME Typed, Handshake, NEW retrace \in BOOLEAN, Clock(retrace),
         state \in {5, 9, 13, 17, 25, 30}
  PROVE  /\ state \in {5, 13} => KeyDown
         /\ state \in {9, 17} => KeyUp
         /\ state \in {25, 30} => Acknowledge \/ Pass
         /\ Stream = StreamOf(state, q, out) /\ Stream' = out
         /\ held' = held /\ out' = out
<1>1. Decoder /\ ~rden /\ ~dsr /\ held' = held /\ out' = out
  BY ClockParts DEF rden, Handshake
<1>2. Coming = out /\ Coming' = out
  BY <1>1, ClockComing, Zenon DEF Coming
<1>3. state \in 0..30
  BY Zenon DEF Typed
<1>4. /\ state \in {5, 13} => KeyDown
      /\ state \in {9, 17} => KeyUp
      /\ state \in {25, 30} => Acknowledge \/ Pass
  <2>1. /\ Listen => state = 2
        /\ Await => state \in {6, 10, 14, 23, 28}
        /\ Prefix => state \in {4, 12}
        /\ Command => state \in {18, 20, 21, 26}
        /\ Acknowledge => state = 25
    BY DEF Listen, Await, Prefix, Command, Acknowledge
  <2>2. /\ KeyDown => state \in {5, 13}
        /\ KeyUp => state \in {9, 17}
    BY Zenon DEF KeyDown, KeyUp
  <2>3. Pass => state \notin {5, 9, 13, 17}
    BY DEF Pass, rden, wren
  <2> QED BY <1>1, <2>1, <2>2, <2>3 DEF Decoder
<1>5. state' \in {1, 26}
  <2>1. CASE state \in {5, 9, 13, 17}
    <3>1. KeyDown \/ KeyUp
      BY <1>4, <2>1
    <3>2. state' = 1
      BY <3>1, Zenon DEF KeyDown, KeyUp
    <3> QED BY <3>2
  <2>2. CASE state \in {25, 30}
    BY <1>4, <2>2 DEF Acknowledge, Pass, Refused, rden, wren
  <2> QED BY <2>1, <2>2
<1>6. Stream' = out
  <2>1. Stream' = StreamOf(state', q', out)
    BY <1>2, Zenon DEF Stream
  <2>2. state' \in 0..30 /\ state' \in (0..3) \cup (18..24) \cup (26..29)
    BY <1>5
  <2> QED BY <2>1, <2>2, StreamOfIs
<1>7. Stream = StreamOf(state, q, out)
  BY <1>2, Zenon DEF Stream
<1> QED BY <1>1, <1>4, <1>6, <1>7, Zenon

\* What is left of it is safe.
LEMMA ClockTakes ==
  ASSUME Typed, Handshake, Answered, GoingUp, ~Lost, NEW retrace \in BOOLEAN, Clock(retrace),
         state \in {5, 9, 13, 17, 25, 30}
  PROVE  Safe(Stream', key_osd', held')
<1>1. /\ state \in {5, 13} => KeyDown
      /\ state \in {9, 17} => KeyUp
      /\ state \in {25, 30} => Acknowledge \/ Pass
      /\ Stream = StreamOf(state, q, out) /\ Stream' = out
      /\ held' = held
  BY ClockTaken, Zenon
<1>3. q \in Byte /\ out \in Seq(Byte) /\ state \in 0..30 /\ \hF0 \in Byte /\ \hE0 \in Byte
      /\ \hFA \in Byte /\ \hE0 # \hF0 /\ \hFA # \hF0
  BY DEF Typed, Byte
<1>7. Safe(StreamOf(state, q, out), key_osd, held)
  BY <1>1, Zenon DEF GoingUp
<1>8. Ahead(q, out) \in Seq(Byte) /\ Ahead(\hF0, Ahead(q, out)) \in Seq(Byte)
  BY <1>3, AheadIs
<1>9. Safe(out, key_osd', held)
  <2>1. CASE state \in {5, 13}
    <3>1. key_osd' \subseteq key_osd \cup {q}
      BY <1>1, <2>1, TakenCode, Zenon
    <3>2. q # \hF0
      BY <2>1 DEF Handshake
    <3>3. Safe(Ahead(q, out), key_osd, held)
      <4>1. CASE state = 5
        BY <1>3, <1>7, <4>1, StreamOfIs
      <4>2. CASE state = 13
        <5>1. Safe(Ahead(\hE0, Ahead(q, out)), key_osd, held)
          BY <1>3, <1>7, <4>2, StreamOfIs
        <5> QED BY <1>8, <5>1, SafeExtended, Zenon
      <4> QED BY <2>1, <4>1, <4>2
    <3> QED BY <1>3, <3>1, <3>2, <3>3, SafeDrop
  <2>2. CASE state \in {9, 17}
    <3>1. key_osd' \subseteq key_osd /\ (q \in OsdKeys => q \notin key_osd')
      BY <1>1, <2>2, TakenCode, Zenon
    <3>2. Safe(Ahead(\hF0, Ahead(q, out)), key_osd, held)
      <4>1. CASE state = 9
        BY <1>3, <1>7, <4>1, StreamOfIs
      <4>2. CASE state = 17
        <5>1. Safe(Ahead(\hE0, Ahead(\hF0, Ahead(q, out))), key_osd, held)
          BY <1>3, <1>7, <4>2, StreamOfIs
        <5> QED BY <1>8, <5>1, SafeExtended, Zenon
      <4> QED BY <2>2, <4>1, <4>2
    <3> QED BY <1>3, <3>1, <3>2, SafeBreak
  <2>3. CASE state \in {25, 30}
    <3>1. key_osd' = key_osd
      BY <1>1, <2>3, Zenon DEF Acknowledge, Pass, keyVars
    <3>2. q = \hFA
      BY <2>3, Zenon DEF Answered
    <3>3. Safe(Ahead(q, out), key_osd, held)
      BY <1>3, <1>7, <2>3, StreamOfIs
    <3>4. key_osd' \subseteq key_osd \cup {q}
      BY <3>1
    <3> QED BY <1>3, <3>2, <3>3, <3>4, SafeDrop
  <2> QED BY <2>1, <2>2, <2>3
<1> QED BY <1>1, <1>9, Zenon

LEMMA ClockGoingUp ==
  ASSUME Typed, Handshake, Answered, GoingUp, NEW retrace \in BOOLEAN, Clock(retrace)
  PROVE  GoingUp'
<1> SUFFICES ASSUME ~Lost' PROVE Safe(Stream', key_osd', held')
  BY Zenon DEF GoingUp
<1>1. ~Lost
  BY ClockLost, Zenon
<1>2. CASE state \in {5, 9, 13, 17, 25, 30}
  BY <1>1, <1>2, ClockTakes, Zenon
<1>3. CASE state \notin {5, 9, 13, 17, 25, 30}
  <2>1. Stream' = Stream /\ key_osd' = key_osd /\ held' = held
    BY <1>3, ClockStream, ClockParts, Zenon DEF keyVars
  <2> QED BY <1>1, <2>1, Zenon DEF GoingUp
<1> QED BY <1>2, <1>3, Zenon

-----------------------------------------------------------------------------
(* The wire.                                                               *)

\* A state in which nothing of the bytes under way changes.
Still ==
  /\ held' = held /\ q' = q /\ state' = state /\ key_osd' = key_osd
  /\ Coming' = Coming

LEMMA StillStream == Still => Stream' = Stream /\ held' = held /\ key_osd' = key_osd
BY Zenon DEF Still, Stream

LEMMA SendsIs ==
  ASSUME DeviceSends
  PROVE  /\ Waiting /\ out # <<>>
         /\ \/ tx = "idle" /\ Receive(SentBits)
            \/ /\ tx = "delay" /\ NextCut <= Len(shiftreg) + DELAY_BITS
               /\ shiftreg' = shiftreg /\ qreg' = qreg /\ dsr' = dsr
         /\ NextCut = 11 => sent' = 0 /\ out' = Tail(out)
         /\ NextCut # 11 => sent' = NextCut /\ out' = out
         /\ held' = held /\ q' = q /\ tx' = tx /\ state' = state /\ key_osd' = key_osd
         /\ garbled' = garbled
<1>1. /\ Waiting /\ out # <<>>
      /\ \/ tx = "idle" /\ Receive(SentBits)
         \/ /\ tx = "delay" /\ NextCut <= Len(shiftreg) + DELAY_BITS
            /\ UNCHANGED <<shiftreg, qreg, dsr>>
      /\ IF NextCut = 11 THEN sent' = 0 /\ out' = Tail(out) ELSE sent' = NextCut /\ UNCHANGED out
      /\ UNCHANGED <<userVars, expects, lamps, q, txVars, state, keyVars, ledVars, osdVars,
                     rusVars, garbled, resets>>
  BY Zenon DEF DeviceSends, SentBits, NextCut
<1>2. /\ NextCut = 11 => sent' = 0 /\ out' = Tail(out)
      /\ NextCut # 11 => sent' = NextCut /\ out' = out
  BY <1>1, Zenon
<1>3. \/ tx = "idle" /\ Receive(SentBits)
      \/ /\ tx = "delay" /\ NextCut <= Len(shiftreg) + DELAY_BITS
         /\ shiftreg' = shiftreg /\ qreg' = qreg /\ dsr' = dsr
  BY <1>1, Zenon
<1> QED BY <1>1, <1>2, <1>3, Zenon DEF userVars, txVars, keyVars

LEMMA WaitingIs ==
  Waiting => /\ ~dsr /\ ~rden /\ Coming = out
             /\ state \in {2, 6, 10, 14, 20, 23, 28}
             /\ (state = 20 => tx # "idle")
<1>1. ASSUME Waiting
      PROVE  ~dsr /\ state \in {2, 6, 10, 14, 20, 23, 28} /\ (state = 20 => tx # "idle")
  BY <1>1, Zenon DEF Waiting
<1>2. ASSUME state \in {2, 6, 10, 14, 20, 23, 28} PROVE ~rden
  BY <1>2 DEF rden
<1>3. ASSUME ~dsr PROVE Coming = out
  BY <1>3, Zenon DEF Coming
<1> QED BY <1>1, <1>2, <1>3, Zenon

LEMMA SendsHandshake ==
  ASSUME Typed, Handshake, DeviceSends
  PROVE  Handshake' /\ (Lost => Lost')
<1>1. /\ Waiting
      /\ tx = "idle" \/ (dsr' = dsr /\ shiftreg' = shiftreg)
      /\ q' = q /\ tx' = tx /\ state' = state /\ garbled' = garbled
  BY SendsIs, Zenon
<1>2. ~dsr /\ state \in {2, 6, 10, 14, 20, 23, 28} /\ (state = 20 => tx # "idle")
  BY <1>1, WaitingIs, Zenon
<1>3. Handshake'
  BY <1>1, <1>2 DEF Handshake, rden
<1>4. Lost => Lost'
  BY <1>1 DEF Lost
<1> QED BY <1>3, <1>4

\* What the receiver has is what was sent; the byte that is complete passes from
\* the keyboard to the receiver.
LEMMA SendsInPlace ==
  ASSUME Typed, InPlace, ~Lost, DeviceSends
  PROVE  /\ tx = "idle" => IF sent' = 0 THEN shiftreg' = <<>>
                           ELSE out' # <<>> /\ shiftreg' = SubSeq(Frame[Head(out')], 1, sent')
         /\ tx # "idle" => tx = "delay" /\ shiftreg' = <<>> /\ sent' <= DELAY_BITS
         /\ Coming' = Coming
<1>1. /\ Waiting /\ out # <<>>
      /\ \/ tx = "idle" /\ Receive(SentBits)
         \/ /\ tx = "delay" /\ NextCut <= Len(shiftreg) + DELAY_BITS
            /\ shiftreg' = shiftreg /\ qreg' = qreg /\ dsr' = dsr
      /\ NextCut = 11 => sent' = 0 /\ out' = Tail(out)
      /\ NextCut # 11 => sent' = NextCut /\ out' = out
  BY SendsIs, Zenon
<1>2. out \in Seq(Byte) /\ sent \in 0..10
  BY Zenon DEF Typed
<1>3. NextCut \in 1..11 /\ NextCut > sent
  BY <1>2, NextCutIs
<1>4. ~dsr /\ Coming = out
  BY <1>1, WaitingIs, Zenon
<1>5. CASE tx = "idle"
  <2> DEFINE b == Head(out)  n == NextCut
  <2>1. b \in Byte
    BY <1>1, <1>2, HeadTail, Zenon
  <2>2. shiftreg = SubSeq(Frame[b], 1, sent)
    <3>1. CASE sent = 0
      <4>1. Frame[b] \in Seq(Bit)
        BY <2>1, FrameIs, Zenon
      <4>2. 0 < 1 /\ 0 \in Int /\ 1 \in Int
        OBVIOUS
      <4>3. SubSeq(Frame[b], 1, 0) = <<>>
        BY <4>1, <4>2, SubSeqEmpty, Zenon
      <4> QED BY <1>5, <3>1, <4>3, Zenon DEF InPlace
    <3>2. CASE sent # 0
      BY <1>5, <3>2, Zenon DEF InPlace
    <3> QED BY <3>1, <3>2
  <2>3. Receive(SubSeq(Frame[b], sent + 1, n))
    BY <1>1, <1>5, Zenon DEF SentBits
  <2> HIDE DEF b, n
  <2>4. n \in 1..11 /\ sent < n
    BY <1>3 DEF n
  <2>5. /\ n = 11 => qreg' = b /\ dsr' = TRUE /\ shiftreg' = <<>>
        /\ n < 11 => shiftreg' = SubSeq(Frame[b], 1, n) /\ qreg' = qreg /\ dsr' = dsr
    BY <1>2, <2>1, <2>2, <2>3, <2>4, ReceivesFrame, Zenon
  <2>6. CASE n = 11
    <3>1. sent' = 0 /\ out' = Tail(out) /\ qreg' = b /\ dsr' /\ shiftreg' = <<>>
      BY <1>1, <2>5, <2>6, Zenon DEF n
    <3>2. Ahead(b, Tail(out)) = out
      BY <1>1, <1>2 DEF Ahead, b
    <3>3. Coming' = out
      BY <3>1, <3>2, Zenon DEF Coming
    <3> QED BY <1>4, <1>5, <3>1, <3>3, Zenon
  <2>7. CASE n # 11
    <3>1. n < 11 /\ n # 0
      BY <2>4, <2>7
    <3>2. sent' = n /\ out' = out /\ shiftreg' = SubSeq(Frame[b], 1, n) /\ ~dsr'
      BY <1>1, <1>4, <2>5, <2>7, <3>1 DEF n
    <3>3. Coming' = out
      BY <3>2, Zenon DEF Coming
    <3> QED BY <1>1, <1>4, <1>5, <3>1, <3>2, <3>3, Zenon DEF b
  <2> QED BY <2>6, <2>7
<1>6. CASE tx # "idle"
  <2>1. /\ tx = "delay" /\ shiftreg = <<>> /\ NextCut <= Len(shiftreg) + DELAY_BITS
        /\ shiftreg' = <<>> /\ ~dsr'
    BY <1>1, <1>4, <1>6 DEF InPlace
  <2>2. NextCut <= DELAY_BITS /\ NextCut # 11
    <3>1. Len(shiftreg) = 0 /\ DELAY_BITS \in 0..10
      BY <2>1, WireAssumption
    <3> QED BY <1>3, <2>1, <3>1
  <2>3. sent' = NextCut /\ out' = out
    BY <1>1, <2>2, Zenon
  <2>4. Coming' = out
    BY <2>1, <2>3, Zenon DEF Coming
  <2> QED BY <1>4, <1>6, <2>1, <2>2, <2>3, <2>4, Zenon
<1> QED BY <1>5, <1>6, Zenon

LEMMA SendsKeeps ==
  ASSUME KbInv, DeviceSends
  PROVE  InPlace' /\ Answered' /\ GoingUp'
<1>1. Typed /\ Handshake /\ InPlace /\ Answered /\ GoingUp
  BY Zenon DEF KbInv
<1>2. /\ Waiting /\ out # <<>>
      /\ held' = held /\ q' = q /\ tx' = tx /\ state' = state /\ key_osd' = key_osd
  BY SendsIs, Zenon
<1>3. Lost => Lost'
  BY <1>1, SendsHandshake, Zenon
<1> SUFFICES ASSUME ~Lost' PROVE InPlace' /\ Answered' /\ GoingUp'
  BY Zenon DEF InPlace, Answered, GoingUp
<1>4. /\ tx = "idle" => IF sent' = 0 THEN shiftreg' = <<>>
                        ELSE out' # <<>> /\ shiftreg' = SubSeq(Frame[Head(out')], 1, sent')
      /\ tx # "idle" => tx = "delay" /\ shiftreg' = <<>> /\ sent' <= DELAY_BITS
      /\ Coming' = Coming
  BY <1>1, <1>3, SendsInPlace, Zenon
<1>5. InPlace'
  <2>1. tx # "request"
    <3>1. "idle" # "request" /\ "delay" # "request"
      OBVIOUS
    <3> QED BY <1>4, <3>1, Zenon
  <2> QED BY <1>2, <1>4, <2>1, Zenon DEF InPlace
<1>6. Answered'
  BY <1>1, <1>2, <1>3, <1>4, Zenon DEF Answered
<1>7. GoingUp'
  <2>1. Stream' = Stream
    BY <1>2, <1>4, StillStream, Zenon DEF Still
  <2> QED BY <1>1, <1>2, <1>3, <2>1, Zenon DEF GoingUp
<1> QED BY <1>5, <1>6, <1>7, Zenon

LEMMA InhibitKeeps ==
  ASSUME KbInv, Inhibit
  PROVE  Handshake' /\ InPlace' /\ Answered' /\ GoingUp'
<1>1. /\ Typed /\ Handshake /\ InPlace /\ Answered /\ GoingUp
      /\ Waiting /\ tx = "delay" /\ tx' = "request" /\ sent' = 0
      /\ garbled' = (garbled \/ shiftreg # <<>>)
      /\ held' = held /\ out' = out /\ q' = q /\ qreg' = qreg /\ dsr' = dsr /\ state' = state
      /\ key_osd' = key_osd /\ shiftreg' = shiftreg
  BY Zenon DEF KbInv, Inhibit, userVars, rxVars, keyVars
<1>2. ~dsr /\ Coming = out /\ state \in {20, 23, 28}
  <2>1. "delay" # "idle"
    OBVIOUS
  <2> QED BY <1>1, <2>1, WaitingIs, Zenon DEF Handshake
<1>3. Coming' = Coming
  BY <1>1, <1>2 DEF Coming
<1>4. Lost' => garbled'
  BY <1>1 DEF Lost
<1>5. ~Lost' => ~garbled' /\ shiftreg' = <<>> /\ ~Lost
  BY <1>1 DEF Lost
<1>6. Handshake'
  BY <1>1, <1>2 DEF Handshake, rden
<1>7. InPlace'
  <2>1. 0 <= DELAY_BITS
    BY WireAssumption
  <2>2. tx' # "idle"
    BY <1>1
  <2> QED BY <1>1, <1>5, <2>1, <2>2, Zenon DEF InPlace
<1>8. Answered'
  <2>1. tx' # "idle" /\ state' \notin {25, 30}
    BY <1>1, <1>2
  <2> QED BY <2>1, Zenon DEF Answered
<1>9. GoingUp'
  <2>1. Stream' = Stream
    BY <1>1, <1>3, StillStream, Zenon DEF Still
  <2> QED BY <1>1, <1>5, <2>1, Zenon DEF GoingUp
<1> QED BY <1>6, <1>7, <1>8, <1>9, Zenon

\* The answer comes before all else.
LEMMA TakesStream ==
  ASSUME Typed, Handshake, DeviceTakes
  PROVE  /\ Coming' = Ahead(\hFA, out) /\ Stream = out /\ Stream' = Ahead(\hFA, out)
         /\ ~Lost' => ~Lost
<1>1. /\ Waiting /\ tx = "request" /\ out' = Ahead(\hFA, out)
      /\ q' = q /\ dsr' = dsr /\ state' = state /\ garbled' = garbled
  BY Zenon DEF DeviceTakes, rxVars, Ahead
<1>2. ~dsr /\ Coming = out /\ state \in {20, 23, 28}
  <2>1. "request" # "idle"
    OBVIOUS
  <2> QED BY <1>1, <2>1, WaitingIs, Zenon DEF Handshake
<1>3. Coming' = Ahead(\hFA, out) /\ state \in 0..30
  BY <1>1, <1>2 DEF Coming
<1>4. Stream = StreamOf(state, q, out) /\ Stream' = StreamOf(state, q, Ahead(\hFA, out))
  BY <1>1, <1>2, <1>3, Zenon DEF Stream
<1>5. state \in (0..3) \cup (18..24) \cup (26..29)
  BY <1>2
<1>6. Stream = out /\ Stream' = Ahead(\hFA, out)
  BY <1>3, <1>4, <1>5, StreamOfIs
<1>7. ~Lost' => ~Lost
  BY <1>1 DEF Lost
<1> QED BY <1>3, <1>6, <1>7, Zenon

LEMMA TakesKeeps ==
  ASSUME KbInv, DeviceTakes
  PROVE  Handshake' /\ InPlace' /\ Answered' /\ GoingUp'
<1>1. /\ Typed /\ Handshake /\ InPlace /\ Answered /\ GoingUp
      /\ Waiting /\ tx = "request" /\ tx' = "idle" /\ out' = Ahead(\hFA, out) /\ sent' = sent
      /\ garbled' = garbled
      /\ held' = held /\ q' = q /\ qreg' = qreg /\ dsr' = dsr /\ state' = state
      /\ key_osd' = key_osd /\ shiftreg' = shiftreg
  BY Zenon DEF KbInv, DeviceTakes, userVars, rxVars, keyVars, Ahead
<1>2. ~dsr /\ Coming = out /\ state \in {20, 23, 28}
  <2>1. "request" # "idle"
    OBVIOUS
  <2> QED BY <1>1, <2>1, WaitingIs, Zenon DEF Handshake
<1>3. out \in Seq(Byte)
  BY <1>1, Zenon DEF Typed
<1>4. /\ Coming' = Ahead(\hFA, out) /\ Stream = out /\ Stream' = Ahead(\hFA, out)
      /\ ~Lost' => ~Lost
  BY <1>1, TakesStream, Zenon
<1>5. Handshake'
  BY <1>1, <1>2 DEF Handshake, rden
<1>6. InPlace'
  <2>1. "request" # "idle" /\ "idle" # "request"
    OBVIOUS
  <2> QED BY <1>1, <1>4, <2>1, Zenon DEF InPlace
<1>7. Ahead(\hFA, out) # <<>> /\ Ahead(\hFA, out)[1] = \hFA
  <2> DEFINE x == \hFA
  <2>1. x \in Byte
    BY DEF Byte
  <2> HIDE DEF x
  <2>2. Ahead(x, out) # <<>> /\ Ahead(x, out)[1] = x
    BY <1>3, <2>1, AheadIs
  <2> QED BY <2>2 DEF x
<1>8. Answered'
  <2>1. state \notin {25, 30}
    BY <1>2
  <2> QED BY <1>1, <1>4, <1>7, <2>1, Zenon DEF Answered
<1>9. GoingUp'
  <2>2. ASSUME Safe(out, key_osd, held) PROVE Safe(Ahead(\hFA, out), key_osd, held)
    <3> DEFINE x == \hFA
    <3>1. x \in Byte /\ x # \hF0 /\ x \notin OsdKeys
      BY OsdCodes DEF Byte
    <3> HIDE DEF x
    <3>2. Safe(Ahead(x, out), key_osd, held)
      BY <1>3, <2>2, <3>1, SafeFront
    <3> QED BY <3>2 DEF x
  <2> QED BY <1>1, <1>4, <2>2, Zenon DEF GoingUp
<1> QED BY <1>5, <1>6, <1>8, <1>9, Zenon

\* A reset that cuts no byte and no code leaves what the keyboard has to send.
LEMMA ResetStream ==
  ASSUME Typed, Answered, Reset, ~Lost'
  PROVE  /\ ~Lost /\ shiftreg = <<>> /\ ~(tx = "delay" /\ sent > 0)
         /\ Stream' = out
         /\ \/ state \in {25, 30} /\ q = \hFA /\ Stream = Ahead(q, out)
            \/ Stream = out
<1>1. /\ state' = 0 /\ shiftreg' = <<>> /\ q' = 0 /\ dsr' = FALSE /\ tx' = "idle"
      /\ garbled' = (garbled \/ shiftreg # <<>> \/ dsr \/ state \in 3..17 \/ (tx = "delay" /\ sent > 0))
      /\ out' = out
  BY Zenon DEF Reset, devVars
<1>2. /\ ~Lost /\ shiftreg = <<>> /\ ~dsr /\ state \notin 3..17 /\ ~(tx = "delay" /\ sent > 0)
  BY <1>1, Zenon DEF Lost
<1>3. Coming = out /\ Coming' = out /\ state \in 0..30
  BY <1>1, <1>2, Zenon DEF Coming, Typed
<1>4. Stream' = out
  <2>1. Stream' = StreamOf(0, 0, out)
    BY <1>1, <1>3, Zenon DEF Stream
  <2>2. 0 \in 0..30 /\ 0 \in (0..3) \cup (18..24) \cup (26..29)
    OBVIOUS
  <2> QED BY <2>1, <2>2, StreamOfIs
<1>5. Stream = StreamOf(state, q, out)
  BY <1>3, Zenon DEF Stream
<1>6. CASE state \in {25, 30}
  <2>1. q = \hFA
    BY <1>2, <1>6, Zenon DEF Answered
  <2>2. Stream = Ahead(q, out)
    BY <1>3, <1>5, <1>6, StreamOfIs
  <2> QED BY <1>2, <1>4, <1>6, <2>1, <2>2, Zenon
<1>7. CASE state \notin {25, 30}
  <2>1. state \in (0..3) \cup (18..24) \cup (26..29)
    BY <1>2, <1>3, <1>7
  <2>2. Stream = out
    BY <1>3, <1>5, <2>1, StreamOfIs
  <2> QED BY <1>2, <1>4, <2>2, Zenon
<1> QED BY <1>6, <1>7, Zenon

LEMMA ResetKeeps ==
  ASSUME KbInv, Reset
  PROVE  Handshake' /\ InPlace' /\ Answered' /\ GoingUp'
<1>1. /\ Typed /\ Handshake /\ InPlace /\ Answered /\ GoingUp
      /\ state' = 0 /\ key_osd' = {} /\ shiftreg' = <<>> /\ q' = 0 /\ dsr' = FALSE /\ tx' = "idle"
      /\ garbled' = (garbled \/ shiftreg # <<>> \/ dsr \/ state \in 3..17 \/ (tx = "delay" /\ sent > 0))
      /\ held' = held /\ out' = out /\ sent' = sent
  BY Zenon DEF KbInv, Reset, userVars, devVars
<1>2. Handshake'
  BY <1>1 DEF Handshake, rden
<1>3. Answered'
  BY <1>1 DEF Answered
<1> SUFFICES ASSUME ~Lost' PROVE InPlace' /\ GoingUp'
  BY <1>2, <1>3, Zenon DEF InPlace, GoingUp
<1>4. /\ ~Lost /\ shiftreg = <<>> /\ ~(tx = "delay" /\ sent > 0)
      /\ Stream' = out
      /\ \/ state \in {25, 30} /\ q = \hFA /\ Stream = Ahead(q, out)
         \/ Stream = out
  BY <1>1, ResetStream, Zenon
<1>5. sent = 0
  <2>1. CASE tx = "idle"
    BY <1>1, <1>4, <2>1, NothingSent, Zenon
  <2>2. CASE tx = "delay"
    BY <1>1, <1>4, <2>2 DEF Typed
  <2>3. CASE tx = "request"
    BY <1>1, <1>4, <2>3, Zenon DEF InPlace
  <2> QED BY <1>1, <2>1, <2>2, <2>3, Zenon DEF Typed
<1>6. InPlace'
  <2>1. "idle" # "request"
    OBVIOUS
  <2> QED BY <1>1, <1>5, <2>1, Zenon DEF InPlace
<1>7. GoingUp'
  <2>1. out \in Seq(Byte) /\ q \in Byte
    BY <1>1, Zenon DEF Typed
  <2>2. Safe(Stream, key_osd, held)
    BY <1>1, <1>4, Zenon DEF GoingUp
  <2>3. Safe(out, {}, held)
    <3>1. CASE q = \hFA /\ Stream = Ahead(q, out)
      <4>1. Safe(Ahead(q, out), key_osd, held)
        BY <2>2, <3>1, Zenon
      <4>2. q # \hF0 /\ {} \subseteq key_osd \cup {q}
        BY <3>1
      <4> QED BY <2>1, <4>1, <4>2, SafeDrop
    <3>2. CASE Stream = out
      <4>1. Safe(out, key_osd, held)
        BY <2>2, <3>2, Zenon
      <4>2. \A c : c \notin {}
        OBVIOUS
      <4> QED BY <4>1, <4>2, Zenon DEF Safe, UpIn
    <3> QED BY <1>4, <3>1, <3>2, Zenon
  <2> QED BY <1>1, <1>4, <2>3, Zenon DEF GoingUp
<1> QED BY <1>6, <1>7

-----------------------------------------------------------------------------
(* The user.                                                               *)

LEMMA InNone ==
  ASSUME NEW c, NEW y, NEW z, NEW w, y # c, z # c, w # c
  PROVE  NotIn(<<y>>, c) /\ NotIn(<<y, z>>, c) /\ NotIn(<<y, z, w>>, c)
<1>1. NotIn(<<y>>, c)
  <2>1. \A i \in 1..Len(<<y>>) : i = 1
    OBVIOUS
  <2> QED BY <2>1 DEF NotIn
<1>2. NotIn(<<y, z>>, c)
  <2>1. \A i \in 1..Len(<<y, z>>) : i \in {1, 2}
    OBVIOUS
  <2>2. <<y, z>>[1] # c /\ <<y, z>>[2] # c
    OBVIOUS
  <2> QED BY <2>1, <2>2 DEF NotIn
<1>3. NotIn(<<y, z, w>>, c)
  <2>1. \A i \in 1..Len(<<y, z, w>>) : i \in {1, 2, 3}
    OBVIOUS
  <2>2. <<y, z, w>>[1] # c /\ <<y, z, w>>[2] # c /\ <<y, z, w>>[3] # c
    OBVIOUS
  <2> QED BY <2>1, <2>2 DEF NotIn
<1> QED BY <1>1, <1>2, <1>3

\* The code of a key, pressed and let go.
LEMMA CodeIs ==
  ASSUME NEW k \in Keys
  PROVE  /\ Tidy(Make(k)) /\ Tidy(Break(k)) /\ BreakIsLast(Break(k), k.code)
         /\ \A c \in OsdKeys : c # k.code => NotIn(Make(k), c) /\ NotIn(Break(k), c)
<1> DEFINE x == k.code
<1>1. x \in Byte /\ x # \hE0 /\ x # \hF0 /\ \hE0 # \hF0
  BY Coded
<1>2. Make(k) = <<x>> \/ Make(k) = <<\hE0, x>>
  BY Zenon DEF Make
<1>3. Break(k) = <<\hF0, x>> \/ Break(k) = <<\hE0, \hF0, x>>
  BY Zenon DEF Break
<1> HIDE DEF x
<1>4. Tidy(<<x>>) /\ Tidy(<<\hE0, x>>) /\ Tidy(<<\hF0, x>>) /\ Tidy(<<\hE0, \hF0, x>>)
  BY <1>1 DEF Tidy
<1>5. BreakIsLast(<<\hF0, x>>, x) /\ BreakIsLast(<<\hE0, \hF0, x>>, x)
  <2>1. BreakIsLast(<<\hF0, x>>, x)
    <3> DEFINE s == <<\hF0, x>>
    <3>1. 2 \in 2..Len(s) /\ s[2] = x /\ s[2 - 1] = \hF0 /\ \A j \in (2 + 1)..Len(s) : s[j] # x
      OBVIOUS
    <3> QED BY <3>1 DEF BreakIsLast
  <2>2. BreakIsLast(<<\hE0, \hF0, x>>, x)
    <3> DEFINE s == <<\hE0, \hF0, x>>
    <3>1. 3 \in 2..Len(s) /\ s[3] = x /\ s[3 - 1] = \hF0 /\ \A j \in (3 + 1)..Len(s) : s[j] # x
      OBVIOUS
    <3> QED BY <3>1 DEF BreakIsLast
  <2> QED BY <2>1, <2>2
<1>6. ASSUME NEW c \in OsdKeys, c # x
      PROVE  /\ NotIn(<<x>>, c) /\ NotIn(<<\hE0, x>>, c)
             /\ NotIn(<<\hF0, x>>, c) /\ NotIn(<<\hE0, \hF0, x>>, c)
  <2>1. c # \hE0 /\ c # \hF0
    BY <1>6, OsdCodes
  <2> DEFINE a == \hE0  b == \hF0
  <2>2. a # c /\ b # c /\ x # c
    BY <1>6, <2>1
  <2> HIDE DEF a, b
  <2>3. NotIn(<<x>>, c) /\ NotIn(<<a, x>>, c) /\ NotIn(<<b, x>>, c) /\ NotIn(<<a, b, x>>, c)
    BY <2>2, InNone, Zenon
  <2> QED BY <2>3, Zenon DEF a, b
<1> QED BY <1>2, <1>3, <1>4, <1>5, <1>6 DEF x

LEMMA AheadBack ==
  ASSUME NEW x \in Byte, NEW t \in Seq(Byte), NEW u \in Seq(Byte)
  PROVE  Ahead(x, t) \o u = Ahead(x, t \o u)
<1>1. <<x>> \in Seq(Byte)
  OBVIOUS
<1>2. (<<x>> \o t) \o u = <<x>> \o (t \o u)
  BY <1>1, ConcatAssociative
<1> QED BY <1>2 DEF Ahead

LEMMA StreamBack ==
  ASSUME Waiting, NEW x \in Byte, NEW t \in Seq(Byte), NEW u \in Seq(Byte)
  PROVE  StreamOf(state, x, t \o u) = StreamOf(state, x, t) \o u
         /\ StreamOf(state, x, t) \in Seq(Byte)
<1> DEFINE a == \hE0  b == \hF0
<1>1. state \in {2, 6, 10, 14, 20, 23, 28} /\ state \in 0..30
  <2>1. state \in {2, 6, 10, 14, 20, 23, 28}
    BY WaitingIs, Zenon
  <2> QED BY <2>1
<1>2. a \in Byte /\ b \in Byte
  BY DEF Byte
<1>3. \A y \in Seq(Byte) :
        /\ state = 6 => StreamOf(state, x, y) = Ahead(b, y)
        /\ state = 10 => StreamOf(state, x, y) = Ahead(a, y)
        /\ state = 14 => StreamOf(state, x, y) = Ahead(a, Ahead(b, y))
        /\ state \in {2, 20, 23, 28} => StreamOf(state, x, y) = y
  <2>1. ASSUME NEW y PROVE state = 6 => StreamOf(state, x, y) = Ahead(b, y)
    BY DEF StreamOf
  <2>2. ASSUME NEW y PROVE state = 10 => StreamOf(state, x, y) = Ahead(a, y)
    BY DEF StreamOf
  <2>3. ASSUME NEW y PROVE state = 14 => StreamOf(state, x, y) = Ahead(a, Ahead(b, y))
    BY DEF StreamOf
  <2>4. ASSUME NEW y, state \in {2, 20, 23, 28} PROVE StreamOf(state, x, y) = y
    <3>1. CASE state = 2
      BY <3>1 DEF StreamOf
    <3>2. CASE state = 20
      BY <3>2 DEF StreamOf
    <3>3. CASE state = 23
      BY <3>3 DEF StreamOf
    <3>4. CASE state = 28
      BY <3>4 DEF StreamOf
    <3> QED BY <2>4, <3>1, <3>2, <3>3, <3>4
  <2> HIDE DEF a, b
  <2> QED BY <2>1, <2>2, <2>3, <2>4
<1> HIDE DEF a, b
<1>4. t \o u \in Seq(Byte) /\ Ahead(b, t) \in Seq(Byte) /\ Ahead(a, t) \in Seq(Byte)
      /\ Ahead(a, Ahead(b, t)) \in Seq(Byte)
  <2>1. Ahead(b, t) \in Seq(Byte) /\ Ahead(a, t) \in Seq(Byte)
    BY <1>2, AheadIs
  <2> QED BY <1>2, <2>1, AheadIs, Joined
<1>5. Ahead(b, t) \o u = Ahead(b, t \o u) /\ Ahead(a, t) \o u = Ahead(a, t \o u)
      /\ Ahead(a, Ahead(b, t)) \o u = Ahead(a, Ahead(b, t) \o u)
  <2> \A y \in Byte : \A z \in Seq(Byte) : Ahead(y, z) \o u = Ahead(y, z \o u)
    BY AheadBack
  <2> QED BY <1>2, <1>4, Zenon
<1>6. CASE state = 6
  BY <1>3, <1>4, <1>5, <1>6, Zenon
<1>7. CASE state = 10
  BY <1>3, <1>4, <1>5, <1>7, Zenon
<1>8. CASE state = 14
  BY <1>3, <1>4, <1>5, <1>8, Zenon
<1>9. CASE state \in {2, 20, 23, 28}
  BY <1>3, <1>4, <1>9, Zenon
<1> QED BY <1>1, <1>6, <1>7, <1>8, <1>9

\* What the user does comes behind all that is under way, and is what holds of the
\* keys then.
LEMMA UserSafe ==
  ASSUME NEW k \in Keys, NEW bytes, NEW s \in Seq(Byte), NEW osd, NEW h, NEW h2, Safe(s, osd, h),
         \/ h2 = h \cup {k} /\ bytes = Make(k)
         \/ h2 = h \ {k} /\ bytes = Break(k)
         \/ h2 = h /\ bytes = Make(k) \o Break(k)
         \/ k \in h /\ h2 = h /\ bytes = Make(k)
  PROVE  Safe(s \o bytes, osd, h2)
<1>1. /\ Make(k) \in Seq(Byte) /\ Break(k) \in Seq(Byte) /\ Make(k) \o Break(k) \in Seq(Byte)
      /\ Tidy(Make(k)) /\ Tidy(Break(k)) /\ BreakIsLast(Break(k), k.code)
      /\ \A c \in OsdKeys : c # k.code => NotIn(Make(k), c) /\ NotIn(Break(k), c)
  <2>1. Make(k) \in Seq(Byte) /\ Break(k) \in Seq(Byte) /\ Make(k) \o Break(k) \in Seq(Byte)
    BY Coded, Zenon
  <2>2. /\ Tidy(Make(k)) /\ Tidy(Break(k)) /\ BreakIsLast(Break(k), k.code)
        /\ \A c \in OsdKeys : c # k.code => NotIn(Make(k), c) /\ NotIn(Break(k), c)
    BY CodeIs, Zenon
  <2> QED BY <2>1, <2>2, Zenon
<1>2. /\ Tidy(Make(k) \o Break(k)) /\ BreakIsLast(Make(k) \o Break(k), k.code)
      /\ \A c \in OsdKeys : c # k.code => NotIn(Make(k) \o Break(k), c)
  BY <1>1, TidyBack, UpBack, Zenon
<1>3. bytes \in Seq(Byte) /\ Tidy(bytes)
  BY <1>1, <1>2, Zenon
<1>4. ASSUME NEW c \in OsdKeys, \A j \in h2 : j.code # c
      PROVE  BreakIsLast(bytes, c) \/ (NotIn(bytes, c) /\ \A j \in h : j.code # c)
  <2>1. CASE bytes = Make(k) /\ k \in h2 /\ h \subseteq h2
    BY <1>1, <1>4, <2>1, Zenon
  <2>2. CASE h2 = h \ {k} /\ bytes = Break(k)
    <3>1. CASE c = k.code
      BY <1>1, <2>2, <3>1, Zenon
    <3>2. CASE c # k.code
      BY <1>1, <1>4, <2>2, <3>2
    <3> QED BY <3>1, <3>2
  <2>3. CASE h2 = h /\ bytes = Make(k) \o Break(k)
    BY <1>2, <1>4, <2>3, Zenon
  <2>4. (\/ h2 = h \cup {k} /\ bytes = Make(k)
         \/ k \in h /\ h2 = h /\ bytes = Make(k)) => bytes = Make(k) /\ k \in h2 /\ h \subseteq h2
    OBVIOUS
  <2> QED BY <2>1, <2>2, <2>3, <2>4, Zenon
<1> QED BY <1>3, <1>4, SafeBack, Zenon

LEMMA UserStream ==
  ASSUME Typed, NEW bytes \in Seq(Byte), UserActs(bytes)
  PROVE  Stream' = Stream \o bytes /\ Stream \in Seq(Byte) /\ (~Lost' => ~Lost)
<1>1. /\ Waiting /\ out' = out \o bytes
      /\ q' = q /\ dsr' = dsr /\ state' = state /\ tx' = tx /\ shiftreg' = shiftreg
      /\ garbled' = garbled
  BY Zenon DEF UserActs, rxVars, txVars
<1>2. ~dsr /\ Coming = out /\ Coming' = out \o bytes
  BY <1>1, WaitingIs DEF Coming
<1>3. Stream = StreamOf(state, q, out) /\ Stream' = StreamOf(state, q, out \o bytes)
  BY <1>1, <1>2, Zenon DEF Stream
<1>4. out \in Seq(Byte) /\ q \in Byte
  BY Zenon DEF Typed
<1>5. Stream' = Stream \o bytes /\ Stream \in Seq(Byte)
  BY <1>1, <1>3, <1>4, StreamBack, Zenon
<1>6. ~Lost' => ~Lost
  BY <1>1 DEF Lost
<1> QED BY <1>5, <1>6, Zenon

LEMMA UserKeeps ==
  ASSUME KbInv, User
  PROVE  Handshake' /\ InPlace' /\ Answered' /\ GoingUp'
<1>1. Typed /\ Handshake /\ InPlace /\ Answered /\ GoingUp
  BY Zenon DEF KbInv
<1>2. PICK k \in Keys : \E bytes :
        /\ \/ held' = held \cup {k} /\ bytes = Make(k)
           \/ held' = held \ {k} /\ bytes = Break(k)
           \/ held' = held /\ bytes = Make(k) \o Break(k)
           \/ k \in held /\ held' = held /\ bytes = Make(k)
        /\ UserActs(bytes)
  BY Zenon DEF User
<1>10. PICK bytes :
        /\ \/ held' = held \cup {k} /\ bytes = Make(k)
           \/ held' = held \ {k} /\ bytes = Break(k)
           \/ held' = held /\ bytes = Make(k) \o Break(k)
           \/ k \in held /\ held' = held /\ bytes = Make(k)
        /\ UserActs(bytes)
  BY <1>2, Zenon
<1>3. /\ Waiting /\ sent = 0 /\ (out = <<>> \/ tx = "delay") /\ out' = out \o bytes
      /\ q' = q /\ qreg' = qreg /\ dsr' = dsr /\ state' = state /\ tx' = tx /\ sent' = sent
      /\ key_osd' = key_osd /\ shiftreg' = shiftreg /\ garbled' = garbled
  BY <1>10, Zenon DEF UserActs, rxVars, txVars, keyVars
<1>4. ~dsr /\ Coming = out /\ state \in {2, 6, 10, 14, 20, 23, 28}
  BY <1>3, WaitingIs, Zenon
<1>5. ~Lost' => ~Lost
  BY <1>3 DEF Lost
<1>6. Handshake'
  BY <1>1, <1>3, <1>4 DEF Handshake, rden
<1>7. InPlace'
  BY <1>1, <1>3, <1>5, Zenon DEF InPlace
<1>8. Answered'
  <2>1. state' \notin {25, 30}
    BY <1>3, <1>4
  <2>2. "delay" # "idle"
    OBVIOUS
  <2>3. ~Lost /\ state \in {23, 24, 28, 29} /\ tx = "idle" => FALSE
    BY <1>1, <1>3, <1>4, <2>2, Zenon DEF Answered
  <2> QED BY <1>3, <1>5, <2>1, <2>3, Zenon DEF Answered
<1>9. GoingUp'
  <2>1. Make(k) \in Seq(Byte) /\ Break(k) \in Seq(Byte) /\ Make(k) \o Break(k) \in Seq(Byte)
    BY Coded, Zenon
  <2>2. bytes \in Seq(Byte)
    BY <1>10, <2>1, Zenon
  <2>5. Stream' = Stream \o bytes /\ Stream \in Seq(Byte)
    BY <1>1, <1>10, <2>2, UserStream, Zenon
  <2>6. ASSUME Safe(Stream, key_osd, held) PROVE Safe(Stream \o bytes, key_osd, held')
    BY <1>10, <2>5, <2>6, UserSafe, Zenon
  <2> QED BY <1>1, <1>3, <1>5, <2>5, <2>6, Zenon DEF GoingUp
<1> QED BY <1>6, <1>7, <1>8, <1>9, Zenon

\* Nothing of all this moves.
LEMMA OthersKeep ==
  ASSUME KbInv, SwitchLamp \/ UNCHANGED kbVars
  PROVE  Handshake' /\ InPlace' /\ Answered' /\ GoingUp'
<1>1. /\ Typed /\ Handshake /\ InPlace /\ Answered /\ GoingUp
      /\ held' = held /\ out' = out /\ q' = q /\ qreg' = qreg /\ dsr' = dsr /\ state' = state
      /\ tx' = tx /\ sent' = sent /\ key_osd' = key_osd /\ shiftreg' = shiftreg
      /\ garbled' = garbled
  BY Zenon DEF KbInv, SwitchLamp, kbVars, userVars, devVars, rxVars, txVars, keyVars
<1>2. Coming' = Coming
  BY <1>1 DEF Coming
<1>3. Handshake'
  BY <1>1 DEF Handshake, rden
<1>4. ~Lost' => ~Lost
  BY <1>1 DEF Lost
<1>5. InPlace' /\ Answered'
  BY <1>1, <1>2, <1>4, Zenon DEF InPlace, Answered
<1>6. GoingUp'
  <2>1. Stream' = Stream
    BY <1>1, <1>2, StillStream, Zenon DEF Still
  <2> QED BY <1>1, <1>4, <2>1, Zenon DEF GoingUp
<1> QED BY <1>3, <1>5, <1>6, Zenon

-----------------------------------------------------------------------------
(* The invariant, and what follows.                                        *)

LEMMA KbInitially == KbInit => KbInv
<1> SUFFICES ASSUME KbInit PROVE KbInv
  OBVIOUS
<1>1. Typed
  <2>1. <<>> \in Seq(Byte) /\ <<>> \in Seq(Bit) /\ Len(<<>>) = 0
    OBVIOUS
  <2>2. 0 \in Byte /\ 0 \in Bit /\ 0 \in 0..10 /\ 0 \in 0..7 /\ 0 \in 0..30
    BY DEF Byte, Bit
  <2>3. Len(shiftreg) <= 10
    BY DEF KbInit
  <2> QED BY <2>1, <2>2, <2>3 DEF KbInit, Typed
<1>2. Handshake
  BY DEF KbInit, Handshake, rden
<1>3. InPlace
  BY DEF KbInit, InPlace
<1>4. Answered
  BY DEF KbInit, Answered
<1>5. GoingUp
  <2>1. Coming = <<>> /\ key_osd = {} /\ held = {} /\ state = 0 /\ q = 0
    BY Zenon DEF KbInit, Coming
  <2>2. Stream = <<>>
    <3>1. Stream = StreamOf(0, 0, <<>>)
      BY <2>1, Zenon DEF Stream
    <3>2. 0 \in 0..30 /\ 0 \in (0..3) \cup (18..24) \cup (26..29)
      OBVIOUS
    <3> QED BY <3>1, <3>2, StreamOfIs
  <2>3. Safe(<<>>, {}, {})
    BY DEF Safe, UpIn, Tidy, NotIn
  <2> QED BY <2>1, <2>2, <2>3, Zenon DEF GoingUp
<1> QED BY <1>1, <1>2, <1>3, <1>4, <1>5, Zenon DEF KbInv

LEMMA KbInductive == KbInv /\ [KbNext]_kbVars => KbInv'
<1> SUFFICES ASSUME KbInv, [KbNext]_kbVars PROVE KbInv'
  OBVIOUS
<1>1. Typed /\ Handshake /\ InPlace /\ Answered /\ GoingUp
  BY Zenon DEF KbInv
<1>2. ASSUME NEW retrace \in BOOLEAN, Clock(retrace) PROVE KbInv'
  <2>1. Typed'
    BY <1>1, <1>2, ClockTyped, Zenon
  <2>2. Handshake' /\ InPlace' /\ Answered'
    BY <1>1, <1>2, ClockHandshake, ClockInPlace, ClockAnswered, Zenon
  <2>3. GoingUp'
    BY <1>1, <1>2, ClockGoingUp, Zenon
  <2> QED BY <2>1, <2>2, <2>3, Zenon DEF KbInv
<1>3. CASE DeviceSends
  BY <1>1, <1>3, SendsTyped, SendsHandshake, SendsKeeps, Zenon DEF KbInv
<1>4. CASE Inhibit
  BY <1>1, <1>4, InhibitTyped, InhibitKeeps, Zenon DEF KbInv
<1>5. CASE DeviceTakes
  BY <1>1, <1>5, TakesTyped, TakesKeeps, Zenon DEF KbInv
<1>6. CASE Reset
  BY <1>1, <1>6, ResetTyped, ResetKeeps, Zenon DEF KbInv
<1>7. CASE Press \/ Release \/ Strike \/ Repeat
  <2>1. User
    BY <1>1, <1>7, UserIs, Zenon
  <2> QED BY <1>1, <2>1, UserTyped, UserKeeps, Zenon DEF KbInv
<1>8. CASE SwitchLamp \/ UNCHANGED kbVars
  <2>1. Typed'
    <3>1. CASE SwitchLamp
      BY <1>1, <3>1, LampTyped, Zenon
    <3>2. CASE UNCHANGED kbVars
      BY <1>1, <3>2, Zenon DEF Typed, kbVars, userVars, devVars, rxVars, txVars, keyVars,
                               ledVars, osdVars, rusVars
    <3> QED BY <1>8, <3>1, <3>2
  <2> QED BY <1>8, <2>1, OthersKeep, Zenon DEF KbInv
<1> QED BY <1>2, <1>3, <1>4, <1>5, <1>6, <1>7, <1>8, Zenon DEF KbNext, Machine

LEMMA KbInvariant == KbSpec => []KbInv
BY KbInitially, KbInductive, PTL DEF KbSpec

\* Every variable of the keyboard keeps its type, and ps2rx never holds a whole
\* frame that it has not passed on, whatever bits a command makes it lose.
THEOREM KeyboardTyped == KbSpec => []KbTypeOK
<1>1. KbInv => KbTypeOK
  <2> SUFFICES ASSUME Typed PROVE KbTypeOK
    BY Zenon DEF KbInv
  <2>1. keymatrix \subseteq Matrix \cup ({8} \X (0..5))
    BY Zenon DEF Typed
  <2>2. {qreg, q, txd} \subseteq Byte /\ {key_jcuken, o_osd, key_osd_x, garbled} \subseteq BOOLEAN
    BY Zenon DEF Typed
  <2>3. led_rus \in {0, 1}
    BY DEF Typed, Bit
  <2> QED BY <2>1, <2>2, <2>3, Zenon DEF Typed, KbTypeOK
<1> QED BY <1>1, KbInvariant, PTL

\* Once the bytes are through, the OSD sees no key that was let go: through
\* prefixes, repeats, fake shifts, lamp commands that cut in between the bytes of a
\* code and resets, in every state of the OSD at the moment the key was let go.
THEOREM OsdSeesNoKeyLetGo == KbSpec => []OsdKeysHeld
<1>1. KbInv => OsdKeysHeld
  <2> SUFFICES ASSUME KbInv, AtRest, ~garbled PROVE key_osd \subseteq {k.code : k \in held}
    BY Zenon DEF OsdKeysHeld
  <2>1. Typed /\ GoingUp
    BY Zenon DEF KbInv
  <2>2. ~Lost /\ Coming = <<>>
    BY Zenon DEF Lost, AtRest, Coming
  <2>3. Stream = <<>>
    <3>1. Stream = StreamOf(2, q, <<>>)
      BY <2>2, Zenon DEF Stream, AtRest
    <3>2. 2 \in 0..30 /\ 2 \in (0..3) \cup (18..24) \cup (26..29)
      OBVIOUS
    <3> QED BY <3>1, <3>2, StreamOfIs
  <2>4. Safe(<<>>, key_osd, held)
    BY <2>1, <2>2, <2>3, Zenon DEF GoingUp
  <2>5. ASSUME NEW c \in key_osd PROVE \E k \in held : k.code = c
    <3>1. c \in OsdKeys
      BY <2>1, <2>5 DEF Typed
    <3>2. ~UpIn(<<>>, key_osd, c)
      BY <2>5 DEF UpIn, BreakIsLast
    <3> QED BY <2>4, <3>1, <3>2, Zenon DEF Safe
  <2> QED BY <2>5
<1> QED BY <1>1, KbInvariant, PTL

-----------------------------------------------------------------------------
(* The matrix.  The codes of a stream and what they are for.               *)

\* A prefix has a code behind it, and E0 comes before F0.
WellFormed(s) ==
  \A i \in 1..Len(s) :
    /\ s[i] = \hF0 => i < Len(s) /\ s[i + 1] # \hE0 /\ s[i + 1] # \hF0
    /\ s[i] = \hE0 => i < Len(s) /\ s[i + 1] # \hE0

\* The byte at i is the code x of a key, with E0 before it (e) or without, that went
\* down, or up.
MakeAt(s, i, x, e) ==
  /\ i \in 1..Len(s) /\ s[i] = x /\ x # \hE0 /\ x # \hF0
  /\ ~(i > 1 /\ s[i - 1] = \hF0)
  /\ e <=> (i > 1 /\ s[i - 1] = \hE0)
BreakAt(s, i, x, e) ==
  /\ i \in 1..Len(s) /\ s[i] = x /\ i > 1 /\ s[i - 1] = \hF0
  /\ e <=> (i > 2 /\ s[i - 2] = \hE0)
MakeIn(s, x, e) == \E i \in 1..Len(s) : MakeAt(s, i, x, e)
BreakIn(s, x, e) == \E i \in 1..Len(s) : BreakAt(s, i, x, e)
\* The last the stream says of the key is that it is down.
StaysDown(s, x, e) ==
  \E i \in 1..Len(s) : MakeAt(s, i, x, e) /\ \A j \in (i + 1)..Len(s) : ~BreakAt(s, j, x, e)

\* With stream s to come, held keys h and layout m: a cell of a held key is closed,
\* or the history knows of it, or the key is in the stream; a cell is closed for a key
\* that is held or whose release is in the stream; and codes in the stream are those
\* of keys, held if the stream does not say that they were let go.  FA is an answer.
HeldAreClosed(s, cells, h, m) ==
  \A k \in h : \A c \in k.cells[m] : c \in cells \/ MakeIn(s, k.code, k.ext)
ClosedAreHeld(s, cells, h, m) ==
  \A c \in cells : \E k \in Keys :
    c \in k.cells[m] /\ (k \in h \/ BreakIn(s, k.code, k.ext))
CodesAreKeys(s, h) ==
  \A x \in Byte \ {\hFA} : \A e \in BOOLEAN :
    /\ MakeIn(s, x, e) => \E k \in Keys : k.code = x /\ k.ext = e
    /\ StaysDown(s, x, e) => \E k \in h : k.code = x /\ k.ext = e
Settled(s, matrix, left, h, m) ==
  /\ WellFormed(s) /\ CodesAreKeys(s, h)
  /\ HeldAreClosed(s, matrix \cup left, h, m)
  /\ ClosedAreHeld(s, matrix \ left, h, m)

Settling == ~Lost => Settled(Stream, keymatrix, missed, held, key_jcuken)

\* Where the bytes of a stream are in its halves.
LEMMA HalvesAt ==
  ASSUME NEW s \in Seq(Byte), NEW t \in Seq(Byte), WellFormed(s)
  PROVE  /\ s \o t \in Seq(Byte)
         /\ \A i \in 1..Len(s) : \A x, e :
              /\ MakeAt(s \o t, i, x, e) <=> MakeAt(s, i, x, e)
              /\ BreakAt(s \o t, i, x, e) <=> BreakAt(s, i, x, e)
         /\ \A i \in 1..Len(t) : \A x, e :
              /\ MakeAt(s \o t, Len(s) + i, x, e) <=> MakeAt(t, i, x, e)
              /\ BreakAt(s \o t, Len(s) + i, x, e) <=> BreakAt(t, i, x, e)
         /\ WellFormed(s \o t) <=> WellFormed(t)
<1> DEFINE r == s \o t  n == Len(s)  l == Len(t)
<1>1. /\ r \in Seq(Byte) /\ n \in Nat /\ l \in Nat /\ Len(r) = n + l
      /\ \A i \in 1..n : r[i] = s[i]
      /\ \A i \in 1..l : r[n + i] = t[i]
  BY Joined
<1>2. n > 0 => s[n] # \hE0 /\ s[n] # \hF0
  <2>1. ASSUME n > 0 PROVE n \in 1..n /\ ~(n < n)
    BY <1>1, <2>1
  <2> QED BY <2>1 DEF WellFormed
<1>3. \A i \in 1..n : /\ i > 1 => r[i - 1] = s[i - 1]
                      /\ i > 2 => r[i - 2] = s[i - 2]
                      /\ r[i] = s[i] /\ i \in 1..Len(r) /\ i \in 1..n
  BY <1>1
<1> DEFINE SameAt(i, j) ==
             /\ i > 1 => r[j - 1] = t[i - 1] /\ j > 1
             /\ i > 2 => r[j - 2] = t[i - 2] /\ j > 2 /\ i > 1
             /\ i > 1 => i > 2 \/ i = 2
             /\ ~(i > 1) => i = 1
             /\ i = 1 /\ j > 1 => r[j - 1] # \hE0 /\ r[j - 1] # \hF0
             /\ i = 2 /\ j > 2 => r[j - 2] # \hE0 /\ r[j - 2] # \hF0
             /\ r[j] = t[i] /\ j \in 1..Len(r) /\ i \in 1..Len(t)
<1>4. \A i \in 1..l : SameAt(i, n + i)
  <2> SUFFICES ASSUME NEW i \in 1..l PROVE SameAt(i, n + i)
    BY Zenon
  <2>1. i \in Int /\ n \in Int /\ l \in Int
    BY <1>1
  <2>2. ASSUME i > 1 PROVE r[n + i - 1] = t[i - 1]
    <3>1. i - 1 \in 1..l /\ n + (i - 1) = n + i - 1
      BY <2>1, <2>2
    <3> QED BY <1>1, <3>1, Zenon
  <2>3. ASSUME i > 2 PROVE r[n + i - 2] = t[i - 2]
    <3>1. i - 2 \in 1..l /\ n + (i - 2) = n + i - 2
      BY <2>1, <2>3
    <3> QED BY <1>1, <3>1, Zenon
  <2>4. n > 0 => r[n] # \hE0 /\ r[n] # \hF0
    <3>1. ASSUME n > 0 PROVE n \in 1..n
      BY <2>1, <3>1
    <3> QED BY <1>1, <1>2, <3>1
  <2>5. (i = 1 => n + i - 1 = n) /\ (i = 2 => n + i - 2 = n)
    BY <2>1
  <2>6. (i = 1 /\ n + i > 1 => n > 0) /\ (i = 2 /\ n + i > 2 => n > 0)
    BY <2>1
  <2>7. /\ n + i \in 1..Len(r) /\ (i > 1 => n + i > 1) /\ (i > 2 => n + i > 2 /\ i > 1)
        /\ (i > 1 => i > 2 \/ i = 2) /\ (~(i > 1) => i = 1)
    BY <1>1, <2>1
  <2>8. /\ i = 1 /\ n + i > 1 => r[n + i - 1] # \hE0 /\ r[n + i - 1] # \hF0
        /\ i = 2 /\ n + i > 2 => r[n + i - 2] # \hE0 /\ r[n + i - 2] # \hF0
    BY <2>4, <2>5, <2>6
  <2>9. r[n + i] = t[i] /\ i \in 1..Len(t)
    BY <1>1, Zenon
  <2> QED BY <2>2, <2>3, <2>7, <2>8, <2>9
<1> HIDE DEF SameAt
<1> HIDE DEF r, n, l
<1>7. ASSUME NEW i \in 1..n, NEW x, NEW e
      PROVE  (MakeAt(r, i, x, e) <=> MakeAt(s, i, x, e))
             /\ (BreakAt(r, i, x, e) <=> BreakAt(s, i, x, e))
  <2>1. MakeAt(r, i, x, e) <=> MakeAt(s, i, x, e)
    BY <1>3 DEF MakeAt, n
  <2>2. BreakAt(r, i, x, e) <=> BreakAt(s, i, x, e)
    BY <1>3 DEF BreakAt, n
  <2> QED BY <2>1, <2>2, Zenon
<1>8. ASSUME NEW i \in 1..l, NEW x, NEW e
      PROVE  (MakeAt(r, n + i, x, e) <=> MakeAt(t, i, x, e))
             /\ (BreakAt(r, n + i, x, e) <=> BreakAt(t, i, x, e))
  <2> DEFINE j == n + i
  <2>1. SameAt(i, j)
    BY <1>4, Zenon
  <2>2. ((i > 1 /\ t[i - 1] = \hF0) <=> (j > 1 /\ r[j - 1] = \hF0))
        /\ ((i > 1 /\ t[i - 1] = \hE0) <=> (j > 1 /\ r[j - 1] = \hE0))
    BY <2>1 DEF SameAt
  <2>3. i > 1 => ((i > 2 /\ t[i - 2] = \hE0) <=> (j > 2 /\ r[j - 2] = \hE0))
    BY <2>1 DEF SameAt
  <2>4. r[j] = t[i] /\ j \in 1..Len(r) /\ i \in 1..Len(t)
    BY <2>1, Zenon DEF SameAt
  <2>5. MakeAt(r, j, x, e) <=> MakeAt(t, i, x, e)
    BY <2>2, <2>4 DEF MakeAt
  <2>6. BreakAt(r, j, x, e) <=> BreakAt(t, i, x, e)
    BY <2>2, <2>3, <2>4 DEF BreakAt
  <2> QED BY <2>5, <2>6, Zenon DEF j
<1>9. ASSUME WellFormed(r) PROVE WellFormed(t)
  <2> SUFFICES ASSUME NEW i \in 1..l
               PROVE  /\ t[i] = \hF0 => i < l /\ t[i + 1] # \hE0 /\ t[i + 1] # \hF0
                      /\ t[i] = \hE0 => i < l /\ t[i + 1] # \hE0
    BY Zenon DEF WellFormed, l
  <2>1. /\ n + i \in 1..Len(r) /\ r[n + i] = t[i]
        /\ n + i < Len(r) => i < l /\ i + 1 \in 1..l
        /\ n + (i + 1) = n + i + 1
    BY <1>1
  <2>2. i < l /\ i + 1 \in 1..l => r[n + i + 1] = t[i + 1]
    <3>1. i + 1 \in 1..l => r[n + (i + 1)] = t[i + 1]
      BY <1>1, Zenon
    <3> QED BY <2>1, <3>1, Zenon
  <2> QED BY <1>9, <2>1, <2>2 DEF WellFormed
<1>10. ASSUME WellFormed(t) PROVE WellFormed(r)
  <2> SUFFICES ASSUME NEW i \in 1..Len(r)
               PROVE  /\ r[i] = \hF0 => i < Len(r) /\ r[i + 1] # \hE0 /\ r[i + 1] # \hF0
                      /\ r[i] = \hE0 => i < Len(r) /\ r[i + 1] # \hE0
    BY Zenon DEF WellFormed
  <2>1. CASE i \in 1..n
    <3>1. r[i] = s[i] /\ (i < n => i < Len(r) /\ i + 1 \in 1..n)
      BY <1>1, <2>1
    <3>2. i < n => r[i + 1] = s[i + 1]
      BY <1>1, <3>1, Zenon
    <3> QED BY <2>1, <3>1, <3>2 DEF WellFormed, n
  <2>2. CASE i \notin 1..n
    <3> DEFINE j == i - n
    <3>1. j \in 1..l /\ n + j = i /\ (j < l => i < Len(r) /\ j + 1 \in 1..l /\ n + (j + 1) = i + 1)
      BY <1>1, <2>2
    <3> HIDE DEF j
    <3>2. r[i] = t[j] /\ (j < l => r[i + 1] = t[j + 1])
      BY <1>1, <3>1, Zenon
    <3> QED BY <1>10, <3>1, <3>2 DEF WellFormed, l
  <2> QED BY <2>1, <2>2
<1> QED BY <1>1, <1>7, <1>8, <1>9, <1>10, Zenon DEF r, n, l

\* What two streams say one after the other.
LEMMA Halves ==
  ASSUME NEW s \in Seq(Byte), NEW t \in Seq(Byte), WellFormed(s), NEW x, NEW e
  PROVE  /\ MakeIn(s \o t, x, e) <=> MakeIn(s, x, e) \/ MakeIn(t, x, e)
         /\ BreakIn(s \o t, x, e) <=> BreakIn(s, x, e) \/ BreakIn(t, x, e)
         /\ StaysDown(s \o t, x, e)
              <=> StaysDown(t, x, e) \/ (StaysDown(s, x, e) /\ ~BreakIn(t, x, e))
<1> DEFINE r == s \o t  n == Len(s)  l == Len(t)
           Gone(u, i) == \E j \in (i + 1)..Len(u) : BreakAt(u, j, x, e)
<1>1. /\ n \in Nat /\ l \in Nat /\ Len(r) = n + l
      /\ \A i \in 1..n : /\ MakeAt(r, i, x, e) <=> MakeAt(s, i, x, e)
                         /\ BreakAt(r, i, x, e) <=> BreakAt(s, i, x, e)
      /\ \A i \in 1..l : /\ MakeAt(r, n + i, x, e) <=> MakeAt(t, i, x, e)
                         /\ BreakAt(r, n + i, x, e) <=> BreakAt(t, i, x, e)
  BY HalvesAt, Joined
<1>2. /\ \A i \in 1..n : i \in 1..Len(r)
      /\ \A i \in 1..l : n + i \in 1..Len(r)
      /\ \A i \in 1..Len(r) : i \in 1..n \/ \E j \in 1..l : i = n + j
  <2>1. \A i \in 1..n : i \in 1..Len(r)
    BY <1>1
  <2>2. \A i \in 1..l : n + i \in 1..Len(r)
    BY <1>1
  <2>3. ASSUME NEW i \in 1..Len(r), i \notin 1..n PROVE \E j \in 1..l : i = n + j
    <3>1. i - n \in 1..l /\ i = n + (i - n)
      BY <1>1, <2>3
    <3> QED BY <3>1, Zenon
  <2> QED BY <2>1, <2>2, <2>3, Zenon
<1>3. /\ \A i \in 1..n : \A j \in (i + 1)..n : j \in 1..n /\ j \in (i + 1)..Len(r)
      /\ \A i \in 1..n : \A j \in 1..l : n + j \in (i + 1)..Len(r)
      /\ \A i \in 1..n : \A j \in (i + 1)..Len(r) :
           j \in (i + 1)..n \/ \E k \in 1..l : j = n + k
      /\ \A i \in 1..l : \A j \in (i + 1)..l : j \in 1..l /\ n + j \in (n + i + 1)..Len(r)
      /\ \A i \in 1..l : \A j \in (n + i + 1)..Len(r) :
           \E k \in (i + 1)..l : k \in 1..l /\ j = n + k
  <2>1. \A i \in 1..n : \A j \in (i + 1)..n : j \in 1..n /\ j \in (i + 1)..Len(r)
    BY <1>1
  <2>2. \A i \in 1..n : \A j \in 1..l : n + j \in (i + 1)..Len(r)
    BY <1>1
  <2>3. ASSUME NEW i \in 1..n, NEW j \in (i + 1)..Len(r), j \notin (i + 1)..n
        PROVE  \E k \in 1..l : j = n + k
    <3>1. j - n \in 1..l /\ j = n + (j - n)
      BY <1>1, <2>3
    <3> QED BY <3>1, Zenon
  <2>4. \A i \in 1..l : \A j \in (i + 1)..l : j \in 1..l /\ n + j \in (n + i + 1)..Len(r)
    BY <1>1
  <2>5. ASSUME NEW i \in 1..l, NEW j \in (n + i + 1)..Len(r)
        PROVE  \E k \in (i + 1)..l : k \in 1..l /\ j = n + k
    <3>1. j - n \in (i + 1)..l /\ j - n \in 1..l /\ j = n + (j - n)
      BY <1>1
    <3> QED BY <3>1, Zenon
  <2> QED BY <2>1, <2>2, <2>3, <2>4, <2>5, Zenon
<1> HIDE DEF r, n, l
<1>4. MakeIn(r, x, e) <=> MakeIn(s, x, e) \/ MakeIn(t, x, e)
  BY <1>1, <1>2, Zenon DEF MakeIn, n, l
<1>5. BreakIn(r, x, e) <=> BreakIn(s, x, e) \/ BreakIn(t, x, e)
  BY <1>1, <1>2, Zenon DEF BreakIn, n, l
<1>6. ASSUME NEW i \in 1..n PROVE Gone(r, i) <=> Gone(s, i) \/ BreakIn(t, x, e)
  <2>1. ASSUME Gone(r, i) PROVE Gone(s, i) \/ BreakIn(t, x, e)
    <3>1. PICK j \in (i + 1)..Len(r) : BreakAt(r, j, x, e)
      BY <2>1, Zenon
    <3>2. CASE j \in (i + 1)..n
      <4>1. j \in 1..n
        BY <1>3, <3>2, Zenon
      <4>2. BreakAt(s, j, x, e)
        BY <1>1, <3>1, <4>1, Zenon
      <4> QED BY <3>2, <4>2, Zenon DEF n
    <3>3. CASE j \notin (i + 1)..n
      <4>1. PICK k \in 1..l : j = n + k
        BY <1>3, <3>3, Zenon
      <4>2. BreakAt(t, k, x, e)
        BY <1>1, <3>1, <4>1, Zenon
      <4> QED BY <4>2, Zenon DEF BreakIn, l
    <3> QED BY <3>2, <3>3, Zenon
  <2>2. ASSUME Gone(s, i) PROVE Gone(r, i)
    BY <1>1, <1>3, <2>2, Zenon DEF n
  <2>3. ASSUME BreakIn(t, x, e) PROVE Gone(r, i)
    BY <1>1, <1>3, <2>3, Zenon DEF BreakIn, l
  <2> QED BY <2>1, <2>2, <2>3, Zenon
<1>7. ASSUME NEW i \in 1..l PROVE Gone(r, n + i) <=> Gone(t, i)
  <2>1. ASSUME Gone(r, n + i) PROVE Gone(t, i)
    <3>1. PICK j \in (n + i + 1)..Len(r) : BreakAt(r, j, x, e)
      BY <2>1, Zenon
    <3>2. PICK k \in (i + 1)..l : k \in 1..l /\ j = n + k
      BY <1>3, Zenon
    <3>3. BreakAt(t, k, x, e)
      BY <1>1, <3>1, <3>2, Zenon
    <3> QED BY <3>3, Zenon DEF l
  <2>2. ASSUME Gone(t, i) PROVE Gone(r, n + i)
    <3>1. PICK k \in (i + 1)..l : BreakAt(t, k, x, e)
      BY <2>2, Zenon DEF l
    <3>2. k \in 1..l /\ n + k \in (n + i + 1)..Len(r)
      BY <1>3, Zenon
    <3>3. BreakAt(r, n + k, x, e)
      BY <1>1, <3>1, <3>2, Zenon
    <3> QED BY <3>2, <3>3, Zenon
  <2> QED BY <2>1, <2>2, Zenon
<1>8. \A u : StaysDown(u, x, e) <=> \E i \in 1..Len(u) : MakeAt(u, i, x, e) /\ ~Gone(u, i)
  BY Zenon DEF StaysDown
<1> HIDE DEF Gone
<1>9. ASSUME StaysDown(r, x, e) PROVE StaysDown(t, x, e) \/ (StaysDown(s, x, e) /\ ~BreakIn(t, x, e))
  <2>1. PICK i \in 1..Len(r) : MakeAt(r, i, x, e) /\ ~Gone(r, i)
    BY <1>8, <1>9, Zenon
  <2>2. CASE i \in 1..n
    BY <1>1, <1>6, <1>8, <2>1, <2>2, Zenon DEF n
  <2>3. CASE i \notin 1..n
    <3>1. PICK j \in 1..l : i = n + j
      BY <1>2, <2>3, Zenon
    <3> QED BY <1>1, <1>7, <1>8, <2>1, <3>1, Zenon DEF l
  <2> QED BY <2>2, <2>3, Zenon
<1>10. ASSUME StaysDown(t, x, e) PROVE StaysDown(r, x, e)
  BY <1>1, <1>2, <1>7, <1>8, <1>10, Zenon DEF l
<1>11. ASSUME StaysDown(s, x, e), ~BreakIn(t, x, e) PROVE StaysDown(r, x, e)
  BY <1>1, <1>2, <1>6, <1>8, <1>11, Zenon DEF n
<1> QED BY <1>4, <1>5, <1>9, <1>10, <1>11, Zenon DEF r

\* The codes of a key.
Down(x, e) == IF e THEN <<\hE0, x>> ELSE <<x>>
Up(x, e) == IF e THEN <<\hE0, \hF0, x>> ELSE <<\hF0, x>>

LEMMA DownSays ==
  ASSUME NEW x \in Byte, x # \hE0, x # \hF0, NEW e \in BOOLEAN
  PROVE  /\ Down(x, e) \in Seq(Byte) /\ WellFormed(Down(x, e))
         /\ \A y : \A f \in BOOLEAN :
              /\ MakeIn(Down(x, e), y, f) <=> y = x /\ f = e
              /\ ~BreakIn(Down(x, e), y, f)
              /\ StaysDown(Down(x, e), y, f) <=> y = x /\ f = e
<1>0. \hE0 \in Byte /\ \hE0 # \hF0
  BY DEF Byte
<1>1. CASE ~e
  <2> DEFINE u == <<x>>
  <2>1. u \in Seq(Byte) /\ Len(u) = 1 /\ u[1] = x /\ \A i \in 1..Len(u) : i = 1
    OBVIOUS
  <2>2. Down(x, e) = u
    BY <1>1 DEF Down
  <2> HIDE DEF u
  <2>3. WellFormed(u)
    BY <2>1 DEF WellFormed
  <2>4. ASSUME NEW y, NEW f \in BOOLEAN, NEW i \in 1..Len(u)
        PROVE  (MakeAt(u, i, y, f) <=> y = x /\ ~f) /\ ~BreakAt(u, i, y, f)
    <3>1. i = 1 /\ ~(i > 1)
      BY <2>1
    <3> QED BY <2>1, <3>1, <2>4, Zenon DEF MakeAt, BreakAt
  <2>5. 1 \in 1..Len(u) /\ \A j \in (1 + 1)..Len(u) : j \in 1..Len(u)
    BY <2>1
  <2>6. ASSUME NEW y, NEW f \in BOOLEAN
        PROVE  /\ MakeIn(u, y, f) <=> y = x /\ ~f
               /\ ~BreakIn(u, y, f)
               /\ StaysDown(u, y, f) <=> y = x /\ ~f
    BY <2>4, <2>5 DEF MakeIn, BreakIn, StaysDown
  <2> QED BY <1>1, <2>1, <2>2, <2>3, <2>6
<1>2. CASE e
  <2> DEFINE u == <<\hE0, x>>
  <2>1. u \in Seq(Byte) /\ Len(u) = 2 /\ u[1] = \hE0 /\ u[2] = x /\ \A i \in 1..Len(u) : i \in {1, 2}
    BY <1>0
  <2>2. Down(x, e) = u
    BY <1>2 DEF Down
  <2> HIDE DEF u
  <2>3. WellFormed(u)
    BY <2>1 DEF WellFormed
  <2>4. ASSUME NEW y, NEW f \in BOOLEAN
        PROVE  /\ ~MakeAt(u, 1, y, f) /\ ~BreakAt(u, 1, y, f) /\ ~BreakAt(u, 2, y, f)
               /\ MakeAt(u, 2, y, f) <=> y = x /\ f
    <3>1. ~MakeAt(u, 1, y, f) /\ ~BreakAt(u, 1, y, f)
      BY <2>1 DEF MakeAt, BreakAt
    <3>2. 2 - 1 = 1 /\ 2 > 1 /\ 2 \in 1..Len(u)
      BY <2>1
    <3>3. ~BreakAt(u, 2, y, f)
      BY <1>0, <2>1, <3>2 DEF BreakAt
    <3>4. MakeAt(u, 2, y, f) <=> y = x /\ f
      BY <1>0, <2>1, <3>2, <2>4 DEF MakeAt
    <3> QED BY <3>1, <3>3, <3>4, Zenon
  <2>5. 2 \in 1..Len(u) /\ \A j \in (2 + 1)..Len(u) : FALSE
    BY <2>1
  <2>6. ASSUME NEW y, NEW f \in BOOLEAN
        PROVE  /\ MakeIn(u, y, f) <=> y = x /\ f
               /\ ~BreakIn(u, y, f)
               /\ StaysDown(u, y, f) <=> y = x /\ f
    <3>1. \A i \in 1..Len(u) : i = 1 \/ i = 2
      BY <2>1
    <3> QED BY <2>4, <2>5, <3>1 DEF MakeIn, BreakIn, StaysDown
  <2>7. u \in Seq(Byte)
    BY <2>1, Zenon
  <2>8. \A f \in BOOLEAN : f <=> f = e
    BY <1>2
  <2>9. \A y : \A f \in BOOLEAN : (y = x /\ f) <=> (y = x /\ f = e)
    BY <2>8
  <2>10. \A y : \A f \in BOOLEAN :
           /\ MakeIn(u, y, f) <=> y = x /\ f = e
           /\ ~BreakIn(u, y, f)
           /\ StaysDown(u, y, f) <=> y = x /\ f = e
    BY <2>6, <2>9
  <2> QED BY <2>2, <2>3, <2>7, <2>10
<1> QED BY <1>1, <1>2

LEMMA UpSays ==
  ASSUME NEW x \in Byte, x # \hE0, x # \hF0, NEW e \in BOOLEAN
  PROVE  /\ Up(x, e) \in Seq(Byte) /\ WellFormed(Up(x, e))
         /\ \A y : \A f \in BOOLEAN :
              /\ ~MakeIn(Up(x, e), y, f)
              /\ BreakIn(Up(x, e), y, f) <=> y = x /\ f = e
              /\ ~StaysDown(Up(x, e), y, f)
<1>0. \hE0 \in Byte /\ \hF0 \in Byte /\ \hE0 # \hF0
  BY DEF Byte
<1>1. CASE ~e
  <2> DEFINE u == <<\hF0, x>>
  <2>1. u \in Seq(Byte) /\ Len(u) = 2 /\ u[1] = \hF0 /\ u[2] = x /\ \A i \in 1..Len(u) : i \in {1, 2}
    BY <1>0
  <2>2. Up(x, e) = u
    BY <1>1 DEF Up
  <2> HIDE DEF u
  <2>3. WellFormed(u)
    BY <2>1 DEF WellFormed
  <2>4. ASSUME NEW y, NEW f \in BOOLEAN
        PROVE  /\ ~MakeAt(u, 1, y, f) /\ ~BreakAt(u, 1, y, f) /\ ~MakeAt(u, 2, y, f)
               /\ BreakAt(u, 2, y, f) <=> y = x /\ ~f
    <3>1. ~MakeAt(u, 1, y, f) /\ ~BreakAt(u, 1, y, f)
      BY <2>1 DEF MakeAt, BreakAt
    <3>2. 2 - 1 = 1 /\ 2 > 1 /\ ~(2 > 2) /\ 2 \in 1..Len(u)
      BY <2>1
    <3>3. BreakAt(u, 2, y, f) <=> y = x /\ ~f
      BY <2>1, <3>2, <2>4 DEF BreakAt
    <3>4. ~MakeAt(u, 2, y, f)
      BY <2>1, <3>2 DEF MakeAt
    <3> QED BY <3>1, <3>3, <3>4, Zenon
  <2>5. 2 \in 1..Len(u)
    BY <2>1
  <2>6. ASSUME NEW y, NEW f \in BOOLEAN
        PROVE  /\ ~MakeIn(u, y, f)
               /\ BreakIn(u, y, f) <=> y = x /\ ~f
               /\ ~StaysDown(u, y, f)
    <3>1. \A i \in 1..Len(u) : i = 1 \/ i = 2
      BY <2>1
    <3> QED BY <2>4, <2>5, <3>1 DEF MakeIn, BreakIn, StaysDown
  <2> QED BY <1>1, <2>1, <2>2, <2>3, <2>6
<1>2. CASE e
  <2> DEFINE u == <<\hE0, \hF0, x>>
  <2>1. u \in Seq(Byte) /\ Len(u) = 3 /\ u[1] = \hE0 /\ u[2] = \hF0 /\ u[3] = x
        /\ \A i \in 1..Len(u) : i \in {1, 2, 3}
    BY <1>0
  <2>2. Up(x, e) = u
    BY <1>2 DEF Up
  <2> HIDE DEF u
  <2>3. WellFormed(u)
    BY <2>1 DEF WellFormed
  <2>4. ASSUME NEW y, NEW f \in BOOLEAN
        PROVE  /\ ~MakeAt(u, 1, y, f) /\ ~BreakAt(u, 1, y, f) /\ ~MakeAt(u, 2, y, f)
               /\ ~BreakAt(u, 2, y, f) /\ ~MakeAt(u, 3, y, f)
               /\ BreakAt(u, 3, y, f) <=> y = x /\ f
    <3>1. ~MakeAt(u, 1, y, f) /\ ~BreakAt(u, 1, y, f)
      BY <2>1 DEF MakeAt, BreakAt
    <3>2. 2 - 1 = 1 /\ 2 > 1 /\ 3 > 1 /\ 3 > 2 /\ 3 - 1 = 2 /\ 3 - 2 = 1 /\ 3 \in 1..Len(u)
      BY <2>1
    <3>3. ~MakeAt(u, 2, y, f) /\ ~BreakAt(u, 2, y, f)
      BY <1>0, <2>1, <3>2 DEF MakeAt, BreakAt
    <3>4. BreakAt(u, 3, y, f) <=> y = x /\ f
      BY <2>1, <3>2, <2>4 DEF BreakAt
    <3>5. ~MakeAt(u, 3, y, f)
      BY <2>1, <3>2 DEF MakeAt
    <3> QED BY <3>1, <3>3, <3>4, <3>5, Zenon
  <2>5. 3 \in 1..Len(u)
    BY <2>1
  <2>6. ASSUME NEW y, NEW f \in BOOLEAN
        PROVE  /\ ~MakeIn(u, y, f)
               /\ BreakIn(u, y, f) <=> y = x /\ f
               /\ ~StaysDown(u, y, f)
    <3>1. \A i \in 1..Len(u) : i = 1 \/ i = 2 \/ i = 3
      BY <2>1
    <3> QED BY <2>4, <2>5, <3>1 DEF MakeIn, BreakIn, StaysDown
  <2>7. u \in Seq(Byte)
    BY <2>1, Zenon
  <2>8. \A f \in BOOLEAN : f <=> f = e
    BY <1>2
  <2>9. \A y : \A f \in BOOLEAN : (y = x /\ f) <=> (y = x /\ f = e)
    BY <2>8
  <2>10. \A y : \A f \in BOOLEAN :
           /\ ~MakeIn(u, y, f)
           /\ BreakIn(u, y, f) <=> y = x /\ f = e
           /\ ~StaysDown(u, y, f)
    BY <2>6, <2>9
  <2> QED BY <2>2, <2>3, <2>7, <2>10
<1> QED BY <1>1, <1>2

\* A key that goes down, and one that goes up, in front of a stream and behind it.
LEMMA DownFirst ==
  ASSUME NEW x \in Byte, x # \hE0, x # \hF0, NEW e \in BOOLEAN, NEW t \in Seq(Byte)
  PROVE  /\ WellFormed(Down(x, e) \o t) <=> WellFormed(t)
         /\ \A y : \A f \in BOOLEAN :
              /\ MakeIn(Down(x, e) \o t, y, f) <=> (y = x /\ f = e) \/ MakeIn(t, y, f)
              /\ BreakIn(Down(x, e) \o t, y, f) <=> BreakIn(t, y, f)
              /\ StaysDown(Down(x, e) \o t, y, f)
                   <=> StaysDown(t, y, f) \/ (y = x /\ f = e /\ ~BreakIn(t, y, f))
<1> DEFINE u == Down(x, e)
<1>1. /\ u \in Seq(Byte) /\ WellFormed(u)
      /\ \A y : \A f \in BOOLEAN : /\ MakeIn(u, y, f) <=> y = x /\ f = e
                                   /\ ~BreakIn(u, y, f)
                                   /\ StaysDown(u, y, f) <=> y = x /\ f = e
  BY DownSays, Zenon
<1> HIDE DEF u
<1>2. WellFormed(u \o t) <=> WellFormed(t)
  BY <1>1, HalvesAt, Zenon
<1>3. ASSUME NEW y, NEW f \in BOOLEAN
      PROVE  /\ MakeIn(u \o t, y, f) <=> (y = x /\ f = e) \/ MakeIn(t, y, f)
             /\ BreakIn(u \o t, y, f) <=> BreakIn(t, y, f)
             /\ StaysDown(u \o t, y, f)
                  <=> StaysDown(t, y, f) \/ (y = x /\ f = e /\ ~BreakIn(t, y, f))
  <2>1. /\ MakeIn(u \o t, y, f) <=> MakeIn(u, y, f) \/ MakeIn(t, y, f)
        /\ BreakIn(u \o t, y, f) <=> BreakIn(u, y, f) \/ BreakIn(t, y, f)
        /\ StaysDown(u \o t, y, f) <=> StaysDown(t, y, f) \/ (StaysDown(u, y, f) /\ ~BreakIn(t, y, f))
    BY <1>1, Halves, Zenon
  <2>2. /\ MakeIn(u, y, f) <=> y = x /\ f = e
        /\ ~BreakIn(u, y, f)
        /\ StaysDown(u, y, f) <=> y = x /\ f = e
    BY <1>1, Zenon
  <2> QED BY <2>1, <2>2, Zenon
<1> QED BY <1>2, <1>3, Zenon DEF u

LEMMA UpFirst ==
  ASSUME NEW x \in Byte, x # \hE0, x # \hF0, NEW e \in BOOLEAN, NEW t \in Seq(Byte)
  PROVE  /\ WellFormed(Up(x, e) \o t) <=> WellFormed(t)
         /\ \A y : \A f \in BOOLEAN :
              /\ MakeIn(Up(x, e) \o t, y, f) <=> MakeIn(t, y, f)
              /\ BreakIn(Up(x, e) \o t, y, f) <=> (y = x /\ f = e) \/ BreakIn(t, y, f)
              /\ StaysDown(Up(x, e) \o t, y, f) <=> StaysDown(t, y, f)
<1> DEFINE u == Up(x, e)
<1>1. /\ u \in Seq(Byte) /\ WellFormed(u)
      /\ \A y : \A f \in BOOLEAN : /\ ~MakeIn(u, y, f)
                                   /\ BreakIn(u, y, f) <=> y = x /\ f = e
                                   /\ ~StaysDown(u, y, f)
  BY UpSays
<1> HIDE DEF u
<1>2. WellFormed(u \o t) <=> WellFormed(t)
  BY <1>1, HalvesAt, Zenon
<1>3. ASSUME NEW y, NEW f \in BOOLEAN
      PROVE  /\ MakeIn(u \o t, y, f) <=> MakeIn(t, y, f)
             /\ BreakIn(u \o t, y, f) <=> (y = x /\ f = e) \/ BreakIn(t, y, f)
             /\ StaysDown(u \o t, y, f) <=> StaysDown(t, y, f)
  <2>1. /\ MakeIn(u \o t, y, f) <=> MakeIn(u, y, f) \/ MakeIn(t, y, f)
        /\ BreakIn(u \o t, y, f) <=> BreakIn(u, y, f) \/ BreakIn(t, y, f)
        /\ StaysDown(u \o t, y, f) <=> StaysDown(t, y, f) \/ (StaysDown(u, y, f) /\ ~BreakIn(t, y, f))
    BY <1>1, Halves, Zenon
  <2>2. /\ ~MakeIn(u, y, f)
        /\ BreakIn(u, y, f) <=> y = x /\ f = e
        /\ ~StaysDown(u, y, f)
    BY <1>1, ZenonT(40)
  <2> QED BY <2>1, <2>2, Zenon
<1> QED BY <1>2, <1>3, Zenon DEF u

-----------------------------------------------------------------------------
(* The matrix.  Cells.                                                     *)

\* The answer of the keyboard is in no row of a table.
Absent(row) == \A n \in 1..8 : n <= Len(row) => \hFA \notin row[n]

LEMMA WholeRow ==
  ASSUME NEW row, \hFA \notin row[1], \hFA \notin row[2], \hFA \notin row[3], \hFA \notin row[4],
         \hFA \notin row[5], \hFA \notin row[6], \hFA \notin row[7], \hFA \notin row[8]
  PROVE  Absent(row)
BY DEF Absent

LEMMA AnswerAbsent ==
  \A n \in 1..8 : Absent(common[n]) /\ Absent(jcuken[n]) /\ Absent(qwerty[n])
<1> DEFINE Answer == \hFA
           Apart(row) == /\ Answer \notin row[1] /\ Answer \notin row[2] /\ Answer \notin row[3]
                         /\ Answer \notin row[4] /\ Answer \notin row[5] /\ Answer \notin row[6]
                         /\ Answer \notin row[7] /\ Answer \notin row[8]
<1>1. Apart(common[1]) /\ Apart(common[2]) /\ Apart(common[3])
  BY DEF common
<1>2. \A row : Apart(row) => Absent(row)
  BY WholeRow, Zenon
<1>3. Absent(common[1]) /\ Absent(common[2]) /\ Absent(common[3])
  <2> HIDE DEF Apart
  <2> QED BY <1>1, <1>2, Zenon
<1>4. Absent(common[4]) /\ Absent(common[5]) /\ Absent(common[6]) /\ Absent(common[7])
      /\ Absent(common[8])
  BY DEF common, Absent
<1>5. Absent(jcuken[1]) /\ Absent(jcuken[2]) /\ Absent(jcuken[3]) /\ Absent(jcuken[4])
      /\ Absent(jcuken[5]) /\ Absent(jcuken[6]) /\ Absent(jcuken[7]) /\ Absent(jcuken[8])
  BY DEF jcuken, Absent
<1>6. Absent(qwerty[1]) /\ Absent(qwerty[2]) /\ Absent(qwerty[3]) /\ Absent(qwerty[4])
      /\ Absent(qwerty[5]) /\ Absent(qwerty[6]) /\ Absent(qwerty[7]) /\ Absent(qwerty[8])
  BY DEF qwerty, Absent
<1>7. \A n \in 1..8 : n \in {1, 2, 3, 4, 5, 6, 7, 8}
  OBVIOUS
<1> HIDE DEF Answer, Apart
<1>8. \A n \in {1, 2, 3, 4, 5, 6, 7, 8} : Absent(common[n]) /\ Absent(jcuken[n]) /\ Absent(qwerty[n])
  BY <1>3, <1>4, <1>5, <1>6, Zenon
<1> QED BY <1>7, <1>8, Zenon

\* The answer closes no cell.
LEMMA AnswerHasNoCell ==
  \A e \in BOOLEAN, m \in BOOLEAN : CellsOf(\hFA, e, m) = {}
<1> SUFFICES ASSUME NEW e \in BOOLEAN, NEW m \in BOOLEAN PROVE CellsOf(\hFA, e, m) = {}
  OBVIOUS
<1>1. ASSUME NEW table, \A n \in 1..8 : Absent(table[n]) PROVE CellsIn(table)[\hFA] = {}
  <2>1. \hFA \in Byte
    BY DEF Byte
  <2>2. CellsIn(table)[\hFA] = {c \in Matrix : c[2] < Len(table[c[1] + 1])
                                               /\ \hFA \in table[c[1] + 1][c[2] + 1]}
    BY <2>1 DEF CellsIn
  <2>3. ASSUME NEW c \in Matrix, c[2] < Len(table[c[1] + 1]) PROVE \hFA \notin table[c[1] + 1][c[2] + 1]
    <3> DEFINE i == c[1] + 1  j == c[2] + 1  row == table[i]
    <3>1. i \in 1..8 /\ j \in 1..8 /\ c[2] \in 0..7
      BY DEF Matrix
    <3>2. Absent(row)
      BY <1>1, <3>1, Zenon
    <3>3. c[2] < Len(row)
      BY <2>3, Zenon
    <3> HIDE DEF row, i
    <3>4. j <= Len(row) \/ \hFA \notin row[j]
      <4>1. CASE Len(row) \in Int
        BY <3>1, <3>3, <4>1
      <4>2. CASE Len(row) \notin Int
        BY <3>1, <3>3, <4>2
      <4> QED BY <4>1, <4>2, Zenon
    <3>5. \hFA \notin row[j]
      BY <3>1, <3>2, <3>4, Zenon DEF Absent
    <3> QED BY <3>5, Zenon DEF row, i, j
  <2> QED BY <2>2, <2>3
<1>2. CellsIn(common)[\hFA] = {} /\ CellsIn(jcuken)[\hFA] = {} /\ CellsIn(qwerty)[\hFA] = {}
  BY <1>1, AnswerAbsent, Zenon
<1>3. scan2matrix(\hFA, m) = {}
  <2>1. LayoutCells[m] = CellsIn(jcuken) \/ LayoutCells[m] = CellsIn(qwerty)
    BY DEF LayoutCells
  <2> QED BY <1>2, <2>1 DEF scan2matrix, CommonCells
<1>4. Line(\hFA, e) = {}
  BY DEF Line
<1> QED BY <1>3, <1>4 DEF CellsOf

LEMMA KeyIs ==
  ASSUME NEW k \in Keys
  PROVE  /\ k.code \in Byte /\ k.code # \hE0 /\ k.code # \hF0 /\ k.ext \in BOOLEAN
         /\ \A m \in BOOLEAN : k.cells[m] = CellsOf(k.code, k.ext, m)
         /\ Make(k) = Down(k.code, k.ext) /\ Break(k) = Up(k.code, k.ext)
<1>1. k.code \in Byte \ {\hE0, \hF0} /\ k.ext \in BOOLEAN
  BY KeysAssumption
<1>2. k.cells = [m \in BOOLEAN |-> CellsOf(k.code, k.ext, m)]
  BY CellsAssumption
<1>3. \A m \in BOOLEAN : k.cells[m] = CellsOf(k.code, k.ext, m)
  BY <1>2
<1>4. Make(k) = Down(k.code, k.ext) /\ Break(k) = Up(k.code, k.ext)
  BY Zenon DEF Make, Break, Down, Up
<1> QED BY <1>1, <1>3, <1>4

LEMMA KeyCells ==
  ASSUME NEW k \in Keys
  PROVE  k.ext \in BOOLEAN /\ \A m \in BOOLEAN : k.cells[m] = CellsOf(k.code, k.ext, m)
  BY KeyIs

-----------------------------------------------------------------------------
(* The matrix.  What becomes of it.                                        *)

\* With a code taken whole, what is left are codes of keys.
SaysNoMore(t, s) ==
  \A x : \A e \in BOOLEAN : /\ MakeIn(t, x, e) => MakeIn(s, x, e)
                            /\ StaysDown(t, x, e) => StaysDown(s, x, e)

LEMMA CodesLeft ==
  ASSUME NEW s, NEW t, NEW h, CodesAreKeys(s, h), SaysNoMore(t, s)
  PROVE  CodesAreKeys(t, h)
<1> SUFFICES ASSUME NEW x \in Byte \ {\hFA}, NEW e \in BOOLEAN
             PROVE  /\ MakeIn(t, x, e) => \E k \in Keys : k.code = x /\ k.ext = e
                    /\ StaysDown(t, x, e) => \E k \in h : k.code = x /\ k.ext = e
  BY Zenon DEF CodesAreKeys
<1>1. /\ MakeIn(s, x, e) => \E k \in Keys : k.code = x /\ k.ext = e
      /\ StaysDown(s, x, e) => \E k \in h : k.code = x /\ k.ext = e
  BY Zenon DEF CodesAreKeys
<1>2. /\ MakeIn(t, x, e) => MakeIn(s, x, e)
      /\ StaysDown(t, x, e) => StaysDown(s, x, e)
  BY Zenon DEF SaysNoMore
<1> QED BY <1>1, <1>2, Zenon

\* A key goes down: its cells are closed, or the history knows of them.
LEMMA DownTaken ==
  ASSUME NEW x \in Byte, x # \hE0, x # \hF0, NEW e \in BOOLEAN, NEW t \in Seq(Byte),
         NEW matrix, NEW left, NEW h, h \subseteq Keys, NEW m \in BOOLEAN,
         Settled(Down(x, e) \o t, matrix, left, h, m), NEW matrix2, NEW left2,
         \/ matrix2 = matrix \cup CellsOf(x, e, m) /\ left2 = left \ CellsOf(x, e, m)
         \/ matrix2 = matrix /\ left2 = left \cup CellsOf(x, e, m)
  PROVE  Settled(t, matrix2, left2, h, m)
<1> DEFINE s == Down(x, e) \o t  cells == CellsOf(x, e, m)
<1>1. /\ WellFormed(s) /\ CodesAreKeys(s, h)
      /\ HeldAreClosed(s, matrix \cup left, h, m) /\ ClosedAreHeld(s, matrix \ left, h, m)
  BY Zenon DEF Settled
<1>2. /\ WellFormed(s) <=> WellFormed(t)
      /\ \A y : \A f \in BOOLEAN :
           /\ MakeIn(s, y, f) <=> (y = x /\ f = e) \/ MakeIn(t, y, f)
           /\ BreakIn(s, y, f) <=> BreakIn(t, y, f)
           /\ StaysDown(s, y, f) <=> StaysDown(t, y, f) \/ (y = x /\ f = e /\ ~BreakIn(t, y, f))
  BY DownFirst
<1>3. \/ matrix2 = matrix \cup cells /\ left2 = left \ cells
      \/ matrix2 = matrix /\ left2 = left \cup cells
  OBVIOUS
<1> HIDE DEF s, cells
<1>4. CodesAreKeys(t, h)
  <2>1. SaysNoMore(t, s)
    BY <1>2, Zenon DEF SaysNoMore
  <2> QED BY <1>1, <2>1, CodesLeft, Zenon
<1>5. HeldAreClosed(t, matrix2 \cup left2, h, m)
  <2> SUFFICES ASSUME NEW k \in h, NEW c \in k.cells[m]
               PROVE  c \in matrix2 \cup left2 \/ MakeIn(t, k.code, k.ext)
    BY Zenon DEF HeldAreClosed
  <2>1. c \in matrix \cup left \/ MakeIn(s, k.code, k.ext)
    BY <1>1, Zenon DEF HeldAreClosed
  <2>2. k \in Keys
    OBVIOUS
  <2>3. k.ext \in BOOLEAN /\ k.cells[m] = CellsOf(k.code, k.ext, m)
    BY <2>2, KeyCells, Zenon
  <2>4. CASE c \in matrix \cup left
    BY <1>3, <2>4
  <2>5. CASE k.code = x /\ k.ext = e
    <3>1. c \in cells
      BY <2>3, <2>5, Zenon DEF cells
    <3> QED BY <1>3, <3>1
  <2>6. MakeIn(s, k.code, k.ext) <=> (k.code = x /\ k.ext = e) \/ MakeIn(t, k.code, k.ext)
    BY <1>2, <2>3, Zenon
  <2> QED BY <2>1, <2>4, <2>5, <2>6, Zenon
<1>6. ClosedAreHeld(t, matrix2 \ left2, h, m)
  <2> SUFFICES ASSUME NEW c \in matrix2 \ left2
               PROVE  \E k \in Keys : c \in k.cells[m] /\ (k \in h \/ BreakIn(t, k.code, k.ext))
    BY Zenon DEF ClosedAreHeld
  <2>1. c \in matrix \ left \/ c \in cells
    BY <1>3
  <2>2. CASE c \in matrix \ left
    <3>1. PICK k \in Keys : c \in k.cells[m] /\ (k \in h \/ BreakIn(s, k.code, k.ext))
      BY <1>1, <2>2, Zenon DEF ClosedAreHeld
    <3>2. k.ext \in BOOLEAN
      BY KeyIs, Zenon
    <3>3. BreakIn(s, k.code, k.ext) <=> BreakIn(t, k.code, k.ext)
      BY <1>2, <3>2, Zenon
    <3> QED BY <3>1, <3>3, Zenon
  <2>3. CASE c \in cells
    <3>1. x # \hFA
      <4>1. ASSUME x = \hFA PROVE CellsOf(x, e, m) = {}
        BY <4>1, AnswerHasNoCell
      <4> QED BY <2>3, <4>1 DEF cells
    <3>2. x \in Byte \ {\hFA}
      BY <3>1
    <3>3. /\ MakeIn(s, x, e) => \E k \in Keys : k.code = x /\ k.ext = e
          /\ StaysDown(s, x, e) => \E k \in h : k.code = x /\ k.ext = e
      BY <1>1, <3>2, ZenonT(40) DEF CodesAreKeys
    <3>4. MakeIn(s, x, e) /\ (~BreakIn(t, x, e) => StaysDown(s, x, e))
      BY <1>2, Zenon
    <3>5. PICK k \in Keys : k.code = x /\ k.ext = e /\ (k \in h \/ BreakIn(t, x, e))
      <4>1. CASE BreakIn(t, x, e)
        BY <3>3, <3>4, <4>1, Zenon
      <4>2. CASE ~BreakIn(t, x, e)
        <5>1. PICK k \in h : k.code = x /\ k.ext = e
          BY <3>3, <3>4, <4>2, Zenon
        <5>2. k \in Keys
          OBVIOUS
        <5> QED BY <5>1, <5>2, Zenon
      <4> QED BY <4>1, <4>2, Zenon
    <3>6. c \in k.cells[m]
      <4>1. k.cells[m] = CellsOf(k.code, k.ext, m)
        BY KeyCells, Zenon
      <4>2. k.cells[m] = cells
        BY <3>5, <4>1, Zenon DEF cells
      <4> QED BY <2>3, <4>2, Zenon
    <3> QED BY <3>5, <3>6, Zenon
  <2> QED BY <2>1, <2>2, <2>3, Zenon
<1> QED BY <1>1, <1>2, <1>4, <1>5, <1>6, Zenon DEF Settled

\* A key goes up: its cells are opened, and the history has those that another key
\* is held for.
Opens(cells, others, matrix, left, matrix2, left2) ==
  \/ matrix2 = matrix \ cells /\ left2 = (left \ cells) \cup (cells \cap others)
  \/ matrix2 = matrix /\ left2 = left \cup cells

LEMMA UpTaken ==
  ASSUME NEW x \in Byte, x # \hE0, x # \hF0, NEW e \in BOOLEAN, NEW t \in Seq(Byte),
         NEW matrix, NEW left, NEW h, h \subseteq Keys, NEW m \in BOOLEAN,
         Settled(Up(x, e) \o t, matrix, left, h, m), NEW cells, CellsOf(x, e, m) \subseteq cells,
         NEW matrix2, NEW left2,
         Opens(cells, UNION {k.cells[m] : k \in h}, matrix, left, matrix2, left2)
  PROVE  Settled(t, matrix2, left2, h, m)
<1> DEFINE s == Up(x, e) \o t  others == UNION {k.cells[m] : k \in h}
<1>1. /\ WellFormed(s) /\ CodesAreKeys(s, h)
      /\ HeldAreClosed(s, matrix \cup left, h, m) /\ ClosedAreHeld(s, matrix \ left, h, m)
  BY Zenon DEF Settled
<1>2. /\ WellFormed(s) <=> WellFormed(t)
      /\ \A y : \A f \in BOOLEAN :
           /\ MakeIn(s, y, f) <=> MakeIn(t, y, f)
           /\ BreakIn(s, y, f) <=> (y = x /\ f = e) \/ BreakIn(t, y, f)
           /\ StaysDown(s, y, f) <=> StaysDown(t, y, f)
  BY UpFirst
<1>3. \/ matrix2 = matrix \ cells /\ left2 = (left \ cells) \cup (cells \cap others)
      \/ matrix2 = matrix /\ left2 = left \cup cells
  BY Zenon DEF Opens
<1>4. \A k \in h : \A c \in k.cells[m] : c \in others
  OBVIOUS
<1> HIDE DEF s, others
<1>5. CodesAreKeys(t, h)
  <2>1. SaysNoMore(t, s)
    BY <1>2, Zenon DEF SaysNoMore
  <2> QED BY <1>1, <2>1, CodesLeft, Zenon
<1>6. HeldAreClosed(t, matrix2 \cup left2, h, m)
  <2> SUFFICES ASSUME NEW k \in h, NEW c \in k.cells[m]
               PROVE  c \in matrix2 \cup left2 \/ MakeIn(t, k.code, k.ext)
    BY Zenon DEF HeldAreClosed
  <2>1. c \in matrix \cup left \/ MakeIn(s, k.code, k.ext)
    BY <1>1, Zenon DEF HeldAreClosed
  <2>2. k \in Keys
    OBVIOUS
  <2>3. k.ext \in BOOLEAN
    BY <2>2, KeyIs, Zenon
  <2>4. c \in matrix \cup left => c \in matrix2 \cup left2
    <3>1. c \in others
      BY <1>4, Zenon
    <3> QED BY <1>3, <3>1
  <2>5. MakeIn(s, k.code, k.ext) <=> MakeIn(t, k.code, k.ext)
    BY <1>2, <2>3, Zenon
  <2> QED BY <2>1, <2>4, <2>5, Zenon
<1>7. ClosedAreHeld(t, matrix2 \ left2, h, m)
  <2> SUFFICES ASSUME NEW c \in matrix2 \ left2
               PROVE  \E k \in Keys : c \in k.cells[m] /\ (k \in h \/ BreakIn(t, k.code, k.ext))
    BY Zenon DEF ClosedAreHeld
  <2>1. c \in matrix \ left /\ c \notin cells
    BY <1>3
  <2>2. PICK k \in Keys : c \in k.cells[m] /\ (k \in h \/ BreakIn(s, k.code, k.ext))
    BY <1>1, <2>1, Zenon DEF ClosedAreHeld
  <2>3. k.ext \in BOOLEAN /\ k.cells[m] = CellsOf(k.code, k.ext, m)
    BY KeyCells, Zenon
  <2>4. ~(k.code = x /\ k.ext = e)
    <3>1. ASSUME k.code = x /\ k.ext = e PROVE k.cells[m] = CellsOf(x, e, m)
      BY <2>3, <3>1, Zenon
    <3> QED BY <2>1, <2>2, <3>1
  <2>5. BreakIn(s, k.code, k.ext) <=> (k.code = x /\ k.ext = e) \/ BreakIn(t, k.code, k.ext)
    BY <1>2, <2>3, Zenon
  <2> QED BY <2>2, <2>4, <2>5, Zenon
<1> QED BY <1>1, <1>2, <1>5, <1>6, <1>7, Zenon DEF Settled

\* A code without cells leaves the matrix as it is.
LEMMA NothingTaken ==
  ASSUME NEW x \in Byte, x # \hE0, x # \hF0, NEW e \in BOOLEAN, NEW t \in Seq(Byte),
         NEW matrix, NEW left, NEW h, h \subseteq Keys, NEW m \in BOOLEAN,
         CellsOf(x, e, m) = {}, Settled(Down(x, e) \o t, matrix, left, h, m)
  PROVE  Settled(t, matrix, left, h, m)
<1>1. \A left2 : left2 = left \cup CellsOf(x, e, m) => Settled(t, matrix, left2, h, m)
  BY DownTaken
<1>2. left = left \cup CellsOf(x, e, m)
  OBVIOUS
<1> QED BY <1>1, <1>2, Zenon

\* The layout changes: the history has the cells of the letters it comes in between.
Between(matrix, h, m) == {k \in Letters : k \in h \/ k.cells[m] \cap matrix # {}}
Changes(letters, m, m2, left, left2) ==
  IF m = m2 THEN left2 = left
  ELSE left2 = left \cup UNION {k.cells[TRUE] \cup k.cells[FALSE] : k \in letters}

LEMMA LayoutTaken ==
  ASSUME NEW x \in Byte, x # \hE0, x # \hF0, NEW e \in BOOLEAN, NEW t \in Seq(Byte),
         \A n \in BOOLEAN : CellsOf(x, e, n) = {},
         NEW matrix, NEW left, NEW h, h \subseteq Keys, NEW m \in BOOLEAN, NEW m2 \in BOOLEAN,
         Settled(Down(x, e) \o t, matrix, left, h, m), NEW left2,
         Changes(Between(matrix, h, m), m, m2, left, left2)
  PROVE  Settled(t, matrix, left2, h, m2)
<1>1. Settled(t, matrix, left, h, m)
  BY NothingTaken
<1>2. CASE m = m2
  BY <1>1, <1>2, Zenon DEF Changes
<1>3. CASE m # m2
  <2> DEFINE letters == Between(matrix, h, m)
  <2>1. /\ WellFormed(t) /\ CodesAreKeys(t, h)
        /\ HeldAreClosed(t, matrix \cup left, h, m) /\ ClosedAreHeld(t, matrix \ left, h, m)
    BY <1>1, Zenon DEF Settled
  <2>2. /\ left \subseteq left2
        /\ \A k \in letters : \A n \in BOOLEAN : k.cells[n] \subseteq left2
    <3>1. left2 = left \cup UNION {k.cells[TRUE] \cup k.cells[FALSE] : k \in letters}
      BY <1>3, Zenon DEF Changes
    <3>2. ASSUME NEW k \in letters, NEW n \in BOOLEAN, NEW c \in k.cells[n] PROVE c \in left2
      <4>1. c \in k.cells[TRUE] \cup k.cells[FALSE]
        BY Zenon
      <4> QED BY <3>1, <4>1
    <3> QED BY <3>1, <3>2
  <2>3. ASSUME NEW k \in Keys, k \notin letters, k \in h \/ k.cells[m] \cap matrix # {}
        PROVE  k.cells[m2] = k.cells[m]
    <3>1. k \notin Letters
      BY <2>3 DEF Between
    <3>2. k.cells[TRUE] = k.cells[FALSE]
      BY <3>1, Zenon DEF Letters
    <3> QED BY <3>2
  <2>4. HeldAreClosed(t, matrix \cup left2, h, m2)
    <3> SUFFICES ASSUME NEW k \in h, NEW c \in k.cells[m2]
                 PROVE  c \in matrix \cup left2 \/ MakeIn(t, k.code, k.ext)
      BY Zenon DEF HeldAreClosed
    <3>1. CASE k \in letters
      BY <2>2, <3>1
    <3>2. CASE k \notin letters
      <4>1. k \in Keys
        OBVIOUS
      <4>2. k.cells[m2] = k.cells[m]
        BY <2>3, <3>2, <4>1, Zenon
      <4>3. c \in matrix \cup left \/ MakeIn(t, k.code, k.ext)
        BY <2>1, <4>2, Zenon DEF HeldAreClosed
      <4> QED BY <2>2, <4>3
    <3> QED BY <3>1, <3>2, Zenon
  <2>5. ClosedAreHeld(t, matrix \ left2, h, m2)
    <3> SUFFICES ASSUME NEW c \in matrix \ left2
                 PROVE  \E k \in Keys : c \in k.cells[m2] /\ (k \in h \/ BreakIn(t, k.code, k.ext))
      BY Zenon DEF ClosedAreHeld
    <3>1. c \in matrix \ left
      BY <2>2
    <3>2. PICK k \in Keys : c \in k.cells[m] /\ (k \in h \/ BreakIn(t, k.code, k.ext))
      BY <2>1, <3>1, Zenon DEF ClosedAreHeld
    <3>3. k \notin letters
      BY <2>2, <3>2
    <3>4. k.cells[m] \cap matrix # {}
      BY <3>2
    <3>5. k.cells[m2] = k.cells[m]
      BY <2>3, <3>3, <3>4, Zenon
    <3> QED BY <3>2, <3>5, Zenon
  <2> QED BY <2>1, <2>4, <2>5, Zenon DEF Settled
<1> QED BY <1>2, <1>3, Zenon

\* What the user does comes behind all that is under way.
LEMMA Appended ==
  ASSUME NEW s \in Seq(Byte), NEW b \in Seq(Byte), WellFormed(b),
         NEW matrix, NEW left, NEW h, h \subseteq Keys, NEW m, Settled(s, matrix, left, h, m),
         NEW h2, h2 \subseteq Keys, CodesAreKeys(b, h2),
         \A k \in h2 : k \in h \/ MakeIn(b, k.code, k.ext),
         \A k \in h : k \in h2 \/ BreakIn(b, k.code, k.ext)
  PROVE  Settled(s \o b, matrix, left, h2, m)
<1> DEFINE r == s \o b
<1>1. /\ WellFormed(s) /\ CodesAreKeys(s, h)
      /\ HeldAreClosed(s, matrix \cup left, h, m) /\ ClosedAreHeld(s, matrix \ left, h, m)
  BY Zenon DEF Settled
<1>2. WellFormed(r)
  BY <1>1, HalvesAt, Zenon
<1>3. ASSUME NEW y, NEW f
      PROVE  /\ MakeIn(r, y, f) <=> MakeIn(s, y, f) \/ MakeIn(b, y, f)
             /\ BreakIn(r, y, f) <=> BreakIn(s, y, f) \/ BreakIn(b, y, f)
             /\ StaysDown(r, y, f) <=> StaysDown(b, y, f) \/ (StaysDown(s, y, f) /\ ~BreakIn(b, y, f))
  BY <1>1, Halves, Zenon
<1> HIDE DEF r
<1>4. ASSUME NEW x \in Byte \ {\hFA}, NEW e \in BOOLEAN
      PROVE  /\ MakeIn(r, x, e) => \E k \in Keys : k.code = x /\ k.ext = e
             /\ StaysDown(r, x, e) => \E k \in h2 : k.code = x /\ k.ext = e
  <2>1. /\ MakeIn(s, x, e) => \E k \in Keys : k.code = x /\ k.ext = e
        /\ StaysDown(s, x, e) => \E k \in h : k.code = x /\ k.ext = e
    BY <1>1, Zenon DEF CodesAreKeys
  <2>2. /\ MakeIn(b, x, e) => \E k \in Keys : k.code = x /\ k.ext = e
        /\ StaysDown(b, x, e) => \E k \in h2 : k.code = x /\ k.ext = e
    BY Zenon DEF CodesAreKeys
  <2>3. ASSUME StaysDown(s, x, e), ~BreakIn(b, x, e) PROVE \E k \in h2 : k.code = x /\ k.ext = e
    <3>1. PICK k \in h : k.code = x /\ k.ext = e
      BY <2>1, <2>3, Zenon
    <3>2. k \in h2 \/ BreakIn(b, x, e)
      BY <3>1, Zenon
    <3> QED BY <2>3, <3>1, <3>2, Zenon
  <2>4. /\ MakeIn(r, x, e) <=> MakeIn(s, x, e) \/ MakeIn(b, x, e)
        /\ StaysDown(r, x, e) <=> StaysDown(b, x, e) \/ (StaysDown(s, x, e) /\ ~BreakIn(b, x, e))
    BY <1>3, Zenon
  <2> QED BY <2>1, <2>2, <2>3, <2>4, Zenon
<1>5. HeldAreClosed(r, matrix \cup left, h2, m)
  <2> SUFFICES ASSUME NEW k \in h2, NEW c \in k.cells[m]
               PROVE  c \in matrix \cup left \/ MakeIn(r, k.code, k.ext)
    BY Zenon DEF HeldAreClosed
  <2>1. k \in h \/ MakeIn(b, k.code, k.ext)
    BY Zenon
  <2>2. k \in h => c \in matrix \cup left \/ MakeIn(s, k.code, k.ext)
    BY <1>1, Zenon DEF HeldAreClosed
  <2> QED BY <1>3, <2>1, <2>2, Zenon
<1>6. ClosedAreHeld(r, matrix \ left, h2, m)
  <2> SUFFICES ASSUME NEW c \in matrix \ left
               PROVE  \E k \in Keys : c \in k.cells[m] /\ (k \in h2 \/ BreakIn(r, k.code, k.ext))
    BY Zenon DEF ClosedAreHeld
  <2>1. PICK k \in Keys : c \in k.cells[m] /\ (k \in h \/ BreakIn(s, k.code, k.ext))
    BY <1>1, Zenon DEF ClosedAreHeld
  <2>2. k \in h => k \in h2 \/ BreakIn(b, k.code, k.ext)
    BY Zenon
  <2> QED BY <1>3, <2>1, <2>2, Zenon
<1>7. CodesAreKeys(r, h2)
  BY <1>4, Zenon DEF CodesAreKeys
<1> QED BY <1>2, <1>5, <1>6, <1>7, Zenon DEF Settled, r

LEMMA UserSettled ==
  ASSUME NEW k \in Keys, NEW bytes, NEW s \in Seq(Byte), NEW matrix, NEW left,
         NEW h, h \subseteq Keys, NEW h2, NEW m, Settled(s, matrix, left, h, m),
         \/ h2 = h \cup {k} /\ bytes = Make(k)
         \/ h2 = h \ {k} /\ bytes = Break(k)
         \/ h2 = h /\ bytes = Make(k) \o Break(k)
         \/ k \in h /\ h2 = h /\ bytes = Make(k)
  PROVE  Settled(s \o bytes, matrix, left, h2, m)
<1> DEFINE x == k.code  e == k.ext  d == Down(x, e)  u == Up(x, e)
<1>1. /\ x \in Byte /\ x # \hE0 /\ x # \hF0 /\ e \in BOOLEAN
      /\ Make(k) = d /\ Break(k) = u
  BY KeyIs
<1>2. d \in Seq(Byte) /\ WellFormed(d) /\ u \in Seq(Byte) /\ WellFormed(u)
  <2>1. d \in Seq(Byte) /\ WellFormed(d)
    BY <1>1, DownSays, Zenon
  <2>2. u \in Seq(Byte) /\ WellFormed(u)
    BY <1>1, UpSays, Zenon
  <2> QED BY <2>1, <2>2, Zenon
<1>3. ASSUME NEW y, NEW f \in BOOLEAN
      PROVE  /\ MakeIn(d, y, f) <=> y = x /\ f = e
             /\ StaysDown(d, y, f) => y = x /\ f = e
             /\ ~MakeIn(u, y, f) /\ ~StaysDown(u, y, f)
             /\ BreakIn(u, y, f) <=> y = x /\ f = e
             /\ MakeIn(d \o u, y, f) => y = x /\ f = e
             /\ ~StaysDown(d \o u, y, f)
  <2>1. /\ MakeIn(d, y, f) <=> y = x /\ f = e
        /\ StaysDown(d, y, f) <=> y = x /\ f = e
    BY <1>1, DownSays
  <2>2. ~MakeIn(u, y, f) /\ ~StaysDown(u, y, f) /\ (BreakIn(u, y, f) <=> y = x /\ f = e)
    BY <1>1, UpSays
  <2>3. /\ MakeIn(d \o u, y, f) <=> (y = x /\ f = e) \/ MakeIn(u, y, f)
        /\ StaysDown(d \o u, y, f) <=> StaysDown(u, y, f) \/ (y = x /\ f = e /\ ~BreakIn(u, y, f))
    BY <1>1, <1>2, DownFirst
  <2> QED BY <2>1, <2>2, <2>3, Zenon
<1>4. d \o u \in Seq(Byte) /\ WellFormed(d \o u)
  BY <1>2, HalvesAt, Zenon
<1>5. h2 \subseteq Keys
  OBVIOUS
<1> HIDE DEF d, u
<1>6. CASE k \in h2 /\ h \subseteq h2 /\ h2 \subseteq h \cup {k} /\ bytes = d
  <2>1. CodesAreKeys(d, h2)
    BY <1>3, <1>6 DEF CodesAreKeys
  <2>2. \A j \in h2 : j \in h \/ MakeIn(d, j.code, j.ext)
    <3>1. MakeIn(d, x, e)
      BY <1>1, <1>3
    <3> QED BY <1>6, <3>1
  <2>3. \A j \in h : j \in h2 \/ BreakIn(d, j.code, j.ext)
    BY <1>6
  <2> QED BY <1>2, <1>5, <1>6, <2>1, <2>2, <2>3, Appended, Zenon
<1>7. CASE h2 = h \ {k} /\ bytes = u
  <2>1. CodesAreKeys(u, h2)
    BY <1>3 DEF CodesAreKeys
  <2>2. \A j \in h2 : j \in h \/ MakeIn(u, j.code, j.ext)
    BY <1>7
  <2>3. \A j \in h : j \in h2 \/ BreakIn(u, j.code, j.ext)
    <3>1. BreakIn(u, x, e)
      BY <1>1, <1>3
    <3> QED BY <1>7, <3>1
  <2> QED BY <1>2, <1>5, <1>7, <2>1, <2>2, <2>3, Appended, Zenon
<1>8. CASE h2 = h /\ bytes = d \o u
  <2>1. CodesAreKeys(d \o u, h2)
    BY <1>3 DEF CodesAreKeys
  <2>2. /\ \A j \in h2 : j \in h \/ MakeIn(d \o u, j.code, j.ext)
        /\ \A j \in h : j \in h2 \/ BreakIn(d \o u, j.code, j.ext)
    BY <1>8
  <2> QED BY <1>4, <1>5, <1>8, <2>1, <2>2, Appended, Zenon
<1>9. \/ k \in h2 /\ h \subseteq h2 /\ h2 \subseteq h \cup {k} /\ bytes = d
      \/ h2 = h \ {k} /\ bytes = u
      \/ h2 = h /\ bytes = d \o u
  <2>1. \/ h2 = h \cup {k} /\ bytes = d
        \/ h2 = h \ {k} /\ bytes = u
        \/ h2 = h /\ bytes = d \o u
        \/ k \in h /\ h2 = h /\ bytes = d
    BY <1>1, Zenon
  <2> QED BY <2>1
<1> QED BY <1>6, <1>7, <1>8, <1>9, Zenon

\* The answer to a command comes in front, and goes.
LEMMA AnswerIs == \A t \in Seq(Byte) : Ahead(\hFA, t) = Down(\hFA, FALSE) \o t
BY Zenon DEF Ahead, Down

LEMMA AnswerSettled ==
  ASSUME NEW t \in Seq(Byte), NEW matrix, NEW left, NEW h, h \subseteq Keys, NEW m \in BOOLEAN
  PROVE  Settled(Ahead(\hFA, t), matrix, left, h, m) <=> Settled(t, matrix, left, h, m)
<1>0. PICK e \in BOOLEAN : e = FALSE
  OBVIOUS
<1> DEFINE x == \hFA  s == Down(x, e) \o t
<1>1. x \in Byte /\ x # \hE0 /\ x # \hF0
  BY DEF Byte
<1>2. Ahead(\hFA, t) = s
  BY <1>0, AnswerIs
<1>3. CellsOf(x, e, m) = {}
  BY AnswerHasNoCell
<1> HIDE DEF x
<1>4. ASSUME Settled(s, matrix, left, h, m) PROVE Settled(t, matrix, left, h, m)
  BY <1>1, <1>3, <1>4, NothingTaken
<1>5. ASSUME Settled(t, matrix, left, h, m) PROVE Settled(s, matrix, left, h, m)
  <2>1. /\ WellFormed(s) <=> WellFormed(t)
        /\ \A y : \A f \in BOOLEAN :
             /\ MakeIn(s, y, f) <=> (y = x /\ f = e) \/ MakeIn(t, y, f)
             /\ BreakIn(s, y, f) <=> BreakIn(t, y, f)
             /\ StaysDown(s, y, f)
                  <=> StaysDown(t, y, f) \/ (y = x /\ f = e /\ ~BreakIn(t, y, f))
    BY <1>1, DownFirst
  <2>2. /\ WellFormed(t) /\ CodesAreKeys(t, h)
        /\ HeldAreClosed(t, matrix \cup left, h, m) /\ ClosedAreHeld(t, matrix \ left, h, m)
    BY <1>5, Zenon DEF Settled
  <2> HIDE DEF s
  <2>3. CodesAreKeys(s, h)
    <3> SUFFICES ASSUME NEW y \in Byte \ {\hFA}, NEW f \in BOOLEAN
                 PROVE  /\ MakeIn(s, y, f) => \E k \in Keys : k.code = y /\ k.ext = f
                        /\ StaysDown(s, y, f) => \E k \in h : k.code = y /\ k.ext = f
      BY Zenon DEF CodesAreKeys
    <3>1. y # x
      BY DEF x
    <3>2. /\ MakeIn(t, y, f) => \E k \in Keys : k.code = y /\ k.ext = f
          /\ StaysDown(t, y, f) => \E k \in h : k.code = y /\ k.ext = f
      BY <2>2 DEF CodesAreKeys
    <3> QED BY <2>1, <3>1, <3>2, ZenonT(40)
  <2>4. HeldAreClosed(s, matrix \cup left, h, m)
    <3> SUFFICES ASSUME NEW k \in h, NEW c \in k.cells[m]
                 PROVE  c \in matrix \cup left \/ MakeIn(s, k.code, k.ext)
      BY Zenon DEF HeldAreClosed
    <3>1. k \in Keys
      OBVIOUS
    <3>2. k.ext \in BOOLEAN
      BY <3>1, KeyIs, Zenon
    <3>3. c \in matrix \cup left \/ MakeIn(t, k.code, k.ext)
      BY <2>2, Zenon DEF HeldAreClosed
    <3> QED BY <2>1, <3>2, <3>3, Zenon
  <2>5. ClosedAreHeld(s, matrix \ left, h, m)
    <3> SUFFICES ASSUME NEW c \in matrix \ left
                 PROVE  \E k \in Keys : c \in k.cells[m] /\ (k \in h \/ BreakIn(s, k.code, k.ext))
      BY Zenon DEF ClosedAreHeld
    <3>1. PICK k \in Keys : c \in k.cells[m] /\ (k \in h \/ BreakIn(t, k.code, k.ext))
      BY <2>2, Zenon DEF ClosedAreHeld
    <3>2. k.ext \in BOOLEAN
      BY KeyIs, Zenon
    <3> QED BY <2>1, <3>1, <3>2, Zenon
  <2> QED BY <2>1, <2>2, <2>3, <2>4, <2>5, Zenon DEF Settled
<1> QED BY <1>2, <1>4, <1>5, Zenon

\* After a reset nothing is closed, and the history has all that is held.
LEMMA ResetSettled ==
  ASSUME NEW s, NEW matrix, NEW left, NEW h, NEW m, Settled(s, matrix, left, h, m)
  PROVE  Settled(s, {}, left \cup UNION {k.cells[FALSE] : k \in h}, h, FALSE)
<1> DEFINE left2 == left \cup UNION {k.cells[FALSE] : k \in h}
<1>1. HeldAreClosed(s, {} \cup left2, h, FALSE)
  <2>1. ASSUME NEW k \in h, NEW c \in k.cells[FALSE] PROVE c \in {} \cup left2
    OBVIOUS
  <2> QED BY <2>1, Zenon DEF HeldAreClosed
<1>2. ClosedAreHeld(s, {} \ left2, h, FALSE)
  <2>1. \A c : c \notin {} \ left2
    OBVIOUS
  <2> QED BY <2>1, Zenon DEF ClosedAreHeld
<1> HIDE DEF left2
<1>3. Settled(s, {}, left2, h, FALSE)
  BY <1>1, <1>2, Zenon DEF Settled
<1> QED BY <1>3, Zenon DEF left2

-----------------------------------------------------------------------------
(* The matrix.  Every step.                                                *)

LEMMA TwoBytes ==
  ASSUME NEW y \in Byte, NEW x \in Byte, NEW t \in Seq(Byte)
  PROVE  <<y>> \o (<<x>> \o t) = <<y, x>> \o t
<1> DEFINE u == <<y>> \o <<x>>  v == <<y, x>>
<1>1. /\ u \in Seq(Byte) /\ Len(u) = 2 /\ u[1] = y /\ u[2] = x
      /\ <<y>> \in Seq(Byte) /\ <<x>> \in Seq(Byte)
  OBVIOUS
<1>2. v \in Seq(Byte) /\ Len(v) = 2 /\ v[1] = y /\ v[2] = x
  OBVIOUS
<1> HIDE DEF u, v
<1>3. \A i \in 1..Len(u) : u[i] = v[i]
  BY <1>1, <1>2
<1>4. u = v
  BY <1>1, <1>2, <1>3, SeqEqual, Zenon
<1>5. (<<y>> \o <<x>>) \o t = <<y>> \o (<<x>> \o t)
  BY <1>1, ConcatAssociative
<1> QED BY <1>4, <1>5, Zenon DEF u, v

LEMMA ThreeBytes ==
  ASSUME NEW z \in Byte, NEW y \in Byte, NEW x \in Byte, NEW t \in Seq(Byte)
  PROVE  <<z>> \o (<<y, x>> \o t) = <<z, y, x>> \o t
<1> DEFINE u == <<z>> \o <<y, x>>  v == <<z, y, x>>
<1>1. /\ u \in Seq(Byte) /\ Len(u) = 3 /\ u[1] = z /\ u[2] = y /\ u[3] = x
      /\ <<z>> \in Seq(Byte) /\ <<y, x>> \in Seq(Byte)
  OBVIOUS
<1>2. v \in Seq(Byte) /\ Len(v) = 3 /\ v[1] = z /\ v[2] = y /\ v[3] = x
  OBVIOUS
<1> HIDE DEF u, v
<1>3. \A i \in 1..Len(u) : u[i] = v[i]
  BY <1>1, <1>2
<1>4. u = v
  BY <1>1, <1>2, <1>3, SeqEqual, Zenon
<1>5. (<<z>> \o <<y, x>>) \o t = <<z>> \o (<<y, x>> \o t)
  BY <1>1, ConcatAssociative
<1> QED BY <1>4, <1>5, Zenon DEF u, v

\* A code that the decoder has taken is the code of a key.
LEMMA CodeAhead ==
  ASSUME NEW x \in Byte, NEW t \in Seq(Byte)
  PROVE  /\ Ahead(x, t) = Down(x, FALSE) \o t
         /\ Ahead(\hE0, Ahead(x, t)) = Down(x, TRUE) \o t
         /\ Ahead(\hF0, Ahead(x, t)) = Up(x, FALSE) \o t
         /\ Ahead(\hE0, Ahead(\hF0, Ahead(x, t))) = Up(x, TRUE) \o t
<1> DEFINE a == \hE0  b == \hF0
<1>1. a \in Byte /\ b \in Byte
  BY DEF Byte
<1>2. Down(x, FALSE) = <<x>> /\ Down(x, TRUE) = <<a, x>>
      /\ Up(x, FALSE) = <<b, x>> /\ Up(x, TRUE) = <<a, b, x>>
  BY DEF Down, Up
<1> HIDE DEF a, b
<1>3. \A y \in Byte : <<y>> \o (<<x>> \o t) = <<y, x>> \o t
  BY TwoBytes, Zenon
<1>4. <<a>> \o (<<b, x>> \o t) = <<a, b, x>> \o t
  BY <1>1, ThreeBytes, Zenon
<1>5. /\ Ahead(x, t) = <<x>> \o t
      /\ Ahead(a, Ahead(x, t)) = <<a>> \o (<<x>> \o t)
      /\ Ahead(b, Ahead(x, t)) = <<b>> \o (<<x>> \o t)
      /\ Ahead(a, Ahead(b, Ahead(x, t))) = <<a>> \o (<<b>> \o (<<x>> \o t))
  BY Zenon DEF Ahead
<1>6. /\ Ahead(x, t) = Down(x, FALSE) \o t
      /\ Ahead(a, Ahead(x, t)) = Down(x, TRUE) \o t
      /\ Ahead(b, Ahead(x, t)) = Up(x, FALSE) \o t
      /\ Ahead(a, Ahead(b, Ahead(x, t))) = Up(x, TRUE) \o t
  BY <1>1, <1>2, <1>3, <1>4, <1>5
<1> QED BY <1>6, Zenon DEF a, b

LEMMA SecondIs ==
  ASSUME NEW y \in Byte, NEW t \in Seq(Byte), Len(t) >= 1
  PROVE  LET s == Ahead(y, t) IN
         /\ s \in Seq(Byte) /\ Len(s) = Len(t) + 1 /\ Len(s) >= 1 /\ s[1] = y /\ s[2] = t[1]
         /\ 1 \in 1..Len(s) /\ 1 + 1 = 2
         /\ Len(t) >= 2 => s[3] = t[2] /\ 2 \in 1..Len(s) /\ 2 + 1 = 3
<1> DEFINE s == Ahead(y, t)
<1>1. /\ s \in Seq(Byte) /\ Len(t) \in Nat /\ Len(s) = Len(t) + 1 /\ s[1] = y
      /\ \A i \in 1..Len(t) : s[i + 1] = t[i]
  BY AheadIs, Zenon
<1> HIDE DEF s
<1>2. 1 \in 1..Len(t) /\ 1 \in 1..Len(s) /\ 1 + 1 = 2 /\ Len(s) >= 1
  BY <1>1
<1>3. s[2] = t[1]
  BY <1>1, <1>2
<1>4. ASSUME Len(t) >= 2 PROVE s[3] = t[2] /\ 2 \in 1..Len(s) /\ 2 + 1 = 3
  <2>1. 2 \in 1..Len(t) /\ 2 + 1 = 3 /\ 2 \in 1..Len(s)
    BY <1>1, <1>4
  <2> QED BY <1>1, <2>1
<1> QED BY <1>1, <1>2, <1>3, <1>4, Zenon DEF s

LEMMA PrefixedIs ==
  ASSUME NEW x \in Byte, NEW t \in Seq(Byte)
  PROVE  /\ WellFormed(Ahead(\hE0, Ahead(x, t))) => x # \hE0
         /\ WellFormed(Ahead(\hF0, Ahead(x, t))) => x # \hE0 /\ x # \hF0
         /\ WellFormed(Ahead(\hE0, Ahead(\hF0, Ahead(x, t)))) => x # \hE0 /\ x # \hF0
<1> DEFINE a == \hE0  b == \hF0  r == Ahead(x, t)  rb == Ahead(b, r)
           sa == Ahead(a, r)  sab == Ahead(a, rb)
<1>1. a \in Byte /\ b \in Byte
  BY DEF Byte
<1>2. r \in Seq(Byte) /\ Len(r) >= 1 /\ r[1] = x
  BY AheadIs
<1> HIDE DEF a, b, r
<1>3. rb \in Seq(Byte) /\ Len(rb) >= 2 /\ rb[1] = b /\ rb[2] = x /\ 1 \in 1..Len(rb) /\ 1 + 1 = 2
  <2>1. rb \in Seq(Byte) /\ Len(rb) = Len(r) + 1 /\ rb[1] = b /\ rb[2] = r[1]
        /\ 1 \in 1..Len(rb) /\ 1 + 1 = 2
    BY <1>1, <1>2, SecondIs, Zenon
  <2>2. Len(rb) >= 2
    BY <1>2, <2>1
  <2> QED BY <1>2, <2>1, <2>2, Zenon
<1>4. sa[1] = a /\ sa[2] = x /\ 1 \in 1..Len(sa)
  BY <1>1, <1>2, SecondIs, Zenon
<1> HIDE DEF rb, sa
<1>5. sab[3] = x /\ sab[2] = b /\ 2 \in 1..Len(sab) /\ 2 + 1 = 3
  <2>1. Len(rb) >= 1
    BY <1>3
  <2> QED BY <1>1, <1>3, <2>1, SecondIs, Zenon
<1> HIDE DEF sab
<1>6. WellFormed(sa) => x # a
  BY <1>3, <1>4 DEF WellFormed, a
<1>7. WellFormed(rb) => x # a /\ x # b
  BY <1>3 DEF WellFormed, a, b
<1>8. WellFormed(sab) => x # a /\ x # b
  BY <1>5 DEF WellFormed, a, b
<1> QED BY <1>6, <1>7, <1>8, Zenon DEF a, b, r, rb, sa, sab

\* What the decoder does to the matrix with a key that went down, and with one that
\* went up.
LEMMA DownDecoded ==
  ASSUME Typed, KeyDown, NEW e \in BOOLEAN, e <=> state = 13
  PROVE  \/ /\ \/ /\ keymatrix' = keymatrix \cup CellsOf(q, e, key_jcuken)
                  /\ missed' = missed \ CellsOf(q, e, key_jcuken)
               \/ /\ keymatrix' = keymatrix /\ missed' = missed \cup CellsOf(q, e, key_jcuken)
            /\ key_jcuken' = key_jcuken
         \/ /\ \A n \in BOOLEAN : CellsOf(q, e, n) = {}
            /\ keymatrix' = keymatrix /\ key_jcuken' \in BOOLEAN
            /\ Changes(Between(keymatrix, held, key_jcuken), key_jcuken, key_jcuken', missed, missed')
<1> DEFINE line == Line(q, e)  cell == scan2matrix(q, key_jcuken)  cells == CellsOf(q, e, key_jcuken)
<1>1. e = (state = 13)
  OBVIOUS
<1>2. \/ /\ line # {}
         /\ keymatrix' = keymatrix \cup line /\ missed' = missed \ line
         /\ key_jcuken' = key_jcuken
      \/ /\ line = {} /\ q = Layout
         /\ key_jcuken' = e
         /\ missed' = IF key_jcuken = e THEN missed
                      ELSE missed \cup UNION {k.cells[TRUE] \cup k.cells[FALSE] : k \in Affected}
         /\ keymatrix' = keymatrix
      \/ /\ line = {} /\ q # Layout
         /\ keymatrix' = IF o_osd THEN keymatrix ELSE keymatrix \cup cell
         /\ missed' = IF o_osd THEN missed \cup cell ELSE missed \ cell
         /\ key_jcuken' = key_jcuken
  BY <1>1, Zenon DEF KeyDown
<1>3. CASE line # {}
  <2>1. cells = line
    BY <1>3, Zenon DEF CellsOf
  <2> QED BY <1>2, <1>3, <2>1, Zenon
<1>4. CASE line = {} /\ q = Layout
  <2>1. \A n \in BOOLEAN : CellsOf(q, e, n) = {}
    BY <1>4, Zenon DEF CellsOf
  <2>2. key_jcuken' = e /\ keymatrix' = keymatrix
        /\ missed' = IF key_jcuken = e THEN missed
                     ELSE missed \cup UNION {k.cells[TRUE] \cup k.cells[FALSE] : k \in Affected}
    BY <1>2, <1>4, Zenon
  <2>3. Affected = Between(keymatrix, held, key_jcuken)
    BY Zenon DEF Affected, Between
  <2>4. Changes(Between(keymatrix, held, key_jcuken), key_jcuken, key_jcuken', missed, missed')
    BY <2>2, <2>3, Zenon DEF Changes
  <2> QED BY <2>1, <2>2, <2>4, Zenon
<1>5. CASE line = {} /\ q # Layout
  <2>1. cells = cell
    BY <1>5, Zenon DEF CellsOf
  <2> QED BY <1>2, <1>5, <2>1, Zenon
<1> QED BY <1>3, <1>4, <1>5, Zenon

LEMMA UpDecoded ==
  ASSUME Typed, KeyUp, NEW e \in BOOLEAN, e <=> state = 17
  PROVE  /\ key_jcuken' = key_jcuken
         /\ \E cells :
              /\ CellsOf(q, e, key_jcuken) \subseteq cells
              /\ Opens(cells, UNION {k.cells[key_jcuken] : k \in held}, keymatrix, missed,
                       keymatrix', missed')
<1> DEFINE line == Line(q, e)  cell == scan2matrix(q, key_jcuken)
           others == UNION {k.cells[key_jcuken] : k \in held}
<1>1. e = (state = 17)
  OBVIOUS
<1>2. \/ /\ line # {}
         /\ keymatrix' = keymatrix \ line
         /\ missed' = (missed \ line) \cup (line \cap others)
         /\ key_jcuken' = key_jcuken
      \/ /\ line = {}
         /\ keymatrix' = IF o_osd THEN keymatrix ELSE keymatrix \ cell
         /\ missed' = IF o_osd THEN missed \cup cell ELSE (missed \ cell) \cup (cell \cap others)
         /\ key_jcuken' = key_jcuken
  BY <1>1, Zenon DEF KeyUp
<1>3. CASE line # {}
  <2>1. CellsOf(q, e, key_jcuken) \subseteq line
    BY <1>3, Zenon DEF CellsOf
  <2> QED BY <1>2, <1>3, <2>1, Zenon DEF Opens
<1>4. CASE line = {}
  <2>1. CellsOf(q, e, key_jcuken) \subseteq cell
    BY <1>4, Zenon DEF CellsOf
  <2> QED BY <1>2, <1>4, <2>1, Zenon DEF Opens
<1> QED BY <1>3, <1>4, Zenon

LEMMA ClockSettles ==
  ASSUME KbInv, Settling, NEW retrace \in BOOLEAN, Clock(retrace)
  PROVE  Settling'
<1>1. Typed /\ Handshake /\ Answered
  BY Zenon DEF KbInv
<1> SUFFICES ASSUME ~Lost' PROVE Settled(Stream', keymatrix', missed', held', key_jcuken')
  BY Zenon DEF Settling
<1>2. ~Lost /\ Settled(Stream, keymatrix, missed, held, key_jcuken)
  BY <1>1, ClockLost, Zenon DEF Settling
<1>3. q \in Byte /\ out \in Seq(Byte) /\ held \subseteq Keys /\ key_jcuken \in BOOLEAN
      /\ state \in 0..30
  BY <1>1, Zenon DEF Typed
<1>4. WellFormed(Stream)
  BY <1>2, Zenon DEF Settled
<1>5. CASE state \notin {5, 9, 13, 17, 25, 30}
  <2>1. Stream' = Stream /\ held' = held /\ UNCHANGED keyVars
    BY <1>1, <1>5, ClockStream, ClockParts, Zenon
  <2> QED BY <1>2, <2>1, Zenon DEF keyVars
<1>6. ASSUME state \in {5, 9, 13, 17, 25, 30}
      PROVE  /\ state \in {5, 13} => KeyDown
             /\ state \in {9, 17} => KeyUp
             /\ state \in {25, 30} => Acknowledge \/ Pass
             /\ Stream = StreamOf(state, q, out) /\ Stream' = out
             /\ held' = held
  BY <1>1, <1>6, ClockTaken, Zenon
<1>7. CASE state \in {5, 13}
  <2>1. PICK e \in BOOLEAN : e <=> state = 13
    <3>1. (state = 13) \in BOOLEAN
      OBVIOUS
    <3> QED BY <3>1
  <2>2. KeyDown /\ Stream = StreamOf(state, q, out) /\ Stream' = out /\ held' = held
    BY <1>6, <1>7
  <2>3. q # \hE0 /\ q # \hF0 /\ Stream = Down(q, e) \o out
    <3>1. CASE state = 5
      <4>1. Stream = Ahead(q, out)
        BY <1>3, <2>2, <3>1, StreamOfIs
      <4>2. q # \hE0 /\ q # \hF0
        BY <1>1, <3>1 DEF Handshake
      <4>3. e = FALSE
        BY <2>1, <3>1
      <4> QED BY <1>3, <4>1, <4>2, <4>3, CodeAhead
    <3>2. CASE state = 13
      <4>1. Stream = Ahead(\hE0, Ahead(q, out))
        BY <1>3, <2>2, <3>2, StreamOfIs
      <4>2. q # \hE0 /\ q # \hF0
        <5>1. q # \hF0
          BY <1>1, <3>2 DEF Handshake
        <5>2. q # \hE0
          BY <1>3, <1>4, <4>1, PrefixedIs
        <5> QED BY <5>1, <5>2
      <4>3. e = TRUE
        BY <2>1, <3>2
      <4> QED BY <1>3, <4>1, <4>2, <4>3, CodeAhead
    <3> QED BY <1>7, <3>1, <3>2
  <2>4. Settled(Down(q, e) \o out, keymatrix, missed, held, key_jcuken)
    BY <1>2, <2>3, Zenon
  <2>5. \/ /\ \/ /\ keymatrix' = keymatrix \cup CellsOf(q, e, key_jcuken)
                 /\ missed' = missed \ CellsOf(q, e, key_jcuken)
              \/ /\ keymatrix' = keymatrix /\ missed' = missed \cup CellsOf(q, e, key_jcuken)
           /\ key_jcuken' = key_jcuken
        \/ /\ \A n \in BOOLEAN : CellsOf(q, e, n) = {}
           /\ keymatrix' = keymatrix /\ key_jcuken' \in BOOLEAN
           /\ Changes(Between(keymatrix, held, key_jcuken), key_jcuken, key_jcuken', missed, missed')
    BY <1>1, <2>1, <2>2, DownDecoded, Zenon
  <2>6. CASE key_jcuken' = key_jcuken
             /\ \/ /\ keymatrix' = keymatrix \cup CellsOf(q, e, key_jcuken)
                   /\ missed' = missed \ CellsOf(q, e, key_jcuken)
                \/ keymatrix' = keymatrix /\ missed' = missed \cup CellsOf(q, e, key_jcuken)
    <3>1. Settled(out, keymatrix', missed', held, key_jcuken)
      BY <1>3, <2>3, <2>4, <2>6, DownTaken
    <3> QED BY <2>2, <2>6, <3>1, Zenon
  <2>7. CASE /\ \A n \in BOOLEAN : CellsOf(q, e, n) = {}
             /\ keymatrix' = keymatrix /\ key_jcuken' \in BOOLEAN
             /\ Changes(Between(keymatrix, held, key_jcuken), key_jcuken, key_jcuken', missed, missed')
    <3>1. Settled(out, keymatrix, missed', held, key_jcuken')
      BY <1>3, <2>3, <2>4, <2>7, LayoutTaken
    <3> QED BY <2>2, <2>7, <3>1, Zenon
  <2> QED BY <2>5, <2>6, <2>7, Zenon
<1>8. CASE state \in {9, 17}
  <2>1. PICK e \in BOOLEAN : e <=> state = 17
    <3>1. (state = 17) \in BOOLEAN
      OBVIOUS
    <3> QED BY <3>1
  <2>2. KeyUp /\ Stream = StreamOf(state, q, out) /\ Stream' = out /\ held' = held
    BY <1>6, <1>8
  <2>3. q # \hE0 /\ q # \hF0 /\ Stream = Up(q, e) \o out
    <3>1. CASE state = 9
      <4>1. Stream = Ahead(\hF0, Ahead(q, out))
        BY <1>3, <2>2, <3>1, StreamOfIs
      <4>2. q # \hE0 /\ q # \hF0
        BY <1>3, <1>4, <4>1, PrefixedIs
      <4>3. e = FALSE
        BY <2>1, <3>1
      <4> QED BY <1>3, <4>1, <4>2, <4>3, CodeAhead
    <3>2. CASE state = 17
      <4>1. Stream = Ahead(\hE0, Ahead(\hF0, Ahead(q, out)))
        BY <1>3, <2>2, <3>2, StreamOfIs
      <4>2. q # \hE0 /\ q # \hF0
        BY <1>3, <1>4, <4>1, PrefixedIs
      <4>3. e = TRUE
        BY <2>1, <3>2
      <4> QED BY <1>3, <4>1, <4>2, <4>3, CodeAhead
    <3> QED BY <1>8, <3>1, <3>2
  <2>4. Settled(Up(q, e) \o out, keymatrix, missed, held, key_jcuken)
    BY <1>2, <2>3, Zenon
  <2>5. PICK cells :
          /\ key_jcuken' = key_jcuken /\ CellsOf(q, e, key_jcuken) \subseteq cells
          /\ Opens(cells, UNION {k.cells[key_jcuken] : k \in held}, keymatrix, missed,
                   keymatrix', missed')
    BY <1>1, <2>1, <2>2, UpDecoded, Zenon
  <2>6. Settled(out, keymatrix', missed', held, key_jcuken)
    BY <1>3, <2>3, <2>4, <2>5, UpTaken
  <2> QED BY <2>2, <2>5, <2>6, Zenon
<1>9. CASE state \in {25, 30}
  <2>1. UNCHANGED keyVars
    BY <1>6, <1>9 DEF Acknowledge, Pass
  <2>2. q = \hFA
    BY <1>1, <1>2, <1>9, Zenon DEF Answered
  <2>3. Stream = StreamOf(state, q, out) /\ Stream' = out /\ held' = held
    BY <1>6, <1>9
  <2>4. Stream = Ahead(\hFA, out)
    BY <1>3, <1>9, <2>2, <2>3, StreamOfIs
  <2>5. Settled(out, keymatrix, missed, held, key_jcuken)
    BY <1>2, <1>3, <2>4, AnswerSettled, Zenon
  <2> QED BY <2>1, <2>3, <2>5, Zenon DEF keyVars
<1> QED BY <1>5, <1>7, <1>8, <1>9

\* What leaves the stream, the keys and the matrix as they are.
LEMMA SameSettles ==
  ASSUME Settling, ~Lost' => ~Lost, ~Lost' => Stream' = Stream, held' = held, UNCHANGED keyVars
  PROVE  Settling'
<1> SUFFICES ASSUME ~Lost' PROVE Settled(Stream', keymatrix', missed', held', key_jcuken')
  BY Zenon DEF Settling
<1>1. Settled(Stream, keymatrix, missed, held, key_jcuken) /\ Stream' = Stream
  BY Zenon DEF Settling
<1> QED BY <1>1, Zenon DEF keyVars

LEMMA WireSettles ==
  ASSUME KbInv, Settling, DeviceSends \/ Inhibit \/ SwitchLamp \/ UNCHANGED kbVars
  PROVE  Settling'
<1>1. Typed /\ Handshake /\ InPlace
  BY Zenon DEF KbInv
<1>2. CASE DeviceSends
  <2>1. UNCHANGED keyVars
    BY <1>2, Zenon DEF DeviceSends
  <2>2. held' = held /\ q' = q /\ state' = state /\ key_osd' = key_osd /\ (~Lost' => ~Lost)
    BY <1>1, <1>2, SendsIs, SendsHandshake, Zenon
  <2>3. ASSUME ~Lost' PROVE Stream' = Stream
    <3>1. Coming' = Coming
      BY <1>1, <1>2, <2>2, <2>3, SendsInPlace, Zenon
    <3> QED BY <2>2, <3>1, StillStream, Zenon DEF Still
  <2> QED BY <2>1, <2>2, <2>3, SameSettles, Zenon
<1>3. CASE Inhibit
  <2>1. /\ held' = held /\ out' = out /\ q' = q /\ qreg' = qreg /\ dsr' = dsr /\ state' = state
        /\ UNCHANGED keyVars /\ key_osd' = key_osd /\ shiftreg' = shiftreg
        /\ garbled' = (garbled \/ shiftreg # <<>>)
    BY <1>3, Zenon DEF Inhibit, userVars, rxVars, keyVars
  <2>2. Coming' = Coming /\ (~Lost' => ~Lost)
    BY <2>1, Zenon DEF Coming, Lost
  <2>3. Stream' = Stream
    BY <2>1, <2>2, StillStream, Zenon DEF Still
  <2> QED BY <2>1, <2>2, <2>3, SameSettles, Zenon
<1>4. CASE SwitchLamp \/ UNCHANGED kbVars
  <2>1. /\ held' = held /\ out' = out /\ q' = q /\ qreg' = qreg /\ dsr' = dsr /\ state' = state
        /\ UNCHANGED keyVars /\ key_osd' = key_osd /\ shiftreg' = shiftreg /\ tx' = tx
        /\ garbled' = garbled
    BY <1>4, Zenon DEF SwitchLamp, kbVars, userVars, devVars, rxVars, txVars, keyVars
  <2>2. Coming' = Coming /\ (~Lost' => ~Lost)
    BY <2>1, Zenon DEF Coming, Lost
  <2>3. Stream' = Stream
    BY <2>1, <2>2, StillStream, Zenon DEF Still
  <2> QED BY <2>1, <2>2, <2>3, SameSettles, Zenon
<1> QED BY <1>2, <1>3, <1>4

LEMMA TakesSettles ==
  ASSUME KbInv, Settling, DeviceTakes
  PROVE  Settling'
<1>1. Typed /\ Handshake
  BY Zenon DEF KbInv
<1>2. Stream = out /\ Stream' = Ahead(\hFA, out) /\ (~Lost' => ~Lost)
  BY <1>1, TakesStream, Zenon
<1>3. held' = held /\ UNCHANGED keyVars
  BY Zenon DEF DeviceTakes, userVars
<1>4. out \in Seq(Byte) /\ held \subseteq Keys /\ key_jcuken \in BOOLEAN
  BY <1>1, Zenon DEF Typed
<1>5. ASSUME Settled(out, keymatrix, missed, held, key_jcuken)
      PROVE  Settled(Ahead(\hFA, out), keymatrix, missed, held, key_jcuken)
  BY <1>4, <1>5, AnswerSettled
<1> QED BY <1>2, <1>3, <1>5, Zenon DEF Settling, keyVars

LEMMA ResetSettles ==
  ASSUME KbInv, Settling, Reset
  PROVE  Settling'
<1>1. Typed /\ Answered
  BY Zenon DEF KbInv
<1> SUFFICES ASSUME ~Lost' PROVE Settled(Stream', keymatrix', missed', held', key_jcuken')
  BY Zenon DEF Settling
<1>2. /\ ~Lost /\ Stream' = out
      /\ \/ state \in {25, 30} /\ q = \hFA /\ Stream = Ahead(q, out)
         \/ Stream = out
  BY <1>1, ResetStream, Zenon
<1>3. out \in Seq(Byte) /\ held \subseteq Keys /\ key_jcuken \in BOOLEAN
  BY <1>1, Zenon DEF Typed
<1>4. Settled(Stream, keymatrix, missed, held, key_jcuken)
  BY <1>2, Zenon DEF Settling
<1>5. Settled(out, keymatrix, missed, held, key_jcuken)
  <2>1. CASE Stream = out
    BY <1>4, <2>1, Zenon
  <2>2. CASE Stream = Ahead(\hFA, out)
    BY <1>3, <1>4, <2>2, AnswerSettled, Zenon
  <2> QED BY <1>2, <2>1, <2>2, Zenon
<1>6. Settled(out, {}, missed \cup UNION {k.cells[FALSE] : k \in held}, held, FALSE)
  BY <1>5, ResetSettled, Zenon
<1>7. /\ keymatrix' = {} /\ key_jcuken' = FALSE /\ held' = held
      /\ missed' = missed \cup UNION {k.cells[FALSE] : k \in held}
  BY Zenon DEF Reset, userVars
<1> QED BY <1>2, <1>6, <1>7, Zenon

LEMMA UserSettles ==
  ASSUME KbInv, Settling, User
  PROVE  Settling'
<1>1. Typed
  BY Zenon DEF KbInv
<1> SUFFICES ASSUME ~Lost' PROVE Settled(Stream', keymatrix', missed', held', key_jcuken')
  BY Zenon DEF Settling
<1>2. PICK k \in Keys : \E bytes :
        /\ \/ held' = held \cup {k} /\ bytes = Make(k)
           \/ held' = held \ {k} /\ bytes = Break(k)
           \/ held' = held /\ bytes = Make(k) \o Break(k)
           \/ k \in held /\ held' = held /\ bytes = Make(k)
        /\ UserActs(bytes)
  BY Zenon DEF User
<1>3. PICK bytes :
        /\ \/ held' = held \cup {k} /\ bytes = Make(k)
           \/ held' = held \ {k} /\ bytes = Break(k)
           \/ held' = held /\ bytes = Make(k) \o Break(k)
           \/ k \in held /\ held' = held /\ bytes = Make(k)
        /\ UserActs(bytes)
  BY <1>2, Zenon
<1>4. bytes \in Seq(Byte)
  BY <1>3, Coded, Zenon
<1>5. Stream' = Stream \o bytes /\ Stream \in Seq(Byte) /\ ~Lost
  BY <1>1, <1>3, <1>4, UserStream, Zenon
<1>6. held \subseteq Keys /\ Settled(Stream, keymatrix, missed, held, key_jcuken)
  BY <1>1, <1>5, Zenon DEF Typed, Settling
<1>7. Settled(Stream \o bytes, keymatrix, missed, held', key_jcuken)
  BY <1>3, <1>5, <1>6, UserSettled, Zenon
<1>8. UNCHANGED keyVars
  BY <1>3, Zenon DEF UserActs
<1> QED BY <1>5, <1>7, <1>8, Zenon DEF keyVars

LEMMA SettlingInitially == KbInit => Settling
<1> SUFFICES ASSUME KbInit PROVE Settling
  OBVIOUS
<1>1. Coming = <<>> /\ held = {} /\ keymatrix = {} /\ state = 0 /\ q = 0
  BY Zenon DEF KbInit, Coming
<1>2. Stream = <<>>
  <2>1. Stream = StreamOf(0, 0, <<>>)
    BY <1>1, Zenon DEF Stream
  <2>2. 0 \in 0..30 /\ 0 \in (0..3) \cup (18..24) \cup (26..29)
    OBVIOUS
  <2> QED BY <2>1, <2>2, StreamOfIs
<1>3. \A i \in 1..Len(<<>>) : FALSE
  OBVIOUS
<1>4. WellFormed(<<>>) /\ CodesAreKeys(<<>>, held)
  BY <1>3, Zenon DEF WellFormed, CodesAreKeys, MakeIn, StaysDown
<1>5. HeldAreClosed(<<>>, keymatrix \cup missed, held, key_jcuken)
  BY <1>1 DEF HeldAreClosed
<1>6. ClosedAreHeld(<<>>, keymatrix \ missed, held, key_jcuken)
  BY <1>1 DEF ClosedAreHeld
<1> QED BY <1>2, <1>4, <1>5, <1>6, Zenon DEF Settling, Settled

LEMMA SettlingInductive == KbInv /\ Settling /\ [KbNext]_kbVars => Settling'
<1> SUFFICES ASSUME KbInv, Settling, [KbNext]_kbVars PROVE Settling'
  OBVIOUS
<1>1. ASSUME NEW retrace \in BOOLEAN, Clock(retrace) PROVE Settling'
  BY <1>1, ClockSettles, Zenon
<1>2. CASE DeviceSends \/ Inhibit \/ SwitchLamp \/ UNCHANGED kbVars
  BY <1>2, WireSettles, Zenon
<1>3. CASE DeviceTakes
  BY <1>3, TakesSettles, Zenon
<1>4. CASE Reset
  BY <1>4, ResetSettles, Zenon
<1>5. CASE Press \/ Release \/ Strike \/ Repeat
  <2>1. Typed
    BY Zenon DEF KbInv
  <2>2. User
    BY <1>5, <2>1, UserIs, Zenon
  <2> QED BY <2>2, UserSettles, Zenon
<1> QED BY <1>1, <1>2, <1>3, <1>4, <1>5, Zenon DEF KbNext, Machine

LEMMA SettlingInvariant == KbSpec => []Settling
BY KbInitially, KbInductive, SettlingInitially, SettlingInductive, PTL DEF KbSpec

\* Once the bytes are through, a cell of the matrix is closed exactly if a key of it
\* is held, whatever was pressed, let go or repeated, in whatever order the codes,
\* commands and resets came, but for the cells of which the history says that the
\* decoder was not looking.
THEOREM MatrixIsWhatIsHeld == KbSpec => []MatrixMatches
<1>1. KbInv /\ Settling /\ KbTypeOK => MatrixMatches
  <2> SUFFICES ASSUME KbInv, Settling, KbTypeOK, AtRest, ~garbled,
                      NEW cell \in (Matrix \cup ({8} \X (0..5))) \ missed
               PROVE  cell \in keymatrix <=> Closed(cell)
    BY Zenon DEF MatrixMatches
  <2>1. ~Lost /\ Coming = <<>>
    BY Zenon DEF Lost, AtRest, Coming
  <2>2. Stream = <<>>
    <3>1. Stream = StreamOf(2, q, <<>>)
      BY <2>1, Zenon DEF Stream, AtRest
    <3>2. 2 \in 0..30 /\ 2 \in (0..3) \cup (18..24) \cup (26..29)
      OBVIOUS
    <3> QED BY <3>1, <3>2, StreamOfIs
  <2>3. /\ HeldAreClosed(<<>>, keymatrix \cup missed, held, key_jcuken)
        /\ ClosedAreHeld(<<>>, keymatrix \ missed, held, key_jcuken)
    BY <2>1, <2>2, Zenon DEF Settling, Settled
  <2>4. \A x, e : ~MakeIn(<<>>, x, e) /\ ~BreakIn(<<>>, x, e)
    BY DEF MakeIn, BreakIn
  <2>5. ASSUME cell \in keymatrix PROVE Closed(cell)
    <3>1. cell \in keymatrix \ missed
      BY <2>5
    <3>2. PICK k \in Keys : cell \in k.cells[key_jcuken] /\ k \in held
      BY <2>3, <2>4, <3>1, Zenon DEF ClosedAreHeld
    <3> QED BY <3>2, Zenon DEF Closed
  <2>6. ASSUME Closed(cell) PROVE cell \in keymatrix
    <3>1. PICK k \in held : cell \in k.cells[key_jcuken]
      BY <2>6, Zenon DEF Closed
    <3>2. cell \in keymatrix \cup missed
      BY <2>3, <2>4, <3>1, Zenon DEF HeldAreClosed
    <3> QED BY <3>2
  <2> QED BY <2>5, <2>6, Zenon
<1> QED BY <1>1, KbInvariant, SettlingInvariant, KeyboardTyped, PTL

=============================================================================
