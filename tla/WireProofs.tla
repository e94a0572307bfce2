----------------------------- MODULE WireProofs -----------------------------
(***************************************************************************)
(* Proofs about Wire and Simulator, for every catalog, width of the fields *)
(* and model of the floats that the assumptions allow.  Whatever bytes a   *)
(* datagram consists of, the decoder keeps its cursor inside the datagram, *)
(* passes every byte once, and gives every frame it passes its outcome, in *)
(* order.  What is decoded encodes back to bytes that read as the same,    *)
(* unless a rounding passes a step, and what a sender encodes arrives: a   *)
(* valid packet whole, a malformed one on the path of the decoder it is    *)
(* made for.                                                               *)
(***************************************************************************)
EXTENDS Simulator, SequenceTheorems, FiniteSetTheorems, WellFoundedInduction, TLAPS

Byte == 0..BASE - 1
-----------------------------------------------------------------------------
(* Functions defined by recursion *)

LEMMA LeastNatural ==
  ASSUME NEW S \in SUBSET Nat, S # {}
  PROVE  \E d \in S : \A e \in S : d <= e
<1>1. PICK d \in S : \A e \in S : <<e, d>> \notin OpToRel(<, Nat)
  BY NatLessThanWellFounded, WFMin
<1>2. \A e \in S : ~(e < d)
  BY <1>1 DEF OpToRel
<1> QED
  BY <1>2

Table(S, m) == [S \X (1..m) -> S]
Follows(f, h, m) == \A i \in 1..m : f[i] = h[<<f[i - 1], i>>]

\* A function that starts at a and goes on by a table exists, and its values
\* have the type of the table.
LEMMA Iterate ==
  ASSUME NEW m \in Nat, NEW S, NEW a \in S, NEW h \in Table(S, m)
  PROVE  \E f \in [0..m -> S] : f[0] = a /\ Follows(f, h, m)
<1> DEFINE Upto(k) == \E f \in [0..k -> S] : f[0] = a /\ Follows(f, h, k)
<1>1. Upto(0)
  <2>1. PICK f : f = [i \in 0..0 |-> a]
    OBVIOUS
  <2>2. f \in [0..0 -> S] /\ f[0] = a
    BY <2>1
  <2>3. Follows(f, h, 0)
    BY DEF Follows
  <2> QED
    BY <2>2, <2>3
<1>2. ASSUME NEW k \in 1..m, Upto(k - 1)
      PROVE  Upto(k)
  <2>1. PICK f \in [0..k - 1 -> S] : f[0] = a /\ Follows(f, h, k - 1)
    BY <1>2
  <2>2. \A i \in 1..k : f[i - 1] \in S /\ h[<<f[i - 1], i>>] \in S
    BY DEF Table
  <2>3. PICK g : g = [i \in 0..k |-> IF i = k THEN h[<<f[k - 1], k>>] ELSE f[i]]
    OBVIOUS
  <2>4. g \in [0..k -> S] /\ g[0] = a /\ g[k] = h[<<f[k - 1], k>>]
    BY <2>1, <2>2, <2>3
  <2>5. \A i \in 0..k - 1 : g[i] = f[i]
    BY <2>3
  <2>6. ASSUME NEW i \in 1..k
        PROVE  g[i] = h[<<g[i - 1], i>>]
    <3>1. g[i - 1] = f[i - 1]
      BY <2>5
    <3>2. CASE i = k
      BY <2>4, <3>1, <3>2
    <3>3. CASE i # k
      BY <2>1, <2>5, <3>1, <3>3 DEF Follows
    <3> QED
      BY <3>2, <3>3
  <2> QED
    BY <2>4, <2>6 DEF Follows
<1> HIDE DEF Upto
<1>3. PICK Bad \in SUBSET Nat : \A k : k \in Bad <=> k \in 0..m /\ ~Upto(k)
  <2> WITNESS {k \in 0..m : ~Upto(k)} \in SUBSET Nat
  <2> QED OBVIOUS
<1>4. Bad = {}
  <2>1. SUFFICES ASSUME Bad # {} PROVE FALSE
    OBVIOUS
  <2>2. PICK k \in Bad : \A e \in Bad : k <= e
    BY <2>1, LeastNatural
  <2>3. k \in 1..m
    BY <1>1, <1>3
  <2>4. Upto(k - 1)
    BY <1>3, <2>2, <2>3
  <2> QED
    BY <1>2, <1>3, <2>3, <2>4
<1>5. Upto(m)
  BY <1>3, <1>4
<1> QED
  BY <1>5 DEF Upto

GoesAlong(g, f, m) == \A i \in 1..m : g[i - 1] = f[i - 1] => g[i] = f[i]

\* Two functions that start and go on alike have the same values.
LEMMA SameValues ==
  ASSUME NEW m \in Nat, NEW f, NEW g, g[0] = f[0], GoesAlong(g, f, m)
  PROVE  \A i \in 0..m : g[i] = f[i]
<1>1. PICK Bad \in SUBSET Nat : \A k : k \in Bad <=> k \in 0..m /\ g[k] # f[k]
  <2> WITNESS {k \in 0..m : g[k] # f[k]} \in SUBSET Nat
  <2> QED OBVIOUS
<1>2. Bad = {}
  <2>1. SUFFICES ASSUME Bad # {} PROVE FALSE
    OBVIOUS
  <2>2. PICK k \in Bad : \A e \in Bad : k <= e
    BY <2>1, LeastNatural
  <2>3. k \in 1..m /\ k - 1 \in 0..m /\ k - 1 < k
    BY <1>1
  <2>4. g[k - 1] = f[k - 1]
    BY <1>1, <2>2, <2>3
  <2> QED
    BY <1>1, <2>3, <2>4 DEF GoesAlong
<1> QED
  BY <1>1, <1>2

Same(g, f, m) == \A i \in 0..m : g[i] = f[i]

LEMMA SameTables ==
  ASSUME NEW m \in Nat, NEW f, NEW g, g[0] = f[0], GoesAlong(g, f, m)
  PROVE  Same(g, f, m)
BY SameValues DEF Same
-----------------------------------------------------------------------------
(* Bytes and numbers *)

LEMMA DivMod ==
  ASSUME NEW B \in Nat \ {0}, NEW y \in Nat, NEW c \in 0..B - 1
  PROVE  /\ y * B + c \in Nat
         /\ (y * B + c) \div B = y /\ (y * B + c) % B = c
<1>1. PICK x \in Nat : x = y * B
  OBVIOUS
<1>2. PICK q \in Int, r \in 0..B - 1 : /\ q = (x + c) \div B /\ r = (x + c) % B
                                     /\ x + c = B * q + r
  BY <1>1
<1>3. q = y
  <2>1. CASE q <= y - 1
    <3>1. B * q <= B * (y - 1)
      BY <2>1
    <3>2. B * (y - 1) = y * B - B
      OBVIOUS
    <3> QED
      BY <1>1, <1>2, <3>1, <3>2
  <2>2. CASE q >= y + 1
    <3>1. B * q >= B * (y + 1)
      BY <2>2
    <3>2. B * (y + 1) = y * B + B
      OBVIOUS
    <3> QED
      BY <1>1, <1>2, <3>1, <3>2
  <2> QED
    BY <2>1, <2>2
<1>4. r = c
  BY <1>1, <1>2, <1>3
<1> QED
  BY <1>1, <1>2, <1>3, <1>4

\* from_be_bytes adds the bytes one at a time.
LEMMA ByteFacts == BASE \in Nat \ {0} /\ Byte \subseteq Nat /\ \A x \in Byte : x < BASE
BY WidthAssumption DEF Byte

LEMMA BeSteps ==
  ASSUME NEW b \in Seq(Byte), NEW m, m = Len(b)
  PROVE  \E n \in [0..m -> Nat] :
           /\ n[0] = 0 /\ \A i \in 1..m : n[i] = n[i - 1] * BASE + b[i]
           /\ Be(b) = n[m]
<1>1. m \in Nat /\ \A i \in 1..m : b[i] \in Nat
  <2>1. \A i \in 1..Len(b) : b[i] \in Byte
    BY ElementOfSeq
  <2>2. m \in Nat
    BY LenProperties
  <2> QED
    BY <2>1, <2>2, ByteFacts
<1> DEFINE h == [x \in Nat \X (1..m) |-> x[1] * BASE + b[x[2]]]
<1>2. h \in Table(Nat, m)
  BY <1>1, ByteFacts DEF Table
<1>3. \A y \in Nat, i \in 1..m : h[<<y, i>>] = y * BASE + b[i]
  OBVIOUS
<1> HIDE DEF h
<1>4. PICK n \in [0..m -> Nat] : n[0] = 0 /\ Follows(n, h, m)
  BY <1>1, <1>2, Iterate
<1>5. ASSUME NEW i \in 1..m
      PROVE  n[i] = n[i - 1] * BASE + b[i]
  <2>1. n[i - 1] \in Nat
    BY <1>1
  <2> QED
    BY <1>3, <1>4, <2>1 DEF Follows
<1>6. n = [i \in 0..m |-> IF i = 0 THEN 0 ELSE n[i - 1] * BASE + b[i]]
  BY <1>4, <1>5
<1> DEFINE g == CHOOSE f : f = [i \in 0..m |-> IF i = 0 THEN 0 ELSE f[i - 1] * BASE + b[i]]
<1>7. g = [i \in 0..m |-> IF i = 0 THEN 0 ELSE g[i - 1] * BASE + b[i]]
  BY <1>6
<1>8. Be(b) = g[m]
  BY DEF Be
<1> HIDE DEF g
<1>9. g[0] = 0
  BY <1>1, <1>7
<1>10. GoesAlong(g, n, m)
  <2> SUFFICES ASSUME NEW i \in 1..m, g[i - 1] = n[i - 1]
               PROVE  g[i] = n[i]
    BY DEF GoesAlong
  <2>1. g[i] = g[i - 1] * BASE + b[i]
    BY <1>7
  <2> QED
    BY <1>5, <2>1
<1>11. \A i \in 0..m : g[i] = n[i]
  BY <1>1, <1>4, <1>9, <1>10, SameValues
<1> QED
  BY <1>1, <1>4, <1>5, <1>8, <1>11

\* to_be_bytes takes them off again, one at a time.
LEMMA ToBeSteps ==
  ASSUME NEW n \in Nat, NEW w \in Nat
  PROVE  \E s \in [0..w -> Nat] :
           /\ s[0] = n /\ \A k \in 1..w : s[k] = s[k - 1] \div BASE
           /\ ToBe(n, w) = [i \in 1..w |-> s[w - i] % BASE]
<1> DEFINE h == [x \in Nat \X (1..w) |-> x[1] \div BASE]
<1>1. h \in Table(Nat, w)
  BY ByteFacts DEF Table
<1>2. \A y \in Nat, i \in 1..w : h[<<y, i>>] = y \div BASE
  OBVIOUS
<1> HIDE DEF h
<1>3. PICK s \in [0..w -> Nat] : s[0] = n /\ Follows(s, h, w)
  BY <1>1, Iterate
<1>4. ASSUME NEW k \in 1..w
      PROVE  s[k] = s[k - 1] \div BASE
  <2>1. s[k - 1] \in Nat
    OBVIOUS
  <2> QED
    BY <1>2, <1>3, <2>1 DEF Follows
<1>5. s = [k \in 0..w |-> IF k = 0 THEN n ELSE s[k - 1] \div BASE]
  BY <1>3, <1>4
<1> DEFINE g == CHOOSE f : f = [k \in 0..w |-> IF k = 0 THEN n ELSE f[k - 1] \div BASE]
<1>6. g = [k \in 0..w |-> IF k = 0 THEN n ELSE g[k - 1] \div BASE]
  BY <1>5
<1>7. ToBe(n, w) = [i \in 1..w |-> g[w - i] % BASE]
  BY DEF ToBe
<1> HIDE DEF g
<1>8. g[0] = n /\ \A k \in 1..w : g[k] = g[k - 1] \div BASE
  BY <1>6
<1>9. GoesAlong(g, s, w)
  BY <1>4, <1>8 DEF GoesAlong
<1>a. g[0] = s[0]
  BY <1>3, <1>8
<1>10. \A k \in 0..w : g[k] = s[k]
  BY <1>9, <1>a, SameValues
<1>11. ToBe(n, w) = [i \in 1..w |-> s[w - i] % BASE]
  BY <1>7, <1>10
<1> QED
  BY <1>3, <1>4, <1>11

LEMMA ToBeType ==
  ASSUME NEW n \in Nat, NEW w \in Nat
  PROVE  ToBe(n, w) \in Seq(Byte) /\ Len(ToBe(n, w)) = w
<1>1. PICK s \in [0..w -> Nat] : ToBe(n, w) = [i \in 1..w |-> s[w - i] % BASE]
  BY ToBeSteps, ZenonT(30)
<1>2. ASSUME NEW i \in 1..w
      PROVE  s[w - i] % BASE \in Byte
  <2>1. s[w - i] \in Nat
    OBVIOUS
  <2>2. \A x \in Nat : x % BASE \in 0..BASE - 1
    BY ByteFacts
  <2> QED
    BY <2>1, <2>2 DEF Byte
<1> QED
  BY <1>1, <1>2

\* Writing what was read gives the same bytes.
LEMMA ToBeOfBe ==
  ASSUME NEW b \in Seq(Byte), NEW m, m = Len(b)
  PROVE  Be(b) \in Nat /\ ToBe(Be(b), m) = b
<1>1. m \in Nat /\ b = [i \in 1..m |-> b[i]] /\ \A i \in 1..m : b[i] \in Byte
  BY ElementOfSeq
<1>2. PICK n \in [0..m -> Nat] :
        /\ n[0] = 0 /\ \A i \in 1..m : n[i] = n[i - 1] * BASE + b[i]
        /\ Be(b) = n[m]
  BY BeSteps
<1>3. n[m] \in Nat
  BY <1>1
<1>4. PICK s \in [0..m -> Nat] :
        /\ s[0] = n[m] /\ \A k \in 1..m : s[k] = s[k - 1] \div BASE
        /\ ToBe(n[m], m) = [i \in 1..m |-> s[m - i] % BASE]
  BY <1>1, <1>3, ToBeSteps
<1>5. ASSUME NEW i \in 1..m
      PROVE  n[i] \div BASE = n[i - 1] /\ n[i] % BASE = b[i]
  <2>1. n[i - 1] \in Nat /\ b[i] \in 0..BASE - 1
    BY <1>1 DEF Byte
  <2>2. /\ (n[i - 1] * BASE + b[i]) \div BASE = n[i - 1]
        /\ (n[i - 1] * BASE + b[i]) % BASE = b[i]
    BY <2>1, DivMod, ByteFacts
  <2> QED
    BY <1>2, <2>2
<1> DEFINE g == [k \in 0..m |-> n[m - k]]
<1>6. g[0] = s[0]
  BY <1>1, <1>4
<1>7. GoesAlong(s, g, m)
  <2> SUFFICES ASSUME NEW k \in 1..m, s[k - 1] = g[k - 1]
               PROVE  s[k] = g[k]
    BY DEF GoesAlong
  <2>1. g[k - 1] = n[m - k + 1] /\ g[k] = n[m - k]
    BY <1>1
  <2>2. m - k + 1 \in 1..m /\ (m - k + 1) - 1 = m - k
    BY <1>1
  <2>3. n[m - k + 1] \div BASE = n[m - k]
    BY <1>5, <2>2
  <2> QED
    BY <1>4, <2>1, <2>3
<1>8. \A i \in 1..m : g[m - i] = n[i]
  BY <1>1
<1> HIDE DEF g
<1>9. \A k \in 0..m : s[k] = g[k]
  <2>1. Same(s, g, m)
    BY <1>1, <1>6, <1>7, SameTables
  <2> QED
    BY <2>1 DEF Same
<1>10. ASSUME NEW i \in 1..m
       PROVE  s[m - i] % BASE = b[i]
  <2>0. m - i \in 0..m
    BY <1>1
  <2>1. s[m - i] = n[i]
    BY <1>8, <1>9, <2>0
  <2> QED
    BY <1>5, <2>1
<1> QED
  BY <1>1, <1>2, <1>3, <1>4, <1>10
-----------------------------------------------------------------------------
(* Frames *)

FrameType ==
  [signal_id : Nat, timestamp_us : Nat, payload : {p \in Seq(Byte) : Len(p) \in Byte}]

LEMMA EncodeFrameType ==
  ASSUME NEW f \in FrameType
  PROVE  /\ EncodeFrame(f) \in Seq(Byte)
         /\ Len(EncodeFrame(f)) = FRAME_HEADER_LEN + Len(f.payload)
<1>1. /\ f.signal_id \in Nat /\ f.timestamp_us \in Nat
      /\ f.payload \in Seq(Byte) /\ Len(f.payload) \in Byte
  BY DEF FrameType
<1>2. /\ ToBe(f.signal_id, U16Len) \in Seq(Byte)
      /\ Len(ToBe(f.signal_id, U16Len)) = U16Len
      /\ ToBe(f.timestamp_us, U64Len) \in Seq(Byte)
      /\ Len(ToBe(f.timestamp_us, U64Len)) = U64Len
  BY <1>1, ToBeType, WireAssumption
<1>3. <<Len(f.payload)>> \in Seq(Byte) /\ Len(<<Len(f.payload)>>) = 1
  BY <1>1
<1>4. Len(f.payload) \in Nat /\ U16Len \in Nat /\ U64Len \in Nat
  BY <1>1, ByteFacts, WireAssumption
<1> DEFINE a == ToBe(f.signal_id, U16Len)
           b == ToBe(f.timestamp_us, U64Len)
           c == <<Len(f.payload)>>
<1>5. EncodeFrame(f) = a \o b \o c \o f.payload
  BY DEF EncodeFrame
<1> HIDE DEF a, b, c
<1>6. a \in Seq(Byte) /\ b \in Seq(Byte) /\ c \in Seq(Byte)
      /\ Len(a) = U16Len /\ Len(b) = U64Len /\ Len(c) = 1
  BY <1>2, <1>3 DEF a, b, c
<1>7. PICK ab \in Seq(Byte) : ab = a \o b /\ Len(ab) = U16Len + U64Len
  BY <1>6, ConcatProperties
<1>8. PICK abc \in Seq(Byte) : abc = ab \o c /\ Len(abc) = U16Len + U64Len + 1
  <2>1. ab \o c \in Seq(Byte) /\ Len(ab \o c) = Len(ab) + Len(c)
    BY <1>6, ConcatProperties
  <2>2. Len(ab \o c) = U16Len + U64Len + 1
    BY <1>6, <1>7, <2>1
  <2> QED
    BY <2>1, <2>2
<1>9. /\ abc \o f.payload \in Seq(Byte)
      /\ Len(abc \o f.payload) = Len(abc) + Len(f.payload)
  BY <1>1, ConcatProperties
<1> QED
  BY <1>4, <1>5, <1>7, <1>8, <1>9 DEF FRAME_HEADER_LEN

LEMMA FrameBytesSteps ==
  ASSUME NEW s \in Seq(FrameType), NEW m, m = Len(s)
  PROVE  \E t \in [0..m -> Seq(Byte)] :
           /\ t[0] = <<>> /\ \A i \in 1..m : t[i] = t[i - 1] \o EncodeFrame(s[i])
           /\ FrameBytes(s) = t[m]
<1>1. m \in Nat /\ \A i \in 1..m : EncodeFrame(s[i]) \in Seq(Byte)
  <2>1. m \in Nat /\ \A i \in 1..Len(s) : s[i] \in FrameType
    BY ElementOfSeq, LenProperties
  <2> QED
    BY <2>1, EncodeFrameType
<1> DEFINE h == [x \in Seq(Byte) \X (1..m) |-> x[1] \o EncodeFrame(s[x[2]])]
<1>2. h \in Table(Seq(Byte), m)
  <2>1. \A y \in Seq(Byte), i \in 1..m : y \o EncodeFrame(s[i]) \in Seq(Byte)
    BY <1>1, ConcatProperties
  <2> QED
    BY <2>1 DEF Table
<1>3. \A y \in Seq(Byte), i \in 1..m : h[<<y, i>>] = y \o EncodeFrame(s[i])
  OBVIOUS
<1> HIDE DEF h
<1>4. PICK t \in [0..m -> Seq(Byte)] : t[0] = <<>> /\ Follows(t, h, m)
  <2>1. <<>> \in Seq(Byte)
    OBVIOUS
  <2> QED
    BY <1>1, <1>2, <2>1, Iterate
<1>5. ASSUME NEW i \in 1..m
      PROVE  t[i] = t[i - 1] \o EncodeFrame(s[i])
  <2>0. i - 1 \in 0..m
    BY <1>1
  <2>1. t[i - 1] \in Seq(Byte)
    BY <2>0
  <2> QED
    BY <1>3, <1>4, <2>1 DEF Follows
<1>6. t = [i \in 0..m |-> IF i = 0 THEN <<>> ELSE t[i - 1] \o EncodeFrame(s[i])]
  BY <1>4, <1>5
<1> DEFINE g == CHOOSE f : f = [i \in 0..m |-> IF i = 0 THEN <<>>
                                              ELSE f[i - 1] \o EncodeFrame(s[i])]
<1>7. g = [i \in 0..m |-> IF i = 0 THEN <<>> ELSE g[i - 1] \o EncodeFrame(s[i])]
  BY <1>6
<1>8. FrameBytes(s) = g[m]
  BY DEF FrameBytes
<1> HIDE DEF g
<1>9. g[0] = t[0]
  BY <1>1, <1>4, <1>7
<1>10. GoesAlong(g, t, m)
  <2> SUFFICES ASSUME NEW i \in 1..m, g[i - 1] = t[i - 1]
               PROVE  g[i] = t[i]
    BY DEF GoesAlong
  <2>1. g[i] = IF i = 0 THEN <<>> ELSE g[i - 1] \o EncodeFrame(s[i])
    <3>1. PICK G : G = [k \in 0..m |-> IF k = 0 THEN <<>> ELSE g[k - 1] \o EncodeFrame(s[k])]
      OBVIOUS
    <3>2. i \in 0..m
      BY <1>1
    <3>3. G[i] = IF i = 0 THEN <<>> ELSE g[i - 1] \o EncodeFrame(s[i])
      BY <3>1, <3>2
    <3> QED
      BY <1>7, <3>1, <3>3
  <2>2. i # 0
    BY <1>1
  <2> QED
    BY <1>5, <2>1, <2>2
<1>11. \A i \in 0..m : g[i] = t[i]
  BY <1>1, <1>9, <1>10, SameValues
<1>12. t[0] = <<>> /\ \A i \in 1..m : t[i] = t[i - 1] \o EncodeFrame(s[i])
  BY <1>4, <1>5
<1>13. FrameBytes(s) = t[m]
  BY <1>1, <1>8, <1>11
<1> QED
  BY <1>12, <1>13

\* The bytes of one frame more.
LEMMA FrameBytesAppend ==
  ASSUME NEW s \in Seq(FrameType), NEW f \in FrameType
  PROVE  /\ FrameBytes(s) \in Seq(Byte)
         /\ FrameBytes(Append(s, f)) = FrameBytes(s) \o EncodeFrame(f)
<1>1. PICK m \in Nat : m = Len(s)
  OBVIOUS
<1>2. PICK t \in [0..m -> Seq(Byte)] :
        /\ t[0] = <<>> /\ \A i \in 1..m : t[i] = t[i - 1] \o EncodeFrame(s[i])
        /\ FrameBytes(s) = t[m]
  BY <1>1, FrameBytesSteps
<1>3. PICK r : r = Append(s, f)
  OBVIOUS
<1>4. /\ r \in Seq(FrameType) /\ Len(r) = m + 1 /\ r[m + 1] = f
      /\ \A i \in 1..m : r[i] = s[i]
  BY <1>1, <1>3, AppendProperties
<1>5. PICK u \in [0..m + 1 -> Seq(Byte)] :
        /\ u[0] = <<>> /\ \A i \in 1..m + 1 : u[i] = u[i - 1] \o EncodeFrame(r[i])
        /\ FrameBytes(r) = u[m + 1]
  BY <1>4, FrameBytesSteps
<1>6. u[0] = t[0] /\ GoesAlong(u, t, m)
  <2>1. u[0] = t[0]
    BY <1>2, <1>5
  <2> SUFFICES ASSUME NEW i \in 1..m, u[i - 1] = t[i - 1]
               PROVE  u[i] = t[i]
    BY <2>1 DEF GoesAlong
  <2>2. i \in 1..m + 1
    OBVIOUS
  <2>3. u[i] = u[i - 1] \o EncodeFrame(r[i])
    BY <1>5, <2>2
  <2>4. t[i] = t[i - 1] \o EncodeFrame(s[i]) /\ r[i] = s[i]
    BY <1>2, <1>4
  <2> QED
    BY <2>3, <2>4
<1>7. \A i \in 0..m : u[i] = t[i]
  BY <1>6, SameValues
<1>8. u[m + 1] = u[m] \o EncodeFrame(f) /\ u[m] = t[m]
  <2>1. m + 1 \in 1..m + 1 /\ (m + 1) - 1 = m /\ m \in 0..m
    OBVIOUS
  <2> QED
    BY <1>4, <1>5, <1>7, <2>1
<1> QED
  BY <1>2, <1>3, <1>5, <1>8

LEMMA FrameBytesEmpty == FrameBytes(<<>>) = <<>>
<1>1. PICK s \in Seq(FrameType) : s = <<>>
  BY EmptySeq
<1>2. PICK m : m = 0
  OBVIOUS
<1>3. m = Len(s)
  BY <1>1, <1>2
<1>4. \E t \in [0..m -> Seq(Byte)] :
        /\ t[0] = <<>> /\ \A i \in 1..m : t[i] = t[i - 1] \o EncodeFrame(s[i])
        /\ FrameBytes(s) = t[m]
  BY <1>3, FrameBytesSteps
<1>5. PICK t : t[0] = <<>> /\ FrameBytes(s) = t[m]
  BY <1>4
<1> QED
  BY <1>1, <1>2, <1>5
-----------------------------------------------------------------------------
(* The datagram *)

LEMMA Piece ==
  ASSUME NEW s \in Seq(Byte), NEW i \in 0..Len(s), NEW j \in i..Len(s)
  PROVE  SubSeq(s, i + 1, j) \in Seq(Byte) /\ Len(SubSeq(s, i + 1, j)) = j - i
<1>1. Len(s) \in Nat /\ \A k \in 1..Len(s) : s[k] \in Byte
  BY LenProperties, ElementOfSeq
<1>2. i + 1 \in Int /\ j \in Int /\ \A k \in i + 1..j : s[k] \in Byte
  BY <1>1
<1> QED
  BY <1>1, <1>2, SubSeqProperties

LEMMA Pieces ==
  ASSUME NEW s \in Seq(Byte), NEW i \in 0..Len(s), NEW j \in i..Len(s), NEW k \in j..Len(s)
  PROVE  SubSeq(s, i + 1, j) \o SubSeq(s, j + 1, k) = SubSeq(s, i + 1, k)
<1>1. Len(s) \in Nat
  OBVIOUS
<1>2. i + 1 \in 1..Len(s) + 1 /\ j \in (i + 1) - 1..Len(s) /\ k \in j..Len(s)
  BY <1>1
<1> QED
  BY <1>2, ConcatAdjacentSubSeq

LEMMA OneByte ==
  ASSUME NEW s \in Seq(Byte), NEW i \in 0..Len(s) - 1
  PROVE  SubSeq(s, i + 1, i + 1) = <<s[i + 1]>> /\ s[i + 1] \in Byte
<1>1. i + 1 \in 1..Len(s)
  OBVIOUS
<1>2. s[i + 1] \in Byte
  BY <1>1, ElementOfSeq
<1>3. PICK m \in Int : m = i + 1
  BY <1>1
<1>4. \A k \in m..m : s[k] \in Byte
  BY <1>2, <1>3
<1>5. /\ SubSeq(s, m, m) \in Seq(Byte)
      /\ Len(SubSeq(s, m, m)) = IF m <= m THEN m - m + 1 ELSE 0
      /\ \A k \in 1..m - m + 1 : SubSeq(s, m, m)[k] = s[m + k - 1]
  BY <1>4, SubSeqProperties
<1>6. Len(SubSeq(s, m, m)) = 1 /\ SubSeq(s, m, m)[1] = s[m]
  BY <1>5
<1>7. PICK t \in Seq(Byte) : t = SubSeq(s, m, m)
  BY <1>5
<1>8. t \in Seq(Byte) /\ Len(t) = 1 /\ t[1] = s[m]
  BY <1>6, <1>7
<1>9. t = <<s[m]>>
  BY <1>8
<1> QED
  BY <1>2, <1>3, <1>7, <1>9

\* The frame at the cursor is encoded by the bytes the cursor passes.
LEMMA FrameAtCursor ==
  ASSUME buf \in Seq(Byte), pos \in 0..Len(buf), Complete
  PROVE  /\ Frame \in FrameType /\ PayloadLen \in Nat
         /\ pos + FRAME_HEADER_LEN + PayloadLen \in pos..Len(buf)
         /\ EncodeFrame(Frame) = SubSeq(buf, pos + 1, pos + FRAME_HEADER_LEN + PayloadLen)
<1>1. Len(buf) \in Nat /\ U16Len \in Nat \ {0} /\ U64Len \in Nat \ {0}
  BY WireAssumption
<1>2. PICK p1, p2, p3, p4 : /\ p1 = pos + U16Len /\ p2 = p1 + U64Len /\ p3 = p2 + 1
                            /\ p4 = p3 + PayloadLen
  OBVIOUS
<1>3. /\ pos \in 0..Len(buf) /\ p1 \in pos..Len(buf) /\ p2 \in p1..Len(buf) - 1
      /\ p3 \in p2..Len(buf) /\ p3 = pos + FRAME_HEADER_LEN
  BY <1>1, <1>2 DEF Complete, Remaining, FRAME_HEADER_LEN
<1>4. SubSeq(buf, p2 + 1, p3) = <<PayloadLen>> /\ PayloadLen \in Byte
  <2>1. PayloadLen = buf[p2 + 1] /\ p2 \in 0..Len(buf) - 1
    BY <1>1, <1>2, <1>3 DEF PayloadLen
  <2> QED
    BY <1>2, <2>1, OneByte
<1>5. PayloadLen \in Nat
  BY <1>4, ByteFacts
<1>6. p4 \in p3..Len(buf) /\ p4 - p3 = PayloadLen
  BY <1>1, <1>2, <1>3, <1>5 DEF Complete, Remaining, FRAME_HEADER_LEN
<1>7. /\ Field(0, U16Len) = SubSeq(buf, pos + 1, p1)
      /\ Field(U16Len, U64Len) = SubSeq(buf, p1 + 1, p2)
      /\ Field(FRAME_HEADER_LEN, PayloadLen) = SubSeq(buf, p3 + 1, p4)
  <2>1. /\ pos + 0 + 1 = pos + 1 /\ pos + 0 + U16Len = p1
        /\ pos + U16Len + 1 = p1 + 1 /\ pos + U16Len + U64Len = p2
        /\ pos + FRAME_HEADER_LEN + 1 = p3 + 1 /\ pos + FRAME_HEADER_LEN + PayloadLen = p4
    BY <1>1, <1>2, <1>3
  <2> QED
    BY <2>1 DEF Field
<1>8. /\ SubSeq(buf, pos + 1, p1) \in Seq(Byte) /\ Len(SubSeq(buf, pos + 1, p1)) = U16Len
      /\ SubSeq(buf, p1 + 1, p2) \in Seq(Byte) /\ Len(SubSeq(buf, p1 + 1, p2)) = U64Len
      /\ SubSeq(buf, p3 + 1, p4) \in Seq(Byte) /\ Len(SubSeq(buf, p3 + 1, p4)) = PayloadLen
  <2>1. p1 - pos = U16Len /\ p2 - p1 = U64Len /\ p1 \in 0..Len(buf) /\ p3 \in 0..Len(buf)
        /\ p2 \in p1..Len(buf)
    BY <1>1, <1>2, <1>3
  <2> QED
    BY <1>3, <1>6, <2>1, Piece
<1>9. /\ Be(Field(0, U16Len)) \in Nat
      /\ ToBe(Be(Field(0, U16Len)), U16Len) = SubSeq(buf, pos + 1, p1)
      /\ Be(Field(U16Len, U64Len)) \in Nat
      /\ ToBe(Be(Field(U16Len, U64Len)), U64Len) = SubSeq(buf, p1 + 1, p2)
  BY <1>7, <1>8, ToBeOfBe
<1>10. /\ Frame.signal_id = Be(Field(0, U16Len))
       /\ Frame.timestamp_us = Be(Field(U16Len, U64Len))
       /\ Frame.payload = SubSeq(buf, p3 + 1, p4)
  BY <1>7 DEF Frame
<1>11. Frame \in FrameType
  BY <1>4, <1>7, <1>8, <1>9 DEF Frame, FrameType
<1>12. EncodeFrame(Frame) = SubSeq(buf, pos + 1, p1) \o SubSeq(buf, p1 + 1, p2)
                              \o SubSeq(buf, p2 + 1, p3) \o SubSeq(buf, p3 + 1, p4)
  BY <1>4, <1>8, <1>9, <1>10 DEF EncodeFrame
<1>13. /\ SubSeq(buf, pos + 1, p1) \o SubSeq(buf, p1 + 1, p2) = SubSeq(buf, pos + 1, p2)
       /\ SubSeq(buf, pos + 1, p2) \o SubSeq(buf, p2 + 1, p3) = SubSeq(buf, pos + 1, p3)
       /\ SubSeq(buf, pos + 1, p3) \o SubSeq(buf, p3 + 1, p4) = SubSeq(buf, pos + 1, p4)
  <2>1. /\ p2 \in p1..Len(buf) /\ p2 \in pos..Len(buf) /\ p3 \in p2..Len(buf)
        /\ p3 \in pos..Len(buf)
    BY <1>1, <1>3
  <2> QED
    BY <1>3, <1>6, <2>1, Pieces
<1>14. p4 = pos + FRAME_HEADER_LEN + PayloadLen /\ p4 \in pos..Len(buf)
  BY <1>1, <1>2, <1>3, <1>6
<1> QED
  BY <1>5, <1>11, <1>12, <1>13, <1>14

\* The same for the header of the packet.
LEMMA HeaderBytes ==
  ASSUME buf \in Seq(Byte), HeaderError = None
  PROVE  /\ PACKET_HEADER_LEN \in 1..Len(buf) /\ FrameCount \in 1..MAX_FRAMES
         /\ PacketBytes(FrameCount, <<>>) = SubSeq(buf, 1, PACKET_HEADER_LEN)
<1>1. Len(buf) \in Nat /\ U16Len \in Nat \ {0} /\ MAX_FRAMES \in Nat
  BY WireAssumption
<1>2. /\ ~(Len(buf) < PACKET_HEADER_LEN) /\ Be(SubSeq(buf, 1, U16Len)) = MAGIC
      /\ buf[U16Len + 1] = VERSION /\ FrameCount # 0 /\ ~(FrameCount > MAX_FRAMES)
  BY WireAssumption DEF HeaderError
<1>3. PACKET_HEADER_LEN = U16Len + 2 /\ PACKET_HEADER_LEN \in 1..Len(buf)
  BY <1>1, <1>2 DEF PACKET_HEADER_LEN
<1>4. FrameCount \in Byte
  BY <1>3, ElementOfSeq DEF FrameCount
<1>5. FrameCount \in 1..MAX_FRAMES
  BY <1>1, <1>2, <1>4, ByteFacts
<1>6. SubSeq(buf, 0 + 1, U16Len) \in Seq(Byte) /\ Len(SubSeq(buf, 0 + 1, U16Len)) = U16Len
  BY <1>1, <1>3, Piece
<1>7. ToBe(MAGIC, U16Len) = SubSeq(buf, 0 + 1, U16Len)
  <2>1. PICK one : one = 0 + 1 /\ one = 1
    OBVIOUS
  <2> QED
    BY <1>2, <1>6, <2>1, ToBeOfBe
<1>8. /\ SubSeq(buf, U16Len + 1, U16Len + 1) = <<VERSION>>
      /\ SubSeq(buf, U16Len + 2, U16Len + 2) = <<FrameCount>>
      /\ VERSION \in Byte
  <2>1. U16Len \in 0..Len(buf) - 1 /\ U16Len + 1 \in 0..Len(buf) - 1 /\ (U16Len + 1) + 1 = U16Len + 2
    BY <1>1, <1>3
  <2> QED
    BY <1>2, <1>3, <2>1, OneByte DEF FrameCount
<1>9. /\ SubSeq(buf, 0 + 1, U16Len) \o SubSeq(buf, U16Len + 1, U16Len + 1)
           = SubSeq(buf, 0 + 1, U16Len + 1)
      /\ SubSeq(buf, 0 + 1, U16Len + 1) \o SubSeq(buf, U16Len + 2, U16Len + 2)
           = SubSeq(buf, 0 + 1, U16Len + 2)
  <2>1. /\ 0 \in 0..Len(buf) /\ U16Len \in 0..Len(buf) /\ U16Len + 1 \in U16Len..Len(buf)
        /\ U16Len + 1 \in 0..Len(buf) /\ U16Len + 2 \in U16Len + 1..Len(buf)
        /\ (U16Len + 1) + 1 = U16Len + 2
    BY <1>1, <1>3
  <2> QED
    BY <2>1, Pieces
<1>10. PICK a \in Seq(Byte) : a = SubSeq(buf, 0 + 1, U16Len)
  BY <1>6
<1>11. (a \o <<VERSION>>) \o <<FrameCount>> = a \o <<VERSION, FrameCount>>
  BY <1>4, <1>8
<1>12. a \o <<VERSION, FrameCount>> = SubSeq(buf, 1, PACKET_HEADER_LEN)
  <2>1. PICK one : one = 0 + 1 /\ one = 1
    OBVIOUS
  <2>2. a \o <<VERSION, FrameCount>> = SubSeq(buf, 0 + 1, U16Len + 2)
    BY <1>8, <1>9, <1>10, <1>11
  <2> QED
    BY <1>3, <2>1, <2>2
<1>13. (a \o <<VERSION, FrameCount>>) \o <<>> = a \o <<VERSION, FrameCount>>
  BY <1>4, <1>8
<1> QED
  BY <1>3, <1>5, <1>7, <1>10, <1>12, <1>13, FrameBytesEmpty DEF PacketBytes
-----------------------------------------------------------------------------
(* Ranks *)

RankIn(W, i) == Cardinality({j \in W : j <= i})

LEMMA RankFacts ==
  ASSUME NEW n \in Nat, NEW W \in SUBSET (1..n)
  PROVE  /\ IsFiniteSet(W) /\ Cardinality(W) \in 0..n
         /\ \A i \in W : RankIn(W, i) \in 1..Cardinality(W)
         /\ Cardinality(W \cup {n + 1}) = Cardinality(W) + 1
         /\ RankIn(W \cup {n + 1}, n + 1) = Cardinality(W) + 1
         /\ \A i \in W : RankIn(W \cup {n + 1}, i) = RankIn(W, i)
<1>1. IsFiniteSet(1..n) /\ Cardinality(1..n) = n
  BY FS_Interval
<1>2. IsFiniteSet(W) /\ Cardinality(W) \in Nat /\ Cardinality(W) <= n
  BY <1>1, FS_Subset, FS_CardinalityType
<1>3. ASSUME NEW i \in W
      PROVE  RankIn(W, i) \in 1..Cardinality(W)
  <2>1. PICK V \in SUBSET W : V = {j \in W : j <= i}
    OBVIOUS
  <2>2. IsFiniteSet(V) /\ Cardinality(V) <= Cardinality(W) /\ Cardinality(V) \in Nat
    BY <1>2, <2>1, FS_Subset, FS_CardinalityType
  <2>3. i \in V
    BY <2>1
  <2>4. Cardinality(V) # 0
    BY <2>2, <2>3, FS_EmptySet
  <2> QED
    BY <1>2, <2>1, <2>2, <2>4 DEF RankIn
<1>4. n + 1 \notin W
  OBVIOUS
<1>5. Cardinality(W \cup {n + 1}) = Cardinality(W) + 1
  BY <1>2, <1>4, FS_AddElement
<1>6. {j \in W \cup {n + 1} : j <= n + 1} = W \cup {n + 1}
  <2>1. \A j \in W \cup {n + 1} : j <= n + 1
    OBVIOUS
  <2> QED
    BY <2>1
<1>7. \A i \in W : {j \in W \cup {n + 1} : j <= i} = {j \in W : j <= i}
  OBVIOUS
<1> QED
  BY <1>2, <1>3, <1>5, <1>6, <1>7 DEF RankIn

LEMMA WithFacts ==
  ASSUME read \in Seq(FrameType)
  PROVE  /\ Len(read) \in Nat /\ DOMAIN read = 1..Len(read)
         /\ \A o : With(o) \in SUBSET (1..Len(read))
         /\ \A o, i : Rank(o, i) = RankIn(With(o), i)
BY DEF With, Rank, RankIn

LEMMA Frozen ==
  ASSUME catalog' = catalog
  PROVE  /\ \A x : FrameOutcome(x)' = FrameOutcome(x) /\ SampleOf(x)' = SampleOf(x)
         /\ \A i, x : FaultOf(i, x)' = FaultOf(i, x)
         /\ \A id : ById(catalog', id) = ById(catalog, id)
<1>1. \A id : ById(catalog', id) = ById(catalog, id)
  BY DEF ById
<1> QED
  BY <1>1 DEF FrameOutcome, SampleOf, FaultOf

LEMMA WithSame ==
  ASSUME catalog' = catalog, read' = read
  PROVE  \A o : With(o)' = With(o) /\ \A i : Rank(o, i)' = Rank(o, i)
<1>1. ASSUME NEW o
      PROVE  With(o)' = With(o)
  BY Frozen DEF With
<1> QED
  BY <1>1 DEF Rank

LEMMA WithNext ==
  ASSUME read \in Seq(FrameType), NEW f \in FrameType, NEW n, n = Len(read),
         catalog' = catalog, read' = Append(read, f), NEW o
  PROVE  /\ FrameOutcome(f) = o => With(o)' = With(o) \cup {n + 1}
         /\ FrameOutcome(f) # o => With(o)' = With(o)
<1>1. /\ n \in Nat /\ DOMAIN read = 1..n /\ DOMAIN read' = 1..n + 1
      /\ read'[n + 1] = f /\ \A i \in 1..n : read'[i] = read[i]
  BY AppendProperties
<1>2. \A x : FrameOutcome(x)' = FrameOutcome(x)
  BY Frozen
<1>3. \A i : i \in With(o) <=> i \in 1..n /\ FrameOutcome(read[i]) = o
  BY <1>1 DEF With
<1>4. \A i : i \in With(o)' <=> i \in 1..n + 1 /\ FrameOutcome(read'[i]) = o
  BY <1>1, <1>2 DEF With
<1>5. \A i : i \in 1..n + 1 <=> (i \in 1..n \/ i = n + 1)
  BY <1>1
<1>6. \A i : i \in With(o)' <=> i \in With(o) \/ (i = n + 1 /\ FrameOutcome(f) = o)
  BY <1>1, <1>3, <1>4, <1>5
<1> QED
  BY <1>6
-----------------------------------------------------------------------------
(* The invariant *)

Walking == status \in {"frames", "done"}

Types ==
  /\ buf \in Seq(Byte) /\ pos \in 0..Len(buf)
  /\ status \in {"idle", "header", "frames", "done"} \cup PacketErrors
  /\ read \in Seq(FrameType)
  /\ out = [samples |-> out.samples, errors |-> out.errors,
            unknown_signals |-> out.unknown_signals]
  /\ out.samples \in Seq(Range(out.samples)) /\ out.errors \in Seq(Range(out.errors))

\* Before the walk nothing is read and nothing put out.
AtStart == ~Walking => pos = 0 /\ out = NoOutput /\ read = <<>>

\* On it the header has been accepted, and no more is read than it announces.
OnTheWay ==
  Walking => /\ pos >= PACKET_HEADER_LEN /\ PACKET_HEADER_LEN >= 1
             /\ FrameCount \in 1..MAX_FRAMES /\ Len(read) <= FrameCount

KnownSignals == \A i \in DOMAIN out.samples : ById(catalog, out.samples[i].signal_id) # None

\* The parts of FramesAccounted.
Counts ==
  /\ out.unknown_signals = Cardinality(With("unknown"))
  /\ Len(out.samples) = Cardinality(With("sample"))

SamplesInOrder ==
  \A i \in With("sample") : out.samples[Rank("sample", i)] = SampleOf(read[i])

ErrorsInOrder ==
  \A i \in With("error") : out.errors[Rank("error", i)] = FaultOf(i, read[i])

Extra == Len(out.errors) - Cardinality(With("error"))

LastError ==
  /\ Extra = 1 =>
       /\ Last(out.errors).index = Len(read)
       /\ Last(out.errors).kind = IF Len(read) < FrameCount THEN "truncated"
                                  ELSE "trailing_bytes"
  /\ Extra = IF status = "done" /\ (Len(read) < FrameCount \/ Remaining > 0) THEN 1 ELSE 0

LEMMA FramesAccountedParts ==
  FramesAccounted <=> (Walking => Counts /\ SamplesInOrder /\ ErrorsInOrder /\ LastError)
BY DEF FramesAccounted, Walking, Counts, SamplesInOrder, ErrorsInOrder, Extra, LastError

DInv ==
  /\ Types /\ AtStart /\ OnTheWay /\ KnownSignals
  /\ Walking => PacketBytes(FrameCount, read) = SubSeq(buf, 1, pos)
  /\ Walking => Counts /\ SamplesInOrder /\ ErrorsInOrder /\ LastError

LEMMA EmptyOutput ==
  ASSUME out = NoOutput, read = <<>>
  PROVE  /\ out.samples = <<>> /\ out.errors = <<>> /\ out.unknown_signals = 0
         /\ \A o : With(o) = {} /\ Cardinality(With(o)) = 0
         /\ out = [samples |-> out.samples, errors |-> out.errors,
                   unknown_signals |-> out.unknown_signals]
         /\ out.samples \in Seq(Range(out.samples)) /\ out.errors \in Seq(Range(out.errors))
         /\ read \in Seq(FrameType) /\ KnownSignals
<1>1. /\ out.samples = <<>> /\ out.errors = <<>> /\ out.unknown_signals = 0
      /\ out = [samples |-> out.samples, errors |-> out.errors,
                unknown_signals |-> out.unknown_signals]
  BY DEF NoOutput
<1>2. \A o : With(o) = {}
  BY DEF With
<1>3. \A S : <<>> \in Seq(S)
  BY EmptySeq
<1> QED
  BY <1>1, <1>2, <1>3, FS_EmptySet DEF KnownSignals

LEMMA DInvImplies == DInv => TypeOK /\ BytesAccounted /\ FramesAccounted
<1> SUFFICES ASSUME DInv
             PROVE  TypeOK /\ BytesAccounted /\ FramesAccounted
  OBVIOUS
<1>1. Len(read) \in Nat /\ MAX_FRAMES \in Nat
  BY WithFacts, WireAssumption DEF DInv, Types
<1>2. Len(read) <= MAX_FRAMES /\ out.unknown_signals \in 0..Len(read)
  <2>1. CASE Walking
    <3>1. With("unknown") \in SUBSET (1..Len(read))
      BY WithFacts DEF DInv, Types
    <3>2. Cardinality(With("unknown")) \in 0..Len(read)
      BY <1>1, <3>1, RankFacts
    <3> QED
      BY <1>1, <2>1, <3>2 DEF DInv, OnTheWay, Counts
  <2>2. CASE ~Walking
    <3>1. out = NoOutput /\ Len(read) = 0
      BY <2>2 DEF DInv, AtStart
    <3> QED
      BY <1>1, <3>1 DEF NoOutput
  <2> QED
    BY <2>1, <2>2
<1>3. TypeOK
  BY <1>2 DEF DInv, Types, TypeOK, KnownSignals, Byte
<1>4. BytesAccounted
  BY DEF DInv, BytesAccounted, Walking
<1>5. FramesAccounted
  BY FramesAccountedParts DEF DInv
<1> QED
  BY <1>3, <1>4, <1>5
-----------------------------------------------------------------------------
(* The steps *)

LEMMA DInvInit == DecoderInit => DInv
<1> SUFFICES ASSUME DecoderInit
             PROVE  DInv
  OBVIOUS
<1>1. out = NoOutput /\ read = <<>> /\ buf = <<>> /\ pos = 0 /\ status = "idle"
  BY DEF DecoderInit
<1>2. ~Walking
  BY <1>1 DEF Walking
<1>3. Types
  BY <1>1, EmptyOutput DEF Types
<1> QED
  BY <1>1, <1>2, <1>3, EmptyOutput DEF DInv, AtStart, OnTheWay

LEMMA DInvStutter == DInv /\ UNCHANGED wireVars => DInv'
<1> SUFFICES ASSUME DInv, UNCHANGED wireVars
             PROVE  DInv'
  OBVIOUS
<1>1. /\ catalog' = catalog /\ buf' = buf /\ pos' = pos /\ out' = out
      /\ status' = status /\ read' = read
  BY DEF wireVars
<1>2. Walking' <=> Walking
  BY <1>1 DEF Walking
<1>3. Types' /\ AtStart' /\ KnownSignals'
  BY <1>1, <1>2 DEF DInv, Types, AtStart, KnownSignals, NoOutput
<1>4. FrameCount' = FrameCount /\ Remaining' = Remaining
  BY <1>1 DEF FrameCount, Remaining
<1>5. OnTheWay'
  BY <1>1, <1>2, <1>4 DEF DInv, OnTheWay
<1>6. \A o : With(o)' = With(o) /\ \A i : Rank(o, i)' = Rank(o, i)
  BY <1>1, WithSame
<1>7. Walking' => Counts' /\ SamplesInOrder' /\ ErrorsInOrder'
  BY <1>1, <1>2, <1>6, Frozen DEF DInv, Counts, SamplesInOrder, ErrorsInOrder
<1>8. Walking' => LastError'
  BY <1>1, <1>2, <1>4, <1>6 DEF DInv, LastError, Extra
<1>9. Walking' => PacketBytes(FrameCount', read') = SubSeq(buf', 1, pos')
  BY <1>1, <1>2, <1>4 DEF DInv
<1> QED
  BY <1>3, <1>5, <1>7, <1>8, <1>9 DEF DInv

LEMMA DInvArrives ==
  ASSUME DInv, NEW bytes \in Seq(0..BASE - 1), Arrives(bytes)
  PROVE  DInv'
<1>1. /\ buf' = bytes /\ status' = "header"
      /\ catalog' = catalog /\ pos' = pos /\ out' = out /\ read' = read
  BY DEF Arrives
<1>2. ~Walking /\ ~Walking'
  BY <1>1 DEF Arrives, Walking
<1>3. pos = 0 /\ out = NoOutput /\ read = <<>>
  BY <1>2 DEF DInv, AtStart
<1>4. AtStart'
  BY <1>1, <1>3 DEF AtStart, NoOutput
<1>5. Types'
  BY <1>1, <1>3 DEF DInv, Types, Byte
<1>6. KnownSignals'
  BY <1>1 DEF DInv, KnownSignals
<1> QED
  BY <1>2, <1>4, <1>5, <1>6 DEF DInv, OnTheWay

LEMMA DInvHeader ==
  ASSUME DInv, Header
  PROVE  DInv'
<1>1. /\ catalog' = catalog /\ buf' = buf /\ out' = out /\ read' = read
      /\ ~Walking
  BY DEF Header, Walking
<1>2. pos = 0 /\ out = NoOutput /\ read = <<>>
  BY <1>1 DEF DInv, AtStart
<1>3. KnownSignals'
  BY <1>1 DEF DInv, KnownSignals
<1>4. CASE HeaderError # None
  <2>1. status' = HeaderError /\ pos' = pos
    BY <1>4 DEF Header
  <2>2. status' \in PacketErrors
    BY <1>4, <2>1 DEF HeaderError, PacketErrors
  <2>3. ~Walking'
    BY <2>2 DEF PacketErrors, Walking
  <2>4. Types'
    BY <1>1, <2>1, <2>2 DEF DInv, Types
  <2>5. AtStart'
    BY <1>1, <1>2, <2>1 DEF AtStart, NoOutput
  <2> QED
    BY <1>3, <2>3, <2>4, <2>5 DEF DInv, OnTheWay
<1>5. CASE HeaderError = None
  <2>1. status' = "frames" /\ pos' = PACKET_HEADER_LEN
    BY <1>5 DEF Header
  <2>2. /\ PACKET_HEADER_LEN \in 1..Len(buf) /\ FrameCount \in 1..MAX_FRAMES
        /\ PacketBytes(FrameCount, <<>>) = SubSeq(buf, 1, PACKET_HEADER_LEN)
    BY <1>5, HeaderBytes DEF DInv, Types
  <2>3. FrameCount' = FrameCount /\ Walking'
    BY <1>1, <2>1 DEF FrameCount, Walking
  <2>4. Types'
    BY <1>1, <2>1, <2>2 DEF DInv, Types
  <2>5. OnTheWay'
    <3>1. MAX_FRAMES \in Nat /\ Len(read) = 0
      BY <1>2, WireAssumption
    <3> QED
      BY <1>1, <2>1, <2>2, <2>3, <3>1 DEF OnTheWay
  <2>6. PacketBytes(FrameCount', read') = SubSeq(buf', 1, pos')
    BY <1>1, <1>2, <2>1, <2>2, <2>3
  <2>7. /\ out.samples = <<>> /\ out.errors = <<>> /\ out.unknown_signals = 0
        /\ \A o : With(o) = {} /\ Cardinality(With(o)) = 0
    BY <1>2, EmptyOutput
  <2>8. \A o : With(o)' = {} /\ Cardinality(With(o)') = 0
    BY <1>1, <2>7, WithSame
  <2>9. Counts' /\ SamplesInOrder' /\ ErrorsInOrder'
    BY <1>1, <2>7, <2>8 DEF Counts, SamplesInOrder, ErrorsInOrder
  <2>10. LastError'
    BY <1>1, <2>1, <2>7, <2>8 DEF LastError, Extra
  <2> QED
    BY <1>3, <2>3, <2>4, <2>5, <2>6, <2>9, <2>10 DEF DInv, AtStart
<1> QED
  BY <1>4, <1>5

LEMMA AppendFacts ==
  ASSUME NEW s, s \in Seq(Range(s)), NEW e
  PROVE  /\ Append(s, e) \in Seq(Range(Append(s, e)))
         /\ Len(s) \in Nat /\ Len(Append(s, e)) = Len(s) + 1
         /\ DOMAIN s = 1..Len(s) /\ DOMAIN Append(s, e) = 1..Len(s) + 1
         /\ Append(s, e)[Len(s) + 1] = e /\ Last(Append(s, e)) = e
         /\ \A i \in 1..Len(s) : Append(s, e)[i] = s[i]
<1>0. PICK r : r = Append(s, e)
  OBVIOUS
<1> DEFINE S == Range(s) \cup {e}
<1>1. s \in Seq(S) /\ e \in S
  BY SeqMonotonic
<1>2. PICK n \in Nat : n = Len(s) /\ DOMAIN s = 1..n
  BY <1>1
<1>3. /\ r \in Seq(S) /\ Len(r) = n + 1 /\ r[n + 1] = e
      /\ \A i \in 1..n : r[i] = s[i]
  <2> HIDE DEF S
  <2> QED BY <1>0, <1>1, <1>2, AppendProperties
<1>4. r \in Seq(Range(r))
  BY <1>3, SeqOfRange
<1>5. DOMAIN r = 1..n + 1
  BY <1>3
<1> QED
  BY <1>0, <1>2, <1>3, <1>4, <1>5 DEF Last

\* The walk ends: with an error that is not the outcome of a frame, or without.
LEMMA DInvEnds ==
  ASSUME DInv, status = "frames", status' = "done",
         UNCHANGED <<catalog, buf, pos, read>>,
         NEW ended, ended \in BOOLEAN,
         ended <=> (Len(read) < FrameCount \/ Remaining > 0),
         ~ended => out' = out,
         NEW e, e.index = Len(read),
         e.kind = IF Len(read) < FrameCount THEN "truncated" ELSE "trailing_bytes",
         ended => out' = [out EXCEPT !.errors = Append(@, e)]
  PROVE  DInv'
<1>1. /\ catalog' = catalog /\ buf' = buf /\ pos' = pos /\ read' = read
      /\ Walking /\ Walking'
  BY DEF Walking
<1>2. /\ Types /\ OnTheWay /\ KnownSignals /\ Counts /\ SamplesInOrder /\ ErrorsInOrder
      /\ LastError /\ PacketBytes(FrameCount, read) = SubSeq(buf, 1, pos)
  BY <1>1 DEF DInv
<1>3. /\ out'.samples = out.samples /\ out'.unknown_signals = out.unknown_signals
      /\ out' = [samples |-> out'.samples, errors |-> out'.errors,
                 unknown_signals |-> out'.unknown_signals]
      /\ out'.errors = IF ended THEN Append(out.errors, e) ELSE out.errors
  BY <1>2 DEF Types
<1>4. /\ Len(out.errors) \in Nat /\ out'.errors \in Seq(Range(out'.errors))
      /\ \A i \in 1..Len(out.errors) : out'.errors[i] = out.errors[i]
      /\ Len(out'.errors) = Len(out.errors) + IF ended THEN 1 ELSE 0
      /\ ended => Last(out'.errors) = e
  <2>1. out.errors \in Seq(Range(out.errors))
    BY <1>2 DEF Types
  <2>2. CASE ended
    <3>1. PICK s, r : s = out.errors /\ r = out'.errors
      OBVIOUS
    <3>2. s \in Seq(Range(s)) /\ r = Append(s, e)
      BY <1>3, <2>1, <2>2, <3>1
    <3>3. /\ r \in Seq(Range(r)) /\ Len(s) \in Nat /\ Len(r) = Len(s) + 1
          /\ Last(r) = e /\ \A i \in 1..Len(s) : r[i] = s[i]
      BY <3>2, AppendFacts
    <3> QED
      BY <2>2, <3>1, <3>3
  <2>3. CASE ~ended
    <3>1. out'.errors = out.errors /\ Len(out.errors) \in Nat
      BY <1>3, <2>1, <2>3, LenProperties
    <3> QED
      BY <2>1, <2>3, <3>1
  <2> QED
    BY <2>2, <2>3
<1>5. /\ \A o : With(o)' = With(o) /\ \A i : Rank(o, i)' = Rank(o, i)
      /\ FrameCount' = FrameCount /\ Remaining' = Remaining
  BY <1>1, WithSame DEF FrameCount, Remaining
<1>6. PICK W \in SUBSET (1..Len(read)) : W = With("error") /\ W = With("error")'
  BY <1>2, <1>5, WithFacts DEF Types
<1>7. /\ Len(read) \in Nat /\ Cardinality(W) \in Nat
      /\ \A i \in W : RankIn(W, i) \in 1..Cardinality(W)
  <2>1. Len(read) \in Nat
    BY <1>2, WithFacts DEF Types
  <2>2. Cardinality(W) \in 0..Len(read)
    BY <2>1, RankFacts
  <2>3. \A i \in W : RankIn(W, i) \in 1..Cardinality(W)
    BY <2>1, RankFacts
  <2> QED
    BY <2>1, <2>2, <2>3
<1>8. Len(out.errors) = Cardinality(W)
  BY <1>2, <1>4, <1>6, <1>7 DEF LastError, Extra
<1>9. Types'
  BY <1>1, <1>2, <1>3, <1>4 DEF Types
<1>10. OnTheWay' /\ KnownSignals' /\ PacketBytes(FrameCount', read') = SubSeq(buf', 1, pos')
  BY <1>1, <1>2, <1>3, <1>5 DEF OnTheWay, KnownSignals
<1>11. Counts' /\ SamplesInOrder'
  BY <1>1, <1>2, <1>3, <1>5, Frozen DEF Counts, SamplesInOrder
<1>12. ErrorsInOrder'
  <2> SUFFICES ASSUME NEW i \in W
               PROVE  out'.errors[Rank("error", i)] = FaultOf(i, read[i])
    BY <1>1, <1>5, <1>6, Frozen DEF ErrorsInOrder
  <2>1. Rank("error", i) \in 1..Len(out.errors)
    <3>1. Rank("error", i) = RankIn(W, i)
      BY <1>2, <1>6, WithFacts DEF Types
    <3> QED
      BY <1>7, <1>8, <3>1
  <2> QED
    BY <1>2, <1>4, <1>6, <2>1 DEF ErrorsInOrder
<1>13. LastError'
  <2>1. Extra' = IF ended THEN 1 ELSE 0
    BY <1>4, <1>6, <1>7, <1>8 DEF Extra
  <2> QED
    BY <1>1, <1>4, <1>5, <2>1 DEF LastError
<1> QED
  BY <1>1, <1>9, <1>10, <1>11, <1>12, <1>13 DEF DInv, AtStart

LEMMA DInvFrameTruncated ==
  ASSUME DInv, FrameTruncated
  PROVE  DInv'
<1>1. PICK id : out' = [out EXCEPT !.errors = Append(@, FrameError(id, "truncated"))]
  BY DEF FrameTruncated
<1>2. FrameError(id, "truncated").index = Len(read) /\ FrameError(id, "truncated").kind = "truncated"
  BY DEF FrameError, Index
<1>3. /\ status = "frames" /\ status' = "done" /\ UNCHANGED <<catalog, buf, pos, read>>
      /\ Len(read) < FrameCount
  BY DEF FrameTruncated, Index
<1>4. TRUE <=> (Len(read) < FrameCount \/ Remaining > 0)
  BY <1>3
<1> QED
  BY <1>1, <1>2, <1>3, <1>4, DInvEnds

LEMMA DInvFinish ==
  ASSUME DInv, Finish
  PROVE  DInv'
<1>1. /\ status = "frames" /\ status' = "done" /\ UNCHANGED <<catalog, buf, pos, read>>
      /\ Len(read) = FrameCount
      /\ out' = IF Remaining = 0 THEN out
                ELSE [out EXCEPT !.errors = Append(@, FrameError(None, "trailing_bytes"))]
  BY DEF Finish, Index
<1>2. /\ FrameError(None, "trailing_bytes").index = Len(read)
      /\ FrameError(None, "trailing_bytes").kind = "trailing_bytes"
  BY DEF FrameError, Index
<1>3. Remaining \in Nat /\ FrameCount \in Int
  <2>1. Len(buf) \in Nat /\ pos \in 0..Len(buf)
    BY LenProperties DEF DInv, Types
  <2> QED
    BY <1>1, <2>1, WithFacts DEF Remaining, DInv, Types
<1>4. PICK ended \in BOOLEAN : ended <=> Remaining # 0
  OBVIOUS
<1>5. ended <=> (Len(read) < FrameCount \/ Remaining > 0)
  BY <1>1, <1>3, <1>4
<1>6. /\ ~ended => out' = out
      /\ ended => out' = [out EXCEPT !.errors = Append(@, FrameError(None, "trailing_bytes"))]
  BY <1>1, <1>4
<1>7. ~(Len(read) < FrameCount)
  BY <1>1, <1>3
<1> QED
  BY <1>1, <1>2, <1>5, <1>6, <1>7, DInvEnds

\* The outcome of a frame: the lists that it is added to grow by one, and so do
\* the frames that had this outcome.
LEMMA Listed ==
  ASSUME Types, NEW f \in FrameType, read' = Append(read, f), catalog' = catalog,
         NEW o, FrameOutcome(f) = o, NEW n, n = Len(read)
  PROVE  /\ Cardinality(With(o)) \in Nat
         /\ Cardinality(With(o)') = Cardinality(With(o)) + 1
         /\ \A i : i \in With(o)' <=> (i \in With(o) \/ i = n + 1)
         /\ Rank(o, n + 1)' = Cardinality(With(o)) + 1
         /\ \A i \in With(o) : /\ i \in 1..n
                               /\ Rank(o, i) \in 1..Cardinality(With(o))
                               /\ Rank(o, i)' = Rank(o, i)
<1>1. n \in Nat
  BY WithFacts DEF Types
<1>2. PICK W \in SUBSET (1..n) : W = With(o)
  BY <1>1, WithFacts DEF Types
<1>3. PICK V : V = W \cup {n + 1}
  OBVIOUS
<1>4. V = With(o)'
  BY <1>1, <1>2, <1>3, WithNext DEF Types
<1>5. /\ Cardinality(W) \in Nat
      /\ \A i \in W : RankIn(W, i) \in 1..Cardinality(W)
      /\ Cardinality(V) = Cardinality(W) + 1
      /\ RankIn(V, n + 1) = Cardinality(W) + 1
      /\ \A i \in W : RankIn(V, i) = RankIn(W, i)
  <2>1. /\ Cardinality(W) \in 0..n
        /\ \A i \in W : RankIn(W, i) \in 1..Cardinality(W)
        /\ Cardinality(W \cup {n + 1}) = Cardinality(W) + 1
        /\ RankIn(W \cup {n + 1}, n + 1) = Cardinality(W) + 1
        /\ \A i \in W : RankIn(W \cup {n + 1}, i) = RankIn(W, i)
    BY <1>1, RankFacts
  <2>2. Cardinality(W) \in Nat
    BY <2>1
  <2> QED
    BY <1>3, <2>1, <2>2
<1>6. \A i : Rank(o, i) = RankIn(W, i)
  BY <1>2 DEF Rank, RankIn
<1>7. \A i : Rank(o, i)' = RankIn(V, i)
  BY <1>4 DEF Rank, RankIn
<1>8. Cardinality(With(o)) \in Nat /\ Cardinality(With(o)') = Cardinality(With(o)) + 1
  BY <1>2, <1>4, <1>5
<1>9. \A i : i \in With(o)' <=> (i \in With(o) \/ i = n + 1)
  BY <1>1, <1>2, <1>3, <1>4
<1>10. Rank(o, n + 1)' = Cardinality(With(o)) + 1
  BY <1>1, <1>2, <1>5, <1>7
<1>11. \A i \in With(o) : /\ i \in 1..n
                          /\ Rank(o, i) \in 1..Cardinality(With(o))
                          /\ Rank(o, i)' = Rank(o, i)
  BY <1>1, <1>2, <1>5, <1>6, <1>7
<1> QED
  BY <1>8, <1>9, <1>10, <1>11

LEMMA Unlisted ==
  ASSUME Types, NEW f \in FrameType, read' = Append(read, f), catalog' = catalog,
         NEW o, FrameOutcome(f) # o
  PROVE  /\ With(o)' = With(o) /\ Cardinality(With(o)) \in Nat
         /\ \A i : Rank(o, i)' = Rank(o, i)
         /\ \A i \in With(o) : i \in 1..Len(read)
<1>1. With(o)' = With(o)
  BY WithNext DEF Types
<1>2. PICK n \in Nat : n = Len(read)
  BY WithFacts DEF Types
<1>3. PICK W \in SUBSET (1..n) : W = With(o)
  BY <1>2, WithFacts DEF Types
<1>4. Cardinality(W) \in 0..n
  BY RankFacts
<1> QED
  BY <1>1, <1>2, <1>3, <1>4 DEF Rank

\* What reading a frame does besides giving it its outcome.
LEMMA FramePassed ==
  ASSUME DInv, FrameRead
  PROVE  /\ Frame \in FrameType /\ read' = Append(read, Frame)
         /\ catalog' = catalog /\ buf' = buf /\ status' = status /\ Walking /\ Walking'
         /\ status = "frames" /\ Types /\ KnownSignals
         /\ Counts /\ SamplesInOrder /\ ErrorsInOrder /\ Extra = 0
         /\ read' \in Seq(FrameType) /\ Len(read) \in Nat /\ Len(read') = Len(read) + 1
         /\ read'[Len(read) + 1] = Frame
         /\ \A i \in 1..Len(read) : read'[i] = read[i]
         /\ pos' \in 0..Len(buf') /\ OnTheWay'
         /\ PacketBytes(FrameCount', read') = SubSeq(buf', 1, pos')
<1>1. /\ status = "frames" /\ status' = status /\ catalog' = catalog /\ buf' = buf
      /\ read' = Append(read, Frame) /\ Complete /\ Len(read) < FrameCount
      /\ pos' = pos + FRAME_HEADER_LEN + PayloadLen
  BY DEF FrameRead, Pass, Index
<1>2. Walking /\ Walking' /\ FrameCount' = FrameCount
  BY <1>1 DEF Walking, FrameCount
<1>3. /\ Types /\ OnTheWay /\ KnownSignals /\ Counts /\ SamplesInOrder /\ ErrorsInOrder
      /\ LastError /\ PacketBytes(FrameCount, read) = SubSeq(buf, 1, pos)
  BY <1>2 DEF DInv
<1>4. Extra = 0
  BY <1>1, <1>3 DEF LastError
<1>5. /\ Frame \in FrameType /\ PayloadLen \in Nat
      /\ pos + FRAME_HEADER_LEN + PayloadLen \in pos..Len(buf)
      /\ EncodeFrame(Frame) = SubSeq(buf, pos + 1, pos + FRAME_HEADER_LEN + PayloadLen)
  BY <1>1, <1>3, FrameAtCursor DEF Types
<1>6. /\ read' \in Seq(FrameType) /\ Len(read) \in Nat /\ Len(read') = Len(read) + 1
      /\ read'[Len(read) + 1] = Frame
      /\ \A i \in 1..Len(read) : read'[i] = read[i]
  BY <1>1, <1>3, <1>5, AppendProperties, LenProperties DEF Types
<1>7. /\ buf \in Seq(Byte) /\ Len(buf) \in Nat /\ pos \in 0..Len(buf)
      /\ pos' \in pos..Len(buf) /\ pos' \in 0..Len(buf')
  BY <1>1, <1>3, <1>5 DEF Types
<1>8. OnTheWay'
  <2>1. PACKET_HEADER_LEN \in Nat
    BY WireAssumption DEF PACKET_HEADER_LEN
  <2>2. MAX_FRAMES \in Nat /\ FrameCount \in 1..MAX_FRAMES
    BY <1>2, <1>3, WireAssumption DEF OnTheWay
  <2> QED
    BY <1>1, <1>2, <1>3, <1>6, <1>7, <2>1, <2>2 DEF OnTheWay
<1>9. PacketBytes(FrameCount', read') = SubSeq(buf', 1, pos')
  <2>1. /\ FrameBytes(read) \in Seq(Byte) /\ EncodeFrame(Frame) \in Seq(Byte)
        /\ FrameBytes(read') = FrameBytes(read) \o EncodeFrame(Frame)
    BY <1>1, <1>3, <1>5, FrameBytesAppend, EncodeFrameType DEF Types
  <2>0. PICK one : one = 0 + 1 /\ one = 1
    OBVIOUS
  <2>2. PICK header : header = ToBe(MAGIC, U16Len) \o <<VERSION, FrameCount>>
    OBVIOUS
  <2>3. header \in Seq(Nat) /\ Seq(Byte) \subseteq Seq(Nat)
    <3>1. Seq(Byte) \subseteq Seq(Nat)
      BY ByteFacts, SeqMonotonic
    <3>2. ToBe(MAGIC, U16Len) \in Seq(Nat)
      BY <3>1, ToBeType, WireAssumption
    <3>3. <<VERSION, FrameCount>> \in Seq(Nat)
      BY <1>2, <1>3, WireAssumption DEF OnTheWay
    <3> QED
      BY <2>2, <3>1, <3>2, <3>3, ConcatProperties
  <2>4. (header \o FrameBytes(read)) \o EncodeFrame(Frame)
          = header \o (FrameBytes(read) \o EncodeFrame(Frame))
    BY <2>1, <2>3, ConcatAssociative
  <2>5. header \o FrameBytes(read) = SubSeq(buf, 0 + 1, pos)
    BY <1>3, <2>0, <2>2 DEF PacketBytes
  <2>6. SubSeq(buf, 0 + 1, pos) \o SubSeq(buf, pos + 1, pos') = SubSeq(buf, 0 + 1, pos')
    <3>1. PICK p, q : p = pos /\ q = pos'
      OBVIOUS
    <3>2. 0 \in 0..Len(buf) /\ p \in 0..Len(buf) /\ q \in p..Len(buf)
      BY <1>7, <3>1
    <3>3. SubSeq(buf, 0 + 1, p) \o SubSeq(buf, p + 1, q) = SubSeq(buf, 0 + 1, q)
      BY <1>7, <3>2, Pieces
    <3> QED
      BY <3>1, <3>3
  <2>7. PacketBytes(FrameCount, read') = header \o FrameBytes(read')
    BY <2>2 DEF PacketBytes
  <2>8. PacketBytes(FrameCount, read') = SubSeq(buf, 0 + 1, pos')
    BY <1>1, <1>5, <2>1, <2>4, <2>5, <2>6, <2>7
  <2> QED
    BY <1>1, <1>2, <2>0, <2>8
<1> QED
  BY <1>1, <1>2, <1>3, <1>4, <1>5, <1>6, <1>7, <1>8, <1>9

\* An outcome that a frame did not have: its list and its frames stay.
LEMMA InOrderSame ==
  ASSUME Types, Extra = 0, Counts, SamplesInOrder, ErrorsInOrder,
         NEW f \in FrameType, read' = Append(read, f), catalog' = catalog
  PROVE  /\ FrameOutcome(f) # "unknown" /\ out'.unknown_signals = out.unknown_signals =>
              out'.unknown_signals = Cardinality(With("unknown")')
         /\ FrameOutcome(f) # "sample" /\ out'.samples = out.samples =>
              Len(out'.samples) = Cardinality(With("sample")') /\ SamplesInOrder'
         /\ FrameOutcome(f) # "error" /\ out'.errors = out.errors =>
              Extra' = 0 /\ ErrorsInOrder'
<1>0. \A i \in 1..Len(read) : read'[i] = read[i]
  BY AppendProperties DEF Types
<1>1. ASSUME FrameOutcome(f) # "unknown", out'.unknown_signals = out.unknown_signals
      PROVE  out'.unknown_signals = Cardinality(With("unknown")')
  BY <1>1, Unlisted DEF Counts
<1>2. ASSUME FrameOutcome(f) # "sample", out'.samples = out.samples
      PROVE  Len(out'.samples) = Cardinality(With("sample")') /\ SamplesInOrder'
  <2>1. /\ With("sample")' = With("sample")
        /\ \A i : Rank("sample", i)' = Rank("sample", i)
        /\ \A i \in With("sample") : i \in 1..Len(read)
    BY <1>2, Unlisted
  <2>2. Len(out'.samples) = Cardinality(With("sample")')
    BY <1>2, <2>1 DEF Counts
  <2>3. SamplesInOrder'
    BY <1>0, <1>2, <2>1, Frozen DEF SamplesInOrder
  <2> QED
    BY <2>2, <2>3
<1>3. ASSUME FrameOutcome(f) # "error", out'.errors = out.errors
      PROVE  Extra' = 0 /\ ErrorsInOrder'
  <2>1. /\ With("error")' = With("error")
        /\ \A i : Rank("error", i)' = Rank("error", i)
        /\ \A i \in With("error") : i \in 1..Len(read)
    BY <1>3, Unlisted
  <2>2. ErrorsInOrder'
    BY <1>0, <1>3, <2>1, Frozen DEF ErrorsInOrder
  <2> QED
    BY <1>3, <2>1, <2>2 DEF Extra
<1> QED
  BY <1>1, <1>2, <1>3

\* What is left to show of a step that reads a frame.
LEMMA DInvReads ==
  ASSUME DInv, FrameRead,
         out' = [samples |-> out'.samples, errors |-> out'.errors,
                 unknown_signals |-> out'.unknown_signals],
         out'.samples \in Seq(Range(out'.samples)),
         out'.errors \in Seq(Range(out'.errors)),
         KnownSignals', Counts', SamplesInOrder', ErrorsInOrder', Extra' = 0
  PROVE  DInv'
<1>1. Types'
  BY FramePassed DEF Types
<1>2. LastError'
  BY FramePassed DEF LastError
<1> QED
  BY <1>1, <1>2, FramePassed DEF DInv, AtStart

LEMMA DInvFrameUnknown ==
  ASSUME DInv, FrameRead, FrameUnknown(ById(catalog, Frame.signal_id))
  PROVE  DInv'
<1> DEFINE f == Frame
<1>1. /\ f \in FrameType /\ read' = Append(read, f) /\ catalog' = catalog
      /\ Types /\ Counts /\ SamplesInOrder /\ ErrorsInOrder /\ Extra = 0 /\ KnownSignals
  BY FramePassed
<1>2. FrameOutcome(f) = "unknown"
  BY DEF FrameUnknown, FrameOutcome
<1>3. out' = [samples |-> out.samples, errors |-> out.errors,
              unknown_signals |-> out.unknown_signals + 1]
  BY <1>1 DEF FrameUnknown, Types
<1>4. /\ out'.samples = out.samples /\ out'.errors = out.errors
      /\ out'.unknown_signals = out.unknown_signals + 1
      /\ out' = [samples |-> out'.samples, errors |-> out'.errors,
                 unknown_signals |-> out'.unknown_signals]
  BY <1>3
<1> HIDE DEF f
<1>5. out'.unknown_signals = Cardinality(With("unknown")')
  BY <1>1, <1>2, <1>4, Listed DEF Counts
<1>6. /\ Len(out'.samples) = Cardinality(With("sample")') /\ SamplesInOrder'
      /\ Extra' = 0 /\ ErrorsInOrder'
  BY <1>1, <1>2, <1>4, InOrderSame
<1>7. Counts' /\ KnownSignals'
  BY <1>1, <1>4, <1>5, <1>6 DEF Counts, KnownSignals
<1> QED
  BY <1>1, <1>4, <1>6, <1>7, DInvReads DEF Types

LEMMA DInvFrameDecoded ==
  ASSUME DInv, FrameRead, FrameDecoded(ById(catalog, Frame.signal_id))
  PROVE  DInv'
<1>1. PICK f : f = Frame
  OBVIOUS
<1>2. /\ f \in FrameType /\ read' = Append(read, f) /\ catalog' = catalog
      /\ Types /\ Counts /\ SamplesInOrder /\ ErrorsInOrder /\ Extra = 0 /\ KnownSignals
      /\ \A i \in 1..Len(read) : read'[i] = read[i]
      /\ read'[Len(read) + 1] = f
  BY <1>1, FramePassed
<1>3. FrameOutcome(f) = "sample" /\ ById(catalog, f.signal_id) # None
  BY <1>1 DEF FrameDecoded, FrameOutcome
<1>4. PICK sample : /\ sample = SampleOf(f) /\ sample.signal_id = f.signal_id
                    /\ out' = [out EXCEPT !.samples = Append(@, sample)]
  <2> DEFINE s == ById(catalog, f.signal_id)
             v == [signal_id |-> f.signal_id, name |-> s.def.name,
                   timestamp_us |-> f.timestamp_us, value |-> DecodeValue(s, f.payload).ok]
  <2>1. v.signal_id = f.signal_id /\ v = SampleOf(f)
    BY DEF SampleOf
  <2>2. out' = [out EXCEPT !.samples = Append(@, v)]
    BY <1>1 DEF FrameDecoded
  <2> QED
    BY <2>1, <2>2
<1>5. PICK old, new : old = out.samples /\ new = Append(old, sample)
  OBVIOUS
<1>6. out' = [samples |-> new, errors |-> out.errors, unknown_signals |-> out.unknown_signals]
  BY <1>2, <1>4, <1>5 DEF Types
<1>7. /\ out'.samples = new /\ out'.errors = out.errors
      /\ out'.unknown_signals = out.unknown_signals
      /\ out' = [samples |-> out'.samples, errors |-> out'.errors,
                 unknown_signals |-> out'.unknown_signals]
  BY <1>6
<1>8. /\ new \in Seq(Range(new)) /\ Len(old) \in Nat /\ Len(new) = Len(old) + 1
      /\ DOMAIN old = 1..Len(old) /\ DOMAIN new = 1..Len(old) + 1
      /\ new[Len(old) + 1] = sample /\ \A i \in 1..Len(old) : new[i] = old[i]
  <2>1. old \in Seq(Range(old))
    BY <1>2, <1>5 DEF Types
  <2> QED
    BY <1>5, <2>1, AppendFacts
<1>9. out'.unknown_signals = Cardinality(With("unknown")') /\ Extra' = 0 /\ ErrorsInOrder'
  BY <1>2, <1>3, <1>7, InOrderSame
<1>10. PICK n : n = Len(read)
  OBVIOUS
<1>11. /\ Cardinality(With("sample")) \in Nat
       /\ Cardinality(With("sample")') = Cardinality(With("sample")) + 1
       /\ \A i : i \in With("sample")' <=> (i \in With("sample") \/ i = n + 1)
       /\ Rank("sample", n + 1)' = Cardinality(With("sample")) + 1
       /\ \A i \in With("sample") : /\ i \in 1..n
                                    /\ Rank("sample", i) \in 1..Cardinality(With("sample"))
                                    /\ Rank("sample", i)' = Rank("sample", i)
  BY <1>2, <1>3, <1>10, Listed
<1>12. Len(old) = Cardinality(With("sample"))
  BY <1>2, <1>5 DEF Counts
<1>13. Counts'
  BY <1>7, <1>8, <1>9, <1>11, <1>12 DEF Counts
<1>14. ASSUME NEW i \in With("sample")'
       PROVE  new[Rank("sample", i)'] = SampleOf(read'[i])
  <2>1. CASE i \in With("sample")
    <3>1. new[Rank("sample", i)'] = old[Rank("sample", i)] /\ read'[i] = read[i]
      BY <1>2, <1>8, <1>10, <1>11, <1>12, <2>1
    <3> QED
      BY <1>2, <1>5, <2>1, <3>1 DEF SamplesInOrder
  <2>2. CASE i = n + 1
    <3>1. new[Rank("sample", i)'] = sample /\ read'[i] = f
      BY <1>2, <1>8, <1>10, <1>11, <1>12, <2>2
    <3> QED
      BY <1>4, <3>1
  <2> QED
    BY <1>11, <2>1, <2>2
<1>15. SamplesInOrder'
  BY <1>2, <1>7, <1>14, Frozen DEF SamplesInOrder
<1>16. KnownSignals'
  <2> SUFFICES ASSUME NEW i \in 1..Len(old) + 1
               PROVE  ById(catalog, new[i].signal_id) # None
    BY <1>2, <1>7, <1>8 DEF KnownSignals
  <2>1. CASE i \in 1..Len(old)
    BY <1>2, <1>5, <1>8, <2>1 DEF KnownSignals
  <2>2. CASE i = Len(old) + 1
    BY <1>3, <1>4, <1>8, <2>2
  <2> QED
    BY <1>8, <2>1, <2>2
<1> QED
  BY <1>2, <1>7, <1>8, <1>9, <1>13, <1>15, <1>16, DInvReads DEF Types

LEMMA DInvFrameInvalid ==
  ASSUME DInv, FrameRead, FrameInvalid(ById(catalog, Frame.signal_id))
  PROVE  DInv'
<1>1. PICK f, n : f = Frame /\ n = Len(read)
  OBVIOUS
<1>2. /\ f \in FrameType /\ read' = Append(read, f) /\ catalog' = catalog
      /\ Types /\ Counts /\ SamplesInOrder /\ ErrorsInOrder /\ Extra = 0 /\ KnownSignals
      /\ n \in Nat
      /\ \A i \in 1..n : read'[i] = read[i]
      /\ read'[n + 1] = f
  BY <1>1, FramePassed
<1>3. FrameOutcome(f) = "error"
  BY <1>1 DEF FrameInvalid, FrameOutcome
<1>4. PICK e : e = FaultOf(n + 1, f) /\ out' = [out EXCEPT !.errors = Append(@, e)]
  <2>1. PICK fault : fault = DecodeValue(ById(catalog, f.signal_id), f.payload).err
    OBVIOUS
  <2>2. FrameError(f.signal_id, fault) = FaultOf(n + 1, f)
    <3>1. (n + 1) - 1 = n
      BY <1>2
    <3> QED
      BY <1>1, <2>1, <3>1 DEF FrameError, Index, FaultOf
  <2>3. out' = [out EXCEPT !.errors = Append(@, FrameError(f.signal_id, fault))]
    BY <1>1, <2>1 DEF FrameInvalid
  <2> QED
    BY <2>2, <2>3
<1>5. PICK old, new : old = out.errors /\ new = Append(old, e)
  OBVIOUS
<1>6. out' = [samples |-> out.samples, errors |-> new, unknown_signals |-> out.unknown_signals]
  BY <1>2, <1>4, <1>5 DEF Types
<1>7. /\ out'.samples = out.samples /\ out'.errors = new
      /\ out'.unknown_signals = out.unknown_signals
      /\ out' = [samples |-> out'.samples, errors |-> out'.errors,
                 unknown_signals |-> out'.unknown_signals]
  BY <1>6
<1>8. /\ new \in Seq(Range(new)) /\ Len(old) \in Nat /\ Len(new) = Len(old) + 1
      /\ new[Len(old) + 1] = e /\ \A i \in 1..Len(old) : new[i] = old[i]
  <2>1. old \in Seq(Range(old))
    BY <1>2, <1>5 DEF Types
  <2> QED
    BY <1>5, <2>1, AppendFacts
<1>9. /\ out'.unknown_signals = Cardinality(With("unknown")')
      /\ Len(out'.samples) = Cardinality(With("sample")') /\ SamplesInOrder'
  BY <1>2, <1>3, <1>7, InOrderSame
<1>10. /\ Cardinality(With("error")) \in Nat
       /\ Cardinality(With("error")') = Cardinality(With("error")) + 1
       /\ \A i : i \in With("error")' <=> (i \in With("error") \/ i = n + 1)
       /\ Rank("error", n + 1)' = Cardinality(With("error")) + 1
       /\ \A i \in With("error") : /\ i \in 1..n
                                   /\ Rank("error", i) \in 1..Cardinality(With("error"))
                                   /\ Rank("error", i)' = Rank("error", i)
  BY <1>1, <1>2, <1>3, Listed
<1>11. Len(old) = Cardinality(With("error"))
  BY <1>2, <1>5, <1>8, <1>10 DEF Extra
<1>12. Extra' = 0
  BY <1>7, <1>8, <1>10, <1>11 DEF Extra
<1>13. ASSUME NEW i \in With("error")'
       PROVE  new[Rank("error", i)'] = FaultOf(i, read'[i])
  <2>1. CASE i \in With("error")
    <3>1. new[Rank("error", i)'] = old[Rank("error", i)] /\ read'[i] = read[i]
      BY <1>2, <1>8, <1>10, <1>11, <2>1
    <3> QED
      BY <1>2, <1>5, <2>1, <3>1 DEF ErrorsInOrder
  <2>2. CASE i = n + 1
    <3>1. new[Rank("error", i)'] = e /\ read'[i] = f
      BY <1>2, <1>8, <1>10, <1>11, <2>2
    <3> QED
      BY <1>2, <1>4, <2>2, <3>1
  <2> QED
    BY <1>10, <2>1, <2>2
<1>14. ErrorsInOrder'
  BY <1>2, <1>7, <1>13, Frozen DEF ErrorsInOrder
<1>15. Counts' /\ KnownSignals'
  BY <1>2, <1>7, <1>9 DEF Counts, KnownSignals
<1> QED
  BY <1>2, <1>7, <1>8, <1>9, <1>12, <1>14, <1>15, DInvReads DEF Types
LEMMA DInvNext ==
  ASSUME DInv, [DecoderNext]_wireVars
  PROVE  DInv'
<1>1. CASE \E bytes \in Seq(0..BASE - 1) : Arrives(bytes)
  BY <1>1, DInvArrives
<1>2. CASE Header
  BY <1>2, DInvHeader
<1>3. CASE FrameTruncated
  BY <1>3, DInvFrameTruncated
<1>4. CASE FrameRead
  <2>1. LET s == ById(catalog, Frame.signal_id)
        IN  FrameUnknown(s) \/ FrameDecoded(s) \/ FrameInvalid(s)
    BY <1>4 DEF FrameRead
  <2> QED
    BY <1>4, <2>1, DInvFrameUnknown, DInvFrameDecoded, DInvFrameInvalid
<1>5. CASE Finish
  BY <1>5, DInvFinish
<1>6. CASE UNCHANGED wireVars
  BY <1>6, DInvStutter
<1> QED
  BY <1>1, <1>2, <1>3, <1>4, <1>5, <1>6 DEF DecoderNext, Decode
-----------------------------------------------------------------------------
\* The cursor, what it has passed and what was put out agree, on every datagram.
THEOREM DecoderInvariance == DecoderSpec => []DInv
<1>1. DecoderInit => DInv
  BY DInvInit
<1>2. DInv /\ [DecoderNext]_wireVars => DInv'
  BY DInvNext
<1> QED
  BY <1>1, <1>2, PTL DEF DecoderSpec

\* The cursor stays inside the datagram, no more frames are read than the limit
\* allows, and every sample is of a signal of the catalog.
THEOREM DecoderTypes == DecoderSpec => []TypeOK
<1>1. DInv => TypeOK
  BY DInvImplies
<1> QED
  BY <1>1, DecoderInvariance, PTL

\* The header and the frames read, encoded again, are the bytes passed: none is
\* skipped or read twice.
THEOREM EveryByteAccounted == DecoderSpec => []BytesAccounted
<1>1. DInv => BytesAccounted
  BY DInvImplies
<1> QED
  BY <1>1, DecoderInvariance, PTL

\* Every frame read has one outcome, in its place: a sample with its id, its time
\* and its value, an error with its index and its reason, or a count; one more
\* error ends the walk.
THEOREM EveryFrameAccounted == DecoderSpec => []FramesAccounted
<1>1. DInv => FramesAccounted
  BY DInvImplies
<1> QED
  BY <1>1, DecoderInvariance, PTL
-----------------------------------------------------------------------------
(* What is written is read *)

\* A set that contains 0 and with each number the next contains all.
LEMMA Climb ==
  ASSUME NEW m \in Nat, NEW S, 0 \in S, \A i \in 1..m : i - 1 \in S => i \in S
  PROVE  \A i \in 0..m : i \in S
<1>1. PICK Bad \in SUBSET Nat : \A k : k \in Bad <=> k \in 0..m /\ k \notin S
  <2> WITNESS {k \in 0..m : k \notin S} \in SUBSET Nat
  <2> QED OBVIOUS
<1>2. Bad = {}
  <2>1. SUFFICES ASSUME Bad # {} PROVE FALSE
    OBVIOUS
  <2>2. PICK k \in Bad : \A e \in Bad : k <= e
    BY <2>1, LeastNatural
  <2>3. k \in 1..m /\ k - 1 \in 0..m /\ k - 1 < k
    BY <1>1
  <2> QED
    BY <1>1, <2>2, <2>3
<1> QED
  BY <1>1, <1>2

LEMMA DivFacts ==
  ASSUME NEW B \in Nat \ {0}, NEW x \in Nat
  PROVE  /\ x \div B \in Nat /\ x % B \in 0..B - 1
         /\ (x \div B) * B + (x % B) = x
         /\ \A y \in Nat : x < y * B => x \div B < y
<1>1. PICK q \in Int, r \in 0..B - 1 : /\ q = x \div B /\ r = x % B /\ x = B * q + r
  OBVIOUS
<1>2. q >= 0
  <2>1. SUFFICES ASSUME q <= -1 PROVE FALSE
    BY <1>1
  <2>2. B * q <= B * (-1)
    BY <2>1
  <2> QED
    BY <1>1, <2>2
<1>3. q * B = B * q
  BY <1>1
<1>4. ASSUME NEW y \in Nat, x < y * B
      PROVE  q < y
  <2>1. SUFFICES ASSUME q >= y PROVE FALSE
    BY <1>1
  <2>2. B * q >= B * y
    BY <1>1, <2>1
  <2>3. B * y = y * B /\ B * y \in Nat
    OBVIOUS
  <2> QED
    BY <1>1, <1>4, <2>2, <2>3
<1> QED
  BY <1>1, <1>2, <1>3, <1>4

LEMMA CodesSteps ==
  ASSUME NEW w \in Nat
  PROVE  \E c \in [0..w -> Nat \ {0}] :
           c[0] = 1 /\ (\A k \in 1..w : c[k] = c[k - 1] * BASE) /\ Codes(w) = c[w]
<1> DEFINE h == [x \in (Nat \ {0}) \X (1..w) |-> x[1] * BASE]
<1>1. h \in Table(Nat \ {0}, w)
  BY ByteFacts DEF Table
<1>2. \A y \in Nat \ {0}, i \in 1..w : h[<<y, i>>] = y * BASE
  OBVIOUS
<1> HIDE DEF h
<1>0. 1 \in Nat \ {0}
  OBVIOUS
<1>3. PICK c \in [0..w -> Nat \ {0}] : c[0] = 1 /\ Follows(c, h, w)
  BY <1>0, <1>1, Iterate
<1>4. ASSUME NEW k \in 1..w
      PROVE  c[k] = c[k - 1] * BASE
  <2>1. c[k - 1] \in Nat \ {0}
    OBVIOUS
  <2> QED
    BY <1>2, <1>3, <2>1 DEF Follows
<1>5. c = [k \in 0..w |-> IF k = 0 THEN 1 ELSE c[k - 1] * BASE]
  BY <1>3, <1>4
<1> DEFINE g == CHOOSE f : f = [k \in 0..w |-> IF k = 0 THEN 1 ELSE f[k - 1] * BASE]
<1>6. g = [k \in 0..w |-> IF k = 0 THEN 1 ELSE g[k - 1] * BASE]
  BY <1>5
<1>7. Codes(w) = g[w]
  BY DEF Codes
<1> HIDE DEF g
<1>8. g[0] = 1 /\ \A k \in 1..w : g[k] = g[k - 1] * BASE
  BY <1>6
<1>9. GoesAlong(g, c, w)
  BY <1>4, <1>8 DEF GoesAlong
<1>10. g[0] = c[0]
  BY <1>3, <1>8
<1>11. \A k \in 0..w : g[k] = c[k]
  BY <1>9, <1>10, SameValues
<1> QED
  BY <1>3, <1>4, <1>7, <1>11

LEMMA CodesFacts ==
  /\ Codes(0) = 1
  /\ \A w \in Nat : Codes(w) \in Nat \ {0} /\ Codes(w + 1) = Codes(w) * BASE
<1>1. Codes(0) = 1
  <2>1. 0 \in Nat
    OBVIOUS
  <2> QED
    BY <2>1, CodesSteps
<1>2. ASSUME NEW w \in Nat
      PROVE  Codes(w) \in Nat \ {0} /\ Codes(w + 1) = Codes(w) * BASE
  <2>1. PICK c \in [0..w -> Nat \ {0}] :
          c[0] = 1 /\ (\A k \in 1..w : c[k] = c[k - 1] * BASE) /\ Codes(w) = c[w]
    BY CodesSteps
  <2>2. w + 1 \in Nat
    OBVIOUS
  <2>3. PICK d \in [0..w + 1 -> Nat \ {0}] :
          /\ d[0] = 1 /\ \A k \in 1..w + 1 : d[k] = d[k - 1] * BASE
          /\ Codes(w + 1) = d[w + 1]
    BY <2>2, CodesSteps
  <2>4. GoesAlong(d, c, w)
    BY <2>1, <2>3 DEF GoesAlong
  <2>0. d[0] = c[0]
    BY <2>1, <2>3
  <2>5. \A k \in 0..w : d[k] = c[k]
    <3>1. Same(d, c, w)
      BY <2>0, <2>4, SameTables
    <3> QED
      BY <3>1 DEF Same
  <2>6. d[w + 1] = d[w] * BASE
    <3>1. w + 1 \in 1..w + 1 /\ (w + 1) - 1 = w
      OBVIOUS
    <3> QED
      BY <2>3, <3>1
  <2> QED
    BY <2>1, <2>3, <2>5, <2>6
<1> QED
  BY <1>1, <1>2

\* The first w bytes of a number of w bytes are the number.
LEMMA BeOfToBe ==
  ASSUME NEW w \in Nat, NEW x \in 0..Codes(w) - 1
  PROVE  Be(ToBe(x, w)) = x
<1>1. PICK b : b = ToBe(x, w)
  OBVIOUS
<1>0. x \in Nat
  BY CodesFacts
<1>2. PICK s \in [0..w -> Nat] :
        /\ s[0] = x /\ \A k \in 1..w : s[k] = s[k - 1] \div BASE
        /\ b = [i \in 1..w |-> s[w - i] % BASE]
  BY <1>0, <1>1, ToBeSteps
<1>3. b \in Seq(Byte) /\ Len(b) = w
  BY <1>0, <1>1, ToBeType
<1>4. PICK n \in [0..w -> Nat] :
        /\ n[0] = 0 /\ \A i \in 1..w : n[i] = n[i - 1] * BASE + b[i]
        /\ Be(b) = n[w]
  BY <1>3, BeSteps
<1>5. PICK S : S = {k \in 0..w : s[k] < Codes(w - k)}
  OBVIOUS
<1>6. \A k \in 0..w : k \in S
  <2>1. 0 \in S
    BY <1>2, <1>5, CodesFacts
  <2>2. ASSUME NEW k \in 1..w, k - 1 \in S
        PROVE  k \in S
    <3>1. w - k \in Nat /\ w - (k - 1) = (w - k) + 1 /\ s[k - 1] \in Nat
      OBVIOUS
    <3>2. s[k - 1] < Codes(w - k) * BASE
      BY <1>5, <2>2, <3>1, CodesFacts
    <3>3. s[k - 1] \div BASE < Codes(w - k)
      <4>1. Codes(w - k) \in Nat
        BY <3>1, CodesFacts
      <4> QED
        BY <3>1, <3>2, <4>1, DivFacts, ByteFacts
    <3> QED
      BY <1>2, <1>5, <3>3
  <2> QED
    BY <2>1, <2>2, Climb
<1>7. s[w] = 0
  <2>1. w \in S
    BY <1>6
  <2>2. s[w] < Codes(w - w) /\ w - w = 0 /\ s[w] \in Nat
    BY <1>5, <2>1
  <2> QED
    BY <2>2, CodesFacts
<1>8. PICK g : g = [i \in 0..w |-> s[w - i]]
  OBVIOUS
<1>9. GoesAlong(n, g, w)
  <2> SUFFICES ASSUME NEW i \in 1..w, n[i - 1] = g[i - 1]
               PROVE  n[i] = g[i]
    BY DEF GoesAlong
  <2>1. g[i - 1] = s[w - i + 1] /\ g[i] = s[w - i] /\ s[w - i] \in Nat
    BY <1>8
  <2>2. s[w - i + 1] = s[w - i] \div BASE
    <3>1. w - i + 1 \in 1..w /\ (w - i + 1) - 1 = w - i
      OBVIOUS
    <3> QED
      BY <1>2, <3>1
  <2>3. (s[w - i] \div BASE) * BASE + (s[w - i] % BASE) = s[w - i]
    BY <2>1, DivFacts, ByteFacts
  <2>4. n[i] = n[i - 1] * BASE + b[i] /\ b[i] = s[w - i] % BASE
    BY <1>2, <1>4
  <2> QED
    BY <2>1, <2>2, <2>3, <2>4
<1>10. n[0] = g[0]
  BY <1>4, <1>7, <1>8
<1>11. \A i \in 0..w : n[i] = g[i]
  BY <1>9, <1>10, SameValues
<1>12. g[w] = x
  BY <1>2, <1>8
<1> QED
  BY <1>1, <1>4, <1>11, <1>12

LEMMA DigitBound ==
  ASSUME NEW B \in Nat \ {0}, NEW y \in Nat, NEW c \in Nat, y <= c - 1, NEW d \in 0..B - 1
  PROVE  y * B + d <= c * B - 1
<1>1. PICK k \in Nat : c = y + 1 + k
  <2> WITNESS c - y - 1 \in Nat
  <2> QED OBVIOUS
<1>2. c * B = y * B + B + k * B
  BY <1>1
<1>3. k * B \in Nat /\ y * B \in Nat
  OBVIOUS
<1> QED
  BY <1>2, <1>3

LEMMA BeBound ==
  ASSUME NEW b \in Seq(Byte)
  PROVE  Be(b) \in 0..Codes(Len(b)) - 1
<1>1. PICK m \in Nat : m = Len(b)
  BY LenProperties
<1>2. PICK n \in [0..m -> Nat] :
        /\ n[0] = 0 /\ \A i \in 1..m : n[i] = n[i - 1] * BASE + b[i]
        /\ Be(b) = n[m]
  BY <1>1, BeSteps
<1>3. PICK S : S = {i \in 0..m : n[i] <= Codes(i) - 1}
  OBVIOUS
<1>4. 0 \in S
  BY <1>2, <1>3, CodesFacts
<1>5. ASSUME NEW i \in 1..m, i - 1 \in S
      PROVE  i \in S
  <2>1. PICK c \in Nat : c = Codes(i - 1) /\ Codes(i) = c * BASE
    <3>1. i - 1 \in Nat /\ (i - 1) + 1 = i
      OBVIOUS
    <3> QED
      BY <3>1, CodesFacts
  <2>2. PICK y \in Nat : y = n[i - 1] /\ y <= c - 1
    BY <1>3, <1>5, <2>1
  <2>3. b[i] \in 0..BASE - 1
    BY <1>1, ElementOfSeq DEF Byte
  <2>6. y * BASE + b[i] <= c * BASE - 1
    BY <2>2, <2>3, ByteFacts, DigitBound
  <2> QED
    BY <1>2, <1>3, <2>1, <2>2, <2>6
<1>6. \A i \in 0..m : i \in S
  BY <1>4, <1>5, Climb
<1>7. m \in 0..m
  BY <1>1
<1>8. n[m] \in Nat /\ n[m] <= Codes(m) - 1 /\ Codes(m) \in Nat
  BY <1>3, <1>6, <1>7, CodesFacts
<1> QED
  BY <1>1, <1>2, <1>8
-----------------------------------------------------------------------------
(* Integers on the wire *)

LEMMA OrderedFacts ==
  ASSUME NEW e, NEW p \in Seq(Byte)
  PROVE  /\ Ordered(e, p) \in Seq(Byte) /\ Len(Ordered(e, p)) = Len(p)
         /\ Ordered(e, Ordered(e, p)) = p
<1>1. PICK m \in Nat : m = Len(p)
  BY LenProperties
<1>2. p = [i \in 1..m |-> p[i]] /\ \A i \in 1..m : p[i] \in Byte
  BY <1>1, ElementOfSeq
<1>3. PICK q : q = [i \in 1..m |-> p[(m - i) + 1]]
  OBVIOUS
<1>4. \A i \in 1..m : (m - i) + 1 \in 1..m /\ (m - ((m - i) + 1)) + 1 = i
  OBVIOUS
<1>5. q \in Seq(Byte) /\ Len(q) = m
  <2>1. \A i \in 1..m : p[(m - i) + 1] \in Byte
    BY <1>2, <1>4
  <2> QED
    BY <1>3, <2>1
<1>6. Reverse(p) = q
  BY <1>1, <1>3 DEF Reverse
<1>7. Reverse(q) = p
  <2>1. Reverse(q) = [i \in 1..m |-> q[(m - i) + 1]]
    BY <1>5 DEF Reverse
  <2>2. \A i \in 1..m : q[(m - i) + 1] = p[i]
    BY <1>3, <1>4
  <2> QED
    BY <1>2, <2>1, <2>2
<1> QED
  BY <1>1, <1>5, <1>6, <1>7 DEF Ordered

LEMMA ModFacts ==
  ASSUME NEW m \in Nat \ {0}
  PROVE  /\ \A x \in 0..m - 1 : x % m = x
         /\ \A x \in -m..-1 : x % m = x + m
         /\ \A x \in Int : x % m \in 0..m - 1
<1>1. ASSUME NEW x \in Int
      PROVE  \E q \in Int, r \in 0..m - 1 : r = x % m /\ x = m * q + r
  <2>1. WITNESS x \div m \in Int, x % m \in 0..m - 1
  <2> QED
    OBVIOUS
<1>2. ASSUME NEW q \in Int
      PROVE  (q >= 1 => m * q >= m) /\ (q <= -1 => m * q <= -m)
             /\ (q <= -2 => m * q <= -m - m)
  <2>1. CASE q >= 1
    <3>1. PICK k \in Nat : q = 1 + k
      <4>1. q - 1 \in Nat
        BY <2>1
      <4> QED
        BY <4>1
    <3>2. m * q = m + m * k /\ m * k \in Nat
      BY <3>1
    <3> QED
      BY <2>1, <3>2
  <2>2. CASE q <= -2
    <3>1. PICK k \in Nat : q = -2 - k
      <4>1. -2 - q \in Nat
        BY <2>2
      <4> QED
        BY <4>1
    <3>2. m * q = -m - m - m * k /\ m * k \in Nat
      BY <3>1
    <3> QED
      BY <2>2, <3>2
  <2>3. CASE q = -1 \/ q = 0
    BY <2>3
  <2> QED
    BY <2>1, <2>2, <2>3
<1>3. ASSUME NEW x \in 0..m - 1
      PROVE  x % m = x
  <2>1. PICK q \in Int, r \in 0..m - 1 : r = x % m /\ x = m * q + r
    BY <1>1
  <2>2. q = 0
    BY <1>2, <2>1
  <2> QED
    BY <2>1, <2>2
<1>4. ASSUME NEW x \in -m..-1
      PROVE  x % m = x + m
  <2>1. PICK q \in Int, r \in 0..m - 1 : r = x % m /\ x = m * q + r
    BY <1>1
  <2>2. q = -1
    BY <1>2, <2>1
  <2> QED
    BY <2>1, <2>2
<1> QED
  BY <1>1, <1>3, <1>4

\* The types of integers, and the range of their payloads.
Integral == DOMAIN Sizes \ FloatTypes
WireRange(ty) == IntRange(IF ty = "bool" THEN "u8" ELSE ty)

LEMMA WireRangeFacts ==
  ASSUME NEW ty \in Integral
  PROVE  \E m \in Nat \ {0}, h \in Nat :
           /\ m = Codes(Size(ty)) /\ m = 2 * h /\ m <= I128Max
           /\ WireRange(ty) = IF ty \in SignedTypes THEN -h..h - 1 ELSE 0..m - 1
<1>1. Size(ty) \in Nat \ {0} /\ ty \in DOMAIN Sizes
  BY WidthAssumption DEF Integral, Size
<1>2. PICK m \in Nat \ {0} : m = Codes(Size(ty))
  BY <1>1, CodesFacts
<1>3. PICK h \in Nat : m = 2 * h /\ m \div 2 = h
  <2>1. PICK w \in Nat : w + 1 = Size(ty)
    <3>1. Size(ty) - 1 \in Nat
      BY <1>1
    <3> QED
      BY <1>1, <3>1
  <2>2. PICK c \in Nat : c = Codes(w) /\ m = c * BASE
    BY <1>2, <2>1, CodesFacts
  <2>3. PICK k \in Nat : BASE = 2 * k
    <3>1. BASE \in Nat /\ BASE % 2 = 0
      BY WidthAssumption
    <3>2. PICK B \in Nat : B = BASE
      BY <3>1
    <3>3. B \div 2 \in Nat /\ B = 2 * (B \div 2)
      BY <3>1, <3>2
    <3> QED
      BY <3>2, <3>3
  <2>4. c * BASE = 2 * (c * k) /\ c * k \in Nat
    BY <2>3
  <2> WITNESS c * k \in Nat
  <2> QED
    BY <2>2, <2>4
<1>4. m <= I128Max
  BY <1>1, <1>2, FloatAssumption DEF Integral, Size
<1>5. Codes(Size("u8")) = Codes(Size("bool"))
  BY WidthAssumption DEF Size
<1>6. IntRange("u8") = 0..Codes(Size("u8")) - 1
  BY DEF IntRange, FloatTypes, SignedTypes
<1>7. WireRange(ty) = IF ty \in SignedTypes THEN -h..h - 1 ELSE 0..m - 1
  <2>1. CASE ty = "bool"
    BY <1>2, <1>5, <1>6, <2>1 DEF WireRange, SignedTypes
  <2>2. CASE ty # "bool"
    BY <1>2, <1>3, <2>2 DEF WireRange, IntRange, Integral
  <2> QED
    BY <2>1, <2>2
<1> QED
  BY <1>2, <1>3, <1>4, <1>7

LEMMA BytesType ==
  ASSUME NEW ty \in DOMAIN Sizes, NEW e, NEW i \in Int
  PROVE  Bytes(ty, e, i) \in Seq(Byte) /\ Len(Bytes(ty, e, i)) = Size(ty)
<1>1. Size(ty) \in Nat
  BY WidthAssumption DEF Size
<1>2. PICK m \in Nat \ {0} : m = Codes(Size(ty))
  BY <1>1, CodesFacts
<1>3. PICK x \in Nat : x = i % m
  BY <1>2, ModFacts
<1>4. ToBe(x, Size(ty)) \in Seq(Byte) /\ Len(ToBe(x, Size(ty))) = Size(ty)
  BY <1>1, ToBeType
<1>5. Bytes(ty, e, i) = Ordered(e, ToBe(x, Size(ty)))
  BY <1>2, <1>3 DEF Bytes
<1> QED
  BY <1>4, <1>5, OrderedFacts

\* What is written of an integer in range is read as this integer.
LEMMA ReadOfWritten ==
  ASSUME NEW ty \in Integral, NEW e, NEW i \in WireRange(ty)
  PROVE  ReadRaw(ty, e, Bytes(ty, e, i)) = i
<1>1. PICK m \in Nat \ {0}, h \in Nat :
        /\ m = Codes(Size(ty)) /\ m = 2 * h
        /\ WireRange(ty) = IF ty \in SignedTypes THEN -h..h - 1 ELSE 0..m - 1
  BY WireRangeFacts
<1>2. PICK x \in 0..m - 1 : x = i % m
  <2>1. i \in Int
    BY <1>1
  <2> QED
    BY <2>1, ModFacts
<1>3. Size(ty) \in Nat /\ x \in Nat
  BY <1>1, WidthAssumption DEF Size, Integral
<1>4. PICK b \in Seq(Byte) : b = ToBe(x, Size(ty))
  BY <1>3, ToBeType
<1>5. Be(b) = x
  BY <1>1, <1>3, <1>4, BeOfToBe
<1>6. Be(Ordered(e, Bytes(ty, e, i))) = x
  BY <1>1, <1>2, <1>4, <1>5, OrderedFacts DEF Bytes
<1>7. ty \notin FloatTypes
  BY DEF Integral
<1>8. ReadRaw(ty, e, Bytes(ty, e, i)) =
        IF ty \in SignedTypes /\ 2 * x >= m THEN x - m ELSE x
  BY <1>1, <1>6, <1>7 DEF ReadRaw
<1>9. CASE i >= 0
  <2>1. i \in 0..m - 1
    BY <1>1, <1>9
  <2>2. x = i
    BY <1>2, <2>1, ModFacts
  <2> QED
    BY <1>1, <1>8, <2>2
<1>10. CASE i < 0
  <2>1. i \in -m..-1 /\ ty \in SignedTypes /\ i >= -h
    BY <1>1, <1>10
  <2>2. x = i + m
    BY <1>2, <2>1, ModFacts
  <2> QED
    BY <1>1, <1>8, <2>1, <2>2
<1> QED
  BY <1>1, <1>9, <1>10

\* The other way: what is read is in range, and written as the bytes it was
\* read from.
LEMMA WrittenOfRead ==
  ASSUME NEW ty \in Integral, NEW e, NEW p \in Seq(Byte), Len(p) = Size(ty)
  PROVE  /\ ReadRaw(ty, e, p) \in WireRange(ty) /\ ReadRaw(ty, e, p) \in Int
         /\ Bytes(ty, e, ReadRaw(ty, e, p)) = p
<1>1. PICK m \in Nat \ {0}, h \in Nat :
        /\ m = Codes(Size(ty)) /\ m = 2 * h
        /\ WireRange(ty) = IF ty \in SignedTypes THEN -h..h - 1 ELSE 0..m - 1
  BY WireRangeFacts
<1>2. PICK b \in Seq(Byte) : b = Ordered(e, p) /\ Len(b) = Size(ty) /\ Ordered(e, b) = p
  BY OrderedFacts
<1>3. PICK x \in 0..m - 1 : x = Be(b) /\ ToBe(x, Size(ty)) = b
  BY <1>1, <1>2, BeBound, ToBeOfBe
<1>4. ty \notin FloatTypes
  BY DEF Integral
<1>5. PICK i : i = ReadRaw(ty, e, p)
  OBVIOUS
<1>6. i = IF ty \in SignedTypes /\ 2 * x >= m THEN x - m ELSE x
  BY <1>1, <1>2, <1>3, <1>4, <1>5 DEF ReadRaw
<1>7. i \in Int /\ i \in WireRange(ty)
  BY <1>1, <1>6
<1>8. i % m = x
  <2>1. CASE i = x
    BY <2>1, ModFacts
  <2>2. CASE i = x - m
    <3>1. i \in -m..-1 /\ i + m = x
      BY <2>2
    <3> QED
      BY <3>1, ModFacts
  <2> QED
    BY <1>6, <2>1, <2>2
<1>9. Bytes(ty, e, i) = p
  BY <1>1, <1>2, <1>3, <1>8 DEF Bytes
<1> QED
  BY <1>5, <1>7, <1>9
-----------------------------------------------------------------------------
(* Accepted catalogs *)

GoodDefs == {d \in SignalDefs : SignalError(d) = None}

LEMMA GoodDefFacts ==
  ASSUME NEW d \in GoodDefs
  PROVE  /\ d \in SignalDefs /\ d.ty \in DOMAIN Sizes
         /\ d.scale \in Int \ {0} /\ d.offset \in Int
         /\ d.scale \in F64s /\ d.offset \in F64s
         /\ d.enum # None => EnumOk(d)
<1>1. d \in SignalDefs /\ SignalError(d) = None
  BY DEF GoodDefs
<1>2. /\ d.ty \in DOMAIN Sizes
      /\ d.scale \in F64s \cup {NonFinite} /\ d.offset \in F64s \cup {NonFinite}
  BY <1>1 DEF SignalDefs
<1>3. /\ ~(d.scale \in {0, NonFinite} \/ d.offset = NonFinite)
      /\ ~(d.enum # None /\ ~EnumOk(d))
  BY <1>1, NoneAssumption DEF SignalError
<1>4. \A n \in F64s : n \in Int
  BY DEF F64s
<1> QED
  BY <1>1, <1>2, <1>3, <1>4

LEMMA EnumFacts ==
  ASSUME NEW d \in GoodDefs, NEW s, s = NewSignal(d), d.enum # None
  PROVE  /\ d.ty \in Integral /\ d.ty # "bool" /\ Entries(d) = d.enum
         /\ \A i \in DOMAIN d.enum :
              /\ d.enum[i].label \in STRING /\ d.enum[i].raw \in WireRange(d.ty)
              /\ d.enum[i].raw \in Int
              /\ EnumRaw(s, d.enum[i].label) = d.enum[i].raw
              /\ EnumLabel(s, d.enum[i].raw) # None
         /\ \A raw : EnumLabel(s, raw) # None =>
              \E i \in DOMAIN d.enum :
                 d.enum[i].raw = raw /\ d.enum[i].label = EnumLabel(s, raw)
         /\ \A label : EnumRaw(s, label) # None =>
              \E i \in DOMAIN d.enum :
                 d.enum[i].label = label /\ d.enum[i].raw = EnumRaw(s, label)
<1>1. PICK e \in Seq([raw : Int \cup {None}, label : STRING]) : e = d.enum
  BY GoodDefFacts DEF SignalDefs
<1>2. /\ IntRange(d.ty) # {}
      /\ \A i \in DOMAIN e : e[i].raw \in IntRange(d.ty)
      /\ \A i, j \in DOMAIN e : e[i].label = e[j].label => i = j
  BY <1>1, GoodDefFacts DEF EnumOk
<1>3. d.ty \in Integral /\ d.ty # "bool" /\ WireRange(d.ty) = IntRange(d.ty)
  BY <1>2, GoodDefFacts DEF IntRange, Integral, WireRange
<1>4. \A i \in WireRange(d.ty) : i \in Int
  BY <1>3, WireRangeFacts
<1>5. \A i \in DOMAIN e : e[i].raw \in Int /\ e[i].label \in STRING /\ i \in Nat
  <2>1. \A i \in DOMAIN e : i \in 1..Len(e) /\ Len(e) \in Nat
    BY LenProperties
  <2>2. \A i \in DOMAIN e : e[i] \in [raw : Int \cup {None}, label : STRING]
    BY <2>1, ElementOfSeq
  <2>3. \A i \in DOMAIN e : e[i].label \in STRING
    BY <2>2
  <2> QED
    BY <1>2, <1>3, <1>4, <2>1, <2>3
<1>6. Entries(d) = e
  BY <1>1 DEF Entries
<1>7. /\ DOMAIN EnumByLabel(d) = {e[i].label : i \in DOMAIN e}
      /\ \A l \in {e[i].label : i \in DOMAIN e} :
           EnumByLabel(d)[l] = e[CHOOSE i \in DOMAIN e : e[i].label = l].raw
  BY <1>6 DEF EnumByLabel
<1>8. /\ DOMAIN EnumByRaw(d) = {e[i].raw : i \in DOMAIN e}
      /\ \A r \in {e[i].raw : i \in DOMAIN e} :
           EnumByRaw(d)[r] =
             e[CHOOSE i \in DOMAIN e :
                 e[i].raw = r /\ \A j \in DOMAIN e : e[j].raw = r => j <= i].label
  BY <1>6 DEF EnumByRaw
<1>9. s.enum_by_raw = EnumByRaw(d) /\ s.enum_by_label = EnumByLabel(d)
  BY DEF NewSignal
<1>10. ASSUME NEW i \in DOMAIN e
       PROVE  EnumByLabel(d)[e[i].label] = e[i].raw
  <2>1. (CHOOSE k \in DOMAIN e : e[k].label = e[i].label) = i
    BY <1>2
  <2> QED
    BY <1>7, <2>1
<1>11. ASSUME NEW r \in {e[i].raw : i \in DOMAIN e}
       PROVE  \E i \in DOMAIN e : e[i].raw = r /\ EnumByRaw(d)[r] = e[i].label
  <2>1. PICK m \in Nat : m = Len(e) /\ DOMAIN e = 1..m
    BY LenProperties
  <2>2. PICK S \in SUBSET Nat : S = {m - i : i \in {k \in DOMAIN e : e[k].raw = r}}
    <3>1. {m - i : i \in {k \in DOMAIN e : e[k].raw = r}} \in SUBSET Nat
      BY <2>1
    <3> QED
      BY <3>1
  <2>3. S # {}
    BY <2>2
  <2>4. PICK x \in S : \A y \in S : x <= y
    BY <2>3, LeastNatural
  <2>5. PICK i \in DOMAIN e : e[i].raw = r /\ x = m - i
    BY <2>2
  <2>6. \A j \in DOMAIN e : e[j].raw = r => j <= i
    <3> SUFFICES ASSUME NEW j \in DOMAIN e, e[j].raw = r PROVE j <= i
      OBVIOUS
    <3>1. m - j \in S /\ j \in Nat /\ i \in Nat
      BY <2>1, <2>2
    <3> QED
      BY <2>4, <2>5, <3>1
  <2>7. PICK k : k = CHOOSE i_1 \in DOMAIN e :
                       e[i_1].raw = r /\ \A j \in DOMAIN e : e[j].raw = r => j <= i_1
    OBVIOUS
  <2>8. k \in DOMAIN e /\ e[k].raw = r
    BY <2>5, <2>6, <2>7
  <2>9. EnumByRaw(d)[r] = e[k].label
    BY <1>8, <2>7
  <2> QED
    BY <2>8, <2>9
<1>12. ASSUME NEW i \in DOMAIN e
       PROVE  /\ EnumRaw(s, e[i].label) = e[i].raw
              /\ EnumLabel(s, e[i].raw) # None
  <2>1. EnumRaw(s, e[i].label) = e[i].raw
    BY <1>7, <1>9, <1>10 DEF EnumRaw
  <2>2. PICK j \in DOMAIN e : EnumByRaw(d)[e[i].raw] = e[j].label
    BY <1>11
  <2>3. EnumLabel(s, e[i].raw) = e[j].label
    BY <1>8, <1>9, <2>2 DEF EnumLabel
  <2> QED
    BY <1>5, <2>1, <2>3, NoneAssumption
<1>13. ASSUME NEW raw, EnumLabel(s, raw) # None
       PROVE  \E i \in DOMAIN e : e[i].raw = raw /\ e[i].label = EnumLabel(s, raw)
  <2>1. raw \in {e[i].raw : i \in DOMAIN e} /\ EnumLabel(s, raw) = EnumByRaw(d)[raw]
    BY <1>8, <1>9, <1>13 DEF EnumLabel
  <2> QED
    BY <1>11, <2>1
<1>14. ASSUME NEW label, EnumRaw(s, label) # None
       PROVE  \E i \in DOMAIN e : e[i].label = label /\ e[i].raw = EnumRaw(s, label)
  <2>1. label \in {e[i].label : i \in DOMAIN e} /\ EnumRaw(s, label) = EnumByLabel(d)[label]
    BY <1>7, <1>9, <1>14 DEF EnumRaw
  <2> QED
    BY <1>10, <2>1
<1> QED
  BY <1>1, <1>2, <1>3, <1>5, <1>6, <1>12, <1>13, <1>14

LEMMA AcceptedDefs ==
  ASSUME NEW doc \in Docs, CatalogError(doc) = None
  PROVE  /\ doc.signals \in Seq(GoodDefs)
         /\ \A i, j \in DOMAIN doc.signals :
              (doc.signals[i].id = doc.signals[j].id
                 \/ doc.signals[i].name = doc.signals[j].name) => i = j
<1>1. PICK defs \in Seq(SignalDefs) : defs = doc.signals
  BY SenderAssumption
<1>2. PICK m \in Nat : m = Len(defs) /\ DOMAIN defs = 1..m
  BY <1>1, LenProperties
<1>3. PICK bad \in SUBSET Nat : bad = {i \in DOMAIN defs : DefError(defs, i) # None}
  <2>1. {i \in DOMAIN defs : DefError(defs, i) # None} \in SUBSET Nat
    BY <1>2
  <2> QED
    BY <2>1
<1>4. bad = {}
  <2>1. SUFFICES ASSUME bad # {} PROVE FALSE
    OBVIOUS
  <2>2. PICK x \in bad : \A y \in bad : x <= y
    BY <2>1, LeastNatural
  <2>3. Min(bad) \in bad
    BY <2>2 DEF Min
  <2>4. CatalogError(doc) = "EmptyModel" \/ CatalogError(doc) = DefError(defs, Min(bad))
    BY <1>1, <1>3, <2>1 DEF CatalogError
  <2> QED
    BY <1>3, <2>3, <2>4, NoneAssumption
<1>5. \A i \in DOMAIN defs : DefError(defs, i) = None
  BY <1>3, <1>4
<1>6. ASSUME NEW i \in DOMAIN defs
      PROVE  /\ defs[i] \in GoodDefs
             /\ \A j \in 1..i - 1 : defs[j].id # defs[i].id /\ defs[j].name # defs[i].name
  <2>1. defs[i] \in SignalDefs
    BY ElementOfSeq
  <2>2. /\ SignalError(defs[i]) = None
        /\ ~\E j \in 1..i - 1 : defs[j].id = defs[i].id
        /\ ~\E j \in 1..i - 1 : defs[j].name = defs[i].name
    BY <1>5, NoneAssumption DEF DefError
  <2> QED
    BY <2>1, <2>2 DEF GoodDefs
<1>7. defs \in Seq(GoodDefs)
  BY <1>2, <1>6
<1>8. ASSUME NEW i \in DOMAIN defs, NEW j \in DOMAIN defs,
             defs[i].id = defs[j].id \/ defs[i].name = defs[j].name
      PROVE  i = j
  <2>1. i \in Nat /\ j \in Nat /\ i >= 1 /\ j >= 1
    BY <1>2
  <2>2. ~(i < j)
    <3>1. i < j => i \in 1..j - 1
      BY <2>1
    <3> QED
      BY <1>6, <1>8, <3>1
  <2>3. ~(j < i)
    <3>1. j < i => j \in 1..i - 1
      BY <2>1
    <3> QED
      BY <1>6, <1>8, <3>1
  <2> QED
    BY <2>1, <2>2, <2>3
<1> QED
  BY <1>1, <1>7, <1>8

\* The tables of an accepted catalog find every signal, and nothing else.
LEMMA CatalogFacts ==
  ASSUME NEW cat \in Catalogs
  PROVE  /\ cat.signals \in Seq({NewSignal(d) : d \in GoodDefs})
         /\ \A i \in DOMAIN cat.signals :
              LET s == cat.signals[i]
              IN  ById(cat, s.def.id) = s /\ ByName(cat, s.def.name) = s
         /\ \A id : ById(cat, id) # None =>
              \E i \in DOMAIN cat.signals :
                 ById(cat, id) = cat.signals[i] /\ cat.signals[i].def.id = id
         /\ \A i, j \in DOMAIN cat.signals :
              cat.signals[i].def.id = cat.signals[j].def.id => i = j
<1>1. PICK doc \in Docs : CatalogError(doc) = None /\ cat = NewCatalog(doc)
  BY DEF Catalogs
<1>2. PICK defs \in Seq(GoodDefs) :
        /\ defs = doc.signals
        /\ \A i, j \in DOMAIN defs :
             (defs[i].id = defs[j].id \/ defs[i].name = defs[j].name) => i = j
  BY <1>1, AcceptedDefs
<1>3. /\ cat.signals = [i \in DOMAIN defs |-> NewSignal(defs[i])]
      /\ cat.by_id = [x \in {defs[i].id : i \in DOMAIN defs} |->
                        CHOOSE i \in DOMAIN defs : defs[i].id = x]
      /\ cat.by_name = [n \in {defs[i].name : i \in DOMAIN defs} |->
                          CHOOSE i \in DOMAIN defs : defs[i].name = n]
  BY <1>1, <1>2 DEF NewCatalog
<1>4. cat.signals \in Seq({NewSignal(d) : d \in GoodDefs})
  <2>1. PICK m \in Nat : DOMAIN defs = 1..m
    BY LenProperties
  <2>2. \A i \in 1..m : defs[i] \in GoodDefs
    BY <2>1, ElementOfSeq
  <2>3. PICK N : N = {NewSignal(d) : d \in GoodDefs}
    OBVIOUS
  <2>4. \A i \in 1..m : NewSignal(defs[i]) \in N
    BY <2>2, <2>3
  <2>5. PICK g : g = [i \in 1..m |-> NewSignal(defs[i])]
    OBVIOUS
  <2>6. g \in [1..m -> N]
    BY <2>4, <2>5
  <2>7. g \in Seq(N)
    BY <2>6
  <2>8. cat.signals = g
    BY <1>3, <2>1, <2>5
  <2> QED
    BY <2>3, <2>7, <2>8
<1>5. DOMAIN cat.signals = DOMAIN defs /\ \A i \in DOMAIN defs : cat.signals[i].def = defs[i]
  BY <1>3 DEF NewSignal
<1>6. ASSUME NEW i \in DOMAIN defs
      PROVE  /\ ById(cat, defs[i].id) = cat.signals[i]
             /\ ByName(cat, defs[i].name) = cat.signals[i]
  <2>1. (CHOOSE k \in DOMAIN defs : defs[k].id = defs[i].id) = i
    BY <1>2
  <2>2. (CHOOSE k \in DOMAIN defs : defs[k].name = defs[i].name) = i
    BY <1>2
  <2>3. cat.by_id[defs[i].id] = i /\ defs[i].id \in DOMAIN cat.by_id
    BY <1>3, <2>1
  <2>4. cat.by_name[defs[i].name] = i /\ defs[i].name \in DOMAIN cat.by_name
    BY <1>3, <2>2
  <2> QED
    BY <2>3, <2>4 DEF ById, ByName
<1>7. ASSUME NEW id, ById(cat, id) # None
      PROVE  \E i \in DOMAIN defs : ById(cat, id) = cat.signals[i] /\ defs[i].id = id
  <2>1. id \in DOMAIN cat.by_id
    BY <1>7 DEF ById
  <2>2. PICK i \in DOMAIN defs : defs[i].id = id
    BY <1>3, <2>1
  <2> QED
    BY <1>6, <2>2
<1> QED
  BY <1>2, <1>4, <1>5, <1>6, <1>7

LEMMA SignalById ==
  ASSUME NEW cat \in Catalogs, NEW j \in DOMAIN cat.signals
  PROVE  ById(cat, cat.signals[j].def.id) = cat.signals[j]
BY CatalogFacts

LEMMA BytesNotNone ==
  ASSUME NEW p \in Seq(Byte)
  PROVE  p # None
<1>1. PICK m \in Nat : m = Len(p) /\ DOMAIN p = 1..m /\ p = [i \in 1..m |-> p[i]]
  BY LenProperties
<1>2. \A i \in 1..m : p[i] \in Int
  <2>1. \A i \in 1..m : p[i] \in Byte
    BY <1>1, ElementOfSeq
  <2> QED
    BY <2>1, WidthAssumption DEF Byte
<1>3. p \in Seq(Int)
  <2>1. [i \in 1..m |-> p[i]] \in Seq(Int)
    BY <1>2
  <2> QED
    BY <1>1, <2>1
<1> QED
  BY <1>3, NoneAssumption

\* What an enum is encoded to and decoded from.
LEMMA EnumPayload ==
  ASSUME NEW d \in GoodDefs, NEW s, s = NewSignal(d), d.enum # None, NEW i \in DOMAIN d.enum
  PROVE  LET sent_as == EncodeValue(s, Value("Enum", d.enum[i].label))
             payload == Bytes(d.ty, Endian(s), d.enum[i].raw)
             label == EnumLabel(s, d.enum[i].raw)
         IN  /\ sent_as = Ok(payload)
             /\ DecodeValue(s, payload) = Ok(Value("Enum", label))
             /\ EnumRaw(s, label) = d.enum[i].raw
<1> DEFINE raw == d.enum[i].raw
           payload == Bytes(d.ty, Endian(s), raw)
           label == EnumLabel(s, raw)
<1>1. /\ d.ty \in Integral /\ d.ty # "bool"
      /\ raw \in WireRange(d.ty) /\ raw \in Int
      /\ EnumRaw(s, d.enum[i].label) = raw /\ label # None
  BY EnumFacts
<1>2. PICK j \in DOMAIN d.enum : d.enum[j].raw = raw /\ d.enum[j].label = label
  BY <1>1, EnumFacts
<1>3. EnumRaw(s, label) = raw
  BY <1>2, EnumFacts
<1>4. s.def = d
  BY DEF NewSignal
<1>5. Kind(s) = "Enum"
  BY <1>1, <1>4 DEF Kind
<1>6. payload \in Seq(Byte) /\ Len(payload) = Size(d.ty) /\ payload # None
  <2>1. d.ty \in DOMAIN Sizes
    BY <1>1 DEF Integral
  <2>2. payload \in Seq(Byte) /\ Len(payload) = Size(d.ty)
    BY <1>1, <2>1, BytesType
  <2> QED
    BY <2>2, BytesNotNone
<1>7. WriteInt(d.ty, Endian(s), raw) = payload
  BY <1>1 DEF WriteInt, WireRange
<1>8. EncodeValue(s, Value("Enum", d.enum[i].label)) = Ok(payload)
  BY <1>1, <1>4, <1>5, <1>6, <1>7, NoneAssumption DEF EncodeValue, Value, OrOutOfRange
<1>9. ReadRaw(d.ty, Endian(s), payload) = raw
  BY <1>1, ReadOfWritten
<1>10. DecodeValue(s, payload) = Ok(Value("Enum", label))
  BY <1>1, <1>4, <1>5, <1>6, <1>9 DEF DecodeValue
<1> QED
  BY <1>3, <1>8, <1>10

LEMMA UsableCatalog == catalog \in Catalogs => CatalogUsable
<1> SUFFICES ASSUME catalog \in Catalogs, NEW i \in DOMAIN catalog.signals,
                    NEW s, s = catalog.signals[i]
             PROVE  /\ ById(catalog, s.def.id) = s /\ ByName(catalog, s.def.name) = s
                    /\ \A e \in DOMAIN Entries(s.def) :
                         LET sent_as == EncodeValue(s, Value("Enum", s.def.enum[e].label))
                             got == DecodeValue(s, sent_as.ok)
                         IN  /\ sent_as.err = None
                             /\ EnumRaw(s, got.ok.v) = s.def.enum[e].raw
  BY DEF CatalogUsable
<1>1. ById(catalog, s.def.id) = s /\ ByName(catalog, s.def.name) = s
  BY CatalogFacts
<1>2. PICK d \in GoodDefs : s = NewSignal(d)
  <2>1. catalog.signals \in Seq({NewSignal(d) : d \in GoodDefs})
    BY CatalogFacts
  <2>2. i \in 1..Len(catalog.signals)
    BY <2>1, LenProperties
  <2> QED
    BY <2>1, <2>2, ElementOfSeq
<1>3. s.def = d
  BY <1>2 DEF NewSignal
<1>4. ASSUME NEW e \in DOMAIN Entries(d)
      PROVE  LET sent_as == EncodeValue(s, Value("Enum", d.enum[e].label))
                 got == DecodeValue(s, sent_as.ok)
             IN  /\ sent_as.err = None
                 /\ EnumRaw(s, got.ok.v) = d.enum[e].raw
  <2>1. d.enum # None /\ e \in DOMAIN d.enum
    BY <1>4 DEF Entries
  <2>2. /\ EncodeValue(s, Value("Enum", d.enum[e].label))
             = Ok(Bytes(d.ty, Endian(s), d.enum[e].raw))
        /\ DecodeValue(s, Bytes(d.ty, Endian(s), d.enum[e].raw))
             = Ok(Value("Enum", EnumLabel(s, d.enum[e].raw)))
        /\ EnumRaw(s, EnumLabel(s, d.enum[e].raw)) = d.enum[e].raw
    BY <1>2, <2>1, EnumPayload
  <2> QED
    BY <2>2 DEF Ok, Value
<1> QED
  BY <1>1, <1>3, <1>4

\* Every signal of an accepted catalog is found under its id and its name, and
\* every label of an enum survives the wire: what Signal::new and Catalog::new
\* validate is enough for encode_value and decode_value.
THEOREM CatalogsAreUsable == Spec => []CatalogUsable
<1>1. Init => catalog \in Catalogs
  BY DEF Init
<1>2. catalog \in Catalogs /\ [Next]_vars => (catalog \in Catalogs)'
  BY DEF Next, Send, SendRandom, Decode, Header, FrameTruncated, FrameRead, Finish,
     Arrives, vars, wireVars
<1>3. catalog \in Catalogs => CatalogUsable
  BY UsableCatalog
<1> QED
  BY <1>1, <1>2, <1>3, PTL DEF Spec
-----------------------------------------------------------------------------
(* What is encoded *)

LEMMA SignalFacts ==
  ASSUME catalog \in Catalogs, NEW i \in DOMAIN catalog.signals
  PROVE  \E d \in GoodDefs : catalog.signals[i] = NewSignal(d) /\ catalog.signals[i].def = d
<1>1. catalog.signals \in Seq({NewSignal(d) : d \in GoodDefs})
  BY CatalogFacts
<1>2. i \in 1..Len(catalog.signals)
  BY <1>1, LenProperties
<1>3. PICK d \in GoodDefs : catalog.signals[i] = NewSignal(d)
  BY <1>1, <1>2, ElementOfSeq
<1> QED
  BY <1>3 DEF NewSignal

\* The signals of the catalog that the simulator knows.
Known == {catalog.signals[i] : i \in {j \in DOMAIN catalog.signals :
                                        catalog.signals[j].def.name \in DOMAIN Readings}}

LEMMA SimulatedFacts ==
  ASSUME catalog \in Catalogs
  PROVE  Simulated \in Seq(Known)
<1>1. PICK signals : signals = catalog.signals
  OBVIOUS
<1>2. PICK m \in Nat : m = Len(signals) /\ DOMAIN signals = 1..m
  <2>1. signals \in Seq({NewSignal(d) : d \in GoodDefs})
    BY <1>1, CatalogFacts
  <2> QED
    BY <2>1, LenProperties
<1> DEFINE After(y, i) == IF signals[i].def.name \in DOMAIN Readings
                          THEN Append(y, signals[i]) ELSE y
           h == [x \in Seq(Known) \X (1..m) |-> After(x[1], x[2])]
<1>3. \A y \in Seq(Known), i \in 1..m : After(y, i) \in Seq(Known)
  <2> SUFFICES ASSUME NEW y \in Seq(Known), NEW i \in 1..m PROVE After(y, i) \in Seq(Known)
    OBVIOUS
  <2>1. CASE signals[i].def.name \in DOMAIN Readings
    <3>1. signals[i] \in Known
      BY <1>1, <1>2, <2>1 DEF Known
    <3>2. Append(y, signals[i]) \in Seq(Known)
      BY <3>1, AppendProperties
    <3> QED
      BY <2>1, <3>2
  <2>2. CASE signals[i].def.name \notin DOMAIN Readings
    BY <2>2
  <2> QED
    BY <2>1, <2>2
<1>4. h \in Table(Seq(Known), m)
  <2>1. \A x \in Seq(Known) \X (1..m) : After(x[1], x[2]) \in Seq(Known)
    BY <1>3
  <2> HIDE DEF After
  <2> QED
    BY <2>1 DEF Table
<1>5. \A y \in Seq(Known), i \in 1..m : h[<<y, i>>] = After(y, i)
  OBVIOUS
<1> HIDE DEF h, After
<1>6. <<>> \in Seq(Known)
  OBVIOUS
<1>7. PICK k \in [0..m -> Seq(Known)] : k[0] = <<>> /\ Follows(k, h, m)
  BY <1>4, <1>6, Iterate
<1>8. ASSUME NEW i \in 1..m
      PROVE  k[i] = After(k[i - 1], i)
  <2>1. k[i - 1] \in Seq(Known)
    OBVIOUS
  <2> QED
    BY <1>5, <1>7, <2>1 DEF Follows
<1>9. k = [i \in 0..m |-> IF i = 0 THEN <<>> ELSE After(k[i - 1], i)]
  BY <1>7, <1>8
<1> DEFINE g == CHOOSE f : f = [i \in 0..m |-> IF i = 0 THEN <<>> ELSE After(f[i - 1], i)]
<1>10. g = [i \in 0..m |-> IF i = 0 THEN <<>> ELSE After(g[i - 1], i)]
  BY <1>9
<1>11. Simulated = g[m]
  BY <1>1, <1>2 DEF Simulated, After
<1> HIDE DEF g
<1>12. g[0] = k[0] /\ GoesAlong(g, k, m)
  <2>1. g[0] = <<>> /\ \A i \in 1..m : g[i] = After(g[i - 1], i)
    BY <1>10
  <2> QED
    BY <1>7, <1>8, <2>1 DEF GoesAlong
<1>13. \A i \in 0..m : g[i] = k[i]
  BY <1>12, SameValues
<1> QED
  BY <1>11, <1>13

\* Products keep the order of their factors.
LEMMA Monotone ==
  ASSUME NEW x \in Int, NEW y \in Int, NEW z \in Nat
  PROVE  /\ x * z \in Int /\ y * z \in Int
         /\ x <= y => x * z <= y * z
         /\ x * z < y * z => x < y
         /\ z > 0 /\ x * z <= y * z => x <= y
         /\ z > 0 /\ x < y => x * z < y * z
<1>1. ASSUME NEW a \in Int, NEW b \in Int, a <= b
      PROVE  a * z <= b * z
  <2>1. PICK k \in Nat : b = a + k
    <3>1. b - a \in Nat /\ b = a + (b - a)
      BY <1>1
    <3> QED
      BY <3>1
  <2>2. b * z = a * z + k * z /\ k * z \in Nat /\ a * z \in Int
    BY <2>1
  <2> QED
    BY <2>2
<1>2. x * z \in Int /\ y * z \in Int
  OBVIOUS
<1>3. x <= y => x * z <= y * z
  BY <1>1
<1>4. y <= x => y * z <= x * z
  BY <1>1
<1>5. ASSUME z > 0, x < y
      PROVE  x * z < y * z
  <2>1. (x + 1) * z <= y * z
    BY <1>1, <1>5
  <2>2. (x + 1) * z = x * z + z
    OBVIOUS
  <2> QED
    BY <1>2, <1>5, <2>1, <2>2
<1>6. ASSUME z > 0, y < x
      PROVE  y * z < x * z
  <2>1. (y + 1) * z <= x * z
    BY <1>1, <1>6
  <2>2. (y + 1) * z = y * z + z
    OBVIOUS
  <2> QED
    BY <1>2, <1>6, <2>1, <2>2
<1> QED
  BY <1>2, <1>3, <1>4, <1>5, <1>6

\* A size that every smaller distance divides, and every larger one has below
\* its half.
Grid(K) ==
  /\ K \in Nat \ {0}
  /\ \A u \in Ulps : IF u <= K THEN \E j \in Nat : K = u * j
                     ELSE \E h \in Ulps : u = 2 * h /\ K <= h

LEMMA Ulps1 ==
  /\ Ulps \subseteq Nat \ {0} /\ 1 \in Ulps /\ ONE \in Ulps
  /\ \A u \in Ulps : u # 1 => \E h \in Ulps : u = 2 * h
<1>1. /\ Ulps \subseteq Nat \ {0} /\ 1 \in Ulps /\ ONE \in Ulps
      /\ \A u \in Ulps \ {1} : u \div 2 \in Ulps /\ u % 2 = 0
  BY FloatAssumption
<1>2. ASSUME NEW u \in Ulps, u # 1
      PROVE  \E h \in Ulps : u = 2 * h
  <2>1. u \in Nat /\ u \div 2 \in Ulps /\ u % 2 = 0
    BY <1>1, <1>2
  <2>2. u = 2 * (u \div 2)
    BY <2>1
  <2> QED
    BY <2>1, <2>2
<1> QED
  BY <1>1, <1>2

LEMMA UlpGrid ==
  ASSUME NEW w \in Ulps
  PROVE  Grid(w)
<1>1. w \in Nat \ {0}
  BY Ulps1
<1>2. ASSUME NEW u \in Ulps, NEW v \in Ulps, u <= v
      PROVE  \E j \in Nat : v = u * j
  <2>1. v % u = 0 /\ u \in Nat \ {0} /\ v \in Nat
    BY <1>2, FloatAssumption, Ulps1
  <2>2. (v \div u) * u + (v % u) = v /\ v \div u \in Nat
    BY <2>1, DivFacts
  <2>3. PICK j \in Nat : j = v \div u
    BY <2>2
  <2>4. v = u * j
    BY <2>1, <2>2, <2>3
  <2> QED
    BY <2>4
<1>3. ASSUME NEW u \in Ulps, ~(u <= w)
      PROVE  \E h \in Ulps : u = 2 * h /\ w <= h
  <2>1. u \in Nat \ {0} /\ u # 1
    BY <1>1, <1>3, Ulps1
  <2>2. PICK h \in Ulps : u = 2 * h
    BY <2>1, Ulps1
  <2>3. h \in Nat \ {0}
    BY Ulps1
  <2>4. ASSUME h < w
        PROVE  FALSE
    <3>1. PICK j \in Nat : w = h * j
      BY <1>1, <1>2, <2>3, <2>4
    <3>2. j # 0 /\ j # 1
      BY <1>1, <2>3, <2>4, <3>1
    <3>3. 2 * h <= j * h
      BY <2>3, <3>2, Monotone
    <3> QED
      BY <1>1, <1>3, <2>1, <2>2, <2>3, <3>1, <3>3
  <2> QED
    BY <1>1, <2>2, <2>3, <2>4
<1> QED
  BY <1>1, <1>2, <1>3 DEF Grid

LEMMA DoubleGrid ==
  ASSUME NEW K, Grid(K)
  PROVE  Grid(2 * K)
<1>1. K \in Nat \ {0}
  BY DEF Grid
<1>2. PICK L \in Nat \ {0} : L = 2 * K
  BY <1>1
<1>3. ASSUME NEW u \in Ulps, u <= L
      PROVE  \E j \in Nat : L = u * j
  <2>1. u \in Nat \ {0}
    BY Ulps1
  <2>2. CASE u <= K
    <3>1. PICK j \in Nat : K = u * j
      BY <2>2 DEF Grid
    <3>2. PICK i \in Nat : i = 2 * j
      OBVIOUS
    <3>3. L = u * i
      BY <1>2, <2>1, <3>1, <3>2
    <3> QED
      BY <3>3
  <2>3. CASE ~(u <= K)
    <3>1. PICK h \in Ulps : u = 2 * h /\ K <= h
      BY <2>3 DEF Grid
    <3>2. h \in Nat
      BY Ulps1
    <3>3. L = u * 1
      BY <1>1, <1>2, <1>3, <2>1, <3>1, <3>2
    <3> QED
      BY <3>3
  <2> QED
    BY <2>2, <2>3
<1>4. ASSUME NEW u \in Ulps, ~(u <= L)
      PROVE  \E h \in Ulps : u = 2 * h /\ L <= h
  <2>1. u \in Nat \ {0} /\ ~(u <= K)
    BY <1>1, <1>2, <1>4, Ulps1
  <2>2. PICK h \in Ulps : u = 2 * h /\ K <= h
    BY <2>1 DEF Grid
  <2>3. h \in Nat \ {0} /\ ~(h <= K)
    BY <1>1, <1>2, <1>4, <2>1, <2>2, Ulps1
  <2>4. PICK g \in Ulps : h = 2 * g /\ K <= g
    BY <2>3 DEF Grid
  <2>5. g \in Nat
    BY Ulps1
  <2> QED
    BY <1>1, <1>2, <2>2, <2>3, <2>4, <2>5
<1> QED
  BY <1>2, <1>3, <1>4 DEF Grid

\* The distance of the floats around x / y.
UlpIs(x, y, u) ==
  /\ u \in Ulps /\ x <= (EXACT * u) * y
  /\ u # 1 => \E h \in Ulps : u = 2 * h /\ x > (EXACT * h) * y

LEMMA UlpFacts ==
  ASSUME NEW x \in Nat, NEW y \in Nat \ {0}, x < (2 * FloatMax) * y
  PROVE  UlpIs(x, y, Ulp(x, y))
<1>1. EXACT \in Nat \ {0} /\ FloatMax \in Nat
  BY FloatAssumption
<1> DEFINE Fits(u) == x <= EXACT * u * y /\ (u = 1 \/ x > EXACT * (u \div 2) * y)
<1>2. PICK S \in SUBSET Nat : S = {u \in Ulps : x <= EXACT * u * y}
  <2>1. {u \in Ulps : x <= EXACT * u * y} \in SUBSET Nat
    BY Ulps1
  <2> QED
    BY <2>1
<1>3. S # {}
  <2>1. PICK u \in Ulps : 2 * FloatMax <= EXACT * u
    BY FloatAssumption
  <2>2. u \in Nat
    BY Ulps1
  <2>3. PICK a \in Nat, b \in Nat : a = 2 * FloatMax /\ b = EXACT * u
    BY <1>1, <2>2
  <2>4. a * y <= b * y /\ a * y \in Int /\ b * y \in Int
    BY <2>1, <2>3, Monotone
  <2>5. x <= EXACT * u * y
    BY <2>3, <2>4
  <2> QED
    BY <1>2, <2>5
<1>4. PICK u \in S : \A z \in S : u <= z
  BY <1>3, LeastNatural
<1>5. u \in Ulps /\ u \in Nat \ {0} /\ x <= EXACT * u * y
  BY <1>2, Ulps1
<1>6. Fits(u)
  <2>1. CASE u = 1
    BY <1>5, <2>1
  <2>2. CASE u # 1
    <3>1. PICK h \in Ulps : u = 2 * h
      BY <1>5, <2>2, Ulps1
    <3>2. h \in Nat \ {0} /\ h = u \div 2 /\ h < u
      BY <1>5, <3>1, Ulps1
    <3>3. h \notin S
      BY <1>4, <3>2
    <3>4. ~(x <= EXACT * h * y)
      BY <1>2, <3>1, <3>3
    <3>5. EXACT * h * y \in Nat
      BY <1>1, <3>2
    <3>6. x > EXACT * h * y
      BY <3>4, <3>5
    <3> QED
      BY <1>5, <3>2, <3>6
  <2> QED
    BY <2>1, <2>2
<1>7. Ulp(x, y) = CHOOSE u_1 \in Ulps : Fits(u_1)
  BY DEF Ulp
<1>8. PICK v : v = Ulp(x, y)
  OBVIOUS
<1>9. v \in Ulps /\ Fits(v)
  <2> HIDE DEF Fits
  <2> QED
    BY <1>5, <1>6, <1>7, <1>8
<1>10. v # 1 => \E h \in Ulps : v = 2 * h /\ x > (EXACT * h) * y
  <2> SUFFICES ASSUME v # 1 PROVE \E h \in Ulps : v = 2 * h /\ x > (EXACT * h) * y
    OBVIOUS
  <2>1. PICK h \in Ulps : v = 2 * h
    BY <1>9, Ulps1
  <2>2. h = v \div 2
    BY <2>1, Ulps1
  <2>3. x > EXACT * (v \div 2) * y
    BY <1>9
  <2> QED
    BY <2>1, <2>2, <2>3
<1> QED
  BY <1>8, <1>9, <1>10 DEF UlpIs

\* A distance is no larger than a size on the grid that the number fits.
LEMMA UlpSmall ==
  ASSUME NEW x \in Nat, NEW y \in Nat \ {0}, NEW u, UlpIs(x, y, u),
         NEW K, Grid(K), x <= (EXACT * K) * y
  PROVE  u <= K /\ \E j \in Nat : K = u * j
<1>1. PICK c \in Nat \ {0} : c = EXACT
  BY FloatAssumption
<1>2. u \in Ulps /\ u \in Nat \ {0} /\ K \in Nat \ {0}
  BY Ulps1 DEF UlpIs, Grid
<1>3. ASSUME ~(u <= K)
      PROVE  FALSE
  <2>1. PICK h \in Ulps : u = 2 * h /\ K <= h
    BY <1>2, <1>3 DEF Grid
  <2>2. u # 1 /\ h \in Nat
    BY <1>2, <1>3, <2>1, Ulps1
  <2>3. PICK g \in Ulps : u = 2 * g /\ x > (c * g) * y
    BY <1>1, <2>2 DEF UlpIs
  <2>4. g = h
    BY <2>1, <2>2, <2>3, Ulps1
  <2>5. K * c <= h * c
    BY <1>1, <1>2, <2>1, <2>2, Monotone
  <2>6. PICK a \in Nat, b \in Nat : a = c * K /\ b = c * h /\ a <= b
    BY <1>2, <2>2, <2>5
  <2>7. a * y <= b * y /\ a * y \in Int /\ b * y \in Int
    BY <2>6, Monotone
  <2> QED
    BY <1>1, <2>3, <2>4, <2>6, <2>7
<1> QED
  BY <1>2, <1>3 DEF Grid
LEMMA Signs ==
  ASSUME NEW a \in Int, NEW b \in Int
  PROVE  /\ a * b \in Int
         /\ a > 0 /\ b > 0 => a * b > 0
         /\ a < 0 /\ b < 0 => a * b > 0
         /\ a > 0 /\ b < 0 => a * b < 0
         /\ a < 0 /\ b > 0 => a * b < 0
         /\ a = 0 => a * b = 0
<1>1. ASSUME NEW x \in Int, NEW y \in Int, x > 0, y > 0
      PROVE  x * y > 0
  <2>1. PICK k \in Nat : x = k + 1
    <3>1. x - 1 \in Nat
      BY <1>1
    <3> QED
      BY <3>1
  <2>2. x * y = k * y + y /\ k * y \in Nat
    BY <1>1, <2>1
  <2> QED
    BY <1>1, <2>2
<1>2. PICK c \in Int, d \in Int : c = -a /\ d = -b
  OBVIOUS
<1>3. a * d = -(a * b) /\ c * b = -(a * b) /\ c * d = a * b
  BY <1>2
<1>4. a * b \in Int
  OBVIOUS
<1>5. CASE a > 0 /\ b > 0
  BY <1>1, <1>4, <1>5
<1>6. CASE a < 0 /\ b < 0
  BY <1>1, <1>2, <1>3, <1>4, <1>6
<1>7. CASE a > 0 /\ b < 0
  <2>1. a * d > 0
    BY <1>1, <1>2, <1>7
  <2> QED
    BY <1>3, <1>4, <1>7, <2>1
<1>8. CASE a < 0 /\ b > 0
  <2>1. c * b > 0
    BY <1>1, <1>2, <1>8
  <2> QED
    BY <1>3, <1>4, <1>8, <2>1
<1>9. CASE a = 0 \/ b = 0
  BY <1>9
<1> QED
  BY <1>5, <1>6, <1>7, <1>8, <1>9

LEMMA Products ==
  ASSUME NEW b \in Int \ {0}, NEW x \in Int
  PROVE  /\ x * b \in Int /\ Abs(x) <= Abs(x * b)
         /\ \A y \in Int : x * b = y * b => x = y
         /\ \A l \in Nat : -l < x /\ x < l => Abs(x * b) < l * Abs(b)
<1>1. \A y \in Int : x * b = y * b => x = y
  <2> SUFFICES ASSUME NEW y \in Int, x * b = y * b PROVE x = y
    OBVIOUS
  <2>1. PICK z \in Int : z = x - y
    OBVIOUS
  <2>2. z * b = 0
    <3>1. z * b = x * b - y * b
      BY <2>1
    <3> QED
      BY <3>1
  <2>3. ~(z > 0) /\ ~(z < 0)
    BY <2>2, Signs
  <2> QED
    BY <2>1, <2>3
<1>2. PICK c \in Nat \ {0} : c = Abs(b)
  BY DEF Abs
<1>3. PICK a \in Nat : a = Abs(x)
  BY DEF Abs
<1>4. x * b \in Int /\ Abs(x * b) = a * c
  <2>1. CASE b > 0 /\ x >= 0
    BY <1>2, <1>3, <2>1, Signs DEF Abs
  <2>2. CASE b > 0 /\ x < 0
    BY <1>2, <1>3, <2>2, Signs DEF Abs
  <2>3. CASE b < 0 /\ x > 0
    BY <1>2, <1>3, <2>3, Signs DEF Abs
  <2>4. CASE b < 0 /\ x < 0
    BY <1>2, <1>3, <2>4, Signs DEF Abs
  <2>5. CASE b < 0 /\ x = 0
    BY <1>2, <1>3, <2>5, Signs DEF Abs
  <2> QED
    BY <2>1, <2>2, <2>3, <2>4, <2>5
<1>5. a <= a * c
  OBVIOUS
<1>6. \A l \in Nat : a < l => a * c < l * c
  <2> SUFFICES ASSUME NEW l \in Nat, a < l PROVE a * c < l * c
    OBVIOUS
  <2>1. PICK z \in Int : z = l - a
    OBVIOUS
  <2>2. z * c > 0
    BY <2>1, Signs
  <2>3. z * c = l * c - a * c
    BY <2>1
  <2> QED
    BY <2>2, <2>3
<1>7. \A l \in Nat : -l < x /\ x < l => a < l
  BY <1>3 DEF Abs
<1> QED
  BY <1>1, <1>2, <1>3, <1>4, <1>5, <1>6, <1>7


\* The multiple k of the distance u that is nearest to x / y.
Rounds(x, y, u, k) ==
  /\ k \in Nat
  /\ 2 * ((u * k) * y) <= 2 * x + u * y /\ 2 * x <= 2 * ((u * k) * y) + u * y
  /\ \A j \in Nat : /\ x <= (u * j) * y => k <= j
                    /\ x >= (u * j) * y => k >= j

LEMMA ToEvenFacts ==
  ASSUME NEW x \in Nat, NEW y \in Nat \ {0}, NEW u \in Nat \ {0}
  PROVE  \E k \in Nat : ToEven(x, y, u) = u * k /\ Rounds(x, y, u, k)
<1>1. PICK t \in Nat \ {0} : t = u * y
  <2>1. u * y \in Nat \ {0}
    OBVIOUS
  <2> QED
    BY <2>1
<1>2. PICK q \in Nat, r \in 0..t - 1 : q = x \div t /\ r = x % t /\ q * t + r = x
  BY DivFacts
<1>3. PICK k \in Nat : k = (IF 2 * r > t \/ (2 * r = t /\ q % 2 = 1) THEN q + 1 ELSE q)
  OBVIOUS
<1>4. ToEven(x, y, u) = u * k
  BY <1>1, <1>2, <1>3 DEF ToEven
<1>5. ASSUME NEW j \in Nat
      PROVE  (u * j) * y = j * t /\ j * t \in Nat
  BY <1>1
<1>6. PICK kt \in Nat, qt \in Nat : kt = k * t /\ qt = q * t
  BY <1>5
<1>7. (k = q /\ 2 * r <= t /\ kt = qt) \/ (k = q + 1 /\ 2 * r >= t /\ kt = qt + t)
  <2>1. (q + 1) * t = q * t + t
    OBVIOUS
  <2> QED
    BY <1>2, <1>3, <1>6, <2>1
<1>8. 2 * kt <= 2 * x + t /\ 2 * x <= 2 * kt + t
  BY <1>2, <1>6, <1>7
<1>9. ASSUME NEW j \in Nat
      PROVE  /\ x <= j * t => k <= j
             /\ x >= j * t => k >= j
  <2>1. PICK jt \in Nat : jt = j * t
    BY <1>5
  <2>2. ASSUME x <= jt, k > j
        PROVE  FALSE
    <3>1. (j + 1) * t <= k * t
      BY <2>2, Monotone
    <3>2. (j + 1) * t = jt + t
      BY <2>1
    <3>3. k = q
      <4>1. k = q + 1 => j * t >= q * t
        <5>1. x >= qt
          BY <1>2, <1>6
        <5> QED
          BY <1>6, <2>1, <2>2, <5>1
      <4>2. k = q + 1 => r = 0
        BY <1>2, <1>6, <2>1, <2>2, <4>1
      <4> QED
        BY <1>2, <1>7, <4>2
    <3>4. jt + t <= qt
      BY <1>6, <1>7, <3>1, <3>2, <3>3
    <3> QED
      BY <1>2, <1>6, <2>2, <3>4
  <2>3. ASSUME x >= jt, k < j
        PROVE  FALSE
    <3>1. (k + 1) * t <= j * t
      BY <2>3, Monotone
    <3>2. (k + 1) * t = kt + t
      BY <1>6
    <3>3. kt + t <= x
      BY <2>1, <2>3, <3>1, <3>2
    <3> QED
      BY <1>2, <1>6, <1>7, <3>3
  <2> QED
    BY <2>1, <2>2, <2>3
<1>10. Rounds(x, y, u, k)
  <2>1. \A j \in Nat : /\ x <= (u * j) * y => k <= j
                       /\ x >= (u * j) * y => k >= j
    BY <1>5, <1>9
  <2>2. (u * k) * y = kt /\ u * y = t
    BY <1>1, <1>5, <1>6
  <2> QED
    BY <1>8, <2>1, <2>2 DEF Rounds
<1> QED
  BY <1>4, <1>10

LEMMA AbsFacts ==
  ASSUME NEW x \in Int
  PROVE  /\ Abs(x) \in Nat /\ (x = Abs(x) \/ x = -Abs(x)) /\ Abs(-x) = Abs(x)
         /\ x >= 0 => Abs(x) = x
         /\ \A k \in Int : Abs(x) <= k <=> (-k <= x /\ x <= k)
BY DEF Abs

LEMMA AbsProduct ==
  ASSUME NEW x \in Int, NEW b \in Int
  PROVE  x * b \in Int /\ Abs(x * b) = Abs(x) * Abs(b)
<1>1. PICK a \in Nat, c \in Nat : a = Abs(x) /\ c = Abs(b)
  BY AbsFacts
<1>2. PICK p \in Nat : p = a * c
  OBVIOUS
<1>3. x * b = p \/ x * b = -p
  <2>1. (x = a \/ x = -a) /\ (b = c \/ b = -c)
    BY <1>1, AbsFacts
  <2>2. a * c = p /\ (-a) * c = -p /\ a * (-c) = -p /\ (-a) * (-c) = p
    BY <1>2
  <2> QED
    BY <2>1, <2>2
<1> QED
  BY <1>1, <1>2, <1>3 DEF Abs

\* What an operation returns whose exact result a / b is not too large: the
\* multiple of the distance, unless that is too large.
Returns(a, b, u, k) ==
  LET x == Abs(a)
      y == Abs(b)
  IN  /\ UlpIs(x, y, u) /\ Rounds(x, y, u, k)
      /\ IF u * k > FloatMax THEN F64(a, b) = NonFinite
         ELSE /\ F64(a, b) \in Int /\ Abs(F64(a, b)) = u * k
              /\ Abs(F64(a, b) * b - a) = Abs((u * k) * y - x)

LEMMA F64Parts ==
  ASSUME NEW a \in Int, NEW b \in Int \ {0}
  PROVE  /\ F64(a, b) \in Int \cup {NonFinite}
         /\ F64(a, b) \in Int \/ Abs(a) < (2 * FloatMax) * Abs(b) =>
              \E u \in Ulps, k \in Nat : Returns(a, b, u, k)
<1>1. PICK x \in Nat : x = Abs(a) /\ (a >= 0 => a = x) /\ (a < 0 => a = -x)
  BY DEF Abs
<1>2. PICK y \in Nat \ {0} : y = Abs(b) /\ (b >= 0 => b = y) /\ (b < 0 => b = -y)
  BY DEF Abs
<1>3. PICK m \in Nat : m = 2 * FloatMax /\ FloatMax \in Nat
  BY FloatAssumption
<1>4. x \div y < m <=> x < m * y
  <2>1. x \div y \in Nat /\ x % y \in 0..y - 1 /\ (x \div y) * y + (x % y) = x
    BY DivFacts
  <2>2. PICK q \in Nat, r \in 0..y - 1 : q = x \div y /\ r = x % y /\ q * y + r = x
    BY <2>1
  <2>3. x < m * y => q < m
    BY <2>2, DivFacts
  <2>4. q < m => x < m * y
    <3> SUFFICES ASSUME q < m PROVE x < m * y
      OBVIOUS
    <3>1. (q + 1) * y <= m * y
      BY Monotone
    <3>2. (q + 1) * y = q * y + y /\ q * y \in Nat /\ m * y \in Nat
      OBVIOUS
    <3> QED
      BY <2>2, <3>1, <3>2
  <2> QED
    BY <2>2, <2>3, <2>4
<1>5. F64(a, b) = IF x \div y >= m \/ ToEven(x, y, Ulp(x, y)) > FloatMax THEN NonFinite
                  ELSE IF (a < 0) # (b < 0) THEN -ToEven(x, y, Ulp(x, y))
                  ELSE ToEven(x, y, Ulp(x, y))
  BY <1>1, <1>2, <1>3 DEF F64
<1>6. x \div y \in Nat
  BY DivFacts
<1>7. CASE ~(x < m * y)
  <2>1. F64(a, b) = NonFinite
    BY <1>3, <1>4, <1>5, <1>6, <1>7
  <2> QED
    BY <1>1, <1>2, <1>3, <1>7, <2>1, NoneAssumption
<1>8. CASE x < m * y
  <2>1. PICK u \in Ulps : u = Ulp(x, y) /\ UlpIs(x, y, u)
    <3>1. UlpIs(x, y, Ulp(x, y))
      BY <1>3, <1>8, UlpFacts
    <3> QED
      BY <3>1 DEF UlpIs
  <2>2. u \in Nat \ {0}
    BY Ulps1
  <2>3. PICK k \in Nat : ToEven(x, y, u) = u * k /\ Rounds(x, y, u, k)
    BY <2>2, ToEvenFacts
  <2>4. PICK f \in Nat : f = u * k
    BY <2>2
  <2>5. F64(a, b) = IF f > FloatMax THEN NonFinite
                    ELSE IF (a < 0) # (b < 0) THEN -f ELSE f
    BY <1>3, <1>4, <1>5, <1>6, <1>8, <2>1, <2>3, <2>4
  <2>6. ASSUME ~(f > FloatMax)
        PROVE  /\ F64(a, b) \in Int /\ Abs(F64(a, b)) = f
               /\ Abs(F64(a, b) * b - a) = Abs(f * y - x)
    <3>1. PICK z \in Int : z = F64(a, b) /\ z = IF (a < 0) # (b < 0) THEN -f ELSE f
      BY <2>5, <2>6
    <3>2. PICK p \in Nat : p = f * y
      OBVIOUS
    <3>3. f * (-y) = -p /\ (-f) * y = -p /\ (-f) * (-y) = p
      BY <3>2
    <3>4. z * b - a = p - x \/ z * b - a = x - p
      <4>1. CASE a < 0 /\ b < 0
        <5>1. z = f /\ b = -y /\ a = -x
          BY <1>1, <1>2, <3>1, <4>1
        <5>2. z * b = -p
          BY <3>3, <5>1
        <5> QED
          BY <5>1, <5>2
      <4>2. CASE a < 0 /\ b >= 0
        <5>1. z = -f /\ b = y /\ a = -x
          BY <1>1, <1>2, <3>1, <4>2
        <5>2. z * b = -p
          BY <3>3, <5>1
        <5> QED
          BY <5>1, <5>2
      <4>3. CASE a >= 0 /\ b < 0
        BY <1>1, <1>2, <3>1, <3>2, <3>3, <4>3
      <4>4. CASE a >= 0 /\ b >= 0
        BY <1>1, <1>2, <3>1, <3>2, <3>3, <4>4
      <4> QED
        BY <4>1, <4>2, <4>3, <4>4
    <3>5. Abs(z * b - a) = Abs(p - x)
      BY <3>2, <3>4 DEF Abs
    <3> QED
      BY <3>1, <3>2, <3>5 DEF Abs
  <2>7. Returns(a, b, u, k)
    BY <1>1, <1>2, <2>1, <2>3, <2>4, <2>5, <2>6 DEF Returns
  <2> QED
    BY <2>4, <2>5, <2>7
<1> QED
  BY <1>7, <1>8

\* Near: how far a result is from the exact one, and how large it can be.
LEMMA F64Near ==
  ASSUME NEW a \in Int, NEW b \in Int \ {0}, NEW K, Grid(K),
         Abs(a) <= (EXACT * K) * Abs(b), F64(a, b) \in Int
  PROVE  /\ 2 * Abs(F64(a, b) * b - a) <= K * Abs(b)
         /\ Abs(F64(a, b)) <= EXACT * K
<1>1. PICK x \in Nat, y \in Nat \ {0} : x = Abs(a) /\ y = Abs(b)
  BY DEF Abs
<1>2. PICK c \in Nat \ {0} : c = EXACT
  BY FloatAssumption
<1>3. PICK u \in Ulps, k \in Nat : Returns(a, b, u, k)
  BY F64Parts
<1>4. u \in Nat \ {0} /\ K \in Nat \ {0}
  BY Ulps1 DEF Grid
<1>5. UlpIs(x, y, u) /\ Rounds(x, y, u, k)
  BY <1>1, <1>3 DEF Returns
<1>6. u <= K /\ \E j \in Nat : K = u * j
  BY <1>1, <1>5, UlpSmall
<1>7. PICK j \in Nat : K = u * j
  BY <1>6
<1>8. /\ Abs(F64(a, b)) = u * k
      /\ Abs(F64(a, b) * b - a) = Abs((u * k) * y - x)
  BY <1>1, <1>3, NoneAssumption DEF Returns
<1>9. PICK p \in Nat, t \in Nat, s \in Nat : p = (u * k) * y /\ t = u * y /\ s = K * y
  BY <1>4
<1>10. t <= s
  BY <1>1, <1>4, <1>6, <1>9, Monotone
<1>11. 2 * p <= 2 * x + t /\ 2 * x <= 2 * p + t
  BY <1>5, <1>9 DEF Rounds
<1>12. 2 * Abs(p - x) <= s
  BY <1>1, <1>9, <1>10, <1>11 DEF Abs
<1>13. u * k <= c * K
  <2>1. PICK n \in Nat : n = c * j
    BY <1>2
  <2>2. c * K = u * n
    BY <1>2, <1>4, <1>7, <2>1
  <2>3. x <= (u * n) * y
    BY <1>1, <1>2, <2>2
  <2>4. k <= n
    BY <1>5, <2>3 DEF Rounds
  <2>5. k * u <= n * u
    BY <1>4, <2>4, Monotone
  <2> QED
    BY <1>4, <2>2, <2>5
<1> QED
  BY <1>1, <1>2, <1>8, <1>9, <1>12, <1>13

\* The exact result is not far from a result of that size.
LEMMA F64Back ==
  ASSUME NEW a \in Int, NEW b \in Int \ {0}, NEW K, Grid(K),
         F64(a, b) \in Int, Abs(F64(a, b)) <= EXACT * K
  PROVE  Abs(F64(a, b) * b - a) <= K * Abs(b)
<1>1. PICK x \in Nat, y \in Nat \ {0} : x = Abs(a) /\ y = Abs(b)
  BY DEF Abs
<1>2. PICK c \in Nat : c = EXACT /\ c >= 8
  BY FloatAssumption
<1>3. PICK u \in Ulps, k \in Nat : Returns(a, b, u, k)
  BY F64Parts
<1>4. u \in Nat \ {0} /\ K \in Nat \ {0}
  BY Ulps1 DEF Grid
<1>5. UlpIs(x, y, u) /\ Rounds(x, y, u, k)
  BY <1>1, <1>3 DEF Returns
<1>8. /\ Abs(F64(a, b)) = u * k
      /\ Abs(F64(a, b) * b - a) = Abs((u * k) * y - x)
  BY <1>1, <1>3, NoneAssumption DEF Returns
<1>9. PICK p \in Nat, t \in Nat, s \in Nat : p = (u * k) * y /\ t = u * y /\ s = K * y
  BY <1>4
<1>11. 2 * p <= 2 * x + t /\ 2 * x <= 2 * p + t
  BY <1>5, <1>9 DEF Rounds
<1>12. u <= 2 * K
  <2> SUFFICES ASSUME ~(u <= 2 * K) PROVE FALSE
    OBVIOUS
  <2>1. PICK h \in Ulps : u = 2 * h /\ 2 * K <= h
    <3>1. Grid(2 * K)
      BY DoubleGrid
    <3> QED
      BY <3>1 DEF Grid
  <2>2. h \in Nat \ {0} /\ u # 1
    BY <2>1, Ulps1
  <2>3. PICK g \in Ulps : u = 2 * g /\ x > (c * g) * y
    BY <1>2, <1>5, <2>2 DEF UlpIs
  <2>4. g = h
    BY <2>1, <2>2, <2>3, Ulps1
  <2>5. PICK hy \in Nat : hy = h * y
    BY <2>2
  <2>6. x > c * hy /\ t = 2 * hy
    BY <1>2, <1>9, <2>1, <2>2, <2>3, <2>4, <2>5
  <2>7. p >= c * hy - hy
    BY <1>2, <1>11, <2>6
  <2>8. hy > 0
    BY <1>1, <2>2, <2>5, Signs
  <2>9. p <= (c * K) * y
    <3>1. u * k <= c * K /\ u * k \in Int /\ c * K \in Int
      BY <1>2, <1>4, <1>8
    <3>2. PICK a1 \in Int, b1 \in Int : a1 = u * k /\ b1 = c * K /\ a1 <= b1
      BY <3>1
    <3>3. a1 * y <= b1 * y
      BY <3>2, Monotone
    <3> QED
      BY <1>9, <3>2, <3>3
  <2>10. 2 * s <= hy
    <3>1. (2 * K) * y <= h * y
      BY <1>4, <2>1, <2>2, Monotone
    <3>2. (2 * K) * y = 2 * (K * y)
      BY <1>4
    <3> QED
      BY <1>9, <2>5, <3>1, <3>2
  <2>11. (c * K) * y = c * s
    BY <1>2, <1>4, <1>9
  <2>12. PICK j \in Nat : hy = 2 * s + j
    <3>1. hy - 2 * s \in Nat
      BY <2>10
    <3> QED
      BY <3>1
  <2>13. c * hy = 2 * (c * s) + c * j /\ c * j \in Nat /\ c * s \in Nat /\ c * hy \in Nat
    BY <1>2, <2>12
  <2>14. c * hy - hy <= c * s
    BY <1>2, <2>7, <2>9, <2>11
  <2>15. 8 * hy <= c * hy
    BY <1>2, Monotone
  <2> QED
    BY <2>8, <2>13, <2>14, <2>15
<1>13. t <= 2 * s
  <2>1. u * y <= (2 * K) * y
    BY <1>1, <1>4, <1>12, Monotone
  <2>2. (2 * K) * y = 2 * (K * y)
    BY <1>4
  <2> QED
    BY <1>9, <2>1, <2>2
<1>14. Abs(p - x) <= s
  BY <1>1, <1>9, <1>11, <1>13 DEF Abs
<1> QED
  BY <1>1, <1>8, <1>9, <1>14

\* The floats.
OnGrid(n, w) ==
  /\ n \in Int /\ w \in Ulps /\ \E k \in Int : n = w * k
  /\ Abs(n) <= EXACT * w /\ Abs(n) <= FloatMax

\* A result that is a float is exact, and one that a float is not below is finite.
LEMMA F64OfFloat ==
  ASSUME NEW n, NEW w, OnGrid(n, w), NEW b \in Int \ {0}
  PROVE  F64(n * b, b) = n
<1>1. PICK x \in Nat, y \in Nat \ {0} : x = Abs(n) /\ y = Abs(b)
  BY DEF Abs, OnGrid
<1>2. PICK a \in Int : a = n * b /\ Abs(a) = x * y
  BY <1>1, AbsProduct DEF OnGrid
<1>3. PICK c \in Nat \ {0}, m \in Nat \ {0} : c = EXACT /\ m = FloatMax
  BY FloatAssumption
<1>4. w \in Nat \ {0} /\ n \in Int /\ x <= c * w /\ x <= m
  BY <1>1, <1>3, Ulps1 DEF OnGrid
<1>5. PICK p \in Nat : p = x * y
  BY <1>1
<1>6. p < (2 * m) * y
  <2>1. x * y < (2 * m) * y
    BY <1>1, <1>3, <1>4, Monotone
  <2> QED
    BY <1>5, <2>1
<1>7. PICK u \in Ulps, k \in Nat : Returns(a, b, u, k)
  BY <1>1, <1>2, <1>3, <1>5, <1>6, F64Parts
<1>8. u \in Nat \ {0}
  BY Ulps1
<1>9. UlpIs(p, y, u) /\ Rounds(p, y, u, k)
  BY <1>1, <1>2, <1>5, <1>7 DEF Returns
<1>10. PICK j \in Nat : w = u * j
  <2>1. Grid(w)
    BY UlpGrid DEF OnGrid
  <2>2. p <= (c * w) * y
    <3>1. PICK d \in Nat : d = c * w
      BY <1>3, <1>4
    <3>2. x * y <= d * y
      BY <1>4, <3>1, Monotone
    <3> QED
      BY <1>5, <3>1, <3>2
  <2> QED
    BY <1>3, <1>5, <1>9, <2>1, <2>2, UlpSmall
<1>11. PICK i \in Nat : x = u * i
  <2>1. PICK z \in Int : n = w * z
    BY DEF OnGrid
  <2>2. PICK g \in Nat : g = Abs(z)
    BY AbsFacts
  <2>3. x = w * g
    <3>1. Abs(w * z) = Abs(w) * Abs(z)
      BY <1>4, AbsProduct
    <3>2. Abs(w) = w
      BY <1>4, AbsFacts
    <3> QED
      BY <1>1, <2>1, <2>2, <3>1, <3>2
  <2>4. PICK q \in Nat : q = j * g
    OBVIOUS
  <2>5. x = u * q
    BY <1>8, <1>10, <2>3, <2>4
  <2> QED
    BY <2>5
<1>12. k = i
  <2>1. p = (u * i) * y
    BY <1>5, <1>11
  <2>2. p \in Int /\ (u * i) * y \in Int
    BY <2>1
  <2> QED
    BY <1>9, <2>1, <2>2 DEF Rounds
<1>13. ~(u * k > FloatMax)
  BY <1>3, <1>4, <1>11, <1>12
<1>14. PICK f \in Int : f = F64(a, b) /\ Abs(f * b - a) = 0
  <2>1. F64(a, b) \in Int /\ Abs(F64(a, b) * b - a) = Abs((u * k) * y - p)
    BY <1>1, <1>2, <1>5, <1>7, <1>13 DEF Returns
  <2>2. (u * k) * y - p = 0
    BY <1>5, <1>11, <1>12
  <2>3. Abs((u * k) * y - p) = 0
    BY <2>2 DEF Abs
  <2> QED
    BY <2>1, <2>3
<1>15. f * b = n * b
  <2>1. PICK g \in Int : g = f * b
    BY <1>1
  <2> QED
    BY <1>2, <1>14, <2>1 DEF Abs
<1>16. f = n
  BY <1>4, <1>15, Products
<1> QED
  BY <1>2, <1>14, <1>16

LEMMA ResultOnGrid ==
  ASSUME NEW a \in Int, NEW b \in Int \ {0}, F64(a, b) \in Int
  PROVE  \E w : OnGrid(F64(a, b), w)
<1>1. PICK x \in Nat, y \in Nat \ {0} : x = Abs(a) /\ y = Abs(b)
  BY DEF Abs
<1>2. PICK c \in Nat \ {0}, m \in Nat : c = EXACT /\ m = FloatMax
  BY FloatAssumption
<1>3. PICK u \in Ulps, k \in Nat : Returns(a, b, u, k)
  BY F64Parts
<1>4. u \in Nat \ {0}
  BY Ulps1
<1>5. UlpIs(x, y, u) /\ Rounds(x, y, u, k)
  BY <1>1, <1>3 DEF Returns
<1>6. Abs(F64(a, b)) = u * k /\ ~(u * k > FloatMax)
  BY <1>1, <1>3, NoneAssumption DEF Returns
<1>7. k <= c
  <2>1. x <= (c * u) * y
    BY <1>2, <1>5 DEF UlpIs
  <2>2. c * u = u * c
    BY <1>2, <1>4
  <2> QED
    BY <1>2, <1>5, <2>1, <2>2 DEF Rounds
<1>8. u * k <= c * u
  <2>1. k * u <= c * u
    BY <1>2, <1>4, <1>7, Monotone
  <2> QED
    BY <1>4, <2>1
<1>9. PICK f \in Int : f = F64(a, b)
  OBVIOUS
<1>10. f = u * k \/ f = u * (-k)
  <2>1. PICK g \in Nat : g = u * k /\ u * (-k) = -g
    BY <1>4
  <2> QED
    BY <1>6, <1>9, <2>1 DEF Abs
<1>11. \E z \in Int : f = u * z
  <2>1. -k \in Int /\ k \in Int
    OBVIOUS
  <2> QED
    BY <1>10, <2>1
<1>12. Abs(f) <= EXACT * u /\ Abs(f) <= FloatMax
  <2>1. u * k \in Nat
    BY <1>4
  <2> QED
    BY <1>2, <1>6, <1>8, <1>9, <2>1
<1>13. OnGrid(f, u)
  BY <1>9, <1>11, <1>12 DEF OnGrid
<1> QED
  BY <1>9, <1>13

LEMMA FloatsOnGrid ==
  ASSUME NEW n \in F64s
  PROVE  n \in Int /\ \E w : OnGrid(n, w)
<1>1. n \in Int /\ F64(n, 1) = n
  BY DEF F64s, IsF64
<1> QED
  BY <1>1, ResultOnGrid

\* A result that is a float is exact.
LEMMA F64Exact ==
  ASSUME NEW n \in F64s, NEW b \in Int \ {0}
  PROVE  F64(n * b, b) = n
BY FloatsOnGrid, F64OfFloat

\* Every result is a float.
LEMMA F64Results ==
  ASSUME NEW a \in Int, NEW b \in Int \ {0}, F64(a, b) \in Int
  PROVE  F64(a, b) \in F64s
<1>1. PICK f \in Int : f = F64(a, b)
  OBVIOUS
<1>2. PICK w : OnGrid(f, w)
  BY <1>1, ResultOnGrid
<1>3. F64(f * 1, 1) = f
  BY <1>2, F64OfFloat
<1>4. f * 1 = f
  OBVIOUS
<1> QED
  BY <1>1, <1>3, <1>4 DEF F64s, IsF64

\* A result below the largest float is finite.
LEMMA F64Finite ==
  ASSUME NEW a \in Int, NEW b \in Int \ {0}, Abs(a) <= FloatMax * Abs(b)
  PROVE  F64(a, b) \in Int
<1>1. PICK x \in Nat, y \in Nat \ {0} : x = Abs(a) /\ y = Abs(b)
  BY DEF Abs
<1>2. PICK c \in Nat \ {0}, m \in Nat \ {0} : c = EXACT /\ m = FloatMax
  BY FloatAssumption
<1>3. PICK w : OnGrid(m, w)
  BY <1>2, FloatsOnGrid, FloatAssumption
<1>4. w \in Ulps /\ w \in Nat \ {0} /\ m <= c * w
  BY <1>2, <1>3, AbsFacts, Ulps1 DEF OnGrid
<1>5. PICK my \in Nat : my = m * y /\ x <= my
  BY <1>1, <1>2
<1>6. x < (2 * m) * y
  <2>1. m * y < (2 * m) * y
    BY <1>1, <1>2, Monotone
  <2> QED
    BY <1>1, <1>5, <2>1
<1>7. PICK u \in Ulps, k \in Nat : Returns(a, b, u, k)
  BY <1>1, <1>2, <1>6, F64Parts
<1>8. u \in Nat \ {0}
  BY Ulps1
<1>9. UlpIs(x, y, u) /\ Rounds(x, y, u, k)
  BY <1>1, <1>7 DEF Returns
<1>10. PICK j \in Nat : w = u * j
  <2>1. x <= (c * w) * y
    <3>1. PICK d \in Nat : d = c * w
      BY <1>2, <1>4
    <3>2. m * y <= d * y /\ d * y \in Int
      BY <1>4, <3>1, Monotone
    <3> QED
      BY <1>5, <3>1, <3>2
  <2> QED
    BY <1>2, <1>4, <1>9, <2>1, UlpGrid, UlpSmall
<1>11. PICK i \in Nat : m = u * i
  <2>1. PICK z \in Int : m = w * z
    BY <1>3 DEF OnGrid
  <2>2. z > 0
    BY <1>2, <1>4, <2>1, Signs
  <2>3. PICK q \in Nat : q = j * z
    BY <2>2
  <2>4. m = u * q
    BY <1>8, <1>10, <2>1, <2>3
  <2> QED
    BY <2>4
<1>12. k <= i
  <2>1. x <= (u * i) * y
    BY <1>5, <1>11
  <2> QED
    BY <1>9, <2>1 DEF Rounds
<1>13. u * k <= m
  <2>1. k * u <= i * u
    BY <1>8, <1>12, Monotone
  <2> QED
    BY <1>8, <1>11, <2>1
<1>14. ~(u * k > FloatMax)
  BY <1>2, <1>8, <1>13
<1> QED
  BY <1>7, <1>14 DEF Returns

\* The nearest integer.
LEMMA RoundFacts ==
  ASSUME NEW x \in Int
  PROVE  /\ Round(x) \in Int /\ 2 * Abs(Round(x) * ONE - x) <= ONE
         /\ \A k \in Int : 2 * Abs(k * ONE - x) < ONE => Round(x) = k
<1>1. PICK X \in Nat : X = Abs(x) /\ (x >= 0 => x = X) /\ (x < 0 => x = -X)
  BY DEF Abs
<1>2. PICK N \in Nat \ {0} : N = ONE
  BY Ulps1
<1>3. PICK n \in Nat, r \in 0..2 * N - 1 : /\ n = (2 * X + N) \div (2 * N)
                                           /\ 2 * X + N = n * (2 * N) + r
  <2>1. PICK y \in Nat, z \in Nat \ {0} : y = 2 * X + N /\ z = 2 * N
    OBVIOUS
  <2>2. y \div z \in Nat /\ y % z \in 0..z - 1 /\ (y \div z) * z + (y % z) = y
    BY DivFacts
  <2> QED
    BY <2>1, <2>2
<1>4. PICK p \in Nat : p = n * N /\ n * (2 * N) = 2 * p /\ (-n) * N = -p
  <2>1. n * N \in Nat
    OBVIOUS
  <2> QED
    BY <2>1
<1>5. 2 * (p - X) <= N /\ -N <= 2 * (p - X)
  BY <1>3, <1>4
<1>6. PICK i \in Int : i = Round(x) /\ i = IF x < 0 THEN -n ELSE n
  BY <1>1, <1>2, <1>3 DEF Round
<1>7. i * N = IF x < 0 THEN -p ELSE p
  BY <1>4, <1>6
<1>8. 2 * Abs(i * N - x) <= N
  BY <1>1, <1>5, <1>7 DEF Abs
<1>9. ASSUME NEW k \in Int, 2 * Abs(k * N - x) < N
      PROVE  i = k
  <2>1. PICK a \in Int, b \in Int : a = i * N /\ b = k * N
    OBVIOUS
  <2>2. a - b < N /\ b - a < N
    BY <1>8, <1>9, <2>1 DEF Abs
  <2>3. ASSUME i < k
        PROVE  FALSE
    <3>1. (i + 1) * N <= k * N
      BY <2>3, Monotone
    <3>2. (i + 1) * N = a + N
      BY <2>1
    <3> QED
      BY <2>1, <2>2, <3>1, <3>2
  <2>4. ASSUME k < i
        PROVE  FALSE
    <3>1. (k + 1) * N <= i * N
      BY <2>4, Monotone
    <3>2. (k + 1) * N = b + N
      BY <2>1
    <3> QED
      BY <2>1, <2>2, <3>1, <3>2
  <2> QED
    BY <2>3, <2>4
<1> QED
  BY <1>2, <1>6, <1>8, <1>9

LEMMA RoundMultiple ==
  ASSUME NEW k \in Int
  PROVE  Round(k * ONE) = k
<1>1. PICK N \in Nat \ {0} : N = ONE
  BY Ulps1
<1>2. PICK x \in Int : x = k * N
  BY <1>1
<1>3. 2 * Abs(k * N - x) < N
  BY <1>2 DEF Abs
<1> QED
  BY <1>1, <1>2, <1>3, RoundFacts

\* An integer that a float is rounded to is a float.
LEMMA RoundedIsFloat ==
  ASSUME NEW q \in F64s, NEW k \in Int, k = Round(q), Abs(k) <= I128Max
  PROVE  FromInt(k) = k * ONE
<1>1. PICK N \in Nat \ {0} : N = ONE /\ N \in Ulps
  BY Ulps1
<1>2. PICK c \in Nat \ {0}, m \in Nat, i \in Nat : c = EXACT /\ m = FloatMax /\ i = I128Max
  BY FloatAssumption
<1>3. PICK w : q \in Int /\ OnGrid(q, w)
  BY FloatsOnGrid
<1>4. w \in Ulps /\ w \in Nat \ {0} /\ Abs(q) <= c * w
  BY <1>2, <1>3, Ulps1 DEF OnGrid
<1>5. 2 * Abs(k * N - q) <= N
  BY <1>1, <1>3, RoundFacts
<1>6. PICK x \in Int : x = k * N
  BY <1>1
<1>7. PICK a \in Nat : a = Abs(k) /\ Abs(x) = a * N
  <2>1. Abs(k * N) = Abs(k) * Abs(N)
    BY <1>1, AbsProduct
  <2>2. Abs(k) \in Nat /\ Abs(N) = N
    BY <1>1, AbsFacts
  <2> QED
    BY <1>6, <2>1, <2>2
<1>8. Abs(x) <= m
  <2>1. a * N <= i * N
    BY <1>1, <1>2, <1>7, Monotone
  <2>2. (i + 1) * N <= m /\ (i + 1) * N = i * N + N
    BY <1>1, <1>2, FloatAssumption
  <2>3. i * N \in Nat /\ a * N \in Nat
    OBVIOUS
  <2> QED
    BY <1>1, <1>7, <2>1, <2>2, <2>3
<1>9. \E z : OnGrid(x, z)
  <2>1. CASE N <= w
    <3>1. PICK j \in Nat : w = N * j
      BY <1>1, <1>4, <2>1, UlpGrid DEF Grid
    <3>2. PICK z \in Int : q = w * z
      BY <1>3 DEF OnGrid
    <3>3. PICK y \in Int : y = j * z
      OBVIOUS
    <3>4. q = y * N
      BY <1>1, <3>1, <3>2, <3>3
    <3>5. Round(q) = y
      BY <1>1, <3>4, RoundMultiple
    <3>6. x = q
      BY <1>6, <3>4, <3>5
    <3> QED
      BY <1>3, <3>6
  <2>2. CASE ~(N <= w)
    <3>1. PICK h \in Ulps : N = 2 * h /\ w <= h
      BY <1>1, <1>4, <2>2, UlpGrid DEF Grid
    <3>2. h \in Nat
      BY Ulps1
    <3>3. a <= c
      <4> SUFFICES ASSUME a >= c + 1 PROVE FALSE
        BY <1>2
      <4>1. PICK ch \in Nat : ch = c * h
        BY <1>2, <3>2
      <4>2. c * w <= ch
        <5>1. w * c <= h * c
          BY <1>2, <1>4, <3>1, <3>2, Monotone
        <5> QED
          BY <1>2, <1>4, <3>2, <4>1, <5>1
      <4>3. PICK qa \in Nat : qa = Abs(q) /\ qa <= ch
        <5>1. PICK cw \in Nat : cw = c * w
          BY <1>2, <1>4
        <5> QED
          BY <1>3, <1>4, <4>1, <4>2, <5>1, AbsFacts
      <4>4. 2 * Abs(x) <= 2 * qa + N
        BY <1>3, <1>5, <1>6, <4>3 DEF Abs
      <4>5. (c + 1) * N <= a * N
        BY <1>1, <1>2, Monotone
      <4>6. (c + 1) * N = 2 * ch + N
        BY <1>2, <3>1, <3>2, <4>1
      <4>7. PICK an \in Nat : an = a * N
        BY <1>1
      <4>8. ch >= N
        <5>1. c >= 8
          BY <1>2, FloatAssumption
        <5>2. 8 * h <= c * h
          BY <1>2, <3>2, <5>1, Monotone
        <5> QED
          BY <1>1, <3>1, <3>2, <4>1, <5>2
      <4> QED
        BY <1>7, <4>3, <4>4, <4>5, <4>6, <4>7, <4>8
    <3>4. a * N <= c * N
      BY <1>1, <1>2, <3>3, Monotone
    <3>5. x = N * k
      BY <1>1, <1>6
    <3> QED
      BY <1>1, <1>2, <1>6, <1>7, <1>8, <3>4, <3>5 DEF OnGrid
  <2> QED
    BY <1>1, <1>4, <2>1, <2>2
<1>10. F64(x * 1, 1) = x
  BY <1>9, F64OfFloat
<1>11. x * 1 = x
  OBVIOUS
<1> QED
  BY <1>1, <1>6, <1>10, <1>11 DEF FromInt

\* The distance of the floats at the size of the numbers of a conversion.
LEMMA UnitFacts ==
  ASSUME NEW d, NEW scale \in Int, d.scale = scale, NEW offset \in Int, d.offset = offset,
         NEW v \in Int, Far(d, v)
  PROVE  \E U \in Nat \ {0}, cU \in Nat :
           /\ U = Unit(d, v) /\ U \in Ulps /\ cU = EXACT * U
           /\ Abs(v) + Abs(offset) + Abs(scale) <= cU
           /\ 8 * U <= cU /\ 4 * cU <= FloatMax
<1>1. PICK c \in Nat \ {0}, m \in Nat : c = EXACT /\ m = FloatMax /\ c >= 8 /\ 4 * c <= m
  BY FloatAssumption
<1>2. PICK S \in Nat : S = Abs(v) + Abs(offset) + Abs(scale) /\ S = Span(d, v)
  BY AbsFacts DEF Span
<1>3. 8 * S <= m
  BY <1>1, <1>2 DEF Far
<1>4. PICK U \in Ulps : U = Unit(d, v) /\ UlpIs(S, 1, U)
  <2>1. S < (2 * FloatMax) * 1
    BY <1>1, <1>3
  <2>2. UlpIs(S, 1, Ulp(S, 1))
    BY <2>1, UlpFacts
  <2> QED
    BY <1>2, <2>2 DEF Unit, UlpIs
<1>5. U \in Nat \ {0}
  BY Ulps1
<1>6. PICK cU \in Nat : cU = c * U
  BY <1>1, <1>5
<1>7. S <= cU
  BY <1>1, <1>4, <1>6 DEF UlpIs
<1>8. 8 * U <= cU
  BY <1>1, <1>5, <1>6, Monotone
<1>9. 4 * cU <= m
  <2>1. CASE U = 1
    BY <1>1, <1>6, <2>1
  <2>2. CASE U # 1
    <3>1. PICK h \in Ulps : U = 2 * h /\ S > (c * h) * 1
      BY <1>1, <1>4, <2>2 DEF UlpIs
    <3>2. h \in Nat
      BY Ulps1
    <3>3. PICK ch \in Nat : ch = c * h
      BY <1>1, <3>2
    <3>4. cU = 2 * ch /\ S > ch
      BY <1>1, <1>6, <3>1, <3>2, <3>3
    <3> QED
      BY <1>1, <1>3, <3>4
  <2> QED
    BY <2>1, <2>2
<1> QED
  BY <1>1, <1>2, <1>4, <1>5, <1>6, <1>7, <1>8, <1>9

\* A rounded sum.
LEMMA SumFacts ==
  ASSUME NEW a \in Int, NEW K, Grid(K), NEW cK \in Nat, cK = EXACT * K, cK <= FloatMax,
         Abs(a) <= cK
  PROVE  F64(a, 1) \in Int /\ 2 * Abs(F64(a, 1) - a) <= K /\ Abs(F64(a, 1)) <= cK
<1>1. FloatMax \in Nat /\ Abs(1) = 1 /\ Abs(a) \in Nat /\ K \in Nat
  BY FloatAssumption DEF Abs, Grid
<1>2. Abs(a) <= FloatMax * Abs(1) /\ Abs(a) <= (EXACT * K) * Abs(1)
  BY <1>1
<1>3. F64(a, 1) \in Int
  BY <1>2, F64Finite
<1>4. 2 * Abs(F64(a, 1) * 1 - a) <= K * Abs(1) /\ Abs(F64(a, 1)) <= EXACT * K
  BY <1>2, <1>3, F64Near
<1> QED
  BY <1>1, <1>3, <1>4

\* A rounded product.
LEMMA ProductFacts ==
  ASSUME NEW x \in Int, NEW s \in Int, NEW K, Grid(K), NEW cK \in Nat,
         cK = EXACT * K, cK <= FloatMax,
         Abs(x * s) <= cK * ONE
  PROVE  Mul(x, s) \in Int /\ 2 * Abs(Mul(x, s) * ONE - x * s) <= K * ONE
<1>1. PICK N \in Nat \ {0} : N = ONE /\ Abs(N) = N
  BY Ulps1, AbsFacts
<1>2. PICK m \in Nat : m = FloatMax
  BY FloatAssumption
<1>3. PICK a \in Int : a = x * s
  OBVIOUS
<1>4. cK * N <= m * N /\ cK * N \in Int /\ m * N \in Int
  BY <1>2, Monotone
<1>5. Abs(a) <= m * Abs(N) /\ Abs(a) <= (EXACT * K) * Abs(N)
  BY <1>1, <1>3, <1>4, AbsFacts
<1>6. F64(a, N) \in Int
  BY <1>2, <1>5, F64Finite
<1>7. 2 * Abs(F64(a, N) * N - a) <= K * Abs(N)
  BY <1>5, <1>6, F64Near
<1> QED
  BY <1>1, <1>3, <1>6, <1>7 DEF Mul

\* The quotient of a rounded difference.
LEMMA QuotientFacts ==
  ASSUME NEW U \in Ulps, NEW cU \in Nat, cU = EXACT * U,
         NEW a \in Int, Abs(a) <= cU,
         NEW s \in Int \ {0}, Abs(s) <= cU, Div(a, s) \in Int
  PROVE  Abs(Div(a, s) * s - a * ONE) <= U * ONE
<1>1. PICK N \in Nat \ {0} : N = ONE /\ Abs(N) = N
  BY Ulps1, AbsFacts
<1>2. PICK c \in Nat \ {0} : c = EXACT /\ c <= N
  BY <1>1, FloatAssumption
<1>3. U \in Nat \ {0}
  BY Ulps1
<1>4. PICK b \in Int : b = a * N
  BY <1>1
<1>5. PICK q \in Int : q = F64(b, s) /\ q = Div(a, s)
  BY <1>1, <1>4 DEF Div
<1>6. PICK u \in Ulps, k \in Nat : Returns(b, s, u, k)
  BY <1>5, F64Parts
<1>7. u \in Nat \ {0}
  BY Ulps1
<1>8. PICK x \in Nat, y \in Nat \ {0} : x = Abs(b) /\ y = Abs(s)
  BY DEF Abs
<1>9. UlpIs(x, y, u) /\ Rounds(x, y, u, k) /\ Abs(q * s - b) = Abs((u * k) * y - x)
  BY <1>5, <1>6, <1>8, NoneAssumption DEF Returns
<1>10. PICK p \in Nat, t \in Nat, UN \in Nat : p = (u * k) * y /\ t = u * y /\ UN = U * N
  BY <1>3, <1>7
<1>11. 2 * p <= 2 * x + t /\ 2 * x <= 2 * p + t
  BY <1>9, <1>10 DEF Rounds
<1>12. t <= 2 * UN
  <2>1. CASE u = 1
    <3>1. y <= c * U
      BY <1>2, <1>8
    <3>2. c * U <= N * U
      BY <1>2, <1>3, Monotone
    <3>3. N * U = UN /\ c * U \in Nat
      BY <1>2, <1>3, <1>10
    <3> QED
      BY <1>8, <1>10, <2>1, <3>1, <3>2, <3>3
  <2>2. CASE u # 1
    <3>1. PICK h \in Ulps : u = 2 * h /\ x > (c * h) * y
      BY <1>2, <1>9, <2>2 DEF UlpIs
    <3>2. h \in Nat \ {0}
      BY Ulps1
    <3>3. PICK hy \in Nat : hy = h * y
      BY <3>2
    <3>4. x > c * hy /\ t = 2 * hy
      BY <1>2, <1>10, <3>1, <3>2, <3>3
    <3>5. x <= c * UN
      <4>1. x = Abs(a) * N
        BY <1>1, <1>4, <1>8, AbsProduct
      <4>2. PICK z \in Nat : z = Abs(a) /\ z <= cU
        BY AbsFacts
      <4>3. z * N <= cU * N
        BY <4>2, Monotone
      <4>4. cU * N = c * UN
        BY <1>2, <1>3, <1>10
      <4> QED
        BY <4>1, <4>2, <4>3, <4>4
    <3>6. hy < UN
      <4>1. hy * c < UN * c
        <5>1. PICK g \in Nat, f \in Nat : g = c * hy /\ f = c * UN
          BY <1>2
        <5>2. g < f /\ hy * c = g /\ UN * c = f
          BY <1>2, <3>4, <3>5, <5>1
        <5> QED
          BY <5>2
      <4> QED
        BY <1>2, <4>1, Monotone
    <3> QED
      BY <3>4, <3>6
  <2> QED
    BY <2>1, <2>2
<1>13. Abs(p - x) <= UN
  BY <1>11, <1>12 DEF Abs
<1> QED
  BY <1>1, <1>4, <1>5, <1>8, <1>9, <1>10, <1>13

LEMMA SaturatedFacts ==
  ASSUME NEW n \in Int
  PROVE  /\ Saturated(n) \in Int
         /\ -I128Max <= n /\ n <= I128Max => Saturated(n) = n
         /\ -I128Max < Saturated(n) /\ Saturated(n) < I128Max => Saturated(n) = n
<1>1. I128Max \in Nat
  BY FloatAssumption
<1> QED
  BY <1>1 DEF Saturated

\* What a float type has of a number, and where it is read again.
FloatBytes(ty, e, x) ==
  Bytes(ty, e, CHOOSE n \in 0..Codes(Size(ty)) - 1 : Holds(ty, n, x))

LEMMA NumberPayload ==
  ASSUME NEW ty \in DOMAIN Sizes, ty \in FloatTypes, NEW e, NEW x \in Numbers(ty),
         NEW p, p = FloatBytes(ty, e, x)
  PROVE  /\ p \in Seq(Byte) /\ Len(p) = Size(ty) /\ ReadRaw(ty, e, p) = x
         /\ x \in Int /\ x \in F64s
<1>1. PICK w \in Nat : w = Size(ty)
  BY WidthAssumption DEF Size
<1>2. PICK m \in Nat \ {0} : m = Codes(w)
  BY CodesFacts
<1>3. Floats[ty] \in [1..m -> Int \cup {NonFinite}]
  BY <1>1, <1>2, FloatAssumption DEF Size
<1>4. x \in Range(Floats[ty]) /\ x # NonFinite
  BY DEF Numbers
<1>5. PICK j \in 1..m : Floats[ty][j] = x
  BY <1>3, <1>4 DEF Range
<1>6. x \in Int
  BY <1>3, <1>4, <1>5
<1>7. PICK k \in 0..m - 1 : k + 1 = j
  <2>1. j - 1 \in 0..m - 1 /\ (j - 1) + 1 = j
    BY <1>2
  <2> QED
    BY <2>1
<1>8. PICK n \in 0..m - 1 : /\ n = CHOOSE i \in 0..Codes(Size(ty)) - 1 : Holds(ty, i, x)
                            /\ Holds(ty, n, x)
  <2>1. Holds(ty, k, x) /\ k \in 0..Codes(Size(ty)) - 1
    BY <1>1, <1>2, <1>5, <1>7 DEF Holds
  <2> QED
    BY <1>1, <1>2, <2>1
<1>9. n \in Nat /\ n % m = n
  <2>1. n \in 0..m - 1 /\ m \in Nat \ {0}
    BY <1>2
  <2> QED
    BY ONLY <2>1, ModFacts
<1>10. p = Bytes(ty, e, n)
  BY <1>8 DEF FloatBytes
<1>11. PICK b \in Seq(Byte) : b = ToBe(n, w) /\ Be(b) = n
  <2>1. ToBe(n, w) \in Seq(Byte)
    BY <1>9, ToBeType
  <2>2. Be(ToBe(n, w)) = n
    BY <1>2, <1>9, BeOfToBe
  <2> QED
    BY <2>1, <2>2
<1>12. p = Ordered(e, b)
  BY <1>1, <1>2, <1>9, <1>10, <1>11 DEF Bytes
<1>13. Be(Ordered(e, p)) = n
  BY <1>11, <1>12, OrderedFacts
<1>14. ReadRaw(ty, e, p) = x
  BY <1>8, <1>13 DEF ReadRaw, Holds
<1>15. p \in Seq(Byte) /\ Len(p) = Size(ty)
  BY <1>9, <1>10, BytesType
<1>16. x \in F64s
  BY FloatAssumption
<1> QED
  BY <1>6, <1>14, <1>15, <1>16

\* y is what a float type carries of x: the nearest f32, and x itself as an f64.
Carried(ty, y, x) ==
  /\ y \in Numbers(ty)
  /\ IF ty = "f32" THEN \A z \in Numbers("f32") : Abs(y - x) <= Abs(z - x) ELSE y = x

LEMMA AsF32Facts ==
  ASSUME NEW x \in Int, "f32" \in DOMAIN Sizes
  PROVE  Carried("f32", AsF32(x), x)
<1>1. /\ 0 \in Numbers("f32") /\ \A z \in Numbers("f32") : z \in Int
  <2>1. "f32" \in DOMAIN Sizes \cap FloatTypes
    BY DEF FloatTypes
  <2>2. 0 \in Numbers("f32") /\ Numbers("f32") \subseteq F64s
    BY <2>1, FloatAssumption
  <2> QED
    BY <2>2 DEF F64s
<1> DEFINE numbers == Numbers("f32")
           off(z) == Abs(z - x)
           nearest == {z \in numbers : \A y \in numbers : Abs(z - x) <= Abs(y - x)}
           even(z) == \E n \in 0..Codes(Size("f32")) - 1 : n % 2 = 0 /\ Holds("f32", n, z)
<1>2. \A z \in numbers : off(z) \in Nat
  <2> SUFFICES ASSUME NEW z \in numbers PROVE off(z) \in Nat
    OBVIOUS
  <2>1. z - x \in Int
    BY <1>1
  <2> QED
    BY <2>1, AbsFacts
<1>3. PICK S \in SUBSET Nat : S = {off(z) : z \in numbers}
  <2>1. {off(z) : z \in numbers} \in SUBSET Nat
    BY <1>2
  <2> QED
    BY <2>1
<1>4. PICK o \in S : \A y \in S : o <= y
  <2>1. S # {}
    BY <1>1, <1>3
  <2> QED
    BY <2>1, LeastNatural
<1>5. PICK z \in numbers : o = off(z)
  BY <1>3, <1>4
<1>6. \A y \in numbers : off(z) <= off(y)
  BY <1>3, <1>4, <1>5
<1>7. z \in nearest
  BY <1>6
<1>8. AsF32(x) = CHOOSE y \in nearest : (\E t \in nearest : even(t)) => even(y)
  BY DEF AsF32
<1> HIDE DEF nearest, even
<1>9. \E y \in nearest : (\E t \in nearest : even(t)) => even(y)
  <2>1. CASE \E t \in nearest : even(t)
    BY <2>1
  <2>2. CASE ~(\E t \in nearest : even(t))
    BY <1>7, <2>2
  <2> QED
    BY <2>1, <2>2
<1>10. AsF32(x) \in nearest
  BY <1>8, <1>9
<1> QED
  BY <1>10 DEF nearest, Carried

\* What is written of a number is read as what the type carries of it.
LEMMA FloatWritten ==
  ASSUME NEW ty \in DOMAIN Sizes, ty \in FloatTypes, NEW e, NEW x \in F64s
  PROVE  \E y \in Int, p \in Seq(Byte) :
           /\ Carried(ty, y, x) /\ y \in F64s
           /\ Len(p) = Size(ty) /\ ReadRaw(ty, e, p) = y
           /\ WriteFloat(ty, e, x) =
                IF ty = "f32" /\ Abs(x) >= F32Limit THEN None ELSE p
<1>1. x \in Int /\ (ty = "f32" \/ ty = "f64")
  BY DEF F64s, FloatTypes
<1>2. PICK y : y = IF ty = "f32" THEN AsF32(x) ELSE x
  OBVIOUS
<1>3. Carried(ty, y, x)
  <2>1. CASE ty = "f32"
    BY <1>1, <1>2, <2>1, AsF32Facts
  <2>2. CASE ty = "f64"
    <3>1. PICK m \in Nat : m = FloatMax
      BY FloatAssumption
    <3>2. PICK w : OnGrid(x, w)
      BY FloatsOnGrid
    <3>3. Abs(x) <= m
      BY <3>1, <3>2 DEF OnGrid
    <3>4. x \in -FloatMax..FloatMax
      BY <1>1, <3>1, <3>3, AbsFacts
    <3>5. x \in Numbers("f64")
      BY <2>2, <3>4, FloatAssumption
    <3> QED
      BY <1>2, <2>2, <3>5 DEF Carried
  <2> QED
    BY <1>1, <2>1, <2>2
<1>4. y \in Numbers(ty)
  BY <1>3 DEF Carried
<1>5. PICK p : p = FloatBytes(ty, e, y)
  OBVIOUS
<1>6. /\ p \in Seq(Byte) /\ Len(p) = Size(ty) /\ ReadRaw(ty, e, p) = y
      /\ y \in Int /\ y \in F64s
  BY <1>4, <1>5, NumberPayload
<1>7. WriteFloat(ty, e, x) = IF ty = "f32" /\ Abs(x) >= F32Limit THEN None ELSE p
  BY <1>2, <1>5 DEF WriteFloat, FloatBytes
<1> QED
  BY <1>3, <1>6, <1>7

LEMMA KindFacts ==
  ASSUME NEW d \in GoodDefs, NEW s, s = NewSignal(d)
  PROVE  /\ s.def = d /\ d.ty \in DOMAIN Sizes
         /\ Kind(s) \in {"Bool", "Enum", "Num"}
         /\ Kind(s) = "Bool" => d.ty = "bool" /\ d.ty \in Integral
         /\ Kind(s) = "Enum" => d.enum # None /\ d.ty \in Integral /\ d.ty # "bool"
         /\ Kind(s) = "Num" => d.ty # "bool"
         /\ d.ty \in Integral \/ d.ty \in FloatTypes
<1>1. s.def = d /\ d.ty \in DOMAIN Sizes
  BY GoodDefFacts DEF NewSignal
<1>2. "bool" \notin FloatTypes
  BY DEF FloatTypes
<1>3. d.enum # None => d.ty \in Integral /\ d.ty # "bool"
  BY EnumFacts
<1> QED
  BY <1>1, <1>2, <1>3 DEF Kind, Integral

\* What is written of an integer, if it is in range.
LEMMA WriteIntFacts ==
  ASSUME NEW ty \in Integral, NEW e, NEW i \in Int
  PROVE  IF i \in WireRange(ty)
         THEN /\ WriteInt(ty, e, i) = Bytes(ty, e, i)
              /\ OrOutOfRange(WriteInt(ty, e, i)) = Ok(Bytes(ty, e, i))
         ELSE OrOutOfRange(WriteInt(ty, e, i)).err # None
<1>1. CASE i \in WireRange(ty)
  <2>1. WriteInt(ty, e, i) = Bytes(ty, e, i)
    BY <1>1 DEF WriteInt, WireRange
  <2>2. Bytes(ty, e, i) # None
    BY BytesType, BytesNotNone DEF Integral
  <2> QED
    BY <1>1, <2>1, <2>2 DEF OrOutOfRange
<1>2. CASE i \notin WireRange(ty)
  <2>1. WriteInt(ty, e, i) = None
    BY <1>2 DEF WriteInt, WireRange
  <2> QED
    BY <1>2, <2>1, WireAssumption DEF OrOutOfRange, Err
<1> QED
  BY <1>1, <1>2

LEMMA BoolPayload ==
  ASSUME NEW d \in GoodDefs, NEW s, s = NewSignal(d), Kind(s) = "Bool",
         NEW value, value.kind = "Bool", NEW b \in BOOLEAN, value.v = b
  PROVE  LET payload == Bytes("bool", Endian(s), IF b THEN 1 ELSE 0)
         IN  /\ EncodeValue(s, value) = Ok(payload)
             /\ DecodeValue(s, payload) = Ok(Value("Bool", b))
<1>1. s.def = d /\ d.ty = "bool" /\ "bool" \in Integral
  BY KindFacts
<1>2. PICK i \in {0, 1} : i = (IF b THEN 1 ELSE 0) /\ (i = 1 <=> b)
  OBVIOUS
<1>3. i \in WireRange("bool") /\ i \in Int
  BY <1>1, WireRangeFacts DEF SignedTypes
<1>4. PICK payload : payload = Bytes("bool", Endian(s), i)
  OBVIOUS
<1>5. OrOutOfRange(WriteInt("bool", Endian(s), i)) = Ok(payload)
  BY <1>1, <1>3, <1>4, WriteIntFacts
<1>6. EncodeValue(s, value) = Ok(payload)
  BY <1>1, <1>2, <1>5 DEF EncodeValue
<1>7. ReadRaw("bool", Endian(s), payload) = i
  BY <1>1, <1>3, <1>4, ReadOfWritten
<1>8. Len(payload) = Size("bool")
  <2>1. "bool" \in DOMAIN Sizes
    BY WidthAssumption
  <2> QED
    BY <1>3, <1>4, <2>1, BytesType
<1>9. DecodeValue(s, payload) = Ok(Value("Bool", i = 1))
  BY <1>1, <1>7, <1>8 DEF DecodeValue
<1>10. (i = 1) = b
  BY <1>2
<1> QED
  BY <1>2, <1>4, <1>6, <1>9, <1>10

\* What is written of a number, if it is accepted: the payload p reads as raw, the
\* integer nearest to the quotient q or what the float type carries of it.
NumSent(d, s, v, a, q, raw, p) ==
  /\ a \in Int /\ a = F64(v - d.offset, 1)
  /\ q \in F64s /\ q = Div(a, d.scale)
  /\ p \in Seq(Byte) /\ Len(p) = Size(d.ty)
  /\ raw \in Int /\ raw = ReadRaw(d.ty, Endian(s), p)
  /\ \/ d.ty \in Integral /\ raw = Round(q) /\ Abs(raw) <= I128Max
     \/ d.ty \in FloatTypes /\ raw \in F64s /\ Carried(d.ty, raw, q)

LEMMA RangeOfI128 ==
  ASSUME NEW ty \in Integral, NEW i \in WireRange(ty), i \in Int
  PROVE  Abs(i) <= I128Max /\ -I128Max < i /\ i < I128Max
<1>1. PICK m \in Nat \ {0}, h \in Nat :
        /\ m = 2 * h /\ m <= I128Max
        /\ WireRange(ty) = IF ty \in SignedTypes THEN -h..h - 1 ELSE 0..m - 1
  BY WireRangeFacts
<1>2. PICK M \in Nat : M = I128Max
  BY FloatAssumption
<1>3. -M < i /\ i < M
  BY <1>1, <1>2
<1> QED
  BY <1>2, <1>3 DEF Abs

LEMMA NumPayload ==
  ASSUME NEW d \in GoodDefs, NEW s, s = NewSignal(d), Kind(s) = "Num",
         NEW value, value.kind = "Num", NEW v \in Int, value.v = v,
         EncodeValue(s, value).err = None
  PROVE  \E a \in Int, q \in F64s, raw \in Int, p \in Seq(Byte) :
           NumSent(d, s, v, a, q, raw, p) /\ EncodeValue(s, value) = Ok(p)
<1>1. s.def = d /\ d.ty \in DOMAIN Sizes /\ (d.ty \in Integral \/ d.ty \in FloatTypes)
  BY KindFacts
<1>2. d.scale \in Int \ {0} /\ d.offset \in Int
  BY GoodDefFacts
<1>3. PICK r : r = EncodeNum(s, v)
  OBVIOUS
<1>4. EncodeValue(s, value) = r /\ r.err = None
  BY <1>3 DEF EncodeValue
<1>5. PICK a : a = F64(v - d.offset, 1)
  OBVIOUS
<1>6. Scaled(d, v) # NonFinite
  <2>1. SUFFICES ASSUME Scaled(d, v) = NonFinite PROVE FALSE
    OBVIOUS
  <2>2. r = Err("out_of_range")
    BY <1>1, <1>3, <2>1 DEF EncodeNum
  <2> QED
    BY <1>4, <2>2, WireAssumption DEF Err
<1>7. a \in Int /\ a # NonFinite /\ Scaled(d, v) = Div(a, d.scale)
  <2>1. v - d.offset \in Int
    BY <1>2
  <2>2. a \in Int \cup {NonFinite}
    BY <1>5, <2>1, F64Parts
  <2>3. Scaled(d, v) = IF a = NonFinite THEN NonFinite ELSE Div(a, d.scale)
    BY <1>5 DEF Scaled
  <2> QED
    BY <1>6, <2>2, <2>3
<1>8. PICK q \in F64s : q = Scaled(d, v) /\ q = Div(a, d.scale) /\ q # NonFinite
  <2>1. PICK n \in Int : n = a * ONE
    BY <1>7, Ulps1
  <2>2. Div(a, d.scale) = F64(n, d.scale)
    BY <2>1 DEF Div
  <2>3. F64(n, d.scale) \in Int \cup {NonFinite}
    BY <1>2, F64Parts
  <2>4. F64(n, d.scale) \in Int
    BY <1>6, <1>7, <2>2, <2>3
  <2>5. F64(n, d.scale) \in F64s
    BY <1>2, <2>4, F64Results
  <2> QED
    BY <1>6, <1>7, <2>2, <2>5
<1>9. q \in Int
  BY DEF F64s
<1>10. CASE d.ty \in Integral
  <2>1. d.ty \notin FloatTypes
    BY <1>10 DEF Integral
  <2>2. PICK k \in Int : k = Round(q)
    BY <1>9, RoundFacts
  <2>3. PICK i \in Int : i = Saturated(k)
    BY SaturatedFacts
  <2>4. r = OrOutOfRange(WriteInt(d.ty, Endian(s), i))
    BY <1>1, <1>3, <1>8, <2>1, <2>2, <2>3 DEF EncodeNum
  <2>5. i \in WireRange(d.ty) /\ r = Ok(Bytes(d.ty, Endian(s), i))
    BY <1>4, <1>10, <2>4, WriteIntFacts
  <2>6. Abs(i) <= I128Max /\ -I128Max < i /\ i < I128Max
    BY <1>10, <2>5, RangeOfI128
  <2>7. i = k
    BY <2>3, <2>6, SaturatedFacts
  <2>8. PICK p : p = Bytes(d.ty, Endian(s), i)
    OBVIOUS
  <2>9. p \in Seq(Byte) /\ Len(p) = Size(d.ty)
    BY <1>1, <2>8, BytesType
  <2>10. ReadRaw(d.ty, Endian(s), p) = i
    BY <1>10, <2>5, <2>8, ReadOfWritten
  <2>11. NumSent(d, s, v, a, q, i, p)
    BY <1>5, <1>7, <1>8, <1>10, <2>2, <2>6, <2>7, <2>9, <2>10 DEF NumSent
  <2> QED
    BY <1>4, <1>7, <2>5, <2>8, <2>9, <2>11
<1>11. CASE d.ty \in FloatTypes
  <2>1. r = OrOutOfRange(WriteFloat(d.ty, Endian(s), q))
    BY <1>1, <1>3, <1>8, <1>11 DEF EncodeNum
  <2>2. PICK y \in Int, p \in Seq(Byte) :
          /\ Carried(d.ty, y, q) /\ y \in F64s
          /\ Len(p) = Size(d.ty) /\ ReadRaw(d.ty, Endian(s), p) = y
          /\ WriteFloat(d.ty, Endian(s), q) =
               IF d.ty = "f32" /\ Abs(q) >= F32Limit THEN None ELSE p
    BY <1>1, <1>11, FloatWritten
  <2>3. r = Ok(p)
    <3>1. WriteFloat(d.ty, Endian(s), q) # None
      BY <1>4, <2>1, WireAssumption DEF OrOutOfRange, Err
    <3> QED
      BY <2>1, <2>2, <3>1 DEF OrOutOfRange
  <2>4. NumSent(d, s, v, a, q, y, p)
    BY <1>5, <1>7, <1>8, <1>11, <2>2 DEF NumSent
  <2> QED
    BY <1>4, <1>7, <2>2, <2>3, <2>4
<1> QED
  BY <1>1, <1>10, <1>11

LEMMA EncodeValueType ==
  ASSUME NEW d \in GoodDefs, NEW s, s = NewSignal(d), NEW value \in SignalValues,
         EncodeValue(s, value).err = None
  PROVE  /\ EncodeValue(s, value).ok \in Seq(Byte)
         /\ Len(EncodeValue(s, value).ok) = Size(d.ty)
         /\ Kind(s) = value.kind
<1>1. Kind(s) = value.kind
  BY WireAssumption DEF EncodeValue, Err
<1>2. \A i \in Int : Bytes(d.ty, Endian(s), i) \in Seq(Byte)
                     /\ Len(Bytes(d.ty, Endian(s), i)) = Size(d.ty)
  BY GoodDefFacts, BytesType
<1>3. PICK p \in Seq(Byte) : EncodeValue(s, value) = Ok(p) /\ Len(p) = Size(d.ty)
  <2>1. CASE value.kind = "Bool"
    <3>1. PICK b \in BOOLEAN : value.v = b
      BY <2>1 DEF SignalValues
    <3>2. EncodeValue(s, value) = Ok(Bytes("bool", Endian(s), IF b THEN 1 ELSE 0))
      BY <1>1, <2>1, <3>1, BoolPayload
    <3>3. d.ty = "bool"
      BY <1>1, <2>1, KindFacts
    <3>4. PICK i \in Int : i = IF b THEN 1 ELSE 0
      OBVIOUS
    <3> QED
      BY <1>2, <3>2, <3>3, <3>4
  <2>2. CASE value.kind = "Enum"
    <3>1. d.enum # None
      BY <1>1, <2>2, KindFacts
    <3>2. EnumRaw(s, value.v) # None
      BY <1>1, <2>2, WireAssumption DEF EncodeValue, Err
    <3>3. PICK i \in DOMAIN d.enum : d.enum[i].label = value.v
      BY <3>1, <3>2, EnumFacts
    <3>4. EncodeValue(s, Value("Enum", value.v)) = Ok(Bytes(d.ty, Endian(s), d.enum[i].raw))
      BY <3>1, <3>3, EnumPayload
    <3>5. EncodeValue(s, Value("Enum", value.v)) = EncodeValue(s, value)
      BY <2>2 DEF EncodeValue, Value
    <3>6. d.enum[i].raw \in Int
      BY <3>1, EnumFacts
    <3> QED
      BY <1>2, <3>4, <3>5, <3>6
  <2>3. CASE value.kind = "Num"
    <3>1. PICK v \in Int : value.v = v
      BY <2>3 DEF SignalValues, F64s
    <3>2. PICK a \in Int, q \in F64s, raw \in Int, p \in Seq(Byte) :
            NumSent(d, s, v, a, q, raw, p) /\ EncodeValue(s, value) = Ok(p)
      BY <1>1, <2>3, <3>1, NumPayload
    <3> QED
      BY <3>2 DEF NumSent
  <2> QED
    BY <2>1, <2>2, <2>3 DEF SignalValues
<1> QED
  BY <1>1, <1>3 DEF Ok

\* What a float type reads from a payload.
LEMMA FloatOfRead ==
  ASSUME NEW ty \in DOMAIN Sizes, ty \in FloatTypes, NEW e,
         NEW p \in Seq(Byte), Len(p) = Size(ty)
  PROVE  ReadRaw(ty, e, p) \in Numbers(ty) \cup {NonFinite}
<1>1. PICK w \in Nat : w = Size(ty)
  BY WidthAssumption DEF Size
<1>2. PICK m \in Nat \ {0} : m = Codes(w)
  BY CodesFacts
<1>3. PICK q \in Seq(Byte) : q = Ordered(e, p) /\ Len(q) = w
  BY <1>1, OrderedFacts
<1>4. PICK n \in 0..m - 1 : n = Be(q)
  BY <1>2, <1>3, BeBound
<1>5. Floats[ty] \in [1..m -> Int \cup {NonFinite}]
  BY <1>1, <1>2, FloatAssumption DEF Size
<1>6. ReadRaw(ty, e, p) = Floats[ty][n + 1]
  BY <1>3, <1>4 DEF ReadRaw
<1>7. n + 1 \in DOMAIN Floats[ty]
  BY <1>2, <1>5
<1> QED
  BY <1>6, <1>7 DEF Numbers, Range
-----------------------------------------------------------------------------
(* Decoding, then encoding *)

LEMMA BoolBack ==
  ASSUME NEW d \in GoodDefs, NEW s, s = NewSignal(d), Kind(s) = "Bool",
         NEW p \in Seq(Byte), DecodeValue(s, p).err = None
  PROVE  EncodeValue(s, DecodeValue(s, p).ok) = Ok(p)
<1>1. s.def = d /\ d.ty = "bool" /\ "bool" \in Integral
  BY KindFacts
<1>2. PICK raw : raw = ReadRaw("bool", Endian(s), p)
  OBVIOUS
<1>3. Len(p) = Size("bool") /\ raw \in {0, 1} /\ DecodeValue(s, p) = Ok(Value("Bool", raw = 1))
  BY <1>1, <1>2, WireAssumption DEF DecodeValue, Err
<1>4. Bytes("bool", Endian(s), raw) = p
  BY <1>1, <1>2, <1>3, WrittenOfRead
<1>5. PICK b \in BOOLEAN : b = (raw = 1)
  OBVIOUS
<1>6. raw = IF b THEN 1 ELSE 0
  BY <1>3, <1>5
<1>7. EncodeValue(s, Value("Bool", b)) = Ok(Bytes("bool", Endian(s), IF b THEN 1 ELSE 0))
  <2>1. Value("Bool", b).kind = "Bool" /\ Value("Bool", b).v = b
    BY DEF Value
  <2> QED
    BY <2>1, BoolPayload
<1>8. DecodeValue(s, p).ok = Value("Bool", b)
  BY <1>3, <1>5 DEF Ok
<1> QED
  BY <1>4, <1>6, <1>7, <1>8

LEMMA EnumBack ==
  ASSUME NEW d \in GoodDefs, NEW s, s = NewSignal(d), Kind(s) = "Enum",
         NEW p \in Seq(Byte), DecodeValue(s, p).err = None
  PROVE  EncodeValue(s, DecodeValue(s, p).ok) = Ok(p)
<1>1. s.def = d /\ d.enum # None /\ d.ty \in Integral
  BY KindFacts
<1>2. PICK raw : raw = ReadRaw(d.ty, Endian(s), p)
  OBVIOUS
<1>3. /\ Len(p) = Size(d.ty) /\ EnumLabel(s, raw) # None
      /\ DecodeValue(s, p) = Ok(Value("Enum", EnumLabel(s, raw)))
  BY <1>1, <1>2, WireAssumption DEF DecodeValue, Err
<1>4. PICK i \in DOMAIN d.enum : d.enum[i].raw = raw /\ d.enum[i].label = EnumLabel(s, raw)
  BY <1>1, <1>3, EnumFacts
<1>5. EncodeValue(s, Value("Enum", d.enum[i].label)) = Ok(Bytes(d.ty, Endian(s), d.enum[i].raw))
  BY <1>1, EnumPayload
<1>6. Bytes(d.ty, Endian(s), raw) = p
  BY <1>1, <1>2, <1>3, WrittenOfRead
<1>7. DecodeValue(s, p).ok = Value("Enum", d.enum[i].label)
  BY <1>3, <1>4 DEF Ok
<1> QED
  BY <1>4, <1>5, <1>6, <1>7

\* What a payload is decoded to: the number X, its product y with the scale, and
\* the value w.
NumRead(d, s, p, raw, X, y, w) ==
  /\ Len(p) = Size(d.ty) /\ DecodeValue(s, p) = Ok(Value("Num", w))
  /\ raw = ReadRaw(d.ty, Endian(s), p) /\ raw \in Int
  /\ X = AsFloat(d.ty, raw) /\ X \in F64s /\ X \in Int
  /\ y = Mul(X, d.scale) /\ y \in F64s /\ y \in Int
  /\ w = F64(y + d.offset, 1) /\ w \in Int
  /\ \/ d.ty \in Integral /\ raw \in WireRange(d.ty) /\ Abs(raw) <= I128Max
     \/ d.ty \in FloatTypes /\ raw = X /\ raw \in Numbers(d.ty)

LEMMA NumDecoded ==
  ASSUME NEW d \in GoodDefs, NEW s, s = NewSignal(d), Kind(s) = "Num",
         NEW p \in Seq(Byte), DecodeValue(s, p).err = None
  PROVE  \E raw, X, y, w : NumRead(d, s, p, raw, X, y, w)
<1>1. s.def = d /\ d.ty \in DOMAIN Sizes /\ (d.ty \in Integral \/ d.ty \in FloatTypes)
  BY KindFacts
<1>2. PICK scale \in Int \ {0}, offset \in Int : scale = d.scale /\ offset = d.offset
  BY GoodDefFacts
<1>3. PICK raw : raw = ReadRaw(d.ty, Endian(s), p)
  OBVIOUS
<1>4. PICK w : w = Physical(d, raw)
  OBVIOUS
<1>5. Len(p) = Size(d.ty) /\ w # NonFinite /\ DecodeValue(s, p) = Ok(Value("Num", w))
  BY <1>1, <1>3, <1>4, WireAssumption DEF DecodeValue, Err
<1>6. PICK X : X = AsFloat(d.ty, raw)
  OBVIOUS
<1>7. PICK y : y = IF X = NonFinite THEN NonFinite ELSE Mul(X, scale)
  OBVIOUS
<1>8. w = IF y = NonFinite THEN NonFinite ELSE F64(y + offset, 1)
  BY <1>2, <1>4, <1>6, <1>7 DEF Physical
<1>9. X # NonFinite /\ y # NonFinite /\ y = Mul(X, scale) /\ w = F64(y + offset, 1)
  BY <1>5, <1>7, <1>8
<1>10. /\ raw \in Int /\ X \in F64s /\ X \in Int
       /\ \/ d.ty \in Integral /\ raw \in WireRange(d.ty) /\ Abs(raw) <= I128Max
          \/ d.ty \in FloatTypes /\ raw = X /\ raw \in Numbers(d.ty)
  <2>1. CASE d.ty \in Integral
    <3>1. raw \in WireRange(d.ty) /\ raw \in Int
      BY <1>3, <1>5, <2>1, WrittenOfRead
    <3>2. Abs(raw) <= I128Max
      BY <2>1, <3>1, RangeOfI128
    <3>3. PICK n \in Int : n = raw * ONE
      BY <3>1, Ulps1
    <3>4. X = F64(n, 1)
      BY <1>6, <2>1, <3>3 DEF AsFloat, FromInt, Integral
    <3>5. X \in Int
      BY <1>9, <3>4, F64Parts
    <3>6. X \in F64s
      BY <3>4, <3>5, F64Results
    <3> QED
      BY <2>1, <3>1, <3>2, <3>5, <3>6
  <2>2. CASE d.ty \in FloatTypes
    <3>1. raw = X
      BY <1>6, <2>2 DEF AsFloat
    <3>2. raw \in Numbers(d.ty)
      BY <1>1, <1>3, <1>5, <1>9, <2>2, <3>1, FloatOfRead
    <3>3. raw \in F64s
      BY <1>1, <2>2, <3>2, FloatAssumption
    <3> QED
      BY <2>2, <3>1, <3>2, <3>3 DEF F64s
  <2> QED
    BY <1>1, <2>1, <2>2
<1>11. y \in F64s /\ y \in Int
  <2>1. PICK P \in Int : P = X * scale
    BY <1>10
  <2>2. ONE \in Int \ {0}
    BY Ulps1
  <2>3. y = F64(P, ONE)
    BY <1>9, <2>1 DEF Mul
  <2>4. y \in Int
    BY <1>9, <2>2, <2>3, F64Parts
  <2>5. y \in F64s
    BY <2>2, <2>3, <2>4, F64Results
  <2> QED
    BY <2>4, <2>5
<1>12. w \in Int
  <2>1. y + offset \in Int
    BY <1>11
  <2> QED
    BY <1>5, <1>9, <2>1, F64Parts
<1>13. NumRead(d, s, p, raw, X, y, w)
  BY <1>2, <1>3, <1>5, <1>6, <1>9, <1>10, <1>11, <1>12 DEF NumRead
<1> QED
  BY <1>13

ReadsAs(d, s, back, p) ==
  /\ back.err = None /\ Len(back.ok) = Len(p)
  /\ ReadRaw(d.ty, Endian(s), back.ok) = ReadRaw(d.ty, Endian(s), p)

\* The quotient that is written where the number came from is enough.
LEMMA WrittenBack ==
  ASSUME NEW d \in GoodDefs, NEW s, s = NewSignal(d), Kind(s) = "Num",
         NEW p, NEW raw, NEW X, NEW y, NEW w, NumRead(d, s, p, raw, X, y, w),
         NEW a \in Int, a = F64(w - d.offset, 1), NEW q \in F64s, q = Div(a, d.scale),
         d.ty \in Integral => Round(q) = raw,
         d.ty \in FloatTypes => q = raw
  PROVE  ReadsAs(d, s, EncodeValue(s, DecodeValue(s, p).ok), p)
<1>1. s.def = d /\ d.ty \in DOMAIN Sizes /\ (d.ty \in Integral \/ d.ty \in FloatTypes)
  BY KindFacts
<1>2. PICK r : r = EncodeNum(s, w)
  OBVIOUS
<1>3. DecodeValue(s, p) = Ok(Value("Num", w)) /\ Len(p) = Size(d.ty)
  BY DEF NumRead
<1>4. EncodeValue(s, DecodeValue(s, p).ok) = r
  BY <1>2, <1>3 DEF EncodeValue, Ok, Value
<1>5. a # NonFinite /\ q # NonFinite /\ q \in Int
  BY NoneAssumption DEF F64s
<1>6. Scaled(d, w) = q
  BY <1>5 DEF Scaled
<1>7. CASE d.ty \in Integral
  <2>1. d.ty \notin FloatTypes
    BY <1>7 DEF Integral
  <2>2. raw \in WireRange(d.ty) /\ raw \in Int /\ Abs(raw) <= I128Max
    BY <2>1 DEF NumRead
  <2>3. Saturated(raw) = raw
    <3>1. I128Max \in Nat
      BY FloatAssumption
    <3>2. -I128Max <= raw /\ raw <= I128Max
      BY <2>2, <3>1, AbsFacts
    <3> QED
      BY <2>2, <3>2, SaturatedFacts
  <2>4. r = OrOutOfRange(WriteInt(d.ty, Endian(s), raw))
    BY <1>1, <1>2, <1>5, <1>6, <1>7, <2>1, <2>3 DEF EncodeNum
  <2>5. r = Ok(Bytes(d.ty, Endian(s), raw))
    BY <1>7, <2>2, <2>4, WriteIntFacts
  <2>6. ReadRaw(d.ty, Endian(s), Bytes(d.ty, Endian(s), raw)) = raw
    BY <1>7, <2>2, ReadOfWritten
  <2>7. Len(Bytes(d.ty, Endian(s), raw)) = Size(d.ty)
    BY <1>1, <2>2, BytesType
  <2>8. raw = ReadRaw(d.ty, Endian(s), p)
    BY DEF NumRead
  <2> QED
    BY <1>3, <1>4, <2>5, <2>6, <2>7, <2>8 DEF ReadsAs, Ok
<1>8. CASE d.ty \in FloatTypes
  <2>1. q = raw /\ raw \in Numbers(d.ty) /\ raw = ReadRaw(d.ty, Endian(s), p)
    BY <1>8 DEF NumRead, Integral
  <2>2. PICK z \in Int, b \in Seq(Byte) :
          /\ Carried(d.ty, z, q)
          /\ Len(b) = Size(d.ty) /\ ReadRaw(d.ty, Endian(s), b) = z
          /\ WriteFloat(d.ty, Endian(s), q) =
               IF d.ty = "f32" /\ Abs(q) >= F32Limit THEN None ELSE b
    <3>1. \E z \in Int, b \in Seq(Byte) :
            /\ Carried(d.ty, z, q) /\ z \in F64s
            /\ Len(b) = Size(d.ty) /\ ReadRaw(d.ty, Endian(s), b) = z
            /\ WriteFloat(d.ty, Endian(s), q) =
                 IF d.ty = "f32" /\ Abs(q) >= F32Limit THEN None ELSE b
      <4>1. d.ty \in DOMAIN Sizes /\ d.ty \in FloatTypes /\ q \in F64s
        BY <1>1, <1>8
      <4> QED
        BY ONLY <4>1, FloatWritten, Zenon
    <3> QED
      BY <3>1, Zenon
  <2>3. z = q
    <3>1. CASE d.ty = "f32"
      <4>1. Abs(z - q) <= Abs(q - q)
        BY <2>1, <2>2, <3>1 DEF Carried
      <4> QED
        BY <1>5, <4>1 DEF Abs
    <3>2. CASE d.ty # "f32"
      BY <2>2, <3>2 DEF Carried
    <3> QED
      BY <3>1, <3>2
  <2>4. ~(d.ty = "f32" /\ Abs(q) >= F32Limit)
    <3> SUFFICES ASSUME d.ty = "f32" PROVE ~(Abs(q) >= F32Limit)
      OBVIOUS
    <3>1. PICK l \in Nat : l = F32Limit
      BY FloatAssumption
    <3>2. -l < q /\ q < l
      BY <1>1, <2>1, <3>1, FloatAssumption
    <3> QED
      BY <1>5, <3>1, <3>2 DEF Abs
  <2>5. r = OrOutOfRange(b)
    BY <1>1, <1>2, <1>5, <1>6, <1>8, <2>2, <2>4 DEF EncodeNum
  <2>6. r = Ok(b)
    BY <2>5, BytesNotNone DEF OrOutOfRange
  <2> QED
    BY <1>3, <1>4, <2>1, <2>2, <2>3, <2>6 DEF ReadsAs, Ok
<1> QED
  BY <1>1, <1>7, <1>8

\* A number that was decoded without rounding.
LEMMA ExactBack ==
  ASSUME NEW d \in GoodDefs, NEW raw, NEW X \in Int, X = AsFloat(d.ty, raw), X \in F64s,
         NEW y \in Int, y = Mul(X, d.scale), y \in F64s,
         NEW w \in Int, w = F64(y + d.offset, 1),
         ExactlyPhysical(d, raw)
  PROVE  F64(w - d.offset, 1) = y /\ Div(y, d.scale) = X
<1>1. PICK scale \in Int \ {0}, offset \in Int : scale = d.scale /\ offset = d.offset
  BY GoodDefFacts
<1>2. y * ONE = X * scale /\ w = y + offset
  BY <1>1 DEF ExactlyPhysical, IsF64
<1>3. w - offset = y * 1
  BY <1>1, <1>2
<1>4. F64(w - offset, 1) = y
  BY <1>3, F64Exact
<1>5. Div(y, scale) = F64(X * scale, scale)
  BY <1>2 DEF Div
<1>6. F64(X * scale, scale) = X
  BY F64Exact
<1> QED
  BY <1>1, <1>4, <1>5, <1>6

\* A number that was decoded with roundings below its step.
LEMMA ApartBack ==
  ASSUME NEW d, NEW scale \in Int \ {0}, d.scale = scale, NEW offset \in Int, d.offset = offset,
         NEW w \in Int, Far(d, w), 8 * Unit(d, w) <= Abs(scale),
         NEW raw \in Int, Abs(raw) <= I128Max, NEW X \in Int, X = raw * ONE,
         NEW y \in Int, y = Mul(X, scale), w = F64(y + offset, 1)
  PROVE  /\ F64(w - offset, 1) \in Int
         /\ Div(F64(w - offset, 1), scale) \in F64s
         /\ Round(Div(F64(w - offset, 1), scale)) = raw
<1>1. PICK U \in Nat \ {0}, cU \in Nat :
           /\ U = Unit(d, w) /\ U \in Ulps /\ cU = EXACT * U
           /\ Abs(w) + Abs(offset) + Abs(scale) <= cU
           /\ 8 * U <= cU /\ 4 * cU <= FloatMax
  BY UnitFacts
<1>2. Grid(U)
  BY <1>1, UlpGrid
<1>3. PICK N \in Nat \ {0} : N = ONE /\ Abs(N) = N
  BY Ulps1, AbsFacts
<1>4. PICK F \in Nat, M \in Nat : F = FloatMax /\ M = I128Max /\ (M + 1) * N <= F
  BY <1>3, FloatAssumption
<1>5. PICK S \in Nat \ {0} : S = Abs(scale) /\ 8 * U <= S /\ S <= cU
  BY <1>1, AbsFacts
<1>6. PICK z \in Int : z = y + offset
  OBVIOUS
<1>7. Abs(w) + Abs(offset) + 8 * U <= cU
  BY <1>1, <1>5, AbsFacts
<1>8. Abs(w - z) <= U
  <2>1. w = F64(z, 1) /\ Abs(w) <= EXACT * U /\ Abs(1) = 1
    BY <1>1, <1>6, <1>7, AbsFacts
  <2>2. Abs(F64(z, 1) * 1 - z) <= U * Abs(1)
    BY <1>2, <2>1, F64Back
  <2> QED
    BY <1>1, <2>1, <2>2
<1>9. Abs(z) <= cU /\ Abs(y) <= cU - 7 * U
  BY <1>6, <1>7, <1>8, AbsFacts
<1>10. 2 * Abs(w - z) <= U
  BY <1>1, <1>2, <1>4, <1>6, <1>9, SumFacts
<1>11. PICK P \in Int : P = X * scale
  OBVIOUS
<1>30. PICK UN \in Nat : UN = U * N
  OBVIOUS
<1>31. PICK cUN \in Nat : cUN = cU * N
  OBVIOUS
<1>32. PICK yN \in Int : yN = y * N
  OBVIOUS
<1>12. UN = U * N /\ cUN = cU * N /\ yN = y * N
  BY <1>30, <1>31, <1>32
<1>13. Abs(yN) <= cUN - 7 * UN
  <2>1. PICK ay \in Nat : ay = Abs(y) /\ ay <= cU - 7 * U
    BY <1>9, AbsFacts
  <2>2. ay * N <= (cU - 7 * U) * N
    BY <1>1, <2>1, Monotone
  <2>3. (cU - 7 * U) * N = cUN - 7 * UN
    BY <1>12
  <2>4. Abs(yN) = ay * N
    BY <1>3, <1>12, <2>1, AbsProduct
  <2> QED
    BY <2>2, <2>3, <2>4
<1>14. Abs(yN - P) <= UN
  <2>1. F64(P, N) = y
    BY <1>3, <1>11 DEF Mul
  <2>2. Abs(y) <= EXACT * U
    BY <1>1, <1>9, AbsFacts
  <2>3. Abs(F64(P, N) * N - P) <= U * Abs(N)
    BY <1>2, <2>1, <2>2, F64Back
  <2> QED
    BY <1>3, <1>12, <2>1, <2>3
<1>15. 2 * Abs(yN - P) <= UN
  <2>1. Abs(P) <= cUN
    BY <1>13, <1>14, AbsFacts
  <2>2. cU <= FloatMax /\ Abs(X * scale) <= cU * ONE
    BY <1>1, <1>3, <1>4, <1>11, <1>12, <2>1
  <2>3. 2 * Abs(Mul(X, scale) * ONE - X * scale) <= U * ONE
    BY <1>1, <1>2, <2>2, ProductFacts
  <2> QED
    BY <1>3, <1>11, <1>12, <2>3
<1>16. PICK A \in Int : A = w - offset
  OBVIOUS
<1>17. PICK a \in Int : a = F64(A, 1) /\ 2 * Abs(a - A) <= U /\ Abs(a) <= cU
  <2>1. Abs(A) <= cU /\ cU <= FloatMax
    BY <1>1, <1>4, <1>7, <1>16, AbsFacts
  <2> QED
    BY <1>1, <1>2, <2>1, SumFacts
<1>18. 2 * Abs(a - y) <= 2 * U
  BY <1>6, <1>10, <1>16, <1>17, AbsFacts
<1>19. PICK aN \in Int : aN = a * N
  BY <1>3
<1>20. Abs(aN - yN) <= UN
  <2>1. PICK t \in Nat : t = Abs(a - y) /\ t <= U
    BY <1>18, AbsFacts
  <2>2. t * N <= U * N
    BY <1>1, <2>1, Monotone
  <2>3. aN - yN = (a - y) * N
    BY <1>12, <1>19
  <2>4. Abs((a - y) * N) = Abs(a - y) * N
    BY <1>3, AbsProduct
  <2> QED
    BY <1>12, <2>1, <2>2, <2>3, <2>4
<1>21. 2 * Abs(aN - P) <= 3 * UN
  BY <1>15, <1>20, AbsFacts
<1>22. Div(a, scale) \in Int
  <2>1. PICK r \in Nat : r = Abs(raw) /\ r <= M
    BY <1>4, AbsFacts
  <2>2. PICK NS \in Nat : NS = N * S
    OBVIOUS
  <2>3. Abs(P) = r * NS
    <3>1. Abs(X) = r * N
      BY <1>3, <2>1, AbsProduct
    <3>2. Abs(P) = (r * N) * S
      BY <1>5, <1>11, <3>1, AbsProduct
    <3> QED
      BY <2>2, <3>2
  <2>4. 8 * UN <= NS
    <3>1. (8 * U) * N <= S * N
      BY <1>5, Monotone
    <3> QED
      BY <1>12, <2>2, <3>1
  <2>5. PICK rNS \in Nat : rNS = r * NS
    OBVIOUS
  <2>6. Abs(aN) <= rNS + NS
    BY <1>21, <2>3, <2>4, <2>5, AbsFacts
  <2>7. rNS + NS = (r + 1) * NS
    BY <2>5
  <2>8. (r + 1) * NS <= (M + 1) * NS
    BY <2>1, Monotone
  <2>9. (M + 1) * NS = ((M + 1) * N) * S
    BY <2>2
  <2>10. ((M + 1) * N) * S <= F * S
    BY <1>4, Monotone
  <2>11. Abs(aN) <= FloatMax * Abs(scale)
    <3>1. PICK FS \in Nat : FS = F * S
      OBVIOUS
    <3>2. (M + 1) * NS <= FS
      BY <2>9, <2>10, <3>1
    <3>3. PICK h \in Nat : h = (M + 1) * NS
      OBVIOUS
    <3>4. PICK k \in Nat : k = (r + 1) * NS
      OBVIOUS
    <3>5. rNS + NS <= FS
      BY <2>7, <2>8, <3>2, <3>3, <3>4
    <3>6. Abs(aN) <= FS
      BY <2>6, <3>5, AbsFacts
    <3>7. FS = FloatMax * Abs(scale)
      BY <1>4, <1>5, <3>1
    <3> QED
      BY <3>6, <3>7
  <2>12. F64(aN, scale) \in Int
    BY <2>11, F64Finite
  <2> QED
    BY <1>3, <1>19, <2>12 DEF Div
<1>23. PICK q \in Int : q = Div(a, scale)
  BY <1>22
<1>24. q \in F64s
  BY <1>3, <1>19, <1>22, <1>23, F64Results DEF Div
<1>25. PICK qs \in Int : qs = q * scale
  OBVIOUS
<1>26. Abs(qs - aN) <= UN
  BY <1>1, <1>3, <1>5, <1>12, <1>17, <1>19, <1>22, <1>23, <1>25, QuotientFacts
<1>27. 2 * Abs(qs - P) <= 5 * UN
  BY <1>21, <1>26, AbsFacts
<1>28. 2 * Abs(raw * ONE - q) < ONE
  <2>1. PICK t \in Nat : t = Abs(raw * N - q)
    BY AbsFacts
  <2>2. qs - P = (q - X) * scale
    BY <1>11, <1>25
  <2>3. Abs(q - X) = t
    <3>1. q - X = -(raw * N - q) /\ raw * N - q \in Int
      BY <1>3
    <3> QED
      BY <2>1, <3>1, AbsFacts
  <2>4. Abs(qs - P) = t * S
    BY <1>5, <2>2, <2>3, AbsProduct
  <2>5. PICK NS \in Nat : NS = N * S
    OBVIOUS
  <2>6. 8 * UN <= NS /\ UN > 0
    <3>1. (8 * U) * N <= S * N
      BY <1>5, Monotone
    <3>2. UN > 0
      BY <1>1, <1>12
    <3> QED
      BY <1>12, <2>5, <3>1, <3>2
  <2>7. (2 * t) * S < N * S
    <3>1. PICK tS \in Nat : tS = t * S
      OBVIOUS
    <3>2. 2 * tS < NS
      BY <1>27, <2>4, <2>6, <3>1
    <3> QED
      BY <2>5, <3>1, <3>2
  <2>8. 2 * t < N
    BY <2>7, Monotone
  <2> QED
    BY <1>3, <2>1, <2>8
<1>29. Round(q) = raw
  BY <1>28, RoundFacts
<1> QED
  BY <1>16, <1>17, <1>23, <1>24, <1>29

LEMMA NumBack ==
  ASSUME NEW d \in GoodDefs, NEW s, s = NewSignal(d), Kind(s) = "Num",
         NEW p \in Seq(Byte), DecodeValue(s, p).err = None,
         \/ ExactlyPhysical(d, ReadRaw(d.ty, Endian(s), p))
         \/ Apart(d, ReadRaw(d.ty, Endian(s), p), DecodeValue(s, p).ok.v)
  PROVE  ReadsAs(d, s, EncodeValue(s, DecodeValue(s, p).ok), p)
<1>1. PICK raw, X, y, w : NumRead(d, s, p, raw, X, y, w)
  BY NumDecoded
<1>2. PICK scale \in Int \ {0}, offset \in Int : scale = d.scale /\ offset = d.offset
  BY GoodDefFacts
<1>3. DecodeValue(s, p).ok.v = w /\ raw = ReadRaw(d.ty, Endian(s), p)
  BY <1>1 DEF NumRead, Ok, Value
<1>4. /\ X = AsFloat(d.ty, raw) /\ X \in F64s /\ X \in Int
      /\ y = Mul(X, d.scale) /\ y \in F64s /\ y \in Int
      /\ w = F64(y + d.offset, 1) /\ w \in Int /\ raw \in Int
      /\ d.ty \in FloatTypes => X = raw
      /\ d.ty \in Integral => Abs(raw) <= I128Max
  BY <1>1 DEF NumRead, Integral
<1>5. CASE ExactlyPhysical(d, raw)
  <2>1. F64(w - d.offset, 1) = y /\ Div(y, d.scale) = X
    BY <1>4, <1>5, ExactBack
  <2>2. ASSUME d.ty \in Integral PROVE Round(X) = raw
    <3>1. X = raw * ONE
      BY <1>4, <1>5, <2>2 DEF ExactlyPhysical, Integral
    <3> QED
      BY <1>4, <3>1, RoundMultiple
  <2> QED
    BY <1>1, <1>4, <2>1, <2>2, WrittenBack
<1>6. CASE Apart(d, raw, w)
  <2>1. /\ d.ty \notin FloatTypes /\ FromInt(raw) = raw * ONE
        /\ Far(d, w) /\ 8 * Unit(d, w) <= Abs(scale)
    BY <1>2, <1>6 DEF Apart
  <2>2. d.ty \in Integral /\ Abs(raw) <= I128Max
    BY <1>1, <2>1 DEF NumRead
  <2>3. X = raw * ONE
    BY <1>4, <2>1 DEF AsFloat
  <2>4. /\ F64(w - offset, 1) \in Int
        /\ Div(F64(w - offset, 1), scale) \in F64s
        /\ Round(Div(F64(w - offset, 1), scale)) = raw
    BY <1>2, <1>4, <2>1, <2>2, <2>3, ApartBack
  <2> QED
    BY <1>1, <1>2, <2>1, <2>4, WrittenBack
<1> QED
  BY <1>3, <1>5, <1>6

LEMMA DecodedBack ==
  ASSUME catalog \in Catalogs, read \in Seq(FrameType)
  PROVE  EncodesBack
<1> SUFFICES ASSUME NEW i \in DOMAIN read, NEW s, s = ById(catalog, read[i].signal_id),
                    NEW p, p = read[i].payload, FrameOutcome(read[i]) = "sample"
             PROVE  \/ ReadsAs(s.def, s, EncodeValue(s, DecodeValue(s, p).ok), p)
                    \/ /\ Kind(s) = "Num"
                       /\ ~ExactlyPhysical(s.def, ReadRaw(s.def.ty, Endian(s), p))
                       /\ ~Apart(s.def, ReadRaw(s.def.ty, Endian(s), p), DecodeValue(s, p).ok.v)
  BY DEF EncodesBack, ReadsAs
<1>1. read[i] \in FrameType
  <2>1. i \in 1..Len(read)
    BY LenProperties
  <2> QED
    BY <2>1, ElementOfSeq
<1>2. p \in Seq(Byte)
  BY <1>1 DEF FrameType
<1>3. s # None /\ DecodeValue(s, p).err = None
  BY DEF FrameOutcome
<1>4. PICK j \in DOMAIN catalog.signals : s = catalog.signals[j]
  <2>1. \A id : ById(catalog, id) # None =>
          \E j \in DOMAIN catalog.signals :
             ById(catalog, id) = catalog.signals[j] /\ catalog.signals[j].def.id = id
    BY CatalogFacts
  <2> QED
    BY <1>3, <2>1
<1>5. PICK d \in GoodDefs : s = NewSignal(d) /\ s.def = d
  BY <1>4, SignalFacts
<1>6. Kind(s) \in {"Bool", "Enum", "Num"}
  BY <1>5, KindFacts
<1>7. EncodeValue(s, DecodeValue(s, p).ok) = Ok(p) =>
        ReadsAs(d, s, EncodeValue(s, DecodeValue(s, p).ok), p)
  BY DEF ReadsAs, Ok
<1>8. CASE Kind(s) = "Num"
  BY <1>2, <1>3, <1>5, <1>8, NumBack
<1>9. CASE Kind(s) # "Num"
  BY <1>2, <1>3, <1>5, <1>6, <1>7, <1>9, BoolBack, EnumBack
<1> QED
  BY <1>8, <1>9
-----------------------------------------------------------------------------
(* The packets that are sent *)

\* A frame to encode, and one whose payload fits.
RawFrame ==
  [signal_id : 0..Codes(U16Len) - 1, timestamp_us : 0..Codes(U64Len) - 1, payload : Seq(Byte)]

SentFrame ==
  [signal_id : 0..Codes(U16Len) - 1, timestamp_us : 0..Codes(U64Len) - 1,
   payload : {p \in Seq(Byte) : Len(p) \in Byte}]

LEMMA SentFrameFacts ==
  /\ SentFrame \subseteq FrameType
  /\ \A f \in RawFrame : Len(f.payload) < BASE => f \in SentFrame
<1>1. Codes(U16Len) \in Nat \ {0} /\ Codes(U64Len) \in Nat \ {0}
  BY WireAssumption, CodesFacts
<1>2. SentFrame \subseteq FrameType
  BY <1>1 DEF SentFrame, FrameType
<1>3. ASSUME NEW f \in RawFrame, Len(f.payload) < BASE
      PROVE  f \in SentFrame
  <2>1. Len(f.payload) \in Byte
    BY <1>3, ByteFacts DEF RawFrame, Byte
  <2> QED
    BY <2>1 DEF RawFrame, SentFrame
<1> QED
  BY <1>2, <1>3

LEMMA VehicleFacts ==
  ASSUME catalog \in Catalogs, NEW v \in Vehicles, NEW m, m = Len(Simulated)
  PROVE  /\ m \in Nat /\ DOMAIN Simulated = 1..m /\ DOMAIN v = 1..m /\ Len(v) = m
         /\ \A i \in 1..m :
              /\ v[i] \in SignalValues
              /\ \E j \in DOMAIN catalog.signals : Simulated[i] = catalog.signals[j]
<1>1. PICK t \in Seq(Known) : t = Simulated
  BY SimulatedFacts
<1>2. m \in Nat /\ DOMAIN t = 1..m /\ \A i \in 1..m : t[i] \in Known
  BY <1>1, LenProperties, ElementOfSeq
<1>3. PICK S : v \in [DOMAIN t -> S]
  BY <1>1 DEF Vehicles
<1>4. v \in [1..m -> S]
  BY <1>2, <1>3
<1>5. DOMAIN v = 1..m /\ Len(v) = m
  BY <1>2, <1>4
<1>6. ASSUME NEW i \in 1..m
      PROVE  /\ v[i] \in SignalValues
             /\ \E j \in DOMAIN catalog.signals : t[i] = catalog.signals[j]
  <2>1. v[i] \in Readings[t[i].def.name]
    BY <1>1, <1>5 DEF Vehicles
  <2>2. PICK j \in DOMAIN catalog.signals :
          t[i] = catalog.signals[j] /\ catalog.signals[j].def.name \in DOMAIN Readings
    BY <1>2 DEF Known
  <2>3. Readings[t[i].def.name] \subseteq SignalValues
    BY <2>2, SenderAssumption
  <2> QED
    BY <2>1, <2>2, <2>3
<1> QED
  BY <1>1, <1>2, <1>5, <1>6

\* Frame i carries the value that the i-th signal was given.
SentAs(frames, v, ts, i) ==
  \E d \in GoodDefs, j \in DOMAIN catalog.signals, value \in SignalValues :
     /\ Simulated[i] = NewSignal(d) /\ Simulated[i].def = d
     /\ Simulated[i] = catalog.signals[j]
     /\ v[i] = value /\ EncodeValue(Simulated[i], value).err = None
     /\ frames[i].signal_id = d.id /\ frames[i].timestamp_us = ts
     /\ frames[i].payload = EncodeValue(Simulated[i], value).ok
     /\ Len(frames[i].payload) = Size(d.ty)

LEMMA RawFramesFacts ==
  ASSUME catalog \in Catalogs, NEW v \in Vehicles, Encodable(v), NEW ts \in Stamps,
         NEW frames, frames = RawFrames(v, ts), NEW m, m = Len(Simulated)
  PROVE  /\ frames \in Seq(RawFrame) /\ Len(frames) = m /\ m \in Nat /\ Len(v) = m
         /\ \A i \in 1..m : SentAs(frames, v, ts, i)
<1>1. /\ m \in Nat /\ DOMAIN Simulated = 1..m /\ DOMAIN v = 1..m /\ Len(v) = m
      /\ \A i \in 1..m :
           /\ v[i] \in SignalValues
           /\ \E j \in DOMAIN catalog.signals : Simulated[i] = catalog.signals[j]
  BY VehicleFacts
<1>2. frames = [i \in 1..m |-> [signal_id |-> Simulated[i].def.id, timestamp_us |-> ts,
                                payload |-> EncodeValue(Simulated[i], v[i]).ok]]
  BY <1>1 DEF RawFrames
<1>3. ASSUME NEW i \in 1..m
      PROVE  /\ frames[i] \in RawFrame
             /\ SentAs(frames, v, ts, i)
  <2>1. PICK j \in DOMAIN catalog.signals : Simulated[i] = catalog.signals[j]
    BY <1>1
  <2>2. PICK s : s = Simulated[i]
    OBVIOUS
  <2>3. PICK d \in GoodDefs : s = NewSignal(d) /\ s.def = d
    BY <2>1, <2>2, SignalFacts
  <2>4. PICK value \in SignalValues : value = v[i]
    BY <1>1
  <2>5. EncodeValue(s, value).err = None
    BY <1>1, <2>2, <2>4 DEF Encodable
  <2>6. PICK p \in Seq(Byte) : p = EncodeValue(s, value).ok /\ Len(p) = Size(d.ty)
    BY <2>3, <2>5, EncodeValueType
  <2>7. frames[i] = [signal_id |-> d.id, timestamp_us |-> ts, payload |-> p]
    BY <1>2, <2>2, <2>3, <2>4, <2>6
  <2>8. d.id \in 0..Codes(U16Len) - 1
    BY GoodDefFacts DEF SignalDefs
  <2>9. ts \in 0..Codes(U64Len) - 1
    BY SenderAssumption
  <2>10. frames[i] \in RawFrame
    BY <2>7, <2>8, <2>9 DEF RawFrame
  <2>11. /\ frames[i].signal_id = d.id /\ frames[i].timestamp_us = ts /\ frames[i].payload = p
    BY <2>7
  <2> QED
    BY <2>1, <2>2, <2>3, <2>4, <2>5, <2>6, <2>10, <2>11 DEF SentAs
<1>4. frames \in [1..m -> RawFrame]
  BY <1>2, <1>3
<1>5. frames \in Seq(RawFrame) /\ Len(frames) = m
  BY <1>1, <1>4
<1> QED
  BY <1>1, <1>3, <1>5

Prologue(count) == ToBe(MAGIC, U16Len) \o <<VERSION, count>>

\* The bytes of a packet, and where they are.
LEMMA PacketFacts ==
  ASSUME NEW fs \in Seq(FrameType), NEW c \in Byte
  PROVE  /\ PacketBytes(c, fs) = Prologue(c) \o FrameBytes(fs)
         /\ PacketBytes(c, fs) \in Seq(Byte) /\ FrameBytes(fs) \in Seq(Byte)
         /\ Prologue(c) \in Seq(Byte) /\ Len(Prologue(c)) = PACKET_HEADER_LEN
         /\ PACKET_HEADER_LEN \in Nat /\ PACKET_HEADER_LEN = U16Len + 2 /\ U16Len \in Nat \ {0}
         /\ Len(PacketBytes(c, fs)) = PACKET_HEADER_LEN + Len(FrameBytes(fs))
         /\ \A j \in 1..U16Len : PacketBytes(c, fs)[j] = ToBe(MAGIC, U16Len)[j]
         /\ PacketBytes(c, fs)[U16Len + 1] = VERSION
         /\ PacketBytes(c, fs)[PACKET_HEADER_LEN] = c
         /\ \A j \in 1..Len(FrameBytes(fs)) :
              PacketBytes(c, fs)[PACKET_HEADER_LEN + j] = FrameBytes(fs)[j]
<1>1. PICK b \in Seq(Byte) : b = FrameBytes(fs)
  <2>1. PICK t \in [0..Len(fs) -> Seq(Byte)] : FrameBytes(fs) = t[Len(fs)]
    BY FrameBytesSteps
  <2>2. Len(fs) \in 0..Len(fs)
    BY LenProperties
  <2> QED
    BY <2>1, <2>2
<1>2. U16Len \in Nat \ {0} /\ PACKET_HEADER_LEN = U16Len + 2
  BY WireAssumption DEF PACKET_HEADER_LEN
<1>3. VERSION \in Byte /\ MAGIC \in Nat
  BY SenderAssumption, WireAssumption, ByteFacts DEF Byte
<1>4. PICK magic \in Seq(Byte) : magic = ToBe(MAGIC, U16Len) /\ Len(magic) = U16Len
  BY <1>2, <1>3, ToBeType
<1>5. PICK vc \in Seq(Byte) : vc = <<VERSION, c>> /\ Len(vc) = 2 /\ vc[1] = VERSION /\ vc[2] = c
  <2>1. PICK v \in Byte : v = VERSION
    BY <1>3
  <2>2. <<v, c>> \in Seq(Byte)
    OBVIOUS
  <2>3. Len(<<v, c>>) = 2 /\ <<v, c>>[1] = v /\ <<v, c>>[2] = c
    OBVIOUS
  <2> QED
    BY <2>1, <2>2, <2>3
<1>6. PICK p \in Seq(Byte) : p = magic \o vc
  BY ConcatProperties
<1>7. /\ Len(p) = PACKET_HEADER_LEN /\ \A j \in 1..U16Len : p[j] = magic[j]
      /\ p[U16Len + 1] = VERSION /\ p[PACKET_HEADER_LEN] = c
  <2>1. /\ Len(p) = Len(magic) + Len(vc)
        /\ \A i \in 1..Len(magic) + Len(vc) :
             p[i] = IF i <= Len(magic) THEN magic[i] ELSE vc[i - Len(magic)]
    BY <1>6, ConcatProperties
  <2>2. Len(p) = PACKET_HEADER_LEN
    BY <1>2, <1>4, <1>5, <2>1
  <2>3. \A j \in 1..U16Len : p[j] = magic[j]
    BY <1>2, <1>4, <1>5, <2>1
  <2>4. p[U16Len + 1] = vc[1]
    BY <1>2, <1>4, <1>5, <2>1
  <2>5. p[U16Len + 2] = vc[2]
    BY <1>2, <1>4, <1>5, <2>1
  <2> QED
    BY <1>2, <1>5, <2>2, <2>3, <2>4, <2>5
<1>8. PICK w \in Seq(Byte) : w = p \o b
  BY ConcatProperties
<1>9. /\ Len(w) = PACKET_HEADER_LEN + Len(b)
      /\ \A i \in 1..PACKET_HEADER_LEN : w[i] = p[i]
      /\ \A j \in 1..Len(b) : w[PACKET_HEADER_LEN + j] = b[j]
  <2>1. /\ Len(w) = Len(p) + Len(b)
        /\ \A i \in 1..Len(p) + Len(b) : w[i] = IF i <= Len(p) THEN p[i] ELSE b[i - Len(p)]
    BY <1>8, ConcatProperties
  <2>2. Len(b) \in Nat
    BY <1>1, LenProperties
  <2> QED
    BY <1>2, <1>7, <2>1, <2>2
<1>10. Prologue(c) = p /\ PacketBytes(c, fs) = w
  BY <1>1, <1>4, <1>5, <1>6, <1>8 DEF Prologue, PacketBytes
<1>11. /\ \A j \in 1..U16Len : w[j] = magic[j]
       /\ w[U16Len + 1] = VERSION /\ w[PACKET_HEADER_LEN] = c
  BY <1>2, <1>7, <1>9
<1> QED
  BY <1>1, <1>2, <1>4, <1>7, <1>8, <1>9, <1>10, <1>11

LEMMA EncodedPacket ==
  ASSUME NEW fs \in Seq(RawFrame), EncodePacket(fs).err = None
  PROVE  /\ fs \in Seq(SentFrame) /\ fs \in Seq(FrameType)
         /\ Len(fs) \in 1..MAX_FRAMES /\ Len(fs) \in Byte
         /\ EncodePacket(fs).ok = PacketBytes(Len(fs), fs)
         /\ Len(PacketBytes(Len(fs), fs)) <= MAX_DATAGRAM_LEN
<1>1. PICK n \in Nat : n = Len(fs) /\ DOMAIN fs = 1..n
  BY LenProperties
<1>2. /\ fs # <<>> /\ ~(n > MAX_FRAMES) /\ ~(Len(PacketBytes(n, fs)) > MAX_DATAGRAM_LEN)
      /\ \A i \in 1..n : ~(Len(fs[i].payload) >= BASE)
      /\ EncodePacket(fs).ok = PacketBytes(n, fs)
  BY <1>1, WireAssumption DEF EncodePacket, Err, Ok
<1>3. n \in 1..MAX_FRAMES /\ n \in Byte
  <2>1. n # 0
    BY <1>1, <1>2, EmptySeq
  <2> QED
    BY <1>1, <1>2, <2>1, WireAssumption, SenderAssumption, ByteFacts DEF Byte
<1>4. \A i \in 1..n : fs[i] \in RawFrame
  BY <1>1, ElementOfSeq
<1>5. \A i \in 1..n : fs[i] \in SentFrame
  <2> SUFFICES ASSUME NEW i \in 1..n PROVE fs[i] \in SentFrame
    OBVIOUS
  <2>1. PICK f \in RawFrame : f = fs[i]
    BY <1>4
  <2>2. Len(f.payload) < BASE
    <3>1. Len(f.payload) \in Nat
      BY DEF RawFrame
    <3> QED
      BY <1>2, <2>1, <3>1, ByteFacts
  <2> QED
    BY <2>1, <2>2, SentFrameFacts
<1>6. fs \in Seq(SentFrame)
  <2>1. fs \in [1..n -> SentFrame]
    BY <1>1, <1>5
  <2> QED
    BY <2>1
<1>7. fs \in Seq(FrameType)
  BY <1>6, SentFrameFacts, SeqMonotonic
<1>8. Len(PacketBytes(n, fs)) \in Nat
  BY <1>3, <1>7, PacketFacts, LenProperties
<1> QED
  BY <1>1, <1>2, <1>3, <1>6, <1>7, <1>8, WireAssumption

\* bytes is an encoded packet of the frames fs ...
Packet(fs, bytes) ==
  /\ fs \in Seq(SentFrame) /\ Len(fs) \in 1..MAX_FRAMES /\ Len(fs) \in Byte
  /\ bytes = PacketBytes(Len(fs), fs) /\ Len(bytes) <= MAX_DATAGRAM_LEN

\* ... and b is a datagram that agrees with it as far as both go.
Carries(fs, b) ==
  LET bytes == PacketBytes(Len(fs), fs)
  IN  /\ b \in Seq(Byte) /\ Len(b) >= PACKET_HEADER_LEN
      /\ \A j \in 1..Len(b) : j <= Len(bytes) => b[j] = bytes[j]

LEMMA SentPacket ==
  ASSUME NEW fs \in Seq(RawFrame), EncodePacket(fs).err = None
  PROVE  Packet(fs, EncodePacket(fs).ok)
BY EncodedPacket DEF Packet

LEMMA PacketLength ==
  ASSUME NEW fs, NEW bytes, Packet(fs, bytes)
  PROVE  /\ fs \in Seq(FrameType) /\ bytes \in Seq(Byte)
         /\ Len(bytes) \in Nat /\ Len(bytes) >= PACKET_HEADER_LEN
         /\ PACKET_HEADER_LEN = U16Len + 2 /\ U16Len \in Nat \ {0}
         /\ Carries(fs, bytes)
<1>1. fs \in Seq(FrameType) /\ Len(fs) \in Byte /\ bytes = PacketBytes(Len(fs), fs)
  BY SentFrameFacts, SeqMonotonic DEF Packet
<1>2. /\ bytes \in Seq(Byte) /\ PACKET_HEADER_LEN \in Nat
      /\ PACKET_HEADER_LEN = U16Len + 2 /\ U16Len \in Nat \ {0}
      /\ Len(bytes) = PACKET_HEADER_LEN + Len(FrameBytes(fs)) /\ FrameBytes(fs) \in Seq(Byte)
  BY <1>1, PacketFacts
<1>3. Len(FrameBytes(fs)) \in Nat
  BY <1>2, LenProperties
<1>4. Len(bytes) \in Nat /\ Len(bytes) >= PACKET_HEADER_LEN
  BY <1>2, <1>3
<1> QED
  BY <1>1, <1>2, <1>4 DEF Carries

LEMMA PatchedFacts ==
  ASSUME NEW b \in Seq(Byte), NEW patch \in Seq(Byte), NEW i \in Nat \ {0},
         i + Len(patch) <= Len(b) + 1
  PROVE  /\ Patched(b, i, patch) \in Seq(Byte) /\ Len(Patched(b, i, patch)) = Len(b)
         /\ \A j \in 1..Len(patch) : Patched(b, i, patch)[i + j - 1] = patch[j]
         /\ \A j \in 1..Len(b) : j < i => Patched(b, i, patch)[j] = b[j]
<1>1. PICK n \in Nat : n = Len(b) /\ DOMAIN b = 1..n
  BY LenProperties
<1>2. PICK l \in Nat : l = Len(patch)
  BY LenProperties
<1>3. PICK p : p = Patched(b, i, patch)
  OBVIOUS
<1>4. p = [j \in 1..n |-> IF j \in i..i + l - 1 THEN patch[j - i + 1] ELSE b[j]]
  BY <1>1, <1>2, <1>3 DEF Patched
<1>5. ASSUME NEW j \in 1..n
      PROVE  p[j] \in Byte
  <2>1. CASE j \in i..i + l - 1
    <3>1. j - i + 1 \in 1..l
      BY <2>1, <1>2
    <3>2. patch[j - i + 1] \in Byte
      BY <1>2, <3>1, ElementOfSeq
    <3> QED
      BY <1>4, <2>1, <3>2
  <2>2. CASE j \notin i..i + l - 1
    <3>1. b[j] \in Byte
      BY <1>1, ElementOfSeq
    <3> QED
      BY <1>4, <2>2, <3>1
  <2> QED
    BY <2>1, <2>2
<1>6. p \in [1..n -> Byte]
  BY <1>4, <1>5
<1>7. p \in Seq(Byte) /\ Len(p) = n
  BY <1>6
<1>8. ASSUME NEW j \in 1..l
      PROVE  p[i + j - 1] = patch[j]
  <2>1. i + j - 1 \in 1..n /\ i + j - 1 \in i..i + l - 1 /\ (i + j - 1) - i + 1 = j
    BY <1>1, <1>2
  <2> QED
    BY <1>4, <2>1
<1>9. \A j \in 1..n : j < i => p[j] = b[j]
  BY <1>2, <1>4
<1> QED
  BY <1>1, <1>2, <1>3, <1>7, <1>8, <1>9

LEMMA Magic ==
  ASSUME NEW b \in Seq(Byte), Len(b) >= U16Len, NEW x \in 0..Codes(U16Len) - 1,
         \A j \in 1..U16Len : b[j] = ToBe(x, U16Len)[j]
  PROVE  Be(SubSeq(b, 1, U16Len)) = x
<1>1. U16Len \in Nat \ {0} /\ x \in Nat /\ Len(b) \in Nat
  <2>1. U16Len \in Nat \ {0} /\ Codes(U16Len) \in Nat
    BY WireAssumption, CodesFacts
  <2> QED
    BY <2>1, LenProperties
<1>2. PICK t \in Seq(Byte) : t = ToBe(x, U16Len) /\ Len(t) = U16Len
  BY <1>1, ToBeType
<1>3. PICK one, q : one = 1 /\ q = SubSeq(b, one, U16Len)
  OBVIOUS
<1>4. \A j \in one..U16Len : b[j] \in Byte
  BY <1>1, <1>3, ElementOfSeq
<1>5. one \in Int /\ U16Len \in Int
  BY <1>1, <1>3
<1>6. /\ q \in Seq(Byte) /\ Len(q) = U16Len /\ \A j \in 1..U16Len : q[j] = b[j]
  <2>1. /\ q \in Seq(Byte) /\ Len(q) = IF one <= U16Len THEN U16Len - one + 1 ELSE 0
        /\ \A j \in 1..U16Len - one + 1 : q[j] = b[one + j - 1]
    BY <1>3, <1>4, <1>5, SubSeqProperties
  <2> QED
    BY <1>1, <1>3, <2>1
<1>7. q = t
  BY <1>2, <1>6, SeqEqual
<1> QED
  BY <1>1, <1>2, <1>3, <1>7, BeOfToBe

LEMMA BadMagicSent ==
  ASSUME NEW fs, NEW bytes, Packet(fs, bytes), NEW b \in BadMagic(bytes)
  PROVE  /\ b \in Seq(Byte) /\ Len(b) = Len(bytes)
         /\ Be(SubSeq(b, 1, U16Len)) = OTHER_MAGIC
<1>1. /\ bytes \in Seq(Byte) /\ Len(bytes) \in Nat /\ Len(bytes) >= U16Len + 2
      /\ U16Len \in Nat \ {0}
  BY PacketLength
<1>2. OTHER_MAGIC \in 0..Codes(U16Len) - 1 /\ OTHER_MAGIC \in Nat
  <2>1. Codes(U16Len) \in Nat
    BY <1>1, CodesFacts
  <2> QED
    BY <2>1, SenderAssumption
<1>3. PICK t \in Seq(Byte) : t = ToBe(OTHER_MAGIC, U16Len) /\ Len(t) = U16Len
  BY <1>1, <1>2, ToBeType
<1>4. b = Patched(bytes, 1, t)
  BY <1>3 DEF BadMagic
<1>5. 1 + Len(t) <= Len(bytes) + 1
  BY <1>1, <1>3
<1>6. /\ b \in Seq(Byte) /\ Len(b) = Len(bytes)
      /\ \A j \in 1..Len(t) : b[1 + j - 1] = t[j]
  BY <1>1, <1>4, <1>5, PatchedFacts
<1>7. \A j \in 1..U16Len : b[j] = ToBe(OTHER_MAGIC, U16Len)[j]
  BY <1>1, <1>3, <1>6
<1>8. Len(b) >= U16Len
  BY <1>1, <1>6
<1> QED
  BY <1>2, <1>6, <1>7, <1>8, Magic

LEMMA BadVersionSent ==
  ASSUME NEW fs, NEW bytes, Packet(fs, bytes), NEW b \in BadVersion(bytes)
  PROVE  /\ b \in Seq(Byte) /\ Len(b) = Len(bytes)
         /\ Be(SubSeq(b, 1, U16Len)) = MAGIC /\ b[U16Len + 1] # VERSION
<1>1. /\ bytes \in Seq(Byte) /\ Len(bytes) \in Nat /\ Len(bytes) >= U16Len + 2
      /\ U16Len \in Nat \ {0} /\ fs \in Seq(FrameType)
  BY PacketLength
<1>2. MAGIC \in 0..Codes(U16Len) - 1 /\ VERSION \in Nat /\ BASE \in Nat
  BY SenderAssumption, WireAssumption, ByteFacts
<1>3. PICK v \in VERSION + 1..BASE - 1 : b = Patched(bytes, U16Len + 1, <<v>>)
  BY DEF BadVersion
<1>4. v \in Byte /\ v # VERSION
  BY <1>2, <1>3 DEF Byte
<1>5. PICK t \in Seq(Byte) : t = <<v>> /\ Len(t) = 1 /\ t[1] = v
  <2>1. <<v>> \in Seq(Byte)
    BY <1>4
  <2>2. Len(<<v>>) = 1 /\ <<v>>[1] = v
    OBVIOUS
  <2> QED
    BY <2>1, <2>2
<1>6. U16Len + 1 \in Nat \ {0} /\ (U16Len + 1) + Len(t) <= Len(bytes) + 1
  BY <1>1, <1>5
<1>7. b = Patched(bytes, U16Len + 1, t)
  BY <1>3, <1>5
<1>8. /\ b \in Seq(Byte) /\ Len(b) = Len(bytes)
      /\ \A j \in 1..Len(t) : b[(U16Len + 1) + j - 1] = t[j]
      /\ \A j \in 1..Len(bytes) : j < U16Len + 1 => b[j] = bytes[j]
  BY <1>1, <1>6, <1>7, PatchedFacts
<1>9. b[U16Len + 1] = v
  <2>1. 1 \in 1..Len(t) /\ (U16Len + 1) + 1 - 1 = U16Len + 1
    BY <1>1, <1>5
  <2> QED
    BY <1>5, <1>8, <2>1
<1>10. \A j \in 1..U16Len : b[j] = ToBe(MAGIC, U16Len)[j]
  <2>1. \A j \in 1..U16Len : bytes[j] = ToBe(MAGIC, U16Len)[j]
    BY <1>1, PacketFacts DEF Packet
  <2> QED
    BY <1>1, <1>8, <2>1
<1>11. Len(b) >= U16Len
  BY <1>1, <1>8
<1> QED
  BY <1>2, <1>4, <1>8, <1>9, <1>10, <1>11, Magic

\* What the decoder finds in a header.
LEMMA HeaderFound ==
  ASSUME NEW fs \in Seq(FrameType), NEW c \in Byte, NEW b \in Seq(Byte),
         Len(b) >= PACKET_HEADER_LEN,
         \A j \in 1..PACKET_HEADER_LEN : b[j] = PacketBytes(c, fs)[j]
  PROVE  /\ Be(SubSeq(b, 1, U16Len)) = MAGIC
         /\ b[U16Len + 1] = VERSION /\ b[PACKET_HEADER_LEN] = c
<1>1. PICK w : w = PacketBytes(c, fs)
  OBVIOUS
<1>2. /\ PACKET_HEADER_LEN = U16Len + 2 /\ U16Len \in Nat \ {0}
      /\ \A j \in 1..U16Len : w[j] = ToBe(MAGIC, U16Len)[j]
      /\ w[U16Len + 1] = VERSION
      /\ w[PACKET_HEADER_LEN] = c
  BY <1>1, PacketFacts
<1>3. Len(b) \in Nat /\ Len(b) >= U16Len
  BY <1>2, LenProperties
<1>4. \A j \in 1..U16Len + 2 : b[j] = w[j]
  BY <1>1, <1>2
<1>5. \A j \in 1..U16Len : b[j] = ToBe(MAGIC, U16Len)[j]
  BY <1>2, <1>4
<1>6. MAGIC \in 0..Codes(U16Len) - 1
  BY SenderAssumption
<1>7. b[U16Len + 1] = VERSION /\ b[PACKET_HEADER_LEN] = c
  BY <1>2, <1>4
<1> QED
  BY <1>3, <1>5, <1>6, <1>7, Magic

LEMMA ZeroFramesSent ==
  ASSUME NEW b \in ZeroFrames
  PROVE  /\ b \in Seq(Byte) /\ Len(b) = PACKET_HEADER_LEN
         /\ Be(SubSeq(b, 1, U16Len)) = MAGIC
         /\ b[U16Len + 1] = VERSION /\ b[PACKET_HEADER_LEN] = 0
<1>1. 0 \in Byte /\ <<>> \in Seq(FrameType)
  BY ByteFacts DEF Byte
<1>2. PICK p : p = Prologue(0)
  OBVIOUS
<1>3. /\ PacketBytes(0, <<>>) = p \o FrameBytes(<<>>) /\ p \in Seq(Byte)
      /\ Len(p) = PACKET_HEADER_LEN /\ PACKET_HEADER_LEN \in Nat
  BY <1>1, <1>2, PacketFacts
<1>4. PacketBytes(0, <<>>) = p
  BY <1>3, FrameBytesEmpty, ConcatEmptySeq
<1>5. b = p
  BY <1>2 DEF ZeroFrames, Prologue
<1>6. b \in Seq(Byte) /\ Len(b) >= PACKET_HEADER_LEN
  BY <1>3, <1>5
<1>7. \A j \in 1..PACKET_HEADER_LEN : b[j] = PacketBytes(0, <<>>)[j]
  BY <1>4, <1>5
<1> QED
  BY <1>1, <1>3, <1>5, <1>6, <1>7, HeaderFound

LEMMA TruncatedSent ==
  ASSUME NEW fs, NEW bytes, Packet(fs, bytes), NEW b \in Truncated(bytes, fs),
         FRAME_HEADER_LEN + Len(fs[Len(fs)].payload) <= Len(bytes) - PACKET_HEADER_LEN
  PROVE  /\ b \in Seq(Byte) /\ Carries(fs, b)
         /\ Len(b) < Len(bytes)
         /\ Len(b) >= Len(bytes) - (FRAME_HEADER_LEN + Len(fs[Len(fs)].payload))
<1>1. /\ bytes \in Seq(Byte) /\ Len(bytes) \in Nat /\ Len(bytes) >= PACKET_HEADER_LEN
      /\ fs \in Seq(FrameType) /\ bytes = PacketBytes(Len(fs), fs)
      /\ PACKET_HEADER_LEN = U16Len + 2 /\ U16Len \in Nat \ {0}
  BY PacketLength DEF Packet
<1>2. PICK l \in Nat : l = FRAME_HEADER_LEN + Len(fs[Len(fs)].payload)
  <2>1. Len(fs) \in 1..Len(fs)
    BY WireAssumption DEF Packet
  <2>2. fs[Len(fs)] \in FrameType
    BY <1>1, <2>1, ElementOfSeq
  <2>3. PICK k \in Nat : k = Len(fs[Len(fs)].payload)
    BY <2>2, LenProperties DEF FrameType
  <2>4. FRAME_HEADER_LEN \in Nat
    BY WireAssumption DEF FRAME_HEADER_LEN
  <2>5. FRAME_HEADER_LEN + k \in Nat
    BY <2>4
  <2> QED
    BY <2>3, <2>5
<1>3. PICK c \in 1..l : b = SubSeq(bytes, 1, Len(bytes) - c)
  BY <1>2 DEF Truncated, Last
<1>4. PICK one \in Nat : one = 1
  OBVIOUS
<1>8. PICK m \in Nat : /\ m = Len(bytes) - c /\ b = SubSeq(bytes, one, m)
                       /\ m < Len(bytes) /\ m >= PACKET_HEADER_LEN /\ m >= Len(bytes) - l
  <2>1. PICK n \in Nat, h \in Nat : n = Len(bytes) /\ h = PACKET_HEADER_LEN
    BY <1>1
  <2>2. l <= n - h
    BY <1>2, <2>1
  <2>3. PICK m \in Int : m = n - c
    OBVIOUS
  <2>4. m \in Nat /\ m < n /\ m >= h /\ m >= n - l
    BY <2>2, <2>3
  <2>5. b = SubSeq(bytes, one, m)
    BY <1>3, <1>4, <2>1, <2>3
  <2> QED
    BY <2>1, <2>3, <2>4, <2>5
<1>5. one \in Int /\ m \in Int /\ \A j \in one..m : bytes[j] \in Byte
  BY <1>1, <1>4, <1>8, ElementOfSeq
<1>6. /\ b \in Seq(Byte) /\ Len(b) = IF one <= m THEN m - one + 1 ELSE 0
      /\ \A j \in 1..m - one + 1 : b[j] = bytes[one + j - 1]
  BY <1>8, <1>5, SubSeqProperties
<1>7. Len(b) = m /\ \A j \in 1..m : b[j] = bytes[j]
  BY <1>1, <1>4, <1>8, <1>6
<1> QED
  BY <1>1, <1>2, <1>8, <1>6, <1>7 DEF Carries

LEMMA LongerSent ==
  ASSUME NEW fs, NEW bytes, Packet(fs, bytes), NEW t \in Seq(Byte), Len(t) > 0,
         NEW b, b = bytes \o t
  PROVE  /\ b \in Seq(Byte) /\ Carries(fs, b)
         /\ Len(b) = Len(bytes) + Len(t) /\ Len(b) > Len(bytes)
<1>1. /\ bytes \in Seq(Byte) /\ Len(bytes) \in Nat /\ Len(bytes) >= PACKET_HEADER_LEN
      /\ bytes = PacketBytes(Len(fs), fs) /\ PACKET_HEADER_LEN \in Nat
  BY PacketLength DEF Packet
<1>2. Len(t) \in Nat
  BY LenProperties
<1>3. /\ b \in Seq(Byte) /\ Len(b) = Len(bytes) + Len(t)
      /\ \A i \in 1..Len(bytes) + Len(t) :
           b[i] = IF i <= Len(bytes) THEN bytes[i] ELSE t[i - Len(bytes)]
  BY <1>1, ConcatProperties
<1> QED
  BY <1>1, <1>2, <1>3 DEF Carries

LEMMA OversizeSent ==
  ASSUME NEW fs, NEW bytes, Packet(fs, bytes), NEW b \in Oversize(bytes)
  PROVE  b \in Seq(Byte) /\ Len(b) > MAX_DATAGRAM_LEN
<1>1. PICK k \in 1..MaxExtra :
        b = bytes \o [i \in 1..MAX_DATAGRAM_LEN + k - Len(bytes) |-> 0]
  BY DEF Oversize
<1>2. /\ Len(bytes) \in Nat /\ Len(bytes) <= MAX_DATAGRAM_LEN /\ MAX_DATAGRAM_LEN \in Nat
      /\ k \in Nat /\ k >= 1
  BY PacketLength, WireAssumption, SenderAssumption DEF Packet
<1>3. PICK n \in Nat : n = MAX_DATAGRAM_LEN + k - Len(bytes) /\ n >= 1
  BY <1>2
<1>4. PICK t : t = [i \in 1..n |-> 0]
  OBVIOUS
<1>5. 0 \in Byte
  BY ByteFacts DEF Byte
<1>6. t \in [1..n -> Byte]
  BY <1>4, <1>5
<1>7. t \in Seq(Byte) /\ Len(t) = n
  BY <1>6
<1>8. b = bytes \o t
  BY <1>1, <1>3, <1>4
<1>9. b \in Seq(Byte) /\ Len(b) = Len(bytes) + Len(t)
  <2>1. PICK s \in Seq(Byte) : s = bytes
    BY PacketLength
  <2>2. s \o t \in Seq(Byte) /\ Len(s \o t) = Len(s) + Len(t)
    BY <1>7, ConcatProperties
  <2> QED
    BY <1>8, <2>1, <2>2
<1> QED
  BY <1>2, <1>3, <1>7, <1>9

LEMMA RandomBytesFacts ==
  ASSUME NEW t \in RandomBytes(MaxExtra)
  PROVE  t \in Seq(Byte) /\ Len(t) \in 1..MaxExtra
<1>1. MaxExtra \in Nat /\ 0..1 \subseteq Byte
  <2>1. BASE >= 2
    BY WidthAssumption
  <2> QED
    BY <2>1, SenderAssumption, ByteFacts DEF Byte
<1>2. PICK k \in 1..MaxExtra : t \in [1..k -> 0..1]
  BY DEF RandomBytes
<1>3. t \in [1..k -> Byte] /\ k \in Nat
  BY <1>1, <1>2
<1>4. t \in Seq(Byte) /\ Len(t) = k
  BY <1>3
<1> QED
  BY <1>2, <1>4
-----------------------------------------------------------------------------
(* Where the frames of a packet are *)

Begins(a, b) == Len(a) <= Len(b) /\ \A j \in 1..Len(a) : b[j] = a[j]

LEMMA BeginsLonger ==
  ASSUME NEW a \in Seq(Byte), NEW b \in Seq(Byte), NEW c \in Seq(Byte), Begins(a, b)
  PROVE  Begins(a, b \o c)
<1>1. Len(a) \in Nat /\ Len(b) \in Nat /\ Len(c) \in Nat
  BY LenProperties
<1>2. /\ Len(b \o c) = Len(b) + Len(c)
      /\ \A i \in 1..Len(b) + Len(c) : (b \o c)[i] = IF i <= Len(b) THEN b[i] ELSE c[i - Len(b)]
  BY ConcatProperties
<1>3. PICK d : d = b \o c
  OBVIOUS
<1>4. Len(d) = Len(b) + Len(c) /\ \A i \in 1..Len(b) : d[i] = b[i]
  BY <1>1, <1>2, <1>3
<1>5. Begins(a, d)
  BY <1>1, <1>4 DEF Begins
<1> QED
  BY <1>3, <1>5

\* The frames rd are the first of fs.
Leads(rd, fs) == Len(rd) <= Len(fs) /\ \A i \in 1..Len(rd) : rd[i] = fs[i]

LEMMA FrameAt ==
  ASSUME NEW fs \in Seq(FrameType), NEW rd \in Seq(FrameType), Leads(rd, fs),
         NEW m, m = Len(fs), NEW k, k = Len(rd)
  PROVE  /\ k = m => FrameBytes(rd) = FrameBytes(fs)
         /\ k < m =>
              LET p == Len(FrameBytes(rd))
                  e == EncodeFrame(fs[k + 1])
              IN  /\ p + Len(e) <= Len(FrameBytes(fs))
                  /\ k + 1 = m => p + Len(e) = Len(FrameBytes(fs))
                  /\ k + 1 < m => p + Len(e) + Len(EncodeFrame(fs[m])) <= Len(FrameBytes(fs))
                  /\ \A j \in 1..Len(e) : FrameBytes(fs)[p + j] = e[j]
<1>1. m \in Nat /\ k \in Nat /\ k <= m /\ \A i \in 1..k : rd[i] = fs[i]
  BY LenProperties DEF Leads
<1>2. PICK t \in [0..m -> Seq(Byte)] :
        /\ t[0] = <<>> /\ \A i \in 1..m : t[i] = t[i - 1] \o EncodeFrame(fs[i])
        /\ FrameBytes(fs) = t[m]
  BY FrameBytesSteps
<1>3. PICK u \in [0..k -> Seq(Byte)] :
        /\ u[0] = <<>> /\ \A i \in 1..k : u[i] = u[i - 1] \o EncodeFrame(rd[i])
        /\ FrameBytes(rd) = u[k]
  BY FrameBytesSteps
<1>4. u[0] = t[0] /\ GoesAlong(u, t, k)
  <2>1. u[0] = t[0]
    BY <1>2, <1>3
  <2> SUFFICES ASSUME NEW i \in 1..k, u[i - 1] = t[i - 1]
               PROVE  u[i] = t[i]
    BY <2>1 DEF GoesAlong
  <2>2. i \in 1..m /\ rd[i] = fs[i]
    BY <1>1
  <2>3. t[i] = t[i - 1] \o EncodeFrame(fs[i])
    BY <1>2, <2>2
  <2>4. u[i] = u[i - 1] \o EncodeFrame(rd[i])
    BY <1>3
  <2> QED
    BY <2>2, <2>3, <2>4
<1>5. \A i \in 0..k : u[i] = t[i]
  <2>1. Same(u, t, k)
    BY <1>1, <1>4, SameTables
  <2> QED
    BY <2>1 DEF Same
<1>6. FrameBytes(rd) = t[k]
  BY <1>1, <1>3, <1>5
<1>7. CASE k = m
  BY <1>1, <1>2, <1>6, <1>7
<1>8. CASE k < m
  <2>1. PICK e \in Seq(Byte) : e = EncodeFrame(fs[k + 1])
    <3>1. k + 1 \in 1..Len(fs)
      BY <1>1, <1>8
    <3>2. fs[k + 1] \in FrameType
      BY <3>1, ElementOfSeq
    <3> QED
      BY <3>2, EncodeFrameType
  <2>2. PICK a \in Seq(Byte) : a = t[k]
    BY <1>1, <1>8
  <2>3. PICK b \in Seq(Byte) : b = t[k + 1]
    BY <1>1, <1>8
  <2>4. b = a \o e
    <3>1. k + 1 \in 1..m /\ (k + 1) - 1 = k
      BY <1>1, <1>8
    <3> QED
      BY <1>2, <2>1, <2>2, <2>3, <3>1
  <2>5. Len(a) \in Nat /\ Len(e) \in Nat
    BY LenProperties
  <2>6. /\ Len(b) = Len(a) + Len(e)
        /\ \A j \in 1..Len(e) : b[Len(a) + j] = e[j]
    <3>1. /\ Len(b) = Len(a) + Len(e)
          /\ \A i \in 1..Len(a) + Len(e) : b[i] = IF i <= Len(a) THEN a[i] ELSE e[i - Len(a)]
      BY <2>4, ConcatProperties
    <3>2. ASSUME NEW j \in 1..Len(e)
          PROVE  b[Len(a) + j] = e[j]
      <4>0. Len(a) + j \in 1..Len(a) + Len(e) /\ ~(Len(a) + j <= Len(a)) /\ (Len(a) + j) - Len(a) = j
        BY <2>5
      <4>1. PICK i \in 1..Len(a) + Len(e) : i = Len(a) + j /\ ~(i <= Len(a)) /\ i - Len(a) = j
        BY <4>0
      <4> QED
        BY <3>1, <4>1
    <3> QED
      BY <3>1, <3>2
  <2>7. Begins(b, t[m]) /\ (k + 1 < m => Begins(b, t[m - 1]))
    <3> DEFINE S == {i \in 0..m : k + 1 <= i => Begins(b, t[i])}
    <3>1. 0 \in S
      BY <1>1
    <3>2. ASSUME NEW i \in 1..m, i - 1 \in S
          PROVE  i \in S
      <4> SUFFICES ASSUME k + 1 <= i PROVE Begins(b, t[i])
        BY <1>1
      <4>1. CASE i = k + 1
        BY <2>3, <4>1 DEF Begins
      <4>2. CASE i # k + 1
        <5>1. k + 1 <= i - 1 /\ i - 1 \in 0..m
          BY <1>1, <4>2
        <5>2. Begins(b, t[i - 1])
          BY <3>2, <5>1
        <5>3. t[i - 1] \in Seq(Byte)
          BY <5>1
        <5>4. EncodeFrame(fs[i]) \in Seq(Byte)
          <6>1. fs[i] \in FrameType
            BY ElementOfSeq
          <6> QED
            BY <6>1, EncodeFrameType
        <5>5. Begins(b, t[i - 1] \o EncodeFrame(fs[i]))
          BY <5>2, <5>3, <5>4, BeginsLonger
        <5> QED
          BY <1>2, <5>5
      <4> QED
        BY <4>1, <4>2
    <3>3. \A i \in 0..m : i \in S
      <4> HIDE DEF S
      <4> QED
        BY <1>1, <3>1, <3>2, Climb
    <3>4. m \in S
      <4>1. m \in 0..m
        BY <1>1
      <4> QED
        BY <3>3, <4>1
    <3>5. k + 1 <= m
      BY <1>1, <1>8
    <3>6. ASSUME k + 1 < m
          PROVE  Begins(b, t[m - 1])
      <4>1. m - 1 \in 0..m /\ k + 1 <= m - 1
        BY <1>1, <3>6
      <4>2. m - 1 \in S
        BY <3>3, <4>1
      <4> QED
        BY <4>1, <4>2
    <3> QED
      BY <3>4, <3>5, <3>6
  <2>8. Len(b) <= Len(t[m]) /\ \A j \in 1..Len(b) : t[m][j] = b[j]
    BY <2>7 DEF Begins
  <2>9. k + 1 = m => b = t[m]
    BY <2>3
  <2>10. \A j \in 1..Len(e) : t[m][Len(a) + j] = e[j]
    BY <2>5, <2>6, <2>8
  <2>11. ASSUME k + 1 < m
         PROVE  Len(a) + Len(e) + Len(EncodeFrame(fs[m])) <= Len(t[m])
    <3>1. Len(b) <= Len(t[m - 1])
      BY <2>7, <2>11 DEF Begins
    <3>2. PICK c \in Seq(Byte), d \in Seq(Byte) : c = t[m - 1] /\ d = EncodeFrame(fs[m])
      <4>1. m - 1 \in 0..m /\ m \in 1..Len(fs)
        BY <1>1, <2>11
      <4>2. fs[m] \in FrameType
        BY <4>1, ElementOfSeq
      <4> QED
        BY <4>1, <4>2, EncodeFrameType
    <3>3. t[m] = c \o d
      <4>1. m \in 1..m
        BY <1>1, <2>11
      <4> QED
        BY <1>2, <3>2, <4>1
    <3>4. Len(c \o d) = Len(c) + Len(d) /\ Len(c) \in Nat /\ Len(d) \in Nat
      BY ConcatProperties, LenProperties
    <3> QED
      BY <2>5, <2>6, <3>1, <3>2, <3>3, <3>4
  <2> QED
    BY <1>1, <1>2, <1>6, <1>8, <2>1, <2>2, <2>6, <2>8, <2>9, <2>10, <2>11
<1> QED
  BY <1>1, <1>7, <1>8

\* Where the frame after rd is in the bytes of fs.
NextAt(fs, rd) ==
  LET p == Len(FrameBytes(rd))
      e == EncodeFrame(fs[Len(rd) + 1])
  IN  /\ p + Len(e) <= Len(FrameBytes(fs))
      /\ Len(rd) + 1 = Len(fs) => p + Len(e) = Len(FrameBytes(fs))
      /\ Len(rd) + 1 < Len(fs) => p + Len(e) + Len(EncodeFrame(fs[Len(fs)])) <= Len(FrameBytes(fs))
      /\ \A j \in 1..Len(e) : FrameBytes(fs)[p + j] = e[j]

LEMMA NextFrameAt ==
  ASSUME NEW fs \in Seq(FrameType), NEW rd \in Seq(FrameType), Leads(rd, fs), Len(rd) < Len(fs)
  PROVE  NextAt(fs, rd)
BY FrameAt DEF NextAt

FoundAt(b, k, t) == k + Len(t) <= Len(b) /\ \A j \in 1..Len(t) : b[k + j] = t[j]

LEMMA FieldIs ==
  ASSUME NEW b \in Seq(Byte), NEW k \in Nat, NEW t \in Seq(Byte), FoundAt(b, k, t)
  PROVE  SubSeq(b, k + 1, k + Len(t)) = t
<1>0. PICK w \in Nat : w = Len(t)
  BY LenProperties
<1>1. PICK i \in Nat, l \in Nat :
        i = k + 1 /\ l = k + w /\ l <= Len(b) /\ \A j \in 1..w : b[k + j] = t[j]
  <2>1. k + w <= Len(b) /\ \A j \in 1..w : b[k + j] = t[j]
    BY <1>0 DEF FoundAt
  <2>2. k + 1 \in Nat /\ k + w \in Nat
    OBVIOUS
  <2> QED
    BY <2>1, <2>2
<1>2. \A j \in i..l : b[j] \in Byte
  BY <1>1, LenProperties, ElementOfSeq
<1>3. PICK q : q = SubSeq(b, i, l)
  OBVIOUS
<1>4. i \in Int /\ l \in Int
  BY <1>1
<1>5. /\ q \in Seq(Byte) /\ Len(q) = IF i <= l THEN l - i + 1 ELSE 0
      /\ \A j \in 1..l - i + 1 : q[j] = b[i + j - 1]
  BY <1>2, <1>3, <1>4, SubSeqProperties
<1>6. Len(q) = w
  BY <1>1, <1>5
<1>7. ASSUME NEW j \in 1..w
      PROVE  q[j] = t[j]
  <2>1. j \in 1..l - i + 1 /\ i + j - 1 = k + j
    BY <1>1
  <2> QED
    BY <1>1, <1>5, <2>1
<1>8. q = t
  BY <1>0, <1>5, <1>6, <1>7, SeqEqual
<1> QED
  BY <1>0, <1>1, <1>3, <1>8

LEMMA EncodedAt ==
  ASSUME NEW f \in SentFrame, NEW e, e = EncodeFrame(f)
  PROVE  /\ e \in Seq(Byte) /\ Len(f.payload) \in Byte /\ Len(f.payload) \in Nat
         /\ FRAME_HEADER_LEN = U16Len + U64Len + 1
         /\ U16Len \in Nat \ {0} /\ U64Len \in Nat \ {0} /\ FRAME_HEADER_LEN \in Nat
         /\ Len(e) = FRAME_HEADER_LEN + Len(f.payload)
         /\ \A j \in 1..U16Len : e[j] = ToBe(f.signal_id, U16Len)[j]
         /\ \A j \in 1..U64Len : e[U16Len + j] = ToBe(f.timestamp_us, U64Len)[j]
         /\ e[FRAME_HEADER_LEN] = Len(f.payload)
         /\ \A j \in 1..Len(f.payload) : e[FRAME_HEADER_LEN + j] = f.payload[j]
<1>1. /\ U16Len \in Nat \ {0} /\ U64Len \in Nat \ {0}
      /\ FRAME_HEADER_LEN = U16Len + U64Len + 1 /\ FRAME_HEADER_LEN \in Nat
  BY WireAssumption DEF FRAME_HEADER_LEN
<1>2. f \in FrameType
  BY SentFrameFacts
<1>3. PICK n \in Nat : n = Len(f.payload) /\ n \in Byte
  BY <1>2, LenProperties DEF FrameType
<1>4. PICK p \in Seq(Byte) : p = f.payload /\ Len(p) = n
  BY <1>2, <1>3 DEF FrameType
<1>5. PICK a \in Seq(Byte) : a = ToBe(f.signal_id, U16Len) /\ Len(a) = U16Len
  BY <1>1, <1>2, ToBeType DEF FrameType
<1>6. PICK b \in Seq(Byte) : b = ToBe(f.timestamp_us, U64Len) /\ Len(b) = U64Len
  BY <1>1, <1>2, ToBeType DEF FrameType
<1>7. PICK c \in Seq(Byte) : c = <<n>> /\ Len(c) = 1 /\ c[1] = n
  <2>1. <<n>> \in Seq(Byte)
    BY <1>3
  <2>2. Len(<<n>>) = 1 /\ <<n>>[1] = n
    OBVIOUS
  <2> QED
    BY <2>1, <2>2
<1>8. e = ((a \o b) \o c) \o p
  BY <1>3, <1>4, <1>5, <1>6, <1>7 DEF EncodeFrame
<1>9. PICK ab \in Seq(Byte) :
        /\ ab = a \o b /\ Len(ab) = U16Len + U64Len
        /\ \A j \in 1..U16Len : ab[j] = a[j]
        /\ \A j \in 1..U64Len : ab[U16Len + j] = b[j]
  <2>1. PICK ab \in Seq(Byte) : ab = a \o b
    BY ConcatProperties
  <2>2. /\ Len(ab) = U16Len + U64Len
        /\ \A i \in 1..U16Len + U64Len : ab[i] = IF i <= U16Len THEN a[i] ELSE b[i - U16Len]
    BY <1>5, <1>6, <2>1, ConcatProperties
  <2>3. \A j \in 1..U64Len : /\ U16Len + j \in 1..U16Len + U64Len
                             /\ ~(U16Len + j <= U16Len) /\ (U16Len + j) - U16Len = j
    BY <1>1
  <2>4. \A j \in 1..U16Len : ab[j] = a[j]
    BY <1>1, <2>2
  <2>5. \A j \in 1..U64Len : ab[U16Len + j] = b[j]
    BY <2>2, <2>3
  <2> QED
    BY <2>1, <2>2, <2>4, <2>5
<1>10. PICK abc \in Seq(Byte) :
        /\ abc = ab \o c /\ Len(abc) = FRAME_HEADER_LEN
        /\ \A j \in 1..U16Len + U64Len : abc[j] = ab[j]
        /\ abc[FRAME_HEADER_LEN] = n
  <2>1. PICK abc \in Seq(Byte) : abc = ab \o c
    BY ConcatProperties
  <2>2. /\ Len(abc) = Len(ab) + Len(c)
        /\ \A i \in 1..Len(ab) + Len(c) : abc[i] = IF i <= Len(ab) THEN ab[i] ELSE c[i - Len(ab)]
    BY <2>1, ConcatProperties
  <2>3. Len(abc) = FRAME_HEADER_LEN
    BY <1>1, <1>7, <1>9, <2>2
  <2>4. \A j \in 1..U16Len + U64Len : abc[j] = ab[j]
    BY <1>1, <1>7, <1>9, <2>2
  <2>5. abc[FRAME_HEADER_LEN] = c[1]
    BY <1>1, <1>7, <1>9, <2>2
  <2> QED
    BY <1>7, <2>1, <2>3, <2>4, <2>5
<1>11. /\ e \in Seq(Byte) /\ Len(e) = FRAME_HEADER_LEN + n
       /\ \A j \in 1..FRAME_HEADER_LEN : e[j] = abc[j]
       /\ \A j \in 1..n : e[FRAME_HEADER_LEN + j] = p[j]
  <2>1. e = abc \o p
    BY <1>8, <1>9, <1>10
  <2>2. /\ e \in Seq(Byte) /\ Len(e) = FRAME_HEADER_LEN + n
        /\ \A i \in 1..FRAME_HEADER_LEN + n :
             e[i] = IF i <= FRAME_HEADER_LEN THEN abc[i] ELSE p[i - FRAME_HEADER_LEN]
    <3>1. /\ abc \o p \in Seq(Byte) /\ Len(abc \o p) = Len(abc) + Len(p)
          /\ \A i \in 1..Len(abc) + Len(p) :
               (abc \o p)[i] = IF i <= Len(abc) THEN abc[i] ELSE p[i - Len(abc)]
      BY ConcatProperties
    <3>2. Len(abc) = FRAME_HEADER_LEN /\ Len(p) = n
      BY <1>4, <1>10
    <3> QED
      BY <2>1, <3>1, <3>2
  <2>3. \A j \in 1..n : /\ FRAME_HEADER_LEN + j \in 1..FRAME_HEADER_LEN + n
                        /\ ~(FRAME_HEADER_LEN + j <= FRAME_HEADER_LEN)
                        /\ (FRAME_HEADER_LEN + j) - FRAME_HEADER_LEN = j
    BY <1>1
  <2>4. \A j \in 1..FRAME_HEADER_LEN : e[j] = abc[j]
    BY <1>1, <2>2
  <2>5. \A j \in 1..n : e[FRAME_HEADER_LEN + j] = p[j]
    BY <2>2, <2>3
  <2> QED
    BY <2>2, <2>4, <2>5
<1>12. \A j \in 1..U16Len : e[j] = a[j]
  BY <1>1, <1>9, <1>10, <1>11
<1>13. \A j \in 1..U64Len : e[U16Len + j] = b[j]
  <2>1. \A j \in 1..U64Len : U16Len + j \in 1..FRAME_HEADER_LEN /\ U16Len + j \in 1..U16Len + U64Len
    BY <1>1
  <2> QED
    BY <1>9, <1>10, <1>11, <2>1
<1>14. e[FRAME_HEADER_LEN] = n
  <2>1. FRAME_HEADER_LEN \in 1..FRAME_HEADER_LEN
    BY <1>1
  <2>2. e[FRAME_HEADER_LEN] = abc[FRAME_HEADER_LEN]
    BY <1>11, <2>1
  <2> QED
    BY <1>10, <2>2
<1> QED
  BY <1>1, <1>3, <1>4, <1>5, <1>6, <1>11, <1>12, <1>13, <1>14

\* Where the fields of a frame are in its bytes.
Layout(f, e) ==
  /\ FRAME_HEADER_LEN = U16Len + U64Len + 1
  /\ Len(e) = FRAME_HEADER_LEN + Len(f.payload)
  /\ \A j \in 1..U16Len : e[j] = ToBe(f.signal_id, U16Len)[j]
  /\ \A j \in 1..U64Len : e[U16Len + j] = ToBe(f.timestamp_us, U64Len)[j]
  /\ e[FRAME_HEADER_LEN] = Len(f.payload)
  /\ \A j \in 1..Len(f.payload) : e[FRAME_HEADER_LEN + j] = f.payload[j]

LEMMA LaidOut ==
  ASSUME NEW f \in SentFrame
  PROVE  Layout(f, EncodeFrame(f))
<1>1. PICK e : e = EncodeFrame(f)
  OBVIOUS
<1>2. FRAME_HEADER_LEN = U16Len + U64Len + 1
  BY EncodedAt
<1>3. Len(e) = FRAME_HEADER_LEN + Len(f.payload)
  BY <1>1, EncodedAt
<1>4. \A j \in 1..U16Len : e[j] = ToBe(f.signal_id, U16Len)[j]
  BY <1>1, EncodedAt
<1>5. \A j \in 1..U64Len : e[U16Len + j] = ToBe(f.timestamp_us, U64Len)[j]
  BY <1>1, EncodedAt
<1>6. e[FRAME_HEADER_LEN] = Len(f.payload)
  BY <1>1, EncodedAt
<1>7. \A j \in 1..Len(f.payload) : e[FRAME_HEADER_LEN + j] = f.payload[j]
  BY <1>1, EncodedAt
<1>8. Layout(f, e)
  BY <1>2, <1>3, <1>4, <1>5, <1>6, <1>7, Zenon DEF Layout
<1> QED
  BY <1>1, <1>8

\* A frame that the bytes at the cursor begin with is the frame at the cursor.
LEMMA FrameIs ==
  ASSUME buf \in Seq(Byte), pos \in 0..Len(buf), NEW f \in SentFrame,
         NEW e, e = EncodeFrame(f),
         \A j \in 1..Len(e) : pos + j <= Len(buf) => buf[pos + j] = e[j]
  PROVE  /\ Complete <=> pos + Len(e) <= Len(buf)
         /\ Complete => /\ Frame = f /\ PayloadLen = Len(f.payload)
                        /\ Len(e) = FRAME_HEADER_LEN + PayloadLen
<1>1. PICK n \in Nat, p \in Nat : n = Len(buf) /\ p = pos /\ p <= n
  BY LenProperties
<1>2. PICK l \in Nat : l = Len(f.payload) /\ l \in Byte
  BY EncodedAt
<1>3. PICK w \in Nat \ {0}, x \in Nat \ {0} : w = U16Len /\ x = U64Len
  BY EncodedAt
<1>4. /\ FRAME_HEADER_LEN = w + x + 1
      /\ Len(e) = w + x + 1 + l
      /\ \A j \in 1..w : e[j] = ToBe(f.signal_id, w)[j]
      /\ \A j \in 1..x : e[w + j] = ToBe(f.timestamp_us, x)[j]
      /\ e[w + x + 1] = l
      /\ \A j \in 1..l : e[(w + x + 1) + j] = f.payload[j]
  <2>1. /\ FRAME_HEADER_LEN = U16Len + U64Len + 1
        /\ Len(e) = FRAME_HEADER_LEN + Len(f.payload)
        /\ \A j \in 1..U16Len : e[j] = ToBe(f.signal_id, U16Len)[j]
        /\ \A j \in 1..U64Len : e[U16Len + j] = ToBe(f.timestamp_us, U64Len)[j]
        /\ e[FRAME_HEADER_LEN] = Len(f.payload)
        /\ \A j \in 1..Len(f.payload) : e[FRAME_HEADER_LEN + j] = f.payload[j]
    <3>1. Layout(f, e)
      BY LaidOut
    <3> QED
      BY <3>1 DEF Layout
  <2>2. FRAME_HEADER_LEN = w + x + 1
    BY <1>3, <2>1
  <2> QED
    BY <1>2, <1>3, <2>1, <2>2
<1>5. CASE p + (w + x + 1) > n
  <2>1. ~Complete
    BY <1>1, <1>4, <1>5 DEF Complete, Remaining
  <2>2. ~(pos + Len(e) <= Len(buf))
    BY <1>1, <1>4, <1>5
  <2> QED
    BY <2>1, <2>2
<1>6. CASE p + (w + x + 1) <= n
  <2>1. PayloadLen = l
    <3>1. w + x + 1 \in 1..Len(e)
      BY <1>4
    <3> QED
      BY <1>1, <1>4, <1>6, <3>1 DEF PayloadLen
  <2>2. Complete <=> p + (w + x + 1 + l) <= n
    BY <1>1, <1>4, <1>6, <2>1 DEF Complete, Remaining
  <2>3. ASSUME Complete
        PROVE  Frame = f
    <3>1. \A j \in 1..w + x + 1 + l : buf[p + j] = e[j]
      BY <1>1, <1>4, <2>2, <2>3, SMTT(30)
    <3>2. PICK a \in Seq(Byte) : a = ToBe(f.signal_id, w) /\ Len(a) = w
      BY <1>3, SentFrameFacts, ToBeType DEF FrameType
    <3>3. PICK b \in Seq(Byte) : b = ToBe(f.timestamp_us, x) /\ Len(b) = x
      BY <1>3, SentFrameFacts, ToBeType DEF FrameType
    <3>4. PICK q \in Seq(Byte) : q = f.payload /\ Len(q) = l
      BY <1>2 DEF SentFrame
    <3>5. Field(0, w) = a
      <4>1. \A j \in 1..w : buf[p + j] = a[j]
        <5>1. \A j \in 1..w : j \in 1..w + x + 1 + l
          OBVIOUS
        <5> QED
          BY <1>4, <3>1, <3>2, <5>1
      <4>2. p + w <= Len(buf)
        BY <1>1, <2>2, <2>3
      <4>3. SubSeq(buf, p + 1, p + w) = a
        <5>1. FoundAt(buf, p, a)
          BY <3>2, <4>1, <4>2 DEF FoundAt
        <5> QED
          BY <3>2, <5>1, FieldIs
      <4>4. PICK r : r = p + 0 /\ r = p
        OBVIOUS
      <4>5. Field(0, w) = SubSeq(buf, r + 1, r + w)
        BY <1>1, <4>4 DEF Field
      <4> QED
        BY <4>3, <4>4, <4>5
    <3>6. Field(w, x) = b
      <4>1. PICK r \in Nat : r = p + w
        OBVIOUS
      <4>2. \A j \in 1..x : buf[r + j] = b[j]
        <5>1. \A j \in 1..x : w + j \in 1..w + x + 1 + l /\ r + j = p + (w + j)
          BY <4>1
        <5>2. \A j \in 1..x : buf[p + (w + j)] = e[w + j] /\ e[w + j] = b[j]
          BY <1>4, <3>1, <3>3, <5>1
        <5> QED
          BY <5>1, <5>2
      <4>3. r + x <= Len(buf)
        BY <1>1, <2>2, <2>3, <4>1
      <4>4. SubSeq(buf, r + 1, r + x) = b
        <5>1. FoundAt(buf, r, b)
          BY <3>3, <4>2, <4>3 DEF FoundAt
        <5> QED
          BY <3>3, <5>1, FieldIs
      <4> QED
        BY <1>1, <4>1, <4>4 DEF Field
    <3>7. Field(w + x + 1, l) = q
      <4>1. PICK h \in Nat : h = w + x + 1
        OBVIOUS
      <4>2. PICK r \in Nat : r = p + h
        OBVIOUS
      <4>3. \A j \in 1..l : buf[r + j] = q[j]
        <5>1. \A j \in 1..l : h + j \in 1..w + x + 1 + l /\ r + j = p + (h + j)
          BY <4>1, <4>2
        <5>2. \A j \in 1..l : buf[p + (h + j)] = e[h + j] /\ e[h + j] = q[j]
          BY <1>4, <3>1, <3>4, <4>1, <5>1
        <5> QED
          BY <5>1, <5>2
      <4>4. r + l <= Len(buf)
        BY <1>1, <2>2, <2>3, <4>1, <4>2
      <4>5. SubSeq(buf, r + 1, r + l) = q
        <5>1. FoundAt(buf, r, q)
          BY <3>4, <4>3, <4>4 DEF FoundAt
        <5> QED
          BY <3>4, <5>1, FieldIs
      <4>6. Field(h, l) = q
        BY <1>1, <4>2, <4>5 DEF Field
      <4> QED
        BY <4>1, <4>6
    <3>8. Be(a) = f.signal_id /\ Be(b) = f.timestamp_us
      BY <1>3, <3>2, <3>3, BeOfToBe DEF SentFrame
    <3>9. Frame = [signal_id |-> f.signal_id, timestamp_us |-> f.timestamp_us,
                   payload |-> f.payload]
      BY <1>3, <1>4, <2>1, <3>4, <3>5, <3>6, <3>7, <3>8 DEF Frame
    <3> QED
      BY <3>9 DEF SentFrame
  <2> QED
    BY <1>1, <1>2, <1>4, <2>1, <2>2, <2>3
<1> QED
  BY <1>1, <1>5, <1>6
-----------------------------------------------------------------------------
(* The walk over a datagram that was sent *)

Frames(fs) == fs \in Seq(SentFrame) /\ Len(fs) \in 1..MAX_FRAMES /\ Len(fs) \in Byte

Along(fs) == FrameCount = Len(fs) /\ Leads(read, fs)

NextIs(fs, k, w) ==
  LET e == EncodeFrame(fs[k + 1])
  IN  /\ fs[k + 1] \in SentFrame /\ Len(e) \in Nat
      /\ pos + Len(e) <= Len(w)
      /\ k + 1 = Len(fs) => pos + Len(e) = Len(w)
      /\ k + 1 < Len(fs) => pos + Len(e) + Len(EncodeFrame(fs[Len(fs)])) <= Len(w)
      /\ \A j \in 1..Len(e) : pos + j <= Len(buf) => buf[pos + j] = e[j]

\* The next frame of fs is at the cursor.
LEMMA Ahead ==
  ASSUME DInv, Walking, NEW fs, Frames(fs), Carries(fs, buf), Along(fs),
         NEW k, k = Len(read), NEW w, w = PacketBytes(Len(fs), fs)
  PROVE  /\ pos \in Nat /\ Len(w) \in Nat /\ k \in Nat /\ Len(fs) \in Nat
         /\ k = Len(fs) => pos = Len(w) /\ read = fs
         /\ k < Len(fs) => NextIs(fs, k, w)
<1>1. /\ fs \in Seq(FrameType) /\ fs \in Seq(SentFrame) /\ Len(fs) \in Byte
      /\ read \in Seq(FrameType) /\ buf \in Seq(Byte) /\ pos \in 0..Len(buf)
  BY SentFrameFacts, SeqMonotonic DEF Frames, DInv, Types
<1>2. PICK m \in Nat, n \in Nat, p \in Nat : m = Len(fs) /\ n = Len(buf) /\ p = pos /\ p <= n
  BY <1>1, LenProperties
<1>3. /\ k \in Nat /\ k <= m /\ FrameCount = m /\ \A i \in 1..k : read[i] = fs[i]
      /\ Leads(read, fs)
  BY <1>1, <1>2, LenProperties DEF Along, Leads
<1>4. /\ w \in Seq(Byte) /\ FrameBytes(fs) \in Seq(Byte) /\ PACKET_HEADER_LEN \in Nat
      /\ Len(w) = PACKET_HEADER_LEN + Len(FrameBytes(fs))
      /\ \A j \in 1..Len(FrameBytes(fs)) : w[PACKET_HEADER_LEN + j] = FrameBytes(fs)[j]
  BY <1>1, PacketFacts
<1>5. PICK h \in Nat, x \in Nat : h = PACKET_HEADER_LEN /\ x = Len(FrameBytes(fs))
  BY <1>4, LenProperties
<1>6. PICK y \in Nat : y = Len(FrameBytes(read)) /\ p = h + y
  <2>1. /\ Len(PacketBytes(m, read)) = PACKET_HEADER_LEN + Len(FrameBytes(read))
        /\ FrameBytes(read) \in Seq(Byte)
    BY <1>1, <1>2, PacketFacts
  <2>2. PICK one : one = 0 + 1 /\ one = 1
    OBVIOUS
  <2>3. Len(SubSeq(buf, 0 + 1, p)) = p - 0
    <3>1. 0 \in 0..Len(buf) /\ p \in 0..Len(buf)
      BY <1>2
    <3> QED
      BY <1>1, <3>1, Piece
  <2>4. PacketBytes(m, read) = SubSeq(buf, 0 + 1, p)
    BY <1>2, <1>3, <2>2 DEF DInv
  <2> QED
    BY <1>2, <1>5, <2>1, <2>3, <2>4, LenProperties
<1>7. \A j \in 1..n : j <= h + x => buf[j] = w[j]
  BY <1>2, <1>4, <1>5 DEF Carries
<1>8. CASE k = m
  <2>1. FrameBytes(read) = FrameBytes(fs)
    BY <1>1, <1>2, <1>3, <1>8, FrameAt
  <2>2. read = fs
    BY <1>1, <1>2, <1>3, <1>8, SeqEqual
  <2> QED
    BY <1>2, <1>3, <1>4, <1>5, <1>6, <1>8, <2>1, <2>2
<1>9. CASE k < m
  <2>1. fs[k + 1] \in SentFrame
    <3>1. k + 1 \in 1..Len(fs)
      BY <1>2, <1>3, <1>9
    <3> QED
      BY <1>1, <3>1, ElementOfSeq
  <2>2. PICK e \in Seq(Byte) : e = EncodeFrame(fs[k + 1])
    BY <2>1, EncodedAt
  <2>3. PICK l \in Nat : l = Len(e)
    BY LenProperties
  <2>4. /\ y + l <= x /\ (k + 1 = m => y + l = x)
        /\ (k + 1 < m => y + l + Len(EncodeFrame(fs[m])) <= x)
        /\ \A j \in 1..l : FrameBytes(fs)[y + j] = e[j]
    <3>1. /\ Len(FrameBytes(read)) + Len(EncodeFrame(fs[k + 1])) <= Len(FrameBytes(fs))
          /\ k + 1 = m =>
               Len(FrameBytes(read)) + Len(EncodeFrame(fs[k + 1])) = Len(FrameBytes(fs))
          /\ k + 1 < m =>
               Len(FrameBytes(read)) + Len(EncodeFrame(fs[k + 1])) + Len(EncodeFrame(fs[m]))
                 <= Len(FrameBytes(fs))
          /\ \A j \in 1..Len(EncodeFrame(fs[k + 1])) :
               FrameBytes(fs)[Len(FrameBytes(read)) + j] = EncodeFrame(fs[k + 1])[j]
      <4>1. NextAt(fs, read)
        BY <1>1, <1>2, <1>3, <1>9, NextFrameAt
      <4> QED
        BY <1>2, <4>1 DEF NextAt
    <3> QED
      BY <1>5, <1>6, <2>2, <2>3, <3>1
  <2>40. y + l <= x
    BY <2>4
  <2>5. k + 1 < m => p + l + Len(EncodeFrame(fs[m])) <= h + x
    <3>1. PICK z \in Nat : z = Len(EncodeFrame(fs[m]))
      <4>1. m \in 1..Len(fs)
        BY <1>2, <1>3, <1>9
      <4>2. fs[m] \in SentFrame
        BY <1>1, <4>1, ElementOfSeq
      <4> QED
        BY <4>2, EncodedAt, LenProperties
    <3> QED
      BY <1>6, <2>4, <3>1
  <2>6. ASSUME NEW j \in 1..l, p + j <= n
        PROVE  buf[p + j] = e[j]
    <3>1. p + j \in 1..n /\ p + j <= h + x /\ y + j \in 1..x /\ p + j = h + (y + j)
      BY <1>2, <1>6, <2>40, <2>6
    <3>2. w[h + (y + j)] = FrameBytes(fs)[y + j]
      BY <1>4, <1>5, <3>1
    <3> QED
      BY <1>7, <2>4, <3>1, <3>2
  <2>7. p + l <= h + x /\ (k + 1 = m => p + l = h + x)
    BY <1>6, <2>4
  <2>8. NextIs(fs, k, w)
    BY <1>2, <1>3, <1>4, <1>5, <1>9, <2>1, <2>2, <2>3, <2>5, <2>6, <2>7 DEF NextIs
  <2> QED
    BY <1>2, <1>3, <1>4, <1>5, <1>9, <2>8
<1> QED
  BY <1>2, <1>3, <1>8, <1>9
-----------------------------------------------------------------------------
(* What arrives *)

\* The last frame of a packet fits behind its header.
LEMMA LastFrameFits ==
  ASSUME NEW fs, NEW bytes, Packet(fs, bytes)
  PROVE  FRAME_HEADER_LEN + Len(fs[Len(fs)].payload) <= Len(bytes) - PACKET_HEADER_LEN
<1>1. /\ fs \in Seq(FrameType) /\ fs \in Seq(SentFrame) /\ Len(fs) \in Byte
      /\ bytes = PacketBytes(Len(fs), fs) /\ PACKET_HEADER_LEN \in Nat
  BY PacketLength DEF Packet
<1>2. PICK m \in Nat : m = Len(fs) /\ m >= 1 /\ DOMAIN fs = 1..m
  BY <1>1, LenProperties, WireAssumption DEF Packet
<1>3. PICK rd : rd = [i \in 1..m - 1 |-> fs[i]]
  OBVIOUS
<1>4. rd \in Seq(FrameType) /\ Len(rd) = m - 1
  <2>1. \A i \in 1..m - 1 : fs[i] \in FrameType
    BY <1>1, <1>2, ElementOfSeq
  <2>2. m - 1 \in Nat
    BY <1>2
  <2>3. rd \in [1..m - 1 -> FrameType]
    BY <1>3, <2>1
  <2> QED
    BY <2>2, <2>3
<1>5. Leads(rd, fs)
  BY <1>2, <1>3, <1>4 DEF Leads
<1>6. NextAt(fs, rd)
  BY <1>1, <1>2, <1>4, <1>5, NextFrameAt
<1>7. /\ (m - 1) + 1 = m /\ m - 1 < m
      /\ fs[m] \in SentFrame
  BY <1>1, <1>2, ElementOfSeq
<1>8. Len(FrameBytes(rd)) + Len(EncodeFrame(fs[m])) = Len(FrameBytes(fs))
  BY <1>2, <1>4, <1>6, <1>7 DEF NextAt
<1>9. Len(FrameBytes(rd)) \in Nat
  <2>1. 0 \in Byte
    BY ByteFacts DEF Byte
  <2>2. FrameBytes(rd) \in Seq(Byte)
    BY <1>4, <2>1, PacketFacts
  <2> QED
    BY <2>2, LenProperties
<1>10. PICK f \in SentFrame : f = fs[m]
  BY <1>7
<1>11. PICK l \in Nat, h \in Nat : /\ l = Len(f.payload) /\ h = FRAME_HEADER_LEN
                                   /\ Len(EncodeFrame(f)) = h + l
  BY EncodedAt
<1>12. Len(bytes) = PACKET_HEADER_LEN + Len(FrameBytes(fs))
  BY <1>1, PacketFacts
<1> QED
  BY <1>1, <1>2, <1>8, <1>9, <1>10, <1>11, <1>12

LEMMA EncodedIs ==
  ASSUME NEW S, S \subseteq Seq(RawFrame), NEW b \in Encoded(S)
  PROVE  \E gs \in S : Packet(gs, b)
<1>1. PICK gs \in S : EncodePacket(gs).err = None /\ b = EncodePacket(gs).ok
  BY DEF Encoded
<1> QED
  BY <1>1, SentPacket

SameFrame(f, g) == f.signal_id = g.signal_id /\ f.timestamp_us = g.timestamp_us

LEMMA LengthMismatchSent ==
  ASSUME NEW fs, NEW bytes, Packet(fs, bytes), NEW b \in LengthMismatch(fs)
  PROVE  \E gs : /\ Packet(gs, b) /\ Len(gs) = Len(fs)
                 /\ SameFrame(gs[1], fs[1])
                 /\ Len(gs[1].payload) = Len(fs[1].payload) + 1
                 /\ \A i \in 2..Len(fs) : gs[i] = fs[i]
<1>1. /\ fs \in Seq(SentFrame)
      /\ Len(fs) \in Nat /\ Len(fs) >= 1 /\ DOMAIN fs = 1..Len(fs)
  BY LenProperties, WireAssumption DEF Packet
<1>2. PICK n \in Nat : n = Len(fs) /\ n >= 1
  BY <1>1
<1>3. PICK f \in SentFrame : f = fs[1]
  <2>1. 1 \in 1..n
    BY <1>2
  <2> QED
    BY <1>1, <1>2, <2>1, ElementOfSeq
<1>4. PICK p : p = Append(f.payload, 0)
  OBVIOUS
<1>5. p \in Seq(Byte) /\ Len(p) = Len(f.payload) + 1
  <2>1. f.payload \in Seq(Byte) /\ 0 \in Byte
    BY ByteFacts DEF SentFrame, Byte
  <2> QED
    BY <1>4, <2>1, AppendProperties
<1>6. PICK g : g = [signal_id |-> f.signal_id, timestamp_us |-> f.timestamp_us, payload |-> p]
  OBVIOUS
<1>7. g \in RawFrame /\ g.payload = p /\ SameFrame(g, f)
  BY <1>5, <1>6 DEF SentFrame, RawFrame, SameFrame
<1>8. PICK gs : gs = [fs EXCEPT ![1].payload = Append(@, 0)]
  OBVIOUS
<1>9. gs = [i \in 1..n |-> IF i = 1 THEN g ELSE fs[i]]
  <2>1. [f EXCEPT !.payload = p] = g
    BY <1>6 DEF SentFrame
  <2> QED
    BY <1>1, <1>2, <1>3, <1>4, <1>8, <2>1
<1>10. gs \in Seq(RawFrame) /\ Len(gs) = n
  <2>1. \A i \in 1..n : fs[i] \in RawFrame
    <3>1. \A i \in 1..n : fs[i] \in SentFrame
      BY <1>1, <1>2, ElementOfSeq
    <3>2. SentFrame \subseteq RawFrame
      BY DEF SentFrame, RawFrame
    <3> QED
      BY <3>1, <3>2
  <2>2. gs \in [1..n -> RawFrame]
    BY <1>7, <1>9, <2>1
  <2> QED
    BY <2>2
<1>11. Packet(gs, b)
  <2>1. {gs} \subseteq Seq(RawFrame) /\ b \in Encoded({gs})
    BY <1>8, <1>10 DEF LengthMismatch
  <2> QED
    BY <2>1, EncodedIs
<1>12. gs[1] = g /\ \A i \in 2..n : gs[i] = fs[i]
  BY <1>2, <1>9
<1> QED
  BY <1>2, <1>3, <1>5, <1>7, <1>10, <1>11, <1>12

LEMMA UnknownSignalSent ==
  ASSUME NEW fs, NEW bytes, Packet(fs, bytes), NEW b \in UnknownSignal(fs)
  PROVE  \E gs : /\ Packet(gs, b) /\ Len(gs) = Len(fs) + 1
                 /\ FreeIds # {} => gs[1].signal_id \in FreeIds
                 /\ \A i \in 1..Len(fs) : gs[i + 1] = fs[i]
<1>1. PICK n \in Nat : /\ n = Len(fs) /\ n >= 1 /\ fs \in Seq(SentFrame)
                       /\ \A i \in 1..n : fs[i] \in SentFrame
  BY LenProperties, ElementOfSeq, WireAssumption DEF Packet
<1>2. Codes(U16Len) \in Nat \ {0} /\ FirstUnknown \in Nat
  BY WireAssumption, CodesFacts, SenderAssumption
<1>3. PICK id : id = IF FreeIds = {} THEN Codes(U16Len) - 1 ELSE Min(FreeIds)
  OBVIOUS
<1>4. id \in 0..Codes(U16Len) - 1 /\ (FreeIds # {} => id \in FreeIds)
  <2>1. CASE FreeIds = {}
    BY <1>2, <1>3, <2>1
  <2>2. CASE FreeIds # {}
    <3>1. PICK F \in SUBSET Nat : F = FreeIds /\ F \subseteq 0..Codes(U16Len) - 1
      <4>1. FreeIds \in SUBSET Nat /\ FreeIds \subseteq 0..Codes(U16Len) - 1
        BY <1>2 DEF FreeIds
      <4> QED
        BY <4>1
    <3>2. PICK x \in F : \A y \in F : x <= y
      BY <2>2, <3>1, LeastNatural
    <3>3. Min(F) \in F
      BY <3>2 DEF Min
    <3> QED
      BY <1>3, <2>2, <3>1, <3>3
  <2> QED
    BY <2>1, <2>2
<1> DEFINE First(p) == [signal_id |-> id, timestamp_us |-> fs[1].timestamp_us, payload |-> p]
           S == {<<First(p)>> \o fs : p \in RandomBytes(MaxExtra)}
<1>5. b \in Encoded(S)
  BY <1>3 DEF UnknownSignal
<1>6. ASSUME NEW p \in RandomBytes(MaxExtra), NEW gs, gs = <<First(p)>> \o fs
      PROVE  /\ gs \in Seq(RawFrame) /\ Len(gs) = n + 1
             /\ gs[1].signal_id = id /\ \A i \in 1..n : gs[i + 1] = fs[i]
  <2>1. PICK g : g = First(p)
    OBVIOUS
  <2>2. fs[1] \in SentFrame
    BY <1>1
  <2>3. g \in RawFrame /\ g.signal_id = id
    BY <1>4, <2>1, <2>2, RandomBytesFacts DEF RawFrame, SentFrame
  <2>4. SentFrame \subseteq RawFrame
    BY DEF SentFrame, RawFrame
  <2>5. fs \in Seq(RawFrame)
    BY <1>1, <2>4, SeqMonotonic
  <2>6. PICK one \in Seq(RawFrame) : one = <<g>> /\ Len(one) = 1 /\ one[1] = g
    <3>1. <<g>> \in Seq(RawFrame)
      BY <2>3
    <3>2. Len(<<g>>) = 1 /\ <<g>>[1] = g
      OBVIOUS
    <3> QED
      BY <3>1, <3>2
  <2>7. gs = one \o fs
    BY <1>6, <2>1, <2>6
  <2>8. /\ gs \in Seq(RawFrame) /\ Len(gs) = 1 + n
        /\ \A i \in 1..1 + n : gs[i] = IF i <= 1 THEN one[i] ELSE fs[i - 1]
    BY <1>1, <2>5, <2>6, <2>7, ConcatProperties
  <2>9. gs[1] = g
    BY <1>1, <2>6, <2>8
  <2>10. \A i \in 1..n : gs[i + 1] = fs[i]
    BY <1>1, <2>8
  <2> QED
    BY <1>1, <2>3, <2>8, <2>9, <2>10
<1>7. S \subseteq Seq(RawFrame)
  BY <1>6
<1>8. PICK gs \in S : Packet(gs, b)
  BY <1>5, <1>7, EncodedIs
<1>9. PICK p \in RandomBytes(MaxExtra) : gs = <<First(p)>> \o fs
  OBVIOUS
<1> HIDE DEF First, S
<1>10. /\ Len(gs) = n + 1 /\ gs[1].signal_id = id /\ \A i \in 1..n : gs[i + 1] = fs[i]
  BY <1>6, <1>9
<1> QED
  BY <1>1, <1>4, <1>8, <1>10

LEMMA MalformedBytes ==
  ASSUME NEW fs, NEW bytes, Packet(fs, bytes), NEW k \in Kinds, NEW m \in Malformed(k, bytes, fs)
  PROVE  m \in Seq(Byte)
<1>1. CASE k = "BadMagic"
  BY <1>1, BadMagicSent DEF Malformed
<1>2. CASE k = "BadVersion"
  BY <1>2, BadVersionSent DEF Malformed
<1>3. CASE k = "ZeroFrames"
  BY <1>3, ZeroFramesSent DEF Malformed
<1>4. CASE k = "Truncated"
  BY <1>4, TruncatedSent, LastFrameFits DEF Malformed
<1>5. CASE k = "LengthMismatch"
  <2>1. PICK gs : Packet(gs, m)
    BY <1>5, LengthMismatchSent DEF Malformed
  <2> QED
    BY <2>1, PacketLength
<1>6. CASE k = "UnknownSignal"
  <2>1. PICK gs : Packet(gs, m)
    BY <1>6, UnknownSignalSent DEF Malformed
  <2> QED
    BY <2>1, PacketLength
<1>7. CASE k = "Oversize"
  BY <1>7, OversizeSent DEF Malformed
<1>8. CASE k = "TrailingBytes"
  <2>1. PICK t \in RandomBytes(MaxExtra) : m = bytes \o t
    BY <1>8 DEF Malformed, TrailingBytes
  <2>2. t \in Seq(Byte) /\ Len(t) > 0
    BY RandomBytesFacts, SenderAssumption
  <2> QED
    BY <2>1, <2>2, LongerSent
<1> QED
  BY <1>1, <1>2, <1>3, <1>4, <1>5, <1>6, <1>7, <1>8 DEF Kinds

\* The packet of fs is made of the values that are sent.
Made(fs) ==
  /\ sent \in Vehicles /\ Encodable(sent)
  /\ \E ts \in Stamps : fs = RawFrames(sent, ts)
  /\ EncodePacket(fs).err = None

\* Where the datagram comes from.
Sent(fs) ==
  \/ kind = None /\ buf = EncodePacket(fs).ok
  \/ kind \in Kinds /\ buf \in Malformed(kind, EncodePacket(fs).ok, fs)

Origin == status # "idle" /\ kind # "RandomBytes" => \E fs : Made(fs) /\ Sent(fs)

LEMMA MadePacket ==
  ASSUME catalog \in Catalogs, NEW fs, Made(fs)
  PROVE  Packet(fs, EncodePacket(fs).ok)
<1>1. PICK ts \in Stamps : fs = RawFrames(sent, ts)
  BY DEF Made
<1>2. sent \in Vehicles /\ Encodable(sent) /\ EncodePacket(fs).err = None
  BY DEF Made
<1>3. fs \in Seq(RawFrame)
  BY <1>1, <1>2, RawFramesFacts
<1> QED
  BY <1>2, <1>3, SentPacket

LEMMA MadeLater ==
  ASSUME NEW fs, NEW v \in Vehicles, NEW ts \in Stamps, Encodable(v), fs = RawFrames(v, ts),
         EncodePacket(fs).err = None, catalog' = catalog, sent' = v
  PROVE  Made(fs)'
<1>1. Simulated' = Simulated
  BY DEF Simulated
<1>2. Vehicles' = Vehicles
  BY <1>1 DEF Vehicles
<1>3. Encodable(v)' = Encodable(v)
  BY <1>1, Zenon DEF Encodable
<1>4. RawFrames(v, ts)' = RawFrames(v, ts)
  BY <1>1 DEF RawFrames
<1>5. v \in Vehicles' /\ Encodable(v)' /\ fs = RawFrames(v, ts)' /\ EncodePacket(fs).err = None
  BY <1>2, <1>3, <1>4
<1>6. sent' \in Vehicles' /\ Encodable(sent)'
  <2>1. Encodable(sent)' = Encodable(v)'
    BY Zenon DEF Encodable
  <2> QED
    BY <1>5, <2>1
<1>7. RawFrames(sent, ts)' = fs
  BY <1>5 DEF RawFrames
<1> QED
  BY <1>5, <1>6, <1>7 DEF Made

LEMMA MadeStill ==
  ASSUME NEW fs, Made(fs), catalog' = catalog, sent' = sent
  PROVE  Made(fs)'
<1>1. PICK ts \in Stamps : fs = RawFrames(sent, ts)
  BY DEF Made
<1>2. PICK v : v = sent
  OBVIOUS
<1>3. v \in Vehicles /\ Encodable(v) /\ fs = RawFrames(v, ts) /\ sent' = v
  BY <1>1, <1>2 DEF Made
<1> QED
  BY <1>3, MadeLater DEF Made

\* What a step of Send sends.
LEMMA SendSends ==
  ASSUME catalog \in Catalogs, Send
  PROVE  /\ status = "idle" /\ status' = "header" /\ catalog' = catalog
         /\ UNCHANGED <<pos, out, read>>
         /\ \E fs, b : /\ Made(fs)' /\ Packet(fs, EncodePacket(fs).ok)
                       /\ Arrives(b) /\ buf' = b /\ b \in Seq(Byte)
                       /\ \/ kind' = None /\ b = EncodePacket(fs).ok
                          \/ kind' \in Kinds /\ b \in Malformed(kind', EncodePacket(fs).ok, fs)
<1>1. PICK v \in Vehicles, ts \in Stamps :
        /\ Encodable(v) /\ EncodePacket(RawFrames(v, ts)).err = None
        /\ sent' = v
        /\ LET frames == RawFrames(v, ts)
               bytes  == EncodePacket(frames).ok
           IN  \/ kind' = None /\ Arrives(bytes)
               \/ \E k \in Kinds : \E m \in Malformed(k, bytes, frames) :
                    kind' = k /\ Arrives(m)
  BY DEF Send
<1>2. PICK fs : fs = RawFrames(v, ts)
  OBVIOUS
<1>3. PICK bytes : bytes = EncodePacket(fs).ok
  OBVIOUS
<1>4. PICK b : /\ Arrives(b)
               /\ \/ kind' = None /\ b = bytes
                  \/ kind' \in Kinds /\ b \in Malformed(kind', bytes, fs)
  <2>1. CASE kind' = None /\ Arrives(bytes)
    BY <2>1
  <2>2. CASE \E k \in Kinds : \E m \in Malformed(k, bytes, fs) : kind' = k /\ Arrives(m)
    BY <2>2
  <2> QED
    BY <1>1, <1>2, <1>3, <2>1, <2>2
<1>5. /\ status = "idle" /\ status' = "header" /\ catalog' = catalog /\ buf' = b
      /\ UNCHANGED <<pos, out, read>>
  BY <1>4 DEF Arrives
<1>6. Packet(fs, bytes)
  <2>1. fs \in Seq(RawFrame)
    BY <1>1, <1>2, RawFramesFacts
  <2> QED
    BY <1>1, <1>2, <1>3, <2>1, SentPacket
<1>7. Made(fs)'
  BY <1>1, <1>2, <1>5, MadeLater
<1>8. b \in Seq(Byte)
  <2>1. CASE b = bytes
    BY <1>6, <2>1, PacketLength
  <2>2. CASE kind' \in Kinds /\ b \in Malformed(kind', bytes, fs)
    BY <1>6, <2>2, MalformedBytes
  <2> QED
    BY <1>4, <2>1, <2>2
<1> QED
  BY <1>3, <1>4, <1>5, <1>6, <1>7, <1>8

\* Whatever is sent, the decoder of the daemon is the decoder of Wire.
LEMMA DecoderDriven ==
  ASSUME catalog \in Catalogs, [Next]_vars
  PROVE  [DecoderNext]_wireVars
<1>1. CASE Send
  <2>1. PICK b : Arrives(b) /\ b \in Seq(Byte)
    BY <1>1, SendSends
  <2> QED
    BY <2>1 DEF DecoderNext, Byte
<1>2. CASE SendRandom
  <2>1. PICK bytes \in RandomDatagrams : Arrives(bytes)
    BY <1>2 DEF SendRandom
  <2>2. bytes \in Seq(0..BASE - 1)
    BY SenderAssumption
  <2> QED
    BY <2>1, <2>2 DEF DecoderNext
<1>3. CASE Decode
  BY <1>3 DEF DecoderNext
<1>4. CASE UNCHANGED vars
  BY <1>4 DEF vars
<1> QED
  BY <1>1, <1>2, <1>3, <1>4 DEF Next

LEMMA SentSame ==
  ASSUME NEW fs, NEW k, NEW b, catalog' = catalog, kind' = k, buf' = b,
         \/ k = None /\ b = EncodePacket(fs).ok
         \/ k \in Kinds /\ b \in Malformed(k, EncodePacket(fs).ok, fs)
  PROVE  Sent(fs)'
<1>1. PICK bytes : bytes = EncodePacket(fs).ok
  OBVIOUS
<1>2. UnknownSignal(fs)' = UnknownSignal(fs)
  BY DEF UnknownSignal, FreeIds
<1>3. Malformed(k, bytes, fs)' = Malformed(k, bytes, fs)
  BY <1>2 DEF Malformed
<1>4. Malformed(kind, bytes, fs)' = Malformed(k, bytes, fs)'
  BY <1>2 DEF Malformed
<1>5. Sent(fs)' <=> \/ kind' = None /\ buf' = bytes
                    \/ kind' \in Kinds /\ buf' \in Malformed(kind, bytes, fs)'
  BY <1>1 DEF Sent
<1> QED
  BY <1>1, <1>3, <1>4, <1>5

LEMMA OriginNext ==
  ASSUME catalog \in Catalogs, Origin, [Next]_vars
  PROVE  Origin'
<1>1. CASE Send
  <2>1. PICK fs, b : /\ Made(fs)' /\ buf' = b
                     /\ \/ kind' = None /\ b = EncodePacket(fs).ok
                        \/ kind' \in Kinds /\ b \in Malformed(kind', EncodePacket(fs).ok, fs)
    BY <1>1, SendSends
  <2>2. PICK k : k = kind'
    OBVIOUS
  <2>3. catalog' = catalog
    BY <1>1, SendSends
  <2>4. \/ k = None /\ b = EncodePacket(fs).ok
        \/ k \in Kinds /\ b \in Malformed(k, EncodePacket(fs).ok, fs)
    BY <2>1, <2>2
  <2>5. Sent(fs)'
    BY <2>1, <2>2, <2>3, <2>4, SentSame
  <2> QED
    BY <2>1, <2>5 DEF Origin
<1>2. CASE SendRandom
  BY <1>2 DEF SendRandom, Origin
<1>3. ASSUME \/ Decode /\ UNCHANGED <<kind, sent>>
             \/ UNCHANGED vars
      PROVE  Origin'
  <2>1. /\ catalog' = catalog /\ sent' = sent /\ kind' = kind /\ buf' = buf
        /\ status' # "idle" => status # "idle"
    BY <1>3 DEF Decode, Header, FrameTruncated, FrameRead, Finish, vars, wireVars
  <2> SUFFICES ASSUME status' # "idle", kind' # "RandomBytes"
               PROVE  \E fs : Made(fs)' /\ Sent(fs)'
    BY DEF Origin
  <2>2. PICK fs : Made(fs) /\ Sent(fs)
    BY <2>1 DEF Origin
  <2>3. Made(fs)'
    BY <2>1, <2>2, MadeStill
  <2>4. PICK k, b : k = kind /\ b = buf
    OBVIOUS
  <2>5. /\ kind' = k /\ buf' = b
        /\ \/ k = None /\ b = EncodePacket(fs).ok
           \/ k \in Kinds /\ b \in Malformed(k, EncodePacket(fs).ok, fs)
    BY <2>1, <2>2, <2>4 DEF Sent
  <2>6. Sent(fs)'
    BY <2>1, <2>5, SentSame
  <2> QED
    BY <2>3, <2>6
<1> QED
  BY <1>1, <1>2, <1>3 DEF Next
-----------------------------------------------------------------------------
SInv == catalog \in Catalogs /\ Origin /\ DInv

\* What the simulator and the network deliver drives the decoder of Wire, and
\* the datagram is a packet of values of the catalog, malformed as its kind says.
THEOREM SenderInvariance == Spec => []SInv
<1>1. Init => SInv
  BY DInvInit DEF Init, SInv, Origin, DecoderInit
<1>2. SInv /\ [Next]_vars => SInv'
  <2> SUFFICES ASSUME SInv, [Next]_vars PROVE SInv'
    OBVIOUS
  <2>1. Origin'
    BY OriginNext DEF SInv
  <2>2. DInv'
    BY DecoderDriven, DInvNext DEF SInv
  <2>3. (catalog \in Catalogs)'
    BY DEF SInv, Next, Send, SendRandom, Decode, Header, FrameTruncated, FrameRead, Finish,
       Arrives, vars, wireVars
  <2> QED
    BY <2>1, <2>2, <2>3 DEF SInv
<1> QED
  BY <1>1, <1>2, PTL DEF Spec

\* Whatever the simulator and the network deliver, the daemon's decoder does
\* what the decoder of Wire does on that datagram.
THEOREM SimulatorDrivesDecoder == Spec => DecoderSpec
<1>1. Init => DecoderInit
  BY DEF Init
<1>2. SInv /\ [Next]_vars => [DecoderNext]_wireVars
  BY DecoderDriven DEF SInv
<1> QED
  BY <1>1, <1>2, SenderInvariance, PTL DEF Spec, DecoderSpec

\* encode_value undoes decode_value: the value of every frame read is encoded to
\* a payload that reads as the one it was decoded from, unless a number was
\* rounded by as much as a step of its scale.
THEOREM EveryValueEncodesBack == Spec => []EncodesBack
<1>1. SInv => EncodesBack
  BY DecodedBack DEF SInv, DInv, Types
<1> QED
  BY <1>1, SenderInvariance, PTL
-----------------------------------------------------------------------------
(* Encoding, then decoding *)

\* What the sum and the product of a decoding are off by, if they are not too large.
LEMMA PhysicalNear ==
  ASSUME NEW d, NEW scale \in Int \ {0}, d.scale = scale, NEW offset \in Int, d.offset = offset,
         NEW raw, NEW X \in Int, X = AsFloat(d.ty, raw),
         NEW N \in Nat \ {0}, N = ONE,
         NEW K, Grid(K), NEW cK \in Nat, cK = EXACT * K, cK <= FloatMax,
         NEW P \in Int, P = X * scale, NEW oN \in Int, oN = offset * N,
         NEW KN \in Nat, KN = K * N, NEW cKN \in Nat, cKN = cK * N,
         Abs(P) <= cKN, Abs(P + oN) + KN <= cKN
  PROVE  Physical(d, raw) \in Int /\ Abs(Physical(d, raw) * N - (P + oN)) <= KN
<1>1. K \in Nat /\ Abs(N) = N
  BY AbsFacts DEF Grid
<1>2. PICK y \in Int : y = Mul(X, scale) /\ 2 * Abs(y * N - P) <= KN
  <2>1. Abs(X * scale) <= cK * ONE
    OBVIOUS
  <2>2. Mul(X, scale) \in Int /\ 2 * Abs(Mul(X, scale) * ONE - X * scale) <= K * ONE
    BY <2>1, ProductFacts
  <2> QED
    BY <2>2
<1>3. PICK yN \in Int : yN = y * N
  OBVIOUS
<1>4. PICK z \in Int : z = y + offset
  OBVIOUS
<1>5. PICK zN \in Int : zN = z * N /\ zN = yN + oN
  BY <1>3, <1>4
<1>6. 2 * Abs(zN - (P + oN)) <= KN
  BY <1>2, <1>3, <1>5, AbsFacts
<1>7. Abs(zN) <= cKN
  BY <1>6, AbsFacts
<1>8. Abs(z) <= cK
  <2>1. PICK t \in Nat : t = Abs(z)
    BY AbsFacts
  <2>2. Abs(zN) = t * N
    BY <1>1, <1>5, <2>1, AbsProduct
  <2>3. t * N <= cK * N
    BY <1>7, <2>2
  <2> QED
    BY <2>1, <2>3, Monotone
<1>9. PICK w \in Int : w = F64(z, 1) /\ 2 * Abs(w - z) <= K
  BY <1>8, SumFacts
<1>10. Physical(d, raw) = w
  <2>1. X # NonFinite /\ y # NonFinite
    BY NoneAssumption
  <2> QED
    BY <1>2, <1>4, <1>9, <2>1 DEF Physical
<1>11. PICK wN \in Int : wN = w * N
  OBVIOUS
<1>12. 2 * Abs(wN - zN) <= KN
  <2>1. PICK t \in Nat : t = Abs(w - z) /\ 2 * t <= K
    BY <1>9, AbsFacts
  <2>2. (2 * t) * N <= K * N
    BY <1>1, <2>1, Monotone
  <2>3. wN - zN = (w - z) * N
    BY <1>5, <1>11
  <2>4. Abs((w - z) * N) = t * N
    BY <1>1, <2>1, AbsProduct
  <2>5. (2 * t) * N = 2 * (t * N)
    OBVIOUS
  <2> QED
    BY <2>2, <2>3, <2>4, <2>5
<1>13. Abs(wN - (P + oN)) <= KN
  BY <1>6, <1>12, AbsFacts
<1> QED
  BY <1>10, <1>11, <1>13

LEMMA AbsSum ==
  ASSUME NEW x \in Int, NEW y \in Int, NEW z \in Int
  PROVE  Abs(x + y + z) <= Abs(x) + Abs(y) + Abs(z)
BY DEF Abs

\* How near what is received, w, is to the number v that was sent, by how near what
\* was written, X, is to the quotient q.
NearSent(scale, offset, v, u, q, X, w) ==
  /\ w \in Int
  /\ 2 * Abs(X - q) <= ONE => 2 * Abs(w - v) <= Abs(scale) + 8 * u
  /\ X = q => Abs(w - v) <= 4 * u
  /\ \A x \in Int : Abs(X - q) <= Abs(q) /\ Abs(X - q) <= Abs(x - q) =>
       ONE * Abs(w - v) <= Abs(x * scale + (offset - v) * ONE) + 8 * u * ONE

LEMMA NumNear ==
  ASSUME NEW d, NEW scale \in Int \ {0}, d.scale = scale, NEW offset \in Int, d.offset = offset,
         NEW v \in Int, Far(d, v), NEW u, u = Unit(d, v),
         NEW a \in Int, a = F64(v - offset, 1), NEW q \in Int, q = Div(a, scale),
         NEW raw, NEW X \in Int, X = AsFloat(d.ty, raw),
         2 * Abs(X - q) <= ONE \/ X = q \/ Abs(X - q) <= Abs(q)
  PROVE  NearSent(scale, offset, v, u, q, X, Physical(d, raw))
<1>1. PICK U \in Nat \ {0}, cU \in Nat :
           /\ U = Unit(d, v) /\ U \in Ulps /\ cU = EXACT * U
           /\ Abs(v) + Abs(offset) + Abs(scale) <= cU
           /\ 8 * U <= cU /\ 4 * cU <= FloatMax
  BY UnitFacts
<1>2. Grid(U) /\ Grid(2 * U) /\ Grid(2 * (2 * U))
  BY <1>1, UlpGrid, DoubleGrid
<1>3. PICK N \in Nat \ {0} : N = ONE /\ Abs(N) = N
  BY Ulps1, AbsFacts
<1>4. PICK c \in Nat, F \in Nat : c = EXACT /\ F = FloatMax
  BY FloatAssumption
<1>5. PICK S \in Nat \ {0} : S = Abs(scale)
  BY AbsFacts
<1>6. PICK A \in Int : A = v - offset
  OBVIOUS
<1>7. Abs(A) + S <= cU /\ S <= cU /\ Abs(A) <= cU
  BY <1>1, <1>5, <1>6, AbsFacts
<1>8. 2 * Abs(a - A) <= U /\ Abs(a) <= cU
  <2>1. cU <= FloatMax
    BY <1>1, <1>4
  <2> QED
    BY <1>1, <1>2, <1>6, <1>7, <2>1, SumFacts
<1>9. PICK UN \in Nat : UN = U * N
  OBVIOUS
<1>10. PICK cUN \in Nat : cUN = cU * N
  OBVIOUS
<1>11. PICK vN \in Int : vN = v * N
  OBVIOUS
<1>12. PICK oN \in Int : oN = offset * N
  OBVIOUS
<1>13. PICK aN \in Int : aN = a * N
  OBVIOUS
<1>14. PICK SN \in Nat : SN = S * N
  OBVIOUS
<1>15. PICK AN \in Int : AN = A * N /\ AN = vN - oN
  BY <1>6, <1>11, <1>12
<1>16. Abs(vN) + Abs(oN) + SN <= cUN /\ 8 * UN <= cUN
  <2>1. PICK t \in Nat : t = Abs(v)
    BY AbsFacts
  <2>2. PICK o \in Nat : o = Abs(offset)
    BY AbsFacts
  <2>3. (t + o + S) * N <= cU * N
    BY <1>1, <1>5, <2>1, <2>2, Monotone
  <2>4. Abs(vN) = t * N /\ Abs(oN) = o * N
    BY <1>3, <1>11, <1>12, <2>1, <2>2, AbsProduct
  <2>5. (t + o + S) * N = t * N + o * N + S * N
    OBVIOUS
  <2>6. (8 * U) * N <= cU * N /\ (8 * U) * N = 8 * (U * N)
    BY <1>1, Monotone
  <2> QED
    BY <1>9, <1>10, <1>14, <2>3, <2>4, <2>5, <2>6
<1>17. 2 * Abs(aN - AN) <= UN
  <2>1. PICK t \in Nat : t = Abs(a - A) /\ 2 * t <= U
    BY <1>8, AbsFacts
  <2>2. (2 * t) * N <= U * N /\ (2 * t) * N = 2 * (t * N)
    BY <2>1, Monotone
  <2>3. aN - AN = (a - A) * N
    BY <1>13, <1>15
  <2>4. Abs((a - A) * N) = t * N
    BY <1>3, <2>1, AbsProduct
  <2> QED
    BY <1>9, <2>2, <2>3, <2>4
<1>18. PICK qs \in Int : qs = q * scale
  OBVIOUS
<1>19. Abs(qs - aN) <= UN
  BY <1>1, <1>3, <1>5, <1>7, <1>8, <1>9, <1>13, <1>18, QuotientFacts
<1>20. 2 * Abs(qs - AN) <= 3 * UN
  BY <1>17, <1>19, AbsFacts
<1>21. PICK P \in Int : P = X * scale
  OBVIOUS
<1>22. ASSUME NEW x \in Int
       PROVE  x * scale - qs \in Int /\ Abs(x * scale - qs) = Abs(x - q) * S
  <2>1. x * scale - qs = (x - q) * scale
    BY <1>18
  <2> QED
    BY <1>5, <2>1, AbsProduct
<1>23. PICK D \in Nat, DS \in Nat : D = Abs(X - q) /\ DS = D * S /\ Abs(P - qs) = DS
  <2>1. PICK D \in Nat : D = Abs(X - q)
    BY AbsFacts
  <2>2. PICK DS \in Nat : DS = D * S
    OBVIOUS
  <2>3. Abs(P - qs) = DS
    BY <1>21, <1>22, <2>1, <2>2
  <2> QED
    BY <2>1, <2>2, <2>3
<1>24. 2 * D <= N => 2 * DS <= SN
  <2>1. 2 * D <= N => (2 * D) * S <= N * S
    BY Monotone
  <2>2. (2 * D) * S = 2 * DS /\ N * S = SN
    BY <1>14, <1>23
  <2> QED
    BY <2>1, <2>2
<1>25. D <= Abs(q) => DS <= Abs(qs)
  <2>1. PICK t \in Nat : t = Abs(q)
    BY AbsFacts
  <2>3. Abs(qs) = t * S
    BY <1>5, <1>18, <2>1, AbsProduct
  <2>2. D <= t => D * S <= t * S
    BY Monotone
  <2> QED
    BY <1>23, <2>1, <2>2, <2>3
<1>26. X = q => DS = 0
  BY <1>21, <1>18, <1>23 DEF Abs
<1>27. PICK L \in Nat : L = 2 * U
  OBVIOUS
<1>28. ASSUME NEW K \in Nat, NEW e \in Nat, K = e * U, Grid(K), e \in {2, 4},
              Abs(P) <= e * cUN, Abs(P + oN) + e * UN <= e * cUN
       PROVE  Physical(d, raw) \in Int /\ Abs(Physical(d, raw) * N - (P + oN)) <= e * UN
  <2>1. PICK cK \in Nat : cK = e * cU
    BY <1>28
  <2>2. cK = EXACT * K
    BY <1>1, <1>4, <1>28, <2>1
  <2>3. cK <= FloatMax
    BY <1>1, <1>4, <1>28, <2>1
  <2>4. PICK KN \in Nat : KN = K * N
    OBVIOUS
  <2>5. PICK cKN \in Nat : cKN = cK * N
    OBVIOUS
  <2>6. KN = e * UN /\ cKN = e * cUN
    BY <1>9, <1>10, <1>28, <2>1, <2>4, <2>5
  <2>7. Abs(P) <= cKN /\ Abs(P + oN) + KN <= cKN
    BY <1>28, <2>6
  <2>8. Physical(d, raw) \in Int /\ Abs(Physical(d, raw) * N - (P + oN)) <= KN
    BY <1>3, <1>12, <1>21, <1>28, <2>2, <2>3, <2>4, <2>5, <2>7, PhysicalNear
  <2> QED
    BY <2>6, <2>8
<1>29. ASSUME NEW w \in Int
       PROVE  /\ w * N \in Int /\ Abs(w * N - vN) = N * Abs(w - v)
              /\ \A k \in Nat : N * Abs(w - v) <= k * UN => Abs(w - v) <= k * U
              /\ 2 * (N * Abs(w - v)) <= SN + 8 * UN => 2 * Abs(w - v) <= S + 8 * U
  <2>1. PICK t \in Nat : t = Abs(w - v)
    BY AbsFacts
  <2>2. w * N - vN = (w - v) * N
    BY <1>11
  <2>3. Abs((w - v) * N) = t * N
    BY <1>3, <2>1, AbsProduct
  <2>4. Abs(w * N - vN) = N * Abs(w - v)
    <3>1. t * N = N * t
      OBVIOUS
    <3> QED
      BY <2>1, <2>2, <2>3, <3>1
  <2>5. ASSUME NEW k \in Nat, N * Abs(w - v) <= k * UN PROVE Abs(w - v) <= k * U
    <3>1. k * UN = (k * U) * N
      BY <1>9
    <3>2. t * N <= (k * U) * N
      BY <2>1, <2>5, <3>1
    <3>3. t <= k * U
      BY <3>2, Monotone
    <3> QED
      BY <2>1, <3>3
  <2>6. ASSUME 2 * (N * Abs(w - v)) <= SN + 8 * UN PROVE 2 * Abs(w - v) <= S + 8 * U
    <3>1. SN + 8 * UN = (S + 8 * U) * N
      BY <1>9, <1>14
    <3>2. 2 * (N * t) = (2 * t) * N
      OBVIOUS
    <3>3. (2 * t) * N <= (S + 8 * U) * N
      BY <2>1, <2>6, <3>1, <3>2
    <3>4. 2 * t <= S + 8 * U
      BY <3>3, Monotone
    <3> QED
      BY <2>1, <3>4
  <2>7. w * N \in Int
    OBVIOUS
  <2> QED
    BY <2>4, <2>5, <2>6, <2>7
<1>30. ASSUME 2 * D <= N \/ X = q
       PROVE  Physical(d, raw) \in Int /\ Abs(Physical(d, raw) * N - (P + oN)) <= 2 * UN
  <2>1. 2 * DS <= SN
    BY <1>24, <1>26, <1>30
  <2>2. Abs(P) <= 2 * cUN /\ Abs(P + oN) + 2 * UN <= 2 * cUN
    BY <1>15, <1>16, <1>20, <1>23, <2>1, AbsFacts, SMTT(30)
  <2> QED
    BY <1>2, <1>28, <2>2
<1>31. ASSUME D <= Abs(q)
       PROVE  Physical(d, raw) \in Int /\ Abs(Physical(d, raw) * N - (P + oN)) <= 4 * UN
  <2>1. DS <= Abs(qs)
    BY <1>25, <1>31
  <2>2. Abs(P) <= 4 * cUN /\ Abs(P + oN) + 4 * UN <= 4 * cUN
    BY <1>15, <1>16, <1>20, <1>23, <2>1, AbsFacts, SMTT(30)
  <2>3. 2 * (2 * U) = 4 * U
    OBVIOUS
  <2> QED
    BY <1>2, <1>28, <2>2, <2>3
<1>32. PICK w : w = Physical(d, raw)
  OBVIOUS
<1>33. w \in Int
  <2>1. 2 * D <= N \/ X = q \/ D <= Abs(q)
    BY <1>3, <1>23
  <2> QED
    BY <1>30, <1>31, <1>32, <2>1
<1>34. PICK wN \in Int : wN = w * N /\ Abs(wN - vN) = N * Abs(w - v)
  BY <1>29, <1>33
<1>35. N * Abs(w - v) \in Nat
  BY <1>33, AbsFacts
<1>40. PICK f \in Int : f = wN - (P + oN)
  OBVIOUS
<1>41. PICK g \in Int : g = P - qs /\ Abs(g) = DS
  BY <1>23
<1>42. PICK h \in Int : h = qs - AN /\ 2 * Abs(h) <= 3 * UN /\ Abs(h) \in Nat
  BY <1>20, AbsFacts
<1>43. Abs(wN - vN) <= Abs(f) + DS + Abs(h) /\ Abs(f) \in Nat
  <2>1. wN - vN = f + g + h
    BY <1>15, <1>40, <1>41, <1>42
  <2> QED
    BY <1>41, <2>1, AbsSum, AbsFacts
<1>36. ASSUME 2 * D <= N
       PROVE  2 * Abs(w - v) <= S + 8 * U
  <2>1. Abs(f) <= 2 * UN /\ 2 * DS <= SN
    BY <1>24, <1>30, <1>32, <1>34, <1>36, <1>40
  <2>2. 2 * (N * Abs(w - v)) <= SN + 8 * UN
    BY <1>34, <1>35, <1>42, <1>43, <2>1
  <2> QED
    BY <1>29, <1>33, <2>2
<1>37. ASSUME X = q
       PROVE  Abs(w - v) <= 4 * U
  <2>1. Abs(f) <= 2 * UN /\ DS = 0
    BY <1>26, <1>30, <1>32, <1>34, <1>37, <1>40
  <2>2. N * Abs(w - v) <= 4 * UN
    BY <1>34, <1>35, <1>42, <1>43, <2>1
  <2> QED
    BY <1>29, <1>33, <2>2
<1>38. ASSUME NEW x \in Int, D <= Abs(q), D <= Abs(x - q)
       PROVE  N * Abs(w - v) <= Abs(x * scale + (offset - v) * N) + 8 * u * N
  <2>1. Abs(f) <= 4 * UN
    BY <1>31, <1>32, <1>34, <1>38, <1>40
  <2>2. PICK xs \in Int : xs = x * scale
    OBVIOUS
  <2>3. DS <= Abs(xs - qs)
    <3>1. PICK t \in Nat : t = Abs(x - q)
      BY AbsFacts
    <3>2. Abs(xs - qs) = t * S
      BY <1>22, <2>2, <3>1
    <3>3. D * S <= t * S
      BY <1>38, <3>1, Monotone
    <3> QED
      BY <1>23, <3>2, <3>3
  <2>4. PICK e \in Int : e = xs - AN /\ Abs(e) \in Nat
    BY AbsFacts
  <2>5. Abs(xs - qs) <= Abs(e) + Abs(h)
    <3>1. xs - qs = e + (-h) + 0 /\ -h \in Int
      BY <1>42, <2>4
    <3>2. Abs(-h) = Abs(h) /\ Abs(0) = 0
      BY AbsFacts
    <3>3. Abs(e + (-h) + 0) <= Abs(e) + Abs(-h) + Abs(0)
      BY <3>1, AbsSum
    <3> QED
      BY <1>42, <2>4, <3>1, <3>2, <3>3
  <2>6. N * Abs(w - v) <= Abs(e) + 8 * UN
    <3>1. PICK k \in Nat : k = Abs(xs - qs)
      BY AbsFacts
    <3> QED
      BY <1>34, <1>35, <1>42, <1>43, <2>1, <2>3, <2>4, <2>5, <3>1
  <2>7. e = x * scale + (offset - v) * N
    <3>1. (offset - v) * N = -AN
      BY <1>6, <1>15
    <3> QED
      BY <2>2, <2>4, <3>1
  <2>8. 8 * UN = 8 * u * N
    BY <1>1, <1>9
  <2> QED
    BY <2>6, <2>7, <2>8
<1>39. u = U
  BY <1>1
<1>44. 2 * Abs(X - q) <= ONE => 2 * Abs(w - v) <= Abs(scale) + 8 * u
  BY <1>3, <1>5, <1>23, <1>36, <1>39
<1>45. X = q => Abs(w - v) <= 4 * u
  BY <1>37, <1>39
<1>46. ASSUME NEW x \in Int, Abs(X - q) <= Abs(q), Abs(X - q) <= Abs(x - q)
       PROVE  ONE * Abs(w - v) <= Abs(x * scale + (offset - v) * ONE) + 8 * u * ONE
  BY <1>3, <1>23, <1>38, <1>46
<1> QED
  BY <1>32, <1>33, <1>44, <1>45, <1>46 DEF NearSent

\* The number a signal is sent with is decoded, and near enough.
LEMMA NumArrives ==
  ASSUME NEW d \in GoodDefs, NEW s, s = NewSignal(d), Kind(s) = "Num",
         NEW value, value.kind = "Num", NEW v \in Int, value.v = v,
         EncodeValue(s, value).err = None, Far(d, v)
  PROVE  \E w \in Int : /\ DecodeValue(s, EncodeValue(s, value).ok) = Ok(Value("Num", w))
                        /\ Received(s, value, Value("Num", w))
<1>1. /\ s.def = d /\ d.ty \in DOMAIN Sizes /\ (d.ty \in Integral \/ d.ty \in FloatTypes)
      /\ d.ty \notin Integral \/ d.ty \notin FloatTypes
  BY KindFacts DEF Integral
<1>2. PICK scale \in Int \ {0}, offset \in Int : scale = d.scale /\ offset = d.offset
  BY GoodDefFacts
<1>3. PICK a \in Int, q \in F64s, raw \in Int, p \in Seq(Byte) :
        NumSent(d, s, v, a, q, raw, p) /\ EncodeValue(s, value) = Ok(p)
  BY NumPayload
<1>4. /\ a = F64(v - offset, 1) /\ q = Div(a, scale) /\ q \in Int
      /\ Len(p) = Size(d.ty) /\ raw = ReadRaw(d.ty, Endian(s), p)
      /\ \/ d.ty \in Integral /\ raw = Round(q) /\ Abs(raw) <= I128Max
         \/ d.ty \in FloatTypes /\ raw \in F64s /\ Carried(d.ty, raw, q)
  BY <1>2, <1>3 DEF NumSent, F64s
<1>5. EncodeValue(s, value).ok = p
  BY <1>3 DEF Ok
<1>6. PICK u : u = Unit(d, v)
  OBVIOUS
<1>7. ASSUME Physical(d, raw) \in Int
      PROVE  DecodeValue(s, p) = Ok(Value("Num", Physical(d, raw)))
  BY <1>1, <1>4, <1>7, NoneAssumption DEF DecodeValue
<1>8. ASSUME NEW X \in Int, X = AsFloat(d.ty, raw),
             2 * Abs(X - q) <= ONE \/ X = q \/ Abs(X - q) <= Abs(q)
      PROVE  NearSent(scale, offset, v, u, q, X, Physical(d, raw))
  BY <1>2, <1>4, <1>6, <1>8, NumNear
<1>9. PICK w : w = Physical(d, raw)
  OBVIOUS
<1>10. Value("Num", w).v = w
  BY DEF Value
<1>11. CASE d.ty \in Integral
  <2>1. raw = Round(q) /\ Abs(raw) <= I128Max /\ d.ty \notin FloatTypes
    BY <1>1, <1>4, <1>11
  <2>2. PICK X \in Int : X = raw * ONE
    BY Ulps1
  <2>3. X = AsFloat(d.ty, raw)
    <3>1. FromInt(raw) = raw * ONE
      BY <2>1, RoundedIsFloat
    <3> QED
      BY <2>1, <2>2, <3>1 DEF AsFloat
  <2>4. 2 * Abs(X - q) <= ONE
    BY <1>4, <2>1, <2>2, RoundFacts
  <2>5. w \in Int /\ 2 * Abs(w - v) <= Abs(scale) + 8 * u
    <3>1. NearSent(scale, offset, v, u, q, X, w)
      BY <1>8, <1>9, <2>3, <2>4
    <3> QED
      BY <2>4, <3>1 DEF NearSent
  <2>6. Received(s, value, Value("Num", w))
    <3>1. Received(s, value, Value("Num", w)) <=>
            2 * Abs(Value("Num", w).v - value.v) <= Abs(d.scale) + 8 * Unit(d, value.v)
      BY <1>1, <2>1 DEF Received, FloatTypes
    <3> QED
      BY <1>2, <1>6, <1>10, <2>5, <3>1
  <2> QED
    BY <1>5, <1>7, <1>9, <2>5, <2>6
<1>12. CASE d.ty = "f64"
  <2>1. d.ty \in FloatTypes /\ d.ty # "f32" /\ raw = q
    BY <1>1, <1>4, <1>12 DEF FloatTypes, Carried
  <2>2. raw = AsFloat(d.ty, raw)
    BY <2>1 DEF AsFloat
  <2>3. w \in Int /\ Abs(w - v) <= 4 * u
    <3>1. NearSent(scale, offset, v, u, q, raw, w)
      BY <1>8, <1>9, <2>1, <2>2
    <3> QED
      BY <2>1, <3>1 DEF NearSent
  <2>4. Received(s, value, Value("Num", w))
    BY <1>1, <1>6, <1>10, <1>12, <2>1, <2>3 DEF Received
  <2> QED
    BY <1>5, <1>7, <1>9, <2>3, <2>4
<1>13. CASE d.ty = "f32"
  <2>1. d.ty \in FloatTypes /\ d.ty # "f64"
    BY <1>13 DEF FloatTypes
  <2>2. \A z \in Numbers("f32") : Abs(raw - q) <= Abs(z - q)
    BY <1>1, <1>4, <1>13, <2>1 DEF Carried
  <2>3. 0 \in Numbers("f32") /\ \A z \in Numbers("f32") : z \in Int
    <3>1. "f32" \in DOMAIN Sizes \cap FloatTypes
      BY <1>1, <1>13, <2>1
    <3>2. 0 \in Numbers("f32") /\ Numbers("f32") \subseteq F64s
      BY <3>1, FloatAssumption
    <3> QED
      BY <3>2 DEF F64s
  <2>4. Abs(raw - q) <= Abs(q)
    <3>1. Abs(raw - q) <= Abs(0 - q)
      BY <2>2, <2>3
    <3>2. Abs(0 - q) = Abs(q)
      <4>1. 0 - q = -q
        BY <1>4
      <4> QED
        BY <1>4, <4>1, AbsFacts
    <3> QED
      BY <3>1, <3>2
  <2>5. raw = AsFloat(d.ty, raw)
    BY <2>1 DEF AsFloat
  <2>6. w \in Int /\ \A x \in Int : Abs(raw - q) <= Abs(q) /\ Abs(raw - q) <= Abs(x - q) =>
          ONE * Abs(w - v) <= Abs(x * scale + (offset - v) * ONE) + 8 * u * ONE
    <3>1. NearSent(scale, offset, v, u, q, raw, w)
      BY <1>8, <1>9, <2>4, <2>5
    <3> QED
      BY <3>1 DEF NearSent
  <2>7. \A x \in Numbers("f32") :
          ONE * Abs(w - v) <= Abs(x * scale + (offset - v) * ONE) + 8 * u * ONE
    BY <2>2, <2>3, <2>4, <2>6
  <2>8. Received(s, value, Value("Num", w))
    BY <1>1, <1>2, <1>6, <1>10, <1>13, <2>1, <2>7 DEF Received
  <2> QED
    BY <1>5, <1>7, <1>9, <2>6, <2>8
<1> QED
  BY <1>1, <1>11, <1>12, <1>13 DEF FloatTypes

\* The value that a signal is sent with is decoded, and is the one received.
Arrived(s, value) ==
  LET got == DecodeValue(s, EncodeValue(s, value).ok)
  IN  got.err = None /\ Received(s, value, got.ok)

LEMMA ValueFields ==
  ASSUME NEW value \in SignalValues
  PROVE  /\ value.kind \in {"Bool", "Enum", "Num"} /\ value = Value(value.kind, value.v)
         /\ value.kind = "Bool" => value.v \in BOOLEAN
         /\ value.kind = "Num" => value.v \in F64s /\ value.v \in Int
<1>1. CASE value \in [kind : {"Bool"}, v : BOOLEAN]
  BY <1>1 DEF Value
<1>2. CASE value \in [kind : {"Enum"}, v : STRING]
  BY <1>2 DEF Value
<1>3. CASE value \in [kind : {"Num"}, v : F64s]
  BY <1>3 DEF Value, F64s
<1> QED
  BY <1>1, <1>2, <1>3 DEF SignalValues

LEMMA EnumArrives ==
  ASSUME NEW d \in GoodDefs, NEW s, s = NewSignal(d), NEW value \in SignalValues,
         value.kind = "Enum", EncodeValue(s, value).err = None
  PROVE  Arrived(s, value)
<1>1. Kind(s) = "Enum" /\ s.def = d
  BY KindFacts, WireAssumption DEF EncodeValue, Err
<1>2. d.enum # None /\ Entries(d) = d.enum
  BY <1>1, KindFacts, EnumFacts
<1>3. EnumRaw(s, value.v) # None
  BY <1>1, WireAssumption DEF EncodeValue, Err
<1>4. PICK i \in DOMAIN d.enum : d.enum[i].label = value.v /\ d.enum[i].raw = EnumRaw(s, value.v)
  BY <1>2, <1>3, EnumFacts
<1>5. PICK raw, label, p : /\ raw = d.enum[i].raw /\ label = EnumLabel(s, raw)
                           /\ p = Bytes(d.ty, Endian(s), raw)
  OBVIOUS
<1>6. /\ EncodeValue(s, Value("Enum", value.v)) = Ok(p)
      /\ DecodeValue(s, p) = Ok(Value("Enum", label))
      /\ EnumRaw(s, label) = raw
  BY <1>2, <1>4, <1>5, EnumPayload
<1>7. EncodeValue(s, value).ok = p
  BY <1>6, ValueFields DEF Ok
<1>8. EnumLabel(s, raw) # None
  BY <1>2, <1>5, EnumFacts
<1>9. PICK j \in DOMAIN d.enum : d.enum[j].raw = raw /\ d.enum[j].label = label
  BY <1>2, <1>5, <1>8, EnumFacts
<1>10. Unambiguous(s) => label = value.v
  <2>1. Unambiguous(s) => j = i
    BY <1>1, <1>2, <1>5, <1>9 DEF Unambiguous
  <2> QED
    BY <1>4, <1>9, <2>1
<1>11. Value("Enum", label).v = label
  BY DEF Value
<1>12. Received(s, value, Value("Enum", label)) <=>
         IF Unambiguous(s) THEN Value("Enum", label) = value
         ELSE EnumRaw(s, Value("Enum", label).v) = EnumRaw(s, value.v)
  BY DEF Received
<1>13. Received(s, value, Value("Enum", label))
  BY <1>4, <1>5, <1>6, <1>10, <1>11, <1>12, ValueFields
<1> QED
  BY <1>6, <1>7, <1>13 DEF Arrived, Ok

LEMMA ValueArrives ==
  ASSUME NEW d \in GoodDefs, NEW s, s = NewSignal(d), NEW value \in SignalValues,
         EncodeValue(s, value).err = None,
         value.kind = "Num" => Far(d, value.v)
  PROVE  Arrived(s, value)
<1>1. Kind(s) = value.kind
  BY EncodeValueType
<1>2. CASE value.kind = "Bool"
  <2>1. PICK b \in BOOLEAN : b = value.v /\ value = Value("Bool", b)
    BY <1>2, ValueFields
  <2>2. PICK p : p = Bytes("bool", Endian(s), IF b THEN 1 ELSE 0)
    OBVIOUS
  <2>3. EncodeValue(s, value) = Ok(p) /\ DecodeValue(s, p) = Ok(Value("Bool", b))
    BY <1>1, <1>2, <2>1, <2>2, BoolPayload
  <2>4. Received(s, value, value)
    BY <1>2 DEF Received
  <2> QED
    BY <2>1, <2>3, <2>4 DEF Arrived, Ok
<1>3. CASE value.kind = "Num"
  <2>1. PICK v \in Int : v = value.v
    BY <1>3, ValueFields
  <2>2. PICK w \in Int : /\ DecodeValue(s, EncodeValue(s, value).ok) = Ok(Value("Num", w))
                         /\ Received(s, value, Value("Num", w))
    BY <1>1, <1>3, <2>1, NumArrives
  <2> QED
    BY <2>2 DEF Arrived, Ok
<1> QED
  BY <1>2, <1>3, EnumArrives, ValueFields
-----------------------------------------------------------------------------
(* The walk over a packet *)

\* The verdict on the header is the one of HeaderError.
HeaderTaken ==
  /\ status \in PacketErrors => status = HeaderError
  /\ Walking => HeaderError = None

\* The walk ends where all frames are read or the next one is cut.
Ended == status = "done" => Len(read) = FrameCount \/ ~Complete

\* The frames read are the ones of the packet that the datagram agrees with.
Walks == Walking => \A fs : Frames(fs) /\ Carries(fs, buf) => Along(fs)

WInv == HeaderTaken /\ Ended /\ Walks

LEMMA SameDatagram ==
  ASSUME buf' = buf
  PROVE  /\ HeaderError' = HeaderError /\ FrameCount' = FrameCount
         /\ \A fs : Carries(fs, buf)' <=> Carries(fs, buf)
<1>1. FrameCount' = FrameCount
  BY DEF FrameCount
<1> QED
  BY <1>1 DEF HeaderError

LEMMA HeaderErrorType == HeaderError \in PacketErrors \cup {None}
BY DEF HeaderError, PacketErrors

LEMMA WInvHeader ==
  ASSUME DInv, Header
  PROVE  WInv'
<1>1. /\ status = "header" /\ buf' = buf /\ read' = read /\ read = <<>>
      /\ \/ HeaderError # None /\ status' = HeaderError
         \/ HeaderError = None /\ status' = "frames"
  BY DEF Header, DInv, AtStart, Walking
<1>2. HeaderError' = HeaderError /\ FrameCount' = FrameCount
  BY <1>1, SameDatagram
<1>3. CASE HeaderError # None
  <2>1. status' \in PacketErrors /\ status' = HeaderError'
    BY <1>1, <1>2, <1>3, HeaderErrorType
  <2>2. status' # "frames" /\ status' # "done"
    BY <2>1 DEF PacketErrors
  <2> QED
    BY <2>1, <2>2 DEF WInv, HeaderTaken, Ended, Walks, Walking
<1>4. CASE HeaderError = None
  <2>1. status' = "frames" /\ HeaderError' = None
    BY <1>1, <1>2, <1>4
  <2>2. status' \notin PacketErrors
    BY <2>1 DEF PacketErrors
  <2>3. ASSUME NEW fs, Frames(fs), Carries(fs, buf)
        PROVE  Along(fs)'
    <3>1. fs \in Seq(FrameType) /\ Len(fs) \in Byte /\ Len(fs) \in Nat
      BY <2>3, SentFrameFacts, SeqMonotonic, ByteFacts DEF Frames
    <3>2. PICK w \in Seq(Byte) : /\ w = PacketBytes(Len(fs), fs)
                                 /\ Len(w) \in Nat /\ Len(w) >= PACKET_HEADER_LEN
                                 /\ PACKET_HEADER_LEN \in Nat
      <4>1. /\ PacketBytes(Len(fs), fs) \in Seq(Byte) /\ PACKET_HEADER_LEN \in Nat
            /\ Len(PacketBytes(Len(fs), fs)) = PACKET_HEADER_LEN + Len(FrameBytes(fs))
            /\ FrameBytes(fs) \in Seq(Byte)
        BY <3>1, PacketFacts
      <4>2. Len(FrameBytes(fs)) \in Nat
        BY <4>1, LenProperties
      <4> QED
        BY <4>1, <4>2
    <3>3. /\ buf \in Seq(Byte) /\ Len(buf) >= PACKET_HEADER_LEN /\ Len(buf) \in Nat
          /\ \A j \in 1..Len(buf) : j <= Len(w) => buf[j] = w[j]
      BY <2>3, <3>2, LenProperties DEF Carries
    <3>4. \A j \in 1..PACKET_HEADER_LEN : buf[j] = w[j]
      BY <3>2, <3>3
    <3>5. buf[PACKET_HEADER_LEN] = Len(fs)
      BY <3>1, <3>2, <3>3, <3>4, HeaderFound
    <3>6. FrameCount' = Len(fs)
      BY <1>2, <3>5 DEF FrameCount
    <3>7. Len(read') = 0
      BY <1>1
    <3> QED
      BY <3>1, <3>6, <3>7 DEF Along, Leads
  <2>4. \A fs : Frames(fs) /\ Carries(fs, buf)' => Along(fs)'
    BY <1>1, <2>3, SameDatagram
  <2> QED
    BY <2>1, <2>2, <2>4 DEF WInv, HeaderTaken, Ended, Walks, Walking
<1> QED
  BY <1>3, <1>4

LEMMA NextFrame ==
  ASSUME DInv, Walking, NEW fs, Frames(fs), Carries(fs, buf), Along(fs),
         NEW k, k = Len(read), NEW w, w = PacketBytes(Len(fs), fs), k < Len(fs),
         NEW f, f = fs[k + 1], NEW e, e = EncodeFrame(f)
  PROVE  /\ f \in SentFrame /\ Len(e) \in Nat /\ pos + Len(e) <= Len(w)
         /\ k + 1 = Len(fs) => pos + Len(e) = Len(w)
         /\ k + 1 < Len(fs) => pos + Len(e) + Len(EncodeFrame(fs[Len(fs)])) <= Len(w)
         /\ Complete <=> pos + Len(e) <= Len(buf)
         /\ Complete => Frame = f
<1>1. /\ fs[k + 1] \in SentFrame /\ Len(EncodeFrame(fs[k + 1])) \in Nat
      /\ pos + Len(EncodeFrame(fs[k + 1])) <= Len(w)
      /\ k + 1 = Len(fs) => pos + Len(EncodeFrame(fs[k + 1])) = Len(w)
      /\ k + 1 < Len(fs) =>
           pos + Len(EncodeFrame(fs[k + 1])) + Len(EncodeFrame(fs[Len(fs)])) <= Len(w)
      /\ \A j \in 1..Len(EncodeFrame(fs[k + 1])) :
           pos + j <= Len(buf) => buf[pos + j] = EncodeFrame(fs[k + 1])[j]
  <2>1. NextIs(fs, k, w)
    BY Ahead
  <2> QED
    BY <2>1 DEF NextIs
<1>2. /\ f \in SentFrame /\ \A j \in 1..Len(e) : pos + j <= Len(buf) => buf[pos + j] = e[j]
  BY <1>1
<1>4. buf \in Seq(Byte) /\ pos \in 0..Len(buf)
  BY DEF DInv, Types
<1>3. /\ Complete <=> pos + Len(e) <= Len(buf)
      /\ Complete => /\ Frame = f /\ PayloadLen = Len(f.payload)
                     /\ Len(e) = FRAME_HEADER_LEN + PayloadLen
  BY <1>2, <1>4, FrameIs
<1> QED
  BY <1>1, <1>3

LEMMA WInvFrameRead ==
  ASSUME DInv, WInv, FrameRead
  PROVE  WInv'
<1>1. /\ status = "frames" /\ status' = "frames" /\ buf' = buf
      /\ Complete /\ Len(read) < FrameCount /\ read' = Append(read, Frame)
  BY DEF FrameRead, Index
<1>2. HeaderError' = HeaderError /\ FrameCount' = FrameCount
  BY <1>1, SameDatagram
<1>3. Walking /\ Walking' /\ status' \notin PacketErrors /\ HeaderError = None
  BY <1>1 DEF Walking, PacketErrors, WInv, HeaderTaken
<1>4. ASSUME NEW fs, Frames(fs), Carries(fs, buf)
      PROVE  Along(fs)'
  <2>1. Along(fs)
    BY <1>3, <1>4 DEF WInv, Walks
  <2>2. PICK k \in Nat, n \in Nat : k = Len(read) /\ n = Len(fs) /\ k < n
    <3>1. Len(read) \in Nat /\ Len(fs) \in Nat
      BY <1>4, LenProperties DEF DInv, Types, Frames
    <3> QED
      BY <1>1, <2>1, <3>1 DEF Along
  <2>3. PICK w : w = PacketBytes(Len(fs), fs)
    OBVIOUS
  <2>4. PICK f, e : f = fs[k + 1] /\ e = EncodeFrame(f)
    OBVIOUS
  <2>5. Frame = f /\ f \in SentFrame
    BY <1>1, <1>3, <1>4, <2>1, <2>2, <2>3, <2>4, NextFrame
  <2>6. FrameType # {} /\ read \in Seq(FrameType) /\ Frame \in FrameType
    BY <2>5, SentFrameFacts DEF DInv, Types
  <2>7. /\ Len(read') = k + 1 /\ read'[k + 1] = f
        /\ \A i \in 1..k : read'[i] = read[i]
    BY <1>1, <2>2, <2>5, <2>6, AppendProperties
  <2>8. \A i \in 1..k : read[i] = fs[i]
    BY <2>1, <2>2 DEF Along, Leads
  <2>9. Leads(read, fs)'
    <3>1. \A i \in 1..k + 1 : i \in 1..k \/ i = k + 1
      BY <2>2
    <3>2. \A i \in 1..k + 1 : read'[i] = fs[i]
      BY <2>4, <2>7, <2>8, <3>1
    <3> QED
      BY <2>2, <2>7, <3>2 DEF Leads
  <2>10. FrameCount' = Len(fs)
    BY <1>2, <2>1 DEF Along
  <2> QED
    BY <2>9, <2>10 DEF Along
<1>5. \A fs : Frames(fs) /\ Carries(fs, buf)' => Along(fs)'
  BY <1>1, <1>4, SameDatagram
<1> QED
  BY <1>1, <1>2, <1>3, <1>5 DEF WInv, HeaderTaken, Ended, Walks

LEMMA WInvNext ==
  ASSUME DInv, WInv, [DecoderNext]_wireVars
  PROVE  WInv'
<1>1. CASE \E bytes \in Seq(0..BASE - 1) : Arrives(bytes)
  <2>1. status' = "header"
    BY <1>1 DEF Arrives
  <2> QED
    BY <2>1 DEF WInv, HeaderTaken, Ended, Walks, Walking, PacketErrors
<1>2. ASSUME FrameTruncated \/ Finish
      PROVE  WInv'
  <2>1. /\ status = "frames" /\ status' = "done" /\ buf' = buf /\ read' = read /\ pos' = pos
        /\ Len(read) = FrameCount \/ ~Complete
    BY <1>2 DEF FrameTruncated, Finish, Index
  <2>2. HeaderError' = HeaderError /\ FrameCount' = FrameCount
    BY <2>1, SameDatagram
  <2>3. Walking /\ status' \notin PacketErrors
    BY <2>1 DEF Walking, PacketErrors
  <2>4. Complete' = Complete
    BY <2>1 DEF Complete, Remaining, PayloadLen
  <2>5. \A fs : Along(fs)' <=> Along(fs)
    BY <2>1, <2>2 DEF Along, Leads
  <2>6. \A fs : Frames(fs) /\ Carries(fs, buf)' => Along(fs)'
    BY <2>1, <2>3, <2>5, SameDatagram DEF WInv, Walks
  <2> QED
    BY <2>1, <2>2, <2>3, <2>4, <2>6 DEF WInv, HeaderTaken, Ended, Walks
<1>3. CASE UNCHANGED wireVars
  <2>1. status' = status /\ buf' = buf /\ read' = read /\ pos' = pos
    BY <1>3 DEF wireVars
  <2>2. HeaderError' = HeaderError /\ FrameCount' = FrameCount
    BY <2>1, SameDatagram
  <2>3. Complete' = Complete /\ Walking' = Walking
    BY <2>1 DEF Complete, Remaining, PayloadLen, Walking
  <2>4. \A fs : Along(fs)' <=> Along(fs)
    BY <2>1, <2>2 DEF Along, Leads
  <2>5. Walks'
    BY <2>1, <2>3, <2>4, SameDatagram DEF WInv, Walks
  <2> QED
    BY <2>1, <2>2, <2>3, <2>5 DEF WInv, HeaderTaken, Ended
<1> QED
  BY <1>1, <1>2, <1>3, WInvHeader, WInvFrameRead DEF DecoderNext, Decode

\* Whatever bytes arrive, the walk follows every packet that they agree with.
THEOREM PacketWalked == DecoderSpec => []WInv
<1>1. DecoderInit => WInv
  BY DEF DecoderInit, WInv, HeaderTaken, Ended, Walks, Walking, PacketErrors
<1>2. DInv /\ WInv /\ [DecoderNext]_wireVars => WInv'
  BY WInvNext
<1> QED
  BY <1>1, <1>2, DecoderInvariance, PTL DEF DecoderSpec

\* A packet that arrives whole is read whole ...
LEMMA WholeRead ==
  ASSUME DInv, WInv, status = "done", NEW gs, NEW w, Packet(gs, w), Carries(gs, buf),
         Len(buf) >= Len(w)
  PROVE  read = gs /\ pos = Len(w) /\ FrameCount = Len(gs)
<1>1. Walking /\ Frames(gs) /\ w = PacketBytes(Len(gs), gs)
  BY DEF Walking, Packet, Frames
<1>2. Along(gs)
  BY <1>1 DEF WInv, Walks
<1>3. PICK k : k = Len(read)
  OBVIOUS
<1>4. /\ pos \in Nat /\ Len(w) \in Nat /\ k \in Nat /\ Len(gs) \in Nat
      /\ k = Len(gs) => pos = Len(w) /\ read = gs
  BY <1>1, <1>2, <1>3, Ahead
<1>5. FrameCount = Len(gs) /\ k <= Len(gs)
  BY <1>2, <1>3 DEF Along, Leads
<1>6. ASSUME k < Len(gs)
      PROVE  FALSE
  <2>1. PICK f, e : f = gs[k + 1] /\ e = EncodeFrame(f)
    OBVIOUS
  <2>2. /\ Len(e) \in Nat /\ pos + Len(e) <= Len(w)
        /\ Complete <=> pos + Len(e) <= Len(buf)
    BY <1>1, <1>2, <1>3, <1>6, <2>1, NextFrame
  <2>3. Len(buf) \in Nat
    BY LenProperties DEF DInv, Types
  <2>4. Complete
    BY <1>4, <2>2, <2>3
  <2> QED
    BY <1>3, <1>4, <1>5, <1>6, <2>4 DEF WInv, Ended
<1> QED
  BY <1>4, <1>5, <1>6

\* ... and one that is cut in its last frame up to this one.
LEMMA CutRead ==
  ASSUME DInv, WInv, status = "done", NEW gs, NEW w, Packet(gs, w), Carries(gs, buf),
         Len(buf) < Len(w), Len(buf) >= Len(w) - Len(EncodeFrame(gs[Len(gs)]))
  PROVE  Len(read) = Len(gs) - 1 /\ FrameCount = Len(gs) /\ Leads(read, gs)
<1>1. Walking /\ Frames(gs) /\ w = PacketBytes(Len(gs), gs)
  BY DEF Walking, Packet, Frames
<1>2. Along(gs)
  BY <1>1 DEF WInv, Walks
<1>3. PICK k : k = Len(read)
  OBVIOUS
<1>4. /\ pos \in Nat /\ Len(w) \in Nat /\ k \in Nat /\ Len(gs) \in Nat
      /\ k = Len(gs) => pos = Len(w)
  BY <1>1, <1>2, <1>3, Ahead
<1>5. FrameCount = Len(gs) /\ k <= Len(gs) /\ Leads(read, gs)
  BY <1>2, <1>3 DEF Along, Leads
<1>6. Len(buf) \in Nat /\ pos <= Len(buf)
  BY LenProperties DEF DInv, Types
<1>7. k < Len(gs)
  BY <1>4, <1>5, <1>6
<1>8. PICK f, e : f = gs[k + 1] /\ e = EncodeFrame(f)
  OBVIOUS
<1>9. /\ Len(e) \in Nat
      /\ k + 1 < Len(gs) => pos + Len(e) + Len(EncodeFrame(gs[Len(gs)])) <= Len(w)
      /\ Complete <=> pos + Len(e) <= Len(buf)
  BY <1>1, <1>2, <1>3, <1>7, <1>8, NextFrame, SMTT(30)
<1>10. PICK l \in Nat : l = Len(EncodeFrame(gs[Len(gs)]))
  <2>1. gs \in Seq(SentFrame) /\ Len(gs) \in 1..Len(gs)
    BY <1>1, <1>4 DEF Packet
  <2>2. gs[Len(gs)] \in SentFrame
    BY <2>1, ElementOfSeq
  <2> QED
    BY <2>2, EncodedAt, LenProperties
<1>11. k + 1 < Len(gs) => Complete
  BY <1>4, <1>6, <1>9, <1>10
<1>12. ~(k + 1 < Len(gs))
  BY <1>3, <1>5, <1>7, <1>11 DEF WInv, Ended
<1> QED
  BY <1>3, <1>4, <1>5, <1>7, <1>12

\* The header of a packet is accepted.
LEMMA CarriedAccepted ==
  ASSUME WInv, NEW gs, NEW w, Packet(gs, w), Carries(gs, buf), Len(buf) <= MAX_DATAGRAM_LEN
  PROVE  ~Rejected
<1>1. /\ gs \in Seq(FrameType) /\ Len(gs) \in Byte /\ Len(gs) \in 1..MAX_FRAMES
      /\ w = PacketBytes(Len(gs), gs)
      /\ w \in Seq(Byte) /\ Len(w) \in Nat /\ Len(w) >= PACKET_HEADER_LEN
      /\ PACKET_HEADER_LEN \in Nat
  BY PacketLength DEF Packet
<1>2. /\ buf \in Seq(Byte) /\ Len(buf) >= PACKET_HEADER_LEN /\ Len(buf) \in Nat
      /\ \A j \in 1..Len(buf) : j <= Len(w) => buf[j] = w[j]
  BY <1>1, LenProperties DEF Carries
<1>3. \A j \in 1..PACKET_HEADER_LEN : buf[j] = w[j]
  BY <1>1, <1>2
<1>4. /\ Be(SubSeq(buf, 1, U16Len)) = MAGIC /\ buf[U16Len + 1] = VERSION
      /\ buf[PACKET_HEADER_LEN] = Len(gs)
  <2>1. PICK c \in Byte, b \in Seq(Byte) : c = Len(gs) /\ b = buf
    BY <1>1, <1>2
  <2>2. /\ Len(b) >= PACKET_HEADER_LEN
        /\ \A j \in 1..PACKET_HEADER_LEN : b[j] = PacketBytes(c, gs)[j]
    BY <1>1, <1>2, <1>3, <2>1
  <2>3. /\ Be(SubSeq(b, 1, U16Len)) = MAGIC
        /\ b[U16Len + 1] = VERSION /\ b[PACKET_HEADER_LEN] = c
    BY <1>1, <2>2, HeaderFound
  <2> QED
    BY <2>1, <2>3
<1>5. PICK n \in 1..MAX_FRAMES : n = Len(gs)
  BY <1>1
<1>6. /\ ~(Len(buf) > MAX_DATAGRAM_LEN) /\ ~(Len(buf) < PACKET_HEADER_LEN)
      /\ n # 0 /\ ~(n > MAX_FRAMES)
  BY <1>1, <1>2, <1>5, WireAssumption
<1>7. HeaderError = None
  BY <1>4, <1>5, <1>6 DEF HeaderError, FrameCount
<1>8. None \notin PacketErrors
  BY WireAssumption DEF PacketErrors
<1> QED
  BY <1>7, <1>8 DEF WInv, HeaderTaken, Rejected
-----------------------------------------------------------------------------
(* The outcomes of the frames *)

LEMMA SignalNotNone ==
  ASSUME catalog \in Catalogs, NEW j \in DOMAIN catalog.signals
  PROVE  catalog.signals[j] # None
<1>1. PICK doc \in Docs : catalog = NewCatalog(doc)
  BY DEF Catalogs
<1>2. catalog.signals = [i \in DOMAIN doc.signals |-> NewSignal(doc.signals[i])]
  BY <1>1 DEF NewCatalog
<1>3. j \in DOMAIN doc.signals /\ catalog.signals[j] = NewSignal(doc.signals[j])
  BY <1>2
<1> QED
  BY <1>3, SenderAssumption

\* Frame f is the sample of the value that the i-th signal was sent with.
Delivered(f, i) ==
  LET s == Simulated[i]
  IN  /\ ById(catalog, f.signal_id) = s /\ s # None /\ FrameOutcome(f) = "sample"
      /\ Len(f.payload) = Size(s.def.ty)
      /\ SampleOf(f).signal_id = s.def.id /\ SampleOf(f).name = s.def.name
      /\ Received(s, sent[i], SampleOf(f).value)

LEMMA SentOutcome ==
  ASSUME catalog \in Catalogs, NEW fs, Made(fs), FarFromOverflow
  PROVE  /\ Len(sent) = Len(fs) /\ Len(sent) \in Nat /\ DOMAIN sent = 1..Len(sent)
         /\ \A i \in 1..Len(sent) : Delivered(fs[i], i)
<1>1. PICK v \in Vehicles : v = sent /\ Encodable(v)
  BY DEF Made
<1>2. PICK ts \in Stamps : fs = RawFrames(v, ts)
  BY <1>1 DEF Made
<1>3. PICK m : m = Len(Simulated)
  OBVIOUS
<1>4. /\ Len(fs) = m /\ m \in Nat /\ Len(v) = m
      /\ \A i \in 1..m : SentAs(fs, v, ts, i)
  BY <1>1, <1>2, <1>3, RawFramesFacts
<1>5. DOMAIN v = 1..m
  BY <1>3, VehicleFacts
<1>6. ASSUME NEW i \in 1..m
      PROVE  Delivered(fs[i], i)
  <2>1. PICK d \in GoodDefs, j \in DOMAIN catalog.signals, value \in SignalValues :
              /\ Simulated[i] = NewSignal(d) /\ Simulated[i].def = d
              /\ Simulated[i] = catalog.signals[j]
              /\ v[i] = value /\ EncodeValue(Simulated[i], value).err = None
              /\ fs[i].signal_id = d.id /\ fs[i].timestamp_us = ts
              /\ fs[i].payload = EncodeValue(Simulated[i], value).ok
              /\ Len(fs[i].payload) = Size(d.ty)
    BY <1>4 DEF SentAs
  <2>2. PICK s, f : s = Simulated[i] /\ f = fs[i]
    OBVIOUS
  <2>3. ById(catalog, s.def.id) = s
    <3>1. ById(catalog, catalog.signals[j].def.id) = catalog.signals[j]
      BY SignalById
    <3> QED
      BY <2>1, <2>2, <3>1
  <2>4. s # None
    BY <2>1, <2>2, SignalNotNone
  <2>5. value.kind = "Num" => Far(d, value.v)
    BY <1>1, <1>5, <2>1 DEF FarFromOverflow
  <2>6. Arrived(s, value)
    BY <2>1, <2>2, <2>5, ValueArrives
  <2>7. /\ DecodeValue(s, f.payload).err = None
        /\ Received(s, value, DecodeValue(s, f.payload).ok)
    BY <2>1, <2>2, <2>6 DEF Arrived
  <2>8. ById(catalog, f.signal_id) = s /\ f.signal_id = s.def.id
    BY <2>1, <2>2, <2>3
  <2>9. FrameOutcome(f) = "sample"
    BY <2>4, <2>7, <2>8 DEF FrameOutcome
  <2>10. /\ SampleOf(f).signal_id = s.def.id /\ SampleOf(f).name = s.def.name
         /\ SampleOf(f).value = DecodeValue(s, f.payload).ok
    BY <2>8 DEF SampleOf
  <2> QED
    BY <1>1, <2>1, <2>2, <2>4, <2>7, <2>8, <2>9, <2>10 DEF Delivered
<1> QED
  BY <1>1, <1>4, <1>5, <1>6

LEMMA SentKnown ==
  ASSUME catalog \in Catalogs, NEW fs, Made(fs)
  PROVE  /\ Len(sent) = Len(fs) /\ Len(sent) \in Nat
         /\ \A i \in 1..Len(sent) : ById(catalog, fs[i].signal_id) # None
<1>1. PICK v \in Vehicles : v = sent /\ Encodable(v)
  BY DEF Made
<1>2. PICK ts \in Stamps : fs = RawFrames(v, ts)
  BY <1>1 DEF Made
<1>3. PICK m : m = Len(Simulated)
  OBVIOUS
<1>4. /\ Len(fs) = m /\ m \in Nat /\ Len(v) = m
      /\ \A i \in 1..m : SentAs(fs, v, ts, i)
  BY <1>1, <1>2, <1>3, RawFramesFacts
<1>5. ASSUME NEW i \in 1..m
      PROVE  ById(catalog, fs[i].signal_id) # None
  <2>3. SentAs(fs, v, ts, i)
    BY <1>4
  <2>1. PICK j \in DOMAIN catalog.signals : fs[i].signal_id = catalog.signals[j].def.id
    <3>1. PICK d \in GoodDefs, j \in DOMAIN catalog.signals :
                 /\ Simulated[i].def = d /\ Simulated[i] = catalog.signals[j]
                 /\ fs[i].signal_id = d.id
      BY <2>3 DEF SentAs
    <3> QED
      BY <3>1
  <2>2. ById(catalog, fs[i].signal_id) = catalog.signals[j]
    <3>1. ById(catalog, catalog.signals[j].def.id) = catalog.signals[j]
      BY SignalById
    <3> QED
      BY <2>1, <3>1
  <2> QED
    BY <2>2, SignalNotNone
<1> QED
  BY <1>1, <1>4, <1>5

LEMMA IntervalSize ==
  ASSUME NEW a \in Int, NEW k \in Int, a <= k + 1
  PROVE  Cardinality(a..k) = k - a + 1
<1>1. \A i, j \in Int : Cardinality(i..j) = IF i > j THEN 0 ELSE j - i + 1
  BY FS_Interval
<1>2. CASE a > k
  <2>1. Cardinality(a..k) = 0
    BY <1>1, <1>2
  <2> QED
    BY <1>2, <2>1
<1>3. CASE ~(a > k)
  BY <1>1, <1>3
<1> QED
  BY <1>2, <1>3

\* The samples and the errors of a walk whose first x frames are not samples.
LEMMA Outcomes ==
  ASSUME DInv, Walking, NEW k \in Nat, k = Len(read), NEW x \in 0..1, x <= k,
         NEW o, o \in {"unknown", "error"},
         \A i \in 1..k : FrameOutcome(read[i]) = IF i <= x THEN o ELSE "sample"
  PROVE  /\ With("sample") = x + 1..k /\ Len(out.samples) = k - x
         /\ out.unknown_signals = IF o = "unknown" THEN x ELSE 0
         /\ With("error") = IF o = "error" THEN 1..x ELSE {}
         /\ Cardinality(With("error")) = IF o = "error" THEN x ELSE 0
         /\ x = 0 => \A i \in 1..k : out.samples[i] = SampleOf(read[i])
<1>1. DOMAIN read = 1..k
  BY LenProperties DEF DInv, Types
<1>2. With("sample") = x + 1..k
  <2>1. \A i : i \in With("sample") <=> i \in 1..k /\ FrameOutcome(read[i]) = "sample"
    BY <1>1 DEF With
  <2>2. \A i \in 1..k : FrameOutcome(read[i]) = "sample" <=> ~(i <= x)
    OBVIOUS
  <2>3. \A i : i \in x + 1..k <=> i \in 1..k /\ ~(i <= x)
    OBVIOUS
  <2> QED
    BY <2>1, <2>2, <2>3
<1>3. ASSUME NEW p \in {"unknown", "error"}
      PROVE  With(p) = IF o = p THEN 1..x ELSE {}
  <2>1. \A i : i \in With(p) <=> i \in 1..k /\ FrameOutcome(read[i]) = p
    BY <1>1 DEF With
  <2>2. \A i \in 1..k : FrameOutcome(read[i]) = p <=> (i <= x /\ o = p)
    BY <1>3
  <2>3. \A i : i \in 1..x <=> i \in 1..k /\ i <= x
    OBVIOUS
  <2> QED
    BY <2>1, <2>2, <2>3
<1>4. /\ Cardinality(x + 1..k) = k - x /\ Cardinality(1..x) = x
      /\ \A i \in 1..k : Cardinality(1..i) = i
  <2>1. \A a, b \in Int : Cardinality(a..b) = IF a > b THEN 0 ELSE b - a + 1
    BY FS_Interval
  <2>2. PICK a \in Int : a = x + 1
    OBVIOUS
  <2>3. Cardinality(a..k) = k - x
    BY <2>2, IntervalSize
  <2>4. \A i \in Nat : Cardinality(1..i) = i
    BY <2>1
  <2> QED
    BY <2>2, <2>3, <2>4
<1>5. Cardinality({}) = 0
  BY FS_EmptySet
<1>6. /\ out.unknown_signals = Cardinality(With("unknown"))
      /\ Len(out.samples) = Cardinality(With("sample"))
  BY DEF DInv, Counts
<1>7. ASSUME x = 0, NEW i \in 1..k
      PROVE  out.samples[i] = SampleOf(read[i])
  <2>1. With("sample") = 1..k
    BY <1>2, <1>7
  <2>2. {j \in 1..k : j <= i} = 1..i
    OBVIOUS
  <2>3. Rank("sample", i) = i
    BY <1>4, <2>1, <2>2 DEF Rank
  <2> QED
    BY <2>1, <2>3 DEF DInv, SamplesInOrder
<1> QED
  BY <1>2, <1>3, <1>4, <1>5, <1>6, <1>7
-----------------------------------------------------------------------------
(* How the decoding of what was sent ends *)

\* What the errors are when the walk is over.
LEMMA ErrorsAtEnd ==
  ASSUME DInv, status = "done", NEW c \in Nat, c = Cardinality(With("error")),
         NEW r, r = IF Len(read) < FrameCount THEN "truncated" ELSE "trailing_bytes"
  PROVE  /\ out.errors \in Seq(Range(out.errors))
         /\ Len(out.errors) = c + IF Len(read) < FrameCount \/ Remaining > 0 THEN 1 ELSE 0
         /\ Len(read) < FrameCount \/ Remaining > 0 => out.errors[c + 1].kind = r
<1>1. out.errors \in Seq(Range(out.errors))
  BY DEF DInv, Types
<1>2. PICK l \in Nat : l = Len(out.errors)
  BY <1>1, LenProperties
<1>3. /\ Extra = l - c
      /\ Extra = 1 => Last(out.errors).kind = r
      /\ Extra = IF Len(read) < FrameCount \/ Remaining > 0 THEN 1 ELSE 0
  BY <1>2 DEF DInv, Walking, LastError, Extra
<1>4. Last(out.errors) = out.errors[l]
  BY <1>2 DEF Last
<1> QED
  BY <1>1, <1>2, <1>3, <1>4

LEMMA NoReason ==
  ASSUME out.errors \in Seq(Range(out.errors)), Len(out.errors) = 0
  PROVE  out.errors = <<>> /\ Reasons = <<>>
<1>1. out.errors = <<>>
  BY EmptySeq
<1>2. Reasons = [i \in DOMAIN <<>> |-> out.errors[i].kind]
  BY <1>1 DEF Reasons
<1> QED
  BY <1>1, <1>2

LEMMA OneReason ==
  ASSUME out.errors \in Seq(Range(out.errors)), Len(out.errors) = 1,
         NEW r, out.errors[1].kind = r
  PROVE  Reasons = <<r>>
<1>1. DOMAIN out.errors = 1..1
  BY LenProperties
<1>2. Reasons = [i \in 1..1 |-> r]
  BY <1>1 DEF Reasons
<1> QED
  BY <1>2

\* A datagram that is made of a packet of values of the catalog.
LEMMA Arrival ==
  ASSUME SInv, status # "idle", kind # "RandomBytes"
  PROVE  \E fs, w : /\ Made(fs) /\ Packet(fs, w)
                    /\ \/ kind = None /\ buf = w
                       \/ kind \in Kinds /\ buf \in Malformed(kind, w, fs)
<1>1. PICK fs : Made(fs) /\ Sent(fs)
  BY DEF SInv, Origin
<1>2. Packet(fs, EncodePacket(fs).ok)
  BY <1>1, MadePacket DEF SInv
<1> QED
  BY <1>1, <1>2 DEF Sent

\* A walk that reads the frames of the packet fs only, without any other error.
LEMMA AllDelivered ==
  ASSUME SInv, status = "done", FarFromOverflow, NEW fs, Made(fs), Leads(read, fs),
         NEW k \in Nat, k = Len(read)
  PROVE  /\ Len(out.samples) = k /\ out.unknown_signals = 0
         /\ Cardinality(With("error")) = 0
         /\ \A i \in 1..k : i \in 1..Len(sent) /\ Delivered(read[i], i)
                            /\ out.samples[i] = SampleOf(read[i])
<1>1. DInv /\ Walking /\ catalog \in Catalogs
  BY DEF SInv, Walking
<1>2. PICK n \in Nat : /\ n = Len(sent) /\ n = Len(fs)
                       /\ \A i \in 1..n : Delivered(fs[i], i)
  BY <1>1, SentOutcome
<1>3. k <= n /\ \A i \in 1..k : read[i] = fs[i]
  BY <1>2 DEF Leads
<1>4. \A i \in 1..k : i \in 1..n /\ Delivered(read[i], i)
  BY <1>2, <1>3
<1>5. PICK x \in 0..1, o \in {"unknown", "error"} : x = 0 /\ o = "error"
  OBVIOUS
<1>6. \A i \in 1..k : FrameOutcome(read[i]) = "sample"
  BY <1>4 DEF Delivered
<1>7. \A i \in 1..k : FrameOutcome(read[i]) = IF i <= x THEN o ELSE "sample"
  BY <1>5, <1>6
<1>8. /\ Len(out.samples) = k - x
      /\ out.unknown_signals = IF o = "unknown" THEN x ELSE 0
      /\ Cardinality(With("error")) = IF o = "error" THEN x ELSE 0
      /\ x = 0 => \A i \in 1..k : out.samples[i] = SampleOf(read[i])
  BY <1>1, <1>5, <1>7, Outcomes
<1> QED
  BY <1>2, <1>4, <1>5, <1>8

LEMMA RoundTripHolds ==
  ASSUME SInv, WInv
  PROVE  RoundTrip
<1> SUFFICES ASSUME kind = None, status = "done", FarFromOverflow
             PROVE  /\ out.errors = <<>> /\ out.unknown_signals = 0
                    /\ Len(out.samples) = Len(sent)
                    /\ \A i \in DOMAIN sent :
                         LET s == Simulated[i]
                         IN  /\ out.samples[i].signal_id = s.def.id
                             /\ out.samples[i].name = s.def.name
                             /\ Received(s, sent[i], out.samples[i].value)
  BY DEF RoundTrip
<1>1. status # "idle" /\ kind # "RandomBytes" /\ kind \notin Kinds
  BY SenderAssumption
<1>2. PICK fs : Made(fs) /\ Packet(fs, buf)
  BY <1>1, Arrival
<1>3. DInv /\ catalog \in Catalogs
  BY DEF SInv
<1>4. Carries(fs, buf) /\ Len(buf) \in Nat /\ fs \in Seq(FrameType)
  BY <1>2, PacketLength
<1>5. read = fs /\ pos = Len(buf) /\ FrameCount = Len(fs)
  BY <1>2, <1>3, <1>4, WholeRead
<1>6. PICK n \in Nat : n = Len(fs) /\ n = Len(sent) /\ DOMAIN sent = 1..n
  BY <1>2, <1>3, SentOutcome
<1>7. Leads(read, fs) /\ n = Len(read)
  BY <1>5, <1>6 DEF Leads
<1>8. /\ Len(out.samples) = n /\ out.unknown_signals = 0
      /\ Cardinality(With("error")) = 0
      /\ \A i \in 1..n : Delivered(read[i], i) /\ out.samples[i] = SampleOf(read[i])
  BY <1>2, <1>7, AllDelivered
<1>9. ~(Len(read) < FrameCount \/ Remaining > 0)
  BY <1>4, <1>5, <1>6 DEF Remaining
<1>10. out.errors \in Seq(Range(out.errors)) /\ Len(out.errors) = 0
  <2>1. PICK c \in Nat : c = 0 /\ c = Cardinality(With("error"))
    BY <1>8
  <2> QED
    BY <1>3, <1>9, <2>1, ErrorsAtEnd
<1>11. out.errors = <<>>
  BY <1>10, NoReason
<1>12. ASSUME NEW i \in 1..n, NEW s, s = Simulated[i]
       PROVE  /\ out.samples[i].signal_id = s.def.id /\ out.samples[i].name = s.def.name
              /\ Received(s, sent[i], out.samples[i].value)
  BY <1>8, <1>12 DEF Delivered
<1> QED
  BY <1>6, <1>8, <1>11, <1>12

\* The kinds of which the header is rejected.
LEMMA HeaderKinds ==
  ASSUME SInv, status # "idle", kind \in {"BadMagic", "BadVersion", "ZeroFrames", "Oversize"}
  PROVE  HeaderError = CASE kind = "BadMagic" -> "bad_magic"
                         [] kind = "BadVersion" -> "bad_version"
                         [] kind = "ZeroFrames" -> "zero_frames"
                         [] kind = "Oversize" -> "oversize"
<1>1. kind # "RandomBytes" /\ kind \in Kinds /\ kind # None
  BY SenderAssumption DEF Kinds
<1>2. PICK fs, w : Made(fs) /\ Packet(fs, w) /\ buf \in Malformed(kind, w, fs)
  BY <1>1, Arrival
<1>3. /\ Len(w) \in Nat /\ Len(w) >= PACKET_HEADER_LEN /\ Len(w) <= MAX_DATAGRAM_LEN
      /\ PACKET_HEADER_LEN = U16Len + 2 /\ U16Len \in Nat \ {0} /\ MAX_DATAGRAM_LEN \in Nat
  BY <1>2, PacketLength, WireAssumption DEF Packet
<1>4. CASE kind = "BadMagic"
  <2>1. buf \in BadMagic(w)
    BY <1>2, <1>4 DEF Malformed
  <2>2. Len(buf) = Len(w) /\ Be(SubSeq(buf, 1, U16Len)) = OTHER_MAGIC
    BY <1>2, <2>1, BadMagicSent
  <2>3. OTHER_MAGIC # MAGIC
    BY SenderAssumption
  <2> QED
    BY <1>3, <1>4, <2>2, <2>3 DEF HeaderError
<1>5. CASE kind = "BadVersion"
  <2>1. buf \in BadVersion(w)
    BY <1>2, <1>5 DEF Malformed
  <2>2. /\ Len(buf) = Len(w) /\ Be(SubSeq(buf, 1, U16Len)) = MAGIC
        /\ buf[U16Len + 1] # VERSION
    BY <1>2, <2>1, BadVersionSent
  <2> QED
    BY <1>3, <1>5, <2>2 DEF HeaderError
<1>6. CASE kind = "ZeroFrames"
  <2>1. buf \in ZeroFrames
    BY <1>2, <1>6 DEF Malformed
  <2>2. /\ Len(buf) = PACKET_HEADER_LEN /\ Be(SubSeq(buf, 1, U16Len)) = MAGIC
        /\ buf[U16Len + 1] = VERSION /\ buf[PACKET_HEADER_LEN] = 0
    BY <2>1, ZeroFramesSent
  <2> QED
    BY <1>3, <1>6, <2>2 DEF HeaderError, FrameCount
<1>7. CASE kind = "Oversize"
  <2>1. buf \in Oversize(w)
    BY <1>2, <1>7 DEF Malformed
  <2>2. Len(buf) > MAX_DATAGRAM_LEN
    BY <1>2, <2>1, OversizeSent
  <2> QED
    BY <1>7, <2>2 DEF HeaderError
<1> QED
  BY <1>4, <1>5, <1>6, <1>7

LEMMA HeaderKindsRejected ==
  ASSUME SInv, WInv, kind \in {"BadMagic", "BadVersion", "ZeroFrames", "Oversize"}
  PROVE  /\ status \notin {"frames", "done"}
         /\ Rejected => status = CASE kind = "BadMagic" -> "bad_magic"
                                   [] kind = "BadVersion" -> "bad_version"
                                   [] kind = "ZeroFrames" -> "zero_frames"
                                   [] kind = "Oversize" -> "oversize"
<1>1. CASE status = "idle"
  BY <1>1 DEF Rejected, PacketErrors
<1>2. CASE status # "idle"
  <2>1. PICK verdict : verdict = CASE kind = "BadMagic" -> "bad_magic"
                                   [] kind = "BadVersion" -> "bad_version"
                                   [] kind = "ZeroFrames" -> "zero_frames"
                                   [] kind = "Oversize" -> "oversize"
    OBVIOUS
  <2>2. HeaderError = verdict
    BY <1>2, <2>1, HeaderKinds
  <2>3. verdict \in {"bad_magic", "bad_version", "zero_frames", "oversize"}
    BY <2>1
  <2>4. verdict # None
    BY <2>3, WireAssumption
  <2>5. ~Walking
    BY <2>2, <2>4 DEF WInv, HeaderTaken
  <2> QED
    BY <2>1, <2>2, <2>5 DEF WInv, HeaderTaken, Rejected, Walking
<1> QED
  BY <1>1, <1>2

Reports(n, reasons) == Len(out.samples) = n /\ Reasons = reasons

LEMMA TruncatedPath ==
  ASSUME SInv, WInv, status # "idle", kind = "Truncated"
  PROVE  /\ ~Rejected
         /\ status = "done" /\ FarFromOverflow => Reports(Len(sent) - 1, <<"truncated">>)
<1>1. kind # "RandomBytes" /\ kind \in Kinds /\ kind # None
  BY SenderAssumption DEF Kinds
<1>2. PICK fs, w : Made(fs) /\ Packet(fs, w) /\ buf \in Truncated(w, fs)
  <2>1. \A w, fs : Malformed(kind, w, fs) = Truncated(w, fs)
    BY DEF Malformed
  <2> QED
    BY <1>1, <2>1, Arrival
<1>3. DInv /\ catalog \in Catalogs
  BY DEF SInv
<1>4. PICK last : last = fs[Len(fs)]
  OBVIOUS
<1>5. FRAME_HEADER_LEN + Len(last.payload) <= Len(w) - PACKET_HEADER_LEN
  BY <1>2, <1>4, LastFrameFits
<1>6. /\ Carries(fs, buf) /\ Len(buf) < Len(w)
      /\ Len(buf) >= Len(w) - (FRAME_HEADER_LEN + Len(last.payload))
  BY <1>2, <1>4, <1>5, TruncatedSent
<1>7. Len(w) \in Nat /\ Len(w) <= MAX_DATAGRAM_LEN /\ MAX_DATAGRAM_LEN \in Nat /\ Len(buf) \in Nat
  BY <1>2, <1>3, PacketLength, LenProperties, WireAssumption DEF Packet, DInv, Types
<1>8. ~Rejected
  BY <1>2, <1>6, <1>7, CarriedAccepted
<1>9. Len(EncodeFrame(last)) = FRAME_HEADER_LEN + Len(last.payload)
  <2>1. fs \in Seq(SentFrame) /\ Len(fs) \in 1..Len(fs)
    BY <1>2 DEF Packet
  <2>2. last \in SentFrame
    BY <1>4, <2>1, ElementOfSeq
  <2> QED
    BY <2>2, EncodedAt
<1>10. ASSUME status = "done", FarFromOverflow
       PROVE  Reports(Len(sent) - 1, <<"truncated">>)
  <2>1. Len(read) = Len(fs) - 1 /\ FrameCount = Len(fs) /\ Leads(read, fs)
    BY <1>2, <1>3, <1>4, <1>6, <1>9, <1>10, CutRead
  <2>2. Len(sent) = Len(fs) /\ Len(sent) \in Nat
    BY <1>2, <1>3, <1>10, SentOutcome
  <2>3. PICK k \in Nat : k = Len(read)
    BY <1>3, LenProperties DEF DInv, Types
  <2>4. Len(out.samples) = k /\ Cardinality(With("error")) = 0
    BY <1>2, <1>10, <2>1, <2>3, AllDelivered
  <2>5. Len(read) < FrameCount
    BY <2>1, <2>2, <2>3
  <2>6. PICK c \in Nat : c = 0 /\ c = Cardinality(With("error"))
    BY <2>4
  <2>9. PICK r : /\ r = "truncated"
                 /\ r = IF Len(read) < FrameCount THEN "truncated" ELSE "trailing_bytes"
    BY <2>5
  <2>10. /\ out.errors \in Seq(Range(out.errors))
         /\ Len(out.errors) = c + IF Len(read) < FrameCount \/ Remaining > 0 THEN 1 ELSE 0
         /\ Len(read) < FrameCount \/ Remaining > 0 => out.errors[c + 1].kind = r
    BY <1>3, <1>10, <2>6, <2>9, ErrorsAtEnd
  <2>7. /\ out.errors \in Seq(Range(out.errors)) /\ Len(out.errors) = 1
        /\ out.errors[1].kind = "truncated"
    <3>1. c + 1 = 1
      BY <2>6
    <3> QED
      BY <2>5, <2>6, <2>9, <2>10, <3>1
  <2>8. Reasons = <<"truncated">>
    BY <2>7, OneReason
  <2> QED
    BY <2>1, <2>2, <2>3, <2>4, <2>8 DEF Reports
<1> QED
  BY <1>8, <1>10

LEMMA TrailingPath ==
  ASSUME SInv, WInv, status # "idle", kind = "TrailingBytes"
  PROVE  /\ Rejected => Len(buf) > MAX_DATAGRAM_LEN
         /\ status = "done" /\ FarFromOverflow => Reports(Len(sent), <<"trailing_bytes">>)
<1>1. kind # "RandomBytes" /\ kind \in Kinds /\ kind # None
  BY SenderAssumption DEF Kinds
<1>2. PICK fs, w : Made(fs) /\ Packet(fs, w) /\ buf \in TrailingBytes(w)
  <2>1. \A w, fs : Malformed(kind, w, fs) = TrailingBytes(w)
    BY DEF Malformed
  <2> QED
    BY <1>1, <2>1, Arrival
<1>3. DInv /\ catalog \in Catalogs
  BY DEF SInv
<1>4. PICK t \in Seq(Byte) : buf = w \o t /\ Len(t) \in 1..MaxExtra
  BY <1>2, RandomBytesFacts DEF TrailingBytes
<1>5. /\ Carries(fs, buf) /\ Len(buf) > Len(w) /\ Len(w) \in Nat /\ Len(buf) \in Nat
  <2>1. Len(t) > 0
    BY <1>4, SenderAssumption
  <2>2. buf \in Seq(Byte) /\ Carries(fs, buf) /\ Len(buf) > Len(w)
    BY <1>2, <1>4, <2>1, LongerSent
  <2> QED
    BY <1>2, <2>2, PacketLength, LenProperties
<1>6. Rejected => Len(buf) > MAX_DATAGRAM_LEN
  BY <1>2, <1>5, CarriedAccepted, WireAssumption
<1>7. ASSUME status = "done", FarFromOverflow
      PROVE  Reports(Len(sent), <<"trailing_bytes">>)
  <2>1. read = fs /\ pos = Len(w) /\ FrameCount = Len(fs)
    BY <1>2, <1>3, <1>5, <1>7, WholeRead
  <2>2. PICK n \in Nat : n = Len(sent) /\ n = Len(fs)
    BY <1>2, <1>3, <1>7, SentOutcome
  <2>3. Leads(read, fs) /\ n = Len(read)
    BY <2>1, <2>2 DEF Leads
  <2>4. Len(out.samples) = n /\ Cardinality(With("error")) = 0
    BY <1>2, <1>7, <2>3, AllDelivered
  <2>5. ~(Len(read) < FrameCount) /\ Remaining > 0
    BY <1>5, <2>1, <2>2 DEF Remaining
  <2>6. PICK c \in Nat : c = 0 /\ c = Cardinality(With("error"))
    BY <2>4
  <2>9. PICK r : /\ r = "trailing_bytes"
                 /\ r = IF Len(read) < FrameCount THEN "truncated" ELSE "trailing_bytes"
    BY <2>5
  <2>10. /\ out.errors \in Seq(Range(out.errors))
         /\ Len(out.errors) = c + IF Len(read) < FrameCount \/ Remaining > 0 THEN 1 ELSE 0
         /\ Len(read) < FrameCount \/ Remaining > 0 => out.errors[c + 1].kind = r
    BY <1>3, <1>7, <2>6, <2>9, ErrorsAtEnd
  <2>7. /\ out.errors \in Seq(Range(out.errors)) /\ Len(out.errors) = 1
        /\ out.errors[1].kind = "trailing_bytes"
    <3>1. c + 1 = 1
      BY <2>6
    <3> QED
      BY <2>5, <2>6, <2>9, <2>10, <3>1
  <2>8. Reasons = <<"trailing_bytes">>
    BY <2>7, OneReason
  <2> QED
    BY <2>2, <2>4, <2>8 DEF Reports
<1> QED
  BY <1>6, <1>7

LEMMA MismatchPath ==
  ASSUME SInv, WInv, status # "idle", kind = "LengthMismatch"
  PROVE  /\ ~Rejected
         /\ status = "done" /\ FarFromOverflow =>
              Reports(Len(sent) - 1, <<"length_mismatch">>)
<1>1. kind # "RandomBytes" /\ kind \in Kinds /\ kind # None
  BY SenderAssumption DEF Kinds
<1>2. PICK fs, w : Made(fs) /\ Packet(fs, w) /\ buf \in LengthMismatch(fs)
  <2>1. \A w, fs : Malformed(kind, w, fs) = LengthMismatch(fs)
    BY DEF Malformed
  <2> QED
    BY <1>1, <2>1, Arrival
<1>3. DInv /\ catalog \in Catalogs
  BY DEF SInv
<1>4. PICK gs : /\ Packet(gs, buf) /\ Len(gs) = Len(fs)
                /\ SameFrame(gs[1], fs[1])
                /\ Len(gs[1].payload) = Len(fs[1].payload) + 1
                /\ \A i \in 2..Len(fs) : gs[i] = fs[i]
  BY <1>2, LengthMismatchSent
<1>5. Carries(gs, buf) /\ Len(buf) \in Nat /\ Len(buf) <= MAX_DATAGRAM_LEN
  BY <1>4, PacketLength DEF Packet
<1>6. ~Rejected
  BY <1>4, <1>5, CarriedAccepted
<1>7. ASSUME status = "done", FarFromOverflow
      PROVE  Reports(Len(sent) - 1, <<"length_mismatch">>)
  <2>1. read = gs /\ pos = Len(buf) /\ FrameCount = Len(gs)
    BY <1>3, <1>4, <1>5, <1>7, WholeRead
  <2>2. PICK n \in Nat : /\ n = Len(sent) /\ n = Len(fs) /\ n = Len(read)
                         /\ \A i \in 1..n : Delivered(fs[i], i)
    BY <1>2, <1>3, <1>4, <1>7, <2>1, SentOutcome
  <2>3. n >= 1
    BY <1>4, <2>1, <2>2 DEF Packet
  <2>4. PICK s, f : s = Simulated[1] /\ f = gs[1]
    OBVIOUS
  <2>5. ById(catalog, f.signal_id) = s /\ s # None /\ Len(f.payload) # Size(s.def.ty)
    <3>1. Delivered(fs[1], 1)
      BY <2>2, <2>3
    <3>2. /\ ById(catalog, fs[1].signal_id) = s /\ s # None
          /\ Len(fs[1].payload) = Size(s.def.ty)
      BY <2>4, <3>1 DEF Delivered
    <3>3. Len(fs[1].payload) \in Nat
      <4>1. fs \in Seq(SentFrame) /\ 1 \in 1..Len(fs)
        BY <1>2, <2>2, <2>3 DEF Packet
      <4>2. fs[1] \in SentFrame
        BY <4>1, ElementOfSeq
      <4> QED
        BY <4>2, LenProperties DEF SentFrame
    <3> QED
      BY <1>4, <2>4, <3>2, <3>3 DEF SameFrame
  <2>6. DecodeValue(s, f.payload) = Err("length_mismatch")
    BY <2>5 DEF DecodeValue
  <2>7. DecodeValue(s, f.payload).err = "length_mismatch" /\ "length_mismatch" # None
    BY <2>6, WireAssumption DEF Err
  <2>8. FrameOutcome(f) = "error"
    BY <2>5, <2>7 DEF FrameOutcome
  <2>9. PICK x \in 0..1, o \in {"unknown", "error"} : x = 1 /\ o = "error"
    OBVIOUS
  <2>10. \A i \in 1..n : FrameOutcome(read[i]) = IF i <= x THEN o ELSE "sample"
    <3> SUFFICES ASSUME NEW i \in 1..n
                 PROVE  FrameOutcome(read[i]) = IF i <= x THEN o ELSE "sample"
      OBVIOUS
    <3>1. CASE i = 1
      BY <2>1, <2>4, <2>8, <2>9, <3>1
    <3>2. CASE i # 1
      <4>1. i \in 2..Len(fs)
        BY <2>2, <3>2
      <4>2. read[i] = fs[i]
        BY <1>4, <2>1, <4>1
      <4>3. FrameOutcome(fs[i]) = "sample"
        BY <2>2 DEF Delivered
      <4> QED
        BY <2>9, <3>2, <4>2, <4>3
    <3> QED
      BY <3>1, <3>2
  <2>11. /\ Len(out.samples) = n - x
         /\ With("error") = IF o = "error" THEN 1..x ELSE {}
         /\ Cardinality(With("error")) = IF o = "error" THEN x ELSE 0
    BY <1>3, <1>7, <2>2, <2>3, <2>9, <2>10, Outcomes DEF Walking
  <2>12. With("error") = 1..1 /\ Len(out.samples) = n - 1
    BY <2>9, <2>11
  <2>13. PICK c \in Nat : c = 1 /\ c = Cardinality(With("error"))
    BY <2>9, <2>11
  <2>14. ~(Len(read) < FrameCount \/ Remaining > 0)
    BY <1>5, <2>1, <2>2 DEF Remaining
  <2>15. out.errors \in Seq(Range(out.errors)) /\ Len(out.errors) = 1
    <3>1. PICK r : r = IF Len(read) < FrameCount THEN "truncated" ELSE "trailing_bytes"
      OBVIOUS
    <3>2. /\ out.errors \in Seq(Range(out.errors))
          /\ Len(out.errors) = c + IF Len(read) < FrameCount \/ Remaining > 0 THEN 1 ELSE 0
      BY <1>3, <1>7, <2>13, <3>1, ErrorsAtEnd
    <3> QED
      BY <2>13, <2>14, <3>2
  <2>16. out.errors[1].kind = "length_mismatch"
    <3>1. {j \in 1..1 : j <= 1} = 1..1
      OBVIOUS
    <3>2. Rank("error", 1) = 1
      BY <2>12, <2>13, <3>1 DEF Rank
    <3>3. 1 \in With("error")
      BY <2>12
    <3>4. out.errors[1] = FaultOf(1, read[1])
      BY <1>3, <1>7, <3>2, <3>3 DEF DInv, Walking, ErrorsInOrder
    <3>5. FaultOf(1, f).kind = "length_mismatch"
      BY <2>5, <2>7 DEF FaultOf
    <3> QED
      BY <2>1, <2>4, <3>4, <3>5
  <2>17. Reasons = <<"length_mismatch">>
    BY <2>15, <2>16, OneReason
  <2> QED
    BY <2>2, <2>12, <2>17 DEF Reports
<1> QED
  BY <1>6, <1>7

LEMMA UnknownPath ==
  ASSUME SInv, WInv, status # "idle", kind = "UnknownSignal"
  PROVE  /\ ~Rejected
         /\ status = "done" /\ FarFromOverflow /\ FreeIds # {} => Reports(Len(sent), <<>>)
         /\ status = "done" /\ FreeIds # {} => out.unknown_signals = 1
<1>1. kind # "RandomBytes" /\ kind \in Kinds /\ kind # None
  BY SenderAssumption DEF Kinds
<1>2. PICK fs, w : Made(fs) /\ Packet(fs, w) /\ buf \in UnknownSignal(fs)
  <2>1. \A w, fs : Malformed(kind, w, fs) = UnknownSignal(fs)
    BY DEF Malformed
  <2> QED
    BY <1>1, <2>1, Arrival
<1>3. DInv /\ catalog \in Catalogs
  BY DEF SInv
<1>4. PICK gs : /\ Packet(gs, buf) /\ Len(gs) = Len(fs) + 1
                /\ FreeIds # {} => gs[1].signal_id \in FreeIds
                /\ \A i \in 1..Len(fs) : gs[i + 1] = fs[i]
  BY <1>2, UnknownSignalSent
<1>5. Carries(gs, buf) /\ Len(buf) \in Nat /\ Len(buf) <= MAX_DATAGRAM_LEN
  BY <1>4, PacketLength DEF Packet
<1>6. ~Rejected
  BY <1>4, <1>5, CarriedAccepted
<1>7. ASSUME status = "done", FreeIds # {}
      PROVE  /\ read = gs /\ pos = Len(buf) /\ FrameCount = Len(gs) /\ FrameOutcome(gs[1]) = "unknown"
             /\ Len(sent) = Len(fs) /\ Len(sent) \in Nat /\ Len(read) = Len(sent) + 1
             /\ \A i \in 1..Len(sent) : ById(catalog, read[i + 1].signal_id) # None
  <2>1. read = gs /\ pos = Len(buf) /\ FrameCount = Len(gs)
    BY <1>3, <1>4, <1>5, <1>7, WholeRead
  <2>2. /\ Len(sent) = Len(fs) /\ Len(sent) \in Nat
        /\ \A i \in 1..Len(sent) : ById(catalog, fs[i].signal_id) # None
    BY <1>2, <1>3, SentKnown
  <2>3. \A i \in 1..Len(sent) : read[i + 1] = fs[i]
    BY <1>4, <2>1, <2>2
  <2>4. gs[1].signal_id \notin DOMAIN catalog.by_id
    BY <1>4, <1>7 DEF FreeIds
  <2>5. ById(catalog, gs[1].signal_id) = None
    BY <2>4 DEF ById
  <2>6. FrameOutcome(gs[1]) = "unknown"
    BY <2>5 DEF FrameOutcome
  <2> QED
    BY <1>4, <2>1, <2>2, <2>3, <2>6
<1>8. ASSUME status = "done", FreeIds # {}
      PROVE  out.unknown_signals = 1
  <2>1. PICK n \in Nat : /\ n = Len(sent) /\ Len(read) = n + 1
                         /\ FrameOutcome(read[1]) = "unknown"
                         /\ \A i \in 1..n : ById(catalog, read[i + 1].signal_id) # None
    BY <1>7, <1>8
  <2>2. DOMAIN read = 1..n + 1
    BY <1>3, <2>1, LenProperties DEF DInv, Types
  <2>3. ASSUME NEW i \in 2..n + 1
        PROVE  FrameOutcome(read[i]) # "unknown"
    <3>1. PICK j \in 1..n : j + 1 = i
      <4>1. i - 1 \in 1..n /\ (i - 1) + 1 = i
        BY <2>1
      <4> QED
        BY <4>1
    <3>2. ById(catalog, read[i].signal_id) # None
      BY <2>1, <3>1
    <3> QED
      BY <3>2 DEF FrameOutcome
  <2>4. \A i : i \in 1..n + 1 <=> i = 1 \/ i \in 2..n + 1
    BY <2>1
  <2>5. \A i : i \in With("unknown") <=> i = 1
    BY <2>1, <2>2, <2>3, <2>4 DEF With
  <2>6. With("unknown") = {1}
    BY <2>5
  <2>7. Cardinality(With("unknown")) = 1
    BY <2>6, FS_Singleton
  <2> QED
    BY <1>3, <1>8, <2>7 DEF DInv, Walking, Counts
<1>9. ASSUME status = "done", FarFromOverflow, FreeIds # {}
      PROVE  Reports(Len(sent), <<>>)
  <2>1. PICK n \in Nat : /\ n = Len(sent) /\ n = Len(fs) /\ Len(read) = n + 1
                         /\ \A i \in 1..n : Delivered(fs[i], i)
    BY <1>2, <1>3, <1>7, <1>9, SentOutcome
  <2>2. PICK k \in Nat : k = n + 1 /\ k = Len(read)
    BY <2>1
  <2>3. PICK x \in 0..1, o \in {"unknown", "error"} : x = 1 /\ o = "unknown"
    OBVIOUS
  <2>4. \A i \in 1..k : FrameOutcome(read[i]) = IF i <= x THEN o ELSE "sample"
    <3> SUFFICES ASSUME NEW i \in 1..k
                 PROVE  FrameOutcome(read[i]) = IF i <= x THEN o ELSE "sample"
      OBVIOUS
    <3>1. CASE i = 1
      BY <1>7, <1>9, <2>3, <3>1
    <3>2. CASE i # 1
      <4>1. PICK j \in 1..n : j + 1 = i
        <5>1. i - 1 \in 1..n /\ (i - 1) + 1 = i
          BY <2>1, <2>2, <3>2
        <5> QED
          BY <5>1
      <4>2. read[i] = fs[j]
        BY <1>4, <1>7, <1>9, <2>1, <4>1
      <4>3. FrameOutcome(fs[j]) = "sample"
        BY <2>1 DEF Delivered
      <4> QED
        BY <2>3, <3>2, <4>2, <4>3
    <3> QED
      BY <3>1, <3>2
  <2>5. /\ Len(out.samples) = k - x
        /\ Cardinality(With("error")) = IF o = "error" THEN x ELSE 0
    <3>1. x <= k /\ Walking
      BY <1>9, <2>2, <2>3 DEF Walking
    <3>2. /\ With("sample") = x + 1..k /\ Len(out.samples) = k - x
          /\ out.unknown_signals = IF o = "unknown" THEN x ELSE 0
          /\ With("error") = IF o = "error" THEN 1..x ELSE {}
          /\ Cardinality(With("error")) = IF o = "error" THEN x ELSE 0
      BY <1>3, <2>2, <2>4, <3>1, Outcomes
    <3> QED
      BY <3>2
  <2>6. Len(out.samples) = n
    BY <2>2, <2>3, <2>5
  <2>7. PICK c \in Nat : c = 0 /\ c = Cardinality(With("error"))
    BY <2>3, <2>5
  <2>8. ~(Len(read) < FrameCount \/ Remaining > 0)
    BY <1>5, <1>7, <1>9, <2>1 DEF Remaining
  <2>9. out.errors \in Seq(Range(out.errors)) /\ Len(out.errors) = 0
    <3>1. PICK r : r = IF Len(read) < FrameCount THEN "truncated" ELSE "trailing_bytes"
      OBVIOUS
    <3>2. /\ out.errors \in Seq(Range(out.errors))
          /\ Len(out.errors) = c + IF Len(read) < FrameCount \/ Remaining > 0 THEN 1 ELSE 0
      BY <1>3, <1>9, <2>7, <3>1, ErrorsAtEnd
    <3> QED
      BY <2>7, <2>8, <3>2
  <2>10. Reasons = <<>>
    BY <2>9, NoReason
  <2> QED
    BY <2>1, <2>6, <2>10 DEF Reports
<1> QED
  BY <1>6, <1>8, <1>9

LEMMA KindHits ==
  ASSUME SInv, WInv
  PROVE  KindHitsItsPath
<1>1. CASE status = "idle"
  BY <1>1 DEF KindHitsItsPath, Rejected, PacketErrors
<1>2. CASE status # "idle"
  <2>1. kind = "Truncated" =>
          /\ ~Rejected
          /\ status = "done" /\ FarFromOverflow => Reports(Len(sent) - 1, <<"truncated">>)
    BY <1>2, TruncatedPath
  <2>2. kind = "LengthMismatch" =>
          /\ ~Rejected
          /\ status = "done" /\ FarFromOverflow => Reports(Len(sent) - 1, <<"length_mismatch">>)
    BY <1>2, MismatchPath
  <2>3. kind = "TrailingBytes" =>
          /\ Rejected => Len(buf) > MAX_DATAGRAM_LEN
          /\ status = "done" /\ FarFromOverflow => Reports(Len(sent), <<"trailing_bytes">>)
    BY <1>2, TrailingPath
  <2>4. kind = "UnknownSignal" =>
          /\ ~Rejected
          /\ status = "done" /\ FarFromOverflow /\ FreeIds # {} => Reports(Len(sent), <<>>)
          /\ status = "done" /\ FreeIds # {} => out.unknown_signals = 1
    BY <1>2, UnknownPath
  <2> QED
    BY HeaderKindsRejected, <2>1, <2>2, <2>3, <2>4 DEF KindHitsItsPath, Reports
<1> QED
  BY <1>1, <1>2
-----------------------------------------------------------------------------
\* A valid packet arrives whole, every sample under the id and the name of its
\* signal with the value that was sent: an integer to half a step of its scale
\* and what the roundings of encode_value and decode_value add, at most four
\* units of the last place of the numbers involved (eight for an f32).
THEOREM EveryPacketArrives == Spec => []RoundTrip
<1>1. SInv /\ WInv => RoundTrip
  BY RoundTripHolds
<1> QED
  BY <1>1, SenderInvariance, SimulatorDrivesDecoder, PacketWalked, PTL

\* Each kind of malformed packet takes the path of the decoder it is made for,
\* and the frames it leaves whole are decoded.
THEOREM EveryKindHitsItsPath == Spec => []KindHitsItsPath
<1>1. SInv /\ WInv => KindHitsItsPath
  BY KindHits
<1> QED
  BY <1>1, SenderInvariance, SimulatorDrivesDecoder, PacketWalked, PTL
=============================================================================
