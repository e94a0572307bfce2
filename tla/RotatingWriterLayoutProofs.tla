---------------------- MODULE RotatingWriterLayoutProofs ----------------------
(***************************************************************************)
(* Proofs about what the files of RotatingWriter hold, for every limit,    *)
(* size and fault: no file outgrows max_file_bytes but for one line, and   *)
(* each fault damages at most one acknowledged line.                       *)
(***************************************************************************)
EXTENDS RotatingWriterProofs

-----------------------------------------------------------------------------
(* Bytes of a text that are among some *)

In(n, text) == \E j \in DOMAIN text : text[j] = n

Places(some, text) == {j \in DOMAIN text : text[j] \in some}

LEMMA PlacesFinite ==
  ASSUME NEW t \in Seq(Nat), NEW D
  PROVE  IsFiniteSet(Places(D, t)) /\ Bytes(D, t) = Cardinality(Places(D, t))
<1>1. DOMAIN t = 1..Len(t) /\ Len(t) \in Nat
  BY LenProperties
<1>2. IsFiniteSet(1..Len(t))
  BY <1>1, FS_Interval
<1>3. Places(D, t) \subseteq 1..Len(t)
  BY <1>1 DEF Places
<1> QED
  BY <1>2, <1>3, FS_Subset DEF Bytes, Places

LEMMA BytesFacts ==
  ASSUME NEW t \in Seq(Nat), NEW D
  PROVE  Bytes(D, t) \in Nat /\ Bytes(D, t) <= Len(t) /\ Len(t) \in Nat
<1>1. DOMAIN t = 1..Len(t) /\ Len(t) \in Nat
  BY LenProperties
<1>2. IsFiniteSet(1..Len(t)) /\ Cardinality(1..Len(t)) = Len(t)
  <2>1. 1 \in Int /\ Len(t) \in Int /\ (IF 1 > Len(t) THEN 0 ELSE Len(t) - 1 + 1) = Len(t)
    BY <1>1
  <2> QED
    BY <2>1, FS_Interval
<1>3. Places(D, t) \in SUBSET (1..Len(t))
  BY <1>1 DEF Places
<1>4. Cardinality(Places(D, t)) \in Nat /\ Cardinality(Places(D, t)) <= Cardinality(1..Len(t))
  BY <1>2, <1>3, Fewer
<1> QED
  BY <1>1, <1>2, <1>4, PlacesFinite

LEMMA BytesAgree ==
  ASSUME NEW t \in Seq(Nat), NEW D, NEW E,
         \A j \in DOMAIN t : t[j] \in D <=> t[j] \in E
  PROVE  Bytes(D, t) = Bytes(E, t)
<1>1. Places(D, t) = Places(E, t)
  BY DEF Places
<1> QED
  BY <1>1, PlacesFinite

LEMMA ConcatFacts ==
  ASSUME NEW a \in Seq(Nat), NEW b \in Seq(Nat), NEW c, c = a \o b
  PROVE  /\ c \in Seq(Nat)
         /\ Len(a) \in Nat /\ Len(b) \in Nat /\ Len(c) = Len(a) + Len(b)
         /\ DOMAIN a = 1..Len(a) /\ DOMAIN b = 1..Len(b) /\ DOMAIN c = 1..Len(a) + Len(b)
         /\ \A j \in DOMAIN a : j \in DOMAIN c /\ c[j] = a[j]
         /\ \A j \in DOMAIN b : Len(a) + j \in DOMAIN c /\ c[Len(a) + j] = b[j]
         /\ \A j \in DOMAIN c :
              \/ j \in DOMAIN a
              \/ j > Len(a) /\ j - Len(a) \in DOMAIN b /\ c[j] = b[j - Len(a)]
<1>1. c \in Seq(Nat)
  BY ConcatProperties
<1>2. /\ Len(a) \in Nat /\ Len(b) \in Nat /\ Len(c) = Len(a) + Len(b)
      /\ DOMAIN a = 1..Len(a) /\ DOMAIN b = 1..Len(b) /\ DOMAIN c = 1..Len(a) + Len(b)
      /\ \A i \in 1..Len(a) + Len(b) : c[i] = IF i <= Len(a) THEN a[i] ELSE b[i - Len(a)]
  BY <1>1, ConcatProperties, LenProperties
<1>3. \A j \in DOMAIN a : j \in DOMAIN c /\ c[j] = a[j]
  BY <1>2
<1>4. ASSUME NEW j \in DOMAIN b PROVE Len(a) + j \in DOMAIN c /\ c[Len(a) + j] = b[j]
  <2>1. j \in 1..Len(b)
    BY <1>2
  <2>2. Len(a) + j \in 1..Len(a) + Len(b) /\ ~(Len(a) + j <= Len(a)) /\ (Len(a) + j) - Len(a) = j
    BY <1>2, <2>1
  <2> QED
    BY <1>2, <2>2
<1>5. ASSUME NEW j \in DOMAIN c, j \notin DOMAIN a
      PROVE  j > Len(a) /\ j - Len(a) \in DOMAIN b /\ c[j] = b[j - Len(a)]
  <2>1. j \in 1..Len(a) + Len(b) /\ ~(j \in 1..Len(a))
    BY <1>2, <1>5
  <2>2. ~(j <= Len(a)) /\ j > Len(a) /\ j - Len(a) \in 1..Len(b)
    BY <1>2, <2>1
  <2> QED
    BY <1>2, <2>1, <2>2
<1> QED
  BY <1>1, <1>2, <1>3, <1>4, <1>5

LEMMA InConcat ==
  ASSUME NEW a \in Seq(Nat), NEW b \in Seq(Nat), NEW n
  PROVE  In(n, a \o b) <=> In(n, a) \/ In(n, b)
<1>1. PICK c : c = a \o b
  OBVIOUS
<1>2. /\ \A j \in DOMAIN a : j \in DOMAIN c /\ c[j] = a[j]
      /\ \A j \in DOMAIN b : Len(a) + j \in DOMAIN c /\ c[Len(a) + j] = b[j]
  BY <1>1, ConcatFacts
<1>3. \A j \in DOMAIN c : j \in DOMAIN a \/ (j - Len(a) \in DOMAIN b /\ c[j] = b[j - Len(a)])
  BY <1>1, ConcatFacts
<1>4. In(n, c) => In(n, a) \/ In(n, b)
  BY <1>2, <1>3 DEF In
<1>5. In(n, a) \/ In(n, b) => In(n, c)
  BY <1>2 DEF In
<1> QED
  BY <1>1, <1>4, <1>5

\* Appending adds at most what is appended, and nothing if none of it counts.
LEMMA BytesAppend ==
  ASSUME NEW a \in Seq(Nat), NEW b \in Seq(Nat), NEW D
  PROVE  /\ Bytes(D, a \o b) <= Bytes(D, a) + Len(b)
         /\ (\A j \in DOMAIN b : b[j] \notin D) => Bytes(D, a \o b) = Bytes(D, a)
<1>1. PICK c \in Seq(Nat) : c = a \o b
  BY ConcatProperties
<1>2. /\ Len(a) \in Nat /\ Len(b) \in Nat
      /\ DOMAIN a = 1..Len(a) /\ DOMAIN c = 1..Len(a) + Len(b)
      /\ \A j \in DOMAIN a : j \in DOMAIN c /\ c[j] = a[j]
      /\ \A j \in DOMAIN c : j \in DOMAIN a \/ (j - Len(a) \in DOMAIN b /\ c[j] = b[j - Len(a)])
  BY <1>1, ConcatFacts
<1> DEFINE more == Len(a) + 1..Len(a) + Len(b)
<1>3. Places(D, c) \subseteq Places(D, a) \cup more
  BY <1>2 DEF Places
<1>4. IsFiniteSet(more) /\ Cardinality(more) = Len(b)
  <2>1. /\ Len(a) + 1 \in Int /\ Len(a) + Len(b) \in Int
        /\ (IF Len(a) + 1 > Len(a) + Len(b) THEN 0 ELSE (Len(a) + Len(b)) - (Len(a) + 1) + 1) = Len(b)
    BY <1>2
  <2> QED
    BY <2>1, FS_Interval
<1> HIDE DEF more
<1>5. /\ IsFiniteSet(Places(D, a)) /\ Cardinality(Places(D, a)) = Bytes(D, a)
      /\ Bytes(D, a) \in Nat /\ Bytes(D, c) = Cardinality(Places(D, c)) /\ Bytes(D, c) \in Nat
  BY PlacesFinite, BytesFacts
<1>6. /\ IsFiniteSet(Places(D, a) \cup more)
      /\ Cardinality(Places(D, a) \cup more) <= Bytes(D, a) + Len(b)
  <2>1. /\ IsFiniteSet(Places(D, a) \cup more) /\ IsFiniteSet(Places(D, a) \cap more)
        /\ Cardinality(Places(D, a) \cup more)
             = Cardinality(Places(D, a)) + Cardinality(more) - Cardinality(Places(D, a) \cap more)
    BY <1>4, <1>5, FS_Union, FS_Intersection
  <2>2. Cardinality(Places(D, a) \cap more) \in Nat
    BY <2>1, FS_CardinalityType
  <2> QED
    BY <1>2, <1>4, <1>5, <2>1, <2>2
<1>7. Bytes(D, c) <= Bytes(D, a) + Len(b)
  <2>1. PICK U : U = Places(D, a) \cup more
    OBVIOUS
  <2>2. Cardinality(Places(D, c)) <= Cardinality(U) /\ Cardinality(U) \in Nat
    BY <1>3, <1>6, <2>1, Fewer
  <2> QED
    BY <1>2, <1>5, <1>6, <2>1, <2>2
<1>8. ASSUME \A j \in DOMAIN b : b[j] \notin D PROVE Bytes(D, c) = Bytes(D, a)
  <2>1. Places(D, c) = Places(D, a)
    BY <1>2, <1>8 DEF Places
  <2> QED
    BY <1>5, <2>1
<1> QED
  BY <1>1, <1>7, <1>8

\* A beginning of a text has no more of fewer.
LEMMA BytesLess ==
  ASSUME NEW a \in Seq(Nat), NEW b \in Seq(Nat), NEW D, NEW E \in SUBSET D
  PROVE  Bytes(E, a) <= Bytes(D, a \o b)
<1>1. PICK c \in Seq(Nat) : c = a \o b
  BY ConcatProperties
<1>2. /\ Len(a) \in Nat /\ Len(b) \in Nat
      /\ DOMAIN a = 1..Len(a) /\ DOMAIN c = 1..Len(a) + Len(b)
      /\ \A i \in 1..Len(a) : c[i] = a[i]
  BY <1>1, ConcatProperties, LenProperties
<1>3. Places(E, a) \in SUBSET Places(D, c)
  BY <1>2 DEF Places
<1>4. Bytes(E, a) = Cardinality(Places(E, a)) /\ Bytes(D, c) = Cardinality(Places(D, c))
      /\ IsFiniteSet(Places(D, c))
  BY PlacesFinite
<1> QED
  BY <1>1, <1>3, <1>4, Fewer
-----------------------------------------------------------------------------
(* What each step does to the files and what is on its way to them *)

\* More of the same text.
Continued(s, t) == \E x \in Seq(Nat) : t = s \o x

\* The open file gains bytes, and so perhaps does what is written of it.
Gains(b) ==
  /\ handle' = handle
  /\ \A i \in Indices :
       /\ Filled(i)' = IF i = handle THEN Filled(i) \o b ELSE Filled(i)
       /\ Continued(Content(i), Content(i)')

LEMMA FillFacts ==
  ASSUME WInv
  PROVE  /\ \A i \in Indices : Content(i) \in Text /\ Filled(i) \in Text
         /\ \A i \in Indices : i # handle => Filled(i) = Content(i)
         /\ handle \in Indices /\ files[handle] = Content(handle) /\ buffer \in Text
         /\ Filled(handle) = Content(handle) \o buffer
         /\ buffer = <<>> => \A i \in Indices : Filled(i) = Content(i)
         /\ \A i \in Indices : Continued(Content(i), Filled(i))
<1>1. /\ buffer \in Text /\ <<>> \in Text /\ files \in [Indices -> Text \cup {None}]
      /\ handle \in Indices /\ files[handle] # None
      /\ \A a, b \in Text : a \o b \in Text
  BY TextFacts DEF WInv, TypeOK, Text
<1>2. \A i \in Indices : Content(i) \in Text
  BY <1>1 DEF Content
<1>3. files[handle] = Content(handle) /\ Filled(handle) = Content(handle) \o buffer
      /\ \A i \in Indices : i # handle => Filled(i) = Content(i)
  BY <1>1 DEF Content, Filled
<1>4. \A i \in Indices : Filled(i) \in Text
  BY <1>1, <1>2, <1>3
<1>5. \A i \in Indices : Content(i) \in Seq(Nat) /\ Content(i) \o <<>> = Content(i)
  BY <1>2, TextIsBytes, Concat
<1>6. buffer = <<>> => \A i \in Indices : Filled(i) = Content(i)
  BY <1>1, <1>3, <1>5
<1>7. ASSUME NEW i \in Indices PROVE Continued(Content(i), Filled(i))
  <2>1. buffer \in Seq(Nat) /\ <<>> \in Seq(Nat)
    BY <1>1, TextIsBytes
  <2>2. CASE i = handle
    BY <1>3, <2>1, <2>2 DEF Continued
  <2>3. CASE i # handle
    BY <1>3, <1>5, <2>1, <2>3 DEF Continued
  <2> QED
    BY <2>2, <2>3
<1> QED
  BY <1>1, <1>2, <1>3, <1>4, <1>6, <1>7

LEMMA GetsFill ==
  ASSUME WInv, NEW b \in Text, Gets(b), UNCHANGED handle
  PROVE  /\ \A i \in Indices : Content(i)' = IF i = handle THEN Content(i) \o b ELSE Content(i)
         /\ \A i \in Indices : Continued(Content(i), Content(i)')
<1>1. /\ files \in [Indices -> Text \cup {None}] /\ handle \in Indices
      /\ files[handle] = Content(handle) /\ Content(handle) \o b \in Text
      /\ None \notin Text /\ b \in Seq(Nat)
  BY FillFacts, TextFacts, NoneIsNoText, TextIsBytes DEF WInv, TypeOK, Text
<1>2. /\ files'[handle] = Content(handle) \o b
      /\ \A i \in Indices : i # handle => files'[i] = files[i]
  BY <1>1 DEF Gets
<1>3. Content(handle)' = Content(handle) \o b
  <2>1. files'[handle] # None
    BY <1>1, <1>2
  <2> QED
    BY <1>2, <2>1 DEF Content
<1>4. \A i \in Indices : i # handle => Content(i)' = Content(i)
  BY <1>2 DEF Content
<1>5. \A i \in Indices : Content(i)' = IF i = handle THEN Content(i) \o b ELSE Content(i)
  BY <1>3, <1>4
<1>6. ASSUME NEW i \in Indices PROVE Continued(Content(i), Content(i)')
  <2>1. Content(i) \in Seq(Nat) /\ <<>> \in Seq(Nat) /\ Content(i) = Content(i) \o <<>>
    BY FillFacts, TextIsBytes, Concat
  <2> QED
    BY <1>1, <1>5, <2>1 DEF Continued
<1> QED
  BY <1>5, <1>6

\* Bytes that move from the buffer to the file are where they were.
LEMMA WritesGain ==
  ASSUME WInv, NEW b \in Text, NEW out \in Text, NEW left \in Text, Gets(out), UNCHANGED handle,
         buffer' = left, out \o left = buffer \o b
  PROVE  Gains(b)
<1>1. /\ \A i \in Indices : Content(i)' = IF i = handle THEN Content(i) \o out ELSE Content(i)
      /\ \A i \in Indices : Continued(Content(i), Content(i)')
  BY GetsFill
<1>2. /\ handle \in Indices /\ Filled(handle) = Content(handle) \o buffer
      /\ \A i \in Indices : i # handle => Filled(i) = Content(i)
  BY FillFacts
<1>3. PICK c \in Seq(Nat) : c = Content(handle)
  BY FillFacts, TextIsBytes
<1>4. PICK d \in Seq(Nat) : d = buffer
  BY FillFacts, TextIsBytes
<1>5. (c \o out) \o left = (c \o d) \o b
  <2>1. out \in Seq(Nat) /\ left \in Seq(Nat) /\ b \in Seq(Nat) /\ c \in Seq(Nat) /\ d \in Seq(Nat)
    BY TextIsBytes
  <2>2. (c \o out) \o left = c \o (out \o left)
    BY <2>1, Regroup
  <2>3. (c \o d) \o b = c \o (d \o b)
    BY <2>1, Regroup
  <2> QED
    BY <1>4, <2>2, <2>3
<1>6. Filled(handle)' = (c \o out) \o left
  BY <1>1, <1>2, <1>3 DEF Filled
<1>7. Filled(handle)' = Filled(handle) \o b
  BY <1>2, <1>3, <1>4, <1>5, <1>6
<1>8. \A i \in Indices : i # handle => Filled(i)' = Filled(i)
  BY <1>1, <1>2 DEF Filled
<1> QED
  BY <1>1, <1>7, <1>8 DEF Gains

LEMMA StillGains ==
  ASSUME WInv, UNCHANGED <<files, handle, buffer>>
  PROVE  Gains(<<>>)
<1>1. \A i \in Indices : Content(i)' = Content(i) /\ Filled(i)' = Filled(i)
  BY DEF Content, Filled
<1>2. \A i \in Indices : /\ Filled(i) \o <<>> = Filled(i) /\ Content(i) = Content(i) \o <<>>
                         /\ <<>> \in Seq(Nat)
  BY FillFacts, TextIsBytes, Concat
<1> QED
  BY <1>1, <1>2 DEF Gains, Continued

LEMMA FlushedGains ==
  ASSUME WInv, Flushed, UNCHANGED handle
  PROVE  /\ Gains(<<>>) /\ buffer' = <<>>
         /\ \A i \in Indices : Content(i)' = Filled(i)
<1>1. /\ buffer \in Text /\ <<>> \in Text /\ Gets(buffer) /\ buffer' = <<>>
      /\ buffer \o <<>> = buffer \o <<>>
  BY TextFacts DEF WInv, Flushed
<1>2. Gains(<<>>)
  BY <1>1, WritesGain
<1>3. \A i \in Indices : Content(i)' = IF i = handle THEN Content(i) \o buffer ELSE Content(i)
  BY <1>1, GetsFill
<1> QED
  BY <1>1, <1>2, <1>3, FillFacts

LEMMA BrokenGains ==
  ASSUME WInv, FlushBroken, UNCHANGED handle
  PROVE  Gains(<<>>)
<1>1. buffer \in Text /\ buffer \in Seq(Nat) /\ Len(buffer) \in Nat /\ <<>> \in Text
  BY TextFacts, TextIsBytes DEF WInv
<1>2. PICK k \in 0..(Len(buffer) - 1) : /\ Gets(SubSeq(buffer, 1, k))
                                       /\ buffer' = SubSeq(buffer, k + 1, Len(buffer))
  BY DEF FlushBroken
<1>3. PICK head : head = SubSeq(buffer, 1, k)
  OBVIOUS
<1>4. PICK tail : tail = SubSeq(buffer, k + 1, Len(buffer))
  OBVIOUS
<1>5. head \in Text /\ tail \in Text /\ head \o tail = buffer
  <2>1. k \in 0..Len(buffer)
    BY <1>1
  <2> QED
    BY <1>1, <1>3, <1>4, <2>1, Slices, Cut DEF WInv
<1>6. head \o tail = buffer \o <<>>
  BY <1>1, <1>5, Concat
<1> QED
  BY <1>1, <1>2, <1>3, <1>4, <1>5, <1>6, WritesGain

LEMMA PutGains ==
  ASSUME WInv, NEW b \in Text, Put(b), UNCHANGED handle
  PROVE  Gains(b)
<1>1. buffer \in Text /\ buffer \o b \in Text /\ <<>> \in Text
  BY TextFacts DEF WInv
<1>2. CASE Gets(buffer \o b) /\ buffer' = <<>>
  <2>1. (buffer \o b) \o <<>> = buffer \o b
    BY <1>1, TextIsBytes, Concat
  <2> QED
    BY <1>1, <1>2, <2>1, WritesGain
<1>3. CASE Gets(buffer) /\ buffer' = b
  <2>1. buffer \o b = buffer \o b
    OBVIOUS
  <2> QED
    BY <1>1, <1>3, <2>1, WritesGain
<1>4. CASE buffer' = buffer \o b /\ UNCHANGED files
  <2>1. \A i \in Indices : Content(i)' = Content(i)
    BY <1>4 DEF Content
  <2>2. /\ handle \in Indices /\ Filled(handle) = Content(handle) \o buffer
        /\ \A i \in Indices : i # handle => Filled(i) = Content(i)
    BY FillFacts
  <2>3. Filled(handle)' = Content(handle) \o (buffer \o b)
    BY <1>4, <2>1, <2>2 DEF Filled
  <2>4. (Content(handle) \o buffer) \o b = Content(handle) \o (buffer \o b)
    <3>1. Content(handle) \in Seq(Nat) /\ buffer \in Seq(Nat) /\ b \in Seq(Nat)
      BY FillFacts, TextIsBytes
    <3> QED
      BY <3>1, Regroup
  <2>5. \A i \in Indices : i # handle => Filled(i)' = Filled(i)
    BY <2>1, <2>2 DEF Filled
  <2>6. \A i \in Indices : Content(i) = Content(i) \o <<>> /\ <<>> \in Seq(Nat)
    BY FillFacts, TextIsBytes, Concat
  <2> QED
    BY <2>1, <2>2, <2>3, <2>4, <2>5, <2>6 DEF Gains, Continued
<1> QED
  BY <1>2, <1>3, <1>4 DEF Put

LEMMA PutBrokenGains ==
  ASSUME WInv, NEW b \in Text, PutBroken(b), UNCHANGED handle
  PROVE  \E k \in 0..Len(b) : k < Len(b) /\ SubSeq(b, 1, k) \in Text /\ Gains(SubSeq(b, 1, k))
<1>1. /\ Len(b) \in Nat /\ buffer \in Text /\ <<>> \in Text /\ Len(buffer) <= BUFFER
      /\ Len(buffer) \in Nat
  BY TextFacts DEF WInv, TypeOK
<1>2. CASE Len(b) > Spare /\ FlushBroken
  <2>1. Len(b) > 0
    BY <1>1, <1>2, SizeAssumption DEF Spare
  <2>2. Gains(<<>>)
    BY <1>2, BrokenGains
  <2>3. SubSeq(b, 1, 0) = <<>>
    BY SubSeqEmpty
  <2>4. 0 \in 0..Len(b) /\ 0 < Len(b)
    BY <1>1, <2>1
  <2> QED
    BY <1>1, <2>2, <2>3, <2>4
<1>3. CASE /\ \E k \in 0..(Len(b) - 1) : Gets(buffer \o SubSeq(b, 1, k))
           /\ buffer' = <<>>
  <2>1. PICK k \in 0..(Len(b) - 1) : Gets(buffer \o SubSeq(b, 1, k))
    BY <1>3
  <2>2. k \in 0..Len(b) /\ k < Len(b)
    BY <1>1
  <2>3. PICK head : head = SubSeq(b, 1, k)
    OBVIOUS
  <2>4. head \in Text
    BY <2>2, <2>3, Slices DEF WInv
  <2>5. buffer \o head \in Text
    BY <1>1, <2>4, TextFacts DEF WInv
  <2>6. (buffer \o head) \o <<>> = buffer \o head
    BY <2>5, TextIsBytes, Concat
  <2>7. Gains(head)
    BY <1>1, <1>3, <2>1, <2>3, <2>4, <2>5, <2>6, WritesGain
  <2> QED
    BY <2>2, <2>3, <2>4, <2>7
<1> QED
  BY <1>2, <1>3 DEF PutBroken


\* Of a newline nothing is written when it fails.
LEMMA NewlineBrokenGains ==
  ASSUME WInv, PutBroken(<<NL>>), UNCHANGED handle
  PROVE  Gains(<<>>)
<1>1. PICK b \in Text : b = <<NL>>
  BY TextFacts DEF WInv
<1>2. Len(b) = 1
  BY <1>1
<1>3. PICK k \in 0..Len(b) : k < Len(b) /\ Gains(SubSeq(b, 1, k))
  BY <1>1, PutBrokenGains
<1>4. k = 0
  BY <1>2, <1>3
<1>5. SubSeq(b, 1, 0) = <<>>
  BY SubSeqEmpty
<1> QED
  BY <1>3, <1>4, <1>5

\* One file is emptied; the one that is written to is another.
Empties(k) ==
  /\ handle' = handle /\ handle # k /\ buffer' = buffer
  /\ \A i \in Indices :
       /\ Filled(i)' = IF i = k THEN <<>> ELSE Filled(i)
       /\ Content(i)' = IF i = k THEN <<>> ELSE Content(i)

LEMMA RemoveEmpties ==
  ASSUME WInv, ShiftRemove
  PROVE  Empties(shift) /\ shift \in Indices
<1>1. /\ files[shift - 1] # None /\ files' = [files EXCEPT ![shift] = None] /\ shift > 0
      /\ UNCHANGED <<handle, buffer>>
  BY DEF ShiftRemove, Shifting
<1>2. /\ shift \in Indices /\ shift - 1 \in Indices /\ handle \in Indices
      /\ \A j \in Indices : j \in Nat
      /\ files \in [Indices -> Text \cup {None}]
      /\ \A j \in Indices : j < handle => files[j] = None
  BY <1>1, IndexFacts DEF WInv, TypeOK, OpenIsNewest, Text
<1>3. handle # shift
  BY <1>1, <1>2
<1>4. \A i \in Indices : Content(i)' = IF i = shift THEN <<>> ELSE Content(i)
  BY <1>1, <1>2 DEF Content
<1>5. \A i \in Indices : Filled(i)' = IF i = shift THEN <<>> ELSE Filled(i)
  BY <1>1, <1>3, <1>4 DEF Filled
<1> QED
  BY <1>1, <1>2, <1>3, <1>4, <1>5 DEF Empties

\* One file takes the name of an empty place next to it.
Renames(k) ==
  /\ k - 1 \in Indices /\ k \in Indices /\ buffer' = buffer
  /\ handle' = IF handle = k - 1 THEN k ELSE handle
  /\ handle # k
  /\ \A i \in Indices :
       /\ Filled(i)' = IF i = k THEN Filled(k - 1) ELSE IF i = k - 1 THEN <<>> ELSE Filled(i)
       /\ Content(i)' = IF i = k THEN Content(k - 1) ELSE IF i = k - 1 THEN <<>> ELSE Content(i)
  /\ Filled(k) = <<>> /\ Content(k) = <<>>

LEMMA RenameRenames ==
  ASSUME WInv, ShiftRename
  PROVE  Renames(shift)
<1>1. /\ files[shift - 1] # None /\ files[shift] = None /\ shift > 0
      /\ files' = [files EXCEPT ![shift] = files[shift - 1], ![shift - 1] = None]
      /\ handle' = IF handle = shift - 1 THEN shift ELSE handle
      /\ UNCHANGED buffer
  BY DEF ShiftRename, Shifting
<1>2. /\ shift \in Indices /\ shift - 1 \in Indices /\ handle \in Indices
      /\ shift \in Nat /\ shift # shift - 1
      /\ files \in [Indices -> Text \cup {None}] /\ files[handle] # None
  BY <1>1, IndexFacts DEF WInv, TypeOK, Text
<1>3. handle # shift
  BY <1>1, <1>2
<1>4. PICK p : p = shift - 1
  OBVIOUS
<1>5. /\ files'[shift] = files[p] /\ files'[p] = None
      /\ \A i \in Indices : i # shift /\ i # p => files'[i] = files[i]
  BY <1>1, <1>2, <1>4
<1>6. \A i \in Indices :
        Content(i)' = IF i = shift THEN Content(p) ELSE IF i = p THEN <<>> ELSE Content(i)
  BY <1>1, <1>5 DEF Content
<1>7. Content(shift) = <<>> /\ Filled(shift) = <<>>
  BY <1>1, <1>3 DEF Content, Filled
<1>8. ASSUME NEW i \in Indices
      PROVE  Filled(i)' = IF i = shift THEN Filled(p) ELSE IF i = p THEN <<>> ELSE Filled(i)
  <2>1. CASE handle = p
    <3>1. handle' = shift
      BY <1>1, <1>4, <2>1
    <3>2. Filled(i)' = IF i = shift THEN Content(i)' \o buffer ELSE Content(i)'
      BY <1>1, <3>1 DEF Filled
    <3>3. Filled(p) = Content(p) \o buffer /\ (i # p => Filled(i) = Content(i))
      BY <2>1 DEF Filled
    <3> QED
      BY <1>2, <1>4, <1>6, <3>2, <3>3
  <2>2. CASE handle # p
    <3>1. handle' = handle
      BY <1>1, <1>4, <2>2
    <3>2. Filled(i)' = IF i = handle THEN Content(i)' \o buffer ELSE Content(i)'
      BY <1>1, <3>1 DEF Filled
    <3>3. /\ Filled(p) = Content(p)
          /\ Filled(i) = IF i = handle THEN Content(i) \o buffer ELSE Content(i)
      BY <2>2 DEF Filled
    <3> QED
      BY <1>2, <1>3, <1>4, <1>6, <2>2, <3>2, <3>3
  <2> QED
    BY <2>1, <2>2
<1> QED
  BY <1>1, <1>2, <1>3, <1>4, <1>6, <1>7, <1>8 DEF Renames

\* With nothing on its way, a file that is created is empty, one that is opened
\* is as it was, and the others are left alone.
LEMMA CreateFill ==
  ASSUME WInv, Create, buffer = <<>>
  PROVE  /\ 0 \in Indices /\ handle' = 0 /\ buffer' = <<>>
         /\ \A i \in Indices :
              /\ Filled(i)' = IF i = 0 THEN <<>> ELSE Filled(i)
              /\ Content(i)' = IF i = 0 THEN <<>> ELSE Content(i)
<1>1. files' = [files EXCEPT ![0] = <<>>] /\ handle' = 0 /\ buffer' = <<>>
  BY DEF Create
<1>2. /\ 0 \in Indices /\ files \in [Indices -> Text \cup {None}]
      /\ \A i \in Indices : Filled(i) = Content(i)
  BY IndexFacts, FillFacts DEF WInv, TypeOK, Text
<1>3. \A i \in Indices : Content(i)' = IF i = 0 THEN <<>> ELSE Content(i)
  BY <1>1, <1>2 DEF Content
<1>4. <<>> \o <<>> = <<>>
  <2>1. <<>> \in Seq(Nat)
    BY EmptySeq
  <2> QED
    BY <2>1, Concat
<1>5. \A i \in Indices : Filled(i)' = IF i = 0 THEN <<>> ELSE Filled(i)
  BY <1>1, <1>2, <1>3, <1>4 DEF Filled
<1> QED
  BY <1>1, <1>2, <1>3, <1>5

LEMMA OpenFill ==
  ASSUME WInv, Open, buffer = <<>>
  PROVE  /\ 0 \in Indices /\ handle' = 0 /\ buffer' = <<>>
         /\ \A i \in Indices : Filled(i)' = Filled(i) /\ Content(i)' = Content(i)
         /\ size' = Len(Filled(0))
<1>1. /\ files' = [files EXCEPT ![0] = IF files[0] = None THEN <<>> ELSE files[0]]
      /\ handle' = 0 /\ buffer' = <<>> /\ size' = Len(files'[0])
  BY DEF Open
<1>2. /\ 0 \in Indices /\ files \in [Indices -> Text \cup {None}]
      /\ \A i \in Indices : Filled(i) = Content(i)
  BY IndexFacts, FillFacts DEF WInv, TypeOK, Text
<1>3. \A i \in Indices : Content(i)' = Content(i)
  BY <1>1, <1>2 DEF Content
<1>4. \A i \in Indices : Content(i) \o <<>> = Content(i)
  BY FillFacts, TextIsBytes, Concat
<1>5. \A i \in Indices : Filled(i)' = Filled(i)
  BY <1>1, <1>2, <1>3, <1>4 DEF Filled
<1>6. files'[0] = Content(0)
  BY <1>1, <1>2 DEF Content
<1> QED
  BY <1>1, <1>2, <1>3, <1>5, <1>6

\* A crash takes from the end of what the open file was to hold, and nothing of
\* what it held.
Cuts(b) ==
  /\ handle' = handle /\ buffer' = <<>>
  /\ \A i \in Indices :
       /\ i # handle => Filled(i)' = Filled(i)
       /\ Filled(i)' = Content(i)'
       /\ Continued(Content(i), Content(i)')
  /\ Continued(Filled(handle)', Filled(handle) \o b)

LEMMA CrashCuts ==
  ASSUME WInv, Crash
  PROVE  \/ Cuts(<<>>)
         \/ pc = "body" /\ Body \in Text /\ Cuts(Body)
<1> DEFINE ahead == IF pc = "body" /\ Len(Body) >= BUFFER THEN buffer \o Body ELSE buffer
<1>1. /\ \E k \in 0..Len(ahead) : Gets(SubSeq(ahead, 1, k))
      /\ buffer' = <<>> /\ UNCHANGED handle
  BY DEF Crash
<1>2. PICK b \in Text : /\ ahead = buffer \o b
                        /\ b = <<>> \/ (pc = "body" /\ b = Body)
  <2>1. buffer \o <<>> = buffer /\ <<>> \in Text
    BY FillFacts, TextIsBytes, Concat, TextFacts DEF WInv
  <2>2. pc = "body" => Body \in Text
    BY TextFacts DEF WInv, InCall
  <2> QED
    BY <2>1, <2>2
<1> HIDE DEF ahead
<1>3. ahead \in Text /\ buffer \in Text /\ b \in Seq(Nat) /\ buffer \in Seq(Nat)
  BY <1>2, TextFacts, TextIsBytes DEF WInv
<1>4. PICK k \in 0..Len(ahead) : Gets(SubSeq(ahead, 1, k))
  BY <1>1
<1>5. PICK head : head = SubSeq(ahead, 1, k)
  OBVIOUS
<1>6. PICK tail : tail = SubSeq(ahead, k + 1, Len(ahead))
  OBVIOUS
<1>7. head \in Text /\ tail \in Text /\ head \o tail = ahead
  <2>1. ahead \in Seq(Nat)
    BY <1>3, TextIsBytes
  <2> QED
    BY <1>3, <1>5, <1>6, <2>1, Slices, Cut DEF WInv
<1>8. /\ \A i \in Indices : Content(i)' = IF i = handle THEN Content(i) \o head ELSE Content(i)
      /\ \A i \in Indices : Continued(Content(i), Content(i)')
  BY <1>1, <1>4, <1>5, <1>7, GetsFill
<1>9. /\ handle \in Indices /\ Filled(handle) = Content(handle) \o buffer
      /\ \A i \in Indices : i # handle => Filled(i) = Content(i)
  BY FillFacts
<1>10. PICK c \in Seq(Nat) : c = Content(handle)
  BY FillFacts, TextIsBytes
<1>11. head \in Seq(Nat) /\ tail \in Seq(Nat) /\ c \o head \in Seq(Nat)
  BY <1>7, <1>10, TextIsBytes, ConcatProperties
<1>12. \A i \in Indices : Filled(i)' = Content(i)'
  <2>1. \A i \in Indices : i # handle => Filled(i)' = Content(i)'
    BY <1>1 DEF Filled
  <2>2. Filled(handle)' = (c \o head) \o <<>>
    BY <1>1, <1>8, <1>9, <1>10 DEF Filled
  <2>3. (c \o head) \o <<>> = c \o head
    BY <1>11, Concat
  <2> QED
    BY <1>1, <1>8, <1>9, <1>10, <2>1, <2>2, <2>3
<1>13. \A i \in Indices : i # handle => Filled(i)' = Filled(i)
  BY <1>8, <1>9, <1>12
<1>14. Continued(Filled(handle)', Filled(handle) \o b)
  <2>1. (c \o head) \o tail = c \o (head \o tail) /\ (c \o buffer) \o b = c \o (buffer \o b)
    BY <1>3, <1>11, Regroup
  <2>2. Filled(handle)' = c \o head /\ Filled(handle) \o b = (c \o head) \o tail
    BY <1>1, <1>2, <1>7, <1>8, <1>9, <1>10, <1>12, <2>1
  <2> QED
    BY <1>11, <2>2 DEF Continued
<1>15. Cuts(b)
  BY <1>1, <1>8, <1>12, <1>13, <1>14 DEF Cuts
<1> QED
  BY <1>2, <1>15
-----------------------------------------------------------------------------
(* No file outgrows its limit *)

\* Some lines fit in a text: they and its newlines are within the limit, or the
\* text is that of one line.
Fits(some, text) ==
  \/ Bytes(some \cup {NL}, text) <= MaxBytes
  \/ /\ Bytes({NL}, text) <= 1
     /\ \E n \in some : \A j \in DOMAIN text : text[j] \in some => text[j] = n

LEMMA FitsEmpty == \A D : Fits(D, <<>>)
<1> SUFFICES ASSUME NEW D PROVE Fits(D, <<>>)
  OBVIOUS
<1>1. <<>> \in Seq(Nat) /\ Len(<<>>) = 0
  BY EmptySeq
<1>2. Bytes(D \cup {NL}, <<>>) \in Nat /\ Bytes(D \cup {NL}, <<>>) <= Len(<<>>)
  BY <1>1, BytesFacts
<1> QED
  BY <1>1, <1>2, SizeAssumption DEF Fits

LEMMA FitsShrinks ==
  ASSUME NEW a \in Seq(Nat), NEW b \in Seq(Nat), NEW D, NEW E \in SUBSET D, Fits(D, a \o b)
  PROVE  Fits(E, a)
<1>1. PICK c : c = a \o b
  OBVIOUS
<1>2. /\ c \in Seq(Nat) /\ \A j \in DOMAIN a : j \in DOMAIN c /\ c[j] = a[j]
  BY <1>1, ConcatFacts
<1>3. /\ Bytes(E \cup {NL}, a) \in Nat /\ Bytes({NL}, a) \in Nat
      /\ Bytes(D \cup {NL}, c) \in Nat /\ Bytes({NL}, c) \in Nat
  BY <1>2, BytesFacts
<1>4. Bytes(E \cup {NL}, a) <= Bytes(D \cup {NL}, c)
  <2>1. E \cup {NL} \in SUBSET (D \cup {NL})
    OBVIOUS
  <2> QED
    BY <1>1, <2>1, BytesLess
<1>5. Bytes({NL}, a) <= Bytes({NL}, c)
  <2>1. {NL} \in SUBSET {NL}
    OBVIOUS
  <2> QED
    BY <1>1, <2>1, BytesLess
<1>6. CASE Bytes(D \cup {NL}, c) <= MaxBytes
  BY <1>3, <1>4, <1>6, SizeAssumption DEF Fits
<1>7. CASE /\ Bytes({NL}, c) <= 1
           /\ \E n \in D : \A j \in DOMAIN c : c[j] \in D => c[j] = n
  <2>1. PICK n \in D : \A j \in DOMAIN c : c[j] \in D => c[j] = n
    BY <1>7
  <2>2. \A j \in DOMAIN a : a[j] \in E => a[j] = n
    BY <1>2, <2>1
  <2>3. Bytes({NL}, a) <= 1
    BY <1>3, <1>5, <1>7
  <2>4. CASE n \in E
    BY <2>2, <2>3, <2>4 DEF Fits
  <2>5. CASE n \notin E
    <3>1. \A j \in DOMAIN a : a[j] \in E \cup {NL} <=> a[j] \in {NL}
      BY <2>2, <2>5
    <3>2. Bytes(E \cup {NL}, a) = Bytes({NL}, a)
      BY <3>1, BytesAgree
    <3>3. Bytes(E \cup {NL}, a) <= MaxBytes
      BY <1>3, <2>3, <3>2, SizeAssumption
    <3> QED
      BY <3>3 DEF Fits
  <2> QED
    BY <2>4, <2>5
<1> QED
  BY <1>1, <1>6, <1>7 DEF Fits

\* What is left of other lines changes nothing.
LEMMA FitsSame ==
  ASSUME NEW a \in Seq(Nat), NEW b \in Seq(Nat), NEW D, Fits(D, a),
         \A j \in DOMAIN b : b[j] \notin D /\ b[j] # NL
  PROVE  Fits(D, a \o b)
<1>1. PICK c : c = a \o b
  OBVIOUS
<1>2. /\ c \in Seq(Nat) /\ \A j \in DOMAIN a : j \in DOMAIN c /\ c[j] = a[j]
      /\ \A j \in DOMAIN c : j \in DOMAIN a \/ (j - Len(a) \in DOMAIN b /\ c[j] = b[j - Len(a)])
  BY <1>1, ConcatFacts
<1>3. Bytes(D \cup {NL}, c) = Bytes(D \cup {NL}, a) /\ Bytes({NL}, c) = Bytes({NL}, a)
  <2>1. \A j \in DOMAIN b : b[j] \notin D \cup {NL} /\ b[j] \notin {NL}
    OBVIOUS
  <2> QED
    BY <1>1, <2>1, BytesAppend
<1>4. \A j \in DOMAIN c : c[j] \in D => j \in DOMAIN a /\ c[j] = a[j]
  BY <1>2
<1>5. CASE \E n \in D : \A j \in DOMAIN a : a[j] \in D => a[j] = n
  <2>1. PICK n \in D : \A j \in DOMAIN a : a[j] \in D => a[j] = n
    BY <1>5
  <2>2. \A j \in DOMAIN c : c[j] \in D => c[j] = n
    BY <1>4, <2>1
  <2> QED
    BY <1>1, <1>3, <2>2 DEF Fits
<1> QED
  BY <1>1, <1>3, <1>5 DEF Fits

LEMMA FitsMore ==
  ASSUME NEW a \in Seq(Nat), NEW D, Fits(D, a), NEW n, ~In(n, a)
  PROVE  Fits(D \cup {n}, a)
<1>1. \A j \in DOMAIN a : a[j] # n
  BY DEF In
<1>2. \A j \in DOMAIN a : a[j] \in (D \cup {n}) \cup {NL} <=> a[j] \in D \cup {NL}
  BY <1>1
<1>3. Bytes((D \cup {n}) \cup {NL}, a) = Bytes(D \cup {NL}, a)
  BY <1>2, BytesAgree
<1>4. CASE \E m \in D : \A j \in DOMAIN a : a[j] \in D => a[j] = m
  <2>1. \E m \in D \cup {n} : \A j \in DOMAIN a : a[j] \in D \cup {n} => a[j] = m
    BY <1>1, <1>4
  <2> QED
    BY <1>3, <2>1 DEF Fits
<1> QED
  BY <1>3, <1>4 DEF Fits

\* The line that is written is on no file before, and only at the end of the open
\* one while its newline is missing.
Fresh ==
  pc \in {"rotate", "shift", "body", "newline"} =>
    /\ Len(lines) \notin done
    /\ \A i \in Indices : In(Len(lines), Filled(i)) => pc = "newline" /\ i = handle

\* A rotation and a restart begin with nothing on its way.
Drained == pc \in {"shift", "down"} => buffer = <<>>

\* The counter is not short of the lines that were acknowledged.
Counted ==
  /\ Bytes(done \cup {NL}, Filled(handle)) <= size
  /\ pc = "newline" =>
       Bytes((done \cup {Len(lines)}) \cup {NL}, Filled(handle)) <= size + lines[Len(lines)]

\* What is not rotated for fits, or is the first line of its file.
Room == pc \in {"body", "newline"} => size = 0 \/ size + lines[Len(lines)] + 1 <= MaxBytes

Held == \A i \in Indices : Fits(done, Filled(i))

Sized == Fresh /\ Drained /\ Counted /\ Room /\ Held

LEMMA SizedFacts ==
  ASSUME WInv
  PROVE  /\ \A i \in Indices : Filled(i) \in Seq(Nat)
         /\ handle \in Indices /\ size \in Nat /\ MaxBytes \in Nat /\ MaxBytes >= 1
         /\ NL = 0 /\ Len(lines) \in Nat
         /\ \A n \in done : n \in Nat /\ n >= 1 /\ n <= Len(lines) /\ n # NL
         /\ pc \in {"rotate", "shift", "body", "newline"} =>
              Len(lines) # NL /\ lines[Len(lines)] \in Nat
<1>1. /\ handle \in Indices /\ size \in Nat /\ MaxBytes \in Nat /\ MaxBytes >= 1
      /\ NL = 0 /\ Len(lines) \in Nat
  BY SizeAssumption, LenProperties DEF WInv, TypeOK, NL
<1>2. \A i \in Indices : Filled(i) \in Seq(Nat)
  BY FillFacts, TextIsBytes
<1>3. \A n \in 1..Len(lines) : n \in Nat /\ n >= 1 /\ n <= Len(lines) /\ n # NL
  BY <1>1
<1>4. \A n \in done : n \in Nat /\ n >= 1 /\ n <= Len(lines) /\ n # NL
  BY <1>3, LineFacts
<1>5. pc \in {"rotate", "shift", "body", "newline"} =>
        Len(lines) # NL /\ lines[Len(lines)] \in Nat
  BY <1>3, LineFacts DEF WInv, InCall
<1> QED
  BY <1>1, <1>2, <1>4, <1>5

\* The open file gains nothing, or bytes of the line that is written.
LEMMA GainsSized ==
  ASSUME WInv, Sized, NEW b \in Text, Gains(b), UNCHANGED <<lines, done, size>>,
         \A j \in DOMAIN b : pc = "body" /\ b[j] = Len(lines),
         \/ pc' \in {"idle", "down"}
         \/ pc \in {"rotate", "shift"} /\ pc' = "shift"
         \/ pc = "body" /\ pc' = "newline" /\ Len(b) = lines[Len(lines)],
         Drained'
  PROVE  Sized'
<1>1. /\ \A i \in Indices : Filled(i) \in Seq(Nat)
      /\ handle \in Indices /\ size \in Nat /\ NL = 0
      /\ b \in Seq(Nat) /\ handle' = handle
      /\ \A i \in Indices : Filled(i)' = IF i = handle THEN Filled(i) \o b ELSE Filled(i)
  BY SizedFacts, TextIsBytes DEF Gains
<1>2. PICK T \in Seq(Nat) : T = Filled(handle)
  BY <1>1
<1>3. Filled(handle)' = T \o b
  BY <1>1, <1>2
<1>4. ASSUME NEW j \in DOMAIN b PROVE b[j] \notin done /\ b[j] # NL
  <2>1. pc = "body" /\ b[j] = Len(lines)
    BY <1>4
  <2> QED
    BY <2>1, SizedFacts DEF Sized, Fresh
<1>5. Fresh'
  <2>1. ASSUME pc' = "shift" PROVE \A j \in DOMAIN b : FALSE
    BY <2>1
  <2>2. ASSUME pc' = "shift", NEW i \in Indices PROVE ~In(Len(lines), Filled(i)')
    <3>1. ~In(Len(lines), Filled(i)) /\ ~In(Len(lines), b)
      BY <2>1, <2>2 DEF Sized, Fresh, In
    <3>2. ~In(Len(lines), Filled(i) \o b)
      BY <1>1, <3>1, InConcat
    <3> QED
      BY <1>1, <3>1, <3>2
  <2>3. ASSUME pc' = "newline", NEW i \in Indices, i # handle PROVE ~In(Len(lines), Filled(i)')
    BY <1>1, <2>3 DEF Sized, Fresh
  <2>4. pc' \notin {"rotate", "body"}
    OBVIOUS
  <2>5. pc' \in {"shift", "newline"} => Len(lines) \notin done
    BY DEF Sized, Fresh
  <2> QED
    BY <1>1, <2>2, <2>3, <2>4, <2>5 DEF Fresh
<1>6. Counted'
  <2>1. Bytes(done \cup {NL}, T \o b) = Bytes(done \cup {NL}, T)
    <3>1. \A j \in DOMAIN b : b[j] \notin done \cup {NL}
      BY <1>4
    <3> QED
      BY <1>1, <3>1, BytesAppend
  <2>2. Bytes(done \cup {NL}, T) <= size
    BY <1>2 DEF Sized, Counted
  <2>3. ASSUME pc' = "newline"
        PROVE  Bytes((done \cup {Len(lines)}) \cup {NL}, T \o b) <= size + lines[Len(lines)]
    <3>1. pc = "body" /\ Len(b) = lines[Len(lines)] /\ lines[Len(lines)] \in Nat
      BY <2>3, SizedFacts
    <3>2. ~In(Len(lines), T)
      BY <1>1, <1>2, <3>1 DEF Sized, Fresh
    <3>3. \A j \in DOMAIN T : T[j] \in (done \cup {Len(lines)}) \cup {NL} <=> T[j] \in done \cup {NL}
      BY <3>2 DEF In
    <3>4. Bytes((done \cup {Len(lines)}) \cup {NL}, T) = Bytes(done \cup {NL}, T)
      BY <3>3, BytesAgree
    <3>5. /\ Bytes((done \cup {Len(lines)}) \cup {NL}, T \o b)
               <= Bytes((done \cup {Len(lines)}) \cup {NL}, T) + Len(b)
      BY <1>1, BytesAppend
    <3>6. /\ Bytes((done \cup {Len(lines)}) \cup {NL}, T \o b) \in Nat
          /\ Bytes(done \cup {NL}, T) \in Nat
      BY <1>1, BytesFacts, ConcatProperties
    <3> QED
      BY <1>1, <2>2, <3>1, <3>4, <3>5, <3>6
  <2> QED
    BY <1>3, <2>1, <2>2, <2>3 DEF Counted
<1>7. Room'
  BY DEF Sized, Room
<1>8. Held'
  <2> SUFFICES ASSUME NEW i \in Indices PROVE Fits(done, Filled(i)')
    BY DEF Held
  <2>1. Fits(done, Filled(i))
    BY DEF Sized, Held
  <2>2. Fits(done, Filled(i) \o b)
    BY <1>1, <1>4, <2>1, FitsSame
  <2> QED
    BY <1>1, <2>1, <2>2
<1> QED
  BY <1>5, <1>6, <1>7, <1>8 DEF Sized

\* Files change their names or are emptied.
LEMMA MovesSized ==
  ASSUME WInv, Sized, UNCHANGED <<lines, done>>,
         \A i \in Indices : Filled(i)' = <<>> \/ \E k \in Indices : Filled(i)' = Filled(k),
         pc' = "idle" \/ (pc = "shift" /\ pc' \in {"shift", "body"}),
         Bytes(done \cup {NL}, Filled(handle)') <= size',
         pc' = "body" => size' = 0,
         Drained'
  PROVE  Sized'
<1>1. Fresh'
  <2>1. \A n : ~In(n, <<>>)
    <3>1. <<>> \in Seq(Nat) /\ Len(<<>>) = 0
      BY EmptySeq
    <3>2. DOMAIN <<>> = {}
      BY <3>1
    <3> QED
      BY <3>2 DEF In
  <2>2. pc = "shift" => Len(lines) \notin done /\ \A i \in Indices : ~In(Len(lines), Filled(i))
    BY DEF Sized, Fresh
  <2>3. ASSUME pc = "shift", NEW i \in Indices PROVE ~In(Len(lines), Filled(i)')
    BY <2>1, <2>2, <2>3
  <2> QED
    BY <2>2, <2>3 DEF Fresh
<1>2. Counted'
  BY DEF Counted
<1>3. Room'
  BY DEF Room
<1>4. Held'
  <2> SUFFICES ASSUME NEW i \in Indices PROVE Fits(done, Filled(i)')
    BY DEF Held
  <2>1. \A k \in Indices : Fits(done, Filled(k))
    BY DEF Sized, Held
  <2> QED
    BY <2>1, FitsEmpty
<1> QED
  BY <1>1, <1>2, <1>3, <1>4 DEF Sized

LEMMA CutsSized ==
  ASSUME WInv, Sized, NEW b \in Text, Cuts(b), UNCHANGED <<lines, size>>, done' \subseteq done,
         pc' = "down",
         \A j \in DOMAIN b : pc = "body" /\ b[j] = Len(lines)
  PROVE  Sized'
<1>1. /\ \A i \in Indices : Filled(i) \in Seq(Nat)
      /\ handle \in Indices /\ size \in Nat /\ b \in Seq(Nat)
      /\ handle' = handle /\ buffer' = <<>>
      /\ \A i \in Indices : i # handle => Filled(i)' = Filled(i)
      /\ Continued(Filled(handle)', Filled(handle) \o b)
      /\ \A i \in Indices : Filled(i)' = Content(i)'
  BY SizedFacts, TextIsBytes DEF Cuts
<1>2. PICK T \in Seq(Nat) : T = Filled(handle)
  BY <1>1
<1>3. ASSUME NEW j \in DOMAIN b PROVE b[j] \notin done /\ b[j] # NL
  <2>1. pc = "body" /\ b[j] = Len(lines)
    BY <1>3
  <2> QED
    BY <2>1, SizedFacts DEF Sized, Fresh
<1>4. PICK x \in Seq(Nat) : T \o b = Filled(handle)' \o x
  BY <1>1, <1>2 DEF Continued
<1>5. PICK U : U = Filled(handle)'
  OBVIOUS
<1>6. PICK D : D = done'
  OBVIOUS
<1>7. U \in Seq(Nat)
  <2>1. Continued(Content(handle), Content(handle)')
    BY <1>1 DEF Cuts
  <2>2. PICK y \in Seq(Nat) : Content(handle)' = Content(handle) \o y
    BY <2>1 DEF Continued
  <2>3. Content(handle) \in Seq(Nat)
    BY FillFacts, TextIsBytes
  <2>4. Filled(handle)' = Content(handle)'
    BY <1>1
  <2>5. Content(handle) \o y \in Seq(Nat)
    BY <2>3, ConcatProperties
  <2> QED
    BY <1>5, <2>2, <2>4, <2>5
<1>8. Fits(done, T \o b) /\ D \in SUBSET done
  <2>1. Fits(done, T)
    BY <1>1, <1>2 DEF Sized, Held
  <2> QED
    BY <1>1, <1>3, <1>6, <2>1, FitsSame
<1>9. Fits(D, U)
  <2>1. Fits(done, U \o x)
    BY <1>4, <1>5, <1>8
  <2> QED
    BY <1>7, <1>8, <2>1, FitsShrinks
<1>10. ASSUME NEW i \in Indices, i # handle PROVE Fits(D, Filled(i))
  <2>1. Fits(done, Filled(i)) /\ Filled(i) \in Seq(Nat) /\ <<>> \in Seq(Nat)
    BY <1>1, EmptySeq DEF Sized, Held
  <2>2. Filled(i) \o <<>> = Filled(i)
    BY <2>1, Concat
  <2>3. Fits(done, Filled(i) \o <<>>)
    BY <2>1, <2>2
  <2> QED
    BY <1>8, <2>1, <2>3, FitsShrinks
<1>11. Held'
  BY <1>1, <1>5, <1>6, <1>9, <1>10 DEF Held
<1>12. Counted'
  <2>1. Bytes(D \cup {NL}, U) <= Bytes(done \cup {NL}, U \o x)
    <3>1. D \cup {NL} \in SUBSET (done \cup {NL})
      BY <1>8
    <3> QED
      BY <1>7, <3>1, BytesLess
  <2>2. Bytes(done \cup {NL}, T \o b) = Bytes(done \cup {NL}, T)
    <3>1. \A j \in DOMAIN b : b[j] \notin done \cup {NL}
      BY <1>3
    <3> QED
      BY <1>1, <3>1, BytesAppend
  <2>3. Bytes(done \cup {NL}, T) <= size /\ Bytes(done \cup {NL}, T) \in Nat
    BY <1>2, BytesFacts DEF Sized, Counted
  <2>4. Bytes(D \cup {NL}, U) <= size
    <3>1. Bytes(D \cup {NL}, U) \in Nat
      BY <1>7, BytesFacts
    <3>2. Bytes(done \cup {NL}, U \o x) = Bytes(done \cup {NL}, T)
      BY <1>4, <1>5, <2>2
    <3> QED
      BY <1>1, <2>1, <2>3, <3>1, <3>2
  <2> QED
    BY <1>5, <1>6, <2>4 DEF Counted
<1>13. Fresh' /\ Drained' /\ Room'
  BY <1>1 DEF Fresh, Drained, Room
<1> QED
  BY <1>11, <1>12, <1>13 DEF Sized

LEMMA NewlineSized ==
  ASSUME WInv, Sized, WriteNewline
  PROVE  Sized'
<1>1. /\ pc = "newline" /\ pc' = "idle" /\ Put(<<NL>>) /\ size' = size + Len(Body) + 1
      /\ done' = done \cup {Len(lines)} /\ UNCHANGED <<handle, lines>>
  BY DEF WriteNewline
<1>2. /\ \A i \in Indices : Filled(i) \in Seq(Nat)
      /\ handle \in Indices /\ size \in Nat /\ MaxBytes \in Nat /\ MaxBytes >= 1 /\ NL = 0
      /\ lines[Len(lines)] \in Nat /\ Len(lines) # NL
      /\ \A n \in done : n # NL
  BY <1>1, SizedFacts
<1>3. Len(Body) = lines[Len(lines)]
  BY <1>2 DEF Body
<1>4. PICK b \in Text : b = <<NL>>
  BY TextFacts DEF WInv
<1>5. b \in Seq(Nat) /\ Len(b) = 1 /\ \A j \in DOMAIN b : b[j] = NL
  <2>1. b \in Seq(Nat)
    BY TextIsBytes
  <2>2. Len(<<NL>>) = 1 /\ DOMAIN <<NL>> = {1} /\ <<NL>>[1] = NL
    OBVIOUS
  <2> QED
    BY <1>4, <2>1, <2>2
<1>6. \A i \in Indices : Filled(i)' = IF i = handle THEN Filled(i) \o b ELSE Filled(i)
  BY <1>1, <1>4, PutGains DEF Gains
<1>7. PICK T \in Seq(Nat) : T = Filled(handle)
  BY <1>2
<1>8. Filled(handle)' = T \o b
  BY <1>1, <1>2, <1>6, <1>7
<1>9. PICK D : D = done \cup {Len(lines)}
  OBVIOUS
<1>10. Bytes(D \cup {NL}, T \o b) <= size + lines[Len(lines)] + 1
  <2>1. Bytes(D \cup {NL}, T) <= size + lines[Len(lines)]
    BY <1>1, <1>7, <1>9 DEF Sized, Counted
  <2>2. Bytes(D \cup {NL}, T \o b) <= Bytes(D \cup {NL}, T) + 1
    BY <1>5, BytesAppend
  <2>3. Bytes(D \cup {NL}, T \o b) \in Nat /\ Bytes(D \cup {NL}, T) \in Nat
    BY <1>5, BytesFacts, ConcatProperties
  <2> QED
    BY <1>2, <2>1, <2>2, <2>3
<1>11. Fits(D, T \o b)
  <2>1. CASE size + lines[Len(lines)] + 1 <= MaxBytes
    <3>1. Bytes(D \cup {NL}, T \o b) \in Nat
      BY <1>5, BytesFacts, ConcatProperties
    <3>2. Bytes(D \cup {NL}, T \o b) <= MaxBytes
      BY <1>2, <1>10, <2>1, <3>1
    <3> QED
      BY <3>2 DEF Fits
  <2>2. CASE size = 0
    <3>1. Bytes(done \cup {NL}, T) <= 0 /\ Bytes(done \cup {NL}, T) \in Nat
      BY <1>7, <2>2, BytesFacts DEF Sized, Counted
    <3>2. \A j \in DOMAIN T : T[j] \notin done \cup {NL}
      <4>1. IsFiniteSet(Places(done \cup {NL}, T)) /\ Cardinality(Places(done \cup {NL}, T)) = 0
        BY <3>1, PlacesFinite
      <4>2. Places(done \cup {NL}, T) = {}
        BY <4>1, FS_EmptySet
      <4> QED
        BY <4>2 DEF Places
    <3>3. Bytes({NL}, T \o b) <= 1
      <4>1. Bytes({NL}, T) <= Bytes(done \cup {NL}, T)
        <5>1. T \o <<>> = T /\ <<>> \in Seq(Nat) /\ {NL} \in SUBSET (done \cup {NL})
          BY Concat, EmptySeq
        <5>2. Bytes({NL}, T) <= Bytes(done \cup {NL}, T \o <<>>)
          BY <5>1, BytesLess
        <5> QED
          BY <5>1, <5>2
      <4>2. Bytes({NL}, T \o b) <= Bytes({NL}, T) + 1
        BY <1>5, BytesAppend
      <4>3. Bytes({NL}, T \o b) \in Nat /\ Bytes({NL}, T) \in Nat
        BY <1>5, BytesFacts, ConcatProperties
      <4> QED
        BY <3>1, <4>1, <4>2, <4>3
    <3>4. PICK c : c = T \o b
      OBVIOUS
    <3>5. \A j \in DOMAIN c : (j \in DOMAIN T /\ c[j] = T[j]) \/ c[j] = NL
      <4>1. /\ \A j \in DOMAIN T : j \in DOMAIN c /\ c[j] = T[j]
            /\ \A j \in DOMAIN c : j \in DOMAIN T \/ (j - Len(T) \in DOMAIN b /\ c[j] = b[j - Len(T)])
        <5>1. b \in Seq(Nat)
          BY <1>5
        <5> QED
          BY <3>4, <5>1, ConcatFacts
      <4> QED
        BY <1>5, <4>1
    <3>6. \A j \in DOMAIN c : c[j] \in D => c[j] = Len(lines)
      BY <1>2, <1>9, <3>2, <3>5
    <3> QED
      BY <1>9, <3>3, <3>4, <3>6 DEF Fits
  <2> QED
    BY <1>1, <2>1, <2>2 DEF Sized, Room
<1>12. ASSUME NEW i \in Indices, i # handle PROVE Fits(D, Filled(i))
  <2>1. Fits(done, Filled(i)) /\ ~In(Len(lines), Filled(i))
    BY <1>1, <1>12 DEF Sized, Held, Fresh
  <2> QED
    BY <1>2, <1>9, <2>1, FitsMore
<1>13. Held'
  BY <1>1, <1>6, <1>7, <1>9, <1>11, <1>12 DEF Held
<1>14. Counted'
  BY <1>1, <1>3, <1>8, <1>9, <1>10 DEF Counted
<1>15. Fresh' /\ Drained' /\ Room'
  BY <1>1 DEF Fresh, Drained, Room
<1> QED
  BY <1>13, <1>14, <1>15 DEF Sized

LEMMA WriteLineSized ==
  ASSUME WInv, Sized, NEW len \in Lengths, WriteLine(len)
  PROVE  Sized'
<1>1. /\ pc' \in {"rotate", "body"}
      /\ pc' = "body" => size = 0 \/ size + len + 1 <= MaxBytes
      /\ lines' = Append(lines, len)
      /\ UNCHANGED <<files, handle, buffer, size, done>>
  <2>1. size \in Nat /\ len \in Nat /\ MaxBytes \in Nat
    BY SizedFacts, SizeAssumption
  <2>2. ~(size > 0 /\ size + len + 1 > MaxBytes) => size = 0 \/ size + len + 1 <= MaxBytes
    BY <2>1
  <2> QED
    BY <2>2 DEF WriteLine
<1>2. /\ Len(lines) \in Nat /\ Len(lines') = Len(lines) + 1 /\ lines'[Len(lines')] = len
  <2>1. lines \in Seq(Lengths)
    BY DEF WInv, TypeOK
  <2> QED
    BY <1>1, <2>1, AppendProperties, LenProperties
<1>3. \A i \in Indices : Filled(i)' = Filled(i)
  BY <1>1 DEF Filled, Content
<1>4. Fresh'
  <2>1. PICK n : n = Len(lines')
    OBVIOUS
  <2>2. n = Len(lines) + 1
    BY <1>2, <2>1
  <2>3. n \notin done
    <3>1. \A m \in done : m \in Nat /\ m <= Len(lines)
      BY SizedFacts
    <3> QED
      BY <1>2, <2>2, <3>1
  <2>4. ASSUME NEW i \in Indices PROVE ~In(n, Filled(i))
    <3>1. Filled(i) \in Seq(0..Len(lines))
      BY FillFacts DEF Text
    <3>2. \A j \in DOMAIN Filled(i) : Filled(i)[j] \in 0..Len(lines)
      BY <3>1, LenProperties, ElementOfSeq
    <3>3. n \notin 0..Len(lines)
      BY <1>2, <2>2
    <3> QED
      BY <3>2, <3>3 DEF In
  <2> QED
    BY <1>1, <1>3, <2>1, <2>3, <2>4 DEF Fresh
<1>5. Counted'
  <2>1. Filled(handle)' = Filled(handle)
    BY <1>1 DEF Filled, Content
  <2>2. Bytes(done \cup {NL}, Filled(handle)) <= size
    BY DEF Sized, Counted
  <2> QED
    BY <1>1, <2>1, <2>2 DEF Counted
<1>6. Held'
  BY <1>1, <1>3 DEF Sized, Held
<1>7. Drained' /\ Room'
  BY <1>1, <1>2 DEF Drained, Room
<1> QED
  BY <1>4, <1>5, <1>6, <1>7 DEF Sized

LEMMA RotationSized ==
  ASSUME WInv, Sized, ShiftRemove \/ ShiftRename \/ Create \/ Open
  PROVE  Sized'
<1>1. /\ Bytes(done \cup {NL}, Filled(handle)) <= size
      /\ pc \in {"shift", "down"} => buffer = <<>>
  BY DEF Sized, Counted, Drained
<1>2. CASE ShiftRemove
  <2>1. Empties(shift) /\ shift \in Indices
    BY <1>2, RemoveEmpties
  <2>2. /\ pc = "shift" /\ pc' = "shift" /\ UNCHANGED <<handle, buffer, size, lines, done>>
    BY <1>2 DEF ShiftRemove, Shifting
  <2>3. \A i \in Indices : Filled(i)' = IF i = shift THEN <<>> ELSE Filled(i)
    BY <2>1 DEF Empties
  <2>4. Filled(handle)' = Filled(handle)
    BY <2>1, <2>2, <2>3, FillFacts DEF Empties
  <2>5. \A i \in Indices : Filled(i)' = <<>> \/ \E k \in Indices : Filled(i)' = Filled(k)
    BY <2>3
  <2>6. Drained'
    BY <1>1, <2>2 DEF Drained
  <2> QED
    BY <1>1, <2>2, <2>4, <2>5, <2>6, MovesSized
<1>3. CASE ShiftRename
  <2>1. Renames(shift)
    BY <1>3, RenameRenames
  <2>2. /\ pc = "shift" /\ pc' = "shift" /\ UNCHANGED <<buffer, size, lines, done>>
    BY <1>3 DEF ShiftRename, Shifting
  <2>3. /\ shift - 1 \in Indices /\ shift \in Indices /\ shift # shift - 1
        /\ handle' = IF handle = shift - 1 THEN shift ELSE handle
        /\ handle # shift /\ handle \in Indices
        /\ \A i \in Indices :
             Filled(i)' = IF i = shift THEN Filled(shift - 1)
                          ELSE IF i = shift - 1 THEN <<>> ELSE Filled(i)
    <3>1. shift \in Nat
      BY IndexFacts DEF WInv, TypeOK
    <3> QED
      BY <2>1, <3>1, FillFacts DEF Renames
  <2>4. Filled(handle)' = Filled(handle)
    BY <2>3
  <2>5. \A i \in Indices : Filled(i)' = <<>> \/ \E k \in Indices : Filled(i)' = Filled(k)
    BY <2>3
  <2>6. Drained'
    BY <1>1, <2>2 DEF Drained
  <2> QED
    BY <1>1, <2>2, <2>4, <2>5, <2>6, MovesSized
<1>4. CASE Create
  <2>1. /\ pc = "shift" /\ pc' = "body" /\ size' = 0 /\ UNCHANGED <<buffer, lines, done>>
    BY <1>4 DEF Create
  <2>2. /\ 0 \in Indices /\ handle' = 0
        /\ \A i \in Indices : Filled(i)' = IF i = 0 THEN <<>> ELSE Filled(i)
    BY <1>1, <1>4, <2>1, CreateFill
  <2>3. Filled(handle)' = <<>>
    BY <2>2
  <2>4. Bytes(done \cup {NL}, <<>>) <= 0
    <3>1. <<>> \in Seq(Nat) /\ Len(<<>>) = 0
      BY EmptySeq
    <3> QED
      BY <3>1, BytesFacts
  <2>5. \A i \in Indices : Filled(i)' = <<>> \/ \E k \in Indices : Filled(i)' = Filled(k)
    BY <2>2
  <2>6. Drained'
    BY <2>1 DEF Drained
  <2> QED
    BY <2>1, <2>3, <2>4, <2>5, <2>6, MovesSized
<1>5. CASE Open
  <2>1. /\ pc = "down" /\ pc' = "idle" /\ UNCHANGED <<buffer, lines, done>>
    BY <1>5 DEF Open
  <2>2. /\ 0 \in Indices /\ handle' = 0 /\ size' = Len(Filled(0))
        /\ \A i \in Indices : Filled(i)' = Filled(i)
    BY <1>1, <1>5, <2>1, OpenFill
  <2>3. Filled(handle)' = Filled(0)
    BY <2>2
  <2>4. Bytes(done \cup {NL}, Filled(0)) <= Len(Filled(0))
    BY <2>2, SizedFacts, BytesFacts
  <2>5. \A i \in Indices : Filled(i)' = <<>> \/ \E k \in Indices : Filled(i)' = Filled(k)
    BY <2>2
  <2>6. Drained'
    BY <2>1 DEF Drained
  <2>7. Bytes(done \cup {NL}, Filled(handle)') <= size'
    BY <2>2, <2>3, <2>4
  <2> QED
    BY <2>1, <2>5, <2>6, <2>7, MovesSized
<1> QED
  BY <1>2, <1>3, <1>4, <1>5

\* What the body of a line is made of.
LEMMA BodyFacts ==
  ASSUME WInv, pc \in {"body", "newline"}
  PROVE  /\ Body \in Text /\ Len(Body) = lines[Len(lines)] /\ Len(Body) \in Nat
         /\ \A j \in DOMAIN Body : Body[j] = Len(lines)
         /\ \A k \in 0..Len(Body) : \A j \in DOMAIN SubSeq(Body, 1, k) :
              SubSeq(Body, 1, k)[j] = Len(lines)
<1>1. lines # <<>> /\ Body \in Text
  BY TextFacts DEF WInv, InCall
<1>2. PICK m \in Nat : m = lines[Len(lines)]
  BY SizedFacts
<1>3. Body = [i \in 1..m |-> Len(lines)]
  BY <1>2 DEF Body
<1>4. Len(Body) = m /\ DOMAIN Body = 1..m /\ \A j \in 1..m : Body[j] = Len(lines)
  BY <1>3
<1>5. ASSUME NEW k \in 0..m, NEW j \in DOMAIN SubSeq(Body, 1, k)
      PROVE  SubSeq(Body, 1, k)[j] = Len(lines)
  <2>1. k \in 0..Len(Body)
    BY <1>4
  <2>2. SubSeq(Body, 1, k) \in Text /\ Len(SubSeq(Body, 1, k)) = k
    BY <1>1, <2>1, Slices DEF WInv
  <2>3. j \in 1..k
    BY <2>2, LenProperties DEF Text
  <2>4. SubSeq(Body, 1, k)[j] = Body[j]
    <3>1. /\ 1 \in Int /\ k \in Int /\ \A i \in 1..k : Body[i] \in Nat
          /\ j \in 1..(k - 1 + 1) /\ 1 + j - 1 = j
      BY <1>2, <1>4, <2>3
    <3> QED
      BY <3>1, SubSeqProperties
  <2>5. j \in 1..m
    BY <1>2, <2>3
  <2> QED
    BY <1>4, <2>4, <2>5
<1> QED
  BY <1>1, <1>2, <1>4, <1>5

LEMMA LineSized ==
  ASSUME WInv, Sized, Rotate \/ WriteBody \/ Flush \/ Close
  PROVE  Sized'
<1>0. <<>> \in Text /\ \A j \in DOMAIN <<>> : FALSE
  <2>1. Len(<<>>) = 0 /\ <<>> \in Seq(Nat)
    BY EmptySeq
  <2>2. DOMAIN <<>> = {}
    BY <2>1
  <2> QED
    BY <2>2, TextFacts DEF WInv
<1>1. CASE Rotate \/ Flush \/ Close
  <2>1. /\ Flushed /\ UNCHANGED <<handle, lines, done, size>>
        /\ pc' \in {"idle", "down"} \/ (pc = "rotate" /\ pc' = "shift")
    BY <1>1 DEF Rotate, Flush, Close
  <2>2. Gains(<<>>) /\ buffer' = <<>>
    BY <2>1, FlushedGains
  <2>3. Drained'
    BY <2>2 DEF Drained
  <2> QED
    BY <1>0, <2>1, <2>2, <2>3, GainsSized
<1>2. CASE WriteBody
  <2>1. /\ pc = "body" /\ pc' = "newline" /\ Put(Body) /\ UNCHANGED <<handle, lines, done, size>>
    BY <1>2 DEF WriteBody
  <2>2. /\ Body \in Text /\ Len(Body) = lines[Len(lines)]
        /\ \A j \in DOMAIN Body : Body[j] = Len(lines)
    BY <2>1, BodyFacts
  <2>3. Gains(Body)
    BY <2>1, <2>2, PutGains
  <2>4. Drained'
    BY <2>1 DEF Drained
  <2> QED
    BY <2>1, <2>2, <2>3, <2>4, GainsSized
<1> QED
  BY <1>1, <1>2

LEMMA FaultSized ==
  ASSUME WInv, Sized,
         \/ ShiftSkip \/ FlushFails \/ BodyFails \/ NewlineFails
         \/ RemoveFails \/ RenameFails \/ CreateFails \/ Crash
  PROVE  Sized'
<1>0. <<>> \in Text /\ \A j \in DOMAIN <<>> : FALSE
  <2>1. Len(<<>>) = 0 /\ <<>> \in Seq(Nat)
    BY EmptySeq
  <2>2. DOMAIN <<>> = {}
    BY <2>1
  <2> QED
    BY <2>2, TextFacts DEF WInv
<1>1. CASE ShiftSkip \/ RemoveFails \/ RenameFails \/ CreateFails
  <2>1. /\ UNCHANGED <<files, buffer, handle, lines, done, size>>
        /\ pc' = "idle" \/ (pc = "shift" /\ pc' = "shift")
    BY <1>1 DEF ShiftSkip, Shifting, RemoveFails, RenameFails, CreateFails, Fails
  <2>2. Gains(<<>>)
    BY <2>1, StillGains
  <2>3. Drained'
    BY <2>1 DEF Drained, Sized
  <2> QED
    BY <1>0, <2>1, <2>2, <2>3, GainsSized
<1>2. CASE FlushFails
  <2>1. FlushBroken /\ UNCHANGED <<handle, lines, done, size>> /\ pc' = "idle"
    BY <1>2 DEF FlushFails, Fails
  <2>2. Gains(<<>>) /\ Drained'
    BY <2>1, BrokenGains DEF Drained
  <2> QED
    BY <1>0, <2>1, <2>2, GainsSized
<1>3. CASE BodyFails
  <2>1. /\ PutBroken(Body) /\ UNCHANGED <<handle, lines, done, size>>
        /\ pc = "body" /\ pc' = "idle"
    BY <1>3 DEF BodyFails, Fails
  <2>2. Body \in Text
    BY <2>1, BodyFacts
  <2>3. PICK k \in 0..Len(Body) : SubSeq(Body, 1, k) \in Text /\ Gains(SubSeq(Body, 1, k))
    BY <2>1, <2>2, PutBrokenGains
  <2>4. \A j \in DOMAIN SubSeq(Body, 1, k) : SubSeq(Body, 1, k)[j] = Len(lines)
    BY <2>1, BodyFacts
  <2>5. Drained'
    BY <2>1 DEF Drained
  <2> QED
    BY <2>1, <2>3, <2>4, <2>5, GainsSized
<1>4. CASE NewlineFails
  <2>1. PutBroken(<<NL>>) /\ UNCHANGED <<handle, lines, done, size>> /\ pc' = "idle"
    BY <1>4 DEF NewlineFails, Fails
  <2>2. Gains(<<>>)
    BY <2>1, NewlineBrokenGains
  <2>3. Drained'
    BY <2>1 DEF Drained
  <2> QED
    BY <1>0, <2>1, <2>2, <2>3, GainsSized
<1>5. CASE Crash
  <2>1. UNCHANGED <<lines, size>> /\ pc' = "down" /\ done' = safe
    BY <1>5 DEF Crash
  <2>2. done' \subseteq done
    BY <2>1, LineFacts
  <2>3. PICK b \in Text : Cuts(b) /\ \A j \in DOMAIN b : pc = "body" /\ b[j] = Len(lines)
    BY <1>0, <1>5, CrashCuts, BodyFacts
  <2> QED
    BY <2>1, <2>2, <2>3, CutsSized
<1> QED
  BY <1>1, <1>2, <1>3, <1>4, <1>5

LEMMA InitSized == Init => Sized
<1> SUFFICES ASSUME Init PROVE Sized
  OBVIOUS
<1>1. WInv /\ pc = "idle" /\ done = {} /\ buffer = <<>> /\ size = 0 /\ handle = 0
      /\ files = [i \in Indices |-> IF i = 0 THEN <<>> ELSE None] /\ <<>> \in Seq(Nat)
  BY InitWInv, EmptySeq DEF Init
<1>2. \A i \in Indices : Content(i) = <<>>
  BY <1>1 DEF Content
<1>3. \A i \in Indices : Filled(i) = <<>>
  BY <1>1, <1>2, FillFacts
<1>4. Bytes(done \cup {NL}, <<>>) <= 0
  <2>1. Len(<<>>) = 0
    BY EmptySeq
  <2> QED
    BY <1>1, <2>1, BytesFacts
<1>5. Counted
  <2>1. handle \in Indices
    BY <1>1, FillFacts
  <2> QED
    BY <1>1, <1>3, <1>4, <2>1 DEF Counted
<1>6. Held
  BY <1>3, FitsEmpty DEF Held
<1>7. Fresh /\ Drained /\ Room
  BY <1>1 DEF Fresh, Drained, Room
<1> QED
  BY <1>5, <1>6, <1>7 DEF Sized

LEMMA NextSized == WInv /\ Sized /\ [Next]_vars => Sized'
<1> SUFFICES ASSUME WInv, Sized, [Next]_vars PROVE Sized'
  OBVIOUS
<1>1. ASSUME NEW len \in Lengths, WriteLine(len) PROVE Sized'
  BY <1>1, WriteLineSized
<1>2. CASE WriteNewline
  BY <1>2, NewlineSized
<1>3. CASE ShiftRemove \/ ShiftRename \/ Create \/ Open
  BY <1>3, RotationSized
<1>4. CASE Rotate \/ WriteBody \/ Flush \/ Close
  BY <1>4, LineSized
<1>5. CASE \/ ShiftSkip \/ FlushFails \/ BodyFails \/ NewlineFails
           \/ RemoveFails \/ RenameFails \/ CreateFails \/ Crash
  BY <1>5, FaultSized
<1>6. CASE UNCHANGED vars
  BY <1>6 DEF vars, Sized, Fresh, Drained, Counted, Room, Held, Filled, Content
<1> QED
  BY <1>1, <1>2, <1>3, <1>4, <1>5, <1>6 DEF Next

LEMMA SizedBounds ==
  ASSUME WInv, Sized
  PROVE  SizeBounded
<1> SUFFICES ASSUME NEW i \in Indices
             PROVE  \/ Bytes(done \cup {NL}, Filled(i)) <= MaxBytes
                    \/ /\ Cardinality(done \cap Range(Filled(i))) = 1
                       /\ Bytes({NL}, Filled(i)) <= 1
  BY DEF SizeBounded
<1>1. Fits(done, Filled(i))
  BY DEF Sized, Held
<1>2. PICK t \in Seq(Nat) : t = Filled(i)
  BY SizedFacts
<1>3. CASE \E n \in done : \A j \in DOMAIN t : t[j] \in done => t[j] = n
  <2>1. PICK n \in done : \A j \in DOMAIN t : t[j] \in done => t[j] = n
    BY <1>3
  <2>2. CASE n \in Range(t)
    <3>1. done \cap Range(t) = {n}
      BY <2>1, <2>2 DEF Range
    <3>2. Cardinality({n}) = 1
      BY FS_Singleton
    <3> QED
      BY <1>1, <1>2, <3>1, <3>2 DEF Fits
  <2>3. CASE n \notin Range(t)
    <3>1. \A j \in DOMAIN t : t[j] \in done \cup {NL} <=> t[j] \in {NL}
      BY <2>1, <2>3 DEF Range
    <3>2. Bytes(done \cup {NL}, t) = Bytes({NL}, t)
      BY <3>1, BytesAgree
    <3>3. Bytes({NL}, t) \in Nat /\ MaxBytes \in Nat /\ MaxBytes >= 1
      BY BytesFacts, SizedFacts
    <3> QED
      BY <1>1, <1>2, <3>2, <3>3 DEF Fits
  <2> QED
    BY <2>2, <2>3
<1> QED
  BY <1>1, <1>2, <1>3 DEF Fits

\* No file outgrows max_file_bytes but for a single oversize line, whatever fails,
\* wherever the process is killed and whatever configuration comes after.
THEOREM SizeIsBounded == Spec => []SizeBounded
<1>1. Init => Sized
  BY InitSized
<1>2. WInv /\ Sized /\ [Next]_vars => Sized'
  BY NextSized
<1>3. WInv /\ Sized => SizeBounded
  BY SizedBounds
<1> QED
  BY <1>1, <1>2, <1>3, WriterInvariance, PTL DEF Spec
-----------------------------------------------------------------------------
(* Lines in texts *)

\* A line of m bytes n stands in a text as a line of its own.
StandsAs(n, m, t) ==
  \E j \in DOMAIN t :
    /\ j = 1 \/ t[j - 1] = NL
    /\ j + m \in DOMAIN t /\ t[j + m] = NL
    /\ \A k \in j..(j + m - 1) : t[k] = n

\* A text ends in m bytes n; what comes before its last m bytes is torn.
Ends(n, m, t) == Len(t) >= m /\ \A j \in DOMAIN t : j > Len(t) - m => t[j] = n
TornAt(m, t) == Len(t) > m /\ t[Len(t) - m] # NL
Newline(b) == Len(b) = 1 /\ \A j \in DOMAIN b : b[j] = NL

LEMMA StandsGrows ==
  ASSUME NEW a \in Seq(Nat), NEW b \in Seq(Nat), NEW n, NEW m \in Nat, StandsAs(n, m, a)
  PROVE  StandsAs(n, m, a \o b)
<1>1. PICK c : c = a \o b
  OBVIOUS
<1>2. /\ DOMAIN a = 1..Len(a) /\ Len(a) \in Nat
      /\ \A j \in DOMAIN a : j \in DOMAIN c /\ c[j] = a[j]
  BY <1>1, ConcatFacts
<1>3. PICK j \in DOMAIN a : /\ j = 1 \/ a[j - 1] = NL
                            /\ j + m \in DOMAIN a /\ a[j + m] = NL
                            /\ \A k \in j..(j + m - 1) : a[k] = n
  BY DEF StandsAs
<1>4. j = 1 \/ c[j - 1] = NL
  <2>1. CASE j # 1
    <3>1. j - 1 \in DOMAIN a
      BY <1>2, <2>1
    <3> QED
      BY <1>2, <1>3, <2>1, <3>1
  <2> QED
    BY <2>1
<1>5. j \in DOMAIN c /\ j + m \in DOMAIN c /\ c[j + m] = NL
  BY <1>2, <1>3
<1>6. \A k \in j..(j + m - 1) : c[k] = n
  <2> SUFFICES ASSUME NEW k \in j..(j + m - 1) PROVE c[k] = n
    OBVIOUS
  <2>1. k \in DOMAIN a
    BY <1>2, <1>3
  <2> QED
    BY <1>2, <1>3, <2>1
<1> QED
  BY <1>1, <1>4, <1>5, <1>6 DEF StandsAs

LEMMA StandsIn ==
  ASSUME NEW t \in Seq(Nat), NEW n, NEW m \in Nat \ {0}, StandsAs(n, m, t)
  PROVE  In(n, t)
<1>1. PICK j \in DOMAIN t : \A k \in j..(j + m - 1) : t[k] = n
  BY DEF StandsAs
<1>2. j \in Nat
  BY LenProperties
<1>3. j \in j..(j + m - 1)
  BY <1>2
<1> QED
  BY <1>1, <1>3 DEF In

\* A line whose newline comes right after it, and that follows one, stands.
LEMMA StandsEnded ==
  ASSUME NEW a \in Seq(Nat), NEW n, NEW m \in Nat, Ends(n, m, a), ~TornAt(m, a),
         NEW b \in Seq(Nat), Newline(b)
  PROVE  StandsAs(n, m, a \o b)
<1>1. PICK c : c = a \o b
  OBVIOUS
<1>2. /\ DOMAIN a = 1..Len(a) /\ Len(a) \in Nat
      /\ \A j \in DOMAIN a : j \in DOMAIN c /\ c[j] = a[j]
      /\ DOMAIN c = 1..Len(a) + Len(b) /\ DOMAIN b = 1..Len(b)
      /\ \A j \in DOMAIN b : Len(a) + j \in DOMAIN c /\ c[Len(a) + j] = b[j]
  BY <1>1, ConcatFacts
<1>3. PICK j : j = Len(a) - m + 1
  OBVIOUS
<1>4. j \in Nat /\ j >= 1 /\ j + m = Len(a) + 1 /\ j - 1 = Len(a) - m
  BY <1>2, <1>3 DEF Ends
<1>5. j \in DOMAIN c /\ j + m \in DOMAIN c
  BY <1>2, <1>4 DEF Newline
<1>6. c[j + m] = NL
  <2>1. 1 \in DOMAIN b
    BY <1>2 DEF Newline
  <2> QED
    BY <1>2, <1>4, <2>1 DEF Newline
<1>7. j = 1 \/ c[j - 1] = NL
  <2>1. CASE j # 1
    <3>1. Len(a) > m /\ j - 1 \in DOMAIN a
      BY <1>2, <1>4, <2>1
    <3>2. a[j - 1] = NL
      BY <1>4, <3>1 DEF TornAt
    <3> QED
      BY <1>2, <3>1, <3>2
  <2> QED
    BY <2>1
<1>8. \A k \in j..(j + m - 1) : c[k] = n
  <2> SUFFICES ASSUME NEW k \in j..(j + m - 1) PROVE c[k] = n
    OBVIOUS
  <2>1. k \in DOMAIN a /\ k > Len(a) - m
    BY <1>2, <1>4
  <2> QED
    BY <1>2, <2>1 DEF Ends
<1> QED
  BY <1>1, <1>5, <1>6, <1>7, <1>8 DEF StandsAs

LEMMA EndsAppended ==
  ASSUME NEW a \in Seq(Nat), NEW b \in Seq(Nat), NEW n, \A j \in DOMAIN b : b[j] = n
  PROVE  Ends(n, Len(b), a \o b) /\ (TornAt(Len(b), a \o b) => TornAt(0, a))
<1>1. PICK c : c = a \o b
  OBVIOUS
<1>2. /\ DOMAIN a = 1..Len(a) /\ Len(a) \in Nat /\ Len(b) \in Nat /\ Len(c) = Len(a) + Len(b)
      /\ \A j \in DOMAIN a : j \in DOMAIN c /\ c[j] = a[j]
      /\ \A j \in DOMAIN c :
           \/ j \in DOMAIN a
           \/ j > Len(a) /\ j - Len(a) \in DOMAIN b /\ c[j] = b[j - Len(a)]
  BY <1>1, ConcatFacts
<1>3. Len(c) >= Len(b) /\ Len(c) - Len(b) = Len(a)
  BY <1>2
<1>4. ASSUME NEW j \in DOMAIN c, j > Len(a) PROVE c[j] = n
  <2>1. j \notin DOMAIN a
    BY <1>2, <1>4
  <2> QED
    BY <1>2, <2>1
<1>5. Ends(n, Len(b), c)
  BY <1>3, <1>4 DEF Ends
<1>6. TornAt(Len(b), c) => TornAt(0, a)
  <2> SUFFICES ASSUME Len(c) > Len(b), c[Len(a)] # NL PROVE TornAt(0, a)
    BY <1>3 DEF TornAt
  <2>1. Len(a) > 0 /\ Len(a) \in DOMAIN a /\ Len(a) - 0 = Len(a)
    BY <1>2
  <2> QED
    BY <1>2, <2>1 DEF TornAt
<1> QED
  BY <1>1, <1>5, <1>6

LEMMA NotTorn ==
  ASSUME NEW a \in Seq(Nat), NEW b \in Seq(Nat), Newline(b)
  PROVE  ~TornAt(0, a \o b)
<1>1. PICK c : c = a \o b
  OBVIOUS
<1>2. /\ Len(a) \in Nat /\ Len(c) = Len(a) + Len(b) /\ DOMAIN b = 1..Len(b)
      /\ \A j \in DOMAIN b : Len(a) + j \in DOMAIN c /\ c[Len(a) + j] = b[j]
  BY <1>1, ConcatFacts
<1>3. 1 \in DOMAIN b /\ Len(c) - 0 = Len(a) + 1
  BY <1>2 DEF Newline
<1>4. c[Len(c) - 0] = NL
  BY <1>2, <1>3 DEF Newline
<1> QED
  BY <1>1, <1>4 DEF TornAt

LEMMA InEmpty == \A n : ~In(n, <<>>)
<1>1. <<>> \in Seq(Nat) /\ Len(<<>>) = 0
  BY EmptySeq
<1>2. DOMAIN <<>> = {}
  BY <1>1
<1> QED
  BY <1>2 DEF In

\* What is in no file is not in the log.
LEMMA KeptIn ==
  ASSUME WInv, NEW n, \A i \in Indices : ~In(n, Content(i))
  PROVE  Count(n, Kept) = 0
<1>1. files \in Contents
  BY ByteFacts DEF WInv
<1>2. PICK k \in Nat \ {0} : Indices = 0..k - 1 /\ Cardinality(Indices) = k
  BY IndexCount
<1>3. PICK s \in [1..k -> Seq(Nat)] : s = Slots(files)
  BY <1>1, <1>2, SlotFacts
<1>4. PICK f \in [0..k -> Seq(Nat)] : Joins(f, s, k)
  BY JoinsExists
<1>5. ASSUME NEW i \in 1..k PROVE ~In(n, s[i])
  <2>1. k - i \in Indices /\ s[i] = Read(files[k - i])
    BY <1>1, <1>2, <1>3, SlotFacts
  <2>2. s[i] = Content(k - i)
    BY <2>1 DEF Content, Read
  <2> QED
    BY <2>1, <2>2
<1>6. PICK B : \A i : i \in B <=> i \in 0..k /\ ~In(n, f[i])
  <2> WITNESS {i \in 0..k : ~In(n, f[i])}
  <2> QED OBVIOUS
<1>7. 0 \in B
  <2>1. f[0] = <<>> /\ 0 \in 0..k
    BY <1>4 DEF Joins
  <2> QED
    BY <1>6, <2>1, InEmpty
<1>8. ASSUME NEW i \in 0..k, i > 0, i - 1 \in B PROVE i \in B
  <2>1. i \in 1..k /\ i - 1 \in 0..k
    BY <1>8
  <2>2. f[i] = f[i - 1] \o s[i] /\ f[i - 1] \in Seq(Nat) /\ s[i] \in Seq(Nat)
    BY <1>4, <2>1 DEF Joins
  <2>3. ~In(n, f[i - 1]) /\ ~In(n, s[i])
    BY <1>5, <1>6, <1>8, <2>1
  <2>4. ~In(n, f[i - 1] \o s[i])
    BY <2>2, <2>3, InConcat
  <2> QED
    BY <1>6, <2>2, <2>4
<1>9. k \in B
  <2>1. 0 \in Nat /\ k \in Nat /\ k \in 0..k
    OBVIOUS
  <2>2. \A i \in 0..k : i \in B
    BY <1>7, <1>8, <2>1, Along
  <2> QED
    BY <2>1, <2>2
<1>10. Kept = f[k]
  <2>1. FlattenSeq(s) = f[k]
    BY <1>4, FlattenJoins
  <2> QED
    BY <1>3, <2>1, KeptIsJoined DEF Joined
<1>11. {j \in DOMAIN Kept : Kept[j] = n} = {}
  BY <1>6, <1>9, <1>10 DEF In
<1> QED
  BY <1>11, FS_EmptySet DEF Count
-----------------------------------------------------------------------------
(* Each fault damages at most one line *)

\* Bytes after the end of the last line: those that are written, or torn.
Overhang == IF pc = "newline" THEN lines[Len(lines)] ELSE 0
Torn == TornAt(Overhang, Filled(handle))

\* A line is in no file, or stands in one; a flushed one without the buffer.
Absent(n) == \A i \in Indices : ~In(n, Filled(i))
Stays(n) == Absent(n) \/ \E i \in Indices : StandsAs(n, lines[n], Filled(i))
StaysFlushed(n) == Absent(n) \/ \E i \in Indices : StandsAs(n, lines[n], Content(i))

\* All lines but those of D stay, and faults pay for D and for the torn end that
\* will damage the next line.
Spared(D) == (\A n \in done \ D : Stays(n)) /\ \A n \in safe \ D : StaysFlushed(n)
Paid(D) == Cardinality(D) + (IF Torn THEN 1 ELSE 0) <= faults
Damaged == \E D \in SUBSET done : Paid(D) /\ Spared(D)

\* No line is in two files.
Once ==
  \A i, k \in Indices : \A n :
    n # NL /\ In(n, Filled(i)) /\ In(n, Filled(k)) => i = k

\* While its newline is missing a line is at the end of the open file.
Pending == pc = "newline" => Ends(Len(lines), lines[Len(lines)], Filled(handle))

Laid == Once /\ Pending /\ Damaged

LEMMA DoneFacts ==
  ASSUME WInv
  PROVE  /\ IsFiniteSet(done) /\ safe \subseteq done /\ faults \in Nat
         /\ \A n \in done : lines[n] \in Nat \ {0} /\ n # NL
         /\ \A D \in SUBSET done : IsFiniteSet(D) /\ Cardinality(D) \in Nat
<1>1. /\ lines \in Seq(Lengths) /\ Len(lines) \in Nat /\ safe \subseteq done
      /\ done \subseteq 1..Len(lines) /\ faults \in Nat
  BY SizeAssumption, LenProperties DEF WInv, TypeOK
<1>2. IsFiniteSet(1..Len(lines))
  BY <1>1, FS_Interval
<1>3. IsFiniteSet(done)
  BY <1>1, <1>2, FS_Subset
<1>4. ASSUME NEW n \in done PROVE lines[n] \in Nat \ {0} /\ n # NL
  <2>1. n \in 1..Len(lines)
    BY <1>1
  <2>2. lines[n] \in Lengths
    BY <1>1, <2>1, ElementOfSeq
  <2>3. Lengths \subseteq Nat \ {0}
    BY SizeAssumption
  <2>4. n # NL
    BY <1>1, <2>1 DEF NL
  <2> QED
    BY <2>2, <2>3, <2>4
<1>5. \A D \in SUBSET done : IsFiniteSet(D) /\ Cardinality(D) \in Nat
  BY <1>3, FS_Subset, FS_CardinalityType
<1> QED
  BY <1>1, <1>3, <1>4, <1>5

LEMMA DamagedKept ==
  ASSUME WInv, WInv', Damaged, done' = done,
         \/ faults' = faults /\ (Torn' => Torn)
         \/ faults' = faults + 1,
         \A n \in done : Stays(n) => Stays(n)',
         \/ safe' = safe /\ \A n \in done : StaysFlushed(n) => StaysFlushed(n)'
         \/ safe' = done /\ \A n \in done : Stays(n) => StaysFlushed(n)'
  PROVE  Damaged'
<1>1. PICK D \in SUBSET done : Paid(D) /\ Spared(D)
  BY DEF Damaged
<1>2. Cardinality(D) \in Nat /\ faults \in Nat /\ safe \subseteq done
  BY DoneFacts
<1>3. Paid(D)'
  <2>1. PICK c \in Nat : c = Cardinality(D)
    BY <1>2
  <2>2. c + (IF Torn THEN 1 ELSE 0) <= faults
    BY <1>1, <2>1 DEF Paid
  <2>3. c + (IF Torn' THEN 1 ELSE 0) <= faults'
    BY <1>2, <2>2
  <2> QED
    BY <2>1, <2>3 DEF Paid
<1>4. \A n \in done \ D : Stays(n)'
  BY <1>1 DEF Spared
<1>5. \A n \in safe' \ D : StaysFlushed(n)'
  <2>1. CASE safe' = safe /\ \A n \in done : StaysFlushed(n) => StaysFlushed(n)'
    BY <1>1, <1>2, <2>1 DEF Spared
  <2>2. CASE safe' = done /\ \A n \in done : Stays(n) => StaysFlushed(n)'
    BY <1>1, <2>2 DEF Spared
  <2> QED
    BY <2>1, <2>2
<1>6. Spared(D)'
  BY <1>4, <1>5 DEF Spared
<1> QED
  BY <1>1, <1>3, <1>6 DEF Damaged

\* Lines that the bytes gained are not of stay.
LEMMA GainsStays ==
  ASSUME WInv, NEW b \in Text, Gains(b), NEW n, ~In(n, b),
         lines[n] \in Nat, lines'[n] = lines[n]
  PROVE  /\ Stays(n) => Stays(n)'
         /\ StaysFlushed(n) => StaysFlushed(n)'
<1>1. /\ \A i \in Indices : Filled(i) \in Seq(Nat) /\ Content(i) \in Seq(Nat)
      /\ b \in Seq(Nat)
      /\ \A i \in Indices : Filled(i)' = IF i = handle THEN Filled(i) \o b ELSE Filled(i)
      /\ \A i \in Indices : Continued(Content(i), Content(i)')
  BY FillFacts, TextIsBytes DEF Gains
<1>2. ASSUME Absent(n) PROVE Absent(n)'
  <2> SUFFICES ASSUME NEW i \in Indices PROVE ~In(n, Filled(i)')
    BY DEF Absent
  <2>1. ~In(n, Filled(i))
    BY <1>2 DEF Absent
  <2>2. ~In(n, Filled(i) \o b)
    BY <1>1, <2>1, InConcat
  <2> QED
    BY <1>1, <2>1, <2>2
<1>3. ASSUME NEW i \in Indices, StandsAs(n, lines[n], Filled(i))
      PROVE  StandsAs(n, lines[n], Filled(i)')
  <2>1. StandsAs(n, lines[n], Filled(i) \o b)
    BY <1>1, <1>3, StandsGrows
  <2> QED
    BY <1>1, <1>3, <2>1
<1>4. ASSUME NEW i \in Indices, StandsAs(n, lines[n], Content(i))
      PROVE  StandsAs(n, lines[n], Content(i)')
  <2>1. PICK x \in Seq(Nat) : Content(i)' = Content(i) \o x
    BY <1>1 DEF Continued
  <2>2. StandsAs(n, lines[n], Content(i) \o x)
    BY <1>1, <1>4, StandsGrows
  <2> QED
    BY <2>1, <2>2
<1>5. Stays(n) => Stays(n)'
  BY <1>2, <1>3 DEF Stays
<1>6. StaysFlushed(n) => StaysFlushed(n)'
  BY <1>2, <1>4 DEF StaysFlushed
<1> QED
  BY <1>5, <1>6

LEMMA GainsOnce ==
  ASSUME WInv, Once, NEW b \in Text, Gains(b),
         \A n : n # NL /\ In(n, b) => Absent(n)
  PROVE  Once'
<1>1. /\ \A i \in Indices : Filled(i) \in Seq(Nat)
      /\ b \in Seq(Nat)
      /\ \A i \in Indices : Filled(i)' = IF i = handle THEN Filled(i) \o b ELSE Filled(i)
  BY FillFacts, TextIsBytes DEF Gains
<1>2. ASSUME NEW i \in Indices, NEW n, In(n, Filled(i)')
      PROVE  In(n, Filled(i)) \/ (i = handle /\ In(n, b))
  <2>1. CASE i = handle
    <3>1. In(n, Filled(i) \o b)
      BY <1>1, <1>2, <2>1
    <3> QED
      BY <1>1, <2>1, <3>1, InConcat
  <2>2. CASE i # handle
    BY <1>1, <1>2, <2>2
  <2> QED
    BY <2>1, <2>2
<1>3. ASSUME NEW i \in Indices, NEW k \in Indices, NEW n,
             n # NL, In(n, Filled(i)'), In(n, Filled(k)')
      PROVE  i = k
  <2>1. /\ In(n, Filled(i)) \/ (i = handle /\ In(n, b))
        /\ In(n, Filled(k)) \/ (k = handle /\ In(n, b))
    BY <1>2, <1>3
  <2>2. CASE In(n, b)
    <3>1. Absent(n)
      BY <1>3, <2>2
    <3> QED
      BY <2>1, <3>1 DEF Absent
  <2>3. CASE ~In(n, b)
    BY <1>3, <2>1, <2>3 DEF Once
  <2> QED
    BY <2>2, <2>3
<1> QED
  BY <1>3 DEF Once

\* Of the bytes that are added in the middle of a line none are of another.
LEMMA FreshBytes ==
  ASSUME WInv, Fresh, NEW b \in Text,
         \A j \in DOMAIN b : b[j] = NL \/ (pc = "body" /\ b[j] = Len(lines))
  PROVE  /\ \A n : n # NL /\ In(n, b) => Absent(n)
         /\ \A n \in done : ~In(n, b)
<1>1. ASSUME NEW n, n # NL, In(n, b) PROVE Absent(n) /\ n \notin done
  <2>1. pc = "body" /\ n = Len(lines)
    BY <1>1 DEF In
  <2> QED
    BY <2>1 DEF Fresh, Absent
<1>2. \A n \in done : n # NL
  BY DoneFacts
<1> QED
  BY <1>1, <1>2

\* Where the files come from when names change: place i gets what was at from[i],
\* or nothing.
Shuffles(from) ==
  /\ \A i \in Indices :
       \/ /\ from[i] \in Indices
          /\ Filled(i)' = Filled(from[i]) /\ Content(i)' = Content(from[i])
       \/ from[i] \notin Indices /\ Filled(i)' = <<>> /\ Content(i)' = <<>>
  /\ \A i, k \in Indices : from[i] \in Indices /\ from[i] = from[k] => i = k

LEMMA ShufflesStay ==
  ASSUME WInv, Once, NEW from, Shuffles(from), UNCHANGED lines, NEW n \in done
  PROVE  /\ Stays(n) => Stays(n)'
         /\ StaysFlushed(n) => StaysFlushed(n)'
<1>1. /\ \A i \in Indices : Filled(i) \in Seq(Nat) /\ Content(i) \in Seq(Nat)
      /\ \A i \in Indices : Continued(Content(i), Filled(i))
      /\ lines[n] \in Nat \ {0} /\ n # NL
  BY FillFacts, TextIsBytes, DoneFacts
<1>2. \A i \in Indices : \/ /\ from[i] \in Indices
                            /\ Filled(i)' = Filled(from[i]) /\ Content(i)' = Content(from[i])
                         \/ from[i] \notin Indices /\ Filled(i)' = <<>> /\ Content(i)' = <<>>
  BY DEF Shuffles
<1>3. ASSUME Absent(n) PROVE Absent(n)'
  BY <1>2, <1>3, InEmpty DEF Absent
<1>4. ASSUME NEW k \in Indices, In(n, Filled(k)), \A i \in Indices : from[i] # k
      PROVE  Absent(n)'
  <2> SUFFICES ASSUME NEW i \in Indices PROVE ~In(n, Filled(i)')
    BY DEF Absent
  <2>1. CASE from[i] \in Indices
    <3>1. ~In(n, Filled(from[i]))
      BY <1>1, <1>4, <2>1 DEF Once
    <3> QED
      BY <1>2, <2>1, <3>1
  <2>2. CASE from[i] \notin Indices
    BY <1>2, <2>2, InEmpty
  <2> QED
    BY <2>1, <2>2
<1>5. ASSUME NEW k \in Indices, StandsAs(n, lines[n], Filled(k))
      PROVE  Stays(n)'
  <2>1. CASE \E i \in Indices : from[i] = k
    BY <1>2, <1>5, <2>1 DEF Stays
  <2>2. CASE \A i \in Indices : from[i] # k
    <3>1. In(n, Filled(k))
      BY <1>1, <1>5, StandsIn
    <3> QED
      BY <1>4, <2>2, <3>1 DEF Stays
  <2> QED
    BY <2>1, <2>2
<1>6. ASSUME NEW k \in Indices, StandsAs(n, lines[n], Content(k))
      PROVE  StaysFlushed(n)'
  <2>1. CASE \E i \in Indices : from[i] = k
    BY <1>2, <1>6, <2>1 DEF StaysFlushed
  <2>2. CASE \A i \in Indices : from[i] # k
    <3>1. In(n, Content(k))
      BY <1>1, <1>6, StandsIn
    <3>2. PICK x \in Seq(Nat) : Filled(k) = Content(k) \o x
      BY <1>1 DEF Continued
    <3>3. In(n, Content(k) \o x)
      BY <1>1, <3>1, InConcat
    <3>4. In(n, Filled(k))
      BY <3>2, <3>3
    <3> QED
      BY <1>4, <2>2, <3>4 DEF StaysFlushed
  <2> QED
    BY <2>1, <2>2
<1>7. Stays(n) => Stays(n)'
  BY <1>3, <1>5 DEF Stays
<1>8. StaysFlushed(n) => StaysFlushed(n)'
  BY <1>3, <1>6 DEF StaysFlushed
<1> QED
  BY <1>7, <1>8

LEMMA ShufflesOnce ==
  ASSUME Once, NEW from, Shuffles(from)
  PROVE  Once'
<1>1. ASSUME NEW i \in Indices, NEW k \in Indices, NEW n,
             n # NL, In(n, Filled(i)'), In(n, Filled(k)')
      PROVE  i = k
  <2>1. /\ from[i] \in Indices /\ Filled(i)' = Filled(from[i])
        /\ from[k] \in Indices /\ Filled(k)' = Filled(from[k])
    BY <1>1, InEmpty DEF Shuffles
  <2>2. from[i] = from[k]
    BY <1>1, <2>1 DEF Once
  <2> QED
    BY <2>1, <2>2 DEF Shuffles
<1> QED
  BY <1>1 DEF Once

\* Steps within a configuration that neither finish a line nor lose one.
LEMMA GainsLaid ==
  ASSUME WInv, WInv', Fresh, Laid, NEW b \in Text, Gains(b), UNCHANGED <<lines, done>>,
         \A j \in DOMAIN b : pc = "body" /\ b[j] = Len(lines),
         \/ faults' = faults /\ (Torn' => Torn)
         \/ faults' = faults + 1,
         safe' = safe \/ (safe' = done /\ Flushed),
         Pending'
  PROVE  Laid'
<1>1. /\ \A n : n # NL /\ In(n, b) => Absent(n)
      /\ \A n \in done : ~In(n, b)
  BY FreshBytes
<1>2. Once'
  BY <1>1, GainsOnce DEF Laid
<1>3. \A n \in done : (Stays(n) => Stays(n)') /\ (StaysFlushed(n) => StaysFlushed(n)')
  <2> SUFFICES ASSUME NEW n \in done
               PROVE  (Stays(n) => Stays(n)') /\ (StaysFlushed(n) => StaysFlushed(n)')
    OBVIOUS
  <2>1. lines[n] \in Nat /\ lines'[n] = lines[n] /\ ~In(n, b)
    BY <1>1, DoneFacts
  <2> QED
    BY <2>1, GainsStays
<1>4. ASSUME Flushed, NEW n \in done, Stays(n) PROVE StaysFlushed(n)'
  <2>1. handle' = handle
    BY DEF Gains
  <2>2. \A i \in Indices : Content(i)' = Filled(i)
    BY <1>4, <2>1, FlushedGains
  <2>3. Stays(n)'
    BY <1>3, <1>4
  <2>4. Absent(n) => Absent(n)'
    <3>1. Gains(<<>>)
      BY <1>4, <2>1, FlushedGains
    <3>2. \A i \in Indices : Filled(i)' = Filled(i)
      <4>1. \A i \in Indices : Filled(i) \o <<>> = Filled(i)
        BY FillFacts, TextIsBytes, Concat
      <4> QED
        BY <3>1, <4>1 DEF Gains
    <3> QED
      BY <3>2 DEF Absent
  <2>5. ASSUME NEW i \in Indices, StandsAs(n, lines[n], Filled(i))
        PROVE  StandsAs(n, lines[n], Content(i)')
    BY <2>2, <2>5
  <2> QED
    BY <1>4, <2>4, <2>5 DEF Stays, StaysFlushed
<1>5. \/ safe' = safe /\ \A n \in done : StaysFlushed(n) => StaysFlushed(n)'
      \/ safe' = done /\ \A n \in done : Stays(n) => StaysFlushed(n)'
  BY <1>3, <1>4
<1>6. Damaged'
  BY <1>3, <1>5, DamagedKept DEF Laid
<1> QED
  BY <1>2, <1>6 DEF Laid

LEMMA ShufflesLaid ==
  ASSUME WInv, WInv', Laid, NEW from, Shuffles(from), UNCHANGED <<lines, done, safe, faults>>,
         Torn' => Torn, pc' # "newline"
  PROVE  Laid'
<1>1. Once'
  BY ShufflesOnce DEF Laid
<1>2. Pending'
  BY DEF Pending
<1>3. \A n \in done : (Stays(n) => Stays(n)') /\ (StaysFlushed(n) => StaysFlushed(n)')
  BY ShufflesStay DEF Laid
<1>4. Damaged'
  BY <1>3, DamagedKept DEF Laid
<1> QED
  BY <1>1, <1>2, <1>4 DEF Laid

\* A crash takes no more than was not flushed.
LEMMA CutsLaid ==
  ASSUME WInv, WInv', Fresh, Laid, NEW b \in Text, Cuts(b), UNCHANGED <<lines, safe>>,
         done' = safe, faults' = faults + 1, pc' = "down",
         \A j \in DOMAIN b : pc = "body" /\ b[j] = Len(lines)
  PROVE  Laid'
<1>1. /\ \A n : n # NL /\ In(n, b) => Absent(n)
      /\ \A n \in done : ~In(n, b)
  BY FreshBytes
<1>2. /\ \A i \in Indices : Filled(i) \in Seq(Nat) /\ Content(i) \in Seq(Nat)
      /\ b \in Seq(Nat) /\ handle \in Indices /\ handle' = handle
      /\ \A i \in Indices : /\ i # handle => Filled(i)' = Filled(i)
                            /\ Filled(i)' = Content(i)'
                            /\ Continued(Content(i), Content(i)')
      /\ Continued(Filled(handle)', Filled(handle) \o b)
  BY FillFacts, TextIsBytes DEF Cuts
<1>3. ASSUME NEW i \in Indices, NEW n, In(n, Filled(i)')
      PROVE  In(n, Filled(i)) \/ (i = handle /\ In(n, b))
  <2>1. CASE i = handle
    <3>1. PICK U : U = Filled(handle)'
      OBVIOUS
    <3>2. PICK x \in Seq(Nat) : Filled(handle) \o b = U \o x
      BY <1>2, <3>1 DEF Continued
    <3>3. U \in Seq(Nat)
      <4>1. PICK y \in Seq(Nat) : Content(handle)' = Content(handle) \o y
        BY <1>2 DEF Continued
      <4>2. Content(handle) \o y \in Seq(Nat)
        BY <1>2, ConcatProperties
      <4>3. Filled(handle)' = Content(handle)'
        BY <1>2
      <4> QED
        BY <3>1, <4>1, <4>2, <4>3
    <3>4. In(n, U)
      BY <1>2, <1>3, <2>1, <3>1
    <3>5. In(n, U \o x)
      BY <3>3, <3>4, InConcat
    <3>6. In(n, Filled(handle) \o b)
      BY <3>2, <3>5
    <3> QED
      BY <1>2, <2>1, <3>6, InConcat
  <2>2. CASE i # handle
    BY <1>2, <1>3, <2>2
  <2> QED
    BY <2>1, <2>2
<1>4. Once'
  <2>1. ASSUME NEW i \in Indices, NEW k \in Indices, NEW n,
               n # NL, In(n, Filled(i)'), In(n, Filled(k)')
        PROVE  i = k
    <3>1. /\ In(n, Filled(i)) \/ (i = handle /\ In(n, b))
          /\ In(n, Filled(k)) \/ (k = handle /\ In(n, b))
      BY <1>3, <2>1
    <3>2. CASE In(n, b)
      <4>1. Absent(n)
        BY <1>1, <2>1, <3>2
      <4> QED
        BY <3>1, <4>1 DEF Absent
    <3>3. CASE ~In(n, b)
      BY <2>1, <3>1, <3>3 DEF Once, Laid
    <3> QED
      BY <3>2, <3>3
  <2> QED
    BY <2>1 DEF Once
<1>5. ASSUME NEW n \in done, StaysFlushed(n) PROVE StaysFlushed(n)' /\ Stays(n)'
  <2>1. ASSUME Absent(n) PROVE Absent(n)'
    BY <1>1, <1>3, <2>1 DEF Absent
  <2>2. ASSUME NEW i \in Indices, StandsAs(n, lines[n], Content(i))
        PROVE  StandsAs(n, lines[n], Content(i)')
    <3>1. PICK x \in Seq(Nat) : Content(i)' = Content(i) \o x
      BY <1>2 DEF Continued
    <3>2. lines[n] \in Nat
      BY DoneFacts
    <3>3. StandsAs(n, lines[n], Content(i) \o x)
      BY <1>2, <2>2, <3>2, StandsGrows
    <3> QED
      BY <3>1, <3>3
  <2>3. StaysFlushed(n)'
    BY <1>5, <2>1, <2>2 DEF StaysFlushed
  <2>4. \A i \in Indices : Filled(i)' = Content(i)'
    BY <1>2
  <2>5. Stays(n)'
    BY <2>3, <2>4 DEF Stays, StaysFlushed
  <2> QED
    BY <2>3, <2>5
<1>6. PICK D \in SUBSET done : Paid(D) /\ Spared(D)
  BY DEF Laid, Damaged
<1>7. PICK E : E = D \cap safe
  OBVIOUS
<1>8. Paid(E)'
  <2>1. IsFiniteSet(D) /\ faults \in Nat
    BY DoneFacts
  <2>2. E \in SUBSET D
    BY <1>7
  <2>3. Cardinality(E) \in Nat /\ Cardinality(D) \in Nat /\ Cardinality(E) <= Cardinality(D)
    BY <2>1, <2>2, Fewer
  <2>4. PICK e \in Nat : e = Cardinality(E)
    BY <2>3
  <2>5. PICK d \in Nat : d = Cardinality(D)
    BY <2>3
  <2>6. d + (IF Torn THEN 1 ELSE 0) <= faults
    BY <1>6, <2>5 DEF Paid
  <2>7. e <= d
    BY <2>3, <2>4, <2>5
  <2>8. e + (IF Torn' THEN 1 ELSE 0) <= faults'
    BY <2>1, <2>6, <2>7
  <2> QED
    BY <2>4, <2>8 DEF Paid
<1>9. Spared(E)' /\ E \in SUBSET done'
  <2>1. \A n \in safe \ E : StaysFlushed(n) /\ n \in done
    BY <1>6, <1>7, DoneFacts DEF Spared
  <2>2. \A n \in safe \ E : StaysFlushed(n)' /\ Stays(n)'
    BY <1>5, <2>1
  <2> QED
    BY <1>7, <2>2 DEF Spared
<1>10. Damaged'
  BY <1>8, <1>9 DEF Damaged
<1>11. Pending'
  BY DEF Pending
<1> QED
  BY <1>4, <1>10, <1>11 DEF Laid

\* A line that is finished stands, unless what it was appended to is torn.
LEMMA NewlineLaid ==
  ASSUME WInv, WInv', Fresh, Laid, WriteNewline
  PROVE  Laid'
<1>1. /\ pc = "newline" /\ pc' = "idle" /\ Put(<<NL>>)
      /\ done' = done \cup {Len(lines)} /\ UNCHANGED <<handle, lines, safe, faults>>
  BY DEF WriteNewline
<1>2. PICK b \in Text : b = <<NL>>
  BY TextFacts DEF WInv
<1>3. b \in Seq(Nat) /\ Newline(b) /\ \A j \in DOMAIN b : b[j] = NL
  <2>1. b \in Seq(Nat)
    BY TextIsBytes
  <2>2. Len(<<NL>>) = 1 /\ DOMAIN <<NL>> = {1} /\ <<NL>>[1] = NL
    OBVIOUS
  <2> QED
    BY <1>2, <2>1, <2>2 DEF Newline
<1>4. Gains(b)
  BY <1>1, <1>2, PutGains
<1>5. /\ \A m : m # NL /\ In(m, b) => Absent(m)
      /\ \A m \in done : ~In(m, b)
  BY <1>3, FreshBytes
<1>6. Once'
  BY <1>4, <1>5, GainsOnce DEF Laid
<1>7. Pending'
  BY <1>1 DEF Pending
<1>8. /\ \A i \in Indices : Filled(i)' = IF i = handle THEN Filled(i) \o b ELSE Filled(i)
      /\ handle \in Indices /\ handle' = handle
  BY <1>4, FillFacts DEF Gains
<1>9. PICK T \in Seq(Nat) : T = Filled(handle)
  BY FillFacts, TextIsBytes
<1>10. Filled(handle)' = T \o b
  BY <1>8, <1>9
<1>11. PICK n : n = Len(lines)
  OBVIOUS
<1>12. lines[n] \in Nat /\ n \notin done
  BY <1>1, <1>11, SizedFacts DEF Fresh
<1>13. ~Torn'
  <2>1. ~TornAt(0, T \o b)
    BY <1>3, NotTorn
  <2> QED
    BY <1>1, <1>10, <2>1 DEF Torn, Overhang
<1>14. ASSUME ~Torn PROVE Stays(n)'
  <2>1. Ends(n, lines[n], T) /\ ~TornAt(lines[n], T)
    BY <1>1, <1>9, <1>11, <1>14 DEF Laid, Pending, Torn, Overhang
  <2>2. StandsAs(n, lines[n], T \o b)
    BY <1>3, <1>12, <2>1, StandsEnded
  <2>3. StandsAs(n, lines[n], Filled(handle)')
    BY <1>10, <2>2
  <2> QED
    BY <1>1, <1>8, <2>3 DEF Stays
<1>15. ASSUME NEW m \in done
       PROVE  (Stays(m) => Stays(m)') /\ (StaysFlushed(m) => StaysFlushed(m)')
  <2>1. lines[m] \in Nat /\ lines'[m] = lines[m] /\ ~In(m, b)
    BY <1>1, <1>5, DoneFacts
  <2> QED
    BY <1>4, <2>1, GainsStays
<1>16. PICK D \in SUBSET done : Paid(D) /\ Spared(D)
  BY DEF Laid, Damaged
<1>17. PICK E : E = IF Torn THEN D \cup {n} ELSE D
  OBVIOUS
<1>18. Paid(E)'
  <2>1. IsFiniteSet(D) /\ Cardinality(D) \in Nat /\ faults \in Nat
    BY DoneFacts
  <2>2. n \notin D
    BY <1>12
  <2>3. Cardinality(D \cup {n}) = Cardinality(D) + 1
    BY <2>1, <2>2, FS_AddElement
  <2>4. Cardinality(D) + (IF Torn THEN 1 ELSE 0) <= faults
    BY <1>16 DEF Paid
  <2>5. Cardinality(E) <= faults
    BY <1>17, <2>1, <2>3, <2>4
  <2>6. Cardinality(E) \in Nat
    BY <1>17, <2>1, <2>3
  <2>7. Cardinality(E) + (IF Torn' THEN 1 ELSE 0) <= faults'
    BY <1>1, <1>13, <2>5, <2>6
  <2> QED
    BY <2>7 DEF Paid
<1>19. Spared(E)' /\ E \in SUBSET done'
  <2>1. E \in SUBSET done'
    BY <1>1, <1>11, <1>17
  <2>2. D \subseteq E
    BY <1>17
  <2>3. ASSUME NEW m \in done' \ E PROVE Stays(m)'
    <3>1. CASE m \in done
      <4>1. Stays(m)
        BY <1>16, <2>2, <2>3, <3>1 DEF Spared
      <4> QED
        BY <1>15, <3>1, <4>1
    <3>2. CASE m \notin done
      <4>1. m = n /\ ~Torn
        BY <1>1, <1>11, <1>17, <2>3, <3>2
      <4> QED
        BY <1>14, <4>1
    <3> QED
      BY <3>1, <3>2
  <2>4. ASSUME NEW m \in safe \ E PROVE StaysFlushed(m)'
    <3>1. m \in done /\ StaysFlushed(m)
      BY <1>16, <2>2, <2>4, DoneFacts DEF Spared
    <3> QED
      BY <1>15, <3>1
  <2> QED
    BY <1>1, <2>1, <2>3, <2>4 DEF Spared
<1>20. Damaged'
  BY <1>18, <1>19 DEF Damaged
<1> QED
  BY <1>6, <1>7, <1>20 DEF Laid

LEMMA WriteLineLaid ==
  ASSUME WInv, WInv', Laid, NEW len \in Lengths, WriteLine(len)
  PROVE  Laid'
<1>1. /\ pc = "idle" /\ pc' # "newline" /\ lines' = Append(lines, len)
      /\ UNCHANGED <<files, handle, buffer, done, safe, faults>>
  BY DEF WriteLine
<1>2. \A i \in Indices : Filled(i)' = Filled(i) /\ Content(i)' = Content(i)
  BY <1>1 DEF Filled, Content
<1>3. \A n \in done : lines'[n] = lines[n]
  <2>1. lines \in Seq(Lengths) /\ done \subseteq 1..Len(lines)
    BY DEF WInv, TypeOK
  <2> QED
    BY <1>1, <2>1, AppendProperties
<1>4. Once'
  BY <1>2 DEF Laid, Once
<1>5. Pending'
  BY <1>1 DEF Pending
<1>6. Torn' => Torn
  <2>1. Filled(handle)' = Filled(handle) /\ Overhang' = 0 /\ Overhang = 0
    BY <1>1 DEF Filled, Content, Overhang
  <2> QED
    BY <2>1 DEF Torn
<1>7. \A n \in done : (Stays(n) => Stays(n)') /\ (StaysFlushed(n) => StaysFlushed(n)')
  BY <1>2, <1>3 DEF Stays, StaysFlushed, Absent
<1>8. Damaged'
  BY <1>1, <1>6, <1>7, DamagedKept DEF Laid
<1> QED
  BY <1>4, <1>5, <1>8 DEF Laid

LEMMA NoBytes == WInv => <<>> \in Text /\ \A j \in DOMAIN <<>> : FALSE
<1>1. Len(<<>>) = 0 /\ <<>> \in Seq(Nat)
  BY EmptySeq
<1>2. DOMAIN <<>> = {}
  BY <1>1
<1> QED
  BY <1>2, TextFacts DEF WInv

LEMMA LineLaid ==
  ASSUME WInv, WInv', Fresh, Laid, Rotate \/ WriteBody \/ Flush \/ Close \/ ShiftSkip
  PROVE  Laid'
<1>1. CASE Rotate \/ Flush \/ Close \/ ShiftSkip
  <2>1. /\ UNCHANGED <<handle, lines, done, faults>> /\ pc # "newline" /\ pc' # "newline"
        /\ (Flushed /\ safe' = done) \/ (UNCHANGED <<files, buffer>> /\ safe' = safe)
    BY <1>1 DEF Rotate, Flush, Close, ShiftSkip, Shifting
  <2>2. Gains(<<>>)
    BY <2>1, FlushedGains, StillGains
  <2>3. Torn' => Torn
    <3>1. Filled(handle) \o <<>> = Filled(handle) /\ handle \in Indices
      BY FillFacts, TextIsBytes, Concat
    <3>2. Filled(handle)' = Filled(handle)
      BY <2>2, <3>1 DEF Gains
    <3>3. Overhang' = 0 /\ Overhang = 0
      BY <2>1 DEF Overhang
    <3> QED
      BY <3>2, <3>3 DEF Torn
  <2>4. Pending'
    BY <2>1 DEF Pending
  <2>5. <<>> \in Text /\ \A j \in DOMAIN <<>> : FALSE
    BY NoBytes
  <2> QED
    BY <2>1, <2>2, <2>3, <2>4, <2>5, GainsLaid
<1>2. CASE WriteBody
  <2>1. /\ pc = "body" /\ pc' = "newline" /\ Put(Body)
        /\ UNCHANGED <<handle, lines, done, safe, faults>>
    BY <1>2 DEF WriteBody
  <2>2. /\ Body \in Text /\ Len(Body) = lines[Len(lines)]
        /\ \A j \in DOMAIN Body : Body[j] = Len(lines)
    BY <2>1, BodyFacts
  <2>3. Gains(Body)
    BY <2>1, <2>2, PutGains
  <2>4. PICK T \in Seq(Nat) : T = Filled(handle)
    BY FillFacts, TextIsBytes
  <2>5. Filled(handle)' = T \o Body
    BY <2>3, <2>4, FillFacts DEF Gains
  <2>6. Ends(Len(lines), Len(Body), T \o Body) /\ (TornAt(Len(Body), T \o Body) => TornAt(0, T))
    <3>1. Body \in Seq(Nat)
      BY <2>2, TextIsBytes
    <3> QED
      BY <2>2, <3>1, EndsAppended
  <2>7. Pending'
    BY <2>1, <2>2, <2>5, <2>6 DEF Pending
  <2>8. Torn' => Torn
    BY <2>1, <2>2, <2>4, <2>5, <2>6 DEF Torn, Overhang
  <2> QED
    BY <2>1, <2>2, <2>3, <2>7, <2>8, GainsLaid
<1> QED
  BY <1>1, <1>2

LEMMA FaultLaid ==
  ASSUME WInv, WInv', Fresh, Laid,
         \/ FlushFails \/ BodyFails \/ NewlineFails
         \/ RemoveFails \/ RenameFails \/ CreateFails \/ Crash
  PROVE  Laid'
<1>1. CASE Crash
  <2>1. /\ UNCHANGED <<lines, safe>> /\ pc' = "down" /\ done' = safe /\ faults' = faults + 1
    BY <1>1 DEF Crash, Fault
  <2>2. PICK b \in Text : Cuts(b) /\ \A j \in DOMAIN b : pc = "body" /\ b[j] = Len(lines)
    BY <1>1, NoBytes, CrashCuts, BodyFacts
  <2> QED
    BY <2>1, <2>2, CutsLaid
<1>2. CASE \/ FlushFails \/ BodyFails \/ NewlineFails
           \/ RemoveFails \/ RenameFails \/ CreateFails
  <2>1. /\ UNCHANGED <<handle, lines, done, safe>> /\ pc' = "idle" /\ faults' = faults + 1
    BY <1>2 DEF FlushFails, BodyFails, NewlineFails, RemoveFails, RenameFails, CreateFails,
                Fails, Fault
  <2>2. Pending'
    BY <2>1 DEF Pending
  <2>3. PICK b \in Text : Gains(b) /\ \A j \in DOMAIN b : pc = "body" /\ b[j] = Len(lines)
    <3>1. <<>> \in Text /\ \A j \in DOMAIN <<>> : FALSE
      BY NoBytes
    <3>2. CASE RemoveFails \/ RenameFails \/ CreateFails
      <4>1. UNCHANGED <<files, buffer>>
        BY <3>2 DEF RemoveFails, RenameFails, CreateFails
      <4>2. Gains(<<>>)
        BY <2>1, <4>1, StillGains
      <4> QED
        BY <3>1, <4>2
    <3>3. CASE FlushFails
      <4>1. Gains(<<>>)
        BY <2>1, <3>3, BrokenGains DEF FlushFails
      <4> QED
        BY <3>1, <4>1
    <3>4. CASE NewlineFails
      <4>1. Gains(<<>>)
        BY <2>1, <3>4, NewlineBrokenGains DEF NewlineFails
      <4> QED
        BY <3>1, <4>1
    <3>5. CASE BodyFails
      <4>1. pc = "body" /\ PutBroken(Body)
        BY <3>5 DEF BodyFails
      <4>2. Body \in Text
        BY <4>1, BodyFacts
      <4>3. PICK k \in 0..Len(Body) : SubSeq(Body, 1, k) \in Text /\ Gains(SubSeq(Body, 1, k))
        BY <2>1, <4>1, <4>2, PutBrokenGains
      <4>4. \A j \in DOMAIN SubSeq(Body, 1, k) : SubSeq(Body, 1, k)[j] = Len(lines)
        BY <4>1, BodyFacts
      <4> QED
        BY <4>1, <4>3, <4>4
    <3> QED
      BY <1>2, <3>2, <3>3, <3>4, <3>5
  <2> QED
    BY <2>1, <2>2, <2>3, GainsLaid
<1> QED
  BY <1>1, <1>2

LEMMA NoIndex == -1 \notin Indices /\ \A i \in Indices : i \in Int
BY IndexFacts

LEMMA RotationLaid ==
  ASSUME WInv, WInv', Drained, Laid, ShiftRemove \/ ShiftRename \/ Create \/ Open
  PROVE  Laid'
<1>0. -1 \notin Indices /\ handle \in Indices
  BY NoIndex, FillFacts
<1>1. CASE ShiftRemove
  <2>1. Empties(shift) /\ shift \in Indices
    BY <1>1, RemoveEmpties
  <2>2. /\ pc = "shift" /\ pc' = "shift" /\ UNCHANGED <<lines, done, safe, faults>>
    BY <1>1 DEF ShiftRemove, Shifting
  <2>3. PICK from : from = [i \in Indices |-> IF i = shift THEN -1 ELSE i]
    OBVIOUS
  <2>4. Shuffles(from)
    BY <1>0, <2>1, <2>3 DEF Shuffles, Empties
  <2>5. Torn' => Torn
    <3>1. Filled(handle)' = Filled(handle)
      BY <1>0, <2>1 DEF Empties
    <3>2. Overhang' = 0 /\ Overhang = 0
      BY <2>2 DEF Overhang
    <3> QED
      BY <3>1, <3>2 DEF Torn
  <2> QED
    BY <2>2, <2>4, <2>5, ShufflesLaid
<1>2. CASE ShiftRename
  <2>1. Renames(shift)
    BY <1>2, RenameRenames
  <2>2. /\ pc = "shift" /\ pc' = "shift" /\ UNCHANGED <<lines, done, safe, faults>>
    BY <1>2 DEF ShiftRename, Shifting
  <2>3. PICK p : p = shift - 1
    OBVIOUS
  <2>4. shift \in Indices /\ p \in Indices /\ p # shift
    <3>1. shift \in Int
      BY NoIndex DEF WInv, TypeOK
    <3> QED
      BY <2>1, <2>3, <3>1 DEF Renames
  <2>5. /\ handle' = IF handle = p THEN shift ELSE handle
        /\ handle # shift
        /\ \A i \in Indices :
             /\ Filled(i)' = IF i = shift THEN Filled(p) ELSE IF i = p THEN <<>> ELSE Filled(i)
             /\ Content(i)' = IF i = shift THEN Content(p) ELSE IF i = p THEN <<>> ELSE Content(i)
    BY <2>1, <2>3 DEF Renames
  <2>6. PICK from : from = [i \in Indices |-> IF i = shift THEN p ELSE IF i = p THEN -1 ELSE i]
    OBVIOUS
  <2>7. Shuffles(from)
    BY <1>0, <2>4, <2>5, <2>6 DEF Shuffles
  <2>8. Torn' => Torn
    <3>1. Filled(handle)' = Filled(handle)
      BY <1>0, <2>4, <2>5
    <3>2. Overhang' = 0 /\ Overhang = 0
      BY <2>2 DEF Overhang
    <3> QED
      BY <3>1, <3>2 DEF Torn
  <2> QED
    BY <2>2, <2>7, <2>8, ShufflesLaid
<1>3. CASE Create
  <2>1. /\ pc = "shift" /\ pc' = "body" /\ UNCHANGED <<lines, done, safe, faults>>
    BY <1>3 DEF Create
  <2>2. /\ 0 \in Indices /\ handle' = 0
        /\ \A i \in Indices : /\ Filled(i)' = IF i = 0 THEN <<>> ELSE Filled(i)
                              /\ Content(i)' = IF i = 0 THEN <<>> ELSE Content(i)
    BY <1>3, <2>1, CreateFill DEF Drained
  <2>3. PICK from : from = [i \in Indices |-> IF i = 0 THEN -1 ELSE i]
    OBVIOUS
  <2>4. Shuffles(from)
    BY <1>0, <2>2, <2>3 DEF Shuffles
  <2>5. ~Torn'
    <3>1. Filled(handle)' = <<>>
      BY <2>2
    <3>2. Overhang' = 0
      BY <2>1 DEF Overhang
    <3>3. ~TornAt(0, <<>>)
      BY EmptySeq DEF TornAt
    <3> QED
      BY <3>1, <3>2, <3>3 DEF Torn
  <2> QED
    BY <2>1, <2>4, <2>5, ShufflesLaid
<1>4. CASE Open
  <2>1. /\ pc = "down" /\ pc' = "idle" /\ UNCHANGED <<lines, done, safe, faults>>
    BY <1>4 DEF Open
  <2>2. /\ 0 \in Indices /\ handle' = 0
        /\ \A i \in Indices : Filled(i)' = Filled(i) /\ Content(i)' = Content(i)
    BY <1>4, <2>1, OpenFill DEF Drained
  <2>3. PICK from : from = [i \in Indices |-> i]
    OBVIOUS
  <2>4. Shuffles(from)
    BY <2>2, <2>3 DEF Shuffles
  <2>5. Torn' => Torn
    <3>1. Filled(handle)' = Filled(0)
      BY <2>2
    <3>2. Overhang' = 0 /\ Overhang = 0
      BY <2>1 DEF Overhang
    <3>3. CASE handle = 0
      BY <3>1, <3>2, <3>3 DEF Torn
    <3>4. CASE handle # 0
      <4>1. files[0] = None
        <5>1. 0 < handle
          BY <1>0, <3>4, IndexFacts
        <5> QED
          BY <2>2, <5>1 DEF WInv, OpenIsNewest
      <4>2. Filled(0) = <<>>
        BY <3>4, <4>1 DEF Filled, Content
      <4>3. ~TornAt(0, <<>>)
        BY EmptySeq DEF TornAt
      <4> QED
        BY <3>1, <3>2, <4>2, <4>3 DEF Torn
    <3> QED
      BY <3>3, <3>4
  <2> QED
    BY <2>1, <2>4, <2>5, ShufflesLaid
<1> QED
  BY <1>1, <1>2, <1>3, <1>4

LEMMA InitLaid == Init => Laid
<1> SUFFICES ASSUME Init PROVE Laid
  OBVIOUS
<1>1. /\ WInv /\ pc = "idle" /\ done = {} /\ safe = {} /\ faults = 0 /\ buffer = <<>>
      /\ files = [i \in Indices |-> IF i = 0 THEN <<>> ELSE None]
  BY InitWInv DEF Init
<1>2. \A i \in Indices : Content(i) = <<>>
  BY <1>1 DEF Content
<1>3. \A i \in Indices : Filled(i) = <<>>
  BY <1>1, <1>2, FillFacts
<1>4. Once /\ Pending
  BY <1>1, <1>3, InEmpty DEF Once, Pending
<1>5. ~Torn
  <2>1. ~TornAt(0, <<>>)
    BY EmptySeq DEF TornAt
  <2>2. Filled(handle) = <<>> /\ Overhang = 0
    BY <1>1, <1>3, FillFacts DEF Overhang
  <2> QED
    BY <2>1, <2>2 DEF Torn
<1>6. Paid({}) /\ Spared({})
  <2>1. Cardinality({}) = 0
    BY FS_EmptySet
  <2> QED
    BY <1>1, <1>5, <2>1 DEF Paid, Spared
<1>7. Damaged
  BY <1>6 DEF Damaged
<1> QED
  BY <1>4, <1>7 DEF Laid

LEMMA NextLaid == WInv /\ Sized /\ Laid /\ WInv' /\ [Next]_vars => Laid'
<1> SUFFICES ASSUME WInv, Sized, Laid, WInv', [Next]_vars PROVE Laid'
  OBVIOUS
<1>0. Fresh /\ Drained
  BY DEF Sized
<1>1. ASSUME NEW len \in Lengths, WriteLine(len) PROVE Laid'
  BY <1>1, WriteLineLaid
<1>2. CASE WriteNewline
  BY <1>0, <1>2, NewlineLaid
<1>3. CASE ShiftRemove \/ ShiftRename \/ Create \/ Open
  BY <1>0, <1>3, RotationLaid
<1>4. CASE Rotate \/ WriteBody \/ Flush \/ Close \/ ShiftSkip
  BY <1>0, <1>4, LineLaid
<1>5. CASE \/ FlushFails \/ BodyFails \/ NewlineFails
           \/ RemoveFails \/ RenameFails \/ CreateFails \/ Crash
  BY <1>0, <1>5, FaultLaid
<1>6. CASE UNCHANGED vars
  BY <1>6 DEF vars, Laid, Once, Pending, Damaged, Paid, Spared, Torn, Overhang, Stays,
              StaysFlushed, Absent, Filled, Content
<1> QED
  BY <1>1, <1>2, <1>3, <1>4, <1>5, <1>6 DEF Next

\* A flushed line outside D is gone from the log or stands in a file.
LEMMA LaidBounds ==
  ASSUME WInv, Laid
  PROVE  DamageBounded
<1>1. PICK D \in SUBSET done : Paid(D) /\ Spared(D)
  BY DEF Laid, Damaged
<1>2. ASSUME NEW n \in safe, ~Gone(n), ~Intact(n)
      PROVE  n \in D
  <2> SUFFICES ASSUME n \notin D PROVE FALSE
    OBVIOUS
  <2>1. StaysFlushed(n) /\ lines[n] \in Nat \ {0}
    BY <1>1, DoneFacts DEF Spared
  <2>2. CASE Absent(n)
    <3>1. ASSUME NEW i \in Indices PROVE ~In(n, Content(i))
      <4>1. Content(i) \in Seq(Nat) /\ Continued(Content(i), Filled(i)) /\ ~In(n, Filled(i))
        BY <2>2, FillFacts, TextIsBytes DEF Absent
      <4>2. PICK x \in Seq(Nat) : Filled(i) = Content(i) \o x
        BY <4>1 DEF Continued
      <4>3. ~In(n, Content(i) \o x)
        BY <4>1, <4>2
      <4> QED
        BY <4>1, <4>3, InConcat
    <3>2. Count(n, Kept) = 0
      BY <3>1, KeptIn
    <3> QED
      BY <1>2, <2>1, <3>2 DEF Gone
  <2>3. ASSUME NEW i \in Indices, StandsAs(n, lines[n], Content(i)) PROVE FALSE
    BY <1>2, <2>3 DEF Intact, StandsAs
  <2> QED
    BY <2>1, <2>2, <2>3 DEF StaysFlushed
<1>3. PICK damaged : damaged = {n \in safe : ~Gone(n) /\ ~Intact(n)}
  OBVIOUS
<1>4. damaged \in SUBSET D
  BY <1>2, <1>3
<1>5. IsFiniteSet(D) /\ Cardinality(D) \in Nat /\ faults \in Nat
  BY DoneFacts
<1>6. Cardinality(damaged) \in Nat /\ Cardinality(damaged) <= Cardinality(D)
  BY <1>4, <1>5, Fewer
<1>7. Cardinality(D) <= faults
  <2>1. PICK d \in Nat : d = Cardinality(D)
    BY <1>5
  <2>2. d + (IF Torn THEN 1 ELSE 0) <= faults
    BY <1>1, <2>1 DEF Paid
  <2>3. d <= faults
    BY <1>5, <2>2
  <2> QED
    BY <2>1, <2>3
<1>8. Cardinality(damaged) <= faults
  BY <1>5, <1>6, <1>7
<1> QED
  BY <1>3, <1>8 DEF DamageBounded

\* A line that was acknowledged and flushed stands as a line of its own until it
\* is shed; each crash and each failure damages at most one.
THEOREM DamageIsBounded == Spec => []DamageBounded
<1>1. Init => Sized /\ Laid
  BY InitSized, InitLaid
<1>2. WInv /\ Sized /\ Laid /\ WInv' /\ [Next]_vars => Sized' /\ Laid'
  BY NextSized, NextLaid
<1>3. WInv /\ Laid => DamageBounded
  BY LaidBounds
<1> QED
  BY <1>1, <1>2, <1>3, WriterInvariance, PTL DEF Spec
=============================================================================
