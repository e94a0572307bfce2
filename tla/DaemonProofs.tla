----------------------------- MODULE DaemonProofs ---------------------------
(***************************************************************************)
(* Proofs of the safety invariants of Daemon, for every capacity of the    *)
(* channels, every set of faults and every bound.                          *)
(***************************************************************************)
EXTENDS Daemon, SequenceTheorems, TLAPS

-----------------------------------------------------------------------------
(* Sequences of consecutive numbers *)

\* What t, l and m must satisfy if t is the trail of m records of which those
\* in l are lost.
Accounted(t, l, m) ==
  /\ t \in Seq(1..m) /\ l \subseteq 1..m
  /\ Increasing(t)
  /\ Range(t) \cup l = 1..m
  /\ Range(t) \cap l = {}
  /\ l = {} => t = Fresh(0, m)

LEMMA FreshProperties ==
  ASSUME NEW n \in Nat, NEW k \in Nat
  PROVE  /\ Fresh(n, k) \in Seq(n + 1..n + k)
         /\ Len(Fresh(n, k)) = k
         /\ \A i \in 1..k : Fresh(n, k)[i] = n + i
BY DEF Fresh

\* The next numbers, and the next after these.
LEMMA FreshConcat ==
  ASSUME NEW n \in Nat, NEW j \in Nat, NEW k \in Nat
  PROVE  Fresh(n, j) \o Fresh(n + j, k) = Fresh(n, j + k)
<1> DEFINE a == Fresh(n, j)
           b == Fresh(n + j, k)
           c == Fresh(n, j + k)
<1>1. /\ a \in Seq(Nat) /\ Len(a) = j /\ \A i \in 1..j : a[i] = n + i
      /\ b \in Seq(Nat) /\ Len(b) = k /\ \A i \in 1..k : b[i] = n + j + i
      /\ c \in Seq(Nat) /\ Len(c) = j + k /\ \A i \in 1..j + k : c[i] = n + i
  BY DEF Fresh
<1> HIDE DEF a, b, c
<1>2. /\ a \o b \in Seq(Nat) /\ Len(a \o b) = j + k
      /\ \A i \in 1..j + k : (a \o b)[i] = IF i <= j THEN a[i] ELSE b[i - j]
  BY <1>1, ConcatProperties, SMTT(60)
<1>3. \A i \in 1..j + k : (a \o b)[i] = c[i]
  <2> SUFFICES ASSUME NEW i \in 1..j + k PROVE (a \o b)[i] = c[i]
    OBVIOUS
  <2>1. CASE i <= j
    BY <1>1, <1>2, <2>1
  <2>2. CASE i > j
    <3>1. i - j \in 1..k
      BY <2>2
    <3> QED
      BY <1>1, <1>2, <2>2, <3>1, SMTT(60)
  <2>3. i <= j \/ i > j
    OBVIOUS
  <2> QED
    BY <2>1, <2>2, <2>3
<1>4. a \o b = c
  BY <1>1, <1>2, <1>3, SeqEqual
<1> QED
  BY <1>4 DEF a, b, c

\* The next numbers without the first.
LEMMA FreshTail ==
  ASSUME NEW n \in Nat, NEW k \in Nat, k > 0
  PROVE  Tail(Fresh(n, k)) = Fresh(n + 1, k - 1)
<1>1. /\ Fresh(n, k) \in Seq(Nat) /\ Len(Fresh(n, k)) = k
      /\ \A i \in 1..k : Fresh(n, k)[i] = n + i
      /\ Fresh(n + 1, k - 1) \in Seq(Nat) /\ Len(Fresh(n + 1, k - 1)) = k - 1
      /\ \A i \in 1..k - 1 : Fresh(n + 1, k - 1)[i] = n + 1 + i
  BY DEF Fresh
<1>2. Fresh(n, k) # <<>>
  BY <1>1
<1>3. /\ Tail(Fresh(n, k)) \in Seq(Nat) /\ Len(Tail(Fresh(n, k))) = k - 1
      /\ \A i \in 1..k - 1 : Tail(Fresh(n, k))[i] = Fresh(n, k)[i + 1]
  BY <1>1, <1>2, HeadTailProperties
<1>4. \A i \in 1..k - 1 : Tail(Fresh(n, k))[i] = Fresh(n + 1, k - 1)[i]
  BY <1>1, <1>3
<1> QED
  BY <1>1, <1>3, <1>4, SeqEqual

LEMMA HeadTail ==
  ASSUME NEW S, NEW p \in Seq(S), p # <<>>
  PROVE  <<Head(p)>> \o Tail(p) = p
<1> DEFINE h == <<Head(p)>>
<1>1. Head(p) \in S /\ Tail(p) \in Seq(S) /\ h \in Seq(S)
  BY HeadTailProperties
<1>2. Len(h) = 1 /\ h[1] = p[1] /\ Len(p) \in Nat \ {0}
  BY EmptySeq
<1>3. /\ h \o Tail(p) \in Seq(S) /\ Len(h \o Tail(p)) = Len(p)
      /\ \A i \in 1..Len(p) :
           (h \o Tail(p))[i] = IF i <= 1 THEN h[i] ELSE Tail(p)[i - 1]
  BY <1>1, <1>2, ConcatProperties, HeadTailProperties
<1>4. \A i \in 1..Len(p) : (h \o Tail(p))[i] = p[i]
  <2> SUFFICES ASSUME NEW i \in 1..Len(p) PROVE (h \o Tail(p))[i] = p[i]
    OBVIOUS
  <2>1. CASE i = 1
    BY <1>2, <1>3, <2>1
  <2>2. CASE i > 1
    <3>1. i - 1 \in 1..Len(Tail(p)) /\ Tail(p)[i - 1] = p[i]
      BY <1>2, <2>2, HeadTailProperties
    <3> QED
      BY <1>3, <2>2, <3>1
  <2> QED
    BY <2>1, <2>2
<1> QED
  BY <1>3, <1>4, SeqEqual

\* Moving the head of a sequence to the end of the one before it.
LEMMA MoveHead ==
  ASSUME NEW S, NEW r \in Seq(S), NEW p \in Seq(S), p # <<>>
  PROVE  Append(r, Head(p)) \o Tail(p) = r \o p
<1>1. Head(p) \in S /\ Tail(p) \in Seq(S) /\ <<Head(p)>> \in Seq(S)
  BY HeadTailProperties
<1>2. Append(r, Head(p)) = r \o <<Head(p)>>
  BY <1>1, AppendIsConcat
<1>3. (r \o <<Head(p)>>) \o Tail(p) = r \o (<<Head(p)>> \o Tail(p))
  BY <1>1, ConcatAssociative
<1> QED
  BY <1>2, <1>3, HeadTail

\* The same after a prefix.
LEMMA MoveAfter ==
  ASSUME NEW S, NEW r \in Seq(S), NEW p \in Seq(S), p # <<>>, NEW x \in Seq(S)
  PROVE  (x \o Append(r, Head(p))) \o Tail(p) = (x \o r) \o p
<1>1. Head(p) \in S /\ Tail(p) \in Seq(S)
  BY HeadTailProperties
<1>2. Append(r, Head(p)) \in Seq(S)
  BY <1>1, AppendProperties
<1>3. \A q \in Seq(S) : (x \o q) \o Tail(p) = x \o (q \o Tail(p))
  BY <1>1, ConcatAssociative, SMTT(60)
<1>4. (x \o Append(r, Head(p))) \o Tail(p) = x \o (Append(r, Head(p)) \o Tail(p))
  BY <1>2, <1>3
<1>5. (x \o r) \o p = x \o (r \o p)
  BY ConcatAssociative
<1> QED
  BY <1>4, <1>5, MoveHead

LEMMA HeadAfter ==
  ASSUME NEW S, NEW x \in Seq(S), NEW p \in Seq(S), p # <<>>
  PROVE  (x \o <<Head(p)>>) \o Tail(p) = x \o p
<1>1. Head(p) \in S /\ Tail(p) \in Seq(S) /\ <<Head(p)>> \in Seq(S)
  BY HeadTailProperties
<1>2. (x \o <<Head(p)>>) \o Tail(p) = x \o (<<Head(p)>> \o Tail(p))
  BY <1>1, ConcatAssociative
<1> QED
  BY <1>2, HeadTail

LEMMA TailConcat ==
  ASSUME NEW S, NEW s \in Seq(S), NEW t \in Seq(S), s # <<>>
  PROVE  Tail(s \o t) = Tail(s) \o t
<1> DEFINE n == Len(s)
           k == Len(t)
<1>1. n \in Nat \ {0} /\ k \in Nat
  BY EmptySeq, LenProperties
<1>2. /\ s \o t \in Seq(S) /\ Len(s \o t) = n + k
      /\ \A i \in 1..n + k : (s \o t)[i] = IF i <= n THEN s[i] ELSE t[i - n]
  BY ConcatProperties
<1>3. s \o t # <<>>
  BY <1>1, <1>2, EmptySeq
<1>4. /\ Tail(s) \in Seq(S) /\ Len(Tail(s)) = n - 1
      /\ \A i \in 1..n - 1 : Tail(s)[i] = s[i + 1]
  BY HeadTailProperties
<1>5. /\ Tail(s \o t) \in Seq(S) /\ Len(Tail(s \o t)) = n + k - 1
      /\ \A i \in 1..n + k - 1 : Tail(s \o t)[i] = (s \o t)[i + 1]
  BY <1>2, <1>3, HeadTailProperties
<1>6. /\ Tail(s) \o t \in Seq(S) /\ Len(Tail(s) \o t) = (n - 1) + k
      /\ \A i \in 1..(n - 1) + k :
           (Tail(s) \o t)[i] = IF i <= n - 1 THEN Tail(s)[i] ELSE t[i - (n - 1)]
  BY <1>4, ConcatProperties
<1> HIDE DEF n, k
<1>7. ASSUME NEW i \in 1..n + k - 1 PROVE Tail(s \o t)[i] = (Tail(s) \o t)[i]
  <2>1. i + 1 \in 1..n + k /\ i \in 1..(n - 1) + k
    BY <1>1
  <2>2. CASE i <= n - 1
    BY <1>1, <1>2, <1>4, <1>5, <1>6, <2>1, <2>2
  <2>3. CASE ~(i <= n - 1)
    <3>1. ~(i + 1 <= n) /\ (i + 1) - n = i - (n - 1)
      BY <1>1, <2>3
    <3> QED
      BY <1>2, <1>5, <1>6, <2>1, <2>3, <3>1
  <2> QED
    BY <2>2, <2>3
<1>8. n + k - 1 = (n - 1) + k
  BY <1>1
<1> QED
  BY <1>5, <1>6, <1>7, <1>8, SeqEqual

\* New records at the end of the trail.
LEMMA AccountedGrows ==
  ASSUME NEW t, NEW l, NEW m \in Nat, NEW k \in Nat, Accounted(t, l, m)
  PROVE  Accounted(t \o Fresh(m, k), l, m + k)
<1> DEFINE f == Fresh(m, k)
           u == t \o f
<1>1. f \in Seq(m + 1..m + k) /\ Len(f) = k /\ \A i \in 1..k : f[i] = m + i
  BY FreshProperties
<1>2. /\ t \in Seq(1..m) /\ Len(t) \in Nat /\ DOMAIN t = 1..Len(t)
      /\ \A i \in 1..Len(t) : t[i] \in 1..m
  BY LenProperties, ElementOfSeq DEF Accounted
<1>3. t \in Seq(1..m + k) /\ f \in Seq(1..m + k)
  <2>1. 1..m \subseteq 1..m + k /\ m + 1..m + k \subseteq 1..m + k
    OBVIOUS
  <2> QED
    BY <1>1, <1>2, <2>1, SeqMonotonic
<1> HIDE DEF f
<1>4. /\ u \in Seq(1..m + k) /\ Len(u) = Len(t) + k /\ DOMAIN u = 1..Len(t) + k
      /\ \A i \in 1..Len(t) + k : u[i] = IF i <= Len(t) THEN t[i] ELSE f[i - Len(t)]
  <2>1. /\ u \in Seq(1..m + k) /\ Len(u) = Len(t) + Len(f)
        /\ \A i \in 1..Len(t) + Len(f) :
             u[i] = IF i <= Len(t) THEN t[i] ELSE f[i - Len(t)]
    BY <1>3, ConcatProperties
  <2> QED
    BY <1>1, <2>1, LenProperties
<1>5. Range(f) = m + 1..m + k
  <2>1. DOMAIN f = 1..k /\ \A i \in 1..k : f[i] \in m + 1..m + k
    BY <1>1, LenProperties
  <2>2. \A y \in m + 1..m + k : y - m \in 1..k /\ f[y - m] = y
    BY <1>1
  <2> QED
    BY <1>1, <2>1, <2>2, ZenonT(60) DEF Range
<1>6. Range(u) = Range(t) \cup Range(f)
  BY <1>3, RangeConcatenation
<1>7. Range(t) \cup l = 1..m /\ Range(t) \cap l = {}
  BY DEF Accounted
<1> HIDE DEF u
<1>8. Range(u) \cup l = 1..m + k /\ Range(u) \cap l = {} /\ l \subseteq 1..m + k
  BY <1>5, <1>6, <1>7
<1>9. Increasing(u)
  <2> SUFFICES ASSUME NEW i \in 1..Len(t) + k, NEW j \in 1..Len(t) + k, i < j
               PROVE  u[i] < u[j]
    BY <1>4 DEF Increasing
  <2>1. CASE j <= Len(t)
    <3>1. i \in DOMAIN t /\ j \in DOMAIN t
      BY <1>2, <2>1
    <3> QED
      BY <1>2, <1>4, <2>1, <3>1 DEF Accounted, Increasing
  <2>2. CASE i <= Len(t) /\ j > Len(t)
    <3>1. j - Len(t) \in 1..k /\ u[j] = m + (j - Len(t)) /\ u[i] = t[i] /\ t[i] \in 1..m
      BY <1>1, <1>2, <1>4, <2>2, SMTT(60)
    <3> QED
      BY <3>1
  <2>3. CASE i > Len(t)
    <3>1. i - Len(t) \in 1..k /\ j - Len(t) \in 1..k /\ j > Len(t)
      BY <1>2, <2>3
    <3>2. u[i] = f[i - Len(t)] /\ u[j] = f[j - Len(t)]
      BY <1>2, <1>4, <2>3, <3>1
    <3>3. u[i] = m + (i - Len(t)) /\ u[j] = m + (j - Len(t))
      BY <1>1, <3>1, <3>2
    <3> QED
      BY <1>2, <3>3
  <2> QED
    BY <1>2, <2>1, <2>2, <2>3
<1>10. l = {} => u = Fresh(0, m + k)
  <2>1. Fresh(0, m) \o Fresh(0 + m, k) = Fresh(0, m + k)
    BY FreshConcat
  <2>2. 0 + m = m
    OBVIOUS
  <2> QED
    BY <2>1, <2>2 DEF Accounted, u, f
<1>11. Accounted(u, l, m + k)
  BY <1>4, <1>8, <1>9, <1>10 DEF Accounted
<1> QED
  BY <1>11 DEF u, f

\* Records lost from the middle of the trail.
LEMMA AccountedDrops ==
  ASSUME NEW m \in Nat, NEW l, NEW a \in Seq(1..m), NEW b \in Seq(1..m),
         NEW c \in Seq(1..m), Accounted((a \o b) \o c, l, m)
  PROVE  Accounted(a \o c, l \cup Range(b), m)
<1> DEFINE t == (a \o b) \o c
           u == a \o c
           A == Len(a)
           B == Len(b)
           C == Len(c)
<1>1. /\ A \in Nat /\ B \in Nat /\ C \in Nat
      /\ DOMAIN a = 1..A /\ DOMAIN b = 1..B /\ DOMAIN c = 1..C
  BY LenProperties
<1>2. /\ a \o b \in Seq(1..m) /\ Len(a \o b) = A + B
      /\ \A i \in 1..A + B : (a \o b)[i] = IF i <= A THEN a[i] ELSE b[i - A]
  BY ConcatProperties
<1>3. /\ t \in Seq(1..m) /\ Len(t) = A + B + C /\ DOMAIN t = 1..A + B + C
      /\ \A i \in 1..A + B + C :
           t[i] = IF i <= A + B THEN (a \o b)[i] ELSE c[i - (A + B)]
  <2>1. /\ t \in Seq(1..m) /\ Len(t) = (A + B) + C
        /\ \A i \in 1..(A + B) + C :
             t[i] = IF i <= A + B THEN (a \o b)[i] ELSE c[i - (A + B)]
    BY <1>2, ConcatProperties
  <2> QED
    BY <1>1, <2>1, LenProperties
<1>4. /\ u \in Seq(1..m) /\ Len(u) = A + C /\ DOMAIN u = 1..A + C
      /\ \A i \in 1..A + C : u[i] = IF i <= A THEN a[i] ELSE c[i - A]
  BY ConcatProperties, LenProperties
<1>5. /\ Range(a \o b) = Range(a) \cup Range(b)
      /\ Range(t) = Range(a) \cup Range(b) \cup Range(c)
      /\ Range(u) = Range(a) \cup Range(c)
  <2>1. Range(a \o b) = Range(a) \cup Range(b)
    BY RangeConcatenation
  <2>2. Range((a \o b) \o c) = Range(a \o b) \cup Range(c)
    BY <1>2, RangeConcatenation, ZenonT(60)
  <2>3. Range(a \o c) = Range(a) \cup Range(c)
    BY RangeConcatenation
  <2> QED
    BY <2>1, <2>2, <2>3
<1>6. Range(b) \subseteq 1..m
  BY RangeOfSeq
<1>7. /\ \A i, j \in 1..A + B + C : i < j => t[i] < t[j]
      /\ Range(t) \cup l = 1..m /\ Range(t) \cap l = {} /\ l \subseteq 1..m
      /\ l = {} => t = Fresh(0, m)
  BY <1>3 DEF Accounted, Increasing
<1> HIDE DEF t, u, A, B, C
<1>8. /\ \A i \in 1..A : t[i] = a[i]
      /\ \A i \in 1..B : t[A + i] = b[i]
      /\ \A i \in 1..C : t[A + B + i] = c[i]
  <2>1. ASSUME NEW i \in 1..A PROVE t[i] = a[i]
    <3>1. i \in 1..A + B /\ i \in 1..A + B + C /\ i <= A /\ i <= A + B
      BY <1>1
    <3> QED
      BY <1>2, <1>3, <3>1
  <2>2. ASSUME NEW i \in 1..B PROVE t[A + i] = b[i]
    <3>1. /\ A + i \in 1..A + B /\ A + i \in 1..A + B + C
          /\ ~(A + i <= A) /\ A + i <= A + B /\ (A + i) - A = i
      BY <1>1
    <3>2. t[A + i] = (a \o b)[A + i] /\ (a \o b)[A + i] = b[(A + i) - A]
      BY <1>2, <1>3, <3>1
    <3> QED
      BY <3>1, <3>2
  <2>3. ASSUME NEW i \in 1..C PROVE t[A + B + i] = c[i]
    <3>1. /\ A + B + i \in 1..A + B + C /\ ~(A + B + i <= A + B)
          /\ (A + B + i) - (A + B) = i
      BY <1>1
    <3>2. t[A + B + i] = c[(A + B + i) - (A + B)]
      BY <1>3, <3>1
    <3> QED
      BY <3>1, <3>2
  <2> QED
    BY <2>1, <2>2, <2>3
<1>9. \A i \in 1..A + B + C : t[i] \in Int
  BY <1>3, ElementOfSeq
<1>10. Increasing(u)
  <2> DEFINE f(i) == IF i <= A THEN i ELSE i + B
  <2>1. \A i \in 1..A + C : f(i) \in 1..A + B + C /\ u[i] = t[f(i)]
    <3> SUFFICES ASSUME NEW i \in 1..A + C
                 PROVE  f(i) \in 1..A + B + C /\ u[i] = t[f(i)]
      OBVIOUS
    <3>1. CASE i <= A
      BY <1>1, <1>4, <1>8, <3>1
    <3>2. CASE i > A
      <4>1. i - A \in 1..C /\ A + B + (i - A) = i + B
        BY <1>1, <3>2
      <4>2. u[i] = c[i - A] /\ f(i) = i + B /\ i + B \in 1..A + B + C
        BY <1>1, <1>4, <3>2, SMTT(60)
      <4> QED
        BY <1>8, <4>1, <4>2
    <3> QED
      BY <1>1, <3>1, <3>2
  <2>2. \A i, j \in 1..A + C : i < j => f(i) < f(j)
    BY <1>1
  <2> HIDE DEF f
  <2> QED
    BY <1>4, <1>7, <2>1, <2>2 DEF Increasing
<1>11. Range(b) \cap Range(u) = {}
  <2> SUFFICES ASSUME NEW i \in 1..B, b[i] \in Range(a) \cup Range(c)
               PROVE  FALSE
    BY <1>1, <1>5 DEF Range
  <2>1. A + i \in 1..A + B + C /\ t[A + i] = b[i]
    BY <1>1, <1>8
  <2>2. CASE b[i] \in Range(a)
    <3>1. PICK j \in 1..A : a[j] = b[i]
      BY <1>1, <2>2 DEF Range
    <3>2. j \in 1..A + B + C /\ j < A + i /\ t[j] = a[j]
      BY <1>1, <1>8
    <3> QED
      BY <1>7, <1>9, <2>1, <3>1, <3>2
  <2>3. CASE b[i] \in Range(c)
    <3>1. PICK j \in 1..C : c[j] = b[i]
      BY <1>1, <2>3 DEF Range
    <3>2. A + B + j \in 1..A + B + C /\ A + i < A + B + j /\ t[A + B + j] = c[j]
      BY <1>1, <1>8, SMTT(60)
    <3> QED
      BY <1>7, <1>9, <2>1, <3>1, <3>2
  <2> QED
    BY <2>2, <2>3
<1>12. /\ Range(u) \cup (l \cup Range(b)) = 1..m
       /\ Range(u) \cap (l \cup Range(b)) = {}
       /\ l \cup Range(b) \subseteq 1..m
  BY <1>5, <1>6, <1>7, <1>11
<1>13. l \cup Range(b) = {} => u = Fresh(0, m)
  <2> SUFFICES ASSUME l = {}, Range(b) = {} PROVE u = t
    BY <1>7
  <2>1. B = 0
    <3> SUFFICES ASSUME B # 0 PROVE FALSE
      OBVIOUS
    <3>1. 1 \in DOMAIN b
      BY <1>1
    <3> QED
      BY <3>1 DEF Range
  <2>2. b = <<>>
    BY <2>1, EmptySeq DEF B
  <2> QED
    BY <2>2, ConcatEmptySeq DEF u, t
<1> QED
  BY <1>4, <1>10, <1>12, <1>13 DEF Accounted, u
-----------------------------------------------------------------------------
(* The inductive invariant *)

\* Whether what happened excuses main from waiting, a stage from closing in its
\* turn, and the pipeline from delivering everything.
Forced == blame \cap {"timeout", "signal_error"} # {}
Broken == blame \cap {"engine_panic", "output_panic", "timeout", "signal_error"} # {}
Excused == blame \ {"recv_error", "hang"} # {}

\* Whether ingest may have been cut off with samples to send.
CutOff == blame \cap {"ingest_panic", "signal_error"} # {}

\* What a task or a channel holds at the places where it holds nothing.
Emptied ==
  /\ ingest \in {"select", "done"} => todo = <<>>
  /\ engine \in {"tick", "select", "done"} => pending = <<>>
  /\ engine = "done" => sampleQ = <<>>
  /\ output \in {"sync", "drop"} => engine = "done" /\ recordQ = <<>>
  /\ output = "done" => recordQ = <<>> /\ buffer = <<>>

Stopped == ingest = "done" /\ engine = "done" /\ output = "done"

\* Main goes on from one join to the next, or to the end with a cause.
MainInOrder ==
  /\ main = "draining" => ingest = "done"
  /\ main = "dropping" => Stopped \/ Forced
  /\ main = "dropping" => ingest = "done" \/ CutOff
  /\ main = "exited" => Stopped

\* The stages close in their turn ...
InTurn ==
  \/ Broken
  \/ /\ output \in {"sync", "drop", "done"} => engine = "done" /\ recordQ = <<>>
     /\ engine = "done" => ingest = "done" /\ sampleQ = <<>> /\ todo = <<>>

\* ... and nothing is lost, without an excuse.
NothingLost ==
  \/ Excused
  \/ lost = {} /\ evaluated + Len(sampleQ) + Len(todo) = decoded

\* The samples that are somewhere.
SamplesCounted == evaluated + Len(sampleQ) + Len(todo) <= decoded

DInv == /\ TypeOK /\ Emptied /\ MainInOrder /\ InTurn /\ NothingLost
        /\ SamplesCounted /\ SamplesInOrder
        /\ Accounted(Trail, lost, made)

LEMMA InitDInv == Init => DInv
<1> SUFFICES ASSUME Init PROVE DInv
  OBVIOUS
<1>1. TypeOK
  <2>1. <<>> \in Seq(1..0) /\ Len(<<>>) = 0
    BY EmptySeq
  <2>2. 0 \in 0..MaxSamples /\ 0 \in 0..MaxRecords /\ 0 \in 0..0
    BY BoundAssumption
  <2>3. Len(<<>>) <= SAMPLE_QUEUE /\ Len(<<>>) <= RECORD_QUEUE
    BY <2>1, QueueAssumption
  <2> QED
    BY <2>1, <2>2, <2>3 DEF Init, TypeOK
<1>2. Emptied /\ MainInOrder /\ InTurn
  BY DEF Init, Emptied, MainInOrder, InTurn
<1>3. NothingLost /\ SamplesCounted
  BY DEF Init, NothingLost, SamplesCounted
<1>4. Fresh(0, 0) = <<>>
  BY DEF Fresh
<1>5. Trail = <<>>
  BY DEF Init, Trail
<1>6. Accounted(Trail, lost, made)
  BY <1>4, <1>5 DEF Init, Accounted, Increasing, Range
<1>7. SamplesInOrder
  BY <1>4 DEF Init, SamplesInOrder
<1> QED
  BY <1>1, <1>2, <1>3, <1>6, <1>7 DEF DInv

LEMMA Excuses == (Forced => Broken) /\ (Broken => Excused)
BY DEF Forced, Broken, Excused

\* Nothing that happened is forgotten.
LEMMA BlameGrows ==
  blame \subseteq blame'
    => /\ (Forced => Forced') /\ (Broken => Broken') /\ (Excused => Excused')
       /\ (CutOff => CutOff')
BY DEF Forced, Broken, Excused, CutOff

\* What a step that leaves them alone keeps.
LEMMA RecordsKept ==
  DInv /\ UNCHANGED <<disk, buffer, recordQ, pending, lost, made>>
    => Accounted(Trail, lost, made)'
BY DEF DInv, Trail

LEMMA SamplesKept ==
  ASSUME DInv, UNCHANGED <<sampleQ, todo, evaluated, decoded>>,
         engine = "done" => engine' = "done", ingest = "done" => ingest' = "done",
         blame \subseteq blame'
  PROVE  SamplesInOrder' /\ SamplesCounted'
<1>1. SamplesInOrder /\ SamplesCounted
  BY DEF DInv
<1>2. SamplesCounted'
  BY <1>1 DEF SamplesCounted
<1>3. SamplesInOrder'
  BY <1>1, BlameGrows DEF SamplesInOrder, CutOff
<1> QED
  BY <1>2, <1>3
-----------------------------------------------------------------------------
(* ingest *)

LEMMA IngestRecvStep == DInv /\ IngestRecv => DInv'
<1> SUFFICES ASSUME DInv, IngestRecv PROVE DInv'
  OBVIOUS
<1> USE DEF IngestRecv, engineVars, outputVars
<1>1. PICK k \in 1..MaxBatch : /\ decoded + k <= MaxSamples /\ todo' = Fresh(decoded, k)
                              /\ decoded' = decoded + k
  OBVIOUS
<1>2. /\ decoded \in Nat /\ k \in Nat /\ todo = <<>> /\ evaluated \in 0..decoded
      /\ sampleQ \in Seq(1..decoded) /\ Len(sampleQ) \in Nat
  BY BoundAssumption DEF DInv, TypeOK, Emptied
<1>3. /\ todo' \in Seq(decoded + 1..decoded + k) /\ Len(todo') = k
  BY <1>1, <1>2, FreshProperties
<1>4. /\ 1..decoded \subseteq 1..decoded + k
      /\ decoded + 1..decoded + k \subseteq 1..decoded + k
  BY <1>2
<1>5. sampleQ' \in Seq(1..decoded') /\ todo' \in Seq(1..decoded')
  BY <1>1, <1>2, <1>3, <1>4, SeqMonotonic
<1>6. TypeOK'
  BY <1>1, <1>2, <1>5 DEF DInv, TypeOK
<1>7. Emptied' /\ MainInOrder' /\ InTurn'
  BY BlameGrows DEF DInv, Emptied, MainInOrder, Stopped, InTurn
<1>8. NothingLost' /\ SamplesCounted'
  <2>1. /\ Len(todo) = 0 /\ Len(todo') = k /\ decoded' = decoded + k
        /\ sampleQ' = sampleQ /\ evaluated' = evaluated /\ blame \subseteq blame'
    BY <1>1, <1>2, <1>3
  <2>2. SamplesCounted'
    BY <1>2, <2>1 DEF DInv, SamplesCounted
  <2>3. NothingLost'
    BY <1>2, <2>1, BlameGrows, SMTT(60) DEF DInv, NothingLost
  <2> QED
    BY <2>2, <2>3
<1>9. SamplesInOrder'
  <2> SUFFICES ASSUME engine # "done"
               PROVE  /\ sampleQ \o todo' = Fresh(evaluated, (decoded + k) - evaluated)
                      /\ Len(sampleQ \o todo') = (decoded + k) - evaluated
    BY <1>1 DEF SamplesInOrder
  <2>1. sampleQ \o todo = Fresh(evaluated, decoded - evaluated)
    BY DEF DInv, SamplesInOrder
  <2>2. sampleQ \o todo = sampleQ
    BY <1>2, ConcatEmptySeq
  <2>3. /\ decoded - evaluated \in Nat /\ evaluated \in Nat
        /\ evaluated + (decoded - evaluated) = decoded
        /\ (decoded - evaluated) + k = (decoded + k) - evaluated
    BY <1>2
  <2>4. Fresh(evaluated, decoded - evaluated) \o Fresh(evaluated + (decoded - evaluated), k)
          = Fresh(evaluated, (decoded - evaluated) + k)
    BY <1>2, <2>3, FreshConcat
  <2>5. sampleQ \o todo' = Fresh(evaluated, (decoded + k) - evaluated)
    BY <1>1, <2>1, <2>2, <2>3, <2>4
  <2>6. (decoded + k) - evaluated \in Nat
    BY <1>2, <2>3
  <2>7. Len(Fresh(evaluated, (decoded + k) - evaluated)) = (decoded + k) - evaluated
    BY <2>3, <2>6, FreshProperties
  <2> QED
    BY <2>5, <2>7
<1>10. Accounted(Trail, lost, made)'
  BY RecordsKept
<1> QED
  BY <1>6, <1>7, <1>8, <1>9, <1>10 DEF DInv

LEMMA IngestSendStep == DInv /\ IngestSend => DInv'
<1> SUFFICES ASSUME DInv, IngestSend PROVE DInv'
  OBVIOUS
<1> USE DEF IngestSend, engineVars, outputVars
<1>1. /\ todo \in Seq(1..decoded) /\ todo # <<>> /\ sampleQ \in Seq(1..decoded)
      /\ decoded \in Nat /\ evaluated \in Nat /\ SAMPLE_QUEUE \in Nat
      /\ Len(sampleQ) <= SAMPLE_QUEUE
  BY QueueAssumption DEF DInv, TypeOK
<1>2. /\ Head(todo) \in 1..decoded /\ Tail(todo) \in Seq(1..decoded)
      /\ Len(Tail(todo)) = Len(todo) - 1 /\ Len(todo) \in Nat /\ Len(sampleQ) \in Nat
  BY <1>1, HeadTailProperties
<1>3. /\ Append(sampleQ, Head(todo)) \in Seq(1..decoded)
      /\ Len(Append(sampleQ, Head(todo))) = Len(sampleQ) + 1
  BY <1>1, <1>2, AppendProperties
<1>4. Accounted(Trail, lost, made)'
  BY RecordsKept
<1>5. CASE engine = "done"
  <2>1. TypeOK'
    BY <1>1, <1>5 DEF DInv, TypeOK
  <2>2. Emptied' /\ MainInOrder' /\ InTurn' /\ Broken
    BY <1>5, BlameGrows DEF DInv, Emptied, MainInOrder, Stopped, InTurn
  <2>3. NothingLost'
    BY <2>2, Excuses, BlameGrows DEF NothingLost
  <2>4. SamplesCounted' /\ SamplesInOrder'
    BY <1>1, <1>2, <1>5 DEF DInv, SamplesCounted, SamplesInOrder
  <2> QED
    BY <1>4, <2>1, <2>2, <2>3, <2>4 DEF DInv
<1>6. CASE engine # "done"
  <2>6. Len(sampleQ) < SAMPLE_QUEUE => Len(sampleQ) + 1 <= SAMPLE_QUEUE
    BY <1>1, <1>2
  <2>5. /\ sampleQ' = Append(sampleQ, Head(todo)) /\ todo' = Tail(todo)
        /\ Len(sampleQ') = Len(sampleQ) + 1 /\ Len(todo') = Len(todo) - 1
        /\ Len(sampleQ') <= SAMPLE_QUEUE
        /\ sampleQ' \in Seq(1..decoded) /\ todo' \in Seq(1..decoded)
        /\ decoded' = decoded /\ evaluated' = evaluated /\ blame' = blame /\ lost' = lost
    BY <1>2, <1>3, <1>6, <2>6
  <2>1. TypeOK'
    BY <1>6, <2>5 DEF DInv, TypeOK
  <2>2. Emptied' /\ MainInOrder' /\ InTurn'
    BY <1>6, BlameGrows DEF DInv, Emptied, MainInOrder, Stopped, InTurn
  <2>3. NothingLost' /\ SamplesCounted'
    <3>1. Len(sampleQ') + Len(todo') = Len(sampleQ) + Len(todo)
      BY <1>2, <2>5
    <3>2. evaluated' + Len(sampleQ') + Len(todo') = evaluated + Len(sampleQ) + Len(todo)
      BY <1>1, <1>2, <2>5, <3>1
    <3>3. SamplesCounted'
      BY <2>5, <3>2 DEF DInv, SamplesCounted
    <3>4. NothingLost'
      BY <2>5, <3>2, BlameGrows DEF DInv, NothingLost
    <3> QED
      BY <3>3, <3>4
  <2>4. SamplesInOrder'
    <3>1. Append(sampleQ, Head(todo)) \o Tail(todo) = sampleQ \o todo
      BY <1>1, MoveHead
    <3> QED
      BY <1>6, <2>5, <3>1 DEF DInv, SamplesInOrder
  <2> QED
    BY <1>4, <2>1, <2>2, <2>3, <2>4 DEF DInv
<1> QED
  BY <1>5, <1>6

LEMMA IngestStep == DInv /\ Ingest => DInv'
<1> SUFFICES ASSUME DInv, IngestSent \/ IngestStop \/ IngestRecvError PROVE DInv'
  BY IngestRecvStep, IngestSendStep DEF Ingest
<1> USE DEF IngestSent, IngestStop, IngestRecvError, engineVars, outputVars
<1>1. TypeOK'
  BY ZenonT(60) DEF DInv, TypeOK, AllFaults
<1>2. Emptied' /\ MainInOrder' /\ InTurn'
  BY BlameGrows DEF DInv, Emptied, MainInOrder, Stopped, InTurn
<1>3. NothingLost'
  BY BlameGrows DEF DInv, NothingLost
<1> QED
  BY <1>1, <1>2, <1>3, RecordsKept, SamplesKept DEF DInv
-----------------------------------------------------------------------------
(* The engine task *)

\* The trail up to the record channel.
Sent == disk \o buffer \o recordQ

LEMMA TrailTypes ==
  DInv => /\ made \in Nat /\ Sent \in Seq(1..made) /\ disk \o buffer \in Seq(1..made)
          /\ disk \in Seq(1..made) /\ buffer \in Seq(1..made)
          /\ recordQ \in Seq(1..made) /\ pending \in Seq(1..made)
          /\ Trail = Sent \o pending /\ Accounted(Sent \o pending, lost, made)
<1> SUFFICES ASSUME DInv PROVE
         /\ made \in Nat /\ Sent \in Seq(1..made) /\ disk \o buffer \in Seq(1..made)
         /\ disk \in Seq(1..made) /\ buffer \in Seq(1..made)
         /\ recordQ \in Seq(1..made) /\ pending \in Seq(1..made)
         /\ Trail = Sent \o pending /\ Accounted(Sent \o pending, lost, made)
  OBVIOUS
<1>1. /\ made \in Nat /\ disk \in Seq(1..made) /\ buffer \in Seq(1..made)
      /\ recordQ \in Seq(1..made) /\ pending \in Seq(1..made)
  BY BoundAssumption DEF DInv, TypeOK
<1>2. disk \o buffer \in Seq(1..made)
  BY <1>1, ConcatProperties
<1>3. Sent \in Seq(1..made)
  BY <1>1, <1>2, ConcatProperties DEF Sent
<1>4. Trail = Sent \o pending /\ Accounted(Sent \o pending, lost, made)
  BY DEF DInv, Trail, Sent
<1> QED
  BY <1>1, <1>2, <1>3, <1>4

\* The records of a report are the next ones.
LEMMA ReportStep ==
  ASSUME DInv, pending = <<>>, UNCHANGED <<disk, buffer, recordQ, lost>>,
         NEW emit, Report(emit)
  PROVE  /\ Accounted(Trail, lost, made)'
         /\ made' \in 0..MaxRecords /\ lost \subseteq 1..made'
         /\ disk \in Seq(1..made') /\ buffer \in Seq(1..made')
         /\ recordQ \in Seq(1..made') /\ pending' \in Seq(1..made')
<1>1. PICK k \in 0..MaxBatch : /\ made + k <= MaxRecords /\ pending' = Fresh(made, k)
                              /\ made' = made + k
  BY DEF Report
<1>2. k \in Nat /\ made \in Nat /\ MaxRecords \in Nat
  BY BoundAssumption, TrailTypes
<1>3. Sent \o pending = Sent
  BY TrailTypes, ConcatEmptySeq
<1>4. Accounted(Sent \o Fresh(made, k), lost, made + k)
  BY <1>2, <1>3, TrailTypes, AccountedGrows
<1>5. Trail' = Sent \o Fresh(made, k)
  BY <1>1 DEF Trail, Sent
<1>6. Accounted(Trail, lost, made)'
  BY <1>1, <1>4, <1>5
<1>7. /\ 1..made \subseteq 1..made + k /\ made + 1..made + k \subseteq 1..made + k
      /\ made + k \in 0..MaxRecords
  BY <1>1, <1>2
<1>8. pending' \in Seq(1..made')
  BY <1>1, <1>2, <1>7, FreshProperties, SeqMonotonic, ZenonT(60)
<1>9. /\ disk \in Seq(1..made') /\ buffer \in Seq(1..made')
      /\ recordQ \in Seq(1..made')
  BY <1>1, <1>7, TrailTypes, SeqMonotonic
<1>10. lost \subseteq 1..made'
  BY <1>1, <1>7 DEF DInv, TypeOK
<1> QED
  BY <1>1, <1>6, <1>7, <1>8, <1>9, <1>10

LEMMA EngineTickStep == DInv /\ EngineTick => DInv'
<1> SUFFICES ASSUME DInv, EngineTick PROVE DInv'
  OBVIOUS
<1> USE DEF EngineTick, ingestVars, outputVars
<1>1. pending = <<>>
  BY DEF DInv, Emptied
<1>2. /\ Accounted(Trail, lost, made)'
      /\ made' \in 0..MaxRecords /\ lost \subseteq 1..made'
      /\ disk \in Seq(1..made') /\ buffer \in Seq(1..made')
      /\ recordQ \in Seq(1..made') /\ pending' \in Seq(1..made')
  BY <1>1, ReportStep
<1>3. engine' = "emit_tick"
  BY DEF Report
<1>4. TypeOK'
  BY <1>2, <1>3 DEF DInv, TypeOK
<1>5. Emptied' /\ MainInOrder' /\ InTurn'
  BY <1>3, BlameGrows DEF DInv, Emptied, MainInOrder, Stopped, InTurn
<1>6. NothingLost'
  BY BlameGrows DEF DInv, NothingLost
<1> QED
  BY <1>2, <1>3, <1>4, <1>5, <1>6, SamplesKept DEF DInv

LEMMA EngineRecvStep == DInv /\ EngineRecv => DInv'
<1> SUFFICES ASSUME DInv, EngineRecv PROVE DInv'
  OBVIOUS
<1> USE DEF EngineRecv, ingestVars, outputVars
<1>1. pending = <<>>
  BY DEF DInv, Emptied
<1>2. /\ Accounted(Trail, lost, made)'
      /\ made' \in 0..MaxRecords /\ lost \subseteq 1..made'
      /\ disk \in Seq(1..made') /\ buffer \in Seq(1..made')
      /\ recordQ \in Seq(1..made') /\ pending' \in Seq(1..made')
  BY <1>1, ReportStep
<1>3. engine' = "emit_sample"
  BY DEF Report
<1>4. /\ sampleQ \in Seq(1..decoded) /\ todo \in Seq(1..decoded) /\ Len(todo) \in Nat
      /\ decoded \in Nat /\ evaluated \in Nat /\ SAMPLE_QUEUE \in Nat
      /\ Len(sampleQ) <= SAMPLE_QUEUE
  BY BoundAssumption, QueueAssumption DEF DInv, TypeOK
<1>5. /\ sampleQ' \in Seq(1..decoded) /\ Len(sampleQ') = Len(sampleQ) - 1
      /\ Len(sampleQ) \in Nat \ {0}
  BY <1>4, HeadTailProperties, EmptySeq
<1>6. evaluated' + Len(sampleQ') + Len(todo') = evaluated + Len(sampleQ) + Len(todo)
  BY <1>4, <1>5
<1>7. SamplesCounted'
  BY <1>6 DEF DInv, SamplesCounted
<1>8. evaluated' \in 0..decoded /\ Len(sampleQ') <= SAMPLE_QUEUE
  BY <1>4, <1>5 DEF DInv, SamplesCounted
<1>9. TypeOK'
  BY <1>2, <1>3, <1>5, <1>8 DEF DInv, TypeOK
<1>10. Emptied' /\ MainInOrder' /\ InTurn'
  BY <1>3, BlameGrows DEF DInv, Emptied, MainInOrder, Stopped, InTurn
<1>11. NothingLost'
  BY <1>6, BlameGrows DEF DInv, NothingLost
<1>12. SamplesInOrder'
  <2> DEFINE rest == sampleQ \o todo
             n == Len(sampleQ) + Len(todo)
  <2>1. rest \in Seq(1..decoded) /\ Len(rest) = n /\ n \in Nat /\ n > 0
    BY <1>4, <1>5, ConcatProperties
  <2>2. /\ rest = Fresh(evaluated, n)
        /\ n = decoded - evaluated \/ (ingest = "done" /\ CutOff)
    BY <2>1 DEF DInv, SamplesInOrder, CutOff
  <2>3. Tail(Fresh(evaluated, n)) = Fresh(evaluated + 1, n - 1)
    BY <1>4, <2>1, FreshTail
  <2>4. Tail(rest) = Tail(sampleQ) \o todo
    BY <1>4, TailConcat
  <2>5. sampleQ' \o todo' = Fresh(evaluated', n - 1)
    BY <2>2, <2>3, <2>4
  <2>6. Len(sampleQ' \o todo') = n - 1
    BY <1>4, <2>1, <2>5, FreshProperties
  <2>7. n = decoded - evaluated => n - 1 = decoded' - evaluated'
    BY <1>4
  <2>8. ingest' = ingest /\ CutOff' = CutOff
    BY DEF CutOff
  <2> QED
    BY <2>2, <2>5, <2>6, <2>7, <2>8 DEF SamplesInOrder, CutOff
<1> QED
  BY <1>2, <1>7, <1>9, <1>10, <1>11, <1>12 DEF DInv

LEMMA EngineEmitStep == DInv /\ EngineEmit => DInv'
<1> SUFFICES ASSUME DInv, EngineEmit PROVE DInv'
  OBVIOUS
<1> USE DEF EngineEmit, ingestVars, outputVars
<1> DEFINE h == Head(pending)
<1>1. /\ pending # <<>> /\ engine # "done"
      /\ h \in 1..made /\ pending' \in Seq(1..made) /\ pending' = Tail(pending)
      /\ <<h>> \in Seq(1..made) /\ Range(<<h>>) = {h}
  <2>1. Range(<<h>>) = {h}
    BY DEF Range
  <2>2. pending # <<>> /\ engine # "done" /\ pending' = Tail(pending)
    OBVIOUS
  <2>3. pending \in Seq(1..made)
    BY TrailTypes
  <2>4. h \in 1..made /\ Tail(pending) \in Seq(1..made)
    BY <2>2, <2>3, HeadTailProperties
  <2> QED
    BY <2>1, <2>2, <2>4
<1>2. SamplesInOrder' /\ SamplesCounted'
  BY SamplesKept
<1>3. CASE output = "done"
  <2>1. (Sent \o <<h>>) \o pending' = Sent \o pending
    BY <1>1, TrailTypes, HeadAfter
  <2>2. Accounted(Sent \o pending', lost \cup Range(<<h>>), made)
    BY <1>1, <2>1, TrailTypes, AccountedDrops
  <2>3. Trail' = Sent \o pending' /\ lost' = lost \cup {h} /\ made' = made
    BY <1>3 DEF Trail, Sent
  <2>4. Accounted(Trail, lost, made)'
    BY <1>1, <2>2, <2>3
  <2>5. TypeOK'
    BY <1>1, <1>3 DEF DInv, TypeOK
  <2>6. Emptied' /\ MainInOrder' /\ InTurn' /\ Broken
    BY <1>1, <1>3, BlameGrows DEF DInv, Emptied, MainInOrder, Stopped, InTurn
  <2>7. NothingLost'
    BY <2>6, Excuses, BlameGrows DEF NothingLost
  <2> QED
    BY <1>2, <2>4, <2>5, <2>6, <2>7 DEF DInv
<1>4. CASE output # "done"
  <2>1. recordQ' = Append(recordQ, h) /\ lost' = lost /\ made' = made
    BY <1>4
  <2>2. /\ recordQ' \in Seq(1..made) /\ Len(recordQ') <= RECORD_QUEUE
    <3>1. Len(recordQ) \in Nat /\ RECORD_QUEUE \in Nat /\ Len(recordQ) < RECORD_QUEUE
      BY <1>4, TrailTypes, LenProperties, QueueAssumption
    <3>2. Len(recordQ) + 1 <= RECORD_QUEUE
      BY <3>1
    <3> QED
      BY <1>1, <2>1, <3>2, TrailTypes, AppendProperties
  <2>3. Trail' = Sent \o pending
    <3> DEFINE S == 1..made
    <3>1. recordQ \in Seq(S) /\ pending \in Seq(S) /\ pending # <<>>
      BY <1>1, TrailTypes
    <3>4. disk \o buffer \in Seq(S)
      BY TrailTypes
    <3> HIDE DEF S, h, EngineEmit, ingestVars, outputVars
    <3>2. \A x \in Seq(S) : (x \o Append(recordQ, Head(pending))) \o Tail(pending)
                             = (x \o recordQ) \o pending
      BY <3>1, MoveAfter
    <3>3. ((disk \o buffer) \o Append(recordQ, Head(pending))) \o Tail(pending)
            = ((disk \o buffer) \o recordQ) \o pending
      BY <3>2, <3>4
    <3> QED
      BY <1>1, <2>1, <3>3 DEF Trail, Sent, EngineEmit, outputVars, h
  <2>4. Accounted(Trail, lost, made)'
    BY <2>1, <2>3, TrailTypes
  <2>5. TypeOK'
    BY <1>1, <2>1, <2>2 DEF DInv, TypeOK
  <2>6. Emptied' /\ MainInOrder' /\ InTurn'
    BY <1>1, <1>4, BlameGrows DEF DInv, Emptied, MainInOrder, Stopped, InTurn
  <2>7. NothingLost'
    BY <2>1, BlameGrows DEF DInv, NothingLost
  <2> QED
    BY <1>2, <2>4, <2>5, <2>6, <2>7 DEF DInv
<1> QED
  BY <1>3, <1>4

LEMMA EngineStep == DInv /\ Engine => DInv'
<1> SUFFICES ASSUME DInv, EngineEmitted \/ EngineWake \/ EngineClosed PROVE DInv'
  BY EngineTickStep, EngineEmitStep, EngineRecvStep DEF Engine
<1> USE DEF EngineEmitted, EngineWake, EngineClosed, ingestVars, outputVars
<1>1. TypeOK'
  BY ZenonT(60) DEF DInv, TypeOK
<1>2. Emptied' /\ MainInOrder' /\ InTurn'
  BY BlameGrows DEF DInv, Emptied, MainInOrder, Stopped, InTurn
<1>3. NothingLost'
  BY BlameGrows DEF DInv, NothingLost
<1> QED
  BY <1>1, <1>2, <1>3, RecordsKept, SamplesKept DEF DInv
-----------------------------------------------------------------------------
(* The output thread *)

\* Records lost further inside the trail.
LEMMA DropsInside ==
  ASSUME NEW m \in Nat, NEW l, NEW S, S = 1..m,
         NEW x \in Seq(S), NEW b \in Seq(S), NEW y \in Seq(S), NEW z \in Seq(S),
         Accounted(((x \o b) \o y) \o z, l, m)
  PROVE  Accounted((x \o y) \o z, l \cup Range(b), m)
<1>1. x \o b \in Seq(S) /\ y \o z \in Seq(S)
  BY ConcatProperties
<1>2. ((x \o b) \o y) \o z = (x \o b) \o (y \o z)
  BY <1>1, ConcatAssociative, SMTT(60)
<1>3. (x \o y) \o z = x \o (y \o z)
  BY ConcatAssociative, SMTT(60)
<1>4. x \in Seq(1..m) /\ b \in Seq(1..m) /\ y \o z \in Seq(1..m)
  BY <1>1
<1>5. Accounted((x \o b) \o (y \o z), l, m)
  BY <1>2
<1>6. Accounted(x \o (y \o z), l \cup Range(b), m)
  BY <1>4, <1>5, AccountedDrops
<1> QED
  BY <1>3, <1>6

\* What is in the buffer reaches the disk.
LEMMA FlushedTrail ==
  ASSUME DInv, disk' = disk \o buffer, buffer' = <<>>,
         UNCHANGED <<recordQ, pending, lost, made>>
  PROVE  Accounted(Trail, lost, made)' /\ disk' \in Seq(1..made) /\ buffer' \in Seq(1..made)
<1>1. disk' \in Seq(1..made) /\ buffer' \in Seq(1..made)
  BY TrailTypes, EmptySeq
<1>2. disk' \o buffer' = disk \o buffer
  BY <1>1, ConcatEmptySeq
<1>3. Accounted(Trail, lost, made)
  BY DEF DInv
<1> QED
  BY <1>1, <1>2, <1>3 DEF Trail

\* The buffer is lost.
LEMMA DroppedTrail ==
  ASSUME DInv, buffer' = <<>>, lost' = lost \cup Range(buffer),
         UNCHANGED <<disk, recordQ, pending, made>>
  PROVE  Accounted(Trail, lost, made)' /\ buffer' \in Seq(1..made)
<1>1. /\ disk \in Seq(1..made) /\ buffer \in Seq(1..made) /\ recordQ \in Seq(1..made)
      /\ pending \in Seq(1..made) /\ made \in Nat
  BY TrailTypes
<1>2. Accounted(((disk \o buffer) \o recordQ) \o pending, lost, made)
  BY DEF DInv, Trail
<1>3. Accounted((disk \o recordQ) \o pending, lost \cup Range(buffer), made)
  BY <1>1, <1>2, DropsInside
<1>4. disk' \o buffer' = disk
  BY <1>1, ConcatEmptySeq
<1>5. buffer' \in Seq(1..made)
  BY EmptySeq
<1> QED
  BY <1>3, <1>4, <1>5 DEF Trail

LEMMA OutputWriteStep == DInv /\ OutputWrite => DInv'
<1> SUFFICES ASSUME DInv, OutputWrite PROVE DInv'
  OBVIOUS
<1> USE DEF OutputWrite, ingestVars, engineVars
<1> DEFINE h == Head(recordQ)
<1>1. recordQ # <<>> /\ recordQ' = Tail(recordQ) /\ UNCHANGED <<pending, made>>
  OBVIOUS
<1>2. /\ disk \in Seq(1..made) /\ buffer \in Seq(1..made) /\ recordQ \in Seq(1..made)
      /\ pending \in Seq(1..made) /\ disk \o buffer \in Seq(1..made) /\ made \in Nat
  BY TrailTypes
<1>3. /\ h \in 1..made /\ Tail(recordQ) \in Seq(1..made) /\ <<h>> \in Seq(1..made)
      /\ Len(Tail(recordQ)) = Len(recordQ) - 1 /\ Len(recordQ) \in Nat
  BY <1>1, <1>2, HeadTailProperties, LenProperties
<1>4. Len(recordQ') <= RECORD_QUEUE
  BY <1>1, <1>3, QueueAssumption DEF DInv, TypeOK
<1>5. Accounted(((disk \o buffer) \o recordQ) \o pending, lost, made)
  BY DEF DInv, Trail
<1>6. /\ Accounted(Trail, lost, made)'
      /\ disk' \in Seq(1..made) /\ buffer' \in Seq(1..made)
      /\ blame \subseteq blame' /\ blame' \subseteq blame \cup {"write_error"}
      /\ lost' = lost \/ Excused'
  <2>1. CASE buffer' = Append(buffer, h) /\ UNCHANGED <<disk, lost, blame>>
    <3>1. (disk \o Append(buffer, h)) \o Tail(recordQ) = (disk \o buffer) \o recordQ
      <4> DEFINE S == 1..made
      <4>1. disk \in Seq(S) /\ buffer \in Seq(S) /\ recordQ \in Seq(S)
        BY <1>2
      <4> HIDE DEF S, OutputWrite, engineVars, ingestVars
      <4> QED
        BY <1>1, <4>1, MoveAfter
    <3>2. Append(buffer, h) \in Seq(1..made)
      BY <1>2, <1>3, AppendProperties
    <3> QED
      BY <1>1, <1>2, <1>5, <2>1, <3>1, <3>2 DEF Trail
  <2>2. CASE disk' = disk \o buffer /\ buffer' = <<h>> /\ UNCHANGED <<lost, blame>>
    <3>1. ((disk \o buffer) \o <<h>>) \o Tail(recordQ) = (disk \o buffer) \o recordQ
      BY <1>1, <1>2, HeadAfter
    <3> QED
      BY <1>1, <1>2, <1>3, <1>5, <2>2, <3>1 DEF Trail
  <2>3. CASE /\ lost' = lost \cup {h} /\ blame' = blame \cup {"write_error"}
             /\ UNCHANGED <<buffer, disk>>
    <3>1. ((disk \o buffer) \o <<h>>) \o Tail(recordQ) = (disk \o buffer) \o recordQ
      BY <1>1, <1>2, HeadAfter
    <3>2. Accounted((((disk \o buffer) \o <<h>>) \o Tail(recordQ)) \o pending, lost, made)
      BY <1>5, <3>1
    <3>3. Accounted(((disk \o buffer) \o Tail(recordQ)) \o pending,
                    lost \cup Range(<<h>>), made)
      BY <1>2, <1>3, <3>2, DropsInside
    <3>4. Range(<<h>>) = {h}
      BY DEF Range
    <3>5. Excused'
      <4>1. "write_error" \in blame' \ {"recv_error", "hang"}
        BY <2>3
      <4> QED
        BY <4>1 DEF Excused
    <3> QED
      BY <1>1, <1>2, <2>3, <3>3, <3>4, <3>5 DEF Trail
  <2> QED
    BY <2>1, <2>2, <2>3
<1>7. TypeOK'
  BY <1>1, <1>3, <1>4, <1>6 DEF DInv, TypeOK, AllFaults, Accounted
<1>8. Emptied' /\ MainInOrder' /\ InTurn'
  BY <1>1, <1>6, BlameGrows DEF DInv, Emptied, MainInOrder, Stopped, InTurn
<1>9. NothingLost'
  BY <1>6, BlameGrows DEF DInv, NothingLost
<1> QED
  BY <1>6, <1>7, <1>8, <1>9, SamplesKept DEF DInv

LEMMA OutputStep == DInv /\ Output => DInv'
<1> SUFFICES ASSUME DInv, OutputFlush \/ OutputClosed \/ OutputSync \/ OutputDrop
             PROVE  DInv'
  BY OutputWriteStep DEF Output
<1> USE DEF OutputFlush, OutputClosed, OutputSync, OutputDrop, Flushed, ingestVars, engineVars
<1>1. UNCHANGED <<recordQ, pending, made>>
  OBVIOUS
<1>2. /\ Accounted(Trail, lost, made)'
      /\ disk' \in Seq(1..made) /\ buffer' \in Seq(1..made)
      /\ blame \subseteq blame' /\ blame' \subseteq blame \cup {"flush_error"}
      /\ lost' = lost \/ Excused'
  <2>1. CASE disk' = disk \o buffer /\ buffer' = <<>> /\ UNCHANGED <<lost, blame>>
    BY <1>1, <2>1, FlushedTrail
  <2>2. CASE UNCHANGED <<disk, buffer, lost>> /\ blame' = blame \cup {"flush_error"}
    BY <1>1, <2>2, RecordsKept, TrailTypes
  <2>3. CASE UNCHANGED <<disk, buffer, lost, blame>>
    BY <1>1, <2>3, RecordsKept, TrailTypes
  <2>4. CASE /\ lost' = lost \cup Range(buffer) /\ blame' = blame \cup {"flush_error"}
             /\ UNCHANGED disk /\ buffer' = <<>>
    <3>1. Excused'
      <4>1. "flush_error" \in blame' \ {"recv_error", "hang"}
        BY <2>4
      <4> QED
        BY <4>1 DEF Excused
    <3> QED
      BY <1>1, <2>4, <3>1, DroppedTrail, TrailTypes
  <2> QED
    BY <2>1, <2>2, <2>3, <2>4
<1>3. TypeOK'
  BY <1>1, <1>2, ZenonT(60) DEF DInv, TypeOK, AllFaults, Accounted
<1>4. Emptied' /\ MainInOrder' /\ InTurn'
  BY <1>1, <1>2, BlameGrows DEF DInv, Emptied, MainInOrder, Stopped, InTurn
<1>5. NothingLost'
  BY <1>2, BlameGrows DEF DInv, NothingLost
<1> QED
  BY <1>2, <1>3, <1>4, <1>5, SamplesKept DEF DInv
-----------------------------------------------------------------------------
(* main, and what may go wrong *)

\* The engine task is gone, for a reason that excuses it.
LEMMA EngineGoneStep ==
  ASSUME DInv, EngineGone, Broken',
         UNCHANGED <<main, stop, ingestVars, evaluated, made, recordQ, outputVars, hung>>,
         blame \subseteq blame', blame' \subseteq AllFaults \cup {"timeout"}
  PROVE  DInv'
<1> USE DEF EngineGone, ingestVars, outputVars
<1>1. /\ Sent \in Seq(1..made) /\ pending \in Seq(1..made) /\ made \in Nat
      /\ <<>> \in Seq(1..made) /\ Len(<<>>) = 0 /\ Sent' = Sent
      /\ Accounted(Sent \o pending, lost, made)
  BY TrailTypes, EmptySeq DEF Sent
<1>2. Sent \o pending \in Seq(1..made)
  BY <1>1 DEF Accounted
<1>3. (Sent \o pending) \o <<>> = Sent \o pending
  BY <1>2, ConcatEmptySeq
<1>4. Accounted(Sent \o <<>>, lost \cup Range(pending), made)
  BY <1>1, <1>3, AccountedDrops
<1>5. Accounted(Trail, lost, made)'
  BY <1>1, <1>4 DEF Trail, Sent
<1>6. TypeOK'
  <2>1. <<>> \in Seq(1..decoded) /\ 0 <= SAMPLE_QUEUE
    BY EmptySeq, QueueAssumption
  <2> QED
    BY <1>1, <1>5, <2>1 DEF DInv, TypeOK, Accounted
<1>7. Emptied' /\ MainInOrder' /\ InTurn'
  BY BlameGrows DEF DInv, Emptied, MainInOrder, Stopped, InTurn
<1>8. NothingLost'
  BY Excuses DEF NothingLost, Broken, Excused
<1>9. SamplesInOrder' /\ SamplesCounted'
  <2>1. Len(sampleQ') = 0 /\ Len(sampleQ) \in Nat /\ Len(todo) \in Nat
        /\ decoded \in Nat /\ evaluated \in Nat
    BY <1>1, BoundAssumption DEF DInv, TypeOK
  <2> QED
    BY <2>1 DEF DInv, SamplesInOrder, SamplesCounted
<1> QED
  BY <1>5, <1>6, <1>7, <1>8, <1>9 DEF DInv

\* Ingest is gone, with the samples it was sending.
LEMMA IngestGoneStep ==
  ASSUME DInv, ingest' = "done", todo' = <<>>, CutOff',
         UNCHANGED <<main, stop, decoded, sampleQ, engineVars, recordQ, outputVars,
                     lost, hung>>,
         blame \subseteq blame', blame' \subseteq AllFaults \cup {"timeout"}
  PROVE  DInv'
<1> USE DEF engineVars, outputVars
<1>1. <<>> \in Seq(1..decoded) /\ Len(<<>>) = 0
  BY EmptySeq
<1>2. TypeOK'
  BY <1>1 DEF DInv, TypeOK
<1>3. Emptied' /\ MainInOrder' /\ InTurn'
  BY BlameGrows DEF DInv, Emptied, MainInOrder, Stopped, InTurn
<1>4. NothingLost'
  BY Excuses DEF NothingLost, CutOff, Excused
<1>5. SamplesCounted'
  <2>1. Len(todo') = 0 /\ Len(sampleQ) \in Nat /\ Len(todo) \in Nat
        /\ decoded \in Nat /\ evaluated \in Nat
    BY <1>1, BoundAssumption DEF DInv, TypeOK
  <2> QED
    BY <2>1 DEF DInv, SamplesCounted
<1>6. SamplesInOrder'
  <2> SUFFICES ASSUME engine # "done"
               PROVE  sampleQ \o <<>> = Fresh(evaluated, Len(sampleQ \o <<>>))
    BY DEF SamplesInOrder, CutOff
  <2>1. /\ sampleQ \in Seq(1..decoded) /\ todo \in Seq(1..decoded)
        /\ evaluated \in Nat
    BY BoundAssumption DEF DInv, TypeOK
  <2>2. /\ sampleQ \o todo = Fresh(evaluated, Len(sampleQ \o todo))
        /\ Len(sampleQ \o todo) = Len(sampleQ) + Len(todo)
        /\ \A i \in 1..Len(sampleQ) : (sampleQ \o todo)[i] = sampleQ[i]
    BY <2>1, ConcatProperties DEF DInv, SamplesInOrder
  <2>3. /\ Len(sampleQ) \in Nat /\ Len(sampleQ) + Len(todo) \in Nat
        /\ \A i \in 1..Len(sampleQ) : i \in 1..Len(sampleQ) + Len(todo)
    BY <2>1
  <2>4. \A i \in 1..Len(sampleQ) : sampleQ[i] = evaluated + i
    BY <2>1, <2>2, <2>3, FreshProperties
  <2>5. sampleQ = Fresh(evaluated, Len(sampleQ))
    <3>1. /\ Fresh(evaluated, Len(sampleQ)) \in Seq(Int)
          /\ Len(Fresh(evaluated, Len(sampleQ))) = Len(sampleQ)
          /\ \A i \in 1..Len(sampleQ) : Fresh(evaluated, Len(sampleQ))[i] = evaluated + i
      BY <2>1, <2>3 DEF Fresh
    <3>2. sampleQ \in Seq(Int)
      BY <2>1, BoundAssumption, SeqMonotonic DEF DInv, TypeOK
    <3> QED
      BY <2>4, <3>1, <3>2, SeqEqual
  <2> QED
    BY <2>1, <2>5, ConcatEmptySeq
<1> QED
  BY <1>2, <1>3, <1>4, <1>5, <1>6, RecordsKept DEF DInv

LEMMA MainStep == DInv /\ Main => DInv'
<1> SUFFICES ASSUME DInv, Main PROVE DInv'
  OBVIOUS
<1>1. CASE Signal \/ SignalError \/ IngestJoined \/ Drained \/ DrainTimeout \/ Exit
  <2> USE <1>1 DEF Signal, SignalError, IngestJoined, Drained, DrainTimeout, Exit,
                   ingestVars, engineVars, outputVars
  <2>1. TypeOK'
    BY ZenonT(60) DEF DInv, TypeOK, AllFaults
  <2>2. /\ blame \subseteq blame' /\ (SignalError \/ DrainTimeout => Forced')
        /\ (SignalError => CutOff')
    <3>1. SignalError => "signal_error" \in blame' \cap {"timeout", "signal_error"}
      OBVIOUS
    <3>2. DrainTimeout => "timeout" \in blame' \cap {"timeout", "signal_error"}
      OBVIOUS
    <3>3. SignalError => "signal_error" \in blame' \cap {"ingest_panic", "signal_error"}
      OBVIOUS
    <3> QED
      BY <3>1, <3>2, <3>3 DEF Forced, CutOff
  <2>3. Emptied' /\ MainInOrder' /\ InTurn'
    BY <2>2, BlameGrows DEF DInv, Emptied, MainInOrder, Stopped, InTurn
  <2>4. NothingLost'
    BY <2>2, BlameGrows DEF DInv, NothingLost
  <2> QED
    BY <2>1, <2>3, <2>4, RecordsKept, SamplesKept DEF DInv
<1>2. CASE CancelIngest
  <2>1. CutOff
    BY <1>2 DEF CancelIngest, DInv, MainInOrder
  <2>2. CutOff' /\ UNCHANGED blame
    BY <1>2, <2>1 DEF CancelIngest, CutOff
  <2>3. blame' \subseteq AllFaults \cup {"timeout"}
    BY <2>2 DEF DInv, TypeOK
  <2> QED
    BY <1>2, <2>2, <2>3, IngestGoneStep DEF CancelIngest
<1>3. CASE CancelEngine
  <2>1. Forced
    BY <1>3 DEF CancelEngine, DInv, MainInOrder, Stopped
  <2>2. Broken' /\ UNCHANGED blame
    BY <1>3, <2>1, Excuses, BlameGrows DEF CancelEngine
  <2>3. blame' \subseteq AllFaults \cup {"timeout"}
    BY <2>2 DEF DInv, TypeOK
  <2> QED
    BY <1>3, <2>2, <2>3, EngineGoneStep DEF CancelEngine
<1> QED
  BY <1>1, <1>2, <1>3 DEF Main

LEMMA OutputPanicStep == DInv /\ OutputPanic => DInv'
<1> SUFFICES ASSUME DInv, OutputPanic PROVE DInv'
  OBVIOUS
<1> USE DEF OutputPanic, ingestVars, engineVars
<1>1. /\ disk \in Seq(1..made) /\ buffer \in Seq(1..made) /\ recordQ \in Seq(1..made)
      /\ pending \in Seq(1..made) /\ disk \o buffer \in Seq(1..made) /\ made \in Nat
      /\ Accounted(((disk \o buffer) \o recordQ) \o pending, lost, made)
  BY TrailTypes DEF DInv, Trail
<1>2. /\ output' = "done" /\ recordQ' = <<>> /\ buffer' = <<>> /\ UNCHANGED <<pending, made>>
      /\ blame' = blame \cup {"output_panic"}
  OBVIOUS
<1>3. <<>> \in Seq(1..made) /\ Len(<<>>) = 0
  BY EmptySeq
<1>4. Accounted((disk \o buffer) \o pending, lost \cup Range(recordQ), made)
  BY <1>1, AccountedDrops
<1>5. Accounted(Trail, lost, made)' /\ disk' \in Seq(1..made)
  <2>1. CASE disk' = disk \o buffer /\ lost' = lost \cup Range(recordQ)
    <3>1. ((disk \o buffer) \o <<>>) \o <<>> = disk \o buffer
      BY <1>1, ConcatEmptySeq
    <3> QED
      BY <1>1, <1>2, <1>4, <2>1, <3>1 DEF Trail
  <2>2. CASE disk' = disk /\ lost' = lost \cup Range(recordQ) \cup Range(buffer)
    <3>1. (disk \o <<>>) \o <<>> = disk
      BY <1>1, ConcatEmptySeq
    <3>2. Accounted(disk \o pending, (lost \cup Range(recordQ)) \cup Range(buffer), made)
      BY <1>1, <1>4, AccountedDrops
    <3> QED
      BY <1>1, <1>2, <2>2, <3>1, <3>2 DEF Trail
  <2> QED
    BY <2>1, <2>2
<1>6. Broken'
  <2>1. "output_panic"
          \in blame' \cap {"engine_panic", "output_panic", "timeout", "signal_error"}
    BY <1>2
  <2> QED
    BY <2>1 DEF Broken
<1>7. TypeOK'
  <2>1. 0 <= RECORD_QUEUE
    BY QueueAssumption
  <2> QED
    BY <1>2, <1>3, <1>5, <2>1 DEF DInv, TypeOK, Accounted, AllFaults
<1>8. Emptied' /\ MainInOrder' /\ InTurn'
  BY <1>2, <1>6, BlameGrows DEF DInv, Emptied, MainInOrder, Stopped, InTurn
<1>9. NothingLost'
  BY <1>6, Excuses DEF NothingLost, Broken, Excused
<1> QED
  BY <1>5, <1>7, <1>8, <1>9, SamplesKept DEF DInv

LEMMA FaultStep == DInv /\ Fault => DInv'
<1> SUFFICES ASSUME DInv, Fault PROVE DInv'
  OBVIOUS
<1>1. CASE IngestPanic
  <2> USE <1>1 DEF IngestPanic
  <2>1. blame \subseteq blame' /\ blame' \subseteq AllFaults \cup {"timeout"}
    BY DEF DInv, TypeOK, AllFaults
  <2>2. "ingest_panic" \in blame' \cap {"ingest_panic", "signal_error"}
    OBVIOUS
  <2>3. CutOff'
    BY <2>2 DEF CutOff
  <2> QED
    BY <2>1, <2>3, IngestGoneStep
<1>2. CASE EnginePanic
  <2> USE <1>2 DEF EnginePanic
  <2>1. blame \subseteq blame' /\ blame' \subseteq AllFaults \cup {"timeout"}
    BY DEF DInv, TypeOK, AllFaults
  <2>2. "engine_panic"
          \in blame' \cap {"engine_panic", "output_panic", "timeout", "signal_error"}
    OBVIOUS
  <2>3. Broken'
    BY <2>2 DEF Broken
  <2> QED
    BY <2>1, <2>3, EngineGoneStep
<1>3. CASE Hang \/ Recover
  <2> USE <1>3 DEF Hang, Recover, ingestVars, engineVars, outputVars
  <2>1. TypeOK' /\ blame \subseteq blame'
    BY ZenonT(60) DEF DInv, TypeOK, AllFaults
  <2>2. Emptied' /\ MainInOrder' /\ InTurn' /\ NothingLost'
    BY <2>1, BlameGrows DEF DInv, Emptied, MainInOrder, Stopped, InTurn, NothingLost
  <2> QED
    BY <2>1, <2>2, RecordsKept, SamplesKept DEF DInv
<1> QED
  BY <1>1, <1>2, <1>3, OutputPanicStep DEF Fault

LEMMA NextDInv == DInv /\ [Next]_vars => DInv'
<1> SUFFICES ASSUME DInv, UNCHANGED vars PROVE DInv'
  BY IngestStep, EngineStep, OutputStep, MainStep, FaultStep DEF Next, Exited
<1> USE DEF vars, ingestVars, engineVars, outputVars
<1>1. TypeOK'
  BY DEF DInv, TypeOK
<1>2. Emptied' /\ MainInOrder' /\ InTurn' /\ NothingLost'
  BY BlameGrows DEF DInv, Emptied, MainInOrder, Stopped, InTurn, NothingLost
<1> QED
  BY <1>1, <1>2, RecordsKept, SamplesKept DEF DInv
-----------------------------------------------------------------------------
(* The theorems *)

\* DInv holds in every state of the daemon.
THEOREM DaemonInvariance == Spec => []DInv
<1> QED
  BY InitDInv, NextDInv, PTL DEF Spec

\* The channels never hold more than their capacity, and every field keeps its
\* type (the bounded channels of main.rs).
THEOREM TypesAndCapacities == Spec => []TypeOK
<1>1. DInv => TypeOK
  BY DEF DInv
<1> QED
  BY <1>1, DaemonInvariance, PTL

\* Whatever fails and whenever the process is stopped, the records on the disk
\* and on their way to it are in the order the engine made them, none twice, and
\* every other record is accounted for as lost.
THEOREM RecordsAreAccounted == Spec => []RecordsAccounted
<1>1. DInv => RecordsAccounted
  BY DEF DInv, Accounted, RecordsAccounted
<1> QED
  BY <1>1, DaemonInvariance, PTL

\* As long as the engine runs, through every fault and through the shutdown, the
\* next sample it takes is the next one ingest decoded (backpressure of the
\* sample channel instead of loss).
THEOREM SamplesStayInOrder == Spec => []SamplesInOrder
<1>1. DInv => SamplesInOrder
  BY DEF DInv
<1> QED
  BY <1>1, DaemonInvariance, PTL

\* A shutdown by a signal or by a failed socket loses neither a sample nor a
\* record: every loss has a fault or a timeout for a cause.
THEOREM EveryLossHasCause == Spec => []LossHasCause
<1>1. DInv => LossHasCause
  BY DEF DInv, NothingLost, Excused, LossHasCause
<1> QED
  BY <1>1, DaemonInvariance, PTL

\* A process that exits without a fault has evaluated every sample it decoded
\* and written every record it made, in order.
THEOREM ExitIsClean == Spec => []CleanExit
<1>1. DInv => CleanExit
  <2> SUFFICES ASSUME DInv, main = "exited", blame \subseteq {"recv_error", "hang"}
               PROVE  evaluated = decoded /\ disk = Fresh(0, made)
    BY DEF CleanExit
  <2>1. ingest = "done" /\ engine = "done" /\ output = "done"
    BY DEF DInv, MainInOrder, Stopped
  <2>2. todo = <<>> /\ sampleQ = <<>> /\ pending = <<>> /\ recordQ = <<>> /\ buffer = <<>>
    BY <2>1 DEF DInv, Emptied
  <2>3. lost = {} /\ evaluated + Len(sampleQ) + Len(todo) = decoded
    BY DEF DInv, NothingLost, Excused
  <2>4. evaluated = decoded
    BY <2>2, <2>3 DEF DInv, TypeOK
  <2>5. Trail = disk
    BY <2>2, TrailTypes, ConcatEmptySeq DEF Trail
  <2> QED
    BY <2>3, <2>4, <2>5 DEF DInv, Accounted
<1> QED
  BY <1>1, DaemonInvariance, PTL

\* The tasks end in the order of the pipeline, so the file is closed after the
\* last record and the engine stops after the last sample.
THEOREM StagesCloseInOrder == Spec => []ClosesInOrder
<1>1. DInv => ClosesInOrder
  BY DEF DInv, InTurn, Broken, ClosesInOrder
<1> QED
  BY <1>1, DaemonInvariance, PTL
=============================================================================
