------------------------- MODULE RotatingWriterProofs -----------------------
(***************************************************************************)
(* Proofs about RotatingWriter for every limit, size and fault: whichever  *)
(* operation of a rotation fails and wherever the process is killed, the   *)
(* file that is written to has a name and is the newest, and the files     *)
(* together are one log that sheds its oldest lines first.                 *)
(***************************************************************************)
EXTENDS RotatingWriter, SequenceTheorems, FiniteSetTheorems, WellFoundedInduction, TLAPS

\* The open file is the newest: a rotation renames it away from index 0 and may
\* then fail before a new one is created, but never puts a file in front of it.
OpenIsNewest == \A j \in Indices : j < handle => files[j] = None

\* Within a call there is a line that is written.
InCall == pc \in {"rotate", "shift", "body", "newline"} => lines # <<>>

WInv == TypeOK /\ OpenIsNewest /\ InCall

-----------------------------------------------------------------------------
(* Constants, sequences and the file map *)

LEMMA IndexFacts ==
  /\ \E top \in Nat : Indices = 0..top
  /\ 0 \in Indices
  /\ \A n \in Limits : n \in Nat \ {0} /\ n - 1 \in Indices
<1>1. PICK top \in Limits : \A n \in Limits : n <= top
  BY LimitAssumption
<1>2. /\ Max(Limits) \in Limits
      /\ \A y \in Limits : Max(Limits) >= y
  <2>1. top \in Limits /\ \A y \in Limits : top >= y
    BY <1>1, LimitAssumption
  <2> QED
    BY <2>1 DEF Max
<1>3. Max(Limits) \in Nat \ {0}
  BY <1>2, LimitAssumption
<1> DEFINE m == Max(Limits)
<1> HIDE DEF m
<1>4. m \in Nat \ {0} /\ \A n \in Limits : n \in Nat \ {0} /\ n <= m
  BY <1>2, <1>3, LimitAssumption DEF m
<1>5. Indices = 0..m - 1
  BY DEF Indices, m
<1>6. m - 1 \in Nat /\ 0 \in 0..m - 1
  BY <1>4
<1>7. \A n \in Limits : n \in Nat \ {0} /\ n - 1 \in 0..m - 1
  BY <1>4
<1> QED
  BY <1>5, <1>6, <1>7

\* What can be read from a file or a buffer.
Text == Seq(0..Len(lines))

LEMMA NoneIsNoText == TypeOK => None \notin Text
<1> SUFFICES ASSUME TypeOK, None \in Text PROVE FALSE
  OBVIOUS
<1>1. 0..Len(lines) \subseteq Nat
  BY LenProperties DEF TypeOK
<1> QED
  BY <1>1, SeqMonotonic, NoneAssumption DEF Text

LEMMA TextFacts ==
  ASSUME TypeOK
  PROVE  /\ Len(lines) \in Nat
         /\ buffer \in Text /\ files[handle] \in Text /\ <<>> \in Text
         /\ lines # <<>> => Body \in Text
         /\ <<NL>> \in Text
         /\ \A a, b \in Text : a \o b \in Text /\ Len(a \o b) = Len(a) + Len(b)
         /\ \A a \in Text : Len(a) \in Nat
<1>1. Len(lines) \in Nat /\ lines \in Seq(Lengths)
  BY LenProperties DEF TypeOK
<1>2. buffer \in Text /\ files[handle] \in Text /\ <<>> \in Text
  BY EmptySeq DEF TypeOK, Text
<1>3. \A a, b \in Text : a \o b \in Text /\ Len(a \o b) = Len(a) + Len(b)
  BY ConcatProperties DEF Text
<1>4. \A a \in Text : Len(a) \in Nat
  BY LenProperties DEF Text
<1>5. <<NL>> \in Text
  <2>1. 0 \in 0..Len(lines)
    BY <1>1
  <2> QED
    BY <2>1 DEF NL, Text
<1>6. ASSUME lines # <<>> PROVE Body \in Text
  <2>1. Len(lines) \in 1..Len(lines)
    BY <1>1, <1>6, EmptySeq
  <2>2. lines[Len(lines)] \in Nat
    BY <1>1, <2>1, ElementOfSeq, SizeAssumption
  <2>3. Len(lines) \in 0..Len(lines)
    BY <1>1
  <2>4. [i \in 1..lines[Len(lines)] |-> Len(lines)] \in Seq(0..Len(lines))
    BY <2>2, <2>3
  <2> QED
    BY <2>4 DEF Body, Text
<1> QED
  BY <1>1, <1>2, <1>3, <1>4, <1>5, <1>6

LEMMA Slices ==
  ASSUME TypeOK, NEW a \in Text, NEW k \in 0..Len(a)
  PROVE  /\ SubSeq(a, 1, k) \in Text /\ Len(SubSeq(a, 1, k)) = k
         /\ SubSeq(a, k + 1, Len(a)) \in Text
         /\ Len(SubSeq(a, k + 1, Len(a))) = Len(a) - k
<1>1. Len(a) \in Nat /\ k \in Int /\ k + 1 \in Int /\ Len(a) \in Int
  BY TextFacts
<1>2. \A i \in 1..Len(a) : a[i] \in 0..Len(lines)
  BY ElementOfSeq DEF Text
<1>3. (\A i \in 1..k : a[i] \in 0..Len(lines)) /\ \A i \in k + 1..Len(a) : a[i] \in 0..Len(lines)
  BY <1>1, <1>2
<1>4. SubSeq(a, 1, k) \in Text /\ Len(SubSeq(a, 1, k)) = IF 1 <= k THEN k - 1 + 1 ELSE 0
  BY <1>1, <1>3, SubSeqProperties DEF Text
<1>5. /\ SubSeq(a, k + 1, Len(a)) \in Text
      /\ Len(SubSeq(a, k + 1, Len(a)))
           = IF k + 1 <= Len(a) THEN Len(a) - (k + 1) + 1 ELSE 0
  BY <1>1, <1>3, SubSeqProperties DEF Text
<1> QED
  BY <1>1, <1>4, <1>5

\* What a write to the open file keeps.
LEMMA GetsFacts ==
  ASSUME WInv, NEW bytes \in Text, Gets(bytes), UNCHANGED <<handle, lines>>
  PROVE  /\ files' \in [Indices -> Text \cup {None}]
         /\ files'[handle] # None
         /\ \A j \in Indices : j < handle => files'[j] = None
<1>1. /\ files \in [Indices -> Text \cup {None}] /\ handle \in Indices
      /\ files[handle] \o bytes \in Text /\ None \notin Text
      /\ \A j \in Indices : j < handle => files[j] = None
  BY TextFacts, NoneIsNoText DEF WInv, TypeOK, Text, OpenIsNewest
<1>2. files' = [files EXCEPT ![handle] = files[handle] \o bytes]
  BY DEF Gets
<1>3. files' \in [Indices -> Text \cup {None}] /\ files'[handle] = files[handle] \o bytes
  BY <1>1, <1>2
<1>4. \A j \in Indices : j < handle => files'[j] = None
  <2> SUFFICES ASSUME NEW j \in Indices, j < handle PROVE files'[j] = None
    OBVIOUS
  <2>1. j # handle
    BY <1>1, IndexFacts
  <2> QED
    BY <1>1, <1>2, <2>1
<1> QED
  BY <1>1, <1>3, <1>4

\* What a step that leaves them alone keeps.
LEMMA FilesKept ==
  ASSUME WInv, UNCHANGED <<files, handle, lines>>
  PROVE  /\ files' \in [Indices -> Text \cup {None}]
         /\ files'[handle] # None
         /\ \A j \in Indices : j < handle => files'[j] = None
BY DEF WInv, TypeOK, Text, OpenIsNewest
-----------------------------------------------------------------------------
(* The operations of the BufWriter *)

\* What an operation of the BufWriter leaves behind.
Written ==
  /\ files' \in [Indices -> Text \cup {None}]
  /\ files'[handle] # None
  /\ \A j \in Indices : j < handle => files'[j] = None
  /\ buffer' \in Text /\ Len(buffer') <= BUFFER

LEMMA FlushedWrites ==
  ASSUME WInv, Flushed, UNCHANGED <<handle, lines>>
  PROVE  Written
<1>1. TypeOK /\ buffer \in Text /\ Gets(buffer) /\ buffer' = <<>>
  BY TextFacts DEF WInv, Flushed
<1>2. <<>> \in Text /\ Len(<<>>) <= BUFFER
  BY <1>1, TextFacts, EmptySeq, SizeAssumption
<1> QED
  BY <1>1, <1>2, GetsFacts DEF Written

LEMMA BrokenWrites ==
  ASSUME WInv, FlushBroken, UNCHANGED <<handle, lines>>
  PROVE  Written
<1>1. TypeOK /\ buffer \in Text /\ Len(buffer) \in Nat /\ Len(buffer) <= BUFFER
  BY TextFacts DEF WInv, TypeOK
<1>2. PICK k \in 0..(Len(buffer) - 1) : /\ Gets(SubSeq(buffer, 1, k))
                                       /\ buffer' = SubSeq(buffer, k + 1, Len(buffer))
  BY DEF FlushBroken
<1>3. k \in 0..Len(buffer)
  BY <1>1
<1>4. /\ SubSeq(buffer, 1, k) \in Text /\ SubSeq(buffer, k + 1, Len(buffer)) \in Text
      /\ Len(SubSeq(buffer, k + 1, Len(buffer))) = Len(buffer) - k
  BY <1>1, <1>3, Slices
<1>5. Len(buffer) - k <= BUFFER
  BY <1>1, <1>3, SizeAssumption
<1>6. buffer' \in Text /\ Len(buffer') <= BUFFER
  BY <1>2, <1>4, <1>5
<1> QED
  BY <1>2, <1>4, <1>6, GetsFacts DEF Written

LEMMA PutWrites ==
  ASSUME WInv, NEW bytes \in Text, Put(bytes), UNCHANGED <<handle, lines>>
  PROVE  Written
<1>1. /\ TypeOK /\ buffer \in Text /\ Len(buffer) \in Nat /\ Len(bytes) \in Nat
      /\ buffer \o bytes \in Text /\ Len(buffer \o bytes) = Len(buffer) + Len(bytes)
      /\ <<>> \in Text /\ BUFFER \in Nat
  BY TextFacts, SizeAssumption DEF WInv
<1>2. CASE Gets(buffer \o bytes) /\ buffer' = <<>>
  <2>1. Len(<<>>) <= BUFFER
    BY <1>1, EmptySeq
  <2> QED
    BY <1>1, <1>2, <2>1, GetsFacts DEF Written
<1>3. CASE Len(bytes) < BUFFER /\ Gets(buffer) /\ buffer' = bytes
  <2>1. Len(bytes) <= BUFFER
    BY <1>1, <1>3
  <2> QED
    BY <1>1, <1>3, <2>1, GetsFacts DEF Written
<1>4. CASE Len(bytes) <= Spare /\ buffer' = buffer \o bytes /\ UNCHANGED files
  <2>1. Len(buffer) + Len(bytes) <= BUFFER
    BY <1>1, <1>4 DEF Spare
  <2> QED
    BY <1>1, <1>4, <2>1, FilesKept DEF Written
<1> QED
  BY <1>2, <1>3, <1>4 DEF Put

LEMMA PutBrokenWrites ==
  ASSUME WInv, NEW bytes \in Text, PutBroken(bytes), UNCHANGED <<handle, lines>>
  PROVE  Written
<1>1. CASE FlushBroken
  BY <1>1, BrokenWrites
<1>2. CASE /\ \E k \in 0..(Len(bytes) - 1) : Gets(buffer \o SubSeq(bytes, 1, k))
           /\ buffer' = <<>>
  <2>1. /\ TypeOK /\ buffer \in Text /\ Len(bytes) \in Nat
        /\ <<>> \in Text /\ Len(<<>>) <= BUFFER
    BY TextFacts, EmptySeq, SizeAssumption DEF WInv
  <2>2. PICK k \in 0..(Len(bytes) - 1) : Gets(buffer \o SubSeq(bytes, 1, k))
    BY <1>2
  <2>3. k \in 0..Len(bytes)
    BY <2>1
  <2>4. SubSeq(bytes, 1, k) \in Text
    BY <2>1, <2>3, Slices
  <2>5. buffer \o SubSeq(bytes, 1, k) \in Text
    BY <2>1, <2>4, TextFacts
  <2> QED
    BY <1>2, <2>1, <2>2, <2>5, GetsFacts DEF Written
<1> QED
  BY <1>1, <1>2 DEF PutBroken

-----------------------------------------------------------------------------
(* The steps *)

LEMMA InitWInv == Init => WInv
<1> SUFFICES ASSUME Init PROVE WInv
  OBVIOUS
<1>1. 0 \in Indices /\ \A j \in Indices : j \in Nat
  BY IndexFacts
<1>2. Len(lines) = 0 /\ lines \in Seq(Lengths) /\ buffer \in Seq(0..0) /\ Len(buffer) = 0
  BY EmptySeq DEF Init
<1>3. <<>> # None
  <2>1. <<>> \in Seq(Nat)
    BY EmptySeq
  <2> QED
    BY <2>1, NoneAssumption
<1>4. /\ files \in [Indices -> Seq(0..Len(lines)) \cup {None}]
      /\ files[handle] # None
  <2>1. <<>> \in Seq(0..Len(lines))
    BY EmptySeq
  <2> QED
    BY <1>1, <1>3, <2>1 DEF Init
<1>5. TypeOK
  BY <1>1, <1>2, <1>4, SizeAssumption DEF Init, TypeOK
<1>6. OpenIsNewest /\ InCall
  BY <1>1 DEF Init, OpenIsNewest, InCall
<1> QED
  BY <1>5, <1>6 DEF WInv

\* A step that writes, and otherwise keeps to the types.
LEMMA WrittenKeeps ==
  ASSUME WInv, Written, UNCHANGED <<max_files, handle, lines>>,
         size' \in Nat, shift' \in Indices,
         pc' \in {"idle", "rotate", "shift", "body", "newline", "down"},
         safe' \subseteq done', done' \subseteq 1..Len(lines), faults' \in 0..MaxFaults,
         InCall'
  PROVE  WInv'
<1>1. TypeOK'
  BY DEF WInv, TypeOK, Written, Text
<1>2. OpenIsNewest'
  BY DEF Written, OpenIsNewest
<1> QED
  BY <1>1, <1>2 DEF WInv

LEMMA NotWritten ==
  WInv /\ UNCHANGED <<files, buffer, handle, lines>> => Written
BY DEF WInv, TypeOK, OpenIsNewest, Written, Text

LEMMA WriteLineStep == ASSUME WInv, NEW len \in Lengths, WriteLine(len) PROVE WInv'
<1> USE DEF WriteLine
<1>1. /\ lines \in Seq(Lengths) /\ Len(lines) \in Nat /\ Len(lines) < MaxLines
      /\ lines' = Append(lines, len)
  BY LenProperties DEF WInv, TypeOK
<1>2. lines' \in Seq(Lengths) /\ Len(lines') = Len(lines) + 1 /\ lines' # <<>>
  BY <1>1, AppendProperties
<1>3. 0..Len(lines) \subseteq 0..Len(lines') /\ 1..Len(lines) \subseteq 1..Len(lines')
      /\ Len(lines') <= MaxLines
  BY <1>1, <1>2, SizeAssumption
<1>4. Seq(0..Len(lines)) \subseteq Seq(0..Len(lines'))
  BY <1>3, SeqMonotonic
<1>5. files' \in [Indices -> Seq(0..Len(lines')) \cup {None}]
  BY <1>4 DEF WInv, TypeOK
<1>6. TypeOK'
  BY <1>2, <1>3, <1>4, <1>5 DEF WInv, TypeOK
<1>7. OpenIsNewest' /\ InCall'
  BY <1>2 DEF WInv, OpenIsNewest, InCall
<1> QED
  BY <1>6, <1>7 DEF WInv

LEMMA ShiftStep == WInv /\ (ShiftSkip \/ ShiftRemove \/ ShiftRename) => WInv'
<1> SUFFICES ASSUME WInv, ShiftSkip \/ ShiftRemove \/ ShiftRename PROVE WInv'
  OBVIOUS
<1> USE DEF Shifting
<1>1. /\ shift \in Indices /\ shift - 1 \in Indices /\ handle \in Indices
      /\ \A j \in Indices : j \in Nat
      /\ files \in [Indices -> Text \cup {None}] /\ files[handle] # None
      /\ \A j \in Indices : j < handle => files[j] = None
  BY IndexFacts DEF WInv, TypeOK, OpenIsNewest, ShiftSkip, ShiftRemove, ShiftRename, Text
<1>2. CASE ShiftSkip
  <2>1. Written /\ InCall'
    BY <1>2, NotWritten DEF ShiftSkip, WInv, InCall
  <2> QED
    BY <1>1, <1>2, <2>1, WrittenKeeps DEF ShiftSkip, WInv, TypeOK
<1>3. CASE ShiftRemove
  <2>1. /\ files[shift - 1] # None /\ files' = [files EXCEPT ![shift] = None]
        /\ UNCHANGED <<max_files, handle, buffer, size, pc, shift, lines, done, safe, faults>>
    BY <1>3 DEF ShiftRemove
  <2>2. handle # shift
    BY <1>1, <2>1
  <2>3. Written
    BY <1>1, <2>1, <2>2 DEF Written, WInv, TypeOK, Text
  <2> QED
    BY <1>1, <2>1, <2>3, WrittenKeeps DEF WInv, TypeOK, InCall
<1>4. CASE ShiftRename
  <2>1. /\ files[shift - 1] # None /\ files[shift] = None
        /\ files' = [files EXCEPT ![shift] = files[shift - 1], ![shift - 1] = None]
        /\ handle' = IF handle = shift - 1 THEN shift ELSE handle
        /\ shift' = shift - 1
        /\ UNCHANGED <<max_files, buffer, size, pc, lines, done, safe, faults>>
    BY <1>4 DEF ShiftRename
  <2>2. files' \in [Indices -> Text \cup {None}] /\ shift' \in Indices /\ handle' \in Indices
    BY <1>1, <2>1
  <2>3. files'[handle'] # None /\ \A j \in Indices : j < handle' => files'[j] = None
    <3>1. CASE handle = shift - 1
      <4>1. handle' = shift /\ files'[shift] = files[shift - 1]
        BY <1>1, <2>1, <3>1
      <4>2. ASSUME NEW j \in Indices, j < shift PROVE files'[j] = None
        BY <1>1, <2>1, <3>1, <4>2
      <4> QED
        BY <2>1, <4>1, <4>2
    <3>2. CASE handle # shift - 1
      <4>1. handle' = handle /\ handle # shift /\ handle < shift
        BY <1>1, <2>1, <3>2
      <4> QED
        BY <1>1, <2>1, <3>2, <4>1
    <3> QED
      BY <3>1, <3>2
  <2>4. TypeOK'
    BY <2>1, <2>2, <2>3 DEF WInv, TypeOK, Text
  <2>5. OpenIsNewest' /\ InCall'
    BY <2>1, <2>3 DEF WInv, OpenIsNewest, InCall
  <2> QED
    BY <2>4, <2>5 DEF WInv
<1> QED
  BY <1>2, <1>3, <1>4

LEMMA RotateStep == WInv /\ Rotate => WInv'
<1> SUFFICES ASSUME WInv, Rotate PROVE WInv'
  OBVIOUS
<1>1. /\ Flushed /\ UNCHANGED <<max_files, handle, size, lines, done, faults>>
      /\ safe' = done /\ pc' = "shift" /\ shift' = max_files - 1 /\ pc = "rotate"
  BY DEF Rotate
<1>2. Written
  BY <1>1, FlushedWrites
<1>3. shift' \in Indices
  BY <1>1, IndexFacts DEF WInv, TypeOK
<1>4. InCall'
  BY <1>1 DEF WInv, InCall
<1> QED
  BY <1>1, <1>2, <1>3, <1>4, WrittenKeeps DEF WInv, TypeOK

\* A file that is opened, or created, is at index 0.
LEMMA FreshFile ==
  ASSUME WInv, NEW text \in Text, files' = [files EXCEPT ![0] = text], handle' = 0,
         UNCHANGED <<buffer, shift, lines, done, safe, faults>>,
         max_files' \in Limits, size' \in Nat,
         pc' \in {"idle", "body"}, pc' = "body" => lines # <<>>
  PROVE  WInv'
<1>1. /\ 0 \in Indices /\ \A j \in Indices : j \in Nat
      /\ files \in [Indices -> Text \cup {None}] /\ None \notin Text
  BY IndexFacts, NoneIsNoText DEF WInv, TypeOK, Text
<1>2. files' \in [Indices -> Text \cup {None}] /\ files'[0] = text
  BY <1>1
<1>3. handle' \in Indices /\ files'[handle'] # None
  BY <1>1, <1>2
<1>4. TypeOK'
  BY <1>2, <1>3 DEF WInv, TypeOK, Text
<1>5. OpenIsNewest' /\ InCall'
  BY <1>1 DEF OpenIsNewest, InCall
<1> QED
  BY <1>4, <1>5 DEF WInv

LEMMA CreateStep == WInv /\ Create => WInv'
<1> SUFFICES ASSUME WInv, Create PROVE WInv'
  OBVIOUS
<1>1. /\ files' = [files EXCEPT ![0] = <<>>] /\ handle' = 0 /\ size' = 0 /\ pc' = "body"
      /\ UNCHANGED <<max_files, buffer, shift, lines, done, safe, faults>>
      /\ lines # <<>>
  BY DEF Create, WInv, InCall
<1>2. <<>> \in Text /\ max_files' \in Limits /\ size' \in Nat
  BY <1>1, TextFacts DEF WInv, TypeOK
<1> QED
  BY <1>1, <1>2, FreshFile

LEMMA OpenStep == WInv /\ Open => WInv'
<1> SUFFICES ASSUME WInv, Open PROVE WInv'
  OBVIOUS
<1> DEFINE text == IF files[0] = None THEN <<>> ELSE files[0]
<1>1. /\ files' = [files EXCEPT ![0] = text] /\ handle' = 0 /\ pc' = "idle"
      /\ size' = Len(files'[0])
      /\ max_files' \in IF "reconfigure" \in Faults THEN Limits ELSE {max_files}
      /\ UNCHANGED <<buffer, shift, lines, done, safe, faults>>
  BY DEF Open
<1>2. text \in Text /\ 0 \in Indices
  BY TextFacts, IndexFacts DEF WInv, TypeOK, Text
<1>3. size' = Len(text)
  BY <1>1, <1>2 DEF WInv, TypeOK
<1>4. size' \in Nat
  BY <1>2, <1>3, TextFacts DEF WInv
<1>5. max_files' \in Limits
  BY <1>1 DEF WInv, TypeOK
<1> HIDE DEF text
<1> QED
  BY <1>1, <1>2, <1>4, <1>5, FreshFile

LEMMA BodyStep == WInv /\ WriteBody => WInv'
<1> SUFFICES ASSUME WInv, WriteBody PROVE WInv'
  OBVIOUS
<1>1. /\ Put(Body) /\ pc = "body" /\ pc' = "newline"
      /\ UNCHANGED <<max_files, handle, size, shift, lines, done, safe, faults>>
  BY DEF WriteBody
<1>2. lines # <<>> /\ Body \in Text
  BY <1>1, TextFacts DEF WInv, InCall
<1>3. Written
  BY <1>1, <1>2, PutWrites
<1>4. InCall'
  BY <1>1, <1>2 DEF InCall
<1> QED
  BY <1>1, <1>3, <1>4, WrittenKeeps DEF WInv, TypeOK

LEMMA NewlineStep == WInv /\ WriteNewline => WInv'
<1> SUFFICES ASSUME WInv, WriteNewline PROVE WInv'
  OBVIOUS
<1>1. /\ Put(<<NL>>) /\ pc = "newline" /\ pc' = "idle"
      /\ size' = size + Len(Body) + 1 /\ done' = done \cup {Len(lines)}
      /\ UNCHANGED <<max_files, handle, shift, lines, safe, faults>>
  BY DEF WriteNewline
<1>2. /\ lines # <<>> /\ lines \in Seq(Lengths) /\ <<NL>> \in Text /\ Body \in Text
      /\ Len(lines) \in Nat /\ Len(Body) \in Nat
  BY <1>1, TextFacts DEF WInv, InCall, TypeOK
<1>3. Written
  BY <1>1, <1>2, PutWrites
<1>4. size' \in Nat
  BY <1>1, <1>2 DEF WInv, TypeOK
<1>5. Len(lines) \in 1..Len(lines)
  BY <1>2, EmptySeq
<1>6. safe' \subseteq done' /\ done' \subseteq 1..Len(lines)
  BY <1>1, <1>5 DEF WInv, TypeOK
<1>7. InCall'
  BY <1>1 DEF InCall
<1>8. pc' \in {"idle", "rotate", "shift", "body", "newline", "down"}
  BY <1>1
<1>9. shift' \in Indices /\ faults' \in 0..MaxFaults
  BY <1>1 DEF WInv, TypeOK
<1> QED
  BY <1>1, <1>3, <1>4, <1>6, <1>7, <1>8, <1>9, WrittenKeeps

LEMMA FlushStep == WInv /\ (Flush \/ Close) => WInv'
<1> SUFFICES ASSUME WInv, Flush \/ Close PROVE WInv'
  OBVIOUS
<1>1. /\ Flushed /\ pc' \in {"idle", "down"} /\ safe' = done
      /\ UNCHANGED <<max_files, handle, size, shift, lines, done, faults>>
  BY DEF Flush, Close
<1>2. Written
  BY <1>1, FlushedWrites
<1>3. InCall'
  BY <1>1 DEF InCall
<1> QED
  BY <1>1, <1>2, <1>3, WrittenKeeps DEF WInv, TypeOK

\* Whatever fails ends the call.
LEMMA FaultCounted ==
  ASSUME WInv, NEW kind, Fault(kind)
  PROVE  faults' \in 0..MaxFaults
BY SizeAssumption DEF WInv, TypeOK, Fault

LEMMA FailureStep ==
  ASSUME WInv,
         FlushFails \/ BodyFails \/ NewlineFails \/ RemoveFails \/ RenameFails \/ CreateFails
  PROVE  WInv'
<1>1. PICK kind \in AllFaults : Fails(kind)
  BY DEF FlushFails, BodyFails, NewlineFails, RemoveFails, RenameFails, CreateFails, AllFaults
<1>2. /\ Fault(kind) /\ pc' = "idle"
      /\ UNCHANGED <<max_files, handle, size, shift, lines, done, safe>>
  BY <1>1 DEF Fails
<1>3. Written
  <2>1. CASE FlushFails
    BY <1>2, <2>1, BrokenWrites DEF FlushFails
  <2>2. CASE BodyFails
    BY <1>2, <2>2, PutBrokenWrites, TextFacts DEF BodyFails, WInv, InCall
  <2>3. CASE NewlineFails
    BY <1>2, <2>3, PutBrokenWrites, TextFacts DEF NewlineFails, WInv
  <2>4. CASE RemoveFails \/ RenameFails \/ CreateFails
    BY <1>2, <2>4, NotWritten DEF RemoveFails, RenameFails, CreateFails
  <2> QED
    BY <2>1, <2>2, <2>3, <2>4
<1>4. faults' \in 0..MaxFaults
  BY <1>2, FaultCounted
<1>5. InCall'
  BY <1>2 DEF InCall
<1> QED
  BY <1>2, <1>3, <1>4, <1>5, WrittenKeeps DEF WInv, TypeOK

LEMMA CrashStep == WInv /\ Crash => WInv'
<1> SUFFICES ASSUME WInv, Crash PROVE WInv'
  OBVIOUS
<1> DEFINE ahead == IF pc = "body" /\ Len(Body) >= BUFFER THEN buffer \o Body ELSE buffer
<1>1. /\ Fault("crash") /\ \E k \in 0..Len(ahead) : Gets(SubSeq(ahead, 1, k))
      /\ buffer' = <<>> /\ done' = safe /\ pc' = "down"
      /\ UNCHANGED <<max_files, handle, size, shift, lines, safe>>
  BY DEF Crash
<1>2. ahead \in Text
  <2>1. CASE pc = "body"
    BY <2>1, TextFacts DEF WInv, InCall
  <2>2. CASE pc # "body"
    BY <2>2, TextFacts DEF WInv
  <2> QED
    BY <2>1, <2>2
<1> HIDE DEF ahead
<1>3. PICK k \in 0..Len(ahead) : Gets(SubSeq(ahead, 1, k))
  BY <1>1
<1>4. SubSeq(ahead, 1, k) \in Text
  BY <1>2, <1>3, Slices DEF WInv
<1>5. /\ files' \in [Indices -> Text \cup {None}] /\ files'[handle] # None
      /\ \A j \in Indices : j < handle => files'[j] = None
  BY <1>1, <1>3, <1>4, GetsFacts
<1>6. buffer' \in Text /\ Len(buffer') <= BUFFER
  BY <1>1, TextFacts, EmptySeq, SizeAssumption DEF WInv
<1>7. Written
  BY <1>5, <1>6 DEF Written
<1>8. faults' \in 0..MaxFaults
  BY <1>1, FaultCounted
<1>9. InCall' /\ safe' \subseteq done' /\ done' \subseteq 1..Len(lines)
  BY <1>1 DEF InCall, WInv, TypeOK
<1> QED
  BY <1>1, <1>7, <1>8, <1>9, WrittenKeeps DEF WInv, TypeOK

LEMMA NextWInv == WInv /\ [Next]_vars => WInv'
<1> SUFFICES ASSUME WInv, [Next]_vars PROVE WInv'
  OBVIOUS
<1>1. CASE \E len \in Lengths : WriteLine(len)
  BY <1>1, WriteLineStep
<1>2. CASE Rotate \/ Create \/ Open \/ WriteBody \/ WriteNewline
  BY <1>2, RotateStep, CreateStep, OpenStep, BodyStep, NewlineStep
<1>3. CASE ShiftSkip \/ ShiftRemove \/ ShiftRename \/ Flush \/ Close
  BY <1>3, ShiftStep, FlushStep
<1>4. CASE FlushFails \/ BodyFails \/ NewlineFails \/ RemoveFails \/ RenameFails \/ CreateFails
  BY <1>4, FailureStep
<1>5. CASE Crash
  BY <1>5, CrashStep
<1>6. CASE UNCHANGED vars
  BY <1>6 DEF vars, WInv, TypeOK, OpenIsNewest, InCall
<1> QED
  BY <1>1, <1>2, <1>3, <1>4, <1>5, <1>6 DEF Next
-----------------------------------------------------------------------------
\* The inductive invariant of the writer, for all limits, sizes and faults.
THEOREM WriterInvariance == Spec => []WInv
BY InitWInv, NextWInv, PTL DEF Spec

\* Through writes, rotations, failures between any two file operations, crashes
\* and restarts with other limits, the open file has a name in the directory and
\* the BufWriter never holds more than its capacity.
THEOREM OpenFileHasName == Spec => []TypeOK
<1>1. WInv => TypeOK
  BY DEF WInv
<1> QED
  BY <1>1, WriterInvariance, PTL

\* No file is newer than the one that is written to: what is appended is the end
\* of the log, even after a rotation that renamed the open file and then failed.
THEOREM OpenFileIsNewest == Spec => []OpenIsNewest
<1>1. WInv => OpenIsNewest
  BY DEF WInv
<1> QED
  BY <1>1, WriterInvariance, PTL
-----------------------------------------------------------------------------
(* Many sequences joined to one *)

LEMMA LeastNatural ==
  ASSUME NEW S \in SUBSET Nat, S # {}
  PROVE  \E d \in S : \A e \in S : d <= e
<1>1. PICK d \in S : \A e \in S : <<e, d>> \notin OpToRel(<, Nat)
  BY NatLessThanWellFounded, WFMin
<1>2. \A e \in S : ~(e < d)
  BY <1>1 DEF OpToRel
<1> QED
  BY <1>2

\* What holds at k and goes on from each index to the next holds up to n.
LEMMA Along ==
  ASSUME NEW k \in Nat, NEW n \in Nat, NEW B, k \in B,
         \A i \in k..n : i > k /\ i - 1 \in B => i \in B
  PROVE  \A i \in k..n : i \in B
<1> DEFINE Bad == {i \in k..n : i \notin B}
<1>1. Bad \in SUBSET Nat
  OBVIOUS
<1>2. Bad = {}
  <2>1. SUFFICES ASSUME Bad # {} PROVE FALSE
    OBVIOUS
  <2>2. PICK d \in Bad : \A e \in Bad : d <= e
    BY <1>1, <2>1, LeastNatural
  <2>3. d \in k..n /\ d \notin B /\ d # k
    OBVIOUS
  <2>4. d > k /\ d - 1 \in k..n /\ ~(d <= d - 1)
    BY <2>3
  <2>5. d - 1 \in B
    BY <2>2, <2>4
  <2> QED
    BY <2>3, <2>4, <2>5
<1> QED
  BY <1>2

\* j[i] is what the first i of the n texts s make together.
Joins(j, s, n) ==
  j[0] = <<>> /\ \A i \in 1..n : j[i] = j[i - 1] \o s[i]

LEMMA JoinsExists ==
  ASSUME NEW n \in Nat, NEW s \in [1..n -> Seq(Nat)]
  PROVE  \E j \in [0..n -> Seq(Nat)] : Joins(j, s, n)
<1> DEFINE Upto(k) == \E j \in [0..k -> Seq(Nat)] : Joins(j, s, k)
<1>1. Upto(0)
  <2>1. PICK j : j = [i \in 0..0 |-> <<>>]
    OBVIOUS
  <2>2. <<>> \in Seq(Nat)
    OBVIOUS
  <2>3. j \in [0..0 -> Seq(Nat)] /\ j[0] = <<>>
    BY <2>1, <2>2
  <2> QED
    BY <2>3 DEF Joins
<1>2. ASSUME NEW k \in 1..n, Upto(k - 1)
      PROVE  Upto(k)
  <2>1. PICK j \in [0..k - 1 -> Seq(Nat)] : Joins(j, s, k - 1)
    BY <1>2
  <2>2. k - 1 \in 0..k - 1 /\ 0 \in 0..k - 1
    OBVIOUS
  <2>3. j[k - 1] \in Seq(Nat) /\ s[k] \in Seq(Nat)
    BY <2>2
  <2>4. j[k - 1] \o s[k] \in Seq(Nat)
    BY <2>3, ConcatProperties
  <2>5. PICK g : g = [i \in 0..k |-> IF i = k THEN j[k - 1] \o s[k] ELSE j[i]]
    OBVIOUS
  <2>6. g \in [0..k -> Seq(Nat)] /\ g[k] = j[k - 1] \o s[k]
    BY <2>4, <2>5
  <2>7. \A i \in 0..k - 1 : g[i] = j[i]
    BY <2>5
  <2>8. g[0] = <<>>
    BY <2>1, <2>2, <2>7 DEF Joins
  <2>9. ASSUME NEW i \in 1..k
        PROVE  g[i] = g[i - 1] \o s[i]
    <3>1. i - 1 \in 0..k - 1
      OBVIOUS
    <3>2. g[i - 1] = j[i - 1]
      BY <2>7, <3>1
    <3>3. CASE i = k
      BY <2>6, <3>2, <3>3
    <3>4. CASE i # k
      <4>1. i \in 1..k - 1 /\ i \in 0..k - 1
        BY <3>4
      <4>2. j[i] = j[i - 1] \o s[i]
        BY <2>1, <4>1 DEF Joins
      <4> QED
        BY <2>7, <3>2, <4>1, <4>2
    <3> QED
      BY <3>3, <3>4
  <2> QED
    BY <2>6, <2>8, <2>9 DEF Joins
<1> HIDE DEF Upto
<1>3. PICK B : \A i : i \in B <=> i \in 0..n /\ Upto(i)
  <2> WITNESS {i \in 0..n : Upto(i)}
  <2> QED OBVIOUS
<1>4. 0 \in B /\ \A i \in 0..n : i > 0 /\ i - 1 \in B => i \in B
  <2>1. 0 \in B
    BY <1>1, <1>3
  <2>2. ASSUME NEW i \in 0..n, i > 0, i - 1 \in B
        PROVE  i \in B
    <3>1. i \in 1..n
      BY <2>2
    <3>2. Upto(i - 1)
      BY <1>3, <2>2
    <3>3. Upto(i)
      BY <1>2, <3>1, <3>2
    <3> QED
      BY <1>3, <3>3
  <2> QED
    BY <2>1, <2>2
<1>5. \A i \in 0..n : i \in B
  BY <1>4, Along
<1> QED
  BY <1>3, <1>5 DEF Upto

\* It is what FlattenSeq makes of them.
LEMMA FlattenJoins ==
  ASSUME NEW n \in Nat \ {0}, NEW s \in [1..n -> Seq(Nat)],
         NEW j \in [0..n -> Seq(Nat)], Joins(j, s, n)
  PROVE  FlattenSeq(s) = j[n]
<1>1. Len(s) = n
  OBVIOUS
<1>2. j[1] = s[1]
  <2>1. 1 \in 1..n /\ 1 - 1 = 0
    OBVIOUS
  <2>2. j[1] = <<>> \o s[1] /\ s[1] \in Seq(Nat)
    BY <2>1 DEF Joins
  <2> QED
    BY <2>2, ConcatEmptySeq
<1> DEFINE t == [i \in 1..n |-> j[i]]
<1>3. t = [i \in 1..n |-> IF i = 1 THEN s[i] ELSE t[i - 1] \o s[i]]
  <2>1. ASSUME NEW i \in 1..n
        PROVE  t[i] = IF i = 1 THEN s[i] ELSE t[i - 1] \o s[i]
    <3>1. CASE i = 1
      BY <1>2, <3>1
    <3>2. CASE i # 1
      <4>1. i - 1 \in 1..n
        BY <3>2
      <4> QED
        BY <3>2, <4>1 DEF Joins
    <3> QED
      BY <3>1, <3>2
  <2> QED
    BY <2>1
<1> DEFINE g == CHOOSE f : f = [i \in 1..n |-> IF i = 1 THEN s[i] ELSE f[i - 1] \o s[i]]
<1> HIDE DEF t
<1>4. g = [i \in 1..n |-> IF i = 1 THEN s[i] ELSE g[i - 1] \o s[i]]
  BY <1>3
<1>5. FlattenSeq(s) = g[n]
  BY <1>1 DEF FlattenSeq
<1> HIDE DEF g
<1>6. ASSUME NEW i \in 1..n
      PROVE  g[i] = IF i = 1 THEN s[i] ELSE g[i - 1] \o s[i]
  <2>1. PICK G : G = [k \in 1..n |-> IF k = 1 THEN s[k] ELSE g[k - 1] \o s[k]]
    OBVIOUS
  <2>2. G[i] = IF i = 1 THEN s[i] ELSE g[i - 1] \o s[i]
    BY <2>1
  <2> QED
    BY <1>4, <2>1, <2>2
<1>7. PICK B : \A i : i \in B <=> i \in 1..n /\ g[i] = j[i]
  <2> WITNESS {i \in 1..n : g[i] = j[i]}
  <2> QED OBVIOUS
<1>8. 1 \in B
  <2>1. 1 \in 1..n
    OBVIOUS
  <2>2. g[1] = s[1]
    BY <1>6, <2>1
  <2> QED
    BY <1>2, <1>7, <2>1, <2>2
<1>9. ASSUME NEW i \in 1..n, i > 1, i - 1 \in B
      PROVE  i \in B
  <2>1. i \in 1..n /\ i # 1 /\ g[i - 1] = j[i - 1]
    BY <1>7, <1>9
  <2>2. g[i] = g[i - 1] \o s[i] /\ j[i] = j[i - 1] \o s[i]
    BY <1>6, <2>1 DEF Joins
  <2> QED
    BY <1>7, <2>1, <2>2
<1>10. \A i \in 1..n : i \in B
  BY <1>8, <1>9, Along
<1> QED
  BY <1>5, <1>7, <1>10

LEMMA Concat ==
  \A a, b \in Seq(Nat) :
    /\ a \o b \in Seq(Nat) /\ a \o <<>> = a /\ <<>> \o a = a
    /\ \A c \in Seq(Nat) : (a \o b) \o c = a \o (b \o c)
<1> SUFFICES ASSUME NEW a \in Seq(Nat), NEW b \in Seq(Nat)
             PROVE  /\ a \o b \in Seq(Nat) /\ a \o <<>> = a /\ <<>> \o a = a
                    /\ \A c \in Seq(Nat) : (a \o b) \o c = a \o (b \o c)
  OBVIOUS
<1>1. a \o b \in Seq(Nat)
  BY ConcatProperties
<1>2. a \o <<>> = a /\ <<>> \o a = a
  BY ConcatEmptySeq
<1>3. \A c \in Seq(Nat) : (a \o b) \o c = a \o (b \o c)
  BY ConcatAssociative
<1> QED
  BY <1>1, <1>2, <1>3

LEMMA Regroup ==
  \A a, b, c \in Seq(Nat) : (a \o b) \o c = a \o (b \o c)
BY Concat

Made(j, s, n) ==
  s \in [1..n -> Seq(Nat)] /\ j \in [0..n -> Seq(Nat)] /\ Joins(j, s, n)
Ahead(u, f, g, k) == f[k] = u \o g[k]
SameUpto(s, t, k, n) == \A i \in 1..n : i <= k => s[i] = t[i]
SameAfter(s, t, k, n) == \A i \in 1..n : i > k => s[i] = t[i]

\* Texts that differ by a prefix at some place differ by it from there on.
LEMMA JoinsOn ==
  ASSUME NEW n \in Nat, NEW k \in 0..n,
         NEW s, NEW t, NEW f, NEW g, Made(f, s, n), Made(g, t, n),
         NEW u \in Seq(Nat), SameAfter(s, t, k, n), Ahead(u, f, g, k)
  PROVE  Ahead(u, f, g, n)
<1>0. \A a, b \in Seq(Nat) : (u \o a) \o b = u \o (a \o b)
  BY Concat
<1>1. PICK B : \A i : i \in B <=> i \in 0..n /\ f[i] = u \o g[i]
  <2> WITNESS {i \in 0..n : f[i] = u \o g[i]}
  <2> QED OBVIOUS
<1>2. ASSUME NEW i \in k..n, i > k, i - 1 \in B
      PROVE  i \in B
  <2>1. i \in 1..n /\ i \in 0..n /\ i - 1 \in 0..n
    BY <1>2
  <2>2. f[i] = f[i - 1] \o s[i] /\ g[i] = g[i - 1] \o t[i] /\ s[i] = t[i]
    BY <1>2, <2>1 DEF Made, Joins, SameAfter
  <2>3. g[i - 1] \in Seq(Nat) /\ t[i] \in Seq(Nat)
    BY <2>1 DEF Made
  <2>4. f[i - 1] = u \o g[i - 1]
    BY <1>1, <1>2
  <2>5. (u \o g[i - 1]) \o t[i] = u \o (g[i - 1] \o t[i])
    BY <1>0, <2>3
  <2> QED
    BY <1>1, <2>1, <2>2, <2>4, <2>5
<1>3. k \in B
  BY <1>1 DEF Ahead
<1>4. k \in Nat
  OBVIOUS
<1>5. \A i \in k..n : i \in B
  BY <1>2, <1>3, <1>4, Along
<1> QED
  BY <1>1, <1>5 DEF Ahead

\* The same texts make the same.
LEMMA JoinsSame ==
  ASSUME NEW n \in Nat, NEW k \in 0..n,
         NEW s, NEW t, NEW f, NEW g, Made(f, s, n), Made(g, t, n),
         SameUpto(s, t, k, n)
  PROVE  f[k] = g[k]
<1>1. PICK B : \A i : i \in B <=> i \in 0..n /\ f[i] = g[i]
  <2> WITNESS {i \in 0..n : f[i] = g[i]}
  <2> QED OBVIOUS
<1>2. ASSUME NEW i \in 0..k, i > 0, i - 1 \in B
      PROVE  i \in B
  <2>1. i \in 1..n /\ i \in 0..n /\ i <= k
    BY <1>2
  <2>2. f[i] = f[i - 1] \o s[i] /\ g[i] = g[i - 1] \o t[i] /\ s[i] = t[i]
    BY <2>1 DEF Made, Joins, SameUpto
  <2> QED
    BY <1>1, <1>2, <2>1, <2>2
<1>3. 0 \in B
  <2>1. f[0] = g[0] /\ 0 \in 0..n
    BY DEF Made, Joins
  <2> QED
    BY <1>1, <2>1
<1>4. k \in Nat /\ 0 \in Nat
  OBVIOUS
<1>5. \A i \in 0..k : i \in B
  BY <1>2, <1>3, <1>4, Along
<1> QED
  BY <1>1, <1>5

\* Empty texts add nothing.
LEMMA JoinsEmpty ==
  ASSUME NEW n \in Nat, NEW k \in 0..n, NEW m \in k..n,
         NEW s, NEW f, Made(f, s, n),
         \A i \in 1..n : i > k /\ i <= m => s[i] = <<>>
  PROVE  f[m] = f[k]
<1>1. PICK B : \A i : i \in B <=> i \in 0..n /\ f[i] = f[k]
  <2> WITNESS {i \in 0..n : f[i] = f[k]}
  <2> QED OBVIOUS
<1>2. ASSUME NEW i \in k..m, i > k, i - 1 \in B
      PROVE  i \in B
  <2>1. i \in 1..n /\ i \in 0..n /\ i - 1 \in 0..n /\ i > k /\ i <= m
    BY <1>2
  <2>2. f[i] = f[i - 1] \o s[i] /\ s[i] = <<>>
    BY <2>1 DEF Made, Joins
  <2>3. f[i - 1] \in Seq(Nat)
    BY <2>1 DEF Made
  <2>4. f[i - 1] \o <<>> = f[i - 1]
    BY <2>3, ConcatEmptySeq
  <2> QED
    BY <1>1, <1>2, <2>1, <2>2, <2>4
<1>3. k \in B
  BY <1>1
<1>4. k \in Nat /\ m \in Nat
  OBVIOUS
<1>5. \A i \in k..m : i \in B
  BY <1>2, <1>3, <1>4, Along
<1> QED
  BY <1>1, <1>5

LEMMA JoinsStep ==
  ASSUME NEW n \in Nat, NEW k \in 1..n, NEW s, NEW f, Made(f, s, n)
  PROVE  /\ k - 1 \in 0..n /\ k \in 0..n /\ n \in 0..n
         /\ f[k - 1] \in Seq(Nat) /\ f[k] \in Seq(Nat) /\ s[k] \in Seq(Nat)
         /\ f[k] = f[k - 1] \o s[k]
<1>1. k - 1 \in 0..n /\ k \in 0..n /\ n \in 0..n
  OBVIOUS
<1>2. f[k] = f[k - 1] \o s[k]
  BY DEF Made, Joins
<1> QED
  BY <1>1, <1>2 DEF Made

\* Between s and t, the last text that is not empty grows; a text takes the
\* place of an empty one before it; the first text that is not empty goes.
Grows(s, t, k, b, n) ==
  /\ \A i \in 1..n : i # k => t[i] = s[i]
  /\ \A i \in 1..n : i > k => s[i] = <<>>
  /\ t[k] = s[k] \o b
Moves(s, t, k, n) ==
  /\ \A i \in 1..n : i # k /\ i # k + 1 => t[i] = s[i]
  /\ t[k] = s[k + 1] /\ s[k] = <<>> /\ t[k + 1] = <<>>
Sheds(s, t, k, n) ==
  /\ \A i \in 1..n : i # k => t[i] = s[i]
  /\ \A i \in 1..n : i < k => s[i] = <<>>
  /\ t[k] = <<>>

LEMMA FlattenGrows ==
  ASSUME NEW n \in Nat \ {0}, NEW k \in 1..n,
         NEW s \in [1..n -> Seq(Nat)], NEW t \in [1..n -> Seq(Nat)],
         NEW b \in Seq(Nat), Grows(s, t, k, b, n)
  PROVE  FlattenSeq(t) = FlattenSeq(s) \o b
<1>0. n \in Nat
  OBVIOUS
<1>1. PICK f : Made(f, s, n)
  BY <1>0, JoinsExists DEF Made
<1>2. PICK g : Made(g, t, n)
  BY <1>0, JoinsExists DEF Made
<1>3. f[k] = f[k - 1] \o s[k] /\ g[k] = g[k - 1] \o t[k] /\ k - 1 \in 0..n
      /\ f[k - 1] \in Seq(Nat) /\ s[k] \in Seq(Nat)
  BY <1>0, <1>1, <1>2, JoinsStep
<1>4. g[k - 1] = f[k - 1]
  <2>1. PICK p \in 0..n : p = k - 1
    BY <1>3
  <2>2. SameUpto(t, s, p, n)
    BY <2>1 DEF SameUpto, Grows
  <2>3. g[p] = f[p]
    BY <1>0, <1>1, <1>2, <2>2, JoinsSame
  <2> QED
    BY <2>1, <2>3
<1>5. g[k] = f[k] \o b
  <2>1. \A x, y \in Seq(Nat) : (x \o y) \o b = x \o (y \o b)
    BY Regroup
  <2> QED
    BY <1>3, <1>4, <2>1 DEF Grows
<1>6. f[n] = f[k] /\ g[n] = g[k]
  <2>1. k \in 0..n /\ n \in k..n
    OBVIOUS
  <2>2. \A i \in 1..n : i > k /\ i <= n => s[i] = <<>> /\ t[i] = <<>>
    BY DEF Grows
  <2>3. f[n] = f[k]
    BY <1>1, <2>1, <2>2, JoinsEmpty
  <2>4. g[n] = g[k]
    BY <1>2, <2>1, <2>2, JoinsEmpty
  <2> QED
    BY <2>3, <2>4
<1>7. FlattenSeq(s) = f[n] /\ FlattenSeq(t) = g[n]
  BY <1>1, <1>2, FlattenJoins DEF Made
<1> QED
  BY <1>5, <1>6, <1>7

LEMMA FlattenMoves ==
  ASSUME NEW n \in Nat \ {0}, NEW k \in 1..n, NEW q \in 1..n, q = k + 1,
         NEW s \in [1..n -> Seq(Nat)], NEW t \in [1..n -> Seq(Nat)],
         Moves(s, t, k, n)
  PROVE  FlattenSeq(t) = FlattenSeq(s)
<1>0. n \in Nat
  OBVIOUS
<1>1. PICK f : Made(f, s, n)
  BY <1>0, JoinsExists DEF Made
<1>2. PICK g : Made(g, t, n)
  BY <1>0, JoinsExists DEF Made
<1>3. /\ f[k] = f[k - 1] \o s[k] /\ g[k] = g[k - 1] \o t[k] /\ k - 1 \in 0..n
      /\ f[k - 1] \in Seq(Nat) /\ g[k] \in Seq(Nat) /\ q \in 0..n
  <2>1. f[k] = f[k - 1] \o s[k] /\ k - 1 \in 0..n /\ f[k - 1] \in Seq(Nat)
    BY <1>0, <1>1, JoinsStep
  <2>2. g[k] = g[k - 1] \o t[k] /\ g[k] \in Seq(Nat)
    BY <1>0, <1>2, JoinsStep
  <2> QED
    BY <2>1, <2>2
<1>4. f[q] = f[q - 1] \o s[q] /\ g[q] = g[q - 1] \o t[q] /\ g[q] \in Seq(Nat)
  <2>1. f[q] = f[q - 1] \o s[q]
    BY <1>0, <1>1, JoinsStep
  <2>2. g[q] = g[q - 1] \o t[q] /\ g[q] \in Seq(Nat)
    BY <1>0, <1>2, JoinsStep
  <2> QED
    BY <2>1, <2>2
<1>5. g[k - 1] = f[k - 1]
  <2>1. PICK p \in 0..n : p = k - 1
    BY <1>3
  <2>2. SameUpto(t, s, p, n)
    BY <2>1 DEF SameUpto, Moves
  <2>3. g[p] = f[p]
    BY <1>0, <1>1, <1>2, <2>2, JoinsSame
  <2> QED
    BY <2>1, <2>3
<1>6. q - 1 = k
  OBVIOUS
<1>7. f[k] = f[k - 1]
  BY <1>3, Concat DEF Moves
<1>8. g[q] = g[k]
  BY <1>3, <1>4, <1>6, Concat DEF Moves
<1>9. f[q] = g[q]
  BY <1>3, <1>4, <1>5, <1>6, <1>7, <1>8 DEF Moves
<1>10. f[n] = g[n]
  <2>1. <<>> \in Seq(Nat) /\ Ahead(<<>>, f, g, q)
    BY <1>4, <1>9, Concat DEF Ahead
  <2>2. SameAfter(s, t, q, n)
    BY DEF SameAfter, Moves
  <2>3. Ahead(<<>>, f, g, n)
    BY <1>0, <1>1, <1>2, <1>3, <2>1, <2>2, JoinsOn
  <2>4. g[n] \in Seq(Nat)
    BY <1>2 DEF Made
  <2> QED
    BY <2>3, <2>4, Concat DEF Ahead
<1>11. FlattenSeq(s) = f[n] /\ FlattenSeq(t) = g[n]
  BY <1>1, <1>2, FlattenJoins DEF Made
<1> QED
  BY <1>10, <1>11

LEMMA FlattenSheds ==
  ASSUME NEW n \in Nat \ {0}, NEW k \in 1..n,
         NEW s \in [1..n -> Seq(Nat)], NEW t \in [1..n -> Seq(Nat)],
         Sheds(s, t, k, n)
  PROVE  FlattenSeq(s) = s[k] \o FlattenSeq(t)
<1>0. n \in Nat
  OBVIOUS
<1>1. PICK f : Made(f, s, n)
  BY <1>0, JoinsExists DEF Made
<1>2. PICK g : Made(g, t, n)
  BY <1>0, JoinsExists DEF Made
<1>3. /\ f[k] = f[k - 1] \o s[k] /\ g[k] = g[k - 1] \o t[k] /\ k - 1 \in 0..n
      /\ s[k] \in Seq(Nat) /\ k \in 0..n
  BY <1>1, <1>2, JoinsStep
<1>4. g[k - 1] = <<>> /\ f[k - 1] = <<>>
  <2>1. PICK p \in 0..n : p = k - 1
    BY <1>3
  <2>2. \A i \in 1..n : i > 0 /\ i <= p => s[i] = <<>> /\ t[i] = <<>>
    <3>1. ASSUME NEW i \in 1..n, i > 0, i <= p
          PROVE  s[i] = <<>> /\ t[i] = <<>>
      <4>1. i < k /\ i # k
        BY <2>1, <3>1
      <4> QED
        BY <4>1 DEF Sheds
    <3> QED
      BY <3>1
  <2>3. 0 \in 0..n /\ p \in 0..n
    OBVIOUS
  <2>4. f[p] = f[0]
    BY <1>1, <2>2, <2>3, JoinsEmpty
  <2>5. g[p] = g[0]
    BY <1>2, <2>2, <2>3, JoinsEmpty
  <2> QED
    BY <1>1, <1>2, <2>1, <2>4, <2>5 DEF Made, Joins
<1>5. f[k] = s[k] /\ g[k] = <<>>
  <2>1. <<>> \in Seq(Nat)
    OBVIOUS
  <2> QED
    BY <1>3, <1>4, <2>1, Concat DEF Sheds
<1>6. f[n] = s[k] \o g[n]
  <2>1. Ahead(s[k], f, g, k)
    BY <1>3, <1>5, Concat DEF Ahead
  <2>2. SameAfter(s, t, k, n)
    BY DEF SameAfter, Sheds
  <2>3. Ahead(s[k], f, g, n)
    BY <1>0, <1>1, <1>2, <1>3, <2>1, <2>2, JoinsOn
  <2> QED
    BY <2>3 DEF Ahead
<1>7. FlattenSeq(s) = f[n] /\ FlattenSeq(t) = g[n]
  BY <1>1, <1>2, FlattenJoins DEF Made
<1> QED
  BY <1>6, <1>7
-----------------------------------------------------------------------------
(* The files as one log *)

Contents == [Indices -> Seq(Nat) \cup {None}]
Read(text) == IF text = None THEN <<>> ELSE text
Slots(fs) == [j \in 1..Cardinality(Indices) |-> Read(fs[Cardinality(Indices) - j])]
Joined(fs) == FlattenSeq(Slots(fs))

LEMMA IndexCount ==
  \E n \in Nat \ {0} : Indices = 0..n - 1 /\ Cardinality(Indices) = n
<1>1. PICK top \in Nat : Indices = 0..top
  BY IndexFacts
<1>2. Cardinality(0..top) = top + 1
  <2>1. 0 \in Int /\ top \in Int /\ ~(0 > top)
    OBVIOUS
  <2> QED
    BY <2>1, FS_Interval
<1>3. top + 1 \in Nat \ {0} /\ 0..top = 0..(top + 1) - 1
  OBVIOUS
<1> QED
  BY <1>1, <1>2, <1>3

LEMMA SlotFacts ==
  ASSUME NEW n \in Nat \ {0}, Indices = 0..n - 1, Cardinality(Indices) = n,
         NEW fs \in Contents
  PROVE  /\ Slots(fs) \in [1..n -> Seq(Nat)]
         /\ \A i \in 1..n : n - i \in Indices /\ Slots(fs)[i] = Read(fs[n - i])
<1>1. \A i \in 1..n : n - i \in 0..n - 1
  OBVIOUS
<1>2. \A i \in 1..n : n - i \in Indices
  BY <1>1
<1>3. \A i \in 1..n : Read(fs[n - i]) \in Seq(Nat)
  BY <1>2 DEF Contents, Read
<1> QED
  BY <1>2, <1>3 DEF Slots

\* What the open file gets comes at the end.
LEMMA JoinedGets ==
  ASSUME NEW fs \in Contents, NEW gs \in Contents, NEW h \in Indices, NEW b \in Seq(Nat),
         fs[h] # None, \A j \in Indices : j < h => fs[j] = None,
         \A j \in Indices : j # h => gs[j] = fs[j],
         gs[h] = fs[h] \o b, gs[h] # None
  PROVE  Joined(gs) = Joined(fs) \o b
<1>1. PICK n \in Nat \ {0} : Indices = 0..n - 1 /\ Cardinality(Indices) = n
  BY IndexCount
<1>2. PICK s : s = Slots(fs)
  OBVIOUS
<1>3. PICK t : t = Slots(gs)
  OBVIOUS
<1>4. /\ s \in [1..n -> Seq(Nat)]
      /\ \A i \in 1..n : n - i \in Indices /\ s[i] = Read(fs[n - i])
  BY <1>1, <1>2, SlotFacts
<1>5. /\ t \in [1..n -> Seq(Nat)]
      /\ \A i \in 1..n : t[i] = Read(gs[n - i])
  BY <1>1, <1>3, SlotFacts
<1>6. PICK k \in 1..n : k = n - h
  BY <1>1
<1>7. n - k = h
  BY <1>1, <1>6
<1>8. ASSUME NEW i \in 1..n, i # k
      PROVE  t[i] = s[i]
  <2>1. n - i \in Indices /\ n - i # h
    BY <1>4, <1>6, <1>7, <1>8
  <2>2. gs[n - i] = fs[n - i]
    BY <2>1
  <2> QED
    BY <1>4, <1>5, <2>2
<1>9. ASSUME NEW i \in 1..n, i > k
      PROVE  s[i] = <<>>
  <2>1. n - i \in Indices /\ n - i < h
    <3>1. n - i < n - k
      BY <1>9
    <3> QED
      BY <1>4, <1>7, <3>1
  <2>2. fs[n - i] = None
    BY <2>1
  <2> QED
    BY <1>4, <2>2 DEF Read
<1>10. t[k] = s[k] \o b
  BY <1>4, <1>5, <1>7 DEF Read
<1>11. Grows(s, t, k, b, n)
  BY <1>8, <1>9, <1>10 DEF Grows
<1>12. FlattenSeq(t) = FlattenSeq(s) \o b
  BY <1>4, <1>5, <1>11, FlattenGrows
<1> QED
  BY <1>2, <1>3, <1>12 DEF Joined

\* A rename to a free name changes nothing.
LEMMA JoinedMoves ==
  ASSUME NEW fs \in Contents, NEW gs \in Contents, NEW h \in Indices, h - 1 \in Indices,
         \A j \in Indices : j # h /\ j # h - 1 => gs[j] = fs[j],
         fs[h] = None, gs[h] = fs[h - 1], gs[h - 1] = None
  PROVE  Joined(gs) = Joined(fs)
<1>1. PICK n \in Nat \ {0} : Indices = 0..n - 1 /\ Cardinality(Indices) = n
  BY IndexCount
<1>2. PICK s : s = Slots(fs)
  OBVIOUS
<1>3. PICK t : t = Slots(gs)
  OBVIOUS
<1>4. /\ s \in [1..n -> Seq(Nat)]
      /\ \A i \in 1..n : n - i \in Indices /\ s[i] = Read(fs[n - i])
  BY <1>1, <1>2, SlotFacts
<1>5. /\ t \in [1..n -> Seq(Nat)]
      /\ \A i \in 1..n : t[i] = Read(gs[n - i])
  BY <1>1, <1>3, SlotFacts
<1>6. PICK k \in 1..n : k = n - h
  BY <1>1
<1>7. n - k = h /\ n - (k + 1) = h - 1 /\ k + 1 \in 1..n
  BY <1>1, <1>6
<1>8. ASSUME NEW i \in 1..n, i # k, i # k + 1
      PROVE  t[i] = s[i]
  <2>1. n - i \in Indices /\ n - i # h /\ n - i # h - 1
    <3>1. n - i # n - k /\ n - i # n - (k + 1)
      BY <1>8
    <3> QED
      BY <1>4, <1>7, <3>1
  <2>2. gs[n - i] = fs[n - i]
    BY <2>1
  <2> QED
    BY <1>4, <1>5, <2>2
<1>9. /\ s[k] = Read(fs[h]) /\ s[k + 1] = Read(fs[h - 1])
      /\ t[k] = Read(gs[h]) /\ t[k + 1] = Read(gs[h - 1])
  BY <1>4, <1>5, <1>7
<1>10. t[k] = s[k + 1] /\ s[k] = <<>> /\ t[k + 1] = <<>>
  BY <1>9 DEF Read
<1>11. Moves(s, t, k, n)
  BY <1>8, <1>10 DEF Moves
<1>12. PICK q \in 1..n : q = k + 1
  BY <1>7
<1>13. FlattenSeq(t) = FlattenSeq(s)
  BY <1>4, <1>5, <1>11, <1>12, FlattenMoves
<1> QED
  BY <1>2, <1>3, <1>13 DEF Joined

\* The oldest file is the beginning of the log.
LEMMA JoinedSheds ==
  ASSUME NEW fs \in Contents, NEW gs \in Contents, NEW h \in Indices,
         \A j \in Indices : j > h => fs[j] = None,
         \A j \in Indices : j # h => gs[j] = fs[j],
         Read(gs[h]) = <<>>
  PROVE  Joined(fs) = Read(fs[h]) \o Joined(gs)
<1>1. PICK n \in Nat \ {0} : Indices = 0..n - 1 /\ Cardinality(Indices) = n
  BY IndexCount
<1>2. PICK s : s = Slots(fs)
  OBVIOUS
<1>3. PICK t : t = Slots(gs)
  OBVIOUS
<1>4. /\ s \in [1..n -> Seq(Nat)]
      /\ \A i \in 1..n : n - i \in Indices /\ s[i] = Read(fs[n - i])
  BY <1>1, <1>2, SlotFacts
<1>5. /\ t \in [1..n -> Seq(Nat)]
      /\ \A i \in 1..n : t[i] = Read(gs[n - i])
  BY <1>1, <1>3, SlotFacts
<1>6. PICK k \in 1..n : k = n - h
  BY <1>1
<1>7. n - k = h
  BY <1>1, <1>6
<1>8. ASSUME NEW i \in 1..n, i # k
      PROVE  t[i] = s[i]
  <2>1. n - i \in Indices /\ n - i # h
    BY <1>4, <1>6, <1>7, <1>8
  <2>2. gs[n - i] = fs[n - i]
    BY <2>1
  <2> QED
    BY <1>4, <1>5, <2>2
<1>9. ASSUME NEW i \in 1..n, i < k
      PROVE  s[i] = <<>>
  <2>1. n - i \in Indices /\ n - i > h
    BY <1>4, <1>7, <1>9
  <2>2. fs[n - i] = None
    BY <2>1
  <2> QED
    BY <1>4, <2>2 DEF Read
<1>10. t[k] = <<>> /\ s[k] = Read(fs[h])
  BY <1>4, <1>5, <1>7
<1>11. Sheds(s, t, k, n)
  BY <1>8, <1>9, <1>10 DEF Sheds
<1>12. FlattenSeq(s) = s[k] \o FlattenSeq(t)
  BY <1>4, <1>5, <1>11, FlattenSheds
<1> QED
  BY <1>2, <1>3, <1>10, <1>12 DEF Joined

\* A file that is empty reads like one that is not there.
LEMMA JoinedSame ==
  ASSUME NEW fs \in Contents, NEW gs \in Contents,
         \A j \in Indices : Read(gs[j]) = Read(fs[j])
  PROVE  Joined(gs) = Joined(fs)
<1>1. PICK n \in Nat \ {0} : Indices = 0..n - 1 /\ Cardinality(Indices) = n
  BY IndexCount
<1>2. \A i \in 1..n : n - i \in Indices
  BY <1>1
<1>3. \A i \in 1..n : Read(gs[n - i]) = Read(fs[n - i])
  BY <1>2
<1>4. Slots(gs) = Slots(fs)
  BY <1>1, <1>3 DEF Slots
<1> QED
  BY <1>4 DEF Joined

LEMMA JoinedType ==
  ASSUME NEW fs \in Contents
  PROVE  Joined(fs) \in Seq(Nat)
<1>1. PICK n \in Nat \ {0} : Indices = 0..n - 1 /\ Cardinality(Indices) = n
  BY IndexCount
<1>2. PICK s \in [1..n -> Seq(Nat)] : s = Slots(fs)
  BY <1>1, SlotFacts
<1>3. PICK j \in [0..n -> Seq(Nat)] : Joins(j, s, n)
  BY JoinsExists
<1>4. FlattenSeq(s) = j[n]
  BY <1>3, FlattenJoins
<1>5. j[n] \in Seq(Nat)
  <2>1. n \in 0..n
    OBVIOUS
  <2> QED
    BY <2>1
<1> QED
  BY <1>2, <1>4, <1>5 DEF Joined

LEMMA KeptIsJoined == Kept = Joined(files) /\ Kept' = Joined(files')
BY DEF Kept, Content, Joined, Slots, Read

LEMMA ByteFacts ==
  ASSUME TypeOK
  PROVE  /\ files \in Contents /\ buffer \in Seq(Nat)
         /\ lines # <<>> => Body \in Seq(Nat)
         /\ <<NL>> \in Seq(Nat) /\ Kept \in Seq(Nat)
<1>1. Text \subseteq Seq(Nat)
  <2>1. 0..Len(lines) \subseteq Nat
    OBVIOUS
  <2> QED
    BY <2>1, SeqMonotonic DEF Text
<1>2. files \in [Indices -> Text \cup {None}]
  BY DEF TypeOK, Text
<1>3. files \in Contents
  BY <1>1, <1>2 DEF Contents
<1>4. Kept \in Seq(Nat)
  BY <1>3, KeptIsJoined, JoinedType
<1> QED
  BY <1>1, <1>3, <1>4, TextFacts

LEMMA PrefixOfConcat ==
  ASSUME NEW a \in Seq(Nat), NEW b \in Seq(Nat)
  PROVE  IsPrefix(a, a \o b)
<1>1. PICK c \in Seq(Nat) : c = a \o b
  BY ConcatProperties
<1>2. /\ Len(c) = Len(a) + Len(b) /\ Len(a) \in Nat /\ Len(b) \in Nat
      /\ \A i \in 1..Len(a) : c[i] = a[i]
  BY <1>1, ConcatProperties, LenProperties
<1>3. SubSeq(a, 1, Len(a)) = SubSeq(c, 1, Len(a))
  BY <1>2
<1> QED
  BY <1>1, <1>2, <1>3 DEF IsPrefix

LEMMA SuffixOfConcat ==
  ASSUME NEW a \in Seq(Nat), NEW b \in Seq(Nat)
  PROVE  IsSuffix(b, a \o b)
<1>0. \A m \in Nat : \A i \in 1..m : m - i + 1 \in 1..m
  OBVIOUS
<1>1. PICK c \in Seq(Nat) : c = a \o b
  BY ConcatProperties
<1>2. /\ Len(c) = Len(a) + Len(b) /\ Len(a) \in Nat /\ Len(b) \in Nat
      /\ \A i \in 1..Len(b) : c[i + Len(a)] = b[i]
  <2>1. /\ Len(c) = Len(a) + Len(b) /\ Len(a) \in Nat /\ Len(b) \in Nat
        /\ \A i \in 1..Len(a) + Len(b) : c[i] = IF i <= Len(a) THEN a[i] ELSE b[i - Len(a)]
    BY <1>1, ConcatProperties, LenProperties
  <2>2. ASSUME NEW i \in 1..Len(b)
        PROVE  c[i + Len(a)] = b[i]
    <3>1. i + Len(a) \in 1..Len(a) + Len(b) /\ ~(i + Len(a) <= Len(a))
          /\ (i + Len(a)) - Len(a) = i
      BY <2>1
    <3> QED
      BY <2>1, <3>1
  <2> QED
    BY <2>1, <2>2
<1>3. PICK r : r = Reverse(b)
  OBVIOUS
<1>4. PICK s : s = Reverse(c)
  OBVIOUS
<1>5. r \in Seq(Nat) /\ Len(r) = Len(b) /\ \A i \in 1..Len(b) : r[i] = b[Len(b) - i + 1]
  <2>1. \A i \in 1..Len(b) : Len(b) - i + 1 \in 1..Len(b)
    BY <1>0, <1>2
  <2>2. \A i \in 1..Len(b) : b[Len(b) - i + 1] \in Nat
    BY <2>1, ElementOfSeq
  <2> QED
    BY <1>2, <1>3, <2>2 DEF Reverse
<1>6. s \in Seq(Nat) /\ Len(s) = Len(c) /\ \A i \in 1..Len(c) : s[i] = c[Len(c) - i + 1]
  <2>1. \A i \in 1..Len(c) : Len(c) - i + 1 \in 1..Len(c)
    BY <1>0, LenProperties
  <2>2. \A i \in 1..Len(c) : c[Len(c) - i + 1] \in Nat
    BY <2>1, ElementOfSeq
  <2> QED
    BY <1>2, <1>4, <2>2 DEF Reverse
<1>7. ASSUME NEW i \in 1..Len(b)
      PROVE  s[i] = r[i]
  <2>1. PICK k \in 1..Len(b) : k = Len(b) - i + 1
    BY <1>0, LenProperties
  <2>2. i \in 1..Len(c) /\ Len(c) - i + 1 = k + Len(a)
    <3>1. Len(c) = Len(a) + Len(b) /\ Len(a) \in Nat /\ Len(b) \in Nat
      BY <1>2
    <3> QED
      BY <2>1, <3>1
  <2>3. s[i] = c[k + Len(a)] /\ c[k + Len(a)] = b[k]
    BY <1>2, <1>6, <2>2
  <2> QED
    BY <1>5, <2>1, <2>3
<1>8. SubSeq(r, 1, Len(r)) = SubSeq(s, 1, Len(r)) /\ Len(r) <= Len(s)
  BY <1>2, <1>5, <1>6, <1>7
<1>9. IsPrefix(r, s)
  BY <1>8 DEF IsPrefix
<1> QED
  BY <1>1, <1>3, <1>4, <1>9 DEF IsSuffix
-----------------------------------------------------------------------------
(* The log grows at its end *)

\* As long as the configuration stays, no file is past max_files, and a rotation
\* leaves behind it a free name, into which the next newer file moves.
WithinLimit == \A i \in Indices : i >= max_files => files[i] = None
Shifts ==
  pc = "shift" =>
    /\ buffer = <<>> /\ shift < max_files
    /\ shift = max_files - 1 \/ files[shift] = None

\* What is in the files and the buffer afterwards continues what was there, and
\* so does what is in the files.
Adds(x) == Log' = Log \o x /\ \E y \in Seq(Nat) : Kept' = Kept \o y
Continues == \E x \in Seq(Nat) : Adds(x)

LEMMA TextIsBytes == Text \subseteq Seq(Nat)
<1>1. 0..Len(lines) \subseteq Nat
  OBVIOUS
<1> QED
  BY <1>1, SeqMonotonic DEF Text

\* A text cut in two.
LEMMA Cut ==
  ASSUME NEW a \in Seq(Nat), NEW k \in 0..Len(a)
  PROVE  SubSeq(a, 1, k) \o SubSeq(a, k + 1, Len(a)) = a
<1>1. Len(a) \in Nat
  OBVIOUS
<1>2. 1 \in 1..Len(a) + 1 /\ k \in 1 - 1..Len(a) /\ Len(a) \in k..Len(a)
  BY <1>1
<1>3. SubSeq(a, 1, k) \o SubSeq(a, k + 1, Len(a)) = SubSeq(a, 1, Len(a))
  BY <1>2, ConcatAdjacentSubSeq
<1>4. SubSeq(a, 1, Len(a)) = a
  BY SubSeqFull
<1> QED
  BY <1>3, <1>4

\* A beginning of two texts is one of the first, or the first and more.
LEMMA CutOfTwo ==
  ASSUME NEW a \in Seq(Nat), NEW b \in Seq(Nat), NEW k \in 0..Len(a \o b)
  PROVE  \/ \E x \in Seq(Nat) : SubSeq(a \o b, 1, k) = a \o x
         \/ \E x \in Seq(Nat) : a = SubSeq(a \o b, 1, k) \o x
<1>0. PICK head : head = SubSeq(a \o b, 1, k)
  OBVIOUS
<1>1. PICK c \in Seq(Nat) : c = a \o b
  BY ConcatProperties
<1>2. Len(a) \in Nat /\ Len(c) \in Nat /\ Len(a) <= Len(c) /\ k \in 0..Len(c)
  BY <1>1, ConcatProperties, LenProperties
<1>3. SubSeq(c, 1, Len(a)) = a
  <2>1. SubSeq(a, 1, Len(a)) = SubSeq(a \o b, 1, Len(a))
    BY PrefixOfConcat DEF IsPrefix
  <2> QED
    BY <1>1, <2>1, SubSeqFull
<1>4. \A i, j \in 0..Len(c) : i <= j =>
        SubSeq(c, i + 1, j) \in Seq(Nat) /\ SubSeq(c, 1, i) \o SubSeq(c, i + 1, j) = SubSeq(c, 1, j)
  <2> SUFFICES ASSUME NEW i \in 0..Len(c), NEW j \in 0..Len(c), i <= j
               PROVE  /\ SubSeq(c, i + 1, j) \in Seq(Nat)
                      /\ SubSeq(c, 1, i) \o SubSeq(c, i + 1, j) = SubSeq(c, 1, j)
    OBVIOUS
  <2>1. 1 \in 1..Len(c) + 1 /\ i \in 1 - 1..Len(c) /\ j \in i..Len(c) /\ i + 1 \in Int /\ j \in Int
    BY <1>2
  <2>2. \A m \in i + 1..j : c[m] \in Nat
    BY <1>2, ElementOfSeq
  <2> QED
    BY <2>1, <2>2, ConcatAdjacentSubSeq, SubSeqProperties
<1>5. CASE k <= Len(a)
  <2>1. Len(a) \in 0..Len(c)
    BY <1>2
  <2>2. SubSeq(c, k + 1, Len(a)) \in Seq(Nat) /\ head \o SubSeq(c, k + 1, Len(a)) = a
    BY <1>0, <1>1, <1>2, <1>3, <1>4, <1>5, <2>1
  <2> QED
    BY <1>0, <2>2
<1>6. CASE Len(a) <= k
  <2>1. Len(a) \in 0..Len(c)
    BY <1>2
  <2>2. SubSeq(c, Len(a) + 1, k) \in Seq(Nat) /\ a \o SubSeq(c, Len(a) + 1, k) = head
    BY <1>0, <1>1, <1>2, <1>3, <1>4, <1>6, <2>1
  <2> QED
    BY <1>0, <2>2
<1>7. k <= Len(a) \/ Len(a) <= k
  BY <1>2
<1> QED
  BY <1>5, <1>6, <1>7



LEMMA GetsLog ==
  ASSUME WInv, WithinLimit, NEW b \in Text, Gets(b), UNCHANGED <<max_files, handle, lines>>
  PROVE  Kept' = Kept \o b /\ WithinLimit'
<1>1. /\ files \in Contents /\ handle \in Indices /\ files[handle] # None
      /\ \A j \in Indices : j < handle => files[j] = None
      /\ b \in Seq(Nat)
  BY ByteFacts, TextIsBytes DEF WInv, TypeOK, OpenIsNewest
<1>2. files' \in Contents /\ files'[handle] # None
  BY GetsFacts, TextIsBytes DEF Contents
<1>3. /\ files'[handle] = files[handle] \o b
      /\ \A j \in Indices : j # handle => files'[j] = files[j]
  BY <1>1 DEF Gets, Contents
<1>4. PICK gs : gs = files'
  OBVIOUS
<1>5. Joined(gs) = Joined(files) \o b
  <2>1. /\ gs \in Contents /\ gs[handle] # None /\ gs[handle] = files[handle] \o b
        /\ \A j \in Indices : j # handle => gs[j] = files[j]
    BY <1>2, <1>3, <1>4
  <2> QED
    BY <1>1, <2>1, JoinedGets
<1>6. WithinLimit'
  <2> SUFFICES ASSUME NEW i \in Indices, i >= max_files
               PROVE  files'[i] = None
    BY DEF WithinLimit
  <2>1. files[i] = None
    BY DEF WithinLimit
  <2>2. i # handle
    BY <1>1, <2>1
  <2> QED
    BY <1>3, <2>1, <2>2
<1> QED
  BY <1>4, <1>5, <1>6, KeptIsJoined

LEMMA Unwritten ==
  ASSUME WInv, WithinLimit, UNCHANGED <<files, buffer, max_files>>
  PROVE  Continues /\ WithinLimit'
<1>1. Log' = Log /\ Kept' = Kept
  BY DEF Log, Kept, Content
<1>2. Log \in Seq(Nat) /\ Kept \in Seq(Nat) /\ <<>> \in Seq(Nat)
  BY ByteFacts, Concat DEF WInv, Log
<1>3. Log' = Log \o <<>> /\ Kept' = Kept \o <<>>
  BY <1>1, <1>2, Concat
<1> QED
  BY <1>2, <1>3 DEF Adds, Continues, WithinLimit

LEMMA FlushedLog ==
  ASSUME WInv, WithinLimit, Flushed, UNCHANGED <<max_files, handle, lines>>
  PROVE  Continues /\ WithinLimit' /\ Kept' = Log /\ Log' = Log
<1>1. buffer \in Text /\ buffer \in Seq(Nat) /\ Kept \in Seq(Nat) /\ <<>> \in Seq(Nat)
  BY TextFacts, ByteFacts DEF WInv
<1>2. Kept' = Kept \o buffer /\ WithinLimit' /\ buffer' = <<>>
  BY <1>1, GetsLog DEF Flushed
<1>3. Log' = Log /\ Log = Log \o <<>>
  BY <1>1, <1>2, Concat DEF Log
<1> QED
  BY <1>1, <1>2, <1>3 DEF Adds, Continues, Log

LEMMA BrokenLog ==
  ASSUME WInv, WithinLimit, FlushBroken, UNCHANGED <<max_files, handle, lines>>
  PROVE  Continues /\ WithinLimit'
<1>1. buffer \in Text /\ buffer \in Seq(Nat) /\ Kept \in Seq(Nat) /\ <<>> \in Seq(Nat)
      /\ Len(buffer) \in Nat
  BY TextFacts, ByteFacts DEF WInv
<1>2. PICK k \in 0..(Len(buffer) - 1) : /\ Gets(SubSeq(buffer, 1, k))
                                       /\ buffer' = SubSeq(buffer, k + 1, Len(buffer))
  BY DEF FlushBroken
<1>3. PICK head : head = SubSeq(buffer, 1, k)
  OBVIOUS
<1>4. PICK tail : tail = SubSeq(buffer, k + 1, Len(buffer))
  OBVIOUS
<1>5. head \in Text /\ tail \in Text /\ buffer = head \o tail
  <2>1. k \in 0..Len(buffer)
    BY <1>1
  <2> QED
    BY <1>1, <1>3, <1>4, <2>1, Slices, Cut DEF WInv
<1>6. head \in Seq(Nat) /\ tail \in Seq(Nat)
  BY <1>5, TextIsBytes
<1>7. Kept' = Kept \o head /\ WithinLimit' /\ buffer' = tail
  BY <1>2, <1>3, <1>4, <1>5, GetsLog
<1>8. Log' = Kept \o buffer
  <2>1. (Kept \o head) \o tail = Kept \o (head \o tail)
    BY <1>1, <1>6, Regroup
  <2> QED
    BY <1>5, <1>7, <2>1 DEF Log
<1>9. Log' = Log \o <<>>
  BY <1>1, <1>8, Concat DEF Log
<1> QED
  BY <1>1, <1>6, <1>7, <1>9 DEF Adds, Continues

LEMMA PutLog ==
  ASSUME WInv, WithinLimit, NEW b \in Text, Put(b), UNCHANGED <<max_files, handle, lines>>
  PROVE  Adds(b) /\ Continues /\ WithinLimit'
<1>1. /\ buffer \in Text /\ buffer \o b \in Text
      /\ buffer \in Seq(Nat) /\ Kept \in Seq(Nat) /\ b \in Seq(Nat)
      /\ buffer \o b \in Seq(Nat)
  BY TextFacts, ByteFacts, TextIsBytes DEF WInv
<1>2. (Kept \o buffer) \o b = Kept \o (buffer \o b) /\ Kept \o (buffer \o b) \in Seq(Nat)
      /\ (Kept \o (buffer \o b)) \o <<>> = Kept \o (buffer \o b)
  <2>1. (Kept \o buffer) \o b = Kept \o (buffer \o b)
    BY <1>1, Regroup
  <2>2. Kept \o (buffer \o b) \in Seq(Nat)
    BY <1>1, ConcatProperties
  <2>3. (Kept \o (buffer \o b)) \o <<>> = Kept \o (buffer \o b)
    BY <2>2, ConcatEmptySeq
  <2> QED
    BY <2>1, <2>2, <2>3
<1>3. CASE Gets(buffer \o b) /\ buffer' = <<>>
  <2>1. Kept' = Kept \o (buffer \o b) /\ WithinLimit'
    BY <1>1, <1>3, GetsLog
  <2>2. Log' = Log \o b
    BY <1>2, <1>3, <2>1 DEF Log
  <2> QED
    BY <1>1, <2>1, <2>2 DEF Adds, Continues
<1>4. CASE Gets(buffer) /\ buffer' = b
  <2>1. Kept' = Kept \o buffer /\ WithinLimit'
    BY <1>1, <1>4, GetsLog
  <2>2. Log' = Log \o b
    BY <1>4, <2>1 DEF Log
  <2> QED
    BY <1>1, <2>1, <2>2 DEF Adds, Continues
<1>5. CASE buffer' = buffer \o b /\ UNCHANGED files
  <2>1. Kept' = Kept /\ WithinLimit'
    BY <1>5 DEF Kept, Content, WithinLimit
  <2>2. Log' = Log \o b
    BY <1>2, <1>5, <2>1 DEF Log
  <2>3. Kept' = Kept \o <<>> /\ <<>> \in Seq(Nat)
    BY <1>1, <2>1, Concat
  <2> QED
    BY <1>1, <2>1, <2>2, <2>3 DEF Adds, Continues
<1> QED
  BY <1>3, <1>4, <1>5 DEF Put

LEMMA PutBrokenLog ==
  ASSUME WInv, WithinLimit, NEW b \in Text, PutBroken(b),
         UNCHANGED <<max_files, handle, lines>>
  PROVE  Continues /\ WithinLimit'
<1>1. CASE FlushBroken
  BY <1>1, BrokenLog
<1>2. CASE /\ \E k \in 0..(Len(b) - 1) : Gets(buffer \o SubSeq(b, 1, k))
           /\ buffer' = <<>>
  <2>1. PICK k \in 0..(Len(b) - 1) : Gets(buffer \o SubSeq(b, 1, k))
    BY <1>2
  <2>2. Len(b) \in Nat
    BY TextFacts DEF WInv
  <2>3. PICK head : head = SubSeq(b, 1, k)
    OBVIOUS
  <2>4. head \in Text
    <3>1. k \in 0..Len(b)
      BY <2>2
    <3> QED
      BY <2>3, <3>1, Slices DEF WInv
  <2>5. /\ buffer \in Text /\ buffer \o head \in Text
        /\ buffer \in Seq(Nat) /\ Kept \in Seq(Nat) /\ head \in Seq(Nat)
    BY <2>4, TextFacts, ByteFacts, TextIsBytes DEF WInv
  <2>6. Kept' = Kept \o (buffer \o head) /\ WithinLimit'
    BY <2>1, <2>3, <2>5, GetsLog
  <2>7. /\ (Kept \o buffer) \o head = Kept \o (buffer \o head)
        /\ (Kept \o (buffer \o head)) \o <<>> = Kept \o (buffer \o head)
    <3>1. (Kept \o buffer) \o head = Kept \o (buffer \o head)
      BY <2>5, Regroup
    <3>2. Kept \o (buffer \o head) \in Seq(Nat)
      <4>1. buffer \o head \in Seq(Nat)
        BY <2>5, ConcatProperties
      <4> QED
        BY <2>5, <4>1, ConcatProperties
    <3>3. (Kept \o (buffer \o head)) \o <<>> = Kept \o (buffer \o head)
      BY <3>2, ConcatEmptySeq
    <3> QED
      BY <3>1, <3>3
  <2>8. Log' = Log \o head
    BY <1>2, <2>6, <2>7 DEF Log
  <2>9. buffer \o head \in Seq(Nat)
    BY <2>5, ConcatProperties
  <2> QED
    BY <2>5, <2>6, <2>8, <2>9 DEF Adds, Continues
<1> QED
  BY <1>1, <1>2 DEF PutBroken
-----------------------------------------------------------------------------
(* What each step does to the log *)

ShedsStep ==
  \/ IsPrefix(Log, Log')
  \/ IsSuffix(Log', Log)
  \/ pc' = "down" /\ IsPrefix(Kept, Log') /\ IsPrefix(Log', Log)

LEMMA ContinuesSheds ==
  ASSUME WInv, Continues
  PROVE  ShedsStep
<1>1. PICK x \in Seq(Nat) : Log' = Log \o x
  BY DEF Adds, Continues
<1>2. Log \in Seq(Nat)
  BY ByteFacts, Concat DEF WInv, Log
<1>3. IsPrefix(Log, Log \o x)
  BY <1>2, PrefixOfConcat
<1> QED
  BY <1>1, <1>3 DEF ShedsStep

\* Outside a rotation there is nothing to say of its loop.
LEMMA NotShifting ==
  ASSUME pc' # "shift" PROVE Shifts'
BY DEF Shifts

LEMMA LineSteps ==
  ASSUME WInv, WithinLimit, Shifts,
         \/ \E len \in Lengths : WriteLine(len)
         \/ Rotate \/ WriteBody \/ WriteNewline \/ Flush \/ Close
  PROVE  Continues /\ WithinLimit' /\ Shifts'
<1>1. CASE \E len \in Lengths : WriteLine(len)
  <2>1. PICK len \in Lengths : WriteLine(len)
    BY <1>1
  <2>2. Continues /\ WithinLimit'
    BY <2>1, Unwritten DEF WriteLine
  <2>3. pc' # "shift"
    BY <2>1 DEF WriteLine
  <2> QED
    BY <2>2, <2>3, NotShifting
<1>2. CASE Rotate
  <2>1. Continues /\ WithinLimit'
    BY <1>2, FlushedLog DEF Rotate
  <2>2. buffer' = <<>> /\ shift' = max_files' - 1 /\ max_files' = max_files
    BY <1>2 DEF Rotate, Flushed
  <2>3. max_files \in Nat
    BY IndexFacts DEF WInv, TypeOK
  <2>4. Shifts'
    BY <2>2, <2>3 DEF Shifts
  <2> QED
    BY <2>1, <2>4
<1>3. CASE WriteBody
  <2>1. Body \in Text
    BY <1>3, TextFacts DEF WriteBody, WInv, InCall
  <2>2. Continues /\ WithinLimit'
    BY <1>3, <2>1, PutLog DEF WriteBody
  <2> QED
    BY <1>3, <2>2, NotShifting DEF WriteBody
<1>4. CASE WriteNewline
  <2>1. <<NL>> \in Text
    BY TextFacts DEF WInv
  <2>2. Continues /\ WithinLimit'
    BY <1>4, <2>1, PutLog DEF WriteNewline
  <2> QED
    BY <1>4, <2>2, NotShifting DEF WriteNewline
<1>5. CASE Flush
  <2>1. Continues /\ WithinLimit'
    BY <1>5, FlushedLog DEF Flush
  <2> QED
    BY <1>5, <2>1, NotShifting DEF Flush
<1>6. CASE Close
  <2>1. Continues /\ WithinLimit'
    BY <1>6, FlushedLog DEF Close
  <2> QED
    BY <1>6, <2>1, NotShifting DEF Close
<1> QED
  BY <1>1, <1>2, <1>3, <1>4, <1>5, <1>6

LEMMA FaultSteps ==
  ASSUME WInv, WithinLimit,
         FlushFails \/ BodyFails \/ NewlineFails \/ RemoveFails \/ RenameFails \/ CreateFails
  PROVE  Continues /\ WithinLimit' /\ Shifts'
<1>1. pc' = "idle" /\ UNCHANGED <<max_files, handle, lines>>
  BY DEF FlushFails, BodyFails, NewlineFails, RemoveFails, RenameFails, CreateFails, Fails
<1>2. Shifts'
  BY <1>1, NotShifting
<1>3. CASE FlushFails
  BY <1>1, <1>2, <1>3, BrokenLog DEF FlushFails
<1>4. CASE BodyFails
  <2>1. Body \in Text
    BY <1>4, TextFacts DEF BodyFails, WInv, InCall
  <2> QED
    BY <1>1, <1>2, <1>4, <2>1, PutBrokenLog DEF BodyFails
<1>5. CASE NewlineFails
  <2>1. <<NL>> \in Text
    BY TextFacts DEF WInv
  <2> QED
    BY <1>1, <1>2, <1>5, <2>1, PutBrokenLog DEF NewlineFails
<1>6. CASE RemoveFails \/ RenameFails \/ CreateFails
  <2>1. UNCHANGED <<files, buffer>>
    BY <1>6 DEF RemoveFails, RenameFails, CreateFails
  <2> QED
    BY <1>1, <1>2, <2>1, Unwritten
<1> QED
  BY <1>3, <1>4, <1>5, <1>6

LEMMA NextContents ==
  ASSUME WInv, WInv'
  PROVE  files \in Contents /\ files' \in Contents
<1>1. files \in Contents
  BY ByteFacts DEF WInv
<1>2. files' \in [Indices -> Seq(0..Len(lines')) \cup {None}]
  BY DEF WInv, TypeOK
<1>3. 0..Len(lines') \subseteq Nat
  OBVIOUS
<1>4. Seq(0..Len(lines')) \subseteq Seq(Nat)
  BY <1>3, SeqMonotonic
<1> QED
  BY <1>1, <1>2, <1>4 DEF Contents

LEMMA RenameKeeps ==
  ASSUME WInv, WInv', ShiftRename
  PROVE  Kept' = Kept
<1>1. /\ shift \in Indices /\ shift > 0 /\ shift - 1 \in Indices
      /\ files[shift] = None
  <2>1. shift \in Indices /\ shift > 0 /\ files[shift] = None
    BY DEF ShiftRename, Shifting, WInv, TypeOK
  <2>2. PICK top \in Nat : Indices = 0..top
    BY IndexFacts
  <2> QED
    BY <2>1, <2>2
<1>2. files \in Contents /\ files' \in Contents
  BY NextContents
<1>3. PICK gs \in Contents : gs = files'
  BY <1>2
<1>4. gs = [files EXCEPT ![shift] = files[shift - 1], ![shift - 1] = None]
  BY <1>3 DEF ShiftRename
<1>5. /\ gs[shift] = files[shift - 1] /\ gs[shift - 1] = None
      /\ \A j \in Indices : j # shift /\ j # shift - 1 => gs[j] = files[j]
  <2>1. shift # shift - 1
    BY <1>1, IndexFacts
  <2> QED
    BY <1>1, <1>2, <1>4, <2>1 DEF Contents
<1>6. Joined(gs) = Joined(files)
  <2>1. gs \in Contents /\ shift \in Indices /\ shift - 1 \in Indices /\ files[shift] = None
    BY <1>1
  <2> QED
    BY <1>2, <1>5, <2>1, JoinedMoves, SMTT(60)
<1> QED
  BY <1>3, <1>6, KeptIsJoined

\* The oldest file is removed, or what is newer moves up.
LEMMA ShiftSteps ==
  ASSUME WInv, WInv', WithinLimit, Shifts, ShiftSkip \/ ShiftRemove \/ ShiftRename
  PROVE  ShedsStep /\ WithinLimit' /\ Shifts'
<1>1. /\ pc = "shift" /\ buffer = <<>> /\ shift < max_files
      /\ shift = max_files - 1 \/ files[shift] = None
      /\ pc' = pc /\ buffer' = buffer /\ max_files' = max_files
  BY DEF ShiftSkip, ShiftRemove, ShiftRename, Shifting, Shifts
<1>2. /\ shift \in Indices /\ shift > 0 /\ max_files \in Nat /\ Indices \subseteq Nat
      /\ shift - 1 \in Indices
  <2>1. shift \in Indices /\ shift > 0 /\ max_files \in Limits
    BY DEF ShiftSkip, ShiftRemove, ShiftRename, Shifting, WInv, TypeOK
  <2>2. PICK top \in Nat : Indices = 0..top
    BY IndexFacts
  <2> QED
    BY <2>1, <2>2, IndexFacts
<1>3. files \in Contents /\ files' \in Contents
  BY NextContents
<1>4. PICK gs \in Contents : gs = files'
  BY <1>3
<1>5. Kept = Joined(files) /\ Kept' = Joined(gs) /\ Joined(gs) \in Seq(Nat)
      /\ Joined(files) \in Seq(Nat)
  BY <1>3, <1>4, KeptIsJoined, JoinedType
<1>6. Log = Joined(files) /\ Log' = Joined(gs)
  BY <1>1, <1>5, Concat DEF Log
<1>7. CASE ShiftSkip
  <2>1. Continues /\ WithinLimit'
    BY <1>1, <1>7, Unwritten DEF ShiftSkip
  <2>2. Shifts'
    BY <1>1, <1>2, <1>7 DEF ShiftSkip, Shifts
  <2> QED
    BY <2>1, <2>2, ContinuesSheds
<1>8. CASE ShiftRemove
  <2>1. gs = [files EXCEPT ![shift] = None] /\ shift' = shift /\ files[shift] # None
    BY <1>4, <1>8 DEF ShiftRemove
  <2>2. gs[shift] = None /\ \A j \in Indices : j # shift => gs[j] = files[j]
    BY <1>2, <1>3, <2>1 DEF Contents
  <2>3. ASSUME NEW j \in Indices, j > shift
        PROVE  files[j] = None
    <3>1. j >= max_files
      BY <1>1, <1>2, <2>1, <2>3
    <3> QED
      BY <3>1 DEF WithinLimit
  <2>4. Joined(files) = Read(files[shift]) \o Joined(gs)
    <3>1. Read(gs[shift]) = <<>>
      BY <2>2 DEF Read
    <3> QED
      BY <1>2, <1>3, <2>2, <2>3, <3>1, JoinedSheds
  <2>5. Read(files[shift]) \in Seq(Nat)
    BY <1>2, <1>3 DEF Contents, Read
  <2>6. IsSuffix(Joined(gs), Joined(files))
    BY <1>5, <2>4, <2>5, SuffixOfConcat
  <2>7. ShedsStep
    BY <1>6, <2>6 DEF ShedsStep
  <2>8. WithinLimit'
    BY <1>1, <1>4, <2>2 DEF WithinLimit
  <2>9. Shifts'
    BY <1>1, <1>4, <2>1, <2>2 DEF Shifts
  <2> QED
    BY <2>7, <2>8, <2>9
<1>9. CASE ShiftRename
  <2>1. /\ gs = [files EXCEPT ![shift] = files[shift - 1], ![shift - 1] = None]
        /\ shift' = shift - 1 /\ files[shift] = None
    BY <1>4, <1>9 DEF ShiftRename
  <2>2. /\ gs[shift] = files[shift - 1] /\ gs[shift - 1] = None
        /\ \A j \in Indices : j # shift /\ j # shift - 1 => gs[j] = files[j]
    <3>1. shift # shift - 1
      BY <1>2
    <3> QED
      BY <1>2, <1>3, <2>1, <3>1 DEF Contents
  <2>3. Joined(gs) = Joined(files)
    BY <1>5, <1>9, RenameKeeps
  <2>4. ShedsStep
    <3>1. Joined(files) \o <<>> = Joined(files) /\ <<>> \in Seq(Nat)
      BY <1>5, Concat
    <3>2. IsPrefix(Joined(files), Joined(files))
      BY <1>5, <3>1, PrefixOfConcat
    <3> QED
      BY <1>6, <2>3, <3>2 DEF ShedsStep
  <2>5. WithinLimit'
    <3> SUFFICES ASSUME NEW j \in Indices, j >= max_files
                 PROVE  gs[j] = None
      BY <1>1, <1>4 DEF WithinLimit
    <3>1. j # shift /\ j # shift - 1
      BY <1>1, <1>2
    <3> QED
      BY <2>2, <3>1 DEF WithinLimit
  <2>6. Shifts'
    <3>1. shift' < max_files' /\ files'[shift'] = None
      BY <1>1, <1>2, <1>4, <2>1, <2>2
    <3> QED
      BY <1>1, <3>1 DEF Shifts
  <2> QED
    BY <2>4, <2>5, <2>6
<1> QED
  BY <1>7, <1>8, <1>9

\* The new file takes a free name, unless it is the only one that may be kept.
LEMMA CreateShedsStep ==
  ASSUME WInv, WInv', WithinLimit, Shifts, Create
  PROVE  ShedsStep /\ WithinLimit' /\ Shifts'
<1>1. /\ buffer = <<>> /\ buffer' = buffer /\ max_files' = max_files /\ pc' = "body"
      /\ 0 < max_files /\ (0 = max_files - 1 \/ files[0] = None)
  BY DEF Create, Shifts
<1>2. 0 \in Indices /\ max_files \in Nat /\ Indices \subseteq Nat
  BY IndexFacts DEF WInv, TypeOK
<1>3. files \in Contents /\ files' \in Contents
  BY NextContents
<1>4. PICK gs \in Contents : gs = files'
  BY <1>3
<1>5. gs[0] = <<>> /\ \A j \in Indices : j # 0 => gs[j] = files[j]
  BY <1>2, <1>3, <1>4 DEF Create, Contents
<1>6. Log = Joined(files) /\ Log' = Joined(gs) /\ Joined(gs) \in Seq(Nat)
      /\ Joined(files) \in Seq(Nat)
  BY <1>1, <1>3, <1>4, KeptIsJoined, JoinedType, Concat DEF Log
<1>7. Read(gs[0]) = <<>>
  BY <1>5 DEF Read
<1>8. ShedsStep
  <2>1. CASE files[0] = None
    <3>1. \A j \in Indices : Read(gs[j]) = Read(files[j])
      BY <1>5, <1>7, <2>1 DEF Read
    <3>2. Joined(gs) = Joined(files)
      BY <1>3, <3>1, JoinedSame
    <3>3. Joined(files) \o <<>> = Joined(files) /\ <<>> \in Seq(Nat)
      BY <1>6, Concat
    <3>4. IsPrefix(Joined(files), Joined(files))
      BY <1>6, <3>3, PrefixOfConcat
    <3> QED
      BY <1>6, <3>2, <3>4 DEF ShedsStep
  <2>2. CASE max_files = 1
    <3>1. \A j \in Indices : j > 0 => files[j] = None
      BY <1>2, <2>2 DEF WithinLimit
    <3>2. Joined(files) = Read(files[0]) \o Joined(gs)
      BY <1>2, <1>3, <1>5, <1>7, <3>1, JoinedSheds
    <3>3. Read(files[0]) \in Seq(Nat)
      BY <1>2, <1>3 DEF Contents, Read
    <3>4. IsSuffix(Joined(gs), Joined(files))
      BY <1>6, <3>2, <3>3, SuffixOfConcat
    <3> QED
      BY <1>6, <3>4 DEF ShedsStep
  <2> QED
    BY <1>1, <1>2, <2>1, <2>2
<1>9. WithinLimit'
  <2> SUFFICES ASSUME NEW j \in Indices, j >= max_files
               PROVE  gs[j] = None
    BY <1>1, <1>4 DEF WithinLimit
  <2>1. j # 0
    BY <1>1, <1>2
  <2> QED
    BY <1>5, <2>1 DEF WithinLimit
<1>10. Shifts'
  BY <1>1, NotShifting
<1> QED
  BY <1>8, <1>9, <1>10

\* A restart with the same configuration goes on where the last process ended.
LEMMA OpenContinues ==
  ASSUME "reconfigure" \notin Faults, WInv, WInv', WithinLimit, Open
  PROVE  Continues /\ WithinLimit' /\ Shifts'
<1>1. max_files' = max_files /\ buffer' = buffer /\ pc' = "idle"
  BY DEF Open
<1>2. 0 \in Indices /\ max_files \in Nat \ {0} /\ Indices \subseteq Nat
  BY IndexFacts DEF WInv, TypeOK
<1>3. files \in Contents /\ files' \in Contents
  BY NextContents
<1>4. PICK gs \in Contents : gs = files'
  BY <1>3
<1>5. gs[0] = Read(files[0]) /\ \A j \in Indices : j # 0 => gs[j] = files[j]
  BY <1>2, <1>3, <1>4 DEF Open, Contents, Read
<1>6. \A j \in Indices : Read(gs[j]) = Read(files[j])
  <2>1. Read(gs[0]) = Read(files[0])
    <3>1. gs[0] = <<>> \/ gs[0] = files[0]
      BY <1>5 DEF Read
    <3>2. <<>> # None
      <4>1. <<>> \in Seq(Nat)
        OBVIOUS
      <4> QED
        BY <4>1, NoneAssumption
    <3> QED
      BY <1>5, <3>1, <3>2 DEF Read
  <2> QED
    BY <1>5, <2>1 DEF Read
<1>7. Joined(gs) = Joined(files)
  BY <1>3, <1>6, JoinedSame
<1>8. Log' = Log
  BY <1>1, <1>4, <1>7, KeptIsJoined DEF Log
<1>9. Log \in Seq(Nat) /\ Kept \in Seq(Nat) /\ <<>> \in Seq(Nat)
  BY ByteFacts, Concat DEF WInv, Log
<1>10. Continues
  <2>1. Log' = Log \o <<>>
    BY <1>8, <1>9, Concat
  <2>2. Kept' = Kept \o <<>>
    BY <1>4, <1>7, <1>9, KeptIsJoined, Concat
  <2> QED
    BY <1>9, <2>1, <2>2 DEF Adds, Continues
<1>11. WithinLimit'
  <2> SUFFICES ASSUME NEW j \in Indices, j >= max_files
               PROVE  gs[j] = None
    BY <1>1, <1>4 DEF WithinLimit
  <2>1. j # 0
    BY <1>2
  <2> QED
    BY <1>5, <2>1 DEF WithinLimit
<1>12. Shifts'
  BY <1>1, NotShifting
<1> QED
  BY <1>10, <1>11, <1>12

\* A crash loses an end of the buffer; it may come within the write that follows
\* the buffer with the body of a line.
LEMMA CrashSheds ==
  ASSUME WInv, WithinLimit, Crash
  PROVE  ShedsStep /\ WithinLimit' /\ Shifts'
<1>1. UNCHANGED <<max_files, handle, lines>> /\ buffer' = <<>> /\ pc' = "down"
  BY DEF Crash
<1>2. Kept \in Seq(Nat) /\ buffer \in Text /\ buffer \in Seq(Nat) /\ <<>> \in Seq(Nat)
  BY ByteFacts, TextFacts DEF WInv
<1>3. PICK ahead, k :
        /\ k \in 0..Len(ahead)
        /\ (ahead = buffer \/ (pc = "body" /\ ahead = buffer \o Body))
        /\ Gets(SubSeq(ahead, 1, k))
  BY DEF Crash
<1>4. ahead \in Text
  <2>1. CASE ahead = buffer
    BY <1>2, <2>1
  <2>2. CASE pc = "body" /\ ahead = buffer \o Body
    BY <1>2, <2>2, TextFacts DEF WInv, InCall
  <2> QED
    BY <1>3, <2>1, <2>2
<1>5. PICK head : head = SubSeq(ahead, 1, k)
  OBVIOUS
<1>6. PICK tail : tail = SubSeq(ahead, k + 1, Len(ahead))
  OBVIOUS
<1>7. /\ head \in Text /\ Len(head) = k
      /\ head \in Seq(Nat) /\ tail \in Seq(Nat) /\ ahead \in Seq(Nat)
      /\ head \o tail = ahead
  <2>1. ahead \in Seq(Nat)
    BY <1>4, TextIsBytes
  <2>2. head \in Text /\ Len(head) = k /\ tail \in Text
    BY <1>3, <1>4, <1>5, <1>6, Slices DEF WInv
  <2>3. head \o tail = ahead
    BY <1>3, <1>5, <1>6, <2>1, Cut
  <2> QED
    BY <2>1, <2>2, <2>3, TextIsBytes
<1>8. Kept' = Kept \o head /\ WithinLimit'
  BY <1>1, <1>3, <1>5, <1>7, GetsLog
<1>9. Log' = Kept \o head
  <2>1. Kept \o head \in Seq(Nat)
    BY <1>2, <1>7, Concat
  <2> QED
    BY <1>1, <1>8, <2>1, Concat DEF Log
<1>10. IsPrefix(Kept, Log')
  BY <1>2, <1>7, <1>9, PrefixOfConcat
<1>11. IsPrefix(Log', Log) \/ IsPrefix(Log, Log')
  <2>1. CASE ahead = buffer
    <3>1. Log = (Kept \o head) \o tail
      <4>1. (Kept \o head) \o tail = Kept \o (head \o tail)
        <5>1. Kept \in Seq(Nat) /\ head \in Seq(Nat) /\ tail \in Seq(Nat)
          BY <1>2, <1>7
        <5> QED
          BY <5>1, Regroup
      <4> QED
        BY <1>7, <2>1, <4>1 DEF Log
    <3>2. Kept \o head \in Seq(Nat)
      BY <1>2, <1>7, Concat
    <3>3. IsPrefix(Kept \o head, (Kept \o head) \o tail)
      BY <1>7, <3>2, PrefixOfConcat
    <3> QED
      BY <1>9, <3>1, <3>3
  <2>2. CASE ahead = buffer \o Body /\ pc = "body"
    <3>1. Body \in Seq(Nat)
      BY <2>2, ByteFacts DEF WInv, InCall
    <3>2. \/ \E x \in Seq(Nat) : head = buffer \o x
          \/ \E x \in Seq(Nat) : buffer = head \o x
      <4>1. PICK body \in Seq(Nat) : body = Body
        BY <3>1
      <4>2. k \in 0..Len(buffer \o body) /\ head = SubSeq(buffer \o body, 1, k)
        BY <1>3, <1>5, <2>2, <4>1
      <4>3. \/ \E x \in Seq(Nat) : SubSeq(buffer \o body, 1, k) = buffer \o x
            \/ \E x \in Seq(Nat) : buffer = SubSeq(buffer \o body, 1, k) \o x
        BY <1>2, <4>2, CutOfTwo
      <4> QED
        BY <4>2, <4>3
    <3>3. CASE \E x \in Seq(Nat) : head = buffer \o x
      <4>1. PICK x \in Seq(Nat) : head = buffer \o x
        BY <3>3
      <4>2. (Kept \o buffer) \o x = Kept \o (buffer \o x) /\ Kept \o buffer \in Seq(Nat)
        BY <1>2, Regroup, Concat
      <4>3. IsPrefix(Kept \o buffer, (Kept \o buffer) \o x)
        BY <4>2, PrefixOfConcat
      <4> QED
        BY <1>9, <4>1, <4>2, <4>3 DEF Log
    <3>4. CASE \E x \in Seq(Nat) : buffer = head \o x
      <4>1. PICK x \in Seq(Nat) : buffer = head \o x
        BY <3>4
      <4>2. (Kept \o head) \o x = Kept \o (head \o x) /\ Kept \o head \in Seq(Nat)
        <5>1. Kept \o head \in Seq(Nat)
          BY <1>2, <1>7, Concat
        <5>2. Kept \in Seq(Nat) /\ head \in Seq(Nat)
          BY <1>2, <1>7
        <5>3. (Kept \o head) \o x = Kept \o (head \o x)
          BY <5>2, Regroup, Zenon
        <5> QED
          BY <5>1, <5>3
      <4>3. IsPrefix(Kept \o head, (Kept \o head) \o x)
        BY <4>2, PrefixOfConcat
      <4> QED
        BY <1>9, <4>1, <4>2, <4>3 DEF Log
    <3> QED
      BY <3>2, <3>3, <3>4
  <2> QED
    BY <1>3, <2>1, <2>2
<1>12. ShedsStep
  BY <1>1, <1>10, <1>11 DEF ShedsStep
<1>13. Shifts'
  BY <1>1, NotShifting
<1> QED
  BY <1>8, <1>12, <1>13
-----------------------------------------------------------------------------
Ordered == WithinLimit /\ Shifts

LEMMA InitOrdered == Init => Ordered
<1> SUFFICES ASSUME Init PROVE Ordered
  OBVIOUS
<1>1. Indices \subseteq Nat /\ max_files \in Nat \ {0}
  BY IndexFacts DEF Init
<1>2. \A i \in Indices : i >= max_files => files[i] = None
  BY <1>1 DEF Init
<1> QED
  BY <1>2 DEF Init, Ordered, WithinLimit, Shifts

LEMMA NextOrdered ==
  ASSUME "reconfigure" \notin Faults, WInv, WInv', Ordered, [Next]_vars
  PROVE  Ordered' /\ (ShedsStep \/ UNCHANGED vars)
<1>1. WithinLimit /\ Shifts
  BY DEF Ordered
<1>2. CASE \/ \E len \in Lengths : WriteLine(len)
           \/ Rotate \/ WriteBody \/ WriteNewline \/ Flush \/ Close
  BY <1>1, <1>2, LineSteps, ContinuesSheds DEF Ordered
<1>3. CASE FlushFails \/ BodyFails \/ NewlineFails \/ RemoveFails \/ RenameFails \/ CreateFails
  BY <1>1, <1>3, FaultSteps, ContinuesSheds DEF Ordered
<1>4. CASE ShiftSkip \/ ShiftRemove \/ ShiftRename
  BY <1>1, <1>4, ShiftSteps DEF Ordered
<1>5. CASE Create
  BY <1>1, <1>5, CreateShedsStep DEF Ordered
<1>6. CASE Open
  BY <1>1, <1>6, OpenContinues, ContinuesSheds DEF Ordered
<1>7. CASE Crash
  BY <1>1, <1>7, CrashSheds DEF Ordered
<1>8. CASE UNCHANGED vars
  <2>1. UNCHANGED <<max_files, files, buffer, pc, shift>>
    BY <1>8 DEF vars
  <2>2. Ordered'
    BY <1>1, <2>1 DEF Ordered, WithinLimit, Shifts
  <2> QED
    BY <1>8, <2>2
<1> QED
  BY <1>2, <1>3, <1>4, <1>5, <1>6, <1>7, <1>8 DEF Next
-----------------------------------------------------------------------------
\* The files are one log that grows at its end and sheds its oldest file, through
\* failures between any two file operations, crashes and restarts, as long as the
\* configuration stays.
THEOREM ShedsInOrder ==
  ASSUME "reconfigure" \notin Faults
  PROVE  Spec => ShedsOldestFirst
<1>1. Init => WInv /\ Ordered
  BY InitWInv, InitOrdered
<1>2. WInv /\ Ordered /\ [Next]_vars
        => /\ WInv' /\ Ordered'
           /\ [ShedsStep]_vars
  BY NextWInv, NextOrdered
<1>3. [ShedsStep]_vars
        => [\/ IsPrefix(Log, Log')
            \/ IsSuffix(Log', Log)
            \/ pc' = "down" /\ IsPrefix(Kept, Log') /\ IsPrefix(Log', Log)]_vars
  BY DEF ShedsStep
<1> QED
  BY <1>1, <1>2, <1>3, PTL DEF Spec, ShedsOldestFirst
-----------------------------------------------------------------------------
(* Bytes of a line, and names without a file *)

\* Indices below max_files without a file; those of them in front of a file; the
\* one that the loop of rotate has come to.
Missing == {i \in 0..(max_files - 1) : files[i] = None}
Gaps == {i \in Missing : \E j \in Indices : j > i /\ files[j] # None}
Turn == IF pc = "shift" THEN {shift} ELSE {}

\* Nothing has been shed of what was acknowledged, nor of what is being written.
Complete ==
  /\ pc = "newline" => Count(Len(lines), Log) >= lines[Len(lines)]
  /\ \A n \in done : Count(n, Log) >= lines[n]
  /\ \A n \in safe : Count(n, Kept) >= lines[n]

\* Each fault leaves at most one gap, and something is shed only when every
\* name is taken but for one for each fault.
GapsCounted == Cardinality(Gaps \ Turn) <= faults
Full == Cardinality(Missing \ Turn) <= faults
ShedsWhenFull == Complete \/ Full

LEMMA Fewer ==
  ASSUME NEW S, IsFiniteSet(S), NEW T \in SUBSET S
  PROVE  /\ IsFiniteSet(T) /\ Cardinality(T) \in Nat /\ Cardinality(S) \in Nat
         /\ Cardinality(T) <= Cardinality(S)
BY FS_Subset, FS_CardinalityType

LEMMA WithoutOne ==
  ASSUME NEW S, IsFiniteSet(S), NEW a
  PROVE  /\ IsFiniteSet(S \ {a}) /\ Cardinality(S) \in Nat /\ Cardinality(S \ {a}) \in Nat
         /\ Cardinality(S \ {a}) = IF a \in S THEN Cardinality(S) - 1 ELSE Cardinality(S)
<1>1. /\ IsFiniteSet(S \ {a})
      /\ Cardinality(S \ {a}) = IF a \in S THEN Cardinality(S) - 1 ELSE Cardinality(S)
  BY FS_RemoveElement
<1> QED
  BY <1>1, FS_CardinalityType

LEMMA CountGrows ==
  ASSUME NEW a \in Seq(Nat), NEW b \in Seq(Nat), NEW n
  PROVE  /\ Count(n, a) \in Nat /\ Count(n, a \o b) \in Nat
         /\ Count(n, a) <= Count(n, a \o b)
<1>1. PICK c \in Seq(Nat) : c = a \o b
  BY ConcatProperties
<1>2. /\ Len(a) \in Nat /\ Len(b) \in Nat /\ Len(c) = Len(a) + Len(b)
      /\ DOMAIN a = 1..Len(a) /\ DOMAIN c = 1..Len(c)
      /\ \A i \in 1..Len(a) : c[i] = a[i]
  BY <1>1, ConcatProperties, LenProperties
<1> DEFINE A == {j \in 1..Len(a) : a[j] = n}
           C == {j \in 1..Len(c) : c[j] = n}
<1>3. IsFiniteSet(C)
  <2>1. IsFiniteSet(1..Len(c))
    BY <1>2, FS_Interval
  <2> QED
    BY <2>1, FS_Subset
<1>4. A \subseteq C
  BY <1>2
<1>5. Count(n, a) = Cardinality(A) /\ Count(n, a \o b) = Cardinality(C)
  BY <1>1, <1>2 DEF Count
<1> HIDE DEF A, C
<1> QED
  BY <1>3, <1>4, <1>5, Fewer

LEMMA CountBody ==
  ASSUME NEW a \in Seq(Nat), NEW k \in Nat, NEW n \in Nat
  PROVE  Count(n, a \o [i \in 1..k |-> n]) >= k
<1>1. PICK b : b = [i \in 1..k |-> n]
  OBVIOUS
<1>2. b \in Seq(Nat) /\ Len(b) = k /\ \A i \in 1..k : b[i] = n
  BY <1>1
<1>3. PICK c \in Seq(Nat) : c = a \o b
  BY <1>2, ConcatProperties
<1>4. PICK m \in Nat : m = Len(a)
  OBVIOUS
<1>5. /\ DOMAIN c = 1..m + k /\ Len(c) = m + k
      /\ \A i \in 1..m + k : c[i] = IF i <= m THEN a[i] ELSE b[i - m]
  <2>1. /\ Len(a \o b) = Len(a) + Len(b)
        /\ \A i \in 1..Len(a) + Len(b) : (a \o b)[i] = IF i <= Len(a) THEN a[i] ELSE b[i - Len(a)]
    <3>1. a \in Seq(Nat) /\ b \in Seq(Nat)
      BY <1>2
    <3> QED
      BY <3>1, ConcatProperties
  <2>2. Len(a) + Len(b) = m + k
    BY <1>2, <1>4
  <2>3. /\ Len(c) = m + k
        /\ \A i \in 1..m + k : c[i] = IF i <= m THEN a[i] ELSE b[i - m]
    BY <1>3, <1>4, <2>1, <2>2, ZenonT(30)
  <2> QED
    BY <2>3, LenProperties
<1>6. \A i \in m + 1..m + k : i \in 1..m + k /\ c[i] = n
  <2> SUFFICES ASSUME NEW i \in m + 1..m + k
               PROVE  i \in 1..m + k /\ c[i] = n
    OBVIOUS
  <2>1. i \in 1..m + k /\ ~(i <= m) /\ i - m \in 1..k
    OBVIOUS
  <2> QED
    BY <1>2, <1>5, <2>1
<1> DEFINE C == {j \in 1..m + k : c[j] = n}
<1>7. m + 1..m + k \subseteq C
  BY <1>6
<1>8. IsFiniteSet(C)
  <2>1. IsFiniteSet(1..m + k)
    BY FS_Interval
  <2> QED
    BY <2>1, FS_Subset
<1>9. Cardinality(m + 1..m + k) = k
  <2>1. /\ m + 1 \in Int /\ m + k \in Int
        /\ (IF m + 1 > m + k THEN 0 ELSE (m + k) - (m + 1) + 1) = k
    OBVIOUS
  <2> QED
    BY <2>1, FS_Interval
<1>10. Count(n, c) = Cardinality(C)
  BY <1>5 DEF Count
<1> HIDE DEF C
<1>11. k <= Cardinality(C) /\ Cardinality(C) \in Nat
  BY <1>7, <1>8, <1>9, Fewer
<1> QED
  BY <1>1, <1>3, <1>10, <1>11
-----------------------------------------------------------------------------
(* What each step does to the names *)

LEMMA NamesFacts ==
  ASSUME WInv
  PROVE  /\ Missing \subseteq Indices /\ Gaps \subseteq Missing
         /\ IsFiniteSet(Missing) /\ IsFiniteSet(Gaps)
         /\ IsFiniteSet(Missing \ Turn) /\ IsFiniteSet(Gaps \ Turn)
         /\ faults \in Nat /\ max_files \in Nat \ {0} /\ Indices \subseteq Nat
         /\ \A i \in 0..(max_files - 1) : i \in Indices
<1>1. faults \in Nat /\ max_files \in Nat \ {0} /\ max_files - 1 \in Indices
  BY IndexFacts, SizeAssumption DEF WInv, TypeOK
<1>2. PICK top \in Nat : Indices = 0..top
  BY IndexFacts
<1>3. \A i \in 0..(max_files - 1) : i \in Indices
  BY <1>1, <1>2
<1>4. IsFiniteSet(0..(max_files - 1))
  BY <1>1, FS_Interval
<1>5. /\ Missing \subseteq 0..(max_files - 1) /\ Gaps \subseteq Missing
      /\ Missing \ Turn \subseteq Missing /\ Gaps \ Turn \subseteq Missing
  BY DEF Missing, Gaps
<1>6. IsFiniteSet(Missing)
  BY <1>4, <1>5, FS_Subset
<1>7. IsFiniteSet(Gaps) /\ IsFiniteSet(Missing \ Turn) /\ IsFiniteSet(Gaps \ Turn)
  BY <1>5, <1>6, FS_Subset
<1> QED
  BY <1>1, <1>2, <1>3, <1>5, <1>6, <1>7

LEMMA NamesShrink ==
  ASSUME WInv, GapsCounted, faults' \in Nat, faults' >= faults,
         Missing' \ Turn' \subseteq Missing \ Turn, Gaps' \ Turn' \subseteq Gaps \ Turn
  PROVE  GapsCounted' /\ (Full => Full')
<1>1. IsFiniteSet(Missing \ Turn) /\ IsFiniteSet(Gaps \ Turn) /\ faults \in Nat
  BY NamesFacts
<1>2. PICK M, G : M = Missing' \ Turn' /\ G = Gaps' \ Turn'
  OBVIOUS
<1>3. /\ Cardinality(M) \in Nat /\ Cardinality(Missing \ Turn) \in Nat
      /\ Cardinality(M) <= Cardinality(Missing \ Turn)
  <2>1. M \in SUBSET (Missing \ Turn)
    BY <1>2
  <2> QED
    BY <1>1, <2>1, Fewer
<1>4. /\ Cardinality(G) \in Nat /\ Cardinality(Gaps \ Turn) \in Nat
      /\ Cardinality(G) <= Cardinality(Gaps \ Turn)
  <2>1. G \in SUBSET (Gaps \ Turn)
    BY <1>2
  <2> QED
    BY <1>1, <2>1, Fewer
<1>5. Cardinality(G) <= faults'
  BY <1>1, <1>4 DEF GapsCounted
<1>6. ASSUME Full PROVE Cardinality(M) <= faults'
  BY <1>1, <1>3, <1>6 DEF Full
<1> QED
  BY <1>2, <1>5, <1>6 DEF GapsCounted, Full

\* A fault leaves the index the loop has come to behind.
LEMMA NamesFault ==
  ASSUME WInv, GapsCounted, faults' = faults + 1,
         Missing' = Missing, Gaps' = Gaps, Turn' = {}
  PROVE  GapsCounted' /\ (Full => Full')
<1>1. IsFiniteSet(Missing) /\ IsFiniteSet(Gaps) /\ faults \in Nat
  BY NamesFacts
<1>2. \A S \in {Missing, Gaps} :
        /\ Cardinality(S) \in Nat /\ Cardinality(S \ Turn) \in Nat
        /\ Cardinality(S) <= Cardinality(S \ Turn) + 1
  <2> SUFFICES ASSUME NEW S \in {Missing, Gaps}
               PROVE  /\ Cardinality(S) \in Nat /\ Cardinality(S \ Turn) \in Nat
                      /\ Cardinality(S) <= Cardinality(S \ Turn) + 1
    OBVIOUS
  <2>1. IsFiniteSet(S)
    BY <1>1
  <2>2. CASE Turn = {}
    <3>1. S \ Turn = S
      BY <2>2
    <3>2. Cardinality(S) \in Nat
      BY <2>1, FS_CardinalityType
    <3>3. Cardinality(S) <= Cardinality(S) + 1
      BY <3>2
    <3> QED
      BY <3>1, <3>2, <3>3
  <2>3. CASE Turn = {shift}
    <3>1. /\ Cardinality(S) \in Nat /\ Cardinality(S \ {shift}) \in Nat
          /\ Cardinality(S \ {shift})
               = IF shift \in S THEN Cardinality(S) - 1 ELSE Cardinality(S)
      BY <2>1, WithoutOne
    <3> QED
      BY <2>3, <3>1
  <2> QED
    BY <2>2, <2>3 DEF Turn
<1>3. PICK M, G : M = Missing' \ Turn' /\ G = Gaps' \ Turn'
  OBVIOUS
<1>4. M = Missing /\ G = Gaps
  BY <1>3
<1>5. Cardinality(G) <= faults'
  BY <1>1, <1>2, <1>4 DEF GapsCounted
<1>6. ASSUME Full PROVE Cardinality(M) <= faults'
  BY <1>1, <1>2, <1>4, <1>6 DEF Full
<1> QED
  BY <1>3, <1>5, <1>6 DEF GapsCounted, Full

\* A write keeps every name.
LEMMA NamesKept ==
  ASSUME WInv, WInv', UNCHANGED <<max_files, handle>>,
         UNCHANGED files \/ \E b : Gets(b)
  PROVE  Missing' = Missing /\ Gaps' = Gaps
<1>1. files \in [Indices -> Text \cup {None}] /\ handle \in Indices
      /\ files[handle] # None /\ files'[handle] # None
  BY DEF WInv, TypeOK, Text
<1>2. \A i \in Indices : files'[i] = None <=> files[i] = None
  <2>1. CASE UNCHANGED files
    BY <2>1
  <2>2. CASE \E b : Gets(b)
    <3>1. \A i \in Indices : i # handle => files'[i] = files[i]
      BY <1>1, <2>2 DEF Gets
    <3> QED
      BY <1>1, <3>1
  <2> QED
    BY <2>1, <2>2
<1>3. \A i \in 0..(max_files - 1) : i \in Indices
  BY NamesFacts
<1>4. Missing' = Missing
  BY <1>2, <1>3 DEF Missing
<1>5. Gaps' = Gaps
  BY <1>2, <1>4 DEF Gaps
<1> QED
  BY <1>4, <1>5

LEMMA WritesGet ==
  /\ Flushed => \E b : Gets(b)
  /\ FlushBroken => \E b : Gets(b)
  /\ \A bytes : Put(bytes) => UNCHANGED files \/ \E b : Gets(b)
  /\ \A bytes : PutBroken(bytes) => \E b : Gets(b)
BY DEF Flushed, FlushBroken, Put, PutBroken

LEMMA LineNames ==
  ASSUME WInv, WInv', GapsCounted,
         \/ \E len \in Lengths : WriteLine(len)
         \/ Rotate \/ WriteBody \/ WriteNewline \/ Flush \/ Close
  PROVE  GapsCounted' /\ (Full => Full')
<1>1. /\ UNCHANGED <<max_files, handle, faults>> /\ pc # "shift"
      /\ UNCHANGED files \/ \E b : Gets(b)
  BY WritesGet DEF WriteLine, Rotate, WriteBody, WriteNewline, Flush, Close
<1>2. Missing' = Missing /\ Gaps' = Gaps /\ Turn = {}
  BY <1>1, NamesKept DEF Turn
<1>3. Missing' \ Turn' \subseteq Missing \ Turn /\ Gaps' \ Turn' \subseteq Gaps \ Turn
  BY <1>2
<1>4. faults' \in Nat /\ faults' >= faults
  BY <1>1, NamesFacts
<1> QED
  BY <1>3, <1>4, NamesShrink

LEMMA FaultNames ==
  ASSUME WInv, WInv', GapsCounted,
         \/ FlushFails \/ BodyFails \/ NewlineFails
         \/ RemoveFails \/ RenameFails \/ CreateFails \/ Crash
  PROVE  GapsCounted' /\ (Full => Full')
<1>1. /\ UNCHANGED <<max_files, handle>> /\ pc' # "shift" /\ faults' = faults + 1
      /\ UNCHANGED files \/ \E b : Gets(b)
  <2>1. CASE Crash
    BY <2>1 DEF Crash, Fault
  <2>2. CASE FlushFails \/ BodyFails \/ NewlineFails \/ RemoveFails \/ RenameFails \/ CreateFails
    BY <2>2, WritesGet
    DEF FlushFails, BodyFails, NewlineFails, RemoveFails, RenameFails, CreateFails, Fails, Fault
  <2> QED
    BY <2>1, <2>2
<1>2. Missing' = Missing /\ Gaps' = Gaps /\ Turn' = {}
  BY <1>1, NamesKept DEF Turn
<1> QED
  BY <1>1, <1>2, NamesFault

\* What a turn of the loop starts from: only the first one may find a file at its
\* index.
LEMMA TurnFacts ==
  ASSUME WInv, Shifts, Shifting
  PROVE  /\ shift \in 0..(max_files - 1) /\ shift - 1 \in 0..(max_files - 1)
         /\ shift \in Indices /\ shift - 1 \in Indices /\ shift \in Nat
         /\ shift - 1 < shift /\ Turn = {shift}
         /\ shift = max_files - 1 \/ files[shift] = None
<1>1. pc = "shift" /\ shift > 0 /\ shift \in Indices /\ shift < max_files
      /\ (shift = max_files - 1 \/ files[shift] = None)
  BY DEF Shifting, Shifts, WInv, TypeOK
<1>2. max_files \in Nat \ {0} /\ Indices \subseteq Nat
      /\ \A i \in 0..(max_files - 1) : i \in Indices
  BY NamesFacts
<1>3. shift \in 0..(max_files - 1) /\ shift - 1 \in 0..(max_files - 1)
      /\ shift - 1 < shift /\ shift \in Nat
  BY <1>1, <1>2
<1> QED
  BY <1>1, <1>2, <1>3 DEF Turn

\* The loop passes over a gap; the one behind it, if there is one, counts again.
LEMMA SkipNames ==
  ASSUME WInv, Shifts, GapsCounted, ShiftSkip
  PROVE  GapsCounted' /\ (Full => Full')
<1>1. /\ Shifting /\ pc' = "shift" /\ shift' = shift - 1 /\ files[shift - 1] = None
      /\ UNCHANGED <<max_files, files, faults>>
  BY DEF ShiftSkip, Shifting
<1>2. /\ shift \in 0..(max_files - 1) /\ shift - 1 \in 0..(max_files - 1)
      /\ shift \in Nat /\ Turn = {shift}
  BY <1>1, TurnFacts
<1>3. Missing' = Missing /\ Gaps' = Gaps /\ Turn' = {shift - 1}
  BY <1>1 DEF Missing, Gaps, Turn
<1>4. IsFiniteSet(Missing) /\ IsFiniteSet(Gaps) /\ faults \in Nat /\ Indices \subseteq Nat
  BY NamesFacts
<1>5. shift - 1 \in Missing
  BY <1>1, <1>2 DEF Missing
<1>6. shift \in Gaps => shift - 1 \in Gaps
  <2> SUFFICES ASSUME shift \in Gaps PROVE shift - 1 \in Gaps
    OBVIOUS
  <2>1. PICK j \in Indices : j > shift /\ files[j] # None
    BY DEF Gaps
  <2>2. j > shift - 1
    BY <1>2, <1>4, <2>1
  <2> QED
    BY <1>5, <2>1, <2>2 DEF Gaps
<1>7. \A S \in {Missing, Gaps} :
        /\ Cardinality(S \ {shift - 1}) \in Nat /\ Cardinality(S \ {shift}) \in Nat
        /\ Cardinality(S \ {shift - 1}) <= Cardinality(S \ {shift})
  <2> SUFFICES ASSUME NEW S \in {Missing, Gaps}
               PROVE  /\ Cardinality(S \ {shift - 1}) \in Nat /\ Cardinality(S \ {shift}) \in Nat
                      /\ Cardinality(S \ {shift - 1}) <= Cardinality(S \ {shift})
    OBVIOUS
  <2>1. IsFiniteSet(S) /\ (shift \in S => shift - 1 \in S)
    BY <1>4, <1>5, <1>6
  <2>2. /\ Cardinality(S) \in Nat /\ Cardinality(S \ {shift}) \in Nat
        /\ Cardinality(S \ {shift}) = IF shift \in S THEN Cardinality(S) - 1 ELSE Cardinality(S)
    BY <2>1, WithoutOne
  <2>3. /\ Cardinality(S \ {shift - 1}) \in Nat
        /\ Cardinality(S \ {shift - 1})
             = IF shift - 1 \in S THEN Cardinality(S) - 1 ELSE Cardinality(S)
    BY <2>1, WithoutOne
  <2> QED
    BY <2>1, <2>2, <2>3
<1>8. PICK M, G, f : M = Missing' \ Turn' /\ G = Gaps' \ Turn' /\ f = faults'
  OBVIOUS
<1>9. M = Missing \ {shift - 1} /\ G = Gaps \ {shift - 1} /\ f = faults
  BY <1>1, <1>3, <1>8
<1>10. Cardinality(G) <= f
  BY <1>2, <1>4, <1>7, <1>9 DEF GapsCounted
<1>11. ASSUME Full PROVE Cardinality(M) <= f
  BY <1>2, <1>4, <1>7, <1>9, <1>11 DEF Full
<1> QED
  BY <1>8, <1>10, <1>11 DEF GapsCounted, Full

\* The file that is removed stands at the last index: every name before it that
\* has no file is a gap, so that all are full but for one for each fault.
LEMMA RemoveNames ==
  ASSUME WInv, Shifts, GapsCounted, ShiftRemove
  PROVE  GapsCounted' /\ Full'
<1>1. /\ Shifting /\ pc' = "shift" /\ shift' = shift /\ files[shift] # None
      /\ files' = [files EXCEPT ![shift] = None]
      /\ UNCHANGED <<max_files, faults>>
  BY DEF ShiftRemove, Shifting
<1>2. /\ shift \in 0..(max_files - 1) /\ shift = max_files - 1
      /\ shift \in Nat /\ Turn = {shift} /\ shift \in Indices
  BY <1>1, TurnFacts
<1>3. /\ faults \in Nat /\ Indices \subseteq Nat /\ max_files \in Nat \ {0}
      /\ \A i \in 0..(max_files - 1) : i \in Indices
  BY NamesFacts
<1>4. files \in [Indices -> Text \cup {None}]
  BY DEF WInv, TypeOK, Text
<1>5. files'[shift] = None /\ \A i \in Indices : i # shift => files'[i] = files[i]
  BY <1>1, <1>2, <1>4
<1>6. Turn' = {shift}
  BY <1>1 DEF Turn
<1>7. Missing' \ Turn' \subseteq Missing \ Turn
  BY <1>1, <1>2, <1>3, <1>5, <1>6 DEF Missing
<1>8. Gaps' \ Turn' \subseteq Gaps \ Turn
  <2> SUFFICES ASSUME NEW i \in Gaps' \ Turn' PROVE i \in Gaps \ Turn
    OBVIOUS
  <2>1. i \in Missing \ Turn
    BY <1>7 DEF Gaps
  <2>2. PICK j \in Indices : j > i /\ files'[j] # None
    BY DEF Gaps
  <2>3. files[j] # None
    BY <1>5, <2>2
  <2> QED
    BY <2>1, <2>2, <2>3 DEF Gaps
<1>9. Full
  <2>1. Missing \ Turn \subseteq Gaps \ Turn
    <3> SUFFICES ASSUME NEW i \in Missing \ Turn PROVE i \in Gaps
      OBVIOUS
    <3>1. i \in 0..(max_files - 1) /\ i # shift
      BY <1>2 DEF Missing
    <3>2. shift > i
      BY <1>2, <1>3, <3>1
    <3> QED
      BY <1>1, <1>2, <3>2 DEF Gaps
  <2>2. Gaps \ Turn \subseteq Missing \ Turn
    BY NamesFacts
  <2> QED
    BY <2>1, <2>2 DEF Full, GapsCounted
<1> QED
  BY <1>1, <1>3, <1>7, <1>8, <1>9, NamesShrink

\* The gap moves to where the file was, and the loop with it.
LEMMA RenameNames ==
  ASSUME WInv, Shifts, GapsCounted, ShiftRename
  PROVE  GapsCounted' /\ (Full => Full')
<1>1. /\ Shifting /\ pc' = "shift" /\ shift' = shift - 1
      /\ files[shift - 1] # None /\ files[shift] = None
      /\ files' = [files EXCEPT ![shift] = files[shift - 1], ![shift - 1] = None]
      /\ UNCHANGED <<max_files, faults>>
  BY DEF ShiftRename, Shifting
<1>2. /\ shift \in 0..(max_files - 1) /\ shift - 1 \in 0..(max_files - 1)
      /\ shift \in Indices /\ shift - 1 \in Indices
      /\ shift \in Nat /\ Turn = {shift} /\ shift # shift - 1
  BY <1>1, TurnFacts
<1>3. /\ faults \in Nat /\ Indices \subseteq Nat /\ max_files \in Nat \ {0}
      /\ \A i \in 0..(max_files - 1) : i \in Indices
  BY NamesFacts
<1>4. files \in [Indices -> Text \cup {None}]
  BY DEF WInv, TypeOK, Text
<1>5. /\ files'[shift] # None
      /\ \A i \in Indices : i # shift /\ i # shift - 1 => files'[i] = files[i]
  BY <1>1, <1>2, <1>4
<1>6. Turn' = {shift - 1}
  BY <1>1 DEF Turn
<1>7. Missing' \ Turn' \subseteq Missing \ Turn
  <2> SUFFICES ASSUME NEW i \in Missing' \ Turn' PROVE i \in Missing \ Turn
    OBVIOUS
  <2>1. i \in 0..(max_files - 1) /\ files'[i] = None /\ i # shift - 1
    BY <1>1, <1>6 DEF Missing
  <2>2. i # shift
    BY <1>5, <2>1
  <2>3. files[i] = None
    BY <1>3, <1>5, <2>1, <2>2
  <2> QED
    BY <1>2, <2>1, <2>2, <2>3 DEF Missing
<1>8. Gaps' \ Turn' \subseteq Gaps \ Turn
  <2> SUFFICES ASSUME NEW i \in Gaps' \ Turn' PROVE i \in Gaps \ Turn
    OBVIOUS
  <2>1. i \in Missing \ Turn /\ i # shift - 1
    BY <1>6, <1>7 DEF Gaps
  <2>2. PICK j \in Indices : j > i /\ files'[j] # None
    BY DEF Gaps
  <2>3. i \in Nat /\ i # shift
    BY <1>2, <2>1 DEF Missing
  <2>4. \E h \in Indices : h > i /\ files[h] # None
    <3>1. CASE j = shift
      <4>1. shift - 1 > i
        BY <1>2, <2>1, <2>2, <2>3, <3>1
      <4> QED
        BY <1>1, <1>2, <4>1
    <3>2. CASE j = shift - 1
      BY <1>1, <1>2, <2>2, <3>2
    <3>3. CASE j # shift /\ j # shift - 1
      BY <1>5, <2>2, <3>3
    <3> QED
      BY <3>1, <3>2, <3>3
  <2> QED
    BY <2>1, <2>4 DEF Gaps
<1> QED
  BY <1>1, <1>3, <1>7, <1>8, NamesShrink

\* The name the loop ends at is taken; if a file stood there it is the only one.
LEMMA CreateNames ==
  ASSUME WInv, WInv', Shifts, GapsCounted, Create
  PROVE  GapsCounted' /\ (Full => Full') /\ (files[0] # None => Full')
<1>1. /\ pc = "shift" /\ shift = 0 /\ pc' = "body"
      /\ (0 = max_files - 1 \/ files[0] = None)
      /\ UNCHANGED <<max_files, faults>>
  BY DEF Create, Shifts
<1>2. /\ faults \in Nat /\ Indices \subseteq Nat /\ max_files \in Nat \ {0}
      /\ \A i \in 0..(max_files - 1) : i \in Indices
  BY NamesFacts
<1>3. files \in [Indices -> Text \cup {None}] /\ <<>> \in Text /\ None \notin Text
      /\ 0 \in Indices
  BY TextFacts, NoneIsNoText, IndexFacts DEF WInv, TypeOK, Text
<1>4. files'[0] # None /\ \A i \in Indices : i # 0 => files'[i] = files[i]
  BY <1>3 DEF Create
<1>5. Turn = {0} /\ Turn' = {}
  BY <1>1 DEF Turn
<1>6. Missing' \ Turn' \subseteq Missing \ Turn
  <2> SUFFICES ASSUME NEW i \in Missing' PROVE i \in Missing \ {0}
    BY <1>5
  <2>1. i \in 0..(max_files - 1) /\ files'[i] = None
    BY <1>1 DEF Missing
  <2>2. i # 0 /\ files[i] = None
    BY <1>2, <1>4, <2>1
  <2> QED
    BY <2>1, <2>2 DEF Missing
<1>7. Gaps' \ Turn' \subseteq Gaps \ Turn
  <2> SUFFICES ASSUME NEW i \in Gaps' PROVE i \in Gaps \ Turn
    OBVIOUS
  <2>1. i \in Missing \ Turn /\ i \in Nat
    BY <1>5, <1>6 DEF Gaps, Missing
  <2>2. PICK j \in Indices : j > i /\ files'[j] # None
    BY DEF Gaps
  <2>3. j # 0
    BY <1>2, <2>1, <2>2
  <2>4. files[j] # None
    BY <1>4, <2>2, <2>3
  <2> QED
    BY <2>1, <2>2, <2>4 DEF Gaps
<1>8. GapsCounted' /\ (Full => Full')
  BY <1>1, <1>2, <1>6, <1>7, NamesShrink
<1>9. ASSUME files[0] # None PROVE Full'
  <2>1. 0 = max_files - 1
    BY <1>1, <1>9
  <2>2. Missing' \ Turn' = {}
    <3>1. \A i \in 0..(max_files - 1) : files'[i] # None
      BY <1>2, <1>4, <2>1
    <3> QED
      BY <1>1, <3>1 DEF Missing
  <2>3. Cardinality({}) = 0
    BY FS_EmptySet
  <2>4. PICK M : M = Missing' \ Turn'
    OBVIOUS
  <2>5. Cardinality(M) <= faults'
    BY <1>1, <1>2, <2>2, <2>3, <2>4
  <2> QED
    BY <2>4, <2>5 DEF Full
<1> QED
  BY <1>8, <1>9

LEMMA OpenNames ==
  ASSUME "reconfigure" \notin Faults, WInv, WInv', GapsCounted, Open
  PROVE  GapsCounted' /\ (Full => Full')
<1>1. /\ pc = "down" /\ pc' = "idle" /\ UNCHANGED <<max_files, faults>>
  BY DEF Open
<1>2. /\ faults \in Nat /\ Indices \subseteq Nat
      /\ \A i \in 0..(max_files - 1) : i \in Indices
  BY NamesFacts
<1>3. files \in [Indices -> Text \cup {None}] /\ <<>> \in Text /\ None \notin Text
      /\ 0 \in Indices
  BY TextFacts, NoneIsNoText, IndexFacts DEF WInv, TypeOK, Text
<1>4. files'[0] # None /\ \A i \in Indices : i # 0 => files'[i] = files[i]
  BY <1>3 DEF Open
<1>5. Turn = {} /\ Turn' = {}
  BY <1>1 DEF Turn
<1>6. Missing' \subseteq Missing
  <2> SUFFICES ASSUME NEW i \in Missing' PROVE i \in Missing
    OBVIOUS
  <2>1. i \in 0..(max_files - 1) /\ files'[i] = None
    BY <1>1 DEF Missing
  <2>2. files[i] = None
    BY <1>2, <1>4, <2>1
  <2> QED
    BY <2>1, <2>2 DEF Missing
<1>7. Gaps' \subseteq Gaps
  <2> SUFFICES ASSUME NEW i \in Gaps' PROVE i \in Gaps
    OBVIOUS
  <2>1. i \in Missing /\ i \in Nat
    BY <1>6 DEF Gaps, Missing
  <2>2. PICK j \in Indices : j > i /\ files'[j] # None
    BY DEF Gaps
  <2>3. j # 0
    BY <1>2, <2>1, <2>2
  <2>4. files[j] # None
    BY <1>4, <2>2, <2>3
  <2> QED
    BY <2>1, <2>2, <2>4 DEF Gaps
<1>8. Missing' \ Turn' \subseteq Missing \ Turn /\ Gaps' \ Turn' \subseteq Gaps \ Turn
  BY <1>5, <1>6, <1>7
<1> QED
  BY <1>1, <1>2, <1>8, NamesShrink
-----------------------------------------------------------------------------
(* What each step does to the lines *)

LEMMA LineFacts ==
  ASSUME WInv
  PROVE  /\ Log \in Seq(Nat) /\ Kept \in Seq(Nat)
         /\ safe \subseteq done /\ done \subseteq 1..Len(lines)
         /\ \A n \in 1..Len(lines) : n \in Nat /\ lines[n] \in Nat
         /\ lines # <<>> => Len(lines) \in 1..Len(lines)
<1>1. Log \in Seq(Nat) /\ Kept \in Seq(Nat)
  BY ByteFacts, Concat DEF WInv, Log
<1>2. lines \in Seq(Lengths) /\ Len(lines) \in Nat /\ safe \subseteq done /\ done \subseteq 1..Len(lines)
  BY LenProperties DEF WInv, TypeOK
<1>3. ASSUME NEW n \in 1..Len(lines) PROVE n \in Nat /\ lines[n] \in Nat
  <2>1. lines[n] \in Lengths /\ n \in Nat
    BY <1>2, ElementOfSeq
  <2> QED
    BY <2>1, SizeAssumption
<1>4. lines # <<>> => Len(lines) \in 1..Len(lines)
  BY <1>2, EmptySeq
<1> QED
  BY <1>1, <1>2, <1>3, <1>4

\* What the log only gets more of stays complete.
LEMMA CompleteGrows ==
  ASSUME WInv, WInv', Complete, Continues, safe' = safe,
         \A n \in done' : \/ n \in done /\ lines'[n] = lines[n]
                          \/ pc = "newline" /\ n = Len(lines) /\ lines' = lines,
         pc' = "newline" => lines' = lines /\ Count(Len(lines), Log') >= lines[Len(lines)]
  PROVE  Complete'
<1>1. PICK x \in Seq(Nat) : Adds(x)
  BY DEF Continues
<1>2. PICK y \in Seq(Nat) : Kept' = Kept \o y
  BY <1>1 DEF Adds
<1>3. Log \in Seq(Nat) /\ Kept \in Seq(Nat) /\ Log' = Log \o x
  BY <1>1, LineFacts DEF Adds
<1>4. \A n : /\ Count(n, Log) \in Nat /\ Count(n, Log \o x) \in Nat
             /\ Count(n, Log) <= Count(n, Log \o x)
  BY <1>3, CountGrows
<1>5. \A n : /\ Count(n, Kept) \in Nat /\ Count(n, Kept \o y) \in Nat
             /\ Count(n, Kept) <= Count(n, Kept \o y)
  BY <1>3, CountGrows
<1>6. ASSUME NEW n \in done' PROVE Count(n, Log') >= lines'[n]
  <2>1. CASE n \in done /\ lines'[n] = lines[n]
    <3>1. lines[n] \in Nat /\ Count(n, Log) >= lines[n]
      BY <2>1, LineFacts DEF Complete
    <3>2. Count(n, Log \o x) >= lines[n]
      BY <1>4, <3>1
    <3> QED
      BY <1>3, <2>1, <3>2
  <2>2. CASE pc = "newline" /\ n = Len(lines) /\ lines' = lines
    <3>1. lines # <<>>
      BY <2>2 DEF WInv, InCall
    <3>2. lines[n] \in Nat /\ Count(n, Log) >= lines[n]
      BY <2>2, <3>1, LineFacts DEF Complete
    <3>3. Count(n, Log \o x) >= lines[n]
      BY <1>4, <3>2
    <3> QED
      BY <1>3, <2>2, <3>3
  <2> QED
    BY <1>6, <2>1, <2>2
<1>7. ASSUME NEW n \in safe' PROVE Count(n, Kept') >= lines'[n]
  <2>1. lines[n] \in Nat /\ Count(n, Kept) >= lines[n]
    BY LineFacts DEF Complete
  <2>2. Count(n, Kept \o y) >= lines[n]
    BY <1>5, <2>1
  <2>3. lines'[n] = lines[n]
    <3>1. n \in done'
      BY DEF WInv, TypeOK
    <3> QED
      BY <3>1
  <2> QED
    BY <1>2, <2>2, <2>3
<1>8. pc' = "newline" => Count(Len(lines'), Log') >= lines'[Len(lines')]
  OBVIOUS
<1> QED
  BY <1>6, <1>7, <1>8 DEF Complete

LEMMA CompleteFlushed ==
  ASSUME WInv, Complete, Kept' = Log, Log' = Log, pc' # "newline",
         safe' = done, UNCHANGED <<lines, done>>
  PROVE  Complete'
<1>1. \A n \in done : Count(n, Log) >= lines[n]
  BY DEF Complete
<1>2. (\A n \in done' : Count(n, Log') >= lines'[n])
      /\ \A n \in safe' : Count(n, Kept') >= lines'[n]
  BY <1>1
<1> QED
  BY <1>2 DEF Complete

LEMMA LineComplete ==
  ASSUME WInv, WInv', WithinLimit, Shifts, Complete,
         \/ \E len \in Lengths : WriteLine(len)
         \/ Rotate \/ WriteBody \/ WriteNewline \/ Flush \/ Close
  PROVE  Complete'
<1>1. Continues
  BY LineSteps
<1>2. CASE \E len \in Lengths : WriteLine(len)
  <2>1. PICK len \in Lengths : WriteLine(len)
    BY <1>2
  <2>2. lines' = Append(lines, len) /\ lines \in Seq(Lengths) /\ done' = done /\ safe' = safe
        /\ pc' # "newline"
    BY <2>1 DEF WriteLine, WInv, TypeOK
  <2>3. \A n \in 1..Len(lines) : lines'[n] = lines[n]
    BY <2>2, AppendProperties
  <2>4. \A n \in done' : n \in done /\ lines'[n] = lines[n]
    BY <2>2, <2>3, LineFacts
  <2> QED
    BY <1>1, <2>2, <2>4, CompleteGrows
<1>3. CASE Rotate \/ Flush \/ Close
  <2>1. Flushed /\ safe' = done /\ pc' # "newline" /\ UNCHANGED <<max_files, handle, lines, done>>
    BY <1>3 DEF Rotate, Flush, Close
  <2>2. Kept' = Log /\ Log' = Log
    BY <2>1, FlushedLog
  <2> QED
    BY <2>1, <2>2, CompleteFlushed
<1>4. CASE WriteBody
  <2>1. /\ Put(Body) /\ UNCHANGED <<max_files, handle, lines>> /\ done' = done /\ safe' = safe
        /\ lines # <<>>
    BY <1>4 DEF WriteBody, WInv, InCall
  <2>2. Body \in Text
    BY <2>1, TextFacts DEF WInv
  <2>3. Adds(Body)
    BY <2>1, <2>2, PutLog
  <2>4. Log \in Seq(Nat) /\ Len(lines) \in Nat /\ lines[Len(lines)] \in Nat
    BY <2>1, LineFacts
  <2>5. Count(Len(lines), Log \o [i \in 1..lines[Len(lines)] |-> Len(lines)]) >= lines[Len(lines)]
    BY <2>4, CountBody
  <2>6. Count(Len(lines), Log') >= lines[Len(lines)]
    BY <2>3, <2>5 DEF Adds, Body
  <2>7. \A n \in done' : n \in done /\ lines'[n] = lines[n]
    BY <2>1
  <2> QED
    BY <1>1, <2>1, <2>6, <2>7, CompleteGrows
<1>5. CASE WriteNewline
  <2>1. /\ pc = "newline" /\ pc' # "newline" /\ lines' = lines /\ safe' = safe
        /\ done' = done \cup {Len(lines)}
    BY <1>5 DEF WriteNewline
  <2>2. \A n \in done' : \/ n \in done /\ lines'[n] = lines[n]
                         \/ pc = "newline" /\ n = Len(lines) /\ lines' = lines
    BY <2>1
  <2> QED
    BY <1>1, <2>1, <2>2, CompleteGrows
<1> QED
  BY <1>2, <1>3, <1>4, <1>5

LEMMA UnlinedComplete ==
  ASSUME WInv, WInv', Complete, Continues, UNCHANGED <<lines, done, safe>>, pc' # "newline"
  PROVE  Complete'
<1>1. \A n \in done' : n \in done /\ lines'[n] = lines[n]
  OBVIOUS
<1> QED
  BY <1>1, CompleteGrows

\* A crash takes back what no flush has followed.
LEMMA CrashComplete ==
  ASSUME WInv, WInv', WithinLimit, Complete, Crash
  PROVE  Complete'
<1>1. /\ UNCHANGED <<max_files, handle, lines, safe>> /\ buffer' = <<>>
      /\ pc' = "down" /\ done' = safe
  BY DEF Crash
<1>2. PICK ahead, k :
        /\ k \in 0..Len(ahead)
        /\ (ahead = buffer \/ (pc = "body" /\ ahead = buffer \o Body))
        /\ Gets(SubSeq(ahead, 1, k))
  BY DEF Crash
<1>3. ahead \in Text
  BY <1>2, TextFacts DEF WInv, InCall
<1>4. PICK head : head = SubSeq(ahead, 1, k)
  OBVIOUS
<1>5. head \in Text /\ head \in Seq(Nat)
  BY <1>2, <1>3, <1>4, Slices, TextIsBytes DEF WInv
<1>6. Kept' = Kept \o head
  BY <1>1, <1>2, <1>4, <1>5, GetsLog
<1>7. Kept \in Seq(Nat) /\ Kept' \in Seq(Nat)
  BY <1>5, <1>6, LineFacts, Concat
<1>8. Log' = Kept'
  BY <1>1, <1>7, Concat DEF Log
<1>9. \A n : /\ Count(n, Kept) \in Nat /\ Count(n, Kept \o head) \in Nat
             /\ Count(n, Kept) <= Count(n, Kept \o head)
  BY <1>5, <1>7, CountGrows
<1>10. ASSUME NEW n \in safe PROVE Count(n, Kept') >= lines[n]
  <2>1. lines[n] \in Nat /\ Count(n, Kept) >= lines[n]
    BY LineFacts DEF Complete
  <2>2. Count(n, Kept \o head) >= lines[n]
    BY <1>9, <2>1
  <2> QED
    BY <1>6, <2>2
<1>11. (\A n \in done' : Count(n, Log') >= lines'[n])
       /\ \A n \in safe' : Count(n, Kept') >= lines'[n]
  BY <1>1, <1>8, <1>10
<1> QED
  BY <1>1, <1>11 DEF Complete

\* Whatever a rotation leaves in place is still there.
LEMMA RotationComplete ==
  ASSUME WInv, WInv', WithinLimit, Shifts, Complete,
         ShiftSkip \/ ShiftRename \/ (Create /\ files[0] = None)
  PROVE  Complete'
<1>1. UNCHANGED <<lines, done, safe, buffer>> /\ pc' # "newline"
  BY DEF ShiftSkip, ShiftRename, Create, Shifting
<1>2. Kept' = Kept
  <2>1. CASE ShiftSkip
    BY <2>1 DEF ShiftSkip, Kept, Content
  <2>2. CASE ShiftRename
    BY <2>2, RenameKeeps
  <2>3. CASE Create /\ files[0] = None
    <3>1. files \in Contents /\ files' \in Contents
      BY NextContents
    <3>2. PICK gs \in Contents : gs = files'
      BY <3>1
    <3>3. 0 \in Indices
      BY IndexFacts
    <3>4. gs[0] = <<>> /\ \A j \in Indices : j # 0 => gs[j] = files[j]
      BY <2>3, <3>1, <3>2, <3>3 DEF Create, Contents
    <3>5. \A j \in Indices : Read(gs[j]) = Read(files[j])
      <4>1. Read(gs[0]) = <<>> /\ Read(files[0]) = <<>>
        BY <2>3, <3>4 DEF Read
      <4> QED
        BY <3>4, <4>1
    <3> QED
      BY <3>1, <3>2, <3>5, JoinedSame, KeptIsJoined
  <2> QED
    BY <2>1, <2>2, <2>3
<1>3. Log' = Log /\ Log \in Seq(Nat) /\ Kept \in Seq(Nat) /\ <<>> \in Seq(Nat)
  BY <1>1, <1>2, LineFacts, Concat DEF Log
<1>4. Log' = Log \o <<>> /\ Kept' = Kept \o <<>>
  BY <1>2, <1>3, Concat
<1>5. Continues
  BY <1>3, <1>4 DEF Adds, Continues
<1> QED
  BY <1>1, <1>5, UnlinedComplete
-----------------------------------------------------------------------------
History == GapsCounted /\ ShedsWhenFull

LEMMA InitHistory == Init => History
<1> SUFFICES ASSUME Init PROVE History
  OBVIOUS
<1>1. WInv
  BY InitWInv
<1>2. Gaps \ Turn = {}
  <2>1. \A j \in Indices : j > 0 => files[j] = None
    BY NamesFacts, <1>1 DEF Init
  <2>2. \A i \in Missing : i >= 0 /\ i \in Nat
    BY DEF Missing
  <2>3. \A i \in Missing : \A j \in Indices : j > i => j > 0
    BY <1>1, <2>2, NamesFacts
  <2> QED
    BY <2>1, <2>3 DEF Gaps
<1>3. GapsCounted
  <2>1. Cardinality({}) = 0 /\ faults = 0
    BY FS_EmptySet DEF Init
  <2>2. Cardinality(Gaps \ Turn) <= faults
    BY <1>2, <2>1
  <2> QED
    BY <2>2 DEF GapsCounted
<1>4. Complete
  BY DEF Init, Complete
<1> QED
  BY <1>3, <1>4 DEF History, ShedsWhenFull

LEMMA NextHistory ==
  ASSUME "reconfigure" \notin Faults, WInv, WInv', Ordered, History, [Next]_vars
  PROVE  History'
<1>1. WithinLimit /\ Shifts /\ GapsCounted /\ (Complete \/ Full)
  BY DEF Ordered, History, ShedsWhenFull
<1>2. CASE \/ \E len \in Lengths : WriteLine(len)
           \/ Rotate \/ WriteBody \/ WriteNewline \/ Flush \/ Close
  BY <1>1, <1>2, LineNames, LineComplete DEF History, ShedsWhenFull
<1>3. CASE FlushFails \/ BodyFails \/ NewlineFails \/ RemoveFails \/ RenameFails \/ CreateFails
  <2>1. UNCHANGED <<lines, done, safe>> /\ pc' # "newline"
    BY <1>3 DEF FlushFails, BodyFails, NewlineFails, RemoveFails, RenameFails, CreateFails, Fails
  <2>2. Complete => Complete'
    BY <1>1, <1>3, <2>1, FaultSteps, UnlinedComplete
  <2> QED
    BY <1>1, <1>3, <2>2, FaultNames DEF History, ShedsWhenFull
<1>4. CASE ShiftSkip
  BY <1>1, <1>4, SkipNames, RotationComplete DEF History, ShedsWhenFull
<1>5. CASE ShiftRemove
  BY <1>1, <1>5, RemoveNames DEF History, ShedsWhenFull
<1>6. CASE ShiftRename
  BY <1>1, <1>6, RenameNames, RotationComplete DEF History, ShedsWhenFull
<1>7. CASE Create
  BY <1>1, <1>7, CreateNames, RotationComplete DEF History, ShedsWhenFull
<1>8. CASE Open
  <2>1. UNCHANGED <<lines, done, safe>> /\ pc' # "newline"
    BY <1>8 DEF Open
  <2>2. Complete => Complete'
    BY <1>1, <1>8, <2>1, OpenContinues, UnlinedComplete
  <2> QED
    BY <1>1, <1>8, <2>2, OpenNames DEF History, ShedsWhenFull
<1>9. CASE Crash
  BY <1>1, <1>9, FaultNames, CrashComplete DEF History, ShedsWhenFull
<1>10. CASE UNCHANGED vars
  <2>1. UNCHANGED <<max_files, files, buffer, pc, shift, lines, done, safe, faults>>
    BY <1>10 DEF vars
  <2>2. Missing' = Missing /\ Gaps' = Gaps /\ Turn' = Turn /\ Kept' = Kept
    BY <2>1 DEF Missing, Gaps, Turn, Kept, Content
  <2>3. GapsCounted' /\ (Full => Full')
    BY <1>1, <2>1, <2>2 DEF GapsCounted, Full
  <2>4. Complete => Complete'
    BY <2>1, <2>2 DEF Complete, Log
  <2> QED
    BY <1>1, <2>3, <2>4 DEF History, ShedsWhenFull
<1> QED
  BY <1>2, <1>3, <1>4, <1>5, <1>6, <1>7, <1>8, <1>9, <1>10 DEF Next

LEMMA HistoryKept ==
  ASSUME WInv, History PROVE KeepsHistory
<1> SUFFICES ASSUME NEW n \in safe, Gone(n), pc # "shift"
             PROVE  Cardinality({i \in 0..(max_files - 1) : files[i] = None}) <= faults
  BY DEF KeepsHistory
<1>1. lines[n] \in Nat /\ Kept \in Seq(Nat) /\ <<>> \in Seq(Nat)
  BY LineFacts, Concat
<1>2. Count(n, Kept) \in Nat /\ Count(n, Kept) < lines[n]
  BY <1>1, CountGrows DEF Gone
<1>3. ~Complete
  BY <1>1, <1>2 DEF Complete
<1>4. Full
  BY <1>3 DEF History, ShedsWhenFull
<1>5. Missing \ Turn = Missing
  BY DEF Turn
<1> QED
  BY <1>4, <1>5 DEF Full, Missing
-----------------------------------------------------------------------------
\* A line that was acknowledged and flushed leaves the files only when max_files
\* of them are full, but for one for each fault, as long as the configuration
\* stays.
THEOREM HistoryIsKept ==
  ASSUME "reconfigure" \notin Faults
  PROVE  Spec => []KeepsHistory
<1>1. Init => WInv /\ Ordered /\ History
  BY InitWInv, InitOrdered, InitHistory
<1>2. WInv /\ Ordered /\ History /\ [Next]_vars => WInv' /\ Ordered' /\ History'
  BY NextWInv, NextOrdered, NextHistory
<1>3. WInv /\ History => KeepsHistory
  BY HistoryKept
<1> QED
  BY <1>1, <1>2, <1>3, PTL DEF Spec
=============================================================================
