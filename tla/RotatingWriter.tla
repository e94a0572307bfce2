--------------------------- MODULE RotatingWriter ---------------------------
(***************************************************************************)
(* The size-rotated output files of crates/telemetryd/src/output.rs:       *)
(* RotatingWriter behind a BufWriter, with every file operation a step     *)
(* that may fail, and with a crash and a restart between any two steps.    *)
(*                                                                         *)
(* Lines are numbered in the order write_line gets them.  A byte of the    *)
(* body of line n is n itself, a newline is NL, so that contents show what *)
(* is lost, repeated, torn or glued together.                              *)
(***************************************************************************)
EXTENDS Integers, Sequences, SequencesExt, FiniteSets

CONSTANTS
  Limits,     \* values of output.max_files that a configuration may have
  MaxBytes,   \* output.max_file_bytes
  BUFFER,     \* capacity of the BufWriter
  Lengths,    \* lengths a line may have, without its newline
  Faults,     \* what may go wrong
  MaxLines, MaxFaults,  \* bounds on lines and on faults
  None

AllFaults == {"write", "remove", "rename", "open", "crash", "reconfigure"}

ASSUME LimitAssumption ==
  Limits \subseteq Nat \ {0} /\ \E top \in Limits : \A n \in Limits : n <= top
ASSUME SizeAssumption ==
  /\ MaxBytes \in Nat \ {0} /\ BUFFER \in Nat \ {0}
  /\ Lengths \subseteq Nat \ {0}
  /\ Faults \subseteq AllFaults
  /\ MaxLines \in Nat /\ MaxFaults \in Nat
ASSUME NoneAssumption == None \notin Seq(Nat)

VARIABLES
  max_files,  \* the configuration the process runs with
  files,      \* index -> contents of telemetry.ndjson[.index], or None
  handle,     \* index of the name the open file has by now
  buffer,     \* bytes in the BufWriter
  size,       \* the size counter
  pc,         \* where the writer is: between calls, within one, or not running
  shift,      \* i of the loop in rotate
  lines,      \* lengths of the lines write_line got so far
  done,       \* lines for which write_line returned Ok, less those a crash lost
  safe,       \* those of them that a flush has followed
  faults      \* how much went wrong so far

vars == <<max_files, files, handle, buffer, size, pc, shift, lines, done, safe, faults>>

NL == 0
Indices == 0..(Max(Limits) - 1)
Body == [i \in 1..lines[Len(lines)] |-> Len(lines)]
-----------------------------------------------------------------------------
(* std::io::BufWriter over a file *)

\* The open file gets these bytes.
Gets(bytes) == files' = [files EXCEPT ![handle] = @ \o bytes]

Flushed == Gets(buffer) /\ buffer' = <<>>

\* A write fails after some bytes, which leave the buffer.
FlushBroken ==
  \E k \in 0..(Len(buffer) - 1) :
    /\ Gets(SubSeq(buffer, 1, k))
    /\ buffer' = SubSeq(buffer, k + 1, Len(buffer))

Spare == BUFFER - Len(buffer)

\* write_all: what does not fit makes room first, what fits in no buffer
\* bypasses it.
Put(bytes) ==
  \/ Len(bytes) >= BUFFER /\ Gets(buffer \o bytes) /\ buffer' = <<>>
  \/ /\ Len(bytes) < BUFFER /\ Len(bytes) > Spare
     /\ Gets(buffer) /\ buffer' = bytes
  \/ /\ Len(bytes) < BUFFER /\ Len(bytes) <= Spare
     /\ buffer' = buffer \o bytes /\ UNCHANGED files

PutBroken(bytes) ==
  \/ Len(bytes) > Spare /\ FlushBroken
  \/ /\ Len(bytes) >= BUFFER
     /\ \E k \in 0..(Len(bytes) - 1) : Gets(buffer \o SubSeq(bytes, 1, k))
     /\ buffer' = <<>>
-----------------------------------------------------------------------------
(* write_line and rotate *)

Init ==
  /\ max_files \in Limits
  /\ files = [i \in Indices |-> IF i = 0 THEN <<>> ELSE None]
  /\ handle = 0 /\ buffer = <<>> /\ size = 0
  /\ pc = "idle" /\ shift = 0
  /\ lines = <<>> /\ done = {} /\ safe = {} /\ faults = 0

WriteLine(len) ==
  /\ pc = "idle" /\ Len(lines) < MaxLines
  /\ lines' = Append(lines, len)
  /\ pc' = IF size > 0 /\ size + len + 1 > MaxBytes THEN "rotate" ELSE "body"
  /\ UNCHANGED <<max_files, files, handle, buffer, size, shift, done, safe, faults>>

\* Bugs: the loop starts one too far; the loop has one turn only.
Rotate_OneMore ==
  /\ pc = "rotate" /\ Flushed /\ safe' = done
  /\ pc' = "shift" /\ shift' = max_files
  /\ UNCHANGED <<max_files, handle, size, lines, done, faults>>
Rotate_OneTurn ==
  /\ pc = "rotate" /\ Flushed /\ safe' = done
  /\ pc' = "shift" /\ shift' = IF max_files > 1 THEN 1 ELSE 0
  /\ UNCHANGED <<max_files, handle, size, lines, done, faults>>

Rotate ==
  /\ pc = "rotate"
  /\ Flushed
  /\ safe' = done
  /\ pc' = "shift" /\ shift' = max_files - 1
  /\ UNCHANGED <<max_files, handle, size, lines, done, faults>>

\* A turn of the loop: nothing to shift, or the removal of what is in the way
\* and the rename, which the open file follows.
Shifting == pc = "shift" /\ shift > 0

ShiftSkip ==
  /\ Shifting /\ files[shift - 1] = None
  /\ shift' = shift - 1
  /\ UNCHANGED <<max_files, files, handle, buffer, size, pc, lines, done, safe, faults>>

ShiftRemove ==
  /\ Shifting /\ files[shift - 1] # None /\ files[shift] # None
  /\ files' = [files EXCEPT ![shift] = None]
  /\ UNCHANGED <<max_files, handle, buffer, size, pc, shift, lines, done, safe, faults>>

ShiftRename ==
  /\ Shifting /\ files[shift - 1] # None /\ files[shift] = None
  /\ files' = [files EXCEPT ![shift] = files[shift - 1], ![shift - 1] = None]
  /\ handle' = IF handle = shift - 1 THEN shift ELSE handle
  /\ shift' = shift - 1
  /\ UNCHANGED <<max_files, buffer, size, pc, lines, done, safe, faults>>

Create ==
  /\ pc = "shift" /\ shift = 0
  /\ files' = [files EXCEPT ![0] = <<>>]
  /\ handle' = 0 /\ size' = 0
  /\ pc' = "body"
  /\ UNCHANGED <<max_files, buffer, shift, lines, done, safe, faults>>

WriteBody ==
  /\ pc = "body"
  /\ Put(Body)
  /\ pc' = "newline"
  /\ UNCHANGED <<max_files, handle, size, shift, lines, done, safe, faults>>

\* A bug: the newline is written to the file and not to its BufWriter.
WriteNewline_Direct ==
  /\ pc = "newline"
  /\ Gets(<<NL>>)
  /\ size' = size + Len(Body) + 1
  /\ done' = done \cup {Len(lines)}
  /\ pc' = "idle"
  /\ UNCHANGED <<max_files, handle, buffer, shift, lines, safe, faults>>

WriteNewline ==
  /\ pc = "newline"
  /\ Put(<<NL>>)
  /\ size' = size + Len(Body) + 1
  /\ done' = done \cup {Len(lines)}
  /\ pc' = "idle"
  /\ UNCHANGED <<max_files, handle, shift, lines, safe, faults>>

\* flush, and the flush of sync.
Flush ==
  /\ pc = "idle" /\ buffer # <<>>
  /\ Flushed
  /\ safe' = done
  /\ UNCHANGED <<max_files, handle, size, pc, shift, lines, done, faults>>

\* The writer is dropped; BufWriter flushes.
Close ==
  /\ pc = "idle"
  /\ Flushed
  /\ safe' = done
  /\ pc' = "down"
  /\ UNCHANGED <<max_files, handle, size, shift, lines, done, faults>>

\* Bugs: the counter starts at zero whatever the file holds; the file is created
\* anew.
Open_Zero ==
  /\ pc = "down"
  /\ files' = [files EXCEPT ![0] = IF @ = None THEN <<>> ELSE @]
  /\ handle' = 0 /\ size' = 0 /\ pc' = "idle"
  /\ UNCHANGED <<max_files, buffer, shift, lines, done, safe, faults>>
Open_Truncate ==
  /\ pc = "down"
  /\ files' = [files EXCEPT ![0] = <<>>]
  /\ handle' = 0 /\ size' = 0 /\ pc' = "idle"
  /\ UNCHANGED <<max_files, buffer, shift, lines, done, safe, faults>>

\* RotatingWriter::open, by a process with perhaps another configuration.
Open ==
  /\ pc = "down"
  /\ files' = [files EXCEPT ![0] = IF @ = None THEN <<>> ELSE @]
  /\ handle' = 0
  /\ size' = Len(files'[0])
  /\ pc' = "idle"
  /\ max_files' \in IF "reconfigure" \in Faults THEN Limits ELSE {max_files}
  /\ UNCHANGED <<buffer, shift, lines, done, safe, faults>>
-----------------------------------------------------------------------------
(* What goes wrong: write_line returns the error, flush has it logged *)

Fault(kind) ==
  /\ kind \in Faults /\ faults < MaxFaults
  /\ faults' = faults + 1

Fails(kind) ==
  /\ Fault(kind)
  /\ pc' = "idle"
  /\ UNCHANGED <<max_files, handle, size, shift, lines, done, safe>>

FlushFails == pc \in {"idle", "rotate"} /\ FlushBroken /\ Fails("write")
BodyFails == pc = "body" /\ PutBroken(Body) /\ Fails("write")
NewlineFails == pc = "newline" /\ PutBroken(<<NL>>) /\ Fails("write")
RemoveFails ==
  /\ Shifting /\ files[shift - 1] # None /\ files[shift] # None
  /\ Fails("remove") /\ UNCHANGED <<files, buffer>>
RenameFails ==
  /\ Shifting /\ files[shift - 1] # None /\ files[shift] = None
  /\ Fails("rename") /\ UNCHANGED <<files, buffer>>
CreateFails ==
  /\ pc = "shift" /\ shift = 0
  /\ Fails("open") /\ UNCHANGED <<files, buffer>>

\* The process is killed, perhaps halfway through a write.
Crash ==
  /\ Fault("crash") /\ pc # "down"
  /\ LET ahead == IF pc = "body" /\ Len(Body) >= BUFFER THEN buffer \o Body ELSE buffer
     IN  \E k \in 0..Len(ahead) : Gets(SubSeq(ahead, 1, k))
  /\ buffer' = <<>>
  /\ done' = safe
  /\ pc' = "down"
  /\ UNCHANGED <<max_files, handle, size, shift, lines, safe>>

Next ==
  \/ \E len \in Lengths : WriteLine(len)
  \/ Rotate \/ ShiftSkip \/ ShiftRemove \/ ShiftRename \/ Create
  \/ WriteBody \/ WriteNewline \/ Flush \/ Close \/ Open
  \/ FlushFails \/ BodyFails \/ NewlineFails
  \/ RemoveFails \/ RenameFails \/ CreateFails \/ Crash

Spec == Init /\ [][Next]_vars
-----------------------------------------------------------------------------
Content(i) == IF files[i] = None THEN <<>> ELSE files[i]

\* What a reader finds, oldest first, and what the buffer adds to it.
Kept == FlattenSeq([j \in 1..Cardinality(Indices) |-> Content(Cardinality(Indices) - j)])
Log == Kept \o buffer

Count(n, seq) == Cardinality({j \in DOMAIN seq : seq[j] = n})
Gone(n) == Count(n, Kept) < lines[n]

\* Line n stands in a file as a line of its own.
Intact(n) ==
  \E i \in Indices : \E j \in DOMAIN Content(i) :
    LET text == Content(i)
    IN  /\ j = 1 \/ text[j - 1] = NL
        /\ j + lines[n] \in DOMAIN text /\ text[j + lines[n]] = NL
        /\ \A k \in j..(j + lines[n] - 1) : text[k] = n

\* Type invariant: in particular the open file always has a name.
TypeOK ==
  /\ max_files \in Limits
  /\ files \in [Indices -> Seq(0..Len(lines)) \cup {None}]
  /\ handle \in Indices /\ files[handle] # None
  /\ buffer \in Seq(0..Len(lines)) /\ Len(buffer) <= BUFFER
  /\ size \in Nat /\ shift \in Indices
  /\ pc \in {"idle", "rotate", "shift", "body", "newline", "down"}
  /\ lines \in Seq(Lengths) /\ Len(lines) <= MaxLines
  /\ safe \subseteq done /\ done \subseteq 1..Len(lines)
  /\ faults \in 0..MaxFaults

\* The files together are one log that grows at its end and sheds its oldest
\* lines, whichever operation of a rotation fails and wherever it is
\* interrupted; only a crash takes from its end, and nothing but the buffer.
ShedsOldestFirst ==
  [][\/ IsPrefix(Log, Log')
     \/ IsSuffix(Log', Log)
     \/ pc' = "down" /\ IsPrefix(Kept, Log') /\ IsPrefix(Log', Log)]_vars

\* A line is shed only when max_files files are full; each fault costs at most
\* one file of history.
KeepsHistory ==
  (\E n \in safe : Gone(n)) /\ pc # "shift"
    => Cardinality({i \in 0..(max_files - 1) : files[i] = None}) <= faults

\* What a file will hold once the buffer has reached it, and how many of these
\* bytes are among some.
Filled(i) == IF i = handle THEN Content(i) \o buffer ELSE Content(i)
Bytes(some, text) == Cardinality({j \in DOMAIN text : text[j] \in some})

\* No file grows beyond max_file_bytes, except for a single oversize line: not by
\* what it held when a process reopened it, nor by what is still in the buffer.
\* What failed writes and crashes left of other lines is not counted.
SizeBounded ==
  \A i \in Indices :
    \/ Bytes(done \cup {NL}, Filled(i)) <= MaxBytes
    \/ /\ Cardinality(done \cap Range(Filled(i))) = 1
       /\ Bytes({NL}, Filled(i)) <= 1

\* A line that was acknowledged and flushed stands as a line of its own until
\* it is shed; each crash and each failure damages at most one.
DamageBounded ==
  Cardinality({n \in safe : ~Gone(n) /\ ~Intact(n)}) <= faults

\* write_line is documented to rotate first if the line would push a non-empty
\* file past max_bytes.
LimitRespected ==
  [][\A len \in Lengths :
       LET held == Len(Content(handle)) + Len(buffer)
       IN  WriteLine(len) /\ held > 0 /\ held + len + 1 > MaxBytes
             => pc' = "rotate"]_vars

\* Up to output.max_files files are documented to be kept in total: no more
\* than that are there when a rotation is through.
FilesBounded ==
  [][Create => Cardinality({i \in Indices : files'[i] # None}) <= max_files]_vars
=============================================================================
