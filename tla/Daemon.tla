-------------------------------- MODULE Daemon ------------------------------
(***************************************************************************)
(* The tasks of telemetryd and its shutdown (crates/telemetryd/src/main.rs,*)
(* ingest.rs, engine_task.rs and the thread of output.rs): ingest receives *)
(* datagrams and sends their samples to the engine task through a bounded  *)
(* channel, the engine task sends records to the output thread through     *)
(* another, and main waits for a signal or for ingest to end, then drains. *)
(*                                                                         *)
(* Samples and records are numbered in the order they come into being.     *)
(* What the rules make of a sample is any number of records, what the      *)
(* writer makes of a line is a buffer in front of the disk.  The await of  *)
(* a channel send is its guard; everything between two awaits is a step.   *)
(***************************************************************************)
EXTENDS Integers, Sequences, SequencesExt

CONSTANTS
  SAMPLE_QUEUE, RECORD_QUEUE,  \* capacities of the two channels
  Faults,                      \* the faults that may happen
  MaxSamples, MaxRecords,      \* bounds on what is decoded and logged
  MaxBatch                     \* bound on samples per datagram and records per report

AllFaults ==
  {"recv_error", "signal_error", "ingest_panic", "engine_panic", "output_panic",
   "write_error", "flush_error", "hang"}

ASSUME QueueAssumption ==
  SAMPLE_QUEUE \in Nat \ {0} /\ RECORD_QUEUE \in Nat \ {0}
ASSUME BoundAssumption ==
  MaxSamples \in Nat /\ MaxRecords \in Nat /\ MaxBatch \in Nat
ASSUME FaultAssumption == Faults \subseteq AllFaults

VARIABLES
  main,       \* where main is: select, await of ingest, drain, runtime drop, gone
  stop,       \* the watch channel: TRUE once ingest is told to stop
  ingest,     \* run_udp: at its select, sending samples, or returned
  todo,       \* samples of the current datagram still to be sent
  sampleQ,    \* the channel from ingest to the engine task
  engine,     \* engine_task::run: where it is in its loop
  pending,    \* records of the current report still to be sent
  recordQ,    \* the channel from the engine task to the output thread
  output,     \* output::spawn: where the thread is in its loop
  buffer,     \* lines in the BufWriter
  disk,       \* lines written to the file
  decoded,    \* samples decoded so far
  evaluated,  \* samples the engine evaluated
  made,       \* records the engine made
  lost,       \* records that will never reach the disk
  hung,       \* TRUE while file operations do not return
  blame       \* faults that happened, and "timeout"

ingestVars == <<ingest, todo, decoded>>
engineVars == <<engine, pending, evaluated, made>>
outputVars == <<output, buffer, disk>>
vars == <<main, stop, ingestVars, sampleQ, engineVars, recordQ, outputVars,
          lost, hung, blame>>

\* The next k numbers after n.
Fresh(n, k) == [i \in 1..k |-> n + i]
-----------------------------------------------------------------------------
Init ==
  /\ main = "running" /\ stop = FALSE
  /\ ingest = "select" /\ todo = <<>> /\ decoded = 0
  /\ sampleQ = <<>> /\ recordQ = <<>>
  /\ engine = "tick" /\ pending = <<>> /\ evaluated = 0 /\ made = 0
  /\ output = "recv" /\ buffer = <<>> /\ disk = <<>>
  /\ lost = {} /\ hung = FALSE /\ blame = {}

-----------------------------------------------------------------------------
(* ingest::run_udp *)

IngestRecv ==
  /\ ingest = "select"
  /\ \E k \in 1..MaxBatch :
       /\ decoded + k <= MaxSamples
       /\ todo' = Fresh(decoded, k)
       /\ decoded' = decoded + k
  /\ ingest' = "send"
  /\ UNCHANGED <<main, stop, sampleQ, engineVars, recordQ, outputVars, lost, hung, blame>>

\* A bug: try_send, which does not wait for room.
IngestSend_NoWait ==
  /\ ingest = "send" /\ todo # <<>> /\ engine # "done"
  /\ sampleQ' = IF Len(sampleQ) < SAMPLE_QUEUE THEN Append(sampleQ, Head(todo))
                ELSE sampleQ
  /\ todo' = Tail(todo)
  /\ UNCHANGED <<main, stop, ingest, decoded, engineVars, recordQ, outputVars, lost,
                 hung, blame>>

\* samples.send(sample).await: waits for room; fails once the engine is gone.
IngestSend ==
  /\ ingest = "send" /\ todo # <<>>
  /\ IF engine = "done"
     THEN ingest' = "done" /\ todo' = <<>> /\ UNCHANGED sampleQ
     ELSE /\ Len(sampleQ) < SAMPLE_QUEUE
          /\ sampleQ' = Append(sampleQ, Head(todo))
          /\ todo' = Tail(todo)
          /\ UNCHANGED ingest
  /\ UNCHANGED <<main, stop, decoded, engineVars, recordQ, outputVars, lost, hung, blame>>

IngestSent ==
  /\ ingest = "send" /\ todo = <<>>
  /\ ingest' = "select"
  /\ UNCHANGED <<main, stop, todo, decoded, sampleQ, engineVars, recordQ, outputVars,
                 lost, hung, blame>>

\* A bug: stop interrupts a datagram whose samples are being sent.
IngestStop_Midway ==
  /\ ingest # "done" /\ stop
  /\ ingest' = "done" /\ todo' = <<>>
  /\ UNCHANGED <<main, stop, decoded, sampleQ, engineVars, recordQ, outputVars, lost,
                 hung, blame>>

\* Stop is looked at between datagrams only.  Returning drops the sender.
IngestStop ==
  /\ ingest = "select" /\ stop
  /\ ingest' = "done"
  /\ UNCHANGED <<main, stop, todo, decoded, sampleQ, engineVars, recordQ, outputVars,
                 lost, hung, blame>>

IngestRecvError ==
  /\ "recv_error" \in Faults
  /\ ingest = "select"
  /\ ingest' = "done"
  /\ blame' = blame \cup {"recv_error"}
  /\ UNCHANGED <<main, stop, todo, decoded, sampleQ, engineVars, recordQ, outputVars,
                 lost, hung>>
-----------------------------------------------------------------------------
(* engine_task::run *)

Report(emit) ==
  \E k \in 0..MaxBatch :
    /\ made + k <= MaxRecords
    /\ pending' = Fresh(made, k)
    /\ made' = made + k
    /\ engine' = emit

EngineTick ==
  /\ engine = "tick"
  /\ Report("emit_tick")
  /\ UNCHANGED <<main, stop, ingestVars, sampleQ, evaluated, recordQ, outputVars,
                 lost, hung, blame>>

\* A bug: a channel without a bound.
EngineEmit_Unbounded ==
  /\ engine \in {"emit_tick", "emit_sample"} /\ pending # <<>>
  /\ recordQ' = Append(recordQ, Head(pending))
  /\ pending' = Tail(pending)
  /\ UNCHANGED <<main, stop, ingestVars, sampleQ, engine, evaluated, made, outputVars,
                 lost, hung, blame>>

\* out.send(record).await: waits for room; the record is dropped once the output
\* thread is gone.
EngineEmit ==
  /\ engine \in {"emit_tick", "emit_sample"} /\ pending # <<>>
  /\ IF output = "done"
     THEN lost' = lost \cup {Head(pending)} /\ UNCHANGED recordQ
     ELSE /\ Len(recordQ) < RECORD_QUEUE
          /\ recordQ' = Append(recordQ, Head(pending))
          /\ UNCHANGED lost
  /\ pending' = Tail(pending)
  /\ UNCHANGED <<main, stop, ingestVars, sampleQ, engine, evaluated, made, outputVars,
                 hung, blame>>

EngineEmitted ==
  /\ engine \in {"emit_tick", "emit_sample"} /\ pending = <<>>
  /\ engine' = IF engine = "emit_tick" THEN "select" ELSE "tick"
  /\ UNCHANGED <<main, stop, ingestVars, sampleQ, pending, evaluated, made, recordQ,
                 outputVars, lost, hung, blame>>

EngineRecv ==
  /\ engine = "select" /\ sampleQ # <<>>
  /\ sampleQ' = Tail(sampleQ)
  /\ evaluated' = evaluated + 1
  /\ Report("emit_sample")
  /\ UNCHANGED <<main, stop, ingestVars, recordQ, outputVars, lost, hung, blame>>

\* The sleep until the next deadline, or the report timer, fires.
EngineWake ==
  /\ engine = "select"
  /\ engine' = "tick"
  /\ UNCHANGED <<main, stop, ingestVars, sampleQ, pending, evaluated, made, recordQ,
                 outputVars, lost, hung, blame>>

\* A bug: the engine task watches the stop channel too.
EngineClosed_OnStop ==
  /\ engine = "select" /\ (stop \/ (sampleQ = <<>> /\ ingest = "done"))
  /\ engine' = "done" /\ sampleQ' = <<>>
  /\ UNCHANGED <<main, stop, ingestVars, pending, evaluated, made, recordQ, outputVars,
                 lost, hung, blame>>

\* recv returns None: the channel is closed and empty.
EngineClosed ==
  /\ engine = "select" /\ sampleQ = <<>> /\ ingest = "done"
  /\ engine' = "done"
  /\ UNCHANGED <<main, stop, ingestVars, sampleQ, pending, evaluated, made, recordQ,
                 outputVars, lost, hung, blame>>
-----------------------------------------------------------------------------
(* the thread of output::spawn *)

\* blocking_recv, or try_recv within a batch, returns a record, which is written
\* to the buffer, after a full buffer or a rotation has flushed it or not; a
\* failed write loses the record.
OutputWrite ==
  /\ output \in {"recv", "batch"} /\ recordQ # <<>> /\ ~hung
  /\ recordQ' = Tail(recordQ)
  /\ output' = "batch"
  /\ \/ /\ buffer' = Append(buffer, Head(recordQ))
        /\ UNCHANGED <<disk, lost, blame>>
     \/ /\ buffer # <<>>
        /\ disk' = disk \o buffer
        /\ buffer' = <<Head(recordQ)>>
        /\ UNCHANGED <<lost, blame>>
     \/ /\ "write_error" \in Faults
        /\ lost' = lost \cup {Head(recordQ)}
        /\ blame' = blame \cup {"write_error"}
        /\ UNCHANGED <<buffer, disk>>
  /\ UNCHANGED <<main, stop, ingestVars, sampleQ, engineVars, hung>>

\* A bug: what was flushed stays in the buffer.
Flushed_Twice == disk' = disk \o buffer /\ UNCHANGED <<buffer, blame>>

\* The buffer reaches the disk, or the flush fails and it stays.
Flushed ==
  \/ disk' = disk \o buffer /\ buffer' = <<>> /\ UNCHANGED blame
  \/ /\ "flush_error" \in Faults
     /\ blame' = blame \cup {"flush_error"}
     /\ UNCHANGED <<disk, buffer>>

\* Nothing else is queued: flush once per batch.
OutputFlush ==
  /\ output = "batch" /\ recordQ = <<>> /\ ~hung
  /\ Flushed
  /\ output' = "recv"
  /\ UNCHANGED <<main, stop, ingestVars, sampleQ, engineVars, recordQ, lost, hung>>

\* Bugs: the thread ends when the channel is closed, full or not; it ends when it
\* is idle during the shutdown.
OutputClosed_NoDrain ==
  /\ output \in {"recv", "batch"} /\ engine = "done"
  /\ output' = "sync" /\ recordQ' = <<>>
  /\ UNCHANGED <<main, stop, ingestVars, sampleQ, engineVars, buffer, disk, lost, hung,
                 blame>>
OutputClosed_OnStop ==
  /\ output = "recv" /\ recordQ = <<>> /\ stop
  /\ output' = "sync"
  /\ UNCHANGED <<main, stop, ingestVars, sampleQ, engineVars, recordQ, buffer, disk,
                 lost, hung, blame>>

\* The channel is closed and empty.
OutputClosed ==
  /\ output = "recv" /\ recordQ = <<>> /\ engine = "done"
  /\ output' = "sync"
  /\ UNCHANGED <<main, stop, ingestVars, sampleQ, engineVars, recordQ, buffer, disk,
                 lost, hung, blame>>

OutputSync ==
  /\ output = "sync" /\ ~hung
  /\ Flushed
  /\ output' = "drop"
  /\ UNCHANGED <<main, stop, ingestVars, sampleQ, engineVars, recordQ, lost, hung>>

\* Dropping the BufWriter flushes it once more and ignores an error.
OutputDrop ==
  /\ output = "drop" /\ ~hung
  /\ \/ disk' = disk \o buffer /\ UNCHANGED <<lost, blame>>
     \/ /\ "flush_error" \in Faults
        /\ lost' = lost \cup Range(buffer)
        /\ blame' = blame \cup {"flush_error"}
        /\ UNCHANGED disk
  /\ buffer' = <<>>
  /\ output' = "done"
  /\ UNCHANGED <<main, stop, ingestVars, sampleQ, engineVars, recordQ, hung>>
-----------------------------------------------------------------------------
(* main, from the select on *)

\* A bug: ingest is awaited without being told.
Signal_NoStop ==
  /\ main = "running"
  /\ main' = "stopping"
  /\ UNCHANGED <<stop, ingestVars, sampleQ, engineVars, recordQ, outputVars, lost, hung,
                 blame>>

\* A signal arrived: tell ingest and await it.
Signal ==
  /\ main = "running"
  /\ main' = "stopping"
  /\ stop' = TRUE
  /\ UNCHANGED <<ingestVars, sampleQ, engineVars, recordQ, outputVars, lost, hung, blame>>

\* signal? : waiting for the signal failed, main returns at once.
SignalError ==
  /\ "signal_error" \in Faults
  /\ main = "running"
  /\ main' = "dropping"
  /\ stop' = TRUE
  /\ blame' = blame \cup {"signal_error"}
  /\ UNCHANGED <<ingestVars, sampleQ, engineVars, recordQ, outputVars, lost, hung>>

\* A bug: main waits for a signal only.
IngestJoined_AfterSignal ==
  /\ main = "stopping" /\ ingest = "done"
  /\ main' = "draining"
  /\ UNCHANGED <<stop, ingestVars, sampleQ, engineVars, recordQ, outputVars, lost, hung,
                 blame>>

IngestJoined ==
  /\ main \in {"running", "stopping"} /\ ingest = "done"
  /\ main' = "draining"
  /\ UNCHANGED <<stop, ingestVars, sampleQ, engineVars, recordQ, outputVars, lost, hung,
                 blame>>

Drained ==
  /\ main = "draining" /\ engine = "done" /\ output = "done"
  /\ main' = "dropping"
  /\ stop' = TRUE
  /\ UNCHANGED <<ingestVars, sampleQ, engineVars, recordQ, outputVars, lost, hung, blame>>

\* SHUTDOWN_TIMEOUT passes: main gives up on the tasks and returns.
DrainTimeout ==
  /\ main = "draining" /\ ~(engine = "done" /\ output = "done")
  /\ main' = "dropping"
  /\ stop' = TRUE
  /\ blame' = blame \cup {"timeout"}
  /\ UNCHANGED <<ingestVars, sampleQ, engineVars, recordQ, outputVars, lost, hung>>

\* Returning from main drops the runtime: a task is cancelled at an await ...
CancelIngest ==
  /\ main = "dropping" /\ ingest # "done"
  /\ ingest' = "done" /\ todo' = <<>>
  /\ UNCHANGED <<main, stop, decoded, sampleQ, engineVars, recordQ, outputVars, lost,
                 hung, blame>>

EngineGone ==
  /\ engine' = "done" /\ sampleQ' = <<>>
  /\ pending' = <<>> /\ lost' = lost \cup Range(pending)

CancelEngine ==
  /\ main = "dropping" /\ engine # "done"
  /\ EngineGone
  /\ UNCHANGED <<main, stop, ingestVars, evaluated, made, recordQ, outputVars, hung, blame>>

\* ... and a blocking thread is waited for, however long it takes.
Exit ==
  /\ main = "dropping" /\ ingest = "done" /\ engine = "done" /\ output = "done"
  /\ main' = "exited"
  /\ UNCHANGED <<stop, ingestVars, sampleQ, engineVars, recordQ, outputVars, lost, hung,
                 blame>>
-----------------------------------------------------------------------------
(* Panics and a disk that does not answer *)

IngestPanic ==
  /\ "ingest_panic" \in Faults \ blame /\ ingest # "done"
  /\ ingest' = "done" /\ todo' = <<>>
  /\ blame' = blame \cup {"ingest_panic"}
  /\ UNCHANGED <<main, stop, decoded, sampleQ, engineVars, recordQ, outputVars, lost, hung>>

EnginePanic ==
  /\ "engine_panic" \in Faults \ blame /\ engine # "done"
  /\ EngineGone
  /\ blame' = blame \cup {"engine_panic"}
  /\ UNCHANGED <<main, stop, ingestVars, evaluated, made, recordQ, outputVars, hung>>

\* The receiver and the writer go with the thread; BufWriter still flushes
\* unless it was writing.
OutputPanic ==
  /\ "output_panic" \in Faults \ blame /\ output # "done"
  /\ output' = "done"
  /\ recordQ' = <<>> /\ buffer' = <<>>
  /\ \/ disk' = disk \o buffer /\ lost' = lost \cup Range(recordQ)
     \/ lost' = lost \cup Range(recordQ) \cup Range(buffer) /\ UNCHANGED disk
  /\ blame' = blame \cup {"output_panic"}
  /\ UNCHANGED <<main, stop, ingestVars, sampleQ, engineVars, hung>>

Hang ==
  /\ "hang" \in Faults \ blame /\ main # "exited"
  /\ hung' = TRUE
  /\ blame' = blame \cup {"hang"}
  /\ UNCHANGED <<main, stop, ingestVars, sampleQ, engineVars, recordQ, outputVars, lost>>

Recover ==
  /\ hung
  /\ hung' = FALSE
  /\ UNCHANGED <<main, stop, ingestVars, sampleQ, engineVars, recordQ, outputVars, lost,
                 blame>>

Exited == main = "exited" /\ UNCHANGED vars
-----------------------------------------------------------------------------
Ingest == IngestRecv \/ IngestSend \/ IngestSent \/ IngestStop \/ IngestRecvError
Engine == EngineTick \/ EngineEmit \/ EngineEmitted \/ EngineRecv \/ EngineWake
          \/ EngineClosed
Output == OutputWrite \/ OutputFlush \/ OutputClosed \/ OutputSync \/ OutputDrop
Main == Signal \/ SignalError \/ IngestJoined \/ Drained \/ DrainTimeout
        \/ CancelIngest \/ CancelEngine \/ Exit
Fault == IngestPanic \/ EnginePanic \/ OutputPanic \/ Hang \/ Recover

Next == Ingest \/ Engine \/ Output \/ Main \/ Fault \/ Exited

Spec == Init /\ [][Next]_vars

\* A task that can go on does.  tokio::select! picks a ready branch at random,
\* so a branch that is ready again and again is taken: strong fairness for the
\* receive of the engine and for the stop of ingest.  Neither datagrams, nor
\* signals, nor faults are owed.
TaskFairness ==
  /\ WF_vars(IngestSend) /\ WF_vars(IngestSent) /\ SF_vars(IngestStop)
  /\ WF_vars(EngineTick) /\ WF_vars(EngineEmit) /\ WF_vars(EngineEmitted)
  /\ WF_vars(EngineWake) /\ SF_vars(EngineRecv) /\ SF_vars(EngineClosed)
  /\ WF_vars(OutputWrite) /\ WF_vars(OutputFlush) /\ WF_vars(OutputClosed)
  /\ WF_vars(OutputSync) /\ WF_vars(OutputDrop)
  /\ WF_vars(IngestJoined) /\ WF_vars(Drained) /\ WF_vars(DrainTimeout)
  /\ WF_vars(CancelIngest) /\ WF_vars(CancelEngine) /\ WF_vars(Exit)

\* The disk may never answer.
FairSpec == Spec /\ TaskFairness
\* The disk answers in the end.
LiveSpec == FairSpec /\ WF_vars(Recover)
-----------------------------------------------------------------------------
\* What is on its way to the disk, oldest first.
Trail == disk \o buffer \o recordQ \o pending

Increasing(q) == \A i, j \in DOMAIN q : i < j => q[i] < q[j]

\* Type invariant: the channels never hold more than their capacity.
TypeOK ==
  /\ main \in {"running", "stopping", "draining", "dropping", "exited"}
  /\ stop \in BOOLEAN /\ hung \in BOOLEAN
  /\ ingest \in {"select", "send", "done"}
  /\ engine \in {"tick", "emit_tick", "select", "emit_sample", "done"}
  /\ output \in {"recv", "batch", "sync", "drop", "done"}
  /\ decoded \in 0..MaxSamples /\ evaluated \in 0..decoded
  /\ made \in 0..MaxRecords
  /\ todo \in Seq(1..decoded) /\ sampleQ \in Seq(1..decoded)
  /\ Len(sampleQ) <= SAMPLE_QUEUE
  /\ pending \in Seq(1..made) /\ recordQ \in Seq(1..made)
  /\ Len(recordQ) <= RECORD_QUEUE
  /\ buffer \in Seq(1..made) /\ disk \in Seq(1..made)
  /\ lost \subseteq 1..made
  /\ blame \subseteq AllFaults \cup {"timeout"}

\* Records reach the disk in the order the engine made them, none twice, and
\* every one is on its way, on the disk, or accounted for as lost.
RecordsAccounted ==
  /\ Increasing(Trail)
  /\ Range(Trail) \cup lost = 1..made
  /\ Range(Trail) \cap lost = {}

\* As long as the engine runs, before a shutdown and all through it, the sample
\* it takes is the next one ingest decoded: none is taken twice, passed over or
\* out of turn.  What is on its way to it is all it has not seen, unless ingest
\* itself was cut off with samples to send.
SamplesInOrder ==
  engine # "done" =>
    LET rest == sampleQ \o todo
    IN  /\ rest = Fresh(evaluated, Len(rest))
        /\ \/ Len(rest) = decoded - evaluated
           \/ ingest = "done" /\ blame \cap {"ingest_panic", "signal_error"} # {}

\* A shutdown by signal, and one forced by a failing socket, lose nothing: a
\* sample or a record is lost only to a timeout, a panic, a failing disk or a
\* failed signal handler.
LossHasCause ==
  \/ /\ lost = {}
     /\ evaluated + Len(sampleQ) + Len(todo) = decoded
  \/ blame \ {"recv_error", "hang"} # {}

\* A process that exits without a fault has written every record and evaluated
\* every sample it decoded.
CleanExit ==
  main = "exited" /\ blame \subseteq {"recv_error", "hang"}
    => evaluated = decoded /\ disk = Fresh(0, made)

\* The tasks end in the order of the pipeline: the output thread closes its
\* file after the last record was sent, the engine stops after the last sample.
ClosesInOrder ==
  blame \cap {"engine_panic", "output_panic", "timeout", "signal_error"} = {} =>
    /\ output \in {"sync", "drop", "done"} => engine = "done" /\ recordQ = <<>>
    /\ engine = "done" => ingest = "done" /\ sampleQ = <<>> /\ todo = <<>>

\* A signal leads to the end of the process, if the disk answers in the end:
\* no task of the pipeline waits for another forever.
SignalExits == main = "stopping" ~> main = "exited"

\* A socket that fails ends the process too, without a signal.
IngestFailureExits == ingest = "done" ~> main = "exited"

\* No sample waits forever: the engine evaluates it, unless it was shut down.
SamplesEvaluated ==
  \A n \in 1..MaxSamples : decoded >= n ~> (evaluated >= n \/ engine = "done")

\* SHUTDOWN_TIMEOUT is documented as the upper bound on draining queues and
\* flushing files at shutdown: from then on the process ends, whatever the disk
\* does.
DrainBounded == main = "draining" ~> main = "exited"
=============================================================================
