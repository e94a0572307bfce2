----------------------------- MODULE EngineTask -----------------------------
(***************************************************************************)
(* The loop of crates/telemetryd/src/engine_task.rs around the engine of   *)
(* RuleEngine: samples wait in a bounded queue, each turn of the loop      *)
(* ticks, emits the records into a bounded channel, and waits for a        *)
(* sample, the next deadline or the report timer.  Samples may flood the   *)
(* queue without end; the end of the loop, at shutdown, is in Daemon.      *)
(*                                                                         *)
(* arrived is a history: when the latest sample of each signal came in.    *)
(***************************************************************************)
EXTENDS RuleEngine, FiniteSets

CONSTANTS
  SAMPLE_QUEUE, RECORD_QUEUE,
  IDLE_SLEEP         \* how long to sleep when nothing is scheduled

VARIABLES
  pc,           \* where run is
  queue,        \* the samples channel, each with the time it was received
  unsent,       \* records of the report that are still to be sent
  records,      \* how many records are in the channel to the output thread
  wake,         \* when the sleep of the select ends
  report_due,   \* whether report_timer has a tick for the select
  arrived

ASSUME QueueAssumption == {SAMPLE_QUEUE, RECORD_QUEUE} \subseteq Nat \ {0}
ASSUME SleepAssumption == IDLE_SLEEP \in Nat \ {0}

taskVars == <<pc, queue, unsent, records, wake, report_due, arrived>>
allVars == <<vars, taskVars>>

TaskInit ==
  /\ Init
  /\ pc = "apply" /\ queue = <<>> /\ unsent = 0 /\ records = 0
  /\ wake = 0 /\ report_due = FALSE
  /\ arrived = [s \in Signals |-> None]
-----------------------------------------------------------------------------
\* A sample is received and queued; ingest waits while there is no room.
Receive ==
  /\ pc # "apply" /\ Len(queue) < SAMPLE_QUEUE
  /\ \E s \in Signals : \E v \in Values[s], ts \in Stamps :
       queue' = Append(queue, [signal |-> s, value |-> v, timestamp_us |-> ts, at |-> now])
  /\ UNCHANGED <<vars, pc, unsent, records, wake, report_due, arrived>>

\* The output thread takes a record.
Output ==
  /\ records > 0 /\ records' = records - 1
  /\ UNCHANGED <<vars, pc, queue, unsent, wake, report_due, arrived>>

Time == Advance /\ pc # "apply" /\ UNCHANGED taskVars

\* report_timer ticks, on a clock that has no bound: where its ticks fall among
\* the deadlines is open, and they may fall in every turn of a slow loop.
ReportTick ==
  /\ pc # "apply" /\ ~report_due /\ report_due' = TRUE
  /\ UNCHANGED <<vars, pc, queue, unsent, records, wake, arrived>>
-----------------------------------------------------------------------------
\* main, before the task is spawned.
Apply ==
  /\ pc = "apply" /\ pc' = "tick"
  /\ \E new \in RuleSets : ApplyRuleset(new)
  /\ UNCHANGED <<queue, unsent, records, wake, report_due, arrived>>

TurnTick ==
  /\ pc = "tick" /\ pc' = "emit_tick"
  /\ Tick
  /\ unsent' = Cardinality(report'.records)
  /\ UNCHANGED <<queue, records, wake, report_due, arrived>>

\* emit waits while the channel is full.
Emit ==
  /\ pc \in {"emit_tick", "emit_sample"} /\ unsent > 0 /\ records < RECORD_QUEUE
  /\ unsent' = unsent - 1 /\ records' = records + 1
  /\ UNCHANGED <<vars, pc, queue, wake, report_due, arrived>>

\* A bug: the sleep does not look at the deadlines.
WakeAt_Idle == now + IDLE_SLEEP

WakeAt == IF NextDeadline = None THEN now + IDLE_SLEEP
          ELSE IF NextDeadline > now THEN NextDeadline ELSE now

Sleep ==
  /\ pc = "emit_tick" /\ unsent = 0 /\ pc' = "select"
  /\ wake' = WakeAt
  /\ UNCHANGED <<vars, queue, unsent, records, report_due, arrived>>

\* A bug: a sample does not start a new turn, only a new sleep.
AfterSample_Sleep == "emit_tick"

AfterSample == "tick"

SampleDone ==
  /\ pc = "emit_sample" /\ unsent = 0 /\ pc' = AfterSample
  /\ UNCHANGED <<vars, queue, unsent, records, wake, report_due, arrived>>

\* The select is left, and its sleep with it.
Selected(next) == pc = "select" /\ pc' = next /\ wake' = 0

\* A bug: a biased select, with the timers before the samples.
Recv_Biased ==
  /\ Selected("emit_sample") /\ queue # <<>>
  /\ wake > now /\ ~report_due
  /\ LET x == Head(queue)
     IN  /\ OnSample(x.signal, x.value, x.timestamp_us)
         /\ arrived' = [arrived EXCEPT ![x.signal] = x.at]
  /\ queue' = Tail(queue)
  /\ unsent' = Cardinality(report'.records)
  /\ UNCHANGED <<records, report_due>>

Recv ==
  /\ Selected("emit_sample") /\ queue # <<>>
  /\ LET x == Head(queue)
     IN  /\ OnSample(x.signal, x.value, x.timestamp_us)
         /\ arrived' = [arrived EXCEPT ![x.signal] = x.at]
  /\ queue' = Tail(queue)
  /\ unsent' = Cardinality(report'.records)
  /\ UNCHANGED <<records, report_due>>


SleepEnds ==
  /\ wake <= now /\ Selected("tick")
  /\ UNCHANGED <<vars, queue, unsent, records, report_due, arrived>>

ReportTimer ==
  /\ report_due /\ Selected("tick")
  /\ report_due' = FALSE
  /\ UNCHANGED <<vars, queue, unsent, records, arrived>>

Task == Apply \/ TurnTick \/ Emit \/ Sleep \/ SampleDone \/ Recv \/ SleepEnds \/ ReportTimer

TaskNext == Receive \/ Output \/ Time \/ ReportTick \/ Task

\* The task is scheduled and the output thread takes records in the end.  The
\* select has no "biased": it starts at a branch taken at random, so one that is
\* ready time and again is taken in the end, though timers be ready each time.
\* Only receiving needs that, and a timer is given none of it: samples may win
\* for ever.  Samples and time owe nothing.
TaskSpec == /\ TaskInit /\ [][TaskNext]_allVars
            /\ WF_allVars(Task) /\ WF_allVars(Output) /\ SF_allVars(Recv)
-----------------------------------------------------------------------------
PeriodicDue(id) ==
  id \in DOMAIN state /\ state[id].next_due_ms # None /\ state[id].next_due_ms <= now

RuleIds == UNION {Ids(rs) : rs \in RuleSets}

\* The task never sleeps past a timer: while it waits, its sleep ends no later
\* than the next deadline of the engine, or has already ended because a send
\* blocked past that deadline.
SleepsToDeadline ==
  pc = "select" /\ NextDeadline # None => wake <= NextDeadline \/ wake <= now

\* A timer that is due is served, however fast samples come in: a sample may
\* win every select, but a turn always ticks before it waits.
SlotServed ==
  \A id \in RuleIds : PeriodicDue(id) ~> ~PeriodicDue(id)

\* The queue always gets room again, so ingest never waits for ever: neither the
\* timers, which may be ready in every turn, nor a full record channel starve
\* the samples.
QueueMoves == Len(queue) = SAMPLE_QUEUE ~> Len(queue) < SAMPLE_QUEUE

\* What docs/RULES.md says of a periodic rule: it logs the latest value,
\* "provided it was received within max_age_ms", where the engine keeps "the
\* time the daemon received it".
ReceivedInTime ==
  [][TurnTick => \A x \in report'.records :
       now - arrived[x.signal] <= MaxAge(DefOf(ruleset, x.rule_id))]_allVars
=============================================================================
