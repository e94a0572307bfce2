-------------------------- MODULE EngineTaskProofs --------------------------
(***************************************************************************)
(* Proofs about EngineTask: whatever the loop does, the engine only takes  *)
(* steps of RuleEngine, so that everything proved of the engine holds in   *)
(* the daemon; and the task never sleeps past a timer.                     *)
(***************************************************************************)
EXTENDS EngineTask, RuleEngineProofs, WellFoundedInduction

Sample == [signal : Signals, value : UNION {Values[s] : s \in Signals},
           timestamp_us : Stamps, at : Int]

\* What waits in the queue are samples of the catalog.
QueueOK ==
  /\ queue \in Seq(Sample)
  /\ \A i \in 1..Len(queue) : queue[i].value \in Values[queue[i].signal]

LoopInv == IInv /\ QueueOK /\ wake \in Int

LEMMA InitLoopInv == TaskInit => LoopInv
<1> SUFFICES ASSUME TaskInit PROVE LoopInv
  OBVIOUS
<1>1. IInv
  BY InitIInv DEF TaskInit
<1>2. QueueOK /\ wake \in Int
  BY DEF TaskInit, QueueOK
<1> QED
  BY <1>1, <1>2 DEF LoopInv

\* Each step of the loop is an operation of the engine or leaves it alone.
LEMMA TaskStep == QueueOK /\ [TaskNext]_allVars => [Next]_vars
<1> SUFFICES ASSUME QueueOK, [TaskNext]_allVars PROVE Next \/ UNCHANGED vars
  OBVIOUS
<1>1. CASE Apply
  BY <1>1 DEF Apply, Next
<1>2. CASE TurnTick
  BY <1>2 DEF TurnTick, Next
<1>3. CASE Time
  BY <1>3 DEF Time, Next
<1>4. CASE Recv
  <2>1. queue # <<>> /\ Head(queue) = queue[1] /\ 1 \in 1..Len(queue)
    BY <1>4 DEF Recv, QueueOK
  <2>2. /\ queue[1].signal \in Signals /\ queue[1].timestamp_us \in Stamps
        /\ queue[1].value \in Values[queue[1].signal]
    <3>1. queue[1] \in Sample
      BY <2>1 DEF QueueOK
    <3> QED
      BY <2>1, <3>1 DEF QueueOK, Sample
  <2>3. OnSample(queue[1].signal, queue[1].value, queue[1].timestamp_us)
    BY <1>4, <2>1 DEF Recv
  <2> QED
    BY <2>2, <2>3 DEF Next
<1>5. CASE Receive \/ Output \/ ReportTick \/ Emit \/ Sleep \/ SampleDone \/ SleepEnds \/ ReportTimer
  BY <1>5 DEF Receive, Output, ReportTick, Emit, Sleep, SampleDone, SleepEnds, ReportTimer
<1>6. CASE UNCHANGED allVars
  BY <1>6 DEF allVars
<1> QED
  BY <1>1, <1>2, <1>3, <1>4, <1>5, <1>6 DEF TaskNext, Task

\* Only samples of the catalog are queued, and only the first is taken.
LEMMA QueueStep == LoopInv /\ [TaskNext]_allVars => QueueOK'
<1> SUFFICES ASSUME LoopInv, [TaskNext]_allVars PROVE QueueOK'
  OBVIOUS
<1>1. queue \in Seq(Sample) /\ now \in Int
  BY TimeAssumption DEF LoopInv, QueueOK, IInv, TypeOK
<1>2. CASE Receive
  <2>1. PICK s \in Signals : \E v \in Values[s], ts \in Stamps :
          queue' = Append(queue, [signal |-> s, value |-> v, timestamp_us |-> ts, at |-> now])
    BY <1>2 DEF Receive
  <2>2. PICK v \in Values[s], ts \in Stamps :
          queue' = Append(queue, [signal |-> s, value |-> v, timestamp_us |-> ts, at |-> now])
    BY <2>1
  <2> DEFINE x == [signal |-> s, value |-> v, timestamp_us |-> ts, at |-> now]
  <2>3. x \in Sample /\ x.value \in Values[x.signal]
    BY <1>1 DEF Sample
  <2> HIDE DEF x
  <2>4. queue' = Append(queue, x)
    BY <2>2 DEF x
  <2>5. queue' \in Seq(Sample) /\ Len(queue') = Len(queue) + 1
    BY <1>1, <2>3, <2>4
  <2>6. \A i \in 1..Len(queue') : queue'[i] = IF i <= Len(queue) THEN queue[i] ELSE x
    BY <1>1, <2>4
  <2> QED
    BY <2>3, <2>5, <2>6, <1>1 DEF LoopInv, QueueOK
<1>3. CASE Recv
  <2>1. queue # <<>> /\ queue' = Tail(queue)
    BY <1>3 DEF Recv
  <2>2. queue' \in Seq(Sample) /\ Len(queue') = Len(queue) - 1
    BY <1>1, <2>1
  <2>3. \A i \in 1..Len(queue') : queue'[i] = queue[i + 1] /\ i + 1 \in 1..Len(queue)
    BY <1>1, <2>1, <2>2
  <2> QED
    BY <2>2, <2>3 DEF LoopInv, QueueOK
<1>4. CASE UNCHANGED queue
  BY <1>4 DEF LoopInv, QueueOK
<1> QED
  BY <1>2, <1>3, <1>4 DEF TaskNext, Task, Receive, Output, ReportTick, Time, taskVars, Apply,
     TurnTick, Emit, Sleep, SampleDone, Recv, SleepEnds, ReportTimer, allVars

\* A set of naturals that is not empty has a least element.
LEMMA LeastNatural ==
  ASSUME NEW S \in SUBSET Nat, S # {}
  PROVE  \E d \in S : \A e \in S : d <= e
<1>1. PICK d \in S : \A e \in S : <<e, d>> \notin OpToRel(<, Nat)
  BY NatLessThanWellFounded, WFMin
<1>2. \A e \in S : ~(e < d)
  BY <1>1 DEF OpToRel
<1> QED
  BY <1>2

LEMMA DeadlinesAreTimes == IInv => Deadlines \subseteq Nat
<1> SUFFICES ASSUME IInv, NEW id \in DOMAIN state, state[id].next_due_ms # None
             PROVE  state[id].next_due_ms \in Nat
  BY DEF Deadlines
<1>1. PICK r \in Defs(ruleset) : r.id = id
  BY DEF IInv, TypeOK, Ids, Defs
<1>2. state[id].next_due_ms \in (0..U64Max) \cup {None}
  BY <1>1 DEF IInv, TypeOK
<1> QED
  BY <1>2, TimeAssumption

\* The earliest deadline, if there is one, is a time.
LEMMA NextDeadlineType ==
  ASSUME IInv, NextDeadline # None
  PROVE  NextDeadline \in Nat
<1>1. Deadlines # {} /\ Deadlines \subseteq Nat
  BY DeadlinesAreTimes DEF NextDeadline
<1>2. \E d \in Deadlines : \A e \in Deadlines : d <= e
  BY <1>1, LeastNatural
<1> QED
  BY <1>1, <1>2 DEF NextDeadline

\* The states of the rules are a map; a tick that does nothing leaves it as it is.
StateIsMap == state = [id \in DOMAIN state |-> state[id]]

\* The sleep ends at a time.
LEMMA WakeStep == LoopInv /\ [TaskNext]_allVars => wake' \in Int
<1> SUFFICES ASSUME LoopInv, [TaskNext]_allVars PROVE wake' \in Int
  OBVIOUS
<1>1. wake \in Int /\ now \in Int
  BY TimeAssumption DEF LoopInv, IInv, TypeOK
<1>2. CASE Sleep
  BY <1>1, <1>2, NextDeadlineType, SleepAssumption DEF Sleep, WakeAt, LoopInv
<1>3. CASE Recv \/ SleepEnds \/ ReportTimer
  BY <1>3 DEF Recv, SleepEnds, ReportTimer, Selected
<1>4. CASE UNCHANGED wake
  BY <1>1, <1>4
<1> QED
  BY <1>2, <1>3, <1>4 DEF TaskNext, Task, Receive, Output, ReportTick, Time, taskVars, Apply,
     TurnTick, Emit, SampleDone, allVars

LEMMA NextLoopInv == LoopInv /\ [TaskNext]_allVars => LoopInv'
BY TaskStep, QueueStep, WakeStep, NextIInv DEF LoopInv

\* The invariant of the loop is inductive.
THEOREM LoopInvariance == TaskSpec => []LoopInv
BY InitLoopInv, NextLoopInv, PTL DEF TaskSpec

\* The loop implements the engine: in the daemon, with its queues and timers,
\* the engine goes through behaviours of RuleEngine and no others.
THEOREM TaskIsEngine == TaskSpec => Spec
<1>1. TaskInit => Init
  BY DEF TaskInit
<1>2. LoopInv /\ [TaskNext]_allVars => [Next]_vars
  BY TaskStep DEF LoopInv
<1> QED
  BY <1>1, <1>2, LoopInvariance, PTL DEF TaskSpec, Spec

\* In the daemon every rule stays armed, whatever the queues hold.
THEOREM NoRuleDiesInTask == TaskSpec => []NoDeadRule
BY TaskIsEngine, NoRuleDies, PTL
-----------------------------------------------------------------------------
\* The sleep is set from the engine's deadlines right before the select, and
\* nothing moves them while the task waits.
LEMMA SleepStep ==
  LoopInv /\ SleepsToDeadline /\ [TaskNext]_allVars => SleepsToDeadline'
<1> SUFFICES ASSUME LoopInv, SleepsToDeadline, [TaskNext]_allVars,
                    pc' = "select", NextDeadline' # None
             PROVE  wake' <= NextDeadline' \/ wake' <= now'
  BY DEF SleepsToDeadline
<1>1. now \in Int /\ wake \in Int
  BY TimeAssumption DEF LoopInv, IInv, TypeOK
<1>2. ASSUME UNCHANGED state PROVE NextDeadline' = NextDeadline
  BY <1>2 DEF NextDeadline, Deadlines
<1>3. CASE Sleep
  <2>1. NextDeadline' = NextDeadline /\ now' = now /\ wake' = WakeAt
    BY <1>2, <1>3 DEF Sleep, vars
  <2>2. NextDeadline # None /\ NextDeadline \in Nat
    BY <2>1, NextDeadlineType DEF LoopInv
  <2> QED
    BY <1>1, <2>1, <2>2 DEF WakeAt
<1>4. CASE Time
  <2>1. /\ NextDeadline' = NextDeadline /\ wake' = wake /\ pc = "select"
        /\ now' \in Int /\ now' > now
    BY <1>1, <1>2, <1>4, TimeAssumption DEF Time, Advance, taskVars
  <2>2. wake <= NextDeadline \/ wake <= now
    BY <2>1 DEF SleepsToDeadline
  <2> QED
    BY <1>1, <2>1, <2>2
<1>5. CASE Receive \/ Output \/ ReportTick \/ UNCHANGED allVars
  <2>1. UNCHANGED <<vars, wake, pc>>
    BY <1>5 DEF Receive, Output, ReportTick, allVars, taskVars
  <2>2. NextDeadline' = NextDeadline
    BY <2>1, <1>2 DEF vars
  <2> QED
    BY <2>1, <2>2 DEF SleepsToDeadline, vars
<1>6. ~(Apply \/ TurnTick \/ Emit \/ SampleDone \/ Recv \/ SleepEnds \/ ReportTimer)
  BY DEF Apply, TurnTick, Emit, SampleDone, AfterSample, Recv, SleepEnds,
         ReportTimer, Selected
<1> QED
  BY <1>3, <1>4, <1>5, <1>6 DEF TaskNext, Task

\* Whatever samples, records and time do, the task never sleeps past a timer.
THEOREM NeverOversleeps == TaskSpec => []SleepsToDeadline
<1>1. TaskInit => SleepsToDeadline
  BY DEF TaskInit, SleepsToDeadline
<1> QED
  BY <1>1, SleepStep, LoopInvariance, PTL DEF TaskSpec
-----------------------------------------------------------------------------
(* next_deadline_ms and tick agree *)

\* If there is a deadline, the next one is the earliest.
LEMMA NextIsEarliest ==
  ASSUME IInv, NEW d \in Deadlines
  PROVE  NextDeadline \in Deadlines /\ NextDeadline \in Nat /\ NextDeadline <= d
<1>1. Deadlines # {} /\ Deadlines \subseteq Nat
  BY DeadlinesAreTimes
<1>2. \E x \in Deadlines : \A e \in Deadlines : x <= e
  BY <1>1, LeastNatural
<1> QED
  BY <1>1, <1>2 DEF NextDeadline

LEMMA TickDeadlines ==
  ASSUME IInv, Tick, NextDeadline # None, NextDeadline <= now
  PROVE  NextDeadline' # NextDeadline
<1>1. \A d \in Deadlines' : d > now' /\ d \in Nat
  BY TickFuture
<1>2. now' = now /\ now \in Nat
  BY TimeAssumption DEF Tick, IInv, TypeOK
<1>3. CASE Deadlines' = {}
  BY <1>3 DEF NextDeadline
<1>4. CASE Deadlines' # {}
  <2>1. \E x \in Deadlines' : \A e \in Deadlines' : x <= e
    BY <1>1, <1>4, LeastNatural
  <2>2. NextDeadline' \in Deadlines'
    BY <1>4, <2>1 DEF NextDeadline
  <2>3. NextDeadline \in Nat
    BY NextDeadlineType
  <2> QED
    BY <1>1, <1>2, <2>2, <2>3
<1> QED
  BY <1>3, <1>4

LEMMA TickIdle ==
  ASSUME IInv, StateIsMap, Tick, ~(NextDeadline # None /\ NextDeadline <= now)
  PROVE  state' = state /\ report' = EmptyReport
<1>1. Due = {}
  <2> SUFFICES ASSUME NEW i \in Due PROVE FALSE
    OBVIOUS
  <2>1. /\ state[Rule(i).id].next_due_ms \in Deadlines
        /\ state[Rule(i).id].next_due_ms <= now
    BY DEF Due, Deadlines
  <2>2. NextDeadline \in Nat /\ NextDeadline <= state[Rule(i).id].next_due_ms
        /\ state[Rule(i).id].next_due_ms \in Nat /\ now \in Nat
    BY <2>1, NextIsEarliest, DeadlinesAreTimes, TimeAssumption DEF IInv, TypeOK
  <2>3. NextDeadline # None /\ NextDeadline <= now
    BY <2>1, <2>2, TimeAssumption
  <2> QED
    BY <2>3
<1>2. IdsOf(Due) = {}
  BY <1>1 DEF IdsOf
<1>3. state' = [id \in DOMAIN state |-> state[id]]
  BY <1>2 DEF Tick
<1>4. report' = EmptyReport
  BY <1>1 DEF Tick, EmptyReport, IdsOf
<1> QED
  BY <1>3, <1>4 DEF StateIsMap

\* The task may sleep until next_deadline_ms and no longer: an earlier tick does
\* nothing, and one that comes then moves the deadline, so the task neither
\* misses work nor wakes up for none.
THEOREM DeadlineIsExact == Spec => DeadlineExact
<1>1. IInv /\ StateIsMap /\ [Next]_vars
        => [Tick => IF NextDeadline # None /\ NextDeadline <= now
                    THEN NextDeadline' # NextDeadline
                    ELSE state' = state /\ report' = EmptyReport]_vars
  BY TickDeadlines, TickIdle
<1>2. Init => StateIsMap
  BY DEF Init, StateIsMap
<1>3. StateIsMap /\ [Next]_vars => StateIsMap'
  BY DEF Next, vars, Advance, ApplyRuleset, OnSample, Tick, StateIsMap
<1>4. Spec => []StateIsMap
  BY <1>2, <1>3, PTL DEF Spec
<1> QED
  BY <1>1, <1>4, Invariance, PTL DEF Spec, DeadlineExact
=============================================================================
