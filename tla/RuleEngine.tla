----------------------------- MODULE RuleEngine -----------------------------
(***************************************************************************)
(* The rule evaluation engine of crates/rules/src/engine.rs: the latest    *)
(* value of every signal, the active compiled rule set, the runtime state  *)
(* of each rule, and the three operations that change them                 *)
(* (apply_ruleset, on_sample, tick) under a monotonic clock.               *)
(***************************************************************************)
EXTENDS Rules

VARIABLES
  now,                  \* clock.now_ms()
  ruleset,              \* rules: the active compiled rule set
  latest,               \* the latest sample of every signal, or None
  state,                \* rule id -> last_logged and next_due_ms
  on_change_by_signal,  \* signal -> indices of its on_change rules
  report                \* the EvalReport the last operation returned

vars == <<now, ruleset, latest, state, on_change_by_signal, report>>
-----------------------------------------------------------------------------
Record(r, ts, value) ==
  [ts_us |-> ts, rule_id |-> r.id, ruleset_version |-> ruleset.version,
   signal |-> r.signal, value |-> value]

Rule(i) == ruleset.rules[i]
DefOf(rs, id) == CHOOSE r \in Defs(rs) : r.id = id
IdsOf(S) == {Rule(i).id : i \in S}
-----------------------------------------------------------------------------
Init ==
  /\ now = 0
  /\ ruleset = EmptyRuleSet
  /\ latest = [s \in Signals |-> None]
  /\ state = [id \in {} |-> None]
  /\ on_change_by_signal = [s \in Signals |-> {}]
  /\ report = EmptyReport

\* Time passes; SystemClock never goes back.
Advance ==
  /\ \E t \in (now + 1)..MaxTime : now' = t
  /\ report' = EmptyReport
  /\ UNCHANGED <<ruleset, latest, state, on_change_by_signal>>

\* A bug: a fresh timer fires at once instead of one interval after the swap.
Fresh_DueNow(r) ==
  [last_logged |-> None,
   next_due_ms |-> IF r.mode = "periodic" THEN now ELSE None]

Fresh(r) ==
  [last_logged |-> None,
   next_due_ms |-> IF r.mode = "periodic" THEN SatAdd(now, r.interval_ms)
                   ELSE None]

\* Bugs: the definitions are not compared; no state is kept.
Carried_ById(r) == IF r.id \in DOMAIN state THEN state[r.id] ELSE Fresh(r)
Carried_Never(r) == Fresh(r)

\* The state a rule of the new set starts with: kept when the definition is
\* the one the active set has under this id.
Carried(r) ==
  IF r \in Defs(ruleset) /\ r.id \in DOMAIN state THEN state[r.id] ELSE Fresh(r)

\* A bug: insert where there should be push, so that the last rule wins.
OnChangeIndex_Last(rs) ==
  [s \in Signals |->
     {i \in DOMAIN rs.rules :
        /\ rs.rules[i].mode = "on_change" /\ rs.rules[i].signal = s
        /\ \A j \in DOMAIN rs.rules : j > i => rs.rules[j].signal # s}]

\* Pushed in order, so the vector of a signal is its set of indices in order.
OnChangeIndex(rs) ==
  [s \in Signals |-> {i \in DOMAIN rs.rules : /\ rs.rules[i].mode = "on_change"
                                              /\ rs.rules[i].signal = s}]

\* A bug: the index of the set before is not cleared.
ApplyRuleset_NoClear(new) ==
  /\ state' = [id \in Ids(new) |-> Carried(DefOf(new, id))]
  /\ on_change_by_signal' =
       [s \in Signals |-> on_change_by_signal[s] \cup OnChangeIndex(new)[s]]
  /\ ruleset' = new
  /\ report' = EmptyReport
  /\ UNCHANGED <<now, latest>>

ApplyRuleset(new) ==
  /\ state' = [id \in Ids(new) |-> Carried(DefOf(new, id))]
  /\ on_change_by_signal' = OnChangeIndex(new)
  /\ ruleset' = new
  /\ report' = EmptyReport
  /\ UNCHANGED <<now, latest>>

\* Of the indices kept for s, those on_sample does not skip.
Watching(s) ==
  {i \in on_change_by_signal[s] : /\ i \in DOMAIN ruleset.rules
                                  /\ Rule(i).mode = "on_change"
                                  /\ Rule(i).id \in DOMAIN state}

\* A bug: the new value is compared with the one before it.
Reference_Previous(r) ==
  IF latest[r.signal] = None THEN None ELSE latest[r.signal].value

\* What a new value is compared with.
Reference(r) == state[r.id].last_logged

\* A bug: the sample is stored after the rules were evaluated.
OnSample_StoredLast(s, v, ts) ==
  LET wants == {i \in Watching(s) : Changed(Rule(i), Reference(Rule(i)), v)}
      logs  == {i \in wants : Passes(Rule(i), latest)}
  IN  /\ latest' = [latest EXCEPT ![s] = [value |-> v, timestamp_us |-> ts,
                                          received_ms |-> now]]
      /\ state' = [id \in DOMAIN state |->
                     IF id \in IdsOf(logs)
                     THEN [state[id] EXCEPT !.last_logged = v]
                     ELSE state[id]]
      /\ report' = [records     |-> {Record(Rule(i), ts, v) : i \in logs},
                    eval_errors |-> {}, stale_skips |-> {}]
      /\ UNCHANGED <<now, ruleset, on_change_by_signal>>

OnSample(s, v, ts) ==
  LET lat   == [latest EXCEPT ![s] = [value |-> v, timestamp_us |-> ts,
                                      received_ms |-> now]]
      wants == {i \in Watching(s) : Changed(Rule(i), Reference(Rule(i)), v)}
      logs  == {i \in wants : Passes(Rule(i), lat)}
      fails == {i \in wants : Fails(Rule(i), lat)}
  IN  /\ latest' = lat
      /\ state' = [id \in DOMAIN state |->
                     IF id \in IdsOf(logs)
                     THEN [state[id] EXCEPT !.last_logged = v]
                     ELSE state[id]]
      /\ report' = [records     |-> {Record(Rule(i), ts, v) : i \in logs},
                    eval_errors |-> IdsOf(fails),
                    stale_skips |-> {}]
      /\ UNCHANGED <<now, ruleset, on_change_by_signal>>

\* A bug: missed slots are made up for one by one.
NextDue_NoSkip(due, interval) == SatAdd(due, interval)

\* The next slot of a timer that fires now: a steady cadence, missed slots
\* skipped.
NextDue(due, interval) ==
  LET next == SatAdd(due, interval)
  IN  IF next > now THEN next ELSE SatAdd(now, interval)

\* A bug: a timer that is due exactly now is not due yet.
Due_Strict ==
  {i \in DOMAIN ruleset.rules : /\ Rule(i).mode = "periodic"
                                /\ Rule(i).id \in DOMAIN state
                                /\ state[Rule(i).id].next_due_ms # None
                                /\ state[Rule(i).id].next_due_ms < now}

Due ==
  {i \in DOMAIN ruleset.rules : /\ Rule(i).mode = "periodic"
                                /\ Rule(i).id \in DOMAIN state
                                /\ state[Rule(i).id].next_due_ms # None
                                /\ state[Rule(i).id].next_due_ms <= now}

Tick ==
  LET seen    == {i \in Due : latest[Rule(i).signal] # None}
      stale   == {i \in seen : now - latest[Rule(i).signal].received_ms
                                 > MaxAge(Rule(i))}
      logs    == {i \in seen \ stale : Passes(Rule(i), latest)}
      fails   == {i \in seen \ stale : Fails(Rule(i), latest)}
      last(r) == latest[r.signal]
      def(id) == DefOf(ruleset, id)
  IN  /\ state' = [id \in DOMAIN state |->
                     IF id \notin IdsOf(Due) THEN state[id]
                     ELSE [last_logged |-> IF id \in IdsOf(logs)
                                           THEN last(def(id)).value
                                           ELSE state[id].last_logged,
                           next_due_ms |-> NextDue(state[id].next_due_ms,
                                                   def(id).interval_ms)]]
      /\ report' = [records     |-> {Record(Rule(i), last(Rule(i)).timestamp_us,
                                            last(Rule(i)).value) : i \in logs},
                    eval_errors |-> IdsOf(fails),
                    stale_skips |-> IdsOf(stale)]
      /\ UNCHANGED <<now, ruleset, latest, on_change_by_signal>>

Next ==
  \/ Advance
  \/ \E new \in RuleSets : ApplyRuleset(new)
  \/ \E s \in Signals : \E v \in Values[s], ts \in Stamps : OnSample(s, v, ts)
  \/ Tick

Spec == Init /\ [][Next]_vars

\* next_deadline_ms: when tick next has work to do.
Deadlines == {state[id].next_due_ms : id \in DOMAIN state} \ {None}
NextDeadline == IF Deadlines = {} THEN None
                ELSE CHOOSE d \in Deadlines : \A e \in Deadlines : d <= e
-----------------------------------------------------------------------------
Reports == [records : SUBSET [ts_us : Stamps, rule_id : Ids(ruleset),
                              ruleset_version : {ruleset.version},
                              signal : Signals,
                              value : UNION {Values[s] : s \in Signals}],
            eval_errors : SUBSET Ids(ruleset),
            stale_skips : SUBSET Ids(ruleset)]

\* Type invariant of the engine: every field of the Engine struct has its type.
TypeOK ==
  /\ now \in 0..MaxTime
  /\ ruleset \in RuleSets \cup {EmptyRuleSet}
  /\ \A s \in Signals :
       \/ latest[s] = None
       \/ latest[s] \in [value : Values[s], timestamp_us : Stamps,
                         received_ms : 0..now]
  /\ DOMAIN latest = Signals
  /\ DOMAIN state = Ids(ruleset)
  /\ \A r \in Defs(ruleset) :
       state[r.id] \in [last_logged : Values[r.signal] \cup {None},
                        next_due_ms : (0..U64Max) \cup {None}]
  /\ on_change_by_signal \in [Signals -> SUBSET DOMAIN ruleset.rules]
  /\ report \in Reports

\* No rule is dead: whatever swaps came before, a periodic rule of the active
\* set has a timer at most one interval away, and an on_change rule none.  A
\* state kept across a swap that changed the rule's mode or interval under the
\* same id breaks this.
NoDeadRule ==
  \A r \in Defs(ruleset) :
    LET due == state[r.id].next_due_ms
    IN  IF r.mode = "periodic" THEN due # None /\ due <= SatAdd(now, r.interval_ms)
        ELSE due = None

\* The comparison is against the last logged value: once an unconditional
\* on_change rule has logged, the latest value of its signal is never further
\* than the deadband from what it logged last, however slowly it drifted and
\* whatever swaps the rule went through.
DriftBounded ==
  \A r \in Defs(ruleset) :
    LET last == state[r.id].last_logged
    IN  r.mode = "on_change" /\ r.condition = None /\ last # None
          => ~Changed(r, last, latest[r.signal].value)

\* After a tick every timer lies in the future, however late the tick was: a
\* missed slot is skipped, never emitted in a burst, and the task that sleeps
\* until the next deadline does not spin.
TickQuiesces == [][Tick => \A d \in Deadlines' : d > now']_vars

\* next_deadline_ms tells exactly when tick has work: an earlier tick changes
\* nothing and reports nothing, a later one moves the deadline.
DeadlineExact ==
  [][Tick => IF NextDeadline # None /\ NextDeadline <= now
             THEN NextDeadline' # NextDeadline
             ELSE state' = state /\ report' = EmptyReport]_vars
-----------------------------------------------------------------------------
Memory == [r \in Defs(ruleset) |-> [last |-> state[r.id].last_logged,
                                    due  |-> state[r.id].next_due_ms]]

Contract == INSTANCE RuleContract WITH
  version <- ruleset.version, memory <- Memory, records <- report.records

\* The engine, with its ids, its positions and its kept states, does what the
\* contract promises by definition: a rule whose definition is unchanged keeps
\* its memory through any swap, any other starts anew, and each sample and each
\* tick logs exactly what the contract logs.
ImplementsContract == Contract!Spec
=============================================================================
