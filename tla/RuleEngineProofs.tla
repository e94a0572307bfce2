-------------------------- MODULE RuleEngineProofs --------------------------
(***************************************************************************)
(* Proofs about RuleEngine: the type invariant, and the invariants that no *)
(* rule is dead, that the index per signal is exact and that drift is      *)
(* bounded, for every catalog, every collection of rule sets and every     *)
(* bound on time.                                                          *)
(***************************************************************************)
EXTENDS RuleEngine, TLAPS

USE DEF Ids, Defs, Rule, Reference

\* The empty set an engine starts with is a rule set like the others.
LEMMA EmptyIsRuleSet == IsRuleSet(EmptyRuleSet)
BY DEF IsRuleSet, EmptyRuleSet

\* Looking up the id of a rule of a set gives that rule.
LEMMA DefOfRule ==
  ASSUME NEW rs, IsRuleSet(rs), NEW r \in Defs(rs)
  PROVE  DefOf(rs, r.id) = r
BY DEF DefOf, IsRuleSet

\* Looking up an id of a set gives a rule of the set with this id.
LEMMA DefOfId ==
  ASSUME NEW rs, NEW id \in Ids(rs)
  PROVE  DefOf(rs, id) \in Defs(rs) /\ DefOf(rs, id).id = id
BY DEF DefOf

\* A periodic rule has a positive interval.
LEMMA PeriodicInterval ==
  ASSUME NEW r, IsRule(r), r.mode = "periodic"
  PROVE  r.interval_ms \in 1..U64Max
BY TimeAssumption DEF IsRule

\* A saturating sum is a u64 and never below its first operand.
LEMMA SatAddRange ==
  ASSUME NEW a \in 0..U64Max, NEW b \in 0..U64Max
  PROVE  SatAdd(a, b) \in a..U64Max
BY TimeAssumption DEF SatAdd

\* The next slot of a timer that is due lies in the future, at most an interval
\* away.
LEMMA NextDueRange ==
  ASSUME now \in 0..MaxTime, NEW due \in 0..now, NEW interval \in 1..U64Max
  PROVE  /\ NextDue(due, interval) \in (now + 1)..U64Max
         /\ NextDue(due, interval) <= SatAdd(now, interval)
BY TimeAssumption DEF NextDue, SatAdd

Typed(r, st) ==
  st \in [last_logged : Values[r.signal] \cup {None},
          next_due_ms : (0..U64Max) \cup {None}]

Armed(r, st, t) ==
  IF r.mode = "periodic"
  THEN st.next_due_ms # None /\ st.next_due_ms <= SatAdd(t, r.interval_ms)
  ELSE st.next_due_ms = None

\* The positions kept per signal are those of the on_change rules of the active
\* set, so that a sample reaches each of them.
IndexExact ==
  \A s \in Signals :
    on_change_by_signal[s] =
      {i \in DOMAIN ruleset.rules : Rule(i).mode = "on_change" /\ Rule(i).signal = s}

IInv == TypeOK /\ NoDeadRule /\ IndexExact /\ DriftBounded

\* The active set is always one validation accepts.
LEMMA ActiveIsRuleSet == TypeOK => IsRuleSet(ruleset)
BY EmptyIsRuleSet, RuleSetAssumption DEF TypeOK

LEMMA InitIInv == Init => IInv
<1> SUFFICES ASSUME Init PROVE IInv
  OBVIOUS
<1>1. Defs(ruleset) = {} /\ Ids(ruleset) = {} /\ DOMAIN ruleset.rules = {}
  BY DEF Init, EmptyRuleSet
<1>2. TypeOK
  BY <1>1, TimeAssumption DEF Init, TypeOK, Reports, EmptyReport
<1>3. NoDeadRule /\ DriftBounded
  BY <1>1 DEF NoDeadRule, DriftBounded
<1>4. IndexExact
  BY <1>1 DEF Init, IndexExact, OnChangeIndex
<1> QED
  BY <1>2, <1>3, <1>4 DEF IInv

\* Time alone kills no rule: a timer within an interval of now stays so.
LEMMA AdvanceIInv == IInv /\ Advance => IInv'
<1> SUFFICES ASSUME IInv, Advance PROVE IInv'
  OBVIOUS
<1> USE DEF IInv
<1>1. IsRuleSet(ruleset)
  BY ActiveIsRuleSet
<1>2. now \in 0..MaxTime /\ now' \in 0..MaxTime /\ now < now'
  BY TimeAssumption DEF TypeOK, Advance
<1>3. UNCHANGED <<ruleset, latest, state, on_change_by_signal>>
  BY DEF Advance
<1>4. TypeOK'
  <2>1. report' \in Reports'
    BY <1>3 DEF Advance, EmptyReport, Reports
  <2>2. 0..now \subseteq 0..now'
    BY <1>2, TimeAssumption
  <2>3. ASSUME NEW s \in Signals
        PROVE (\/ latest[s] = None
               \/ latest[s] \in [value : Values[s], timestamp_us : Stamps,
                                 received_ms : 0..now])'
    BY <2>2, <1>3 DEF TypeOK
  <2> QED
    BY <1>2, <1>3, <2>1, <2>3 DEF TypeOK
<1>5. NoDeadRule'
  <2> SUFFICES ASSUME NEW r \in Defs(ruleset) PROVE Armed(r, state[r.id], now')
    BY <1>3 DEF NoDeadRule, Armed
  <2>1. Armed(r, state[r.id], now) /\ Typed(r, state[r.id])
    BY DEF NoDeadRule, Armed, TypeOK, Typed
  <2>2. CASE r.mode = "periodic"
    <3>1. r.interval_ms \in 1..U64Max
      BY <1>1, <2>2, PeriodicInterval DEF IsRuleSet
    <3>2. SatAdd(now, r.interval_ms) <= SatAdd(now', r.interval_ms)
      BY <1>2, <3>1, TimeAssumption DEF SatAdd
    <3>3. SatAdd(now, r.interval_ms) \in Int /\ SatAdd(now', r.interval_ms) \in Int
      BY <1>2, <3>1, TimeAssumption DEF SatAdd
    <3>4. state[r.id].next_due_ms \in 0..U64Max
      BY <2>1, <2>2 DEF Armed, Typed
    <3> QED
      BY <2>1, <2>2, <3>2, <3>3, <3>4, TimeAssumption DEF Armed
  <2> QED
    BY <2>1, <2>2 DEF Armed
<1>6. IndexExact' /\ DriftBounded'
  BY <1>3 DEF IndexExact, DriftBounded, OnChangeIndex
<1> QED
  BY <1>4, <1>5, <1>6

\* The state a rule of the new set starts with, by definition.
LEMMA ApplyRule ==
  ASSUME NEW new \in RuleSets, ApplyRuleset(new), NEW r \in Defs(new)
  PROVE  IsRule(r) /\ r.id \in DOMAIN state' /\ state'[r.id] = Carried(r)
<1>1. IsRuleSet(new)
  BY RuleSetAssumption
<1>2. r.id \in Ids(new) /\ DefOf(new, r.id) = r
  BY <1>1, DefOfRule
<1> QED
  BY <1>1, <1>2 DEF ApplyRuleset, IsRuleSet

\* A new rule set: a definition the active set has keeps a state that fits it,
\* any other starts with one that does, and the index is rebuilt.
LEMMA ApplyIInv ==
  ASSUME NEW new \in RuleSets, IInv, ApplyRuleset(new)
  PROVE  IInv'
<1> USE DEF IInv
<1>1. IsRuleSet(new)
  BY RuleSetAssumption
<1>2. ruleset' = new /\ now' = now /\ latest' = latest
  BY DEF ApplyRuleset
<1>3. now \in 0..MaxTime
  BY DEF TypeOK
<1>4. \A r \in Defs(new) : IsRule(r) /\ state'[r.id] = Carried(r)
  BY ApplyRule
<1>5. ASSUME NEW r \in Defs(new)
      PROVE  Typed(r, state'[r.id]) /\ Armed(r, state'[r.id], now)
  <2>1. CASE r \in Defs(ruleset)
    <3>1. state'[r.id] = state[r.id]
      BY <1>4, <2>1 DEF Carried, TypeOK
    <3> QED
      BY <2>1, <3>1 DEF TypeOK, NoDeadRule, Typed, Armed
  <2>2. CASE r \notin Defs(ruleset)
    <3>1. state'[r.id] = Fresh(r) /\ IsRule(r)
      BY <1>4, <2>2 DEF Carried
    <3>2. CASE r.mode = "periodic"
      <4>1. r.interval_ms \in 0..U64Max /\ now \in 0..U64Max
        BY <3>1, <3>2, <1>3, TimeAssumption DEF IsRule
      <4>2. SatAdd(now, r.interval_ms) \in 0..U64Max
        BY <4>1, SatAddRange
      <4> QED
        BY <3>1, <3>2, <4>2, TimeAssumption DEF Fresh, Typed, Armed
    <3>3. CASE r.mode # "periodic"
      BY <3>1, <3>3 DEF Fresh, Typed, Armed
    <3> QED
      BY <3>2, <3>3
  <2> QED
    BY <2>1, <2>2
<1>6. TypeOK'
  <2>1. on_change_by_signal' \in [Signals -> SUBSET DOMAIN new.rules]
    BY DEF ApplyRuleset, OnChangeIndex
  <2>2. report' \in Reports'
    BY DEF ApplyRuleset, EmptyReport, Reports
  <2>3. DOMAIN state' = Ids(new)
    BY DEF ApplyRuleset
  <2> QED
    BY <1>2, <1>5, <2>1, <2>2, <2>3 DEF TypeOK, Typed
<1>7. NoDeadRule'
  BY <1>2, <1>5 DEF NoDeadRule, Armed
<1>8. IndexExact'
  BY <1>2 DEF IndexExact, ApplyRuleset, OnChangeIndex
<1>9. DriftBounded'
  <2> SUFFICES ASSUME NEW r \in Defs(new),
                      r.mode = "on_change", r.condition = None,
                      state'[r.id].last_logged # None
               PROVE  ~Changed(r, state'[r.id].last_logged, latest[r.signal].value)
    BY <1>2 DEF DriftBounded, Changed, Deadband
  <2>1. state'[r.id] = Carried(r) /\ Fresh(r).last_logged = None
    BY <1>4 DEF Fresh
  <2>2. r \in Defs(ruleset) /\ state'[r.id] = state[r.id]
    BY <2>1 DEF Carried
  <2> QED
    BY <2>2 DEF DriftBounded
<1> QED
  BY <1>6, <1>7, <1>8, <1>9

Sampled(s, v, ts) ==
  [latest EXCEPT ![s] = [value |-> v, timestamp_us |-> ts, received_ms |-> now]]

Wants(s, v) == {i \in Watching(s) : Changed(Rule(i), Reference(Rule(i)), v)}

\* The rules that log a sample, by definition instead of by position.
LEMMA SampleLogs ==
  ASSUME NEW s \in Signals, NEW v \in Values[s], NEW ts \in Stamps,
         IInv, OnSample(s, v, ts), NEW r \in Defs(ruleset)
  PROVE  state'[r.id] =
           IF /\ r.mode = "on_change" /\ r.signal = s
              /\ Changed(r, state[r.id].last_logged, v)
              /\ Passes(r, Sampled(s, v, ts))
           THEN [state[r.id] EXCEPT !.last_logged = v]
           ELSE state[r.id]
<1> DEFINE logs == {i \in Wants(s, v) : Passes(Rule(i), Sampled(s, v, ts))}
<1>1. IsRuleSet(ruleset) /\ DOMAIN state = Ids(ruleset)
  BY ActiveIsRuleSet DEF IInv, TypeOK
<1>2. state' = [id \in DOMAIN state |->
                  IF id \in IdsOf(logs) THEN [state[id] EXCEPT !.last_logged = v]
                  ELSE state[id]]
  BY DEF OnSample, Wants, Sampled
<1>3. PICK j \in DOMAIN ruleset.rules : ruleset.rules[j] = r
  OBVIOUS
<1>4. \A i \in DOMAIN ruleset.rules : ruleset.rules[i].id = r.id => i = j
  BY <1>1, <1>3 DEF IsRuleSet
<1>5. r.id \in IdsOf(logs) <=> j \in logs
  BY <1>3, <1>4 DEF IdsOf, Wants, Watching
<1>6. j \in Watching(s) <=> r.mode = "on_change" /\ r.signal = s
  BY <1>1, <1>3 DEF Watching, IInv, IndexExact, OnChangeIndex
<1> QED
  BY <1>1, <1>2, <1>3, <1>5, <1>6 DEF Wants

\* A sample: an unconditional rule that is further than its deadband from the
\* new value logs it, and no timer moves.
LEMMA SampleIInv ==
  ASSUME NEW s \in Signals, NEW v \in Values[s], NEW ts \in Stamps,
         IInv, OnSample(s, v, ts)
  PROVE  IInv'
<1> USE DEF IInv
<1>1. IsRuleSet(ruleset) /\ now \in 0..MaxTime
  BY ActiveIsRuleSet DEF TypeOK
<1>2. latest' = Sampled(s, v, ts) /\ UNCHANGED <<now, ruleset, on_change_by_signal>>
  BY DEF OnSample, Sampled
<1>3. DOMAIN latest' = Signals
  BY <1>2 DEF TypeOK, Sampled
<1>4. latest'[s] = [value |-> v, timestamp_us |-> ts, received_ms |-> now]
  BY <1>2 DEF TypeOK, Sampled
<1>5. \A t \in Signals \ {s} : latest'[t] = latest[t]
  BY <1>2 DEF TypeOK, Sampled
<1>6. ASSUME NEW r \in Defs(ruleset)
      PROVE  /\ Typed(r, state'[r.id])
             /\ state'[r.id].next_due_ms = state[r.id].next_due_ms
  <2>1. Typed(r, state[r.id])
    BY DEF TypeOK, Typed
  <2>2. \/ state'[r.id] = state[r.id]
        \/ /\ r.signal = s
           /\ state'[r.id] = [state[r.id] EXCEPT !.last_logged = v]
    BY SampleLogs
  <2> QED
    BY <2>1, <2>2 DEF Typed
<1>7. TypeOK'
  <2>1. \A t \in Signals :
          \/ latest'[t] = None
          \/ latest'[t] \in [value : Values[t], timestamp_us : Stamps,
                             received_ms : 0..now]
    BY <1>1, <1>4, <1>5, <1>2 DEF TypeOK
  <2>2. DOMAIN state' = DOMAIN state
    BY DEF OnSample
  <2>3. report' \in Reports'
    <3> DEFINE logs == {i \in Wants(s, v) : Passes(Rule(i), Sampled(s, v, ts))}
               fails == {i \in Wants(s, v) : Fails(Rule(i), Sampled(s, v, ts))}
    <3>1. report' = [records |-> {Record(Rule(i), ts, v) : i \in logs},
                     eval_errors |-> IdsOf(fails), stale_skips |-> {}]
      BY DEF OnSample, Wants, Sampled
    <3>2. logs \subseteq DOMAIN ruleset.rules /\ fails \subseteq DOMAIN ruleset.rules
      BY DEF Wants, Watching
    <3>3. \A i \in logs :
            Record(Rule(i), ts, v) \in
              [ts_us : Stamps, rule_id : Ids(ruleset),
               ruleset_version : {ruleset.version}, signal : Signals,
               value : UNION {Values[t] : t \in Signals}]
      BY <3>2, <1>1 DEF Record, IsRuleSet, IsRule
    <3>4. IdsOf(fails) \subseteq Ids(ruleset)
      BY <3>2 DEF IdsOf
    <3> HIDE DEF logs, fails
    <3> QED
      BY <3>1, <3>3, <3>4, <1>2 DEF Reports
  <2> QED
    BY <1>2, <1>3, <1>6, <2>1, <2>2, <2>3 DEF TypeOK, Typed
<1>8. NoDeadRule'
  BY <1>2, <1>6 DEF NoDeadRule
<1>9. IndexExact'
  BY <1>2 DEF IndexExact, OnChangeIndex
<1>10. DriftBounded'
  <2> SUFFICES ASSUME NEW r \in Defs(ruleset),
                      r.mode = "on_change", r.condition = None,
                      state'[r.id].last_logged # None
               PROVE  ~Changed(r, state'[r.id].last_logged, latest'[r.signal].value)
    BY <1>2 DEF DriftBounded, Changed, Deadband
  <2>1. IsRule(r)
    BY <1>1 DEF IsRuleSet
  <2>2. CASE r.signal # s
    <3>1. state'[r.id] = state[r.id] /\ latest'[r.signal] = latest[r.signal]
      BY <2>1, <2>2, <1>5, SampleLogs DEF IsRule
    <3> QED
      BY <3>1 DEF DriftBounded
  <2>3. CASE r.signal = s /\ ~Changed(r, state[r.id].last_logged, v)
    <3>1. state'[r.id] = state[r.id]
      BY <2>3, SampleLogs
    <3> QED
      BY <3>1, <2>3, <1>4
  <2>4. CASE r.signal = s /\ Changed(r, state[r.id].last_logged, v)
    <3>1. state'[r.id].last_logged = v
      BY <2>4, SampleLogs DEF Passes, TypeOK
    <3>2. v # None /\ (s \in NumSignals => v \in Int)
      BY CatalogAssumption
    <3>3. s \in NumSignals => Deadband(r) \in Nat
      BY <2>1 DEF Deadband, IsRule
    <3>4. ~Changed(r, v, v)
      BY <2>4, <3>2, <3>3 DEF Changed, Abs
    <3> QED
      BY <3>1, <3>4, <1>4, <2>4
  <2> QED
    BY <2>2, <2>3, <2>4
<1> QED
  BY <1>7, <1>8, <1>9, <1>10

IsDue(r) ==
  /\ r.mode = "periodic"
  /\ state[r.id].next_due_ms # None
  /\ state[r.id].next_due_ms <= now

TickLogs(r) ==
  /\ IsDue(r)
  /\ latest[r.signal] # None
  /\ ~(now - latest[r.signal].received_ms > MaxAge(r))
  /\ Passes(r, latest)

Ticked(r) ==
  [last_logged |-> IF TickLogs(r) THEN latest[r.signal].value
                   ELSE state[r.id].last_logged,
   next_due_ms |-> NextDue(state[r.id].next_due_ms, r.interval_ms)]

\* What a tick does to a rule, by definition instead of by position.
LEMMA TickRule ==
  ASSUME IInv, Tick, NEW r \in Defs(ruleset)
  PROVE  state'[r.id] = IF IsDue(r) THEN Ticked(r) ELSE state[r.id]
<1> DEFINE logs == {i \in Due : /\ latest[Rule(i).signal] # None
                                /\ ~(now - latest[Rule(i).signal].received_ms
                                       > MaxAge(Rule(i)))
                                /\ Passes(Rule(i), latest)}
<1>1. IsRuleSet(ruleset) /\ DOMAIN state = Ids(ruleset)
  BY ActiveIsRuleSet DEF IInv, TypeOK
<1>2. state'[r.id] =
        IF r.id \notin IdsOf(Due) THEN state[r.id]
        ELSE [last_logged |-> IF r.id \in IdsOf(logs)
                              THEN latest[DefOf(ruleset, r.id).signal].value
                              ELSE state[r.id].last_logged,
              next_due_ms |-> NextDue(state[r.id].next_due_ms,
                                      DefOf(ruleset, r.id).interval_ms)]
  <2> DEFINE seen  == {i \in Due : latest[Rule(i).signal] # None}
             stale == {i \in seen : now - latest[Rule(i).signal].received_ms
                                      > MaxAge(Rule(i))}
  <2>1. logs = {i \in seen \ stale : Passes(Rule(i), latest)}
    OBVIOUS
  <2>2. r.id \in DOMAIN state
    BY <1>1
  <2> QED
    BY <2>1, <2>2 DEF Tick
<1>3. DefOf(ruleset, r.id) = r
  BY <1>1, DefOfRule
<1>4. PICK j \in DOMAIN ruleset.rules : ruleset.rules[j] = r
  OBVIOUS
<1>5. \A i \in DOMAIN ruleset.rules : ruleset.rules[i].id = r.id => i = j
  BY <1>1, <1>4 DEF IsRuleSet
<1>6. j \in Due <=> IsDue(r)
  BY <1>1, <1>4 DEF Due, IsDue
<1>7. j \in logs <=> TickLogs(r)
  BY <1>4, <1>6 DEF TickLogs
<1>8. (r.id \in IdsOf(Due) <=> j \in Due) /\ (r.id \in IdsOf(logs) <=> j \in logs)
  BY <1>4, <1>5 DEF IdsOf, Due
<1> HIDE DEF logs
<1> QED
  BY <1>2, <1>3, <1>6, <1>7, <1>8 DEF Ticked

\* A rule that is due has an interval, and its new timer fits it.
LEMMA TickTimer ==
  ASSUME IInv, Tick, NEW r \in Defs(ruleset), IsDue(r)
  PROVE  /\ state'[r.id].next_due_ms \in (now + 1)..U64Max
         /\ state'[r.id].next_due_ms <= SatAdd(now, r.interval_ms)
<1>1. IsRule(r) /\ now \in 0..MaxTime
  BY ActiveIsRuleSet DEF IInv, IsRuleSet, TypeOK
<1>2. r.interval_ms \in 1..U64Max
  BY <1>1, PeriodicInterval DEF IsDue
<1>3. state[r.id].next_due_ms \in 0..now
  BY <1>1, TimeAssumption DEF IsDue, IInv, TypeOK
<1>4. state'[r.id].next_due_ms = NextDue(state[r.id].next_due_ms, r.interval_ms)
  <2>1. state'[r.id] = Ticked(r)
    BY TickRule
  <2> QED
    BY <2>1 DEF Ticked
<1> QED
  BY <1>1, <1>2, <1>3, <1>4, NextDueRange

\* A tick: due timers are rearmed within an interval, the others and every
\* on_change rule are left alone.
LEMMA TickIInv == ASSUME IInv, Tick PROVE IInv'
<1> USE DEF IInv
<1>1. IsRuleSet(ruleset) /\ now \in 0..MaxTime
  BY ActiveIsRuleSet DEF TypeOK
<1>2. UNCHANGED <<now, ruleset, latest, on_change_by_signal>>
  BY DEF Tick
<1>3. ASSUME NEW r \in Defs(ruleset)
      PROVE  Typed(r, state'[r.id]) /\ Armed(r, state'[r.id], now)
  <2>1. Typed(r, state[r.id]) /\ Armed(r, state[r.id], now) /\ IsRule(r)
    BY <1>1, SMTT(30) DEF TypeOK, Typed, NoDeadRule, Armed, IsRuleSet
  <2>2. CASE ~IsDue(r)
    BY <2>1, <2>2, TickRule
  <2>3. CASE IsDue(r)
    <3>1. state'[r.id] = Ticked(r)
      BY <2>3, TickRule
    <3>2. /\ state'[r.id].next_due_ms \in (now + 1)..U64Max
          /\ state'[r.id].next_due_ms <= SatAdd(now, r.interval_ms)
      BY <2>3, TickTimer
    <3>3. state'[r.id].next_due_ms \in 0..U64Max /\ state'[r.id].next_due_ms # None
      BY <3>2, <1>1, TimeAssumption
    <3>4. TickLogs(r) => latest[r.signal].value \in Values[r.signal]
      BY <2>1 DEF TickLogs, TypeOK, IsRule
    <3>5. Typed(r, state'[r.id])
      BY <3>1, <3>3, <3>4, <2>1 DEF Ticked, Typed
    <3> QED
      BY <2>3, <3>2, <3>3, <3>5 DEF Armed, IsDue
  <2> QED
    BY <2>2, <2>3
<1>4. TypeOK'
  <2>1. DOMAIN state' = DOMAIN state
    BY DEF Tick
  <2>2. report' \in Reports'
    <3> DEFINE seen  == {i \in Due : latest[Rule(i).signal] # None}
               stale == {i \in seen : now - latest[Rule(i).signal].received_ms
                                        > MaxAge(Rule(i))}
               logs  == {i \in seen \ stale : Passes(Rule(i), latest)}
               fails == {i \in seen \ stale : Fails(Rule(i), latest)}
               rec(i) == Record(Rule(i), latest[Rule(i).signal].timestamp_us,
                                latest[Rule(i).signal].value)
    <3>1. report' = [records |-> {rec(i) : i \in logs},
                     eval_errors |-> IdsOf(fails), stale_skips |-> IdsOf(stale)]
      BY DEF Tick
    <3>2. ASSUME NEW i \in logs
          PROVE  rec(i) \in [ts_us : Stamps, rule_id : Ids(ruleset),
                             ruleset_version : {ruleset.version},
                             signal : Signals,
                             value : UNION {Values[t] : t \in Signals}]
      <4>1. i \in DOMAIN ruleset.rules /\ latest[Rule(i).signal] # None
        BY <3>2 DEF Due
      <4>2. Rule(i).signal \in Signals
        BY <4>1, <1>1 DEF IsRuleSet, IsRule
      <4>3. /\ latest[Rule(i).signal].timestamp_us \in Stamps
            /\ latest[Rule(i).signal].value \in Values[Rule(i).signal]
        BY <4>1, <4>2 DEF TypeOK
      <4> QED
        BY <4>1, <4>2, <4>3 DEF Record
    <3>3. IdsOf(fails) \subseteq Ids(ruleset) /\ IdsOf(stale) \subseteq Ids(ruleset)
      BY DEF IdsOf, Due
    <3> HIDE DEF logs, fails, stale, rec
    <3> QED
      BY <3>1, <3>2, <3>3, <1>2 DEF Reports
  <2> QED
    BY <1>2, <1>3, <2>1, <2>2 DEF TypeOK, Typed
<1>5. NoDeadRule'
  BY <1>2, <1>3 DEF NoDeadRule, Armed
<1>6. IndexExact'
  BY <1>2 DEF IndexExact, OnChangeIndex
<1>7. DriftBounded'
  <2> SUFFICES ASSUME NEW r \in Defs(ruleset),
                      r.mode = "on_change", r.condition = None,
                      state'[r.id].last_logged # None
               PROVE  ~Changed(r, state'[r.id].last_logged, latest[r.signal].value)
    BY <1>2 DEF DriftBounded, Changed, Deadband
  <2>1. state'[r.id] = state[r.id]
    BY TickRule DEF IsDue
  <2> QED
    BY <2>1 DEF DriftBounded
<1> QED
  BY <1>4, <1>5, <1>6, <1>7

\* Nothing in IInv is about anything but the engine's variables.
LEMMA StutterIInv == IInv /\ UNCHANGED vars => IInv'
BY DEF IInv, vars, TypeOK, NoDeadRule, IndexExact, DriftBounded, OnChangeIndex,
       Reports, Changed, Deadband

LEMMA NextIInv == IInv /\ [Next]_vars => IInv'
<1> SUFFICES ASSUME IInv, [Next]_vars PROVE IInv'
  OBVIOUS
<1>1. CASE Advance
  BY <1>1, AdvanceIInv
<1>2. CASE \E new \in RuleSets : ApplyRuleset(new)
  BY <1>2, ApplyIInv
<1>3. CASE \E s \in Signals : \E v \in Values[s], ts \in Stamps : OnSample(s, v, ts)
  BY <1>3, SampleIInv
<1>4. CASE Tick
  BY <1>4, TickIInv
<1>5. CASE UNCHANGED vars
  BY <1>5, StutterIInv
<1> QED
  BY <1>1, <1>2, <1>3, <1>4, <1>5 DEF Next

\* The engine's invariant is inductive: it holds in every reachable state.
THEOREM Invariance == Spec => []IInv
BY InitIInv, NextIInv, PTL DEF Spec

\* Every field of the engine keeps its type, for all constants.
THEOREM TypeCorrect == Spec => []TypeOK
<1>1. IInv => TypeOK
  BY DEF IInv
<1> QED
  BY <1>1, Invariance, PTL

\* No sequence of swaps, samples and ticks leaves a rule without its timer.
THEOREM NoRuleDies == Spec => []NoDeadRule
<1>1. IInv => NoDeadRule
  BY DEF IInv
<1> QED
  BY <1>1, Invariance, PTL

\* Drift is bounded by the deadband for every unconditional on_change rule.
THEOREM DriftIsBounded == Spec => []DriftBounded
<1>1. IInv => DriftBounded
  BY DEF IInv
<1> QED
  BY <1>1, Invariance, PTL

\* A tick leaves every timer in the future, whether it fired or not.
LEMMA TickFuture ==
  ASSUME IInv, Tick, NEW d \in Deadlines'
  PROVE  d > now' /\ d \in Nat
<1>1. PICK id \in DOMAIN state : d = state'[id].next_due_ms /\ d # None
  BY DEF Deadlines, Tick
<1>2. PICK r \in Defs(ruleset) : r.id = id
  BY DEF IInv, TypeOK
<1>3. now' = now /\ now \in 0..MaxTime
  BY DEF Tick, IInv, TypeOK
<1>4. CASE IsDue(r)
  BY <1>1, <1>2, <1>3, <1>4, TickTimer, TimeAssumption
<1>5. CASE ~IsDue(r)
  <2>1. d = state[r.id].next_due_ms
    BY <1>1, <1>2, <1>5, TickRule
  <2>2. r.mode = "periodic"
    BY <1>1, <2>1, ActiveIsRuleSet DEF IInv, NoDeadRule, IsRuleSet, IsRule
  <2>3. d \in 0..U64Max
    BY <1>1, <2>1 DEF IInv, TypeOK
  <2> QED
    BY <1>1, <1>3, <1>5, <2>1, <2>2, <2>3, TimeAssumption DEF IsDue
<1> QED
  BY <1>4, <1>5

\* After any tick all timers lie in the future: the tick loop never spins.
THEOREM TicksQuiesce == Spec => TickQuiesces
<1>1. IInv /\ [Next]_vars => [Tick => \A d \in Deadlines' : d > now']_vars
  BY TickFuture
<1> QED
  BY <1>1, Invariance, PTL DEF Spec, TickQuiesces
-----------------------------------------------------------------------------
(* The engine implements its contract, for all constants: each operation is a *)
(* step of RuleContract under the mapping of RuleEngine, which reads the       *)
(* memory of a definition off the state kept for its id.                       *)

USE DEF Ids, Defs, Rule, Reference

\* The contract reads rules as the engine does.
LEMMA SameRules ==
  /\ \A rs : Contract!Defs(rs) = Defs(rs)
  /\ \A a, b : Contract!SatAdd(a, b) = SatAdd(a, b)
  /\ \A r : Contract!MaxAge(r) = MaxAge(r)
  /\ \A r, last, new : Contract!Changed(r, last, new) <=> Changed(r, last, new)
  /\ \A r, lat : Contract!Passes(r, lat) <=> Passes(r, lat)
<1>1. \A rs : Contract!Defs(rs) = Defs(rs)
  BY DEF Contract!Defs
<1>2. \A a, b : Contract!SatAdd(a, b) = SatAdd(a, b)
  BY DEF Contract!SatAdd, SatAdd
<1>3. \A r : Contract!MaxAge(r) = MaxAge(r)
  BY DEF Contract!MaxAge, MaxAge, Contract!SatMul, SatMul
<1>4. \A r, last, new : Contract!Changed(r, last, new) <=> Changed(r, last, new)
  BY DEF Contract!Changed, Changed, Contract!Abs, Abs, Contract!Deadband, Deadband
<1>5. \A r, lat : Contract!Passes(r, lat) <=> Passes(r, lat)
  BY DEF Contract!Passes, Passes, Contract!Known, Known, Contract!Valuation, Valuation
<1> QED
  BY <1>1, <1>2, <1>3, <1>4, <1>5

\* What a definition remembers is the state under its id.
LEMMA MemoryOf ==
  /\ DOMAIN Memory = Defs(ruleset)
  /\ \A r \in Defs(ruleset) : /\ Memory[r].last = state[r.id].last_logged
                              /\ Memory[r].due = state[r.id].next_due_ms
BY DEF Memory

\* The same after a step.
LEMMA MemoryNext ==
  /\ DOMAIN Memory' = Defs(ruleset')
  /\ \A r \in Defs(ruleset') : /\ Memory'[r].last = state'[r.id].last_logged
                               /\ Memory'[r].due = state'[r.id].next_due_ms
BY DEF Memory

LEMMA InitRefines == Init => Contract!Init
<1> SUFFICES ASSUME Init PROVE Contract!Init
  OBVIOUS
<1>1. Defs(ruleset) = {}
  BY DEF Init, EmptyRuleSet
<1>2. Memory = [r \in {} |-> None]
  BY <1>1 DEF Memory
<1> QED
  BY <1>2 DEF Init, Contract!Init, EmptyRuleSet, EmptyReport

LEMMA AdvanceRefines == Advance => Contract!Elapse
<1> SUFFICES ASSUME Advance PROVE Contract!Elapse
  OBVIOUS
<1>1. Memory' = Memory
  BY DEF Advance, Memory
<1> QED
  BY <1>1 DEF Advance, Contract!Elapse, EmptyReport

\* A swap carries the memory of the definitions both sets have.
LEMMA ApplyRefines ==
  ASSUME NEW new \in RuleSets, IInv, ApplyRuleset(new)
  PROVE  Contract!Swap(new)
<1>1. ruleset' = new /\ report' = EmptyReport /\ now' = now /\ latest' = latest
  BY DEF ApplyRuleset
<1>2. ASSUME NEW r \in Defs(new)
      PROVE  Memory'[r] = IF r \in DOMAIN Memory THEN Memory[r] ELSE Contract!New(r)
  <2>1. state'[r.id] = Carried(r)
    BY ApplyRule
  <2>2. Memory'[r] = [last |-> state'[r.id].last_logged,
                      due |-> state'[r.id].next_due_ms]
    BY <1>1 DEF Memory
  <2>3. CASE r \in Defs(ruleset)
    <3>1. state'[r.id] = state[r.id]
      BY <2>1, <2>3 DEF Carried, IInv, TypeOK
    <3>2. Memory[r] = [last |-> state[r.id].last_logged,
                       due |-> state[r.id].next_due_ms]
      BY <2>3 DEF Memory
    <3> QED
      BY <2>2, <2>3, <3>1, <3>2, MemoryOf
  <2>4. CASE r \notin Defs(ruleset)
    <3>1. state'[r.id] = Fresh(r)
      BY <2>1, <2>4 DEF Carried
    <3> QED
      BY <2>2, <2>4, <3>1, MemoryOf, SameRules DEF Fresh, Contract!New
  <2> QED
    BY <2>3, <2>4
<1>3. Memory' = [r \in Defs(new) |->
                   IF r \in DOMAIN Memory THEN Memory[r] ELSE Contract!New(r)]
  BY <1>1, <1>2, ZenonT(60) DEF Memory
<1> QED
  BY <1>1, <1>3, SameRules DEF Contract!Swap, EmptyReport

\* A sample is logged by the definitions the contract names.
LEMMA SampleRefines ==
  ASSUME NEW s \in Signals, NEW v \in Values[s], NEW ts \in Stamps,
         IInv, OnSample(s, v, ts)
  PROVE  Contract!Receive(s, v, ts)
<1> DEFINE sample == [value |-> v, timestamp_us |-> ts, received_ms |-> now]
           known  == [latest EXCEPT ![s] = sample]
           logged == {r \in DOMAIN Memory : /\ r.mode = "on_change"
                                            /\ r.signal = s
                                            /\ Changed(r, Memory[r].last, v)
                                            /\ Passes(r, known)}
           logs   == {i \in Wants(s, v) : Passes(Rule(i), known)}
<1>1. latest' = known /\ UNCHANGED <<now, ruleset>>
  BY DEF OnSample
<1>2. IsRuleSet(ruleset) /\ DOMAIN state = Ids(ruleset) /\ DOMAIN latest = Signals
  BY ActiveIsRuleSet DEF IInv, TypeOK
<1>3. ASSUME NEW r \in Defs(ruleset)
      PROVE  r \in logged <=> /\ r.mode = "on_change" /\ r.signal = s
                              /\ Changed(r, state[r.id].last_logged, v)
                              /\ Passes(r, Sampled(s, v, ts))
  BY MemoryOf DEF Sampled
<1>4. DOMAIN Memory' = DOMAIN Memory
  BY <1>1, MemoryOf, MemoryNext
<1>5. ASSUME NEW r \in DOMAIN Memory
      PROVE  /\ Memory'[r].last = IF r \in logged THEN latest'[r.signal].value
                                  ELSE Memory[r].last
             /\ Memory'[r].due = Memory[r].due
  <2>1. r \in Defs(ruleset)
    BY MemoryOf
  <2>2. state'[r.id] = IF r \in logged THEN [state[r.id] EXCEPT !.last_logged = v]
                       ELSE state[r.id]
    BY <1>3, <2>1, SampleLogs
  <2>3. state[r.id] \in [last_logged : Values[r.signal] \cup {None},
                         next_due_ms : (0..U64Max) \cup {None}]
    BY <2>1 DEF IInv, TypeOK
  <2>4. r \in logged => latest'[r.signal].value = v
    BY <1>1, <1>2, <1>3, <2>1
  <2> HIDE DEF logged
  <2> QED
    BY <1>1, <2>1, <2>2, <2>3, <2>4, MemoryOf, MemoryNext
<1>6. report'.records = {Contract!Record(r, sample) : r \in logged}
  <2>1. report'.records = {Record(Rule(i), ts, v) : i \in logs}
    BY DEF OnSample, Wants
  <2>2. \A i \in DOMAIN ruleset.rules : i \in logs <=> Rule(i) \in logged
    <3> SUFFICES ASSUME NEW i \in DOMAIN ruleset.rules
                 PROVE  i \in logs <=> Rule(i) \in logged
      OBVIOUS
    <3>1. Rule(i) \in Defs(ruleset) /\ Rule(i).id \in DOMAIN state
      BY <1>2
    <3>2. i \in Watching(s) <=> Rule(i).mode = "on_change" /\ Rule(i).signal = s
      BY <3>1 DEF Watching, IInv, IndexExact
    <3> QED
      BY <1>3, <3>1, <3>2 DEF Wants, Sampled
  <2>3. \A i \in logs : i \in DOMAIN ruleset.rules
    BY DEF Wants, Watching
  <2>4. \A r \in logged : \E i \in DOMAIN ruleset.rules : Rule(i) = r
    BY MemoryOf
  <2>5. \A r : Contract!Record(r, sample) = Record(r, ts, v)
    BY DEF Contract!Record, Record
  <2> HIDE DEF logs, logged, sample
  <2> QED
    BY <2>1, <2>2, <2>3, <2>4, <2>5
<1> HIDE DEF logged
<1>7. Contract!Remembers(logged)
  BY <1>5 DEF Contract!Remembers
<1> QED
  <2>1. logged = {r \in DOMAIN Memory : /\ r.mode = "on_change"
                                       /\ r.signal = s
                                       /\ Contract!Changed(r, Memory[r].last, v)
                                       /\ Contract!Passes(r, known)}
    BY SameRules DEF logged
  <2> QED
    BY <1>1, <1>4, <1>5, <1>6, <1>7, <2>1 DEF Contract!Receive

\* The rules a tick finds due are those the contract calls late.
LEMMA LateIsDue ==
  ASSUME IInv, NEW r \in Defs(ruleset)
  PROVE  r \in Contract!Late <=> IsDue(r)
BY MemoryOf DEF Contract!Late, IsDue, IInv, NoDeadRule

\* And those that log are those with a recent sample and a true condition.
LEMMA RecentLogs ==
  ASSUME IInv, NEW r \in Defs(ruleset), IsDue(r)
  PROVE  TickLogs(r) <=> Contract!Recent(r) /\ Passes(r, latest)
<1>1. IsRule(r) /\ now \in 0..MaxTime /\ r.signal \in Signals
  BY ActiveIsRuleSet DEF IInv, IsRuleSet, IsRule, TypeOK
<1>2. MaxAge(r) \in Int
  BY <1>1, TimeAssumption DEF MaxAge, SatMul, IsRule, IsDue
<1>3. latest[r.signal] # None => latest[r.signal].received_ms \in 0..now
  BY <1>1 DEF IInv, TypeOK
<1> QED
  BY <1>1, <1>2, <1>3, SameRules, TimeAssumption DEF TickLogs, Contract!Recent

\* A tick is a poll: it logs what is due and moves each slot within its bounds.
LEMMA TickRefines ==
  ASSUME IInv, Tick
  PROVE  Contract!Poll
<1> DEFINE logged == {r \in Contract!Late : /\ Contract!Recent(r)
                                            /\ Passes(r, latest)}
           logs   == {i \in Due : TickLogs(Rule(i))}
<1>1. UNCHANGED <<now, ruleset, latest>>
  BY DEF Tick
<1>2. IsRuleSet(ruleset) /\ DOMAIN state = Ids(ruleset) /\ now \in 0..MaxTime
  BY ActiveIsRuleSet DEF IInv, TypeOK
<1>3. DOMAIN Memory' = DOMAIN Memory
  BY <1>1, MemoryOf, MemoryNext
<1>4. ASSUME NEW r \in Defs(ruleset)
      PROVE  r \in logged <=> TickLogs(r)
  BY LateIsDue, RecentLogs DEF TickLogs
<1>5. ASSUME NEW r \in DOMAIN Memory
      PROVE  Memory'[r].last = IF r \in logged THEN latest'[r.signal].value
                               ELSE Memory[r].last
  <2>1. r \in Defs(ruleset)
    BY MemoryOf
  <2>2. state'[r.id] = IF IsDue(r) THEN Ticked(r) ELSE state[r.id]
    BY <2>1, TickRule
  <2>3. TickLogs(r) => IsDue(r)
    BY DEF TickLogs
  <2> HIDE DEF logged
  <2> QED
    BY <1>1, <1>4, <2>1, <2>2, <2>3, MemoryOf, MemoryNext DEF Ticked
<1>6. ASSUME NEW r \in DOMAIN Memory \ Contract!Late
      PROVE  Memory'[r].due = Memory[r].due
  <2>1. r \in Defs(ruleset) /\ ~IsDue(r)
    BY MemoryOf, LateIsDue
  <2>2. state'[r.id] = state[r.id]
    BY <2>1, TickRule
  <2> QED
    BY <1>1, <2>1, <2>2, MemoryOf, MemoryNext
<1>7. ASSUME NEW r \in Contract!Late
      PROVE  /\ Memory'[r].due > now
             /\ Memory'[r].due >= SatAdd(Memory[r].due, r.interval_ms)
             /\ Memory'[r].due <= SatAdd(now, r.interval_ms)
  <2>1. r \in Defs(ruleset) /\ IsDue(r)
    BY MemoryOf, LateIsDue DEF Contract!Late
  <2>2. Memory'[r].due = state'[r.id].next_due_ms
        /\ Memory[r].due = state[r.id].next_due_ms
    BY <1>1, <2>1, MemoryOf, MemoryNext
  <2>3. /\ state'[r.id].next_due_ms \in (now + 1)..U64Max
        /\ state'[r.id].next_due_ms <= SatAdd(now, r.interval_ms)
    BY <2>1, TickTimer
  <2>4. state'[r.id].next_due_ms >= SatAdd(state[r.id].next_due_ms, r.interval_ms)
    <3>1. state'[r.id] = Ticked(r)
      BY <2>1, TickRule
    <3>2. state'[r.id].next_due_ms = NextDue(state[r.id].next_due_ms, r.interval_ms)
      BY <3>1 DEF Ticked
    <3>3. IsRule(r)
      BY <1>2, <2>1 DEF IsRuleSet
    <3>4. r.interval_ms \in 1..U64Max
      BY <2>1, <3>3, PeriodicInterval DEF IsDue
    <3>5. state[r.id].next_due_ms \in 0..now
      BY <1>2, <2>1, TimeAssumption DEF IsDue, IInv, TypeOK
    <3> QED
      BY <1>2, <3>2, <3>4, <3>5, TimeAssumption DEF NextDue, SatAdd
  <2> QED
    BY <1>2, <2>2, <2>3, <2>4, TimeAssumption
<1>8. report'.records = {Contract!Record(r, latest[r.signal]) : r \in logged}
  <2>1. report'.records = {Record(Rule(i), latest[Rule(i).signal].timestamp_us,
                                  latest[Rule(i).signal].value) : i \in logs}
    <3> DEFINE seen  == {i \in Due : latest[Rule(i).signal] # None}
               stale == {i \in seen : now - latest[Rule(i).signal].received_ms
                                        > MaxAge(Rule(i))}
    <3>1. logs = {i \in seen \ stale : Passes(Rule(i), latest)}
      <4>1. \A i \in Due : IsDue(Rule(i))
        BY DEF Due, IsDue
      <4> QED
        BY <4>1 DEF TickLogs
    <3> HIDE DEF logs
    <3> QED
      BY <3>1 DEF Tick
  <2>2. \A i \in DOMAIN ruleset.rules : i \in logs <=> Rule(i) \in logged
    <3> SUFFICES ASSUME NEW i \in DOMAIN ruleset.rules
                 PROVE  i \in logs <=> Rule(i) \in logged
      OBVIOUS
    <3>1. Rule(i) \in Defs(ruleset) /\ Rule(i).id \in DOMAIN state
      BY <1>2
    <3>2. TickLogs(Rule(i)) => i \in Due
      BY <3>1 DEF TickLogs, IsDue, Due
    <3> QED
      BY <1>4, <3>1, <3>2
  <2>3. \A i \in logs : i \in DOMAIN ruleset.rules
    BY DEF Due
  <2>4. \A r \in logged : \E i \in DOMAIN ruleset.rules : Rule(i) = r
    BY MemoryOf DEF Contract!Late
  <2>5. \A r, sample : Contract!Record(r, sample)
                         = Record(r, sample.timestamp_us, sample.value)
    BY DEF Contract!Record, Record
  <2> HIDE DEF logs, logged
  <2> QED
    BY <2>1, <2>2, <2>3, <2>4, <2>5
<1> HIDE DEF logged
<1>9. Contract!Remembers(logged)
  BY <1>5 DEF Contract!Remembers
<1>10. logged = {r \in Contract!Late : Contract!Recent(r) /\ Contract!Passes(r, latest)}
  BY SameRules DEF logged
<1> QED
  BY <1>1, <1>3, <1>6, <1>7, <1>8, <1>9, <1>10, SameRules DEF Contract!Poll

\* The contract sees nothing but what the engine keeps.
LEMMA StutterRefines == UNCHANGED vars => UNCHANGED Contract!cvars
BY DEF vars, Contract!cvars, Memory

LEMMA NextRefines == IInv /\ [Next]_vars => [Contract!Next]_(Contract!cvars)
<1> SUFFICES ASSUME IInv, [Next]_vars PROVE [Contract!Next]_(Contract!cvars)
  OBVIOUS
<1>1. CASE Advance
  BY <1>1, AdvanceRefines DEF Contract!Next
<1>2. CASE \E new \in RuleSets : ApplyRuleset(new)
  BY <1>2, ApplyRefines DEF Contract!Next
<1>3. CASE \E s \in Signals : \E v \in Values[s], ts \in Stamps : OnSample(s, v, ts)
  BY <1>3, SampleRefines DEF Contract!Next
<1>4. CASE Tick
  BY <1>4, TickRefines DEF Contract!Next
<1>5. CASE UNCHANGED vars
  BY <1>5, StutterRefines
<1> QED
  BY <1>1, <1>2, <1>3, <1>4, <1>5 DEF Next

\* Through any swaps, samples and ticks the engine, with its ids, positions and
\* kept states, behaves as the contract says of definitions.
THEOREM EngineImplementsContract == Spec => ImplementsContract
BY InitRefines, NextRefines, Invariance, PTL
DEF Spec, ImplementsContract, Contract!Spec

HIDE DEF Ids, Defs, Rule, Reference
=============================================================================
