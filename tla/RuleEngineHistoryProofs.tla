------------------------ MODULE RuleEngineHistoryProofs ------------------------
(***************************************************************************)
(* Proofs about RuleEngineHistory: what a reader of the records may rely   *)
(* on.  The rate of a periodic rule follows from an invariant that leaves  *)
(* room for one record more in every timer: the next slot of a rule that   *)
(* emitted count records is at least count + 1 intervals after its birth.  *)
(***************************************************************************)
EXTENDS RuleEngineHistory, RuleEngineProofs

USE DEF Ids, Defs, Rule, Reference

Life(r) == [since : Nat, count : Nat, last : Values[r.signal] \cup {None}]

\* The records emitted fit in the time the rule has, and in its timer one more.
InTime(r, l, st, t) ==
  /\ l.since <= t
  /\ l.count * r.interval_ms <= t - l.since
  /\ \/ st.next_due_ms = U64Max
     \/ (l.count + 1) * r.interval_ms <= st.next_due_ms - l.since

LifeOK(r, l, st, t) ==
  /\ l \in Life(r)
  /\ l.last = st.last_logged
  /\ r.mode = "periodic" => InTime(r, l, st, t)

HInv ==
  /\ IInv
  /\ DOMAIN life = Ids(ruleset)
  /\ \A r \in Defs(ruleset) : LifeOK(r, life[r.id], state[r.id], now)

LEMMA InitHInv == HInit => HInv
<1> SUFFICES ASSUME HInit PROVE HInv
  OBVIOUS
<1>1. IInv
  BY InitIInv DEF HInit
<1>2. Defs(ruleset) = {} /\ Ids(ruleset) = {} /\ DOMAIN life = {}
  BY DEF HInit, Init, EmptyRuleSet
<1> QED
  BY <1>1, <1>2 DEF HInv

\* One interval more.
LEMMA OneMore ==
  ASSUME NEW n \in Nat, NEW k \in Nat
  PROVE  /\ (n + 1) * k = n * k + k
         /\ (n + 1 + 1) * k = (n + 1) * k + k
         /\ n * k \in Nat /\ (n + 1) * k \in Nat
OBVIOUS

\* A definition the set before had lives on, any other is born.
LEMMA LivedOn ==
  ASSUME HInv, IsRuleSet(ruleset'), NEW r \in Defs(ruleset')
  PROVE  Lived(r.id) = IF r \in Defs(ruleset) THEN life[r.id] ELSE Born
<1>1. DefOf(ruleset', r.id) = r
  BY DefOfRule
<1> QED
  BY <1>1 DEF Lived

\* The life of a rule that emitted nothing, and of one that emitted x.
LEMMA Remembers ==
  ASSUME HInv, Remember, IsRuleSet(ruleset'), NEW r \in Defs(ruleset')
  PROVE  /\ DOMAIN life' = Ids(ruleset')
         /\ RecordsOf(r.id, report') = {} => life'[r.id] = Lived(r.id)
         /\ \A x : RecordsOf(r.id, report') = {x} => life'[r.id] = Emitted(r, x)
<1>1. DefOf(ruleset', r.id) = r /\ r.id \in Ids(ruleset')
  BY DefOfRule
<1>2. life'[r.id] = IF RecordsOf(r.id, report') = {} THEN Lived(r.id)
                    ELSE Emitted(r, CHOOSE x \in RecordsOf(r.id, report') : TRUE)
  BY <1>1 DEF Remember
<1> QED
  BY <1>2 DEF Remember

\* A rule that emits nothing keeps its life, if it had one.
LEMMA Quiet ==
  ASSUME HInv, Remember, NEW rs, ruleset' = rs, IsRuleSet(rs), NEW r \in Defs(rs),
         RecordsOf(r.id, report') = {}
  PROVE  life'[r.id] = IF r \in Defs(ruleset) THEN life[r.id] ELSE Born
<1>1. IsRuleSet(ruleset') /\ r \in Defs(ruleset')
  OBVIOUS
<1>2. life'[r.id] = Lived(r.id)
  BY <1>1, Remembers
<1>3. Lived(r.id) = IF r \in Defs(ruleset) THEN life[r.id] ELSE Born
  BY <1>1, LivedOn
<1> QED
  BY <1>2, <1>3

\* Time passes: nothing is emitted, and there is only more of it.
LEMMA AdvanceHInv == ASSUME HInv, Advance, Remember, IInv' PROVE HInv'
<1>1. IsRuleSet(ruleset) /\ ruleset' = ruleset /\ state' = state
  BY ActiveIsRuleSet DEF HInv, IInv, Advance
<1>2. now \in Nat /\ now' \in Nat /\ now < now'
  BY TimeAssumption DEF HInv, IInv, TypeOK, Advance
<1>3. \A r \in Defs(ruleset) : RecordsOf(r.id, report') = {}
  BY DEF Advance, EmptyReport, RecordsOf
<1>4. ASSUME NEW r \in Defs(ruleset)
      PROVE  LifeOK(r, life'[r.id], state[r.id], now')
  <2>1. life'[r.id] = life[r.id]
    BY <1>1, <1>3, Quiet
  <2>2. LifeOK(r, life[r.id], state[r.id], now) /\ IsRule(r)
    BY <1>1 DEF HInv, IsRuleSet
  <2>3. ASSUME r.mode = "periodic" PROVE InTime(r, life[r.id], state[r.id], now')
    <3>1. r.interval_ms \in Nat /\ life[r.id].count \in Nat /\ life[r.id].since \in Nat
      BY <2>2, <2>3, TimeAssumption, PeriodicInterval DEF LifeOK, Life
    <3>2. life[r.id].count * r.interval_ms \in Nat
      BY <3>1, OneMore
    <3> QED
      BY <1>2, <2>2, <2>3, <3>1, <3>2 DEF LifeOK, InTime
  <2> QED
    BY <2>1, <2>2, <2>3 DEF LifeOK
<1>5. DOMAIN life' = Ids(ruleset)
  BY <1>1 DEF Remember
<1> QED
  BY <1>1, <1>4, <1>5 DEF HInv

\* A swap emits nothing: a definition that is kept keeps its life and its timer,
\* and the timer of a new one is an interval away.
LEMMA ApplyHInv ==
  ASSUME NEW new \in RuleSets, HInv, ApplyRuleset(new), Remember, IInv'
  PROVE  HInv'
<1>1. IsRuleSet(new) /\ ruleset' = new /\ now' = now
  BY RuleSetAssumption DEF ApplyRuleset
<1>2. now \in 0..MaxTime /\ now \in Nat
  BY TimeAssumption DEF HInv, IInv, TypeOK
<1>3. ASSUME NEW r \in Defs(new)
      PROVE  LifeOK(r, life'[r.id], state'[r.id], now)
  <2>1. life'[r.id] = IF r \in Defs(ruleset) THEN life[r.id] ELSE Born
    <3>1. RecordsOf(r.id, report') = {}
      BY DEF ApplyRuleset, EmptyReport, RecordsOf
    <3> QED
      BY <1>1, <3>1, Quiet
  <2>2. IsRule(r) /\ state'[r.id] = Carried(r)
    BY ApplyRule
  <2>3. CASE r \in Defs(ruleset)
    <3>1. state'[r.id] = state[r.id]
      BY <2>2, <2>3 DEF Carried, HInv, IInv, TypeOK
    <3> QED
      BY <2>1, <2>3, <3>1 DEF HInv
  <2>4. CASE r \notin Defs(ruleset)
    <3>1. state'[r.id] = Fresh(r) /\ life'[r.id] = [since |-> now, count |-> 0, last |-> None]
      BY <1>1, <2>1, <2>2, <2>4 DEF Carried, Born
    <3>2. ASSUME r.mode = "periodic" PROVE InTime(r, life'[r.id], Fresh(r), now)
      <4>1. r.interval_ms \in Nat /\ Fresh(r).next_due_ms = SatAdd(now, r.interval_ms)
        BY <2>2, <3>2, TimeAssumption, PeriodicInterval DEF Fresh
      <4>2. 0 * r.interval_ms = 0 /\ (0 + 1) * r.interval_ms = r.interval_ms
        BY <4>1
      <4>3. \/ Fresh(r).next_due_ms = U64Max
            \/ Fresh(r).next_due_ms = now + r.interval_ms
        BY <4>1 DEF SatAdd
      <4> QED
        BY <1>2, <3>1, <4>1, <4>2, <4>3 DEF InTime
    <3> QED
      BY <1>2, <3>1, <3>2 DEF LifeOK, Life, Fresh
  <2> QED
    BY <2>3, <2>4
<1>4. DOMAIN life' = Ids(new)
  BY <1>1 DEF Remember
<1> QED
  BY <1>1, <1>3, <1>4 DEF HInv

Fires(r, s, v, ts) ==
  /\ r.mode = "on_change" /\ r.signal = s
  /\ Changed(r, state[r.id].last_logged, v)
  /\ Passes(r, Sampled(s, v, ts))

\* The records of a sample, by definition instead of by position.
LEMMA SampleRecords ==
  ASSUME NEW s \in Signals, NEW v \in Values[s], NEW ts \in Stamps,
         IInv, OnSample(s, v, ts), NEW r \in Defs(ruleset)
  PROVE  RecordsOf(r.id, report') = IF Fires(r, s, v, ts) THEN {Record(r, ts, v)} ELSE {}
<1> DEFINE logs == {i \in Wants(s, v) : Passes(Rule(i), Sampled(s, v, ts))}
<1>1. IsRuleSet(ruleset) /\ DOMAIN state = Ids(ruleset)
  BY ActiveIsRuleSet DEF IInv, TypeOK
<1>2. report'.records = {Record(Rule(i), ts, v) : i \in logs}
  BY DEF OnSample, Wants, Sampled
<1>3. PICK j \in DOMAIN ruleset.rules : ruleset.rules[j] = r
  OBVIOUS
<1>4. \A i \in DOMAIN ruleset.rules : ruleset.rules[i].id = r.id => i = j
  BY <1>1, <1>3 DEF IsRuleSet
<1>5. j \in Watching(s) <=> r.mode = "on_change" /\ r.signal = s
  BY <1>1, <1>3 DEF Watching, IInv, IndexExact, OnChangeIndex
<1>6. j \in logs <=> Fires(r, s, v, ts)
  BY <1>3, <1>5 DEF Wants, Fires
<1>7. logs \subseteq DOMAIN ruleset.rules
  BY DEF Wants, Watching
<1> HIDE DEF logs
<1>8. \A i \in logs : Record(Rule(i), ts, v).rule_id = r.id <=> i = j
  BY <1>3, <1>4, <1>7 DEF Record
<1> QED
  BY <1>2, <1>3, <1>6, <1>8 DEF RecordsOf

LastRecord(r) == Record(r, latest[r.signal].timestamp_us, latest[r.signal].value)

\* The records of a tick, by definition instead of by position.
LEMMA TickRecords ==
  ASSUME IInv, Tick, NEW r \in Defs(ruleset)
  PROVE  RecordsOf(r.id, report') = IF TickLogs(r) THEN {LastRecord(r)} ELSE {}
<1> DEFINE logs == {i \in Due : /\ latest[Rule(i).signal] # None
                                /\ ~(now - latest[Rule(i).signal].received_ms
                                       > MaxAge(Rule(i)))
                                /\ Passes(Rule(i), latest)}
<1>1. IsRuleSet(ruleset) /\ DOMAIN state = Ids(ruleset)
  BY ActiveIsRuleSet DEF IInv, TypeOK
<1>2. report'.records = {LastRecord(Rule(i)) : i \in logs}
  <2> DEFINE seen  == {i \in Due : latest[Rule(i).signal] # None}
             stale == {i \in seen : now - latest[Rule(i).signal].received_ms
                                      > MaxAge(Rule(i))}
  <2>1. logs = {i \in seen \ stale : Passes(Rule(i), latest)}
    OBVIOUS
  <2> QED
    BY <2>1 DEF Tick, LastRecord
<1>3. PICK j \in DOMAIN ruleset.rules : ruleset.rules[j] = r
  OBVIOUS
<1>4. \A i \in DOMAIN ruleset.rules : ruleset.rules[i].id = r.id => i = j
  BY <1>1, <1>3 DEF IsRuleSet
<1>5. j \in Due <=> IsDue(r)
  BY <1>1, <1>3 DEF Due, IsDue
<1>6. j \in logs <=> TickLogs(r)
  BY <1>3, <1>5 DEF TickLogs
<1>7. logs \subseteq DOMAIN ruleset.rules
  BY DEF Due
<1> HIDE DEF logs
<1>8. \A i \in logs : LastRecord(Rule(i)).rule_id = r.id <=> i = j
  BY <1>3, <1>4, <1>7 DEF Record, LastRecord
<1> QED
  BY <1>2, <1>3, <1>6, <1>8 DEF RecordsOf

\* The life of a rule of the active set after an operation that swaps nothing.
LEMMA Lives ==
  ASSUME HInv, Remember, ruleset' = ruleset, NEW r \in Defs(ruleset)
  PROVE  /\ RecordsOf(r.id, report') = {} => life'[r.id] = life[r.id]
         /\ \A x : RecordsOf(r.id, report') = {x} =>
              life'[r.id] = [life[r.id] EXCEPT
                               !.count = IF r.mode = "periodic" THEN @ + 1 ELSE @,
                               !.last  = x.value]
<1>1. IsRuleSet(ruleset') /\ r \in Defs(ruleset')
  BY ActiveIsRuleSet DEF HInv, IInv
<1>2. Lived(r.id) = life[r.id]
  BY <1>1, LivedOn
<1>3. \A x : Emitted(r, x) = [life[r.id] EXCEPT
                               !.count = IF r.mode = "periodic" THEN @ + 1 ELSE @,
                               !.last  = x.value]
  BY <1>2 DEF Emitted
<1>4. /\ RecordsOf(r.id, report') = {} => life'[r.id] = Lived(r.id)
      /\ \A x : RecordsOf(r.id, report') = {x} => life'[r.id] = Emitted(r, x)
  BY <1>1, Remembers
<1> QED
  BY <1>2, <1>3, <1>4

\* A sample: what is logged is the last record, and no timer moves.
LEMMA SampleHInv ==
  ASSUME NEW s \in Signals, NEW v \in Values[s], NEW ts \in Stamps,
         HInv, OnSample(s, v, ts), Remember, IInv'
  PROVE  HInv'
<1>1. ruleset' = ruleset /\ now' = now
  BY DEF OnSample
<1>2. ASSUME NEW r \in Defs(ruleset)
      PROVE  LifeOK(r, life'[r.id], state'[r.id], now)
  <2>1. LifeOK(r, life[r.id], state[r.id], now)
    BY DEF HInv
  <2>2. CASE Fires(r, s, v, ts)
    <3>1. RecordsOf(r.id, report') = {Record(r, ts, v)}
      BY <2>2, SampleRecords DEF HInv
    <3>2. life'[r.id] = [life[r.id] EXCEPT !.count = @, !.last = Record(r, ts, v).value]
      BY <1>1, <2>2, <3>1, Lives DEF Fires
    <3>3. state'[r.id] = [state[r.id] EXCEPT !.last_logged = v]
      BY <2>2, SampleLogs DEF HInv, Fires
    <3>4. state'[r.id].last_logged = v
      BY <3>3 DEF HInv, IInv, TypeOK
    <3>5. life'[r.id] \in Life(r) /\ life'[r.id].last = v
      BY <2>1, <2>2, <3>2 DEF LifeOK, Life, Record, Fires
    <3> QED
      BY <2>2, <3>4, <3>5 DEF LifeOK, Fires
  <2>3. CASE ~Fires(r, s, v, ts)
    <3>1. life'[r.id] = life[r.id]
      BY <1>1, <2>3, SampleRecords, Lives DEF HInv
    <3>2. state'[r.id] = state[r.id]
      BY <2>3, SampleLogs DEF HInv, Fires
    <3> QED
      BY <2>1, <3>1, <3>2
  <2> QED
    BY <2>2, <2>3
<1>3. DOMAIN life' = Ids(ruleset)
  BY <1>1 DEF Remember
<1> QED
  BY <1>1, <1>2, <1>3 DEF HInv

\* The next slot of a timer leaves room for one record more than it used.
LEMMA SlotRoom ==
  ASSUME now \in 0..MaxTime, NEW due \in 0..now, NEW k \in 1..U64Max,
         NEW n \in Nat, NEW b \in Nat, (n + 1) * k <= due - b
  PROVE  \/ NextDue(due, k) = U64Max
         \/ (n + 1 + 1) * k <= NextDue(due, k) - b
<1>1. k \in Nat /\ due \in Nat /\ now \in Nat
  BY TimeAssumption
<1>2. (n + 1 + 1) * k = (n + 1) * k + k /\ (n + 1) * k \in Nat
  BY <1>1, OneMore
<1>3. NextDue(due, k) = U64Max \/ NextDue(due, k) >= due + k
  BY <1>1, TimeAssumption DEF NextDue, SatAdd
<1>4. NextDue(due, k) \in Nat
  BY <1>1, TimeAssumption DEF NextDue, SatAdd
<1> QED
  BY <1>1, <1>2, <1>3, <1>4

\* A tick: a rule that is due uses up one slot, whether it logs or not.
LEMMA TickHInv == ASSUME HInv, Tick, Remember, IInv' PROVE HInv'
<1>1. ruleset' = ruleset /\ now' = now
  BY DEF Tick
<1>2. now \in 0..MaxTime /\ now \in Nat
  BY TimeAssumption DEF HInv, IInv, TypeOK
<1>3. ASSUME NEW r \in Defs(ruleset)
      PROVE  LifeOK(r, life'[r.id], state'[r.id], now)
  <2>1. LifeOK(r, life[r.id], state[r.id], now) /\ IsRule(r)
    BY ActiveIsRuleSet DEF HInv, IInv, IsRuleSet
  <2>2. CASE ~IsDue(r)
    <3>1. life'[r.id] = life[r.id]
      BY <1>1, <2>2, TickRecords, Lives DEF HInv, TickLogs
    <3>2. state'[r.id] = state[r.id]
      BY <2>2, TickRule DEF HInv
    <3> QED
      BY <2>1, <3>1, <3>2
  <2>3. CASE IsDue(r)
    <3> DEFINE due == state[r.id].next_due_ms
               k   == r.interval_ms
               n   == life[r.id].count
               b   == life[r.id].since
    <3>1. state'[r.id] = Ticked(r)
      BY <2>3, TickRule DEF HInv
    <3>2. k \in 1..U64Max /\ due \in 0..now
      BY <1>2, <2>1, <2>3, PeriodicInterval, TimeAssumption DEF IsDue, HInv, IInv, TypeOK
    <3>3. n \in Nat /\ b \in 0..now /\ (n + 1) * k <= due - b /\ n * k <= now - b
      <4>1. due # U64Max
        BY <1>2, <3>2, TimeAssumption
      <4> QED
        BY <1>2, <2>1, <2>3, <4>1 DEF LifeOK, Life, InTime, IsDue
    <3>4. NextDue(due, k) = U64Max \/ (n + 1 + 1) * k <= NextDue(due, k) - b
      <4>1. n \in Nat /\ b \in Nat /\ (n + 1) * k <= due - b
        BY <1>2, <3>3
      <4> HIDE DEF due, k, n, b
      <4> QED
        BY <1>2, <3>2, <4>1, SlotRoom
    <3>5. NextDue(due, k) \in Nat
      BY <1>2, <3>2, NextDueRange, TimeAssumption
    <3>6. k \in Nat /\ (n + 1) * k \in Nat /\ n * k \in Nat
      BY <3>2, <3>3, OneMore, TimeAssumption
    <3>7. (n + 1 + 1) * k = (n + 1) * k + k
      BY <3>3, <3>6, OneMore
    <3>8. (n + 1) * k <= now - b
      BY <1>2, <3>2, <3>3, <3>6
    <3>9. state'[r.id].next_due_ms = NextDue(due, k)
      BY <3>1 DEF Ticked
    <3>10. CASE TickLogs(r)
      <4>1. life'[r.id] = [life[r.id] EXCEPT !.count = @ + 1, !.last = LastRecord(r).value]
        BY <1>1, <2>3, <3>10, TickRecords, Lives DEF HInv, IsDue
      <4>2. latest[r.signal].value \in Values[r.signal]
        BY <2>1, <3>10 DEF TickLogs, HInv, IInv, TypeOK, IsRule
      <4>3. /\ life'[r.id] \in Life(r) /\ life'[r.id].last = latest[r.signal].value
            /\ life'[r.id].count = n + 1 /\ life'[r.id].since = b
        <5>1. life[r.id] \in Life(r) /\ LastRecord(r).value = latest[r.signal].value
          BY <2>1 DEF LifeOK, LastRecord, Record
        <5>2. life[r.id] \in [since : Nat, count : Nat, last : Values[r.signal] \cup {None}]
          BY <5>1 DEF Life
        <5>3. life'[r.id] = [since |-> b, count |-> n + 1, last |-> latest[r.signal].value]
          BY <4>1, <5>1, <5>2
        <5> QED
          BY <3>3, <4>2, <5>3 DEF Life
      <4>4. state'[r.id].last_logged = latest[r.signal].value
        BY <3>1, <3>10 DEF Ticked
      <4>5. InTime(r, life'[r.id], state'[r.id], now)
        BY <1>2, <3>3, <3>4, <3>8, <3>9, <4>3 DEF InTime
      <4> QED
        BY <4>3, <4>4, <4>5 DEF LifeOK
    <3>11. CASE ~TickLogs(r)
      <4>1. life'[r.id] = life[r.id]
        BY <1>1, <3>11, TickRecords, Lives DEF HInv
      <4>2. state'[r.id].last_logged = state[r.id].last_logged
        BY <3>1, <3>11 DEF Ticked
      <4>3. NextDue(due, k) = U64Max \/ (n + 1) * k <= NextDue(due, k) - b
        BY <3>2, <3>3, <3>4, <3>5, <3>6, <3>7
      <4>4. InTime(r, life'[r.id], state'[r.id], now)
        BY <1>2, <3>3, <3>9, <4>1, <4>3 DEF InTime
      <4> QED
        BY <2>1, <4>1, <4>2, <4>4 DEF LifeOK
    <3> QED
      BY <3>10, <3>11
  <2> QED
    BY <2>2, <2>3
<1>4. DOMAIN life' = Ids(ruleset)
  BY <1>1 DEF Remember
<1> QED
  BY <1>1, <1>3, <1>4 DEF HInv

\* Nothing happens: the invariant reads the engine and the lives, not the report.
LEMMA StutterHInv == HInv /\ UNCHANGED hvars => HInv'
<1> SUFFICES ASSUME HInv, UNCHANGED hvars PROVE HInv'
  OBVIOUS
<1>1. IInv'
  BY NextIInv DEF HInv, hvars
<1> QED
  BY <1>1 DEF HInv, hvars, vars, LifeOK, InTime, Life

\* The invariant with its history is inductive.
LEMMA NextHInv == HInv /\ [HNext]_hvars => HInv'
<1>1. ASSUME HInv, Next, Remember PROVE HInv'
  <2>1. IInv'
    BY <1>1, NextIInv DEF HInv
  <2>2. CASE Advance
    BY <1>1, <2>1, <2>2, AdvanceHInv
  <2>3. ASSUME NEW new \in RuleSets, ApplyRuleset(new) PROVE HInv'
    BY <1>1, <2>1, <2>3, ApplyHInv
  <2>4. ASSUME NEW s \in Signals, NEW v \in Values[s], NEW ts \in Stamps, OnSample(s, v, ts)
        PROVE  HInv'
    BY <1>1, <2>1, <2>4, SampleHInv
  <2>5. CASE Tick
    BY <1>1, <2>1, <2>5, TickHInv
  <2> QED
    BY <1>1, <2>2, <2>3, <2>4, <2>5 DEF Next
<1> QED
  BY <1>1, StutterHInv DEF HNext

\* Every reachable state of the engine satisfies the invariant of its history.
THEOREM HistoryInvariance == HSpec => []HInv
BY InitHInv, NextHInv, PTL DEF HSpec

\* A periodic rule of the active set never emitted more than one record per
\* interval since it was defined, for all rule sets, clocks and late ticks.
THEOREM RateIsBounded == HSpec => []RateBound
<1>1. HInv => RateBound
  BY DEF HInv, LifeOK, InTime, RateBound
<1> QED
  BY <1>1, HistoryInvariance, PTL

\* What the engine compares with is what the rule's last record said.
THEOREM LastLoggedIsRecorded == HSpec => []LastLoggedIsLastRecord
<1>1. HInv => LastLoggedIsLastRecord
  BY DEF HInv, LifeOK, LastLoggedIsLastRecord
<1> QED
  BY <1>1, HistoryInvariance, PTL

\* A value does not differ from itself, and anything differs from nothing.
LEMMA Differs ==
  ASSUME NEW s \in Signals, NEW r, r.signal = s, IsRule(r), NEW v \in Values[s]
  PROVE  ~Changed(r, v, v) /\ v # None
<1>1. v # None
  BY CatalogAssumption
<1>2. CASE s \in NumSignals
  <2>1. v \in Int /\ Deadband(r) \in Nat
    BY <1>2, CatalogAssumption DEF IsRule, Deadband
  <2> QED
    BY <1>1, <1>2, <2>1 DEF Changed, Abs
<1>3. CASE s \notin NumSignals
  BY <1>1, <1>3 DEF Changed
<1> QED
  BY <1>2, <1>3, <1>1

\* Of an on_change rule, only a value that differs from the last record is
\* recorded.
THEOREM OnlyChangesLogged == HSpec => LogsOnlyChanges
<1> DEFINE Step == \A r \in Defs(ruleset) : \A x \in RecordsOf(r.id, report') :
                     r.mode = "on_change" => Changed(r, life[r.id].last, x.value)
<1>1. ASSUME HInv, HNext PROVE Step
  <2> SUFFICES ASSUME NEW r \in Defs(ruleset), NEW x \in RecordsOf(r.id, report'),
                      r.mode = "on_change"
               PROVE  Changed(r, life[r.id].last, x.value)
    OBVIOUS
  <2>1. report' # EmptyReport
    BY DEF EmptyReport, RecordsOf
  <2>2. ~Advance /\ \A new \in RuleSets : ~ApplyRuleset(new)
    BY <2>1 DEF Advance, ApplyRuleset
  <2>3. ASSUME Tick PROVE FALSE
    BY <1>1, <2>3, TickRecords DEF HInv, TickLogs, IsDue
  <2>4. PICK s \in Signals : \E v \in Values[s], ts \in Stamps : OnSample(s, v, ts)
    BY <1>1, <2>2, <2>3 DEF HNext, Next
  <2>5. PICK v \in Values[s], ts \in Stamps : OnSample(s, v, ts)
    BY <2>4
  <2>6. Fires(r, s, v, ts) /\ x = Record(r, ts, v)
    <3>1. RecordsOf(r.id, report') = IF Fires(r, s, v, ts) THEN {Record(r, ts, v)} ELSE {}
      BY <1>1, <2>5, SampleRecords DEF HInv
    <3> QED
      BY <3>1
  <2> QED
    BY <1>1, <2>6 DEF Fires, Record, HInv, LifeOK
<1>2. HInv /\ [HNext]_hvars => [Step]_hvars
  BY <1>1
<1> QED
  BY <1>2, HistoryInvariance, PTL DEF HSpec, LogsOnlyChanges

\* No sample is missed: a rule whose condition is true when on_sample returns
\* emitted a value within its deadband of the sample's.
THEOREM SamplesAreCaughtUp == HSpec => CaughtUp
<1> DEFINE Step == \A s \in Signals : \A v \in Values[s], ts \in Stamps :
                     OnSample(s, v, ts) =>
                       \A r \in Defs(ruleset) :
                         r.mode = "on_change" /\ r.signal = s /\ Passes(r, latest')
                           => life'[r.id].last # None /\ ~Changed(r, life'[r.id].last, v)
<1>1. ASSUME HInv, HNext PROVE Step
  <2> SUFFICES ASSUME NEW s \in Signals, NEW v \in Values[s], NEW ts \in Stamps,
                      OnSample(s, v, ts), NEW r \in Defs(ruleset),
                      r.mode = "on_change", r.signal = s, Passes(r, latest')
               PROVE  life'[r.id].last # None /\ ~Changed(r, life'[r.id].last, v)
    OBVIOUS
  <2>1. HInv' /\ ruleset' = ruleset /\ latest' = Sampled(s, v, ts)
    BY <1>1, NextHInv DEF OnSample, Sampled
  <2>2. life'[r.id].last = state'[r.id].last_logged
    BY <2>1 DEF HInv, LifeOK
  <2>3. IsRule(r)
    BY <1>1, ActiveIsRuleSet DEF HInv, IInv, IsRuleSet
  <2>4. CASE Changed(r, state[r.id].last_logged, v)
    <3>1. state'[r.id] = [state[r.id] EXCEPT !.last_logged = v]
      BY <1>1, <2>1, <2>4, SampleLogs DEF HInv
    <3>2. state'[r.id].last_logged = v
      BY <1>1, <3>1 DEF HInv, IInv, TypeOK
    <3> QED
      BY <2>2, <2>3, <3>2, Differs
  <2>5. CASE ~Changed(r, state[r.id].last_logged, v)
    <3>1. state'[r.id] = state[r.id]
      BY <1>1, <2>5, SampleLogs DEF HInv
    <3> QED
      BY <2>2, <2>5, <3>1 DEF Changed
  <2> QED
    BY <2>4, <2>5
<1>2. HInv /\ [HNext]_hvars => [Step]_hvars
  BY <1>1
<1> QED
  BY <1>2, HistoryInvariance, PTL DEF HSpec, CaughtUp
=============================================================================
