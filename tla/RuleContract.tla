---------------------------- MODULE RuleContract ----------------------------
(***************************************************************************)
(* What the rule engine promises, with neither rule ids nor indices: every *)
(* active DEFINITION remembers the value it logged last and, if periodic,  *)
(* when it is due next, from the swap that brought it in to the swap that  *)
(* takes it out.  A poll of a due rule moves its slot at least one         *)
(* interval on, past now and at most one interval away; which of these     *)
(* slots it takes is left open.                                            *)
(***************************************************************************)
EXTENDS Rules

VARIABLES
  now,      \* the clock
  version,  \* version of the active set
  memory,   \* active definition -> what it remembers
  latest,   \* the latest sample of every signal
  records   \* what the last operation logged

cvars == <<now, version, memory, latest, records>>

Record(r, sample) ==
  [ts_us |-> sample.timestamp_us, rule_id |-> r.id, ruleset_version |-> version,
   signal |-> r.signal, value |-> sample.value]

New(r) ==
  [last |-> None,
   due  |-> IF r.mode = "periodic" THEN SatAdd(now, r.interval_ms) ELSE None]

Init ==
  /\ now = 0
  /\ version = 0
  /\ memory = [r \in {} |-> None]
  /\ latest = [s \in Signals |-> None]
  /\ records = {}

Elapse ==
  /\ now' \in (now + 1)..MaxTime
  /\ records' = {}
  /\ UNCHANGED <<version, memory, latest>>

Swap(new) ==
  /\ memory' = [r \in Defs(new) |-> IF r \in DOMAIN memory THEN memory[r] ELSE New(r)]
  /\ version' = new.version
  /\ records' = {}
  /\ UNCHANGED <<now, latest>>

Remembers(logged) ==
  \A r \in DOMAIN memory :
    memory'[r].last = IF r \in logged THEN latest'[r.signal].value ELSE memory[r].last

Receive(s, v, ts) ==
  LET sample == [value |-> v, timestamp_us |-> ts, received_ms |-> now]
      known  == [latest EXCEPT ![s] = sample]
      logged == {r \in DOMAIN memory : /\ r.mode = "on_change"
                                       /\ r.signal = s
                                       /\ Changed(r, memory[r].last, v)
                                       /\ Passes(r, known)}
  IN  /\ latest' = known
      /\ DOMAIN memory' = DOMAIN memory
      /\ Remembers(logged)
      /\ \A r \in DOMAIN memory : memory'[r].due = memory[r].due
      /\ records' = {Record(r, sample) : r \in logged}
      /\ UNCHANGED <<now, version>>

Late == {r \in DOMAIN memory : memory[r].due # None /\ memory[r].due <= now}

Recent(r) == /\ latest[r.signal] # None
             /\ now - latest[r.signal].received_ms <= MaxAge(r)

Poll ==
  LET logged == {r \in Late : Recent(r) /\ Passes(r, latest)}
  IN  /\ DOMAIN memory' = DOMAIN memory
      /\ Remembers(logged)
      /\ \A r \in DOMAIN memory \ Late : memory'[r].due = memory[r].due
      /\ \A r \in Late :
           /\ memory'[r].due > now
           /\ memory'[r].due >= SatAdd(memory[r].due, r.interval_ms)
           /\ memory'[r].due <= SatAdd(now, r.interval_ms)
      /\ records' = {Record(r, latest[r.signal]) : r \in logged}
      /\ UNCHANGED <<now, version, latest>>

Next ==
  \/ Elapse
  \/ \E new \in RuleSets : Swap(new)
  \/ \E s \in Signals : \E v \in Values[s], ts \in Stamps : Receive(s, v, ts)
  \/ Poll

Spec == Init /\ [][Next]_cvars
=============================================================================
