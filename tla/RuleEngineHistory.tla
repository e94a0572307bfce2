-------------------------- MODULE RuleEngineHistory -------------------------
(***************************************************************************)
(* RuleEngine with a history of what each rule has emitted since the       *)
(* definition it has now became active: life[id] holds when that was, how  *)
(* many records a periodic rule emitted since (those of an on_change rule  *)
(* have no bound), and the value of the last record.  It is computed from  *)
(* the rule sets and the reports alone, so that it tells what a reader of  *)
(* the telemetry file sees, and not what the engine believes.              *)
(***************************************************************************)
EXTENDS RuleEngine

VARIABLE life

hvars == <<vars, life>>

Born == [since |-> now', count |-> 0, last |-> None]

RecordsOf(id, rep) == {x \in rep.records : x.rule_id = id}

Lived(id) ==
  IF DefOf(ruleset', id) \in Defs(ruleset) THEN life[id] ELSE Born

Emitted(r, x) ==
  [Lived(r.id) EXCEPT !.count = IF r.mode = "periodic" THEN @ + 1 ELSE @,
                      !.last  = x.value]

Remember ==
  life' = [id \in Ids(ruleset') |->
             IF RecordsOf(id, report') = {} THEN Lived(id)
             ELSE Emitted(DefOf(ruleset', id),
                          CHOOSE x \in RecordsOf(id, report') : TRUE)]

HInit == Init /\ life = [id \in {} |-> None]
HNext == Next /\ Remember
HSpec == HInit /\ [][HNext]_hvars
-----------------------------------------------------------------------------
\* However late ticks come and whichever swaps it survives, a periodic rule
\* emits at most one record per interval since it was defined.
RateBound ==
  \A r \in Defs(ruleset) :
    r.mode = "periodic" =>
      life[r.id].count * r.interval_ms <= now - life[r.id].since

\* What the engine compares new values with is the value of the last record the
\* rule emitted: a suppressed log does not update it, a swap neither forgets
\* it nor hands it to another definition.
LastLoggedIsLastRecord ==
  \A r \in Defs(ruleset) : state[r.id].last_logged = life[r.id].last

\* An on_change rule never emits a value that does not differ, by more than
\* the deadband, from the one it emitted before.
LogsOnlyChanges ==
  [][\A r \in Defs(ruleset) : \A x \in RecordsOf(r.id, report') :
       r.mode = "on_change" => Changed(r, life[r.id].last, x.value)]_hvars

\* A sample is never missed: once on_sample returns, no on_change rule of the
\* signal whose condition is true of the values known by then, the new sample
\* included, is further than its deadband from what it emitted.
CaughtUp ==
  [][\A s \in Signals : \A v \in Values[s], ts \in Stamps :
       OnSample(s, v, ts) =>
         \A r \in Defs(ruleset) :
           r.mode = "on_change" /\ r.signal = s /\ Passes(r, latest')
             => life'[r.id].last # None /\ ~Changed(r, life'[r.id].last, v)]_hvars
=============================================================================
