-------------------------------- MODULE Rules -------------------------------
(***************************************************************************)
(* Compiled rules as crates/rules/src/compile.rs and condition.rs hand     *)
(* them to the engine, and what one rule means: when a value counts as     *)
(* changed, when a condition passes or fails.                              *)
(*                                                                         *)
(* A signal value is an integer for the signals of NumSignals and a label  *)
(* (enum or bool) for the others.  A condition is modelled by what its     *)
(* evaluation does: the signals it reads, the valuations on which it is    *)
(* true and the valuations on which it fails at run time.                  *)
(***************************************************************************)
EXTENDS Integers, Sequences

CONSTANTS
  Signals,      \* signal names of the catalog
  NumSignals,   \* those that decode to numbers
  Values,       \* Values[s]: the values a sample of signal s may carry
  Stamps,       \* vehicle timestamps a sample may carry
  RuleSets,     \* the compiled rule sets that may be applied
  None,         \* Rust's None
  MIN_INTERVAL_MS,  \* the shortest interval validation accepts
  U64Max,       \* u64::MAX, where the saturating operations stop
  MaxTime       \* bound on the clock (finite for TLC)

Ids(rs) == {rs.rules[i].id : i \in DOMAIN rs.rules}
Defs(rs) == {rs.rules[i] : i \in DOMAIN rs.rules}

\* A rule as it is left by validation.
IsRule(r) ==
  /\ r.signal \in Signals
  /\ \/ /\ r.mode = "on_change"
        /\ r.deadband = None \/ (r.deadband \in Nat /\ r.signal \in NumSignals)
        /\ r.interval_ms = None /\ r.max_age_ms = None
     \/ /\ r.mode = "periodic"
        /\ r.interval_ms \in MIN_INTERVAL_MS..U64Max
        /\ r.max_age_ms \in (1..U64Max) \cup {None}
        /\ r.deadband = None
  /\ r.condition # None => r.condition.signals \subseteq Signals

IsRuleSet(rs) ==
  /\ rs.rules \in Seq(Defs(rs))
  /\ \A i \in DOMAIN rs.rules : IsRule(rs.rules[i])
  /\ \A i, j \in DOMAIN rs.rules : rs.rules[i].id = rs.rules[j].id => i = j

ASSUME CatalogAssumption ==
  /\ NumSignals \subseteq Signals
  /\ \A s \in Signals : None \notin Values[s]
  /\ \A s \in NumSignals : Values[s] \subseteq Int

ASSUME RuleSetAssumption == \A rs \in RuleSets : IsRuleSet(rs)

ASSUME TimeAssumption ==
  /\ MaxTime \in Nat /\ U64Max \in Nat /\ MaxTime < U64Max
  /\ MIN_INTERVAL_MS \in 1..U64Max /\ None \notin Int
-----------------------------------------------------------------------------
\* Bugs: plain addition, where the code saturates; addition that wraps.
SatAdd_Plain(a, b) == a + b
SatAdd_Wraps(a, b) == (a + b) % (U64Max + 1)

SatAdd(a, b) == IF a + b > U64Max THEN U64Max ELSE a + b
SatMul(a, b) == IF a * b > U64Max THEN U64Max ELSE a * b
Abs(x) == IF x < 0 THEN -x ELSE x

Deadband(r) == IF r.deadband = None THEN 0 ELSE r.deadband
MaxAge(r) == IF r.max_age_ms = None THEN SatMul(r.interval_ms, 3)
             ELSE r.max_age_ms

EmptyRuleSet == [version |-> 0, rules |-> <<>>]
EmptyReport == [records |-> {}, eval_errors |-> {}, stale_skips |-> {}]

\* A referenced signal without a value makes the condition false, not an error.
Known(c, lat) == \A s \in c.signals : lat[s] # None
Valuation(c, lat) == [s \in c.signals |-> lat[s].value]

Passes(r, lat) ==
  r.condition = None \/ /\ Known(r.condition, lat)
                        /\ Valuation(r.condition, lat) \in r.condition.holds

Fails(r, lat) ==
  r.condition # None /\ Known(r.condition, lat)
                     /\ Valuation(r.condition, lat) \in r.condition.fails

Changed(r, last, new) ==
  \/ last = None
  \/ r.signal \in NumSignals /\ Abs(new - last) > Deadband(r)
  \/ r.signal \notin NumSignals /\ new # last
=============================================================================
