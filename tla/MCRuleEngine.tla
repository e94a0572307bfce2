---------------------------- MODULE MCRuleEngine ----------------------------
(***************************************************************************)
(* A small vehicle for RuleEngine: a numeric signal that drifts, a gear,   *)
(* and rule sets that add, remove, reorder and redefine rules, one of them *)
(* by giving an old id another mode.                                       *)
(***************************************************************************)
EXTENDS RuleEngine

CONSTANTS Park, Drive

MCSignals == {"speed", "gear"}
MCNumSignals == {"speed"}
MCValues == [speed |-> 0..2, gear |-> {Park, Drive}]

OnChange(id, signal, deadband, condition) ==
  [id |-> id, signal |-> signal, mode |-> "on_change", deadband |-> deadband,
   interval_ms |-> None, max_age_ms |-> None, condition |-> condition]
Periodic(id, signal, interval, age, condition) ==
  [id |-> id, signal |-> signal, mode |-> "periodic", deadband |-> None,
   interval_ms |-> interval, max_age_ms |-> age, condition |-> condition]

\* gear == 'D'
Driving == [signals |-> {"gear"}, holds |-> {[gear |-> Drive]}, fails |-> {}]
\* speed < 2 && gear == 'D', for a rule on speed: the sample that triggers it
\* decides its condition.
Crawling ==
  [signals |-> {"speed", "gear"},
   holds   |-> {[speed |-> v, gear |-> Drive] : v \in 0..1},
   fails   |-> {}]
\* speed > 1 || gear > 0: an enum compared with a number fails at run time
\* unless the first operand decides.
Mistyped ==
  [signals |-> {"speed", "gear"},
   holds   |-> {[speed |-> 2, gear |-> g] : g \in {Park, Drive}},
   fails   |-> {[speed |-> v, gear |-> g] : v \in 0..1, g \in {Park, Drive}}]

SpeedChange == OnChange("a", "speed", 1, None)
SpeedEvery2 == Periodic("a", "speed", 2, 1, None)
SpeedEvery3 == Periodic("a", "speed", 3, None, None)
GearChange  == OnChange("b", "gear", None, None)
LowSpeed    == OnChange("b", "speed", None, Crawling)
GearPoll    == Periodic("p", "gear", 1, None, Mistyped)
Never       == Periodic("q", "gear", U64Max, None, Driving)

MCRuleSets == {[version |-> 1, rules |-> <<SpeedChange, GearChange>>],
               [version |-> 2, rules |-> <<LowSpeed, SpeedEvery2, Never>>],
               [version |-> 3, rules |-> <<SpeedEvery3>>],
               [version |-> 4, rules |-> <<GearPoll, LowSpeed, SpeedChange>>]}
=============================================================================
