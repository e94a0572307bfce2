---------------------------- MODULE MCEngineTask ----------------------------
(* EngineTask with two periodic rules, one with a short max_age_ms, and an   *)
(* on_change rule on the same signal.                                        *)
EXTENDS EngineTask

MCValues == [speed |-> 0..1]

Rul(id, mode, interval, age) ==
  [id |-> id, signal |-> "speed", mode |-> mode, deadband |-> None,
   interval_ms |-> interval, max_age_ms |-> age, condition |-> None]

MCRuleSets ==
  {[version |-> 1, rules |-> <<Rul("p", "periodic", 1, 1), Rul("c", "on_change", None, None),
                               Rul("q", "periodic", 2, None)>>],
   [version |-> 2, rules |-> <<Rul("c", "on_change", None, None)>>]}
=============================================================================
