------------------------- MODULE MCRuleEngineHistory ------------------------
(***************************************************************************)
(* RuleEngineHistory on the rule sets of MCRuleEngine.                     *)
(***************************************************************************)
EXTENDS RuleEngineHistory, MCRuleEngine
=============================================================================
