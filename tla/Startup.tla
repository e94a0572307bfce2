------------------------------- MODULE Startup ------------------------------
(***************************************************************************)
(* How telemetryd comes to its first rule set: the configuration, the      *)
(* catalog and the rules are loaded (crates/telemetryd/src/main.rs), and   *)
(* compile_ruleset validates the rules one by one and walks the syntax     *)
(* tree of each condition (crates/rules/src/compile.rs, condition.rs).     *)
(*                                                                         *)
(* A condition is its length and its syntax tree, None if it is blank or   *)
(* does not parse.  A tree is the sequence of its nodes, the root first,   *)
(* each with the indices of its arguments, later nodes.                    *)
(***************************************************************************)
EXTENDS Catalog

CONSTANTS
  Configs,              \* configurations, with the documents their paths lead to
  Actives,              \* active_version: main passes None, an update the version
  ANY_MODEL, MAX_RULES, MIN_INTERVAL_MS,
  MAX_CONDITION_CHARS, MAX_CONDITION_DEPTH,
  AllowedOperators,     \* ALLOWED_OPERATORS
  BadIds,               \* rule ids that do not match ^[a-z0-9_]{1,64}$
  MIN_FILE_BYTES,       \* 1024
  Unreadable,           \* a document that is not there or does not parse
  U64Max,
  MayFail               \* whether the rule-compiler thread may fail

VARIABLES
  config, active,
  catalog,   \* None until it is loaded
  phase,     \* what startup is about to do, or how it ended
  at,        \* the index of the rule that is compiled
  compiled,  \* the rules compiled so far
  errors,    \* the errors of compile_ruleset itself
  found,     \* the errors of the rule-compiler thread
  stack,     \* check_ast: nodes to visit, each with its depth
  signals    \* check_ast: the signals met

\* Each node but the root is an argument of exactly one node, an earlier one.
IsTree(ast) ==
  /\ ast \in Seq(Range(ast)) /\ ast # <<>>
  /\ \A i \in DOMAIN ast : ast[i].args \in Seq(i + 1..Len(ast))
  /\ \A n \in 2..Len(ast) : \E i \in DOMAIN ast : n \in Range(ast[i].args)
  /\ \A i, j \in DOMAIN ast : Range(ast[i].args) \cap Range(ast[j].args) # {} => i = j

\* A rule as it is parsed, whether it is valid or not.
IsRuleDoc(r) ==
  /\ r.interval_ms \in (0..U64Max) \cup {None} /\ r.max_age_ms \in (0..U64Max) \cup {None}
  /\ r.deadband \in Int \cup {NonFinite, None}
  /\ r.condition # None /\ r.condition.ast # None => IsTree(r.condition.ast)

ASSUME StartupAssumption ==
  /\ MIN_INTERVAL_MS \in Nat /\ U64Max \in Nat
  /\ None \notin {"invalid_rule", "invalid_condition"}
  /\ \A c \in Configs : c.rules_file \notin {None, Unreadable} =>
       /\ c.rules_file.rules \in Seq(Range(c.rules_file.rules))
       /\ \A r \in Range(c.rules_file.rules) : IsRuleDoc(r)

vars == <<config, active, catalog, phase, at, compiled, errors, found, stack, signals>>

Final == {"running", "failed", "rejected"}
Doc == config.rules_file
RuleAt == Doc.rules[at]
Ast == RuleAt.condition.ast
Error(reason, rule) == [reason |-> reason, rule |-> rule]

Init ==
  /\ config \in Configs /\ active \in Actives
  /\ catalog = None /\ phase = "config" /\ at = 1
  /\ compiled = <<>> /\ errors = <<>> /\ found = <<>>
  /\ stack = <<>> /\ signals = {}
-----------------------------------------------------------------------------
(* main.rs and config.rs *)

ConfigOk(c) ==
  c.vin # "" /\ c.model # "" /\ c.max_file_bytes >= MIN_FILE_BYTES /\ c.max_files >= 1

LoadConfig ==
  /\ phase = "config"
  /\ phase' = IF ConfigOk(config) THEN "catalog" ELSE "failed"
  /\ UNCHANGED <<config, active, catalog, at, compiled, errors, found, stack, signals>>

CatalogOk ==
  /\ config.catalog # Unreadable
  /\ CatalogError(config.catalog) = None
  /\ config.catalog.model = config.model

LoadCatalog ==
  /\ phase = "catalog"
  /\ IF CatalogOk
     THEN phase' = "rules" /\ catalog' = NewCatalog(config.catalog)
     ELSE phase' = "failed" /\ UNCHANGED catalog
  /\ UNCHANGED <<config, active, at, compiled, errors, found, stack, signals>>

\* Without a rules_file the daemon runs with the empty rule set.
LoadRules ==
  /\ phase = "rules"
  /\ phase' = CASE Doc = None -> "running"
                [] Doc = Unreadable -> "failed"
                [] OTHER -> "set"
  /\ UNCHANGED <<config, active, catalog, at, compiled, errors, found, stack, signals>>
-----------------------------------------------------------------------------
(* compile_ruleset *)

SetErrors ==
  (IF active # None /\ Doc.ruleset_version <= active
   THEN <<Error("not_newer", None)>> ELSE <<>>)
  \o (IF Doc.model \notin {ANY_MODEL, config.model}
      THEN <<Error("model_mismatch", None)>> ELSE <<>>)
  \o (IF Len(Doc.rules) > MAX_RULES THEN <<Error("too_many_rules", None)>> ELSE <<>>)

CheckSet ==
  /\ phase = "set"
  /\ errors' = SetErrors
  /\ phase' = IF Len(Doc.rules) > MAX_RULES THEN "rejected" ELSE "rule"
  /\ UNCHANGED <<config, active, catalog, at, compiled, found, stack, signals>>

\* A bug: an id is only compared with the one before.
Duplicate_Neighbour == at > 1 /\ Doc.rules[at - 1].id = RuleAt.id

Duplicate == \E j \in 1..at - 1 : Doc.rules[j].id = RuleAt.id

\* The checks of compile_rule up to the condition.
RuleOk(r) ==
  /\ r.id \notin BadIds
  /\ ByName(catalog, r.signal) # None
  /\ \/ /\ r.mode = "on_change"
        /\ r.interval_ms = None /\ r.max_age_ms = None
        /\ r.deadband # None =>
             /\ r.deadband # NonFinite /\ r.deadband >= 0
             /\ Kind(ByName(catalog, r.signal)) = "Num"
     \/ /\ r.mode = "periodic"
        /\ r.deadband = None /\ r.interval_ms # None
        /\ r.interval_ms >= MIN_INTERVAL_MS /\ r.max_age_ms # 0

\* The checks of Condition::compile before the tree is walked.
SourceOk(c) == c.chars <= MAX_CONDITION_CHARS /\ c.ast # None

Compile(r, c) ==
  [id |-> r.id, signal |-> r.signal, mode |-> r.mode, interval_ms |-> r.interval_ms,
   max_age_ms |-> r.max_age_ms, deadband |-> r.deadband, condition |-> c]

\* A bug: a rule that fails is kept as well.
Fails_Kept(reason) ==
  /\ found' = Append(found, Error(reason, at))
  /\ compiled' = Append(compiled, Compile(RuleAt, None))
  /\ at' = at + 1 /\ phase' = "rule"

Fails(reason) ==
  /\ found' = Append(found, Error(reason, at))
  /\ at' = at + 1 /\ phase' = "rule"
  /\ UNCHANGED compiled

Succeeds(c) ==
  /\ compiled' = Append(compiled, Compile(RuleAt, c))
  /\ at' = at + 1 /\ phase' = "rule"
  /\ UNCHANGED found

CompileRule ==
  /\ phase = "rule" /\ at <= Len(Doc.rules)
  /\ \/ /\ Duplicate \/ ~RuleOk(RuleAt)
        /\ Fails("invalid_rule")
        /\ UNCHANGED <<stack, signals>>
     \/ /\ ~Duplicate /\ RuleOk(RuleAt) /\ RuleAt.condition = None
        /\ Succeeds(None)
        /\ UNCHANGED <<stack, signals>>
     \/ /\ ~Duplicate /\ RuleOk(RuleAt)
        /\ RuleAt.condition # None /\ ~SourceOk(RuleAt.condition)
        /\ Fails("invalid_condition")
        /\ UNCHANGED <<stack, signals>>
     \/ /\ ~Duplicate /\ RuleOk(RuleAt)
        /\ RuleAt.condition # None /\ SourceOk(RuleAt.condition)
        /\ phase' = "walk" /\ stack' = <<<<1, 1>>>> /\ signals' = {}
        /\ UNCHANGED <<at, compiled, found>>
  /\ UNCHANGED <<config, active, catalog, errors>>
-----------------------------------------------------------------------------
(* check_ast *)

NodeOk(n) ==
  \/ n.tag = "Ident" /\ ByName(catalog, n.arg) # None
  \/ n.tag = "Literal" /\ n.arg \notin {"bytes", "null"}
  \/ n.tag = "Call" /\ n.arg \in AllowedOperators

Top == Last(stack)
Args == Ast[Top[1]].args
AtDepth(nodes, d) == [k \in DOMAIN nodes |-> <<nodes[k], d>>]

\* A bug: the arguments replace what was still to be visited.
Pushed_Replace == AtDepth(Args, Top[2] + 1)

\* A bug: the node visited stays on the stack.
Pushed_NoPop == stack \o AtDepth(Args, Top[2] + 1)

\* A bug: the depth is not carried down.
Pushed_Flat == Front(stack) \o AtDepth(Args, Top[2])

Pushed == Front(stack) \o AtDepth(Args, Top[2] + 1)

VisitOk == Top[2] <= MAX_CONDITION_DEPTH /\ NodeOk(Ast[Top[1]])

Visit ==
  /\ phase = "walk" /\ stack # <<>> /\ VisitOk
  /\ stack' = Pushed
  /\ signals' = signals \cup IF Ast[Top[1]].tag = "Ident" THEN {Ast[Top[1]].arg} ELSE {}
  /\ UNCHANGED <<config, active, catalog, phase, at, compiled, errors, found>>

VisitFails ==
  /\ phase = "walk" /\ stack # <<>> /\ ~VisitOk
  /\ Fails("invalid_condition")
  /\ stack' = <<>> /\ signals' = {}
  /\ UNCHANGED <<config, active, catalog, errors>>

WalkEnds ==
  /\ phase = "walk" /\ stack = <<>>
  /\ Succeeds([signals |-> signals])
  /\ signals' = {}
  /\ UNCHANGED <<config, active, catalog, errors, stack>>
-----------------------------------------------------------------------------
(* The end of compile_ruleset: the thread is joined *)

Join ==
  /\ phase = "rule" /\ at > Len(Doc.rules)
  /\ errors' = errors \o found
  /\ phase' = IF errors' = <<>> THEN "running" ELSE "rejected"
  /\ UNCHANGED <<config, active, catalog, at, compiled, found, stack, signals>>

Parses == ~Duplicate /\ RuleOk(RuleAt) /\ RuleAt.condition # None
            /\ RuleAt.condition.chars <= MAX_CONDITION_CHARS

\* with_big_stack: the thread cannot be started, or it panics in the parser of
\* a condition, and what it found is lost.
ThreadFails ==
  /\ MayFail /\ phase = "rule"
  /\ at = 1 \/ (at <= Len(Doc.rules) /\ Parses)
  /\ errors' = Append(errors, Error("internal", None))
  /\ phase' = "rejected"
  /\ UNCHANGED <<config, active, catalog, at, compiled, found, stack, signals>>

Next == \/ LoadConfig \/ LoadCatalog \/ LoadRules
        \/ CheckSet \/ CompileRule \/ Visit \/ VisitFails \/ WalkEnds \/ Join \/ ThreadFails

Spec == Init /\ [][Next]_vars /\ WF_vars(Next)
-----------------------------------------------------------------------------
(* The same, by definition *)

Parent(ast, n) == CHOOSE i \in DOMAIN ast : n \in Range(ast[i].args)

Depth(ast) ==
  LET depth[n \in DOMAIN ast] == IF n = 1 THEN 1 ELSE depth[Parent(ast, n)] + 1
  IN  depth

ConditionOk(c) ==
  c # None =>
    /\ SourceOk(c)
    /\ \A i \in DOMAIN c.ast : NodeOk(c.ast[i]) /\ Depth(c.ast)[i] <= MAX_CONDITION_DEPTH

Idents(ast) == {ast[i].arg : i \in {k \in DOMAIN ast : ast[k].tag = "Ident"}}

\* The reason rule i is rejected for, or None.
Verdict(i) ==
  LET r == Doc.rules[i]
  IN  IF (\E j \in 1..i - 1 : Doc.rules[j].id = r.id) \/ ~RuleOk(r) THEN "invalid_rule"
      ELSE IF ~ConditionOk(r.condition) THEN "invalid_condition"
      ELSE None

Read == Doc \notin {None, Unreadable}
Accepted == phase = "running" /\ Doc # None

\* Type invariant.
TypeOK ==
  /\ phase \in Final \cup {"config", "catalog", "rules", "set", "rule", "walk"}
  /\ Read => at \in 1..Len(Doc.rules) + 1
  /\ phase = "walk" => \A k \in DOMAIN stack : stack[k] \in (DOMAIN Ast) \X Nat
  /\ phase \in {"rule", "walk"} => Len(compiled) + Len(found) = at - 1

\* es reports each of the first n rules that fails a check, once, in order and
\* for the right reason, and nothing else.
Reports(es, n) ==
  /\ \A k \in DOMAIN es :
       LET i == es[k].rule
       IN  i \in 1..n /\ Verdict(i) # None /\ es[k] = Error(Verdict(i), i)
  /\ \A i \in 1..n : Verdict(i) # None => \E k \in DOMAIN es : es[k].rule = i
  /\ \A k, l \in DOMAIN es : k < l => es[k].rule < es[l].rule

\* Every rule that fails a check is reported, once, in order and for the right
\* reason, after what is wrong with the set as a whole, unless the compiler
\* thread fails; and a set is accepted exactly if nothing is wrong with it.  In
\* particular the walk of a condition visits every node at its true depth.
ReportsExactly ==
  phase \in {"running", "rejected"} /\ Doc # None =>
    /\ phase = "running" <=> errors = <<>>
    /\ IF Len(Doc.rules) > MAX_RULES THEN errors = SetErrors
       ELSE \/ errors = SetErrors \o found /\ Reports(found, Len(Doc.rules))
            \/ errors = Append(SetErrors, Error("internal", None))

SignalNames == DOMAIN catalog.by_name

Compiled == INSTANCE Rules WITH
  Signals <- SignalNames,
  NumSignals <- {n \in SignalNames : Kind(ByName(catalog, n)) = "Num"},
  Values <- [n \in SignalNames |-> {}], Stamps <- {}, RuleSets <- {}, MaxTime <- 0

\* What reaches the engine is what the engine assumes of a rule set: unique
\* ids, fields that fit the mode, a deadband on numbers only, and signals that
\* the catalog of this very vehicle has.
EngineGetsRuleSet ==
  Accepted => /\ Compiled!IsRuleSet([version |-> Doc.ruleset_version, rules |-> compiled])
              /\ config.catalog.model = config.model

\* Each rule of an accepted set is compiled, at its place, and its condition
\* reads exactly the signals that occur in it: with one missing, evaluation
\* would fail at run time instead of being false.
CompiledFaithfully ==
  Accepted =>
    /\ Len(compiled) = Len(Doc.rules)
    /\ \A i \in DOMAIN compiled :
         LET c == Doc.rules[i].condition
         IN  /\ compiled[i].id = Doc.rules[i].id
             /\ compiled[i].condition =
                  IF c = None THEN None ELSE [signals |-> Idents(c.ast)]

\* Whatever the documents hold, startup comes to an end.
Ends == <>(phase \in Final)
=============================================================================
