---------------------------- MODULE StartupProofs ---------------------------
(***************************************************************************)
(* Proofs about Startup, for all documents: the walk over a condition      *)
(* comes to the verdict that the definition gives, whatever the tree, so   *)
(* that every faulty rule is reported and the rules of an accepted set are *)
(* what the engine assumes.                                                *)
(***************************************************************************)
EXTENDS Startup, SequenceTheorems, WellFoundedInduction, TLAPS

-----------------------------------------------------------------------------
(* The inductive invariant *)

\* What rule i compiles to if it passes every check.
CompiledOf(i) ==
  LET r == Doc.rules[i]
  IN  Compile(r, IF r.condition = None THEN None ELSE [signals |-> Idents(r.condition.ast)])

RuleErrors == {Error(Verdict(i), i) : i \in DOMAIN Doc.rules}
CompiledRules == {CompiledOf(i) : i \in {k \in DOMAIN Doc.rules : Verdict(k) = None}}

\* Rules 1..n have been compiled.
Done(n) ==
  /\ compiled \in Seq(CompiledRules) /\ found \in Seq(RuleErrors)
  /\ Len(compiled) + Len(found) = n
  /\ Reports(found, n)
  /\ found = <<>> =>
       \A i \in 1..n : Verdict(i) = None /\ compiled[i] = CompiledOf(i)

Open == {t[1] : t \in Range(stack)}

\* V has been visited: what hangs below it was visited too or is on the stack.
Visited(V) ==
  /\ 1 \in V \cup Open
  /\ \A n \in V : /\ NodeOk(Ast[n]) /\ Depth(Ast)[n] <= MAX_CONDITION_DEPTH
                  /\ Range(Ast[n].args) \subseteq V \cup Open
  /\ signals = {Ast[n].arg : n \in {m \in V : Ast[m].tag = "Ident"}}

Walking ==
  /\ ~Duplicate /\ RuleOk(RuleAt)
  /\ RuleAt.condition # None /\ SourceOk(RuleAt.condition)
  /\ stack \in Seq((DOMAIN Ast) \X Nat)
  /\ \A t \in Range(stack) : t[2] = Depth(Ast)[t[1]]
  /\ \E V \in SUBSET DOMAIN Ast : Visited(V)

Loaded == CatalogOk /\ catalog = NewCatalog(config.catalog)
Fits == ~(Len(Doc.rules) > MAX_RULES)

Outcome ==
  /\ phase = "running" <=> errors = <<>>
  /\ \/ ~Fits /\ phase = "rejected" /\ errors = SetErrors
     \/ Fits /\ errors = SetErrors \o found /\ at = Len(Doc.rules) + 1 /\ Done(at - 1)
     \/ Fits /\ phase = "rejected" /\ errors = Append(SetErrors, Error("internal", None))

\* The invariant.
SInv ==
  /\ config \in Configs
  /\ phase \in Final \cup {"config", "catalog", "rules", "set", "rule", "walk"}
  /\ phase \in {"config", "catalog", "rules", "set"} =>
       at = 1 /\ compiled = <<>> /\ found = <<>>
  /\ Read => at \in 1..Len(Doc.rules) + 1
  /\ phase \in {"rules", "set", "rule", "walk", "running", "rejected"} => Loaded
  /\ phase \in {"set", "rule", "walk", "rejected"} => Read
  /\ phase = "running" => Doc # Unreadable
  /\ phase \in {"rule", "walk"} => Fits /\ errors = SetErrors /\ Done(at - 1)
  /\ phase = "walk" => at <= Len(Doc.rules) /\ Walking
  /\ phase \in {"running", "rejected"} /\ Doc # None => Outcome
-----------------------------------------------------------------------------
(* Trees and stacks *)

LEMMA LeastNatural ==
  ASSUME NEW S \in SUBSET Nat, S # {}
  PROVE  \E d \in S : \A e \in S : d <= e
<1>1. PICK d \in S : \A e \in S : <<e, d>> \notin OpToRel(<, Nat)
  BY NatLessThanWellFounded, WFMin
<1>2. \A e \in S : ~(e < d)
  BY <1>1 DEF OpToRel
<1> QED
  BY <1>2

LEMMA TreeFacts ==
  ASSUME NEW ast, IsTree(ast)
  PROVE  /\ Len(ast) \in Nat /\ DOMAIN ast = 1..Len(ast) /\ 1 \in DOMAIN ast
         /\ \A i \in DOMAIN ast : /\ ast[i].args \in Seq(DOMAIN ast)
                                  /\ Range(ast[i].args) \subseteq i + 1..Len(ast)
         /\ \A n \in DOMAIN ast \ {1} :
              /\ Parent(ast, n) \in 1..n - 1 /\ n \in Range(ast[Parent(ast, n)].args)
              /\ \A i \in DOMAIN ast : n \in Range(ast[i].args) => i = Parent(ast, n)
<1>1. Len(ast) \in Nat /\ DOMAIN ast = 1..Len(ast) /\ 1 \in DOMAIN ast
  BY EmptySeq DEF IsTree
<1>2. ASSUME NEW i \in DOMAIN ast
      PROVE  /\ ast[i].args \in Seq(DOMAIN ast)
             /\ Range(ast[i].args) \subseteq i + 1..Len(ast)
  <2>1. ast[i].args \in Seq(i + 1..Len(ast))
    BY DEF IsTree
  <2>2. i + 1..Len(ast) \subseteq DOMAIN ast
    BY <1>1
  <2> QED
    BY <2>1, <2>2, SeqMonotonic, RangeOfSeq
<1>3. ASSUME NEW n \in DOMAIN ast \ {1}
      PROVE  /\ Parent(ast, n) \in 1..n - 1 /\ n \in Range(ast[Parent(ast, n)].args)
             /\ \A i \in DOMAIN ast : n \in Range(ast[i].args) => i = Parent(ast, n)
  <2>1. \E i \in DOMAIN ast : n \in Range(ast[i].args)
    BY <1>1 DEF IsTree
  <2>2. Parent(ast, n) \in DOMAIN ast /\ n \in Range(ast[Parent(ast, n)].args)
    BY <2>1 DEF Parent
  <2>3. n \in Parent(ast, n) + 1..Len(ast)
    BY <2>2, <1>2
  <2>4. ASSUME NEW i \in DOMAIN ast, n \in Range(ast[i].args)
        PROVE  i = Parent(ast, n)
    BY <2>2, <2>4 DEF IsTree
  <2> QED
    BY <2>2, <2>3, <2>4, <1>1
<1> QED
  BY <1>1, <1>2, <1>3

\* Depth is what it is meant to be: 1 at the root, one more at each argument.
LEMMA DepthFacts ==
  ASSUME NEW ast, IsTree(ast)
  PROVE  /\ Depth(ast) \in [DOMAIN ast -> Nat] /\ Depth(ast)[1] = 1
         /\ \A i \in DOMAIN ast : \A n \in Range(ast[i].args) :
              n \in DOMAIN ast /\ Depth(ast)[n] = Depth(ast)[i] + 1
<1> DEFINE Up(f, n) == IF n = 1 THEN 1 ELSE f[Parent(ast, n)] + 1
           Good(f, m) == f \in [1..m -> Nat] /\ \A n \in 1..m : f[n] = Up(f, n)
           Bad == {m \in 0..Len(ast) : \A f : ~Good(f, m)}
<1>0. /\ Len(ast) \in Nat /\ DOMAIN ast = 1..Len(ast) /\ 1 \in DOMAIN ast
      /\ \A n \in DOMAIN ast \ {1} : Parent(ast, n) \in 1..n - 1
  BY TreeFacts
<1>a. \A m : m \in Bad <=> m \in 0..Len(ast) /\ \A f : ~Good(f, m)
  OBVIOUS
<1>b. Bad \in SUBSET Nat
  BY <1>0, <1>a
<1> HIDE DEF Bad
<1>1. Bad = {}
  <2> SUFFICES ASSUME Bad # {} PROVE FALSE
    OBVIOUS
  <2>1. PICK m \in Bad : \A e \in Bad : m <= e
    BY <1>b, LeastNatural
  <2>a. m \in 0..Len(ast) /\ \A f : ~Good(f, m)
    BY <1>a
  <2>2. m # 0
    <3>1. Good([n \in 1..0 |-> 0], 0)
      OBVIOUS
    <3> QED
      BY <3>1, <2>a
  <2>3. m - 1 \in 0..Len(ast) /\ m - 1 \notin Bad /\ m \in 1..Len(ast)
    BY <1>0, <2>a, <2>1, <2>2
  <2>4. PICK f : Good(f, m - 1)
    BY <2>3, <1>a
  <2> DEFINE g == [n \in 1..m |-> IF n = m THEN Up(f, m) ELSE f[n]]
  <2>5. Up(f, m) \in Nat
    <3>1. CASE m = 1
      BY <3>1
    <3>2. CASE m # 1
      <4>1. Parent(ast, m) \in 1..m - 1
        BY <1>0, <2>3, <3>2
      <4> QED
        BY <4>1, <2>4, <3>2
    <3> QED
      BY <3>1, <3>2
  <2>6. g \in [1..m -> Nat]
    BY <2>3, <2>4, <2>5
  <2>7. ASSUME NEW n \in 1..m PROVE g[n] = Up(g, n)
    <3>1. n # 1 => Parent(ast, n) \in 1..m - 1
      <4>1. n # 1 => n \in DOMAIN ast \ {1}
        BY <1>0, <2>3
      <4>2. n # 1 => Parent(ast, n) \in 1..n - 1
        BY <1>0, <4>1
      <4> QED
        BY <4>2, <2>3
    <3>2. Up(g, n) = Up(f, n)
      BY <3>1, <2>3
    <3>3. CASE n = m
      BY <3>2, <3>3
    <3>4. CASE n # m
      <4>1. n \in 1..m - 1
        BY <3>4, <2>3
      <4> QED
        BY <4>1, <3>2, <2>4
    <3> QED
      BY <3>3, <3>4
  <2>8. Good(g, m)
    BY <2>6, <2>7
  <2> QED
    BY <2>a, <2>8
<1>2. PICK f : Good(f, Len(ast))
  <2>1. Len(ast) \in 0..Len(ast)
    BY <1>0
  <2> QED
    BY <2>1, <1>1, <1>a
<1>3. f = [n \in DOMAIN ast |-> IF n = 1 THEN 1 ELSE f[Parent(ast, n)] + 1]
  BY <1>0, <1>2
<1>4. Depth(ast) = [n \in DOMAIN ast |->
                      IF n = 1 THEN 1 ELSE Depth(ast)[Parent(ast, n)] + 1]
  BY <1>3 DEF Depth
<1> DEFINE D == Depth(ast)
           Off == {n \in DOMAIN ast : D[n] # f[n]}
<1>5. \A n \in DOMAIN ast : D[n] = IF n = 1 THEN 1 ELSE D[Parent(ast, n)] + 1
  BY <1>4
<1>6. f \in [DOMAIN ast -> Nat]
      /\ \A n \in DOMAIN ast : f[n] = IF n = 1 THEN 1 ELSE f[Parent(ast, n)] + 1
  BY <1>0, <1>2
<1>7. DOMAIN D = DOMAIN ast /\ D = [n \in DOMAIN ast |-> D[n]]
  <2>1. \E h : D = [n \in DOMAIN ast |-> h[n]]
    <3>1. PICK h : h = [n \in DOMAIN ast |-> IF n = 1 THEN 1 ELSE D[Parent(ast, n)] + 1]
      OBVIOUS
    <3>2. D = h /\ h = [n \in DOMAIN ast |-> h[n]]
      BY <1>4, <3>1
    <3> QED
      BY <3>2
  <2> QED
    BY <2>1
<1>b1. \A n : n \in Off <=> n \in DOMAIN ast /\ D[n] # f[n]
  OBVIOUS
<1>b2. Off \in SUBSET Nat
  BY <1>0, <1>b1
<1> HIDE DEF D, Off
<1>8. Off = {}
  <2> SUFFICES ASSUME Off # {} PROVE FALSE
    OBVIOUS
  <2>1. PICK n \in Off : \A e \in Off : n <= e
    BY <1>b2, LeastNatural
  <2>2. n \in DOMAIN ast /\ D[n] # f[n]
    BY <1>b1
  <2>3. n # 1
    BY <1>5, <1>6, <2>2
  <2>4. Parent(ast, n) \in 1..n - 1
    BY <1>0, <2>2, <2>3
  <2>5. Parent(ast, n) \in DOMAIN ast /\ ~(n <= Parent(ast, n))
    BY <1>0, <2>2, <2>4
  <2>6. D[Parent(ast, n)] = f[Parent(ast, n)]
    BY <1>b1, <2>1, <2>5
  <2> QED
    BY <1>5, <1>6, <2>2, <2>3, <2>6
<1>9. \A n \in DOMAIN ast : D[n] = f[n]
  BY <1>8, <1>b1
<1>10. D \in [DOMAIN ast -> Nat] /\ D[1] = 1
  BY <1>0, <1>5, <1>6, <1>7, <1>9
<1>11. ASSUME NEW i \in DOMAIN ast, NEW n \in Range(ast[i].args)
       PROVE  n \in DOMAIN ast /\ D[n] = D[i] + 1
  <2>1. n \in i + 1..Len(ast)
    BY TreeFacts
  <2>2. n \in DOMAIN ast /\ n # 1
    BY <1>0, <2>1
  <2>3. i = Parent(ast, n)
    BY <2>2, TreeFacts
  <2> QED
    BY <1>5, <2>2, <2>3
<1> QED
  BY <1>10, <1>11 DEF D



\* The stack once its top is replaced by g.
LEMMA PushFacts ==
  ASSUME NEW S, NEW s \in Seq(S), s # <<>>, NEW g \in Seq(S)
  PROVE  /\ Front(s) \o g \in Seq(S) /\ Last(s) \in Range(s)
         /\ Range(Front(s) \o g) \subseteq Range(s) \cup Range(g)
         /\ Range(s) \cup Range(g) \subseteq Range(Front(s) \o g) \cup {Last(s)}
<1> DEFINE f == Front(s)
<1>1. Len(s) \in Nat \ {0} /\ DOMAIN s = 1..Len(s)
  BY EmptySeq
<1>2. /\ f \in Seq(S) /\ Len(f) = Len(s) - 1 /\ DOMAIN f = 1..Len(s) - 1
      /\ \A j \in 1..Len(s) - 1 : f[j] = s[j]
  <2>1. \A j \in 1..Len(s) - 1 : s[j] \in S
    BY <1>1
  <2> QED
    BY <1>1, <2>1, SubSeqProperties DEF Front
<1>3. Range(f) \subseteq Range(s) /\ Range(s) \subseteq Range(f) \cup {Last(s)} /\ Last(s) \in Range(s)
  <2>1. ASSUME NEW j \in DOMAIN s PROVE s[j] \in Range(f) \cup {Last(s)}
    <3>1. CASE j = Len(s)
      BY <3>1 DEF Last
    <3>2. CASE j # Len(s)
      <4>1. j \in DOMAIN f /\ f[j] = s[j]
        BY <1>1, <1>2, <3>2
      <4> QED
        BY <4>1 DEF Range
    <3> QED
      BY <3>1, <3>2
  <2>2. ASSUME NEW j \in DOMAIN f PROVE j \in DOMAIN s /\ f[j] = s[j]
    BY <1>1, <1>2
  <2>3. Len(s) \in DOMAIN s
    BY <1>1
  <2> QED
    BY <2>1, <2>2, <2>3 DEF Range, Last
<1> HIDE DEF f
<1>4. f \o g \in Seq(S) /\ Range(f \o g) = Range(f) \cup Range(g)
  BY <1>2, ConcatProperties, RangeConcatenation
<1> QED
  BY <1>3, <1>4 DEF f

\* Nodes to be visited, each with its depth.
LEMMA ArgsFacts ==
  ASSUME NEW S, NEW N, NEW a \in Seq(N), NEW d, \A n \in N : <<n, d>> \in S
  PROVE  AtDepth(a, d) \in Seq(S) /\ Range(AtDepth(a, d)) = {<<n, d>> : n \in Range(a)}
<1> DEFINE g == [k \in DOMAIN a |-> <<a[k], d>>]
<1>1. Len(a) \in Nat /\ DOMAIN a = 1..Len(a) /\ \A j \in 1..Len(a) : a[j] \in N
  BY LenProperties
<1>2. g \in [1..Len(a) -> S]
  BY <1>1
<1>3. g \in Seq(S)
  BY <1>1, <1>2
<1>4. Range(g) = {<<a[k], d>> : k \in DOMAIN a}
  BY DEF Range
<1> QED
  BY <1>3, <1>4 DEF Range, AtDepth
-----------------------------------------------------------------------------
(* What does not change while the rules are compiled *)

LEMMA DocFacts ==
  ASSUME config \in Configs, Read
  PROVE  /\ Doc.rules \in Seq(Range(Doc.rules))
         /\ Len(Doc.rules) \in Nat /\ DOMAIN Doc.rules = 1..Len(Doc.rules)
         /\ \A i \in DOMAIN Doc.rules :
              /\ IsRuleDoc(Doc.rules[i])
              /\ Doc.rules[i].condition # None /\ Doc.rules[i].condition.ast # None =>
                   IsTree(Doc.rules[i].condition.ast)
<1>1. Doc.rules \in Seq(Range(Doc.rules)) /\ \A r \in Range(Doc.rules) : IsRuleDoc(r)
  BY StartupAssumption DEF Read, Doc
<1>2. Len(Doc.rules) \in Nat /\ DOMAIN Doc.rules = 1..Len(Doc.rules)
  BY <1>1
<1>3. \A i \in DOMAIN Doc.rules : IsRuleDoc(Doc.rules[i])
  BY <1>1 DEF Range
<1> QED
  BY <1>1, <1>2, <1>3 DEF IsRuleDoc

LEMMA Frozen ==
  ASSUME UNCHANGED <<config, active, catalog>>
  PROVE  /\ Doc' = Doc /\ Read' = Read /\ Fits' = Fits /\ Loaded' = Loaded
         /\ SetErrors' = SetErrors
         /\ \A i : Verdict(i)' = Verdict(i) /\ CompiledOf(i)' = CompiledOf(i)
         /\ \A r : RuleOk(r)' = RuleOk(r)
         /\ \A n : NodeOk(n)' = NodeOk(n)
         /\ RuleErrors' = RuleErrors /\ CompiledRules' = CompiledRules
         /\ \A es, n : Reports(es, n)' = Reports(es, n)
<1>1. Doc' = Doc
  BY DEF Doc
<1>2. Read' = Read /\ Fits' = Fits /\ SetErrors' = SetErrors /\ Loaded' = Loaded
  BY <1>1 DEF Read, Fits, SetErrors, Loaded, CatalogOk
<1>3. \A n : ByName(catalog, n)' = ByName(catalog, n)
  BY DEF ByName
<1>4. \A n : NodeOk(n)' = NodeOk(n)
  BY <1>3 DEF NodeOk
<1>5. \A r : RuleOk(r)' = RuleOk(r)
  BY <1>3 DEF RuleOk
<1>6. \A c : ConditionOk(c)' = ConditionOk(c)
  BY <1>4 DEF ConditionOk
<1>7. \A i : Verdict(i)' = Verdict(i)
  BY <1>1, <1>5, <1>6 DEF Verdict
<1>8. \A i : CompiledOf(i)' = CompiledOf(i)
  BY <1>1 DEF CompiledOf
<1>9. RuleErrors' = RuleErrors /\ CompiledRules' = CompiledRules
  BY <1>1, <1>7, <1>8 DEF RuleErrors, CompiledRules
<1>10. \A es, n : Reports(es, n)' = Reports(es, n)
  BY <1>7 DEF Reports
<1> QED
  BY <1>1, <1>2, <1>4, <1>5, <1>7, <1>8, <1>9, <1>10

LEMMA DoneFails ==
  ASSUME config \in Configs, Read, UNCHANGED <<config, active, catalog>>,
         at \in DOMAIN Doc.rules, Done(at - 1),
         NEW reason, Verdict(at) = reason, reason # None, Fails(reason)
  PROVE  Done(at - 1)'
<1> DEFINE e == Error(reason, at)
<1>1. at \in Nat \ {0} /\ at' = at + 1 /\ at' - 1 = at
  BY DocFacts DEF Fails
<1>2. e \in RuleErrors /\ e.rule = at
  BY DEF RuleErrors, Error
<1>3. found \in Seq(RuleErrors) /\ compiled \in Seq(CompiledRules)
      /\ Len(compiled) + Len(found) = at - 1
  BY DEF Done
<1>4. /\ found' \in Seq(RuleErrors) /\ Len(found') = Len(found) + 1
      /\ \A k \in 1..Len(found) : found'[k] = found[k]
      /\ found'[Len(found) + 1] = e
      /\ found' # <<>>
  BY <1>2, <1>3, AppendProperties DEF Fails
<1>5. /\ DOMAIN found = 1..Len(found) /\ DOMAIN found' = 1..Len(found) + 1
      /\ Len(found) \in Nat /\ Len(compiled) \in Nat
  BY <1>3, <1>4
<1>6. Reports(found, at - 1)
  BY DEF Done
<1>7. /\ compiled' \in Seq(CompiledRules') /\ found' \in Seq(RuleErrors')
      /\ Len(compiled') + Len(found') = at' - 1
  BY <1>1, <1>3, <1>4, <1>5, Frozen DEF Fails
<1> HIDE DEF e
<1>8. \A k \in DOMAIN found' : /\ found'[k].rule \in 1..at
                               /\ Verdict(found'[k].rule) # None
                               /\ found'[k] = Error(Verdict(found'[k].rule), found'[k].rule)
  <2> SUFFICES ASSUME NEW k \in DOMAIN found'
               PROVE  /\ found'[k].rule \in 1..at
                      /\ Verdict(found'[k].rule) # None
                      /\ found'[k] = Error(Verdict(found'[k].rule), found'[k].rule)
    OBVIOUS
  <2>1. CASE k \in DOMAIN found
    <3>1. found'[k] = found[k]
      BY <1>4, <1>5, <2>1
    <3>2. found[k].rule \in 1..at - 1 /\ Verdict(found[k].rule) # None
          /\ found[k] = Error(Verdict(found[k].rule), found[k].rule)
      BY <1>6, <2>1 DEF Reports
    <3> QED
      BY <1>1, <3>1, <3>2
  <2>2. CASE k = Len(found) + 1
    BY <1>1, <1>2, <1>4, <2>2 DEF e
  <2> QED
    BY <1>5, <2>1, <2>2
<1>9. \A i \in 1..at : Verdict(i) # None => \E k \in DOMAIN found' : found'[k].rule = i
  <2> SUFFICES ASSUME NEW i \in 1..at, Verdict(i) # None
               PROVE  \E k \in DOMAIN found' : found'[k].rule = i
    OBVIOUS
  <2>1. CASE i = at
    <3>1. Len(found) + 1 \in DOMAIN found'
      BY <1>5
    <3> QED
      BY <1>2, <1>4, <2>1, <3>1
  <2>2. CASE i # at
    <3>1. i \in 1..at - 1
      BY <1>1, <2>2
    <3>2. PICK k \in DOMAIN found : found[k].rule = i
      BY <1>6, <3>1 DEF Reports
    <3>3. k \in DOMAIN found' /\ found'[k] = found[k]
      BY <1>4, <1>5
    <3> QED
      BY <3>2, <3>3
  <2> QED
    BY <2>1, <2>2
<1>10. \A k, l \in DOMAIN found' : k < l => found'[k].rule < found'[l].rule
  <2> SUFFICES ASSUME NEW k \in DOMAIN found', NEW l \in DOMAIN found', k < l
               PROVE  found'[k].rule < found'[l].rule
    OBVIOUS
  <2>1. k \in DOMAIN found /\ found'[k] = found[k] /\ found[k].rule \in 1..at - 1
    <3>1. k \in DOMAIN found
      BY <1>5
    <3> QED
      BY <1>4, <1>5, <1>6, <3>1 DEF Reports
  <2>2. CASE l \in DOMAIN found
    <3>1. found[k].rule < found[l].rule
      BY <1>6, <2>1, <2>2 DEF Reports
    <3> QED
      BY <1>4, <1>5, <2>1, <2>2, <3>1
  <2>3. CASE l = Len(found) + 1
    BY <1>1, <1>2, <1>4, <2>1, <2>3
  <2> QED
    BY <1>5, <2>2, <2>3
<1>11. Reports(found, at - 1)'
  <2>1. \A i : Verdict(i)' = Verdict(i)
    BY Frozen
  <2> QED
    BY <1>1, <1>8, <1>9, <1>10, <2>1 DEF Reports
<1> QED
  BY <1>4, <1>7, <1>11 DEF Done

LEMMA DoneSucceeds ==
  ASSUME config \in Configs, Read, UNCHANGED <<config, active, catalog>>,
         at \in DOMAIN Doc.rules, Done(at - 1),
         NEW c, Compile(RuleAt, c) = CompiledOf(at), Verdict(at) = None, Succeeds(c)
  PROVE  Done(at - 1)'
<1>1. at \in Nat \ {0} /\ at' = at + 1 /\ at' - 1 = at /\ found' = found
  BY DocFacts DEF Succeeds
<1>2. found \in Seq(RuleErrors) /\ compiled \in Seq(CompiledRules)
      /\ Len(compiled) + Len(found) = at - 1
  BY DEF Done
<1>3. CompiledOf(at) \in CompiledRules
  BY DEF CompiledRules
<1>4. /\ compiled' \in Seq(CompiledRules) /\ Len(compiled') = Len(compiled) + 1
      /\ \A k \in 1..Len(compiled) : compiled'[k] = compiled[k]
      /\ compiled'[Len(compiled) + 1] = CompiledOf(at)
  BY <1>2, <1>3, AppendProperties DEF Succeeds
<1>5. /\ compiled' \in Seq(CompiledRules') /\ found' \in Seq(RuleErrors')
      /\ Len(compiled') + Len(found') = at' - 1
  <2>1. Len(compiled) \in Nat /\ Len(found) \in Nat
    BY <1>2
  <2> QED
    BY <1>1, <1>2, <1>4, <2>1, Frozen
<1>6. Reports(found, at - 1)
  BY DEF Done
<1>7. Reports(found, at - 1)'
  <2>1. \A i : Verdict(i)' = Verdict(i)
    BY Frozen
  <2>2. \A i \in 1..at : Verdict(i) # None => i \in 1..at - 1
    BY <1>1
  <2>3. \A k \in DOMAIN found : found[k].rule \in 1..at - 1
    BY <1>6 DEF Reports
  <2>4. 1..at - 1 \subseteq 1..at
    BY <1>1
  <2> QED
    BY <1>1, <1>6, <2>1, <2>2, <2>3, <2>4 DEF Reports
<1>8. ASSUME found = <<>>, NEW i \in 1..at
      PROVE  Verdict(i) = None /\ compiled'[i] = CompiledOf(i)
  <2>1. Len(compiled) = at - 1
    BY <1>2, <1>8
  <2>2. CASE i = at
    BY <1>1, <1>4, <2>1, <2>2
  <2>3. CASE i # at
    <3>1. i \in 1..at - 1
      BY <1>1, <2>3
    <3>2. Verdict(i) = None /\ compiled[i] = CompiledOf(i)
      BY <1>8, <3>1 DEF Done
    <3> QED
      BY <1>4, <2>1, <3>1, <3>2
  <2> QED
    BY <2>2, <2>3
<1>9. found' = <<>> =>
        \A i \in 1..at' - 1 : Verdict(i)' = None /\ compiled'[i] = CompiledOf(i)'
  BY <1>1, <1>8, Frozen
<1> QED
  BY <1>5, <1>7, <1>9 DEF Done
-----------------------------------------------------------------------------
(* The walk over a condition *)

LEMMA AstIsTree ==
  ASSUME config \in Configs, Read, at \in DOMAIN Doc.rules,
         RuleAt.condition # None, SourceOk(RuleAt.condition)
  PROVE  IsTree(Ast)
BY DocFacts DEF Ast, RuleAt, SourceOk

\* The first node is on the stack when the walk starts.
LEMMA WalkStarts ==
  ASSUME config \in Configs, Read, at \in DOMAIN Doc.rules,
         ~Duplicate, RuleOk(RuleAt), RuleAt.condition # None, SourceOk(RuleAt.condition),
         UNCHANGED <<config, active, catalog, at>>,
         stack' = <<<<1, 1>>>>, signals' = {}
  PROVE  Walking'
<1>1. Doc' = Doc /\ RuleAt' = RuleAt /\ Ast' = Ast /\ \A r : RuleOk(r)' = RuleOk(r)
  BY Frozen DEF RuleAt, Ast
<1>2. ~Duplicate' /\ RuleOk(RuleAt)' /\ RuleAt'.condition # None /\ SourceOk(RuleAt.condition)'
  <2>1. RuleOk(RuleAt)'
    <3>1. \A r : RuleOk(r) => RuleOk(r)'
      BY <1>1
    <3> QED
      BY <1>1, <3>1 DEF RuleOk, ByName
  <2> QED
    BY <1>1, <2>1 DEF Duplicate, SourceOk
<1>3. IsTree(Ast) /\ 1 \in DOMAIN Ast /\ Depth(Ast)[1] = 1
  BY AstIsTree, TreeFacts, DepthFacts
<1>4. stack' \in Seq((DOMAIN Ast) \X Nat) /\ DOMAIN stack' = {1} /\ stack'[1] = <<1, 1>>
  BY <1>3
<1>5. Range(stack') = {<<1, 1>>}
  BY <1>4 DEF Range
<1>6. \A t \in Range(stack') : t[2] = Depth(Ast)[t[1]]
  BY <1>3, <1>5
<1>7. Visited({})'
  <2>1. 1 \in Open'
    BY <1>5 DEF Open
  <2> QED
    BY <2>1 DEF Visited
<1>8. \E V \in SUBSET DOMAIN Ast' : Visited(V)'
  BY <1>7
<1> QED
  BY <1>1, <1>2, <1>4, <1>6, <1>8 DEF Walking

LEMMA WalkGoesOn ==
  ASSUME config \in Configs, Read, at \in DOMAIN Doc.rules, Walking, Visit
  PROVE  Walking'
<1>1. UNCHANGED <<config, active, catalog, at>> /\ stack # <<>> /\ VisitOk
  BY DEF Visit
<1>2. /\ Doc' = Doc /\ RuleAt' = RuleAt /\ Ast' = Ast
      /\ \A r : RuleOk(r)' = RuleOk(r)
      /\ \A n : NodeOk(n)' = NodeOk(n)
  BY <1>1, Frozen DEF RuleAt, Ast
<1>3. ~Duplicate' /\ RuleOk(RuleAt)' /\ RuleAt'.condition # None /\ SourceOk(RuleAt.condition)'
  BY <1>1, <1>2 DEF Walking, Duplicate, SourceOk, RuleOk, ByName
<1>4. IsTree(Ast)
  BY AstIsTree DEF Walking
<1> DEFINE S == (DOMAIN Ast) \X Nat
           n == Top[1]
<1>5. Depth(Ast) \in [DOMAIN Ast -> Nat]
  BY <1>4, DepthFacts
<1>6. stack \in Seq(S) /\ \A t \in Range(stack) : t \in S /\ t[2] = Depth(Ast)[t[1]]
  BY RangeOfSeq DEF Walking
<1>7. Top \in Range(stack)
  BY <1>1, <1>6, EmptySeq DEF Top, Last, Range
<1>8. n \in DOMAIN Ast /\ Top[2] \in Nat /\ Top[2] = Depth(Ast)[n]
  BY <1>6, <1>7
<1>9. Args \in Seq(DOMAIN Ast) /\ Args = Ast[n].args
  BY <1>4, <1>8, TreeFacts DEF Args
<1>10. \A m \in Range(Args) : m \in DOMAIN Ast /\ Depth(Ast)[m] = Top[2] + 1
  BY <1>4, <1>8, <1>9, DepthFacts
<1>11. /\ stack' \in Seq(S)
       /\ Range(stack') \subseteq Range(stack) \cup {<<m, Top[2] + 1>> : m \in Range(Args)}
       /\ Range(stack) \cup {<<m, Top[2] + 1>> : m \in Range(Args)}
            \subseteq Range(stack') \cup {Top}
  <2>1. \A m \in DOMAIN Ast : <<m, Top[2] + 1>> \in S
    BY <1>8
  <2> HIDE DEF S
  <2> DEFINE g == AtDepth(Args, Top[2] + 1)
  <2>3. g \in Seq(S) /\ Range(g) = {<<m, Top[2] + 1>> : m \in Range(Args)}
    BY <1>9, <2>1, ArgsFacts
  <2>4. stack' = Front(stack) \o g /\ Top = Last(stack)
    BY DEF Visit, Pushed, Top
  <2> HIDE DEF g
  <2> QED
    BY <1>1, <1>6, <2>3, <2>4, PushFacts
<1>12. \A t \in Range(stack') : t[2] = Depth(Ast)[t[1]]
  <2>1. \A m \in Range(Args) : <<m, Top[2] + 1>>[2] = Depth(Ast)[<<m, Top[2] + 1>>[1]]
    BY <1>10
  <2> QED
    BY <1>6, <1>11, <2>1
<1>13. Open \cup Range(Args) \subseteq Open' \cup {n}
  <2>1. ASSUME NEW t \in Range(stack) PROVE t[1] \in Open' \cup {n}
    BY <1>11 DEF Open
  <2>2. ASSUME NEW m \in Range(Args) PROVE m \in Open' \cup {n}
    <3>1. <<m, Top[2] + 1>> \in Range(stack') \/ <<m, Top[2] + 1>> = Top
      BY <1>11
    <3>2. <<m, Top[2] + 1>>[1] = m
      OBVIOUS
    <3> QED
      BY <3>1, <3>2 DEF Open
  <2> QED
    BY <2>1, <2>2 DEF Open
<1>14. PICK V \in SUBSET DOMAIN Ast : Visited(V)
  BY DEF Walking
<1>15. PICK W \in SUBSET DOMAIN Ast : W = V \cup {n}
  BY <1>8
<1>16. 1 \in W \cup Open'
  BY <1>13, <1>14, <1>15 DEF Visited
<1>17. \A m \in W : /\ NodeOk(Ast[m]) /\ Depth(Ast)[m] <= MAX_CONDITION_DEPTH
                    /\ Range(Ast[m].args) \subseteq W \cup Open'
  <2>1. NodeOk(Ast[n]) /\ Depth(Ast)[n] <= MAX_CONDITION_DEPTH
    BY <1>1, <1>8 DEF VisitOk
  <2> QED
    BY <1>9, <1>13, <1>14, <1>15, <2>1 DEF Visited
<1>18. signals' = {Ast[m].arg : m \in {k \in W : Ast[k].tag = "Ident"}}
  <2>1. signals = {Ast[m].arg : m \in {k \in V : Ast[k].tag = "Ident"}}
    BY <1>14 DEF Visited
  <2>2. signals' = signals \cup IF Ast[n].tag = "Ident" THEN {Ast[n].arg} ELSE {}
    BY DEF Visit
  <2> HIDE DEF n
  <2>3. CASE Ast[n].tag = "Ident"
    BY <1>15, <2>1, <2>2, <2>3
  <2>4. CASE Ast[n].tag # "Ident"
    BY <1>15, <2>1, <2>2, <2>4
  <2> QED
    BY <2>3, <2>4
<1> HIDE DEF n
<1>19. Visited(W)'
  <2>1. \A m \in W : NodeOk(Ast[m])'
    BY <1>1, <1>2, <1>17 DEF NodeOk, ByName
  <2>2. 1 \in W \cup Open' /\ signals' = {Ast'[m].arg : m \in {k \in W : Ast'[k].tag = "Ident"}}
    BY <1>2, <1>16, <1>18
  <2>3. \A m \in W : /\ Depth(Ast')[m] <= MAX_CONDITION_DEPTH
                     /\ Range(Ast'[m].args) \subseteq W \cup Open'
    BY <1>2, <1>17
  <2> QED
    BY <2>1, <2>2, <2>3 DEF Visited
<1>20. \E U \in SUBSET DOMAIN Ast' : Visited(U)'
  BY <1>2, <1>15, <1>19
<1>21. /\ stack' \in Seq((DOMAIN Ast') \X Nat)
       /\ \A t \in Range(stack') : t[2] = Depth(Ast')[t[1]]
  BY <1>2, <1>11, <1>12
<1> QED
  BY <1>3, <1>20, <1>21 DEF Walking

\* A node that fails makes the condition fail.
LEMMA WalkFails ==
  ASSUME config \in Configs, Read, at \in DOMAIN Doc.rules, Walking, VisitFails
  PROVE  Verdict(at) = "invalid_condition"
<1>1. stack # <<>> /\ ~VisitOk
  BY DEF VisitFails
<1>2. IsTree(Ast)
  BY AstIsTree DEF Walking
<1>3. stack \in Seq((DOMAIN Ast) \X Nat)
      /\ \A t \in Range(stack) : t \in (DOMAIN Ast) \X Nat /\ t[2] = Depth(Ast)[t[1]]
  BY RangeOfSeq DEF Walking
<1>4. Top \in Range(stack)
  BY <1>1, <1>3, EmptySeq DEF Top, Last, Range
<1>5. Top[1] \in DOMAIN Ast /\ Top[2] = Depth(Ast)[Top[1]]
  BY <1>3, <1>4
<1>6. ~ConditionOk(RuleAt.condition)
  BY <1>1, <1>5 DEF ConditionOk, VisitOk, Ast, Walking
<1> QED
  BY <1>6 DEF Verdict, Walking, Duplicate, RuleAt

\* When nothing is left to visit, every node has been visited: otherwise the
\* first that has not hangs below one that has, and would be on the stack.
LEMMA WalkIsComplete ==
  ASSUME config \in Configs, Read, at \in DOMAIN Doc.rules, Walking, stack = <<>>
  PROVE  /\ Verdict(at) = None
         /\ Compile(RuleAt, [signals |-> signals]) = CompiledOf(at)
<1>1. IsTree(Ast)
  BY AstIsTree DEF Walking
<1>2. Open = {}
  BY DEF Open, Range
<1>3. PICK V \in SUBSET DOMAIN Ast : Visited(V)
  BY DEF Walking
<1>4. V = DOMAIN Ast
  <2> SUFFICES ASSUME DOMAIN Ast \ V # {} PROVE FALSE
    OBVIOUS
  <2>1. DOMAIN Ast = 1..Len(Ast) /\ DOMAIN Ast \ V \in SUBSET Nat
    BY <1>1, TreeFacts
  <2>2. PICK n \in DOMAIN Ast \ V : \A m \in DOMAIN Ast \ V : n <= m
    BY <2>1, LeastNatural
  <2>3. n # 1
    BY <1>2, <1>3, <2>2 DEF Visited
  <2> DEFINE i == Parent(Ast, n)
  <2>4. i \in 1..n - 1 /\ n \in Range(Ast[i].args)
    BY <1>1, <2>2, <2>3, TreeFacts
  <2> HIDE DEF i
  <2>5. i \in V
    BY <2>1, <2>2, <2>4
  <2>6. n \in V
    BY <1>2, <1>3, <2>4, <2>5 DEF Visited
  <2> QED
    BY <2>2, <2>6
<1>5. ConditionOk(RuleAt.condition)
  BY <1>3, <1>4 DEF ConditionOk, Visited, Walking, Ast
<1>6. Verdict(at) = None
  BY <1>5 DEF Verdict, Walking, Duplicate, RuleAt
<1>7. signals = Idents(Ast)
  BY <1>3, <1>4 DEF Visited, Idents
<1>8. RuleAt.condition # None
  BY DEF Walking
<1> QED
  BY <1>6, <1>7, <1>8 DEF CompiledOf, RuleAt, Ast
-----------------------------------------------------------------------------
(* The invariant *)

LEMMA SetErrorsFacts ==
  /\ SetErrors \in Seq({Error(r, None) : r \in {"not_newer", "model_mismatch", "too_many_rules"}})
  /\ ~Fits => SetErrors # <<>>
<1> DEFINE S == {Error(r, None) : r \in {"not_newer", "model_mismatch", "too_many_rules"}}
           a == IF active # None /\ Doc.ruleset_version <= active
                THEN <<Error("not_newer", None)>> ELSE <<>>
           b == IF Doc.model \notin {ANY_MODEL, config.model}
                THEN <<Error("model_mismatch", None)>> ELSE <<>>
           c == IF Len(Doc.rules) > MAX_RULES
                THEN <<Error("too_many_rules", None)>> ELSE <<>>
<1>1. a \in Seq(S) /\ b \in Seq(S) /\ c \in Seq(S)
  <2>1. \A x \in S : <<x>> \in Seq(S)
    OBVIOUS
  <2>2. /\ Error("not_newer", None) \in S /\ Error("model_mismatch", None) \in S
        /\ Error("too_many_rules", None) \in S
    OBVIOUS
  <2>3. <<>> \in Seq(S)
    OBVIOUS
  <2> HIDE DEF S
  <2> QED
    BY <2>1, <2>2, <2>3
<1>2. SetErrors = a \o b \o c
  BY DEF SetErrors
<1>3. ~Fits => c # <<>>
  BY DEF Fits
<1> HIDE DEF S, a, b, c
<1>4. a \o b \in Seq(S) /\ a \o b \o c \in Seq(S)
  BY <1>1, ConcatProperties
<1>5. a \o b \o c = <<>> => c = <<>>
  BY <1>1, <1>4, ConcatEqualIffEmpty
<1> QED
  BY <1>2, <1>3, <1>4, <1>5 DEF S

LEMMA InitSInv == Init => SInv
BY DEF Init, SInv, Final, Read, Doc

LEMMA LoadStep ==
  ASSUME SInv, LoadConfig \/ LoadCatalog \/ LoadRules
  PROVE  SInv'
<1>1. CASE LoadConfig
  BY <1>1 DEF LoadConfig, SInv, Final, Read, Doc
<1>2. CASE LoadCatalog
  BY <1>2 DEF LoadCatalog, SInv, Final, Read, Doc, Loaded, CatalogOk
<1>3. CASE LoadRules
  <2>1. UNCHANGED <<config, active, catalog, at, compiled, found>> /\ phase = "rules"
    BY <1>3 DEF LoadRules
  <2>2. Doc' = Doc /\ Read' = Read /\ Loaded' = Loaded
    BY <2>1, Frozen
  <2>3. CASE Doc = None
    BY <1>3, <2>1, <2>2, <2>3 DEF LoadRules, SInv, Final, Read
  <2>4. CASE Doc # None /\ Doc = Unreadable
    BY <1>3, <2>1, <2>2, <2>4 DEF LoadRules, SInv, Final, Read
  <2>5. CASE Doc # None /\ Doc # Unreadable
    BY <1>3, <2>1, <2>2, <2>5 DEF LoadRules, SInv, Final, Read
  <2> QED
    BY <2>3, <2>4, <2>5
<1> QED
  BY <1>1, <1>2, <1>3

LEMMA CheckSetStep ==
  ASSUME SInv, CheckSet
  PROVE  SInv'
<1>1. /\ UNCHANGED <<config, active, catalog, at, compiled, found>> /\ phase = "set"
      /\ errors' = SetErrors /\ phase' = IF Fits THEN "rule" ELSE "rejected"
  BY DEF CheckSet, Fits
<1>2. /\ Doc' = Doc /\ Read' = Read /\ Loaded' = Loaded /\ SetErrors' = SetErrors
      /\ Fits' = Fits
  BY <1>1, Frozen
<1>3. /\ Read /\ Loaded /\ config \in Configs /\ at \in 1..Len(Doc.rules) + 1
      /\ at = 1 /\ compiled = <<>> /\ found = <<>>
  BY <1>1 DEF SInv
<1>4. CASE Fits
  <2>1. Reports(found, at - 1)'
    BY <1>1, <1>3 DEF Reports
  <2>2. Done(at - 1)'
    BY <1>1, <1>3, <2>1 DEF Done
  <2> QED
    BY <1>1, <1>2, <1>3, <1>4, <2>2 DEF SInv, Final
<1>5. CASE ~Fits
  <2>1. errors' # <<>>
    BY <1>1, <1>5, SetErrorsFacts
  <2>2. Outcome'
    BY <1>1, <1>2, <1>5, <2>1 DEF Outcome
  <2> QED
    BY <1>1, <1>2, <1>3, <1>5, <2>2 DEF SInv, Final
<1> QED
  BY <1>4, <1>5

\* A rule is done with: at moves on.
LEMMA NextRule ==
  ASSUME SInv, phase \in {"rule", "walk"}, at \in DOMAIN Doc.rules,
         UNCHANGED <<config, active, catalog, errors>>,
         at' = at + 1, phase' = "rule", Done(at - 1)'
  PROVE  SInv'
<1>1. /\ Doc' = Doc /\ Read' = Read /\ Loaded' = Loaded /\ SetErrors' = SetErrors
      /\ Fits' = Fits
  BY Frozen
<1>2. Read /\ Loaded /\ config \in Configs /\ Fits /\ errors = SetErrors
  BY DEF SInv
<1>3. at' \in 1..Len(Doc.rules) + 1
  BY <1>2, DocFacts
<1> QED
  BY <1>1, <1>2, <1>3 DEF SInv, Final

LEMMA CompileRuleStep ==
  ASSUME SInv, CompileRule
  PROVE  SInv'
<1>1. /\ Read /\ Loaded /\ config \in Configs /\ Fits /\ errors = SetErrors
      /\ at \in 1..Len(Doc.rules) + 1 /\ Done(at - 1)
      /\ phase = "rule" /\ at <= Len(Doc.rules) /\ UNCHANGED <<config, active, catalog, errors>>
  BY DEF SInv, CompileRule
<1>2. at \in DOMAIN Doc.rules
  BY <1>1, DocFacts
<1>3. CASE (Duplicate \/ ~RuleOk(RuleAt)) /\ Fails("invalid_rule")
  <2>1. Verdict(at) = "invalid_rule"
    BY <1>3 DEF Verdict, Duplicate, RuleAt
  <2>2. Done(at - 1)'
    BY <1>1, <1>2, <1>3, <2>1, DoneFails, StartupAssumption
  <2> QED
    BY <1>1, <1>2, <1>3, <2>2, NextRule DEF Fails
<1>4. CASE ~Duplicate /\ RuleOk(RuleAt) /\ RuleAt.condition = None /\ Succeeds(None)
  <2>1. Verdict(at) = None
    BY <1>4 DEF Verdict, Duplicate, RuleAt, ConditionOk
  <2>2. Compile(RuleAt, None) = CompiledOf(at)
    BY <1>4 DEF CompiledOf, RuleAt
  <2>3. Done(at - 1)'
    BY <1>1, <1>2, <1>4, <2>1, <2>2, DoneSucceeds
  <2> QED
    BY <1>1, <1>2, <1>4, <2>3, NextRule DEF Succeeds
<1>5. CASE /\ ~Duplicate /\ RuleOk(RuleAt)
           /\ RuleAt.condition # None /\ ~SourceOk(RuleAt.condition)
           /\ Fails("invalid_condition")
  <2>1. Verdict(at) = "invalid_condition"
    BY <1>5 DEF Verdict, Duplicate, RuleAt, ConditionOk
  <2>2. Done(at - 1)'
    BY <1>1, <1>2, <1>5, <2>1, DoneFails, StartupAssumption
  <2> QED
    BY <1>1, <1>2, <1>5, <2>2, NextRule DEF Fails
<1>6. CASE /\ ~Duplicate /\ RuleOk(RuleAt)
           /\ RuleAt.condition # None /\ SourceOk(RuleAt.condition)
           /\ phase' = "walk" /\ stack' = <<<<1, 1>>>> /\ signals' = {}
           /\ UNCHANGED <<at, compiled, found>>
  <2>1. /\ Doc' = Doc /\ Read' = Read /\ Loaded' = Loaded /\ SetErrors' = SetErrors
        /\ Fits' = Fits
    BY <1>1, Frozen
  <2>2. Walking'
    BY <1>1, <1>2, <1>6, WalkStarts
  <2>3. Done(at - 1)'
    BY <1>1, <1>6, Frozen DEF Done, Reports
  <2> QED
    BY <1>1, <1>6, <2>1, <2>2, <2>3 DEF SInv, Final
<1> QED
  BY <1>3, <1>4, <1>5, <1>6 DEF CompileRule

LEMMA WalkStep ==
  ASSUME SInv, Visit \/ VisitFails \/ WalkEnds
  PROVE  SInv'
<1>1. /\ Read /\ Loaded /\ config \in Configs /\ Fits /\ errors = SetErrors
      /\ at \in 1..Len(Doc.rules) + 1 /\ Done(at - 1)
      /\ phase = "walk" /\ at <= Len(Doc.rules) /\ Walking
      /\ UNCHANGED <<config, active, catalog, errors>>
  BY DEF SInv, Visit, VisitFails, WalkEnds
<1>2. at \in DOMAIN Doc.rules
  BY <1>1, DocFacts
<1>3. CASE Visit
  <2>1. UNCHANGED <<at, phase, compiled, found>>
    BY <1>3 DEF Visit
  <2>2. /\ Doc' = Doc /\ Read' = Read /\ Loaded' = Loaded /\ SetErrors' = SetErrors
        /\ Fits' = Fits
    BY <1>1, Frozen
  <2>3. Walking'
    BY <1>1, <1>2, <1>3, WalkGoesOn
  <2>4. Done(at - 1)'
    BY <1>1, <2>1, Frozen DEF Done, Reports
  <2> QED
    BY <1>1, <2>1, <2>2, <2>3, <2>4 DEF SInv, Final
<1>4. CASE VisitFails
  <2>1. Verdict(at) = "invalid_condition" /\ Fails("invalid_condition")
    BY <1>1, <1>2, <1>4, WalkFails DEF VisitFails
  <2>2. Done(at - 1)'
    BY <1>1, <1>2, <2>1, DoneFails, StartupAssumption
  <2> QED
    BY <1>1, <1>2, <2>1, <2>2, NextRule DEF Fails
<1>5. CASE WalkEnds
  <2>1. stack = <<>> /\ Succeeds([signals |-> signals])
    BY <1>5 DEF WalkEnds
  <2>2. Verdict(at) = None /\ Compile(RuleAt, [signals |-> signals]) = CompiledOf(at)
    BY <1>1, <1>2, <2>1, WalkIsComplete
  <2>3. Done(at - 1)'
    BY <1>1, <1>2, <2>1, <2>2, DoneSucceeds
  <2> QED
    BY <1>1, <1>2, <2>1, <2>3, NextRule DEF Succeeds
<1> QED
  BY <1>3, <1>4, <1>5

LEMMA JoinStep ==
  ASSUME SInv, Join
  PROVE  SInv'
<1>1. /\ Read /\ Loaded /\ config \in Configs /\ Fits /\ errors = SetErrors
      /\ at \in 1..Len(Doc.rules) + 1 /\ Done(at - 1) /\ at > Len(Doc.rules)
      /\ phase' = IF errors' = <<>> THEN "running" ELSE "rejected"
      /\ errors' = errors \o found
      /\ UNCHANGED <<config, active, catalog, at, compiled, found>>
  BY DEF SInv, Join
<1>2. /\ Doc' = Doc /\ Read' = Read /\ Loaded' = Loaded /\ SetErrors' = SetErrors
      /\ Fits' = Fits
  BY <1>1, Frozen
<1>3. at = Len(Doc.rules) + 1
  BY <1>1, DocFacts
<1>4. Done(at - 1)'
  BY <1>1, Frozen DEF Done, Reports
<1>5. Outcome'
  BY <1>1, <1>2, <1>3, <1>4 DEF Outcome
<1>6. Doc # Unreadable
  BY <1>1 DEF Read
<1> QED
  BY <1>1, <1>2, <1>5, <1>6 DEF SInv, Final

LEMMA ThreadFailsStep ==
  ASSUME SInv, ThreadFails
  PROVE  SInv'
<1>1. /\ Read /\ Loaded /\ config \in Configs /\ Fits /\ errors = SetErrors
      /\ at \in 1..Len(Doc.rules) + 1
      /\ phase' = "rejected" /\ errors' = Append(errors, Error("internal", None))
      /\ UNCHANGED <<config, active, catalog, at, compiled, found>>
  BY DEF SInv, ThreadFails
<1>2. /\ Doc' = Doc /\ Read' = Read /\ Loaded' = Loaded /\ SetErrors' = SetErrors
      /\ Fits' = Fits
  BY <1>1, Frozen
<1>3. errors' # <<>>
  <2> DEFINE S == {Error(r, None) : r \in {"not_newer", "model_mismatch", "too_many_rules"}}
                    \cup {Error("internal", None)}
  <2>1. SetErrors \in Seq(S)
    BY SetErrorsFacts, SeqMonotonic
  <2>2. Error("internal", None) \in S
    OBVIOUS
  <2> HIDE DEF S
  <2> QED
    BY <1>1, <2>1, <2>2, AppendProperties
<1>4. Outcome'
  BY <1>1, <1>2, <1>3 DEF Outcome
<1> QED
  BY <1>1, <1>2, <1>4 DEF SInv, Final

LEMMA SInvStep == SInv /\ [Next]_vars => SInv'
<1> SUFFICES ASSUME SInv, [Next]_vars PROVE SInv'
  OBVIOUS
<1>1. CASE LoadConfig \/ LoadCatalog \/ LoadRules
  BY <1>1, LoadStep
<1>2. CASE CheckSet
  BY <1>2, CheckSetStep
<1>3. CASE CompileRule
  BY <1>3, CompileRuleStep
<1>4. CASE Visit \/ VisitFails \/ WalkEnds
  BY <1>4, WalkStep
<1>5. CASE Join
  BY <1>5, JoinStep
<1>6. CASE ThreadFails
  BY <1>6, ThreadFailsStep
<1>7. CASE UNCHANGED vars
  <2>1. UNCHANGED <<config, active, catalog, phase, at, compiled, errors, found, stack, signals>>
    BY <1>7 DEF vars
  <2>2. /\ Doc' = Doc /\ Read' = Read /\ Loaded' = Loaded /\ SetErrors' = SetErrors
        /\ Fits' = Fits
    BY <2>1, Frozen
  <2>3. Done(at - 1) => Done(at - 1)'
    BY <2>1, Frozen DEF Done, Reports
  <2>4. Walking' = Walking
    <3>1. RuleAt' = RuleAt /\ Ast' = Ast /\ Open' = Open
      BY <2>1, <2>2 DEF RuleAt, Ast, Open
    <3>2. \A n : NodeOk(n)' = NodeOk(n)
      BY <2>1, Frozen
    <3>3. \A V : Visited(V)' = Visited(V)
      BY <2>1, <3>1, <3>2 DEF Visited
    <3> QED
      BY <2>1, <2>2, <3>1, <3>3 DEF Walking, Duplicate, RuleOk, SourceOk, ByName
  <2>5. Outcome => Outcome'
    BY <2>1, <2>2, <2>3 DEF Outcome
  <2> QED
    BY <2>1, <2>2, <2>3, <2>4, <2>5 DEF SInv
<1> QED
  BY <1>1, <1>2, <1>3, <1>4, <1>5, <1>6, <1>7 DEF Next

\* The invariant holds in every reachable state.
THEOREM StartupInvariance == Spec => []SInv
BY InitSInv, SInvStep, PTL DEF Spec
-----------------------------------------------------------------------------
(* What follows from it *)

\* The cursor of the compiler and of the walk stay inside the documents.
THEOREM StartupTypes == Spec => []TypeOK
<1>1. SInv => TypeOK
  <2> SUFFICES ASSUME SInv PROVE TypeOK
    OBVIOUS
  <2>1. phase = "walk" => \A k \in DOMAIN stack : stack[k] \in (DOMAIN Ast) \X Nat
    BY DEF SInv, Walking
  <2>2. phase \in {"rule", "walk"} => Len(compiled) + Len(found) = at - 1
    BY DEF SInv, Done
  <2> QED
    BY <2>1, <2>2 DEF SInv, TypeOK
<1> QED
  BY <1>1, StartupInvariance, PTL

\* Every faulty rule is reported, once, in order and for the right reason.
THEOREM ErrorsAreExact == Spec => []ReportsExactly
<1>1. SInv => ReportsExactly
  <2> SUFFICES ASSUME SInv, phase \in {"running", "rejected"}, Doc # None
               PROVE  /\ phase = "running" <=> errors = <<>>
                      /\ IF Len(Doc.rules) > MAX_RULES THEN errors = SetErrors
                         ELSE \/ errors = SetErrors \o found /\ Reports(found, Len(Doc.rules))
                              \/ errors = Append(SetErrors, Error("internal", None))
    BY DEF ReportsExactly
  <2>1. Outcome /\ Read /\ config \in Configs
    BY DEF SInv, Read
  <2>2. at = Len(Doc.rules) + 1 /\ Done(at - 1) => Reports(found, Len(Doc.rules))
    BY <2>1, DocFacts DEF Done
  <2> QED
    BY <2>1, <2>2 DEF Outcome, Fits
<1> QED
  BY <1>1, StartupInvariance, PTL

\* An accepted set: nothing was found, every rule passed every check.
LEMMA AcceptedFacts ==
  ASSUME SInv, Accepted
  PROVE  /\ config \in Configs /\ Read /\ Loaded
         /\ compiled \in Seq(CompiledRules) /\ DOMAIN compiled = DOMAIN Doc.rules
         /\ Len(compiled) = Len(Doc.rules)
         /\ \A i \in DOMAIN compiled : Verdict(i) = None /\ compiled[i] = CompiledOf(i)
<1>1. config \in Configs /\ Read /\ Loaded /\ Outcome /\ phase = "running"
  BY DEF SInv, Accepted, Read
<1>2. /\ errors = <<>> /\ errors = SetErrors \o found
      /\ at = Len(Doc.rules) + 1 /\ Done(at - 1)
  BY <1>1 DEF Outcome
<1>3. Len(Doc.rules) \in Nat /\ DOMAIN Doc.rules = 1..Len(Doc.rules) /\ at - 1 = Len(Doc.rules)
  BY <1>1, <1>2, DocFacts
<1>4. found = <<>>
  <2> DEFINE S == {Error(r, None) : r \in {"not_newer", "model_mismatch", "too_many_rules"}}
                    \cup RuleErrors
  <2>1. SetErrors \in Seq(S) /\ found \in Seq(S)
    BY <1>2, SetErrorsFacts, SeqMonotonic DEF Done
  <2> HIDE DEF S
  <2>2. SetErrors \o found = <<>>
    BY <1>2
  <2> QED
    BY <2>1, <2>2, ConcatEqualIffEmpty
<1>5. compiled \in Seq(CompiledRules) /\ Len(compiled) = Len(Doc.rules)
  BY <1>2, <1>3, <1>4 DEF Done
<1>6. DOMAIN compiled = DOMAIN Doc.rules
  BY <1>3, <1>5
<1>7. \A i \in 1..Len(Doc.rules) : Verdict(i) = None /\ compiled[i] = CompiledOf(i)
  BY <1>2, <1>3, <1>4 DEF Done
<1> QED
  BY <1>1, <1>3, <1>5, <1>6, <1>7

\* Every rule of an accepted set is compiled at its place, and its condition
\* reads exactly the signals that occur in it.
THEOREM CompilesFaithfully == Spec => []CompiledFaithfully
<1>1. SInv => CompiledFaithfully
  BY AcceptedFacts DEF CompiledFaithfully, CompiledOf, Compile
<1> QED
  BY <1>1, StartupInvariance, PTL

\* A rule without a verdict compiles to what the engine assumes of a rule.
LEMMA CompiledIsRule ==
  ASSUME config \in Configs, Read, NEW i \in DOMAIN Doc.rules, Verdict(i) = None
  PROVE  Compiled!IsRule(CompiledOf(i))
<1> DEFINE r == Doc.rules[i]
<1>1. IsRuleDoc(r)
  BY DocFacts
<1>2. RuleOk(r) /\ ConditionOk(r.condition)
  BY StartupAssumption DEF Verdict
<1>3. \A n : ByName(catalog, n) # None => n \in SignalNames
  BY DEF ByName, SignalNames
<1> HIDE DEF r
<1>4. r.signal \in SignalNames
  BY <1>2, <1>3 DEF RuleOk
<1> DEFINE c == IF r.condition = None THEN None ELSE [signals |-> Idents(r.condition.ast)]
<1>5. c # None => c.signals \subseteq SignalNames
  <2> SUFFICES ASSUME r.condition # None PROVE Idents(r.condition.ast) \subseteq SignalNames
    OBVIOUS
  <2>1. \A k \in DOMAIN r.condition.ast : NodeOk(r.condition.ast[k])
    BY <1>2 DEF ConditionOk
  <2> QED
    BY <2>1, <1>3 DEF NodeOk, Idents
<1>6. /\ r.interval_ms \in (0..U64Max) \cup {None} /\ r.max_age_ms \in (0..U64Max) \cup {None}
      /\ r.deadband \in Int \cup {NonFinite, None}
  BY <1>1 DEF IsRuleDoc
<1>7. CompiledOf(i) = Compile(r, c)
  BY DEF CompiledOf, r
<1> HIDE DEF c
<1> DEFINE q == CompiledOf(i)
<1>8. /\ q.signal = r.signal /\ q.mode = r.mode /\ q.interval_ms = r.interval_ms
      /\ q.max_age_ms = r.max_age_ms /\ q.deadband = r.deadband /\ q.condition = c
  BY <1>7 DEF Compile
<1> HIDE DEF q
<1>9. CASE r.mode = "on_change"
  <2>1. /\ r.interval_ms = None /\ r.max_age_ms = None
        /\ r.deadband # None =>
             /\ r.deadband # NonFinite /\ r.deadband >= 0
             /\ Kind(ByName(catalog, r.signal)) = "Num"
    BY <1>2, <1>9 DEF RuleOk
  <2>2. r.deadband # None =>
          r.deadband \in Nat /\ r.signal \in {n \in SignalNames : Kind(ByName(catalog, n)) = "Num"}
    BY <1>4, <1>6, <2>1
  <2>3. Compiled!IsRule(q)
    BY <1>4, <1>5, <1>8, <1>9, <2>1, <2>2 DEF Compiled!IsRule
  <2> QED
    BY <2>3 DEF q
<1>10. CASE r.mode = "periodic"
  <2>1. /\ r.deadband = None /\ r.interval_ms # None
        /\ r.interval_ms >= MIN_INTERVAL_MS /\ r.max_age_ms # 0
    BY <1>2, <1>10 DEF RuleOk
  <2>2. r.interval_ms \in MIN_INTERVAL_MS..U64Max /\ r.max_age_ms \in (1..U64Max) \cup {None}
    BY <1>6, <2>1, StartupAssumption
  <2>3. Compiled!IsRule(q)
    BY <1>4, <1>5, <1>8, <1>10, <2>1, <2>2 DEF Compiled!IsRule
  <2> QED
    BY <2>3 DEF q
<1> QED
  BY <1>2, <1>9, <1>10 DEF RuleOk

\* What reaches the engine is a rule set as RuleEngine assumes it, for the
\* model of this vehicle.
THEOREM EngineInput == Spec => []EngineGetsRuleSet
<1>1. SInv => EngineGetsRuleSet
  <2> SUFFICES ASSUME SInv, Accepted PROVE EngineGetsRuleSet
    BY DEF EngineGetsRuleSet
  <2> DEFINE rs == [version |-> Doc.ruleset_version, rules |-> compiled]
  <2>1. /\ config \in Configs /\ Read /\ Loaded
        /\ compiled \in Seq(CompiledRules) /\ DOMAIN compiled = DOMAIN Doc.rules
        /\ \A i \in DOMAIN compiled : Verdict(i) = None /\ compiled[i] = CompiledOf(i)
    BY AcceptedFacts
  <2>2. rs.rules = compiled
    OBVIOUS
  <2>3. compiled \in Seq({compiled[i] : i \in DOMAIN compiled})
    BY <2>1
  <2>4. \A i \in DOMAIN compiled : Compiled!IsRule(compiled[i])
    BY <2>1, CompiledIsRule
  <2>5. \A i, j \in DOMAIN compiled : compiled[i].id = compiled[j].id => i = j
    <3>1. \A i \in DOMAIN Doc.rules : i \in Nat
      BY <2>1, DocFacts
    <3>2. \A i \in DOMAIN Doc.rules : compiled[i].id = Doc.rules[i].id
      <4>1. \A i : CompiledOf(i).id = Doc.rules[i].id
        BY DEF CompiledOf, Compile
      <4> QED
        BY <2>1, <4>1
    <3>3. ASSUME NEW i \in DOMAIN Doc.rules, NEW j \in DOMAIN Doc.rules, j < i
          PROVE  Doc.rules[j].id # Doc.rules[i].id
      <4>1. j \in 1..i - 1
        BY <2>1, <3>3, DocFacts
      <4>2. Verdict(i) = None
        BY <2>1
      <4> QED
        BY <4>1, <4>2, StartupAssumption DEF Verdict
    <3> QED
      BY <2>1, <3>1, <3>2, <3>3
  <2>6. Compiled!IsRuleSet(rs)
    <3> HIDE DEF rs
    <3> QED
      BY <2>2, <2>3, <2>4, <2>5 DEF Compiled!IsRuleSet, Compiled!Defs
  <2>7. config.catalog.model = config.model
    BY <2>1 DEF Loaded, CatalogOk
  <2> QED
    BY <2>6, <2>7 DEF EngineGetsRuleSet
<1> QED
  BY <1>1, StartupInvariance, PTL
=============================================================================
