------------------------------ MODULE MCStartup -----------------------------
(* A small instance of Startup: one catalog that fits and three that do not, *)
(* every single rule over small fields, every syntax tree of up to four      *)
(* nodes, and every set of up to three rules of a pool.                      *)
EXTENDS Startup

MCSizes == [bool |-> 1, u8 |-> 1, u16 |-> 2]

Def(id, name, ty, endian, enum) ==
  [id |-> id, name |-> name, ty |-> ty, endian |-> endian, scale |-> 1, offset |-> 0,
   enum |-> enum]

Catalogue(model, defs) == [model |-> model, signals |-> defs]
Speed == Def(1, "speed", "u16", "big", None)
Gear == Def(2, "gear", "u8", None, <<[raw |-> 0, label |-> "P"], [raw |-> 1, label |-> "D"]>>)
Good == Catalogue("M", <<Speed, Gear>>)

RuleDoc(id, signal, mode, interval, age, deadband, condition) ==
  [id |-> id, signal |-> signal, mode |-> mode, interval_ms |-> interval,
   max_age_ms |-> age, deadband |-> deadband, condition |-> condition]

Set(version, model, rules) == [ruleset_version |-> version, model |-> model, rules |-> rules]
Config(model, cat, rules) ==
  [vin |-> "V", model |-> model, max_file_bytes |-> 4, max_files |-> 1,
   catalog |-> cat, rules_file |-> rules]

Node(tag, arg, args) == [tag |-> tag, arg |-> arg, args |-> args]
NodeKinds == {<<"Ident", "speed">>, <<"Ident", "gear">>, <<"Ident", "nope">>,
              <<"Literal", "int">>, <<"Literal", "null">>,
              <<"Call", "_&&_">>, <<"Call", "size">>, <<"Select", "f">>}

\* p gives each node its parent, the root 0.
Trees(n) == {p \in [1..n -> 0..n - 1] : \A i \in 1..n : p[i] < i /\ (p[i] = 0 <=> i = 1)}
ArgsOf(p, i) == SelectSeq([k \in DOMAIN p |-> k], LAMBDA k : p[k] = i)

Asts(n) ==
  {[i \in 1..n |-> Node(kp[1][i][1], kp[1][i][2], ArgsOf(kp[2], i))] :
     kp \in {x \in [1..n -> NodeKinds] \X Trees(n) :
              \A i \in 2..n : x[1][x[2][i]][1] \in {"Call", "Select"}}}

Cond(ast) == [chars |-> 5, ast |-> ast]
Plain(id, c) == RuleDoc(id, "speed", "on_change", None, None, None, c)

And(args) == <<Node("Call", "_&&_", [i \in DOMAIN args |-> i + 1])>>
               \o [i \in DOMAIN args |-> Node("Ident", args[i], <<>>)]

Pool == {Plain("a", None), Plain("b", Cond(And(<<"speed", "gear">>))),
         Plain("c", [chars |-> 9, ast |-> And(<<"speed">>)]), Plain("c", Cond(None)),
         RuleDoc("a", "gear", "periodic", 1, None, None, None),
         RuleDoc("a", "gear", "on_change", None, None, 0, Cond(And(<<"nope">>)))}

Singles ==
  {RuleDoc(id, s, m, i, a, d, None) :
     id \in {"a", "A!"}, s \in {"speed", "gear", "nope"}, m \in {"on_change", "periodic"},
     i \in {None, 0, 1, 2}, a \in {None, 0, 1}, d \in {None, NonFinite, -1, 0}}

MCConfigs ==
  {Config("M", c, None) :
     c \in {Good, Unreadable, Catalogue("", <<>>), Catalogue("N", <<Speed>>),
            Catalogue("M", <<Speed, Speed>>), Catalogue("M", <<[Speed EXCEPT !.endian = None]>>),
            Catalogue("M", <<Speed, [Gear EXCEPT !.name = "Gear"]>>)}}
  \cup {[Config("M", Good, None) EXCEPT ![f] = x] : f \in {"max_files", "max_file_bytes"}, x \in {0, 9}}
  \cup {[Config("M", Good, None) EXCEPT ![f] = ""] : f \in {"vin", "model"}}
  \cup {Config("M", c, Set(2, m, <<Plain("a", None)>>)) :
          c \in {Good, Unreadable, Catalogue("N", <<Gear>>)}, m \in {"M", "N", "*"}}
  \cup {Config("M", Good, Unreadable)}
  \cup {Config("M", Good, Set(1, "M", <<r>>)) : r \in Singles}
  \cup {Config("M", Good, Set(2, "M", <<Plain("a", Cond(a))>>)) : a \in UNION {Asts(n) : n \in 1..4}}
  \cup {Config("M", Good, Set(2, "*", rs)) : rs \in UNION {[1..n -> Pool] : n \in 0..4}}
=============================================================================
