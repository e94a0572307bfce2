------------------------------- MODULE Catalog ------------------------------
(***************************************************************************)
(* The signal catalog of crates/protocol/src/catalog.rs: what a catalog    *)
(* document must satisfy, which error it is rejected with, and the lookup  *)
(* tables of an accepted one.                                              *)
(*                                                                         *)
(* A SignalDef is a record of its fields; scale and offset are f64s, as    *)
(* Wire counts them, or NonFinite.  An enum is the sequence of its entries *)
(* in the order of the BTreeMap they are parsed into, each with the        *)
(* integer its key parses to, or None; keys that differ as text may parse  *)
(* to the same integer.                                                    *)
(***************************************************************************)
EXTENDS Integers, SequencesExt

CONSTANTS
  Sizes,     \* Sizes[ty]: the payload bytes of a signal type
  BASE,      \* the number of values of a byte
  BadNames,  \* names that do not match ^[a-z][a-z0-9_]{0,63}$
  NonFinite, \* an infinity or a NaN
  None       \* Rust's None

ASSUME WidthAssumption ==
  /\ BASE \in Nat \ {0} /\ BASE % 2 = 0
  /\ \A ty \in DOMAIN Sizes : Sizes[ty] \in Nat \ {0}
  /\ {"bool", "u8"} \subseteq DOMAIN Sizes /\ Sizes["bool"] = 1 /\ Sizes["u8"] = 1

ASSUME NoneAssumption ==
  /\ None \notin {"EmptyModel", "DuplicateId", "DuplicateName", "InvalidName",
                  "MissingEndian", "InvalidScaleOffset", "InvalidEnum"}
  /\ None \notin Int /\ None \notin STRING /\ None \notin Seq(Int) /\ NonFinite \notin Int

SignedTypes == {"i8", "i16", "i32", "i64"}
FloatTypes == {"f32", "f64"}

Size(ty) == Sizes[ty]

\* The number of values that w bytes have.
Codes(w) ==
  LET n[k \in 0..w] == IF k = 0 THEN 1 ELSE n[k - 1] * BASE
  IN  n[w]

\* int_range: empty for bool and the floats.
IntRange(ty) ==
  IF ty \in FloatTypes \cup {"bool"} THEN {}
  ELSE IF ty \in SignedTypes
       THEN LET half == Codes(Size(ty)) \div 2 IN -half .. half - 1
       ELSE 0 .. Codes(Size(ty)) - 1
-----------------------------------------------------------------------------
(* Signal::new *)

\* A bug: keys are not checked against the range of the type.
EnumOk_NoRange(d) ==
  /\ IntRange(d.ty) # {} /\ d.enum # <<>>
  /\ \A i \in DOMAIN d.enum : d.enum[i].raw # None /\ d.enum[i].label # ""
  /\ \A i, j \in DOMAIN d.enum : d.enum[i].label = d.enum[j].label => i = j

EnumOk(d) ==
  /\ IntRange(d.ty) # {} /\ d.enum # <<>>
  /\ \A i \in DOMAIN d.enum : d.enum[i].raw \in IntRange(d.ty) /\ d.enum[i].label # ""
  /\ \A i, j \in DOMAIN d.enum : d.enum[i].label = d.enum[j].label => i = j

SignalError(d) ==
  IF d.name \in BadNames THEN "InvalidName"
  ELSE IF Size(d.ty) > 1 /\ d.endian = None THEN "MissingEndian"
  ELSE IF d.scale \in {0, NonFinite} \/ d.offset = NonFinite THEN "InvalidScaleOffset"
  ELSE IF d.enum # None /\ ~EnumOk(d) THEN "InvalidEnum"
  ELSE None

Entries(d) == IF d.enum = None THEN <<>> ELSE d.enum

\* A later entry with the same integer replaces an earlier one ...
EnumByRaw(d) ==
  LET e == Entries(d)
  IN  [r \in {e[i].raw : i \in DOMAIN e} |->
         e[CHOOSE i \in DOMAIN e :
             e[i].raw = r /\ \A j \in DOMAIN e : e[j].raw = r => j <= i].label]

\* ... but keeps its label here.
EnumByLabel(d) ==
  LET e == Entries(d)
  IN  [l \in {e[i].label : i \in DOMAIN e} |->
         e[CHOOSE i \in DOMAIN e : e[i].label = l].raw]

NewSignal(d) == [def |-> d, enum_by_raw |-> EnumByRaw(d), enum_by_label |-> EnumByLabel(d)]

Endian(s) == IF s.def.endian = None THEN "big" ELSE s.def.endian

Kind(s) == IF s.def.ty = "bool" THEN "Bool"
           ELSE IF s.def.enum # None THEN "Enum" ELSE "Num"

EnumLabel(s, raw) == IF raw \in DOMAIN s.enum_by_raw THEN s.enum_by_raw[raw] ELSE None
EnumRaw(s, label) ==
  IF label \in DOMAIN s.enum_by_label THEN s.enum_by_label[label] ELSE None
-----------------------------------------------------------------------------
(* Catalog::new *)

DefError(defs, i) ==
  IF \E j \in 1..i - 1 : defs[j].id = defs[i].id THEN "DuplicateId"
  ELSE IF \E j \in 1..i - 1 : defs[j].name = defs[i].name THEN "DuplicateName"
  ELSE SignalError(defs[i])

\* The first problem met, or None: the catalog is accepted.
CatalogError(doc) ==
  LET bad == {i \in DOMAIN doc.signals : DefError(doc.signals, i) # None}
  IN  IF doc.model = "" THEN "EmptyModel"
      ELSE IF bad = {} THEN None
      ELSE DefError(doc.signals, Min(bad))

NewCatalog(doc) ==
  LET defs == doc.signals
      at(P(_)) == CHOOSE i \in DOMAIN defs : P(defs[i])
  IN  [model   |-> doc.model,
       signals |-> [i \in DOMAIN defs |-> NewSignal(defs[i])],
       by_id   |-> [x \in {defs[i].id : i \in DOMAIN defs} |-> at(LAMBDA d : d.id = x)],
       by_name |-> [n \in {defs[i].name : i \in DOMAIN defs} |->
                      at(LAMBDA d : d.name = n)]]

ById(cat, id) == IF id \in DOMAIN cat.by_id THEN cat.signals[cat.by_id[id]] ELSE None
ByName(cat, name) ==
  IF name \in DOMAIN cat.by_name THEN cat.signals[cat.by_name[name]] ELSE None
=============================================================================
