---------------------------- MODULE MCSimulator -----------------------------
(* A small instance of Simulator: bytes of 8 values, one-byte ids, stamps    *)
(* and small types, a two-byte u16 and a three-byte u64 whose larger values  *)
(* an f64 does not hold.  The f64s have 5 bits, from 1/32 on, and the f32s   *)
(* fewer: the number 1 is 32.                                                *)
EXTENDS Simulator

MCSizes == [bool |-> 1, u8 |-> 1, i8 |-> 1, u16 |-> 2, i16 |-> 2, u64 |-> 3,
            f32 |-> 2, f64 |-> 3]

MCUlps == {2 ^ k : k \in 0..14}

\* The codes of the float types: the numbers from 0 up, what is not finite, and
\* the same with the sign bit.
F32Codes == [i \in 1..32 |->
  IF i <= 9 THEN 16 * (i - 1)
  ELSE IF i <= 13 THEN 128 + 32 * (i - 9)
  ELSE IF i <= 17 THEN 256 + 64 * (i - 13)
  ELSE IF i <= 20 THEN 512 + 128 * (i - 17) ELSE NonFinite]

F64Codes == [i \in 1..256 |->
  IF i <= 32 THEN i - 1
  ELSE IF i <= 240 THEN 2 ^ ((i - 17) \div 16) * (16 + ((i - 1) % 16)) ELSE NonFinite]

MCFloats ==
  [f32 |-> F32Codes \o [i \in 1..32 |-> IF i <= 20 THEN -F32Codes[i] ELSE NonFinite],
   f64 |-> F64Codes \o [i \in 1..256 |-> IF i <= 240 THEN -F64Codes[i] ELSE NonFinite]]

Def(id, name, ty, endian, scale, offset, enum) ==
  [id |-> id, name |-> name, ty |-> ty, endian |-> endian, scale |-> scale,
   offset |-> offset, enum |-> enum]

Gears == <<[raw |-> 1, label |-> "D"], [raw |-> 0, label |-> "P"], [raw |-> 1, label |-> "R"]>>
Doc(defs) == [model |-> "T", signals |-> defs]

Entry(raw, label) == [raw |-> raw, label |-> label]
Enums == {<<Entry(r, "P"), Entry(q, l)>> :
            r \in {None, -5, 0, 1}, q \in {-1, 1, 7, 8}, l \in {"", "P", "D"}}

\* Documents that are rejected, and some on the edge of it.
Edges ==
  {Doc(<<Def(0, "gear", ty, None, ONE, 0, e)>>) :
     ty \in {"u8", "i8", "bool", "f32"}, e \in Enums \cup {<<>>}}
  \cup {Doc(<<Def(0, "temp", "u8", None, ONE, 0, None),
              Def(id, n, "i16", e, sc, off, None)>>) :
           id \in {0, 1}, n \in {"temp", "soc", "Door"}, e \in {None, "big", "little"},
           sc \in {0, ONE, NonFinite}, off \in {0, NonFinite}}
  \cup {[model |-> "", signals |-> <<>>]}

MCDocs ==
  Edges \cup
  {Doc(<<Def(0, "door", "bool", None, ONE, 0, None), Def(1, "temp", "i8", None, 64, 32, None)>>),
   Doc(<<Def(1, "gear", "u8", None, ONE, 0, Gears), Def(2, "speed", "u16", "little", -32, 96, None)>>),
   Doc(<<Def(0, "speed", "i16", "big", 32, 0, None), Def(1, "soc", "f64", "big", 64, 32, None)>>),
   Doc(<<Def(6, "temp", "f32", "little", -32, 0, None), Def(4, "speed", "u64", "little", 32, 64, None)>>),
   Doc(<<Def(0, "gear", "i8", None, ONE, 0, Gears), Def(1, "other", "u64", "big", 3200, 0, None),
         Def(2, "door", "bool", None, ONE, 0, None)>>),
   Doc(<<Def(3, "odo", "u64", "big", 4, 0, None), Def(5, "soc", "f64", "little", 1, 0, None)>>),
   Doc(<<Def(3, "odo", "u64", "big", 96, 0, None)>>)}

Num(S) == {Value("Num", n) : n \in S}

MCReadings ==
  [door |-> {Value("Bool", TRUE), Value("Bool", FALSE)},
   temp |-> Num({-256, -224, -208, -28, 0, 16, 32, 64, 224, 240, 256, 960}),
   gear |-> {Value("Enum", l) : l \in {"P", "D", "R", "N"}},
   speed |-> Num({-1088, -1024, -32, -16, 0, 48, 96, 128, 400, 992, 1024, 1536, 2048, 6400,
                  16384, 253952}),
   soc |-> Num({-192, -96, 0, 1, 30, 32, 64, 136, 288, 672, 16384}),
   odo |-> Num({-4, 0, 4, 6, 10, 768, 800, 1984, 2048, 9216})]

Strings(S, n) == UNION {[1..k -> S] : k \in 0..n}

MCRandomDatagrams ==
  Strings(0..2, 4)
    \cup {<<1, 1, c>> \o t : c \in {0, 1, 2, 3, 4, 7}, t \in Strings(0..2, 7)}
    \cup {<<1, 1, 1, id, 0, 3>> \o t : id \in {1, 3, 4}, t \in Strings({0, 1, 3, 7}, 4)}
    \cup {<<1, 1, 1, 6, 0, 2>> \o t : t \in Strings(0..7, 2)}
=============================================================================
