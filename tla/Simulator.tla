------------------------------ MODULE Simulator -----------------------------
(***************************************************************************)
(* A sender of crates/simulator and the decoder of the daemon: the values  *)
(* of the simulated signals are encoded against the catalog, made into a   *)
(* packet that is valid or malformed in one of the ways of garbage.rs, and *)
(* the datagram is decoded by Wire against the same catalog.               *)
(***************************************************************************)
EXTENDS Wire

CONSTANTS
  Docs,             \* catalog documents
  Readings,         \* Readings[name]: the values of a simulated signal
  Stamps,           \* values of the vehicle's clock
  RandomDatagrams,  \* what RandomBytes may send
  OTHER_MAGIC,      \* 0xDEAD
  FirstUnknown,     \* 0xF000, from where an id not in the catalog is sought
  MaxExtra          \* bound on the bytes added at random

VARIABLES
  kind,  \* the GarbageKind of the datagram, or None for a valid packet
  sent   \* the signals of the packet with the values they were given

\* A SignalDef as it is parsed, valid or not, and a value of a signal.
SignalDefs ==
  [id : 0..Codes(U16Len) - 1, name : STRING, ty : DOMAIN Sizes,
   endian : {"big", "little", None},
   scale : F64s \cup {NonFinite}, offset : F64s \cup {NonFinite},
   enum : {None} \cup Seq([raw : Int \cup {None}, label : STRING])]

SignalValues ==
  [kind : {"Bool"}, v : BOOLEAN] \cup [kind : {"Enum"}, v : STRING] \cup [kind : {"Num"}, v : F64s]

\* GarbageKind::ALL but RandomBytes, which SendRandom sends.
Kinds == {"BadMagic", "BadVersion", "ZeroFrames", "Truncated", "LengthMismatch",
          "UnknownSignal", "Oversize", "TrailingBytes"}

ASSUME SenderAssumption ==
  /\ None \notin Kinds \cup {"RandomBytes"}
  /\ Docs \subseteq [model : STRING, signals : Seq(SignalDefs)]
  /\ \A doc \in Docs : \A i \in DOMAIN doc.signals : NewSignal(doc.signals[i]) # None
  /\ \A name \in DOMAIN Readings : Readings[name] \subseteq SignalValues
  /\ Stamps \subseteq 0..Codes(U64Len) - 1
  /\ RandomDatagrams \subseteq Seq(0..BASE - 1)
  /\ {MAGIC, OTHER_MAGIC} \subseteq 0..Codes(U16Len) - 1 /\ OTHER_MAGIC # MAGIC
  /\ VERSION < BASE /\ MAX_FRAMES < BASE
  /\ FirstUnknown \in Nat /\ MaxExtra \in Nat

vars == <<wireVars, kind, sent>>

Catalogs == {NewCatalog(d) : d \in {doc \in Docs : CatalogError(doc) = None}}

Init ==
  /\ catalog \in Catalogs
  /\ DecoderInit /\ kind = None /\ sent = <<>>
-----------------------------------------------------------------------------
(* vehicle.frames *)

Simulated ==
  LET signals == catalog.signals
      known[i \in 0..Len(signals)] ==
        IF i = 0 THEN <<>>
        ELSE IF signals[i].def.name \in DOMAIN Readings THEN Append(known[i - 1], signals[i])
        ELSE known[i - 1]
  IN  known[Len(signals)]

\* The signals the simulator knows, each with a value it may have.
Vehicles ==
  {v \in [DOMAIN Simulated -> UNION {Readings[Simulated[i].def.name] : i \in DOMAIN Simulated}] :
     \A i \in DOMAIN v : v[i] \in Readings[Simulated[i].def.name]}

RawFrames(v, ts) ==
  [i \in DOMAIN v |-> [signal_id    |-> Simulated[i].def.id,
                       timestamp_us |-> ts,
                       payload      |-> EncodeValue(Simulated[i], v[i]).ok]]

Encodable(v) == \A i \in DOMAIN v : EncodeValue(Simulated[i], v[i]).err = None
-----------------------------------------------------------------------------
(* garbage::malformed: the packets of each kind *)

Patched(bytes, i, patch) ==
  [j \in DOMAIN bytes |-> IF j \in i..i + Len(patch) - 1 THEN patch[j - i + 1] ELSE bytes[j]]

BadMagic(bytes) == {Patched(bytes, 1, ToBe(OTHER_MAGIC, U16Len))}

BadVersion(bytes) == {Patched(bytes, U16Len + 1, <<v>>) : v \in VERSION + 1..BASE - 1}

ZeroFrames == {ToBe(MAGIC, U16Len) \o <<VERSION, 0>>}

\* Cut into the last frame only.
Truncated(bytes, frames) ==
  {SubSeq(bytes, 1, Len(bytes) - c) :
     c \in 1..FRAME_HEADER_LEN + Len(Last(frames).payload)}

\* A packet that cannot be encoded ends the simulator.
Encoded(packets) ==
  {EncodePacket(p).ok : p \in {q \in packets : EncodePacket(q).err = None}}

LengthMismatch(frames) == Encoded({[frames EXCEPT ![1].payload = Append(@, 0)]})

RandomBytes(n) == UNION {[1..k -> 0..1] : k \in 1..n}

\* The ids that find looks for; a catalog may have them all.
FreeIds == FirstUnknown..Codes(U16Len) - 1 \ DOMAIN catalog.by_id

UnknownSignal(frames) ==
  LET id == IF FreeIds = {} THEN Codes(U16Len) - 1 ELSE Min(FreeIds)
  IN  Encoded({<<[signal_id |-> id, timestamp_us |-> frames[1].timestamp_us,
                  payload |-> p]>> \o frames : p \in RandomBytes(MaxExtra)})

Oversize(bytes) ==
  {bytes \o [i \in 1..MAX_DATAGRAM_LEN + k - Len(bytes) |-> 0] : k \in 1..MaxExtra}

TrailingBytes(bytes) == {bytes \o t : t \in RandomBytes(MaxExtra)}

Malformed(k, bytes, frames) ==
  CASE k = "BadMagic" -> BadMagic(bytes)
    [] k = "BadVersion" -> BadVersion(bytes)
    [] k = "ZeroFrames" -> ZeroFrames
    [] k = "Truncated" -> Truncated(bytes, frames)
    [] k = "LengthMismatch" -> LengthMismatch(frames)
    [] k = "UnknownSignal" -> UnknownSignal(frames)
    [] k = "Oversize" -> Oversize(bytes)
    [] k = "TrailingBytes" -> TrailingBytes(bytes)
-----------------------------------------------------------------------------
(* garbage::packet and send_to *)

\* A value that its signal cannot carry ends the simulator: nothing is sent.
Send ==
  /\ status = "idle"
  /\ \E v \in Vehicles, ts \in Stamps :
       /\ Encodable(v) /\ EncodePacket(RawFrames(v, ts)).err = None
       /\ sent' = v
       /\ LET frames == RawFrames(v, ts)
              bytes  == EncodePacket(frames).ok
          IN  \/ kind' = None /\ Arrives(bytes)
              \/ \E k \in Kinds : \E m \in Malformed(k, bytes, frames) :
                   kind' = k /\ Arrives(m)

SendRandom ==
  /\ status = "idle"
  /\ \E bytes \in RandomDatagrams : Arrives(bytes)
  /\ kind' = "RandomBytes"
  /\ UNCHANGED sent

Next == Send \/ SendRandom \/ (Decode /\ UNCHANGED <<kind, sent>>)

Spec == Init /\ [][Next]_vars
-----------------------------------------------------------------------------
Reasons == [i \in DOMAIN out.errors |-> out.errors[i].kind]
Rejected == status \in PacketErrors

\* What bounds the numbers of a conversion.
Span(d, v) == Abs(v) + Abs(d.offset) + Abs(d.scale)

\* The distance of the floats at that size: what one rounding can be off by is
\* half of it.
Unit(d, v) == Ulp(Span(d, v), 1)

\* No number is so near the largest float that a sum overflows.
Far(d, v) == 8 * Span(d, v) <= FloatMax

FarFromOverflow ==
  \A i \in DOMAIN sent : sent[i].kind = "Num" => Far(Simulated[i].def, sent[i].v)

\* Each kind of malformed packet takes the decoder's path it is made for, with
\* no other error, and the frames it leaves whole are all decoded
\* (garbage.rs: "Each kind targets one decoder path").  Trailing bytes that make
\* a packet too long are rejected with it, and there may be no unknown id.
KindHitsItsPath ==
  LET ends(n, reasons) ==
        status = "done" /\ FarFromOverflow => Len(out.samples) = n /\ Reasons = reasons
      n == Len(sent)
  IN  /\ kind \in {"BadMagic", "BadVersion", "ZeroFrames", "Oversize"} =>
           /\ status \notin {"frames", "done"}
           /\ Rejected => status = CASE kind = "BadMagic" -> "bad_magic"
                                     [] kind = "BadVersion" -> "bad_version"
                                     [] kind = "ZeroFrames" -> "zero_frames"
                                     [] kind = "Oversize" -> "oversize"
      /\ kind \in {"Truncated", "LengthMismatch", "UnknownSignal", "TrailingBytes"} /\ Rejected =>
           kind = "TrailingBytes" /\ Len(buf) > MAX_DATAGRAM_LEN
      /\ kind = "Truncated" => ends(n - 1, <<"truncated">>)
      /\ kind = "LengthMismatch" => ends(n - 1, <<"length_mismatch">>)
      /\ kind = "TrailingBytes" => ends(n, <<"trailing_bytes">>)
      /\ kind = "UnknownSignal" /\ FreeIds # {} =>
           ends(n, <<>>) /\ (status = "done" => out.unknown_signals = 1)

Unambiguous(s) ==
  \A i, j \in DOMAIN Entries(s.def) : s.def.enum[i].raw = s.def.enum[j].raw => i = j

\* What is received is what was sent: a bool and an enum label exactly, unless
\* two keys of the enum are the same integer; an integer type to half a step of
\* its scale, so that no value is clamped or wrapped into the range of its wire
\* type; an f32 as close as the nearest one is; an f64 as it is; and all numbers
\* but for the roundings on the way, four units at most, eight for an f32.
Received(s, v, w) ==
  LET d    == s.def
      miss == Abs(w.v - v.v)
      unit == Unit(d, v.v)
  IN  CASE v.kind = "Bool" -> w = v
        [] v.kind = "Enum" -> IF Unambiguous(s) THEN w = v ELSE EnumRaw(s, w.v) = EnumRaw(s, v.v)
        [] v.kind = "Num" /\ d.ty \notin FloatTypes -> 2 * miss <= Abs(d.scale) + 8 * unit
        [] v.kind = "Num" /\ d.ty = "f64" -> miss <= 4 * unit
        [] v.kind = "Num" /\ d.ty = "f32" ->
             \A x \in Numbers("f32") :
               ONE * miss <= Abs(x * d.scale + (d.offset - v.v) * ONE) + 8 * unit * ONE

\* A valid packet arrives whole, each sample under the id and the name of the
\* signal that was sent, with the value that was sent.
RoundTrip ==
  kind = None /\ status = "done" /\ FarFromOverflow =>
    /\ out.errors = <<>> /\ out.unknown_signals = 0
    /\ Len(out.samples) = Len(sent)
    /\ \A i \in DOMAIN sent :
         LET s == Simulated[i]
         IN  /\ out.samples[i].signal_id = s.def.id /\ out.samples[i].name = s.def.name
             /\ Received(s, sent[i], out.samples[i].value)

\* Every signal of an accepted catalog can be used: it is found under its id and
\* under its name, and each label of an enum can be sent and arrives as the
\* integer it stands for (validation in Signal::new and Catalog::new).
CatalogUsable ==
  \A i \in DOMAIN catalog.signals :
    LET s == catalog.signals[i]
    IN  /\ ById(catalog, s.def.id) = s /\ ByName(catalog, s.def.name) = s
        /\ \A e \in DOMAIN Entries(s.def) :
             LET sent_as == EncodeValue(s, Value("Enum", s.def.enum[e].label))
                 got == DecodeValue(s, sent_as.ok)
             IN  sent_as.err = None /\ EnumRaw(s, got.ok.v) = s.def.enum[e].raw

\* raw * scale + offset is computed without rounding.
ExactlyPhysical(d, raw) ==
  LET x == AsFloat(d.ty, raw)
      y == Mul(x, d.scale)
  IN  /\ d.ty \notin FloatTypes => x = raw * ONE
      /\ y * ONE = x * d.scale
      /\ IsF64(y + d.offset)

\* The roundings between a raw integer and the value w it stands for are too
\* small for a step.
Apart(d, raw, w) ==
  /\ d.ty \notin FloatTypes /\ FromInt(raw) = raw * ONE
  /\ Far(d, w) /\ 8 * Unit(d, w) <= Abs(d.scale)

\* encode_value is the inverse of decode_value, whatever bytes arrive: encoding
\* what a payload was decoded to gives a payload that reads as the same, for
\* every bool and enum and for every number that was decoded without rounding or
\* with roundings below its step.  (A rounded u64 does not come back; at the top
\* of the range it is not even in range.)
EncodesBack ==
  \A i \in DOMAIN read :
    LET s    == ById(catalog, read[i].signal_id)
        p    == read[i].payload
        raw  == ReadRaw(s.def.ty, Endian(s), p)
        w    == DecodeValue(s, p).ok
        back == EncodeValue(s, w)
    IN  FrameOutcome(read[i]) = "sample" =>
          \/ /\ back.err = None /\ Len(back.ok) = Len(p)
             /\ ReadRaw(s.def.ty, Endian(s), back.ok) = raw
          \/ /\ Kind(s) = "Num"
             /\ ~ExactlyPhysical(s.def, raw) /\ ~Apart(s.def, raw, w.v)
=============================================================================
