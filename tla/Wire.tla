-------------------------------- MODULE Wire --------------------------------
(***************************************************************************)
(* The UDP wire format of crates/protocol/src/wire.rs: the conversion of   *)
(* values to payloads and back, encode_packet, and decode_packet as a walk *)
(* of a cursor over a datagram, one step per frame.                        *)
(*                                                                         *)
(* Every field keeps its place and byte order; the widths and limits are   *)
(* constants, so that small ones can be checked exhaustively.  Every       *)
(* finite f64 is a multiple of the smallest positive one, 2^-1074, and is  *)
(* kept as that multiple: the number 1 is ONE of them.  Each operation     *)
(* rounds as IEEE 754 has it.  The sign of a zero is left out, and what is *)
(* not finite is NonFinite.                                                *)
(***************************************************************************)
EXTENDS Catalog

CONSTANTS
  MAGIC, VERSION, MAX_FRAMES, MAX_DATAGRAM_LEN,
  U16Len, U64Len,  \* widths of the header fields
  ONE,             \* the number 1
  EXACT,           \* 2^53: every float up to it is exact, and at a distance of 1
  Ulps,            \* the distances of neighbouring floats, powers of 2
  FloatMax,        \* the largest finite float
  I128Max,         \* where the cast of a float to i128 saturates
  Floats,          \* Floats[ty][n + 1]: what the payload n of a float type holds
  F32Limit         \* from here on a number does not fit an f32

VARIABLES
  catalog,
  buf,     \* the datagram
  pos,     \* the cursor of the Reader
  out,     \* the DecodedPacket so far
  status,  \* "idle", "frames", "done" or the reason of a PacketError
  read     \* history: the frames the cursor has passed

ASSUME WireAssumption ==
  /\ U16Len \in Nat \ {0} /\ U64Len \in Nat \ {0}
  /\ MAX_FRAMES \in Nat /\ MAX_DATAGRAM_LEN \in Nat /\ MAGIC \in Nat /\ VERSION \in Nat
  /\ None \notin {"oversize", "truncated", "bad_magic", "bad_version", "zero_frames",
                  "too_many_frames", "no_frames", "payload_too_long", "kind_mismatch",
                  "unknown_enum_label", "out_of_range", "length_mismatch", "invalid_value"}

wireVars == <<catalog, buf, pos, out, status, read>>

PACKET_HEADER_LEN == U16Len + 2
FRAME_HEADER_LEN == U16Len + U64Len + 1
-----------------------------------------------------------------------------
(* Numbers *)

Abs(x) == IF x < 0 THEN -x ELSE x

\* from_be_bytes, and to_be_bytes by shifting out a byte at a time.
Be(bytes) ==
  LET n[i \in 0..Len(bytes)] == IF i = 0 THEN 0 ELSE n[i - 1] * BASE + bytes[i]
  IN  n[Len(bytes)]

ToBe(n, w) ==
  LET shifted[k \in 0..w] == IF k = 0 THEN n ELSE shifted[k - 1] \div BASE
  IN  [i \in 1..w |-> shifted[w - i] % BASE]

Ordered(endian, bytes) == IF endian = "little" THEN Reverse(bytes) ELSE bytes

\* The distance of the floats around x/y, and the multiple of it nearest to x/y,
\* the even one if there are two.
Ulp(x, y) ==
  CHOOSE u \in Ulps : x <= EXACT * u * y /\ (u = 1 \/ x > EXACT * (u \div 2) * y)

ToEven(x, y, ulp) ==
  LET q == x \div (ulp * y)
      r == x % (ulp * y)
  IN  ulp * IF 2 * r > ulp * y \/ (2 * r = ulp * y /\ q % 2 = 1) THEN q + 1 ELSE q

\* The f64 nearest to a/b: what an operation with that exact result returns.
F64(a, b) ==
  LET x == Abs(a)
      y == Abs(b)
      f == ToEven(x, y, Ulp(x, y))
  IN  IF x \div y >= 2 * FloatMax \/ f > FloatMax THEN NonFinite
      ELSE IF (a < 0) # (b < 0) THEN -f ELSE f

IsF64(n) == F64(n, 1) = n
F64s == {n \in Int : IsF64(n)}

Mul(x, y) == F64(x * y, ONE)
Div(x, y) == F64(x * ONE, y)
FromInt(i) == F64(i * ONE, 1)

\* A bug: the cast without the rounding.
Round_Cast(x) == IF x < 0 THEN -(-x \div ONE) ELSE x \div ONE

\* f64::round, half away from zero, as an integer.
Round(x) ==
  LET n == (2 * Abs(x) + ONE) \div (2 * ONE)
  IN  IF x < 0 THEN -n ELSE n

\* A bug: a cast that wraps around.
Saturated_Wraps(n) == ((n + I128Max + 1) % (2 * I128Max + 2)) - I128Max - 1

\* The cast of an integral float to i128.
Saturated(n) == IF n > I128Max THEN I128Max ELSE IF n < -I128Max - 1 THEN -I128Max - 1 ELSE n

\* The numbers that a float type has.
Numbers(ty) == Range(Floats[ty]) \ {NonFinite}

\* What the model of the floats takes from IEEE 754, and from i128, which is
\* wider than every integer of the wire; an f64 is read and written as it is.
ASSUME FloatAssumption ==
  /\ EXACT \in Nat /\ EXACT >= 8 /\ FloatMax \in Nat
  /\ Ulps \subseteq Nat \ {0} /\ {1, ONE} \subseteq Ulps /\ EXACT <= ONE
  /\ \A u \in Ulps \ {1} : u \div 2 \in Ulps /\ u % 2 = 0
  /\ \A u, w \in Ulps : u <= w => w % u = 0
  /\ FloatMax \in F64s /\ \E u \in Ulps : 2 * FloatMax <= EXACT * u
  /\ I128Max \in Nat /\ 4 * EXACT <= FloatMax /\ (I128Max + 1) * ONE <= FloatMax
  /\ \A ty \in DOMAIN Sizes \ FloatTypes : Codes(Sizes[ty]) <= I128Max
  /\ \A ty \in DOMAIN Sizes \cap FloatTypes :
       /\ Floats[ty] \in [1..Codes(Sizes[ty]) -> Int \cup {NonFinite}]
       /\ 0 \in Numbers(ty)
       /\ Numbers(ty) \subseteq F64s
  /\ "f64" \in DOMAIN Sizes =>
       \A x \in -FloatMax..FloatMax : x \in F64s => x \in Numbers("f64")
  /\ F32Limit \in Nat
  /\ "f32" \in DOMAIN Sizes =>
       \A x \in Numbers("f32") : -F32Limit < x /\ x < F32Limit
-----------------------------------------------------------------------------
(* Raw payloads *)

ReadRaw(ty, endian, p) ==
  LET n == Be(Ordered(endian, p))
      m == Codes(Size(ty))
  IN  IF ty \in FloatTypes THEN Floats[ty][n + 1]
      ELSE IF ty \in SignedTypes /\ 2 * n >= m THEN n - m ELSE n

\* A bug: the byte order of the signal is not applied.
Bytes_Big(ty, endian, n) == ToBe(n % Codes(Size(ty)), Size(ty))

Bytes(ty, endian, n) == Ordered(endian, ToBe(n % Codes(Size(ty)), Size(ty)))

\* A bug: an `as` cast instead of try_from.
WriteInt_Wraps(ty, endian, i) == Bytes(ty, endian, i)

\* None if the integer is not in the range of the wire type.
WriteInt(ty, endian, i) ==
  IF i \in IntRange(IF ty = "bool" THEN "u8" ELSE ty) THEN Bytes(ty, endian, i) ELSE None

Holds(ty, n, x) == Floats[ty][n + 1] = x

\* The cast to f32: the nearest number, the one with an even payload if there are two.
AsF32(x) ==
  LET numbers == Numbers("f32")
      nearest == {z \in numbers : \A y \in numbers : Abs(z - x) <= Abs(y - x)}
      even(z) == \E n \in 0..Codes(Size("f32")) - 1 : n % 2 = 0 /\ Holds("f32", n, z)
  IN  CHOOSE z \in nearest : (\E y \in nearest : even(y)) => even(z)

\* None if the number overflows an f32; an f64 is written as it is.
WriteFloat(ty, endian, x) ==
  LET y == IF ty = "f32" THEN AsF32(x) ELSE x
  IN  IF ty = "f32" /\ Abs(x) >= F32Limit THEN None
      ELSE Bytes(ty, endian, CHOOSE n \in 0..Codes(Size(ty)) - 1 : Holds(ty, n, y))
-----------------------------------------------------------------------------
(* decode_value and encode_value: a value or a payload, or the error *)

Ok(v) == [err |-> None, ok |-> v]
Err(e) == [err |-> e, ok |-> None]
Value(kind, v) == [kind |-> kind, v |-> v]

\* The raw value as an f64, and the value it stands for.
AsFloat(ty, raw) == IF ty \in FloatTypes THEN raw ELSE FromInt(raw)

Physical(d, raw) ==
  LET x == AsFloat(d.ty, raw)
      y == IF x = NonFinite THEN NonFinite ELSE Mul(x, d.scale)
  IN  IF y = NonFinite THEN NonFinite ELSE F64(y + d.offset, 1)

DecodeValue(s, p) ==
  LET ty  == s.def.ty
      raw == ReadRaw(ty, Endian(s), p)
  IN  IF Len(p) # Size(ty) THEN Err("length_mismatch")
      ELSE IF Kind(s) = "Bool" /\ raw \in {0, 1} THEN Ok(Value("Bool", raw = 1))
      ELSE IF Kind(s) = "Enum" /\ EnumLabel(s, raw) # None
      THEN Ok(Value("Enum", EnumLabel(s, raw)))
      ELSE IF Kind(s) = "Num" /\ Physical(s.def, raw) # NonFinite
      THEN Ok(Value("Num", Physical(s.def, raw)))
      ELSE Err("invalid_value")

OrOutOfRange(payload) == IF payload = None THEN Err("out_of_range") ELSE Ok(payload)

\* (v - offset) / scale
Scaled(d, v) ==
  LET diff == F64(v - d.offset, 1)
  IN  IF diff = NonFinite THEN NonFinite ELSE Div(diff, d.scale)

EncodeNum(s, v) ==
  LET d == s.def
      x == Scaled(d, v)
  IN  IF x = NonFinite THEN Err("out_of_range")
      ELSE OrOutOfRange(IF d.ty \in FloatTypes THEN WriteFloat(d.ty, Endian(s), x)
                        ELSE WriteInt(d.ty, Endian(s), Saturated(Round(x))))

EncodeValue(s, value) ==
  IF Kind(s) # value.kind THEN Err("kind_mismatch")
  ELSE CASE value.kind = "Bool" ->
              OrOutOfRange(WriteInt(s.def.ty, Endian(s), IF value.v THEN 1 ELSE 0))
         [] value.kind = "Enum" ->
              IF EnumRaw(s, value.v) = None THEN Err("unknown_enum_label")
              ELSE OrOutOfRange(WriteInt(s.def.ty, Endian(s), EnumRaw(s, value.v)))
         [] value.kind = "Num" -> EncodeNum(s, value.v)
-----------------------------------------------------------------------------
(* encode_packet *)

EncodeFrame(f) ==
  ToBe(f.signal_id, U16Len) \o ToBe(f.timestamp_us, U64Len)
    \o <<Len(f.payload)>> \o f.payload

FrameBytes(frames) ==
  LET bytes[i \in 0..Len(frames)] ==
        IF i = 0 THEN <<>> ELSE bytes[i - 1] \o EncodeFrame(frames[i])
  IN  bytes[Len(frames)]

PacketBytes(count, frames) ==
  ToBe(MAGIC, U16Len) \o <<VERSION, count>> \o FrameBytes(frames)

EncodePacket(frames) ==
  LET bytes == PacketBytes(Len(frames), frames)
  IN  IF frames = <<>> THEN Err("no_frames")
      ELSE IF Len(frames) > MAX_FRAMES THEN Err("too_many_frames")
      ELSE IF Len(bytes) > MAX_DATAGRAM_LEN THEN Err("oversize")
      ELSE IF \E i \in DOMAIN frames : Len(frames[i].payload) >= BASE
      THEN Err("payload_too_long")
      ELSE Ok(bytes)
-----------------------------------------------------------------------------
(* decode_packet *)

\* The field of w bytes that starts k bytes after the cursor.
Field(k, w) == SubSeq(buf, pos + k + 1, pos + k + w)
Remaining == Len(buf) - pos

FrameCount == buf[PACKET_HEADER_LEN]

\* A bug: frame_count may be zero.
HeaderError_ZeroOk ==
  IF Len(buf) > MAX_DATAGRAM_LEN THEN "oversize"
  ELSE IF Len(buf) < PACKET_HEADER_LEN THEN "truncated"
  ELSE IF Be(SubSeq(buf, 1, U16Len)) # MAGIC THEN "bad_magic"
  ELSE IF buf[U16Len + 1] # VERSION THEN "bad_version"
  ELSE IF FrameCount > MAX_FRAMES THEN "too_many_frames"
  ELSE None

HeaderError ==
  IF Len(buf) > MAX_DATAGRAM_LEN THEN "oversize"
  ELSE IF Len(buf) < PACKET_HEADER_LEN THEN "truncated"
  ELSE IF Be(SubSeq(buf, 1, U16Len)) # MAGIC THEN "bad_magic"
  ELSE IF buf[U16Len + 1] # VERSION THEN "bad_version"
  ELSE IF FrameCount = 0 THEN "zero_frames"
  ELSE IF FrameCount > MAX_FRAMES THEN "too_many_frames"
  ELSE None

NoOutput == [samples |-> <<>>, errors |-> <<>>, unknown_signals |-> 0]

\* The datagram is accepted or rejected as a whole.
Header ==
  /\ status = "header"
  /\ IF HeaderError # None
     THEN status' = HeaderError /\ UNCHANGED pos
     ELSE status' = "frames" /\ pos' = PACKET_HEADER_LEN
  /\ UNCHANGED <<catalog, buf, out, read>>

Index == Len(read)
FrameError(id, kind) == [index |-> Index, signal_id |-> id, kind |-> kind]

PayloadLen == buf[pos + FRAME_HEADER_LEN]
Complete ==
  Remaining >= FRAME_HEADER_LEN /\ Remaining >= FRAME_HEADER_LEN + PayloadLen

\* The frame at the cursor.
Frame == [signal_id    |-> Be(Field(0, U16Len)),
          timestamp_us |-> Be(Field(U16Len, U64Len)),
          payload      |-> Field(FRAME_HEADER_LEN, PayloadLen)]

\* A bug: a frame of an unknown signal is taken to have no payload.
Pass_Unknown ==
  pos' = pos + FRAME_HEADER_LEN
           + IF ById(catalog, Frame.signal_id) = None THEN 0 ELSE PayloadLen

\* A bug: the cursor moves by the size in the catalog, not the declared one.
Pass_CatalogSize ==
  LET s == ById(catalog, Frame.signal_id)
  IN  pos' = pos + FRAME_HEADER_LEN + IF s = None THEN PayloadLen ELSE Size(s.def.ty)

Pass == pos' = pos + FRAME_HEADER_LEN + PayloadLen

FrameTruncated ==
  /\ status = "frames" /\ Index < FrameCount /\ ~Complete
  /\ out' = [out EXCEPT !.errors = Append(@,
               FrameError(IF Remaining < U16Len THEN None ELSE Be(Field(0, U16Len)),
                          "truncated"))]
  /\ status' = "done"
  /\ UNCHANGED <<catalog, buf, pos, read>>

\* A bug: an unknown signal is an error of the frame.
FrameUnknown_Error(s) ==
  /\ s = None
  /\ out' = [out EXCEPT !.errors = Append(@, FrameError(Frame.signal_id, "invalid_value"))]

FrameUnknown(s) ==
  /\ s = None
  /\ out' = [out EXCEPT !.unknown_signals = @ + 1]

FrameDecoded(s) ==
  /\ s # None /\ DecodeValue(s, Frame.payload).err = None
  /\ out' = [out EXCEPT !.samples = Append(@,
               [signal_id |-> Frame.signal_id, name |-> s.def.name,
                timestamp_us |-> Frame.timestamp_us,
                value |-> DecodeValue(s, Frame.payload).ok])]

FrameInvalid(s) ==
  /\ s # None /\ DecodeValue(s, Frame.payload).err # None
  /\ out' = [out EXCEPT !.errors = Append(@,
               FrameError(Frame.signal_id, DecodeValue(s, Frame.payload).err))]

FrameRead ==
  /\ status = "frames" /\ Index < FrameCount /\ Complete
  /\ LET s == ById(catalog, Frame.signal_id)
     IN  FrameUnknown(s) \/ FrameDecoded(s) \/ FrameInvalid(s)
  /\ Pass
  /\ read' = Append(read, Frame)
  /\ UNCHANGED <<catalog, buf, status>>

\* All frames are read; bytes left over are reported.
Finish ==
  /\ status = "frames" /\ Index = FrameCount
  /\ out' = IF Remaining = 0 THEN out
            ELSE [out EXCEPT !.errors = Append(@, FrameError(None, "trailing_bytes"))]
  /\ status' = "done"
  /\ UNCHANGED <<catalog, buf, pos, read>>

Decode == Header \/ FrameTruncated \/ FrameRead \/ Finish

\* recv_from: a datagram has arrived.
Arrives(bytes) ==
  /\ status = "idle"
  /\ buf' = bytes /\ status' = "header"
  /\ UNCHANGED <<catalog, pos, out, read>>

\* The decoder by itself: whatever bytes the network delivers.
DecoderInit == buf = <<>> /\ pos = 0 /\ out = NoOutput /\ read = <<>> /\ status = "idle"
DecoderNext == (\E bytes \in Seq(0..BASE - 1) : Arrives(bytes)) \/ Decode
DecoderSpec == DecoderInit /\ [][DecoderNext]_wireVars
-----------------------------------------------------------------------------
PacketErrors == {"oversize", "truncated", "bad_magic", "bad_version", "zero_frames",
                 "too_many_frames"}

\* Type invariant: the cursor never leaves the datagram, and never more frames
\* than the limit are read.
TypeOK ==
  /\ buf \in Seq(0..BASE - 1) /\ pos \in 0..Len(buf)
  /\ status \in {"idle", "header", "frames", "done"} \cup PacketErrors
  /\ Len(read) <= MAX_FRAMES
  /\ \A i \in DOMAIN out.samples : ById(catalog, out.samples[i].signal_id) # None
  /\ out.unknown_signals \in 0..Len(read)

FrameOutcome(f) ==
  LET s == ById(catalog, f.signal_id)
  IN  IF s = None THEN "unknown"
      ELSE IF DecodeValue(s, f.payload).err = None THEN "sample"
      ELSE "error"

\* No byte is skipped and none is read twice: what the cursor has passed is the
\* encoding of the frames it has read, whatever the datagram is and whichever
\* frames were skipped.
BytesAccounted ==
  status \in {"frames", "done"} =>
    PacketBytes(FrameCount, read) = SubSeq(buf, 1, pos)

\* The frames read that came to an outcome, and how many did up to frame i.
With(o) == {i \in DOMAIN read : FrameOutcome(read[i]) = o}
Rank(o, i) == Cardinality({j \in With(o) : j <= i})

\* What frame i comes to.
SampleOf(f) ==
  LET s == ById(catalog, f.signal_id)
  IN  [signal_id |-> f.signal_id, name |-> s.def.name, timestamp_us |-> f.timestamp_us,
       value |-> DecodeValue(s, f.payload).ok]

FaultOf(i, f) ==
  [index |-> i - 1, signal_id |-> f.signal_id,
   kind |-> DecodeValue(ById(catalog, f.signal_id), f.payload).err]

\* Every frame read is a sample, an error or an unknown signal, once and in its
\* order: a sample carries the id, the time and the value of its own frame, an
\* error its index and reason; what follows them is one error that says why the
\* walk ended early or left bytes over.
FramesAccounted ==
  status \in {"frames", "done"} =>
    LET extra == Len(out.errors) - Cardinality(With("error"))
    IN  /\ out.unknown_signals = Cardinality(With("unknown"))
        /\ Len(out.samples) = Cardinality(With("sample"))
        /\ \A i \in With("sample") : out.samples[Rank("sample", i)] = SampleOf(read[i])
        /\ \A i \in With("error") : out.errors[Rank("error", i)] = FaultOf(i, read[i])
        /\ extra = 1 =>
             /\ Last(out.errors).index = Len(read)
             /\ Last(out.errors).kind = IF Len(read) < FrameCount THEN "truncated"
                                        ELSE "trailing_bytes"
        /\ extra = IF status = "done" /\ (Len(read) < FrameCount \/ Remaining > 0)
                   THEN 1 ELSE 0
=============================================================================
