------------------------------- MODULE Codec --------------------------------
(***************************************************************************)
(* The values of a request on their way from the Rust Encoder to the C     *)
(* Decoder of the helper, and those of a response from the C Buffer to the *)
(* Rust Decoder, byte by byte, with the frame limit on either side.  The   *)
(* bits of f32 and f64 travel as u32 and u64, handles as u64, i64 as i32   *)
(* does; Base, Short and Long scale the wire down.                         *)
(***************************************************************************)
EXTENDS Integers, Sequences

CONSTANTS
  Base,          \* 256: the values of a byte
  Short, Long,   \* 4 and 8: bytes of a u32 and of a u64
  Foreign,       \* a byte that is in no UTF-8 text
  Prefix,        \* the schema hash and an operation, as bytes
  SizeMax,       \* of usize and size_t
  MaxFrame,      \* max_frame_bytes of both peers
  Texts,         \* contents of strings and byte sequences considered
  Null,          \* a result that cannot be encoded
  Signatures,    \* kinds of the values in a request
  Payloads       \* payloads of a peer that is not the other generated one

Kinds == {"bool", "i32", "u32", "u64", "bytes", "string"}

Byte == 0 .. Base - 1
Power[k \in Nat] == IF k = 0 THEN 1 ELSE Base * Power[k - 1]
LengthMax == Power[Short] - 1   \* u32::MAX

ASSUME CodecAssumption ==
  /\ Base \in Nat \ {0} /\ Base % 2 = 0 /\ Short \in Nat \ {0} /\ Long \in Nat \ {0}
  /\ Foreign \in Byte /\ Prefix \in Seq(Byte)
  /\ MaxFrame \in Nat /\ SizeMax \in Nat
  /\ MaxFrame <= SizeMax /\ LengthMax <= SizeMax
  /\ Texts \subseteq Seq(Byte) /\ Payloads \subseteq Seq(Byte)
  /\ Null \notin Texts /\ Signatures \subseteq Seq(Kinds)

VARIABLES
  to,      \* who decodes: "helper" (a request) or "client" (a response)
  kinds,   \* the types of its values
  values,  \* what was encoded
  honest,  \* ghost: the other generated peer encoded them
  pc, n,   \* where the value is, and which of them
  wire,    \* the payload
  cursor,  \* of the decoder
  got      \* what it has decoded

vars == <<to, kinds, values, honest, pc, n, wire, cursor, got>>
-----------------------------------------------------------------------------
Values(kind) ==
  CASE kind = "bool" -> BOOLEAN
    [] kind = "i32"  -> -(Power[Short] \div 2) .. (Power[Short] \div 2) - 1
    [] kind = "u32"  -> 0 .. LengthMax
    [] kind = "u64"  -> 0 .. Power[Long] - 1
    [] kind \in {"bytes", "string"} -> Texts

IsText(kind) == kind \in {"bytes", "string"}
Width(kind) ==
  CASE kind = "bool" -> 1
    [] kind \in {"i32", "u32"} -> Short
    [] kind = "u64" -> Long

(* to_le_bytes, the shifts of buffer_u32 and buffer_u64; from_le_bytes,    *)
(* those of decoder_u32 and decoder_u64.                                   *)
Bytes(v, width) == [d \in 1 .. width |-> (v \div Power[d - 1]) % Base]

Number(b) ==
  LET value[d \in 0 .. Len(b)] ==
        IF d = 0 THEN 0 ELSE value[d - 1] + b[d] * Power[d - 1]
  IN value[Len(b)]

Bits(kind, v) ==
  IF kind = "bool" THEN IF v THEN 1 ELSE 0 ELSE v % Power[Width(kind)]

ValueOf_Unsigned(kind, bits) ==   \* mutant: the sign is forgotten
  IF kind = "bool" THEN bits # 0 ELSE bits

ValueOf(kind, bits) ==
  CASE kind = "bool" -> bits # 0
    [] kind = "i32" /\ bits >= Power[Short] \div 2 -> bits - Power[Short]
    [] OTHER -> bits

(* str is UTF-8 and char * is not.                                         *)
Utf8(text) == \A d \in DOMAIN text : text[d] # Foreign
-----------------------------------------------------------------------------
Start(k) == kinds = k /\ n = 1 /\ cursor = 0 /\ got = <<>>

InitRequest == to = "helper" /\ \E k \in Signatures : Start(k)

(* A function has one result or none.                                      *)
InitResponse ==
  to = "client" /\ \E k \in Signatures : Len(k) <= 1 /\ Start(k)

(* What legacy code prints may look like a frame; any process may write to *)
(* a helper.                                                               *)
Init ==
  /\ InitRequest \/ InitResponse
  /\ values = <<>>
  /\ \/ honest = TRUE /\ pc = "encode" /\ wire = <<>>
     \/ honest = FALSE /\ pc = "receive" /\ wire \in Payloads
-----------------------------------------------------------------------------
Encoding(v) == /\ pc = "encode" /\ n <= Len(kinds)
               /\ values' = Append(values, v)
               /\ UNCHANGED <<to, kinds, honest, cursor, got>>
Encoded(b) == wire' = wire \o b /\ n' = n + 1 /\ UNCHANGED pc
GiveUp == pc' = "unsent" /\ UNCHANGED <<n, wire>>

(* Encoder.                                                                *)
EncodeArgument(v) ==
  /\ Encoding(v) /\ to = "helper" /\ ~IsText(kinds[n])
  /\ Encoded(Bytes(Bits(kinds[n], v), Width(kinds[n])))

EncodeText(v) ==
  /\ Encoding(v) /\ to = "helper" /\ IsText(kinds[n])
  /\ kinds[n] = "string" => Utf8(v)
  /\ IF Len(v) <= LengthMax THEN Encoded(Bytes(Len(v), Short) \o v)
     ELSE GiveUp

Sends_ArgumentsOnly(arguments) ==   \* mutant: the hash does not count
  Len(arguments) <= MaxFrame

Sends(arguments) == Len(Prefix) + Len(arguments) <= MaxFrame

(* Connection::call.                                                       *)
SendRequest ==
  /\ pc = "encode" /\ n > Len(kinds) /\ to = "helper"
  /\ Sends(wire)
  /\ pc' = "receive" /\ wire' = Prefix \o wire
  /\ UNCHANGED <<to, kinds, values, honest, n, cursor, got>>

RequestTooLong ==
  /\ pc = "encode" /\ n > Len(kinds) /\ to = "helper"
  /\ ~Sends(wire)
  /\ GiveUp
  /\ UNCHANGED <<to, kinds, values, honest, cursor, got>>

(* Buffer: within MAX_FRAME_BYTES.                                         *)
Fits(b) == Len(wire) + Len(b) <= MaxFrame

EncodeResult(v) ==
  /\ Encoding(v) /\ to = "client" /\ ~IsText(kinds[n])
  /\ LET b == Bytes(Bits(kinds[n], v), Width(kinds[n])) IN
     Fits(b) /\ Encoded(b)

EncodeView(v) ==
  /\ Encoding(v) /\ to = "client" /\ IsText(kinds[n])
  /\ Len(v) <= LengthMax
  /\ LET b == Bytes(Len(v), Short) \o v IN
     Fits(b) /\ Encoded(b)

(* NULL, too long, or no memory: an error goes out instead.                *)
EncodeFails(v) == Encoding(v) /\ to = "client" /\ GiveUp

SendResponse ==
  /\ pc = "encode" /\ n > Len(kinds) /\ to = "client"
  /\ pc' = "receive"
  /\ UNCHANGED <<to, kinds, values, honest, n, wire, cursor, got>>
-----------------------------------------------------------------------------
(* main's test of payload_len, validate_response_header's of the length.   *)
Receive ==
  /\ pc = "receive"
  /\ pc' = IF Len(wire) > MaxFrame THEN "dropped"
           ELSE IF to = "helper" THEN "prefix" ELSE "decode"
  /\ n' = 1
  /\ UNCHANGED <<to, kinds, values, honest, wire, cursor, got>>

(* decoder_take: the subtraction does not wrap.                            *)
TakeC_Wraps(at, length) ==   \* mutant: the sum is compared
  (at + length) % (SizeMax + 1) <= Len(wire)

TakeC(at, length) == length <= Len(wire) /\ at <= Len(wire) - length

(* Decoder::take: checked_add and get.                                     *)
TakeRust(at, length) == at + length <= SizeMax /\ at + length <= Len(wire)

Take(at, length) ==
  IF to = "helper" THEN TakeC(at, length) ELSE TakeRust(at, length)

(* What is past the end of the payload is not known.                       *)
Part(at, length) ==
  [d \in 1 .. length |-> IF at + d <= Len(wire) THEN wire[at + d] ELSE 0]

Refuse == /\ pc' = "refused"
          /\ UNCHANGED <<to, kinds, values, honest, n, wire, cursor, got>>

DecodePrefix ==
  /\ pc = "prefix"
  /\ Take(0, Len(Prefix)) /\ Part(0, Len(Prefix)) = Prefix
  /\ pc' = "decode" /\ cursor' = Len(Prefix)
  /\ UNCHANGED <<to, kinds, values, honest, n, wire, got>>

WrongPrefix ==
  /\ pc = "prefix"
  /\ ~(Take(0, Len(Prefix)) /\ Part(0, Len(Prefix)) = Prefix)
  /\ Refuse

Decoding == pc = "decode" /\ n <= Len(kinds)
Decoded(v, end) == /\ got' = Append(got, v) /\ cursor' = end /\ n' = n + 1
                   /\ UNCHANGED <<to, kinds, values, honest, pc, wire>>

BoolOk_Any(bits) == TRUE   \* mutant: any byte but zero is true

BoolOk(bits) == bits <= 1

FixedBits == Number(Part(cursor, Width(kinds[n])))
FixedOk ==
  /\ Take(cursor, Width(kinds[n]))
  /\ kinds[n] = "bool" => BoolOk(FixedBits)

DecodeFixed ==
  /\ Decoding /\ ~IsText(kinds[n]) /\ FixedOk
  /\ Decoded(ValueOf(kinds[n], FixedBits), cursor + Width(kinds[n]))

BadFixed ==
  /\ Decoding /\ ~IsText(kinds[n]) /\ ~FixedOk
  /\ Refuse

TextLength == Number(Part(cursor, Short))
Text == Part(cursor + Short, TextLength)
TextOk ==
  /\ Take(cursor, Short)
  /\ Take(cursor + Short, TextLength)
  /\ to = "client" /\ kinds[n] = "string" => Utf8(Text)

DecodeText ==
  /\ Decoding /\ IsText(kinds[n]) /\ TextOk
  /\ Decoded(Text, cursor + Short + TextLength)

BadText ==
  /\ Decoding /\ IsText(kinds[n]) /\ ~TextOk
  /\ Refuse

Ends_Anywhere == TRUE   \* mutant: trailing bytes are not looked for

Ends == cursor = Len(wire)

(* finish, and dispatch's test for trailing bytes.                         *)
Finish ==
  /\ pc = "decode" /\ n > Len(kinds)
  /\ pc' = IF Ends THEN "accepted" ELSE "refused"
  /\ UNCHANGED <<to, kinds, values, honest, n, wire, cursor, got>>

Ended ==
  /\ pc \in {"accepted", "refused", "unsent", "dropped"}
  /\ UNCHANGED vars

Next ==
  \/ /\ pc = "encode" /\ n <= Len(kinds)
     /\ \E v \in Values(kinds[n]) :
          \/ EncodeArgument(v) \/ EncodeText(v)
          \/ EncodeResult(v) \/ EncodeView(v)
  \/ EncodeFails(Null)
  \/ SendRequest \/ RequestTooLong \/ SendResponse
  \/ Receive \/ DecodePrefix \/ WrongPrefix
  \/ DecodeFixed \/ BadFixed \/ DecodeText \/ BadText
  \/ Finish \/ Ended

Spec == Init /\ [][Next]_vars
-----------------------------------------------------------------------------
(* The wire format: the one payload of a list of values.                   *)
Item(kind, v) ==
  IF IsText(kind) THEN Bytes(Len(v), Short) \o v
  ELSE Bytes(Bits(kind, v), Width(kind))

Joined(ks, vs) ==
  LET upto[m \in 0 .. Len(vs)] ==
        IF m = 0 THEN <<>> ELSE upto[m - 1] \o Item(ks[m], vs[m])
  IN upto[Len(vs)]

Front == IF to = "helper" THEN Prefix ELSE <<>>

Format == Front \o Joined(kinds, got)

TypeOK ==
  /\ to \in {"helper", "client"} /\ kinds \in Seq(Kinds)
  /\ honest \in BOOLEAN
  /\ pc \in {"encode", "receive", "prefix", "decode", "accepted", "refused",
             "unsent", "dropped"}
  /\ n \in 1 .. Len(kinds) + 1
  /\ wire \in Seq(Byte) /\ cursor \in 0 .. SizeMax
  /\ Len(got) <= Len(kinds)
  /\ \A m \in DOMAIN got :
       IF IsText(kinds[m]) THEN got[m] \in Seq(Byte)
       ELSE got[m] \in Values(kinds[m])

(* Across the two languages each value arrives as it was given, the signed *)
(* and the empty ones too; the one thing a decoder refuses of what the     *)
(* other side encoded is a string of the legacy code that is not UTF-8.    *)
RoundTrip ==
  honest =>
    /\ pc = "accepted" => got = values
    /\ pc = "refused" =>
         to = "client" /\ kinds = <<"string">> /\ ~Utf8(values[1])

(* A decoder reads inside the payload, all of it, and accepts one form of  *)
(* each value: whoever wrote it, what is accepted is the encoding of what  *)
(* was decoded.                                                            *)
AcceptsOneForm ==
  /\ cursor <= Len(wire)
  /\ pc = "accepted" => wire = Format

(* The limit means the same on both sides: no complete frame is refused by *)
(* its receiver for its size, where both sides would give up on the other; *)
(* and the client sends every request that the helper would take.          *)
LimitsAgree ==
  /\ honest => pc # "dropped"
  /\ pc = "unsent" /\ to = "helper" =>
       \/ \E m \in DOMAIN kinds : IsText(kinds[m]) /\ Len(values[m]) > LengthMax
       \/ Len(Prefix) + Len(wire) > MaxFrame
=============================================================================
