------------------------------ MODULE Datapoints ------------------------------
(***************************************************************************)
(* Datapoint types (knx-rs-core/src/dpt): how many octets a value has on   *)
(* the wire, and its encoding and decoding.  A Float is a fraction, a text *)
(* the sequence of its code points; DPT 14 (IEEE 754) and DPT 28 (UTF-8)   *)
(* are not modelled.                                                       *)
(***************************************************************************)
EXTENDS Octets, Integers, Sequences, TLC

Dpt(group, sub) == [main |-> group, sub |-> sub]

\* The main groups of whole octets, by how many octets a value has.
WireOctets == <<
    <<1, {4, 5, 6, 17, 18, 20, 21, 25, 26, 236, 238}>>,
    <<2, {7, 8, 9, 22, 200, 201, 202, 204, 207, 211, 217, 234, 237, 239, 244, 246}>>,
    <<3, {10, 11, 30, 203, 205, 206, 209, 223, 225, 232, 240, 250, 254}>>,
    <<4, {12, 13, 14, 15, 27, 210, 214, 220, 231, 241, 253, 276}>>,
    <<5, {215, 216, 218, 248, 252}>>,
    <<6, {212, 219, 221, 222, 224, 229, 235, 242, 245, 249, 251, 274}>>,
    <<7, {271, 272}>>, <<8, {19, 29, 213, 230, 243, 255, 273, 275, 288}>>,
    <<9, {265, 268}>>, <<12, {247, 257, 266}>>, <<14, {16, 269}>>, <<16, {256, 285}>>,
    <<20, {270}>>, <<36, {277}>>, <<42, {278}>>, <<44, {281}>>, <<48, {279}>>,
    <<50, {282}>>, <<56, {283}>>, <<78, {280}>>, <<86, {284}>> >>

\* Those groups of fields, by how many octets their codec wants.
CompoundOctets == <<
    <<2, (200 .. 202) \cup {204, 207, 211, 217, 234, 237, 239, 244, 246}>>,
    <<3, {11, 203, 205, 206, 209, 223, 225, 240, 250, 254}>>,
    <<4, {210, 214, 220, 231, 241, 253, 276}>>, <<5, {215, 216, 218, 248, 252}>>,
    <<6, {212, 219, 221, 222, 224, 229, 235, 242, 245, 249, 251, 274}>>,
    <<7, {271, 272}>>, <<8, {19, 213, 230, 243, 255, 273, 275, 288}>>, <<9, {265, 268}>>,
    <<12, {247, 257, 266}>>, <<14, {269}>>, <<16, {256, 285}>>, <<20, {270}>>,
    <<36, {277}>>, <<42, {278}>>, <<44, {281}>>, <<48, {279}>>, <<50, {282}>>,
    <<56, {283}>>, <<78, {280}>>, <<86, {284}>> >>

octets_of(table, group) == {table[i][1] : i \in {j \in DOMAIN table : group \in table[j][2]}}

SubOctetBits == 1 :> 1 @@ 2 :> 2 @@ 23 :> 2 @@ 3 :> 4 @@ 31 :> 3
VariableBytes == {24, 28, 267}

\* A size is a kind and a number of bits or octets.
wire_size(dpt) ==
    CASE dpt.main \in DOMAIN SubOctetBits -> <<"Bits", SubOctetBits[dpt.main]>>
      [] octets_of(WireOctets, dpt.main) # {} ->
           <<"Bytes", CHOOSE n \in octets_of(WireOctets, dpt.main) : TRUE>>
      [] dpt.main \in VariableBytes -> <<"VariableBytes", 0>>
      [] OTHER -> <<"Unknown", 0>>

-----------------------------------------------------------------------------
\* DptValue.
Bool(b) == [type |-> "Bool", value |-> b]
UInt(n) == [type |-> "UInt", value |-> n]
SInt(n) == [type |-> "Int", value |-> n]
Int64(n) == [type |-> "Int64", value |-> n]
Float(num, den) == [type |-> "Float", num |-> num, den |-> den]
NaN == Float(0, 0)
Text(characters) == [type |-> "Text", value |-> characters]
Raw(octets) == [type |-> "Bytes", value |-> octets]

Mismatch == Err("TypeMismatch")
OutOfRange == Err("OutOfRange")

magnitude(n) == IF n < 0 THEN - n ELSE n

\* To the nearest integer, halves away from zero.
round(num, den) ==
    LET nearest == (2 * magnitude(num) + den) \div (2 * den)
    IN  IF num < 0 THEN - nearest ELSE nearest

val_bool(value) ==
    CASE value.type = "Bool" -> Ok(value.value)
      [] value.type \in {"UInt", "Int"} -> Ok(value.value # 0)
      [] value.type = "Float" -> Ok(value.num # 0 \/ value = NaN)
      [] OTHER -> Mismatch

\* The integer a number is, or is nearest to.
whole(value) ==
    CASE value.type \in {"UInt", "Int"} -> Ok(value.value)
      [] value.type = "Bool" -> Ok(IF value.value THEN 1 ELSE 0)
      [] value.type = "Float" -> IF value = NaN THEN OutOfRange ELSE Ok(round(value.num, value.den))
      [] OTHER -> Mismatch

I32_MAX == 2147483647
within(result, min, max) ==
    Then(result, LAMBDA n : IF min <= n /\ n <= max THEN Ok(n) ELSE OutOfRange)

val_i32(value) == within(whole(value), - I32_MAX - 1, I32_MAX)
val_i32_range(value, min, max) == within(val_i32(value), min, max)
val_i64(value) == IF value.type = "Int64" THEN Ok(value.value) ELSE whole(value)

\* 32 bits: the halves above and below the 16th.
val_u32(value) ==
    Then(whole(value), LAMBDA n : IF n < 0 \/ n \div 65536 > 65535 THEN OutOfRange ELSE Ok(n))
val_u32_max(value, max) == within(val_u32(value), 0, max)

\* A fraction, from any number.
val_f64(value) ==
    IF value.type = "Float" THEN Ok(value)
    ELSE Then(val_i64(value), LAMBDA n : Ok(Float(n, 1)))

-----------------------------------------------------------------------------
\* One octet of which only the bits below a limit are used.
Limits == 2 :> 4 @@ 3 :> 16 @@ 17 :> 64 @@ 26 :> 128 @@ 23 :> 4 @@ 31 :> 8
          @@ [group \in {20, 21, 25, 236, 238} |-> 256]

\* Numbers of whole octets, without and with a sign.
Unsigned == 7 :> 2 @@ 12 :> 4 @@ 22 :> 2 @@ 27 :> 4 @@ 30 :> 3 @@ 232 :> 3
Signed == 8 :> 2 @@ 13 :> 4 @@ 29 :> 8

number(octets, first) ==
    LET upto[i \in 1 .. Len(octets)] ==
            IF i = 1 THEN first ELSE upto[i - 1] * 256 + octets[i]
    IN  upto[Len(octets)]
unsigned(octets) == number(octets, octets[1])
signed(octets) == number(octets, IF octets[1] < 128 THEN octets[1] ELSE octets[1] - 256)

encode_octets(value, width) ==
    Then(val_u32(value), LAMBDA n :
        IF width < 4 /\ n >= 256 ^ width THEN OutOfRange ELSE Ok(be(n, width)))
encode_signed(value, width) ==
    IF width < 4 THEN Then(val_i32_range(value, - 128 * 256 ^ (width - 1),
                                         128 * 256 ^ (width - 1) - 1),
                           LAMBDA n : Ok(be(n, width)))
    ELSE Then(IF width = 4 THEN val_i32(value) ELSE val_i64(value), LAMBDA n : Ok(be(n, width)))

\* DPT 5: percent and degrees are scaled to an octet.
ScaledTo == 1 :> 100 @@ 3 :> 360
encode_dpt5(dpt, value) ==
    IF dpt.sub \in DOMAIN ScaledTo
    THEN Then(val_f64(value), LAMBDA v :
            IF v = NaN \/ v.num < 0 \/ v.num > ScaledTo[dpt.sub] * v.den THEN OutOfRange
            ELSE Ok(<<round(v.num * 255, ScaledTo[dpt.sub] * v.den)>>))
    ELSE Then(val_u32_max(value, IF dpt.sub = 6 THEN 254 ELSE 255), LAMBDA n : Ok(<<n>>))
decode_dpt5(dpt, octet) ==
    IF dpt.sub \in DOMAIN ScaledTo THEN Float(octet * ScaledTo[dpt.sub], 255) ELSE UInt(octet)

\* DPT 6.020: five flags and one of three modes.
DPT6_STATUS_MODE == 20
encode_dpt6(dpt, value) ==
    IF dpt.sub # DPT6_STATUS_MODE THEN encode_signed(value, 1)
    ELSE Then(val_u32_max(value, 255), LAMBDA n :
            IF n % 8 \in {1, 2, 4} THEN Ok(<<n>>) ELSE OutOfRange)
decode_dpt6(dpt, octet) ==
    IF dpt.sub = DPT6_STATUS_MODE THEN UInt(octet) ELSE SInt(signed(<<octet>>))

\* DPT 9: a mantissa of 11 bits and a sign, times a power of two, in hundredths.
DPT9_INVALID == <<\h7F, \hFF>>
decode_dpt9(octets) ==
    LET raw == unsigned(octets)
        mantissa == (raw % 2048) - (IF raw >= 32768 THEN 2048 ELSE 0)
    IN  IF octets = DPT9_INVALID THEN NaN
        ELSE Float(mantissa * 2 ^ ((raw \div 2048) % 16), 100)
encode_dpt9(value) ==
    Then(val_f64(value), LAMBDA v :
        LET mantissa(exponent) == round(v.num * 100, v.den * 2 ^ exponent)
            fitting == {e \in 0 .. 15 : mantissa(e) \in -2048 .. 2047}
            exponent == CHOOSE e \in fitting : \A f \in fitting : e <= f
            m == mantissa(exponent)
        IN  IF v = NaN THEN Ok(DPT9_INVALID)
            ELSE IF fitting = {} THEN OutOfRange
            ELSE IF exponent = 15 /\ m = 2047 THEN OutOfRange
            ELSE Ok(be((IF m < 0 THEN 32768 ELSE 0) + exponent * 2048 + (m % 2048), 2)))

\* DPT 10: three octets as they are, or the seconds of the day.
encode_dpt10(value) ==
    CASE value.type = "Bytes" /\ Len(value.value) = 3 -> Ok(value.value)
      [] value.type = "UInt" ->
           LET s == value.value
           IN  IF s > 86399 THEN OutOfRange
               ELSE Ok(<<s \div 3600, (s % 3600) \div 60, s % 60>>)
      [] OTHER -> Mismatch

\* DPT 15: six decimal digits in three octets, and one of flags.
bcd_digits_valid(octets) == \A i \in DOMAIN octets : octets[i] \div 16 <= 9 /\ octets[i] % 16 <= 9
encode_dpt15(value) ==
    CASE value.type = "Bytes" ->
           IF Len(value.value) = 4 /\ bcd_digits_valid(SubSeq(value.value, 1, 3))
           THEN Ok(value.value) ELSE OutOfRange
      [] OTHER -> Then(val_u32_max(value, 999999), LAMBDA n :
           LET pair(p) == ((p \div 10) % 10) * 16 + (p % 10)
           IN  Ok(<<pair(n \div 10000), pair((n \div 100) % 100), pair(n % 100), 0>>))
decode_dpt15(octets) ==
    IF bcd_digits_valid(SubSeq(octets, 1, 3)) THEN Ok(Raw(octets)) ELSE OutOfRange

-----------------------------------------------------------------------------
\* The characters of a text up to the first zero.
ended(octets) ==
    LET ends == {i \in DOMAIN octets : octets[i] = 0}
    IN  IF ends = {} THEN octets
        ELSE SubSeq(octets, 1, (CHOOSE i \in ends : \A j \in ends : i <= j) - 1)

\* DPT 16: fourteen characters of ASCII or ISO 8859-1; others become '?'.
encode_dpt16(dpt, text) ==
    LET kept == ended(SubSeq(text, 1, IF Len(text) < 14 THEN Len(text) ELSE 14))
        limit == IF dpt.sub = 0 THEN 127 ELSE 255
    IN  [i \in DOMAIN kept |-> IF kept[i] <= limit THEN kept[i] ELSE 63]
        \o zeroes(14 - Len(kept))
decode_dpt16(dpt, octets) ==
    LET text == ended(SubSeq(octets, 1, 14))
    IN  IF Len(octets) < 14 THEN Err("PayloadTooShort")
        ELSE IF dpt.sub = 0 /\ \E i \in DOMAIN text : text[i] > 127 THEN OutOfRange
        ELSE Ok(Text(text))

\* DPT 24: characters and a zero, nothing replaced.
encode_dpt24(text) ==
    IF \E i \in DOMAIN text : text[i] = 0 \/ text[i] > 255 THEN OutOfRange
    ELSE Ok(text \o <<0>>)

\* DPT 267: eight octets of date and time, and characters that end in a zero.
DPT267 == 267
DPT267_HEADER == 8

handles(group) == octets_of(CompoundOctets, group) # {} \/ group = DPT267

compound_octets(group) == CHOOSE n \in octets_of(CompoundOctets, group) : TRUE

decode_compound(dpt, octets) ==
    IF dpt.main = DPT267
    THEN IF Len(octets) <= DPT267_HEADER THEN Err("PayloadTooShort") ELSE Ok(Raw(octets))
    ELSE IF Len(octets) < compound_octets(dpt.main) THEN Err("PayloadTooShort")
         ELSE Ok(Raw(SubSeq(octets, 1, compound_octets(dpt.main))))

encode_compound(dpt, value) ==
    IF value.type # "Bytes" THEN Mismatch
    ELSE LET octets == value.value
             fits == IF dpt.main = DPT267
                     THEN Len(octets) > DPT267_HEADER /\ octets[Len(octets)] = 0
                     ELSE Len(octets) = compound_octets(dpt.main)
         IN  IF fits THEN Ok(octets) ELSE OutOfRange

-----------------------------------------------------------------------------
\* The octets a numeric decoder wants at least.
wanted(group) ==
    CASE group \in DOMAIN Unsigned -> Unsigned[group]
      [] group \in DOMAIN Signed -> Signed[group]
      [] group = 9 -> 2
      [] group = 10 -> 3
      [] group = 15 -> 4
      [] OTHER -> 1

decode_numeric(dpt, octets) ==
    LET n == wanted(dpt.main)
        read == SubSeq(octets, 1, n)
    IN  IF dpt.main \notin {1, 4, 5, 6, 9, 10, 15, 18}
                             \cup DOMAIN Limits \cup DOMAIN Unsigned \cup DOMAIN Signed
        THEN Err("UnsupportedDpt")
        ELSE IF Len(octets) < n THEN Err("PayloadTooShort")
        ELSE CASE dpt.main = 1 -> Ok(Bool(read[1] % 2 # 0))
               [] dpt.main \in {4, 18} -> Ok(UInt(read[1]))
               [] dpt.main = 5 -> Ok(decode_dpt5(dpt, read[1]))
               [] dpt.main = 6 -> Ok(decode_dpt6(dpt, read[1]))
               [] dpt.main = 9 -> Ok(decode_dpt9(read))
               [] dpt.main = 10 -> Ok(Raw(read))
               [] dpt.main = 15 -> decode_dpt15(read)
               [] dpt.main = 29 -> Ok(Int64(signed(read)))
               [] dpt.main \in DOMAIN Limits -> Ok(UInt(read[1] % Limits[dpt.main]))
               [] dpt.main \in DOMAIN Unsigned -> Ok(UInt(unsigned(read)))
               [] OTHER -> Ok(SInt(signed(read)))

\* DPT 4.001 is ASCII; bit 6 of DPT 18 is reserved.
encode_numeric(dpt, value) ==
    CASE dpt.main = 1 -> Then(val_bool(value), LAMBDA b : Ok(<<IF b THEN 1 ELSE 0>>))
      [] dpt.main = 4 ->
           Then(val_u32_max(value, IF dpt.sub = 1 THEN 127 ELSE 255), LAMBDA n : Ok(<<n>>))
      [] dpt.main = 5 -> encode_dpt5(dpt, value)
      [] dpt.main = 6 -> encode_dpt6(dpt, value)
      [] dpt.main = 9 -> encode_dpt9(value)
      [] dpt.main = 10 -> encode_dpt10(value)
      [] dpt.main = 15 -> encode_dpt15(value)
      [] dpt.main = 18 -> Then(val_u32_max(value, 255), LAMBDA n :
                              IF bits(n, 64, 2) = 1 THEN OutOfRange ELSE Ok(<<n>>))
      [] dpt.main \in DOMAIN Limits ->
           Then(val_u32_max(value, Limits[dpt.main] - 1), LAMBDA n : Ok(<<n>>))
      [] dpt.main \in DOMAIN Unsigned -> encode_octets(value, Unsigned[dpt.main])
      [] dpt.main \in DOMAIN Signed -> encode_signed(value, Signed[dpt.main])
      [] OTHER -> Err("UnsupportedDpt")

decode(dpt, octets) ==
    CASE dpt.main = 16 -> decode_dpt16(dpt, octets)
      [] dpt.main = 24 -> Ok(Text(ended(octets)))
      [] handles(dpt.main) -> decode_compound(dpt, octets)
      [] OTHER -> decode_numeric(dpt, octets)

encode(dpt, value) ==
    CASE dpt.main \in {16, 24} ->
           IF value.type # "Text" THEN Mismatch
           ELSE IF dpt.main = 16 THEN Ok(encode_dpt16(dpt, value.value))
           ELSE encode_dpt24(value.value)
      [] handles(dpt.main) -> encode_compound(dpt, value)
      [] OTHER -> encode_numeric(dpt, value)

=============================================================================
