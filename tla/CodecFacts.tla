------------------------------ MODULE CodecFacts ------------------------------
(***************************************************************************)
(* What the codecs promise each other, over bounded inputs: TLC evaluates  *)
(* these facts before it explores MCWire.  Each relates an encoder to the  *)
(* decoder that reads it, or a table to the code that must agree with it.  *)
(***************************************************************************)
EXTENDS GroupTelegrams, TypedDatapoints

\* The lowest, the highest and some values between of every part.
SomeRaw == {256 * high + low : high \in Octet, low \in {0, 1, 127, 128, 255}}

\* An address is the one its parts make up, in every notation (address.rs).
ASSUME AddressesReadBack ==
    \A raw \in SomeRaw :
        /\ new_individual(area(raw), line(raw), device(raw)) = Ok(raw)
        /\ parse_individual(individual_text(raw)) = Ok(raw)
        /\ new_3level(main(raw), middle(raw), sub(raw)) = Ok(raw)
        /\ new_2level(main(raw), sub_2level(raw)) = Ok(raw)
        /\ parse_group(group_text(raw)) = Ok(raw)
        /\ parse_group(<<main(raw), sub_2level(raw)>>) = Ok(raw)

\* No two services share an APCI, and none is taken for a service with data
\* in its low bits (normalize_apci, match_apdu_type).
ASSUME ServicesApart == \A t \in DOMAIN ApduType : apdu_type_from_raw(ApduType[t]) = {t}

\* A service is read from what encodes it with its data; where data begin in
\* the octet of the APCI, behind that octet (Apdu::to_bytes, Apdu::parse).
ASSUME ApdusReadBack ==
    \A t \in DOMAIN ApduType, data \in {<<>>, <<0>>, <<63>>, <<64>>, <<1, 2>>, <<1, 2, 3>>} :
        LET octets == apdu_to_bytes(Apdu(t, data), 0)
            read == parse_apdu(octets, Len(octets) - 1)
            short == is_short_apci(ApduType[t])
        IN  /\ IsOk(read) /\ read.ok.apdu_type = t
            /\ t \notin KeepsApciOctet /\ (short => data # <<>>) => read.ok.data = data
            /\ t \in KeepsApciOctet /\ Len(data) >= 2 => Tail(read.ok.data) = data

\* Setting one field of the control octets changes no other one (cemi.rs).
ASSUME FieldsApart ==
    LET frames == {try_new_l_data("LDataReq", 1, 2, g, p, <<0, 129>>).ok :
                      g \in BOOLEAN, p \in {"Low", "System"}}
    IN  \A frame \in frames, name, other \in DOMAIN ControlField :
            \A i \in DOMAIN ControlValues[name] :
                LET changed == with_field(frame, name, ControlValues[name][i])
                IN  /\ field(changed, name) = ControlValues[name][i]
                    /\ other # name => field(changed, other) = field(frame, other)
                    /\ parse_cemi(changed) = Ok(changed)

\* The two tables of sizes agree (Dpt::wire_size, compound.rs).
ASSUME SizesAgree ==
    \A group \in 0 .. 300 : octets_of(CompoundOctets, group) # {} =>
        /\ octets_of(CompoundOctets, group) = octets_of(WireOctets, group)
        /\ wire_size(Dpt(group, 1)) = <<"Bytes", compound_octets(group)>>

\* A value that was decoded and can be encoded again is the same when it is
\* decoded once more.
Stable(dpt, octets) ==
    LET value == decode(dpt, octets)
    IN  IsOk(value) /\ IsOk(encode(dpt, value.ok))
            => decode(dpt, encode(dpt, value.ok).ok) = value
Encodable(dpt, octets) ==
    LET value == decode(dpt, octets) IN IsOk(value) => IsOk(encode(dpt, value.ok))

\* One octet: all but two kinds of value that no encoder accepts, a tariff of
\* 255 and what has a reserved bit or no mode (numeric.rs).
ASSUME OctetsReadBack ==
    \A octet \in Octet :
        /\ \A dpt \in {Dpt(g, 2) : g \in {1, 2, 3, 4, 5, 6, 17, 20, 21, 23, 25, 26, 31, 236, 238}}
                      \cup {Dpt(5, 1), Dpt(5, 3)} :
               Stable(dpt, <<octet>>) /\ Encodable(dpt, <<octet>>)
        /\ \A dpt \in {Dpt(4, 1), Dpt(5, 6), Dpt(6, 20), Dpt(18, 1)} : Stable(dpt, <<octet>>)
        /\ Encodable(Dpt(5, 6), <<octet>>) <=> octet # 255
        /\ Encodable(Dpt(18, 1), <<octet>>) <=> bits(octet, 64, 2) = 0

\* Two octets, the floating-point numbers of DPT 9 among them (those with an
\* exponent of at most 12, for TLC's 32-bit numbers).
ASSUME PairsReadBack ==
    \A raw \in SomeRaw : \A group \in {7, 8, 9, 22} :
        (group = 9 => (raw \div 2048) % 16 <= 12) =>
            Stable(Dpt(group, 1), be(raw, 2)) /\ Encodable(Dpt(group, 1), be(raw, 2))

\* A group value of a type goes as the type says, and is read back as itself.
ASSUME PayloadsReadBack ==
    \A group \in {1, 2, 3, 5, 7, 10, 16, 24, 203, 270} :
        LET dpt == Dpt(group, 1)
            size == wire_size(dpt)
            octets == IF size[1] = "Bits" THEN <<2 ^ size[2] - 1>>
                      ELSE [i \in 1 .. size[2] + (IF size[1] = "Bytes" THEN 0 ELSE 3) |-> 1]
            value == from_dpt_encoded(dpt, octets)
            unit == group_value_to_bytes("GroupValueWrite", value.ok, 0)
        IN  /\ IsOk(value) /\ IsOk(unit)
            /\ parse_apdu(unit.ok, Len(unit.ok) - 1) = Ok(Apdu("GroupValueWrite", octets))
            /\ ~ IsOk(from_dpt_encoded(dpt, octets \o <<0>>)) <=> size[1] # "VariableBytes"
            /\ encode_group_value_for_dpt(<<dpt>>, octets, "GroupValueWrite") = unit

\* Values with named fields (dpt/typed): what is accepted is written as it
\* was read, but for the bits of no field.
Octets8(a, b) == [i \in 1 .. 8 |-> IF i % 2 = 1 THEN a ELSE b]
ASSUME TypedReadBack ==
    \A type \in DOMAIN TypedDpt, a \in {0, 1, 12, 23, 90, 100, 128, 255}, b \in {0, 1, 11, 59, 64, 255} :
        LET read == decode_typed(type, SubSeq(Octets8(a, b), 1, TypedDpt[type].len))
            again == encode_typed(type, read.ok)
        IN  IsOk(read) /\ IsOk(again) => decode_typed(type, again.ok) = read

\* What a device answers reads back where a request of that layout has its
\* fields (encode.rs, parse.rs).
ASSUME HeadersReadBack ==
    \A object_type \in {0, 255, 65535}, instance \in {0, 16, 4095}, property \in {1, 255, 4095},
       count \in {0, 255}, start \in {0, 256, 65535} :
        LET octets == AL!encode_ext_property_header(object_type, instance, property, count, start)
            layout == AL!parse_ext_property_header
        IN  [f \in DOMAIN layout |-> AL!read_field(octets, layout[f])]
                = [object_type |-> object_type, object_instance |-> instance,
                   property_id |-> property, count |-> count, start_index |-> start]

\* Every layout lies within the octets its request is checked to have.
ASSUME LayoutsFit ==
    \A t \in DOMAIN AL!Layouts : \A f \in DOMAIN AL!Layouts[t].fields :
        AL!Layouts[t].fields[f].bit + AL!Layouts[t].fields[f].width <= 8 * AL!Layouts[t].min

\* A memory answer says how many octets follow, and never more than it can
\* say (encode_memory_response, MEMORY_RESPONSE_MAX_LEN).
ASSUME MemoryAnswersCount ==
    \A n \in 0 .. 20 :
        LET octets == AL!encode_memory_response(\h1234, [i \in 1 .. n |-> i])
            read == parse_apdu(octets, Len(octets) - 1).ok
        IN  /\ read.apdu_type = "MemoryResponse"
            /\ read.data[1] % 64 = Len(octets) - 4
            /\ Len(octets) - 4 = IF n <= 15 THEN n ELSE 15

=============================================================================
