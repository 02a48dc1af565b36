--------------------------- MODULE ApplicationLayer ---------------------------
(***************************************************************************)
(* The application layer services of a device                              *)
(* (knx-rs-device/src/application_layer): where each request has its       *)
(* fields, and how each answer is put together.                            *)
(***************************************************************************)
EXTENDS Apdu, TLC

\* A field: the bit it begins at, the first bit of the data being bit 0, and
\* its width.  Keys and serial numbers stay octets.
FieldAt(bit, width) == [bit |-> bit, width |-> width]

read_field(data, at) ==
    LET octets == SubSeq(data, at.bit \div 8 + 1, (at.bit + at.width - 1) \div 8 + 1)
        number[i \in 0 .. Len(octets)] ==
            IF i = 0 THEN 0 ELSE number[i - 1] * 256 + octets[i]
        below == 8 * (at.bit \div 8 + Len(octets)) - at.bit - at.width
    IN  IF at.width >= 32 THEN octets
        ELSE (number[Len(octets)] \div 2 ^ below) % 2 ^ at.width

ObjectAt == [object_index |-> FieldAt(0, 8), property_id |-> FieldAt(8, 8)]
ElementsAt == ObjectAt @@ [count |-> FieldAt(16, 4), start_index |-> FieldAt(20, 12)]
MemoryAt == [count |-> FieldAt(2, 6), address |-> FieldAt(8, 16)]
MemoryExtAt == [count |-> FieldAt(0, 8), address |-> FieldAt(8, 24)]
parse_ext_ot_oi_pid == [object_type |-> FieldAt(0, 16), object_instance |-> FieldAt(16, 12),
                        property_id |-> FieldAt(28, 12)]
parse_ext_property_header ==
    parse_ext_ot_oi_pid @@ [count |-> FieldAt(40, 8), start_index |-> FieldAt(48, 16)]

Nothing == [none \in {} |-> 0]

\* A request has min octets at least; with data, those after them are its data.
Fields(min, fields) == [min |-> min, fields |-> fields, data |-> FALSE]
WithData(min, fields) == [Fields(min, fields) EXCEPT !.data = TRUE]

parse_group_value_write == WithData(0, Nothing)
parse_group_value_response == WithData(0, Nothing)
parse_group_value_read == Fields(0, Nothing)
parse_property_value_read == Fields(4, ElementsAt)
parse_property_value_write == WithData(4, ElementsAt)
parse_property_description_read == Fields(3, ObjectAt @@ [property_index |-> FieldAt(16, 8)])
parse_function_property_command == WithData(2, ObjectAt)
parse_function_property_state == WithData(2, ObjectAt)
parse_memory_read == Fields(3, MemoryAt)
parse_memory_write == WithData(3, MemoryAt)
parse_memory_ext_read == Fields(4, MemoryExtAt)
parse_memory_ext_write == WithData(4, MemoryExtAt)
parse_property_value_ext_read == Fields(8, parse_ext_property_header)
parse_property_value_ext_write_con == WithData(8, parse_ext_property_header)
parse_property_value_ext_write_uncon == WithData(8, parse_ext_property_header)
parse_property_ext_description_read ==
    Fields(8, parse_ext_ot_oi_pid @@ [description_type |-> FieldAt(40, 4),
                                      property_index |-> FieldAt(52, 12)])
parse_restart == Fields(0, Nothing)
parse_individual_address_read == Fields(0, Nothing)
parse_individual_address_write == Fields(2, [address |-> FieldAt(0, 16)])
parse_individual_address_serial_number_read == Fields(6, [serial |-> FieldAt(0, 48)])
parse_individual_address_serial_number_write ==
    Fields(8, [serial |-> FieldAt(0, 48), address |-> FieldAt(48, 16)])
parse_authorize_request == Fields(5, [key |-> FieldAt(8, 32)])
parse_key_write == Fields(5, [level |-> FieldAt(0, 8), key |-> FieldAt(8, 32)])
parse_system_network_parameter_read ==
    WithData(4, [object_type |-> FieldAt(0, 16), property_id |-> FieldAt(16, 12)])
parse_adc_read == Fields(2, [channel |-> FieldAt(2, 6), count |-> FieldAt(8, 8)])

Layouts == [
    GroupValueRead |-> parse_group_value_read, GroupValueWrite |-> parse_group_value_write,
    GroupValueResponse |-> parse_group_value_response,
    PropertyValueRead |-> parse_property_value_read,
    PropertyValueWrite |-> parse_property_value_write,
    PropertyDescriptionRead |-> parse_property_description_read,
    FunctionPropertyCommand |-> parse_function_property_command,
    FunctionPropertyState |-> parse_function_property_state,
    MemoryRead |-> parse_memory_read, MemoryWrite |-> parse_memory_write,
    MemoryExtRead |-> parse_memory_ext_read, MemoryExtWrite |-> parse_memory_ext_write,
    PropertyValueExtRead |-> parse_property_value_ext_read,
    PropertyValueExtWriteCon |-> parse_property_value_ext_write_con,
    PropertyValueExtWriteUnCon |-> parse_property_value_ext_write_uncon,
    PropertyExtDescriptionRead |-> parse_property_ext_description_read,
    Restart |-> parse_restart, IndividualAddressRead |-> parse_individual_address_read,
    IndividualAddressWrite |-> parse_individual_address_write,
    IndividualAddressSerialNumberRead |-> parse_individual_address_serial_number_read,
    IndividualAddressSerialNumberWrite |-> parse_individual_address_serial_number_write,
    AuthorizeRequest |-> parse_authorize_request, KeyWrite |-> parse_key_write,
    SystemNetworkParameterRead |-> parse_system_network_parameter_read,
    AdcRead |-> parse_adc_read]

Indication(service, fields, data) ==
    [service |-> service, fields |-> fields, data |-> data]

\* The descriptor type is 0 in an empty request.
parse_device_descriptor_read(data) ==
    Indication("DeviceDescriptorRead",
               [descriptor_type |-> IF data = <<>> THEN 0 ELSE data[1] % 64], <<>>)

\* Erase code and channel, behind a repeated APCI octet if there are three.
parse_restart_master_reset(data) ==
    IF Len(data) < 2 THEN Err("TruncatedPayload")
    ELSE LET at == IF Len(data) = 2 THEN 1 ELSE 2
         IN  Ok(Indication("RestartMasterReset",
                           [erase_code |-> data[at], channel |-> data[at + 1]], <<>>))

parse_indication(apdu_type, data) ==
    CASE apdu_type = "DeviceDescriptorRead" -> Ok(parse_device_descriptor_read(data))
      [] apdu_type = "RestartMasterReset" -> parse_restart_master_reset(data)
      [] apdu_type \in DOMAIN Layouts ->
           LET layout == Layouts[apdu_type]
           IN  IF Len(data) < layout.min THEN Err("TruncatedPayload")
               ELSE Ok(Indication(apdu_type,
                        [f \in DOMAIN layout.fields |-> read_field(data, layout.fields[f])],
                        IF layout.data THEN from(data, layout.min + 1) ELSE <<>>))
      [] OTHER -> Err("UnsupportedApdu")

\* A raw APDU is taken apart as the frames are, its length its own.
parse_raw_apdu(octets) ==
    LET read == parse_apdu(octets, IF octets = <<>> THEN 0 ELSE Len(octets) - 1)
    IN  IF IsOk(read) THEN parse_indication(read.ok.apdu_type, read.ok.data)
        ELSE Err("MalformedData")

-----------------------------------------------------------------------------
apci_bytes(apdu_type) == be(ApduType[apdu_type], 2)

Answer(apdu_type, octets) == apci_bytes(apdu_type) \o octets

\* The APCI with a value in its low bits.
AnswerWith(apdu_type, value, octets) == be(ApduType[apdu_type] + value, 2) \o octets

encode_group_value(apdu_type, data) ==
    IF Len(data) = 1 /\ data[1] <= APCI_SHORT_DATA_MASK
    THEN AnswerWith(apdu_type, data[1], <<>>) ELSE Answer(apdu_type, data)
encode_group_value_write(data) == encode_group_value("GroupValueWrite", data)
encode_group_value_response(data) == encode_group_value("GroupValueResponse", data)
encode_group_value_read == Answer("GroupValueRead", <<>>)

encode_individual_address_response == Answer("IndividualAddressResponse", <<>>)
encode_individual_address_serial_number_response(serial, domain_address) ==
    Answer("IndividualAddressSerialNumberResponse", serial \o be(domain_address, 2))

encode_device_descriptor_response(mask_version) ==
    Answer("DeviceDescriptorResponse", be(mask_version, 2))

\* Only the high octet is the one of the response.
DESCRIPTOR_TYPE_UNSUPPORTED == 63
encode_device_descriptor_unsupported ==
    <<apci_bytes("DeviceDescriptorResponse")[1], DESCRIPTOR_TYPE_UNSUPPORTED>>

encode_property_response(object_index, property_id, count, start_index, data) ==
    Answer("PropertyValueResponse",
           <<object_index, property_id>> \o be((count % 16) * 4096 + (start_index % 4096), 2) \o data)

push_property_description_fields(write_enable, pdt, max_elements, access) ==
    <<(IF write_enable THEN 128 ELSE 0) + (pdt % 64)>> \o be(max_elements % 4096, 2) \o <<access>>

encode_property_description_response(object_index, property_id, property_index, description) ==
    Answer("PropertyDescriptionResponse",
           <<object_index, property_id, property_index>> \o description)

\* What does not fit into the 4-bit count is left out.
MEMORY_RESPONSE_MAX_LEN == 15
encode_memory_response(address, data) ==
    LET kept == SubSeq(data, 1, IF Len(data) < MEMORY_RESPONSE_MAX_LEN
                                THEN Len(data) ELSE MEMORY_RESPONSE_MAX_LEN)
    IN  AnswerWith("MemoryResponse", Len(kept), be(address, 2) \o kept)

encode_memory_ext_read_response(return_code, address, data) ==
    Answer("MemoryExtReadResponse", <<return_code>> \o be(address, 3) \o data)
encode_memory_ext_write_response(return_code, address) ==
    Answer("MemoryExtWriteResponse", <<return_code>> \o be(address, 3))

encode_authorize_response(level) == Answer("AuthorizeResponse", <<level>>)
encode_key_response(level) == Answer("KeyResponse", <<level>>)

\* The answer is told from the request by one bit of the APCI.
encode_restart_response(error_code, process_time) ==
    AnswerWith("RestartMasterReset", 32, <<error_code>> \o be(process_time, 2))

encode_system_network_parameter_response(object_type, property_id, test_info, test_result) ==
    Answer("SystemNetworkParameterResponse",
           be(object_type, 2) \o be((property_id * 16) % 65536, 2) \o test_info \o test_result)

encode_adc_response(channel, count, value) ==
    AnswerWith("AdcResponse", channel % 64, <<count>> \o be(value, 2))

encode_function_property_state_response(object_index, property_id, result) ==
    Answer("FunctionPropertyStateResponse", <<object_index, property_id>> \o result)

encode_ext_ot_oi_pid(object_type, object_instance, property_id) ==
    be(object_type, 2) \o be((object_instance % 4096) * 4096 + (property_id % 4096), 3)

encode_ext_property_header(object_type, object_instance, property_id, count, start_index) ==
    encode_ext_ot_oi_pid(object_type, object_instance, property_id)
    \o <<count>> \o be(start_index, 2)

\* header: the octets of encode_ext_property_header.
encode_property_value_ext_response(header, data) ==
    Answer("PropertyValueExtResponse", header \o data)

\* oiot: object type, object instance and property id, as a request has them.
\* An element count other than 0 says that the write succeeded.
encode_property_value_ext_write_con_response(oiot, count, start_index, return_code) ==
    Answer("PropertyValueExtWriteConResponse",
           encode_ext_property_header(oiot.object_type, oiot.object_instance, oiot.property_id,
                                      IF return_code = 0 THEN count ELSE 0, start_index)
           \o <<return_code>>)

encode_property_ext_description_response(oiot, description_type, property_index, description) ==
    Answer("PropertyExtDescriptionResponse",
           encode_ext_ot_oi_pid(oiot.object_type, oiot.object_instance, oiot.property_id)
           \o be((description_type % 16) * 4096 + (property_index % 4096), 2) \o description)

\* An APDU taken apart is put together again for the connection it came on.
encode_raw_apdu(apdu) ==
    LET header == apci_bytes(apdu.apdu_type)
    IN  (IF apdu.apdu_type \in KeepsApciOctet /\ apdu.data # <<>>
         THEN <<header[1]>> ELSE header) \o apdu.data

=============================================================================
