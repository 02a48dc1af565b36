--------------------------------- MODULE Apdu ---------------------------------
(***************************************************************************)
(* The transport and application layer units of a telegram                 *)
(* (knx-rs-core: message.rs, apdu.rs, tpdu.rs).  The two octets in front   *)
(* hold a 6-bit TPCI and a 10-bit APCI; services of some APCI families use *)
(* the low 6 bits of the APCI for data.                                    *)
(***************************************************************************)
EXTENDS Octets, Naturals, Sequences

ApduType == [
    GroupValueRead |-> \h000, GroupValueResponse |-> \h040, GroupValueWrite |-> \h080,
    IndividualAddressWrite |-> \h0C0, IndividualAddressRead |-> \h100,
    IndividualAddressResponse |-> \h140,
    IndividualAddressSerialNumberRead |-> \h3DC,
    IndividualAddressSerialNumberResponse |-> \h3DD,
    IndividualAddressSerialNumberWrite |-> \h3DE,
    SystemNetworkParameterRead |-> \h1C8, SystemNetworkParameterResponse |-> \h1C9,
    SystemNetworkParameterWrite |-> \h1CA,
    DomainAddressWrite |-> \h3E0, DomainAddressRead |-> \h3E1,
    DomainAddressResponse |-> \h3E2, DomainAddressSelectiveRead |-> \h3E3,
    DomainAddressSerialNumberRead |-> \h3EC, DomainAddressSerialNumberResponse |-> \h3ED,
    DomainAddressSerialNumberWrite |-> \h3EE,
    AdcRead |-> \h180, AdcResponse |-> \h1C0,
    PropertyValueExtRead |-> \h1CC, PropertyValueExtResponse |-> \h1CD,
    PropertyValueExtWriteCon |-> \h1CE, PropertyValueExtWriteConResponse |-> \h1CF,
    PropertyValueExtWriteUnCon |-> \h1D0, PropertyExtDescriptionRead |-> \h1D2,
    PropertyExtDescriptionResponse |-> \h1D3, FunctionPropertyExtCommand |-> \h1D4,
    FunctionPropertyExtState |-> \h1D5, FunctionPropertyExtStateResponse |-> \h1D6,
    MemoryExtWrite |-> \h1FB, MemoryExtWriteResponse |-> \h1FC,
    MemoryExtRead |-> \h1FD, MemoryExtReadResponse |-> \h1FE,
    MemoryRead |-> \h200, MemoryResponse |-> \h240, MemoryWrite |-> \h280,
    UserMemoryRead |-> \h2C0, UserMemoryResponse |-> \h2C1, UserMemoryWrite |-> \h2C2,
    UserManufacturerInfoRead |-> \h2C5, UserManufacturerInfoResponse |-> \h2C6,
    FunctionPropertyCommand |-> \h2C7, FunctionPropertyState |-> \h2C8,
    FunctionPropertyStateResponse |-> \h2C9,
    DeviceDescriptorRead |-> \h300, DeviceDescriptorResponse |-> \h340,
    Restart |-> \h380, RestartMasterReset |-> \h381,
    RoutingTableOpen |-> \h3C0, RoutingTableRead |-> \h3C1,
    RoutingTableReadResponse |-> \h3C2, RoutingTableWrite |-> \h3C3,
    MemoryRouterWrite |-> \h3CA, MemoryRouterReadResponse |-> \h3C9,
    AuthorizeRequest |-> \h3D1, AuthorizeResponse |-> \h3D2,
    KeyWrite |-> \h3D3, KeyResponse |-> \h3D4,
    PropertyValueRead |-> \h3D5, PropertyValueResponse |-> \h3D6,
    PropertyValueWrite |-> \h3D7, PropertyDescriptionRead |-> \h3D8,
    PropertyDescriptionResponse |-> \h3D9, SecureService |-> \h3F1]

\* match_apdu_type: the one service with these bits, if there is one.
apdu_types(apci) == {t \in DOMAIN ApduType : ApduType[t] = apci}

APCI_SHORT_DATA_MASK == 63

is_short_apci(apci) == apci \div 64 < 11 /\ apci \div 64 # 7

normalize_apci(raw) ==
    LET apci == raw % 1024
    IN  IF is_short_apci(apci) THEN (apci \div 64) * 64 ELSE apci

apdu_type_from_raw(raw) == apdu_types(normalize_apci(raw))

-----------------------------------------------------------------------------
\* An application layer unit: its service and its data without the APCI.
Apdu(apdu_type, data) == [apdu_type |-> apdu_type, data |-> data]

\* Services whose data begin in the octet of the APCI.
KeepsApciOctet ==
    {"MemoryRead", "MemoryWrite", "MemoryResponse", "AdcRead", "AdcResponse"}

decode_apci(apci, apdu_type, payload, npdu_length) ==
    IF is_short_apci(apci) /\ npdu_length <= 1
    THEN <<payload[2] % 64>>
    ELSE from(payload, IF apdu_type \in KeepsApciOctet THEN 2 ELSE 3)

parse_apdu(payload, npdu_length) ==
    IF Len(payload) < 2 THEN Err("NoApdu")
    ELSE LET apci == u16(payload, 1) % 1024
         IN  IF apdu_type_from_raw(apci) = {} THEN Err("NoApdu")
             ELSE LET t == CHOOSE t \in apdu_type_from_raw(apci) : TRUE
                  IN  Ok(Apdu(t, decode_apci(apci, t, payload, npdu_length)))

encode_apci_header(apdu_type, tpci) ==
    <<(tpci \div 4) * 4 + (ApduType[apdu_type] \div 256), ApduType[apdu_type] % 256>>

\* One octet of data that fits into the APCI goes there, and so does no data.
uses_short_form(apci, data) ==
    /\ is_short_apci(apci) /\ Len(data) <= 1
    /\ \A i \in DOMAIN data : data[i] <= APCI_SHORT_DATA_MASK

apdu_to_bytes(apdu, tpci) ==
    LET header == encode_apci_header(apdu.apdu_type, tpci)
    IN  IF uses_short_form(ApduType[apdu.apdu_type], apdu.data)
        THEN <<header[1], (header[2] \div 64) * 64 +
                              (IF apdu.data = <<>> THEN 0 ELSE apdu.data[1])>>
        ELSE header \o apdu.data

\* GroupValuePayload: a value of up to six bits, or a value of whole octets.
Inline(value) == [form |-> "Inline", data |-> <<value>>]
Bytes(data) == [form |-> "Bytes", data |-> data]

\* GroupValueApdu::try_to_bytes; a read has no payload.
group_value_to_bytes(apdu_type, payload, tpci) ==
    LET header == encode_apci_header(apdu_type, tpci)
    IN  IF apdu_type = "GroupValueRead" THEN Ok(header)
        ELSE IF payload.form = "Inline"
             THEN IF payload.data[1] > APCI_SHORT_DATA_MASK THEN Err("InlineValueOutOfRange")
                  ELSE Ok(<<header[1], header[2] + payload.data[1]>>)
             ELSE IF payload.data = <<>> THEN Err("EmptyBytePayload")
                  ELSE Ok(header \o payload.data)

-----------------------------------------------------------------------------
\* Transport layer units: control (a connection's) or data.
Control(tpdu_type, seq) == [tpdu_type |-> tpdu_type, sequence_number |-> seq]
Data(tpdu_type, seq, apdu) ==
    [tpdu_type |-> tpdu_type, sequence_number |-> seq, apdu |-> apdu]

control_type(tpci) ==
    IF bits(tpci, 64, 2) = 1 THEN IF tpci % 2 = 0 THEN "Ack" ELSE "Nack"
    ELSE IF tpci % 2 = 0 THEN "Connect" ELSE "Disconnect"

data_type(tpci, is_group, destination) ==
    CASE is_group /\ destination = 0 -> "DataBroadcast"
      [] is_group /\ destination # 0 -> "DataGroup"
      [] ~ is_group /\ bits(tpci, 64, 2) = 1 -> "DataConnected"
      [] OTHER -> "DataIndividual"

parse_tpdu(payload, npdu_length, is_group, destination) ==
    IF payload = <<>> THEN Err("NoTpdu")
    ELSE LET tpci == payload[1]
             seq == bits(tpci, 4, 16)
         IN  IF tpci >= 128 THEN Ok(Control(control_type(tpci), seq))
             ELSE Then(parse_apdu(payload, npdu_length), LAMBDA apdu :
                      Ok(Data(data_type(tpci, is_group, destination), seq, apdu)))

encode_control(tpdu_type, seq) ==
    CASE tpdu_type = "Connect" -> <<\h80>>
      [] tpdu_type = "Disconnect" -> <<\h81>>
      [] tpdu_type = "Ack" -> <<\hC0 + (seq % 16) * 4>>
      [] tpdu_type = "Nack" -> <<\hC1 + (seq % 16) * 4>>
      [] OTHER -> <<>>

\* The TPCI of numbered data shares its octet with the APCI.
encode_data_connected(seq, apdu) ==
    LET tpci == \h40 + (seq % 16) * 4
    IN  IF apdu = <<>> THEN <<tpci>> ELSE <<tpci + (apdu[1] % 4)>> \o Tail(apdu)

=============================================================================
