--------------------------------- MODULE Cemi ---------------------------------
(***************************************************************************)
(* cEMI frames (knx-rs-core: cemi.rs, types.rs, message.rs).  A frame is   *)
(* its octets: message code, length of the additional information, that    *)
(* information, two control octets, the addresses, the length of the       *)
(* network unit and the transport unit.                                    *)
(***************************************************************************)
EXTENDS Apdu, Addresses

MessageCode == [
    LDataReq |-> \h11, LDataCon |-> \h2E, LDataInd |-> \h29,
    PropReadReq |-> \hFC, PropReadCon |-> \hFB, PropWriteReq |-> \hF6,
    PropWriteCon |-> \hF5, PropInfoInd |-> \hF7,
    FuncPropCommandReq |-> \hF8, FuncPropStateReadReq |-> \hF9, FuncPropCon |-> \hFA,
    ResetReq |-> \hF1, ResetInd |-> \hF0]

message_codes(octet) == {c \in DOMAIN MessageCode : MessageCode[c] = octet}

\* The values of a control field in the order of their codes.
ControlValues == [
    frame_type |-> <<"Extended", "Standard">>,
    priority |-> <<"System", "Normal", "Urgent", "Low">>,
    ack |-> <<"DontCare", "Requested">>,
    address_type |-> <<"Individual", "Group">>,
    repetition |-> <<"WasRepeated", "WasNotRepeated">>,
    system_broadcast |-> <<"System", "Broadcast">>,
    confirm |-> <<"NoError", "Error">>,
    hop_count |-> <<0, 1, 2, 3, 4, 5, 6, 7>>]

\* Where a field is: in which control octet, and what its lowest bit is worth.
ControlField == [
    frame_type |-> <<0, 128>>, repetition |-> <<0, 32>>, system_broadcast |-> <<0, 16>>,
    priority |-> <<0, 4>>, ack |-> <<0, 2>>, confirm |-> <<0, 1>>,
    address_type |-> <<1, 128>>, hop_count |-> <<1, 16>>]

\* Position of the first control octet, and of the transport unit.
ctrl_offset(frame) == 3 + frame[2]
payload(frame) == from(frame, ctrl_offset(frame) + 7)
npdu_length(frame) == frame[ctrl_offset(frame) + 6]

field(frame, name) ==
    LET octet == frame[ctrl_offset(frame) + ControlField[name][1]]
        values == ControlValues[name]
    IN  values[1 + bits(octet, ControlField[name][2], Len(values))]

with_field(frame, name, value) ==
    LET at == ctrl_offset(frame) + ControlField[name][1]
        values == ControlValues[name]
        code == (CHOOSE i \in DOMAIN values : values[i] = value) - 1
    IN  [frame EXCEPT ![at] = with_bits(@, ControlField[name][2], Len(values), code)]

source_address(frame) == u16(frame, ctrl_offset(frame) + 2)
destination_address(frame) == u16(frame, ctrl_offset(frame) + 4)

with_address(frame, at, raw) ==
    [frame EXCEPT ![at] = raw \div 256, ![at + 1] = raw % 256]
with_source_address(frame, raw) == with_address(frame, ctrl_offset(frame) + 2, raw)
with_destination_address(frame, raw) == with_address(frame, ctrl_offset(frame) + 4, raw)

-----------------------------------------------------------------------------
\* The length of the network unit counts one octet less than it holds, and
\* there are always two.
parse_cemi(octets) ==
    CASE Len(octets) < 2 -> Err("TooShort")
      [] Len(octets) >= 2 /\ message_codes(octets[1]) = {} -> Err("UnknownMessageCode")
      [] OTHER ->
           IF Len(octets) < ctrl_offset(octets) + 6 THEN Err("TooShort")
           ELSE LET unit == npdu_length(octets) + 1
                IN  IF Len(octets) # ctrl_offset(octets) + 6 + (IF unit < 2 THEN 2 ELSE unit)
                    THEN Err("LengthMismatch") ELSE Ok(octets)

MAX_PAYLOAD == 256

try_new_l_data(message_code, source, destination, is_group, priority, unit) ==
    IF Len(unit) > MAX_PAYLOAD THEN Err("PayloadTooLong")
    ELSE LET bare == <<MessageCode[message_code], 0, \hB0, 6 * 16>>
                       \o be(source, 2) \o be(destination, 2)
                       \o <<IF unit = <<>> THEN 0 ELSE Len(unit) - 1>>
                       \o unit \o (IF Len(unit) < 2 THEN zeroes(2 - Len(unit)) ELSE <<>>)
         IN  Ok(with_field(with_field(bare, "priority", priority),
                           "address_type", IF is_group THEN "Group" ELSE "Individual"))

tpdu(frame) == parse_tpdu(payload(frame), npdu_length(frame),
                          field(frame, "address_type") = "Group",
                          destination_address(frame))

\* The group telegram a frame carries, if it carries one of these services.
group_telegram(frame, services) ==
    IF field(frame, "address_type") # "Group" THEN Err("NotAGroupTelegram")
    ELSE Then(tpdu(frame), LAMBDA unit :
            IF "apdu" \in DOMAIN unit /\ unit.apdu.apdu_type \in services
            THEN Ok(<<destination_address(frame), unit.apdu.data>>)
            ELSE Err("NotAGroupTelegram"))

as_group_write(frame) == group_telegram(frame, {"GroupValueWrite", "GroupValueResponse"})
as_group_read(frame) == Then(group_telegram(frame, {"GroupValueRead"}), LAMBDA t : Ok(t[1]))

=============================================================================
