---------------------------- MODULE GroupTelegrams ----------------------------
(***************************************************************************)
(* Group values as telegrams: how a value becomes a cEMI frame             *)
(* (knx-rs-ip/src/ops.rs, knx-rs-core/src/apdu.rs) and is read back.       *)
(***************************************************************************)
EXTENDS Cemi, Datapoints

AL == INSTANCE ApplicationLayer

TPCI_DATA_GROUP == 0

\* GroupValuePayload::from_dpt_encoded: a value of fewer than eight bits goes
\* inside the APCI, every other one behind it.
from_dpt_encoded(dpt, data) ==
    LET size == wire_size(dpt)
    IN  IF dpt.main = 31 THEN Err("UnsupportedGroupValueSize")
        ELSE CASE size[1] = "Bits" ->
                    IF Len(data) # 1 THEN Err("PayloadLengthMismatch")
                    ELSE IF data[1] > 2 ^ size[2] - 1 THEN Err("InlineValueOutOfRange")
                    ELSE Ok(Inline(data[1]))
               [] size[1] = "Bytes" ->
                    IF Len(data) # size[2] THEN Err("PayloadLengthMismatch") ELSE Ok(Bytes(data))
               [] size[1] = "VariableBytes" -> Ok(Bytes(data))
               [] OTHER -> Err("UnsupportedGroupValueSize")

build_cemi_group_frame(ga, unit) ==
    try_new_l_data("LDataReq", 0, ga, TRUE, "Low", unit)

\* group_write_raw, group_respond_raw and group_read.
build_group_value_frame(ga, service, value) ==
    Then(group_value_to_bytes(service, value, TPCI_DATA_GROUP), LAMBDA unit :
        build_cemi_group_frame(ga, unit))
build_group_read(ga) == build_group_value_frame(ga, "GroupValueRead", Inline(0))

\* group_write_value and group_respond_value.
build_dpt_group_frame(ga, service, dpt, value) ==
    Then(encode(dpt, value), LAMBDA data :
        Then(from_dpt_encoded(dpt, data), LAMBDA value_payload :
            build_group_value_frame(ga, service, value_payload)))

\* What a device sends: without a datapoint type the form goes by the value.
encode_group_value_for_dpt(dpts, data, service) ==
    IF dpts = <<>> THEN Ok(AL!encode_group_value(service, data))
    ELSE Then(from_dpt_encoded(dpts[1], data), LAMBDA value_payload :
             group_value_to_bytes(service, value_payload, TPCI_DATA_GROUP))

=============================================================================
