-------------------------------- MODULE TpUart --------------------------------
(***************************************************************************)
(* The twisted-pair link (knx-rs-tp): the frames of the line, and what the *)
(* host tells a TP-UART chip and hears from it, octet by octet.            *)
(***************************************************************************)
EXTENDS Cemi, FiniteSetsExt

MAX_FRAME_LEN == 64
HEADER_STD == 6
HEADER_EXT == 7
CRC_LEN == 1
CTRL_FRAME_TYPE == 128
APDU_LEN_MASK == 15

\* A control octet has these bits whatever its priority and repetition.
is_frame_start(octet) == bits(octet, 64, 2) = 0 /\ bits(octet, 16, 2) = 1 /\ octet % 4 = 0
is_extended_ctrl(octet) == is_frame_start(octet) /\ octet < CTRL_FRAME_TYPE

tp_header(frame) == IF is_extended_ctrl(frame[1]) THEN HEADER_EXT ELSE HEADER_STD
tp_source(frame) == u16(frame, tp_header(frame) - 4)
tp_destination_raw(frame) == u16(frame, tp_header(frame) - 2)
tp_apdu_size(frame) ==
    IF is_extended_ctrl(frame[1]) THEN frame[7] ELSE frame[6] % (APDU_LEN_MASK + 1)

\* The complement of the exclusive or of all octets: a bit is set where an
\* even number of them have it.
calc_crc_tp(octets) ==
    MapThenSumSet(LAMBDA unit :
        IF Cardinality({i \in DOMAIN octets : bits(octets[i], unit, 2) = 1}) % 2 = 0
        THEN unit ELSE 0, {2 ^ i : i \in 0 .. 7})
is_valid(frame) ==
    Len(frame) >= 7 /\ frame[Len(frame)] = calc_crc_tp(SubSeq(frame, 1, Len(frame) - 1))

from_bytes(octets) ==
    IF Len(octets) \in HEADER_STD + CRC_LEN .. MAX_FRAME_LEN THEN Ok(octets) ELSE Err("NoFrame")

\* The control octets are the third and fourth of the cEMI frame, whatever
\* its additional information.
from_cemi(cemi) ==
    LET unit == payload(cemi)
        addresses == be(source_address(cemi), 2) \o be(destination_address(cemi), 2)
        bare == IF npdu_length(cemi) <= APDU_LEN_MASK
                THEN <<with_bits(cemi[3], CTRL_FRAME_TYPE, 2, 1)>> \o addresses
                     \o <<(cemi[4] \div 16) * 16 + npdu_length(cemi)>> \o unit
                ELSE <<with_bits(cemi[3], CTRL_FRAME_TYPE, 2, 0), cemi[4]>> \o addresses
                     \o <<npdu_length(cemi)>> \o unit
    IN  IF Len(bare) + CRC_LEN > MAX_FRAME_LEN THEN Err("NoFrame")
        ELSE Ok(Append(bare, calc_crc_tp(bare)))

-----------------------------------------------------------------------------
\* Requests to the chip, and the octets it sends between frames.
U_RESET_REQ == 1
U_STATE_REQ == 2
U_ACK_REQ == \h10
U_L_DATA_START_REQ == \h80
U_L_DATA_CONT_REQ == U_L_DATA_START_REQ
U_L_DATA_END_REQ == \h40
U_RESET_IND == 3
is_state_ind(octet) == octet % 8 = 7
is_frame_state_ind(octet) == octet % 8 = 3 /\ bits(octet, 16, 2) = 1

set_address_req == [Ncn5120 |-> \hF1, TpUart2 |-> \h28]
set_address(bcu_type, address) == <<set_address_req[bcu_type]>> \o be(address, 2)

send_ack(addressed, busy, nack) ==
    LET one(flag) == IF flag THEN 1 ELSE 0
    IN  <<U_ACK_REQ + one(addressed) + 2 * one(busy) + 4 * one(nack)>>

\* Each octet goes out behind a request with its index.
transmit_frame(frame) ==
    [i \in 1 .. 2 * Len(frame) |->
        LET at == (i + 1) \div 2
            request == CASE at = 1 -> U_L_DATA_START_REQ
                         [] at = Len(frame) /\ at # 1 -> U_L_DATA_END_REQ
                         [] OTHER -> U_L_DATA_CONT_REQ
        IN  IF i % 2 = 0 THEN frame[at] ELSE request + ((at - 1) % 64)]

-----------------------------------------------------------------------------
\* The receiver: the octets of the frame it is in, and how many it expects.
Receiver(buffer, expected) == [rx_buf |-> buffer, rx_expected |-> expected]
Idle == Receiver(<<>>, 0)

Heard(rx, indication) == [rx |-> rx, indication |-> indication]
Indicate(kind, value) == <<kind, value>>

between_frames(octet) ==
    CASE octet = U_RESET_IND -> Heard(Idle, Indicate("Reset", 0))
      [] is_state_ind(octet) -> Heard(Idle, Indicate("State", octet))
      [] is_frame_state_ind(octet) ->
           Heard(Idle, Indicate("TransmitConfirm", octet < 128))
      [] is_frame_start(octet) -> Heard(Receiver(<<octet>>, 0), <<>>)
      [] OTHER -> Heard(Idle, <<>>)

\* A plausible bug: the length octet is taken for the length of the unit.
frame_length_short(buffer) == tp_header(buffer) + tp_apdu_size(buffer) + CRC_LEN

\* The length octet counts one octet less than the unit has.
frame_length(buffer) == tp_header(buffer) + tp_apdu_size(buffer) + 1 + CRC_LEN

in_frame(rx, octet) ==
    LET buffer == Append(rx.rx_buf, octet)
        measured == rx.rx_expected = 0 /\ Len(buffer) >= HEADER_STD + CRC_LEN
        expected == IF measured THEN frame_length(buffer) ELSE rx.rx_expected
    IN  CASE measured /\ expected > MAX_FRAME_LEN -> Heard(Idle, Indicate("Overrun", 0))
          [] expected > 0 /\ expected <= MAX_FRAME_LEN /\ Len(buffer) >= expected ->
               Heard(Idle, Indicate("Frame", buffer))
          [] OTHER -> Heard(Receiver(buffer, expected), <<>>)

process(rx, octet) ==
    IF rx.rx_buf = <<>> THEN between_frames(octet) ELSE in_frame(rx, octet)

=============================================================================
