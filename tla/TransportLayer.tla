--------------------------- MODULE TransportLayer ---------------------------
(***************************************************************************)
(* The connection-oriented transport layer of a KNX device: the struct     *)
(* TransportLayer of knx-rs-device/src/transport_layer.rs and its methods. *)
(*                                                                         *)
(* The struct is a record and a method that takes &mut self is an operator *)
(* from the record before the call to the record after it.  Priority and   *)
(* octets of a frame travel together and are one member of Apdu.           *)
(*                                                                         *)
(* Time: the code stores a deadline as an absolute time and compares it    *)
(* with the now_ms of each call.  Here a timer is the time that is left    *)
(* until that deadline, in ticks; 0 is "now_ms >= deadline" and Off is     *)
(* the None of the code.  Elapse is one tick of the clock.                 *)
(***************************************************************************)
EXTENDS Integers, Sequences

CONSTANTS
    Address,            \* individual addresses
    Zero,               \* the address 0.0.0 a fresh transport layer starts with
    Apdu,               \* payloads of connected data
    None,               \* an empty Option
    SEQ_MOD,            \* sequence numbers are 0 .. SEQ_MOD - 1 (16 in the code)
    MAX_REP_COUNT,      \* retransmissions before giving up (3 in the code)
    CONNECTION_TIMEOUT, \* ticks (6 s in the code)
    ACK_TIMEOUT         \* ticks (3 s in the code)

SeqNo == 0 .. SEQ_MOD - 1

SavedFrame == [destination : Address, seq_no : SeqNo, apdu : Apdu]

ASSUME AddressAssumption == Zero \in Address
ASSUME SeqAssumption == SEQ_MOD \in Nat \ {0, 1}
ASSUME RepAssumption == MAX_REP_COUNT \in Nat
ASSUME TimeoutAssumption == /\ CONNECTION_TIMEOUT \in Nat \ {0}
                            /\ ACK_TIMEOUT \in Nat \ {0}
ASSUME NoneAssumption == None \notin Apdu /\ None \notin SavedFrame

State == {"Closed", "OpenIdle", "OpenWait", "Connecting"}

Off == -1

-----------------------------------------------------------------------------
(* What the transport layer hands to its caller (enum Action).             *)

SendControl(destination, tpdu_type, seq_no) ==
    [type |-> "SendControl", destination |-> destination,
     tpdu_type |-> tpdu_type, seq_no |-> seq_no]

SendDataConnected(destination, seq_no, apdu) ==
    [type |-> "SendDataConnected", destination |-> destination,
     seq_no |-> seq_no, apdu |-> apdu]

ConnectIndication(source) == [type |-> "ConnectIndication", source |-> source]

ConnectConfirm(destination) ==
    [type |-> "ConnectConfirm", destination |-> destination]

DisconnectIndication(address) ==
    [type |-> "DisconnectIndication", address |-> address]

DataConnectedIndication(source, apdu) ==
    [type |-> "DataConnectedIndication", source |-> source, apdu |-> apdu]

DataConnectedConfirm == [type |-> "DataConnectedConfirm"]

Action ==
    {SendControl(d, k, n) : d \in Address, n \in SeqNo,
                            k \in {"Connect", "Disconnect", "Ack", "Nack"}}
    \cup {SendDataConnected(d, n, x) : d \in Address, n \in SeqNo, x \in Apdu}
    \cup {ConnectIndication(s) : s \in Address}
    \cup {ConnectConfirm(d) : d \in Address}
    \cup {DisconnectIndication(a) : a \in Address}
    \cup {DataConnectedIndication(s, x) : s \in Address, x \in Apdu}
    \cup {DataConnectedConfirm}

-----------------------------------------------------------------------------
(* struct TransportLayer.                                                  *)

Transport ==
    [state : State,
     connection_address : Address,
     seq_no_send : SeqNo,
     seq_no_recv : SeqNo,
     rep_count : 0 .. MAX_REP_COUNT,
     connection_timeout : Off .. CONNECTION_TIMEOUT,
     ack_timeout : Off .. ACK_TIMEOUT,
     saved_frame : SavedFrame \cup {None},
     buffered_request : Apdu \cup {None},
     actions : Seq(Action)]

new ==
    [state |-> "Closed",
     connection_address |-> Zero,
     seq_no_send |-> 0,
     seq_no_recv |-> 0,
     rep_count |-> 0,
     connection_timeout |-> Off,
     ack_timeout |-> Off,
     saved_frame |-> None,
     buffered_request |-> None,
     actions |-> <<>>]

take_actions(t) == [t EXCEPT !.actions = <<>>]

\* One tick of the clock: a running timer comes nearer to its deadline.
Left(timer) == IF timer > 0 THEN timer - 1 ELSE timer

Elapse(t) ==
    [t EXCEPT !.connection_timeout = Left(@), !.ack_timeout = Left(@)]

-----------------------------------------------------------------------------
(* The actions A1 .. A12 of the KNX state machine.                         *)

a1_accept_connection(t, source) ==
    [t EXCEPT !.connection_address = source,
              !.seq_no_send = 0,
              !.seq_no_recv = 0,
              !.connection_timeout = CONNECTION_TIMEOUT,
              !.actions = Append(@, ConnectIndication(source)),
              !.state = "OpenIdle"]

\* Mutants of A2: the sequence number is not masked, or not advanced.
a2_unmasked(t, source, apdu) ==
    [t EXCEPT !.actions = Append(Append(@, SendControl(source, "Ack", t.seq_no_recv)),
                                 DataConnectedIndication(source, apdu)),
              !.seq_no_recv = @ + 1,
              !.connection_timeout = CONNECTION_TIMEOUT]

a2_not_advancing(t, source, apdu) ==
    [t EXCEPT !.actions = Append(Append(@, SendControl(source, "Ack", t.seq_no_recv)),
                                 DataConnectedIndication(source, apdu)),
              !.connection_timeout = CONNECTION_TIMEOUT]

a2_receive_data(t, source, apdu) ==
    [t EXCEPT !.actions = Append(Append(@, SendControl(source, "Ack", t.seq_no_recv)),
                                 DataConnectedIndication(source, apdu)),
              !.seq_no_recv = (@ + 1) % SEQ_MOD,
              !.connection_timeout = CONNECTION_TIMEOUT]

a3_ack_repeated(t, source, seq_no) ==
    [t EXCEPT !.actions = Append(@, SendControl(source, "Ack", seq_no)),
              !.connection_timeout = CONNECTION_TIMEOUT]

a4_nack_wrong_seq(t, source, seq_no) ==
    [t EXCEPT !.actions = Append(@, SendControl(source, "Nack", seq_no)),
              !.connection_timeout = CONNECTION_TIMEOUT]

\* The callers of a5 and of active_disconnect all close the state next; the
\* assignment is part of these two operators.
a5_passive_disconnect(t, address) ==
    [t EXCEPT !.connection_timeout = Off,
              !.ack_timeout = Off,
              !.actions = Append(@, DisconnectIndication(address)),
              !.state = "Closed"]

\* Mutant of active_disconnect: the ACK timer keeps running.
disconnect_keeps_ack_timer(t) ==
    [t EXCEPT !.actions =
                 Append(Append(@, SendControl(t.connection_address, "Disconnect", 0)),
                        DisconnectIndication(t.connection_address)),
              !.connection_timeout = Off,
              !.state = "Closed"]

active_disconnect(t) ==
    [t EXCEPT !.actions =
                 Append(Append(@, SendControl(t.connection_address, "Disconnect", 0)),
                        DisconnectIndication(t.connection_address)),
              !.connection_timeout = Off,
              !.ack_timeout = Off,
              !.state = "Closed"]

\* Mutants of A7: the repetition counter is not reset; the sequence number
\* advances when the frame is sent instead of when it is acknowledged.
a7_keeps_rep_count(t, apdu) ==
    [t EXCEPT !.saved_frame = [destination |-> t.connection_address,
                               seq_no |-> t.seq_no_send, apdu |-> apdu],
              !.actions = Append(@, SendDataConnected(t.connection_address,
                                                      t.seq_no_send, apdu)),
              !.ack_timeout = ACK_TIMEOUT,
              !.connection_timeout = CONNECTION_TIMEOUT,
              !.state = "OpenWait"]

a7_advances_early(t, apdu) ==
    [a7_keeps_rep_count(t, apdu) EXCEPT !.rep_count = 0,
                                        !.seq_no_send = (@ + 1) % SEQ_MOD]

\* A7, with the transition to OpenWait that both of its callers make next.
a7_send_data(t, apdu) ==
    [t EXCEPT !.saved_frame = [destination |-> t.connection_address,
                               seq_no |-> t.seq_no_send, apdu |-> apdu],
              !.actions = Append(@, SendDataConnected(t.connection_address,
                                                      t.seq_no_send, apdu)),
              !.rep_count = 0,
              !.ack_timeout = ACK_TIMEOUT,
              !.connection_timeout = CONNECTION_TIMEOUT,
              !.state = "OpenWait"]

\* A8, with the transition to OpenIdle that its caller makes next.
a8_ack_received(t) ==
    [t EXCEPT !.ack_timeout = Off,
              !.seq_no_send = (@ + 1) % SEQ_MOD,
              !.saved_frame = None,
              !.connection_timeout = CONNECTION_TIMEOUT,
              !.actions = Append(@, DataConnectedConfirm),
              !.state = "OpenIdle"]

a9_retransmit(t) ==
    [t EXCEPT !.actions = IF t.saved_frame = None THEN @
                          ELSE Append(@, SendDataConnected(t.saved_frame.destination,
                                                           t.saved_frame.seq_no,
                                                           t.saved_frame.apdu)),
              !.rep_count = @ + 1,
              !.ack_timeout = ACK_TIMEOUT,
              !.connection_timeout = CONNECTION_TIMEOUT]

\* Mutant of A10: the rejected frame counts as activity of the connection.
a10_refreshes(t, source) ==
    [t EXCEPT !.actions = Append(@, SendControl(source, "Disconnect", 0)),
              !.connection_timeout = CONNECTION_TIMEOUT]

a10_reject_foreign(t, source) ==
    [t EXCEPT !.actions = Append(@, SendControl(source, "Disconnect", 0))]

\* A12, with the transition to Connecting that its caller makes next.
a12_initiate_connection(t, destination) ==
    [t EXCEPT !.connection_address = destination,
              !.seq_no_send = 0,
              !.seq_no_recv = 0,
              !.actions = Append(@, SendControl(destination, "Connect", 0)),
              !.connection_timeout = CONNECTION_TIMEOUT,
              !.state = "Connecting"]

-----------------------------------------------------------------------------
(* Incoming frames.                                                        *)

\* Mutant: a Connect from another participant is accepted in any state.
connect_takes_over(t, source) ==
    IF t.state # "Closed" /\ source = t.connection_address THEN t
    ELSE a1_accept_connection(t, source)

connect_indication(t, source) ==
    CASE t.state = "Closed" -> a1_accept_connection(t, source)
      [] t.state # "Closed" /\ source = t.connection_address -> t
      [] OTHER -> a10_reject_foreign(t, source)

disconnect_indication(t, source) ==
    IF source # t.connection_address \/ t.state = "Closed"
    THEN t
    ELSE a5_passive_disconnect(t, source)

\* A frame that is not from the connected peer: rejected while Connecting.
from_other(t, source) ==
    IF t.state = "Connecting" THEN a10_reject_foreign(t, source) ELSE t

prev_seq(t) == (t.seq_no_recv + SEQ_MOD - 1) % SEQ_MOD

data_connected_indication(t, source, seq_no, apdu) ==
    CASE source # t.connection_address -> from_other(t, source)
      [] source = t.connection_address /\ t.state = "Closed" -> t
      [] source = t.connection_address /\ t.state \in {"OpenIdle", "OpenWait"} ->
            IF seq_no = t.seq_no_recv THEN a2_receive_data(t, source, apdu)
            ELSE IF seq_no = prev_seq(t) THEN a3_ack_repeated(t, source, seq_no)
            ELSE a4_nack_wrong_seq(t, source, seq_no)
      [] OTHER ->
            IF seq_no = prev_seq(t) THEN a3_ack_repeated(t, source, seq_no)
            ELSE active_disconnect(t)

\* Mutant: the sequence number of an ACK is not compared.
ack_any_seq(t, source, seq_no) ==
    CASE source # t.connection_address -> from_other(t, source)
      [] source = t.connection_address /\ t.state \in {"Closed", "OpenIdle"} -> t
      [] source = t.connection_address /\ t.state = "OpenWait" -> a8_ack_received(t)
      [] OTHER -> active_disconnect(t)

ack_indication(t, source, seq_no) ==
    CASE source # t.connection_address -> from_other(t, source)
      [] source = t.connection_address /\ t.state \in {"Closed", "OpenIdle"} -> t
      [] source = t.connection_address /\ t.state = "OpenWait"
            /\ seq_no = t.seq_no_send -> a8_ack_received(t)
      [] OTHER -> active_disconnect(t)

\* Mutant: one retransmission too many.
retransmit_once_more(t) ==
    IF t.rep_count <= MAX_REP_COUNT THEN a9_retransmit(t) ELSE active_disconnect(t)

\* MAX_REP_COUNT retransmissions, then the connection is given up.
retransmit_or_give_up(t) ==
    IF t.rep_count < MAX_REP_COUNT THEN a9_retransmit(t) ELSE active_disconnect(t)

nack_indication(t, source, seq_no) ==
    CASE source # t.connection_address -> from_other(t, source)
      [] source = t.connection_address /\ t.state = "Closed" -> t
      [] source = t.connection_address /\ t.state \in {"OpenIdle", "Connecting"} ->
            active_disconnect(t)
      [] OTHER ->
            IF seq_no # t.seq_no_send THEN t ELSE retransmit_or_give_up(t)

connect_confirm(t, success) ==
    CASE t.state # "Connecting" -> t
      [] t.state = "Connecting" /\ success ->
            [t EXCEPT !.actions = Append(@, ConnectConfirm(t.connection_address)),
                      !.state = "OpenIdle"]
      [] OTHER -> a5_passive_disconnect(t, t.connection_address)

-----------------------------------------------------------------------------
(* Requests of the application layer.                                      *)

\* Mutant: a request made in OpenWait replaces the outstanding frame.
request_replaces(t, apdu) ==
    CASE t.state = "Closed" -> t
      [] t.state \in {"OpenIdle", "OpenWait"} -> a7_send_data(t, apdu)
      [] OTHER -> [t EXCEPT !.buffered_request = apdu]

data_connected_request(t, apdu) ==
    CASE t.state = "Closed" -> t
      [] t.state = "OpenIdle" -> a7_send_data(t, apdu)
      [] OTHER -> [t EXCEPT !.buffered_request = apdu]

connect_request(t, destination) ==
    IF t.state = "Closed" THEN a12_initiate_connection(t, destination)
    ELSE active_disconnect(t)

disconnect_request(t) ==
    IF t.state = "Closed"
    THEN [t EXCEPT !.actions = Append(@, DisconnectIndication(t.connection_address))]
    ELSE active_disconnect(t)

-----------------------------------------------------------------------------
(* Periodic processing: at most one of the three things happens per call.  *)

connection_timed_out(t) == t.connection_timeout = 0

ack_timed_out(t) == t.ack_timeout = 0 /\ t.state = "OpenWait"

\* Mutant: a buffered request is sent whatever the state.
poll_sends_in_any_state(t) ==
    CASE connection_timed_out(t) ->
            IF t.state = "Closed" THEN [t EXCEPT !.connection_timeout = Off]
            ELSE active_disconnect(t)
      [] ~connection_timed_out(t) /\ ack_timed_out(t) -> retransmit_or_give_up(t)
      [] ~connection_timed_out(t) /\ ~ack_timed_out(t) /\ t.buffered_request # None ->
            a7_send_data([t EXCEPT !.buffered_request = None], t.buffered_request)
      [] OTHER -> t

poll(t) ==
    CASE connection_timed_out(t) ->
            IF t.state = "Closed" THEN [t EXCEPT !.connection_timeout = Off]
            ELSE active_disconnect(t)
      [] ~connection_timed_out(t) /\ ack_timed_out(t) -> retransmit_or_give_up(t)
      [] ~connection_timed_out(t) /\ ~ack_timed_out(t)
            /\ t.state = "OpenIdle" /\ t.buffered_request # None ->
            a7_send_data([t EXCEPT !.buffered_request = None], t.buffered_request)
      [] OTHER -> t

=============================================================================
