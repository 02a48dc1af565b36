-------------------------- MODULE TransportEndpoint --------------------------
(***************************************************************************)
(* One transport layer in an environment that may do anything: every bus   *)
(* participant may send any telegram at any time, the application may make *)
(* any request, poll may come late.  After each call the caller takes the  *)
(* pending actions (Bau.drain_transport_actions), so that tl.actions holds *)
(* what the last call produced.                                            *)
(***************************************************************************)
EXTENDS TransportLayer

VARIABLES
    tl,             \* the TransportLayer
    transmissions,  \* history: how often the outstanding frame went on the bus
    silent          \* environment: participants that will send nothing more

TLvars == <<tl, transmissions, silent>>

\* The data frames a call put on the bus.
DataSent(t) == {i \in DOMAIN t.actions : t.actions[i].type = "SendDataConnected"}

\* A call of the transport layer; `after` is its outcome.
Call(after) ==
    /\ tl' = after
    /\ transmissions' =
          IF after.state # "OpenWait" THEN 0
          ELSE IF DataSent(after) = {} THEN transmissions
          ELSE transmissions + 1
    /\ UNCHANGED silent

idle == take_actions(tl)

TLInit == tl = new /\ transmissions = 0 /\ silent = {}

-----------------------------------------------------------------------------
ReceiveConnect(source) ==
    source \notin silent /\ Call(connect_indication(idle, source))

ReceiveDisconnect(source) ==
    source \notin silent /\ Call(disconnect_indication(idle, source))

ReceiveData(source, seq_no, apdu) ==
    source \notin silent /\ Call(data_connected_indication(idle, source, seq_no, apdu))

ReceiveAck(source, seq_no) ==
    source \notin silent /\ Call(ack_indication(idle, source, seq_no))

ReceiveNack(source, seq_no) ==
    source \notin silent /\ Call(nack_indication(idle, source, seq_no))

\* The L2 confirm comes from the device's own data link layer.
ConfirmConnect(success) == Call(connect_confirm(idle, success))

RequestData(apdu) == Call(data_connected_request(idle, apdu))

RequestConnect(destination) == Call(connect_request(idle, destination))

RequestDisconnect == Call(disconnect_request(idle))

Poll == Call(poll(idle))

TLTick == /\ tl' = Elapse(idle)
          /\ UNCHANGED <<transmissions, silent>>

\* A participant leaves the bus for good.
FallSilent(source) ==
    /\ silent' = silent \cup {source}
    /\ tl' = idle
    /\ UNCHANGED transmissions

TLReceive ==
    \E source \in Address :
        \/ ReceiveConnect(source)
        \/ ReceiveDisconnect(source)
        \/ \E seq_no \in SeqNo : \/ ReceiveAck(source, seq_no)
                                 \/ ReceiveNack(source, seq_no)
                                 \/ \E apdu \in Apdu : ReceiveData(source, seq_no, apdu)

TLRequest ==
    \/ \E success \in BOOLEAN : ConfirmConnect(success)
    \/ \E apdu \in Apdu : RequestData(apdu)
    \/ \E destination \in Address : RequestConnect(destination)
    \/ RequestDisconnect

TLNext == \/ TLReceive
          \/ TLRequest
          \/ Poll
          \/ TLTick
          \/ \E source \in Address : FallSilent(source)

TLSpec == TLInit /\ [][TLNext]_TLvars

\* "Must be called periodically": poll is called again and again, time passes.
TLFairSpec == TLSpec /\ WF_TLvars(Poll) /\ WF_TLvars(TLTick)

-----------------------------------------------------------------------------
(* The struct keeps its type; transmissions counts no further than the      *)
(* retransmission limit lets it.                                            *)
TypeOK == /\ tl \in Transport
          /\ transmissions \in Nat
          /\ silent \subseteq Address

(* A connection is never held without its supervision: the connection      *)
(* timer runs exactly while the state is not Closed, and the ACK timer     *)
(* runs exactly while a frame is outstanding (OpenWait).  Every path of    *)
(* the state machine that opens, closes, sends or is acknowledged sets or  *)
(* clears the two timers by hand.                                          *)
TimersFollowState ==
    /\ tl.connection_timeout = Off <=> tl.state = "Closed"
    /\ tl.ack_timeout = Off <=> tl.state # "OpenWait"

(* What A9 would retransmit is the frame that is outstanding on this       *)
(* connection: addressed to the connected peer and carrying the sequence   *)
(* number the next ACK is compared with.                                   *)
SavedFrameIsOutstanding ==
    tl.state = "OpenWait" =>
        /\ tl.saved_frame # None
        /\ tl.saved_frame.destination = tl.connection_address
        /\ tl.saved_frame.seq_no = tl.seq_no_send

(* "Maximum retransmission attempts before giving up": NACKs and ACK       *)
(* timeouts together cause at most MAX_REP_COUNT repetitions of one frame. *)
TransmissionsBounded == transmissions <= MAX_REP_COUNT + 1

(* rep_count is exactly the number of repetitions made so far.             *)
RepCountCounts == tl.state = "OpenWait" => transmissions = tl.rep_count + 1

(* While a frame stays outstanding, every data frame put on the bus is     *)
(* that same frame: a retransmission never carries another sequence        *)
(* number, peer or payload, whatever the application buffers meanwhile.    *)
RetransmitsTheSame ==
    [][ (tl.state = "OpenWait" /\ tl'.state = "OpenWait") =>
          /\ tl'.saved_frame = tl.saved_frame
          /\ \A i \in DataSent(tl') :
                tl'.actions[i] = SendDataConnected(tl.saved_frame.destination,
                                                   tl.saved_frame.seq_no,
                                                   tl.saved_frame.apdu)
      ]_TLvars

(* A connection only ever changes hands through Closed: no telegram and no *)
(* request moves an open connection to another peer.                       *)
NoTakeover ==
    [][ tl.state # "Closed" => tl'.connection_address = tl.connection_address ]_TLvars

(* A peer that falls silent does not hold the device: its connection is    *)
(* closed, even while other participants keep sending and the application  *)
(* keeps making requests.                                                  *)
SilentPeerIsDropped ==
    \A a \in Address :
        (a \in silent /\ tl.connection_address = a) ~>
            (tl.state = "Closed" \/ tl.connection_address # a)

=============================================================================
