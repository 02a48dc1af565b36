------------------------ MODULE TransportLayerProofs ------------------------
(***************************************************************************)
(* The invariant of struct TransportLayer, preserved by every method: the  *)
(* types, the timers that follow the state and the saved frame.  Then the  *)
(* inductive invariant of one endpoint in an arbitrary environment and the *)
(* properties that follow from it.  The proofs about two layers that are   *)
(* connected and about the Bus Access Unit rest on the first part.         *)
(***************************************************************************)
EXTENDS TransportEndpoint, TLAPS

-----------------------------------------------------------------------------
(* What the methods push on the action list is an Action.                   *)

LEMMA ActionConstructors ==
    /\ \A d \in Address, n \in SeqNo, k \in {"Connect", "Disconnect", "Ack", "Nack"} :
          SendControl(d, k, n) \in Action
    /\ \A d \in Address, n \in SeqNo, x \in Apdu : SendDataConnected(d, n, x) \in Action
    /\ \A a \in Address : /\ ConnectIndication(a) \in Action
                          /\ ConnectConfirm(a) \in Action
                          /\ DisconnectIndication(a) \in Action
    /\ \A s \in Address, x \in Apdu : DataConnectedIndication(s, x) \in Action
    /\ DataConnectedConfirm \in Action
BY DEF Action

LEMMA Push == \A s \in Seq(Action), a \in Action : Append(s, a) \in Seq(Action)
OBVIOUS

LEMMA SeqNoFacts ==
    /\ 0 \in SeqNo
    /\ \A n \in SeqNo : (n + 1) % SEQ_MOD \in SeqNo
BY SeqAssumption DEF SeqNo

LEMMA TimerFacts ==
    /\ Off \in Off .. CONNECTION_TIMEOUT
    /\ Off \in Off .. ACK_TIMEOUT
    /\ CONNECTION_TIMEOUT \in Off .. CONNECTION_TIMEOUT
    /\ ACK_TIMEOUT \in Off .. ACK_TIMEOUT
    /\ CONNECTION_TIMEOUT # Off
    /\ ACK_TIMEOUT # Off
BY TimeoutAssumption DEF Off

LEMMA RepFacts ==
    /\ 0 \in 0 .. MAX_REP_COUNT
    /\ \A r \in 0 .. MAX_REP_COUNT : r < MAX_REP_COUNT => r + 1 \in 0 .. MAX_REP_COUNT
BY RepAssumption

LEMMA StateFacts ==
    /\ "Closed" \in State /\ "OpenIdle" \in State
    /\ "OpenWait" \in State /\ "Connecting" \in State
BY DEF State

-----------------------------------------------------------------------------
(* The invariant of the struct: its type, the timers that follow the state, *)
(* and the outstanding frame that is saved.                                 *)

Supervised(t) ==
    /\ t.connection_timeout = Off <=> t.state = "Closed"
    /\ t.ack_timeout = Off <=> t.state # "OpenWait"

Outstanding(t) ==
    t.state = "OpenWait" =>
        /\ t.saved_frame # None
        /\ t.saved_frame.destination = t.connection_address
        /\ t.saved_frame.seq_no = t.seq_no_send

Sound == {t \in Transport : Supervised(t) /\ Outstanding(t)}

\* The methods A1 .. A12 preserve it, each in the states it is called in.

LEMMA A1Sound ==
    ASSUME NEW t \in Sound, t.state = "Closed", NEW source \in Address
    PROVE  a1_accept_connection(t, source) \in Sound
<1> DEFINE u == a1_accept_connection(t, source)
<1>0. t \in Transport
  BY DEF Sound
<1>1. Append(t.actions, ConnectIndication(source)) \in Seq(Action)
  BY <1>0, Push, ActionConstructors DEF Transport
<1>2. u \in Transport
  BY <1>0, <1>1, SeqNoFacts, TimerFacts, StateFacts DEF Transport, a1_accept_connection
<1>3. Supervised(u) /\ Outstanding(u)
  BY <1>0, TimerFacts DEF Sound, Supervised, Outstanding, Transport, a1_accept_connection
<1> QED BY <1>2, <1>3 DEF Sound

LEMMA A2Sound ==
    ASSUME NEW t \in Sound, t.state \in {"OpenIdle", "OpenWait"},
           NEW source \in Address, NEW apdu \in Apdu
    PROVE  a2_receive_data(t, source, apdu) \in Sound
<1> DEFINE u == a2_receive_data(t, source, apdu)
<1>0. t \in Transport
  BY DEF Sound
<1>1. Append(Append(t.actions, SendControl(source, "Ack", t.seq_no_recv)),
             DataConnectedIndication(source, apdu)) \in Seq(Action)
  BY <1>0, Push, ActionConstructors DEF Transport
<1>2. u \in Transport
  BY <1>0, <1>1, SeqNoFacts, TimerFacts DEF Transport, a2_receive_data
<1>3. Supervised(u) /\ Outstanding(u)
  BY <1>0, TimerFacts DEF Sound, Supervised, Outstanding, Transport, a2_receive_data
<1> QED BY <1>2, <1>3 DEF Sound

LEMMA A3Sound ==
    ASSUME NEW t \in Sound, t.state \in {"OpenIdle", "OpenWait", "Connecting"},
           NEW source \in Address, NEW seq_no \in SeqNo
    PROVE  a3_ack_repeated(t, source, seq_no) \in Sound
<1> DEFINE u == a3_ack_repeated(t, source, seq_no)
<1>0. t \in Transport
  BY DEF Sound
<1>1. Append(t.actions, SendControl(source, "Ack", seq_no)) \in Seq(Action)
  BY <1>0, Push, ActionConstructors, SeqNoFacts DEF Transport
<1>2. u \in Transport
  BY <1>0, <1>1, TimerFacts DEF Transport, a3_ack_repeated
<1>3. Supervised(u) /\ Outstanding(u)
  BY <1>0, TimerFacts DEF Sound, Supervised, Outstanding, Transport, a3_ack_repeated
<1> QED BY <1>2, <1>3 DEF Sound

LEMMA A4Sound ==
    ASSUME NEW t \in Sound, t.state \in {"OpenIdle", "OpenWait"},
           NEW source \in Address, NEW seq_no \in SeqNo
    PROVE  a4_nack_wrong_seq(t, source, seq_no) \in Sound
<1> DEFINE u == a4_nack_wrong_seq(t, source, seq_no)
<1>0. t \in Transport
  BY DEF Sound
<1>1. Append(t.actions, SendControl(source, "Nack", seq_no)) \in Seq(Action)
  BY <1>0, Push, ActionConstructors, SeqNoFacts DEF Transport
<1>2. u \in Transport
  BY <1>0, <1>1, TimerFacts DEF Transport, a4_nack_wrong_seq
<1>3. Supervised(u) /\ Outstanding(u)
  BY <1>0, TimerFacts DEF Sound, Supervised, Outstanding, Transport, a4_nack_wrong_seq
<1> QED BY <1>2, <1>3 DEF Sound

LEMMA A5Sound ==
    ASSUME NEW t \in Sound, NEW address \in Address
    PROVE  a5_passive_disconnect(t, address) \in Sound
<1> DEFINE u == a5_passive_disconnect(t, address)
<1>0. t \in Transport
  BY DEF Sound
<1>1. Append(t.actions, DisconnectIndication(address)) \in Seq(Action)
  BY <1>0, Push, ActionConstructors, SeqNoFacts DEF Transport
<1>2. u \in Transport
  BY <1>0, <1>1, TimerFacts, StateFacts DEF Transport, a5_passive_disconnect
<1>3. Supervised(u) /\ Outstanding(u)
  BY <1>0, TimerFacts DEF Sound, Supervised, Outstanding, Transport, a5_passive_disconnect
<1> QED BY <1>2, <1>3 DEF Sound

LEMMA DisconnectSound ==
    ASSUME NEW t \in Sound
    PROVE  active_disconnect(t) \in Sound
<1> DEFINE u == active_disconnect(t)
<1>0. t \in Transport
  BY DEF Sound
<1>1. Append(Append(t.actions, SendControl(t.connection_address, "Disconnect", 0)),
             DisconnectIndication(t.connection_address)) \in Seq(Action)
  BY <1>0, Push, ActionConstructors, SeqNoFacts DEF Transport
<1>2. u \in Transport
  BY <1>0, <1>1, TimerFacts, StateFacts DEF Transport, active_disconnect
<1>3. Supervised(u) /\ Outstanding(u)
  BY <1>0, TimerFacts DEF Sound, Supervised, Outstanding, Transport, active_disconnect
<1> QED BY <1>2, <1>3 DEF Sound

LEMMA A7Sound ==
    ASSUME NEW t \in Sound, t.state = "OpenIdle", NEW apdu \in Apdu
    PROVE  a7_send_data(t, apdu) \in Sound
<1> DEFINE u == a7_send_data(t, apdu)
<1>0. t \in Transport
  BY DEF Sound
<1>1. Append(t.actions, SendDataConnected(t.connection_address, t.seq_no_send, apdu)) \in Seq(Action)
  BY <1>0, Push, ActionConstructors, SeqNoFacts DEF Transport
<1>2. u \in Transport
  BY <1>0, <1>1, TimerFacts, StateFacts, RepFacts DEF Transport, a7_send_data, SavedFrame
<1>3. Supervised(u) /\ Outstanding(u)
  BY <1>0, TimerFacts, NoneAssumption DEF Sound, Supervised, Outstanding, Transport, a7_send_data, SavedFrame
<1> QED BY <1>2, <1>3 DEF Sound

LEMMA A8Sound ==
    ASSUME NEW t \in Sound, t.state = "OpenWait"
    PROVE  a8_ack_received(t) \in Sound
<1> DEFINE u == a8_ack_received(t)
<1>0. t \in Transport
  BY DEF Sound
<1>1. Append(t.actions, DataConnectedConfirm) \in Seq(Action)
  BY <1>0, Push, ActionConstructors, SeqNoFacts DEF Transport
<1>2. u \in Transport
  BY <1>0, <1>1, TimerFacts, StateFacts, SeqNoFacts DEF Transport, a8_ack_received
<1>3. Supervised(u) /\ Outstanding(u)
  BY <1>0, TimerFacts DEF Sound, Supervised, Outstanding, Transport, a8_ack_received
<1> QED BY <1>2, <1>3 DEF Sound

LEMMA A9Sound ==
    ASSUME NEW t \in Sound, t.state = "OpenWait", t.rep_count < MAX_REP_COUNT
    PROVE  a9_retransmit(t) \in Sound
<1> DEFINE u == a9_retransmit(t)
<1>0. t \in Transport
  BY DEF Sound
<1>1. Append(t.actions, SendDataConnected(t.saved_frame.destination,
                                    t.saved_frame.seq_no, t.saved_frame.apdu)) \in Seq(Action)
  BY <1>0, Push, ActionConstructors DEF Transport, Sound, Outstanding, SavedFrame
<1>2. u \in Transport
  BY <1>0, <1>1, TimerFacts, RepFacts DEF Transport, a9_retransmit
<1>3. Supervised(u) /\ Outstanding(u)
  BY <1>0, TimerFacts DEF Sound, Supervised, Outstanding, Transport, a9_retransmit
<1> QED BY <1>2, <1>3 DEF Sound

LEMMA A10Sound ==
    ASSUME NEW t \in Sound, NEW source \in Address
    PROVE  a10_reject_foreign(t, source) \in Sound
<1> DEFINE u == a10_reject_foreign(t, source)
<1>0. t \in Transport
  BY DEF Sound
<1>1. Append(t.actions, SendControl(source, "Disconnect", 0)) \in Seq(Action)
  BY <1>0, Push, ActionConstructors, SeqNoFacts DEF Transport
<1>2. u \in Transport
  BY <1>0, <1>1, TimerFacts DEF Transport, a10_reject_foreign
<1>3. Supervised(u) /\ Outstanding(u)
  BY <1>0, TimerFacts DEF Sound, Supervised, Outstanding, Transport, a10_reject_foreign
<1> QED BY <1>2, <1>3 DEF Sound

LEMMA A12Sound ==
    ASSUME NEW t \in Sound, t.state = "Closed", NEW destination \in Address
    PROVE  a12_initiate_connection(t, destination) \in Sound
<1> DEFINE u == a12_initiate_connection(t, destination)
<1>0. t \in Transport
  BY DEF Sound
<1>1. Append(t.actions, SendControl(destination, "Connect", 0)) \in Seq(Action)
  BY <1>0, Push, ActionConstructors, SeqNoFacts DEF Transport
<1>2. u \in Transport
  BY <1>0, <1>1, TimerFacts, StateFacts, SeqNoFacts DEF Transport, a12_initiate_connection
<1>3. Supervised(u) /\ Outstanding(u)
  BY <1>0, TimerFacts DEF Sound, Supervised, Outstanding, Transport, a12_initiate_connection
<1> QED BY <1>2, <1>3 DEF Sound

-----------------------------------------------------------------------------
(* The public methods preserve the invariant of the struct.                 *)

LEMMA SoundFacts ==
    \A t \in Sound :
        /\ t \in Transport
        /\ t.state \in {"Closed", "OpenIdle", "OpenWait", "Connecting"}
        /\ t.connection_address \in Address
        /\ t.seq_no_send \in SeqNo
        /\ t.seq_no_recv \in SeqNo
        /\ t.rep_count \in 0 .. MAX_REP_COUNT
BY DEF Sound, Transport, State

LEMMA NewSound == new \in Sound
<1>1. new \in Transport
  BY AddressAssumption, SeqNoFacts, RepFacts, TimerFacts, StateFacts DEF new, Transport
<1> QED BY <1>1 DEF new, Sound, Supervised, Outstanding

LEMMA TakeActionsSound == \A t \in Sound : take_actions(t) \in Sound
<1> SUFFICES ASSUME NEW t \in Sound PROVE take_actions(t) \in Sound
  OBVIOUS
<1>0. <<>> \in Seq(Action)
  OBVIOUS
<1>1. take_actions(t) \in Transport
  BY <1>0 DEF Sound, Transport, take_actions
<1>2. Supervised(take_actions(t)) /\ Outstanding(take_actions(t))
  BY DEF Sound, Supervised, Outstanding, Transport, take_actions
<1> QED BY <1>1, <1>2 DEF Sound

LEMMA LeftType ==
    ASSUME NEW limit \in Nat, NEW timer \in Off .. limit
    PROVE  Left(timer) \in Off .. limit /\ (Left(timer) = Off <=> timer = Off)
BY DEF Left, Off

LEMMA ElapseSound == \A t \in Sound : Elapse(t) \in Sound
<1> SUFFICES ASSUME NEW t \in Sound PROVE Elapse(t) \in Sound
  OBVIOUS
<1>0. t \in Transport
  BY DEF Sound
<1>1. /\ Left(t.connection_timeout) \in Off .. CONNECTION_TIMEOUT
      /\ Left(t.connection_timeout) = Off <=> t.connection_timeout = Off
      /\ Left(t.ack_timeout) \in Off .. ACK_TIMEOUT
      /\ Left(t.ack_timeout) = Off <=> t.ack_timeout = Off
  <2>1. /\ t.connection_timeout \in Off .. CONNECTION_TIMEOUT
        /\ t.ack_timeout \in Off .. ACK_TIMEOUT
    BY <1>0 DEF Transport
  <2> QED BY <2>1, LeftType, TimeoutAssumption
<1>2. Elapse(t) \in Transport
  BY <1>0, <1>1 DEF Transport, Elapse
<1>3. Supervised(Elapse(t)) /\ Outstanding(Elapse(t))
  BY <1>0, <1>1 DEF Sound, Supervised, Outstanding, Transport, Elapse
<1> QED BY <1>2, <1>3 DEF Sound

LEMMA ConnectIndicationSound ==
    \A t \in Sound, source \in Address : connect_indication(t, source) \in Sound
BY SoundFacts, A1Sound, A10Sound DEF connect_indication

LEMMA DisconnectIndicationSound ==
    \A t \in Sound, source \in Address : disconnect_indication(t, source) \in Sound
BY A5Sound DEF disconnect_indication

LEMMA FromOtherSound ==
    \A t \in Sound, source \in Address : from_other(t, source) \in Sound
BY A10Sound DEF from_other

LEMMA DataIndicationSound ==
    \A t \in Sound, source \in Address, seq_no \in SeqNo, apdu \in Apdu :
        data_connected_indication(t, source, seq_no, apdu) \in Sound
BY SoundFacts, FromOtherSound, A2Sound, A3Sound, A4Sound, DisconnectSound
   DEF data_connected_indication

LEMMA AckIndicationSound ==
    \A t \in Sound, source \in Address, seq_no \in SeqNo :
        ack_indication(t, source, seq_no) \in Sound
BY SoundFacts, FromOtherSound, A8Sound, DisconnectSound DEF ack_indication

LEMMA RetransmitSound ==
    \A t \in Sound : t.state = "OpenWait" => retransmit_or_give_up(t) \in Sound
BY A9Sound, DisconnectSound DEF retransmit_or_give_up

LEMMA NackIndicationSound ==
    \A t \in Sound, source \in Address, seq_no \in SeqNo :
        nack_indication(t, source, seq_no) \in Sound
BY SoundFacts, FromOtherSound, RetransmitSound, DisconnectSound DEF nack_indication

LEMMA ConnectConfirmSound ==
    \A t \in Sound, success \in BOOLEAN : connect_confirm(t, success) \in Sound
<1> SUFFICES ASSUME NEW t \in Sound, NEW success \in BOOLEAN
             PROVE  connect_confirm(t, success) \in Sound
  OBVIOUS
<1>0. t \in Transport /\ t.connection_address \in Address
  BY SoundFacts
<1>1. CASE t.state = "Connecting" /\ success
  <2>1. Append(t.actions, ConnectConfirm(t.connection_address)) \in Seq(Action)
    BY <1>0, Push, ActionConstructors DEF Transport
  <2>2. connect_confirm(t, success) \in Transport
    BY <1>0, <1>1, <2>1, StateFacts DEF Transport, connect_confirm
  <2>3. Supervised(connect_confirm(t, success)) /\ Outstanding(connect_confirm(t, success))
    BY <1>0, <1>1 DEF Sound, Supervised, Outstanding, Transport, connect_confirm
  <2> QED BY <2>2, <2>3 DEF Sound
<1>2. CASE ~(t.state = "Connecting" /\ success)
  BY <1>0, <1>2, A5Sound DEF connect_confirm
<1> QED BY <1>1, <1>2

LEMMA DataRequestSound ==
    \A t \in Sound, apdu \in Apdu : data_connected_request(t, apdu) \in Sound
<1> SUFFICES ASSUME NEW t \in Sound, NEW apdu \in Apdu
             PROVE  data_connected_request(t, apdu) \in Sound
  OBVIOUS
<1>1. [t EXCEPT !.buffered_request = apdu] \in Sound
  BY DEF Sound, Supervised, Outstanding, Transport
<1> QED BY <1>1, A7Sound DEF data_connected_request

LEMMA ConnectRequestSound ==
    \A t \in Sound, destination \in Address : connect_request(t, destination) \in Sound
BY A12Sound, DisconnectSound DEF connect_request

LEMMA DisconnectRequestSound == \A t \in Sound : disconnect_request(t) \in Sound
<1> SUFFICES ASSUME NEW t \in Sound PROVE disconnect_request(t) \in Sound
  OBVIOUS
<1> DEFINE u == [t EXCEPT !.actions = Append(@, DisconnectIndication(t.connection_address))]
<1>0. t \in Transport
  BY DEF Sound
<1>1. Append(t.actions, DisconnectIndication(t.connection_address)) \in Seq(Action)
  BY <1>0, Push, ActionConstructors DEF Transport
<1>2. u \in Transport
  BY <1>0, <1>1 DEF Transport
<1>3. Supervised(u) /\ Outstanding(u)
  BY <1>0 DEF Sound, Supervised, Outstanding, Transport
<1> QED BY <1>2, <1>3, DisconnectSound DEF disconnect_request, Sound

LEMMA PollSound == \A t \in Sound : poll(t) \in Sound
<1> SUFFICES ASSUME NEW t \in Sound PROVE poll(t) \in Sound
  OBVIOUS
<1> DEFINE off == [t EXCEPT !.connection_timeout = Off]
           taken == [t EXCEPT !.buffered_request = None]
<1>1. t.state = "Closed" => off \in Sound
  BY TimerFacts DEF Sound, Supervised, Outstanding, Transport
<1>2. taken \in Sound /\ taken.state = t.state
  BY DEF Sound, Supervised, Outstanding, Transport
<1>3. t.buffered_request # None => t.buffered_request \in Apdu
  BY DEF Sound, Transport
<1> HIDE DEF taken, off
<1>4. CASE connection_timed_out(t)
  BY <1>1, <1>4, DisconnectSound DEF poll, off
<1>5. CASE ~connection_timed_out(t) /\ ack_timed_out(t)
  BY <1>5, RetransmitSound DEF poll, ack_timed_out
<1>6. CASE ~connection_timed_out(t) /\ ~ack_timed_out(t)
  BY <1>2, <1>3, <1>6, A7Sound DEF poll, taken
<1> QED BY <1>4, <1>5, <1>6

-----------------------------------------------------------------------------
(* A transport layer whose actions have been taken: the state every call    *)
(* starts from.  A call produces at most two actions.                       *)

Idle == {t \in Sound : t.actions = <<>>}

LEMMA IdleFacts ==
    \A t \in Idle : t \in Sound /\ t \in Transport /\ t.actions = <<>>
BY DEF Idle, Sound

LEMMA OneAction ==
    ASSUME NEW s, NEW a, s = Append(<<>>, a)
    PROVE  DOMAIN s = {1} /\ s[1] = a
<1>1. s = <<a>>
  OBVIOUS
<1> QED BY <1>1

LEMMA AppendAction ==
    ASSUME NEW s \in Seq(Action), NEW a \in Action
    PROVE  /\ Append(s, a) \in Seq(Action)
           /\ Len(Append(s, a)) = Len(s) + 1
           /\ DOMAIN Append(s, a) = 1 .. Len(s) + 1
           /\ \A i \in 1 .. Len(s) : Append(s, a)[i] = s[i]
           /\ Append(s, a)[Len(s) + 1] = a
<1>1. Append(s, a) \in Seq(Action) /\ Len(Append(s, a)) = Len(s) + 1
  OBVIOUS
<1>2. DOMAIN Append(s, a) = 1 .. Len(s) + 1
  BY <1>1
<1>3. \A i \in 1 .. Len(s) : Append(s, a)[i] = s[i]
  OBVIOUS
<1>4. Append(s, a)[Len(s) + 1] = a
  OBVIOUS
<1> QED BY <1>1, <1>2, <1>3, <1>4

LEMMA TwoActions ==
    ASSUME NEW s, NEW a \in Action, NEW b \in Action,
           s = Append(Append(<<>>, a), b)
    PROVE  DOMAIN s = {1, 2} /\ s[1] = a /\ s[2] = b
<1>1. Append(<<>>, a) \in Seq(Action) /\ Len(Append(<<>>, a)) = 1 /\ Append(<<>>, a)[1] = a
  OBVIOUS
<1>2. DOMAIN s = 1 .. 2 /\ s[1] = a /\ s[2] = b
  BY <1>1, AppendAction
<1> QED BY <1>2


-----------------------------------------------------------------------------
(* How a call counts the repetitions of the outstanding frame, that it      *)
(* repeats no other frame, and that it keeps the connection's peer.         *)

Counted(t, u) ==
    /\ u.state = "OpenWait" =>
          IF DataSent(u) = {} THEN t.state = "OpenWait" /\ u.rep_count = t.rep_count
          ELSE u.rep_count = IF t.state = "OpenWait" THEN t.rep_count + 1 ELSE 0
    /\ (t.state = "OpenWait" /\ u.state = "OpenWait") =>
          /\ u.saved_frame = t.saved_frame
          /\ \A i \in DataSent(u) :
                u.actions[i] = SendDataConnected(t.saved_frame.destination,
                                                 t.saved_frame.seq_no,
                                                 t.saved_frame.apdu)
    /\ t.state # "Closed" => u.connection_address = t.connection_address

LEMMA NoActionSent ==
    ASSUME NEW u, u.actions = <<>>
    PROVE  DataSent(u) = {}
BY DEF DataSent

LEMMA OneActionSent ==
    ASSUME NEW u, NEW a, u.actions = Append(<<>>, a)
    PROVE  DataSent(u) = {} <=> a.type # "SendDataConnected"
BY OneAction DEF DataSent

LEMMA TwoActionsSent ==
    ASSUME NEW u, NEW a \in Action, NEW b \in Action,
           u.actions = Append(Append(<<>>, a), b),
           a.type # "SendDataConnected", b.type # "SendDataConnected"
    PROVE  DataSent(u) = {}
BY TwoActions DEF DataSent

LEMMA ConstructorTypes ==
    \A d, k, n, x :
        /\ SendControl(d, k, n).type # "SendDataConnected"
        /\ DataConnectedIndication(d, x).type # "SendDataConnected"
        /\ SendDataConnected(d, n, x).type = "SendDataConnected"
BY DEF SendControl, DataConnectedIndication, SendDataConnected

LEMMA StutterCounted == \A t \in Idle : Counted(t, t)
BY IdleFacts, NoActionSent DEF Counted

LEMMA A1Counted ==
    ASSUME NEW t \in Idle, t.state = "Closed", NEW source \in Address
    PROVE  Counted(t, a1_accept_connection(t, source))
BY IdleFacts DEF Counted, a1_accept_connection, Transport

LEMMA ControlCounted ==
    ASSUME NEW t \in Idle, NEW d, NEW k, NEW n, NEW u,
           u.state = t.state, u.rep_count = t.rep_count,
           u.connection_address = t.connection_address,
           u.saved_frame = t.saved_frame,
           u.actions = Append(<<>>, SendControl(d, k, n))
    PROVE  Counted(t, u)
BY OneActionSent, ConstructorTypes DEF Counted

LEMMA A2Counted ==
    ASSUME NEW t \in Idle, NEW source \in Address, NEW apdu \in Apdu
    PROVE  Counted(t, a2_receive_data(t, source, apdu))
<1> DEFINE u == a2_receive_data(t, source, apdu)
<1>1. /\ u.actions = Append(Append(<<>>, SendControl(source, "Ack", t.seq_no_recv)),
                            DataConnectedIndication(source, apdu))
      /\ u.state = t.state /\ u.rep_count = t.rep_count
      /\ u.connection_address = t.connection_address
      /\ u.saved_frame = t.saved_frame
  BY IdleFacts DEF a2_receive_data, Transport
<1>2. DataSent(u) = {}
  <2>1. /\ SendControl(source, "Ack", t.seq_no_recv) \in Action
        /\ DataConnectedIndication(source, apdu) \in Action
    BY IdleFacts, ActionConstructors DEF Transport
  <2> QED BY <1>1, <2>1, TwoActionsSent, ConstructorTypes
<1> QED BY <1>1, <1>2 DEF Counted

LEMMA A3Counted ==
    ASSUME NEW t \in Idle, NEW source \in Address, NEW seq_no \in SeqNo
    PROVE  Counted(t, a3_ack_repeated(t, source, seq_no))
<1> DEFINE u == a3_ack_repeated(t, source, seq_no)
<1>1. /\ u.actions = Append(<<>>, SendControl(source, "Ack", seq_no))
      /\ u.state = t.state /\ u.rep_count = t.rep_count
      /\ u.connection_address = t.connection_address
      /\ u.saved_frame = t.saved_frame
  BY IdleFacts DEF a3_ack_repeated, Transport
<1> QED BY <1>1, ControlCounted

LEMMA A4Counted ==
    ASSUME NEW t \in Idle, NEW source \in Address, NEW seq_no \in SeqNo
    PROVE  Counted(t, a4_nack_wrong_seq(t, source, seq_no))
<1> DEFINE u == a4_nack_wrong_seq(t, source, seq_no)
<1>1. /\ u.actions = Append(<<>>, SendControl(source, "Nack", seq_no))
      /\ u.state = t.state /\ u.rep_count = t.rep_count
      /\ u.connection_address = t.connection_address
      /\ u.saved_frame = t.saved_frame
  BY IdleFacts DEF a4_nack_wrong_seq, Transport
<1> QED BY <1>1, ControlCounted

LEMMA A10Counted ==
    ASSUME NEW t \in Idle, NEW source \in Address
    PROVE  Counted(t, a10_reject_foreign(t, source))
<1> DEFINE u == a10_reject_foreign(t, source)
<1>1. /\ u.actions = Append(<<>>, SendControl(source, "Disconnect", 0))
      /\ u.state = t.state /\ u.rep_count = t.rep_count
      /\ u.connection_address = t.connection_address
      /\ u.saved_frame = t.saved_frame
  BY IdleFacts DEF a10_reject_foreign, Transport
<1> QED BY <1>1, ControlCounted

LEMMA A5Counted ==
    ASSUME NEW t \in Idle, NEW address \in Address
    PROVE  Counted(t, a5_passive_disconnect(t, address))
BY IdleFacts DEF Counted, a5_passive_disconnect, Transport

LEMMA DisconnectCounted ==
    ASSUME NEW t \in Idle
    PROVE  Counted(t, active_disconnect(t))
BY IdleFacts DEF Counted, active_disconnect, Transport

LEMMA A7Counted ==
    ASSUME NEW t \in Idle, t.state = "OpenIdle", NEW apdu \in Apdu
    PROVE  Counted(t, a7_send_data(t, apdu))
<1> DEFINE u == a7_send_data(t, apdu)
<1>1. /\ u.actions = Append(<<>>, SendDataConnected(t.connection_address,
                                                    t.seq_no_send, apdu))
      /\ u.rep_count = 0
      /\ u.connection_address = t.connection_address
  BY IdleFacts DEF a7_send_data, Transport
<1>2. DataSent(u) # {}
  BY <1>1, OneActionSent, ConstructorTypes
<1> QED BY <1>1, <1>2 DEF Counted

LEMMA A8Counted ==
    ASSUME NEW t \in Idle
    PROVE  Counted(t, a8_ack_received(t))
BY IdleFacts DEF Counted, a8_ack_received, Transport

LEMMA A9Counted ==
    ASSUME NEW t \in Idle, t.state = "OpenWait"
    PROVE  Counted(t, a9_retransmit(t))
<1> DEFINE u == a9_retransmit(t)
<1>1. /\ u.actions = Append(<<>>, SendDataConnected(t.saved_frame.destination,
                                      t.saved_frame.seq_no, t.saved_frame.apdu))
      /\ u.rep_count = t.rep_count + 1
      /\ u.connection_address = t.connection_address
  BY IdleFacts DEF a9_retransmit, Transport, Sound, Outstanding
<1>2. DataSent(u) # {}
  BY <1>1, OneActionSent, ConstructorTypes
<1>3. u.saved_frame = t.saved_frame
  BY IdleFacts DEF a9_retransmit, Transport
<1>4. \A i \in DataSent(u) :
         u.actions[i] = SendDataConnected(t.saved_frame.destination,
                                          t.saved_frame.seq_no, t.saved_frame.apdu)
  BY <1>1, OneAction DEF DataSent
<1> QED BY <1>1, <1>2, <1>3, <1>4 DEF Counted

LEMMA RetransmitCounted ==
    \A t \in Idle : t.state = "OpenWait" => Counted(t, retransmit_or_give_up(t))
BY A9Counted, DisconnectCounted DEF retransmit_or_give_up

LEMMA FromOtherCounted ==
    \A t \in Idle, source \in Address : Counted(t, from_other(t, source))
BY StutterCounted, A10Counted DEF from_other

LEMMA ConnectIndicationCounted ==
    \A t \in Idle, source \in Address : Counted(t, connect_indication(t, source))
BY StutterCounted, A1Counted, A10Counted DEF connect_indication

LEMMA DisconnectIndicationCounted ==
    \A t \in Idle, source \in Address : Counted(t, disconnect_indication(t, source))
BY StutterCounted, A5Counted DEF disconnect_indication

LEMMA DataIndicationCounted ==
    \A t \in Idle, source \in Address, seq_no \in SeqNo, apdu \in Apdu :
        Counted(t, data_connected_indication(t, source, seq_no, apdu))
BY StutterCounted, FromOtherCounted, A2Counted, A3Counted, A4Counted, DisconnectCounted
   DEF data_connected_indication

LEMMA AckIndicationCounted ==
    \A t \in Idle, source \in Address, seq_no \in SeqNo :
        Counted(t, ack_indication(t, source, seq_no))
BY StutterCounted, FromOtherCounted, A8Counted, DisconnectCounted DEF ack_indication

LEMMA NackIndicationCounted ==
    \A t \in Idle, source \in Address, seq_no \in SeqNo :
        Counted(t, nack_indication(t, source, seq_no))
BY IdleFacts, SoundFacts, StutterCounted, FromOtherCounted, RetransmitCounted,
   DisconnectCounted DEF nack_indication

LEMMA ConnectConfirmCounted ==
    \A t \in Idle, success \in BOOLEAN : Counted(t, connect_confirm(t, success))
<1> SUFFICES ASSUME NEW t \in Idle, NEW success \in BOOLEAN
             PROVE  Counted(t, connect_confirm(t, success))
  OBVIOUS
<1>1. CASE t.state = "Connecting" /\ success
  BY <1>1, IdleFacts DEF Counted, connect_confirm, Transport
<1>2. CASE ~(t.state = "Connecting" /\ success)
  BY <1>2, IdleFacts, SoundFacts, StutterCounted, A5Counted DEF connect_confirm
<1> QED BY <1>1, <1>2

LEMMA DataRequestCounted ==
    \A t \in Idle, apdu \in Apdu : Counted(t, data_connected_request(t, apdu))
<1> SUFFICES ASSUME NEW t \in Idle, NEW apdu \in Apdu
             PROVE  Counted(t, data_connected_request(t, apdu))
  OBVIOUS
<1> DEFINE u == [t EXCEPT !.buffered_request = apdu]
<1>1. /\ u.actions = <<>> /\ u.state = t.state /\ u.rep_count = t.rep_count
      /\ u.connection_address = t.connection_address
      /\ u.saved_frame = t.saved_frame
  BY IdleFacts DEF Transport
<1>2. DataSent(u) = {}
  BY <1>1, NoActionSent
<1>3. Counted(t, u)
  BY <1>1, <1>2 DEF Counted
<1> HIDE DEF u
<1>4. CASE t.state = "Closed"
  BY <1>4, StutterCounted DEF data_connected_request
<1>5. CASE t.state = "OpenIdle"
  BY <1>5, A7Counted DEF data_connected_request
<1>6. CASE t.state \notin {"Closed", "OpenIdle"}
  BY <1>6, <1>3 DEF data_connected_request, u
<1> QED BY <1>4, <1>5, <1>6

LEMMA ConnectRequestCounted ==
    \A t \in Idle, destination \in Address : Counted(t, connect_request(t, destination))
<1> SUFFICES ASSUME NEW t \in Idle, NEW destination \in Address
             PROVE  Counted(t, connect_request(t, destination))
  OBVIOUS
<1>1. t.state = "Closed" => Counted(t, a12_initiate_connection(t, destination))
  BY IdleFacts DEF Counted, a12_initiate_connection, Transport
<1> QED BY <1>1, DisconnectCounted DEF connect_request

LEMMA DisconnectRequestCounted == \A t \in Idle : Counted(t, disconnect_request(t))
<1> SUFFICES ASSUME NEW t \in Idle PROVE Counted(t, disconnect_request(t))
  OBVIOUS
<1>1. CASE t.state = "Closed"
  BY <1>1, IdleFacts DEF Counted, disconnect_request, Transport
<1>2. CASE t.state # "Closed"
  BY <1>2, DisconnectCounted DEF disconnect_request
<1> QED BY <1>1, <1>2

LEMMA PollCounted == \A t \in Idle : Counted(t, poll(t))
<1> SUFFICES ASSUME NEW t \in Idle PROVE Counted(t, poll(t))
  OBVIOUS
<1>1. CASE connection_timed_out(t)
  <2>1. CASE t.state = "Closed"
    BY <1>1, <2>1, IdleFacts DEF Counted, poll, Transport
  <2>2. CASE t.state # "Closed"
    BY <1>1, <2>2, DisconnectCounted DEF poll
  <2> QED BY <2>1, <2>2
<1>2. CASE ~connection_timed_out(t) /\ ack_timed_out(t)
  BY <1>2, RetransmitCounted DEF poll, ack_timed_out
<1>3. CASE ~connection_timed_out(t) /\ ~ack_timed_out(t)
  <2> DEFINE taken == [t EXCEPT !.buffered_request = None]
  <2>1. CASE t.state = "OpenIdle" /\ t.buffered_request # None
    <3>1. taken \in Idle /\ taken.state = "OpenIdle"
          /\ taken.connection_address = t.connection_address
      BY <2>1, IdleFacts DEF Idle, Sound, Supervised, Outstanding, Transport
    <3>2. t.buffered_request \in Apdu
      BY <2>1, IdleFacts DEF Transport
    <3> HIDE DEF taken
    <3>3. Counted(taken, a7_send_data(taken, t.buffered_request))
      BY <3>1, <3>2, A7Counted
    <3>4. Counted(t, a7_send_data(taken, t.buffered_request))
      BY <3>1, <3>3, <2>1 DEF Counted
    <3> QED BY <1>3, <2>1, <3>4 DEF poll, taken
  <2>2. CASE ~(t.state = "OpenIdle" /\ t.buffered_request # None)
    BY <1>3, <2>2, StutterCounted DEF poll
  <2> QED BY <2>1, <2>2
<1> QED BY <1>1, <1>2, <1>3

-----------------------------------------------------------------------------
(* The endpoint: its inductive invariant says that the struct is sound and  *)
(* that the history counts exactly the repetitions.                         *)

TLInv ==
    /\ tl \in Sound
    /\ transmissions = IF tl.state = "OpenWait" THEN tl.rep_count + 1 ELSE 0
    /\ silent \subseteq Address

LEMMA IdleIsIdle ==
    ASSUME TLInv
    PROVE  /\ idle \in Idle
           /\ idle.state = tl.state
           /\ idle.rep_count = tl.rep_count
           /\ idle.connection_address = tl.connection_address
           /\ idle.saved_frame = tl.saved_frame
           /\ idle.actions = <<>>
<1>1. idle \in Sound
  BY TakeActionsSound DEF TLInv, idle
<1> QED BY <1>1, SoundFacts DEF TLInv, idle, Idle, take_actions, Transport

\* What a step may do to the outstanding frame and to the connection's peer.
TLRepeats ==
    (tl.state = "OpenWait" /\ tl'.state = "OpenWait") =>
        /\ tl'.saved_frame = tl.saved_frame
        /\ \A i \in DataSent(tl') :
              tl'.actions[i] = SendDataConnected(tl.saved_frame.destination,
                                                 tl.saved_frame.seq_no,
                                                 tl.saved_frame.apdu)

KeepsPeer == tl.state # "Closed" => tl'.connection_address = tl.connection_address

\* Every action that calls a method of the transport layer.
Calls(u) == u \in Sound /\ Counted(idle, u)

LEMMA CallStep ==
    ASSUME TLInv, NEW u, Calls(u), Call(u)
    PROVE  TLInv' /\ TLRepeats /\ KeepsPeer
<1>1. tl' = u /\ u \in Sound /\ silent' = silent
  BY DEF Call, Calls
<1>2. transmissions' = IF u.state = "OpenWait" THEN u.rep_count + 1 ELSE 0
  <2>1. CASE u.state # "OpenWait"
    BY <2>1 DEF Call
  <2>2. CASE u.state = "OpenWait" /\ DataSent(u) = {}
    BY <2>2, IdleIsIdle DEF Call, Calls, Counted, TLInv
  <2>3. CASE u.state = "OpenWait" /\ DataSent(u) # {}
    BY <2>3, IdleIsIdle, SoundFacts DEF Call, Calls, Counted, TLInv
  <2> QED BY <2>1, <2>2, <2>3
<1>3. TLRepeats /\ KeepsPeer
  BY <1>1, IdleIsIdle DEF Calls, Counted, TLRepeats, KeepsPeer
<1> QED BY <1>1, <1>2, <1>3 DEF TLInv

LEMMA TLInitInv == TLInit => TLInv
BY NewSound DEF TLInit, TLInv, new

LEMMA TLNextInv ==
    ASSUME TLInv, [TLNext]_TLvars
    PROVE  TLInv' /\ [TLRepeats /\ KeepsPeer]_TLvars
<1> DEFINE Goal == TLInv' /\ [TLRepeats /\ KeepsPeer]_TLvars
<1>0. idle \in Idle /\ idle \in Sound
  BY IdleIsIdle, IdleFacts
<1>1. ASSUME NEW source \in Address, ReceiveConnect(source) PROVE Goal
  BY <1>0, <1>1, CallStep, ConnectIndicationSound, ConnectIndicationCounted
     DEF ReceiveConnect, Calls
<1>2. ASSUME NEW source \in Address, ReceiveDisconnect(source) PROVE Goal
  BY <1>0, <1>2, CallStep, DisconnectIndicationSound, DisconnectIndicationCounted
     DEF ReceiveDisconnect, Calls
<1>3. ASSUME NEW source \in Address, NEW seq_no \in SeqNo, ReceiveAck(source, seq_no)
      PROVE  Goal
  BY <1>0, <1>3, CallStep, AckIndicationSound, AckIndicationCounted DEF ReceiveAck, Calls
<1>4. ASSUME NEW source \in Address, NEW seq_no \in SeqNo, ReceiveNack(source, seq_no)
      PROVE  Goal
  BY <1>0, <1>4, CallStep, NackIndicationSound, NackIndicationCounted DEF ReceiveNack, Calls
<1>5. ASSUME NEW source \in Address, NEW seq_no \in SeqNo, NEW apdu \in Apdu,
             ReceiveData(source, seq_no, apdu)
      PROVE  Goal
  BY <1>0, <1>5, CallStep, DataIndicationSound, DataIndicationCounted DEF ReceiveData, Calls
<1>6. ASSUME NEW success \in BOOLEAN, ConfirmConnect(success) PROVE Goal
  BY <1>0, <1>6, CallStep, ConnectConfirmSound, ConnectConfirmCounted
     DEF ConfirmConnect, Calls
<1>7. ASSUME NEW apdu \in Apdu, RequestData(apdu) PROVE Goal
  BY <1>0, <1>7, CallStep, DataRequestSound, DataRequestCounted DEF RequestData, Calls
<1>8. ASSUME NEW destination \in Address, RequestConnect(destination) PROVE Goal
  BY <1>0, <1>8, CallStep, ConnectRequestSound, ConnectRequestCounted
     DEF RequestConnect, Calls
<1>9. ASSUME RequestDisconnect PROVE Goal
  BY <1>0, <1>9, CallStep, DisconnectRequestSound, DisconnectRequestCounted
     DEF RequestDisconnect, Calls
<1>10. ASSUME Poll PROVE Goal
  BY <1>0, <1>10, CallStep, PollSound, PollCounted DEF Poll, Calls
<1>11. ASSUME TLTick PROVE Goal
  <2>1. tl' \in Sound
    BY <1>0, <1>11, ElapseSound DEF TLTick
  <2>2. /\ tl'.state = tl.state /\ tl'.rep_count = tl.rep_count
        /\ tl'.connection_address = tl.connection_address
    BY <1>0, <1>11, IdleIsIdle, SoundFacts DEF TLTick, Elapse, Transport
  <2>3. tl'.saved_frame = tl.saved_frame /\ tl'.actions = <<>>
    BY <1>0, <1>11, IdleIsIdle, SoundFacts DEF TLTick, Elapse, Transport
  <2>4. DataSent(tl') = {}
    BY <2>3, NoActionSent
  <2> QED BY <1>11, <2>1, <2>2, <2>3, <2>4 DEF TLTick, TLInv, TLRepeats, KeepsPeer
<1>12. ASSUME NEW source \in Address, FallSilent(source) PROVE Goal
  <2>1. DataSent(tl') = {}
    BY <1>12, IdleIsIdle, NoActionSent DEF FallSilent
  <2> QED BY <1>0, <1>12, <2>1, IdleIsIdle DEF FallSilent, TLInv, TLRepeats, KeepsPeer
<1>13. ASSUME UNCHANGED TLvars PROVE Goal
  BY <1>13 DEF TLvars, TLInv
<1> QED BY <1>1, <1>2, <1>3, <1>4, <1>5, <1>6, <1>7, <1>8, <1>9, <1>10, <1>11, <1>12, <1>13
        DEF TLNext, TLReceive, TLRequest

\* The inductive invariant holds in every behaviour of one endpoint.
THEOREM TLInvariance == TLSpec => []TLInv
BY TLInitInv, TLNextInv, PTL DEF TLSpec

\* Type correctness: in particular the sequence numbers stay in 0 .. 15 and
\* rep_count within MAX_REP_COUNT, whatever the bus and the application do.
THEOREM TypeCorrect == TLSpec => []TypeOK
<1>1. TLInv => TypeOK
  BY SoundFacts DEF TLInv, TypeOK
<1> QED BY <1>1, TLInvariance, PTL

\* No connection without its supervision, no outstanding frame without its
\* ACK timer, and the reverse: TimersFollowState for every instance.
THEOREM TimersFollow == TLSpec => []TimersFollowState
<1>1. TLInv => TimersFollowState
  BY DEF TLInv, Sound, Supervised, TimersFollowState
<1> QED BY <1>1, TLInvariance, PTL

\* What would be retransmitted is the frame the next ACK is compared with.
THEOREM SavedIsOutstanding == TLSpec => []SavedFrameIsOutstanding
<1>1. TLInv => SavedFrameIsOutstanding
  BY DEF TLInv, Sound, Outstanding, SavedFrameIsOutstanding
<1> QED BY <1>1, TLInvariance, PTL

\* One frame is put on the bus at most MAX_REP_COUNT + 1 times, by ACK
\* timeouts and NACKs together.
THEOREM RepetitionsBounded == TLSpec => [](TransmissionsBounded /\ RepCountCounts)
<1>1. TLInv => TransmissionsBounded /\ RepCountCounts
  BY SoundFacts, RepAssumption DEF TLInv, TransmissionsBounded, RepCountCounts
<1> QED BY <1>1, TLInvariance, PTL

\* While a frame is outstanding, every data frame put on the bus is that
\* frame, whatever is received, requested or buffered meanwhile.
THEOREM OutstandingFrameRepeated == TLSpec => RetransmitsTheSame
<1>1. TLInv /\ [TLNext]_TLvars => [TLRepeats]_TLvars
  BY TLNextInv
<1> QED BY <1>1, TLInvariance, PTL DEF TLSpec, RetransmitsTheSame, TLRepeats

\* No telegram and no request moves an open connection to another peer.
THEOREM PeerIsKept == TLSpec => NoTakeover
<1>1. TLInv /\ [TLNext]_TLvars => [KeepsPeer]_TLvars
  BY TLNextInv
<1> QED BY <1>1, TLInvariance, PTL DEF TLSpec, NoTakeover, KeepsPeer

=============================================================================
