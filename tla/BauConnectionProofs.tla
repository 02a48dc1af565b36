------------------------- MODULE BauConnectionProofs -------------------------
(***************************************************************************)
(* The connection-oriented services of the Bus Access Unit, for any number *)
(* of participants and connections: no call leaves an action of the        *)
(* transport layer behind, numbered answers go to the connected peer, and  *)
(* a restart closes the connection with a T_Disconnect.                    *)
(*                                                                         *)
(* A call runs on a transport layer whose actions have been taken (Idle).  *)
(* What the proofs need of every method is in Called: the order of the     *)
(* actions it pushes, whom they address, and that only a method that       *)
(* leaves the connection open hands over a request.                        *)
(***************************************************************************)
EXTENDS BauConnection, TransportLayerProofs

\* What the outbox holds.
OutFrame == Action \cup [type : {"SendIndividual"}, destination : Address, apdu : Apdu]

Bau == [transport : Sound, outbox : Seq(OutFrame), restart_pending : BOOLEAN]

IInv ==
    /\ transport \in Idle
    /\ outbox \in Seq(OutFrame)
    /\ restart_pending \in BOOLEAN
    /\ session \in Sessions

\* The frames come first.
Framed(s) == \E n \in 0 .. Len(s) : \A i \in DOMAIN s : IsFrame(s[i]) <=> i <= n

\* Numbered data in s goes to the peer of t.
ToPeer(s, t) ==
    \A i \in DOMAIN s : s[i].type = "SendDataConnected" =>
        t.state # "Closed" /\ s[i].destination = t.connection_address

\* What a call that turns t into u may have pushed.
Called(t, u) ==
    /\ u \in Sound
    /\ Framed(u.actions)
    /\ ToPeer(u.actions, t)
    /\ t.state # "Closed" => u.connection_address = t.connection_address
    /\ Asked(u.actions) => t.state # "Closed" /\ u.state # "Closed"

-----------------------------------------------------------------------------
(* Short sequences of actions.                                              *)

LEMMA NoActions ==
    ASSUME NEW s, s = <<>>
    PROVE  Framed(s) /\ ~ Asked(s) /\ \A t : ToPeer(s, t)
<1>1. Len(s) = 0 /\ DOMAIN s = {}
    OBVIOUS
<1> QED
    BY <1>1 DEF Framed, Asked, ToPeer

LEMMA SingleAction ==
    ASSUME NEW a \in Action, NEW s, s = Append(<<>>, a)
    PROVE  /\ DOMAIN s = {1} /\ Len(s) = 1 /\ s[1] = a
           /\ Framed(s)
           /\ Asked(s) => a.type = "DataConnectedIndication"
<1>1. DOMAIN s = {1} /\ s[1] = a /\ Len(s) = 1
    BY OneAction
<1>2. Framed(s)
    <2>1. CASE IsFrame(a)
        <3>1. \A i \in DOMAIN s : IsFrame(s[i]) <=> i <= 1
            BY <1>1, <2>1
        <3> QED
            BY <1>1, <3>1 DEF Framed
    <2>2. CASE ~ IsFrame(a)
        <3>1. \A i \in DOMAIN s : IsFrame(s[i]) <=> i <= 0
            BY <1>1, <2>2
        <3> QED
            BY <1>1, <3>1 DEF Framed
    <2> QED
        BY <2>1, <2>2
<1> QED
    BY <1>1, <1>2 DEF Asked

LEMMA ThreeActions ==
    ASSUME NEW a \in Action, NEW b \in Action, NEW c \in Action, NEW s,
           s = Append(Append(Append(<<>>, a), b), c)
    PROVE  DOMAIN s = {1, 2, 3} /\ Len(s) = 3 /\ s[1] = a /\ s[2] = b /\ s[3] = c
<1> DEFINE r == Append(Append(<<>>, a), b)
<1>1. r \in Seq(Action) /\ Len(r) = 2 /\ r[1] = a /\ r[2] = b
    BY TwoActions
<1> HIDE DEF r
<1>2. s = Append(r, c)
    BY DEF r
<1>3. DOMAIN s = 1 .. 3 /\ Len(s) = 3 /\ s[1] = a /\ s[2] = b /\ s[3] = c
    BY <1>1, <1>2, AppendAction
<1> QED
    BY <1>3

-----------------------------------------------------------------------------
(* The frames of a call, and what they mean for the outbox.                 *)

LEMMA FramesFacts ==
    ASSUME NEW s \in Seq(Action), Framed(s)
    PROVE  /\ Frames(s) \in Seq(OutFrame)
           /\ \A i \in DOMAIN Frames(s) : i \in DOMAIN s /\ Frames(s)[i] = s[i]
           /\ \A i \in DOMAIN s : IsFrame(s[i]) =>
                 i \in DOMAIN Frames(s) /\ Frames(s)[i] = s[i]
<1> DEFINE n == CHOOSE n \in 0 .. Len(s) : \A i \in DOMAIN s : IsFrame(s[i]) <=> i <= n
<1>1. n \in 0 .. Len(s) /\ \A i \in DOMAIN s : IsFrame(s[i]) <=> i <= n
    BY DEF Framed
<1>2. Frames(s) = SubSeq(s, 1, n)
    BY DEF Frames
<1> HIDE DEF n
<1>3. Len(s) \in Nat /\ DOMAIN s = 1 .. Len(s)
    OBVIOUS
<1>4. Frames(s) \in Seq(Action) /\ DOMAIN Frames(s) = 1 .. n
    BY <1>1, <1>2, <1>3
<1>5. \A i \in 1 .. n : Frames(s)[i] = s[i]
    BY <1>1, <1>2, <1>3
<1>6. Frames(s) \in Seq(OutFrame)
    BY <1>4 DEF OutFrame
<1>7. 1 .. n \subseteq DOMAIN s
    BY <1>1, <1>3
<1>8. \A i \in DOMAIN s : IsFrame(s[i]) => i \in 1 .. n
    BY <1>1, <1>3
<1> QED
    BY <1>4, <1>5, <1>6, <1>7, <1>8

LEMMA NoFrames == Frames(<<>>) = <<>>
<1>1. Framed(<<>>) /\ <<>> \in Seq(Action)
    BY NoActions
<1> DEFINE f == Frames(<<>>)
<1>2. f \in Seq(OutFrame) /\ \A i \in DOMAIN f : i \in DOMAIN <<>>
    BY <1>1, FramesFacts
<1> HIDE DEF f
<1>3. DOMAIN f = 1 .. Len(f) /\ Len(f) \in Nat
    BY <1>2
<1>4. DOMAIN <<>> = {}
    OBVIOUS
<1>6. ~ (1 \in DOMAIN f)
    BY <1>2, <1>4
<1>7. Len(f) = 0
    BY <1>3, <1>6
<1>5. f = <<>>
    BY <1>2, <1>7
<1> QED
    BY <1>5 DEF f

LEMMA Queued ==
    ASSUME NEW o \in Seq(OutFrame), NEW s \in Seq(Action), Framed(s)
    PROVE  /\ o \o Frames(s) \in Seq(OutFrame)
           /\ \A t : ToPeer(o, t) /\ ToPeer(s, t) => ToPeer(o \o Frames(s), t)
           /\ \A a : IsFrame(a) /\ (\E i \in DOMAIN s : s[i] = a) => Contains(o \o Frames(s), a)
<1> DEFINE f == Frames(s)
<1>1. /\ f \in Seq(OutFrame)
      /\ \A i \in DOMAIN f : i \in DOMAIN s /\ f[i] = s[i]
      /\ \A i \in DOMAIN s : IsFrame(s[i]) => i \in DOMAIN f /\ f[i] = s[i]
    BY FramesFacts
<1> HIDE DEF f
<1>2. /\ o \o f \in Seq(OutFrame)
      /\ Len(o) \in Nat /\ Len(f) \in Nat
      /\ Len(o \o f) = Len(o) + Len(f)
      /\ DOMAIN o = 1 .. Len(o) /\ DOMAIN f = 1 .. Len(f)
      /\ DOMAIN (o \o f) = 1 .. Len(o) + Len(f)
      /\ \A i \in 1 .. Len(o) : (o \o f)[i] = o[i]
      /\ \A i \in 1 .. Len(f) : (o \o f)[Len(o) + i] = f[i]
    BY <1>1
<1> DEFINE q == o \o f
<1> HIDE DEF q
<1>3. ASSUME NEW t, ToPeer(o, t), ToPeer(s, t), NEW i \in DOMAIN q,
             q[i].type = "SendDataConnected"
      PROVE  t.state # "Closed" /\ q[i].destination = t.connection_address
    <2>1. CASE i \in 1 .. Len(o)
        BY <1>2, <1>3, <2>1 DEF ToPeer, q
    <2>2. CASE i \notin 1 .. Len(o)
        <3>1. i - Len(o) \in 1 .. Len(f) /\ i = Len(o) + (i - Len(o))
            BY <1>2, <1>3, <2>2 DEF q
        <3>2. PICK k \in 1 .. Len(f) : i = Len(o) + k
            BY <3>1
        <3>3. q[i] = f[k]
            BY <1>2, <3>2 DEF q
        <3> QED
            BY <1>1, <1>2, <1>3, <3>3 DEF ToPeer
    <2> QED
        BY <2>1, <2>2
<1>4. ASSUME NEW a, IsFrame(a), NEW i \in DOMAIN s, s[i] = a
      PROVE  Contains(q, a)
    <2>1. i \in 1 .. Len(f) /\ f[i] = a
        BY <1>1, <1>2, <1>4
    <2>2. Len(o) + i \in 1 .. Len(q) /\ q[Len(o) + i] = a
        BY <1>2, <2>1 DEF q
    <2> QED
        BY <2>2 DEF Contains
<1> QED
    BY <1>2, <1>3, <1>4 DEF q, f, ToPeer

-----------------------------------------------------------------------------
(* Every method of the transport layer is a Called one.                     *)

LEMMA Kinds ==
    \A d, k, n, x :
        /\ IsFrame(SendControl(d, k, n)) /\ IsFrame(SendDataConnected(d, n, x))
        /\ ~ IsFrame(ConnectIndication(d)) /\ ~ IsFrame(DisconnectIndication(d))
        /\ ~ IsFrame(DataConnectedIndication(d, x)) /\ ~ IsFrame(DataConnectedConfirm)
        /\ SendControl(d, k, n).type = "SendControl"
        /\ SendDataConnected(d, n, x).type = "SendDataConnected"
        /\ SendDataConnected(d, n, x).destination = d
        /\ ConnectIndication(d).type = "ConnectIndication"
        /\ DisconnectIndication(d).type = "DisconnectIndication"
        /\ DataConnectedIndication(d, x).type = "DataConnectedIndication"
        /\ DataConnectedConfirm.type = "DataConnectedConfirm"
BY DEF IsFrame, SendControl, SendDataConnected, ConnectIndication, DisconnectIndication,
       DataConnectedIndication, DataConnectedConfirm

LEMMA CalledQuietly ==
    ASSUME NEW t, NEW u \in Sound, u.actions = <<>>,
           u.connection_address = t.connection_address
    PROVE  Called(t, u)
BY NoActions DEF Called

LEMMA CalledOnce ==
    ASSUME NEW t, NEW u \in Sound, NEW a \in Action, u.actions = Append(<<>>, a),
           a.type # "DataConnectedIndication",
           a.type = "SendDataConnected" =>
               t.state # "Closed" /\ a.destination = t.connection_address,
           t.state # "Closed" => u.connection_address = t.connection_address
    PROVE  Called(t, u)
BY SingleAction DEF Called, ToPeer

LEMMA CalledTwice ==
    ASSUME NEW t, NEW u \in Sound, NEW a \in Action, NEW b \in Action,
           u.actions = Append(Append(<<>>, a), b), IsFrame(a), ~ IsFrame(b),
           a.type # "SendDataConnected",
           u.connection_address = t.connection_address,
           b.type = "DataConnectedIndication" => t.state # "Closed" /\ u.state # "Closed"
    PROVE  Called(t, u)
<1> DEFINE s == u.actions
<1>1. b.type # "SendDataConnected"
    BY DEF IsFrame
<1>2. s = Append(Append(<<>>, a), b)
    OBVIOUS
<1> HIDE DEF s
<1>3. /\ DOMAIN s = {1, 2} /\ s[1] = a /\ s[2] = b
      /\ Framed(s)
      /\ Asked(s) => b.type = "DataConnectedIndication"
    <2>1. DOMAIN s = {1, 2} /\ s[1] = a /\ s[2] = b
        BY <1>2, TwoActions
    <2>2. Len(s) = 2
        BY <1>2
    <2>3. \A i \in DOMAIN s : IsFrame(s[i]) <=> i <= 1
        BY <2>1
    <2> QED
        BY <2>1, <2>2, <2>3 DEF Framed, Asked
<1>4. ToPeer(s, t)
    BY <1>1, <1>3 DEF ToPeer
<1> QED
    BY <1>3, <1>4 DEF Called, s

LEMMA A1Called ==
    ASSUME NEW t \in Idle, t.state = "Closed", NEW source \in Address
    PROVE  Called(t, a1_accept_connection(t, source))
<1>1. a1_accept_connection(t, source) \in Sound
    BY A1Sound, IdleFacts
<1>2. a1_accept_connection(t, source).actions = Append(<<>>, ConnectIndication(source))
    BY IdleFacts DEF a1_accept_connection, Transport
<1> QED
    BY <1>1, <1>2, CalledOnce, ActionConstructors, Kinds

LEMMA A2Called ==
    ASSUME NEW t \in Idle, t.state \in {"OpenIdle", "OpenWait"},
           NEW source \in Address, NEW apdu \in Apdu
    PROVE  Called(t, a2_receive_data(t, source, apdu))
<1> DEFINE u == a2_receive_data(t, source, apdu)
<1>1. u \in Sound
    BY A2Sound, IdleFacts
<1>2. /\ u.actions = Append(Append(<<>>, SendControl(source, "Ack", t.seq_no_recv)),
                            DataConnectedIndication(source, apdu))
      /\ u.connection_address = t.connection_address /\ u.state = t.state
    BY IdleFacts DEF a2_receive_data, Transport
<1>3. t.seq_no_recv \in SeqNo
    BY IdleFacts, SoundFacts
<1> HIDE DEF u
<1> DEFINE a == SendControl(source, "Ack", t.seq_no_recv)
           b == DataConnectedIndication(source, apdu)
<1>4. a \in Action /\ b \in Action
    BY <1>3, ActionConstructors
<1>6. IsFrame(a) /\ ~ IsFrame(b) /\ a.type # "SendDataConnected"
    BY Kinds
<1>7. u.actions = Append(Append(<<>>, a), b)
    BY <1>2
<1>8. t.state # "Closed" /\ u.state # "Closed"
    BY <1>2
<1> HIDE DEF a, b
<1>5. Called(t, u)
    BY <1>1, <1>2, <1>4, <1>6, <1>7, <1>8, CalledTwice, Zenon
<1> QED
    BY <1>5 DEF u

LEMMA ControlCalled ==
    ASSUME NEW t \in Idle, NEW u \in Sound, NEW d \in Address, NEW n \in SeqNo,
           NEW k \in {"Connect", "Disconnect", "Ack", "Nack"},
           u.actions = Append(t.actions, SendControl(d, k, n)),
           u.connection_address = t.connection_address
    PROVE  Called(t, u)
<1>1. SendControl(d, k, n) \in Action
    BY ActionConstructors
<1>2. u.actions = Append(<<>>, SendControl(d, k, n))
    BY IdleFacts
<1> QED
    BY <1>1, <1>2, CalledOnce, Kinds

LEMMA A3Called ==
    ASSUME NEW t \in Idle, t.state \in {"OpenIdle", "OpenWait", "Connecting"},
           NEW source \in Address, NEW seq_no \in SeqNo
    PROVE  Called(t, a3_ack_repeated(t, source, seq_no))
<1> DEFINE u == a3_ack_repeated(t, source, seq_no)
<1>1. u \in Sound
    BY A3Sound, IdleFacts
<1>2. /\ u.actions = Append(t.actions, SendControl(source, "Ack", seq_no))
      /\ u.connection_address = t.connection_address
    BY IdleFacts DEF a3_ack_repeated, Transport
<1> HIDE DEF u
<1>3. Called(t, u)
    BY <1>1, <1>2, ControlCalled
<1> QED
    BY <1>3 DEF u

LEMMA A4Called ==
    ASSUME NEW t \in Idle, t.state \in {"OpenIdle", "OpenWait"},
           NEW source \in Address, NEW seq_no \in SeqNo
    PROVE  Called(t, a4_nack_wrong_seq(t, source, seq_no))
<1> DEFINE u == a4_nack_wrong_seq(t, source, seq_no)
<1>1. u \in Sound
    BY A4Sound, IdleFacts
<1>2. /\ u.actions = Append(t.actions, SendControl(source, "Nack", seq_no))
      /\ u.connection_address = t.connection_address
    BY IdleFacts DEF a4_nack_wrong_seq, Transport
<1> HIDE DEF u
<1>3. Called(t, u)
    BY <1>1, <1>2, ControlCalled
<1> QED
    BY <1>3 DEF u

LEMMA A10Called ==
    ASSUME NEW t \in Idle, NEW source \in Address
    PROVE  Called(t, a10_reject_foreign(t, source))
BY IdleFacts, A10Sound, ControlCalled, SeqNoFacts DEF a10_reject_foreign, Transport

LEMMA A5Called ==
    ASSUME NEW t \in Idle, NEW address \in Address
    PROVE  Called(t, a5_passive_disconnect(t, address))
<1> DEFINE u == a5_passive_disconnect(t, address)
<1>1. u \in Sound
    BY A5Sound, IdleFacts
<1>2. /\ u.actions = Append(<<>>, DisconnectIndication(address))
      /\ u.connection_address = t.connection_address
    BY IdleFacts DEF a5_passive_disconnect, Transport
<1> HIDE DEF u
<1>3. Called(t, u)
    BY <1>1, <1>2, CalledOnce, ActionConstructors, Kinds
<1> QED
    BY <1>3 DEF u

\* What active_disconnect adds to the actions of t.
LEMMA DisconnectFacts ==
    ASSUME NEW t \in Sound
    PROVE  LET u == active_disconnect(t) IN
           /\ u \in Sound /\ u.state = "Closed"
           /\ u.connection_address = t.connection_address
           /\ u.actions = Append(Append(t.actions,
                                        SendControl(t.connection_address, "Disconnect", 0)),
                                 DisconnectIndication(t.connection_address))
BY DisconnectSound, SoundFacts DEF active_disconnect, Transport

LEMMA DisconnectCalled ==
    ASSUME NEW t \in Idle
    PROVE  Called(t, active_disconnect(t))
<1> DEFINE u == active_disconnect(t)
<1>1. /\ u \in Sound /\ u.state = "Closed"
      /\ u.connection_address = t.connection_address
      /\ u.actions = Append(Append(<<>>, SendControl(t.connection_address, "Disconnect", 0)),
                            DisconnectIndication(t.connection_address))
    BY IdleFacts, DisconnectFacts
<1>2. t.connection_address \in Address
    BY IdleFacts, SoundFacts
<1> HIDE DEF u
<1>3. /\ SendControl(t.connection_address, "Disconnect", 0) \in Action
      /\ DisconnectIndication(t.connection_address) \in Action
    BY <1>2, ActionConstructors, SeqNoFacts
<1>4. Called(t, u)
    BY <1>1, <1>3, CalledTwice, Kinds
<1> QED
    BY <1>4 DEF u

\* What A7 adds to the actions of t.
LEMMA SendFacts ==
    ASSUME NEW t \in Sound, t.state = "OpenIdle", NEW apdu \in Apdu
    PROVE  LET u == a7_send_data(t, apdu) IN
           /\ u \in Sound /\ u.state = "OpenWait"
           /\ u.connection_address = t.connection_address
           /\ u.actions = Append(t.actions,
                                 SendDataConnected(t.connection_address, t.seq_no_send, apdu))
BY A7Sound, SoundFacts DEF a7_send_data, Transport

LEMMA DataCalled ==
    ASSUME NEW t \in Idle, NEW u \in Sound, NEW n \in SeqNo, NEW apdu \in Apdu,
           u.actions = Append(t.actions, SendDataConnected(t.connection_address, n, apdu)),
           t.state # "Closed",
           u.connection_address = t.connection_address
    PROVE  Called(t, u)
<1>1. t.connection_address \in Address
    BY IdleFacts, SoundFacts
<1> DEFINE a == SendDataConnected(t.connection_address, n, apdu)
<1>2. a \in Action
    BY <1>1, ActionConstructors
<1>3. u.actions = Append(<<>>, a)
    BY IdleFacts
<1>4. a.type = "SendDataConnected" /\ a.destination = t.connection_address
    BY Kinds
<1> HIDE DEF a
<1> QED
    BY <1>2, <1>3, <1>4, CalledOnce

LEMMA A8Called ==
    ASSUME NEW t \in Idle, t.state = "OpenWait"
    PROVE  Called(t, a8_ack_received(t))
<1> DEFINE u == a8_ack_received(t)
<1>1. u \in Sound
    BY A8Sound, IdleFacts
<1>2. /\ u.actions = Append(<<>>, DataConnectedConfirm)
      /\ u.connection_address = t.connection_address
    BY IdleFacts DEF a8_ack_received, Transport
<1> HIDE DEF u
<1>3. Called(t, u)
    BY <1>1, <1>2, CalledOnce, ActionConstructors, Kinds
<1> QED
    BY <1>3 DEF u

LEMMA A9Called ==
    ASSUME NEW t \in Idle, t.state = "OpenWait", t.rep_count < MAX_REP_COUNT
    PROVE  Called(t, a9_retransmit(t))
<1> DEFINE u == a9_retransmit(t)
<1>1. u \in Sound
    BY A9Sound, IdleFacts
<1>2. /\ t.saved_frame # None /\ t.saved_frame \in SavedFrame
      /\ t.saved_frame.destination = t.connection_address
    BY IdleFacts DEF Sound, Outstanding, Transport
<1>3. t.saved_frame.seq_no \in SeqNo /\ t.saved_frame.apdu \in Apdu
    BY <1>2 DEF SavedFrame
<1>4. /\ u.actions = Append(t.actions, SendDataConnected(t.connection_address,
                                           t.saved_frame.seq_no, t.saved_frame.apdu))
      /\ u.connection_address = t.connection_address
    BY <1>2, IdleFacts DEF a9_retransmit, Transport
<1> HIDE DEF u
<1>5. Called(t, u)
    BY <1>1, <1>3, <1>4, DataCalled
<1> QED
    BY <1>5 DEF u

LEMMA RetransmitCalled ==
    \A t \in Idle : t.state = "OpenWait" => Called(t, retransmit_or_give_up(t))
BY A9Called, DisconnectCalled DEF retransmit_or_give_up

LEMMA StutterCalled == \A t \in Idle : Called(t, t)
BY IdleFacts, CalledQuietly

LEMMA ConnectCalled ==
    \A t \in Idle, source \in Address : Called(t, connect_indication(t, source))
BY A1Called, A10Called, StutterCalled DEF connect_indication

LEMMA DisconnectIndicationCalled ==
    \A t \in Idle, source \in Address : Called(t, disconnect_indication(t, source))
BY A5Called, StutterCalled DEF disconnect_indication

LEMMA FromOtherCalled ==
    \A t \in Idle, source \in Address : Called(t, from_other(t, source))
BY A10Called, StutterCalled DEF from_other

LEMMA IdleStates ==
    \A t \in Idle : t.state \in {"Closed", "OpenIdle", "OpenWait", "Connecting"}
BY IdleFacts, SoundFacts

LEMMA DataIndicationCalled ==
    \A t \in Idle, source \in Address, seq_no \in SeqNo, apdu \in Apdu :
        Called(t, data_connected_indication(t, source, seq_no, apdu))
BY IdleStates, FromOtherCalled, StutterCalled, A2Called, A3Called, A4Called, DisconnectCalled
   DEF data_connected_indication

LEMMA AckCalled ==
    \A t \in Idle, source \in Address, seq_no \in SeqNo :
        Called(t, ack_indication(t, source, seq_no))
BY IdleStates, FromOtherCalled, StutterCalled, A8Called, DisconnectCalled DEF ack_indication

LEMMA NackCalled ==
    \A t \in Idle, source \in Address, seq_no \in SeqNo :
        Called(t, nack_indication(t, source, seq_no))
BY IdleStates, FromOtherCalled, StutterCalled, RetransmitCalled, DisconnectCalled
   DEF nack_indication

LEMMA PollCalled == \A t \in Idle : Called(t, poll(t))
<1> SUFFICES ASSUME NEW t \in Idle PROVE Called(t, poll(t))
    OBVIOUS
<1> DEFINE off == [t EXCEPT !.connection_timeout = Off]
           taken == [t EXCEPT !.buffered_request = None]
<1>1. t.state = "Closed" => Called(t, off)
    <2> SUFFICES ASSUME t.state = "Closed" PROVE Called(t, off)
        OBVIOUS
    <2>1. off \in Sound
        BY TimerFacts, IdleFacts DEF Sound, Supervised, Outstanding, Transport
    <2>2. off.actions = <<>> /\ off.connection_address = t.connection_address
        BY IdleFacts DEF Transport
    <2> HIDE DEF off
    <2> QED
        BY <2>1, <2>2, CalledQuietly
<1>2. /\ taken \in Sound /\ taken.state = t.state /\ taken.actions = t.actions
      /\ taken.connection_address = t.connection_address
    BY IdleFacts DEF Sound, Supervised, Outstanding, Transport
<1>3. t.buffered_request # None => t.buffered_request \in Apdu
    BY IdleFacts DEF Transport
<1> HIDE DEF off, taken
<1>4. t.state = "OpenIdle" /\ t.buffered_request # None =>
          Called(t, a7_send_data(taken, t.buffered_request))
    <2> SUFFICES ASSUME t.state = "OpenIdle", t.buffered_request # None
                 PROVE  Called(t, a7_send_data(taken, t.buffered_request))
        OBVIOUS
    <2> DEFINE u == a7_send_data(taken, t.buffered_request)
    <2>1. /\ u \in Sound
          /\ u.connection_address = t.connection_address
          /\ u.actions = Append(t.actions, SendDataConnected(t.connection_address,
                                               taken.seq_no_send, t.buffered_request))
        BY <1>2, <1>3, SendFacts
    <2>2. taken.seq_no_send \in SeqNo
        BY <1>2, SoundFacts
    <2> HIDE DEF u
    <2>3. Called(t, u)
        BY <1>3, <2>1, <2>2, DataCalled
    <2> QED
        BY <2>3 DEF u
<1> QED
    BY <1>1, <1>4, StutterCalled, RetransmitCalled, DisconnectCalled
       DEF poll, off, taken, ack_timed_out

-----------------------------------------------------------------------------
(* Serving a request.                                                       *)

\* The connection of t is closed and its peer told.
Dropped(t, u) ==
    /\ u.state = "Closed"
    /\ t.state # "Closed" =>
          \E i \in DOMAIN u.actions :
              u.actions[i] = SendControl(t.connection_address, "Disconnect", 0)

\* u is t with an answer sent, or kept for later.
Answered(t, u) ==
    /\ u \in Sound
    /\ u.connection_address = t.connection_address
    /\ u.state = "Closed" <=> t.state = "Closed"
    /\ \/ u.actions = <<>>
       \/ /\ t.state # "Closed"
          /\ \E n \in SeqNo, x \in Apdu :
                u.actions = Append(<<>>, SendDataConnected(t.connection_address, n, x))

LEMMA AnswerCalled ==
    ASSUME NEW t \in Idle, NEW u, Answered(t, u)
    PROVE  Called(t, u) /\ ~ Asked(u.actions)
<1>1. CASE u.actions = <<>>
    BY <1>1, CalledQuietly, NoActions DEF Answered
<1>2. CASE u.actions # <<>>
    <2>1. PICK n \in SeqNo, x \in Apdu :
              u.actions = Append(<<>>, SendDataConnected(t.connection_address, n, x))
        BY <1>2 DEF Answered
    <2>2. t.connection_address \in Address /\ t.state # "Closed" /\ u \in Sound
        BY <1>2, IdleFacts, SoundFacts DEF Answered
    <2> DEFINE a == SendDataConnected(t.connection_address, n, x)
    <2>3. a \in Action /\ a.type = "SendDataConnected" /\ a.destination = t.connection_address
        BY <2>2, ActionConstructors, Kinds
    <2>4. u.actions = Append(<<>>, a)
        BY <2>1
    <2> HIDE DEF a
    <2>5. ~ Asked(u.actions)
        BY <2>3, <2>4, SingleAction
    <2>6. Called(t, u)
        BY <2>2, <2>3, <2>4, CalledOnce DEF Answered
    <2> QED
        BY <2>5, <2>6
<1> QED
    BY <1>1, <1>2

LEMMA RequestAnswered ==
    ASSUME NEW t \in Idle, NEW x \in Apdu
    PROVE  Answered(t, data_connected_request(t, x))
<1>1. t \in Sound /\ t.actions = <<>> /\ t.seq_no_send \in SeqNo
    BY IdleFacts, SoundFacts
<1>2. CASE t.state = "Closed"
    BY <1>1, <1>2 DEF data_connected_request, Answered
<1>3. CASE t.state = "OpenIdle"
    <2> DEFINE u == a7_send_data(t, x)
    <2>1. /\ u \in Sound /\ u.state = "OpenWait"
          /\ u.connection_address = t.connection_address
          /\ u.actions = Append(<<>>, SendDataConnected(t.connection_address, t.seq_no_send, x))
        BY <1>1, <1>3, SendFacts
    <2>2. data_connected_request(t, x) = u
        BY <1>3 DEF data_connected_request
    <2> HIDE DEF u
    <2>3. Answered(t, u)
        BY <1>1, <1>3, <2>1 DEF Answered
    <2> QED
        BY <2>2, <2>3
<1>4. CASE t.state \notin {"Closed", "OpenIdle"}
    <2> DEFINE u == [t EXCEPT !.buffered_request = x]
    <2>1. u \in Sound
        BY <1>1 DEF Sound, Supervised, Outstanding, Transport
    <2>2. u.actions = <<>> /\ u.state = t.state /\ u.connection_address = t.connection_address
        BY IdleFacts DEF Transport
    <2>3. data_connected_request(t, x) = u
        BY <1>4 DEF data_connected_request
    <2> HIDE DEF u
    <2>4. Answered(t, u)
        BY <1>4, <2>1, <2>2 DEF Answered
    <2> QED
        BY <2>3, <2>4
<1> QED
    BY <1>2, <1>3, <1>4

LEMMA DropCalled ==
    ASSUME NEW t \in Idle, NEW u, Answered(t, u)
    PROVE  LET v == disconnect_request(u) IN
           Called(t, v) /\ ~ Asked(v.actions) /\ Dropped(t, v)
<1> DEFINE v == disconnect_request(u)
           disconnect == SendControl(t.connection_address, "Disconnect", 0)
           indication == DisconnectIndication(t.connection_address)
<1>1. /\ u \in Sound /\ u \in Transport
      /\ u.connection_address = t.connection_address
      /\ t.connection_address \in Address
    BY IdleFacts, SoundFacts DEF Answered
<1>2. disconnect \in Action /\ indication \in Action
    BY <1>1, ActionConstructors, SeqNoFacts
<1>3. /\ IsFrame(disconnect) /\ disconnect.type = "SendControl"
      /\ ~ IsFrame(indication) /\ indication.type = "DisconnectIndication"
    BY Kinds
<1>4. CASE u.state = "Closed"
    <2>1. t.state = "Closed" /\ u.actions = <<>>
        BY <1>4 DEF Answered
    <2>2. v \in Sound
        BY <1>1, DisconnectRequestSound
    <2>3. v.actions = Append(<<>>, indication) /\ v.state = "Closed"
        BY <1>1, <1>4, <2>1 DEF disconnect_request, Transport
    <2> HIDE DEF v, indication
    <2>4. ~ Asked(v.actions)
        BY <1>2, <1>3, <2>3, SingleAction
    <2>5. Called(t, v)
        BY <1>2, <1>3, <2>1, <2>2, <2>3, CalledOnce
    <2>6. Dropped(t, v)
        BY <2>1, <2>3 DEF Dropped
    <2> QED
        BY <2>4, <2>5, <2>6 DEF v
<1>5. CASE u.state # "Closed"
    <2>1. /\ v \in Sound /\ v.state = "Closed"
          /\ v.connection_address = t.connection_address
          /\ v.actions = Append(Append(u.actions, disconnect), indication)
        BY <1>1, <1>5, DisconnectFacts DEF disconnect_request
    <2>2. t.state # "Closed"
        BY <1>5 DEF Answered
    <2>3. ~ Asked(v.actions) /\ Framed(v.actions) /\ ToPeer(v.actions, t)
          /\ \E i \in DOMAIN v.actions : v.actions[i] = disconnect
        <3> DEFINE s == v.actions
        <3> HIDE DEF v
        <3>1. CASE u.actions = <<>>
            <4>1. s = Append(Append(<<>>, disconnect), indication)
                BY <2>1, <3>1
            <4> HIDE DEF s, disconnect, indication
            <4>2. DOMAIN s = {1, 2} /\ s[1] = disconnect /\ s[2] = indication
                BY <1>2, <4>1, TwoActions
            <4>3. Len(s) = 2
                BY <4>1
            <4>4. \A i \in DOMAIN s : IsFrame(s[i]) <=> i <= 1
                BY <1>3, <4>2
            <4> QED
                BY <1>3, <4>2, <4>3, <4>4 DEF s, Framed, Asked, ToPeer
        <3>2. CASE u.actions # <<>>
            <4>1. PICK n \in SeqNo, x \in Apdu :
                      u.actions = Append(<<>>, SendDataConnected(t.connection_address, n, x))
                BY <3>2 DEF Answered
            <4> DEFINE a == SendDataConnected(t.connection_address, n, x)
            <4>2. /\ a \in Action /\ IsFrame(a)
                  /\ a.type = "SendDataConnected" /\ a.destination = t.connection_address
                BY <1>1, ActionConstructors, Kinds
            <4>3. s = Append(Append(Append(<<>>, a), disconnect), indication)
                BY <2>1, <4>1
            <4> HIDE DEF s, a, disconnect, indication
            <4>4. /\ DOMAIN s = {1, 2, 3} /\ Len(s) = 3
                  /\ s[1] = a /\ s[2] = disconnect /\ s[3] = indication
                BY <1>2, <4>2, <4>3, ThreeActions
            <4>5. ToPeer(s, t)
                BY <1>3, <2>2, <4>2, <4>4 DEF ToPeer
            <4>6. \A i \in DOMAIN s : IsFrame(s[i]) <=> i <= 2
                BY <1>3, <4>2, <4>4
            <4>7. Framed(s) /\ ~ Asked(s)
                BY <1>3, <4>4, <4>6 DEF Framed, Asked
            <4> QED
                BY <4>4, <4>5, <4>7 DEF s
        <3> QED
            BY <3>1, <3>2
    <2> HIDE DEF v
    <2>4. Called(t, v)
        BY <2>1, <2>3 DEF Called
    <2>5. Dropped(t, v)
        BY <2>1, <2>3 DEF Dropped
    <2> QED
        BY <2>3, <2>4, <2>5 DEF v
<1> QED
    BY <1>4, <1>5

LEMMA ReplyType == \A service \in {"Read", "Reset"}, n \in Sessions : Reply(service, n) \in Apdu
BY BauAssumption DEF Answers

\* What serving a request does to the unit b it is served on: whatever is
\* pending afterwards, a request is not among it.
Dispatched(b, r) ==
    /\ r \in Bau
    /\ Called(b.transport, r.transport) /\ ~ Asked(r.transport.actions)
    /\ ToPeer(b.outbox, b.transport) => ToPeer(r.outbox, b.transport)
    /\ r.restart_pending # b.restart_pending => Dropped(b.transport, r.transport)

\* The unit b with an answer queued, on its connection or without one.
WithAnswer(b, queued) ==
    /\ queued \in Bau
    /\ Answered(b.transport, queued.transport)
    /\ ToPeer(b.outbox, b.transport) => ToPeer(queued.outbox, b.transport)
    /\ queued.restart_pending = b.restart_pending

LEMMA StutterAnswered == \A t \in Idle : Answered(t, t)
BY IdleFacts DEF Answered

LEMMA DropDispatched ==
    ASSUME NEW b \in Bau, b.transport \in Idle, NEW queued, WithAnswer(b, queued)
    PROVE  Dispatched(b, [queued EXCEPT !.transport = disconnect_request(@),
                                        !.restart_pending = TRUE])
<1> DEFINE v == disconnect_request(queued.transport)
           r == [queued EXCEPT !.transport = disconnect_request(@), !.restart_pending = TRUE]
<1>1. Called(b.transport, v) /\ ~ Asked(v.actions) /\ Dropped(b.transport, v)
    BY DropCalled DEF WithAnswer
<1>2. v \in Sound
    BY <1>1 DEF Called
<1> HIDE DEF v
<1>3. r = [queued EXCEPT !.transport = v, !.restart_pending = TRUE]
    BY DEF v
<1>4. /\ r \in Bau /\ r.transport = v /\ r.outbox = queued.outbox
      /\ r.restart_pending = TRUE
    BY <1>2, <1>3 DEF WithAnswer, Bau
<1> HIDE DEF r
<1>5. Dispatched(b, r)
    BY <1>1, <1>4 DEF Dispatched, WithAnswer
<1> QED
    BY <1>5 DEF r

LEMMA DispatchIndication ==
    ASSUME NEW b \in Bau, b.transport \in Idle, NEW service \in Services, NEW queued,
           service \in {"Read", "Reset"} => WithAnswer(b, queued)
    PROVE  Dispatched(b, dispatch_indication(b, service, queued))
<1>1. WithAnswer(b, b)
    BY StutterAnswered DEF WithAnswer, Bau
<1>2. ASSUME NEW u, WithAnswer(b, u)
      PROVE  Dispatched(b, u)
    BY <1>2, AnswerCalled DEF Dispatched, WithAnswer
<1>3. CASE service = "Read"
    BY <1>2, <1>3 DEF dispatch_indication
<1>4. CASE service = "Write"
    BY <1>1, <1>2, <1>4 DEF dispatch_indication
<1>5. CASE service = "Restart"
    <2>1. Dispatched(b, handle_basic_restart(b))
        BY <1>1, DropDispatched DEF handle_basic_restart
    <2> QED
        BY <1>5, <2>1 DEF dispatch_indication
<1>6. CASE service = "Reset"
    <2>1. Dispatched(b, handle_restart_master_reset(b, queued))
        BY <1>6, DropDispatched DEF handle_restart_master_reset
    <2> QED
        BY <1>6, <2>1 DEF dispatch_indication
<1> QED
    BY <1>3, <1>4, <1>5, <1>6 DEF Services

LEMMA ConnectedAnswer ==
    ASSUME NEW b \in Bau, b.transport \in Idle, NEW x \in Apdu
    PROVE  WithAnswer(b, answer_connected(b, x))
<1> DEFINE u == data_connected_request(b.transport, x)
           q == answer_connected(b, x)
<1>1. Answered(b.transport, u)
    BY RequestAnswered
<1>2. u \in Sound
    BY <1>1 DEF Answered
<1> HIDE DEF u
<1>3. q = [b EXCEPT !.transport = u]
    BY DEF answer_connected, u
<1>4. /\ q \in Bau /\ q.transport = u /\ q.outbox = b.outbox
      /\ q.restart_pending = b.restart_pending
    BY <1>2, <1>3 DEF Bau
<1> HIDE DEF q
<1>5. WithAnswer(b, q)
    BY <1>1, <1>4 DEF WithAnswer
<1> QED
    BY <1>5 DEF q

LEMMA ConnectionlessAnswer ==
    ASSUME NEW b \in Bau, b.transport \in Idle, b.outbox = <<>>,
           NEW source \in Address, NEW x \in Apdu
    PROVE  WithAnswer(b, answer_connectionless(b, source, x))
<1> DEFINE a == [type |-> "SendIndividual", destination |-> source, apdu |-> x]
           o == Append(<<>>, a)
           q == answer_connectionless(b, source, x)
<1>1. a \in OutFrame /\ a.type = "SendIndividual"
    BY DEF OutFrame
<1> HIDE DEF a
<1>2. o = <<a>>
    OBVIOUS
<1>3. o \in Seq(OutFrame) /\ DOMAIN o = {1} /\ o[1] = a
    BY <1>1, <1>2
<1> HIDE DEF o
<1>4. q = [b EXCEPT !.outbox = o]
    BY DEF answer_connectionless, o, a
<1>5. /\ q \in Bau /\ q.transport = b.transport /\ q.outbox = o
      /\ q.restart_pending = b.restart_pending
    BY <1>3, <1>4 DEF Bau
<1> HIDE DEF q
<1>6. ToPeer(o, b.transport)
    BY <1>1, <1>3 DEF ToPeer
<1>7. WithAnswer(b, q)
    BY <1>5, <1>6, StutterAnswered DEF WithAnswer
<1> QED
    BY <1>7 DEF q

-----------------------------------------------------------------------------
(* Draining the actions of a call.                                          *)

\* What is left of b once its actions are taken.
LEMMA DrainedFacts ==
    ASSUME NEW b \in Bau, Framed(b.transport.actions)
    PROVE  LET d == Drained(b) IN
           /\ d \in Bau /\ d.transport \in Idle
           /\ d.transport.state = b.transport.state
           /\ d.transport.connection_address = b.transport.connection_address
           /\ d.restart_pending = b.restart_pending
           /\ \A t : ToPeer(b.outbox, t) /\ ToPeer(b.transport.actions, t) => ToPeer(d.outbox, t)
           /\ \A a : IsFrame(a) /\ (\E i \in DOMAIN b.transport.actions :
                                       b.transport.actions[i] = a) => Contains(d.outbox, a)
<1> DEFINE t == b.transport
           u == take_actions(t)
           s == t.actions
           o == b.outbox \o Frames(s)
           d == Drained(b)
<1>1. t \in Sound /\ t \in Transport /\ s \in Seq(Action) /\ b.outbox \in Seq(OutFrame)
    BY SoundFacts DEF Bau, Transport
<1>2. u \in Sound
    BY <1>1, TakeActionsSound
<1>3. /\ u.actions = <<>> /\ u.state = t.state
      /\ u.connection_address = t.connection_address
    BY <1>1 DEF take_actions, Transport
<1>4. Framed(s)
    OBVIOUS
<1> HIDE DEF u, s
<1>5. /\ o \in Seq(OutFrame)
      /\ \A p : ToPeer(b.outbox, p) /\ ToPeer(s, p) => ToPeer(o, p)
      /\ \A a : IsFrame(a) /\ (\E i \in DOMAIN s : s[i] = a) => Contains(o, a)
    BY <1>1, <1>4, Queued
<1> HIDE DEF o
<1>6. d = [b EXCEPT !.transport = u, !.outbox = o]
    BY DEF Drained, u, o, s
<1>7. /\ d \in Bau /\ d.transport = u /\ d.outbox = o
      /\ d.restart_pending = b.restart_pending
    BY <1>2, <1>5, <1>6 DEF Bau
<1> HIDE DEF d
<1>8. d.transport \in Idle
    BY <1>2, <1>3, <1>7 DEF Idle
<1>9. /\ d \in Bau /\ d.transport \in Idle
      /\ d.transport.state = t.state
      /\ d.transport.connection_address = t.connection_address
      /\ d.restart_pending = b.restart_pending
      /\ \A p : ToPeer(b.outbox, p) /\ ToPeer(s, p) => ToPeer(d.outbox, p)
      /\ \A a : IsFrame(a) /\ (\E i \in DOMAIN s : s[i] = a) => Contains(d.outbox, a)
    BY <1>3, <1>5, <1>7, <1>8
<1> QED
    BY <1>9 DEF d, s

\* A round in which no request is dispatched.
LEMMA QuietRound ==
    ASSUME NEW b, ~ Asked(b.transport.actions)
    PROVE  drain_round(b) = Drained(b)
BY DEF drain_round

\* Draining what is drained already changes nothing that matters.
LEMMA DrainedTwice ==
    ASSUME NEW b \in Bau, b.transport \in Idle
    PROVE  drain_round(b) = b
<1> DEFINE t == b.transport
<1>1. t \in Sound /\ t \in Transport /\ t.actions = <<>> /\ b.outbox \in Seq(OutFrame)
    BY IdleFacts DEF Bau
<1>2. drain_round(b) = Drained(b)
    BY <1>1, NoActions, QuietRound
<1>3. take_actions(t) = t
    BY <1>1 DEF take_actions, Transport
<1>4. b.outbox \o Frames(t.actions) = b.outbox
    BY <1>1, NoFrames
<1>5. Drained(b) = b
    BY <1>3, <1>4 DEF Drained, Bau
<1> QED
    BY <1>2, <1>5

\* What a call on t that found b makes of it.
Outcome(t, b, r) ==
    /\ r \in Bau /\ r.transport \in Idle
    /\ ToPeer(r.outbox, t)
    /\ r.restart_pending # b.restart_pending =>
          /\ r.transport.state = "Closed"
          /\ t.state # "Closed" =>
                Contains(r.outbox, SendControl(t.connection_address, "Disconnect", 0))

LEMMA QuietDrain ==
    ASSUME NEW b \in Bau, Framed(b.transport.actions), ~ Asked(b.transport.actions)
    PROVE  drain_transport_actions(b) = Drained(b)
<1>1. drain_round(b) = Drained(b)
    BY QuietRound
<1>2. Drained(b) \in Bau /\ Drained(b).transport \in Idle
    BY DrainedFacts
<1> QED
    BY <1>1, <1>2, DrainedTwice DEF drain_transport_actions

\* A request that was dispatched before the actions are drained.
LEMMA DrainDispatched ==
    ASSUME NEW b \in Bau, b.transport \in Idle, NEW r, Dispatched(b, r),
           NEW t, ToPeer(b.outbox, t),
           t.state = b.transport.state,
           t.connection_address = b.transport.connection_address
    PROVE  Outcome(t, b, Drained(r))
<1> DEFINE d == Drained(r)
           u == r.transport
           disconnect == SendControl(t.connection_address, "Disconnect", 0)
<1>1. r \in Bau /\ Framed(u.actions) /\ ToPeer(u.actions, t) /\ ToPeer(r.outbox, t)
    BY DEF Dispatched, Called, ToPeer
<1>2. /\ d \in Bau /\ d.transport \in Idle
      /\ d.transport.state = u.state
      /\ d.restart_pending = r.restart_pending
      /\ ToPeer(d.outbox, t)
      /\ \A a : IsFrame(a) /\ (\E i \in DOMAIN u.actions : u.actions[i] = a) =>
                    Contains(d.outbox, a)
    BY <1>1, DrainedFacts
<1> HIDE DEF d
<1>3. ASSUME d.restart_pending # b.restart_pending
      PROVE  /\ d.transport.state = "Closed"
             /\ t.state # "Closed" => Contains(d.outbox, disconnect)
    <2>1. Dropped(b.transport, u)
        BY <1>2, <1>3 DEF Dispatched
    <2>2. IsFrame(disconnect)
        BY Kinds
    <2>3. t.state # "Closed" => \E i \in DOMAIN u.actions : u.actions[i] = disconnect
        BY <2>1 DEF Dropped
    <2> HIDE DEF disconnect
    <2> QED
        BY <1>2, <2>1, <2>2, <2>3 DEF Dropped
<1>4. Outcome(t, b, d)
    BY <1>2, <1>3 DEF Outcome
<1> QED
    BY <1>4 DEF d

LEMMA DrainCall ==
    ASSUME NEW t \in Idle, NEW b \in Bau, Called(t, b.transport), ToPeer(b.outbox, t),
           session \in Sessions
    PROVE  Outcome(t, b, drain_transport_actions(b))
<1> DEFINE d == Drained(b)
           s == b.transport.actions
<1>1. Framed(s) /\ ToPeer(s, t)
    BY DEF Called
<1>2. /\ d \in Bau /\ d.transport \in Idle
      /\ d.transport.state = b.transport.state
      /\ d.transport.connection_address = b.transport.connection_address
      /\ d.restart_pending = b.restart_pending
      /\ ToPeer(d.outbox, t)
    BY <1>1, DrainedFacts
<1> HIDE DEF d
<1>3. CASE ~ Asked(s)
    <2>1. drain_transport_actions(b) = d
        BY <1>1, <1>3, QuietDrain DEF d
    <2> QED
        BY <1>2, <2>1 DEF Outcome
<1>4. CASE Asked(s)
    <2> DEFINE service == s[Len(s)].apdu.service
               answer == Reply(service, session)
               r == dispatch_connected_indication(d, service)
    <2>1. service \in Services
        BY <1>4 DEF Asked, Requests, Request
    <2>2. service \in {"Read", "Reset"} => WithAnswer(d, answer_connected(d, answer))
        BY <1>2, ConnectedAnswer, ReplyType
    <2>3. drain_round(b) = r
        BY <1>4 DEF drain_round, d
    <2> HIDE DEF service, answer
    <2>4. Dispatched(d, r)
        BY <1>2, <2>1, <2>2, DispatchIndication DEF dispatch_connected_indication, answer
    <2> HIDE DEF r
    <2>5. r \in Bau /\ Framed(r.transport.actions) /\ ~ Asked(r.transport.actions)
        BY <2>4 DEF Dispatched, Called
    <2>6. drain_round(r) = Drained(r)
        BY <2>5, QuietRound
    <2>7. /\ t.state # "Closed" /\ d.transport.state # "Closed"
          /\ t.connection_address = d.transport.connection_address
        BY <1>2, <1>4 DEF Called
    <2> DEFINE p == d.transport
    <2>8. ToPeer(d.outbox, p)
        BY <1>2, <2>7 DEF ToPeer
    <2>9. Outcome(p, d, Drained(r))
        BY <1>2, <2>4, <2>8, DrainDispatched
    <2>10. Outcome(t, b, Drained(r))
        BY <1>2, <2>7, <2>9 DEF Outcome, ToPeer
    <2> QED
        BY <2>3, <2>6, <2>10 DEF drain_transport_actions
<1> QED
    BY <1>3, <1>4

-----------------------------------------------------------------------------
(* The steps.                                                               *)

\* What every step of the unit satisfies.
Serves ==
    /\ ToPeer(outbox', transport)
    /\ (~ restart_pending /\ restart_pending') =>
          /\ transport'.state = "Closed"
          /\ transport.state # "Closed" =>
                Contains(outbox', SendControl(transport.connection_address, "Disconnect", 0))

LEMMA InitHolds == Init => IInv
<1> SUFFICES ASSUME Init PROVE IInv
    OBVIOUS
<1>1. transport \in Idle
    BY NewSound DEF Init, Idle, new
<1>2. session \in Sessions
    BY BauAssumption DEF Init, Sessions
<1>3. outbox = <<>> /\ restart_pending \in BOOLEAN
    BY DEF Init
<1>4. outbox \in Seq(OutFrame)
    BY <1>3
<1> QED
    BY <1>1, <1>2, <1>3, <1>4 DEF IInv

LEMMA SendingFacts ==
    ASSUME IInv
    PROVE  /\ Sending \in Bau /\ Sending.transport = transport /\ Sending.outbox = <<>>
           /\ Sending.restart_pending = restart_pending
           /\ \A t : ToPeer(Sending.outbox, t)
<1>1. <<>> \in Seq(OutFrame)
    OBVIOUS
<1>2. Sending.outbox = <<>> /\ \A t : ToPeer(<<>>, t)
    BY NoActions DEF Sending, Device
<1> QED
    BY <1>1, <1>2, IdleFacts DEF IInv, Sending, Device, Bau

LEMMA OutcomeServes ==
    ASSUME IInv, NEW r, Outcome(transport, Sending, r), Becomes(r), session' \in Sessions
    PROVE  IInv' /\ Serves
<1>1. /\ r \in Bau /\ r.transport \in Idle
      /\ transport' = r.transport /\ outbox' = r.outbox
      /\ restart_pending' = r.restart_pending
    BY DEF Outcome, Becomes
<1>2. IInv'
    BY <1>1 DEF IInv, Bau
<1>3. Serves
    BY <1>1, SendingFacts DEF Serves, Outcome
<1> QED
    BY <1>2, <1>3

LEMMA ThroughServes ==
    ASSUME IInv, NEW u, Called(transport, u), Becomes(Through(u)), session' \in Sessions
    PROVE  IInv' /\ Serves
<1> DEFINE b == [Sending EXCEPT !.transport = u]
<1>1. u \in Sound
    BY DEF Called
<1>2. /\ b \in Bau /\ b.transport = u /\ b.outbox = <<>>
      /\ b.restart_pending = Sending.restart_pending
      /\ ToPeer(b.outbox, transport)
    BY <1>1, SendingFacts DEF Bau
<1> HIDE DEF b
<1>3. transport \in Idle /\ session \in Sessions
    BY DEF IInv
<1>4. Outcome(transport, b, drain_transport_actions(b))
    BY <1>2, <1>3, DrainCall
<1>5. Outcome(transport, Sending, Through(u))
    BY <1>2, <1>4 DEF Outcome, Through, b
<1> QED
    BY <1>5, OutcomeServes

LEMMA PeersAreAddresses == Peers \subseteq Address
BY BauAssumption

LEMMA RequestType == \A service \in Services : Request(service) \in Apdu
BY BauAssumption DEF Requests

LEMMA ConnectsServes ==
    ASSUME IInv, NEW source \in Peers, Connects(source)
    PROVE  IInv' /\ Serves
<1>1. Called(transport, connect_indication(transport, source))
    BY ConnectCalled, PeersAreAddresses DEF IInv
<1>2. session' \in Sessions
    BY BauAssumption DEF IInv, Connects, Sessions
<1> QED
    BY <1>1, <1>2, ThroughServes DEF Connects

LEMMA DisconnectsServes ==
    ASSUME IInv, NEW source \in Peers, Disconnects(source)
    PROVE  IInv' /\ Serves
<1>1. Called(transport, disconnect_indication(transport, source))
    BY DisconnectIndicationCalled, PeersAreAddresses DEF IInv
<1>2. session' \in Sessions
    BY DEF IInv, Disconnects
<1> QED
    BY <1>1, <1>2, ThroughServes DEF Disconnects

LEMMA AcknowledgesServes ==
    ASSUME IInv, NEW source \in Peers, NEW seq_no \in SeqNo, Acknowledges(source, seq_no)
    PROVE  IInv' /\ Serves
<1>1. Called(transport, ack_indication(transport, source, seq_no))
    BY AckCalled, PeersAreAddresses DEF IInv
<1>2. session' \in Sessions
    BY DEF IInv, Acknowledges
<1> QED
    BY <1>1, <1>2, ThroughServes DEF Acknowledges

LEMMA RejectsServes ==
    ASSUME IInv, NEW source \in Peers, NEW seq_no \in SeqNo, Rejects(source, seq_no)
    PROVE  IInv' /\ Serves
<1>1. Called(transport, nack_indication(transport, source, seq_no))
    BY NackCalled, PeersAreAddresses DEF IInv
<1>2. session' \in Sessions
    BY DEF IInv, Rejects
<1> QED
    BY <1>1, <1>2, ThroughServes DEF Rejects

LEMMA AsksServes ==
    ASSUME IInv, NEW source \in Peers, NEW seq_no \in SeqNo, NEW service \in Services,
           Asks(source, seq_no, service)
    PROVE  IInv' /\ Serves
<1>1. Called(transport, data_connected_indication(transport, source, seq_no, Request(service)))
    BY DataIndicationCalled, PeersAreAddresses, RequestType DEF IInv
<1>2. session' \in Sessions
    BY DEF IInv, Asks
<1> QED
    BY <1>1, <1>2, ThroughServes DEF Asks

LEMMA AsksConnectionlessServes ==
    ASSUME IInv, NEW source \in Peers, NEW service \in Services,
           AsksConnectionless(source, service)
    PROVE  IInv' /\ Serves
<1> DEFINE answer == Reply(service, session)
           queued == answer_connectionless(Sending, source, answer)
           r == dispatch_indication(Sending, service, queued)
<1>1. /\ Sending \in Bau /\ Sending.transport = transport /\ transport \in Idle
      /\ Sending.outbox = <<>> /\ ToPeer(Sending.outbox, transport)
      /\ source \in Address /\ session \in Sessions
    BY SendingFacts, PeersAreAddresses DEF IInv
<1>2. service \in {"Read", "Reset"} => WithAnswer(Sending, queued)
    BY <1>1, ReplyType, ConnectionlessAnswer
<1> HIDE DEF queued
<1>3. Dispatched(Sending, r)
    BY <1>1, <1>2, DispatchIndication
<1>4. Becomes(drain_transport_actions(r))
    BY DEF AsksConnectionless, queued
<1> HIDE DEF r
<1>5. drain_transport_actions(r) = Drained(r)
    BY <1>3, QuietDrain DEF Dispatched, Called
<1>6. Outcome(transport, Sending, Drained(r))
    BY <1>1, <1>3, DrainDispatched
<1>7. session' \in Sessions
    BY <1>1 DEF AsksConnectionless
<1> QED
    BY <1>4, <1>5, <1>6, <1>7, OutcomeServes

LEMMA PollsServes ==
    ASSUME IInv, Polls
    PROVE  IInv' /\ Serves
<1>1. Called(transport, poll(transport))
    BY PollCalled DEF IInv
<1>2. session' \in Sessions
    BY DEF IInv, Polls
<1> QED
    BY <1>1, <1>2, ThroughServes DEF Polls

LEMMA EmptyOutbox ==
    ASSUME outbox' = <<>>
    PROVE  outbox' \in Seq(OutFrame) /\ ToPeer(outbox', transport)
BY NoActions

LEMMA TakesRestartServes ==
    ASSUME IInv, TakesRestart
    PROVE  IInv' /\ Serves
BY EmptyOutbox DEF IInv, Serves, TakesRestart

LEMMA TickServes ==
    ASSUME IInv, Tick
    PROVE  IInv' /\ Serves
<1>1. transport' \in Idle
    BY IdleFacts, ElapseSound DEF IInv, Tick, Idle, Elapse, Transport
<1> QED
    BY <1>1, EmptyOutbox DEF IInv, Serves, Tick

LEMMA NextServes == IInv /\ Next => IInv' /\ Serves
BY ConnectsServes, DisconnectsServes, AcknowledgesServes, RejectsServes, AsksServes,
   AsksConnectionlessServes, PollsServes, TakesRestartServes, TickServes DEF Next

LEMMA Invariance == Spec => []IInv
<1>1. IInv /\ [Next]_vars => IInv'
    BY NextServes DEF vars, IInv
<1> QED
    BY InitHolds, <1>1, PTL DEF Spec

(* Every call of the Bus Access Unit empties the transport layer's list of *)
(* actions, those of the requests it dispatches included.                  *)
THEOREM CallsDrain == Spec => []NothingLeftPending
<1>1. IInv => NothingLeftPending
    BY IdleFacts DEF IInv, NothingLeftPending
<1> QED
    BY Invariance, <1>1, PTL

(* A restart, requested over the connection or without one, leaves the     *)
(* connection closed and its peer informed.                                *)
THEOREM RestartCloses == Spec => RestartDropsConnection
<1>1. IInv /\ [Next]_vars =>
        [(~restart_pending /\ restart_pending') =>
            /\ transport'.state = "Closed"
            /\ transport.state # "Closed" =>
                  Contains(outbox', SendControl(transport.connection_address,
                                                "Disconnect", 0))]_vars
    BY NextServes DEF Serves
<1> QED
    BY Invariance, <1>1, PTL DEF Spec, RestartDropsConnection

(* Numbered data, answers and their repetitions alike, is only sent while  *)
(* a connection is open, and to its peer.                                  *)
THEOREM NumberedForPeer == Spec => NumberedOnlyToPeer
<1>1. IInv /\ [Next]_vars =>
        [\A i \in DOMAIN outbox' :
            outbox'[i].type = "SendDataConnected" =>
              /\ transport.state # "Closed"
              /\ outbox'[i].destination = transport.connection_address]_vars
    BY NextServes DEF Serves, ToPeer
<1> QED
    BY Invariance, <1>1, PTL DEF Spec, NumberedOnlyToPeer

=============================================================================
