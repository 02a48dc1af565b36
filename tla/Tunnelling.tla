------------------------------ MODULE Tunnelling ------------------------------
(***************************************************************************)
(* A tunnel from end to end: the client task of knx-rs-ip/src/tunnel.rs    *)
(* (tunnel_task, try_reconnect and TunnelState) with the application that  *)
(* owns the TunnelConnection, and the tunnels of a device server           *)
(* (ServerTunnel), over UDP that loses and repeats datagrams but keeps     *)
(* their order.                                                            *)
(*                                                                         *)
(* Payloads are numbers: the application sends 1, 2, ..., the server's     *)
(* application 1, 2, ... in the other direction.  send borrows the         *)
(* connection that recv needs exclusively, so the application does not     *)
(* receive while it waits for a send.  Waiting has no clock here: a        *)
(* response may be given up at any moment.                                 *)
(*                                                                         *)
(* try_reconnect opens a new socket, so a session is told by its port, and *)
(* what is on its way to the old one is gone.                              *)
(***************************************************************************)
EXTENDS ServerTunnel, FiniteSets

CONSTANTS
    auto_reconnect,         \* TunnelConfig.auto_reconnect
    MAX_TUNNELS,            \* open tunnels of the server (4 in the code)
    MAX_HEARTBEAT_FAILURES, \* (3 in the code)
    CEMI_CHANNEL,           \* frames that wait for the application (64 in the code)
    Sessions,               \* bound: sockets the client opens
    MaxPayload,             \* bound: frames the application sends
    MaxIndication,          \* bound: frames the server's application sends
    MaxOnWire               \* bound: datagrams on their way in one direction

ASSUME ReconnectAssumption == auto_reconnect \in BOOLEAN
ASSUME PortsAssumption == Sessions \in Nat \ {0} /\ Addr = 1 .. Sessions
ASSUME ContentAssumption == 1 .. MaxPayload \cup 1 .. MaxIndication \subseteq Content
ASSUME ServerAssumption == MAX_TUNNELS \in 1 .. MAX_CHANNEL
ASSUME WireAssumption == MaxOnWire \in Nat

VARIABLES
    task,       \* where tunnel_task is
    session,    \* TunnelState
    attempt,    \* send_with_retry: the attempt that waits for its acknowledgement
    buffered,   \* wait_for_ack: a DISCONNECT_REQUEST is among the buffered frames
    blocked,    \* the frame that waits for room in the channel to the application
    cemi,       \* the channel of frames to the application
    caller,     \* the application's call of send
    tunnels, next_channel_id, indicated,   \* the server
    toServer, toClient,                    \* datagrams on their way
    offered, confirmed, delivered,         \* what the two applications saw
    handed                                 \* history: all that went into cemi

client == <<task, session, attempt, buffered, blocked, cemi, caller>>
server == <<tunnels, next_channel_id, indicated>>
seen == <<offered, confirmed, delivered, handed>>
vars == <<client, server, toServer, toClient, seen>>

-----------------------------------------------------------------------------
(* Datagrams.  Those of the client carry the port they come from.          *)

Up(type, seq, payload) ==
    [type |-> type, port |-> session.port, channel |-> session.channel_id,
     seq |-> seq, payload |-> payload]

Down(type, to, id, seq, status) ==
    [type |-> type, to |-> to, channel |-> id, seq |-> seq, status |-> status]

Request(t) ==
    [type |-> "TunnelingRequest", to |-> t.data_addr, channel |-> t.channel_id,
     seq |-> t.in_flight[1].sequence, cemi |-> t.in_flight[1].cemi]

\* What does not fit on the wire is lost.
Put(wire, datagrams) ==
    LET all == wire \o datagrams
    IN  SubSeq(all, 1, IF Len(all) < MaxOnWire THEN Len(all) ELSE MaxOnWire)

\* The oldest datagram is delivered; a repetition of it may follow.
Remaining(wire) == {wire, Tail(wire)}

ClientSends(datagrams) == toServer' = Put(toServer, datagrams)

\* The server answers the port a datagram came from; only the socket that is
\* open receives.
ServerSends(datagrams) ==
    /\ toServer' \in Remaining(toServer)
    /\ toClient' = IF Head(toServer).port = session.port THEN Put(toClient, datagrams)
                   ELSE toClient

-----------------------------------------------------------------------------
fresh(port, id) ==
    [port |-> port, channel_id |-> id, send_seq |-> 0, recv_seq |-> 0,
     heartbeat_failures |-> 0]

\* Both ends right after the first establish.
Init ==
    /\ task = "select" /\ session = fresh(1, 1)
    /\ attempt = 0 /\ buffered = FALSE /\ blocked = <<>> /\ cemi = <<>>
    /\ caller = "free"
    /\ tunnels = {new(1, 1, 1)} /\ next_channel_id = wrapped(2) /\ indicated = 0
    /\ toServer = <<>> /\ toClient = <<>>
    /\ offered = 0 /\ confirmed = {} /\ delivered = <<>> /\ handed = <<>>

(* The application.                                                        *)

AppSends ==
    /\ caller = "free" /\ task # "ended" /\ offered < MaxPayload
    /\ caller' = "queued" /\ offered' = offered + 1
    /\ UNCHANGED <<task, session, attempt, buffered, blocked, cemi, server,
                   toServer, toClient, confirmed, delivered, handed>>

AppReceives ==
    /\ caller = "free" /\ cemi # <<>>
    /\ cemi' = Tail(cemi)
    /\ UNCHANGED <<task, session, attempt, buffered, blocked, caller, server,
                   toServer, toClient, seen>>

-----------------------------------------------------------------------------
(* The client task.                                                        *)

\* try_reconnect, where the loop calls it.
lose_connection == task' = IF auto_reconnect THEN "delay" ELSE "ended"

\* A plausible bug: a failed send reconnects without answering its caller.
reply_only_success(ok) ==
    /\ caller' = IF ok THEN "free" ELSE caller
    /\ attempt' = 0 /\ buffered' = FALSE
    /\ confirmed' = IF ok THEN confirmed \cup {offered} ELSE confirmed
    /\ task' = IF ~ ok /\ auto_reconnect THEN "delay" ELSE "select"

\* A plausible bug: the connection is kept after an error in every case.
reply_without_reconnect(ok) ==
    /\ caller' = "free" /\ attempt' = 0 /\ buffered' = FALSE
    /\ confirmed' = IF ok THEN confirmed \cup {offered} ELSE confirmed
    /\ task' = "select"

\* The loop has send_with_retry's result.  Without auto_reconnect the task
\* carries on with the same connection after an error.
reply(ok) ==
    /\ caller' = "free" /\ attempt' = 0 /\ buffered' = FALSE
    /\ confirmed' = IF ok THEN confirmed \cup {offered} ELSE confirmed
    /\ task' = IF ~ ok /\ auto_reconnect THEN "delay" ELSE "select"

request == Up("TunnelingRequest", session.send_seq, offered)

StartSend ==
    /\ task = "select" /\ caller = "queued"
    /\ task' = "await_ack" /\ caller' = "served" /\ attempt' = 1
    /\ ClientSends(<<request>>)
    /\ UNCHANGED <<session, buffered, blocked, cemi, server, toClient, seen>>

\* wait_for_ack times out; the frames it buffered are gone with it.
AckTimeout ==
    /\ task = "await_ack"
    /\ \/ /\ attempt < MAX_RETRIES
          /\ attempt' = attempt + 1 /\ buffered' = FALSE
          /\ ClientSends(<<request>>)
          /\ UNCHANGED <<task, caller, confirmed>>
       \/ attempt = MAX_RETRIES /\ reply(FALSE) /\ UNCHANGED toServer
    /\ UNCHANGED <<session, blocked, cemi, server, toClient, offered, delivered, handed>>

\* The socket reports an error where a datagram is awaited or sent.
SocketError ==
    /\ \/ /\ task = "select" /\ lose_connection
          /\ UNCHANGED <<attempt, buffered, caller, confirmed>>
       \/ task = "await_ack" /\ reply(FALSE)
    /\ UNCHANGED <<session, blocked, cemi, server, toServer, toClient, offered,
                   delivered, handed>>

StartHeartbeat ==
    /\ task = "select" /\ task' = "await_state"
    /\ ClientSends(<<Up("ConnectionStateRequest", 0, 0)>>)
    /\ UNCHANGED <<session, attempt, buffered, blocked, cemi, caller, server,
                   toClient, seen>>

heartbeat_failed ==
    LET failures == session.heartbeat_failures + 1
    IN  IF failures >= MAX_HEARTBEAT_FAILURES
        THEN lose_connection /\ UNCHANGED session
        ELSE /\ session' = [session EXCEPT !.heartbeat_failures = failures]
             /\ task' = "select"

HeartbeatTimeout ==
    /\ task = "await_state" /\ heartbeat_failed
    /\ UNCHANGED <<attempt, buffered, blocked, cemi, caller, server, toServer,
                   toClient, seen>>

\* The application closes the connection (or drops it).
Close ==
    /\ task \in {"select", "delay"} /\ caller = "free"
    /\ task' = "ended"
    /\ IF task = "select" THEN ClientSends(<<Up("DisconnectRequest", 0, 0)>>)
       ELSE UNCHANGED toServer
    /\ UNCHANGED <<session, attempt, buffered, blocked, cemi, caller, server,
                   toClient, seen>>

\* A datagram is read in one of the three places that read.
Reads(places) ==
    /\ task \in places /\ toClient # <<>>
    /\ toClient' \in Remaining(toClient)
    /\ UNCHANGED <<server, offered, delivered>>

\* The frame goes into the channel to the application.
hand_over(frame) ==
    cemi' = Append(cemi, frame) /\ handed' = Append(handed, frame)

datagram == Head(toClient)

\* A plausible bug: a repeated request is handed on again.
is_new_always(seq) == TRUE

is_new(seq) == seq = session.recv_seq

\* handle_tunneling_request, with the frame handed over at once or, if the
\* channel is full, when the application has made room.
ReadTunnelingRequest ==
    /\ Reads({"select", "await_ack", "await_state"})
    /\ datagram.type = "TunnelingRequest"
    /\ IF datagram.channel # session.channel_id
       THEN UNCHANGED <<task, session, blocked, cemi, handed, toServer>>
       ELSE /\ ClientSends(<<Up("TunnelingAck", datagram.seq, 0)>>)
            /\ IF ~ is_new(datagram.seq) THEN UNCHANGED <<task, session, blocked, cemi, handed>>
               ELSE /\ session' = [session EXCEPT !.recv_seq = wrapping_inc(@)]
                    /\ IF Len(cemi) < CEMI_CHANNEL
                       THEN hand_over(datagram.cemi) /\ UNCHANGED <<task, blocked>>
                       ELSE /\ blocked' = <<[cemi |-> datagram.cemi, place |-> task]>>
                            /\ task' = "blocked" /\ UNCHANGED <<cemi, handed>>
    /\ UNCHANGED <<attempt, buffered, caller, confirmed>>

HandOver ==
    /\ task = "blocked" /\ Len(cemi) < CEMI_CHANNEL
    /\ hand_over(blocked[1].cemi)
    /\ task' = blocked[1].place /\ blocked' = <<>>
    /\ UNCHANGED <<session, attempt, buffered, caller, server, toServer, toClient,
                   offered, confirmed, delivered>>

disconnect_response == Up("DisconnectResponse", 0, 0)

\* The acknowledgement wait_for_ack waits for; then the buffered frames are
\* processed, and a DISCONNECT_REQUEST among them fails the send after all.
ReadAck ==
    /\ Reads({"await_ack"})
    /\ datagram.type = "TunnelingAck"
    /\ datagram.channel = session.channel_id /\ datagram.seq = session.send_seq
    /\ \/ /\ datagram.status = "E_NO_ERROR"
          /\ session' = [session EXCEPT !.send_seq = wrapping_inc(@)]
          /\ ClientSends(IF buffered THEN <<disconnect_response>> ELSE <<>>)
          /\ reply(~ buffered)
       \/ /\ datagram.status # "E_NO_ERROR"
          /\ reply(FALSE)
          /\ UNCHANGED <<session, toServer>>
    /\ UNCHANGED <<blocked, cemi, handed>>

\* A DISCONNECT_REQUEST in each of the three places.
ReadDisconnectRequest ==
    /\ Reads({"select", "await_ack", "await_state"})
    /\ datagram.type = "DisconnectRequest"
    /\ \/ /\ task = "select" /\ lose_connection
          /\ ClientSends(<<disconnect_response>>)
          /\ UNCHANGED <<session, buffered>>
       \/ /\ task = "await_ack" /\ buffered' = TRUE
          /\ UNCHANGED <<task, session, toServer>>
       \/ /\ task = "await_state" /\ heartbeat_failed
          /\ ClientSends(<<disconnect_response>>)
          /\ UNCHANGED buffered
    /\ UNCHANGED <<attempt, blocked, cemi, caller, confirmed, handed>>

ReadStateResponse ==
    /\ Reads({"await_state"})
    /\ datagram.type = "ConnectionStateResponse" /\ datagram.channel = session.channel_id
    /\ \/ /\ datagram.status = "E_NO_ERROR"
          /\ session' = [session EXCEPT !.heartbeat_failures = 0]
          /\ task' = "select"
       \/ datagram.status # "E_NO_ERROR" /\ heartbeat_failed
    /\ UNCHANGED <<attempt, buffered, blocked, cemi, caller, toServer, confirmed,
                   handed>>

\* Any other datagram has no effect where it is read.
ignored ==
    \/ datagram.type \in {"DisconnectResponse", "ConnectResponse"}
    \/ /\ datagram.type = "TunnelingAck"
       /\ ~ (/\ task = "await_ack" /\ datagram.channel = session.channel_id
             /\ datagram.seq = session.send_seq)
    \/ /\ datagram.type = "ConnectionStateResponse"
       /\ ~ (task = "await_state" /\ datagram.channel = session.channel_id)

ReadIgnored ==
    /\ Reads({"select", "await_ack", "await_state"}) /\ ignored
    /\ UNCHANGED <<client, toServer, confirmed, handed>>

-----------------------------------------------------------------------------
(* try_reconnect: a delay in which commands are answered, then establish.  *)

\* A call made meanwhile, or after the end of the task, gets an error.
RejectCall ==
    /\ task \in {"delay", "ended"} /\ caller = "queued" /\ caller' = "free"
    /\ UNCHANGED <<task, session, attempt, buffered, blocked, cemi, server,
                   toServer, toClient, seen>>

Establish ==
    /\ task = "delay" /\ session.port + 1 \in Addr
    /\ session' = [session EXCEPT !.port = @ + 1]
    /\ toServer' = Put(toServer, <<[Up("ConnectRequest", 0, 0)
                                      EXCEPT !.port = session.port + 1]>>)
    /\ toClient' = <<>>
    /\ task' = "await_connect"
    /\ UNCHANGED <<attempt, buffered, blocked, cemi, caller, server, seen>>

\* do_connect takes the first datagram, whatever it is.
ReadConnectResponse ==
    /\ Reads({"await_connect"})
    /\ IF datagram.type = "ConnectResponse" /\ datagram.status = "E_NO_ERROR"
       THEN session' = fresh(session.port, datagram.channel) /\ task' = "select"
       ELSE task' = "delay" /\ UNCHANGED session
    /\ UNCHANGED <<attempt, buffered, blocked, cemi, caller, toServer, confirmed,
                   handed>>

ConnectTimeout ==
    /\ task = "await_connect" /\ task' = "delay"
    /\ UNCHANGED <<session, attempt, buffered, blocked, cemi, caller, server,
                   toServer, toClient, seen>>

-----------------------------------------------------------------------------
(* The server task (DeviceServer models it with its application).          *)

ServerReads(type) ==
    /\ toServer # <<>> /\ Head(toServer).type = type
    /\ UNCHANGED <<client, indicated, offered, confirmed, handed>>

arrived == Head(toServer)

mine == {t \in tunnels : t.channel_id = arrived.channel /\ t.data_addr = arrived.port}

ServerConnects ==
    /\ ServerReads("ConnectRequest")
    /\ IF Cardinality(tunnels) >= MAX_TUNNELS
       THEN /\ ServerSends(<<Down("ConnectResponse", arrived.port, 0, 0,
                                  "E_NO_MORE_CONNECTIONS")>>)
            /\ UNCHANGED <<tunnels, next_channel_id>>
       ELSE LET id == free_channel(next_channel_id, {t.channel_id : t \in tunnels})
            IN  /\ tunnels' = tunnels \cup {new(id, arrived.port, arrived.port)}
                /\ next_channel_id' = wrapped(id + 1)
                /\ ServerSends(<<Down("ConnectResponse", arrived.port, id, 0, "E_NO_ERROR")>>)
    /\ UNCHANGED delivered

\* The tunnel the datagram belongs to becomes F of it.
Update(F(_)) == tunnels' = {IF t \in mine THEN F(t) ELSE t : t \in tunnels}

\* The tunnelling requests that go out when t becomes F(t), for t in changed.
Outgoing(changed, F(_)) ==
    IF \E t \in changed : transmitted(t, F(t))
    THEN <<Request(F(CHOOSE t \in changed : transmitted(t, F(t))))>> ELSE <<>>

ServerTakes ==
    LET frame == [code |-> "req", content |-> arrived.payload]
        F(t) == take(t, arrived.seq, frame)
        status == IF mine = {} THEN "E_CONNECTION_ID" ELSE "E_NO_ERROR"
    IN  /\ ServerReads("TunnelingRequest")
        /\ Update(F)
        /\ ServerSends(<<Down("TunnelingAck", arrived.port, arrived.channel,
                              arrived.seq, status)>> \o Outgoing(mine, F))
        /\ delivered' = IF \E t \in mine : is_expected(t, arrived.seq)
                        THEN Append(delivered, arrived.payload) ELSE delivered
        /\ UNCHANGED next_channel_id

ServerIsAcknowledged ==
    LET F(t) == acknowledge(t, arrived.seq)
    IN  /\ ServerReads("TunnelingAck")
        /\ Update(F)
        /\ ServerSends(Outgoing(mine, F))
        /\ UNCHANGED <<next_channel_id, delivered>>

ServerAnswersHeartbeat ==
    /\ ServerReads("ConnectionStateRequest")
    /\ Update(heartbeat)
    /\ ServerSends(<<Down("ConnectionStateResponse", arrived.port, arrived.channel, 0,
                          IF mine = {} THEN "E_CONNECTION_ID" ELSE "E_NO_ERROR")>>)
    /\ UNCHANGED <<next_channel_id, delivered>>

ServerDisconnects ==
    /\ ServerReads("DisconnectRequest")
    /\ tunnels' = tunnels \ mine
    /\ ServerSends(<<Down("DisconnectResponse", arrived.port, arrived.channel, 0,
                          IF mine = {} THEN "E_CONNECTION_ID" ELSE "E_NO_ERROR")>>)
    /\ UNCHANGED <<next_channel_id, delivered>>

ServerIgnores ==
    /\ ServerReads("DisconnectResponse")
    /\ toServer' = Tail(toServer)
    /\ UNCHANGED <<tunnels, next_channel_id, toClient, delivered>>

\* What the server sends of its own accord to the socket that is open.
ServerInitiates(datagrams) ==
    /\ toClient' = Put(toClient, datagrams)
    /\ UNCHANGED <<client, next_channel_id, toServer, seen>>

ServerIndicates ==
    LET F(t) == deliver(t, [code |-> "req", content |-> indicated + 1])
        current == {t \in tunnels : t.data_addr = session.port}
    IN  /\ indicated < MaxIndication /\ indicated' = indicated + 1
        /\ tunnels' = {F(t) : t \in tunnels}
        /\ ServerInitiates(Outgoing(current, F))

ServerExpires ==
    LET kept == {t \in tunnels : ~ lost(t)}
        current == {t \in kept : t.data_addr = session.port}
        gone == {t \in tunnels \ kept : t.data_addr = session.port}
    IN  /\ \E t \in tunnels : ack_overdue(t)
        /\ tunnels' = {repeat(t) : t \in kept}
        /\ ServerInitiates(Outgoing(current, repeat) \o
               IF gone = {} THEN <<>>
               ELSE LET t == CHOOSE t \in gone : TRUE
                    IN  <<Down("DisconnectRequest", t.ctrl_addr, t.channel_id, 0, "")>>)
        /\ UNCHANGED indicated

ServerCleansUp ==
    /\ \E t \in tunnels : stale(t)
    /\ tunnels' = {t \in tunnels : ~ stale(t)}
    /\ ServerInitiates(<<>>)
    /\ UNCHANGED indicated

ServerTick ==
    /\ tunnels' = {elapse(t) : t \in tunnels}
    /\ ServerInitiates(<<>>)
    /\ UNCHANGED indicated

-----------------------------------------------------------------------------
LoseToServer ==
    /\ toServer # <<>> /\ toServer' = Tail(toServer)
    /\ UNCHANGED <<client, server, toClient, seen>>

LoseToClient ==
    /\ toClient # <<>> /\ toClient' = Tail(toClient)
    /\ UNCHANGED <<client, server, toServer, seen>>

ClientTask ==
    \/ StartSend \/ AckTimeout \/ StartHeartbeat \/ HeartbeatTimeout \/ Close
    \/ ReadTunnelingRequest \/ HandOver \/ ReadAck \/ ReadDisconnectRequest
    \/ ReadStateResponse \/ ReadIgnored
    \/ SocketError \/ RejectCall \/ Establish \/ ReadConnectResponse \/ ConnectTimeout

ServerTask ==
    \/ ServerConnects \/ ServerTakes \/ ServerIsAcknowledged
    \/ ServerAnswersHeartbeat \/ ServerDisconnects \/ ServerIgnores
    \/ ServerIndicates \/ ServerExpires \/ ServerCleansUp \/ ServerTick

Next == AppSends \/ AppReceives \/ ClientTask \/ ServerTask
        \/ LoseToServer \/ LoseToClient

Spec == Init /\ [][Next]_vars

\* The two tasks run, the application receives when it does not send, and the
\* random order of select! serves a call that stays ready at the loop.
FairSpec ==
    /\ Spec
    /\ WF_vars(AppReceives) /\ SF_vars(StartSend) /\ WF_vars(RejectCall)
    /\ WF_vars(AckTimeout) /\ WF_vars(HeartbeatTimeout) /\ WF_vars(HandOver)
    /\ WF_vars(ConnectTimeout) /\ WF_vars(Establish)

-----------------------------------------------------------------------------
(* Indications and confirmations reach the client's application in the     *)
(* order in which the server queued them and none twice, through lost      *)
(* acknowledgements, repetitions, dropped tunnels and new sessions.        *)
HandedOverInOrder ==
    \A i, j \in DOMAIN handed :
        (i < j /\ handed[i].code = handed[j].code) => handed[i].content < handed[j].content

(* With auto_reconnect a tunnel implements ConfirmedDelivery: the frames   *)
(* reach the server's application in order and none twice, and a send that *)
(* returns Ok has delivered its frame, as KnxConnection::send promises     *)
(* with its "Returns KnxIpError if the frame could not be sent".           *)
Promise == INSTANCE ConfirmedDelivery
             WITH offered <- offered, confirmed <- confirmed, delivered <- delivered
Delivers == Promise!Spec

(* A call of send returns: at the latest when the retries run out.  The    *)
(* code breaks this where the channel to the application is full.          *)
SendReturns == (caller # "free") ~> (caller = "free")

(* The full channel is the only thing that keeps a call of send waiting.   *)
WaitsOnlyForRoom == []<>(caller = "free" \/ task = "blocked")

=============================================================================
