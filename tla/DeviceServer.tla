----------------------------- MODULE DeviceServer -----------------------------
(***************************************************************************)
(* The KNXnet/IP device server of knx-rs-ip/src/tunnel_server.rs: the      *)
(* server task, which owns the tunnels, and the application that receives  *)
(* events from it and sends frames to it through two bounded channels.     *)
(*                                                                         *)
(* The clients are the environment: at any time any datagram may arrive    *)
(* from any address, whether it fits an open tunnel or not.  So a lost, a  *)
(* repeated, a late or a forged datagram is one of the behaviours.  One    *)
(* pass through the loop of server_task is one action; `sent` holds the    *)
(* datagrams of the last action.                                           *)
(*                                                                         *)
(* The Vec of tunnels is a set: the order of the clients in it shows       *)
(* nowhere.  An event is the number of events before it, which is what the *)
(* order of delivery is checked with.                                      *)
(***************************************************************************)
EXTENDS ServerTunnel, FiniteSets

CONSTANTS
    Endpoints,         \* the pairs of control and data address of the clients
    MAX_TUNNELS,       \* open tunnels (4 in the code)
    EVENT_CHANNEL,     \* capacity of the event channel (64 in the code)
    MAX_EVENT_BACKLOG, \* events held back beyond it (1024 in the code)
    CMD_CHANNEL,       \* capacity of the command channel (16 in the code)
    Answers,           \* bound: frames the application sends per event
    MaxEvents          \* bound: events in a behaviour

ASSUME EndpointsAssumption == Endpoints \subseteq Addr \X Addr
ASSUME TunnelsAssumption == MAX_TUNNELS \in Nat /\ MAX_TUNNELS <= MAX_CHANNEL
ASSUME ChannelsAssumption == /\ EVENT_CHANNEL \in Nat \ {0}
                             /\ MAX_EVENT_BACKLOG \in Nat \ {0}
                             /\ CMD_CHANNEL \in Nat \ {0}
                             /\ Answers \in Nat

VARIABLES
    tunnels,          \* ServerState.tunnels
    next_channel_id,  \* ServerState.next_channel_id
    channel,          \* the event channel
    backlog,          \* EventQueue.backlog
    cmds,             \* the command channel
    server,           \* how far a stop request has come
    app,              \* frames the application has yet to send before it receives
    taken, received,  \* history: events the server took, events the application got
    sent              \* history: the datagrams of the last step

vars == <<tunnels, next_channel_id, channel, backlog, cmds, server, app,
          taken, received, sent>>
events == <<channel, backlog, taken>>
application == <<app, received>>

ToAll == 0
Command == {ToAll} \cup Channel

-----------------------------------------------------------------------------
(* The datagrams of the server.                                            *)

Reply(type, to, id, status) ==
    [type |-> type, to |-> to, channel |-> id, status |-> status]

TunnelingAck(to, id, seq, status) ==
    [type |-> "TunnelingAck", to |-> to, channel |-> id, seq |-> seq, status |-> status]

TunnelingRequest(t) ==
    [type |-> "TunnelingRequest", to |-> t.data_addr, channel |-> t.channel_id,
     seq |-> t.in_flight[1].sequence, cemi |-> t.in_flight[1].cemi]

DisconnectRequest(t) ==
    [type |-> "DisconnectRequest", to |-> t.ctrl_addr, channel |-> t.channel_id]

RoutingIndication(cemi) == [type |-> "RoutingIndication", cemi |-> cemi]

\* The requests that go out when each tunnel t becomes F(t).
Requests(open, F(_)) ==
    {TunnelingRequest(F(t)) : t \in {s \in open : transmitted(s, F(s))}}

-----------------------------------------------------------------------------
(* EventQueue.                                                             *)

push(event) ==
    /\ IF backlog = <<>> /\ Len(channel) < EVENT_CHANNEL
       THEN channel' = Append(channel, event) /\ UNCHANGED backlog
       ELSE /\ backlog' = IF Len(backlog) < MAX_EVENT_BACKLOG
                          THEN Append(backlog, event) ELSE backlog
            /\ UNCHANGED channel
    /\ taken' = taken + 1

\* A plausible bug: an event overtakes those that are held back.
push_overtaking(event) ==
    /\ IF Len(channel) < EVENT_CHANNEL
       THEN channel' = Append(channel, event) /\ UNCHANGED backlog
       ELSE /\ backlog' = IF Len(backlog) < MAX_EVENT_BACKLOG
                          THEN Append(backlog, event) ELSE backlog
            /\ UNCHANGED channel
    /\ taken' = taken + 1

\* A plausible bug: the limit is off by one.
has_room_off_by_one == Len(backlog) <= MAX_EVENT_BACKLOG

has_room == Len(backlog) < MAX_EVENT_BACKLOG

\* A plausible bug: the last event that is held back is forgotten.
has_backlog_off_by_one == Len(backlog) > 1

has_backlog == backlog # <<>>

-----------------------------------------------------------------------------
(* The loop of server_task: a stop request that comes while the task waits *)
(* may lose against one more arm of the select, then the loop ends.        *)

waiting == server \in {"running", "asked"}

pass == /\ waiting
        /\ server' = IF server = "asked" THEN "seen" ELSE server

\* A plausible bug: the server waits until the application has made room.
serve_after_handover == pass /\ backlog = <<>>

\* The arms other than the hand-over of held-back events.
serve == pass

\* A datagram is read.
Reads == serve /\ has_room

Init ==
    /\ tunnels = {} /\ next_channel_id = 1
    /\ channel = <<>> /\ backlog = <<>> /\ cmds = <<>>
    /\ server = "running" /\ app = 0 /\ taken = 0 /\ received = 0 /\ sent = {}

\* A routing indication from the multicast group.
HandleRoutingIndication ==
    /\ Reads /\ taken < MaxEvents
    /\ push(taken)
    /\ sent' = {}
    /\ UNCHANGED <<tunnels, next_channel_id, cmds, application>>

RefuseConnect(ctrl_addr) ==
    /\ Reads
    /\ \E status \in {"E_CONNECTION_TYPE", "E_NO_MORE_CONNECTIONS"} :
        /\ status = "E_CONNECTION_TYPE" \/ Cardinality(tunnels) >= MAX_TUNNELS
        /\ sent' = {Reply("ConnectResponse", ctrl_addr, 0, status)}
    /\ UNCHANGED <<tunnels, next_channel_id, events, cmds, application>>

in_use == {t.channel_id : t \in tunnels}

AcceptConnect(ctrl_addr, data_addr) ==
    /\ Reads /\ Cardinality(tunnels) < MAX_TUNNELS
    /\ LET id == free_channel(next_channel_id, in_use)
       IN  /\ tunnels' = tunnels \cup {new(id, ctrl_addr, data_addr)}
           /\ next_channel_id' = wrapped(id + 1)
           /\ sent' = {Reply("ConnectResponse", ctrl_addr, id, "E_NO_ERROR")}
    /\ UNCHANGED <<events, cmds, application>>

\* tunnels.iter().find(...) by channel id and address.
controlled(id, src) == {t \in tunnels : t.channel_id = id /\ t.ctrl_addr = src}

addressed(id, src) == {t \in tunnels : t.channel_id = id /\ t.data_addr = src}

HandleHeartbeat(src, id) ==
    /\ Reads
    /\ \/ \E t \in controlled(id, src) :
            /\ tunnels' = (tunnels \ {t}) \cup {heartbeat(t)}
            /\ sent' = {Reply("ConnectionStateResponse", src, id, "E_NO_ERROR")}
       \/ /\ controlled(id, src) = {}
          /\ sent' = {Reply("ConnectionStateResponse", src, id, "E_CONNECTION_ID")}
          /\ UNCHANGED tunnels
    /\ UNCHANGED <<next_channel_id, events, cmds, application>>

HandleDisconnect(src, id) ==
    /\ Reads
    /\ \/ /\ controlled(id, src) # {}
          /\ tunnels' = {t \in tunnels : t.channel_id # id}
          /\ sent' = {Reply("DisconnectResponse", src, id, "E_NO_ERROR")}
       \/ /\ controlled(id, src) = {}
          /\ sent' = {Reply("DisconnectResponse", src, id, "E_CONNECTION_ID")}
          /\ UNCHANGED tunnels
    /\ UNCHANGED <<next_channel_id, events, cmds, application>>

\* A request for an unknown channel or from a foreign address.
RefuseTunnelingRequest(src, id, seq) ==
    /\ Reads /\ addressed(id, src) = {}
    /\ sent' = {TunnelingAck(src, id, seq, "E_CONNECTION_ID")}
    /\ UNCHANGED <<tunnels, next_channel_id, events, cmds, application>>

\* A plausible bug: the sender of the request is not looked at.
HandleTunnelingRequest_of_anyone(src, id, seq, cemi, parses) ==
    /\ Reads /\ taken < MaxEvents
    /\ \E t \in {s \in tunnels : s.channel_id = id} :
        LET u == IF parses THEN take(t, seq, cemi)
                 ELSE take(t, seq, [cemi EXCEPT !.code = "ind"])
        IN  /\ tunnels' = (tunnels \ {t}) \cup {u}
            /\ sent' = {TunnelingAck(src, id, seq, "E_NO_ERROR")}
                       \cup Requests({t}, LAMBDA s : u)
            /\ IF parses /\ is_expected(t, seq) THEN push(taken) ELSE UNCHANGED events
    /\ UNCHANGED <<next_channel_id, cmds, application>>

\* A request on its tunnel is always acknowledged; only the expected one is
\* taken, and its event is handed on if its cEMI frame can be parsed.
HandleTunnelingRequest(src, id, seq, cemi, parses) ==
    /\ Reads /\ taken < MaxEvents
    /\ \E t \in addressed(id, src) :
        LET u == IF parses THEN take(t, seq, cemi)
                 ELSE take(t, seq, [cemi EXCEPT !.code = "ind"])
        IN  /\ tunnels' = (tunnels \ {t}) \cup {u}
            /\ sent' = {TunnelingAck(src, id, seq, "E_NO_ERROR")}
                       \cup Requests({t}, LAMBDA s : u)
            /\ IF parses /\ is_expected(t, seq) THEN push(taken) ELSE UNCHANGED events
    /\ UNCHANGED <<next_channel_id, cmds, application>>

HandleTunnelingAck(src, id, seq) ==
    /\ Reads
    /\ \E t \in addressed(id, src) :
        /\ tunnels' = (tunnels \ {t}) \cup {acknowledge(t, seq)}
        /\ sent' = Requests({t}, LAMBDA s : acknowledge(s, seq))
    /\ UNCHANGED <<next_channel_id, events, cmds, application>>

\* A command of the application: send_to_all and send_to_tunnel_client.
ServeCommand ==
    /\ serve /\ cmds # <<>>
    /\ \E content \in Content :
        LET cemi == [code |-> "req", content |-> content]
            F(t) == IF Head(cmds) \in {ToAll, t.channel_id} THEN deliver(t, cemi) ELSE t
        IN  /\ tunnels' = {F(t) : t \in tunnels}
            /\ sent' = Requests(tunnels, F)
                       \cup IF Head(cmds) = ToAll THEN {RoutingIndication(as_indication(cemi))}
                            ELSE {}
    /\ cmds' = Tail(cmds)
    /\ UNCHANGED <<next_channel_id, events, application>>

\* EventQueue.deliver: the oldest held-back event moves once there is room.
DeliverEvent ==
    /\ pass /\ has_backlog /\ Len(channel) < EVENT_CHANNEL
    /\ channel' = Append(channel, Head(backlog))
    /\ backlog' = Tail(backlog)
    /\ sent' = {}
    /\ UNCHANGED <<tunnels, next_channel_id, cmds, taken, application>>

ExpireAcks ==
    /\ serve /\ \E t \in tunnels : ack_overdue(t)
    /\ LET kept == {t \in tunnels : ~ lost(t)}
       IN  /\ tunnels' = {repeat(t) : t \in kept}
           /\ sent' = Requests(kept, repeat)
                      \cup {DisconnectRequest(t) : t \in tunnels \ kept}
    /\ UNCHANGED <<next_channel_id, events, cmds, application>>

\* The sweep for tunnels without heartbeats; nobody is told.
CleanupStaleTunnels ==
    /\ serve
    /\ tunnels' = {t \in tunnels : ~ stale(t)}
    /\ sent' = {}
    /\ UNCHANGED <<next_channel_id, events, cmds, application>>

\* A plausible bug: what is queued for the clients goes out first.
stop_is_seen_when_drained ==
    server \in {"asked", "seen"} /\ \A t \in tunnels : t.outbox = <<>>

\* The loop ends: on a stop request, or on an error of the socket.
stop_is_seen == server \in {"asked", "seen"}

End ==
    /\ server' = "ended"
    /\ sent' = {DisconnectRequest(t) : t \in tunnels}
    /\ tunnels' = {} /\ backlog' = <<>> /\ cmds' = <<>>
    /\ UNCHANGED <<next_channel_id, channel, taken, application>>

StopServer == stop_is_seen /\ End

SocketError == waiting /\ has_room /\ End

-----------------------------------------------------------------------------
(* The application: one task that receives and, before it receives again,  *)
(* sends; a send waits for room in the command channel.  It may stop the   *)
(* server (or drop its handle) at any time.                                *)

AppReceives ==
    /\ app = 0 /\ channel # <<>>
    /\ received' = received + 1
    /\ channel' = Tail(channel)
    /\ app' \in 0 .. Answers
    /\ sent' = {}
    /\ UNCHANGED <<tunnels, next_channel_id, backlog, cmds, server, taken>>

AppDecidesToSend ==
    /\ app = 0 /\ app' \in 1 .. Answers
    /\ sent' = {}
    /\ UNCHANGED <<tunnels, next_channel_id, events, cmds, server, received>>

AppSends ==
    /\ app > 0 /\ app' = app - 1
    /\ \/ /\ server # "ended" /\ Len(cmds) < CMD_CHANNEL
          /\ \E cmd \in Command : cmds' = Append(cmds, cmd)
       \/ server = "ended" /\ UNCHANGED cmds      \* Err(KnxIpError::Closed)
    /\ sent' = {}
    /\ UNCHANGED <<tunnels, next_channel_id, events, server, received>>

AppStops ==
    /\ server = "running" /\ server' = "asked"
    /\ sent' = {}
    /\ UNCHANGED <<tunnels, next_channel_id, events, cmds, application>>

Tick ==
    /\ tunnels' = {elapse(t) : t \in tunnels}
    /\ sent' = {}
    /\ UNCHANGED <<next_channel_id, events, cmds, server, application>>

FromClient(src) ==
    \/ RefuseConnect(src)
    \/ \E id \in Channel :
        \/ HandleHeartbeat(src, id)
        \/ HandleDisconnect(src, id)
        \/ \E seq \in Seqno :
            \/ RefuseTunnelingRequest(src, id, seq)
            \/ HandleTunnelingAck(src, id, seq)
            \/ \E code \in {"req", "ind"}, content \in Content, parses \in BOOLEAN :
                HandleTunnelingRequest(src, id, seq,
                                       [code |-> code, content |-> content], parses)

Application == AppReceives \/ AppDecidesToSend \/ AppSends \/ AppStops

Next ==
    \/ HandleRoutingIndication
    \/ \E e \in Endpoints : AcceptConnect(e[1], e[2])
    \/ \E src \in Addr : FromClient(src)
    \/ ServeCommand \/ DeliverEvent \/ ExpireAcks \/ CleanupStaleTunnels
    \/ StopServer \/ SocketError
    \/ Application
    \/ Tick

Spec == Init /\ [][Next]_vars

\* tokio::select! picks among the arms that are ready at random, so an arm that
\* stays ready is served.  The application keeps receiving and sending.
FairSpec ==
    /\ Spec
    /\ WF_vars(ServeCommand) /\ WF_vars(DeliverEvent) /\ WF_vars(ExpireAcks)
    /\ WF_vars(CleanupStaleTunnels) /\ WF_vars(StopServer)
    /\ SF_vars(AppReceives) /\ WF_vars(AppSends) /\ WF_vars(Tick)

-----------------------------------------------------------------------------
(* The variables keep their types; the queues keep their limits.           *)
TypeOK ==
    /\ tunnels \subseteq TunnelClient
    /\ next_channel_id \in Channel
    /\ channel \in Seq(Nat) /\ Len(channel) <= EVENT_CHANNEL
    /\ backlog \in Seq(Nat) /\ Len(backlog) <= MAX_EVENT_BACKLOG
    /\ cmds \in Seq(Command) /\ Len(cmds) <= CMD_CHANNEL
    /\ server \in {"running", "asked", "seen", "ended"}
    /\ app \in 0 .. Answers
    /\ taken \in Nat /\ received \in Nat
    /\ \A t \in tunnels : /\ Len(t.outbox) <= MAX_CLIENT_QUEUE
                          /\ Len(t.in_flight) <= 1

(* A channel id names one tunnel, through every wrap of the counter and    *)
(* every disconnect in between (TUN-7), and the limit on tunnels holds.    *)
ChannelsDistinct ==
    /\ \A t, u \in tunnels : t.channel_id = u.channel_id => t = u
    /\ Cardinality(tunnels) <= MAX_TUNNELS

(* No frame waits for a client that has nothing on the wire: every path    *)
(* that queues a frame or takes the acknowledgement of one pumps.          *)
NothingLeftWaiting == \A t \in tunnels : t.in_flight = <<>> => t.outbox = <<>>

(* "An event that does not fit into the channel is held back here, in      *)
(* order": while the server runs, the application receives every event     *)
(* the server acknowledged, in order; the branch that drops one is never   *)
(* taken.                                                                  *)
EventsInOrder ==
    server # "ended" =>
        channel \o backlog = [i \in 1 .. taken - received |-> received + i - 1]

(* A tunnel goes away only because its own client said so, was silent for  *)
(* MAX_RETRIES transmissions or for TUNNEL_TIMEOUT, or because the server  *)
(* ends; except after the heartbeat timeout the client is told.            *)
OnlyOwnFaultEndsTunnel ==
    [][ \A t \in tunnels :
          t.channel_id \notin {u.channel_id : u \in tunnels'} =>
            \/ Reply("DisconnectResponse", t.ctrl_addr, t.channel_id, "E_NO_ERROR") \in sent'
            \/ /\ DisconnectRequest(t) \in sent'
               /\ \/ server' = "ended"
                  \/ /\ t.in_flight # <<>>
                     /\ t.in_flight[1].attempts = MAX_RETRIES
                     /\ t.in_flight[1].deadline = 0
            \/ t.heartbeat_age = TUNNEL_TIMEOUT ]_vars

(* "One of them is on the wire at a time": the request on the wire is only *)
(* replaced by the next one when the client acknowledges exactly that      *)
(* request; in between it is repeated unchanged and the count goes up.     *)
OneFrameOnTheWire ==
    [][ \A t \in tunnels, u \in tunnels' :
          (t.channel_id = u.channel_id /\ t.in_flight # <<>> /\ u.in_flight # <<>>) =>
            LET before == t.in_flight[1]
                after  == u.in_flight[1]
            IN  \/ /\ after.sequence = before.sequence /\ after.cemi = before.cemi
                   /\ after.attempts >= before.attempts
                \/ HandleTunnelingAck(t.data_addr, t.channel_id, before.sequence) ]_vars

(* What arrives from an address, a tunnelling request included, changes no *)
(* tunnel of another client: when a tunnel that is not at an address       *)
(* changes or goes, nothing from that address caused the step.             *)
ClientsKeepApart ==
    [][ \A src \in Addr :
          (\E t \in tunnels \ tunnels' : src \notin {t.ctrl_addr, t.data_addr})
            => ~ FromClient(src) ]_vars

(* "A frame it has not acknowledged after three attempts costs it its      *)
(* tunnel": no request stays on the wire for ever.                         *)
RequestsAreSettled ==
    \A id \in Channel, seq \in Seqno :
        (\E t \in tunnels : t.channel_id = id /\ t.in_flight # <<>> /\ t.in_flight[1].sequence = seq)
          ~> ~ (\E t \in tunnels : /\ t.channel_id = id
                                   /\ t.in_flight # <<>> /\ t.in_flight[1].sequence = seq)

(* "The server task must never wait for the application": an application   *)
(* that sends from the task that receives gets through.                    *)
SenderGetsThrough == (app > 0) ~> (app = 0)

(* What the server took over reaches an application that keeps receiving.  *)
EventsReachApplication ==
    \A n \in 1 .. MaxEvents : (taken = n) ~> (received >= n \/ server # "running")

(* A tunnel whose client is gone (it left without a disconnect, or never   *)
(* got the answer to its connect request) is freed.                        *)
StaleTunnelsAreFreed ==
    \A id \in Channel :
        (\E t \in tunnels : t.channel_id = id /\ t.heartbeat_age = TUNNEL_TIMEOUT)
          ~> ~ (\E t \in tunnels : t.channel_id = id /\ t.heartbeat_age = TUNNEL_TIMEOUT)

(* A stop request takes effect "not after the queued frames have been      *)
(* sent", whatever the clients and the application do.                     *)
StopTakesEffect == (server = "asked") ~> (server = "ended")

=============================================================================
