-------------------------------- MODULE Routing --------------------------------
(***************************************************************************)
(* A routing connection (router.rs) shared by several users through a      *)
(* Multiplexer (multiplex.rs): the task between the multicast socket and   *)
(* the channels of the connection, the loop that drives the connection,    *)
(* and the handles, each with a user that sends or receives.               *)
(*                                                                         *)
(* The loop is the one user of the connection.  While it waits for the     *)
(* result of a send it does not receive; while the task waits for room in  *)
(* the event channel, or for its rate limiter, it reads neither the socket *)
(* nor a command.                                                          *)
(***************************************************************************)
EXTENDS RateLimiter, SequencesExt

CONSTANTS
    Handle,
    Waits,              \* wait times a RoutingBusy asks for
    EVENTS,             \* 64: events the connection holds
    COMMANDS,           \* 32: commands the multiplexer holds
    BROADCAST,          \* 128: frames a handle may be behind
    MaxFrame,           \* bound: routing indications that arrive
    MaxOnSocket         \* bound: datagrams the socket holds; more are lost

ASSUME RoutingAssumption ==
    /\ EVENTS \in Nat \ {0} /\ COMMANDS \in Nat \ {0} /\ BROADCAST \in Nat \ {0}
    /\ MaxFrame \in Nat /\ MaxOnSocket \in Nat /\ Waits \subseteq Nat

VARIABLES
    socket,             \* datagrams received and not read
    router_task,        \* select, pacing (in rate_limited_send), blocked (event
                        \* channel full), ended
    timestamps, paused_until,
    events,             \* the event channel
    blocked,            \* the event the blocked task holds
    call,               \* the command of the loop: none, queued, or served
    run,                \* the loop: select, sending or ended
    cmd_rx,             \* handles whose commands wait, oldest first
    served,             \* the handle whose command the loop is at
    user,               \* what the user of a handle does: free, sending, dropped
    rx,                 \* frames a handle has not received
    frames,             \* history: routing indications the task has read
    sent,               \* history: ages of the last frames given to the socket
    received, lagged    \* history: frames a handle has received, has missed

connection == <<router_task, timestamps, paused_until, blocked>>
multiplexer == <<run, served>>
vars == <<socket, connection, events, call, multiplexer, cmd_rx, user, rx,
          frames, sent, received, lagged>>

\* Datagrams and events: a frame, of which there are many, or a report of
\* lost messages.
Lost == 0
Frame == 1 .. MaxFrame
RoutingIndication == [service |-> "RoutingIndication"]
RoutingLostMessage == [service |-> "RoutingLostMessage"]
Ignored == [service |-> "other"]     \* other services, and malformed datagrams
RoutingBusy(wait) == [service |-> "RoutingBusy", wait |-> wait]

Init == /\ socket = <<>> /\ router_task = "select"
        /\ timestamps = <<>> /\ paused_until = 0
        /\ events = <<>> /\ blocked = <<>> /\ call = "none"
        /\ run = "select" /\ cmd_rx = <<>> /\ served = <<>>
        /\ user = [h \in Handle |-> "free"]
        /\ rx = [h \in Handle |-> <<>>]
        /\ frames = 0 /\ sent = <<>>
        /\ received = [h \in Handle |-> {}] /\ lagged = [h \in Handle |-> {}]

-----------------------------------------------------------------------------
(* The network and the time.                                               *)

Arrives ==
    /\ Len(socket) < MaxOnSocket /\ router_task # "ended"
    /\ \E d \in {RoutingIndication, RoutingLostMessage, Ignored} \cup
                {RoutingBusy(w) : w \in Waits} :
          /\ d = RoutingIndication =>
                frames + Len(SelectSeq(socket, LAMBDA s : s = d)) < MaxFrame
          /\ socket' = Append(socket, d)
    /\ UNCHANGED <<connection, events, call, multiplexer, cmd_rx, user, rx,
                   frames, sent, received, lagged>>

Tick ==
    /\ timestamps' = aged(timestamps) /\ sent' = aged(sent)
    /\ paused_until' = IF paused_until = 0 THEN 0 ELSE paused_until - 1
    /\ UNCHANGED <<socket, router_task, events, blocked, call, multiplexer, cmd_rx,
                   user, rx, frames, received, lagged>>

-----------------------------------------------------------------------------
(* router_task.                                                            *)

\* event_tx.send(..).await, which waits while the channel is full.
emit(e) ==
    IF Len(events) < EVENTS
    THEN events' = Append(events, e) /\ UNCHANGED <<router_task, blocked>>
    ELSE router_task' = "blocked" /\ blocked' = <<e>> /\ UNCHANGED events

HandleRoutingPacket ==
    /\ router_task = "select" /\ socket # <<>>
    /\ socket' = Tail(socket)
    /\ LET d == Head(socket)
       IN  /\ CASE d.service = "RoutingIndication" -> emit(frames + 1) /\ frames' = frames + 1
                [] d.service = "RoutingLostMessage" -> emit(Lost) /\ UNCHANGED frames
                [] OTHER -> UNCHANGED <<events, router_task, blocked, frames>>
           /\ paused_until' = IF d.service = "RoutingBusy" THEN d.wait ELSE paused_until
    /\ UNCHANGED <<timestamps, call, multiplexer, cmd_rx, user, rx, sent, received, lagged>>

Unblock ==
    /\ router_task = "blocked" /\ Len(events) < EVENTS
    /\ events' = Append(events, blocked[1]) /\ blocked' = <<>>
    /\ router_task' = "select"
    /\ UNCHANGED <<socket, timestamps, paused_until, call, multiplexer, cmd_rx, user,
                   rx, frames, sent, received, lagged>>

TakeCommand ==
    /\ router_task = "select" /\ call = "queued"
    /\ router_task' = "pacing"
    /\ UNCHANGED <<socket, timestamps, paused_until, events, blocked, call, multiplexer,
                   cmd_rx, user, rx, frames, sent, received, lagged>>

\* The call of check that grants, and send_to, whose result the caller gets.
RateLimitedSend ==
    /\ router_task = "pacing" /\ allowed(timestamps, paused_until)
    /\ timestamps' = granted(timestamps)
    /\ sent' = Append(IF Len(sent) > MAX_PACKETS_PER_SEC THEN Tail(sent) ELSE sent, 0)
    /\ router_task' = "select" /\ call' = "served"
    /\ UNCHANGED <<socket, paused_until, events, blocked, multiplexer, cmd_rx, user,
                   rx, frames, received, lagged>>

\* An error of the socket ends the task; a command that waits is dropped, its
\* sender learns it.
SocketError ==
    /\ router_task = "select"
    /\ router_task' = "ended" /\ socket' = <<>>
    /\ call' = IF call = "queued" THEN "served" ELSE call
    /\ UNCHANGED <<timestamps, paused_until, events, blocked, multiplexer, cmd_rx, user,
                   rx, frames, sent, received, lagged>>

-----------------------------------------------------------------------------
(* Multiplexer::run.                                                       *)

\* A plausible bug: a slow handle keeps what it has and misses the new frame.
retained_oldest(unread) == SubSeq(unread, 1, BROADCAST)

\* The broadcast overwrites what a slow handle has not received.
retained(unread) == IF Len(unread) > BROADCAST THEN Tail(unread) ELSE unread

\* A frame is broadcast to the handles that exist, a report is not.
Broadcast ==
    /\ run = "select" /\ events # <<>>
    /\ events' = Tail(events)
    /\ LET e == Head(events)
           open == {h \in Handle : e # Lost /\ user[h] # "dropped"}
       IN  /\ rx' = [h \in Handle |-> IF h \in open THEN retained(Append(rx[h], e)) ELSE rx[h]]
           /\ lagged' = [h \in Handle |-> IF h \in open
                            THEN lagged[h] \cup (ToSet(Append(rx[h], e)) \ ToSet(rx'[h]))
                            ELSE lagged[h]]
    /\ UNCHANGED <<socket, connection, call, multiplexer, cmd_rx, user, frames, sent, received>>

\* A command is handed to the connection; one that has ended refuses it.
StartSend ==
    /\ run = "select" /\ cmd_rx # <<>>
    /\ cmd_rx' = Tail(cmd_rx) /\ served' = <<Head(cmd_rx)>>
    /\ run' = "sending"
    /\ call' = IF router_task = "ended" THEN "served" ELSE "queued"
    /\ UNCHANGED <<socket, connection, events, user, rx, frames, sent, received, lagged>>

\* The result goes back to the handle, if it still exists.
Answer ==
    /\ run = "sending" /\ call = "served"
    /\ run' = "select" /\ call' = "none" /\ served' = <<>>
    /\ user' = [h \in Handle |-> IF user[h] = "sending" /\ served = <<h>> THEN "free"
                                 ELSE user[h]]
    /\ UNCHANGED <<socket, connection, events, cmd_rx, rx, frames, sent, received, lagged>>

\* A plausible bug: the loop forgets the commands it has not taken.
refused_none(commands) == {}

\* Senders whose command is dropped with the channel.
refused(commands) == ToSet(commands)

\* The connection reports its end when its events have been received.
ConnectionClosed ==
    /\ run = "select" /\ router_task = "ended" /\ events = <<>>
    /\ run' = "ended" /\ cmd_rx' = <<>>
    /\ user' = [h \in Handle |-> IF user[h] = "sending" /\ h \in refused(cmd_rx) THEN "free"
                                 ELSE user[h]]
    /\ UNCHANGED <<socket, connection, events, call, served, rx, frames, sent, received, lagged>>

-----------------------------------------------------------------------------
(* The users of the handles.                                               *)

\* MultiplexHandle::send_frame, also for the group operations of ops.rs,
\* which build a frame first and return early if they cannot.
SendFrame(h) ==
    /\ user[h] = "free" /\ run # "ended" /\ Len(cmd_rx) < COMMANDS
    /\ user' = [user EXCEPT ![h] = "sending"] /\ cmd_rx' = Append(cmd_rx, h)
    /\ UNCHANGED <<socket, connection, events, call, multiplexer, rx, frames, sent,
                   received, lagged>>

Receive(h) ==
    /\ user[h] = "free" /\ rx[h] # <<>>
    /\ rx' = [rx EXCEPT ![h] = Tail(@)]
    /\ received' = [received EXCEPT ![h] = @ \cup {Head(rx[h])}]
    /\ UNCHANGED <<socket, connection, events, call, multiplexer, cmd_rx, user, frames,
                   sent, lagged>>

\* A handle is dropped, or the call of send that its user is in with it.
Drop(h) ==
    /\ user[h] # "dropped"
    /\ user' = [user EXCEPT ![h] = "dropped"] /\ rx' = [rx EXCEPT ![h] = <<>>]
    /\ UNCHANGED <<socket, connection, events, call, multiplexer, cmd_rx, frames, sent,
                   received, lagged>>

-----------------------------------------------------------------------------
RouterTask == HandleRoutingPacket \/ Unblock \/ TakeCommand \/ RateLimitedSend \/ SocketError
Loop == Broadcast \/ StartSend \/ Answer \/ ConnectionClosed
User == \E h \in Handle : SendFrame(h) \/ Receive(h) \/ Drop(h)

Next == Arrives \/ Tick \/ RouterTask \/ Loop \/ User

\* Time passes, both loops run, and select! picks among its branches at
\* random, so that none that stays ready is passed over for ever.
Fairness ==
    /\ WF_vars(Tick) /\ WF_vars(Unblock) /\ WF_vars(RateLimitedSend)
    /\ WF_vars(Answer) /\ SF_vars(TakeCommand)
    /\ SF_vars(StartSend) /\ SF_vars(Broadcast) /\ SF_vars(ConnectionClosed)

Spec == Init /\ [][Next]_vars
FairSpec == Spec /\ Fairness

-----------------------------------------------------------------------------
(* Properties.                                                             *)

\* router.rs: "max 50 routing indications per second": of any frames more
\* than that the oldest has left the window, whatever pauses and waits lie
\* between them.
RateIsKept == Len(sent) > MAX_PACKETS_PER_SEC =>
                  sent[Len(sent) - MAX_PACKETS_PER_SEC] > WINDOW

InTransit == (ToSet(events) \cup ToSet(blocked)) \ {Lost}

\* A handle loses no frame but the oldest of those it was too slow for:
\* every frame the task has read is on its way to the handle, waits there,
\* was received or was overwritten, and what is behind is newer.
OnlyLaggardsMiss ==
    \A h \in Handle : user[h] # "dropped" =>
        /\ received[h] \cup lagged[h] \cup ToSet(rx[h]) \cup InTransit = 1 .. frames
        /\ \A i \in DOMAIN rx[h] : \A f \in received[h] \cup lagged[h] : f < rx[h][i]
        /\ Len(rx[h]) <= BROADCAST

\* The loop waits for the task to take its command, and the task for the
\* loop to receive.
Wedged == run = "sending" /\ call = "queued" /\ router_task = "blocked"

\* A send returns, however long the pauses are: or the loop and the task
\* wait for each other for ever.
SendReturns == \A h \in Handle : (user[h] = "sending") ~> (user[h] # "sending" \/ Wedged)

\* When the connection ends, the loop ends and no user is left waiting,
\* whatever lies in the channels.
EndReachesEveryone ==
    (router_task = "ended") ~> (run = "ended" /\ \A h \in Handle : user[h] # "sending")

=============================================================================
