----------------------------- MODULE ServerTunnel -----------------------------
(***************************************************************************)
(* One tunnel of a KNXnet/IP device server: the struct TunnelClient of     *)
(* knx-rs-ip/src/tunnel_server.rs with its methods, and the per-tunnel     *)
(* part of the functions of the server task.  A function that takes        *)
(* &mut TunnelClient is an operator from the record before the call to the *)
(* record after it.                                                        *)
(*                                                                         *)
(* A cEMI frame is a record of its message code and its content.  A        *)
(* deadline is the number of ticks that are left, 0 when it has passed;    *)
(* heartbeat_age is how long ago last_heartbeat was, counted up to the     *)
(* timeout.  A send that fails leaves the record as one whose datagram is  *)
(* lost: only what is logged differs.                                      *)
(***************************************************************************)
EXTENDS Integers, Sequences

CONSTANTS
    Addr,             \* socket addresses
    Content,          \* contents of cEMI frames
    MAX_CHANNEL,      \* channel ids are 1 .. MAX_CHANNEL (255 in the code)
    SEQ_MOD,          \* sequence counters are 0 .. SEQ_MOD - 1 (256 in the code)
    MAX_CLIENT_QUEUE, \* frames that wait for one client (128 in the code)
    MAX_RETRIES,      \* transmissions of one request (3 in the code)
    REQUEST_TIMEOUT,  \* ticks until a request is sent again (1 s in the code)
    TUNNEL_TIMEOUT    \* ticks without a heartbeat (120 s in the code)

ASSUME ChannelAssumption == MAX_CHANNEL \in Nat \ {0}
ASSUME SeqAssumption == SEQ_MOD \in Nat \ {0, 1}
ASSUME QueueAssumption == MAX_CLIENT_QUEUE \in Nat \ {0}
ASSUME RetriesAssumption == MAX_RETRIES \in Nat \ {0}
ASSUME TimeoutAssumption == /\ REQUEST_TIMEOUT \in Nat \ {0}
                            /\ TUNNEL_TIMEOUT \in Nat \ {0}

Channel == 1 .. MAX_CHANNEL
Seqno == 0 .. SEQ_MOD - 1

Cemi == [code : {"req", "ind", "con"}, content : Content]

InFlight == [sequence : Seqno, cemi : Cemi,
             attempts : 1 .. MAX_RETRIES, deadline : 0 .. REQUEST_TIMEOUT]

\* in_flight is an Option: the empty sequence or a sequence of one request.
TunnelClient ==
    [channel_id : Channel, ctrl_addr : Addr, data_addr : Addr,
     send_seq : Seqno, recv_seq : Seqno, heartbeat_age : 0 .. TUNNEL_TIMEOUT,
     outbox : Seq(Cemi), in_flight : Seq(InFlight)]

wrapping_inc(n) == (n + 1) % SEQ_MOD

\* Channel ids wrap from MAX_CHANNEL to 1.
wrapped(n) == 1 + ((n - 1) % MAX_CHANNEL)

\* A plausible bug: ids in use are not skipped.
next_channel_only(next, used) == next

\* The first channel id from next on that is not in use (TUN-7).
free_channel(next, used) ==
    LET is_first(k) == /\ wrapped(next + k) \notin used
                       /\ \A j \in 0 .. k - 1 : wrapped(next + j) \in used
    IN  wrapped(next + CHOOSE k \in 0 .. MAX_CHANNEL - 1 : is_first(k))

-----------------------------------------------------------------------------
new(channel_id, ctrl_addr, data_addr) ==
    [channel_id |-> channel_id, ctrl_addr |-> ctrl_addr, data_addr |-> data_addr,
     send_seq |-> 0, recv_seq |-> 0, heartbeat_age |-> 0,
     outbox |-> <<>>, in_flight |-> <<>>]

\* A plausible bug: the oldest frame stays, the queue has no limit.
enqueue_unbounded(t, cemi) == [t EXCEPT !.outbox = Append(@, cemi)]

\* A full queue loses its oldest frame.
enqueue(t, cemi) ==
    [t EXCEPT !.outbox =
        Append(IF Len(@) >= MAX_CLIENT_QUEUE THEN Tail(@) ELSE @, cemi)]

\* A plausible bug: the frame on the wire does not hold up the next one.
pump_at_once(t) ==
    IF t.outbox = <<>> THEN t
    ELSE [t EXCEPT !.in_flight = <<[sequence |-> t.send_seq,
                                    cemi |-> Head(t.outbox),
                                    attempts |-> 1,
                                    deadline |-> REQUEST_TIMEOUT]>>,
                   !.outbox = Tail(@)]

\* pump: the next frame that waits goes on the wire, unless one is there.
pump(t) ==
    IF t.in_flight # <<>> \/ t.outbox = <<>> THEN t
    ELSE [t EXCEPT !.in_flight = <<[sequence |-> t.send_seq,
                                    cemi |-> Head(t.outbox),
                                    attempts |-> 1,
                                    deadline |-> REQUEST_TIMEOUT]>>,
                   !.outbox = Tail(@)]

\* A plausible bug: a repetition is not counted.
transmit_uncounted(t) ==
    [t EXCEPT !.in_flight = <<[t.in_flight[1] EXCEPT !.deadline = REQUEST_TIMEOUT]>>]

\* transmit for a request that was on the wire before.
transmit(t) ==
    [t EXCEPT !.in_flight =
        <<[t.in_flight[1] EXCEPT !.attempts = @ + 1, !.deadline = REQUEST_TIMEOUT]>>]

-----------------------------------------------------------------------------
\* What the server puts in a client's queue: it delivers what happened on the
\* bus, so a request leaves as an indication.
as_indication(cemi) ==
    IF cemi.code = "req" THEN [cemi EXCEPT !.code = "ind"] ELSE cemi

confirmation_of(cemi) == [cemi EXCEPT !.code = "con"]

\* Deliver a frame of the application to this client.
deliver(t, cemi) == pump(enqueue(t, as_indication(cemi)))

\* A tunnelling request of the client is new, not a repetition.
is_expected(t, seq) == seq = t.recv_seq

\* A plausible bug: a confirmation waits for the next thing that pumps.
take_without_pump(t, seq, cemi) ==
    IF ~ is_expected(t, seq) THEN t
    ELSE LET u == [t EXCEPT !.recv_seq = wrapping_inc(@)]
         IN  IF cemi.code = "req" THEN enqueue(u, confirmation_of(cemi)) ELSE u

\* handle_tunneling_request, after the acknowledgement has gone out.  A
\* request of the bus is confirmed to the client, in the client's own queue.
take(t, seq, cemi) ==
    IF ~ is_expected(t, seq) THEN t
    ELSE LET u == [t EXCEPT !.recv_seq = wrapping_inc(@)]
         IN  IF cemi.code = "req" THEN pump(enqueue(u, confirmation_of(cemi))) ELSE u

\* The acknowledgement is the one that is waited for.
acknowledges(t, seq) == t.in_flight # <<>> /\ t.in_flight[1].sequence = seq

\* handle_tunneling_ack; the status octet of the acknowledgement is not read.
acknowledge(t, seq) ==
    IF acknowledges(t, seq)
    THEN pump([t EXCEPT !.in_flight = <<>>, !.send_seq = wrapping_inc(seq)])
    ELSE t

-----------------------------------------------------------------------------
ack_overdue(t) == t.in_flight # <<>> /\ t.in_flight[1].deadline = 0

\* A plausible bug: the first missing acknowledgement costs the tunnel.
lost_at_once(t) == ack_overdue(t)

\* expire_acks gives up on a client after MAX_RETRIES transmissions.
lost(t) == ack_overdue(t) /\ t.in_flight[1].attempts >= MAX_RETRIES

\* expire_acks for a client that is not lost.
repeat(t) == IF ack_overdue(t) THEN transmit(t) ELSE t

heartbeat(t) == [t EXCEPT !.heartbeat_age = 0]

\* A plausible bug: a tunnel with a frame on the wire counts as alive.
stale_unless_busy(t) == t.heartbeat_age >= TUNNEL_TIMEOUT /\ t.in_flight = <<>>

stale(t) == t.heartbeat_age >= TUNNEL_TIMEOUT

\* One tick of the clock.
elapse(t) ==
    [t EXCEPT
        !.heartbeat_age = IF @ < TUNNEL_TIMEOUT THEN @ + 1 ELSE @,
        !.in_flight = IF t.in_flight # <<>> /\ t.in_flight[1].deadline > 0
                      THEN <<[t.in_flight[1] EXCEPT !.deadline = @ - 1]>>
                      ELSE @]

\* The step from t to u put a tunnelling request on the wire: attempts and
\* sequence of the request in flight change with every transmission.
transmitted(t, u) ==
    /\ u.in_flight # <<>>
    /\ \/ t.in_flight = <<>>
       \/ t.in_flight[1].sequence # u.in_flight[1].sequence
       \/ t.in_flight[1].attempts # u.in_flight[1].attempts

=============================================================================
