-------------------------- MODULE DeviceServerProofs --------------------------
(***************************************************************************)
(* The tunnels and the event queue of the device server, for every number  *)
(* of clients, every capacity and every wrap of the counters: the types,   *)
(* the order of the events, distinct channel ids, no frame left waiting,   *)
(* and what a step may do to a tunnel.  And what the server says of itself *)
(* in Wire, octet by octet: whatever name and numbers it is given, a       *)
(* search finds it as it described itself.  And what becomes of a telegram *)
(* in Wire: it is read on the line as it was written.                      *)
(***************************************************************************)
EXTENDS DeviceServer, Wire, TLAPS, FiniteSetTheorems, WellFoundedInduction

-----------------------------------------------------------------------------
(* Sequences.                                                               *)

LEMMA AppendFacts ==
    ASSUME NEW S, NEW s \in Seq(S), NEW e \in S
    PROVE  /\ Append(s, e) \in Seq(S)
           /\ Len(Append(s, e)) = Len(s) + 1
           /\ Append(s, e) # <<>>
           /\ Append(s, e)[Len(s) + 1] = e
           /\ \A i \in 1 .. Len(s) : Append(s, e)[i] = s[i]
OBVIOUS

LEMMA TailFacts ==
    ASSUME NEW S, NEW s \in Seq(S), s # <<>>
    PROVE  /\ Tail(s) \in Seq(S)
           /\ Len(s) >= 1
           /\ Len(Tail(s)) = Len(s) - 1
           /\ Head(s) \in S
           /\ Head(s) = s[1]
           /\ \A i \in 1 .. Len(s) - 1 : Tail(s)[i] = s[i + 1]
OBVIOUS

LEMMA EmptyFacts ==
    ASSUME NEW S
    PROVE  /\ <<>> \in Seq(S)
           /\ Len(<<>>) = 0
           /\ \A s \in Seq(S) : Len(s) = 0 <=> s = <<>>
OBVIOUS

LEMMA SingleFacts ==
    ASSUME NEW S, NEW e \in S
    PROVE  /\ <<e>> \in Seq(S)
           /\ Len(<<e>>) = 1
           /\ <<e>> # <<>>
           /\ <<e>>[1] = e
OBVIOUS

-----------------------------------------------------------------------------
(* The event queue: the events between the application and the server are  *)
(* those the application has not received, in order.                       *)

QueueOK ==
    /\ channel \in Seq(Nat) /\ backlog \in Seq(Nat)
    /\ taken \in Nat /\ received \in Nat
    /\ Len(channel) <= EVENT_CHANNEL
    /\ Len(backlog) <= MAX_EVENT_BACKLOG

InOrder ==
    server # "ended" =>
        /\ Len(channel) + Len(backlog) = taken - received
        /\ \A i \in 1 .. Len(channel) : channel[i] = received + i - 1
        /\ \A i \in 1 .. Len(backlog) : backlog[i] = received + Len(channel) + i - 1

QInv == QueueOK /\ InOrder

LEMMA PushKeepsOrder ==
    ASSUME QInv, pass, has_room, push(taken), UNCHANGED received
    PROVE  QInv'
<1> USE ChannelsAssumption DEF QInv, QueueOK, InOrder, has_room
<1>0. server # "ended"
  BY DEF pass, waiting
<1>1. CASE backlog = <<>> /\ Len(channel) < EVENT_CHANNEL
  <2>1. channel' = Append(channel, taken) /\ backlog' = backlog /\ taken' = taken + 1
    BY <1>1 DEF push
  <2>2. Len(backlog) = 0 /\ taken = received + Len(channel)
    BY <1>0, <1>1, EmptyFacts
  <2>3. /\ channel' \in Seq(Nat) /\ Len(channel') = Len(channel) + 1
        /\ channel'[Len(channel) + 1] = taken
        /\ \A i \in 1 .. Len(channel) : channel'[i] = channel[i]
    BY <2>1, AppendFacts
  <2>4. ASSUME NEW i \in 1 .. Len(channel') PROVE channel'[i] = received + i - 1
    <3>1. CASE i = Len(channel) + 1
      BY <3>1, <2>2, <2>3
    <3>2. CASE i # Len(channel) + 1
      <4>1. i \in 1 .. Len(channel)
        BY <3>2, <2>3
      <4> QED BY <4>1, <1>0, <2>3
    <3> QED BY <3>1, <3>2
  <2> QED BY <1>0, <1>1, <2>1, <2>2, <2>3, <2>4
<1>2. CASE ~ (backlog = <<>> /\ Len(channel) < EVENT_CHANNEL)
  <2>1. backlog' = Append(backlog, taken) /\ channel' = channel /\ taken' = taken + 1
    BY <1>2 DEF push
  <2>2. /\ backlog' \in Seq(Nat) /\ Len(backlog') = Len(backlog) + 1
        /\ backlog'[Len(backlog) + 1] = taken
        /\ \A i \in 1 .. Len(backlog) : backlog'[i] = backlog[i]
    BY <2>1, AppendFacts
  <2>3. ASSUME NEW i \in 1 .. Len(backlog')
        PROVE  backlog'[i] = received + Len(channel) + i - 1
    <3>1. CASE i = Len(backlog) + 1
      BY <3>1, <1>0, <2>2
    <3>2. CASE i # Len(backlog) + 1
      <4>1. i \in 1 .. Len(backlog)
        BY <3>2, <2>2
      <4> QED BY <4>1, <1>0, <2>2
    <3> QED BY <3>1, <3>2
  <2> QED BY <1>0, <2>1, <2>2, <2>3
<1> QED BY <1>1, <1>2

LEMMA DeliverKeepsOrder ==
    ASSUME QInv, DeliverEvent
    PROVE  QInv'
<1> USE ChannelsAssumption DEF QInv, QueueOK, InOrder
<1>1. /\ backlog # <<>> /\ Len(channel) < EVENT_CHANNEL
      /\ channel' = Append(channel, Head(backlog)) /\ backlog' = Tail(backlog)
      /\ taken' = taken /\ received' = received
      /\ server # "ended"
  BY DEF DeliverEvent, pass, waiting, has_backlog, application
<1>2. /\ Head(backlog) \in Nat /\ Head(backlog) = backlog[1]
      /\ backlog' \in Seq(Nat)
      /\ Len(backlog) >= 1 /\ Len(backlog') = Len(backlog) - 1
      /\ \A i \in 1 .. Len(backlog) - 1 : backlog'[i] = backlog[i + 1]
  BY <1>1, TailFacts
<1>3. /\ channel' \in Seq(Nat) /\ Len(channel') = Len(channel) + 1
      /\ channel'[Len(channel) + 1] = Head(backlog)
      /\ \A i \in 1 .. Len(channel) : channel'[i] = channel[i]
  BY <1>1, <1>2, AppendFacts
<1>4. Head(backlog) = received + Len(channel)
  BY <1>1, <1>2
<1>5. ASSUME NEW i \in 1 .. Len(channel') PROVE channel'[i] = received + i - 1
  <2>1. CASE i = Len(channel) + 1
    BY <2>1, <1>3, <1>4
  <2>2. CASE i # Len(channel) + 1
    <3>1. i \in 1 .. Len(channel)
      BY <2>2, <1>3
    <3> QED BY <3>1, <1>1, <1>3
  <2> QED BY <2>1, <2>2
<1>6. ASSUME NEW i \in 1 .. Len(backlog')
      PROVE  backlog'[i] = received + Len(channel') + i - 1
  <2>1. i \in 1 .. Len(backlog) - 1 /\ i + 1 \in 1 .. Len(backlog)
    BY <1>2
  <2> QED BY <2>1, <1>1, <1>2, <1>3
<1>7. Len(channel') + Len(backlog') = taken' - received'
  <2>1. Len(channel) + Len(backlog) = taken - received
    BY <1>1
  <2>2. Len(channel) \in Nat /\ Len(backlog) \in Nat
    OBVIOUS
  <2>3. Len(channel') = Len(channel) + 1 /\ Len(backlog') = Len(backlog) - 1
    BY <1>2, <1>3
  <2>4. taken' = taken /\ received' = received
    BY <1>1
  <2> HIDE DEF QInv, QueueOK, InOrder
  <2> QED BY <2>1, <2>2, <2>3, <2>4
<1>8. QueueOK'
  BY <1>1, <1>2, <1>3
<1>9. InOrder'
  BY <1>1, <1>5, <1>6, <1>7
<1> QED BY <1>8, <1>9

LEMMA ReceiveKeepsOrder ==
    ASSUME QInv, AppReceives
    PROVE  QInv'
<1> USE ChannelsAssumption DEF QInv, QueueOK, InOrder
<1>1. /\ channel # <<>> /\ channel' = Tail(channel) /\ backlog' = backlog
      /\ taken' = taken /\ received' = received + 1 /\ server' = server
  BY DEF AppReceives
<1>2. /\ channel' \in Seq(Nat)
      /\ Len(channel) >= 1 /\ Len(channel') = Len(channel) - 1
      /\ \A i \in 1 .. Len(channel) - 1 : channel'[i] = channel[i + 1]
  BY <1>1, TailFacts
<1>3. ASSUME server # "ended", NEW i \in 1 .. Len(channel')
      PROVE  channel'[i] = received' + i - 1
  <2>1. i \in 1 .. Len(channel) - 1 /\ i + 1 \in 1 .. Len(channel)
    BY <1>2
  <2> QED BY <2>1, <1>1, <1>2, <1>3
<1>4. ASSUME server # "ended", NEW i \in 1 .. Len(backlog)
      PROVE  backlog[i] = received' + Len(channel') + i - 1
  BY <1>1, <1>2, <1>4
<1> QED BY <1>1, <1>2, <1>3, <1>4

LEMMA InitQueue == Init => QInv
BY EmptyFacts, ChannelsAssumption DEF Init, QInv, QueueOK, InOrder

LEMMA NextQueue == QInv /\ [Next]_vars => QInv'
<1> SUFFICES ASSUME QInv, [Next]_vars PROVE QInv'
  OBVIOUS
<1>u. ASSUME UNCHANGED <<channel, backlog, taken, received>>,
             server' # "ended" => server # "ended"
      PROVE  QInv'
  BY <1>u DEF QInv, QueueOK, InOrder
<1>e. ASSUME End PROVE QInv'
  <2>1. /\ channel' = channel /\ backlog' = <<>> /\ taken' = taken
        /\ received' = received /\ server' = "ended"
    BY <1>e DEF End, application
  <2> QED BY <2>1, EmptyFacts, ChannelsAssumption DEF QInv, QueueOK, InOrder
<1>p. ASSUME pass PROVE server # "ended" /\ (server' # "ended" => server # "ended")
  BY <1>p DEF pass, waiting
<1>t. ASSUME pass, UNCHANGED events, UNCHANGED application PROVE QInv'
  BY <1>t, <1>p, <1>u DEF events, application
<1>0. CASE UNCHANGED vars
  BY <1>0, <1>u DEF vars
<1>1. CASE HandleRoutingIndication
  BY <1>1, PushKeepsOrder DEF HandleRoutingIndication, Reads, serve, application
<1>2. ASSUME NEW e \in Endpoints, AcceptConnect(e[1], e[2]) PROVE QInv'
  BY <1>2, <1>t DEF AcceptConnect, Reads, serve
<1>3. ASSUME NEW src \in Addr, FromClient(src) PROVE QInv'
  <2>1. CASE RefuseConnect(src)
    BY <2>1, <1>t DEF RefuseConnect, Reads, serve
  <2>2. ASSUME NEW id \in Channel, HandleHeartbeat(src, id) PROVE QInv'
    BY <2>2, <1>t DEF HandleHeartbeat, Reads, serve
  <2>3. ASSUME NEW id \in Channel, HandleDisconnect(src, id) PROVE QInv'
    BY <2>3, <1>t DEF HandleDisconnect, Reads, serve
  <2>4. ASSUME NEW id \in Channel, NEW seq \in Seqno, RefuseTunnelingRequest(src, id, seq)
        PROVE  QInv'
    BY <2>4, <1>t DEF RefuseTunnelingRequest, Reads, serve
  <2>5. ASSUME NEW id \in Channel, NEW seq \in Seqno, HandleTunnelingAck(src, id, seq)
        PROVE  QInv'
    BY <2>5, <1>t DEF HandleTunnelingAck, Reads, serve
  <2>6. ASSUME NEW id, NEW seq, NEW cemi, NEW parses,
               HandleTunnelingRequest(src, id, seq, cemi, parses)
        PROVE  QInv'
    <3>1. pass /\ has_room /\ UNCHANGED application
      BY <2>6 DEF HandleTunnelingRequest, Reads, serve
    <3>2. push(taken) \/ UNCHANGED events
      BY <2>6 DEF HandleTunnelingRequest
    <3> QED BY <3>1, <3>2, <1>t, PushKeepsOrder DEF application
  <2> QED BY <1>3, <2>1, <2>2, <2>3, <2>4, <2>5, <2>6 DEF FromClient
<1>4. CASE ServeCommand
  BY <1>4, <1>t DEF ServeCommand, serve
<1>5. CASE DeliverEvent
  BY <1>5, DeliverKeepsOrder
<1>6. CASE ExpireAcks
  BY <1>6, <1>t DEF ExpireAcks, serve
<1>7. CASE CleanupStaleTunnels
  BY <1>7, <1>t DEF CleanupStaleTunnels, serve
<1>8. CASE StopServer \/ SocketError
  BY <1>8, <1>e DEF StopServer, SocketError
<1>9. CASE Application
  <2>1. CASE AppReceives
    BY <2>1, ReceiveKeepsOrder
  <2>2. CASE AppDecidesToSend \/ AppSends
    BY <2>2, <1>u DEF AppDecidesToSend, AppSends, events
  <2>3. CASE AppStops
    BY <2>3, <1>u DEF AppStops, events, application
  <2> QED BY <1>9, <2>1, <2>2, <2>3 DEF Application
<1>10. CASE Tick
  BY <1>10, <1>u DEF Tick, events, application
<1> QED BY <1>0, <1>1, <1>2, <1>3, <1>4, <1>5, <1>6, <1>7, <1>8, <1>9, <1>10 DEF Next

LEMMA QueueInvariance == Spec => []QInv
BY InitQueue, NextQueue, PTL DEF Spec

(* The events the server took and the application has not received are in  *)
(* the two queues, in order and complete, while the server runs.           *)
THEOREM Ordered == Spec => []EventsInOrder
<1>1. QInv => EventsInOrder
  <2> SUFFICES ASSUME QInv, server # "ended"
               PROVE  channel \o backlog = [i \in 1 .. taken - received |-> received + i - 1]
    BY DEF EventsInOrder
  <2> DEFINE all == channel \o backlog
  <2>1. channel \in Seq(Nat) /\ backlog \in Seq(Nat)
    BY DEF QInv, QueueOK
  <2>2. /\ all \in Seq(Nat) /\ Len(all) = Len(channel) + Len(backlog)
        /\ \A i \in 1 .. Len(all) :
              all[i] = IF i <= Len(channel) THEN channel[i] ELSE backlog[i - Len(channel)]
    BY <2>1
  <2>3. Len(all) = taken - received
    BY <2>2 DEF QInv, InOrder
  <2>4. all = [i \in 1 .. Len(all) |-> all[i]]
    <3> HIDE DEF all
    <3> QED BY <2>2
  <2>5. \A i \in 1 .. Len(all) : all[i] = received + i - 1
    BY <2>1, <2>2 DEF QInv, QueueOK, InOrder
  <2> QED BY <2>3, <2>4, <2>5
<1> QED BY <1>1, QueueInvariance, PTL

-----------------------------------------------------------------------------
(* The channel id for a new tunnel: while fewer tunnels are open than there *)
(* are ids, one of the next MAX_CHANNEL ids in the round is free.           *)

LEMMA ModFacts ==
    ASSUME NEW x \in 0 .. MAX_CHANNEL - 1
    PROVE  x % MAX_CHANNEL = x /\ (x + MAX_CHANNEL) % MAX_CHANNEL = x
BY ChannelAssumption

LEMMA WrapsTo ==
    ASSUME NEW n \in Int, NEW x \in 0 .. MAX_CHANNEL - 1,
           n - 1 = x \/ n - 1 = x + MAX_CHANNEL
    PROVE  wrapped(n) = x + 1
<1>1. (n - 1) % MAX_CHANNEL = x
  BY ModFacts
<1> QED BY <1>1 DEF wrapped

LEMMA WrappedType == \A n \in Int : wrapped(n) \in Channel
BY ChannelAssumption DEF wrapped, Channel

LEMMA FreeChannel ==
    ASSUME NEW next \in Channel, NEW used \in SUBSET Channel,
           Cardinality(used) < MAX_CHANNEL
    PROVE  free_channel(next, used) \in Channel \ used
<1> DEFINE frees == {k \in 0 .. MAX_CHANNEL - 1 : wrapped(next + k) \notin used}
           first(k) == /\ wrapped(next + k) \notin used
                       /\ \A j \in 0 .. k - 1 : wrapped(next + j) \in used
<1> USE ChannelAssumption
<1>1. PICK c \in Channel : c \notin used
  <2>1. Cardinality(Channel) = MAX_CHANNEL
    BY FS_Interval DEF Channel
  <2> QED BY <2>1
<1>2. frees # {}
  <2>1. \E k \in 0 .. MAX_CHANNEL - 1 : next + k = c \/ next + k = c + MAX_CHANNEL
    <3>1. CASE c >= next
      <4>1. c - next \in 0 .. MAX_CHANNEL - 1 /\ next + (c - next) = c
        BY <3>1 DEF Channel
      <4> QED BY <4>1
    <3>2. CASE c < next
      <4>1. /\ c - next + MAX_CHANNEL \in 0 .. MAX_CHANNEL - 1
            /\ next + (c - next + MAX_CHANNEL) = c + MAX_CHANNEL
        BY <3>2 DEF Channel
      <4> QED BY <4>1
    <3> QED BY <3>1, <3>2 DEF Channel
  <2>2. PICK k \in 0 .. MAX_CHANNEL - 1 : next + k = c \/ next + k = c + MAX_CHANNEL
    BY <2>1
  <2>3. c - 1 \in 0 .. MAX_CHANNEL - 1 /\ next + k \in Int /\ (c - 1) + 1 = c
    BY DEF Channel
  <2>4. next + k - 1 = c - 1 \/ next + k - 1 = (c - 1) + MAX_CHANNEL
    BY <2>2 DEF Channel
  <2>5. wrapped(next + k) = c
    BY <2>3, <2>4, WrapsTo DEF Channel
  <2> QED BY <2>2, <2>5, <1>1
<1>3. PICK k \in frees : \A j \in frees : ~ (j < k)
  <2>1. frees \subseteq Nat
    OBVIOUS
  <2>2. \E x \in frees : \A y \in frees : ~ (<<y, x>> \in OpToRel(<, Nat))
    <3> HIDE DEF frees
    <3> QED BY <1>2, <2>1, NatLessThanWellFounded, WFMin
  <2> QED BY <2>1, <2>2 DEF OpToRel
<1>4. k \in 0 .. MAX_CHANNEL - 1 /\ first(k)
  BY <1>3
<1> DEFINE chosen == CHOOSE i \in 0 .. MAX_CHANNEL - 1 : first(i)
<1>5. chosen \in 0 .. MAX_CHANNEL - 1 /\ first(chosen)
  <2> HIDE DEF first
  <2> QED BY <1>4
<1>6. free_channel(next, used) = wrapped(next + chosen)
  BY DEF free_channel
<1>7. next + chosen \in Int
  BY <1>5 DEF Channel
<1> QED BY <1>5, <1>6, <1>7, WrappedType

-----------------------------------------------------------------------------
(* One tunnel.  A frame that waits has one before it on the wire.           *)

\* The bounds of the queue of one client.
Bounded(t) == Len(t.outbox) <= MAX_CLIENT_QUEUE /\ Len(t.in_flight) <= 1

Queueing == {t \in TunnelClient : Bounded(t)}

Sound == {t \in Queueing : t.in_flight = <<>> => t.outbox = <<>>}

LEMMA SeqnoFacts ==
    /\ 0 \in Seqno
    /\ \A n \in Seqno : wrapping_inc(n) \in Seqno
BY SeqAssumption DEF Seqno, wrapping_inc

LEMMA CemiFacts ==
    ASSUME NEW c \in Cemi
    PROVE  as_indication(c) \in Cemi /\ confirmation_of(c) \in Cemi
BY DEF Cemi, as_indication, confirmation_of

LEMMA NewSound ==
    ASSUME NEW id \in Channel, NEW ctrl \in Addr, NEW data \in Addr
    PROVE  new(id, ctrl, data) \in Sound /\ new(id, ctrl, data).channel_id = id
<1> DEFINE t == new(id, ctrl, data)
<1>1. t \in TunnelClient
  BY SeqnoFacts, EmptyFacts, TimeoutAssumption DEF new, TunnelClient
<1>2. t.outbox = <<>> /\ t.in_flight = <<>> /\ t.channel_id = id
  BY DEF new
<1> QED BY <1>1, <1>2, EmptyFacts, QueueAssumption DEF Sound, Queueing, Bounded

LEMMA EnqueueQueueing ==
    ASSUME NEW t \in Queueing, NEW c \in Cemi
    PROVE  /\ enqueue(t, c) \in Queueing
           /\ enqueue(t, c).channel_id = t.channel_id
<1> DEFINE rest == IF Len(t.outbox) >= MAX_CLIENT_QUEUE THEN Tail(t.outbox) ELSE t.outbox
           u == enqueue(t, c)
<1>1. t \in TunnelClient /\ Bounded(t) /\ t.outbox \in Seq(Cemi)
  BY DEF Queueing, TunnelClient
<1>2. rest \in Seq(Cemi) /\ Len(rest) + 1 <= MAX_CLIENT_QUEUE
  <2>1. CASE Len(t.outbox) >= MAX_CLIENT_QUEUE
    <3>1. t.outbox # <<>>
      BY <1>1, <2>1, QueueAssumption, EmptyFacts
    <3>2. Tail(t.outbox) \in Seq(Cemi) /\ Len(Tail(t.outbox)) = Len(t.outbox) - 1
      BY <1>1, <3>1, TailFacts
    <3>3. Len(t.outbox) = MAX_CLIENT_QUEUE
      BY <1>1, <2>1, QueueAssumption DEF Bounded
    <3> QED BY <2>1, <3>2, <3>3, QueueAssumption
  <2>2. CASE ~ (Len(t.outbox) >= MAX_CLIENT_QUEUE)
    BY <1>1, <2>2, QueueAssumption
  <2> QED BY <2>1, <2>2
<1>3. Append(rest, c) \in Seq(Cemi) /\ Len(Append(rest, c)) <= MAX_CLIENT_QUEUE
  <2> HIDE DEF rest
  <2> QED BY <1>2, AppendFacts
<1>4. u = [t EXCEPT !.outbox = Append(rest, c)]
  BY DEF enqueue
<1> HIDE DEF rest, u
<1>5. u \in TunnelClient
  BY <1>1, <1>3, <1>4 DEF TunnelClient
<1>6. /\ u.outbox = Append(rest, c) /\ u.in_flight = t.in_flight
      /\ u.channel_id = t.channel_id
  BY <1>1, <1>4 DEF TunnelClient
<1>7. u \in Queueing /\ u.channel_id = t.channel_id
  BY <1>1, <1>3, <1>5, <1>6 DEF Queueing, Bounded
<1> QED BY <1>7 DEF u

LEMMA PumpSound ==
    ASSUME NEW t \in Queueing
    PROVE  pump(t) \in Sound /\ pump(t).channel_id = t.channel_id
<1> DEFINE r == [sequence |-> t.send_seq, cemi |-> Head(t.outbox),
                 attempts |-> 1, deadline |-> REQUEST_TIMEOUT]
           u == pump(t)
<1>1. /\ t \in TunnelClient /\ Bounded(t)
      /\ t.outbox \in Seq(Cemi) /\ t.send_seq \in Seqno
  BY DEF Queueing, TunnelClient
<1>2. CASE t.in_flight # <<>> \/ t.outbox = <<>>
  BY <1>1, <1>2 DEF pump, Sound
<1>3. CASE ~ (t.in_flight # <<>> \/ t.outbox = <<>>)
  <2>1. /\ Head(t.outbox) \in Cemi /\ Tail(t.outbox) \in Seq(Cemi)
        /\ Len(Tail(t.outbox)) = Len(t.outbox) - 1
    BY <1>1, <1>3, TailFacts
  <2>2. r \in InFlight
    BY <1>1, <2>1, RetriesAssumption, TimeoutAssumption DEF InFlight
  <2>3. <<r>> \in Seq(InFlight) /\ Len(<<r>>) = 1 /\ <<r>> # <<>>
    BY <2>2, SingleFacts
  <2>4. u = [t EXCEPT !.in_flight = <<r>>, !.outbox = Tail(t.outbox)]
    BY <1>3 DEF pump
  <2> HIDE DEF r, u
  <2>5. u \in TunnelClient
    BY <1>1, <2>1, <2>3, <2>4 DEF TunnelClient
  <2>6. /\ u.in_flight = <<r>> /\ u.outbox = Tail(t.outbox)
        /\ u.channel_id = t.channel_id
    BY <1>1, <2>4 DEF TunnelClient
  <2>7. Bounded(u)
    BY <1>1, <2>1, <2>3, <2>6, QueueAssumption DEF Bounded
  <2>8. u \in Sound /\ u.channel_id = t.channel_id
    BY <2>3, <2>5, <2>6, <2>7 DEF Sound, Queueing
  <2> QED BY <2>8 DEF u
<1> QED BY <1>2, <1>3

LEMMA DeliverSound ==
    ASSUME NEW t \in Sound, NEW c \in Cemi
    PROVE  deliver(t, c) \in Sound /\ deliver(t, c).channel_id = t.channel_id
<1>1. t \in Queueing
  BY DEF Sound
<1>2. /\ enqueue(t, as_indication(c)) \in Queueing
      /\ enqueue(t, as_indication(c)).channel_id = t.channel_id
  BY <1>1, CemiFacts, EnqueueQueueing
<1> QED BY <1>2, PumpSound DEF deliver

LEMMA TakeSound ==
    ASSUME NEW t \in Sound, NEW seq, NEW c \in Cemi
    PROVE  take(t, seq, c) \in Sound /\ take(t, seq, c).channel_id = t.channel_id
<1> DEFINE u == [t EXCEPT !.recv_seq = wrapping_inc(@)]
<1>1. t \in TunnelClient /\ t \in Queueing /\ t.recv_seq \in Seqno
  BY DEF Sound, Queueing, TunnelClient
<1>2. u \in TunnelClient
  BY <1>1, SeqnoFacts DEF TunnelClient
<1>3. /\ u.outbox = t.outbox /\ u.in_flight = t.in_flight
      /\ u.channel_id = t.channel_id
  BY <1>1 DEF TunnelClient
<1>4. u \in Sound /\ u \in Queueing
  <2> HIDE DEF u
  <2> QED BY <1>2, <1>3 DEF Sound, Queueing, Bounded
<1>5. CASE ~ is_expected(t, seq)
  BY <1>5 DEF take
<1>6. CASE is_expected(t, seq) /\ c.code # "req"
  <2>1. take(t, seq, c) = u
    BY <1>6 DEF take
  <2> QED BY <2>1, <1>3, <1>4
<1>7. CASE is_expected(t, seq) /\ c.code = "req"
  <2>1. take(t, seq, c) = pump(enqueue(u, confirmation_of(c)))
    BY <1>7 DEF take
  <2> HIDE DEF u
  <2>2. /\ enqueue(u, confirmation_of(c)) \in Queueing
        /\ enqueue(u, confirmation_of(c)).channel_id = u.channel_id
    BY <1>4, CemiFacts, EnqueueQueueing
  <2> QED BY <2>1, <2>2, <1>3, PumpSound
<1> QED BY <1>5, <1>6, <1>7

LEMMA AcknowledgeSound ==
    ASSUME NEW t \in Sound, NEW seq \in Seqno
    PROVE  /\ acknowledge(t, seq) \in Sound
           /\ acknowledge(t, seq).channel_id = t.channel_id
<1> DEFINE u == [t EXCEPT !.in_flight = <<>>, !.send_seq = wrapping_inc(seq)]
<1>1. t \in TunnelClient /\ Bounded(t)
  BY DEF Sound, Queueing
<1>2. u \in TunnelClient
  BY <1>1, SeqnoFacts, EmptyFacts DEF TunnelClient
<1>3. u.outbox = t.outbox /\ u.in_flight = <<>> /\ u.channel_id = t.channel_id
  BY <1>1 DEF TunnelClient
<1>4. u \in Queueing
  <2> HIDE DEF u
  <2> QED BY <1>1, <1>2, <1>3, EmptyFacts DEF Queueing, Bounded
<1>5. CASE acknowledges(t, seq)
  <2>1. acknowledge(t, seq) = pump(u)
    BY <1>5 DEF acknowledge
  <2> HIDE DEF u
  <2> QED BY <2>1, <1>3, <1>4, PumpSound
<1>6. CASE ~ acknowledges(t, seq)
  BY <1>6 DEF acknowledge
<1> QED BY <1>5, <1>6

\* The request on the wire, with its counters changed.
LEMMA InFlightSound ==
    ASSUME NEW t \in Sound, t.in_flight # <<>>, NEW r \in InFlight
    PROVE  /\ [t EXCEPT !.in_flight = <<r>>] \in Sound
           /\ [t EXCEPT !.in_flight = <<r>>].channel_id = t.channel_id
<1> DEFINE u == [t EXCEPT !.in_flight = <<r>>]
<1>1. t \in TunnelClient /\ Bounded(t)
  BY DEF Sound, Queueing
<1>2. <<r>> \in Seq(InFlight) /\ Len(<<r>>) = 1 /\ <<r>> # <<>>
  BY SingleFacts
<1>3. u \in TunnelClient
  BY <1>1, <1>2 DEF TunnelClient
<1>4. u.outbox = t.outbox /\ u.in_flight = <<r>> /\ u.channel_id = t.channel_id
  BY <1>1 DEF TunnelClient
<1>5. Bounded(u)
  <2>1. Len(u.outbox) <= MAX_CLIENT_QUEUE
    BY <1>1, <1>4 DEF Bounded
  <2>2. Len(u.in_flight) <= 1
    BY <1>2, <1>4
  <2> HIDE DEF u
  <2> QED BY <2>1, <2>2 DEF Bounded
<1>6. u.in_flight # <<>>
  BY <1>2, <1>4
<1> HIDE DEF u
<1>7. u \in Sound /\ u.channel_id = t.channel_id
  BY <1>3, <1>4, <1>5, <1>6 DEF Sound, Queueing
<1> QED BY <1>7 DEF u

LEMMA FirstInFlight ==
    ASSUME NEW t \in Sound, t.in_flight # <<>>
    PROVE  t.in_flight[1] \in InFlight
<1>1. t.in_flight \in Seq(InFlight)
  BY DEF Sound, Queueing, TunnelClient
<1> QED BY <1>1, TailFacts

LEMMA RepeatSound ==
    ASSUME NEW t \in Sound, ~ lost(t)
    PROVE  repeat(t) \in Sound /\ repeat(t).channel_id = t.channel_id
<1>1. CASE ~ ack_overdue(t)
  BY <1>1 DEF repeat
<1>2. CASE ack_overdue(t)
  <2> DEFINE q == t.in_flight[1]
             r == [q EXCEPT !.attempts = @ + 1, !.deadline = REQUEST_TIMEOUT]
  <2>1. t.in_flight # <<>> /\ q \in InFlight /\ ~ (q.attempts >= MAX_RETRIES)
    BY <1>2, FirstInFlight DEF ack_overdue, lost
  <2>2. q.attempts + 1 \in 1 .. MAX_RETRIES /\ REQUEST_TIMEOUT \in 0 .. REQUEST_TIMEOUT
    BY <2>1, RetriesAssumption, TimeoutAssumption DEF InFlight
  <2>3. r \in InFlight
    <3> HIDE DEF q
    <3> QED BY <2>1, <2>2 DEF InFlight
  <2>4. repeat(t) = [t EXCEPT !.in_flight = <<r>>]
    <3>1. repeat(t) = transmit(t)
      BY <1>2 DEF repeat
    <3>2. transmit(t) = [t EXCEPT !.in_flight = <<r>>]
      BY DEF transmit
    <3> QED BY <3>1, <3>2
  <2> HIDE DEF r
  <2> QED BY <2>1, <2>3, <2>4, InFlightSound
<1> QED BY <1>1, <1>2

\* Only the age of the heartbeat changes.
LEMMA AgeSound ==
    ASSUME NEW t \in Sound, NEW age \in 0 .. TUNNEL_TIMEOUT
    PROVE  /\ [t EXCEPT !.heartbeat_age = age] \in Sound
           /\ [t EXCEPT !.heartbeat_age = age].channel_id = t.channel_id
           /\ [t EXCEPT !.heartbeat_age = age].in_flight = t.in_flight
<1> DEFINE u == [t EXCEPT !.heartbeat_age = age]
<1>1. t \in TunnelClient /\ Bounded(t)
  BY DEF Sound, Queueing
<1>2. u \in TunnelClient
  BY <1>1 DEF TunnelClient
<1>3. u.outbox = t.outbox /\ u.in_flight = t.in_flight /\ u.channel_id = t.channel_id
  BY <1>1 DEF TunnelClient
<1> HIDE DEF u
<1>4. u \in Sound
  BY <1>1, <1>2, <1>3 DEF Sound, Queueing, Bounded
<1> QED BY <1>3, <1>4 DEF u

LEMMA HeartbeatSound ==
    ASSUME NEW t \in Sound
    PROVE  heartbeat(t) \in Sound /\ heartbeat(t).channel_id = t.channel_id
BY AgeSound, TimeoutAssumption DEF heartbeat

LEMMA ElapseSound ==
    ASSUME NEW t \in Sound
    PROVE  elapse(t) \in Sound /\ elapse(t).channel_id = t.channel_id
<1> DEFINE age == IF t.heartbeat_age < TUNNEL_TIMEOUT THEN t.heartbeat_age + 1
                  ELSE t.heartbeat_age
           u == [t EXCEPT !.heartbeat_age = age]
           q == t.in_flight[1]
           r == [q EXCEPT !.deadline = @ - 1]
<1>1. t \in TunnelClient
  BY DEF Sound, Queueing
<1>2. age \in 0 .. TUNNEL_TIMEOUT
  BY <1>1, TimeoutAssumption DEF TunnelClient
<1>3. u \in Sound /\ u.channel_id = t.channel_id /\ u.in_flight = t.in_flight
  <2> HIDE DEF age
  <2> QED BY <1>2, AgeSound
<1>4. CASE t.in_flight # <<>> /\ q.deadline > 0
  <2>1. q \in InFlight
    BY <1>4, FirstInFlight
  <2>2. r \in InFlight
    <3>1. q.deadline - 1 \in 0 .. REQUEST_TIMEOUT
      BY <1>4, <2>1, TimeoutAssumption DEF InFlight
    <3> HIDE DEF q
    <3> QED BY <2>1, <3>1 DEF InFlight
  <2>3. elapse(t) = [u EXCEPT !.in_flight = <<r>>]
    BY <1>1, <1>4 DEF elapse, TunnelClient
  <2> HIDE DEF u, r
  <2> QED BY <1>3, <1>4, <2>2, <2>3, InFlightSound
<1>5. CASE ~ (t.in_flight # <<>> /\ q.deadline > 0)
  <2>1. elapse(t) = u
    BY <1>1, <1>5 DEF elapse, TunnelClient
  <2> QED BY <2>1, <1>3
<1> QED BY <1>4, <1>5

-----------------------------------------------------------------------------
(* The tunnels together.                                                    *)

Wellformed(T) ==
    /\ T \subseteq Sound
    /\ IsFiniteSet(T) /\ Cardinality(T) <= MAX_TUNNELS
    /\ \A t, u \in T : t.channel_id = u.channel_id => t = u

LEMMA Emptied == Wellformed({})
BY FS_EmptySet, TunnelsAssumption DEF Wellformed

LEMMA Fewer ==
    ASSUME NEW T, Wellformed(T), NEW U \in SUBSET T
    PROVE  Wellformed(U)
<1>1. IsFiniteSet(U) /\ Cardinality(U) <= Cardinality(T)
  BY FS_Subset DEF Wellformed
<1>2. Cardinality(U) \in Nat /\ Cardinality(T) \in Nat
  BY <1>1, FS_CardinalityType DEF Wellformed
<1> QED BY <1>1, <1>2, TunnelsAssumption DEF Wellformed

\* Each tunnel t becomes f[t], on the same channel.
LEMMA Changed ==
    ASSUME NEW T, Wellformed(T), NEW f,
           \A t \in T : f[t] \in Sound /\ f[t].channel_id = t.channel_id
    PROVE  Wellformed({f[t] : t \in T})
<1> DEFINE U == {f[t] : t \in T}
           g == [t \in T |-> f[t]]
<1>1. g \in Surjection(T, U)
  BY DEF Surjection
<1>2. IsFiniteSet(U) /\ Cardinality(U) <= Cardinality(T)
  <2> HIDE DEF U, g
  <2> QED BY <1>1, FS_Surjection DEF Wellformed
<1>3. Cardinality(U) \in Nat /\ Cardinality(T) \in Nat
  <2> HIDE DEF U
  <2> QED BY <1>2, FS_CardinalityType DEF Wellformed
<1>4. Cardinality(U) <= MAX_TUNNELS
  <2> HIDE DEF U
  <2> QED BY <1>2, <1>3, TunnelsAssumption DEF Wellformed
<1>5. \A x, y \in U : x.channel_id = y.channel_id => x = y
  BY DEF Wellformed
<1>6. U \subseteq Sound
  OBVIOUS
<1> QED BY <1>2, <1>4, <1>5, <1>6 DEF Wellformed

\* One tunnel t becomes u, on the same channel.
LEMMA Replaced ==
    ASSUME NEW T, Wellformed(T), NEW t \in T, NEW u \in Sound,
           u.channel_id = t.channel_id
    PROVE  Wellformed((T \ {t}) \cup {u})
<1> DEFINE f == [s \in T |-> IF s = t THEN u ELSE s]
<1>1. \A s \in T : f[s] \in Sound /\ f[s].channel_id = s.channel_id
  BY DEF Wellformed
<1>2. Wellformed({f[s] : s \in T})
  <2> HIDE DEF f
  <2> QED BY <1>1, Changed
<1>3. {f[s] : s \in T} = (T \ {t}) \cup {u}
  OBVIOUS
<1> QED BY <1>2, <1>3

LEMMA Opened ==
    ASSUME NEW T, Wellformed(T), Cardinality(T) < MAX_TUNNELS,
           NEW t \in Sound, t.channel_id \notin {s.channel_id : s \in T}
    PROVE  Wellformed(T \cup {t})
<1>1. t \notin T
  OBVIOUS
<1>2. IsFiniteSet(T \cup {t}) /\ Cardinality(T \cup {t}) = Cardinality(T) + 1
  BY <1>1, FS_AddElement DEF Wellformed
<1>3. Cardinality(T) \in Nat
  BY FS_CardinalityType DEF Wellformed
<1>4. Cardinality(T \cup {t}) <= MAX_TUNNELS
  BY <1>2, <1>3, TunnelsAssumption
<1> QED BY <1>2, <1>4 DEF Wellformed

\* With a tunnel to spare there is a channel id to spare.
LEMMA ChannelToSpare ==
    ASSUME NEW T, Wellformed(T), Cardinality(T) < MAX_TUNNELS, NEW next \in Channel
    PROVE  LET used == {t.channel_id : t \in T}
           IN  free_channel(next, used) \in Channel \ used
<1> DEFINE used == {t.channel_id : t \in T}
           g == [t \in T |-> t.channel_id]
<1>1. g \in Surjection(T, used)
  BY DEF Surjection
<1>2. IsFiniteSet(used) /\ Cardinality(used) <= Cardinality(T)
  <2> HIDE DEF used, g
  <2> QED BY <1>1, FS_Surjection DEF Wellformed
<1>3. Cardinality(used) \in Nat /\ Cardinality(T) \in Nat
  <2> HIDE DEF used
  <2> QED BY <1>2, FS_CardinalityType DEF Wellformed
<1>4. used \in SUBSET Channel
  BY DEF Wellformed, Sound, Queueing, TunnelClient
<1> HIDE DEF used
<1>5. Cardinality(used) < MAX_CHANNEL
  BY <1>2, <1>3, TunnelsAssumption, ChannelAssumption
<1>6. free_channel(next, used) \in Channel \ used
  BY <1>4, <1>5, FreeChannel
<1> QED BY <1>6 DEF used

-----------------------------------------------------------------------------
(* The inductive invariant of the tunnels and of the control state.         *)

ControlOK ==
    /\ next_channel_id \in Channel
    /\ cmds \in Seq(Command) /\ Len(cmds) <= CMD_CHANNEL
    /\ server \in {"running", "asked", "seen", "ended"}
    /\ app \in 0 .. Answers

TInv == Wellformed(tunnels) /\ ControlOK

LEMMA InitTunnels == Init => TInv
<1> SUFFICES ASSUME Init PROVE TInv
  OBVIOUS
<1>1. 1 \in Channel
  BY ChannelAssumption DEF Channel
<1>2. ControlOK
  BY <1>1, EmptyFacts, ChannelsAssumption DEF Init, ControlOK
<1> QED BY <1>2, Emptied DEF Init, TInv

\* The control state of a pass through the loop that leaves the rest alone.
LEMMA PassKeepsControl ==
    ASSUME ControlOK, pass, UNCHANGED <<next_channel_id, cmds, app>>
    PROVE  ControlOK'
BY DEF ControlOK, pass

LEMMA ConnectKeepsTunnels ==
    ASSUME TInv, NEW e \in Endpoints, AcceptConnect(e[1], e[2])
    PROVE  TInv'
<1> DEFINE id == free_channel(next_channel_id, in_use)
           t == new(id, e[1], e[2])
<1>1. /\ pass /\ Cardinality(tunnels) < MAX_TUNNELS
      /\ tunnels' = tunnels \cup {t}
      /\ next_channel_id' = wrapped(id + 1)
      /\ UNCHANGED <<cmds, app>>
  BY DEF AcceptConnect, Reads, serve, application
<1>2. id \in Channel /\ id \notin in_use
  BY <1>1, ChannelToSpare DEF TInv, ControlOK, in_use
<1>3. e[1] \in Addr /\ e[2] \in Addr
  BY EndpointsAssumption
<1> HIDE DEF id
<1>4. t \in Sound /\ t.channel_id = id
  BY <1>2, <1>3, NewSound
<1> HIDE DEF t
<1>5. Wellformed(tunnels')
  BY <1>1, <1>2, <1>4, Opened DEF TInv, in_use
<1>6. next_channel_id' \in Channel
  <2>1. id + 1 \in Int
    BY <1>2 DEF Channel
  <2> QED BY <1>1, <2>1, WrappedType
<1>7. ControlOK'
  BY <1>1, <1>6 DEF TInv, ControlOK, pass
<1> QED BY <1>5, <1>7 DEF TInv

LEMMA ClientKeepsTunnels ==
    ASSUME TInv, NEW src \in Addr, FromClient(src)
    PROVE  Wellformed(tunnels')
<1>1. CASE RefuseConnect(src)
  BY <1>1 DEF RefuseConnect, TInv
<1>2. ASSUME NEW id \in Channel, HandleHeartbeat(src, id) PROVE Wellformed(tunnels')
  <2>1. CASE UNCHANGED tunnels
    BY <2>1 DEF TInv
  <2>2. CASE ~ UNCHANGED tunnels
    <3>1. PICK t \in tunnels : tunnels' = (tunnels \ {t}) \cup {heartbeat(t)}
      BY <1>2, <2>2 DEF HandleHeartbeat, controlled
    <3>2. t \in Sound
      BY DEF TInv, Wellformed
    <3> QED BY <3>1, <3>2, HeartbeatSound, Replaced DEF TInv
  <2> QED BY <2>1, <2>2
<1>3. ASSUME NEW id \in Channel, HandleDisconnect(src, id) PROVE Wellformed(tunnels')
  <2>1. tunnels' \in SUBSET tunnels
    BY <1>3 DEF HandleDisconnect
  <2> QED BY <2>1, Fewer DEF TInv
<1>4. ASSUME NEW id \in Channel, NEW seq \in Seqno, RefuseTunnelingRequest(src, id, seq)
      PROVE  Wellformed(tunnels')
  BY <1>4 DEF RefuseTunnelingRequest, TInv
<1>5. ASSUME NEW id \in Channel, NEW seq \in Seqno, HandleTunnelingAck(src, id, seq)
      PROVE  Wellformed(tunnels')
  <2>1. PICK t \in tunnels : tunnels' = (tunnels \ {t}) \cup {acknowledge(t, seq)}
    BY <1>5 DEF HandleTunnelingAck, addressed
  <2>2. t \in Sound
    BY DEF TInv, Wellformed
  <2> QED BY <2>1, <2>2, AcknowledgeSound, Replaced DEF TInv
<1>6. ASSUME NEW id \in Channel, NEW seq \in Seqno, NEW cemi \in Cemi, NEW parses,
             HandleTunnelingRequest(src, id, seq, cemi, parses)
      PROVE  Wellformed(tunnels')
  <2> DEFINE other == [cemi EXCEPT !.code = "ind"]
  <2>1. other \in Cemi
    BY DEF Cemi
  <2>2. PICK t \in tunnels : \E c \in {cemi, other} :
            tunnels' = (tunnels \ {t}) \cup {take(t, seq, c)}
    BY <1>6 DEF HandleTunnelingRequest, addressed
  <2> HIDE DEF other
  <2>3. t \in Sound
    BY DEF TInv, Wellformed
  <2> QED BY <2>1, <2>2, <2>3, TakeSound, Replaced DEF TInv
<1>7. \A code \in {"req", "ind"}, content \in Content :
          [code |-> code, content |-> content] \in Cemi
  BY DEF Cemi
<1> QED BY <1>1, <1>2, <1>3, <1>4, <1>5, <1>6, <1>7 DEF FromClient

LEMMA CommandKeepsTunnels ==
    ASSUME TInv, ServeCommand
    PROVE  TInv'
<1>1. /\ pass /\ cmds # <<>> /\ cmds' = Tail(cmds)
      /\ UNCHANGED <<next_channel_id, app>>
  BY DEF ServeCommand, serve, application
<1>2. PICK content \in Content :
        tunnels' = {IF Head(cmds) \in {ToAll, t.channel_id}
                    THEN deliver(t, [code |-> "req", content |-> content])
                    ELSE t : t \in tunnels}
  BY DEF ServeCommand
<1> DEFINE cemi == [code |-> "req", content |-> content]
           f == [t \in tunnels |-> IF Head(cmds) \in {ToAll, t.channel_id}
                                   THEN deliver(t, cemi) ELSE t]
<1>3. cemi \in Cemi
  BY DEF Cemi
<1>4. tunnels' = {f[t] : t \in tunnels}
  BY <1>2
<1> HIDE DEF cemi
<1>5. \A t \in tunnels : f[t] \in Sound /\ f[t].channel_id = t.channel_id
  BY <1>3, DeliverSound DEF TInv, Wellformed
<1> HIDE DEF f
<1>6. Wellformed(tunnels')
  BY <1>4, <1>5, Changed DEF TInv
<1>7. ControlOK'
  <2>1. cmds' \in Seq(Command) /\ Len(cmds') = Len(cmds) - 1 /\ Len(cmds) \in Nat
    BY <1>1, TailFacts DEF TInv, ControlOK
  <2> QED BY <1>1, <2>1, ChannelsAssumption DEF TInv, ControlOK, pass
<1> QED BY <1>6, <1>7 DEF TInv

LEMMA ExpireKeepsTunnels ==
    ASSUME TInv, ExpireAcks
    PROVE  Wellformed(tunnels')
<1> DEFINE kept == {t \in tunnels : ~ lost(t)}
           f == [t \in kept |-> repeat(t)]
<1>1. tunnels' = {repeat(t) : t \in kept}
  BY DEF ExpireAcks
<1>2. Wellformed(kept)
  BY Fewer DEF TInv
<1>3. \A t \in kept : f[t] \in Sound /\ f[t].channel_id = t.channel_id
  BY RepeatSound DEF TInv, Wellformed
<1>4. tunnels' = {f[t] : t \in kept}
  BY <1>1
<1> HIDE DEF kept, f
<1> QED BY <1>2, <1>3, <1>4, Changed

LEMMA TickKeepsTunnels ==
    ASSUME TInv, Tick
    PROVE  Wellformed(tunnels')
<1> DEFINE f == [t \in tunnels |-> elapse(t)]
<1>1. \A t \in tunnels : f[t] \in Sound /\ f[t].channel_id = t.channel_id
  BY ElapseSound DEF TInv, Wellformed
<1>2. tunnels' = {f[t] : t \in tunnels}
  BY DEF Tick
<1> HIDE DEF f
<1> QED BY <1>1, <1>2, Changed DEF TInv

LEMMA ApplicationKeepsTunnels ==
    ASSUME TInv, Application
    PROVE  TInv'
<1>1. Wellformed(tunnels')
  BY DEF Application, AppReceives, AppDecidesToSend, AppSends, AppStops, TInv
<1>2. ControlOK'
  <2>1. CASE AppReceives \/ AppDecidesToSend
    BY <2>1, ChannelsAssumption
       DEF AppReceives, AppDecidesToSend, events, TInv, ControlOK
  <2>2. CASE AppStops
    BY <2>2 DEF AppStops, application, TInv, ControlOK
  <2>3. CASE AppSends
    <3>1. app' \in 0 .. Answers
      BY <2>3, ChannelsAssumption DEF AppSends, TInv, ControlOK
    <3>2. cmds' \in Seq(Command) /\ Len(cmds') <= CMD_CHANNEL
      <4>1. CASE UNCHANGED cmds
        BY <4>1 DEF TInv, ControlOK
      <4>2. CASE ~ UNCHANGED cmds
        <5>1. PICK cmd \in Command : cmds' = Append(cmds, cmd) /\ Len(cmds) < CMD_CHANNEL
          BY <2>3, <4>2 DEF AppSends
        <5>2. cmds' \in Seq(Command) /\ Len(cmds') = Len(cmds) + 1 /\ Len(cmds) \in Nat
          BY <5>1, AppendFacts DEF TInv, ControlOK
        <5> QED BY <5>1, <5>2, ChannelsAssumption
      <4> QED BY <4>1, <4>2
    <3> QED BY <2>3, <3>1, <3>2 DEF AppSends, TInv, ControlOK
  <2> QED BY <2>1, <2>2, <2>3 DEF Application
<1> QED BY <1>1, <1>2 DEF TInv

LEMMA NextTunnels == TInv /\ [Next]_vars => TInv'
<1> SUFFICES ASSUME TInv, [Next]_vars PROVE TInv'
  OBVIOUS
<1>p. ASSUME pass, UNCHANGED <<next_channel_id, cmds, app>>, Wellformed(tunnels')
      PROVE  TInv'
  BY <1>p, PassKeepsControl DEF TInv
<1>e. ASSUME End PROVE TInv'
  <2>1. tunnels' = {} /\ cmds' = <<>> /\ server' = "ended" /\ UNCHANGED <<next_channel_id, app>>
    BY <1>e DEF End, application
  <2> QED BY <2>1, Emptied, EmptyFacts, ChannelsAssumption DEF TInv, ControlOK
<1>0. CASE UNCHANGED vars
  BY <1>0 DEF vars, TInv, ControlOK
<1>1. CASE HandleRoutingIndication
  BY <1>1, <1>p DEF HandleRoutingIndication, Reads, serve, application, TInv
<1>2. ASSUME NEW e \in Endpoints, AcceptConnect(e[1], e[2]) PROVE TInv'
  BY <1>2, ConnectKeepsTunnels
<1>3. ASSUME NEW src \in Addr, FromClient(src) PROVE TInv'
  <2>1. Wellformed(tunnels')
    BY <1>3, ClientKeepsTunnels
  <2>2. pass /\ UNCHANGED <<next_channel_id, cmds, app>>
    BY <1>3, ZenonT(40) DEF FromClient, RefuseConnect, HandleHeartbeat, HandleDisconnect,
                RefuseTunnelingRequest, HandleTunnelingAck, HandleTunnelingRequest,
                Reads, serve, application
  <2> QED BY <2>1, <2>2, <1>p
<1>4. CASE ServeCommand
  BY <1>4, CommandKeepsTunnels
<1>5. CASE DeliverEvent
  BY <1>5, <1>p DEF DeliverEvent, application, TInv
<1>6. CASE ExpireAcks
  BY <1>6, <1>p, ExpireKeepsTunnels DEF ExpireAcks, serve, application
<1>7. CASE CleanupStaleTunnels
  <2>1. tunnels' \in SUBSET tunnels
    BY <1>7 DEF CleanupStaleTunnels
  <2> QED BY <1>7, <2>1, <1>p, Fewer DEF CleanupStaleTunnels, serve, application, TInv
<1>8. CASE StopServer \/ SocketError
  BY <1>8, <1>e DEF StopServer, SocketError
<1>9. CASE Application
  BY <1>9, ApplicationKeepsTunnels
<1>10. CASE Tick
  BY <1>10, TickKeepsTunnels DEF Tick, application, TInv, ControlOK
<1> QED BY <1>0, <1>1, <1>2, <1>3, <1>4, <1>5, <1>6, <1>7, <1>8, <1>9, <1>10 DEF Next

LEMMA TunnelsInvariance == Spec => []TInv
BY InitTunnels, NextTunnels, PTL DEF Spec

-----------------------------------------------------------------------------
(* The variables keep their types and the queues their limits, for every    *)
(* number of clients and every capacity.                                    *)
THEOREM TypeCorrect == Spec => []TypeOK
<1>1. QInv /\ TInv => TypeOK
  <2> SUFFICES ASSUME QInv, TInv PROVE TypeOK
    OBVIOUS
  <2>1. /\ tunnels \subseteq TunnelClient
        /\ \A t \in tunnels : Len(t.outbox) <= MAX_CLIENT_QUEUE /\ Len(t.in_flight) <= 1
    BY DEF TInv, Wellformed, Sound, Queueing, Bounded
  <2> QED BY <2>1 DEF TypeOK, QInv, QueueOK, TInv, ControlOK
<1> QED BY <1>1, QueueInvariance, TunnelsInvariance, PTL

(* A channel id names one tunnel and the limit on tunnels holds, through    *)
(* every wrap of the counter of channel ids (TUN-7).                        *)
THEOREM ChannelsStayDistinct == Spec => []ChannelsDistinct
<1>1. TInv => ChannelsDistinct
  BY DEF TInv, Wellformed, ChannelsDistinct
<1> QED BY <1>1, TunnelsInvariance, PTL

(* Every path that queues a frame for a client or takes an acknowledgement  *)
(* of it leaves a frame on the wire if one waits.                           *)
THEOREM QueuesMove == Spec => []NothingLeftWaiting
<1>1. TInv => NothingLeftWaiting
  BY DEF TInv, Wellformed, Sound, NothingLeftWaiting
<1> QED BY <1>1, TunnelsInvariance, PTL

-----------------------------------------------------------------------------
(***************************************************************************)
(* What a step may do to a tunnel: no client touches the tunnel of         *)
(* another, a frame leaves the wire only when it is acknowledged, and a    *)
(* tunnel ends only by what its own client did or left undone.  All three  *)
(* rest on TInv, which names a tunnel by its channel id.                   *)
(***************************************************************************)

\* What is on the wire of u is what is on the wire of t, if something is.
SameFrame(t, u) ==
    t.in_flight # <<>> /\ u.in_flight # <<>> =>
        /\ u.in_flight[1].sequence = t.in_flight[1].sequence
        /\ u.in_flight[1].cemi = t.in_flight[1].cemi
        /\ u.in_flight[1].attempts >= t.in_flight[1].attempts

-----------------------------------------------------------------------------
(* The operators on one tunnel.                                             *)

LEMMA FrameFacts ==
    ASSUME NEW t \in Sound
    PROVE  /\ SameFrame(t, t)
           /\ \A u : u.in_flight = t.in_flight => SameFrame(t, u)
<1>1. t.in_flight # <<>> => t.in_flight[1].attempts \in Nat
  BY FirstInFlight, RetriesAssumption DEF InFlight
<1> QED BY <1>1 DEF SameFrame

LEMMA PumpKeepsFrame ==
    ASSUME NEW t, t.in_flight # <<>>
    PROVE  pump(t) = t
BY DEF pump

LEMMA DeliverKeepsFrame ==
    ASSUME NEW t \in Sound, NEW c
    PROVE  SameFrame(t, deliver(t, c))
<1> DEFINE u == enqueue(t, as_indication(c))
<1>1. u.in_flight = t.in_flight
  BY DEF enqueue, Sound, Queueing, TunnelClient
<1>2. deliver(t, c) = pump(u)
  BY DEF deliver
<1> HIDE DEF u
<1>3. CASE t.in_flight # <<>>
  <2>1. deliver(t, c) = u
    BY <1>1, <1>2, <1>3, PumpKeepsFrame
  <2> QED BY <1>1, <2>1, FrameFacts
<1>4. CASE t.in_flight = <<>>
  BY <1>4 DEF SameFrame
<1> QED BY <1>3, <1>4

LEMMA TakeKeepsFrame ==
    ASSUME NEW t \in Sound, NEW seq, NEW c
    PROVE  SameFrame(t, take(t, seq, c))
<1> DEFINE u == [t EXCEPT !.recv_seq = wrapping_inc(@)]
           v == enqueue(u, confirmation_of(c))
<1>1. u.in_flight = t.in_flight /\ v.in_flight = t.in_flight
  BY DEF enqueue, Sound, Queueing, TunnelClient
<1>2. take(t, seq, c) \in {t, u, pump(v)}
  BY DEF take
<1> HIDE DEF u, v
<1>3. CASE t.in_flight # <<>>
  <2>1. pump(v) = v
    BY <1>1, <1>3, PumpKeepsFrame
  <2>2. take(t, seq, c).in_flight = t.in_flight
    BY <1>1, <1>2, <2>1
  <2> QED BY <2>2, FrameFacts
<1>4. CASE t.in_flight = <<>>
  BY <1>4 DEF SameFrame
<1> QED BY <1>3, <1>4

LEMMA RepeatKeepsFrame ==
    ASSUME NEW t \in Sound
    PROVE  SameFrame(t, repeat(t))
<1>1. CASE ack_overdue(t)
  <2> DEFINE q == t.in_flight[1]
             r == [q EXCEPT !.attempts = @ + 1, !.deadline = REQUEST_TIMEOUT]
  <2>1. t.in_flight # <<>> /\ q \in InFlight /\ t \in TunnelClient
    BY <1>1, FirstInFlight DEF ack_overdue, Sound, Queueing
  <2>2. /\ r.sequence = q.sequence /\ r.cemi = q.cemi /\ r.attempts = q.attempts + 1
        /\ q.attempts \in Nat
    BY <2>1, RetriesAssumption DEF InFlight
  <2>3. repeat(t).in_flight = <<r>>
    BY <1>1, <2>1 DEF repeat, transmit, TunnelClient
  <2> HIDE DEF r
  <2>4. repeat(t).in_flight[1] = r
    BY <2>3
  <2> QED BY <2>2, <2>4 DEF SameFrame
<1>2. CASE ~ ack_overdue(t)
  BY <1>2, FrameFacts DEF repeat
<1> QED BY <1>1, <1>2

LEMMA ElapseKeepsFrame ==
    ASSUME NEW t \in Sound
    PROVE  SameFrame(t, elapse(t))
<1>1. t \in TunnelClient
  BY DEF Sound, Queueing
<1>2. CASE t.in_flight # <<>> /\ t.in_flight[1].deadline > 0
  <2> DEFINE q == t.in_flight[1]
             r == [q EXCEPT !.deadline = @ - 1]
  <2>1. q \in InFlight
    BY <1>2, FirstInFlight
  <2>2. /\ r.sequence = q.sequence /\ r.cemi = q.cemi /\ r.attempts = q.attempts
        /\ q.attempts \in Nat
    BY <2>1, RetriesAssumption DEF InFlight
  <2>3. elapse(t).in_flight = <<r>>
    BY <1>1, <1>2 DEF elapse, TunnelClient
  <2> HIDE DEF r
  <2>4. elapse(t).in_flight[1] = r
    BY <2>3
  <2> QED BY <2>2, <2>4 DEF SameFrame
<1>3. CASE ~ (t.in_flight # <<>> /\ t.in_flight[1].deadline > 0)
  <2>1. elapse(t).in_flight = t.in_flight
    BY <1>1, <1>3 DEF elapse, TunnelClient
  <2> QED BY <2>1, FrameFacts
<1> QED BY <1>2, <1>3

LEMMA HeartbeatKeepsFrame ==
    ASSUME NEW t \in Sound
    PROVE  SameFrame(t, heartbeat(t))
<1>1. heartbeat(t).in_flight = t.in_flight
  BY DEF heartbeat, Sound, Queueing, TunnelClient
<1> QED BY <1>1, FrameFacts

LEMMA AcknowledgeKeepsFrame ==
    ASSUME NEW t \in Sound, NEW seq
    PROVE  \/ SameFrame(t, acknowledge(t, seq))
           \/ t.in_flight # <<>> /\ seq = t.in_flight[1].sequence
<1>1. CASE acknowledges(t, seq)
  BY <1>1 DEF acknowledges
<1>2. CASE ~ acknowledges(t, seq)
  <2>1. acknowledge(t, seq) = t
    BY <1>2 DEF acknowledge
  <2> QED BY <2>1, FrameFacts
<1> QED BY <1>1, <1>2

-----------------------------------------------------------------------------
(* The tunnels after a step.                                                *)

\* A step that replaces one tunnel.
LEMMA OneReplaced ==
    ASSUME TInv, NEW s \in tunnels, NEW v, v.channel_id = s.channel_id,
           tunnels' = (tunnels \ {s}) \cup {v},
           NEW t \in tunnels, NEW u \in tunnels', t.channel_id = u.channel_id
    PROVE  u = t \/ (t = s /\ u = v)
BY DEF TInv, Wellformed

\* What AcceptConnect opens has no channel id that was in use.
LEMMA OpenedIsNew ==
    ASSUME TInv, NEW e \in Endpoints, AcceptConnect(e[1], e[2]),
           NEW t \in tunnels, NEW u \in tunnels', t.channel_id = u.channel_id
    PROVE  u = t
<1> DEFINE id == free_channel(next_channel_id, in_use)
<1>1. /\ Cardinality(tunnels) < MAX_TUNNELS
      /\ tunnels' = tunnels \cup {new(id, e[1], e[2])}
  BY DEF AcceptConnect
<1>2. id \notin in_use
  BY <1>1, ChannelToSpare DEF TInv, ControlOK, in_use
<1> HIDE DEF id
<1>3. new(id, e[1], e[2]).channel_id = id
  BY DEF new
<1>4. u # new(id, e[1], e[2])
  BY <1>2, <1>3 DEF in_use
<1> QED BY <1>1, <1>4 DEF TInv, Wellformed

\* A datagram of a client is about one tunnel, and about its own.
LEMMA FromClientFacts ==
    ASSUME TInv, NEW src \in Addr, FromClient(src)
    PROVE  \/ tunnels' = tunnels
           \/ \E id \in Channel : \E s \in tunnels :
                 /\ s.channel_id = id /\ s.ctrl_addr = src
                 /\ tunnels' = {t \in tunnels : t.channel_id # id}
                 /\ Reply("DisconnectResponse", src, id, "E_NO_ERROR") \in sent'
           \/ \E s \in tunnels :
                 s.ctrl_addr = src /\ tunnels' = (tunnels \ {s}) \cup {heartbeat(s)}
           \/ \E seq \in Seqno : \E s \in tunnels :
                 /\ s.data_addr = src
                 /\ HandleTunnelingAck(src, s.channel_id, seq)
                 /\ tunnels' = (tunnels \ {s}) \cup {acknowledge(s, seq)}
           \/ \E seq \in Seqno, c \in Cemi : \E s \in tunnels :
                 s.data_addr = src /\ tunnels' = (tunnels \ {s}) \cup {take(s, seq, c)}
<1>1. CASE RefuseConnect(src)
  BY <1>1 DEF RefuseConnect
<1>2. ASSUME NEW id \in Channel, HandleHeartbeat(src, id)
      PROVE  \/ tunnels' = tunnels
             \/ \E s \in tunnels :
                   s.ctrl_addr = src /\ tunnels' = (tunnels \ {s}) \cup {heartbeat(s)}
  BY <1>2 DEF HandleHeartbeat, controlled
<1>3. ASSUME NEW id \in Channel, HandleDisconnect(src, id)
      PROVE  \/ tunnels' = tunnels
             \/ \E s \in tunnels :
                   /\ s.channel_id = id /\ s.ctrl_addr = src
                   /\ tunnels' = {t \in tunnels : t.channel_id # id}
                   /\ Reply("DisconnectResponse", src, id, "E_NO_ERROR") \in sent'
  BY <1>3 DEF HandleDisconnect, controlled
<1>4. ASSUME NEW id \in Channel, NEW seq \in Seqno, RefuseTunnelingRequest(src, id, seq)
      PROVE  tunnels' = tunnels
  BY <1>4 DEF RefuseTunnelingRequest
<1>5. ASSUME NEW id \in Channel, NEW seq \in Seqno, HandleTunnelingAck(src, id, seq)
      PROVE  \E s \in tunnels :
                /\ s.data_addr = src
                /\ HandleTunnelingAck(src, s.channel_id, seq)
                /\ tunnels' = (tunnels \ {s}) \cup {acknowledge(s, seq)}
  <2>1. PICK s \in tunnels : /\ s.channel_id = id /\ s.data_addr = src
                             /\ tunnels' = (tunnels \ {s}) \cup {acknowledge(s, seq)}
    BY <1>5 DEF HandleTunnelingAck, addressed
  <2> QED BY <1>5, <2>1
<1>6. ASSUME NEW id \in Channel, NEW seq \in Seqno, NEW cemi \in Cemi, NEW parses,
             HandleTunnelingRequest(src, id, seq, cemi, parses)
      PROVE  \E c \in Cemi : \E s \in tunnels :
                s.data_addr = src /\ tunnels' = (tunnels \ {s}) \cup {take(s, seq, c)}
  <2> DEFINE other == [cemi EXCEPT !.code = "ind"]
  <2>1. other \in Cemi
    BY DEF Cemi
  <2>2. PICK s \in tunnels : \E c \in {cemi, other} :
            s.data_addr = src /\ tunnels' = (tunnels \ {s}) \cup {take(s, seq, c)}
    BY <1>6 DEF HandleTunnelingRequest, addressed
  <2> HIDE DEF other
  <2> QED BY <2>1, <2>2
<1>7. \A code \in {"req", "ind"}, content \in Content :
          [code |-> code, content |-> content] \in Cemi
  BY DEF Cemi
<1>8. CASE \E id \in Channel : HandleHeartbeat(src, id)
  BY <1>2, <1>8
<1>9. CASE \E id \in Channel : HandleDisconnect(src, id)
  BY <1>3, <1>9
<1>10. CASE \E id \in Channel, seq \in Seqno :
                RefuseTunnelingRequest(src, id, seq) \/ HandleTunnelingAck(src, id, seq)
  BY <1>4, <1>5, <1>10
<1>11. CASE \E id \in Channel, seq \in Seqno, code \in {"req", "ind"}, content \in Content,
               parses \in BOOLEAN :
                HandleTunnelingRequest(src, id, seq,
                                       [code |-> code, content |-> content], parses)
  BY <1>6, <1>7, <1>11
<1> QED BY <1>1, <1>8, <1>9, <1>10, <1>11 DEF FromClient

-----------------------------------------------------------------------------
(* The three promises, for one step.                                        *)

LEMMA StepKeepsApart ==
    ASSUME TInv, NEW src \in Addr, FromClient(src),
           NEW t \in tunnels, src \notin {t.ctrl_addr, t.data_addr}
    PROVE  t \in tunnels'
<1>1. ASSUME NEW id \in Channel, NEW s \in tunnels,
             s.channel_id = id, s.ctrl_addr = src,
             tunnels' = {u \in tunnels : u.channel_id # id}
      PROVE  t \in tunnels'
  BY <1>1 DEF TInv, Wellformed
<1>2. ASSUME NEW s \in tunnels, s.ctrl_addr = src \/ s.data_addr = src, NEW v,
             tunnels' = (tunnels \ {s}) \cup {v}
      PROVE  t \in tunnels'
  BY <1>2
<1> QED BY <1>1, <1>2, FromClientFacts

LEMMA StepKeepsFrames ==
    ASSUME TInv, [Next]_vars,
           NEW t \in tunnels, NEW u \in tunnels', t.channel_id = u.channel_id
    PROVE  \/ SameFrame(t, u)
           \/ /\ t.in_flight # <<>>
              /\ HandleTunnelingAck(t.data_addr, t.channel_id, t.in_flight[1].sequence)
<1>0. /\ tunnels \subseteq Sound /\ t \in Sound
      /\ \A s \in tunnels : s.channel_id = u.channel_id => s = t
  BY DEF TInv, Wellformed
<1>1. ASSUME tunnels' \subseteq tunnels PROVE SameFrame(t, u)
  <2>1. u = t
    BY <1>0, <1>1
  <2> QED BY <1>0, <2>1, FrameFacts
<1>2. CASE \E e \in Endpoints : AcceptConnect(e[1], e[2])
  <2>1. u = t
    BY <1>2, OpenedIsNew
  <2> QED BY <1>0, <2>1, FrameFacts
<1>3. ASSUME NEW src \in Addr, FromClient(src)
      PROVE  \/ SameFrame(t, u)
             \/ /\ t.in_flight # <<>>
                /\ HandleTunnelingAck(t.data_addr, t.channel_id, t.in_flight[1].sequence)
  <2>1. CASE tunnels' \subseteq tunnels
    BY <1>1, <2>1
  <2>2. ASSUME NEW s \in tunnels, tunnels' = (tunnels \ {s}) \cup {heartbeat(s)}
        PROVE  SameFrame(t, u)
    <3>1. heartbeat(s).channel_id = s.channel_id
      BY <1>0, HeartbeatSound
    <3>2. u = t \/ (t = s /\ u = heartbeat(s))
      BY <2>2, <3>1, OneReplaced
    <3> QED BY <1>0, <3>2, FrameFacts, HeartbeatKeepsFrame
  <2>3. ASSUME NEW seq \in Seqno, NEW s \in tunnels, s.data_addr = src,
               HandleTunnelingAck(src, s.channel_id, seq),
               tunnels' = (tunnels \ {s}) \cup {acknowledge(s, seq)}
        PROVE  \/ SameFrame(t, u)
               \/ /\ t.in_flight # <<>>
                  /\ HandleTunnelingAck(t.data_addr, t.channel_id, t.in_flight[1].sequence)
    <3>1. acknowledge(s, seq).channel_id = s.channel_id
      BY <1>0, AcknowledgeSound
    <3>2. u = t \/ (t = s /\ u = acknowledge(s, seq))
      BY <2>3, <3>1, OneReplaced
    <3>3. CASE u = t
      BY <1>0, <3>3, FrameFacts
    <3>4. CASE t = s /\ u = acknowledge(s, seq)
      <4>1. \/ SameFrame(t, u)
            \/ t.in_flight # <<>> /\ seq = t.in_flight[1].sequence
        BY <1>0, <3>4, AcknowledgeKeepsFrame
      <4> QED BY <2>3, <3>4, <4>1
    <3> QED BY <3>2, <3>3, <3>4
  <2>4. ASSUME NEW seq \in Seqno, NEW c \in Cemi, NEW s \in tunnels,
               tunnels' = (tunnels \ {s}) \cup {take(s, seq, c)}
        PROVE  SameFrame(t, u)
    <3>1. take(s, seq, c).channel_id = s.channel_id
      BY <1>0, TakeSound
    <3>2. u = t \/ (t = s /\ u = take(s, seq, c))
      BY <2>4, <3>1, OneReplaced
    <3> QED BY <1>0, <3>2, FrameFacts, TakeKeepsFrame
  <2> QED BY <1>3, <2>1, <2>2, <2>3, <2>4, FromClientFacts
<1>4. CASE ServeCommand
  <2>1. PICK content \in Content :
          tunnels' = {IF Head(cmds) \in {ToAll, s.channel_id}
                      THEN deliver(s, [code |-> "req", content |-> content])
                      ELSE s : s \in tunnels}
    BY <1>4 DEF ServeCommand
  <2> DEFINE cemi == [code |-> "req", content |-> content]
  <2>2. PICK s \in tunnels : u = deliver(s, cemi) \/ u = s
    BY <2>1
  <2>3. cemi \in Cemi
    BY DEF Cemi
  <2> HIDE DEF cemi
  <2>4. s = t
    BY <1>0, <2>2, <2>3, DeliverSound
  <2> QED BY <1>0, <2>2, <2>4, DeliverKeepsFrame, FrameFacts
<1>5. CASE ExpireAcks
  <2>1. PICK s \in tunnels : ~ lost(s) /\ u = repeat(s)
    BY <1>5 DEF ExpireAcks
  <2>2. s = t
    BY <1>0, <2>1, RepeatSound
  <2> QED BY <1>0, <2>1, <2>2, RepeatKeepsFrame
<1>6. CASE Tick
  <2>1. PICK s \in tunnels : u = elapse(s)
    BY <1>6 DEF Tick
  <2>2. s = t
    BY <1>0, <2>1, ElapseSound
  <2> QED BY <1>0, <2>1, <2>2, ElapseKeepsFrame
<1>7. CASE \/ HandleRoutingIndication \/ DeliverEvent \/ CleanupStaleTunnels
           \/ StopServer \/ SocketError \/ Application \/ UNCHANGED vars
  <2>1. tunnels' \subseteq tunnels
    BY <1>7 DEF HandleRoutingIndication, DeliverEvent, CleanupStaleTunnels, StopServer,
                SocketError, End, Application, AppReceives, AppDecidesToSend, AppSends,
                AppStops, vars
  <2> QED BY <1>1, <2>1
<1> QED BY <1>2, <1>3, <1>4, <1>5, <1>6, <1>7 DEF Next

\* A lost tunnel has used up its transmissions, and not more than those.
LEMMA LostFacts ==
    ASSUME NEW t \in Sound, lost(t)
    PROVE  /\ t.in_flight # <<>>
           /\ t.in_flight[1].attempts = MAX_RETRIES
           /\ t.in_flight[1].deadline = 0
<1>1. t.in_flight # <<>> /\ t.in_flight[1] \in InFlight /\ t.in_flight[1].deadline = 0
  BY FirstInFlight DEF lost, ack_overdue
<1>2. t.in_flight[1].attempts >= MAX_RETRIES /\ t.in_flight[1].attempts \in 1 .. MAX_RETRIES
  BY <1>1 DEF lost, InFlight
<1> QED BY <1>1, <1>2, RetriesAssumption

\* Why a tunnel t may end in a step.
OwnFault(t) ==
    \/ Reply("DisconnectResponse", t.ctrl_addr, t.channel_id, "E_NO_ERROR") \in sent'
    \/ /\ DisconnectRequest(t) \in sent'
       /\ \/ server' = "ended"
          \/ /\ t.in_flight # <<>>
             /\ t.in_flight[1].attempts = MAX_RETRIES
             /\ t.in_flight[1].deadline = 0
    \/ t.heartbeat_age = TUNNEL_TIMEOUT

LEMMA StepEndsOwn ==
    ASSUME TInv, [Next]_vars, NEW t \in tunnels,
           t.channel_id \notin {u.channel_id : u \in tunnels'}
    PROVE  OwnFault(t)
<1>0. /\ tunnels \subseteq Sound /\ t \in Sound /\ t \in TunnelClient
      /\ \A s \in tunnels : s.channel_id = t.channel_id => s = t
      /\ t \notin tunnels'
  BY DEF TInv, Wellformed, Sound, Queueing
<1>1. ASSUME NEW src \in Addr, FromClient(src) PROVE OwnFault(t)
  <2>1. ASSUME NEW s \in tunnels, NEW v, v.channel_id = s.channel_id,
               tunnels' = (tunnels \ {s}) \cup {v}
        PROVE  FALSE
    BY <1>0, <2>1
  <2>2. ASSUME NEW id \in Channel, NEW s \in tunnels, s.channel_id = id, s.ctrl_addr = src,
               tunnels' = {u \in tunnels : u.channel_id # id},
               Reply("DisconnectResponse", src, id, "E_NO_ERROR") \in sent'
        PROVE  OwnFault(t)
    <3>1. t.channel_id = id /\ s = t
      BY <1>0, <2>2
    <3> QED BY <2>2, <3>1 DEF OwnFault
  <2>3. \A s \in tunnels : heartbeat(s).channel_id = s.channel_id
    BY <1>0, HeartbeatSound
  <2>4. \A s \in tunnels, seq \in Seqno : acknowledge(s, seq).channel_id = s.channel_id
    BY <1>0, AcknowledgeSound
  <2>5. \A s \in tunnels, seq \in Seqno, c \in Cemi :
            take(s, seq, c).channel_id = s.channel_id
    BY <1>0, TakeSound
  <2> QED BY <1>0, <1>1, <2>1, <2>2, <2>3, <2>4, <2>5, FromClientFacts
<1>2. CASE ServeCommand
  <2>1. PICK content \in Content :
          tunnels' = {IF Head(cmds) \in {ToAll, s.channel_id}
                      THEN deliver(s, [code |-> "req", content |-> content])
                      ELSE s : s \in tunnels}
    BY <1>2 DEF ServeCommand
  <2> DEFINE cemi == [code |-> "req", content |-> content]
  <2>2. cemi \in Cemi
    BY DEF Cemi
  <2>3. deliver(t, cemi).channel_id = t.channel_id
    BY <1>0, <2>2, DeliverSound
  <2>4. \E u \in tunnels' : u = t \/ u = deliver(t, cemi)
    BY <2>1
  <2> HIDE DEF cemi
  <2> QED BY <2>3, <2>4
<1>3. CASE ExpireAcks
  <2>1. CASE lost(t)
    <3>1. DisconnectRequest(t) \in sent'
      BY <1>3, <2>1 DEF ExpireAcks
    <3> QED BY <1>0, <2>1, <3>1, LostFacts DEF OwnFault
  <2>2. CASE ~ lost(t)
    <3>1. repeat(t) \in tunnels'
      BY <1>3, <2>2 DEF ExpireAcks
    <3>2. repeat(t).channel_id = t.channel_id
      BY <1>0, <2>2, RepeatSound
    <3> QED BY <3>1, <3>2
  <2> QED BY <2>1, <2>2
<1>4. CASE CleanupStaleTunnels
  <2>1. stale(t)
    BY <1>0, <1>4 DEF CleanupStaleTunnels
  <2>2. t.heartbeat_age = TUNNEL_TIMEOUT
    BY <1>0, <2>1, TimeoutAssumption DEF stale, TunnelClient
  <2> QED BY <2>2 DEF OwnFault
<1>5. CASE StopServer \/ SocketError
  <2>1. server' = "ended" /\ DisconnectRequest(t) \in sent'
    BY <1>5 DEF StopServer, SocketError, End
  <2> QED BY <2>1 DEF OwnFault
<1>6. CASE Tick
  <2>1. elapse(t) \in tunnels'
    BY <1>6 DEF Tick
  <2>2. elapse(t).channel_id = t.channel_id
    BY <1>0, ElapseSound
  <2> QED BY <2>1, <2>2
<1>7. CASE \/ HandleRoutingIndication \/ DeliverEvent \/ Application \/ UNCHANGED vars
           \/ \E e \in Endpoints : AcceptConnect(e[1], e[2])
  <2>1. t \in tunnels'
    BY <1>7 DEF HandleRoutingIndication, DeliverEvent, Application, AppReceives,
                AppDecidesToSend, AppSends, AppStops, AcceptConnect, vars
  <2> QED BY <1>0, <2>1
<1> QED BY <1>1, <1>2, <1>3, <1>4, <1>5, <1>6, <1>7 DEF Next

-----------------------------------------------------------------------------
(* A datagram changes no tunnel but one of its sender's, whatever channel   *)
(* id it carries (tunnel_server.rs looks a tunnel up by id and address).    *)
THEOREM OthersAreLeftAlone == Spec => ClientsKeepApart
<1>1. TInv /\ [Next]_vars =>
        \A src \in Addr :
          (\E t \in tunnels \ tunnels' : src \notin {t.ctrl_addr, t.data_addr})
            => ~ FromClient(src)
  <2> SUFFICES ASSUME TInv, NEW src \in Addr, FromClient(src),
                      NEW t \in tunnels \ tunnels', src \notin {t.ctrl_addr, t.data_addr}
               PROVE  FALSE
    OBVIOUS
  <2> QED BY StepKeepsApart
<1> QED BY <1>1, TunnelsInvariance, PTL DEF Spec, ClientsKeepApart

(* The frame on the wire to a client stays there, with its sequence number, *)
(* until it is acknowledged; a repetition is the same frame.                *)
THEOREM FramesStayOnTheWire == Spec => OneFrameOnTheWire
<1>1. TInv /\ [Next]_vars =>
        \A t \in tunnels, u \in tunnels' :
          (t.channel_id = u.channel_id /\ t.in_flight # <<>> /\ u.in_flight # <<>>) =>
            LET before == t.in_flight[1]
                after  == u.in_flight[1]
            IN  \/ /\ after.sequence = before.sequence /\ after.cemi = before.cemi
                   /\ after.attempts >= before.attempts
                \/ HandleTunnelingAck(t.data_addr, t.channel_id, before.sequence)
  BY StepKeepsFrames DEF SameFrame
<1> QED BY <1>1, TunnelsInvariance, PTL DEF Spec, OneFrameOnTheWire

(* A tunnel ends because its client disconnects, answers no repetition or   *)
(* sends no heartbeat, or because the server ends; not by what other        *)
(* clients or the application do.                                           *)
THEOREM TunnelsEndByTheirClient == Spec => OnlyOwnFaultEndsTunnel
<1>1. TInv /\ [Next]_vars =>
        \A t \in tunnels :
          t.channel_id \notin {u.channel_id : u \in tunnels'} =>
            \/ Reply("DisconnectResponse", t.ctrl_addr, t.channel_id, "E_NO_ERROR") \in sent'
            \/ /\ DisconnectRequest(t) \in sent'
               /\ \/ server' = "ended"
                  \/ /\ t.in_flight # <<>>
                     /\ t.in_flight[1].attempts = MAX_RETRIES
                     /\ t.in_flight[1].deadline = 0
            \/ t.heartbeat_age = TUNNEL_TIMEOUT
  BY StepEndsOwn DEF OwnFault
<1> QED BY <1>1, TunnelsInvariance, PTL DEF Spec, OnlyOwnFaultEndsTunnel

-----------------------------------------------------------------------------
(* Strings of octets.                                                       *)
\* n octets; and one string of octets behind another one.
Long(octets, n) == octets \in Seq(Octet) /\ n <= Len(octets) /\ Len(octets) <= n
Joined(octets, front, back) == octets = front \o back

LEMMA OctetFacts == \A n : n \in Octet <=> n \in Int /\ 0 <= n /\ n <= 255
BY DEF Octet

LEMMA WordFacts == \A n : n \in Word <=> n \in Int /\ 0 <= n /\ n <= 65535
BY DEF Word

LEMMA Join ==
    ASSUME NEW m \in Nat, NEW n \in Nat, NEW front, NEW back, NEW octets,
           Joined(octets, front, back), Long(front, m), Long(back, n)
    PROVE  /\ Long(octets, m + n)
           /\ \A i \in 1 .. m : octets[i] = front[i]
           /\ \A i \in 1 .. n : octets[m + i] = back[i]
BY DEF Long, Joined

LEMMA OctetAt ==
    ASSUME NEW n \in Nat, NEW octets, Long(octets, n), NEW i \in 1 .. n
    PROVE  octets[i] \in Octet
BY DEF Long

LEMMA Pair ==
    ASSUME NEW x \in Octet, NEW y \in Octet, NEW octets, octets = <<x, y>>
    PROVE  Long(octets, 2) /\ octets[1] = x /\ octets[2] = y
BY DEF Long

LEMMA EqualOctets ==
    ASSUME NEW n \in Nat, NEW s, NEW t, Long(s, n), Long(t, n), \A i \in 1 .. n : s[i] = t[i]
    PROVE  s = t
BY DEF Long

LEMMA FunctionIsLong ==
    ASSUME NEW n \in Nat, NEW f \in [1 .. n -> Octet]
    PROVE  Long(f, n)
BY DEF Long

LEMMA Slice ==
    ASSUME NEW octets \in Seq(Octet), NEW at \in Nat \ {0}, NEW count \in Nat,
           at + count <= Len(octets) + 1, NEW part, part = slice(octets, at, count)
    PROVE  /\ Long(part, count)
           /\ \A i \in 1 .. count : part[i] = octets[at + i - 1]
BY DEF Long, slice

LEMMA From ==
    ASSUME NEW octets \in Seq(Octet), NEW at \in Nat \ {0}, at <= Len(octets) + 1,
           NEW part, part = from(octets, at)
    PROVE  /\ part \in Seq(Octet) /\ Len(part) = Len(octets) - at + 1
           /\ \A i \in 1 .. Len(octets) - at + 1 : part[i] = octets[at + i - 1]
BY DEF from

\* n octets of a string, from one of its places on.
Part(part, octets, at, n) ==
    /\ Long(part, n) /\ part \in Seq(Octet) /\ Len(part) = n
    /\ \A i \in 1 .. n : part[i] = octets[at + i - 1]

LEMMA SliceIsPart ==
    ASSUME NEW octets \in Seq(Octet), NEW at \in Nat \ {0}, NEW count \in Nat,
           at + count <= Len(octets) + 1, NEW part, part = slice(octets, at, count)
    PROVE  Part(part, octets, at, count)
BY Slice DEF Part, Long

LEMMA FromIsPart ==
    ASSUME NEW octets \in Seq(Octet), NEW at \in Nat \ {0}, at <= Len(octets) + 1,
           NEW part, part = from(octets, at)
    PROVE  Part(part, octets, at, Len(octets) - at + 1)
<1>0. PICK k \in Nat : k = Len(octets)
    BY ONLY octets \in Seq(Octet)
<1>1. PICK n \in Nat : n = Len(octets) - at + 1
  <2>1. at <= k + 1
      BY <1>0
  <2>2. k - at + 1 \in Nat
      BY ONLY <2>1, at \in Nat \ {0}, k \in Nat
  <2> QED
      BY ONLY <1>0, <2>2
<1>2. /\ part \in Seq(Octet) /\ Len(part) = n
      /\ \A i \in 1 .. n : part[i] = octets[at + i - 1]
    BY <1>1, From
<1> QED
    BY ONLY <1>1, <1>2 DEF Part, Long

\* One string of m octets, and one of n behind it.
Joint(octets, front, m, back, n) ==
    /\ Long(octets, m + n)
    /\ \A i \in 1 .. m : octets[i] = front[i]
    /\ \A i \in 1 .. n : octets[m + i] = back[i]

LEMMA JoinedIsJoint ==
    ASSUME NEW m \in Nat, NEW n \in Nat, NEW front, NEW back, NEW octets,
           Joined(octets, front, back), Long(front, m), Long(back, n)
    PROVE  Joint(octets, front, m, back, n)
BY Join DEF Joint

LEMMA BigEndian ==
    ASSUME NEW n \in Word, NEW octets, octets = be(n, 2)
    PROVE  /\ Long(octets, 2) /\ octets[1] = n \div 256 /\ octets[2] = n % 256
           /\ octets[1] * 256 + octets[2] = n
<1>1. 256 ^ (2 - 1) = 256 /\ 256 ^ (2 - 2) = 1
    OBVIOUS
<1>2. be(n, 2)[1] = (n \div 256) % 256 /\ be(n, 2)[2] = (n \div 1) % 256
    BY <1>1 DEF be
<1>3. n \div 256 \in Octet /\ n % 256 \in Octet /\ n \div 1 = n
      /\ (n \div 256) % 256 = n \div 256 /\ (n \div 256) * 256 + (n % 256) = n
    BY OctetFacts, WordFacts
<1>4. \A i \in 1 .. 2 : be(n, 2)[i] \in Octet
    BY <1>2, <1>3
<1>5. be(n, 2) \in [1 .. 2 -> Octet]
    BY <1>4 DEF be
<1>6. Long(be(n, 2), 2)
    BY ONLY <1>5, FunctionIsLong, 2 \in Nat
<1> QED
    BY <1>2, <1>3, <1>6

-----------------------------------------------------------------------------
(* The endpoint in a datagram is read as it was written.                    *)
LEMMA Protocols ==
    /\ DOMAIN HostProtocol = {"Ipv4Udp", "Ipv4Tcp"}
    /\ HostProtocol["Ipv4Udp"] = 1 /\ HostProtocol["Ipv4Tcp"] = 2
BY DEF HostProtocol

LEMMA EndpointFacts ==
    ASSUME NEW hpai \in Endpoint
    PROVE  /\ hpai.protocol \in DOMAIN HostProtocol /\ hpai.ip \in Ipv4 /\ hpai.port \in Word
           /\ hpai = Hpai(hpai.protocol, hpai.ip, hpai.port)
           /\ HostProtocol[hpai.protocol] \in Octet
<1>1. hpai.protocol \in DOMAIN HostProtocol /\ hpai.ip \in Ipv4 /\ hpai.port \in Word
      /\ hpai = Hpai(hpai.protocol, hpai.ip, hpai.port)
    BY DEF Endpoint, Hpai
<1> QED
    BY <1>1, Protocols, OctetFacts

LEMMA Ipv4IsLong ==
    ASSUME NEW ip \in Ipv4
    PROVE  Long(ip, 4)
BY FunctionIsLong, 4 \in Nat DEF Ipv4

LEMMA HpaiOctets ==
    ASSUME NEW hpai \in Endpoint, NEW octets, octets = hpai_to_bytes(hpai)
    PROVE  /\ Long(octets, 8) /\ octets[1] = 8 /\ octets[2] = HostProtocol[hpai.protocol]
           /\ \A i \in 1 .. 4 : octets[2 + i] = hpai.ip[i]
           /\ octets[7] * 256 + octets[8] = hpai.port
<1>1. PICK head : head = <<HPAI_LEN, HostProtocol[hpai.protocol]>>
    OBVIOUS
<1>2. PICK tail : tail = be(hpai.port, 2)
    OBVIOUS
<1>3. PICK front : Joined(front, head, hpai.ip)
    BY DEF Joined
<1>4. Joined(octets, front, tail)
    BY <1>1, <1>2, <1>3 DEF Joined, hpai_to_bytes
<1>5. Long(head, 2) /\ head[1] = 8 /\ head[2] = HostProtocol[hpai.protocol]
    BY <1>1, Pair, EndpointFacts, OctetFacts DEF HPAI_LEN
<1>6. Long(tail, 2) /\ tail[1] * 256 + tail[2] = hpai.port
    BY <1>2, BigEndian, EndpointFacts
<1>7. Long(front, 6) /\ front[1] = head[1] /\ front[2] = head[2]
      /\ \A i \in 1 .. 4 : front[2 + i] = hpai.ip[i]
    BY <1>3, <1>5, Ipv4IsLong, EndpointFacts, Join
<1>8. Long(octets, 8) /\ (\A i \in 1 .. 6 : octets[i] = front[i])
      /\ octets[7] = tail[1] /\ octets[8] = tail[2]
    BY <1>4, <1>6, <1>7, Join
<1> QED
    BY <1>5, <1>6, <1>7, <1>8

(* Every endpoint is read back from the octets it is written in, whatever   *)
(* follows them (Hpai::to_bytes, parse).                                    *)
THEOREM HpaiReadBack ==
    ASSUME NEW hpai \in Endpoint, NEW octets \in Seq(Octet), Len(octets) >= 8,
           \A i \in 1 .. 8 : octets[i] = hpai_to_bytes(hpai)[i]
    PROVE  parse_hpai(octets) = Ok(hpai)
<1>0. PICK written_ : written_ = hpai_to_bytes(hpai)
    OBVIOUS
<1>1. octets[1] = 8 /\ octets[2] = HostProtocol[hpai.protocol]
      /\ (\A i \in 1 .. 4 : octets[2 + i] = hpai.ip[i])
      /\ octets[7] * 256 + octets[8] = hpai.port
    BY <1>0, HpaiOctets
<1> DEFINE protocols == {p \in DOMAIN HostProtocol : HostProtocol[p] = octets[2]}
<1>2. protocols = {hpai.protocol}
    BY <1>1, Protocols, EndpointFacts
<1>3. (CHOOSE p \in protocols : TRUE) = hpai.protocol
    BY <1>2
<1>4. PICK part : part = slice(octets, 3, 4)
    OBVIOUS
<1>5. part = hpai.ip
  <2>1. Long(part, 4) /\ \A i \in 1 .. 4 : part[i] = octets[3 + i - 1]
    <3>1. PICK at \in Nat \ {0}, n \in Nat : at = 3 /\ n = 4
        OBVIOUS
    <3>2. at + n <= Len(octets) + 1 /\ part = slice(octets, at, n)
        BY ONLY <1>4, <3>1, Len(octets) >= 8, octets \in Seq(Octet)
    <3>3. Part(part, octets, at, n)
        BY ONLY <3>2, at \in Nat \ {0}, n \in Nat, octets \in Seq(Octet), SliceIsPart
    <3> QED
        BY ONLY <3>1, <3>3 DEF Part
  <2>2. Long(hpai.ip, 4)
      BY Ipv4IsLong, EndpointFacts
  <2>3. \A i \in 1 .. 4 : part[i] = hpai.ip[i]
      BY <1>1, <2>1
  <2> QED
      BY ONLY <2>1, <2>2, <2>3, 4 \in Nat, EqualOctets
<1>6. u16(octets, 7) = hpai.port
    BY <1>1 DEF u16
<1> HIDE DEF protocols
<1>7. parse_hpai(octets) = Ok(Hpai(CHOOSE p \in protocols : TRUE, slice(octets, 3, 4),
                                   u16(octets, 7)))
    BY <1>1, <1>2 DEF parse_hpai, HPAI_LEN, protocols
<1> QED
    BY <1>3, <1>4, <1>5, <1>6, <1>7, EndpointFacts

-----------------------------------------------------------------------------
(* A KNXnet/IP frame: its header and body.                                  *)
LEMMA FrameOctets ==
    ASSUME NEW frame, NEW n \in Nat, Long(frame.body, n), n + 6 \in Word,
           ServiceType[frame.service_type] \in Word, NEW octets, octets = frame_to_bytes(frame).ok
    PROVE  /\ frame_to_bytes(frame) = Ok(octets)
           /\ Long(octets, n + 6) /\ octets[1] = 6 /\ octets[2] = 16
           /\ octets[3] = ServiceType[frame.service_type] \div 256
           /\ octets[4] = ServiceType[frame.service_type] % 256
           /\ octets[5] * 256 + octets[6] = n + 6
           /\ \A i \in 1 .. n : octets[6 + i] = frame.body[i]
<1>1. PICK service : service = ServiceType[frame.service_type]
    OBVIOUS
<1>2. PICK head : head = <<HEADER_LEN, PROTOCOL_VERSION_10>>
    OBVIOUS
<1>3. PICK code : code = be(service, 2)
    OBVIOUS
<1>4. PICK total : total = be(HEADER_LEN + Len(frame.body), 2)
    OBVIOUS
<1>5. PICK two : Joined(two, head, code)
    BY DEF Joined
<1>6. PICK four : Joined(four, two, total)
    BY DEF Joined
<1>7. HEADER_LEN + Len(frame.body) = n + 6
      /\ ~ (HEADER_LEN + Len(frame.body) > 65535)
    BY WordFacts DEF Long, HEADER_LEN
<1>8. frame_to_bytes(frame) = Ok(four \o frame.body)
    BY <1>1, <1>2, <1>3, <1>4, <1>5, <1>6, <1>7 DEF Joined, frame_to_bytes
<1>9. Joined(octets, four, frame.body)
    BY <1>8 DEF Joined, Ok
<1>10. Long(head, 2) /\ head[1] = 6 /\ head[2] = 16
    BY <1>2, Pair, OctetFacts DEF HEADER_LEN, PROTOCOL_VERSION_10
<1>11. Long(code, 2) /\ code[1] = service \div 256 /\ code[2] = service % 256
    BY <1>1, <1>3, BigEndian
<1>12. Long(total, 2) /\ total[1] * 256 + total[2] = n + 6
    BY <1>4, <1>7, BigEndian
<1>13. Long(two, 4) /\ two[1] = head[1] /\ two[2] = head[2]
       /\ two[3] = code[1] /\ two[4] = code[2]
    BY <1>5, <1>10, <1>11, Join
<1>14. Long(four, 6) /\ (\A i \in 1 .. 4 : four[i] = two[i])
       /\ four[5] = total[1] /\ four[6] = total[2]
    BY <1>6, <1>12, <1>13, Join
<1>15. Long(octets, n + 6) /\ (\A i \in 1 .. 6 : octets[i] = four[i])
       /\ \A i \in 1 .. n : octets[6 + i] = frame.body[i]
  <2>1. Long(octets, 6 + n) /\ (\A i \in 1 .. 6 : octets[i] = four[i])
        /\ \A i \in 1 .. n : octets[6 + i] = frame.body[i]
      BY ONLY <1>9, <1>14, Join, Long(frame.body, n), n \in Nat, 6 \in Nat
  <2>2. 6 + n = n + 6
      OBVIOUS
  <2> QED
      BY <2>1, <2>2
<1>16. frame_to_bytes(frame) = Ok(octets)
    BY <1>8, <1>9 DEF Joined
<1> QED
    BY <1>1, <1>10, <1>11, <1>12, <1>13, <1>14, <1>15, <1>16

LEMMA ParsedFrame ==
    ASSUME NEW octets \in Seq(Octet), IsOk(parse_frame(octets)),
           NEW frame, frame = parse_frame(octets).ok
    PROVE  /\ Len(octets) >= 6 /\ octets[1] = 6 /\ octets[2] = 16
           /\ Len(octets) = octets[5] * 256 + octets[6]
           /\ frame.service_type \in DOMAIN ServiceType
           /\ ServiceType[frame.service_type] = octets[3] * 256 + octets[4]
           /\ frame.body = from(octets, 7)
<1> DEFINE services == service_types(u16(octets, 3))
<1>1. Len(octets) >= 6 /\ octets[1] = 6 /\ octets[2] = 16
    BY DEF parse_frame, IsOk, Err, HEADER_LEN, PROTOCOL_VERSION_10
<1>2. Len(octets) = u16(octets, 5)
    BY <1>1 DEF parse_frame, IsOk, Err, HEADER_LEN, PROTOCOL_VERSION_10
<1>3. services # {}
    BY <1>1, <1>2 DEF parse_frame, IsOk, Err, HEADER_LEN, PROTOCOL_VERSION_10
<1>4. (CHOOSE s \in services : TRUE) \in services
    BY <1>3
<1>5. PICK service : service = (CHOOSE s \in services : TRUE)
    OBVIOUS
<1>6. service \in DOMAIN ServiceType /\ ServiceType[service] = u16(octets, 3)
    BY <1>4, <1>5 DEF service_types
<1> HIDE DEF services
<1>7. parse_frame(octets) = Ok(Frame(CHOOSE s \in services : TRUE, from(octets, 7)))
    BY <1>1, <1>2, <1>3 DEF parse_frame, HEADER_LEN, PROTOCOL_VERSION_10, services
<1>8. frame = Frame(service, from(octets, 7))
    BY <1>5, <1>7 DEF Ok
<1> QED
    BY <1>1, <1>2, <1>6, <1>8 DEF Frame, u16

LEMMA ServiceCodes ==
    /\ ServiceType["SearchRequest"] = 513 /\ ServiceType["SearchResponse"] = 514
    /\ ServiceType["DescriptionResponse"] = 516
    /\ ServiceType["SearchRequestExtended"] = 523
    /\ ServiceType["SearchResponseExtended"] = 524
BY DEF ServiceType

-----------------------------------------------------------------------------
(* The device information: what it says, and where.                         *)
LEMMA Media == \A m \in DOMAIN KnxMedium : KnxMedium[m] \in Octet
BY OctetFacts DEF KnxMedium

LEMMA Latin1 == \A n \in Nat : latin1(n) \in Octet /\ latin1(n) = IF n > 255 THEN 63 ELSE n
BY OctetFacts DEF latin1

LEMMA Zeroes ==
    ASSUME NEW n \in Nat, NEW octets, octets = zeroes(n)
    PROVE  Long(octets, n) /\ \A i \in 1 .. n : octets[i] = 0
<1>1. zeroes(n) \in [1 .. n -> Octet]
    BY OctetFacts DEF zeroes
<1>2. Long(octets, n)
    BY <1>1, FunctionIsLong
<1> QED
    BY <1>2 DEF zeroes

\* What fits of a name, and its octets.
Fitting(name) == SubSeq(name, 1, IF Len(name) < 30 THEN Len(name) ELSE 30)
NameOctets(kept) == [i \in DOMAIN kept |-> latin1(kept[i])]

LEMMA Clipped ==
    ASSUME NEW name \in Seq(Nat), NEW kept, kept = Fitting(name),
           NEW octets, octets = NameOctets(kept)
    PROVE  /\ Len(kept) \in Nat /\ Len(kept) <= 30 /\ Long(octets, Len(kept))
           /\ \A i \in Nat : i <= 30 => (i <= Len(name) <=> i <= Len(kept))
           /\ \A i \in 1 .. Len(kept) : octets[i] = latin1(name[i])
<1>0. octets = [i \in DOMAIN kept |-> latin1(kept[i])]
    BY DEF NameOctets
<1>1. /\ kept \in Seq(Nat) /\ Len(kept) <= 30
      /\ \A i \in Nat : i <= 30 => (i <= Len(name) <=> i <= Len(kept))
      /\ \A i \in 1 .. Len(kept) : kept[i] = name[i]
    BY DEF Fitting
<1>2. Len(kept) \in Nat /\ DOMAIN kept = 1 .. Len(kept)
    BY <1>1
<1>3. octets \in [1 .. Len(kept) -> Octet]
  <2>1. \A i \in 1 .. Len(kept) : kept[i] \in Nat
      BY <1>1
  <2>2. \A i \in 1 .. Len(kept) : latin1(kept[i]) \in Octet
      BY ONLY <2>1, Latin1
  <2> QED
      BY ONLY <1>0, <1>2, <2>2
<1>4. Long(octets, Len(kept))
    BY <1>2, <1>3, FunctionIsLong
<1> QED
    BY <1>0, <1>1, <1>2, <1>4

\* The characters of a name that are shown: k of them, at most 30.
Shows(octets, name, k) ==
    /\ k \in Nat /\ k <= 30 /\ Long(octets, k)
    /\ \A i \in Nat : i <= 30 => (i <= Len(name) <=> i <= k)
    /\ \A i \in 1 .. k : octets[i] = latin1(name[i])

LEMMA ClippedShows ==
    ASSUME NEW name \in Seq(Nat), NEW kept, kept = Fitting(name),
           NEW octets, octets = NameOctets(kept)
    PROVE  Shows(octets, name, Len(kept))
BY Clipped DEF Shows

LEMMA InfoCodes ==
    DEVICE_INFORMATION_LEN = 54 /\ DibType.DeviceInformation = 1 /\ 54 \in Octet
    /\ 1 \in Octet /\ 0 \in Octet
BY OctetFacts DEF DEVICE_INFORMATION_LEN, DibType

\* Octets that begin with the device information.
Tells(octets, programming, raw, mac, name) ==
    /\ octets[1] = 54 /\ octets[2] = 1 /\ octets[4] = IF programming THEN 1 ELSE 0
    /\ octets[5] * 256 + octets[6] = raw
    /\ \A i \in 1 .. 6 : octets[18 + i] = mac[i]
    /\ \A i \in Nat \ {0} : i <= 30 =>
           octets[24 + i] = IF i <= Len(name) THEN latin1(name[i]) ELSE 0

\* Told in part of other octets by the same ones, it is told alike.
LEMMA TellsAlike ==
    ASSUME NEW other, NEW programming, NEW raw, NEW mac, NEW name,
           Tells(other, programming, raw, mac, name), NEW octets,
           octets[1] = other[1], octets[2] = other[2], octets[4] = other[4],
           octets[5] = other[5], octets[6] = other[6],
           \A i \in 1 .. 6 : octets[18 + i] = other[18 + i],
           \A i \in Nat \ {0} : i <= 30 => octets[24 + i] = other[24 + i]
    PROVE  Tells(octets, programming, raw, mac, name)
<1>1. /\ other[1] = 54 /\ other[2] = 1 /\ other[4] = IF programming THEN 1 ELSE 0
      /\ other[5] * 256 + other[6] = raw
      /\ \A i \in 1 .. 6 : other[18 + i] = mac[i]
    BY Zenon DEF Tells
<1>2. \A i \in Nat \ {0} : i <= 30 =>
           other[24 + i] = IF i <= Len(name) THEN latin1(name[i]) ELSE 0
    BY Zenon DEF Tells
<1>3. /\ octets[1] = 54 /\ octets[2] = 1 /\ octets[4] = IF programming THEN 1 ELSE 0
      /\ octets[5] * 256 + octets[6] = raw
    BY <1>1, Zenon
<1>4. \A i \in 1 .. 6 : octets[18 + i] = mac[i]
    BY <1>1, Zenon
<1>5. \A i \in Nat \ {0} : i <= 30 =>
           octets[24 + i] = IF i <= Len(name) THEN latin1(name[i]) ELSE 0
    BY <1>2, Zenon
<1> QED
    BY ONLY <1>3, <1>4, <1>5, Zenon DEF Tells

LEMMA InfoOctets ==
    ASSUME NEW info, info.medium \in DOMAIN KnxMedium, info.programming_mode \in BOOLEAN,
           info.individual_address \in Word, info.project_installation_identifier \in Word,
           info.serial_number \in [1 .. 6 -> Octet], info.mac_address \in [1 .. 6 -> Octet],
           info.routing_multicast_address \in Ipv4, info.friendly_name \in Seq(Nat),
           NEW octets, octets = device_information_to_bytes(info)
    PROVE  Long(octets, 54) /\ Tells(octets, info.programming_mode, info.individual_address,
                                    info.mac_address, info.friendly_name)
<1>0. PICK name : name = info.friendly_name
    OBVIOUS
<1>1. PICK kept : kept = Fitting(name)
    OBVIOUS
<1>2. PICK shownName : shownName = NameOctets(kept)
    OBVIOUS
<1>3. PICK k : k = Len(kept)
    OBVIOUS
<1>4. PICK head : head = <<DEVICE_INFORMATION_LEN, DibType.DeviceInformation>>
    OBVIOUS
<1>5. PICK state : state = <<KnxMedium[info.medium], IF info.programming_mode THEN 1 ELSE 0>>
    OBVIOUS
<1>6. PICK ia : ia = be(info.individual_address, 2)
    OBVIOUS
<1>7. PICK project : project = be(info.project_installation_identifier, 2)
    OBVIOUS
<1>8. PICK pad : pad = zeroes(FRIENDLY_NAME_LEN - Len(kept))
    OBVIOUS
<1>9. PICK a : Joined(a, head, state)
    BY DEF Joined
<1>10. PICK b : Joined(b, a, ia)
    BY DEF Joined
<1>11. PICK c : Joined(c, b, project)
    BY DEF Joined
<1>12. PICK d : Joined(d, c, info.serial_number)
    BY DEF Joined
<1>13. PICK e : Joined(e, d, info.routing_multicast_address)
    BY DEF Joined
<1>14. PICK f : Joined(f, e, info.mac_address)
    BY DEF Joined
<1>15. PICK g : Joined(g, f, shownName)
    BY DEF Joined
<1>16. Joined(octets, g, pad)
    BY <1>0, <1>1, <1>2, <1>4, <1>5, <1>6, <1>7, <1>8, <1>9, <1>10, <1>11, <1>12, <1>13,
       <1>14, <1>15 DEF Joined, device_information_to_bytes, FRIENDLY_NAME_LEN,
                   Fitting, NameOctets
<1>17. Long(head, 2) /\ head[1] = 54 /\ head[2] = 1
    BY ONLY <1>4, Pair, InfoCodes
<1>18. Long(state, 2) /\ state[2] = IF info.programming_mode THEN 1 ELSE 0
  <2>1. KnxMedium[info.medium] \in Octet
      BY Media
  <2>2. (IF info.programming_mode THEN 1 ELSE 0) \in Octet
      BY ONLY InfoCodes
  <2> QED
      BY ONLY <1>5, <2>1, <2>2, Pair
<1>19. Long(ia, 2) /\ ia[1] * 256 + ia[2] = info.individual_address
    BY <1>6, BigEndian
<1>20. Long(project, 2)
    BY <1>7, BigEndian
<1>21. Long(info.serial_number, 6) /\ Long(info.mac_address, 6)
    BY FunctionIsLong, 6 \in Nat
<1>22. Long(info.routing_multicast_address, 4)
    BY Ipv4IsLong
<1>23. k \in Nat /\ k <= 30 /\ Long(shownName, k)
       /\ (\A i \in Nat : i <= 30 => (i <= Len(name) <=> i <= k))
       /\ \A i \in 1 .. k : shownName[i] = latin1(name[i])
  <2>1. name \in Seq(Nat)
      BY <1>0
  <2> QED
    <3>1. kept = Fitting(name) /\ shownName = NameOctets(kept) /\ k = Len(kept)
        BY ONLY <1>1, <1>2, <1>3
    <3>2. Shows(shownName, name, Len(kept))
        BY ONLY <2>1, <3>1, ClippedShows
    <3> QED
        BY ONLY <3>1, <3>2 DEF Shows
<1>24. 30 - k \in Nat /\ Long(pad, 30 - k) /\ \A i \in 1 .. 30 - k : pad[i] = 0
  <2>1. 30 - k \in Nat /\ pad = zeroes(30 - k)
      BY <1>3, <1>8, <1>23 DEF FRIENDLY_NAME_LEN
  <2> QED
      BY ONLY <2>1, Zeroes
<1>25. Long(a, 4) /\ a[1] = 54 /\ a[2] = 1 /\ a[4] = state[2]
    BY <1>9, <1>17, <1>18, Join
<1>26. Long(b, 6) /\ (\A i \in 1 .. 4 : b[i] = a[i]) /\ b[5] = ia[1] /\ b[6] = ia[2]
    BY <1>10, <1>19, <1>25, Join
<1>27. Long(c, 8) /\ \A i \in 1 .. 6 : c[i] = b[i]
    BY <1>11, <1>20, <1>26, Join
<1>28. Long(d, 14) /\ \A i \in 1 .. 8 : d[i] = c[i]
    BY <1>12, <1>21, <1>27, Join
<1>29. Long(e, 18) /\ \A i \in 1 .. 14 : e[i] = d[i]
    BY <1>13, <1>22, <1>28, Join
<1>30. Long(f, 24) /\ (\A i \in 1 .. 18 : f[i] = e[i])
       /\ \A i \in 1 .. 6 : f[18 + i] = info.mac_address[i]
  <2>1. PICK m \in Nat, n \in Nat : m = 18 /\ n = 6 /\ m + n = 24
      OBVIOUS
  <2>2. Joined(f, e, info.mac_address) /\ Long(e, m) /\ Long(info.mac_address, n)
      BY ONLY <1>14, <1>21, <1>29, <2>1
  <2>3. Joint(f, e, m, info.mac_address, n)
      BY ONLY <2>2, m \in Nat, n \in Nat, JoinedIsJoint
  <2> QED
      BY ONLY <2>1, <2>3 DEF Joint
<1>31. Long(g, 24 + k) /\ (\A i \in Nat \ {0} : i <= 24 => g[i] = f[i])
       /\ \A i \in 1 .. k : g[24 + i] = shownName[i]
  <2>1. k \in Nat /\ Long(shownName, k) /\ Long(f, 24)
      BY <1>23, <1>30
  <2> QED
      BY ONLY <1>15, <2>1, Join, 24 \in Nat
<1>32. /\ Long(octets, (24 + k) + (30 - k)) /\ \A i \in 1 .. 24 + k : octets[i] = g[i]
       /\ \A i \in 1 .. 30 - k : octets[24 + k + i] = pad[i]
  <2>1. 24 + k \in Nat /\ Long(g, 24 + k) /\ 30 - k \in Nat /\ Long(pad, 30 - k)
      BY ONLY <1>23, <1>24, <1>31
  <2> QED
      BY ONLY <1>16, <2>1, Join
<1>33. Long(octets, 54)
    BY <1>23, <1>32, (24 + k) + (30 - k) = 54
<1>34. \A i \in Nat \ {0} : i <= 24 => octets[i] = f[i]
    BY ONLY <1>23, <1>31, <1>32
<1>35. ASSUME NEW i \in Nat \ {0}, i <= 30
       PROVE  octets[24 + i] = IF i <= Len(name) THEN latin1(name[i]) ELSE 0
  <2>1. CASE i <= k
    <3>1. i \in 1 .. k /\ 24 + i \in 1 .. 24 + k /\ i <= Len(name)
        BY ONLY <2>1, <1>23, <1>35
    <3>2. octets[24 + i] = shownName[i] /\ shownName[i] = latin1(name[i])
        BY ONLY <3>1, <1>23, <1>31, <1>32
    <3> QED
        BY ONLY <3>1, <3>2
  <2>2. CASE i > k
    <3>1. i - k \in 1 .. 30 - k /\ 24 + k + (i - k) = 24 + i
        BY ONLY <2>2, <1>23, <1>35
    <3>2. octets[24 + k + (i - k)] = 0
        BY ONLY <3>1, <1>24, <1>32
    <3>3. ~ (i <= Len(name))
        BY ONLY <2>2, <1>23, <1>35
    <3> QED
        BY ONLY <3>1, <3>2, <3>3
  <2> QED
      BY ONLY <2>1, <2>2, <1>23, <1>35
<1>36. \A i \in 1 .. 8 : f[i] = c[i]
    BY ONLY <1>28, <1>29, <1>30
<1>37. octets[1] = 54 /\ octets[2] = 1 /\ octets[4] = state[2]
       /\ octets[5] = ia[1] /\ octets[6] = ia[2]
    BY <1>25, <1>26, <1>27, <1>34, <1>36
<1>38. \A i \in 1 .. 6 : octets[18 + i] = info.mac_address[i]
    BY ONLY <1>30, <1>34
<1>39. \A i \in Nat \ {0} : i <= 30 => octets[24 + i] =
           IF i <= Len(info.friendly_name) THEN latin1(info.friendly_name[i]) ELSE 0
    BY ONLY <1>0, <1>35
<1> QED
    BY ONLY <1>18, <1>19, <1>33, <1>37, <1>38, <1>39 DEF Tells

\* The octets behind the header of the supported service families.
FamilyOctets(kept) ==
    [i \in 1 .. 2 * Len(kept) |->
        LET entry == kept[(i + 1) \div 2]
        IN  IF i % 2 = 1 THEN ServiceFamily[entry[1]] ELSE entry[2]]

LEMMA FamilyCodes ==
    /\ ServiceFamily["Core"] = 2 /\ ServiceFamily["Tunneling"] = 4
    /\ ServiceFamily["Routing"] = 5 /\ DibType.SupportedServiceFamilies = 2
    /\ MAX_SERVICE_FAMILIES = 126 /\ STRUCTURE_HEADER_LEN = 2
BY DEF ServiceFamily, DibType, MAX_SERVICE_FAMILIES, STRUCTURE_HEADER_LEN

LEMMA FamilyOctetsFacts ==
    ASSUME NEW kept, NEW k \in {2, 3}, k = Len(kept), kept[1] = <<"Core", 1>>,
           kept[2] = <<"Tunneling", 1>>, k = 3 => kept[3] = <<"Routing", 1>>,
           NEW octets, octets = FamilyOctets(kept)
    PROVE  /\ Long(octets, 2 * k) /\ octets[1] = 2 /\ octets[2] = 1 /\ octets[3] = 4
           /\ octets[4] = 1 /\ (k = 3 => octets[5] = 5 /\ octets[6] = 1)
<1> DEFINE entry(i) == kept[(i + 1) \div 2]
           octet(i) == IF i % 2 = 1 THEN ServiceFamily[entry(i)[1]] ELSE entry(i)[2]
<1>1. octets = [i \in 1 .. 2 * k |-> octet(i)]
    BY DEF FamilyOctets
<1>2. octet(1) = 2 /\ octet(2) = 1
    BY FamilyCodes
<1>3. octet(3) = 4 /\ octet(4) = 1
    BY FamilyCodes
<1>4. k = 3 => octet(5) = 5 /\ octet(6) = 1
    BY FamilyCodes
<1> HIDE DEF octet
<1>5. \A i \in 1 .. 2 * k : octet(i) \in Octet
    BY <1>2, <1>3, <1>4, OctetFacts
<1>6. octets \in [1 .. 2 * k -> Octet] /\ 2 * k \in Nat
    BY <1>1, <1>5
<1>7. Long(octets, 2 * k)
    BY <1>6, FunctionIsLong
<1> QED
    BY <1>1, <1>2, <1>3, <1>4, <1>7

LEMMA FewOf ==
    ASSUME NEW S, NEW x \in S, NEW y \in S, NEW z \in S
    PROVE  /\ <<x, y>> \o <<z>> \in Seq(S) /\ Len(<<x, y>> \o <<z>>) = 3
           /\ (<<x, y>> \o <<z>>)[1] = x /\ (<<x, y>> \o <<z>>)[2] = y
           /\ (<<x, y>> \o <<z>>)[3] = z
           /\ <<x, y>> \o <<>> \in Seq(S) /\ Len(<<x, y>> \o <<>>) = 2
           /\ (<<x, y>> \o <<>>)[1] = x /\ (<<x, y>> \o <<>>)[2] = y
OBVIOUS

LEMMA SupportedOctets ==
    ASSUME NEW routing \in BOOLEAN, NEW n, n = IF routing THEN 8 ELSE 6,
           NEW octets, octets = supported_service_families_dib(families(routing))
    PROVE  /\ Long(octets, n) /\ octets[1] = n /\ octets[2] = 2 /\ octets[3] = 2
           /\ octets[4] = 1 /\ octets[5] = 4 /\ octets[6] = 1
           /\ (routing => octets[7] = 5 /\ octets[8] = 1)
<1>1. PICK fam : fam = families(routing)
    OBVIOUS
<1>2. PICK k : k = IF routing THEN 3 ELSE 2
    OBVIOUS
<1>3. k \in {2, 3} /\ n = 2 + 2 * k /\ (routing <=> k = 3)
    BY <1>2
<1> DEFINE core == <<"Core", 1>>
           tunneling == <<"Tunneling", 1>>
           router == <<"Routing", 1>>
<1>3a. fam = <<core, tunneling>> \o IF routing THEN <<router>> ELSE <<>>
    BY <1>1 DEF families
<1> HIDE DEF core, tunneling, router
<1>4. core \in {core, tunneling, router} /\ tunneling \in {core, tunneling, router}
      /\ router \in {core, tunneling, router}
    OBVIOUS
<1>5. /\ fam \in Seq({core, tunneling, router}) /\ Len(fam) = k /\ fam[1] = core /\ fam[2] = tunneling
      /\ k = 3 => fam[3] = router
  <2>1. CASE routing
      BY ONLY <1>2, <1>4, <1>3a, <2>1, FewOf
  <2>2. CASE ~ routing
      BY ONLY <1>2, <1>4, <1>3a, <2>2, FewOf
  <2> QED
      BY ONLY <2>1, <2>2
<1>6. PICK kept : kept = SubSeq(fam, 1, IF Len(fam) < MAX_SERVICE_FAMILIES
                                        THEN Len(fam) ELSE MAX_SERVICE_FAMILIES)
    OBVIOUS
<1>7. kept = fam
    BY ONLY <1>3, <1>5, <1>6, FamilyCodes
<1>8. PICK head : head = <<2 + 2 * k, 2>>
    OBVIOUS
<1>9. PICK body : body = FamilyOctets(kept)
    OBVIOUS
<1>10. Joined(octets, head, body)
    BY <1>1, <1>5, <1>6, <1>7, <1>8, <1>9, FamilyCodes
       DEF Joined, supported_service_families_dib, FamilyOctets
<1>11. 2 + 2 * k \in Octet /\ 2 \in Octet
    BY <1>3, OctetFacts
<1>12. Long(head, 2) /\ head[1] = n /\ head[2] = 2
    BY ONLY <1>3, <1>8, <1>11, Pair
<1>13. /\ Long(body, 2 * k) /\ body[1] = 2 /\ body[2] = 1 /\ body[3] = 4
       /\ body[4] = 1 /\ (k = 3 => body[5] = 5 /\ body[6] = 1)
    BY ONLY <1>3, <1>5, <1>7, <1>9, FamilyOctetsFacts DEF core, tunneling, router
<1>14. 2 * k \in Nat
    BY <1>3
<1>15. /\ Long(octets, 2 + 2 * k) /\ \A i \in 1 .. 2 : octets[i] = head[i]
       /\ \A i \in 1 .. 2 * k : octets[2 + i] = body[i]
    BY ONLY <1>10, <1>12, <1>13, <1>14, 2 \in Nat, Join
<1> QED
    BY ONLY <1>3, <1>12, <1>13, <1>15

-----------------------------------------------------------------------------
\* What a server says of itself is of this form, whatever it is told to say.
Says(octets, d, routing) ==
    /\ Long(octets, IF routing THEN 62 ELSE 60)
    /\ Tells(octets, d.programming_mode, d.individual_address, d.mac_address, d.name)
    /\ octets[55] = IF routing THEN 8 ELSE 6
    /\ octets[56] = 2 /\ octets[57] = 2 /\ octets[58] = 1 /\ octets[59] = 4 /\ octets[60] = 1
    /\ routing => octets[61] = 5 /\ octets[62] = 1

LEMMA DescriptionFacts ==
    ASSUME NEW d \in Description
    PROVE  /\ d.name \in Seq(Nat) /\ d.individual_address \in Word
           /\ d.programming_mode \in BOOLEAN /\ d.serial_number \in [1 .. 6 -> Octet]
           /\ d.mac_address \in [1 .. 6 -> Octet] /\ d.medium \in DOMAIN KnxMedium
           /\ d.project_installation_identifier \in Word
BY DEF Description

LEMMA MulticastIps == KNX_MULTICAST_ADDR \in Ipv4 /\ zeroes(4) \in Ipv4 /\ Unspecified \in Ipv4
<1>1. KNX_MULTICAST_ADDR \in [1 .. 4 -> Octet] /\ Unspecified \in [1 .. 4 -> Octet]
    BY OctetFacts DEF KNX_MULTICAST_ADDR, Unspecified
<1>2. zeroes(4) \in [1 .. 4 -> Octet]
    BY OctetFacts DEF zeroes
<1> QED
    BY <1>1, <1>2 DEF Ipv4

LEMMA DibsSay ==
    ASSUME NEW d \in Description, NEW routing \in BOOLEAN,
           NEW octets, octets = dibs(d, routing)
    PROVE  Says(octets, d, routing)
<1>1. PICK info : info = [
        medium |-> d.medium, programming_mode |-> d.programming_mode,
        individual_address |-> d.individual_address,
        project_installation_identifier |-> d.project_installation_identifier,
        serial_number |-> d.serial_number,
        routing_multicast_address |-> IF routing THEN KNX_MULTICAST_ADDR ELSE zeroes(4),
        mac_address |-> d.mac_address, friendly_name |-> d.name]
    OBVIOUS
<1>2. PICK front : front = device_information_to_bytes(info)
    OBVIOUS
<1>3. PICK back : back = supported_service_families_dib(families(routing))
    OBVIOUS
<1>4. PICK n : n = IF routing THEN 8 ELSE 6
    OBVIOUS
<1>5. Joined(octets, front, back)
    BY <1>1, <1>2, <1>3 DEF Joined, dibs
<1>6. /\ info.medium = d.medium /\ info.programming_mode = d.programming_mode
      /\ info.individual_address = d.individual_address
      /\ info.project_installation_identifier = d.project_installation_identifier
      /\ info.serial_number = d.serial_number /\ info.mac_address = d.mac_address
      /\ info.friendly_name = d.name
      /\ info.routing_multicast_address = IF routing THEN KNX_MULTICAST_ADDR ELSE zeroes(4)
    BY ONLY <1>1
<1>7. info.routing_multicast_address \in Ipv4
    BY ONLY <1>6, MulticastIps
<1>8. Long(front, 54) /\ Tells(front, d.programming_mode, d.individual_address,
                                d.mac_address, d.name)
  <2>1. /\ info.friendly_name \in Seq(Nat) /\ info.individual_address \in Word
        /\ info.programming_mode \in BOOLEAN /\ info.serial_number \in [1 .. 6 -> Octet]
        /\ info.mac_address \in [1 .. 6 -> Octet] /\ info.medium \in DOMAIN KnxMedium
        /\ info.project_installation_identifier \in Word
      BY ONLY <1>6, d \in Description, DescriptionFacts
  <2>2. Long(front, 54) /\ Tells(front, info.programming_mode, info.individual_address,
                                info.mac_address, info.friendly_name)
      BY ONLY <1>2, <1>7, <2>1, InfoOctets
  <2> QED
      BY ONLY <1>6, <2>2
<1>9. /\ Long(back, n) /\ back[1] = n /\ back[2] = 2 /\ back[3] = 2
      /\ back[4] = 1 /\ back[5] = 4 /\ back[6] = 1 /\ (routing => back[7] = 5 /\ back[8] = 1)
    BY ONLY <1>3, <1>4, routing \in BOOLEAN, SupportedOctets
<1>10. n \in {6, 8}
    BY <1>4
<1>11. n \in Nat /\ 54 \in Nat
    BY <1>10
<1>m. PICK m \in Nat : m = 54
    BY <1>11
<1>m1. Long(front, m) /\ Long(back, n)
    BY ONLY <1>8, <1>9, <1>m
<1>m2. /\ Long(octets, m + n) /\ \A i \in 1 .. m : octets[i] = front[i]
       /\ \A i \in 1 .. n : octets[m + i] = back[i]
  <2>1. Joint(octets, front, m, back, n)
      BY ONLY <1>5, <1>11, m \in Nat, <1>m1, JoinedIsJoint
  <2> QED
      BY ONLY <2>1 DEF Joint
<1>12. Long(octets, 54 + n) /\ \A i \in 1 .. n : octets[54 + i] = back[i]
    BY ONLY <1>m, <1>m2
<1>13. \A i \in Nat \ {0} : i <= 54 => octets[i] = front[i]
    BY ONLY <1>m, <1>m2
<1>14. Long(octets, IF routing THEN 62 ELSE 60)
    BY <1>4, <1>12
<1>15. Tells(octets, d.programming_mode, d.individual_address, d.mac_address, d.name)
  <2>1. octets[1] = front[1] /\ octets[2] = front[2] /\ octets[4] = front[4]
        /\ octets[5] = front[5] /\ octets[6] = front[6]
      BY ONLY <1>13
  <2>2. \A i \in 1 .. 6 : octets[18 + i] = front[18 + i]
      BY ONLY <1>13
  <2>3. \A i \in Nat \ {0} : i <= 30 => octets[24 + i] = front[24 + i]
      BY ONLY <1>13
  <2> QED
      BY ONLY <1>8, <2>1, <2>2, <2>3, TellsAlike, Zenon
<1>18. /\ octets[55] = back[1] /\ octets[56] = back[2] /\ octets[57] = back[3]
       /\ octets[58] = back[4] /\ octets[59] = back[5] /\ octets[60] = back[6]
       /\ (n = 8 => octets[61] = back[7] /\ octets[62] = back[8])
    BY ONLY <1>10, <1>12
<1> QED
    BY ONLY <1>4, <1>9, <1>14, <1>15, <1>18 DEF Says

-----------------------------------------------------------------------------
\* A sequence of structures is read from its end: what follows each position.
Entry(blocks, defect) == [found |-> blocks, defect |-> defect]
Nothing == Entry(<<>>, "")
Malformed(octets, at) == Entry(<<>>, dib_defect(octets, at))
Before(block, rest) == [rest EXCEPT !.found = <<block>> \o @]
Step(octets, at, f) ==
    IF at > Len(octets) THEN Nothing
    ELSE IF dib_defect(octets, at) # "" THEN Malformed(octets, at)
    ELSE Before(slice(octets, at, octets[at]), f[at + octets[at]])
Reading(octets, f) == f = [at \in 1 .. Len(octets) + 1 |-> Step(octets, at, f)]

LEMMA StructuresAreRead ==
    ASSUME NEW octets
    PROVE  structures(octets, dib_defect) = (CHOOSE f : Reading(octets, f))[1]
BY DEF structures, Reading, Step, Entry, Nothing, Malformed, Before

\* Nothing is wrong at a position, and from there to the end.
Good(octets, at) == dib_defect(octets, at) = ""
Clean(entry) == entry.defect = ""

LEMMA LeastNatural ==
    ASSUME NEW S, S \subseteq Nat, S # {}
    PROVE  \E m \in S : \A k \in S : m <= k
<1>1. PICK m \in S : \A k \in S : <<k, m>> \notin OpToRel(<, Nat)
    BY NatLessThanWellFounded, WFMin
<1>2. \A k \in S : ~ (k < m)
    BY <1>1 DEF OpToRel
<1> QED
    BY <1>2

LEMMA Member ==
    ASSUME NEW S, NEW s \in Seq(S), NEW i \in 1 .. Len(s)
    PROVE  s[i] \in S
OBVIOUS

LEMMA WellFormed ==
    ASSUME NEW octets \in Seq(Octet), NEW at \in 1 .. Len(octets), Good(octets, at)
    PROVE  /\ octets[at] \in Nat /\ octets[at] >= 2
           /\ at + octets[at] \in at + 1 .. Len(octets) + 1
<1>0. octets[at] \in Octet
    BY ONLY octets \in Seq(Octet), at \in 1 .. Len(octets), Member
<1>1. octets[at] \in Int /\ at \in Int /\ 1 <= at /\ at <= Len(octets) /\ Len(octets) \in Nat
    BY ONLY <1>0, octets \in Seq(Octet), at \in 1 .. Len(octets), OctetFacts
<1>2. Len(octets) - at + 1 >= 2
    BY DEF Good, dib_defect, STRUCTURE_HEADER_LEN
<1>3. octets[at] >= 2
    BY <1>1, <1>2 DEF Good, dib_defect, STRUCTURE_HEADER_LEN
<1>4. ~ (octets[at] > Len(octets) - at + 1)
    BY <1>1, <1>2, <1>3 DEF Good, dib_defect, STRUCTURE_HEADER_LEN
<1> QED
    BY ONLY <1>1, <1>3, <1>4

LEMMA StepLooksAhead ==
    ASSUME NEW octets \in Seq(Octet), NEW at \in 1 .. Len(octets) + 1, NEW f, NEW g,
           \A j \in at + 1 .. Len(octets) + 1 : f[j] = g[j]
    PROVE  Step(octets, at, f) = Step(octets, at, g)
<1>1. CASE at > Len(octets)
    BY <1>1 DEF Step
<1>2. CASE ~ Good(octets, at)
    BY <1>2, Zenon DEF Step, Good
<1>3. CASE ~ (at > Len(octets)) /\ Good(octets, at)
  <2>1. at + octets[at] \in at + 1 .. Len(octets) + 1
    <3>1. at \in 1 .. Len(octets)
      <4>1. ~ (at > Len(octets))
          BY ONLY <1>3, Zenon
      <4>2. Len(octets) \in Nat
          BY ONLY octets \in Seq(Octet)
      <4> QED
          BY ONLY <4>1, <4>2, at \in 1 .. Len(octets) + 1
    <3> QED
        BY ONLY <1>3, <3>1, octets \in Seq(Octet), WellFormed
  <2>2. f[at + octets[at]] = g[at + octets[at]]
      BY <2>1
  <2> QED
      BY <2>2 DEF Step
<1> QED
    BY <1>1, <1>2, <1>3

LEMMA ReadingExists ==
    ASSUME NEW octets \in Seq(Octet)
    PROVE  \E f : Reading(octets, f)
<1> DEFINE L == Len(octets)
           Partial(k, f) == f = [at \in k .. L + 1 |-> Step(octets, at, f)]
           open == {m \in 0 .. L : ~ \E f : Partial(L + 1 - m, f)}
<1>0. L \in Nat
    OBVIOUS
<1>1. open = {}
  <2>1. SUFFICES ASSUME open # {} PROVE FALSE
      OBVIOUS
  <2>2. open \subseteq Nat
      OBVIOUS
  <2>3. PICK m \in open : \A k \in open : m <= k
      BY <2>1, <2>2, LeastNatural
  <2>4. m \in 0 .. L
      BY <2>3
  <2>5. CASE m = 0
    <3>1. PICK f : f = [at \in L + 1 .. L + 1 |-> Nothing]
        OBVIOUS
    <3>3. \A at \in L + 1 .. L + 1 : Step(octets, at, f) = Nothing
      <4>1. \A at \in L + 1 .. L + 1 : at > Len(octets)
          BY ONLY <1>0
      <4> QED
          BY ONLY <4>1 DEF Step
    <3> HIDE DEF L
    <3>4. f = [at \in L + 1 .. L + 1 |-> Step(octets, at, f)] /\ L + 1 - m = L + 1
        BY ONLY <1>0, <2>5, <3>1, <3>3
    <3>2. Partial(L + 1 - m, f)
        BY <3>4
    <3> QED
        BY <2>3, <3>2
  <2>6. CASE m # 0
    <3>0. m - 1 \in 0 .. L /\ ~ (m <= m - 1)
        BY <1>0, <2>4, <2>6
    <3>1. m - 1 \notin open
      <4> HIDE DEF open
      <4> QED
          BY ONLY <2>3, <3>0
    <3>2. PICK f : Partial(L + 1 - (m - 1), f)
        BY <3>0, <3>1
    <3>3. PICK k : k = L + 1 - m
        OBVIOUS
    <3>4. k \in 1 .. L /\ L + 1 - (m - 1) = k + 1
        BY <1>0, <2>4, <2>6, <3>3
    <3> HIDE DEF L
    <3>5. f = [at \in k + 1 .. L + 1 |-> Step(octets, at, f)]
        BY <3>2, <3>4
    <3>6. PICK g : g = [at \in k .. L + 1 |-> IF at = k THEN Step(octets, k, f) ELSE f[at]]
        OBVIOUS
    <3>7. \A j \in k + 1 .. L + 1 : g[j] = f[j] /\ f[j] = Step(octets, j, f)
      <4>1. \A j \in k + 1 .. L + 1 : j \in k .. L + 1 /\ j # k
          BY ONLY <1>0, <3>4
      <4> QED
          BY ONLY <4>1, <3>5, <3>6
    <3>8. ASSUME NEW at \in k .. L + 1
          PROVE  g[at] = Step(octets, at, g)
      <4>1. \A j \in at + 1 .. L + 1 : f[j] = g[j]
          BY <1>0, <3>4, <3>7
      <4>2. at \in 1 .. L + 1
          BY <1>0, <3>4
      <4>3. Step(octets, at, f) = Step(octets, at, g)
          BY <4>1, <4>2, StepLooksAhead DEF L
      <4>4. CASE at = k
          BY <3>6, <4>3, <4>4
      <4>5. CASE at # k
        <5>1. at \in k + 1 .. L + 1
            BY <1>0, <3>4, <4>5
        <5> QED
            BY <3>7, <4>3, <5>1
      <4> QED
          BY <4>4, <4>5
    <3>9. g = [at \in k .. L + 1 |-> Step(octets, at, g)]
      <4>1. DOMAIN g = k .. L + 1 /\ g = [at \in DOMAIN g |-> g[at]]
          BY <3>6
      <4> QED
          BY ONLY <4>1, <3>8
    <3>10. Partial(L + 1 - m, g)
        BY <3>3, <3>9
    <3> QED
        BY <2>3, <3>10
  <2> QED
      BY <2>5, <2>6
<1>2. PICK f : Partial(L + 1 - L, f)
    BY <1>0, <1>1
<1>3. L + 1 - L = 1
    BY <1>0
<1> QED
    BY <1>2, <1>3 DEF Reading

Blocks == Seq(Seq(Octet))
IsEntry(entry) == \E blocks \in Blocks : \E defect : entry = Entry(blocks, defect)

LEMMA BeforeEntry ==
    ASSUME NEW block, NEW blocks, NEW defect
    PROVE  Before(block, Entry(blocks, defect)) = Entry(<<block>> \o blocks, defect)
<1>1. PICK more : more = <<block>> \o blocks
    OBVIOUS
<1>2. Entry(blocks, defect).found = blocks
    BY DEF Entry
<1>3. Before(block, Entry(blocks, defect)) = [Entry(blocks, defect) EXCEPT !.found = more]
    BY ONLY <1>1, <1>2 DEF Before
<1>4. [Entry(blocks, defect) EXCEPT !.found = more] = Entry(more, defect)
    BY ONLY TRUE DEF Entry
<1> QED
    BY ONLY <1>1, <1>3, <1>4

LEMMA Prepended ==
    ASSUME NEW S, NEW x \in S, NEW s \in Seq(S)
    PROVE  /\ <<x>> \o s \in Seq(S) /\ Len(<<x>> \o s) = Len(s) + 1 /\ (<<x>> \o s)[1] = x
           /\ \A i \in 1 .. Len(s) : (<<x>> \o s)[i + 1] = s[i]
OBVIOUS

LEMMA BlockType ==
    ASSUME NEW octets \in Seq(Octet), NEW at \in Nat \ {0}, NEW count \in Nat,
           at + count <= Len(octets) + 1
    PROVE  slice(octets, at, count) \in Seq(Octet)
BY Slice DEF Long

IsReading(octets, f) ==
    \A at \in 1 .. Len(octets) + 1 : f[at] = Step(octets, at, f) /\ IsEntry(f[at])

LEMMA ReadingFacts ==
    ASSUME NEW octets \in Seq(Octet)
    PROVE  \E f : structures(octets, dib_defect) = f[1] /\ IsReading(octets, f)
<1> DEFINE L == Len(octets)
           wrong(f) == {m \in 0 .. L : ~ IsEntry(f[L + 1 - m])}
<1>1. PICK f : f = (CHOOSE g : Reading(octets, g))
    OBVIOUS
<1>2. Reading(octets, f)
    BY <1>1, ReadingExists
<1>3. structures(octets, dib_defect) = f[1]
    BY <1>1, StructuresAreRead
<1>4. \A at \in 1 .. L + 1 : f[at] = Step(octets, at, f)
    BY <1>2 DEF Reading
<1>5. L \in Nat
    OBVIOUS
<1>6. wrong(f) = {}
  <2>1. SUFFICES ASSUME wrong(f) # {} PROVE FALSE
      OBVIOUS
  <2>2. wrong(f) \subseteq Nat
      OBVIOUS
  <2>3. PICK m \in wrong(f) : \A k \in wrong(f) : m <= k
      BY ONLY <2>1, <2>2, LeastNatural
  <2>4. m \in 0 .. L /\ ~ IsEntry(f[L + 1 - m])
      BY <2>3
  <2>5. PICK at : at = L + 1 - m
      OBVIOUS
  <2>6. at \in 1 .. L + 1
      BY ONLY <1>5, <2>4, <2>5
  <2>7. ASSUME NEW later \in at + 1 .. L + 1
        PROVE  IsEntry(f[later])
    <3>1. L + 1 - later \in 0 .. L /\ ~ (m <= L + 1 - later) /\ L + 1 - (L + 1 - later) = later
        BY ONLY <1>5, <2>4, <2>5, <2>6, later \in at + 1 .. L + 1
    <3>2. L + 1 - later \notin wrong(f)
        BY ONLY <2>3, <3>1
    <3> QED
        BY ONLY <3>1, <3>2
  <2>8. f[at] = Step(octets, at, f)
      BY ONLY <1>4, <2>6
  <2>9. <<>> \in Blocks /\ ~ IsEntry(f[at])
      BY <2>4, <2>5 DEF Blocks
  <2>10. CASE at > Len(octets)
      BY ONLY <2>8, <2>9, <2>10 DEF Step, Nothing, IsEntry
  <2>11. CASE ~ (at > Len(octets)) /\ ~ Good(octets, at)
      BY ONLY <2>8, <2>9, <2>11 DEF Step, Good, Malformed, IsEntry
  <2>12. CASE ~ (at > Len(octets)) /\ Good(octets, at)
    <3>0. ~ (at > Len(octets)) /\ Good(octets, at)
        BY ONLY <2>12, Zenon
    <3>1. at \in 1 .. Len(octets)
      <4>1. ~ (at > Len(octets))
          BY ONLY <3>0, Zenon
      <4> QED
          BY ONLY <1>5, <2>6, <4>1
    <3>2. octets[at] \in Nat /\ at + octets[at] \in at + 1 .. L + 1
        BY ONLY <3>0, <3>1, octets \in Seq(Octet), WellFormed
    <3>3. IsEntry(f[at + octets[at]])
        BY ONLY <2>7, <3>2
    <3>4. PICK blocks \in Blocks : \E defect : f[at + octets[at]] = Entry(blocks, defect)
        BY ONLY <3>3 DEF IsEntry
    <3>11. PICK defect : f[at + octets[at]] = Entry(blocks, defect)
        BY ONLY <3>4
    <3>5. PICK block : block = slice(octets, at, octets[at])
        OBVIOUS
    <3>6. f[at] = Before(block, f[at + octets[at]])
        BY ONLY <2>8, <3>0, <3>5, Zenon DEF Step, Good
    <3>7. f[at] = Entry(<<block>> \o blocks, defect)
        BY ONLY <3>6, <3>11, BeforeEntry
    <3>8. at \in Nat \ {0} /\ at + octets[at] <= Len(octets) + 1
        BY ONLY <1>5, <3>1, <3>2
    <3>9. block \in Seq(Octet)
        BY ONLY <3>2, <3>5, <3>8, octets \in Seq(Octet), BlockType
    <3>10. <<block>> \o blocks \in Blocks
        BY ONLY <3>4, <3>9, Prepended DEF Blocks
    <3> QED
        BY ONLY <2>9, <3>7, <3>10 DEF IsEntry
  <2> QED
      BY ONLY <2>10, <2>11, <2>12, Zenon
<1>7. ASSUME NEW at \in 1 .. L + 1
      PROVE  IsEntry(f[at])
  <2>1. L + 1 - at \in 0 .. L /\ L + 1 - (L + 1 - at) = at
      BY ONLY <1>5, at \in 1 .. L + 1
  <2> QED
      BY ONLY <1>6, <2>1
<1> QED
    BY <1>3, <1>4, <1>7 DEF IsReading

LEMMA EntryFields ==
    ASSUME NEW blocks, NEW defect
    PROVE  Entry(blocks, defect).found = blocks /\ Entry(blocks, defect).defect = defect
BY DEF Entry

Prefixed(blocks, block, rest) == blocks = <<block>> \o rest

LEMMA BlockIsRead ==
    ASSUME NEW octets \in Seq(Octet), NEW f, IsReading(octets, f), NEW at \in 1 .. Len(octets),
           Good(octets, at), NEW next, next = at + octets[at]
    PROVE  /\ octets[at] \in Nat /\ octets[at] >= 2 /\ next \in at + 1 .. Len(octets) + 1
           /\ slice(octets, at, octets[at]) \in Seq(Octet)
           /\ f[next].found \in Blocks /\ (Clean(f[at]) <=> Clean(f[next]))
           /\ Prefixed(f[at].found, slice(octets, at, octets[at]), f[next].found)
<1>1. octets[at] \in Nat /\ octets[at] >= 2 /\ next \in at + 1 .. Len(octets) + 1
    BY WellFormed
<1>2. Len(octets) \in Nat
    BY ONLY octets \in Seq(Octet)
<1>3. at \in Nat \ {0} /\ at + octets[at] <= Len(octets) + 1 /\ ~ (at > Len(octets))
      /\ at \in 1 .. Len(octets) + 1 /\ next \in 1 .. Len(octets) + 1
    BY ONLY <1>1, <1>2, at \in 1 .. Len(octets), next = at + octets[at]
<1>4. slice(octets, at, octets[at]) \in Seq(Octet)
    BY ONLY <1>1, <1>3, octets \in Seq(Octet), BlockType
<1>5. IsEntry(f[next]) /\ f[at] = Step(octets, at, f)
    BY ONLY <1>3, IsReading(octets, f) DEF IsReading
<1>6. PICK blocks \in Blocks : \E defect : f[next] = Entry(blocks, defect)
    BY ONLY <1>5 DEF IsEntry
<1>10. PICK defect : f[next] = Entry(blocks, defect)
    BY ONLY <1>6
<1>7. f[at] = Before(slice(octets, at, octets[at]), f[next])
    BY ONLY <1>3, <1>5, Good(octets, at), next = at + octets[at], Zenon DEF Step, Good
<1>8. f[at] = Entry(<<slice(octets, at, octets[at])>> \o blocks, defect)
    BY ONLY <1>7, <1>10, BeforeEntry
<1>9. f[at].defect = defect /\ f[next].defect = defect /\ f[next].found = blocks
      /\ f[at].found = <<slice(octets, at, octets[at])>> \o blocks
  <2>1. PICK more : more = <<slice(octets, at, octets[at])>> \o blocks
      OBVIOUS
  <2>2. f[at] = Entry(more, defect)
      BY ONLY <1>8, <2>1
  <2>3. f[at].defect = defect /\ f[next].defect = defect
        /\ f[next].found = blocks /\ f[at].found = more
      BY ONLY <1>10, <2>2, EntryFields
  <2> QED
      BY ONLY <2>1, <2>3
<1> QED
    BY ONLY <1>1, <1>4, <1>6, <1>9 DEF Clean, Prefixed

LEMMA DefectIsTold ==
    ASSUME NEW octets \in Seq(Octet), NEW f, IsReading(octets, f), NEW at \in 1 .. Len(octets),
           Clean(f[at])
    PROVE  Good(octets, at)
<1>1. ~ (at > Len(octets)) /\ at \in 1 .. Len(octets) + 1
    BY ONLY octets \in Seq(Octet), at \in 1 .. Len(octets)
<1>2. f[at] = Step(octets, at, f)
    BY <1>1 DEF IsReading
<1>3. CASE ~ Good(octets, at)
  <2>1. f[at] = Entry(<<>>, dib_defect(octets, at))
      BY ONLY <1>1, <1>2, <1>3, Zenon DEF Step, Good, Malformed
  <2>2. f[at].defect = dib_defect(octets, at)
      BY ONLY <2>1 DEF Entry
  <2> QED
      BY ONLY <1>3, <2>2, Clean(f[at]), Zenon DEF Clean, Good
<1> QED
    BY ONLY <1>3, Zenon

LEMMA EndIsRead ==
    ASSUME NEW octets \in Seq(Octet), NEW f, IsReading(octets, f)
    PROVE  f[Len(octets) + 1].found = <<>> /\ Clean(f[Len(octets) + 1])
<1>1. Len(octets) + 1 > Len(octets) /\ Len(octets) + 1 \in 1 .. Len(octets) + 1
    OBVIOUS
<1>2. f[Len(octets) + 1] = Nothing
    BY ONLY <1>1, IsReading(octets, f) DEF IsReading, Step
<1> QED
  <2>1. PICK good : good = ""
      OBVIOUS
  <2>2. PICK last : last = Len(octets) + 1
      OBVIOUS
  <2>3. f[last] = Entry(<<>>, good)
      BY ONLY <1>2, <2>1, <2>2, Zenon DEF Nothing
  <2>4. f[last].found = <<>> /\ f[last].defect = good
      BY ONLY <2>3, EntryFields
  <2> QED
      BY ONLY <2>1, <2>2, <2>4, Zenon DEF Clean

LEMMA FewTypes ==
    ASSUME NEW blocks \in Blocks, NEW types,
           types = {description_type_raw(blocks[i]) : i \in DOMAIN blocks}
    PROVE  Cardinality(types) <= Len(blocks) /\ Cardinality(types) \in Nat
<1>1. DOMAIN blocks = 1 .. Len(blocks) /\ Len(blocks) \in Nat
    BY DEF Blocks
<1> DEFINE f == [i \in 1 .. Len(blocks) |-> description_type_raw(blocks[i])]
<1>2. f \in Surjection(1 .. Len(blocks), types)
    BY <1>1 DEF Surjection
<1>3. ExistsSurjection(1 .. Len(blocks), types)
    BY <1>2 DEF ExistsSurjection
<1>4. IsFiniteSet(types)
    BY ONLY <1>1, <1>3, FS_NatSurjection
<1> QED
    BY ONLY <1>1, <1>3, <1>4, FS_SurjCardinalityBound, FS_CardinalityType

LEMMA DibsParsed ==
    ASSUME NEW octets \in Seq(Octet), IsOk(parse_dibs(octets)), Len(octets) >= 1
    PROVE  \E f : /\ IsReading(octets, f) /\ Clean(f[1])
                  /\ parse_dibs(octets) = Ok(f[1].found)
<1>1. PICK f : structures(octets, dib_defect) = f[1] /\ IsReading(octets, f)
    BY ReadingFacts
<1>2. PICK types :
          types = {description_type_raw(f[1].found[i]) : i \in DOMAIN f[1].found}
    OBVIOUS
<1>3. IsEntry(f[1])
    BY <1>1 DEF IsReading
<1>4. f[1].found \in Blocks
    BY ONLY <1>3 DEF IsEntry, Entry
<1>5. Cardinality(types) <= Len(f[1].found) /\ Cardinality(types) \in Nat
      /\ Len(f[1].found) \in Nat
  <2>1. Len(f[1].found) \in Nat
      BY ONLY <1>4 DEF Blocks
  <2> QED
      BY ONLY <2>1, <1>2, <1>4, FewTypes
<1>6. parse_dibs(octets) =
          CASE Cardinality(types) < Len(f[1].found) -> Err("DuplicateDescriptionType")
            [] Cardinality(types) = Len(f[1].found) /\ f[1].defect # "" -> Err(f[1].defect)
            [] OTHER -> Ok(f[1].found)
    BY ONLY <1>1, <1>2 DEF parse_dibs
<1>7. \A reason : ~ IsOk(Err(reason))
    BY DEF IsOk, Err
<1>8. ~ (Cardinality(types) < Len(f[1].found))
    BY ONLY <1>6, <1>7, IsOk(parse_dibs(octets))
<1>9. Cardinality(types) = Len(f[1].found)
    BY ONLY <1>5, <1>8
<1>10. f[1].defect = ""
    BY ONLY <1>6, <1>7, <1>8, <1>9, IsOk(parse_dibs(octets))
<1>11. parse_dibs(octets) = Ok(f[1].found)
    BY ONLY <1>6, <1>8, <1>10, Zenon
<1> QED
    BY ONLY <1>1, <1>10, <1>11, Zenon DEF Clean

-----------------------------------------------------------------------------
\* What the body of an answer holds, and the octets of the whole.
Carries(body, control, d, routing) ==
    /\ Long(body, IF routing THEN 70 ELSE 68)
    /\ \A i \in 1 .. 8 : body[i] = hpai_to_bytes(control)[i]
    /\ \A i \in Nat \ {0} : i <= 60 => body[8 + i] = dibs(d, routing)[i]
    /\ routing => \A i \in {61, 62} : body[8 + i] = dibs(d, routing)[i]
IsAnswer(octets, minor, control, d, routing) ==
    /\ Long(octets, IF routing THEN 76 ELSE 74)
    /\ octets[1] = 6 /\ octets[2] = 16 /\ octets[3] = 2 /\ octets[4] = minor
    /\ octets[5] = 0 /\ octets[6] = IF routing THEN 76 ELSE 74
    /\ \A i \in 1 .. 8 : octets[6 + i] = hpai_to_bytes(control)[i]
    /\ \A i \in Nat \ {0} : i <= 60 => octets[14 + i] = dibs(d, routing)[i]
    /\ routing => \A i \in {61, 62} : octets[14 + i] = dibs(d, routing)[i]

LEMMA ResponseBody ==
    ASSUME NEW control \in Endpoint, NEW d \in Description, NEW routing \in BOOLEAN,
           NEW body, body = hpai_to_bytes(control) \o dibs(d, routing)
    PROVE  Carries(body, control, d, routing)
<1>1. PICK front : front = hpai_to_bytes(control)
    OBVIOUS
<1>2. PICK back : back = dibs(d, routing)
    OBVIOUS
<1>3. Joined(body, front, back)
    BY <1>1, <1>2 DEF Joined
<1>4. Long(front, 8)
    BY <1>1, HpaiOctets
<1>5. PICK m \in Nat : m = 8
    OBVIOUS
<1>6. PICK n \in Nat : n = IF routing THEN 62 ELSE 60
    OBVIOUS
<1>7. Long(front, m) /\ Long(back, n)
  <2>1. Says(back, d, routing)
      BY ONLY <1>2, d \in Description, routing \in BOOLEAN, DibsSay
  <2> QED
      BY ONLY <1>4, <1>5, <1>6, <2>1 DEF Says
<1>8. /\ Long(body, m + n) /\ \A i \in 1 .. m : body[i] = front[i]
      /\ \A i \in 1 .. n : body[m + i] = back[i]
    BY ONLY <1>3, <1>5, <1>6, <1>7, Join
<1>9. m + n = IF routing THEN 70 ELSE 68
    BY ONLY <1>5, <1>6, routing \in BOOLEAN
<1>10. \A i \in 1 .. 8 : body[i] = front[i]
    BY ONLY <1>5, <1>8
<1>11. \A i \in Nat \ {0} : i <= 60 => body[8 + i] = back[i]
  <2>1. \A i \in Nat \ {0} : i <= 60 => i \in 1 .. n
      BY ONLY <1>6
  <2> QED
      BY ONLY <1>5, <1>8, <2>1
<1>12. routing => \A i \in {61, 62} : body[8 + i] = back[i]
  <2>1. routing => 61 \in 1 .. n /\ 62 \in 1 .. n
      BY ONLY <1>6
  <2> QED
      BY ONLY <1>5, <1>8, <2>1
<1> QED
    BY ONLY <1>1, <1>2, <1>8, <1>9, <1>10, <1>11, <1>12 DEF Carries

LEMMA ResponseFrame ==
    ASSUME NEW control \in Endpoint, NEW d \in Description, NEW routing \in BOOLEAN,
           NEW frame, frame.body = hpai_to_bytes(control) \o dibs(d, routing),
           NEW minor \in {2, 12}, ServiceType[frame.service_type] = 512 + minor,
           NEW octets, octets = frame_to_bytes(frame).ok
    PROVE  IsAnswer(octets, minor, control, d, routing)
<1>1. PICK body : body = frame.body
    OBVIOUS
<1>2. PICK service : service = ServiceType[frame.service_type]
    OBVIOUS
<1>3. PICK n \in Nat : n = IF routing THEN 70 ELSE 68
    OBVIOUS
<1>4. Carries(body, control, d, routing)
  <2>1. body = hpai_to_bytes(control) \o dibs(d, routing)
      BY <1>1
  <2> QED
      BY ONLY <2>1, control \in Endpoint, d \in Description, routing \in BOOLEAN, ResponseBody
<1>5. Long(frame.body, n)
    BY ONLY <1>1, <1>3, <1>4 DEF Carries
<1>6. n + 6 \in Word
    BY ONLY <1>3, WordFacts
<1>7. service = 514 \/ service = 524
    BY <1>2
<1>8. ServiceType[frame.service_type] \in Word
    BY ONLY <1>2, <1>7, WordFacts
<1>9. /\ Long(octets, n + 6) /\ octets[1] = 6 /\ octets[2] = 16
      /\ octets[3] = service \div 256 /\ octets[4] = service % 256
      /\ octets[5] * 256 + octets[6] = n + 6
      /\ \A i \in 1 .. n : octets[6 + i] = body[i]
    BY ONLY <1>1, <1>2, <1>5, <1>6, <1>8, octets = frame_to_bytes(frame).ok, FrameOctets
<1>10. service = 512 + minor /\ octets[3] = 2 /\ octets[4] = minor
  <2>1. service = 512 + minor
      BY <1>2
  <2> QED
      BY ONLY <1>7, <1>9, <2>1
<1>11. Long(octets, IF routing THEN 76 ELSE 74) /\ n + 6 = IF routing THEN 76 ELSE 74
  <2>1. n + 6 = IF routing THEN 76 ELSE 74
      BY ONLY <1>3
  <2> QED
      BY ONLY <1>9, <2>1
<1>12. octets[5] = 0 /\ octets[6] = IF routing THEN 76 ELSE 74
  <2>1. octets[5] \in Octet /\ octets[6] \in Octet
    <3>1. n + 6 \in Nat /\ 5 \in 1 .. n + 6 /\ 6 \in 1 .. n + 6
        BY ONLY n \in Nat
    <3> QED
        BY ONLY <1>9, <3>1, OctetAt
  <2>2. n + 6 < 256
      BY ONLY <1>3
  <2>3. octets[5] = 0
      BY ONLY <1>9, <2>1, <2>2, OctetFacts, n \in Nat
  <2> QED
      BY ONLY <1>9, <1>11, <2>1, <2>3, OctetFacts
<1>13. \A i \in 1 .. 8 : octets[6 + i] = body[i]
  <2>1. \A i \in 1 .. 8 : i \in 1 .. n
      BY ONLY <1>3
  <2> QED
      BY ONLY <1>9, <2>1
<1>14. \A i \in Nat \ {0} : i <= 60 => octets[14 + i] = body[8 + i]
  <2>1. \A i \in Nat \ {0} : i <= 60 => 8 + i \in 1 .. n /\ 6 + (8 + i) = 14 + i
      BY ONLY <1>3
  <2> QED
      BY ONLY <1>9, <2>1
<1>15. routing => \A i \in {61, 62} : octets[14 + i] = body[8 + i]
  <2>1. routing => 69 \in 1 .. n /\ 70 \in 1 .. n
      BY ONLY <1>3
  <2>2. routing => octets[6 + 69] = body[69] /\ octets[6 + 70] = body[70]
      BY ONLY <1>9, <2>1
  <2> QED
      BY ONLY <2>2
<1> QED
    BY ONLY <1>4, <1>9, <1>10, <1>11, <1>12, <1>13, <1>14, <1>15 DEF IsAnswer, Carries

-----------------------------------------------------------------------------
\* What is left of a datagram that was cut off and filled up.
Frayed(octets, intact) ==
    \E n \in Nat : /\ n <= Len(octets)
                   /\ \A i \in 1 .. Len(octets) :
                          octets[i] = IF i <= n THEN intact[i] ELSE 0

LEMMA HpaiParsed ==
    ASSUME NEW octets \in Seq(Octet), IsOk(parse_hpai(octets))
    PROVE  Len(octets) >= 8 /\ octets[1] = 8 /\ octets[2] # 0
<1> DEFINE protocols == {p \in DOMAIN HostProtocol : HostProtocol[p] = octets[2]}
<1>1. Len(octets) >= 8
    BY DEF parse_hpai, IsOk, Err, HPAI_LEN
<1>2. octets[1] = 8 /\ protocols # {}
    BY <1>1 DEF parse_hpai, IsOk, Err, HPAI_LEN
<1>3. octets[2] # 0
    BY <1>2, Protocols
<1> QED
    BY <1>1, <1>2, <1>3

LEMMA FrayedAgrees ==
    ASSUME NEW control \in Endpoint, NEW d \in Description, NEW routing \in BOOLEAN,
           NEW intact, IsAnswer(intact, 2, control, d, routing),
           NEW octets \in Seq(Octet), Frayed(octets, intact), IsOk(parse_frame(octets)),
           NEW body, body = from(octets, 7), IsOk(parse_hpai(body)),
           NEW rest, rest = from(body, 9), IsOk(parse_dibs(rest))
    PROVE  /\ Len(octets) = IF routing THEN 76 ELSE 74
           /\ \A i \in Nat \ {0} : i <= 69 => octets[i] = intact[i]
<1>1. PICK n \in Nat : /\ n <= Len(octets)
                       /\ \A i \in 1 .. Len(octets) :
                              octets[i] = IF i <= n THEN intact[i] ELSE 0
    BY DEF Frayed
<1>2. Len(octets) \in Nat
    OBVIOUS
<1>3. Len(octets) >= 6 /\ Len(octets) = octets[5] * 256 + octets[6]
    BY ONLY octets \in Seq(Octet), IsOk(parse_frame(octets)), ParsedFrame
<1>4. intact[5] = 0 /\ intact[6] = IF routing THEN 76 ELSE 74
    BY DEF IsAnswer
<1>5. n >= 6
  <2>1. CASE n < 6
    <3>1. octets[6] = 0 /\ octets[5] = 0
        BY ONLY <1>1, <1>2, <1>3, <1>4, <2>1
    <3> QED
        BY ONLY <1>3, <3>1
  <2> QED
      BY ONLY <2>1, n \in Nat
<1>6. octets[5] = 0 /\ octets[6] = intact[6]
    BY ONLY <1>1, <1>2, <1>3, <1>4, <1>5
<1>7. Len(octets) = IF routing THEN 76 ELSE 74
    BY ONLY <1>3, <1>4, <1>6
<1>8. /\ body \in Seq(Octet) /\ Len(body) = Len(octets) - 6
      /\ \A i \in 1 .. Len(octets) - 6 : body[i] = octets[6 + i]
  <2>1. /\ body \in Seq(Octet) /\ Len(body) = Len(octets) - 7 + 1
        /\ \A i \in 1 .. Len(octets) - 7 + 1 : body[i] = octets[7 + i - 1]
    <3>1. 7 \in Nat \ {0} /\ 7 <= Len(octets) + 1
        BY ONLY <1>2, <1>3
    <3>2. PICK at \in Nat \ {0} : at = 7
        OBVIOUS
    <3>3. at <= Len(octets) + 1 /\ body = from(octets, at)
        BY ONLY <3>1, <3>2, body = from(octets, 7)
    <3>4. Part(body, octets, at, Len(octets) - at + 1)
        BY ONLY <3>3, at \in Nat \ {0}, octets \in Seq(Octet), FromIsPart
    <3> QED
        BY ONLY <3>2, <3>4 DEF Part
  <2>2. Len(octets) - 7 + 1 = Len(octets) - 6 /\ \A i \in Nat : 7 + i - 1 = 6 + i
      BY ONLY <1>2
  <2> QED
      BY ONLY <1>2, <2>1, <2>2
<1>9. body[2] # 0
    BY ONLY <1>8, IsOk(parse_hpai(body)), HpaiParsed
<1>10. octets[8] # 0 /\ Len(octets) >= 74
  <2>1. Len(octets) >= 74
      BY ONLY <1>7
  <2>2. 2 \in 1 .. Len(octets) - 6
      BY ONLY <1>2, <2>1
  <2> QED
      BY ONLY <1>8, <1>9, <2>1, <2>2
<1>11. /\ rest \in Seq(Octet) /\ Len(rest) = Len(octets) - 14
       /\ \A i \in 1 .. Len(octets) - 14 : rest[i] = octets[14 + i]
  <2>1. /\ rest \in Seq(Octet) /\ Len(rest) = Len(body) - 9 + 1
        /\ \A i \in 1 .. Len(body) - 9 + 1 : rest[i] = body[9 + i - 1]
    <3>1. 9 \in Nat \ {0} /\ 9 <= Len(body) + 1
        BY ONLY <1>2, <1>8, <1>10
    <3>2. body \in Seq(Octet)
        BY ONLY <1>8
    <3>3. PICK at \in Nat \ {0} : at = 9
        OBVIOUS
    <3>4. at <= Len(body) + 1 /\ rest = from(body, at)
        BY ONLY <3>1, <3>3, rest = from(body, 9)
    <3>5. Part(rest, body, at, Len(body) - at + 1)
        BY ONLY <3>2, <3>4, at \in Nat \ {0}, FromIsPart
    <3> QED
        BY ONLY <3>3, <3>5 DEF Part
  <2>2. Len(body) - 9 + 1 = Len(octets) - 14
      BY ONLY <1>2, <1>8
  <2>3. \A i \in 1 .. Len(octets) - 14 :
            9 + i - 1 \in 1 .. Len(octets) - 6 /\ 6 + (9 + i - 1) = 14 + i
      BY ONLY <1>2
  <2> QED
      BY ONLY <1>8, <2>1, <2>2, <2>3
<1>12. Len(rest) >= 60 /\ Len(rest) \in Nat
    BY ONLY <1>2, <1>10, <1>11
<1>13. PICK f : IsReading(rest, f) /\ Clean(f[1])
  <2>1. Len(rest) >= 1
      BY ONLY <1>12
  <2> QED
      BY ONLY <1>11, <2>1, IsOk(parse_dibs(rest)), DibsParsed
<1>14. 1 \in 1 .. Len(rest) /\ 55 \in 1 .. Len(rest)
    BY ONLY <1>12
<1>15. Good(rest, 1)
    BY ONLY <1>11, <1>13, <1>14, DefectIsTold
<1>16. rest[1] \in Nat /\ rest[1] >= 2 /\ (Clean(f[1]) <=> Clean(f[1 + rest[1]]))
  <2>1. rest \in Seq(Octet)
      BY ONLY <1>11
  <2>2. PICK at : at = 1
      OBVIOUS
  <2>3. PICK next : next = at + rest[at]
      OBVIOUS
  <2>4. IsReading(rest, f) /\ at \in 1 .. Len(rest) /\ Good(rest, at)
      BY ONLY <1>13, <1>14, <1>15, <2>2
  <2>5. rest[at] \in Nat /\ rest[at] >= 2 /\ (Clean(f[at]) <=> Clean(f[next]))
      BY ONLY <2>1, <2>3, <2>4, BlockIsRead
  <2> QED
      BY ONLY <2>2, <2>3, <2>5
<1>17. octets[15] # 0
  <2>1. 1 \in 1 .. Len(octets) - 14
      BY ONLY <1>2, <1>10
  <2>2. rest[1] = octets[15]
      BY ONLY <1>11, <2>1
  <2> QED
      BY ONLY <1>16, <2>2
<1>18. octets[15] = intact[15] /\ intact[15] = 54
  <2>1. 15 \in 1 .. Len(octets)
      BY ONLY <1>2, <1>10
  <2>2. octets[15] = intact[15]
      BY ONLY <1>1, <1>17, <2>1
  <2>3. intact[14 + 1] = dibs(d, routing)[1]
    <3>1. 1 \in Nat \ {0} /\ 1 <= 60
        OBVIOUS
    <3> QED
        BY ONLY <3>1, IsAnswer(intact, 2, control, d, routing) DEF IsAnswer
  <2>4. dibs(d, routing)[1] = 54
      BY DibsSay DEF Says, Tells
  <2> QED
      BY ONLY <2>2, <2>3, <2>4
<1>19. rest[1] = 54
  <2>1. 1 \in 1 .. Len(octets) - 14
      BY ONLY <1>2, <1>10
  <2> QED
      BY ONLY <1>11, <1>18, <2>1
<1>20. Clean(f[55])
  <2>1. 1 + rest[1] = 55
      BY ONLY <1>19
  <2> QED
      BY ONLY <1>13, <1>16, <2>1
<1>21. Good(rest, 55)
    BY ONLY <1>11, <1>13, <1>14, <1>20, DefectIsTold
<1>22. rest[55] >= 2
    BY ONLY <1>11, <1>14, <1>21, WellFormed
<1>23. octets[69] # 0
  <2>1. 55 \in 1 .. Len(octets) - 14
      BY ONLY <1>2, <1>10
  <2>2. rest[55] = octets[69]
      BY ONLY <1>11, <2>1
  <2> QED
      BY ONLY <1>22, <2>2
<1>24. n >= 69
  <2>1. 69 \in 1 .. Len(octets)
      BY ONLY <1>2, <1>10
  <2> QED
      BY ONLY <1>1, <1>23, <2>1
<1>25. \A i \in Nat \ {0} : i <= 69 => i \in 1 .. Len(octets) /\ i <= n
    BY ONLY <1>2, <1>10, <1>24, n \in Nat
<1> QED
    BY ONLY <1>1, <1>7, <1>25

LEMMA FirstBlock ==
    ASSUME NEW octets \in Seq(Octet), IsOk(parse_dibs(octets)), Len(octets) >= 54,
           octets[1] = 54, octets[2] = 1, NEW info, info = slice(octets, 1, 54)
    PROVE  get_raw(parse_dibs(octets).ok, DibType.DeviceInformation) = <<info>>
<1>1. Len(octets) \in Nat /\ Len(octets) >= 1
    BY ONLY octets \in Seq(Octet), Len(octets) >= 54
<1>2. PICK f : IsReading(octets, f) /\ Clean(f[1]) /\ parse_dibs(octets) = Ok(f[1].found)
    BY ONLY <1>1, octets \in Seq(Octet), IsOk(parse_dibs(octets)), DibsParsed
<1>3. PICK at : at = 1
    OBVIOUS
<1>4. PICK next : next = at + octets[at]
    OBVIOUS
<1>5. at \in 1 .. Len(octets) /\ Clean(f[at])
    BY ONLY <1>1, <1>2, <1>3
<1>6. Good(octets, at)
    BY ONLY <1>2, <1>5, octets \in Seq(Octet), DefectIsTold
<1>7. /\ f[next].found \in Blocks
      /\ Prefixed(f[at].found, slice(octets, at, octets[at]), f[next].found)
      /\ slice(octets, at, octets[at]) \in Seq(Octet)
    BY ONLY <1>2, <1>4, <1>5, <1>6, octets \in Seq(Octet), BlockIsRead
<1>8. slice(octets, at, octets[at]) = info
    BY ONLY <1>3, octets[1] = 54, info = slice(octets, 1, 54)
<1>9. PICK later \in Blocks : later = f[next].found
    BY <1>7
<1>10. PICK blocks : blocks = <<info>> \o later
    OBVIOUS
<1>11. parse_dibs(octets).ok = blocks
    BY ONLY <1>2, <1>3, <1>7, <1>8, <1>9, <1>10 DEF Ok, Prefixed
<1>12. blocks \in Blocks /\ Len(blocks) = Len(later) + 1 /\ blocks[1] = info
  <2>1. info \in Seq(Octet) /\ later \in Seq(Seq(Octet))
      BY ONLY <1>7, <1>8, <1>9 DEF Blocks
  <2> QED
      BY ONLY <1>10, <2>1, Prepended DEF Blocks
<1>13. DOMAIN blocks = 1 .. Len(blocks) /\ Len(blocks) \in Nat /\ Len(later) \in Nat
    BY ONLY <1>9, <1>12 DEF Blocks
<1>14. description_type_raw(info) = 1
  <2>1. 1 \in Nat \ {0} /\ 54 \in Nat /\ 1 + 54 <= Len(octets) + 1
      BY ONLY <1>1, Len(octets) >= 54
  <2>2. \A i \in 1 .. 54 : info[i] = octets[1 + i - 1]
    <3>1. PICK n \in Nat : n = 54
        OBVIOUS
    <3>2. \A i \in 1 .. n : info[i] = octets[1 + i - 1]
      <4>1. PICK start \in Nat \ {0} : start = 1
          OBVIOUS
      <4>2. start + n <= Len(octets) + 1 /\ info = slice(octets, start, n)
          BY ONLY <2>1, <3>1, <4>1, info = slice(octets, 1, 54)
      <4>3. Part(info, octets, start, n)
          BY ONLY <4>2, octets \in Seq(Octet), start \in Nat \ {0}, n \in Nat, SliceIsPart
      <4> QED
          BY ONLY <4>1, <4>3 DEF Part
    <3> QED
        BY ONLY <3>1, <3>2
  <2>3. info[2] = octets[1 + 2 - 1]
    <3>1. PICK two : two = 2 /\ two \in 1 .. 54
        OBVIOUS
    <3> QED
        BY ONLY <2>2, <3>1
  <2> QED
      BY ONLY <2>3, octets[2] = 1 DEF description_type_raw
<1> DEFINE infos == {i \in DOMAIN blocks : description_type_raw(blocks[i]) = 1}
<1>15. 1 \in infos /\ \A i \in infos : i \in Nat /\ 1 <= i
    BY ONLY <1>12, <1>13, <1>14
<1> HIDE DEF infos
<1>16. (CHOOSE i \in infos : \A j \in infos : i <= j) = 1
    BY ONLY <1>15
<1>17. get_raw(blocks, DibType.DeviceInformation) = <<blocks[1]>>
    BY ONLY <1>15, <1>16, InfoCodes, Zenon DEF get_raw, infos
<1> QED
    BY ONLY <1>11, <1>12, <1>17

LEMMA NameIsShown ==
    ASSUME NEW name \in Seq(Nat), NEW info, Long(info, 54), NEW programming, NEW raw, NEW mac,
           Tells(info, programming, raw, mac, name)
    PROVE  friendly_name(info) = shown(name)
<1>n. PICK n \in Nat : n = 30
    OBVIOUS
<1>1. PICK octets : octets = slice(info, DeviceInformationAt.friendly_name, FRIENDLY_NAME_LEN)
    OBVIOUS
<1>2. Long(octets, n) /\ \A i \in 1 .. n :
          octets[i] = IF i <= Len(name) THEN latin1(name[i]) ELSE 0
  <2>1. DeviceInformationAt.friendly_name = 25 /\ FRIENDLY_NAME_LEN = 30
      BY DEF DeviceInformationAt, FRIENDLY_NAME_LEN
  <2>3. info \in Seq(Octet) /\ 25 + n <= Len(info) + 1
      BY ONLY <1>n, Long(info, 54) DEF Long
  <2>4. octets = slice(info, 25, n)
      BY ONLY <1>1, <1>n, <2>1
  <2>5. Long(octets, n) /\ \A i \in 1 .. n : octets[i] = info[25 + i - 1]
    <3>1. PICK at \in Nat \ {0} : at = 25
        OBVIOUS
    <3>2. at + n <= Len(info) + 1 /\ octets = slice(info, at, n)
        BY ONLY <2>3, <2>4, <3>1
    <3>3. Part(octets, info, at, n)
        BY ONLY <2>3, <3>2, at \in Nat \ {0}, n \in Nat, SliceIsPart
    <3> QED
        BY ONLY <3>1, <3>3 DEF Part
  <2>6. \A i \in 1 .. n : i \in Nat \ {0} /\ i <= 30 /\ 25 + i - 1 = 24 + i
      BY ONLY <1>n
  <2>7. \A i \in Nat \ {0} : i <= 30 =>
            info[24 + i] = IF i <= Len(name) THEN latin1(name[i]) ELSE 0
      BY DEF Tells
  <2>8. \A i \in 1 .. n : octets[i] = info[24 + i]
      BY ONLY <2>5, <2>6
  <2> QED
      BY ONLY <2>5, <2>6, <2>7, <2>8
<1>3. DOMAIN octets = 1 .. n /\ octets \in Seq(Octet) /\ Len(octets) = n
    BY ONLY <1>2, n \in Nat DEF Long
<1>4. Len(name) \in Nat /\ \A i \in 1 .. Len(name) : name[i] \in Nat
    OBVIOUS
<1> DEFINE ends == {i \in DOMAIN octets : octets[i] = 0}
           kept == {m \in 0 .. n : m <= Len(name) /\ \A i \in 1 .. m : name[i] # 0}
           char(i) == IF name[i] > 255 THEN 63 ELSE name[i]
<1>e. ends \subseteq 1 .. n /\ \A i \in 1 .. n : i \in ends <=> octets[i] = 0
    BY ONLY <1>3
<1>k. \A m : m \in kept <=> m \in 0 .. n /\ m <= Len(name) /\ \A i \in 1 .. m : name[i] # 0
    OBVIOUS
<1>f. friendly_name(info) = IF ends = {} THEN octets
          ELSE SubSeq(octets, 1, (CHOOSE i \in ends : \A j \in ends : i <= j) - 1)
    BY ONLY <1>1 DEF friendly_name
<1>s. shown(name) = [i \in 1 .. (CHOOSE p \in kept : \A m \in kept : m <= p) |-> char(i)]
    BY ONLY <1>n, Zenon DEF shown
<1> HIDE DEF ends, kept
<1>5. PICK k \in Nat : /\ k \in kept /\ \A m \in kept : m <= k
                       /\ friendly_name(info) = SubSeq(octets, 1, k)
  <2>1. CASE ends = {}
    <3>1. \A i \in 1 .. n : i <= Len(name) /\ name[i] # 0
      <4>1. \A i \in 1 .. n : octets[i] # 0
          BY ONLY <1>e, <2>1
      <4> QED
          BY ONLY <1>2, <1>4, <4>1, Latin1
    <3>2. n <= Len(name)
        BY ONLY <1>n, <1>4, <3>1
    <3>3. n \in kept /\ \A m \in kept : m <= n
        BY ONLY <1>k, <3>1, <3>2, n \in Nat
    <3>4. friendly_name(info) = octets
        BY ONLY <1>f, <2>1
    <3>5. SubSeq(octets, 1, n) = octets
        BY ONLY <1>3, n \in Nat
    <3> QED
        BY ONLY <3>3, <3>4, <3>5, n \in Nat
  <2>2. CASE ends # {}
    <3>1. PICK e \in ends : \A j \in ends : e <= j
      <4>1. ends \subseteq Nat
          BY ONLY <1>e
      <4> QED
          BY ONLY <2>2, <4>1, LeastNatural
    <3>2. e \in 1 .. n /\ octets[e] = 0 /\ e \in Nat
        BY ONLY <1>e, <3>1
    <3>3. (CHOOSE i \in ends : \A j \in ends : i <= j) = e
      <4>1. \A i \in ends : i \in Nat
          BY ONLY <1>e
      <4> QED
          BY ONLY <3>1, <4>1
    <3>4. friendly_name(info) = SubSeq(octets, 1, e - 1)
        BY ONLY <1>f, <2>2, <3>3
    <3>5. \A i \in 1 .. n : i < e => octets[i] # 0
        BY ONLY <1>e, <3>1, <3>2
    <3>6. \A i \in 1 .. n : i < e => i <= Len(name) /\ name[i] # 0
        BY ONLY <1>2, <1>4, <3>2, <3>5, Latin1
    <3>7. e - 1 <= Len(name) /\ \A i \in 1 .. e - 1 : name[i] # 0
        BY ONLY <1>4, <3>2, <3>6
    <3>8. e > Len(name) \/ name[e] = 0
        BY ONLY <1>2, <1>4, <3>2, Latin1
    <3>11. e - 1 \in 0 .. n /\ e - 1 \in kept
        BY ONLY <1>k, <3>2, <3>7
    <3>12. ASSUME NEW m \in kept PROVE m <= e - 1
      <4>1. m \in 0 .. n /\ m <= Len(name) /\ \A i \in 1 .. m : name[i] # 0
          BY ONLY <1>k, m \in kept
      <4> QED
          BY ONLY <1>4, <3>2, <3>8, <4>1
    <3>13. e - 1 \in Nat
        BY ONLY <3>2
    <3> QED
        BY ONLY <3>4, <3>11, <3>12, <3>13
  <2> QED
      BY ONLY <2>1, <2>2
<1>6. k <= n /\ k <= Len(name)
    BY ONLY <1>5, <1>k
<1>7. (CHOOSE p \in kept : \A m \in kept : m <= p) = k
  <2>1. \A m \in kept : m \in Nat
      BY ONLY <1>k
  <2>2. PICK c : c = (CHOOSE p \in kept : \A m \in kept : m <= p)
      OBVIOUS
  <2>3. c \in kept /\ \A m \in kept : m <= c
      BY ONLY <1>5, <2>2
  <2>4. c <= k /\ k <= c /\ c \in Nat
      BY ONLY <1>5, <2>1, <2>3
  <2> QED
      BY ONLY <2>2, <2>4, k \in Nat
<1>8. shown(name) = [i \in 1 .. k |-> char(i)]
    BY ONLY <1>7, <1>s
<1>9. ASSUME NEW i \in 1 .. k PROVE char(i) \in Octet /\ octets[i] = char(i)
  <2>1. i \in 1 .. n /\ i \in 1 .. Len(name)
      BY ONLY <1>4, <1>5, <1>6, i \in 1 .. k
  <2>2. octets[i] = latin1(name[i]) /\ name[i] \in Nat
      BY ONLY <1>2, <1>4, <2>1
  <2> QED
      BY ONLY <2>2, Latin1
<1>10. Long(shown(name), k) /\ \A i \in 1 .. k : shown(name)[i] = char(i)
  <2> HIDE DEF char
  <2>1. shown(name) \in [1 .. k -> Octet]
      BY ONLY <1>8, <1>9
  <2> QED
      BY ONLY <1>5, <1>8, <2>1, FunctionIsLong
<1>11. PICK first : first = SubSeq(octets, 1, k)
    OBVIOUS
<1>12. Long(first, k) /\ \A i \in 1 .. k : first[i] = octets[i]
  <2>1. first \in Seq(Octet) /\ Len(first) = k /\ \A i \in 1 .. k : first[i] = octets[i]
      BY ONLY <1>3, <1>5, <1>6, <1>11
  <2> QED
      BY ONLY <1>5, <2>1 DEF Long
<1>13. \A i \in 1 .. k : first[i] = shown(name)[i]
  <2> HIDE DEF char
  <2> QED
      BY ONLY <1>9, <1>10, <1>12
<1> QED
    BY ONLY <1>5, <1>10, <1>11, <1>12, <1>13, EqualOctets

-----------------------------------------------------------------------------
(* What the client reads in what is left of an answer.                      *)
LEMMA ResultFacts ==
    /\ \A reason : ~ IsOk(Err(reason))
    /\ \A value : IsOk(Ok(value)) /\ Ok(value).ok = value
BY DEF IsOk, Err, Ok

\* A search response is read: its endpoint in body, its blocks in rest, and
\* in one of them the device information.
IsRead(octets, src, frame, body, rest, info) ==
    /\ IsOk(parse_frame(octets)) /\ frame.service_type = "SearchResponse"
    /\ IsOk(parse_hpai(body)) /\ IsOk(parse_dibs(rest)) /\ IsOk(info)
    /\ parse_search_response(octets, src) =
           Ok(GatewayInfo(hpai_to_socket_addr(parse_hpai(body).ok, src),
                          friendly_name(info.ok),
                          device_information(info.ok).individual_address))

LEMMA SearchResponseParsed ==
    ASSUME NEW octets, NEW src, IsOk(parse_search_response(octets, src)),
           NEW frame, frame = parse_frame(octets).ok, NEW body, body = frame.body,
           NEW rest, rest = from(body, 9),
           NEW about, about = get_raw(parse_dibs(rest).ok, DibType.DeviceInformation),
           NEW info, info = parse_device_information(about[1])
    PROVE  IsRead(octets, src, frame, body, rest, info)
<1>1. PICK gateway : gateway = parse_search_response(octets, src)
    OBVIOUS
<1>2. PICK described : described = GatewayInfo(hpai_to_socket_addr(parse_hpai(body).ok, src),
                                 friendly_name(info.ok),
                                 device_information(info.ok).individual_address)
    OBVIOUS
<1>3. PICK supported :
          supported = get_raw(parse_dibs(rest).ok, DibType.SupportedServiceFamilies)
    OBVIOUS
<1>0. HPAI_LEN + 1 = 9
    BY DEF HPAI_LEN
<1>4. gateway =
        IF IsOk(parse_frame(octets))
        THEN IF frame.service_type # "SearchResponse" THEN Err("NotASearchResponse")
             ELSE IF IsOk(parse_hpai(body))
             THEN IF IsOk(parse_dibs(rest))
                  THEN IF about = <<>> THEN Err("MissingDeviceInformation")
                       ELSE IF IsOk(info)
                       THEN IF supported = <<>> THEN Err("MissingSupportedServiceFamilies")
                            ELSE Ok(described)
                       ELSE info
                  ELSE parse_dibs(rest)
             ELSE parse_hpai(body)
        ELSE parse_frame(octets)
    BY ONLY <1>0, <1>1, <1>2, <1>3, frame = parse_frame(octets).ok, body = frame.body,
       rest = from(body, 9), info = parse_device_information(about[1]),
       about = get_raw(parse_dibs(rest).ok, DibType.DeviceInformation)
       DEF parse_search_response, Then
<1>5. IsOk(gateway)
    BY <1>1
<1>6. IsOk(parse_frame(octets)) /\ frame.service_type = "SearchResponse"
    BY ONLY <1>4, <1>5, ResultFacts
<1>7. IsOk(parse_hpai(body)) /\ IsOk(parse_dibs(rest))
    BY ONLY <1>4, <1>5, <1>6, ResultFacts
<1>8. IsOk(info) /\ gateway = Ok(described)
    BY ONLY <1>4, <1>5, <1>6, <1>7, ResultFacts
<1> QED
    BY ONLY <1>1, <1>2, <1>6, <1>7, <1>8 DEF IsRead

(* What is left of an answer, cut off and filled up with zeroes anywhere,   *)
(* is refused or read as the whole answer: its address, name and individual *)
(* address (parse_search_response).                                         *)
THEOREM FoundInFrayed ==
    ASSUME NEW control \in Endpoint, NEW d \in Description, NEW routing \in BOOLEAN,
           NEW intact, IsAnswer(intact, 2, control, d, routing),
           NEW octets \in Seq(Octet), Frayed(octets, intact),
           NEW src, IsOk(parse_search_response(octets, src)),
           NEW gateway, gateway = parse_search_response(octets, src).ok
    PROVE  /\ gateway.address = hpai_to_socket_addr(control, src)
           /\ gateway.name = shown(d.name)
           /\ gateway.individual_address = d.individual_address
<1>1. PICK frame : frame = parse_frame(octets).ok
    OBVIOUS
<1>2. PICK body : body = frame.body
    OBVIOUS
<1>3. PICK rest : rest = from(body, 9)
    OBVIOUS
<1>4. PICK about : about = get_raw(parse_dibs(rest).ok, DibType.DeviceInformation)
    OBVIOUS
<1>5. PICK told : told = parse_device_information(about[1])
    OBVIOUS
<1>6. /\ IsOk(parse_frame(octets)) /\ IsOk(parse_hpai(body)) /\ IsOk(parse_dibs(rest))
      /\ IsOk(told)
      /\ parse_search_response(octets, src) =
                  Ok(GatewayInfo(hpai_to_socket_addr(parse_hpai(body).ok, src),
                                 friendly_name(told.ok),
                                 device_information(told.ok).individual_address))
  <2>1. IsRead(octets, src, frame, body, rest, told)
      BY ONLY <1>1, <1>2, <1>3, <1>4, <1>5, IsOk(parse_search_response(octets, src)),
         SearchResponseParsed
  <2> QED
      BY ONLY <2>1, Zenon DEF IsRead
<1>7. body = from(octets, 7)
    BY ONLY <1>1, <1>2, <1>6, octets \in Seq(Octet), ParsedFrame
<1>8. /\ Len(octets) = IF routing THEN 76 ELSE 74
      /\ \A i \in Nat \ {0} : i <= 69 => octets[i] = intact[i]
    BY ONLY <1>3, <1>6, <1>7, control \in Endpoint, d \in Description, routing \in BOOLEAN,
       IsAnswer(intact, 2, control, d, routing), octets \in Seq(Octet), Frayed(octets, intact),
       FrayedAgrees
<1>9. Len(octets) \in Nat /\ Len(octets) >= 74
  <2>1. Len(octets) \in Nat
      BY ONLY octets \in Seq(Octet)
  <2> QED
      BY ONLY <1>8, <2>1
<1>10. /\ body \in Seq(Octet) /\ Len(body) = Len(octets) - 6
       /\ \A i \in 1 .. Len(octets) - 6 : body[i] = octets[6 + i]
  <2>1. /\ body \in Seq(Octet) /\ Len(body) = Len(octets) - 7 + 1
        /\ \A i \in 1 .. Len(octets) - 7 + 1 : body[i] = octets[7 + i - 1]
    <3>1. 7 \in Nat \ {0} /\ 7 <= Len(octets) + 1
        BY ONLY <1>9
    <3>2. PICK at \in Nat \ {0} : at = 7
        OBVIOUS
    <3>3. at <= Len(octets) + 1 /\ body = from(octets, at)
        BY ONLY <1>7, <3>1, <3>2
    <3>4. Part(body, octets, at, Len(octets) - at + 1)
        BY ONLY <3>3, at \in Nat \ {0}, octets \in Seq(Octet), FromIsPart
    <3> QED
        BY ONLY <3>2, <3>4 DEF Part
  <2>2. Len(octets) - 7 + 1 = Len(octets) - 6 /\ \A i \in Nat : 7 + i - 1 = 6 + i
      BY ONLY <1>9
  <2> QED
      BY ONLY <1>9, <2>1, <2>2
<1>11. /\ rest \in Seq(Octet) /\ Len(rest) = Len(octets) - 14
       /\ \A i \in 1 .. Len(octets) - 14 : rest[i] = octets[14 + i]
  <2>1. /\ rest \in Seq(Octet) /\ Len(rest) = Len(body) - 9 + 1
        /\ \A i \in 1 .. Len(body) - 9 + 1 : rest[i] = body[9 + i - 1]
    <3>1. 9 \in Nat \ {0} /\ 9 <= Len(body) + 1
        BY ONLY <1>9, <1>10
    <3>2. body \in Seq(Octet)
        BY ONLY <1>10
    <3>3. PICK at \in Nat \ {0} : at = 9
        OBVIOUS
    <3>4. at <= Len(body) + 1 /\ rest = from(body, at)
        BY ONLY <1>3, <3>1, <3>3
    <3>5. Part(rest, body, at, Len(body) - at + 1)
        BY ONLY <3>2, <3>4, at \in Nat \ {0}, FromIsPart
    <3> QED
        BY ONLY <3>3, <3>5 DEF Part
  <2>2. Len(body) - 9 + 1 = Len(octets) - 14
      BY ONLY <1>9, <1>10
  <2>3. \A i \in 1 .. Len(octets) - 14 :
            9 + i - 1 \in 1 .. Len(octets) - 6 /\ 6 + (9 + i - 1) = 14 + i
      BY ONLY <1>9
  <2> QED
      BY ONLY <1>10, <2>1, <2>2, <2>3
<1>12. parse_hpai(body) = Ok(control)
  <2>1. Len(body) >= 8
      BY ONLY <1>9, <1>10
  <2>2. \A i \in 1 .. 8 : body[i] = octets[6 + i]
    <3>1. \A i \in 1 .. 8 : i \in 1 .. Len(octets) - 6
        BY ONLY <1>9
    <3> QED
        BY ONLY <1>10, <3>1
  <2>3. \A i \in 1 .. 8 : octets[6 + i] = intact[6 + i]
    <3>1. \A i \in 1 .. 8 : 6 + i \in Nat \ {0} /\ 6 + i <= 69
        OBVIOUS
    <3> QED
        BY ONLY <1>8, <3>1
  <2>4. \A i \in 1 .. 8 : intact[6 + i] = hpai_to_bytes(control)[i]
      BY DEF IsAnswer
  <2>5. \A i \in 1 .. 8 : body[i] = hpai_to_bytes(control)[i]
      BY ONLY <2>2, <2>3, <2>4
  <2>6. body \in Seq(Octet)
      BY ONLY <1>10
  <2> QED
      BY ONLY <2>1, <2>5, <2>6, control \in Endpoint, HpaiReadBack
<1>13. PICK block : block = slice(rest, 1, 54)
    OBVIOUS
<1>14. PICK said_ : said_ = dibs(d, routing)
    OBVIOUS
<1>15. Tells(said_, d.programming_mode, d.individual_address, d.mac_address, d.name)
  <2>1. Says(said_, d, routing)
      BY ONLY <1>14, d \in Description, routing \in BOOLEAN, DibsSay
  <2> QED
      BY ONLY <2>1 DEF Says
<1>16. \A i \in Nat \ {0} : i <= 54 => rest[i] = said_[i]
  <2>1. \A i \in Nat \ {0} : i <= 54 => rest[i] = octets[14 + i]
    <3>1. \A i \in Nat \ {0} : i <= 54 => i \in 1 .. Len(octets) - 14
        BY ONLY <1>9
    <3> QED
        BY ONLY <1>11, <3>1
  <2>2. \A i \in Nat \ {0} : i <= 54 => octets[14 + i] = intact[14 + i]
    <3>1. \A i \in Nat \ {0} : i <= 54 => 14 + i \in Nat \ {0} /\ 14 + i <= 69
        OBVIOUS
    <3> QED
        BY ONLY <1>8, <3>1
  <2>3. \A i \in Nat \ {0} : i <= 60 => intact[14 + i] = said_[i]
      BY <1>14 DEF IsAnswer
  <2>4. \A i \in Nat \ {0} : i <= 54 => i <= 60
      OBVIOUS
  <2> QED
      BY ONLY <2>1, <2>2, <2>3, <2>4
<1>17. Len(rest) >= 54
    BY ONLY <1>9, <1>11
<1>18. Long(block, 54) /\ \A i \in Nat \ {0} : i <= 54 => block[i] = said_[i]
  <2>1. PICK n \in Nat : n = 54
      OBVIOUS
  <2>2. rest \in Seq(Octet) /\ 1 + n <= Len(rest) + 1 /\ block = slice(rest, 1, n)
      BY ONLY <1>11, <1>13, <1>17, <2>1
  <2>3. Long(block, n) /\ \A i \in 1 .. n : block[i] = rest[1 + i - 1]
      BY ONLY <2>2, n \in Nat, 1 \in Nat \ {0}, Slice
  <2>4. \A i \in Nat \ {0} : i <= 54 => i \in 1 .. n /\ 1 + i - 1 = i
      BY ONLY <2>1
  <2> QED
      BY ONLY <1>16, <2>1, <2>3, <2>4
<1>19. Tells(block, d.programming_mode, d.individual_address, d.mac_address, d.name)
  <2>1. /\ block[1] = said_[1] /\ block[2] = said_[2] /\ block[4] = said_[4]
        /\ block[5] = said_[5] /\ block[6] = said_[6]
      BY ONLY <1>18
  <2>2. \A i \in 1 .. 6 : block[18 + i] = said_[18 + i]
    <3>1. \A i \in 1 .. 6 : 18 + i \in Nat \ {0} /\ 18 + i <= 54
        OBVIOUS
    <3> QED
        BY ONLY <1>18, <3>1
  <2>3. \A i \in Nat \ {0} : i <= 30 => block[24 + i] = said_[24 + i]
    <3>1. \A i \in Nat \ {0} : i <= 30 => 24 + i \in Nat \ {0} /\ 24 + i <= 54
        OBVIOUS
    <3> QED
        BY ONLY <1>18, <3>1
  <2> QED
      BY ONLY <1>15, <2>1, <2>2, <2>3, TellsAlike, Zenon
<1>20. about = <<block>>
  <2>1. rest[1] = 54 /\ rest[2] = 1
    <3>1. rest[1] = said_[1] /\ rest[2] = said_[2]
        BY ONLY <1>16
    <3> QED
        BY ONLY <1>15, <3>1 DEF Tells
  <2>2. rest \in Seq(Octet)
      BY ONLY <1>11
  <2> QED
      BY ONLY <1>4, <1>6, <1>13, <1>17, <2>1, <2>2, FirstBlock
<1>21. told = Ok(block)
  <2>1. about[1] = block
      BY ONLY <1>20
  <2> QED
      BY ONLY <1>5, <1>6, <2>1, ResultFacts DEF parse_device_information
<1>22. told.ok = block
    BY ONLY <1>21, ResultFacts
<1>23. friendly_name(block) = shown(d.name)
    BY ONLY <1>18, <1>19, d \in Description, DescriptionFacts, NameIsShown
<1>24. device_information(block).individual_address = d.individual_address
  <2>1. device_information(block).individual_address = u16(block, 5)
    <3>1. DeviceInformationAt.individual_address = 5
        BY DEF DeviceInformationAt
    <3> QED
        BY ONLY <3>1 DEF device_information
  <2>2. block[5] * 256 + block[6] = d.individual_address
      BY ONLY <1>19 DEF Tells
  <2> QED
      BY ONLY <2>1, <2>2, 5 + 1 = 6 DEF u16
<1>25. gateway = GatewayInfo(hpai_to_socket_addr(control, src), shown(d.name),
                             d.individual_address)
    BY ONLY <1>6, <1>12, <1>22, <1>23, <1>24, ResultFacts,
       gateway = parse_search_response(octets, src).ok
<1> QED
    BY ONLY <1>25 DEF GatewayInfo

-----------------------------------------------------------------------------
(* Where an answer leads.  What a server says of its address leads, for    *)
(* whoever hears it from that server, to where the server is reached.      *)
LEMMA SiteFacts ==
    ASSUME NEW s \in Server
    PROVE  /\ Site[s].host \in Ipv4 /\ Site[s].host # Unspecified
           /\ Site[s].own \in {<<>>, Site[s].host}
           /\ is_ipv4(Site[s].bound) => Site[s].bound.ip \in {Unspecified, Site[s].host}
           /\ Site[s].bound.port \in Word /\ Site[s].routing \in BOOLEAN
           /\ Site[s].description \in {<<>>} \cup {<<d>> : d \in MayBecome}
BY ServersAssumption

LEMMA ControlLeadsHome ==
    ASSUME NEW s \in Server, NEW requester, NEW control,
           control = control_endpoint(Site[s].bound, Site[s].own, requester)
    PROVE  control \in Endpoint /\ hpai_to_socket_addr(control, ServerSocket(s)) = ServerSocket(s)
<1>1. PICK host : host = Site[s].host
    OBVIOUS
<1>2. PICK port : port = Site[s].bound.port
    OBVIOUS
<1>3. host \in Ipv4 /\ host # Unspecified /\ port \in Word
    BY <1>1, <1>2, SiteFacts
<1>4. ServerSocket(s) = SocketAddr(host, port)
    BY <1>1, <1>2 DEF ServerSocket
<1>5. control = nat_udp(port) \/ control = Hpai("Ipv4Udp", host, port)
    BY <1>1, <1>2, SiteFacts DEF control_endpoint, Unspecified
<1>6. CASE control = nat_udp(port)
  <2>1. control.ip = Unspecified /\ control.port = port /\ control.protocol = "Ipv4Udp"
        /\ control = [protocol |-> control.protocol, ip |-> control.ip, port |-> control.port]
      BY <1>6 DEF nat_udp, Hpai, Unspecified
  <2>2. control \in Endpoint
      BY ONLY <1>3, <2>1, MulticastIps, Protocols DEF Endpoint
  <2>3. hpai_to_socket_addr(control, ServerSocket(s)) =
            socket_addr_with_port(ServerSocket(s), port)
      BY ONLY <2>1 DEF hpai_to_socket_addr, is_unspecified, Unspecified
  <2>4. socket_addr_with_port(SocketAddr(host, port), port) = SocketAddr(host, port)
      BY ONLY TRUE DEF socket_addr_with_port, SocketAddr
  <2> QED
      BY <1>4, <2>2, <2>3, <2>4
<1>7. CASE control = Hpai("Ipv4Udp", host, port)
  <2>1. control.ip = host /\ control.port = port /\ control.protocol = "Ipv4Udp"
        /\ control = [protocol |-> control.protocol, ip |-> control.ip, port |-> control.port]
      BY <1>7 DEF Hpai
  <2>2. control \in Endpoint
      BY ONLY <1>3, <2>1, Protocols DEF Endpoint
  <2>3. hpai_to_socket_addr(control, ServerSocket(s)) = SocketAddr(host, port)
      BY ONLY <1>3, <2>1 DEF hpai_to_socket_addr, is_unspecified, Unspecified
  <2> QED
      BY <1>4, <2>2, <2>3
<1> QED
    BY <1>5, <1>6, <1>7

-----------------------------------------------------------------------------
(* A datagram that looks like an answer to the search is what is left of   *)
(* one that a server sent since it began, about what it was then.          *)
LooksLikeAnswer(octets) == Len(octets) >= 4 /\ octets[3] = 2 /\ octets[4] = 2

Origin(g, s, d, history) ==
    \E control \in Endpoint : \E intact :
        /\ <<d>> \in history[s] /\ hpai_to_socket_addr(control, g.src) = ServerSocket(s)
        /\ IsAnswer(intact, 2, control, d, Site[s].routing) /\ Frayed(g.octets, intact)

Traced(g, history) ==
    /\ g = Datagram(g.octets, g.src, g.to) /\ g.octets \in Seq(Octet)
    /\ LooksLikeAnswer(g.octets) => \E s \in Server, d \in MayBecome : Origin(g, s, d, history)

DescriptionsOK ==
    /\ description \in [Server -> {<<>>} \cup {<<d>> : d \in MayBecome}]
    /\ DOMAIN said = Server
    /\ stage = "Searching" => \A s \in Server : description[s] \in said[s]

FoundIs(gateway, history) ==
    \E s \in Server, d \in MayBecome :
        /\ <<d>> \in history[s] /\ gateway.address = ServerSocket(s)
        /\ gateway.name = shown(d.name) /\ gateway.individual_address = d.individual_address

FoundOK ==
    /\ \E S : found \in Seq(S) /\ \A gateway \in S : FoundIs(gateway, said)
    /\ stage = "Idle" => found = <<>>

DInv ==
    /\ client \in Client /\ DescriptionsOK
    /\ stage = "Searching" => \A g \in net : Traced(g, said)
    /\ FoundOK

LEMMA NotAnAnswer ==
    ASSUME NEW frame, NEW n \in Nat, Long(frame.body, n), n + 6 \in Word,
           NEW minor \in Octet \ {2}, ServiceType[frame.service_type] = 512 + minor,
           NEW octets, octets = frame_to_bytes(frame).ok
    PROVE  octets \in Seq(Octet) /\ ~ LooksLikeAnswer(octets)
<1>1. PICK service : service = ServiceType[frame.service_type]
    OBVIOUS
<1>2. service = 512 + minor /\ service \in Word /\ service % 256 = minor
    BY <1>1, OctetFacts, WordFacts
<1>3. Long(octets, n + 6) /\ octets[4] = service % 256
  <2>1. ServiceType[frame.service_type] \in Word
      BY ONLY <1>1, <1>2
  <2>2. Long(octets, n + 6) /\ octets[4] = ServiceType[frame.service_type] % 256
      BY ONLY <2>1, n \in Nat, Long(frame.body, n), n + 6 \in Word,
         octets = frame_to_bytes(frame).ok, FrameOctets
  <2> QED
      BY ONLY <1>1, <2>2
<1>4. octets \in Seq(Octet)
    BY ONLY <1>3 DEF Long
<1>5. octets[4] # 2
    BY ONLY <1>2, <1>3, minor \in Octet \ {2}
<1> QED
    BY ONLY <1>4, <1>5 DEF LooksLikeAnswer

LEMMA SearchOctets ==
    ASSUME NEW hpai \in Endpoint, NEW octets,
           octets = frame_to_bytes(search_request(hpai)).ok
    PROVE  octets \in Seq(Octet) /\ ~ LooksLikeAnswer(octets)
<1>1. PICK frame : frame = search_request(hpai)
    OBVIOUS
<1>2. frame.service_type = "SearchRequest" /\ frame.body = hpai_to_bytes(hpai)
    BY <1>1 DEF search_request, Frame
<1>3. Long(frame.body, 8)
    BY ONLY <1>2, hpai \in Endpoint, HpaiOctets
<1>4. 8 \in Nat /\ 8 + 6 \in Word /\ 1 \in Octet \ {2} /\ 512 + 1 = 513
    BY ONLY OctetFacts, WordFacts
<1>5. ServiceType[frame.service_type] = 512 + 1
    BY ONLY <1>2, <1>4, ServiceCodes
<1> QED
    BY ONLY <1>1, <1>3, <1>4, <1>5, octets = frame_to_bytes(search_request(hpai)).ok, NotAnAnswer

LEMMA QueryFacts ==
    ASSUME NEW q \in Query
    PROVE  /\ q.endpoint \in Endpoint /\ q.srps \in Seq(Octet)
           /\ Len(q.srps) \in Nat /\ Len(q.srps) + 14 \in Word
<1>1. q.endpoint \in Endpoint /\ q.srps \in Seq(Octet)
      /\ HEADER_LEN + HPAI_LEN + Len(q.srps) <= 65535
    BY QueriesAssumption
<1>2. Len(q.srps) \in Nat
    BY ONLY <1>1
<1>3. HEADER_LEN + HPAI_LEN = 14
    BY DEF HEADER_LEN, HPAI_LEN
<1>4. Len(q.srps) + 14 \in Word
    BY ONLY <1>1, <1>2, <1>3, WordFacts
<1> QED
    BY ONLY <1>1, <1>2, <1>4

LEMMA AskedOctets ==
    ASSUME NEW q \in Query, NEW octets, octets = Asked(q).octets
    PROVE  octets \in Seq(Octet) /\ ~ LooksLikeAnswer(octets)
<1>1. PICK frame : frame = search_request_extended(q.endpoint, q.srps)
    OBVIOUS
<1>2. PICK front : front = hpai_to_bytes(q.endpoint)
    OBVIOUS
<1>3. PICK body : Joined(body, front, q.srps)
    BY DEF Joined
<1>4. frame.service_type = "SearchRequestExtended" /\ frame.body = body
    BY <1>1, <1>2, <1>3 DEF search_request_extended, Frame, Joined
<1>5. PICK k \in Nat : k = Len(q.srps)
    BY QueryFacts
<1>6. Long(front, 8) /\ Long(q.srps, k)
    BY ONLY <1>2, <1>5, q \in Query, QueryFacts, HpaiOctets DEF Long
<1>7. Long(frame.body, 8 + k)
    BY ONLY <1>3, <1>4, <1>6, 8 \in Nat, k \in Nat, Join
<1>8. 8 + k \in Nat /\ (8 + k) + 6 \in Word
  <2>1. k + 14 \in Word
      BY ONLY <1>5, q \in Query, QueryFacts
  <2> QED
      BY ONLY <2>1, k \in Nat, WordFacts
<1>9. 11 \in Octet \ {2} /\ 512 + 11 = 523
    BY ONLY OctetFacts
<1>10. ServiceType[frame.service_type] = 512 + 11
    BY ONLY <1>4, <1>9, ServiceCodes
<1>11. octets = frame_to_bytes(frame).ok
    BY <1>1 DEF Asked, Datagram
<1> QED
  <2>1. PICK n \in Nat : n = 8 + k
      BY ONLY <1>8
  <2>2. PICK minor \in Octet \ {2} : minor = 11
      BY ONLY <1>9
  <2>3. Long(frame.body, n) /\ n + 6 \in Word /\ ServiceType[frame.service_type] = 512 + minor
      BY ONLY <1>7, <1>8, <1>10, <2>1, <2>2
  <2> QED
      BY ONLY <1>11, <2>3, n \in Nat, minor \in Octet \ {2}, NotAnAnswer

LEMMA Described ==
    ASSUME NEW speaker, NEW description_, NEW octets, NEW src, NEW answer,
           answer = describe(speaker, description_, octets, src), IsOk(answer),
           NEW frame, frame = parse_frame(octets).ok,
           NEW control, control = control_endpoint(speaker.bound, speaker.own, src),
           NEW about, about = dibs(description_[1], speaker.routing)
    PROVE  /\ description_ # <<>> /\ IsOk(parse_frame(octets))
           /\ IsOk(reply_endpoint(frame.body, src))
           /\ answer.ok.to = reply_endpoint(frame.body, src).ok
           /\ \/ /\ frame.service_type = "SearchRequest"
                 /\ answer.ok.octets = frame_to_bytes(search_response(control, about)).ok
              \/ /\ frame.service_type = "SearchRequestExtended"
                 /\ answer.ok.octets = frame_to_bytes(search_response_extended(control, about)).ok
                 /\ answers_extended_search(description_[1], from(frame.body, 9), speaker.routing)
              \/ /\ frame.service_type = "DescriptionRequest"
                 /\ answer.ok.octets = frame_to_bytes(description_response(about)).ok
<1>1. PICK told : told = reply_endpoint(frame.body, src)
    OBVIOUS
<1>2. HPAI_LEN + 1 = 9
    BY DEF HPAI_LEN
<1>3. IsOk(parse_frame(octets))
    BY DEF describe, Then
<1>4. answer = CASE description_ = <<>> -> Err("NoDescription")
          [] description_ # <<>> /\ frame.service_type = "SearchRequest" ->
               handle_search(speaker, description_[1], frame, src)
          [] description_ # <<>> /\ frame.service_type = "SearchRequestExtended" ->
               handle_search_extended(speaker, description_[1], frame, src)
          [] description_ # <<>> /\ frame.service_type = "DescriptionRequest" ->
               handle_description(speaker, description_[1], frame, src)
          [] OTHER -> Err("NotAboutTheServer")
    BY <1>3 DEF describe, Then
<1>5. description_ # <<>>
    BY ONLY <1>4, IsOk(answer), ResultFacts
<1>6. \A f, t : Answer(f, t).octets = frame_to_bytes(f).ok /\ Answer(f, t).to = t
    BY DEF Answer
<1>7. CASE frame.service_type = "SearchRequest"
  <2>1. answer = handle_search(speaker, description_[1], frame, src)
      BY ONLY <1>4, <1>5, <1>7
  <2>2. IsOk(told) /\ answer = Ok(Answer(search_response(control, about), told.ok))
      BY ONLY <1>1, <2>1, IsOk(answer), about = dibs(description_[1], speaker.routing),
         control = control_endpoint(speaker.bound, speaker.own, src) DEF handle_search, Then
  <2> QED
      BY ONLY <1>1, <1>3, <1>5, <1>6, <1>7, <2>2, ResultFacts
<1>8. CASE frame.service_type = "SearchRequestExtended"
  <2>1. answer = handle_search_extended(speaker, description_[1], frame, src)
      BY ONLY <1>4, <1>5, <1>8
  <2>2. IsOk(told)
      BY ONLY <1>1, <2>1, IsOk(answer) DEF handle_search_extended, Then
  <2>3. answer = IF ~ answers_extended_search(description_[1], from(frame.body, 9),
                                              speaker.routing)
                 THEN Err("Excluded")
                 ELSE Ok(Answer(search_response_extended(control, about), told.ok))
      BY ONLY <1>1, <1>2, <2>1, <2>2, about = dibs(description_[1], speaker.routing),
         control = control_endpoint(speaker.bound, speaker.own, src)
         DEF handle_search_extended, Then
  <2>4. answers_extended_search(description_[1], from(frame.body, 9), speaker.routing)
        /\ answer = Ok(Answer(search_response_extended(control, about), told.ok))
      BY ONLY <2>3, IsOk(answer), ResultFacts
  <2> QED
      BY ONLY <1>1, <1>3, <1>5, <1>6, <1>8, <2>2, <2>4, ResultFacts
<1>9. CASE frame.service_type = "DescriptionRequest"
  <2>1. answer = handle_description(speaker, description_[1], frame, src)
      BY ONLY <1>4, <1>5, <1>9
  <2>2. IsOk(told) /\ answer = Ok(Answer(description_response(about), told.ok))
      BY ONLY <1>1, <2>1, IsOk(answer), about = dibs(description_[1], speaker.routing)
         DEF handle_description, Then
  <2> QED
      BY ONLY <1>1, <1>3, <1>5, <1>6, <1>9, <2>2, ResultFacts
<1>10. \/ frame.service_type = "SearchRequest" \/ frame.service_type = "SearchRequestExtended"
       \/ frame.service_type = "DescriptionRequest"
    BY ONLY <1>4, <1>5, IsOk(answer), ResultFacts
<1> QED
    BY ONLY <1>7, <1>8, <1>9, <1>10

LEMMA ClientEndpoint ==
    ASSUME NEW c \in Client
    PROVE  Hpai("Ipv4Udp", c.local, c.socket.port) \in Endpoint
<1>1. c.socket \in Socket /\ c.local \in {Unspecified, c.socket.ip}
    BY ClientsAssumption
<1>2. c.socket.ip \in Ipv4 /\ c.socket.port \in Word
    BY ONLY <1>1 DEF Socket
<1>3. c.local \in Ipv4
    BY ONLY <1>1, <1>2, MulticastIps
<1> QED
    BY ONLY <1>2, <1>3, Protocols DEF Endpoint, Hpai

LEMMA DatagramFields ==
    ASSUME NEW octets, NEW src, NEW to
    PROVE  /\ Datagram(octets, src, to).octets = octets /\ Datagram(octets, src, to).src = src
           /\ Datagram(octets, src, to).to = to
           /\ \A other : [Datagram(octets, src, to) EXCEPT !.octets = other]
                             = Datagram(other, src, to)
BY DEF Datagram

LEMMA Unlike ==
    ASSUME NEW octets \in Seq(Octet), ~ LooksLikeAnswer(octets), NEW src, NEW to, NEW history
    PROVE  Traced(Datagram(octets, src, to), history)
<1>1. PICK g : g = Datagram(octets, src, to)
    OBVIOUS
<1>2. g.octets = octets /\ g = Datagram(g.octets, g.src, g.to)
    BY ONLY <1>1, DatagramFields
<1> QED
    BY <1>1, <1>2 DEF Traced

LEMMA WholeIsFrayed ==
    ASSUME NEW octets \in Seq(Octet)
    PROVE  Frayed(octets, octets)
<1>1. Len(octets) \in Nat /\ Len(octets) <= Len(octets)
      /\ \A i \in 1 .. Len(octets) : i <= Len(octets)
    OBVIOUS
<1> QED
    BY ONLY <1>1 DEF Frayed

LEMMA CutIsFrayed ==
    ASSUME NEW octets \in Seq(Octet), NEW cut, cut = SubSeq(octets, 1, Len(octets) - 1)
    PROVE  /\ cut \in Seq(Octet) /\ (LooksLikeAnswer(cut) => LooksLikeAnswer(octets))
           /\ \A intact : Frayed(octets, intact) => Frayed(cut, intact)
<1>1. /\ cut \in Seq(Octet) /\ Len(cut) \in Nat /\ Len(octets) \in Nat /\ Len(cut) <= Len(octets)
      /\ \A i \in 1 .. Len(cut) : i \in 1 .. Len(octets) /\ cut[i] = octets[i]
    OBVIOUS
<1>2. LooksLikeAnswer(cut) => LooksLikeAnswer(octets)
    BY ONLY <1>1 DEF LooksLikeAnswer
<1>3. ASSUME NEW intact, Frayed(octets, intact)
      PROVE  Frayed(cut, intact)
  <2>1. PICK n \in Nat : n <= Len(octets) /\ \A i \in 1 .. Len(octets) :
                              octets[i] = IF i <= n THEN intact[i] ELSE 0
      BY <1>3 DEF Frayed
  <2>2. PICK m \in Nat : m = IF n <= Len(cut) THEN n ELSE Len(cut)
      BY <1>1
  <2>3. m <= Len(cut) /\ \A i \in 1 .. Len(cut) : i <= m <=> i <= n
      BY ONLY <1>1, <2>2, n \in Nat
  <2>4. \A i \in 1 .. Len(cut) : cut[i] = IF i <= m THEN intact[i] ELSE 0
      BY ONLY <1>1, <2>1, <2>3
  <2> QED
      BY ONLY <2>3, <2>4, m \in Nat DEF Frayed
<1> QED
    BY ONLY <1>1, <1>2, <1>3

LEMMA FilledIsFrayed ==
    ASSUME NEW octets \in Seq(Octet), NEW more, more = Append(octets, 0)
    PROVE  /\ more \in Seq(Octet) /\ (LooksLikeAnswer(more) => LooksLikeAnswer(octets))
           /\ \A intact : Frayed(octets, intact) => Frayed(more, intact)
<1>0. 0 \in Octet
    BY OctetFacts
<1>1. /\ more \in Seq(Octet) /\ Len(more) = Len(octets) + 1 /\ Len(octets) \in Nat
      /\ more[Len(octets) + 1] = 0 /\ \A i \in 1 .. Len(octets) : more[i] = octets[i]
    BY <1>0
<1>2. LooksLikeAnswer(more) => LooksLikeAnswer(octets)
  <2>1. SUFFICES ASSUME LooksLikeAnswer(more) PROVE LooksLikeAnswer(octets)
      OBVIOUS
  <2>2. Len(octets) >= 3 /\ more[3] = 2 /\ more[4] = 2
      BY ONLY <1>1, <2>1 DEF LooksLikeAnswer
  <2>3. Len(octets) # 3
      BY ONLY <1>1, <2>2
  <2>4. Len(octets) >= 4
      BY ONLY <1>1, <2>2, <2>3
  <2> QED
      BY ONLY <1>1, <2>2, <2>4 DEF LooksLikeAnswer
<1>3. ASSUME NEW intact, Frayed(octets, intact)
      PROVE  Frayed(more, intact)
  <2>1. PICK n \in Nat : n <= Len(octets) /\ \A i \in 1 .. Len(octets) :
                              octets[i] = IF i <= n THEN intact[i] ELSE 0
      BY <1>3 DEF Frayed
  <2>2. ASSUME NEW i \in 1 .. Len(more)
        PROVE  more[i] = IF i <= n THEN intact[i] ELSE 0
    <3>1. CASE i \in 1 .. Len(octets)
        BY ONLY <1>1, <2>1, <3>1
    <3>2. CASE i = Len(octets) + 1
      <4>1. ~ (i <= n)
          BY ONLY <1>1, <2>1, <3>2, n \in Nat
      <4> QED
          BY ONLY <1>1, <3>2, <4>1
    <3>3. i \in 1 .. Len(octets) \/ i = Len(octets) + 1
        BY ONLY <1>1, i \in 1 .. Len(more)
    <3> QED
        BY ONLY <3>1, <3>2, <3>3
  <2>3. n <= Len(more)
      BY ONLY <1>1, <2>1
  <2> QED
      BY ONLY <2>2, <2>3, n \in Nat DEF Frayed
<1> QED
    BY ONLY <1>1, <1>2, <1>3

LEMMA DamagedIsTraced ==
    ASSUME NEW g, NEW history, Traced(g, history), NEW octets,
           octets \in {SubSeq(g.octets, 1, Len(g.octets) - 1), Append(g.octets, 0)}
    PROVE  Traced([g EXCEPT !.octets = octets], history)
<1>1. PICK damaged_ : damaged_ = [g EXCEPT !.octets = octets]
    OBVIOUS
<1>2. g = Datagram(g.octets, g.src, g.to) /\ g.octets \in Seq(Octet)
      /\ (LooksLikeAnswer(g.octets) =>
              \E s \in Server, d \in MayBecome : Origin(g, s, d, history))
    BY DEF Traced
<1>3. damaged_ = Datagram(octets, g.src, g.to)
    BY ONLY <1>1, <1>2, DatagramFields
<1>4. damaged_ = Datagram(damaged_.octets, damaged_.src, damaged_.to)
      /\ damaged_.octets = octets /\ damaged_.src = g.src
    BY ONLY <1>3, DatagramFields
<1>5. octets \in Seq(Octet) /\ (LooksLikeAnswer(octets) => LooksLikeAnswer(g.octets))
      /\ \A intact : Frayed(g.octets, intact) => Frayed(octets, intact)
  <2>1. CASE octets = SubSeq(g.octets, 1, Len(g.octets) - 1)
      BY ONLY <1>2, <2>1, CutIsFrayed
  <2>2. CASE octets = Append(g.octets, 0)
      BY ONLY <1>2, <2>2, FilledIsFrayed
  <2> QED
      BY <2>1, <2>2
<1>6. ASSUME NEW s, NEW d, Origin(g, s, d, history)
      PROVE  Origin(damaged_, s, d, history)
    BY ONLY <1>4, <1>5, <1>6 DEF Origin
<1> QED
    BY ONLY <1>1, <1>2, <1>4, <1>5, <1>6 DEF Traced

LEMMA DescriptionOctets ==
    ASSUME NEW d \in Description, NEW routing \in BOOLEAN, NEW about, about = dibs(d, routing),
           NEW octets, octets = frame_to_bytes(description_response(about)).ok
    PROVE  octets \in Seq(Octet) /\ ~ LooksLikeAnswer(octets)
<1>1. PICK frame : frame = description_response(about)
    OBVIOUS
<1>2. frame.service_type = "DescriptionResponse" /\ frame.body = about
    BY <1>1 DEF description_response, Frame
<1>3. PICK n \in Nat : n = IF routing THEN 62 ELSE 60
    OBVIOUS
<1>4. Long(frame.body, n)
  <2>1. Says(about, d, routing)
      BY DibsSay
  <2> QED
      BY ONLY <1>2, <1>3, <2>1 DEF Says
<1>5. n + 6 \in Word
    BY ONLY <1>3, WordFacts
<1>6. 4 \in Octet \ {2} /\ ServiceType[frame.service_type] = 512 + 4
    BY ONLY <1>2, ServiceCodes, OctetFacts
<1>7. octets = frame_to_bytes(frame).ok
    BY <1>1
<1> QED
    BY ONLY <1>4, <1>5, <1>6, <1>7, n \in Nat, NotAnAnswer

LEMMA AnswerIsTraced ==
    ASSUME NEW s \in Server, NEW d \in MayBecome, NEW history, <<d>> \in history[s],
           NEW octets, NEW src, NEW answer, answer = describe(Site[s], <<d>>, octets, src),
           IsOk(answer), NEW to
    PROVE  Traced(Datagram(answer.ok.octets, ServerSocket(s), to), history)
<1>1. PICK routing : routing = Site[s].routing
    OBVIOUS
<1>2. PICK control : control = control_endpoint(Site[s].bound, Site[s].own, src)
    OBVIOUS
<1>3. PICK about : about = dibs(d, routing)
    OBVIOUS
<1>4. PICK frame : frame = parse_frame(octets).ok
    OBVIOUS
<1>5. PICK reply : reply = answer.ok.octets
    OBVIOUS
<1>6. routing \in BOOLEAN /\ d \in Description
    BY <1>1, SiteFacts, ServersAssumption
<1>7. control \in Endpoint /\ hpai_to_socket_addr(control, ServerSocket(s)) = ServerSocket(s)
    BY <1>2, ControlLeadsHome
<1>8. \/ reply = frame_to_bytes(search_response(control, about)).ok
      \/ reply = frame_to_bytes(search_response_extended(control, about)).ok
      \/ reply = frame_to_bytes(description_response(about)).ok
  <2>1. PICK told : told = <<d>>
      OBVIOUS
  <2>2. told[1] = d
      BY <2>1
  <2>3. about = dibs(told[1], Site[s].routing) /\ answer = describe(Site[s], told, octets, src)
      BY <1>1, <1>3, <2>1, <2>2
  <2> QED
      BY ONLY <1>2, <1>4, <1>5, <2>3, IsOk(answer), Described
<1>9. CASE reply = frame_to_bytes(search_response(control, about)).ok
  <2>1. PICK f : f = search_response(control, about)
      OBVIOUS
  <2>2. f.service_type = "SearchResponse" /\ f.body = hpai_to_bytes(control) \o dibs(d, routing)
      BY ONLY <1>3, <2>1 DEF search_response, Frame
  <2>3. 2 \in {2, 12} /\ ServiceType[f.service_type] = 512 + 2
      BY ONLY <2>2, ServiceCodes
  <2>4. reply = frame_to_bytes(f).ok
      BY ONLY <1>9, <2>1
  <2>5. IsAnswer(reply, 2, control, d, routing)
      BY ONLY <1>6, <1>7, <2>2, <2>3, <2>4, ResponseFrame
  <2>6. reply \in Seq(Octet)
      BY ONLY <2>5 DEF IsAnswer, Long
  <2>7. Frayed(reply, reply)
      BY ONLY <2>6, WholeIsFrayed
  <2>8. PICK g : g = Datagram(reply, ServerSocket(s), to)
      OBVIOUS
  <2>9. g.octets = reply /\ g.src = ServerSocket(s) /\ g = Datagram(g.octets, g.src, g.to)
      BY ONLY <2>8, DatagramFields
  <2>10. Origin(g, s, d, history)
      BY ONLY <1>1, <1>7, <2>5, <2>7, <2>9, <<d>> \in history[s], Zenon DEF Origin
  <2>11. Traced(g, history)
      BY ONLY <2>6, <2>9, <2>10, s \in Server, d \in MayBecome, Zenon DEF Traced
  <2> QED
      BY ONLY <1>5, <2>8, <2>11
<1>10. CASE reply = frame_to_bytes(search_response_extended(control, about)).ok
  <2>1. PICK f : f = search_response_extended(control, about)
      OBVIOUS
  <2>2. f.service_type = "SearchResponseExtended"
        /\ f.body = hpai_to_bytes(control) \o dibs(d, routing)
    <3>1. PICK body : body = hpai_to_bytes(control) \o dibs(d, routing)
        OBVIOUS
    <3>2. f = [Frame("SearchResponse", body) EXCEPT !.service_type = "SearchResponseExtended"]
        BY ONLY <1>3, <2>1, <3>1 DEF search_response_extended, search_response
    <3> QED
        BY ONLY <3>1, <3>2 DEF Frame
  <2>3. 12 \in {2, 12} /\ ServiceType[f.service_type] = 512 + 12
      BY ONLY <2>2, ServiceCodes
  <2>4. reply = frame_to_bytes(f).ok
      BY ONLY <1>10, <2>1
  <2>5. IsAnswer(reply, 12, control, d, routing)
      BY ONLY <1>6, <1>7, <2>2, <2>3, <2>4, ResponseFrame
  <2>6. reply \in Seq(Octet) /\ ~ LooksLikeAnswer(reply)
      BY ONLY <2>5 DEF IsAnswer, Long, LooksLikeAnswer
  <2> QED
      BY ONLY <1>5, <2>6, Unlike
<1>11. CASE reply = frame_to_bytes(description_response(about)).ok
  <2>1. reply \in Seq(Octet) /\ ~ LooksLikeAnswer(reply)
      BY ONLY <1>3, <1>6, <1>11, DescriptionOctets
  <2> QED
      BY ONLY <1>5, <2>1, Unlike
<1> QED
    BY ONLY <1>8, <1>9, <1>10, <1>11

LEMMA MoreFound ==
    ASSUME NEW S, NEW s \in Seq(S), NEW x
    PROVE  Append(s, x) \in Seq(S \cup {x})
OBVIOUS

LEMMA MoreSaid ==
    ASSUME NEW before, NEW after, \A s \in Server : before[s] \subseteq after[s]
    PROVE  /\ \A g : Traced(g, before) => Traced(g, after)
           /\ \A gateway : FoundIs(gateway, before) => FoundIs(gateway, after)
<1>1. \A g, s, d : s \in Server /\ Origin(g, s, d, before) => Origin(g, s, d, after)
    BY DEF Origin
<1> QED
    BY <1>1 DEF Traced, FoundIs

LEMMA GatewayIsFound ==
    ASSUME NEW g, NEW history, Traced(g, history), IsOk(parse_search_response(g.octets, g.src)),
           NEW gateway, gateway = parse_search_response(g.octets, g.src).ok
    PROVE  FoundIs(gateway, history)
<1>1. PICK octets : octets = g.octets
    OBVIOUS
<1>2. PICK src : src = g.src
    OBVIOUS
<1>3. PICK frame : frame = parse_frame(octets).ok
    OBVIOUS
<1>4. octets \in Seq(Octet)
    BY <1>1 DEF Traced
<1>5. IsOk(parse_frame(octets)) /\ frame.service_type = "SearchResponse"
  <2>1. IsOk(parse_search_response(octets, src))
      BY <1>1, <1>2
  <2>2. PICK body : body = frame.body
      OBVIOUS
  <2>3. PICK rest : rest = from(body, 9)
      OBVIOUS
  <2>4. PICK about : about = get_raw(parse_dibs(rest).ok, DibType.DeviceInformation)
      OBVIOUS
  <2>5. PICK told : told = parse_device_information(about[1])
      OBVIOUS
  <2>6. IsRead(octets, src, frame, body, rest, told)
      BY ONLY <1>3, <2>1, <2>2, <2>3, <2>4, <2>5, SearchResponseParsed
  <2> QED
      BY ONLY <2>6, Zenon DEF IsRead
<1>6. Len(octets) >= 6 /\ ServiceType[frame.service_type] = octets[3] * 256 + octets[4]
    BY ONLY <1>3, <1>4, <1>5, ParsedFrame
<1>7. LooksLikeAnswer(octets)
  <2>1. Len(octets) \in Nat
      BY ONLY <1>4
  <2>2. 3 \in 1 .. Len(octets) /\ 4 \in 1 .. Len(octets)
      BY ONLY <1>6, <2>1
  <2>3. octets[3] \in Octet /\ octets[4] \in Octet
      BY ONLY <1>4, <2>2, Member
  <2>4. octets[3] * 256 + octets[4] = 514
      BY ONLY <1>5, <1>6, ServiceCodes
  <2> QED
      BY ONLY <1>6, <2>1, <2>3, <2>4, OctetFacts DEF LooksLikeAnswer
<1>8. PICK s \in Server, d \in MayBecome : Origin(g, s, d, history)
    BY <1>1, <1>7 DEF Traced
<1>12. PICK control \in Endpoint : \E intact :
        /\ <<d>> \in history[s] /\ hpai_to_socket_addr(control, src) = ServerSocket(s)
        /\ IsAnswer(intact, 2, control, d, Site[s].routing) /\ Frayed(octets, intact)
    BY ONLY <1>1, <1>2, <1>8 DEF Origin
<1>9. PICK intact :
        /\ <<d>> \in history[s] /\ hpai_to_socket_addr(control, src) = ServerSocket(s)
        /\ IsAnswer(intact, 2, control, d, Site[s].routing) /\ Frayed(octets, intact)
    BY ONLY <1>12
<1>10. d \in Description /\ Site[s].routing \in BOOLEAN
    BY SiteFacts, ServersAssumption
<1>11. gateway.address = ServerSocket(s) /\ gateway.name = shown(d.name)
       /\ gateway.individual_address = d.individual_address
  <2>1. PICK routing : routing = Site[s].routing
      OBVIOUS
  <2>2. routing \in BOOLEAN /\ IsAnswer(intact, 2, control, d, routing) /\ Frayed(octets, intact)
        /\ hpai_to_socket_addr(control, src) = ServerSocket(s)
      BY ONLY <1>9, <1>10, <2>1
  <2>3. IsOk(parse_search_response(octets, src)) /\ gateway = parse_search_response(octets, src).ok
      BY <1>1, <1>2
  <2>4. gateway.address = hpai_to_socket_addr(control, src) /\ gateway.name = shown(d.name)
        /\ gateway.individual_address = d.individual_address
      BY ONLY <1>4, <1>10, <2>2, <2>3, control \in Endpoint, FoundInFrayed
  <2> QED
      BY ONLY <2>2, <2>4
<1> QED
    BY ONLY <1>9, <1>11, s \in Server, d \in MayBecome DEF FoundIs

LEMMA InitFound == WireInit => DInv
<1> SUFFICES ASSUME WireInit PROVE DInv
    OBVIOUS
<1>1. client \in Client /\ DOMAIN said = Server /\ found = <<>> /\ stage = "Idle"
      /\ stage # "Searching"
    BY DEF WireInit
<1>2. description \in [Server -> {<<>>} \cup {<<d>> : d \in MayBecome}]
    BY SiteFacts DEF WireInit
<1>3. FoundOK
  <2>1. found \in Seq({})
      BY <1>1
  <2> QED
      BY <1>1, <2>1 DEF FoundOK
<1> QED
    BY <1>1, <1>2, <1>3 DEF DInv, DescriptionsOK

\* What a step that finds nothing does to what was found.
LEMMA SearchKeepsFound ==
    ASSUME DInv, Search
    PROVE  DInv'
<1>1. /\ stage = "Idle" /\ stage' = "Searching" /\ client' = client /\ found' = found
      /\ description' = description /\ said' = [s \in Server |-> {description[s]}]
      /\ net' = {Datagram(frame_to_bytes(search_request(discovery_hpai)).ok,
                          client.socket, Multicast)}
    BY DEF Search
<1>2. client \in Client /\ DescriptionsOK /\ found = <<>>
    BY <1>1 DEF DInv, FoundOK
<1>3. DescriptionsOK'
    BY <1>1, <1>2 DEF DescriptionsOK
<1>4. FoundOK'
  <2>1. found' \in Seq({})
      BY <1>1, <1>2
  <2>2. stage' # "Idle"
      BY <1>1
  <2> QED
      BY <2>1, <2>2 DEF FoundOK
<1>5. ASSUME NEW g \in net' PROVE Traced(g, said')
  <2>1. PICK octets : octets = frame_to_bytes(search_request(discovery_hpai)).ok
      OBVIOUS
  <2>2. discovery_hpai \in Endpoint
      BY <1>2, ClientEndpoint DEF discovery_hpai
  <2>3. octets \in Seq(Octet) /\ ~ LooksLikeAnswer(octets)
      BY ONLY <2>1, <2>2, SearchOctets
  <2>4. g = Datagram(octets, client.socket, Multicast)
      BY <1>1, <2>1
  <2> QED
      BY ONLY <2>3, <2>4, Unlike
<1> QED
    BY <1>1, <1>2, <1>3, <1>4, <1>5 DEF DInv

LEMMA SameSearch ==
    ASSUME DInv, stage = "Searching", stage' = "Searching", client' = client,
           description' = description, said' = said, found' = found,
           \A g \in net' : g \in net \/ Traced(g, said)
    PROVE  DInv'
<1>1. /\ client \in Client /\ DescriptionsOK /\ FoundOK /\ \A g \in net : Traced(g, said)
    BY DEF DInv
<1>2. DescriptionsOK' /\ FoundOK'
    BY <1>1 DEF DescriptionsOK, FoundOK
<1>3. \A g \in net' : Traced(g, said')
    BY <1>1
<1> QED
    BY <1>1, <1>2, <1>3 DEF DInv

LEMMA AskKeepsFound ==
    ASSUME DInv, NEW q \in Query, Ask(q)
    PROVE  DInv'
<1>1. /\ stage = "Searching" /\ stage' = "Searching" /\ client' = client /\ found' = found
      /\ description' = description /\ said' = said /\ net' = net \cup {Asked(q)}
    BY DEF Ask
<1>2. Traced(Asked(q), said)
  <2>1. PICK octets : octets = frame_to_bytes(search_request_extended(q.endpoint, q.srps)).ok
      OBVIOUS
  <2>2. Asked(q) = Datagram(octets, q.socket, Multicast)
      BY <2>1 DEF Asked
  <2>3. octets = Asked(q).octets
      BY ONLY <2>2, DatagramFields
  <2>4. octets \in Seq(Octet) /\ ~ LooksLikeAnswer(octets)
      BY ONLY <2>3, q \in Query, AskedOctets
  <2> QED
      BY ONLY <2>2, <2>4, Unlike
<1>3. \A g \in net' : g \in net \/ Traced(g, said)
    BY ONLY <1>1, <1>2
<1> QED
    BY ONLY <1>1, <1>3, DInv, SameSearch

LEMMA DescribeKeepsFound ==
    ASSUME DInv, NEW s \in Server, NEW g \in net, DescribeItself(s, g)
    PROVE  DInv'
<1>1. PICK answer : answer = describe(Site[s], description[s], g.octets, g.src)
    OBVIOUS
<1>2. /\ stage = "Searching" /\ stage' = "Searching" /\ client' = client /\ found' = found
      /\ description' = description /\ said' = said /\ IsOk(answer)
      /\ net' = net \cup {Datagram(answer.ok.octets, ServerSocket(s), answer.ok.to)}
    BY <1>1 DEF DescribeItself
<1>3. description[s] \in {<<>>} \cup {<<d>> : d \in MayBecome} /\ description[s] \in said[s]
    BY <1>2 DEF DInv, DescriptionsOK
<1>4. description[s] # <<>>
  <2>1. PICK told : told = description[s]
      OBVIOUS
  <2>2. PICK octets : octets = g.octets
      OBVIOUS
  <2>3. PICK src : src = g.src
      OBVIOUS
  <2>4. answer = describe(Site[s], told, octets, src)
      BY <1>1, <2>1, <2>2, <2>3
  <2>5. told # <<>>
      BY ONLY <1>2, <2>4, Described
  <2> QED
      BY ONLY <2>1, <2>5
<1>5. PICK d \in MayBecome : description[s] = <<d>>
    BY <1>3, <1>4
<1>6. Traced(Datagram(answer.ok.octets, ServerSocket(s), answer.ok.to), said)
  <2>1. answer = describe(Site[s], <<d>>, g.octets, g.src) /\ <<d>> \in said[s]
      BY ONLY <1>1, <1>3, <1>5
  <2> QED
      BY ONLY <1>2, <2>1, s \in Server, d \in MayBecome, AnswerIsTraced
<1>7. \A h \in net' : h \in net \/ Traced(h, said)
    BY ONLY <1>2, <1>6
<1> QED
    BY ONLY <1>2, <1>7, DInv, SameSearch

LEMMA DamageKeepsFound ==
    ASSUME DInv, NEW g \in net, Damage(g)
    PROVE  DInv'
<1>1. /\ stage = "Searching" /\ stage' = "Searching" /\ client' = client /\ found' = found
      /\ description' = description /\ said' = said
    BY DEF Damage
<1>2. PICK octets \in {SubSeq(g.octets, 1, Len(g.octets) - 1), Append(g.octets, 0)} :
          net' = net \cup {[g EXCEPT !.octets = octets]}
    BY DEF Damage
<1>3. Traced(g, said)
    BY <1>1 DEF DInv
<1>4. Traced([g EXCEPT !.octets = octets], said)
    BY ONLY <1>2, <1>3, DamagedIsTraced
<1>5. \A h \in net' : h \in net \/ Traced(h, said)
    BY ONLY <1>2, <1>4
<1> QED
    BY ONLY <1>1, <1>5, DInv, SameSearch

LEMMA SetKeepsFound ==
    ASSUME DInv, NEW s \in Server, NEW d \in MayBecome, SetDescription(s, d)
    PROVE  DInv'
<1>1. /\ stage' = stage /\ client' = client /\ found' = found /\ net' = net
      /\ description' = [description EXCEPT ![s] = <<d>>]
      /\ said' = [said EXCEPT ![s] = IF stage = "Searching" THEN @ \cup {<<d>>} ELSE @]
    BY DEF SetDescription
<1>2. client \in Client /\ DescriptionsOK /\ FoundOK
      /\ (stage = "Searching" => \A g \in net : Traced(g, said))
    BY DEF DInv
<1>3. \A t \in Server : said[t] \subseteq said'[t]
    BY <1>1, <1>2 DEF DescriptionsOK
<1>4. (\A g : Traced(g, said) => Traced(g, said'))
      /\ \A gateway : FoundIs(gateway, said) => FoundIs(gateway, said')
    BY ONLY <1>3, MoreSaid
<1>5. DescriptionsOK'
    BY <1>1, <1>2 DEF DescriptionsOK
<1>6. FoundOK'
    BY <1>1, <1>2, <1>4 DEF FoundOK
<1> QED
    BY <1>1, <1>2, <1>4, <1>5, <1>6 DEF DInv

LEMMA CollectKeepsFound ==
    ASSUME DInv, NEW g \in net, CollectAnswer(g)
    PROVE  DInv'
<1>1. PICK gateway : gateway = parse_search_response(g.octets, g.src).ok
    OBVIOUS
<1>2. /\ stage = "Searching" /\ stage' = stage /\ client' = client /\ net' = net
      /\ description' = description /\ said' = said /\ found' = Append(found, gateway)
      /\ IsOk(parse_search_response(g.octets, g.src))
    BY <1>1 DEF CollectAnswer
<1>3. client \in Client /\ DescriptionsOK /\ FoundOK /\ \A h \in net : Traced(h, said)
    BY <1>2 DEF DInv
<1>4. FoundIs(gateway, said)
    BY ONLY <1>1, <1>2, <1>3, g \in net, GatewayIsFound
<1>5. PICK S : found \in Seq(S) /\ \A h \in S : FoundIs(h, said)
    BY <1>3 DEF FoundOK
<1>6. Append(found, gateway) \in Seq(S \cup {gateway})
    BY ONLY <1>5, MoreFound
<1>7. found' \in Seq(S \cup {gateway}) /\ \A h \in S \cup {gateway} : FoundIs(h, said')
    BY ONLY <1>2, <1>4, <1>5, <1>6
<1>8. stage' # "Idle"
    BY <1>2
<1>9. FoundOK'
    BY ONLY <1>7, <1>8 DEF FoundOK
<1>10. DescriptionsOK'
    BY <1>2, <1>3 DEF DescriptionsOK
<1> QED
    BY <1>2, <1>3, <1>9, <1>10 DEF DInv

LEMMA ConnectKeepsFound ==
    ASSUME DInv, NEW addr, Connect(addr)
    PROVE  DInv'
<1>1. /\ stage' # "Searching" /\ client' = client /\ found' = <<>>
      /\ description' = description /\ said' = [s \in Server |-> {}]
    BY DEF Connect
<1>2. client \in Client /\ DescriptionsOK
    BY DEF DInv
<1>3. DescriptionsOK'
    BY <1>1, <1>2 DEF DescriptionsOK
<1>4. FoundOK'
  <2>1. found' \in Seq({})
      BY <1>1
  <2> QED
      BY <1>1, <2>1 DEF FoundOK
<1> QED
    BY <1>1, <1>2, <1>3, <1>4 DEF DInv

\* Outside a search nothing is found and nobody says anything.
LEMMA ElsewhereKeepsFound ==
    ASSUME DInv, stage' \in {stage, "Searched", "Connected"}, stage' = "Searching" => net' = net,
           client' = client, description' = description, said' = said, found' = found
    PROVE  DInv'
<1>1. client \in Client /\ DescriptionsOK /\ FoundOK
      /\ (stage = "Searching" => \A g \in net : Traced(g, said))
    BY DEF DInv
<1>2. stage' = "Searching" => stage = "Searching" /\ net' = net
    OBVIOUS
<1>3. stage' = "Idle" => stage = "Idle"
    OBVIOUS
<1>4. DescriptionsOK'
    BY <1>1, <1>2 DEF DescriptionsOK
<1>5. FoundOK'
    BY <1>1, <1>3 DEF FoundOK
<1> QED
    BY <1>1, <1>2, <1>4, <1>5 DEF DInv

LEMMA NextFound == DInv /\ [WireNext]_wire_vars => DInv'
<1> SUFFICES ASSUME DInv, [WireNext]_wire_vars PROVE DInv'
    OBVIOUS
<1>1. CASE Search
    BY ONLY <1>1, DInv, SearchKeepsFound
<1>2. ASSUME NEW q \in Query, Ask(q) PROVE DInv'
    BY ONLY <1>2, DInv, AskKeepsFound
<1>3. ASSUME NEW s \in Server, NEW g \in net, DescribeItself(s, g) PROVE DInv'
    BY ONLY <1>3, DInv, DescribeKeepsFound
<1>4. ASSUME NEW s \in Server, NEW g \in net, Accept(s, g) PROVE DInv'
  <2>1. stage = "Connecting" /\ UNCHANGED <<stage, client, description, said, found>>
      BY <1>4 DEF Accept
  <2> QED
      BY <2>1, ElsewhereKeepsFound
<1>5. ASSUME NEW s \in Server, NEW d \in MayBecome, SetDescription(s, d) PROVE DInv'
    BY ONLY <1>5, DInv, SetKeepsFound
<1>6. ASSUME NEW g \in net, Damage(g) PROVE DInv'
    BY ONLY <1>6, DInv, DamageKeepsFound
<1>7. ASSUME NEW g \in net, CollectAnswer(g) PROVE DInv'
    BY ONLY <1>7, DInv, CollectKeepsFound
<1>8. ASSUME NEW g \in net, Connected(g) PROVE DInv'
  <2>1. stage' = "Connected" /\ UNCHANGED <<client, description, said, found>>
      BY <1>8 DEF Connected
  <2> QED
      BY <2>1, ElsewhereKeepsFound
<1>9. CASE Deadline
  <2>1. stage' = "Searched" /\ UNCHANGED <<client, description, said, found>>
      BY <1>9 DEF Deadline
  <2> QED
      BY <2>1, ElsewhereKeepsFound
<1>10. CASE ConnectToFound
  <2>1. PICK addr : Connect(addr)
      BY <1>10 DEF ConnectToFound
  <2> QED
      BY ONLY <2>1, DInv, ConnectKeepsFound
<1>11. CASE ConnectToGroup
    BY <1>11, ConnectKeepsFound DEF ConnectToGroup
<1>12. CASE \/ \E t \in Telegram : Write(t)
            \/ Forward
            \/ \E octet \in Chatter : Say(octet)
            \/ Poll
            \/ UNCHANGED wire_vars
  <2>1. UNCHANGED <<stage, client, description, said, net, found>>
      BY <1>12 DEF Write, Forward, Say, Poll, wire_vars, lookup
  <2> QED
      BY <2>1, ElsewhereKeepsFound
<1> QED
    BY <1>1, <1>2, <1>3, <1>4, <1>5, <1>6, <1>7, <1>8, <1>9, <1>10, <1>11, <1>12 DEF WireNext

LEMMA FoundInvariance == WireSpec => []DInv
BY InitFound, NextFound, PTL DEF WireSpec

(* Whatever changes on the servers during a search, whichever datagrams are *)
(* lost, late, repeated, cut off or filled up, the gateways a search finds  *)
(* are servers at the address where they are reached, each as it described  *)
(* itself at one time since the search began (parse_search_response,        *)
(* DeviceDescription::dibs, control_endpoint).                              *)
THEOREM SearchFindsServers == WireSpec => []FoundAsDescribed
<1>1. DInv => FoundAsDescribed
  <2> SUFFICES ASSUME DInv PROVE FoundAsDescribed
      OBVIOUS
  <2>1. PICK S : found \in Seq(S) /\ \A gateway \in S : FoundIs(gateway, said)
      BY DEF DInv, FoundOK
  <2>2. \A i \in DOMAIN found : found[i] \in S
      BY <2>1
  <2>3. \A i \in DOMAIN found : FoundIs(found[i], said)
      BY ONLY <2>1, <2>2
  <2> QED
      BY ONLY <2>3 DEF FoundIs, FoundAsDescribed
<1> QED
    BY <1>1, FoundInvariance, PTL

-----------------------------------------------------------------------------
(* A frame is read as it was written, and not if its length is wrong.       *)
LEMMA ServicesDiffer ==
    /\ \A s \in DOMAIN ServiceType : ServiceType[s] \in Word
    /\ \A s, t \in DOMAIN ServiceType : ServiceType[s] = ServiceType[t] => s = t
BY WordFacts DEF ServiceType

\* What the octets of a frame of some code are.
Framed(octets, code, body, n) ==
    /\ Long(octets, n + 6) /\ octets[1] = 6 /\ octets[2] = 16
    /\ octets[3] = code \div 256 /\ octets[4] = code % 256
    /\ octets[5] * 256 + octets[6] = n + 6
    /\ \A i \in 1 .. n : octets[6 + i] = body[i]

LEMMA FrameIsFramed ==
    ASSUME NEW frame, NEW n \in Nat, Long(frame.body, n), n + 6 \in Word,
           ServiceType[frame.service_type] \in Word, NEW octets,
           octets = frame_to_bytes(frame).ok
    PROVE  Framed(octets, ServiceType[frame.service_type], frame.body, n)
BY FrameOctets DEF Framed

IsFrame(octets, service, body) ==
    octets \in Seq(Octet) /\ parse_frame(octets) = Ok(Frame(service, body))

(* Every frame of every service, as long as its length can be written, is   *)
(* read back from its octets (KnxIpFrame::to_bytes, parse).                 *)
THEOREM FrameReadBack ==
    ASSUME NEW service \in DOMAIN ServiceType, NEW n \in Nat, NEW body, Long(body, n),
           n + 6 \in Word, NEW octets, octets = frame_to_bytes(Frame(service, body)).ok
    PROVE  IsFrame(octets, service, body)
<1>1. PICK frame : frame = Frame(service, body)
    OBVIOUS
<1>2. frame.service_type = service /\ frame.body = body
    BY <1>1 DEF Frame
<1>3. PICK code \in Word : code = ServiceType[service]
    BY ServicesDiffer
<1>4. /\ Long(octets, n + 6) /\ octets[1] = 6 /\ octets[2] = 16
      /\ octets[3] = code \div 256 /\ octets[4] = code % 256
      /\ octets[5] * 256 + octets[6] = n + 6
      /\ \A i \in 1 .. n : octets[6 + i] = body[i]
  <2>1. Long(frame.body, n) /\ ServiceType[frame.service_type] \in Word
        /\ octets = frame_to_bytes(frame).ok
      BY <1>1, <1>2, <1>3
  <2>2. Framed(octets, ServiceType[frame.service_type], frame.body, n)
      BY ONLY <2>1, n \in Nat, n + 6 \in Word, FrameIsFramed
  <2>3. Framed(octets, code, body, n)
      BY ONLY <1>2, <1>3, <2>2
  <2> QED
      BY ONLY <2>3 DEF Framed
<1>5. octets \in Seq(Octet) /\ Len(octets) = n + 6 /\ Len(octets) >= 6
    BY ONLY <1>4, n \in Nat DEF Long
<1>6. u16(octets, 3) = code /\ u16(octets, 5) = n + 6
  <2>1. (code \div 256) * 256 + (code % 256) = code
      BY ONLY code \in Word, WordFacts
  <2>2. 3 + 1 = 4 /\ 5 + 1 = 6
      OBVIOUS
  <2> QED
      BY ONLY <1>4, <2>1, <2>2 DEF u16
<1>7. from(octets, 7) = body
  <2>1. PICK at \in Nat \ {0} : at = 7
      OBVIOUS
  <2>2. PICK part : part = from(octets, at)
      OBVIOUS
  <2>3. at <= Len(octets) + 1
      BY ONLY <1>5, <2>1, n \in Nat
  <2>4. Part(part, octets, at, Len(octets) - at + 1)
      BY ONLY <1>5, <2>2, <2>3, at \in Nat \ {0}, FromIsPart
  <2>5. Len(octets) - at + 1 = n /\ \A i \in 1 .. n : at + i - 1 = 6 + i
      BY ONLY <1>5, <2>1, n \in Nat
  <2>6. Long(part, n) /\ \A i \in 1 .. n : part[i] = octets[at + i - 1]
      BY ONLY <2>4, <2>5 DEF Part
  <2>7. \A i \in 1 .. n : part[i] = body[i]
    <3> SUFFICES ASSUME NEW i \in 1 .. n PROVE part[i] = body[i]
        OBVIOUS
    <3>1. part[i] = octets[at + i - 1] /\ at + i - 1 = 6 + i
        BY <2>5, <2>6
    <3>2. octets[6 + i] = body[i]
        BY <1>4
    <3> QED
        BY ONLY <3>1, <3>2
  <2>8. part = body
      BY ONLY <2>6, <2>7, Long(body, n), n \in Nat, EqualOctets
  <2> QED
      BY ONLY <2>1, <2>2, <2>8
<1>8. service_types(code) = {service}
    BY <1>3, ServicesDiffer DEF service_types
<1>9. (CHOOSE s \in {service} : TRUE) = service
    OBVIOUS
<1>10. parse_frame(octets) = Ok(Frame(service, body))
  <2>1. HEADER_LEN = 6 /\ PROTOCOL_VERSION_10 = 16 /\ HEADER_LEN + 1 = 7
      BY DEF HEADER_LEN, PROTOCOL_VERSION_10
  <2>2. ~ (Len(octets) < HEADER_LEN) /\ Len(octets) >= HEADER_LEN
        /\ ~ (octets[1] # HEADER_LEN) /\ ~ (octets[2] # PROTOCOL_VERSION_10)
        /\ ~ (Len(octets) # u16(octets, 5)) /\ service_types(u16(octets, 3)) # {}
    <3>1. Len(octets) \in Nat /\ Len(octets) >= 6 /\ Len(octets) = u16(octets, 5)
        BY ONLY <1>5, <1>6, n \in Nat
    <3>2. service_types(u16(octets, 3)) # {}
        BY ONLY <1>6, <1>8
    <3> QED
        BY ONLY <1>4, <2>1, <3>1, <3>2
  <2>3. parse_frame(octets) = Ok(Frame(CHOOSE s \in service_types(u16(octets, 3)) : TRUE,
                                       from(octets, HEADER_LEN + 1)))
      BY ONLY <2>2 DEF parse_frame
  <2> QED
      BY ONLY <1>6, <1>7, <1>8, <1>9, <2>1, <2>3
<1> QED
    BY ONLY <1>5, <1>10 DEF IsFrame

LEMMA BrokenFrame ==
    ASSUME NEW octets \in Seq(Octet), IsOk(parse_frame(octets)), NEW broken,
           broken \in {SubSeq(octets, 1, Len(octets) - 1), Append(octets, 0)}
    PROVE  broken \in Seq(Octet) /\ ~ IsOk(parse_frame(broken))
<1>1. 0 \in Octet
    BY OctetFacts
<1>2. Len(octets) \in Nat /\ Len(octets) >= 6 /\ Len(octets) = octets[5] * 256 + octets[6]
    BY ParsedFrame
<1>3. /\ broken \in Seq(Octet) /\ Len(broken) # Len(octets)
      /\ Len(broken) >= 6 => broken[5] = octets[5] /\ broken[6] = octets[6]
  <2>1. CASE broken = Append(octets, 0)
    <3>1. broken \in Seq(Octet) /\ Len(broken) = Len(octets) + 1
          /\ \A i \in 1 .. Len(octets) : broken[i] = octets[i]
        BY ONLY <1>1, <2>1, octets \in Seq(Octet)
    <3>2. 5 \in 1 .. Len(octets) /\ 6 \in 1 .. Len(octets)
        BY ONLY <1>2
    <3> QED
        BY ONLY <1>2, <3>1, <3>2
  <2>2. CASE broken = SubSeq(octets, 1, Len(octets) - 1)
    <3>1. PICK n \in Nat : n = Len(octets) - 1
        BY ONLY <1>2
    <3>2. broken = SubSeq(octets, 1, n) /\ n <= Len(octets)
        BY ONLY <1>2, <2>2, <3>1
    <3>3. broken \in Seq(Octet) /\ Len(broken) = n
          /\ \A i \in 1 .. n : broken[i] = octets[i]
        BY ONLY <3>2, octets \in Seq(Octet), n \in Nat
    <3>4. n >= 6 => 5 \in 1 .. n /\ 6 \in 1 .. n
        BY ONLY n \in Nat
    <3> QED
        BY ONLY <1>2, <3>1, <3>3, <3>4
  <2> QED
      BY ONLY <2>1, <2>2, broken \in {SubSeq(octets, 1, Len(octets) - 1), Append(octets, 0)}
<1> SUFFICES ASSUME IsOk(parse_frame(broken)) PROVE FALSE
    BY <1>3
<1>4. Len(broken) >= 6 /\ Len(broken) = broken[5] * 256 + broken[6]
    BY <1>3, ParsedFrame
<1> QED
    BY <1>2, <1>3, <1>4

LEMMA HpaiAlone ==
    ASSUME NEW control \in Endpoint, NEW body, body = hpai_to_bytes(control)
    PROVE  Long(body, 8) /\ parse_hpai(body) = Ok(control)
<1>1. Long(body, 8)
    BY HpaiOctets
<1>2. body \in Seq(Octet) /\ Len(body) >= 8
    BY ONLY <1>1 DEF Long
<1>3. \A i \in 1 .. 8 : body[i] = hpai_to_bytes(control)[i]
    BY ONLY body = hpai_to_bytes(control)
<1> QED
    BY ONLY <1>1, <1>2, <1>3, control \in Endpoint, HpaiReadBack

LEMMA HpaiBefore ==
    ASSUME NEW control \in Endpoint, NEW front, front = hpai_to_bytes(control),
           NEW n \in Nat, NEW rest, Long(rest, n), NEW body, Joined(body, front, rest)
    PROVE  Long(body, 8 + n) /\ parse_hpai(body) = Ok(control) /\ from(body, 9) = rest
<1>1. Long(front, 8)
    BY HpaiOctets
<1>2. PICK m \in Nat : m = 8
    OBVIOUS
<1>3. Joint(body, front, m, rest, n)
    BY ONLY <1>1, <1>2, Joined(body, front, rest), Long(rest, n), m \in Nat, n \in Nat,
       JoinedIsJoint
<1>4. /\ Long(body, 8 + n) /\ \A i \in 1 .. 8 : body[i] = front[i]
      /\ \A i \in 1 .. n : body[8 + i] = rest[i]
    BY ONLY <1>2, <1>3 DEF Joint
<1>5. body \in Seq(Octet) /\ Len(body) = 8 + n /\ Len(body) >= 8
    BY ONLY <1>4, n \in Nat DEF Long
<1>6. parse_hpai(body) = Ok(control)
  <2>1. \A i \in 1 .. 8 : body[i] = hpai_to_bytes(control)[i]
      BY ONLY <1>4, front = hpai_to_bytes(control)
  <2> QED
      BY ONLY <1>5, <2>1, control \in Endpoint, HpaiReadBack
<1>7. from(body, 9) = rest
  <2>1. PICK at \in Nat \ {0} : at = 9
      OBVIOUS
  <2>2. PICK part : part = from(body, at)
      OBVIOUS
  <2>3. at <= Len(body) + 1
      BY ONLY <1>5, <2>1, n \in Nat
  <2>4. Part(part, body, at, Len(body) - at + 1)
      BY ONLY <1>5, <2>2, <2>3, at \in Nat \ {0}, FromIsPart
  <2>5. Len(body) - at + 1 = n
      BY ONLY <1>5, <2>1, n \in Nat
  <2>6. Long(part, n) /\ \A i \in 1 .. n : part[i] = body[at + i - 1]
      BY ONLY <2>4, <2>5 DEF Part
  <2>7. \A i \in 1 .. n : part[i] = rest[i]
    <3> SUFFICES ASSUME NEW i \in 1 .. n PROVE part[i] = rest[i]
        OBVIOUS
    <3>1. at + i - 1 = 8 + i
        BY ONLY <2>1, i \in 1 .. n, n \in Nat
    <3>2. part[i] = body[at + i - 1] /\ body[8 + i] = rest[i]
        BY <1>4, <2>6
    <3> QED
        BY ONLY <3>1, <3>2
  <2>8. part = rest
      BY ONLY <2>6, <2>7, Long(rest, n), n \in Nat, EqualOctets
  <2> QED
      BY ONLY <2>1, <2>2, <2>8
<1> QED
    BY ONLY <1>4, <1>6, <1>7

\* What is sent in a search is read as what it is.
LEMMA Services ==
    {"SearchRequest", "SearchRequestExtended", "DescriptionRequest", "ConnectRequest",
     "SearchResponse", "SearchResponseExtended", "DescriptionResponse", "ConnectResponse"}
        \subseteq DOMAIN ServiceType
BY DEF ServiceType

LEMMA SearchIsFrame ==
    ASSUME NEW hpai \in Endpoint, NEW octets,
           octets = frame_to_bytes(search_request(hpai)).ok
    PROVE  \E body : IsFrame(octets, "SearchRequest", body) /\ parse_hpai(body) = Ok(hpai)
<1>1. PICK body : body = hpai_to_bytes(hpai)
    OBVIOUS
<1>2. Long(body, 8) /\ parse_hpai(body) = Ok(hpai)
    BY ONLY <1>1, hpai \in Endpoint, HpaiAlone
<1>3. PICK n \in Nat : n = 8 /\ n + 6 \in Word
    BY WordFacts
<1>4. PICK service \in DOMAIN ServiceType : service = "SearchRequest"
    BY Services
<1>5. octets = frame_to_bytes(Frame(service, body)).ok
    BY <1>1, <1>4 DEF search_request
<1>6. Long(body, n)
    BY ONLY <1>2, <1>3
<1>7. IsFrame(octets, service, body)
    BY ONLY <1>3, <1>5, <1>6, service \in DOMAIN ServiceType, n \in Nat, FrameReadBack
<1> QED
    BY ONLY <1>2, <1>4, <1>7

LEMMA AskedIsFrame ==
    ASSUME NEW q \in Query, NEW octets, octets = Asked(q).octets
    PROVE  \E body : /\ IsFrame(octets, "SearchRequestExtended", body)
                     /\ parse_hpai(body) = Ok(q.endpoint) /\ from(body, 9) = q.srps
<1>1. PICK front : front = hpai_to_bytes(q.endpoint)
    OBVIOUS
<1>2. PICK body : Joined(body, front, q.srps)
    BY DEF Joined
<1>3. q.endpoint \in Endpoint /\ q.srps \in Seq(Octet) /\ Len(q.srps) + 14 \in Word
    BY QueryFacts
<1>4. PICK n \in Nat : n = Len(q.srps)
    BY ONLY <1>3
<1>5. Long(q.srps, n)
    BY ONLY <1>3, <1>4 DEF Long
<1>6. Long(body, 8 + n) /\ parse_hpai(body) = Ok(q.endpoint) /\ from(body, 9) = q.srps
    BY ONLY <1>1, <1>2, <1>3, <1>5, n \in Nat, HpaiBefore
<1>7. PICK k \in Nat : k = 8 + n /\ k + 6 \in Word
    BY ONLY <1>3, <1>4, n \in Nat, WordFacts
<1>8. PICK service \in DOMAIN ServiceType : service = "SearchRequestExtended"
    BY Services
<1>9. octets = frame_to_bytes(Frame(service, body)).ok
    BY <1>1, <1>2, <1>8 DEF Asked, Datagram, search_request_extended, Joined
<1>10. Long(body, k)
    BY ONLY <1>6, <1>7
<1>11. IsFrame(octets, service, body)
    BY ONLY <1>7, <1>9, <1>10, service \in DOMAIN ServiceType, k \in Nat, FrameReadBack
<1> QED
    BY ONLY <1>6, <1>8, <1>11

LEMMA ResponseIsFrame ==
    ASSUME NEW control \in Endpoint, NEW d \in Description, NEW routing \in BOOLEAN,
           NEW about, about = dibs(d, routing),
           NEW service \in DOMAIN ServiceType, NEW octets,
           octets = frame_to_bytes(Frame(service, hpai_to_bytes(control) \o about)).ok
    PROVE  \E body : IsFrame(octets, service, body) /\ from(body, 9) = about
<1>1. PICK front : front = hpai_to_bytes(control)
    OBVIOUS
<1>2. PICK body : Joined(body, front, about)
    BY DEF Joined
<1>3. PICK n \in Nat : n = IF routing THEN 62 ELSE 60
    OBVIOUS
<1>4. Long(about, n)
    BY ONLY <1>3, about = dibs(d, routing), d \in Description, routing \in BOOLEAN, DibsSay
       DEF Says
<1>5. Long(body, 8 + n) /\ from(body, 9) = about
    BY ONLY <1>1, <1>2, <1>4, control \in Endpoint, n \in Nat, HpaiBefore
<1>6. PICK k \in Nat : k = 8 + n /\ k + 6 \in Word
    BY ONLY <1>3, WordFacts
<1>7. octets = frame_to_bytes(Frame(service, body)).ok
    BY <1>1, <1>2 DEF Joined
<1>8. Long(body, k)
    BY ONLY <1>5, <1>6
<1>9. IsFrame(octets, service, body)
    BY ONLY <1>6, <1>7, <1>8, service \in DOMAIN ServiceType, k \in Nat, FrameReadBack
<1> QED
    BY ONLY <1>5, <1>9

LEMMA DescriptionIsFrame ==
    ASSUME NEW d \in Description, NEW routing \in BOOLEAN, NEW about, about = dibs(d, routing),
           NEW octets, octets = frame_to_bytes(description_response(about)).ok
    PROVE  IsFrame(octets, "DescriptionResponse", about)
<1>1. PICK n \in Nat : (n = IF routing THEN 62 ELSE 60) /\ n + 6 \in Word
    BY WordFacts
<1>2. Long(about, n)
    BY ONLY <1>1, about = dibs(d, routing), d \in Description, routing \in BOOLEAN, DibsSay
       DEF Says
<1>3. PICK service \in DOMAIN ServiceType : service = "DescriptionResponse"
    BY Services
<1>4. octets = frame_to_bytes(Frame(service, about)).ok
    BY <1>3 DEF description_response
<1>5. IsFrame(octets, service, about)
    BY ONLY <1>1, <1>2, <1>4, service \in DOMAIN ServiceType, n \in Nat, FrameReadBack
<1> QED
    BY ONLY <1>3, <1>5

LEMMA Four ==
    ASSUME NEW a \in Octet, NEW b \in Octet, NEW c \in Octet, NEW d \in Octet
    PROVE  Long(<<a, b, c, d>>, 4)
BY DEF Long

LEMMA ConnectIsFrame ==
    ASSUME NEW hpai \in Endpoint, NEW octets,
           octets = frame_to_bytes(connect_request(hpai, hpai, tunnel_cri)).ok
    PROVE  \E body : IsFrame(octets, "ConnectRequest", body) /\ parse_hpai(body) = Ok(hpai)
<1>1. PICK front : front = hpai_to_bytes(hpai)
    OBVIOUS
<1>2. PICK both : Joined(both, front, front)
    BY DEF Joined
<1>3. PICK body : Joined(body, both, tunnel_cri)
    BY DEF Joined
<1>4. Long(tunnel_cri, 4)
  <2>1. tunnel_cri = <<4, 4, 2, 0>>
      BY DEF tunnel_cri, CRI_CRD_LEN, TUNNEL_CONNECTION, TUNNEL_LINKLAYER
  <2>2. 4 \in Octet /\ 2 \in Octet /\ 0 \in Octet
      BY OctetFacts
  <2> QED
      BY ONLY <2>1, <2>2, Four
<1>5. Long(front, 8)
    BY ONLY <1>1, hpai \in Endpoint, HpaiOctets
<1>6. PICK m \in Nat, n \in Nat, k \in Nat : m = 8 /\ n = 16 /\ k = 4
    OBVIOUS
<1>7. Long(both, n) /\ \A i \in 1 .. m : both[i] = front[i]
  <2>1. Joint(both, front, m, front, m)
      BY ONLY <1>2, <1>5, <1>6, m \in Nat, JoinedIsJoint
  <2> QED
      BY ONLY <1>6, <2>1 DEF Joint
<1>8. Long(body, n + k) /\ \A i \in 1 .. n : body[i] = both[i]
  <2>1. Joint(body, both, n, tunnel_cri, k)
      BY ONLY <1>3, <1>4, <1>6, <1>7, n \in Nat, k \in Nat, JoinedIsJoint
  <2> QED
      BY ONLY <2>1 DEF Joint
<1>9. parse_hpai(body) = Ok(hpai)
  <2>1. body \in Seq(Octet) /\ Len(body) >= 8
      BY ONLY <1>6, <1>8 DEF Long
  <2>2. \A i \in 1 .. 8 : body[i] = hpai_to_bytes(hpai)[i]
    <3> SUFFICES ASSUME NEW i \in 1 .. 8 PROVE body[i] = hpai_to_bytes(hpai)[i]
        OBVIOUS
    <3>1. i \in 1 .. m /\ i \in 1 .. n
        BY ONLY <1>6, i \in 1 .. 8
    <3> QED
        BY ONLY <1>1, <1>7, <1>8, <3>1
  <2> QED
      BY ONLY <2>1, <2>2, hpai \in Endpoint, HpaiReadBack
<1>10. PICK total \in Nat : total = n + k /\ total + 6 \in Word
    BY ONLY <1>6, WordFacts
<1>11. PICK service \in DOMAIN ServiceType : service = "ConnectRequest"
    BY Services
<1>12. octets = frame_to_bytes(Frame(service, body)).ok
    BY <1>1, <1>2, <1>3, <1>11 DEF connect_request, Joined
<1>13. Long(body, total)
    BY ONLY <1>8, <1>10
<1>14. IsFrame(octets, service, body)
    BY ONLY <1>10, <1>12, <1>13, service \in DOMAIN ServiceType, total \in Nat, FrameReadBack
<1> QED
    BY ONLY <1>9, <1>11, <1>14

LEMMA AcceptedIsFrame ==
    ASSUME NEW port \in Word, NEW octets,
           octets = frame_to_bytes(build_connect_response(1, E_NO_ERROR, TUNNEL_IA_BASE + 1,
                                                          port)).ok
    PROVE  \E body : IsFrame(octets, "ConnectResponse", body)
<1>1. PICK hpai : hpai = nat_udp(port)
    OBVIOUS
<1>2. hpai \in Endpoint
  <2>1. hpai = [protocol |-> "Ipv4Udp", ip |-> Unspecified, port |-> port]
      BY <1>1 DEF nat_udp, Hpai, Unspecified
  <2> QED
      BY ONLY <2>1, MulticastIps, Protocols, port \in Word DEF Endpoint
<1>3. PICK control : control = hpai_to_bytes(hpai)
    OBVIOUS
<1>4. PICK head : head = <<1, 0>>
    OBVIOUS
<1>5. PICK raw \in Word : raw = TUNNEL_IA_BASE + 1
    BY WordFacts DEF TUNNEL_IA_BASE
<1>6. PICK address : address = be(raw, 2)
    OBVIOUS
<1>7. PICK kind : kind = <<4, 4>>
    OBVIOUS
<1>8. PICK crd : Joined(crd, kind, address)
    BY DEF Joined
<1>9. PICK front : Joined(front, head, control)
    BY DEF Joined
<1>10. PICK body : Joined(body, front, crd)
    BY DEF Joined
<1>11. PICK two \in Nat, four \in Nat, eight \in Nat, ten \in Nat :
           two = 2 /\ four = 4 /\ eight = 8 /\ ten = 10
    OBVIOUS
<1>12. Long(control, eight) /\ Long(head, two) /\ Long(address, two) /\ Long(kind, two)
  <2>1. 0 \in Octet /\ 1 \in Octet /\ 4 \in Octet
      BY OctetFacts
  <2>2. Long(control, 8)
      BY ONLY <1>2, <1>3, HpaiOctets
  <2>3. Long(address, 2)
      BY ONLY <1>6, raw \in Word, BigEndian
  <2>4. Long(head, 2) /\ Long(kind, 2)
      BY ONLY <1>4, <1>7, <2>1, Pair
  <2> QED
      BY ONLY <1>11, <2>2, <2>3, <2>4
<1>13. Long(crd, four)
  <2>1. Joint(crd, kind, two, address, two)
      BY ONLY <1>8, <1>12, two \in Nat, JoinedIsJoint
  <2> QED
      BY ONLY <1>11, <2>1 DEF Joint
<1>14. Long(front, ten)
  <2>1. Joint(front, head, two, control, eight)
      BY ONLY <1>9, <1>12, two \in Nat, eight \in Nat, JoinedIsJoint
  <2> QED
      BY ONLY <1>11, <2>1 DEF Joint
<1>15. PICK total \in Nat : total = ten + four /\ total + 6 \in Word
    BY ONLY <1>11, WordFacts
<1>16. Long(body, total)
  <2>1. Joint(body, front, ten, crd, four)
      BY ONLY <1>10, <1>13, <1>14, ten \in Nat, four \in Nat, JoinedIsJoint
  <2> QED
      BY ONLY <1>15, <2>1 DEF Joint
<1>17. PICK service \in DOMAIN ServiceType : service = "ConnectResponse"
    BY Services
<1>18. octets = frame_to_bytes(Frame(service, body)).ok
  <2>1. crd = tunnel_crd(raw)
      BY ONLY <1>6, <1>7, <1>8 DEF Joined, tunnel_crd, CRI_CRD_LEN, TUNNEL_CONNECTION
  <2>2. head = <<1, E_NO_ERROR>>
      BY ONLY <1>4 DEF E_NO_ERROR
  <2>3. body = <<1, E_NO_ERROR>> \o hpai_to_bytes(nat_udp(port)) \o tunnel_crd(raw)
      BY ONLY <1>1, <1>3, <1>9, <1>10, <2>1, <2>2 DEF Joined
  <2> QED
      BY ONLY <1>5, <1>17, <2>3, octets = frame_to_bytes(
             build_connect_response(1, E_NO_ERROR, TUNNEL_IA_BASE + 1, port)).ok
         DEF build_connect_response
<1>19. IsFrame(octets, service, body)
    BY ONLY <1>15, <1>16, <1>18, service \in DOMAIN ServiceType, total \in Nat, FrameReadBack
<1> QED
    BY ONLY <1>17, <1>19

-----------------------------------------------------------------------------
(* What a server says of itself is read as two blocks.                      *)
LEMMA GoodBlock ==
    ASSUME NEW octets \in Seq(Octet), NEW at \in 1 .. Len(octets), NEW size, size = octets[at],
           size \in {6, 8, 54}, at + size <= Len(octets) + 1
    PROVE  Good(octets, at)
<1>1. PICK remaining : remaining = Len(octets) - at + 1
    OBVIOUS
<1>2. ~ (remaining < 2) /\ ~ (size < 2) /\ ~ (size % 2 # 0) /\ ~ (size > remaining)
    BY <1>1
<1>3. STRUCTURE_HEADER_LEN = 2
    BY DEF STRUCTURE_HEADER_LEN
<1> QED
    BY ONLY <1>1, <1>2, <1>3, size = octets[at], Zenon DEF Good, dib_defect

\* A sequence of two blocks.
Pairs(blocks, a, b) ==
    blocks \in Blocks /\ DOMAIN blocks = 1 .. 2 /\ blocks[1] = a /\ blocks[2] = b

LEMMA Twice ==
    ASSUME NEW S, NEW a \in S, NEW b \in S
    PROVE  /\ <<a>> \o <<b>> \in Seq(S) /\ Len(<<a>> \o <<b>>) = 2
           /\ (<<a>> \o <<b>>)[1] = a /\ (<<a>> \o <<b>>)[2] = b
           /\ <<b>> \o <<>> = <<b>>
OBVIOUS

LEMMA TwoPrefixed ==
    ASSUME NEW blocks, NEW a \in Seq(Octet), NEW b \in Seq(Octet), NEW rest,
           Prefixed(blocks, a, rest), Prefixed(rest, b, <<>>)
    PROVE  Pairs(blocks, a, b) /\ Len(blocks) = 2
<1>1. PICK S : S = Seq(Octet)
    OBVIOUS
<1>2. a \in S /\ b \in S
    BY ONLY <1>1, a \in Seq(Octet), b \in Seq(Octet)
<1>3. rest = <<b>> \o <<>> /\ blocks = <<a>> \o rest
    BY ONLY Prefixed(blocks, a, rest), Prefixed(rest, b, <<>>) DEF Prefixed
<1>4. blocks = <<a>> \o <<b>>
    BY ONLY <1>2, <1>3, Twice
<1>5. blocks \in Seq(S) /\ Len(blocks) = 2 /\ blocks[1] = a /\ blocks[2] = b
    BY ONLY <1>2, <1>4, Twice
<1>6. DOMAIN blocks = 1 .. 2
    BY ONLY <1>5
<1> QED
    BY ONLY <1>1, <1>5, <1>6 DEF Pairs, Blocks

LEMMA TwoTypes ==
    ASSUME NEW blocks, NEW a, NEW b, Pairs(blocks, a, b), a[2] = 1, b[2] = 2,
           NEW types, types = {description_type_raw(blocks[i]) : i \in DOMAIN blocks}
    PROVE  Cardinality(types) = 2
<1>1. types = {1, 2}
    BY DEF Pairs, description_type_raw
<1> QED
  <2>1. PICK one : one = {1}
      OBVIOUS
  <2>2. IsFiniteSet(one) /\ Cardinality(one) = 1
      BY ONLY <2>1, FS_Singleton
  <2>3. types = one \cup {2} /\ 2 \notin one
      BY ONLY <1>1, <2>1
  <2>4. Cardinality(one \cup {2}) = Cardinality(one) + 1
      BY ONLY <2>2, <2>3, FS_AddElement
  <2> QED
      BY ONLY <2>2, <2>3, <2>4

LEMMA TwoBlocks ==
    ASSUME NEW d, NEW routing \in BOOLEAN, NEW octets, Says(octets, d, routing),
           NEW n \in Nat, n = IF routing THEN 8 ELSE 6,
           NEW info, info = slice(octets, 1, 54),
           NEW supported, supported = slice(octets, 55, n)
    PROVE  \E blocks : parse_dibs(octets) = Ok(blocks) /\ Pairs(blocks, info, supported)
<1>1. /\ octets \in Seq(Octet) /\ Len(octets) = 54 + n /\ n \in {6, 8}
      /\ octets[1] = 54 /\ octets[2] = 1 /\ octets[55] = n /\ octets[56] = 2
  <2>1. octets \in Seq(Octet) /\ Len(octets) = 54 + n /\ n \in {6, 8}
        /\ octets[55] = n /\ octets[56] = 2
    <3>1. Long(octets, IF routing THEN 62 ELSE 60) /\ octets[56] = 2
          /\ octets[55] = IF routing THEN 8 ELSE 6
        BY DEF Says
    <3>2. \/ n = 8 /\ Long(octets, 62) /\ octets[55] = 8
          \/ n = 6 /\ Long(octets, 60) /\ octets[55] = 6
        BY ONLY <3>1, n = IF routing THEN 8 ELSE 6, Zenon
    <3> QED
        BY ONLY <3>1, <3>2 DEF Long
  <2>2. octets[1] = 54 /\ octets[2] = 1
      BY DEF Says, Tells
  <2> QED
      BY ONLY <2>1, <2>2
<1>2. PICK f : structures(octets, dib_defect) = f[1] /\ IsReading(octets, f)
    BY <1>1, ReadingFacts
<1>3. PICK at, mid, end : at = 1 /\ mid = 55 /\ end = Len(octets) + 1
    OBVIOUS
<1>4. at \in 1 .. Len(octets) /\ mid \in 1 .. Len(octets)
      /\ mid = at + octets[at] /\ end = mid + octets[mid]
    BY ONLY <1>1, <1>3
<1>5. Good(octets, at) /\ Good(octets, mid)
  <2>1. at + octets[at] <= Len(octets) + 1 /\ mid + octets[mid] <= Len(octets) + 1
        /\ octets[at] \in {6, 8, 54} /\ octets[mid] \in {6, 8, 54}
      BY ONLY <1>1, <1>3
  <2> QED
      BY ONLY <1>1, <1>4, <2>1, GoodBlock
<1>6. /\ slice(octets, at, octets[at]) \in Seq(Octet) /\ (Clean(f[at]) <=> Clean(f[mid]))
      /\ Prefixed(f[at].found, slice(octets, at, octets[at]), f[mid].found)
    BY ONLY <1>1, <1>2, <1>4, <1>5, BlockIsRead
<1>7. /\ slice(octets, mid, octets[mid]) \in Seq(Octet) /\ (Clean(f[mid]) <=> Clean(f[end]))
      /\ Prefixed(f[mid].found, slice(octets, mid, octets[mid]), f[end].found)
    BY ONLY <1>1, <1>2, <1>4, <1>5, BlockIsRead
<1>8. f[end].found = <<>> /\ Clean(f[end])
    BY ONLY <1>1, <1>2, <1>3, EndIsRead
<1>9. slice(octets, at, octets[at]) = info /\ slice(octets, mid, octets[mid]) = supported
    BY ONLY <1>1, <1>3, info = slice(octets, 1, 54), supported = slice(octets, 55, n)
<1>10. PICK blocks : blocks = f[at].found
    OBVIOUS
<1>11. Pairs(blocks, info, supported) /\ Len(blocks) = 2
  <2>1. PICK rest : rest = f[mid].found
      OBVIOUS
  <2>2. Prefixed(blocks, info, rest) /\ Prefixed(rest, supported, <<>>)
        /\ info \in Seq(Octet) /\ supported \in Seq(Octet)
      BY ONLY <1>6, <1>7, <1>8, <1>9, <1>10, <2>1
  <2> QED
      BY ONLY <2>2, TwoPrefixed
<1>12. info[2] = 1 /\ supported[2] = 2
  <2>1. PICK one \in Nat \ {0}, fiftyfour \in Nat, other \in Nat \ {0} :
            one = 1 /\ fiftyfour = 54 /\ other = 55
      OBVIOUS
  <2>2. one + fiftyfour <= Len(octets) + 1 /\ other + n <= Len(octets) + 1
        /\ info = slice(octets, one, fiftyfour) /\ supported = slice(octets, other, n)
      BY ONLY <1>1, <2>1, info = slice(octets, 1, 54), supported = slice(octets, 55, n)
  <2>3. Part(info, octets, one, fiftyfour) /\ Part(supported, octets, other, n)
      BY ONLY <1>1, <2>2, one \in Nat \ {0}, fiftyfour \in Nat, other \in Nat \ {0}, n \in Nat,
         SliceIsPart
  <2>4. 2 \in 1 .. fiftyfour /\ 2 \in 1 .. n /\ one + 2 - 1 = 2 /\ other + 2 - 1 = 56
      BY ONLY <1>1, <2>1
  <2> QED
      BY ONLY <1>1, <2>3, <2>4 DEF Part
<1>13. PICK types : types = {description_type_raw(blocks[i]) : i \in DOMAIN blocks}
    OBVIOUS
<1>14. Cardinality(types) = 2
    BY ONLY <1>11, <1>12, <1>13, TwoTypes
<1>15. parse_dibs(octets) =
          CASE Cardinality(types) < Len(blocks) -> Err("DuplicateDescriptionType")
            [] Cardinality(types) = Len(blocks) /\ f[1].defect # "" -> Err(f[1].defect)
            [] OTHER -> Ok(blocks)
    BY ONLY <1>2, <1>3, <1>10, <1>13 DEF parse_dibs
<1>16. ~ (Cardinality(types) < Len(blocks)) /\ ~ (f[1].defect # "")
  <2>1. ~ (Cardinality(types) < Len(blocks))
      BY ONLY <1>11, <1>14
  <2>2. Clean(f[1])
      BY ONLY <1>3, <1>6, <1>7, <1>8
  <2> QED
      BY ONLY <2>1, <2>2, Zenon DEF Clean
<1>17. parse_dibs(octets) = Ok(blocks)
    BY ONLY <1>15, <1>16, Zenon
<1> QED
    BY ONLY <1>11, <1>17

-----------------------------------------------------------------------------
(* What a server says of itself meets what it was found to satisfy.         *)
LEMMA OfTwo ==
    ASSUME NEW blocks, NEW a, NEW b, Pairs(blocks, a, b), a[2] = 1, b[2] = 2
    PROVE  get_raw(blocks, 1) = <<a>> /\ get_raw(blocks, 2) = <<b>>
<1>1. DOMAIN blocks = 1 .. 2 /\ blocks[1] = a /\ blocks[2] = b
    BY DEF Pairs
<1>2. /\ {i \in DOMAIN blocks : description_type_raw(blocks[i]) = 1} = {1}
      /\ {i \in DOMAIN blocks : description_type_raw(blocks[i]) = 2} = {2}
    BY ONLY <1>1, a[2] = 1, b[2] = 2 DEF description_type_raw
<1>3. \A n \in {1, 2} : (CHOOSE i \in {n} : \A j \in {n} : i <= j) = n
    OBVIOUS
<1>4. {1} # {} /\ {2} # {}
    OBVIOUS
<1>5. get_raw(blocks, 1) = <<blocks[1]>>
    BY ONLY <1>2, <1>3, <1>4 DEF get_raw
<1>6. get_raw(blocks, 2) = <<blocks[2]>>
    BY ONLY <1>2, <1>3, <1>4 DEF get_raw
<1> QED
    BY ONLY <1>1, <1>5, <1>6

LEMMA InfoIsTold ==
    ASSUME NEW d \in Description, NEW routing \in BOOLEAN, NEW octets, Says(octets, d, routing),
           NEW info, info = slice(octets, 1, 54)
    PROVE  /\ info[2] = 1
           /\ device_information(info).programming_mode <=> d.programming_mode
           /\ device_information(info).mac_address = d.mac_address
<1>1. octets \in Seq(Octet) /\ Len(octets) >= 60
  <2>1. Long(octets, IF routing THEN 62 ELSE 60)
      BY DEF Says
  <2>2. Long(octets, 62) \/ Long(octets, 60)
      BY ONLY <2>1, Zenon
  <2> QED
      BY ONLY <2>2 DEF Long
<1>2. PICK one \in Nat \ {0}, many \in Nat : one = 1 /\ many = 54
    OBVIOUS
<1>3. Part(info, octets, one, many)
  <2>1. one + many <= Len(octets) + 1 /\ info = slice(octets, one, many)
      BY ONLY <1>1, <1>2, info = slice(octets, 1, 54)
  <2> QED
      BY ONLY <1>1, <2>1, one \in Nat \ {0}, many \in Nat, SliceIsPart
<1>4. info \in Seq(Octet) /\ Len(info) = 54
      /\ \A i \in Nat \ {0} : i <= 54 => info[i] = octets[i]
  <2>1. \A i \in Nat \ {0} : i <= many => i \in 1 .. many /\ one + i - 1 = i
      BY ONLY <1>2, many \in Nat
  <2>2. info \in Seq(Octet) /\ Len(info) = many
        /\ \A i \in 1 .. many : info[i] = octets[one + i - 1]
      BY ONLY <1>3 DEF Part
  <2>3. \A i \in Nat \ {0} : i <= many => info[i] = octets[i]
      BY ONLY <2>1, <2>2
  <2> QED
      BY ONLY <1>2, <2>2, <2>3
<1>5. /\ octets[2] = 1 /\ octets[4] = IF d.programming_mode THEN 1 ELSE 0
      /\ \A i \in 1 .. 6 : octets[18 + i] = d.mac_address[i]
    BY Zenon DEF Says, Tells
<1>6. info[2] = 1 /\ info[4] = octets[4]
    BY ONLY <1>4, <1>5
<1>7. is_programming_mode(info) <=> d.programming_mode
  <2>1. is_programming_mode(info) <=> info[4] % 2 = 1
      BY DEF is_programming_mode, DeviceInformationAt
  <2>2. CASE d.programming_mode
      BY ONLY <1>5, <1>6, <2>1, <2>2
  <2>3. CASE ~ d.programming_mode
      BY ONLY <1>5, <1>6, <2>1, <2>3
  <2> QED
      BY <2>2, <2>3
<1>8. slice(info, 19, 6) = d.mac_address
  <2>1. PICK at \in Nat \ {0}, six \in Nat : at = 19 /\ six = 6
      OBVIOUS
  <2>0. PICK mac : mac = slice(info, at, six)
      OBVIOUS
  <2>2. at + six <= Len(info) + 1
      BY ONLY <1>4, <2>1
  <2>3. Part(mac, info, at, six)
      BY ONLY <1>4, <2>0, <2>2, at \in Nat \ {0}, six \in Nat, SliceIsPart
  <2>4. \A i \in 1 .. 6 : mac[i] = info[18 + i]
      BY ONLY <2>1, <2>3 DEF Part
  <2>5. \A i \in 1 .. 6 : 18 + i \in Nat \ {0} /\ 18 + i <= 54
      OBVIOUS
  <2>6. \A i \in 1 .. 6 : mac[i] = d.mac_address[i]
      BY ONLY <1>4, <1>5, <2>4, <2>5
  <2>7. d.mac_address \in [1 .. six -> Octet]
      BY ONLY <2>1, d \in Description, DescriptionFacts
  <2>8. Long(mac, six) /\ Long(d.mac_address, six)
      BY ONLY <2>3, <2>7, six \in Nat, FunctionIsLong DEF Part
  <2>9. mac = d.mac_address
    <3>1. \A i \in 1 .. six : mac[i] = d.mac_address[i]
        BY ONLY <2>1, <2>6
    <3> QED
        BY ONLY <2>8, <3>1, six \in Nat, EqualOctets
  <2> QED
      BY ONLY <2>0, <2>1, <2>9
<1>9. /\ device_information(info).programming_mode = is_programming_mode(info)
      /\ device_information(info).mac_address = slice(info, 19, 6)
  <2>1. DeviceInformationAt.mac_address = 19
      BY DEF DeviceInformationAt
  <2> QED
      BY <2>1 DEF device_information
<1> QED
    BY ONLY <1>6, <1>7, <1>8, <1>9

LEMMA FamiliesAreTold ==
    ASSUME NEW d \in Description, NEW routing \in BOOLEAN, NEW octets, Says(octets, d, routing),
           NEW n \in Nat, n = IF routing THEN 8 ELSE 6,
           NEW supported, supported = slice(octets, 55, n)
    PROVE  /\ supported[2] = 2
           /\ <<2, 1>> \in families_of(supported) /\ <<4, 1>> \in families_of(supported)
           /\ routing => <<5, 1>> \in families_of(supported)
           /\ \A f \in families_of(supported) :
                  f = <<2, 1>> \/ f = <<4, 1>> \/ (routing /\ f = <<5, 1>>)
<1>1. /\ octets \in Seq(Octet) /\ Len(octets) = 54 + n /\ n \in {6, 8} /\ (routing <=> n = 8)
  <2>1. Long(octets, IF routing THEN 62 ELSE 60)
      BY DEF Says
  <2>2. \/ n = 8 /\ Long(octets, 62) /\ routing
        \/ n = 6 /\ Long(octets, 60) /\ ~ routing
      BY ONLY <2>1, n = IF routing THEN 8 ELSE 6, Zenon
  <2> QED
      BY ONLY <2>2 DEF Long
<1>2. PICK at \in Nat \ {0} : at = 55
    OBVIOUS
<1>3. Part(supported, octets, at, n)
  <2>1. at + n <= Len(octets) + 1 /\ supported = slice(octets, at, n)
      BY ONLY <1>1, <1>2, supported = slice(octets, 55, n)
  <2> QED
      BY ONLY <1>1, <2>1, at \in Nat \ {0}, n \in Nat, SliceIsPart
<1>4. Len(supported) = n /\ \A i \in 1 .. n : supported[i] = octets[54 + i]
  <2>1. \A i \in 1 .. n : at + i - 1 = 54 + i
      BY ONLY <1>2, n \in Nat
  <2> QED
      BY ONLY <1>3, <2>1 DEF Part
<1>5. octets[56] = 2 /\ octets[57] = 2 /\ octets[58] = 1 /\ octets[59] = 4 /\ octets[60] = 1
      /\ (routing => octets[61] = 5 /\ octets[62] = 1)
    BY Zenon DEF Says
<1>6. /\ supported[2] = 2 /\ supported[3] = 2 /\ supported[4] = 1 /\ supported[5] = 4
      /\ supported[6] = 1 /\ (routing => supported[7] = 5 /\ supported[8] = 1)
    BY ONLY <1>1, <1>4, <1>5
<1>7. \A i \in 1 .. (Len(supported) - 2) \div 2 :
          <<supported[2 * i + 1], supported[2 * i + 2]>> \in families_of(supported)
    BY Zenon DEF families_of
<1>8. /\ 1 \in 1 .. (Len(supported) - 2) \div 2 /\ 2 \in 1 .. (Len(supported) - 2) \div 2
      /\ routing => 3 \in 1 .. (Len(supported) - 2) \div 2
    BY ONLY <1>1, <1>4
<1>9. /\ <<supported[3], supported[4]>> \in families_of(supported)
      /\ <<supported[5], supported[6]>> \in families_of(supported)
      /\ routing => <<supported[7], supported[8]>> \in families_of(supported)
    BY ONLY <1>7, <1>8
<1>10. ASSUME NEW f \in families_of(supported)
       PROVE  f = <<2, 1>> \/ f = <<4, 1>> \/ (routing /\ f = <<5, 1>>)
  <2>1. PICK i \in 1 .. (Len(supported) - 2) \div 2 :
            f = <<supported[2 * i + 1], supported[2 * i + 2]>>
      BY <1>10, Zenon DEF families_of
  <2>2. i = 1 \/ i = 2 \/ (routing /\ i = 3)
      BY ONLY <1>1, <1>4, <2>1
  <2>3. \/ f = <<supported[3], supported[4]>>
        \/ f = <<supported[5], supported[6]>>
        \/ routing /\ f = <<supported[7], supported[8]>>
      BY ONLY <2>1, <2>2
  <2> QED
      BY ONLY <1>6, <2>3
<1> QED
    BY ONLY <1>6, <1>9, <1>10

LEMMA FamilyEntries ==
    ASSUME NEW routing \in BOOLEAN, NEW F, <<2, 1>> \in F, <<4, 1>> \in F,
           routing => <<5, 1>> \in F, NEW i \in DOMAIN families(routing)
    PROVE  \E f \in F : f[1] = ServiceFamily[families(routing)[i][1]]
                        /\ f[2] = families(routing)[i][2]
<1> DEFINE core == <<"Core", 1>>
           tunneling == <<"Tunneling", 1>>
           router == <<"Routing", 1>>
<1>1. PICK fam : fam = families(routing)
    OBVIOUS
<1>2. fam = <<core, tunneling>> \o IF routing THEN <<router>> ELSE <<>>
    BY <1>1 DEF families
<1>3. /\ ServiceFamily[core[1]] = 2 /\ core[2] = 1 /\ ServiceFamily[tunneling[1]] = 4
      /\ tunneling[2] = 1 /\ ServiceFamily[router[1]] = 5 /\ router[2] = 1
    BY FamilyCodes
<1> HIDE DEF core, tunneling, router
<1>4. PICK S : core \in S /\ tunneling \in S /\ router \in S
    <2>1. core \in {core, tunneling, router} /\ tunneling \in {core, tunneling, router}
          /\ router \in {core, tunneling, router}
        OBVIOUS
    <2> QED
        BY <2>1
<1>5. i \in DOMAIN fam
    BY <1>1
<1>6. fam[i] = core \/ fam[i] = tunneling \/ (routing /\ fam[i] = router)
  <2>1. CASE routing
    <3>1. fam = <<core, tunneling>> \o <<router>>
        BY ONLY <1>2, <2>1
    <3>2. /\ fam \in Seq(S) /\ Len(fam) = 3 /\ fam[1] = core /\ fam[2] = tunneling
          /\ fam[3] = router
        BY ONLY <3>1, <1>4, FewOf
    <3> QED
        BY ONLY <1>5, <2>1, <3>2
  <2>2. CASE ~ routing
    <3>1. fam = <<core, tunneling>> \o <<>>
        BY ONLY <1>2, <2>2
    <3>2. fam \in Seq(S) /\ Len(fam) = 2 /\ fam[1] = core /\ fam[2] = tunneling
        BY ONLY <3>1, <1>4, FewOf
    <3> QED
        BY ONLY <1>5, <3>2
  <2> QED
      BY ONLY <2>1, <2>2
<1>7. PICK x, y : x = fam[i][1] /\ y = fam[i][2]
    OBVIOUS
<1>8. (ServiceFamily[x] = 2 /\ y = 1) \/ (ServiceFamily[x] = 4 /\ y = 1)
      \/ (routing /\ ServiceFamily[x] = 5 /\ y = 1)
    BY ONLY <1>3, <1>6, <1>7
<1>9. \A m, n : <<m, n>>[1] = m /\ <<m, n>>[2] = n
    OBVIOUS
<1> QED
    BY <1>1, <1>7, <1>8, <1>9

LEMMA FamiliesAreEntries ==
    ASSUME NEW routing \in BOOLEAN, NEW f,
           f = <<2, 1>> \/ f = <<4, 1>> \/ (routing /\ f = <<5, 1>>)
    PROVE  \E i \in DOMAIN families(routing) : f[1] = ServiceFamily[families(routing)[i][1]]
                                             /\ f[2] = families(routing)[i][2]
<1> DEFINE core == <<"Core", 1>>
           tunneling == <<"Tunneling", 1>>
           router == <<"Routing", 1>>
<1>1. PICK fam : fam = families(routing)
    OBVIOUS
<1>2. fam = <<core, tunneling>> \o IF routing THEN <<router>> ELSE <<>>
    BY <1>1 DEF families
<1>3. /\ ServiceFamily[core[1]] = 2 /\ core[2] = 1 /\ ServiceFamily[tunneling[1]] = 4
      /\ tunneling[2] = 1 /\ ServiceFamily[router[1]] = 5 /\ router[2] = 1
    BY FamilyCodes
<1> HIDE DEF core, tunneling, router
<1>4. /\ 1 \in DOMAIN fam /\ fam[1] = core /\ 2 \in DOMAIN fam /\ fam[2] = tunneling
      /\ routing => 3 \in DOMAIN fam /\ fam[3] = router
    BY ONLY <1>2
<1>5. \A m, n : <<m, n>>[1] = m /\ <<m, n>>[2] = n
    OBVIOUS
<1>6. CASE f = <<2, 1>>
    BY ONLY <1>1, <1>3, <1>4, <1>5, <1>6
<1>7. CASE f = <<4, 1>>
    BY ONLY <1>1, <1>3, <1>4, <1>5, <1>7
<1>8. CASE routing /\ f = <<5, 1>>
    BY ONLY <1>1, <1>3, <1>4, <1>5, <1>8
<1> QED
    BY ONLY <1>6, <1>7, <1>8, f = <<2, 1>> \/ f = <<4, 1>> \/ (routing /\ f = <<5, 1>>)

LEMMA SrpCodes ==
    /\ SrpType.SelectByProgrammingMode = 1 /\ SrpType.SelectByMacAddress = 2
    /\ SrpType.SelectByService = 3 /\ SrpType.RequestDibs = 4
BY DEF SrpType

(* A server says of itself, in blocks that are read, what a parameter asks  *)
(* for: then and only then does it satisfy it (answers_extended_search,     *)
(* DeviceDescription::dibs).                                                *)
THEOREM SatisfiedIsMet ==
    ASSUME NEW d \in Description, NEW routing \in BOOLEAN, NEW octets, Says(octets, d, routing),
           NEW blocks, blocks = parse_dibs(octets).ok,
           NEW condition, NEW parameter, Asks(parameter, condition)
    PROVE  /\ IsOk(parse_dibs(octets))
           /\ satisfied(d, parameter, routing) <=> Meets(blocks, condition)
<1>1. PICK n \in Nat : n = IF routing THEN 8 ELSE 6
    OBVIOUS
<1>2. PICK info : info = slice(octets, 1, 54)
    OBVIOUS
<1>3. PICK supported : supported = slice(octets, 55, n)
    OBVIOUS
<1>4. parse_dibs(octets) = Ok(blocks) /\ Pairs(blocks, info, supported)
  <2>1. PICK b : parse_dibs(octets) = Ok(b) /\ Pairs(b, info, supported)
      BY ONLY <1>1, <1>2, <1>3, Says(octets, d, routing), routing \in BOOLEAN, n \in Nat,
         TwoBlocks
  <2>2. b = blocks
      BY ONLY <2>1, blocks = parse_dibs(octets).ok, ResultFacts
  <2> QED
      BY ONLY <2>1, <2>2
<1>5. /\ info[2] = 1
      /\ device_information(info).programming_mode <=> d.programming_mode
      /\ device_information(info).mac_address = d.mac_address
    BY ONLY <1>2, Says(octets, d, routing), routing \in BOOLEAN, d \in Description, InfoIsTold
<1>6. PICK F : F = families_of(supported)
    OBVIOUS
<1>7. /\ supported[2] = 2 /\ <<2, 1>> \in F /\ <<4, 1>> \in F
      /\ routing => <<5, 1>> \in F
      /\ \A f \in F : f = <<2, 1>> \/ f = <<4, 1>> \/ (routing /\ f = <<5, 1>>)
    BY ONLY <1>1, <1>3, <1>6, Says(octets, d, routing), routing \in BOOLEAN, d \in Description,
       n \in Nat, FamiliesAreTold
<1>8. get_raw(blocks, 1) = <<info>> /\ get_raw(blocks, 2) = <<supported>>
    BY ONLY <1>4, <1>5, <1>7, OfTwo
<1>9. PICK about : about = device_information(info)
    OBVIOUS
<1>10. Meets(blocks, condition) =
         CASE condition[1] = "ProgrammingMode" -> about.programming_mode
           [] condition[1] = "MacAddress" -> about.mac_address = condition[2]
           [] condition[1] = "Service" ->
                \E f \in F : f[1] = condition[2] /\ f[2] >= condition[3]
           [] OTHER -> FALSE
  <2>1. DibType.DeviceInformation = 1 /\ DibType.SupportedServiceFamilies = 2
      BY DEF DibType
  <2>2. <<info>>[1] = info /\ <<supported>>[1] = supported
      OBVIOUS
  <2> QED
      BY ONLY <1>6, <1>8, <1>9, <2>1, <2>2, Zenon DEF Meets
<1>11. PICK type, data : type = srp_type_raw(parameter) /\ data = srp_data(parameter)
    OBVIOUS
<1>12. CASE condition[1] = "ProgrammingMode"
  <2>1. type = 1 /\ data = <<>>
      BY ONLY <1>11, <1>12, Asks(parameter, condition), SrpCodes DEF Asks
  <2>2. satisfied(d, parameter, routing) <=> d.programming_mode
      BY ONLY <1>11, <2>1, SrpCodes DEF satisfied
  <2>3. Meets(blocks, condition) = about.programming_mode
      BY ONLY <1>10, <1>12
  <2> QED
      BY <1>4, <1>5, <1>9, <2>2, <2>3, ResultFacts
<1>13. CASE condition[1] = "MacAddress"
  <2>1. type = 2 /\ data = condition[2]
      BY ONLY <1>11, <1>13, Asks(parameter, condition), SrpCodes DEF Asks
  <2>2. satisfied(d, parameter, routing) <=> data = d.mac_address
      BY ONLY <1>11, <2>1, SrpCodes DEF satisfied
  <2>3. Meets(blocks, condition) <=> about.mac_address = condition[2]
      BY ONLY <1>10, <1>13
  <2> QED
      BY ONLY <1>4, <1>5, <1>9, <2>1, <2>2, <2>3, ResultFacts
<1>14. CASE condition[1] = "Service"
  <2>1. type = 3 /\ data = <<condition[2], condition[3]>>
      BY ONLY <1>11, <1>14, Asks(parameter, condition), SrpCodes DEF Asks
  <2>2. Len(data) = 2 /\ data[1] = condition[2] /\ data[2] = condition[3]
      BY ONLY <2>1
  <2>3. satisfied(d, parameter, routing) <=>
            \E i \in DOMAIN families(routing) :
                /\ ServiceFamily[families(routing)[i][1]] = data[1]
                /\ families(routing)[i][2] >= data[2]
      BY ONLY <1>11, <2>1, <2>2, SrpCodes DEF satisfied
  <2>4. Meets(blocks, condition) <=>
            \E f \in F : f[1] = condition[2] /\ f[2] >= condition[3]
      BY ONLY <1>10, <1>14
  <2>5. ASSUME satisfied(d, parameter, routing) PROVE Meets(blocks, condition)
    <3>1. PICK i \in DOMAIN families(routing) :
              /\ ServiceFamily[families(routing)[i][1]] = data[1]
              /\ families(routing)[i][2] >= data[2]
        BY ONLY <2>3, <2>5
    <3>2. PICK f \in F : f[1] = ServiceFamily[families(routing)[i][1]]
                         /\ f[2] = families(routing)[i][2]
        BY ONLY <1>7, routing \in BOOLEAN, i \in DOMAIN families(routing), FamilyEntries
    <3>3. f[1] = condition[2] /\ f[2] >= condition[3]
        BY ONLY <2>2, <3>1, <3>2
    <3> QED
        BY ONLY <2>4, <3>3
  <2>6. ASSUME Meets(blocks, condition) PROVE satisfied(d, parameter, routing)
    <3>1. PICK f \in F : f[1] = condition[2] /\ f[2] >= condition[3]
        BY ONLY <2>4, <2>6
    <3>2. f = <<2, 1>> \/ f = <<4, 1>> \/ (routing /\ f = <<5, 1>>)
        BY ONLY <1>7, <3>1
    <3>3. PICK i \in DOMAIN families(routing) :
              /\ f[1] = ServiceFamily[families(routing)[i][1]]
              /\ f[2] = families(routing)[i][2]
        BY ONLY <3>2, routing \in BOOLEAN, FamiliesAreEntries
    <3>4. /\ ServiceFamily[families(routing)[i][1]] = data[1]
          /\ families(routing)[i][2] >= data[2]
        BY ONLY <2>2, <3>1, <3>3
    <3> QED
        BY ONLY <2>3, <3>4
  <2> QED
      BY ONLY <1>4, <2>5, <2>6, ResultFacts
<1>15. \/ condition[1] = "ProgrammingMode" \/ condition[1] = "MacAddress"
       \/ condition[1] = "Service"
    BY ONLY Asks(parameter, condition) DEF Asks
<1> QED
    BY ONLY <1>12, <1>13, <1>14, <1>15

-----------------------------------------------------------------------------
(* Who is answered, and what.  A request in the search leads its answer to  *)
(* who asked; where a query is answered, the answer meets the query.        *)
LeadsTo(frame, src, socket) ==
    IsOk(reply_endpoint(frame.body, src)) => reply_endpoint(frame.body, src).ok = socket

Fits(octets, q) ==
    \E body :
        /\ IsFrame(octets, "SearchResponseExtended", body) /\ IsOk(parse_dibs(from(body, 9)))
        /\ \A c \in q.conditions : Meets(parse_dibs(from(body, 9)).ok, c)

Innocent(frame, src, home) ==
    /\ frame.service_type = "SearchRequest" => LeadsTo(frame, src, home)
    /\ frame.service_type = "SearchRequestExtended" =>
           \E q \in Query : from(frame.body, 9) = q.srps /\ LeadsTo(frame, src, q.socket)
    /\ frame.service_type # "DescriptionRequest"

Expected(g, home) ==
    /\ g.octets \in Seq(Octet) /\ IsOk(parse_frame(g.octets))
    /\ Innocent(parse_frame(g.octets).ok, g.src, home)
    /\ \A q \in Query : g.to = q.socket => Fits(g.octets, q)

Broken(g) == g.octets \in Seq(Octet) /\ ~ IsOk(parse_frame(g.octets))

\* While a connection is made nothing goes to who searched.
Discreet(g, home) ==
    /\ \A q \in Query : g.to # q.socket
    /\ LET frame == parse_frame(g.octets)
       IN  /\ IsOk(frame) /\ frame.ok.service_type = "ConnectRequest"
           /\ IsOk(parse_hpai(frame.ok.body))
           => hpai_to_socket_addr(parse_hpai(frame.ok.body).ok, g.src) = home

AnswersOK ==
    /\ damaged \in Nat
    /\ stage = "Searching" =>
           \A g \in net : Expected(g, client.socket) \/ (damaged > 0 /\ Broken(g))
    /\ stage = "Connecting" => \A g \in net : Discreet(g, client.socket)
    /\ stage \notin {"Searching", "Connecting"} => net = {}

LEMMA FrameFields ==
    ASSUME NEW service, NEW body
    PROVE  Frame(service, body).service_type = service /\ Frame(service, body).body = body
BY DEF Frame

LEMMA ReplyLeads ==
    ASSUME NEW frame, NEW hpai, parse_hpai(frame.body) = Ok(hpai),
           NEW src, NEW socket, hpai_to_socket_addr(hpai, src) = socket
    PROVE  LeadsTo(frame, src, socket)
<1>1. PICK told : told = reply_endpoint(frame.body, src)
    OBVIOUS
<1>2. IsOk(parse_hpai(frame.body)) /\ parse_hpai(frame.body).ok = hpai
    BY ResultFacts
<1>3. told = IF hpai.protocol = "Ipv4Udp" THEN Ok(socket) ELSE Err("NotUdp")
    BY <1>1, <1>2 DEF reply_endpoint, Then
<1>4. IsOk(told) => told.ok = socket
    BY ONLY <1>3, ResultFacts
<1> QED
    BY ONLY <1>1, <1>4 DEF LeadsTo

LEMMA IsExpected ==
    ASSUME NEW octets, NEW service, NEW body, IsFrame(octets, service, body),
           NEW src, NEW to, NEW home, Innocent(Frame(service, body), src, home),
           \A q \in Query : to = q.socket => Fits(octets, q),
           NEW g, g = Datagram(octets, src, to)
    PROVE  Expected(g, home)
<1>1. g.octets = octets /\ g.src = src /\ g.to = to
    BY DatagramFields
<1>2. octets \in Seq(Octet) /\ IsOk(parse_frame(octets))
      /\ parse_frame(octets).ok = Frame(service, body)
    BY ResultFacts DEF IsFrame
<1>3. Innocent(parse_frame(g.octets).ok, g.src, home)
    BY <1>1, <1>2
<1>4. \A q \in Query : g.to = q.socket => Fits(g.octets, q)
    BY <1>1
<1> QED
    BY ONLY <1>1, <1>2, <1>3, <1>4 DEF Expected

\* An answer asks for nothing.
LEMMA AnswersAreInnocent ==
    ASSUME NEW service \in {"SearchResponse", "SearchResponseExtended"}, NEW body,
           NEW src, NEW home
    PROVE  Innocent(Frame(service, body), src, home)
<1>1. /\ service # "SearchRequest" /\ service # "SearchRequestExtended"
      /\ service # "DescriptionRequest"
    OBVIOUS
<1> QED
    BY ONLY <1>1, FrameFields DEF Innocent

LEMMA SocketFacts ==
    ASSUME NEW q \in Query
    PROVE  /\ q.socket # Multicast /\ \A s \in Server : q.socket # ServerSocket(s)
           /\ \A c \in Client : q.socket # c.socket
           /\ \A p \in Query : p.socket = q.socket => p = q
           /\ hpai_to_socket_addr(q.endpoint, q.socket) = q.socket
<1>1. /\ q.socket \in Socket /\ q.endpoint.ip \in {Unspecified, q.socket.ip}
      /\ \/ q.endpoint.port = q.socket.port
         \/ q.endpoint.port = 0 /\ q.endpoint.ip = Unspecified
      /\ q.socket \notin {Multicast} \cup {ServerSocket(s) : s \in Server}
                            \cup {c.socket : c \in Client}
      /\ \A p \in Query : p.socket = q.socket => p = q
    BY QueriesAssumption
<1>2. PICK hpai, socket : hpai = q.endpoint /\ socket = q.socket
    OBVIOUS
<1>3. socket = SocketAddr(socket.ip, socket.port)
    BY ONLY <1>1, <1>2 DEF Socket, SocketAddr
<1>4. ASSUME hpai.ip = Unspecified
      PROVE  hpai_to_socket_addr(hpai, socket) = socket
  <2>1. is_unspecified(hpai)
      BY ONLY <1>4 DEF is_unspecified, Unspecified
  <2>2. hpai_to_socket_addr(hpai, socket) = socket_addr_with_port(socket, hpai.port)
      BY ONLY <2>1 DEF hpai_to_socket_addr
  <2>3. (IF hpai.port = 0 THEN socket.port ELSE hpai.port) = socket.port
      BY ONLY <1>1, <1>2
  <2>4. socket_addr_with_port(socket, hpai.port) = SocketAddr(socket.ip, socket.port)
      BY ONLY <2>3 DEF socket_addr_with_port
  <2> QED
      BY ONLY <1>3, <2>2, <2>4
<1>5. ASSUME hpai.ip # Unspecified
      PROVE  hpai_to_socket_addr(hpai, socket) = socket
  <2>1. ~ is_unspecified(hpai)
      BY ONLY <1>5 DEF is_unspecified, Unspecified
  <2>2. hpai_to_socket_addr(hpai, socket) = SocketAddr(hpai.ip, hpai.port)
      BY ONLY <2>1 DEF hpai_to_socket_addr
  <2>3. hpai.ip = socket.ip /\ hpai.port = socket.port
      BY ONLY <1>1, <1>2, <1>5
  <2> QED
      BY ONLY <1>3, <2>2, <2>3
<1>6. hpai_to_socket_addr(hpai, socket) = socket
    BY ONLY <1>4, <1>5
<1> QED
    BY ONLY <1>1, <1>2, <1>6

LEMMA OwnEndpoint ==
    ASSUME NEW c \in Client, NEW ip \in {c.local, c.socket.ip}, NEW hpai,
           hpai = Hpai("Ipv4Udp", ip, c.socket.port)
    PROVE  hpai \in Endpoint /\ hpai_to_socket_addr(hpai, c.socket) = c.socket
<1>1. c.socket \in Socket /\ c.local \in {Unspecified, c.socket.ip}
    BY ClientsAssumption
<1>2. PICK host, port : host = c.socket.ip /\ port = c.socket.port
    OBVIOUS
<1>3. host \in Ipv4 /\ port \in Word /\ c.socket = SocketAddr(host, port)
    BY <1>1, <1>2 DEF Socket, SocketAddr
<1>4. ip \in Ipv4 /\ ip \in {Unspecified, host}
    BY <1>1, <1>2, <1>3, MulticastIps
<1>5. hpai \in Endpoint
    BY <1>2, <1>3, <1>4, Protocols DEF Endpoint, Hpai
<1>6. hpai.ip = ip /\ hpai.port = port
    BY <1>2 DEF Hpai
<1>7. CASE ip = Unspecified
  <2>1. is_unspecified(hpai)
      BY ONLY <1>6, <1>7 DEF is_unspecified, Unspecified
  <2>2. hpai_to_socket_addr(hpai, c.socket) = socket_addr_with_port(c.socket, port)
      BY ONLY <1>6, <2>1 DEF hpai_to_socket_addr
  <2>3. socket_addr_with_port(c.socket, port) = SocketAddr(host, port)
      BY ONLY <1>2 DEF socket_addr_with_port
  <2> QED
      BY ONLY <1>3, <1>5, <2>2, <2>3
<1>8. CASE ip # Unspecified
  <2>1. ~ is_unspecified(hpai)
      BY ONLY <1>6, <1>8 DEF is_unspecified, Unspecified
  <2>2. hpai_to_socket_addr(hpai, c.socket) = SocketAddr(ip, port)
      BY ONLY <1>6, <2>1 DEF hpai_to_socket_addr
  <2> QED
      BY ONLY <1>3, <1>4, <1>5, <1>8, <2>2
<1> QED
    BY ONLY <1>7, <1>8

LEMMA SearchIsExpected ==
    ASSUME NEW c \in Client, NEW hpai, hpai = Hpai("Ipv4Udp", c.local, c.socket.port),
           NEW g, g = Datagram(frame_to_bytes(search_request(hpai)).ok, c.socket, Multicast)
    PROVE  Expected(g, c.socket)
<1>1. hpai \in Endpoint /\ hpai_to_socket_addr(hpai, c.socket) = c.socket
    BY OwnEndpoint
<1>2. PICK octets : octets = frame_to_bytes(search_request(hpai)).ok
    OBVIOUS
<1>3. PICK body : IsFrame(octets, "SearchRequest", body) /\ parse_hpai(body) = Ok(hpai)
    BY ONLY <1>1, <1>2, SearchIsFrame
<1>4. PICK frame : frame = Frame("SearchRequest", body)
    OBVIOUS
<1>5. frame.service_type = "SearchRequest" /\ frame.body = body
    BY ONLY <1>4, FrameFields
<1>6. parse_hpai(frame.body) = Ok(hpai)
    BY ONLY <1>3, <1>5
<1>7. LeadsTo(frame, c.socket, c.socket)
    BY ONLY <1>1, <1>6, ReplyLeads
<1>8. Innocent(frame, c.socket, c.socket)
  <2>1. "SearchRequest" # "SearchRequestExtended" /\ "SearchRequest" # "DescriptionRequest"
      OBVIOUS
  <2> QED
      BY ONLY <1>5, <1>7, <2>1 DEF Innocent
<1>9. \A q \in Query : Multicast = q.socket => Fits(octets, q)
    BY SocketFacts
<1> QED
    BY ONLY <1>2, <1>3, <1>4, <1>8, <1>9,
       g = Datagram(frame_to_bytes(search_request(hpai)).ok, c.socket, Multicast), IsExpected

LEMMA AskedIsExpected ==
    ASSUME NEW q \in Query, NEW home
    PROVE  Expected(Asked(q), home)
<1>1. PICK octets : octets = Asked(q).octets
    OBVIOUS
<1>2. PICK g : g = Datagram(octets, q.socket, Multicast)
    OBVIOUS
<1>3. Asked(q) = g
  <2>1. PICK other : other = frame_to_bytes(search_request_extended(q.endpoint, q.srps)).ok
      OBVIOUS
  <2>2. Asked(q) = Datagram(other, q.socket, Multicast)
      BY <2>1 DEF Asked
  <2>3. octets = other
      BY ONLY <1>1, <2>2, DatagramFields
  <2> QED
      BY ONLY <1>2, <2>2, <2>3
<1>4. PICK body : /\ IsFrame(octets, "SearchRequestExtended", body)
                  /\ parse_hpai(body) = Ok(q.endpoint) /\ from(body, 9) = q.srps
    BY ONLY <1>1, q \in Query, AskedIsFrame
<1>5. PICK frame : frame = Frame("SearchRequestExtended", body)
    OBVIOUS
<1>6. frame.service_type = "SearchRequestExtended" /\ frame.body = body
    BY ONLY <1>5, FrameFields
<1>7. hpai_to_socket_addr(q.endpoint, q.socket) = q.socket
    BY SocketFacts
<1>8. parse_hpai(frame.body) = Ok(q.endpoint) /\ from(frame.body, 9) = q.srps
    BY ONLY <1>4, <1>6
<1>9. LeadsTo(frame, q.socket, q.socket)
    BY ONLY <1>7, <1>8, ReplyLeads
<1>10. Innocent(frame, q.socket, home)
  <2>1. "SearchRequestExtended" # "SearchRequest"
        /\ "SearchRequestExtended" # "DescriptionRequest"
      OBVIOUS
  <2> QED
      BY ONLY <1>6, <1>8, <1>9, <2>1, q \in Query DEF Innocent
<1>11. \A p \in Query : Multicast = p.socket => Fits(octets, p)
    BY SocketFacts
<1>12. Expected(g, home)
    BY ONLY <1>2, <1>4, <1>5, <1>10, <1>11, IsExpected
<1> QED
    BY ONLY <1>3, <1>12

\* The blocks a server sends can be read, and who satisfies a parameter says so.
LEMMA TellingIsMeeting ==
    ASSUME NEW d \in Description, NEW routing \in BOOLEAN, NEW about, about = dibs(d, routing)
    PROVE  /\ IsOk(parse_dibs(about))
           /\ \A parameter, c : Asks(parameter, c) =>
                  (satisfied(d, parameter, routing) <=> Meets(parse_dibs(about).ok, c))
<1>1. Says(about, d, routing)
    BY ONLY d \in Description, routing \in BOOLEAN, about = dibs(d, routing), DibsSay
<1>2. PICK blocks : blocks = parse_dibs(about).ok
    OBVIOUS
<1>3. IsOk(parse_dibs(about))
  <2>1. PICK n \in Nat : n = IF routing THEN 8 ELSE 6
      OBVIOUS
  <2>2. PICK info : info = slice(about, 1, 54)
      OBVIOUS
  <2>3. PICK supported : supported = slice(about, 55, n)
      OBVIOUS
  <2>4. PICK b : parse_dibs(about) = Ok(b)
      BY ONLY <1>1, <2>1, <2>2, <2>3, routing \in BOOLEAN, n \in Nat, TwoBlocks
  <2> QED
      BY ONLY <2>4, ResultFacts
<1>4. ASSUME NEW parameter, NEW c, Asks(parameter, c)
      PROVE  satisfied(d, parameter, routing) <=> Meets(blocks, c)
    BY ONLY <1>1, <1>2, <1>4, d \in Description, routing \in BOOLEAN, SatisfiedIsMet
<1> QED
    BY ONLY <1>2, <1>3, <1>4

\* What answers an extended search is satisfied, and says so.
LEMMA AnswerFits ==
    ASSUME NEW q \in Query, NEW d \in Description, NEW routing \in BOOLEAN,
           answers_extended_search(d, q.srps, routing),
           NEW about, about = dibs(d, routing), NEW octets, NEW body,
           IsFrame(octets, "SearchResponseExtended", body), from(body, 9) = about
    PROVE  Fits(octets, q)
<1>2. PICK blocks : blocks = parse_dibs(about).ok
    OBVIOUS
<1>3. /\ IsOk(parse_dibs(about))
      /\ \A parameter, c : Asks(parameter, c) =>
             (satisfied(d, parameter, routing) <=> Meets(blocks, c))
    BY ONLY <1>2, d \in Description, routing \in BOOLEAN, about = dibs(d, routing),
       TellingIsMeeting
<1>4. ASSUME NEW c \in q.conditions PROVE Meets(blocks, c)
  <2>1. PICK i \in DOMAIN parse_srps(q.srps).ok :
            /\ is_mandatory(parse_srps(q.srps).ok[i])
            /\ Asks(parse_srps(q.srps).ok[i], c)
    <3>1. Stated(q)
        BY QueriesAssumption
    <3> QED
        BY ONLY <1>4, <3>1 DEF Stated
  <2>2. PICK parameter : parameter = parse_srps(q.srps).ok[i]
      OBVIOUS
  <2>3. satisfied(d, parameter, routing)
      BY ONLY <2>1, <2>2, answers_extended_search(d, q.srps, routing)
         DEF answers_extended_search
  <2>4. Asks(parameter, c)
      BY ONLY <2>1, <2>2
  <2> QED
      BY ONLY <1>3, <2>3, <2>4
<1>5. /\ IsOk(parse_dibs(from(body, 9)))
      /\ \A c \in q.conditions : Meets(parse_dibs(from(body, 9)).ok, c)
    BY ONLY <1>2, <1>3, <1>4, from(body, 9) = about
<1> QED
    BY ONLY <1>5, IsFrame(octets, "SearchResponseExtended", body) DEF Fits

\* Who says what meets every condition of a query answers it.
LEMMA WhoMeetsAnswers ==
    ASSUME NEW q \in Query, NEW s \in Server, NEW d \in Description,
           \A c \in q.conditions : Meets(parse_dibs(dibs(d, Site[s].routing)).ok, c)
    PROVE  IsOk(describe(Site[s], <<d>>, Asked(q).octets, q.socket))
<1>1. PICK routing \in BOOLEAN : routing = Site[s].routing
    BY SiteFacts
<1>2. PICK about : about = dibs(d, routing)
    OBVIOUS
<1>3. PICK octets : octets = Asked(q).octets
    OBVIOUS
<1>4. PICK body : /\ IsFrame(octets, "SearchRequestExtended", body)
                  /\ parse_hpai(body) = Ok(q.endpoint) /\ from(body, 9) = q.srps
    BY ONLY <1>3, q \in Query, AskedIsFrame
<1>5. PICK frame : frame = Frame("SearchRequestExtended", body)
    OBVIOUS
<1>6. /\ parse_frame(octets) = Ok(frame)
      /\ frame.service_type = "SearchRequestExtended" /\ frame.body = body
    BY ONLY <1>4, <1>5, FrameFields DEF IsFrame
<1>7. answers_extended_search(d, q.srps, routing)
  <2>1. PICK parameters : parameters = parse_srps(q.srps)
      OBVIOUS
  <2>2. /\ IsOk(parameters)
        /\ \A i \in DOMAIN parameters.ok :
               is_mandatory(parameters.ok[i]) =>
                   \/ Names(parameters.ok[i])
                   \/ \E c \in q.conditions : Asks(parameters.ok[i], c)
    <3>1. Stated(q)
        BY QueriesAssumption
    <3> QED
        BY ONLY <2>1, <3>1 DEF Stated
  <2>3. \A parameter, c : Asks(parameter, c) =>
            (satisfied(d, parameter, routing) <=> Meets(parse_dibs(about).ok, c))
      BY ONLY <1>2, d \in Description, routing \in BOOLEAN, TellingIsMeeting
  <2>4. \A c \in q.conditions : Meets(parse_dibs(about).ok, c)
      BY ONLY <1>1, <1>2, \A c \in q.conditions : Meets(parse_dibs(dibs(d, Site[s].routing)).ok, c)
  <2>5. \A parameter : Names(parameter) => satisfied(d, parameter, routing)
      BY ONLY SrpCodes DEF Names, satisfied
  <2>6. ASSUME NEW i \in DOMAIN parameters.ok, is_mandatory(parameters.ok[i])
        PROVE  satisfied(d, parameters.ok[i], routing)
      BY ONLY <2>2, <2>3, <2>4, <2>5, <2>6
  <2> QED
      BY ONLY <2>1, <2>2, <2>6 DEF answers_extended_search
<1>8. IsOk(reply_endpoint(body, q.socket))
  <2>1. q.endpoint.protocol = "Ipv4Udp"
      BY QueriesAssumption
  <2> QED
      BY ONLY <1>4, <2>1, ResultFacts DEF reply_endpoint, Then
<1>9. PICK speaker, told : speaker = Site[s] /\ told = reply_endpoint(body, q.socket)
    OBVIOUS
<1>10. PICK answer : answer = handle_search_extended(speaker, d, frame, q.socket)
    OBVIOUS
<1>11. IsOk(answer)
  <2>1. HPAI_LEN + 1 = 9
      BY DEF HPAI_LEN
  <2>2. answers_extended_search(d, from(frame.body, HPAI_LEN + 1), speaker.routing)
      BY ONLY <1>1, <1>4, <1>6, <1>7, <1>9, <2>1
  <2> QED
      BY ONLY <1>6, <1>8, <1>9, <1>10, <2>2, ResultFacts DEF handle_search_extended, Then
<1>12. describe(speaker, <<d>>, octets, q.socket) = answer
  <2>1. PICK given : given = <<d>>
      OBVIOUS
  <2>2. given # <<>> /\ given[1] = d
      BY ONLY <2>1
  <2>3. IsOk(parse_frame(octets)) /\ parse_frame(octets).ok = frame
      BY ONLY <1>6, ResultFacts
  <2>4. "SearchRequestExtended" # "SearchRequest"
      OBVIOUS
  <2>5. describe(speaker, given, octets, q.socket) =
            handle_search_extended(speaker, given[1], frame, q.socket)
      BY ONLY <1>6, <2>2, <2>3, <2>4 DEF describe, Then
  <2> QED
      BY ONLY <1>10, <2>1, <2>2, <2>5
<1> QED
    BY ONLY <1>3, <1>9, <1>11, <1>12

LEMMA AnswerIsExpected ==
    ASSUME NEW s \in Server, NEW d \in Description, NEW g, NEW c \in Client,
           Expected(g, c.socket),
           NEW answer, answer = describe(Site[s], <<d>>, g.octets, g.src), IsOk(answer),
           NEW h, h = Datagram(answer.ok.octets, ServerSocket(s), answer.ok.to)
    PROVE  Expected(h, c.socket)
<1>1. PICK routing \in BOOLEAN : routing = Site[s].routing
    BY SiteFacts
<1>2. PICK frame : frame = parse_frame(g.octets).ok
    OBVIOUS
<1>3. PICK src : src = g.src
    OBVIOUS
<1>4. PICK control : control = control_endpoint(Site[s].bound, Site[s].own, src)
    OBVIOUS
<1>5. PICK about : about = dibs(d, routing)
    OBVIOUS
<1>6. PICK octets, to : octets = answer.ok.octets /\ to = answer.ok.to
    OBVIOUS
<1>7. /\ IsOk(reply_endpoint(frame.body, src)) /\ to = reply_endpoint(frame.body, src).ok
      /\ \/ /\ frame.service_type = "SearchRequest"
            /\ octets = frame_to_bytes(search_response(control, about)).ok
         \/ /\ frame.service_type = "SearchRequestExtended"
            /\ octets = frame_to_bytes(search_response_extended(control, about)).ok
            /\ answers_extended_search(d, from(frame.body, 9), routing)
         \/ frame.service_type = "DescriptionRequest"
  <2>1. PICK given : given = <<d>>
      OBVIOUS
  <2>2. given[1] = d
      BY ONLY <2>1
  <2>3. PICK asked : asked = g.octets
      OBVIOUS
  <2>4. PICK speaker : speaker = Site[s]
      OBVIOUS
  <2>5. about = dibs(given[1], speaker.routing) /\ frame = parse_frame(asked).ok
        /\ control = control_endpoint(speaker.bound, speaker.own, src)
        /\ answer = describe(speaker, given, asked, src)
      BY ONLY <1>1, <1>2, <1>3, <1>4, <1>5, <2>1, <2>2, <2>3, <2>4,
         answer = describe(Site[s], <<d>>, g.octets, g.src)
  <2>6. /\ IsOk(reply_endpoint(frame.body, src))
        /\ answer.ok.to = reply_endpoint(frame.body, src).ok
        /\ \/ /\ frame.service_type = "SearchRequest"
              /\ answer.ok.octets = frame_to_bytes(search_response(control, about)).ok
           \/ /\ frame.service_type = "SearchRequestExtended"
              /\ answer.ok.octets = frame_to_bytes(search_response_extended(control, about)).ok
              /\ answers_extended_search(given[1], from(frame.body, 9), speaker.routing)
           \/ /\ frame.service_type = "DescriptionRequest"
              /\ answer.ok.octets = frame_to_bytes(description_response(about)).ok
      BY ONLY <2>5, IsOk(answer), Described
  <2> QED
      BY ONLY <1>1, <1>6, <2>2, <2>4, <2>6
<1>8. control \in Endpoint
    BY ONLY <1>4, s \in Server, ControlLeadsHome
<1>9. Innocent(frame, src, c.socket)
    BY <1>2, <1>3 DEF Expected
<1>10. CASE frame.service_type = "SearchRequest"
  <2>1. octets = frame_to_bytes(search_response(control, about)).ok
      BY ONLY <1>7, <1>10
  <2>2. to = c.socket
      BY ONLY <1>7, <1>9, <1>10 DEF Innocent, LeadsTo
  <2>3. PICK service \in DOMAIN ServiceType : service = "SearchResponse"
      BY Services
  <2>4. octets = frame_to_bytes(Frame(service, hpai_to_bytes(control) \o about)).ok
      BY ONLY <2>1, <2>3 DEF search_response
  <2>5. PICK body : IsFrame(octets, service, body)
      BY ONLY <1>5, <1>8, <2>4, d \in Description, routing \in BOOLEAN,
         service \in DOMAIN ServiceType, ResponseIsFrame
  <2>6. service \in {"SearchResponse", "SearchResponseExtended"}
      BY ONLY <2>3
  <2>7. \A q \in Query : to = q.socket => Fits(octets, q)
      BY <2>2, SocketFacts
  <2>8. Innocent(Frame(service, body), ServerSocket(s), c.socket)
      BY ONLY <2>6, AnswersAreInnocent
  <2>9. h = Datagram(octets, ServerSocket(s), to)
      BY ONLY <1>6, h = Datagram(answer.ok.octets, ServerSocket(s), answer.ok.to)
  <2> QED
      BY ONLY <2>5, <2>7, <2>8, <2>9, IsExpected
<1>11. CASE frame.service_type = "SearchRequestExtended"
  <2>1. octets = frame_to_bytes(search_response_extended(control, about)).ok
        /\ answers_extended_search(d, from(frame.body, 9), routing)
      BY ONLY <1>7, <1>11
  <2>2. PICK q \in Query : from(frame.body, 9) = q.srps /\ LeadsTo(frame, src, q.socket)
      BY ONLY <1>9, <1>11 DEF Innocent
  <2>3. to = q.socket
      BY ONLY <1>7, <2>2 DEF LeadsTo
  <2>4. PICK service \in DOMAIN ServiceType : service = "SearchResponseExtended"
      BY Services
  <2>5. octets = frame_to_bytes(Frame(service, hpai_to_bytes(control) \o about)).ok
    <3>1. PICK both : both = hpai_to_bytes(control) \o about
        OBVIOUS
    <3>2. search_response_extended(control, about) = Frame(service, both)
      <4>1. PICK plain : plain = search_response(control, about)
          OBVIOUS
      <4>2. plain = [service_type |-> "SearchResponse", body |-> both]
          BY ONLY <3>1, <4>1 DEF search_response, Frame
      <4>3. [plain EXCEPT !.service_type = service] = [service_type |-> service, body |-> both]
          BY ONLY <4>2
      <4> QED
          BY ONLY <2>4, <4>1, <4>3 DEF search_response_extended, Frame
    <3> QED
        BY ONLY <2>1, <3>1, <3>2
  <2>6. PICK body : IsFrame(octets, service, body) /\ from(body, 9) = about
      BY ONLY <1>5, <1>8, <2>5, d \in Description, routing \in BOOLEAN,
         service \in DOMAIN ServiceType, ResponseIsFrame
  <2>7. service \in {"SearchResponse", "SearchResponseExtended"}
      BY ONLY <2>4
  <2>8. Fits(octets, q)
    <3>1. answers_extended_search(d, q.srps, routing)
          /\ IsFrame(octets, "SearchResponseExtended", body)
        BY ONLY <2>1, <2>2, <2>4, <2>6
    <3> QED
        BY ONLY <1>5, <2>6, <3>1, q \in Query, d \in Description, routing \in BOOLEAN, AnswerFits
  <2>9. \A p \in Query : to = p.socket => Fits(octets, p)
    <3>1. \A p \in Query : p.socket = q.socket => p = q
        BY SocketFacts
    <3> QED
        BY ONLY <2>3, <2>8, <3>1
  <2>10. Innocent(Frame(service, body), ServerSocket(s), c.socket)
      BY ONLY <2>7, AnswersAreInnocent
  <2>11. h = Datagram(octets, ServerSocket(s), to)
      BY ONLY <1>6, h = Datagram(answer.ok.octets, ServerSocket(s), answer.ok.to)
  <2> QED
      BY ONLY <2>6, <2>9, <2>10, <2>11, IsExpected
<1>12. frame.service_type # "DescriptionRequest"
    BY ONLY <1>9 DEF Innocent
<1> QED
    BY ONLY <1>7, <1>10, <1>11, <1>12
LEMMA ConnectIsDiscreet ==
    ASSUME NEW c \in Client, NEW hpai, hpai = Hpai("Ipv4Udp", c.socket.ip, c.socket.port),
           NEW to, \A q \in Query : to # q.socket,
           NEW g, g = Datagram(frame_to_bytes(connect_request(hpai, hpai, tunnel_cri)).ok,
                               c.socket, to)
    PROVE  Discreet(g, c.socket)
<1>1. hpai \in Endpoint /\ hpai_to_socket_addr(hpai, c.socket) = c.socket
  <2>1. PICK ip \in {c.local, c.socket.ip} : ip = c.socket.ip
      OBVIOUS
  <2>2. hpai = Hpai("Ipv4Udp", ip, c.socket.port)
      BY ONLY <2>1, hpai = Hpai("Ipv4Udp", c.socket.ip, c.socket.port)
  <2> QED
      BY ONLY <2>2, c \in Client, ip \in {c.local, c.socket.ip}, OwnEndpoint
<1>2. PICK octets : octets = frame_to_bytes(connect_request(hpai, hpai, tunnel_cri)).ok
    OBVIOUS
<1>3. PICK body : IsFrame(octets, "ConnectRequest", body) /\ parse_hpai(body) = Ok(hpai)
    BY ONLY <1>1, <1>2, ConnectIsFrame
<1>4. g.octets = octets /\ g.src = c.socket /\ g.to = to
    BY ONLY <1>2, DatagramFields,
       g = Datagram(frame_to_bytes(connect_request(hpai, hpai, tunnel_cri)).ok, c.socket, to)
<1>5. PICK frame : frame = parse_frame(g.octets)
    OBVIOUS
<1>6. frame.ok.body = body
    BY ONLY <1>3, <1>4, <1>5, ResultFacts, FrameFields DEF IsFrame
<1>7. hpai_to_socket_addr(parse_hpai(frame.ok.body).ok, g.src) = c.socket
    BY ONLY <1>1, <1>3, <1>4, <1>6, ResultFacts
<1> QED
    BY ONLY <1>4, <1>5, <1>7, \A q \in Query : to # q.socket DEF Discreet

LEMMA AcceptedIsDiscreet ==
    ASSUME NEW c \in Client, NEW port \in Word, NEW src, NEW g,
           g = Datagram(frame_to_bytes(build_connect_response(1, E_NO_ERROR,
                            TUNNEL_IA_BASE + 1, port)).ok, src, c.socket)
    PROVE  Discreet(g, c.socket)
<1>1. PICK octets : octets = frame_to_bytes(build_connect_response(1, E_NO_ERROR,
                                                TUNNEL_IA_BASE + 1, port)).ok
    OBVIOUS
<1>2. PICK body : IsFrame(octets, "ConnectResponse", body)
    BY ONLY <1>1, port \in Word, AcceptedIsFrame
<1>3. g = Datagram(octets, src, c.socket)
    BY ONLY <1>1, g = Datagram(frame_to_bytes(build_connect_response(1, E_NO_ERROR,
                                   TUNNEL_IA_BASE + 1, port)).ok, src, c.socket)
<1>4. g.octets = octets /\ g.to = c.socket
    BY ONLY <1>3, DatagramFields
<1>5. parse_frame(g.octets).ok.service_type # "ConnectRequest"
  <2>1. parse_frame(g.octets).ok.service_type = "ConnectResponse"
      BY ONLY <1>2, <1>4, ResultFacts, FrameFields DEF IsFrame
  <2>2. "ConnectResponse" # "ConnectRequest"
      OBVIOUS
  <2> QED
      BY ONLY <2>1, <2>2
<1>6. \A q \in Query : c.socket # q.socket
    BY SocketFacts
<1> QED
    BY ONLY <1>4, <1>5, <1>6 DEF Discreet

\* A connect request is accepted where its control endpoint is.
LEMMA AcceptedWhere ==
    ASSUME NEW body, NEW src, IsOk(parse_connect(body, src))
    PROVE  /\ IsOk(parse_hpai(body))
           /\ parse_connect(body, src).ok.ctrl_addr =
                  hpai_to_socket_addr(parse_hpai(body).ok, src)
<1>1. PICK asking : asking = parse_connect(body, src)
    OBVIOUS
<1>2. PICK ctrl : ctrl = parse_hpai(body)
    OBVIOUS
<1>3. PICK data : data = parse_hpai(from(body, HPAI_LEN + 1))
    OBVIOUS
<1>4. PICK short : short = (Len(body) < 2 * HPAI_LEN + CRI_CRD_LEN)
    OBVIOUS
<1>5. PICK asked : asked = [ctrl_addr |-> hpai_to_socket_addr(ctrl.ok, src),
                           data_addr |-> hpai_to_socket_addr(data.ok, src),
                           conn_type |-> body[2 * HPAI_LEN + 2]]
    OBVIOUS
<1>6. asking = IF short THEN Err("TooShort")
               ELSE IF IsOk(ctrl) THEN IF IsOk(data) THEN Ok(asked) ELSE data ELSE ctrl
    BY ONLY <1>1, <1>2, <1>3, <1>4, <1>5, Zenon DEF parse_connect, Then
<1>7. ~ short
    BY ONLY <1>1, <1>6, IsOk(parse_connect(body, src)), ResultFacts, Zenon
<1>8. IsOk(ctrl) /\ asking = Ok(asked)
  <2>1. asking = IF IsOk(ctrl) THEN IF IsOk(data) THEN Ok(asked) ELSE data ELSE ctrl
      BY ONLY <1>6, <1>7, Zenon
  <2>2. IsOk(asking)
      BY ONLY <1>1, IsOk(parse_connect(body, src))
  <2> QED
      BY ONLY <2>1, <2>2, Zenon
<1>9. asked.ctrl_addr = hpai_to_socket_addr(ctrl.ok, src)
    BY ONLY <1>5
<1> QED
    BY ONLY <1>1, <1>2, <1>8, <1>9, ResultFacts

-----------------------------------------------------------------------------
\* A damaged datagram is broken.
LEMMA DamagedIsBroken ==
    ASSUME NEW g, NEW home, Expected(g, home), NEW octets,
           octets \in {SubSeq(g.octets, 1, Len(g.octets) - 1), Append(g.octets, 0)},
           NEW h, h = [g EXCEPT !.octets = octets], g = Datagram(g.octets, g.src, g.to)
    PROVE  Broken(h)
<1>1. PICK intact : intact = g.octets
    OBVIOUS
<1>2. intact \in Seq(Octet) /\ IsOk(parse_frame(intact))
    BY <1>1 DEF Expected
<1>3. octets \in {SubSeq(intact, 1, Len(intact) - 1), Append(intact, 0)}
    BY <1>1
<1>4. octets \in Seq(Octet) /\ ~ IsOk(parse_frame(octets))
    BY ONLY <1>2, <1>3, BrokenFrame
<1>5. h.octets = octets
    BY DatagramFields
<1> QED
    BY ONLY <1>4, <1>5 DEF Broken

-----------------------------------------------------------------------------
(* Each step leaves the answers right, whatever it does.                    *)
LEMMA InitAnswers == WireInit => AnswersOK
BY DEF WireInit, AnswersOK

\* A step of the search: nothing gets lost, and what is new is expected.
LEMMA SameAnswers ==
    ASSUME AnswersOK, stage = "Searching", stage' = "Searching", client' = client,
           damaged' = damaged, \A g \in net' : g \in net \/ Expected(g, client.socket)
    PROVE  AnswersOK'
<1>1. damaged \in Nat
      /\ \A g \in net : Expected(g, client.socket) \/ (damaged > 0 /\ Broken(g))
    BY DEF AnswersOK
<1>2. \A g \in net' : Expected(g, client'.socket) \/ (damaged' > 0 /\ Broken(g))
    BY <1>1
<1> QED
    BY <1>1, <1>2 DEF AnswersOK

LEMMA SearchKeepsAnswers ==
    ASSUME AnswersOK, DInv, Search
    PROVE  AnswersOK'
<1>1. PICK hpai : hpai = Hpai("Ipv4Udp", client.local, client.socket.port)
    OBVIOUS
<1>2. /\ stage' = "Searching" /\ client' = client /\ damaged' = damaged
      /\ net' = {Datagram(frame_to_bytes(search_request(hpai)).ok, client.socket, Multicast)}
    BY <1>1 DEF Search, discovery_hpai
<1>3. client \in Client /\ damaged \in Nat
    BY DEF DInv, AnswersOK
<1>4. \A g \in net' : Expected(g, client.socket)
    BY ONLY <1>1, <1>2, <1>3, SearchIsExpected
<1> QED
    BY <1>2, <1>3, <1>4 DEF AnswersOK

LEMMA AskKeepsAnswers ==
    ASSUME AnswersOK, NEW q \in Query, Ask(q)
    PROVE  AnswersOK'
<1>1. /\ stage = "Searching" /\ stage' = "Searching" /\ client' = client
      /\ damaged' = damaged /\ net' = net \cup {Asked(q)}
    BY DEF Ask
<1>2. Expected(Asked(q), client.socket)
    BY ONLY q \in Query, AskedIsExpected
<1>3. \A g \in net' : g \in net \/ Expected(g, client.socket)
    BY ONLY <1>1, <1>2
<1> QED
    BY ONLY <1>1, <1>3, AnswersOK, SameAnswers

LEMMA DescribeKeepsAnswers ==
    ASSUME AnswersOK, DInv, NEW s \in Server, NEW g \in net, DescribeItself(s, g)
    PROVE  AnswersOK'
<1>1. PICK answer : answer = describe(Site[s], description[s], g.octets, g.src)
    OBVIOUS
<1>2. PICK h : h = Datagram(answer.ok.octets, ServerSocket(s), answer.ok.to)
    OBVIOUS
<1>3. /\ stage = "Searching" /\ stage' = "Searching" /\ client' = client
      /\ damaged' = damaged /\ IsOk(answer) /\ net' = net \cup {h}
    BY <1>1, <1>2 DEF DescribeItself
<1>4. client \in Client /\ description[s] \in {<<>>} \cup {<<d>> : d \in MayBecome}
    BY DEF DInv, DescriptionsOK
<1>5. PICK told : told = description[s]
    OBVIOUS
<1>6. told # <<>> /\ IsOk(parse_frame(g.octets))
  <2>1. PICK octets : octets = g.octets
      OBVIOUS
  <2>2. PICK src : src = g.src
      OBVIOUS
  <2>3. answer = describe(Site[s], told, octets, src)
      BY <1>1, <1>5, <2>1, <2>2
  <2>4. told # <<>> /\ IsOk(parse_frame(octets))
      BY ONLY <1>3, <2>3, Described
  <2> QED
      BY ONLY <2>1, <2>4
<1>7. PICK d \in MayBecome : told = <<d>>
    BY <1>4, <1>5, <1>6
<1>8. d \in Description
    BY ServersAssumption
<1>9. Expected(g, client.socket)
    BY <1>3, <1>6 DEF AnswersOK, Broken
<1>10. Expected(h, client.socket)
  <2>1. PICK c \in Client : c = client
      BY <1>4
  <2>2. answer = describe(Site[s], <<d>>, g.octets, g.src) /\ Expected(g, c.socket)
      BY ONLY <1>1, <1>5, <1>7, <1>9, <2>1
  <2>3. Expected(h, c.socket)
      BY ONLY <1>2, <1>3, <1>8, <2>2, s \in Server, c \in Client, AnswerIsExpected
  <2> QED
      BY ONLY <2>1, <2>3
<1>11. \A k \in net' : k \in net \/ Expected(k, client.socket)
    BY ONLY <1>3, <1>10
<1> QED
    BY ONLY <1>3, <1>11, AnswersOK, SameAnswers

LEMMA DamageKeepsAnswers ==
    ASSUME AnswersOK, DInv, MaxDamage \in {0, 1}, NEW g \in net, Damage(g)
    PROVE  AnswersOK'
<1>1. /\ stage = "Searching" /\ stage' = "Searching" /\ client' = client
      /\ damaged < MaxDamage /\ damaged' = damaged + 1
    BY DEF Damage
<1>2. PICK octets \in {SubSeq(g.octets, 1, Len(g.octets) - 1), Append(g.octets, 0)} :
          net' = net \cup {[g EXCEPT !.octets = octets]}
    BY DEF Damage
<1>3. damaged = 0 /\ damaged' = 1
    BY <1>1 DEF AnswersOK
<1>4. \A k \in net : Expected(k, client.socket)
    BY <1>1, <1>3 DEF AnswersOK
<1>5. g = Datagram(g.octets, g.src, g.to)
    BY <1>1 DEF DInv, Traced
<1>6. Broken([g EXCEPT !.octets = octets])
    BY ONLY <1>2, <1>4, <1>5, g \in net, DamagedIsBroken
<1>7. \A k \in net' : Expected(k, client'.socket) \/ (damaged' > 0 /\ Broken(k))
  <2>1. \A k \in net' : Expected(k, client.socket) \/ Broken(k)
      BY ONLY <1>2, <1>4, <1>6
  <2> QED
      BY ONLY <1>1, <1>3, <2>1
<1> QED
    BY <1>1, <1>3, <1>7 DEF AnswersOK

LEMMA ConnectKeepsAnswers ==
    ASSUME AnswersOK, DInv, NEW addr, \A q \in Query : addr # q.socket, Connect(addr)
    PROVE  AnswersOK'
<1>1. PICK hpai : hpai = Hpai("Ipv4Udp", client.socket.ip, client.socket.port)
    OBVIOUS
<1>2. PICK spec : spec = parse_url("udp", addr).ok
    OBVIOUS
<1>3. PICK g : g = Datagram(frame_to_bytes(connect_request(hpai, hpai, tunnel_cri)).ok,
                            client.socket, addr)
    OBVIOUS
<1>4. /\ stage' = IF spec[1] = "Tunnel" THEN "Connecting" ELSE "Connected"
      /\ net' = IF spec[1] = "Router" THEN {} ELSE {g}
      /\ client' = client /\ damaged' = damaged
    BY <1>1, <1>2, <1>3 DEF Connect
<1>5. spec[1] \in {"Tunnel", "Router"}
  <2>1. PICK kind : kind = IF is_multicast(addr.ip) THEN "Router" ELSE "Tunnel"
      OBVIOUS
  <2>2. parse_url("udp", addr) = Ok(<<kind, addr>>)
      BY ONLY <2>1, Zenon DEF parse_url
  <2>3. spec = <<kind, addr>>
      BY ONLY <1>2, <2>2, ResultFacts
  <2>4. spec[1] = kind
      BY ONLY <2>3
  <2>5. kind \in {"Tunnel", "Router"}
      BY ONLY <2>1, Zenon
  <2> QED
      BY ONLY <2>4, <2>5
<1>6. client \in Client /\ damaged \in Nat
    BY DEF DInv, AnswersOK
<1>7. Discreet(g, client.socket)
    BY ONLY <1>1, <1>3, <1>6, \A q \in Query : addr # q.socket, ConnectIsDiscreet
<1>8. \/ stage' = "Connected" /\ net' = {}
      \/ stage' = "Connecting" /\ net' = {g}
    BY ONLY <1>4, <1>5
<1>9. stage' = "Connecting" => \A k \in net' : Discreet(k, client'.socket)
    BY ONLY <1>4, <1>7, <1>8
<1> QED
    BY ONLY <1>4, <1>6, <1>8, <1>9 DEF AnswersOK

LEMMA AcceptKeepsAnswers ==
    ASSUME AnswersOK, DInv, NEW s \in Server, NEW g \in net, Accept(s, g)
    PROVE  AnswersOK'
<1>1. PICK frame : frame = parse_frame(g.octets)
    OBVIOUS
<1>2. PICK asking : asking = parse_connect(frame.ok.body, g.src)
    OBVIOUS
<1>3. PICK port \in Word : port = Site[s].bound.port
    BY SiteFacts
<1>4. PICK h : h = Datagram(
          frame_to_bytes(build_connect_response(1, E_NO_ERROR, TUNNEL_IA_BASE + 1, port)).ok,
          ServerSocket(s), asking.ok.ctrl_addr)
    OBVIOUS
<1>5. /\ stage = "Connecting" /\ stage' = stage /\ client' = client /\ damaged' = damaged
      /\ IsOk(frame) /\ frame.ok.service_type = "ConnectRequest" /\ IsOk(asking)
      /\ net' = net \cup {h}
    BY <1>1, <1>2, <1>3, <1>4 DEF Accept
<1>6. damaged \in Nat /\ client \in Client /\ \A k \in net : Discreet(k, client.socket)
    BY <1>5 DEF AnswersOK, DInv
<1>7. asking.ok.ctrl_addr = client.socket
  <2>1. IsOk(parse_hpai(frame.ok.body))
        /\ asking.ok.ctrl_addr = hpai_to_socket_addr(parse_hpai(frame.ok.body).ok, g.src)
      BY ONLY <1>2, <1>5, AcceptedWhere
  <2>2. hpai_to_socket_addr(parse_hpai(frame.ok.body).ok, g.src) = client.socket
      BY ONLY <1>1, <1>5, <1>6, <2>1, g \in net DEF Discreet
  <2> QED
      BY ONLY <2>1, <2>2
<1>8. Discreet(h, client.socket)
  <2>1. PICK src, c : src = ServerSocket(s) /\ c = client
      OBVIOUS
  <2>2. h = Datagram(frame_to_bytes(build_connect_response(1, E_NO_ERROR,
                         TUNNEL_IA_BASE + 1, port)).ok, src, c.socket)
      BY ONLY <1>4, <1>7, <2>1
  <2>3. c \in Client
      BY ONLY <1>6, <2>1
  <2>4. Discreet(h, c.socket)
      BY ONLY <2>2, <2>3, port \in Word, AcceptedIsDiscreet
  <2> QED
      BY ONLY <2>1, <2>4
<1>9. \A k \in net' : Discreet(k, client'.socket)
    BY ONLY <1>5, <1>6, <1>8
<1> QED
    BY ONLY <1>5, <1>6, <1>9 DEF AnswersOK

\* What was sent stays as it was, or nothing is left of it.
LEMMA QuietKeepsAnswers ==
    ASSUME AnswersOK, client' = client, damaged' = damaged,
           (stage' = stage /\ net' = net)
               \/ (stage' \notin {"Searching", "Connecting"} /\ net' = {})
    PROVE  AnswersOK'
<1>1. CASE stage' = stage /\ net' = net
    BY ONLY <1>1, AnswersOK, client' = client, damaged' = damaged DEF AnswersOK
<1>2. CASE stage' \notin {"Searching", "Connecting"} /\ net' = {}
    BY ONLY <1>2, AnswersOK, client' = client, damaged' = damaged DEF AnswersOK
<1> QED
    BY ONLY <1>1, <1>2, (stage' = stage /\ net' = net)
               \/ (stage' \notin {"Searching", "Connecting"} /\ net' = {})

LEMMA NextAnswers ==
    ASSUME MaxDamage \in {0, 1}
    PROVE  AnswersOK /\ DInv /\ [WireNext]_wire_vars => AnswersOK'
<1> SUFFICES ASSUME AnswersOK, DInv, [WireNext]_wire_vars PROVE AnswersOK'
    OBVIOUS
<1>1. CASE Search
    BY ONLY <1>1, AnswersOK, DInv, SearchKeepsAnswers
<1>2. ASSUME NEW q \in Query, Ask(q) PROVE AnswersOK'
    BY ONLY <1>2, AnswersOK, AskKeepsAnswers
<1>3. ASSUME NEW s \in Server, NEW g \in net, DescribeItself(s, g) PROVE AnswersOK'
    BY ONLY <1>3, AnswersOK, DInv, DescribeKeepsAnswers
<1>4. ASSUME NEW s \in Server, NEW g \in net, Accept(s, g) PROVE AnswersOK'
    BY ONLY <1>4, AnswersOK, DInv, AcceptKeepsAnswers
<1>5. ASSUME NEW s \in Server, NEW d \in MayBecome, SetDescription(s, d) PROVE AnswersOK'
    BY <1>5, QuietKeepsAnswers DEF SetDescription
<1>6. ASSUME NEW g \in net, Damage(g) PROVE AnswersOK'
    BY ONLY <1>6, AnswersOK, DInv, MaxDamage \in {0, 1}, DamageKeepsAnswers
<1>7. ASSUME NEW g \in net, CollectAnswer(g) PROVE AnswersOK'
    BY <1>7, QuietKeepsAnswers DEF CollectAnswer
<1>8. ASSUME NEW g \in net, Connected(g) PROVE AnswersOK'
  <2>1. stage' = "Connected" /\ net' = {} /\ UNCHANGED <<client, damaged>>
      BY <1>8 DEF Connected
  <2> QED
      BY <2>1, QuietKeepsAnswers
<1>9. CASE Deadline
    BY <1>9, QuietKeepsAnswers DEF Deadline
<1>10. CASE ConnectToFound
  <2>1. PICK i \in DOMAIN found : Connect(found[i].address)
      BY <1>10 DEF ConnectToFound
  <2>2. PICK S : found \in Seq(S) /\ \A gateway \in S : FoundIs(gateway, said)
      BY DEF DInv, FoundOK
  <2>3. found[i] \in S
      BY ONLY <2>1, <2>2
  <2>4. PICK s \in Server : found[i].address = ServerSocket(s)
      BY ONLY <2>2, <2>3 DEF FoundIs
  <2>5. PICK addr : addr = found[i].address
      OBVIOUS
  <2>6. \A q \in Query : addr # q.socket
      BY <2>4, <2>5, SocketFacts
  <2>7. Connect(addr)
      BY ONLY <2>1, <2>5
  <2> QED
      BY ONLY <2>6, <2>7, AnswersOK, DInv, ConnectKeepsAnswers
<1>11. CASE ConnectToGroup
  <2>1. Connect(Multicast) /\ \A q \in Query : Multicast # q.socket
      BY <1>11, SocketFacts DEF ConnectToGroup
  <2> QED
      BY ONLY <2>1, AnswersOK, DInv, ConnectKeepsAnswers
<1>12. CASE \/ \E t \in Telegram : Write(t)
            \/ Forward
            \/ \E octet \in Chatter : Say(octet)
            \/ Poll
            \/ UNCHANGED wire_vars
  <2>1. UNCHANGED <<stage, client, net, damaged>>
      BY <1>12 DEF Write, Forward, Say, Poll, wire_vars, lookup
  <2> QED
      BY <2>1, QuietKeepsAnswers
<1> QED
    BY <1>1, <1>2, <1>3, <1>4, <1>5, <1>6, <1>7, <1>8, <1>9, <1>10, <1>11, <1>12 DEF WireNext

(* Whatever is set on the servers and whichever datagrams are lost, late or *)
(* repeated, who searches with parameters hears only servers whose answer   *)
(* says that they meet them, and a server of which that can be said answers *)
(* (answers_extended_search, SrpSequence, DeviceDescription::dibs).  At     *)
(* most one datagram of the search is damaged: cut off and filled up again, *)
(* a query is a query with other parameters.                                *)
THEOREM QueriesSelect == MaxDamage \in {0, 1} => (WireSpec => []AnswersMatch)
<1> SUFFICES ASSUME MaxDamage \in {0, 1} PROVE WireSpec => []AnswersMatch
    OBVIOUS
<1>1. ASSUME AnswersOK, NEW g \in net, NEW q \in Query, g.to = q.socket,
             NEW frame, frame = parse_frame(g.octets), IsOk(frame),
             NEW blocks, blocks = parse_dibs(from(frame.ok.body, 9))
      PROVE  IsOk(blocks) /\ \A c \in q.conditions : Meets(blocks.ok, c)
  <2>1. Expected(g, client.socket)
      BY <1>1 DEF AnswersOK, Discreet, Broken
  <2>2. Fits(g.octets, q)
      BY ONLY <1>1, <2>1, q \in Query DEF Expected
  <2>3. PICK body :
            /\ IsFrame(g.octets, "SearchResponseExtended", body)
            /\ IsOk(parse_dibs(from(body, 9)))
            /\ \A c \in q.conditions : Meets(parse_dibs(from(body, 9)).ok, c)
      BY ONLY <2>2 DEF Fits
  <2>4. frame.ok.body = body
      BY ONLY <1>1, <2>3, ResultFacts, FrameFields DEF IsFrame
  <2> QED
      BY ONLY <1>1, <2>3, <2>4
<1>2. ASSUME DInv, NEW q \in Query, NEW s \in Server, description[s] # <<>>,
             \A c \in q.conditions :
                 Meets(parse_dibs(dibs(description[s][1], Site[s].routing)).ok, c)
      PROVE  IsOk(describe(Site[s], description[s], Asked(q).octets, q.socket))
  <2>1. PICK d \in Description : description[s] = <<d>>
      BY <1>2, ServersAssumption DEF DInv, DescriptionsOK
  <2>2. description[s][1] = d
      BY ONLY <2>1
  <2>3. IsOk(describe(Site[s], <<d>>, Asked(q).octets, q.socket))
      BY ONLY <1>2, <2>2, q \in Query, s \in Server, d \in Description, WhoMeetsAnswers
  <2> QED
      BY ONLY <2>1, <2>3
<1>3. AnswersOK /\ DInv => AnswersMatch
  <2>1. HPAI_LEN + 1 = 9
      BY DEF HPAI_LEN
  <2> QED
      BY ONLY <1>1, <1>2, <2>1 DEF AnswersMatch
<1> QED
    BY <1>3, InitAnswers, NextAnswers, FoundInvariance, PTL DEF WireSpec

-----------------------------------------------------------------------------
(* A telegram is a unit of at most 56 octets, from which its reader gets    *)
(* what was written.                                                        *)
LEMMA GroupServices ==
    /\ ApduType["GroupValueRead"] = 0 /\ ApduType["GroupValueResponse"] = 64
    /\ ApduType["GroupValueWrite"] = 128
    /\ {"GroupValueRead", "GroupValueResponse", "GroupValueWrite"} \subseteq DOMAIN ApduType
    /\ \A t \in DOMAIN ApduType : (ApduType[t] = 0 => t = "GroupValueRead")
                                  /\ (ApduType[t] = 64 => t = "GroupValueResponse")
                                  /\ (ApduType[t] = 128 => t = "GroupValueWrite")
BY DEF ApduType

LEMMA GroupTypes ==
    ASSUME NEW service \in {"GroupValueRead", "GroupValueResponse", "GroupValueWrite"}
    PROVE  /\ ApduType[service] \in {0, 64, 128} /\ apdu_types(ApduType[service]) = {service}
           /\ service = "GroupValueRead" => ApduType[service] = 0
<1>1. PICK code : code = ApduType[service]
    OBVIOUS
<1>2. service \in DOMAIN ApduType /\ code \in {0, 64, 128}
      /\ (service = "GroupValueRead" => code = 0)
    BY <1>1, GroupServices
<1>3. \A t \in DOMAIN ApduType : ApduType[t] = code => t = service
    BY <1>1, GroupServices
<1> QED
    BY ONLY <1>1, <1>2, <1>3 DEF apdu_types

\* What the reader of a unit makes of it.
ReadsTo(unit, t) ==
    /\ IsOk(unit) /\ unit.ok.tpdu_type = "DataGroup" /\ unit.ok.apdu.apdu_type = t.service
    /\ t.service # "GroupValueRead" => decode(t.dpt, unit.ok.apdu.data) = Ok(t.read)

Telling(u, m, t) ==
    m \in Nat /\ 1 <= m /\ m <= 55 /\ Long(u, m + 1) /\ ReadsTo(parse_tpdu(u, m, TRUE, t.ga), t)

LEMMA TelegramFacts ==
    ASSUME NEW t \in Telegram
    PROVE  /\ t.ga \in Word /\ t.ga # 0
           /\ t.service \in {"GroupValueRead", "GroupValueResponse", "GroupValueWrite"}
           /\ t.service # "GroupValueRead" /\ IsOk(encode(t.dpt, t.value)) =>
                  /\ encode(t.dpt, t.value).ok \in Seq(Octet)
                  /\ Len(encode(t.dpt, t.value).ok) <= 54
                  /\ decode(t.dpt, encode(t.dpt, t.value).ok) = Ok(t.read)
<1>1. PICK octets : octets = encode(t.dpt, t.value).ok
    OBVIOUS
<1>2. /\ t.ga \in Word \ {0}
      /\ t.service \in {"GroupValueRead", "GroupValueResponse", "GroupValueWrite"}
      /\ t.service # "GroupValueRead" /\ IsOk(encode(t.dpt, t.value)) =>
             /\ octets \in Seq(Octet)
             /\ HEADER_EXT + 2 + Len(octets) + CRC_LEN <= MAX_FRAME_LEN
             /\ decode(t.dpt, octets) = Ok(t.read)
    BY <1>1, TelegramsAssumption
<1>3. octets \in Seq(Octet) /\ HEADER_EXT + 2 + Len(octets) + CRC_LEN <= MAX_FRAME_LEN
        => Len(octets) <= 54
    BY DEF HEADER_EXT, CRC_LEN, MAX_FRAME_LEN
<1> QED
    BY ONLY <1>1, <1>2, <1>3

Carrying(u, m, ga, service, data) ==
    parse_tpdu(u, m, TRUE, ga) = Ok(Data("DataGroup", 0, Apdu(service, data)))

\* A unit whose first octet is 0 and whose second begins with the code.
LEMMA UnitRead ==
    ASSUME NEW service \in {"GroupValueRead", "GroupValueResponse", "GroupValueWrite"},
           NEW u, NEW m \in Nat, Long(u, m + 1), 1 <= m, u[1] = 0,
           NEW v \in Nat, v <= 63, u[2] = ApduType[service] + v,
           NEW data, (m <= 1 /\ data = <<v>>) \/ (m > 1 /\ data = from(u, 3)),
           NEW ga, ga # 0
    PROVE  Carrying(u, m, ga, service, data)
<1>1. PICK code : code = ApduType[service]
    OBVIOUS
<1>2. code \in {0, 64, 128} /\ apdu_types(code) = {service}
    BY ONLY <1>1, GroupTypes, service \in {"GroupValueRead", "GroupValueResponse", "GroupValueWrite"}
<1>3. Len(u) = m + 1 /\ u # <<>> /\ Len(u) >= 2
    BY ONLY Long(u, m + 1), m \in Nat, 1 <= m DEF Long
<1>4. PICK apci : apci = u16(u, 1) % 1024
    OBVIOUS
<1>5. apci = code + v
  <2>1. u16(u, 1) = u[1] * 256 + u[2]
      BY ONLY 1 + 1 = 2 DEF u16
  <2>2. u[1] = 0 /\ u[2] = code + v
      BY ONLY <1>1, u[1] = 0, u[2] = ApduType[service] + v
  <2>3. u16(u, 1) = code + v
      BY ONLY <1>2, <2>1, <2>2, v \in Nat
  <2>4. (code + v) % 1024 = code + v
      BY ONLY <1>2, v \in Nat, v <= 63
  <2> QED
      BY ONLY <1>4, <2>3, <2>4
<1>6. apci \div 64 = code \div 64 /\ apci % 1024 = apci /\ (apci \div 64) * 64 = code
      /\ apci % 64 = v /\ apci \div 64 < 11 /\ apci \div 64 # 7
    BY ONLY <1>2, <1>5, v \in Nat, v <= 63
<1>7. is_short_apci(apci) /\ normalize_apci(apci) = code
    BY ONLY <1>6 DEF is_short_apci, normalize_apci
<1>8. apdu_type_from_raw(apci) = {service}
    BY ONLY <1>2, <1>7 DEF apdu_type_from_raw
<1>9. (CHOOSE t \in apdu_type_from_raw(apci) : TRUE) = service
    BY ONLY <1>8
<1>10. u[2] % 64 = v
    BY ONLY <1>1, <1>2, u[2] = ApduType[service] + v, v \in Nat, v <= 63
<1>11. service \notin KeepsApciOctet
    BY ONLY service \in {"GroupValueRead", "GroupValueResponse", "GroupValueWrite"}
       DEF KeepsApciOctet
<1>12. decode_apci(apci, service, u, m) = data
  <2>1. (m <= 1) \/ (m > 1 /\ ~ (m <= 1))
      BY ONLY m \in Nat
  <2>2. decode_apci(apci, service, u, m) = IF m <= 1 THEN <<v>> ELSE from(u, 3)
      BY ONLY <1>7, <1>10, <1>11 DEF decode_apci
  <2> QED
      BY ONLY <2>1, <2>2, m \in Nat, (m <= 1 /\ data = <<v>>) \/ (m > 1 /\ data = from(u, 3))
<1>13. PICK apdu : apdu = Apdu(service, data)
    OBVIOUS
<1>14. parse_apdu(u, m) = Ok(apdu)
    BY ONLY <1>3, <1>4, <1>8, <1>9, <1>12, <1>13 DEF parse_apdu
<1>15. data_type(0, TRUE, ga) = "DataGroup"
    BY ga # 0, Zenon DEF data_type
<1>16. bits(u[1], 4, 16) = 0 /\ ~ (u[1] >= 128)
    BY ONLY u[1] = 0 DEF bits
<1>17. Then(parse_apdu(u, m), LAMBDA x : Ok(Data(data_type(u[1], TRUE, ga), bits(u[1], 4, 16), x)))
         = Ok(Data("DataGroup", 0, apdu))
    BY ONLY <1>14, <1>15, <1>16, u[1] = 0, ResultFacts DEF Then
<1> QED
    BY ONLY <1>3, <1>13, <1>16, <1>17 DEF parse_tpdu, Carrying

LEMMA HeaderOctets ==
    ASSUME NEW service \in {"GroupValueRead", "GroupValueResponse", "GroupValueWrite"}
    PROVE  encode_apci_header(service, TPCI_DATA_GROUP) = <<0, ApduType[service]>>
<1>1. PICK code : code = ApduType[service]
    OBVIOUS
<1>2. code \in {0, 64, 128}
    BY ONLY <1>1, GroupTypes, service \in {"GroupValueRead", "GroupValueResponse", "GroupValueWrite"}
<1>3. code \div 256 = 0 /\ code % 256 = code
    BY ONLY <1>2
<1>4. TPCI_DATA_GROUP = 0 /\ (0 \div 4) * 4 = 0
    BY DEF TPCI_DATA_GROUP
<1>5. encode_apci_header(service, TPCI_DATA_GROUP) = <<0 + code \div 256, code % 256>>
    BY ONLY <1>1, <1>4 DEF encode_apci_header
<1>6. 0 + code \div 256 = 0
    BY ONLY <1>3
<1> QED
    BY ONLY <1>1, <1>3, <1>5, <1>6

\* A read, and values of fewer than eight bits, take two octets.
LEMMA ShortUnit ==
    ASSUME NEW service \in {"GroupValueRead", "GroupValueResponse", "GroupValueWrite"},
           NEW v \in Nat, v <= 63, NEW u, u = <<0, ApduType[service] + v>>, NEW ga, ga # 0
    PROVE  /\ Long(u, 2)
           /\ Carrying(u, 1, ga, service, <<v>>)
<1>1. PICK second : second = ApduType[service] + v
    OBVIOUS
<1>2. second \in Octet /\ 0 \in Octet
  <2>1. second \in Int /\ 0 <= second /\ second <= 255
      BY ONLY <1>1, GroupTypes, service \in {"GroupValueRead", "GroupValueResponse", "GroupValueWrite"},
         v \in Nat, v <= 63
  <2> QED
      BY ONLY <2>1, OctetFacts
<1>3. Long(u, 2) /\ u[1] = 0 /\ u[2] = second
    BY ONLY <1>1, <1>2, u = <<0, ApduType[service] + v>>, Pair
<1>4. 1 \in Nat /\ Long(u, 1 + 1) /\ 1 <= 1 /\ ~ (1 > 1)
    BY ONLY <1>3
<1>5. Carrying(u, 1, ga, service, <<v>>)
  <2>1. PICK data : data = <<v>>
      OBVIOUS
  <2>2. PICK m \in Nat : m = 1
      OBVIOUS
  <2>3. Long(u, m + 1) /\ 1 <= m /\ m <= 1 /\ u[2] = ApduType[service] + v
      BY ONLY <1>1, <1>3, <1>4, <2>2
  <2>4. Carrying(u, m, ga, service, data)
      BY ONLY <1>3, <2>1, <2>3, m \in Nat, UnitRead, v \in Nat, v <= 63, ga # 0,
         service \in {"GroupValueRead", "GroupValueResponse", "GroupValueWrite"}
  <2> QED
      BY ONLY <2>1, <2>2, <2>4
<1> QED
    BY ONLY <1>3, <1>4, <1>5

\* Other values follow the two octets.
LEMMA LongUnit ==
    ASSUME NEW service \in {"GroupValueRead", "GroupValueResponse", "GroupValueWrite"},
           NEW data \in Seq(Octet), data # <<>>, NEW n \in Nat, n = Len(data),
           NEW front, front = <<0, ApduType[service]>>, NEW u, Joined(u, front, data),
           NEW ga, ga # 0
    PROVE  /\ 1 <= n /\ Long(u, n + 2)
           /\ Carrying(u, n + 1, ga, service, data)
<1>2. ApduType[service] \in Octet /\ 0 \in Octet
  <2>1. ApduType[service] \in Int /\ 0 <= ApduType[service] /\ ApduType[service] <= 255
      BY ONLY GroupTypes, service \in {"GroupValueRead", "GroupValueResponse", "GroupValueWrite"}
  <2> QED
      BY ONLY <2>1, OctetFacts
<1>3. Long(front, 2) /\ front[1] = 0 /\ front[2] = ApduType[service]
    BY ONLY front = <<0, ApduType[service]>>, <1>2, Pair
<1>4. Long(data, n) /\ 1 <= n
    BY ONLY data \in Seq(Octet), data # <<>>, n = Len(data) DEF Long
<1>6. /\ Long(u, 2 + n) /\ (\A i \in 1 .. 2 : u[i] = front[i])
      /\ (\A i \in 1 .. n : u[2 + i] = data[i])
    BY ONLY <1>3, <1>4, Joined(u, front, data), 2 \in Nat, n \in Nat, Join
<1>7. u[1] = 0 /\ u[2] = ApduType[service] + 0
    BY ONLY <1>2, <1>3, <1>6, OctetFacts
<1>8. 2 + n = n + 2 /\ 2 + n = (n + 1) + 1 /\ n + 1 \in Nat /\ 1 <= n + 1 /\ n + 1 > 1
      /\ 0 \in Nat /\ 0 <= 63
    BY ONLY <1>4, n \in Nat
<1>9. Long(u, n + 2) /\ Long(u, (n + 1) + 1)
    BY ONLY <1>6, <1>8
<1>10. Carrying(u, n + 1, ga, service, from(u, 3))
  <2>1. PICK rest : rest = from(u, 3)
      OBVIOUS
  <2>2. PICK m \in Nat : m = n + 1
      BY ONLY <1>8
  <2>3. PICK v \in Nat : v = 0
      OBVIOUS
  <2>4. /\ Long(u, m + 1) /\ 1 <= m /\ m > 1 /\ v <= 63
        /\ u[1] = 0 /\ u[2] = ApduType[service] + v
      BY ONLY <1>7, <1>8, <1>9, <2>2, <2>3
  <2>5. Carrying(u, m, ga, service, rest)
      BY ONLY <2>1, <2>4, m \in Nat, v \in Nat, UnitRead, ga # 0,
         service \in {"GroupValueRead", "GroupValueResponse", "GroupValueWrite"}
  <2> QED
      BY ONLY <2>1, <2>2, <2>5
<1>11. from(u, 3) = data
  <2>1. PICK part : part = from(u, 3)
      OBVIOUS
  <2>2. u \in Seq(Octet) /\ Len(u) = n + 2 /\ 3 \in Nat \ {0} /\ 3 <= Len(u) + 1
        /\ Len(u) - 3 + 1 = n
      BY ONLY <1>4, <1>9, n \in Nat DEF Long
  <2>3. /\ part \in Seq(Octet) /\ Len(part) = n
        /\ \A i \in 1 .. n : part[i] = u[3 + i - 1]
      BY ONLY <2>1, <2>2, From
  <2>4. \A i \in 1 .. n : 3 + i - 1 = 2 + i
      BY ONLY n \in Nat
  <2>5. Long(part, n) /\ \A i \in 1 .. n : part[i] = data[i]
      BY ONLY <1>6, <2>3, <2>4, n \in Nat DEF Long
  <2> QED
      BY ONLY <1>4, <2>1, <2>5, EqualOctets, n \in Nat
<1> QED
    BY ONLY <1>4, <1>8, <1>9, <1>10, <1>11

LEMMA DataFields ==
    ASSUME NEW type, NEW service, NEW data
    PROVE  /\ Ok(Data(type, 0, Apdu(service, data))).ok.tpdu_type = type
           /\ Ok(Data(type, 0, Apdu(service, data))).ok.apdu.apdu_type = service
           /\ Ok(Data(type, 0, Apdu(service, data))).ok.apdu.data = data
           /\ IsOk(Ok(Data(type, 0, Apdu(service, data))))
BY DEF Ok, Data, Apdu, IsOk

LEMMA PayloadForms ==
    ASSUME NEW dpt, NEW data, IsOk(from_dpt_encoded(dpt, data)),
           NEW value, value = from_dpt_encoded(dpt, data).ok
    PROVE  (Len(data) = 1 /\ value = Inline(data[1])) \/ value = Bytes(data)
<1>1. PICK result : result = from_dpt_encoded(dpt, data)
    OBVIOUS
<1>2. PICK size : size = wire_size(dpt)
    OBVIOUS
<1>3. PICK high : high = 2 ^ size[2] - 1
    OBVIOUS
<1>4. /\ dpt.main = 31 => result = Err("UnsupportedGroupValueSize")
      /\ dpt.main # 31 => result =
           CASE size[1] = "Bits" ->
                  IF Len(data) # 1 THEN Err("PayloadLengthMismatch")
                  ELSE IF data[1] > high THEN Err("InlineValueOutOfRange")
                  ELSE Ok(Inline(data[1]))
             [] size[1] = "Bytes" ->
                  IF Len(data) # size[2] THEN Err("PayloadLengthMismatch") ELSE Ok(Bytes(data))
             [] size[1] = "VariableBytes" -> Ok(Bytes(data))
             [] OTHER -> Err("UnsupportedGroupValueSize")
    BY ONLY <1>1, <1>2, <1>3, Zenon DEF from_dpt_encoded
<1>5. \/ \E reason : result = Err(reason)
      \/ Len(data) = 1 /\ result = Ok(Inline(data[1]))
      \/ result = Ok(Bytes(data))
  <2>0. CASE dpt.main = 31
      BY ONLY <1>4, <2>0
  <2>1. CASE dpt.main # 31 /\ size[1] = "Bits"
    <3>1. result = IF Len(data) # 1 THEN Err("PayloadLengthMismatch")
                   ELSE IF data[1] > high THEN Err("InlineValueOutOfRange")
                   ELSE Ok(Inline(data[1]))
        BY ONLY <1>4, <2>1
    <3> QED
        BY ONLY <3>1, Zenon
  <2>2. CASE dpt.main # 31 /\ size[1] = "Bytes"
    <3>1. result = IF Len(data) # size[2] THEN Err("PayloadLengthMismatch") ELSE Ok(Bytes(data))
        BY ONLY <1>4, <2>2
    <3> QED
        BY ONLY <3>1, Zenon
  <2>3. CASE dpt.main # 31 /\ size[1] # "Bits" /\ size[1] # "Bytes"
    <3>1. result = IF size[1] = "VariableBytes" THEN Ok(Bytes(data))
                   ELSE Err("UnsupportedGroupValueSize")
        BY ONLY <1>4, <2>3
    <3> QED
        BY ONLY <3>1, Zenon
  <2> QED
      BY ONLY <2>0, <2>1, <2>2, <2>3
<1> QED
    BY ONLY <1>1, <1>5, IsOk(from_dpt_encoded(dpt, data)), value = from_dpt_encoded(dpt, data).ok,
       ResultFacts

LEMMA ReadUnit ==
    ASSUME NEW u, u = <<0, ApduType["GroupValueRead"] + 0>>, NEW ga, ga # 0
    PROVE  Long(u, 2) /\ Carrying(u, 1, ga, "GroupValueRead", <<0>>)
<1>1. PICK v \in Nat : v = 0 /\ v <= 63
    OBVIOUS
<1>2. u = <<0, ApduType["GroupValueRead"] + v>>
    BY ONLY <1>1, u = <<0, ApduType["GroupValueRead"] + 0>>
<1> QED
    BY ONLY <1>1, <1>2, ga # 0, ShortUnit

\* The unit of a value has its data, whichever form it has.
LEMMA ValueUnit ==
    ASSUME NEW service \in {"GroupValueResponse", "GroupValueWrite"},
           NEW data \in Seq(Octet), Len(data) <= 54, NEW value,
           (Len(data) = 1 /\ value = Inline(data[1])) \/ value = Bytes(data),
           IsOk(group_value_to_bytes(service, value, TPCI_DATA_GROUP)),
           NEW u, u = group_value_to_bytes(service, value, TPCI_DATA_GROUP).ok, NEW ga, ga # 0
    PROVE  \E m \in Nat : 1 <= m /\ m <= 55 /\ Long(u, m + 1) /\ Carrying(u, m, ga, service, data)
<1>0. service \in {"GroupValueRead", "GroupValueResponse", "GroupValueWrite"}
      /\ service # "GroupValueRead"
    OBVIOUS
<1>1. PICK result : result = group_value_to_bytes(service, value, TPCI_DATA_GROUP)
    OBVIOUS
<1>2. PICK front : front = encode_apci_header(service, TPCI_DATA_GROUP)
    OBVIOUS
<1>3. front = <<0, ApduType[service]>> /\ front[1] = 0 /\ front[2] = ApduType[service]
    BY ONLY <1>0, <1>2, HeaderOctets
<1>4. CASE Len(data) = 1 /\ value = Inline(data[1])
  <2>1. data[1] \in Octet /\ data = <<data[1]>>
      BY ONLY <1>4, data \in Seq(Octet)
  <2>2. PICK v : v = data[1]
      OBVIOUS
  <2>3. v \in Int /\ 0 <= v /\ data = <<v>>
      BY ONLY <2>1, <2>2, OctetFacts
  <2>4. value.form = "Inline" /\ value.data[1] = v
      BY ONLY <1>4, <2>2 DEF Inline
  <2>5. result = IF v > APCI_SHORT_DATA_MASK THEN Err("InlineValueOutOfRange")
                 ELSE Ok(<<front[1], front[2] + v>>)
      BY ONLY <1>0, <1>1, <1>2, <2>4, Zenon DEF group_value_to_bytes
  <2>6. ~ (v > APCI_SHORT_DATA_MASK) /\ result = Ok(<<front[1], front[2] + v>>)
      BY ONLY <1>1, <2>5, IsOk(group_value_to_bytes(service, value, TPCI_DATA_GROUP)), ResultFacts
  <2>7. v \in Nat /\ v <= 63
      BY ONLY <2>3, <2>6 DEF APCI_SHORT_DATA_MASK
  <2>8. u = <<0, ApduType[service] + v>>
      BY ONLY <1>1, <1>3, <2>6, ResultFacts,
         u = group_value_to_bytes(service, value, TPCI_DATA_GROUP).ok
  <2>9. Long(u, 2) /\ Carrying(u, 1, ga, service, data)
      BY ONLY <1>0, <2>3, <2>7, <2>8, ga # 0, ShortUnit
  <2>10. PICK m \in Nat : m = 1 /\ 1 <= m /\ m <= 55 /\ m + 1 = 2
      OBVIOUS
  <2> QED
      BY ONLY <2>9, <2>10
<1>5. CASE value = Bytes(data)
  <2>1. value.form = "Bytes" /\ value.data = data
      BY ONLY <1>5 DEF Bytes
  <2>2. result = IF data = <<>> THEN Err("EmptyBytePayload") ELSE Ok(front \o data)
      BY ONLY <1>0, <1>1, <1>2, <2>1, Zenon DEF group_value_to_bytes
  <2>3. data # <<>> /\ result = Ok(front \o data)
      BY ONLY <1>1, <2>2, IsOk(group_value_to_bytes(service, value, TPCI_DATA_GROUP)), ResultFacts
  <2>4. Joined(u, front, data)
    <3>1. u = front \o data
        BY ONLY <1>1, <2>3, ResultFacts,
           u = group_value_to_bytes(service, value, TPCI_DATA_GROUP).ok
    <3> QED
        BY ONLY <3>1 DEF Joined
  <2>5. PICK n \in Nat : n = Len(data)
      BY ONLY data \in Seq(Octet)
  <2>6. 1 <= n /\ Long(u, n + 2) /\ Carrying(u, n + 1, ga, service, data)
      BY ONLY <1>0, <1>3, <2>3, <2>4, <2>5, data \in Seq(Octet), ga # 0, LongUnit
  <2>7. PICK m \in Nat : m = n + 1 /\ 1 <= m /\ m <= 55 /\ m + 1 = n + 2
      BY ONLY <2>5, Len(data) <= 54
  <2> QED
      BY ONLY <2>6, <2>7
<1> QED
    BY ONLY <1>4, <1>5, (Len(data) = 1 /\ value = Inline(data[1])) \/ value = Bytes(data)

LEMMA CarryingReads ==
    ASSUME NEW t, NEW u, NEW m, NEW data, Carrying(u, m, t.ga, t.service, data),
           t.service # "GroupValueRead" => decode(t.dpt, data) = Ok(t.read)
    PROVE  ReadsTo(parse_tpdu(u, m, TRUE, t.ga), t)
<1>1. PICK unit : unit = Ok(Data("DataGroup", 0, Apdu(t.service, data)))
    OBVIOUS
<1>2. parse_tpdu(u, m, TRUE, t.ga) = unit
    BY <1>1 DEF Carrying
<1>3. IsOk(unit) /\ unit.ok.tpdu_type = "DataGroup" /\ unit.ok.apdu.apdu_type = t.service
      /\ unit.ok.apdu.data = data
    BY ONLY <1>1, DataFields
<1> QED
    BY <1>2, <1>3 DEF ReadsTo

LEMMA ReadIsTelling ==
    ASSUME NEW t \in Telegram, t.service = "GroupValueRead"
    PROVE  \E u, m : Telling(u, m, t) /\ built(t) = build_cemi_group_frame(t.ga, u)
<1>1. t.ga # 0
    BY ONLY t \in Telegram, TelegramFacts
<1>2. PICK u : u = <<0, ApduType["GroupValueRead"] + 0>>
    OBVIOUS
<1>3. PICK service : service = t.service
    OBVIOUS
<1>4. Long(u, 2) /\ Carrying(u, 1, t.ga, t.service, <<0>>)
    BY ONLY <1>1, <1>2, t.service = "GroupValueRead", ReadUnit
<1>5. PICK m \in Nat : m = 1 /\ m + 1 = 2
    OBVIOUS
<1>6. Telling(u, m, t)
  <2>1. ReadsTo(parse_tpdu(u, m, TRUE, t.ga), t)
      BY ONLY <1>4, <1>5, t.service = "GroupValueRead", CarryingReads
  <2>2. 1 <= m /\ m <= 55 /\ Long(u, m + 1)
      BY ONLY <1>4, <1>5
  <2> QED
      BY ONLY <2>1, <2>2, m \in Nat, Zenon DEF Telling
<1>7. u = <<0, 0>>
    BY ONLY <1>2, GroupServices
<1>8. group_value_to_bytes("GroupValueRead", Inline(0), TPCI_DATA_GROUP) = Ok(u)
  <2>1. encode_apci_header("GroupValueRead", TPCI_DATA_GROUP) = <<0, ApduType["GroupValueRead"]>>
      BY ONLY HeaderOctets
  <2>2. encode_apci_header("GroupValueRead", TPCI_DATA_GROUP) = u
      BY ONLY <1>7, <2>1, GroupServices
  <2>3. group_value_to_bytes(service, Inline(0), TPCI_DATA_GROUP)
          = Ok(encode_apci_header(service, TPCI_DATA_GROUP))
      BY ONLY <1>3, t.service = "GroupValueRead" DEF group_value_to_bytes
  <2> QED
      BY ONLY <1>3, <2>2, <2>3, t.service = "GroupValueRead"
<1>9. build_group_read(t.ga) = build_cemi_group_frame(t.ga, u)
    BY ONLY <1>8, ResultFacts DEF build_group_read, build_group_value_frame, Then
<1>10. built(t) = build_group_read(t.ga)
    BY ONLY t.service = "GroupValueRead" DEF built
<1> QED
    BY ONLY <1>6, <1>9, <1>10

LEMMA ValueIsTelling ==
    ASSUME NEW t \in Telegram, t.service # "GroupValueRead", IsOk(built(t))
    PROVE  \E u, m : Telling(u, m, t) /\ built(t) = build_cemi_group_frame(t.ga, u)
<1>1. t.ga # 0 /\ t.service \in {"GroupValueResponse", "GroupValueWrite"}
    BY ONLY t \in Telegram, TelegramFacts, t.service # "GroupValueRead"
<1>2. PICK encoded : encoded = encode(t.dpt, t.value)
    OBVIOUS
<1>3. PICK formed : formed = from_dpt_encoded(t.dpt, encoded.ok)
    OBVIOUS
<1>4. PICK unit : unit = group_value_to_bytes(t.service, formed.ok, TPCI_DATA_GROUP)
    OBVIOUS
<1>5. built(t) = build_dpt_group_frame(t.ga, t.service, t.dpt, t.value)
    BY ONLY t.service # "GroupValueRead" DEF built
<1>6. built(t) = IF IsOk(encoded)
                 THEN IF IsOk(formed)
                      THEN IF IsOk(unit) THEN build_cemi_group_frame(t.ga, unit.ok) ELSE unit
                      ELSE formed
                 ELSE encoded
    BY ONLY <1>2, <1>3, <1>4, <1>5, Zenon DEF build_dpt_group_frame, build_group_value_frame, Then
<1>7. IsOk(encoded) /\ IsOk(formed) /\ IsOk(unit)
      /\ built(t) = build_cemi_group_frame(t.ga, unit.ok)
    BY ONLY <1>6, IsOk(built(t)), Zenon
<1>8. PICK data : data = encoded.ok
    OBVIOUS
<1>9. data \in Seq(Octet) /\ Len(data) <= 54 /\ decode(t.dpt, data) = Ok(t.read)
    BY ONLY <1>2, <1>7, <1>8, t \in Telegram, t.service # "GroupValueRead", TelegramFacts
<1>10. PICK value : value = formed.ok
    OBVIOUS
<1>11. (Len(data) = 1 /\ value = Inline(data[1])) \/ value = Bytes(data)
    BY ONLY <1>3, <1>7, <1>8, <1>10, PayloadForms
<1>12. PICK u : u = unit.ok
    OBVIOUS
<1>13. PICK m \in Nat : /\ 1 <= m /\ m <= 55 /\ Long(u, m + 1)
                        /\ Carrying(u, m, t.ga, t.service, data)
    BY ONLY <1>1, <1>4, <1>7, <1>9, <1>10, <1>11, <1>12, ValueUnit
<1>14. ReadsTo(parse_tpdu(u, m, TRUE, t.ga), t)
    BY ONLY <1>9, <1>13, CarryingReads
<1>15. Telling(u, m, t)
    BY ONLY <1>13, <1>14 DEF Telling
<1> QED
    BY ONLY <1>7, <1>12, <1>15

LEMMA TelegramUnit ==
    ASSUME NEW t \in Telegram, IsOk(built(t))
    PROVE  \E u, m : Telling(u, m, t) /\ built(t) = build_cemi_group_frame(t.ga, u)
BY ReadIsTelling, ValueIsTelling

-----------------------------------------------------------------------------
(* The cEMI frame of a telegram, and the frame of the line made of it.      *)
IsCemi(c, ga, u, m) ==
    /\ Long(c, m + 10) /\ c[1] = 17 /\ c[2] = 0 /\ c[3] = 188 /\ c[4] = 224
    /\ c[5] = 0 /\ c[6] = 0 /\ c[7] = ga \div 256 /\ c[8] = ga % 256 /\ c[9] = m
    /\ \A i \in 1 .. m + 1 : c[9 + i] = u[i]

\* Its octets before the control fields are set.
Plain(ga, u, m) ==
    <<17, 0, 176, 96>> \o be(0, 2) \o be(ga, 2) \o <<m>> \o u

LEMMA One ==
    ASSUME NEW x \in Octet, NEW octets, octets = <<x>>
    PROVE  Long(octets, 1) /\ octets[1] = x
BY DEF Long

\* Some octets, an address of zero and a group address, an octet, and a unit.
Headed(o, a, k, ga, e, u, m) ==
    /\ Long(o, k + m + 6) /\ (\A i \in 1 .. k : o[i] = a[i])
    /\ o[k + 1] = 0 /\ o[k + 2] = 0 /\ o[k + 3] = ga \div 256 /\ o[k + 4] = ga % 256
    /\ o[k + 5] = e /\ \A i \in 1 .. m + 1 : o[k + 5 + i] = u[i]

Header(a, ga, e) == a \o be(0, 2) \o be(ga, 2) \o <<e>>

LEMMA HeaderIsHeaded ==
    ASSUME NEW k \in Nat, NEW a, Long(a, k), NEW ga \in Word, NEW e \in Octet,
           NEW m \in Nat, NEW u, Long(u, m + 1), NEW o, Joined(o, Header(a, ga, e), u)
    PROVE  Headed(o, a, k, ga, e, u, m)
<1>2. PICK b : b = be(0, 2)
    OBVIOUS
<1>3. PICK d : d = be(ga, 2)
    OBVIOUS
<1>4. PICK last : last = <<e>>
    OBVIOUS
<1>5. PICK ab, abd, abde : ab = a \o b /\ abd = ab \o d /\ abde = abd \o last
    OBVIOUS
<1>6. Joined(ab, a, b) /\ Joined(abd, ab, d) /\ Joined(abde, abd, last) /\ Joined(o, abde, u)
    BY <1>2, <1>3, <1>4, <1>5 DEF Joined, Header
<1>8. Long(b, 2) /\ b[1] = 0 /\ b[2] = 0
  <2>1. PICK zero \in Word : zero = 0
      BY WordFacts
  <2>2. Long(b, 2) /\ b[1] = zero \div 256 /\ b[2] = zero % 256
      BY ONLY <1>2, <2>1, zero \in Word, BigEndian
  <2> QED
      BY ONLY <2>1, <2>2
<1>9. Long(d, 2) /\ d[1] = ga \div 256 /\ d[2] = ga % 256
    BY ONLY <1>3, ga \in Word, BigEndian
<1>10. Long(last, 1) /\ last[1] = e
    BY ONLY <1>4, e \in Octet, One
<1>a. PICK n2 \in Nat, n4 \in Nat, n5 \in Nat : n2 = k + 2 /\ n4 = k + 4 /\ n5 = k + 5
    BY ONLY k \in Nat
<1>11. /\ Long(ab, k + 2) /\ (\A i \in 1 .. k : ab[i] = a[i]) /\ \A i \in 1 .. 2 : ab[k + i] = b[i]
    BY ONLY <1>6, <1>8, Long(a, k), k \in Nat, 2 \in Nat, Join
<1>12. Long(ab, n2)
    BY ONLY <1>11, <1>a
<1>13. /\ Long(abd, n2 + 2) /\ (\A i \in 1 .. n2 : abd[i] = ab[i])
       /\ \A i \in 1 .. 2 : abd[n2 + i] = d[i]
    BY ONLY <1>6, <1>9, <1>12, n2 \in Nat, 2 \in Nat, Join
<1>14. Long(abd, n4)
  <2>1. n2 + 2 = n4
      BY ONLY <1>a, k \in Nat
  <2> QED
      BY ONLY <1>13, <2>1
<1>15. /\ Long(abde, n4 + 1) /\ (\A i \in 1 .. n4 : abde[i] = abd[i])
       /\ \A i \in 1 .. 1 : abde[n4 + i] = last[i]
    BY ONLY <1>6, <1>10, <1>14, n4 \in Nat, 1 \in Nat, Join
<1>16. Long(abde, n5)
  <2>1. n4 + 1 = n5
      BY ONLY <1>a, k \in Nat
  <2> QED
      BY ONLY <1>15, <2>1
<1>17. /\ Long(o, n5 + (m + 1)) /\ (\A i \in 1 .. n5 : o[i] = abde[i])
       /\ \A i \in 1 .. m + 1 : o[n5 + i] = u[i]
  <2>1. m + 1 \in Nat
      BY ONLY m \in Nat
  <2> QED
      BY ONLY <1>6, <1>16, <2>1, Long(u, m + 1), n5 \in Nat, Join
<1>18. n5 + (m + 1) = k + m + 6
    BY ONLY <1>a, m \in Nat, k \in Nat
<1>19. \A i \in 1 .. n4 : o[i] = abd[i]
    BY ONLY <1>15, <1>17, <1>a, k \in Nat
<1>20. \A i \in 1 .. n2 : o[i] = ab[i]
    BY ONLY <1>13, <1>19, <1>a, k \in Nat
<1>21. \A i \in 1 .. k : o[i] = a[i]
    BY ONLY <1>11, <1>20, <1>a, k \in Nat
<1>22. o[k + 1] = 0 /\ o[k + 2] = 0
  <2>1. k + 1 \in 1 .. n2 /\ k + 2 \in 1 .. n2 /\ ab[k + 1] = b[1] /\ ab[k + 2] = b[2]
      BY ONLY <1>11, <1>a, k \in Nat
  <2> QED
      BY ONLY <1>8, <1>20, <2>1
<1>23. o[k + 3] = ga \div 256 /\ o[k + 4] = ga % 256
  <2>1. k + 3 \in 1 .. n4 /\ k + 4 \in 1 .. n4 /\ k + 3 = n2 + 1 /\ k + 4 = n2 + 2
      BY ONLY <1>a, k \in Nat
  <2>2. abd[n2 + 1] = d[1] /\ abd[n2 + 2] = d[2]
      BY ONLY <1>13
  <2> QED
      BY ONLY <1>9, <1>19, <2>1, <2>2
<1>24. o[k + 5] = e
  <2>1. k + 5 \in 1 .. n5 /\ k + 5 = n4 + 1
      BY ONLY <1>a, k \in Nat
  <2>2. abde[n4 + 1] = last[1]
      BY ONLY <1>15
  <2> QED
      BY ONLY <1>10, <1>17, <2>1, <2>2
<1>25. \A i \in 1 .. m + 1 : o[k + 5 + i] = u[i]
    BY ONLY <1>17, <1>a
<1> QED
    BY ONLY <1>17, <1>18, <1>21, <1>22, <1>23, <1>24, <1>25 DEF Headed

LEMMA PlainOctets ==
    ASSUME NEW ga \in Word, NEW m \in Nat, m <= 55, NEW u, Long(u, m + 1),
           NEW c, c = Plain(ga, u, m)
    PROVE  /\ Long(c, m + 10) /\ c[1] = 17 /\ c[2] = 0 /\ c[3] = 176 /\ c[4] = 96
           /\ c[5] = 0 /\ c[6] = 0 /\ c[7] = ga \div 256 /\ c[8] = ga % 256 /\ c[9] = m
           /\ \A i \in 1 .. m + 1 : c[9 + i] = u[i]
<1>1. PICK a : a = <<17, 0, 176, 96>>
    OBVIOUS
<1>2. PICK k \in Nat : k = 4
    OBVIOUS
<1>3. Long(a, 4) /\ a[1] = 17 /\ a[2] = 0 /\ a[3] = 176 /\ a[4] = 96
  <2>1. 17 \in Octet /\ 0 \in Octet /\ 176 \in Octet /\ 96 \in Octet
      BY ONLY OctetFacts
  <2>2. Long(<<17, 0, 176, 96>>, 4)
      BY ONLY <2>1, Four
  <2> QED
      BY ONLY <1>1, <2>2
<1>4. m \in Octet
    BY ONLY m \in Nat, m <= 55, OctetFacts
<1>5. Joined(c, Header(a, ga, m), u)
    BY <1>1 DEF Joined, Header, Plain
<1>6. Headed(c, a, k, ga, m, u, m)
    BY ONLY <1>2, <1>3, <1>4, <1>5, k \in Nat, m \in Nat, ga \in Word, Long(u, m + 1),
       HeaderIsHeaded
<1>7. /\ Long(c, 4 + m + 6) /\ (\A i \in 1 .. 4 : c[i] = a[i])
      /\ c[4 + 1] = 0 /\ c[4 + 2] = 0 /\ c[4 + 3] = ga \div 256 /\ c[4 + 4] = ga % 256
      /\ c[4 + 5] = m /\ \A i \in 1 .. m + 1 : c[4 + 5 + i] = u[i]
    BY ONLY <1>2, <1>6 DEF Headed
<1>8. 4 + m + 6 = m + 10
    BY ONLY m \in Nat
<1> QED
    BY ONLY <1>3, <1>7, <1>8

LEMMA LowIsThree ==
    /\ ControlField["priority"][1] = 0 /\ ControlField["priority"][2] = 4
    /\ Len(ControlValues["priority"]) = 4
    /\ (CHOOSE i \in DOMAIN ControlValues["priority"] : ControlValues["priority"][i] = "Low") - 1 = 3
    /\ ControlField["address_type"][1] = 1 /\ ControlField["address_type"][2] = 128
    /\ Len(ControlValues["address_type"]) = 2
    /\ (CHOOSE i \in DOMAIN ControlValues["address_type"] : ControlValues["address_type"][i] = "Group")
           - 1 = 1
<1>1. ControlValues["priority"] = <<"System", "Normal", "Urgent", "Low">>
      /\ ControlValues["address_type"] = <<"Individual", "Group">>
    BY DEF ControlValues
<1>2. DOMAIN <<"System", "Normal", "Urgent", "Low">> = 1 .. 4
      /\ DOMAIN <<"Individual", "Group">> = 1 .. 2
    OBVIOUS
<1>3. \A i \in 1 .. 4 : <<"System", "Normal", "Urgent", "Low">>[i] = "Low" <=> i = 4
    OBVIOUS
<1>4. \A i \in 1 .. 2 : <<"Individual", "Group">>[i] = "Group" <=> i = 2
    OBVIOUS
<1>5. (CHOOSE i \in 1 .. 4 : <<"System", "Normal", "Urgent", "Low">>[i] = "Low") = 4
    BY ONLY <1>3
<1>6. (CHOOSE i \in 1 .. 2 : <<"Individual", "Group">>[i] = "Group") = 2
    BY ONLY <1>4
<1>7. (CHOOSE i \in DOMAIN ControlValues["priority"] : ControlValues["priority"][i] = "Low") = 4
    BY ONLY <1>1, <1>2, <1>5
<1>8. (CHOOSE i \in DOMAIN ControlValues["address_type"] : ControlValues["address_type"][i] = "Group") = 2
    BY ONLY <1>1, <1>2, <1>6
<1> QED
    BY <1>1, <1>7, <1>8 DEF ControlField

\* One octet of a string is replaced.
Rewritten(d, c, n, at, x) ==
    Long(d, n) /\ d[at] = x /\ \A i \in 1 .. n : i # at => d[i] = c[i]

LEMMA OctetSet ==
    ASSUME NEW n \in Nat, NEW c, Long(c, n), NEW at \in 1 .. n, NEW x \in Octet,
           NEW d, d = [c EXCEPT ![at] = x]
    PROVE  Rewritten(d, c, n, at, x)
<1>1. c \in [1 .. n -> Octet]
    BY DEF Long
<1>2. d \in [1 .. n -> Octet]
    BY ONLY <1>1, at \in 1 .. n, x \in Octet, d = [c EXCEPT ![at] = x]
<1>3. Long(d, n)
    BY ONLY <1>2, n \in Nat, FunctionIsLong
<1> QED
    BY ONLY <1>1, <1>3, at \in 1 .. n, d = [c EXCEPT ![at] = x] DEF Rewritten

LEMMA FieldsSet ==
    ASSUME NEW n \in Nat, n >= 10, NEW c, Long(c, n), c[2] = 0, c[3] = 176, c[4] = 96,
           NEW d, d = with_field(with_field(c, "priority", "Low"), "address_type", "Group")
    PROVE  /\ Long(d, n) /\ d[3] = 188 /\ d[4] = 224
           /\ \A i \in 1 .. n : i # 3 /\ i # 4 => d[i] = c[i]
<1>1. PICK b : b = with_field(c, "priority", "Low")
    OBVIOUS
<1>2. with_bits(c[3], 4, 4, 3) = 188 /\ with_bits(c[4], 128, 2, 1) = 224
    BY ONLY c[3] = 176, c[4] = 96 DEF with_bits, bits
<1>a. PICK three, four, x, y : three = 3 /\ four = 4 /\ x = 188 /\ y = 224
    OBVIOUS
<1>3. ctrl_offset(c) + 0 = 3
    BY ONLY c[2] = 0 DEF ctrl_offset
<1>4. b = [c EXCEPT ![3] = with_bits(c[3], 4, 4, 3)]
  <2>1. b = [c EXCEPT ![ctrl_offset(c) + 0] = with_bits(c[ctrl_offset(c) + 0], 4, 4, 3)]
      BY ONLY <1>1, LowIsThree DEF with_field
  <2> QED
      BY ONLY <1>3, <2>1
<1>5. b = [c EXCEPT ![3] = 188]
    BY ONLY <1>2, <1>4
<1>6. 3 \in 1 .. n /\ 4 \in 1 .. n /\ 2 \in 1 .. n /\ 188 \in Octet /\ 224 \in Octet
    BY ONLY n \in Nat, n >= 10, OctetFacts
<1>7. Long(b, n) /\ b[3] = 188 /\ \A i \in 1 .. n : i # 3 => b[i] = c[i]
  <2>1. three \in 1 .. n /\ x \in Octet /\ b = [c EXCEPT ![three] = x]
      BY ONLY <1>5, <1>6, <1>a
  <2>2. Rewritten(b, c, n, three, x)
      BY ONLY <2>1, n \in Nat, Long(c, n), OctetSet
  <2> QED
      BY ONLY <1>a, <2>2 DEF Rewritten
<1>8. b[2] = 0 /\ b[4] = 96
    BY ONLY <1>6, <1>7, c[2] = 0, c[4] = 96
<1>9. ctrl_offset(b) + 1 = 4
    BY ONLY <1>8 DEF ctrl_offset
<1>10. d = [b EXCEPT ![4] = with_bits(b[4], 128, 2, 1)]
  <2>1. d = with_field(b, "address_type", "Group")
      BY ONLY <1>1, d = with_field(with_field(c, "priority", "Low"), "address_type", "Group")
  <2>2. d = [b EXCEPT ![ctrl_offset(b) + 1] = with_bits(b[ctrl_offset(b) + 1], 128, 2, 1)]
      BY ONLY <2>1, LowIsThree DEF with_field
  <2> QED
      BY ONLY <1>9, <2>2
<1>11. d = [b EXCEPT ![4] = 224]
  <2>1. with_bits(b[4], 128, 2, 1) = 224
      BY ONLY <1>8 DEF with_bits, bits
  <2> QED
      BY ONLY <1>10, <2>1
<1>12. Long(d, n) /\ d[4] = 224 /\ \A i \in 1 .. n : i # 4 => d[i] = b[i]
  <2>1. four \in 1 .. n /\ y \in Octet /\ d = [b EXCEPT ![four] = y]
      BY ONLY <1>6, <1>11, <1>a
  <2>2. Rewritten(d, b, n, four, y)
      BY ONLY <1>7, <2>1, n \in Nat, OctetSet
  <2> QED
      BY ONLY <1>a, <2>2 DEF Rewritten
<1>13. d[3] = 188
    BY ONLY <1>6, <1>7, <1>12
<1> QED
    BY ONLY <1>7, <1>12, <1>13

LEMMA CemiBuilt ==
    ASSUME NEW ga \in Word, NEW m \in Nat, 1 <= m, m <= 55, NEW u, Long(u, m + 1)
    PROVE  \E c : build_cemi_group_frame(ga, u) = Ok(c) /\ IsCemi(c, ga, u, m)
<1>1. PICK bare : bare = Plain(ga, u, m)
    OBVIOUS
<1>2. PICK c : c = with_field(with_field(bare, "priority", "Low"), "address_type", "Group")
    OBVIOUS
<1>3. /\ Long(bare, m + 10) /\ bare[1] = 17 /\ bare[2] = 0 /\ bare[3] = 176 /\ bare[4] = 96
      /\ bare[5] = 0 /\ bare[6] = 0 /\ bare[7] = ga \div 256 /\ bare[8] = ga % 256 /\ bare[9] = m
      /\ \A i \in 1 .. m + 1 : bare[9 + i] = u[i]
    BY ONLY <1>1, ga \in Word, m \in Nat, m <= 55, Long(u, m + 1), PlainOctets
<1>4. PICK n \in Nat : n = m + 10 /\ n >= 10
    BY ONLY m \in Nat
<1>5. /\ Long(c, n) /\ c[3] = 188 /\ c[4] = 224
      /\ \A i \in 1 .. n : i # 3 /\ i # 4 => c[i] = bare[i]
    BY ONLY <1>2, <1>3, <1>4, n \in Nat, FieldsSet
<1>6. c[1] = bare[1] /\ c[2] = bare[2] /\ c[5] = bare[5] /\ c[6] = bare[6] /\ c[7] = bare[7]
      /\ c[8] = bare[8] /\ c[9] = bare[9]
    BY ONLY <1>4, <1>5, n \in Nat
<1>7. \A i \in 1 .. m + 1 : c[9 + i] = bare[9 + i]
  <2>1. \A i \in 1 .. m + 1 : 9 + i \in 1 .. n /\ 9 + i # 3 /\ 9 + i # 4
      BY ONLY <1>4, m \in Nat
  <2> QED
      BY ONLY <1>5, <2>1
<1>8. IsCemi(c, ga, u, m)
    BY ONLY <1>3, <1>4, <1>5, <1>6, <1>7 DEF IsCemi
<1>9. build_cemi_group_frame(ga, u) = Ok(c)
  <2>1. u \in Seq(Octet) /\ Len(u) = m + 1 /\ u # <<>>
      BY ONLY Long(u, m + 1), m \in Nat DEF Long
  <2>2. ~ (Len(u) > MAX_PAYLOAD) /\ ~ (Len(u) < 2) /\ Len(u) - 1 = m
      BY ONLY <2>1, m \in Nat, 1 <= m, m <= 55 DEF MAX_PAYLOAD
  <2>3. PICK front : front = <<17, 0, 176, 96>> \o be(0, 2) \o be(ga, 2) \o <<m>>
      OBVIOUS
  <2>4. bare = front \o u
      BY ONLY <1>1, <2>3 DEF Plain
  <2>5. MessageCode["LDataReq"] = 17
      BY ONLY TRUE DEF MessageCode
  <2>6. front \o u \o <<>> = bare
    <3>1. bare \in Seq(Octet)
        BY ONLY <1>3 DEF Long
    <3> QED
        BY ONLY <2>4, <3>1
  <2>7. try_new_l_data("LDataReq", 0, ga, TRUE, "Low", u)
          = Ok(with_field(with_field(front \o u \o <<>>, "priority", "Low"),
                          "address_type", "Group"))
      BY ONLY <2>1, <2>2, <2>3, <2>5, 6 * 16 = 96 DEF try_new_l_data
  <2> QED
      BY ONLY <1>2, <2>6, <2>7 DEF build_cemi_group_frame
<1> QED
    BY ONLY <1>8, <1>9

\* The end of a string, when it is known what that is.
LEMMA RestIs ==
    ASSUME NEW k \in Nat, NEW n \in Nat, NEW c, Long(c, n), NEW at, at = k + 1,
           NEW body \in Seq(Octet), Len(body) = k + n, \A i \in 1 .. n : body[k + i] = c[i]
    PROVE  from(body, at) = c
<1>1. PICK part : part = from(body, at)
    OBVIOUS
<1>2. at \in Nat \ {0} /\ at <= Len(body) + 1 /\ Len(body) - at + 1 = n
    OBVIOUS
<1>3. /\ part \in Seq(Octet) /\ Len(part) = Len(body) - at + 1
      /\ \A i \in 1 .. Len(body) - at + 1 : part[i] = body[at + i - 1]
    BY ONLY <1>1, <1>2, body \in Seq(Octet), From
<1>4. part \in Seq(Octet) /\ Len(part) = n /\ \A i \in 1 .. n : part[i] = body[at + i - 1]
    BY ONLY <1>2, <1>3
<1>5. Long(part, n) /\ \A i \in 1 .. n : part[i] = c[i]
  <2>1. ASSUME NEW i \in 1 .. n PROVE part[i] = c[i]
    <3>1. at + i - 1 = k + i
        BY ONLY at = k + 1, k \in Nat, n \in Nat, i \in 1 .. n
    <3>2. part[i] = body[k + i] /\ body[k + i] = c[i]
        BY ONLY <1>4, <3>1, i \in 1 .. n, \A j \in 1 .. n : body[k + j] = c[j]
    <3> QED
        BY ONLY <3>2
  <2> QED
      BY ONLY <1>4, <2>1, n \in Nat DEF Long
<1> QED
    BY ONLY <1>1, <1>5, Long(c, n), n \in Nat, EqualOctets

LEMMA CemiParsed ==
    ASSUME NEW ga \in Word, NEW m \in Nat, 1 <= m, m <= 55, NEW u, Long(u, m + 1),
           NEW c, IsCemi(c, ga, u, m)
    PROVE  /\ parse_cemi(c) = Ok(c) /\ payload(c) = u /\ npdu_length(c) = m
           /\ source_address(c) = 0 /\ destination_address(c) = ga
<1>1. c \in Seq(Octet) /\ Len(c) = m + 10
    BY ONLY IsCemi(c, ga, u, m), m \in Nat DEF IsCemi, Long
<1>2. c[1] = 17 /\ c[2] = 0 /\ c[5] = 0 /\ c[6] = 0 /\ c[7] = ga \div 256 /\ c[8] = ga % 256 /\ c[9] = m
    BY ONLY IsCemi(c, ga, u, m) DEF IsCemi
<1>3. ctrl_offset(c) = 3
    BY ONLY <1>2 DEF ctrl_offset
<1>4. ctrl_offset(c) + 6 = 9 /\ ctrl_offset(c) + 2 = 5 /\ ctrl_offset(c) + 4 = 7
      /\ ctrl_offset(c) + 7 = 10
    BY ONLY <1>3
<1>5. npdu_length(c) = m
    BY ONLY <1>2, <1>4 DEF npdu_length
<1>6. source_address(c) = 0 /\ destination_address(c) = ga
  <2>1. u16(c, 5) = c[5] * 256 + c[6] /\ u16(c, 7) = c[7] * 256 + c[8]
      BY ONLY 5 + 1 = 6, 7 + 1 = 8 DEF u16
  <2>2. (ga \div 256) * 256 + (ga % 256) = ga
      BY ONLY ga \in Word, WordFacts
  <2> QED
      BY ONLY <1>2, <1>4, <2>1, <2>2 DEF source_address, destination_address
<1>7. payload(c) = u
  <2>1. PICK k \in Nat : k = 9 /\ k + 1 = 10
      OBVIOUS
  <2>2. PICK n \in Nat : n = m + 1
      BY ONLY m \in Nat
  <2>3. Len(c) = k + n
      BY ONLY <1>1, <2>1, <2>2, m \in Nat
  <2>4. \A i \in 1 .. n : c[k + i] = u[i]
      BY ONLY <2>1, <2>2, IsCemi(c, ga, u, m) DEF IsCemi
  <2>5. PICK at : at = k + 1
      OBVIOUS
  <2>6. Long(u, n)
      BY ONLY <2>2, Long(u, m + 1)
  <2>7. from(c, at) = u
      BY ONLY <1>1, <2>3, <2>4, <2>5, <2>6, k \in Nat, n \in Nat, RestIs
  <2> QED
      BY ONLY <1>4, <2>1, <2>5, <2>7 DEF payload
<1>8. parse_cemi(c) = Ok(c)
  <2>1. MessageCode["LDataReq"] = 17 /\ "LDataReq" \in DOMAIN MessageCode
      BY ONLY TRUE DEF MessageCode
  <2>2. message_codes(c[1]) # {}
      BY ONLY <1>2, <2>1 DEF message_codes
  <2>3. ~ (Len(c) < 2) /\ ~ (Len(c) < ctrl_offset(c) + 6)
      BY ONLY <1>1, <1>4, m \in Nat
  <2>4. ~ (m + 1 < 2) /\ 9 + (m + 1) = Len(c)
      BY ONLY <1>1, m \in Nat, 1 <= m
  <2>5. parse_cemi(c) = IF Len(c) < ctrl_offset(c) + 6 THEN Err("TooShort")
          ELSE LET unit == npdu_length(c) + 1
               IN  IF Len(c) # ctrl_offset(c) + 6 + (IF unit < 2 THEN 2 ELSE unit)
                   THEN Err("LengthMismatch") ELSE Ok(c)
      BY ONLY <2>2, <2>3 DEF parse_cemi
  <2> QED
      BY ONLY <1>4, <1>5, <2>3, <2>4, <2>5
<1> QED
    BY ONLY <1>5, <1>6, <1>7, <1>8

LEMMA OnIp ==
    ASSUME NEW n \in Nat, n <= 70, NEW c, Long(c, n), parse_cemi(c) = Ok(c),
           link.spec[1] = "Router" \/ link.channel_id \in Octet, Len(written) \in Nat,
           NEW octets, octets = frame_to_bytes(carried(c)).ok
    PROVE  cemi_of(octets) = Ok(c)
<1>1. {"RoutingIndication", "TunnelingRequest"} \subseteq DOMAIN ServiceType
    BY DEF ServiceType
<1>2. CASE link.spec[1] = "Router"
  <2>1. carried(c) = Frame("RoutingIndication", c)
      BY ONLY <1>2 DEF carried, routing_indication
  <2>2. n + 6 \in Word
      BY ONLY n \in Nat, n <= 70, WordFacts
  <2>3. IsFrame(octets, "RoutingIndication", c)
      BY ONLY <1>1, <2>1, <2>2, n \in Nat, Long(c, n), octets = frame_to_bytes(carried(c)).ok,
         FrameReadBack
  <2>4. PICK frame : frame = Frame("RoutingIndication", c)
      OBVIOUS
  <2>5. parse_frame(octets) = Ok(frame) /\ frame.service_type = "RoutingIndication" /\ frame.body = c
      BY ONLY <2>3, <2>4, FrameFields DEF IsFrame
  <2>6. IsOk(parse_frame(octets)) /\ parse_frame(octets).ok = frame
      BY ONLY <2>5, ResultFacts
  <2> QED
      BY ONLY <2>5, <2>6, parse_cemi(c) = Ok(c) DEF cemi_of, Then
<1>3. CASE link.spec[1] # "Router"
  <2>1. PICK counter : counter = Len(written) % 256
      OBVIOUS
  <2>2. counter \in Octet /\ 4 \in Octet /\ 0 \in Octet /\ link.channel_id \in Octet
      BY ONLY <1>3, <2>1, Len(written) \in Nat, OctetFacts,
         link.spec[1] = "Router" \/ link.channel_id \in Octet
  <2>3. PICK header : header = <<4, link.channel_id, counter, 0>>
      OBVIOUS
  <2>4. Long(header, 4)
      BY ONLY <2>2, <2>3, Four
  <2>5. PICK body : body = header \o c
      OBVIOUS
  <2>6. Joined(body, header, c)
      BY ONLY <2>5 DEF Joined
  <2>7. carried(c) = Frame("TunnelingRequest", body)
    <3>1. header_to_bytes(ConnectionHeader(link.channel_id, counter, E_NO_ERROR)) = header
        BY ONLY <2>3 DEF header_to_bytes, ConnectionHeader, E_NO_ERROR, CONNECTION_HEADER_LEN
    <3>2. carried(c) = tunneling_request(link.channel_id, counter, c)
        BY ONLY <1>3, <2>1 DEF carried
    <3> QED
        BY ONLY <2>5, <3>1, <3>2 DEF tunneling_request
  <2>8. /\ Long(body, 4 + n) /\ \A i \in 1 .. n : body[4 + i] = c[i]
      BY ONLY <2>4, <2>6, 4 \in Nat, n \in Nat, Long(c, n), Join
  <2>9. PICK k \in Nat : k = 4 + n /\ k + 6 \in Word
    <3>1. 4 + n \in Nat /\ (4 + n) + 6 \in Word
        BY ONLY n \in Nat, n <= 70, WordFacts
    <3> QED
        BY ONLY <3>1
  <2>10. IsFrame(octets, "TunnelingRequest", body)
      BY ONLY <1>1, <2>7, <2>8, <2>9, k \in Nat, octets = frame_to_bytes(carried(c)).ok,
         FrameReadBack
  <2>11. PICK frame : frame = Frame("TunnelingRequest", body)
      OBVIOUS
  <2>12. parse_frame(octets) = Ok(frame) /\ frame.service_type = "TunnelingRequest"
         /\ frame.body = body
      BY ONLY <2>10, <2>11, FrameFields DEF IsFrame
  <2>13. IsOk(parse_frame(octets)) /\ parse_frame(octets).ok = frame
      BY ONLY <2>12, ResultFacts
  <2>14. body \in Seq(Octet) /\ Len(body) = 4 + n
      BY ONLY <2>8, n \in Nat DEF Long
  <2>15. IsOk(parse_header(body))
      BY ONLY <2>14, n \in Nat, ResultFacts DEF parse_header, CONNECTION_HEADER_LEN
  <2>16. from(body, CONNECTION_HEADER_LEN + 1) = c
    <3>1. PICK j \in Nat : j = 4 /\ j + 1 = 5
        OBVIOUS
    <3>2. Len(body) = j + n /\ \A i \in 1 .. n : body[j + i] = c[i]
        BY ONLY <2>8, <2>14, <3>1
    <3>3. PICK at : at = j + 1
        OBVIOUS
    <3>4. from(body, at) = c
        BY ONLY <2>14, <3>2, <3>3, j \in Nat, n \in Nat, Long(c, n), RestIs
    <3>7. CONNECTION_HEADER_LEN + 1 = 5
        BY DEF CONNECTION_HEADER_LEN
    <3> QED
        BY ONLY <3>1, <3>3, <3>4, <3>7
  <2> QED
      BY ONLY <2>12, <2>13, <2>15, <2>16, parse_cemi(c) = Ok(c) DEF cemi_of, Then
<1> QED
    BY ONLY <1>2, <1>3

-----------------------------------------------------------------------------
(* The frame of the line: what it says of itself, and what its receiver     *)
(* makes of it octet by octet.                                              *)
LineOctet == Octet \cup {calc_crc_tp(octets) : octets \in Seq(Octet)}

LEMMA SameSequence ==
    ASSUME NEW S, NEW s \in Seq(S), NEW t \in Seq(S), Len(s) = Len(t),
           \A i \in 1 .. Len(s) : s[i] = t[i]
    PROVE  s = t
OBVIOUS

LEMMA PartOf ==
    ASSUME NEW S, NEW s \in Seq(S), NEW at \in Nat \ {0}, NEW upto \in Nat,
           at <= upto + 1, upto <= Len(s), NEW part, part = SubSeq(s, at, upto)
    PROVE  /\ part \in Seq(S) /\ Len(part) = upto - at + 1
           /\ \A i \in 1 .. upto - at + 1 : part[i] = s[at + i - 1]
OBVIOUS

LEMMA OctetsOnLine ==
    ASSUME NEW s \in Seq(Octet)
    PROVE  s \in Seq(LineOctet)
<1>1. Octet \subseteq LineOctet
    BY DEF LineOctet
<1>2. PICK T : T = LineOctet
    OBVIOUS
<1> QED
    BY ONLY <1>1, <1>2, s \in Seq(Octet)

LEMMA Regrouped ==
    ASSUME NEW k \in Nat, NEW n \in Nat, NEW p \in Nat, NEW a, NEW b, NEW d,
           Long(a, k), Long(b, n), Long(d, p)
    PROVE  a \o (b \o d) = (a \o b) \o d
<1>1. a \in Seq(Octet) /\ b \in Seq(Octet) /\ d \in Seq(Octet)
    BY DEF Long
<1>2. PICK S : S = Octet
    OBVIOUS
<1> QED
    BY ONLY <1>1, <1>2

\* A frame for a group, and the part of it that is its unit.
Whole(f, head, m, ga, u) ==
    /\ head \in {6, 7} /\ f \in Seq(LineOctet) /\ Len(f) = head + m + 2 /\ f[1] \in {60, 188}
    /\ \A g : g[1] = f[1] /\ g[6] = f[6] /\ g[7] = f[7]
                  => tp_header(g) = head /\ tp_apdu_size(g) = m
    /\ tp_destination_raw(f) = ga /\ f[Len(f)] = calc_crc_tp(SubSeq(f, 1, Len(f) - 1))
    /\ \A i \in 1 .. m + 1 : f[head + i] = u[i]

Closed(f, bare, n) ==
    /\ f \in Seq(LineOctet) /\ Len(f) = n + 1 /\ \A i \in 1 .. n : f[i] = bare[i]
    /\ f[Len(f)] = calc_crc_tp(SubSeq(f, 1, Len(f) - 1))

LEMMA Ended ==
    ASSUME NEW n \in Nat, NEW bare, Long(bare, n), NEW f, f = Append(bare, calc_crc_tp(bare))
    PROVE  Closed(f, bare, n)
<1>1. PICK crc : crc = calc_crc_tp(bare)
    OBVIOUS
<1>2. bare \in Seq(Octet) /\ Len(bare) = n
    BY DEF Long
<1>3. crc \in LineOctet
    BY <1>1, <1>2 DEF LineOctet
<1>4. PICK S : S = LineOctet
    OBVIOUS
<1>5. bare \in Seq(S) /\ crc \in S /\ f = Append(bare, crc)
    BY <1>1, <1>2, <1>3, <1>4, OctetsOnLine
<1>6. f \in Seq(S) /\ Len(f) = n + 1 /\ (\A i \in 1 .. n : f[i] = bare[i]) /\ f[n + 1] = crc
    BY ONLY <1>2, <1>5, n \in Nat
<1>7. PICK part : part = SubSeq(f, 1, n)
    OBVIOUS
<1>8. part = bare
  <2>1. 1 \in Nat \ {0} /\ 1 <= n + 1 /\ n <= Len(f) /\ n - 1 + 1 = n
      BY ONLY <1>6, n \in Nat
  <2>2. part \in Seq(S) /\ Len(part) = n /\ \A i \in 1 .. n : part[i] = f[1 + i - 1]
      BY ONLY <1>6, <1>7, <2>1, n \in Nat, PartOf
  <2>3. \A i \in 1 .. n : part[i] = bare[i]
      BY ONLY <1>6, <2>2, n \in Nat
  <2> QED
      BY ONLY <1>2, <1>5, <2>2, <2>3, SameSequence
<1>9. Len(f) - 1 = n
    BY ONLY <1>6, n \in Nat
<1> QED
    BY ONLY <1>1, <1>4, <1>6, <1>7, <1>8, <1>9 DEF Closed

LEMMA ControlBits ==
    /\ with_bits(188, 128, 2, 1) = 188 /\ with_bits(188, 128, 2, 0) = 60
    /\ is_frame_start(188) /\ ~ is_extended_ctrl(188) /\ is_extended_ctrl(60)
BY DEF with_bits, bits, is_frame_start, is_extended_ctrl, CTRL_FRAME_TYPE

\* A frame with at most 15 octets, and one with more.
LEMMA StandardIsWhole ==
    ASSUME NEW ga \in Word, NEW m \in Nat, 1 <= m, m <= 15, NEW u, NEW a, a[1] = 188,
           NEW e, e = 224 + m, NEW bare, Headed(bare, a, 1, ga, e, u, m),
           NEW f, f = Append(bare, calc_crc_tp(bare))
    PROVE  Whole(f, 6, m, ga, u)
<1>1. /\ Long(bare, 1 + m + 6) /\ bare[1] = a[1] /\ bare[1 + 3] = ga \div 256
      /\ bare[1 + 4] = ga % 256 /\ bare[1 + 5] = e
      /\ \A i \in 1 .. m + 1 : bare[1 + 5 + i] = u[i]
    BY DEF Headed
<1>2. PICK n \in Nat : n = m + 7 /\ n = 1 + m + 6
    BY ONLY m \in Nat
<1>3. Long(bare, n)
    BY ONLY <1>1, <1>2
<1>4. /\ f \in Seq(LineOctet) /\ Len(f) = n + 1 /\ (\A i \in 1 .. n : f[i] = bare[i])
      /\ f[Len(f)] = calc_crc_tp(SubSeq(f, 1, Len(f) - 1))
  <2>1. Closed(f, bare, n)
      BY ONLY <1>3, n \in Nat, f = Append(bare, calc_crc_tp(bare)), Ended
  <2> QED
      BY ONLY <2>1 DEF Closed
<1>5. f[1] = 188 /\ f[4] = ga \div 256 /\ f[5] = ga % 256 /\ f[6] = 224 + m
  <2>1. 1 \in 1 .. n /\ 4 \in 1 .. n /\ 5 \in 1 .. n /\ 6 \in 1 .. n
      BY ONLY <1>2, n \in Nat, m \in Nat
  <2> QED
      BY ONLY <1>1, <1>4, <2>1, a[1] = 188, e = 224 + m
<1>6. \A i \in 1 .. m + 1 : f[6 + i] = u[i]
  <2>1. \A i \in 1 .. m + 1 : 6 + i \in 1 .. n
      BY ONLY <1>2, n \in Nat, m \in Nat
  <2> QED
      BY ONLY <1>1, <1>4, <2>1
<1>7. ASSUME NEW g, g[1] = f[1], g[6] = f[6], g[7] = f[7]
      PROVE  tp_header(g) = 6 /\ tp_apdu_size(g) = m
  <2>1. ~ is_extended_ctrl(g[1])
      BY ONLY <1>5, <1>7, ControlBits
  <2>2. g[6] % (15 + 1) = m
      BY ONLY <1>5, <1>7, m \in Nat, m <= 15
  <2> QED
      BY ONLY <2>1, <2>2 DEF tp_header, tp_apdu_size, HEADER_STD, APDU_LEN_MASK
<1>8. tp_destination_raw(f) = ga
  <2>1. tp_header(f) - 2 = 4
      BY ONLY <1>7
  <2>2. u16(f, 4) = f[4] * 256 + f[5]
      BY ONLY 4 + 1 = 5 DEF u16
  <2>3. (ga \div 256) * 256 + (ga % 256) = ga
      BY ONLY ga \in Word, WordFacts
  <2> QED
      BY ONLY <1>5, <2>1, <2>2, <2>3 DEF tp_destination_raw
<1>9. n + 1 = 6 + m + 2
    BY ONLY <1>2, m \in Nat
<1> QED
    BY ONLY <1>4, <1>5, <1>6, <1>7, <1>8, <1>9 DEF Whole

LEMMA ExtendedIsWhole ==
    ASSUME NEW ga \in Word, NEW m \in Nat, 16 <= m, m <= 55, NEW u, NEW a, a[1] = 60,
           NEW bare, Headed(bare, a, 2, ga, m, u, m),
           NEW f, f = Append(bare, calc_crc_tp(bare))
    PROVE  Whole(f, 7, m, ga, u)
<1>1. /\ Long(bare, 2 + m + 6) /\ bare[1] = a[1] /\ bare[2 + 3] = ga \div 256
      /\ bare[2 + 4] = ga % 256 /\ bare[2 + 5] = m
      /\ \A i \in 1 .. m + 1 : bare[2 + 5 + i] = u[i]
  <2>1. PICK k \in Nat : k = 2
      OBVIOUS
  <2>2. /\ Long(bare, k + m + 6) /\ (\A i \in 1 .. k : bare[i] = a[i]) /\ bare[k + 3] = ga \div 256
        /\ bare[k + 4] = ga % 256 /\ bare[k + 5] = m
        /\ \A i \in 1 .. m + 1 : bare[k + 5 + i] = u[i]
      BY ONLY <2>1, Headed(bare, a, 2, ga, m, u, m) DEF Headed
  <2>3. bare[1] = a[1]
      BY ONLY <2>1, <2>2
  <2> QED
      BY ONLY <2>1, <2>2, <2>3
<1>2. PICK n \in Nat : n = m + 8 /\ n = 2 + m + 6
    BY ONLY m \in Nat
<1>3. Long(bare, n)
    BY ONLY <1>1, <1>2
<1>4. /\ f \in Seq(LineOctet) /\ Len(f) = n + 1 /\ (\A i \in 1 .. n : f[i] = bare[i])
      /\ f[Len(f)] = calc_crc_tp(SubSeq(f, 1, Len(f) - 1))
  <2>1. Closed(f, bare, n)
      BY ONLY <1>3, n \in Nat, f = Append(bare, calc_crc_tp(bare)), Ended
  <2> QED
      BY ONLY <2>1 DEF Closed
<1>5. f[1] = 60 /\ f[5] = ga \div 256 /\ f[6] = ga % 256 /\ f[7] = m
  <2>1. 1 \in 1 .. n /\ 5 \in 1 .. n /\ 6 \in 1 .. n /\ 7 \in 1 .. n
      BY ONLY <1>2, n \in Nat, m \in Nat
  <2> QED
      BY ONLY <1>1, <1>4, <2>1, a[1] = 60
<1>6. \A i \in 1 .. m + 1 : f[7 + i] = u[i]
  <2>1. ASSUME NEW i \in 1 .. m + 1 PROVE f[7 + i] = u[i]
    <3>1. 7 + i \in 1 .. n /\ 2 + 5 + i = 7 + i
        BY ONLY <1>2, n \in Nat, m \in Nat, i \in 1 .. m + 1
    <3>2. f[7 + i] = bare[7 + i] /\ bare[2 + 5 + i] = u[i]
        BY ONLY <1>1, <1>4, <3>1, i \in 1 .. m + 1
    <3> QED
        BY ONLY <3>1, <3>2
  <2> QED
      BY ONLY <2>1
<1>7. ASSUME NEW g, g[1] = f[1], g[6] = f[6], g[7] = f[7]
      PROVE  tp_header(g) = 7 /\ tp_apdu_size(g) = m
  <2>1. is_extended_ctrl(g[1])
      BY ONLY <1>5, <1>7, ControlBits
  <2> QED
      BY ONLY <1>5, <1>7, <2>1 DEF tp_header, tp_apdu_size, HEADER_EXT
<1>8. tp_destination_raw(f) = ga
  <2>1. tp_header(f) - 2 = 5
      BY ONLY <1>7
  <2>2. u16(f, 5) = f[5] * 256 + f[6]
      BY ONLY 5 + 1 = 6 DEF u16
  <2>3. (ga \div 256) * 256 + (ga % 256) = ga
      BY ONLY ga \in Word, WordFacts
  <2> QED
      BY ONLY <1>5, <2>1, <2>2, <2>3 DEF tp_destination_raw
<1>9. n + 1 = 7 + m + 2
    BY ONLY <1>2, m \in Nat
<1> QED
    BY ONLY <1>4, <1>5, <1>6, <1>7, <1>8, <1>9 DEF Whole

LEMMA AddressesGrouped ==
    ASSUME NEW ga \in Word, NEW k \in Nat, NEW a, Long(a, k), NEW e, NEW u,
           NEW bare, bare = a \o (be(0, 2) \o be(ga, 2)) \o <<e>> \o u
    PROVE  Joined(bare, Header(a, ga, e), u)
<1>1. PICK b, d : b = be(0, 2) /\ d = be(ga, 2)
    OBVIOUS
<1>2. PICK zero \in Word : zero = 0
    BY WordFacts
<1>3. Long(b, 2)
    BY ONLY <1>1, <1>2, zero \in Word, BigEndian
<1>4. Long(d, 2)
    BY ONLY <1>1, ga \in Word, BigEndian
<1>5. a \o (b \o d) = (a \o b) \o d
  <2>1. PICK two \in Nat : two = 2
      OBVIOUS
  <2>2. Long(b, two) /\ Long(d, two)
      BY ONLY <1>3, <1>4, <2>1
  <2> QED
      BY ONLY <2>2, Long(a, k), k \in Nat, two \in Nat, Regrouped
<1>6. bare = (a \o b) \o d \o <<e>> \o u
    BY ONLY <1>1, <1>5, bare = a \o (be(0, 2) \o be(ga, 2)) \o <<e>> \o u
<1> QED
    BY ONLY <1>1, <1>6 DEF Header, Joined

\* What from_cemi makes of it.
LEMMA LineFrame ==
    ASSUME NEW ga \in Word, NEW m \in Nat, 1 <= m, m <= 55, NEW u, Long(u, m + 1),
           NEW c, IsCemi(c, ga, u, m)
    PROVE  \E f, head : from_cemi(c) = Ok(f) /\ Whole(f, head, m, ga, u)
<1>1. payload(c) = u /\ npdu_length(c) = m /\ source_address(c) = 0 /\ destination_address(c) = ga
    BY ONLY ga \in Word, m \in Nat, 1 <= m, m <= 55, Long(u, m + 1), IsCemi(c, ga, u, m), CemiParsed
<1>2. c[3] = 188 /\ c[4] = 224
    BY ONLY IsCemi(c, ga, u, m) DEF IsCemi
<1>3. PICK bare : bare =
          IF m <= 15 THEN <<with_bits(188, 128, 2, 1)>> \o (be(0, 2) \o be(ga, 2))
                            \o <<(224 \div 16) * 16 + m>> \o u
          ELSE <<with_bits(188, 128, 2, 0), 224>> \o (be(0, 2) \o be(ga, 2)) \o <<m>> \o u
    OBVIOUS
<1>4. PICK f : f = Append(bare, calc_crc_tp(bare))
    OBVIOUS
<1>5. from_cemi(c) = IF Len(bare) + 1 > 64 THEN Err("NoFrame") ELSE Ok(f)
    BY ONLY <1>1, <1>2, <1>3, <1>4
       DEF from_cemi, APDU_LEN_MASK, CTRL_FRAME_TYPE, CRC_LEN, MAX_FRAME_LEN
<1>6. PICK one \in Nat, two \in Nat : one = 1 /\ two = 2
    OBVIOUS
<1>7. 188 \in Octet /\ 60 \in Octet /\ 224 \in Octet /\ m \in Octet /\ (m <= 15 => 224 + m \in Octet)
    BY ONLY m \in Nat, m <= 55, OctetFacts
<1>8. CASE m <= 15
  <2>0. PICK a, e : a = <<188>> /\ e = 224 + m
      OBVIOUS
  <2>1. a = <<188>> /\ e = 224 + m /\ a[1] = 188
      BY ONLY <2>0
  <2>2. Long(a, one)
      BY ONLY <1>6, <1>7, <2>1, One
  <2>4. Joined(bare, Header(a, ga, e), u)
    <3>1. (224 \div 16) * 16 + m = e
        BY ONLY <2>1, m \in Nat
    <3>2. bare = a \o (be(0, 2) \o be(ga, 2)) \o <<e>> \o u
        BY ONLY <1>3, <1>8, <2>1, <3>1, ControlBits
    <3> QED
        BY ONLY <2>2, <3>2, ga \in Word, one \in Nat, AddressesGrouped
  <2>5. Headed(bare, a, one, ga, e, u, m)
      BY ONLY <1>7, <1>8, <2>1, <2>2, <2>4, one \in Nat, ga \in Word, m \in Nat, Long(u, m + 1),
         HeaderIsHeaded
  <2>6. Headed(bare, a, 1, ga, e, u, m)
      BY ONLY <1>6, <2>5
  <2>7. Whole(f, 6, m, ga, u)
      BY ONLY <1>4, <1>8, <2>1, <2>6, ga \in Word, m \in Nat, 1 <= m, StandardIsWhole
  <2>8. Long(bare, one + m + 6)
      BY ONLY <2>5 DEF Headed
  <2>9. ~ (Len(bare) + 1 > 64)
      BY ONLY <1>6, <1>8, <2>8, m \in Nat DEF Long
  <2> QED
      BY ONLY <1>5, <2>7, <2>9
<1>9. CASE ~ (m <= 15)
  <2>0. PICK a : a = <<60, 224>>
      OBVIOUS
  <2>1. a = <<60, 224>> /\ a[1] = 60
      BY ONLY <2>0
  <2>2. Long(a, two)
      BY ONLY <1>6, <1>7, <2>1, Pair
  <2>4. Joined(bare, Header(a, ga, m), u)
    <3>1. bare = a \o (be(0, 2) \o be(ga, 2)) \o <<m>> \o u
        BY ONLY <1>3, <1>9, <2>1, ControlBits
    <3> QED
        BY ONLY <2>2, <3>1, ga \in Word, two \in Nat, AddressesGrouped
  <2>5. Headed(bare, a, two, ga, m, u, m)
      BY ONLY <1>7, <2>2, <2>4, two \in Nat, ga \in Word, m \in Nat, Long(u, m + 1), HeaderIsHeaded
  <2>6. Headed(bare, a, 2, ga, m, u, m)
      BY ONLY <1>6, <2>5
  <2>7. 16 <= m
      BY ONLY <1>9, m \in Nat
  <2>8. Whole(f, 7, m, ga, u)
      BY ONLY <1>4, <2>1, <2>6, <2>7, ga \in Word, m \in Nat, m <= 55, ExtendedIsWhole
  <2>9. Long(bare, two + m + 6)
      BY ONLY <2>5 DEF Headed
  <2>10. ~ (Len(bare) + 1 > 64)
      BY ONLY <1>6, <2>9, m \in Nat, m <= 55 DEF Long
  <2> QED
      BY ONLY <1>5, <2>8, <2>10
<1> QED
    BY ONLY <1>8, <1>9

LEMMA WholeIsRead ==
    ASSUME NEW t, NEW u, NEW m, Telling(u, m, t), NEW f, NEW head, Whole(f, head, m, t.ga, u)
    PROVE  Read(f, t)
<1>1. m \in Nat /\ 1 <= m /\ Long(u, m + 1) /\ ReadsTo(parse_tpdu(u, m, TRUE, t.ga), t)
    BY DEF Telling
<1>2. /\ head \in {6, 7} /\ f \in Seq(LineOctet) /\ Len(f) = head + m + 2
      /\ tp_header(f) = head /\ tp_apdu_size(f) = m
      /\ tp_destination_raw(f) = t.ga /\ f[Len(f)] = calc_crc_tp(SubSeq(f, 1, Len(f) - 1))
      /\ \A i \in 1 .. m + 1 : f[head + i] = u[i]
    BY DEF Whole
<1>3. is_valid(f)
  <2>1. Len(f) >= 7
      BY ONLY <1>1, <1>2
  <2> QED
      BY ONLY <1>2, <2>1 DEF is_valid
<1>4. slice(f, head + 1, m + 1) = u
  <2>1. PICK S : S = LineOctet
      OBVIOUS
  <2>2. PICK at \in Nat \ {0}, upto \in Nat : at = head + 1 /\ upto = head + m + 1
      BY ONLY <1>1, <1>2
  <2>3. PICK part : part = SubSeq(f, at, upto)
      OBVIOUS
  <2>4. at <= upto + 1 /\ upto <= Len(f) /\ upto - at + 1 = m + 1 /\ (head + 1) + (m + 1) - 1 = upto
      BY ONLY <1>1, <1>2, <2>2
  <2>5. part \in Seq(S) /\ Len(part) = m + 1 /\ \A i \in 1 .. m + 1 : part[i] = f[at + i - 1]
      BY ONLY <1>2, <2>1, <2>3, <2>4, at \in Nat \ {0}, upto \in Nat, PartOf
  <2>6. \A i \in 1 .. m + 1 : part[i] = u[i]
    <3>1. \A i \in 1 .. m + 1 : at + i - 1 = head + i
        BY ONLY <1>1, <1>2, <2>2
    <3> QED
        BY ONLY <1>2, <2>5, <3>1
  <2>7. u \in Seq(S) /\ Len(u) = m + 1
      BY ONLY <1>1, <2>1, OctetsOnLine DEF Long
  <2>8. part = u
      BY ONLY <2>5, <2>6, <2>7, SameSequence
  <2> QED
      BY ONLY <2>2, <2>3, <2>4, <2>8 DEF slice
<1>5. ReadsTo(parse_tpdu(slice(f, tp_header(f) + 1, tp_apdu_size(f) + 1), tp_apdu_size(f), TRUE,
                       tp_destination_raw(f)), t)
    BY ONLY <1>1, <1>2, <1>4
<1> QED
    BY ONLY <1>2, <1>3, <1>5 DEF Read, ReadsTo

\* The receiver once it has the first b octets of a frame.
Taken(f, b) == Receiver(SubSeq(f, 1, b), IF b < 7 THEN 0 ELSE Len(f))

\* A frame as its receiver takes it: octet by octet, until it has all.
Hearing(f) ==
    /\ f \in Seq(LineOctet) /\ 9 <= Len(f) /\ is_frame_start(f[1])
    /\ process(Idle, f[1]) = Heard(Taken(f, 1), <<>>)
    /\ \A b \in 1 .. Len(f) - 2 : process(Taken(f, b), f[b + 1]) = Heard(Taken(f, b + 1), <<>>)
    /\ process(Taken(f, Len(f) - 1), f[Len(f)]) = Heard(Idle, Indicate("Frame", f))

LEMMA ReceiverFields ==
    ASSUME NEW buffer, NEW expected
    PROVE  /\ Receiver(buffer, expected).rx_buf = buffer
           /\ Receiver(buffer, expected).rx_expected = expected
BY DEF Receiver

Longer(part, more, f, b) ==
    /\ Append(part, f[b + 1]) = more /\ Len(more) = b + 1
    /\ (\A i \in 1 .. b + 1 : more[i] = f[i]) /\ (1 <= b => part # <<>>)

LEMMA OneMore ==
    ASSUME NEW S, NEW f \in Seq(S), NEW b \in Nat, b + 1 <= Len(f), NEW part, part = SubSeq(f, 1, b),
           NEW more, more = SubSeq(f, 1, b + 1)
    PROVE  Longer(part, more, f, b)
<1>1. Len(f) \in Nat
    OBVIOUS
<1>2. part \in Seq(S) /\ Len(part) = b /\ \A i \in 1 .. b : part[i] = f[i]
    BY <1>1
<1>3. more \in Seq(S) /\ Len(more) = b + 1 /\ \A i \in 1 .. b + 1 : more[i] = f[i]
    BY <1>1
<1>4. f[b + 1] \in S
    BY <1>1
<1>5. PICK last \in S : last = f[b + 1]
    BY <1>4
<1>6. PICK longer : longer = Append(part, last)
    OBVIOUS
<1>7. longer \in Seq(S) /\ Len(longer) = b + 1 /\ (\A i \in 1 .. b : longer[i] = part[i])
      /\ longer[b + 1] = last
    BY ONLY <1>2, <1>6, last \in S, b \in Nat
<1>8. \A i \in 1 .. b + 1 : longer[i] = more[i]
    BY ONLY <1>2, <1>3, <1>5, <1>7, b \in Nat
<1>9. longer = more
    BY ONLY <1>3, <1>7, <1>8, SameSequence
<1> QED
    BY ONLY <1>2, <1>3, <1>5, <1>6, <1>9 DEF Longer

LEMMA StartIsTaken ==
    ASSUME NEW f \in Seq(LineOctet), 1 <= Len(f), f[1] \in {60, 188}
    PROVE  is_frame_start(f[1]) /\ process(Idle, f[1]) = Heard(Taken(f, 1), <<>>)
<1>1. PICK x : x = f[1]
    OBVIOUS
<1>2. /\ x # U_RESET_IND /\ ~ is_state_ind(x) /\ ~ is_frame_state_ind(x) /\ is_frame_start(x)
    BY <1>1 DEF U_RESET_IND, is_state_ind, is_frame_state_ind, is_frame_start, bits
<1>3. between_frames(x) = Heard(Receiver(<<x>>, 0), <<>>)
    BY ONLY <1>2 DEF between_frames
<1>4. PICK first : first = SubSeq(f, 1, 1)
    OBVIOUS
<1>5. first = <<x>>
  <2>1. PICK S : S = LineOctet
      OBVIOUS
  <2>2. Len(f) \in Nat /\ f[1] \in S
      BY <2>1
  <2>3. 1 \in Nat \ {0} /\ 1 \in Nat /\ 1 <= 1 + 1
      OBVIOUS
  <2>4. first \in Seq(S) /\ Len(first) = 1 - 1 + 1 /\ \A i \in 1 .. 1 - 1 + 1 : first[i] = f[1 + i - 1]
      BY ONLY <1>4, <2>1, <2>2, <2>3, f \in Seq(LineOctet), 1 <= Len(f), PartOf
  <2>5. Len(first) = 1 /\ first[1] = x
      BY ONLY <1>1, <2>4
  <2>6. PICK t : t = <<x>>
      OBVIOUS
  <2>7. t \in Seq(S) /\ Len(t) = 1 /\ t[1] = x
      BY ONLY <1>1, <2>2, <2>6
  <2>8. \A i \in 1 .. Len(first) : first[i] = t[i]
      BY ONLY <2>5, <2>7
  <2>9. first = t
      BY ONLY <2>4, <2>5, <2>7, <2>8, SameSequence
  <2> QED
      BY ONLY <2>6, <2>9
<1>7. Taken(f, 1) = Receiver(<<x>>, 0)
  <2>1. PICK one \in Nat : one = 1
      OBVIOUS
  <2>2. Taken(f, one) = Receiver(SubSeq(f, 1, one), IF one < 7 THEN 0 ELSE Len(f))
      BY DEF Taken
  <2>3. (IF one < 7 THEN 0 ELSE Len(f)) = 0
      BY ONLY <2>1
  <2>4. SubSeq(f, 1, one) = <<x>>
      BY ONLY <1>4, <1>5, <2>1
  <2>5. Taken(f, one) = Receiver(<<x>>, 0)
      BY ONLY <2>2, <2>3, <2>4
  <2> QED
      BY ONLY <2>1, <2>5
<1>6. process(Idle, x) = between_frames(x)
    BY ONLY ReceiverFields DEF process, Idle
<1> QED
    BY ONLY <1>1, <1>2, <1>3, <1>6, <1>7

LEMMA OctetIsTaken ==
    ASSUME NEW m \in Nat, 1 <= m, m <= 55, NEW ga, NEW u, NEW head, NEW f, Whole(f, head, m, ga, u),
           NEW b \in Nat, 1 <= b, b + 1 <= Len(f)
    PROVE  process(Taken(f, b), f[b + 1]) =
               IF b + 1 = Len(f) THEN Heard(Idle, Indicate("Frame", f))
               ELSE Heard(Taken(f, b + 1), <<>>)
<1>1. /\ head \in {6, 7} /\ f \in Seq(LineOctet) /\ Len(f) = head + m + 2
      /\ \A g : g[1] = f[1] /\ g[6] = f[6] /\ g[7] = f[7]
                    => tp_header(g) = head /\ tp_apdu_size(g) = m
    BY DEF Whole
<1>2. PICK n \in Nat : n = Len(f) /\ n = head + m + 2 /\ 9 <= n /\ n <= 64
    BY ONLY <1>1, m \in Nat, 1 <= m, m <= 55
<1>3. PICK part, more, octet : part = SubSeq(f, 1, b) /\ more = SubSeq(f, 1, b + 1) /\ octet = f[b + 1]
    OBVIOUS
<1>4. /\ Append(part, octet) = more /\ Len(more) = b + 1
      /\ (\A i \in 1 .. b + 1 : more[i] = f[i]) /\ part # <<>>
  <2>1. PICK S : S = LineOctet
      OBVIOUS
  <2>2. Longer(part, more, f, b)
      BY ONLY <1>1, <1>3, <2>1, b \in Nat, b + 1 <= Len(f), OneMore
  <2> QED
      BY ONLY <1>3, <2>2, b \in Nat, 1 <= b DEF Longer
<1>5. PICK host, due : due = (IF b < 7 THEN 0 ELSE n) /\ host = Receiver(part, due)
    OBVIOUS
<1>6. host.rx_buf = part /\ host.rx_expected = due
    BY ONLY <1>5, ReceiverFields
<1>7. PICK measured : measured = (due = 0 /\ b + 1 >= 7)
    OBVIOUS
<1>8. PICK expected : expected = IF measured THEN frame_length(more) ELSE due
    OBVIOUS
<1>9. process(host, octet) =
        CASE measured /\ expected > 64 -> Heard(Idle, Indicate("Overrun", 0))
          [] expected > 0 /\ expected <= 64 /\ b + 1 >= expected -> Heard(Idle, Indicate("Frame", more))
          [] OTHER -> Heard(Receiver(more, expected), <<>>)
  <2>1. process(host, octet) = in_frame(host, octet)
      BY ONLY <1>4, <1>6 DEF process
  <2> QED
      BY ONLY <1>4, <1>6, <1>7, <1>8, <2>1, 6 + 1 = 7 DEF in_frame, HEADER_STD, CRC_LEN, MAX_FRAME_LEN
<1>10. b + 1 >= 7 => frame_length(more) = n
  <2> SUFFICES ASSUME b + 1 >= 7 PROVE frame_length(more) = n
      OBVIOUS
  <2>1. more[1] = f[1] /\ more[6] = f[6] /\ more[7] = f[7]
      BY ONLY <1>4, b \in Nat, b + 1 >= 7
  <2>2. tp_header(more) = head /\ tp_apdu_size(more) = m
      BY ONLY <1>1, <2>1
  <2>3. head + m + 1 + 1 = n
      BY ONLY <1>1, <1>2, m \in Nat
  <2> QED
      BY ONLY <2>2, <2>3 DEF frame_length, CRC_LEN
<1>11. (b + 1 < 7 => expected = 0) /\ (b + 1 >= 7 => expected = n)
  <2>1. (measured => expected = frame_length(more)) /\ (~ measured => expected = due)
      BY ONLY <1>8
  <2>2. measured <=> due = 0 /\ b + 1 >= 7
      BY ONLY <1>7
  <2>3. (b < 7 => due = 0) /\ (b >= 7 => due = n)
      BY ONLY <1>5, b \in Nat
  <2> QED
      BY ONLY <1>2, <1>10, <2>1, <2>2, <2>3, b \in Nat, n \in Nat
<1>12. Taken(f, b) = host /\ Taken(f, b + 1) = Receiver(more, expected)
  <2>1. PICK k \in Nat : k = b + 1
      BY ONLY b \in Nat
  <2>2. Taken(f, b) = host
      BY ONLY <1>2, <1>3, <1>5 DEF Taken
  <2>3. Taken(f, k) = Receiver(SubSeq(f, 1, k), IF k < 7 THEN 0 ELSE n)
      BY ONLY <1>2 DEF Taken
  <2>4. SubSeq(f, 1, k) = more
      BY ONLY <1>3, <2>1
  <2>5. expected = IF k < 7 THEN 0 ELSE n
      BY ONLY <1>11, <2>1, k \in Nat
  <2>6. Taken(f, k) = Receiver(more, expected)
      BY ONLY <2>3, <2>4, <2>5
  <2> QED
      BY ONLY <2>1, <2>2, <2>6
<1>13. expected \in Nat /\ ~ (expected > 64)
    BY ONLY <1>2, <1>11, n \in Nat
<1>14. CASE b + 1 = n
  <2>1. expected = n /\ expected > 0 /\ expected <= 64 /\ b + 1 >= expected
      BY ONLY <1>2, <1>11, <1>14, n \in Nat
  <2>2. process(host, octet) = Heard(Idle, Indicate("Frame", more))
      BY ONLY <1>9, <1>13, <2>1
  <2>3. more = f
    <3>1. PICK S : S = LineOctet
        OBVIOUS
    <3>2. f \in Seq(S) /\ more = SubSeq(f, 1, Len(f))
        BY ONLY <1>1, <1>2, <1>3, <1>14, <3>1
    <3> QED
        BY ONLY <3>2
  <2> QED
      BY ONLY <1>2, <1>3, <1>12, <1>14, <2>2, <2>3
<1>15. CASE b + 1 # n
  <2>1. ~ (expected > 0 /\ expected <= 64 /\ b + 1 >= expected)
      BY ONLY <1>2, <1>11, <1>15, n \in Nat, b \in Nat, b + 1 <= Len(f)
  <2>2. process(host, octet) = Heard(Receiver(more, expected), <<>>)
      BY ONLY <1>9, <1>13, <2>1
  <2> QED
      BY ONLY <1>2, <1>3, <1>12, <1>15, <2>2
<1> QED
    BY ONLY <1>14, <1>15

LEMMA WholeIsHeard ==
    ASSUME NEW m \in Nat, 1 <= m, m <= 55, NEW ga, NEW u, NEW head, NEW f, Whole(f, head, m, ga, u)
    PROVE  Hearing(f)
<1>1. head \in {6, 7} /\ f \in Seq(LineOctet) /\ Len(f) = head + m + 2 /\ f[1] \in {60, 188}
    BY DEF Whole
<1>2. PICK n \in Nat : n = Len(f) /\ 9 <= n
    BY ONLY <1>1, m \in Nat, 1 <= m
<1>3. is_frame_start(f[1]) /\ process(Idle, f[1]) = Heard(Taken(f, 1), <<>>)
  <2>1. 1 <= Len(f)
      BY ONLY <1>2
  <2> QED
      BY ONLY <1>1, <2>1, StartIsTaken
<1>4. ASSUME NEW b \in Nat, 1 <= b, b + 1 <= n
      PROVE  process(Taken(f, b), f[b + 1]) =
               IF b + 1 = Len(f) THEN Heard(Idle, Indicate("Frame", f))
               ELSE Heard(Taken(f, b + 1), <<>>)
    BY ONLY <1>2, <1>4, b \in Nat, m \in Nat, 1 <= m, m <= 55, Whole(f, head, m, ga, u), OctetIsTaken
<1>5. ASSUME NEW b \in 1 .. n - 2
      PROVE  process(Taken(f, b), f[b + 1]) = Heard(Taken(f, b + 1), <<>>)
  <2>1. b \in Nat /\ 1 <= b /\ b + 1 <= n /\ b + 1 # Len(f)
      BY ONLY <1>2, b \in 1 .. n - 2, n \in Nat
  <2> QED
      BY ONLY <1>4, <2>1
<1>6. process(Taken(f, n - 1), f[n]) = Heard(Idle, Indicate("Frame", f))
  <2>1. PICK b \in Nat : b = n - 1 /\ 1 <= b /\ b + 1 <= n /\ b + 1 = Len(f) /\ b + 1 = n
      BY ONLY <1>2, n \in Nat
  <2>2. process(Taken(f, b), f[b + 1]) = Heard(Idle, Indicate("Frame", f))
      BY ONLY <1>4, <2>1
  <2> QED
      BY ONLY <2>1, <2>2
<1> QED
    BY ONLY <1>1, <1>2, <1>3, <1>5, <1>6 DEF Hearing

line_frame(t) == from_cemi(built(t).ok).ok

\* What a telegram is on its way: a cEMI frame that its receivers parse, and
\* a frame of the line from which the telegram is read.
Goes(t, c, n) ==
    /\ n \in Nat /\ n <= 70 /\ Long(c, n) /\ parse_cemi(c) = Ok(c) /\ built(t) = Ok(c)
    /\ from_cemi(c) = Ok(line_frame(t)) /\ Hearing(line_frame(t)) /\ Read(line_frame(t), t)

LEMMA TelegramGoes ==
    ASSUME NEW t \in Telegram, IsOk(built(t))
    PROVE  \E c, n : Goes(t, c, n)
<1>1. t.ga \in Word
    BY ONLY t \in Telegram, TelegramFacts
<1>2. PICK u, m : Telling(u, m, t) /\ built(t) = build_cemi_group_frame(t.ga, u)
    BY ONLY t \in Telegram, IsOk(built(t)), TelegramUnit
<1>3. m \in Nat /\ 1 <= m /\ m <= 55 /\ Long(u, m + 1)
    BY ONLY <1>2 DEF Telling
<1>4. PICK c : build_cemi_group_frame(t.ga, u) = Ok(c) /\ IsCemi(c, t.ga, u, m)
    BY ONLY <1>1, <1>3, CemiBuilt
<1>5. parse_cemi(c) = Ok(c)
    BY ONLY <1>1, <1>3, <1>4, CemiParsed
<1>6. PICK f, head : from_cemi(c) = Ok(f) /\ Whole(f, head, m, t.ga, u)
    BY ONLY <1>1, <1>3, <1>4, LineFrame
<1>7. Read(f, t)
    BY ONLY <1>2, <1>6, WholeIsRead
<1>8. Hearing(f)
    BY ONLY <1>3, <1>6, WholeIsHeard
<1>9. built(t) = Ok(c)
    BY ONLY <1>2, <1>4
<1>10. line_frame(t) = f
  <2>1. built(t).ok = c /\ from_cemi(c).ok = f
      BY ONLY <1>6, <1>9, ResultFacts
  <2> QED
      BY ONLY <2>1 DEF line_frame
<1>11. PICK n : n = m + 10
    OBVIOUS
<1>12. n \in Nat /\ n <= 70 /\ Long(c, n)
  <2>1. Long(c, m + 10)
      BY ONLY <1>4 DEF IsCemi
  <2> QED
      BY ONLY <1>3, <1>11, <2>1
<1>13. Goes(t, c, n)
    BY ONLY <1>5, <1>6, <1>7, <1>8, <1>9, <1>10, <1>12 DEF Goes
<1> QED
    BY ONLY <1>13

LEMMA OnTheLine ==
    ASSUME NEW f \in Seq(LineOctet)
    PROVE  on_the_line(transmit_frame(f)) = f
<1>1. PICK n \in Nat : n = Len(f)
    OBVIOUS
<1>2. PICK S : S = LineOctet
    OBVIOUS
<1>3. PICK doubled : doubled = transmit_frame(f)
    OBVIOUS
<1>4. f \in Seq(S) /\ Len(doubled) = 2 * n /\ n \in Nat
  <2>1. DOMAIN doubled = 1 .. 2 * n /\ n \in Nat
      BY <1>1, <1>3 DEF transmit_frame
  <2>2. doubled \in Seq({doubled[i] : i \in 1 .. 2 * n})
      BY <1>1, <1>3 DEF transmit_frame
  <2> QED
      BY ONLY <1>2, <2>1, <2>2, f \in Seq(LineOctet)
<1>5. ASSUME NEW i \in 1 .. n PROVE doubled[2 * i] = f[i]
  <2>1. PICK at \in Nat : at = 2 * i /\ at \in 1 .. 2 * n /\ at % 2 = 0 /\ (at + 1) \div 2 = i
      BY ONLY <1>4, i \in 1 .. n
  <2>2. doubled[at] = f[(at + 1) \div 2]
      BY ONLY <1>1, <1>3, <2>1 DEF transmit_frame
  <2> QED
      BY ONLY <2>1, <2>2
<1>6. PICK heads : heads = on_the_line(doubled)
    OBVIOUS
<1>7. heads = [i \in 1 .. n |-> doubled[2 * i]]
  <2>1. Len(doubled) \div 2 = n
      BY ONLY <1>4
  <2> QED
      BY ONLY <1>6, <2>1 DEF on_the_line
<1>8. heads = [i \in 1 .. n |-> f[i]]
    BY ONLY <1>5, <1>7
<1>9. heads \in Seq(S) /\ Len(heads) = n /\ \A i \in 1 .. n : heads[i] = f[i]
    BY ONLY <1>1, <1>4, <1>8
<1> QED
    BY ONLY <1>1, <1>3, <1>4, <1>6, <1>9, SameSequence

\* What the chip says between frames is no part of one.
LEMMA ChatterIsNoFrame ==
    ASSUME NEW octet \in Chatter
    PROVE  /\ octet \in LineOctet /\ ~ is_frame_start(octet)
           /\ process(Idle, octet).rx = Idle
           /\ \/ process(Idle, octet).indication = <<>>
              \/ process(Idle, octet).indication[1] # "Frame"
<1>1. octet \in Octet /\ ~ is_frame_start(octet)
    BY ChatterAssumption
<1>2. process(Idle, octet) = between_frames(octet)
    BY ONLY ReceiverFields DEF process, Idle
<1>4. ~ (octet = U_RESET_IND /\ is_state_ind(octet)) /\ ~ (octet = U_RESET_IND /\ is_frame_state_ind(octet))
      /\ ~ (is_state_ind(octet) /\ is_frame_state_ind(octet))
    BY ONLY <1>1, OctetFacts DEF U_RESET_IND, is_state_ind, is_frame_state_ind, bits
<1>5. \/ between_frames(octet) = Heard(Idle, Indicate("Reset", 0))
      \/ between_frames(octet) = Heard(Idle, Indicate("State", octet))
      \/ between_frames(octet) = Heard(Idle, Indicate("TransmitConfirm", octet < 128))
      \/ between_frames(octet) = Heard(Idle, <<>>)
  <2>1. CASE octet = U_RESET_IND
      BY ONLY <1>1, <1>4, <2>1 DEF between_frames
  <2>2. CASE is_state_ind(octet)
      BY ONLY <1>1, <1>4, <2>2 DEF between_frames
  <2>3. CASE is_frame_state_ind(octet)
      BY ONLY <1>1, <1>4, <2>3 DEF between_frames
  <2>4. CASE octet # U_RESET_IND /\ ~ is_state_ind(octet) /\ ~ is_frame_state_ind(octet)
      BY ONLY <1>1, <2>4 DEF between_frames
  <2> QED
      BY ONLY <2>1, <2>2, <2>3, <2>4
<1>6. octet \in LineOctet
    BY <1>1 DEF LineOctet
<1> QED
    BY ONLY <1>1, <1>2, <1>5, <1>6 DEF Heard, Indicate

-----------------------------------------------------------------------------
(* The line with the frames that are not yet heard: the frame j begins at   *)
(* the position p[j], the first of them perhaps before what is left of it.  *)
Ends(fs, p, j) == p[j] + Len(fs[j])
Within(x, fs, p, j) == p[j] <= x /\ x < Ends(fs, p, j)

Placed(fs, p, h, k) ==
    /\ \A j \in h + 1 .. k : Hearing(fs[j]) /\ p[j] \in Int
    /\ \A i, j \in h + 1 .. k : i < j => Ends(fs, p, i) <= p[j]
Fitted(octets, fs, p, h, k) == \A j \in h + 1 .. k : Ends(fs, p, j) <= Len(octets) + 1
Matching(octets, fs, p, h, k) ==
    \A j \in h + 1 .. k, x \in 1 .. Len(octets) :
        Within(x, fs, p, j) => octets[x] = fs[j][x - p[j] + 1]
Covered(octets, fs, p, h, k) ==
    \A x \in 1 .. Len(octets) : octets[x] \in Chatter \/ \E j \in h + 1 .. k : Within(x, fs, p, j)
Strung(octets, fs, p, h, k) ==
    /\ octets \in Seq(LineOctet) /\ h \in Nat /\ k \in Nat /\ Placed(fs, p, h, k)
    /\ Fitted(octets, fs, p, h, k) /\ Matching(octets, fs, p, h, k) /\ Covered(octets, fs, p, h, k)

\* The receiver is between frames, or has the first octets of the next one.
Receiving(host, fs, p, h, k) ==
    \/ host = Idle /\ \A j \in h + 1 .. k : 1 <= p[j]
    \/ \E b \in Nat : /\ 1 <= b /\ h < k /\ p[h + 1] = 1 - b /\ b < Len(fs[h + 1])
                      /\ host = Taken(fs[h + 1], b)

LEMMA FrameLength == \A f : Hearing(f) => Len(f) \in Nat /\ 9 <= Len(f) /\ f \in Seq(LineOctet)
BY DEF Hearing

LEMMA SameFrames ==
    ASSUME NEW octets, NEW fs, NEW gs, NEW p, NEW h, NEW k, NEW host, Strung(octets, fs, p, h, k),
           Receiving(host, fs, p, h, k), \A j \in h + 1 .. k : gs[j] = fs[j]
    PROVE  Strung(octets, gs, p, h, k) /\ Receiving(host, gs, p, h, k)
<1>1. h \in Nat /\ k \in Nat
    BY DEF Strung
<1>2. \A j \in h + 1 .. k : Ends(gs, p, j) = Ends(fs, p, j)
                            /\ \A x : Within(x, gs, p, j) <=> Within(x, fs, p, j)
    BY DEF Ends, Within
<1>3. Placed(gs, p, h, k)
    BY <1>2 DEF Strung, Placed
<1>4. Fitted(octets, gs, p, h, k)
    BY <1>2 DEF Strung, Fitted
<1>5. Matching(octets, gs, p, h, k)
    BY <1>2 DEF Strung, Matching
<1>6. Covered(octets, gs, p, h, k)
    BY <1>2 DEF Strung, Covered
<1>7. Receiving(host, gs, p, h, k)
  <2>1. h < k => h + 1 \in h + 1 .. k
      BY ONLY <1>1
  <2> QED
      BY ONLY <2>1, Receiving(host, fs, p, h, k), \A j \in h + 1 .. k : gs[j] = fs[j] DEF Receiving
<1> QED
    BY <1>3, <1>4, <1>5, <1>6, <1>7 DEF Strung

LEMMA ShiftFrames ==
    ASSUME NEW fs, NEW p, NEW h, NEW k, NEW q, \A j \in h + 1 .. k : p[j] \in Int /\ q[j] = p[j] - 1,
           \A j \in h + 1 .. k : Len(fs[j]) \in Nat
    PROVE  \A j \in h + 1 .. k :
               /\ q[j] \in Int /\ Ends(fs, q, j) = Ends(fs, p, j) - 1 /\ Ends(fs, p, j) \in Int
               /\ \A x \in Int : Within(x, fs, q, j) <=> Within(x + 1, fs, p, j)
BY DEF Ends, Within

LEMMA RestIsStrung ==
    ASSUME NEW octets, octets # <<>>, NEW fs, NEW p, NEW h, NEW k, Strung(octets, fs, p, h, k),
           NEW q, \A j \in h + 1 .. k : q[j] = p[j] - 1
    PROVE  Strung(Tail(octets), fs, q, h, k)
<1>1. PICK rest : rest = Tail(octets)
    OBVIOUS
<1>2. octets \in Seq(LineOctet) /\ h \in Nat /\ k \in Nat
    BY DEF Strung
<1>0. PICK S : S = LineOctet
    OBVIOUS
<1>3. PICK n \in Nat : S = LineOctet /\ n = Len(octets)
    BY ONLY <1>0, <1>2
<1>4. rest \in Seq(S) /\ Len(rest) = n - 1 /\ 1 <= n /\ \A x \in 1 .. n - 1 : rest[x] = octets[x + 1]
    BY ONLY <1>1, <1>2, <1>3, octets # <<>>
<1>5. /\ \A j \in h + 1 .. k : Hearing(fs[j]) /\ p[j] \in Int
      /\ \A i, j \in h + 1 .. k : i < j => Ends(fs, p, i) <= p[j]
    BY DEF Strung, Placed
<1>6. \A j \in h + 1 .. k :
          /\ q[j] \in Int /\ Ends(fs, q, j) = Ends(fs, p, j) - 1 /\ Ends(fs, p, j) \in Int
          /\ \A x \in Int : Within(x, fs, q, j) <=> Within(x + 1, fs, p, j)
  <2>1. \A j \in h + 1 .. k : Len(fs[j]) \in Nat
      BY ONLY <1>5, FrameLength
  <2>2. \A j \in h + 1 .. k : p[j] \in Int /\ q[j] = p[j] - 1
      BY ONLY <1>5, \A j \in h + 1 .. k : q[j] = p[j] - 1
  <2> QED
      BY ONLY <2>1, <2>2, ShiftFrames
<1>7. Placed(fs, q, h, k)
    BY ONLY <1>5, <1>6, \A j \in h + 1 .. k : q[j] = p[j] - 1 DEF Placed
<1>8. Fitted(rest, fs, q, h, k)
  <2>1. \A j \in h + 1 .. k : Ends(fs, p, j) <= n + 1
      BY <1>3 DEF Strung, Fitted
  <2> QED
      BY ONLY <1>4, <1>6, <2>1, n \in Nat DEF Fitted
<1>9. Matching(rest, fs, q, h, k)
  <2> SUFFICES ASSUME NEW j \in h + 1 .. k, NEW x \in 1 .. n - 1, Within(x, fs, q, j)
               PROVE  rest[x] = fs[j][x - q[j] + 1]
      BY <1>4 DEF Matching
  <2>1. x + 1 \in 1 .. n /\ x \in Int
      BY ONLY n \in Nat, x \in 1 .. n - 1
  <2>2. Within(x + 1, fs, p, j)
      BY ONLY <1>6, <2>1, Within(x, fs, q, j), j \in h + 1 .. k
  <2>3. octets[x + 1] = fs[j][(x + 1) - p[j] + 1]
      BY <1>3, <2>1, <2>2 DEF Strung, Matching
  <2>4. (x + 1) - p[j] + 1 = x - q[j] + 1
      BY ONLY <1>5, <2>1, j \in h + 1 .. k, \A i \in h + 1 .. k : q[i] = p[i] - 1
  <2> QED
      BY ONLY <1>4, <2>3, <2>4, x \in 1 .. n - 1
<1>10. Covered(rest, fs, q, h, k)
  <2> SUFFICES ASSUME NEW x \in 1 .. n - 1, rest[x] \notin Chatter
               PROVE  \E j \in h + 1 .. k : Within(x, fs, q, j)
      BY <1>4 DEF Covered
  <2>1. x + 1 \in 1 .. n /\ x \in Int
      BY ONLY n \in Nat, x \in 1 .. n - 1
  <2>2. octets[x + 1] \notin Chatter
      BY ONLY <1>4, rest[x] \notin Chatter, x \in 1 .. n - 1
  <2>3. PICK j \in h + 1 .. k : Within(x + 1, fs, p, j)
      BY <1>3, <2>1, <2>2 DEF Strung, Covered
  <2> QED
      BY ONLY <1>6, <2>1, <2>3
<1> QED
    BY ONLY <1>1, <1>2, <1>3, <1>4, <1>7, <1>8, <1>9, <1>10 DEF Strung

LEMMA SaidIsStrung ==
    ASSUME NEW octets, NEW fs, NEW p, NEW h, NEW k, Strung(octets, fs, p, h, k), NEW octet \in Chatter
    PROVE  Strung(Append(octets, octet), fs, p, h, k)
<1>1. PICK more : more = Append(octets, octet)
    OBVIOUS
<1>2. octets \in Seq(LineOctet) /\ h \in Nat /\ k \in Nat /\ Placed(fs, p, h, k)
    BY DEF Strung
<1>0. PICK S : S = LineOctet
    OBVIOUS
<1>3. PICK n \in Nat : S = LineOctet /\ n = Len(octets)
    BY ONLY <1>0, <1>2
<1>4. octet \in S
    BY ONLY <1>3, octet \in Chatter, ChatterIsNoFrame
<1>5. more \in Seq(S) /\ Len(more) = n + 1 /\ (\A x \in 1 .. n : more[x] = octets[x])
      /\ more[n + 1] = octet
    BY ONLY <1>1, <1>2, <1>3, <1>4
<1>6. \A j \in h + 1 .. k : Ends(fs, p, j) \in Int /\ Ends(fs, p, j) <= n + 1
  <2>1. \A j \in h + 1 .. k : Ends(fs, p, j) <= n + 1
      BY <1>3 DEF Strung, Fitted
  <2>2. \A j \in h + 1 .. k : p[j] \in Int /\ Len(fs[j]) \in Nat
      BY ONLY <1>2, FrameLength DEF Placed
  <2> QED
      BY ONLY <2>1, <2>2 DEF Ends
<1>7. Fitted(more, fs, p, h, k)
    BY ONLY <1>5, <1>6, n \in Nat DEF Fitted
<1>8. Matching(more, fs, p, h, k)
  <2> SUFFICES ASSUME NEW j \in h + 1 .. k, NEW x \in 1 .. n + 1, Within(x, fs, p, j)
               PROVE  more[x] = fs[j][x - p[j] + 1]
      BY <1>5 DEF Matching
  <2>1. x \in 1 .. n
      BY ONLY <1>6, n \in Nat, j \in h + 1 .. k, x \in 1 .. n + 1, Within(x, fs, p, j) DEF Within
  <2>2. octets[x] = fs[j][x - p[j] + 1]
      BY <1>3, <2>1 DEF Strung, Matching
  <2> QED
      BY ONLY <1>5, <2>1, <2>2
<1>9. Covered(more, fs, p, h, k)
  <2> SUFFICES ASSUME NEW x \in 1 .. n + 1, more[x] \notin Chatter
               PROVE  \E j \in h + 1 .. k : Within(x, fs, p, j)
      BY <1>5 DEF Covered
  <2>1. x \in 1 .. n
      BY ONLY <1>5, n \in Nat, x \in 1 .. n + 1, more[x] \notin Chatter, octet \in Chatter
  <2>2. octets[x] \notin Chatter
      BY ONLY <1>5, <2>1, more[x] \notin Chatter
  <2> QED
      BY <1>3, <2>1, <2>2 DEF Strung, Covered
<1> QED
    BY ONLY <1>1, <1>2, <1>3, <1>5, <1>7, <1>8, <1>9 DEF Strung

LEMMA FrameIsStrung ==
    ASSUME NEW octets, NEW fs, NEW p, NEW h, NEW k, Strung(octets, fs, p, h, k), h <= k,
           NEW host, Receiving(host, fs, p, h, k), NEW f, f = fs[k + 1], Hearing(f),
           NEW q, q[k + 1] = Len(octets) + 1, \A j \in h + 1 .. k : q[j] = p[j]
    PROVE  Strung(octets \o f, fs, q, h, k + 1) /\ Receiving(host, fs, q, h, k + 1)
<1>1. PICK more : more = octets \o f
    OBVIOUS
<1>2. octets \in Seq(LineOctet) /\ h \in Nat /\ k \in Nat
    BY DEF Strung
<1>0. PICK S : S = LineOctet
    OBVIOUS
<1>3. PICK n \in Nat : S = LineOctet /\ n = Len(octets)
    BY ONLY <1>0, <1>2
<1>4. PICK size \in Nat : size = Len(f) /\ 9 <= size /\ f \in Seq(S)
    BY ONLY <1>0, Hearing(f), FrameLength
<1>5. /\ more \in Seq(S) /\ Len(more) = n + size /\ (\A x \in 1 .. n : more[x] = octets[x])
      /\ \A x \in 1 .. size : more[n + x] = f[x]
    BY ONLY <1>1, <1>2, <1>3, <1>4
<1>6. /\ \A j \in h + 1 .. k : Hearing(fs[j]) /\ p[j] \in Int
      /\ \A i, j \in h + 1 .. k : i < j => Ends(fs, p, i) <= p[j]
    BY DEF Strung, Placed
<1>7. \A j \in h + 1 .. k : /\ q[j] = p[j] /\ Ends(fs, q, j) = Ends(fs, p, j)
                            /\ Ends(fs, q, j) \in Int /\ Ends(fs, q, j) <= n + 1
                            /\ \A x : Within(x, fs, q, j) <=> Within(x, fs, p, j)
  <2>1. \A j \in h + 1 .. k : Ends(fs, p, j) <= n + 1
      BY <1>3 DEF Strung, Fitted
  <2>2. \A j \in h + 1 .. k : Len(fs[j]) \in Nat
      BY ONLY <1>6, FrameLength
  <2> QED
      BY ONLY <1>6, <2>1, <2>2, \A j \in h + 1 .. k : q[j] = p[j] DEF Ends, Within
<1>8. PICK last \in Nat : last = k + 1
    BY ONLY <1>2
<1>9. q[last] = n + 1 /\ Ends(fs, q, last) = n + 1 + size /\ fs[last] = f
      /\ \A x : Within(x, fs, q, last) <=> n + 1 <= x /\ x < n + 1 + size
  <2>1. q[last] = n + 1 /\ fs[last] = f
      BY ONLY <1>3, <1>8, q[k + 1] = Len(octets) + 1, f = fs[k + 1]
  <2>2. Ends(fs, q, last) = n + 1 + size
      BY ONLY <1>4, <2>1 DEF Ends
  <2> QED
      BY ONLY <2>1, <2>2 DEF Within
<1>10. \A j \in h + 1 .. last : j \in h + 1 .. k \/ j = last
    BY ONLY <1>2, <1>8
<1>11. Placed(fs, q, h, last)
  <2>1. \A j \in h + 1 .. last : Hearing(fs[j]) /\ q[j] \in Int
      BY ONLY <1>6, <1>7, <1>9, <1>10, Hearing(f)
  <2>2. ASSUME NEW i \in h + 1 .. last, NEW j \in h + 1 .. last, i < j
        PROVE  Ends(fs, q, i) <= q[j]
    <3>1. i \in h + 1 .. k
        BY ONLY <1>2, <1>8, <2>2
    <3>2. CASE j \in h + 1 .. k
        BY ONLY <1>6, <1>7, <2>2, <3>1, <3>2
    <3>3. CASE j = last
        BY ONLY <1>7, <1>9, <3>1, <3>3
    <3> QED
        BY ONLY <1>10, <2>2, <3>2, <3>3
  <2> QED
      BY ONLY <2>1, <2>2 DEF Placed
<1>12. Fitted(more, fs, q, h, last)
  <2>1. ASSUME NEW j \in h + 1 .. last PROVE Ends(fs, q, j) <= Len(more) + 1
    <3>1. CASE j \in h + 1 .. k
        BY ONLY <1>4, <1>5, <1>7, <3>1
    <3>2. CASE j = last
        BY ONLY <1>4, <1>5, <1>9, <3>2
    <3> QED
        BY ONLY <1>10, <3>1, <3>2, j \in h + 1 .. last
  <2> QED
      BY ONLY <2>1 DEF Fitted
<1>13. Matching(more, fs, q, h, last)
  <2>1. ASSUME NEW j \in h + 1 .. last, NEW x \in 1 .. Len(more), Within(x, fs, q, j)
        PROVE  more[x] = fs[j][x - q[j] + 1]
    <3>0. x \in Int /\ 1 <= x
        BY ONLY <1>5, x \in 1 .. Len(more)
    <3>1. CASE j \in h + 1 .. k
      <4>1. x \in 1 .. n
          BY ONLY <1>7, <2>1, <3>0, <3>1 DEF Within
      <4>2. octets[x] = fs[j][x - p[j] + 1]
          BY <1>3, <1>7, <2>1, <3>1, <4>1 DEF Strung, Matching
      <4> QED
          BY ONLY <1>5, <1>7, <3>1, <4>1, <4>2
    <3>2. CASE j = last
      <4>1. PICK i \in 1 .. size : x = n + i
        <5>1. x - n \in 1 .. size /\ x = n + (x - n)
            BY ONLY <1>9, <2>1, <3>0, <3>2, n \in Nat, size \in Nat
        <5> QED
            BY ONLY <5>1
      <4>2. more[x] = f[i] /\ x - q[j] + 1 = i
          BY ONLY <1>5, <1>9, <3>2, <4>1, n \in Nat
      <4> QED
          BY ONLY <1>9, <3>2, <4>2
    <3> QED
        BY ONLY <1>10, <3>1, <3>2, j \in h + 1 .. last
  <2> QED
      BY ONLY <2>1 DEF Matching
<1>14. Covered(more, fs, q, h, last)
  <2>1. ASSUME NEW x \in 1 .. Len(more), more[x] \notin Chatter
        PROVE  \E j \in h + 1 .. last : Within(x, fs, q, j)
    <3>0. x \in Int /\ 1 <= x /\ x <= n + size
        BY ONLY <1>5, x \in 1 .. Len(more), n \in Nat, size \in Nat
    <3>1. CASE x <= n
      <4>1. x \in 1 .. n /\ octets[x] \notin Chatter
          BY ONLY <1>5, <2>1, <3>0, <3>1
      <4>2. PICK j \in h + 1 .. k : Within(x, fs, p, j)
          BY <1>3, <4>1 DEF Strung, Covered
      <4>3. j \in h + 1 .. last /\ Within(x, fs, q, j)
          BY ONLY <1>2, <1>7, <1>8, <4>2
      <4> QED
          BY ONLY <4>3
    <3>2. CASE n < x
      <4>1. Within(x, fs, q, last)
          BY ONLY <1>9, <3>0, <3>2, n \in Nat, size \in Nat
      <4>2. last \in h + 1 .. last
          BY ONLY <1>2, <1>8, h <= k
      <4> QED
          BY ONLY <4>1, <4>2
    <3> QED
        BY ONLY <3>0, <3>1, <3>2, n \in Nat
  <2> QED
      BY ONLY <2>1 DEF Covered
<1>15. Receiving(host, fs, q, h, last)
  <2>1. CASE host = Idle /\ \A j \in h + 1 .. k : 1 <= p[j]
    <3>1. \A j \in h + 1 .. last : 1 <= q[j]
        BY ONLY <1>7, <1>9, <1>10, <2>1, n \in Nat
    <3> QED
        BY ONLY <2>1, <3>1 DEF Receiving
  <2>2. CASE \E b \in Nat : /\ 1 <= b /\ h < k /\ p[h + 1] = 1 - b /\ b < Len(fs[h + 1])
                            /\ host = Taken(fs[h + 1], b)
    <3>1. PICK b \in Nat : /\ 1 <= b /\ h < k /\ p[h + 1] = 1 - b /\ b < Len(fs[h + 1])
                           /\ host = Taken(fs[h + 1], b)
        BY ONLY <2>2
    <3>2. h < last /\ h + 1 \in h + 1 .. k
        BY ONLY <1>2, <1>8, <3>1
    <3>3. q[h + 1] = 1 - b
        BY ONLY <1>7, <3>1, <3>2
    <3> QED
        BY ONLY <3>1, <3>2, <3>3 DEF Receiving
  <2> QED
      BY ONLY <2>1, <2>2, Receiving(host, fs, p, h, k) DEF Receiving
<1> QED
    BY ONLY <1>0, <1>1, <1>2, <1>5, <1>8, <1>11, <1>12, <1>13, <1>14, <1>15 DEF Strung

LEMMA LeftIsStrung ==
    ASSUME NEW octets, NEW fs, NEW p, NEW h, NEW k, Strung(octets, fs, p, h, k), h < k,
           Ends(fs, p, h + 1) <= 1
    PROVE  /\ Strung(octets, fs, p, h + 1, k)
           /\ \A j \in (h + 1) + 1 .. k : Ends(fs, p, h + 1) <= p[j]
<1>1. h \in Nat /\ k \in Nat
    BY DEF Strung
<1>2. PICK g \in Nat : g = h + 1 /\ g \in h + 1 .. k
    BY ONLY <1>1, h < k
<1>3. \A j \in g + 1 .. k : j \in h + 1 .. k /\ g < j
    BY ONLY <1>1, <1>2
<1>4. /\ \A j \in h + 1 .. k : Hearing(fs[j]) /\ p[j] \in Int
      /\ \A i, j \in h + 1 .. k : i < j => Ends(fs, p, i) <= p[j]
    BY DEF Strung, Placed
<1>5. Placed(fs, p, g, k) /\ \A j \in g + 1 .. k : Ends(fs, p, g) <= p[j]
    BY ONLY <1>2, <1>3, <1>4 DEF Placed
<1>6. Fitted(octets, fs, p, g, k)
    BY <1>3 DEF Strung, Fitted
<1>7. Matching(octets, fs, p, g, k)
    BY <1>3 DEF Strung, Matching
<1>8. Covered(octets, fs, p, g, k)
  <2>1. ASSUME NEW x \in 1 .. Len(octets), octets[x] \notin Chatter
        PROVE  \E j \in g + 1 .. k : Within(x, fs, p, j)
    <3>1. PICK j \in h + 1 .. k : Within(x, fs, p, j)
        BY <2>1 DEF Strung, Covered
    <3>2. j # g
      <4>1. Ends(fs, p, g) \in Int /\ Ends(fs, p, g) <= 1
        <5>1. p[g] \in Int /\ Len(fs[g]) \in Nat
            BY ONLY <1>2, <1>4, FrameLength
        <5> QED
            BY ONLY <1>2, <5>1, Ends(fs, p, h + 1) <= 1 DEF Ends
      <4>2. Len(octets) \in Nat
          BY DEF Strung
      <4>3. x \in Int /\ 1 <= x
          BY ONLY <4>2, x \in 1 .. Len(octets)
      <4> QED
          BY ONLY <3>1, <4>1, <4>3 DEF Within
    <3>3. j \in g + 1 .. k
        BY ONLY <1>1, <1>2, <3>1, <3>2
    <3> QED
        BY ONLY <3>1, <3>3
  <2> QED
      BY ONLY <2>1 DEF Covered
<1>9. Strung(octets, fs, p, g, k)
    BY <1>1, <1>5, <1>6, <1>7, <1>8 DEF Strung
<1> QED
    BY ONLY <1>2, <1>5, <1>9

LEMMA HeardFields ==
    ASSUME NEW host, NEW indication
    PROVE  Heard(host, indication).rx = host /\ Heard(host, indication).indication = indication
BY DEF Heard

\* What one octet changes: nothing is heard, or the frame that is next.
Silent(step) == step.indication = <<>> \/ step.indication[1] # "Frame"
Continues(rest, step, fs, q, h, k) ==
    Silent(step) /\ Strung(rest, fs, q, h, k) /\ Receiving(step.rx, fs, q, h, k)
Completes(rest, step, fs, q, h, k) ==
    /\ h < k /\ step.indication = Indicate("Frame", fs[h + 1])
    /\ Strung(rest, fs, q, h + 1, k) /\ Receiving(step.rx, fs, q, h + 1, k)

LEMMA PollTakes ==
    ASSUME NEW octets, octets # <<>>, NEW fs, NEW p, NEW h, NEW k, Strung(octets, fs, p, h, k),
           NEW host, Receiving(host, fs, p, h, k), NEW rest, rest = Tail(octets),
           NEW step, step = process(host, Head(octets))
    PROVE  \E q : Continues(rest, step, fs, q, h, k) \/ Completes(rest, step, fs, q, h, k)
<1>1. h \in Nat /\ k \in Nat /\ octets \in Seq(LineOctet)
    BY DEF Strung
<1>2. PICK n \in Nat : n = Len(octets) /\ 1 <= n
    BY ONLY <1>1, octets # <<>>
<1>3. step = process(host, octets[1])
    BY ONLY <1>1, <1>2, step = process(host, Head(octets))
<1>4. PICK q : q = [j \in h + 1 .. k |-> p[j] - 1]
    OBVIOUS
<1>5. \A j \in h + 1 .. k : q[j] = p[j] - 1
    BY ONLY <1>4
<1>6. Strung(rest, fs, q, h, k)
    BY ONLY <1>5, octets # <<>>, Strung(octets, fs, p, h, k), rest = Tail(octets), RestIsStrung
<1>7. /\ \A j \in h + 1 .. k : Hearing(fs[j]) /\ p[j] \in Int /\ Len(fs[j]) \in Nat /\ 9 <= Len(fs[j])
      /\ \A i, j \in h + 1 .. k : i < j => Ends(fs, p, i) <= p[j]
  <2>1. \A j \in h + 1 .. k : Hearing(fs[j]) /\ p[j] \in Int
      BY DEF Strung, Placed
  <2>2. \A i, j \in h + 1 .. k : i < j => Ends(fs, p, i) <= p[j]
      BY DEF Strung, Placed
  <2> QED
      BY ONLY <2>1, <2>2, FrameLength
<1>8. 1 \in 1 .. Len(octets)
    BY ONLY <1>2
<1>9. \A j \in h + 1 .. k : Within(1, fs, p, j) => octets[1] = fs[j][1 - p[j] + 1]
    BY <1>8 DEF Strung, Matching
<1>10. octets[1] \in Chatter \/ \E j \in h + 1 .. k : Within(1, fs, p, j)
    BY <1>8 DEF Strung, Covered
<1>11. CASE host = Idle /\ (\A j \in h + 1 .. k : 1 <= p[j]) /\ \E j \in h + 1 .. k : p[j] = 1
  <2>1. PICK j \in h + 1 .. k : p[j] = 1
      BY ONLY <1>11
  <2>2. h < k /\ h + 1 \in h + 1 .. k
      BY ONLY <1>1, <2>1
  <2>3. j = h + 1
    <3>1. ASSUME h + 1 < j PROVE FALSE
      <4>1. Ends(fs, p, h + 1) <= 1
          BY ONLY <1>7, <2>1, <2>2, <3>1
      <4>2. 1 <= p[h + 1] /\ p[h + 1] \in Int /\ Len(fs[h + 1]) \in Nat /\ 9 <= Len(fs[h + 1])
          BY ONLY <1>7, <1>11, <2>2
      <4> QED
          BY ONLY <4>1, <4>2 DEF Ends
    <3> QED
        BY ONLY <1>1, <2>1, <3>1
  <2>4. PICK f : f = fs[h + 1]
      OBVIOUS
  <2>5. Hearing(f) /\ Len(f) \in Nat /\ 9 <= Len(f) /\ p[h + 1] = 1
      BY ONLY <1>7, <2>1, <2>2, <2>3, <2>4
  <2>6. octets[1] = f[1]
    <3>1. Within(1, fs, p, h + 1)
        BY ONLY <2>4, <2>5 DEF Within, Ends
    <3>2. octets[1] = fs[h + 1][1 - p[h + 1] + 1]
        BY ONLY <1>9, <2>2, <3>1
    <3> QED
        BY ONLY <2>4, <2>5, <3>2
  <2>7. step = Heard(Taken(f, 1), <<>>)
      BY ONLY <1>3, <1>11, <2>5, <2>6 DEF Hearing
  <2>8. step.rx = Taken(f, 1) /\ step.indication = <<>>
      BY ONLY <2>7, HeardFields
  <2>9. PICK b \in Nat : b = 1
      OBVIOUS
  <2>10. 1 <= b /\ q[h + 1] = 1 - b /\ b < Len(fs[h + 1]) /\ step.rx = Taken(fs[h + 1], b)
      BY ONLY <1>5, <2>2, <2>4, <2>5, <2>8, <2>9
  <2>11. Receiving(step.rx, fs, q, h, k)
      BY ONLY <2>2, <2>10 DEF Receiving
  <2> QED
      BY ONLY <1>6, <2>8, <2>11 DEF Continues, Silent
<1>12. CASE host = Idle /\ (\A j \in h + 1 .. k : 1 <= p[j]) /\ \A j \in h + 1 .. k : p[j] # 1
  <2>1. \A j \in h + 1 .. k : ~ (p[j] <= 1) /\ 1 <= q[j]
      BY ONLY <1>5, <1>7, <1>12
  <2>2. octets[1] \in Chatter
      BY ONLY <1>10, <2>1 DEF Within
  <2>3. step.rx = Idle /\ Silent(step)
      BY ONLY <1>3, <1>12, <2>2, ChatterIsNoFrame DEF Silent
  <2>4. Receiving(step.rx, fs, q, h, k)
      BY ONLY <2>1, <2>3 DEF Receiving
  <2> QED
      BY ONLY <1>6, <2>3, <2>4 DEF Continues
<1>13. CASE \E b \in Nat : /\ 1 <= b /\ h < k /\ p[h + 1] = 1 - b /\ b < Len(fs[h + 1])
                           /\ host = Taken(fs[h + 1], b)
  <2>1. PICK b \in Nat : /\ 1 <= b /\ h < k /\ p[h + 1] = 1 - b /\ b < Len(fs[h + 1])
                         /\ host = Taken(fs[h + 1], b)
      BY ONLY <1>13
  <2>2. h + 1 \in h + 1 .. k
      BY ONLY <1>1, <2>1
  <2>3. PICK f : f = fs[h + 1]
      OBVIOUS
  <2>4. Hearing(f) /\ Len(f) \in Nat /\ 9 <= Len(f)
      BY ONLY <1>7, <2>2, <2>3
  <2>5. octets[1] = f[b + 1]
    <3>1. Within(1, fs, p, h + 1)
        BY ONLY <2>1, <2>3, <2>4, b \in Nat DEF Within, Ends
    <3>2. octets[1] = fs[h + 1][1 - p[h + 1] + 1]
        BY ONLY <1>9, <2>2, <3>1
    <3>3. 1 - p[h + 1] + 1 = b + 1
        BY ONLY <2>1, b \in Nat
    <3> QED
        BY ONLY <2>3, <3>2, <3>3
  <2>6. step = process(Taken(f, b), f[b + 1])
      BY ONLY <1>3, <2>1, <2>3, <2>5
  <2>7. CASE b + 1 < Len(f)
    <3>1. b \in 1 .. Len(f) - 2
        BY ONLY <2>1, <2>4, <2>7, b \in Nat
    <3>2. step = Heard(Taken(f, b + 1), <<>>)
        BY ONLY <2>4, <2>6, <3>1 DEF Hearing
    <3>3. step.rx = Taken(f, b + 1) /\ step.indication = <<>>
        BY ONLY <3>2, HeardFields
    <3>4. PICK a \in Nat : a = b + 1
        BY ONLY b \in Nat
    <3>5. 1 <= a /\ q[h + 1] = 1 - a /\ a < Len(fs[h + 1]) /\ step.rx = Taken(fs[h + 1], a)
        BY ONLY <1>5, <2>1, <2>2, <2>3, <2>7, <3>3, <3>4, b \in Nat
    <3>6. Receiving(step.rx, fs, q, h, k)
        BY ONLY <2>1, <3>5, a \in Nat DEF Receiving
    <3> QED
        BY ONLY <1>6, <3>3, <3>6 DEF Continues, Silent
  <2>8. CASE b + 1 = Len(f)
    <3>1. b = Len(f) - 1
        BY ONLY <2>4, <2>8, b \in Nat
    <3>2. step = Heard(Idle, Indicate("Frame", f))
        BY ONLY <2>4, <2>6, <2>8, <3>1 DEF Hearing
    <3>3. step.rx = Idle /\ step.indication = Indicate("Frame", f)
        BY ONLY <3>2, HeardFields
    <3>4. Ends(fs, q, h + 1) = 1
      <4>1. q[h + 1] = 0 - b
          BY ONLY <1>5, <2>1, <2>2, b \in Nat
      <4>2. PICK left : left = q[h + 1] /\ left = 0 - b
          BY ONLY <4>1
      <4>3. PICK g : g = h + 1
          OBVIOUS
      <4>4. Ends(fs, q, g) = left + Len(f)
          BY ONLY <2>3, <4>2, <4>3 DEF Ends
      <4> QED
          BY ONLY <2>4, <2>8, <4>2, <4>3, <4>4, b \in Nat
    <3>5. Ends(fs, q, h + 1) <= 1
        BY ONLY <3>4
    <3>6. /\ Strung(rest, fs, q, h + 1, k)
          /\ \A j \in (h + 1) + 1 .. k : Ends(fs, q, h + 1) <= q[j]
        BY ONLY <1>6, <2>1, <3>5, LeftIsStrung
    <3>7. Receiving(step.rx, fs, q, h + 1, k)
        BY ONLY <3>3, <3>4, <3>6 DEF Receiving
    <3> QED
        BY ONLY <2>1, <2>3, <3>3, <3>6, <3>7 DEF Completes
  <2> QED
      BY ONLY <2>1, <2>3, <2>4, <2>7, <2>8, b \in Nat
<1> QED
    BY ONLY <1>11, <1>12, <1>13, Receiving(host, fs, p, h, k) DEF Receiving

-----------------------------------------------------------------------------
(* What is written is at every moment in three parts: heard, on the line or *)
(* in the receiver, and on its way over IP.                                 *)
LineFrames(w) == [j \in 1 .. Len(w) |-> line_frame(w[j])]

Written(w) == w \in Seq(Telegram) /\ \A i \in 1 .. Len(w) : IsOk(built(w[i]))
Carried(w, pp) ==
    /\ (\E S : pp \in Seq(S)) /\ Len(pp) <= Len(w)
    /\ \A i \in 1 .. Len(pp) : cemi_of(pp[i]) = built(w[Len(w) - Len(pp) + i])
HeardSoFar(w, hd) ==
    hd \in Seq(Seq(LineOctet)) /\ \A i \in 1 .. Len(hd) : hd[i] = line_frame(w[i])
OnWay(w, pp, octets, host, hd) ==
    /\ Written(w) /\ Carried(w, pp) /\ HeardSoFar(w, hd) /\ Len(hd) <= Len(w) - Len(pp)
    /\ \E p : /\ Strung(octets, LineFrames(w), p, Len(hd), Len(w) - Len(pp))
              /\ Receiving(host, LineFrames(w), p, Len(hd), Len(w) - Len(pp))

LEMMA WrittenFacts ==
    ASSUME NEW w, Written(w)
    PROVE  /\ Len(w) \in Nat
           /\ \A i \in 1 .. Len(w) : /\ w[i] \in Telegram /\ LineFrames(w)[i] = line_frame(w[i])
                                     /\ Hearing(line_frame(w[i])) /\ Read(line_frame(w[i]), w[i])
                                     /\ from_cemi(built(w[i]).ok) = Ok(line_frame(w[i]))
                                     /\ IsOk(built(w[i]))
<1>1. w \in Seq(Telegram) /\ \A i \in 1 .. Len(w) : IsOk(built(w[i]))
    BY DEF Written
<1>2. PICK S : S = Telegram
    OBVIOUS
<1>3. Len(w) \in Nat /\ \A i \in 1 .. Len(w) : w[i] \in S
    BY ONLY <1>1, <1>2
<1>4. ASSUME NEW i \in 1 .. Len(w)
      PROVE  /\ Hearing(line_frame(w[i])) /\ Read(line_frame(w[i]), w[i])
             /\ from_cemi(built(w[i]).ok) = Ok(line_frame(w[i]))
  <2>1. PICK t \in Telegram : t = w[i]
      BY ONLY <1>2, <1>3
  <2>2. PICK c, n : Goes(t, c, n)
      BY ONLY <1>1, <2>1, TelegramGoes
  <2>3. built(t).ok = c
      BY ONLY <2>2, ResultFacts DEF Goes
  <2> QED
      BY ONLY <2>1, <2>2, <2>3 DEF Goes
<1>5. \A i \in 1 .. Len(w) : LineFrames(w)[i] = line_frame(w[i])
    BY DEF LineFrames
<1> QED
    BY ONLY <1>1, <1>2, <1>3, <1>4, <1>5

LEMMA NothingOnWay ==
    ASSUME NEW w, w = <<>>, NEW pp, pp = <<>>, NEW octets, octets = <<>>, NEW host, host = Idle,
           NEW hd, hd = <<>>
    PROVE  OnWay(w, pp, octets, host, hd)
<1>1. Len(w) = 0 /\ Len(pp) = 0 /\ Len(octets) = 0 /\ Len(hd) = 0
    OBVIOUS
<1>2. w \in Seq(Telegram) /\ hd \in Seq(Seq(LineOctet)) /\ octets \in Seq(LineOctet)
    OBVIOUS
<1>3. \E S : pp \in Seq(S)
  <2>1. pp \in Seq(Nat)
      OBVIOUS
  <2> QED
      BY ONLY <2>1
<1>4. PICK n \in Nat : n = 0
    OBVIOUS
<1>5. 1 .. n = {} /\ n + 1 .. n = {}
    BY ONLY <1>4
<1>6. Written(w) /\ HeardSoFar(w, hd) /\ Carried(w, pp)
    BY ONLY <1>1, <1>2, <1>3, <1>4, <1>5 DEF Written, HeardSoFar, Carried
<1>7. PICK fs, p : fs = LineFrames(w)
    OBVIOUS
<1>8. Strung(octets, fs, p, n, n)
    BY ONLY <1>1, <1>2, <1>4, <1>5 DEF Strung, Placed, Fitted, Matching, Covered
<1>9. Receiving(host, fs, p, n, n)
    BY ONLY <1>5, host = Idle DEF Receiving
<1>10. Len(hd) = n /\ Len(w) - Len(pp) = n
    BY ONLY <1>1, <1>4
<1> QED
    BY ONLY <1>4, <1>6, <1>7, <1>8, <1>9, <1>10 DEF OnWay

LEMMA MoreInPipe ==
    ASSUME NEW pp, NEW S, pp \in Seq(S), NEW x
    PROVE  /\ Append(pp, x) \in Seq(S \cup {x}) /\ Len(Append(pp, x)) = Len(pp) + 1
           /\ Len(pp) \in Nat /\ Append(pp, x)[Len(pp) + 1] = x
           /\ \A i \in 1 .. Len(pp) : Append(pp, x)[i] = pp[i]
<1>1. PICK T : T = S \cup {x}
    OBVIOUS
<1>2. pp \in Seq(T) /\ x \in T
    BY <1>1
<1> QED
    BY ONLY <1>1, <1>2

LEMMA WriteIsOnWay ==
    ASSUME NEW w, NEW pp, NEW octets, NEW host, NEW hd, OnWay(w, pp, octets, host, hd),
           NEW t \in Telegram, IsOk(built(t)), NEW x, cemi_of(x) = built(t),
           NEW w2, w2 = Append(w, t), NEW pp2, pp2 = Append(pp, x)
    PROVE  OnWay(w2, pp2, octets, host, hd)
<1>1. Written(w) /\ Carried(w, pp) /\ HeardSoFar(w, hd) /\ Len(hd) <= Len(w) - Len(pp)
    BY DEF OnWay
<1>2. PICK n \in Nat : n = Len(w)
    BY ONLY <1>1, WrittenFacts
<1>3. PICK R : R = Telegram
    OBVIOUS
<1>4. w \in Seq(R) /\ t \in R
    BY <1>1, <1>3 DEF Written
<1>5. w2 \in Seq(R) /\ Len(w2) = n + 1 /\ (\A i \in 1 .. n : w2[i] = w[i]) /\ w2[n + 1] = t
    BY ONLY <1>2, <1>4, w2 = Append(w, t)
<1>6. Written(w2)
  <2>1. ASSUME NEW i \in 1 .. n + 1 PROVE IsOk(built(w2[i]))
    <3>1. CASE i \in 1 .. n
        BY ONLY <1>1, <1>2, <1>5, <3>1 DEF Written
    <3>2. CASE i = n + 1
        BY ONLY <1>5, <3>2, IsOk(built(t))
    <3> QED
        BY ONLY <3>1, <3>2, n \in Nat
  <2> QED
      BY ONLY <1>3, <1>5, <2>1 DEF Written
<1>7. PICK S : pp \in Seq(S)
    BY ONLY <1>1 DEF Carried
<1>8. PICK m \in Nat : m = Len(pp)
    BY ONLY <1>7
<1>9. /\ pp2 \in Seq(S \cup {x}) /\ Len(pp2) = m + 1 /\ pp2[m + 1] = x
      /\ \A i \in 1 .. m : pp2[i] = pp[i]
    BY ONLY <1>7, <1>8, pp2 = Append(pp, x), MoreInPipe
<1>10. m <= n /\ \A i \in 1 .. m : cemi_of(pp[i]) = built(w[n - m + i])
    BY ONLY <1>1, <1>2, <1>8 DEF Carried
<1>11. PICK k \in Nat : k = n - m /\ k = (n + 1) - (m + 1) /\ k <= n
    BY ONLY <1>10, n \in Nat, m \in Nat
<1>12. Carried(w2, pp2)
  <2>1. ASSUME NEW i \in 1 .. m + 1 PROVE cemi_of(pp2[i]) = built(w2[k + i])
    <3>1. CASE i \in 1 .. m
      <4>1. k + i \in 1 .. n
          BY ONLY <1>11, <3>1, n \in Nat, m \in Nat
      <4> QED
          BY ONLY <1>5, <1>9, <1>10, <1>11, <3>1, <4>1
    <3>2. CASE i = m + 1
      <4>1. k + i = n + 1
          BY ONLY <1>11, <3>2, n \in Nat, m \in Nat
      <4> QED
          BY ONLY <1>5, <1>9, <3>2, <4>1, cemi_of(x) = built(t)
    <3> QED
        BY ONLY <3>1, <3>2, m \in Nat
  <2> QED
      BY ONLY <1>5, <1>9, <1>10, <1>11, <2>1, n \in Nat, m \in Nat DEF Carried
<1>13. PICK h \in Nat : h = Len(hd) /\ h <= k
  <2>1. Len(hd) \in Nat
      BY ONLY <1>1 DEF HeardSoFar
  <2> QED
      BY ONLY <1>1, <1>2, <1>8, <1>11, <2>1
<1>14. HeardSoFar(w2, hd)
  <2>1. hd \in Seq(Seq(LineOctet)) /\ \A i \in 1 .. h : hd[i] = line_frame(w[i])
      BY ONLY <1>1, <1>13 DEF HeardSoFar
  <2>2. \A i \in 1 .. h : i \in 1 .. n
      BY ONLY <1>11, <1>13, n \in Nat
  <2> QED
      BY ONLY <1>5, <1>13, <2>1, <2>2 DEF HeardSoFar
<1>15. PICK fs, gs : fs = LineFrames(w) /\ gs = LineFrames(w2)
    OBVIOUS
<1>16. PICK p : Strung(octets, fs, p, h, k) /\ Receiving(host, fs, p, h, k)
    BY ONLY <1>2, <1>8, <1>11, <1>13, <1>15, OnWay(w, pp, octets, host, hd) DEF OnWay
<1>17. \A j \in h + 1 .. k : gs[j] = fs[j]
  <2>1. \A j \in h + 1 .. k : j \in 1 .. n /\ j \in 1 .. n + 1
      BY ONLY <1>11, h \in Nat, n \in Nat
  <2>2. \A j \in 1 .. n : fs[j] = line_frame(w[j])
      BY ONLY <1>1, <1>2, <1>15, WrittenFacts
  <2>3. \A j \in 1 .. n + 1 : gs[j] = line_frame(w2[j])
      BY ONLY <1>5, <1>6, <1>15, WrittenFacts
  <2> QED
      BY ONLY <1>5, <2>1, <2>2, <2>3
<1>18. Strung(octets, gs, p, h, k) /\ Receiving(host, gs, p, h, k)
    BY ONLY <1>16, <1>17, SameFrames
<1>19. Len(w2) - Len(pp2) = k
    BY ONLY <1>5, <1>9, <1>11
<1> QED
    BY ONLY <1>6, <1>12, <1>13, <1>14, <1>15, <1>18, <1>19 DEF OnWay

\* The three parts, counted.
Counted(w, pp, octets, host, hd, n, m, h, k, p) ==
    /\ n \in Nat /\ m \in Nat /\ h \in Nat /\ k \in Nat /\ m <= n /\ h <= k
    /\ n = Len(w) /\ m = Len(pp) /\ h = Len(hd) /\ k = n - m
    /\ Written(w) /\ Carried(w, pp) /\ HeardSoFar(w, hd)
    /\ Strung(octets, LineFrames(w), p, h, k) /\ Receiving(host, LineFrames(w), p, h, k)

LEMMA OnWayCounted ==
    ASSUME NEW w, NEW pp, NEW octets, NEW host, NEW hd, OnWay(w, pp, octets, host, hd)
    PROVE  \E n, m, h, k, p : Counted(w, pp, octets, host, hd, n, m, h, k, p)
<1>1. Written(w) /\ Carried(w, pp) /\ HeardSoFar(w, hd) /\ Len(hd) <= Len(w) - Len(pp)
    BY DEF OnWay
<1>2. PICK n \in Nat : n = Len(w)
    BY ONLY <1>1, WrittenFacts
<1>3. PICK S : pp \in Seq(S)
    BY ONLY <1>1 DEF Carried
<1>4. PICK m \in Nat : m = Len(pp) /\ m <= n
    BY ONLY <1>1, <1>2, <1>3 DEF Carried
<1>5. PICK h \in Nat : h = Len(hd)
    BY ONLY <1>1 DEF HeardSoFar
<1>6. PICK k \in Nat : k = n - m /\ h <= k
  <2>1. n - m \in Nat /\ h <= n - m
      BY ONLY <1>1, <1>2, <1>4, <1>5
  <2> QED
      BY ONLY <2>1
<1>7. PICK fs : fs = LineFrames(w)
    OBVIOUS
<1>8. PICK p : Strung(octets, fs, p, h, k) /\ Receiving(host, fs, p, h, k)
    BY ONLY <1>2, <1>4, <1>5, <1>6, <1>7, OnWay(w, pp, octets, host, hd) DEF OnWay
<1>9. Counted(w, pp, octets, host, hd, n, m, h, k, p)
    BY ONLY <1>1, <1>2, <1>4, <1>5, <1>6, <1>7, <1>8 DEF Counted
<1> QED
    BY ONLY <1>9

LEMMA CountedIsOnWay ==
    ASSUME NEW w, NEW pp, NEW octets, NEW host, NEW hd, NEW n, NEW m, NEW h, NEW k, NEW p,
           Counted(w, pp, octets, host, hd, n, m, h, k, p)
    PROVE  OnWay(w, pp, octets, host, hd)
BY DEF Counted, OnWay

LEMMA SayIsOnWay ==
    ASSUME NEW w, NEW pp, NEW octets, NEW host, NEW hd, OnWay(w, pp, octets, host, hd),
           NEW octet \in Chatter
    PROVE  OnWay(w, pp, Append(octets, octet), host, hd)
<1>1. PICK n, m, h, k, p : Counted(w, pp, octets, host, hd, n, m, h, k, p)
    BY OnWayCounted
<1>2. PICK more : more = Append(octets, octet)
    OBVIOUS
<1>3. PICK fs : fs = LineFrames(w)
    OBVIOUS
<1>4. Strung(octets, fs, p, h, k)
    BY ONLY <1>1, <1>3 DEF Counted
<1>5. Strung(more, fs, p, h, k)
    BY ONLY <1>2, <1>4, octet \in Chatter, SaidIsStrung
<1>6. Counted(w, pp, more, host, hd, n, m, h, k, p)
    BY ONLY <1>1, <1>3, <1>5 DEF Counted
<1> QED
    BY ONLY <1>2, <1>6, CountedIsOnWay

LEMMA ForwardIsOnWay ==
    ASSUME NEW w, NEW pp, NEW octets, NEW host, NEW hd, OnWay(w, pp, octets, host, hd), pp # <<>>,
           NEW frame, frame = Then(cemi_of(Head(pp)), LAMBDA cemi : from_cemi(cemi)),
           NEW more, more = IF IsOk(frame) THEN octets \o on_the_line(transmit_frame(frame.ok))
                            ELSE octets
    PROVE  OnWay(w, Tail(pp), more, host, hd)
<1>1. PICK n, m, h, k, p : Counted(w, pp, octets, host, hd, n, m, h, k, p)
    BY OnWayCounted
<1>2. PICK fs : fs = LineFrames(w)
    OBVIOUS
<1>3. /\ n \in Nat /\ m \in Nat /\ h \in Nat /\ k \in Nat /\ m <= n /\ h <= k
      /\ n = Len(w) /\ m = Len(pp) /\ h = Len(hd) /\ k = n - m
      /\ Written(w) /\ Carried(w, pp) /\ HeardSoFar(w, hd)
      /\ Strung(octets, fs, p, h, k) /\ Receiving(host, fs, p, h, k)
    BY ONLY <1>1, <1>2 DEF Counted
<1>4. PICK S : pp \in Seq(S)
    BY ONLY <1>3 DEF Carried
<1>5. PICK rest : rest = Tail(pp)
    OBVIOUS
<1>6. /\ 1 <= m /\ Head(pp) = pp[1] /\ rest \in Seq(S) /\ Len(rest) = m - 1
      /\ \A i \in 1 .. m - 1 : rest[i] = pp[i + 1]
    BY ONLY <1>3, <1>4, <1>5, pp # <<>>
<1>7. PICK last \in Nat : last = k + 1 /\ last \in 1 .. n /\ k + 1 \in h + 1 .. last
  <2>1. k + 1 \in Nat /\ k + 1 \in 1 .. n /\ k + 1 \in h + 1 .. k + 1
      BY ONLY <1>3, <1>6
  <2> QED
      BY ONLY <2>1
<1>8. \A i \in 1 .. m : cemi_of(pp[i]) = built(w[k + i])
    BY ONLY <1>3 DEF Carried
<1>9. PICK f : f = line_frame(w[last])
    OBVIOUS
<1>10. /\ fs[last] = f /\ Hearing(f) /\ from_cemi(built(w[last]).ok) = Ok(f) /\ IsOk(built(w[last]))
    BY ONLY <1>2, <1>3, <1>7, <1>9, WrittenFacts
<1>11. cemi_of(Head(pp)) = built(w[last])
  <2>1. 1 \in 1 .. m
      BY ONLY <1>3, <1>6
  <2> QED
      BY ONLY <1>6, <1>7, <1>8, <2>1
<1>12. frame = Ok(f)
    BY ONLY <1>10, <1>11, frame = Then(cemi_of(Head(pp)), LAMBDA cemi : from_cemi(cemi)) DEF Then
<1>13. more = octets \o f
  <2>1. IsOk(frame) /\ frame.ok = f
      BY ONLY <1>12, ResultFacts
  <2>2. on_the_line(transmit_frame(f)) = f
      BY ONLY <1>10, FrameLength, OnTheLine
  <2> QED
      BY ONLY <2>1, <2>2, more = IF IsOk(frame) THEN octets \o on_the_line(transmit_frame(frame.ok))
                                 ELSE octets
<1>14. PICK q : q = [j \in 1 .. n |-> IF j = last THEN Len(octets) + 1 ELSE p[j]]
    OBVIOUS
<1>15. q[k + 1] = Len(octets) + 1 /\ \A j \in h + 1 .. k : q[j] = p[j]
  <2>1. q[last] = Len(octets) + 1
      BY ONLY <1>7, <1>14
  <2>2. \A j \in h + 1 .. k : j \in 1 .. n /\ j # last
      BY ONLY <1>3, <1>7
  <2> QED
      BY ONLY <1>7, <1>14, <2>1, <2>2
<1>16. Strung(more, fs, q, h, k + 1) /\ Receiving(host, fs, q, h, k + 1)
  <2>2. f = fs[k + 1]
      BY ONLY <1>7, <1>10
  <2>3. Strung(octets \o f, fs, q, h, k + 1) /\ Receiving(host, fs, q, h, k + 1)
      BY ONLY <1>3, <1>10, <1>15, <2>2, FrameIsStrung
  <2> QED
      BY ONLY <1>13, <2>3
<1>17. PICK less \in Nat : less = m - 1 /\ less <= n /\ last = n - less /\ h <= last
  <2>1. m - 1 \in Nat /\ m - 1 <= n /\ last = n - (m - 1) /\ h <= last
      BY ONLY <1>3, <1>6, <1>7
  <2> QED
      BY ONLY <2>1
<1>18. Carried(w, rest)
  <2>1. ASSUME NEW i \in 1 .. less PROVE cemi_of(rest[i]) = built(w[last + i])
    <3>1. i + 1 \in 1 .. m /\ i \in 1 .. m - 1 /\ k + (i + 1) = last + i
        BY ONLY <1>3, <1>7, <1>17, i \in 1 .. less
    <3>2. rest[i] = pp[i + 1]
        BY ONLY <1>6, <3>1
    <3>3. cemi_of(pp[i + 1]) = built(w[k + (i + 1)])
        BY ONLY <1>8, <3>1
    <3> QED
        BY ONLY <3>1, <3>2, <3>3
  <2>2. Len(rest) = less /\ Len(w) = n
      BY ONLY <1>3, <1>6, <1>17
  <2> QED
      BY ONLY <1>6, <1>17, <2>1, <2>2 DEF Carried
<1>19. Counted(w, rest, more, host, hd, n, less, h, last, q)
  <2>1. Strung(more, fs, q, h, last) /\ Receiving(host, fs, q, h, last)
      BY ONLY <1>7, <1>16
  <2>2. Len(rest) = less
      BY ONLY <1>6, <1>17
  <2> QED
      BY ONLY <1>2, <1>3, <1>17, <1>18, <2>1, <2>2, last \in Nat, less \in Nat DEF Counted
<1> QED
    BY ONLY <1>5, <1>19, CountedIsOnWay

LEMMA PollIsOnWay ==
    ASSUME NEW w, NEW pp, NEW octets, NEW host, NEW hd, OnWay(w, pp, octets, host, hd),
           octets # <<>>, NEW step, step = process(host, Head(octets)),
           NEW hd2, hd2 = IF step.indication # <<>> /\ step.indication[1] = "Frame"
                          THEN Append(hd, step.indication[2]) ELSE hd
    PROVE  OnWay(w, pp, Tail(octets), step.rx, hd2)
<1>1. PICK n, m, h, k, p : Counted(w, pp, octets, host, hd, n, m, h, k, p)
    BY OnWayCounted
<1>2. PICK fs : fs = LineFrames(w)
    OBVIOUS
<1>3. /\ n \in Nat /\ m \in Nat /\ h \in Nat /\ k \in Nat /\ m <= n /\ h <= k
      /\ n = Len(w) /\ m = Len(pp) /\ h = Len(hd) /\ k = n - m
      /\ Written(w) /\ Carried(w, pp) /\ HeardSoFar(w, hd)
      /\ Strung(octets, fs, p, h, k) /\ Receiving(host, fs, p, h, k)
    BY ONLY <1>1, <1>2 DEF Counted
<1>4. PICK rest : rest = Tail(octets)
    OBVIOUS
<1>5. PICK q : Continues(rest, step, fs, q, h, k) \/ Completes(rest, step, fs, q, h, k)
    BY ONLY <1>3, <1>4, octets # <<>>, step = process(host, Head(octets)), PollTakes
<1>6. CASE Continues(rest, step, fs, q, h, k)
  <2>1. Strung(rest, fs, q, h, k) /\ Receiving(step.rx, fs, q, h, k)
        /\ (step.indication = <<>> \/ step.indication[1] # "Frame")
      BY ONLY <1>6 DEF Continues, Silent
  <2>2. hd2 = hd
      BY ONLY <2>1, hd2 = IF step.indication # <<>> /\ step.indication[1] = "Frame"
                          THEN Append(hd, step.indication[2]) ELSE hd, Zenon
  <2>3. Counted(w, pp, rest, step.rx, hd2, n, m, h, k, q)
      BY ONLY <1>1, <1>2, <2>1, <2>2 DEF Counted
  <2> QED
      BY ONLY <1>4, <2>3, CountedIsOnWay
<1>7. CASE Completes(rest, step, fs, q, h, k)
  <2>1. PICK next \in Nat : next = h + 1
      BY ONLY <1>3
  <2>2. PICK f : f = fs[next]
      OBVIOUS
  <2>3. /\ h < k /\ step.indication = Indicate("Frame", f)
        /\ Strung(rest, fs, q, next, k) /\ Receiving(step.rx, fs, q, next, k)
      BY ONLY <1>7, <2>1, <2>2 DEF Completes
  <2>4. step.indication # <<>> /\ step.indication[1] = "Frame" /\ step.indication[2] = f
      BY ONLY <2>3 DEF Indicate
  <2>5. hd2 = Append(hd, f)
      BY ONLY <2>4, hd2 = IF step.indication # <<>> /\ step.indication[1] = "Frame"
                          THEN Append(hd, step.indication[2]) ELSE hd
  <2>6. next \in 1 .. n /\ next <= k
      BY ONLY <1>3, <2>1, <2>3
  <2>7. f = line_frame(w[next]) /\ f \in Seq(LineOctet)
      BY ONLY <1>2, <1>3, <2>2, <2>6, WrittenFacts, FrameLength
  <2>8. HeardSoFar(w, hd2) /\ Len(hd2) = next
    <3>1. PICK S : S = Seq(LineOctet)
        OBVIOUS
    <3>2. hd \in Seq(S) /\ f \in S /\ \A i \in 1 .. h : hd[i] = line_frame(w[i])
        BY ONLY <1>3, <2>7, <3>1 DEF HeardSoFar
    <3>3. hd2 \in Seq(S) /\ Len(hd2) = h + 1 /\ (\A i \in 1 .. h : hd2[i] = hd[i]) /\ hd2[h + 1] = f
        BY ONLY <1>3, <2>5, <3>2
    <3>4. ASSUME NEW i \in 1 .. next PROVE hd2[i] = line_frame(w[i])
      <4>1. CASE i \in 1 .. h
          BY ONLY <3>2, <3>3, <4>1
      <4>2. CASE i = next
          BY ONLY <2>1, <2>7, <3>3, <4>2
      <4> QED
          BY ONLY <1>3, <2>1, <4>1, <4>2, i \in 1 .. next
    <3> QED
        BY ONLY <2>1, <3>1, <3>3, <3>4 DEF HeardSoFar
  <2>9. Counted(w, pp, rest, step.rx, hd2, n, m, next, k, q)
      BY ONLY <1>2, <1>3, <2>3, <2>6, <2>8, next \in Nat DEF Counted
  <2> QED
      BY ONLY <1>4, <2>9, CountedIsOnWay
<1> QED
    BY ONLY <1>5, <1>6, <1>7

-----------------------------------------------------------------------------
(* A channel is the octet that a well-formed response names.                *)
LinkOK ==
    /\ link = [spec |-> link.spec, channel_id |-> link.channel_id]
    /\ stage = "Connected" => link.spec[1] = "Router" \/ link.channel_id \in Octet
    /\ stage = "Connecting" => \A g \in net : g.octets \in Seq(Octet)

WireInv == LinkOK /\ OnWay(written, pipe, uart, rx, heard)

LEMMA QuietKeepsLink ==
    ASSUME LinkOK, link' = link,
           (stage' = stage /\ net' = net) \/ stage' \notin {"Connecting", "Connected"}
    PROVE  LinkOK'
BY DEF LinkOK

LEMMA ConnectKeepsLink ==
    ASSUME LinkOK, DInv, NEW addr, Connect(addr)
    PROVE  LinkOK'
<1>1. PICK hpai : hpai = Hpai("Ipv4Udp", client.socket.ip, client.socket.port)
    OBVIOUS
<1>2. PICK spec : spec = parse_url("udp", addr).ok
    OBVIOUS
<1>3. PICK octets : octets = frame_to_bytes(connect_request(hpai, hpai, tunnel_cri)).ok
    OBVIOUS
<1>4. PICK g : g = Datagram(octets, client.socket, addr)
    OBVIOUS
<1>5. /\ stage' = IF spec[1] = "Tunnel" THEN "Connecting" ELSE "Connected"
      /\ net' = IF spec[1] = "Router" THEN {} ELSE {g}
      /\ link' = [NoLink EXCEPT !.spec = spec]
    BY <1>1, <1>2, <1>3, <1>4 DEF Connect
<1>6. spec[1] \in {"Tunnel", "Router"}
  <2>1. PICK kind : kind = IF is_multicast(addr.ip) THEN "Router" ELSE "Tunnel"
      OBVIOUS
  <2>2. parse_url("udp", addr) = Ok(<<kind, addr>>)
      BY ONLY <2>1, Zenon DEF parse_url
  <2>3. spec = <<kind, addr>>
      BY ONLY <1>2, <2>2, ResultFacts
  <2>4. spec[1] = kind
      BY ONLY <2>3
  <2>5. kind \in {"Tunnel", "Router"}
      BY ONLY <2>1, Zenon
  <2> QED
      BY ONLY <2>4, <2>5
<1>7. link' = [spec |-> spec, channel_id |-> 0]
    BY ONLY <1>5 DEF NoLink
<1>8. link'.spec = spec /\ link' = [spec |-> link'.spec, channel_id |-> link'.channel_id]
    BY ONLY <1>7
<1>9. g.octets \in Seq(Octet)
  <2>1. client \in Client
      BY DEF DInv
  <2>2. hpai \in Endpoint
      BY ONLY <1>1, <2>1, OwnEndpoint
  <2>3. octets \in Seq(Octet)
      BY ONLY <1>3, <2>2, ConnectIsFrame DEF IsFrame
  <2> QED
      BY ONLY <1>4, <2>3 DEF Datagram
<1>10. stage' = "Connected" => link'.spec[1] = "Router"
    BY ONLY <1>5, <1>6, <1>8
<1>11. stage' = "Connecting" => net' = {g}
    BY ONLY <1>5, <1>6
<1> QED
    BY ONLY <1>8, <1>9, <1>10, <1>11 DEF LinkOK

LEMMA AcceptKeepsLink ==
    ASSUME LinkOK, NEW s \in Server, NEW g \in net, Accept(s, g)
    PROVE  LinkOK'
<1>1. PICK port \in Word : port = Site[s].bound.port
    BY SiteFacts
<1>2. PICK octets : octets =
          frame_to_bytes(build_connect_response(1, E_NO_ERROR, TUNNEL_IA_BASE + 1, port)).ok
    OBVIOUS
<1>3. PICK to : to = parse_connect(parse_frame(g.octets).ok.body, g.src).ok.ctrl_addr
    OBVIOUS
<1>4. PICK answer : answer = Datagram(octets, ServerSocket(s), to)
    OBVIOUS
<1>5. stage = "Connecting" /\ stage' = stage /\ link' = link /\ net' = net \cup {answer}
    BY <1>1, <1>2, <1>3, <1>4 DEF Accept
<1>6. answer.octets \in Seq(Octet)
  <2>1. octets \in Seq(Octet)
      BY ONLY <1>2, port \in Word, AcceptedIsFrame DEF IsFrame
  <2> QED
      BY ONLY <1>4, <2>1 DEF Datagram
<1> QED
    BY ONLY LinkOK, <1>5, <1>6 DEF LinkOK

LEMMA ConnectedKeepsLink ==
    ASSUME LinkOK, NEW g \in net, Connected(g)
    PROVE  LinkOK'
<1>1. PICK result : result = parse_frame(g.octets)
    OBVIOUS
<1>2. /\ stage = "Connecting" /\ stage' = "Connected" /\ IsOk(result) /\ Len(result.ok.body) >= 2
      /\ link' = [link EXCEPT !.channel_id = result.ok.body[1]]
    BY <1>1 DEF Connected
<1>3. g.octets \in Seq(Octet)
    BY <1>2 DEF LinkOK
<1>4. PICK octets, body : octets = g.octets /\ body = result.ok.body
    OBVIOUS
<1>5. Len(octets) >= 6 /\ body = from(octets, 7)
    BY ONLY <1>1, <1>2, <1>3, <1>4, ParsedFrame
<1>6. body \in Seq(Octet)
  <2>1. PICK at \in Nat \ {0} : at = 7
      OBVIOUS
  <2>2. at <= Len(octets) + 1 /\ octets \in Seq(Octet)
      BY ONLY <1>3, <1>4, <1>5, <2>1
  <2>3. body = from(octets, at)
      BY ONLY <1>5, <2>1
  <2> QED
      BY ONLY <2>2, <2>3, at \in Nat \ {0}, From
<1>7. body[1] \in Octet
  <2>1. Len(body) >= 2
      BY ONLY <1>2, <1>4
  <2> QED
      BY ONLY <1>6, <2>1
<1>8. PICK chan : chan = body[1]
    OBVIOUS
<1>9. link' = [link EXCEPT !.channel_id = chan]
    BY ONLY <1>2, <1>4, <1>8
<1>10. link = [spec |-> link.spec, channel_id |-> link.channel_id]
    BY DEF LinkOK
<1>11. link' = [spec |-> link.spec, channel_id |-> chan]
    BY ONLY <1>9, <1>10
<1>12. link'.channel_id = chan /\ link' = [spec |-> link'.spec, channel_id |-> link'.channel_id]
    BY ONLY <1>11
<1> QED
    BY ONLY <1>2, <1>7, <1>8, <1>12 DEF LinkOK

LEMMA NextLink == LinkOK /\ DInv /\ [WireNext]_wire_vars => LinkOK'
<1> SUFFICES ASSUME LinkOK, DInv, [WireNext]_wire_vars PROVE LinkOK'
    OBVIOUS
<1>1. ASSUME NEW s \in Server, NEW g \in net, Accept(s, g) PROVE LinkOK'
    BY ONLY <1>1, LinkOK, AcceptKeepsLink
<1>2. ASSUME NEW g \in net, Connected(g) PROVE LinkOK'
    BY ONLY <1>2, LinkOK, ConnectedKeepsLink
<1>3. CASE ConnectToFound
  <2>1. PICK i \in DOMAIN found : Connect(found[i].address)
      BY <1>3 DEF ConnectToFound
  <2>2. PICK addr : addr = found[i].address
      OBVIOUS
  <2>3. Connect(addr)
      BY ONLY <2>1, <2>2
  <2> QED
      BY ONLY LinkOK, DInv, <2>3, ConnectKeepsLink
<1>4. CASE ConnectToGroup
  <2>1. Connect(Multicast)
      BY <1>4 DEF ConnectToGroup
  <2> QED
      BY ONLY LinkOK, DInv, <2>1, ConnectKeepsLink
<1>5. CASE Search \/ Deadline
    BY <1>5, QuietKeepsLink DEF Search, Deadline
<1>6. ASSUME NEW q \in Query, Ask(q) PROVE LinkOK'
    BY <1>6, QuietKeepsLink DEF Ask
<1>7. ASSUME NEW s \in Server, NEW g \in net, DescribeItself(s, g) PROVE LinkOK'
    BY <1>7, QuietKeepsLink DEF DescribeItself
<1>8. ASSUME NEW s \in Server, NEW d \in MayBecome, SetDescription(s, d) PROVE LinkOK'
    BY <1>8, QuietKeepsLink DEF SetDescription
<1>9. ASSUME NEW g \in net, Damage(g) \/ CollectAnswer(g) PROVE LinkOK'
    BY <1>9, QuietKeepsLink DEF Damage, CollectAnswer
<1>10. CASE \/ \E t \in Telegram : Write(t)
            \/ Forward
            \/ \E octet \in Chatter : Say(octet)
            \/ Poll
            \/ UNCHANGED wire_vars
  <2>1. UNCHANGED <<stage, net, link>>
      BY <1>10 DEF Write, Forward, Say, Poll, wire_vars, lookup
  <2> QED
      BY <2>1, QuietKeepsLink
<1> QED
    BY <1>1, <1>2, <1>3, <1>4, <1>5, <1>6, <1>7, <1>8, <1>9, <1>10 DEF WireNext

LEMMA WriteKeepsWay ==
    ASSUME WireInv, NEW t \in Telegram, Write(t)
    PROVE  OnWay(written, pipe, uart, rx, heard)'
<1>1. PICK x : x = frame_to_bytes(carried(built(t).ok)).ok
    OBVIOUS
<1>2. /\ stage = "Connected" /\ IsOk(built(t)) /\ written' = Append(written, t)
      /\ pipe' = Append(pipe, x) /\ uart' = uart /\ rx' = rx /\ heard' = heard
    BY <1>1 DEF Write
<1>3. PICK c, n : Goes(t, c, n)
    BY ONLY <1>2, t \in Telegram, TelegramGoes
<1>4. n \in Nat /\ n <= 70 /\ Long(c, n) /\ parse_cemi(c) = Ok(c) /\ built(t) = Ok(c)
    BY ONLY <1>3 DEF Goes
<1>5. built(t).ok = c
    BY ONLY <1>4, ResultFacts
<1>6. link.spec[1] = "Router" \/ link.channel_id \in Octet
    BY <1>2 DEF WireInv, LinkOK
<1>7. Len(written) \in Nat
    BY WrittenFacts DEF WireInv, OnWay
<1>8. cemi_of(x) = Ok(c)
  <2>1. x = frame_to_bytes(carried(c)).ok
      BY ONLY <1>1, <1>5
  <2> QED
      BY ONLY <1>4, <1>6, <1>7, <2>1, OnIp
<1>9. OnWay(written, pipe, uart, rx, heard)
    BY DEF WireInv
<1>10. PICK w2, pp2 : w2 = Append(written, t) /\ pp2 = Append(pipe, x)
    OBVIOUS
<1>11. cemi_of(x) = built(t)
    BY ONLY <1>4, <1>8
<1>12. OnWay(w2, pp2, uart, rx, heard)
    BY ONLY <1>2, <1>9, <1>10, <1>11, t \in Telegram, WriteIsOnWay
<1> QED
    BY ONLY <1>2, <1>10, <1>12 DEF OnWay, Written, Carried, HeardSoFar

LEMMA NextOnWay == WireInv /\ [WireNext]_wire_vars => OnWay(written, pipe, uart, rx, heard)'
<1> SUFFICES ASSUME WireInv, [WireNext]_wire_vars
             PROVE  OnWay(written, pipe, uart, rx, heard)'
    OBVIOUS
<1>1. OnWay(written, pipe, uart, rx, heard)
    BY DEF WireInv
<1>2. ASSUME NEW t \in Telegram, Write(t) PROVE OnWay(written, pipe, uart, rx, heard)'
    BY ONLY <1>2, WireInv, WriteKeepsWay
<1>3. CASE Forward
  <2>1. PICK frame : frame = Then(cemi_of(Head(pipe)), LAMBDA cemi : from_cemi(cemi))
      OBVIOUS
  <2>2. PICK more : more = IF IsOk(frame) THEN uart \o on_the_line(transmit_frame(frame.ok)) ELSE uart
      OBVIOUS
  <2>3. /\ pipe # <<>> /\ pipe' = Tail(pipe) /\ uart' = more
        /\ written' = written /\ rx' = rx /\ heard' = heard
      BY <1>3, <2>1, <2>2 DEF Forward
  <2>4. OnWay(written, Tail(pipe), more, rx, heard)
      BY ONLY <1>1, <2>1, <2>2, <2>3, ForwardIsOnWay
  <2> QED
      BY ONLY <2>3, <2>4
<1>4. ASSUME NEW octet \in Chatter, Say(octet) PROVE OnWay(written, pipe, uart, rx, heard)'
  <2>1. /\ uart' = Append(uart, octet) /\ written' = written /\ pipe' = pipe /\ rx' = rx
        /\ heard' = heard
      BY <1>4 DEF Say
  <2>2. OnWay(written, pipe, Append(uart, octet), rx, heard)
      BY ONLY <1>1, octet \in Chatter, SayIsOnWay
  <2> QED
      BY ONLY <2>1, <2>2
<1>5. CASE Poll
  <2>1. PICK step : step = process(rx, Head(uart))
      OBVIOUS
  <2>2. PICK more : more = IF step.indication # <<>> /\ step.indication[1] = "Frame"
                           THEN Append(heard, step.indication[2]) ELSE heard
      OBVIOUS
  <2>3. /\ uart # <<>> /\ uart' = Tail(uart) /\ rx' = step.rx /\ heard' = more
        /\ written' = written /\ pipe' = pipe
      BY <1>5, <2>1, <2>2 DEF Poll
  <2>4. OnWay(written, pipe, Tail(uart), step.rx, more)
      BY ONLY <1>1, <2>1, <2>2, <2>3, PollIsOnWay
  <2> QED
      BY ONLY <2>3, <2>4
<1>6. ASSUME UNCHANGED <<written, pipe, uart, rx, heard>>
      PROVE  OnWay(written, pipe, uart, rx, heard)'
    BY ONLY <1>1, <1>6
<1>7. CASE Search \/ Deadline \/ ConnectToFound \/ ConnectToGroup \/ UNCHANGED wire_vars
    BY <1>6, <1>7 DEF Search, Deadline, ConnectToFound, ConnectToGroup, Connect, wire_vars, line_vars
<1>8. ASSUME NEW q \in Query, Ask(q) PROVE OnWay(written, pipe, uart, rx, heard)'
    BY <1>6, <1>8 DEF Ask, line_vars
<1>9. ASSUME NEW s \in Server, NEW g \in net, DescribeItself(s, g) \/ Accept(s, g)
      PROVE  OnWay(written, pipe, uart, rx, heard)'
    BY <1>6, <1>9 DEF DescribeItself, Accept, line_vars
<1>10. ASSUME NEW s \in Server, NEW d \in MayBecome, SetDescription(s, d)
       PROVE  OnWay(written, pipe, uart, rx, heard)'
    BY <1>6, <1>10 DEF SetDescription, line_vars
<1>11. ASSUME NEW g \in net, Damage(g) \/ CollectAnswer(g) \/ Connected(g)
       PROVE  OnWay(written, pipe, uart, rx, heard)'
    BY <1>6, <1>11 DEF Damage, CollectAnswer, Connected, line_vars
<1> QED
    BY <1>2, <1>3, <1>4, <1>5, <1>7, <1>8, <1>9, <1>10, <1>11 DEF WireNext

(* Every telegram written is read on the line as it was written, each once  *)
(* and in order, whatever the chip says between the frames and wherever its *)
(* octets are when the host polls; and once nothing is under way all of     *)
(* them have been (GroupOps, CemiFrame, TpFrame::from_cemi,                 *)
(* TpUartProtocol::process).                                                *)
THEOREM TelegramsAreRead == WireSpec => []TelegramsArrive
<1>1. WireInit => WireInv
  <2> SUFFICES ASSUME WireInit PROVE WireInv
      OBVIOUS
  <2>1. /\ stage = "Idle" /\ link = NoLink /\ written = <<>> /\ pipe = <<>> /\ uart = <<>>
        /\ rx = Idle /\ heard = <<>>
      BY DEF WireInit
  <2>2. LinkOK
      BY ONLY <2>1 DEF LinkOK, NoLink
  <2>3. OnWay(written, pipe, uart, rx, heard)
      BY ONLY <2>1, NothingOnWay
  <2> QED
      BY ONLY <2>2, <2>3 DEF WireInv
<1>2. WireInv /\ DInv /\ [WireNext]_wire_vars => WireInv'
    BY NextLink, NextOnWay DEF WireInv
<1>3. WireInv => TelegramsArrive
  <2> SUFFICES ASSUME WireInv PROVE TelegramsArrive
      OBVIOUS
  <2>1. PICK n, m, h, k, p : Counted(written, pipe, uart, rx, heard, n, m, h, k, p)
      BY OnWayCounted DEF WireInv
  <2>2. PICK fs : fs = LineFrames(written)
      OBVIOUS
  <2>3. /\ n \in Nat /\ m \in Nat /\ h \in Nat /\ k \in Nat /\ m <= n /\ h <= k
        /\ n = Len(written) /\ m = Len(pipe) /\ h = Len(heard) /\ k = n - m
        /\ Written(written) /\ HeardSoFar(written, heard)
        /\ Strung(uart, fs, p, h, k) /\ Receiving(rx, fs, p, h, k)
      BY ONLY <2>1, <2>2 DEF Counted
  <2>4. DOMAIN heard = 1 .. h /\ \A i \in 1 .. h : heard[i] = line_frame(written[i])
      BY ONLY <2>3 DEF HeardSoFar
  <2>5. \A i \in DOMAIN heard : Read(heard[i], written[i])
    <3>1. \A i \in 1 .. h : i \in 1 .. Len(written)
        BY ONLY <2>3
    <3>2. \A i \in 1 .. Len(written) : Read(line_frame(written[i]), written[i])
        BY ONLY <2>3, WrittenFacts
    <3> QED
        BY ONLY <2>4, <3>1, <3>2
  <2>6. ASSUME pipe = <<>>, uart = <<>> PROVE h = n
    <3>1. m = 0 /\ k = n /\ Len(uart) = 0
        BY ONLY <2>3, <2>6
    <3>2. ASSUME h < k PROVE FALSE
      <4>1. PICK next : next = h + 1
          OBVIOUS
      <4>2. next \in h + 1 .. k
          BY ONLY <2>3, <3>2, <4>1
      <4>3. Hearing(fs[next]) /\ p[next] \in Int /\ Ends(fs, p, next) <= 1
          BY ONLY <2>3, <3>1, <4>2 DEF Strung, Placed, Fitted
      <4>4. PICK size \in Nat : size = Len(fs[next]) /\ 9 <= size
          BY ONLY <4>3, FrameLength
      <4>5. p[next] + size <= 1
          BY ONLY <4>3, <4>4 DEF Ends
      <4>6. 1 <= p[next] \/ \E b \in Nat : p[next] = 1 - b /\ b < size
          BY ONLY <2>3, <4>1, <4>2, <4>4 DEF Receiving
      <4> QED
          BY ONLY <4>3, <4>4, <4>5, <4>6
    <3> QED
        BY ONLY <2>3, <3>1, <3>2
  <2> QED
      BY ONLY <2>3, <2>5, <2>6 DEF TelegramsArrive
<1> QED
    BY <1>1, <1>2, <1>3, FoundInvariance, PTL DEF WireSpec

=============================================================================
