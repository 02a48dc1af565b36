# A TLA+ model of knx-rs

knx-rs is a KNX stack in Rust: protocol types and codecs (`knx-rs-core`), a device
stack with ETS programming (`knx-rs-device`), a KNXnet/IP client and server
(`knx-rs-ip`), a TP-UART link (`knx-rs-tp`) and a builder of product databases
(`knx-rs-prod`).  This directory holds TLA+ modules of the first four, the
configurations that check them with TLC, and proofs checked by TLAPS.
`PROJECT.json` lists the runs, the source lines behind each definition, the
mutations each property detects, the hazards and the theorems.

## 1. Inventory

What each part keeps, what it does, and what makes it correct.

| Component | State | Operations | Hard behaviour | Correct means | Modules |
|---|---|---|---|---|---|
| Transport layer (`transport_layer.rs`) | state, peer, two sequence numbers, saved frame, buffered request, repeat counter, two deadlines, pending actions | telegrams T_CONNECT, T_DISCONNECT, T_DATA, T_ACK, T_NACK; requests to connect, send and disconnect; `poll` | timeouts against late ACKs, repeated frames, a second peer, requests while a frame is outstanding | data arrives once and in order; repetitions are bounded; the peer cannot be replaced; a silent peer is dropped | TransportLayer, TransportEndpoint, TransportConnection |
| Bus Access Unit, connections (`bau.rs`) | transport layer, outbox, restart request | `process_frame`, `poll`, dispatch of requests, their answers | an answer is made while an earlier one waits for its ACK | every call drains the transport layer; answers go to the peer that asked | BauConnection |
| Bus Access Unit, management (`bau.rs`) | memory, tables, objects, restart request | property, memory, address and restart services, master reset | long sequences of services across tables that share a memory; a crash between any two | what was put into a table stays there; a restart finds what was saved | DeviceProgramming |
| Table objects (`table_object.rs`) | load state, error, geometry | load events, allocation, fill, save, restore | allocation looks only at the length of the memory | segments do not overlap | TableObject |
| Persistence (`bau_persistence.rs`, `memory.rs`) | storage | save, restore, clear | a torn or foreign storage, a crash before a save | what was saved, or nothing | DeviceProgramming |
| Runtime tables (`address_table.rs`, `association_table.rs`, `group_object_table.rs`) | entries | lookups in both directions | tables that declare more than they hold | the loaded table is the one used | RuntimeTables |
| Group objects (`group_object.rs`, group services of `bau.rs`) | value and communication flag of each object | writes and reads of the application, telegrams, `poll`, confirmations | confirmations name an address, not an object | no value is forgotten, no object waits for ever | GroupObjects |
| Interface objects and properties | data of each property | read, write, describe by index and by type | windows at the end of the data | a write changes the elements it names | InterfaceObjects |
| Application layer codec (`application_layer/`) | none | parse requests, build answers | lengths, limits | fields do not overlap; refused when too short | ApplicationLayer |
| Addresses, cEMI, TPDU, APDU (`knx-rs-core`) | none | parse, build | bits shared between two units | one reads back what the other wrote | Addresses, Apdu, Cemi |
| Datapoint types (`dpt/`) | none | encode, decode | ranges, rounding, reserved bits | the same | Datapoints, TypedDatapoints |
| KNXnet/IP frames (`knxip.rs`, `dib.rs`, `srp.rs`) | none | parse, build | nested lengths, unknown blocks | the same | KnxIp, Descriptions |
| Device server (`tunnel_server.rs`) | tunnels, channel-id counter, event backlog, event and command channels, description | datagrams of tunnelling, routing and discovery, commands, ACK deadlines, heartbeat sweep, stop | server task and application feed each other through bounded channels; clients vanish, repeat and forge | nobody waits for ever; events keep their order; tunnels do not disturb each other | ServerTunnel, DeviceServer, Discovery |
| Tunnel client (`tunnel.rs`) | session (channel, two counters, missed heartbeats), frame awaiting its ACK, frames buffered meanwhile, the channel to the application | send with retries, receive, heartbeat, disconnect, reconnect | a retry against a late ACK, frames read while waiting, a new session with old datagrams on their way | Ok means delivered; order; a call returns | Tunnelling |
| Router (`router.rs`) | ages of the last sends, pause, event and command channels | send, receive, RoutingBusy, RoutingLostMessage | sleeping while datagrams arrive | the rate is kept; a send returns | RateLimiter, Routing |
| Multiplexer (`multiplex.rs`) | connection, broadcast channel, command channel, handles | send, receive, clone and drop of handles | slow receivers, the end of the connection | only a slow handle misses frames; the end reaches everyone | Routing |
| Discovery, URLs, connect (`discovery.rs`, `url.rs`) | gateways found | search with a deadline, connect | the server changes between search and answer; foreign datagrams | what is found is what was described | Discovery, Wire |
| Group operations (`ops.rs`) | none | write, read, respond, wait for a value | short and long values share a frame format | the value arrives | GroupTelegrams, Wire |
| TP-UART (`knx-rs-tp`) | receive buffer and state | octet by octet | indications between frames, lengths | every frame of the line is found | TpUart, Wire |
| knxprod builder, examples, scripts | none that outlives a call | | | | none, see section 9 |

How they interact: `Bau` owns the transport layer, the tables, the group objects and
the interface objects and is called by one loop; it returns frames through an outbox.
A device server is a tokio task between the UDP sockets and that loop: it turns
datagrams into events for the loop and the loop's frames into indications for its
clients.  A tunnel client or a router is a tokio task between its socket and an
application; the multiplexer stands between a tunnel or router and several
applications.  Between two devices lies a bus, between client and server an IP
network; both may lose and repeat, and here both keep order.

## 2. Modules

| Module | What it is | Code |
|---|---|---|
| `TransportLayer` | The struct as a record, one operator per public method and per action A1 to A12.  `actions` is the list the caller takes. | `transport_layer.rs` |
| `TransportEndpoint` | One transport layer, in an environment that may send any telegram and make any request at any time. | its callers |
| `ConfirmedDelivery` | Abstract: payloads arrive in the order offered, at most once, and what is confirmed has arrived. | the promise of `transport_layer.rs` and of `tunnel.rs` |
| `TransportConnection` | Two transport layers and a bus between them; refines `ConfirmedDelivery`. | |
| `BauConnection` | `process_frame`, `poll` and `drain_transport_actions` around the same operators, with requests that answer, do not answer, restart, or reset and answer. | `bau.rs` |
| `LoadableTables` | Abstract: what is put into one table while it is loaded stays there whatever happens to the others; a restart brings back what was saved or nothing. | the promise of the management services |
| `TableObject` | The load state machine as a record and one operator per method. | `table_object.rs` |
| `InterfaceObjects` | Properties, their element windows and descriptions, and the System B objects. | `interface_object.rs`, `property/`, `device_object.rs` and others |
| `DeviceProgramming` | The management services on memory, tables, objects and runtime tables, the storage, and restarts at any moment; refines `LoadableTables`. | `bau.rs`, `bau_persistence.rs`, `memory.rs` |
| `RuntimeTables` | The lookups between group addresses and objects. | three files |
| `GroupObjects` | Application, bus, `poll` and link on the group objects, in any order. | `group_object.rs`, `bau.rs` |
| `ServerTunnel` | `TunnelClient` as a record and the functions on it, and `free_channel`. | `tunnel_server.rs` |
| `DeviceServer` | The server task, its two channels, its stop request and its application; clients are an open environment. | `tunnel_server.rs` |
| `Tunnelling` | Client task, UDP and server tunnels end to end; refines `ConfirmedDelivery`. | `tunnel.rs`, `tunnel_server.rs` |
| `RateLimiter`, `Routing` | The sliding window; the router's task, the multiplexer's loop and its handles. | `router.rs`, `multiplex.rs` |
| `Octets` | Octets, big-endian numbers, bit fields, fallible conversions. | shared by the codecs |
| `Addresses`, `Apdu`, `Cemi` | Addresses and their texts, units and frames. | `knx-rs-core` |
| `Datapoints`, `TypedDatapoints` | Datapoint types and those with fields. | `dpt/` |
| `KnxIp`, `Descriptions` | Frames, description blocks, search parameters. | `knxip.rs`, `dib.rs`, `srp.rs` |
| `ApplicationLayer`, `GroupTelegrams` | Services of a device, and group values as telegrams. | `application_layer/`, `ops.rs` |
| `Discovery` | How a server describes itself, accepts a connection, and what a client makes of it. | `tunnel_server.rs`, `discovery.rs`, `url.rs` |
| `TpUart` | Frames of the line, requests to the chip, the receive state machine. | `knx-rs-tp` |
| `Wire` | All codecs composed: from a search to a telegram on the line. | |
| `CodecFacts` | Assumptions that relate each encoder to its decoder, over bounded inputs. | |
| `...Proofs` | Theorems and their proofs (section 7). | |
| `MC...` | Values of the constants for TLC. | |

Correspondence.  A method on `&mut self` is an operator on a record, so that several
modules use the same translation.  A deadline is the number of ticks left (`Off` when
no timer runs); the tick is an action, so that a deadline may pass and be noticed
late.  One pass through `tokio::select!` is one action.  An await inside it that may
block (the hand-over to an application) is a control state of its own; one that cannot
block is part of the action.  The server's `Vec` of tunnels is a set, since no
operation depends on the order in it.

In the modules of connections a cEMI frame is its message code and an opaque content
and a payload is a number in order of offering.  In the codec modules and in `Wire` a
frame is its octets.  A text is the sequence of its parts or code points, a float a
fraction, an error the fact that there is one.

In `DeviceProgramming` one service is one action with everything it changes: a load
event with its fill and the reload of the runtime table, a master reset with memory,
tables and address.  The host saves when `take_restart_pending` asks for it; `Restart`
makes a new `Bau` and restores into it, at any moment.  The constant `Orderly` says
whether the tool follows the procedure of ETS (allocate when there is room and the
previous segment is in memory, write to the segment of the table being loaded, complete
when it is in memory).  `WriteLoadControl`, `MemoryWrite` and the rest are the code's
either way; `Orderly` restricts only the tool.

In `GroupObjects` a group telegram stays on the link until it is confirmed, and up to
`MaxOnLink` of them wait there.  In `Routing` time enters as the ages of the sends.

The sequence-number widths, the ids, the capacities and the size of the memory are
constants.  The assumptions name what the modules need of them.

Definitions below a comment "A plausible bug" take no part in the specifications.  They
are the mutated forms that `PROJECT.json` refers to.

## 3. Runs

| Run | Question | What it shows |
|---|---|---|
| `transport_endpoint` | Does the state machine keep its own books, whatever happens around it? | Timers follow the state, the saved frame is the outstanding one, repetitions are bounded and identical, the peer is never replaced, and a silent peer is dropped (liveness). |
| `connection` | Does it keep the promise over a bus that loses and repeats, through reconnects? | `ConfirmedDelivery` is refined, through the wrap of the counters.  A confirmation counts only for a client that waits for the server's connection timeout before it reconnects: otherwise an ACK for the old connection can pass for one of the new. |
| `bau_connection` | Does the BAU use the transport layer correctly? | No action is left after a call, a restart ends the connection, numbered answers go only to the connected peer. |
| `bau_answer_leak` (violation) | Do answers stay on the connection they were asked on? | No, see section 6. |
| `programming` | Is what a tool loads what the device has and uses? | `LoadableTables` is refined through loads of two tables in turn, every kind of reset, saves and power failures; segments stay apart; the runtime table is the loaded one. |
| `group_objects` | Are the values of an application sent? | A value is pending until a telegram is made of it, no object waits for a confirmation that cannot come, orders are served and transmissions settle (liveness). |
| `device_server_tunnels` | Do several clients disturb one another? | Ids are distinct through their wrap, a tunnel ends only by its own client's fault, one frame is on the wire per client and replaced only by its acknowledgement, and none waits while the wire is free, the confirmation of a request that was taken included.  Whatever address a datagram comes from and whatever channel it names, only its sender's tunnels change. |
| `device_server_queues` | Does anything get stuck when every queue is at its limit? | Events keep their order and none is dropped, requests are settled, the application gets through, stale tunnels are freed, a stop takes effect. |
| `tunnelling` | What does a reconnecting client promise, in both directions? | `ConfirmedDelivery`, through retries, wraps and a new session; what the server queues is handed over once and in order; nothing but a full channel keeps a send waiting. |
| `tunnelling_stuck` (violation) | And if that channel is full? | The send never returns, see section 6. |
| `routing` | Do several users share a routing connection fairly? | The rate is kept through every pause; a handle misses only the oldest frames it was too slow for; a send returns unless loop and task wait for each other (`Wedged`); the end reaches everyone. |
| `wire` | Do the codecs agree, from one end to the other? | Gateways are found as they were described when they answered, what answers a search meets its conditions and what meets them answers, every written value is read on the line.  Before exploring, TLC evaluates the twelve facts of `CodecFacts`. |

## 4. Bounds, and why they are enough

- Sequence numbers are taken modulo 2 or 3 with at least as many payloads, so that the
  counters wrap.  Modulo 2 is the strictest case for a stop-and-wait protocol: a
  repetition and the next-but-one frame look the same.
- `MAX_REP_COUNT` is 1 and `MAX_RETRIES` 2: first transmission, repetition and giving up
  all happen.  The ACK timeout is one tick and the connection timeout two, which keeps
  the order between them that the code has (3 s and 6 s).
- Two or three addresses: the peer, a second participant, and (in the transport layer)
  the zero address that stands for "nobody".
- `MaxOnWire`, `MaxOnBus`, `MaxOnSocket` and `MaxOnLink` are 1 or 2 per direction.  What
  does not fit on a wire is lost, and loss is possible anyway, so a smaller wire
  restricts only how many old datagrams may still be on their way.
- Queues and channels have capacity 1, so that the full and the empty queue are one
  step apart; two ids serve up to two tunnels, so that ids wrap while one is in use.
- `MaxEvents` counts routing events and requests taken: 1 in `device_server_tunnels`,
  so that a request is taken and confirmed among all other datagrams, and 3 in
  `device_server_queues`, which is about many of them; `MaxPayload`, `MaxIndication` and
  `MaxFrame` frames; `Sessions` the sockets opened; `MaxSessions` the connections a device
  accepts.  Each is in the guard of one action.
- `programming`: a memory of two cells with two values, allocations of one cell and of
  one more than the memory, two tables with segments of which one has a runtime table.
  That is enough for two segments side by side, an allocation that is refused, and a
  content that an overlap would destroy.  The proofs of section 7 hold for all sizes.
- `group_objects`: two objects at one address and one whose association leads nowhere;
  one value, because the flags do not depend on it.
- `routing`: two handles, a limit of one telegram per tick, and pauses of one tick; the
  proof holds for every limit and window.
- `wire`: two servers that change their description once, three searches of other
  clients, six telegrams (one for each wire form and both services), one damaged
  datagram in all, one octet of chatter from the chip.  `CodecFacts` names its bounds.

Nothing else is cut, except in `device_server_tunnels`:

- a stop request is not explored any further (`StopsAtOnce`); stops are the subject of
  `device_server_queues`;
- a frame the application sends is served before anything else happens (`CommandsAtOnce`).
  Until it is served it touches no tunnel and disables no datagram or tick, so any other
  order leads to tunnels that sending it later leads to as well;
- the event channel, its backlog, what the application received and the datagrams of the
  last step are left out of the state's identity (`View`).  With one event the backlog
  stays empty and the server always reads, and to receive it leaves the application
  where its decision to send does.  A channel id counts by its distance from the next
  one to give out, since the ids form a round without a beginning.

`programming` has a `view` as well, which identifies states that differ only in what no
guard and no property looks at: properties of the device, octets of the memory that no
table owns (a segment begins behind the memory, so they never become part of one again)
and the runtime table of a table that is not loaded.  Both runs check no liveness.

Deadlock is checked except in `wire`, where the bounded searches and telegrams come to
an end.

## 5. Fairness

- `TransportEndpoint`: `poll` is called again and again ("must be called periodically")
  and time passes.  Nothing is assumed of any peer.
- `DeviceServer`: the arms of `tokio::select!` are picked at random among those that are
  ready, so an arm that stays ready is served (weak fairness); time passes; the
  application goes on receiving and sending.  Receiving needs strong fairness, because
  in the model it may be disabled by a decision to send and enabled again.  No client
  needs to do anything.
- `Tunnelling`: the client task runs, so its timeouts expire.  A call that waits at the
  loop competes with the heartbeat and with datagrams: strong fairness for `StartSend`
  says that the random order picks it at some time.  The application receives while it
  does not send.
- `Routing`: time passes, and the task and the loop take a step they can take.  The arms
  of a `select!` that compete with one another (`TakeCommand`, `StartSend`, `Broadcast`,
  `ConnectionClosed`) get strong fairness for the same reason as above.  No handle needs
  to receive.
- `GroupObjects`: `poll` is called again and again and the link confirms in its own time.
  Nothing is assumed of the application or the bus.

## 6. What the runs found

Two runs expect a violation and have a finding.

1. *Answers outlive their connection* (`bau_answer_leak`).  An answer made while an earlier
   one is unacknowledged waits in `buffered_request`, which no path that closes or opens
   a connection clears.  It goes out as numbered data on the next connection, which may
   belong to another peer.
2. *A full channel stops the tunnel client* (`tunnelling_stuck`).  The client task awaits room
   in the channel to the application while the application awaits the result of a `send`
   that only this task can give.  The server avoids exactly this with its backlog.

Behaviour met while modelling, which the models contain and no run calls a fault:

- *Connections.*  Without `auto_reconnect` a send after a failed one reuses its counter:
  if the server had taken the failed frame, the new one is acknowledged as a repetition,
  dropped, and `send` returns Ok (`tunnel.rs:448`).  Frames that `wait_for_ack` buffered
  are dropped on a timeout.  The response of a master reset that has to wait in
  `buffered_request` is overtaken by the disconnect, and a second answer that has to wait
  there replaces the first.  A connect request for device management is refused, every
  other type is treated as a tunnel.  A device ignores a repeated Connect of its peer and
  keeps the sequence numbers (`transport_layer.rs:178`): when the Disconnect before it was lost, the first frame of the new connection may be
  acknowledged as a repetition and not delivered.  `connection` reaches this with a client
  that does not wait for the server's timeout, for which it counts no confirmation.
- *Routing.*  A multiplexed router can reach the state `Wedged`, the analogue of finding 2:
  the task awaits room in its event channel, which only the multiplexer's loop makes, and
  the loop awaits that the task takes a command; from then on no handle sends or receives.
  `SendReturns` makes an exception of it and shows that nothing else keeps a send waiting.
  The multiplexer does not end when every handle is dropped, since it keeps a sender of
  its own channel, although `multiplex.rs:59` says so.  A shorter RoutingBusy replaces a
  longer pause (`router.rs:273`); one that arrives while the limiter sleeps is seen late.
- *Programming.*  A tool that does not follow the procedure can make segments overlap:
  an allocation reserves at the end of the memory without growing it unless it fills,
  and a fill or a write beyond the limit is dropped although the allocation was
  accepted.  The memory only grows; only a factory reset empties it.  Unload and a new
  load keep the runtime table in use until the load completes.  The error code survives
  an unload.  `save` leaves out the individual address, the group object table and the
  error.  The extended property services see the stored properties and not what the
  table objects intercept.
- *Group objects.*  A confirmation settles the first object transmitting to its address,
  which need not be the one that sent.  An object starves while a lower one with the
  same address keeps sending.  A read request or an update from the bus replaces a
  pending write.  A read is answered with a value that was never set.
- *Codecs.*  A descriptor of an unsupported type is answered with the APCI of a
  *read* with type 63 (`encode.rs:74`).  Bit 6 of DPT 18, 6.020 and some fields of metering
  types decode to values that cannot be encoded again; a year octet of 100 to 127
  decodes to 2000 to 2027.  `TpFrame::from_cemi` reads the control octets at fixed
  positions even with additional information.  After an overrun the rest of the oversized
  frame is read as indications and frame starts.

## 7. Proofs

Each theorem holds for every value of the constants that satisfies the assumptions of
the modules (`...Assumption`).

*DeviceProgrammingProofs*: a device programmed in order (`Orderly`) implements
`LoadableTables`, keeps its segments apart and uses the tables that were loaded, for
every size of the memory, any sizes of tables, any length of the download and power
failures at any moment.  `SegmentsApart` is not inductive: an allocation puts a segment
behind the *memory*, which says nothing of a segment that was reserved and is not in
memory yet.  The inductive invariant (`Device`) adds that of all tables with a segment
at most one still waits for its memory (`OneWaits`), that a loaded table has all of it
(`Complete`), and that both hold of what is in the storage too, since a restart brings
that back.  Steps fall into those that give no table a new segment (`DeviceKept`) and
the allocation (`DeviceGrows`).  For the refinement there is one lemma per action of
the abstraction (`ForgetStep`, `StartStep`, `PutStep`, `CompleteStep`) and one per
operation of the device (`LoadStep`, `WriteStep`, `ResetStep`, `SaveStep`, `RestartStep`,
`ClearStep`): a write changes no other table's content because the others lie apart or
are not in memory, and in the second case the memory does not grow.

*RoutingProofs*: `RateIsKept` for every limit and window.  The property is about what went
out (`sent`), the limiter knows only what it remembers (`timestamps`), and forgets some of
that at each grant.  The invariant is that whatever went out within the window is
remembered, at the same distance from the end.  `OnlyLaggardsMiss` for any number of handles
and any capacities, from a second invariant: it orders what a handle has against what waits
there, but a frame gets there from the event channel, or from the task that is blocked on
it.  The invariant (`FramesInv`) follows a frame the whole way: the events on their way
(`Pending`) are in order, and newer than all a handle has, waits for or has missed.  A
blocked task that gets through leaves `Pending` as it was.

*TransportLayerProofs* has the invariant of the struct first, `Sound`: its type, that the
two timers run exactly in the states they belong to, and that in `OpenWait` the saved frame
is addressed to the current peer and carries the current sequence number.  Each of A1 to A12
has a lemma that it keeps `Sound` in the states it is called in; the public methods follow.
The two modules below rest on this part.  The rest is about `TransportEndpoint`, for every
set of addresses and payloads, every width of the sequence numbers and every timeout.
`transmissions` is tied to `rep_count`, which is what makes the bound on repetitions
inductive: the bound alone is not, since it does not know how many repetitions are still to
come.  `PeerIsKept` and `OutstandingFrameRepeated` are action properties from the same
invariant: whatever is sent as data in `OpenWait` is the saved frame, and nothing but an
acknowledgement or the end of the connection replaces it.

*TransportConnectionProofs* shows that two transport layers over a bus that loses and
repeats implement `ConfirmedDelivery`, for any number of connections and payloads, any
width of the sequence numbers of at least two and any capacity of the bus.  Equal numbers
modulo `SEQ_MOD` say nothing by themselves; what is under way has to be known.  `Ordered`
is about the client's flow, the frames on their way and the one it would repeat: no payload
is older than the last one delivered, payloads never decrease along it, and what follows a
Connect is newer than what precedes it.  A frame that carries the last payload once more
has a number the server has moved past, so it is not delivered twice; and what is delivered
is newer than all before.  That holds of every client.  What a confirmation means is known
of a client that connects when the server is closed and nothing is under way (`Patient`):
the two sides count the same frames, and an acknowledgement with the number of the
outstanding frame was sent after the server had delivered it.  There is one lemma per
operation of the transport layer and one per action of the connection.

*BauConnectionProofs*: the three properties of the connection-oriented services, for any
number of participants and connections.  They are about the drain: a call pushes actions,
draining them may dispatch a request, and serving it pushes more.  `Called` says what the
methods of the transport layer have in common when they run on an empty list of actions:
frames come before notifications, numbered data goes to the peer of the open connection
(of a repetition this is known from `Sound`), the peer is kept, and only a call that leaves
the connection open hands over a request.  `Dispatched` says that serving a request adds no
further one, so that the second round is the last, and that a restart asked for by it closes
the connection (`Dropped`), with an answer pushed before that or not.  The answers of the
request that is served and the repetitions of earlier ones are covered alike; that an answer
may belong to an earlier *connection* is finding 1, and no theorem could exclude it.

*GroupObjectsProofs*, for any tables, any number of objects that share addresses and any
number of telegrams on the link.  `WrittenIsSent` needs only the types besides itself.
`ConfirmationsSuffice` is a count per address: a telegram that leaves the outbox enters the
link, a confirmation takes a telegram away and with it one object that waits, if any does,
and a poll adds a telegram for every object that starts to transmit.  The last rests on the
order in which poll serves the objects (`Ascending`), in which each of them occurs
(`AscendingFacts`).  The module also holds the theorems about `Addresses`: the printed text
of every address is parsed to that address, for individual addresses and for group
addresses of two and three levels, by the arithmetic of the levels.

*DeviceServerProofs* is about `DeviceServer`, for every number of clients, every capacity
and every wrap.  Two independent invariants are proved.

- `QInv` for the event queue.  `EventsInOrder` alone is nearly inductive, but an event
  taken with a full backlog would be dropped; that this branch is never taken follows
  from the guard that reads no datagram then (`has_room`), together with the bound on
  the backlog in `QInv`.
- `TInv` for the tunnels.  Every tunnel is well-typed, its queues are within bounds and
  one frame is on the wire if any waits (`Sound`); the tunnels are a finite set within
  the limit, with distinct ids.  There is a lemma per operator of `ServerTunnel` and one
  per way in which the set changes (none, fewer, one replaced, one added, all changed).
  Distinct ids need a count: with fewer tunnels than ids a free id exists, the round
  from the next id on reaches it, and the first free one is the least of a non-empty
  set of naturals (`FreeChannel`, by well-foundedness).

The action properties of the device server all follow from `TInv`.  A tunnel is named by
its channel id, so a tunnel that is replaced, acknowledged or removed is found by the id and address the datagram came with, and is the sender's own
(`FromClientFacts`, hence `ClientsKeepApart`).  For `OneFrameOnTheWire` there is a lemma per
operator that it keeps the frame (`SameFrame`); only an acknowledgement does not.  For
`OnlyOwnFaultEndsTunnel`, `TInv` bounds the attempts by `MAX_RETRIES`: a tunnel that is given
up has used exactly as many.

*TunnellingProofs*: `HandedOverInOrder`, for any number of sessions, channels and tunnels,
any width of the sequence numbers, queues of any length and a network that loses and repeats.
The property is about what the client has taken, and far from inductive: it depends on what
is still on its way, and a request on the wire may be repeated, late, or of a channel that
has been given to somebody else since.  The invariant puts all frames of one channel in one
`Line`: those on the wire, the one in flight and those that wait.  A line is `Lined` when
its frames come in order and copies of a frame next to each other, and it is `Readable` for
the client when each frame is new to it or is the last one it took, under another number
than the one it expects.  Whatever the two ends do, a line loses frames, gets one at its end,
or shows one more copy of the frame in flight; there is a lemma for each (`LineTail`,
`LineShed`, `LineAppended`, `LineSent`, `LinePumped`, `LineTaken` ...), one per operator of
`ServerTunnel` on top of them (`DeliverGood`, `TakeGood`, ...), and one per action of
`Tunnelling`.  A confirmation is of the request that was delivered last, and so newer than
all earlier ones, only if no request is delivered twice: the other direction has an
invariant too (`UpInv`), about the requests on the wire and the one that may be sent again.

That a client with `auto_reconnect` implements `ConfirmedDelivery` (`ReconnectingDelivers`)
rests on `UpInv` for order and repetitions.  For the confirmations a third invariant,
`InStep`, says what an acknowledgement means: the numbers on the two wires and at the two
ends belong together.  A request of the session on the wire is the one being served, or is
delivered and carries the number before (`Numbered`).  The tunnel of the session expects the
number the client sends next, or the one after it once the request being served has been
delivered (`Expected`).  A positive acknowledgement is of the number before, or of the
request being served and then follows its delivery, and none of the number before comes
behind it (`Acknowledged`): so that, once the client has counted on, those that are left are
again of the number before, even where counters wrap at 2.  While a connect request is
under way the session is unused (`Unused`).  The network and most of both ends only take
datagrams away or add ones of no account (`Kept`, `NumbersKept`); what is left are the
client's send, failed send, acknowledgement and new session, and the server's new tunnel and
the requests it takes or acknowledges again.  The hypothesis is the configuration's
`auto_reconnect`, and it is needed: without it, section 6 tells how a send returns Ok whose
frame was taken for a repetition.

*DeviceServerProofs* also holds the theorems about `Wire`, all three of its invariants: for
any servers, clients, descriptions, telegrams, searches and queries of others, any changes
while a search runs, and datagrams that are lost, late, repeated or damaged.

- `SearchFindsServers` (`FoundAsDescribed`).  Damage is unrestricted here, so the invariant
  (`DInv`) has to say what a datagram can have become: its beginning, with zeroes behind it
  (`Frayed`) of an answer, a request or a query that somebody did send (`Traced`).  Of an
  answer that was cut and filled up, `FoundInFrayed` shows that it is refused or read as the
  whole answer: a total length that disagrees, a block that is cut, or octets past the
  last block end in an error.  This is where the order of the fields counts.
- `QueriesSelect` (`AnswersMatch`), in both directions: what a server answers meets every
  condition of the query, and a server whose description blocks meet them all answers.  A
  server satisfies a parameter exactly if its blocks show what the parameter asks for
  (`SatisfiedIsMet`).  That whoever meets the conditions answers (`WhoMeetsAnswers`) holds in
  every state; it needs that a query's mandatory parameters are its conditions, besides
  those that only name the blocks wanted (`Stated`, part of `QueriesAssumption`), and an
  endpoint of the protocol the server reads.  For what is answered the invariant
  (`AnswersOK`) says of every datagram what a server would make of it: it leads to the one
  who searched, or carries the parameters of a query and leads to the one who asked it, and
  what arrives there fits (`Expected`); or it is damaged and refused, since its length
  disagrees with its header (`Broken`).  The hypothesis, that `MaxDamage` is at most 1, lets
  one datagram of the whole search be damaged once, and is needed: a query whose last
  octet is cut off and then filled up with a zero is a valid query with other parameters,
  and a server rightly answers what it was asked then.
- `TelegramsAreRead` (`TelegramsArrive`).  The property is about frames that were heard; the
  invariant (`OnWay`) says where the others are.  What is written is at every moment in three
  parts: the first are heard, the last are in datagrams in their order (`Carried`), and those
  between are on the line, each frame `j` from a position `p[j]` on (`Strung`).  The
  positions are apart and ascend, every octet of a frame is at its place, and every octet
  at no frame's place is chatter.  The first position may lie before what is left of the
  line: then the receiver has exactly the octets that are gone (`Receiving`, `Taken`), and
  otherwise it is idle.  So a poll may end anywhere in a frame.  A step puts chatter or a
  frame at the end of the line (`SaidIsStrung`, `FrameIsStrung`) or takes an octet from its
  beginning (`PollTakes`, `LeftIsStrung`).  Two groups of lemmas are about the codecs on the
  way.  One: a telegram is a unit of at most 56 octets (`TelegramUnit`), parsed from its
  cEMI frame by either side of the link (`CemiParsed`, `OnIp`), of which a line frame is
  made, short or extended, that reads as the same telegram (`WholeIsRead`).  The other: a
  line frame is heard by the receiver octet by octet and only complete with its last one
  (`WholeIsHeard`), which rests on the length being where the receiver looks for it and
  on the frame being within its buffer; and chatter leaves an idle receiver idle.  That a
  frame goes into the tunnel at all needs the channel to be an octet (`LinkOK`), which is
  what a well-formed response names.  Two assumptions on the constants enter.
  `ChatterAssumption`: what the chip says between frames is not the first octet of one.
  `TelegramsAssumption`: the octets a datapoint codec makes of a value fit a frame and
  decode to what the reader is to see, since the codecs are folds over data; the run
  evaluates it for each of its telegrams.
- Reading back: `FrameReadBack` for frames of every service, `HpaiReadBack` for endpoints,
  with whatever follows them.

Only model-checked: everything that is live, since fairness is out of the prover's
reach; of the codecs, those of `CodecFacts` over its
bounded inputs, of which datapoint types are folds and arithmetic over the data.  Nothing
that is proved uses a recursive operator.

## 8. Plan

What would add most from here, in this order.

1. The composition of `BauConnection` with `DeviceProgramming`: a download over a
   connection that breaks, and is resumed or repeated by the tool.
2. `Wire` with octets lost between chip and host: what the receiver drops until it is in
   step with the frames again.

## 9. Not modelled

- Opening sockets and joining groups, and the lengths of backoff delays.
- `Bau::set_memory_area`, `load_tables_from_memory`, `add_object` and the like: shortcuts
  with which a host sets up a device without a tool.
- DPT 14 (IEEE 754) and DPT 28 (UTF-8): outside TLA+'s data.  TLC's integers reach 32
  bits of DPT 29.
- `knx-rs-prod`: a batch tool over XML, hashes, signatures and archives.  It keeps no state
  between calls and nothing in it runs concurrently.
- Examples, build scripts and test-vector generators.  The demo device's loop is the
  environment assumed for the application of the device server.
- Reordering on the network: the models keep the order of datagrams in one direction,
  which a local network does; loss and repetition are unrestricted.
- In `Wire`: loss of octets between chip and host, and the application that forwards
  from gateway to line, which is not part of the repository (external); telegrams other
  than group telegrams, such as a control unit given to `TpFrame::from_cemi`; the order of the
  tunnel and of the router is the subject of their own modules.
