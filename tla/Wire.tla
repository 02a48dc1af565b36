---------------------------------- MODULE Wire ----------------------------------
(***************************************************************************)
(* From a search to a telegram on the line, in octets.  A client searches  *)
(* for gateways while others search with parameters and the servers        *)
(* change; it connects to one it found, or to the multicast group, and     *)
(* writes group values; the gateway puts them on a twisted-pair line, and  *)
(* a host there reads them from its TP-UART chip octet by octet.  The      *)
(* counters and retries of the tunnel are in Tunnelling, the rate of the   *)
(* router in Routing; here both deliver in order.                          *)
(***************************************************************************)
EXTENDS Discovery, TpUart, GroupTelegrams

CONSTANTS
    Server,        \* the device servers
    Site,          \* of each server: bound, own, routing, and the description it starts with
    MayBecome,     \* the descriptions a server may be given
    Client,        \* the clients' sockets, and the address each names in its request
    Query,         \* the extended searches of others: from where, and with which parameters
    Telegram,      \* what is written: group address, service, datapoint type, value
    Chatter,       \* what the chip says between frames
    MaxChanges, MaxDamage, MaxFound, MaxWritten, MaxChatter  \* bounds on counted things

VARIABLES
    stage,         \* of the client: Idle, Searching, Searched, Connecting, Connected
    client,        \* which of Client it is
    description,   \* of each server: <<>>, or its description
    said,          \* of each server: what its description was since the search began
    net,           \* the datagrams sent: each may arrive, any number of times, or never
    damaged,       \* how many datagrams were damaged
    changes,       \* how many descriptions were set
    found,         \* the gateways found
    link,          \* what the client is connected to, and on which channel
    written,       \* the telegrams written
    pipe,          \* the KNXnet/IP frames on their way to the gateway
    uart,          \* the octets the host on the line has not read yet
    chatter,       \* how many octets the chip added
    rx,            \* the receiver of the host
    heard          \* the frames handed up to it

lookup == <<client, description, said, net, damaged, changes, found>>
line_vars == <<written, pipe, uart, chatter, rx, heard>>
wire_vars == <<stage, lookup, link, line_vars>>

Datagram(octets, src, to) == [octets |-> octets, src |-> src, to |-> to]
Multicast == SocketAddr(KNX_MULTICAST_ADDR, KNX_PORT)
ServerSocket(s) == SocketAddr(Site[s].host, Site[s].bound.port)
Reaches(d, s) == d.to = ServerSocket(s) \/ (Site[s].routing /\ d.to = Multicast)
NoLink == [spec |-> <<"None">>, channel_id |-> 0]

-----------------------------------------------------------------------------
(* What the constants are.  The hosts have IPv4 addresses.                 *)
Unspecified == <<0, 0, 0, 0>>
Ipv4 == [1 .. 4 -> Octet]
Socket == [ip : Ipv4, port : Word]
Endpoint == [protocol : DOMAIN HostProtocol, ip : Ipv4, port : Word]

Description == [
    name : Seq(Nat), individual_address : Word, programming_mode : BOOLEAN,
    serial_number : [1 .. 6 -> Octet], mac_address : [1 .. 6 -> Octet],
    medium : DOMAIN KnxMedium, project_installation_identifier : Word]

\* A server is reached at one address: if it is bound to that one or finds
\* the one it sends from, then this is it.
ASSUME ServersAssumption ==
    /\ MayBecome \subseteq Description
    /\ \A s \in Server :
           /\ Site[s].host \in Ipv4 \ {Unspecified} /\ Site[s].own \in {<<>>, Site[s].host}
           /\ is_ipv4(Site[s].bound) => Site[s].bound.ip \in {Unspecified, Site[s].host}
           /\ Site[s].bound.port \in Word /\ Site[s].routing \in BOOLEAN
           /\ Site[s].description \in {<<>>} \cup {<<d>> : d \in MayBecome}

\* A client names its own socket, or leaves it to the server to see it.
ASSUME ClientsAssumption ==
    \A c \in Client : c.socket \in Socket /\ c.local \in {Unspecified, c.socket.ip}

\* What a parameter of an extended search asks of a server.
Asks(parameter, condition) ==
    CASE condition[1] = "ProgrammingMode" ->
           /\ srp_type_raw(parameter) = SrpType.SelectByProgrammingMode
           /\ srp_data(parameter) = <<>>
      [] condition[1] = "MacAddress" ->
           /\ srp_type_raw(parameter) = SrpType.SelectByMacAddress
           /\ srp_data(parameter) = condition[2]
      [] condition[1] = "Service" ->
           /\ srp_type_raw(parameter) = SrpType.SelectByService
           /\ srp_data(parameter) = <<condition[2], condition[3]>>
      [] OTHER -> FALSE

\* A parameter that asks for blocks of the description, and names them.
Names(parameter) ==
    srp_type_raw(parameter) = SrpType.RequestDibs /\ srp_data(parameter) # <<>>

\* The conditions of a query are what its mandatory parameters ask for.
Stated(q) ==
    LET parameters == parse_srps(q.srps)
        mandatory == {i \in DOMAIN parameters.ok : is_mandatory(parameters.ok[i])}
    IN  /\ IsOk(parameters)
        /\ \A c \in q.conditions : \E i \in mandatory : Asks(parameters.ok[i], c)
        /\ \A i \in mandatory : \/ Names(parameters.ok[i])
                               \/ \E c \in q.conditions : Asks(parameters.ok[i], c)

\* A query says what it means; it fits in a frame, over UDP; it names its own
\* socket, which nobody else has, or leaves it to the server.
ASSUME QueriesAssumption ==
    \A q \in Query :
        /\ q.srps \in Seq(Octet) /\ HEADER_LEN + HPAI_LEN + Len(q.srps) <= 65535
        /\ Stated(q)
        /\ q.endpoint.protocol = "Ipv4Udp"
        /\ q.endpoint \in Endpoint
        /\ q.socket \in Socket /\ q.endpoint.ip \in {Unspecified, q.socket.ip}
        /\ \/ q.endpoint.port = q.socket.port
           \/ q.endpoint.port = 0 /\ q.endpoint.ip = Unspecified
        /\ q.socket \notin {Multicast} \cup {ServerSocket(s) : s \in Server}
                              \cup {c.socket : c \in Client}
        /\ \A p \in Query : p.socket = q.socket => p = q

\* What is written has a group address and fits in a frame of the line; what
\* is read is what its datapoint type makes of its octets.
ASSUME TelegramsAssumption ==
    \A t \in Telegram :
        /\ t.ga \in Word \ {0}
        /\ t.service \in {"GroupValueRead", "GroupValueResponse", "GroupValueWrite"}
        /\ t.service # "GroupValueRead" /\ IsOk(encode(t.dpt, t.value)) =>
               LET octets == encode(t.dpt, t.value).ok
               IN  /\ octets \in Seq(Octet)
                   /\ HEADER_EXT + 2 + Len(octets) + CRC_LEN <= MAX_FRAME_LEN
                   /\ decode(t.dpt, octets) = Ok(t.read)

\* What the chip says between frames begins none.
ASSUME ChatterAssumption == \A octet \in Chatter : octet \in Octet /\ ~ is_frame_start(octet)

WireInit ==
    /\ stage = "Idle" /\ client \in Client /\ link = NoLink
    /\ description = [s \in Server |-> Site[s].description]
    /\ said = [s \in Server |-> {}] /\ net = {} /\ damaged = 0 /\ changes = 0 /\ found = <<>>
    /\ written = <<>> /\ pipe = <<>> /\ uart = <<>> /\ chatter = 0 /\ rx = Idle /\ heard = <<>>

-----------------------------------------------------------------------------
\* discover_on: one request to the multicast group.
discovery_hpai == Hpai("Ipv4Udp", client.local, client.socket.port)
Search ==
    /\ stage = "Idle" /\ stage' = "Searching"
    /\ net' = {Datagram(frame_to_bytes(search_request(discovery_hpai)).ok,
                        client.socket, Multicast)}
    /\ said' = [s \in Server |-> {description[s]}]
    /\ UNCHANGED <<client, description, damaged, changes, found, link, line_vars>>

\* Others search as well; each query is asked once.
Asked(q) == Datagram(frame_to_bytes(search_request_extended(q.endpoint, q.srps)).ok,
                     q.socket, Multicast)
Ask(q) ==
    /\ stage = "Searching" /\ \A p \in Query : Asked(p) \notin net
    /\ net' = net \cup {Asked(q)}
    /\ UNCHANGED <<stage, client, description, said, damaged, changes, found, link, line_vars>>

DescribeItself(s, d) ==
    LET answer == describe(Site[s], description[s], d.octets, d.src)
    IN  /\ stage = "Searching" /\ Reaches(d, s) /\ IsOk(answer)
        /\ net' = net \cup {Datagram(answer.ok.octets, ServerSocket(s), answer.ok.to)}
        /\ UNCHANGED <<stage, client, description, said, damaged, changes, found, link, line_vars>>

SetDescription(s, d) ==
    /\ stage \in {"Idle", "Searching"} /\ changes < MaxChanges /\ changes' = changes + 1
    /\ description' = [description EXCEPT ![s] = <<d>>]
    /\ said' = [said EXCEPT ![s] = IF stage = "Searching" THEN @ \cup {<<d>>} ELSE @]
    /\ UNCHANGED <<stage, client, net, damaged, found, link, line_vars>>

\* A datagram arrives cut off, or with an octet too many.
Damage(d) ==
    /\ stage = "Searching" /\ damaged < MaxDamage /\ damaged' = damaged + 1
    /\ \E octets \in {SubSeq(d.octets, 1, Len(d.octets) - 1), Append(d.octets, 0)} :
           net' = net \cup {[d EXCEPT !.octets = octets]}
    /\ UNCHANGED <<stage, client, description, said, changes, found, link, line_vars>>

CollectAnswer(d) ==
    LET gateway == parse_search_response(d.octets, d.src)
    IN  /\ stage = "Searching" /\ d.to = client.socket /\ Len(found) < MaxFound /\ IsOk(gateway)
        /\ found' = Append(found, gateway.ok)
        /\ UNCHANGED <<stage, client, description, said, net, damaged, changes, link, line_vars>>

\* The search ends: its socket is closed and late answers go nowhere.
Deadline ==
    /\ stage = "Searching" /\ stage' = "Searched" /\ net' = {}
    /\ UNCHANGED <<client, description, said, damaged, changes, found, link, line_vars>>

-----------------------------------------------------------------------------
\* The user connects to a gateway it found, or to the multicast group.
Connect(addr) ==
    LET spec == parse_url("udp", addr).ok
        hpai == Hpai("Ipv4Udp", client.socket.ip, client.socket.port)
    IN  /\ link' = [NoLink EXCEPT !.spec = spec]
        /\ stage' = IF spec[1] = "Tunnel" THEN "Connecting" ELSE "Connected"
        /\ net' = IF spec[1] = "Router" THEN {}
                  ELSE {Datagram(frame_to_bytes(connect_request(hpai, hpai, tunnel_cri)).ok,
                                 client.socket, addr)}
        /\ found' = <<>> /\ said' = [s \in Server |-> {}]
        /\ UNCHANGED <<client, description, damaged, changes, line_vars>>
ConnectToFound == stage = "Searched" /\ \E i \in DOMAIN found : Connect(found[i].address)
ConnectToGroup == stage = "Idle" /\ Connect(Multicast)

\* The server's part: which channel it gives is in DeviceServer.
Accept(s, d) ==
    LET frame == parse_frame(d.octets)
        wanted_link == parse_connect(frame.ok.body, d.src)
    IN  /\ stage = "Connecting" /\ d.to = ServerSocket(s)
        /\ IsOk(frame) /\ frame.ok.service_type = "ConnectRequest"
        /\ IsOk(wanted_link) /\ wanted_link.ok.conn_type # DEVICE_MGMT_CONNECTION
        /\ net' = net \cup {Datagram(
               frame_to_bytes(build_connect_response(1, E_NO_ERROR, TUNNEL_IA_BASE + 1,
                                                     Site[s].bound.port)).ok,
               ServerSocket(s), wanted_link.ok.ctrl_addr)}
        /\ UNCHANGED <<stage, client, description, said, damaged, changes, found, link, line_vars>>

\* do_connect: the socket hears only the gateway.
Connected(d) ==
    LET frame == parse_frame(d.octets)
    IN  /\ stage = "Connecting" /\ d.to = client.socket /\ d.src = link.spec[2]
        /\ IsOk(frame) /\ frame.ok.service_type = "ConnectResponse"
        /\ Len(frame.ok.body) >= 2 /\ frame.ok.body[2] = E_NO_ERROR
        /\ link' = [link EXCEPT !.channel_id = frame.ok.body[1]]
        /\ stage' = "Connected" /\ net' = {}
        /\ UNCHANGED <<client, description, said, damaged, changes, found, line_vars>>

-----------------------------------------------------------------------------
\* The frame of a telegram, and what carries it over IP.
built(t) ==
    IF t.service = "GroupValueRead" THEN build_group_read(t.ga)
    ELSE build_dpt_group_frame(t.ga, t.service, t.dpt, t.value)
carried(cemi) ==
    IF link.spec[1] = "Router" THEN routing_indication(cemi)
    ELSE tunneling_request(link.channel_id, Len(written) % 256, cemi)

Write(t) ==
    /\ stage = "Connected" /\ Len(written) < MaxWritten /\ IsOk(built(t))
    /\ written' = Append(written, t)
    /\ pipe' = Append(pipe, frame_to_bytes(carried(built(t).ok)).ok)
    /\ UNCHANGED <<stage, lookup, link, uart, chatter, rx, heard>>

\* The cEMI frame a KNXnet/IP frame carries.
cemi_of(octets) ==
    Then(parse_frame(octets), LAMBDA frame :
        CASE frame.service_type = "RoutingIndication" -> parse_cemi(frame.body)
          [] frame.service_type = "TunnelingRequest" ->
               Then(parse_header(frame.body), LAMBDA header :
                   parse_cemi(from(frame.body, CONNECTION_HEADER_LEN + 1)))
          [] OTHER -> Err("NoCemi"))

\* The chip puts every second octet the host sends on the line.
on_the_line(octets) == [i \in 1 .. Len(octets) \div 2 |-> octets[2 * i]]

\* The gateway's application puts each frame it gets on the line.
Forward ==
    LET frame == Then(cemi_of(Head(pipe)), LAMBDA cemi : from_cemi(cemi))
    IN  /\ pipe # <<>> /\ pipe' = Tail(pipe)
        /\ uart' = IF IsOk(frame) THEN uart \o on_the_line(transmit_frame(frame.ok)) ELSE uart
        /\ UNCHANGED <<stage, lookup, link, written, chatter, rx, heard>>

\* The chip says something of its own between frames.
Say(octet) ==
    /\ stage = "Connected" /\ chatter < MaxChatter /\ chatter' = chatter + 1
    /\ uart' = Append(uart, octet)
    /\ UNCHANGED <<stage, lookup, link, written, pipe, rx, heard>>

Poll ==
    LET step == process(rx, Head(uart))
    IN  /\ uart # <<>> /\ uart' = Tail(uart)
        /\ rx' = step.rx
        /\ heard' = IF step.indication # <<>> /\ step.indication[1] = "Frame"
                    THEN Append(heard, step.indication[2]) ELSE heard
        /\ UNCHANGED <<stage, lookup, link, written, pipe, chatter>>

WireNext ==
    \/ Search
    \/ \E q \in Query : Ask(q)
    \/ \E s \in Server, d \in net : DescribeItself(s, d) \/ Accept(s, d)
    \/ \E s \in Server, d \in MayBecome : SetDescription(s, d)
    \/ \E d \in net : Damage(d) \/ CollectAnswer(d) \/ Connected(d)
    \/ Deadline
    \/ ConnectToFound
    \/ ConnectToGroup
    \/ \E t \in Telegram : Write(t)
    \/ Forward
    \/ \E octet \in Chatter : Say(octet)
    \/ Poll

WireSpec == WireInit /\ [][WireNext]_wire_vars

-----------------------------------------------------------------------------
(* Every gateway a search finds is one of the servers, at an address where *)
(* it is reached, under the name and the individual address it had at some *)
(* time since the search began: not in its state before, and not mixed     *)
(* from two descriptions or read from a damaged datagram                   *)
(* (parse_search_response, DeviceDescription::dibs, control_endpoint).     *)
shown(name) ==
    LET kept == {n \in 0 .. 30 : n <= Len(name) /\ \A i \in 1 .. n : name[i] # 0}
    IN  [i \in 1 .. (CHOOSE n \in kept : \A m \in kept : m <= n) |->
            IF name[i] > 255 THEN 63 ELSE name[i]]
FoundAsDescribed ==
    \A i \in DOMAIN found : \E s \in Server, d \in MayBecome :
        /\ <<d>> \in said[s] /\ found[i].address = ServerSocket(s)
        /\ found[i].name = shown(d.name)
        /\ found[i].individual_address = d.individual_address

(* An extended search selects: what an answer itself says meets every      *)
(* condition of the query, whatever is set on the server meanwhile; and    *)
(* once a query is asked, a server that would say of itself what meets     *)
(* them all is not silent (answers_extended_search, SrpSequence, dibs).    *)
families_of(dib) ==
    {<<dib[2 * i + 1], dib[2 * i + 2]>> : i \in 1 .. (Len(dib) - 2) \div 2}
Meets(blocks, condition) ==
    LET info == device_information(get_raw(blocks, DibType.DeviceInformation)[1])
        supported == families_of(get_raw(blocks, DibType.SupportedServiceFamilies)[1])
    IN  CASE condition[1] = "ProgrammingMode" -> info.programming_mode
          [] condition[1] = "MacAddress" -> info.mac_address = condition[2]
          [] condition[1] = "Service" ->
               \E f \in supported : f[1] = condition[2] /\ f[2] >= condition[3]
          [] OTHER -> FALSE
AnswersMatch ==
    /\ \A d \in net, q \in Query :
           LET frame == parse_frame(d.octets)
           IN  d.to = q.socket /\ IsOk(frame) =>
                   LET blocks == parse_dibs(from(frame.ok.body, HPAI_LEN + 1))
                   IN  IsOk(blocks) /\ \A c \in q.conditions : Meets(blocks.ok, c)
    /\ \A q \in Query, s \in Server :
           /\ Asked(q) \in net /\ description[s] # <<>>
           /\ \A c \in q.conditions :
                  Meets(parse_dibs(dibs(description[s][1], Site[s].routing)).ok, c)
           => IsOk(describe(Site[s], description[s], Asked(q).octets, q.socket))

(* What is written is read on the line, in order and unchanged, whatever   *)
(* the chip says in between; and once nothing is under way all of it has   *)
(* been (GroupOps, CemiFrame, TpFrame::from_cemi, TpUartProtocol).         *)
Read(frame, t) ==
    LET unit == parse_tpdu(slice(frame, tp_header(frame) + 1, tp_apdu_size(frame) + 1),
                           tp_apdu_size(frame), TRUE, tp_destination_raw(frame))
    IN  /\ is_valid(frame) /\ tp_destination_raw(frame) = t.ga /\ IsOk(unit)
        /\ unit.ok.tpdu_type = "DataGroup" /\ unit.ok.apdu.apdu_type = t.service
        /\ t.service # "GroupValueRead" => decode(t.dpt, unit.ok.apdu.data) = Ok(t.read)
TelegramsArrive ==
    /\ Len(heard) <= Len(written)
    /\ \A i \in DOMAIN heard : Read(heard[i], written[i])
    /\ pipe = <<>> /\ uart = <<>> => Len(heard) = Len(written)

=============================================================================
