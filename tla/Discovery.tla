------------------------------- MODULE Discovery -------------------------------
(***************************************************************************)
(* How a device server describes itself and accepts a connection, and what *)
(* a client makes of it (knx-rs-ip/src: tunnel_server.rs, discovery.rs,    *)
(* url.rs).  A socket address is an IP address and a port; an IPv6 address *)
(* has sixteen octets.                                                     *)
(***************************************************************************)
EXTENDS KnxIp, Descriptions

KNX_PORT == 3671
KNX_MULTICAST_ADDR == <<224, 0, 23, 12>>

SocketAddr(ip, port) == [ip |-> ip, port |-> port]
is_ipv4(addr) == Len(addr.ip) = 4
is_multicast(ip) == IF Len(ip) = 4 THEN ip[1] \in 224 .. 239 ELSE ip[1] = 255

socket_addr_with_port(src, port) == SocketAddr(src.ip, IF port = 0 THEN src.port ELSE port)

\* A plausible bug: the address is taken as it stands, even in NAT mode.
hpai_as_it_stands(hpai, src) == SocketAddr(hpai.ip, hpai.port)

\* In NAT mode the sender of a datagram is who is meant.
hpai_to_socket_addr(hpai, src) ==
    IF is_unspecified(hpai) THEN socket_addr_with_port(src, hpai.port)
    ELSE SocketAddr(hpai.ip, hpai.port)

-----------------------------------------------------------------------------
\* DeviceDescription.
families(routing) ==
    <<<<"Core", 1>>, <<"Tunneling", 1>>>> \o IF routing THEN <<<<"Routing", 1>>>> ELSE <<>>

dibs(description, routing) ==
    device_information_to_bytes([
        medium |-> description.medium, programming_mode |-> description.programming_mode,
        individual_address |-> description.individual_address,
        project_installation_identifier |-> description.project_installation_identifier,
        serial_number |-> description.serial_number,
        routing_multicast_address |-> IF routing THEN KNX_MULTICAST_ADDR ELSE zeroes(4),
        mac_address |-> description.mac_address, friendly_name |-> description.name])
    \o supported_service_families_dib(families(routing))

\* A plausible bug: any version of a service family will do.
satisfied_by_family(description, parameter, routing) ==
    LET data == srp_data(parameter)
    IN  CASE srp_type_raw(parameter) = SrpType.SelectByProgrammingMode ->
               data = <<>> /\ description.programming_mode
          [] srp_type_raw(parameter) = SrpType.SelectByMacAddress ->
               data = description.mac_address
          [] srp_type_raw(parameter) = SrpType.SelectByService ->
               \E i \in DOMAIN families(routing) :
                   ServiceFamily[families(routing)[i][1]] = data[1]
          [] OTHER -> srp_type_raw(parameter) = SrpType.RequestDibs

\* Whether a parameter is understood and met.
satisfied(description, parameter, routing) ==
    LET data == srp_data(parameter)
    IN  CASE srp_type_raw(parameter) = SrpType.SelectByProgrammingMode ->
               data = <<>> /\ description.programming_mode
          [] srp_type_raw(parameter) = SrpType.SelectByMacAddress ->
               data = description.mac_address
          [] srp_type_raw(parameter) = SrpType.SelectByService ->
               /\ Len(data) = 2
               /\ \E i \in DOMAIN families(routing) :
                      /\ ServiceFamily[families(routing)[i][1]] = data[1]
                      /\ families(routing)[i][2] >= data[2]
          [] srp_type_raw(parameter) = SrpType.RequestDibs -> data # <<>>
          [] OTHER -> FALSE

answers_extended_search(description, srps, routing) ==
    LET parameters == parse_srps(srps)
    IN  /\ IsOk(parameters)
        /\ \A i \in DOMAIN parameters.ok :
               is_mandatory(parameters.ok[i])
                   => satisfied(description, parameters.ok[i], routing)

-----------------------------------------------------------------------------
\* The server at its socket: bound is where it is bound, own the address the
\* system sends from (source_address_towards; <<>> if it finds none).
reply_endpoint(body, src) ==
    Then(parse_hpai(body), LAMBDA hpai :
        IF hpai.protocol = "Ipv4Udp" THEN Ok(hpai_to_socket_addr(hpai, src))
        ELSE Err("NotUdp"))

control_endpoint(bound, own, requester) ==
    LET named == is_ipv4(bound) /\ bound.ip # <<0, 0, 0, 0>>
        ip == IF named THEN bound.ip ELSE own
    IN  IF ~ is_ipv4(requester) \/ ip = <<>> THEN nat_udp(bound.port)
        ELSE Hpai("Ipv4Udp", ip, bound.port)

\* The answer to a request about the server, and where it goes; Err if there
\* is none.
Answer(frame, to) == [octets |-> frame_to_bytes(frame).ok, to |-> to]

handle_search(server, description, frame, src) ==
    Then(reply_endpoint(frame.body, src), LAMBDA to :
        Ok(Answer(search_response(control_endpoint(server.bound, server.own, src),
                                  dibs(description, server.routing)), to)))

handle_search_extended(server, description, frame, src) ==
    Then(reply_endpoint(frame.body, src), LAMBDA to :
        IF ~ answers_extended_search(description, from(frame.body, HPAI_LEN + 1),
                                     server.routing)
        THEN Err("Excluded")
        ELSE Ok(Answer(search_response_extended(
                           control_endpoint(server.bound, server.own, src),
                           dibs(description, server.routing)), to)))

handle_description(server, description, frame, src) ==
    Then(reply_endpoint(frame.body, src), LAMBDA to :
        Ok(Answer(description_response(dibs(description, server.routing)), to)))

\* A server may have no description (<<>>); it then answers nothing.
describe(server, description, octets, src) ==
    Then(parse_frame(octets), LAMBDA frame :
        CASE description = <<>> -> Err("NoDescription")
          [] description # <<>> /\ frame.service_type = "SearchRequest" ->
               handle_search(server, description[1], frame, src)
          [] description # <<>> /\ frame.service_type = "SearchRequestExtended" ->
               handle_search_extended(server, description[1], frame, src)
          [] description # <<>> /\ frame.service_type = "DescriptionRequest" ->
               handle_description(server, description[1], frame, src)
          [] OTHER -> Err("NotAboutTheServer"))

-----------------------------------------------------------------------------
\* What a connect request asks for: the endpoints and the type of connection.
\* The length of the connection request information is not looked at.
parse_connect(body, src) ==
    IF Len(body) < 2 * HPAI_LEN + CRI_CRD_LEN THEN Err("TooShort")
    ELSE Then(parse_hpai(body), LAMBDA ctrl :
             Then(parse_hpai(from(body, HPAI_LEN + 1)), LAMBDA data :
                 Ok([ctrl_addr |-> hpai_to_socket_addr(ctrl, src),
                     data_addr |-> hpai_to_socket_addr(data, src),
                     conn_type |-> body[2 * HPAI_LEN + 2]])))

build_connect_response(channel_id, status, raw, port) ==
    Frame("ConnectResponse", <<channel_id, status>> \o hpai_to_bytes(nat_udp(port))
                             \o tunnel_crd(raw))

-----------------------------------------------------------------------------
\* The client: what a search response says of a gateway.
GatewayInfo(address, name, raw) ==
    [address |-> address, name |-> name, individual_address |-> raw]

parse_search_response(octets, src) ==
    Then(parse_frame(octets), LAMBDA frame :
        IF frame.service_type # "SearchResponse" THEN Err("NotASearchResponse")
        ELSE Then(parse_hpai(frame.body), LAMBDA hpai :
             Then(parse_dibs(from(frame.body, HPAI_LEN + 1)), LAMBDA found :
             LET about == get_raw(found, DibType.DeviceInformation)
                 supported == get_raw(found, DibType.SupportedServiceFamilies)
             IN  IF about = <<>> THEN Err("MissingDeviceInformation")
                 ELSE Then(parse_device_information(about[1]), LAMBDA d :
                      IF supported = <<>> THEN Err("MissingSupportedServiceFamilies")
                      ELSE Ok(GatewayInfo(hpai_to_socket_addr(hpai, src), friendly_name(d),
                                          device_information(d).individual_address))))))

\* An address to connect to, from a scheme and the socket address behind it.
parse_url(scheme, addr) ==
    CASE scheme = "tunnel" -> Ok(<<"Tunnel", addr>>)
      [] scheme = "router" -> Ok(<<"Router", addr>>)
      [] scheme = "udp" -> Ok(<<IF is_multicast(addr.ip) THEN "Router" ELSE "Tunnel", addr>>)
      [] OTHER -> Err("InvalidUrl")

=============================================================================
