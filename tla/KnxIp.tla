-------------------------------- MODULE KnxIp --------------------------------
(***************************************************************************)
(* KNXnet/IP frames (knx-rs-core/src/knxip.rs): a header with the service  *)
(* and the length of the whole, and a body.                                *)
(***************************************************************************)
EXTENDS Octets, Naturals, Sequences

HEADER_LEN == 6
PROTOCOL_VERSION_10 == \h10

ServiceType == [
    SearchRequest |-> \h0201, SearchResponse |-> \h0202,
    DescriptionRequest |-> \h0203, DescriptionResponse |-> \h0204,
    ConnectRequest |-> \h0205, ConnectResponse |-> \h0206,
    ConnectionStateRequest |-> \h0207, ConnectionStateResponse |-> \h0208,
    DisconnectRequest |-> \h0209, DisconnectResponse |-> \h020A,
    SearchRequestExtended |-> \h020B, SearchResponseExtended |-> \h020C,
    DeviceConfigurationRequest |-> \h0310, DeviceConfigurationAck |-> \h0311,
    TunnelingRequest |-> \h0420, TunnelingAck |-> \h0421,
    RoutingIndication |-> \h0530, RoutingLostMessage |-> \h0531, RoutingBusy |-> \h0532]

service_types(raw) == {s \in DOMAIN ServiceType : ServiceType[s] = raw}

Frame(service_type, body) == [service_type |-> service_type, body |-> body]

\* Every octet counts: a datagram with more or less than the header says is
\* not a frame.
parse_frame(octets) ==
    CASE Len(octets) < HEADER_LEN -> Err("TooShort")
      [] Len(octets) >= HEADER_LEN ->
           CASE octets[1] # HEADER_LEN -> Err("InvalidHeaderLength")
             [] octets[1] = HEADER_LEN /\ octets[2] # PROTOCOL_VERSION_10 ->
                  Err("InvalidProtocolVersion")
             [] OTHER ->
                  IF Len(octets) # u16(octets, 5) THEN Err("LengthMismatch")
                  ELSE IF service_types(u16(octets, 3)) = {} THEN Err("UnknownServiceType")
                  ELSE Ok(Frame(CHOOSE s \in service_types(u16(octets, 3)) : TRUE,
                                from(octets, HEADER_LEN + 1)))

frame_to_bytes(frame) ==
    LET total == HEADER_LEN + Len(frame.body)
    IN  IF total > 65535 THEN Err("FrameTooLong")
        ELSE Ok(<<HEADER_LEN, PROTOCOL_VERSION_10>> \o be(ServiceType[frame.service_type], 2)
                \o be(total, 2) \o frame.body)

-----------------------------------------------------------------------------
HostProtocol == [Ipv4Udp |-> 1, Ipv4Tcp |-> 2]
Hpai(protocol, ip, port) == [protocol |-> protocol, ip |-> ip, port |-> port]
nat_udp(port) == Hpai("Ipv4Udp", <<0, 0, 0, 0>>, port)
is_unspecified(hpai) == hpai.ip = <<0, 0, 0, 0>>

HPAI_LEN == 8
hpai_to_bytes(hpai) ==
    <<HPAI_LEN, HostProtocol[hpai.protocol]>> \o hpai.ip \o be(hpai.port, 2)

\* What follows the structure is not looked at.
parse_hpai(octets) ==
    IF Len(octets) < HPAI_LEN THEN Err("NoHpai")
    ELSE LET protocols == {p \in DOMAIN HostProtocol : HostProtocol[p] = octets[2]}
         IN  IF octets[1] # HPAI_LEN \/ protocols = {} THEN Err("NoHpai")
             ELSE Ok(Hpai(CHOOSE p \in protocols : TRUE, slice(octets, 3, 4), u16(octets, 7)))

CONNECTION_HEADER_LEN == 4
ConnectionHeader(channel_id, seq, status) ==
    [channel_id |-> channel_id, sequence_counter |-> seq, status |-> status]

header_to_bytes(h) ==
    <<CONNECTION_HEADER_LEN, h.channel_id, h.sequence_counter, h.status>>

\* The length octet of the header is not looked at.
parse_header(octets) ==
    IF Len(octets) < CONNECTION_HEADER_LEN THEN Err("NoHeader")
    ELSE Ok(ConnectionHeader(octets[2], octets[3], octets[4]))

-----------------------------------------------------------------------------
E_NO_ERROR == 0
E_CONNECTION_ID == \h21
E_CONNECTION_TYPE == \h22
E_NO_MORE_CONNECTIONS == \h24

CRI_CRD_LEN == 4
TUNNEL_CONNECTION == 4
DEVICE_MGMT_CONNECTION == 3
TUNNEL_LINKLAYER == 2
TUNNEL_IA_BASE == \hFF00
tunnel_cri == <<CRI_CRD_LEN, TUNNEL_CONNECTION, TUNNEL_LINKLAYER, 0>>
tunnel_crd(raw) == <<CRI_CRD_LEN, TUNNEL_CONNECTION>> \o be(raw, 2)

routing_indication(cemi) == Frame("RoutingIndication", cemi)
tunneling_request(channel_id, seq, cemi) ==
    Frame("TunnelingRequest",
          header_to_bytes(ConnectionHeader(channel_id, seq, E_NO_ERROR)) \o cemi)
tunneling_ack(channel_id, seq, status) ==
    Frame("TunnelingAck", header_to_bytes(ConnectionHeader(channel_id, seq, status)))

connection_management_body(channel_id, control) ==
    <<channel_id, 0>> \o hpai_to_bytes(control)
connection_state_request(channel_id, control) ==
    Frame("ConnectionStateRequest", connection_management_body(channel_id, control))
disconnect_request(channel_id, control) ==
    Frame("DisconnectRequest", connection_management_body(channel_id, control))

search_request(discovery) == Frame("SearchRequest", hpai_to_bytes(discovery))
search_request_extended(discovery, srps) ==
    Frame("SearchRequestExtended", hpai_to_bytes(discovery) \o srps)
search_response(control, dibs) == Frame("SearchResponse", hpai_to_bytes(control) \o dibs)
search_response_extended(control, dibs) ==
    [search_response(control, dibs) EXCEPT !.service_type = "SearchResponseExtended"]
description_request(control) == Frame("DescriptionRequest", hpai_to_bytes(control))
description_response(dibs) == Frame("DescriptionResponse", dibs)
connect_request(control, data, cri) ==
    Frame("ConnectRequest", hpai_to_bytes(control) \o hpai_to_bytes(data) \o cri)

=============================================================================
