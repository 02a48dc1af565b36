--------------------------------- MODULE MCWire ---------------------------------
EXTENDS Wire, CodecFacts

Near == <<10, 0, 0, 1>>
Far == <<10, 0, 0, 2>>
Here == <<10, 0, 0, 9>>

Described(name, raw, programming, mac) == [
    name |-> name, individual_address |-> raw, programming_mode |-> programming,
    serial_number |-> <<0, 250, 1, 2, 3, 4>>, mac_address |-> mac, medium |-> "Ip",
    project_installation_identifier |-> 0]

\* A name with a character that has no octet, and one that is too long.
Euro == 8364
Gate == Described(<<71, Euro, 228>>, \h1101, FALSE, <<2, 0, 0, 0, 0, 1>>)
Gate2 == Described([i \in 1 .. 33 |-> 64 + i], \h1203, TRUE, <<2, 0, 0, 0, 0, 1>>)
Other == Described(<<66>>, \h1105, TRUE, <<2, 0, 0, 0, 0, 2>>)

\* Both servers are bound to all interfaces and the multicast group; one finds
\* the address it sends from, the other one does not.
MCServer == {"near", "far"}
MCSite == [
    near |-> [host |-> Near, bound |-> SocketAddr(<<0, 0, 0, 0>>, KNX_PORT), own |-> Near,
              routing |-> TRUE, description |-> <<Gate>>],
    far |-> [host |-> Far, bound |-> SocketAddr(<<0, 0, 0, 0>>, KNX_PORT), own |-> <<>>,
             routing |-> TRUE, description |-> <<>>]]
MCMayBecome == {Gate, Gate2, Other}

MCClient == {[socket |-> SocketAddr(Here, 50000), local |-> l] : l \in {<<0, 0, 0, 0>>, Here}}

Asking(port, srps, conditions) == [
    socket |-> SocketAddr(Here, port), endpoint |-> nat_udp(0), srps |-> srps,
    conditions |-> conditions]
MCQuery == {
    Asking(50001, programming_mode_srp \o request_dibs_srp(<<"DeviceInformation">>),
           {<<"ProgrammingMode">>}),
    Asking(50002, mac_address_srp(Gate.mac_address) \o service_srp("Routing", 1)
                  \o srp("SelectByProgrammingMode", FALSE, <<>>)
                  \o srp("RequestDibs", TRUE,
                         <<DibType.DeviceInformation, DibType.SupportedServiceFamilies>>),
           {<<"MacAddress", Gate.mac_address>>, <<"Service", ServiceFamily.Routing, 1>>}),
    Asking(50003, service_srp("Core", 2), {<<"Service", ServiceFamily.Core, 2>>})}

Telegram_(ga, service, group, minor, value, read) == [
    ga |-> ga, service |-> service, dpt |-> Dpt(group, minor), value |-> value, read |-> read]
Writes(ga, group, minor, value, read) ==
    Telegram_(ga, "GroupValueWrite", group, minor, value, read)
Characters == [i \in 1 .. 14 |-> 64 + i]
MCTelegram == {
    Writes(\h0901, 1, 1, Bool(TRUE), Bool(TRUE)),
    Writes(\h0902, 5, 10, UInt(3), UInt(3)),
    Telegram_(\h0903, "GroupValueResponse", 9, 1, Float(-1, 2), Float(-50, 100)),
    Writes(\hFFFF, 16, 1, Text(Characters), Text(Characters)),
    Writes(\h0904, 270, 1, Raw([i \in 1 .. 20 |-> 3]), Raw([i \in 1 .. 20 |-> 3])),
    Telegram_(\h0901, "GroupValueRead", 1, 1, Bool(TRUE), Bool(TRUE))}

\* A reset, a state, and a confirmation.
MCChatter == {U_RESET_IND, \h17, \h8B}

=============================================================================
