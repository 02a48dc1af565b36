----------------------------- MODULE Descriptions -----------------------------
(***************************************************************************)
(* Description information blocks and search request parameters            *)
(* (knx-rs-core/src/knxip: dib.rs, srp.rs): sequences of structures, each  *)
(* of which begins with its length and its type.                           *)
(***************************************************************************)
EXTENDS Octets, Naturals, Sequences, FiniteSets

STRUCTURE_HEADER_LEN == 2

\* The structures of a sequence up to the first that is malformed, and what
\* is wrong with that one ("" if all are well-formed).
structures(octets, Defect(_, _)) ==
    LET following[at \in 1 .. Len(octets) + 1] ==
            IF at > Len(octets) THEN [found |-> <<>>, defect |-> ""]
            ELSE IF Defect(octets, at) # "" THEN [found |-> <<>>, defect |-> Defect(octets, at)]
            ELSE [following[at + octets[at]] EXCEPT !.found =
                     <<slice(octets, at, octets[at])>> \o @]
    IN  following[1]

dib_defect(octets, at) ==
    LET remaining == Len(octets) - at + 1
    IN  CASE remaining < STRUCTURE_HEADER_LEN -> "TruncatedHeader"
          [] octets[at] < STRUCTURE_HEADER_LEN -> "InvalidStructureLength"
          [] octets[at] % 2 # 0 /\ octets[at] >= STRUCTURE_HEADER_LEN
                 /\ remaining >= STRUCTURE_HEADER_LEN -> "OddStructureLength"
          [] octets[at] > remaining -> "TruncatedStructure"
          [] OTHER -> ""

srp_defect(octets, at) ==
    LET remaining == Len(octets) - at + 1
    IN  CASE remaining < STRUCTURE_HEADER_LEN -> "TooShort"
          [] octets[at] < STRUCTURE_HEADER_LEN -> "LengthBelowHeader"
          [] octets[at] > remaining -> "LengthExceedsData"
          [] OTHER -> ""

-----------------------------------------------------------------------------
DibType == [
    DeviceInformation |-> 1, SupportedServiceFamilies |-> 2, IpConfiguration |-> 3,
    IpCurrentConfiguration |-> 4, KnxAddresses |-> 5, SecuredServiceFamilies |-> 6,
    TunnelingInformation |-> 7, ExtendedDeviceInformation |-> 8, ManufacturerData |-> \hFE]

KnxMedium == [Tp1 |-> 2, Pl110 |-> 4, RadioFrequency |-> \h10, Ip |-> \h20]

ServiceFamily == [
    Core |-> 2, DeviceManagement |-> 3, Tunneling |-> 4, Routing |-> 5,
    RemoteLogging |-> 6, RemoteConfiguration |-> 7, ObjectServer |-> 8]

description_type_raw(dib) == dib[2]

\* DibSequence::parse stops at what comes first: a repeated type or a defect.
parse_dibs(octets) ==
    LET read == structures(octets, dib_defect)
        types == {description_type_raw(read.found[i]) : i \in DOMAIN read.found}
    IN  CASE Cardinality(types) < Len(read.found) -> Err("DuplicateDescriptionType")
          [] Cardinality(types) = Len(read.found) /\ read.defect # "" -> Err(read.defect)
          [] OTHER -> Ok(read.found)

\* The first block of a type; <<>> if there is none.
get_raw(dibs, type_code) ==
    LET at == {i \in DOMAIN dibs : description_type_raw(dibs[i]) = type_code}
    IN  IF at = {} THEN <<>> ELSE <<dibs[CHOOSE i \in at : \A j \in at : i <= j]>>

\* The fields of the device information and where they begin.
DeviceInformationAt == [
    knx_medium |-> 3, device_status |-> 4, individual_address |-> 5,
    project_installation_identifier |-> 7, serial_number |-> 9,
    routing_multicast_address |-> 15, mac_address |-> 19, friendly_name |-> 25]
FRIENDLY_NAME_LEN == 30
DEVICE_INFORMATION_LEN == 54

parse_device_information(dib) ==
    CASE description_type_raw(dib) # DibType.DeviceInformation -> Err("UnexpectedDescriptionType")
      [] description_type_raw(dib) = DibType.DeviceInformation ->
           IF Len(dib) # DEVICE_INFORMATION_LEN THEN Err("InvalidDeviceInformationLength")
           ELSE Ok(dib)

\* None if the sequence holds no device information.
find_device_information(octets) ==
    Then(parse_dibs(octets), LAMBDA dibs :
        LET found == get_raw(dibs, DibType.DeviceInformation)
        IN  IF found = <<>> THEN Ok(<<>>)
            ELSE Then(parse_device_information(found[1]), LAMBDA d : Ok(<<d>>)))

is_programming_mode(dib) == dib[DeviceInformationAt.device_status] % 2 = 1
project_number(dib) == u16(dib, DeviceInformationAt.project_installation_identifier) \div 16
installation_number(dib) == dib[DeviceInformationAt.project_installation_identifier + 1] % 16

\* The name ends at the first zero; its octets are ISO 8859-1 characters.
friendly_name(dib) ==
    LET octets == slice(dib, DeviceInformationAt.friendly_name, FRIENDLY_NAME_LEN)
        ends == {i \in DOMAIN octets : octets[i] = 0}
    IN  IF ends = {} THEN octets
        ELSE SubSeq(octets, 1, (CHOOSE i \in ends : \A j \in ends : i <= j) - 1)

device_information(dib) == [
    medium |-> {m \in DOMAIN KnxMedium : KnxMedium[m] = dib[DeviceInformationAt.knx_medium]},
    programming_mode |-> is_programming_mode(dib),
    individual_address |-> u16(dib, DeviceInformationAt.individual_address),
    project_installation_identifier |->
        u16(dib, DeviceInformationAt.project_installation_identifier),
    serial_number |-> slice(dib, DeviceInformationAt.serial_number, 6),
    routing_multicast_address |-> slice(dib, DeviceInformationAt.routing_multicast_address, 4),
    mac_address |-> slice(dib, DeviceInformationAt.mac_address, 6),
    friendly_name |-> friendly_name(dib)]

\* Characters without an octet in ISO 8859-1 become a question mark, and what
\* does not fit is cut off.
latin1(character) == IF character \in Octet THEN character ELSE 63

device_information_to_bytes(info) ==
    LET name == SubSeq(info.friendly_name, 1,
                       IF Len(info.friendly_name) < FRIENDLY_NAME_LEN
                       THEN Len(info.friendly_name) ELSE FRIENDLY_NAME_LEN)
    IN  <<DEVICE_INFORMATION_LEN, DibType.DeviceInformation>>
        \o <<KnxMedium[info.medium], IF info.programming_mode THEN 1 ELSE 0>>
        \o be(info.individual_address, 2) \o be(info.project_installation_identifier, 2)
        \o info.serial_number \o info.routing_multicast_address \o info.mac_address
        \o [i \in DOMAIN name |-> latin1(name[i])] \o zeroes(FRIENDLY_NAME_LEN - Len(name))

MAX_SERVICE_FAMILIES == (255 - STRUCTURE_HEADER_LEN) \div 2

\* families: pairs of a family and its version.
supported_service_families_dib(families) ==
    LET kept == SubSeq(families, 1, IF Len(families) < MAX_SERVICE_FAMILIES
                                    THEN Len(families) ELSE MAX_SERVICE_FAMILIES)
    IN  <<STRUCTURE_HEADER_LEN + 2 * Len(kept), DibType.SupportedServiceFamilies>>
        \o [i \in 1 .. 2 * Len(kept) |->
               LET entry == kept[(i + 1) \div 2]
               IN  IF i % 2 = 1 THEN ServiceFamily[entry[1]] ELSE entry[2]]

-----------------------------------------------------------------------------
SrpType == [
    Invalid |-> 0, SelectByProgrammingMode |-> 1, SelectByMacAddress |-> 2,
    SelectByService |-> 3, RequestDibs |-> 4]

MANDATORY_FLAG == 128
is_mandatory(srp) == srp[2] >= MANDATORY_FLAG
srp_type_raw(srp) == srp[2] % MANDATORY_FLAG
srp_data(srp) == from(srp, STRUCTURE_HEADER_LEN + 1)

parse_srps(octets) ==
    LET read == structures(octets, srp_defect)
    IN  IF read.defect = "" THEN Ok(read.found) ELSE Err(read.defect)

srp(type, mandatory, data) ==
    <<STRUCTURE_HEADER_LEN + Len(data), SrpType[type] + (IF mandatory THEN MANDATORY_FLAG ELSE 0)>>
    \o data

programming_mode_srp == srp("SelectByProgrammingMode", TRUE, <<>>)
mac_address_srp(mac) == srp("SelectByMacAddress", TRUE, mac)
service_srp(family, minimum_version) ==
    srp("SelectByService", TRUE, <<ServiceFamily[family], minimum_version>>)

\* At most 252 types, filled up to an even number; none when none is asked for.
request_dibs_srp(types) ==
    LET kept == SubSeq(types, 1, IF Len(types) < 252 THEN Len(types) ELSE 252)
        codes == [i \in DOMAIN kept |-> DibType[kept[i]]]
    IN  IF types = <<>> THEN <<>>
        ELSE srp("RequestDibs", FALSE, codes \o zeroes(Len(codes) % 2))

=============================================================================
