----------------------------- MODULE GroupObjects -----------------------------
(***************************************************************************)
(* The group objects of a device between its application and the bus:      *)
(* group_object.rs and the group services of bau.rs, with the link that    *)
(* sends the device's telegrams and confirms each of them (L_Data.con) in  *)
(* its own time.                                                           *)
(*                                                                         *)
(* The application, the bus and the link run in any order.  Confirmations  *)
(* name a group address and no object: several objects may send to one     *)
(* address, and one object may be written again before the confirmation    *)
(* of its previous telegram comes.                                         *)
(***************************************************************************)
EXTENDS RuntimeTables, Integers, FiniteSets

CONSTANTS
    Value,              \* values of an object
    Unset,              \* what an object holds at first (zeros in the code)
    Unencodable,        \* values its datapoint type cannot encode
    GroupAddress,
    address_table, association_table, group_object_table,
    MaxOnLink           \* bound: own telegrams on their way at any time, and
                        \* one response besides

Asap == DOMAIN group_object_table.entries

ASSUME GroupAssumption ==
    /\ Unencodable \subseteq Value /\ Unset \in Value /\ MaxOnLink \in Nat
    /\ Asap \subseteq Nat /\ IsFiniteSet(Asap)

ComFlag == {"Updated", "ReadRequest", "WriteRequest", "Transmitting", "Ok",
            "Error", "Uninitialized"}

VARIABLES
    comm_flag, data,    \* of every object
    is_configured,      \* all tables and the application are Loaded
    outbox,             \* telegrams of the device, oldest first
    on_link,            \* those the link has sent and not yet confirmed
    unsent              \* history: objects whose value the application wrote
                        \* last, with no telegram made of it so far

objects == <<comm_flag, data>>
vars == <<objects, is_configured, outbox, on_link, unsent>>

Init == /\ comm_flag = [a \in Asap |-> "Uninitialized"]
        /\ data = [a \in Asap |-> Unset]
        /\ is_configured = FALSE
        /\ outbox = <<>> /\ on_link = <<>>
        /\ unsent = {}

\* A telegram: a response, or what poll sends.
Telegram(is_response, ga) == [is_response |-> is_response, ga |-> ga]

Responses == Cardinality({i \in DOMAIN outbox : outbox[i].is_response})
             + Cardinality({i \in DOMAIN on_link : on_link[i].is_response})

\* The telegrams to an address among those waiting in `line`.
UnderWay(line, ga) == Cardinality({i \in DOMAIN line : line[i].ga = ga})

\* An iteration over the objects finds the lowest of a set first.
Lowest(S) == CHOOSE a \in S : \A b \in S : a <= b

-----------------------------------------------------------------------------
(* The application.                                                        *)

\* write_value, set_value and set_value_if_changed, which differ in when
\* they refuse; object_written after a change through value_mut.
Write(a, v) ==
    /\ data' = [data EXCEPT ![a] = v]
    /\ comm_flag' = [comm_flag EXCEPT ![a] = "WriteRequest"]
    /\ unsent' = unsent \cup {a}
    /\ UNCHANGED <<is_configured, outbox, on_link>>

write_value_no_send(a, v) ==
    /\ data' = [data EXCEPT ![a] = v]
    /\ comm_flag' = [comm_flag EXCEPT ![a] =
                       IF comm_flag[a] = "Uninitialized" THEN "Ok" ELSE comm_flag[a]]
    /\ unsent' = unsent \ {a}
    /\ UNCHANGED <<is_configured, outbox, on_link>>

RequestRead(S) ==
    /\ comm_flag' = [a \in Asap |-> IF a \in S THEN "ReadRequest" ELSE comm_flag[a]]
    /\ unsent' = unsent \ S
    /\ UNCHANGED <<data, is_configured, outbox, on_link>>

request_object_read(a) == RequestRead({a})

init_read_requests ==
    RequestRead({a \in Asap : \E d \in {get_descriptor(group_object_table, a)} :
                    d # <<>> /\ d[1].communication /\ d[1].read_on_init})

\* set_comm_flag(Ok) of an application that has seen the update.
Take(a) ==
    /\ comm_flag[a] = "Updated"
    /\ comm_flag' = [comm_flag EXCEPT ![a] = "Ok"]
    /\ UNCHANGED <<data, is_configured, outbox, on_link, unsent>>

-----------------------------------------------------------------------------
(* Telegrams from the bus: none of the three asks whether the device is    *)
(* configured.  An object without a descriptor is served.                  *)

associated(ga) ==
    LET tsap == get_tsap(address_table, ga)
    IN  IF tsap = <<>> THEN <<>> ELSE asaps_for_tsap(association_table, tsap[1])

Permits(a, flag) ==
    \A d \in {get_descriptor(group_object_table, a)} :
        d # <<>> => d[1].communication /\ d[1][flag]

\* GroupValueWrite (flag "write") and GroupValueResponse (flag "update").
UpdateFromBus(ga, v, flag) ==
    LET those == {a \in Asap : /\ \E i \in DOMAIN associated(ga) : associated(ga)[i] = a
                               /\ Permits(a, flag)}
    IN  /\ data' = [a \in Asap |-> IF a \in those THEN v ELSE data[a]]
        /\ comm_flag' = [a \in Asap |-> IF a \in those THEN "Updated" ELSE comm_flag[a]]
        /\ unsent' = unsent \ those
        /\ UNCHANGED <<is_configured, outbox, on_link>>

initialized(a) == comm_flag[a] # "Uninitialized"

\* The first association whose object may answer gives the answer; nothing
\* is sent if its value cannot be encoded.
handle_group_value_read(ga) ==
    LET those == associated(ga)
        answering == {i \in DOMAIN those : /\ those[i] \in Asap
                                          /\ Permits(those[i], "read")
                                          /\ initialized(those[i])}
    IN  /\ Responses = 0
        /\ answering # {} /\ data[those[Lowest(answering)]] \notin Unencodable
        /\ outbox' = Append(outbox, Telegram(TRUE, ga))
        /\ UNCHANGED <<objects, is_configured, on_link, unsent>>

-----------------------------------------------------------------------------
(* poll: every pending object, lowest first.                               *)

pending(a) == comm_flag[a] \in {"WriteRequest", "ReadRequest"}
Pending == {a \in Asap : pending(a)}

\* The members of a set of objects, lowest first: at i, the one that i of
\* them do not exceed.
Ascending(S) ==
    [i \in 1 .. Cardinality(S) |->
        CHOOSE a \in S : Cardinality({b \in S : b <= a}) = i]

resolve_group_address(a) ==
    LET tsap == translate_asap(association_table, a)
    IN  IF tsap = <<>> THEN <<>> ELSE get_group_address(address_table, tsap[1])

\* Whether poll can send what object a has pending.
sendable(a) == /\ resolve_group_address(a) # <<>>
               /\ comm_flag[a] = "WriteRequest" => data[a] \notin Unencodable

\* A plausible bug: objects with one address share a telegram.
requests_shared(those) ==
    IF those = <<>> THEN <<>> ELSE <<Telegram(FALSE, resolve_group_address(those[1])[1])>>

requests(those) ==
    [i \in DOMAIN those |-> Telegram(FALSE, resolve_group_address(those[i])[1])]

\* A plausible bug: an object that cannot be sent keeps its flag.
polled_flag_unless_unsendable(a) == IF sendable(a) THEN "Transmitting" ELSE comm_flag[a]

\* A plausible bug: an object that cannot be sent seems to be under way.
polled_flag_always(a) == "Transmitting"

polled_flag(a) == IF sendable(a) THEN "Transmitting" ELSE "Error"

poll ==
    /\ is_configured /\ Pending # {}
    /\ \E those \in {{a \in Pending : sendable(a)}} :
           /\ Len(outbox) + Len(on_link) - Responses + Cardinality(those) <= MaxOnLink
           /\ outbox' = outbox \o requests(Ascending(those))
    /\ comm_flag' = [a \in Asap |-> IF pending(a) THEN polled_flag(a) ELSE comm_flag[a]]
    /\ unsent' = {a \in unsent : ~ (comm_flag[a] = "WriteRequest" /\ polled_flag(a) = "Transmitting")}
    /\ UNCHANGED <<data, is_configured, on_link>>

-----------------------------------------------------------------------------
(* The link.                                                               *)

next_outgoing_frame ==
    /\ outbox # <<>>
    /\ outbox' = Tail(outbox) /\ on_link' = Append(on_link, Head(outbox))
    /\ UNCHANGED <<objects, is_configured, unsent>>

\* A plausible bug: the confirmation goes to the first object that sends to
\* the address, whatever it is doing.
confirmed_object_any(ga) == {a \in Asap : resolve_group_address(a) = <<ga>>}

\* The objects a confirmation may be for; it is given to the first.
confirmed_object(ga) ==
    {a \in Asap : comm_flag[a] = "Transmitting" /\ resolve_group_address(a) = <<ga>>}

handle_transmit_confirmation(success) ==
    /\ on_link # <<>>
    /\ on_link' = Tail(on_link)
    /\ \E those \in {confirmed_object(on_link[1].ga)} :
          comm_flag' = IF those = {} THEN comm_flag
                       ELSE [comm_flag EXCEPT ![Lowest(those)] = IF success THEN "Ok" ELSE "Error"]
    /\ UNCHANGED <<data, is_configured, outbox, unsent>>

\* The tool unloads or loads a table, or takes the device into use.
SetConfigured(c) ==
    /\ is_configured' = c
    /\ UNCHANGED <<objects, outbox, on_link, unsent>>

-----------------------------------------------------------------------------

Application == \E a \in Asap :
    \/ \E v \in Value : Write(a, v) \/ write_value_no_send(a, v)
    \/ request_object_read(a)
    \/ Take(a)

Bus == \E ga \in GroupAddress :
    \/ \E v \in Value, flag \in {"write", "update"} : UpdateFromBus(ga, v, flag)
    \/ handle_group_value_read(ga)

Link == next_outgoing_frame \/ \E success \in BOOLEAN : handle_transmit_confirmation(success)

Next == \/ Application \/ init_read_requests
        \/ Bus
        \/ poll
        \/ Link
        \/ \E c \in BOOLEAN : SetConfigured(c)

\* The host drains the outbox and the link confirms what it has sent.
Fairness == WF_vars(Link) /\ WF_vars(poll)

Spec == Init /\ [][Next]_vars
FairSpec == Spec /\ Fairness

-----------------------------------------------------------------------------
(* Properties.                                                             *)

\* A value the application wrote last is not forgotten: until a telegram is
\* made of it the object says that it waits or has failed, although the
\* confirmation of an earlier telegram, its own or that of another object at
\* the same address, may come in between.
WrittenIsSent == \A a \in unsent : comm_flag[a] \in {"WriteRequest", "Error"}

\* The device never waits for a confirmation that cannot come: for every
\* object that is transmitting there is a telegram to its address under way,
\* although objects share addresses and responses are confirmed too.
ConfirmationsSuffice ==
    \A ga \in GroupAddress :
        Cardinality({a \in Asap : comm_flag[a] = "Transmitting"
                                  /\ resolve_group_address(a) = <<ga>>}) <=
            UnderWay(outbox, ga) + UnderWay(on_link, ga)

\* An object does not stay in Transmitting, unless objects before it keep
\* sending to the same address and take its confirmations away.
TransmissionsSettle ==
    \A a \in Asap :
        \/ []<>(comm_flag[a] # "Transmitting")
        \/ []<>(\E b \in 1 .. a - 1 : pending(b) /\ resolve_group_address(b) =
                                                     resolve_group_address(a))

\* While a device stays in use no order of the application stays pending: an
\* object that cannot be sent is given up, and no object hides a later one.
OrdersAreServed ==
    \A a \in Asap : (pending(a) /\ is_configured) ~> (~ pending(a) \/ ~ is_configured)

=============================================================================
