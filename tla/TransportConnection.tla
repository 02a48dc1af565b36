------------------------- MODULE TransportConnection -------------------------
(***************************************************************************)
(* Two transport layers of knx-rs-device connected by a bus that loses and *)
(* repeats frames but keeps their order: the client opens connections and  *)
(* sends numbered payloads, the server receives them.  Each side runs the  *)
(* operators of TransportLayer; the frames a call produced are put on the  *)
(* bus in the same step (Bau.drain_transport_actions).                     *)
(*                                                                         *)
(* The client's application offers the next payload only while nothing is  *)
(* outstanding (state OpenIdle); what happens to a request made earlier is *)
(* the subject of BauConnection.                                           *)
(***************************************************************************)
EXTENDS TransportLayer

CONSTANTS
    Client, Server,     \* the two individual addresses
    MaxPayload,         \* bound: payloads offered in a behaviour
    MaxOnBus            \* bound: frames on their way in one direction

ASSUME ConnectionAssumption ==
    /\ {Client, Server} \subseteq Address
    /\ MaxPayload \in Nat
    /\ Apdu = 1 .. MaxPayload

VARIABLES
    client, server,     \* the two transport layers
    toServer, toClient, \* frames on the bus
    patient,            \* whether the client reconnects only after the server's
                        \* connection timeout has ended the old connection
    offered, confirmed, delivered   \* what the two applications saw

ends == <<client, server>>
bus == <<toServer, toClient>>
seen == <<offered, confirmed, delivered>>
vars == <<ends, bus, patient, seen>>

IsFrame(a) == a.type \in {"SendControl", "SendDataConnected"}

\* A call makes at most one frame and at most one DataConnectedIndication.
Frames(actions) == {actions[i] : i \in {j \in DOMAIN actions : IsFrame(actions[j])}}

Indicated(actions) ==
    {actions[i].apdu : i \in {j \in DOMAIN actions :
                                 actions[j].type = "DataConnectedIndication"}}

\* The frame of a call goes on the bus; what does not fit is lost.
Sent(channel, actions) ==
    IF Frames(actions) = {} \/ Len(channel) >= MaxOnBus THEN channel
    ELSE Append(channel, CHOOSE f \in Frames(actions) : TRUE)

Confirms(actions) == \E i \in DOMAIN actions : actions[i] = DataConnectedConfirm

ClientCalls(after) ==
    /\ client' = take_actions(after)
    /\ toServer' = Sent(toServer, after.actions)
    /\ confirmed' = IF Confirms(after.actions)
                    THEN confirmed \cup {client.saved_frame.apdu} ELSE confirmed
    /\ UNCHANGED <<server, patient, delivered>>

ServerCalls(after) ==
    /\ server' = take_actions(after)
    /\ toClient' = Sent(toClient, after.actions)
    /\ delivered' = IF Indicated(after.actions) = {} THEN delivered
                    ELSE Append(delivered, CHOOSE p \in Indicated(after.actions) : TRUE)
    /\ UNCHANGED <<client, patient, offered, confirmed>>

\* A frame from the bus is handed to the transport layer it is addressed to
\* (Bau.process_control_tpdu, process_data_tpdu).
Receive(t, source, f) ==
    CASE f.type = "SendDataConnected" ->
            data_connected_indication(t, source, f.seq_no, f.apdu)
      [] f.type = "SendControl" /\ f.tpdu_type = "Connect" ->
            connect_indication(t, source)
      [] f.type = "SendControl" /\ f.tpdu_type = "Disconnect" ->
            disconnect_indication(t, source)
      [] f.type = "SendControl" /\ f.tpdu_type = "Ack" ->
            ack_indication(t, source, f.seq_no)
      [] OTHER -> nack_indication(t, source, f.seq_no)

-----------------------------------------------------------------------------
Init == /\ client = new /\ server = new
        /\ toServer = <<>> /\ toClient = <<>>
        /\ patient \in BOOLEAN
        /\ offered = 0 /\ confirmed = {} /\ delivered = <<>>

\* The bus delivers the oldest frame; repeating it leaves it on the bus.
Remaining(channel) == {channel, Tail(channel)}

ServerReceives ==
    /\ toServer # <<>>
    /\ ServerCalls(Receive(server, Client, Head(toServer)))
    /\ toServer' \in Remaining(toServer)

ClientReceives ==
    /\ toClient # <<>>
    /\ ClientCalls(Receive(client, Server, Head(toClient)))
    /\ toClient' \in Remaining(toClient)
    /\ UNCHANGED offered

LoseToServer ==
    /\ toServer # <<>>
    /\ toServer' = Tail(toServer)
    /\ UNCHANGED <<ends, toClient, patient, seen>>

LoseToClient ==
    /\ toClient # <<>>
    /\ toClient' = Tail(toClient)
    /\ UNCHANGED <<ends, toServer, patient, seen>>

ClientConnects ==
    /\ client.state = "Closed"
    /\ patient => server.state = "Closed" /\ bus = <<<<>>, <<>>>>
    /\ ClientCalls(connect_request(client, Server))
    /\ UNCHANGED <<toClient, offered>>

\* The data link layer's confirmation of the T_Connect, positive or negative.
ClientConfirms(success) ==
    /\ client.state = "Connecting"
    /\ ClientCalls(connect_confirm(client, success))
    /\ UNCHANGED <<toClient, offered>>

ClientDisconnects ==
    /\ client.state # "Closed"
    /\ ClientCalls(disconnect_request(client))
    /\ UNCHANGED <<toClient, offered>>

ClientOffers ==
    /\ client.state = "OpenIdle"
    /\ offered < MaxPayload
    /\ offered' = offered + 1
    /\ ClientCalls(data_connected_request(client, offered + 1))
    /\ UNCHANGED toClient

ServerDisconnects ==
    /\ server.state # "Closed"
    /\ ServerCalls(disconnect_request(server))
    /\ UNCHANGED toServer

ClientPolls == ClientCalls(poll(client)) /\ UNCHANGED <<toClient, offered>>

ServerPolls == ServerCalls(poll(server)) /\ UNCHANGED toServer

Tick == /\ client' = Elapse(client)
        /\ server' = Elapse(server)
        /\ UNCHANGED <<bus, patient, seen>>

Next ==
    \/ ServerReceives \/ ClientReceives \/ LoseToServer \/ LoseToClient
    \/ ClientConnects \/ (\E success \in BOOLEAN : ClientConfirms(success))
    \/ ClientDisconnects \/ ClientOffers \/ ServerDisconnects
    \/ ClientPolls \/ ServerPolls \/ Tick

Spec == Init /\ [][Next]_vars

-----------------------------------------------------------------------------
(* The connection implements ConfirmedDelivery: however frames are lost    *)
(* and repeated and connections are dropped and reopened, no payload       *)
(* reaches the receiving application twice and none overtakes another, so  *)
(* sequence numbers, the acknowledged repetition (A3) and the reset on     *)
(* Connect work together.  That a DataConnectedConfirm is given only for   *)
(* data that the peer's application has received holds for a client that   *)
(* is patient; for any other the confirmations promise nothing.            *)
Promise == INSTANCE ConfirmedDelivery
             WITH offered <- offered, delivered <- delivered,
                  confirmed <- IF patient THEN confirmed ELSE {}
Delivers == Promise!Spec

=============================================================================
