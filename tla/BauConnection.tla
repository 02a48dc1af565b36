---------------------------- MODULE BauConnection ----------------------------
(***************************************************************************)
(* How the Bus Access Unit (knx-rs-device/src/bau.rs) serves requests over *)
(* a transport connection: process_frame and poll call the transport       *)
(* layer, drain_transport_actions turns its actions into outgoing frames   *)
(* and dispatches the request a DataConnectedIndication carries, the       *)
(* answer goes back into the transport layer as a data_connected_request.  *)
(*                                                                         *)
(* The application services differ, as far as the connection is concerned, *)
(* in whether they answer and whether they drop the connection:            *)
(*   Read    property, memory, descriptor, ... services that answer         *)
(*   Write   services without an answer                                     *)
(*   Restart A_Restart: no answer, the connection is dropped                *)
(*   Reset   a supported master reset: an answer, then the drop             *)
(* Group objects, tables and memory are the subject of other modules.      *)
(***************************************************************************)
EXTENDS TransportLayer, SequencesExt

CONSTANTS
    Peers,          \* bus participants that talk to the device
    MaxSessions     \* bound: connections the device accepts in a behaviour

Services == {"Read", "Write", "Restart", "Reset"}

Sessions == 0 .. MaxSessions

\* An answer names the connection (session) its request was served on.
Request(service) == [kind |-> "request", service |-> service]
Reply(service, n) == [kind |-> "answer", service |-> service, session |-> n]

Requests == {Request(service) : service \in Services}
Answers == {Reply(service, n) : service \in {"Read", "Reset"}, n \in Sessions}

ASSUME BauAssumption ==
    /\ Peers \subseteq Address \ {Zero}
    /\ MaxSessions \in Nat \ {0}
    /\ Apdu = Answers \cup Requests

VARIABLES
    transport,          \* Bau.transport
    outbox,             \* Bau.outbox
    restart_pending,    \* Bau.restart_pending
    session             \* history: connections accepted so far

vars == <<transport, outbox, restart_pending, session>>

-----------------------------------------------------------------------------
(* The part of struct Bau that the connection uses, while a call runs.      *)

Device == [transport |-> transport, outbox |-> outbox,
           restart_pending |-> restart_pending]

IsFrame(action) == action.type \in {"SendControl", "SendDataConnected"}

\* queue_control_frame and queue_data_connected_frame: one frame per action.
\* A call pushes the frames to send before it pushes any notification.
Frames(actions) ==
    SubSeq(actions, 1, CHOOSE n \in 0 .. Len(actions) :
                           \A i \in DOMAIN actions : IsFrame(actions[i]) <=> i <= n)

\* queue_individual_frame while answering_connection is the requester, and
\* while there is none (a connectionless request).
answer_connected(b, answer) ==
    [b EXCEPT !.transport = data_connected_request(@, answer)]

answer_connectionless(b, source, answer) ==
    [b EXCEPT !.outbox = Append(@, [type |-> "SendIndividual",
                                    destination |-> source, apdu |-> answer])]

handle_basic_restart(b) ==
    [b EXCEPT !.transport = disconnect_request(@), !.restart_pending = TRUE]

\* Mutant: the connection stays open.
reset_keeps_connection(b, queued) == [queued EXCEPT !.restart_pending = TRUE]

\* The answer is queued first, then the connection is dropped.
handle_restart_master_reset(b, queued) ==
    [queued EXCEPT !.transport = disconnect_request(@), !.restart_pending = TRUE]

\* dispatch_indication: `queued` is the device with the answer queued.
dispatch_indication(b, service, queued) ==
    CASE service = "Read"    -> queued
      [] service = "Write"   -> b
      [] service = "Restart" -> handle_basic_restart(b)
      [] service = "Reset"   -> handle_restart_master_reset(b, queued)

dispatch_connected_indication(b, service) ==
    dispatch_indication(b, service, answer_connected(b, Reply(service, session)))

\* A call produces at most one DataConnectedIndication, and it is the last of
\* its actions; what does not parse as a request is dropped.
Asked(actions) ==
    /\ actions # <<>>
    /\ actions[Len(actions)].type = "DataConnectedIndication"
    /\ actions[Len(actions)].apdu \in Requests

\* The actions are taken and their frames queued.
Drained(b) == [b EXCEPT !.transport = take_actions(@),
                        !.outbox = @ \o Frames(b.transport.actions)]

\* One round of drain_transport_actions.
drain_round(b) ==
    LET actions == b.transport.actions
    IN  IF Asked(actions)
        THEN dispatch_connected_indication(Drained(b), actions[Len(actions)].apdu.service)
        ELSE Drained(b)

\* Mutant: the actions are drained once.
drain_once(b) == drain_round(b)

\* The loop ends after two rounds: what a dispatched request adds are frames
\* to send and notifications, never another DataConnectedIndication.
drain_transport_actions(b) == drain_round(drain_round(b))

-----------------------------------------------------------------------------
Init == /\ transport = new
        /\ outbox = <<>>
        /\ restart_pending = FALSE
        /\ session = 0

\* The outcome of a call; the host then transmits the whole outbox.
Becomes(b) ==
    /\ transport' = b.transport
    /\ outbox' = b.outbox
    /\ restart_pending' = b.restart_pending

\* The host has sent the frames of the previous call (next_outgoing_frame).
Sending == [Device EXCEPT !.outbox = <<>>]

Through(after) == drain_transport_actions([Sending EXCEPT !.transport = after])

Connects(source) ==
    /\ transport.state = "Closed" => session < MaxSessions
    /\ Becomes(Through(connect_indication(transport, source)))
    /\ session' = IF transport.state = "Closed" THEN session + 1 ELSE session

Disconnects(source) ==
    /\ Becomes(Through(disconnect_indication(transport, source)))
    /\ UNCHANGED session

Acknowledges(source, seq_no) ==
    /\ Becomes(Through(ack_indication(transport, source, seq_no)))
    /\ UNCHANGED session

Rejects(source, seq_no) ==
    /\ Becomes(Through(nack_indication(transport, source, seq_no)))
    /\ UNCHANGED session

\* A numbered request over the connection.
Asks(source, seq_no, service) ==
    /\ Becomes(Through(data_connected_indication(transport, source, seq_no, Request(service))))
    /\ UNCHANGED session

\* The same services without a connection (T_Data_Individual).
AsksConnectionless(source, service) ==
    /\ Becomes(drain_transport_actions(
                  dispatch_indication(Sending, service,
                      answer_connectionless(Sending, source, Reply(service, session)))))
    /\ UNCHANGED session

Polls == Becomes(Through(poll(transport))) /\ UNCHANGED session

\* The host acts on the restart request.
TakesRestart ==
    /\ restart_pending
    /\ restart_pending' = FALSE
    /\ outbox' = <<>>
    /\ UNCHANGED <<transport, session>>

Tick == /\ transport' = Elapse(transport)
        /\ outbox' = <<>>
        /\ UNCHANGED <<restart_pending, session>>

Next ==
    \/ \E source \in Peers :
          \/ Connects(source)
          \/ Disconnects(source)
          \/ \E seq_no \in SeqNo :
                \/ Acknowledges(source, seq_no)
                \/ Rejects(source, seq_no)
                \/ \E service \in Services : Asks(source, seq_no, service)
          \/ \E service \in Services : AsksConnectionless(source, service)
    \/ Polls
    \/ TakesRestart
    \/ Tick

Spec == Init /\ [][Next]_vars

-----------------------------------------------------------------------------
NumberedAnswers == {i \in DOMAIN outbox : outbox[i].type = "SendDataConnected"}

(* "draining them in the same call emits the frame promptly instead of     *)
(* leaving it until the next poll": no call returns with transport actions *)
(* still pending, although dispatching a request adds new ones.            *)
NothingLeftPending == transport.actions = <<>>

(* "Actively drops the open connection so the programming tool sees it go  *)
(* away": whoever asks for the restart, and on whatever path, the call     *)
(* leaves no connection open and the peer of the one that was open gets a  *)
(* T_Disconnect.                                                           *)
RestartDropsConnection ==
    [][ (~restart_pending /\ restart_pending') =>
          /\ transport'.state = "Closed"
          /\ transport.state # "Closed" =>
                Contains(outbox', SendControl(transport.connection_address,
                                              "Disconnect", 0))
      ]_vars

(* Numbered answers are sent only on an open connection and to its peer.   *)
NumberedOnlyToPeer ==
    [][ \A i \in DOMAIN outbox' :
          outbox'[i].type = "SendDataConnected" =>
            /\ transport.state # "Closed"
            /\ outbox'[i].destination = transport.connection_address ]_vars

(* "The peer of the transport connection whose request is being served.    *)
(* Its answers go out on the connection": a numbered answer belongs to a   *)
(* request of the connection it is sent on.  A request answered while an   *)
(* earlier answer is unacknowledged is kept in buffered_request, which     *)
(* outlives the connection.                                                *)
AnswersStayOnTheirConnection ==
    \A i \in NumberedAnswers : outbox[i].apdu.session = session

=============================================================================
