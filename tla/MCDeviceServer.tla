---------------------------- MODULE MCDeviceServer ----------------------------
(* Small instances of DeviceServer for TLC.                                 *)
EXTENDS DeviceServer, TLC

CONSTANTS a, b, c, x

\* Client a uses one address, client b a control and a data address.
MCAddr == {a, b, c}
TwoClients == {<<a, a>>, <<b, c>>}
OneAddr == {a}
OneClient == {<<a, a>>}
MCContent == {x}

\* Ids are given out in a round, and no operation tells one place of the round
\* from another: what counts is how far an id is from the next one.
Turned(id) == wrapped(id - next_channel_id + 1)

\* With one event at most, what the application has yet to receive and what it
\* has received makes no difference to the tunnels: the backlog stays empty, so
\* the server always reads, and AppReceives leaves the application as
\* AppDecidesToSend does.  The datagrams of the last step tell no states apart.
View == <<{[t EXCEPT !.channel_id = Turned(@)] : t \in tunnels},
          [i \in DOMAIN cmds |-> IF cmds[i] = ToAll THEN ToAll ELSE Turned(cmds[i])],
          server, app, taken>>

\* The arms that still run after a stop request are explored with one client.
StopsAtOnce == server \in {"running", "ended"}

\* A frame of the application reaches the tunnels when it is served and not
\* before, and may be sent at any time: it is enough to look at the schedules
\* that send and serve it without another step in between.
CommandsAtOnce ==
    app > 0 \/ cmds # <<>> => app' < app \/ Len(cmds') < Len(cmds)

=============================================================================
