---------------------- MODULE TransportConnectionProofs ----------------------
(***************************************************************************)
(* Two connected transport layers implement ConfirmedDelivery: the         *)
(* inductive invariant and the refinement, for any number of payloads, any *)
(* capacity of the bus, any timeouts and any modulus of the sequence       *)
(* numbers from 2 on.                                                      *)
(*                                                                         *)
(* The invariant is about the flow of the client's frames: those on the    *)
(* bus, followed by the one it may still repeat.                           *)
(***************************************************************************)
EXTENDS TransportConnection, TransportLayerProofs

IsData(f) == f.type = "SendDataConnected"
IsControl(f, kind) == f.type = "SendControl" /\ f.tpdu_type = kind
IsConnect(f) == IsControl(f, "Connect")
IsAck(f) == IsControl(f, "Ack")

\* The frames that travel in the two directions.
FromClient(f) == IsData(f) \/ IsConnect(f) \/ IsControl(f, "Disconnect")
FromServer(f) == IsAck(f) \/ IsControl(f, "Nack") \/ IsControl(f, "Disconnect")

\* The payload delivered last, 0 if there is none.
Last(d) == IF d = <<>> THEN 0 ELSE d[Len(d)]

After(k) == (k + 1) % SEQ_MOD

Saved(t) == SendDataConnected(t.saved_frame.destination, t.saved_frame.seq_no,
                              t.saved_frame.apdu)

Flow(t, up) == IF t.state = "OpenWait" THEN Append(up, Saved(t)) ELSE up

-----------------------------------------------------------------------------
(* The inductive invariant, of the client t and the server s, the two       *)
(* channels up and down, whether the client is patient (p), the number of   *)
(* payloads offered (n) and the last one delivered (last).                  *)

ClientOK(t, n) ==
    /\ t \in Idle
    /\ t.buffered_request = None
    /\ t.state # "Closed" => t.connection_address = Server
    /\ t.state = "OpenWait" => t.saved_frame.apdu = n

ServerOK(s) ==
    /\ s \in Idle
    /\ s.buffered_request = None
    /\ s.state \in {"Closed", "OpenIdle"}
    /\ s.state # "Closed" => s.connection_address = Client

\* A payload on its way is not older than the last delivered one, and if it is
\* that one, an open server has moved past its sequence number.
Fresh(f, last, s) ==
    IsData(f) =>
        /\ last <= f.apdu
        /\ (f.apdu = last /\ s.state # "Closed") => s.seq_no_recv = After(f.seq_no)

\* Payloads travel in order, repetitions keep their sequence number, and
\* what follows a Connect is newer than what is before it or was delivered.
Pairwise(q, last) ==
    \A i, j \in DOMAIN q :
        (i < j /\ IsData(q[j])) =>
            /\ IsData(q[i]) => /\ q[i].apdu <= q[j].apdu
                               /\ q[i].apdu = q[j].apdu => q[i].seq_no = q[j].seq_no
            /\ IsConnect(q[i]) => last < q[j].apdu

Separated(q) ==
    \A i, k, j \in DOMAIN q :
        (i < k /\ k < j /\ IsData(q[i]) /\ IsConnect(q[k]) /\ IsData(q[j]))
           => q[i].apdu < q[j].apdu

Ordered(q, last, s) ==
    /\ \A i \in DOMAIN q : Fresh(q[i], last, s)
    /\ Pairwise(q, last)
    /\ Separated(q)

\* The connection of a patient client: its Connect reached a closed server
\* over an empty bus, so that the two sides count the same frames.
UpStream(t, up, last) ==
    /\ \A i \in DOMAIN up : IsData(up[i]) =>
          up[i].apdu <= last \/ (t.state = "OpenWait" /\ up[i] = Saved(t))
    /\ \A i \in DOMAIN up : IsConnect(up[i]) =>
          t.seq_no_send = 0 /\ \A j \in DOMAIN up : j < i => IsConnect(up[j])

DownStream(t, down, last, n) ==
    /\ \A i \in DOMAIN down : IsAck(down[i]) =>
          \/ After(down[i].seq_no) = t.seq_no_send
          \/ down[i].seq_no = t.seq_no_send /\ t.state = "OpenWait" /\ last = n
    /\ \A i, j \in DOMAIN down :
          (i < j /\ IsAck(down[i]) /\ IsAck(down[j]) /\ down[i].seq_no = t.seq_no_send)
             => down[j].seq_no = t.seq_no_send

InStep(t, s, last, n) ==
    s.state # "Closed" =>
        s.seq_no_recv = IF t.state = "OpenWait" /\ last = n
                        THEN After(t.seq_no_send) ELSE t.seq_no_send

ConnectFirst(up, down) ==
    (\E i \in DOMAIN up : IsConnect(up[i])) => \A i \in DOMAIN down : ~IsAck(down[i])

Patient(t, s, up, down, last, n) ==
    t.state # "Closed" =>
        /\ UpStream(t, up, last)
        /\ DownStream(t, down, last, n)
        /\ InStep(t, s, last, n)
        /\ ConnectFirst(up, down)

UpOK(up, n) ==
    /\ up \in Seq(Action)
    /\ \A i \in DOMAIN up : FromClient(up[i]) /\ (IsData(up[i]) => up[i].apdu <= n)

DownOK(down) == down \in Seq(Action) /\ \A i \in DOMAIN down : FromServer(down[i])

Link(t, s, up, down, p, n, last) ==
    /\ ClientOK(t, n) /\ ServerOK(s)
    /\ UpOK(up, n) /\ DownOK(down)
    /\ n \in 0 .. MaxPayload /\ last \in 0 .. n
    /\ Ordered(Flow(t, up), last, s)
    /\ p => Patient(t, s, up, down, last, n)

History(d, n) ==
    /\ d \in Seq(Nat)
    /\ \A i \in DOMAIN d : d[i] <= Last(d)
    /\ Last(d) \in 0 .. n

IInv ==
    /\ Link(client, server, toServer, toClient, patient, offered, Last(delivered))
    /\ History(delivered, offered)

-----------------------------------------------------------------------------
(* Sequence numbers, frames and channels.                                   *)

LEMMA AfterFacts ==
    ASSUME NEW k \in SeqNo
    PROVE  After(k) = IF k = SEQ_MOD - 1 THEN 0 ELSE k + 1
<1>0. SEQ_MOD \in Nat /\ SEQ_MOD > 1 /\ k \in 0 .. SEQ_MOD - 1
  BY SeqAssumption DEF SeqNo
<1>1. CASE k = SEQ_MOD - 1
  <2>1. SEQ_MOD % SEQ_MOD = 0
    BY <1>0
  <2> QED BY <1>0, <1>1, <2>1 DEF After
<1>2. CASE k # SEQ_MOD - 1
  <2>1. k + 1 \in 0 .. SEQ_MOD - 1
    BY <1>0, <1>2
  <2> QED BY <1>0, <1>2, <2>1 DEF After
<1> QED BY <1>1, <1>2

LEMMA AfterInjective ==
    /\ \A k \in SeqNo : After(k) # k /\ After(k) \in SeqNo
    /\ \A k, m \in SeqNo : After(k) = After(m) => k = m
BY AfterFacts, SeqAssumption DEF SeqNo

LEMMA PrevFacts ==
    ASSUME NEW t, t.seq_no_recv \in SeqNo
    PROVE  prev_seq(t) \in SeqNo /\ After(prev_seq(t)) = t.seq_no_recv
<1> DEFINE r == t.seq_no_recv
<1>0. SEQ_MOD \in Nat /\ SEQ_MOD > 1 /\ r \in 0 .. SEQ_MOD - 1
  BY SeqAssumption DEF SeqNo
<1>1. prev_seq(t) = IF r = 0 THEN SEQ_MOD - 1 ELSE r - 1
  <2>1. CASE r = 0
    BY <1>0, <2>1 DEF prev_seq
  <2>2. CASE r # 0
    <3>1. r - 1 \in 0 .. SEQ_MOD - 1 /\ (r - 1) % SEQ_MOD = r - 1
      BY <1>0, <2>2
    <3>2. (r - 1 + SEQ_MOD) % SEQ_MOD = r - 1
      BY <1>0, <3>1
    <3> QED BY <1>0, <2>2, <3>2 DEF prev_seq
  <2> QED BY <2>1, <2>2
<1> QED BY <1>0, <1>1, AfterFacts DEF SeqNo

LEMMA FrameFacts ==
    ASSUME NEW f \in Action
    PROVE  /\ IsData(f) => f.apdu \in Nat /\ f.apdu >= 1 /\ f.seq_no \in SeqNo
           /\ f.type = "SendControl" => f.seq_no \in SeqNo
           /\ IsData(f) => ~IsConnect(f) /\ ~IsAck(f)
           /\ ~(IsConnect(f) /\ IsAck(f))
BY ConnectionAssumption
   DEF Action, IsData, IsConnect, IsAck, IsControl, SendControl, SendDataConnected,
       ConnectIndication, ConnectConfirm, DisconnectIndication,
       DataConnectedIndication, DataConnectedConfirm

LEMMA ChannelFacts ==
    ASSUME NEW q \in Seq(Action)
    PROVE  /\ DOMAIN q = 1 .. Len(q) /\ Len(q) \in Nat
           /\ \A i \in DOMAIN q : i \in Nat /\ i >= 1 /\ q[i] \in Action
           /\ q # <<>> => 1 \in DOMAIN q /\ Head(q) = q[1]
OBVIOUS

LEMMA TailAction ==
    ASSUME NEW q \in Seq(Action), q # <<>>
    PROVE  /\ Tail(q) \in Seq(Action)
           /\ DOMAIN Tail(q) = 1 .. Len(q) - 1
           /\ \A i \in 1 .. Len(q) - 1 : Tail(q)[i] = q[i + 1]
OBVIOUS

-----------------------------------------------------------------------------
(* Losing, repeating and forgetting frames thins the flow: what is left is  *)
(* an image of the old flow under a map that keeps the order.               *)

Thinned(r, q) ==
    \E m \in [DOMAIN r -> DOMAIN q] :
        /\ \A i, j \in DOMAIN r : i < j => m[i] <= m[j]
        /\ \A i \in DOMAIN r : r[i] = q[m[i]]

LEMMA ThinnedOrdered ==
    ASSUME NEW q \in Seq(Action), NEW r \in Seq(Action), Thinned(r, q),
           NEW last, NEW s, Ordered(q, last, s)
    PROVE  Ordered(r, last, s)
<1>1. PICK m \in [DOMAIN r -> DOMAIN q] :
          /\ \A i, j \in DOMAIN r : i < j => m[i] <= m[j]
          /\ \A i \in DOMAIN r : r[i] = q[m[i]]
  BY DEF Thinned
<1>2. /\ \A i \in DOMAIN q : i \in Nat /\ q[i] \in Action
      /\ \A i \in DOMAIN r : i \in Nat /\ r[i] \in Action /\ m[i] \in DOMAIN q
  BY <1>1, ChannelFacts
<1>3. \A i \in DOMAIN r : Fresh(r[i], last, s)
  BY <1>1, <1>2 DEF Ordered
<1>4. Pairwise(r, last)
  <2> SUFFICES ASSUME NEW i \in DOMAIN r, NEW j \in DOMAIN r, i < j, IsData(r[j])
               PROVE  /\ IsData(r[i]) => /\ r[i].apdu <= r[j].apdu
                                         /\ r[i].apdu = r[j].apdu => r[i].seq_no = r[j].seq_no
                      /\ IsConnect(r[i]) => last < r[j].apdu
    BY DEF Pairwise
  <2>1. r[i] = q[m[i]] /\ r[j] = q[m[j]] /\ m[i] <= m[j] /\ m[i] \in Nat /\ m[j] \in Nat
    BY <1>1, <1>2
  <2>2. CASE m[i] = m[j]
    BY <1>2, <2>1, <2>2, FrameFacts
  <2>3. CASE m[i] < m[j]
    BY <1>2, <2>1, <2>3 DEF Ordered, Pairwise
  <2> QED BY <2>1, <2>2, <2>3
<1>5. Separated(r)
  <2> SUFFICES ASSUME NEW i \in DOMAIN r, NEW k \in DOMAIN r, NEW j \in DOMAIN r,
                      i < k, k < j, IsData(r[i]), IsConnect(r[k]), IsData(r[j])
               PROVE  r[i].apdu < r[j].apdu
    BY DEF Separated
  <2>1. /\ r[i] = q[m[i]] /\ r[k] = q[m[k]] /\ r[j] = q[m[j]]
        /\ m[i] <= m[k] /\ m[k] <= m[j]
        /\ m[i] \in Nat /\ m[k] \in Nat /\ m[j] \in Nat
    BY <1>1, <1>2
  <2>2. m[i] # m[k] /\ m[k] # m[j]
    BY <1>2, <2>1, FrameFacts
  <2>3. m[i] < m[k] /\ m[k] < m[j]
    BY <2>1, <2>2
  <2> QED BY <1>2, <2>1, <2>3 DEF Ordered, Separated
<1> QED BY <1>3, <1>4, <1>5 DEF Ordered

\* The ways in which a step thins a flow.
LEMMA ThinnedWays ==
    ASSUME NEW q \in Seq(Action), NEW f \in Action
    PROVE  /\ q # <<>> => Thinned(Tail(q), q)
           /\ q # <<>> => Thinned(Append(Tail(q), f), Append(q, f))
           /\ Thinned(q, Append(q, f))
           /\ Thinned(Append(Append(q, f), f), Append(q, f))
<1>0. /\ DOMAIN q = 1 .. Len(q) /\ Len(q) \in Nat
      /\ Append(q, f) \in Seq(Action)
      /\ DOMAIN Append(q, f) = 1 .. Len(q) + 1
      /\ \A i \in 1 .. Len(q) : Append(q, f)[i] = q[i]
      /\ Append(q, f)[Len(q) + 1] = f
      /\ Len(Append(q, f)) = Len(q) + 1
  BY AppendAction, ChannelFacts
<1>1. ASSUME q # <<>> PROVE Thinned(Tail(q), q)
  <2> DEFINE m == [i \in 1 .. Len(q) - 1 |-> i + 1]
  <2>1. DOMAIN Tail(q) = 1 .. Len(q) - 1 /\ \A i \in 1 .. Len(q) - 1 : Tail(q)[i] = q[i + 1]
    BY <1>1, TailAction
  <2>2. m \in [DOMAIN Tail(q) -> DOMAIN q]
    BY <1>0, <2>1
  <2>3. \A i, j \in DOMAIN Tail(q) : i < j => m[i] <= m[j]
    BY <1>0, <2>1
  <2>4. \A i \in DOMAIN Tail(q) : Tail(q)[i] = q[m[i]]
    BY <1>0, <2>1
  <2> QED BY <2>2, <2>3, <2>4 DEF Thinned
<1>2. ASSUME q # <<>> PROVE Thinned(Append(Tail(q), f), Append(q, f))
  <2> DEFINE r == Append(Tail(q), f)
             m == [i \in 1 .. Len(q) |-> i + 1]
  <2>1. /\ Tail(q) \in Seq(Action) /\ Len(Tail(q)) = Len(q) - 1 /\ Len(q) >= 1
        /\ \A i \in 1 .. Len(q) - 1 : Tail(q)[i] = q[i + 1]
    BY <1>0, <1>2, TailAction
  <2>2. /\ DOMAIN r = 1 .. Len(Tail(q)) + 1
        /\ \A i \in 1 .. Len(Tail(q)) : r[i] = Tail(q)[i]
        /\ r[Len(Tail(q)) + 1] = f
    BY <2>1, AppendAction
  <2>3. /\ DOMAIN r = 1 .. Len(q)
        /\ \A i \in 1 .. Len(q) - 1 : r[i] = q[i + 1]
        /\ r[Len(q)] = f
    BY <1>0, <2>1, <2>2
  <2> HIDE DEF r
  <2>4. m \in [DOMAIN r -> DOMAIN Append(q, f)]
    BY <1>0, <2>3
  <2>5. \A i, j \in DOMAIN r : i < j => m[i] <= m[j]
    BY <1>0, <2>3
  <2>6. \A i \in DOMAIN r : r[i] = Append(q, f)[m[i]]
    <3>1. ASSUME NEW i \in 1 .. Len(q) - 1 PROVE r[i] = Append(q, f)[m[i]]
      BY <1>0, <2>3
    <3>2. r[Len(q)] = Append(q, f)[m[Len(q)]]
      BY <1>0, <2>1, <2>3
    <3> QED BY <1>0, <2>1, <2>3, <3>1, <3>2
  <2>7. Thinned(r, Append(q, f))
    BY <2>4, <2>5, <2>6 DEF Thinned
  <2> QED BY <2>7 DEF r
<1>3. Thinned(q, Append(q, f))
  <2> DEFINE m == [i \in 1 .. Len(q) |-> i]
  <2>1. m \in [DOMAIN q -> DOMAIN Append(q, f)]
    BY <1>0
  <2>2. \A i, j \in DOMAIN q : i < j => m[i] <= m[j]
    BY <1>0
  <2>3. \A i \in DOMAIN q : q[i] = Append(q, f)[m[i]]
    BY <1>0
  <2> QED BY <2>1, <2>2, <2>3 DEF Thinned
<1>4. Thinned(Append(Append(q, f), f), Append(q, f))
  <2> DEFINE a == Append(q, f)
             r == Append(a, f)
             m == [i \in 1 .. Len(q) + 2 |-> IF i = Len(q) + 2 THEN i - 1 ELSE i]
  <2> HIDE DEF a, r
  <2>1. /\ a \in Seq(Action) /\ Len(a) = Len(q) + 1 /\ DOMAIN a = 1 .. Len(q) + 1
        /\ a[Len(q) + 1] = f
    BY <1>0 DEF a
  <2>2. /\ DOMAIN r = 1 .. Len(q) + 2
        /\ \A i \in 1 .. Len(q) + 1 : r[i] = a[i]
        /\ r[Len(q) + 2] = f
    BY <1>0, <2>1, AppendAction DEF r
  <2>3. m \in [DOMAIN r -> DOMAIN a]
    BY <1>0, <2>1, <2>2
  <2>4. \A i, j \in DOMAIN r : i < j => m[i] <= m[j]
    BY <1>0, <2>2
  <2>5. \A i \in DOMAIN r : r[i] = a[m[i]]
    BY <1>0, <2>1, <2>2
  <2>6. Thinned(r, a)
    BY <2>3, <2>4, <2>5 DEF Thinned
  <2> QED BY <2>6 DEF a, r
<1> QED BY <1>1, <1>2, <1>3, <1>4

\* A frame without data may follow anything.
LEMMA ControlOrdered ==
    ASSUME NEW q \in Seq(Action), NEW f \in Action, ~IsData(f),
           NEW last, NEW s, Ordered(q, last, s)
    PROVE  Ordered(Append(q, f), last, s)
<1> DEFINE r == Append(q, f)
<1> HIDE DEF r
<1>0. /\ DOMAIN q = 1 .. Len(q) /\ Len(q) \in Nat
      /\ DOMAIN r = 1 .. Len(q) + 1
      /\ \A i \in 1 .. Len(q) : r[i] = q[i]
      /\ r[Len(q) + 1] = f
  BY AppendAction, ChannelFacts DEF r
<1>1. \A i \in DOMAIN r : IsData(r[i]) => i \in DOMAIN q /\ r[i] = q[i]
  BY <1>0
<1>2. \A i \in DOMAIN r : Fresh(r[i], last, s)
  BY <1>1 DEF Ordered, Fresh
<1>3. \A i, j \in DOMAIN r : i < j => i \in DOMAIN q /\ r[i] = q[i]
  BY <1>0
<1>4. Pairwise(r, last)
  BY <1>1, <1>3 DEF Ordered, Pairwise
<1>5. Separated(r)
  BY <1>1, <1>3 DEF Ordered, Separated
<1> QED BY <1>2, <1>4, <1>5 DEF Ordered, r

\* So may a payload that is newer than all others.
LEMMA NewDataOrdered ==
    ASSUME NEW q \in Seq(Action), NEW f \in Action, IsData(f),
           NEW last \in Nat, last < f.apdu, NEW s, Ordered(q, last, s),
           \A i \in DOMAIN q : IsData(q[i]) => q[i].apdu < f.apdu
    PROVE  Ordered(Append(q, f), last, s)
<1> DEFINE r == Append(q, f)
<1> HIDE DEF r
<1>0. /\ DOMAIN q = 1 .. Len(q) /\ Len(q) \in Nat
      /\ DOMAIN r = 1 .. Len(q) + 1
      /\ \A i \in 1 .. Len(q) : r[i] = q[i]
      /\ r[Len(q) + 1] = f
      /\ f.apdu \in Nat
      /\ \A i \in DOMAIN q : IsData(q[i]) => q[i].apdu \in Nat
  BY AppendAction, ChannelFacts, FrameFacts DEF r
<1>1. \A i \in DOMAIN r : Fresh(r[i], last, s)
  BY <1>0 DEF Ordered, Fresh
<1>2. \A i, j \in DOMAIN r : i < j => i \in DOMAIN q /\ r[i] = q[i]
  BY <1>0
<1>3. Pairwise(r, last)
  <2> SUFFICES ASSUME NEW i \in DOMAIN r, NEW j \in DOMAIN r, i < j, IsData(r[j])
               PROVE  /\ IsData(r[i]) => /\ r[i].apdu <= r[j].apdu
                                         /\ r[i].apdu = r[j].apdu => r[i].seq_no = r[j].seq_no
                      /\ IsConnect(r[i]) => last < r[j].apdu
    BY DEF Pairwise
  <2>1. i \in DOMAIN q /\ r[i] = q[i]
    BY <1>2
  <2>2. CASE j \in DOMAIN q
    BY <1>0, <2>1, <2>2 DEF Ordered, Pairwise
  <2>3. CASE j \notin DOMAIN q
    BY <1>0, <2>1, <2>3
  <2> QED BY <2>2, <2>3
<1>4. Separated(r)
  <2> SUFFICES ASSUME NEW i \in DOMAIN r, NEW k \in DOMAIN r, NEW j \in DOMAIN r,
                      i < k, k < j, IsData(r[i]), IsConnect(r[k]), IsData(r[j])
               PROVE  r[i].apdu < r[j].apdu
    BY DEF Separated
  <2>1. i \in DOMAIN q /\ r[i] = q[i] /\ k \in DOMAIN q /\ r[k] = q[k]
    BY <1>0, <1>2
  <2>2. CASE j \in DOMAIN q
    BY <1>0, <2>1, <2>2 DEF Ordered, Separated
  <2>3. CASE j \notin DOMAIN q
    BY <1>0, <2>1, <2>3
  <2> QED BY <2>2, <2>3
<1> QED BY <1>1, <1>3, <1>4 DEF Ordered, r

\* The server takes the payload at the head of the flow.
LEMMA DeliveredOrdered ==
    ASSUME NEW q \in Seq(Action), 1 \in DOMAIN q, IsData(q[1]),
           NEW last \in Nat, NEW s, Ordered(q, last, s),
           NEW v, v.seq_no_recv = After(q[1].seq_no)
    PROVE  Ordered(q, q[1].apdu, v)
<1>0. \A i \in DOMAIN q : i \in Nat /\ i >= 1 /\ q[i] \in Action
  BY ChannelFacts
<1>1. q[1].apdu \in Nat /\ \A i \in DOMAIN q : IsData(q[i]) => q[i].apdu \in Nat
  BY <1>0, FrameFacts
<1>2. \A i \in DOMAIN q : IsData(q[i]) =>
          /\ q[1].apdu <= q[i].apdu
          /\ q[1].apdu = q[i].apdu => q[1].seq_no = q[i].seq_no
  <2> SUFFICES ASSUME NEW i \in DOMAIN q, IsData(q[i])
               PROVE  /\ q[1].apdu <= q[i].apdu
                      /\ q[1].apdu = q[i].apdu => q[1].seq_no = q[i].seq_no
    OBVIOUS
  <2>1. CASE i = 1
    BY <1>1, <2>1
  <2>2. CASE i # 1
    <3>1. 1 < i
      BY <1>0, <2>2
    <3> QED BY <3>1 DEF Ordered, Pairwise
  <2> QED BY <2>1, <2>2
<1>3. \A i \in DOMAIN q : Fresh(q[i], q[1].apdu, v)
  BY <1>2 DEF Fresh
<1>4. Pairwise(q, q[1].apdu)
  <2> SUFFICES ASSUME NEW i \in DOMAIN q, NEW j \in DOMAIN q, i < j, IsData(q[j])
               PROVE  /\ IsData(q[i]) => /\ q[i].apdu <= q[j].apdu
                                         /\ q[i].apdu = q[j].apdu => q[i].seq_no = q[j].seq_no
                      /\ IsConnect(q[i]) => q[1].apdu < q[j].apdu
    BY DEF Pairwise
  <2>1. IsConnect(q[i]) => q[1].apdu < q[j].apdu
    <3>1. IsConnect(q[i]) => 1 < i
      BY <1>0, FrameFacts
    <3> QED BY <3>1 DEF Ordered, Separated
  <2> QED BY <2>1 DEF Ordered, Pairwise
<1> QED BY <1>3, <1>4 DEF Ordered

\* The order does not depend on how the server closes, or stays as it is.
LEMMA SettledOrdered ==
    ASSUME NEW q, NEW last, NEW s, Ordered(q, last, s), NEW v,
           \/ v.state = "Closed"
           \/ v.state = s.state /\ v.seq_no_recv = s.seq_no_recv
    PROVE  Ordered(q, last, v)
BY DEF Ordered, Fresh

\* A Connect at the head opens the connection: the rest of the flow is newer.
LEMMA OpenedOrdered ==
    ASSUME NEW q \in Seq(Action), 1 \in DOMAIN q, IsConnect(q[1]),
           NEW last \in Nat, NEW s, Ordered(q, last, s), NEW v
    PROVE  Ordered(q, last, v)
<1>0. \A i \in DOMAIN q : i \in Nat /\ i >= 1 /\ q[i] \in Action
  BY ChannelFacts
<1>1. \A i \in DOMAIN q : IsData(q[i]) => last < q[i].apdu /\ q[i].apdu \in Nat
  <2> SUFFICES ASSUME NEW i \in DOMAIN q, IsData(q[i])
               PROVE  last < q[i].apdu /\ q[i].apdu \in Nat
    OBVIOUS
  <2>1. 1 < i /\ q[i].apdu \in Nat
    BY <1>0, FrameFacts
  <2> QED BY <2>1 DEF Ordered, Pairwise
<1>2. \A i \in DOMAIN q : Fresh(q[i], last, v)
  BY <1>1 DEF Fresh
<1> QED BY <1>2 DEF Ordered

-----------------------------------------------------------------------------
(* What the actions of a call say.                                          *)

LEMMA NoActionSays ==
    Frames(<<>>) = {} /\ Indicated(<<>>) = {} /\ ~Confirms(<<>>)
BY DEF Frames, Indicated, Confirms

LEMMA OneActionSays ==
    ASSUME NEW a
    PROVE  /\ Frames(Append(<<>>, a)) = IF IsFrame(a) THEN {a} ELSE {}
           /\ a.type # "DataConnectedIndication" => Indicated(Append(<<>>, a)) = {}
           /\ Confirms(Append(<<>>, a)) <=> a = DataConnectedConfirm
<1> DEFINE s == Append(<<>>, a)
<1>1. DOMAIN s = {1} /\ s[1] = a
  BY OneAction
<1> HIDE DEF s
<1>2. Frames(s) = IF IsFrame(a) THEN {a} ELSE {}
  BY <1>1 DEF Frames
<1>3. a.type # "DataConnectedIndication" => Indicated(s) = {}
  BY <1>1 DEF Indicated
<1>4. Confirms(s) <=> a = DataConnectedConfirm
  BY <1>1 DEF Confirms
<1> QED BY <1>2, <1>3, <1>4 DEF s

LEMMA TwoActionsSay ==
    ASSUME NEW a \in Action, NEW b \in Action, IsFrame(a), ~IsFrame(b),
           b # DataConnectedConfirm
    PROVE  /\ Frames(Append(Append(<<>>, a), b)) = {a}
           /\ Indicated(Append(Append(<<>>, a), b)) =
                 IF b.type = "DataConnectedIndication" THEN {b.apdu} ELSE {}
           /\ ~Confirms(Append(Append(<<>>, a), b))
<1> DEFINE s == Append(Append(<<>>, a), b)
<1>1. DOMAIN s = {1, 2} /\ s[1] = a /\ s[2] = b
  BY TwoActions
<1> HIDE DEF s
<1>2. a.type # "DataConnectedIndication" /\ a # DataConnectedConfirm
  BY DEF IsFrame, DataConnectedConfirm
<1>3. Frames(s) = {a}
  BY <1>1 DEF Frames
<1>4. Indicated(s) = IF b.type = "DataConnectedIndication" THEN {b.apdu} ELSE {}
  BY <1>1, <1>2 DEF Indicated
<1>5. ~Confirms(s)
  BY <1>1, <1>2 DEF Confirms
<1> QED BY <1>3, <1>4, <1>5 DEF s

LEMMA Kinds ==
    \A a, k, n, x :
        /\ IsFrame(SendControl(a, k, n)) /\ IsFrame(SendDataConnected(a, n, x))
        /\ IsControl(SendControl(a, k, n), k) /\ IsData(SendDataConnected(a, n, x))
        /\ SendControl(a, k, n).seq_no = n
        /\ SendDataConnected(a, n, x).seq_no = n /\ SendDataConnected(a, n, x).apdu = x
        /\ ~IsFrame(ConnectIndication(a)) /\ ~IsFrame(ConnectConfirm(a))
        /\ ~IsFrame(DisconnectIndication(a)) /\ ~IsFrame(DataConnectedIndication(a, x))
        /\ ~IsFrame(DataConnectedConfirm)
        /\ ConnectIndication(a).type # "DataConnectedIndication"
        /\ ConnectConfirm(a).type # "DataConnectedIndication"
        /\ DisconnectIndication(a).type # "DataConnectedIndication"
        /\ SendControl(a, k, n).type # "DataConnectedIndication"
        /\ DataConnectedConfirm.type # "DataConnectedIndication"
        /\ DataConnectedIndication(a, x).type = "DataConnectedIndication"
        /\ DataConnectedIndication(a, x).apdu = x
        /\ ConnectIndication(a) # DataConnectedConfirm
        /\ ConnectConfirm(a) # DataConnectedConfirm
        /\ DisconnectIndication(a) # DataConnectedConfirm
        /\ DataConnectedIndication(a, x) # DataConnectedConfirm
        /\ SendControl(a, k, n) # DataConnectedConfirm
        /\ SendDataConnected(a, n, x) # DataConnectedConfirm
BY DEF IsFrame, IsControl, IsData, SendControl, SendDataConnected, ConnectIndication,
       ConnectConfirm, DisconnectIndication, DataConnectedIndication, DataConnectedConfirm

\* The channel after a call that made the frames of fs.
Carried(q, fs) == {q} \cup {Append(q, f) : f \in fs}

LEMMA SentCarried == \A q, a : Sent(q, a) \in Carried(q, Frames(a))
BY DEF Sent, Carried

-----------------------------------------------------------------------------
(* The outcomes of the client's calls, from t to v, with the frames fs.     *)

SameLink(t, v) ==
    /\ v.seq_no_send = t.seq_no_send
    /\ v.seq_no_recv = t.seq_no_recv
    /\ v.connection_address = t.connection_address
    /\ v.saved_frame = t.saved_frame

Quiet(t, v, fs) == SameLink(t, v) /\ v.state = t.state /\ fs = {}

Closes(v, fs) == v.state = "Closed" /\ \A f \in fs : f \in Action /\ IsControl(f, "Disconnect")

Opens(t, v, fs) == 
    SameLink(t, v) /\ t.state = "Connecting" /\ v.state = "OpenIdle" /\ fs = {}

Repeats(t, v, fs) ==
    SameLink(t, v) /\ t.state = "OpenWait" /\ v.state = "OpenWait" /\ fs = {Saved(t)}

Acked(t, v, fs) ==
    /\ t.state = "OpenWait" /\ v.state = "OpenIdle"
    /\ v.connection_address = t.connection_address
    /\ v.seq_no_send = After(t.seq_no_send)
    /\ fs = {}

Connects(t, v, fs) ==
    /\ t.state = "Closed" /\ v.state = "Connecting"
    /\ v.connection_address = Server /\ v.seq_no_send = 0
    /\ \A f \in fs : f \in Action /\ IsConnect(f)

Offers(t, v, fs, n) ==
    /\ t.state = "OpenIdle" /\ v.state = "OpenWait"
    /\ v.connection_address = t.connection_address
    /\ v.seq_no_send = t.seq_no_send
    /\ v.saved_frame.apdu = n
    /\ fs = {Saved(v)}

\* A call from t to u that confirms nothing and indicates nothing.
Unnoticed(t, u) ==
    /\ u \in Sound /\ u.buffered_request = t.buffered_request
    /\ ~Confirms(u.actions) /\ Indicated(u.actions) = {}

Keeps(t, u) ==
    /\ Unnoticed(t, u)
    /\ \/ Quiet(t, u, Frames(u.actions))
       \/ Closes(u, Frames(u.actions))
       \/ Opens(t, u, Frames(u.actions))
       \/ Repeats(t, u, Frames(u.actions))

LEMMA StutterKeeps == \A t \in Idle : Keeps(t, t) /\ Quiet(t, t, Frames(t.actions))
BY IdleFacts, NoActionSays DEF Keeps, Unnoticed, Quiet, SameLink

LEMMA PassiveKeeps ==
    ASSUME NEW t \in Idle, NEW a \in Address
    PROVE  /\ Keeps(t, a5_passive_disconnect(t, a))
           /\ Closes(a5_passive_disconnect(t, a), Frames(a5_passive_disconnect(t, a).actions))
<1> DEFINE u == a5_passive_disconnect(t, a)
<1>1. u \in Sound
  BY A5Sound, IdleFacts
<1>2. /\ u.actions = Append(<<>>, DisconnectIndication(a))
      /\ u.state = "Closed" /\ u.buffered_request = t.buffered_request
  BY IdleFacts DEF a5_passive_disconnect, Transport
<1> HIDE DEF u
<1>3. Frames(u.actions) = {} /\ Indicated(u.actions) = {} /\ ~Confirms(u.actions)
  BY <1>2, OneActionSays, Kinds
<1> QED BY <1>1, <1>2, <1>3 DEF u, Keeps, Unnoticed, Closes

LEMMA ActiveKeeps ==
    ASSUME NEW t \in Idle
    PROVE  /\ Keeps(t, active_disconnect(t))
           /\ Closes(active_disconnect(t), Frames(active_disconnect(t).actions))
<1> DEFINE u == active_disconnect(t)
           f == SendControl(t.connection_address, "Disconnect", 0)
           d == DisconnectIndication(t.connection_address)
<1>1. u \in Sound
  BY DisconnectSound, IdleFacts
<1>2. /\ u.actions = Append(Append(<<>>, f), d)
      /\ u.state = "Closed" /\ u.buffered_request = t.buffered_request
  BY IdleFacts DEF active_disconnect, Transport
<1>3. f \in Action /\ d \in Action
  BY IdleFacts, SoundFacts, SeqNoFacts, ActionConstructors
<1>4. /\ IsFrame(f) /\ ~IsFrame(d) /\ IsControl(f, "Disconnect")
      /\ d.type # "DataConnectedIndication" /\ d # DataConnectedConfirm
  BY Kinds
<1> HIDE DEF u, f, d
<1>5. Frames(u.actions) = {f} /\ Indicated(u.actions) = {} /\ ~Confirms(u.actions)
  BY <1>2, <1>3, <1>4, TwoActionsSay
<1> QED BY <1>1, <1>2, <1>3, <1>4, <1>5 DEF u, Keeps, Unnoticed, Closes

LEMMA RetransmitKeeps ==
    ASSUME NEW t \in Idle, t.state = "OpenWait"
    PROVE  Keeps(t, retransmit_or_give_up(t))
<1>1. CASE t.rep_count < MAX_REP_COUNT
  <2> DEFINE u == a9_retransmit(t)
  <2>1. u \in Sound
    BY <1>1, A9Sound, IdleFacts
  <2>2. /\ u.actions = Append(<<>>, Saved(t))
        /\ u.state = "OpenWait" /\ SameLink(t, u)
        /\ u.buffered_request = t.buffered_request
    BY IdleFacts DEF a9_retransmit, Transport, Sound, Outstanding, Saved, SameLink
  <2> HIDE DEF u
  <2>3. /\ IsFrame(Saved(t)) /\ Saved(t) # DataConnectedConfirm
        /\ Saved(t).type # "DataConnectedIndication"
    BY Kinds DEF Saved, IsData
  <2>4. Frames(u.actions) = {Saved(t)} /\ Indicated(u.actions) = {} /\ ~Confirms(u.actions)
    BY <2>2, <2>3, OneActionSays
  <2>5. Keeps(t, u)
    BY <2>1, <2>2, <2>4 DEF Keeps, Unnoticed, Repeats
  <2> QED BY <1>1, <2>5 DEF u, retransmit_or_give_up
<1>2. CASE ~(t.rep_count < MAX_REP_COUNT)
  BY <1>2, ActiveKeeps DEF retransmit_or_give_up
<1> QED BY <1>1, <1>2

\* What the client's calls come to.
LEMMA ClientReceiveOutcome ==
    ASSUME NEW n, NEW t, ClientOK(t, n), NEW f \in Action, FromServer(f)
    PROVE  \/ Keeps(t, Receive(t, Server, f))
           \/ /\ IsAck(f) /\ f.seq_no = t.seq_no_send
              /\ Receive(t, Server, f) \in Sound
              /\ Receive(t, Server, f).buffered_request = None
              /\ Acked(t, Receive(t, Server, f), Frames(Receive(t, Server, f).actions))
<1>0. /\ t \in Idle /\ t \in Sound /\ t \in Transport
      /\ t.buffered_request = None
      /\ t.state \in {"Closed", "OpenIdle", "OpenWait", "Connecting"}
      /\ t.state # "Closed" => t.connection_address = Server
      /\ Server \in Address
  BY IdleFacts, SoundFacts, ConnectionAssumption DEF ClientOK
<1>1. CASE IsControl(f, "Disconnect")
  <2>1. Receive(t, Server, f) = disconnect_indication(t, Server)
    BY <1>1 DEF Receive, IsControl
  <2> QED BY <1>0, <2>1, StutterKeeps, PassiveKeeps DEF disconnect_indication
<1>2. CASE IsControl(f, "Nack")
  <2>1. Receive(t, Server, f) = nack_indication(t, Server, f.seq_no)
    BY <1>2 DEF Receive, IsControl
  <2> QED BY <1>0, <2>1, StutterKeeps, ActiveKeeps, RetransmitKeeps
          DEF nack_indication, from_other
<1>3. CASE IsAck(f)
  <2>1. Receive(t, Server, f) = ack_indication(t, Server, f.seq_no)
    BY <1>3 DEF Receive, IsAck, IsControl
  <2>2. CASE t.state = "OpenWait" /\ f.seq_no = t.seq_no_send
    <3> DEFINE u == a8_ack_received(t)
    <3>1. Receive(t, Server, f) = u
      BY <1>0, <2>1, <2>2 DEF ack_indication
    <3>2. u \in Sound
      BY <1>0, <2>2, A8Sound
    <3>3. /\ u.actions = Append(<<>>, DataConnectedConfirm)
          /\ u.state = "OpenIdle" /\ u.seq_no_send = After(t.seq_no_send)
          /\ u.connection_address = t.connection_address /\ u.buffered_request = None
      BY <1>0, IdleFacts DEF a8_ack_received, Transport, After
    <3> HIDE DEF u
    <3>4. Frames(u.actions) = {}
      BY <3>3, OneActionSays, Kinds
    <3>5. Acked(t, u, Frames(u.actions))
      BY <2>2, <3>3, <3>4 DEF Acked
    <3> QED BY <1>3, <2>2, <3>1, <3>2, <3>3, <3>5
  <2>3. CASE ~(t.state = "OpenWait" /\ f.seq_no = t.seq_no_send)
    BY <1>0, <2>1, <2>3, StutterKeeps, ActiveKeeps DEF ack_indication, from_other
  <2> QED BY <2>2, <2>3
<1> QED BY <1>1, <1>2, <1>3 DEF FromServer

LEMMA ConnectOutcome ==
    ASSUME NEW t \in Idle, t.state = "Closed"
    PROVE  /\ Unnoticed(t, connect_request(t, Server))
           /\ Connects(t, connect_request(t, Server), Frames(connect_request(t, Server).actions))
<1> DEFINE u == a12_initiate_connection(t, Server)
           f == SendControl(Server, "Connect", 0)
<1>1. connect_request(t, Server) = u
  BY DEF connect_request
<1>2. u \in Sound
  BY A12Sound, IdleFacts, ConnectionAssumption
<1>3. /\ u.actions = Append(<<>>, f)
      /\ u.state = "Connecting" /\ u.connection_address = Server /\ u.seq_no_send = 0
      /\ u.buffered_request = t.buffered_request
  BY IdleFacts DEF a12_initiate_connection, Transport
<1>4. /\ f \in Action /\ IsFrame(f) /\ IsConnect(f)
      /\ f.type # "DataConnectedIndication" /\ f # DataConnectedConfirm
  BY SeqNoFacts, ActionConstructors, ConnectionAssumption, Kinds DEF IsConnect
<1> HIDE DEF u, f
<1>5. Frames(u.actions) = {f} /\ Indicated(u.actions) = {} /\ ~Confirms(u.actions)
  BY <1>3, <1>4, OneActionSays
<1>6. Unnoticed(t, u) /\ Connects(t, u, Frames(u.actions))
  BY <1>2, <1>3, <1>4, <1>5 DEF Unnoticed, Connects
<1> QED BY <1>1, <1>6

LEMMA ConfirmOutcome ==
    ASSUME NEW t \in Idle, t.state = "Connecting", NEW success \in BOOLEAN
    PROVE  Keeps(t, connect_confirm(t, success))
<1> DEFINE u == connect_confirm(t, success)
<1>1. CASE success
  <2>1. u \in Sound
    BY ConnectConfirmSound, IdleFacts
  <2>2. /\ u.actions = Append(<<>>, ConnectConfirm(t.connection_address))
        /\ SameLink(t, u) /\ u.state = "OpenIdle"
        /\ u.buffered_request = t.buffered_request
    BY <1>1, IdleFacts DEF connect_confirm, Transport, SameLink
  <2> HIDE DEF u
  <2>3. Frames(u.actions) = {} /\ Indicated(u.actions) = {} /\ ~Confirms(u.actions)
    BY <2>2, OneActionSays, Kinds
  <2>4. Keeps(t, u)
    BY <2>1, <2>2, <2>3 DEF Keeps, Unnoticed, Opens
  <2> QED BY <2>4 DEF u
<1>2. CASE ~success
  <2>1. u = a5_passive_disconnect(t, t.connection_address)
    BY <1>2 DEF connect_confirm
  <2> QED BY <2>1, PassiveKeeps, IdleFacts, SoundFacts
<1> QED BY <1>1, <1>2

LEMMA DisconnectOutcome ==
    ASSUME NEW t \in Idle, t.state # "Closed"
    PROVE  /\ Keeps(t, disconnect_request(t))
           /\ Closes(disconnect_request(t), Frames(disconnect_request(t).actions))
BY ActiveKeeps DEF disconnect_request

LEMMA OfferOutcome ==
    ASSUME NEW t \in Idle, t.state = "OpenIdle", NEW n \in Apdu
    PROVE  /\ Unnoticed(t, data_connected_request(t, n))
           /\ Offers(t, data_connected_request(t, n),
                     Frames(data_connected_request(t, n).actions), n)
<1> DEFINE u == a7_send_data(t, n)
<1>1. data_connected_request(t, n) = u
  BY DEF data_connected_request
<1>2. u \in Sound
  BY A7Sound, IdleFacts
<1>3. /\ u.actions = Append(<<>>, Saved(u))
      /\ u.state = "OpenWait" /\ u.connection_address = t.connection_address
      /\ u.seq_no_send = t.seq_no_send /\ u.saved_frame.apdu = n
      /\ u.buffered_request = t.buffered_request
  BY IdleFacts DEF a7_send_data, Transport, Saved
<1> HIDE DEF u
<1>4. /\ IsFrame(Saved(u)) /\ Saved(u) # DataConnectedConfirm
      /\ Saved(u).type # "DataConnectedIndication"
  BY Kinds DEF Saved, IsData
<1>5. Frames(u.actions) = {Saved(u)} /\ Indicated(u.actions) = {} /\ ~Confirms(u.actions)
  BY <1>3, <1>4, OneActionSays
<1>6. Unnoticed(t, u) /\ Offers(t, u, Frames(u.actions), n)
  BY <1>2, <1>3, <1>5 DEF Unnoticed, Offers
<1> QED BY <1>1, <1>6

LEMMA PollOutcome ==
    ASSUME NEW t \in Idle, t.buffered_request = None
    PROVE  Keeps(t, poll(t))
<1>1. CASE connection_timed_out(t)
  <2>1. t.connection_timeout = 0
    BY <1>1 DEF connection_timed_out
  <2>2. t.state # "Closed"
    BY <2>1, IdleFacts DEF Sound, Supervised, Off
  <2> QED BY <1>1, <2>2, ActiveKeeps DEF poll
<1>2. CASE ~connection_timed_out(t) /\ ack_timed_out(t)
  <2>1. poll(t) = retransmit_or_give_up(t) /\ t.state = "OpenWait"
    BY <1>2 DEF poll, ack_timed_out
  <2> QED BY <2>1, RetransmitKeeps
<1>3. CASE ~connection_timed_out(t) /\ ~ack_timed_out(t)
  <2>1. poll(t) = t
    BY <1>3 DEF poll
  <2> QED BY <2>1, StutterKeeps
<1> QED BY <1>1, <1>2, <1>3

-----------------------------------------------------------------------------
(* The outcomes of the server's calls: besides those above it may accept a  *)
(* Connect, take a payload, acknowledge one again or reject it.             *)

Accepts(t, u) ==
    /\ Unnoticed(t, u)
    /\ t.state = "Closed" /\ u.state = "OpenIdle"
    /\ u.connection_address = Client /\ u.seq_no_recv = 0
    /\ Frames(u.actions) = {}

Rejects(t, u) ==
    /\ Unnoticed(t, u) /\ SameLink(t, u) /\ u.state = t.state
    /\ \A a \in Frames(u.actions) : a \in Action /\ IsControl(a, "Nack")

AcksAgain(t, u, f) ==
    /\ Unnoticed(t, u) /\ SameLink(t, u) /\ u.state = t.state
    /\ t.state = "OpenIdle" /\ t.seq_no_recv = After(f.seq_no)
    /\ Frames(u.actions) = {SendControl(Client, "Ack", f.seq_no)}

Takes(t, u, f) ==
    /\ u \in Sound /\ u.buffered_request = t.buffered_request
    /\ t.state = "OpenIdle" /\ u.state = "OpenIdle"
    /\ u.connection_address = t.connection_address
    /\ t.seq_no_recv = f.seq_no /\ u.seq_no_recv = After(f.seq_no)
    /\ Frames(u.actions) = {SendControl(Client, "Ack", f.seq_no)}
    /\ Indicated(u.actions) = {f.apdu}

LEMMA ServerReceiveOutcome ==
    ASSUME NEW s, ServerOK(s), NEW f \in Action, FromClient(f)
    PROVE  \/ Keeps(s, Receive(s, Client, f))
           \/ IsConnect(f) /\ Accepts(s, Receive(s, Client, f))
           \/ IsData(f) /\ \/ Rejects(s, Receive(s, Client, f))
                           \/ AcksAgain(s, Receive(s, Client, f), f)
                           \/ Takes(s, Receive(s, Client, f), f)
<1>0. /\ s \in Idle /\ s \in Sound /\ s \in Transport
      /\ s.buffered_request = None /\ s.seq_no_recv \in SeqNo
      /\ s.state \in {"Closed", "OpenIdle"}
      /\ s.state # "Closed" => s.connection_address = Client
      /\ Client \in Address
  BY IdleFacts, SoundFacts, ConnectionAssumption DEF ServerOK
<1>1. CASE IsControl(f, "Disconnect")
  <2>1. Receive(s, Client, f) = disconnect_indication(s, Client)
    BY <1>1 DEF Receive, IsControl
  <2> QED BY <1>0, <2>1, StutterKeeps, PassiveKeeps DEF disconnect_indication
<1>2. CASE IsConnect(f)
  <2>1. Receive(s, Client, f) = connect_indication(s, Client)
    BY <1>2 DEF Receive, IsConnect, IsControl
  <2>2. CASE s.state = "Closed"
    <3> DEFINE u == a1_accept_connection(s, Client)
    <3>1. Receive(s, Client, f) = u
      BY <2>1, <2>2 DEF connect_indication
    <3>2. u \in Sound
      BY <1>0, <2>2, A1Sound
    <3>3. /\ u.actions = Append(<<>>, ConnectIndication(Client))
          /\ u.state = "OpenIdle" /\ u.connection_address = Client /\ u.seq_no_recv = 0
          /\ u.buffered_request = s.buffered_request
      BY <1>0, IdleFacts DEF a1_accept_connection, Transport
    <3> HIDE DEF u
    <3>4. Frames(u.actions) = {} /\ Indicated(u.actions) = {} /\ ~Confirms(u.actions)
      BY <3>3, OneActionSays, Kinds
    <3>5. Accepts(s, u)
      BY <2>2, <3>2, <3>3, <3>4 DEF Accepts, Unnoticed
    <3> QED BY <1>2, <3>1, <3>5
  <2>3. CASE s.state # "Closed"
    BY <1>0, <2>1, <2>3, StutterKeeps DEF connect_indication
  <2> QED BY <2>2, <2>3
<1>3. CASE IsData(f)
  <2>0. f.seq_no \in SeqNo /\ f.apdu \in Apdu
    BY <1>3, FrameFacts, ConnectionAssumption
       DEF Action, IsData, SendControl, SendDataConnected, ConnectIndication, ConnectConfirm,
           DisconnectIndication, DataConnectedIndication, DataConnectedConfirm
  <2>1. Receive(s, Client, f) = data_connected_indication(s, Client, f.seq_no, f.apdu)
    BY <1>3 DEF Receive, IsData
  <2>2. CASE s.state = "Closed"
    BY <1>0, <2>1, <2>2, StutterKeeps DEF data_connected_indication, from_other
  <2>3. CASE s.state = "OpenIdle" /\ f.seq_no = s.seq_no_recv
    <3> DEFINE u == a2_receive_data(s, Client, f.apdu)
               a == SendControl(Client, "Ack", f.seq_no)
               d == DataConnectedIndication(Client, f.apdu)
    <3>1. Receive(s, Client, f) = u
      BY <1>0, <2>1, <2>3 DEF data_connected_indication
    <3>2. u \in Sound
      BY <1>0, <2>0, <2>3, A2Sound
    <3>3. /\ u.actions = Append(Append(<<>>, a), d)
          /\ u.state = "OpenIdle" /\ u.connection_address = s.connection_address
          /\ u.seq_no_recv = After(f.seq_no) /\ u.buffered_request = s.buffered_request
      BY <1>0, <2>3, IdleFacts DEF a2_receive_data, Transport, After
    <3>4. a \in Action /\ d \in Action
      BY <1>0, <2>0, ActionConstructors
    <3>5. /\ IsFrame(a) /\ ~IsFrame(d) /\ d # DataConnectedConfirm
          /\ d.type = "DataConnectedIndication" /\ d.apdu = f.apdu
      BY Kinds
    <3> HIDE DEF u, a, d
    <3>6. Frames(u.actions) = {a} /\ Indicated(u.actions) = {f.apdu}
      BY <3>3, <3>4, <3>5, TwoActionsSay, ZenonT(40)
    <3>7. Takes(s, u, f)
      BY <2>3, <3>2, <3>3, <3>6 DEF Takes, a
    <3> QED BY <1>3, <3>1, <3>7
  <2>4. CASE s.state = "OpenIdle" /\ f.seq_no # s.seq_no_recv /\ f.seq_no = prev_seq(s)
    <3> DEFINE u == a3_ack_repeated(s, Client, f.seq_no)
               a == SendControl(Client, "Ack", f.seq_no)
    <3>1. Receive(s, Client, f) = u
      BY <1>0, <2>1, <2>4 DEF data_connected_indication
    <3>2. u \in Sound
      BY <1>0, <2>0, <2>4, A3Sound
    <3>3. /\ u.actions = Append(<<>>, a)
          /\ u.state = s.state /\ SameLink(s, u) /\ u.buffered_request = s.buffered_request
      BY <1>0, IdleFacts DEF a3_ack_repeated, Transport, SameLink
    <3>4. IsFrame(a) /\ a.type # "DataConnectedIndication" /\ a # DataConnectedConfirm
      BY Kinds
    <3> HIDE DEF u, a
    <3>5. Frames(u.actions) = {a} /\ Indicated(u.actions) = {} /\ ~Confirms(u.actions)
      BY <3>3, <3>4, OneActionSays
    <3>6. s.seq_no_recv = After(f.seq_no)
      BY <1>0, <2>4, PrevFacts
    <3>7. AcksAgain(s, u, f)
      BY <2>4, <3>2, <3>3, <3>5, <3>6 DEF AcksAgain, Unnoticed, a
    <3> QED BY <1>3, <3>1, <3>7
  <2>5. CASE s.state = "OpenIdle" /\ f.seq_no # s.seq_no_recv /\ f.seq_no # prev_seq(s)
    <3> DEFINE u == a4_nack_wrong_seq(s, Client, f.seq_no)
               a == SendControl(Client, "Nack", f.seq_no)
    <3>1. Receive(s, Client, f) = u
      BY <1>0, <2>1, <2>5 DEF data_connected_indication
    <3>2. u \in Sound
      BY <1>0, <2>0, <2>5, A4Sound
    <3>3. /\ u.actions = Append(<<>>, a)
          /\ u.state = s.state /\ SameLink(s, u) /\ u.buffered_request = s.buffered_request
      BY <1>0, IdleFacts DEF a4_nack_wrong_seq, Transport, SameLink
    <3>4. /\ IsFrame(a) /\ a.type # "DataConnectedIndication" /\ a # DataConnectedConfirm
          /\ a \in Action /\ IsControl(a, "Nack")
      BY <1>0, <2>0, Kinds, ActionConstructors
    <3> HIDE DEF u, a
    <3>5. Frames(u.actions) = {a} /\ Indicated(u.actions) = {} /\ ~Confirms(u.actions)
      BY <3>3, <3>4, OneActionSays
    <3>6. Rejects(s, u)
      BY <3>2, <3>3, <3>4, <3>5 DEF Rejects, Unnoticed
    <3> QED BY <1>3, <3>1, <3>6
  <2> QED BY <1>0, <2>2, <2>3, <2>4, <2>5
<1> QED BY <1>1, <1>2, <1>3 DEF FromClient

-----------------------------------------------------------------------------
(* What the outcomes do to the invariant.                                   *)

LEMMA Taken ==
    ASSUME NEW u \in Sound
    PROVE  /\ take_actions(u) \in Idle
           /\ take_actions(u).state = u.state
           /\ take_actions(u).buffered_request = u.buffered_request
           /\ SameLink(u, take_actions(u))
<1>1. take_actions(u) \in Sound
  BY TakeActionsSound
<1> QED BY <1>1, SoundFacts DEF Idle, take_actions, Transport, SameLink

LEMMA SavedFacts ==
    ASSUME NEW t \in Idle, t.state = "OpenWait"
    PROVE  /\ Saved(t) \in Action /\ IsData(Saved(t))
           /\ Saved(t).apdu = t.saved_frame.apdu
           /\ Saved(t).seq_no = t.seq_no_send
<1>1. t.saved_frame \in SavedFrame /\ t.saved_frame.seq_no = t.seq_no_send
  BY IdleFacts DEF Sound, Outstanding, Transport
<1>2. Saved(t) \in Action
  BY <1>1, ActionConstructors DEF Saved, SavedFrame
<1> QED BY <1>1, <1>2, Kinds DEF Saved

LEMMA FlowFacts ==
    ASSUME NEW t \in Idle, NEW q \in Seq(Action)
    PROVE  /\ Flow(t, q) \in Seq(Action)
           /\ \A i \in DOMAIN q : i \in DOMAIN Flow(t, q) /\ Flow(t, q)[i] = q[i]
<1>1. CASE t.state = "OpenWait"
  <2>1. Saved(t) \in Action
    BY <1>1, SavedFacts
  <2>2. Flow(t, q) = Append(q, Saved(t))
    BY <1>1 DEF Flow
  <2> QED BY <2>1, <2>2, AppendAction, ChannelFacts
<1>2. CASE t.state # "OpenWait"
  BY <1>2 DEF Flow
<1> QED BY <1>1, <1>2

\* Appending a frame to a channel.
LEMMA Appended ==
    ASSUME NEW q \in Seq(Action), NEW f \in Action
    PROVE  /\ Append(q, f) \in Seq(Action)
           /\ \A i \in DOMAIN Append(q, f) :
                 \/ i \in DOMAIN q /\ Append(q, f)[i] = q[i]
                 \/ Append(q, f)[i] = f /\ \A j \in DOMAIN Append(q, f) : j <= i
           /\ \A i, j \in DOMAIN Append(q, f) :
                 i < j => i \in DOMAIN q /\ Append(q, f)[i] = q[i]
           /\ \A i \in DOMAIN q : i \in DOMAIN Append(q, f)
<1> DEFINE r == Append(q, f)
<1>1. /\ r \in Seq(Action) /\ DOMAIN r = 1 .. Len(q) + 1
      /\ \A i \in 1 .. Len(q) : r[i] = q[i]
      /\ r[Len(q) + 1] = f
      /\ DOMAIN q = 1 .. Len(q) /\ Len(q) \in Nat
  BY AppendAction, ChannelFacts
<1> HIDE DEF r
<1>2. \A i \in DOMAIN r : \/ i \in DOMAIN q /\ r[i] = q[i]
                          \/ r[i] = f /\ \A j \in DOMAIN r : j <= i
  BY <1>1
<1>3. \A i, j \in DOMAIN r : i < j => i \in DOMAIN q /\ r[i] = q[i]
  BY <1>1
<1>4. \A i \in DOMAIN q : i \in DOMAIN r
  BY <1>1
<1> QED BY <1>1, <1>2, <1>3, <1>4 DEF r

\* What remains of a channel when its head is taken or lost.
LEMMA Remains ==
    ASSUME NEW q \in Seq(Action), q # <<>>, NEW r \in Remaining(q)
    PROVE  /\ r \in Seq(Action)
           /\ \E k \in {0, 1} : \A i \in DOMAIN r : i + k \in DOMAIN q /\ r[i] = q[i + k]
<1>1. CASE r = q
  BY <1>1, ChannelFacts
<1>2. CASE r = Tail(q)
  <2>1. /\ r \in Seq(Action) /\ DOMAIN r = 1 .. Len(q) - 1
        /\ \A i \in 1 .. Len(q) - 1 : r[i] = q[i + 1]
    BY <1>2, TailAction
  <2>2. DOMAIN q = 1 .. Len(q) /\ Len(q) \in Nat
    BY ChannelFacts
  <2>3. \A i \in DOMAIN r : i + 1 \in DOMAIN q /\ r[i] = q[i + 1]
    BY <2>1, <2>2
  <2> QED BY <2>1, <2>3
<1> QED BY <1>1, <1>2 DEF Remaining

LEMMA UpRemains ==
    ASSUME NEW t, NEW s, NEW up, NEW down, NEW p, NEW n, NEW last,
           Link(t, s, up, down, p, n, last), up # <<>>, NEW r \in Remaining(up)
    PROVE  Link(t, s, r, down, p, n, last)
<1>0. up \in Seq(Action) /\ t \in Idle
  BY DEF Link, UpOK, ClientOK
<1>1. PICK k \in {0, 1} : \A i \in DOMAIN r : i + k \in DOMAIN up /\ r[i] = up[i + k]
  BY <1>0, Remains
<1>2. r \in Seq(Action) /\ \A i \in DOMAIN r : i \in Nat
  BY <1>0, Remains, ChannelFacts
<1>3. UpOK(r, n)
  BY <1>1, <1>2 DEF Link, UpOK
<1>4. Ordered(Flow(t, r), last, s)
  <2>0. /\ Flow(t, up) \in Seq(Action) /\ Flow(t, r) \in Seq(Action)
        /\ Ordered(Flow(t, up), last, s)
    BY <1>0, <1>2, FlowFacts DEF Link
  <2>1. CASE r = up
    BY <2>0, <2>1
  <2>2. CASE r = Tail(up)
    <3>1. Thinned(Flow(t, r), Flow(t, up))
      <4>1. CASE t.state = "OpenWait"
        <5>1. Saved(t) \in Action
          BY <1>0, <4>1, SavedFacts
        <5> QED BY <1>0, <2>2, <4>1, <5>1, ThinnedWays DEF Flow
      <4>2. CASE t.state # "OpenWait"
        <5>1. DataConnectedConfirm \in Action
          BY ActionConstructors
        <5> QED BY <1>0, <2>2, <4>2, <5>1, ThinnedWays DEF Flow
      <4> QED BY <4>1, <4>2
    <3> QED BY <2>0, <3>1, ThinnedOrdered
  <2> QED BY <2>1, <2>2 DEF Remaining
<1>5. ASSUME p, t.state # "Closed" PROVE Patient(t, s, r, down, last, n)
  <2>0. Patient(t, s, up, down, last, n)
    BY <1>5 DEF Link
  <2>1. UpStream(t, r, last)
    <3>1. \A i \in DOMAIN r : IsData(r[i]) =>
              r[i].apdu <= last \/ (t.state = "OpenWait" /\ r[i] = Saved(t))
      BY <1>1, <1>5, <2>0 DEF Patient, UpStream
    <3>2. \A i \in DOMAIN r : IsConnect(r[i]) =>
              t.seq_no_send = 0 /\ \A j \in DOMAIN r : j < i => IsConnect(r[j])
      <4> SUFFICES ASSUME NEW i \in DOMAIN r, IsConnect(r[i])
                   PROVE  t.seq_no_send = 0 /\ \A j \in DOMAIN r : j < i => IsConnect(r[j])
        OBVIOUS
      <4>1. i + k \in DOMAIN up /\ IsConnect(up[i + k])
        BY <1>1
      <4>2. \A j \in DOMAIN r : j < i => j + k < i + k
        BY <1>2
      <4> QED BY <1>1, <1>5, <2>0, <4>1, <4>2 DEF Patient, UpStream
    <3> QED BY <3>1, <3>2 DEF UpStream
  <2>2. ConnectFirst(r, down)
    BY <1>1, <1>5, <2>0 DEF Patient, ConnectFirst
  <2> QED BY <1>5, <2>0, <2>1, <2>2 DEF Patient
<1>6. p => Patient(t, s, r, down, last, n)
  BY <1>5 DEF Patient
<1> QED BY <1>3, <1>4, <1>6 DEF Link

LEMMA DownRemains ==
    ASSUME NEW t, NEW s, NEW up, NEW down, NEW p, NEW n, NEW last,
           Link(t, s, up, down, p, n, last), down # <<>>, NEW r \in Remaining(down)
    PROVE  Link(t, s, up, r, p, n, last)
<1>0. down \in Seq(Action)
  BY DEF Link, DownOK
<1>1. PICK k \in {0, 1} : \A i \in DOMAIN r : i + k \in DOMAIN down /\ r[i] = down[i + k]
  BY <1>0, Remains
<1>2. r \in Seq(Action) /\ \A i \in DOMAIN r : i \in Nat
  BY <1>0, Remains, ChannelFacts
<1>3. DownOK(r)
  BY <1>1, <1>2 DEF Link, DownOK
<1>4. ASSUME p, t.state # "Closed" PROVE Patient(t, s, up, r, last, n)
  <2>0. Patient(t, s, up, down, last, n)
    BY <1>4 DEF Link
  <2>1. DownStream(t, r, last, n)
    <3>1. \A i \in DOMAIN r : IsAck(r[i]) =>
              \/ After(r[i].seq_no) = t.seq_no_send
              \/ r[i].seq_no = t.seq_no_send /\ t.state = "OpenWait" /\ last = n
      BY <1>1, <1>4, <2>0 DEF Patient, DownStream
    <3>2. ASSUME NEW i \in DOMAIN r, NEW j \in DOMAIN r, i < j, IsAck(r[i]), IsAck(r[j]),
                 r[i].seq_no = t.seq_no_send
          PROVE  r[j].seq_no = t.seq_no_send
      <4>1. i + k < j + k
        BY <1>2, <3>2
      <4> QED BY <1>1, <1>4, <2>0, <3>2, <4>1 DEF Patient, DownStream
    <3> QED BY <3>1, <3>2 DEF DownStream
  <2>2. ConnectFirst(up, r)
    BY <1>1, <1>4, <2>0 DEF Patient, ConnectFirst
  <2> QED BY <1>4, <2>0, <2>1, <2>2 DEF Patient
<1>5. p => Patient(t, s, up, r, last, n)
  BY <1>4 DEF Patient
<1> QED BY <1>3, <1>5 DEF Link

\* The client's part: nothing seen by the server, its connection is closed,
\* confirmed by the data link layer or the outstanding frame repeated.
LEMMA ClientKeeps ==
    ASSUME NEW t, NEW s, NEW up, NEW down, NEW p, NEW n, NEW last,
           Link(t, s, up, down, p, n, last),
           NEW u, Keeps(t, u), NEW r \in Carried(up, Frames(u.actions))
    PROVE  Link(take_actions(u), s, r, down, p, n, last)
<1> DEFINE v == take_actions(u)
           fs == Frames(u.actions)
<1>0. /\ t \in Idle /\ up \in Seq(Action) /\ t.buffered_request = None
      /\ t.state # "Closed" => t.connection_address = Server
      /\ t.state = "OpenWait" => t.saved_frame.apdu = n
      /\ Ordered(Flow(t, up), last, s)
  BY DEF Link, ClientOK, UpOK
<1>1. /\ v \in Idle /\ v.state = u.state /\ v.buffered_request = None
      /\ SameLink(u, v)
  BY <1>0, Taken DEF Keeps, Unnoticed
<1> HIDE DEF v, fs
<1>2. CASE Closes(u, fs)
  <2>1. v.state = "Closed"
    BY <1>1, <1>2 DEF Closes
  <2>2. ClientOK(v, n)
    BY <1>1, <2>1 DEF ClientOK
  <2>3. Ordered(up, last, s)
    <3>1. CASE t.state = "OpenWait"
      <4>1. Saved(t) \in Action /\ Append(up, Saved(t)) \in Seq(Action)
        BY <1>0, <3>1, SavedFacts, Appended
      <4> QED BY <1>0, <3>1, <4>1, ThinnedWays, ThinnedOrdered DEF Flow
    <3>2. CASE t.state # "OpenWait"
      BY <1>0, <3>2 DEF Flow
    <3> QED BY <3>1, <3>2
  <2>4. UpOK(r, n) /\ Ordered(r, last, s)
    <3>1. CASE r = up
      BY <2>3, <3>1 DEF Link
    <3>2. ASSUME NEW f \in fs, r = Append(up, f) PROVE UpOK(r, n) /\ Ordered(r, last, s)
      <4>1. f \in Action /\ IsControl(f, "Disconnect") /\ ~IsData(f)
        BY <1>2 DEF Closes, IsControl, IsData
      <4>2. Ordered(r, last, s)
        BY <1>0, <2>3, <3>2, <4>1, ControlOrdered
      <4>3. UpOK(r, n)
        BY <1>0, <3>2, <4>1, Appended DEF Link, UpOK, FromClient
      <4> QED BY <4>2, <4>3
    <3> QED BY <3>1, <3>2 DEF Carried, fs
  <2>5. Flow(v, r) = r
    BY <2>1 DEF Flow
  <2>6. Patient(v, s, r, down, last, n)
    BY <2>1 DEF Patient
  <2> QED BY <2>2, <2>4, <2>5, <2>6 DEF Link, v
<1>3. CASE Quiet(t, u, fs) \/ Opens(t, u, fs)
  <2>1. /\ r = up
        /\ v.state = "OpenWait" <=> t.state = "OpenWait"
        /\ v.state = "Closed" <=> t.state = "Closed"
        /\ SameLink(t, v)
    BY <1>1, <1>3 DEF Quiet, Opens, Carried, fs, SameLink
  <2>2. ClientOK(v, n)
    BY <1>0, <1>1, <2>1 DEF ClientOK, SameLink
  <2>3. Saved(v) = Saved(t) /\ v.seq_no_send = t.seq_no_send
    BY <2>1 DEF Saved, SameLink
  <2>4. Flow(v, r) = Flow(t, up)
    BY <2>1, <2>3 DEF Flow
  <2>5. Patient(t, s, up, down, last, n) => Patient(v, s, r, down, last, n)
    BY <2>1, <2>3 DEF Patient, UpStream, DownStream, InStep
  <2> QED BY <2>1, <2>2, <2>4, <2>5 DEF Link, v
<1>4. CASE Repeats(t, u, fs)
  <2>1. /\ v.state = "OpenWait" /\ t.state = "OpenWait" /\ SameLink(t, v)
        /\ fs = {Saved(t)}
    BY <1>1, <1>4 DEF Repeats, SameLink
  <2>2. ClientOK(v, n)
    BY <1>0, <1>1, <2>1 DEF ClientOK, SameLink
  <2>3. Saved(v) = Saved(t) /\ v.seq_no_send = t.seq_no_send
    BY <2>1 DEF Saved, SameLink
  <2>4. /\ Saved(t) \in Action /\ IsData(Saved(t)) /\ ~IsConnect(Saved(t))
        /\ Saved(t).apdu = n
    BY <1>0, <2>1, SavedFacts, FrameFacts
  <2>5. r = up \/ r = Append(up, Saved(t))
    BY <2>1 DEF Carried, fs
  <2>6. UpOK(r, n)
    <3>1. CASE r = up
      BY <3>1 DEF Link
    <3>2. CASE r = Append(up, Saved(t))
      <4>1. n \in Nat
        BY DEF Link
      <4>2. FromClient(Saved(t)) /\ Saved(t).apdu <= n
        BY <2>4, <4>1 DEF FromClient
      <4> QED BY <1>0, <2>4, <3>2, <4>2, Appended DEF Link, UpOK
    <3> QED BY <2>5, <3>1, <3>2
  <2>7. Ordered(Flow(v, r), last, s)
    <3>1. Flow(v, r) = Append(r, Saved(t)) /\ Flow(t, up) = Append(up, Saved(t))
      BY <2>1, <2>3 DEF Flow
    <3>2. Append(up, Saved(t)) \in Seq(Action)
      BY <1>0, <2>4, Appended
    <3>3. Append(Append(up, Saved(t)), Saved(t)) \in Seq(Action)
      BY <2>4, <3>2, Appended
    <3>4. Thinned(Append(Append(up, Saved(t)), Saved(t)), Append(up, Saved(t)))
      BY <1>0, <2>4, ThinnedWays
    <3> QED BY <1>0, <2>5, <3>1, <3>2, <3>3, <3>4, ThinnedOrdered
  <2>8. ASSUME Patient(t, s, up, down, last, n) PROVE Patient(v, s, r, down, last, n)
    <3>1. UpStream(v, r, last)
      <4>1. UpStream(v, up, last)
        BY <2>1, <2>3, <2>8 DEF Patient, UpStream
      <4>2. CASE r = Append(up, Saved(t))
        <5> DEFINE a == Append(up, Saved(t))
        <5>1. /\ \A i \in DOMAIN a : \/ i \in DOMAIN up /\ a[i] = up[i]
                                     \/ a[i] = Saved(t) /\ \A j \in DOMAIN a : j <= i
              /\ \A i, j \in DOMAIN a : i < j => i \in DOMAIN up /\ a[i] = up[i]
          BY <1>0, <2>4, Appended
        <5> HIDE DEF a
        <5>2. UpStream(v, a, last)
          BY <2>1, <2>3, <2>4, <4>1, <5>1 DEF UpStream
        <5> QED BY <4>2, <5>2 DEF a
      <4> QED BY <2>5, <4>1, <4>2
    <3>2. ConnectFirst(r, down)
      <4>1. (\E i \in DOMAIN r : IsConnect(r[i])) => \E i \in DOMAIN up : IsConnect(up[i])
        <5>1. CASE r = Append(up, Saved(t))
          BY <1>0, <2>4, <5>1, Appended
        <5> QED BY <2>5, <5>1
      <4> QED BY <2>1, <2>8, <4>1 DEF Patient, ConnectFirst
    <3>3. DownStream(v, down, last, n) /\ InStep(v, s, last, n)
      BY <2>1, <2>3, <2>8 DEF Patient, DownStream, InStep
    <3> QED BY <3>1, <3>2, <3>3 DEF Patient
  <2> QED BY <2>2, <2>6, <2>7, <2>8 DEF Link, v
<1> QED BY <1>2, <1>3, <1>4 DEF Keeps, fs

\* The outstanding payload is acknowledged: to a patient client only if it
\* was the last one delivered.
LEMMA ClientAcked ==
    ASSUME NEW t, NEW s, NEW up, NEW down, NEW p, NEW n, NEW last,
           Link(t, s, up, down, p, n, last),
           NEW u \in Sound, u.buffered_request = None, Acked(t, u, Frames(u.actions)),
           1 \in DOMAIN down, IsAck(down[1]), down[1].seq_no = t.seq_no_send
    PROVE  /\ Link(take_actions(u), s, up, down, p, n, last)
           /\ p => last = n
<1> DEFINE v == take_actions(u)
<1>0. /\ t \in Idle /\ up \in Seq(Action) /\ down \in Seq(Action)
      /\ t.state = "OpenWait" /\ t.connection_address = Server
      /\ t.saved_frame.apdu = n
      /\ Ordered(Flow(t, up), last, s)
      /\ t.seq_no_send \in SeqNo
  BY IdleFacts, SoundFacts DEF Link, ClientOK, UpOK, DownOK, Acked
<1>1. /\ v \in Idle /\ v.state = "OpenIdle" /\ v.buffered_request = None
      /\ v.connection_address = Server
      /\ v.seq_no_send = After(t.seq_no_send)
  BY <1>0, Taken DEF Acked, SameLink
<1> HIDE DEF v
<1>2. Saved(t) \in Action /\ IsData(Saved(t)) /\ Saved(t).apdu = n
  BY <1>0, SavedFacts
<1>3. Ordered(up, last, s)
  <2>1. Append(up, Saved(t)) \in Seq(Action) /\ Thinned(up, Append(up, Saved(t)))
    BY <1>0, <1>2, Appended, ThinnedWays
  <2> QED BY <1>0, <2>1, ThinnedOrdered DEF Flow
<1>4. ASSUME p PROVE last = n /\ Patient(v, s, up, down, last, n)
  <2>0. /\ UpStream(t, up, last) /\ DownStream(t, down, last, n)
        /\ InStep(t, s, last, n) /\ ConnectFirst(up, down)
    BY <1>0, <1>4 DEF Link, Patient
  <2>1. last = n
    <3>1. After(t.seq_no_send) # t.seq_no_send
      BY <1>0, AfterInjective
    <3> QED BY <2>0, <3>1 DEF DownStream
  <2>2. \A i \in DOMAIN down : IsAck(down[i]) => down[i].seq_no = t.seq_no_send
    <3> SUFFICES ASSUME NEW i \in DOMAIN down, IsAck(down[i])
                 PROVE  down[i].seq_no = t.seq_no_send
      OBVIOUS
    <3>1. i = 1 \/ 1 < i
      BY <1>0, ChannelFacts
    <3> QED BY <2>0, <3>1 DEF DownStream
  <2>3. UpStream(v, up, last)
    <3>1. \A i \in DOMAIN up : IsData(up[i]) => up[i].apdu <= last
      <4>1. n \in Nat
        BY DEF Link
      <4> QED BY <1>2, <2>0, <2>1, <4>1 DEF UpStream
    <3>2. \A i \in DOMAIN up : ~IsConnect(up[i])
      BY <2>0 DEF ConnectFirst
    <3> QED BY <3>1, <3>2 DEF UpStream
  <2>4. DownStream(v, down, last, n)
    <3>1. \A i \in DOMAIN down : IsAck(down[i]) => down[i].seq_no # v.seq_no_send
      BY <1>0, <1>1, <2>2, AfterInjective
    <3> QED BY <1>1, <2>2, <3>1 DEF DownStream
  <2>5. InStep(v, s, last, n)
    BY <1>0, <1>1, <2>0, <2>1 DEF InStep
  <2> QED BY <2>0, <2>1, <2>3, <2>4, <2>5 DEF Patient
<1>5. ClientOK(v, n) /\ Flow(v, up) = up
  BY <1>1 DEF ClientOK, Flow
<1> QED BY <1>3, <1>4, <1>5 DEF Link, v

LEMMA ClientConnected ==
    ASSUME NEW t, NEW s, NEW up, NEW down, NEW p, NEW n, NEW last,
           Link(t, s, up, down, p, n, last),
           p => s.state = "Closed" /\ up = <<>> /\ down = <<>>,
           NEW u, Unnoticed(t, u), Connects(t, u, Frames(u.actions)),
           NEW r \in Carried(up, Frames(u.actions))
    PROVE  Link(take_actions(u), s, r, down, p, n, last)
<1> DEFINE v == take_actions(u)
           fs == Frames(u.actions)
<1>0. /\ t \in Idle /\ up \in Seq(Action) /\ t.buffered_request = None
      /\ t.state = "Closed" /\ Ordered(up, last, s)
  BY DEF Link, ClientOK, UpOK, Connects, Flow
<1>1. /\ v \in Idle /\ v.state = "Connecting" /\ v.buffered_request = None
      /\ v.connection_address = Server /\ v.seq_no_send = 0
  BY <1>0, Taken DEF Connects, Unnoticed, SameLink
<1>2. \A f \in fs : f \in Action /\ IsConnect(f) /\ ~IsData(f)
  BY DEF Connects, IsConnect, IsControl, IsData
<1> HIDE DEF v, fs
<1>3. r = up \/ \E f \in fs : r = Append(up, f)
  BY DEF Carried, fs
<1>4. UpOK(r, n) /\ Ordered(r, last, s)
  <2>1. CASE r = up
    BY <1>0, <2>1 DEF Link
  <2>2. ASSUME NEW f \in fs, r = Append(up, f) PROVE UpOK(r, n) /\ Ordered(r, last, s)
    <3>1. Ordered(r, last, s)
      BY <1>0, <1>2, <2>2, ControlOrdered
    <3>2. UpOK(r, n)
      BY <1>0, <1>2, <2>2, Appended DEF Link, UpOK, FromClient
    <3> QED BY <3>1, <3>2
  <2> QED BY <1>3, <2>1, <2>2
<1>5. ClientOK(v, n) /\ Flow(v, r) = r
  BY <1>1 DEF ClientOK, Flow
<1>6. ASSUME p PROVE Patient(v, s, r, down, last, n)
  <2>1. \A i \in DOMAIN r : IsConnect(r[i]) /\ ~IsData(r[i])
    <3>1. CASE r = up
      BY <1>6, <3>1
    <3>2. ASSUME NEW f \in fs, r = Append(up, f)
          PROVE  \A i \in DOMAIN r : IsConnect(r[i]) /\ ~IsData(r[i])
      BY <1>0, <1>2, <1>6, <3>2, Appended
    <3> QED BY <1>3, <3>1, <3>2
  <2>2. UpStream(v, r, last)
    BY <1>1, <2>1 DEF UpStream
  <2>3. DownStream(v, down, last, n) /\ ConnectFirst(r, down) /\ InStep(v, s, last, n)
    BY <1>6 DEF DownStream, ConnectFirst, InStep
  <2> QED BY <2>2, <2>3 DEF Patient
<1> QED BY <1>4, <1>5, <1>6 DEF Link, v

LEMMA ClientOffered ==
    ASSUME NEW t, NEW s, NEW up, NEW down, NEW p, NEW n, NEW last,
           Link(t, s, up, down, p, n, last), n < MaxPayload,
           NEW u, Unnoticed(t, u), Offers(t, u, Frames(u.actions), n + 1),
           NEW r \in Carried(up, Frames(u.actions))
    PROVE  Link(take_actions(u), s, r, down, p, n + 1, last)
<1> DEFINE v == take_actions(u)
           fs == Frames(u.actions)
           f == Saved(v)
<1>0. /\ t \in Idle /\ up \in Seq(Action) /\ t.buffered_request = None
      /\ t.state = "OpenIdle" /\ t.connection_address = Server /\ Ordered(up, last, s)
      /\ n \in Nat /\ last \in Nat /\ last <= n /\ MaxPayload \in Nat
  BY ConnectionAssumption DEF Link, ClientOK, UpOK, Offers, Flow
<1>1. /\ v \in Idle /\ v.state = "OpenWait" /\ v.buffered_request = None
      /\ v.connection_address = Server /\ v.seq_no_send = t.seq_no_send
      /\ v.saved_frame.apdu = n + 1
      /\ fs = {f}
  BY <1>0, Taken DEF Offers, Unnoticed, SameLink, Saved
<1> HIDE DEF v, fs
<1>2. f \in Action /\ IsData(f) /\ ~IsConnect(f) /\ f.apdu = n + 1
  BY <1>1, SavedFacts, FrameFacts
<1>3. r = up \/ r = Append(up, f)
  BY <1>1 DEF Carried, fs
<1>4. ClientOK(v, n + 1) /\ Flow(v, r) = Append(r, f)
  BY <1>1 DEF ClientOK, Flow
<1>5. \A i \in DOMAIN up : IsData(up[i]) => up[i].apdu \in Nat /\ up[i].apdu <= n
  BY <1>0, ChannelFacts, FrameFacts DEF Link, UpOK
<1> HIDE DEF f
<1>6. UpOK(r, n + 1)
  <2>1. UpOK(up, n + 1)
    BY <1>0, <1>5 DEF Link, UpOK
  <2>2. CASE r = Append(up, f)
    <3>1. FromClient(f) /\ f.apdu <= n + 1
      BY <1>0, <1>2 DEF FromClient
    <3> QED BY <1>0, <1>2, <2>1, <2>2, <3>1, Appended DEF UpOK
  <2> QED BY <1>3, <2>1, <2>2
<1>7. Ordered(Append(r, f), last, s)
  <2>1. Ordered(Append(up, f), last, s)
    <3>1. /\ last < f.apdu
          /\ \A i \in DOMAIN up : IsData(up[i]) => up[i].apdu < f.apdu
      BY <1>0, <1>2, <1>5
    <3> QED BY <1>0, <1>2, <3>1, NewDataOrdered
  <2>2. CASE r = Append(up, f)
    <3>1. r \in Seq(Action)
      BY <1>0, <1>2, <2>2, Appended
    <3>2. Append(r, f) \in Seq(Action) /\ Thinned(Append(r, f), r)
      BY <1>0, <1>2, <2>2, <3>1, Appended, ThinnedWays
    <3> QED BY <2>1, <2>2, <3>1, <3>2, ThinnedOrdered
  <2> QED BY <1>3, <2>1, <2>2
<1>8. ASSUME p PROVE Patient(v, s, r, down, last, n + 1)
  <2>0. /\ UpStream(t, up, last) /\ DownStream(t, down, last, n)
        /\ InStep(t, s, last, n) /\ ConnectFirst(up, down)
    BY <1>0, <1>8 DEF Link, Patient
  <2>1. UpStream(v, r, last)
    <3>1. UpStream(v, up, last)
      BY <1>0, <1>1, <2>0 DEF UpStream
    <3>2. CASE r = Append(up, f)
      <4> DEFINE a == Append(up, f)
      <4>1. /\ \A i \in DOMAIN a : \/ i \in DOMAIN up /\ a[i] = up[i]
                                   \/ a[i] = f /\ \A j \in DOMAIN a : j <= i
            /\ \A i, j \in DOMAIN a : i < j => i \in DOMAIN up /\ a[i] = up[i]
        BY <1>0, <1>2, Appended
      <4> HIDE DEF a
      <4>2. UpStream(v, a, last)
        BY <1>1, <1>2, <3>1, <4>1 DEF UpStream, f
      <4> QED BY <3>2, <4>2 DEF a
    <3> QED BY <1>3, <3>1, <3>2
  <2>2. ConnectFirst(r, down)
    <3>1. (\E i \in DOMAIN r : IsConnect(r[i])) => \E i \in DOMAIN up : IsConnect(up[i])
      <4>1. CASE r = Append(up, f)
        BY <1>0, <1>2, <4>1, Appended
      <4> QED BY <1>3, <4>1
    <3> QED BY <2>0, <3>1 DEF ConnectFirst
  <2>3. DownStream(v, down, last, n + 1)
    BY <1>0, <1>1, <2>0 DEF DownStream
  <2>4. InStep(v, s, last, n + 1)
    BY <1>0, <1>1, <2>0 DEF InStep
  <2> QED BY <2>1, <2>2, <2>3, <2>4 DEF Patient
<1>9. n + 1 \in 0 .. MaxPayload /\ last \in 0 .. n + 1
  BY <1>0
<1> QED BY <1>4, <1>6, <1>7, <1>8, <1>9 DEF Link, v

\* The server's part.  What it sends on closing or rejecting is no Ack.
LEMMA ServerSettles ==
    ASSUME NEW t, NEW s, NEW up, NEW down, NEW p, NEW n, NEW last,
           Link(t, s, up, down, p, n, last),
           NEW v, ServerOK(v),
           \/ v.state = "Closed"
           \/ v.state = s.state /\ v.seq_no_recv = s.seq_no_recv,
           NEW fs,
           \A f \in fs : f \in Action /\ (IsControl(f, "Nack") \/ IsControl(f, "Disconnect")),
           NEW r \in Carried(down, fs)
    PROVE  Link(t, v, up, r, p, n, last)
<1>0. down \in Seq(Action)
  BY DEF Link, DownOK
<1>1. \A f \in fs : f \in Action /\ FromServer(f) /\ ~IsAck(f)
  BY DEF FromServer, IsAck, IsControl
<1>2. r = down \/ \E f \in fs : r = Append(down, f)
  BY DEF Carried
<1>3. Ordered(Flow(t, up), last, v)
  BY SettledOrdered DEF Link
<1>4. DownOK(r)
  BY <1>0, <1>1, <1>2, Appended DEF Link, DownOK
<1>5. ASSUME p, t.state # "Closed" PROVE Patient(t, v, up, r, last, n)
  <2>0. /\ UpStream(t, up, last) /\ DownStream(t, down, last, n)
        /\ InStep(t, s, last, n) /\ ConnectFirst(up, down)
    BY <1>5 DEF Link, Patient
  <2>1. InStep(t, v, last, n)
    BY <2>0 DEF InStep
  <2>2. DownStream(t, r, last, n) /\ ConnectFirst(up, r)
    <3>1. CASE r = down
      BY <2>0, <3>1
    <3>2. ASSUME NEW f \in fs, r = Append(down, f)
          PROVE  DownStream(t, r, last, n) /\ ConnectFirst(up, r)
      <4>1. /\ \A i \in DOMAIN r : IsAck(r[i]) => i \in DOMAIN down /\ r[i] = down[i]
        BY <1>0, <1>1, <3>2, Appended
      <4> QED BY <2>0, <4>1 DEF DownStream, ConnectFirst
    <3> QED BY <1>2, <3>1, <3>2
  <2> QED BY <2>0, <2>1, <2>2 DEF Patient
<1>6. p => Patient(t, v, up, r, last, n)
  BY <1>5 DEF Patient
<1> QED BY <1>3, <1>4, <1>6 DEF Link

LEMMA ServerAccepts ==
    ASSUME NEW t, NEW s, NEW up, NEW down, NEW p, NEW n, NEW last,
           Link(t, s, up, down, p, n, last),
           1 \in DOMAIN up, IsConnect(up[1]),
           NEW u, Accepts(s, u)
    PROVE  Link(t, take_actions(u), up, down, p, n, last)
<1> DEFINE v == take_actions(u)
<1>0. /\ t \in Idle /\ up \in Seq(Action) /\ s.buffered_request = None
      /\ n \in Nat /\ last \in Nat /\ last <= n
      /\ Ordered(Flow(t, up), last, s)
      /\ t.state = "OpenWait" => t.saved_frame.apdu = n
  BY DEF Link, UpOK, ClientOK, ServerOK
<1>1. /\ v \in Idle /\ v.state = "OpenIdle" /\ v.buffered_request = None
      /\ v.connection_address = Client /\ v.seq_no_recv = 0
  BY <1>0, Taken DEF Accepts, Unnoticed, SameLink
<1> HIDE DEF v
<1>2. ServerOK(v)
  BY <1>1 DEF ServerOK
<1>3. /\ Flow(t, up) \in Seq(Action)
      /\ 1 \in DOMAIN Flow(t, up) /\ Flow(t, up)[1] = up[1]
  BY <1>0, FlowFacts
<1>4. Ordered(Flow(t, up), last, v)
  BY <1>0, <1>3, OpenedOrdered
<1>5. ASSUME p, t.state # "Closed" PROVE Patient(t, v, up, down, last, n)
  <2>0. /\ UpStream(t, up, last) /\ DownStream(t, down, last, n) /\ ConnectFirst(up, down)
    BY <1>5 DEF Link, Patient
  <2>1. t.seq_no_send = 0
    BY <2>0 DEF UpStream
  <2>2. ASSUME t.state = "OpenWait" PROVE last < n
    <3> DEFINE q == Flow(t, up)
    <3>1. Saved(t) \in Action /\ IsData(Saved(t)) /\ Saved(t).apdu = n
      BY <1>0, <2>2, SavedFacts
    <3>2. q = Append(up, Saved(t))
      BY <2>2 DEF Flow
    <3>3. /\ Len(up) + 1 \in DOMAIN q /\ q[Len(up) + 1] = Saved(t)
          /\ Len(up) \in Nat /\ Len(up) >= 1
      BY <1>0, <3>1, <3>2, AppendAction, ChannelFacts
    <3> HIDE DEF q
    <3>4. 1 < Len(up) + 1 /\ 1 \in DOMAIN q /\ IsConnect(q[1]) /\ Pairwise(q, last)
      BY <1>0, <1>3, <3>3 DEF q, Ordered
    <3> QED BY <3>1, <3>3, <3>4 DEF Pairwise
  <2>3. InStep(t, v, last, n)
    BY <1>0, <1>1, <2>1, <2>2 DEF InStep
  <2> QED BY <2>0, <2>3 DEF Patient
<1>6. p => Patient(t, v, up, down, last, n)
  BY <1>5 DEF Patient
<1> QED BY <1>2, <1>4, <1>6 DEF Link, v

\* The frame at the head of the client's frames, when it is acknowledged.
LEMMA HeadFacts ==
    ASSUME NEW t, NEW s, NEW up, NEW down, NEW p, NEW n, NEW last,
           Link(t, s, up, down, p, n, last), s.state # "Closed",
           1 \in DOMAIN up, IsData(up[1])
    PROVE  /\ up[1].seq_no \in SeqNo /\ up[1].apdu \in Nat /\ up[1].apdu <= n
           /\ last <= up[1].apdu
           /\ up[1].apdu = last => s.seq_no_recv = After(up[1].seq_no)
<1>0. t \in Idle /\ up \in Seq(Action) /\ (t.state = "OpenWait" => t.saved_frame.apdu = n)
  BY DEF Link, UpOK, ClientOK
<1>1. \A i \in DOMAIN up : i \in Nat /\ i >= 1 /\ up[i] \in Action
  BY <1>0, ChannelFacts
<1>2. up[1].seq_no \in SeqNo /\ up[1].apdu \in Nat /\ ~IsConnect(up[1])
  BY <1>1, FrameFacts
<1>3. 1 \in DOMAIN Flow(t, up) /\ Flow(t, up)[1] = up[1]
  BY <1>0, FlowFacts
<1>4. Fresh(up[1], last, s)
  BY <1>3 DEF Link, Ordered
<1> QED BY <1>2, <1>4 DEF Link, UpOK, Fresh

LEMMA PatientHead ==
    ASSUME NEW t, NEW s, NEW up, NEW down, NEW n, NEW last,
           Link(t, s, up, down, TRUE, n, last), t.state # "Closed",
           1 \in DOMAIN up, IsData(up[1])
    PROVE  /\ \A i \in DOMAIN up : ~IsConnect(up[i])
           /\ \/ up[1].apdu <= last
              \/ t.state = "OpenWait" /\ up[1].apdu = n /\ up[1].seq_no = t.seq_no_send
<1>0. t \in Idle /\ up \in Seq(Action) /\ (t.state = "OpenWait" => t.saved_frame.apdu = n)
  BY DEF Link, UpOK, ClientOK
<1>1. \A i \in DOMAIN up : i \in Nat /\ i >= 1 /\ up[i] \in Action
  BY <1>0, ChannelFacts
<1>2. ~IsConnect(up[1])
  BY <1>1, FrameFacts
<1>3. UpStream(t, up, last)
  BY DEF Link, Patient
<1>4. \A i \in DOMAIN up : ~IsConnect(up[i])
  <2> SUFFICES ASSUME NEW i \in DOMAIN up, IsConnect(up[i]) PROVE FALSE
    OBVIOUS
  <2>1. 1 < i \/ i = 1
    BY <1>1
  <2> QED BY <1>2, <1>3, <2>1 DEF UpStream
<1>5. \/ up[1].apdu <= last
      \/ t.state = "OpenWait" /\ up[1].apdu = n /\ up[1].seq_no = t.seq_no_send
  <2>1. CASE t.state = "OpenWait" /\ up[1] = Saved(t)
    BY <1>0, <2>1, SavedFacts
  <2>2. CASE up[1].apdu <= last
    BY <2>2
  <2> QED BY <1>3, <2>1, <2>2 DEF UpStream
<1> QED BY <1>4, <1>5

\* The stream of acknowledgements, extended by one that the client may expect.
LEMMA AckFollows ==
    ASSUME NEW t, t.seq_no_send \in SeqNo, NEW down \in Seq(Action), NEW last, NEW n,
           DownStream(t, down, last, n),
           NEW f \in Action, IsAck(f), f.seq_no \in SeqNo,
           \/ f.seq_no = t.seq_no_send /\ t.state = "OpenWait" /\ last = n
           \/ After(f.seq_no) = t.seq_no_send /\ ~(t.state = "OpenWait" /\ last = n)
    PROVE  DownStream(t, Append(down, f), last, n)
<1> DEFINE r == Append(down, f)
<1>1. /\ \A i \in DOMAIN r : \/ i \in DOMAIN down /\ r[i] = down[i]
                             \/ r[i] = f /\ \A j \in DOMAIN r : j <= i
      /\ \A i, j \in DOMAIN r : i < j => i \in DOMAIN down /\ r[i] = down[i]
  BY Appended
<1> HIDE DEF r
<1>2. \A i \in DOMAIN r : IsAck(r[i]) =>
          \/ After(r[i].seq_no) = t.seq_no_send
          \/ r[i].seq_no = t.seq_no_send /\ t.state = "OpenWait" /\ last = n
  BY <1>1 DEF DownStream
<1>3. ASSUME NEW i \in DOMAIN r, NEW j \in DOMAIN r, i < j, IsAck(r[i]), IsAck(r[j]),
             r[i].seq_no = t.seq_no_send
      PROVE  r[j].seq_no = t.seq_no_send
  <2>1. i \in DOMAIN down /\ r[i] = down[i]
    BY <1>1, <1>3
  <2>2. CASE j \in DOMAIN down /\ r[j] = down[j]
    BY <1>3, <2>1, <2>2 DEF DownStream
  <2>3. CASE r[j] = f
    <3>1. After(r[i].seq_no) # t.seq_no_send
      BY <1>3, AfterInjective
    <3>2. t.state = "OpenWait" /\ last = n
      BY <1>2, <1>3, <3>1
    <3> QED BY <2>3, <3>2
  <2> QED BY <1>1, <2>2, <2>3
<1> QED BY <1>2, <1>3 DEF DownStream, r

LEMMA AckFrame ==
    ASSUME NEW k \in SeqNo
    PROVE  /\ SendControl(Client, "Ack", k) \in Action
           /\ IsAck(SendControl(Client, "Ack", k))
           /\ SendControl(Client, "Ack", k).seq_no = k
<1>1. SendControl(Client, "Ack", k) \in Action
  BY ActionConstructors, ConnectionAssumption
<1> QED BY <1>1, Kinds DEF IsAck

LEMMA ServerAcksAgain ==
    ASSUME NEW t, NEW s, NEW up, NEW down, NEW p, NEW n, NEW last,
           Link(t, s, up, down, p, n, last),
           1 \in DOMAIN up, IsData(up[1]),
           NEW u, AcksAgain(s, u, up[1]),
           NEW r \in Carried(down, Frames(u.actions))
    PROVE  Link(t, take_actions(u), up, r, p, n, last)
<1> DEFINE v == take_actions(u)
           k == up[1].seq_no
           f == SendControl(Client, "Ack", k)
<1>0. /\ t \in Idle /\ down \in Seq(Action) /\ s.buffered_request = None
      /\ s.connection_address = Client /\ s.state = "OpenIdle"
      /\ n \in Nat /\ last \in Nat /\ last <= n /\ t.seq_no_send \in SeqNo
  BY IdleFacts, SoundFacts DEF Link, DownOK, ClientOK, ServerOK, AcksAgain
<1>1. /\ v \in Idle /\ v.state = "OpenIdle" /\ v.buffered_request = None
      /\ v.connection_address = Client /\ v.seq_no_recv = s.seq_no_recv
      /\ s.seq_no_recv = After(k)
  BY <1>0, Taken DEF AcksAgain, Unnoticed, SameLink
<1>2. k \in SeqNo /\ f \in Action /\ IsAck(f) /\ f.seq_no = k
  BY <1>0, HeadFacts, AckFrame
<1>3. r = down \/ r = Append(down, f)
  BY DEF Carried, AcksAgain
<1> HIDE DEF v, f
<1>4. ServerOK(v)
  BY <1>1 DEF ServerOK
<1>5. Ordered(Flow(t, up), last, v)
  <2>1. v.state = s.state
    BY <1>0, <1>1
  <2> QED BY <1>1, <2>1, SettledOrdered DEF Link
<1>6. DownOK(r)
  BY <1>0, <1>2, <1>3, Appended DEF Link, DownOK, FromServer
<1>7. ASSUME p, t.state # "Closed" PROVE Patient(t, v, up, r, last, n)
  <2>9. Link(t, s, up, down, TRUE, n, last)
    BY <1>7 DEF Link
  <2>0. /\ UpStream(t, up, last) /\ DownStream(t, down, last, n)
        /\ InStep(t, s, last, n) /\ ConnectFirst(up, down)
    BY <1>7 DEF Link, Patient
  <2>1. InStep(t, v, last, n)
    BY <1>0, <1>1, <2>0 DEF InStep
  <2>2. ConnectFirst(up, r)
    BY <1>7, <2>9, PatientHead DEF ConnectFirst
  <2>3. DownStream(t, r, last, n)
    <3>1. CASE t.state = "OpenWait" /\ last = n
      <4>1. k = t.seq_no_send
        BY <1>0, <1>1, <1>2, <2>0, <3>1, AfterInjective DEF InStep
      <4> QED BY <1>0, <1>2, <1>3, <2>0, <3>1, <4>1, AckFollows
    <3>2. CASE ~(t.state = "OpenWait" /\ last = n)
      <4>1. After(k) = t.seq_no_send
        BY <1>0, <1>1, <2>0, <3>2 DEF InStep
      <4> QED BY <1>0, <1>2, <1>3, <2>0, <3>2, <4>1, AckFollows
    <3> QED BY <3>1, <3>2
  <2> QED BY <2>0, <2>1, <2>2, <2>3 DEF Patient
<1>8. p => Patient(t, v, up, r, last, n)
  BY <1>7 DEF Patient
<1> QED BY <1>4, <1>5, <1>6, <1>8 DEF Link, v

\* The server takes a payload: it is newer than all it has taken before.
LEMMA ServerTakes ==
    ASSUME NEW t, NEW s, NEW up, NEW down, NEW p, NEW n, NEW last,
           Link(t, s, up, down, p, n, last),
           1 \in DOMAIN up, IsData(up[1]),
           NEW u, Takes(s, u, up[1]),
           NEW r \in Carried(down, Frames(u.actions))
    PROVE  /\ Link(t, take_actions(u), up, r, p, n, up[1].apdu)
           /\ last < up[1].apdu /\ up[1].apdu \in 1 .. n
<1> DEFINE v == take_actions(u)
           k == up[1].seq_no
           new_last == up[1].apdu
           f == SendControl(Client, "Ack", k)
<1>0. /\ t \in Idle /\ down \in Seq(Action) /\ up \in Seq(Action)
      /\ s.buffered_request = None
      /\ s.connection_address = Client /\ s.state = "OpenIdle" /\ s.seq_no_recv = k
      /\ n \in Nat /\ last \in Nat /\ last <= n /\ t.seq_no_send \in SeqNo
      /\ Ordered(Flow(t, up), last, s)
  BY IdleFacts, SoundFacts DEF Link, DownOK, UpOK, ClientOK, ServerOK, Takes
<1>1. /\ v \in Idle /\ v.state = "OpenIdle" /\ v.buffered_request = None
      /\ v.connection_address = Client /\ v.seq_no_recv = After(k)
  BY <1>0, Taken DEF Takes, SameLink
<1>2. k \in SeqNo /\ f \in Action /\ IsAck(f) /\ f.seq_no = k
  BY <1>0, HeadFacts, AckFrame
<1>3. r = down \/ r = Append(down, f)
  BY DEF Carried, Takes
<1>4. new_last \in Nat /\ last < new_last /\ new_last <= n
  <2>1. /\ new_last \in Nat /\ new_last <= n /\ last <= new_last
        /\ new_last = last => s.seq_no_recv = After(k)
    BY <1>0, HeadFacts
  <2>2. s.seq_no_recv # After(k)
    BY <1>0, <1>2, AfterInjective
  <2> QED BY <1>0, <2>1, <2>2
<1>5. Ordered(Flow(t, up), new_last, v)
  <2>1. /\ Flow(t, up) \in Seq(Action)
        /\ 1 \in DOMAIN Flow(t, up) /\ Flow(t, up)[1] = up[1]
    BY <1>0, FlowFacts
  <2> QED BY <1>0, <1>1, <2>1, DeliveredOrdered
<1> HIDE DEF v, f
<1>6. ServerOK(v)
  BY <1>1 DEF ServerOK
<1>7. DownOK(r)
  <2>1. DownOK(down) /\ FromServer(f)
    BY <1>2 DEF Link, FromServer
  <2>2. CASE r = Append(down, f)
    <3>1. r \in Seq(Action)
      BY <1>0, <1>2, <2>2, Appended
    <3>2. \A i \in DOMAIN r : (i \in DOMAIN down /\ r[i] = down[i]) \/ r[i] = f
      BY <1>0, <1>2, <2>2, Appended
    <3> QED BY <2>1, <3>1, <3>2 DEF DownOK
  <2> QED BY <1>3, <2>1, <2>2
<1>8. ASSUME p, t.state # "Closed" PROVE Patient(t, v, up, r, new_last, n)
  <2>9. Link(t, s, up, down, TRUE, n, last)
    BY <1>8 DEF Link
  <2>0. /\ UpStream(t, up, last) /\ DownStream(t, down, last, n)
        /\ InStep(t, s, last, n) /\ ConnectFirst(up, down)
    BY <1>8 DEF Link, Patient
  <2>1. t.state = "OpenWait" /\ new_last = n /\ k = t.seq_no_send
    <3>1. \/ up[1].apdu <= last
          \/ t.state = "OpenWait" /\ up[1].apdu = n /\ up[1].seq_no = t.seq_no_send
      BY <1>8, <2>9, PatientHead
    <3> QED BY <1>0, <1>4, <3>1
  <2>2. InStep(t, v, new_last, n)
    BY <1>1, <2>1 DEF InStep
  <2>3. ConnectFirst(up, r)
    BY <1>8, <2>9, PatientHead DEF ConnectFirst
  <2>4. DownStream(t, down, new_last, n)
    BY <2>0, <2>1 DEF DownStream
  <2>5. DownStream(t, r, new_last, n)
    BY <1>0, <1>2, <1>3, <2>1, <2>4, AckFollows
  <2>6. UpStream(t, up, new_last)
    <3>1. \A i \in DOMAIN up : IsData(up[i]) => up[i].apdu \in Nat
      BY <1>0, ChannelFacts, FrameFacts
    <3> QED BY <1>0, <1>4, <2>0, <3>1 DEF UpStream
  <2> QED BY <2>2, <2>3, <2>5, <2>6 DEF Patient
<1>9. p => Patient(t, v, up, r, new_last, n)
  BY <1>8 DEF Patient
<1>10. Link(t, v, up, r, p, n, new_last)
  BY <1>0, <1>4, <1>5, <1>6, <1>7, <1>9 DEF Link
<1> QED BY <1>0, <1>4, <1>10 DEF v

LEMMA TimePasses ==
    ASSUME NEW t, NEW s, NEW up, NEW down, NEW p, NEW n, NEW last,
           Link(t, s, up, down, p, n, last)
    PROVE  Link(Elapse(t), Elapse(s), up, down, p, n, last)
<1> DEFINE w == Elapse(t)
           v == Elapse(s)
<1>0. t \in Idle /\ s \in Idle
  BY DEF Link, ClientOK, ServerOK
<1>1. \A x \in Idle : /\ Elapse(x) \in Idle
                      /\ Elapse(x).state = x.state /\ SameLink(x, Elapse(x))
                      /\ Elapse(x).buffered_request = x.buffered_request
  <2> SUFFICES ASSUME NEW x \in Idle
               PROVE  /\ Elapse(x) \in Idle
                      /\ Elapse(x).state = x.state /\ SameLink(x, Elapse(x))
                      /\ Elapse(x).buffered_request = x.buffered_request
    OBVIOUS
  <2>1. Elapse(x) \in Sound
    BY IdleFacts, ElapseSound
  <2>2. /\ Elapse(x).state = x.state /\ SameLink(x, Elapse(x))
        /\ Elapse(x).buffered_request = x.buffered_request /\ Elapse(x).actions = <<>>
    BY IdleFacts DEF Elapse, Transport, SameLink
  <2> QED BY <2>1, <2>2 DEF Idle
<1>2. /\ w \in Idle /\ w.state = t.state /\ SameLink(t, w)
      /\ w.buffered_request = t.buffered_request
      /\ v \in Idle /\ v.state = s.state /\ SameLink(s, v)
      /\ v.buffered_request = s.buffered_request
  BY <1>0, <1>1
<1> HIDE DEF v, w
<1>3. ClientOK(w, n) /\ ServerOK(v)
  BY <1>2 DEF Link, ClientOK, ServerOK, SameLink
<1>4. Saved(w) = Saved(t) /\ w.seq_no_send = t.seq_no_send /\ v.seq_no_recv = s.seq_no_recv
  BY <1>2 DEF Saved, SameLink
<1>5. Flow(w, up) = Flow(t, up)
  BY <1>2, <1>4 DEF Flow
<1>6. Ordered(Flow(w, up), last, v)
  BY <1>2, <1>4, <1>5, SettledOrdered DEF Link
<1>7. Patient(t, s, up, down, last, n) => Patient(w, v, up, down, last, n)
  BY <1>2, <1>4 DEF Patient, UpStream, DownStream, InStep
<1> QED BY <1>3, <1>6, <1>7 DEF Link, v, w

-----------------------------------------------------------------------------
(* The receiving application's history.                                     *)

LEMMA HistoryAppend ==
    ASSUME NEW d, NEW n \in Nat, History(d, n), NEW x \in 1 .. n, Last(d) < x
    PROVE  /\ History(Append(d, x), n)
           /\ Last(Append(d, x)) = x
           /\ \A i \in DOMAIN d : d[i] < x
<1>0. /\ d \in Seq(Nat) /\ x \in Nat
      /\ \A i \in DOMAIN d : d[i] <= Last(d)
      /\ Last(d) \in Nat
  BY DEF History
<1>1. DOMAIN d = 1 .. Len(d) /\ Len(d) \in Nat
  BY <1>0
<1>2. \A i \in DOMAIN d : d[i] \in Nat /\ d[i] < x
  <2> SUFFICES ASSUME NEW i \in DOMAIN d PROVE d[i] \in Nat /\ d[i] < x
    OBVIOUS
  <2>1. d[i] \in Nat /\ d[i] <= Last(d)
    BY <1>0
  <2> QED BY <1>0, <2>1
<1> DEFINE e == Append(d, x)
<1>3. e \in Seq(Nat) /\ Len(e) = Len(d) + 1
  BY <1>0
<1>4. \A i \in 1 .. Len(d) : e[i] = d[i]
  BY <1>0
<1>5. e[Len(d) + 1] = x
  BY <1>0
<1> HIDE DEF e
<1>6. e # <<>>
  BY <1>1, <1>3
<1>7. Last(e) = x
  BY <1>3, <1>5, <1>6 DEF Last
<1>8. \A i \in DOMAIN e : e[i] <= x
  <2>1. DOMAIN e = 1 .. Len(d) + 1
    BY <1>3
  <2> QED BY <1>0, <1>1, <1>2, <1>4, <1>5, <2>1
<1> QED BY <1>0, <1>2, <1>3, <1>7, <1>8 DEF History, e

LEMMA HistoryOffered ==
    ASSUME NEW d, NEW n \in Nat, History(d, n)
    PROVE  History(d, n + 1)
BY DEF History

LEMMA LastArrived ==
    ASSUME NEW d, NEW n, History(d, n), Last(d) # 0
    PROVE  \E i \in DOMAIN d : d[i] = Last(d)
<1>1. d \in Seq(Nat) /\ d # <<>>
  BY DEF History, Last
<1>2. Len(d) \in DOMAIN d
  BY <1>1
<1> QED BY <1>1, <1>2 DEF Last

-----------------------------------------------------------------------------
(* Every step preserves the invariant and is one of ConfirmedDelivery.      *)

LEMMA NewIdle == new \in Idle /\ new.state = "Closed" /\ new.buffered_request = None
BY NewSound DEF Idle, new

LEMMA InitIInv == Init => IInv
<1> SUFFICES ASSUME Init PROVE IInv
  OBVIOUS
<1>1. /\ client = new /\ server = new /\ toServer = <<>> /\ toClient = <<>>
      /\ patient \in BOOLEAN /\ offered = 0 /\ delivered = <<>>
  BY DEF Init
<1>2. Last(delivered) = 0 /\ History(delivered, offered)
  BY <1>1 DEF Last, History
<1>3. ClientOK(client, 0) /\ ServerOK(server)
  BY <1>1, NewIdle DEF ClientOK, ServerOK
<1>4. UpOK(toServer, 0) /\ DownOK(toClient)
  BY <1>1 DEF UpOK, DownOK
<1>5. Flow(client, toServer) = <<>>
  BY <1>1, NewIdle DEF Flow
<1>6. Ordered(Flow(client, toServer), 0, server)
  BY <1>5 DEF Ordered, Pairwise, Separated
<1>7. Patient(client, server, toServer, toClient, 0, 0)
  BY <1>1, NewIdle DEF Patient
<1>8. 0 \in 0 .. MaxPayload /\ 0 \in 0 .. 0
  BY ConnectionAssumption
<1> QED BY <1>1, <1>2, <1>3, <1>4, <1>6, <1>7, <1>8 DEF IInv, Link

\* A step that the two applications do not notice.
Hidden == UNCHANGED <<offered, confirmed, delivered, patient>>

LEMMA ClientHidden ==
    ASSUME IInv, NEW u, Keeps(client, u), ClientCalls(u), offered' = offered,
           toClient' = toClient \/ (toClient # <<>> /\ toClient' \in Remaining(toClient))
    PROVE  IInv' /\ Hidden
<1>1. /\ client' = take_actions(u) /\ server' = server /\ patient' = patient
      /\ delivered' = delivered /\ confirmed' = confirmed
      /\ toServer' \in Carried(toServer, Frames(u.actions))
  BY SentCarried DEF ClientCalls, Keeps, Unnoticed
<1>2. Link(client', server, toServer', toClient, patient, offered, Last(delivered))
  BY <1>1, ClientKeeps DEF IInv
<1>3. Link(client', server, toServer', toClient', patient, offered, Last(delivered))
  BY <1>2, DownRemains
<1> QED BY <1>1, <1>3 DEF IInv, Hidden

LEMMA ServerHidden ==
    ASSUME IInv, NEW u, Keeps(server, u) \/ Rejects(server, u), ServerCalls(u),
           toServer' = toServer \/ (toServer # <<>> /\ toServer' \in Remaining(toServer))
    PROVE  IInv' /\ Hidden
<1>1. /\ server' = take_actions(u) /\ client' = client /\ patient' = patient
      /\ offered' = offered /\ confirmed' = confirmed /\ delivered' = delivered
      /\ toClient' \in Carried(toClient, Frames(u.actions))
  BY SentCarried DEF ServerCalls, Keeps, Rejects, Unnoticed
<1>2. /\ server \in Idle /\ server.buffered_request = None
      /\ server.state \in {"Closed", "OpenIdle"}
      /\ server.state # "Closed" => server.connection_address = Client
  BY DEF IInv, Link, ServerOK
<1>3. u \in Sound /\ u.buffered_request = None
  BY <1>2 DEF Keeps, Rejects, Unnoticed
<1>4. /\ server' \in Idle /\ server'.buffered_request = None
      /\ server'.state = u.state /\ SameLink(u, server')
  BY <1>1, <1>3, Taken
<1>5. /\ \/ u.state = "Closed"
         \/ u.state = server.state /\ SameLink(server, u)
      /\ \A f \in Frames(u.actions) :
            f \in Action /\ (IsControl(f, "Nack") \/ IsControl(f, "Disconnect"))
  BY <1>2 DEF Keeps, Rejects, Quiet, Closes, Opens, Repeats
<1>6. ServerOK(server')
  BY <1>2, <1>4, <1>5 DEF ServerOK, SameLink
<1>7. \/ server'.state = "Closed"
      \/ server'.state = server.state /\ server'.seq_no_recv = server.seq_no_recv
  BY <1>4, <1>5 DEF SameLink
<1>8. Link(client, server', toServer, toClient', patient, offered, Last(delivered))
  BY <1>1, <1>5, <1>6, <1>7, ServerSettles DEF IInv
<1>9. Link(client, server', toServer', toClient', patient, offered, Last(delivered))
  BY <1>8, UpRemains
<1> QED BY <1>1, <1>9 DEF IInv, Hidden

\* What the sender of ConfirmedDelivery sees of a step.
Arrives(x) ==
    /\ x \in 1 .. offered /\ \A i \in DOMAIN delivered : delivered[i] < x
    /\ delivered' = Append(delivered, x)
    /\ UNCHANGED <<offered, confirmed, patient>>

Acknowledged(x) ==
    /\ patient => \E i \in DOMAIN delivered : delivered[i] = x
    /\ confirmed' = confirmed \cup {x}
    /\ UNCHANGED <<offered, delivered, patient>>

Visible ==
    \/ Hidden
    \/ offered' = offered + 1 /\ UNCHANGED <<confirmed, delivered, patient>>
    \/ \E x : Arrives(x)
    \/ \E x : Acknowledged(x)

LEMMA ClientReceivesStep == IInv /\ ClientReceives => IInv' /\ Visible
<1> SUFFICES ASSUME IInv, ClientReceives PROVE IInv' /\ Visible
  OBVIOUS
<1> DEFINE f == toClient[1]
           u == Receive(client, Server, f)
<1>1. /\ toClient \in Seq(Action) /\ toClient # <<>> /\ 1 \in DOMAIN toClient
      /\ f \in Action /\ FromServer(f) /\ Head(toClient) = f
      /\ ClientOK(client, offered)
  BY ChannelFacts DEF IInv, Link, DownOK, ClientReceives
<1>2. ClientCalls(u) /\ offered' = offered /\ toClient' \in Remaining(toClient)
  BY <1>1 DEF ClientReceives
<1> HIDE DEF f
<1>3. CASE Keeps(client, u)
  BY <1>1, <1>2, <1>3, ClientHidden DEF Visible
<1>4. CASE /\ IsAck(f) /\ f.seq_no = client.seq_no_send
           /\ u \in Sound /\ u.buffered_request = None
           /\ Acked(client, u, Frames(u.actions))
  <2>1. /\ client' = take_actions(u) /\ server' = server /\ patient' = patient
        /\ delivered' = delivered
        /\ toServer' = toServer
    BY <1>2, <1>4 DEF ClientCalls, Acked, Sent
  <2>2. /\ Link(client', server, toServer, toClient, patient, offered, Last(delivered))
        /\ patient => Last(delivered) = offered
    BY <1>1, <1>4, <2>1, ClientAcked DEF IInv, f
  <2>3. Link(client', server, toServer, toClient', patient, offered, Last(delivered))
    BY <1>1, <1>2, <2>2, DownRemains
  <2>4. IInv'
    BY <1>2, <2>1, <2>3 DEF IInv
  <2>5. client.saved_frame.apdu = offered /\ offered # 0
    <3>1. client.state = "OpenWait" /\ client \in Idle /\ client.saved_frame.apdu = offered
      BY <1>1, <1>4 DEF Acked, ClientOK
    <3> QED BY <3>1, SavedFacts, FrameFacts
  <2>6. CASE Confirms(u.actions)
    <3>1. confirmed' = confirmed \cup {offered}
      BY <1>2, <2>5, <2>6 DEF ClientCalls
    <3>2. patient => \E i \in DOMAIN delivered : delivered[i] = offered
      BY <2>2, <2>5, LastArrived DEF IInv
    <3>3. Acknowledged(offered)
      BY <1>2, <2>1, <3>1, <3>2 DEF Acknowledged
    <3> QED BY <2>4, <3>3 DEF Visible
  <2>7. CASE ~Confirms(u.actions)
    BY <1>2, <2>1, <2>4, <2>7 DEF ClientCalls, Visible, Hidden
  <2> QED BY <2>6, <2>7
<1> HIDE DEF u
<1> QED BY <1>1, <1>3, <1>4, ClientReceiveOutcome DEF u

LEMMA ServerReceivesStep == IInv /\ ServerReceives => IInv' /\ Visible
<1> SUFFICES ASSUME IInv, ServerReceives PROVE IInv' /\ Visible
  OBVIOUS
<1> DEFINE f == toServer[1]
           u == Receive(server, Client, f)
<1>1. /\ toServer \in Seq(Action) /\ toServer # <<>> /\ 1 \in DOMAIN toServer
      /\ f \in Action /\ FromClient(f) /\ Head(toServer) = f
      /\ ServerOK(server) /\ offered \in Nat
      /\ Link(client, server, toServer, toClient, patient, offered, Last(delivered))
  BY ChannelFacts DEF IInv, Link, UpOK, ServerReceives
<1>2. ServerCalls(u) /\ toServer' \in Remaining(toServer)
  BY <1>1 DEF ServerReceives
<1>3. /\ \/ Keeps(server, u)
         \/ IsConnect(f) /\ Accepts(server, u)
         \/ IsData(f) /\ (Rejects(server, u) \/ AcksAgain(server, u, f) \/ Takes(server, u, f))
  BY <1>1, ServerReceiveOutcome
<1> HIDE DEF u
<1>4. /\ server' = take_actions(u) /\ client' = client /\ patient' = patient
      /\ offered' = offered /\ confirmed' = confirmed
      /\ toClient' \in Carried(toClient, Frames(u.actions))
  BY <1>2, SentCarried DEF ServerCalls
<1>5. CASE Keeps(server, u) \/ Rejects(server, u)
  BY <1>1, <1>2, <1>5, ServerHidden DEF Visible
<1>6. CASE IsConnect(f) /\ Accepts(server, u)
  <2>1. toClient' = toClient /\ delivered' = delivered
    BY <1>2, <1>4, <1>6 DEF ServerCalls, Accepts, Unnoticed, Carried
  <2>2. Link(client, server', toServer, toClient, patient, offered, Last(delivered))
    BY <1>1, <1>4, <1>6, ServerAccepts
  <2>3. Link(client, server', toServer', toClient, patient, offered, Last(delivered))
    BY <1>1, <1>2, <2>2, UpRemains
  <2> QED BY <1>4, <2>1, <2>3 DEF IInv, Visible, Hidden
<1>7. CASE IsData(f) /\ AcksAgain(server, u, f)
  <2>1. delivered' = delivered
    BY <1>2, <1>7 DEF ServerCalls, AcksAgain, Unnoticed
  <2>2. Link(client, server', toServer, toClient', patient, offered, Last(delivered))
    BY <1>1, <1>4, <1>7, ServerAcksAgain
  <2>3. Link(client, server', toServer', toClient', patient, offered, Last(delivered))
    BY <1>1, <1>2, <2>2, UpRemains
  <2> QED BY <1>4, <2>1, <2>3 DEF IInv, Visible, Hidden
<1>8. CASE IsData(f) /\ Takes(server, u, f)
  <2>1. delivered' = Append(delivered, f.apdu)
    <3>1. Indicated(u.actions) = {f.apdu}
      BY <1>8 DEF Takes
    <3>2. (CHOOSE x \in {f.apdu} : TRUE) = f.apdu
      OBVIOUS
    <3> QED BY <1>2, <3>1, <3>2 DEF ServerCalls
  <2>2. /\ Link(client, server', toServer, toClient', patient, offered, f.apdu)
        /\ Last(delivered) < f.apdu /\ f.apdu \in 1 .. offered
    BY <1>1, <1>4, <1>8, ServerTakes
  <2>3. Link(client, server', toServer', toClient', patient, offered, f.apdu)
    BY <1>1, <1>2, <2>2, UpRemains
  <2>4. /\ History(delivered', offered) /\ Last(delivered') = f.apdu
        /\ \A i \in DOMAIN delivered : delivered[i] < f.apdu
    BY <1>1, <2>1, <2>2, HistoryAppend DEF IInv
  <2>5. IInv'
    BY <1>4, <2>3, <2>4 DEF IInv
  <2>6. Arrives(f.apdu)
    BY <1>4, <2>1, <2>2, <2>4 DEF Arrives
  <2> QED BY <2>5, <2>6 DEF Visible
<1> QED BY <1>3, <1>5, <1>6, <1>7, <1>8

LEMMA NextVisible == IInv /\ [Next]_vars => IInv' /\ Visible
<1> SUFFICES ASSUME IInv, [Next]_vars PROVE IInv' /\ Visible
  OBVIOUS
<1>0. /\ Link(client, server, toServer, toClient, patient, offered, Last(delivered))
      /\ client \in Idle /\ client.buffered_request = None
      /\ server \in Idle /\ server.buffered_request = None
      /\ offered \in Nat
  BY DEF IInv, Link, ClientOK, ServerOK
<1>1. CASE ServerReceives
  BY <1>1, ServerReceivesStep
<1>2. CASE ClientReceives
  BY <1>2, ClientReceivesStep
<1>3. CASE LoseToServer
  <2>1. /\ toServer # <<>> /\ toServer' \in Remaining(toServer) /\ Hidden
        /\ client' = client /\ server' = server /\ toClient' = toClient
    BY <1>3 DEF LoseToServer, Remaining, Hidden, ends, seen
  <2>2. Link(client, server, toServer', toClient, patient, offered, Last(delivered))
    BY <1>0, <2>1, UpRemains
  <2> QED BY <2>1, <2>2 DEF IInv, Visible, Hidden
<1>4. CASE LoseToClient
  <2>1. /\ toClient # <<>> /\ toClient' \in Remaining(toClient) /\ Hidden
        /\ client' = client /\ server' = server /\ toServer' = toServer
    BY <1>4 DEF LoseToClient, Remaining, Hidden, ends, seen
  <2>2. Link(client, server, toServer, toClient', patient, offered, Last(delivered))
    BY <1>0, <2>1, DownRemains
  <2> QED BY <2>1, <2>2 DEF IInv, Visible, Hidden
<1>5. CASE ClientConnects
  <2> DEFINE u == connect_request(client, Server)
  <2>1. Unnoticed(client, u) /\ Connects(client, u, Frames(u.actions))
    BY <1>0, <1>5, ConnectOutcome DEF ClientConnects
  <2>2. /\ ClientCalls(u) /\ toClient' = toClient /\ offered' = offered
        /\ patient => server.state = "Closed" /\ toServer = <<>> /\ toClient = <<>>
    BY <1>5 DEF ClientConnects, bus
  <2> HIDE DEF u
  <2>3. /\ client' = take_actions(u) /\ server' = server /\ patient' = patient
        /\ delivered' = delivered /\ confirmed' = confirmed
        /\ toServer' \in Carried(toServer, Frames(u.actions))
    BY <2>1, <2>2, SentCarried DEF ClientCalls, Unnoticed
  <2>4. Link(client', server, toServer', toClient, patient, offered, Last(delivered))
    BY <1>0, <2>1, <2>2, <2>3, ClientConnected
  <2> QED BY <2>2, <2>3, <2>4 DEF IInv, Visible, Hidden
<1>6. ASSUME NEW success \in BOOLEAN, ClientConfirms(success) PROVE IInv' /\ Visible
  <2>1. Keeps(client, connect_confirm(client, success))
    BY <1>0, <1>6, ConfirmOutcome DEF ClientConfirms
  <2> QED BY <1>6, <2>1, ClientHidden DEF ClientConfirms, Visible
<1>7. CASE ClientDisconnects
  <2>1. Keeps(client, disconnect_request(client))
    BY <1>0, <1>7, DisconnectOutcome DEF ClientDisconnects
  <2> QED BY <1>7, <2>1, ClientHidden DEF ClientDisconnects, Visible
<1>8. CASE ClientOffers
  <2> DEFINE u == data_connected_request(client, offered + 1)
  <2>0. offered + 1 \in Apdu /\ offered < MaxPayload
    BY <1>0, <1>8, ConnectionAssumption DEF ClientOffers
  <2>1. Unnoticed(client, u) /\ Offers(client, u, Frames(u.actions), offered + 1)
    BY <1>0, <1>8, <2>0, OfferOutcome DEF ClientOffers
  <2>2. ClientCalls(u) /\ toClient' = toClient /\ offered' = offered + 1
    BY <1>8 DEF ClientOffers
  <2> HIDE DEF u
  <2>3. /\ client' = take_actions(u) /\ server' = server /\ patient' = patient
        /\ delivered' = delivered /\ confirmed' = confirmed
        /\ toServer' \in Carried(toServer, Frames(u.actions))
    BY <2>1, <2>2, SentCarried DEF ClientCalls, Unnoticed
  <2>4. Link(client', server, toServer', toClient, patient, offered + 1, Last(delivered))
    BY <1>0, <2>0, <2>1, <2>3, ClientOffered
  <2>5. History(delivered, offered + 1)
    BY <1>0, HistoryOffered DEF IInv
  <2> QED BY <2>2, <2>3, <2>4, <2>5 DEF IInv, Visible
<1>9. CASE ServerDisconnects
  <2>1. Keeps(server, disconnect_request(server))
    BY <1>0, <1>9, DisconnectOutcome DEF ServerDisconnects
  <2> QED BY <1>9, <2>1, ServerHidden DEF ServerDisconnects, Visible
<1>10. CASE ClientPolls
  BY <1>0, <1>10, PollOutcome, ClientHidden DEF ClientPolls, Visible
<1>11. CASE ServerPolls
  BY <1>0, <1>11, PollOutcome, ServerHidden DEF ServerPolls, Visible
<1>12. CASE Tick
  BY <1>0, <1>12, TimePasses DEF Tick, bus, seen, IInv, Visible, Hidden
<1>13. CASE UNCHANGED vars
  BY <1>13 DEF vars, ends, bus, seen, IInv, Visible, Hidden
<1> QED BY <1>1, <1>2, <1>3, <1>4, <1>5, <1>6, <1>7, <1>8, <1>9, <1>10, <1>11, <1>12, <1>13
        DEF Next

\* The inductive invariant holds in every behaviour of the two endpoints.
THEOREM ConnectionInvariance == Spec => []IInv
BY InitIInv, NextVisible, PTL DEF Spec

\* However frames are lost and repeated and connections dropped and reopened,
\* no payload arrives twice or out of order, and what a patient client was
\* told is acknowledged has arrived: the connection implements ConfirmedDelivery.
THEOREM ConnectionDelivers == Spec => Delivers
<1>1. Init => Promise!Init
  BY DEF Init, Promise!Init
<1>2. IInv /\ Visible => [Promise!Next]_(Promise!vars)
  <2> SUFFICES ASSUME IInv, Visible PROVE [Promise!Next]_(Promise!vars)
    OBVIOUS
  <2>1. CASE Hidden
    BY <2>1 DEF Hidden, Promise!vars
  <2>2. CASE offered' = offered + 1 /\ UNCHANGED <<confirmed, delivered, patient>>
    BY <2>2 DEF Promise!Next, Promise!Offer
  <2>3. ASSUME NEW x, Arrives(x) PROVE Promise!Deliver
    BY <2>3 DEF Arrives, Promise!Deliver, Promise!Arrived
  <2>4. ASSUME NEW x, Acknowledged(x) PROVE [Promise!Confirm]_(Promise!vars)
    <3>1. CASE patient
      <4>1. x \in Promise!Arrived
        BY <2>4, <3>1 DEF Acknowledged, Promise!Arrived
      <4> QED BY <2>4, <3>1, <4>1 DEF Acknowledged, Promise!Confirm
    <3>2. CASE ~patient
      BY <2>4, <3>2 DEF Acknowledged, Promise!vars
    <3> QED BY <3>1, <3>2
  <2> QED BY <2>1, <2>2, <2>3, <2>4 DEF Visible, Promise!Next
<1>3. IInv /\ [Next]_vars => [Promise!Next]_(Promise!vars)
  BY <1>2, NextVisible
<1> QED BY <1>1, <1>3, ConnectionInvariance, PTL DEF Spec, Delivers, Promise!Spec

=============================================================================
