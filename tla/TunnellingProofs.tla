--------------------------- MODULE TunnellingProofs ---------------------------
(***************************************************************************)
(* A tunnel from end to end, for any number of sessions, channels, queued  *)
(* frames and datagrams on their way and any width of the sequence         *)
(* numbers: frames reach the client's application in order and none twice. *)
(*                                                                         *)
(* The two directions have an invariant each.  Uplink follows the requests *)
(* of the client, Downlink the frames of the server: those on their way,   *)
(* the one a tunnel may repeat and those that wait behind it.  Downlink    *)
(* needs Uplink: the server confirms every payload it accepts, so a        *)
(* payload accepted twice would be a confirmation out of order.            *)
(*                                                                         *)
(* For a client that reconnects, InStep relates the sequence numbers of    *)
(* the two ends: a positive acknowledgement of the request being served    *)
(* follows its delivery.  With it the tunnel implements ConfirmedDelivery. *)
(***************************************************************************)
EXTENDS Tunnelling, TLAPS, FiniteSetTheorems, WellFoundedInduction

-----------------------------------------------------------------------------
(* Types.                                                                   *)

Frame == [code : {"ind", "con"}, content : Nat]
Flight == [sequence : Seqno, cemi : Frame, attempts : Nat, deadline : Nat]
Tunnel ==
    {t \in [channel_id : Channel, ctrl_addr : Addr, data_addr : Addr,
            send_seq : Seqno, recv_seq : Seqno, heartbeat_age : Nat,
            outbox : Seq(Frame), in_flight : Seq(Flight)] : Len(t.in_flight) <= 1}

Session == [port : Addr, channel_id : 0 .. MAX_CHANNEL, send_seq : Seqno,
            recv_seq : Seqno, heartbeat_failures : Nat]

UpMsg ==
    [type : {"TunnelingRequest", "TunnelingAck", "ConnectRequest", "DisconnectRequest",
             "DisconnectResponse", "ConnectionStateRequest"},
     port : Addr, channel : 0 .. MAX_CHANNEL, seq : Seqno, payload : Nat]

DownMsg ==
    [type : {"TunnelingAck", "ConnectResponse", "DisconnectRequest", "DisconnectResponse",
             "ConnectionStateResponse"},
     to : Addr, channel : 0 .. MAX_CHANNEL, seq : Seqno,
     status : {"E_NO_ERROR", "E_CONNECTION_ID", "E_NO_MORE_CONNECTIONS", ""}]
    \cup [type : {"TunnelingRequest"}, to : Addr, channel : Channel, seq : Seqno, cemi : Frame]

Place == {"select", "await_ack", "await_state"}

IsRequest(d) == d.type = "TunnelingRequest"
IsConnect(d) == d.type = "ConnectRequest"

Older(f, g) == f.code = g.code => f.content < g.content

\* The payload delivered last, 0 if there is none.
LastOf(d) == IF d = <<>> THEN 0 ELSE d[Len(d)]

\* The frames the client has taken: those handed over and the one that waits.
ReceivedOf(h, b) == IF b = <<>> THEN h ELSE Append(h, b[1].cemi)

-----------------------------------------------------------------------------
(* Sequences.                                                               *)

\* w2 is what is left of w when datagrams are taken from its front.
Suffix(w2, w) ==
    \E n \in Nat : \A i \in DOMAIN w2 : i + n \in DOMAIN w /\ w2[i] = w[i + n]

LEMMA AppendFacts ==
    ASSUME NEW S, NEW s \in Seq(S), NEW e \in S
    PROVE  /\ Append(s, e) \in Seq(S)
           /\ Len(Append(s, e)) = Len(s) + 1 /\ Len(s) \in Nat
           /\ Append(s, e) # <<>>
           /\ DOMAIN s = 1 .. Len(s)
           /\ DOMAIN Append(s, e) = 1 .. Len(s) + 1
           /\ Append(s, e)[Len(s) + 1] = e
           /\ \A i \in 1 .. Len(s) : Append(s, e)[i] = s[i]
<1>1. Append(s, e) \in Seq(S) /\ Len(Append(s, e)) = Len(s) + 1 /\ Len(s) \in Nat
    OBVIOUS
<1>2. DOMAIN s = 1 .. Len(s) /\ DOMAIN Append(s, e) = 1 .. Len(s) + 1
    BY <1>1
<1>3. Append(s, e)[Len(s) + 1] = e /\ \A i \in 1 .. Len(s) : Append(s, e)[i] = s[i]
    OBVIOUS
<1>4. Append(s, e) # <<>>
    BY <1>1
<1> QED
    BY <1>1, <1>2, <1>3, <1>4

LEMMA TailFacts ==
    ASSUME NEW S, NEW s \in Seq(S), s # <<>>
    PROVE  /\ Tail(s) \in Seq(S) /\ Len(s) \in Nat /\ Len(s) >= 1
           /\ Len(Tail(s)) = Len(s) - 1
           /\ Head(s) = s[1] /\ Head(s) \in S
           /\ DOMAIN s = 1 .. Len(s) /\ DOMAIN Tail(s) = 1 .. Len(s) - 1
           /\ \A i \in 1 .. Len(s) - 1 : Tail(s)[i] = s[i + 1]
           /\ Suffix(Tail(s), s)
<1>1. /\ Tail(s) \in Seq(S) /\ Len(s) \in Nat /\ Len(s) >= 1
      /\ Len(Tail(s)) = Len(s) - 1
    OBVIOUS
<1>2. DOMAIN s = 1 .. Len(s) /\ DOMAIN Tail(s) = 1 .. Len(s) - 1
    BY <1>1
<1>3. Head(s) = s[1] /\ \A i \in 1 .. Len(s) - 1 : Tail(s)[i] = s[i + 1]
    BY <1>1
<1>4. s[1] \in S
    BY <1>1, <1>2
<1>5. \A i \in DOMAIN Tail(s) : i + 1 \in DOMAIN s /\ Tail(s)[i] = s[i + 1]
    BY <1>1, <1>2, <1>3
<1>6. Suffix(Tail(s), s)
    BY <1>5 DEF Suffix
<1> QED
    BY <1>1, <1>2, <1>3, <1>4, <1>6

LEMMA SuffixItself ==
    ASSUME NEW S, NEW s \in Seq(S)
    PROVE  Suffix(s, s)
<1>1. DOMAIN s = 1 .. Len(s) /\ Len(s) \in Nat
    OBVIOUS
<1>2. \A i \in DOMAIN s : i + 0 \in DOMAIN s /\ s[i] = s[i + 0]
    BY <1>1
<1> QED
    BY <1>2 DEF Suffix

LEMMA SuffixEmpty ==
    ASSUME NEW w
    PROVE  Suffix(<<>>, w)
<1>1. DOMAIN <<>> = {}
    OBVIOUS
<1> QED
    BY <1>1 DEF Suffix

\* What the network makes of a wire of which the oldest datagram is delivered.
LEMMA RemainingFacts ==
    ASSUME NEW S, NEW w \in Seq(S), w # <<>>, Len(w) <= MaxOnWire, NEW w2 \in Remaining(w)
    PROVE  /\ w2 \in Seq(S) /\ Len(w2) <= MaxOnWire /\ Suffix(w2, w)
           /\ Head(w) = w[1] /\ Head(w) \in S
           /\ w2 = w \/ w2 = Tail(w)
<1>1. /\ Tail(w) \in Seq(S) /\ Len(w) \in Nat /\ Len(Tail(w)) = Len(w) - 1
      /\ Head(w) = w[1] /\ Head(w) \in S /\ Suffix(Tail(w), w)
    BY TailFacts
<1>2. Len(Tail(w)) <= MaxOnWire
    BY <1>1, WireAssumption
<1>3. Suffix(w, w)
    BY SuffixItself
<1> QED
    BY <1>1, <1>2, <1>3 DEF Remaining

\* What the network makes of datagrams that are sent.
Extends(w2, w, d) == w2 = w \/ w2 = Append(w, d)

LEMMA PutNothing ==
    ASSUME NEW S, NEW w \in Seq(S), Len(w) <= MaxOnWire
    PROVE  Put(w, <<>>) = w
<1>1. w \o <<>> = w
    OBVIOUS
<1>2. Len(w) \in Nat
    OBVIOUS
<1>3. (IF Len(w) < MaxOnWire THEN Len(w) ELSE MaxOnWire) = Len(w)
    BY <1>2, WireAssumption
<1>4. SubSeq(w, 1, Len(w)) = w
    OBVIOUS
<1> QED
    BY <1>1, <1>3, <1>4 DEF Put

LEMMA PutAppended ==
    ASSUME NEW S, NEW w \in Seq(S), Len(w) <= MaxOnWire, NEW d \in S
    PROVE  LET w2 == Put(w, <<d>>) IN
           /\ w2 \in Seq(S) /\ Len(w2) <= MaxOnWire
           /\ Extends(w2, w, d)
<1> DEFINE all == w \o <<d>>
           w2 == Put(w, <<d>>)
<1>1. all = Append(w, d)
    OBVIOUS
<1>2. all \in Seq(S) /\ Len(all) = Len(w) + 1 /\ Len(w) \in Nat
    BY <1>1
<1>3. CASE Len(w) < MaxOnWire
    <2>1. (IF Len(all) < MaxOnWire THEN Len(all) ELSE MaxOnWire) = Len(all)
        BY <1>2, <1>3, WireAssumption
    <2>2. SubSeq(all, 1, Len(all)) = all
        BY <1>2
    <2>3. w2 = all
        BY <2>1, <2>2 DEF Put
    <2>4. Len(all) <= MaxOnWire
        BY <1>2, <1>3, WireAssumption
    <2> HIDE DEF all, w2
    <2> QED
        BY <1>1, <1>2, <2>3, <2>4 DEF Extends, w2
<1>4. CASE ~ (Len(w) < MaxOnWire)
    <2>1. Len(w) = MaxOnWire
        BY <1>2, <1>4, WireAssumption
    <2>2. (IF Len(all) < MaxOnWire THEN Len(all) ELSE MaxOnWire) = Len(w)
        BY <1>2, <2>1, WireAssumption
    <2>3. w2 = SubSeq(all, 1, Len(w))
        BY <2>2 DEF Put
    <2>4. SubSeq(Append(w, d), 1, Len(w)) = w
        OBVIOUS
    <2>5. w2 = w
        BY <1>1, <2>3, <2>4
    <2> QED
        BY <2>5 DEF Extends
<1> QED
    BY <1>3, <1>4

LEMMA PutTwo ==
    ASSUME NEW S, NEW w \in Seq(S), Len(w) <= MaxOnWire, NEW d \in S, NEW e \in S
    PROVE  Put(w, <<d>> \o <<e>>) = Put(Put(w, <<d>>), <<e>>)
<1> DEFINE all == w \o (<<d>> \o <<e>>)
           v == Put(w, <<d>>)
           m == MaxOnWire
           n == Len(w)
<1>1. n \in Nat /\ n <= m /\ m \in Nat
    BY WireAssumption
<1>2. all = Append(Append(w, d), e)
    OBVIOUS
<1>3. Len(all) = n + 2 /\ all \in Seq(S)
    BY <1>2
<1>4. CASE n = m
    <2>1. Put(w, <<d>> \o <<e>>) = SubSeq(all, 1, n)
        BY <1>1, <1>3, <1>4 DEF Put
    <2>2. SubSeq(Append(Append(w, d), e), 1, Len(w)) = w
        OBVIOUS
    <2>3. v = w
        <3>1. w \o <<d>> = Append(w, d) /\ Len(w \o <<d>>) = n + 1
            OBVIOUS
        <3>2. v = SubSeq(w \o <<d>>, 1, n)
            BY <1>1, <1>4, <3>1 DEF Put
        <3>3. SubSeq(Append(w, d), 1, Len(w)) = w
            OBVIOUS
        <3> QED
            BY <3>1, <3>2, <3>3
    <2>4. Put(w, <<e>>) = w
        <3>1. w \o <<e>> = Append(w, e) /\ Len(w \o <<e>>) = n + 1
            OBVIOUS
        <3>2. Put(w, <<e>>) = SubSeq(w \o <<e>>, 1, n)
            BY <1>1, <1>4, <3>1 DEF Put
        <3>3. SubSeq(Append(w, e), 1, Len(w)) = w
            OBVIOUS
        <3> QED
            BY <3>1, <3>2, <3>3
    <2> QED
        BY <1>2, <2>1, <2>2, <2>3, <2>4
<1>5. CASE n # m
    <2>1. v = Append(w, d)
        <3>1. w \o <<d>> = Append(w, d) /\ Len(w \o <<d>>) = n + 1
            OBVIOUS
        <3>2. v = SubSeq(w \o <<d>>, 1, n + 1)
            BY <1>1, <1>5, <3>1 DEF Put
        <3>3. SubSeq(Append(w, d), 1, Len(w) + 1) = Append(w, d)
            OBVIOUS
        <3> QED
            BY <3>1, <3>2, <3>3
    <2>2. Append(w, d) \in Seq(S)
        OBVIOUS
    <2>3. Append(w, d) \o <<e>> = Append(Append(w, d), e)
        BY <2>2
    <2>4. v \o <<e>> = all
        BY <1>2, <2>1, <2>3
    <2> QED
        BY <2>4 DEF Put
<1> QED
    BY <1>4, <1>5

-----------------------------------------------------------------------------
(* The client's requests, from their payload to the tunnel that takes them. *)

\* Requests are on the wire in the order of their payloads.
Rising(w) ==
    \A i, j \in DOMAIN w :
        (i < j /\ IsRequest(w[i]) /\ IsRequest(w[j])) =>
            w[i].payload < w[j].payload \/ w[i] = w[j]

\* d is not older than any request on the wire.
NotBefore(w, d) == \A i \in DOMAIN w : IsRequest(w[i]) => w[i].payload < d.payload \/ w[i] = d

Matches(t, d) == t.channel_id = d.channel /\ t.data_addr = d.port

\* d is new to the server, or the last that was delivered and will not be again.
NotTwice(d, ts, last) ==
    /\ last <= d.payload
    /\ d.payload = last => \A t \in ts : Matches(t, d) => t.recv_seq # d.seq

\* A connect request precedes the requests of its session, and they are new.
ConnectsFirst(w, last) ==
    \A i, j \in DOMAIN w :
        (IsConnect(w[i]) /\ IsRequest(w[j]) /\ w[i].port = w[j].port) =>
            i < j /\ last < w[j].payload

\* The request r that is being served, and may be sent again.
Served(w, ts, last, n, r) ==
    /\ r \in UpMsg /\ IsRequest(r) /\ r.payload = n
    /\ NotBefore(w, r)
    /\ NotTwice(r, ts, last)
    /\ \A i \in DOMAIN w : (IsConnect(w[i]) /\ w[i].port = r.port) => last < r.payload

UpInv(w, ts, last, n, c, r) ==
    /\ Rising(w)
    /\ \A i \in DOMAIN w : IsRequest(w[i]) => NotTwice(w[i], ts, last) /\ w[i].payload <= n
    /\ ConnectsFirst(w, last)
    /\ last <= n
    /\ c = "served" => Served(w, ts, last, n, r)
    /\ c = "queued" =>
          last < n /\ \A i \in DOMAIN w : IsRequest(w[i]) => w[i].payload < n

LEMMA UpSuffix ==
    ASSUME NEW w \in Seq(UpMsg), NEW w2 \in Seq(UpMsg), Suffix(w2, w),
           NEW ts, NEW last, NEW n, NEW c, NEW r, UpInv(w, ts, last, n, c, r)
    PROVE  UpInv(w2, ts, last, n, c, r)
<1>1. PICK k \in Nat : \A i \in DOMAIN w2 : i + k \in DOMAIN w /\ w2[i] = w[i + k]
    BY DEF Suffix
<1>2. DOMAIN w2 = 1 .. Len(w2) /\ Len(w2) \in Nat
    OBVIOUS
<1>3. Rising(w2)
    <2>1. \A i, j \in DOMAIN w2 : i < j => i + k < j + k
        BY <1>2
    <2> QED
        BY <1>1, <2>1 DEF UpInv, Rising
<1>4. ConnectsFirst(w2, last)
    <2>1. \A i, j \in DOMAIN w2 : i + k < j + k => i < j
        BY <1>2
    <2> QED
        BY <1>1, <2>1 DEF UpInv, ConnectsFirst
<1>5. c = "served" => Served(w2, ts, last, n, r)
    BY <1>1 DEF UpInv, Served, NotBefore
<1>6. /\ \A i \in DOMAIN w2 : IsRequest(w2[i]) => NotTwice(w2[i], ts, last) /\ w2[i].payload <= n
      /\ c = "queued" => \A i \in DOMAIN w2 : IsRequest(w2[i]) => w2[i].payload < n
    BY <1>1 DEF UpInv
<1> QED
    BY <1>3, <1>4, <1>5, <1>6 DEF UpInv

LEMMA UpPassed ==
    ASSUME NEW w \in Seq(UpMsg), NEW d \in UpMsg, ~ IsRequest(d), ~ IsConnect(d),
           NEW w2, Extends(w2, w, d),
           NEW ts, NEW last, NEW n, NEW c, NEW r, UpInv(w, ts, last, n, c, r)
    PROVE  UpInv(w2, ts, last, n, c, r)
<1>1. CASE w2 = w
    BY <1>1
<1>2. CASE w2 = Append(w, d)
    <2>1. /\ Len(w) \in Nat /\ DOMAIN w = 1 .. Len(w) /\ DOMAIN w2 = 1 .. Len(w) + 1
          /\ w2[Len(w) + 1] = d /\ \A i \in 1 .. Len(w) : w2[i] = w[i]
        BY <1>2, AppendFacts
    <2>2. \A i \in DOMAIN w2 : IsRequest(w2[i]) \/ IsConnect(w2[i]) =>
              i \in DOMAIN w /\ w2[i] = w[i]
        BY <2>1
    <2>3. Rising(w2)
        BY <2>2 DEF UpInv, Rising
    <2>4. ConnectsFirst(w2, last)
        BY <2>2 DEF UpInv, ConnectsFirst
    <2>5. c = "served" => Served(w2, ts, last, n, r)
        BY <2>2 DEF UpInv, Served, NotBefore
    <2>6. /\ \A i \in DOMAIN w2 : IsRequest(w2[i]) => NotTwice(w2[i], ts, last) /\ w2[i].payload <= n
          /\ c = "queued" => \A i \in DOMAIN w2 : IsRequest(w2[i]) => w2[i].payload < n
        BY <2>2 DEF UpInv
    <2> QED
        BY <2>3, <2>4, <2>5, <2>6 DEF UpInv
<1> QED
    BY <1>1, <1>2 DEF Extends

LEMMA UpSent ==
    ASSUME NEW w \in Seq(UpMsg), NEW r \in UpMsg, NEW w2, Extends(w2, w, r),
           NEW ts, NEW last \in Nat, NEW n \in Nat, UpInv(w, ts, last, n, "served", r)
    PROVE  UpInv(w2, ts, last, n, "served", r)
<1>1. CASE w2 = w
    BY <1>1
<1>2. CASE w2 = Append(w, r)
    <2>0. Served(w, ts, last, n, r)
        BY DEF UpInv
    <2>1. /\ Len(w) \in Nat /\ DOMAIN w = 1 .. Len(w) /\ DOMAIN w2 = 1 .. Len(w) + 1
          /\ w2[Len(w) + 1] = r /\ \A i \in 1 .. Len(w) : w2[i] = w[i]
        BY <1>2, AppendFacts
    <2>2. \A i \in DOMAIN w2 : \/ i = Len(w) + 1 /\ w2[i] = r
                               \/ i \in DOMAIN w /\ w2[i] = w[i]
        BY <2>1
    <2>3. \A i \in DOMAIN w : i < Len(w) + 1 /\ ~ (Len(w) + 1 < i)
        BY <2>1
    <2>4. ~ (Len(w) + 1 < Len(w) + 1)
        BY <2>1
    <2>5. Rising(w2)
        BY <2>0, <2>2, <2>3, <2>4 DEF UpInv, Rising, Served, NotBefore
    <2>6. ConnectsFirst(w2, last)
        BY <2>0, <2>2, <2>3 DEF UpInv, ConnectsFirst, Served, IsConnect, IsRequest
    <2>7. Served(w2, ts, last, n, r)
        BY <2>0, <2>2 DEF Served, NotBefore, IsConnect, IsRequest
    <2>8. \A i \in DOMAIN w2 : IsRequest(w2[i]) => NotTwice(w2[i], ts, last) /\ w2[i].payload <= n
        BY <2>0, <2>2 DEF UpInv, Served
    <2> QED
        BY <2>5, <2>6, <2>7, <2>8 DEF UpInv
<1> QED
    BY <1>1, <1>2 DEF Extends

LEMMA UpConnects ==
    ASSUME NEW w \in Seq(UpMsg), NEW d \in UpMsg, IsConnect(d),
           \A i \in DOMAIN w : w[i].port # d.port,
           NEW w2, Extends(w2, w, d),
           NEW ts, NEW last, NEW n, NEW c, c # "served", NEW r, UpInv(w, ts, last, n, c, r)
    PROVE  UpInv(w2, ts, last, n, c, r)
<1>1. CASE w2 = w
    BY <1>1
<1>2. CASE w2 = Append(w, d)
    <2>1. /\ Len(w) \in Nat /\ DOMAIN w = 1 .. Len(w) /\ DOMAIN w2 = 1 .. Len(w) + 1
          /\ w2[Len(w) + 1] = d /\ \A i \in 1 .. Len(w) : w2[i] = w[i]
        BY <1>2, AppendFacts
    <2>0. ~ IsRequest(d)
        BY DEF IsRequest, IsConnect
    <2>2. \A i \in DOMAIN w2 : IsRequest(w2[i]) => i \in DOMAIN w /\ w2[i] = w[i]
        BY <2>0, <2>1
    <2>3. \A i \in DOMAIN w2 : (i \in DOMAIN w /\ w2[i] = w[i]) \/ w2[i] = d
        BY <2>1
    <2>4. Rising(w2)
        BY <2>2 DEF UpInv, Rising
    <2>5. ConnectsFirst(w2, last)
        BY <2>2, <2>3 DEF UpInv, ConnectsFirst
    <2>6. /\ \A i \in DOMAIN w2 : IsRequest(w2[i]) => NotTwice(w2[i], ts, last) /\ w2[i].payload <= n
          /\ c = "queued" => \A i \in DOMAIN w2 : IsRequest(w2[i]) => w2[i].payload < n
        BY <2>2 DEF UpInv
    <2> QED
        BY <2>4, <2>5, <2>6 DEF UpInv
<1> QED
    BY <1>1, <1>2 DEF Extends

\* Tunnels that expect the requests they expected before.
LEMMA UpTunnels ==
    ASSUME NEW ts, NEW ts2,
           \A u \in ts2 : \E t \in ts : /\ t.channel_id = u.channel_id
                                        /\ t.data_addr = u.data_addr /\ t.recv_seq = u.recv_seq,
           NEW w, NEW last, NEW n, NEW c, NEW r, UpInv(w, ts, last, n, c, r)
    PROVE  UpInv(w, ts2, last, n, c, r)
<1>1. ASSUME NEW d, NotTwice(d, ts, last) PROVE NotTwice(d, ts2, last)
    BY <1>1 DEF NotTwice, Matches
<1>2. c = "served" => Served(w, ts2, last, n, r)
    BY <1>1 DEF UpInv, Served
<1> QED
    BY <1>1, <1>2 DEF UpInv

LEMMA UpOpened ==
    ASSUME NEW w \in Seq(UpMsg), NEW ts, NEW u,
           NEW i \in DOMAIN w, IsConnect(w[i]), w[i].port = u.data_addr,
           NEW last \in Nat, NEW n, NEW c, NEW r, UpInv(w, ts, last, n, c, r)
    PROVE  UpInv(w, ts \cup {u}, last, n, c, r)
<1>1. ASSUME NEW d, NotTwice(d, ts, last), d.port = u.data_addr => last < d.payload,
             d.payload \in Nat
      PROVE  NotTwice(d, ts \cup {u}, last)
    BY <1>1 DEF NotTwice, Matches
<1>2. ASSUME NEW j \in DOMAIN w, IsRequest(w[j])
      PROVE  NotTwice(w[j], ts \cup {u}, last)
    <2>1. w[j] \in UpMsg
        OBVIOUS
    <2>2. w[j].port = u.data_addr => last < w[j].payload
        BY <1>2 DEF UpInv, ConnectsFirst
    <2>3. NotTwice(w[j], ts, last)
        BY <1>2 DEF UpInv
    <2> QED
        BY <1>1, <2>1, <2>2, <2>3 DEF UpMsg
<1>3. c = "served" => Served(w, ts \cup {u}, last, n, r)
    BY <1>1 DEF UpInv, Served, UpMsg
<1> QED
    BY <1>2, <1>3 DEF UpInv

-----------------------------------------------------------------------------
(* The frames of the server on their way to the client: those on the wire,  *)
(* the one in flight, of which the wire may hold copies, and those that     *)
(* wait, in one line for every channel.                                     *)

OnChannel(d, id) == IsRequest(d) /\ d.channel = id

\* A frame that waits has no sequence number yet.
NoSeq == -1

Entry(seq, frame) == [seq |-> seq, cemi |-> frame]

Line(w, id, flight, queue) ==
    [p \in {i \in DOMAIN w : OnChannel(w[i], id)} \cup {Len(w) + i : i \in DOMAIN flight}
               \cup {Len(w) + 1 + i : i \in DOMAIN queue} |->
        IF p <= Len(w) THEN Entry(w[p].seq, w[p].cemi)
        ELSE IF p = Len(w) + 1 THEN Entry(flight[1].sequence, flight[1].cemi)
        ELSE Entry(NoSeq, queue[p - Len(w) - 1])]

\* One frame after the other, the repetitions of a frame next to each other.
Lined(L) ==
    \A p, r \in DOMAIN L : p < r =>
        \/ Older(L[p].cemi, L[r].cemi)
        \/ /\ L[p] = L[r] /\ L[p].seq # NoSeq
           /\ \A k \in DOMAIN L : (p < k /\ k < r) => L[k] = L[p]

\* The frames the server has made so far.
Known(f, last, n) == f \in Frame /\ f.content <= IF f.code = "con" THEN last ELSE n

NewTo(h, f) == \A k \in DOMAIN h : Older(h[k], f)

\* f is what was taken last.
TakenLast(h, f) ==
    h # <<>> /\ f = h[Len(h)] /\ \A k \in DOMAIN h : k < Len(h) => Older(h[k], f)

\* What the client that expects seq reads from the line is new, or what it took
\* last under another number.
Readable(L, h, seq) ==
    \A p \in DOMAIN L :
        \/ NewTo(h, L[p].cemi)
        \/ /\ TakenLast(h, L[p].cemi)
           /\ L[p].seq # NoSeq /\ L[p].seq # seq
           /\ \A k \in DOMAIN L : k < p => L[k] = L[p]

AllNew(L, h) == \A p \in DOMAIN L : NewTo(h, L[p].cemi)

\* The client as its reading goes: the session, all it has taken, and up to
\* where the frames of the server go.
Latest == LastOf(delivered)
Received == ReceivedOf(handed, blocked)
Connected == task \in Place \cup {"blocked"}

Reader ==
    [connected |-> Connected, opening |-> task = "await_connect",
     id |-> session.channel_id, seq |-> session.recv_seq, taken |-> Received,
     confirmed |-> Latest, indicated |-> indicated]

Good(L, id, R) ==
    /\ Lined(L)
    /\ \A p \in DOMAIN L : Known(L[p].cemi, R.confirmed, R.indicated)
    /\ (R.connected /\ id = R.id) => Readable(L, R.taken, R.seq)
    /\ R.opening => AllNew(L, R.taken)

WireGood(w, id, R) == Good(Line(w, id, <<>>, <<>>), id, R)
TunnelGood(w, t, R) == Good(Line(w, t.channel_id, t.in_flight, t.outbox), t.channel_id, R)

InOrder(R) ==
    /\ \A i, j \in DOMAIN R.taken : i < j => Older(R.taken[i], R.taken[j])
    /\ \A i \in DOMAIN R.taken : Known(R.taken[i], R.confirmed, R.indicated)

\* The lines of the socket that is open.
DownOf(w, ts, port, R) ==
    /\ InOrder(R)
    /\ \A id \in Channel : WireGood(w, id, R)
    /\ \A t \in ts : t.data_addr = port => TunnelGood(w, t, R)

-----------------------------------------------------------------------------
(* The invariant.                                                           *)

Control ==
    /\ task \in Place \cup {"blocked", "delay", "await_connect", "ended"}
    /\ caller \in {"free", "queued", "served"}
    /\ (task = "blocked") <=> (blocked # <<>>)
    /\ (caller = "served") <=>
          (task = "await_ack" \/ (task = "blocked" /\ blocked[1].place = "await_ack"))

TunnelsApart(ts) == \A t, u \in ts : t.channel_id = u.channel_id => t = u

TunnelSet(ts) ==
    /\ ts \in SUBSET Tunnel
    /\ IsFiniteSet(ts) /\ Cardinality(ts) <= MAX_TUNNELS /\ TunnelsApart(ts)

\* The ports go no further than that of the socket that is open.
UpWire(w, port) ==
    w \in Seq(UpMsg) /\ Len(w) <= MaxOnWire /\ \A i \in DOMAIN w : w[i].port <= port

WireOK(w) == w \in Seq(DownMsg) /\ Len(w) <= MaxOnWire

Types ==
    /\ session \in Session
    /\ blocked \in Seq([cemi : Frame, place : Place]) /\ Len(blocked) <= 1
    /\ TunnelSet(tunnels) /\ \A t \in tunnels : t.data_addr <= session.port
    /\ next_channel_id \in Channel /\ indicated \in Nat
    /\ UpWire(toServer, session.port) /\ WireOK(toClient)
    /\ offered \in Nat /\ delivered \in Seq(Nat) /\ handed \in Seq(Frame)

Uplink ==
    /\ UpInv(toServer, tunnels, Latest, offered, caller, request)
    /\ \A i \in DOMAIN delivered : delivered[i] <= Latest

Downlink == DownOf(toClient, tunnels, session.port, Reader)

Inv == Control /\ Types /\ Uplink /\ Downlink

-----------------------------------------------------------------------------
(* Lines.                                                                   *)

LEMMA OptionFacts ==
    ASSUME NEW S, NEW s \in Seq(S), Len(s) <= 1
    PROVE  /\ DOMAIN s = IF s = <<>> THEN {} ELSE {1}
           /\ s # <<>> => s[1] \in S /\ Len(s) = 1
<1>1. Len(s) \in Nat /\ DOMAIN s = 1 .. Len(s)
    OBVIOUS
<1>2. Len(s) = 0 \/ Len(s) = 1
    BY <1>1
<1>3. CASE Len(s) = 0
    <2>1. s = <<>>
        BY <1>3
    <2> QED
        BY <2>1
<1>4. CASE Len(s) = 1
    <2>1. s # <<>> /\ DOMAIN s = {1}
        BY <1>1, <1>4
    <2>2. s[1] \in S
        BY <1>1, <1>4
    <2> QED
        BY <1>4, <2>1, <2>2
<1> QED
    BY <1>2, <1>3, <1>4

LineIs(L, w, id, flight, queue) ==
    /\ Len(w) \in Nat /\ Len(queue) \in Nat
    /\ DOMAIN L \subseteq Nat
    /\ \A p \in DOMAIN L :
          \/ p \in 1 .. Len(w) /\ OnChannel(w[p], id)
          \/ p = Len(w) + 1 /\ flight # <<>>
          \/ p \in Len(w) + 2 .. Len(w) + 1 + Len(queue)
    /\ \A p \in 1 .. Len(w) : OnChannel(w[p], id) =>
          p \in DOMAIN L /\ L[p] = Entry(w[p].seq, w[p].cemi)
    /\ flight # <<>> =>
          /\ Len(w) + 1 \in DOMAIN L
          /\ L[Len(w) + 1] = Entry(flight[1].sequence, flight[1].cemi)
    /\ \A p \in Len(w) + 2 .. Len(w) + 1 + Len(queue) :
          p \in DOMAIN L /\ L[p] = Entry(NoSeq, queue[p - Len(w) - 1])

LEMMA LineFacts ==
    ASSUME NEW w \in Seq(DownMsg), NEW id, NEW flight \in Seq(Flight), Len(flight) <= 1,
           NEW queue \in Seq(Frame)
    PROVE  LineIs(Line(w, id, flight, queue), w, id, flight, queue)
<1> DEFINE L == Line(w, id, flight, queue)
           n == Len(w)
           D == {i \in DOMAIN w : OnChannel(w[i], id)} \cup {n + i : i \in DOMAIN flight}
                   \cup {n + 1 + i : i \in DOMAIN queue}
<1>1. n \in Nat /\ Len(queue) \in Nat /\ DOMAIN w = 1 .. n /\ DOMAIN queue = 1 .. Len(queue)
    OBVIOUS
<1>2. DOMAIN flight = IF flight = <<>> THEN {} ELSE {1}
    BY OptionFacts
<1>3. DOMAIN L = D
    BY DEF Line
<1>4. \A p \in D : L[p] = IF p <= n THEN Entry(w[p].seq, w[p].cemi)
                          ELSE IF p = n + 1 THEN Entry(flight[1].sequence, flight[1].cemi)
                          ELSE Entry(NoSeq, queue[p - n - 1])
    BY DEF Line
<1>5. \A p \in n + 2 .. n + 1 + Len(queue) :
          p \in D /\ p - n - 1 \in 1 .. Len(queue) /\ ~ (p <= n) /\ p # n + 1
    <2>1. ASSUME NEW p \in n + 2 .. n + 1 + Len(queue)
          PROVE  p - n - 1 \in 1 .. Len(queue) /\ p = n + 1 + (p - n - 1) /\ ~ (p <= n) /\ p # n + 1
        BY <1>1
    <2> QED
        BY <1>1, <2>1
<1>6. flight # <<>> => n + 1 \in D /\ ~ (n + 1 <= n)
    BY <1>1, <1>2
<1>7. \A p \in 1 .. n : OnChannel(w[p], id) => p \in D /\ p <= n
    BY <1>1
<1>8. \A p \in D : \/ p \in 1 .. n /\ OnChannel(w[p], id)
                   \/ p = n + 1 /\ flight # <<>>
                   \/ p \in n + 2 .. n + 1 + Len(queue)
    BY <1>1, <1>2
<1>9. \A p \in D : p \in Nat
    BY <1>1, <1>8
<1> HIDE DEF L, D
<1>10. DOMAIN L \subseteq Nat
    BY <1>3, <1>9
<1>11. \A p \in 1 .. n : OnChannel(w[p], id) =>
           p \in DOMAIN L /\ L[p] = Entry(w[p].seq, w[p].cemi)
    BY <1>3, <1>4, <1>7
<1>12. flight # <<>> => n + 1 \in DOMAIN L /\ L[n + 1] = Entry(flight[1].sequence, flight[1].cemi)
    BY <1>3, <1>4, <1>6
<1>13. \A p \in n + 2 .. n + 1 + Len(queue) :
           p \in DOMAIN L /\ L[p] = Entry(NoSeq, queue[p - n - 1])
    BY <1>3, <1>4, <1>5
<1> QED
    BY <1>1, <1>3, <1>8, <1>10, <1>11, <1>12, <1>13 DEF L, LineIs

\* The line L2 has frames of L only, in the order of L: m says where they were.
Follows(L2, L, m) ==
    /\ \A p \in DOMAIN L2 :
          /\ m[p] \in DOMAIN L /\ L2[p].cemi = L[m[p]].cemi
          /\ L[m[p]].seq # NoSeq => L2[p] = L[m[p]]
    /\ \A p, r \in DOMAIN L2 : p < r =>
          \/ m[p] < m[r]
          \/ m[p] = m[r] /\ L2[p] = L2[r] /\ L2[p].seq # NoSeq

LEMMA GoodFollows ==
    ASSUME NEW L, NEW L2, DOMAIN L \subseteq Nat, DOMAIN L2 \subseteq Nat,
           NEW m, Follows(L2, L, m), NEW id, NEW R, Good(L, id, R)
    PROVE  Good(L2, id, R)
<1>1. /\ \A p \in DOMAIN L2 :
            /\ m[p] \in DOMAIN L /\ L2[p].cemi = L[m[p]].cemi
            /\ L[m[p]].seq # NoSeq => L2[p] = L[m[p]]
      /\ \A p, r \in DOMAIN L2 : p < r =>
            \/ m[p] < m[r]
            \/ m[p] = m[r] /\ L2[p] = L2[r] /\ L2[p].seq # NoSeq
    BY DEF Follows
<1>2. Lined(L2)
    <2> SUFFICES ASSUME NEW p \in DOMAIN L2, NEW r \in DOMAIN L2, p < r,
                        ~ Older(L2[p].cemi, L2[r].cemi)
                 PROVE  /\ L2[p] = L2[r] /\ L2[p].seq # NoSeq
                        /\ \A k \in DOMAIN L2 : (p < k /\ k < r) => L2[k] = L2[p]
        BY DEF Lined
    <2>1. CASE m[p] < m[r]
        <3>1. /\ L[m[p]] = L[m[r]] /\ L[m[p]].seq # NoSeq
              /\ \A k \in DOMAIN L : (m[p] < k /\ k < m[r]) => L[k] = L[m[p]]
            BY <1>1, <2>1 DEF Good, Lined
        <3>2. L2[p] = L[m[p]] /\ L2[r] = L[m[r]]
            BY <1>1, <3>1
        <3>3. ASSUME NEW k \in DOMAIN L2, p < k, k < r PROVE L2[k] = L2[p]
            <4>1. (m[p] < m[k] \/ L2[p] = L2[k]) /\ (m[k] < m[r] \/ L2[k] = L2[r])
                BY <1>1, <3>3
            <4>2. (m[p] < m[k] /\ m[k] < m[r]) => L[m[k]] = L[m[p]]
                BY <1>1, <3>1
            <4> QED
                BY <1>1, <3>1, <3>2, <4>1, <4>2
        <3> QED
            BY <3>1, <3>2, <3>3
    <2>2. CASE m[p] = m[r] /\ L2[p] = L2[r] /\ L2[p].seq # NoSeq
        <3>1. ASSUME NEW k \in DOMAIN L2, p < k, k < r PROVE L2[k] = L2[p]
            <4>1. (m[p] < m[k] \/ L2[p] = L2[k]) /\ (m[k] < m[r] \/ L2[k] = L2[r])
                BY <1>1, <3>1
            <4>2. m[p] \in Nat /\ m[k] \in Nat
                BY <1>1
            <4>3. ~ (m[p] < m[k] /\ m[k] < m[r])
                BY <2>2, <4>2
            <4> QED
                BY <2>2, <4>1, <4>3
        <3> QED
            BY <2>2, <3>1
    <2> QED
        BY <1>1, <2>1, <2>2
<1>3. \A p \in DOMAIN L2 : Known(L2[p].cemi, R.confirmed, R.indicated)
    BY <1>1 DEF Good
<1>4. R.opening => AllNew(L2, R.taken)
    BY <1>1 DEF Good, AllNew
<1>5. ASSUME R.connected, id = R.id PROVE Readable(L2, R.taken, R.seq)
    <2>1. Readable(L, R.taken, R.seq)
        BY <1>5 DEF Good
    <2> SUFFICES ASSUME NEW p \in DOMAIN L2, ~ NewTo(R.taken, L2[p].cemi)
                 PROVE  /\ TakenLast(R.taken, L2[p].cemi)
                        /\ L2[p].seq # NoSeq /\ L2[p].seq # R.seq
                        /\ \A k \in DOMAIN L2 : k < p => L2[k] = L2[p]
        BY DEF Readable
    <2>2. /\ TakenLast(R.taken, L[m[p]].cemi)
          /\ L[m[p]].seq # NoSeq /\ L[m[p]].seq # R.seq
          /\ \A k \in DOMAIN L : k < m[p] => L[k] = L[m[p]]
        BY <1>1, <2>1 DEF Readable
    <2>3. L2[p] = L[m[p]]
        BY <1>1, <2>2
    <2>4. ASSUME NEW k \in DOMAIN L2, k < p PROVE L2[k] = L2[p]
        BY <1>1, <2>2, <2>3, <2>4
    <2> QED
        BY <2>2, <2>3, <2>4
<1> QED
    BY <1>2, <1>3, <1>4, <1>5 DEF Good

-----------------------------------------------------------------------------
(* What happens to a line.                                                  *)

\* The oldest datagram leaves the wire.
LEMMA LineTail ==
    ASSUME NEW w \in Seq(DownMsg), w # <<>>, NEW id, NEW flight \in Seq(Flight),
           Len(flight) <= 1, NEW queue \in Seq(Frame), NEW R,
           Good(Line(w, id, flight, queue), id, R)
    PROVE  Good(Line(Tail(w), id, flight, queue), id, R)
<1> DEFINE L == Line(w, id, flight, queue)
           L2 == Line(Tail(w), id, flight, queue)
           w2 == Tail(w)
           m == [p \in Nat |-> p + 1]
<1>1. /\ w2 \in Seq(DownMsg) /\ Len(w) \in Nat /\ Len(w) >= 1 /\ Len(w) = Len(w2) + 1
      /\ \A i \in 1 .. Len(w2) : w2[i] = w[i + 1]
    BY TailFacts
<1>2. LineIs(L, w, id, flight, queue) /\ LineIs(L2, w2, id, flight, queue)
    BY <1>1, LineFacts
<1> HIDE DEF L, L2, m, w2
<1>3. ASSUME NEW p \in DOMAIN L2
      PROVE  p + 1 \in DOMAIN L /\ L2[p] = L[p + 1]
    <2>0. Len(w) = Len(w2) + 1 /\ Len(w2) \in Nat /\ Len(w) \in Nat /\ Len(queue) \in Nat
        BY <1>1, <1>2 DEF LineIs
    <2>1. CASE p \in 1 .. Len(w2) /\ OnChannel(w2[p], id)
        <3>1. p + 1 \in 1 .. Len(w)
            BY <2>0, <2>1
        <3>2. w2[p] = w[p + 1]
            BY <1>1, <2>1
        <3>3. L2[p] = Entry(w2[p].seq, w2[p].cemi)
            BY <1>2, <2>1 DEF LineIs
        <3>4. p + 1 \in DOMAIN L /\ L[p + 1] = Entry(w[p + 1].seq, w[p + 1].cemi)
            BY <1>2, <2>1, <3>1, <3>2 DEF LineIs
        <3> QED
            BY <3>2, <3>3, <3>4
    <2>2. CASE p = Len(w2) + 1 /\ flight # <<>>
        <3>1. p + 1 = Len(w) + 1
            BY <2>0, <2>2
        <3>2. L2[p] = Entry(flight[1].sequence, flight[1].cemi)
            BY <1>2, <2>2 DEF LineIs
        <3>3. Len(w) + 1 \in DOMAIN L /\ L[Len(w) + 1] = Entry(flight[1].sequence, flight[1].cemi)
            BY <1>2, <2>2 DEF LineIs
        <3> QED
            BY <3>1, <3>2, <3>3
    <2>3. CASE p \in Len(w2) + 2 .. Len(w2) + 1 + Len(queue)
        <3>1. /\ p + 1 \in Len(w) + 2 .. Len(w) + 1 + Len(queue)
              /\ p + 1 - Len(w) - 1 = p - Len(w2) - 1
            BY <2>0, <2>3
        <3>2. L2[p] = Entry(NoSeq, queue[p - Len(w2) - 1])
            BY <1>2, <2>3 DEF LineIs
        <3>3. p + 1 \in DOMAIN L /\ L[p + 1] = Entry(NoSeq, queue[p + 1 - Len(w) - 1])
            BY <1>2, <3>1, SMTT(30) DEF LineIs
        <3> QED
            BY <3>1, <3>2, <3>3
    <2> QED
        BY <1>2, <2>1, <2>2, <2>3 DEF LineIs
<1>4. \A p \in DOMAIN L2 : p \in Nat /\ m[p] = p + 1
    BY <1>2 DEF m, LineIs
<1>5. \A p, r \in DOMAIN L2 : p < r => m[p] < m[r]
    BY <1>4
<1>6. Follows(L2, L, m)
    BY <1>3, <1>4, <1>5 DEF Follows
<1> QED
    BY <1>2, <1>6, GoodFollows DEF L, L2, LineIs, w2

\* Something that is not a request of this channel is put on the wire.
LEMMA LinePassed ==
    ASSUME NEW w \in Seq(DownMsg), NEW d \in DownMsg, NEW w2, Extends(w2, w, d),
           NEW id, ~ OnChannel(d, id), NEW flight \in Seq(Flight),
           Len(flight) <= 1, NEW queue \in Seq(Frame), NEW R,
           Good(Line(w, id, flight, queue), id, R)
    PROVE  Good(Line(w2, id, flight, queue), id, R)
<1> SUFFICES ASSUME w2 = Append(w, d) PROVE Good(Line(w2, id, flight, queue), id, R)
    BY DEF Extends
<1> DEFINE L == Line(w, id, flight, queue)
           L2 == Line(w2, id, flight, queue)
           m == [p \in Nat |-> IF p <= Len(w) THEN p ELSE p - 1]
<1>1. /\ w2 \in Seq(DownMsg) /\ Len(w) \in Nat /\ Len(w2) = Len(w) + 1
      /\ w2[Len(w) + 1] = d
      /\ \A i \in 1 .. Len(w) : w2[i] = w[i]
    BY AppendFacts
<1>2. LineIs(L, w, id, flight, queue) /\ LineIs(L2, w2, id, flight, queue)
    BY <1>1, LineFacts
<1> HIDE DEF L, L2, m
<1>3. ASSUME NEW p \in DOMAIN L2
      PROVE  p \in Nat /\ p # Len(w) + 1 /\ m[p] \in DOMAIN L /\ L2[p] = L[m[p]]
    <2>0. p \in Nat /\ m[p] = IF p <= Len(w) THEN p ELSE p - 1
        BY <1>2 DEF m, LineIs
    <2>1. CASE p \in 1 .. Len(w2) /\ OnChannel(w2[p], id)
        <3>1. p # Len(w) + 1
            BY <1>1, <2>1
        <3>2. p \in 1 .. Len(w) /\ p <= Len(w)
            BY <1>1, <2>1, <3>1
        <3>3. m[p] = p /\ w2[p] = w[p]
            BY <1>1, <2>0, <3>2
        <3>4. L2[p] = Entry(w[p].seq, w[p].cemi)
            BY <1>2, <2>1, <3>3 DEF LineIs
        <3>5. p \in DOMAIN L /\ L[p] = Entry(w[p].seq, w[p].cemi)
            BY <1>2, <2>1, <3>2, <3>3 DEF LineIs
        <3> QED
            BY <2>0, <3>1, <3>3, <3>4, <3>5
    <2>2. CASE p = Len(w2) + 1 /\ flight # <<>>
        <3>1. m[p] = Len(w) + 1 /\ p # Len(w) + 1
            BY <1>1, <2>0, <2>2
        <3> QED
            BY <1>2, <2>0, <2>2, <3>1 DEF LineIs
    <2>3. CASE p \in Len(w2) + 2 .. Len(w2) + 1 + Len(queue)
        <3>0. Len(queue) \in Nat
            BY <1>2 DEF LineIs
        <3>1. ~ (p <= Len(w)) /\ p # Len(w) + 1 /\ p - 1 \in Len(w) + 2 .. Len(w) + 1 + Len(queue)
            BY <1>1, <2>0, <2>3, <3>0
        <3>2. m[p] = p - 1 /\ m[p] - Len(w) - 1 = p - Len(w2) - 1
            BY <1>1, <2>0, <3>1
        <3> QED
            BY <1>2, <2>0, <2>3, <3>1, <3>2 DEF LineIs
    <2> QED
        BY <1>2, <2>1, <2>2, <2>3 DEF LineIs
<1>4. ASSUME NEW p \in DOMAIN L2, NEW r \in DOMAIN L2, p < r PROVE m[p] < m[r]
    <2>1. p \in Nat /\ r \in Nat /\ p # Len(w) + 1 /\ r # Len(w) + 1
        BY <1>3
    <2> QED
        BY <1>1, <1>4, <2>1 DEF m
<1>5. Follows(L2, L, m)
    BY <1>3, <1>4 DEF Follows
<1> QED
    BY <1>2, <1>5, GoodFollows DEF L, L2, LineIs

\* The frame in flight is sent.
LEMMA LineSent ==
    ASSUME NEW w \in Seq(DownMsg), NEW d \in DownMsg, NEW w2, Extends(w2, w, d),
           NEW id, OnChannel(d, id), NEW flight \in Seq(Flight), flight # <<>>,
           Len(flight) <= 1, d.seq = flight[1].sequence, d.cemi = flight[1].cemi,
           NEW queue \in Seq(Frame), NEW R,
           Good(Line(w, id, flight, queue), id, R)
    PROVE  Good(Line(w2, id, flight, queue), id, R)
<1> SUFFICES ASSUME w2 = Append(w, d) PROVE Good(Line(w2, id, flight, queue), id, R)
    BY DEF Extends
<1> DEFINE L == Line(w, id, flight, queue)
           L2 == Line(w2, id, flight, queue)
           m == [p \in Nat |-> IF p <= Len(w) + 1 THEN p ELSE p - 1]
<1>1. /\ w2 \in Seq(DownMsg) /\ Len(w) \in Nat /\ Len(w2) = Len(w) + 1
      /\ w2[Len(w) + 1] = d
      /\ \A i \in 1 .. Len(w) : w2[i] = w[i]
    BY AppendFacts
<1>2. LineIs(L, w, id, flight, queue) /\ LineIs(L2, w2, id, flight, queue)
    BY <1>1, LineFacts
<1>0. flight[1] \in Flight
    BY OptionFacts
<1> DEFINE first == Entry(flight[1].sequence, flight[1].cemi)
<1> HIDE DEF L, L2, m
<1>3. /\ Len(w) + 1 \in DOMAIN L /\ L[Len(w) + 1] = first
      /\ L2[Len(w) + 1] = first /\ L2[Len(w) + 2] = first
    <2>1. Len(w) + 1 \in DOMAIN L /\ L[Len(w) + 1] = first
        BY <1>2 DEF LineIs
    <2>2. Len(w) + 1 \in 1 .. Len(w2) /\ OnChannel(w2[Len(w) + 1], id)
        BY <1>1
    <2>3. L2[Len(w) + 1] = Entry(d.seq, d.cemi)
        BY <1>1, <1>2, <2>2 DEF LineIs
    <2>4. L2[Len(w2) + 1] = first /\ Len(w2) + 1 = Len(w) + 2
        BY <1>1, <1>2 DEF LineIs
    <2> QED
        BY <2>1, <2>3, <2>4
<1>4. first.seq # NoSeq
    BY <1>0, SeqAssumption DEF Entry, NoSeq, Flight, Seqno
<1> HIDE DEF first
<1>5. ASSUME NEW p \in DOMAIN L2
      PROVE  p \in Nat /\ m[p] \in DOMAIN L /\ L2[p] = L[m[p]]
    <2>0. p \in Nat /\ m[p] = IF p <= Len(w) + 1 THEN p ELSE p - 1
        BY <1>2 DEF m, LineIs
    <2>1. CASE p \in 1 .. Len(w) /\ OnChannel(w2[p], id)
        <3>1. m[p] = p /\ w2[p] = w[p]
            BY <1>1, <2>0, <2>1
        <3>2. p \in 1 .. Len(w2)
            BY <1>1, <2>1
        <3>3. L2[p] = Entry(w[p].seq, w[p].cemi)
            BY <1>2, <2>1, <3>1, <3>2 DEF LineIs
        <3>4. p \in DOMAIN L /\ L[p] = Entry(w[p].seq, w[p].cemi)
            BY <1>2, <2>1, <3>1 DEF LineIs
        <3> QED
            BY <2>0, <3>1, <3>3, <3>4
    <2>2. CASE p = Len(w) + 1
        <3>1. m[p] = Len(w) + 1
            BY <1>1, <2>0, <2>2
        <3> QED
            BY <1>3, <2>0, <2>2, <3>1
    <2>3. CASE p = Len(w) + 2
        <3>1. m[p] = Len(w) + 1
            BY <1>1, <2>0, <2>3
        <3> QED
            BY <1>3, <2>0, <2>3, <3>1
    <2>4. CASE p \in Len(w2) + 2 .. Len(w2) + 1 + Len(queue)
        <3>0. Len(queue) \in Nat
            BY <1>2 DEF LineIs
        <3>1. ~ (p <= Len(w) + 1) /\ p - 1 \in Len(w) + 2 .. Len(w) + 1 + Len(queue)
            BY <1>1, <2>0, <2>4, <3>0
        <3>2. m[p] = p - 1 /\ m[p] - Len(w) - 1 = p - Len(w2) - 1
            BY <1>1, <2>0, <3>1
        <3> QED
            BY <1>2, <2>0, <2>4, <3>1, <3>2 DEF LineIs
    <2>5. \/ p \in 1 .. Len(w2) /\ OnChannel(w2[p], id)
          \/ p = Len(w2) + 1
          \/ p \in Len(w2) + 2 .. Len(w2) + 1 + Len(queue)
        BY <1>2 DEF LineIs
    <2>6. p \in 1 .. Len(w2) => p \in 1 .. Len(w) \/ p = Len(w) + 1
        BY <1>1
    <2>7. Len(w2) + 1 = Len(w) + 2
        BY <1>1
    <2> QED
        BY <2>1, <2>2, <2>3, <2>4, <2>5, <2>6, <2>7
<1>6. ASSUME NEW p \in DOMAIN L2, NEW r \in DOMAIN L2, p < r
      PROVE  \/ m[p] < m[r]
             \/ m[p] = m[r] /\ L2[p] = L2[r] /\ L2[p].seq # NoSeq
    <2>1. p \in Nat /\ r \in Nat
        BY <1>5
    <2>2. m[p] < m[r] \/ (p = Len(w) + 1 /\ r = Len(w) + 2 /\ m[p] = m[r])
        BY <1>1, <1>6, <2>1 DEF m
    <2> QED
        BY <1>3, <1>4, <2>2
<1>7. Follows(L2, L, m)
    BY <1>5, <1>6 DEF Follows
<1> QED
    BY <1>2, <1>7, GoodFollows DEF L, L2, LineIs

\* Less is kept, or the same: the attempts and the deadline are not in the line.
LEMMA LineKept ==
    ASSUME NEW w \in Seq(DownMsg), NEW id, NEW flight \in Seq(Flight), Len(flight) <= 1,
           NEW queue \in Seq(Frame),
           NEW flight2 \in Seq(Flight), Len(flight2) <= 1, NEW queue2 \in Seq(Frame),
           flight2 = <<>> \/ (/\ flight # <<>> /\ flight2[1].sequence = flight[1].sequence
                              /\ flight2[1].cemi = flight[1].cemi),
           queue2 = <<>> \/ queue2 = queue,
           NEW R, Good(Line(w, id, flight, queue), id, R)
    PROVE  Good(Line(w, id, flight2, queue2), id, R)
<1> DEFINE L == Line(w, id, flight, queue)
           L2 == Line(w, id, flight2, queue2)
           m == [p \in Nat |-> p]
<1>1. LineIs(L, w, id, flight, queue) /\ LineIs(L2, w, id, flight2, queue2)
    BY LineFacts
<1> HIDE DEF L, L2, m
<1>2. ASSUME NEW p \in DOMAIN L2
      PROVE  p \in Nat /\ m[p] = p /\ p \in DOMAIN L /\ L2[p] = L[p]
    <2>0. p \in Nat /\ m[p] = p
        BY <1>1 DEF m, LineIs
    <2>1. CASE p \in 1 .. Len(w) /\ OnChannel(w[p], id)
        BY <1>1, <2>0, <2>1 DEF LineIs
    <2>2. CASE p = Len(w) + 1 /\ flight2 # <<>>
        BY <1>1, <2>0, <2>2 DEF LineIs
    <2>3. CASE p \in Len(w) + 2 .. Len(w) + 1 + Len(queue2)
        <3>1. queue2 # <<>>
            BY <1>1, <2>3 DEF LineIs
        <3> QED
            BY <1>1, <2>0, <2>3, <3>1 DEF LineIs
    <2> QED
        BY <1>1, <2>1, <2>2, <2>3 DEF LineIs
<1>3. Follows(L2, L, m)
    BY <1>2 DEF Follows
<1> QED
    BY <1>1, <1>3, GoodFollows DEF L, L2, LineIs

\* A full queue loses its oldest frame.
LEMMA LineShed ==
    ASSUME NEW w \in Seq(DownMsg), NEW id, NEW flight \in Seq(Flight), Len(flight) <= 1,
           NEW queue \in Seq(Frame), queue # <<>>,
           NEW R, Good(Line(w, id, flight, queue), id, R)
    PROVE  Good(Line(w, id, flight, Tail(queue)), id, R)
<1> DEFINE L == Line(w, id, flight, queue)
           queue2 == Tail(queue)
           L2 == Line(w, id, flight, queue2)
           n == Len(w) + 1
           m == [p \in Nat |-> IF p <= n THEN p ELSE p + 1]
<1>1. /\ queue2 \in Seq(Frame) /\ Len(queue) \in Nat /\ Len(queue) = Len(queue2) + 1
      /\ Len(queue2) \in Nat /\ \A i \in 1 .. Len(queue2) : queue2[i] = queue[i + 1]
    BY TailFacts
<1>2. LineIs(L, w, id, flight, queue) /\ LineIs(L2, w, id, flight, queue2)
    BY <1>1, LineFacts
<1>0. n \in Nat /\ n = Len(w) + 1
    OBVIOUS
<1> HIDE DEF L, L2, m, queue2, n
<1>3. ASSUME NEW p \in DOMAIN L2
      PROVE  p \in Nat /\ m[p] \in DOMAIN L /\ L2[p] = L[m[p]]
    <2>0. p \in Nat /\ m[p] = IF p <= n THEN p ELSE p + 1
        BY <1>2 DEF m, LineIs
    <2>1. CASE p \in 1 .. Len(w) /\ OnChannel(w[p], id)
        <3>1. m[p] = p
            BY <1>0, <2>0, <2>1
        <3> QED
            BY <1>2, <2>0, <2>1, <3>1 DEF LineIs
    <2>2. CASE p = Len(w) + 1 /\ flight # <<>>
        <3>1. m[p] = p
            BY <1>0, <2>0, <2>2
        <3> QED
            BY <1>2, <2>0, <2>2, <3>1 DEF LineIs
    <2>3. CASE p \in Len(w) + 2 .. Len(w) + 1 + Len(queue2)
        <3>1. ~ (p <= n) /\ p + 1 \in Len(w) + 2 .. Len(w) + 1 + Len(queue)
            BY <1>0, <1>1, <2>0, <2>3
        <3>2. m[p] = p + 1
            BY <2>0, <3>1
        <3>3. p - Len(w) - 1 \in 1 .. Len(queue2) /\ p + 1 - Len(w) - 1 = (p - Len(w) - 1) + 1
            BY <1>0, <1>1, <2>0, <2>3
        <3>4. queue2[p - Len(w) - 1] = queue[p + 1 - Len(w) - 1]
            BY <1>1, <3>3
        <3> QED
            BY <1>2, <2>0, <2>3, <3>1, <3>2, <3>4 DEF LineIs
    <2> QED
        BY <1>2, <2>1, <2>2, <2>3 DEF LineIs
<1>4. \A p, r \in DOMAIN L2 : p < r => m[p] < m[r]
    <2>1. \A p \in DOMAIN L2 : p \in Nat
        BY <1>3
    <2> QED
        BY <1>0, <2>1 DEF m
<1>5. Follows(L2, L, m)
    BY <1>3, <1>4 DEF Follows
<1> QED
    BY <1>2, <1>5, GoodFollows DEF L, L2, LineIs, queue2

\* The frame that waits first takes the place in flight.
LEMMA LinePumped ==
    ASSUME NEW w \in Seq(DownMsg), NEW id, NEW queue \in Seq(Frame), queue # <<>>,
           NEW x \in Flight, x.cemi = Head(queue),
           NEW R, Good(Line(w, id, <<>>, queue), id, R)
    PROVE  Good(Line(w, id, <<x>>, Tail(queue)), id, R)
<1> DEFINE L == Line(w, id, <<>>, queue)
           queue2 == Tail(queue)
           L2 == Line(w, id, <<x>>, queue2)
           m == [p \in Nat |-> IF p <= Len(w) THEN p ELSE p + 1]
<1>1. /\ queue2 \in Seq(Frame) /\ Len(queue) \in Nat /\ Len(queue) = Len(queue2) + 1
      /\ Len(queue2) \in Nat /\ \A i \in 1 .. Len(queue2) : queue2[i] = queue[i + 1]
      /\ Head(queue) = queue[1] /\ Len(queue) >= 1
    BY TailFacts
<1>0. <<x>> \in Seq(Flight) /\ Len(<<x>>) <= 1 /\ <<x>>[1] = x /\ <<>> \in Seq(Flight) /\ Len(<<>>) <= 1
    OBVIOUS
<1>2. LineIs(L, w, id, <<>>, queue) /\ LineIs(L2, w, id, <<x>>, queue2)
    BY <1>0, <1>1, LineFacts
<1> HIDE DEF L, L2, m, queue2
<1>3. ASSUME NEW p \in DOMAIN L2
      PROVE  /\ p \in Nat /\ m[p] \in DOMAIN L /\ L2[p].cemi = L[m[p]].cemi
             /\ L[m[p]].seq # NoSeq => L2[p] = L[m[p]]
    <2>0. p \in Nat /\ m[p] = IF p <= Len(w) THEN p ELSE p + 1
        BY <1>2 DEF m, LineIs
    <2>1. CASE p \in 1 .. Len(w) /\ OnChannel(w[p], id)
        <3>1. m[p] = p
            BY <2>0, <2>1
        <3> QED
            BY <1>2, <2>0, <2>1, <3>1 DEF LineIs
    <2>2. CASE p = Len(w) + 1
        <3>0. Len(w) \in Nat
            OBVIOUS
        <3>1. m[p] = Len(w) + 2 /\ Len(w) + 2 - Len(w) - 1 = 1
            BY <2>0, <2>2, <3>0
        <3>2. Len(w) + 2 \in Len(w) + 2 .. Len(w) + 1 + Len(queue)
            BY <1>1, <3>0
        <3>3. L2[p] = Entry(x.sequence, x.cemi)
            BY <1>0, <1>2, <2>2 DEF LineIs
        <3>4. Len(w) + 2 \in DOMAIN L /\ L[Len(w) + 2] = Entry(NoSeq, queue[1])
            BY <1>2, <3>1, <3>2 DEF LineIs
        <3> QED
            BY <1>1, <2>0, <3>1, <3>3, <3>4 DEF Entry
    <2>3. CASE p \in Len(w) + 2 .. Len(w) + 1 + Len(queue2)
        <3>0. Len(w) \in Nat
            OBVIOUS
        <3>1. ~ (p <= Len(w)) /\ p + 1 \in Len(w) + 2 .. Len(w) + 1 + Len(queue)
            BY <1>1, <2>0, <2>3, <3>0
        <3>2. m[p] = p + 1
            BY <2>0, <3>1
        <3>3. p - Len(w) - 1 \in 1 .. Len(queue2) /\ p + 1 - Len(w) - 1 = (p - Len(w) - 1) + 1
            BY <1>1, <2>0, <2>3, <3>0
        <3>4. queue2[p - Len(w) - 1] = queue[p + 1 - Len(w) - 1]
            BY <1>1, <3>3
        <3> QED
            BY <1>2, <2>0, <2>3, <3>1, <3>2, <3>4, SMTT(30) DEF LineIs
    <2> QED
        BY <1>2, <2>1, <2>2, <2>3 DEF LineIs
<1>4. \A p, r \in DOMAIN L2 : p < r => m[p] < m[r]
    <2>1. \A p \in DOMAIN L2 : p \in Nat
        BY <1>3
    <2>2. Len(w) \in Nat
        OBVIOUS
    <2> QED
        BY <2>1, <2>2 DEF m
<1>5. Follows(L2, L, m)
    BY <1>3, <1>4 DEF Follows
<1> QED
    BY <1>2, <1>5, GoodFollows DEF L, L2, LineIs, queue2

\* The frames go on; what the client has taken stays.
Grown(R, R2) ==
    /\ R2.connected = R.connected /\ R2.opening = R.opening /\ R2.id = R.id
    /\ R2.seq = R.seq /\ R2.taken = R.taken
    /\ R.confirmed \in Nat /\ R2.confirmed \in Nat /\ R.confirmed <= R2.confirmed
    /\ R.indicated \in Nat /\ R2.indicated \in Nat /\ R.indicated <= R2.indicated

LEMMA KnownGrows ==
    ASSUME NEW R, NEW R2, Grown(R, R2), NEW f, Known(f, R.confirmed, R.indicated)
    PROVE  Known(f, R2.confirmed, R2.indicated)
<1>1. f.content \in Nat
    BY DEF Known, Frame
<1> QED
    BY <1>1 DEF Grown, Known

LEMMA LineGrown ==
    ASSUME NEW L, NEW id, NEW R, NEW R2, Grown(R, R2), Good(L, id, R)
    PROVE  Good(L, id, R2)
<1>1. \A p \in DOMAIN L : Known(L[p].cemi, R2.confirmed, R2.indicated)
    BY KnownGrows DEF Good
<1> QED
    BY <1>1 DEF Good, Grown

\* A frame made after all others.
Made(e, R, R2) ==
    /\ Known(e, R2.confirmed, R2.indicated)
    /\ (IF e.code = "con" THEN R.confirmed ELSE R.indicated) < e.content

LEMMA MadeIsNew ==
    ASSUME NEW R, NEW R2, Grown(R, R2), NEW e, Made(e, R, R2),
           NEW f, Known(f, R.confirmed, R.indicated)
    PROVE  Older(f, e)
<1>1. f.content \in Nat /\ e.content \in Nat
    BY DEF Made, Known, Frame
<1> QED
    BY <1>1 DEF Made, Known, Older, Grown

LEMMA LineAppended ==
    ASSUME NEW w \in Seq(DownMsg), NEW id, NEW flight \in Seq(Flight), Len(flight) <= 1,
           NEW queue \in Seq(Frame), NEW R, NEW R2, Grown(R, R2), InOrder(R),
           NEW e, Made(e, R, R2), Good(Line(w, id, flight, queue), id, R)
    PROVE  Good(Line(w, id, flight, Append(queue, e)), id, R2)
<1> DEFINE L == Line(w, id, flight, queue)
           queue2 == Append(queue, e)
           L2 == Line(w, id, flight, queue2)
           z == Len(w) + 1 + Len(queue2)
<1>0. e \in Frame
    BY DEF Made, Known
<1>1. /\ queue2 \in Seq(Frame) /\ Len(queue) \in Nat /\ Len(queue2) = Len(queue) + 1
      /\ queue2[Len(queue) + 1] = e /\ \A i \in 1 .. Len(queue) : queue2[i] = queue[i]
    BY <1>0, AppendFacts
<1>2. LineIs(L, w, id, flight, queue) /\ LineIs(L2, w, id, flight, queue2)
    BY <1>1, LineFacts
<1>3. Len(w) \in Nat /\ z = Len(w) + 2 + Len(queue)
    BY <1>1
<1> HIDE DEF L, L2, queue2, z
<1>4. L2[z].cemi = e
    <2>1. z \in Len(w) + 2 .. Len(w) + 1 + Len(queue2) /\ z - Len(w) - 1 = Len(queue) + 1
        BY <1>1, <1>3
    <2>2. L2[z] = Entry(NoSeq, queue2[z - Len(w) - 1])
        BY <1>2, <2>1 DEF LineIs
    <2> QED
        BY <1>1, <2>1, <2>2 DEF Entry
<1>5. ASSUME NEW p \in DOMAIN L2, p # z
      PROVE  p \in Nat /\ p < z /\ p \in DOMAIN L /\ L2[p] = L[p]
    <2>0. p \in Nat
        BY <1>2 DEF LineIs
    <2>1. CASE p \in 1 .. Len(w) /\ OnChannel(w[p], id)
        <3>1. p < z
            BY <1>1, <1>3, <2>1
        <3> QED
            BY <1>2, <2>0, <2>1, <3>1 DEF LineIs
    <2>2. CASE p = Len(w) + 1 /\ flight # <<>>
        <3>1. p < z
            BY <1>1, <1>3, <2>2
        <3> QED
            BY <1>2, <2>0, <2>2, <3>1 DEF LineIs
    <2>3. CASE p \in Len(w) + 2 .. Len(w) + 1 + Len(queue2)
        <3>1. p \in Len(w) + 2 .. Len(w) + 1 + Len(queue) /\ p < z
            BY <1>1, <1>3, <1>5, <2>3
        <3>2. p - Len(w) - 1 \in 1 .. Len(queue)
            BY <1>1, <1>3, <3>1
        <3>3. queue2[p - Len(w) - 1] = queue[p - Len(w) - 1]
            BY <1>1, <3>2
        <3> QED
            BY <1>2, <2>0, <2>3, <3>1, <3>3 DEF LineIs
    <2> QED
        BY <1>2, <2>1, <2>2, <2>3 DEF LineIs
<1>6. \A p \in DOMAIN L : Known(L[p].cemi, R.confirmed, R.indicated) /\ Older(L[p].cemi, e)
    <2>1. \A p \in DOMAIN L : Known(L[p].cemi, R.confirmed, R.indicated)
        BY DEF Good, L
    <2> QED
        BY <2>1, MadeIsNew
<1>7. NewTo(R.taken, e)
    BY MadeIsNew DEF InOrder, NewTo
<1>8. \A p \in DOMAIN L2 : Known(L2[p].cemi, R2.confirmed, R2.indicated)
    <2>1. \A p \in DOMAIN L : Known(L[p].cemi, R2.confirmed, R2.indicated)
        BY <1>6, KnownGrows
    <2> QED
        BY <1>4, <1>5, <2>1 DEF Made
<1>9. Lined(L2)
    <2> SUFFICES ASSUME NEW p \in DOMAIN L2, NEW r \in DOMAIN L2, p < r,
                        ~ Older(L2[p].cemi, L2[r].cemi)
                 PROVE  /\ L2[p] = L2[r] /\ L2[p].seq # NoSeq
                        /\ \A k \in DOMAIN L2 : (p < k /\ k < r) => L2[k] = L2[p]
        BY DEF Lined
    <2>1. p # z
        <3>1. z \in Nat
            BY <1>1, <1>3
        <3>2. r = z \/ r < z
            BY <1>5
        <3>3. r \in Nat /\ p \in Nat
            BY <1>2 DEF LineIs
        <3> QED
            BY <3>1, <3>2, <3>3
    <2>2. r # z
        BY <1>4, <1>5, <1>6, <2>1
    <2>3. p \in DOMAIN L /\ r \in DOMAIN L /\ L2[p] = L[p] /\ L2[r] = L[r]
        BY <1>5, <2>1, <2>2
    <2>4. /\ L[p] = L[r] /\ L[p].seq # NoSeq
          /\ \A k \in DOMAIN L : (p < k /\ k < r) => L[k] = L[p]
        BY <2>3 DEF Good, Lined, L
    <2>5. ASSUME NEW k \in DOMAIN L2, k < r PROVE k # z
        <3>1. z \in Nat /\ k \in Nat /\ r < z
            BY <1>1, <1>3, <1>5, <2>2
        <3> QED
            BY <1>5, <2>2, <2>5, <3>1
    <2> QED
        BY <1>5, <2>3, <2>4, <2>5
<1>10. R.opening => AllNew(L2, R.taken)
    <2>1. R.opening => AllNew(L, R.taken)
        BY DEF Good, L
    <2> QED
        BY <1>4, <1>5, <1>7, <2>1 DEF AllNew
<1>11. ASSUME R.connected, id = R.id PROVE Readable(L2, R.taken, R.seq)
    <2>1. Readable(L, R.taken, R.seq)
        BY <1>11 DEF Good, L
    <2> SUFFICES ASSUME NEW p \in DOMAIN L2, ~ NewTo(R.taken, L2[p].cemi)
                 PROVE  /\ TakenLast(R.taken, L2[p].cemi)
                        /\ L2[p].seq # NoSeq /\ L2[p].seq # R.seq
                        /\ \A k \in DOMAIN L2 : k < p => L2[k] = L2[p]
        BY DEF Readable
    <2>2. p # z
        BY <1>4, <1>7
    <2>3. p \in DOMAIN L /\ L2[p] = L[p]
        BY <1>5, <2>2
    <2>4. /\ TakenLast(R.taken, L[p].cemi)
          /\ L[p].seq # NoSeq /\ L[p].seq # R.seq
          /\ \A k \in DOMAIN L : k < p => L[k] = L[p]
        BY <2>1, <2>3 DEF Readable
    <2>5. ASSUME NEW k \in DOMAIN L2, k < p PROVE k # z
        <3>1. z \in Nat /\ k \in Nat /\ p < z
            BY <1>1, <1>3, <1>5, <2>2
        <3> QED
            BY <1>5, <2>2, <2>5, <3>1
    <2> QED
        BY <1>5, <2>3, <2>4, <2>5
<1> QED
    BY <1>8, <1>9, <1>10, <1>11 DEF Good, Grown, L2, queue2

\* The client takes the first frame of the line.
TakesIn(R, f) ==
    [connected |-> R.connected, opening |-> R.opening, id |-> R.id,
     seq |-> wrapping_inc(R.seq), taken |-> Append(R.taken, f),
     confirmed |-> R.confirmed, indicated |-> R.indicated]

LEMMA NextSeqno ==
    ASSUME NEW s \in Seqno
    PROVE  wrapping_inc(s) \in Seqno /\ wrapping_inc(s) # s
<1>1. s \in Nat /\ s < SEQ_MOD /\ SEQ_MOD \in Nat /\ SEQ_MOD > 1
    BY SeqAssumption DEF Seqno
<1>2. CASE s + 1 < SEQ_MOD
    <2>1. (s + 1) % SEQ_MOD = s + 1
        BY <1>1, <1>2
    <2> QED
        BY <1>1, <1>2, <2>1 DEF wrapping_inc, Seqno
<1>3. CASE s + 1 = SEQ_MOD
    <2>1. SEQ_MOD % SEQ_MOD = 0
        BY <1>1
    <2> QED
        BY <1>1, <1>3, <2>1 DEF wrapping_inc, Seqno
<1> QED
    BY <1>1, <1>2, <1>3

LEMMA LineTaken ==
    ASSUME NEW L, DOMAIN L \subseteq Nat, NEW id, NEW R, ~ R.opening,
           R.taken \in Seq(Frame), R.seq \in Seqno, Good(L, id, R),
           NEW p \in DOMAIN L, \A k \in DOMAIN L : p <= k, L[p].seq = R.seq
    PROVE  Good(L, id, TakesIn(R, L[p].cemi))
<1> DEFINE f == L[p].cemi
           R2 == TakesIn(R, f)
           h == R.taken
           h2 == Append(h, f)
           s == wrapping_inc(R.seq)
<1>1. /\ R2.connected = R.connected /\ R2.opening = R.opening /\ R2.id = R.id
      /\ R2.taken = h2 /\ R2.seq = s
      /\ R2.confirmed = R.confirmed /\ R2.indicated = R.indicated
    BY DEF TakesIn
<1>2. Known(f, R.confirmed, R.indicated) /\ f \in Frame
    BY DEF Good, Known
<1>3. /\ h2 \in Seq(Frame) /\ Len(h) \in Nat /\ Len(h2) = Len(h) + 1 /\ h2 # <<>>
      /\ DOMAIN h = 1 .. Len(h) /\ DOMAIN h2 = 1 .. Len(h) + 1
      /\ h2[Len(h) + 1] = f /\ \A i \in 1 .. Len(h) : h2[i] = h[i]
    BY <1>2, AppendFacts
<1>4. s # R.seq
    BY NextSeqno
<1> HIDE DEF f, R2, h, h2, s
<1>5. ASSUME R.connected, id = R.id PROVE Readable(L, h2, s)
    <2>1. Readable(L, h, R.seq)
        BY <1>5 DEF Good, h
    <2>2. NewTo(h, f)
        BY <2>1 DEF Readable, f
    <2>3. ASSUME NEW r \in DOMAIN L PROVE NewTo(h, L[r].cemi)
        <3>1. SUFFICES ASSUME ~ NewTo(h, L[r].cemi) PROVE FALSE
            OBVIOUS
        <3>2. L[r].seq # R.seq /\ \A k \in DOMAIN L : k < r => L[k] = L[r]
            BY <2>1, <3>1 DEF Readable
        <3>3. p < r \/ p = r
            BY <2>3
        <3> QED
            BY <3>2, <3>3
    <2>4. TakenLast(h2, f)
        <3>1. \A k \in DOMAIN h2 : k < Len(h2) => k \in DOMAIN h /\ h2[k] = h[k]
            BY <1>3
        <3> QED
            BY <1>3, <2>2, <3>1 DEF TakenLast, NewTo
    <2> SUFFICES ASSUME NEW r \in DOMAIN L, ~ NewTo(h2, L[r].cemi)
                 PROVE  /\ TakenLast(h2, L[r].cemi)
                        /\ L[r].seq # NoSeq /\ L[r].seq # s
                        /\ \A k \in DOMAIN L : k < r => L[k] = L[r]
        BY DEF Readable
    <2>5. ~ Older(f, L[r].cemi)
        <3>1. \A k \in DOMAIN h2 : h2[k] = f \/ (k \in DOMAIN h /\ h2[k] = h[k])
            BY <1>3
        <3> QED
            BY <2>3, <3>1 DEF NewTo
    <2>6. /\ L[p] = L[r]
          /\ \A k \in DOMAIN L : (p < k /\ k < r) => L[k] = L[p]
        <3>1. p < r \/ p = r
            OBVIOUS
        <3>2. CASE p < r
            BY <2>5, <3>2 DEF Good, Lined, f
        <3>3. CASE p = r
            BY <3>3
        <3> QED
            BY <3>1, <3>2, <3>3
    <2>7. L[r].seq = R.seq /\ R.seq # NoSeq /\ TakenLast(h2, L[r].cemi)
        BY <2>4, <2>6, SeqAssumption DEF f, Seqno, NoSeq
    <2>8. \A k \in DOMAIN L : k < r => L[k] = L[r]
        <3>1. \A k \in DOMAIN L : p < k \/ p = k
            OBVIOUS
        <3> QED
            BY <2>6, <3>1
    <2> QED
        BY <1>4, <2>7, <2>8
<1> QED
    BY <1>1, <1>5 DEF Good, R2, f

-----------------------------------------------------------------------------
(* What happens to a tunnel.                                                *)

LEMMA TunnelFacts ==
    ASSUME NEW t \in Tunnel
    PROVE  /\ t.channel_id \in Channel /\ t.ctrl_addr \in Addr /\ t.data_addr \in Addr
           /\ t.send_seq \in Seqno /\ t.recv_seq \in Seqno /\ t.heartbeat_age \in Nat
           /\ t.outbox \in Seq(Frame) /\ t.in_flight \in Seq(Flight) /\ Len(t.in_flight) <= 1
           /\ t.in_flight # <<>> =>
                 t.in_flight[1] \in Flight /\ t.in_flight = <<t.in_flight[1]>>
<1>1. t.in_flight \in Seq(Flight) /\ Len(t.in_flight) <= 1
    BY DEF Tunnel
<1>2. t.in_flight # <<>> => t.in_flight[1] \in Flight /\ Len(t.in_flight) = 1
    BY <1>1, OptionFacts
<1>3. \A s \in Seq(Flight) : Len(s) = 1 => s = <<s[1]>>
    OBVIOUS
<1> QED
    BY <1>1, <1>2, <1>3 DEF Tunnel

\* u is t with other queues.
Queued(u, t) ==
    /\ u \in Tunnel
    /\ u.channel_id = t.channel_id /\ u.ctrl_addr = t.ctrl_addr /\ u.data_addr = t.data_addr
    /\ u.recv_seq = t.recv_seq

LEMMA NewTunnel ==
    ASSUME NEW id \in Channel, NEW addr \in Addr
    PROVE  LET t == new(id, addr, addr) IN
           /\ t \in Tunnel
           /\ t.channel_id = id /\ t.data_addr = addr /\ t.recv_seq = 0
           /\ t.in_flight = <<>> /\ t.outbox = <<>>
<1>1. <<>> \in Seq(Flight) /\ <<>> \in Seq(Frame) /\ Len(<<>>) <= 1 /\ 0 \in Seqno
    BY SeqAssumption DEF Seqno
<1> QED
    BY <1>1 DEF new, Tunnel

LEMMA QueuesReplaced ==
    ASSUME NEW t \in Tunnel, NEW queue \in Seq(Frame), NEW x \in Flight, NEW s \in Seqno
    PROVE  /\ Queued([t EXCEPT !.outbox = queue], t)
           /\ Queued([t EXCEPT !.in_flight = <<x>>], t)
           /\ Queued([t EXCEPT !.in_flight = <<x>>, !.outbox = queue], t)
           /\ Queued([t EXCEPT !.in_flight = <<>>, !.send_seq = s], t)
<1>1. <<x>> \in Seq(Flight) /\ Len(<<x>>) <= 1 /\ <<>> \in Seq(Flight) /\ Len(<<>>) <= 1
    OBVIOUS
<1> QED
    BY <1>1 DEF Tunnel, Queued

LEMMA EnqueueGood ==
    ASSUME NEW w \in Seq(DownMsg), NEW t \in Tunnel, NEW R, NEW R2, Grown(R, R2), InOrder(R),
           NEW e, Made(e, R, R2)
    PROVE  LET u == enqueue(t, e) IN
           Queued(u, t) /\ (TunnelGood(w, t, R) => TunnelGood(w, u, R2))
<1> DEFINE kept == IF Len(t.outbox) >= MAX_CLIENT_QUEUE THEN Tail(t.outbox) ELSE t.outbox
           u == enqueue(t, e)
<1>1. e \in Frame
    BY DEF Made, Known
<1>2. /\ t.outbox \in Seq(Frame) /\ t.in_flight \in Seq(Flight) /\ Len(t.in_flight) <= 1
    BY TunnelFacts
<1>3. /\ kept \in Seq(Frame)
      /\ TunnelGood(w, t, R) =>
            Good(Line(w, t.channel_id, t.in_flight, kept), t.channel_id, R)
    <2>1. CASE Len(t.outbox) >= MAX_CLIENT_QUEUE
        <3>1. t.outbox # <<>>
            BY <2>1, QueueAssumption
        <3>2. Tail(t.outbox) \in Seq(Frame)
            BY <1>2, <3>1
        <3> QED
            BY <1>2, <2>1, <3>1, <3>2, LineShed DEF TunnelGood
    <2>2. CASE ~ (Len(t.outbox) >= MAX_CLIENT_QUEUE)
        BY <1>2, <2>2 DEF TunnelGood
    <2> QED
        BY <2>1, <2>2
<1>4. u = [t EXCEPT !.outbox = Append(kept, e)]
    BY DEF enqueue, Tunnel
<1> HIDE DEF kept, u
<1>5. Append(kept, e) \in Seq(Frame)
    BY <1>1, <1>3
<1>6. ASSUME TunnelGood(w, t, R)
      PROVE  Good(Line(w, t.channel_id, t.in_flight, Append(kept, e)), t.channel_id, R2)
    BY <1>2, <1>3, <1>6, LineAppended
<1>7. /\ u.outbox = Append(kept, e) /\ u.in_flight = t.in_flight
      /\ u.channel_id = t.channel_id /\ u.ctrl_addr = t.ctrl_addr /\ u.data_addr = t.data_addr
      /\ u.recv_seq = t.recv_seq /\ u \in Tunnel
    BY <1>4, <1>5 DEF Tunnel
<1> QED
    BY <1>6, <1>7 DEF u, Queued, TunnelGood

LEMMA PumpGood ==
    ASSUME NEW w \in Seq(DownMsg), NEW t \in Tunnel, NEW R
    PROVE  LET u == pump(t) IN Queued(u, t) /\ (TunnelGood(w, t, R) => TunnelGood(w, u, R))
<1>1. CASE t.in_flight # <<>> \/ t.outbox = <<>>
    BY <1>1 DEF pump, Queued
<1>2. CASE ~ (t.in_flight # <<>> \/ t.outbox = <<>>)
    <2> DEFINE x == [sequence |-> t.send_seq, cemi |-> Head(t.outbox),
                     attempts |-> 1, deadline |-> REQUEST_TIMEOUT]
               u == [t EXCEPT !.in_flight = <<x>>, !.outbox = Tail(@)]
    <2>1. t.send_seq \in Seqno /\ t.outbox \in Seq(Frame) /\ t.outbox # <<>> /\ t.in_flight = <<>>
        BY <1>2, TunnelFacts
    <2>2. x \in Flight
        BY <2>1, TimeoutAssumption DEF Flight
    <2>3. x.cemi = Head(t.outbox)
        OBVIOUS
    <2>4. pump(t) = u
        BY <1>2 DEF pump
    <2> HIDE DEF x
    <2>5. Tail(t.outbox) \in Seq(Frame)
        BY <2>1
    <2>6. ASSUME TunnelGood(w, t, R)
          PROVE  Good(Line(w, t.channel_id, <<x>>, Tail(t.outbox)), t.channel_id, R)
        BY <2>6, <2>1, <2>2, <2>3, LinePumped DEF TunnelGood
    <2>7. u.in_flight = <<x>> /\ u.outbox = Tail(t.outbox) /\ u.channel_id = t.channel_id
        BY DEF Tunnel
    <2>8. u = [t EXCEPT !.in_flight = <<x>>, !.outbox = Tail(t.outbox)]
        BY DEF Tunnel
    <2>9. Queued(u, t)
        BY <2>1, <2>2, <2>5, <2>8, QueuesReplaced
    <2> HIDE DEF u
    <2> QED
        BY <2>4, <2>6, <2>7, <2>9 DEF TunnelGood
<1> QED
    BY <1>1, <1>2

LEMMA DeliverGood ==
    ASSUME NEW w \in Seq(DownMsg), NEW t \in Tunnel, NEW R, NEW R2, Grown(R, R2), InOrder(R),
           NEW frame, Made(as_indication(frame), R, R2)
    PROVE  LET u == deliver(t, frame) IN
           Queued(u, t) /\ (TunnelGood(w, t, R) => TunnelGood(w, u, R2))
<1> DEFINE v == enqueue(t, as_indication(frame))
<1>1. Queued(v, t) /\ (TunnelGood(w, t, R) => TunnelGood(w, v, R2))
    BY EnqueueGood
<1> HIDE DEF v
<1>2. Queued(pump(v), v) /\ (TunnelGood(w, v, R2) => TunnelGood(w, pump(v), R2))
    BY <1>1, PumpGood DEF Queued
<1>3. deliver(t, frame) = pump(v)
    BY DEF deliver, v
<1> QED
    BY <1>1, <1>2, <1>3 DEF Queued

LEMMA TakeGood ==
    ASSUME NEW w \in Seq(DownMsg), NEW t \in Tunnel, NEW R, NEW R2, Grown(R, R2), InOrder(R),
           NEW frame, frame.code = "req", Made(confirmation_of(frame), R, R2),
           NEW seq, is_expected(t, seq)
    PROVE  LET u == take(t, seq, frame) IN
           /\ u \in Tunnel /\ u.channel_id = t.channel_id /\ u.data_addr = t.data_addr
           /\ u.recv_seq = wrapping_inc(t.recv_seq)
           /\ TunnelGood(w, t, R) => TunnelGood(w, u, R2)
<1> DEFINE v == [t EXCEPT !.recv_seq = wrapping_inc(@)]
           e == confirmation_of(frame)
<1>1. wrapping_inc(t.recv_seq) \in Seqno
    BY TunnelFacts, NextSeqno
<1>2. /\ v \in Tunnel /\ v.channel_id = t.channel_id /\ v.data_addr = t.data_addr
      /\ v.recv_seq = wrapping_inc(t.recv_seq)
      /\ v.in_flight = t.in_flight /\ v.outbox = t.outbox
    BY <1>1 DEF Tunnel
<1>3. take(t, seq, frame) = pump(enqueue(v, e))
    BY DEF take
<1> HIDE DEF v, e
<1>4. TunnelGood(w, t, R) => TunnelGood(w, v, R)
    BY <1>2 DEF TunnelGood
<1>5. /\ Queued(enqueue(v, e), v)
      /\ TunnelGood(w, v, R) => TunnelGood(w, enqueue(v, e), R2)
    BY <1>2, EnqueueGood DEF e
<1>6. /\ Queued(pump(enqueue(v, e)), enqueue(v, e))
      /\ TunnelGood(w, enqueue(v, e), R2) => TunnelGood(w, pump(enqueue(v, e)), R2)
    BY <1>5, PumpGood DEF Queued
<1> QED
    BY <1>2, <1>3, <1>4, <1>5, <1>6 DEF Queued

LEMMA AcknowledgeGood ==
    ASSUME NEW w \in Seq(DownMsg), NEW t \in Tunnel, NEW R, NEW seq
    PROVE  LET u == acknowledge(t, seq) IN
           Queued(u, t) /\ (TunnelGood(w, t, R) => TunnelGood(w, u, R))
<1>1. CASE ~ acknowledges(t, seq)
    BY <1>1 DEF acknowledge, Queued
<1>2. CASE acknowledges(t, seq)
    <2> DEFINE v == [t EXCEPT !.in_flight = <<>>, !.send_seq = wrapping_inc(seq)]
    <2>1. /\ t.outbox \in Seq(Frame) /\ t.in_flight \in Seq(Flight) /\ Len(t.in_flight) <= 1
          /\ t.in_flight[1] \in Flight /\ t.in_flight[1].sequence = seq
        BY <1>2, TunnelFacts DEF acknowledges
    <2>2. wrapping_inc(seq) \in Seqno
        BY <2>1, NextSeqno DEF Flight
    <2>3. Queued(v, t) /\ v.in_flight = <<>> /\ v.outbox = t.outbox /\ v.channel_id = t.channel_id
        BY <2>1, <2>2, QueuesReplaced DEF Tunnel
    <2>4. acknowledge(t, seq) = pump(v)
        BY <1>2 DEF acknowledge
    <2> HIDE DEF v
    <2>5. <<>> \in Seq(Flight) /\ Len(<<>>) <= 1
        OBVIOUS
    <2>6. ASSUME TunnelGood(w, t, R) PROVE TunnelGood(w, v, R)
        BY <2>6, <2>1, <2>3, <2>5, LineKept DEF TunnelGood
    <2>7. Queued(pump(v), v) /\ (TunnelGood(w, v, R) => TunnelGood(w, pump(v), R))
        BY <2>3, PumpGood DEF Queued
    <2> QED
        BY <2>3, <2>4, <2>6, <2>7 DEF Queued
<1> QED
    BY <1>1, <1>2

\* The request in flight is counted again, or its deadline comes nearer.
LEMMA SameFlight ==
    ASSUME NEW w \in Seq(DownMsg), NEW t \in Tunnel, NEW R,
           t.in_flight # <<>>, NEW x \in Flight,
           x.sequence = t.in_flight[1].sequence, x.cemi = t.in_flight[1].cemi
    PROVE  LET u == [t EXCEPT !.in_flight = <<x>>] IN
           Queued(u, t) /\ (TunnelGood(w, t, R) => TunnelGood(w, u, R))
<1> DEFINE u == [t EXCEPT !.in_flight = <<x>>]
<1>1. /\ t.outbox \in Seq(Frame) /\ t.in_flight \in Seq(Flight) /\ Len(t.in_flight) <= 1
      /\ t.send_seq \in Seqno
    BY TunnelFacts
<1>2. Queued(u, t)
    BY <1>1, QueuesReplaced
<1>3. u.in_flight = <<x>> /\ u.outbox = t.outbox /\ u.channel_id = t.channel_id
    BY DEF Tunnel
<1>4. <<x>> \in Seq(Flight) /\ Len(<<x>>) <= 1 /\ <<x>>[1] = x
    OBVIOUS
<1> HIDE DEF u
<1>5. ASSUME TunnelGood(w, t, R) PROVE TunnelGood(w, u, R)
    BY <1>1, <1>3, <1>4, <1>5, LineKept DEF TunnelGood
<1> QED
    BY <1>2, <1>5 DEF u

LEMMA RepeatGood ==
    ASSUME NEW w \in Seq(DownMsg), NEW t \in Tunnel, NEW R
    PROVE  LET u == repeat(t) IN Queued(u, t) /\ (TunnelGood(w, t, R) => TunnelGood(w, u, R))
<1>1. CASE ~ ack_overdue(t)
    BY <1>1 DEF repeat, Queued
<1>2. CASE ack_overdue(t)
    <2> DEFINE x == [t.in_flight[1] EXCEPT !.attempts = @ + 1, !.deadline = REQUEST_TIMEOUT]
    <2>1. t.in_flight # <<>> /\ t.in_flight[1] \in Flight
        BY <1>2, TunnelFacts DEF ack_overdue
    <2>0. t.in_flight[1].attempts + 1 \in Nat /\ REQUEST_TIMEOUT \in Nat
        BY <2>1, TimeoutAssumption DEF Flight
    <2>2. x \in Flight /\ x.sequence = t.in_flight[1].sequence /\ x.cemi = t.in_flight[1].cemi
        BY <2>0, <2>1 DEF Flight
    <2>3. repeat(t) = [t EXCEPT !.in_flight = <<x>>]
        BY <1>2 DEF repeat, transmit
    <2> HIDE DEF x
    <2> QED
        BY <2>1, <2>2, <2>3, SameFlight
<1> QED
    BY <1>1, <1>2

LEMMA AgeGood ==
    ASSUME NEW w \in Seq(DownMsg), NEW t \in Tunnel, NEW R, NEW age \in Nat
    PROVE  LET u == [t EXCEPT !.heartbeat_age = age] IN
           Queued(u, t) /\ (TunnelGood(w, t, R) => TunnelGood(w, u, R)) /\ u.in_flight = t.in_flight
BY DEF Tunnel, Queued, TunnelGood

LEMMA HeartbeatGood ==
    ASSUME NEW w \in Seq(DownMsg), NEW t \in Tunnel, NEW R
    PROVE  LET u == heartbeat(t) IN Queued(u, t) /\ (TunnelGood(w, t, R) => TunnelGood(w, u, R))
BY AgeGood DEF heartbeat

LEMMA ElapseGood ==
    ASSUME NEW w \in Seq(DownMsg), NEW t \in Tunnel, NEW R
    PROVE  LET u == elapse(t) IN Queued(u, t) /\ (TunnelGood(w, t, R) => TunnelGood(w, u, R))
<1> DEFINE age == IF t.heartbeat_age < TUNNEL_TIMEOUT THEN t.heartbeat_age + 1
                  ELSE t.heartbeat_age
           v == [t EXCEPT !.heartbeat_age = age]
           x == [t.in_flight[1] EXCEPT !.deadline = @ - 1]
           nearer == t.in_flight # <<>> /\ t.in_flight[1].deadline > 0
<1>1. age \in Nat
    BY TunnelFacts
<1> HIDE DEF age
<1>2. Queued(v, t) /\ (TunnelGood(w, t, R) => TunnelGood(w, v, R)) /\ v.in_flight = t.in_flight
    BY <1>1, AgeGood
<1>3. elapse(t) = IF nearer THEN [v EXCEPT !.in_flight = <<x>>] ELSE v
    BY DEF elapse, age, Tunnel
<1>4. CASE nearer
    <2>1. t.in_flight[1] \in Flight /\ t.in_flight # <<>> /\ t.in_flight[1].deadline > 0
        BY <1>4, TunnelFacts
    <2>0. t.in_flight[1].deadline - 1 \in Nat
        BY <2>1 DEF Flight
    <2>2. x \in Flight /\ x.sequence = t.in_flight[1].sequence /\ x.cemi = t.in_flight[1].cemi
        BY <2>0, <2>1 DEF Flight
    <2> HIDE DEF x, v, nearer
    <2>3. LET u == [v EXCEPT !.in_flight = <<x>>] IN
              Queued(u, v) /\ (TunnelGood(w, v, R) => TunnelGood(w, u, R))
        BY <1>2, <2>1, <2>2, SameFlight DEF Queued
    <2> QED
        BY <1>2, <1>3, <1>4, <2>3 DEF Queued
<1>5. CASE ~ nearer
    BY <1>2, <1>3, <1>5
<1> QED
    BY <1>4, <1>5

\* The request in flight of a tunnel as a datagram.
LEMMA RequestFacts ==
    ASSUME NEW t \in Tunnel, t.in_flight # <<>>
    PROVE  /\ Request(t) \in DownMsg /\ OnChannel(Request(t), t.channel_id)
           /\ Request(t).seq = t.in_flight[1].sequence
           /\ Request(t).cemi = t.in_flight[1].cemi
           /\ Request(t).channel = t.channel_id /\ Request(t).to = t.data_addr
           /\ Request(t).type = "TunnelingRequest"
<1>1. t.in_flight[1] \in Flight /\ t.channel_id \in Channel /\ t.data_addr \in Addr
    BY TunnelFacts
<1> QED
    BY <1>1 DEF Request, OnChannel, IsRequest, DownMsg, Flight

LEMMA TunnelSends ==
    ASSUME NEW w \in Seq(DownMsg), NEW t \in Tunnel, t.in_flight # <<>>, NEW w2,
           Extends(w2, w, Request(t)), NEW R, TunnelGood(w, t, R)
    PROVE  TunnelGood(w2, t, R)
<1>1. /\ t.outbox \in Seq(Frame) /\ t.in_flight \in Seq(Flight) /\ Len(t.in_flight) <= 1
    BY TunnelFacts
<1> QED
    BY <1>1, RequestFacts, LineSent DEF TunnelGood

LEMMA TunnelBarely ==
    ASSUME NEW w \in Seq(DownMsg), NEW t \in Tunnel, NEW R, TunnelGood(w, t, R)
    PROVE  WireGood(w, t.channel_id, R)
<1>1. /\ t.outbox \in Seq(Frame) /\ t.in_flight \in Seq(Flight) /\ Len(t.in_flight) <= 1
    BY TunnelFacts
<1>2. <<>> \in Seq(Flight) /\ Len(<<>>) <= 1 /\ <<>> \in Seq(Frame)
    OBVIOUS
<1> QED
    BY <1>1, <1>2, LineKept DEF TunnelGood, WireGood

LEMMA WirePassed ==
    ASSUME NEW w \in Seq(DownMsg), NEW d \in DownMsg, NEW w2, Extends(w2, w, d), NEW R
    PROVE  /\ \A id : ~ OnChannel(d, id) /\ WireGood(w, id, R) => WireGood(w2, id, R)
           /\ \A t \in Tunnel : ~ OnChannel(d, t.channel_id) /\ TunnelGood(w, t, R) =>
                 TunnelGood(w2, t, R)
<1>1. <<>> \in Seq(Flight) /\ Len(<<>>) <= 1 /\ <<>> \in Seq(Frame)
    OBVIOUS
<1>2. ASSUME NEW id, ~ OnChannel(d, id), WireGood(w, id, R) PROVE WireGood(w2, id, R)
    BY <1>1, <1>2, LinePassed DEF WireGood
<1>3. ASSUME NEW t \in Tunnel, ~ OnChannel(d, t.channel_id), TunnelGood(w, t, R)
      PROVE  TunnelGood(w2, t, R)
    BY <1>3, TunnelFacts, LinePassed DEF TunnelGood
<1> QED
    BY <1>2, <1>3

LEMMA WireTail ==
    ASSUME NEW w \in Seq(DownMsg), w # <<>>, NEW w2 \in Remaining(w), NEW R
    PROVE  /\ \A id : WireGood(w, id, R) => WireGood(w2, id, R)
           /\ \A t \in Tunnel : TunnelGood(w, t, R) => TunnelGood(w2, t, R)
<1>1. <<>> \in Seq(Flight) /\ Len(<<>>) <= 1 /\ <<>> \in Seq(Frame)
    OBVIOUS
<1>2. ASSUME NEW id, WireGood(w, id, R) PROVE WireGood(Tail(w), id, R)
    BY <1>1, <1>2, LineTail DEF WireGood
<1>3. ASSUME NEW t \in Tunnel, TunnelGood(w, t, R) PROVE TunnelGood(Tail(w), t, R)
    BY <1>3, TunnelFacts, LineTail DEF TunnelGood
<1> QED
    BY <1>2, <1>3 DEF Remaining

LEMMA WireGrown ==
    ASSUME NEW w, NEW R, NEW R2, Grown(R, R2)
    PROVE  /\ \A id : WireGood(w, id, R) => WireGood(w, id, R2)
           /\ \A t : TunnelGood(w, t, R) => TunnelGood(w, t, R2)
           /\ InOrder(R) => InOrder(R2)
<1>1. (\A id : WireGood(w, id, R) => WireGood(w, id, R2)) /\ \A t : TunnelGood(w, t, R) => TunnelGood(w, t, R2)
    BY LineGrown DEF WireGood, TunnelGood
<1>2. InOrder(R) => InOrder(R2)
    BY KnownGrows DEF InOrder, Grown
<1> QED
    BY <1>1, <1>2

-----------------------------------------------------------------------------
(* The tunnels of the server and the lines of the socket that is open.      *)

LEMMA FewerTunnels ==
    ASSUME NEW ts, TunnelSet(ts), NEW ts2 \in SUBSET ts
    PROVE  /\ TunnelSet(ts2)
           /\ \A w, port, R : DownOf(w, ts, port, R) => DownOf(w, ts2, port, R)
<1>1. IsFiniteSet(ts2) /\ Cardinality(ts2) <= Cardinality(ts)
    BY FS_Subset DEF TunnelSet
<1>2. Cardinality(ts) \in Nat /\ Cardinality(ts2) \in Nat /\ Cardinality(ts) <= MAX_TUNNELS
    BY <1>1, FS_CardinalityType DEF TunnelSet
<1>3. Cardinality(ts2) <= MAX_TUNNELS
    BY <1>1, <1>2, ServerAssumption
<1> QED
    BY <1>1, <1>3 DEF TunnelSet, TunnelsApart, DownOf

LEMMA MappedTunnels ==
    ASSUME NEW ts, TunnelSet(ts), NEW g, DOMAIN g = ts, g = [t \in ts |-> g[t]],
           \A t \in ts : g[t] \in Tunnel /\ g[t].channel_id = t.channel_id
    PROVE  TunnelSet({g[t] : t \in ts})
<1> DEFINE ts2 == {g[t] : t \in ts}
<1>1. g \in Surjection(ts, ts2)
    BY DEF Surjection
<1>2. IsFiniteSet(ts2) /\ Cardinality(ts2) <= Cardinality(ts)
    <2> HIDE DEF ts2
    <2> QED
        BY <1>1, FS_Surjection DEF TunnelSet
<1>3. Cardinality(ts) \in Nat /\ Cardinality(ts2) \in Nat /\ Cardinality(ts) <= MAX_TUNNELS
    <2> HIDE DEF ts2
    <2> QED
        BY <1>2, FS_CardinalityType DEF TunnelSet
<1>4. ts2 \in SUBSET Tunnel /\ TunnelsApart(ts2)
    BY DEF TunnelSet, TunnelsApart
<1>5. Cardinality(ts2) <= MAX_TUNNELS
    <2> HIDE DEF ts2
    <2> QED
        BY <1>2, <1>3, ServerAssumption
<1> QED
    BY <1>2, <1>4, <1>5 DEF TunnelSet

LEMMA MappedDown ==
    ASSUME NEW ts, NEW w, NEW port, NEW R, DownOf(w, ts, port, R), NEW R2, Grown(R, R2), NEW g,
           \A t \in ts : /\ g[t].data_addr = t.data_addr
                         /\ t.data_addr = port => TunnelGood(w, g[t], R2)
    PROVE  DownOf(w, {g[t] : t \in ts}, port, R2)
BY WireGrown DEF DownOf

LEMMA DownPassed ==
    ASSUME NEW w, WireOK(w), NEW ts \in SUBSET Tunnel, NEW port, NEW R, DownOf(w, ts, port, R),
           NEW d \in DownMsg, ~ IsRequest(d)
    PROVE  WireOK(Put(w, <<d>>)) /\ DownOf(Put(w, <<d>>), ts, port, R)
<1> DEFINE w2 == Put(w, <<d>>)
<1>1. WireOK(w2) /\ Extends(w2, w, d)
    BY PutAppended DEF WireOK
<1> HIDE DEF w2
<1>2. \A id : ~ OnChannel(d, id)
    BY DEF OnChannel
<1>3. /\ \A id \in Channel : WireGood(w2, id, R)
      /\ \A t \in ts : t.data_addr = port => TunnelGood(w2, t, R)
    BY <1>1, <1>2, WirePassed DEF DownOf, WireOK
<1> QED
    BY <1>1, <1>3 DEF DownOf, w2

LEMMA DownRemains ==
    ASSUME NEW w, WireOK(w), w # <<>>, NEW w2 \in Remaining(w),
           NEW ts \in SUBSET Tunnel, NEW port, NEW R, DownOf(w, ts, port, R)
    PROVE  WireOK(w2) /\ DownOf(w2, ts, port, R)
<1>1. WireOK(w2)
    BY RemainingFacts DEF WireOK
<1>2. /\ \A id : WireGood(w, id, R) => WireGood(w2, id, R)
      /\ \A t \in Tunnel : TunnelGood(w, t, R) => TunnelGood(w2, t, R)
    BY WireTail DEF WireOK
<1> QED
    BY <1>1, <1>2 DEF DownOf

\* What the server adds to the wire: a request in flight of the open socket.
Sendable(out, ts, port) ==
    \/ out = <<>>
    \/ \E u \in ts : u.data_addr = port /\ u.in_flight # <<>> /\ out = <<Request(u)>>

LEMMA DownSends ==
    ASSUME NEW w, WireOK(w), NEW ts, TunnelSet(ts), NEW port, NEW R, DownOf(w, ts, port, R),
           NEW out, Sendable(out, ts, port)
    PROVE  WireOK(Put(w, out)) /\ DownOf(Put(w, out), ts, port, R)
<1>1. CASE out = <<>>
    <2>1. Put(w, out) = w
        BY <1>1, PutNothing DEF WireOK
    <2> QED
        BY <2>1
<1>2. CASE \E u \in ts : u.data_addr = port /\ u.in_flight # <<>> /\ out = <<Request(u)>>
    <2>1. PICK u \in ts : u.data_addr = port /\ u.in_flight # <<>> /\ out = <<Request(u)>>
        BY <1>2
    <2> DEFINE w2 == Put(w, out)
               d == Request(u)
    <2>2. u \in Tunnel /\ d \in DownMsg /\ OnChannel(d, u.channel_id) /\ d.channel = u.channel_id
        BY <2>1, RequestFacts DEF TunnelSet
    <2>3. WireOK(w2) /\ Extends(w2, w, d)
        BY <2>1, <2>2, PutAppended DEF WireOK
    <2> HIDE DEF w2
    <2>4. TunnelGood(w2, u, R)
        <3>1. TunnelGood(w, u, R)
            BY <2>1 DEF DownOf
        <3> QED
            BY <2>1, <2>2, <2>3, <3>1, TunnelSends DEF WireOK, d
    <2>5. WireGood(w2, u.channel_id, R)
        BY <2>2, <2>3, <2>4, TunnelBarely DEF WireOK
    <2> HIDE DEF d
    <2>6. /\ \A id : ~ OnChannel(d, id) /\ WireGood(w, id, R) => WireGood(w2, id, R)
          /\ \A t \in Tunnel : ~ OnChannel(d, t.channel_id) /\ TunnelGood(w, t, R) =>
                TunnelGood(w2, t, R)
        BY <2>2, <2>3, WirePassed DEF WireOK
    <2>7. \A id : id # u.channel_id => ~ OnChannel(d, id)
        BY <2>2 DEF OnChannel
    <2>8. \A id \in Channel : WireGood(w2, id, R)
        BY <2>5, <2>6, <2>7 DEF DownOf
    <2>9. \A t \in ts : t.data_addr = port => TunnelGood(w2, t, R)
        <3> SUFFICES ASSUME NEW t \in ts, t.data_addr = port PROVE TunnelGood(w2, t, R)
            OBVIOUS
        <3>1. CASE t = u
            BY <2>4, <3>1
        <3>2. CASE t # u
            <4>1. t.channel_id # u.channel_id /\ t \in Tunnel
                BY <3>2 DEF TunnelSet, TunnelsApart
            <4>2. TunnelGood(w, t, R)
                BY DEF DownOf
            <4> QED
                BY <2>6, <2>7, <4>1, <4>2
        <3> QED
            BY <3>1, <3>2
    <2> QED
        BY <2>3, <2>8, <2>9 DEF DownOf, w2
<1> QED
    BY <1>1, <1>2 DEF Sendable

\* An answer, and the request that goes out with it.
LEMMA DownAnswers ==
    ASSUME NEW w, WireOK(w), NEW ts, TunnelSet(ts), NEW port, NEW R, DownOf(w, ts, port, R),
           NEW out, Sendable(out, ts, port), NEW d \in DownMsg, ~ IsRequest(d)
    PROVE  /\ WireOK(Put(w, <<d>> \o out)) /\ DownOf(Put(w, <<d>> \o out), ts, port, R)
           /\ WireOK(Put(w, out \o <<d>>)) /\ DownOf(Put(w, out \o <<d>>), ts, port, R)
           /\ WireOK(Put(w, out \o <<>>)) /\ DownOf(Put(w, out \o <<>>), ts, port, R)
<1>0. ts \in SUBSET Tunnel
    BY DEF TunnelSet
<1>1. CASE out = <<>>
    <2>1. <<d>> \o out = <<d>> /\ out \o <<d>> = <<d>> /\ out \o <<>> = <<>>
        BY <1>1
    <2>2. Put(w, <<>>) = w
        BY PutNothing DEF WireOK
    <2> QED
        BY <1>0, <2>1, <2>2, DownPassed
<1>2. CASE \E u \in ts : u.data_addr = port /\ u.in_flight # <<>> /\ out = <<Request(u)>>
    <2>1. PICK u \in ts : u.data_addr = port /\ u.in_flight # <<>> /\ out = <<Request(u)>>
        BY <1>2
    <2>2. Request(u) \in DownMsg
        BY <2>1, RequestFacts DEF TunnelSet
    <2>3. /\ Put(w, <<d>> \o out) = Put(Put(w, <<d>>), out)
          /\ Put(w, out \o <<d>>) = Put(Put(w, out), <<d>>)
        BY <2>1, <2>2, PutTwo DEF WireOK
    <2>4. out \o <<>> = out
        BY <2>1
    <2>5. WireOK(Put(w, <<d>>)) /\ DownOf(Put(w, <<d>>), ts, port, R)
        BY <1>0, DownPassed
    <2>6. WireOK(Put(w, out)) /\ DownOf(Put(w, out), ts, port, R)
        BY DownSends
    <2>7. WireOK(Put(Put(w, <<d>>), out)) /\ DownOf(Put(Put(w, <<d>>), out), ts, port, R)
        BY <2>5, DownSends
    <2>8. WireOK(Put(Put(w, out), <<d>>)) /\ DownOf(Put(Put(w, out), <<d>>), ts, port, R)
        BY <1>0, <2>6, DownPassed
    <2> QED
        BY <2>3, <2>4, <2>6, <2>7, <2>8
<1> QED
    BY <1>1, <1>2 DEF Sendable

-----------------------------------------------------------------------------
(* The other steps of the uplink.                                           *)

\* The server takes the first request on the wire.
LEMMA UpTaken ==
    ASSUME NEW w \in Seq(UpMsg), w # <<>>, IsRequest(w[1]),
           NEW ts, NEW t \in ts, Matches(t, w[1]), t.recv_seq = w[1].seq,
           NEW ts2,
           \A u \in ts2 : /\ Matches(u, w[1]) => u.recv_seq # w[1].seq
                          /\ \/ Matches(u, w[1])
                             \/ \E v \in ts : /\ v.channel_id = u.channel_id
                                              /\ v.data_addr = u.data_addr
                                              /\ v.recv_seq = u.recv_seq,
           NEW last \in Nat, NEW n \in Nat, NEW c, NEW r, UpInv(w, ts, last, n, c, r)
    PROVE  last < w[1].payload /\ UpInv(w, ts2, w[1].payload, n, c, r)
<1> DEFINE d == w[1]
           p == w[1].payload
<1>1. /\ DOMAIN w = 1 .. Len(w) /\ Len(w) \in Nat /\ 1 \in DOMAIN w /\ d \in UpMsg
      /\ \A i \in DOMAIN w : w[i] \in UpMsg
    <2>1. DOMAIN w = 1 .. Len(w) /\ Len(w) \in Nat /\ Len(w) >= 1
        BY TailFacts
    <2> QED
        BY <2>1
<1>2. p \in Nat
    BY <1>1 DEF UpMsg
<1>3. NotTwice(d, ts, last) /\ p <= n
    BY <1>1 DEF UpInv
<1>4. last < p
    BY <1>2, <1>3 DEF NotTwice
<1>5. \A j \in DOMAIN w : IsRequest(w[j]) => p < w[j].payload \/ w[j] = d
    <2> SUFFICES ASSUME NEW j \in DOMAIN w, IsRequest(w[j]) PROVE p < w[j].payload \/ w[j] = d
        OBVIOUS
    <2>1. j = 1 \/ 1 < j
        BY <1>1
    <2>2. CASE j = 1
        BY <2>2
    <2>3. CASE 1 < j
        BY <1>1, <2>3 DEF UpInv, Rising
    <2> QED
        BY <2>1, <2>2, <2>3
<1>6. \A i \in DOMAIN w : IsConnect(w[i]) => w[i].port # d.port
    <2>1. \A i \in DOMAIN w : ~ (i < 1)
        BY <1>1
    <2> QED
        BY <1>1, <2>1 DEF UpInv, ConnectsFirst
<1> HIDE DEF d, p
<1>7. ASSUME NEW e \in UpMsg, p < e.payload \/ e = d
      PROVE  NotTwice(e, ts2, p)
    <2>1. CASE e = d
        BY <1>2, <2>1 DEF NotTwice, d, p
    <2>2. CASE p < e.payload
        <3>1. e.payload \in Nat
            BY DEF UpMsg
        <3> QED
            BY <1>2, <2>2, <3>1 DEF NotTwice
    <2> QED
        BY <1>7, <2>1, <2>2
<1>8. \A j \in DOMAIN w : IsRequest(w[j]) => NotTwice(w[j], ts2, p) /\ w[j].payload <= n
    BY <1>1, <1>5, <1>7 DEF UpInv
<1>9. ConnectsFirst(w, p)
    BY <1>5, <1>6 DEF UpInv, ConnectsFirst
<1>10. c = "served" => Served(w, ts2, p, n, r)
    <2> SUFFICES ASSUME c = "served" PROVE Served(w, ts2, p, n, r)
        OBVIOUS
    <2>1. Served(w, ts, last, n, r)
        BY DEF UpInv
    <2>2. p < r.payload \/ r = d
        BY <1>1, <2>1 DEF Served, NotBefore, d, p
    <2>3. NotTwice(r, ts2, p)
        BY <1>7, <2>1, <2>2 DEF Served
    <2>4. \A i \in DOMAIN w : (IsConnect(w[i]) /\ w[i].port = r.port) => p < r.payload
        BY <1>6, <2>2
    <2> QED
        BY <2>1, <2>3, <2>4 DEF Served
<1>11. c = "queued" => p < n
    BY <1>1 DEF UpInv, d, p
<1> QED
    BY <1>3, <1>4, <1>8, <1>9, <1>10, <1>11 DEF UpInv, p

LEMMA UpFreed ==
    ASSUME NEW w, NEW ts, NEW last, NEW n, NEW c, NEW r, UpInv(w, ts, last, n, c, r),
           NEW r2
    PROVE  UpInv(w, ts, last, n, "free", r2)
BY DEF UpInv

LEMMA UpQueued ==
    ASSUME NEW w \in Seq(UpMsg), NEW ts, NEW last \in Nat, NEW n \in Nat, NEW c, NEW r,
           UpInv(w, ts, last, n, c, r), NEW r2
    PROVE  UpInv(w, ts, last, n + 1, "queued", r2)
<1>1. \A i \in DOMAIN w : w[i] \in UpMsg
    OBVIOUS
<1>2. \A i \in DOMAIN w : w[i].payload \in Nat
    BY <1>1 DEF UpMsg
<1>3. \A i \in DOMAIN w : IsRequest(w[i]) =>
          NotTwice(w[i], ts, last) /\ w[i].payload <= n + 1 /\ w[i].payload < n + 1
    BY <1>2 DEF UpInv
<1>4. last < n + 1 /\ last <= n + 1
    BY DEF UpInv
<1> QED
    BY <1>3, <1>4 DEF UpInv

LEMMA UpStarted ==
    ASSUME NEW w \in Seq(UpMsg), NEW ts, NEW last \in Nat, NEW n \in Nat, NEW r0,
           UpInv(w, ts, last, n, "queued", r0),
           NEW r \in UpMsg, IsRequest(r), r.payload = n
    PROVE  UpInv(w, ts, last, n, "served", r)
<1>1. last < n /\ \A i \in DOMAIN w : IsRequest(w[i]) => w[i].payload < n
    BY DEF UpInv
<1>2. NotBefore(w, r)
    BY <1>1 DEF NotBefore
<1>3. NotTwice(r, ts, last)
    BY <1>1 DEF NotTwice
<1>4. Served(w, ts, last, n, r)
    BY <1>1, <1>2, <1>3 DEF Served
<1> QED
    BY <1>4 DEF UpInv

LEMMA UpPut ==
    ASSUME NEW w, NEW port, UpWire(w, port), NEW d \in UpMsg, d.port <= port
    PROVE  UpWire(Put(w, <<d>>), port) /\ Extends(Put(w, <<d>>), w, d)
<1> DEFINE w2 == Put(w, <<d>>)
<1>1. w2 \in Seq(UpMsg) /\ Len(w2) <= MaxOnWire /\ Extends(w2, w, d)
    BY PutAppended DEF UpWire
<1> HIDE DEF w2
<1>2. CASE w2 = w
    BY <1>1, <1>2 DEF UpWire, w2
<1>3. CASE w2 = Append(w, d)
    <2>1. /\ Len(w) \in Nat /\ DOMAIN w = 1 .. Len(w) /\ DOMAIN w2 = 1 .. Len(w) + 1
          /\ w2[Len(w) + 1] = d /\ \A i \in 1 .. Len(w) : w2[i] = w[i]
        BY <1>3, AppendFacts DEF UpWire
    <2>2. \A i \in DOMAIN w2 : w2[i].port <= port
        BY <2>1 DEF UpWire
    <2> QED
        BY <1>1, <2>2 DEF UpWire, w2
<1> QED
    BY <1>1, <1>2, <1>3 DEF Extends

LEMMA UpRemains ==
    ASSUME NEW w, NEW port, UpWire(w, port), w # <<>>, NEW w2 \in Remaining(w)
    PROVE  UpWire(w2, port) /\ Suffix(w2, w) /\ Head(w) = w[1] /\ w[1] \in UpMsg
           /\ 1 \in DOMAIN w
<1>1. /\ w2 \in Seq(UpMsg) /\ Len(w2) <= MaxOnWire /\ Suffix(w2, w)
      /\ Head(w) = w[1] /\ Head(w) \in UpMsg
    BY RemainingFacts DEF UpWire
<1>2. \A i \in DOMAIN w2 : w2[i].port <= port
    BY <1>1 DEF Suffix, UpWire
<1>3. DOMAIN w = 1 .. Len(w) /\ Len(w) \in Nat /\ Len(w) >= 1
    BY TailFacts DEF UpWire
<1> QED
    BY <1>1, <1>2, <1>3 DEF UpWire

-----------------------------------------------------------------------------
(* Steps that leave one direction or the other as it is.                    *)

LEMMA LastFacts ==
    ASSUME NEW d \in Seq(Nat)
    PROVE  /\ LastOf(d) \in Nat
           /\ \A p \in Nat : LastOf(Append(d, p)) = p
<1>1. LastOf(d) \in Nat
    <2>1. Len(d) \in Nat /\ DOMAIN d = 1 .. Len(d)
        OBVIOUS
    <2>2. d # <<>> => Len(d) \in DOMAIN d
        BY <2>1
    <2>3. d # <<>> => d[Len(d)] \in Nat
        BY <2>1, <2>2
    <2> QED
        BY <2>3 DEF LastOf
<1>2. ASSUME NEW p \in Nat PROVE LastOf(Append(d, p)) = p
    BY AppendFacts DEF LastOf
<1> QED
    BY <1>1, <1>2

LEMMA BlockedFacts ==
    ASSUME Types
    PROVE  /\ blocked # <<>> => blocked[1].cemi \in Frame /\ blocked[1].place \in Place
           /\ Received \in Seq(Frame)
<1>1. blocked # <<>> => blocked[1] \in [cemi : Frame, place : Place]
    BY OptionFacts DEF Types
<1> QED
    BY <1>1 DEF Types, Received, ReceivedOf

LEMMA UpIsMsg ==
    ASSUME session \in Session,
           NEW type \in {"TunnelingRequest", "TunnelingAck", "ConnectRequest",
                         "DisconnectRequest", "DisconnectResponse", "ConnectionStateRequest"},
           NEW seq \in Seqno, NEW payload \in Nat
    PROVE  /\ Up(type, seq, payload) \in UpMsg
           /\ Up(type, seq, payload).port = session.port
           /\ Up(type, seq, payload).type = type
           /\ Up(type, seq, payload).payload = payload
BY DEF Session, Up, UpMsg

LEMMA ZeroSeq == 0 \in Seqno
BY SeqAssumption DEF Seqno

LEMMA PortFacts ==
    ASSUME session \in Session
    PROVE  session.port \in Nat /\ session.port <= session.port /\ session.port \in Addr
BY PortsAssumption DEF Session

\* The application's requests and the tunnels that take them stay as they are.
SameSender ==
    /\ UNCHANGED <<tunnels, delivered, offered>> /\ session'.port = session.port
    /\ \/ caller' = "free"
       \/ caller' = caller /\ (caller = "served" => request' = request)
    /\ \/ toServer' = toServer
       \/ \E d \in UpMsg : /\ ~ IsRequest(d) /\ ~ IsConnect(d) /\ d.port = session.port
                           /\ toServer' = Put(toServer, <<d>>)

\* The client has taken no frame, and reads what it read or reads no more.
SameReader ==
    /\ UNCHANGED <<tunnels, delivered, indicated>> /\ session'.port = session.port
    /\ Received' = Received
    /\ Connected' => /\ Connected
                     /\ session'.channel_id = session.channel_id
                     /\ session'.recv_seq = session.recv_seq
    /\ task' = "await_connect" => task = "await_connect"
    /\ \/ toClient' = toClient
       \/ toClient # <<>> /\ toClient' \in Remaining(toClient)

LEMMA SenderKeeps ==
    ASSUME Inv, SameSender
    PROVE  Uplink' /\ UpWire(toServer', session'.port)
<1>1. /\ UpWire(toServer, session.port) /\ session \in Session /\ session'.port = session.port
      /\ UpInv(toServer, tunnels, Latest, offered, caller, request)
      /\ toServer \in Seq(UpMsg)
    BY DEF Inv, Types, Uplink, SameSender, UpWire
<1>2. /\ UpWire(toServer', session.port)
      /\ UpInv(toServer', tunnels, Latest, offered, caller, request)
    <2>1. CASE toServer' = toServer
        BY <1>1, <2>1
    <2>2. CASE \E d \in UpMsg : /\ ~ IsRequest(d) /\ ~ IsConnect(d) /\ d.port = session.port
                                /\ toServer' = Put(toServer, <<d>>)
        <3>1. PICK d \in UpMsg : /\ ~ IsRequest(d) /\ ~ IsConnect(d) /\ d.port = session.port
                                 /\ toServer' = Put(toServer, <<d>>)
            BY <2>2
        <3>2. UpWire(toServer', session.port) /\ Extends(toServer', toServer, d)
            BY <1>1, <3>1, PortFacts, UpPut
        <3> QED
            BY <1>1, <3>1, <3>2, UpPassed
    <2> QED
        BY <2>1, <2>2 DEF SameSender
<1>3. UpInv(toServer', tunnels, Latest, offered, caller', request')
    <2>1. CASE caller' = "free"
        BY <1>2, <2>1, UpFreed
    <2>2. CASE caller' = caller /\ (caller = "served" => request' = request)
        BY <1>2, <2>2 DEF UpInv
    <2> QED
        BY <2>1, <2>2 DEF SameSender
<1>4. Latest' = Latest
    BY DEF SameSender, Latest
<1> QED
    BY <1>1, <1>2, <1>3, <1>4 DEF Uplink, Inv, SameSender

LEMMA DownForgets ==
    ASSUME NEW w, NEW ts, NEW port, NEW R, DownOf(w, ts, port, R), NEW R2,
           R2.taken = R.taken, R2.confirmed = R.confirmed, R2.indicated = R.indicated,
           R2.connected => R.connected /\ R2.id = R.id /\ R2.seq = R.seq,
           R2.opening => R.opening
    PROVE  DownOf(w, ts, port, R2)
<1>1. ASSUME NEW L, NEW id, Good(L, id, R) PROVE Good(L, id, R2)
    BY <1>1 DEF Good
<1> QED
    BY <1>1 DEF DownOf, InOrder, WireGood, TunnelGood

LEMMA ReaderKeeps ==
    ASSUME Inv, SameReader
    PROVE  Downlink' /\ WireOK(toClient')
<1>1. /\ WireOK(toClient) /\ tunnels \in SUBSET Tunnel
      /\ DownOf(toClient, tunnels, session.port, Reader)
    BY DEF Inv, Types, Downlink, TunnelSet
<1>2. WireOK(toClient') /\ DownOf(toClient', tunnels, session.port, Reader)
    BY <1>1, DownRemains DEF SameReader
<1>3. Latest' = Latest
    BY DEF SameReader, Latest
<1>4. /\ Reader'.taken = Reader.taken /\ Reader'.confirmed = Reader.confirmed
      /\ Reader'.indicated = Reader.indicated
      /\ Reader'.connected =>
            Reader.connected /\ Reader'.id = Reader.id /\ Reader'.seq = Reader.seq
      /\ Reader'.opening => Reader.opening
    BY <1>3 DEF Reader, SameReader
<1>5. DownOf(toClient', tunnels, session.port, Reader')
    BY <1>2, <1>4, DownForgets
<1> QED
    BY <1>2, <1>5 DEF Downlink, SameReader

\* What is left to show for a step of the client.
LEMMA ClientKeeps ==
    ASSUME Inv, SameSender, SameReader, Control', session' \in Session,
           blocked' \in Seq([cemi : Frame, place : Place]), Len(blocked') <= 1,
           handed' \in Seq(Frame), UNCHANGED next_channel_id
    PROVE  Inv'
<1>1. Uplink' /\ UpWire(toServer', session'.port) /\ Downlink' /\ WireOK(toClient')
    BY SenderKeeps, ReaderKeeps
<1> QED
    BY <1>1 DEF Inv, Types, SameSender, SameReader

-----------------------------------------------------------------------------
(* The steps of the client.                                                 *)

\* The session up to its count of failures.
SameSession ==
    /\ session' \in Session /\ session'.port = session.port
    /\ session'.channel_id = session.channel_id
    /\ session'.send_seq = session.send_seq /\ session'.recv_seq = session.recv_seq

LEMMA SessionSame ==
    ASSUME Inv
    PROVE  /\ UNCHANGED session => SameSession
           /\ heartbeat_failed => SameSession
           /\ session' = [session EXCEPT !.heartbeat_failures = 0] => SameSession
<1>1. session \in Session
    BY DEF Inv, Types
<1>2. ASSUME NEW n \in Nat, session' = [session EXCEPT !.heartbeat_failures = n]
      PROVE  SameSession
    BY <1>1, <1>2 DEF SameSession, Session
<1>3. session.heartbeat_failures + 1 \in Nat
    BY <1>1 DEF Session
<1>4. heartbeat_failed => SameSession
    BY <1>1, <1>2, <1>3 DEF heartbeat_failed, SameSession
<1> QED
    BY <1>1, <1>2, <1>4 DEF SameSession

LEMMA FailedTask ==
    ASSUME heartbeat_failed \/ lose_connection
    PROVE  task' \in {"select", "delay", "ended"}
BY DEF heartbeat_failed, lose_connection

\* Every step that changes neither what is sent again nor what is read.
LEMMA QuietStep ==
    ASSUME Inv, SameSession,
           UNCHANGED <<blocked, handed, server, delivered, offered>>,
           task \in Place \cup {"delay", "await_connect"},
           \/ task' = task /\ caller' = caller
           \/ task' \in {"select", "await_state"} /\ task # "delay" /\ task # "await_connect"
              /\ (caller' = "free" \/ (caller' = caller /\ caller # "served"))
           \/ task' \in {"delay", "ended"}
              /\ (caller' = "free" \/ (caller' = caller /\ caller # "served")),
           \/ toServer' = toServer
           \/ \E type \in {"TunnelingAck", "DisconnectRequest", "DisconnectResponse",
                           "ConnectionStateRequest"} :
                 \E seq \in Seqno : toServer' = Put(toServer, <<Up(type, seq, 0)>>),
           \/ toClient' = toClient
           \/ toClient # <<>> /\ toClient' \in Remaining(toClient)
    PROVE  Inv'
<1>1. UNCHANGED <<tunnels, next_channel_id, indicated, delivered, offered, blocked, handed>>
    BY DEF server
<1>2. session \in Session
    BY DEF Inv, Types
<1>3. request' = request
    BY <1>1 DEF SameSession, request, Up
<1>4. \/ toServer' = toServer
      \/ \E d \in UpMsg : /\ ~ IsRequest(d) /\ ~ IsConnect(d) /\ d.port = session.port
                          /\ toServer' = Put(toServer, <<d>>)
    <2> SUFFICES ASSUME NEW type \in {"TunnelingAck", "DisconnectRequest",
                                      "DisconnectResponse", "ConnectionStateRequest"},
                        NEW seq \in Seqno, toServer' = Put(toServer, <<Up(type, seq, 0)>>)
                 PROVE  \E d \in UpMsg : /\ ~ IsRequest(d) /\ ~ IsConnect(d)
                                         /\ d.port = session.port
                                         /\ toServer' = Put(toServer, <<d>>)
        OBVIOUS
    <2>1. /\ Up(type, seq, 0) \in UpMsg /\ Up(type, seq, 0).port = session.port
          /\ Up(type, seq, 0).type = type
        BY <1>2, UpIsMsg
    <2> QED
        BY <2>1 DEF IsRequest, IsConnect
<1>5. caller' = "free" \/ caller' = caller
    OBVIOUS
<1>6. SameSender
    BY <1>1, <1>3, <1>4, <1>5 DEF SameSender, SameSession
<1>7. task' = "await_connect" => task = "await_connect"
    OBVIOUS
<1>8. Connected' => Connected
    BY DEF Connected, Place
<1>9. SameReader
    BY <1>1, <1>7, <1>8 DEF SameReader, SameSession, Received
<1>10. Control'
    <2>1. blocked = <<>> /\ task # "blocked"
        BY DEF Inv, Control, Place
    <2>2. caller' \in {"free", "queued", "served"}
        BY DEF Inv, Control
    <2>3. task' \in Place \cup {"delay", "await_connect", "ended"} /\ task' # "blocked"
        BY DEF Inv, Control, Place
    <2>4. (caller' = "served") <=> (task' = "await_ack")
        BY <2>1 DEF Inv, Control
    <2> QED
        BY <1>1, <2>1, <2>2, <2>3, <2>4 DEF Control
<1> QED
    BY <1>1, <1>6, <1>9, <1>10, ClientKeeps DEF SameSession, Inv, Types

LEMMA ReceiveKeeps == Inv /\ AppReceives => Inv'
<1> SUFFICES ASSUME Inv, AppReceives PROVE Inv'
    OBVIOUS
<1>1. UNCHANGED <<task, session, blocked, caller, server, toServer, toClient, handed, delivered,
                  offered, confirmed>>
    BY DEF AppReceives, seen
<1>2. /\ Control' /\ session' \in Session
      /\ blocked' \in Seq([cemi : Frame, place : Place]) /\ Len(blocked') <= 1
      /\ handed' \in Seq(Frame) /\ UNCHANGED <<tunnels, next_channel_id, indicated>>
    BY <1>1 DEF Inv, Control, Types, server
<1>3. SameSender
    BY <1>1, <1>2 DEF SameSender, request, Up
<1>4. SameReader
    BY <1>1, <1>2 DEF SameReader, Received, Connected
<1> QED
    BY <1>2, <1>3, <1>4, ClientKeeps

LEMMA QuietKeeps ==
    Inv /\ (SocketError \/ StartHeartbeat \/ HeartbeatTimeout \/ Close \/ RejectCall
            \/ ConnectTimeout \/ ReadStateResponse \/ ReadIgnored) => Inv'
<1> USE DEF server, seen
<1>1. ASSUME Inv, SocketError PROVE Inv'
    <2>1. CASE task = "select" /\ lose_connection /\ UNCHANGED <<attempt, buffered, caller, confirmed>>
        <3>1. caller # "served"
            BY <1>1, <2>1 DEF Inv, Control
        <3> QED
            BY <1>1, <2>1, <3>1, SessionSame, QuietStep DEF SocketError, lose_connection, Place
    <2>2. CASE task = "await_ack" /\ reply(FALSE)
        BY <1>1, <2>2, SessionSame, QuietStep DEF SocketError, reply, Place
    <2> QED
        BY <1>1, <2>1, <2>2 DEF SocketError
<1>2. ASSUME Inv, StartHeartbeat PROVE Inv'
    <2>1. caller # "served" /\ 0 \in Seqno
        BY <1>2, ZeroSeq DEF Inv, Control, StartHeartbeat
    <2> QED
        BY <1>2, <2>1, SessionSame, QuietStep DEF StartHeartbeat, ClientSends, Place
<1>3. ASSUME Inv, HeartbeatTimeout PROVE Inv'
    <2>1. caller # "served" /\ SameSession /\ task' \in {"select", "delay", "ended"}
        BY <1>3, SessionSame, FailedTask DEF Inv, Control, HeartbeatTimeout
    <2> QED
        BY <1>3, <2>1, QuietStep DEF HeartbeatTimeout, Place
<1>4. ASSUME Inv, Close PROVE Inv'
    <2>1. caller # "served" /\ 0 \in Seqno /\ SameSession
        BY <1>4, ZeroSeq, SessionSame DEF Close
    <2> QED
        BY <1>4, <2>1, QuietStep DEF Close, ClientSends, Place
<1>5. ASSUME Inv, RejectCall PROVE Inv'
    <2>1. CASE task = "delay"
        BY <1>5, <2>1, SessionSame, QuietStep DEF RejectCall, Place
    <2>2. CASE task = "ended"
        <3>1. UNCHANGED <<task, session, blocked, tunnels, next_channel_id, indicated, toServer,
                          toClient, handed, delivered, offered>> /\ caller' = "free"
            BY <1>5 DEF RejectCall
        <3>2. /\ Control' /\ session' \in Session
              /\ blocked' \in Seq([cemi : Frame, place : Place]) /\ Len(blocked') <= 1
              /\ handed' \in Seq(Frame)
            BY <1>5, <2>2, <3>1 DEF Inv, Control, Types
        <3>3. SameSender /\ SameReader
            BY <3>1 DEF SameSender, SameReader, Received, Connected
        <3> QED
            BY <1>5, <3>1, <3>2, <3>3, ClientKeeps
    <2> QED
        BY <1>5, <2>1, <2>2 DEF RejectCall
<1>6. ASSUME Inv, ConnectTimeout PROVE Inv'
    <2>1. caller # "served"
        BY <1>6 DEF Inv, Control, ConnectTimeout
    <2> QED
        BY <1>6, <2>1, SessionSame, QuietStep DEF ConnectTimeout, Place
<1>7. ASSUME Inv, ReadStateResponse PROVE Inv'
    <2>1. caller # "served" /\ task = "await_state"
        BY <1>7 DEF Inv, Control, ReadStateResponse, Reads
    <2>2. SameSession /\ task' \in {"select", "delay", "ended"}
        BY <1>7, SessionSame, FailedTask DEF ReadStateResponse
    <2> QED
        BY <1>7, <2>1, <2>2, QuietStep DEF ReadStateResponse, Reads, Place
<1>8. ASSUME Inv, ReadIgnored PROVE Inv'
    BY <1>8, SessionSame, QuietStep DEF ReadIgnored, Reads, Place, client
<1> QED
    BY <1>1, <1>2, <1>3, <1>4, <1>5, <1>6, <1>7, <1>8

LEMMA DisconnectKeeps == Inv /\ ReadDisconnectRequest => Inv'
<1> SUFFICES ASSUME Inv, ReadDisconnectRequest PROVE Inv'
    OBVIOUS
<1>1. /\ UNCHANGED <<attempt, blocked, cemi, caller, confirmed, handed, server, offered, delivered>>
      /\ toClient # <<>> /\ toClient' \in Remaining(toClient) /\ 0 \in Seqno
    BY ZeroSeq DEF ReadDisconnectRequest, Reads
<1>2. CASE /\ task = "select" /\ lose_connection
           /\ ClientSends(<<disconnect_response>>) /\ UNCHANGED <<session, buffered>>
    <2>1. caller # "served" /\ SameSession /\ task' \in {"delay", "ended"}
        BY <1>2, SessionSame DEF Inv, Control, lose_connection
    <2> QED
        BY <1>1, <1>2, <2>1, QuietStep DEF Place, ClientSends, disconnect_response
<1>3. CASE task = "await_ack" /\ buffered' = TRUE /\ UNCHANGED <<task, session, toServer>>
    BY <1>1, <1>3, SessionSame, QuietStep DEF Place
<1>4. CASE /\ task = "await_state" /\ heartbeat_failed
           /\ ClientSends(<<disconnect_response>>) /\ UNCHANGED buffered
    <2>1. caller # "served" /\ SameSession /\ task' \in {"select", "delay", "ended"}
        BY <1>4, SessionSame, FailedTask DEF Inv, Control
    <2> QED
        BY <1>1, <1>4, <2>1, QuietStep DEF Place, ClientSends, disconnect_response
<1> QED
    BY <1>2, <1>3, <1>4 DEF ReadDisconnectRequest

LEMMA AckKeeps == Inv /\ ReadAck => Inv'
<1> SUFFICES ASSUME Inv, ReadAck PROVE Inv'
    OBVIOUS
<1>1. /\ UNCHANGED <<blocked, handed, tunnels, next_channel_id, indicated, offered, delivered>>
      /\ toClient # <<>> /\ toClient' \in Remaining(toClient)
      /\ task = "await_ack" /\ session \in Session /\ 0 \in Seqno
    BY ZeroSeq DEF ReadAck, Reads, server, Inv, Types
<1>2. caller' = "free" /\ task' \in {"select", "delay"}
    BY DEF ReadAck, reply
<1>3. /\ session' \in Session /\ session'.port = session.port
      /\ session'.channel_id = session.channel_id /\ session'.recv_seq = session.recv_seq
    <2>1. wrapping_inc(session.send_seq) \in Seqno
        BY <1>1, NextSeqno DEF Session
    <2> QED
        BY <1>1, <2>1 DEF ReadAck, Session
<1>4. \/ toServer' = toServer
      \/ \E d \in UpMsg : /\ ~ IsRequest(d) /\ ~ IsConnect(d) /\ d.port = session.port
                          /\ toServer' = Put(toServer, <<d>>)
    <2>1. /\ disconnect_response \in UpMsg /\ disconnect_response.port = session.port
          /\ disconnect_response.type = "DisconnectResponse"
        BY <1>1, UpIsMsg DEF disconnect_response
    <2>2. Put(toServer, <<>>) = toServer
        BY PutNothing DEF Inv, Types, UpWire
    <2>3. \/ toServer' = toServer
          \/ toServer' = Put(toServer, <<>>)
          \/ toServer' = Put(toServer, <<disconnect_response>>)
        BY DEF ReadAck, ClientSends
    <2> QED
        BY <2>1, <2>2, <2>3 DEF IsRequest, IsConnect
<1>5. SameSender
    BY <1>1, <1>2, <1>3, <1>4 DEF SameSender
<1>6. SameReader
    BY <1>1, <1>2, <1>3 DEF SameReader, Connected, Received, Place
<1>7. Control'
    BY <1>1, <1>2 DEF Inv, Control, Place
<1> QED
    BY <1>1, <1>3, <1>5, <1>6, <1>7, ClientKeeps DEF Inv, Types

LEMMA HandOverKeeps == Inv /\ HandOver => Inv'
<1> SUFFICES ASSUME Inv, HandOver PROVE Inv'
    OBVIOUS
<1>1. /\ UNCHANGED <<session, caller, tunnels, next_channel_id, indicated, toServer, toClient,
                     offered, delivered>>
      /\ task = "blocked" /\ task' = blocked[1].place /\ blocked' = <<>>
      /\ handed' = Append(handed, blocked[1].cemi)
    BY DEF HandOver, hand_over, server
<1>2. blocked # <<>> /\ blocked[1].cemi \in Frame /\ blocked[1].place \in Place
    BY <1>1, BlockedFacts DEF Inv, Control
<1>3. Received' = Received
    BY <1>1, <1>2 DEF Received, ReceivedOf
<1>4. Control'
    BY <1>1, <1>2 DEF Inv, Control, Place
<1>5. handed' \in Seq(Frame) /\ blocked' \in Seq([cemi : Frame, place : Place]) /\ Len(blocked') <= 1
    BY <1>1, <1>2 DEF Inv, Types
<1>6. SameSender
    BY <1>1 DEF SameSender, request, Up
<1>7. SameReader
    BY <1>1, <1>2, <1>3 DEF SameReader, Connected, Place
<1> QED
    BY <1>1, <1>4, <1>5, <1>6, <1>7, ClientKeeps DEF Inv, Types

LEMMA RequestIsMsg ==
    ASSUME session \in Session, offered \in Nat
    PROVE  /\ request \in UpMsg /\ IsRequest(request) /\ request.payload = offered
           /\ request.port = session.port
<1>1. session.send_seq \in Seqno
    BY DEF Session
<1> QED
    BY <1>1, UpIsMsg DEF request, IsRequest

LEMMA SendsKeeps == Inv /\ AppSends => Inv'
<1> SUFFICES ASSUME Inv, AppSends PROVE Inv'
    OBVIOUS
<1>1. /\ UNCHANGED <<task, session, blocked, tunnels, next_channel_id, indicated, toServer,
                     toClient, delivered, handed>>
      /\ caller = "free" /\ caller' = "queued" /\ offered' = offered + 1
    BY DEF AppSends, server
<1>2. /\ toServer \in Seq(UpMsg) /\ offered \in Nat /\ Latest \in Nat
      /\ UpInv(toServer, tunnels, Latest, offered, caller, request)
    BY LastFacts DEF Inv, Types, UpWire, Uplink, Latest
<1>3. UpInv(toServer, tunnels, Latest, offered + 1, "queued", request')
    BY <1>2, UpQueued
<1>4. Latest' = Latest
    BY <1>1 DEF Latest
<1>5. Uplink'
    BY <1>1, <1>3, <1>4 DEF Uplink, Inv
<1>6. SameReader
    BY <1>1 DEF SameReader, Received, Connected
<1>7. Downlink' /\ WireOK(toClient')
    BY <1>6, ReaderKeeps
<1>8. Control'
    BY <1>1 DEF Inv, Control
<1>9. offered' \in Nat
    BY <1>1, <1>2
<1> QED
    BY <1>1, <1>5, <1>7, <1>8, <1>9 DEF Inv, Types

LEMMA StartKeeps == Inv /\ StartSend => Inv'
<1> SUFFICES ASSUME Inv, StartSend PROVE Inv'
    OBVIOUS
<1>1. /\ UNCHANGED <<session, blocked, tunnels, next_channel_id, indicated, toClient,
                     delivered, handed, offered>>
      /\ task = "select" /\ task' = "await_ack" /\ caller = "queued" /\ caller' = "served"
      /\ toServer' = Put(toServer, <<request>>)
    BY DEF StartSend, server, seen, ClientSends
<1>2. /\ UpWire(toServer, session.port) /\ toServer \in Seq(UpMsg)
      /\ session \in Session /\ offered \in Nat /\ Latest \in Nat
      /\ UpInv(toServer, tunnels, Latest, offered, "queued", request)
    BY <1>1, LastFacts DEF Inv, Types, UpWire, Uplink, Latest
<1>3. request \in UpMsg /\ IsRequest(request) /\ request.payload = offered /\ request.port = session.port
    BY <1>2, RequestIsMsg
<1>4. UpInv(toServer, tunnels, Latest, offered, "served", request)
    BY <1>2, <1>3, UpStarted
<1>5. UpWire(toServer', session.port) /\ Extends(toServer', toServer, request)
    BY <1>1, <1>2, <1>3, PortFacts, UpPut
<1>6. UpInv(toServer', tunnels, Latest, offered, "served", request)
    BY <1>2, <1>3, <1>4, <1>5, UpSent
<1>7. request' = request /\ Latest' = Latest
    BY <1>1 DEF request, Up, Latest
<1>8. Uplink'
    BY <1>1, <1>6, <1>7 DEF Uplink, Inv
<1>9. SameReader
    BY <1>1 DEF SameReader, Received, Connected, Place
<1>10. Downlink' /\ WireOK(toClient')
    BY <1>9, ReaderKeeps
<1>11. Control'
    BY <1>1 DEF Inv, Control, Place
<1> QED
    BY <1>1, <1>5, <1>8, <1>10, <1>11 DEF Inv, Types

LEMMA TimeoutKeeps == Inv /\ AckTimeout => Inv'
<1> SUFFICES ASSUME Inv, AckTimeout PROVE Inv'
    OBVIOUS
<1>1. /\ UNCHANGED <<session, blocked, server, toClient, delivered, handed, offered>>
      /\ task = "await_ack"
    BY DEF AckTimeout
<1>2. CASE reply(FALSE) /\ UNCHANGED toServer
    <2>1. caller' = "free" /\ task' \in {"select", "delay"}
        BY <1>2 DEF reply
    <2> QED
        BY <1>1, <1>2, <2>1, SessionSame, QuietStep DEF Place
<1>3. CASE ClientSends(<<request>>) /\ UNCHANGED <<task, caller>>
    <2>1. caller = "served"
        BY <1>1 DEF Inv, Control
    <2>2. /\ UpWire(toServer, session.port) /\ toServer \in Seq(UpMsg)
          /\ session \in Session /\ offered \in Nat /\ Latest \in Nat
          /\ UpInv(toServer, tunnels, Latest, offered, "served", request)
        BY <2>1, LastFacts DEF Inv, Types, UpWire, Uplink, Latest
    <2>3. request \in UpMsg /\ request.port = session.port
        BY <2>2, RequestIsMsg
    <2>4. UpWire(toServer', session.port) /\ Extends(toServer', toServer, request)
        BY <1>3, <2>2, <2>3, PortFacts, UpPut DEF ClientSends
    <2>5. UpInv(toServer', tunnels, Latest, offered, "served", request)
        BY <2>2, <2>3, <2>4, UpSent
    <2>6. request' = request /\ Latest' = Latest
        BY <1>1 DEF request, Up, Latest
    <2>7. UNCHANGED <<tunnels, next_channel_id, indicated>>
        BY <1>1 DEF server
    <2>8. Uplink'
        BY <1>1, <1>3, <2>1, <2>5, <2>6, <2>7 DEF Uplink, Inv
    <2>9. SameReader
        BY <1>1, <1>3, <2>7 DEF SameReader, Received, Connected
    <2>10. Downlink' /\ WireOK(toClient')
        BY <2>9, ReaderKeeps
    <2>11. Control'
        BY <1>1, <1>3 DEF Inv, Control
    <2> QED
        BY <1>1, <2>4, <2>7, <2>8, <2>10, <2>11 DEF Inv, Types
<1> QED
    BY <1>2, <1>3 DEF AckTimeout

\* The first request on the wire is the one the client expects.
LEMMA DownTaken ==
    ASSUME NEW w \in Seq(DownMsg), w # <<>>, NEW ts \in SUBSET Tunnel, NEW port, NEW R,
           DownOf(w, ts, port, R), R.connected, ~ R.opening,
           R.taken \in Seq(Frame), R.seq \in Seqno, R.id \in Channel,
           OnChannel(w[1], R.id), w[1].seq = R.seq
    PROVE  DownOf(w, ts, port, TakesIn(R, w[1].cemi))
<1> DEFINE f == w[1].cemi
           R2 == TakesIn(R, f)
           h == R.taken
           h2 == Append(h, f)
<1>1. Len(w) \in Nat /\ 1 \in 1 .. Len(w)
    BY TailFacts
<1>2. ASSUME NEW flight \in Seq(Flight), Len(flight) <= 1, NEW queue \in Seq(Frame), NEW id,
             Good(Line(w, id, flight, queue), id, R)
      PROVE  /\ Good(Line(w, id, flight, queue), id, R2)
             /\ id = R.id => NewTo(h, f) /\ Known(f, R.confirmed, R.indicated)
    <2> DEFINE L == Line(w, id, flight, queue)
    <2>1. LineIs(L, w, id, flight, queue)
        BY <1>2, LineFacts
    <2> HIDE DEF L
    <2>2. CASE id = R.id
        <3>1. 1 \in DOMAIN L /\ L[1] = Entry(w[1].seq, w[1].cemi)
            BY <1>1, <2>1, <2>2 DEF LineIs
        <3>2. L[1].seq = R.seq /\ L[1].cemi = f
            BY <3>1 DEF Entry
        <3>3. DOMAIN L \subseteq Nat /\ \A k \in DOMAIN L : 1 <= k
            <4>1. \A k \in DOMAIN L : k \in 1 .. Len(w) \/ k = Len(w) + 1
                                      \/ k \in Len(w) + 2 .. Len(w) + 1 + Len(queue)
                BY <2>1 DEF LineIs
            <4>2. Len(queue) \in Nat /\ DOMAIN L \subseteq Nat
                BY <2>1 DEF LineIs
            <4> QED
                BY <1>1, <4>1, <4>2
        <3>4. Good(L, id, R)
            BY <1>2 DEF L
        <3>5. Good(L, id, TakesIn(R, L[1].cemi))
            BY <3>1, <3>2, <3>3, <3>4, LineTaken
        <3>6. NewTo(h, f)
            BY <2>2, <3>1, <3>2, <3>4 DEF Good, Readable
        <3>7. Known(f, R.confirmed, R.indicated)
            BY <3>1, <3>2, <3>4 DEF Good
        <3> QED
            BY <3>2, <3>5, <3>6, <3>7 DEF L
    <2>3. CASE id # R.id
        BY <1>2, <2>3 DEF Good, TakesIn
    <2> QED
        BY <2>2, <2>3
<1>3. <<>> \in Seq(Flight) /\ Len(<<>>) <= 1 /\ <<>> \in Seq(Frame)
    OBVIOUS
<1>4. NewTo(h, f) /\ Known(f, R.confirmed, R.indicated)
    BY <1>2, <1>3 DEF DownOf, WireGood
<1>5. /\ R2.taken = h2 /\ R2.confirmed = R.confirmed /\ R2.indicated = R.indicated
    BY DEF TakesIn
<1>6. InOrder(R2)
    <2>1. f \in Frame
        BY <1>4 DEF Known
    <2>2. /\ Len(h) \in Nat /\ DOMAIN h = 1 .. Len(h) /\ DOMAIN h2 = 1 .. Len(h) + 1
          /\ h2[Len(h) + 1] = f /\ \A i \in 1 .. Len(h) : h2[i] = h[i]
        BY <2>1, AppendFacts
    <2> HIDE DEF f, R2, h, h2
    <2>3. \A i \in DOMAIN h2 : i = Len(h) + 1 \/ i \in DOMAIN h
        BY <2>2
    <2>4. ASSUME NEW i \in DOMAIN h2, NEW j \in DOMAIN h2, i < j PROVE Older(h2[i], h2[j])
        <3>1. i \in DOMAIN h
            BY <2>2, <2>4
        <3>2. CASE j \in DOMAIN h
            BY <2>2, <2>4, <3>1, <3>2 DEF DownOf, InOrder, h
        <3>3. CASE j = Len(h) + 1
            BY <1>4, <2>2, <3>1, <3>3 DEF NewTo
        <3> QED
            BY <2>3, <3>2, <3>3
    <2>5. \A i \in DOMAIN h2 : Known(h2[i], R.confirmed, R.indicated)
        BY <1>4, <2>2, <2>3 DEF DownOf, InOrder, h
    <2> QED
        BY <1>5, <2>4, <2>5 DEF InOrder
<1> HIDE DEF f, R2, h, h2
<1>7. \A id \in Channel : WireGood(w, id, R2)
    BY <1>2, <1>3 DEF DownOf, WireGood
<1>8. \A t \in ts : t.data_addr = port => TunnelGood(w, t, R2)
    BY <1>2, TunnelFacts DEF DownOf, TunnelGood
<1> QED
    BY <1>6, <1>7, <1>8 DEF DownOf, R2, f

LEMMA TakeKeeps ==
    ASSUME Inv, Reads(Place), IsRequest(datagram), datagram.channel = session.channel_id,
           is_new(datagram.seq), session' = [session EXCEPT !.recv_seq = wrapping_inc(@)],
           Received' = Append(Received, datagram.cemi), task' \in {task, "blocked"}
    PROVE  Downlink' /\ WireOK(toClient') /\ session' \in Session /\ datagram.cemi \in Frame
<1>1. /\ WireOK(toClient) /\ toClient \in Seq(DownMsg) /\ toClient # <<>>
      /\ toClient' \in Remaining(toClient)
      /\ tunnels \in SUBSET Tunnel /\ session \in Session
      /\ DownOf(toClient, tunnels, session.port, Reader)
      /\ UNCHANGED <<tunnels, indicated, delivered>>
    BY DEF Inv, Types, Downlink, TunnelSet, WireOK, Reads, server
<1>2. datagram = toClient[1] /\ datagram \in DownMsg
    BY <1>1, TailFacts DEF datagram
<1>3. datagram.channel \in Channel /\ datagram.cemi \in Frame
    BY <1>2 DEF DownMsg, IsRequest
<1>4. wrapping_inc(session.recv_seq) \in Seqno /\ session.recv_seq \in Seqno
    BY <1>1, NextSeqno DEF Session
<1>5. /\ session' \in Session /\ session'.port = session.port
      /\ session'.channel_id = session.channel_id
      /\ session'.recv_seq = wrapping_inc(session.recv_seq)
    BY <1>1, <1>4 DEF Session
<1>6. /\ Reader.connected /\ ~ Reader.opening
      /\ Reader.id = session.channel_id /\ Reader.seq = session.recv_seq
      /\ Reader.taken = Received
    BY DEF Reader, Connected, Reads, Place
<1>7. Received \in Seq(Frame)
    BY BlockedFacts DEF Inv
<1>8. OnChannel(toClient[1], Reader.id) /\ toClient[1].seq = Reader.seq
    BY <1>2, <1>6 DEF OnChannel, is_new
<1>9. DownOf(toClient, tunnels, session.port, TakesIn(Reader, datagram.cemi))
    BY <1>1, <1>2, <1>3, <1>4, <1>6, <1>7, <1>8, DownTaken
<1>10. Reader' = TakesIn(Reader, datagram.cemi)
    <2>1. Connected' /\ ~ (task' = "await_connect") /\ Connected /\ ~ (task = "await_connect")
        BY DEF Connected, Reads, Place
    <2>2. Latest' = Latest
        BY <1>1 DEF Latest
    <2> QED
        BY <1>1, <1>5, <2>1, <2>2 DEF Reader, TakesIn
<1>11. WireOK(toClient') /\ DownOf(toClient', tunnels, session.port, Reader')
    BY <1>1, <1>9, <1>10, DownRemains
<1> QED
    BY <1>1, <1>3, <1>5, <1>11 DEF Downlink

LEMMA RequestKeeps == Inv /\ ReadTunnelingRequest => Inv'
<1> SUFFICES ASSUME Inv, ReadTunnelingRequest PROVE Inv'
    OBVIOUS
<1> DEFINE ack == Up("TunnelingAck", datagram.seq, 0)
<1>1. /\ UNCHANGED <<caller, server, tunnels, next_channel_id, indicated, offered, delivered>>
      /\ toClient # <<>> /\ toClient' \in Remaining(toClient) /\ task \in Place
      /\ session \in Session /\ Reads(Place) /\ IsRequest(datagram)
    BY DEF ReadTunnelingRequest, Reads, server, Inv, Types, Place, IsRequest
<1>2. datagram.seq \in Seqno
    <2>1. datagram \in DownMsg
        BY <1>1, TailFacts DEF datagram, Inv, Types, WireOK
    <2> QED
        BY <2>1 DEF DownMsg
<1>3. CASE UNCHANGED <<task, session, blocked, cemi, handed>> /\
           (UNCHANGED toServer \/ ClientSends(<<ack>>))
    <2>1. SameSession
        BY <1>3, SessionSame
    <2>2. \/ toServer' = toServer
          \/ \E type \in {"TunnelingAck", "DisconnectRequest", "DisconnectResponse",
                          "ConnectionStateRequest"} :
                \E seq \in Seqno : toServer' = Put(toServer, <<Up(type, seq, 0)>>)
        BY <1>2, <1>3 DEF ClientSends
    <2> QED
        BY <1>1, <1>3, <2>1, <2>2, QuietStep
<1>4. CASE /\ datagram.channel = session.channel_id /\ is_new(datagram.seq)
           /\ ClientSends(<<ack>>)
           /\ session' = [session EXCEPT !.recv_seq = wrapping_inc(@)]
           /\ \/ hand_over(datagram.cemi) /\ UNCHANGED <<task, blocked>>
              \/ /\ blocked' = <<[cemi |-> datagram.cemi, place |-> task]>>
                 /\ task' = "blocked" /\ UNCHANGED <<cemi, handed>>
    <2>1. blocked = <<>> /\ Received = handed
        BY <1>1 DEF Inv, Control, Place, Received, ReceivedOf
    <2>2. Received' = Append(Received, datagram.cemi)
        <3>1. CASE hand_over(datagram.cemi) /\ UNCHANGED <<task, blocked>>
            BY <2>1, <3>1 DEF Received, ReceivedOf, hand_over
        <3>2. CASE blocked' = <<[cemi |-> datagram.cemi, place |-> task]>> /\ UNCHANGED handed
            <4>1. blocked' # <<>> /\ blocked'[1] = [cemi |-> datagram.cemi, place |-> task]
                BY <3>2
            <4>2. blocked'[1].cemi = datagram.cemi
                BY <4>1
            <4> QED
                BY <2>1, <3>2, <4>1, <4>2 DEF Received, ReceivedOf
        <3> QED
            BY <1>4, <3>1, <3>2
    <2>3. task' \in {task, "blocked"}
        BY <1>4
    <2>4. Downlink' /\ WireOK(toClient') /\ session' \in Session /\ datagram.cemi \in Frame
        BY <1>1, <1>4, <2>2, <2>3, TakeKeeps
    <2>5. /\ session'.port = session.port /\ session'.channel_id = session.channel_id
          /\ session'.send_seq = session.send_seq
        BY <1>1, <1>4 DEF Session
    <2>6. /\ ack \in UpMsg /\ ack.port = session.port /\ ack.type = "TunnelingAck"
        BY <1>1, <1>2, UpIsMsg
    <2>7. \E d \in UpMsg : /\ ~ IsRequest(d) /\ ~ IsConnect(d) /\ d.port = session.port
                           /\ toServer' = Put(toServer, <<d>>)
        BY <1>4, <2>6 DEF IsRequest, IsConnect, ClientSends
    <2>8. SameSender
        BY <1>1, <2>5, <2>7 DEF SameSender, request, Up
    <2>9. Uplink' /\ UpWire(toServer', session'.port)
        BY <2>8, SenderKeeps
    <2>10. Control'
        BY <1>1, <1>4, <2>1 DEF Inv, Control, Place
    <2>11. handed' \in Seq(Frame)
        <3>1. handed \in Seq(Frame)
            BY DEF Inv, Types
        <3>2. handed' = handed \/ handed' = Append(handed, datagram.cemi)
            BY <1>4 DEF hand_over
        <3> QED
            BY <2>4, <3>1, <3>2
    <2>12. blocked' \in Seq([cemi : Frame, place : Place]) /\ Len(blocked') <= 1
        <3>1. [cemi |-> datagram.cemi, place |-> task] \in [cemi : Frame, place : Place]
            BY <1>1, <2>4
        <3>2. \A S : \A e \in S : <<e>> \in Seq(S) /\ Len(<<e>>) <= 1
            OBVIOUS
        <3>3. blocked' = blocked \/ blocked' = <<[cemi |-> datagram.cemi, place |-> task]>>
            BY <1>4
        <3> QED
            BY <3>1, <3>2, <3>3 DEF Inv, Types
    <2> QED
        BY <1>1, <2>4, <2>5, <2>9, <2>10, <2>11, <2>12 DEF Inv, Types
<1> QED
    BY <1>3, <1>4 DEF ReadTunnelingRequest

\* A new socket has no lines yet.
LEMMA DownEmpty ==
    ASSUME NEW ts, NEW port, \A t \in ts : t.data_addr # port, NEW R, InOrder(R)
    PROVE  DownOf(<<>>, ts, port, R)
<1>1. ASSUME NEW id PROVE WireGood(<<>>, id, R)
    <2> DEFINE L == Line(<<>>, id, <<>>, <<>>)
    <2>1. /\ <<>> \in Seq(DownMsg) /\ <<>> \in Seq(Flight) /\ <<>> \in Seq(Frame)
          /\ Len(<<>>) = 0 /\ Len(<<>>) <= 1
        OBVIOUS
    <2>2. LineIs(L, <<>>, id, <<>>, <<>>)
        BY <2>1, LineFacts
    <2> HIDE DEF L
    <2>3. DOMAIN L = {}
        BY <2>1, <2>2 DEF LineIs
    <2>4. Good(L, id, R)
        BY <2>3 DEF Good, Lined, Readable, AllNew
    <2> QED
        BY <2>4 DEF WireGood, L
<1> QED
    BY <1>1 DEF DownOf

LEMMA EstablishKeeps == Inv /\ Establish => Inv'
<1> SUFFICES ASSUME Inv, Establish PROVE Inv'
    OBVIOUS
<1> DEFINE port == session.port + 1
           d == [Up("ConnectRequest", 0, 0) EXCEPT !.port = port]
<1>1. /\ UNCHANGED <<blocked, caller, tunnels, next_channel_id, indicated, delivered, handed,
                     offered>>
      /\ task = "delay" /\ task' = "await_connect" /\ toClient' = <<>>
      /\ session \in Session /\ port \in Addr
      /\ session' = [session EXCEPT !.port = port] /\ toServer' = Put(toServer, <<d>>)
    BY DEF Establish, server, seen, Inv, Types
<1>2. session.port \in Nat /\ port = session.port + 1 /\ port \in Nat
    BY <1>1, PortFacts
<1>3. caller # "served" /\ blocked = <<>>
    BY <1>1 DEF Inv, Control, Place
<1>4. d \in UpMsg /\ d.port = port /\ IsConnect(d)
    <2>1. Up("ConnectRequest", 0, 0) \in UpMsg /\ Up("ConnectRequest", 0, 0).type = "ConnectRequest"
        BY <1>1, ZeroSeq, UpIsMsg
    <2> QED
        BY <1>1, <2>1 DEF UpMsg, IsConnect
<1> HIDE DEF port, d
<1>5. session' \in Session /\ session'.port = port
    BY <1>1 DEF Session
<1>6. UpWire(toServer, port) /\ \A i \in DOMAIN toServer : toServer[i].port # port
    <2>1. toServer \in Seq(UpMsg)
        BY DEF Inv, Types, UpWire
    <2>2. \A i \in DOMAIN toServer : toServer[i] \in UpMsg
        BY <2>1
    <2>3. \A i \in DOMAIN toServer : toServer[i].port \in Nat /\ toServer[i].port <= session.port
        BY <2>2, PortsAssumption DEF UpMsg, Inv, Types, UpWire
    <2>4. \A i \in DOMAIN toServer : toServer[i].port <= port /\ toServer[i].port # port
        BY <1>2, <2>3
    <2> QED
        BY <2>4 DEF Inv, Types, UpWire
<1>7. UpWire(toServer', port) /\ Extends(toServer', toServer, d)
    BY <1>1, <1>2, <1>4, <1>6, UpPut
<1>8. UpInv(toServer', tunnels, Latest, offered, caller, request)
    BY <1>3, <1>4, <1>6, <1>7, UpConnects DEF Inv, Uplink, UpWire
<1>9. UpInv(toServer', tunnels, Latest, offered, caller, request')
    BY <1>3, <1>8 DEF UpInv
<1>10. Latest' = Latest /\ Received' = Received
    BY <1>1 DEF Latest, Received
<1>11. Uplink'
    BY <1>1, <1>9, <1>10 DEF Uplink, Inv
<1>12. \A t \in tunnels : t.data_addr # port /\ t.data_addr <= port
    <2>1. \A t \in tunnels : t.data_addr \in Nat /\ t.data_addr <= session.port
        <3>1. \A t \in tunnels : t.data_addr \in Addr
            BY TunnelFacts DEF Inv, Types, TunnelSet
        <3> QED
            BY <3>1, PortsAssumption DEF Inv, Types
    <2> QED
        BY <1>2, <2>1
<1>13. InOrder(Reader')
    <2>1. /\ Reader'.taken = Reader.taken /\ Reader'.confirmed = Reader.confirmed
          /\ Reader'.indicated = Reader.indicated
        BY <1>1, <1>10 DEF Reader
    <2> QED
        BY <2>1 DEF Inv, Downlink, DownOf, InOrder
<1>14. DownOf(<<>>, tunnels, port, Reader')
    BY <1>12, <1>13, DownEmpty
<1>15. WireOK(<<>>)
    BY WireAssumption DEF WireOK
<1>16. Control'
    BY <1>1, <1>3 DEF Inv, Control
<1> QED
    BY <1>1, <1>5, <1>7, <1>11, <1>12, <1>14, <1>15, <1>16 DEF Inv, Types, Downlink

\* The session begins: what is on its way is new to the client.
LEMMA DownOpens ==
    ASSUME NEW w, NEW ts, NEW port, NEW R, DownOf(w, ts, port, R), R.opening, NEW R2,
           R2.taken = R.taken, R2.confirmed = R.confirmed, R2.indicated = R.indicated,
           ~ R2.opening
    PROVE  DownOf(w, ts, port, R2)
<1>1. ASSUME NEW L, NEW id, Good(L, id, R) PROVE Good(L, id, R2)
    <2>1. Readable(L, R2.taken, R2.seq)
        BY <1>1 DEF Good, AllNew, Readable
    <2> QED
        BY <1>1, <2>1 DEF Good
<1> QED
    BY <1>1 DEF DownOf, InOrder, WireGood, TunnelGood

LEMMA ResponseKeeps == Inv /\ ReadConnectResponse => Inv'
<1> SUFFICES ASSUME Inv, ReadConnectResponse PROVE Inv'
    OBVIOUS
<1>1. /\ UNCHANGED <<blocked, caller, server, tunnels, next_channel_id, indicated, delivered,
                     handed, offered, toServer>>
      /\ toClient # <<>> /\ toClient' \in Remaining(toClient) /\ task = "await_connect"
      /\ session \in Session /\ WireOK(toClient) /\ tunnels \in SUBSET Tunnel
    BY DEF ReadConnectResponse, Reads, server, Inv, Types, TunnelSet
<1>2. caller # "served" /\ blocked = <<>>
    BY <1>1 DEF Inv, Control, Place
<1>3. CASE task' = "delay" /\ UNCHANGED session
    BY <1>1, <1>2, <1>3, SessionSame, QuietStep
<1>4. CASE /\ datagram.type = "ConnectResponse" /\ task' = "select"
           /\ session' = fresh(session.port, datagram.channel)
    <2>1. datagram \in DownMsg
        BY <1>1, TailFacts DEF datagram, WireOK
    <2>2. datagram.channel \in 0 .. MAX_CHANNEL
        BY <1>4, <2>1 DEF DownMsg
    <2>3. session' \in Session /\ session'.port = session.port
        BY <1>1, <1>4, <2>2, ZeroSeq DEF fresh, Session
    <2>4. SameSender
        BY <1>1, <1>2, <2>3 DEF SameSender
    <2>5. Uplink' /\ UpWire(toServer', session'.port)
        BY <2>4, SenderKeeps
    <2>6. Latest' = Latest /\ Received' = Received
        BY <1>1 DEF Latest, Received
    <2>7. /\ Reader.opening /\ ~ Reader'.opening
          /\ Reader'.taken = Reader.taken /\ Reader'.confirmed = Reader.confirmed
          /\ Reader'.indicated = Reader.indicated
        BY <1>1, <1>4, <2>6 DEF Reader
    <2>8. DownOf(toClient, tunnels, session.port, Reader')
        BY <2>7, DownOpens DEF Inv, Downlink
    <2>9. WireOK(toClient') /\ DownOf(toClient', tunnels, session.port, Reader')
        BY <1>1, <2>8, DownRemains
    <2>10. Control'
        BY <1>1, <1>2, <1>4 DEF Inv, Control, Place
    <2> QED
        BY <1>1, <2>3, <2>5, <2>9, <2>10 DEF Inv, Types, Downlink
<1> QED
    BY <1>1, <1>3, <1>4 DEF ReadConnectResponse

-----------------------------------------------------------------------------
(* The steps of the network and of the server.                              *)

LEMMA LoseUpKeeps == Inv /\ LoseToServer => Inv'
<1> SUFFICES ASSUME Inv, LoseToServer PROVE Inv'
    OBVIOUS
<1>1. /\ UNCHANGED <<task, session, blocked, caller, tunnels, next_channel_id, indicated,
                     toClient, offered, delivered, handed>>
      /\ toServer # <<>> /\ toServer' \in Remaining(toServer)
    BY DEF LoseToServer, client, server, seen, Remaining
<1>2. UpWire(toServer, session.port) /\ toServer \in Seq(UpMsg)
    BY DEF Inv, Types, UpWire
<1>3. UpWire(toServer', session.port) /\ Suffix(toServer', toServer) /\ toServer' \in Seq(UpMsg)
    BY <1>1, <1>2, UpRemains DEF UpWire
<1>4. request' = request /\ Latest' = Latest
    BY <1>1 DEF request, Up, Latest
<1>5. UpInv(toServer', tunnels, Latest, offered, caller, request)
    BY <1>2, <1>3, UpSuffix DEF Inv, Uplink
<1>6. Uplink'
    BY <1>1, <1>4, <1>5 DEF Uplink, Inv
<1>7. SameReader
    BY <1>1 DEF SameReader, Received, Connected
<1>8. Downlink' /\ WireOK(toClient')
    BY <1>7, ReaderKeeps
<1>9. Control'
    BY <1>1 DEF Inv, Control
<1> QED
    BY <1>1, <1>3, <1>6, <1>8, <1>9 DEF Inv, Types

LEMMA LoseDownKeeps == Inv /\ LoseToClient => Inv'
<1> SUFFICES ASSUME Inv, LoseToClient PROVE Inv'
    OBVIOUS
<1>1. /\ UNCHANGED <<task, session, blocked, caller, tunnels, next_channel_id, indicated,
                     toServer, offered, delivered, handed>>
      /\ toClient # <<>> /\ toClient' \in Remaining(toClient)
    BY DEF LoseToClient, client, server, seen, Remaining
<1>2. /\ Control' /\ session' \in Session
      /\ blocked' \in Seq([cemi : Frame, place : Place]) /\ Len(blocked') <= 1
      /\ handed' \in Seq(Frame)
    BY <1>1 DEF Inv, Control, Types
<1>3. SameSender
    BY <1>1 DEF SameSender, request, Up
<1>4. SameReader
    BY <1>1 DEF SameReader, Received, Connected
<1> QED
    BY <1>1, <1>2, <1>3, <1>4, ClientKeeps

\* What a step of the server leaves as it is.
ServerStep ==
    UNCHANGED <<task, session, blocked, caller, offered, handed>>

\* What is left to show for a step of the server: its tunnels, what it makes of
\* the datagram it reads, and what it sends.
LEMMA ServerKeeps ==
    ASSUME Inv, ServerStep,
           TunnelSet(tunnels'), \A t \in tunnels' : t.data_addr <= session.port,
           next_channel_id' \in Channel, indicated' \in Nat, delivered' \in Seq(Nat),
           UpWire(toServer', session.port), WireOK(toClient'),
           UpInv(toServer', tunnels', Latest', offered, caller, request),
           \A i \in DOMAIN delivered' : delivered'[i] <= Latest',
           DownOf(toClient', tunnels', session.port, Reader')
    PROVE  Inv'
<1>1. request' = request
    BY DEF ServerStep, request, Up
<1>2. Control'
    BY DEF ServerStep, Inv, Control
<1>3. Types'
    BY DEF ServerStep, Inv, Types
<1>4. Uplink' /\ Downlink'
    BY <1>1 DEF Uplink, Downlink, ServerStep
<1> QED
    BY <1>2, <1>3, <1>4 DEF Inv

\* The tunnels of an update.
LEMMA UpdateFacts ==
    ASSUME NEW ts, TunnelSet(ts), NEW g, g = [t \in ts |-> g[t]],
           \A t \in ts : g[t] \in Tunnel /\ g[t].channel_id = t.channel_id
                         /\ g[t].data_addr = t.data_addr,
           NEW port, \A t \in ts : t.data_addr <= port
    PROVE  LET ts2 == {g[t] : t \in ts} IN
           TunnelSet(ts2) /\ \A t \in ts2 : t.data_addr <= port
<1>1. DOMAIN g = ts
    OBVIOUS
<1>2. TunnelSet({g[t] : t \in ts})
    BY <1>1, MappedTunnels
<1> QED
    BY <1>2

\* A step of the server that reads a datagram of the client but takes none of
\* its requests, and leaves the queues as Good as they were.
LEMMA AnswerKeeps ==
    ASSUME Inv, ServerStep, UNCHANGED <<next_channel_id, indicated, delivered>>,
           toServer # <<>>, toServer' \in Remaining(toServer),
           NEW g, g = [t \in tunnels |-> g[t]],
           \A t \in tunnels : /\ Queued(g[t], t)
                              /\ TunnelGood(toClient, t, Reader) => TunnelGood(toClient, g[t], Reader),
           tunnels' = {g[t] : t \in tunnels},
           \/ UNCHANGED toClient
           \/ \E out : /\ Sendable(out, tunnels', session.port)
                       /\ \/ toClient' = Put(toClient, out)
                          \/ \E d \in DownMsg : ~ IsRequest(d) /\ toClient' = Put(toClient, <<d>> \o out)
    PROVE  Inv'
<1>1. /\ TunnelSet(tunnels) /\ \A t \in tunnels : t.data_addr <= session.port
      /\ next_channel_id \in Channel /\ indicated \in Nat /\ delivered \in Seq(Nat)
      /\ UpWire(toServer, session.port) /\ WireOK(toClient)
      /\ UpInv(toServer, tunnels, Latest, offered, caller, request)
      /\ \A i \in DOMAIN delivered : delivered[i] <= Latest
      /\ DownOf(toClient, tunnels, session.port, Reader)
    BY DEF Inv, Types, Uplink, Downlink
<1>2. TunnelSet(tunnels') /\ \A t \in tunnels' : t.data_addr <= session.port
    <2>1. \A t \in tunnels : g[t] \in Tunnel /\ g[t].channel_id = t.channel_id
                             /\ g[t].data_addr = t.data_addr
        BY DEF Queued
    <2>2. LET ts2 == {g[t] : t \in tunnels} IN
          TunnelSet(ts2) /\ \A t \in ts2 : t.data_addr <= session.port
        BY <1>1, <2>1, UpdateFacts
    <2> QED
        BY <2>2
<1>3. Latest' = Latest /\ Reader' = Reader
    BY DEF ServerStep, Latest, Reader, Connected, Received
<1>4. UpWire(toServer', session.port) /\ Suffix(toServer', toServer)
    BY <1>1, UpRemains
<1>5. UpInv(toServer', tunnels, Latest, offered, caller, request)
    BY <1>1, <1>4, UpSuffix DEF UpWire
<1>6. \A u \in tunnels' : \E t \in tunnels : /\ t.channel_id = u.channel_id
                                             /\ t.data_addr = u.data_addr
                                             /\ t.recv_seq = u.recv_seq
    BY DEF Queued
<1>7. UpInv(toServer', tunnels', Latest, offered, caller, request)
    BY <1>5, <1>6, UpTunnels
<1>8. DownOf(toClient, tunnels', session.port, Reader)
    BY <1>1 DEF DownOf, Queued
<1>9. WireOK(toClient') /\ DownOf(toClient', tunnels', session.port, Reader)
    <2>1. CASE UNCHANGED toClient
        BY <1>1, <1>8, <2>1
    <2>2. ASSUME NEW out, Sendable(out, tunnels', session.port),
                 \/ toClient' = Put(toClient, out)
                 \/ \E d \in DownMsg : ~ IsRequest(d) /\ toClient' = Put(toClient, <<d>> \o out)
          PROVE  WireOK(toClient') /\ DownOf(toClient', tunnels', session.port, Reader)
        <3>1. CASE toClient' = Put(toClient, out)
            BY <1>1, <1>2, <1>8, <2>2, <3>1, DownSends
        <3>2. ASSUME NEW d \in DownMsg, ~ IsRequest(d), toClient' = Put(toClient, <<d>> \o out)
              PROVE  WireOK(toClient') /\ DownOf(toClient', tunnels', session.port, Reader)
            BY <1>1, <1>2, <1>8, <2>2, <3>2, DownAnswers
        <3> QED
            BY <2>2, <3>1, <3>2
    <2> QED
        BY <2>1, <2>2
<1> QED
    BY <1>1, <1>2, <1>3, <1>4, <1>7, <1>9, ServerKeeps

\* What ServerSends does, by the port the datagram came from.
LEMMA SentTo ==
    ASSUME NEW out, ServerSends(out)
    PROVE  /\ toServer' \in Remaining(toServer)
           /\ \/ UNCHANGED toClient
              \/ arrived.port = session.port /\ toClient' = Put(toClient, out)
BY DEF ServerSends, arrived

\* What arrives is a datagram of the client.
LEMMA ArrivedFacts ==
    ASSUME Inv, toServer # <<>>
    PROVE  /\ arrived \in UpMsg /\ arrived = toServer[1] /\ 1 \in DOMAIN toServer
           /\ arrived.port \in Addr /\ arrived.port <= session.port
           /\ arrived.channel \in 0 .. MAX_CHANNEL /\ arrived.seq \in Seqno
           /\ arrived.payload \in Nat
           /\ mine \subseteq tunnels /\ \A t \in mine : Matches(t, arrived)
           /\ \A t \in tunnels : Matches(t, arrived) => t \in mine
           /\ tunnels \in SUBSET Tunnel /\ toClient \in Seq(DownMsg)
<1>1. UpWire(toServer, session.port) /\ TunnelSet(tunnels) /\ WireOK(toClient)
    BY DEF Inv, Types
<1>2. arrived = toServer[1] /\ arrived \in UpMsg /\ 1 \in DOMAIN toServer
    BY <1>1, UpRemains DEF arrived, Remaining
<1>3. arrived.port <= session.port
    BY <1>1, <1>2 DEF UpWire
<1>4. /\ arrived.port \in Addr /\ arrived.channel \in 0 .. MAX_CHANNEL /\ arrived.seq \in Seqno
      /\ arrived.payload \in Nat
    BY <1>2 DEF UpMsg
<1> QED
    BY <1>1, <1>2, <1>3, <1>4 DEF mine, Matches, TunnelSet, WireOK

\* A datagram with which the server answers one of the client.
LEMMA AnswerIsMsg ==
    ASSUME NEW type \in {"TunnelingAck", "ConnectResponse", "DisconnectRequest",
                         "DisconnectResponse", "ConnectionStateResponse"},
           NEW to \in Addr, NEW id \in 0 .. MAX_CHANNEL, NEW seq \in Seqno,
           NEW status \in {"E_NO_ERROR", "E_CONNECTION_ID", "E_NO_MORE_CONNECTIONS", ""}
    PROVE  /\ Down(type, to, id, seq, status) \in DownMsg
           /\ ~ IsRequest(Down(type, to, id, seq, status))
BY DEF Down, DownMsg, IsRequest

LEMMA AcknowledgedKeeps == Inv /\ ServerIsAcknowledged => Inv'
<1> SUFFICES ASSUME Inv, ServerIsAcknowledged PROVE Inv'
    OBVIOUS
<1> DEFINE F(t) == acknowledge(t, arrived.seq)
           g == [t \in tunnels |-> IF t \in mine THEN F(t) ELSE t]
           out == Outgoing(mine, F)
           c == CHOOSE t \in mine : transmitted(t, F(t))
<1>1. /\ toServer # <<>> /\ ServerStep /\ UNCHANGED <<next_channel_id, indicated, delivered>>
      /\ ServerSends(out)
      /\ tunnels' = {IF t \in mine THEN F(t) ELSE t : t \in tunnels}
    BY DEF ServerIsAcknowledged, ServerReads, ServerStep, client, Update
<1>2. g = [t \in tunnels |-> g[t]] /\ tunnels' = {g[t] : t \in tunnels}
    BY <1>1
<1>3. \A t \in tunnels : /\ Queued(g[t], t)
                         /\ TunnelGood(toClient, t, Reader) => TunnelGood(toClient, g[t], Reader)
    BY <1>1, ArrivedFacts, AcknowledgeGood DEF Queued
<1>4. (\E t \in mine : transmitted(t, F(t))) =>
          c \in mine /\ transmitted(c, F(c)) /\ out = <<Request(F(c))>>
    BY DEF Outgoing
<1>5. ~ (\E t \in mine : transmitted(t, F(t))) => out = <<>>
    BY DEF Outgoing
<1>6. \A t \in mine : /\ t \in tunnels /\ t.data_addr = arrived.port /\ g[t] = F(t)
                      /\ Queued(g[t], t)
    BY <1>1, <1>3, ArrivedFacts DEF Matches
<1>7. \A t \in mine : F(t) \in tunnels' /\ F(t).data_addr = arrived.port
    BY <1>2, <1>6 DEF Queued
<1> HIDE DEF g, out, F, c
<1>8. arrived.port = session.port => Sendable(out, tunnels', session.port)
    BY <1>4, <1>5, <1>7 DEF Sendable, transmitted
<1> QED
    BY <1>1, <1>2, <1>3, <1>8, SentTo, AnswerKeeps

LEMMA HeartbeatKeeps == Inv /\ ServerAnswersHeartbeat => Inv'
<1> SUFFICES ASSUME Inv, ServerAnswersHeartbeat PROVE Inv'
    OBVIOUS
<1> DEFINE g == [t \in tunnels |-> IF t \in mine THEN heartbeat(t) ELSE t]
           status == IF mine = {} THEN "E_CONNECTION_ID" ELSE "E_NO_ERROR"
           d == Down("ConnectionStateResponse", arrived.port, arrived.channel, 0, status)
<1>1. /\ toServer # <<>> /\ ServerStep /\ UNCHANGED <<next_channel_id, indicated, delivered>>
      /\ ServerSends(<<d>>)
      /\ tunnels' = {IF t \in mine THEN heartbeat(t) ELSE t : t \in tunnels}
    BY DEF ServerAnswersHeartbeat, ServerReads, ServerStep, client, Update
<1>2. g = [t \in tunnels |-> g[t]] /\ tunnels' = {g[t] : t \in tunnels}
    BY <1>1
<1>3. \A t \in tunnels : /\ Queued(g[t], t)
                         /\ TunnelGood(toClient, t, Reader) => TunnelGood(toClient, g[t], Reader)
    BY <1>1, ArrivedFacts, HeartbeatGood DEF Queued
<1>4. d \in DownMsg /\ ~ IsRequest(d)
    BY <1>1, ArrivedFacts, ZeroSeq, AnswerIsMsg
<1>5. <<d>> \o <<>> = <<d>> /\ Sendable(<<>>, tunnels', session.port)
    BY DEF Sendable
<1> HIDE DEF g, d
<1> QED
    BY <1>1, <1>2, <1>3, <1>4, <1>5, SentTo, AnswerKeeps

LEMMA IgnoresKeeps == Inv /\ ServerIgnores => Inv'
<1> SUFFICES ASSUME Inv, ServerIgnores PROVE Inv'
    OBVIOUS
<1> DEFINE g == [t \in tunnels |-> t]
<1>1. /\ toServer # <<>> /\ ServerStep
      /\ UNCHANGED <<next_channel_id, indicated, delivered, tunnels, toClient>>
      /\ toServer' \in Remaining(toServer)
    BY DEF ServerIgnores, ServerReads, ServerStep, client, Remaining
<1>2. g = [t \in tunnels |-> g[t]] /\ tunnels' = {g[t] : t \in tunnels}
    BY <1>1
<1>3. \A t \in tunnels : /\ Queued(g[t], t)
                         /\ TunnelGood(toClient, t, Reader) => TunnelGood(toClient, g[t], Reader)
    BY <1>1, ArrivedFacts DEF Queued
<1> HIDE DEF g
<1> QED
    BY <1>1, <1>2, <1>3, AnswerKeeps

LEMMA DisconnectsKeeps == Inv /\ ServerDisconnects => Inv'
<1> SUFFICES ASSUME Inv, ServerDisconnects PROVE Inv'
    OBVIOUS
<1> DEFINE status == IF mine = {} THEN "E_CONNECTION_ID" ELSE "E_NO_ERROR"
           d == Down("DisconnectResponse", arrived.port, arrived.channel, 0, status)
<1>1. /\ toServer # <<>> /\ ServerStep /\ UNCHANGED <<next_channel_id, indicated, delivered>>
      /\ ServerSends(<<d>>) /\ tunnels' \in SUBSET tunnels
    BY DEF ServerDisconnects, ServerReads, ServerStep, client
<1>2. d \in DownMsg /\ ~ IsRequest(d)
    BY <1>1, ArrivedFacts, ZeroSeq, AnswerIsMsg
<1> HIDE DEF d
<1>3. /\ TunnelSet(tunnels) /\ \A t \in tunnels : t.data_addr <= session.port
      /\ next_channel_id \in Channel /\ indicated \in Nat /\ delivered \in Seq(Nat)
      /\ UpWire(toServer, session.port) /\ WireOK(toClient)
      /\ UpInv(toServer, tunnels, Latest, offered, caller, request)
      /\ \A i \in DOMAIN delivered : delivered[i] <= Latest
      /\ DownOf(toClient, tunnels, session.port, Reader)
    BY DEF Inv, Types, Uplink, Downlink
<1>4. /\ TunnelSet(tunnels') /\ \A t \in tunnels' : t.data_addr <= session.port
      /\ DownOf(toClient, tunnels', session.port, Reader)
    BY <1>1, <1>3, FewerTunnels
<1>5. Latest' = Latest /\ Reader' = Reader
    BY <1>1 DEF ServerStep, Latest, Reader, Connected, Received
<1>6. toServer' \in Remaining(toServer)
    BY <1>1, SentTo
<1>7. UpWire(toServer', session.port) /\ Suffix(toServer', toServer)
    BY <1>1, <1>3, <1>6, UpRemains
<1>8. UpInv(toServer', tunnels, Latest, offered, caller, request)
    BY <1>3, <1>7, UpSuffix DEF UpWire
<1>9. UpInv(toServer', tunnels', Latest, offered, caller, request)
    BY <1>1, <1>8, UpTunnels
<1>10. WireOK(toClient') /\ DownOf(toClient', tunnels', session.port, Reader)
    <2>1. tunnels' \in SUBSET Tunnel
        BY <1>4 DEF TunnelSet
    <2>2. UNCHANGED toClient \/ toClient' = Put(toClient, <<d>>)
        BY <1>1, SentTo
    <2> QED
        BY <1>2, <1>3, <1>4, <2>1, <2>2, DownPassed
<1> QED
    BY <1>1, <1>3, <1>4, <1>5, <1>7, <1>9, <1>10, ServerKeeps

\* A step of the server that reads nothing: some of its tunnels remain, with
\* other queues, and what it sends of its own accord.
LEMMA InitiatedKeeps ==
    ASSUME Inv, ServerStep, UNCHANGED <<next_channel_id, delivered, toServer>>,
           indicated' \in Nat, indicated <= indicated',
           NEW kept \in SUBSET tunnels, NEW g, g = [t \in kept |-> g[t]],
           \A t \in kept : /\ Queued(g[t], t)
                           /\ TunnelGood(toClient, t, Reader) => TunnelGood(toClient, g[t], Reader'),
           tunnels' = {g[t] : t \in kept},
           NEW out, Sendable(out, tunnels', session.port),
           \/ toClient' = Put(toClient, out) \/ toClient' = Put(toClient, out \o <<>>)
           \/ \E d \in DownMsg : ~ IsRequest(d) /\ toClient' = Put(toClient, out \o <<d>>)
    PROVE  Inv'
<1>1. /\ TunnelSet(tunnels) /\ \A t \in tunnels : t.data_addr <= session.port
      /\ next_channel_id \in Channel /\ indicated \in Nat /\ delivered \in Seq(Nat)
      /\ UpWire(toServer, session.port) /\ WireOK(toClient)
      /\ UpInv(toServer, tunnels, Latest, offered, caller, request)
      /\ \A i \in DOMAIN delivered : delivered[i] <= Latest
      /\ DownOf(toClient, tunnels, session.port, Reader)
    BY DEF Inv, Types, Uplink, Downlink
<1>2. TunnelSet(kept) /\ DownOf(toClient, kept, session.port, Reader)
    BY <1>1, FewerTunnels
<1>3. TunnelSet(tunnels') /\ \A t \in tunnels' : t.data_addr <= session.port
    <2>1. \A t \in kept : /\ g[t] \in Tunnel /\ g[t].channel_id = t.channel_id
                          /\ g[t].data_addr = t.data_addr /\ t.data_addr <= session.port
        BY <1>1 DEF Queued
    <2>2. LET ts2 == {g[t] : t \in kept} IN
          TunnelSet(ts2) /\ \A t \in ts2 : t.data_addr <= session.port
        BY <1>2, <2>1, UpdateFacts
    <2> QED
        BY <2>2
<1>4. Latest' = Latest /\ Latest \in Nat
    BY <1>1, LastFacts DEF Latest
<1>5. Grown(Reader, Reader')
    BY <1>1, <1>4 DEF Grown, Reader, ServerStep, Connected, Received
<1>6. UpInv(toServer, tunnels', Latest, offered, caller, request)
    <2>1. \A u \in tunnels' : \E t \in tunnels : /\ t.channel_id = u.channel_id
                                                 /\ t.data_addr = u.data_addr
                                                 /\ t.recv_seq = u.recv_seq
        BY DEF Queued
    <2> QED
        BY <1>1, <2>1, UpTunnels
<1>7. DownOf(toClient, tunnels', session.port, Reader')
    <2>1. \A t \in kept : /\ g[t].data_addr = t.data_addr
                          /\ t.data_addr = session.port => TunnelGood(toClient, g[t], Reader')
        BY <1>2 DEF DownOf, Queued
    <2> QED
        BY <1>2, <1>5, <2>1, MappedDown
<1>8. WireOK(toClient') /\ DownOf(toClient', tunnels', session.port, Reader')
    <2>1. CASE toClient' = Put(toClient, out)
        BY <1>1, <1>3, <1>7, <2>1, DownSends
    <2>2. Down("TunnelingAck", session.port, 0, 0, "") \in DownMsg
          /\ ~ IsRequest(Down("TunnelingAck", session.port, 0, 0, ""))
        <3>1. session.port \in Addr /\ 0 \in 0 .. MAX_CHANNEL /\ 0 \in Seqno
            BY PortFacts, ZeroSeq, ChannelAssumption DEF Inv, Types
        <3> QED
            BY <3>1, AnswerIsMsg
    <2>4. CASE toClient' = Put(toClient, out \o <<>>)
        BY <1>1, <1>3, <1>7, <2>2, <2>4, DownAnswers
    <2>5. ASSUME NEW d \in DownMsg, ~ IsRequest(d), toClient' = Put(toClient, out \o <<d>>)
          PROVE  WireOK(toClient') /\ DownOf(toClient', tunnels', session.port, Reader')
        BY <1>1, <1>3, <1>7, <2>5, DownAnswers
    <2> QED
        BY <2>1, <2>4, <2>5
<1> QED
    BY <1>1, <1>3, <1>4, <1>6, <1>8, ServerKeeps

LEMMA TickKeeps == Inv /\ ServerTick => Inv'
<1> SUFFICES ASSUME Inv, ServerTick PROVE Inv'
    OBVIOUS
<1> DEFINE g == [t \in tunnels |-> elapse(t)]
<1>1. /\ ServerStep /\ UNCHANGED <<next_channel_id, delivered, toServer, indicated>>
      /\ toClient' = Put(toClient, <<>>) /\ tunnels' = {elapse(t) : t \in tunnels}
    BY DEF ServerTick, ServerInitiates, ServerStep, client, seen
<1>2. g = [t \in tunnels |-> g[t]] /\ tunnels' = {g[t] : t \in tunnels}
    BY <1>1
<1>3. /\ tunnels \in SUBSET Tunnel /\ toClient \in Seq(DownMsg) /\ indicated \in Nat
      /\ Reader' = Reader
    BY <1>1 DEF Inv, Types, TunnelSet, WireOK, Reader, ServerStep, Connected, Received, Latest
<1>4. \A t \in tunnels : /\ Queued(g[t], t)
                         /\ TunnelGood(toClient, t, Reader) => TunnelGood(toClient, g[t], Reader')
    BY <1>3, ElapseGood
<1>5. Sendable(<<>>, tunnels', session.port) /\ indicated' \in Nat /\ indicated <= indicated'
    BY <1>1, <1>3 DEF Sendable
<1> HIDE DEF g
<1> QED
    BY <1>1, <1>2, <1>4, <1>5, InitiatedKeeps

LEMMA CleansUpKeeps == Inv /\ ServerCleansUp => Inv'
<1> SUFFICES ASSUME Inv, ServerCleansUp PROVE Inv'
    OBVIOUS
<1> DEFINE kept == {t \in tunnels : ~ stale(t)}
           g == [t \in kept |-> t]
<1>1. /\ ServerStep /\ UNCHANGED <<next_channel_id, delivered, toServer, indicated>>
      /\ toClient' = Put(toClient, <<>>) /\ tunnels' = kept
    BY DEF ServerCleansUp, ServerInitiates, ServerStep, client, seen
<1>2. g = [t \in kept |-> g[t]] /\ tunnels' = {g[t] : t \in kept} /\ kept \in SUBSET tunnels
    BY <1>1
<1>3. tunnels \in SUBSET Tunnel /\ indicated \in Nat /\ Reader' = Reader
    BY <1>1 DEF Inv, Types, TunnelSet, Reader, ServerStep, Connected, Received, Latest
<1>4. \A t \in kept : /\ Queued(g[t], t)
                      /\ TunnelGood(toClient, t, Reader) => TunnelGood(toClient, g[t], Reader')
    BY <1>3 DEF Queued
<1>5. Sendable(<<>>, tunnels', session.port) /\ indicated' \in Nat /\ indicated <= indicated'
    BY <1>1, <1>3 DEF Sendable
<1> HIDE DEF g, kept
<1> QED
    BY <1>1, <1>2, <1>4, <1>5, InitiatedKeeps

LEMMA IndicatesKeeps == Inv /\ ServerIndicates => Inv'
<1> SUFFICES ASSUME Inv, ServerIndicates PROVE Inv'
    OBVIOUS
<1> DEFINE frame == [code |-> "req", content |-> indicated + 1]
           F(t) == deliver(t, frame)
           current == {t \in tunnels : t.data_addr = session.port}
           g == [t \in tunnels |-> F(t)]
           out == Outgoing(current, F)
           c == CHOOSE t \in current : transmitted(t, F(t))
<1>1. /\ ServerStep /\ UNCHANGED <<next_channel_id, delivered, toServer>>
      /\ indicated' = indicated + 1
      /\ toClient' = Put(toClient, out) /\ tunnels' = {F(t) : t \in tunnels}
    BY DEF ServerIndicates, ServerInitiates, ServerStep, client, seen
<1>2. g = [t \in tunnels |-> g[t]] /\ tunnels' = {g[t] : t \in tunnels}
    BY <1>1
<1>3. /\ tunnels \in SUBSET Tunnel /\ toClient \in Seq(DownMsg) /\ indicated \in Nat
      /\ Latest \in Nat /\ Latest' = Latest /\ InOrder(Reader)
    BY <1>1, LastFacts DEF Inv, Types, TunnelSet, WireOK, Latest, Downlink, DownOf
<1>4. indicated' \in Nat /\ indicated <= indicated' /\ indicated + 1 \in Nat
      /\ indicated < indicated + 1 /\ indicated + 1 <= indicated'
    BY <1>1, <1>3
<1>5. Grown(Reader, Reader')
    BY <1>1, <1>3, <1>4 DEF Grown, Reader, ServerStep, Connected, Received
<1>6. /\ as_indication(frame) = [code |-> "ind", content |-> indicated + 1]
      /\ as_indication(frame) \in Frame
    BY <1>4 DEF as_indication, Frame
<1>7. Made(as_indication(frame), Reader, Reader')
    BY <1>4, <1>6 DEF Made, Known, Reader
<1>8. \A t \in tunnels : /\ Queued(g[t], t)
                         /\ TunnelGood(toClient, t, Reader) => TunnelGood(toClient, g[t], Reader')
    BY <1>3, <1>5, <1>7, DeliverGood
<1>9. (\E t \in current : transmitted(t, F(t))) =>
          c \in current /\ transmitted(c, F(c)) /\ out = <<Request(F(c))>>
    BY DEF Outgoing
<1>10. ~ (\E t \in current : transmitted(t, F(t))) => out = <<>>
    BY DEF Outgoing
<1>11. \A t \in current : t \in tunnels /\ g[t] = F(t) /\ g[t] \in tunnels'
                          /\ t.data_addr = session.port
    BY <1>2
<1>12. \A t \in current : F(t) \in tunnels' /\ F(t).data_addr = session.port
    BY <1>8, <1>11 DEF Queued
<1> HIDE DEF g, out, F, c, current
<1>13. Sendable(out, tunnels', session.port)
    BY <1>9, <1>10, <1>12 DEF Sendable, transmitted
<1> QED
    BY <1>1, <1>2, <1>4, <1>8, <1>13, InitiatedKeeps

LEMMA ExpiresKeeps == Inv /\ ServerExpires => Inv'
<1> SUFFICES ASSUME Inv, ServerExpires PROVE Inv'
    OBVIOUS
<1> DEFINE kept == {t \in tunnels : ~ lost(t)}
           current == {t \in kept : t.data_addr = session.port}
           gone == {t \in tunnels \ kept : t.data_addr = session.port}
           g == [t \in kept |-> repeat(t)]
           out == Outgoing(current, repeat)
           c == CHOOSE t \in current : transmitted(t, repeat(t))
           b == CHOOSE t \in gone : TRUE
           d == Down("DisconnectRequest", b.ctrl_addr, b.channel_id, 0, "")
<1>1. /\ ServerStep /\ UNCHANGED <<next_channel_id, delivered, toServer, indicated>>
      /\ toClient' = Put(toClient, out \o IF gone = {} THEN <<>> ELSE <<d>>)
      /\ tunnels' = {repeat(t) : t \in kept}
    BY DEF ServerExpires, ServerInitiates, ServerStep, client, seen
<1>2. g = [t \in kept |-> g[t]] /\ tunnels' = {g[t] : t \in kept} /\ kept \in SUBSET tunnels
    BY <1>1
<1>3. /\ tunnels \in SUBSET Tunnel /\ toClient \in Seq(DownMsg) /\ indicated \in Nat
      /\ Reader' = Reader
    BY <1>1 DEF Inv, Types, TunnelSet, WireOK, Reader, ServerStep, Connected, Received, Latest
<1>4. \A t \in kept : /\ Queued(g[t], t)
                      /\ TunnelGood(toClient, t, Reader) => TunnelGood(toClient, g[t], Reader')
    BY <1>3, RepeatGood
<1>5. (\E t \in current : transmitted(t, repeat(t))) =>
          c \in current /\ transmitted(c, repeat(c)) /\ out = <<Request(repeat(c))>>
    BY DEF Outgoing
<1>6. ~ (\E t \in current : transmitted(t, repeat(t))) => out = <<>>
    BY DEF Outgoing
<1>7. \A t \in current : repeat(t) \in tunnels' /\ repeat(t).data_addr = session.port
    BY <1>2, <1>4 DEF Queued
<1>8. gone # {} => b \in tunnels
    OBVIOUS
<1>9. gone # {} => d \in DownMsg /\ ~ IsRequest(d)
    <2>1. gone # {} => b.ctrl_addr \in Addr /\ b.channel_id \in 0 .. MAX_CHANNEL
        BY <1>3, <1>8, TunnelFacts DEF Channel
    <2> HIDE DEF b, gone
    <2> QED
        BY <2>1, ZeroSeq, AnswerIsMsg
<1> HIDE DEF g, out, c, current, kept, gone, d
<1>10. Sendable(out, tunnels', session.port)
    BY <1>5, <1>6, <1>7 DEF Sendable, transmitted
<1>11. indicated' \in Nat /\ indicated <= indicated'
    BY <1>1, <1>3
<1>12. \/ toClient' = Put(toClient, out \o <<>>)
       \/ \E e \in DownMsg : ~ IsRequest(e) /\ toClient' = Put(toClient, out \o <<e>>)
    BY <1>1, <1>9
<1> QED
    BY <1>1, <1>2, <1>4, <1>10, <1>11, <1>12, InitiatedKeeps

-----------------------------------------------------------------------------
(* The channel id for a new tunnel: while fewer tunnels are open than there *)
(* are ids, one of the next MAX_CHANNEL ids in the round is free.           *)

LEMMA ModFacts ==
    ASSUME NEW x \in 0 .. MAX_CHANNEL - 1
    PROVE  x % MAX_CHANNEL = x /\ (x + MAX_CHANNEL) % MAX_CHANNEL = x
BY ChannelAssumption

LEMMA WrapsTo ==
    ASSUME NEW n \in Int, NEW x \in 0 .. MAX_CHANNEL - 1,
           n - 1 = x \/ n - 1 = x + MAX_CHANNEL
    PROVE  wrapped(n) = x + 1
<1>1. (n - 1) % MAX_CHANNEL = x
  BY ModFacts
<1> QED BY <1>1 DEF wrapped

LEMMA WrappedType == \A n \in Int : wrapped(n) \in Channel
BY ChannelAssumption DEF wrapped, Channel

LEMMA FreeChannel ==
    ASSUME NEW next \in Channel, NEW used \in SUBSET Channel,
           Cardinality(used) < MAX_CHANNEL
    PROVE  free_channel(next, used) \in Channel \ used
<1> DEFINE frees == {k \in 0 .. MAX_CHANNEL - 1 : wrapped(next + k) \notin used}
           first(k) == /\ wrapped(next + k) \notin used
                       /\ \A j \in 0 .. k - 1 : wrapped(next + j) \in used
<1> USE ChannelAssumption
<1>1. PICK c \in Channel : c \notin used
  <2>1. Cardinality(Channel) = MAX_CHANNEL
    BY FS_Interval DEF Channel
  <2> QED BY <2>1
<1>2. frees # {}
  <2>1. \E k \in 0 .. MAX_CHANNEL - 1 : next + k = c \/ next + k = c + MAX_CHANNEL
    <3>1. CASE c >= next
      <4>1. c - next \in 0 .. MAX_CHANNEL - 1 /\ next + (c - next) = c
        BY <3>1 DEF Channel
      <4> QED BY <4>1
    <3>2. CASE c < next
      <4>1. /\ c - next + MAX_CHANNEL \in 0 .. MAX_CHANNEL - 1
            /\ next + (c - next + MAX_CHANNEL) = c + MAX_CHANNEL
        BY <3>2 DEF Channel
      <4> QED BY <4>1
    <3> QED BY <3>1, <3>2 DEF Channel
  <2>2. PICK k \in 0 .. MAX_CHANNEL - 1 : next + k = c \/ next + k = c + MAX_CHANNEL
    BY <2>1
  <2>3. c - 1 \in 0 .. MAX_CHANNEL - 1 /\ next + k \in Int /\ (c - 1) + 1 = c
    BY DEF Channel
  <2>4. next + k - 1 = c - 1 \/ next + k - 1 = (c - 1) + MAX_CHANNEL
    BY <2>2 DEF Channel
  <2>5. wrapped(next + k) = c
    BY <2>3, <2>4, WrapsTo DEF Channel
  <2> QED BY <2>2, <2>5, <1>1
<1>3. PICK k \in frees : \A j \in frees : ~ (j < k)
  <2>1. frees \subseteq Nat
    OBVIOUS
  <2>2. \E x \in frees : \A y \in frees : ~ (<<y, x>> \in OpToRel(<, Nat))
    <3> HIDE DEF frees
    <3> QED BY <1>2, <2>1, NatLessThanWellFounded, WFMin
  <2> QED BY <2>1, <2>2 DEF OpToRel
<1>4. k \in 0 .. MAX_CHANNEL - 1 /\ first(k)
  BY <1>3
<1> DEFINE chosen == CHOOSE i \in 0 .. MAX_CHANNEL - 1 : first(i)
<1>5. chosen \in 0 .. MAX_CHANNEL - 1 /\ first(chosen)
  <2> HIDE DEF first
  <2> QED BY <1>4
<1>6. free_channel(next, used) = wrapped(next + chosen)
  BY DEF free_channel
<1>7. next + chosen \in Int
  BY <1>5 DEF Channel
<1> QED BY <1>5, <1>6, <1>7, WrappedType

\* With a tunnel to spare there is a channel id to spare.
LEMMA ChannelToSpare ==
    ASSUME NEW ts, TunnelSet(ts), Cardinality(ts) < MAX_TUNNELS, NEW next \in Channel
    PROVE  LET used == {t.channel_id : t \in ts}
           IN  free_channel(next, used) \in Channel \ used
<1> DEFINE used == {t.channel_id : t \in ts}
           g == [t \in ts |-> t.channel_id]
<1>1. g \in Surjection(ts, used)
    BY DEF Surjection
<1>2. IsFiniteSet(used) /\ Cardinality(used) <= Cardinality(ts)
    <2> HIDE DEF used, g
    <2> QED
        BY <1>1, FS_Surjection DEF TunnelSet
<1>3. Cardinality(used) \in Nat /\ Cardinality(ts) \in Nat
    <2> HIDE DEF used
    <2> QED
        BY <1>2, FS_CardinalityType DEF TunnelSet
<1>4. used \in SUBSET Channel
    BY TunnelFacts DEF TunnelSet
<1> HIDE DEF used
<1>5. Cardinality(used) < MAX_CHANNEL
    BY <1>2, <1>3, ServerAssumption, ChannelAssumption
<1>6. free_channel(next, used) \in Channel \ used
    BY <1>4, <1>5, FreeChannel
<1> QED
    BY <1>6 DEF used

\* A tunnel on a channel that is free.
LEMMA AddedTunnel ==
    ASSUME NEW ts, TunnelSet(ts), Cardinality(ts) < MAX_TUNNELS,
           NEW id \in Channel, id \notin {t.channel_id : t \in ts}, NEW addr \in Addr,
           NEW w, NEW port, NEW R, DownOf(w, ts, port, R)
    PROVE  LET ts2 == ts \cup {new(id, addr, addr)} IN
           TunnelSet(ts2) /\ DownOf(w, ts2, port, R)
<1> DEFINE u == new(id, addr, addr)
<1>1. /\ u \in Tunnel /\ u.channel_id = id /\ u.data_addr = addr
      /\ u.in_flight = <<>> /\ u.outbox = <<>>
    BY NewTunnel
<1> HIDE DEF u
<1>2. u \notin ts
    BY <1>1
<1>3. IsFiniteSet(ts \cup {u}) /\ Cardinality(ts \cup {u}) = Cardinality(ts) + 1
    BY <1>2, FS_AddElement DEF TunnelSet
<1>4. Cardinality(ts) \in Nat
    BY FS_CardinalityType DEF TunnelSet
<1>5. Cardinality(ts \cup {u}) <= MAX_TUNNELS
    BY <1>3, <1>4, ServerAssumption
<1>6. TunnelsApart(ts \cup {u})
    BY <1>1 DEF TunnelSet, TunnelsApart
<1>7. TunnelSet(ts \cup {u})
    BY <1>1, <1>3, <1>5, <1>6 DEF TunnelSet
<1>8. TunnelGood(w, u, R)
    BY <1>1 DEF DownOf, TunnelGood, WireGood
<1>9. DownOf(w, ts \cup {u}, port, R)
    BY <1>8 DEF DownOf
<1> QED
    BY <1>7, <1>9 DEF u

LEMMA ConnectsKeeps == Inv /\ ServerConnects => Inv'
<1> SUFFICES ASSUME Inv, ServerConnects PROVE Inv'
    OBVIOUS
<1> DEFINE id == free_channel(next_channel_id, {t.channel_id : t \in tunnels})
           full == Cardinality(tunnels) >= MAX_TUNNELS
           refusal == Down("ConnectResponse", arrived.port, 0, 0, "E_NO_MORE_CONNECTIONS")
           opened == Down("ConnectResponse", arrived.port, id, 0, "E_NO_ERROR")
           u == new(id, arrived.port, arrived.port)
<1>1. /\ toServer # <<>> /\ ServerStep /\ UNCHANGED <<indicated, delivered>>
      /\ arrived.type = "ConnectRequest"
    BY DEF ServerConnects, ServerReads, ServerStep, client, arrived
<1>2. \/ /\ full /\ ServerSends(<<refusal>>) /\ UNCHANGED <<tunnels, next_channel_id>>
      \/ /\ ~ full /\ ServerSends(<<opened>>)
         /\ tunnels' = tunnels \cup {u} /\ next_channel_id' = wrapped(id + 1)
    BY DEF ServerConnects
<1>3. /\ TunnelSet(tunnels) /\ \A t \in tunnels : t.data_addr <= session.port
      /\ next_channel_id \in Channel /\ indicated \in Nat /\ delivered \in Seq(Nat)
      /\ UpWire(toServer, session.port) /\ WireOK(toClient) /\ toServer \in Seq(UpMsg)
      /\ UpInv(toServer, tunnels, Latest, offered, caller, request)
      /\ \A i \in DOMAIN delivered : delivered[i] <= Latest
      /\ DownOf(toClient, tunnels, session.port, Reader)
    BY DEF Inv, Types, Uplink, Downlink, UpWire
<1>4. Latest' = Latest /\ Reader' = Reader /\ Latest \in Nat
    BY <1>1, <1>3, LastFacts DEF ServerStep, Latest, Reader, Connected, Received
<1>5. toServer' \in Remaining(toServer)
    BY <1>2, SentTo
<1>6. UpWire(toServer', session.port) /\ Suffix(toServer', toServer) /\ toServer' \in Seq(UpMsg)
    BY <1>1, <1>3, <1>5, UpRemains DEF UpWire
<1>7. refusal \in DownMsg /\ ~ IsRequest(refusal)
    <2>1. 0 \in 0 .. MAX_CHANNEL
        BY ChannelAssumption
    <2> QED
        BY <1>1, <2>1, ArrivedFacts, ZeroSeq, AnswerIsMsg
<1>8. CASE full
    <2>1. UNCHANGED <<tunnels, next_channel_id>> /\ ServerSends(<<refusal>>)
        BY <1>2, <1>8
    <2> HIDE DEF refusal
    <2>2. WireOK(toClient') /\ DownOf(toClient', tunnels, session.port, Reader)
        <3>1. tunnels \in SUBSET Tunnel
            BY <1>3 DEF TunnelSet
        <3> QED
            BY <1>3, <1>7, <2>1, <3>1, SentTo, DownPassed
    <2>3. UpInv(toServer', tunnels, Latest, offered, caller, request)
        BY <1>3, <1>6, UpSuffix
    <2> QED
        BY <1>1, <1>3, <1>4, <1>6, <2>1, <2>2, <2>3, ServerKeeps
<1>9. CASE ~ full
    <2>1. /\ tunnels' = tunnels \cup {u} /\ next_channel_id' = wrapped(id + 1)
          /\ ServerSends(<<opened>>)
        BY <1>2, <1>9
    <2>2. Cardinality(tunnels) < MAX_TUNNELS
        <3>1. Cardinality(tunnels) \in Nat
            BY <1>3, FS_CardinalityType DEF TunnelSet
        <3> QED
            BY <1>9, <3>1, ServerAssumption
    <2>3. id \in Channel /\ id \notin {t.channel_id : t \in tunnels}
        BY <1>3, <2>2, ChannelToSpare
    <2> HIDE DEF id, full
    <2>4. /\ arrived.port \in Addr /\ arrived.port <= session.port /\ arrived = toServer[1]
          /\ 1 \in DOMAIN toServer
        BY <1>1, ArrivedFacts
    <2>5. opened \in DownMsg /\ ~ IsRequest(opened)
        <3>1. id \in 0 .. MAX_CHANNEL
            BY <2>3 DEF Channel
        <3> QED
            BY <2>4, <3>1, ZeroSeq, AnswerIsMsg
    <2>6. u.data_addr = arrived.port
        BY <2>3, <2>4, NewTunnel
    <2>7. TunnelSet(tunnels') /\ DownOf(toClient, tunnels', session.port, Reader)
        BY <1>3, <2>1, <2>2, <2>3, <2>4, AddedTunnel
    <2>8. next_channel_id' \in Channel
        <3>1. id + 1 \in Int
            BY <2>3 DEF Channel
        <3> QED
            BY <2>1, <3>1, WrappedType
    <2> HIDE DEF u, opened
    <2>9. \A t \in tunnels' : t.data_addr <= session.port
        BY <1>3, <2>1, <2>4, <2>6
    <2>10. WireOK(toClient') /\ DownOf(toClient', tunnels', session.port, Reader)
        <3>1. tunnels' \in SUBSET Tunnel
            BY <2>7 DEF TunnelSet
        <3> QED
            BY <1>3, <2>1, <2>5, <2>7, <3>1, SentTo, DownPassed
    <2>11. IsConnect(toServer[1])
        BY <1>1, <2>4 DEF IsConnect
    <2>12. UpInv(toServer, tunnels', Latest, offered, caller, request)
        BY <1>3, <1>4, <2>1, <2>4, <2>6, <2>11, UpOpened
    <2>13. UpInv(toServer', tunnels', Latest, offered, caller, request)
        BY <1>3, <1>6, <2>12, UpSuffix
    <2> QED
        BY <1>1, <1>3, <1>4, <1>6, <2>7, <2>8, <2>9, <2>10, <2>13, ServerKeeps
<1> QED
    BY <1>8, <1>9

\* The server takes a request: it is delivered, and its confirmation queued.
LEMMA TakesKeeps ==
    ASSUME Inv, ServerTakes, NEW t \in mine, is_expected(t, arrived.seq)
    PROVE  /\ Inv' /\ delivered' = Append(delivered, arrived.payload)
           /\ Latest < arrived.payload /\ arrived.payload <= offered
<1> DEFINE frame == [code |-> "req", content |-> arrived.payload]
           F(x) == take(x, arrived.seq, frame)
           g == [x \in tunnels |-> IF x \in mine THEN F(x) ELSE x]
           out == Outgoing(mine, F)
           c == CHOOSE x \in mine : transmitted(x, F(x))
           status == IF mine = {} THEN "E_CONNECTION_ID" ELSE "E_NO_ERROR"
           d == Down("TunnelingAck", arrived.port, arrived.channel, arrived.seq, status)
<1>1. /\ toServer # <<>> /\ ServerStep /\ UNCHANGED <<next_channel_id, indicated>>
      /\ arrived.type = "TunnelingRequest" /\ ServerSends(<<d>> \o out)
      /\ tunnels' = {IF x \in mine THEN F(x) ELSE x : x \in tunnels}
      /\ delivered' = Append(delivered, arrived.payload)
    BY DEF ServerTakes, ServerReads, ServerStep, client, Update, arrived
<1>2. g = [x \in tunnels |-> g[x]] /\ tunnels' = {g[x] : x \in tunnels}
    BY <1>1
<1>3. /\ arrived \in UpMsg /\ arrived = toServer[1]
      /\ arrived.port \in Addr /\ arrived.channel \in 0 .. MAX_CHANNEL /\ arrived.seq \in Seqno
      /\ arrived.payload \in Nat
      /\ mine \subseteq tunnels /\ \A x \in mine : Matches(x, arrived)
      /\ \A x \in tunnels : Matches(x, arrived) => x \in mine
      /\ tunnels \in SUBSET Tunnel /\ toClient \in Seq(DownMsg)
    BY <1>1, ArrivedFacts
<1>4. /\ TunnelSet(tunnels) /\ \A x \in tunnels : x.data_addr <= session.port
      /\ next_channel_id \in Channel /\ indicated \in Nat /\ delivered \in Seq(Nat)
      /\ UpWire(toServer, session.port) /\ WireOK(toClient) /\ toServer \in Seq(UpMsg)
      /\ UpInv(toServer, tunnels, Latest, offered, caller, request)
      /\ \A i \in DOMAIN delivered : delivered[i] <= Latest
      /\ DownOf(toClient, tunnels, session.port, Reader) /\ InOrder(Reader)
      /\ Latest \in Nat /\ offered \in Nat
    BY LastFacts DEF Inv, Types, Uplink, Downlink, UpWire, DownOf, Latest
<1>5. \A x \in mine : x = t
    BY <1>3, <1>4 DEF TunnelSet, TunnelsApart, Matches
<1>6. Latest' = arrived.payload
    BY <1>1, <1>3, <1>4, LastFacts DEF Latest
<1>7. /\ t.recv_seq = arrived.seq /\ wrapping_inc(t.recv_seq) # arrived.seq
      /\ t \in Tunnel
    BY <1>3, NextSeqno DEF is_expected
<1>8. Latest < arrived.payload /\ arrived.payload <= offered
    <2>1. IsRequest(arrived) /\ NotTwice(arrived, tunnels, Latest) /\ arrived.payload <= offered
        BY <1>1, <1>3, <1>4, ArrivedFacts DEF UpInv, IsRequest
    <2>2. arrived.payload # Latest
        BY <1>3, <1>7, <2>1 DEF NotTwice
    <2> QED
        BY <1>3, <1>4, <2>1, <2>2 DEF NotTwice
<1>9. Grown(Reader, Reader')
    BY <1>1, <1>3, <1>4, <1>6, <1>8 DEF Grown, Reader, ServerStep, Connected, Received
<1>10. Made(confirmation_of(frame), Reader, Reader') /\ frame.code = "req"
    <2>1. confirmation_of(frame) = [code |-> "con", content |-> arrived.payload]
        BY DEF confirmation_of
    <2> QED
        BY <1>3, <1>6, <1>8, <2>1 DEF Made, Known, Reader, Frame
<1>11. LET u == F(t) IN
       /\ u \in Tunnel /\ u.channel_id = t.channel_id /\ u.data_addr = t.data_addr
       /\ u.recv_seq = wrapping_inc(t.recv_seq)
       /\ TunnelGood(toClient, t, Reader) => TunnelGood(toClient, u, Reader')
    BY <1>3, <1>4, <1>7, <1>9, <1>10, TakeGood
<1> HIDE DEF frame, F, out, d
<1>12. \A x \in tunnels : /\ x \in mine => g[x] = F(t) /\ x = t
                          /\ x \notin mine => g[x] = x
    BY <1>5
<1>13. \A x \in tunnels : g[x] \in Tunnel /\ g[x].channel_id = x.channel_id
                          /\ g[x].data_addr = x.data_addr
    BY <1>3, <1>11, <1>12
<1>14. TunnelSet(tunnels') /\ \A x \in tunnels' : x.data_addr <= session.port
    <2> HIDE DEF g
    <2> QED
        BY <1>2, <1>4, <1>13, UpdateFacts
<1>15. DownOf(toClient, tunnels', session.port, Reader')
    <2>1. \A x \in tunnels : x.data_addr = session.port => TunnelGood(toClient, g[x], Reader')
        <3>1. \A x : TunnelGood(toClient, x, Reader) => TunnelGood(toClient, x, Reader')
            BY <1>9, WireGrown
        <3> QED
            BY <1>4, <1>11, <1>12, <3>1 DEF DownOf
    <2> HIDE DEF g
    <2> QED
        BY <1>2, <1>4, <1>9, <1>13, <2>1, MappedDown
<1>16. /\ \A u \in tunnels' : /\ Matches(u, arrived) => u.recv_seq # arrived.seq
                              /\ \/ Matches(u, arrived)
                                 \/ \E v \in tunnels : /\ v.channel_id = u.channel_id
                                                       /\ v.data_addr = u.data_addr
                                                       /\ v.recv_seq = u.recv_seq
    <2> SUFFICES ASSUME NEW x \in tunnels
                 PROVE  LET u == g[x] IN
                        /\ Matches(u, arrived) => u.recv_seq # arrived.seq
                        /\ \/ Matches(u, arrived)
                           \/ \E v \in tunnels : /\ v.channel_id = u.channel_id
                                                 /\ v.data_addr = u.data_addr
                                                 /\ v.recv_seq = u.recv_seq
        BY <1>2
    <2>1. CASE x \in mine
        <3>1. Matches(F(t), arrived) /\ F(t).recv_seq # arrived.seq
            BY <1>3, <1>7, <1>11 DEF Matches
        <3> QED
            BY <1>12, <2>1, <3>1
    <2>2. CASE x \notin mine
        <3>1. ~ Matches(x, arrived) /\ g[x] = x
            BY <1>3, <1>12, <2>2
        <3> QED
            BY <3>1
    <2> QED
        BY <2>1, <2>2
<1>17. UpInv(toServer, tunnels', arrived.payload, offered, caller, request)
    <2>1. toServer # <<>> /\ IsRequest(toServer[1]) /\ Matches(t, toServer[1]) /\ t \in tunnels
        BY <1>1, <1>3 DEF IsRequest
    <2>2. /\ \A u \in tunnels' : /\ Matches(u, toServer[1]) => u.recv_seq # toServer[1].seq
                                 /\ \/ Matches(u, toServer[1])
                                    \/ \E v \in tunnels : /\ v.channel_id = u.channel_id
                                                          /\ v.data_addr = u.data_addr
                                                          /\ v.recv_seq = u.recv_seq
        BY <1>3, <1>16
    <2>3. t.recv_seq = toServer[1].seq
        BY <1>3, <1>7
    <2>4. UpInv(toServer, tunnels', toServer[1].payload, offered, caller, request)
        BY <1>4, <2>1, <2>2, <2>3, UpTaken
    <2> QED
        BY <1>3, <2>4
<1>18. toServer' \in Remaining(toServer)
    BY <1>1, SentTo
<1>19. UpWire(toServer', session.port) /\ Suffix(toServer', toServer) /\ toServer' \in Seq(UpMsg)
    BY <1>1, <1>4, <1>18, UpRemains DEF UpWire
<1>20. UpInv(toServer', tunnels', Latest', offered, caller, request)
    BY <1>4, <1>6, <1>17, <1>19, UpSuffix
<1>21. delivered' \in Seq(Nat) /\ \A i \in DOMAIN delivered' : delivered'[i] <= Latest'
    <2>1. /\ delivered' \in Seq(Nat) /\ DOMAIN delivered = 1 .. Len(delivered)
          /\ DOMAIN delivered' = 1 .. Len(delivered) + 1 /\ Len(delivered) \in Nat
          /\ delivered'[Len(delivered) + 1] = arrived.payload
          /\ \A i \in 1 .. Len(delivered) : delivered'[i] = delivered[i]
        BY <1>1, <1>3, <1>4, AppendFacts
    <2>2. \A i \in 1 .. Len(delivered) : delivered'[i] <= arrived.payload
        <3> SUFFICES ASSUME NEW i \in 1 .. Len(delivered)
                     PROVE  delivered'[i] <= arrived.payload
            OBVIOUS
        <3>0. delivered \in Seq(Nat) /\ \A k \in DOMAIN delivered : delivered[k] <= Latest
            BY <1>4
        <3>1. delivered[i] \in Nat /\ delivered[i] <= Latest /\ delivered'[i] = delivered[i]
            BY <2>1, <3>0
        <3>2. Latest \in Nat /\ arrived.payload \in Nat /\ Latest < arrived.payload
            BY <1>3, <1>4, <1>8
        <3> QED
            BY <3>1, <3>2
    <2>3. \A i \in DOMAIN delivered' : i = Len(delivered) + 1 \/ i \in 1 .. Len(delivered)
        BY <2>1
    <2> QED
        BY <1>3, <1>6, <2>1, <2>2, <2>3
<1>22. d \in DownMsg /\ ~ IsRequest(d)
    BY <1>3, AnswerIsMsg DEF d
<1>23. arrived.port = session.port => Sendable(out, tunnels', session.port)
    <2>1. (\E x \in mine : transmitted(x, F(x))) =>
              c \in mine /\ transmitted(c, F(c)) /\ out = <<Request(F(c))>>
        BY DEF Outgoing, out
    <2>2. ~ (\E x \in mine : transmitted(x, F(x))) => out = <<>>
        BY DEF Outgoing, out
    <2>3. \A x \in mine : F(x) \in tunnels' /\ F(x).data_addr = arrived.port
        BY <1>2, <1>3, <1>5, <1>11, <1>12 DEF Matches
    <2> HIDE DEF c
    <2> QED
        BY <2>1, <2>2, <2>3 DEF Sendable, transmitted
<1>24. WireOK(toClient') /\ DownOf(toClient', tunnels', session.port, Reader')
    BY <1>1, <1>4, <1>14, <1>15, <1>22, <1>23, SentTo, DownAnswers
<1>25. next_channel_id' \in Channel /\ indicated' \in Nat
    BY <1>1, <1>4
<1>26. Inv'
    BY <1>1, <1>14, <1>19, <1>20, <1>21, <1>24, <1>25, ServerKeeps
<1> QED
    BY <1>1, <1>8, <1>26

LEMMA RefusesKeeps ==
    ASSUME Inv, ServerTakes, ~ \E t \in mine : is_expected(t, arrived.seq)
    PROVE  Inv' /\ delivered' = delivered
<1> DEFINE frame == [code |-> "req", content |-> arrived.payload]
           F(x) == take(x, arrived.seq, frame)
           g == [x \in tunnels |-> IF x \in mine THEN F(x) ELSE x]
           out == Outgoing(mine, F)
           status == IF mine = {} THEN "E_CONNECTION_ID" ELSE "E_NO_ERROR"
           d == Down("TunnelingAck", arrived.port, arrived.channel, arrived.seq, status)
<1>1. /\ toServer # <<>> /\ ServerStep /\ UNCHANGED <<next_channel_id, indicated, delivered>>
      /\ ServerSends(<<d>> \o out)
      /\ tunnels' = {IF x \in mine THEN F(x) ELSE x : x \in tunnels}
    BY DEF ServerTakes, ServerReads, ServerStep, client, Update
<1>2. g = [x \in tunnels |-> g[x]] /\ tunnels' = {g[x] : x \in tunnels}
    BY <1>1
<1>3. \A x \in mine : F(x) = x
    BY DEF take
<1>4. \A t \in tunnels : /\ Queued(g[t], t)
                         /\ TunnelGood(toClient, t, Reader) => TunnelGood(toClient, g[t], Reader)
    BY <1>1, <1>3, ArrivedFacts DEF Queued
<1>5. out = <<>>
    <2>1. ~ \E x \in mine : transmitted(x, F(x))
        BY <1>3 DEF transmitted
    <2> QED
        BY <2>1 DEF Outgoing
<1>6. d \in DownMsg /\ ~ IsRequest(d)
    BY <1>1, ArrivedFacts, AnswerIsMsg
<1> HIDE DEF g, d, out
<1>7. Sendable(out, tunnels', session.port)
    BY <1>5 DEF Sendable
<1>8. toServer' \in Remaining(toServer)
      /\ (UNCHANGED toClient \/ toClient' = Put(toClient, <<d>> \o out))
    BY <1>1, SentTo
<1>9. Inv'
    BY <1>1, <1>2, <1>4, <1>6, <1>7, <1>8, AnswerKeeps
<1> QED
    BY <1>1, <1>9

-----------------------------------------------------------------------------
(* The invariant of every run.                                              *)

LEMMA InitInv == Init => Inv
<1> SUFFICES ASSUME Init PROVE Inv
    OBVIOUS
<1>1. 1 \in Channel /\ 1 \in Addr /\ 0 \in Seqno /\ Channel \subseteq 0 .. MAX_CHANNEL
    BY ChannelAssumption, PortsAssumption, ZeroSeq DEF Channel
<1>2. session \in Session /\ session.port = 1
    BY <1>1 DEF Init, fresh, Session
<1>3. /\ new(1, 1, 1) \in Tunnel /\ new(1, 1, 1).data_addr = 1
      /\ new(1, 1, 1).channel_id = 1
      /\ new(1, 1, 1).in_flight = <<>> /\ new(1, 1, 1).outbox = <<>>
    BY <1>1, NewTunnel
<1>4. TunnelSet(tunnels) /\ \A t \in tunnels : t.data_addr <= session.port
    <2>1. IsFiniteSet(tunnels) /\ Cardinality(tunnels) = 1
        BY FS_Singleton DEF Init
    <2>2. tunnels \in SUBSET Tunnel /\ TunnelsApart(tunnels)
        BY <1>3 DEF Init, TunnelsApart
    <2> QED
        BY <1>2, <1>3, <2>1, <2>2, ServerAssumption DEF Init, TunnelSet
<1>5. next_channel_id \in Channel
    BY WrappedType DEF Init
<1>6. /\ <<>> \in Seq(UpMsg) /\ <<>> \in Seq(DownMsg) /\ <<>> \in Seq(Nat)
      /\ <<>> \in Seq(Frame) /\ <<>> \in Seq([cemi : Frame, place : Place])
      /\ Len(<<>>) = 0 /\ DOMAIN <<>> = {}
    OBVIOUS
<1>7. UpWire(toServer, session.port) /\ WireOK(toClient)
    BY <1>6, WireAssumption DEF Init, UpWire, WireOK
<1>8. Types
    BY <1>2, <1>4, <1>5, <1>6, <1>7 DEF Init, Types
<1>9. Control
    BY DEF Init, Control, Place
<1>10. Latest = 0
    BY DEF Init, Latest, LastOf
<1>11. Uplink
    <2>1. Rising(toServer) /\ ConnectsFirst(toServer, Latest)
        BY <1>6 DEF Init, Rising, ConnectsFirst
    <2> QED
        BY <1>6, <1>10, <2>1 DEF Init, Uplink, UpInv
<1>12. Received = <<>>
    BY DEF Init, Received, ReceivedOf
<1>13. InOrder(Reader)
    BY <1>6, <1>12 DEF InOrder, Reader
<1>14. \A id \in Channel : WireGood(toClient, id, Reader)
    <2> SUFFICES ASSUME NEW id \in Channel PROVE WireGood(toClient, id, Reader)
        OBVIOUS
    <2>1. DOMAIN Line(toClient, id, <<>>, <<>>) = {}
        BY <1>6 DEF Init, Line
    <2> QED
        BY <2>1 DEF WireGood, Good, Lined, Readable, AllNew
<1>15. Downlink
    BY <1>1, <1>3, <1>13, <1>14 DEF Init, Downlink, DownOf, TunnelGood, WireGood
<1> QED
    BY <1>8, <1>9, <1>11, <1>15 DEF Inv

LEMMA StutterKeeps == Inv /\ UNCHANGED vars => Inv'
<1> SUFFICES ASSUME Inv, UNCHANGED vars PROVE Inv'
    OBVIOUS
<1>1. UNCHANGED <<task, session, blocked, caller, tunnels, next_channel_id, indicated,
                  toServer, toClient, offered, delivered, handed>>
    BY DEF vars, client, server, seen
<1>2. UNCHANGED <<Latest, Received, Connected, Reader, request>>
    BY <1>1 DEF Latest, Received, Connected, Reader, request, Up
<1> QED
    BY <1>1, <1>2 DEF Inv, Control, Types, Uplink, Downlink

LEMMA NextInv == Inv /\ [Next]_vars => Inv'
<1> SUFFICES ASSUME Inv, [Next]_vars PROVE Inv'
    OBVIOUS
<1>1. CASE ClientTask
    BY <1>1, QuietKeeps, DisconnectKeeps, AckKeeps, HandOverKeeps, StartKeeps, TimeoutKeeps,
       RequestKeeps, EstablishKeeps, ResponseKeeps DEF ClientTask
<1>2. CASE ServerTask
    <2>1. ServerTakes => Inv'
        BY TakesKeeps, RefusesKeeps
    <2> QED
        BY <1>2, <2>1, ConnectsKeeps, AcknowledgedKeeps, HeartbeatKeeps, DisconnectsKeeps,
           IgnoresKeeps, IndicatesKeeps, ExpiresKeeps, CleansUpKeeps, TickKeeps DEF ServerTask
<1> QED
    BY <1>1, <1>2, SendsKeeps, ReceiveKeeps, LoseUpKeeps, LoseDownKeeps, StutterKeeps DEF Next

THEOREM Invariance == Spec => []Inv
BY InitInv, NextInv, PTL DEF Spec

(* What the client has handed over is in the order in which the server made *)
(* it: an indication or a confirmation that is queued twice, repeated or    *)
(* late is not taken again, in whatever session it arrives.                 *)
THEOREM InOrderToTheEnd == Spec => []HandedOverInOrder
<1>1. Inv => HandedOverInOrder
    <2> SUFFICES ASSUME Inv, NEW i \in DOMAIN handed, NEW j \in DOMAIN handed, i < j,
                        handed[i].code = handed[j].code
                 PROVE  handed[i].content < handed[j].content
        BY DEF HandedOverInOrder
    <2>1. handed \in Seq(Frame) /\ InOrder(Reader) /\ Reader.taken = Received
        BY DEF Inv, Types, Downlink, DownOf, Reader
    <2>2. \A k \in DOMAIN handed : k \in DOMAIN Received /\ Received[k] = handed[k]
        <3>1. CASE blocked = <<>>
            BY <3>1 DEF Received, ReceivedOf
        <3>2. CASE blocked # <<>>
            <4>1. Received = Append(handed, blocked[1].cemi) /\ blocked[1].cemi \in Frame
                BY <3>2, BlockedFacts DEF Inv, Received, ReceivedOf
            <4>2. /\ DOMAIN handed = 1 .. Len(handed) /\ Len(handed) \in Nat
                  /\ DOMAIN Received = 1 .. Len(handed) + 1
                  /\ \A k \in 1 .. Len(handed) : Received[k] = handed[k]
                BY <2>1, <4>1, AppendFacts
            <4> QED
                BY <4>2
        <3> QED
            BY <3>1, <3>2
    <2>3. Older(handed[i], handed[j])
        BY <2>1, <2>2 DEF InOrder
    <2> QED
        BY <2>3 DEF Older
<1> QED
    BY <1>1, Invariance, PTL

-----------------------------------------------------------------------------
(* What an acknowledgement means: how the sequence numbers of the two ends  *)
(* are related, for a client that reconnects after every failure.           *)

\* The datagrams that tell one end about the numbers of the other.
Matters == {d \in UpMsg : IsRequest(d) \/ IsConnect(d)}
Positive == {d \in DownMsg : d.type = "TunnelingAck" /\ d.status = "E_NO_ERROR"}

Accepts(d, id) == d \in Positive /\ d.channel = id

\* What wire w2 holds of X it has from w, in the same order.
Kept(w2, w, X) ==
    \E n \in Nat : \A i \in DOMAIN w2 : w2[i] \in X => i + n \in DOMAIN w /\ w2[i] = w[i + n]

\* A request of the session is the one being served, or is done with.
Numbered(w, s, sv, last, r) ==
    \A i \in DOMAIN w : (IsRequest(w[i]) /\ w[i].port = s.port) =>
        \/ sv /\ w[i] = r
        \/ w[i].payload <= last /\ wrapping_inc(w[i].seq) = s.send_seq

\* The tunnel of the session expects the next request, or the one after it
\* when that is delivered already.
Expected(ts, s, got) ==
    \A t \in ts : (t.data_addr = s.port /\ t.channel_id = s.channel_id) =>
        t.recv_seq = IF got THEN wrapping_inc(s.send_seq) ELSE s.send_seq

\* An acknowledgement of the request being served follows its delivery, and no
\* older one follows it.
Acknowledged(v, s, got) ==
    \A i \in DOMAIN v : Accepts(v[i], s.channel_id) =>
        \/ wrapping_inc(v[i].seq) = s.send_seq
        \/ /\ got /\ v[i].seq = s.send_seq
           /\ \A k \in DOMAIN v : (i < k /\ Accepts(v[k], s.channel_id)) => v[k].seq = s.send_seq

\* While a connect request of the session is under way, nothing is acknowledged.
Unused(w, v, s) ==
    \A i \in DOMAIN w : (IsConnect(w[i]) /\ w[i].port = s.port) =>
        s.send_seq = 0 /\ \A k \in DOMAIN v : ~ Accepts(v[k], s.channel_id)

InSession(w, v, ts, s, sv, got, last, r) ==
    /\ Numbered(w, s, sv, last, r)
    /\ Expected(ts, s, got)
    /\ Acknowledged(v, s, got)
    /\ Unused(w, v, s)

\* A socket over which no session has begun.
Opened(w, v, ts, port) ==
    /\ \A i \in DOMAIN w : ~ (IsRequest(w[i]) /\ w[i].port = port)
    /\ \A i \in DOMAIN v : v[i] \notin Positive
    /\ \A t \in ts : t.data_addr = port => t.recv_seq = 0

Serving == caller = "served"
Got == Serving /\ Latest = offered

InStep ==
    /\ Connected =>
          InSession(toServer, toClient, tunnels, session, Serving, Got, Latest, request)
    /\ task = "await_connect" => Opened(toServer, toClient, tunnels, session.port)
    /\ Serving => offered > 0
    /\ confirmed \subseteq Promise!Arrived

-----------------------------------------------------------------------------
LEMMA PutFacts ==
    ASSUME NEW S, NEW w \in Seq(S), NEW out \in Seq(S), Len(w) <= MaxOnWire
    PROVE  \A i \in DOMAIN Put(w, out) :
              /\ i \in Nat
              /\ \/ i \in DOMAIN w /\ Put(w, out)[i] = w[i]
                 \/ /\ i > Len(w) /\ i - Len(w) \in DOMAIN out
                    /\ Put(w, out)[i] = out[i - Len(w)]
<1> DEFINE all == w \o out
           m == IF Len(all) < MaxOnWire THEN Len(all) ELSE MaxOnWire
<1>1. /\ all \in Seq(S) /\ Len(all) = Len(w) + Len(out) /\ Len(w) \in Nat /\ Len(out) \in Nat
      /\ DOMAIN w = 1 .. Len(w) /\ DOMAIN out = 1 .. Len(out)
    OBVIOUS
<1>2. /\ \A i \in 1 .. Len(w) : all[i] = w[i]
      /\ \A i \in Len(w) + 1 .. Len(w) + Len(out) : all[i] = out[i - Len(w)]
    OBVIOUS
<1>3. Put(w, out) = SubSeq(all, 1, m)
    BY DEF Put
<1> HIDE DEF all
<1>4. m \in Nat /\ m <= Len(all)
    BY <1>1, WireAssumption
<1> HIDE DEF m
<1>5. DOMAIN Put(w, out) = 1 .. m /\ \A i \in 1 .. m : Put(w, out)[i] = all[i]
    BY <1>1, <1>3, <1>4
<1> QED
    BY <1>1, <1>2, <1>4, <1>5

\* What is on a wire on which d has been put.
LEMMA ExtendsFacts ==
    ASSUME NEW S, NEW w \in Seq(S), NEW d \in S, NEW w2, Extends(w2, w, d)
    PROVE  \A i \in DOMAIN w2 : (i \in DOMAIN w /\ w2[i] = w[i]) \/ w2[i] = d
<1>1. CASE w2 = w
    BY <1>1
<1>2. CASE w2 = Append(w, d)
    <2>1. /\ Len(w) \in Nat /\ DOMAIN w = 1 .. Len(w) /\ DOMAIN w2 = 1 .. Len(w) + 1
          /\ w2[Len(w) + 1] = d /\ \A i \in 1 .. Len(w) : w2[i] = w[i]
        BY <1>2, AppendFacts
    <2> QED
        BY <2>1
<1> QED
    BY <1>1, <1>2 DEF Extends

LEMMA KeptPut ==
    ASSUME NEW S, NEW w \in Seq(S), NEW out \in Seq(S), Len(w) <= MaxOnWire,
           NEW X, \A j \in DOMAIN out : out[j] \notin X
    PROVE  Kept(Put(w, out), w, X)
<1>1. \A i \in DOMAIN Put(w, out) : Put(w, out)[i] \in X =>
          i + 0 \in DOMAIN w /\ Put(w, out)[i] = w[i + 0]
    BY PutFacts
<1> QED
    BY <1>1 DEF Kept

LEMMA KeptSuffix ==
    ASSUME NEW w2, NEW w, Suffix(w2, w), NEW X
    PROVE  Kept(w2, w, X)
BY DEF Kept, Suffix

LEMMA KeptSame ==
    ASSUME NEW S, NEW w \in Seq(S), NEW X
    PROVE  Kept(w, w, X)
BY SuffixItself, KeptSuffix

LEMMA KeptRemaining ==
    ASSUME NEW S, NEW w \in Seq(S), w # <<>>, NEW w2 \in Remaining(w), NEW X
    PROVE  Kept(w2, w, X)
<1>1. Suffix(Tail(w), w) /\ Suffix(w, w)
    BY TailFacts, SuffixItself
<1> QED
    BY <1>1, KeptSuffix DEF Remaining

\* A datagram of no account to the numbers.
LEMMA KeptPassed ==
    ASSUME NEW S, NEW w \in Seq(S), Len(w) <= MaxOnWire, NEW d \in S, NEW X, d \notin X
    PROVE  Kept(Put(w, <<d>>), w, X)
<1>1. <<d>> \in Seq(S) /\ DOMAIN <<d>> = {1} /\ <<d>>[1] = d
    OBVIOUS
<1> QED
    BY <1>1, KeptPut

\* An answer and the request that goes out with it.
LEMMA AnswerPut ==
    ASSUME NEW w \in Seq(DownMsg), Len(w) <= MaxOnWire, NEW d \in DownMsg,
           NEW out, out = <<>> \/ \E e : e.type = "TunnelingRequest" /\ out = <<e>>
    PROVE  /\ \A i \in DOMAIN Put(w, <<d>> \o out) :
                 Put(w, <<d>> \o out)[i] \in Positive =>
                    \/ i \in DOMAIN w /\ Put(w, <<d>> \o out)[i] = w[i]
                    \/ i = Len(w) + 1 /\ Put(w, <<d>> \o out)[i] = d
           /\ Kept(Put(w, out), w, Positive)
           /\ d \notin Positive => /\ Kept(Put(w, <<d>> \o out), w, Positive)
                                   /\ Kept(Put(w, out \o <<d>>), w, Positive)
                                   /\ Kept(Put(w, out \o <<>>), w, Positive)
<1>0. PICK e : (out = <<>> \/ out = <<e>>) /\ e \notin Positive
    <2>1. CASE out = <<>>
        <3>1. [type |-> "TunnelingRequest"].type = "TunnelingRequest"
            OBVIOUS
        <3> QED
            BY <2>1, <3>1 DEF Positive
    <2>2. CASE \E e : e.type = "TunnelingRequest" /\ out = <<e>>
        BY <2>2 DEF Positive
    <2> QED
        BY <2>1, <2>2
<1> DEFINE S == DownMsg \cup {e}
<1>1. w \in Seq(S) /\ d \in S /\ e \in S
    OBVIOUS
<1> HIDE DEF S
<1>2. /\ <<d>> \in Seq(S) /\ <<e>> \in Seq(S) /\ <<>> \in Seq(S)
      /\ DOMAIN <<d>> = {1} /\ DOMAIN <<e>> = {1} /\ DOMAIN <<>> = {}
      /\ <<d>>[1] = d /\ <<e>>[1] = e
    BY <1>1
<1>3. \A s \in Seq(S) : s \o <<>> = s
    OBVIOUS
<1>4. ASSUME NEW a \in S, NEW b \in S
      PROVE  /\ <<a>> \o <<b>> \in Seq(S) /\ DOMAIN (<<a>> \o <<b>>) = {1, 2}
             /\ (<<a>> \o <<b>>)[1] = a /\ (<<a>> \o <<b>>)[2] = b
    <2>1. <<a>> \in Seq(S) /\ <<b>> \in Seq(S) /\ Len(<<a>>) = 1 /\ <<a>>[1] = a
        OBVIOUS
    <2>2. <<a>> \o <<b>> = Append(<<a>>, b)
        BY <2>1
    <2>3. /\ Append(<<a>>, b) \in Seq(S) /\ DOMAIN Append(<<a>>, b) = 1 .. 2
          /\ Append(<<a>>, b)[2] = b /\ Append(<<a>>, b)[1] = a
        BY <2>1, AppendFacts
    <2> QED
        BY <2>2, <2>3
<1>5. Len(w) \in Nat
    OBVIOUS
<1>6. \A i \in DOMAIN Put(w, <<d>> \o out) :
          Put(w, <<d>> \o out)[i] \in Positive =>
             \/ i \in DOMAIN w /\ Put(w, <<d>> \o out)[i] = w[i]
             \/ i = Len(w) + 1 /\ Put(w, <<d>> \o out)[i] = d
    <2>1. <<d>> \o out \in Seq(S)
        BY <1>0, <1>1, <1>2, <1>3, <1>4
    <2>2. \A j \in DOMAIN (<<d>> \o out) : (<<d>> \o out)[j] \in Positive =>
              j = 1 /\ (<<d>> \o out)[j] = d
        <3>1. CASE out = <<>>
            BY <1>2, <1>3, <3>1
        <3>2. CASE out = <<e>>
            BY <1>0, <1>1, <1>4, <3>2
        <3> QED
            BY <1>0, <3>1, <3>2
    <2>3. \A i \in DOMAIN Put(w, <<d>> \o out) :
              /\ i \in Nat
              /\ \/ i \in DOMAIN w /\ Put(w, <<d>> \o out)[i] = w[i]
                 \/ /\ i > Len(w) /\ i - Len(w) \in DOMAIN (<<d>> \o out)
                    /\ Put(w, <<d>> \o out)[i] = (<<d>> \o out)[i - Len(w)]
        BY <1>1, <2>1, PutFacts
    <2> SUFFICES ASSUME NEW i \in DOMAIN Put(w, <<d>> \o out),
                        Put(w, <<d>> \o out)[i] \in Positive,
                        i > Len(w), i - Len(w) \in DOMAIN (<<d>> \o out),
                        Put(w, <<d>> \o out)[i] = (<<d>> \o out)[i - Len(w)]
                 PROVE  i = Len(w) + 1 /\ Put(w, <<d>> \o out)[i] = d
        BY <2>3
    <2>4. i - Len(w) = 1 /\ (<<d>> \o out)[i - Len(w)] = d
        BY <2>2
    <2>5. i \in Nat
        BY <2>3
    <2> QED
        BY <1>5, <2>4, <2>5
<1>7. Kept(Put(w, out), w, Positive)
    <2>1. out \in Seq(S) /\ \A j \in DOMAIN out : out[j] \notin Positive
        BY <1>0, <1>2, <1>4
    <2> QED
        BY <1>1, <2>1, KeptPut
<1>8. ASSUME d \notin Positive
      PROVE  /\ Kept(Put(w, <<d>> \o out), w, Positive)
             /\ Kept(Put(w, out \o <<d>>), w, Positive)
             /\ Kept(Put(w, out \o <<>>), w, Positive)
    <2>1. /\ <<d>> \o out \in Seq(S) /\ out \o <<d>> \in Seq(S)
        <3>1. CASE out = <<>>
            <4>1. <<d>> \o out = <<d>> /\ out \o <<d>> = <<d>>
                BY <3>1
            <4> QED
                BY <1>2, <4>1
        <3>2. CASE out = <<e>>
            BY <1>1, <1>4, <3>2
        <3> QED
            BY <1>0, <3>1, <3>2
    <2>2. /\ \A j \in DOMAIN (<<d>> \o out) : (<<d>> \o out)[j] \notin Positive
          /\ \A j \in DOMAIN (out \o <<d>>) : (out \o <<d>>)[j] \notin Positive
        <3>1. CASE out = <<>>
            <4>1. <<d>> \o out = <<d>> /\ out \o <<d>> = <<d>>
                BY <3>1
            <4> QED
                BY <1>2, <1>8, <4>1
        <3>2. CASE out = <<e>>
            BY <1>0, <1>1, <1>4, <1>8, <3>2
        <3> QED
            BY <1>0, <3>1, <3>2
    <2>3. out \o <<>> = out
        BY <1>0, <1>3
    <2> QED
        BY <1>1, <1>7, <2>1, <2>2, <2>3, KeptPut
<1> QED
    BY <1>6, <1>7, <1>8

\* The tunnels of ts2 are among those of ts, up to their queues.
Among(ts2, ts) ==
    \A u \in ts2 : \E t \in ts : /\ t.channel_id = u.channel_id
                                 /\ t.data_addr = u.data_addr /\ t.recv_seq = u.recv_seq

LEMMA RequestsKept ==
    ASSUME NEW w, NEW w2 \in Seq(UpMsg), Kept(w2, w, Matters),
           NEW s, NEW s2, s2.port = s.port, s2.send_seq = s.send_seq,
           NEW sv, NEW last \in Nat, NEW last2 \in Nat, last <= last2, NEW r
    PROVE  Numbered(w, s, sv, last, r) => Numbered(w2, s2, sv, last2, r)
<1> SUFFICES ASSUME Numbered(w, s, sv, last, r), NEW i \in DOMAIN w2,
                    IsRequest(w2[i]), w2[i].port = s.port
             PROVE  \/ sv /\ w2[i] = r
                    \/ w2[i].payload <= last2 /\ wrapping_inc(w2[i].seq) = s.send_seq
    BY DEF Numbered
<1>1. w2[i] \in UpMsg
    OBVIOUS
<1>2. w2[i] \in Matters /\ w2[i].payload \in Nat
    BY <1>1 DEF Matters, UpMsg
<1>3. PICK j \in DOMAIN w : w2[i] = w[j]
    BY <1>2 DEF Kept
<1>4. CASE sv /\ w[j] = r
    BY <1>3, <1>4
<1>5. CASE w[j].payload <= last /\ wrapping_inc(w[j].seq) = s.send_seq
    BY <1>2, <1>3, <1>5
<1> QED
    BY <1>3, <1>4, <1>5 DEF Numbered

LEMMA AcksKept ==
    ASSUME NEW v, NEW v2 \in Seq(DownMsg), Kept(v2, v, Positive), DOMAIN v \subseteq Nat,
           NEW s, NEW s2, s2.channel_id = s.channel_id, s2.send_seq = s.send_seq, NEW got
    PROVE  Acknowledged(v, s, got) => Acknowledged(v2, s2, got)
<1> SUFFICES ASSUME Acknowledged(v, s, got) PROVE Acknowledged(v2, s2, got)
    OBVIOUS
<1>1. PICK n \in Nat : \A i \in DOMAIN v2 : v2[i] \in Positive =>
                          i + n \in DOMAIN v /\ v2[i] = v[i + n]
    BY DEF Kept
<1>2. DOMAIN v2 = 1 .. Len(v2) /\ Len(v2) \in Nat
    OBVIOUS
<1>3. \A i, k \in DOMAIN v2 : i < k => i + n < k + n
    BY <1>2
<1>4. \A i \in DOMAIN v2 : Accepts(v2[i], s.channel_id) =>
          i + n \in DOMAIN v /\ v2[i] = v[i + n] /\ Accepts(v[i + n], s.channel_id)
    BY <1>1 DEF Accepts
<1> SUFFICES ASSUME NEW i \in DOMAIN v2, Accepts(v2[i], s.channel_id)
             PROVE  \/ wrapping_inc(v2[i].seq) = s.send_seq
                    \/ /\ got /\ v2[i].seq = s.send_seq
                       /\ \A k \in DOMAIN v2 : (i < k /\ Accepts(v2[k], s.channel_id)) =>
                             v2[k].seq = s.send_seq
    BY DEF Acknowledged
<1>5. i + n \in DOMAIN v /\ v2[i] = v[i + n] /\ Accepts(v[i + n], s.channel_id)
    BY <1>4
<1>6. CASE wrapping_inc(v[i + n].seq) = s.send_seq
    BY <1>5, <1>6
<1>7. CASE /\ got /\ v[i + n].seq = s.send_seq
           /\ \A k \in DOMAIN v : (i + n < k /\ Accepts(v[k], s.channel_id)) =>
                 v[k].seq = s.send_seq
    BY <1>3, <1>4, <1>5, <1>7
<1> QED
    BY <1>5, <1>6, <1>7 DEF Acknowledged

LEMMA UnusedKept ==
    ASSUME NEW w, NEW w2 \in Seq(UpMsg), Kept(w2, w, Matters),
           NEW v, NEW v2, Kept(v2, v, Positive),
           NEW s, NEW s2, s2.port = s.port, s2.channel_id = s.channel_id,
           s2.send_seq = s.send_seq
    PROVE  Unused(w, v, s) => Unused(w2, v2, s2)
<1> SUFFICES ASSUME Unused(w, v, s), NEW i \in DOMAIN w2, IsConnect(w2[i]), w2[i].port = s.port
             PROVE  s.send_seq = 0 /\ \A k \in DOMAIN v2 : ~ Accepts(v2[k], s.channel_id)
    BY DEF Unused
<1>1. w2[i] \in UpMsg
    OBVIOUS
<1>2. w2[i] \in Matters
    BY <1>1 DEF Matters
<1>3. PICK j \in DOMAIN w : w2[i] = w[j]
    BY <1>2 DEF Kept
<1>4. s.send_seq = 0 /\ \A k \in DOMAIN v : ~ Accepts(v[k], s.channel_id)
    BY <1>3 DEF Unused
<1> QED
    BY <1>4 DEF Kept, Accepts

LEMMA ExpectedKept ==
    ASSUME NEW ts, NEW ts2, Among(ts2, ts), NEW s, NEW s2, s2.port = s.port,
           s2.channel_id = s.channel_id, s2.send_seq = s.send_seq, NEW got
    PROVE  Expected(ts, s, got) => Expected(ts2, s2, got)
BY DEF Expected, Among

LEMMA SessionKept ==
    ASSUME NEW w, NEW w2 \in Seq(UpMsg), Kept(w2, w, Matters),
           NEW v, NEW v2 \in Seq(DownMsg), Kept(v2, v, Positive), DOMAIN v \subseteq Nat,
           NEW ts, NEW ts2, Among(ts2, ts),
           NEW s, NEW s2, s2.port = s.port, s2.channel_id = s.channel_id,
           s2.send_seq = s.send_seq,
           NEW sv, NEW got, NEW last \in Nat, NEW last2 \in Nat, last <= last2, NEW r,
           InSession(w, v, ts, s, sv, got, last, r)
    PROVE  InSession(w2, v2, ts2, s2, sv, got, last2, r)
<1>1. Numbered(w2, s2, sv, last2, r)
    BY RequestsKept DEF InSession
<1>2. Acknowledged(v2, s2, got)
    BY AcksKept DEF InSession
<1>3. Unused(w2, v2, s2)
    BY UnusedKept DEF InSession
<1>4. Expected(ts2, s2, got)
    BY ExpectedKept DEF InSession
<1> QED
    BY <1>1, <1>2, <1>3, <1>4 DEF InSession

LEMMA OpenedKept ==
    ASSUME NEW w, NEW w2 \in Seq(UpMsg), Kept(w2, w, Matters),
           NEW v, NEW v2, Kept(v2, v, Positive), NEW ts, NEW ts2, Among(ts2, ts), NEW port,
           Opened(w, v, ts, port)
    PROVE  Opened(w2, v2, ts2, port)
<1>1. \A i \in DOMAIN w2 : IsRequest(w2[i]) => w2[i] \in Matters
    BY DEF Matters
<1> QED
    BY <1>1 DEF Opened, Kept, Among

LEMMA WireDomains ==
    ASSUME Types
    PROVE  /\ toServer \in Seq(UpMsg) /\ Len(toServer) <= MaxOnWire /\ DOMAIN toServer \subseteq Nat
           /\ toClient \in Seq(DownMsg) /\ Len(toClient) <= MaxOnWire
           /\ DOMAIN toClient \subseteq Nat /\ Latest \in Nat /\ offered \in Nat
<1>1. \A S : \A s \in Seq(S) : DOMAIN s \subseteq Nat
    OBVIOUS
<1> QED
    BY <1>1, LastFacts DEF Types, UpWire, WireOK, Latest

\* Every step that has nothing to do with the numbers.
LEMMA NumbersKept ==
    ASSUME Inv, Inv', InStep,
           Kept(toServer', toServer, Matters), Kept(toClient', toClient, Positive),
           Among(tunnels', tunnels), UNCHANGED <<delivered, confirmed>>,
           session'.port = session.port, session'.channel_id = session.channel_id,
           session'.send_seq = session.send_seq,
           Connected' => Connected /\ Serving' = Serving,
           Serving' => Serving /\ offered' = offered,
           task' = "await_connect" => task = "await_connect"
    PROVE  InStep'
<1>1. Types /\ Types'
    BY DEF Inv
<1>2. /\ toServer' \in Seq(UpMsg) /\ toClient' \in Seq(DownMsg) /\ DOMAIN toClient \subseteq Nat
      /\ Latest \in Nat /\ Latest' = Latest /\ Latest <= Latest
    BY <1>1, WireDomains DEF Latest, Types, UpWire, WireOK
<1>3. Serving' => request' = request
    BY DEF request, Up
<1>4. Connected' => /\ Serving' = Serving /\ Got' = Got
                    /\ InSession(toServer', toClient', tunnels', session', Serving, Got, Latest, request)
    BY <1>2, SessionKept DEF InStep, Got
<1>5. Connected' =>
          InSession(toServer', toClient', tunnels', session', Serving', Got', Latest', request')
    <2> SUFFICES ASSUME Connected'
                 PROVE  InSession(toServer', toClient', tunnels', session', Serving', Got', Latest', request')
        OBVIOUS
    <2>1. CASE Serving'
        BY <1>2, <1>3, <1>4, <2>1
    <2>2. CASE ~ Serving'
        BY <1>2, <1>4, <2>2 DEF InSession, Numbered
    <2> QED
        BY <2>1, <2>2
<1>6. task' = "await_connect" => Opened(toServer', toClient', tunnels', session'.port)
    BY <1>2, OpenedKept DEF InStep
<1>7. (Serving' => offered' > 0) /\ confirmed' \subseteq Promise!Arrived'
    BY DEF InStep, Promise!Arrived
<1> QED
    BY <1>5, <1>6, <1>7 DEF InStep

-----------------------------------------------------------------------------
(* The client's steps, and the numbers.                                     *)

\* A step of the client in which it begins no request and settles none.
LEMMA ClientInStep ==
    ASSUME Inv, Inv', InStep, UNCHANGED <<tunnels, delivered, confirmed>>,
           \/ toServer' = toServer
           \/ \E type \in {"TunnelingAck", "DisconnectRequest", "DisconnectResponse",
                           "ConnectionStateRequest"} :
                 \E seq \in Seqno : toServer' = Put(toServer, <<Up(type, seq, 0)>>),
           \/ toClient' = toClient
           \/ toClient # <<>> /\ toClient' \in Remaining(toClient),
           session'.port = session.port, session'.channel_id = session.channel_id,
           session'.send_seq = session.send_seq,
           Connected' => Connected /\ Serving' = Serving,
           Serving' => Serving /\ offered' = offered,
           task' = "await_connect" => task = "await_connect"
    PROVE  InStep'
<1>1. /\ toServer \in Seq(UpMsg) /\ Len(toServer) <= MaxOnWire
      /\ toClient \in Seq(DownMsg) /\ Len(toClient) <= MaxOnWire /\ session \in Session
    BY WireDomains DEF Inv, Types
<1>2. Kept(toServer', toServer, Matters)
    <2>1. CASE toServer' = toServer
        BY <1>1, <2>1, KeptSame
    <2>2. ASSUME NEW type \in {"TunnelingAck", "DisconnectRequest", "DisconnectResponse",
                               "ConnectionStateRequest"},
                 NEW seq \in Seqno, toServer' = Put(toServer, <<Up(type, seq, 0)>>)
          PROVE  Kept(toServer', toServer, Matters)
        <3>1. Up(type, seq, 0) \in UpMsg /\ Up(type, seq, 0).type = type
            BY <1>1, UpIsMsg
        <3>2. Up(type, seq, 0) \notin Matters
            BY <3>1 DEF Matters, IsRequest, IsConnect
        <3> QED
            BY <1>1, <2>2, <3>1, <3>2, KeptPassed
    <2> QED
        BY <2>1, <2>2
<1>3. Kept(toClient', toClient, Positive)
    BY <1>1, KeptSame, KeptRemaining
<1>4. Among(tunnels', tunnels)
    BY DEF Among
<1> QED
    BY <1>2, <1>3, <1>4, NumbersKept

LEMMA ApplicationInStep == Inv /\ Inv' /\ InStep /\ (AppSends \/ AppReceives) => InStep'
<1>1. ASSUME Inv, Inv', InStep, AppSends PROVE InStep'
    BY <1>1, ClientInStep DEF AppSends, server, Connected, Serving
<1>2. ASSUME Inv, Inv', InStep, AppReceives PROVE InStep'
    BY <1>2, ClientInStep DEF AppReceives, server, seen, Connected, Serving
<1> QED
    BY <1>1, <1>2

\* A failed send ends the session.
LEMMA FailedSend ==
    ASSUME auto_reconnect, reply(FALSE)
    PROVE  /\ caller' = "free" /\ confirmed' = confirmed /\ task' = "delay"
           /\ ~ Connected' /\ ~ Serving' /\ task' # "await_connect"
BY DEF reply, Connected, Serving, Place

\* Steps after which the client is at its loop, or has no session.
LEMMA LoopInStep ==
    ASSUME Inv, Inv', InStep, UNCHANGED <<tunnels, delivered, confirmed, offered>>,
           SameSession, task \in Place \cup {"delay", "await_connect", "ended"},
           \/ task' = task /\ caller' = caller
           \/ /\ task' \in {"select", "await_state"} /\ task \in {"select", "await_state"}
              /\ caller' = caller
           \/ task' \in {"delay", "ended"} /\ (caller' = "free" \/ caller' = caller),
           \/ toServer' = toServer
           \/ \E type \in {"TunnelingAck", "DisconnectRequest", "DisconnectResponse",
                           "ConnectionStateRequest"} :
                 \E seq \in Seqno : toServer' = Put(toServer, <<Up(type, seq, 0)>>),
           \/ toClient' = toClient
           \/ toClient # <<>> /\ toClient' \in Remaining(toClient)
    PROVE  InStep'
<1>1. Connected' => Connected /\ Serving' = Serving
    BY DEF Connected, Serving, Place
<1>2. Serving' => Serving
    BY DEF Serving
<1>3. task' = "await_connect" => task = "await_connect"
    OBVIOUS
<1> QED
    BY <1>1, <1>2, <1>3, ClientInStep DEF SameSession

LEMMA QuietInStep ==
    ASSUME auto_reconnect
    PROVE  Inv /\ Inv' /\ InStep
           /\ (SocketError \/ StartHeartbeat \/ HeartbeatTimeout \/ Close \/ RejectCall
               \/ ConnectTimeout \/ ReadStateResponse \/ ReadIgnored
               \/ ReadDisconnectRequest) => InStep'
<1> USE DEF server, seen
<1>0. 0 \in Seqno
    BY ZeroSeq
<1>1. ASSUME Inv, Inv', InStep, SocketError PROVE InStep'
    <2>1. CASE task = "select" /\ lose_connection /\ UNCHANGED <<attempt, buffered, caller, confirmed>>
        BY <1>1, <2>1, SessionSame, LoopInStep DEF SocketError, lose_connection, Place
    <2>2. CASE task = "await_ack" /\ reply(FALSE)
        BY <1>1, <2>2, SessionSame, FailedSend, LoopInStep DEF SocketError, Place
    <2> QED
        BY <1>1, <2>1, <2>2 DEF SocketError
<1>2. ASSUME Inv, Inv', InStep, StartHeartbeat PROVE InStep'
    BY <1>0, <1>2, SessionSame, LoopInStep DEF StartHeartbeat, ClientSends, Place
<1>3. ASSUME Inv, Inv', InStep, HeartbeatTimeout PROVE InStep'
    <2>1. SameSession /\ task' \in {"select", "delay", "ended"}
        BY <1>3, SessionSame, FailedTask DEF HeartbeatTimeout
    <2> QED
        BY <1>3, <2>1, LoopInStep DEF HeartbeatTimeout, Place
<1>4. ASSUME Inv, Inv', InStep, Close PROVE InStep'
    <2>1. SameSession
        BY <1>4, SessionSame DEF Close
    <2> QED
        BY <1>0, <1>4, <2>1, LoopInStep DEF Close, ClientSends, Place
<1>5. ASSUME Inv, Inv', InStep, RejectCall PROVE InStep'
    BY <1>5, SessionSame, LoopInStep DEF RejectCall
<1>6. ASSUME Inv, Inv', InStep, ConnectTimeout PROVE InStep'
    BY <1>6, SessionSame, LoopInStep DEF ConnectTimeout
<1>7. ASSUME Inv, Inv', InStep, ReadStateResponse PROVE InStep'
    <2>1. SameSession /\ task' \in {"select", "delay", "ended"}
        BY <1>7, SessionSame, FailedTask DEF ReadStateResponse
    <2> QED
        BY <1>7, <2>1, LoopInStep DEF ReadStateResponse, Reads, Place
<1>8. ASSUME Inv, Inv', InStep, ReadIgnored PROVE InStep'
    BY <1>8, SessionSame, LoopInStep DEF ReadIgnored, Reads, Place, client
<1>9. ASSUME Inv, Inv', InStep, ReadDisconnectRequest PROVE InStep'
    <2>1. /\ UNCHANGED <<caller, confirmed, tunnels, offered, delivered>>
          /\ toClient # <<>> /\ toClient' \in Remaining(toClient)
        BY <1>9 DEF ReadDisconnectRequest, Reads
    <2>2. CASE /\ task = "select" /\ lose_connection
               /\ ClientSends(<<disconnect_response>>) /\ UNCHANGED <<session, buffered>>
        BY <1>0, <1>9, <2>1, <2>2, SessionSame, LoopInStep
           DEF lose_connection, ClientSends, disconnect_response, Place
    <2>3. CASE task = "await_ack" /\ UNCHANGED <<task, session, toServer>>
        BY <1>9, <2>1, <2>3, SessionSame, LoopInStep DEF Place
    <2>4. CASE /\ task = "await_state" /\ heartbeat_failed
               /\ ClientSends(<<disconnect_response>>)
        <3>1. SameSession /\ task' \in {"select", "delay", "ended"}
            BY <1>9, <2>4, SessionSame, FailedTask
        <3> QED
            BY <1>0, <1>9, <2>1, <2>4, <3>1, LoopInStep
               DEF ClientSends, disconnect_response, Place
    <2> QED
        BY <1>9, <2>2, <2>3, <2>4 DEF ReadDisconnectRequest
<1> QED
    BY <1>1, <1>2, <1>3, <1>4, <1>5, <1>6, <1>7, <1>8, <1>9

LEMMA RequestInStep == Inv /\ Inv' /\ InStep /\ ReadTunnelingRequest => InStep'
<1> SUFFICES ASSUME Inv, Inv', InStep, ReadTunnelingRequest PROVE InStep'
    OBVIOUS
<1> DEFINE ack == Up("TunnelingAck", datagram.seq, 0)
<1>1. /\ UNCHANGED <<caller, confirmed, tunnels, offered, delivered>>
      /\ toClient # <<>> /\ toClient' \in Remaining(toClient) /\ task \in Place
      /\ session \in Session /\ toClient \in Seq(DownMsg)
    BY DEF ReadTunnelingRequest, Reads, server, Inv, Types, Place, WireOK
<1>2. datagram.seq \in Seqno
    <2>1. datagram \in DownMsg
        BY <1>1, TailFacts DEF datagram
    <2> QED
        BY <2>1 DEF DownMsg
<1>3. UNCHANGED toServer \/ ClientSends(<<ack>>)
    BY DEF ReadTunnelingRequest
<1>4. /\ session'.port = session.port /\ session'.channel_id = session.channel_id
      /\ session'.send_seq = session.send_seq
    <2>1. UNCHANGED session \/ session' = [session EXCEPT !.recv_seq = wrapping_inc(@)]
        BY DEF ReadTunnelingRequest
    <2> QED
        BY <1>1, <2>1 DEF Session
<1>5. UNCHANGED task \/ task' = "blocked"
    BY DEF ReadTunnelingRequest
<1>6. Connected /\ Serving' = Serving /\ task' # "await_connect"
    BY <1>1, <1>5 DEF Connected, Serving, Place
<1> QED
    BY <1>1, <1>2, <1>3, <1>4, <1>6, ClientInStep DEF ClientSends

LEMMA HandOverInStep == Inv /\ Inv' /\ InStep /\ HandOver => InStep'
<1> SUFFICES ASSUME Inv, Inv', InStep, HandOver PROVE InStep'
    OBVIOUS
<1>1. /\ UNCHANGED <<caller, session, confirmed, tunnels, offered, delivered, toServer, toClient>>
      /\ task = "blocked" /\ task' = blocked[1].place
    BY DEF HandOver, server
<1>2. task' \in Place
    BY <1>1, BlockedFacts DEF Inv, Control
<1>3. Connected /\ Serving' = Serving /\ task' # "await_connect"
    BY <1>1, <1>2 DEF Connected, Serving, Place
<1> QED
    BY <1>1, <1>3, ClientInStep

\* The request being served goes on the wire.
LEMMA RequestPut ==
    ASSUME NEW w \in Seq(UpMsg), NEW r \in UpMsg, IsRequest(r), NEW w2, Extends(w2, w, r),
           NEW v, NEW s, NEW sv, sv \in BOOLEAN, NEW last
    PROVE  /\ Numbered(w, s, sv, last, r) => Numbered(w2, s, TRUE, last, r)
           /\ Unused(w, v, s) => Unused(w2, v, s)
<1>1. \A i \in DOMAIN w2 : (i \in DOMAIN w /\ w2[i] = w[i]) \/ w2[i] = r
    BY ExtendsFacts
<1>2. Numbered(w, s, sv, last, r) => Numbered(w2, s, TRUE, last, r)
    BY <1>1 DEF Numbered
<1>3. ~ IsConnect(r)
    BY DEF IsConnect, IsRequest
<1>4. Unused(w, v, s) => Unused(w2, v, s)
    BY <1>1, <1>3 DEF Unused
<1> QED
    BY <1>2, <1>4

LEMMA SendInStep ==
    ASSUME Inv, InStep, task \in {"select", "await_ack"}, task' = "await_ack",
           caller' = "served", caller \in {"queued", "served"},
           toServer' = Put(toServer, <<request>>),
           UNCHANGED <<session, tunnels, toClient, offered, delivered, confirmed>>
    PROVE  InStep'
<1>1. /\ toServer \in Seq(UpMsg) /\ Len(toServer) <= MaxOnWire /\ session \in Session
      /\ offered \in Nat /\ Latest \in Nat /\ Types
      /\ UpInv(toServer, tunnels, Latest, offered, caller, request)
    BY WireDomains DEF Inv, Types, Uplink
<1>2. request \in UpMsg /\ IsRequest(request)
    BY <1>1, RequestIsMsg
<1>3. Extends(toServer', toServer, request)
    BY <1>1, <1>2, PutAppended
<1>4. request' = request /\ Latest' = Latest
    BY DEF request, Up, Latest
<1>5. Connected /\ InSession(toServer, toClient, tunnels, session, Serving, Got, Latest, request)
    BY DEF InStep, Connected, Place
<1>6. Got' = Got
    <2>1. CASE caller = "served"
        BY <1>4, <2>1 DEF Got, Serving
    <2>2. CASE caller = "queued"
        <3>1. Latest < offered
            BY <1>1, <2>2 DEF UpInv
        <3> QED
            BY <1>1, <1>4, <2>2, <3>1 DEF Got, Serving
    <2> QED
        BY <2>1, <2>2
<1>7. Serving' = TRUE /\ Serving \in BOOLEAN
    BY DEF Serving
<1>8. Numbered(toServer', session, TRUE, Latest, request) /\ Unused(toServer', toClient, session)
    BY <1>1, <1>2, <1>3, <1>5, <1>7, RequestPut DEF InSession
<1>9. InSession(toServer', toClient', tunnels', session', Serving', Got', Latest', request')
    BY <1>4, <1>5, <1>6, <1>7, <1>8 DEF InSession
<1>10. offered' > 0
    <2>1. CASE caller = "served"
        BY <2>1 DEF InStep, Serving
    <2>2. CASE caller = "queued"
        <3>1. Latest < offered
            BY <1>1, <2>2 DEF UpInv
        <3> QED
            BY <1>1, <3>1
    <2> QED
        BY <2>1, <2>2
<1>11. confirmed' \subseteq Promise!Arrived'
    BY DEF InStep, Promise!Arrived
<1> QED
    BY <1>9, <1>10, <1>11 DEF InStep

LEMMA StartInStep == Inv /\ InStep /\ StartSend => InStep'
BY SendInStep DEF StartSend, ClientSends, server, seen

LEMMA TimeoutInStep ==
    ASSUME auto_reconnect
    PROVE  Inv /\ Inv' /\ InStep /\ AckTimeout => InStep'
<1> SUFFICES ASSUME Inv, Inv', InStep, AckTimeout PROVE InStep'
    OBVIOUS
<1>1. /\ UNCHANGED <<session, tunnels, toClient, offered, delivered>> /\ task = "await_ack"
    BY DEF AckTimeout, server
<1>2. CASE ClientSends(<<request>>) /\ UNCHANGED <<task, caller, confirmed>>
    <2>1. caller = "served"
        BY <1>1 DEF Inv, Control
    <2> QED
        BY <1>1, <1>2, <2>1, SendInStep DEF ClientSends
<1>3. CASE reply(FALSE) /\ UNCHANGED toServer
    BY <1>1, <1>3, FailedSend, SessionSame, LoopInStep DEF Place
<1> QED
    BY <1>2, <1>3 DEF AckTimeout

\* The last payload delivered was delivered.
LEMMA LastArrived ==
    ASSUME Types, Latest = offered, offered > 0
    PROVE  offered \in Promise!Arrived
<1>1. delivered \in Seq(Nat) /\ delivered # <<>>
    BY DEF Types, Latest, LastOf
<1>2. Len(delivered) \in DOMAIN delivered
    BY <1>1
<1>3. delivered[Len(delivered)] = offered
    BY <1>1 DEF Latest, LastOf
<1> QED
    BY <1>2, <1>3 DEF Promise!Arrived

\* Once the request being served has been delivered, it is the only one.
LEMMA OnlyServed ==
    ASSUME Inv, Got, NEW i \in DOMAIN toServer, IsRequest(toServer[i])
    PROVE  toServer[i] = request
<1>1. /\ toServer \in Seq(UpMsg) /\ Latest \in Nat /\ offered \in Nat
      /\ UpInv(toServer, tunnels, Latest, offered, "served", request)
    BY WireDomains DEF Inv, Uplink, Got, Serving
<1>2. toServer[i] \in UpMsg
    BY <1>1
<1>3. toServer[i].payload \in Nat
    BY <1>2 DEF UpMsg
<1>4. Latest <= toServer[i].payload
    BY <1>1 DEF UpInv, NotTwice
<1>5. \/ toServer[i].payload < request.payload
      \/ toServer[i] = request
    BY <1>1 DEF UpInv, Served, NotBefore
<1>6. request.payload = offered /\ Latest = offered
    BY <1>1 DEF UpInv, Served, Got
<1> QED
    BY <1>1, <1>3, <1>4, <1>5, <1>6

\* The datagram that acknowledges the request being served.
LEMMA AckedIsTaken ==
    ASSUME Inv, InStep, ReadAck, datagram.status = "E_NO_ERROR"
    PROVE  /\ Got /\ 1 \in DOMAIN toClient /\ offered \in Promise!Arrived
           /\ \A i \in DOMAIN toClient : Accepts(toClient[i], session.channel_id) =>
                 toClient[i].seq = session.send_seq
           /\ Accepts(toClient[1], session.channel_id)
<1>1. /\ toClient \in Seq(DownMsg) /\ toClient # <<>> /\ task = "await_ack" /\ Types
      /\ datagram.type = "TunnelingAck" /\ datagram.channel = session.channel_id
      /\ datagram.seq = session.send_seq /\ session.send_seq \in Seqno
    BY DEF ReadAck, Reads, Inv, Types, WireOK, Session
<1>2. /\ datagram = toClient[1] /\ datagram \in DownMsg /\ 1 \in DOMAIN toClient
      /\ \A i \in DOMAIN toClient : i = 1 \/ 1 < i
    <2>1. /\ Head(toClient) = toClient[1] /\ Head(toClient) \in DownMsg
          /\ DOMAIN toClient = 1 .. Len(toClient) /\ Len(toClient) \in Nat /\ Len(toClient) >= 1
        BY <1>1, TailFacts
    <2> QED
        BY <2>1 DEF datagram
<1>3. Accepts(toClient[1], session.channel_id)
    BY <1>1, <1>2 DEF Accepts, Positive
<1>4. Acknowledged(toClient, session, Got)
    BY <1>1 DEF InStep, InSession, Connected, Place
<1>5. wrapping_inc(session.send_seq) # session.send_seq
    BY <1>1, NextSeqno
<1>6. /\ Got /\ \A k \in DOMAIN toClient : (1 < k /\ Accepts(toClient[k], session.channel_id)) =>
                   toClient[k].seq = session.send_seq
    BY <1>1, <1>2, <1>3, <1>4, <1>5 DEF Acknowledged
<1>7. offered \in Promise!Arrived
    BY <1>1, <1>6, LastArrived DEF Got, InStep
<1> QED
    BY <1>1, <1>2, <1>3, <1>6, <1>7

LEMMA AckInStep ==
    ASSUME auto_reconnect
    PROVE  Inv /\ Inv' /\ InStep /\ ReadAck => InStep'
<1> SUFFICES ASSUME Inv, Inv', InStep, ReadAck PROVE InStep'
    OBVIOUS
<1>1. /\ UNCHANGED <<tunnels, offered, delivered>> /\ task = "await_ack" /\ caller' = "free"
      /\ toClient # <<>> /\ toClient' \in Remaining(toClient)
      /\ session \in Session /\ toServer \in Seq(UpMsg) /\ toClient \in Seq(DownMsg)
      /\ Len(toServer) <= MaxOnWire /\ Latest \in Nat /\ offered \in Nat /\ Types
    BY WireDomains DEF ReadAck, Reads, server, reply, Inv, Types
<1>2. CASE reply(FALSE)
    <2>1. ~ Connected' /\ ~ Serving' /\ task' # "await_connect" /\ confirmed' = confirmed
        BY <1>2, FailedSend
    <2>2. confirmed' \subseteq Promise!Arrived'
        BY <1>1, <2>1 DEF InStep, Promise!Arrived
    <2> QED
        BY <2>1, <2>2 DEF InStep
<1>3. CASE /\ ~ buffered /\ datagram.status = "E_NO_ERROR" /\ reply(TRUE)
           /\ session' = [session EXCEPT !.send_seq = wrapping_inc(@)]
           /\ ClientSends(<<>>)
    <2>1. /\ confirmed' = confirmed \cup {offered} /\ task' = "select"
          /\ toServer' = toServer
        BY <1>1, <1>3, PutNothing DEF reply, ClientSends
    <2>2. /\ session'.port = session.port /\ session'.channel_id = session.channel_id
          /\ session'.send_seq = wrapping_inc(session.send_seq)
        BY <1>1, <1>3 DEF Session
    <2>3. /\ Got /\ 1 \in DOMAIN toClient /\ offered \in Promise!Arrived
          /\ \A i \in DOMAIN toClient : Accepts(toClient[i], session.channel_id) =>
                toClient[i].seq = session.send_seq
          /\ Accepts(toClient[1], session.channel_id)
        BY <1>3, AckedIsTaken
    <2>4. InSession(toServer, toClient, tunnels, session, Serving, Got, Latest, request)
        BY <1>1 DEF InStep, Connected, Place
    <2>5. \A i \in DOMAIN toServer : IsRequest(toServer[i]) =>
              toServer[i].payload <= Latest /\ toServer[i].seq = session.send_seq
        <3>1. request.payload = offered /\ request.seq = session.send_seq
            BY DEF request, Up
        <3>2. Latest = offered
            BY <2>3 DEF Got
        <3> QED
            BY <1>1, <2>3, <3>1, <3>2, OnlyServed
    <2>6. Numbered(toServer, session', FALSE, Latest, request')
        BY <2>2, <2>5 DEF Numbered
    <2>7. Expected(tunnels, session', FALSE)
        BY <2>2, <2>3, <2>4 DEF InSession, Expected
    <2>8. Acknowledged(toClient', session', FALSE)
        <3>1. Kept(toClient', toClient, Positive)
            BY <1>1, KeptRemaining
        <3> QED
            BY <2>2, <2>3, <3>1 DEF Acknowledged, Accepts, Kept
    <2>9. Unused(toServer, toClient', session')
        BY <2>2, <2>3, <2>4 DEF InSession, Unused
    <2>10. Serving' = FALSE /\ Got' = FALSE /\ Latest' = Latest
        BY <1>1 DEF Serving, Got, Latest
    <2>11. InSession(toServer', toClient', tunnels', session', Serving', Got', Latest', request')
        BY <1>1, <2>1, <2>6, <2>7, <2>8, <2>9, <2>10 DEF InSession
    <2>12. confirmed' \subseteq Promise!Arrived'
        BY <1>1, <2>1, <2>3 DEF InStep, Promise!Arrived
    <2> QED
        BY <2>1, <2>10, <2>11, <2>12 DEF InStep
<1> QED
    BY <1>2, <1>3 DEF ReadAck

LEMMA EstablishInStep == Inv /\ Inv' /\ InStep /\ Establish => InStep'
<1> SUFFICES ASSUME Inv, Inv', InStep, Establish PROVE InStep'
    OBVIOUS
<1> DEFINE port == session.port + 1
           d == [Up("ConnectRequest", 0, 0) EXCEPT !.port = port]
<1>1. /\ UNCHANGED <<blocked, caller, tunnels, delivered, offered, confirmed>>
      /\ task = "delay" /\ task' = "await_connect" /\ toClient' = <<>>
      /\ session \in Session /\ port \in Addr
      /\ session' = [session EXCEPT !.port = port] /\ toServer' = Put(toServer, <<d>>)
      /\ toServer \in Seq(UpMsg) /\ Len(toServer) <= MaxOnWire
      /\ \A i \in DOMAIN toServer : toServer[i].port <= session.port
      /\ tunnels \in SUBSET Tunnel /\ \A t \in tunnels : t.data_addr <= session.port
    BY DEF Establish, server, seen, Inv, Types, UpWire, TunnelSet
<1>2. session.port \in Nat /\ port \in Nat /\ session.port < port
    BY <1>1, PortFacts
<1>3. d \in UpMsg /\ ~ IsRequest(d)
    <2>1. Up("ConnectRequest", 0, 0) \in UpMsg /\ Up("ConnectRequest", 0, 0).type = "ConnectRequest"
        BY <1>1, ZeroSeq, UpIsMsg
    <2> QED
        BY <1>1, <2>1 DEF UpMsg, IsRequest
<1> HIDE DEF port, d
<1>4. session'.port = port
    BY <1>1 DEF Session
<1>5. \A i \in DOMAIN toServer : toServer[i].port # port
    <2>1. \A i \in DOMAIN toServer : toServer[i] \in UpMsg
        BY <1>1
    <2>2. \A i \in DOMAIN toServer : toServer[i].port \in Nat
        BY <2>1, PortsAssumption DEF UpMsg
    <2> QED
        BY <1>1, <1>2, <2>2
<1>6. \A i \in DOMAIN toServer' : ~ (IsRequest(toServer'[i]) /\ toServer'[i].port = port)
    <2>1. Extends(toServer', toServer, d)
        BY <1>1, <1>3, PutAppended
    <2>2. \A i \in DOMAIN toServer' : \/ i \in DOMAIN toServer /\ toServer'[i] = toServer[i]
                                      \/ toServer'[i] = d
        BY <1>1, <1>3, <2>1, ExtendsFacts
    <2> QED
        BY <1>3, <1>5, <2>2
<1>7. \A t \in tunnels : t.data_addr # port
    <2>1. \A t \in tunnels : t.data_addr \in Nat
        <3>1. \A t \in tunnels : t.data_addr \in Addr
            BY <1>1, TunnelFacts
        <3> QED
            BY <3>1, PortsAssumption
    <2> QED
        BY <1>1, <1>2, <2>1
<1>8. DOMAIN <<>> = {}
    OBVIOUS
<1>9. Opened(toServer', toClient', tunnels', session'.port)
    BY <1>1, <1>4, <1>6, <1>7, <1>8 DEF Opened
<1>10. ~ Connected' /\ ~ Serving'
    BY <1>1 DEF Connected, Serving, Place, Inv, Control
<1>11. confirmed' \subseteq Promise!Arrived'
    BY <1>1 DEF InStep, Promise!Arrived
<1> QED
    BY <1>9, <1>10, <1>11 DEF InStep

LEMMA ResponseInStep == Inv /\ Inv' /\ InStep /\ ReadConnectResponse => InStep'
<1> SUFFICES ASSUME Inv, Inv', InStep, ReadConnectResponse PROVE InStep'
    OBVIOUS
<1>1. /\ UNCHANGED <<caller, tunnels, delivered, offered, confirmed, toServer>>
      /\ toClient # <<>> /\ toClient' \in Remaining(toClient) /\ task = "await_connect"
      /\ toClient \in Seq(DownMsg)
    BY DEF ReadConnectResponse, Reads, server, Inv, Types, WireOK
<1>2. CASE task' = "delay" /\ UNCHANGED session
    BY <1>1, <1>2, SessionSame, LoopInStep
<1>3. CASE task' = "select" /\ session' = fresh(session.port, datagram.channel)
    <2>1. Opened(toServer, toClient, tunnels, session.port)
        BY <1>1 DEF InStep
    <2>2. session'.port = session.port /\ session'.send_seq = 0
        BY <1>3 DEF fresh
    <2>3. Kept(toClient', toClient, Positive)
        BY <1>1, KeptRemaining
    <2>4. \A i \in DOMAIN toClient' : toClient'[i] \notin Positive
        BY <2>1, <2>3 DEF Opened, Kept
    <2>5. Serving' = FALSE /\ Got' = FALSE
        BY <1>1 DEF Inv, Control, Place, Serving, Got
    <2>6. /\ Numbered(toServer', session', FALSE, Latest', request')
          /\ Unused(toServer', toClient', session') /\ Expected(tunnels', session', FALSE)
          /\ Acknowledged(toClient', session', FALSE)
        BY <1>1, <2>1, <2>2, <2>4
           DEF Opened, Numbered, Unused, Expected, Acknowledged, Accepts
    <2>7. InSession(toServer', toClient', tunnels', session', Serving', Got', Latest', request')
        BY <2>5, <2>6 DEF InSession
    <2>8. confirmed' \subseteq Promise!Arrived'
        BY <1>1 DEF InStep, Promise!Arrived
    <2> QED
        BY <1>3, <2>5, <2>7, <2>8 DEF InStep
<1> QED
    BY <1>2, <1>3 DEF ReadConnectResponse

-----------------------------------------------------------------------------
(* The server's steps, and the numbers.                                     *)

\* A step of the server that leaves the client and what it was told.
LEMMA ServerInStep ==
    ASSUME Inv, InStep, ServerStep, UNCHANGED confirmed,
           delivered' = delivered \/ delivered' = Append(delivered, arrived.payload),
           arrived.payload \in Nat,
           Connected => InSession(toServer', toClient', tunnels', session, Serving, Got',
                                  Latest', request),
           task = "await_connect" => Opened(toServer', toClient', tunnels', session.port)
    PROVE  InStep'
<1>1. UNCHANGED <<task, session, caller, offered>>
    BY DEF ServerStep
<1>2. request' = request /\ Serving' = Serving /\ Connected' = Connected
    BY <1>1 DEF request, Up, Serving, Connected
<1>3. Promise!Arrived \subseteq Promise!Arrived'
    <2>1. CASE delivered' = delivered
        BY <2>1 DEF Promise!Arrived
    <2>2. CASE delivered' = Append(delivered, arrived.payload)
        <3>1. delivered \in Seq(Nat)
            BY DEF Inv, Types
        <3>2. /\ DOMAIN delivered \subseteq DOMAIN delivered'
              /\ \A i \in DOMAIN delivered : delivered'[i] = delivered[i]
            <4>1. /\ Len(delivered) \in Nat /\ DOMAIN delivered = 1 .. Len(delivered)
                  /\ DOMAIN delivered' = 1 .. Len(delivered) + 1
                  /\ \A i \in 1 .. Len(delivered) : delivered'[i] = delivered[i]
                BY <2>2, <3>1, AppendFacts
            <4> QED
                BY <4>1
        <3> QED
            BY <3>2 DEF Promise!Arrived
    <2> QED
        BY <2>1, <2>2
<1> QED
    BY <1>1, <1>2, <1>3 DEF InStep

\* A step of the server in which it neither takes nor acknowledges a request.
LEMMA ServerQuiet ==
    ASSUME Inv, Inv', InStep, ServerStep, UNCHANGED <<delivered, confirmed>>,
           toServer' = toServer \/ (toServer # <<>> /\ toServer' \in Remaining(toServer)),
           Kept(toClient', toClient, Positive), Among(tunnels', tunnels)
    PROVE  InStep'
<1>1. toServer \in Seq(UpMsg)
    BY DEF Inv, Types, UpWire
<1>2. Kept(toServer', toServer, Matters)
    BY <1>1, KeptSame, KeptRemaining
<1>3. Connected' = Connected /\ Serving' = Serving
    BY DEF ServerStep, Connected, Serving
<1> QED
    BY <1>2, <1>3, NumbersKept DEF ServerStep

\* What may go out with an answer, or by itself.
Transmission(out) == out = <<>> \/ \E e : e.type = "TunnelingRequest" /\ out = <<e>>

LEMMA TransmissionKept ==
    ASSUME Inv, NEW out, Transmission(out)
    PROVE  /\ Kept(Put(toClient, out), toClient, Positive)
           /\ Kept(Put(toClient, out \o <<>>), toClient, Positive)
           /\ \A d \in DownMsg : d \notin Positive =>
                 /\ Kept(Put(toClient, <<d>> \o out), toClient, Positive)
                 /\ Kept(Put(toClient, out \o <<d>>), toClient, Positive)
<1> DEFINE e == Down("ConnectResponse", session.port, 0, 0, "")
<1>1. toClient \in Seq(DownMsg) /\ Len(toClient) <= MaxOnWire
    BY DEF Inv, Types, WireOK
<1>2. e \in DownMsg /\ e \notin Positive
    <2>1. session.port \in Addr /\ 0 \in 0 .. MAX_CHANNEL /\ 0 \in Seqno
        BY PortFacts, ZeroSeq, ChannelAssumption DEF Inv, Types
    <2>2. e.type = "ConnectResponse"
        BY DEF Down
    <2> QED
        BY <2>1, <2>2, AnswerIsMsg DEF Positive
<1> HIDE DEF e
<1> QED
    BY <1>1, <1>2, AnswerPut DEF Transmission

\* What the server sends in reply, whether the client's socket is open or not.
LEMMA SentKept ==
    ASSUME Inv, NEW out, Transmission(out), NEW d \in DownMsg, d \notin Positive,
           ServerSends(out) \/ ServerSends(<<d>> \o out) \/ ServerSends(<<d>>)
    PROVE  Kept(toClient', toClient, Positive) /\ toServer' \in Remaining(toServer)
<1>1. toClient \in Seq(DownMsg) /\ Transmission(<<>>) /\ <<d>> \o <<>> = <<d>>
    BY DEF Inv, Types, WireOK, Transmission
<1>2. /\ toServer' \in Remaining(toServer)
      /\ \/ toClient' = toClient
         \/ toClient' = Put(toClient, out) \/ toClient' = Put(toClient, <<d>> \o out)
         \/ toClient' = Put(toClient, <<d>>)
    BY DEF ServerSends
<1> QED
    BY <1>1, <1>2, KeptSame, TransmissionKept

LEMMA AnswersInStep ==
    Inv /\ Inv' /\ InStep
    /\ (ServerIsAcknowledged \/ ServerAnswersHeartbeat \/ ServerDisconnects \/ ServerIgnores
        \/ LoseToServer \/ LoseToClient) => InStep'
<1> DEFINE status == IF mine = {} THEN "E_CONNECTION_ID" ELSE "E_NO_ERROR"
<1>0. ASSUME Inv, toServer # <<>>,
             NEW type \in {"ConnectionStateResponse", "DisconnectResponse"}
      PROVE  /\ Down(type, arrived.port, arrived.channel, 0, status) \in DownMsg
             /\ Down(type, arrived.port, arrived.channel, 0, status) \notin Positive
    <2>1. Down(type, arrived.port, arrived.channel, 0, status).type = type
        BY DEF Down
    <2> QED
        BY <1>0, <2>1, ArrivedFacts, ZeroSeq, AnswerIsMsg DEF Positive
<1>1. ASSUME Inv, Inv', InStep, ServerIsAcknowledged PROVE InStep'
    <2> DEFINE F(t) == acknowledge(t, arrived.seq)
               out == Outgoing(mine, F)
    <2>1. /\ toServer # <<>> /\ ServerStep /\ UNCHANGED <<delivered, confirmed>>
          /\ ServerSends(out)
          /\ tunnels' = {IF t \in mine THEN F(t) ELSE t : t \in tunnels}
        BY <1>1 DEF ServerIsAcknowledged, ServerReads, ServerStep, client, Update
    <2>2. Transmission(out)
        BY DEF Transmission, Outgoing, Request
    <2>3. Among(tunnels', tunnels)
        <3>1. \A t \in tunnels : Queued(F(t), t)
            BY <1>1, <2>1, ArrivedFacts, AcknowledgeGood
        <3> QED
            BY <2>1, <3>1 DEF Among, Queued
    <2> HIDE DEF out
    <2> QED
        BY <1>0, <1>1, <2>1, <2>2, <2>3, SentKept, ServerQuiet
<1>2. ASSUME Inv, Inv', InStep, ServerAnswersHeartbeat PROVE InStep'
    <2> DEFINE d == Down("ConnectionStateResponse", arrived.port, arrived.channel, 0, status)
    <2>1. /\ toServer # <<>> /\ ServerStep /\ UNCHANGED <<delivered, confirmed>>
          /\ ServerSends(<<d>>)
          /\ tunnels' = {IF t \in mine THEN heartbeat(t) ELSE t : t \in tunnels}
        BY <1>2 DEF ServerAnswersHeartbeat, ServerReads, ServerStep, client, Update
    <2>2. d \in DownMsg /\ d \notin Positive /\ Transmission(<<>>)
        BY <1>0, <1>2, <2>1 DEF Transmission
    <2>3. Among(tunnels', tunnels)
        <3>1. \A t \in tunnels : Queued(heartbeat(t), t)
            BY <1>2, <2>1, ArrivedFacts, HeartbeatGood
        <3> QED
            BY <2>1, <3>1 DEF Among, Queued
    <2> HIDE DEF d
    <2> QED
        BY <1>2, <2>1, <2>2, <2>3, SentKept, ServerQuiet
<1>3. ASSUME Inv, Inv', InStep, ServerDisconnects PROVE InStep'
    <2> DEFINE d == Down("DisconnectResponse", arrived.port, arrived.channel, 0, status)
    <2>1. /\ toServer # <<>> /\ ServerStep /\ UNCHANGED <<delivered, confirmed>>
          /\ ServerSends(<<d>>) /\ tunnels' \subseteq tunnels
        BY <1>3 DEF ServerDisconnects, ServerReads, ServerStep, client
    <2>2. d \in DownMsg /\ d \notin Positive /\ Transmission(<<>>)
        BY <1>0, <1>3, <2>1 DEF Transmission
    <2>3. Among(tunnels', tunnels)
        BY <2>1 DEF Among
    <2> HIDE DEF d
    <2> QED
        BY <1>3, <2>1, <2>2, <2>3, SentKept, ServerQuiet
<1>4. toClient \in Seq(DownMsg) => Kept(toClient, toClient, Positive)
    BY KeptSame
<1>5. Among(tunnels, tunnels)
    BY DEF Among
<1>6. Inv => toClient \in Seq(DownMsg)
    BY DEF Inv, Types, WireOK
<1>7. ASSUME Inv, Inv', InStep, ServerIgnores PROVE InStep'
    <2>1. /\ toServer # <<>> /\ toServer' \in Remaining(toServer) /\ ServerStep
          /\ UNCHANGED <<delivered, confirmed, toClient, tunnels>>
        BY <1>7 DEF ServerIgnores, ServerReads, ServerStep, client, Remaining
    <2> QED
        BY <1>4, <1>5, <1>6, <1>7, <2>1, ServerQuiet
<1>8. ASSUME Inv, Inv', InStep, LoseToServer PROVE InStep'
    <2>1. /\ toServer # <<>> /\ toServer' \in Remaining(toServer) /\ ServerStep
          /\ UNCHANGED <<delivered, confirmed, toClient, tunnels>>
        BY <1>8 DEF LoseToServer, ServerStep, client, server, seen, Remaining
    <2> QED
        BY <1>4, <1>5, <1>6, <1>8, <2>1, ServerQuiet
<1>9. ASSUME Inv, Inv', InStep, LoseToClient PROVE InStep'
    <2>1. /\ toClient # <<>> /\ toClient' \in Remaining(toClient) /\ ServerStep
          /\ UNCHANGED <<delivered, confirmed, toServer, tunnels>>
        BY <1>9 DEF LoseToClient, ServerStep, client, server, seen, Remaining
    <2>2. Kept(toClient', toClient, Positive)
        BY <1>6, <1>9, <2>1, KeptRemaining
    <2> QED
        BY <1>5, <1>9, <2>1, <2>2, ServerQuiet
<1> QED
    BY <1>1, <1>2, <1>3, <1>7, <1>8, <1>9

\* Neither of the queues of a tunnel tells it apart.
LEMMA QueueFacts ==
    ASSUME NEW t \in Tunnel, NEW f
    PROVE  LET u == pump(enqueue(t, f)) IN
           u.channel_id = t.channel_id /\ u.data_addr = t.data_addr /\ u.recv_seq = t.recv_seq
<1> DEFINE v == enqueue(t, f)
<1>1. /\ v.channel_id = t.channel_id /\ v.data_addr = t.data_addr /\ v.recv_seq = t.recv_seq
      /\ v = [x \in DOMAIN t |-> v[x]] /\ DOMAIN v = DOMAIN t
      /\ {"channel_id", "data_addr", "recv_seq", "outbox", "in_flight"} \subseteq DOMAIN t
    BY DEF enqueue, Tunnel
<1> HIDE DEF v
<1>2. LET u == pump(v) IN
      u.channel_id = v.channel_id /\ u.data_addr = v.data_addr /\ u.recv_seq = v.recv_seq
    BY <1>1 DEF pump
<1> QED
    BY <1>1, <1>2 DEF v

LEMMA InitiativeInStep ==
    Inv /\ Inv' /\ InStep
    /\ (ServerIndicates \/ ServerExpires \/ ServerCleansUp \/ ServerTick) => InStep'
<1>0. Inv => tunnels \in SUBSET Tunnel /\ toClient \in Seq(DownMsg) /\ Transmission(<<>>)
    BY DEF Inv, Types, TunnelSet, WireOK, Transmission
<1>1. ASSUME Inv, Inv', InStep, ServerIndicates PROVE InStep'
    <2> DEFINE F(t) == deliver(t, [code |-> "req", content |-> indicated + 1])
               current == {t \in tunnels : t.data_addr = session.port}
               out == Outgoing(current, F)
    <2>1. /\ ServerStep /\ UNCHANGED <<delivered, confirmed, toServer>>
          /\ toClient' = Put(toClient, out) /\ tunnels' = {F(t) : t \in tunnels}
        BY <1>1 DEF ServerIndicates, ServerInitiates, ServerStep, client, seen
    <2>2. Transmission(out)
        BY DEF Transmission, Outgoing, Request
    <2>3. Among(tunnels', tunnels)
        <3>1. ASSUME NEW t \in tunnels
              PROVE  /\ t.channel_id = F(t).channel_id /\ t.data_addr = F(t).data_addr
                     /\ t.recv_seq = F(t).recv_seq
            BY <1>0, <1>1, QueueFacts DEF deliver
        <3> QED
            BY <2>1, <3>1 DEF Among
    <2> HIDE DEF out
    <2> QED
        BY <1>1, <2>1, <2>2, <2>3, TransmissionKept, ServerQuiet
<1>2. ASSUME Inv, Inv', InStep, ServerExpires PROVE InStep'
    <2> DEFINE kept == {t \in tunnels : ~ lost(t)}
               current == {t \in kept : t.data_addr = session.port}
               gone == {t \in tunnels \ kept : t.data_addr = session.port}
               out == Outgoing(current, repeat)
               b == CHOOSE t \in gone : TRUE
               d == Down("DisconnectRequest", b.ctrl_addr, b.channel_id, 0, "")
    <2>1. /\ ServerStep /\ UNCHANGED <<delivered, confirmed, toServer>>
          /\ toClient' = Put(toClient, out \o IF gone = {} THEN <<>> ELSE <<d>>)
          /\ tunnels' = {repeat(t) : t \in kept}
        BY <1>2 DEF ServerExpires, ServerInitiates, ServerStep, client, seen
    <2>2. Transmission(out)
        BY DEF Transmission, Outgoing, Request
    <2>3. Among(tunnels', tunnels)
        <3>1. \A t \in tunnels : Queued(repeat(t), t)
            BY <1>0, <1>2, RepeatGood
        <3>2. \A u \in tunnels' : \E t \in tunnels : u = repeat(t)
            BY <2>1
        <3> HIDE DEF kept
        <3> QED
            BY <3>1, <3>2 DEF Among, Queued
    <2>4. gone # {} => d \in DownMsg /\ d \notin Positive
        <3>1. gone # {} => b.ctrl_addr \in Addr /\ b.channel_id \in 0 .. MAX_CHANNEL
            BY <1>0, <1>2, TunnelFacts DEF Channel
        <3>2. d.type = "DisconnectRequest"
            BY DEF Down
        <3> HIDE DEF b, gone
        <3> QED
            BY <3>1, <3>2, ZeroSeq, AnswerIsMsg DEF Positive
    <2> HIDE DEF out, d, gone
    <2>5. Kept(toClient', toClient, Positive)
        BY <1>2, <2>1, <2>2, <2>4, TransmissionKept
    <2> QED
        BY <1>2, <2>1, <2>3, <2>5, ServerQuiet
<1>3. ASSUME Inv, Inv', InStep, ServerCleansUp PROVE InStep'
    <2>1. /\ ServerStep /\ UNCHANGED <<delivered, confirmed, toServer>>
          /\ toClient' = Put(toClient, <<>>) /\ tunnels' \subseteq tunnels
        BY <1>3 DEF ServerCleansUp, ServerInitiates, ServerStep, client, seen
    <2>2. Among(tunnels', tunnels)
        BY <2>1 DEF Among
    <2> QED
        BY <1>0, <1>3, <2>1, <2>2, TransmissionKept, ServerQuiet
<1>4. ASSUME Inv, Inv', InStep, ServerTick PROVE InStep'
    <2>1. /\ ServerStep /\ UNCHANGED <<delivered, confirmed, toServer>>
          /\ toClient' = Put(toClient, <<>>) /\ tunnels' = {elapse(t) : t \in tunnels}
        BY <1>4 DEF ServerTick, ServerInitiates, ServerStep, client, seen
    <2>2. Among(tunnels', tunnels)
        <3>1. \A t \in tunnels : Queued(elapse(t), t)
            BY <1>0, <1>4, ElapseGood
        <3> QED
            BY <2>1, <3>1 DEF Among, Queued
    <2> QED
        BY <1>0, <1>4, <2>1, <2>2, TransmissionKept, ServerQuiet
<1> QED
    BY <1>1, <1>2, <1>3, <1>4

\* A tunnel that is opened is new: its client has sent nothing over it yet.
LEMMA ConnectsInStep == Inv /\ Inv' /\ InStep /\ ServerConnects => InStep'
<1> SUFFICES ASSUME Inv, Inv', InStep, ServerConnects PROVE InStep'
    OBVIOUS
<1> DEFINE id == free_channel(next_channel_id, {t.channel_id : t \in tunnels})
           refusal == Down("ConnectResponse", arrived.port, 0, 0, "E_NO_MORE_CONNECTIONS")
           opened == Down("ConnectResponse", arrived.port, id, 0, "E_NO_ERROR")
           u == new(id, arrived.port, arrived.port)
<1>1. /\ toServer # <<>> /\ ServerStep /\ UNCHANGED <<delivered, confirmed>>
      /\ arrived.type = "ConnectRequest"
    BY DEF ServerConnects, ServerReads, ServerStep, client, arrived
<1>2. /\ arrived.port \in Addr /\ arrived = toServer[1] /\ 1 \in DOMAIN toServer
      /\ IsConnect(toServer[1]) /\ arrived.payload \in Nat
    BY <1>1, ArrivedFacts DEF IsConnect
<1>3. \/ ServerSends(<<refusal>>) /\ tunnels' = tunnels
      \/ /\ Cardinality(tunnels) < MAX_TUNNELS /\ ServerSends(<<opened>>)
         /\ tunnels' = tunnels \cup {u}
    <2>1. Cardinality(tunnels) \in Nat
        BY FS_CardinalityType DEF Inv, Types, TunnelSet
    <2> QED
        BY <2>1, ServerAssumption DEF ServerConnects
<1>4. CASE ServerSends(<<refusal>>) /\ tunnels' = tunnels
    <2>1. refusal \in DownMsg /\ refusal \notin Positive /\ Transmission(<<>>)
        <3>1. 0 \in 0 .. MAX_CHANNEL /\ refusal.type = "ConnectResponse"
            BY ChannelAssumption DEF Down
        <3> QED
            BY <1>2, <3>1, ZeroSeq, AnswerIsMsg DEF Positive, Transmission
    <2>2. Among(tunnels', tunnels)
        BY <1>4 DEF Among
    <2> HIDE DEF refusal
    <2> QED
        BY <1>1, <1>4, <2>1, <2>2, SentKept, ServerQuiet
<1>5. CASE /\ Cardinality(tunnels) < MAX_TUNNELS /\ ServerSends(<<opened>>)
           /\ tunnels' = tunnels \cup {u}
    <2>1. id \in Channel
        BY <1>5, ChannelToSpare DEF Inv, Types
    <2> HIDE DEF id
    <2>2. opened \in DownMsg /\ opened \notin Positive /\ Transmission(<<>>)
        <3>1. id \in 0 .. MAX_CHANNEL /\ opened.type = "ConnectResponse"
            BY <2>1 DEF Channel, Down
        <3> QED
            BY <1>2, <3>1, ZeroSeq, AnswerIsMsg DEF Positive, Transmission
    <2>3. u.recv_seq = 0 /\ u.data_addr = arrived.port
        BY DEF new
    <2> HIDE DEF opened, u
    <2>4. /\ Kept(toClient', toClient, Positive) /\ toServer' \in Remaining(toServer)
        BY <1>5, <2>2, SentKept
    <2>5. /\ toServer \in Seq(UpMsg) /\ toServer' \in Seq(UpMsg) /\ toClient' \in Seq(DownMsg)
          /\ DOMAIN toClient \subseteq Nat /\ Latest \in Nat /\ Latest <= Latest
          /\ Latest' = Latest /\ offered \in Nat
          /\ UpInv(toServer, tunnels, Latest, offered, caller, request)
        <3>1. Types /\ Types'
            BY DEF Inv
        <3>2. /\ toServer \in Seq(UpMsg) /\ toServer' \in Seq(UpMsg)
              /\ toClient' \in Seq(DownMsg)
            BY <3>1 DEF Types, UpWire, WireOK
        <3> QED
            BY <1>1, <3>1, <3>2, WireDomains DEF Inv, Uplink, Latest
    <2>6. Kept(toServer', toServer, Matters)
        BY <1>1, <2>4, <2>5, KeptRemaining
    <2>7. Among(tunnels', tunnels')
        BY DEF Among
    <2>8. ASSUME Connected
          PROVE  InSession(toServer', toClient', tunnels', session, Serving, Got', Latest', request)
        <3>1. InSession(toServer, toClient, tunnels, session, Serving, Got, Latest, request)
            BY <2>8 DEF InStep
        <3>2. arrived.port = session.port => session.send_seq = 0 /\ ~ Got
            <4>1. arrived.port = session.port => session.send_seq = 0
                BY <1>2, <3>1 DEF InSession, Unused
            <4>2. (arrived.port = session.port /\ Serving) => Latest < request.payload
                <5>1. request.port = session.port
                    BY DEF request, Up
                <5> QED
                    BY <1>2, <2>5, <5>1 DEF UpInv, Served, Serving
            <4>3. request.payload = offered
                BY DEF request, Up
            <4> QED
                BY <2>5, <4>1, <4>2, <4>3 DEF Got
        <3>3. Expected(tunnels', session, Got)
            BY <1>5, <2>3, <3>1, <3>2 DEF InSession, Expected
        <3>4. InSession(toServer, toClient, tunnels', session, Serving, Got, Latest, request)
            BY <3>1, <3>3 DEF InSession
        <3>5. Got' = Got
            BY <1>1, <2>5 DEF Got, Serving, ServerStep
        <3> QED
            BY <2>4, <2>5, <2>6, <2>7, <3>4, <3>5, SessionKept
    <2>9. ASSUME task = "await_connect"
          PROVE  Opened(toServer', toClient', tunnels', session.port)
        <3>1. Opened(toServer, toClient, tunnels', session.port)
            BY <1>5, <2>3, <2>9 DEF InStep, Opened
        <3> QED
            BY <2>4, <2>5, <2>6, <2>7, <3>1, OpenedKept
    <2> QED
        BY <1>1, <1>2, <2>8, <2>9, ServerInStep
<1> QED
    BY <1>3, <1>4, <1>5

\* The tunnels after a request: the one it belongs to expects the next.
LEMMA TakenTunnels ==
    ASSUME Inv, ServerTakes, NEW u \in tunnels'
    PROVE  \E t \in tunnels :
              /\ t.channel_id = u.channel_id /\ t.data_addr = u.data_addr
              /\ u.recv_seq = IF Matches(t, arrived) /\ t.recv_seq = arrived.seq
                              THEN wrapping_inc(t.recv_seq) ELSE t.recv_seq
<1> DEFINE frame == [code |-> "req", content |-> arrived.payload]
           F(t) == take(t, arrived.seq, frame)
<1>1. /\ tunnels' = {IF t \in mine THEN F(t) ELSE t : t \in tunnels}
      /\ tunnels \in SUBSET Tunnel
      /\ \A t \in tunnels : (t \in mine) <=> Matches(t, arrived)
    BY DEF ServerTakes, Update, Inv, Types, TunnelSet, mine, Matches
<1>2. PICK t \in tunnels : u = IF t \in mine THEN F(t) ELSE t
    BY <1>1
<1>3. CASE t \in mine /\ is_expected(t, arrived.seq)
    <2> DEFINE v == [t EXCEPT !.recv_seq = wrapping_inc(@)]
    <2>1. wrapping_inc(t.recv_seq) \in Seqno /\ t \in Tunnel
        BY <1>1, TunnelFacts, NextSeqno
    <2>2. /\ v \in Tunnel /\ v.channel_id = t.channel_id /\ v.data_addr = t.data_addr
          /\ v.recv_seq = wrapping_inc(t.recv_seq)
        BY <2>1 DEF Tunnel
    <2>3. F(t) = pump(enqueue(v, confirmation_of(frame)))
        BY <1>3 DEF take
    <2> HIDE DEF v, F
    <2>4. /\ F(t).channel_id = t.channel_id /\ F(t).data_addr = t.data_addr
          /\ F(t).recv_seq = wrapping_inc(t.recv_seq)
        BY <2>2, <2>3, QueueFacts
    <2> QED
        BY <1>1, <1>2, <1>3, <2>4 DEF is_expected
<1>4. CASE ~ (t \in mine /\ is_expected(t, arrived.seq))
    <2>1. u = t
        BY <1>2, <1>4 DEF take
    <2> QED
        BY <1>1, <1>4, <2>1 DEF is_expected
<1> QED
    BY <1>3, <1>4

\* An acknowledgement joins those on their way.
LEMMA AckAdded ==
    ASSUME NEW v \in Seq(DownMsg), Len(v) <= MaxOnWire, NEW d \in DownMsg,
           NEW out, Transmission(out), NEW s, NEW got, NEW got2, Acknowledged(v, s, got),
           \/ ~ got /\ wrapping_inc(d.seq) = s.send_seq
           \/ got2 /\ d.seq = s.send_seq
    PROVE  Acknowledged(Put(v, <<d>> \o out), s, got2)
<1> DEFINE v2 == Put(v, <<d>> \o out)
<1>1. \A i \in DOMAIN v2 : Accepts(v2[i], s.channel_id) =>
          \/ i \in DOMAIN v /\ v2[i] = v[i]
          \/ i = Len(v) + 1 /\ v2[i] = d
    BY AnswerPut DEF Transmission, Accepts
<1>2. DOMAIN v = 1 .. Len(v) /\ Len(v) \in Nat
    OBVIOUS
<1> HIDE DEF v2
<1> SUFFICES ASSUME NEW i \in DOMAIN v2, Accepts(v2[i], s.channel_id)
             PROVE  \/ wrapping_inc(v2[i].seq) = s.send_seq
                    \/ /\ got2 /\ v2[i].seq = s.send_seq
                       /\ \A k \in DOMAIN v2 : (i < k /\ Accepts(v2[k], s.channel_id)) =>
                             v2[k].seq = s.send_seq
    BY DEF Acknowledged, v2
<1>3. CASE i = Len(v) + 1 /\ v2[i] = d
    <2>1. \A k \in DOMAIN v2 : ~ (i < k /\ Accepts(v2[k], s.channel_id))
        BY <1>1, <1>2, <1>3
    <2>2. CASE got2 /\ d.seq = s.send_seq
        BY <1>3, <2>1, <2>2
    <2> QED
        BY <1>3, <2>2
<1>4. CASE i \in DOMAIN v /\ v2[i] = v[i]
    <2>1. CASE wrapping_inc(v[i].seq) = s.send_seq
        BY <1>4, <2>1
    <2>2. CASE /\ got /\ v[i].seq = s.send_seq
               /\ \A k \in DOMAIN v : (i < k /\ Accepts(v[k], s.channel_id)) =>
                     v[k].seq = s.send_seq
        <3>1. \A k \in DOMAIN v2 : (i < k /\ Accepts(v2[k], s.channel_id)) =>
                  v2[k].seq = s.send_seq
            BY <1>1, <2>2
        <3> QED
            BY <1>4, <2>2, <3>1
    <2> QED
        BY <1>4, <2>1, <2>2 DEF Acknowledged
<1> QED
    BY <1>1, <1>3, <1>4

\* What every request that is read makes of what was delivered.
LEMMA TakenFacts ==
    ASSUME Inv, ServerTakes
    PROVE  \/ /\ \E t \in mine : is_expected(t, arrived.seq)
              /\ delivered' = Append(delivered, arrived.payload)
              /\ Latest < arrived.payload /\ arrived.payload <= offered
              /\ Latest' = arrived.payload
           \/ /\ ~ \E t \in mine : is_expected(t, arrived.seq)
              /\ delivered' = delivered /\ Latest' = Latest
              /\ Among(tunnels', tunnels)
<1>1. delivered \in Seq(Nat) /\ arrived.payload \in Nat
    BY ArrivedFacts DEF Inv, Types, ServerTakes, ServerReads
<1>2. CASE \E t \in mine : is_expected(t, arrived.seq)
    <2>1. /\ delivered' = Append(delivered, arrived.payload)
          /\ Latest < arrived.payload /\ arrived.payload <= offered
        BY <1>2, TakesKeeps
    <2>2. Latest' = arrived.payload
        BY <1>1, <2>1, LastFacts DEF Latest
    <2> QED
        BY <1>2, <2>1, <2>2
<1>3. CASE ~ \E t \in mine : is_expected(t, arrived.seq)
    <2>1. delivered' = delivered /\ Latest' = Latest
        BY <1>3, RefusesKeeps DEF Latest
    <2>2. \A t \in tunnels : Matches(t, arrived) => t.recv_seq # arrived.seq
        BY <1>3 DEF mine, Matches, is_expected
    <2>3. Among(tunnels', tunnels)
        BY <2>2, TakenTunnels DEF Among
    <2> QED
        BY <1>3, <2>1, <2>3
<1> QED
    BY <1>2, <1>3

\* What is known of a request that the server reads.
LEMMA RequestRead ==
    ASSUME Inv, ServerTakes
    PROVE  /\ toServer # <<>> /\ ServerStep /\ UNCHANGED confirmed
           /\ toServer \in Seq(UpMsg) /\ toServer' \in Remaining(toServer)
           /\ toClient \in Seq(DownMsg) /\ Len(toClient) <= MaxOnWire
           /\ DOMAIN toClient \subseteq Nat
           /\ arrived = toServer[1] /\ 1 \in DOMAIN toServer /\ IsRequest(arrived)
           /\ arrived.seq \in Seqno /\ arrived.payload \in Nat
           /\ Latest \in Nat /\ offered \in Nat /\ session.send_seq \in Seqno
           /\ UpInv(toServer, tunnels, Latest, offered, caller, request)
           /\ request.payload = offered /\ request.port = session.port
           /\ request.channel = session.channel_id /\ request.seq = session.send_seq
<1>1. /\ toServer # <<>> /\ ServerStep /\ UNCHANGED confirmed /\ toServer' \in Remaining(toServer)
      /\ arrived.type = "TunnelingRequest"
    BY DEF ServerTakes, ServerReads, ServerSends, ServerStep, client, arrived
<1>2. /\ arrived = toServer[1] /\ 1 \in DOMAIN toServer /\ arrived.payload \in Nat
      /\ arrived.seq \in Seqno /\ IsRequest(arrived)
    BY <1>1, ArrivedFacts DEF IsRequest
<1>3. /\ toServer \in Seq(UpMsg) /\ toClient \in Seq(DownMsg) /\ Len(toClient) <= MaxOnWire
      /\ DOMAIN toClient \subseteq Nat /\ Latest \in Nat /\ offered \in Nat
    BY WireDomains DEF Inv
<1>4. /\ request.payload = offered /\ request.port = session.port
      /\ request.channel = session.channel_id /\ request.seq = session.send_seq
    BY DEF request, Up
<1>5. session.send_seq \in Seqno /\ UpInv(toServer, tunnels, Latest, offered, caller, request)
    BY DEF Inv, Types, Uplink, Session
<1> QED
    BY <1>1, <1>2, <1>3, <1>4, <1>5

\* A request that comes from another socket is none of the session's.
LEMMA OtherInStep ==
    ASSUME Inv, Inv', InStep, ServerTakes, arrived.port # session.port
    PROVE  InStep'
<1>1. toClient' = toClient
    BY DEF ServerTakes, ServerSends, arrived
<1>2. \A u \in tunnels' : u.data_addr = session.port =>
          \E t \in tunnels : /\ t.channel_id = u.channel_id /\ t.data_addr = u.data_addr
                             /\ t.recv_seq = u.recv_seq
    BY TakenTunnels DEF Matches
<1>3. Kept(toServer', toServer, Matters) /\ Kept(toClient', toClient, Positive)
    BY <1>1, RequestRead, KeptRemaining, KeptSame
<1>4. Latest \in Nat /\ Latest' \in Nat /\ Latest <= Latest' /\ Got' = Got
    <2>1. CASE Latest' = Latest
        BY <2>1, RequestRead DEF Got, Serving, ServerStep
    <2>2. CASE Latest < arrived.payload /\ arrived.payload <= offered /\ Latest' = arrived.payload
        <3>1. Latest \in Nat /\ Latest' \in Nat /\ Latest <= Latest' /\ Latest # offered
            BY <2>2, RequestRead
        <3>2. Serving => arrived.payload < offered
            BY RequestRead DEF UpInv, Served, NotBefore, Serving
        <3>3. Serving => Latest' # offered' /\ offered' = offered
            BY <2>2, <3>1, <3>2, RequestRead DEF ServerStep
        <3> QED
            BY <3>1, <3>3, RequestRead DEF Got, Serving, ServerStep
    <2> QED
        BY <2>1, <2>2, TakenFacts
<1>5. toServer' \in Seq(UpMsg) /\ toClient' \in Seq(DownMsg) /\ Among(tunnels', tunnels')
    BY DEF Inv, Types, UpWire, WireOK, Among
<1>6. ASSUME Connected
      PROVE  InSession(toServer', toClient', tunnels', session, Serving, Got', Latest', request)
    <2>1. InSession(toServer, toClient, tunnels, session, Serving, Got, Latest, request)
        BY <1>6 DEF InStep
    <2>2. InSession(toServer, toClient, tunnels', session, Serving, Got, Latest, request)
        BY <1>2, <2>1 DEF InSession, Expected
    <2> QED
        BY <1>3, <1>4, <1>5, <2>2, RequestRead, SessionKept
<1>7. ASSUME task = "await_connect"
      PROVE  Opened(toServer', toClient', tunnels', session.port)
    <2>1. Opened(toServer, toClient, tunnels', session.port)
        BY <1>2, <1>7 DEF InStep, Opened
    <2> QED
        BY <1>3, <1>5, <2>1, OpenedKept
<1> QED
    BY <1>6, <1>7, RequestRead, TakenFacts, ServerInStep

\* A request of the session is the one being served, and is delivered now or was
\* before, or it is an old one, and acknowledged again.
LEMMA OwnInStep ==
    ASSUME Inv, Inv', InStep, ServerTakes, arrived.port = session.port
    PROVE  InStep'
<1> DEFINE F(t) == take(t, arrived.seq, [code |-> "req", content |-> arrived.payload])
           out == Outgoing(mine, F)
           status == IF mine = {} THEN "E_CONNECTION_ID" ELSE "E_NO_ERROR"
           d == Down("TunnelingAck", arrived.port, arrived.channel, arrived.seq, status)
<1>1. /\ Transmission(out) /\ toClient' = Put(toClient, <<d>> \o out)
    BY DEF ServerTakes, ServerSends, arrived, Transmission, Outgoing, Request
<1>2. d \in DownMsg /\ d.seq = arrived.seq /\ (mine = {} => d \notin Positive)
    <2>1. /\ d.seq = arrived.seq /\ d.status = status
        BY DEF Down
    <2>2. mine = {} => d \notin Positive
        BY <2>1 DEF Positive
    <2>3. d \in DownMsg
        BY RequestRead, ArrivedFacts, AnswerIsMsg
    <2> QED
        BY <2>1, <2>2, <2>3
<1> HIDE DEF F, out, d
<1>3. /\ toServer' \in Seq(UpMsg) /\ toClient' \in Seq(DownMsg) /\ Among(tunnels', tunnels')
      /\ Kept(toServer', toServer, Matters) /\ Kept(toClient', toClient', Positive)
      /\ DOMAIN toClient' \subseteq Nat
    <2>1. toServer' \in Seq(UpMsg) /\ toClient' \in Seq(DownMsg) /\ Among(tunnels', tunnels')
        BY DEF Inv, Types, UpWire, WireOK, Among
    <2>2. DOMAIN toClient' \subseteq Nat
        <3>1. \A s \in Seq(DownMsg) : DOMAIN s \subseteq Nat
            OBVIOUS
        <3> QED
            BY <2>1, <3>1
    <2> QED
        BY <2>1, <2>2, RequestRead, KeptRemaining, KeptSame
<1>4. task # "await_connect"
    BY RequestRead DEF InStep, Opened
<1>5. CASE ~ Connected
    BY <1>4, <1>5, RequestRead, TakenFacts, ServerInStep
<1>6. CASE mine = {}
    <2>1. delivered' = delivered /\ Among(tunnels', tunnels)
        BY <1>6, TakenFacts
    <2>2. Kept(toClient', toClient, Positive)
        BY <1>1, <1>2, <1>6, TransmissionKept
    <2> QED
        BY <2>1, <2>2, RequestRead, ServerQuiet
<1>7. CASE Connected /\ mine # {}
    <2>1. InSession(toServer, toClient, tunnels, session, Serving, Got, Latest, request)
        BY <1>7 DEF InStep
    <2>2. Unused(toServer, toClient', session)
        <3>1. \A i \in DOMAIN toServer : ~ (i < 1)
            BY RequestRead
        <3>2. \A i \in DOMAIN toServer : ~ (IsConnect(toServer[i]) /\ toServer[i].port = session.port)
            BY <3>1, RequestRead DEF UpInv, ConnectsFirst
        <3> QED
            BY <3>2 DEF Unused
    <2>3. /\ Latest' \in Nat /\ Latest <= Latest'
          /\ Expected(tunnels', session, Got') /\ Acknowledged(toClient', session, Got')
        <3>1. CASE Serving /\ arrived = request
            <4>1. \A t \in tunnels : Matches(t, arrived) =>
                      t.recv_seq = IF Got THEN wrapping_inc(session.send_seq) ELSE session.send_seq
                BY <2>1, <3>1, RequestRead DEF InSession, Expected, Matches
            <4>2. wrapping_inc(session.send_seq) # session.send_seq
                BY RequestRead, NextSeqno
            <4>3. Got' /\ Latest' \in Nat /\ Latest <= Latest'
                <5>1. CASE Got
                    <6>1. ~ \E t \in mine : is_expected(t, arrived.seq)
                        BY <3>1, <4>1, <4>2, <5>1, RequestRead DEF mine, Matches, is_expected
                    <6> QED
                        BY <5>1, <6>1, RequestRead, TakenFacts DEF Got, Serving, ServerStep
                <5>2. CASE ~ Got
                    <6>1. \E t \in mine : is_expected(t, arrived.seq)
                        BY <1>7, <3>1, <4>1, <5>2, RequestRead DEF mine, Matches, is_expected
                    <6>2. Latest < arrived.payload /\ Latest' = arrived.payload
                        BY <6>1, TakenFacts
                    <6> QED
                        BY <3>1, <6>2, RequestRead DEF Got, Serving, ServerStep
                <5> QED
                    BY <5>1, <5>2
            <4>4. \A u \in tunnels' : (u.data_addr = session.port /\ u.channel_id = session.channel_id)
                      => u.recv_seq = wrapping_inc(session.send_seq)
                <5> SUFFICES ASSUME NEW u \in tunnels', u.data_addr = session.port,
                                    u.channel_id = session.channel_id
                             PROVE  u.recv_seq = wrapping_inc(session.send_seq)
                    OBVIOUS
                <5>1. PICK t \in tunnels :
                          /\ t.channel_id = u.channel_id /\ t.data_addr = u.data_addr
                          /\ u.recv_seq = IF Matches(t, arrived) /\ t.recv_seq = arrived.seq
                                          THEN wrapping_inc(t.recv_seq) ELSE t.recv_seq
                    BY TakenTunnels
                <5>2. Matches(t, arrived) /\ arrived.seq = session.send_seq
                    BY <3>1, <5>1, RequestRead DEF Matches
                <5> QED
                    BY <4>1, <4>2, <5>1, <5>2
            <4>5. Expected(tunnels', session, Got')
                BY <4>3, <4>4 DEF Expected
            <4>6. Acknowledged(toClient', session, Got')
                <5>1. d.seq = session.send_seq
                    BY <1>2, <3>1, RequestRead
                <5> QED
                    BY <1>1, <1>2, <2>1, <4>3, <5>1, RequestRead, AckAdded DEF InSession
            <4> QED
                BY <4>3, <4>5, <4>6
        <3>2. CASE ~ (Serving /\ arrived = request)
            <4>1. arrived.payload <= Latest /\ wrapping_inc(arrived.seq) = session.send_seq
                BY <2>1, <3>2, RequestRead DEF InSession, Numbered
            <4>2. /\ delivered' = delivered /\ Latest' = Latest /\ Among(tunnels', tunnels)
                BY <4>1, RequestRead, TakenFacts
            <4>3. ~ Got
                BY <3>2, OnlyServed, RequestRead DEF Got
            <4>4. ~ Got'
                BY <4>2, <4>3, RequestRead DEF Got, Serving, ServerStep
            <4>5. Expected(tunnels', session, Got')
                BY <2>1, <4>2, <4>3, <4>4, ExpectedKept DEF InSession, Expected
            <4>6. Acknowledged(toClient', session, Got')
                BY <1>1, <1>2, <2>1, <4>1, <4>3, RequestRead, AckAdded DEF InSession
            <4> QED
                BY <4>2, <4>5, <4>6, RequestRead
        <3> QED
            BY <3>1, <3>2
    <2>4. InSession(toServer, toClient', tunnels', session, Serving, Got', Latest, request)
        BY <2>1, <2>2, <2>3 DEF InSession
    <2>5. InSession(toServer', toClient', tunnels', session, Serving, Got', Latest', request)
        BY <1>3, <2>3, <2>4, RequestRead, SessionKept
    <2> QED
        BY <1>4, <2>5, RequestRead, TakenFacts, ServerInStep
<1> QED
    BY <1>5, <1>6, <1>7

-----------------------------------------------------------------------------
(* The promise to the application.                                          *)

LEMMA InitInStep == Init => InStep
<1> SUFFICES ASSUME Init PROVE InStep
    OBVIOUS
<1>1. DOMAIN <<>> = {}
    OBVIOUS
<1>2. ~ Serving /\ Got = FALSE
    BY DEF Init, Serving, Got
<1>3. Expected(tunnels, session, Got)
    BY <1>2 DEF Init, Expected, new, fresh
<1>4. InSession(toServer, toClient, tunnels, session, Serving, Got, Latest, request)
    BY <1>1, <1>3 DEF Init, InSession, Numbered, Acknowledged, Unused
<1> QED
    BY <1>2, <1>4 DEF Init, InStep

LEMMA NextInStep ==
    ASSUME auto_reconnect
    PROVE  Inv /\ InStep /\ [Next]_vars => InStep'
<1> SUFFICES ASSUME Inv, InStep, [Next]_vars PROVE InStep'
    OBVIOUS
<1>0. Inv'
    BY NextInv
<1>1. CASE ClientTask
    BY <1>0, <1>1, QuietInStep, RequestInStep, HandOverInStep, StartInStep, TimeoutInStep,
       AckInStep, EstablishInStep, ResponseInStep DEF ClientTask
<1>2. CASE ServerTask
    BY <1>0, <1>2, AnswersInStep, InitiativeInStep, ConnectsInStep, OtherInStep, OwnInStep
       DEF ServerTask
<1>3. CASE UNCHANGED vars
    <2>1. UNCHANGED <<task, session, caller, tunnels, toServer, toClient, offered, confirmed,
                      delivered>>
        BY <1>3 DEF vars, client, server, seen
    <2>2. UNCHANGED <<Latest, Connected, Serving, Got, request, Promise!Arrived>>
        BY <2>1 DEF Latest, Connected, Serving, Got, request, Up, Promise!Arrived
    <2> QED
        BY <2>1, <2>2 DEF InStep
<1> QED
    BY <1>0, <1>1, <1>2, <1>3, ApplicationInStep, AnswersInStep DEF Next

\* What a step is to the applications of a client that reconnects.
LEMMA StepPromised ==
    ASSUME auto_reconnect
    PROVE  Inv /\ InStep /\ [Next]_vars => [Promise!Next]_(Promise!vars)
<1> SUFFICES ASSUME Inv, InStep, [Next]_vars PROVE [Promise!Next]_(Promise!vars)
    OBVIOUS
<1> DEFINE hidden == UNCHANGED <<offered, confirmed, delivered>>
<1>1. hidden => [Promise!Next]_(Promise!vars)
    BY DEF Promise!vars
<1>2. CASE AppSends
    BY <1>2 DEF AppSends, Promise!Next, Promise!Offer
<1>3. CASE ServerTakes
    <2>1. UNCHANGED <<offered, confirmed>>
        BY <1>3 DEF ServerTakes, ServerReads
    <2>2. CASE delivered' = delivered
        BY <1>1, <2>1, <2>2
    <2>3. CASE /\ delivered' = Append(delivered, arrived.payload)
               /\ Latest < arrived.payload /\ arrived.payload <= offered
        <3>1. /\ Latest \in Nat /\ arrived.payload \in Nat /\ offered \in Nat
              /\ delivered \in Seq(Nat) /\ \A i \in DOMAIN delivered : delivered[i] <= Latest
            BY <1>3, RequestRead DEF Inv, Types, Uplink
        <3>2. arrived.payload \in 1 .. offered
            BY <2>3, <3>1
        <3>3. \A p \in Promise!Arrived : p < arrived.payload
            <4>1. \A i \in DOMAIN delivered : delivered[i] \in Nat
                BY <3>1
            <4> QED
                BY <2>3, <3>1, <4>1 DEF Promise!Arrived
        <3> QED
            BY <2>1, <2>3, <3>2, <3>3 DEF Promise!Next, Promise!Deliver
    <2> QED
        BY <1>3, <2>2, <2>3, TakenFacts
<1>4. CASE ReadAck
    <2>1. UNCHANGED <<offered, delivered>>
        BY <1>4 DEF ReadAck, Reads
    <2>2. CASE confirmed' = confirmed
        BY <1>1, <2>1, <2>2
    <2>3. CASE datagram.status = "E_NO_ERROR" /\ confirmed' = confirmed \cup {offered}
        <3>1. offered \in Promise!Arrived
            BY <1>4, <2>3, AckedIsTaken
        <3> QED
            BY <2>1, <2>3, <3>1 DEF Promise!Next, Promise!Confirm
    <2> QED
        BY <1>4, <2>2, <2>3 DEF ReadAck, reply
<1>5. CASE ClientTask /\ ~ ReadAck
    <2>1. CASE StartSend \/ StartHeartbeat \/ HeartbeatTimeout \/ Close
        BY <1>1, <2>1 DEF StartSend, StartHeartbeat, HeartbeatTimeout, Close, seen
    <2>2. CASE AckTimeout \/ SocketError
        BY <1>1, <2>2, FailedSend DEF AckTimeout, SocketError
    <2>3. CASE ReadTunnelingRequest \/ ReadDisconnectRequest \/ ReadStateResponse
               \/ ReadIgnored \/ ReadConnectResponse
        BY <1>1, <2>3 DEF ReadTunnelingRequest, ReadDisconnectRequest, ReadStateResponse,
                          ReadIgnored, ReadConnectResponse, Reads
    <2>4. CASE HandOver \/ RejectCall \/ Establish \/ ConnectTimeout
        BY <1>1, <2>4 DEF HandOver, RejectCall, Establish, ConnectTimeout, seen
    <2> QED
        BY <1>5, <2>1, <2>2, <2>3, <2>4 DEF ClientTask
<1>6. CASE ServerTask /\ ~ ServerTakes
    <2>1. CASE ServerConnects \/ ServerIsAcknowledged \/ ServerAnswersHeartbeat
               \/ ServerDisconnects \/ ServerIgnores
        BY <1>1, <2>1 DEF ServerConnects, ServerIsAcknowledged, ServerAnswersHeartbeat,
                          ServerDisconnects, ServerIgnores, ServerReads
    <2>2. CASE ServerIndicates \/ ServerExpires \/ ServerCleansUp \/ ServerTick
        BY <1>1, <2>2 DEF ServerIndicates, ServerExpires, ServerCleansUp, ServerTick,
                          ServerInitiates, seen
    <2> QED
        BY <1>6, <2>1, <2>2 DEF ServerTask
<1>7. CASE AppReceives \/ LoseToServer \/ LoseToClient \/ UNCHANGED vars
    BY <1>1, <1>7 DEF AppReceives, LoseToServer, LoseToClient, vars, seen
<1> QED
    BY <1>2, <1>3, <1>4, <1>5, <1>6, <1>7 DEF Next

\* The invariant of a client that reconnects.
THEOREM StaysInStep ==
    ASSUME auto_reconnect
    PROVE  Spec => []InStep
<1>1. Inv /\ InStep /\ [Next]_vars => InStep'
    BY NextInStep
<1> QED
    BY <1>1, InitInStep, Invariance, PTL DEF Spec

(* However datagrams are lost and repeated, sequence numbers wrap, sends    *)
(* are given up and tunnels are dropped and opened again: the frames of a   *)
(* client that reconnects after every failed send reach the server's        *)
(* application in order and none twice, and a send that returned Ok has     *)
(* delivered its frame.  (Without auto_reconnect a frame may be given the   *)
(* number of one whose send failed, and be acknowledged as its repetition.) *)
THEOREM ReconnectingDelivers ==
    ASSUME auto_reconnect
    PROVE  Spec => Delivers
<1>1. Init => Promise!Init
    BY DEF Init, Promise!Init
<1>2. Inv /\ InStep /\ [Next]_vars => [Promise!Next]_(Promise!vars)
    BY StepPromised
<1> QED
    BY <1>1, <1>2, Invariance, StaysInStep, PTL DEF Spec, Delivers, Promise!Spec

=============================================================================
