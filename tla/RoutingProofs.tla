----------------------------- MODULE RoutingProofs -----------------------------
(***************************************************************************)
(* The rate of a routing connection and the frames of its handles, for     *)
(* every limit, every window and every capacity of the channels.           *)
(*                                                                         *)
(* RateIsKept looks at what went out (sent), the limiter only at what it   *)
(* remembers (timestamps), of which it drops some at every grant.  The     *)
(* inductive invariant says what the limiter may not forget: whatever went *)
(* out within the window is remembered, at the same place from the end.    *)
(***************************************************************************)
EXTENDS Routing, Integers, TLAPS, WellFoundedInduction

Ages(s) == s \in Seq(Age)

\* The last entries of ages and of out agree, as far back as out has entries
\* within the window.
Remembered(ages, out) ==
    \A j \in Nat : j < Len(out) /\ out[Len(out) - j] <= WINDOW =>
        j < Len(ages) /\ ages[Len(ages) - j] = out[Len(out) - j]

RateInv ==
    /\ Ages(timestamps) /\ Ages(sent)
    /\ Len(timestamps) <= MAX_PACKETS_PER_SEC
    /\ Remembered(timestamps, sent)

-----------------------------------------------------------------------------
(* The operators of the limiter.                                           *)

LEMMA OlderFacts ==
    ASSUME NEW age \in Age
    PROVE  older(age) \in Age /\ (older(age) <= WINDOW => age <= WINDOW)
BY LimiterAssumption DEF older, Age

LEMMA AgedFacts ==
    ASSUME NEW s, Ages(s)
    PROVE  /\ Ages(aged(s)) /\ Len(aged(s)) = Len(s)
           /\ \A i \in 1 .. Len(s) : aged(s)[i] = older(s[i])
<1>1. s \in Seq(Age) /\ DOMAIN s = 1 .. Len(s) /\ Len(s) \in Nat
    BY DEF Ages
<1>2. \A i \in 1 .. Len(s) : older(s[i]) \in Age
    BY <1>1, OlderFacts
<1>3. aged(s) = [i \in 1 .. Len(s) |-> older(s[i])]
    BY <1>1 DEF aged
<1> QED
    BY <1>1, <1>2, <1>3 DEF Ages

LEMMA LeastNatural ==
    ASSUME NEW S, S \subseteq Nat, S # {}
    PROVE  \E m \in S : \A k \in S : m <= k
<1>1. PICK m \in S : \A k \in S : <<k, m>> \notin OpToRel(<, Nat)
    BY NatLessThanWellFounded, WFMin
<1>2. \A k \in S : ~ (k < m)
    BY <1>1 DEF OpToRel
<1> QED
    BY <1>2

\* What pruned keeps is a suffix that begins with the first age within the
\* window.
LEMMA PrunedFacts ==
    ASSUME NEW s, Ages(s)
    PROVE  /\ Ages(pruned(s))
           /\ \A i \in 1 .. Len(s) : s[i] <= WINDOW =>
                  /\ Len(s) - i < Len(pruned(s))
                  /\ pruned(s)[Len(pruned(s)) - (Len(s) - i)] = s[i]
<1> DEFINE current == {i \in DOMAIN s : s[i] <= WINDOW}
           first == CHOOSE i \in current : \A j \in current : i <= j
<1>0. s \in Seq(Age) /\ DOMAIN s = 1 .. Len(s) /\ Len(s) \in Nat
    BY DEF Ages
<1>1. CASE current = {}
    <2>1. pruned(s) = <<>>
        BY <1>1 DEF pruned
    <2>2. ~ \E i \in 1 .. Len(s) : s[i] <= WINDOW
        BY <1>0, <1>1
    <2> QED
        BY <2>1, <2>2 DEF Ages
<1>2. CASE current # {}
    <2>1. current \subseteq Nat
        BY <1>0
    <2>2. first \in current /\ \A j \in current : first <= j
        <3> HIDE DEF current
        <3> QED
            BY <1>2, <2>1, LeastNatural
    <2>3. pruned(s) = SubSeq(s, first, Len(s))
        BY <1>2 DEF pruned
    <2>4. first \in 1 .. Len(s)
        BY <1>0, <2>2
    <2>5. \A i \in 1 .. Len(s) : s[i] <= WINDOW => first <= i
        BY <1>0, <2>2
    <2> HIDE DEF first, current
    <2>6. /\ Ages(SubSeq(s, first, Len(s)))
          /\ Len(SubSeq(s, first, Len(s))) = Len(s) - first + 1
          /\ \A k \in 1 .. Len(s) - first + 1 :
                 SubSeq(s, first, Len(s))[k] = s[first + k - 1]
        BY <1>0, <2>4 DEF Ages
    <2>7. ASSUME NEW i \in 1 .. Len(s), s[i] <= WINDOW
          PROVE  /\ Len(s) - i < Len(pruned(s))
                 /\ pruned(s)[Len(pruned(s)) - (Len(s) - i)] = s[i]
        <3>1. first <= i
            BY <2>5, <2>7
        <3>2. i - first + 1 \in 1 .. Len(s) - first + 1
            BY <3>1, <2>4, <1>0
        <3>3. pruned(s)[i - first + 1] = s[first + (i - first + 1) - 1]
            BY <2>3, <2>6, <3>2
        <3>4. first + (i - first + 1) - 1 = i
            BY <2>4
        <3>5. Len(pruned(s)) - (Len(s) - i) = i - first + 1
            BY <2>3, <2>4, <2>6, <1>0
        <3> QED
            BY <2>3, <2>4, <2>6, <3>1, <3>3, <3>4, <3>5, <1>0
    <2> QED
        BY <2>3, <2>6, <2>7
<1> QED
    BY <1>1, <1>2

-----------------------------------------------------------------------------
(* The two steps that touch what RateInv is about.                         *)

LEMMA TimePasses ==
    ASSUME RateInv, Tick
    PROVE  RateInv'
<1>1. /\ timestamps' = aged(timestamps) /\ sent' = aged(sent)
      /\ Ages(timestamps) /\ Ages(sent) /\ Ages(timestamps') /\ Ages(sent')
      /\ Len(timestamps') = Len(timestamps) /\ Len(sent') = Len(sent)
    BY AgedFacts DEF RateInv, Tick
<1>2. Len(timestamps) \in Nat /\ Len(sent) \in Nat
    BY <1>1 DEF Ages
<1>3. Remembered(timestamps', sent')
    <2> SUFFICES ASSUME NEW j \in Nat, j < Len(sent), sent'[Len(sent) - j] <= WINDOW
                 PROVE  /\ j < Len(timestamps)
                        /\ timestamps'[Len(timestamps) - j] = sent'[Len(sent) - j]
        BY <1>1 DEF Remembered
    <2>1. Len(sent) - j \in 1 .. Len(sent)
        BY <1>2
    <2>2. sent'[Len(sent) - j] = older(sent[Len(sent) - j])
        BY <1>1, <2>1, AgedFacts
    <2>3. sent[Len(sent) - j] \in Age
        BY <1>1, <2>1 DEF Ages
    <2>4. sent[Len(sent) - j] <= WINDOW
        BY <2>2, <2>3, OlderFacts
    <2>5. j < Len(timestamps) /\ timestamps[Len(timestamps) - j] = sent[Len(sent) - j]
        BY <2>4 DEF RateInv, Remembered
    <2>6. Len(timestamps) - j \in 1 .. Len(timestamps)
        BY <1>2, <2>5
    <2>7. timestamps'[Len(timestamps) - j] = older(timestamps[Len(timestamps) - j])
        BY <1>1, <2>6, AgedFacts
    <2> QED
        BY <2>2, <2>5, <2>7
<1> QED
    BY <1>1, <1>3 DEF RateInv

LEMMA FrameGoesOut ==
    ASSUME RateInv, RateLimitedSend
    PROVE  RateInv'
<1> DEFINE kept == pruned(timestamps)
           out == IF Len(sent) > MAX_PACKETS_PER_SEC THEN Tail(sent) ELSE sent
<1>1. /\ timestamps' = Append(kept, 0) /\ sent' = Append(out, 0)
      /\ Len(kept) < MAX_PACKETS_PER_SEC
    BY DEF RateLimitedSend, granted, allowed
<1>2. Ages(timestamps) /\ Ages(sent) /\ Ages(kept)
    BY PrunedFacts DEF RateInv
<1>3. 0 \in Age
    BY LimiterAssumption DEF Age
<1>4. /\ Ages(out) /\ Len(out) \in Nat /\ Len(sent) \in Nat /\ Len(out) <= Len(sent)
      /\ \A j \in Nat : j < Len(out) => out[Len(out) - j] = sent[Len(sent) - j]
    <2>1. CASE Len(sent) > MAX_PACKETS_PER_SEC
        <3>1. sent \in Seq(Age) /\ sent # <<>> /\ Len(sent) \in Nat
            BY <1>2, <2>1, LimiterAssumption DEF Ages
        <3>2. /\ out = Tail(sent) /\ out \in Seq(Age) /\ Len(out) = Len(sent) - 1
              /\ \A k \in 1 .. Len(out) : out[k] = sent[k + 1]
            BY <2>1, <3>1
        <3>3. ASSUME NEW j \in Nat, j < Len(out)
              PROVE  out[Len(out) - j] = sent[Len(sent) - j]
            <4>1. Len(out) - j \in 1 .. Len(out) /\ Len(out) - j + 1 = Len(sent) - j
                BY <3>1, <3>2, <3>3
            <4> QED
                BY <3>2, <4>1
        <3> QED
            BY <3>1, <3>2, <3>3 DEF Ages
    <2>2. CASE ~ (Len(sent) > MAX_PACKETS_PER_SEC)
        BY <1>2, <2>2 DEF Ages
    <2> QED
        BY <2>1, <2>2
<1> HIDE DEF kept, out
<1>5. /\ Ages(timestamps') /\ Len(kept) \in Nat /\ Len(timestamps') = Len(kept) + 1
      /\ timestamps'[Len(kept) + 1] = 0
      /\ \A k \in 1 .. Len(kept) : timestamps'[k] = kept[k]
    BY <1>1, <1>2, <1>3 DEF Ages
<1>6. /\ Ages(sent') /\ Len(sent') = Len(out) + 1 /\ sent'[Len(out) + 1] = 0
      /\ \A k \in 1 .. Len(out) : sent'[k] = out[k]
    BY <1>1, <1>3, <1>4 DEF Ages
<1>7. Remembered(timestamps', sent')
    <2> SUFFICES ASSUME NEW j \in Nat, j < Len(sent'), sent'[Len(sent') - j] <= WINDOW
                 PROVE  /\ j < Len(timestamps')
                        /\ timestamps'[Len(timestamps') - j] = sent'[Len(sent') - j]
        BY DEF Remembered
    <2>1. CASE j = 0
        BY <1>4, <1>5, <1>6, <2>1
    <2>2. CASE j > 0
        <3> DEFINE i == j - 1
        <3>1. i \in Nat /\ i < Len(out) /\ Len(sent') - j = Len(out) - i
              /\ Len(out) - i \in 1 .. Len(out) /\ i < Len(sent)
            BY <2>2, <1>4, <1>6
        <3>2. sent'[Len(sent') - j] = sent[Len(sent) - i]
            BY <1>4, <1>6, <3>1
        <3>3. /\ i < Len(timestamps)
              /\ timestamps[Len(timestamps) - i] = sent[Len(sent) - i]
            BY <3>1, <3>2 DEF RateInv, Remembered
        <3>4. Len(timestamps) \in Nat /\ Len(timestamps) - i \in 1 .. Len(timestamps)
              /\ Len(timestamps) - (Len(timestamps) - i) = i
            BY <1>2, <3>1, <3>3 DEF Ages
        <3>5. /\ i < Len(kept)
              /\ kept[Len(kept) - i] = timestamps[Len(timestamps) - i]
            BY <1>2, <3>2, <3>3, <3>4, PrunedFacts DEF kept
        <3>6. Len(kept) - i \in 1 .. Len(kept) /\ Len(timestamps') - j = Len(kept) - i
              /\ j < Len(timestamps')
            BY <1>5, <3>1, <3>5
        <3> QED
            BY <1>5, <3>2, <3>3, <3>5, <3>6
    <2> QED
        BY <2>1, <2>2
<1> QED
    BY <1>1, <1>5, <1>6, <1>7, LimiterAssumption DEF RateInv

\* The other steps leave the limiter and what went out alone.
LEMMA LimiterUntouched ==
    ASSUME [Next]_vars, ~ Tick, ~ RateLimitedSend
    PROVE  UNCHANGED <<timestamps, sent>>
<1>1. CASE Arrives
    BY <1>1 DEF Arrives, connection
<1>2. CASE HandleRoutingPacket
    BY <1>2 DEF HandleRoutingPacket
<1>3. CASE Unblock
    BY <1>3 DEF Unblock
<1>4. CASE TakeCommand
    BY <1>4 DEF TakeCommand
<1>5. CASE SocketError
    BY <1>5 DEF SocketError
<1>6. CASE Loop
    BY <1>6 DEF Loop, Broadcast, StartSend, Answer, ConnectionClosed, connection
<1>7. CASE User
    BY <1>7 DEF User, SendFrame, Receive, Drop, connection
<1>8. CASE UNCHANGED vars
    BY <1>8 DEF vars, connection
<1> QED
    BY <1>1, <1>2, <1>3, <1>4, <1>5, <1>6, <1>7, <1>8 DEF Next, RouterTask

-----------------------------------------------------------------------------
LEMMA RateInvInit == Init => RateInv
BY LimiterAssumption DEF Init, RateInv, Ages, Remembered

LEMMA RateInvStep == RateInv /\ [Next]_vars => RateInv'
<1> SUFFICES ASSUME RateInv, [Next]_vars PROVE RateInv'
    OBVIOUS
<1>1. CASE Tick
    BY <1>1, TimePasses
<1>2. CASE RateLimitedSend
    BY <1>2, FrameGoesOut
<1>3. CASE ~ Tick /\ ~ RateLimitedSend
    BY <1>3, LimiterUntouched DEF RateInv, Ages, Remembered
<1> QED
    BY <1>1, <1>2, <1>3

LEMMA RateInvImplies == RateInv => RateIsKept
<1> SUFFICES ASSUME RateInv, Len(sent) > MAX_PACKETS_PER_SEC
             PROVE  sent[Len(sent) - MAX_PACKETS_PER_SEC] > WINDOW
    BY DEF RateIsKept
<1>1. Len(sent) - MAX_PACKETS_PER_SEC \in 1 .. Len(sent)
    BY LimiterAssumption DEF RateInv, Ages
<1>2. sent[Len(sent) - MAX_PACKETS_PER_SEC] \in Nat
    BY <1>1, LimiterAssumption DEF RateInv, Ages, Age
<1>3. ASSUME sent[Len(sent) - MAX_PACKETS_PER_SEC] <= WINDOW PROVE FALSE
    <2>1. MAX_PACKETS_PER_SEC < Len(timestamps)
        BY <1>3, LimiterAssumption DEF RateInv, Remembered
    <2> QED
        BY <2>1, LimiterAssumption DEF RateInv, Ages
<1> QED
    BY <1>2, <1>3, LimiterAssumption

(* A routing connection never has more than MAX_PACKETS_PER_SEC frames go  *)
(* out within a window (router.rs: RateLimiter::check): whatever is        *)
(* between them, pauses, full channels, forgotten timestamps.              *)
THEOREM RoutingKeepsRate == Spec => []RateIsKept
BY RateInvInit, RateInvStep, RateInvImplies, PTL DEF Spec

-----------------------------------------------------------------------------
(* Who misses a frame.                                                     *)
(*                                                                         *)
(* OnlyLaggardsMiss is not inductive: it orders what a handle has against  *)
(* what waits there, but a frame comes to wait there from the events.  The *)
(* invariant follows the frame the whole way: the events are in order, the *)
(* one the task holds last, and all of them newer than anything a handle   *)
(* has, waits for or has missed.                                           *)

\* The events on their way, oldest first.
Pending == events \o blocked

\* Frames in s, reports of lost messages left aside, come oldest first.
OldestFirst(s) ==
    \A i, j \in 1 .. Len(s) : i < j /\ s[i] # Lost /\ s[j] # Lost => s[i] < s[j]

Seen(h) == received[h] \cup lagged[h]

Held == {<<>>} \cup {<<e>> : e \in Nat}

FrameTypes ==
    /\ frames \in Nat /\ events \in Seq(Nat) /\ blocked \in Held
    /\ router_task = "blocked" <=> blocked # <<>>
    /\ user \in [Handle -> {"free", "sending", "dropped"}]
    /\ rx \in [Handle -> Seq(Nat)]
    /\ received \in [Handle -> SUBSET Nat] /\ lagged \in [Handle -> SUBSET Nat]

Follows(h) ==
    /\ Seen(h) \cup ToSet(rx[h]) \cup InTransit = 1 .. frames
    /\ OldestFirst(rx[h]) /\ Len(rx[h]) <= BROADCAST
    /\ \A f \in Seen(h), g \in ToSet(rx[h]) : f < g
    /\ \A f \in Seen(h) \cup ToSet(rx[h]), e \in InTransit : f < e

FramesInv ==
    /\ FrameTypes
    /\ OldestFirst(Pending) /\ \A e \in InTransit : e <= frames
    /\ \A h \in Handle : user[h] # "dropped" => Follows(h)

LEMMA TailOf ==
    ASSUME NEW s \in Seq(Nat), s # <<>>
    PROVE  /\ Tail(s) \in Seq(Nat) /\ Len(s) \in Nat \ {0} /\ Len(Tail(s)) = Len(s) - 1
           /\ Head(s) = s[1] /\ Head(s) \in Nat
           /\ \A i \in 1 .. Len(s) - 1 : Tail(s)[i] = s[i + 1]
           /\ ToSet(s) = {Head(s)} \cup ToSet(Tail(s))
<1>1. /\ Tail(s) \in Seq(Nat) /\ Len(s) \in Nat \ {0} /\ Len(Tail(s)) = Len(s) - 1
      /\ Head(s) = s[1] /\ Head(s) \in Nat
      /\ \A i \in 1 .. Len(s) - 1 : Tail(s)[i] = s[i + 1]
    OBVIOUS
<1>2. DOMAIN s = 1 .. Len(s) /\ DOMAIN Tail(s) = 1 .. Len(s) - 1
    BY <1>1
<1>3. ASSUME NEW i \in 1 .. Len(s) PROVE s[i] \in {Head(s)} \cup ToSet(Tail(s))
    <2>1. CASE i = 1
        BY <1>1, <2>1
    <2>2. CASE i # 1
        <3>1. i - 1 \in 1 .. Len(s) - 1 /\ (i - 1) + 1 = i
            BY <1>1, <2>2
        <3>2. s[i] = Tail(s)[i - 1]
            BY <1>1, <3>1
        <3> QED
            BY <1>2, <3>1, <3>2 DEF ToSet
    <2> QED
        BY <2>1, <2>2
<1>4. ASSUME NEW i \in 1 .. Len(s) - 1 PROVE Tail(s)[i] \in ToSet(s)
    BY <1>1, <1>2, <1>4 DEF ToSet
<1>5. Head(s) \in ToSet(s)
    BY <1>1, <1>2 DEF ToSet
<1>6. ToSet(s) \subseteq {Head(s)} \cup ToSet(Tail(s))
    BY <1>2, <1>3 DEF ToSet
<1>7. ToSet(Tail(s)) \subseteq ToSet(s)
    BY <1>2, <1>4 DEF ToSet
<1> QED
    BY <1>1, <1>5, <1>6, <1>7

LEMMA AppendTo ==
    ASSUME NEW s \in Seq(Nat), NEW e \in Nat
    PROVE  /\ Append(s, e) \in Seq(Nat) /\ Len(s) \in Nat /\ Len(Append(s, e)) = Len(s) + 1
           /\ \A i \in 1 .. Len(s) : Append(s, e)[i] = s[i]
           /\ Append(s, e)[Len(s) + 1] = e
           /\ ToSet(Append(s, e)) = ToSet(s) \cup {e}
<1>1. /\ Append(s, e) \in Seq(Nat) /\ Len(s) \in Nat /\ Len(Append(s, e)) = Len(s) + 1
      /\ \A i \in 1 .. Len(s) : Append(s, e)[i] = s[i]
      /\ Append(s, e)[Len(s) + 1] = e
    OBVIOUS
<1>2. DOMAIN s = 1 .. Len(s) /\ DOMAIN Append(s, e) = 1 .. Len(s) + 1
    BY <1>1
<1>3. ASSUME NEW i \in 1 .. Len(s) + 1 PROVE Append(s, e)[i] \in ToSet(s) \cup {e}
    <2>1. CASE i = Len(s) + 1
        BY <1>1, <2>1
    <2>2. CASE i # Len(s) + 1
        <3>1. i \in 1 .. Len(s)
            BY <1>1, <2>2
        <3> QED
            BY <1>1, <1>2, <3>1 DEF ToSet
    <2> QED
        BY <2>1, <2>2
<1>4. ASSUME NEW i \in 1 .. Len(s) PROVE s[i] \in ToSet(Append(s, e))
    <2>1. i \in 1 .. Len(s) + 1 /\ Append(s, e)[i] = s[i]
        BY <1>1
    <2> QED
        BY <1>2, <2>1 DEF ToSet
<1>5. e \in ToSet(Append(s, e))
    <2>1. Len(s) + 1 \in 1 .. Len(s) + 1
        BY <1>1
    <2> QED
        BY <1>1, <1>2, <2>1 DEF ToSet
<1>6. ToSet(Append(s, e)) \subseteq ToSet(s) \cup {e}
    BY <1>2, <1>3 DEF ToSet
<1>7. ToSet(s) \subseteq ToSet(Append(s, e))
    BY <1>2, <1>4 DEF ToSet
<1> QED
    BY <1>1, <1>5, <1>6, <1>7

LEMMA TailKeepsOrder ==
    ASSUME NEW s \in Seq(Nat), s # <<>>, OldestFirst(s)
    PROVE  /\ OldestFirst(Tail(s))
           /\ Head(s) # Lost => \A e \in ToSet(Tail(s)) \ {Lost} : Head(s) < e
<1>1. /\ Len(s) \in Nat \ {0} /\ Len(Tail(s)) = Len(s) - 1 /\ Head(s) = s[1]
      /\ Tail(s) \in Seq(Nat)
      /\ \A i \in 1 .. Len(s) - 1 : Tail(s)[i] = s[i + 1]
    BY TailOf
<1>2. \A i \in 1 .. Len(s) - 1 : i + 1 \in 1 .. Len(s) /\ 1 < i + 1
    BY <1>1
<1>3. OldestFirst(Tail(s))
    BY <1>1, <1>2 DEF OldestFirst
<1>4. ASSUME Head(s) # Lost, NEW i \in 1 .. Len(s) - 1, Tail(s)[i] # Lost
      PROVE  Head(s) < Tail(s)[i]
    BY <1>1, <1>2, <1>4 DEF OldestFirst
<1>5. DOMAIN Tail(s) = 1 .. Len(s) - 1
    BY <1>1
<1> QED
    BY <1>3, <1>4, <1>5 DEF ToSet

LEMMA AppendKeepsOrder ==
    ASSUME NEW s \in Seq(Nat), OldestFirst(s), NEW e \in Nat,
           e # Lost => \A f \in ToSet(s) : f # Lost => f < e
    PROVE  OldestFirst(Append(s, e))
<1>1. /\ Len(s) \in Nat /\ Len(Append(s, e)) = Len(s) + 1
      /\ \A i \in 1 .. Len(s) : Append(s, e)[i] = s[i]
      /\ Append(s, e)[Len(s) + 1] = e
    BY AppendTo
<1>2. \A i \in 1 .. Len(s) : s[i] \in ToSet(s)
    BY DEF ToSet
<1> SUFFICES ASSUME NEW i \in 1 .. Len(s) + 1, NEW j \in 1 .. Len(s) + 1, i < j,
                    Append(s, e)[i] # Lost, Append(s, e)[j] # Lost
             PROVE  Append(s, e)[i] < Append(s, e)[j]
    BY <1>1 DEF OldestFirst
<1>3. i \in 1 .. Len(s)
    BY <1>1
<1>4. CASE j = Len(s) + 1
    BY <1>1, <1>2, <1>3, <1>4
<1>5. CASE j # Len(s) + 1
    <2>1. j \in 1 .. Len(s)
        BY <1>1, <1>5
    <2> QED
        BY <1>1, <1>3, <2>1 DEF OldestFirst
<1> QED
    BY <1>4, <1>5

\* InTransit is what is pending.
LEMMA Joined ==
    ASSUME NEW s \in Seq(Nat), NEW held \in Held
    PROVE  s \o held \in Seq(Nat) /\ ToSet(s \o held) = ToSet(s) \cup ToSet(held)
<1>1. CASE held = <<>>
    <2>1. s \o held = s
        BY <1>1
    <2>2. ToSet(held) = {}
        BY <1>1 DEF ToSet
    <2> QED
        BY <2>1, <2>2
<1>2. CASE held # <<>>
    <2>1. PICK e \in Nat : held = <<e>>
        BY <1>2 DEF Held
    <2>2. s \o held = Append(s, e)
        BY <2>1
    <2>3. ToSet(Append(s, e)) = ToSet(s) \cup {e} /\ Append(s, e) \in Seq(Nat)
        BY AppendTo
    <2>4. ToSet(held) = {e}
        BY <2>1 DEF ToSet
    <2> QED
        BY <2>2, <2>3, <2>4
<1> QED
    BY <1>1, <1>2

-----------------------------------------------------------------------------
(* The steps that move a frame.                                            *)

\* An event e joins those on their way, as the task's emit does it.
LEMMA Emitted ==
    ASSUME FrameTypes, router_task = "select", NEW e \in Nat, emit(e)
    PROVE  /\ Pending' = Append(Pending, e)
           /\ events' \in Seq(Nat) /\ blocked' \in Held
           /\ router_task' = "blocked" <=> blocked' # <<>>
<1>1. blocked = <<>> /\ events \in Seq(Nat)
    BY DEF FrameTypes
<1>2. Pending = events
    BY <1>1 DEF Pending
<1>3. CASE Len(events) < EVENTS
    <2>1. events' = Append(events, e) /\ blocked' = <<>> /\ router_task' = "select"
        BY <1>1, <1>3 DEF emit
    <2>2. events' \in Seq(Nat)
        BY <1>1, <2>1
    <2> QED
        BY <1>2, <2>1, <2>2 DEF Pending, Held
<1>4. CASE ~ (Len(events) < EVENTS)
    <2>1. events' = events /\ blocked' = <<e>> /\ router_task' = "blocked"
        BY <1>4 DEF emit
    <2>2. events \o <<e>> = Append(events, e)
        BY <1>1
    <2>3. blocked' # <<>>
        BY <2>1
    <2> QED
        BY <1>1, <1>2, <2>1, <2>2, <2>3 DEF Pending, Held
<1> QED
    BY <1>3, <1>4

LEMMA PacketKeepsFrames ==
    ASSUME FramesInv, HandleRoutingPacket
    PROVE  FramesInv'
<1>1. FrameTypes /\ frames \in Nat /\ router_task = "select"
    BY DEF FramesInv, FrameTypes, HandleRoutingPacket
<1>2. UNCHANGED <<user, rx, received, lagged>>
    BY DEF HandleRoutingPacket
<1>3. CASE UNCHANGED <<events, router_task, blocked, frames>>
    BY <1>2, <1>3 DEF FramesInv, FrameTypes, Follows, Seen, InTransit, Pending
<1>4. ASSUME NEW d \in Nat, emit(d),
             \/ d = frames + 1 /\ frames' = frames + 1
             \/ d = Lost /\ frames' = frames
      PROVE  FramesInv'
    <2>1. /\ Pending' = Append(Pending, d)
          /\ events' \in Seq(Nat) /\ blocked' \in Held
          /\ router_task' = "blocked" <=> blocked' # <<>>
        BY <1>1, <1>4, Emitted
    <2>2. frames' \in Nat /\ frames <= frames'
        BY <1>1, <1>4
    <2>3. FrameTypes'
        BY <1>1, <1>2, <2>1, <2>2 DEF FrameTypes
    <2>4. Pending \in Seq(Nat) /\ InTransit = ToSet(Pending) \ {Lost}
        BY <1>1, Joined DEF FrameTypes, Pending, InTransit
    <2>5. ToSet(Pending') = ToSet(events') \cup ToSet(blocked')
        BY <2>1, Joined DEF Pending
    <2>6. ToSet(Pending') = ToSet(Pending) \cup {d}
        BY <2>1, <2>4, AppendTo
    <2>7. InTransit' = InTransit \cup ({d} \ {Lost})
        BY <2>4, <2>5, <2>6 DEF InTransit
    <2>8. \A e \in InTransit : e \in Nat /\ e <= frames
        <3>1. \A e \in ToSet(Pending) : e \in Nat
            BY <2>4 DEF ToSet
        <3> QED
            BY <2>4, <3>1 DEF FramesInv
    <2>9. OldestFirst(Pending') /\ \A e \in InTransit' : e <= frames'
        <3>1. d # Lost => \A f \in ToSet(Pending) : f # Lost => f < d
            BY <1>1, <1>4, <2>4, <2>8
        <3>2. OldestFirst(Pending)
            BY DEF FramesInv
        <3>3. OldestFirst(Append(Pending, d))
            BY <2>4, <3>1, <3>2, AppendKeepsOrder
        <3> QED
            BY <1>1, <1>4, <2>1, <2>7, <2>8, <3>3
    <2>10. ASSUME NEW h \in Handle, user'[h] # "dropped"
           PROVE  Follows(h)'
        <3>1. Follows(h)
            BY <1>2, <2>10 DEF FramesInv
        <3>2. Seen(h)' = Seen(h) /\ rx'[h] = rx[h]
            BY <1>2 DEF Seen
        <3>3. Seen(h) \cup ToSet(rx[h]) \cup InTransit' = 1 .. frames'
            BY <1>1, <1>4, <2>7, <3>1 DEF Follows, Lost
        <3>4. ASSUME NEW f \in Seen(h) \cup ToSet(rx[h]), NEW e \in InTransit'
              PROVE  f < e
            <4>1. f \in 1 .. frames
                BY <3>1 DEF Follows
            <4> QED
                BY <1>1, <1>4, <2>7, <3>1, <4>1 DEF Follows
        <3> QED
            BY <3>1, <3>2, <3>3, <3>4 DEF Follows
    <2> QED
        BY <2>3, <2>9, <2>10 DEF FramesInv
<1>5. \/ UNCHANGED <<events, router_task, blocked, frames>>
      \/ emit(frames + 1) /\ frames' = frames + 1
      \/ emit(Lost) /\ frames' = frames
    BY DEF HandleRoutingPacket
<1> QED
    BY <1>1, <1>3, <1>4, <1>5 DEF Lost

LEMMA UnblockKeepsFrames ==
    ASSUME FramesInv, Unblock
    PROVE  FramesInv'
<1>1. /\ events \in Seq(Nat) /\ blocked \in Held /\ blocked # <<>>
      /\ FrameTypes
    BY DEF FramesInv, FrameTypes, Unblock
<1>2. PICK e \in Nat : blocked = <<e>>
    BY <1>1 DEF Held
<1>3. /\ events' = Append(events, e) /\ blocked' = <<>> /\ router_task' = "select"
      /\ UNCHANGED <<user, rx, frames, received, lagged>>
    BY <1>2 DEF Unblock
<1>4. events' \in Seq(Nat) /\ ToSet(events') = ToSet(events) \cup {e}
    BY <1>1, <1>3, AppendTo
<1>5. Pending' = Pending
    <2>1. Pending' = events'
        BY <1>3, <1>4 DEF Pending
    <2>2. events \o <<e>> = Append(events, e)
        BY <1>1
    <2> QED
        BY <1>2, <1>3, <2>1, <2>2 DEF Pending
<1>6. InTransit' = InTransit
    <2>1. ToSet(blocked) = {e} /\ ToSet(blocked') = {}
        BY <1>2, <1>3 DEF ToSet
    <2> QED
        BY <1>4, <2>1 DEF InTransit
<1>7. FrameTypes'
    BY <1>1, <1>3, <1>4 DEF FrameTypes, Held
<1> QED
    BY <1>3, <1>5, <1>6, <1>7 DEF FramesInv, Follows, Seen

LEMMA RetainedFacts ==
    ASSUME NEW s \in Seq(Nat), OldestFirst(s), Len(s) <= BROADCAST + 1, Lost \notin ToSet(s)
    PROVE  /\ retained(s) \in Seq(Nat) /\ OldestFirst(retained(s))
           /\ Len(retained(s)) <= BROADCAST
           /\ ToSet(retained(s)) \subseteq ToSet(s)
           /\ \A f \in ToSet(s) \ ToSet(retained(s)), g \in ToSet(retained(s)) : f < g
<1>1. CASE Len(s) > BROADCAST
    <2>1. BROADCAST \in Nat /\ s # <<>> /\ retained(s) = Tail(s)
        BY <1>1, RoutingAssumption DEF retained
    <2>2. /\ Tail(s) \in Seq(Nat) /\ Len(s) \in Nat /\ Len(Tail(s)) = Len(s) - 1
          /\ ToSet(s) = {Head(s)} \cup ToSet(Tail(s))
        BY <2>1, TailOf
    <2>3. /\ OldestFirst(Tail(s))
          /\ Head(s) # Lost => \A e \in ToSet(Tail(s)) \ {Lost} : Head(s) < e
        BY <2>1, TailKeepsOrder
    <2> QED
        BY <2>1, <2>2, <2>3
<1>2. CASE ~ (Len(s) > BROADCAST)
    <2>1. Len(s) \in Nat /\ BROADCAST \in Nat /\ retained(s) = s
        BY <1>2, RoutingAssumption DEF retained
    <2> QED
        BY <1>2, <2>1
<1> QED
    BY <1>1, <1>2

\* What a broadcast does to a handle that is open to the frame.
LEMMA FrameReachesHandle ==
    ASSUME FramesInv, Broadcast, NEW h \in Handle, user[h] # "dropped",
           Head(events) # Lost,
           InTransit = {Head(events)} \cup InTransit',
           \A e \in InTransit' : Head(events) < e
    PROVE  rx'[h] \in Seq(Nat) /\ lagged'[h] \in SUBSET Nat /\ Follows(h)'
<1> DEFINE e == Head(events)
           more == Append(rx[h], e)
<1>1. /\ Follows(h) /\ rx[h] \in Seq(Nat) /\ events \in Seq(Nat) /\ events # <<>>
      /\ frames \in Nat /\ lagged[h] \in SUBSET Nat /\ received[h] \in SUBSET Nat
    BY DEF FramesInv, FrameTypes, Broadcast
<1>2. e \in Nat /\ e # Lost /\ e \in InTransit
    BY <1>1, TailOf
<1>3. /\ rx'[h] = retained(more) /\ received' = received /\ frames' = frames
      /\ lagged'[h] = lagged[h] \cup (ToSet(more) \ ToSet(rx'[h]))
    BY DEF Broadcast
<1> HIDE DEF e
<1>4. /\ more \in Seq(Nat) /\ Len(rx[h]) \in Nat /\ Len(more) = Len(rx[h]) + 1
      /\ ToSet(more) = ToSet(rx[h]) \cup {e}
    BY <1>1, <1>2, AppendTo
<1>5. \A f \in Seen(h) \cup ToSet(rx[h]) : f \in 1 .. frames /\ f < e
    BY <1>1, <1>2 DEF Follows
<1>6. OldestFirst(more)
    BY <1>1, <1>2, <1>5, AppendKeepsOrder DEF Follows
<1>7. Lost \notin ToSet(more) /\ Len(more) <= BROADCAST + 1
    BY <1>1, <1>2, <1>4, <1>5, RoutingAssumption DEF Follows, Lost
<1> HIDE DEF more
<1>8. /\ retained(more) \in Seq(Nat) /\ OldestFirst(retained(more))
      /\ Len(retained(more)) <= BROADCAST
      /\ ToSet(retained(more)) \subseteq ToSet(more)
      /\ \A f \in ToSet(more) \ ToSet(retained(more)), g \in ToSet(retained(more)) : f < g
    BY <1>4, <1>6, <1>7, RetainedFacts
<1>9. Seen(h)' = Seen(h) \cup (ToSet(more) \ ToSet(rx'[h]))
    BY <1>3 DEF Seen
<1>10. Seen(h)' \cup ToSet(rx'[h]) = Seen(h) \cup ToSet(rx[h]) \cup {e}
    BY <1>3, <1>4, <1>8, <1>9
<1>11. (Seen(h) \cup ToSet(rx[h]) \cup InTransit = 1 .. frames)'
    <2>1. Seen(h) \cup ToSet(rx[h]) \cup {e} \cup InTransit' = 1 .. frames
        BY <1>1 DEF Follows, e
    <2> QED
        BY <1>3, <1>10, <2>1
<1>12. ASSUME NEW f \in Seen(h)', NEW g \in ToSet(rx'[h])
       PROVE  f < g
    <2>1. CASE f \in Seen(h)
        <3>1. g \in ToSet(rx[h]) \cup {e}
            BY <1>3, <1>4, <1>8, <1>12
        <3> QED
            BY <1>1, <1>5, <2>1, <3>1 DEF Follows
    <2>2. CASE f \in ToSet(more) \ ToSet(rx'[h])
        BY <1>3, <1>8, <1>12, <2>2
    <2> QED
        BY <1>9, <1>12, <2>1, <2>2
<1>13. ASSUME NEW f \in Seen(h)' \cup ToSet(rx'[h]), NEW c \in InTransit'
       PROVE  f < c
    <2>1. f \in Seen(h) \cup ToSet(rx[h]) \cup {e}
        BY <1>10, <1>13
    <2>2. c \in InTransit
        BY <1>13
    <2> QED
        BY <1>1, <1>13, <2>1, <2>2 DEF Follows, e
<1>14. lagged'[h] \in SUBSET Nat
    <2>1. \A f \in ToSet(more) : f \in Nat
        BY <1>4 DEF ToSet
    <2> QED
        BY <1>1, <1>3, <2>1
<1> QED
    BY <1>3, <1>8, <1>11, <1>12, <1>13, <1>14 DEF Follows

LEMMA BroadcastKeepsFrames ==
    ASSUME FramesInv, Broadcast
    PROVE  FramesInv'
<1> DEFINE e == Head(events)
<1>1. /\ FrameTypes /\ OldestFirst(Pending)
      /\ events \in Seq(Nat) /\ blocked \in Held /\ events # <<>>
    BY DEF FramesInv, FrameTypes, Broadcast
<1>2. /\ events' = Tail(events)
      /\ UNCHANGED <<router_task, blocked, user, frames, received>>
    BY DEF Broadcast, connection
<1>3. /\ Tail(events) \in Seq(Nat) /\ e \in Nat
      /\ ToSet(events) = {e} \cup ToSet(Tail(events))
    BY <1>1, TailOf
<1>4. Pending \in Seq(Nat) /\ ToSet(Pending) = ToSet(events) \cup ToSet(blocked)
    BY <1>1, Joined DEF Pending
<1>5. ToSet(Pending') = ToSet(events') \cup ToSet(blocked')
    BY <1>1, <1>2, <1>3, Joined DEF Pending
<1>6. Pending # <<>> /\ Pending' = Tail(Pending) /\ Head(Pending) = e
    <2>1. CASE blocked = <<>>
        <3>1. Pending = events /\ Pending' = events'
            BY <1>1, <1>2, <1>3, <2>1 DEF Pending
        <3> QED
            BY <1>1, <1>2, <3>1
    <2>2. CASE blocked # <<>>
        <3>1. PICK b \in Nat : blocked = <<b>>
            BY <1>1, <2>2 DEF Held
        <3>2. /\ Pending = Append(events, b) /\ Pending' = Append(Tail(events), b)
            BY <1>1, <1>2, <1>3, <3>1 DEF Pending
        <3>3. /\ Append(events, b) # <<>> /\ Head(Append(events, b)) = Head(events)
              /\ Tail(Append(events, b)) = Append(Tail(events), b)
            BY <1>1
        <3> QED
            BY <3>2, <3>3
    <2> QED
        BY <2>1, <2>2
<1>7. /\ OldestFirst(Pending')
      /\ e # Lost => \A f \in ToSet(Pending') \ {Lost} : e < f
    BY <1>1, <1>4, <1>6, TailKeepsOrder
<1>8. InTransit' = ToSet(Pending') \ {Lost} /\ InTransit = ToSet(Pending) \ {Lost}
    BY <1>4, <1>5 DEF InTransit
<1>9. InTransit = ({e} \ {Lost}) \cup InTransit'
    BY <1>2, <1>3 DEF InTransit
<1>10. \A c \in InTransit' : c <= frames'
    BY <1>2, <1>9 DEF FramesInv
<1> HIDE DEF e
<1>11. ASSUME NEW h \in Handle
       PROVE  /\ rx'[h] \in Seq(Nat) /\ lagged'[h] \in SUBSET Nat
              /\ user'[h] # "dropped" => Follows(h)'
    <2>1. CASE e # Lost /\ user[h] # "dropped"
        <3>1. \A c \in InTransit' : e < c
            BY <1>7, <1>8, <2>1
        <3>2. InTransit = {e} \cup InTransit'
            BY <1>9, <2>1
        <3> QED
            BY <1>11, <2>1, <3>1, <3>2, FrameReachesHandle DEF e
    <2>2. CASE e = Lost \/ user[h] = "dropped"
        <3>1. rx'[h] = rx[h] /\ lagged'[h] = lagged[h]
            BY <2>2 DEF Broadcast, e
        <3>2. rx[h] \in Seq(Nat) /\ lagged[h] \in SUBSET Nat
            BY <1>1 DEF FrameTypes
        <3>3. CASE user[h] = "dropped"
            BY <1>2, <3>1, <3>2, <3>3
        <3>4. CASE user[h] # "dropped"
            <4>1. InTransit' = InTransit
                BY <1>9, <2>2, <3>4
            <4>2. Follows(h)
                BY <3>4 DEF FramesInv
            <4> QED
                BY <1>2, <3>1, <3>2, <4>1, <4>2 DEF Follows, Seen
        <3> QED
            BY <3>3, <3>4
    <2> QED
        BY <2>1, <2>2
<1>12. FrameTypes'
    <2>1. /\ rx' = [h \in Handle |-> rx'[h]]
          /\ lagged' = [h \in Handle |-> lagged'[h]]
        BY DEF Broadcast
    <2>2. rx' \in [Handle -> Seq(Nat)] /\ lagged' \in [Handle -> SUBSET Nat]
        BY <1>11, <2>1
    <2> QED
        BY <1>1, <1>2, <1>3, <2>2 DEF FrameTypes
<1> QED
    BY <1>7, <1>10, <1>11, <1>12 DEF FramesInv

LEMMA ReceiveKeepsFrames ==
    ASSUME FramesInv, NEW h \in Handle, Receive(h)
    PROVE  FramesInv'
<1>1. /\ FrameTypes /\ rx[h] \in Seq(Nat) /\ rx[h] # <<>> /\ user[h] = "free"
      /\ received[h] \in SUBSET Nat /\ lagged[h] \in SUBSET Nat
    BY DEF FramesInv, FrameTypes, Receive
<1>2. /\ rx' = [rx EXCEPT ![h] = Tail(rx[h])]
      /\ received' = [received EXCEPT ![h] = received[h] \cup {Head(rx[h])}]
      /\ UNCHANGED <<events, router_task, blocked, user, frames, lagged>>
    BY DEF Receive, connection
<1>3. /\ Tail(rx[h]) \in Seq(Nat) /\ Head(rx[h]) \in Nat /\ Len(rx[h]) \in Nat
      /\ Len(Tail(rx[h])) = Len(rx[h]) - 1
      /\ ToSet(rx[h]) = {Head(rx[h])} \cup ToSet(Tail(rx[h]))
    BY <1>1, TailOf
<1>4. FrameTypes'
    BY <1>1, <1>2, <1>3 DEF FrameTypes
<1>5. Pending' = Pending /\ InTransit' = InTransit
    BY <1>2 DEF Pending, InTransit
<1>6. Follows(h)'
    <2>1. Follows(h) /\ frames \in Nat
        BY <1>1 DEF FramesInv, FrameTypes
    <2>2. /\ rx'[h] = Tail(rx[h])
          /\ Seen(h)' = Seen(h) \cup {Head(rx[h])}
        BY <1>1, <1>2 DEF FrameTypes, Seen
    <2>3. Lost \notin ToSet(rx[h])
        BY <2>1 DEF Follows, Lost
    <2>4. OldestFirst(Tail(rx[h])) /\ \A g \in ToSet(Tail(rx[h])) : Head(rx[h]) < g
        BY <1>1, <1>3, <2>1, <2>3, TailKeepsOrder DEF Follows
    <2>5. Len(Tail(rx[h])) <= BROADCAST
        BY <1>3, <2>1, RoutingAssumption DEF Follows
    <2>6. Seen(h)' \cup ToSet(rx'[h]) = Seen(h) \cup ToSet(rx[h])
        BY <1>3, <2>2
    <2>7. ASSUME NEW f \in Seen(h)', NEW g \in ToSet(rx'[h]) PROVE f < g
        BY <1>3, <2>1, <2>2, <2>4, <2>7 DEF Follows
    <2> QED
        BY <1>2, <1>5, <2>1, <2>2, <2>4, <2>5, <2>6, <2>7 DEF Follows
<1>7. ASSUME NEW k \in Handle, k # h, user'[k] # "dropped" PROVE Follows(k)'
    BY <1>1, <1>2, <1>5, <1>7 DEF FramesInv, FrameTypes, Follows, Seen
<1> QED
    BY <1>2, <1>4, <1>5, <1>6, <1>7 DEF FramesInv

LEMMA DropKeepsFrames ==
    ASSUME FramesInv, NEW h \in Handle, Drop(h)
    PROVE  FramesInv'
<1>1. /\ FrameTypes
      /\ user' = [user EXCEPT ![h] = "dropped"] /\ rx' = [rx EXCEPT ![h] = <<>>]
      /\ UNCHANGED <<events, router_task, blocked, frames, received, lagged>>
    BY DEF FramesInv, Drop, connection
<1>2. FrameTypes'
    <2>1. <<>> \in Seq(Nat)
        OBVIOUS
    <2>2. rx' \in [Handle -> Seq(Nat)]
        BY <1>1, <2>1 DEF FrameTypes
    <2> QED
        BY <1>1, <2>2 DEF FrameTypes
<1>3. Pending' = Pending /\ InTransit' = InTransit
    BY <1>1 DEF Pending, InTransit
<1>4. ASSUME NEW k \in Handle, user'[k] # "dropped" PROVE Follows(k)'
    BY <1>1, <1>3, <1>4 DEF FramesInv, FrameTypes, Follows, Seen
<1> QED
    BY <1>1, <1>2, <1>3, <1>4 DEF FramesInv

\* The steps that move no frame: they may change what the users do, but no
\* handle is dropped or comes back.
LEMMA FramesStay ==
    ASSUME FramesInv, UNCHANGED <<frames, events, blocked, rx, received, lagged>>,
           router_task' = "blocked" <=> router_task = "blocked",
           user' \in [Handle -> {"free", "sending", "dropped"}],
           \A h \in Handle : user'[h] = "dropped" <=> user[h] = "dropped"
    PROVE  FramesInv'
BY DEF FramesInv, FrameTypes, Follows, Seen, InTransit, Pending

LEMMA OthersKeepFrames ==
    ASSUME FramesInv,
           \/ Arrives \/ Tick \/ TakeCommand \/ RateLimitedSend \/ SocketError
           \/ StartSend \/ Answer \/ ConnectionClosed
           \/ (\E h \in Handle : SendFrame(h)) \/ UNCHANGED vars
    PROVE  FramesInv'
<1>1. user \in [Handle -> {"free", "sending", "dropped"}]
    BY DEF FramesInv, FrameTypes
<1>2. CASE Arrives \/ Tick \/ StartSend \/ UNCHANGED vars
    BY <1>1, <1>2, FramesStay DEF Arrives, Tick, StartSend, vars, connection
<1>3. CASE TakeCommand \/ RateLimitedSend \/ SocketError
    BY <1>1, <1>3, FramesStay DEF TakeCommand, RateLimitedSend, SocketError
<1>4. CASE Answer \/ ConnectionClosed
    BY <1>1, <1>4, FramesStay DEF Answer, ConnectionClosed, connection
<1>5. CASE \E h \in Handle : SendFrame(h)
    BY <1>1, <1>5, FramesStay DEF SendFrame, connection
<1> QED
    BY <1>2, <1>3, <1>4, <1>5

LEMMA FramesInvInit == Init => FramesInv
<1> SUFFICES ASSUME Init PROVE FramesInv
    OBVIOUS
<1>1. FrameTypes
    BY DEF Init, FrameTypes, Held
<1>2. Pending = <<>> /\ InTransit = {}
    BY DEF Init, Pending, InTransit, ToSet
<1>3. ASSUME NEW h \in Handle PROVE Follows(h)
    <2>1. rx[h] = <<>> /\ Seen(h) = {} /\ frames = 0 /\ ToSet(rx[h]) = {}
        BY DEF Init, Seen, ToSet
    <2> QED
        BY <1>2, <2>1, RoutingAssumption DEF Follows, OldestFirst
<1> QED
    BY <1>1, <1>2, <1>3 DEF FramesInv, OldestFirst

LEMMA FramesInvStep == FramesInv /\ [Next]_vars => FramesInv'
<1> SUFFICES ASSUME FramesInv, [Next]_vars PROVE FramesInv'
    OBVIOUS
<1>1. CASE HandleRoutingPacket
    BY <1>1, PacketKeepsFrames
<1>2. CASE Unblock
    BY <1>2, UnblockKeepsFrames
<1>3. CASE Broadcast
    BY <1>3, BroadcastKeepsFrames
<1>4. CASE User
    BY <1>4, ReceiveKeepsFrames, DropKeepsFrames, OthersKeepFrames DEF User
<1>5. CASE Arrives \/ Tick \/ TakeCommand \/ RateLimitedSend \/ SocketError
           \/ StartSend \/ Answer \/ ConnectionClosed \/ UNCHANGED vars
    BY <1>5, OthersKeepFrames
<1> QED
    BY <1>1, <1>2, <1>3, <1>4, <1>5 DEF Next, RouterTask, Loop

LEMMA FramesInvImplies == FramesInv => OnlyLaggardsMiss
<1> SUFFICES ASSUME FramesInv, NEW h \in Handle, user[h] # "dropped"
             PROVE  /\ Seen(h) \cup ToSet(rx[h]) \cup InTransit = 1 .. frames
                    /\ \A i \in DOMAIN rx[h] : \A f \in Seen(h) : f < rx[h][i]
                    /\ Len(rx[h]) <= BROADCAST
    BY DEF OnlyLaggardsMiss, Seen
<1>1. Follows(h)
    BY DEF FramesInv
<1> QED
    BY <1>1 DEF Follows, ToSet

(* A handle misses no frame but the oldest of those it was too slow for    *)
(* (multiplex.rs: Multiplexer::run, MultiplexHandle::recv): for any number *)
(* of handles and any capacity of the channels.                            *)
THEOREM HandlesMissOnlyWhenBehind == Spec => []OnlyLaggardsMiss
BY FramesInvInit, FramesInvStep, FramesInvImplies, PTL DEF Spec

=============================================================================
