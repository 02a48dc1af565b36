-------------------------- MODULE GroupObjectsProofs --------------------------
(***************************************************************************)
(* The group objects of a device, for any tables, any number of objects    *)
(* and addresses and any number of telegrams on the link: no value the     *)
(* application wrote is forgotten, and no object waits for a confirmation  *)
(* that cannot come.                                                       *)
(*                                                                         *)
(* The second is a matter of counting: for every address the objects that  *)
(* transmit are compared with the telegrams under way, of which a poll     *)
(* adds one for each object it serves.                                     *)
(***************************************************************************)
EXTENDS GroupObjects, TLAPS, FiniteSetTheorems, WellFoundedInduction

\* The telegrams a device may send.
Message == [is_response : BOOLEAN,
            ga : GroupAddress \cup {resolve_group_address(a)[1] : a \in Asap}]

\* The objects at ga that wait for a confirmation while the flags are f.
Waits(f, ga) == {a \in Asap : f[a] = "Transmitting" /\ resolve_group_address(a) = <<ga>>}

-----------------------------------------------------------------------------
(* Counting telegrams.                                                      *)

LEMMA Counted ==
    ASSUME NEW s \in Seq(Message), NEW ga
    PROVE  /\ IsFiniteSet({i \in DOMAIN s : s[i].ga = ga})
           /\ UnderWay(s, ga) \in Nat
<1>1. DOMAIN s = 1 .. Len(s) /\ Len(s) \in Nat
  OBVIOUS
<1>2. IsFiniteSet(1 .. Len(s))
  BY <1>1, FS_Interval
<1>3. IsFiniteSet({i \in DOMAIN s : s[i].ga = ga})
  BY <1>1, <1>2, FS_Subset
<1> QED BY <1>3, FS_CardinalityType DEF UnderWay

LEMMA CountAppended ==
    ASSUME NEW s \in Seq(Message), NEW m \in Message, NEW ga
    PROVE  UnderWay(Append(s, m), ga) =
               UnderWay(s, ga) + (IF m.ga = ga THEN 1 ELSE 0)
<1> DEFINE T == {i \in DOMAIN s : s[i].ga = ga}
           U == {i \in DOMAIN Append(s, m) : Append(s, m)[i].ga = ga}
<1>1. /\ Len(s) \in Nat /\ DOMAIN s = 1 .. Len(s)
      /\ DOMAIN Append(s, m) = 1 .. Len(s) + 1
      /\ Append(s, m)[Len(s) + 1] = m
      /\ \A i \in 1 .. Len(s) : Append(s, m)[i] = s[i]
  OBVIOUS
<1>2. IsFiniteSet(T) /\ Cardinality(T) \in Nat /\ UnderWay(s, ga) = Cardinality(T)
  BY Counted, FS_CardinalityType DEF UnderWay
<1>3. Len(s) + 1 \notin T
  BY <1>1
<1>4. UnderWay(Append(s, m), ga) = Cardinality(U)
  BY DEF UnderWay
<1>5. CASE m.ga = ga
  <2>1. U = T \cup {Len(s) + 1}
    BY <1>1, <1>5
  <2>2. Cardinality(U) = Cardinality(T) + 1
    <3> HIDE DEF T, U
    <3> QED BY <1>2, <1>3, <2>1, FS_AddElement
  <2> QED BY <1>2, <1>4, <1>5, <2>2
<1>6. CASE m.ga # ga
  <2>1. U = T
    BY <1>1, <1>6
  <2> HIDE DEF T, U
  <2> QED BY <1>2, <1>4, <1>6, <2>1
<1> QED BY <1>5, <1>6

\* Numbers moved up by n are as many.
LEMMA ShiftedCount ==
    ASSUME NEW T, T \subseteq Nat, IsFiniteSet(T), NEW n \in Nat
    PROVE  LET U == {i + n : i \in T}
           IN  IsFiniteSet(U) /\ Cardinality(U) = Cardinality(T)
<1> DEFINE U == {i + n : i \in T}
           f == [i \in T |-> i + n]
<1>1. f \in [T -> U]
  OBVIOUS
<1>2. \A i, j \in T : f[i] = f[j] => i = j
  OBVIOUS
<1>3. \A u \in U : \E i \in T : f[i] = u
  OBVIOUS
<1>4. f \in Bijection(T, U)
  BY <1>1, <1>2, <1>3 DEF Bijection, Injection, Surjection, IsInjective
<1> HIDE DEF U, f
<1>5. ExistsBijection(T, U)
  BY <1>4 DEF ExistsBijection
<1>6. IsFiniteSet(U) /\ Cardinality(U) = Cardinality(T)
  BY <1>5, FS_Bijection
<1> QED BY <1>6 DEF U

LEMMA CountJoined ==
    ASSUME NEW s \in Seq(Message), NEW r \in Seq(Message), NEW ga
    PROVE  UnderWay(s \o r, ga) = UnderWay(s, ga) + UnderWay(r, ga)
<1> DEFINE T == {i \in DOMAIN s : s[i].ga = ga}
           R == {i \in DOMAIN r : r[i].ga = ga}
           U == {i + Len(s) : i \in R}
           W == {i \in DOMAIN (s \o r) : (s \o r)[i].ga = ga}
<1>1. /\ Len(s) \in Nat /\ DOMAIN s = 1 .. Len(s)
      /\ Len(r) \in Nat /\ DOMAIN r = 1 .. Len(r)
      /\ DOMAIN (s \o r) = 1 .. Len(s) + Len(r)
      /\ \A i \in 1 .. Len(s) : (s \o r)[i] = s[i]
      /\ \A i \in 1 .. Len(r) : (s \o r)[i + Len(s)] = r[i]
  OBVIOUS
<1>2. /\ IsFiniteSet(T) /\ IsFiniteSet(R)
      /\ Cardinality(T) \in Nat /\ Cardinality(R) \in Nat
  BY Counted DEF UnderWay
<1>3. R \subseteq Nat
  BY <1>1
<1>4. IsFiniteSet(U) /\ Cardinality(U) = Cardinality(R)
  <2> HIDE DEF R
  <2> QED BY <1>1, <1>2, <1>3, ShiftedCount
<1>5. W = T \cup U
  <2>1. ASSUME NEW i \in W PROVE i \in T \cup U
    <3>1. CASE i <= Len(s)
      BY <1>1, <3>1
    <3>2. CASE ~ (i <= Len(s))
      <4>1. i - Len(s) \in 1 .. Len(r) /\ i = (i - Len(s)) + Len(s)
        BY <1>1, <3>2
      <4>2. (s \o r)[i] = r[i - Len(s)]
        BY <1>1, <4>1
      <4>3. i - Len(s) \in R
        BY <1>1, <4>1, <4>2
      <4> QED BY <4>1, <4>3
    <3> QED BY <3>1, <3>2
  <2>2. T \subseteq W
    BY <1>1
  <2>3. U \subseteq W
    BY <1>1
  <2> QED BY <2>1, <2>2, <2>3
<1>6. T \cap U = {}
  BY <1>1
<1> HIDE DEF T, R, U, W
<1>7. Cardinality(W) = Cardinality(T) + Cardinality(R)
  <2>1. IsFiniteSet(T \cap U) /\ Cardinality(T \cap U) = 0
    BY <1>6, FS_EmptySet
  <2>2. Cardinality(T \cup U) = Cardinality(T) + Cardinality(U) - Cardinality(T \cap U)
    BY <1>2, <1>4, FS_Union
  <2> QED BY <1>2, <1>4, <1>5, <2>1, <2>2
<1> QED BY <1>7 DEF UnderWay, T, R, W

\* The first of a line and the rest of it.
LEMMA CountFirst ==
    ASSUME NEW s \in Seq(Message), s # <<>>, NEW ga
    PROVE  UnderWay(s, ga) = UnderWay(Tail(s), ga) + (IF s[1].ga = ga THEN 1 ELSE 0)
<1>1. /\ s[1] \in Message /\ Tail(s) \in Seq(Message) /\ <<>> \in Seq(Message)
      /\ Append(<<>>, s[1]) \in Seq(Message)
      /\ s = Append(<<>>, s[1]) \o Tail(s)
  OBVIOUS
<1>2. UnderWay(<<>>, ga) = 0
  <2>1. {i \in DOMAIN <<>> : <<>>[i].ga = ga} = {}
    OBVIOUS
  <2> QED BY <2>1, FS_EmptySet DEF UnderWay
<1>3. UnderWay(Append(<<>>, s[1]), ga) =
          UnderWay(<<>>, ga) + (IF s[1].ga = ga THEN 1 ELSE 0)
  BY <1>1, CountAppended
<1>4. \A first \in Seq(Message), rest \in Seq(Message) :
          UnderWay(first \o rest, ga) = UnderWay(first, ga) + UnderWay(rest, ga)
  BY CountJoined
<1>5. UnderWay(s, ga) = UnderWay(Append(<<>>, s[1]), ga) + UnderWay(Tail(s), ga)
  BY <1>1, <1>4, Zenon
<1>6. UnderWay(Tail(s), ga) \in Nat
  BY <1>1, Counted
<1> QED BY <1>2, <1>3, <1>5, <1>6

-----------------------------------------------------------------------------
(* The objects a poll serves, in order.                                     *)

\* The rank of a member tells it from the others, so that every rank up to
\* their number is somebody's.
LEMMA AscendingFacts ==
    ASSUME NEW S, S \subseteq Nat, IsFiniteSet(S)
    PROVE  /\ Cardinality(S) \in Nat
           /\ \A i \in 1 .. Cardinality(S) : Ascending(S)[i] \in S
           /\ \A a \in S : \E i \in 1 .. Cardinality(S) : Ascending(S)[i] = a
<1> DEFINE rank == [a \in S |-> Cardinality({b \in S : b <= a})]
           N == Cardinality(S)
<1>1. N \in Nat
  BY FS_CardinalityType
<1>2. \A a \in S : IsFiniteSet({b \in S : b <= a}) /\ rank[a] \in 1 .. N
  <2> TAKE a \in S
  <2> DEFINE B == {b \in S : b <= a}
  <2>1. IsFiniteSet(B) /\ Cardinality(B) <= N
    BY FS_Subset
  <2>2. Cardinality(B) \in Nat
    BY <2>1, FS_CardinalityType
  <2>3. B # {}
    OBVIOUS
  <2>4. Cardinality(B) # 0
    <3> HIDE DEF B
    <3> QED BY <2>1, <2>3, FS_EmptySet
  <2> QED BY <1>1, <2>1, <2>2, <2>4
<1>3. \A a, c \in S : a < c => rank[a] # rank[c]
  <2> TAKE a, c \in S
  <2> HAVE a < c
  <2> DEFINE B == {b \in S : b <= a}
             C == {b \in S : b <= c}
  <2>0. /\ a \in Nat /\ c \in Nat /\ a < c
        /\ \A b \in S : b \in Nat
    OBVIOUS
  <2>1. B \subseteq C /\ c \in C /\ c \notin B
    <3>1. \A b \in S : b <= a => b <= c
      BY <2>0
    <3>2. ~ (c <= a) /\ c <= c
      BY <2>0
    <3> QED BY <3>1, <3>2
  <2>2. IsFiniteSet(C)
    BY <1>2
  <2>3. Cardinality(B) # Cardinality(C)
    <3> HIDE DEF B, C
    <3> QED BY <2>1, <2>2, FS_Subset
  <2> QED BY <2>3
<1>4. rank \in Injection(S, 1 .. N)
  <2>1. rank \in [S -> 1 .. N]
    BY <1>2
  <2>2. \A a, c \in S : rank[a] = rank[c] => a = c
    BY <1>3
  <2> HIDE DEF rank, N
  <2> QED BY <2>1, <2>2 DEF Injection, IsInjective
<1>5. IsFiniteSet(1 .. N) /\ Cardinality(1 .. N) = N
  <2> HIDE DEF N
  <2> QED BY <1>1, FS_Interval
<1>6. rank \in Surjection(S, 1 .. N)
  <2> HIDE DEF rank
  <2> QED BY <1>4, <1>5, FS_Injection
<1>7. \A i \in 1 .. N : \E a \in S : rank[a] = i
  <2> HIDE DEF rank, N
  <2> QED BY <1>6 DEF Surjection
<1>8. \A i \in 1 .. N : Ascending(S)[i] = CHOOSE a \in S : rank[a] = i
  BY DEF Ascending
<1>9. \A i \in 1 .. N : Ascending(S)[i] \in S /\ rank[Ascending(S)[i]] = i
  <2> HIDE DEF rank, N
  <2> QED BY <1>7, <1>8
<1>10. \A a \in S : Ascending(S)[rank[a]] = a
  <2>1. \A a \in S : rank[a] \in 1 .. N
    BY <1>2
  <2>2. \A a, c \in S : rank[a] = rank[c] => a = c
    BY <1>3
  <2> HIDE DEF rank, N
  <2> QED BY <1>9, <2>1, <2>2
<1>11. \A a \in S : \E i \in 1 .. N : Ascending(S)[i] = a
  <2>1. \A a \in S : rank[a] \in 1 .. N
    BY <1>2
  <2> HIDE DEF rank, N
  <2> QED BY <1>10, <2>1
<1> QED BY <1>1, <1>9, <1>11

\* A poll sends a telegram to ga for every object it serves there.
LEMMA RequestsSuffice ==
    ASSUME NEW those, those \subseteq Asap, NEW ga
    PROVE  /\ requests(Ascending(those)) \in Seq(Message)
           /\ Cardinality({a \in those : resolve_group_address(a) = <<ga>>})
                  <= UnderWay(requests(Ascending(those)), ga)
<1> DEFINE q == Ascending(those)
           N == Cardinality(those)
           r == requests(q)
           A == {a \in those : resolve_group_address(a) = <<ga>>}
           J == {i \in DOMAIN r : r[i].ga = ga}
           I == {i \in 1 .. N : q[i] \in A}
           f == [i \in I |-> q[i]]
<1>1. those \subseteq Nat /\ IsFiniteSet(those)
  BY GroupAssumption, FS_Subset
<1>2. /\ N \in Nat
      /\ \A i \in 1 .. N : q[i] \in those
      /\ \A a \in those : \E i \in 1 .. N : q[i] = a
  BY <1>1, AscendingFacts
<1>3. DOMAIN q = 1 .. N
  BY DEF Ascending
<1>4. r = [i \in 1 .. N |-> Telegram(FALSE, resolve_group_address(q[i])[1])]
  BY <1>3 DEF requests
<1>5. \A i \in 1 .. N : Telegram(FALSE, resolve_group_address(q[i])[1]) \in Message
  BY <1>2 DEF Telegram, Message
<1>6. r \in Seq(Message)
  <2> HIDE DEF q, N, r
  <2>1. r \in [1 .. N -> Message]
    BY <1>4, <1>5
  <2> QED BY <1>2, <2>1
<1>7. IsFiniteSet(J) /\ Cardinality(J) \in Nat /\ UnderWay(r, ga) = Cardinality(J)
  <2> HIDE DEF r
  <2> QED BY <1>6, Counted, FS_CardinalityType DEF UnderWay
<1>8. I \in SUBSET J
  <2> HIDE DEF q, N
  <2> SUFFICES ASSUME NEW i \in 1 .. N, q[i] \in A PROVE i \in J
    OBVIOUS
  <2>1. resolve_group_address(q[i])[1] = ga
    OBVIOUS
  <2> QED BY <1>4, <2>1 DEF Telegram
<1>9. IsFiniteSet(I) /\ Cardinality(I) <= Cardinality(J)
  <2> HIDE DEF I, J
  <2> QED BY <1>7, <1>8, FS_Subset
<1>10. f \in Surjection(I, A)
  <2>1. f \in [I -> A]
    OBVIOUS
  <2>2. \A a \in A : \E i \in I : f[i] = a
    <3> HIDE DEF q, N
    <3> QED BY <1>2
  <2> HIDE DEF f, I, A
  <2> QED BY <2>1, <2>2 DEF Surjection
<1>11. IsFiniteSet(A) /\ Cardinality(A) <= Cardinality(I)
  <2> HIDE DEF f, I, A
  <2> QED BY <1>9, <1>10, FS_Surjection
<1>12. Cardinality(A) <= Cardinality(J)
  <2>1. Cardinality(A) \in Nat /\ Cardinality(I) \in Nat
    <3> HIDE DEF A, I
    <3> QED BY <1>9, <1>11, FS_CardinalityType
  <2> HIDE DEF A, I, J
  <2> QED BY <1>7, <1>9, <1>11, <2>1
<1> QED BY <1>6, <1>7, <1>12

-----------------------------------------------------------------------------
(* The inductive invariant.                                                 *)

Typed ==
    /\ comm_flag \in [Asap -> ComFlag]
    /\ unsent \subseteq Asap
    /\ outbox \in Seq(Message) /\ on_link \in Seq(Message)

Suffices ==
    \A ga \in GroupAddress :
        Cardinality(Waits(comm_flag, ga)) <= UnderWay(outbox, ga) + UnderWay(on_link, ga)

IInv == Typed /\ WrittenIsSent /\ Suffices

LEMMA WaitsFinite ==
    ASSUME NEW f, NEW ga
    PROVE  /\ IsFiniteSet(Waits(f, ga))
           /\ Cardinality(Waits(f, ga)) \in Nat
<1>1. Waits(f, ga) \in SUBSET Asap
  BY DEF Waits
<1>2. IsFiniteSet(Waits(f, ga))
  BY <1>1, GroupAssumption, FS_Subset
<1> QED BY <1>2, FS_CardinalityType

\* Whoever waits for fewer confirmations does not need more telegrams.
LEMMA FewerWait ==
    ASSUME NEW f, NEW g,
           \A a \in Asap : g[a] = "Transmitting" => f[a] = "Transmitting",
           NEW ga
    PROVE  Cardinality(Waits(g, ga)) <= Cardinality(Waits(f, ga))
<1>1. Waits(g, ga) \in SUBSET Waits(f, ga)
  BY DEF Waits
<1> QED BY <1>1, WaitsFinite, FS_Subset

\* A step in which no object starts to transmit and no telegram is sent or
\* confirmed.
LEMMA NoneStarts ==
    ASSUME Typed, Suffices, UNCHANGED <<outbox, on_link>>,
           comm_flag' \in [Asap -> ComFlag],
           \A a \in Asap : comm_flag'[a] = "Transmitting" => comm_flag[a] = "Transmitting"
    PROVE  Suffices'
<1>1. ASSUME NEW ga \in GroupAddress
      PROVE  Cardinality(Waits(comm_flag', ga)) <= UnderWay(outbox, ga) + UnderWay(on_link, ga)
  <2>1. Cardinality(Waits(comm_flag', ga)) <= Cardinality(Waits(comm_flag, ga))
    BY FewerWait
  <2>2. /\ Cardinality(Waits(comm_flag', ga)) \in Nat
        /\ Cardinality(Waits(comm_flag, ga)) \in Nat
    BY WaitsFinite
  <2>3. UnderWay(outbox, ga) \in Nat /\ UnderWay(on_link, ga) \in Nat
    BY Counted DEF Typed
  <2>4. Cardinality(Waits(comm_flag, ga)) <= UnderWay(outbox, ga) + UnderWay(on_link, ga)
    BY DEF Suffices
  <2> QED BY <2>1, <2>2, <2>3, <2>4
<1>2. \A ga : Waits(comm_flag, ga)' = Waits(comm_flag', ga)
  BY DEF Waits
<1> QED BY <1>1 DEF Suffices, UnderWay, Waits

-----------------------------------------------------------------------------
(* The application and the bus.                                             *)

LEMMA InitHolds == Init => IInv
<1> SUFFICES ASSUME Init PROVE IInv
  OBVIOUS
<1>1. Typed
  BY DEF Init, Typed, ComFlag
<1>2. WrittenIsSent
  BY DEF Init, WrittenIsSent
<1>3. \A ga : Waits(comm_flag, ga) = {}
  BY DEF Init, Waits
<1>4. Suffices
  <2> SUFFICES ASSUME NEW ga \in GroupAddress
               PROVE  Cardinality(Waits(comm_flag, ga)) <= UnderWay(outbox, ga) + UnderWay(on_link, ga)
    BY DEF Suffices
  <2>1. UnderWay(outbox, ga) \in Nat /\ UnderWay(on_link, ga) \in Nat
    BY <1>1, Counted DEF Typed
  <2>2. Cardinality(Waits(comm_flag, ga)) = 0
    BY <1>3, FS_EmptySet
  <2> QED BY <2>1, <2>2
<1> QED BY <1>1, <1>2, <1>4 DEF IInv

LEMMA WriteKeeps ==
    ASSUME IInv, NEW a \in Asap, NEW v \in Value, Write(a, v)
    PROVE  IInv'
<1>1. Typed'
  BY DEF IInv, Typed, Write, ComFlag
<1>2. WrittenIsSent'
  BY DEF IInv, Typed, WrittenIsSent, Write
<1>3. Suffices'
  <2>1. comm_flag' \in [Asap -> ComFlag]
    BY <1>1 DEF Typed
  <2>2. \A b \in Asap : comm_flag'[b] = "Transmitting" => comm_flag[b] = "Transmitting"
    BY DEF IInv, Typed, Write
  <2> QED BY <2>1, <2>2, NoneStarts DEF IInv, Write
<1> QED BY <1>1, <1>2, <1>3 DEF IInv

LEMMA WriteNoSendKeeps ==
    ASSUME IInv, NEW a \in Asap, NEW v \in Value, write_value_no_send(a, v)
    PROVE  IInv'
<1>1. Typed'
  BY DEF IInv, Typed, write_value_no_send, ComFlag
<1>2. WrittenIsSent'
  BY DEF IInv, Typed, WrittenIsSent, write_value_no_send
<1>3. Suffices'
  <2>1. comm_flag' \in [Asap -> ComFlag]
    BY <1>1 DEF Typed
  <2>2. \A b \in Asap : comm_flag'[b] = "Transmitting" => comm_flag[b] = "Transmitting"
    BY DEF IInv, Typed, write_value_no_send
  <2> QED BY <2>1, <2>2, NoneStarts DEF IInv, write_value_no_send
<1> QED BY <1>1, <1>2, <1>3 DEF IInv

LEMMA RequestReadKeeps ==
    ASSUME IInv, NEW S, RequestRead(S)
    PROVE  IInv'
<1>1. Typed'
  BY DEF IInv, Typed, RequestRead, ComFlag
<1>2. WrittenIsSent'
  BY DEF IInv, Typed, WrittenIsSent, RequestRead
<1>3. Suffices'
  <2>1. comm_flag' \in [Asap -> ComFlag]
    BY <1>1 DEF Typed
  <2>2. \A b \in Asap : comm_flag'[b] = "Transmitting" => comm_flag[b] = "Transmitting"
    BY DEF IInv, Typed, RequestRead
  <2> QED BY <2>1, <2>2, NoneStarts DEF IInv, RequestRead
<1> QED BY <1>1, <1>2, <1>3 DEF IInv

LEMMA TakeKeeps ==
    ASSUME IInv, NEW a \in Asap, Take(a)
    PROVE  IInv'
<1>1. Typed'
  BY DEF IInv, Typed, Take, ComFlag
<1>2. WrittenIsSent'
  BY DEF IInv, Typed, WrittenIsSent, Take
<1>3. Suffices'
  <2>1. comm_flag' \in [Asap -> ComFlag]
    BY <1>1 DEF Typed
  <2>2. \A b \in Asap : comm_flag'[b] = "Transmitting" => comm_flag[b] = "Transmitting"
    BY DEF IInv, Typed, Take
  <2> QED BY <2>1, <2>2, NoneStarts DEF IInv, Take
<1> QED BY <1>1, <1>2, <1>3 DEF IInv

LEMMA UpdateKeeps ==
    ASSUME IInv, NEW ga, NEW v, NEW flag, UpdateFromBus(ga, v, flag)
    PROVE  IInv'
<1>0. PICK those \in SUBSET Asap :
          /\ comm_flag' = [a \in Asap |-> IF a \in those THEN "Updated" ELSE comm_flag[a]]
          /\ unsent' = unsent \ those
          /\ UNCHANGED <<outbox, on_link>>
  BY DEF UpdateFromBus
<1>1. Typed'
  BY <1>0 DEF IInv, Typed, ComFlag
<1>2. WrittenIsSent'
  BY <1>0 DEF IInv, Typed, WrittenIsSent
<1>3. Suffices'
  <2>1. comm_flag' \in [Asap -> ComFlag]
    BY <1>1 DEF Typed
  <2>2. \A b \in Asap : comm_flag'[b] = "Transmitting" => comm_flag[b] = "Transmitting"
    BY <1>0 DEF IInv, Typed
  <2> QED BY <1>0, <2>1, <2>2, NoneStarts DEF IInv
<1> QED BY <1>1, <1>2, <1>3 DEF IInv

\* A response is one telegram more.
LEMMA ReadKeeps ==
    ASSUME IInv, NEW ga \in GroupAddress, handle_group_value_read(ga)
    PROVE  IInv'
<1> DEFINE m == Telegram(TRUE, ga)
<1>0. /\ outbox' = Append(outbox, m)
      /\ UNCHANGED <<comm_flag, on_link, unsent>>
  BY DEF handle_group_value_read, objects
<1>1. m \in Message
  BY DEF Telegram, Message
<1>2. Typed'
  <2> HIDE DEF m
  <2>1. Append(outbox, m) \in Seq(Message)
    BY <1>1 DEF IInv, Typed
  <2> QED BY <1>0, <2>1 DEF IInv, Typed
<1>3. WrittenIsSent'
  BY <1>0 DEF IInv, WrittenIsSent
<1>4. ASSUME NEW h \in GroupAddress
      PROVE  Cardinality(Waits(comm_flag, h)) <= UnderWay(outbox', h) + UnderWay(on_link, h)
  <2>1. UnderWay(outbox, h) \in Nat /\ UnderWay(on_link, h) \in Nat
    BY Counted DEF IInv, Typed
  <2>2. UnderWay(outbox', h) = UnderWay(outbox, h) + (IF m.ga = h THEN 1 ELSE 0)
    <3> HIDE DEF m
    <3> QED BY <1>0, <1>1, CountAppended DEF IInv, Typed
  <2>3. Cardinality(Waits(comm_flag, h)) \in Nat
    BY WaitsFinite
  <2>4. Cardinality(Waits(comm_flag, h)) <= UnderWay(outbox, h) + UnderWay(on_link, h)
    BY DEF IInv, Suffices
  <2> HIDE DEF m
  <2> QED BY <2>1, <2>2, <2>3, <2>4
<1>5. Suffices'
  BY <1>0, <1>4 DEF Suffices, UnderWay, Waits
<1> QED BY <1>2, <1>3, <1>5 DEF IInv

-----------------------------------------------------------------------------
(* poll and the link.                                                       *)

\* Every object that starts to transmit has a telegram of its own.
LEMMA PollKeeps ==
    ASSUME IInv, poll
    PROVE  IInv'
<1> DEFINE those == {a \in Pending : sendable(a)}
           r == requests(Ascending(those))
<1>0. /\ outbox' = outbox \o r
      /\ comm_flag' = [a \in Asap |-> IF pending(a) THEN polled_flag(a) ELSE comm_flag[a]]
      /\ unsent' = {a \in unsent : ~ (comm_flag[a] = "WriteRequest"
                                      /\ polled_flag(a) = "Transmitting")}
      /\ UNCHANGED on_link
  BY DEF poll
<1>1. those \subseteq Asap
  BY DEF Pending
<1>2. r \in Seq(Message)
  <2> HIDE DEF those
  <2> QED BY <1>1, RequestsSuffice
<1>3. Typed'
  <2>1. outbox' \in Seq(Message)
    <3> HIDE DEF r
    <3> QED BY <1>0, <1>2 DEF IInv, Typed
  <2>2. comm_flag' \in [Asap -> ComFlag]
    BY <1>0 DEF IInv, Typed, polled_flag, ComFlag
  <2> QED BY <1>0, <2>1, <2>2 DEF IInv, Typed
<1>4. WrittenIsSent'
  <2> SUFFICES ASSUME NEW a \in unsent' PROVE comm_flag'[a] \in {"WriteRequest", "Error"}
    BY DEF WrittenIsSent
  <2>1. /\ a \in unsent /\ a \in Asap
        /\ ~ (comm_flag[a] = "WriteRequest" /\ polled_flag(a) = "Transmitting")
    BY <1>0 DEF IInv, Typed
  <2>2. comm_flag[a] \in {"WriteRequest", "Error"}
    BY <2>1 DEF IInv, WrittenIsSent
  <2>3. CASE comm_flag[a] = "WriteRequest"
    BY <1>0, <2>1, <2>3 DEF polled_flag, pending
  <2>4. CASE comm_flag[a] = "Error"
    BY <1>0, <2>1, <2>4 DEF pending
  <2> QED BY <2>2, <2>3, <2>4
<1>5. ASSUME NEW ga \in GroupAddress
      PROVE  Cardinality(Waits(comm_flag', ga)) <= UnderWay(outbox', ga) + UnderWay(on_link, ga)
  <2> DEFINE A == {a \in those : resolve_group_address(a) = <<ga>>}
             W == Waits(comm_flag, ga)
  <2>1. Waits(comm_flag', ga) \in SUBSET (W \cup A)
    <3> SUFFICES ASSUME NEW a \in Asap, comm_flag'[a] = "Transmitting",
                        resolve_group_address(a) = <<ga>>, a \notin those
                 PROVE  comm_flag[a] = "Transmitting"
      BY DEF Waits
    <3>1. CASE pending(a)
      BY <1>0, <3>1 DEF polled_flag, Pending
    <3>2. CASE ~ pending(a)
      BY <1>0, <3>2
    <3> QED BY <3>1, <3>2
  <2>2. IsFiniteSet(A) /\ Cardinality(A) \in Nat
    <3>1. A \in SUBSET Asap
      BY <1>1
    <3> HIDE DEF A
    <3> QED BY <3>1, GroupAssumption, FS_Subset, FS_CardinalityType
  <2>3. IsFiniteSet(W) /\ Cardinality(W) \in Nat
    BY WaitsFinite
  <2>4. Cardinality(Waits(comm_flag', ga)) <= Cardinality(W) + Cardinality(A)
    <3> HIDE DEF A, W
    <3>1. /\ IsFiniteSet(W \cup A)
          /\ Cardinality(W \cup A) = Cardinality(W) + Cardinality(A) - Cardinality(W \cap A)
      BY <2>2, <2>3, FS_Union
    <3>2. Cardinality(W \cap A) \in Nat
      BY <2>2, FS_Intersection, FS_CardinalityType
    <3>3. Cardinality(Waits(comm_flag', ga)) <= Cardinality(W \cup A)
      BY <2>1, <3>1, FS_Subset
    <3>4. Cardinality(Waits(comm_flag', ga)) \in Nat /\ Cardinality(W \cup A) \in Nat
      BY <3>1, WaitsFinite, FS_CardinalityType
    <3> QED BY <2>2, <2>3, <3>1, <3>2, <3>3, <3>4
  <2>5. Cardinality(A) <= UnderWay(r, ga)
    <3> HIDE DEF those
    <3> QED BY <1>1, RequestsSuffice
  <2>6. UnderWay(outbox', ga) = UnderWay(outbox, ga) + UnderWay(r, ga)
    <3> HIDE DEF r
    <3> QED BY <1>0, <1>2, CountJoined DEF IInv, Typed
  <2>7. /\ UnderWay(outbox, ga) \in Nat /\ UnderWay(on_link, ga) \in Nat
        /\ UnderWay(r, ga) \in Nat
    <3> HIDE DEF r
    <3> QED BY <1>2, Counted DEF IInv, Typed
  <2>8. Cardinality(W) <= UnderWay(outbox, ga) + UnderWay(on_link, ga)
    BY DEF IInv, Suffices
  <2>9. Cardinality(Waits(comm_flag', ga)) \in Nat
    BY WaitsFinite
  <2> HIDE DEF A, W, r, those
  <2> QED BY <2>2, <2>3, <2>4, <2>5, <2>6, <2>7, <2>8, <2>9
<1>6. Suffices'
  BY <1>0, <1>5 DEF Suffices, UnderWay, Waits
<1> QED BY <1>3, <1>4, <1>6 DEF IInv

\* A telegram goes from one line to the other.
LEMMA SendKeeps ==
    ASSUME IInv, next_outgoing_frame
    PROVE  IInv'
<1> DEFINE m == outbox[1]
<1>0. /\ outbox # <<>> /\ outbox' = Tail(outbox)
      /\ on_link' = Append(on_link, Head(outbox))
      /\ UNCHANGED <<comm_flag, unsent>>
  BY DEF next_outgoing_frame, objects
<1>1. /\ outbox \in Seq(Message) /\ on_link \in Seq(Message)
      /\ m \in Message /\ Head(outbox) = m /\ Tail(outbox) \in Seq(Message)
  BY <1>0 DEF IInv, Typed
<1>2. Typed'
  <2> HIDE DEF m
  <2>1. Append(on_link, m) \in Seq(Message)
    BY <1>1
  <2> QED BY <1>0, <1>1, <2>1 DEF IInv, Typed
<1>3. WrittenIsSent'
  BY <1>0 DEF IInv, WrittenIsSent
<1>4. \A ga : /\ UnderWay(outbox, ga) = UnderWay(Tail(outbox), ga) + (IF m.ga = ga THEN 1 ELSE 0)
              /\ UnderWay(Append(on_link, m), ga) = UnderWay(on_link, ga) + (IF m.ga = ga THEN 1 ELSE 0)
              /\ UnderWay(Tail(outbox), ga) \in Nat
              /\ UnderWay(on_link, ga) \in Nat
  <2> TAKE ga
  <2>1. UnderWay(outbox, ga) = UnderWay(Tail(outbox), ga) + (IF m.ga = ga THEN 1 ELSE 0)
    BY <1>0, <1>1, CountFirst
  <2>2. UnderWay(Append(on_link, m), ga) = UnderWay(on_link, ga) + (IF m.ga = ga THEN 1 ELSE 0)
    <3> HIDE DEF m
    <3> QED BY <1>1, CountAppended
  <2>3. UnderWay(Tail(outbox), ga) \in Nat /\ UnderWay(on_link, ga) \in Nat
    BY <1>1, Counted
  <2> QED BY <2>1, <2>2, <2>3
<1>5. \A ga : UnderWay(outbox', ga) + UnderWay(on_link', ga) =
                  UnderWay(outbox, ga) + UnderWay(on_link, ga)
  <2> TAKE ga
  <2> HIDE DEF m
  <2> QED BY <1>0, <1>1, <1>4
<1>6. Suffices'
  BY <1>0, <1>5 DEF IInv, Suffices, UnderWay, Waits
<1> QED BY <1>2, <1>3, <1>6 DEF IInv

LEMMA LowestFacts ==
    ASSUME NEW S, S \subseteq Nat, S # {}
    PROVE  Lowest(S) \in S
<1>1. PICK a \in S : \A b \in S : <<b, a>> \notin OpToRel(<, Nat)
  BY NatLessThanWellFounded, WFMin
<1>2. \A b \in S : ~ (b < a)
  BY <1>1 DEF OpToRel
<1>3. \A b \in S : a <= b
  BY <1>2
<1> QED BY <1>3 DEF Lowest

\* A confirmation takes one telegram to an address off the link, and one
\* object there, if any waits, out of Transmitting.
LEMMA ConfirmKeeps ==
    ASSUME IInv, NEW success \in BOOLEAN, handle_transmit_confirmation(success)
    PROVE  IInv'
<1> DEFINE m == on_link[1]
           those == Waits(comm_flag, m.ga)
           done == IF success THEN "Ok" ELSE "Error"
<1>0. /\ on_link # <<>> /\ on_link' = Tail(on_link)
      /\ comm_flag' = IF those = {} THEN comm_flag
                      ELSE [comm_flag EXCEPT ![Lowest(those)] = done]
      /\ UNCHANGED <<outbox, unsent>>
  BY DEF handle_transmit_confirmation, confirmed_object, Waits
<1>1. /\ on_link \in Seq(Message) /\ outbox \in Seq(Message)
      /\ m \in Message /\ Tail(on_link) \in Seq(Message)
  BY <1>0 DEF IInv, Typed
<1>2. those # {} => /\ Lowest(those) \in Asap
                    /\ Lowest(those) \in those
                    /\ comm_flag[Lowest(those)] = "Transmitting"
  <2>1. those \subseteq Asap /\ those \subseteq Nat
    BY GroupAssumption DEF Waits
  <2>2. those # {} => Lowest(those) \in those
    <3> HIDE DEF those
    <3> QED BY <2>1, LowestFacts
  <2> QED BY <2>1, <2>2 DEF Waits
<1>3. done \in {"Ok", "Error"}
  OBVIOUS
<1>4. Typed'
  <2>1. comm_flag' \in [Asap -> ComFlag]
    <3> HIDE DEF those, done
    <3> QED BY <1>0, <1>2, <1>3 DEF IInv, Typed, ComFlag
  <2> QED BY <1>0, <1>1, <2>1 DEF IInv, Typed
<1>5. WrittenIsSent'
  <2> HIDE DEF those, done
  <2> QED BY <1>0, <1>2, <1>3 DEF IInv, Typed, WrittenIsSent
<1>6. ASSUME NEW ga \in GroupAddress
      PROVE  Cardinality(Waits(comm_flag', ga)) <= UnderWay(outbox, ga) + UnderWay(on_link', ga)
  <2> DEFINE W == Waits(comm_flag, ga)
             V == Waits(comm_flag', ga)
  <2>1. /\ UnderWay(outbox, ga) \in Nat /\ UnderWay(on_link', ga) \in Nat
        /\ UnderWay(on_link, ga) = UnderWay(on_link', ga) + (IF m.ga = ga THEN 1 ELSE 0)
    BY <1>0, <1>1, Counted, CountFirst
  <2>2. Cardinality(W) <= UnderWay(outbox, ga) + UnderWay(on_link, ga)
    BY DEF IInv, Suffices
  <2>3. /\ IsFiniteSet(W) /\ Cardinality(W) \in Nat
        /\ IsFiniteSet(V) /\ Cardinality(V) \in Nat
    BY WaitsFinite
  <2>4. V \subseteq W
    <3>1. \A a \in Asap : comm_flag'[a] = "Transmitting" => comm_flag[a] = "Transmitting"
      <4> HIDE DEF those, done
      <4> QED BY <1>0, <1>2, <1>3 DEF IInv, Typed
    <3> QED BY <3>1 DEF Waits
  <2>5. CASE m.ga # ga
    <3>1. Cardinality(V) <= Cardinality(W)
      <4> HIDE DEF V, W
      <4> QED BY <2>3, <2>4, FS_Subset
    <3> HIDE DEF V, W, m
    <3> QED BY <2>1, <2>2, <2>3, <2>5, <3>1 DEF V
  <2>6. CASE m.ga = ga /\ those = {}
    <3>1. V = {}
      BY <2>4, <2>6
    <3>2. Cardinality(V) = 0
      BY <3>1, FS_EmptySet
    <3> QED BY <2>1, <3>2
  <2>7. CASE m.ga = ga /\ those # {}
    <3>1. V \in SUBSET (W \ {Lowest(those)}) /\ Lowest(those) \in W
      <4>1. comm_flag'[Lowest(those)] # "Transmitting"
        <5> HIDE DEF those, done
        <5> QED BY <1>0, <1>2, <1>3, <2>7 DEF IInv, Typed
      <4>2. Lowest(those) \notin V
        BY <4>1 DEF Waits
      <4>3. Lowest(those) \in W
        BY <1>2, <2>7
      <4> HIDE DEF V, W, those
      <4> QED BY <2>4, <4>2, <4>3
    <3>2. Cardinality(V) <= Cardinality(W) - 1
      <4> HIDE DEF V, W, those
      <4>1. /\ IsFiniteSet(W \ {Lowest(those)})
            /\ Cardinality(W \ {Lowest(those)}) = Cardinality(W) - 1
        BY <2>3, <3>1, FS_RemoveElement
      <4> QED BY <3>1, <4>1, FS_Subset
    <3> HIDE DEF V, W, m, those
    <3> QED BY <2>1, <2>2, <2>3, <2>7, <3>2 DEF V
  <2> QED BY <2>5, <2>6, <2>7
<1>7. Suffices'
  BY <1>0, <1>6 DEF Suffices, UnderWay, Waits
<1> QED BY <1>4, <1>5, <1>7 DEF IInv

-----------------------------------------------------------------------------
LEMMA StutterKeeps ==
    ASSUME IInv, UNCHANGED <<comm_flag, outbox, on_link, unsent>>
    PROVE  IInv'
BY DEF IInv, Typed, WrittenIsSent, Suffices, UnderWay, Waits

LEMMA NextKeeps ==
    ASSUME IInv, [Next]_vars
    PROVE  IInv'
<1>1. ASSUME NEW a \in Asap, NEW v \in Value, Write(a, v) PROVE IInv'
  BY <1>1, WriteKeeps
<1>2. ASSUME NEW a \in Asap, NEW v \in Value, write_value_no_send(a, v) PROVE IInv'
  BY <1>2, WriteNoSendKeeps
<1>3. ASSUME NEW a \in Asap, request_object_read(a) PROVE IInv'
  BY <1>3, RequestReadKeeps DEF request_object_read
<1>4. ASSUME NEW a \in Asap, Take(a) PROVE IInv'
  BY <1>4, TakeKeeps
<1>5. CASE init_read_requests
  BY <1>5, RequestReadKeeps DEF init_read_requests
<1>6. ASSUME NEW ga \in GroupAddress, NEW v \in Value, NEW flag \in {"write", "update"},
             UpdateFromBus(ga, v, flag)
      PROVE  IInv'
  BY <1>6, UpdateKeeps
<1>7. ASSUME NEW ga \in GroupAddress, handle_group_value_read(ga) PROVE IInv'
  BY <1>7, ReadKeeps
<1>8. CASE poll
  BY <1>8, PollKeeps
<1>9. CASE next_outgoing_frame
  BY <1>9, SendKeeps
<1>10. ASSUME NEW success \in BOOLEAN, handle_transmit_confirmation(success) PROVE IInv'
  BY <1>10, ConfirmKeeps
<1>11. ASSUME NEW c \in BOOLEAN, SetConfigured(c) PROVE IInv'
  BY <1>11, StutterKeeps DEF SetConfigured, objects
<1>12. CASE UNCHANGED vars
  BY <1>12, StutterKeeps DEF vars, objects
<1> QED
  BY <1>1, <1>2, <1>3, <1>4, <1>5, <1>6, <1>7, <1>8, <1>9, <1>10, <1>11, <1>12
     DEF Next, Application, Bus, Link

LEMMA Invariance == Spec => []IInv
BY InitHolds, NextKeeps, PTL DEF Spec

\* A value the application wrote last is pending, or its object says that it
\* failed, until poll has made a telegram of it, whatever confirmations come
\* in between (handle_transmit_confirmation).
THEOREM NoValueForgotten == Spec => []WrittenIsSent
<1>1. IInv => WrittenIsSent
  BY DEF IInv
<1> QED BY <1>1, Invariance, PTL

\* For every object in Transmitting there is a telegram to its address that
\* handle_transmit_confirmation will be called for.
THEOREM NobodyWaitsInVain == Spec => []ConfirmationsSuffice
<1>1. IInv => ConfirmationsSuffice
  BY DEF IInv, Suffices, ConfirmationsSuffice, Waits
<1> QED BY <1>1, Invariance, PTL

-----------------------------------------------------------------------------
(* How addresses are written: an address and its levels stand for each      *)
(* other, for all 65536 of them.                                            *)

Text == INSTANCE Addresses

LEMMA RawAddressFacts == \A n : n \in Text!RawAddress <=> n \in Int /\ 0 <= n /\ n <= 65535
BY DEF Text!RawAddress, Text!Word

LEMMA SegmentFacts == \A n : n \in Text!Octet <=> n \in Int /\ 0 <= n /\ n <= 255
BY DEF Text!Octet

LEMMA IndividualLevels ==
    ASSUME NEW raw \in Text!RawAddress
    PROVE  /\ Text!area(raw) \in 0 .. 15
           /\ Text!line(raw) \in 0 .. 15
           /\ Text!device(raw) \in Text!Octet
           /\ Text!area(raw) * 4096 + Text!line(raw) * 256 + Text!device(raw) = raw
<1>0. raw \in Int /\ 0 <= raw /\ raw <= 65535
    BY ONLY raw \in Text!RawAddress, RawAddressFacts
<1>1. Text!area(raw) \in 0 .. 15
    BY ONLY <1>0 DEF Text!area
<1>2. Text!line(raw) \in 0 .. 15
    BY ONLY <1>0 DEF Text!line
<1>3. Text!device(raw) \in Text!Octet
    BY ONLY <1>0, SegmentFacts DEF Text!device
<1>4. Text!area(raw) * 4096 + Text!line(raw) * 256 + Text!device(raw) = raw
    BY ONLY <1>0 DEF Text!area, Text!line, Text!device
<1> QED
    BY ONLY <1>1, <1>2, <1>3, <1>4

LEMMA GroupLevels ==
    ASSUME NEW raw \in Text!RawAddress
    PROVE  /\ Text!main(raw) \in 0 .. 31
           /\ Text!middle(raw) \in 0 .. 7
           /\ Text!sub(raw) \in Text!Octet
           /\ Text!sub_2level(raw) \in Int
           /\ 0 <= Text!sub_2level(raw) /\ Text!sub_2level(raw) <= 2047
           /\ Text!main(raw) * 2048 + Text!middle(raw) * 256 + Text!sub(raw) = raw
           /\ Text!main(raw) * 2048 + Text!sub_2level(raw) = raw
<1>0. raw \in Int /\ 0 <= raw /\ raw <= 65535
    BY ONLY raw \in Text!RawAddress, RawAddressFacts
<1>1. PICK q \in Int, r \in Int : /\ q = raw \div 2048 /\ r = raw % 2048
                                  /\ 0 <= r /\ r <= 2047 /\ q * 2048 + r = raw
    BY ONLY <1>0
<1>2. Text!main(raw) \in 0 .. 31
    <2>1. 0 <= q /\ q <= 31
        BY ONLY <1>0, <1>1
    <2>2. Text!main(raw) = q
        BY ONLY <1>1 DEF Text!main
    <2> QED
        BY ONLY <2>1, <2>2, q \in Int
<1>3. Text!middle(raw) \in 0 .. 7
    BY ONLY <1>0 DEF Text!middle
<1>4. Text!sub(raw) \in Text!Octet
    BY ONLY <1>0, SegmentFacts DEF Text!sub
<1>5. Text!sub_2level(raw) = r /\ Text!main(raw) = q
    BY ONLY <1>1 DEF Text!sub_2level, Text!main
<1>6. Text!main(raw) * 2048 + Text!middle(raw) * 256 + Text!sub(raw) = raw
    BY ONLY <1>0 DEF Text!main, Text!middle, Text!sub
<1> QED
    BY ONLY <1>1, <1>2, <1>3, <1>4, <1>5, <1>6

(* Display and FromStr of IndividualAddress agree: what is printed is read *)
(* back as the same address, whichever it is.                              *)
THEOREM IndividualReadBack ==
    \A raw \in Text!RawAddress : Text!parse_individual(Text!individual_text(raw)) = Text!Ok(raw)
<1> SUFFICES ASSUME NEW raw \in Text!RawAddress
             PROVE  Text!parse_individual(Text!individual_text(raw)) = Text!Ok(raw)
    OBVIOUS
<1>1. PICK a \in 0 .. 15, l \in 0 .. 15, d \in Text!Octet :
          /\ Text!individual_text(raw) = <<a, l, d>>
          /\ a * 4096 + l * 256 + d = raw
    BY IndividualLevels DEF Text!individual_text
<1>2. Text!new_individual(a, l, d) = [ok |-> raw]
    BY <1>1 DEF Text!new_individual, Text!IA_NIBBLE_MASK, Text!Ok
<1>3. Text!parse_u8(a) = [ok |-> a] /\ Text!parse_u8(l) = [ok |-> l] /\ Text!parse_u8(d) = [ok |-> d]
    BY DEF Text!parse_u8, Text!Octet, Text!Ok
<1>4. Text!parse_individual(<<a, l, d>>) = Text!new_individual(a, l, d)
    BY <1>3 DEF Text!parse_individual, Text!Then, Text!IsOk
<1> QED
    BY <1>1, <1>2, <1>4 DEF Text!Ok

(* So do Display and FromStr of GroupAddress, of three levels ...           *)
THEOREM GroupReadBack ==
    \A raw \in Text!RawAddress : Text!parse_group(Text!group_text(raw)) = Text!Ok(raw)
<1> SUFFICES ASSUME NEW raw \in Text!RawAddress
             PROVE  Text!parse_group(Text!group_text(raw)) = Text!Ok(raw)
    OBVIOUS
<1>1. PICK m \in 0 .. 31, i \in 0 .. 7, s \in Text!Octet :
          /\ Text!group_text(raw) = <<m, i, s>>
          /\ m * 2048 + i * 256 + s = raw
    BY GroupLevels DEF Text!group_text
<1>2. Text!new_3level(m, i, s) = [ok |-> raw]
    BY <1>1 DEF Text!new_3level, Text!GA_MAIN_MASK, Text!GA_MIDDLE_MASK, Text!Ok
<1>3. Text!parse_u8(m) = [ok |-> m] /\ Text!parse_u8(i) = [ok |-> i] /\ Text!parse_u8(s) = [ok |-> s]
    BY DEF Text!parse_u8, Text!Octet, Text!Ok
<1>4. Text!parse_group(<<m, i, s>>) = Text!new_3level(m, i, s)
    BY <1>3 DEF Text!parse_group, Text!Then, Text!IsOk
<1> QED
    BY <1>1, <1>2, <1>4 DEF Text!Ok

(* ... and a text of two levels names the address with these levels.        *)
THEOREM TwoLevelsReadBack ==
    \A raw \in Text!RawAddress : Text!parse_group(<<Text!main(raw), Text!sub_2level(raw)>>) = Text!Ok(raw)
<1> SUFFICES ASSUME NEW raw \in Text!RawAddress
             PROVE  Text!parse_group(<<Text!main(raw), Text!sub_2level(raw)>>) = Text!Ok(raw)
    OBVIOUS
<1>1. PICK m, s : m = Text!main(raw) /\ s = Text!sub_2level(raw)
    OBVIOUS
<1>2. m \in Int /\ 0 <= m /\ m <= 31 /\ s \in Int /\ 0 <= s /\ s <= 2047 /\ m * 2048 + s = raw
    BY ONLY <1>1, raw \in Text!RawAddress, GroupLevels
<1>3. Text!new_2level(m, s) = Text!Ok(raw)
    BY ONLY <1>2 DEF Text!new_2level, Text!GA_MAIN_MASK, Text!GA_SUB2_MASK
<1>4. Text!parse_u8(m) = Text!Ok(m) /\ Text!parse_u16(s) = Text!Ok(s)
    <2>1. m \in Text!Octet /\ s \in Text!RawAddress
        BY ONLY <1>2, SegmentFacts, RawAddressFacts
    <2> QED
        BY ONLY <2>1 DEF Text!parse_u8, Text!parse_u16
<1>5. Text!parse_group(<<m, s>>) = Text!new_2level(m, s)
    BY ONLY <1>4 DEF Text!parse_group, Text!Then, Text!IsOk, Text!Ok
<1> QED
    BY ONLY <1>1, <1>3, <1>5

=============================================================================
