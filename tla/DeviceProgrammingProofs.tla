------------------------ MODULE DeviceProgrammingProofs ------------------------
(***************************************************************************)
(* A device that a tool programs in order, for every size of its memory,   *)
(* every kind of octet, any sizes of tables and any length of the          *)
(* download: no two tables share memory, the runtime tables are those that *)
(* were loaded, and the device keeps the promise of LoadableTables.        *)
(*                                                                         *)
(* What the two invariants need besides themselves is in Device: of the    *)
(* tables that have a segment at most one still waits for its memory, a    *)
(* table that is loaded has all of it, and both hold of what is stored, so *)
(* that a restart finds them again.                                        *)
(***************************************************************************)
EXTENDS DeviceProgramming, Integers, TLAPS

Geometry(t) == t.state \in LoadState /\ t.data_offset \in Nat /\ t.data_size \in Nat
Spans(t) == t.state \in {"Loading", "Loaded"} /\ t.data_size > 0
Waits(t, m) == Spans(t) /\ segment_end(t) > Len(m)
Before(t, u) == segment_end(t) <= u.data_offset

Apart(ts) ==
    \A t, u \in Persisted :
        t # u /\ Spans(ts[t]) /\ Spans(ts[u]) => Before(ts[t], ts[u]) \/ Before(ts[u], ts[t])
Complete(ts, m) ==
    \A t \in Persisted : ts[t].state = "Loaded" => segment_end(ts[t]) <= Len(m)
OneWaits(ts, m) ==
    \A t, u \in Persisted : t # u /\ Waits(ts[t], m) => ~ Waits(ts[u], m)

Device(ts, m) ==
    /\ \A t \in Persisted : Geometry(ts[t])
    /\ m \in Seq(Octet) /\ Len(m) <= MAX_MEMORY_SIZE
    /\ Apart(ts) /\ Complete(ts, m) /\ OneWaits(ts, m)

ProgrammingInv ==
    /\ tables \in [Table -> TableObject]
    /\ runtime \in [Linking -> Seq(Octet)]
    /\ Device(tables, memory)
    /\ storage # <<>> => Device(storage[1].tables, storage[1].memory)
    /\ RuntimeFollowsLoaded

-----------------------------------------------------------------------------
(* The memory.                                                             *)

LEMMA OverlaidFacts ==
    ASSUME NEW m \in Seq(Octet), NEW a \in Nat, NEW os \in Seq(Octet)
    PROVE  LET after == overlaid(m, a, os)
           IN  /\ after \in Seq(Octet)
               /\ Len(after) = IF a + Len(os) > Len(m) THEN a + Len(os) ELSE Len(m)
               /\ \A i \in 1 .. Len(m) : i <= a \/ i > a + Len(os) => after[i] = m[i]
<1> DEFINE n == a + Len(os)
           wide == resized(m, n)
<1>1. Len(m) \in Nat /\ Len(os) \in Nat /\ n \in Nat
    OBVIOUS
<1>2. /\ wide \in Seq(Octet) /\ Len(wide) = (IF n > Len(m) THEN n ELSE Len(m))
      /\ \A i \in 1 .. Len(m) : wide[i] = m[i]
    <2>1. CASE n > Len(m)
        <3>1. /\ zeros(n - Len(m)) \in Seq(Octet) /\ Len(zeros(n - Len(m))) = n - Len(m)
            BY <1>1, <2>1, MemoryAssumption DEF zeros
        <3>2. wide = m \o zeros(n - Len(m))
            BY <2>1 DEF resized
        <3> HIDE DEF n, wide
        <3> QED
            BY <1>1, <2>1, <3>1, <3>2
    <2>2. CASE ~ (n > Len(m))
        BY <1>1, <2>2 DEF resized
    <2> QED
        BY <2>1, <2>2
<1> DEFINE after == overlaid(m, a, os)
<1>3. after = [i \in 1 .. Len(wide) |-> IF i \in a + 1 .. n THEN os[i - a] ELSE wide[i]]
    BY DEF overlaid
<1> HIDE DEF wide, after
<1>4. Len(wide) \in Nat /\ \A i \in 1 .. Len(wide) : wide[i] \in Octet
    BY <1>2
<1>5. \A i \in 1 .. Len(wide) : i \in a + 1 .. n => os[i - a] \in Octet
    BY <1>1, <1>4
<1>6. after \in Seq(Octet) /\ Len(after) = Len(wide)
    BY <1>3, <1>4, <1>5
<1>7. \A i \in 1 .. Len(m) : i <= a \/ i > n => after[i] = m[i]
    <2> SUFFICES ASSUME NEW i \in 1 .. Len(m), i <= a \/ i > n PROVE after[i] = m[i]
        OBVIOUS
    <2>1. i \in 1 .. Len(wide) /\ i \notin a + 1 .. n
        BY <1>1, <1>2
    <2> QED
        BY <1>2, <1>3, <2>1
<1> QED
    BY <1>2, <1>6, <1>7 DEF after

LEMMA FillFacts ==
    ASSUME NEW m \in Seq(Octet), NEW n \in Nat, NEW b \in Octet,
           Len(m) <= MAX_MEMORY_SIZE
    PROVE  LET after == apply_fill(m, <<[offset |-> Len(m), size |-> n, byte |-> b]>>)
           IN  /\ after \in Seq(Octet) /\ Len(after) >= Len(m)
               /\ Len(after) <= MAX_MEMORY_SIZE
               /\ \A i \in 1 .. Len(m) : after[i] = m[i]
<1> DEFINE fill == <<[offset |-> Len(m), size |-> n, byte |-> b]>>
           os == [i \in 1 .. n |-> b]
<1>1. os \in Seq(Octet) /\ Len(os) = n /\ Len(m) \in Nat
    OBVIOUS
<1>2. fill # <<>> /\ fill[1].offset = Len(m) /\ fill[1].size = n /\ fill[1].byte = b
    OBVIOUS
<1>3. apply_fill(m, fill) = IF Len(m) + n > MAX_MEMORY_SIZE THEN m
                            ELSE overlaid(m, Len(m), os)
    BY <1>2 DEF apply_fill
<1> HIDE DEF fill, os
<1>4. CASE Len(m) + n > MAX_MEMORY_SIZE
    BY <1>1, <1>3, <1>4 DEF fill
<1>5. CASE ~ (Len(m) + n > MAX_MEMORY_SIZE)
    <2>1. /\ overlaid(m, Len(m), os) \in Seq(Octet)
          /\ Len(overlaid(m, Len(m), os)) = IF Len(m) + n > Len(m) THEN Len(m) + n ELSE Len(m)
          /\ \A i \in 1 .. Len(m) : overlaid(m, Len(m), os)[i] = m[i]
        BY <1>1, OverlaidFacts
    <2> DEFINE after == overlaid(m, Len(m), os)
    <2>2. apply_fill(m, fill) = after
        BY <1>3, <1>5
    <2> HIDE DEF after
    <2>3. /\ after \in Seq(Octet) /\ Len(after) >= Len(m) /\ Len(after) <= MAX_MEMORY_SIZE
          /\ \A i \in 1 .. Len(m) : after[i] = m[i]
        BY <1>1, <1>5, <2>1, MemoryAssumption DEF after
    <2> QED
        BY <2>2, <2>3 DEF fill
<1> QED
    BY <1>4, <1>5

-----------------------------------------------------------------------------
(* What is in a segment.                                                   *)

LEMMA GeometryFacts ==
    ASSUME NEW t, Geometry(t)
    PROVE  /\ segment_end(t) \in Nat /\ segment_end(t) >= t.data_offset
           /\ t.data_size > 0 <=> segment_end(t) > t.data_offset
           /\ t.data_offset \in Nat /\ t.data_size \in Nat
           /\ Phase(t) # "none" <=> t.state \in {"Loading", "Loaded"}
           /\ Phase(t) = "loaded" <=> t.state = "Loaded"
           /\ Phase(t) = "loading" <=> t.state = "Loading"
BY DEF Geometry, segment_end, Phase, LoadState

\* A table without a segment has no content, wherever its offset is.
LEMMA NoContent ==
    ASSUME NEW t, Geometry(t), ~ Spans(t), NEW m \in Seq(Octet)
    PROVE  Content(t, m) = <<>>
<1>1. CASE Phase(t) = "none" \/ segment_end(t) > Len(m)
    BY <1>1 DEF Content
<1>2. CASE ~ (Phase(t) = "none" \/ segment_end(t) > Len(m))
    <2>1. t.data_size = 0 /\ segment_end(t) = t.data_offset
        BY <1>2, GeometryFacts DEF Spans
    <2>2. Content(t, m) = SubSeq(m, t.data_offset + 1, t.data_offset)
        BY <1>2, <2>1 DEF Content
    <2> QED
        BY <2>2, GeometryFacts
<1> QED
    BY <1>1, <1>2

LEMMA SameContent ==
    ASSUME NEW t, Geometry(t), NEW m \in Seq(Octet), NEW m2 \in Seq(Octet),
           segment_end(t) <= Len(m), Len(m) <= Len(m2),
           \A i \in 1 .. Len(m) : t.data_offset < i /\ i <= segment_end(t) => m2[i] = m[i]
    PROVE  Content(t, m2) = Content(t, m)
<1>1. CASE Phase(t) = "none"
    BY <1>1 DEF Content
<1>2. CASE Phase(t) # "none"
    <2> DEFINE a == t.data_offset + 1  b == segment_end(t)
    <2>0. ~ (segment_end(t) > Len(m)) /\ ~ (segment_end(t) > Len(m2))
        BY GeometryFacts
    <2>1. Content(t, m) = SubSeq(m, a, b) /\ Content(t, m2) = SubSeq(m2, a, b)
        BY <1>2, <2>0, Zenon DEF Content
    <2>2. a \in Nat /\ a >= 1 /\ b \in Nat /\ b <= Len(m) /\ b <= Len(m2)
        BY GeometryFacts
    <2>3. \A i \in a .. b : m2[i] = m[i]
        BY <2>2, GeometryFacts
    <2> HIDE DEF a, b
    <2>4. SubSeq(m2, a, b) = SubSeq(m, a, b)
        BY <2>2, <2>3
    <2> QED
        BY <2>1, <2>4
<1> QED
    BY <1>1, <1>2

\* Where a table is loaded, data is its content.
LEMMA DataIsContent ==
    ASSUME NEW t, Geometry(t), t.state = "Loaded", NEW m \in Seq(Octet)
    PROVE  data(t, m) = Content(t, m)
<1>1. Phase(t) = "loaded" /\ segment_end(t) \in Nat /\ Len(m) \in Nat
    BY GeometryFacts DEF Phase
<1>2. CASE segment_end(t) <= Len(m) /\ ~ (segment_end(t) > Len(m))
    BY <1>1, <1>2 DEF data, Content
<1>3. CASE ~ (segment_end(t) <= Len(m)) /\ segment_end(t) > Len(m)
    BY <1>1, <1>3 DEF data, Content
<1> QED
    BY <1>1, <1>2, <1>3

-----------------------------------------------------------------------------
(* Steps that give no table a new segment, and those that allocate one.    *)

\* The table before has the segment of the table after, if that has one.
Within(t2, t) ==
    Spans(t2) => /\ Spans(t)
                 /\ t2.data_offset = t.data_offset /\ t2.data_size = t.data_size

LEMMA DeviceKept ==
    ASSUME NEW ts, NEW ts2, NEW m, NEW m2, Device(ts, m),
           m2 \in Seq(Octet), Len(m2) <= MAX_MEMORY_SIZE,
           \A t \in Persisted : Geometry(ts2[t]) /\ Within(ts2[t], ts[t]),
           Complete(ts2, m2),
           Len(m) <= Len(m2) \/ \A t \in Persisted : ~ Spans(ts2[t])
    PROVE  Device(ts2, m2)
<1>1. Apart(ts2)
    BY DEF Apart, Within, Before, segment_end, Device
<1>2. OneWaits(ts2, m2)
    <2> SUFFICES ASSUME NEW t \in Persisted, NEW u \in Persisted, t # u,
                        Waits(ts2[t], m2), Waits(ts2[u], m2)
                 PROVE  FALSE
        BY DEF OneWaits
    <2>1. Spans(ts2[t]) /\ Spans(ts2[u]) /\ Len(m) <= Len(m2)
        BY DEF Waits
    <2>2. /\ segment_end(ts2[t]) = segment_end(ts[t]) /\ segment_end(ts2[u]) = segment_end(ts[u])
          /\ Spans(ts[t]) /\ Spans(ts[u])
        BY <2>1 DEF Within, segment_end
    <2>3. /\ segment_end(ts2[t]) \in Nat /\ segment_end(ts2[u]) \in Nat
          /\ Len(m) \in Nat /\ Len(m2) \in Nat
        BY GeometryFacts DEF Device
    <2>4. segment_end(ts[t]) > Len(m) /\ segment_end(ts[u]) > Len(m)
        BY <2>1, <2>2, <2>3 DEF Waits
    <2> QED
        BY <2>2, <2>4 DEF Waits, OneWaits, Device
<1> QED
    BY <1>1, <1>2 DEF Device

\* An allocation behind everything that is in memory.
LEMMA DeviceGrows ==
    ASSUME NEW ts, NEW ts2, NEW m, NEW m2, NEW x \in Persisted, Device(ts, m),
           m2 \in Seq(Octet), Len(m) <= Len(m2), Len(m2) <= MAX_MEMORY_SIZE,
           \A t \in Persisted : ~ Waits(ts[t], m),
           \A t \in Persisted \ {x} : ts2[t] = ts[t],
           Geometry(ts2[x]), ts2[x].state = "Loading", ts2[x].data_offset = Len(m)
    PROVE  Device(ts2, m2)
<1>1. /\ Len(m) \in Nat /\ Len(m2) \in Nat
      /\ \A t \in Persisted : Geometry(ts[t]) /\ Geometry(ts2[t])
    BY DEF Device
<1>2. \A t \in Persisted : segment_end(ts[t]) \in Nat
    BY <1>1, GeometryFacts
<1>3. \A t \in Persisted : Spans(ts[t]) => segment_end(ts[t]) <= Len(m)
    BY <1>1, <1>2 DEF Waits
<1>4. \A t \in Persisted \ {x} : Spans(ts2[t]) => Before(ts2[t], ts2[x])
    BY <1>3 DEF Before
<1>5. Apart(ts2)
    BY <1>4 DEF Apart, Device
<1>6. Complete(ts2, m2)
    BY <1>1, <1>2 DEF Complete, Device
<1>7. \A t \in Persisted \ {x} : ~ Waits(ts2[t], m2)
    BY <1>1, <1>2, <1>3 DEF Waits
<1> QED
    BY <1>1, <1>5, <1>6, <1>7 DEF OneWaits, Device

-----------------------------------------------------------------------------
(* handle_load_event: it keeps the table, ends or starts a load, allocates *)
(* a segment behind the memory, or completes the load.                     *)

Ended(h) == h.fill = <<>> /\ ~ h.loaded /\ h.table.state \in {"Unloaded", "Error"}
Started(h) ==
    /\ h.fill = <<>> /\ ~ h.loaded /\ h.table.state = "Loading"
    /\ h.table.data_offset = 0 /\ h.table.data_size = 0
Reserved(t, e, n, h) ==
    /\ e.event = "AdditionalLoadControls" /\ e.allocates /\ e.size \in Nat
    /\ t.state = "Loading" /\ h.table.state = "Loading" /\ ~ h.loaded
    /\ h.table.data_offset = n /\ h.table.data_size = e.size
    /\ \/ h.fill = <<>>
       \/ e.byte \in Octet /\ h.fill = <<[offset |-> n, size |-> e.size, byte |-> e.byte]>>
Finished(t, e, h) ==
    /\ e.event = "LoadCompleted" /\ h.fill = <<>> /\ h.loaded
    /\ t.state = "Loading" /\ h.table.state = "Loaded"
    /\ h.table.data_offset = t.data_offset /\ h.table.data_size = t.data_size

LEMMA LoadEventFacts ==
    ASSUME NEW t \in TableObject, NEW e \in LoadEvent, NEW n \in Nat
    PROVE  LET h == handle_load_event(t, e, n)
           IN  /\ h.table \in TableObject
               /\ \/ h = Handled(t)
                  \/ Ended(h)
                  \/ Started(h)
                  \/ Reserved(t, e, n, h)
                  \/ Finished(t, e, h)
<1> DEFINE h == handle_load_event(t, e, n)
           Kinds == h = Handled(t) \/ Ended(h) \/ Started(h) \/ Reserved(t, e, n, h)
                    \/ Finished(t, e, h)
<1>1. ASSUME NEW error \in LoadError
      PROVE  failed(t, error) \in TableObject /\ Ended(Handled(failed(t, error)))
    BY DEF failed, TableObject, LoadState, Ended, Handled
<1>2. unloaded(t) \in TableObject /\ Ended(Handled(unloaded(t)))
    BY DEF unloaded, reset_data, TableObject, LoadState, Ended, Handled
<1>3. loading(t) \in TableObject /\ Started(Handled(loading(t)))
    BY DEF loading, reset_data, TableObject, LoadState, Started, Handled
<1>4. Handled(t).table = t /\ \A u : Handled(u).table = u
    BY DEF Handled
<1>5. CASE e.event = "Undefined"
    <2>1. h = Handled(failed(t, "UndefinedLoadCommand"))
        BY <1>5 DEF handle_load_event
    <2> QED
        BY <1>1, <1>4, <2>1 DEF LoadError
<1>6. CASE e.event # "Undefined" /\ t.state = "Unloaded"
    <2>1. h = on_unloaded(t, e)
        BY <1>6 DEF handle_load_event
    <2> QED
        BY <1>3, <1>4, <2>1 DEF on_unloaded
<1>7. CASE e.event # "Undefined" /\ t.state = "Loaded"
    <2>1. h = on_loaded(t, e)
        BY <1>7 DEF handle_load_event
    <2>2. \/ h = Handled(loading(t)) \/ h = Handled(unloaded(t))
          \/ h = Handled(failed(t, "InvalidOpcode")) \/ h = Handled(t)
        BY <2>1 DEF on_loaded
    <2> QED
        BY <1>1, <1>2, <1>3, <1>4, <2>2 DEF LoadError
<1>8. CASE e.event # "Undefined" /\ t.state = "Error"
    <2>1. h = on_error(t, e)
        BY <1>8 DEF handle_load_event
    <2> QED
        BY <1>2, <1>4, <2>1 DEF on_error
<1>9. CASE e.event # "Undefined" /\ t.state = "Loading"
    <2>1. h = on_loading(t, e, n)
        BY <1>9 DEF handle_load_event
    <2>2. CASE e.event = "LoadCompleted"
        <3>1. h = [table |-> [t EXCEPT !.state = "Loaded"], loaded |-> TRUE, fill |-> <<>>]
            BY <2>1, <2>2 DEF on_loading
        <3> QED
            BY <1>9, <2>2, <3>1 DEF TableObject, LoadState, Finished
    <2>3. CASE e.event = "AdditionalLoadControls"
        <3>1. h = handle_additional_load_controls(t, e, n)
            BY <2>1, <2>3 DEF on_loading
        <3>2. CASE ~ e.allocates \/ e.size > MAX_MEMORY_SIZE
            <4>1. \/ h = Handled(failed(t, "InvalidOpcode"))
                  \/ h = Handled(failed(t, "MaxTableLengthExceeded"))
                BY <3>1, <3>2 DEF handle_additional_load_controls
            <4> QED
                BY <1>1, <1>4, <4>1 DEF LoadError
        <3>3. CASE e.allocates /\ ~ (e.size > MAX_MEMORY_SIZE)
            <4>1. e.size \in Nat /\ (e.fill => e.byte \in Octet)
                BY <2>3, <3>3, ProgrammingAssumption, MemoryAssumption
                DEF LoadEvent, Plain, Misshapen, Allocation
            <4>2. h = [table |-> allocated(t, e.size, n), loaded |-> FALSE,
                       fill |-> IF e.fill
                                THEN <<[offset |-> n, size |-> e.size, byte |-> e.byte]>>
                                ELSE <<>>]
                BY <3>1, <3>3 DEF handle_additional_load_controls
            <4>3. /\ allocated(t, e.size, n) \in TableObject
                  /\ allocated(t, e.size, n).state = "Loading"
                  /\ allocated(t, e.size, n).data_offset = n
                  /\ allocated(t, e.size, n).data_size = e.size
                BY <1>9, <4>1 DEF allocated, TableObject
            <4>4. Reserved(t, e, n, h)
                BY <1>9, <2>3, <3>3, <4>1, <4>2, <4>3 DEF Reserved
            <4> QED
                BY <4>2, <4>3, <4>4
        <3> QED
            BY <3>2, <3>3
    <2>4. CASE e.event # "LoadCompleted" /\ e.event # "AdditionalLoadControls"
        <3>1. h = Handled(unloaded(t)) \/ h = Handled(t)
            BY <2>1, <2>4 DEF on_loading
        <3> QED
            BY <1>2, <1>4, <3>1
    <2> QED
        BY <2>2, <2>3, <2>4
<1>10. t.state \in {"Unloaded", "Loaded", "Loading", "Error"}
    BY DEF TableObject, LoadState
<1> QED
    BY <1>5, <1>6, <1>7, <1>8, <1>9, <1>10

-----------------------------------------------------------------------------
(* What a step means for the tables it is not about, for the runtime       *)
(* tables and for the promise.                                             *)

Kept(ts, m, ts2, m2, u) ==
    Phase(ts2[u]) = Phase(ts[u]) /\ Content(ts2[u], m2) = Content(ts[u], m)

RuntimeOf(ts, m, r) ==
    \A t \in Linking : ts[t].state = "Loaded" => r[t] = data(ts[t], m)

LEMMA TypeFacts ==
    ASSUME NEW t \in TableObject
    PROVE  Geometry(t) /\ t = [t EXCEPT !.state = t.state]
BY DEF TableObject, Geometry

LEMMA DataType ==
    ASSUME NEW t, Geometry(t), NEW m \in Seq(Octet)
    PROVE  data(t, m) \in Seq(Octet)
<1>1. segment_end(t) \in Nat /\ t.data_offset \in Nat /\ Len(m) \in Nat
    BY GeometryFacts
<1>2. CASE t.state = "Loaded" /\ segment_end(t) <= Len(m)
    <2>1. SubSeq(m, t.data_offset + 1, segment_end(t)) \in Seq(Octet)
        <3> DEFINE a == t.data_offset + 1  b == segment_end(t)
        <3>1. a \in Nat /\ a >= 1 /\ b \in Nat /\ b <= Len(m)
            BY <1>1, <1>2
        <3> HIDE DEF a, b
        <3>2. SubSeq(m, a, b) \in Seq(Octet)
            BY <3>1
        <3> QED
            BY <3>2 DEF a, b
    <2> QED
        BY <1>2, <2>1 DEF data
<1>3. CASE ~ (t.state = "Loaded" /\ segment_end(t) <= Len(m))
    BY <1>3 DEF data
<1> QED
    BY <1>2, <1>3

\* A runtime table stays right when its table is kept.
LEMMA RuntimeKept ==
    ASSUME NEW ts, NEW ts2, NEW m \in Seq(Octet), NEW m2 \in Seq(Octet),
           NEW t, Geometry(ts[t]), Geometry(ts2[t]), Kept(ts, m, ts2, m2, t),
           ts2[t].state = "Loaded"
    PROVE  ts[t].state = "Loaded" /\ data(ts2[t], m2) = data(ts[t], m)
<1>1. Phase(ts2[t]) = "loaded"
    BY GeometryFacts
<1>2. ts[t].state = "Loaded"
    BY <1>1, GeometryFacts DEF Kept
<1> QED
    BY <1>2, DataIsContent DEF Kept

LEMMA ForgetStep ==
    ASSUME NEW S \in SUBSET Persisted, storage' = storage,
           \A u \in S : Phase(tables'[u]) = "none",
           \A u \in Persisted \ S : Kept(tables, memory, tables', memory', u)
    PROVE  [Promise!Next]_(Promise!vars)
<1>1. \A u \in S : Content(tables'[u], memory') = <<>>
    BY DEF Content
<1>2. Phases(tables)' = [t \in Persisted |-> IF t \in S THEN "none" ELSE Phases(tables)[t]]
    BY DEF Phases, Kept
<1>3. Contents(tables, memory)' =
        [t \in Persisted |-> IF t \in S THEN <<>> ELSE Contents(tables, memory)[t]]
    BY <1>1 DEF Contents, Kept
<1>4. Stored' = Stored
    BY DEF Stored
<1>5. Promise!Forget(S)
    BY <1>2, <1>3, <1>4 DEF Promise!Forget
<1> QED
    BY <1>5 DEF Promise!Next

LEMMA StartStep ==
    ASSUME NEW t \in Persisted, storage' = storage,
           Phase(tables'[t]) = "loading", Content(tables'[t], memory') = <<>>,
           \A u \in Persisted \ {t} : Kept(tables, memory, tables', memory', u)
    PROVE  [Promise!Next]_(Promise!vars)
<1>1. Phases(tables)' = [Phases(tables) EXCEPT ![t] = "loading"]
    BY DEF Phases, Kept
<1>2. Contents(tables, memory)' = [Contents(tables, memory) EXCEPT ![t] = <<>>]
    BY DEF Contents, Kept
<1>3. Stored' = Stored
    BY DEF Stored
<1>4. Promise!Start(t)
    BY <1>1, <1>2, <1>3 DEF Promise!Start
<1> QED
    BY <1>4 DEF Promise!Next

LEMMA PutStep ==
    ASSUME NEW t \in Persisted, storage' = storage,
           Phase(tables[t]) = "loading", Phase(tables'[t]) = "loading",
           \A u \in Persisted \ {t} : Kept(tables, memory, tables', memory', u)
    PROVE  [Promise!Next]_(Promise!vars)
<1>1. Phases(tables)' = Phases(tables) /\ Phases(tables)[t] = "loading"
    BY DEF Phases, Kept
<1>2. Contents(tables, memory)' =
        [Contents(tables, memory) EXCEPT ![t] = Contents(tables, memory)'[t]]
    BY DEF Contents, Kept
<1>3. Stored' = Stored
    BY DEF Stored
<1>4. Promise!Put(t)
    BY <1>1, <1>2, <1>3 DEF Promise!Put
<1> QED
    BY <1>4 DEF Promise!Next

LEMMA CompleteStep ==
    ASSUME NEW t \in Persisted, storage' = storage,
           Phase(tables[t]) = "loading", Phase(tables'[t]) = "loaded",
           Content(tables'[t], memory') = Content(tables[t], memory),
           \A u \in Persisted \ {t} : Kept(tables, memory, tables', memory', u)
    PROVE  [Promise!Next]_(Promise!vars)
<1>1. Phases(tables)' = [Phases(tables) EXCEPT ![t] = "loaded"] /\ Phases(tables)[t] = "loading"
    BY DEF Phases, Kept
<1>2. Contents(tables, memory)' = Contents(tables, memory)
    BY DEF Contents, Kept
<1>3. Stored' = Stored
    BY DEF Stored
<1>4. Promise!Complete(t)
    BY <1>1, <1>2, <1>3 DEF Promise!Complete
<1> QED
    BY <1>4 DEF Promise!Next

\* Steps about nothing of this, among them every read.
LEMMA OtherStep ==
    ASSUME ProgrammingInv, UNCHANGED <<tables, memory, runtime, storage>>
    PROVE  ProgrammingInv' /\ [Promise!Next]_(Promise!vars)
<1>1. ProgrammingInv'
    BY DEF ProgrammingInv, RuntimeFollowsLoaded
<1>2. /\ Phases(tables)' = Phases(tables) /\ Contents(tables, memory)' = Contents(tables, memory)
      /\ Stored' = Stored
    BY DEF Phases, Contents, Stored
<1> QED
    BY <1>1, <1>2 DEF Promise!vars

-----------------------------------------------------------------------------
(* The operations that change the tables, the memory or the storage.       *)

\* An event that gives no memory: the table is kept, its load ends, starts
\* or completes; the memory stays.
LEMMA QuietLoad ==
    ASSUME ProgrammingInv, NEW t \in Persisted, NEW table \in TableObject,
           tables' = [tables EXCEPT ![t] = table], memory' = memory, storage' = storage,
           runtime' \in [Linking -> Seq(Octet)],
           \A u \in Linking \ {t} : runtime'[u] = runtime[u],
           \/ table = tables[t] /\ runtime' = runtime
           \/ table.state \in {"Unloaded", "Error"}
           \/ table.state = "Loading" /\ table.data_offset = 0 /\ table.data_size = 0
           \/ /\ tables[t].state = "Loading" /\ table.state = "Loaded"
              /\ table.data_offset = tables[t].data_offset
              /\ table.data_size = tables[t].data_size
              /\ segment_end(tables[t]) <= Len(memory)
              /\ t \in Linking => runtime'[t] = data(table, memory)
    PROVE  ProgrammingInv' /\ [Promise!Next]_(Promise!vars)
<1>1. /\ tables \in [Table -> TableObject] /\ tables' \in [Table -> TableObject]
      /\ tables'[t] = table /\ \A u \in Table \ {t} : tables'[u] = tables[u]
      /\ Persisted \subseteq Table /\ Linking \subseteq Persisted
    BY DEF ProgrammingInv, Persisted, Linking, Table
<1>2. /\ Device(tables, memory) /\ memory \in Seq(Octet) /\ Len(memory) <= MAX_MEMORY_SIZE
      /\ Len(memory) \in Nat /\ memory' \in Seq(Octet) /\ Len(memory') <= MAX_MEMORY_SIZE
      /\ Len(memory) <= Len(memory')
    BY DEF ProgrammingInv, Device
<1>3. \A u \in Persisted : Geometry(tables[u]) /\ Geometry(tables'[u])
    BY <1>1, TypeFacts
<1>4. \A u \in Persisted \ {t} : Kept(tables, memory, tables', memory', u)
    BY <1>1 DEF Kept
<1>5. CASE table = tables[t] /\ runtime' = runtime
    <2>1. tables' = tables
        BY <1>1, <1>5
    <2> QED
        BY <1>5, <2>1, OtherStep
<1>6. ASSUME Device(tables', memory'),
             t \in Linking /\ table.state = "Loaded" => runtime'[t] = data(table, memory)
      PROVE  ProgrammingInv'
    <2>1. \A u \in Linking : tables'[u].state = "Loaded" => runtime'[u] = data(tables'[u], memory')
        BY <1>1, <1>6 DEF ProgrammingInv, RuntimeFollowsLoaded
    <2> QED
        BY <1>1, <1>6, <2>1 DEF ProgrammingInv, RuntimeFollowsLoaded
<1>7. CASE table.state \in {"Unloaded", "Error"}
    <2>1. \A u \in Persisted : Within(tables'[u], tables[u])
        BY <1>1, <1>7 DEF Within, Spans
    <2>2. Complete(tables', memory')
        BY <1>1, <1>2, <1>7 DEF Complete, Device
    <2>3. Device(tables', memory')
        BY <1>2, <1>3, <2>1, <2>2, DeviceKept, Zenon
    <2>4. ProgrammingInv'
        BY <1>6, <1>7, <2>3
    <2>5. Phase(tables'[t]) = "none"
        BY <1>1, <1>7 DEF Phase
    <2>6. [Promise!Next]_(Promise!vars)
        BY <1>4, <2>5, ForgetStep, {t} \in SUBSET Persisted
    <2> QED
        BY <2>4, <2>6
<1>8. CASE table.state = "Loading" /\ table.data_offset = 0 /\ table.data_size = 0
    <2>1. \A u \in Persisted : Within(tables'[u], tables[u])
        BY <1>1, <1>8 DEF Within, Spans
    <2>2. Complete(tables', memory')
        BY <1>1, <1>2, <1>8 DEF Complete, Device
    <2>3. Device(tables', memory')
        BY <1>2, <1>3, <2>1, <2>2, DeviceKept, Zenon
    <2>4. ProgrammingInv'
        BY <1>6, <1>8, <2>3
    <2>5. Phase(tables'[t]) = "loading" /\ ~ Spans(tables'[t])
        BY <1>1, <1>8 DEF Phase, Spans
    <2>6. Content(tables'[t], memory') = <<>>
        BY <1>2, <1>3, <2>5, NoContent
    <2>7. [Promise!Next]_(Promise!vars)
        BY <1>4, <2>5, <2>6, StartStep
    <2> QED
        BY <2>4, <2>7
<1>9. CASE /\ tables[t].state = "Loading" /\ table.state = "Loaded"
           /\ table.data_offset = tables[t].data_offset
           /\ table.data_size = tables[t].data_size
           /\ segment_end(tables[t]) <= Len(memory)
           /\ t \in Linking => runtime'[t] = data(table, memory)
    <2>1. \A u \in Persisted : Within(tables'[u], tables[u])
        BY <1>1, <1>9 DEF Within, Spans
    <2>2. segment_end(table) = segment_end(tables[t])
        BY <1>9 DEF segment_end
    <2>3. Complete(tables', memory')
        BY <1>1, <1>2, <1>9, <2>2 DEF Complete, Device
    <2>4. Device(tables', memory')
        BY <1>2, <1>3, <2>1, <2>3, DeviceKept, Zenon
    <2>5. ProgrammingInv'
        BY <1>6, <1>9, <2>4
    <2>6. Phase(tables[t]) = "loading" /\ Phase(tables'[t]) = "loaded"
        BY <1>1, <1>9 DEF Phase
    <2>7. Content(tables'[t], memory') = Content(tables[t], memory)
        BY <1>1, <1>9, <2>2, <2>6 DEF Content
    <2>8. [Promise!Next]_(Promise!vars)
        BY <1>4, <2>6, <2>7, CompleteStep
    <2> QED
        BY <2>5, <2>8
<1> QED
    BY <1>5, <1>7, <1>8, <1>9

\* What an allocation does, and a write to a table that is loading: octets
\* of no other table change, and its own load goes on.
LEMMA PutKeeps ==
    ASSUME ProgrammingInv, NEW x \in Persisted,
           tables' \in [Table -> TableObject], memory' \in Seq(Octet),
           Device(tables', memory'), storage' = storage, runtime' = runtime,
           tables[x].state = "Loading", tables'[x].state = "Loading",
           \A u \in Persisted \ {x} : tables'[u] = tables[u],
           \A u \in Persisted \ {x} :
               Content(tables[u], memory') = Content(tables[u], memory)
    PROVE  ProgrammingInv' /\ [Promise!Next]_(Promise!vars)
<1>1. \A u \in Persisted \ {x} : Kept(tables, memory, tables', memory', u)
    BY DEF Kept
<1>2. Phase(tables[x]) = "loading" /\ Phase(tables'[x]) = "loading"
    BY DEF Phase
<1>3. /\ memory \in Seq(Octet) /\ Linking \subseteq Persisted
      /\ \A u \in Persisted : Geometry(tables[u]) /\ Geometry(tables'[u])
    BY DEF ProgrammingInv, Device, Linking, Persisted
<1>4. \A u \in Linking : tables'[u].state = "Loaded" => runtime'[u] = data(tables'[u], memory')
    BY <1>1, <1>3, RuntimeKept DEF ProgrammingInv, RuntimeFollowsLoaded
<1>5. ProgrammingInv'
    BY <1>4 DEF ProgrammingInv, RuntimeFollowsLoaded
<1>6. [Promise!Next]_(Promise!vars)
    BY <1>1, <1>2, PutStep
<1> QED
    BY <1>5, <1>6

\* The tool allocates when no segment hangs.
LEMMA NothingWaits ==
    ASSUME Orderly, NEW t, NEW e, MayAllocate(t, e),
           e.event = "AdditionalLoadControls", e.allocates
    PROVE  \A u \in Persisted : ~ Waits(tables[u], memory)
BY DEF MayAllocate, Hanging, Holding, Waits, Spans, Persisted, Table

LEMMA AllocateStep ==
    ASSUME ProgrammingInv, Orderly, NEW t \in Persisted, NEW e \in LoadEvent,
           MayAllocate(t, e), NEW h, h.table \in TableObject,
           Reserved(tables[t], e, Len(memory), h),
           tables' = [tables EXCEPT ![t] = h.table], memory' = apply_fill(memory, h.fill),
           runtime' = runtime, storage' = storage
    PROVE  ProgrammingInv' /\ [Promise!Next]_(Promise!vars)
<1>1. /\ tables \in [Table -> TableObject] /\ tables' \in [Table -> TableObject]
      /\ tables'[t] = h.table /\ \A u \in Table \ {t} : tables'[u] = tables[u]
      /\ Persisted \subseteq Table
    BY DEF ProgrammingInv, Persisted, Table
<1>2. /\ Device(tables, memory) /\ memory \in Seq(Octet) /\ Len(memory) <= MAX_MEMORY_SIZE
      /\ Len(memory) \in Nat
    BY DEF ProgrammingInv, Device
<1>3. \A u \in Persisted : ~ Waits(tables[u], memory)
    BY NothingWaits DEF Reserved
<1>4. /\ memory' \in Seq(Octet) /\ Len(memory') >= Len(memory)
      /\ Len(memory') <= MAX_MEMORY_SIZE
      /\ \A i \in 1 .. Len(memory) : memory'[i] = memory[i]
    <2>1. CASE h.fill = <<>>
        <3>1. memory' = memory
            BY <2>1 DEF apply_fill
        <3> QED
            BY <1>2, <3>1
    <2>2. CASE h.fill # <<>>
        <3>1. /\ e.byte \in Octet /\ e.size \in Nat
              /\ h.fill = <<[offset |-> Len(memory), size |-> e.size, byte |-> e.byte]>>
            BY <2>2 DEF Reserved
        <3> QED
            BY <1>2, <3>1, FillFacts
    <2> QED
        BY <2>1, <2>2
<1>5. \A u \in Persisted : Geometry(tables[u]) /\ Geometry(tables'[u])
    BY <1>1, TypeFacts
<1>6. /\ tables'[t].state = "Loading" /\ tables'[t].data_offset = Len(memory)
      /\ tables[t].state = "Loading"
    BY <1>1 DEF Reserved
<1>7. Len(memory) <= Len(memory')
    BY <1>2, <1>4
<1>8. \A u \in Persisted \ {t} : tables'[u] = tables[u]
    BY <1>1
<1>9. Device(tables', memory')
    BY <1>2, <1>3, <1>4, <1>5, <1>6, <1>7, <1>8, DeviceGrows, Zenon
<1>10. \A u \in Persisted \ {t} : Content(tables[u], memory') = Content(tables[u], memory)
    <2> SUFFICES ASSUME NEW u \in Persisted \ {t}
                 PROVE  Content(tables[u], memory') = Content(tables[u], memory)
        OBVIOUS
    <2>1. CASE ~ Spans(tables[u])
        BY <1>2, <1>4, <1>5, <2>1, NoContent
    <2>2. CASE Spans(tables[u])
        <3>1. segment_end(tables[u]) <= Len(memory)
            BY <1>2, <1>3, <1>5, <2>2, GeometryFacts DEF Waits
        <3> QED
            BY <1>2, <1>4, <1>5, <1>7, <3>1, SameContent
    <2> QED
        BY <2>1, <2>2
<1> QED
    BY <1>1, <1>4, <1>6, <1>8, <1>9, <1>10, PutKeeps

LEMMA LoadStep ==
    ASSUME ProgrammingInv, Orderly, NEW t \in Loadable, NEW e \in LoadEvent,
           WriteLoadControl(t, e)
    PROVE  ProgrammingInv' /\ [Promise!Next]_(Promise!vars)
<1> DEFINE h == handle_load_event(tables[t], e, Len(memory))
<1>1. /\ t \in Persisted /\ t \in Table /\ Linking \subseteq Persisted
      /\ tables \in [Table -> TableObject] /\ tables[t] \in TableObject
      /\ memory \in Seq(Octet) /\ Len(memory) \in Nat
      /\ runtime \in [Linking -> Seq(Octet)]
    BY ProgrammingAssumption DEF ProgrammingInv, Device, Persisted, Linking, Table
<1>2. /\ MayAllocate(t, e) /\ MayComplete(t, e)
      /\ tables' = [tables EXCEPT ![t] = h.table]
      /\ memory' = apply_fill(memory, h.fill)
      /\ runtime' = IF h.loaded THEN reloaded(t, tables', memory') ELSE runtime
      /\ storage' = storage
    BY DEF WriteLoadControl, host
<1>3. /\ h.table \in TableObject
      /\ h = Handled(tables[t]) \/ Ended(h) \/ Started(h)
         \/ Reserved(tables[t], e, Len(memory), h) \/ Finished(tables[t], e, h)
    BY <1>1, LoadEventFacts
<1> HIDE DEF h
<1>4. h.fill = <<>> => memory' = memory
    BY <1>2 DEF apply_fill
<1>5. CASE h = Handled(tables[t])
    <2>1. h.table = tables[t] /\ h.fill = <<>> /\ ~ h.loaded
        BY <1>5 DEF Handled
    <2> QED
        BY <1>1, <1>2, <1>3, <1>4, <2>1, QuietLoad
<1>6. CASE Ended(h)
    BY <1>1, <1>2, <1>3, <1>4, <1>6, QuietLoad DEF Ended
<1>7. CASE Started(h)
    BY <1>1, <1>2, <1>3, <1>4, <1>7, QuietLoad DEF Started
<1>8. CASE Reserved(tables[t], e, Len(memory), h)
    <2>1. runtime' = runtime
        BY <1>2, <1>8 DEF Reserved
    <2> QED
        BY <1>1, <1>2, <1>3, <1>8, <2>1, AllocateStep
<1>9. CASE Finished(tables[t], e, h)
    <2>1. /\ memory' = memory /\ h.loaded /\ tables[t].state = "Loading"
          /\ h.table.state = "Loaded" /\ e.event = "LoadCompleted"
          /\ h.table.data_offset = tables[t].data_offset
          /\ h.table.data_size = tables[t].data_size
        BY <1>4, <1>9 DEF Finished
    <2>2. segment_end(tables[t]) <= Len(memory)
        BY <1>1, <1>2, <2>1, TypeFacts, GeometryFacts DEF MayComplete, Hanging
    <2>3. data(h.table, memory) \in Seq(Octet)
        BY <1>1, <1>3, TypeFacts, DataType
    <2>4. tables'[t] = h.table
        BY <1>1, <1>2
    <2>5. /\ runtime' \in [Linking -> Seq(Octet)]
          /\ \A u \in Linking \ {t} : runtime'[u] = runtime[u]
          /\ t \in Linking => runtime'[t] = data(h.table, memory)
        BY <1>1, <1>2, <2>1, <2>3, <2>4 DEF reloaded
    <2> QED
        BY <1>1, <1>2, <1>3, <2>1, <2>2, <2>5, QuietLoad
<1> QED
    BY <1>3, <1>5, <1>6, <1>7, <1>8, <1>9

\* A write reaches no segment but that of the table that is loading: another
\* one lies apart from it, or is not in memory yet, and then the memory does
\* not grow.
LEMMA WriteStep ==
    ASSUME ProgrammingInv, Orderly, NEW a \in Address, NEW b \in Octet,
           NEW extended \in BOOLEAN, MemoryWrite(a, <<b>>, extended)
    PROVE  ProgrammingInv' /\ [Promise!Next]_(Promise!vars)
<1> DEFINE os == <<b>>
<1>1. /\ Device(tables, memory) /\ memory \in Seq(Octet) /\ Len(memory) \in Nat
      /\ Len(memory) <= MAX_MEMORY_SIZE /\ a \in Nat /\ os \in Seq(Octet) /\ Len(os) = 1
      /\ tables \in [Table -> TableObject]
      /\ \A u \in Persisted : Geometry(tables[u])
    BY MemoryAssumption DEF ProgrammingInv, Device, Address
<1>2. /\ MayWrite(a, os) /\ memory' = write_to_memory(memory, a, os)
      /\ tables' = tables /\ runtime' = runtime /\ storage' = storage
    BY DEF MemoryWrite, host
<1>3. PICK x \in Loadable : /\ tables[x].state = "Loading" /\ tables[x].data_offset <= a
                            /\ a + Len(os) <= segment_end(tables[x])
    BY <1>2 DEF MayWrite
<1> HIDE DEF os
<1>4. /\ x \in Persisted /\ Spans(tables[x]) /\ segment_end(tables[x]) \in Nat
      /\ tables[x].data_offset \in Nat /\ a < segment_end(tables[x])
    <2>1. x \in Persisted /\ Geometry(tables[x])
        BY <1>1, ProgrammingAssumption
    <2> QED
        BY <1>1, <1>3, <2>1, GeometryFacts DEF Spans
<1>5. CASE a + Len(os) > MAX_MEMORY_SIZE
    <2>1. memory' = memory
        BY <1>2, <1>5 DEF write_to_memory
    <2> QED
        BY <1>2, <2>1, OtherStep
<1>6. CASE ~ (a + Len(os) > MAX_MEMORY_SIZE)
    <2>1. memory' = overlaid(memory, a, os)
        BY <1>2, <1>6 DEF write_to_memory
    <2>2. /\ memory' \in Seq(Octet) /\ Len(memory') \in Nat
          /\ Len(memory') = IF a + 1 > Len(memory) THEN a + 1 ELSE Len(memory)
          /\ \A i \in 1 .. Len(memory) : i # a + 1 => memory'[i] = memory[i]
        <3>1. /\ overlaid(memory, a, os) \in Seq(Octet)
              /\ Len(overlaid(memory, a, os)) =
                     IF a + Len(os) > Len(memory) THEN a + Len(os) ELSE Len(memory)
              /\ \A i \in 1 .. Len(memory) :
                     i <= a \/ i > a + Len(os) => overlaid(memory, a, os)[i] = memory[i]
            BY <1>1, OverlaidFacts, Zenon
        <3>2. \A i \in 1 .. Len(memory) : i # a + 1 => i <= a \/ i > a + Len(os)
            BY <1>1
        <3> QED
            BY <1>1, <2>1, <3>1, <3>2, SMTT(20)
    <2>3. /\ Len(memory) <= Len(memory') /\ Len(memory') <= MAX_MEMORY_SIZE
        BY <1>1, <1>6, <2>2, MemoryAssumption
    <2>4. Complete(tables', memory')
        BY <1>1, <1>2, <2>2, <2>3, GeometryFacts DEF Complete, Device
    <2>5. \A u \in Persisted : Geometry(tables'[u]) /\ Within(tables'[u], tables[u])
        BY <1>1, <1>2 DEF Within
    <2>6. Device(tables', memory')
        BY <1>1, <2>2, <2>3, <2>4, <2>5, DeviceKept, Zenon
    <2>7. \A u \in Persisted \ {x} : Content(tables[u], memory') = Content(tables[u], memory)
        <3> SUFFICES ASSUME NEW u \in Persisted \ {x}
                     PROVE  Content(tables[u], memory') = Content(tables[u], memory)
            OBVIOUS
        <3>1. /\ segment_end(tables[u]) \in Nat /\ tables[u].data_offset \in Nat
              /\ Geometry(tables[u])
            BY <1>1, GeometryFacts
        <3>2. CASE ~ Spans(tables[u])
            BY <1>1, <2>2, <3>1, <3>2, NoContent
        <3>3. CASE Waits(tables[u], memory)
            <4>1. ~ Waits(tables[x], memory)
                BY <1>1, <1>4, <3>3 DEF OneWaits, Device
            <4>2. Len(memory') = Len(memory)
                BY <1>1, <1>4, <2>2, <4>1 DEF Waits
            <4>3. segment_end(tables[u]) > Len(memory) /\ segment_end(tables[u]) > Len(memory')
                BY <3>3, <4>2 DEF Waits
            <4> QED
                BY <4>3 DEF Content
        <3>4. CASE Spans(tables[u]) /\ ~ Waits(tables[u], memory)
            <4>1. segment_end(tables[u]) <= Len(memory)
                BY <1>1, <3>1, <3>4 DEF Waits
            <4>2. Before(tables[u], tables[x]) \/ Before(tables[x], tables[u])
                BY <1>1, <1>4, <3>4 DEF Apart, Device
            <4>3. \A i \in 1 .. Len(memory) :
                      tables[u].data_offset < i /\ i <= segment_end(tables[u]) => i # a + 1
                BY <1>1, <1>3, <1>4, <3>1, <4>2 DEF Before
            <4> QED
                BY <1>1, <2>2, <2>3, <3>1, <4>1, <4>3, SameContent
        <3> QED
            BY <3>2, <3>3, <3>4
    <2> QED
        BY <1>1, <1>2, <1>3, <1>4, <2>2, <2>6, <2>7, PutKeeps
<1> QED
    BY <1>5, <1>6

LEMMA ResetStep ==
    ASSUME ProgrammingInv, NEW erase_code, MasterReset(erase_code)
    PROVE  ProgrammingInv' /\ [Promise!Next]_(Promise!vars)
<1> DEFINE S == erased_tables(erase_code)
<1>1. /\ Device(tables, memory) /\ memory \in Seq(Octet) /\ Len(memory) \in Nat
      /\ Len(memory) <= MAX_MEMORY_SIZE /\ Persisted \subseteq Table
      /\ Linking \subseteq Persisted /\ S \subseteq Persisted
      /\ tables \in [Table -> TableObject] /\ runtime \in [Linking -> Seq(Octet)]
    BY DEF ProgrammingInv, Device, Persisted, Linking, Table, erased_tables
<1>2. /\ tables' = [t \in Table |-> IF t \in S THEN new ELSE tables[t]]
      /\ runtime' = [t \in Linking |-> IF t \in S THEN <<>> ELSE runtime[t]]
      /\ memory' = IF factory(erase_code) THEN <<>> ELSE memory
      /\ storage' = storage
    BY DEF MasterReset, host
<1>3. factory(erase_code) => S = Persisted
    BY DEF erased_tables, Linking, Persisted
<1> HIDE DEF S
<1>4. new \in TableObject /\ new.state = "Unloaded"
    BY DEF new, TableObject, LoadState, LoadError
<1>5. /\ tables' \in [Table -> TableObject] /\ runtime' \in [Linking -> Seq(Octet)]
      /\ \A u \in S : tables'[u] = new
      /\ \A u \in Persisted \ S : tables'[u] = tables[u] /\ memory' = memory
    BY <1>1, <1>2, <1>3, <1>4
<1>6. /\ memory' \in Seq(Octet) /\ Len(memory') <= MAX_MEMORY_SIZE
      /\ \A u \in Persisted : Geometry(tables[u]) /\ Geometry(tables'[u])
    BY <1>1, <1>2, <1>5, MemoryAssumption, TypeFacts
<1>7. \A u \in S : ~ Spans(tables'[u]) /\ Phase(tables'[u]) = "none"
    BY <1>4, <1>5 DEF Spans, Phase
<1>8. \A u \in Persisted : Within(tables'[u], tables[u])
    BY <1>5, <1>7 DEF Within
<1>9. Complete(tables', memory')
    BY <1>1, <1>4, <1>5 DEF Complete, Device
<1>10. Len(memory) <= Len(memory') \/ \A u \in Persisted : ~ Spans(tables'[u])
    <2>1. CASE factory(erase_code)
        BY <1>3, <1>7, <2>1
    <2>2. CASE ~ factory(erase_code)
        BY <1>1, <1>2, <2>2
    <2> QED
        BY <2>1, <2>2
<1>11. Device(tables', memory')
    BY <1>1, <1>6, <1>8, <1>9, <1>10, DeviceKept, Zenon
<1>12. \A u \in Persisted \ S : Kept(tables, memory, tables', memory', u)
    BY <1>5 DEF Kept
<1>13. \A u \in Linking : tables'[u].state = "Loaded" => runtime'[u] = data(tables'[u], memory')
    <2> SUFFICES ASSUME NEW u \in Linking, tables'[u].state = "Loaded"
                 PROVE  runtime'[u] = data(tables'[u], memory')
        OBVIOUS
    <2>1. u \notin S
        BY <1>4, <1>5
    <2> QED
        BY <1>1, <1>2, <1>5, <2>1 DEF ProgrammingInv, RuntimeFollowsLoaded
<1>14. ProgrammingInv'
    BY <1>2, <1>5, <1>11, <1>13 DEF ProgrammingInv, RuntimeFollowsLoaded
<1>15. [Promise!Next]_(Promise!vars)
    BY <1>1, <1>2, <1>7, <1>12, ForgetStep
<1> QED
    BY <1>14, <1>15

LEMMA SaveStep ==
    ASSUME ProgrammingInv, TakeRestartPending
    PROVE  ProgrammingInv' /\ [Promise!Next]_(Promise!vars)
<1> DEFINE ts == [t \in Persisted |-> save_table(tables[t])]
<1>1. /\ storage'[1].tables = ts /\ storage'[1].memory = memory /\ storage' # <<>>
      /\ tables' = tables /\ memory' = memory /\ runtime' = runtime
    BY DEF TakeRestartPending, Saved
<1>2. /\ Device(tables, memory) /\ memory \in Seq(Octet) /\ Len(memory) \in Nat
      /\ Len(memory) <= MAX_MEMORY_SIZE
      /\ \A t \in Persisted : Geometry(tables[t])
    BY DEF ProgrammingInv, Device
<1>3. \A t \in Persisted : /\ ts[t].state = tables[t].state
                           /\ ts[t].data_offset = tables[t].data_offset
                           /\ ts[t].data_size = tables[t].data_size
    BY DEF save_table
<1> HIDE DEF ts
<1>4. \A t \in Persisted : /\ Phase(ts[t]) = Phase(tables[t])
                           /\ segment_end(ts[t]) = segment_end(tables[t])
                           /\ Content(ts[t], memory) = Content(tables[t], memory)
    BY <1>3 DEF Phase, segment_end, Content
<1>5. \A t \in Persisted : Geometry(ts[t]) /\ Within(ts[t], tables[t])
    BY <1>2, <1>3 DEF Geometry, Within, Spans
<1>6. Complete(ts, memory)
    BY <1>2, <1>3, <1>4 DEF Complete, Device
<1>7. Device(ts, memory)
    <2>1. Len(memory) <= Len(memory)
        BY <1>2
    <2> QED
        BY <1>2, <1>5, <1>6, <2>1, DeviceKept, Zenon
<1>8. ProgrammingInv'
    BY <1>1, <1>7 DEF ProgrammingInv, RuntimeFollowsLoaded
<1>9. Stored' = [phase |-> Phases(tables), bytes |-> Contents(tables, memory)]
    BY <1>1, <1>4 DEF Stored, Phases, Contents
<1>10. Phases(tables)' = Phases(tables) /\ Contents(tables, memory)' = Contents(tables, memory)
    BY <1>1 DEF Phases, Contents
<1>11. Promise!Save
    BY <1>9, <1>10 DEF Promise!Save
<1> QED
    BY <1>8, <1>11 DEF Promise!Next

LEMMA ClearStep ==
    ASSUME ProgrammingInv, ClearStorage
    PROVE  ProgrammingInv' /\ [Promise!Next]_(Promise!vars)
<1>1. storage' = <<>> /\ tables' = tables /\ memory' = memory /\ runtime' = runtime
    BY DEF ClearStorage, device_state
<1>2. ProgrammingInv'
    BY <1>1 DEF ProgrammingInv, RuntimeFollowsLoaded
<1>3. Stored' = Promise!Nothing
    BY <1>1 DEF Stored, Promise!Nothing
<1>4. Phases(tables)' = Phases(tables) /\ Contents(tables, memory)' = Contents(tables, memory)
    BY <1>1 DEF Phases, Contents
<1>5. Promise!Clear
    BY <1>3, <1>4 DEF Promise!Clear
<1> QED
    BY <1>2, <1>5 DEF Promise!Next

LEMMA NoneLoaded ==
    ASSUME NEW ts, NEW m, \A t \in Persisted : ts[t] = new
    PROVE  /\ Phases(ts) = Promise!Nothing.phase
           /\ Contents(ts, m) = Promise!Nothing.bytes
<1>1. Phase(new) = "none"
    BY DEF Phase, new
<1>2. Content(new, m) = <<>>
    BY <1>1 DEF Content
<1> QED
    BY <1>1, <1>2 DEF Phases, Contents, Promise!Nothing

LEMMA FreshFacts ==
    /\ fresh.tables \in [Table -> TableObject] /\ \A t \in Persisted : fresh.tables[t] = new
    /\ fresh.memory = <<>> /\ fresh.runtime \in [Linking -> Seq(Octet)]
    /\ Device(fresh.tables, fresh.memory)
<1>1. new \in TableObject /\ new_loaded \in TableObject /\ new.state = "Unloaded"
    BY DEF new, new_loaded, TableObject, LoadState, LoadError
<1>2. /\ fresh.tables \in [Table -> TableObject]
      /\ \A t \in Persisted : fresh.tables[t] = new
      /\ fresh.memory = <<>> /\ fresh.runtime \in [Linking -> Seq(Octet)]
    BY <1>1 DEF fresh, Table, Persisted
<1>3. fresh.memory \in Seq(Octet) /\ Len(fresh.memory) <= MAX_MEMORY_SIZE
    BY <1>2, MemoryAssumption
<1>4. \A t \in Persisted : ~ Spans(fresh.tables[t]) /\ Geometry(fresh.tables[t])
    BY <1>1, <1>2, TypeFacts DEF Spans
<1>5. Apart(fresh.tables) /\ OneWaits(fresh.tables, fresh.memory)
      /\ Complete(fresh.tables, fresh.memory)
    BY <1>1, <1>2, <1>4 DEF Apart, OneWaits, Waits, Complete
<1> QED
    BY <1>2, <1>3, <1>4, <1>5 DEF Device

LEMMA RestoreFacts ==
    ASSUME NEW t, Geometry(t), t.state = "Loaded" => segment_end(t) <= MAX_MEMORY_SIZE
    PROVE  /\ restore_table(t) \in TableObject
           /\ restore_table(t).state = t.state
           /\ restore_table(t).data_offset = t.data_offset
           /\ restore_table(t).data_size = t.data_size
<1>1. t.data_offset \in Nat /\ t.data_size \in Nat /\ t.state \in LoadState
      /\ segment_end(t) = t.data_offset + t.data_size
    BY DEF Geometry, segment_end
<1>2. ~ (t.state = "Loaded" /\ t.data_offset + t.data_size > MAX_MEMORY_SIZE)
    BY <1>1, MemoryAssumption
<1>3. restore_table(t) = [state |-> t.state, error |-> "NoFault",
                          data_offset |-> t.data_offset, data_size |-> t.data_size]
    BY <1>2 DEF restore_table
<1> QED
    BY <1>1, <1>3 DEF TableObject, LoadError

LEMMA RestartStep ==
    ASSUME ProgrammingInv, NEW hdr, NEW torn, Restart(hdr, torn)
    PROVE  ProgrammingInv' /\ [Promise!Next]_(Promise!vars)
<1>1. storage' = storage /\ Stored' = Stored
    BY DEF Restart, Stored
<1>2. CASE ~ (storage # <<>> /\ storage[1].header = hdr /\ ~ torn)
    <2>1. tables' = fresh.tables /\ memory' = fresh.memory /\ runtime' = fresh.runtime
        BY <1>2 DEF Restart, Becomes
    <2>2. \A t \in Persisted : tables'[t] = new
        BY <2>1, FreshFacts
    <2>3. \A t \in Linking : tables'[t].state # "Loaded"
        BY <2>2 DEF new, Linking, Persisted
    <2>4. ProgrammingInv'
        BY <1>1, <2>1, <2>3, FreshFacts DEF ProgrammingInv, RuntimeFollowsLoaded
    <2>5. /\ Phases(tables)' = Promise!Nothing.phase
          /\ Contents(tables, memory)' = Promise!Nothing.bytes
        BY <2>2, NoneLoaded
    <2>6. Promise!Restart
        BY <1>1, <2>5 DEF Promise!Restart
    <2> QED
        BY <2>4, <2>6 DEF Promise!Next
<1>3. CASE storage # <<>> /\ storage[1].header = hdr /\ ~ torn
    <2> DEFINE ts == storage[1].tables  m == storage[1].memory
    <2>1. /\ tables' = [t \in Table |-> IF t \in Persisted THEN restore_table(ts[t])
                                        ELSE fresh.tables[t]]
          /\ memory' = m
          /\ runtime' = [t \in Linking |-> data(tables'[t], m)]
        BY <1>3 DEF Restart, Becomes, restored, restored_runtime
    <2>2. Device(ts, m)
        BY <1>3 DEF ProgrammingInv
    <2> HIDE DEF ts, m
    <2>3. /\ m \in Seq(Octet) /\ Len(m) <= MAX_MEMORY_SIZE /\ Len(m) \in Nat
          /\ Persisted \subseteq Table /\ Linking \subseteq Persisted
          /\ \A t \in Persisted : Geometry(ts[t]) /\ segment_end(ts[t]) \in Nat
        BY <2>2, GeometryFacts DEF Device, Persisted, Linking, Table
    <2>4. \A t \in Persisted : ts[t].state = "Loaded" => segment_end(ts[t]) <= MAX_MEMORY_SIZE
        BY <2>2, <2>3, MemoryAssumption DEF Complete, Device
    <2>5. \A t \in Persisted : /\ tables'[t] \in TableObject
                               /\ tables'[t].state = ts[t].state
                               /\ tables'[t].data_offset = ts[t].data_offset
                               /\ tables'[t].data_size = ts[t].data_size
        BY <2>1, <2>3, <2>4, RestoreFacts
    <2>6. \A t \in Persisted : /\ Phase(tables'[t]) = Phase(ts[t])
                               /\ segment_end(tables'[t]) = segment_end(ts[t])
                               /\ Content(tables'[t], m) = Content(ts[t], m)
        BY <2>5 DEF Phase, segment_end, Content
    <2>7. \A t \in Persisted : Geometry(tables'[t]) /\ Within(tables'[t], ts[t])
        BY <2>5, TypeFacts DEF Within, Spans
    <2>8. Complete(tables', m)
        BY <2>2, <2>5, <2>6 DEF Complete, Device
    <2>9. Device(tables', m)
        <3>1. Len(m) <= Len(m)
            BY <2>3
        <3> QED
            BY <2>2, <2>3, <2>7, <2>8, <3>1, DeviceKept, Zenon
    <2>10. tables' \in [Table -> TableObject]
        BY <2>1, <2>5, FreshFacts
    <2>11. runtime' \in [Linking -> Seq(Octet)]
        BY <2>1, <2>3, <2>7, DataType
    <2>12. \A t \in Linking : runtime'[t] = data(tables'[t], memory')
        BY <2>1
    <2>13. ProgrammingInv'
        BY <1>1, <2>1, <2>9, <2>10, <2>11, <2>12, ProgrammingInv
        DEF ProgrammingInv, RuntimeFollowsLoaded
    <2>14. Stored = [phase |-> Phases(ts), bytes |-> Contents(ts, m)]
        BY <1>3 DEF Stored, ts, m
    <2>15. Phases(tables)' = Phases(ts) /\ Contents(tables, memory)' = Contents(ts, m)
        BY <2>1, <2>6 DEF Phases, Contents
    <2>16. Promise!Restart
        BY <1>1, <2>14, <2>15 DEF Promise!Restart
    <2> QED
        BY <2>13, <2>16 DEF Promise!Next
<1> QED
    BY <1>2, <1>3

-----------------------------------------------------------------------------
(* The device.                                                             *)

LEMMA InitHolds ==
    ASSUME Init
    PROVE  ProgrammingInv /\ Promise!Init
<1>1. /\ tables = fresh.tables /\ memory = fresh.memory /\ runtime = fresh.runtime
      /\ storage = <<>>
    BY DEF Init
<1>2. \A t \in Persisted : tables[t] = new
    BY <1>1, FreshFacts
<1>3. \A t \in Linking : tables[t].state # "Loaded"
    BY <1>2 DEF new, Linking, Persisted
<1>4. ProgrammingInv
    BY <1>1, <1>3, FreshFacts DEF ProgrammingInv, RuntimeFollowsLoaded
<1>5. /\ Phases(tables) = Promise!Nothing.phase
      /\ Contents(tables, memory) = Promise!Nothing.bytes
    BY <1>2, NoneLoaded
<1>6. Stored = Promise!Nothing
    BY <1>1 DEF Stored, Promise!Nothing
<1> QED
    BY <1>4, <1>5, <1>6 DEF Promise!Init

LEMMA StepHolds ==
    ASSUME ProgrammingInv, Orderly, [Next]_vars
    PROVE  ProgrammingInv' /\ [Promise!Next]_(Promise!vars)
<1>1. CASE Load
    BY <1>1, LoadStep DEF Load
<1>2. CASE Properties
    <2>1. UNCHANGED <<tables, memory, runtime, storage>>
        BY <1>2 DEF Properties, PropertyWrite, PropertyRead, PropertyDescriptionRead,
                    device_state, host
    <2> QED
        BY <2>1, OtherStep
<1>3. CASE ExtProperties
    <2>1. UNCHANGED <<tables, memory, runtime, storage>>
        BY <1>3 DEF ExtProperties, PropertyExtWrite, PropertyExtRead,
                    PropertyExtDescriptionRead, device_state, host
    <2> QED
        BY <2>1, OtherStep
<1>4. CASE Memory
    <2>1. CASE \E a \in Address, b \in Octet, extended \in BOOLEAN :
                   MemoryWrite(a, <<b>>, extended)
        BY <2>1, WriteStep
    <2>2. CASE MemoryRead(0, MEMORY_RESPONSE_MAX_LEN + 1) \/ MemoryExtRead(0, 1)
        <3>1. UNCHANGED <<tables, memory, runtime, storage>>
            BY <2>2 DEF MemoryRead, MemoryExtRead, device_state, host
        <3> QED
            BY <3>1, OtherStep
    <2> QED
        BY <1>4, <2>1, <2>2 DEF Memory
<1>5. CASE Management
    <2>1. CASE \E erase_code \in EraseCodes : MasterReset(erase_code)
        BY <2>1, ResetStep
    <2>2. CASE ~ \E erase_code \in EraseCodes : MasterReset(erase_code)
        <3>1. UNCHANGED <<tables, memory, runtime, storage>>
            BY <1>5, <2>2
            DEF Management, SetProgMode, IndividualAddressWrite,
                IndividualAddressSerialNumberWrite, IndividualAddressSerialNumberRead,
                IndividualAddressRead, SystemNetworkParameterRead, ReadFixed,
                BasicRestart, Ignore, Readdressed, Answers, device_state, host
        <3> QED
            BY <3>1, OtherStep
    <2> QED
        BY <2>1, <2>2
<1>6. CASE Host
    BY <1>6, SaveStep, ClearStep, RestartStep DEF Host
<1>7. CASE UNCHANGED vars
    BY <1>7, OtherStep DEF vars, device_state, host
<1> QED
    BY <1>1, <1>2, <1>3, <1>4, <1>5, <1>6, <1>7 DEF Next

\* What the memory, the storage and the runtime tables keep, whatever the
\* tool does in order and whenever the power fails.
THEOREM ProgrammingKeepsInv ==
    ASSUME Orderly
    PROVE  Spec => []ProgrammingInv
<1>1. Init => ProgrammingInv
    BY InitHolds
<1>2. ProgrammingInv /\ [Next]_vars => ProgrammingInv'
    BY StepHolds
<1> QED
    BY <1>1, <1>2, PTL DEF Spec

\* No octet of the memory belongs to two tables: an allocation looks only at
\* the length of the memory, and that is enough when one segment at most
\* waits for its memory.
THEOREM ProgrammingKeepsSegmentsApart ==
    ASSUME Orderly
    PROVE  Spec => []SegmentsApart
<1>1. ProgrammingInv => SegmentsApart
    BY DEF ProgrammingInv, Device, Apart, SegmentsApart, Holding, Spans, Before
<1> QED
    BY <1>1, ProgrammingKeepsInv, PTL

\* Group communication uses the tables that were loaded: after a load, a
\* restart, a reset and loads of other tables.
THEOREM ProgrammingKeepsRuntime ==
    ASSUME Orderly
    PROVE  Spec => []RuntimeFollowsLoaded
<1>1. ProgrammingInv => RuntimeFollowsLoaded
    BY DEF ProgrammingInv
<1> QED
    BY <1>1, ProgrammingKeepsInv, PTL

\* The device implements LoadableTables: what is put into one table stays
\* there whatever happens to the others, and a restart brings back what was
\* saved, or nothing.
THEOREM ProgrammingImplementsPromise ==
    ASSUME Orderly
    PROVE  Spec => Implements
<1>1. Init => Promise!Init
    BY InitHolds
<1>2. ProgrammingInv /\ [Next]_vars => [Promise!Next]_(Promise!vars)
    BY StepHolds
<1> QED
    BY <1>1, <1>2, ProgrammingKeepsInv, PTL DEF Spec, Implements, Promise!Spec

=============================================================================
