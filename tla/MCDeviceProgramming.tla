------------------------ MODULE MCDeviceProgramming ------------------------
(* A small memory and two tables that compete for it. *)
EXTENDS DeviceProgramming

MCWritten == {<<4, 13>>}
MCRead == {<<4, 27>>}
MCAddresses == {<<17, 1>>}

\* What the tables, the memory and the storage become does not depend on
\* - the properties of the device, error codes, offsets of tables that are
\*   not loaded, earlier answers, and which header was used (every restart
\*   may come with any);
\* - octets that belong to no table: a segment begins behind the memory, so
\*   they are never part of one again;
\* - the runtime table of a table that is not loaded: it is replaced when
\*   the table becomes loaded.
\* No property looks at those either: states that differ only there are the
\* same.  Before the first load the device's properties are kept apart, so
\* that every service runs.
Geometry(ts) ==
    [t \in Persisted |-> IF ts[t].state \in {"Loading", "Loaded"}
                         THEN save_table(ts[t]) ELSE ts[t].state]

Owned(ts, i) ==
    \E t \in Persisted : /\ ts[t].state \in {"Loading", "Loaded"}
                          /\ ts[t].data_offset < i
                          /\ i <= ts[t].data_offset + ts[t].data_size

Live(ts, m) == [i \in DOMAIN m |-> IF Owned(ts, i) THEN m[i] ELSE 0]

InUse(t) == IF tables[t].state = "Loaded" THEN runtime[t] ELSE <<>>

view ==
    <<Geometry(tables), Live(tables, memory), [t \in Linking |-> InUse(t)], restart_pending,
      IF storage = <<>> THEN <<>>
      ELSE <<Geometry(storage[1].tables), Live(storage[1].tables, storage[1].memory)>>,
      IF tables = fresh.tables /\ storage = <<>> THEN objects ELSE <<>>>>

=============================================================================
