--------------------------- MODULE LoadableTables ---------------------------
(***************************************************************************)
(* What a device promises a tool that loads tables into it: what is put    *)
(* into one table while it is loaded stays there, unchanged by whatever    *)
(* happens to the other tables, until the tool starts over, unloads the    *)
(* table or resets the device; and a restart brings back what the device   *)
(* held when it last saved itself, or nothing at all.                      *)
(***************************************************************************)
EXTENDS Naturals

CONSTANTS Table

VARIABLES
    phase,      \* of every table: "none", "loading" or "loaded"
    bytes,      \* of every table: what is in it
    stored      \* phase and bytes as last saved, none of them at first

vars == <<phase, bytes, stored>>

Nothing == [phase |-> [t \in Table |-> "none"], bytes |-> [t \in Table |-> <<>>]]

Init == phase = Nothing.phase /\ bytes = Nothing.bytes /\ stored = Nothing

\* Unload, an error, a reset.
Forget(S) ==
    /\ phase' = [t \in Table |-> IF t \in S THEN "none" ELSE phase[t]]
    /\ bytes' = [t \in Table |-> IF t \in S THEN <<>> ELSE bytes[t]]
    /\ UNCHANGED stored

Start(t) ==
    /\ phase' = [phase EXCEPT ![t] = "loading"]
    /\ bytes' = [bytes EXCEPT ![t] = <<>>]
    /\ UNCHANGED stored

Put(t) ==
    /\ phase[t] = "loading"
    /\ bytes' = [bytes EXCEPT ![t] = bytes'[t]]
    /\ UNCHANGED <<phase, stored>>

Complete(t) ==
    /\ phase[t] = "loading"
    /\ phase' = [phase EXCEPT ![t] = "loaded"]
    /\ UNCHANGED <<bytes, stored>>

Save == stored' = [phase |-> phase, bytes |-> bytes] /\ UNCHANGED <<phase, bytes>>

Restart ==
    /\ \E from \in {stored, Nothing} : phase' = from.phase /\ bytes' = from.bytes
    /\ UNCHANGED stored

Clear == stored' = Nothing /\ UNCHANGED <<phase, bytes>>

Next ==
    \/ \E S \in SUBSET Table : Forget(S)
    \/ \E t \in Table : Start(t) \/ Put(t) \/ Complete(t)
    \/ Save
    \/ Restart
    \/ Clear

Spec == Init /\ [][Next]_vars

=============================================================================
