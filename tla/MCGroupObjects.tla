---------------------------- MODULE MCGroupObjects ----------------------------
(* Two objects that share an address, and one whose association leads to an *)
(* entry the address table does not have.                                   *)
EXTENDS GroupObjects

Open == [communication |-> TRUE, read |-> TRUE, write |-> TRUE, update |-> TRUE,
         read_on_init |-> TRUE]
Closed == [Open EXCEPT !.communication = FALSE]

MCAddressTable == [count |-> 2, entries |-> <<2049>>]
MCAssociationTable ==
    [count |-> 3, entries |-> <<[tsap |-> 1, asap |-> 1], [tsap |-> 1, asap |-> 2],
                                [tsap |-> 2, asap |-> 3]>>]
MCGroupObjectTable == [count |-> 3, entries |-> <<Open, [Open EXCEPT !.read_on_init = FALSE], Closed>>]

=============================================================================
