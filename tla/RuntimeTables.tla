---------------------------- MODULE RuntimeTables ----------------------------
(***************************************************************************)
(* The tables group communication uses at run time:                        *)
(* knx-rs-device/src/address_table.rs, association_table.rs and            *)
(* group_object_table.rs.  A table is the number of entries it declares    *)
(* and the entries its data has room for; a damaged table declares more.   *)
(***************************************************************************)
EXTENDS Naturals, Sequences

LOCAL Seen(table) == {i \in 1 .. table.count : i <= Len(table.entries)}
LOCAL Least(S) == CHOOSE i \in S : \A j \in S : i <= j

\* Lookups return none or one value, as a sequence.
get_group_address(address_table, tsap) ==
    IF tsap \in Seen(address_table) THEN <<address_table.entries[tsap]>> ELSE <<>>

get_tsap(address_table, group_address) ==
    LET at == {i \in Seen(address_table) : address_table.entries[i] = group_address}
    IN  IF at = {} THEN <<>> ELSE <<Least(at)>>

\* An association: [tsap, asap].  An object sends to its first one.
translate_asap(association_table, asap) ==
    LET at == {i \in Seen(association_table) : association_table.entries[i].asap = asap}
    IN  IF at = {} THEN <<>> ELSE <<association_table.entries[Least(at)].tsap>>

asaps_for_tsap(association_table, tsap) ==
    LET those == SelectSeq(SubSeq(association_table.entries, 1, association_table.count),
                           LAMBDA e : e.tsap = tsap)
    IN  [i \in DOMAIN those |-> those[i].asap]

\* The descriptor of an object, a record of flags.
get_descriptor(group_object_table, asap) ==
    IF asap \in Seen(group_object_table) THEN <<group_object_table.entries[asap]>> ELSE <<>>

\* Octets of a value, by the size code of its descriptor.
value_size_bytes(code) ==
    CASE code \in 0 .. 6 -> 0
      [] code = 7 -> 1
      [] code \in 8 .. 10 \cup 21 .. 254 -> code - 6
      [] code \in 11 .. 20 -> <<6, 8, 10, 14, 5, 7, 9, 11, 12, 13>>[code - 10]
      [] code = 255 -> 252

go_size(code) == IF value_size_bytes(code) = 0 THEN 1 ELSE value_size_bytes(code)

=============================================================================
