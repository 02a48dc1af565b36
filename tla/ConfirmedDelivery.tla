-------------------------- MODULE ConfirmedDelivery --------------------------
(***************************************************************************)
(* What a transport connection promises the application that sends data    *)
(* over it, one payload at a time: payloads arrive in the order in which   *)
(* they were offered, none arrives twice, and one that was confirmed has   *)
(* arrived.  Payloads that were given up may or may not arrive.            *)
(***************************************************************************)
EXTENDS Naturals, Sequences

VARIABLES
    offered,    \* how many payloads the sender has offered: 1 .. offered
    confirmed,  \* the payloads reported to the sender as acknowledged
    delivered   \* the payloads handed to the receiving application, in order

vars == <<offered, confirmed, delivered>>

Arrived == {delivered[i] : i \in DOMAIN delivered}

Init == offered = 0 /\ confirmed = {} /\ delivered = <<>>

Offer == offered' = offered + 1 /\ UNCHANGED <<confirmed, delivered>>

Deliver == \E p \in 1 .. offered :
              /\ \A d \in Arrived : d < p
              /\ delivered' = Append(delivered, p)
              /\ UNCHANGED <<offered, confirmed>>

Confirm == \E p \in Arrived :
              /\ confirmed' = confirmed \cup {p}
              /\ UNCHANGED <<offered, delivered>>

Next == Offer \/ Deliver \/ Confirm

Spec == Init /\ [][Next]_vars

=============================================================================
