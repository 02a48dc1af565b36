----------------------------- MODULE RateLimiter -----------------------------
(***************************************************************************)
(* The sliding window of router.rs: at most MAX_PACKETS_PER_SEC grants in  *)
(* WINDOW, and an explicit pause.  A grant is kept as its age, a pause as  *)
(* the time that is left of it, so that no clock has to run on.            *)
(***************************************************************************)
EXTENDS Sequences, Naturals

CONSTANTS MAX_PACKETS_PER_SEC, WINDOW

ASSUME LimiterAssumption == MAX_PACKETS_PER_SEC \in Nat \ {0} /\ WINDOW \in Nat

Age == 0 .. WINDOW + 1     \* WINDOW + 1: out of the window

older(age) == IF age > WINDOW THEN age ELSE age + 1
aged(ages) == [i \in DOMAIN ages |-> older(ages[i])]

\* A plausible bug: what has left the window still counts.
pruned_none(ages) == ages

\* What is left of a sequence of ages, oldest first, when those in front
\* that have left the window are taken away.
pruned(ages) ==
    LET current == {i \in DOMAIN ages : ages[i] <= WINDOW}
    IN  IF current = {} THEN <<>>
        ELSE SubSeq(ages, CHOOSE i \in current : \A j \in current : i <= j, Len(ages))

\* A plausible bug: one more than the window holds.
allowed_off_by_one(ages, pause) ==
    pause = 0 /\ Len(pruned(ages)) <= MAX_PACKETS_PER_SEC

\* check: neither paused nor is the window full.
allowed(ages, pause) == pause = 0 /\ Len(pruned(ages)) < MAX_PACKETS_PER_SEC

granted(ages) == Append(pruned(ages), 0)

=============================================================================
