-------------------------------- MODULE Octets --------------------------------
(***************************************************************************)
(* What the codecs of knx-rs share: octets, big-endian numbers, bit fields *)
(* inside an octet, and the two outcomes of a fallible conversion.         *)
(***************************************************************************)
LOCAL INSTANCE Naturals
LOCAL INSTANCE Sequences

Octet == 0 .. 255
Word == {n \in Nat : n < 256 * 256}

\* Result::Ok and Result::Err; an Option is a Result without a reason.
Ok(value) == [ok |-> value]
Err(reason) == [err |-> reason]
IsOk(result) == "ok" \in DOMAIN result

\* A conversion that goes on with the value of an earlier one (the ? operator).
Then(result, Continue(_)) == IF IsOk(result) THEN Continue(result.ok) ELSE result

\* n as width octets, most significant first, and back.
be(n, width) == [i \in 1 .. width |-> (n \div 256 ^ (width - i)) % 256]
u16(octets, at) == octets[at] * 256 + octets[at + 1]

\* The field of size values (a power of two) whose lowest bit is worth unit.
bits(octet, unit, size) == (octet \div unit) % size
with_bits(octet, unit, size, value) ==
    octet - bits(octet, unit, size) * unit + value * unit

\* The octets from position at on, and count of them.
from(octets, at) == SubSeq(octets, at, Len(octets))
slice(octets, at, count) == SubSeq(octets, at, at + count - 1)
zeroes(count) == [i \in 1 .. count |-> 0]

=============================================================================
