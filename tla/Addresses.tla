------------------------------ MODULE Addresses ------------------------------
(***************************************************************************)
(* Individual and group addresses (knx-rs-core/src/address.rs): 16 bits on *)
(* the wire, split into two or three levels for people.  A text is the     *)
(* sequence of its segments: numbers, or NotANumber for anything else.     *)
(***************************************************************************)
EXTENDS Octets, Naturals, Sequences

RawAddress == Word
NotANumber == 65536     \* a segment that is no number of 16 bits

IA_NIBBLE_MASK == 15
GA_MAIN_MASK == 31
GA_MIDDLE_MASK == 7
GA_SUB2_MASK == 2047

area(raw) == raw \div 4096
line(raw) == (raw \div 256) % 16
device(raw) == raw % 256

new_individual(a, l, d) ==
    IF a > IA_NIBBLE_MASK \/ l > IA_NIBBLE_MASK THEN Err("OutOfRange")
    ELSE Ok(a * 4096 + l * 256 + d)

main(raw) == raw \div 2048
middle(raw) == (raw \div 256) % 8
sub(raw) == raw % 256
sub_2level(raw) == raw % 2048

new_3level(m, i, s) ==
    IF m > GA_MAIN_MASK \/ i > GA_MIDDLE_MASK THEN Err("OutOfRange")
    ELSE Ok(m * 2048 + i * 256 + s)

new_2level(m, s) ==
    IF m > GA_MAIN_MASK \/ s > GA_SUB2_MASK THEN Err("OutOfRange")
    ELSE Ok(m * 2048 + s)

individual_text(raw) == <<area(raw), line(raw), device(raw)>>
group_text(raw) == <<main(raw), middle(raw), sub(raw)>>

parse_u8(segment) == IF segment \in Octet THEN Ok(segment) ELSE Err("InvalidSegment")
parse_u16(segment) ==
    IF segment \in RawAddress THEN Ok(segment) ELSE Err("InvalidSegment")

\* What is left of the text after the second separator is one segment.
parse_individual(text) ==
    LET rest == IF Len(text) > 3 THEN NotANumber ELSE text[3]
        next(i) == IF i > Len(text) THEN Err("InvalidFormat")
                   ELSE parse_u8(IF i = 3 THEN rest ELSE text[i])
    IN  Then(next(1), LAMBDA a : Then(next(2), LAMBDA l : Then(next(3), LAMBDA d :
            new_individual(a, l, d))))

\* Two or three levels, told apart by the number of segments.
parse_group(text) ==
    CASE Len(text) = 2 ->
           Then(parse_u8(text[1]), LAMBDA m : Then(parse_u16(text[2]), LAMBDA s :
               new_2level(m, s)))
      [] Len(text) = 3 ->
           Then(parse_u8(text[1]), LAMBDA m : Then(parse_u8(text[2]), LAMBDA i :
               Then(parse_u8(text[3]), LAMBDA s : new_3level(m, i, s))))
      [] OTHER -> Err("InvalidFormat")

=============================================================================
