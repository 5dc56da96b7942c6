------------------------------ MODULE Numerals ------------------------------
(***************************************************************************)
(* Numbers and their digits in some base: bits, bytes and chunks of a      *)
(* number, and the number that they stand for.                             *)
(***************************************************************************)
EXTENDS Integers, Sequences

\* base ^ count.
Power(base, count) ==
    LET power[i \in 0..count] == IF i = 0 THEN 1 ELSE base * power[i - 1]
    IN  power[count]

\* The number whose digits these are, the least significant one first.
LittleEndian(digits, base) ==
    LET value[i \in 0..Len(digits)] ==
          IF i = 0 THEN 0 ELSE value[i - 1] + digits[i] * Power(base, i - 1)
    IN  value[Len(digits)]

\* The number whose digits these are, the most significant one first.
BigEndian(digits, base) ==
    LittleEndian([i \in 1..Len(digits) |-> digits[Len(digits) + 1 - i]], base)

\* The count least significant digits of a number, one taken off after the other.
Digits(number, base, count) ==
    LET rest[i \in 0..count] == IF i = 0 THEN number ELSE rest[i - 1] \div base
    IN  [i \in 1..count |-> rest[i - 1] % base]
=============================================================================
