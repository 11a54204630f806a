------------------------------- MODULE Numerals -----------------------------
(***************************************************************************)
(* Sequences of digits, the first one the most significant, in any base.   *)
(***************************************************************************)
EXTENDS Integers, Sequences

Number(base, digits) ==
    LET number[i \in 0 .. Len(digits)] ==
            IF i = 0 THEN 0 ELSE base * number[i - 1] + digits[i]
    IN number[Len(digits)]

Zeros(k) == [i \in 1 .. k |-> 0]

=============================================================================
