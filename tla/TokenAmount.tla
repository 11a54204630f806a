----------------------------- MODULE TokenAmount ----------------------------
(***************************************************************************)
(* format_token_amount (crates/aelf-sdk/src/lib.rs).  A text is a sequence *)
(* of digits, of Dot and of Minus.                                         *)
(***************************************************************************)
EXTENDS Integers, Sequences, SequencesExt, Numerals

CONSTANT Limit     \* 2^63 in the code: the least amount is -Limit

ASSUME LimitAssumption == Limit \in Nat \ {0}

Amounts == -Limit .. Limit - 1

Dot == 10

Minus == 11

\* The digits of the magnitude of an amount, as to_string gives them.
Digits[n \in 0 .. Limit] == IF n < 10 THEN <<n>> ELSE Append(Digits[n \div 10], n % 10)

\* Mutant of UnsignedAbs: abs, which overflows on the least amount.
WrappingAbs(amount) ==
    IF amount = -Limit THEN 0 ELSE IF amount < 0 THEN -amount ELSE amount

UnsignedAbs(amount) == IF amount < 0 THEN -amount ELSE amount

FormatTokenAmount(amount, decimals) ==
    LET digits == Digits[UnsignedAbs(amount)]
        split == Len(digits) - decimals
        formatted ==
            IF decimals <= 0 THEN digits
            ELSE IF Len(digits) <= decimals
            THEN <<0, Dot>> \o Zeros(decimals - Len(digits)) \o digits
            ELSE SubSeq(digits, 1, split) \o <<Dot>>
                    \o SubSeq(digits, split + 1, Len(digits))
    IN IF amount < 0 THEN <<Minus>> \o formatted ELSE formatted

\* The text is the amount, to the digit, and is written as numbers are: a sign
\* only if it is negative, digits before the point with no zero too many, and
\* exactly as many after it as the token has decimals; a token with none, or
\* fewer, has its amounts written as they are.
AmountIsExact(amount, decimals) ==
    LET text == FormatTokenAmount(amount, decimals)
        unsigned == IF text[1] = Minus THEN Tail(text) ELSE text
        scale == IF decimals > 0 THEN decimals ELSE 0
        point == Len(unsigned) - scale
        whole == IF scale = 0 THEN unsigned ELSE SubSeq(unsigned, 1, point - 1)
        fraction == IF scale = 0 THEN <<>> ELSE SubSeq(unsigned, point + 1, Len(unsigned))
    IN /\ text[1] = Minus <=> amount < 0
       /\ scale > 0 => unsigned[point] = Dot
       /\ Len(whole) >= 1 /\ (whole[1] = 0 => Len(whole) = 1)
       /\ \A d \in Range(whole \o fraction) : d \in 0 .. 9
       /\ Number(10, whole \o fraction) = (IF amount < 0 THEN -amount ELSE amount)

=============================================================================
