----------------------------- MODULE ShortCodes -----------------------------
(***************************************************************************)
(* What base62.c computes, as functions: the code of a number, and the     *)
(* number of a text.  Base62.tla shows that the loops of the code return   *)
(* these; Shortener.tla uses them where shortener.c calls the two          *)
(* functions.  A text is a sequence of characters.                         *)
(***************************************************************************)
EXTENDS Integers, Sequences

CONSTANTS
    Base,      \* the base of the numeral system: 62
    MaxValue,  \* UINT64_MAX
    Alphabet   \* base62_alphabet, from digits to characters

Digit == 0 .. (Base - 1)

(* The code of a number, the highest digit first.                          *)
CodeOf[v \in Nat] ==
    IF v < Base THEN <<Alphabet[v]>>
                ELSE Append(CodeOf[v \div Base], Alphabet[v % Base])

DigitOf(c) == CHOOSE d \in Digit : Alphabet[d] = c

(* The value of a text whose characters are all digits.                    *)
ValueOf(text) ==
    LET prefix[n \in 0 .. Len(text)] ==
            IF n = 0 THEN 0 ELSE prefix[n - 1] * Base + DigitOf(text[n])
    IN  prefix[Len(text)]

AllDigits(text) ==
    \A i \in DOMAIN text : \E d \in Digit : Alphabet[d] = text[i]

(* The texts base62_decode accepts.                                        *)
IsCode(text) ==
    /\ text # <<>>
    /\ AllDigits(text)
    /\ text[1] = Alphabet[0] => Len(text) = 1
    /\ ValueOf(text) <= MaxValue
=============================================================================
