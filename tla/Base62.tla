------------------------------- MODULE Base62 -------------------------------
(***************************************************************************)
(* The code format of the shortener (src/src/base62.c): base62_encode      *)
(* turns an unsigned 64-bit id into a short code and base62_decode turns a *)
(* code back.  A behaviour is what one caller does with the pair: it makes *)
(* one call with any argument and, when that succeeds, hands the result to *)
(* the other function, as shortener_create and a later shortener_resolve   *)
(* do.  One step is one iteration of a loop of the code, because the       *)
(* hazards are in the loops: the array of eleven characters, the unsigned  *)
(* multiplication that must not wrap, the order of the digits.             *)
(***************************************************************************)
EXTENDS Integers, Sequences

CONSTANTS
    Base,              \* the base of the numeral system: 62
    MaxValue,          \* UINT64_MAX
    MaxEncodedLength,  \* BASE62_MAX_ENCODED_LENGTH: 11
    Alphabet,          \* base62_alphabet, from digits to characters
    Foreign,           \* the characters outside the alphabet
    MaxInput,          \* bound: the longest text given to base62_decode
    Power              \* the powers of Base up to MaxEncodedLength

Digit == 0 .. (Base - 1)
Value == 0 .. MaxValue
Char == {Alphabet[d] : d \in Digit} \cup Foreign

Codes == INSTANCE ShortCodes

ASSUME BaseAssumption ==
    /\ Base \in Nat \ {0, 1}
    /\ MaxValue \in Nat
    /\ MaxValue >= Base
ASSUME AlphabetAssumption ==
    /\ Alphabet \in [Digit -> Char]
    /\ \A d, e \in Digit : Alphabet[d] = Alphabet[e] => d = e
    /\ \A d \in Digit : Alphabet[d] \notin Foreign
ASSUME LengthAssumption ==
    /\ MaxEncodedLength \in Nat \ {0}
    /\ MaxInput \in Nat
    /\ Power \in [0 .. MaxEncodedLength -> Nat]
    /\ Power[0] = 1
    /\ \A k \in 0 .. (MaxEncodedLength - 1) : Power[k + 1] = Base * Power[k]
    /\ Power[MaxEncodedLength] > MaxValue

VARIABLES
    first,      \* the call the caller makes first
    pc,         \* where control is, in one function or the other
    number,     \* the caller's number
    text,       \* the caller's text
    capacity,   \* output_capacity of base62_encode
    value,      \* the parameter base62_encode divides
    reversed,   \* its array of digits, the lowest first
    output,     \* its output buffer, up to the terminator
    decoded,    \* the accumulator of base62_decode
    index,      \* the number of characters base62_decode has consumed
    status,     \* what each function returned
    quotients,  \* history: value before each division and after the last
    prefixes    \* history: the exact value of every prefix consumed

vars == <<first, pc, number, text, capacity, value, reversed, output, decoded,
          index, status, quotients, prefixes>>

caller == <<first, number, text, capacity>>
encoding == <<value, reversed, output, quotients>>
decoding == <<decoded, index, prefixes>>

Results == {"none", "OK", "INVALID", "OVERFLOW", "BUFFER_TOO_SMALL"}
Texts == UNION {[1 .. n -> Char] : n \in 0 .. MaxInput}

-----------------------------------------------------------------------------
(* Entering a function: its locals get their initial values.               *)
EnterEncode(v) ==
    /\ pc' = "divide"
    /\ value' = v
    /\ reversed' = <<>>
    /\ quotients' = <<v>>

EnterDecode ==
    /\ pc' = "check"
    /\ decoded' = 0
    /\ index' = 0
    /\ prefixes' = <<0>>

Init ==
    /\ first \in {"encode", "decode"}
    /\ pc = "call"
    /\ IF first = "encode" THEN number \in Value /\ text = <<>>
                           ELSE number = 0 /\ text \in Texts
    /\ capacity \in IF first = "encode" THEN 0 .. (MaxEncodedLength + 1)
                                        ELSE {MaxEncodedLength + 1}
    /\ value = 0 /\ reversed = <<>> /\ output = <<>> /\ quotients = <<0>>
    /\ decoded = 0 /\ index = 0 /\ prefixes = <<0>>
    /\ status = [encode |-> "none", decode |-> "none"]

Call ==
    /\ pc = "call"
    /\ \/ /\ first = "encode"
          /\ EnterEncode(number)
          /\ UNCHANGED decoding
       \/ /\ first = "decode"
          /\ EnterDecode
          /\ UNCHANGED <<value, reversed, quotients>>
    /\ UNCHANGED <<caller, output, status>>

(* Seeded fault: the loop tests what value was before the division.          *)
EncodeDigitLate ==
    /\ pc = "divide"
    /\ reversed' = Append(reversed, value % Base)
    /\ value' = value \div Base
    /\ quotients' = Append(quotients, value \div Base)
    /\ pc' = IF value = 0 THEN "emit" ELSE "divide"
    /\ UNCHANGED <<caller, output, decoding, status>>

(* Seeded fault: the remainder is taken by the size of the array, which    *)
(* counts the terminator of the alphabet.                                  *)
EncodeDigitSizeof ==
    /\ pc = "divide"
    /\ reversed' = Append(reversed, value % (Base + 1))
    /\ value' = value \div Base
    /\ quotients' = Append(quotients, value \div Base)
    /\ pc' = IF value \div Base = 0 THEN "emit" ELSE "divide"
    /\ UNCHANGED <<caller, output, decoding, status>>

(* One iteration of the do-while loop.                                     *)
EncodeDigit ==
    /\ pc = "divide"
    /\ reversed' = Append(reversed, value % Base)
    /\ value' = value \div Base
    /\ quotients' = Append(quotients, value \div Base)
    /\ pc' = IF value \div Base = 0 THEN "emit" ELSE "divide"
    /\ UNCHANGED <<caller, output, decoding, status>>

(* Seeded fault: the digits are copied in the order they were found.       *)
EmittedUnreversed ==
    [i \in 1 .. Len(reversed) |-> Alphabet[reversed[i]]]

(* The text the copying loop leaves in the output buffer.                  *)
Emitted ==
    [i \in 1 .. Len(reversed) |-> Alphabet[reversed[Len(reversed) - i + 1]]]

(* Seeded fault: no room is kept for the terminator.                       *)
TooSmallNoTerminator == capacity < Len(reversed)

TooSmall == capacity <= Len(reversed)

EncodeTooSmall ==
    /\ pc = "emit"
    /\ TooSmall
    /\ status' = [status EXCEPT !.encode = "BUFFER_TOO_SMALL"]
    /\ pc' = "done"
    /\ UNCHANGED <<caller, encoding, decoding>>

EncodeEmit ==
    /\ pc = "emit"
    /\ ~TooSmall
    /\ output' = Emitted
    /\ status' = [status EXCEPT !.encode = "OK"]
    /\ IF first = "encode"
       THEN text' = Emitted /\ EnterDecode
       ELSE pc' = "done" /\ UNCHANGED <<text, decoding>>
    /\ UNCHANGED <<first, number, capacity, value, reversed, quotients>>

-----------------------------------------------------------------------------
DecodeReturns(result) ==
    /\ status' = [status EXCEPT !.decode = result]
    /\ pc' = "done"
    /\ UNCHANGED <<caller, encoding>>

(* Seeded fault: leading zeros are let through.                            *)
BadShapeEmptyOnly == text = <<>>

(* An empty text, or a leading zero with something after it.               *)
BadShape ==
    \/ text = <<>>
    \/ Len(text) > 1 /\ text[1] = Alphabet[0]

DecodeCheck ==
    /\ pc = "check"
    /\ \/ /\ BadShape
          /\ DecodeReturns("INVALID")
          /\ UNCHANGED decoding
       \/ /\ ~BadShape
          /\ pc' = "scan"
          /\ UNCHANGED <<caller, encoding, decoding, status>>

(* base62_digit: the digits whose character is c (at most one).            *)
DigitsOf(c) == {d \in Digit : Alphabet[d] = c}

(* Seeded fault: the digit still to be added is forgotten.                 *)
WouldOverflowNoDigit(d) == decoded > MaxValue \div Base

(* The test that protects the multiplication.                              *)
WouldOverflow(d) == decoded > (MaxValue - d) \div Base

DecodeForeign ==
    /\ pc = "scan"
    /\ index < Len(text)
    /\ DigitsOf(text[index + 1]) = {}
    /\ DecodeReturns("INVALID")
    /\ UNCHANGED decoding

DecodeDigit ==
    /\ pc = "scan"
    /\ index < Len(text)
    /\ \E d \in DigitsOf(text[index + 1]) :
          /\ prefixes' = Append(prefixes, prefixes[index + 1] * Base + d)
          /\ \/ /\ WouldOverflow(d)
                /\ DecodeReturns("OVERFLOW")
                /\ UNCHANGED <<decoded, index>>
             \/ /\ ~WouldOverflow(d)
                /\ decoded' = (decoded * Base + d) % (MaxValue + 1)
                /\ index' = index + 1
                /\ UNCHANGED <<pc, caller, encoding, status>>

DecodeEnd ==
    /\ pc = "scan"
    /\ index = Len(text)
    /\ status' = [status EXCEPT !.decode = "OK"]
    /\ IF first = "decode"
       THEN /\ number' = decoded
            /\ EnterEncode(decoded)
       ELSE /\ pc' = "done"
            /\ UNCHANGED <<number, value, reversed, quotients>>
    /\ UNCHANGED <<first, text, capacity, output, decoding>>

Next == \/ Call
        \/ EncodeDigit \/ EncodeTooSmall \/ EncodeEmit
        \/ DecodeCheck \/ DecodeForeign \/ DecodeDigit \/ DecodeEnd

Spec == Init /\ [][Next]_vars

-----------------------------------------------------------------------------
TypeOK ==
    /\ first \in {"encode", "decode"}
    /\ pc \in {"call", "divide", "emit", "check", "scan", "done"}
    /\ number \in Value
    /\ text \in Seq(Char)
    /\ capacity \in 0 .. (MaxEncodedLength + 1)
    /\ value \in Value
    /\ reversed \in Seq(Digit)
    /\ output \in Seq(Char)
    /\ decoded \in Value
    /\ index \in 0 .. Len(text)
    /\ status \in [{"encode", "decode"} -> Results]
    /\ quotients \in Seq(Nat)
    /\ prefixes \in Seq(Nat)

(* The loop of base62_encode never writes past the end of reversed, whose  *)
(* length is the constant BASE62_MAX_ENCODED_LENGTH: the code relies on    *)
(* 62^11 > UINT64_MAX and checks nothing.                                  *)
ReversedFits == Len(reversed) <= MaxEncodedLength

(* The output and its terminator fit in what the caller offered, and a     *)
(* caller who offers BASE62_BUFFER_SIZE, as shortener_create does, is      *)
(* never told that the buffer is too small.                                *)
OutputFits ==
    /\ status.encode = "OK" => Len(output) < capacity
    /\ status.encode = "BUFFER_TOO_SMALL" => capacity < MaxEncodedLength + 1

(* The unsigned accumulator never wraps: it is the exact value of the text *)
(* read so far, and OVERFLOW is returned only for a text whose value does  *)
(* not fit, never for one that does.                                       *)
NeverWraps ==
    /\ decoded = prefixes[index + 1]
    /\ status.decode = "OVERFLOW" =>
          prefixes[Len(prefixes)] > MaxValue

(* The two functions are inverse to each other on everything they accept.  *)
(* A number that was encoded decodes to itself and is never refused; a     *)
(* text that was decoded is the very text its number encodes to, so that   *)
(* no two codes name one record.                                           *)
RoundTrip ==
    /\ first = "encode" =>
          status.decode \in {"none", "OK"}
    /\ pc = "done" /\ status.encode = "OK" /\ status.decode = "OK" =>
          number = decoded /\ text = output
    /\ pc = "done" /\ first = "decode" /\ status.decode = "OK" =>
          status.encode = "OK"

(* The loops return what ShortCodes says: the positional code with the     *)
(* highest digit first, and the value of exactly the texts that are codes. *)
ReturnsCodes ==
    pc = "done" =>
        /\ status.encode = "OK" => output = Codes!CodeOf[number]
        /\ first = "decode" => (status.decode = "OK" <=> Codes!IsCode(text))
        /\ status.decode = "OK" => decoded = Codes!ValueOf(text)
=============================================================================
