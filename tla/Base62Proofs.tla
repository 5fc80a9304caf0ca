---------------------------- MODULE Base62Proofs ----------------------------
(***************************************************************************)
(* For every base, every largest value and every alphabet: what base62.c   *)
(* encodes it decodes to the same number, what it decodes it encodes to    *)
(* the same text, nothing wraps and nothing is written past an array.      *)
(***************************************************************************)
EXTENDS Base62, NumeralTheorems

(* Horner's step stays in the natural numbers.                             *)
LEMMA LinearNat ==
    ASSUME NEW a \in Nat, NEW b \in Nat, NEW c \in Nat
    PROVE  a * b + c \in Nat
    <1>1. a * b \in Nat OBVIOUS
    <1> QED BY <1>1

(* Unsigned arithmetic stays in its width.                                 *)
LEMMA WrappedRange ==
    ASSUME NEW a \in Nat, NEW m \in Nat
    PROVE  a % (m + 1) \in 0 .. m
    OBVIOUS

(* What is smaller than the modulus does not wrap.                         *)
LEMMA SmallRemainder ==
    ASSUME NEW a \in Nat, NEW b \in Nat, a < b
    PROVE  a % b = a
    OBVIOUS

(* A sequence of one number.                                               *)
LEMMA SingleNat ==
    ASSUME NEW a \in Nat
    PROVE  <<a>> \in Seq(Nat) /\ Len(<<a>>) = 1
    OBVIOUS

(* What Append adds and what it leaves alone.                              *)
LEMMA Appended ==
    ASSUME NEW S, NEW s \in Seq(S), NEW e \in S
    PROVE  /\ Append(s, e) \in Seq(S)
           /\ Len(Append(s, e)) = Len(s) + 1
           /\ \A i \in 1 .. Len(s) : Append(s, e)[i] = s[i]
           /\ Append(s, e)[Len(s) + 1] = e
    OBVIOUS

(* A function on 1 .. n is a sequence of length n.                         *)
LEMMA Mapped ==
    ASSUME NEW S, NEW n \in Nat, NEW f \in [1 .. n -> S]
    PROVE  f \in Seq(S) /\ Len(f) = n
    BY SeqDef

(* A division never increases the number.                                  *)
LEMMA DivAtMost ==
    ASSUME NEW a \in Nat, NEW b \in Nat \ {0}
    PROVE  a \div b <= a
    <1>1. /\ a % b \in 0 .. (b - 1) /\ a \div b \in Nat
          /\ a = b * (a \div b) + (a % b)
        BY DivMod
    <1>2. b * (a \div b) >= a \div b
        BY <1>1
    <1> QED BY <1>1, <1>2

(* Multiplication keeps the order.                                         *)
LEMMA TimesMonotone ==
    ASSUME NEW a \in Nat, NEW b \in Nat, NEW c \in Nat, a <= b
    PROVE  a * c <= b * c /\ a * c \in Nat /\ b * c \in Nat
    <1>1. (b - a) \in Nat OBVIOUS
    <1>2. (b - a) * c \in Nat BY <1>1
    <1>3. b * c = a * c + (b - a) * c BY <1>1
    <1> QED BY <1>2, <1>3

(* The overflow test of base62_decode is exact.                            *)
LEMMA OverflowTest ==
    ASSUME NEW p \in Nat, NEW d \in Digit
    PROVE  (p > (MaxValue - d) \div Base) <=> (p * Base + d > MaxValue)
    <1> DEFINE q == (MaxValue - d) \div Base
               r == (MaxValue - d) % Base
    <1>1. /\ Base \in Nat \ {0} /\ MaxValue \in Nat /\ d \in Nat
          /\ MaxValue - d \in Nat
        BY BaseAssumption DEF Digit
    <1>2. /\ q \in Nat /\ r \in 0 .. (Base - 1)
          /\ MaxValue - d = Base * q + r
        BY <1>1, DivMod
    <1> HIDE DEF q, r
    <1>3. CASE p <= q
        <2>1. p * Base <= q * Base
            BY <1>1, <1>2, <1>3, TimesMonotone
        <2> QED BY <1>1, <1>2, <1>3, <2>1 DEF q
    <1>4. CASE p >= q + 1
        <2>1. (q + 1) * Base <= p * Base
            BY <1>1, <1>2, <1>4, TimesMonotone
        <2>2. (q + 1) * Base = q * Base + Base
            BY <1>1, <1>2
        <2> QED BY <1>1, <1>2, <1>4, <2>1, <2>2 DEF q
    <1> QED BY <1>2, <1>3, <1>4

-----------------------------------------------------------------------------
(* Types, and a prefix value for every character consumed.                 *)
TypeInv == TypeOK /\ Len(prefixes) >= index + 1 /\ Len(quotients) >= 1

(* The initial states have the right types.                                *)
LEMMA TypeInit == Init => TypeInv
    <1> SUFFICES ASSUME Init PROVE TypeInv
        OBVIOUS
    <1>1. text \in Seq(Char)
        <2>1. CASE text = <<>>
            BY <2>1
        <2>2. CASE text \in Texts
            <3>1. PICK n \in 0 .. MaxInput : text \in [1 .. n -> Char]
                BY <2>2 DEF Texts
            <3>2. n \in Nat
                BY LengthAssumption
            <3> QED BY <3>1, <3>2, SeqDef
        <2> QED BY <2>1, <2>2 DEF Init
    <1>2. <<0>> \in Seq(Nat) /\ Len(<<0>>) = 1
        OBVIOUS
    <1>3. capacity \in 0 .. (MaxEncodedLength + 1)
        BY LengthAssumption DEF Init
    <1>4. status \in [{"encode", "decode"} -> Results]
        BY DEF Init, Results
    <1>5. Len(text) \in Nat
        BY <1>1
    <1>6. number \in Value /\ value \in Value /\ decoded \in Value
        BY BaseAssumption DEF Init, Value
    <1>7. index \in 0 .. Len(text)
        BY <1>5 DEF Init
    <1>8. reversed \in Seq(Digit) /\ output \in Seq(Char)
        BY DEF Init
    <1> QED BY <1>1, <1>2, <1>3, <1>4, <1>6, <1>7, <1>8
            DEF Init, TypeInv, TypeOK

(* Every step keeps the types.                                             *)
LEMMA TypeNext == TypeInv /\ [Next]_vars => TypeInv'
    <1> SUFFICES ASSUME TypeInv, [Next]_vars PROVE TypeInv'
        OBVIOUS
    <1> USE DEF TypeInv, TypeOK
    <1>1. CASE Call
        <2>1. CASE first = "encode" /\ EnterEncode(number) /\ UNCHANGED decoding
            <3>1. /\ value' = number /\ reversed' = <<>>
                  /\ quotients' = <<number>> /\ pc' = "divide"
                BY <2>1 DEF EnterEncode
            <3>2. number \in Nat
                BY BaseAssumption DEF Value
            <3>3. quotients' \in Seq(Nat) /\ Len(quotients') >= 1
                BY <3>1, <3>2, SingleNat
            <3>4. reversed' \in Seq(Digit)
                BY <3>1
            <3> QED BY <1>1, <2>1, <3>1, <3>3, <3>4 DEF Call, caller, decoding
        <2>2. CASE EnterDecode /\ UNCHANGED <<value, reversed, quotients>>
            <3>1. /\ decoded' = 0 /\ index' = 0 /\ prefixes' = <<0>>
                  /\ pc' = "check"
                BY <2>2 DEF EnterDecode
            <3>2. prefixes' \in Seq(Nat) /\ Len(prefixes') = 1
                BY <3>1, SingleNat
            <3>3. Len(text) \in Nat
                BY LenProperties
            <3> QED BY <1>1, <2>2, <3>1, <3>2, <3>3, BaseAssumption
                    DEF Call, caller, Value
        <2> QED BY <1>1, <2>1, <2>2 DEF Call
    <1>2. CASE EncodeDigit
        <2>1. /\ value % Base \in Digit
              /\ value \div Base \in Value
              /\ value \div Base \in Nat
            <3>1. value \in Nat /\ Base \in Nat \ {0}
                BY BaseAssumption DEF Value
            <3>2. value % Base \in 0 .. (Base - 1) /\ value \div Base \in Nat
                BY <3>1, DivMod
            <3>3. value \div Base <= value
                BY <3>1, DivAtMost
            <3> QED BY <3>2, <3>3, BaseAssumption DEF Digit, Value
        <2>2. /\ reversed' \in Seq(Digit)
              /\ quotients' \in Seq(Nat) /\ Len(quotients') >= 1
              /\ value' \in Value /\ pc' \in {"emit", "divide"}
              /\ UNCHANGED <<caller, output, decoding, status>>
            BY <1>2, <2>1, Appended DEF EncodeDigit
        <2> QED BY <2>2 DEF caller, decoding
    <1>3. CASE EncodeTooSmall
        <2>1. status' \in [{"encode", "decode"} -> Results]
            BY <1>3 DEF EncodeTooSmall, Results
        <2> QED BY <1>3, <2>1 DEF EncodeTooSmall, caller, encoding, decoding
    <1>4. CASE EncodeEmit
        <2>1. Emitted \in Seq(Char)
            <3>1. \A i \in 1 .. Len(reversed) :
                        Alphabet[reversed[Len(reversed) - i + 1]] \in Char
                BY DEF Char
            <3>2. Emitted \in [1 .. Len(reversed) -> Char]
                BY <3>1 DEF Emitted
            <3>3. Len(reversed) \in Nat
                BY LenProperties
            <3> QED BY <3>2, <3>3, Mapped
        <2>2. status' \in [{"encode", "decode"} -> Results]
            BY <1>4 DEF EncodeEmit, Results
        <2>3. CASE first = "encode"
            <3>1. <<0>> \in Seq(Nat) /\ Len(<<0>>) = 1
                OBVIOUS
            <3>2. /\ text' \in Seq(Char) /\ output' \in Seq(Char)
                  /\ pc' = "check" /\ decoded' = 0 /\ index' = 0
                  /\ prefixes' = <<0>>
                  /\ UNCHANGED <<first, number, capacity, value, reversed,
                                 quotients>>
                BY <1>4, <2>1, <2>3 DEF EncodeEmit, EnterDecode
            <3>3. Len(text') \in Nat
                BY <3>2
            <3> QED BY <2>2, <3>1, <3>2, <3>3, BaseAssumption DEF Value
        <2>4. CASE first # "encode"
            <3>1. /\ output' \in Seq(Char) /\ pc' = "done"
                  /\ UNCHANGED <<text, decoding>>
                  /\ UNCHANGED <<first, number, capacity, value, reversed,
                                 quotients>>
                BY <1>4, <2>1, <2>4 DEF EncodeEmit
            <3> QED BY <2>2, <3>1 DEF decoding
        <2> QED BY <2>3, <2>4
    <1>5. CASE DecodeCheck
        <2>1. status' \in [{"encode", "decode"} -> Results]
            BY <1>5 DEF DecodeCheck, DecodeReturns, Results
        <2> QED BY <1>5, <2>1
                DEF DecodeCheck, DecodeReturns, caller, encoding, decoding
    <1>6. CASE DecodeForeign
        <2>1. status' \in [{"encode", "decode"} -> Results]
            BY <1>6 DEF DecodeForeign, DecodeReturns, Results
        <2> QED BY <1>6, <2>1
                DEF DecodeForeign, DecodeReturns, caller, encoding, decoding
    <1>7. CASE DecodeDigit
        <2>1. PICK d \in Digit :
              /\ prefixes' = Append(prefixes, prefixes[index + 1] * Base + d)
              /\ \/ DecodeReturns("OVERFLOW") /\ UNCHANGED <<decoded, index>>
                 \/ /\ decoded' = (decoded * Base + d) % (MaxValue + 1)
                    /\ index' = index + 1
                    /\ UNCHANGED <<pc, caller, encoding, status>>
            BY <1>7 DEF DecodeDigit, DigitsOf
        <2>2. /\ prefixes[index + 1] * Base + d \in Nat
              /\ decoded * Base + d \in Nat
            <3>1. /\ Base \in Nat /\ d \in Nat /\ decoded \in Nat
                  /\ prefixes[index + 1] \in Nat
                BY BaseAssumption, SMTT(30) DEF Digit, Value
            <3> QED BY <3>1, LinearNat
        <2>3. prefixes' \in Seq(Nat) /\ Len(prefixes') = Len(prefixes) + 1
            BY <2>1, <2>2, Appended
        <2>4. (decoded * Base + d) % (MaxValue + 1) \in Value
            <3> DEFINE sum == decoded * Base + d
            <3>1. sum \in Nat
                BY <2>2
            <3> HIDE DEF sum
            <3>2. sum % (MaxValue + 1) \in 0 .. MaxValue
                BY <3>1, WrappedRange, BaseAssumption
            <3> QED BY <3>2 DEF Value, sum
        <2>5. index < Len(text)
            BY <1>7 DEF DecodeDigit
        <2>6. CASE DecodeReturns("OVERFLOW") /\ UNCHANGED <<decoded, index>>
            <3>1. status' \in [{"encode", "decode"} -> Results]
                BY <2>6 DEF DecodeReturns, Results
            <3> QED BY <2>3, <2>6, <3>1 DEF DecodeReturns, caller, encoding
        <2>7. CASE /\ decoded' = (decoded * Base + d) % (MaxValue + 1)
                   /\ index' = index + 1
                   /\ UNCHANGED <<pc, caller, encoding, status>>
            <3>1. UNCHANGED <<first, number, text, capacity, value, reversed,
                              output, quotients, pc, status>>
                BY <2>7 DEF caller, encoding
            <3>2. decoded' \in Value /\ index' \in 0 .. Len(text')
                BY <2>4, <2>5, <2>7, <3>1
            <3>3. Len(prefixes') >= index' + 1
                BY <2>3, <2>7, LenProperties
            <3> QED BY <2>3, <3>1, <3>2, <3>3
        <2> QED BY <2>1, <2>6, <2>7
    <1>8. CASE DecodeEnd
        <2>1. /\ status' \in [{"encode", "decode"} -> Results]
              /\ UNCHANGED <<first, text, capacity, output, decoding>>
              /\ \/ number' = decoded /\ EnterEncode(decoded)
                 \/ pc' = "done" /\ UNCHANGED <<number, value, reversed, quotients>>
            BY <1>8 DEF DecodeEnd, Results
        <2>2. <<decoded>> \in Seq(Nat) /\ Len(<<decoded>>) = 1
            <3>1. decoded \in Nat
                BY BaseAssumption DEF Value
            <3> QED BY <3>1, SingleNat
        <2>3. CASE number' = decoded /\ EnterEncode(decoded)
            <3>1. /\ number' = decoded /\ value' = decoded /\ reversed' = <<>>
                  /\ quotients' = <<decoded>> /\ pc' = "divide"
                BY <2>3 DEF EnterEncode
            <3>2. quotients' \in Seq(Nat) /\ Len(quotients') >= 1
                BY <2>2, <3>1
            <3>3. reversed' \in Seq(Digit)
                BY <3>1
            <3> QED BY <2>1, <3>1, <3>2, <3>3 DEF decoding
        <2>4. CASE pc' = "done" /\ UNCHANGED <<number, value, reversed, quotients>>
            BY <2>1, <2>4 DEF decoding
        <2> QED BY <2>1, <2>3, <2>4
    <1>9. CASE UNCHANGED vars
        BY <1>9 DEF vars, caller, encoding, decoding
    <1> QED BY <1>1, <1>2, <1>3, <1>4, <1>5, <1>6, <1>7, <1>8, <1>9 DEF Next

(* Every variable keeps its type for every base, largest value, alphabet   *)
(* and input of base62.c.                                                  *)
THEOREM TypeCorrect == Spec => []TypeOK
    <1>1. Init => TypeInv
        BY TypeInit
    <1>2. TypeInv /\ [Next]_vars => TypeInv'
        BY TypeNext
    <1>3. TypeInv => TypeOK
        BY DEF TypeInv
    <1> QED BY <1>1, <1>2, <1>3, PTL DEF Spec
-----------------------------------------------------------------------------
(* What the loop of base62_encode has done: the quotients are those of the *)
(* divisions, the remainders are in the array, no quotient but the first   *)
(* was zero, and what is left shrinks with the powers of the base.         *)
EncodeInv ==
    /\ Len(quotients) = Len(reversed) + 1
    /\ value = quotients[Len(reversed) + 1]
    /\ \A k \in 1 .. Len(reversed) :
          /\ quotients[k] = quotients[k + 1] * Base + reversed[k]
          /\ k > 1 => quotients[k] # 0
    /\ \A k \in 1 .. Len(quotients) : quotients[k] <= MaxValue
    /\ pc = "divide" => value # 0 \/ Len(reversed) = 0
    /\ pc = "emit" => value = 0 /\ Len(reversed) > 0
    /\ Len(reversed) <= MaxEncodedLength
    /\ value * Power[Len(reversed)] <= MaxValue
    /\ pc \in {"call", "divide", "emit"} => status.encode = "none"
    /\ status.encode = "OK" =>
          /\ Len(reversed) < capacity
          /\ output = Emitted
          /\ value = 0 /\ Len(reversed) > 0
    /\ status.encode = "BUFFER_TOO_SMALL" => capacity <= Len(reversed)

(* No loop has run in an initial state.                                    *)
LEMMA EncodeInit == Init => EncodeInv
    <1> SUFFICES ASSUME Init PROVE EncodeInv
        OBVIOUS
    <1> QED BY BaseAssumption, LengthAssumption DEF Init, EncodeInv

(* Entering base62_encode.                                                 *)
LEMMA EncodeEntered ==
    ASSUME TypeInv, NEW v \in Value, EnterEncode(v), status.encode = "none",
           status'.encode = "none"
    PROVE  EncodeInv'
    <1>1. /\ pc' = "divide" /\ value' = v /\ reversed' = <<>>
          /\ quotients' = <<v>>
        BY DEF EnterEncode
    <1>2. v \in Nat /\ v <= MaxValue
        BY BaseAssumption DEF Value
    <1>3. v * Power[0] = v
        BY <1>2, LengthAssumption
    <1>4. Len(reversed') = 0 /\ Len(quotients') = 1 /\ quotients'[1] = v
        BY <1>1
    <1> QED BY <1>1, <1>2, <1>3, <1>4, LengthAssumption DEF EncodeInv

(* One iteration of the loop of base62_encode adds a digit and a quotient. *)
LEMMA EncodeDigitKeepsEncodeInv ==
    ASSUME TypeInv, EncodeInv, EncodeDigit
    PROVE  EncodeInv'
    <1> DEFINE n == Len(reversed)
               q == value \div Base
               r == value % Base
    <1>1. /\ value \in Nat /\ value <= MaxValue /\ Base \in Nat \ {0}
          /\ MaxValue \in Nat /\ n \in Nat /\ n <= MaxEncodedLength
          /\ reversed \in Seq(Digit) /\ quotients \in Seq(Nat)
        BY BaseAssumption, LenProperties DEF TypeInv, TypeOK, Value, EncodeInv
    <1>2. /\ q \in Nat /\ r \in 0 .. (Base - 1)
          /\ value = Base * q + r /\ q <= value
        BY <1>1, DivMod, DivAtMost
    <1>3. /\ reversed' = Append(reversed, r) /\ quotients' = Append(quotients, q)
          /\ value' = q /\ pc' = (IF q = 0 THEN "emit" ELSE "divide")
          /\ UNCHANGED <<caller, output, decoding, status>>
          /\ pc = "divide"
        BY DEF EncodeDigit
    <1> HIDE DEF q, r
    <1>4. r \in Digit
        BY <1>2 DEF Digit
    <1>5. /\ Len(reversed') = n + 1 /\ reversed'[n + 1] = r
          /\ \A i \in 1 .. n : reversed'[i] = reversed[i]
        BY <1>1, <1>3, <1>4, Appended
    <1>6. /\ Len(quotients') = Len(quotients) + 1
          /\ quotients'[Len(quotients) + 1] = q
          /\ \A i \in 1 .. Len(quotients) : quotients'[i] = quotients[i]
        BY <1>1, <1>2, <1>3, Appended
    <1>7. Len(quotients) = n + 1 /\ value = quotients[n + 1]
        BY DEF EncodeInv
    <1>8. n + 1 <= MaxEncodedLength
        <2>1. n = 0 \/ value # 0
            BY <1>3 DEF EncodeInv
        <2>2. CASE n = 0
            BY <2>2, LengthAssumption
        <2>3. CASE n = MaxEncodedLength /\ value # 0
            <3>1. value * Power[MaxEncodedLength] <= MaxValue
                BY <2>3 DEF EncodeInv
            <3>2. 1 * Power[MaxEncodedLength] <= value * Power[MaxEncodedLength]
                BY <1>1, <2>3, LengthAssumption, TimesMonotone
            <3> QED BY <1>1, <3>1, <3>2, LengthAssumption
        <2> QED BY <1>1, <2>1, <2>2, <2>3, LengthAssumption
    <1>9. q * Power[n + 1] <= MaxValue
        <2>1. Power[n] \in Nat /\ Power[n + 1] = Base * Power[n]
            BY <1>1, <1>8, LengthAssumption
        <2> DEFINE p == Power[n]
        <2>2. value * p <= MaxValue /\ p \in Nat
            BY <2>1 DEF EncodeInv
        <2>3. Power[n + 1] = Base * p
            BY <2>1
        <2> HIDE DEF p
        <2>4. (Base * q) * p <= value * p
            <3>1. Base * q \in Nat /\ Base * q <= value
                BY <1>1, <1>2
            <3> QED BY <1>1, <2>2, <3>1, TimesMonotone
        <2>5. q * (Base * p) = (Base * q) * p
            BY <1>1, <1>2, <2>2
        <2>6. q * (Base * p) \in Int /\ value * p \in Int
            BY <1>1, <1>2, <2>2
        <2> QED BY <1>1, <2>2, <2>3, <2>4, <2>5, <2>6
    <1>10. \A k \in 1 .. (n + 1) :
              /\ quotients'[k] = quotients'[k + 1] * Base + reversed'[k]
              /\ k > 1 => quotients'[k] # 0
        <2> TAKE k \in 1 .. (n + 1)
        <2>1. CASE k <= n
            <3>1. k \in 1 .. n /\ k + 1 \in 1 .. (n + 1)
                BY <1>1, <2>1
            <3>2. /\ quotients'[k] = quotients[k]
                  /\ quotients'[k + 1] = quotients[k + 1]
                  /\ reversed'[k] = reversed[k]
                BY <1>1, <1>5, <1>6, <1>7, <3>1
            <3> QED BY <3>1, <3>2 DEF EncodeInv
        <2>2. CASE k = n + 1
            <3>1. /\ quotients'[k] = value /\ quotients'[k + 1] = q
                  /\ reversed'[k] = r
                BY <1>1, <1>5, <1>6, <1>7, <2>2
            <3>2. k > 1 => value # 0
                BY <1>1, <1>3, <2>2 DEF EncodeInv
            <3>3. q * Base = Base * q
                BY <1>1, <1>2
            <3> QED BY <1>2, <3>1, <3>2, <3>3
        <2> QED BY <1>1, <2>1, <2>2
    <1>11. \A k \in 1 .. Len(quotients') : quotients'[k] <= MaxValue
        <2> TAKE k \in 1 .. Len(quotients')
        <2>1. CASE k <= n + 1
            BY <1>1, <1>6, <1>7, <2>1 DEF EncodeInv
        <2>2. CASE k = n + 2
            BY <1>1, <1>2, <1>6, <1>7, <2>2
        <2> QED BY <1>1, <1>6, <1>7, <2>1, <2>2
    <1>12. /\ status'.encode = "none"
           /\ pc' = "emit" => q = 0
           /\ pc' = "divide" => q # 0
        BY <1>3 DEF EncodeInv
    <1> HIDE DEF n
    <1> QED
        BY <1>1, <1>3, <1>5, <1>6, <1>7, <1>8, <1>9, <1>10, <1>11, <1>12, SMTT(30)
            DEF EncodeInv

(* Every step but the one that enters base62_encode a second time keeps    *)
(* what is known of its loop.                                              *)
LEMMA EncodeInvNext == TypeInv /\ EncodeInv /\ [Next]_vars => EncodeInv' \/ DecodeEnd
    <1> SUFFICES ASSUME TypeInv, EncodeInv, [Next]_vars, ~DecodeEnd
                 PROVE  EncodeInv'
        OBVIOUS
    <1>1. CASE Call
        <2>1. number \in Value /\ status.encode = "none" /\ UNCHANGED status
            BY <1>1 DEF TypeInv, TypeOK, EncodeInv, Call
        <2>2. CASE EnterEncode(number)
            BY <2>1, <2>2, EncodeEntered
        <2>3. CASE EnterDecode /\ UNCHANGED <<value, reversed, quotients>>
            BY <1>1, <2>1, <2>3
                DEF EncodeInv, Call, EnterDecode, caller, Emitted
        <2> QED BY <1>1, <2>2, <2>3 DEF Call
    <1>2. CASE EncodeDigit
        BY <1>2, EncodeDigitKeepsEncodeInv
    <1>3. CASE EncodeTooSmall
        BY <1>3 DEF EncodeTooSmall, TooSmall, EncodeInv, TypeInv, TypeOK, caller,
                    encoding, decoding, Emitted
    <1>4. CASE EncodeEmit
        <2>1. /\ status'.encode = "OK" /\ output' = Emitted
              /\ Len(reversed) < capacity /\ pc = "emit"
              /\ UNCHANGED <<first, number, capacity, value, reversed, quotients>>
              /\ pc' \in {"check", "done"}
            <3>1. Len(reversed) \in Nat /\ capacity \in Nat
                BY LengthAssumption, LenProperties DEF TypeInv, TypeOK
            <3> QED BY <1>4, <3>1
                    DEF EncodeEmit, TooSmall, EnterDecode, TypeInv, TypeOK
        <2>2. Emitted' = Emitted
            BY <2>1 DEF Emitted
        <2> QED BY <2>1, <2>2 DEF EncodeInv
    <1>5. CASE DecodeCheck
        BY <1>5 DEF DecodeCheck, DecodeReturns, EncodeInv, TypeInv, TypeOK, caller,
                    encoding, decoding, Emitted
    <1>6. CASE DecodeForeign
        BY <1>6 DEF DecodeForeign, DecodeReturns, EncodeInv, TypeInv, TypeOK,
                    caller, encoding, decoding, Emitted
    <1>7. CASE DecodeDigit
        <2>1. /\ UNCHANGED <<caller, encoding>>
              /\ \/ UNCHANGED <<pc, status>>
                 \/ DecodeReturns("OVERFLOW")
            BY <1>7 DEF DecodeDigit, DecodeReturns
        <2> QED BY <2>1 DEF DecodeReturns, EncodeInv, TypeInv, TypeOK, caller,
                            encoding, Emitted
    <1>8. CASE UNCHANGED vars
        BY <1>8 DEF vars, EncodeInv, caller, encoding, decoding, Emitted
    <1> QED BY <1>1, <1>2, <1>3, <1>4, <1>5, <1>6, <1>7, <1>8 DEF Next

-----------------------------------------------------------------------------
(* What base62_decode has done: the prefixes are the exact values of the   *)
(* characters consumed, the accumulator is the last of them, and no prefix *)
(* of a longer text is zero because its first digit is not.                *)
DecodeInv ==
    /\ prefixes[1] = 0
    /\ Len(prefixes) >= index + 1
    /\ decoded = prefixes[index + 1]
    /\ \A i \in 1 .. index : \E d \in Digit :
          text[i] = Alphabet[d] /\ prefixes[i + 1] = prefixes[i] * Base + d
    /\ Len(text) > 1 => \A i \in 2 .. (index + 1) : prefixes[i] # 0
    /\ pc = "scan" \/ index > 0 => ~BadShape
    /\ pc \in {"call", "check"} => index = 0
    /\ pc \in {"call", "check", "scan"} =>
          Len(prefixes) = index + 1 /\ status.decode = "none"
    /\ status.decode = "OVERFLOW" => prefixes[Len(prefixes)] > MaxValue
    /\ status.decode = "OK" => index = Len(text) /\ ~BadShape

(* No character is consumed in an initial state.                           *)
LEMMA DecodeInit == Init => DecodeInv
    BY DEF Init, DecodeInv

(* One iteration of the loop of base62_decode: the test before the         *)
(* multiplication is exact, so that the accumulator is the value of the    *)
(* prefix.                                                                 *)
LEMMA DecodeDigitKeepsDecodeInv ==
    ASSUME TypeInv, DecodeInv, DecodeDigit
    PROVE  DecodeInv'
    <1>1. PICK d \in Digit :
              /\ text[index + 1] = Alphabet[d]
              /\ prefixes' = Append(prefixes, prefixes[index + 1] * Base + d)
              /\ \/ /\ WouldOverflow(d)
                    /\ DecodeReturns("OVERFLOW")
                    /\ UNCHANGED <<decoded, index>>
                 \/ /\ ~WouldOverflow(d)
                    /\ decoded' = (decoded * Base + d) % (MaxValue + 1)
                    /\ index' = index + 1
                    /\ UNCHANGED <<pc, caller, encoding, status>>
        BY DEF DecodeDigit, DigitsOf
    <1> DEFINE sum == decoded * Base + d
    <1>2. /\ Base \in Nat \ {0} /\ d \in Nat /\ decoded \in Nat
          /\ MaxValue \in Nat /\ index \in Nat /\ prefixes \in Seq(Nat)
          /\ text \in Seq(Char) /\ Len(text) \in Nat /\ index < Len(text)
        BY BaseAssumption, LenProperties
            DEF Digit, TypeInv, TypeOK, Value, DecodeDigit
    <1>3. sum \in Nat
        BY <1>2, LinearNat
    <1>4. /\ decoded = prefixes[index + 1] /\ prefixes[1] = 0
          /\ Len(prefixes) = index + 1 /\ ~BadShape /\ status.decode = "none"
          /\ pc = "scan"
        BY DEF DecodeDigit, DecodeInv
    <1>5. WouldOverflow(d) <=> sum > MaxValue
        BY <1>2, OverflowTest DEF WouldOverflow
    <1>6. prefixes' = Append(prefixes, sum)
        BY <1>1, <1>4
    <1> HIDE DEF sum
    <1>7. /\ Len(prefixes') = index + 2 /\ prefixes'[index + 2] = sum
          /\ \A i \in 1 .. (index + 1) : prefixes'[i] = prefixes[i]
        BY <1>2, <1>3, <1>4, <1>6, Appended
    <1>8. \A i \in 1 .. index : prefixes'[i] = prefixes[i]
                              /\ prefixes'[i + 1] = prefixes[i + 1]
        BY <1>2, <1>7
    <1>9. prefixes'[1] = 0 /\ prefixes'[index + 1] = decoded
        BY <1>2, <1>4, <1>7
    <1>10. CASE /\ WouldOverflow(d)
                /\ DecodeReturns("OVERFLOW")
                /\ UNCHANGED <<decoded, index>>
        <2>1. /\ UNCHANGED <<text, decoded, index>> /\ pc' = "done"
              /\ status'.decode = "OVERFLOW"
            BY <1>10 DEF DecodeReturns, caller, TypeInv, TypeOK
        <2>2. \A i \in 2 .. (index + 1) : prefixes'[i] = prefixes[i]
            BY <1>2, <1>7
        <2>3. BadShape' = BadShape
            BY <2>1 DEF BadShape
        <2>4. \A i \in 1 .. index' : \E e \in Digit :
                 /\ text'[i] = Alphabet[e]
                 /\ prefixes'[i + 1] = prefixes'[i] * Base + e
            BY <1>8, <2>1 DEF DecodeInv
        <2>5. Len(text') > 1 => \A i \in 2 .. (index' + 1) : prefixes'[i] # 0
            BY <2>1, <2>2 DEF DecodeInv
        <2>6. /\ Len(prefixes') = index' + 2 /\ decoded' = prefixes'[index' + 1]
              /\ prefixes'[Len(prefixes')] > MaxValue
            BY <1>2, <1>4, <1>5, <1>7, <1>9, <1>10, <2>1
        <2>7. /\ Len(prefixes') >= index' + 1 /\ ~BadShape'
              /\ pc' = "done" /\ status'.decode = "OVERFLOW"
            BY <1>2, <1>4, <2>1, <2>3, <2>6
        <2> QED BY <1>9, <2>4, <2>5, <2>6, <2>7 DEF DecodeInv
    <1>11. CASE /\ ~WouldOverflow(d)
                /\ decoded' = sum % (MaxValue + 1)
                /\ index' = index + 1
                /\ UNCHANGED <<pc, caller, encoding, status>>
        <2>1. decoded' = sum
            <3>1. sum < MaxValue + 1
                BY <1>2, <1>3, <1>5, <1>11
            <3>2. sum % (MaxValue + 1) = sum
                BY <1>2, <1>3, <3>1, SmallRemainder
            <3> QED BY <1>11, <3>2
        <2>2. \A i \in 1 .. index' : \E e \in Digit :
                 /\ text'[i] = Alphabet[e]
                 /\ prefixes'[i + 1] = prefixes'[i] * Base + e
            <3> TAKE i \in 1 .. index'
            <3>1. CASE i \in 1 .. index
                BY <1>8, <1>11, <3>1 DEF DecodeInv, caller
            <3>2. CASE i = index + 1
                <4>1. text'[i] = Alphabet[d]
                    BY <1>1, <1>11, <3>2 DEF caller
                <4>2. prefixes'[i + 1] = sum /\ prefixes'[i] = decoded
                    <5>1. index + 1 + 1 = index + 2
                        BY <1>2
                    <5> QED BY <1>7, <1>9, <3>2, <5>1
                <4>3. prefixes'[i + 1] = prefixes'[i] * Base + d
                    BY <4>2 DEF sum
                <4> QED BY <4>1, <4>3
            <3> QED BY <1>2, <1>11, <3>1, <3>2
        <2>3. Len(text) > 1 => sum # 0
            <3> SUFFICES ASSUME Len(text) > 1 PROVE sum # 0
                OBVIOUS
            <3>1. CASE index = 0
                <4>1. d # 0
                    BY <1>1, <1>4, <3>1 DEF BadShape
                <4> QED BY <1>2, <1>4, <3>1, <4>1 DEF sum
            <3>2. CASE index > 0
                <4>1. index + 1 \in 2 .. (index + 1)
                    BY <1>2, <3>2
                <4>2. decoded # 0
                    BY <1>4, <4>1 DEF DecodeInv
                <4>3. 1 * Base <= decoded * Base /\ decoded * Base \in Nat
                    BY <1>2, <4>2, TimesMonotone
                <4> QED BY <1>2, <4>3 DEF sum
            <3> QED BY <1>2, <3>1, <3>2
        <2>4. Len(text') > 1 => \A i \in 2 .. (index' + 1) : prefixes'[i] # 0
            <3> SUFFICES ASSUME Len(text) > 1, NEW i \in 2 .. (index + 2)
                         PROVE  prefixes'[i] # 0
                BY <1>2, <1>11 DEF caller
            <3>1. CASE i = index + 2
                BY <1>7, <2>3, <3>1
            <3>2. CASE i \in 2 .. (index + 1)
                <4>1. i \in 1 .. (index + 1)
                    BY <1>2, <3>2
                <4> QED BY <1>7, <3>2, <4>1 DEF DecodeInv
            <3> QED BY <1>2, <3>1, <3>2
        <2>5. BadShape' = BadShape
            BY <1>11 DEF BadShape, caller
        <2>6. /\ Len(prefixes') = index' + 1 /\ decoded' = prefixes'[index' + 1]
              /\ pc' = "scan" /\ status'.decode = "none" /\ index' > 0
            BY <1>2, <1>4, <1>7, <1>11, <2>1
        <2> QED BY <1>4, <1>9, <2>2, <2>4, <2>5, <2>6 DEF DecodeInv
    <1> QED BY <1>1, <1>10, <1>11 DEF sum

-----------------------------------------------------------------------------
(* A number that is encoded first: its text is decoded prefix by prefix    *)
(* into the quotients that made it, in reverse.                            *)
EncodeFirstInv ==
    first = "encode" =>
        /\ pc # "call" => quotients[1] = number
        /\ pc \in {"call", "divide", "emit"} => status.decode = "none"
        /\ pc \in {"check", "scan"} => status.encode = "OK"
        /\ status.decode \in {"none", "OK"}
        /\ status.decode = "OK" => status.encode = "OK"
        /\ status.encode = "OK" =>
              /\ text = output
              /\ index <= Len(reversed)
              /\ \A i \in 1 .. (index + 1) :
                    prefixes[i] = quotients[Len(reversed) + 2 - i]

(* A text that is decoded first: the divisions walk back over its prefixes.*)
DecodeFirstInv ==
    first = "decode" =>
        /\ capacity = MaxEncodedLength + 1
        /\ pc \in {"call", "check", "scan"} => status.encode = "none"
        /\ pc \in {"divide", "emit"} \/ status.encode # "none" =>
              /\ status.decode = "OK"
              /\ number = decoded
              /\ Len(reversed) <= Len(text)
              /\ \A k \in 1 .. (Len(reversed) + 1) :
                    quotients[k] = prefixes[Len(text) + 2 - k]
              /\ \A k \in 1 .. Len(reversed) :
                    Alphabet[reversed[k]] = text[Len(text) + 1 - k]
        /\ pc = "emit" \/ status.encode = "OK" => Len(reversed) = Len(text)
        /\ status.encode # "BUFFER_TOO_SMALL"
        /\ pc = "done" /\ status.decode = "OK" => status.encode = "OK"

Inv == TypeInv /\ EncodeInv /\ DecodeInv /\ EncodeFirstInv /\ DecodeFirstInv

(* The inductive invariant holds initially.                                *)
LEMMA InvInit == Init => Inv
    <1> SUFFICES ASSUME Init PROVE Inv
        OBVIOUS
    <1>1. EncodeFirstInv
        BY DEF Init, EncodeFirstInv
    <1>2. DecodeFirstInv
        BY DEF Init, DecodeFirstInv
    <1> QED BY <1>1, <1>2, TypeInit, EncodeInit, DecodeInit DEF Inv

(* The text that is emitted is well-formed and has the digits in order.    *)
LEMMA EmittedText ==
    ASSUME TypeInv, EncodeInv, value = 0, Len(reversed) > 0
    PROVE  /\ Emitted \in Seq(Char)
           /\ Len(Emitted) = Len(reversed)
           /\ \A i \in 1 .. Len(reversed) :
                 Emitted[i] = Alphabet[reversed[Len(reversed) - i + 1]]
           /\ Len(Emitted) > 1 => Emitted[1] # Alphabet[0]
    <1>1. Len(reversed) \in Nat /\ reversed \in Seq(Digit)
        BY LenProperties DEF TypeInv, TypeOK
    <1>2. \A i \in 1 .. Len(reversed) :
                reversed[Len(reversed) - i + 1] \in Digit
        BY <1>1
    <1>3. Emitted \in [1 .. Len(reversed) -> Char]
        BY <1>2 DEF Emitted, Char
    <1>4. Emitted \in Seq(Char) /\ Len(Emitted) = Len(reversed)
        BY <1>1, <1>3, Mapped
    <1>5. \A i \in 1 .. Len(reversed) :
                Emitted[i] = Alphabet[reversed[Len(reversed) - i + 1]]
        BY DEF Emitted
    <1>6. ASSUME Len(reversed) > 1 PROVE Emitted[1] # Alphabet[0]
        <2> DEFINE n == Len(reversed)
        <2>1. /\ n \in 1 .. n /\ n > 1 /\ quotients[n] # 0
              /\ quotients[n] = quotients[n + 1] * Base + reversed[n]
              /\ quotients[n + 1] = 0
            <3>1. n \in 1 .. n /\ n > 1
                BY <1>1, <1>6
            <3> QED BY <3>1 DEF EncodeInv
        <2>2. reversed[n] # 0
            BY <1>1, <2>1, BaseAssumption
        <2>3. Emitted[1] = Alphabet[reversed[n]] /\ reversed[n] \in Digit
            <3>1. 1 \in 1 .. n /\ n - 1 + 1 = n
                BY <1>1, <2>1
            <3>2. Emitted[1] = Alphabet[reversed[n - 1 + 1]]
                BY <1>5, <3>1
            <3> QED BY <1>1, <2>1, <3>1, <3>2
        <2>4. 0 \in Digit
            BY BaseAssumption DEF Digit
        <2> QED BY <2>2, <2>3, <2>4, AlphabetAssumption
    <1> QED BY <1>4, <1>5, <1>6

(* Every step keeps what is known of the loop of base62_decode.            *)
LEMMA DecodeInvNext == Inv /\ [Next]_vars => DecodeInv'
    <1> SUFFICES ASSUME Inv, [Next]_vars PROVE DecodeInv'
        OBVIOUS
    <1> USE DEF Inv
    <1>1. CASE Call
        <2>1. UNCHANGED <<status, text>> /\ DecodeInv /\ pc = "call"
            BY <1>1 DEF Call, caller
        <2>2. CASE EnterEncode(number) /\ UNCHANGED decoding
            BY <2>1, <2>2 DEF DecodeInv, EnterEncode, decoding, BadShape
        <2>3. CASE EnterDecode
            <3>1. /\ decoded' = 0 /\ index' = 0 /\ prefixes' = <<0>>
                  /\ pc' = "check" /\ Len(prefixes') = 1
                BY <2>3 DEF EnterDecode
            <3> QED BY <2>1, <3>1 DEF DecodeInv
        <2> QED BY <1>1, <2>2, <2>3 DEF Call
    <1>2. CASE EncodeDigit
        BY <1>2 DEF EncodeDigit, DecodeInv, caller, decoding, BadShape
    <1>3. CASE EncodeTooSmall
        BY <1>3 DEF EncodeTooSmall, DecodeInv, caller, decoding, BadShape,
                    TypeInv, TypeOK
    <1>4. CASE EncodeEmit
        <2>1. CASE first = "encode"
            <3>1. /\ decoded' = 0 /\ index' = 0 /\ prefixes' = <<0>>
                  /\ pc' = "check" /\ Len(prefixes') = 1
                BY <1>4, <2>1 DEF EncodeEmit, EnterDecode
            <3>2. status'.decode = "none"
                BY <1>4, <2>1
                    DEF EncodeEmit, EncodeFirstInv, TypeInv, TypeOK
            <3> QED BY <3>1, <3>2 DEF DecodeInv
        <2>2. CASE first # "encode"
            BY <1>4, <2>2 DEF EncodeEmit, DecodeInv, decoding, BadShape,
                    TypeInv, TypeOK
        <2> QED BY <2>1, <2>2
    <1>5. CASE DecodeCheck
        <2>1. /\ UNCHANGED <<text, decoding>> /\ pc = "check" /\ BadShape' = BadShape
              /\ DecodeInv
            BY <1>5 DEF DecodeCheck, DecodeReturns, caller, BadShape
        <2>2. CASE pc' = "done" /\ status'.decode = "INVALID"
            BY <2>1, <2>2 DEF DecodeInv, decoding
        <2>3. CASE ~BadShape /\ pc' = "scan" /\ UNCHANGED status
            BY <2>1, <2>3 DEF DecodeInv, decoding
        <2> QED BY <1>5, <2>2, <2>3 DEF DecodeCheck, DecodeReturns, TypeInv, TypeOK
    <1>6. CASE DecodeForeign
        BY <1>6 DEF DecodeForeign, DecodeReturns, DecodeInv, caller, encoding,
                    decoding, BadShape, TypeInv, TypeOK
    <1>7. CASE DecodeDigit
        BY <1>7, DecodeDigitKeepsDecodeInv
    <1>8. CASE DecodeEnd
        <2>1. /\ UNCHANGED <<text, decoding>> /\ pc' \in {"divide", "done"}
              /\ status'.decode = "OK" /\ index = Len(text) /\ pc = "scan"
            BY <1>8 DEF DecodeEnd, EnterEncode, TypeInv, TypeOK
        <2> QED BY <2>1 DEF DecodeInv, decoding, BadShape
    <1>9. CASE UNCHANGED vars
        BY <1>9 DEF vars, DecodeInv, caller, encoding, decoding, BadShape
    <1> QED BY <1>1, <1>2, <1>3, <1>4, <1>5, <1>6, <1>7, <1>8, <1>9 DEF Next

(* Every step keeps what is known of the loop of base62_encode.            *)
LEMMA EncodeInvKept == Inv /\ [Next]_vars => EncodeInv'
    <1> SUFFICES ASSUME Inv, [Next]_vars PROVE EncodeInv'
        OBVIOUS
    <1>1. CASE DecodeEnd
        <2>1. CASE first = "decode"
            <3>1. EnterEncode(decoded) /\ decoded \in Value
                BY <1>1, <2>1 DEF DecodeEnd, Inv, TypeInv, TypeOK
            <3>2. status.encode = "none" /\ status'.encode = "none"
                BY <1>1, <2>1 DEF DecodeEnd, Inv, DecodeFirstInv, TypeInv, TypeOK
            <3> QED BY <3>1, <3>2, EncodeEntered DEF Inv
        <2>2. CASE first # "decode"
            BY <1>1, <2>2 DEF DecodeEnd, Inv, EncodeInv, TypeInv, TypeOK, Emitted
        <2> QED BY <2>1, <2>2
    <1> QED BY <1>1, EncodeInvNext DEF Inv

(* The caller never changes its mind about its first call.                 *)
LEMMA FirstStays == [Next]_vars => first' = first
    <1>1. Call \/ EncodeDigit \/ EncodeTooSmall => first' = first
        BY DEF Call, EncodeDigit, EncodeTooSmall, caller
    <1>2. EncodeEmit \/ DecodeEnd => first' = first
        BY DEF EncodeEmit, DecodeEnd
    <1>3. DecodeCheck \/ DecodeForeign => first' = first
        BY DEF DecodeCheck, DecodeForeign, DecodeReturns, caller
    <1>4. DecodeDigit => first' = first
        BY DEF DecodeDigit, DecodeReturns, caller
    <1>5. UNCHANGED vars => first' = first
        BY DEF vars
    <1> QED BY <1>1, <1>2, <1>3, <1>4, <1>5 DEF Next

(* When a number was encoded first, decoding one more character undoes one *)
(* division.                                                               *)
LEMMA EncodeFirstDigit ==
    ASSUME Inv, DecodeDigit, first = "encode"
    PROVE  EncodeFirstInv'
    <1> DEFINE n == Len(reversed)
    <1>1. /\ status.encode = "OK" /\ text = Emitted /\ text = output
          /\ value = 0 /\ n > 0 /\ n \in Nat /\ index \in Nat
          /\ index < Len(text) /\ pc = "scan" /\ decoded \in Nat
          /\ Len(prefixes) = index + 1 /\ decoded = prefixes[index + 1]
          /\ status.decode = "none" /\ quotients[1] = number
          /\ prefixes \in Seq(Nat) /\ quotients \in Seq(Nat)
          /\ Len(quotients) = n + 1 /\ reversed \in Seq(Digit)
        BY LenProperties, BaseAssumption DEF Inv, EncodeFirstInv, EncodeInv,
            DecodeInv, DecodeDigit, TypeInv, TypeOK, Value
    <1>2. /\ Len(text) = n /\ index < n
          /\ \A i \in 1 .. n : text[i] = Alphabet[reversed[n - i + 1]]
        BY <1>1, EmittedText DEF Inv
    <1>3. PICK d \in Digit :
              /\ text[index + 1] = Alphabet[d]
              /\ prefixes' = Append(prefixes, decoded * Base + d)
              /\ \/ WouldOverflow(d)
                 \/ /\ index' = index + 1
                    /\ UNCHANGED <<pc, caller, encoding, status>>
        BY <1>1 DEF DecodeDigit, DigitsOf
    <1>4. n - index \in 1 .. n /\ index + 1 \in 1 .. n
        BY <1>1, <1>2
    <1>5. d = reversed[n - index]
        <2>1. text[index + 1] = Alphabet[reversed[n - (index + 1) + 1]]
            BY <1>2, <1>4
        <2>2. n - (index + 1) + 1 = n - index
            BY <1>1
        <2>3. reversed[n - index] \in Digit
            BY <1>1, <1>4
        <2> QED BY <1>3, <2>1, <2>2, <2>3, AlphabetAssumption
    <1>6. decoded * Base + d = quotients[n - index]
        <2>1. quotients[n - index]
                  = quotients[n - index + 1] * Base + reversed[n - index]
            BY <1>4 DEF Inv, EncodeInv
        <2>2. prefixes[index + 1] = quotients[n + 2 - (index + 1)]
            <3>1. index + 1 \in 1 .. (index + 1)
                BY <1>1
            <3> QED BY <1>1, <3>1 DEF Inv, EncodeFirstInv
        <2>3. n + 2 - (index + 1) = n - index + 1
            BY <1>1
        <2> QED BY <1>1, <1>5, <2>1, <2>2, <2>3
    <1>7. quotients[n - index] <= MaxValue /\ quotients[n - index] \in Nat
        <2>1. n - index \in 1 .. Len(quotients)
            BY <1>1, <1>4
        <2> QED BY <1>1, <2>1, SMTT(30) DEF Inv, EncodeInv
    <1>8. ~WouldOverflow(d)
        <2>1. WouldOverflow(d) <=> decoded * Base + d > MaxValue
            BY <1>1, OverflowTest DEF WouldOverflow
        <2>2. ~(quotients[n - index] > MaxValue)
            BY <1>7, BaseAssumption
        <2> QED BY <1>6, <2>1, <2>2
    <1>9. /\ index' = index + 1
          /\ UNCHANGED <<pc, caller, encoding, status>>
        BY <1>3, <1>8
    <1>10. /\ prefixes'[index + 2] = quotients[n - index]
           /\ \A i \in 1 .. (index + 1) : prefixes'[i] = prefixes[i]
        <2> DEFINE q == quotients[n - index]
        <2>1. prefixes' = Append(prefixes, q)
            BY <1>3, <1>6
        <2>2. q \in Nat /\ prefixes \in Seq(Nat) /\ Len(prefixes) = index + 1
            BY <1>1, <1>7
        <2> HIDE DEF q
        <2>3. /\ \A i \in 1 .. Len(prefixes) : prefixes'[i] = prefixes[i]
              /\ prefixes'[Len(prefixes) + 1] = q
            BY <2>1, <2>2, Appended
        <2>4. index + 1 + 1 = index + 2
            BY <1>1
        <2>5. /\ prefixes'[index + 2] = q
              /\ \A i \in 1 .. (index + 1) : prefixes'[i] = prefixes[i]
            BY <2>2, <2>3, <2>4
        <2> QED BY <2>5 DEF q
    <1>11. \A i \in 1 .. (index' + 1) : prefixes'[i] = quotients[n + 2 - i]
        <2> TAKE i \in 1 .. (index' + 1)
        <2>1. CASE i = index + 2
            BY <1>1, <1>10, <2>1
        <2>2. CASE i \in 1 .. (index + 1)
            BY <1>1, <1>10, <2>2 DEF Inv, EncodeFirstInv
        <2> QED BY <1>1, <1>9, <2>1, <2>2
    <1>12. /\ UNCHANGED <<first, number, text, quotients, reversed, output, pc,
                          status>>
           /\ index' <= n
        BY <1>1, <1>2, <1>9 DEF caller, encoding
    <1> QED BY <1>1, <1>11, <1>12 DEF EncodeFirstInv

(* Every step keeps the link of an encoding to the decoding after it.      *)
LEMMA EncodeFirstNext == Inv /\ [Next]_vars => EncodeFirstInv'
    <1> SUFFICES ASSUME Inv, [Next]_vars PROVE EncodeFirstInv'
        OBVIOUS
    <1>0. first' = first
        BY FirstStays
    <1> SUFFICES ASSUME first = "encode" PROVE EncodeFirstInv'
        BY <1>0 DEF EncodeFirstInv
    <1> USE DEF Inv
    <1>1. CASE Call
        <2>1. /\ EnterEncode(number) /\ UNCHANGED <<status, caller>>
              /\ pc = "call"
            BY <1>1 DEF Call
        <2>2. quotients' = <<number>> /\ pc' = "divide"
            BY <2>1 DEF EnterEncode
        <2>3. status.encode = "none" /\ status.decode = "none"
            BY <2>1 DEF EncodeInv, EncodeFirstInv
        <2> QED BY <2>1, <2>2, <2>3 DEF EncodeFirstInv, caller
    <1>2. CASE EncodeDigit
        <2>1. /\ quotients' = Append(quotients, value \div Base)
              /\ UNCHANGED <<caller, output, decoding, status>>
              /\ pc = "divide" /\ pc' \in {"emit", "divide"}
            BY <1>2 DEF EncodeDigit
        <2>2. status.encode = "none" /\ status.decode = "none"
            BY <2>1 DEF EncodeInv, EncodeFirstInv
        <2>3. quotients'[1] = quotients[1]
            <3>1. value \div Base \in Nat
                <4>1. value \in Nat /\ Base \in Nat \ {0}
                    BY BaseAssumption DEF TypeInv, TypeOK, Value
                <4> QED BY <4>1, DivMod
            <3>2. quotients \in Seq(Nat) /\ 1 \in 1 .. Len(quotients)
                BY LenProperties DEF TypeInv, TypeOK
            <3> QED BY <2>1, <3>1, <3>2, Appended
        <2> QED BY <2>1, <2>2, <2>3 DEF EncodeFirstInv, caller
    <1>3. CASE EncodeTooSmall
        <2>1. /\ UNCHANGED <<caller, encoding, decoding>> /\ pc' = "done"
              /\ status'.encode = "BUFFER_TOO_SMALL"
              /\ status'.decode = "none" /\ quotients[1] = number
            BY <1>3 DEF EncodeTooSmall, EncodeFirstInv, TypeInv, TypeOK
        <2> QED BY <2>1 DEF EncodeFirstInv, caller, encoding
    <1>4. CASE EncodeEmit
        <2>1. /\ text' = Emitted /\ output' = Emitted /\ EnterDecode
              /\ status'.encode = "OK" /\ status'.decode = "none"
              /\ UNCHANGED <<first, number, value, reversed, quotients>>
              /\ quotients[1] = number /\ value = 0
            BY <1>4 DEF EncodeEmit, EncodeFirstInv, TypeInv, TypeOK, EncodeInv
        <2>2. index' = 0 /\ pc' = "check" /\ prefixes'[1] = 0
            BY <2>1 DEF EnterDecode
        <2>3. /\ Len(reversed) \in Nat
              /\ quotients[Len(reversed) + 1] = 0
            BY <2>1, LenProperties DEF EncodeInv, TypeInv, TypeOK
        <2>4. \A i \in 1 .. (index' + 1) :
                 prefixes'[i] = quotients'[Len(reversed') + 2 - i]
            BY <2>1, <2>2, <2>3
        <2> QED BY <2>1, <2>2, <2>3, <2>4 DEF EncodeFirstInv
    <1>5. CASE DecodeCheck
        <2>1. status.encode = "OK" /\ text = Emitted /\ value = 0 /\ Len(reversed) > 0
            BY <1>5 DEF DecodeCheck, EncodeFirstInv, EncodeInv
        <2>2. ~BadShape
            BY <2>1, EmittedText, LenProperties DEF BadShape, TypeInv, TypeOK
        <2> QED BY <1>5, <2>2
                DEF DecodeCheck, EncodeFirstInv, caller, encoding, decoding
    <1>6. CASE DecodeForeign
        <2>1. status.encode = "OK" /\ text = Emitted /\ value = 0 /\ Len(reversed) > 0
            BY <1>6 DEF DecodeForeign, EncodeFirstInv, EncodeInv
        <2>2. /\ index + 1 \in 1 .. Len(reversed) /\ Len(reversed) \in Nat
              /\ index \in Nat
            BY <1>6, <2>1, EmittedText, LenProperties
                DEF DecodeForeign, TypeInv, TypeOK
        <2> DEFINE d == reversed[Len(reversed) - (index + 1) + 1]
        <2>3. text[index + 1] = Alphabet[d]
            BY <2>1, <2>2, EmittedText
        <2>4. d \in Digit
            BY <2>2 DEF TypeInv, TypeOK
        <2> QED BY <1>6, <2>3, <2>4 DEF DecodeForeign, DigitsOf
    <1>7. CASE DecodeDigit
        BY <1>7, EncodeFirstDigit
    <1>8. CASE DecodeEnd
        <2>1. /\ UNCHANGED <<first, text, output, decoding>> /\ pc' = "done"
              /\ UNCHANGED <<number, value, reversed, quotients>>
              /\ status'.encode = "OK" /\ status'.decode = "OK"
              /\ status.encode = "OK" /\ pc = "scan"
            BY <1>8 DEF DecodeEnd, EncodeFirstInv, TypeInv, TypeOK
        <2> QED BY <2>1 DEF EncodeFirstInv, decoding
    <1>9. CASE UNCHANGED vars
        BY <1>9 DEF vars, EncodeFirstInv, caller, encoding, decoding
    <1> QED BY <1>1, <1>2, <1>3, <1>4, <1>5, <1>6, <1>7, <1>8, <1>9 DEF Next

(* When a text was decoded first, one more division undoes the consumption *)
(* of one character.                                                       *)
LEMMA DecodeFirstDigit ==
    ASSUME Inv, EncodeDigit, first = "decode"
    PROVE  DecodeFirstInv'
    <1> DEFINE n == Len(reversed)
               m == Len(text)
               q == value \div Base
               r == value % Base
    <1>1. /\ n \in Nat /\ m \in Nat /\ n <= m /\ pc = "divide"
          /\ value \in Nat /\ Base \in Nat \ {0} /\ prefixes \in Seq(Nat)
          /\ reversed \in Seq(Digit) /\ quotients \in Seq(Nat)
          /\ Len(quotients) = n + 1 /\ value = quotients[n + 1]
          /\ value # 0 \/ n = 0
          /\ status.decode = "OK" /\ status.encode = "none"
          /\ number = decoded /\ index = m /\ ~BadShape
          /\ capacity = MaxEncodedLength + 1 /\ prefixes[1] = 0
          /\ Len(prefixes) >= m + 1
        BY LenProperties, BaseAssumption
            DEF Inv, EncodeInv, DecodeInv, DecodeFirstInv, EncodeDigit, TypeInv,
                TypeOK, Value
    <1>2. value = prefixes[m + 1 - n]
        <2>1. n + 1 \in 1 .. (n + 1)
            BY <1>1
        <2>2. quotients[n + 1] = prefixes[m + 2 - (n + 1)]
            BY <1>1, <2>1 DEF Inv, DecodeFirstInv
        <2>3. m + 2 - (n + 1) = m + 1 - n
            BY <1>1
        <2> QED BY <1>1, <2>2, <2>3
    <1>3. m > 0
        BY <1>1, EmptySeq DEF BadShape, Inv, TypeInv, TypeOK
    <1>4. n < m
        BY <1>1, <1>2, <1>3
    <1>5. m - n \in 1 .. m
        <2>1. n \in Nat /\ m \in Nat
            BY <1>1
        <2> HIDE DEF n, m
        <2> QED BY <1>4, <2>1
    <1>6. PICK d \in Digit :
              text[m - n] = Alphabet[d]
              /\ prefixes[m - n + 1] = prefixes[m - n] * Base + d
        BY <1>1, <1>5 DEF Inv, DecodeInv
    <1>7. q = prefixes[m - n] /\ r = d
        <2>1. prefixes[m - n] \in Nat /\ d \in Nat /\ d < Base
            <3>1. m - n \in 1 .. Len(prefixes)
                BY <1>1, <1>5
            <3>2. prefixes[m - n] \in Nat
                BY <1>1, <3>1, ElementOfSeq
            <3> QED BY <1>1, <3>2 DEF Digit
        <2>2. m + 1 - n = m - n + 1
            BY <1>1
        <2>3. value = prefixes[m - n] * Base + d
            BY <1>2, <1>6, <2>2
        <2> DEFINE p == prefixes[m - n]
        <2>4. p \in Nat /\ value = p * Base + d
            BY <2>1, <2>3
        <2> HIDE DEF p
        <2>5. (p * Base + d) \div Base = p /\ (p * Base + d) % Base = d
            BY <1>1, <2>1, <2>4, DivUnique
        <2>6. q = p /\ r = d
            BY <2>4, <2>5
        <2> QED BY <2>6 DEF p
    <1>8. /\ reversed' = Append(reversed, r) /\ quotients' = Append(quotients, q)
          /\ pc' = (IF q = 0 THEN "emit" ELSE "divide")
          /\ UNCHANGED <<first, number, text, capacity, output, decoded, index,
                         prefixes, status>>
        BY DEF EncodeDigit, caller, decoding
    <1>9. q \in Nat /\ r \in Digit
        BY <1>1, <1>7, DivMod
    <1> HIDE DEF q, r
    <1>10. /\ Len(reversed') = n + 1 /\ reversed'[n + 1] = r
           /\ \A i \in 1 .. n : reversed'[i] = reversed[i]
           /\ quotients'[n + 2] = q
           /\ \A i \in 1 .. (n + 1) : quotients'[i] = quotients[i]
        <2>1. /\ Len(reversed') = n + 1 /\ reversed'[n + 1] = r
              /\ \A i \in 1 .. n : reversed'[i] = reversed[i]
            BY <1>1, <1>8, <1>9, Appended
        <2>2. /\ quotients'[n + 1 + 1] = q
              /\ \A i \in 1 .. (n + 1) : quotients'[i] = quotients[i]
            BY <1>1, <1>8, <1>9, Appended, SMTT(30)
        <2> QED BY <1>1, <2>1, <2>2
    <1>11. \A k \in 1 .. (n + 2) : quotients'[k] = prefixes[m + 2 - k]
        <2> TAKE k \in 1 .. (n + 2)
        <2>1. CASE k = n + 2
            BY <1>1, <1>7, <1>10, <2>1
        <2>2. CASE k \in 1 .. (n + 1)
            BY <1>1, <1>10, <2>2 DEF Inv, DecodeFirstInv
        <2> QED BY <1>1, <2>1, <2>2
    <1>12. \A k \in 1 .. (n + 1) : Alphabet[reversed'[k]] = text[m + 1 - k]
        <2> TAKE k \in 1 .. (n + 1)
        <2>1. CASE k = n + 1
            <3>1. m + 1 - k = m - n
                BY <1>1, <2>1
            <3> QED BY <1>6, <1>7, <1>10, <2>1, <3>1
        <2>2. CASE k \in 1 .. n
            BY <1>1, <1>10, <2>2 DEF Inv, DecodeFirstInv
        <2> QED BY <1>1, <2>1, <2>2
    <1>13. pc' = "emit" => n + 1 = m
        <2> SUFFICES ASSUME q = 0, n + 1 # m PROVE FALSE
            BY <1>8
        <2>1. m > 1 /\ m - n \in 2 .. (index + 1)
            BY <1>1, <1>4, SMTT(30)
        <2>2. prefixes[m - n] # 0
            BY <1>1, <2>1 DEF Inv, DecodeInv
        <2> QED BY <1>7, <2>2
    <1>14. /\ n + 1 <= m /\ pc' \in {"emit", "divide"}
           /\ status'.encode = "none" /\ status'.decode = "OK"
           /\ number' = decoded' /\ capacity' = MaxEncodedLength + 1
           /\ text' = text /\ prefixes' = prefixes
        BY <1>1, <1>4, <1>8
    <1>15. n + 1 + 1 = n + 2
        BY <1>1
    <1> HIDE DEF n
    <1> QED BY <1>10, <1>11, <1>12, <1>13, <1>14, <1>15 DEF DecodeFirstInv

(* Every step keeps the link of a decoding to the encoding after it.       *)
LEMMA DecodeFirstNext == Inv /\ [Next]_vars => DecodeFirstInv'
    <1> SUFFICES ASSUME Inv, [Next]_vars PROVE DecodeFirstInv'
        OBVIOUS
    <1>0. first' = first
        BY FirstStays
    <1> SUFFICES ASSUME first = "decode" PROVE DecodeFirstInv'
        BY <1>0 DEF DecodeFirstInv
    <1> USE DEF Inv
    <1>1. CASE Call
        <2>1. /\ EnterDecode /\ UNCHANGED <<status, capacity>>
              /\ status.encode = "none" /\ capacity = MaxEncodedLength + 1
            BY <1>1 DEF Call, caller, DecodeFirstInv
        <2>2. pc' = "check"
            BY <2>1 DEF EnterDecode
        <2> QED BY <2>1, <2>2 DEF DecodeFirstInv
    <1>2. CASE EncodeDigit
        BY <1>2, DecodeFirstDigit
    <1>3. CASE EncodeTooSmall
        <2>1. /\ capacity = MaxEncodedLength + 1 /\ capacity <= Len(reversed)
              /\ Len(reversed) <= MaxEncodedLength
            BY <1>3 DEF EncodeTooSmall, TooSmall, DecodeFirstInv, EncodeInv
        <2>2. Len(reversed) \in Nat /\ MaxEncodedLength \in Nat
            BY LenProperties, LengthAssumption DEF TypeInv, TypeOK
        <2> QED BY <2>1, <2>2
    <1>4. CASE EncodeEmit
        <2>1. /\ UNCHANGED <<first, number, text, capacity, value, reversed,
                            quotients, decoding>>
              /\ pc = "emit" /\ pc' = "done" /\ status'.encode = "OK"
              /\ status'.decode = status.decode
            BY <1>4 DEF EncodeEmit, TypeInv, TypeOK
        <2> QED BY <2>1 DEF DecodeFirstInv, decoding
    <1>5. CASE DecodeCheck
        <2>1. /\ UNCHANGED <<caller, encoding, decoding>> /\ pc = "check"
              /\ status'.encode = "none"
              /\ \/ pc' = "done" /\ status'.decode = "INVALID"
                 \/ pc' = "scan"
            BY <1>5 DEF DecodeCheck, DecodeReturns, DecodeFirstInv, TypeInv, TypeOK
        <2> QED BY <2>1 DEF DecodeFirstInv, caller
    <1>6. CASE DecodeForeign
        <2>1. /\ UNCHANGED <<caller, encoding, decoding>> /\ pc' = "done"
              /\ status'.encode = "none" /\ status'.decode = "INVALID"
            BY <1>6
                DEF DecodeForeign, DecodeReturns, DecodeFirstInv, TypeInv, TypeOK
        <2> QED BY <2>1 DEF DecodeFirstInv, caller
    <1>7. CASE DecodeDigit
        <2>1. /\ UNCHANGED <<caller, encoding>> /\ status'.encode = "none"
              /\ \/ pc' = "done" /\ status'.decode = "OVERFLOW"
                 \/ pc' = "scan"
            BY <1>7 DEF DecodeDigit, DecodeReturns, DecodeFirstInv, TypeInv, TypeOK
        <2> QED BY <2>1 DEF DecodeFirstInv, caller
    <1>8. CASE DecodeEnd
        <2>1. /\ UNCHANGED <<first, text, capacity, decoding>>
              /\ number' = decoded /\ EnterEncode(decoded)
              /\ status'.decode = "OK" /\ status'.encode = "none"
              /\ capacity = MaxEncodedLength + 1
              /\ index = Len(text) /\ decoded = prefixes[index + 1]
            BY <1>8 DEF DecodeEnd, DecodeFirstInv, DecodeInv, TypeInv, TypeOK
        <2>2. /\ reversed' = <<>> /\ quotients' = <<decoded>> /\ pc' = "divide"
              /\ Len(reversed') = 0 /\ quotients'[1] = decoded
            BY <2>1 DEF EnterEncode
        <2>3. Len(text) \in Nat
            BY LenProperties DEF TypeInv, TypeOK
        <2>4. \A k \in 1 .. (Len(reversed') + 1) :
                 quotients'[k] = prefixes'[Len(text') + 2 - k]
            BY <2>1, <2>2, <2>3 DEF decoding
        <2> QED BY <2>1, <2>2, <2>3, <2>4 DEF DecodeFirstInv, decoding
    <1>9. CASE UNCHANGED vars
        BY <1>9 DEF vars, DecodeFirstInv, caller, encoding, decoding
    <1> QED BY <1>1, <1>2, <1>3, <1>4, <1>5, <1>6, <1>7, <1>8, <1>9 DEF Next

(* The inductive invariant: the digits found so far and the rest of the    *)
(* number, or the characters consumed so far and the accumulator,          *)
(* determine the argument.                                                 *)
THEOREM InvHolds == Spec => []Inv
    <1>1. Init => Inv
        BY InvInit
    <1>2. Inv /\ [Next]_vars => Inv'
        BY TypeNext, EncodeInvKept, DecodeInvNext, EncodeFirstNext,
            DecodeFirstNext DEF Inv
    <1> QED BY <1>1, <1>2, PTL DEF Spec

-----------------------------------------------------------------------------
(* The eleven characters of reversed are enough: base62_encode never       *)
(* writes past its array, for any base whose powers outgrow the values.    *)
THEOREM ArrayIsLargeEnough == Spec => []ReversedFits
    <1>1. Inv => ReversedFits
        BY DEF Inv, EncodeInv, ReversedFits
    <1> QED BY <1>1, InvHolds, PTL

(* base62_encode keeps to the capacity it is given, and is never refused   *)
(* one of BASE62_BUFFER_SIZE.                                              *)
THEOREM OutputStaysInBuffer == Spec => []OutputFits
    <1>1. Inv => OutputFits
        <2> SUFFICES ASSUME Inv PROVE OutputFits
            OBVIOUS
        <2>1. /\ Len(reversed) \in Nat /\ MaxEncodedLength \in Nat
              /\ capacity \in Nat /\ Len(reversed) <= MaxEncodedLength
            BY LenProperties, LengthAssumption
                DEF Inv, TypeInv, TypeOK, EncodeInv
        <2>2. ASSUME status.encode = "OK" PROVE Len(output) < capacity
            BY <2>2, EmittedText DEF Inv, EncodeInv
        <2>3. ASSUME status.encode = "BUFFER_TOO_SMALL"
              PROVE  capacity < MaxEncodedLength + 1
            BY <2>1, <2>3 DEF Inv, EncodeInv
        <2> QED BY <2>2, <2>3 DEF OutputFits
    <1> QED BY <1>1, InvHolds, PTL

(* The unsigned arithmetic of base62_decode never wraps and its overflow   *)
(* test refuses exactly what does not fit.                                 *)
THEOREM DecodingIsExact == Spec => []NeverWraps
    <1>1. Inv => NeverWraps
        BY DEF Inv, DecodeInv, NeverWraps
    <1> QED BY <1>1, InvHolds, PTL

(* Encoding and decoding are inverse to each other: every id decodes from  *)
(* its code, and every code that decodes is the code of its id.            *)
THEOREM CodesAreUnique == Spec => []RoundTrip
    <1>1. Inv => RoundTrip
        <2> SUFFICES ASSUME Inv PROVE RoundTrip
            OBVIOUS
        <2> USE DEF Inv
        <2>1. first = "encode" => status.decode \in {"none", "OK"}
            BY DEF EncodeFirstInv
        <2>2. ASSUME pc = "done", status.encode = "OK", status.decode = "OK"
              PROVE  number = decoded /\ text = output
            <3>1. /\ output = Emitted /\ Emitted \in Seq(Char)
                  /\ Len(Emitted) = Len(reversed) /\ Len(reversed) \in Nat
                  /\ index = Len(text) /\ decoded = prefixes[index + 1]
                  /\ text \in Seq(Char)
                BY <2>2, EmittedText, LenProperties
                    DEF EncodeInv, DecodeInv, TypeInv, TypeOK
            <3>2. CASE first = "encode"
                <4>1. text = output /\ index = Len(reversed)
                    BY <2>2, <3>1, <3>2 DEF EncodeFirstInv
                <4>2. index + 1 \in 1 .. (index + 1)
                    BY <3>1, <4>1
                <4>3. prefixes[index + 1] = quotients[Len(reversed) + 2 - (index + 1)]
                    BY <2>2, <3>2, <4>2 DEF EncodeFirstInv
                <4>4. Len(reversed) + 2 - (index + 1) = 1
                    BY <3>1, <4>1
                <4>5. quotients[1] = number
                    BY <2>2, <3>2 DEF EncodeFirstInv
                <4> QED BY <3>1, <4>1, <4>3, <4>4, <4>5
            <3>3. CASE first = "decode"
                <4>1. /\ number = decoded /\ Len(reversed) = Len(text)
                      /\ \A k \in 1 .. Len(reversed) :
                            Alphabet[reversed[k]] = text[Len(text) + 1 - k]
                    BY <2>2, <3>3 DEF DecodeFirstInv
                <4>2. ASSUME NEW i \in 1 .. Len(text)
                      PROVE  text[i] = Emitted[i]
                    <5>1. /\ Len(text) - i + 1 \in 1 .. Len(reversed)
                          /\ Len(text) + 1 - (Len(text) - i + 1) = i
                        BY <3>1, <4>1
                    <5>2. Emitted[i] = Alphabet[reversed[Len(text) - i + 1]]
                        BY <4>1 DEF Emitted
                    <5> QED BY <4>1, <5>1, <5>2
                <4> QED BY <3>1, <4>1, <4>2, SeqEqual
            <3> QED BY <3>2, <3>3 DEF TypeInv, TypeOK
        <2>3. pc = "done" /\ first = "decode" /\ status.decode = "OK" =>
                  status.encode = "OK"
            BY DEF DecodeFirstInv
        <2> QED BY <2>1, <2>2, <2>3 DEF RoundTrip
    <1> QED BY <1>1, InvHolds, PTL
-----------------------------------------------------------------------------
(* How a decoding was refused: a bad shape, a character which is no digit, *)
(* or a prefix whose value does not fit.                                   *)
RefusedInv ==
    /\ pc = "done" /\ first = "decode" => status.decode # "none"
    /\ status.decode \in {"none", "OK"} \/ pc = "done"
    /\ status.decode \in {"none", "OK", "INVALID", "OVERFLOW"}
    /\ status.decode = "INVALID" =>
          BadShape \/ \E i \in 1 .. Len(text) : DigitsOf(text[i]) = {}
    /\ status.decode = "OVERFLOW" =>
          /\ index + 1 <= Len(text) /\ Len(prefixes) = index + 2
          /\ \E d \in Digit : /\ text[index + 1] = Alphabet[d]
                             /\ prefixes[index + 2] = prefixes[index + 1] * Base + d

(* Every step keeps it.                                                    *)
LEMMA RefusedNext == Inv /\ RefusedInv /\ [Next]_vars => RefusedInv'
    <1> SUFFICES ASSUME Inv, RefusedInv, [Next]_vars PROVE RefusedInv'
        OBVIOUS
    <1>0. /\ status \in [{"encode", "decode"} -> Results] /\ index \in Nat
          /\ Len(text) \in Nat /\ prefixes \in Seq(Nat)
        BY LenProperties DEF Inv, TypeInv, TypeOK
    <1>1. ASSUME pc' # "done", status'.decode = status.decode,
                 status.decode \in {"none", "OK"}
          PROVE  RefusedInv'
        BY <1>1 DEF RefusedInv
    <1>2. CASE Call
        <2>1. pc' # "done" /\ status' = status /\ pc = "call"
            BY <1>2 DEF Call, EnterEncode, EnterDecode
        <2> QED BY <1>1, <2>1 DEF RefusedInv
    <1>3. CASE EncodeDigit
        <2>1. pc' # "done" /\ status' = status /\ pc = "divide"
            BY <1>3 DEF EncodeDigit
        <2> QED BY <1>1, <2>1 DEF RefusedInv
    <1>4. CASE EncodeTooSmall \/ EncodeEmit
        <2>1. pc = "emit" /\ status'.decode = status.decode /\ first' = first
            BY <1>0, <1>4 DEF EncodeTooSmall, EncodeEmit, caller
        <2>2. status.decode \in {"none", "OK"}
            BY <2>1 DEF RefusedInv
        <2>3. first = "decode" => status.decode = "OK"
            BY <2>1 DEF Inv, DecodeFirstInv
        <2> QED BY <2>1, <2>2, <2>3 DEF RefusedInv
    <1>5. CASE DecodeCheck
        <2>1. UNCHANGED <<text, index, prefixes>> /\ pc = "check"
            BY <1>5 DEF DecodeCheck, DecodeReturns, caller, decoding
        <2>2. CASE BadShape /\ DecodeReturns("INVALID")
            <3>1. pc' = "done" /\ status'.decode = "INVALID" /\ BadShape'
                BY <1>0, <2>1, <2>2 DEF DecodeReturns, BadShape
            <3> QED BY <3>1 DEF RefusedInv
        <2>3. CASE pc' = "scan" /\ UNCHANGED status
            BY <1>1, <2>1, <2>3 DEF RefusedInv
        <2> QED BY <1>5, <2>2, <2>3 DEF DecodeCheck
    <1>6. CASE DecodeForeign
        <2>1. /\ pc' = "done" /\ status'.decode = "INVALID" /\ text' = text
              /\ index + 1 \in 1 .. Len(text) /\ DigitsOf(text[index + 1]) = {}
            BY <1>0, <1>6 DEF DecodeForeign, DecodeReturns, caller
        <2>2. \E i \in 1 .. Len(text') : DigitsOf(text'[i]) = {}
            BY <2>1
        <2> QED BY <2>1, <2>2 DEF RefusedInv, DigitsOf
    <1>7. CASE DecodeDigit
        <2>1. PICK d \in Digit :
              /\ text[index + 1] = Alphabet[d]
              /\ prefixes' = Append(prefixes, prefixes[index + 1] * Base + d)
              /\ \/ DecodeReturns("OVERFLOW") /\ UNCHANGED <<decoded, index>>
                 \/ UNCHANGED <<pc, caller, encoding, status>>
            BY <1>7 DEF DecodeDigit, DigitsOf
        <2>2. index < Len(text) /\ pc = "scan"
            BY <1>7 DEF DecodeDigit
        <2>3. CASE DecodeReturns("OVERFLOW") /\ UNCHANGED <<decoded, index>>
            <3>1. /\ pc' = "done" /\ status'.decode = "OVERFLOW" /\ text' = text
                  /\ index' = index
                BY <1>0, <2>3 DEF DecodeReturns, caller
            <3> DEFINE v == prefixes[index + 1] * Base + d
            <3>2. Len(prefixes) = index + 1
                BY <2>2 DEF Inv, DecodeInv
            <3>3. v \in Nat
                <4>1. prefixes[index + 1] \in Nat
                    BY <1>0, <3>2, ElementOfSeq
                <4>2. Base \in Nat /\ d \in Nat
                    BY BaseAssumption DEF Digit
                <4> QED BY <4>1, <4>2, LinearNat
            <3>4. prefixes' = Append(prefixes, v)
                BY <2>1
            <3> HIDE DEF v
            <3>5. /\ Len(prefixes') = index + 2 /\ prefixes'[index + 2] = v
                  /\ prefixes'[index + 1] = prefixes[index + 1]
                <4>1. /\ Len(prefixes') = Len(prefixes) + 1
                      /\ prefixes'[Len(prefixes) + 1] = v
                      /\ \A i \in 1 .. Len(prefixes) : prefixes'[i] = prefixes[i]
                    BY <1>0, <3>3, <3>4, Appended
                <4>2. (index + 1) + 1 = index + 2 /\ index + 1 \in 1 .. (index + 1)
                    BY <1>0
                <4> QED BY <3>2, <4>1, <4>2
            <3>6. index + 1 <= Len(text)
                BY <1>0, <2>2
            <3> QED BY <2>1, <3>1, <3>5, <3>6 DEF RefusedInv, v
        <2>4. CASE UNCHANGED <<pc, caller, encoding, status>>
            BY <1>1, <2>2, <2>4 DEF RefusedInv
        <2> QED BY <2>1, <2>3, <2>4
    <1>8. CASE DecodeEnd
        <2>1. status'.decode = "OK"
            BY <1>0, <1>8 DEF DecodeEnd
        <2> QED BY <2>1 DEF RefusedInv
    <1>9. CASE UNCHANGED vars
        BY <1>9 DEF vars, caller, encoding, decoding, RefusedInv, BadShape, DigitsOf
    <1> QED BY <1>2, <1>3, <1>4, <1>5, <1>6, <1>7, <1>8, <1>9 DEF Next

(* Digits and characters of base62.c form a numeral system.                *)
LEMMA BaseSystem == IsSystem(Base, Alphabet)
    BY BaseAssumption, AlphabetAssumption DEF IsSystem, Digit

(* The code of a number follows its recurrence.                            *)
LEMMA CodeOfIsCoding == IsCoding(Codes!CodeOf, Base, Alphabet)
    <1>1. \E f : IsCoding(f, Base, Alphabet)
        BY BaseSystem, CodingExists
    <1>2. \E f : f = [v \in Nat |-> IF v < Base THEN <<Alphabet[v]>>
                   ELSE Append(f[v \div Base], Alphabet[v % Base])]
        BY <1>1 DEF IsCoding, CodeStep
    <1>3. Codes!CodeOf = [v \in Nat |-> IF v < Base THEN <<Alphabet[v]>>
                   ELSE Append(Codes!CodeOf[v \div Base], Alphabet[v % Base])]
        BY <1>2, Zenon DEF Codes!CodeOf
    <1> QED BY <1>3, Zenon DEF IsCoding, CodeStep

(* The value of a text is that of its longest prefix.                      *)
LEMMA ValueOfText ==
    ASSUME NEW t \in Seq(CharsOf(Base, Alphabet))
    PROVE  \E p : IsPrefixes(p, t, Base, Alphabet) /\ Codes!ValueOf(t) = p[Len(t)]
    <1> DEFINE Is(p) == p = [n \in 0 .. Len(t) |-> IF n = 0 THEN 0
                  ELSE p[n - 1] * Base + Codes!DigitOf(t[n])]
    <1>1. ASSUME NEW c PROVE Codes!DigitOf(c) = DigitIn(c, Base, Alphabet)
        BY DEF Codes!DigitOf, Codes!Digit, DigitIn
    <1>2. \A p : Is(p) <=> IsValuing(p, t, Base, Alphabet)
        BY <1>1 DEF IsValuing
    <1>3. \E p : Is(p)
        <2>1. \E p : IsValuing(p, t, Base, Alphabet)
            BY BaseSystem, ValuingExists
        <2> HIDE DEF Is
        <2> QED BY <1>2, <2>1
    <1>4. PICK p : Is(p) /\ Codes!ValueOf(t) = p[Len(t)]
        BY <1>3, Zenon DEF Codes!ValueOf
    <1> HIDE DEF Is
    <1> QED BY <1>2, <1>4, BaseSystem, ValuingIsPrefixes

(* The values q of the first k prefixes were computed digit by digit.      *)
Computed(q, k, t) ==
    /\ q \in [0 .. k -> Nat] /\ q[0] = 0
    /\ \A i \in 1 .. k : \E d \in Digit :
          t[i] = Alphabet[d] /\ q[i] = q[i - 1] * Base + d

(* The values that were computed for the first k characters of a text are  *)
(* those of its prefixes.                                                  *)
LEMMA ComputedPrefix ==
    ASSUME NEW t \in Seq(CharsOf(Base, Alphabet)), NEW p,
           IsPrefixes(p, t, Base, Alphabet),
           NEW k \in Nat, k <= Len(t), NEW q, Computed(q, k, t)
    PROVE  p[k] = q[k]
    <1>0. Len(t) \in Nat
        OBVIOUS
    <1> DEFINE u == [i \in 1 .. k |-> t[i]]
    <1>1. Len(u) = k /\ \A i \in 1 .. k : u[i] = t[i]
        <2>1. u \in [1 .. k -> CharsOf(Base, Alphabet)]
            BY <1>0, ElementOfSeq
        <2> QED BY <2>1, Mapped
    <1> HIDE DEF u
    <1>2. ASSUME NEW i \in 1 .. k
          PROVE  q[i] = q[i - 1] * Base + DigitIn(u[i], Base, Alphabet)
        <2>1. PICK d \in Digit : t[i] = Alphabet[d] /\ q[i] = q[i - 1] * Base + d
            BY DEF Computed
        <2>2. DigitIn(Alphabet[d], Base, Alphabet) = d
            BY BaseSystem, CharOfDigit DEF Digit
        <2> QED BY <1>1, <2>1, <2>2
    <1>3. IsPrefixes(q, u, Base, Alphabet)
        BY <1>1, <1>2 DEF IsPrefixes, Computed
    <1>4. Len(u) \in Nat /\ k <= Len(u) /\ \A i \in 1 .. k : t[i] = u[i]
        BY <1>1
    <1> QED BY <1>0, <1>3, <1>4, PrefixesAgree

(* The text base62_encode emits is the code of the number.                 *)
LEMMA EmitsTheCode ==
    ASSUME Inv, status.encode = "OK", NEW v, quotients[1] = v
    PROVE  output = Codes!CodeOf[v]
    <1>1. /\ value = 0 /\ Len(reversed) > 0 /\ output = Emitted
          /\ reversed \in Seq(Digit) /\ quotients \in Seq(Nat)
          /\ Len(quotients) = Len(reversed) + 1 /\ TypeInv /\ EncodeInv
          /\ quotients[Len(reversed) + 1] = 0
        BY DEF Inv, EncodeInv, TypeInv, TypeOK
    <1>2. PICK n \in Nat : Len(reversed) = n + 1
        <2>1. Len(reversed) - 1 \in Nat /\ Len(reversed) = (Len(reversed) - 1) + 1
            BY <1>1, LenProperties
        <2> QED BY <2>1
    <1> DEFINE m == n + 1
               q == [k \in 0 .. m |-> quotients[m + 1 - k]]
    <1>3. /\ Emitted \in Seq(CharsOf(Base, Alphabet)) /\ Len(Emitted) = m
          /\ \A i \in 1 .. m : Emitted[i] = Alphabet[reversed[m - i + 1]]
          /\ n > 0 => Emitted[1] # Alphabet[0]
        <2>1. ASSUME NEW i \in 1 .. m PROVE reversed[m - i + 1] \in 0 .. (Base - 1)
            <3>1. m - i + 1 \in 1 .. Len(reversed)
                BY <1>2
            <3> QED BY <1>1, <3>1, ElementOfSeq DEF Digit
        <2>2. Emitted \in [1 .. m -> CharsOf(Base, Alphabet)]
            BY <1>2, <2>1, CharOfDigit, BaseSystem DEF Emitted
        <2>3. Emitted \in Seq(CharsOf(Base, Alphabet))
            BY <2>2, Mapped
        <2> QED BY <1>1, <1>2, <2>3, EmittedText
    <1>4. q \in [0 .. m -> Nat] /\ q[0] = 0 /\ q[m] = v
        <2>1. \A k \in 0 .. m : quotients[m + 1 - k] \in Nat
            BY <1>1, <1>2, ElementOfSeq
        <2> QED BY <1>1, <1>2, <2>1
    <1>5. ASSUME NEW i \in 1 .. m
          PROVE  \E d \in Digit :
                    Emitted[i] = Alphabet[d] /\ q[i] = q[i - 1] * Base + d
        <2>1. /\ m - i + 1 \in 1 .. m /\ i \in 0 .. m /\ i - 1 \in 0 .. m
              /\ m + 1 - i = m - i + 1 /\ m + 1 - (i - 1) = (m - i + 1) + 1
            OBVIOUS
        <2>2. quotients[m - i + 1] = quotients[(m - i + 1) + 1] * Base
                                     + reversed[m - i + 1]
            BY <1>1, <1>2, <2>1 DEF EncodeInv
        <2>3. q[i] = quotients[m - i + 1] /\ q[i - 1] = quotients[(m - i + 1) + 1]
            BY <2>1
        <2>4. reversed[m - i + 1] \in Digit
            BY <1>1, <1>2, <2>1, ElementOfSeq
        <2> HIDE DEF q, m
        <2>5. Emitted[i] = Alphabet[reversed[m - i + 1]]
            BY <1>3
        <2>6. q[i] = q[i - 1] * Base + reversed[m - i + 1]
            BY <2>2, <2>3
        <2> QED BY <2>4, <2>5, <2>6
    <1> HIDE DEF m, q
    <1>6. PICK p : IsPrefixes(p, Emitted, Base, Alphabet)
        BY <1>3, BaseSystem, PrefixesExist
    <1>7. p[m] = q[m]
        <2>1. Computed(q, m, Emitted)
            BY <1>4, <1>5 DEF Computed
        <2>2. m \in Nat /\ m <= Len(Emitted)
            BY <1>3 DEF m
        <2> QED BY <1>3, <1>6, <2>1, <2>2, ComputedPrefix
    <1>8. Denotes(Emitted, v, Base, Alphabet)
        BY <1>3, <1>4, <1>6, <1>7 DEF Denotes
    <1>9. Len(Emitted) = n + 1
        BY <1>3 DEF m
    <1>10. Codes!CodeOf[v] = Emitted
        <2>1. \A l \in Nat : \A t \in Seq(CharsOf(Base, Alphabet)) : \A w :
                 /\ Len(t) = l + 1 /\ (l > 0 => t[1] # Alphabet[0])
                 /\ Denotes(t, w, Base, Alphabet)
                 => w \in Nat /\ Codes!CodeOf[w] = t
            BY BaseSystem, CodeOfIsCoding, DenotesCode
        <2>2. n > 0 => Emitted[1] # Alphabet[0]
            BY <1>3
        <2>3. Emitted \in Seq(CharsOf(Base, Alphabet))
            BY <1>3
        <2> QED BY <1>8, <1>9, <2>1, <2>2, <2>3, Zenon
    <1> QED BY <1>1, <1>10

(* The accumulator of base62_decode is the value of the text.              *)
LEMMA DecodesTheValue ==
    ASSUME Inv, status.decode = "OK"
    PROVE  /\ text \in Seq(CharsOf(Base, Alphabet))
           /\ decoded = Codes!ValueOf(text)
    <1>1. /\ index = Len(text) /\ index \in Nat /\ prefixes \in Seq(Nat)
          /\ Len(prefixes) >= index + 1 /\ prefixes[1] = 0
          /\ decoded = prefixes[index + 1] /\ text \in Seq(Char)
          /\ \A i \in 1 .. index : \E d \in Digit :
                text[i] = Alphabet[d] /\ prefixes[i + 1] = prefixes[i] * Base + d
        BY LenProperties DEF Inv, DecodeInv, TypeInv, TypeOK
    <1>2. text \in Seq(CharsOf(Base, Alphabet))
        <2>1. \A i \in 1 .. index : text[i] \in CharsOf(Base, Alphabet)
            BY <1>1 DEF CharsOf, Digit
        <2>2. text \in [1 .. index -> CharsOf(Base, Alphabet)]
            BY <1>1, <2>1, LenProperties
        <2> QED BY <1>1, <2>2, Mapped
    <1>3. PICK p : IsPrefixes(p, text, Base, Alphabet)
                   /\ Codes!ValueOf(text) = p[Len(text)]
        BY <1>2, ValueOfText
    <1> DEFINE q == [k \in 0 .. index |-> prefixes[k + 1]]
    <1>4. q \in [0 .. index -> Nat] /\ q[0] = 0 /\ q[index] = decoded
        <2>1. \A k \in 0 .. index : prefixes[k + 1] \in Nat
            BY <1>1, ElementOfSeq
        <2> QED BY <1>1, <2>1
    <1>5. ASSUME NEW i \in 1 .. index
          PROVE  \E d \in Digit : text[i] = Alphabet[d] /\ q[i] = q[i - 1] * Base + d
        <2>1. i \in 0 .. index /\ i - 1 \in 0 .. index /\ (i - 1) + 1 = i
            BY <1>1
        <2>2. q[i] = prefixes[i + 1] /\ q[i - 1] = prefixes[i]
            BY <2>1
        <2> QED BY <1>1, <2>2
    <1> HIDE DEF q
    <1>6. p[index] = q[index]
        <2>1. Computed(q, index, text)
            BY <1>4, <1>5 DEF Computed
        <2>2. index \in Nat /\ index <= Len(text)
            BY <1>1
        <2> QED BY <1>2, <1>3, <2>1, <2>2, ComputedPrefix, Zenon
    <1> QED BY <1>1, <1>2, <1>3, <1>4, <1>6

(* A text whose characters are digits but one of whose prefixes does not   *)
(* fit has no value that fits.                                             *)
LEMMA OverflowIsReal ==
    ASSUME Inv, RefusedInv, status.decode = "OVERFLOW",
           text \in Seq(CharsOf(Base, Alphabet))
    PROVE  Codes!ValueOf(text) > MaxValue
    <1> DEFINE k == index + 1
    <1>1. /\ k \in Nat /\ k <= Len(text) /\ prefixes \in Seq(Nat)
          /\ Len(prefixes) = k + 1 /\ prefixes[1] = 0 /\ index \in Nat
          /\ prefixes[k + 1] > MaxValue /\ Len(text) \in Nat /\ MaxValue \in Nat
        <2>1. index \in Nat /\ (index + 1) + 1 = index + 2 /\ Len(text) \in Nat
            BY LenProperties DEF Inv, TypeInv, TypeOK
        <2>2. /\ prefixes \in Seq(Nat) /\ Len(prefixes) = k + 1 /\ prefixes[1] = 0
              /\ k <= Len(text) /\ prefixes[k + 1] > MaxValue
            BY <2>1 DEF Inv, DecodeInv, TypeInv, TypeOK, RefusedInv
        <2> QED BY <2>1, <2>2, BaseAssumption
    <1>2. ASSUME NEW i \in 1 .. k
          PROVE  \E d \in Digit :
                    text[i] = Alphabet[d] /\ prefixes[i + 1] = prefixes[i] * Base + d
        <2>1. CASE i = k
            <3>1. (index + 1) + 1 = index + 2
                BY <1>1
            <3> QED BY <2>1, <3>1 DEF RefusedInv
        <2>2. CASE i \in 1 .. index
            BY <2>2 DEF Inv, DecodeInv
        <2> QED BY <1>1, <2>1, <2>2
    <1>3. PICK p : IsPrefixes(p, text, Base, Alphabet)
                   /\ Codes!ValueOf(text) = p[Len(text)]
        BY ValueOfText
    <1> HIDE DEF k
    <1> DEFINE q == [j \in 0 .. k |-> prefixes[j + 1]]
    <1>4. q \in [0 .. k -> Nat] /\ q[0] = 0 /\ q[k] = prefixes[k + 1]
        <2>1. \A j \in 0 .. k : prefixes[j + 1] \in Nat
            BY <1>1, ElementOfSeq
        <2> QED BY <1>1, <2>1
    <1>5. ASSUME NEW i \in 1 .. k
          PROVE  \E d \in Digit : text[i] = Alphabet[d] /\ q[i] = q[i - 1] * Base + d
        <2>1. i \in 0 .. k /\ i - 1 \in 0 .. k /\ (i - 1) + 1 = i
            BY <1>1
        <2>2. q[i] = prefixes[i + 1] /\ q[i - 1] = prefixes[i]
            BY <2>1
        <2> QED BY <1>2, <2>2
    <1> HIDE DEF q
    <1>6. p[k] = q[k]
        <2>1. Computed(q, k, text)
            BY <1>4, <1>5 DEF Computed
        <2> QED BY <1>1, <1>3, <2>1, ComputedPrefix
    <1>7. p[k] <= p[Len(text)] /\ p[k] \in Nat /\ p[Len(text)] \in Nat
        BY <1>1, <1>3, BaseSystem, PrefixesGrow
    <1> QED BY <1>1, <1>3, <1>4, <1>6, <1>7

(* The loops of base62.c return the positional code of the number, highest *)
(* digit first, and accept exactly the codes, each with its value: what    *)
(* Shortener.tla takes them to compute.                                    *)
THEOREM LoopsReturnCodes == Spec => []ReturnsCodes
    <1>1. Init => RefusedInv
        BY DEF Init, RefusedInv
    <1>2. Inv /\ RefusedInv /\ [Next]_vars => RefusedInv'
        BY RefusedNext
    <1>3. Inv /\ RefusedInv => ReturnsCodes
        <2> SUFFICES ASSUME Inv, RefusedInv, pc = "done" PROVE ReturnsCodes
            BY DEF ReturnsCodes
        <2>0. text \in Seq(Char) /\ Len(text) \in Nat /\ first \in {"encode", "decode"}
            BY LenProperties DEF Inv, TypeInv, TypeOK
        <2>1. ASSUME status.encode = "OK" PROVE output = Codes!CodeOf[number]
            <3>1. quotients[1] = number
                <4>1. CASE first = "encode"
                    BY <4>1 DEF Inv, EncodeFirstInv
                <4>2. CASE first = "decode"
                    <5>1. /\ status.decode = "OK" /\ number = decoded
                          /\ Len(reversed) = Len(text)
                          /\ \A k \in 1 .. (Len(reversed) + 1) :
                                quotients[k] = prefixes[Len(text) + 2 - k]
                        BY <2>1, <4>2 DEF Inv, DecodeFirstInv
                    <5>2. index = Len(text) /\ decoded = prefixes[index + 1]
                        BY <5>1 DEF Inv, DecodeInv
                    <5>3. 1 \in 1 .. (Len(text) + 1) /\ Len(text) + 2 - 1 = Len(text) + 1
                        BY <2>0
                    <5> QED BY <5>1, <5>2, <5>3
                <4> QED BY <2>0, <4>1, <4>2
            <3> QED BY <2>1, <3>1, EmitsTheCode
        <2>2. ASSUME status.decode = "OK" PROVE decoded = Codes!ValueOf(text)
            BY <2>2, DecodesTheValue
        <2>3. ASSUME status.decode = "OK" PROVE Codes!IsCode(text)
            <3>1. /\ text \in Seq(CharsOf(Base, Alphabet)) /\ decoded <= MaxValue
                  /\ ~BadShape
                BY <2>3, DecodesTheValue, BaseAssumption
                    DEF Inv, TypeInv, TypeOK, Value, DecodeInv
            <3>2. Codes!AllDigits(text)
                BY <3>1 DEF Codes!AllDigits, Codes!Digit, CharsOf
            <3>3. Codes!ValueOf(text) <= MaxValue
                BY <2>2, <2>3, <3>1
            <3>4. text # <<>> /\ (text[1] = Alphabet[0] => Len(text) = 1)
                <4>1. Len(text) # 0
                    BY <2>0, <3>1, EmptySeq DEF BadShape
                <4>2. text # <<>> /\ ~ (Len(text) > 1 /\ text[1] = Alphabet[0])
                    BY <3>1, Zenon DEF BadShape
                <4>3. Len(text) > 1 \/ Len(text) = 1
                    <5>1. PICK l \in Nat : l = Len(text)
                        BY <2>0
                    <5>2. l # 0
                        BY <4>1, <5>1
                    <5>3. l > 1 \/ l = 1
                        BY <5>2
                    <5> QED BY <5>1, <5>3
                <4> QED BY <4>2, <4>3, Zenon
            <3> QED BY <3>2, <3>3, <3>4 DEF Codes!IsCode
        <2>4. ASSUME first = "decode", Codes!IsCode(text)
              PROVE  status.decode = "OK"
            <3>1. text \in Seq(CharsOf(Base, Alphabet))
                <4>1. \A i \in 1 .. Len(text) : text[i] \in CharsOf(Base, Alphabet)
                    BY <2>0, <2>4, LenProperties
                        DEF Codes!IsCode, Codes!AllDigits, Codes!Digit, CharsOf
                <4>2. text \in [1 .. Len(text) -> CharsOf(Base, Alphabet)]
                    BY <2>0, <4>1, LenProperties
                <4> QED BY <2>0, <4>2, Mapped
            <3>2. status.decode # "OVERFLOW"
                <4>1. CASE status.decode = "OVERFLOW"
                    <5>1. Codes!ValueOf(text) > MaxValue
                        BY <3>1, <4>1, OverflowIsReal
                    <5>2. Codes!ValueOf(text) <= MaxValue
                        BY <2>4 DEF Codes!IsCode
                    <5>3. Codes!ValueOf(text) \in Nat /\ MaxValue \in Nat
                        <6>1. PICK p : IsPrefixes(p, text, Base, Alphabet)
                                       /\ Codes!ValueOf(text) = p[Len(text)]
                            BY <3>1, ValueOfText
                        <6> QED BY <2>0, <6>1, BaseAssumption DEF IsPrefixes
                    <5> QED BY <5>1, <5>2, <5>3
                <4> QED BY <4>1
            <3>3. status.decode # "INVALID"
                <4>1. ~BadShape
                    <5>1. text # <<>> /\ (text[1] = Alphabet[0] => Len(text) = 1)
                        BY <2>4 DEF Codes!IsCode
                    <5>2. Len(text) = 1 => ~ (Len(text) > 1)
                        OBVIOUS
                    <5> QED BY <5>1, <5>2, Zenon DEF BadShape
                <4>2. \A i \in 1 .. Len(text) : DigitsOf(text[i]) # {}
                    BY <2>0, <2>4, LenProperties
                        DEF Codes!IsCode, Codes!AllDigits, Codes!Digit, DigitsOf, Digit
                <4> QED BY <4>1, <4>2 DEF RefusedInv
            <3> QED BY <2>4, <3>2, <3>3 DEF RefusedInv
        <2> QED BY <2>1, <2>2, <2>3, <2>4 DEF ReturnsCodes
    <1> QED BY <1>1, <1>2, <1>3, InvHolds, PTL DEF Spec
=============================================================================
