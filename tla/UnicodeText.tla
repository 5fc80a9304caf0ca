---------------------------- MODULE UnicodeText -----------------------------
(***************************************************************************)
(* What the bytes of a JSON string mean (RFC 8259, RFC 3629), as a         *)
(* sequence of UTF-16 code units, which is what \u escapes are given in.   *)
(* A unit of -1 stands for bytes without a meaning.  JsonStrings.tla is    *)
(* compared with it.                                                       *)
(***************************************************************************)
EXTENDS Integers, Sequences

NoMeaning == <<-1>>
High == 55296 .. 56319
Low == 56320 .. 57343
LastCodePoint == 1114111

(* The code point that n bytes at i spell: the first byte says how many    *)
(* follow, and all that are not the first carry six bits.                  *)
CodePoint(s, i, n) ==
    CASE n = 1 -> s[i]
      [] n = 2 -> (s[i] - 192) * 64 + (s[i + 1] - 128)
      [] n = 3 -> (s[i] - 224) * 4096 + (s[i + 1] - 128) * 64 + (s[i + 2] - 128)
      [] n = 4 -> (s[i] - 240) * 262144 + (s[i + 1] - 128) * 4096
                  + (s[i + 2] - 128) * 64 + (s[i + 3] - 128)

FirstBytes == <<0 .. 127, 192 .. 223, 224 .. 239, 240 .. 247>>
Following == 128 .. 191
Smallest == <<0, 128, 2048, 65536>>

(* The n bytes at i are one character, in its shortest form.               *)
IsCharacter(s, i, n) ==
    /\ i + n - 1 <= Len(s) /\ s[i] \in FirstBytes[n]
    /\ \A k \in (i + 1) .. (i + n - 1) : s[k] \in Following
    /\ CodePoint(s, i, n) \in Smallest[n] .. LastCodePoint
    /\ CodePoint(s, i, n) \notin High \cup Low

Units(c) ==
    IF c < 65536 THEN <<c>>
    ELSE <<55296 + (c - 65536) \div 1024, 56320 + ((c - 65536) % 1024)>>

(* The code units of a character at i with what follows it as tail says.   *)
CharacterUnits(s, i, tail(_)) ==
    IF \E n \in 1 .. 4 : IsCharacter(s, i, n)
    THEN LET n == CHOOSE n \in 1 .. 4 : IsCharacter(s, i, n)
         IN  Units(CodePoint(s, i, n)) \o tail(i + n)
    ELSE NoMeaning

(* The code units of bytes in UTF-8.                                       *)
OfUtf8(s) ==
    LET from[i \in 1 .. (Len(s) + 1)] ==
            IF i > Len(s) THEN <<>>
            ELSE CharacterUnits(s, i, LAMBDA j : from[j])
    IN  from[1]

(* The code units a string spells whose opening quotation mark is in front *)
(* of s: up to the closing one, with escapes of one code unit each.        *)
Spelled(s, HasHex4(_, _), Hex4(_, _)) ==
    LET OneByte == {<<34, 34>>, <<92, 92>>, <<47, 47>>, <<98, 8>>, <<102, 12>>,
                    <<110, 10>>, <<114, 13>>, <<116, 9>>}
        from[i \in 1 .. (Len(s) + 1)] ==
            IF i > Len(s) \/ (i \in DOMAIN s /\ s[i] < 32) THEN NoMeaning
            ELSE IF s[i] = 34 THEN <<>>
            ELSE IF s[i] # 92 THEN CharacterUnits(s, i, LAMBDA j : from[j])
            ELSE IF i = Len(s) THEN NoMeaning
            ELSE IF \E e \in OneByte : e[1] = s[i + 1]
                THEN <<(CHOOSE e \in OneByte : e[1] = s[i + 1])[2]>> \o from[i + 2]
            ELSE IF s[i + 1] = 117 /\ HasHex4(s, i + 2)
                THEN <<Hex4(s, i + 2)>> \o from[i + 6]
            ELSE NoMeaning
    IN  from[1]

(* Text: surrogates come in pairs, and everything has a meaning.           *)
IsText(units) ==
    \A k \in DOMAIN units :
        /\ units[k] # -1
        /\ units[k] \in High => k < Len(units) /\ units[k + 1] \in Low
        /\ units[k] \in Low => k > 1 /\ units[k - 1] \in High
=============================================================================
