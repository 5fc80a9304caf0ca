--------------------------- MODULE UrlTextProofs ----------------------------
(***************************************************************************)
(* For every text and all limits: a string is decoded to the text it means *)
(* or refused, and never outgrows its buffer; exactly the original URLs    *)
(* are stored, what was stored can be redirected to, and every response    *)
(* fits in the buffer it is serialized in.                                 *)
(***************************************************************************)
EXTENDS UrlText, NumeralTheorems

(* What the decoder has read and written.                                  *)
StringInv ==
    /\ text \in Seq(Byte) /\ Len(text) <= OutputSize
    /\ pos \in 1 .. (Len(text) + 1)
    /\ Len(out) \in Nat /\ Len(out) < pos
    /\ out \in Seq(Byte)

(* What is stored is what was decoded and found to be valid; the string is *)
(* not read any further then.                                              *)
UrlInv ==
    /\ url # None => /\ url = out /\ ValidOriginalUrl(out)
                     /\ pc \notin {"request", "string"}
    /\ visited => url # None
    /\ RedirectsToTheText

-----------------------------------------------------------------------------
(* A code point takes at most four bytes.                                  *)
LEMMA Utf8IsShort ==
    ASSUME NEW c
    PROVE  \E n \in 1 .. 4 : Len(Utf8(c)) = n
    BY DEF Utf8

(* A character is whole, and its bytes are those that are read.            *)
LEMMA CharacterIsWhole ==
    ASSUME NEW s \in Seq(Byte), NEW i \in 1 .. Len(s)
    PROVE  Utf8Length(s, i) = 0 \/
               /\ Utf8Length(s, i) \in 2 .. 4
               /\ i + Utf8Length(s, i) - 1 <= Len(s)
    <1> DEFINE Follows(n) == /\ i + n <= Len(s)
                             /\ \A k \in (i + 1) .. (i + n) : s[k] \in 128 .. 191
    <1>1. \/ Utf8Length(s, i) = 0
          \/ Utf8Length(s, i) = 2 /\ Follows(1)
          \/ Utf8Length(s, i) = 3 /\ Follows(2)
          \/ Utf8Length(s, i) = 4 /\ Follows(3)
        <2> DEFINE two == s[i] \in 194 .. 223 /\ Follows(1)
                   three == /\ s[i] \in 224 .. 239 /\ Follows(2)
                            /\ ~(s[i] = 224 /\ s[i + 1] < 160)
                            /\ ~(s[i] = 237 /\ s[i + 1] >= 160)
                   four == /\ s[i] \in 240 .. 244 /\ Follows(3)
                           /\ ~(s[i] = 240 /\ s[i + 1] < 144)
                           /\ ~(s[i] = 244 /\ s[i + 1] > 143)
        <2>1. Utf8Length(s, i) = IF two THEN 2 ELSE IF three THEN 3
                                 ELSE IF four THEN 4 ELSE 0
            BY DEF Utf8Length
        <2>2. (two => Follows(1)) /\ (three => Follows(2)) /\ (four => Follows(3))
            OBVIOUS
        <2> HIDE DEF Follows, two, three, four
        <2> QED BY <2>1, <2>2
    <1> QED BY <1>1

(* No item is longer decoded than it was.                                  *)
LEMMA ItemShrinks ==
    ASSUME NEW s \in Seq(Byte), NEW i \in 1 .. Len(s)
    PROVE  LET item == ItemAt(s, i) IN
               /\ item.used \in Nat /\ Len(item.bytes) \in Nat
               /\ Len(item.bytes) <= item.used
               /\ i + item.used <= Len(s) + 1
    <1> DEFINE Short(item) ==
            /\ item.used \in Nat /\ Len(item.bytes) \in Nat
            /\ Len(item.bytes) <= item.used /\ i + item.used <= Len(s) + 1
    <1>1. Short(Refused)
        BY DEF Refused, Item
    <1>2. ASSUME NEW b PROVE Short(Item(1, <<b>>))
        BY DEF Item
    <1>3. ASSUME NEW b, i + 1 <= Len(s) PROVE Short(Item(2, <<b>>))
        BY <1>3 DEF Item
    <1>4. Short(UnicodeEscape(s, i))
        <2>1. ASSUME NEW c, i + 5 <= Len(s) PROVE Short(Item(6, Utf8(c)))
            <3>1. ASSUME NEW b, NEW n \in 1 .. 4, Len(b) = n
                  PROVE  Short(Item(6, b))
                BY <2>1, <3>1 DEF Item
            <3> HIDE DEF Short
            <3> QED BY <3>1, Utf8IsShort
        <2>2. ASSUME NEW c, i + 11 <= Len(s) PROVE Short(Item(12, Utf8(c)))
            <3>1. ASSUME NEW b, NEW n \in 1 .. 4, Len(b) = n
                  PROVE  Short(Item(12, b))
                BY <2>2, <3>1 DEF Item
            <3> HIDE DEF Short
            <3> QED BY <3>1, Utf8IsShort
        <2>3. HasHex4(s, i + 2) => i + 5 <= Len(s)
            BY DEF HasHex4
        <2>4. HasLow(s, i + 6) => i + 11 <= Len(s)
            BY DEF HasLow
        <2> HIDE DEF Short
        <2> QED BY <1>1, <2>1, <2>2, <2>3, <2>4 DEF UnicodeEscape
    <1>5. Short(RawCharacter(s, i))
        <2>1. CASE Utf8Length(s, i) = 0
            BY <1>1, <2>1 DEF RawCharacter
        <2>2. CASE Utf8Length(s, i) # 0
            <3>1. PICK n \in 2 .. 4 : n = Utf8Length(s, i) /\ i + n - 1 <= Len(s)
                BY <2>2, CharacterIsWhole
            <3>2. \A k \in i .. (i + n - 1) : s[k] \in Byte
                BY <3>1, ElementOfSeq
            <3>3. Len(SubSeq(s, i, i + n - 1)) =
                      IF i <= i + n - 1 THEN (i + n - 1) - i + 1 ELSE 0
                BY <3>1, <3>2, SubSeqProperties
            <3>4. Len(SubSeq(s, i, i + n - 1)) = n
                BY <3>1, <3>3
            <3>5. RawCharacter(s, i) = Item(n, SubSeq(s, i, i + n - 1))
                BY <2>2, <3>1 DEF RawCharacter
            <3> QED BY <3>1, <3>4, <3>5 DEF Item
        <2> QED BY <2>1, <2>2
    <1> HIDE DEF Short
    <1>6. Short(ItemAt(s, i))
        BY <1>1, <1>2, <1>3, <1>4, <1>5 DEF ItemAt
    <1> QED BY <1>6 DEF Short

-----------------------------------------------------------------------------
(* What there are characters for.                                         *)
CodePoints == {c \in Nat : c <= 1114111}

(* A hexadecimal digit is a byte and has a value.                          *)
LEMMA HexIsSmall ==
    ASSUME NEW b, IsHex(b)
    PROVE  b \in Byte /\ HexValue(b) \in 0 .. 15
    BY DEF IsHex, HexValue, Byte

(* Four of them make a code unit.                                          *)
LEMMA Hex4IsUnit ==
    ASSUME NEW s, NEW i \in Nat, HasHex4(s, i)
    PROVE  Hex4(s, i) \in Nat /\ Hex4(s, i) <= 65535
    <1>1. \A k \in i .. (i + 3) : HexValue(s[k]) \in 0 .. 15
        BY HexIsSmall DEF HasHex4
    <1>2. /\ HexValue(s[i]) \in 0 .. 15 /\ HexValue(s[i + 1]) \in 0 .. 15
          /\ HexValue(s[i + 2]) \in 0 .. 15 /\ HexValue(s[i + 3]) \in 0 .. 15
        <2>1. i \in i .. (i + 3) /\ i + 1 \in i .. (i + 3) /\ i + 2 \in i .. (i + 3)
              /\ i + 3 \in i .. (i + 3)
            OBVIOUS
        <2> QED BY <1>1, <2>1
    <1>3. PICK a \in 0 .. 15 : a = HexValue(s[i])
        BY <1>2
    <1>4. PICK b \in 0 .. 15 : b = HexValue(s[i + 1])
        BY <1>2
    <1>5. PICK c \in 0 .. 15 : c = HexValue(s[i + 2])
        BY <1>2
    <1>6. PICK d \in 0 .. 15 : d = HexValue(s[i + 3])
        BY <1>2
    <1>7. PICK x \in Nat : x = 4096 * a + 256 * b + 16 * c + d
        OBVIOUS
    <1>8. x <= 65535
        BY <1>7
    <1> QED BY <1>3, <1>4, <1>5, <1>6, <1>7, <1>8 DEF Hex4

(* Surrogates are the numbers between two others.                           *)
LEMMA SurrogatesAre ==
    /\ \A x : x \in HighSurrogate <=> x \in Nat /\ 55296 <= x /\ x <= 56319
    /\ \A x : x \in LowSurrogate <=> x \in Nat /\ 56320 <= x /\ x <= 57343
    <1>1. PICK a \in Nat, b \in Nat, c \in Nat, d \in Nat :
              a = 55296 /\ b = 56319 /\ c = 56320 /\ d = 57343
        BY SMT
    <1>2. HighSurrogate = a .. b /\ LowSurrogate = c .. d
        BY <1>1, SMT DEF HighSurrogate, LowSurrogate
    <1>3. \A x : x \in HighSurrogate <=> x \in Nat /\ a <= x /\ x <= b
        BY <1>2
    <1>4. \A x : x \in LowSurrogate <=> x \in Nat /\ c <= x /\ x <= d
        BY <1>2
    <1> QED BY <1>1, <1>3, <1>4, SMT

(* The halves of a pair differ.                                            *)
LEMMA SurrogatesDiffer ==
    ASSUME NEW x \in HighSurrogate
    PROVE  x \notin LowSurrogate
    <1>1. x \in Nat /\ x <= 56319
        BY SurrogatesAre
    <1>2. ~ (56320 <= x)
        BY <1>1, SMT
    <1> QED BY <1>2, SurrogatesAre, SMT

(* What the escapes of two bytes stand for is no half of a pair.           *)
LEMMA ShortsDiffer ==
    ASSUME NEW x \in Int, x <= 127
    PROVE  x \notin LowSurrogate
    <1>1. ~ (56320 <= x)
        BY SMT
    <1> QED BY <1>1, SurrogatesAre, SMT

(* Two halves of a pair make a code point of four bytes.                   *)
LEMMA PairIsCodePoint ==
    ASSUME NEW h \in HighSurrogate, NEW l \in LowSurrogate
    PROVE  Paired(h, l) \in Nat /\ 65536 <= Paired(h, l) /\ Paired(h, l) <= 1114111
    <1>1. h \in Nat /\ l \in Nat /\ 55296 <= h /\ h <= 56319 /\ 56320 <= l /\ l <= 57343
        BY SurrogatesAre, SMT
    <1>2. PICK x \in Nat : x = 65536 + 1024 * (h - 55296) + (l - 56320)
        BY <1>1
    <1>3. 65536 <= x /\ x <= 1114111
        BY <1>1, <1>2
    <1> QED BY <1>2, <1>3 DEF Paired

(* The quotients and remainders that are encoded.                          *)
LEMMA Sextets ==
    ASSUME NEW c \in Nat, c <= 1114111
    PROVE  \E q \in Nat, r \in 0 .. 63 :
               q <= 17407 /\ q = c \div 64 /\ r = c % 64 /\ c = 64 * q + r
    <1>1. PICK q \in Nat, r \in 0 .. 63 : q = c \div 64 /\ r = c % 64
        BY DivMod
    <1>2. c = 64 * q + r
        BY <1>1, DivMod
    <1>3. q <= 17407
        BY <1>2
    <1> QED BY <1>1, <1>2, <1>3

(* Sextets, one by one.                                                    *)
LEMMA DivDiv ==
    ASSUME NEW c \in Nat
    PROVE  c \div 4096 = (c \div 64) \div 64 /\ c \div 262144 = (c \div 4096) \div 64
    OBVIOUS

(* What append_codepoint appends, in terms of the sextets.                 *)
IsSplit(c, q, r, p, t, m, n) ==
    /\ q <= 17407 /\ p <= 271 /\ m <= 4
    /\ c = 64 * q + r /\ q = 64 * p + t /\ p = 64 * m + n
    /\ Utf8(c) = IF c <= 127 THEN <<c>>
                 ELSE IF c <= 2047 THEN <<192 + q, 128 + r>>
                 ELSE IF c <= 65535 THEN <<224 + p, 128 + t, 128 + r>>
                 ELSE <<240 + m, 128 + n, 128 + t, 128 + r>>

(* Every code point has them.                                              *)
LEMMA SplitExists ==
    ASSUME NEW c \in CodePoints
    PROVE  \E q, p, m \in Nat, r, t, n \in 0 .. 63 : IsSplit(c, q, r, p, t, m, n)
    <1>1. c \in Nat /\ c <= 1114111
        BY DEF CodePoints
    <1>2. PICK q \in Nat, r \in 0 .. 63 :
              q <= 17407 /\ q = c \div 64 /\ r = c % 64 /\ c = 64 * q + r
        BY <1>1, Sextets
    <1>3. PICK p \in Nat, t \in 0 .. 63 :
              p <= 271 /\ p = c \div 4096 /\ t = q % 64 /\ q = 64 * p + t
        <2>1. PICK p \in Nat, t \in 0 .. 63 :
                  p = q \div 64 /\ t = q % 64 /\ q = 64 * p + t
            BY Sextets
        <2>2. p <= 271
            BY <1>2, <2>1
        <2>3. p = c \div 4096
            BY <1>1, <1>2, <2>1, DivDiv
        <2> QED BY <2>1, <2>2, <2>3, SMT
    <1>4. PICK m \in Nat, n \in 0 .. 63 :
              m <= 4 /\ m = c \div 262144 /\ n = p % 64 /\ p = 64 * m + n
        <2>1. PICK m \in Nat, n \in 0 .. 63 :
                  m = p \div 64 /\ n = p % 64 /\ p = 64 * m + n
            BY Sextets
        <2>2. m <= 4
            <3>1. p <= 271 /\ p = 64 * m + n
                BY <1>3, <2>1, SMT
            <3> HIDE <1>2, <1>3, <2>1
            <3> QED BY <3>1
        <2>3. m = c \div 262144
            BY <1>1, <1>3, <2>1, DivDiv
        <2> QED BY <2>1, <2>2, <2>3, SMT
    <1>5. Utf8(c) = IF c <= 127 THEN <<c>>
                    ELSE IF c <= 2047 THEN <<192 + q, 128 + r>>
                    ELSE IF c <= 65535 THEN <<224 + p, 128 + t, 128 + r>>
                    ELSE <<240 + m, 128 + n, 128 + t, 128 + r>>
        BY <1>2, <1>3, <1>4 DEF Utf8
    <1>6. IsSplit(c, q, r, p, t, m, n)
        BY <1>2, <1>3, <1>4, <1>5, SMT DEF IsSplit
    <1> QED BY <1>6, Zenon

(* These are bytes.                                                        *)
LEMMA Utf8IsBytes ==
    ASSUME NEW c \in CodePoints
    PROVE  Utf8(c) \in Seq(Byte)
    <1>1. c \in Nat /\ c <= 1114111
        BY DEF CodePoints
    <1>2. PICK q \in Nat, p \in Nat, m \in Nat, r \in 0 .. 63, t \in 0 .. 63, n \in 0 .. 63 :
              IsSplit(c, q, r, p, t, m, n)
        BY SplitExists, Zenon
    <1>3. q <= 17407 /\ p <= 271 /\ m <= 4 /\ c = 64 * q + r /\ q = 64 * p + t
        BY <1>2, SMT DEF IsSplit
    <1>5. Utf8(c) = IF c <= 127 THEN <<c>>
                    ELSE IF c <= 2047 THEN <<192 + q, 128 + r>>
                    ELSE IF c <= 65535 THEN <<224 + p, 128 + t, 128 + r>>
                    ELSE <<240 + m, 128 + n, 128 + t, 128 + r>>
        BY <1>2, SMT DEF IsSplit
    <1>6. c <= 127 => <<c>> \in Seq(Byte)
        BY <1>1 DEF Byte
    <1>7. c <= 2047 => <<192 + q, 128 + r>> \in Seq(Byte)
        <2>1. c <= 2047 => q <= 31
            BY <1>3
        <2> QED BY <2>1 DEF Byte
    <1>8. c <= 65535 => <<224 + p, 128 + t, 128 + r>> \in Seq(Byte)
        <2>1. c <= 65535 => p <= 15
            BY <1>3
        <2> QED BY <2>1 DEF Byte
    <1>9. <<240 + m, 128 + n, 128 + t, 128 + r>> \in Seq(Byte)
        <2>1. m <= 4
            BY <1>3
        <2>2. 240 + m \in Byte
            BY <2>1 DEF Byte
        <2>3. 128 + n \in Byte /\ 128 + t \in Byte /\ 128 + r \in Byte
            BY DEF Byte
        <2> QED BY <2>2, <2>3
    <1> QED BY <1>5, <1>6, <1>7, <1>8, <1>9

(* So are those of every item.                                             *)
LEMMA ItemsAreBytes ==
    ASSUME NEW s \in Seq(Byte), NEW i \in 1 .. Len(s)
    PROVE  ItemAt(s, i).bytes \in Seq(Byte)
    <1> DEFINE Good(item) == item.bytes \in Seq(Byte)
    <1>1. Good(Refused)
        BY DEF Refused, Item
    <1>2. ASSUME NEW n, NEW b \in Seq(Byte) PROVE Good(Item(n, b))
        BY DEF Item
    <1>3. \A k \in 1 .. Len(s) : s[k] \in Byte
        BY ElementOfSeq
    <1>4. Good(UnicodeEscape(s, i))
        <2>1. i \in Nat /\ i + 2 \in Nat /\ i + 8 \in Nat
            BY LenProperties
        <2>2. CASE ~HasHex4(s, i + 2) \/ Hex4(s, i + 2) \in LowSurrogate
            BY <1>1, <2>2 DEF UnicodeEscape
        <2>3. CASE HasHex4(s, i + 2) /\ Hex4(s, i + 2) \notin LowSurrogate \cup HighSurrogate
            <3>1. Hex4(s, i + 2) \in CodePoints
                <4>1. Hex4(s, i + 2) \in Nat /\ Hex4(s, i + 2) <= 65535
                    BY <2>1, <2>3, Hex4IsUnit
                <4> QED BY <4>1 DEF CodePoints
            <3>2. Good(Item(6, Utf8(Hex4(s, i + 2))))
                BY <1>2, <3>1, Utf8IsBytes
            <3> HIDE DEF Good
            <3> QED BY <2>3, <3>2 DEF UnicodeEscape
        <2>4. CASE HasHex4(s, i + 2) /\ Hex4(s, i + 2) \in HighSurrogate /\ HasLow(s, i + 6)
            <3>1. Hex4(s, i + 8) \in LowSurrogate
                BY <2>1, <2>4 DEF HasLow
            <3>2. Paired(Hex4(s, i + 2), Hex4(s, i + 8)) \in CodePoints
                BY <2>4, <3>1, PairIsCodePoint DEF CodePoints
            <3>3. Good(Item(12, Utf8(Paired(Hex4(s, i + 2), Hex4(s, i + 8)))))
                BY <1>2, <3>2, Utf8IsBytes
            <3>4. Hex4(s, i + 2) \notin LowSurrogate
                BY <2>4, SurrogatesDiffer
            <3> HIDE DEF Good
            <3> QED BY <2>4, <3>3, <3>4 DEF UnicodeEscape
        <2>5. CASE Hex4(s, i + 2) \in HighSurrogate /\ ~HasLow(s, i + 6)
            BY <1>1, <2>5 DEF UnicodeEscape
        <2> QED BY <2>2, <2>3, <2>4, <2>5
    <1>5. Good(RawCharacter(s, i))
        <2>1. CASE Utf8Length(s, i) = 0
            BY <1>1, <2>1 DEF RawCharacter
        <2>2. CASE Utf8Length(s, i) # 0
            <3>1. PICK n \in 2 .. 4 : n = Utf8Length(s, i) /\ i + n - 1 <= Len(s)
                BY <2>2, CharacterIsWhole
            <3>2. \A k \in i .. (i + n - 1) : s[k] \in Byte
                BY <3>1, ElementOfSeq
            <3>3. SubSeq(s, i, i + n - 1) \in Seq(Byte)
                BY <3>1, <3>2, SubSeqProperties
            <3>4. RawCharacter(s, i) = Item(n, SubSeq(s, i, i + n - 1))
                BY <2>2, <3>1 DEF RawCharacter
            <3> QED BY <1>2, <3>3, <3>4
        <2> QED BY <2>1, <2>2
    <1>6. \A b \in Byte : Good(Item(1, <<b>>)) /\ Good(Item(2, <<Meaning(b)>>))
        <2>1. \A b \in Byte : Meaning(b) \in Byte
            BY DEF Meaning, Byte
        <2>2. \A b \in Byte : <<b>> \in Seq(Byte)
            OBVIOUS
        <2> QED BY <1>2, <2>1, <2>2
    <1> SUFFICES Good(ItemAt(s, i))
        OBVIOUS
    <1> HIDE DEF Good
    <1>7. s[i] \in Byte /\ (i + 1 <= Len(s) => s[i + 1] \in Byte)
        <2>1. i + 1 <= Len(s) => i + 1 \in 1 .. Len(s)
            BY LenProperties
        <2> QED BY <1>3, <2>1
    <1>8. CASE s[i] = Backslash
        <2>1. Backslash = 92
            BY DEF Backslash
        <2>2. ItemAt(s, i) = IF i + 1 > Len(s) THEN Refused
                             ELSE IF s[i + 1] \in ShortEscape
                                 THEN Item(2, <<Meaning(s[i + 1])>>)
                             ELSE IF s[i + 1] = SmallU THEN UnicodeEscape(s, i)
                             ELSE Refused
            BY <1>8, <2>1 DEF ItemAt
        <2>3. CASE i + 1 > Len(s)
            BY <1>1, <2>2, <2>3
        <2>4. CASE ~ (i + 1 > Len(s))
            <3>1. i + 1 <= Len(s)
                BY <2>4, LenProperties
            <3>2. Good(Item(2, <<Meaning(s[i + 1])>>))
                BY <1>6, <1>7, <3>1
            <3> QED BY <1>1, <1>4, <2>2, <2>4, <3>2
        <2> QED BY <2>3, <2>4
    <1>9. s[i] # Backslash => Good(ItemAt(s, i))
        BY <1>1, <1>5, <1>6, <1>7 DEF ItemAt
    <1> QED BY <1>8, <1>9

-----------------------------------------------------------------------------
(* Every step keeps within the buffer.                                     *)
LEMMA NextString == StringInv /\ [Next]_vars => StringInv'
    <1> SUFFICES ASSUME StringInv, [Next]_vars PROVE StringInv'
        OBVIOUS
    <1>1. CASE UNCHANGED stringVars
        BY <1>1 DEF stringVars, StringInv
    <1>2. CASE Call
        BY <1>2, StringAssumption DEF Call, StringInv
    <1>3. CASE Decode
        <2>1. pos \in 1 .. Len(text) /\ text \in Seq(Byte) /\ Len(out) \in Nat
            BY <1>3 DEF Decode, StringInv
        <2> DEFINE item == ItemAt(text, pos)
        <2>2. /\ item.used \in Nat /\ Len(item.bytes) \in Nat
              /\ Len(item.bytes) <= item.used /\ pos + item.used <= Len(text) + 1
            BY <2>1, ItemShrinks
        <2>3. /\ pos' = pos + item.used /\ out' = out \o item.bytes
              /\ text' = text
            BY <1>3 DEF Decode
        <2>4. item.bytes \in Seq(Byte) /\ out \in Seq(Byte)
            BY <2>1, ItemsAreBytes DEF StringInv
        <2> HIDE DEF item
        <2>5. Len(out') = Len(out) + Len(item.bytes)
            BY <2>3
        <2>6. out' \in Seq(Byte)
            BY <2>3, <2>4
        <2>7. pos' \in 1 .. (Len(text') + 1) /\ Len(out') < pos'
            <3>1. PICK n \in Nat, m \in Nat, l \in Nat, k \in Nat :
                      n = item.used /\ m = Len(item.bytes) /\ l = Len(text) /\ k = Len(out)
                BY <2>1, <2>2
            <3>2. k < pos
                BY <3>1 DEF StringInv
            <3> QED BY <2>1, <2>2, <2>3, <2>5, <3>1, <3>2
        <2>8. Len(out') \in Nat
            BY <2>6, LenProperties
        <2> QED BY <2>3, <2>6, <2>7, <2>8 DEF StringInv
    <1>4. CASE Refuse \/ Finish
        BY <1>4 DEF Refuse, Finish, StringInv
    <1>5. CASE AnswerFixed \/ Create \/ Visit \/ AppendPiece
        BY <1>1, <1>5 DEF AnswerFixed, Create, Visit, AppendPiece
    <1>6. CASE UNCHANGED vars
        BY <1>1, <1>6 DEF vars
    <1> QED BY <1>2, <1>3, <1>4, <1>5, <1>6 DEF Next, Shorten, ReadString, StringNext

(* There is room for what is read next.                                    *)
LEMMA ItemFits ==
    ASSUME StringInv, pos <= Len(text)
    PROVE  Len(out) + Len(ItemAt(text, pos).bytes) <= OutputSize
    <1>1. pos \in 1 .. Len(text) /\ text \in Seq(Byte) /\ OutputSize \in Nat
        BY StringAssumption DEF StringInv
    <1>2. PICK n \in Nat, m \in Nat :
              /\ n = Len(ItemAt(text, pos).bytes)
              /\ n <= m /\ pos + m <= Len(text) + 1
        BY <1>1, ItemShrinks
    <1>3. PICK l \in Nat : l = Len(text) /\ l <= OutputSize
        BY DEF StringInv
    <1>4. PICK k \in Nat : k = Len(out) /\ k < pos
        BY DEF StringInv
    <1> QED BY <1>1, <1>2, <1>3, <1>4

(* The decoder's buffer is large enough (BufferSuffices).                  *)
THEOREM BufferIsLargeEnough == Spec => []BufferSuffices
    <1>1. Init => StringInv
        BY StringAssumption DEF Init, StringInit, StringInv
    <1>2. StringInv => BufferSuffices
        BY ItemFits DEF StringInv, BufferSuffices
    <1> QED BY <1>1, <1>2, NextString, PTL DEF Spec

-----------------------------------------------------------------------------
(* What n bytes at i are, by UnicodeText.                                  *)
Char(s, i, n) == Unicode!IsCharacter(s, i, n)
Code(s, i, n) == Unicode!CodePoint(s, i, n)

(* Code points that are characters.                                        *)
Scalars == {c \in CodePoints : c \notin HighSurrogate \cup LowSurrogate}

(* Bytes are numbers.                                                      *)
LEMMA BytesAre == \A x : x \in Byte <=> x \in Nat /\ x <= 255
    BY SMT DEF Byte

(* Their code point, for each number of bytes.                             *)
Two(w, x) == (w - 192) * 64 + (x - 128)
Three(w, x, y) == (w - 224) * 4096 + (x - 128) * 64 + (y - 128)
Four(w, x, y, z) == (w - 240) * 262144 + (x - 128) * 4096 + (y - 128) * 64 + (z - 128)

(* They are what a character of so many bytes stands for.                  *)
LEMMA CodeOf ==
    ASSUME NEW s, NEW i
    PROVE  /\ Code(s, i, 1) = s[i]
           /\ Code(s, i, 2) = Two(s[i], s[i + 1])
           /\ Code(s, i, 3) = Three(s[i], s[i + 1], s[i + 2])
           /\ Code(s, i, 4) = Four(s[i], s[i + 1], s[i + 2], s[i + 3])
    BY SMT DEF Code, Unicode!CodePoint, Two, Three, Four

(* They are numbers.                                                       *)
LEMMA CodesAreNumbers ==
    /\ \A w, x \in Int : Two(w, x) \in Int
    /\ \A w, x, y \in Int : Three(w, x, y) \in Int
    /\ \A w, x, y, z \in Int : Four(w, x, y, z) \in Int
    BY SMT DEF Two, Three, Four

(* UnicodeText has the same surrogates.                                    *)
LEMMA UnicodeSurrogates == Unicode!High = HighSurrogate /\ Unicode!Low = LowSurrogate
    <1>1. PICK a \in Nat, b \in Nat, c \in Nat, d \in Nat :
              a = 55296 /\ b = 56319 /\ c = 56320 /\ d = 57343
        BY SMT
    <1>2. Unicode!High = a .. b /\ Unicode!Low = c .. d
        BY <1>1, SMT DEF Unicode!High, Unicode!Low
    <1>3. HighSurrogate = a .. b /\ LowSurrogate = c .. d
        BY <1>1, SMT DEF HighSurrogate, LowSurrogate
    <1> QED BY <1>2, <1>3

(* Between what they are, by the first two bytes.                          *)
LEMMA TwoRange ==
    ASSUME NEW x \in Int, NEW y \in Nat, 128 <= y, y <= 191, NEW c, c = Two(x, y)
    PROVE  /\ x \in 192 .. 223 => c <= 2047
           /\ 128 <= c <=> 194 <= x
    <1>1. c = (x - 192) * 64 + (y - 128)
        BY DEF Two
    <1>2. 192 <= x /\ x <= 223 => c <= 2047
        BY <1>1, SMT
    <1>3. 128 <= c <=> 194 <= x
        BY <1>1, SMT
    <1> QED BY <1>2, <1>3

(* The values of three bytes.                                              *)
LEMMA ThreeRange ==
    ASSUME NEW x \in Int, 224 <= x, x <= 239, NEW y \in Nat, 128 <= y, y <= 191,
           NEW z \in Nat, 128 <= z, z <= 191, NEW c, c = Three(x, y, z)
    PROVE  /\ c <= 65535
           /\ 2048 <= c <=> ~(x = 224 /\ y < 160)
           /\ 55296 <= c /\ c <= 57343 <=> x = 237 /\ y >= 160
    <1>1. PICK p \in Int : p = (x - 224) * 64 + (y - 128)
        OBVIOUS
    <1>2. c = 64 * p + (z - 128)
        BY <1>1, SMT DEF Three
    <1>3. c <= 65535
        BY <1>1, <1>2, SMT
    <1>4. 2048 <= c <=> 32 <= p
        BY <1>2, SMT
    <1>5. 32 <= p <=> ~(x = 224 /\ y < 160)
        BY <1>1, SMT
    <1>6. 55296 <= c /\ c <= 57343 <=> 864 <= p /\ p <= 895
        BY <1>2, SMT
    <1>7. 864 <= p /\ p <= 895 <=> x = 237 /\ y >= 160
        BY <1>1, SMT
    <1> QED BY <1>3, <1>4, <1>5, <1>6, <1>7, SMT

(* The values of four bytes.                                               *)
LEMMA FourRange ==
    ASSUME NEW x \in Int, 240 <= x, x <= 247, NEW y \in Nat, 128 <= y, y <= 191,
           NEW z \in Nat, 128 <= z, z <= 191, NEW w \in Nat, 128 <= w, w <= 191,
           NEW c, c = Four(x, y, z, w)
    PROVE  /\ 65536 <= c <=> ~(x = 240 /\ y < 144)
           /\ c <= 1114111 <=> x <= 244 /\ ~(x = 244 /\ y > 143)
    <1>1. PICK p \in Int : p = (x - 240) * 64 + (y - 128)
        OBVIOUS
    <1>2. PICK r \in Nat : r = (z - 128) * 64 + (w - 128) /\ r <= 4095
        BY SMT
    <1>3. c = 4096 * p + r
        BY <1>1, <1>2, SMT DEF Four
    <1>4. 65536 <= c <=> 16 <= p
        BY <1>2, <1>3, SMT
    <1>5. 16 <= p <=> ~(x = 240 /\ y < 144)
        BY <1>1, SMT
    <1>6. c <= 1114111 <=> p <= 271
        BY <1>2, <1>3, SMT
    <1>7. p <= 271 <=> x <= 244 /\ ~(x = 244 /\ y > 143)
        BY <1>1, SMT
    <1> QED BY <1>4, <1>5, <1>6, <1>7, SMT

(* What makes n bytes a character.                                         *)
LEMMA CharMeans ==
    ASSUME NEW s, NEW i \in Nat, NEW n \in 1 .. 4, NEW c \in Int, c = Code(s, i, n)
    PROVE  Char(s, i, n) <=>
               /\ i + n - 1 <= Len(s) /\ s[i] \in Unicode!FirstBytes[n]
               /\ \A k \in (i + 1) .. (i + n - 1) : s[k] \in Unicode!Following
               /\ Unicode!Smallest[n] <= c /\ c \in Scalars
    <1> DEFINE points == Unicode!Smallest[n] .. Unicode!LastCodePoint
    <1>1. Char(s, i, n) <=>
               /\ i + n - 1 <= Len(s) /\ s[i] \in Unicode!FirstBytes[n]
               /\ \A k \in (i + 1) .. (i + n - 1) : s[k] \in Unicode!Following
               /\ c \in points /\ c \notin Unicode!High \cup Unicode!Low
        BY Zenon DEF Char, Code, Unicode!IsCharacter
    <1>2. PICK m \in Nat : m = Unicode!Smallest[n]
        BY DEF Unicode!Smallest
    <1>3. c \in points <=> m <= c /\ c \in CodePoints
        BY <1>2, SMT DEF CodePoints, Unicode!LastCodePoint
    <1>4. Unicode!High = HighSurrogate /\ Unicode!Low = LowSurrogate
        BY UnicodeSurrogates
    <1> HIDE DEF points
    <1> QED BY <1>1, <1>2, <1>3, <1>4 DEF Scalars

(* The first byte says how many there are.                                 *)
LEMMA CharIsOne ==
    ASSUME NEW s, NEW i, NEW n \in 1 .. 4, NEW m \in 1 .. 4, Char(s, i, n), Char(s, i, m)
    PROVE  n = m
    <1>1. s[i] \in Unicode!FirstBytes[n] /\ s[i] \in Unicode!FirstBytes[m]
        BY DEF Char, Unicode!IsCharacter
    <1> QED BY <1>1, SMT DEF Unicode!FirstBytes

(* What follows the first byte follows.                                    *)
LEMMA CharInside ==
    ASSUME NEW s \in Seq(Byte), NEW i \in 1 .. Len(s), NEW n \in 1 .. 4,
           i + n - 1 <= Len(s)
    PROVE  /\ Code(s, i, n) \in Int
           /\ \A k \in 0 .. (n - 1) : i + k \in 1 .. Len(s) /\ s[i + k] \in Byte
    <1>1. PICK l \in Nat : l = Len(s)
        BY LenProperties
    <1>2. \A k \in 0 .. (n - 1) : i + k \in 1 .. Len(s)
        BY <1>1
    <1>3. \A k \in 0 .. (n - 1) : s[i + k] \in Byte
        BY <1>2, ElementOfSeq
    <1>4. s[i] \in Int
        <2>1. 0 \in 0 .. (n - 1) /\ i + 0 = i
            BY <1>1
        <2>2. s[i] \in Byte
            BY <1>3, <2>1
        <2> QED BY <2>2, BytesAre
    <1>5. \A k \in 1 .. (n - 1) : s[i + k] \in Int
        <2>1. \A k \in 1 .. (n - 1) : k \in 0 .. (n - 1)
            OBVIOUS
        <2> QED BY <1>3, <2>1, BytesAre
    <1>6. ASSUME n = 1 PROVE Code(s, i, n) \in Int
        BY <1>4, <1>6, CodeOf
    <1>7. ASSUME n = 2 PROVE Code(s, i, n) \in Int
        <2>1. s[i + 1] \in Int
            BY <1>5, <1>7
        <2> QED BY <1>4, <1>7, <2>1, CodeOf, CodesAreNumbers
    <1>8. ASSUME n = 3 PROVE Code(s, i, n) \in Int
        <2>1. s[i + 1] \in Int /\ s[i + 2] \in Int
            BY <1>5, <1>8
        <2>2. Code(s, i, 3) = Three(s[i], s[i + 1], s[i + 2])
            BY CodeOf
        <2>3. Three(s[i], s[i + 1], s[i + 2]) \in Int
            BY <1>4, <2>1, CodesAreNumbers, Zenon
        <2> QED BY <1>8, <2>2, <2>3
    <1>9. ASSUME n = 4 PROVE Code(s, i, n) \in Int
        <2>1. s[i + 1] \in Int /\ s[i + 2] \in Int /\ s[i + 3] \in Int
            BY <1>5, <1>9
        <2>2. Code(s, i, 4) = Four(s[i], s[i + 1], s[i + 2], s[i + 3])
            BY CodeOf
        <2>3. Four(s[i], s[i + 1], s[i + 2], s[i + 3]) \in Int
            BY <1>4, <2>1, CodesAreNumbers, Zenon
        <2> QED BY <1>9, <2>2, <2>3
    <1> QED BY <1>2, <1>3, <1>6, <1>7, <1>8, <1>9

(* The code points of characters are scalars.                              *)
LEMMA CharIsScalar ==
    ASSUME NEW s \in Seq(Byte), NEW i \in 1 .. Len(s), NEW n \in 1 .. 4, Char(s, i, n)
    PROVE  Code(s, i, n) \in Scalars /\ i + n - 1 <= Len(s)
    <1>1. i + n - 1 <= Len(s)
        BY DEF Char, Unicode!IsCharacter
    <1>2. PICK c \in Int : c = Code(s, i, n)
        BY <1>1, CharInside
    <1>3. i \in Nat
        BY LenProperties
    <1> QED BY <1>1, <1>2, <1>3, CharMeans

(* The same bytes are the same character anywhere.                         *)
LEMMA CharMoves ==
    ASSUME NEW s \in Seq(Byte), NEW i \in 1 .. Len(s), NEW n \in 1 .. 4, Char(s, i, n),
           NEW t \in Seq(Byte), NEW j \in 1 .. Len(t), j + n - 1 <= Len(t),
           \A k \in 0 .. (n - 1) : s[i + k] = t[j + k]
    PROVE  Char(t, j, n) /\ Code(t, j, n) = Code(s, i, n)
    <1>0. i \in Nat /\ j \in Nat
        BY LenProperties
    <1>1. s[i] = t[j]
        <2>1. 0 \in 0 .. (n - 1) /\ i + 0 = i /\ j + 0 = j
            BY <1>0
        <2> QED BY <2>1
    <1>2. Code(t, j, n) = Code(s, i, n)
        <2>1. CASE n = 1
            BY <1>1, <2>1, CodeOf
        <2>2. CASE n = 2
            <3>1. s[i + 1] = t[j + 1]
                BY <2>2
            <3> QED BY <1>1, <2>2, <3>1, CodeOf
        <2>3. CASE n = 3
            <3>1. s[i + 1] = t[j + 1] /\ s[i + 2] = t[j + 2]
                BY <2>3
            <3> QED BY <1>1, <2>3, <3>1, CodeOf
        <2>4. CASE n = 4
            <3>1. s[i + 1] = t[j + 1] /\ s[i + 2] = t[j + 2] /\ s[i + 3] = t[j + 3]
                BY <2>4
            <3>2. Code(s, i, 4) = Four(s[i], s[i + 1], s[i + 2], s[i + 3])
                BY CodeOf
            <3>3. Code(t, j, 4) = Four(t[j], t[j + 1], t[j + 2], t[j + 3])
                BY CodeOf
            <3> QED BY <1>1, <2>4, <3>1, <3>2, <3>3
        <2> QED BY <2>1, <2>2, <2>3, <2>4
    <1>3. PICK c \in Int : c = Code(s, i, n)
        BY CharIsScalar, CharInside
    <1>4. /\ s[i] \in Unicode!FirstBytes[n]
          /\ \A k \in (i + 1) .. (i + n - 1) : s[k] \in Unicode!Following
          /\ Unicode!Smallest[n] <= c /\ c \in Scalars
        BY <1>0, <1>3, CharMeans
    <1>5. ASSUME NEW k \in (j + 1) .. (j + n - 1) PROVE t[k] \in Unicode!Following
        <2>1. /\ k - j \in 0 .. (n - 1) /\ j + (k - j) = k
              /\ i + (k - j) \in (i + 1) .. (i + n - 1)
            BY <1>0
        <2> QED BY <1>4, <2>1
    <1> QED BY <1>0, <1>1, <1>2, <1>3, <1>4, <1>5, CharMeans

(* The bytes that continue a character.                                     *)
LEMMA FollowingAre ==
    \A x : x \in Unicode!Following <=> x \in Nat /\ 128 <= x /\ x <= 191
    <1>1. PICK a \in Nat, b \in Nat : a = 128 /\ b = 191
        OBVIOUS
    <1>2. Unicode!Following = a .. b
        BY <1>1, SMT DEF Unicode!Following
    <1>3. \A x : x \in Unicode!Following <=> x \in Nat /\ a <= x /\ x <= b
        BY <1>2
    <1> QED BY <1>1, <1>3, SMT

(* valid_utf8_length finds the characters of several bytes.                *)
LEMMA LengthMeans ==
    ASSUME NEW s \in Seq(Byte), NEW i \in 1 .. Len(s), NEW n \in 2 .. 4
    PROVE  Char(s, i, n) <=> Utf8Length(s, i) = n
    <1> DEFINE Follows(k) == /\ i + k <= Len(s)
                             /\ \A j \in (i + 1) .. (i + k) : s[j] \in Unicode!Following
               two == s[i] \in 194 .. 223 /\ Follows(1)
               three == /\ s[i] \in 224 .. 239 /\ Follows(2)
                        /\ ~(s[i] = 224 /\ s[i + 1] < 160)
                        /\ ~(s[i] = 237 /\ s[i + 1] >= 160)
               four == /\ s[i] \in 240 .. 244 /\ Follows(3)
                       /\ ~(s[i] = 240 /\ s[i + 1] < 144)
                       /\ ~(s[i] = 244 /\ s[i + 1] > 143)
    <1>1. Utf8Length(s, i) = IF two THEN 2 ELSE IF three THEN 3
                             ELSE IF four THEN 4 ELSE 0
        BY Zenon DEF Utf8Length, Unicode!Following
    <1>2. i \in Nat /\ s[i] \in Byte
        BY LenProperties, ElementOfSeq
    <1>3. PICK x \in Int : x = s[i]
        BY <1>2, BytesAre
    <1>4. (two => ~three /\ ~four) /\ (three => ~four)
        <2>1. /\ two => x \in 194 .. 223
              /\ three => x \in 224 .. 239
              /\ four => x \in 240 .. 244
            BY <1>3
        <2> HIDE DEF two, three, four
        <2> QED BY <2>1
    <1>5. n = 2 => (Char(s, i, n) <=> two)
        <2> SUFFICES ASSUME Follows(1) PROVE Char(s, i, 2) <=> two
            <3>1. n = 2 /\ Char(s, i, n) => Follows(1)
                BY <1>2 DEF Char, Unicode!IsCharacter
            <3> QED BY <3>1
        <2>1. i + 1 \in (i + 1) .. (i + 1) /\ i + 2 - 1 = i + 1
            BY <1>2
        <2>2. PICK y \in Nat : y = s[i + 1] /\ 128 <= y /\ y <= 191
            BY <2>1, FollowingAre
        <2>3. PICK c \in Int : c = Code(s, i, 2) /\ c = Two(x, y)
            <3>1. Code(s, i, 2) = Two(x, y)
                BY <1>3, <2>2, CodeOf
            <3>2. Two(x, y) \in Int
                <4>1. y \in Int
                    OBVIOUS
                <4> QED BY <4>1, CodesAreNumbers, Zenon
            <3> QED BY <3>1, <3>2
        <2>4. Char(s, i, 2) <=> x \in 192 .. 223 /\ 128 <= c /\ c \in Scalars
            <3>1. Unicode!FirstBytes[2] = 192 .. 223 /\ Unicode!Smallest[2] = 128
                BY DEF Unicode!FirstBytes, Unicode!Smallest
            <3>2. i + 1 <= Len(s)
                OBVIOUS
            <3>3. 2 \in 1 .. 4
                OBVIOUS
            <3>4. Char(s, i, 2) <=>
                      /\ i + 2 - 1 <= Len(s) /\ s[i] \in Unicode!FirstBytes[2]
                      /\ \A k \in (i + 1) .. (i + 2 - 1) : s[k] \in Unicode!Following
                      /\ Unicode!Smallest[2] <= c /\ c \in Scalars
                BY <1>2, <2>3, <3>3, CharMeans
            <3> QED BY <1>3, <2>1, <3>1, <3>2, <3>4
        <2>5. x \in 192 .. 223 => c <= 2047
            <3>1. 128 <= y /\ y <= 191 /\ c = Two(x, y)
                BY <2>2, <2>3, Zenon
            <3> QED BY <3>1, TwoRange
        <2>6. 0 <= c /\ c <= 2047 => c \in Scalars
            BY SurrogatesAre, SMT DEF Scalars, CodePoints
        <2>7. 128 <= c <=> 194 <= x
            <3>1. 128 <= y /\ y <= 191 /\ c = Two(x, y)
                BY <2>2, <2>3, Zenon
            <3> QED BY <3>1, TwoRange
        <2>8. two <=> x \in 194 .. 223
            BY <1>3
        <2>9. x \in 194 .. 223 <=> x \in 192 .. 223 /\ 194 <= x
            OBVIOUS
        <2> HIDE DEF two
        <2> QED BY <2>4, <2>5, <2>6, <2>7, <2>8, <2>9
    <1>6. n = 3 => (Char(s, i, n) <=> three)
        <2> SUFFICES ASSUME Follows(2) PROVE Char(s, i, 3) <=> three
            <3>1. n = 3 /\ Char(s, i, n) => Follows(2)
                BY <1>2 DEF Char, Unicode!IsCharacter
            <3> QED BY <3>1
        <2>1. /\ i + 1 \in (i + 1) .. (i + 2) /\ i + 2 \in (i + 1) .. (i + 2)
              /\ i + 3 - 1 = i + 2
            BY <1>2
        <2>2. PICK y \in Nat : y = s[i + 1] /\ 128 <= y /\ y <= 191
            BY <2>1, FollowingAre
        <2>3. PICK z \in Nat : z = s[i + 2] /\ 128 <= z /\ z <= 191
            BY <2>1, FollowingAre
        <2>4. PICK c \in Int : c = Code(s, i, 3) /\ c = Three(x, y, z)
            <3>1. Code(s, i, 3) = Three(x, y, z)
                BY <1>3, <2>2, <2>3, CodeOf
            <3>2. Three(x, y, z) \in Int
                <4>1. y \in Int /\ z \in Int
                    OBVIOUS
                <4> QED BY <4>1, CodesAreNumbers, Zenon
            <3> QED BY <3>1, <3>2
        <2>5. Char(s, i, 3) <=> x \in 224 .. 239 /\ 2048 <= c /\ c \in Scalars
            <3>1. Unicode!FirstBytes[3] = 224 .. 239 /\ Unicode!Smallest[3] = 2048
                BY DEF Unicode!FirstBytes, Unicode!Smallest
            <3>2. i + 2 <= Len(s)
                OBVIOUS
            <3>3. 3 \in 1 .. 4
                OBVIOUS
            <3>4. Char(s, i, 3) <=>
                      /\ i + 3 - 1 <= Len(s) /\ s[i] \in Unicode!FirstBytes[3]
                      /\ \A k \in (i + 1) .. (i + 3 - 1) : s[k] \in Unicode!Following
                      /\ Unicode!Smallest[3] <= c /\ c \in Scalars
                BY <1>2, <2>4, <3>3, CharMeans
            <3> QED BY <1>3, <2>1, <3>1, <3>2, <3>4
        <2>6. three <=> x \in 224 .. 239 /\ ~(x = 224 /\ y < 160) /\ ~(x = 237 /\ y >= 160)
            BY <1>3, <2>2
        <2> HIDE DEF three
        <2> SUFFICES ASSUME 224 <= x, x <= 239
                     PROVE  2048 <= c /\ c \in Scalars <=>
                                ~(x = 224 /\ y < 160) /\ ~(x = 237 /\ y >= 160)
            BY <2>5, <2>6
        <2>7. /\ c <= 65535
              /\ 2048 <= c <=> ~(x = 224 /\ y < 160)
              /\ 55296 <= c /\ c <= 57343 <=> x = 237 /\ y >= 160
            <3>1. 128 <= y /\ y <= 191 /\ 128 <= z /\ z <= 191 /\ c = Three(x, y, z)
                BY <2>2, <2>3, <2>4, Zenon
            <3> QED BY <3>1, ThreeRange
        <2>8. 2048 <= c => (c \in Scalars <=> ~ (55296 <= c /\ c <= 57343))
            BY <2>7, SurrogatesAre, SMT DEF Scalars, CodePoints
        <2> QED BY <2>7, <2>8
    <1>7. n = 4 => (Char(s, i, n) <=> four)
        <2> SUFFICES ASSUME Follows(3) PROVE Char(s, i, 4) <=> four
            <3>1. n = 4 /\ Char(s, i, n) => Follows(3)
                BY <1>2 DEF Char, Unicode!IsCharacter
            <3> QED BY <3>1
        <2>1. /\ i + 1 \in (i + 1) .. (i + 3) /\ i + 2 \in (i + 1) .. (i + 3)
              /\ i + 3 \in (i + 1) .. (i + 3) /\ i + 4 - 1 = i + 3
            BY <1>2
        <2>2. PICK y \in Nat : y = s[i + 1] /\ 128 <= y /\ y <= 191
            BY <2>1, FollowingAre
        <2>3. PICK z \in Nat : z = s[i + 2] /\ 128 <= z /\ z <= 191
            BY <2>1, FollowingAre
        <2>4. PICK w \in Nat : w = s[i + 3] /\ 128 <= w /\ w <= 191
            BY <2>1, FollowingAre
        <2>5. PICK c \in Int : c = Code(s, i, 4) /\ c = Four(x, y, z, w)
            <3>1. Code(s, i, 4) = Four(x, y, z, w)
                BY <1>3, <2>2, <2>3, <2>4, CodeOf
            <3>2. Four(x, y, z, w) \in Int
                <4>1. y \in Int /\ z \in Int /\ w \in Int
                    OBVIOUS
                <4> QED BY <4>1, CodesAreNumbers, Zenon
            <3> QED BY <3>1, <3>2
        <2>6. Char(s, i, 4) <=> x \in 240 .. 247 /\ 65536 <= c /\ c \in Scalars
            <3>1. Unicode!FirstBytes[4] = 240 .. 247 /\ Unicode!Smallest[4] = 65536
                BY DEF Unicode!FirstBytes, Unicode!Smallest
            <3>2. i + 3 <= Len(s)
                OBVIOUS
            <3>3. 4 \in 1 .. 4
                OBVIOUS
            <3>4. Char(s, i, 4) <=>
                      /\ i + 4 - 1 <= Len(s) /\ s[i] \in Unicode!FirstBytes[4]
                      /\ \A k \in (i + 1) .. (i + 4 - 1) : s[k] \in Unicode!Following
                      /\ Unicode!Smallest[4] <= c /\ c \in Scalars
                BY <1>2, <2>5, <3>3, CharMeans
            <3> QED BY <1>3, <2>1, <3>1, <3>2, <3>4
        <2>7. four <=> x \in 240 .. 244 /\ ~(x = 240 /\ y < 144) /\ ~(x = 244 /\ y > 143)
            BY <1>3, <2>2
        <2> HIDE DEF four
        <2> SUFFICES ASSUME 240 <= x, x <= 247
                     PROVE  65536 <= c /\ c \in Scalars <=>
                                x <= 244 /\ ~(x = 240 /\ y < 144) /\ ~(x = 244 /\ y > 143)
            BY <2>6, <2>7
        <2>8. 65536 <= c => (c \in Scalars <=> c <= 1114111)
            BY SurrogatesAre, SMT DEF Scalars, CodePoints
        <2>9. /\ 65536 <= c <=> ~(x = 240 /\ y < 144)
              /\ c <= 1114111 <=> x <= 244 /\ ~(x = 244 /\ y > 143)
            <3>1. /\ 128 <= y /\ y <= 191 /\ 128 <= z /\ z <= 191
                  /\ 128 <= w /\ w <= 191 /\ c = Four(x, y, z, w)
                BY <2>2, <2>3, <2>4, <2>5, Zenon
            <3> QED BY <3>1, FourRange
        <2> QED BY <2>8, <2>9, SMT
    <1> HIDE DEF two, three, four
    <1>8. n = 2 \/ n = 3 \/ n = 4
        OBVIOUS
    <1> QED BY <1>1, <1>4, <1>5, <1>6, <1>7, <1>8

-----------------------------------------------------------------------------
(* The bytes b are those of the one character c.                           *)
Encodes(b, c) ==
    /\ b \in Seq(Byte)
    /\ \E n \in 1 .. 4 : Len(b) = n /\ Char(b, 1, n) /\ Code(b, 1, n) = c

(* append_codepoint encodes.                                               *)
LEMMA Utf8Encodes ==
    ASSUME NEW c \in Scalars
    PROVE  Encodes(Utf8(c), c)
    <1>0. c \in CodePoints /\ c \in Nat /\ c <= 1114111
        BY DEF Scalars, CodePoints
    <1>1. PICK q \in Nat, p \in Nat, m \in Nat, r \in 0 .. 63, t \in 0 .. 63, n \in 0 .. 63 :
              IsSplit(c, q, r, p, t, m, n)
        <2>1. c \in CodePoints
            BY <1>0
        <2> QED BY <2>1, SplitExists, Zenon
    <1>2. q <= 17407 /\ p <= 271 /\ m <= 4 /\ c = 64 * q + r /\ q = 64 * p + t
          /\ p = 64 * m + n
        BY <1>1, SMT DEF IsSplit
    <1>3. Utf8(c) = IF c <= 127 THEN <<c>>
                    ELSE IF c <= 2047 THEN <<192 + q, 128 + r>>
                    ELSE IF c <= 65535 THEN <<224 + p, 128 + t, 128 + r>>
                    ELSE <<240 + m, 128 + n, 128 + t, 128 + r>>
        BY <1>1, SMT DEF IsSplit
    <1> DEFINE b == Utf8(c)
    <1>4. b \in Seq(Byte)
        BY <1>0, Utf8IsBytes
    <1> SUFFICES \E k \in 1 .. 4 : Len(b) = k /\ Char(b, 1, k) /\ Code(b, 1, k) = c
        BY <1>4 DEF Encodes
    <1> HIDE DEF b
    <1>5. ASSUME NEW k \in 1 .. 4, Len(b) = k, Code(b, 1, k) = c,
                 b[1] \in Unicode!FirstBytes[k],
                 \A j \in 2 .. k : b[j] \in Unicode!Following,
                 Unicode!Smallest[k] <= c
          PROVE  Len(b) = k /\ Char(b, 1, k) /\ Code(b, 1, k) = c
        <2>1. 1 + k - 1 <= Len(b) /\ 1 + 1 = 2 /\ 1 + k - 1 = k
            BY <1>5
        <2>2. 1 \in Nat /\ c \in Int /\ c = Code(b, 1, k)
            BY <1>0, <1>5
        <2>3. Char(b, 1, k) <=>
                  /\ 1 + k - 1 <= Len(b) /\ b[1] \in Unicode!FirstBytes[k]
                  /\ \A j \in (1 + 1) .. (1 + k - 1) : b[j] \in Unicode!Following
                  /\ Unicode!Smallest[k] <= c /\ c \in Scalars
            BY <2>2, CharMeans
        <2> QED BY <1>5, <2>1, <2>3
    <1>6. CASE c <= 127
        <2>1. b = <<c>>
            BY <1>3, <1>6 DEF b
        <2>2. Len(b) = 1 /\ b[1] = c
            BY <2>1
        <2>3. Unicode!FirstBytes[1] = 0 .. 127 /\ Unicode!Smallest[1] = 0
            BY DEF Unicode!FirstBytes, Unicode!Smallest
        <2>4. c \in 0 .. 127
            BY <1>0, <1>6
        <2>5. 1 \in 1 .. 4 /\ \A j \in 2 .. 1 : b[j] \in Unicode!Following
            BY DEF Unicode!Following
        <2>6. Code(b, 1, 1) = c
            BY <2>2, CodeOf
        <2> QED BY <1>0, <1>5, <2>2, <2>3, <2>4, <2>5, <2>6
    <1>7. CASE 127 < c /\ c <= 2047
        <2>1. b = <<192 + q, 128 + r>>
            <3>1. ~ (c <= 127)
                BY <1>0, <1>7
            <3> QED BY <1>3, <1>7, <3>1 DEF b
        <2>2. Len(b) = 2 /\ b[1] = 192 + q /\ b[2] = 128 + r
            BY <2>1
        <2>3. Unicode!FirstBytes[2] = 192 .. 223 /\ Unicode!Smallest[2] = 128
            BY DEF Unicode!FirstBytes, Unicode!Smallest
        <2>4. 192 + q \in 192 .. 223 /\ 128 <= c
            BY <1>2, <1>7
        <2>5. 2 \in 1 .. 4 /\ \A j \in 2 .. 2 : b[j] \in Unicode!Following
            BY <2>2 DEF Unicode!Following
        <2>6. Code(b, 1, 2) = c
            <3>1. Code(b, 1, 2) = Two(b[1], b[2])
                <4>1. 1 + 1 = 2
                    OBVIOUS
                <4> QED BY <4>1, CodeOf
            <3>2. Two(192 + q, 128 + r) = c
                BY <1>2, SMT DEF Two
            <3> QED BY <2>2, <3>1, <3>2
        <2> QED BY <1>5, <2>2, <2>3, <2>4, <2>5, <2>6
    <1>8. CASE 2047 < c /\ c <= 65535
        <2>1. b = <<224 + p, 128 + t, 128 + r>>
            <3>1. ~ (c <= 127) /\ ~ (c <= 2047)
                BY <1>0, <1>8
            <3> QED BY <1>3, <1>8, <3>1 DEF b
        <2>2. Len(b) = 3 /\ b[1] = 224 + p /\ b[2] = 128 + t /\ b[3] = 128 + r
            BY <2>1
        <2>3. Unicode!FirstBytes[3] = 224 .. 239 /\ Unicode!Smallest[3] = 2048
            BY DEF Unicode!FirstBytes, Unicode!Smallest
        <2>4. 224 + p \in 224 .. 239 /\ 2048 <= c
            BY <1>2, <1>8, SMT
        <2>5. 3 \in 1 .. 4 /\ \A j \in 2 .. 3 : b[j] \in Unicode!Following
            BY <2>2 DEF Unicode!Following
        <2>6. Code(b, 1, 3) = c
            <3>1. Code(b, 1, 3) = Three(b[1], b[2], b[3])
                <4>1. 1 + 1 = 2 /\ 1 + 2 = 3
                    OBVIOUS
                <4> QED BY <4>1, CodeOf
            <3>2. Three(224 + p, 128 + t, 128 + r) = c
                BY <1>2, SMT DEF Three
            <3> QED BY <2>2, <3>1, <3>2
        <2> QED BY <1>5, <2>2, <2>3, <2>4, <2>5, <2>6
    <1>9. CASE 65535 < c
        <2>1. b = <<240 + m, 128 + n, 128 + t, 128 + r>>
            <3>1. ~ (c <= 127) /\ ~ (c <= 2047) /\ ~ (c <= 65535)
                BY <1>0, <1>9, SMT
            <3> QED BY <1>3, <3>1 DEF b
        <2>2. Len(b) = 4 /\ b[1] = 240 + m /\ b[2] = 128 + n /\ b[3] = 128 + t
              /\ b[4] = 128 + r
            BY <2>1
        <2>3. Unicode!FirstBytes[4] = 240 .. 247 /\ Unicode!Smallest[4] = 65536
            BY DEF Unicode!FirstBytes, Unicode!Smallest
        <2>4. 240 + m \in 240 .. 247 /\ 65536 <= c
            BY <1>0, <1>2, <1>9, SMT
        <2>5. 4 \in 1 .. 4 /\ \A j \in 2 .. 4 : b[j] \in Unicode!Following
            BY <2>2 DEF Unicode!Following
        <2>6. Code(b, 1, 4) = c
            <3>1. Code(b, 1, 4) = Four(b[1], b[2], b[3], b[4])
                <4>1. 1 + 1 = 2 /\ 1 + 2 = 3 /\ 1 + 3 = 4
                    OBVIOUS
                <4> QED BY <4>1, CodeOf
            <3>2. Four(240 + m, 128 + n, 128 + t, 128 + r) = c
                BY <1>2, SMT DEF Four
            <3> QED BY <2>2, <3>1, <3>2
        <2> QED BY <1>5, <2>2, <2>3, <2>4, <2>5, <2>6
    <1>10. c <= 127 \/ (127 < c /\ c <= 2047) \/ (2047 < c /\ c <= 65535) \/ 65535 < c
        BY <1>0, SMT
    <1> QED BY <1>6, <1>7, <1>8, <1>9, <1>10

(* A byte below 128 stands for itself.                                     *)
LEMMA AsciiEncodes ==
    ASSUME NEW c \in 0 .. 127
    PROVE  c \in Scalars /\ Encodes(<<c>>, c)
    <1>1. c \in Scalars
        BY SurrogatesAre, SMT DEF Scalars, CodePoints
    <1>2. Utf8(c) = <<c>>
        BY DEF Utf8
    <1> QED BY <1>1, <1>2, Utf8Encodes

(* It is a character of one byte where it stands in a text.                *)
LEMMA AsciiIsChar ==
    ASSUME NEW s \in Seq(Byte), NEW i \in 1 .. Len(s)
    PROVE  Char(s, i, 1) <=> s[i] <= 127
    <1>1. i \in Nat /\ s[i] \in Byte
        BY LenProperties, ElementOfSeq
    <1>2. PICK x \in Nat : x = s[i]
        BY <1>1, BytesAre
    <1>3. Unicode!FirstBytes[1] = 0 .. 127 /\ Unicode!Smallest[1] = 0
        BY DEF Unicode!FirstBytes, Unicode!Smallest
    <1>4. Code(s, i, 1) = x /\ x \in Int /\ 1 \in 1 .. 4
        BY <1>2, CodeOf
    <1>5. i + 1 - 1 <= Len(s) /\ \A k \in (i + 1) .. (i + 1 - 1) : s[k] \in Unicode!Following
        BY <1>1
    <1>6. x <= 127 => x \in Scalars
        <2> SUFFICES ASSUME x <= 127 PROVE x \in Scalars
            OBVIOUS
        <2>1. x \in 0 .. 127
            OBVIOUS
        <2> QED BY <2>1, AsciiEncodes
    <1>7. Char(s, i, 1) <=>
               /\ i + 1 - 1 <= Len(s) /\ s[i] \in Unicode!FirstBytes[1]
               /\ \A k \in (i + 1) .. (i + 1 - 1) : s[k] \in Unicode!Following
               /\ Unicode!Smallest[1] <= x /\ x \in Scalars
        BY <1>1, <1>4, CharMeans
    <1>8. s[i] \in Unicode!FirstBytes[1] <=> x <= 127
        <2>1. x \in 0 .. 127 <=> x <= 127
            OBVIOUS
        <2> QED BY <1>2, <1>3, <2>1, Zenon
    <1>9. Unicode!Smallest[1] <= x
        BY <1>3
    <1> QED BY <1>2, <1>5, <1>6, <1>7, <1>8, <1>9

(* A character that was copied from a text encodes.                        *)
LEMMA CopyEncodes ==
    ASSUME NEW s \in Seq(Byte), NEW i \in 1 .. Len(s), NEW n \in 1 .. 4, Char(s, i, n)
    PROVE  Encodes(SubSeq(s, i, i + n - 1), Code(s, i, n))
    <1> DEFINE b == SubSeq(s, i, i + n - 1)
    <1>0. i \in Nat /\ i + n - 1 <= Len(s) /\ Code(s, i, n) \in Int
        BY LenProperties, CharIsScalar, CharInside
    <1>1. \A k \in i .. (i + n - 1) : s[k] \in Byte
        <2>1. \A k \in i .. (i + n - 1) : k - i \in 0 .. (n - 1) /\ i + (k - i) = k
            BY <1>0
        <2> QED BY <1>0, <2>1, CharInside
    <1>2. /\ b \in Seq(Byte)
          /\ Len(b) = IF i <= i + n - 1 THEN (i + n - 1) - i + 1 ELSE 0
          /\ \A k \in 1 .. ((i + n - 1) - i + 1) : b[k] = s[i + k - 1]
        BY <1>0, <1>1, SubSeqProperties
    <1> HIDE DEF b
    <1>3. Len(b) = n
        BY <1>0, <1>2
    <1>4. ASSUME NEW k \in 0 .. (n - 1) PROVE s[i + k] = b[1 + k]
        <2>1. 1 + k \in 1 .. ((i + n - 1) - i + 1) /\ i + (1 + k) - 1 = i + k
            BY <1>0
        <2>2. b[1 + k] = s[i + (1 + k) - 1]
            BY <1>2, <2>1
        <2> QED BY <2>1, <2>2
    <1>5. Char(b, 1, n) /\ Code(b, 1, n) = Code(s, i, n)
        <2>1. 1 \in 1 .. Len(b) /\ 1 + n - 1 <= Len(b)
            BY <1>3
        <2> QED BY <1>2, <1>4, <2>1, CharMoves
    <1> QED BY <1>2, <1>3, <1>5 DEF Encodes, b

-----------------------------------------------------------------------------
(* Code units, by UnicodeText.                                             *)
UnitsOf(c) == Unicode!Units(c)
IsText(u) == Unicode!IsText(u)
Nothing == Unicode!NoMeaning

(* The code units of one character.                                        *)
LEMMA UnitsAre ==
    ASSUME NEW c \in Scalars
    PROVE  \/ c \notin HighSurrogate \cup LowSurrogate /\ UnitsOf(c) = <<c>> /\ c \in Nat
           \/ \E h \in HighSurrogate, l \in LowSurrogate : UnitsOf(c) = <<h, l>>
    <1>1. c \in Nat /\ c <= 1114111 /\ c \notin HighSurrogate \cup LowSurrogate
        BY DEF Scalars, CodePoints
    <1>2. CASE c < 65536
        BY <1>1, <1>2 DEF UnitsOf, Unicode!Units
    <1>3. CASE ~ (c < 65536)
        <2>1. PICK d \in Nat : d = c - 65536
            BY <1>1, <1>3
        <2>2. /\ d % 1024 \in 0 .. (1024 - 1) /\ d \div 1024 \in Nat
              /\ d = 1024 * (d \div 1024) + (d % 1024)
            <3>1. 1024 \in Nat \ {0}
                OBVIOUS
            <3> QED BY <3>1, DivMod
        <2>3. PICK q \in Nat : q = d \div 1024
            BY <2>2
        <2>4. PICK r \in Nat : r = d % 1024 /\ r <= 1023
            BY <2>2, SMT
        <2>5. d = 1024 * q + r
            BY <2>2, <2>3, <2>4
        <2>6. q <= 1023
            BY <1>1, <2>1, <2>5, SMT
        <2>7. 55296 + q \in HighSurrogate /\ 56320 + r \in LowSurrogate
            BY <2>6, <2>4, SurrogatesAre, SMT
        <2>8. UnitsOf(c) = <<55296 + q, 56320 + r>>
            BY <1>3, <2>1, <2>3, <2>4, SMT DEF UnitsOf, Unicode!Units
        <2>9. PICK h \in HighSurrogate, l \in LowSurrogate : h = 55296 + q /\ l = 56320 + r
            BY <2>7
        <2> QED BY <2>8, <2>9
    <1> QED BY <1>2, <1>3

(* The two halves of a pair are the units of the code point they make.     *)
LEMMA UnitsOfPair ==
    ASSUME NEW h \in HighSurrogate, NEW l \in LowSurrogate
    PROVE  Paired(h, l) \in Scalars /\ UnitsOf(Paired(h, l)) = <<h, l>>
    <1>1. h \in Nat /\ l \in Nat /\ 55296 <= h /\ h <= 56319 /\ 56320 <= l /\ l <= 57343
        BY SurrogatesAre, SMT
    <1>2. PICK q \in Nat : q = h - 55296
        BY <1>1
    <1>3. PICK r \in Nat : r = l - 56320
        BY <1>1
    <1>4. h = 55296 + q /\ l = 56320 + r /\ q <= 1023 /\ r <= 1023
        BY <1>1, <1>2, <1>3, SMT
    <1>5. PICK c \in Nat : c = Paired(h, l)
        BY PairIsCodePoint
    <1>6. 65536 <= c /\ c <= 1114111 /\ c - 65536 = q * 1024 + r
        BY <1>4, <1>5, SMT DEF Paired
    <1>7. c \in Scalars
        BY <1>6, SurrogatesAre, SMT DEF Scalars, CodePoints
    <1>8. (q * 1024 + r) \div 1024 = q /\ (q * 1024 + r) % 1024 = r
        <2>1. 1024 \in Nat \ {0} /\ r < 1024
            BY <1>4
        <2> QED BY <2>1, DivUnique
    <1>9. UnitsOf(c) = <<55296 + q, 56320 + r>>
        <2>1. ~ (c < 65536)
            BY <1>6, SMT
        <2> QED BY <1>6, <1>8, <2>1, SMT DEF UnitsOf, Unicode!Units
    <1> QED BY <1>4, <1>5, <1>7, <1>9

(* Unit k of u is no stray surrogate and means something.                  *)
Sound(u, k) ==
    /\ u[k] # -1
    /\ u[k] \in HighSurrogate => k < Len(u) /\ u[k + 1] \in LowSurrogate
    /\ u[k] \in LowSurrogate => k > 1 /\ u[k - 1] \in HighSurrogate

(* A text has none but sound units.                                        *)
LEMMA TextIsSound ==
    ASSUME NEW u \in Seq(Int)
    PROVE  IsText(u) <=> \A k \in 1 .. Len(u) : Sound(u, k)
    <1>1. Unicode!High = HighSurrogate /\ Unicode!Low = LowSurrogate
        BY UnicodeSurrogates
    <1>2. DOMAIN u = 1 .. Len(u)
        BY LenProperties
    <1> QED BY <1>1, <1>2, Zenon DEF IsText, Unicode!IsText, Sound

(* A character is a text.                                                  *)
LEMMA UnitsAreText ==
    ASSUME NEW c \in Scalars
    PROVE  UnitsOf(c) \in Seq(Int) /\ IsText(UnitsOf(c))
    <1>1. ASSUME c \notin HighSurrogate \cup LowSurrogate, UnitsOf(c) = <<c>>, c \in Nat
          PROVE  UnitsOf(c) \in Seq(Int) /\ IsText(UnitsOf(c))
        <2> DEFINE u == UnitsOf(c)
        <2>1. u \in Seq(Int) /\ Len(u) = 1 /\ u[1] = c
            BY <1>1
        <2> HIDE DEF u
        <2>2. c # -1
            BY <1>1
        <2>3. Sound(u, 1)
            BY <1>1, <2>1, <2>2, Zenon DEF Sound
        <2>4. \A k \in 1 .. Len(u) : k = 1
            BY <2>1
        <2>5. IsText(u)
            BY <2>1, <2>3, <2>4, TextIsSound
        <2> QED BY <2>1, <2>5 DEF u
    <1>2. ASSUME NEW h \in HighSurrogate, NEW l \in LowSurrogate, UnitsOf(c) = <<h, l>>
          PROVE  UnitsOf(c) \in Seq(Int) /\ IsText(UnitsOf(c))
        <2> DEFINE u == UnitsOf(c)
        <2>1. h \in Nat /\ l \in Nat
            BY SurrogatesAre, SMT
        <2>2. u \in Seq(Int) /\ Len(u) = 2 /\ u[1] = h /\ u[2] = l
            BY <1>2, <2>1
        <2> HIDE DEF u
        <2>3. h \notin LowSurrogate /\ l \notin HighSurrogate
            BY SurrogatesDiffer
        <2>4. h # -1 /\ l # -1
            BY <2>1
        <2>5. 1 < Len(u) /\ 1 + 1 = 2 /\ 2 > 1 /\ 2 - 1 = 1
            BY <2>2
        <2>6. Sound(u, 1)
            BY <2>2, <2>3, <2>4, <2>5, Zenon DEF Sound
        <2>7. Sound(u, 2)
            BY <2>2, <2>3, <2>4, <2>5, Zenon DEF Sound
        <2>8. \A k \in 1 .. Len(u) : k = 1 \/ k = 2
            BY <2>2
        <2>9. IsText(u)
            BY <2>2, <2>6, <2>7, <2>8, TextIsSound
        <2> QED BY <2>2, <2>9 DEF u
    <1> QED BY <1>1, <1>2, UnitsAre, Zenon

(* Two texts, one behind the other, are a text.                            *)
LEMMA TextsConcat ==
    ASSUME NEW a \in Seq(Int), NEW b \in Seq(Int), IsText(a), IsText(b)
    PROVE  a \o b \in Seq(Int) /\ IsText(a \o b)
    <1> DEFINE u == a \o b
    <1>1. /\ u \in Seq(Int) /\ Len(u) = Len(a) + Len(b)
          /\ \A i \in 1 .. (Len(a) + Len(b)) :
                u[i] = IF i <= Len(a) THEN a[i] ELSE b[i - Len(a)]
        BY ConcatProperties
    <1>2. PICK m \in Nat, n \in Nat : m = Len(a) /\ n = Len(b)
        BY LenProperties
    <1>3. \A i \in 1 .. (m + n) : u[i] = IF i <= m THEN a[i] ELSE b[i - m]
        BY <1>1, <1>2
    <1> HIDE DEF u
    <1>4. \A i \in 1 .. m : u[i] = a[i]
        BY <1>1, <1>2
    <1>5. \A i \in 1 .. n : u[m + i] = b[i]
        <2> TAKE i \in 1 .. n
        <2>1. m + i \in 1 .. (m + n) /\ ~ (m + i <= m) /\ m + i - m = i
            OBVIOUS
        <2> QED BY <1>3, <2>1
    <1>6. (\A k \in 1 .. m : Sound(a, k)) /\ (\A k \in 1 .. n : Sound(b, k))
        BY <1>2, TextIsSound
    <1>7. ASSUME NEW k \in 1 .. m PROVE Sound(u, k)
        <2>1. Sound(a, k) /\ u[k] = a[k]
            BY <1>4, <1>6
        <2>2. u[k] \in HighSurrogate => k < Len(u) /\ u[k + 1] \in LowSurrogate
            <3> SUFFICES ASSUME u[k] \in HighSurrogate
                         PROVE  k < Len(u) /\ u[k + 1] \in LowSurrogate
                OBVIOUS
            <3>1. k < m /\ a[k + 1] \in LowSurrogate
                BY <1>2, <2>1 DEF Sound
            <3>2. k + 1 \in 1 .. m /\ k < m + n
                BY <3>1
            <3> QED BY <1>1, <1>2, <1>4, <3>1, <3>2
        <2>3. u[k] \in LowSurrogate => k > 1 /\ u[k - 1] \in HighSurrogate
            <3> SUFFICES ASSUME u[k] \in LowSurrogate
                         PROVE  k > 1 /\ u[k - 1] \in HighSurrogate
                OBVIOUS
            <3>1. k > 1 /\ a[k - 1] \in HighSurrogate
                BY <2>1 DEF Sound
            <3>2. k - 1 \in 1 .. m
                BY <3>1
            <3> QED BY <1>4, <3>1, <3>2
        <2> QED BY <2>1, <2>2, <2>3 DEF Sound
    <1>8. ASSUME NEW j \in 1 .. n PROVE Sound(u, m + j)
        <2>1. Sound(b, j) /\ u[m + j] = b[j]
            BY <1>5, <1>6
        <2>2. u[m + j] \in HighSurrogate => m + j < Len(u) /\ u[m + j + 1] \in LowSurrogate
            <3> SUFFICES ASSUME u[m + j] \in HighSurrogate
                         PROVE  m + j < Len(u) /\ u[m + j + 1] \in LowSurrogate
                OBVIOUS
            <3>1. j < n /\ b[j + 1] \in LowSurrogate
                BY <1>2, <2>1 DEF Sound
            <3>2. j + 1 \in 1 .. n /\ m + (j + 1) = m + j + 1 /\ m + j < m + n
                BY <3>1
            <3>3. u[m + j + 1] = b[j + 1]
                BY <1>5, <3>2
            <3>4. m + j < Len(u)
                BY <1>1, <1>2, <3>2
            <3> QED BY <3>1, <3>3, <3>4
        <2>3. u[m + j] \in LowSurrogate => m + j > 1 /\ u[m + j - 1] \in HighSurrogate
            <3> SUFFICES ASSUME u[m + j] \in LowSurrogate
                         PROVE  m + j > 1 /\ u[m + j - 1] \in HighSurrogate
                OBVIOUS
            <3>1. j > 1 /\ b[j - 1] \in HighSurrogate
                BY <2>1 DEF Sound
            <3>2. j - 1 \in 1 .. n /\ m + (j - 1) = m + j - 1 /\ m + j > 1
                BY <3>1
            <3> QED BY <1>5, <3>1, <3>2
        <2> QED BY <2>1, <2>2, <2>3 DEF Sound
    <1>9. \A k \in 1 .. Len(u) : Sound(u, k)
        <2> SUFFICES ASSUME NEW k \in 1 .. (m + n) PROVE Sound(u, k)
            BY <1>1, <1>2
        <2>1. CASE k \in 1 .. m
            BY <1>7, <2>1
        <2>2. CASE k \notin 1 .. m
            <3>1. k - m \in 1 .. n /\ m + (k - m) = k
                BY <2>2
            <3> QED BY <1>8, <3>1
        <2> QED BY <2>1, <2>2
    <1>10. IsText(u)
        BY <1>1, <1>9, TextIsSound
    <1> QED BY <1>1, <1>10 DEF u

(* What starts with a unit without meaning, or with half a pair.           *)
Spoils(b) ==
    /\ Len(b) >= 1
    /\ \/ b[1] = -1
       \/ b[1] \in LowSurrogate
       \/ b[1] \in HighSurrogate /\ ~ (Len(b) > 1 /\ b[2] \in LowSurrogate)

(* That makes no text, whatever is in front of it.                         *)
LEMMA SpoiledText ==
    ASSUME NEW a \in Seq(Int), NEW b \in Seq(Int), IsText(a), Spoils(b)
    PROVE  ~IsText(a \o b)
    <1> DEFINE u == a \o b
    <1>1. /\ u \in Seq(Int) /\ Len(u) = Len(a) + Len(b)
          /\ \A i \in 1 .. (Len(a) + Len(b)) :
                u[i] = IF i <= Len(a) THEN a[i] ELSE b[i - Len(a)]
        BY ConcatProperties
    <1>2. PICK m \in Nat, n \in Nat : m = Len(a) /\ n = Len(b)
        BY LenProperties
    <1>3. \A i \in 1 .. (m + n) : u[i] = IF i <= m THEN a[i] ELSE b[i - m]
        BY <1>1, <1>2
    <1>4. n >= 1
        BY <1>2 DEF Spoils
    <1> HIDE DEF u
    <1> SUFFICES ASSUME IsText(u) PROVE FALSE
        BY DEF u
    <1>5. Sound(u, m + 1)
        <2>1. m + 1 \in 1 .. (m + n)
            BY <1>4
        <2> QED BY <1>1, <1>2, <2>1, TextIsSound
    <1>6. u[m + 1] = b[1]
        <2>1. m + 1 \in 1 .. (m + n) /\ ~ (m + 1 <= m) /\ m + 1 - m = 1
            BY <1>4
        <2> QED BY <1>3, <2>1
    <1>7. b[1] # -1
        BY <1>5, <1>6 DEF Sound
    <1>8. b[1] \notin LowSurrogate
        <2> SUFFICES ASSUME b[1] \in LowSurrogate PROVE FALSE
            OBVIOUS
        <2>1. m + 1 > 1 /\ u[m + 1 - 1] \in HighSurrogate
            BY <1>5, <1>6 DEF Sound
        <2>2. m \in 1 .. m /\ m + 1 - 1 = m /\ m \in 1 .. (m + n)
            BY <2>1
        <2>3. u[m] = a[m]
            BY <1>1, <1>2, <2>2
        <2>4. Sound(a, m)
            BY <1>2, <2>2, TextIsSound
        <2>5. m < m
            BY <1>2, <2>1, <2>2, <2>3, <2>4 DEF Sound
        <2> QED BY <2>5
    <1>9. b[1] \in HighSurrogate => n > 1 /\ b[2] \in LowSurrogate
        <2> SUFFICES ASSUME b[1] \in HighSurrogate PROVE n > 1 /\ b[2] \in LowSurrogate
            OBVIOUS
        <2>1. m + 1 < Len(u) /\ u[m + 1 + 1] \in LowSurrogate
            BY <1>5, <1>6 DEF Sound
        <2>2. n > 1
            BY <1>1, <1>2, <2>1
        <2>3. m + 1 + 1 \in 1 .. (m + n) /\ ~ (m + 1 + 1 <= m) /\ m + 1 + 1 - m = 2
            BY <2>2
        <2>4. u[m + 1 + 1] = b[2]
            BY <1>3, <2>3
        <2> QED BY <2>1, <2>2, <2>4
    <1> QED BY <1>2, <1>7, <1>8, <1>9 DEF Spoils

-----------------------------------------------------------------------------
(* Where a rest of s begins.                                               *)
Suffixes(s) == 1 .. (Len(s) + 1)

(* What is read at i, with what follows as f says.                         *)
Follow(s, i, f) ==
    IF \E n \in 1 .. 4 : Char(s, i, n)
    THEN LET n == CHOOSE n \in 1 .. 4 : Char(s, i, n)
         IN  UnitsOf(Code(s, i, n)) \o f[i + n]
    ELSE Nothing

(* It is the one character there, if there is one.                         *)
LEMMA FollowMeans ==
    ASSUME NEW s, NEW i, NEW f
    PROVE  /\ \A n \in 1 .. 4 : Char(s, i, n) =>
                 Follow(s, i, f) = UnitsOf(Code(s, i, n)) \o f[i + n]
           /\ (\A n \in 1 .. 4 : ~Char(s, i, n)) => Follow(s, i, f) = Nothing
    <1>1. ASSUME NEW n \in 1 .. 4, Char(s, i, n)
          PROVE  Follow(s, i, f) = UnitsOf(Code(s, i, n)) \o f[i + n]
        <2>1. (CHOOSE m \in 1 .. 4 : Char(s, i, m)) = n
            BY <1>1, CharIsOne
        <2> QED BY <1>1, <2>1, Zenon DEF Follow
    <1> QED BY <1>1, Zenon DEF Follow

(* The recurrence of OfUtf8.                                               *)
Read(s, i, f) == IF i > Len(s) THEN <<>> ELSE Follow(s, i, f)
IsReading(s, f) == f = [i \in Suffixes(s) |-> Read(s, i, f)]

(* The recurrence of Spelled.                                              *)
Spell(s, i, f) ==
    IF i > Len(s) \/ (i \in DOMAIN s /\ s[i] < 32) THEN Nothing
    ELSE IF s[i] = 34 THEN <<>>
    ELSE IF s[i] # 92 THEN Follow(s, i, f)
    ELSE IF i = Len(s) THEN Nothing
    ELSE IF s[i + 1] \in ShortEscape THEN <<Meaning(s[i + 1])>> \o f[i + 2]
    ELSE IF s[i + 1] = 117 /\ HasHex4(s, i + 2) THEN <<Hex4(s, i + 2)>> \o f[i + 6]
    ELSE Nothing
IsSpelling(s, f) == f = [i \in Suffixes(s) |-> Spell(s, i, f)]

(* The functions that are defined by them.                                 *)
Reading(s) == CHOOSE f : IsReading(s, f)
Spelling(s) == CHOOSE f : IsSpelling(s, f)

(* OfUtf8 is the first of them, from the first byte on.                    *)
LEMMA OfUtf8IsReading ==
    ASSUME NEW s
    PROVE  Unicode!OfUtf8(s) = Reading(s)[1]
    BY Zenon DEF Reading, IsReading, Read, Follow, Suffixes, Char, Code, UnitsOf, Nothing,
                 Unicode!OfUtf8, Unicode!CharacterUnits

(* The recurrence of Spelled as it is written there: the escapes of one    *)
(* letter are the pairs of a set.                                          *)
OneByte == {<<34, 34>>, <<92, 92>>, <<47, 47>>, <<98, 8>>, <<102, 12>>,
            <<110, 10>>, <<114, 13>>, <<116, 9>>}
RawSpell(s, i, f) ==
            IF i > Len(s) \/ (i \in DOMAIN s /\ s[i] < 32) THEN Nothing
            ELSE IF s[i] = 34 THEN <<>>
            ELSE IF s[i] # 92 THEN Follow(s, i, f)
            ELSE IF i = Len(s) THEN Nothing
            ELSE IF \E e \in OneByte : e[1] = s[i + 1]
                THEN <<(CHOOSE e \in OneByte : e[1] = s[i + 1])[2]>> \o f[i + 2]
            ELSE IF s[i + 1] = 117 /\ HasHex4(s, i + 2)
                THEN <<Hex4(s, i + 2)>> \o f[i + 6]
            ELSE Nothing

(* The pairs are those of JsonStrings.                                     *)
LEMMA OneByteMeans ==
    ASSUME NEW b
    PROVE  /\ (\E e \in OneByte : e[1] = b) <=> b \in ShortEscape
           /\ b \in ShortEscape => (CHOOSE e \in OneByte : e[1] = b)[2] = Meaning(b)
    <1>1. \A e \in OneByte : e[1] \in ShortEscape /\ e[2] = Meaning(e[1])
        BY SMT DEF OneByte, ShortEscape, Meaning
    <1>2. ASSUME b \in ShortEscape PROVE \E e \in OneByte : e[1] = b
        <2>1. ASSUME NEW x, NEW y, <<x, y>> \in OneByte, b = x
              PROVE  \E e \in OneByte : e[1] = b
            <3>1. <<x, y>>[1] = b
                BY <2>1
            <3> QED BY <2>1, <3>1, Zenon
        <2>2. /\ <<34, 34>> \in OneByte /\ <<92, 92>> \in OneByte
              /\ <<47, 47>> \in OneByte /\ <<98, 8>> \in OneByte
              /\ <<102, 12>> \in OneByte /\ <<110, 10>> \in OneByte
              /\ <<114, 13>> \in OneByte /\ <<116, 9>> \in OneByte
            BY DEF OneByte
        <2>3. b = 34 \/ b = 92 \/ b = 47 \/ b = 98 \/ b = 102 \/ b = 110 \/ b = 114 \/ b = 116
            BY <1>2 DEF ShortEscape
        <2> HIDE DEF OneByte
        <2> QED BY <2>1, <2>2, <2>3
    <1> HIDE DEF OneByte
    <1>3. ASSUME b \in ShortEscape
          PROVE  (CHOOSE e \in OneByte : e[1] = b)[2] = Meaning(b)
        <2>1. PICK e \in OneByte : e = (CHOOSE d \in OneByte : d[1] = b) /\ e[1] = b
            BY <1>2, <1>3, Zenon
        <2> QED BY <1>1, <2>1
    <1> QED BY <1>1, <1>2, <1>3

(* So both recurrences are the same.                                       *)
LEMMA RawSpellIsSpell ==
    ASSUME NEW s, NEW i, NEW f
    PROVE  RawSpell(s, i, f) = Spell(s, i, f)
    <1> DEFINE short == \E e \in OneByte : e[1] = s[i + 1]
               meaning == (CHOOSE e \in OneByte : e[1] = s[i + 1])[2]
    <1>1. short <=> s[i + 1] \in ShortEscape
        BY OneByteMeans
    <1>2. short => meaning = Meaning(s[i + 1])
        BY OneByteMeans
    <1>3. RawSpell(s, i, f) =
            IF i > Len(s) \/ (i \in DOMAIN s /\ s[i] < 32) THEN Nothing
            ELSE IF s[i] = 34 THEN <<>>
            ELSE IF s[i] # 92 THEN Follow(s, i, f)
            ELSE IF i = Len(s) THEN Nothing
            ELSE IF short THEN <<meaning>> \o f[i + 2]
            ELSE IF s[i + 1] = 117 /\ HasHex4(s, i + 2)
                THEN <<Hex4(s, i + 2)>> \o f[i + 6]
            ELSE Nothing
        BY Zenon DEF RawSpell
    <1> HIDE DEF short, meaning
    <1>4. CASE short
        BY <1>1, <1>2, <1>3, <1>4, Zenon DEF Spell
    <1>5. CASE ~short
        BY <1>1, <1>3, <1>5, Zenon DEF Spell
    <1> QED BY <1>4, <1>5

(* Spelled is the second of the functions, from the first byte on.         *)
LEMMA SpelledIsSpelling ==
    ASSUME NEW s
    PROVE  Unicode!Spelled(s, HasHex4, Hex4) = Spelling(s)[1]
    <1> DEFINE raw == CHOOSE f : f = [i \in Suffixes(s) |-> RawSpell(s, i, f)]
    <1>1. Unicode!Spelled(s, HasHex4, Hex4) = raw[1]
        BY Zenon DEF RawSpell, Follow, Suffixes, Char, Code, UnitsOf, Nothing, OneByte,
                     Unicode!Spelled, Unicode!CharacterUnits
    <1>2. \A f : [i \in Suffixes(s) |-> RawSpell(s, i, f)] = [i \in Suffixes(s) |-> Spell(s, i, f)]
        BY RawSpellIsSpell
    <1>3. raw = Spelling(s)
        BY <1>2, Zenon DEF Spelling, IsSpelling
    <1> QED BY <1>1, <1>3

(* What stands for bytes without a meaning.                                *)
LEMMA NothingIs == Nothing = <<-1>> /\ Nothing \in Seq(Int) /\ <<>> \in Seq(Int)
    BY DEF Nothing, Unicode!NoMeaning

(* Where the text goes on behind the character at i, or 0.                 *)
Behind(s, i) ==
    IF i <= Len(s) /\ \E n \in 1 .. 4 : Char(s, i, n)
    THEN i + (CHOOSE n \in 1 .. 4 : Char(s, i, n)) ELSE 0
(* The units of that character.                                            *)
UnitsAt(s, i) ==
    IF Behind(s, i) = 0 THEN Nothing ELSE UnitsOf(Code(s, i, Behind(s, i) - i))

(* With these, what is read at i is a link of a chain (NumeralTheorems).   *)
LEMMA BehindMeans ==
    ASSUME NEW s \in Seq(Byte), NEW i \in 1 .. Len(s), NEW f
    PROVE  /\ Behind(s, i) = 0 \/ Behind(s, i) \in (i + 1) .. (Len(s) + 1)
           /\ UnitsAt(s, i) \in Seq(Int)
           /\ Follow(s, i, f) = IF Behind(s, i) = 0 THEN UnitsAt(s, i)
                                ELSE UnitsAt(s, i) \o f[Behind(s, i)]
    <1>0. PICK l \in Nat : l = Len(s) /\ i \in Nat /\ i <= l /\ 1 <= i
        BY LenProperties
    <1>1. CASE \A n \in 1 .. 4 : ~Char(s, i, n)
        <2>1. Behind(s, i) = 0
            BY <1>1, Zenon DEF Behind
        <2>2. Follow(s, i, f) = Nothing
            BY <1>1, FollowMeans
        <2>3. UnitsAt(s, i) = Nothing
            BY <2>1 DEF UnitsAt
        <2> QED BY <2>1, <2>2, <2>3, NothingIs
    <1>2. ASSUME NEW n \in 1 .. 4, Char(s, i, n)
          PROVE  /\ Behind(s, i) = 0 \/ Behind(s, i) \in (i + 1) .. (Len(s) + 1)
                 /\ UnitsAt(s, i) \in Seq(Int)
                 /\ Follow(s, i, f) = IF Behind(s, i) = 0 THEN UnitsAt(s, i)
                                      ELSE UnitsAt(s, i) \o f[Behind(s, i)]
        <2>1. (CHOOSE m \in 1 .. 4 : Char(s, i, m)) = n
            BY <1>2, CharIsOne
        <2>2. Behind(s, i) = i + n
            BY <1>0, <1>2, <2>1 DEF Behind
        <2>3. Code(s, i, n) \in Scalars /\ i + n - 1 <= l
            BY <1>0, <1>2, CharIsScalar
        <2>4. i + n # 0 /\ i + n - i = n /\ i + n \in (i + 1) .. (l + 1)
            BY <1>0, <2>3
        <2>5. UnitsAt(s, i) = UnitsOf(Code(s, i, n))
            BY <2>2, <2>4 DEF UnitsAt
        <2>6. Follow(s, i, f) = UnitsOf(Code(s, i, n)) \o f[i + n]
            BY <1>2, FollowMeans
        <2> QED BY <1>0, <2>2, <2>3, <2>4, <2>5, <2>6, UnitsAreText
    <1> QED BY <1>1, <1>2

(* The whole of what OfUtf8 computes.                                      *)
Reads(s, f) ==
    /\ f \in [Suffixes(s) -> Seq(Int)]
    /\ f[Len(s) + 1] = <<>>
    /\ \A i \in 1 .. Len(s) : f[i] = Follow(s, i, f)

(* There is such a function, since the rest that is read is shorter.       *)
LEMMA ReadingReads ==
    ASSUME NEW s \in Seq(Byte)
    PROVE  Reads(s, Reading(s))
    <1>0. PICK l \in Nat : l = Len(s)
        BY LenProperties
    <1> DEFINE b == l + 1
               next == [i \in 1 .. b |-> IF i = b THEN 0 ELSE Behind(s, i)]
               head == [i \in 1 .. b |-> IF i = b THEN <<>> ELSE UnitsAt(s, i)]
    <1>1. Suffixes(s) = 1 .. b /\ b \in Nat
        BY <1>0 DEF Suffixes
    <1>2. \A i \in 1 .. b : i = b \/ i \in 1 .. Len(s)
        BY <1>0
    <1>3. AreLinks(b, Int, head, next)
        <2>1. ASSUME NEW i \in 1 .. b
              PROVE  (next[i] = 0 \/ next[i] \in (i + 1) .. b) /\ head[i] \in Seq(Int)
            <3>1. CASE i = b
                BY <3>1, NothingIs
            <3>2. CASE i # b
                <4>1. i \in 1 .. Len(s)
                    BY <1>2, <3>2
                <4>2. next[i] = Behind(s, i) /\ head[i] = UnitsAt(s, i)
                    BY <3>2
                <4> QED BY <1>0, <4>1, <4>2, BehindMeans
            <3> QED BY <3>1, <3>2
        <2>2. head \in [1 .. b -> Seq(Int)]
            BY <2>1
        <2> HIDE DEF head, next, b
        <2> QED BY <2>1, <2>2 DEF AreLinks
    <1>4. ASSUME NEW f, NEW i \in 1 .. b PROVE Read(s, i, f) = Link(head, next, f, i)
        <2>1. CASE i = b
            <3>1. i > Len(s)
                BY <1>0, <2>1
            <3>2. next[i] = 0 /\ head[i] = <<>>
                BY <2>1
            <3> HIDE DEF head, next, b
            <3> QED BY <3>1, <3>2 DEF Read, Link
        <2>2. CASE i # b
            <3>1. i \in 1 .. Len(s) /\ ~ (i > Len(s))
                BY <1>0, <2>2
            <3>2. next[i] = Behind(s, i) /\ head[i] = UnitsAt(s, i)
                BY <2>2
            <3> HIDE DEF head, next, b
            <3> QED BY <3>1, <3>2, BehindMeans DEF Read, Link
        <2> QED BY <2>1, <2>2
    <1>5. \A f : IsReading(s, f) <=> IsChain(f, b, head, next)
        <2> TAKE f
        <2>1. [i \in 1 .. b |-> Read(s, i, f)] = [i \in 1 .. b |-> Link(head, next, f, i)]
            BY <1>4
        <2> HIDE DEF head, next, b
        <2> QED BY <1>1, <2>1 DEF IsReading, IsChain
    <1> HIDE DEF head, next
    <1>6. IsReading(s, Reading(s))
        <2>1. \E f : IsReading(s, f)
            BY <1>1, <1>3, <1>5, ChainExists
        <2> QED BY <2>1, Zenon DEF Reading
    <1> DEFINE r == Reading(s)
    <1> HIDE DEF r
    <1>7. IsReading(s, r)
        BY <1>6 DEF r
    <1>8. r \in [1 .. b -> Seq(Int)]
        BY <1>1, <1>3, <1>5, <1>7, ChainIsSeqs
    <1>9. \A i \in 1 .. b : r[i] = Read(s, i, r)
        BY <1>1, <1>7 DEF IsReading
    <1>10. Reads(s, r)
        <2>1. r[Len(s) + 1] = <<>>
            BY <1>0, <1>9 DEF Read
        <2>2. \A i \in 1 .. Len(s) : r[i] = Follow(s, i, r)
            BY <1>0, <1>9 DEF Read
        <2> QED BY <1>1, <1>8, <2>1, <2>2 DEF Reads
    <1> QED BY <1>10 DEF r

(* The whole of what Spelled computes.                                     *)
Spells(s, f) ==
    /\ f \in [Suffixes(s) -> Seq(Int)]
    /\ \A i \in Suffixes(s) : f[i] = Spell(s, i, f)

(* There is one, for the same reason.                                      *)
LEMMA SpellingSpells ==
    ASSUME NEW s \in Seq(Byte)
    PROVE  Spells(s, Spelling(s))
    <1>0. PICK l \in Nat : l = Len(s)
        BY LenProperties
    <1> DEFINE b == l + 1
               next == [i \in 1 .. b |->
                    IF i > l \/ s[i] < 32 \/ s[i] = 34 THEN 0
                    ELSE IF s[i] # 92 THEN Behind(s, i)
                    ELSE IF i = l THEN 0
                    ELSE IF s[i + 1] \in ShortEscape THEN i + 2
                    ELSE IF s[i + 1] = 117 /\ HasHex4(s, i + 2) THEN i + 6
                    ELSE 0]
               head == [i \in 1 .. b |->
                    IF i > l \/ s[i] < 32 THEN Nothing
                    ELSE IF s[i] = 34 THEN <<>>
                    ELSE IF s[i] # 92 THEN UnitsAt(s, i)
                    ELSE IF i = l THEN Nothing
                    ELSE IF s[i + 1] \in ShortEscape THEN <<Meaning(s[i + 1])>>
                    ELSE IF s[i + 1] = 117 /\ HasHex4(s, i + 2) THEN <<Hex4(s, i + 2)>>
                    ELSE Nothing]
    <1>1. Suffixes(s) = 1 .. b /\ b \in Nat
        BY <1>0 DEF Suffixes
    <1>2. ASSUME NEW f, NEW i \in 1 .. b
          PROVE  /\ next[i] = 0 \/ next[i] \in (i + 1) .. b
                 /\ head[i] \in Seq(Int)
                 /\ Spell(s, i, f) = Link(head, next, f, i)
        <2> DEFINE nexti == next[i]
                   headi == head[i]
        <2>1. CASE i > l
            <3>1. next[i] = 0 /\ head[i] = Nothing
                BY <2>1
            <3>2. Spell(s, i, f) = Nothing
                BY <1>0, <2>1 DEF Spell
            <3> HIDE DEF head, next
            <3> QED BY <3>1, <3>2, NothingIs DEF Link
        <2>2. CASE i <= l
            <3>1. i \in 1 .. Len(s) /\ i \in DOMAIN s /\ ~ (i > l) /\ i \in Nat
                BY <1>0, <2>2, LenProperties
            <3>2. CASE s[i] < 32
                <4>1. next[i] = 0 /\ head[i] = Nothing
                    BY <3>2
                <4>2. Spell(s, i, f) = Nothing
                    BY <3>1, <3>2 DEF Spell
                <4> HIDE DEF head, next
                <4> QED BY <4>1, <4>2, NothingIs DEF Link
            <3>3. CASE ~ (s[i] < 32) /\ s[i] = 34
                <4>1. next[i] = 0 /\ head[i] = <<>>
                    BY <3>1, <3>3
                <4>2. Spell(s, i, f) = <<>>
                    BY <1>0, <3>1, <3>3 DEF Spell
                <4> HIDE DEF head, next
                <4> QED BY <4>1, <4>2, NothingIs DEF Link
            <3>4. CASE ~ (s[i] < 32) /\ s[i] # 34 /\ s[i] # 92
                <4>1. next[i] = Behind(s, i) /\ head[i] = UnitsAt(s, i)
                    BY <3>1, <3>4
                <4>2. Spell(s, i, f) = Follow(s, i, f)
                    BY <1>0, <3>1, <3>4 DEF Spell
                <4> HIDE DEF head, next
                <4> QED BY <1>0, <3>1, <4>1, <4>2, BehindMeans DEF Link
            <3>5. CASE ~ (s[i] < 32) /\ s[i] = 92 /\ i = l
                <4>1. next[i] = 0 /\ head[i] = Nothing
                    BY <3>1, <3>5
                <4>2. Spell(s, i, f) = Nothing
                    BY <1>0, <3>1, <3>5 DEF Spell
                <4> HIDE DEF head, next
                <4> QED BY <4>1, <4>2, NothingIs DEF Link
            <3>6. CASE ~ (s[i] < 32) /\ s[i] = 92 /\ i # l
                <4>1. /\ ~ (i > Len(s) \/ (i \in DOMAIN s /\ s[i] < 32))
                      /\ s[i] # 34 /\ ~ (s[i] # 92) /\ i # Len(s)
                    BY <1>0, <2>2, <3>6
                <4>2. CASE s[i + 1] \in ShortEscape
                    <5>1. next[i] = i + 2 /\ head[i] = <<Meaning(s[i + 1])>>
                        BY <3>1, <3>6, <4>2
                    <5>2. Spell(s, i, f) = <<Meaning(s[i + 1])>> \o f[i + 2]
                        BY <4>1, <4>2, Zenon DEF Spell
                    <5>3. i + 2 \in (i + 1) .. b /\ i + 2 # 0
                        BY <2>2, <3>1, <3>6
                    <5>4. <<Meaning(s[i + 1])>> \in Seq(Int)
                        <6>1. Meaning(s[i + 1]) \in Int
                            BY <4>2 DEF ShortEscape, Meaning
                        <6> QED BY <6>1
                    <5> HIDE DEF head, next
                    <5> QED BY <5>1, <5>2, <5>3, <5>4 DEF Link
                <4>3. CASE s[i + 1] \notin ShortEscape /\ s[i + 1] = 117 /\ HasHex4(s, i + 2)
                    <5>1. next[i] = i + 6 /\ head[i] = <<Hex4(s, i + 2)>>
                        BY <3>1, <3>6, <4>3
                    <5>2. Spell(s, i, f) = <<Hex4(s, i + 2)>> \o f[i + 6]
                        BY <4>1, <4>3, Zenon DEF Spell
                    <5>3. i + 6 \in (i + 1) .. b /\ i + 6 # 0
                        <6>1. i + 2 + 3 <= Len(s)
                            BY <4>3 DEF HasHex4
                        <6> QED BY <1>0, <3>1, <6>1
                    <5>4. <<Hex4(s, i + 2)>> \in Seq(Int)
                        <6>1. i + 2 \in Nat
                            BY <3>1
                        <6>2. Hex4(s, i + 2) \in Int
                            BY <4>3, <6>1, Hex4IsUnit
                        <6> QED BY <6>2
                    <5> HIDE DEF head, next
                    <5> QED BY <5>1, <5>2, <5>3, <5>4 DEF Link
                <4>4. CASE s[i + 1] \notin ShortEscape /\ ~ (s[i + 1] = 117 /\ HasHex4(s, i + 2))
                    <5>1. next[i] = 0 /\ head[i] = Nothing
                        BY <3>1, <3>6, <4>4
                    <5>2. Spell(s, i, f) = Nothing
                        BY <4>1, <4>4, Zenon DEF Spell
                    <5> HIDE DEF head, next
                    <5> QED BY <5>1, <5>2, NothingIs DEF Link
                <4> QED BY <4>2, <4>3, <4>4
            <3> QED BY <3>2, <3>3, <3>4, <3>5, <3>6
        <2> QED BY <2>1, <2>2
    <1>3. AreLinks(b, Int, head, next)
        <2>1. head \in [1 .. b -> Seq(Int)]
            BY <1>2
        <2> HIDE DEF head, next, b
        <2> QED BY <1>2, <2>1 DEF AreLinks
    <1>5. \A f : IsSpelling(s, f) <=> IsChain(f, b, head, next)
        <2> TAKE f
        <2> HIDE DEF head, next, b
        <2>1. [i \in 1 .. b |-> Spell(s, i, f)] = [i \in 1 .. b |-> Link(head, next, f, i)]
            BY <1>2
        <2> QED BY <1>1, <2>1 DEF IsSpelling, IsChain
    <1> HIDE DEF head, next
    <1>6. IsSpelling(s, Spelling(s))
        <2>1. \E f : IsSpelling(s, f)
            BY <1>1, <1>3, <1>5, ChainExists
        <2> QED BY <2>1, Zenon DEF Spelling
    <1> DEFINE r == Spelling(s)
    <1> HIDE DEF r
    <1>7. IsSpelling(s, r)
        BY <1>6 DEF r
    <1>8. r \in [1 .. b -> Seq(Int)]
        BY <1>1, <1>3, <1>5, <1>7, ChainIsSeqs
    <1>9. \A i \in Suffixes(s) : r[i] = Spell(s, i, r)
        BY <1>1, <1>7 DEF IsSpelling
    <1>10. Spells(s, r)
        BY <1>1, <1>8, <1>9 DEF Spells
    <1> QED BY <1>10 DEF r

-----------------------------------------------------------------------------
(* What Spelled makes of each kind of byte: of a control character,        *)
LEMMA SpellControl ==
    ASSUME NEW s \in Seq(Byte), NEW i \in 1 .. Len(s), NEW f, s[i] < 32
    PROVE  Spell(s, i, f) = Nothing
    <1>1. i \in DOMAIN s
        BY LenProperties
    <1> QED BY <1>1, Zenon DEF Spell

(* of the quotation mark,                                                  *)
LEMMA SpellQuote ==
    ASSUME NEW s \in Seq(Byte), NEW i \in 1 .. Len(s), NEW f, s[i] = 34
    PROVE  Spell(s, i, f) = <<>>
    <1>1. ~ (i > Len(s)) /\ ~ (s[i] < 32)
        BY LenProperties
    <1> QED BY <1>1, Zenon DEF Spell

(* of a character that stands for itself,                                  *)
LEMMA SpellRaw ==
    ASSUME NEW s \in Seq(Byte), NEW i \in 1 .. Len(s), NEW f,
           ~ (s[i] < 32), s[i] # 34, s[i] # 92
    PROVE  Spell(s, i, f) = Follow(s, i, f)
    <1>1. ~ (i > Len(s))
        BY LenProperties
    <1> QED BY <1>1, Zenon DEF Spell

(* and of a backslash.                                                     *)
LEMMA SpellEscape ==
    ASSUME NEW s \in Seq(Byte), NEW i \in 1 .. Len(s), NEW f, s[i] = 92
    PROVE  Spell(s, i, f) =
                 IF i = Len(s) THEN Nothing
                 ELSE IF s[i + 1] \in ShortEscape THEN <<Meaning(s[i + 1])>> \o f[i + 2]
                 ELSE IF s[i + 1] = 117 /\ HasHex4(s, i + 2)
                     THEN <<Hex4(s, i + 2)>> \o f[i + 6]
                 ELSE Nothing
    <1>1. ~ (i > Len(s)) /\ ~ (s[i] < 32) /\ s[i] # 34 /\ ~ (s[i] # 92)
        BY LenProperties
    <1> QED BY <1>1, Zenon DEF Spell

(* The first units of a sequence with something in front of it.            *)
LEMMA FirstUnits ==
    ASSUME NEW g \in Seq(Int), NEW x \in Int
    PROVE  /\ <<x>> \o g \in Seq(Int)
           /\ Len(<<x>> \o g) >= 1 /\ (<<x>> \o g)[1] = x
           /\ Len(<<x>> \o g) > 1 => Len(g) >= 1 /\ (<<x>> \o g)[2] = g[1]
    <1> DEFINE u == <<x>> \o g
    <1>1. <<x>> \in Seq(Int) /\ Len(<<x>>) = 1 /\ <<x>>[1] = x
        OBVIOUS
    <1>2. /\ u \in Seq(Int) /\ Len(u) = Len(<<x>>) + Len(g)
          /\ \A i \in 1 .. (Len(<<x>>) + Len(g)) :
                u[i] = IF i <= Len(<<x>>) THEN <<x>>[i] ELSE g[i - Len(<<x>>)]
        BY <1>1, ConcatProperties
    <1>3. PICK n \in Nat : n = Len(g)
        BY LenProperties
    <1>4. \A i \in 1 .. (1 + n) : u[i] = IF i <= 1 THEN x ELSE g[i - 1]
        BY <1>1, <1>2, <1>3
    <1>5. Len(u) = 1 + n
        BY <1>1, <1>2, <1>3
    <1> HIDE DEF u
    <1>6. u[1] = x
        BY <1>4
    <1>7. n >= 1 => u[2] = g[1]
        <2>1. 2 - 1 = 1 /\ ~ (2 <= 1)
            OBVIOUS
        <2>2. n >= 1 => 2 \in 1 .. (1 + n)
            OBVIOUS
        <2> QED BY <1>4, <2>1, <2>2
    <1>8. u \in Seq(Int)
        BY <1>2
    <1>9. Len(u) >= 1 /\ (Len(u) > 1 => n >= 1)
        BY <1>5
    <1> QED BY <1>3, <1>6, <1>7, <1>8, <1>9 DEF u

(* Two units, one after the other.                                         *)
LEMMA PairInFront ==
    ASSUME NEW g \in Seq(Int), NEW x \in Int, NEW y \in Int
    PROVE  <<x, y>> \o g = <<x>> \o (<<y>> \o g)
    <1>1. <<x>> \in Seq(Int) /\ <<y>> \in Seq(Int)
        OBVIOUS
    <1>2. (<<x>> \o <<y>>) \o g = <<x>> \o (<<y>> \o g)
        BY <1>1, ConcatAssociative
    <1>3. <<x>> \o <<y>> = <<x, y>>
        <2> DEFINE q == <<x>>
        <2>1. <<x, y>> = Append(q, y)
            OBVIOUS
        <2>2. q \in Seq(Int)
            OBVIOUS
        <2> HIDE DEF q
        <2>3. Append(q, y) = q \o <<y>>
            BY <2>2, AppendIsConcat
        <2>4. <<x, y>> = q \o <<y>>
            BY <2>1, <2>3, Zenon
        <2> QED BY <2>4 DEF q
    <1> QED BY <1>2, <1>3

(* A character does not start with the second half of a pair.              *)
LEMMA CharNotLow ==
    ASSUME NEW c \in Scalars, NEW g \in Seq(Int)
    PROVE  (UnitsOf(c) \o g)[1] \notin LowSurrogate
    <1>1. ASSUME UnitsOf(c) = <<c>>, c \notin LowSurrogate, c \in Nat
          PROVE  (UnitsOf(c) \o g)[1] \notin LowSurrogate
        <2>1. c \in Int
            BY <1>1
        <2> QED BY <1>1, <2>1, FirstUnits
    <1>2. ASSUME NEW h \in HighSurrogate, NEW l \in LowSurrogate, UnitsOf(c) = <<h, l>>
          PROVE  (UnitsOf(c) \o g)[1] \notin LowSurrogate
        <2>1. h \in Int /\ l \in Int
            BY SurrogatesAre, SMT
        <2>2. <<h, l>> \o g = <<h>> \o (<<l>> \o g)
            BY <2>1, PairInFront
        <2>4. <<l>> \o g \in Seq(Int)
            BY <2>1, FirstUnits
        <2>5. (UnitsOf(c) \o g)[1] = h
            BY <1>2, <2>1, <2>2, <2>4, FirstUnits
        <2> QED BY <2>5, SurrogatesDiffer
    <1> QED BY <1>1, <1>2, UnitsAre, Zenon

(* What stands for no character starts with none of the halves.            *)
LEMMA NothingSpoils ==
    ASSUME NEW u, u = Nothing
    PROVE  Spoils(u) /\ u[1] \notin LowSurrogate
    <1>1. u = <<-1>>
        BY NothingIs
    <1>2. Len(u) = 1 /\ u[1] = -1 /\ Len(u) >= 1
        BY <1>1
    <1>3. -1 \notin LowSurrogate
        BY SurrogatesAre, SMT
    <1> QED BY <1>2, <1>3 DEF Spoils

(* Only an escape spells the second half of a pair alone.                  *)
LEMMA LowFirst ==
    ASSUME NEW s \in Seq(Byte), NEW f, Spells(s, f), NEW j \in Suffixes(s),
           Len(f[j]) >= 1, f[j][1] \in LowSurrogate
    PROVE  HasLow(s, j)
    <1>0. PICK l \in Nat : l = Len(s) /\ j \in Nat /\ 1 <= j /\ j <= l + 1
        BY LenProperties DEF Suffixes
    <1>1. f[j] = Spell(s, j, f) /\ f[j] # Nothing
        BY NothingSpoils DEF Spells
    <1>2. j \in 1 .. Len(s)
        <2> SUFFICES ASSUME j > Len(s) PROVE FALSE
            BY <1>0
        <2>1. Spell(s, j, f) = Nothing
            BY DEF Spell
        <2> QED BY <1>1, <2>1
    <1>3. s[j] \in Byte
        BY <1>2, ElementOfSeq
    <1>4. s[j] = 92
        <2>1. ~ (s[j] < 32)
            BY <1>1, <1>2, SpellControl
        <2>2. s[j] # 34
            <3>1. s[j] = 34 => f[j] = <<>>
                BY <1>1, <1>2, SpellQuote
            <3>2. Len(<<>>) = 0 /\ ~ (0 >= 1)
                OBVIOUS
            <3> QED BY <3>1, <3>2
        <2>3. ASSUME s[j] # 92 PROVE FALSE
            <3>1. f[j] = Follow(s, j, f)
                BY <1>1, <1>2, <2>1, <2>2, <2>3, SpellRaw
            <3>2. PICK n \in 1 .. 4 : Char(s, j, n) /\ f[j] = UnitsOf(Code(s, j, n)) \o f[j + n]
                BY <1>1, <3>1, FollowMeans
            <3>3. Code(s, j, n) \in Scalars /\ j + n - 1 <= l
                BY <1>0, <1>2, <3>2, CharIsScalar
            <3>4. j + n \in 1 .. (l + 1)
                BY <1>0, <3>3
            <3>5. f[j + n] \in Seq(Int)
                BY <1>0, <3>4 DEF Spells, Suffixes
            <3> QED BY <3>2, <3>3, <3>5, CharNotLow
        <2> QED BY <2>3
    <1>5. f[j] = IF j = Len(s) THEN Nothing
                 ELSE IF s[j + 1] \in ShortEscape THEN <<Meaning(s[j + 1])>> \o f[j + 2]
                 ELSE IF s[j + 1] = 117 /\ HasHex4(s, j + 2)
                     THEN <<Hex4(s, j + 2)>> \o f[j + 6]
                 ELSE Nothing
        <2>1. Spell(s, j, f) = IF j = Len(s) THEN Nothing
                 ELSE IF s[j + 1] \in ShortEscape THEN <<Meaning(s[j + 1])>> \o f[j + 2]
                 ELSE IF s[j + 1] = 117 /\ HasHex4(s, j + 2)
                     THEN <<Hex4(s, j + 2)>> \o f[j + 6]
                 ELSE Nothing
            BY <1>2, <1>4, SpellEscape
        <2> QED BY <1>1, <2>1, Zenon
    <1>6. ASSUME j # Len(s), s[j + 1] \in ShortEscape PROVE FALSE
        <2>1. j + 2 \in 1 .. (l + 1)
            BY <1>0, <1>2, <1>6
        <2>2. f[j + 2] \in Seq(Int)
            BY <1>0, <2>1 DEF Spells, Suffixes
        <2>3. Meaning(s[j + 1]) \in Int /\ Meaning(s[j + 1]) \notin LowSurrogate
            <3>1. Meaning(s[j + 1]) \in Int /\ Meaning(s[j + 1]) <= 127
                BY <1>6 DEF ShortEscape, Meaning
            <3> QED BY <3>1, ShortsDiffer
        <2>4. f[j] = <<Meaning(s[j + 1])>> \o f[j + 2]
            BY <1>5, <1>6
        <2> QED BY <2>2, <2>3, <2>4, FirstUnits
    <1>7. /\ j # Len(s) /\ s[j + 1] = 117 /\ HasHex4(s, j + 2)
          /\ f[j] = <<Hex4(s, j + 2)>> \o f[j + 6]
        BY <1>1, <1>5, <1>6, Zenon
    <1>8. j + 2 + 3 <= Len(s)
        BY <1>7 DEF HasHex4
    <1>9. j + 6 \in 1 .. (l + 1) /\ j + 2 \in Nat /\ j + 5 <= Len(s)
        BY <1>0, <1>8
    <1>10. f[j + 6] \in Seq(Int)
        BY <1>0, <1>9 DEF Spells, Suffixes
    <1>11. Hex4(s, j + 2) \in Int
        BY <1>7, <1>9, Hex4IsUnit
    <1>12. Hex4(s, j + 2) \in LowSurrogate
        BY <1>7, <1>10, <1>11, FirstUnits
    <1> QED BY <1>4, <1>7, <1>9, <1>12 DEF HasLow, Backslash, SmallU

(* A unit that is no surrogate is a character.                             *)
LEMMA OneUnit ==
    ASSUME NEW h \in Nat, h <= 65535, h \notin HighSurrogate \cup LowSurrogate
    PROVE  h \in Scalars /\ UnitsOf(h) = <<h>>
    <1>1. h \in Scalars
        BY SMT DEF Scalars, CodePoints
    <1>2. h < 65536
        BY SMT
    <1> QED BY <1>1, <1>2 DEF UnitsOf, Unicode!Units

(* A lone half of a pair spoils what follows.                              *)
LEMMA HalfSpoils ==
    ASSUME NEW h \in Int, NEW g \in Seq(Int)
    PROVE  /\ h \in LowSurrogate => Spoils(<<h>> \o g)
           /\ h \in HighSurrogate /\ ~ (Len(g) >= 1 /\ g[1] \in LowSurrogate) =>
                 Spoils(<<h>> \o g)
    <1> DEFINE u == <<h>> \o g
    <1>1. /\ Len(u) >= 1 /\ u[1] = h
          /\ Len(u) > 1 => Len(g) >= 1 /\ u[2] = g[1]
        BY FirstUnits
    <1> HIDE DEF u
    <1>2. h \in LowSurrogate => Spoils(u)
        BY <1>1 DEF Spoils
    <1>3. h \in HighSurrogate /\ ~ (Len(g) >= 1 /\ g[1] \in LowSurrogate) => Spoils(u)
        BY <1>1 DEF Spoils
    <1> QED BY <1>2, <1>3 DEF u

-----------------------------------------------------------------------------
(* What item, decoded at i, has to do with what is spelled there.          *)
Matches(f, i, item) ==
    /\ item.used = 0 => Spoils(f[i])
    /\ item.used # 0 => \E c \in Scalars : /\ f[i] = UnitsOf(c) \o f[i + item.used]
                                           /\ Encodes(item.bytes, c)

(* What is refused must spoil the text.                                    *)
LEMMA RefusedMatches ==
    ASSUME NEW f, NEW i, Spoils(f[i])
    PROVE  Matches(f, i, Refused)
    BY DEF Matches, Refused, Item

(* What is not must be the bytes of a character.                           *)
LEMMA ItemMatches ==
    ASSUME NEW f, NEW i, NEW n \in 1 .. 12, NEW c \in Scalars, NEW b, Encodes(b, c),
           f[i] = UnitsOf(c) \o f[i + n]
    PROVE  Matches(f, i, Item(n, b))
    <1> DEFINE item == Item(n, b)
    <1>1. item.used = n /\ item.bytes = b /\ n # 0
        BY DEF Item
    <1> HIDE DEF item
    <1>2. Matches(f, i, item)
        BY <1>1, Zenon DEF Matches
    <1> QED BY <1>2 DEF item

(* What is spelled by a backslash and the letter u.                        *)
LEMMA UnitEscape ==
    ASSUME NEW s \in Seq(Byte), NEW i \in 1 .. Len(s), NEW f,
           s[i] = 92, i # Len(s), s[i + 1] = 117
    PROVE  Spell(s, i, f) = IF HasHex4(s, i + 2) THEN <<Hex4(s, i + 2)>> \o f[i + 6]
                            ELSE Nothing
    <1>1. s[i + 1] \notin ShortEscape
        BY DEF ShortEscape
    <1>2. Spell(s, i, f) =
                 IF i = Len(s) THEN Nothing
                 ELSE IF s[i + 1] \in ShortEscape THEN <<Meaning(s[i + 1])>> \o f[i + 2]
                 ELSE IF s[i + 1] = 117 /\ HasHex4(s, i + 2)
                     THEN <<Hex4(s, i + 2)>> \o f[i + 6]
                 ELSE Nothing
        BY SpellEscape
    <1> QED BY <1>1, <1>2, Zenon

(* An escape of four digits is decoded to what it spells.                  *)
LEMMA EscapeMeans ==
    ASSUME NEW s \in Seq(Byte), NEW i \in 1 .. Len(s), NEW f, Spells(s, f),
           s[i] = 92, i # Len(s), s[i + 1] = 117
    PROVE  Matches(f, i, UnicodeEscape(s, i))
    <1>0. PICK l \in Nat : l = Len(s) /\ i \in Nat /\ 1 <= i /\ i <= l
        BY LenProperties
    <1>1. f[i] = Spell(s, i, f) /\ f \in [1 .. (l + 1) -> Seq(Int)]
        <2>1. i \in Suffixes(s)
            BY <1>0 DEF Suffixes
        <2> QED BY <1>0, <2>1 DEF Spells, Suffixes
    <1>2. f[i] = IF HasHex4(s, i + 2) THEN <<Hex4(s, i + 2)>> \o f[i + 6] ELSE Nothing
        <2>1. Spell(s, i, f) = IF HasHex4(s, i + 2) THEN <<Hex4(s, i + 2)>> \o f[i + 6]
                               ELSE Nothing
            BY UnitEscape
        <2> QED BY <1>1, <2>1, Zenon
    <1>3. CASE ~HasHex4(s, i + 2)
        <2>1. Spoils(f[i])
            BY <1>2, <1>3, NothingSpoils
        <2>2. UnicodeEscape(s, i) = Refused
            BY <1>3 DEF UnicodeEscape
        <2> QED BY <2>1, <2>2, RefusedMatches
    <1>4. CASE HasHex4(s, i + 2)
        <2>1. i + 2 + 3 <= Len(s)
            BY <1>4 DEF HasHex4
        <2>2. i + 6 \in 1 .. (l + 1) /\ i + 2 \in Nat /\ i + 6 \in Nat /\ i + 8 \in Nat
            BY <1>0, <2>1
        <2>3. PICK h \in Nat : h = Hex4(s, i + 2) /\ h <= 65535
            BY <1>4, <2>2, Hex4IsUnit
        <2>4. h \in Int /\ f[i + 6] \in Seq(Int) /\ f[i] = <<h>> \o f[i + 6]
            <3>1. f[i + 6] \in Seq(Int)
                <4>1. i + 6 \in 1 .. (l + 1)
                    BY <2>2
                <4> QED BY <1>1, <4>1, Zenon
            <3>2. f[i] = <<h>> \o f[i + 6]
                <4>1. f[i] = <<Hex4(s, i + 2)>> \o f[i + 6]
                    BY <1>2, <1>4, Zenon
                <4> QED BY <2>3, <4>1
            <3> QED BY <3>1, <3>2
        <2>5. CASE h \in LowSurrogate
            <3>1. Spoils(f[i])
                BY <2>4, <2>5, HalfSpoils
            <3>2. UnicodeEscape(s, i) = Refused
                BY <2>3, <2>5 DEF UnicodeEscape
            <3> QED BY <3>1, <3>2, RefusedMatches
        <2>6. CASE h \notin LowSurrogate \cup HighSurrogate
            <3>1. UnicodeEscape(s, i) = Item(6, Utf8(h))
                BY <1>4, <2>3, <2>6 DEF UnicodeEscape
            <3>2. h \in Scalars /\ UnitsOf(h) = <<h>>
                BY <2>3, <2>6, OneUnit
            <3>3. Encodes(Utf8(h), h)
                BY <3>2, Utf8Encodes
            <3>4. f[i] = UnitsOf(h) \o f[i + 6]
                BY <2>4, <3>2
            <3>5. Matches(f, i, Item(6, Utf8(h)))
                <4> DEFINE b == Utf8(h)
                <4> HIDE DEF b
                <4>1. Encodes(b, h)
                    BY <3>3 DEF b
                <4>2. PICK n \in 1 .. 12 : n = 6
                    OBVIOUS
                <4>3. f[i] = UnitsOf(h) \o f[i + n]
                    BY <3>4, <4>2
                <4>4. Matches(f, i, Item(n, b))
                    BY <3>2, <4>1, <4>3, ItemMatches
                <4>5. Matches(f, i, Item(6, b))
                    BY <4>2, <4>4
                <4> QED BY <4>5 DEF b
            <3> QED BY <3>1, <3>5
        <2>7. CASE h \in HighSurrogate /\ ~HasLow(s, i + 6)
            <3>1. UnicodeEscape(s, i) = Refused
                BY <2>3, <2>7 DEF UnicodeEscape
            <3>2. i + 6 \in Suffixes(s)
                BY <1>0, <2>2 DEF Suffixes
            <3>3. ~ (Len(f[i + 6]) >= 1 /\ f[i + 6][1] \in LowSurrogate)
                BY <2>7, <3>2, LowFirst
            <3>4. Spoils(f[i])
                BY <2>4, <2>7, <3>3, HalfSpoils
            <3> QED BY <3>1, <3>4, RefusedMatches
        <2>8. CASE h \in HighSurrogate /\ HasLow(s, i + 6)
            <3>1. /\ i + 6 + 5 <= Len(s) /\ s[i + 6] = 92 /\ s[i + 6 + 1] = 117
                  /\ HasHex4(s, i + 6 + 2) /\ Hex4(s, i + 6 + 2) \in LowSurrogate
                BY <2>8 DEF HasLow, Backslash, SmallU
            <3>2. i + 6 + 2 = i + 8 /\ i + 6 + 6 = i + 12
                BY <1>0
            <3>3. /\ i + 6 \in 1 .. Len(s) /\ i + 6 # Len(s)
                  /\ i + 6 \in Suffixes(s) /\ i + 12 \in 1 .. (l + 1)
                BY <1>0, <3>1 DEF Suffixes
            <3>4. PICK g \in LowSurrogate : g = Hex4(s, i + 8)
                BY <3>1, <3>2
            <3>5. g \in Int
                BY SurrogatesAre, SMT
            <3>6. f[i + 6] = Spell(s, i + 6, f)
                BY <3>3 DEF Spells
            <3>7. f[i + 6] = <<g>> \o f[i + 12]
                <4>1. Spell(s, i + 6, f) = <<Hex4(s, i + 6 + 2)>> \o f[i + 6 + 6]
                    BY <3>1, <3>3, UnitEscape
                <4> QED BY <3>2, <3>4, <3>6, <4>1
            <3>8. f[i + 12] \in Seq(Int)
                BY <1>1, <3>3
            <3>9. f[i] = <<h, g>> \o f[i + 12]
                <4>1. PICK r \in Seq(Int) : r = f[i + 12]
                    BY <3>8
                <4>2. \A r1 \in Seq(Int), x, y \in Int :
                          <<x, y>> \o r1 = <<x>> \o (<<y>> \o r1)
                    BY PairInFront, Zenon
                <4>3. h \in Int
                    BY <2>4
                <4>4. <<h, g>> \o r = <<h>> \o (<<g>> \o r)
                    BY <3>5, <4>2, <4>3, Zenon
                <4> QED BY <2>4, <3>7, <4>1, <4>4, Zenon
            <3>10. PICK c \in Scalars : c = Paired(h, g) /\ UnitsOf(c) = <<h, g>>
                BY <2>8, UnitsOfPair
            <3>11. UnicodeEscape(s, i) = Item(12, Utf8(c))
                <4>1. h \notin LowSurrogate
                    BY <2>8, SurrogatesDiffer
                <4> QED BY <1>4, <2>3, <2>8, <3>4, <3>10, <4>1 DEF UnicodeEscape
            <3>12. Encodes(Utf8(c), c)
                BY Utf8Encodes
            <3>13. Matches(f, i, Item(12, Utf8(c)))
                <4>1. f[i] = UnitsOf(c) \o f[i + 12]
                    BY <3>9, <3>10, Zenon
                <4> DEFINE b == Utf8(c)
                <4> HIDE DEF b
                <4>2. Encodes(b, c)
                    BY <3>12 DEF b
                <4>3. PICK n \in 1 .. 12 : n = 12
                    OBVIOUS
                <4>4. f[i] = UnitsOf(c) \o f[i + n]
                    BY <4>1, <4>3
                <4>5. Matches(f, i, Item(n, b))
                    BY <4>2, <4>4, ItemMatches
                <4>6. Matches(f, i, Item(12, b))
                    BY <4>3, <4>5
                <4> QED BY <4>6 DEF b
            <3> QED BY <3>11, <3>13
        <2> QED BY <2>5, <2>6, <2>7, <2>8
    <1> QED BY <1>3, <1>4

(* Every item is decoded to what it spells.                                *)
LEMMA ItemMeans ==
    ASSUME NEW s \in Seq(Byte), NEW i \in 1 .. Len(s), NEW f, Spells(s, f), s[i] # 34
    PROVE  Matches(f, i, ItemAt(s, i))
    <1>0. PICK l \in Nat : l = Len(s) /\ i \in Nat /\ 1 <= i /\ i <= l
        BY LenProperties
    <1>1. f[i] = Spell(s, i, f) /\ f \in [1 .. (l + 1) -> Seq(Int)]
        <2>1. i \in Suffixes(s)
            BY <1>0 DEF Suffixes
        <2> QED BY <1>0, <2>1 DEF Spells, Suffixes
    <1>2. s[i] \in Byte
        BY ElementOfSeq
    <1>3. PICK x \in Nat : x = s[i] /\ x <= 255
        BY <1>2, BytesAre
    <1>4. Backslash = 92 /\ SmallU = 117
        BY DEF Backslash, SmallU
    <1>5. CASE x < 32
        <2>1. ItemAt(s, i) = Refused
            <3>1. x # 92 /\ x \notin (32 .. 127) \ {92}
                BY <1>5
            <3> QED BY <1>3, <1>4, <1>5, <3>1 DEF ItemAt
        <2>2. Spoils(f[i])
            <3>1. Spell(s, i, f) = Nothing
                BY <1>3, <1>5, SpellControl
            <3> QED BY <1>1, <3>1, NothingSpoils
        <2> QED BY <2>1, <2>2, RefusedMatches
    <1>6. CASE x = 92
        <2>1. ItemAt(s, i) = IF i + 1 > Len(s) THEN Refused
                             ELSE IF s[i + 1] \in ShortEscape
                                 THEN Item(2, <<Meaning(s[i + 1])>>)
                             ELSE IF s[i + 1] = SmallU THEN UnicodeEscape(s, i)
                             ELSE Refused
            BY <1>3, <1>4, <1>6 DEF ItemAt
        <2>2. f[i] = IF i = Len(s) THEN Nothing
                     ELSE IF s[i + 1] \in ShortEscape
                         THEN <<Meaning(s[i + 1])>> \o f[i + 2]
                     ELSE IF s[i + 1] = 117 /\ HasHex4(s, i + 2)
                         THEN <<Hex4(s, i + 2)>> \o f[i + 6]
                     ELSE Nothing
            <3>1. s[i] = 92
                BY <1>3, <1>6
            <3>2. Spell(s, i, f) =
                     IF i = Len(s) THEN Nothing
                     ELSE IF s[i + 1] \in ShortEscape
                         THEN <<Meaning(s[i + 1])>> \o f[i + 2]
                     ELSE IF s[i + 1] = 117 /\ HasHex4(s, i + 2)
                         THEN <<Hex4(s, i + 2)>> \o f[i + 6]
                     ELSE Nothing
                BY <3>1, SpellEscape
            <3> QED BY <1>1, <3>2, Zenon
        <2>3. i + 1 > Len(s) <=> i = Len(s)
            BY <1>0
        <2>4. CASE i = Len(s)
            BY <2>1, <2>2, <2>3, <2>4, NothingSpoils, RefusedMatches
        <2>5. CASE i # Len(s) /\ s[i + 1] \in ShortEscape
            <3>1. PICK c \in 0 .. 127 : c = Meaning(s[i + 1])
                <4>1. Meaning(s[i + 1]) \in 0 .. 127
                    BY <2>5 DEF ShortEscape, Meaning
                <4> QED BY <4>1
            <3>2. c \in Scalars /\ Encodes(<<c>>, c)
                BY AsciiEncodes
            <3>3. UnitsOf(c) = <<c>>
                BY DEF UnitsOf, Unicode!Units
            <3>4. f[i] = UnitsOf(c) \o f[i + 2] /\ 2 \in 1 .. 12
                BY <2>2, <2>5, <3>1, <3>3
            <3>5. ItemAt(s, i) = Item(2, <<c>>)
                BY <2>1, <2>3, <2>5, <3>1
            <3> QED BY <3>2, <3>4, <3>5, ItemMatches
        <2>6. CASE i # Len(s) /\ s[i + 1] \notin ShortEscape /\ s[i + 1] = 117
            <3>1. ItemAt(s, i) = UnicodeEscape(s, i)
                BY <1>4, <2>1, <2>3, <2>6
            <3>2. s[i] = 92
                BY <1>3, <1>6
            <3>3. Matches(f, i, UnicodeEscape(s, i))
                BY <2>6, <3>2, EscapeMeans
            <3> QED BY <3>1, <3>3
        <2>7. CASE i # Len(s) /\ s[i + 1] \notin ShortEscape /\ s[i + 1] # 117
            <3>1. ItemAt(s, i) = Refused /\ f[i] = Nothing
                BY <1>4, <2>1, <2>2, <2>3, <2>7
            <3> QED BY <3>1, NothingSpoils, RefusedMatches
        <2> QED BY <2>4, <2>5, <2>6, <2>7
    <1>7. CASE 32 <= x /\ x <= 127 /\ x # 92
        <2>1. ItemAt(s, i) = Item(1, <<x>>)
            <3>1. ~ (x < 32) /\ x # 92 /\ x \in (32 .. 127) \ {92}
                BY <1>7
            <3> QED BY <1>3, <1>4, <3>1 DEF ItemAt
        <2>2. Char(s, i, 1) /\ Code(s, i, 1) = x /\ 1 \in 1 .. 4
            BY <1>3, <1>7, AsciiIsChar, CodeOf
        <2>3. ~ (x < 32)
            BY <1>7
        <2>4. f[i] = Follow(s, i, f)
            <3>1. ~ (s[i] < 32) /\ s[i] # 34 /\ s[i] # 92
                BY <1>3, <1>7, <2>3
            <3>2. Spell(s, i, f) = Follow(s, i, f)
                BY <3>1, SpellRaw
            <3> QED BY <1>1, <3>2
        <2>5. f[i] = UnitsOf(x) \o f[i + 1]
            <3>1. Follow(s, i, f) = UnitsOf(Code(s, i, 1)) \o f[i + 1]
                BY <2>2, FollowMeans
            <3> QED BY <2>2, <2>4, <3>1
        <2>6. x \in 0 .. 127 /\ 1 \in 1 .. 12
            BY <1>7
        <2>7. x \in Scalars /\ Encodes(<<x>>, x)
            BY <2>6, AsciiEncodes
        <2> QED BY <2>1, <2>5, <2>6, <2>7, ItemMatches
    <1>8. CASE x > 127
        <2>1. ItemAt(s, i) = RawCharacter(s, i)
            <3>1. ~ (x < 32) /\ x # 92 /\ x \notin (32 .. 127) \ {92}
                BY <1>8
            <3> QED BY <1>3, <1>4, <3>1 DEF ItemAt
        <2>2. ~ (x < 32) /\ x # 92 /\ ~ (x <= 127)
            BY <1>8
        <2>3. f[i] = Follow(s, i, f)
            <3>1. ~ (s[i] < 32) /\ s[i] # 34 /\ s[i] # 92
                BY <1>3, <1>8, <2>2
            <3>2. Spell(s, i, f) = Follow(s, i, f)
                BY <3>1, SpellRaw
            <3> QED BY <1>1, <3>2
        <2>4. CASE Utf8Length(s, i) = 0
            <3>1. ASSUME NEW n \in 1 .. 4, Char(s, i, n) PROVE FALSE
                <4>1. n # 1
                    BY <1>3, <2>2, <3>1, AsciiIsChar
                <4>2. n \in 2 .. 4 /\ n # 0
                    BY <4>1
                <4> QED BY <2>4, <3>1, <4>2, LengthMeans
            <3>2. f[i] = Nothing
                BY <2>3, <3>1, FollowMeans
            <3>3. ItemAt(s, i) = Refused
                BY <2>1, <2>4 DEF RawCharacter
            <3> QED BY <3>2, <3>3, NothingSpoils, RefusedMatches
        <2>5. CASE Utf8Length(s, i) # 0
            <3>1. PICK n \in 2 .. 4 : n = Utf8Length(s, i)
                BY <2>5, CharacterIsWhole
            <3>2. n \in 1 .. 4 /\ n \in 1 .. 12
                OBVIOUS
            <3>3. Char(s, i, n)
                BY <3>1, LengthMeans
            <3>4. PICK c \in Scalars : c = Code(s, i, n)
                BY <3>2, <3>3, CharIsScalar
            <3>5. f[i] = UnitsOf(c) \o f[i + n]
                BY <2>3, <3>2, <3>3, <3>4, FollowMeans
            <3>6. ItemAt(s, i) = Item(n, SubSeq(s, i, i + n - 1))
                BY <2>1, <2>5, <3>1 DEF RawCharacter
            <3>7. Encodes(SubSeq(s, i, i + n - 1), c)
                BY <3>2, <3>3, <3>4, CopyEncodes
            <3> QED BY <3>2, <3>5, <3>6, <3>7, ItemMatches
        <2> QED BY <2>4, <2>5
    <1>9. x < 32 \/ x = 92 \/ (32 <= x /\ x <= 127 /\ x # 92) \/ x > 127
        OBVIOUS
    <1> QED BY <1>5, <1>6, <1>7, <1>8, <1>9

-----------------------------------------------------------------------------
(* Everything in u has a meaning.                                          *)
Whole(u) == \A k \in 1 .. Len(u) : u[k] # -1

(* Then everything in the end of u has one.                                *)
LEMMA WholeEnd ==
    ASSUME NEW a \in Seq(Int), NEW b \in Seq(Int), Whole(a \o b)
    PROVE  Whole(b)
    <1> DEFINE u == a \o b
    <1>1. /\ Len(u) = Len(a) + Len(b)
          /\ \A i \in 1 .. (Len(a) + Len(b)) :
                u[i] = IF i <= Len(a) THEN a[i] ELSE b[i - Len(a)]
        BY ConcatProperties
    <1>2. PICK m \in Nat, n \in Nat : m = Len(a) /\ n = Len(b)
        BY LenProperties
    <1>3. \A i \in 1 .. (m + n) : u[i] = IF i <= m THEN a[i] ELSE b[i - m]
        BY <1>1, <1>2
    <1>4. \A i \in 1 .. (m + n) : u[i] # -1
        BY <1>1, <1>2 DEF Whole
    <1> HIDE DEF u
    <1>5. \A k \in 1 .. n : b[k] # -1
        <2> TAKE k \in 1 .. n
        <2>1. m + k \in 1 .. (m + n) /\ ~ (m + k <= m) /\ m + k - m = k
            OBVIOUS
        <2>2. u[m + k] = b[k]
            BY <1>3, <2>1
        <2> QED BY <1>4, <2>1, <2>2, Zenon
    <1> QED BY <1>2, <1>5 DEF Whole

(* What stands for no character has none.                                  *)
LEMMA NothingIsNotWhole ==
    ASSUME NEW u, u = Nothing
    PROVE  ~Whole(u)
    <1>1. Len(u) = 1 /\ u[1] = -1
        BY NothingIs
    <1> QED BY <1>1 DEF Whole

(* The elements of two sequences, one behind the other.                    *)
LEMMA Elements ==
    ASSUME NEW a \in Seq(Byte), NEW b \in Seq(Byte)
    PROVE  /\ a \o b \in Seq(Byte) /\ Len(a \o b) = Len(a) + Len(b)
           /\ \A i \in 1 .. Len(a) : (a \o b)[i] = a[i]
           /\ \A i \in 1 .. Len(b) : (a \o b)[Len(a) + i] = b[i]
    <1> DEFINE u == a \o b
    <1>1. /\ u \in Seq(Byte) /\ Len(u) = Len(a) + Len(b)
          /\ \A i \in 1 .. (Len(a) + Len(b)) :
                u[i] = IF i <= Len(a) THEN a[i] ELSE b[i - Len(a)]
        BY ConcatProperties
    <1>2. PICK m \in Nat, n \in Nat : m = Len(a) /\ n = Len(b)
        BY LenProperties
    <1>3. \A i \in 1 .. (m + n) : u[i] = IF i <= m THEN a[i] ELSE b[i - m]
        BY <1>1, <1>2
    <1> HIDE DEF u
    <1>4. \A i \in 1 .. m : u[i] = a[i]
        BY <1>3
    <1>5. \A i \in 1 .. n : u[m + i] = b[i]
        <2> TAKE i \in 1 .. n
        <2>1. m + i \in 1 .. (m + n) /\ ~ (m + i <= m) /\ m + i - m = i
            OBVIOUS
        <2> QED BY <1>3, <2>1
    <1> QED BY <1>1, <1>2, <1>4, <1>5 DEF u

(* It does not matter which of three sequences of units are joined first.  *)
LEMMA Joined == \A p, q, r \in Seq(Int) : (p \o q) \o r = p \o (q \o r)
    <1> TAKE p, q, r \in Seq(Int)
    <1> QED BY ConcatAssociative, SMTT(30)

(* A character behind a text is read behind it.                            *)
LEMMA ReadBehind ==
    ASSUME NEW a \in Seq(Byte), NEW c \in Scalars, NEW b, Encodes(b, c),
           Whole(Reading(a)[1])
    PROVE  Reading(a \o b)[1] = Reading(a)[1] \o UnitsOf(c)
    <1> DEFINE t == a \o b
               f == Reading(a)
               g == Reading(t)
               U == UnitsOf(c)
    <1>1. PICK n \in 1 .. 4 : /\ b \in Seq(Byte) /\ Len(b) = n
                              /\ Char(b, 1, n) /\ Code(b, 1, n) = c
        BY DEF Encodes
    <1>2. PICK m \in Nat : m = Len(a)
        BY LenProperties
    <1>3. /\ t \in Seq(Byte) /\ Len(t) = m + n
          /\ \A i \in 1 .. m : t[i] = a[i]
          /\ \A i \in 1 .. n : t[m + i] = b[i]
        BY <1>1, <1>2, Elements
    <1>4. Reads(a, f) /\ Reads(t, g)
        BY <1>3, ReadingReads
    <1>5. U \in Seq(Int)
        BY UnitsAreText
    <1> HIDE DEF t, f, g, U
    <1>6. /\ f \in [1 .. (m + 1) -> Seq(Int)] /\ f[m + 1] = <<>>
          /\ \A i \in 1 .. m : f[i] = Follow(a, i, f)
        BY <1>2, <1>4 DEF Reads, Suffixes
    <1>7. /\ g[m + n + 1] = <<>>
          /\ \A i \in 1 .. (m + n) : g[i] = Follow(t, i, g)
        BY <1>3, <1>4 DEF Reads
    <1> DEFINE S == {i \in 1 .. (m + 1) : Whole(f[i]) => g[i] = f[i] \o U}
    <1>8. ASSUME NEW i \in 1 .. (m + 1), \A j \in (i + 1) .. (m + 1) : j \in S
          PROVE  i \in S
        <2> SUFFICES ASSUME Whole(f[i]) PROVE g[i] = f[i] \o U
            OBVIOUS
        <2>1. CASE i = m + 1
            <3>1. m + 1 \in 1 .. Len(t) /\ m + 1 + n - 1 <= Len(t) /\ 1 \in 1 .. Len(b)
                BY <1>1, <1>3
            <3>2. \A k \in 0 .. (n - 1) : b[1 + k] = t[m + 1 + k]
                <4> TAKE k \in 0 .. (n - 1)
                <4>1. 1 + k \in 1 .. n /\ m + (1 + k) = m + 1 + k
                    OBVIOUS
                <4> QED BY <1>3, <4>1
            <3>3. Char(t, m + 1, n) /\ Code(t, m + 1, n) = c
                BY <1>1, <1>3, <3>1, <3>2, CharMoves
            <3>4. Follow(t, m + 1, g) = UnitsOf(c) \o g[m + 1 + n]
                BY <3>3, FollowMeans
            <3>5. g[m + 1] = U \o <<>>
                <4>1. m + 1 \in 1 .. (m + n) /\ m + 1 + n = m + n + 1
                    OBVIOUS
                <4> QED BY <1>7, <3>4, <4>1 DEF U
            <3>6. U \o <<>> = U /\ <<>> \o U = U
                BY <1>5, ConcatEmptySeq
            <3> QED BY <1>6, <2>1, <3>5, <3>6
        <2>2. CASE i # m + 1
            <3>1. i \in 1 .. m /\ i \in 1 .. Len(a)
                BY <1>2, <2>2
            <3>2. f[i] = Follow(a, i, f)
                BY <1>6, <3>1
            <3>3. PICK k \in 1 .. 4 : Char(a, i, k) /\ f[i] = UnitsOf(Code(a, i, k)) \o f[i + k]
                <4>1. Follow(a, i, f) # Nothing
                    BY <3>2, NothingIsNotWhole
                <4>2. PICK k \in 1 .. 4 : Char(a, i, k)
                    BY <4>1, FollowMeans
                <4>3. Follow(a, i, f) = UnitsOf(Code(a, i, k)) \o f[i + k]
                    BY <4>2, FollowMeans
                <4> QED BY <3>2, <4>2, <4>3
            <3>4. PICK d \in Scalars : d = Code(a, i, k) /\ i + k - 1 <= m
                BY <1>2, <3>1, <3>3, CharIsScalar
            <3>5. i + k \in (i + 1) .. (m + 1) /\ i + k \in 1 .. (m + 1)
                BY <3>4
            <3>6. f[i + k] \in Seq(Int) /\ UnitsOf(d) \in Seq(Int)
                BY <1>6, <3>5, UnitsAreText
            <3>7. Whole(f[i + k])
                BY <3>3, <3>4, <3>6, WholeEnd
            <3>8. g[i + k] = f[i + k] \o U
                BY <1>8, <3>5, <3>7
            <3>9. Char(t, i, k) /\ Code(t, i, k) = d
                <4>1. i \in 1 .. Len(t) /\ i + k - 1 <= Len(t)
                    BY <1>3, <3>1, <3>4
                <4>2. \A x \in 0 .. (k - 1) : a[i + x] = t[i + x]
                    <5> TAKE x \in 0 .. (k - 1)
                    <5>1. i + x \in 1 .. m
                        BY <3>1, <3>4
                    <5> QED BY <1>3, <5>1
                <4> QED BY <1>3, <3>1, <3>3, <3>4, <4>1, <4>2, CharMoves
            <3>10. Follow(t, i, g) = UnitsOf(d) \o g[i + k]
                BY <3>9, FollowMeans
            <3>11. g[i] = UnitsOf(d) \o (f[i + k] \o U)
                <4>1. i \in 1 .. (m + n)
                    BY <3>1
                <4> QED BY <1>7, <3>8, <3>10, <4>1
            <3>12. (UnitsOf(d) \o f[i + k]) \o U = UnitsOf(d) \o (f[i + k] \o U)
                BY <1>5, <3>6, Joined, Zenon
            <3> QED BY <3>3, <3>4, <3>11, <3>12
        <2> QED BY <2>1, <2>2
    <1> HIDE DEF S
    <1>9. \A i \in 1 .. (m + 1) : i \in S
        <2>1. 1 \in Nat /\ m + 1 \in Nat
            OBVIOUS
        <2> QED BY <1>8, <2>1, DownwardInduction
    <1>10. 1 \in S
        BY <1>9
    <1>11. g[1] = f[1] \o U
        BY <1>10 DEF S, f
    <1> QED BY <1>11 DEF f, g, t, U

-----------------------------------------------------------------------------
(* What was decoded is text; it and what the rest spells are what the      *)
(* string spells, and it is finished or refused for a reason.              *)
ReadInv ==
    pc = "string" =>
        /\ IsText(Reading(out)[1])
        /\ Spelling(text)[1] = Reading(out)[1] \o Spelling(text)[pos]
        /\ verdict = "decoded" => pos <= Len(text) /\ text[pos] = 34
        /\ verdict = "refused" =>
              pos > Len(text) \/ (text[pos] # 34 /\ ItemAt(text, pos).used = 0)

(* The units at the first place and at any place are units.                *)
LEMMA UnitsAreInts ==
    ASSUME NEW s \in Seq(Byte)
    PROVE  /\ Reading(s)[1] \in Seq(Int)
           /\ \A i \in 1 .. (Len(s) + 1) : Spelling(s)[i] \in Seq(Int)
    <1>1. 1 \in 1 .. (Len(s) + 1)
        BY LenProperties
    <1>2. Reads(s, Reading(s)) /\ Spells(s, Spelling(s))
        BY ReadingReads, SpellingSpells
    <1> QED BY <1>1, <1>2 DEF Reads, Spells, Suffixes

(* Nothing is read from nothing.                                           *)
LEMMA ReadNothing == Reading(<<>>)[1] = <<>> /\ IsText(<<>>)
    <1>1. <<>> \in Seq(Byte) /\ Len(<<>>) + 1 = 1 /\ <<>> \in Seq(Int)
        OBVIOUS
    <1>2. Reading(<<>>)[1] = <<>>
        BY <1>1, ReadingReads DEF Reads
    <1>3. IsText(<<>>)
        <2>1. \A k \in 1 .. Len(<<>>) : Sound(<<>>, k)
            BY <1>1
        <2> QED BY <1>1, <2>1, TextIsSound
    <1> QED BY <1>2, <1>3

(* One item further, the invariant holds again.                            *)
LEMMA DecodeReads ==
    ASSUME StringInv, ReadInv, pc = "string", Decode
    PROVE  /\ IsText(Reading(out')[1])
           /\ Spelling(text)[1] = Reading(out')[1] \o Spelling(text)[pos']
    <1> DEFINE item == ItemAt(text, pos)
               S == Spelling(text)
               O == Reading(out)[1]
    <1>1. /\ pos \in 1 .. Len(text) /\ text \in Seq(Byte) /\ out \in Seq(Byte)
          /\ text[pos] # 34
          /\ item.used > 0 /\ pos' = pos + item.used /\ out' = out \o item.bytes
        BY DEF Decode, StringInv, Quote
    <1>2. /\ item.used \in Nat /\ pos + item.used <= Len(text) + 1
          /\ item.used # 0
        BY <1>1, ItemShrinks
    <1>3. Matches(S, pos, item)
        BY <1>1, ItemMeans, SpellingSpells
    <1>4. IsText(O) /\ S[1] = O \o S[pos]
        BY DEF ReadInv
    <1>5. O \in Seq(Int) /\ \A i \in 1 .. (Len(text) + 1) : S[i] \in Seq(Int)
        BY <1>1, UnitsAreInts
    <1> HIDE DEF item, S
    <1>6. PICK c \in Scalars : S[pos] = UnitsOf(c) \o S[pos + item.used]
                               /\ Encodes(item.bytes, c)
        BY <1>2, <1>3, Zenon DEF Matches
    <1>7. Whole(O)
        BY <1>4, <1>5, TextIsSound DEF Whole, Sound
    <1>8. Reading(out')[1] = O \o UnitsOf(c)
        BY <1>1, <1>6, <1>7, ReadBehind
    <1>9. UnitsOf(c) \in Seq(Int) /\ IsText(UnitsOf(c))
        BY UnitsAreText
    <1> HIDE DEF O
    <1>10. IsText(O \o UnitsOf(c))
        BY <1>4, <1>5, <1>9, TextsConcat
    <1>11. S[1] = (O \o UnitsOf(c)) \o S[pos']
        <2>1. pos' \in 1 .. (Len(text) + 1)
            BY <1>1, <1>2
        <2>2. (O \o UnitsOf(c)) \o S[pos'] = O \o (UnitsOf(c) \o S[pos'])
            BY <1>5, <1>9, <2>1, Joined, Zenon
        <2>3. S[1] = O \o (UnitsOf(c) \o S[pos'])
            BY <1>1, <1>4, <1>6
        <2> QED BY <2>2, <2>3, Zenon
    <1> QED BY <1>8, <1>10, <1>11 DEF S

(* Every step keeps to it.                                                 *)
LEMMA NextRead == StringInv /\ ReadInv /\ [Next]_vars => ReadInv'
    <1> SUFFICES ASSUME StringInv, ReadInv, [Next]_vars PROVE ReadInv'
        OBVIOUS
    <1>1. CASE AnswerFixed \/ Create \/ Visit \/ AppendPiece
        <2>1. ASSUME NEW r, Respond(r) PROVE pc' # "string"
            BY <2>1 DEF Respond
        <2>2. pc' # "string"
            BY <1>1, <2>1 DEF AnswerFixed, Create, Visit, AppendPiece
        <2> QED BY <2>2 DEF ReadInv
    <1>2. CASE Shorten
        <2>1. /\ text' \in Seq(Byte) /\ pos' = 1 /\ out' = <<>> /\ verdict' = "none"
            BY <1>2, StringAssumption DEF Shorten, Call
        <2>2. Reading(out')[1] = <<>> /\ IsText(Reading(out')[1])
            BY <2>1, ReadNothing
        <2>3. Spelling(text')[1] \in Seq(Int)
            <3>1. 1 \in 1 .. (Len(text') + 1)
                BY <2>1, LenProperties
            <3> QED BY <2>1, <3>1, UnitsAreInts
        <2>4. <<>> \o Spelling(text')[1] = Spelling(text')[1]
            BY <2>3, ConcatEmptySeq
        <2> QED BY <2>1, <2>2, <2>4 DEF ReadInv
    <1>3. CASE ReadString
        <2> SUFFICES ASSUME pc = "string", pc' = "string"
                     PROVE  ReadInv'
            BY <1>3 DEF ReadString, ReadInv
        <2>1. CASE Decode
            <3>1. text' = text /\ verdict' = "none"
                BY <2>1 DEF Decode, Running
            <3>2. /\ IsText(Reading(out')[1])
                  /\ Spelling(text)[1] = Reading(out')[1] \o Spelling(text)[pos']
                BY <2>1, DecodeReads
            <3> QED BY <3>1, <3>2 DEF ReadInv
        <2>2. CASE Refuse
            <3>1. text' = text /\ pos' = pos /\ out' = out /\ verdict' = "refused"
                BY <2>2 DEF Refuse
            <3>2. pos > Len(text) \/ (text[pos] # 34 /\ ItemAt(text, pos).used = 0)
                <4> SUFFICES ASSUME pos <= Len(text), text[pos] # Quote,
                                    Len(out) + Len(ItemAt(text, pos).bytes) > OutputSize
                             PROVE  FALSE
                    BY <2>2 DEF Refuse, Quote
                <4>1. Len(out) + Len(ItemAt(text, pos).bytes) <= OutputSize
                    BY ItemFits
                <4>2. Len(out) + Len(ItemAt(text, pos).bytes) \in Nat /\ OutputSize \in Nat
                    <5>1. pos \in 1 .. Len(text) /\ text \in Seq(Byte) /\ Len(out) \in Nat
                        BY DEF StringInv
                    <5>2. Len(ItemAt(text, pos).bytes) \in Nat
                        BY <5>1, ItemShrinks
                    <5> QED BY <5>1, <5>2, StringAssumption
                <4> QED BY <4>1, <4>2
            <3> QED BY <3>1, <3>2 DEF ReadInv
        <2>3. CASE Finish
            <3>1. text' = text /\ pos' = pos /\ out' = out /\ verdict' = "decoded"
                  /\ pos <= Len(text) /\ text[pos] = 34
                BY <2>3 DEF Finish, Quote
            <3> QED BY <3>1 DEF ReadInv
        <2> QED BY <1>3, <2>1, <2>2, <2>3 DEF ReadString, StringNext
    <1>4. CASE UNCHANGED vars
        BY <1>4 DEF vars, stringVars, ReadInv
    <1> QED BY <1>1, <1>2, <1>3, <1>4 DEF Next

(* The decoder accepts exactly the strings that mean a text, and returns   *)
(* that text (DecodesTheText).                                             *)
THEOREM TheTextIsDecoded == Spec => []DecodesTheText
    <1>1. Init => StringInv /\ ReadInv
        BY StringAssumption DEF Init, StringInit, StringInv, ReadInv
    <1>2. StringInv /\ ReadInv => DecodesTheText
        <2> SUFFICES ASSUME StringInv, ReadInv, pc = "string"
                     PROVE  /\ verdict = "decoded" =>
                               IsText(Spelling(text)[1]) /\ Reading(out)[1] = Spelling(text)[1]
                            /\ verdict = "refused" => ~IsText(Spelling(text)[1])
            BY SpelledIsSpelling, OfUtf8IsReading, Zenon DEF DecodesTheText, IsText
        <2> DEFINE S == Spelling(text)
                   O == Reading(out)[1]
        <2>1. text \in Seq(Byte) /\ out \in Seq(Byte) /\ pos \in 1 .. (Len(text) + 1)
            BY DEF StringInv
        <2>2. O \in Seq(Int) /\ S[pos] \in Seq(Int)
            BY <2>1, UnitsAreInts
        <2>3. IsText(O) /\ S[1] = O \o S[pos]
            BY DEF ReadInv
        <2>4. Spells(text, S) /\ S[pos] = Spell(text, pos, S)
            BY <2>1, SpellingSpells DEF Spells, Suffixes
        <2>5. ASSUME verdict = "decoded" PROVE IsText(S[1]) /\ O = S[1]
            <3>1. pos \in 1 .. Len(text) /\ text[pos] = 34
                BY <2>1, <2>5, LenProperties DEF ReadInv
            <3>2. Spell(text, pos, S) = <<>>
                BY <2>1, <3>1, SpellQuote
            <3>3. O \o <<>> = O
                BY <2>2, ConcatEmptySeq
            <3> QED BY <2>3, <2>4, <3>2, <3>3
        <2>6. ASSUME verdict = "refused" PROVE ~IsText(S[1])
            <3>1. CASE pos > Len(text)
                <4>1. Spell(text, pos, S) = Nothing
                    BY <3>1 DEF Spell
                <4>2. Spoils(S[pos])
                    BY <2>4, <4>1, NothingSpoils
                <4> QED BY <2>2, <2>3, <4>2, SpoiledText
            <3>2. CASE ~ (pos > Len(text))
                <4>1. pos \in 1 .. Len(text) /\ text[pos] # 34 /\ ItemAt(text, pos).used = 0
                    BY <2>1, <2>6, <3>2, LenProperties DEF ReadInv
                <4>2. Matches(S, pos, ItemAt(text, pos))
                    BY <2>1, <2>4, <4>1, ItemMeans
                <4>3. Spoils(S[pos])
                    BY <4>1, <4>2 DEF Matches
                <4> QED BY <2>2, <2>3, <4>3, SpoiledText
            <3> QED BY <3>1, <3>2
        <2> QED BY <2>5, <2>6
    <1> QED BY <1>1, <1>2, NextString, NextRead, PTL DEF Spec

-----------------------------------------------------------------------------
(* f is the first index from a that is b or holds one of bytes.            *)
EndsAt(u, a, b, f, bytes) ==
    /\ f \in a .. b
    /\ f < b => u[f] \in bytes
    /\ \A k \in a .. (f - 1) : u[k] \notin bytes

(* There is one, FirstOf.                                                  *)
LEMMA FirstOfEnds ==
    ASSUME NEW u, NEW a \in Nat, NEW b \in Nat, a <= b, NEW bytes
    PROVE  EndsAt(u, a, b, FirstOf(u, a, b, bytes), bytes)
    <1> DEFINE T == {i \in a .. b : i = b \/ u[i] \in bytes}
    <1>1. T \subseteq Nat /\ b \in T
        OBVIOUS
    <1>2. PICK f \in T : \A i \in T : f <= i
        <2> HIDE DEF T
        <2> QED BY <1>1, LeastNumber
    <1>3. ASSUME NEW k \in a .. (f - 1) PROVE u[k] \notin bytes
        <2>1. k \in a .. b /\ ~ (f <= k)
            BY <1>2
        <2> QED BY <1>2, <2>1
    <1>4. EndsAt(u, a, b, f, bytes)
        BY <1>2, <1>3 DEF EndsAt
    <1> HIDE DEF T
    <1>5. \E i \in a .. b : (i < b => u[i] \in bytes)
                           /\ \A k \in a .. (i - 1) : u[k] \notin bytes
        BY <1>4 DEF EndsAt
    <1> QED BY <1>5 DEF FirstOf, EndsAt

(* And no other.                                                           *)
LEMMA FirstOfIs ==
    ASSUME NEW u, NEW a \in Nat, NEW b \in Nat, a <= b, NEW bytes, NEW f,
           EndsAt(u, a, b, f, bytes)
    PROVE  FirstOf(u, a, b, bytes) = f
    <1> DEFINE g == FirstOf(u, a, b, bytes)
    <1>1. EndsAt(u, a, b, g, bytes)
        BY FirstOfEnds
    <1> HIDE DEF g
    <1>2. f \in a .. b /\ g \in a .. b
        BY <1>1 DEF EndsAt
    <1>3. ~ (f < g)
        <2> SUFFICES ASSUME f < g PROVE FALSE
            OBVIOUS
        <2>1. f \in a .. (g - 1) /\ f < b
            BY <1>2
        <2> QED BY <1>1, <2>1 DEF EndsAt
    <1>4. ~ (g < f)
        <2> SUFFICES ASSUME g < f PROVE FALSE
            OBVIOUS
        <2>1. g \in a .. (f - 1) /\ g < b
            BY <1>2
        <2> QED BY <1>1, <2>1 DEF EndsAt
    <1> QED BY <1>2, <1>3, <1>4 DEF g

(* The byte at i may stand in a name that ends before b.                   *)
InName(u, i, b) ==
    \/ u[i] \in Alphanumeric \cup Punctuation
    \/ /\ u[i] = Percent /\ b - i >= 3
       /\ u[i + 1] \in HexDigits /\ u[i + 2] \in HexDigits

(* valid_reg_name, which passes over the digits behind a percent sign,     *)
(* accepts exactly the names all of whose bytes may stand there.           *)
LEMMA RegNameMeans ==
    ASSUME NEW u, NEW a \in Nat, NEW b \in Nat, a <= b
    PROVE  ValidRegName(u, a, b) <=> a < b /\ \A i \in a .. (b - 1) : InName(u, i, b)
    <1> DEFINE All(i) == \A k \in i .. (b - 1) : InName(u, k, b)
               Step(v, i) ==
                   IF i = b THEN TRUE
                   ELSE IF u[i] \in Alphanumeric \cup Punctuation THEN v[i + 1]
                   ELSE /\ u[i] = Percent /\ b - i >= 3
                        /\ u[i + 1] \in HexDigits /\ u[i + 2] \in HexDigits
                        /\ v[i + 3]
               Is(v) == v = [i \in a .. b |-> Step(v, i)]
               w == [i \in a .. b |-> All(i)]
    <1>1. \A i : (u[i] \in HexDigits => u[i] \in Alphanumeric)
        BY DEF HexDigits, Alphanumeric, Digits
    <1>2. ASSUME NEW i \in a .. b, NEW v,
                 \A j \in (i + 1) .. b : v[j] = All(j)
          PROVE  Step(v, i) = All(i)
        <2>1. CASE i = b
            BY <2>1
        <2>2. CASE i < b /\ u[i] \in Alphanumeric \cup Punctuation
            <3>1. i + 1 \in (i + 1) .. b /\ i # b /\ InName(u, i, b)
                BY <2>2 DEF InName
            <3>2. Step(v, i) = All(i + 1)
                BY <1>2, <2>2, <3>1
            <3>3. All(i + 1) = All(i)
                <4>1. \A k \in i .. (b - 1) : k = i \/ k \in (i + 1) .. (b - 1)
                    OBVIOUS
                <4>2. \A k \in (i + 1) .. (b - 1) : k \in i .. (b - 1)
                    OBVIOUS
                <4> QED BY <3>1, <4>1, <4>2
            <3> QED BY <3>2, <3>3
        <2>3. CASE i < b /\ u[i] \notin Alphanumeric \cup Punctuation
            <3> DEFINE guard == /\ u[i] = Percent /\ b - i >= 3
                                /\ u[i + 1] \in HexDigits /\ u[i + 2] \in HexDigits
            <3>1. i \in i .. (b - 1) /\ (InName(u, i, b) <=> guard)
                BY <2>3 DEF InName
            <3>2. CASE guard
                <4>1. i + 3 \in (i + 1) .. b /\ i # b
                    BY <3>2
                <4>2. Step(v, i) = All(i + 3)
                    BY <1>2, <2>3, <3>2, <4>1
                <4>3. InName(u, i + 1, b) /\ InName(u, i + 2, b) /\ InName(u, i, b)
                    BY <1>1, <3>1, <3>2 DEF InName
                <4>4. \A k \in i .. (b - 1) :
                         k = i \/ k = i + 1 \/ k = i + 2 \/ k \in (i + 3) .. (b - 1)
                    OBVIOUS
                <4>5. \A k \in (i + 3) .. (b - 1) : k \in i .. (b - 1)
                    OBVIOUS
                <4>6. All(i + 3) = All(i)
                    BY <4>3, <4>4, <4>5
                <4> QED BY <4>2, <4>6
            <3>3. CASE ~guard
                <4>1. Step(v, i) = FALSE
                    BY <2>3, <3>3
                <4>2. All(i) = FALSE
                    BY <3>1, <3>3
                <4> QED BY <4>1, <4>2
            <3> QED BY <3>2, <3>3
        <2>4. i = b \/ i < b
            OBVIOUS
        <2> HIDE DEF All, Step
        <2> QED BY <2>1, <2>2, <2>3, <2>4, Zenon
    <1> HIDE DEF All, Step
    <1>3. Is(w)
        <2>1. \A i \in a .. b : \A j \in (i + 1) .. b : w[j] = All(j)
            OBVIOUS
        <2>2. \A i \in a .. b : Step(w, i) = All(i)
            BY <1>2, <2>1
        <2> QED BY <2>2
    <1>4. PICK v : Is(v) /\ ValidRegName(u, a, b) = (a < b /\ v[a])
        <2>1. \E v : v = [i \in a .. b |->
                   IF i = b THEN TRUE
                   ELSE IF u[i] \in Alphanumeric \cup Punctuation THEN v[i + 1]
                   ELSE /\ u[i] = Percent /\ b - i >= 3
                        /\ u[i + 1] \in HexDigits /\ u[i + 2] \in HexDigits
                        /\ v[i + 3]]
            BY <1>3 DEF Step
        <2>2. \E v : v = [i \in a .. b |->
                   IF i = b THEN TRUE
                   ELSE IF u[i] \in Alphanumeric \cup Punctuation THEN v[i + 1]
                   ELSE /\ u[i] = Percent /\ b - i >= 3
                        /\ u[i + 1] \in HexDigits /\ u[i + 2] \in HexDigits
                        /\ v[i + 3]]
                  /\ ValidRegName(u, a, b) = (a < b /\ v[a])
            BY <2>1, Zenon DEF ValidRegName
        <2> QED BY <2>2 DEF Step
    <1>5. \A i \in a .. b : v[i] = All(i)
        <2> DEFINE S == {i \in a .. b : v[i] = All(i)}
        <2>1. ASSUME NEW i \in a .. b, \A j \in (i + 1) .. b : j \in S
              PROVE  i \in S
            <3>1. \A j \in (i + 1) .. b : v[j] = All(j)
                BY <2>1
            <3>2. Step(v, i) = All(i)
                BY <1>2, <3>1
            <3> QED BY <1>4, <3>2
        <2> HIDE DEF S
        <2>2. \A i \in a .. b : i \in S
            BY <2>1, DownwardInduction
        <2> QED BY <2>2 DEF S
    <1>6. v[a] = All(a)
        BY <1>5
    <1> QED BY <1>4, <1>6 DEF All

-----------------------------------------------------------------------------
(* The bytes from a to h are a host.                                       *)
IsHost(u, a, h) ==
    \/ /\ u[a] = Opening /\ u[h] = Closing
       /\ SubSeq(u, a + 1, h - 1) \in Ipv6
    \/ \A i \in a .. h : InName(u, i, h + 1)

(* The bytes behind h, up to p, are nothing or a port.                     *)
IsPort(u, h, p) ==
    \/ p = h
    \/ /\ u[h + 1] = Colon /\ p > h + 1
       /\ \A i \in (h + 2) .. p : u[i] \in Digits

(* ValidPort is told where it ends and not whether it is there.            *)
LEMMA PortMeans ==
    ASSUME NEW u, NEW b \in Nat, NEW h \in Nat, h < b
    PROVE  ValidPort(u, h + 1, b) <=> IsPort(u, h, b - 1)
    <1>1. h + 1 + 1 = h + 2
        OBVIOUS
    <1>2. CASE h + 1 < b
        <2>1. b - 1 # h /\ (b - 1 > h + 1 <=> h + 2 < b)
            BY <1>2
        <2> QED BY <1>1, <1>2, <2>1 DEF ValidPort, IsPort
    <1>3. CASE h + 1 = b
        BY <1>3 DEF ValidPort, IsPort
    <1> QED BY <1>2, <1>3

(* The bytes that an address is made of.                                   *)
LEMMA AddressInside ==
    ASSUME NEW u \in Seq(Byte), NEW a \in Nat \ {0}, NEW h \in Nat,
           a < h, h <= Len(u), SubSeq(u, a + 1, h - 1) \in Ipv6
    PROVE  /\ a + 1 < h /\ h - (a + 1) < AddressSize
           /\ \A k \in (a + 1) .. (h - 1) : u[k] \notin {Closing}
    <1> DEFINE t == SubSeq(u, a + 1, h - 1)
               B == HexDigits \cup {Colon, Dot}
    <1>1. t \in Seq(B) /\ Len(t) \in 1 .. (AddressSize - 1)
        BY Ipv6Assumption
    <1>2. \A k \in (a + 1) .. (h - 1) : u[k] \in Byte
        <2>1. PICK n \in Nat : n = Len(u)
            BY LenProperties
        <2>2. \A k \in (a + 1) .. (h - 1) : k \in 1 .. n
            BY <2>1
        <2> QED BY <2>1, <2>2, ElementOfSeq
    <1>3. /\ Len(t) = IF a + 1 <= h - 1 THEN (h - 1) - (a + 1) + 1 ELSE 0
          /\ \A i \in 1 .. ((h - 1) - (a + 1) + 1) : t[i] = u[a + 1 + i - 1]
        BY <1>2, SubSeqProperties
    <1> HIDE DEF t
    <1>4. a + 1 < h /\ Len(t) = h - (a + 1)
        BY <1>1, <1>3
    <1>5. ASSUME NEW k \in (a + 1) .. (h - 1) PROVE u[k] \notin {Closing}
        <2>1. k - a \in 1 .. ((h - 1) - (a + 1) + 1) /\ a + 1 + (k - a) - 1 = k
            OBVIOUS
        <2>2. t[k - a] = u[k]
            BY <1>3, <2>1
        <2>3. k - a \in 1 .. Len(t)
            BY <1>4, <2>1
        <2>4. t[k - a] \in B
            BY <1>1, <2>3, ElementOfSeq
        <2>5. Closing \notin B
            BY DEF HexDigits, Digits, Colon, Dot, Closing
        <2> HIDE DEF B
        <2> QED BY <2>2, <2>4, <2>5
    <1>6. h - (a + 1) < AddressSize
        BY <1>1, <1>4, UrlAssumption
    <1> QED BY <1>4, <1>5, <1>6

(* A name holds neither colons nor brackets.                               *)
LEMMA NameExcludes ==
    ASSUME NEW u, NEW i, NEW b, InName(u, i, b)
    PROVE  u[i] \notin {Colon, Opening, Closing}
    BY DEF InName, Alphanumeric, Digits, Punctuation, Percent, Colon, Opening, Closing

(* What ValidAuthority finds by scanning is a cut into a host and a port.  *)
LEMMA AuthorityMeans ==
    ASSUME NEW u \in Seq(Byte), NEW a \in Nat \ {0}, NEW b \in Nat,
           a <= b, b <= Len(u) + 1
    PROVE  ValidAuthority(u, a, b) <=>
               /\ \A i \in a .. (b - 1) : u[i] # At
               /\ \E h \in a .. (b - 1) : IsHost(u, a, h) /\ IsPort(u, h, b - 1)
    <1>1. ASSUME ValidAuthority(u, a, b)
          PROVE  \E h \in a .. (b - 1) : IsHost(u, a, h) /\ IsPort(u, h, b - 1)
        <2>1. a < b /\ a + 1 \in Nat /\ a + 1 <= b
            BY <1>1 DEF ValidAuthority
        <2>2. CASE u[a] = Opening
            <3> DEFINE c == FirstOf(u, a + 1, b, {Closing})
            <3>1. EndsAt(u, a + 1, b, c, {Closing})
                BY <2>1, FirstOfEnds
            <3>2. /\ c # a + 1 /\ c # b /\ SubSeq(u, a + 1, c - 1) \in Ipv6
                  /\ ValidPort(u, c + 1, b)
                BY <1>1, <2>2 DEF ValidAuthority, ValidBracketed
            <3> HIDE DEF c
            <3>3. c \in (a + 1) .. b /\ c < b /\ u[c] = Closing
                BY <3>1, <3>2 DEF EndsAt
            <3>4. c \in a .. (b - 1) /\ c \in Nat
                BY <3>3
            <3>5. IsPort(u, c, b - 1)
                BY <3>2, <3>3, <3>4, PortMeans
            <3> QED BY <2>2, <3>2, <3>3, <3>4, <3>5 DEF IsHost
        <2>3. CASE u[a] # Opening
            <3> DEFINE c == FirstOf(u, a, b, {Colon})
            <3>1. EndsAt(u, a, b, c, {Colon})
                BY <2>1, FirstOfEnds
            <3>2. ValidRegName(u, a, c) /\ ValidPort(u, c, b)
                BY <1>1, <2>3 DEF ValidAuthority
            <3> HIDE DEF c
            <3>3. c \in a .. b /\ c \in Nat /\ a <= c
                BY <3>1 DEF EndsAt
            <3>4. a < c /\ \A i \in a .. (c - 1) : InName(u, i, c)
                BY <3>2, <3>3, RegNameMeans
            <3>5. PICK h \in Nat : c = h + 1 /\ h = c - 1 /\ h \in a .. (b - 1) /\ h < b
                BY <3>3, <3>4
            <3>6. IsPort(u, h, b - 1)
                BY <3>2, <3>5, PortMeans
            <3> QED BY <3>4, <3>5, <3>6 DEF IsHost
        <2> QED BY <2>2, <2>3
    <1>2. ASSUME \A i \in a .. (b - 1) : u[i] # At,
                 NEW h \in a .. (b - 1), IsHost(u, a, h), IsPort(u, h, b - 1)
          PROVE  ValidAuthority(u, a, b)
        <2>1. PICK n \in Nat : n = Len(u)
            BY LenProperties
        <2>2. a < b /\ h \in Nat /\ h < b /\ h <= Len(u) /\ a + 1 \in Nat /\ h + 1 \in Nat
            BY <2>1
        <2>3. ValidPort(u, h + 1, b)
            BY <1>2, <2>2, PortMeans
        <2>4. CASE u[a] = Opening /\ u[h] = Closing /\ SubSeq(u, a + 1, h - 1) \in Ipv6
            <3>1. a < h
                <4>1. a # h
                    BY <2>4 DEF Opening, Closing
                <4> QED BY <4>1
            <3>2. /\ a + 1 < h /\ h - (a + 1) < AddressSize
                  /\ \A k \in (a + 1) .. (h - 1) : u[k] \notin {Closing}
                BY <2>2, <2>4, <3>1, AddressInside
            <3>3. EndsAt(u, a + 1, b, h, {Closing})
                BY <2>2, <2>4, <3>2 DEF EndsAt
            <3>4. FirstOf(u, a + 1, b, {Closing}) = h
                <4>1. a + 1 <= b
                    BY <2>2
                <4> QED BY <2>2, <3>3, <4>1, FirstOfIs
            <3>5. ValidBracketed(u, a, b)
                BY <2>2, <2>3, <2>4, <3>2, <3>4 DEF ValidBracketed
            <3> QED BY <1>2, <2>2, <2>4, <3>5 DEF ValidAuthority
        <2>5. CASE \A i \in a .. h : InName(u, i, h + 1)
            <3>1. \A i \in a .. h : u[i] \notin {Colon, Opening, Closing}
                BY <2>5, NameExcludes
            <3>2. u[a] # Opening
                BY <3>1
            <3>3. h + 1 < b => u[h + 1] = Colon
                BY <2>2, <2>3 DEF ValidPort
            <3>4. h + 1 \in a .. b /\ \A k \in a .. (h + 1 - 1) : k \in a .. h
                OBVIOUS
            <3>5. EndsAt(u, a, b, h + 1, {Colon})
                BY <3>1, <3>3, <3>4 DEF EndsAt
            <3>6. FirstOf(u, a, b, {Colon}) = h + 1
                BY <2>2, <3>5, FirstOfIs
            <3>7. ValidRegName(u, a, h + 1)
                <4>1. a <= h + 1 /\ a < h + 1
                    OBVIOUS
                <4> QED BY <2>2, <2>5, <3>4, <4>1, RegNameMeans
            <3> QED BY <1>2, <2>2, <2>3, <3>2, <3>6, <3>7 DEF ValidAuthority
        <2> QED BY <1>2, <2>4, <2>5 DEF IsHost
    <1>3. ValidAuthority(u, a, b) => \A i \in a .. (b - 1) : u[i] # At
        BY DEF ValidAuthority
    <1> QED BY <1>1, <1>2, <1>3

-----------------------------------------------------------------------------
(* A text starts with at most one scheme, the one that is found.           *)
LEMMA SchemeMeans ==
    ASSUME NEW u \in Seq(Byte), NEW s \in {Http, Https}
    PROVE  /\ Len(s) \in {7, 8}
           /\ Scheme(u) = Len(s) <=> Len(s) <= Len(u) /\ SubSeq(u, 1, Len(s)) = s
    <1>1. Len(Http) = 7 /\ Len(Https) = 8 /\ Http[5] = 58 /\ Https[5] = 115
        BY DEF Http, Https
    <1>2. PICK n \in Nat : n = Len(u)
        BY LenProperties
    <1>3. \A i \in 1 .. n : u[i] \in Byte
        BY <1>2, ElementOfSeq
    <1>4. ASSUME NEW m \in {7, 8}, m <= n
          PROVE  SubSeq(u, 1, m)[5] = u[5]
        <2>1. \A i \in 1 .. m : u[i] \in Byte
            BY <1>3, <1>4
        <2>2. \A i \in 1 .. (m - 1 + 1) : SubSeq(u, 1, m)[i] = u[1 + i - 1]
            BY <2>1, SubSeqProperties
        <2>3. 5 \in 1 .. (m - 1 + 1) /\ 1 + 5 - 1 = 5
            OBVIOUS
        <2> QED BY <2>2, <2>3
    <1>5. ~ (8 <= n /\ SubSeq(u, 1, 7) = Http /\ SubSeq(u, 1, 8) = Https)
        BY <1>1, <1>4
    <1>6. s = Http \/ s = Https
        OBVIOUS
    <1>7. Scheme(u) = IF n >= 7 /\ SubSeq(u, 1, 7) = Http THEN 7
                      ELSE IF n >= 8 /\ SubSeq(u, 1, 8) = Https THEN 8 ELSE 0
        BY <1>2 DEF Scheme
    <1> HIDE DEF Http, Https
    <1>8. CASE s = Http
        <2>1. Scheme(u) = 7 <=> 7 <= n /\ SubSeq(u, 1, 7) = Http
            BY <1>7
        <2> QED BY <1>1, <1>2, <1>8, <2>1
    <1>9. CASE s = Https
        <2>1. Scheme(u) = 8 <=> 8 <= n /\ SubSeq(u, 1, 8) = Https
            BY <1>5, <1>7
        <2> QED BY <1>1, <1>2, <1>9, <2>1
    <1> QED BY <1>6, <1>8, <1>9

(* No other number is found.                                               *)
LEMMA SchemeIsLength ==
    ASSUME NEW u, Scheme(u) # 0
    PROVE  \E s \in {Http, Https} : Scheme(u) = Len(s)
    <1>1. Len(Http) = 7 /\ Len(Https) = 8
        BY DEF Http, Https
    <1>2. Scheme(u) = 7 \/ Scheme(u) = 8
        BY DEF Scheme
    <1> HIDE DEF Http, Https
    <1> QED BY <1>1, <1>2

(* The cut of u, whose scheme is of n bytes, behind h and behind p.        *)
IsCut(u, n, h, p) ==
    /\ n < h /\ h <= p
    /\ p = Len(u) \/ u[p + 1] \in Delimiter
    /\ \A i \in (n + 1) .. p : u[i] \notin Delimiter \cup {At}
    /\ IsPort(u, h, p)
    /\ IsHost(u, n + 1, h)

(* IsOriginalUrl asks for a cut.                                           *)
LEMMA UrlMeans ==
    ASSUME NEW u
    PROVE  IsOriginalUrl(u) <=>
               /\ Len(u) <= MaxUrlLength
               /\ \A i \in DOMAIN u : u[i] > 32 /\ u[i] # 127
               /\ \E s \in {Http, Https}, h, p \in 0 .. Len(u) :
                     SubSeq(u, 1, Len(s)) = s /\ IsCut(u, Len(s), h, p)
    <1> DEFINE Body(s, n, h, p) ==
          /\ n < h /\ h <= p
          /\ SubSeq(u, 1, n) = s
          /\ p = Len(u) \/ u[p + 1] \in Delimiter
          /\ \A i \in (n + 1) .. p :
                u[i] \notin Delimiter \cup {At}
          /\ \/ p = h
             \/ /\ u[h + 1] = Colon /\ p > h + 1
                /\ \A i \in (h + 2) .. p : u[i] \in Digits
          /\ \/ /\ u[n + 1] = Opening /\ u[h] = Closing
                /\ SubSeq(u, n + 2, h - 1) \in Ipv6
             \/ \A i \in (n + 1) .. h :
                   \/ u[i] \in Alphanumeric \cup Punctuation
                   \/ /\ u[i] = Percent /\ i + 2 <= h
                      /\ {u[i + 1], u[i + 2]} \subseteq HexDigits
    <1>1. IsOriginalUrl(u) <=>
               /\ Len(u) <= MaxUrlLength
               /\ \A i \in DOMAIN u : u[i] > 32 /\ u[i] # 127
               /\ \E s \in {Http, Https}, h, p \in 0 .. Len(u) : Body(s, Len(s), h, p)
        BY DEF IsOriginalUrl
    <1>2. ASSUME NEW s, NEW n \in {7, 8}, NEW h \in Int, NEW p \in Int
          PROVE  Body(s, n, h, p) <=> SubSeq(u, 1, n) = s /\ IsCut(u, n, h, p)
        <2>1. n + 1 + 1 = n + 2
            OBVIOUS
        <2>2. \A i \in (n + 1) .. h : i + 2 <= h <=> h + 1 - i >= 3
            OBVIOUS
        <2>3. (\A i \in (n + 1) .. h :
                   \/ u[i] \in Alphanumeric \cup Punctuation
                   \/ /\ u[i] = Percent /\ i + 2 <= h
                      /\ {u[i + 1], u[i + 2]} \subseteq HexDigits)
              <=> \A i \in (n + 1) .. h : InName(u, i, h + 1)
            BY <2>2 DEF InName
        <2> QED BY <2>1, <2>3 DEF IsCut, IsPort, IsHost
    <1> HIDE DEF Body
    <1>3. ASSUME NEW s \in {Http, Https}, NEW h \in 0 .. Len(u), NEW p \in 0 .. Len(u)
          PROVE  Body(s, Len(s), h, p) <=>
                     SubSeq(u, 1, Len(s)) = s /\ IsCut(u, Len(s), h, p)
        <2>1. Len(s) \in {7, 8}
            BY DEF Http, Https
        <2>2. h \in Int /\ p \in Int
            OBVIOUS
        <2> QED BY <1>2, <2>1, <2>2
    <1> QED BY <1>1, <1>3, Zenon

(* has_valid_original_url accepts what the specification calls a URL.      *)
LEMMA ValidIsOriginal ==
    ASSUME NEW u \in Seq(Byte)
    PROVE  ValidOriginalUrl(u) <=> IsOriginalUrl(u)
    <1>1. PICK l \in Nat : l = Len(u)
        BY LenProperties
    <1>2. \A i \in DOMAIN u : u[i] \in Byte
        BY ElementOfSeq, LenProperties
    <1>3. Visible(u) <=> \A i \in DOMAIN u : u[i] > 32 /\ u[i] # 127
        <2>1. \A x \in Byte : x \notin (0 .. 32) \cup {127} <=> x > 32 /\ x # 127
            BY DEF Byte
        <2>2. ASSUME NEW i \in DOMAIN u
              PROVE  u[i] \notin (0 .. 32) \cup {127} <=> u[i] > 32 /\ u[i] # 127
            BY <1>2, <2>1
        <2>3. Visible(u) <=> \A i \in DOMAIN u : u[i] \notin (0 .. 32) \cup {127}
            BY DEF Visible
        <2> QED BY <2>2, <2>3
    <1>4. ASSUME ValidOriginalUrl(u)
          PROVE  \E s \in {Http, Https}, h, p \in 0 .. l :
                     SubSeq(u, 1, Len(s)) = s /\ IsCut(u, Len(s), h, p)
        <2> DEFINE b == FirstOf(u, Scheme(u) + 1, l + 1, Delimiter)
        <2>1. Scheme(u) # 0 /\ ValidAuthority(u, Scheme(u) + 1, b)
            BY <1>1, <1>4 DEF ValidOriginalUrl
        <2>2. PICK s \in {Http, Https} : Scheme(u) = Len(s)
            BY <2>1, SchemeIsLength
        <2>3. PICK n \in {7, 8} : n = Len(s)
            BY SchemeMeans
        <2>4. n <= l /\ SubSeq(u, 1, Len(s)) = s
            BY <1>1, <2>2, <2>3, SchemeMeans
        <2>5. n + 1 \in Nat \ {0} /\ l + 1 \in Nat /\ n + 1 <= l + 1
            BY <2>4
        <2>6. EndsAt(u, n + 1, l + 1, b, Delimiter)
            BY <2>2, <2>3, <2>5, FirstOfEnds
        <2>7. ValidAuthority(u, n + 1, b)
            BY <2>1, <2>2, <2>3
        <2> HIDE DEF b
        <2>8. b \in Nat /\ n + 1 <= b /\ b <= l + 1
            BY <2>5, <2>6 DEF EndsAt
        <2>9. /\ \A i \in (n + 1) .. (b - 1) : u[i] # At
              /\ \E h \in (n + 1) .. (b - 1) : IsHost(u, n + 1, h) /\ IsPort(u, h, b - 1)
            BY <1>1, <2>5, <2>7, <2>8, AuthorityMeans
        <2>10. PICK h \in (n + 1) .. (b - 1) : IsHost(u, n + 1, h) /\ IsPort(u, h, b - 1)
            BY <2>9
        <2>11. \A i \in (n + 1) .. (b - 1) : u[i] \notin Delimiter \cup {At}
            BY <2>6, <2>9 DEF EndsAt
        <2>12. b - 1 = l \/ u[b - 1 + 1] \in Delimiter
            <3>1. b - 1 + 1 = b /\ (b < l + 1 \/ b - 1 = l)
                BY <2>8
            <3> QED BY <2>6, <3>1 DEF EndsAt
        <2>13. h \in 0 .. l /\ b - 1 \in 0 .. l /\ n < h /\ h <= b - 1
            BY <2>8
        <2>14. IsCut(u, n, h, b - 1)
            BY <1>1, <2>10, <2>11, <2>12, <2>13 DEF IsCut
        <2> QED BY <2>3, <2>4, <2>13, <2>14
    <1>5. ASSUME Visible(u), l <= MaxUrlLength, NEW s \in {Http, Https},
                 NEW h \in 0 .. l, NEW p \in 0 .. l,
                 SubSeq(u, 1, Len(s)) = s, IsCut(u, Len(s), h, p)
          PROVE  ValidOriginalUrl(u)
        <2>1. PICK n \in {7, 8} : n = Len(s)
            BY SchemeMeans
        <2>2. IsCut(u, n, h, p)
            BY <1>5, <2>1
        <2>3. n < h /\ h <= p
            BY <2>2 DEF IsCut
        <2>4. n <= l /\ Scheme(u) = n
            <3>1. n <= l
                BY <2>3
            <3>2. Scheme(u) = Len(s)
                BY <1>1, <1>5, <2>1, <3>1, SchemeMeans
            <3> QED BY <2>1, <3>1, <3>2
        <2>5. /\ n + 1 \in Nat \ {0} /\ l + 1 \in Nat /\ n + 1 <= l + 1
              /\ p + 1 \in Nat /\ n + 1 <= p + 1 /\ p + 1 <= l + 1 /\ p + 1 - 1 = p
            BY <2>3
        <2>6. EndsAt(u, n + 1, l + 1, p + 1, Delimiter)
            <3>1. p + 1 < l + 1 => u[p + 1] \in Delimiter
                BY <1>1, <2>2 DEF IsCut
            <3>2. \A k \in (n + 1) .. (p + 1 - 1) : u[k] \notin Delimiter
                BY <2>2, <2>5 DEF IsCut
            <3> QED BY <2>5, <3>1, <3>2 DEF EndsAt
        <2>7. FirstOf(u, n + 1, l + 1, Delimiter) = p + 1
            BY <2>5, <2>6, FirstOfIs
        <2>8. ValidAuthority(u, n + 1, p + 1)
            <3>1. \A i \in (n + 1) .. (p + 1 - 1) : u[i] # At
                BY <2>2, <2>5 DEF IsCut
            <3>2. h \in (n + 1) .. (p + 1 - 1)
                BY <2>3
            <3>3. IsHost(u, n + 1, h) /\ IsPort(u, h, p + 1 - 1)
                BY <2>2, <2>5 DEF IsCut
            <3>4. \E i \in (n + 1) .. (p + 1 - 1) :
                      IsHost(u, n + 1, i) /\ IsPort(u, i, p + 1 - 1)
                BY <3>2, <3>3, Zenon
            <3>5. p + 1 <= Len(u) + 1
                BY <1>1, <2>5
            <3> HIDE DEF IsCut
            <3> QED BY <2>5, <3>1, <3>4, <3>5, AuthorityMeans
        <2>9. l \in 1 .. MaxUrlLength
            BY <1>5, <2>4, UrlAssumption
        <2> QED BY <1>1, <1>5, <2>4, <2>7, <2>8, <2>9 DEF ValidOriginalUrl
    <1>6. ValidOriginalUrl(u) => l <= MaxUrlLength /\ Visible(u)
        BY <1>1, UrlAssumption DEF ValidOriginalUrl
    <1> QED BY <1>1, <1>3, <1>4, <1>5, <1>6, UrlMeans

-----------------------------------------------------------------------------
(* Whether something was stored is settled when the string was read.       *)
StoreInv ==
    /\ pc = "request" => verdict = "none" /\ url = None
    /\ pc = "string" => url = None
    /\ pc \notin {"request", "string"} /\ verdict # "none" =>
          (url # None <=> verdict = "decoded" /\ ValidOriginalUrl(out))

(* The checks in front of the validation refuse nothing that is valid.     *)
LEMMA AcceptableIsValid ==
    Acceptable <=> verdict = "decoded" /\ ValidOriginalUrl(out)
    <1> SUFFICES ASSUME ValidOriginalUrl(out)
                 PROVE  ~HasNul(out) /\ Len(out) < MaxUrlLength + 1
        BY DEF Acceptable
    <1>1. Len(out) \in 1 .. MaxUrlLength /\ Visible(out)
        BY DEF ValidOriginalUrl
    <1>2. Len(out) < MaxUrlLength + 1
        BY <1>1, UrlAssumption
    <1>3. ~HasNul(out)
        BY <1>1 DEF HasNul, Visible
    <1> QED BY <1>2, <1>3

(* Every step keeps to what was settled.                                   *)
LEMMA NextStore == StringInv /\ StoreInv /\ [Next]_vars => StoreInv'
    <1> SUFFICES ASSUME StringInv, StoreInv, [Next]_vars PROVE StoreInv'
        OBVIOUS
    <1>0. ASSUME NEW r, Respond(r) PROVE pc' \in {"append", "failed"}
        BY <1>0 DEF Respond
    <1>1. CASE AnswerFixed
        <2>1. verdict' = "none" /\ pc' \in {"append", "failed"}
            BY <1>0, <1>1 DEF AnswerFixed, StoreInv, stringVars
        <2> QED BY <2>1 DEF StoreInv
    <1>2. CASE Shorten
        BY <1>2 DEF Shorten, StoreInv
    <1>3. CASE ReadString
        BY <1>3 DEF ReadString, StoreInv
    <1>4. CASE Create
        <2>1. /\ url = None /\ UNCHANGED <<out, verdict>>
            BY <1>4 DEF Create, StoreInv, stringVars
        <2>2. pc' \in {"append", "failed"}
            BY <1>0, <1>4 DEF Create
        <2>3. url' # None <=> Acceptable
            <3>1. out # None
                BY NoneAssumption DEF StringInv
            <3> QED BY <1>4, <2>1, <3>1 DEF Create
        <2>4. url' # None <=> verdict' = "decoded" /\ ValidOriginalUrl(out')
            BY <2>1, <2>3, AcceptableIsValid
        <2> QED BY <2>2, <2>4 DEF StoreInv
    <1>5. CASE Visit
        <2>1. /\ pc = "sent" /\ UNCHANGED <<out, verdict, url>>
            BY <1>5 DEF Visit, stringVars
        <2>2. pc' \in {"append", "failed"}
            BY <1>0, <1>5 DEF Visit
        <2> QED BY <2>1, <2>2 DEF StoreInv
    <1>6. CASE AppendPiece
        <2>1. /\ pc = "append" /\ UNCHANGED <<out, verdict, url>>
              /\ pc' \in {"append", "sent", "failed"}
            BY <1>6 DEF AppendPiece, stringVars
        <2> QED BY <2>1 DEF StoreInv
    <1>7. CASE UNCHANGED vars
        BY <1>7 DEF vars, stringVars, StoreInv
    <1> QED BY <1>1, <1>2, <1>3, <1>4, <1>5, <1>6, <1>7 DEF Next

(* What is stored is an original URL as the product specification says,    *)
(* and what was refused is none (StoresOriginalUrls).                      *)
THEOREM OriginalUrlsAreStored == Spec => []StoresOriginalUrls
    <1>1. Init => StringInv /\ StoreInv
        BY StringAssumption DEF Init, StringInit, StringInv, StoreInv
    <1>2. StringInv /\ StoreInv /\ [Next]_vars => (StringInv /\ StoreInv)'
        BY NextString, NextStore
    <1>3. StringInv /\ StoreInv => StoresOriginalUrls
        <2> SUFFICES ASSUME StringInv, StoreInv PROVE StoresOriginalUrls
            OBVIOUS
        <2>1. ValidOriginalUrl(out) <=> IsOriginalUrl(out)
            BY ValidIsOriginal DEF StringInv
        <2> QED BY <2>1 DEF StoreInv, StoresOriginalUrls
    <1> QED BY <1>1, <1>2, <1>3, PTL DEF Spec

-----------------------------------------------------------------------------
(* A valid original URL is a Location.                                     *)
LEMMA ValidUrlsAreLocations ==
    ASSUME NEW u, ValidOriginalUrl(u)
    PROVE  CanSetLocation(u)
    <1>1. Len(u) \in 1 .. MaxUrlLength /\ Visible(u)
        BY DEF ValidOriginalUrl
    <1>2. Len(u) <= MaxLocation
        BY <1>1, UrlAssumption, ResponseAssumption, LocationAssumption
    <1>3. ValidHeaderValue(u)
        BY <1>1 DEF Visible, ValidHeaderValue
    <1> QED BY <1>2, <1>3 DEF CanSetLocation

(* Every step keeps to the text of the URL.                                *)
LEMMA NextUrl == UrlInv /\ [Next]_vars => UrlInv'
    <1> SUFFICES ASSUME UrlInv, [Next]_vars PROVE UrlInv'
        OBVIOUS
    <1> USE DEF UrlInv, RedirectsToTheText, responseVars, stringVars
    <1>0. ASSUME NEW r, Respond(r) PROVE pc' \in {"append", "failed"}
        BY <1>0 DEF Respond
    <1>1. CASE AnswerFixed \/ Shorten
        <2>1. url = None /\ url' = None /\ visited' = visited
            BY <1>1 DEF AnswerFixed, Shorten
        <2> QED BY <2>1
    <1>2. CASE ReadString
        BY <1>2 DEF ReadString
    <1>3. CASE Create
        <2>1. url = None /\ ~visited /\ visited' = visited /\ out' = out
            BY <1>3 DEF Create
        <2>2. CASE Acceptable /\ url' = out
            <3>1. pc' \in {"append", "failed"}
                BY <1>0, <1>3, <2>2 DEF Create
            <3> QED BY <2>1, <2>2, <3>1 DEF Acceptable
        <2>3. CASE url' = url
            BY <2>1, <2>3
        <2> QED BY <1>3, <2>2, <2>3 DEF Create
    <1>4. CASE Visit
        <2>1. url # None /\ url' = url /\ out' = out
            BY <1>4 DEF Visit
        <2>2. CanSetLocation(url) /\ CanInit(0, 0)
            <3>1. CanInit(0, 0)
                BY ResponseAssumption DEF CanInit, TypeSize
            <3> QED BY <2>1, <3>1, ValidUrlsAreLocations
        <2>3. response' = Response(302, 0, url, 0, 0)
              /\ pc' \in {"append", "failed"}
            BY <1>4, <2>2 DEF Visit, Respond
        <2> QED BY <2>1, <2>3 DEF Response
    <1>5. CASE AppendPiece
        <2>1. UNCHANGED <<text, pos, out, verdict, url, response, visited>>
              /\ pc' \in {"append", "sent", "failed"}
            BY <1>5 DEF AppendPiece
        <2> QED BY <2>1
    <1>6. CASE UNCHANGED vars
        BY <1>6 DEF vars
    <1> QED BY <1>1, <1>2, <1>3, <1>4, <1>5, <1>6 DEF Next

(* A stored URL is redirected to as it was stored (RedirectsToTheText).    *)
THEOREM StoredUrlsRedirect == Spec => []RedirectsToTheText
    <1>1. Init => UrlInv
        BY DEF Init, UrlInv, RedirectsToTheText
    <1>2. UrlInv => RedirectsToTheText
        BY DEF UrlInv
    <1> QED BY <1>1, <1>2, NextUrl, PTL DEF Spec

-----------------------------------------------------------------------------
(* The numbers in p add up to n: what is left to add at each of them.      *)
AddUp(p, n) ==
    \E left \in [1 .. (Len(p) + 1) -> Nat] :
        /\ left[1] = n /\ left[Len(p) + 1] = 0
        /\ \A i \in 1 .. Len(p) : left[i] = p[i] + left[i + 1]

(* The sum of one number more.                                             *)
LEMMA SumAppend ==
    ASSUME NEW p \in Seq(Nat), NEW n \in Nat, AddUp(p, n), NEW x \in Nat
    PROVE  Append(p, x) \in Seq(Nat) /\ AddUp(Append(p, x), n + x)
    <1> DEFINE q == Append(p, x)
    <1>1. PICK k \in Nat : k = Len(p)
        BY LenProperties
    <1>2. PICK left \in [1 .. (k + 1) -> Nat] :
              /\ left[1] = n /\ left[k + 1] = 0
              /\ \A i \in 1 .. k : left[i] = p[i] + left[i + 1]
        BY <1>1 DEF AddUp
    <1>3. /\ q \in Seq(Nat) /\ Len(q) = k + 1 /\ q[k + 1] = x
          /\ \A i \in 1 .. k : q[i] = p[i] /\ p[i] \in Nat
        BY <1>1, AppendProperties, ElementOfSeq
    <1> HIDE DEF q
    <1> DEFINE more == [i \in 1 .. (k + 2) |-> IF i = k + 2 THEN 0 ELSE left[i] + x]
    <1>4. more \in [1 .. (k + 2) -> Nat] /\ more[1] = n + x /\ more[k + 2] = 0
        BY <1>2
    <1>5. ASSUME NEW i \in 1 .. (k + 1)
          PROVE  more[i] = q[i] + more[i + 1]
        <2>1. CASE i = k + 1
            BY <1>2, <1>3, <2>1
        <2>2. CASE i # k + 1
            <3>1. i \in 1 .. k /\ i + 1 \in 1 .. (k + 1)
                BY <2>2
            <3>2. more[i] = left[i] + x /\ more[i + 1] = left[i + 1] + x
                BY <3>1
            <3>3. left[i] = q[i] + left[i + 1] /\ left[i + 1] \in Nat /\ q[i] \in Nat
                BY <1>2, <1>3, <3>1
            <3>4. PICK m \in Nat, y \in Nat : m = left[i + 1] /\ y = q[i]
                BY <3>3
            <3>5. y + m + x = y + (m + x)
                OBVIOUS
            <3> QED BY <3>2, <3>3, <3>4, <3>5
        <2> QED BY <2>1, <2>2
    <1> HIDE DEF more
    <1>6. Len(q) + 1 = k + 2
        BY <1>3
    <1>7. AddUp(q, n + x)
        BY <1>3, <1>4, <1>5, <1>6 DEF AddUp
    <1> QED BY <1>3, <1>7 DEF q

(* The sum of what is left behind the first number.                        *)
LEMMA SumTail ==
    ASSUME NEW p \in Seq(Nat), p # <<>>, NEW n \in Nat, AddUp(p, n)
    PROVE  /\ Tail(p) \in Seq(Nat) /\ Head(p) \in Nat /\ n - Head(p) \in Nat
           /\ AddUp(Tail(p), n - Head(p))
    <1> DEFINE q == Tail(p)
    <1>1. PICK k \in Nat \ {0} : k = Len(p)
        BY LenProperties, EmptySeq
    <1>2. PICK left \in [1 .. (k + 1) -> Nat] :
              /\ left[1] = n /\ left[k + 1] = 0
              /\ \A i \in 1 .. k : left[i] = p[i] + left[i + 1]
        BY <1>1 DEF AddUp
    <1>3. q \in Seq(Nat) /\ Len(q) = k - 1 /\ Head(p) = p[1]
        BY <1>1, HeadTailProperties
    <1>4. \A i \in 1 .. (k - 1) : q[i] = p[i + 1]
        BY <1>1, <1>3, HeadTailProperties
    <1>5. p[1] \in Nat
        BY <1>1, ElementOfSeq
    <1> HIDE DEF q
    <1> DEFINE less == [i \in 1 .. k |-> left[i + 1]]
    <1>6. left[2] \in Nat /\ left[2] = n - p[1]
        BY <1>2, <1>5
    <1>7. less \in [1 .. k -> Nat] /\ less[1] = left[2] /\ less[k] = 0
        BY <1>2
    <1>8. \A i \in 1 .. (k - 1) : less[i] = q[i] + less[i + 1]
        BY <1>2, <1>4
    <1> HIDE DEF less
    <1>9. Len(q) + 1 = k
        BY <1>3
    <1>10. AddUp(q, n - p[1])
        <2>1. less \in [1 .. (Len(q) + 1) -> Nat] /\ less[Len(q) + 1] = 0
            BY <1>7, <1>9
        <2>2. \A i \in 1 .. Len(q) : less[i] = q[i] + less[i + 1]
            BY <1>3, <1>8
        <2>3. less[1] = n - p[1]
            BY <1>6, <1>7
        <2> QED BY <2>1, <2>2, <2>3 DEF AddUp
    <1> QED BY <1>3, <1>5, <1>6, <1>10 DEF q

Adds(p, n) == p \in Seq(Nat) /\ n \in Nat /\ AddUp(p, n)

(* The pieces add up to a number of bytes: one piece more.                 *)
LEMMA AddOne ==
    ASSUME NEW p, NEW n, Adds(p, n), NEW x \in Nat
    PROVE  Adds(p \o <<x>>, n + x)
    <1>0. p \in Seq(Nat) /\ n \in Nat /\ AddUp(p, n)
        BY DEF Adds
    <1>1. Append(p, x) = p \o <<x>>
        BY <1>0, AppendIsConcat
    <1>2. Append(p, x) \in Seq(Nat) /\ AddUp(Append(p, x), n + x)
        BY <1>0, SumAppend
    <1>3. n + x \in Nat
        BY <1>0
    <1> QED BY <1>1, <1>2, <1>3 DEF Adds

(* No piece, no byte.                                                      *)
LEMMA AddNone == Adds(<<>>, 0)
    <1> DEFINE left == [i \in 1 .. 1 |-> 0]
    <1>1. left \in [1 .. (Len(<<>>) + 1) -> Nat] /\ left[1] = 0 /\ left[Len(<<>>) + 1] = 0
        BY EmptySeq
    <1>2. \A i \in 1 .. Len(<<>>) : left[i] = <<>>[i] + left[i + 1]
        BY EmptySeq
    <1> QED BY <1>1, <1>2, EmptySeq DEF Adds, AddUp

(* A tuple is concatenated piece by piece.                                 *)
LEMMA ConcatOne ==
    ASSUME NEW p \in Seq(Nat), NEW q \in Seq(Nat), NEW d \in Nat
    PROVE  p \o (q \o <<d>>) = (p \o q) \o <<d>>
    <1>1. <<d>> \in Seq(Nat)
        OBVIOUS
    <1> QED BY <1>1, ConcatAssociative

(* Two pieces are appended one after the other.                            *)
LEMMA ConcatTwo ==
    ASSUME NEW p \in Seq(Nat), NEW a \in Nat, NEW b \in Nat
    PROVE  p \o <<a, b>> = p \o <<a>> \o <<b>>
    <1> DEFINE q == <<a>>
    <1>1. q \in Seq(Nat)
        OBVIOUS
    <1>2. <<a, b>> = q \o <<b>>
        <2>1. <<a, b>> = Append(q, b)
            OBVIOUS
        <2> HIDE DEF q
        <2>2. Append(q, b) = q \o <<b>>
            BY <1>1, AppendIsConcat
        <2> QED BY <2>1, <2>2, Zenon
    <1>3. p \o q = p \o <<a>>
        OBVIOUS
    <1> HIDE DEF q
    <1>4. p \o (q \o <<b>>) = (p \o q) \o <<b>>
        BY <1>1, ConcatOne
    <1> QED BY <1>2, <1>4, <1>3, Zenon

(* So are three.                                                           *)
LEMMA ConcatThree ==
    ASSUME NEW p \in Seq(Nat), NEW a \in Nat, NEW b \in Nat, NEW c \in Nat
    PROVE  p \o <<a, b, c>> = p \o <<a>> \o <<b>> \o <<c>>
    <1> DEFINE q == <<a, b>>
    <1>1. q \in Seq(Nat)
        OBVIOUS
    <1>2. <<a, b, c>> = q \o <<c>>
        OBVIOUS
    <1>3. p \o q = p \o <<a>> \o <<b>>
        BY ConcatTwo
    <1> HIDE DEF q
    <1>4. p \o (q \o <<c>>) = (p \o q) \o <<c>>
        BY <1>1, ConcatOne
    <1> QED BY <1>2, <1>4, <1>3, Zenon

(* Three pieces more add their lengths.                                    *)
LEMMA AddThree ==
    ASSUME NEW p, NEW n, Adds(p, n), NEW a \in Nat, NEW b \in Nat, NEW c \in Nat
    PROVE  Adds(p \o <<a, b, c>>, n + a + b + c)
    <1>1. p \in Seq(Nat)
        BY DEF Adds
    <1>2. p \o <<a, b, c>> = p \o <<a>> \o <<b>> \o <<c>>
        BY <1>1, ConcatThree
    <1>3. Adds(p \o <<a>>, n + a)
        BY AddOne
    <1>4. Adds(p \o <<a>> \o <<b>>, n + a + b)
        BY <1>3, AddOne
    <1>5. Adds(p \o <<a>> \o <<b>> \o <<c>>, n + a + b + c)
        BY <1>4, AddOne
    <1> QED BY <1>2, <1>5, Zenon

(* Four pieces more add their lengths.                                     *)
LEMMA AddFour ==
    ASSUME NEW p, NEW n, Adds(p, n), NEW a \in Nat, NEW b \in Nat, NEW c \in Nat,
           NEW d \in Nat
    PROVE  Adds(p \o <<a, b, c, d>>, n + a + b + c + d)
    <1>1. p \in Seq(Nat)
        BY DEF Adds
    <1> DEFINE q == <<a, b, c>>
    <1>2. q \in Seq(Nat)
        OBVIOUS
    <1>3. <<a, b, c, d>> = q \o <<d>>
        OBVIOUS
    <1>4. Adds(p \o q, n + a + b + c)
        BY AddThree
    <1> HIDE DEF q
    <1>5. p \o (q \o <<d>>) = (p \o q) \o <<d>>
        BY <1>1, <1>2, ConcatOne
    <1>6. Adds((p \o q) \o <<d>>, n + a + b + c + d)
        BY <1>4, AddOne
    <1> QED BY <1>3, <1>5, <1>6, Zenon

(* A header adds its name, its value and two more, or nothing.             *)
LEMMA AddHeader ==
    ASSUME NEW p, NEW n, Adds(p, n), NEW name \in Nat, NEW value \in Nat
    PROVE  \E m \in 0 .. (name + value + 2) : Adds(p \o Header(name, value), n + m)
    <1>0. p \in Seq(Nat) /\ n \in Nat
        BY DEF Adds
    <1>1. CASE value = 0
        <2>1. p \o Header(name, value) = p /\ n + 0 = n
            BY <1>0, <1>1, ConcatEmptySeq DEF Header
        <2> QED BY <2>1
    <1>2. CASE value > 0
        <2>1. 2 \in Nat
            OBVIOUS
        <2>2. Adds(p \o <<name, value, 2>>, n + name + value + 2)
            BY <2>1, AddThree
        <2>3. PICK m \in 0 .. (name + value + 2) : m = name + value + 2
            OBVIOUS
        <2>4. n + name + value + 2 = n + m
            BY <1>0, <2>3
        <2>6. Header(name, value) = <<name, value, 2>>
            BY <1>2 DEF Header
        <2>7. Adds(p \o Header(name, value), n + m)
            BY <2>1, <2>2, <2>4, <2>6, Zenon
        <2> QED BY <2>7
    <1> QED BY <1>1, <1>2

(* What a response is that starts to be serialized.                        *)
Sendable(r) ==
    /\ r.status \in Status
    /\ r.type \in 0 .. (TypeSize - 1) /\ r.allow \in 0 .. (AllowSize - 1)
    /\ r.body \in 0 .. MaxBody
    /\ Len(r.location) \in 0 .. MaxLocation /\ ValidHeaderValue(r.location)

(* The longest reason phrase has 21 characters.                            *)
LEMMA ReasonLengths ==
    ASSUME NEW status \in Status
    PROVE  ReasonLength(status) \in 0 .. 21
    BY DEF Status, ReasonLength

(* AddOne for pieces whose sum is known to be a number.                    *)
LEMMA AddedOne ==
    \A p : \A n \in Nat : \A x \in Nat : Adds(p, n) => Adds(p \o <<x>>, n + x)
    BY AddOne

(* Its pieces add up to no more than there is room for.                    *)
LEMMA PiecesAddUp ==
    ASSUME NEW r, Sendable(r)
    PROVE  /\ Serializable(r) /\ Pieces(r) # <<>>
           /\ \E n \in 0 .. ResponseSize : Adds(Pieces(r), n)
    <1>0. /\ MaxBody \in 21 .. 9999 /\ MaxLocation \in Nat /\ ResponseSize \in Nat
          /\ ResponseSize >= 256 + MaxLocation + MaxBody
        BY ResponseAssumption
    <1>2. PICK reason \in 0 .. 21 : reason = ReasonLength(r.status)
        BY ReasonLengths DEF Sendable
    <1>3. PICK type \in 0 .. (TypeSize - 1) : type = r.type
        BY DEF Sendable
    <1>4. PICK allow \in 0 .. (AllowSize - 1) : allow = r.allow
        BY DEF Sendable
    <1>5. PICK body \in 0 .. MaxBody : body = r.body
        BY DEF Sendable
    <1>6. PICK location \in 0 .. MaxLocation : location = Len(r.location)
        BY DEF Sendable
    <1>7. type \in 0 .. 63 /\ allow \in 0 .. 15
        BY DEF TypeSize, AllowSize
    <1>8. PICK digits \in 1 .. 4 : digits = DigitsOf(r.body)
        BY DEF DigitsOf
    <1>9. Serializable(r)
        <2>1. type < TypeSize /\ allow < AllowSize /\ body <= MaxBody
              /\ location <= MaxLocation
            BY <1>0, <1>7 DEF TypeSize, AllowSize
        <2>2. CanInit(r.type, r.body) /\ CanSetAllow(r.allow)
            BY <1>3, <1>4, <1>5, <2>1 DEF CanInit, CanSetAllow
        <2>3. CanSetLocation(r.location)
            BY <1>6, <2>1 DEF CanSetLocation, Sendable
        <2> QED BY <2>2, <2>3 DEF Serializable, Sendable
    <1> DEFINE p0 == <<9, 3, 1, reason, 2>>
               p1 == p0 \o Header(14, type)
               p2 == p1 \o Header(10, location)
               p3 == p2 \o Header(7, allow)
               p4 == p3 \o <<16, digits, 23, body>>
    <1>10. Adds(p0, 15 + reason)
        <2>1. p0 = <<>> \o <<9>> \o <<3>> \o <<1>> \o <<reason>> \o <<2>>
            OBVIOUS
        <2>2. Adds(<<>> \o <<9>>, 9)
            <3>1. Adds(<<>> \o <<9>>, 0 + 9)
                BY AddNone, AddOne
            <3> QED BY <3>1
        <2>3. Adds(<<>> \o <<9>> \o <<3>>, 12)
            BY <2>2, AddedOne
        <2>4. Adds(<<>> \o <<9>> \o <<3>> \o <<1>>, 13)
            BY <2>3, AddedOne
        <2>6. Adds(<<>> \o <<9>> \o <<3>> \o <<1>> \o <<reason>>, 13 + reason)
            BY <2>4, AddedOne
        <2>7. Adds(<<>> \o <<9>> \o <<3>> \o <<1>> \o <<reason>> \o <<2>>,
                   13 + reason + 2)
            BY <2>6, AddedOne
        <2> HIDE DEF p0
        <2>8. 13 + reason + 2 = 15 + reason
            OBVIOUS
        <2> QED BY <2>1, <2>7, <2>8, Zenon
    <1> HIDE DEF p0
    <1>11. PICK a \in 0 .. (14 + type + 2) : Adds(p1, 15 + reason + a)
        <2>1. 14 \in Nat /\ type \in Nat
            BY <1>7
        <2> QED BY <1>10, <2>1, AddHeader, Zenon
    <1> HIDE DEF p1
    <1>12. PICK b \in 0 .. (10 + location + 2) : Adds(p2, 15 + reason + a + b)
        <2>1. 10 \in Nat /\ location \in Nat
            BY <1>0
        <2> QED BY <1>11, <2>1, AddHeader, Zenon
    <1> HIDE DEF p2
    <1>13. PICK c \in 0 .. (7 + allow + 2) : Adds(p3, 15 + reason + a + b + c)
        <2>1. 7 \in Nat /\ allow \in Nat
            BY <1>7
        <2> QED BY <1>12, <2>1, AddHeader, Zenon
    <1> HIDE DEF p3
    <1>14. p3 \in Seq(Nat)
        BY <1>13 DEF Adds
    <1>15. PICK n \in 0 .. ResponseSize : Adds(p4, n)
        <2>1. digits \in Nat /\ body \in Nat /\ 16 \in Nat /\ 23 \in Nat
            BY <1>0
        <2>2. PICK m \in Nat : m = 15 + reason + a + b + c
            BY <1>0, <1>7
        <2>3. Adds(p4, m + 16 + digits + 23 + body)
            BY <1>13, <2>1, <2>2, AddFour
        <2>4. m + 16 + digits + 23 + body \in 0 .. ResponseSize
            BY <1>0, <1>7, <2>2
        <2> QED BY <2>3, <2>4
    <1>16. p4 = Pieces(r)
        BY <1>2, <1>3, <1>4, <1>5, <1>6, <1>8 DEF Pieces, p0, p1, p2, p3
    <1>17. p4 # <<>>
        <2>1. /\ <<16, digits, 23, body>> \in Seq(Nat)
              /\ Len(<<16, digits, 23, body>>) = 4
            BY <1>0
        <2>2. <<16, digits, 23, body>> # <<>>
            BY <2>1, EmptySeq
        <2> QED BY <1>14, <2>1, <2>2, ConcatSimplifications
    <1> HIDE DEF p4
    <1> QED BY <1>9, <1>15, <1>16, <1>17

-----------------------------------------------------------------------------
(* All the responses of the program can be sent.                           *)
LEMMA ResponsesAreSendable ==
    ASSUME NEW status \in Status, NEW type \in 0 .. (TypeSize - 1),
           NEW allow \in 0 .. (AllowSize - 1), NEW body \in 0 .. MaxBody
    PROVE  Sendable(Response(status, type, <<>>, allow, body))
    <1>1. Len(<<>>) \in 0 .. MaxLocation
        BY EmptySeq, ResponseAssumption
    <1>2. ValidHeaderValue(<<>>)
        BY DEF ValidHeaderValue
    <1> QED BY <1>1, <1>2 DEF Sendable, Response

(* An error carries its reason phrase as its body.                         *)
LEMMA ErrorsAreSendable ==
    ASSUME NEW status \in Status
    PROVE  Sendable(Error(status))
    <1>1. ReasonLength(status) \in 0 .. MaxBody
        <2>1. PICK n \in 0 .. 21 : n = ReasonLength(status)
            BY ReasonLengths
        <2>2. n \in 0 .. MaxBody
            BY ResponseAssumption
        <2> QED BY <2>1, <2>2
    <1>2. PlainText \in 0 .. (TypeSize - 1) /\ 0 \in 0 .. (AllowSize - 1)
        BY DEF PlainText, TypeSize, AllowSize
    <1> QED BY <1>1, <1>2, ResponsesAreSendable DEF Error

(* The responses that depend on no URL can be sent.                        *)
LEMMA FixedAreSendable == \A r \in FixedResponses : Sendable(r)
    <1> SUFFICES ASSUME NEW r \in FixedResponses PROVE Sendable(r)
        OBVIOUS
    <1>1. CASE \E s \in {400, 404, 500, 501} : r = Error(s)
        BY <1>1, ErrorsAreSendable DEF Status
    <1>2. CASE \E n \in {3, 4} : r = [Error(405) EXCEPT !.allow = n]
        <2>1. PICK n \in {3, 4} : r = [Error(405) EXCEPT !.allow = n]
            BY <1>2
        <2>2. r = Response(405, PlainText, <<>>, n, ReasonLength(405))
            BY <2>1 DEF Error, Response
        <2>3. ReasonLength(405) \in 0 .. MaxBody
            <3>1. 405 \in Status
                BY DEF Status
            <3>2. PICK k \in 0 .. 21 : k = ReasonLength(405)
                BY <3>1, ReasonLengths
            <3>3. k \in 0 .. MaxBody
                BY ResponseAssumption
            <3> QED BY <3>2, <3>3
        <2>4. /\ PlainText \in 0 .. (TypeSize - 1) /\ n \in 0 .. (AllowSize - 1)
              /\ 405 \in Status
            BY DEF PlainText, TypeSize, AllowSize, Status
        <2> QED BY <2>2, <2>3, <2>4, ResponsesAreSendable
    <1>3. CASE r = Response(200, PlainText, <<>>, 0, 2)
        <2>1. /\ PlainText \in 0 .. (TypeSize - 1) /\ 0 \in 0 .. (AllowSize - 1)
              /\ 200 \in Status /\ 2 \in 0 .. MaxBody
            BY ResponseAssumption DEF PlainText, TypeSize, AllowSize, Status
        <2> QED BY <1>3, <2>1, ResponsesAreSendable
    <1>4. CASE r = Response(200, Html, <<>>, 0, PageLength)
        <2>1. /\ Html \in 0 .. (TypeSize - 1) /\ 0 \in 0 .. (AllowSize - 1)
              /\ 200 \in Status
            BY DEF Html, TypeSize, AllowSize, Status
        <2> QED BY <1>4, <2>1, PageAssumption, ResponsesAreSendable
    <1> QED BY <1>1, <1>2, <1>3, <1>4 DEF FixedResponses

(* What is in the buffer and what is still to come fit together.           *)
SerialInv ==
    /\ pc \in {"request", "string", "append", "sent"}
    /\ written \in 0 .. ResponseSize
    /\ pc = "append" =>
          /\ pieces # <<>>
          /\ \E n \in Nat : Adds(pieces, n) /\ written + n <= ResponseSize

(* A response that starts to be serialized fits.                           *)
LEMMA RespondFits ==
    ASSUME NEW r, Sendable(r), Respond(r)
    PROVE  SerialInv'
    <1>1. Serializable(r) /\ Pieces(r) # <<>>
        BY PiecesAddUp
    <1>2. PICK n \in 0 .. ResponseSize : Adds(Pieces(r), n)
        BY PiecesAddUp
    <1>3. pc' = "append" /\ pieces' = Pieces(r) /\ written' = 0
        BY <1>1 DEF Respond
    <1>4. 0 \in 0 .. ResponseSize /\ n \in Nat /\ 0 + n <= ResponseSize
        BY ResponseAssumption
    <1> QED BY <1>1, <1>2, <1>3, <1>4 DEF SerialInv, Adds, AddUp

(* Every step keeps within the buffer of the response.                     *)
LEMMA NextSerial == UrlInv /\ SerialInv /\ [Next]_vars => SerialInv'
    <1> SUFFICES ASSUME UrlInv, SerialInv, [Next]_vars PROVE SerialInv'
        OBVIOUS
    <1>1. CASE AnswerFixed
        BY <1>1, FixedAreSendable, RespondFits DEF AnswerFixed
    <1>2. CASE Shorten \/ ReadString \/ UNCHANGED vars
        BY <1>2 DEF Shorten, ReadString, vars, responseVars, SerialInv
    <1>3. CASE Create
        <2>1. Sendable(Error(400)) /\ Sendable(Error(500))
            BY ErrorsAreSendable DEF Status
        <2>2. ASSUME NEW n \in CreationLengths, CanInit(Json, n)
              PROVE  Sendable(Response(201, Json, <<>>, 0, n))
            <3>1. n \in 0 .. MaxBody
                BY <2>2, ResponseAssumption DEF CreationLengths, CanInit
            <3>2. /\ Json \in 0 .. (TypeSize - 1) /\ 0 \in 0 .. (AllowSize - 1)
                  /\ 201 \in Status
                BY DEF Json, TypeSize, AllowSize, Status
            <3> QED BY <3>1, <3>2, ResponsesAreSendable
        <2> QED BY <1>3, <2>1, <2>2, RespondFits DEF Create
    <1>4. CASE Visit
        <2>1. url # None /\ CanSetLocation(url)
            BY <1>4, ValidUrlsAreLocations DEF Visit, UrlInv
        <2>2. Sendable(Response(302, 0, url, 0, 0))
            <3>1. ValidOriginalUrl(url)
                BY <2>1 DEF UrlInv
            <3>2. PICK n \in 1 .. MaxUrlLength : n = Len(url)
                BY <3>1 DEF ValidOriginalUrl
            <3>3. n \in 0 .. MaxLocation
                BY <3>2, UrlAssumption, LocationAssumption, ResponseAssumption
            <3>4. /\ 0 \in 0 .. (TypeSize - 1) /\ 0 \in 0 .. (AllowSize - 1)
                  /\ 302 \in Status /\ 0 \in 0 .. MaxBody
                BY ResponseAssumption DEF TypeSize, AllowSize, Status
            <3> QED BY <2>1, <3>2, <3>3, <3>4 DEF Sendable, Response, CanSetLocation
        <2>3. Sendable(Error(500))
            BY ErrorsAreSendable DEF Status
        <2> QED BY <1>4, <2>2, <2>3, RespondFits DEF Visit
    <1>5. CASE AppendPiece
        <2>1. pieces # <<>> /\ written \in 0 .. ResponseSize
            BY <1>5 DEF AppendPiece, SerialInv
        <2>2. PICK n \in Nat : Adds(pieces, n) /\ written + n <= ResponseSize
            BY <1>5 DEF AppendPiece, SerialInv
        <2>3. /\ Tail(pieces) \in Seq(Nat) /\ Head(pieces) \in Nat
              /\ n - Head(pieces) \in Nat /\ AddUp(Tail(pieces), n - Head(pieces))
            BY <2>1, <2>2, SumTail DEF Adds
        <2>4. PICK h \in Nat : h = Head(pieces)
            BY <2>3
        <2>5. n - h \in Nat
            BY <2>3, <2>4
        <2>6. h <= ResponseSize - written /\ written + h \in 0 .. ResponseSize
            <3>1. PICK w \in Nat : w = written
                BY <2>1
            <3>2. w + n <= ResponseSize /\ ResponseSize \in Nat
                BY <2>2, <3>1, ResponseAssumption
            <3>3. h <= ResponseSize - w /\ w + h \in 0 .. ResponseSize
                BY <2>5, <3>2
            <3> QED BY <3>1, <3>3
        <2>7. /\ written' = written + h /\ pieces' = Tail(pieces)
              /\ pc' = IF Tail(pieces) = <<>> THEN "sent" ELSE "append"
            BY <1>5, <2>1, <2>4, <2>6, ResponseAssumption DEF AppendPiece
        <2>8. written + h + (n - h) <= ResponseSize
            BY <2>1, <2>2, <2>4, ResponseAssumption
        <2>9. Adds(Tail(pieces), n - h)
            BY <2>3, <2>4 DEF Adds
        <2>10. \E m \in Nat : Adds(pieces', m) /\ written' + m <= ResponseSize
            BY <2>7, <2>8, <2>9, <2>5
        <2> QED BY <2>6, <2>7, <2>10 DEF SerialInv, Adds, AddUp
    <1> QED BY <1>1, <1>2, <1>3, <1>4, <1>5 DEF Next

(* Every response fits in the buffer it is serialized in (ResponsesFit).   *)
THEOREM EveryResponseFits == Spec => []ResponsesFit
    <1>1. Init => UrlInv /\ SerialInv
        BY ResponseAssumption DEF Init, UrlInv, RedirectsToTheText, SerialInv
    <1>2. UrlInv /\ SerialInv /\ [Next]_vars => (UrlInv /\ SerialInv)'
        BY NextUrl, NextSerial
    <1>3. UrlInv /\ SerialInv => ResponsesFit
        BY ResponseAssumption DEF SerialInv, ResponsesFit
    <1> QED BY <1>1, <1>2, <1>3, PTL DEF Spec
=============================================================================
