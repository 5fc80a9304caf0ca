---------------------------- MODULE JsonStrings -----------------------------
(***************************************************************************)
(* json_parse_string (src/src/http.c:272-482): it decodes the string at    *)
(* the parser's position into a buffer, one character or one escape in     *)
(* each iteration.  A text is a sequence of bytes.                         *)
(***************************************************************************)
EXTENDS Integers, Sequences

CONSTANTS
    Text,       \* what may follow an opening quotation mark in a body
    OutputSize  \* the size of the buffer: HTTP_MAX_BODY_BYTES or one more

Byte == 0 .. 255

ASSUME StringAssumption ==
    /\ Text \subseteq Seq(Byte)
    /\ OutputSize \in Nat
    /\ \A t \in Text : Len(t) <= OutputSize

Quote == 34
Backslash == 92
SmallU == 117

VARIABLES
    text,       \* the rest of the body behind the opening quotation mark
    pos,        \* parser->current
    out,        \* the bytes that were appended to the buffer
    verdict     \* what the function returns

stringVars == <<text, pos, out, verdict>>

(* The value of a hexadecimal digit, -1 for another byte.                  *)
HexValue(b) ==
    CASE b \in 48 .. 57 -> b - 48
      [] b \in 97 .. 102 -> b - 87
      [] b \in 65 .. 70 -> b - 55
      [] OTHER -> -1

IsHex(b) == HexValue(b) >= 0

(* parse_hex4: whether four digits are at i, and their value.              *)
HasHex4(s, i) == i + 3 <= Len(s) /\ \A k \in i .. (i + 3) : IsHex(s[k])

Hex4(s, i) ==
    4096 * HexValue(s[i]) + 256 * HexValue(s[i + 1])
    + 16 * HexValue(s[i + 2]) + HexValue(s[i + 3])

(* append_codepoint.  The bits that are combined there by | are disjoint.  *)
Utf8(c) ==
    IF c <= 127 THEN <<c>>
    ELSE IF c <= 2047 THEN <<192 + c \div 64, 128 + (c % 64)>>
    ELSE IF c <= 65535 THEN
        <<224 + c \div 4096, 128 + ((c \div 64) % 64), 128 + (c % 64)>>
    ELSE <<240 + c \div 262144, 128 + ((c \div 4096) % 64),
           128 + ((c \div 64) % 64), 128 + (c % 64)>>

(* valid_utf8_length, without its first case, which no caller needs: the   *)
(* length of the character whose first byte, above 127, is at i, or 0.     *)
Utf8Length(s, i) ==
    LET Follows(n) == /\ i + n <= Len(s)
                      /\ \A k \in (i + 1) .. (i + n) : s[k] \in 128 .. 191
    IN  IF s[i] \in 194 .. 223 /\ Follows(1) THEN 2
        ELSE IF /\ s[i] \in 224 .. 239 /\ Follows(2)
                /\ ~(s[i] = 224 /\ s[i + 1] < 160)
                /\ ~(s[i] = 237 /\ s[i + 1] >= 160) THEN 3
        ELSE IF /\ s[i] \in 240 .. 244 /\ Follows(3)
                /\ ~(s[i] = 240 /\ s[i + 1] < 144)
                /\ ~(s[i] = 244 /\ s[i + 1] > 143) THEN 4
        ELSE 0

(* What one iteration makes of the bytes at i: how many it reads and what  *)
(* it appends for them; it reads 0 bytes where it returns false.           *)
Item(used, bytes) == [used |-> used, bytes |-> bytes]
Refused == Item(0, <<>>)

(* The escapes of one character: \" \\ \/ \b \f \n \r \t                   *)
ShortEscape == {34, 92, 47, 98, 102, 110, 114, 116}
Meaning(b) ==
    CASE b = 98 -> 8 [] b = 102 -> 12 [] b = 110 -> 10 [] b = 114 -> 13
      [] b = 116 -> 9 [] OTHER -> b

HighSurrogate == 55296 .. 56319
LowSurrogate == 56320 .. 57343

(* Seeded fault: any two escaped code units make a pair.                   *)
HasLowUnchecked(s, i) ==
    i + 5 <= Len(s) /\ s[i] = Backslash /\ s[i + 1] = SmallU /\ HasHex4(s, i + 2)

HasLow(s, i) ==
    /\ i + 5 <= Len(s) /\ s[i] = Backslash /\ s[i + 1] = SmallU
    /\ HasHex4(s, i + 2) /\ Hex4(s, i + 2) \in LowSurrogate

Paired(high, low) == 65536 + 1024 * (high - 55296) + (low - 56320)

UnicodeEscape(s, i) ==
    IF ~HasHex4(s, i + 2) \/ Hex4(s, i + 2) \in LowSurrogate THEN Refused
    ELSE IF Hex4(s, i + 2) \notin HighSurrogate
        THEN Item(6, Utf8(Hex4(s, i + 2)))
    ELSE IF HasLow(s, i + 6)
        THEN Item(12, Utf8(Paired(Hex4(s, i + 2), Hex4(s, i + 8))))
    ELSE Refused

(* Seeded fault: only the first byte of a character is passed over.        *)
RawCharacterRescanned(s, i) ==
    IF Utf8Length(s, i) = 0 THEN Refused
    ELSE Item(1, SubSeq(s, i, i + Utf8Length(s, i) - 1))

RawCharacter(s, i) ==
    IF Utf8Length(s, i) = 0 THEN Refused
    ELSE Item(Utf8Length(s, i), SubSeq(s, i, i + Utf8Length(s, i) - 1))

ItemAt(s, i) ==
    CASE s[i] < 32 -> Refused
      [] s[i] = Backslash ->
            (IF i + 1 > Len(s) THEN Refused
             ELSE IF s[i + 1] \in ShortEscape
                 THEN Item(2, <<Meaning(s[i + 1])>>)
             ELSE IF s[i + 1] = SmallU THEN UnicodeEscape(s, i)
             ELSE Refused)
      [] s[i] \in (32 .. 127) \ {Backslash} -> Item(1, <<s[i]>>)
      [] OTHER -> RawCharacter(s, i)

-----------------------------------------------------------------------------
StringInit == text = <<>> /\ pos = 1 /\ out = <<>> /\ verdict = "none"

Call ==
    /\ text' \in Text
    /\ pos' = 1 /\ out' = <<>> /\ verdict' = "none"

Running == verdict = "none"

(* The capacity is compared as append_byte does it, once for all bytes.    *)
Decode ==
    /\ Running /\ pos <= Len(text) /\ text[pos] # Quote
    /\ LET item == ItemAt(text, pos) IN
         /\ item.used > 0
         /\ Len(out) + Len(item.bytes) <= OutputSize
         /\ pos' = pos + item.used
         /\ out' = out \o item.bytes
    /\ UNCHANGED <<text, verdict>>

Refuse ==
    /\ Running
    /\ \/ pos > Len(text)
       \/ /\ pos <= Len(text) /\ text[pos] # Quote
          /\ LET item == ItemAt(text, pos) IN
               item.used = 0 \/ Len(out) + Len(item.bytes) > OutputSize
    /\ verdict' = "refused"
    /\ UNCHANGED <<text, pos, out>>

Finish ==
    /\ Running /\ pos <= Len(text) /\ text[pos] = Quote
    /\ verdict' = "decoded"
    /\ UNCHANGED <<text, pos, out>>

StringNext == Decode \/ Refuse \/ Finish
=============================================================================
