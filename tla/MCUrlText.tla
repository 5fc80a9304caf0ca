----------------------------- MODULE MCUrlText ------------------------------
(* Strings of three kinds, each between the quotation mark and the end of  *)
(* the body: up to four bytes around all limits of UTF-8; one or two       *)
(* escapes around all limits of code units, whole or damaged; and URLs     *)
(* that differ from a good one in one byte, or are a scheme with any three *)
(* bytes behind it.                                                        *)
EXTENDS UrlText, FiniteSets, TLC

UpTo(n, S) == UNION {[1 .. k -> S] : k \in 0 .. n}
Closed(s) == s \o <<Quote>>

HighBytes == {65, 127, 128, 143, 144, 159, 160, 191, 193, 194, 223, 224, 225,
              237, 239, 240, 241, 244, 245, 255}
RawTexts ==
    {s \in UpTo(3, HighBytes) : s # <<>> => s[1] > 127}
    \cup {<<a, b, c, 191>> : a \in 239 .. 245, b \in {127, 128, 143, 144, 191, 192},
                             c \in {127, 128, 191, 192}}

Hex == <<48, 49, 50, 51, 52, 53, 54, 55, 56, 57, 97, 66, 67, 100, 101, 70>>
Escape(unit) ==
    <<Backslash, SmallU, Hex[unit \div 4096 + 1], Hex[((unit \div 256) % 16) + 1],
      Hex[((unit \div 16) % 16) + 1], Hex[(unit % 16) + 1]>>

Escapes ==
    {Escape(u) : u \in {0, 34, 127, 128, 2047, 2048, 55295, 55296, 56319, 56320,
                        57343, 57344, 65535}}
    \cup {<<Backslash, b>> : b \in ShortEscape \cup {SmallU, 120, 34, 0}}
    \cup {<<Backslash, SmallU, 48, 48, 48>>, <<Backslash>>, <<Backslash, SmallU, 68, 56, 48, 71>>,
          <<31>>, <<0>>, <<32>>, <<Quote>>, <<195, 169>>, <<237, 176, 128>>, <<>>}

EscapeTexts == {a \o b : a \in Escapes, b \in Escapes}

(* a 4 / : [ ] % @ ? # g < space DEL, and a letter of two bytes            *)
UrlBytes == {<<97>>, <<52>>, <<47>>, <<58>>, <<91>>, <<93>>, <<37>>, <<64>>,
             <<63>>, <<35>>, <<103>>, <<60>>, <<32>>, <<127>>, <<195, 169>>}
Piece == {<<>>} \cup UrlBytes

GoodUrls == {
    Https \o <<97, 58, 52, 52>>,                    \* https://a:44
    Http \o <<91, 58, 58, 93, 58, 52, 47>>,         \* http://[::]:4/
    Http \o <<91, 58, 58, 52, 93>>,                 \* http://[::4]
    Http \o <<97, 37, 52, 97, 63, 64, 195>>,        \* not UTF-8
    Http \o <<97, 37, 52, 97, 63, 64, 58>>,         \* http://a%4a?@:
    Http \o <<97, 97, 97, 97, 97, 97, 97>>}

Replaced(s, i, p) == SubSeq(s, 1, i - 1) \o p \o SubSeq(s, i + 1, Len(s))
Inserted(s, i, p) == SubSeq(s, 1, i) \o p \o SubSeq(s, i + 1, Len(s))

UrlTexts ==
    {Http \o a \o b \o c : a \in Piece, b \in Piece, c \in Piece}
    \cup UNION {{Replaced(s, i, p) : i \in DOMAIN s, p \in Piece}
                \cup {Inserted(s, i, p) : i \in DOMAIN s, p \in Piece} : s \in GoodUrls}

MCText == {Closed(s) : s \in RawTexts \cup EscapeTexts \cup UrlTexts}
          \cup EscapeTexts \cup {<<>>}

MCIpv6 == {<<58, 58>>, <<58, 58, 52>>}              \* :: and ::4
=============================================================================
