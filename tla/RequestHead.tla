---------------------------- MODULE RequestHead -----------------------------
(***************************************************************************)
(* The request line and the headers in http_parse_request                  *)
(* (src/src/http.c:131-243), once the whole head is there and all its line *)
(* endings are CR LF; HttpFraming takes the result as HeadVerdict.  A line *)
(* is a sequence of symbols: single characters, one of each kind the code  *)
(* tells apart, and the words it compares with, in any spelling that       *)
(* compares equal.                                                         *)
(***************************************************************************)
EXTENDS Integers, Sequences, FiniteSets

CONSTANTS
    HeadSymbol,  \* the symbols in lines
    Heads,       \* the heads: sequences of lines, the first not a header
    MaxTarget,   \* HTTP_MAX_TARGET_BYTES: 2048
    MaxSize      \* SIZE_MAX

ASSUME HeadAssumption ==
    /\ MaxTarget \in Nat /\ MaxSize \in Nat
    /\ {"SP", "HTTP/1.0", "HTTP/1.1"} \subseteq HeadSymbol
    /\ \A h \in Heads : h \in Seq(Seq(HeadSymbol)) /\ h # <<>>

SP == "SP"
HTAB == "TAB"
Control == {"TAB", "NUL", "DEL"}
Digits == <<"0", "1", "2", "3", "4", "5", "6", "7", "8", "9">>
IsDigit(s) == \E i \in DOMAIN Digits : Digits[i] = s
DigitOf(s) == (CHOOSE i \in DOMAIN Digits : Digits[i] = s) - 1

(* is_token_char: letters, digits and some punctuation, and NUL, which     *)
(* strchr finds at the end of its string.                                  *)
IsToken(s) ==
    s \in {"GET", "POST", "Content-Length", "Transfer-Encoding", "x", "NUL"}
    \/ IsDigit(s)

VARIABLES
    lines,      \* the head
    cursor,     \* how many of its lines were read
    method, target, contentLength,
    count,      \* content_length_count
    transfer,   \* has_transfer_encoding
    verdict

headVars == <<lines, cursor, method, target, contentLength, count, transfer, verdict>>

HeadInit ==
    /\ lines \in Heads /\ cursor = 0
    /\ method = "none" /\ target = <<>> /\ contentLength = 0
    /\ count = 0 /\ transfer = FALSE
    /\ verdict = "none"

(* memchr: the first s in line at i or behind it, or 0.                    *)
Find(line, s, i) ==
    IF \E k \in i .. Len(line) : line[k] = s
    THEN CHOOSE k \in i .. Len(line) :
            line[k] = s /\ \A m \in i .. (k - 1) : line[m] # s
    ELSE 0

First(line) == Find(line, SP, 1)
Second(line) == Find(line, SP, First(line) + 1)

IsBadRequestLine(line) ==
    \/ First(line) \in {0, 1}
    \/ Second(line) \in {0, First(line) + 1}
    \/ Find(line, SP, Second(line) + 1) # 0
    \/ \E i \in 1 .. (First(line) - 1) : ~IsToken(line[i])
    \/ SubSeq(line, Second(line) + 1, Len(line))
           \notin {<<"HTTP/1.0">>, <<"HTTP/1.1">>}
    \/ Second(line) - First(line) - 1 > MaxTarget
    \/ \E i \in (First(line) + 1) .. (Second(line) - 1) : line[i] \in Control

MethodOf(line) ==
    LET word == SubSeq(line, 1, First(line) - 1)
    IN  IF word \in {<<"GET">>, <<"POST">>} THEN word[1] ELSE "OTHER"

RequestLine ==
    /\ verdict = "none" /\ cursor = 0
    /\ cursor' = 1
    /\ LET line == lines[1] IN
         \/ /\ IsBadRequestLine(line)
            /\ verdict' = "BAD_REQUEST"
            /\ UNCHANGED <<method, target>>
         \/ /\ ~IsBadRequestLine(line)
            /\ method' = MethodOf(line)
            /\ target' = SubSeq(line, First(line) + 1, Second(line) - 1)
            /\ UNCHANGED verdict
    /\ UNCHANGED <<lines, contentLength, count, transfer>>

-----------------------------------------------------------------------------
IsBlank(s) == s \in {SP, HTAB}

(* The value between the colon and the end of the line, trimmed.           *)
ValueOf(line, colon) ==
    LET From == {i \in (colon + 1) .. Len(line) : ~IsBlank(line[i])}
    IN  IF From = {} THEN <<>>
        ELSE SubSeq(line, CHOOSE i \in From : \A k \in From : i <= k,
                          CHOOSE i \in From : \A k \in From : i >= k)

(* Seeded fault: the last digit is forgotten in the test.                  *)
WouldOverflowNoDigit(result, digit) == result > MaxSize \div 10

WouldOverflow(result, digit) == result > (MaxSize - digit) \div 10

(* parse_decimal_size: the number, or -1.  Multiplication wraps.           *)
Decimal(value) ==
    LET prefix[n \in 0 .. Len(value)] ==
            IF n = 0 THEN 0
            ELSE IF prefix[n - 1] = -1 \/ ~IsDigit(value[n]) THEN -1
            ELSE IF WouldOverflow(prefix[n - 1], DigitOf(value[n])) THEN -1
            ELSE (prefix[n - 1] * 10 + DigitOf(value[n])) % (MaxSize + 1)
    IN  IF value = <<>> THEN -1 ELSE prefix[Len(value)]

IsBadField(line) ==
    LET colon == Find(line, ":", 1)
        value == ValueOf(line, colon) IN
    \/ colon \in {0, 1}
    \/ \E i \in 1 .. (colon - 1) : ~IsToken(line[i])
    \/ \E i \in DOMAIN value : value[i] \in Control \ {HTAB}

NameOf(line) == SubSeq(line, 1, Find(line, ":", 1) - 1)

Bad == verdict' = "BAD_REQUEST" /\ UNCHANGED <<count, contentLength, transfer>>

(* One header.                                                             *)
HeaderLine ==
    /\ verdict = "none" /\ cursor \in 1 .. (Len(lines) - 1)
    /\ cursor' = cursor + 1
    /\ LET line == lines[cursor + 1]
           number == Decimal(ValueOf(line, Find(line, ":", 1))) IN
         \/ IsBadField(line) /\ Bad
         \/ /\ ~IsBadField(line) /\ NameOf(line) = <<"Content-Length">>
            /\ \/ (count = 1 \/ number = -1) /\ Bad
               \/ /\ count = 0 /\ number # -1
                  /\ count' = 1 /\ contentLength' = number
                  /\ UNCHANGED <<transfer, verdict>>
         \/ /\ ~IsBadField(line) /\ NameOf(line) # <<"Content-Length">>
            /\ transfer' = (transfer \/ NameOf(line) = <<"Transfer-Encoding">>)
            /\ UNCHANGED <<count, contentLength, verdict>>
    /\ UNCHANGED <<lines, method, target>>

(* The end of the head.                                                    *)
EndOfHead ==
    /\ verdict = "none" /\ cursor = Len(lines)
    /\ verdict' = IF transfer THEN "UNSUPPORTED_TRANSFER" ELSE "OK"
    /\ UNCHANGED <<lines, cursor, method, target, contentLength, count, transfer>>

HeadNext == RequestLine \/ HeaderLine \/ EndOfHead

HeadSpec == HeadInit /\ [][HeadNext]_headVars

-----------------------------------------------------------------------------
(* The characters of tokens in the grammar of HTTP, and what the code      *)
(* takes for them.                                                         *)
Token == {"GET", "POST", "Content-Length", "Transfer-Encoding", "x"}
         \cup {Digits[i] : i \in DOMAIN Digits}
TokenOrNul == Token \cup {"NUL"}

(* request-line = token SP target SP version; a target is visible.         *)
IsRequestLine(line, m, t, token) ==
    \E version \in {"HTTP/1.0", "HTTP/1.1"} :
        /\ line = m \o <<SP>> \o t \o <<SP, version>>
        /\ m # <<>> /\ \A i \in DOMAIN m : m[i] \in token
        /\ t # <<>> /\ Len(t) <= MaxTarget
        /\ \A i \in DOMAIN t : t[i] \notin Control \cup {SP}

Parts(line) ==
    {SubSeq(line, i, j) : i \in 1 .. (Len(line) + 1), j \in 0 .. Len(line)}

(* field-line = token ":" OWS value OWS, with the token in front of        *)
(* position colon and the value from a to b.                               *)
IsField(line, colon, a, b, token) ==
    /\ line[colon] = ":" /\ colon > 1
    /\ \A i \in 1 .. (colon - 1) : line[i] \in token
    /\ \A i \in (colon + 1) .. (a - 1) : IsBlank(line[i])
    /\ \A i \in (b + 1) .. Len(line) : IsBlank(line[i])
    /\ \A i \in a .. b : line[i] \notin {"NUL", "DEL"}
    /\ a > b \/ (~IsBlank(line[a]) /\ ~IsBlank(line[b]))

Fields == 2 .. Len(lines)

(* Header i is a field with that name and a value for which P holds.       *)
Has(i, P(_, _), token) ==
    \E colon \in DOMAIN lines[i] :
        \E a \in (colon + 1) .. (Len(lines[i]) + 1), b \in colon .. Len(lines[i]) :
            /\ IsField(lines[i], colon, a, b, token)
            /\ P(SubSeq(lines[i], 1, colon - 1), SubSeq(lines[i], a, b))

Named(i, name, token) == Has(i, LAMBDA n, v : n = name, token)

(* The number a value denotes, however long it is; nothing else has one.   *)
Number(digits) ==
    LET prefix[n \in 0 .. Len(digits)] ==
            IF n = 0 THEN 0 ELSE prefix[n - 1] * 10 + DigitOf(digits[n])
    IN  prefix[Len(digits)]

IsLength(i, N, token) ==
    Has(i, LAMBDA n, v : /\ n = <<"Content-Length">> /\ v # <<>>
                         /\ \A k \in DOMAIN v : IsDigit(v[k])
                         /\ Number(v) \in N,
        token)

Lengths(token) == {i \in Fields : Named(i, <<"Content-Length">>, token)}

IsWellFormed(token) ==
    /\ \E m, t \in Parts(lines[1]) : IsRequestLine(lines[1], m, t, token)
    /\ \A i \in Fields : Has(i, LAMBDA n, v : TRUE, token)
    /\ Cardinality(Lengths(token)) <= 1
    /\ \A i \in Lengths(token) : IsLength(i, 0 .. MaxSize, token)

(* The scan with its cursors accepts the heads that the grammar of HTTP    *)
(* describes when NUL is added to its token characters (without NUL it is  *)
(* MalformedIsRefused that says so), whatever the order of the headers and *)
(* the blanks around their values: a length is taken exactly, never modulo *)
(* 2^64, and only if it is the only one, and one Transfer-Encoding among   *)
(* any other headers is enough for 501.                                    *)
HeadIsUnderstood ==
    verdict # "none" =>
        /\ verdict = "BAD_REQUEST" <=> ~IsWellFormed(TokenOrNul)
        /\ verdict # "BAD_REQUEST" =>
              /\ \E m \in Parts(lines[1]) :
                    /\ IsRequestLine(lines[1], m, target, TokenOrNul)
                    /\ method = IF m \in {<<"GET">>, <<"POST">>} THEN m[1]
                                ELSE "OTHER"
              /\ (verdict = "UNSUPPORTED_TRANSFER") <=>
                    \E i \in Fields : Named(i, <<"Transfer-Encoding">>, TokenOrNul)
              /\ count = Cardinality(Lengths(TokenOrNul))
              /\ \A i \in Lengths(TokenOrNul) :
                    IsLength(i, {contentLength}, TokenOrNul)

(* docs/product-specs/url-shortener-v1.md:104: "Other malformed requests   *)
(* return HTTP 400.", and a NUL in a method or in the name of a header is  *)
(* malformed.                                                              *)
MalformedIsRefused ==
    verdict # "none" /\ ~IsWellFormed(Token) => verdict = "BAD_REQUEST"
=============================================================================
