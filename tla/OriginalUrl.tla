---------------------------- MODULE OriginalUrl -----------------------------
(***************************************************************************)
(* has_valid_original_url (src/src/shortener.c:11-153): which texts the    *)
(* shortener accepts as original URLs.  A text is a sequence of bytes      *)
(* other than NUL, and an index that is past its end stands for the end.   *)
(***************************************************************************)
EXTENDS Integers, Sequences

CONSTANTS
    MaxUrlLength,  \* SHORTENER_MAX_URL_LENGTH: 2048
    AddressSize,   \* INET6_ADDRSTRLEN: 46
    Ipv6           \* the texts that inet_pton takes for IPv6 addresses

ASSUME UrlAssumption == MaxUrlLength \in Nat \ {0} /\ AddressSize \in Nat

Http == <<104, 116, 116, 112, 58, 47, 47>>           \* http://
Https == <<104, 116, 116, 112, 115, 58, 47, 47>>     \* https://
Digits == 48 .. 57
Alphanumeric == Digits \cup (65 .. 90) \cup (97 .. 122)
HexDigits == Digits \cup (97 .. 102) \cup (65 .. 70)
Punctuation == {45, 46, 95, 126, 33, 36, 38, 39, 40, 41, 42, 43, 44, 59, 61}
Percent == 37
Colon == 58
At == 64
Opening == 91
Closing == 93
Delimiter == {47, 63, 35}    \* / ? #
Dot == 46

(* INET6_ADDRSTRLEN has room for all of them and a terminator.             *)
ASSUME Ipv6Assumption ==
    \A t \in Ipv6 : /\ t \in Seq(HexDigits \cup {Colon, Dot})
                    /\ Len(t) \in 1 .. (AddressSize - 1)

(* The first index from a that is not below b or holds one of bytes.       *)
FirstOf(u, a, b, bytes) ==
    CHOOSE i \in a .. b :
        /\ i < b => u[i] \in bytes
        /\ \A k \in a .. (i - 1) : u[k] \notin bytes

(* Seeded fault: a percent sign is a character like any other.             *)
ValidRegNamePercent(u, a, b) ==
    a < b /\ \A i \in a .. (b - 1) : u[i] \in Alphanumeric \cup Punctuation \cup {Percent}

(* valid_reg_name of the bytes from a to before b.                         *)
ValidRegName(u, a, b) ==
    LET valid[i \in a .. b] ==
            IF i = b THEN TRUE
            ELSE IF u[i] \in Alphanumeric \cup Punctuation THEN valid[i + 1]
            ELSE /\ u[i] = Percent /\ b - i >= 3
                 /\ u[i + 1] \in HexDigits /\ u[i + 2] \in HexDigits
                 /\ valid[i + 3]
    IN  a < b /\ valid[a]

(* An optional port behind the host: nothing, or a colon and digits.       *)
ValidPort(u, a, b) ==
    a < b => /\ u[a] = Colon /\ a + 1 < b
             /\ \A i \in (a + 1) .. (b - 1) : u[i] \in Digits

ValidBracketed(u, a, b) ==
    LET closing == FirstOf(u, a + 1, b, {Closing}) IN
    /\ closing # a + 1 /\ closing # b
    /\ closing - (a + 1) < AddressSize
    /\ SubSeq(u, a + 1, closing - 1) \in Ipv6
    /\ ValidPort(u, closing + 1, b)

(* The bytes from a to before b are a host with an optional port.          *)
ValidAuthority(u, a, b) ==
    /\ a < b
    /\ \A i \in a .. (b - 1) : u[i] # At
    /\ IF u[a] = Opening THEN ValidBracketed(u, a, b)
       ELSE LET colon == FirstOf(u, a, b, {Colon})
            IN  ValidRegName(u, a, colon) /\ ValidPort(u, colon, b)

Scheme(u) ==
    IF Len(u) >= 7 /\ SubSeq(u, 1, 7) = Http THEN 7
    ELSE IF Len(u) >= 8 /\ SubSeq(u, 1, 8) = Https THEN 8 ELSE 0

Visible(u) == \A i \in DOMAIN u : u[i] \notin (0 .. 32) \cup {127}

ValidOriginalUrl(u) ==
    /\ Len(u) \in 1 .. MaxUrlLength
    /\ Visible(u)
    /\ Scheme(u) # 0
    /\ ValidAuthority(u, Scheme(u) + 1,
                      FirstOf(u, Scheme(u) + 1, Len(u) + 1, Delimiter))
=============================================================================
