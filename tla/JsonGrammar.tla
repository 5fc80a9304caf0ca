---------------------------- MODULE JsonGrammar -----------------------------
(***************************************************************************)
(* What JSON is (RFC 8259) and what docs/product-specs/url-shortener-v1.md *)
(* asks of the body of POST /shorten, as definitions on whole texts: there *)
(* is no position, no stack and no order of reading.  JsonUrl.tla is       *)
(* compared with it.                                                       *)
(***************************************************************************)
EXTENDS Integers, Sequences, FiniteSets

CONSTANTS
    String, UrlKey, Literal, Digit, Space,
    BeginArray, EndArray, BeginObject, EndObject, NameSeparator, ValueSeparator

Blank(s, i, j) == \A k \in i .. j : s[k] \in Space

(* number = [ minus ] int [ frac ] [ exp ], as the symbols from i to j.    *)
IsNumber(s, i, j) ==
    LET Digits(a, b) == a <= b /\ \A k \in a .. b : s[k] \in Digit
    IN  \E sign \in {i - 1, i}, int, frac \in i .. j :
            /\ sign = i => s[i] = "-"
            /\ Digits(sign + 1, int) /\ (s[sign + 1] = "0" => int = sign + 1)
            /\ \/ frac = int
               \/ int < frac /\ s[int + 1] = "." /\ Digits(int + 2, frac)
            /\ \/ frac = j
               \/ /\ frac < j /\ s[frac + 1] = "e"
                  /\ \E from \in {frac + 2, frac + 3} :
                        /\ Digits(from, j)
                        /\ from = frac + 3 => s[frac + 2] \in {"+", "-"}

(* Whether the symbols from i to j are a value, elements separated by      *)
(* commas, or members separated by commas, with white space around each,   *)
(* when is tells the same of the spans within.                             *)
IsItem(s, is, a, b) ==
    \/ a = b /\ s[a] \in String \cup Literal
    \/ IsNumber(s, a, b)
    \/ /\ a < b /\ s[a] = BeginArray /\ s[b] = EndArray
       /\ Blank(s, a + 1, b - 1) \/ is[<<"elements", a + 1, b - 1>>]
    \/ /\ a < b /\ s[a] = BeginObject /\ s[b] = EndObject
       /\ Blank(s, a + 1, b - 1) \/ is[<<"members", a + 1, b - 1>>]

IsValue(s, is, i, j) ==
    \E a \in i .. j : \E b \in a .. j :
        Blank(s, i, a - 1) /\ IsItem(s, is, a, b) /\ Blank(s, b + 1, j)

IsElements(s, is, i, j) ==
    \/ is[<<"value", i, j>>]
    \/ \E k \in i .. j : /\ s[k] = ValueSeparator
                         /\ is[<<"value", i, k - 1>>]
                         /\ is[<<"elements", k + 1, j>>]

IsMembers(s, is, i, j) ==
    \E key \in i .. j : \E colon \in (key + 1) .. j :
        /\ s[key] \in String /\ s[colon] = NameSeparator
        /\ Blank(s, i, key - 1) /\ Blank(s, key + 1, colon - 1)
        /\ \/ is[<<"value", colon + 1, j>>]
           \/ \E k \in (colon + 1) .. j : /\ s[k] = ValueSeparator
                                          /\ is[<<"value", colon + 1, k - 1>>]
                                          /\ is[<<"members", k + 1, j>>]

Spans(s) == {"value", "elements", "members"} \X (1 .. (Len(s) + 1)) \X (0 .. Len(s))

Parses(s) ==
    LET is[span \in Spans(s)] ==
        CASE span[1] = "value" -> IsValue(s, is, span[2], span[3])
          [] span[1] = "elements" -> IsElements(s, is, span[2], span[3])
          [] span[1] = "members" -> IsMembers(s, is, span[2], span[3])
    IN  is[<<"value", 1, Len(s)>>]

(* How many arrays and objects are open in front of position i.            *)
Nesting(s, i) ==
    Cardinality({k \in 1 .. (i - 1) : s[k] \in {BeginObject, BeginArray}})
    - Cardinality({k \in 1 .. (i - 1) : s[k] \in {EndObject, EndArray}})

NestedAtMost(s, depth) ==
    \A i \in 1 .. (Len(s) + 1) : Nesting(s, i) <= depth + 1

(* The values of the members of the outermost object that are called url.  *)
UrlValues(s) ==
    {v \in DOMAIN s :
        \E key \in 1 .. (v - 2) : \E colon \in (key + 1) .. (v - 1) :
            /\ s[key] = UrlKey /\ s[colon] = NameSeparator /\ Nesting(s, key) = 1
            /\ Blank(s, key + 1, colon - 1) /\ Blank(s, colon + 1, v - 1)
            /\ s[v] \notin Space}

IsObject(s) == \E i \in DOMAIN s : s[i] = BeginObject /\ Blank(s, 1, i - 1)

(* A JSON object with exactly one member url, and that a string.           *)
IsRequest(s) ==
    /\ Parses(s) /\ IsObject(s)
    /\ \E v \in DOMAIN s : UrlValues(s) = {v} /\ s[v] \in String
=============================================================================
