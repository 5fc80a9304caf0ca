------------------------------ MODULE JsonUrl -------------------------------
(***************************************************************************)
(* http_parse_url_json and the parser of JSON values below it              *)
(* (src/src/http.c:262-723): it runs over the body of POST /shorten once,  *)
(* finds the member "url" of the outermost object and otherwise only       *)
(* decides whether the body is JSON.  The variable stack is the C stack of *)
(* the mutually recursive functions, with one entry for each nested value: *)
(* there are two calls for it, json_parse_value and the one for an array   *)
(* or an object.                                                           *)
(*                                                                         *)
(* A body is a sequence of symbols: a whole string, a whole literal, or a  *)
(* single other character, so that numbers are read character by           *)
(* character.  How a string is decoded is the subject of JsonStrings.      *)
(***************************************************************************)
EXTENDS Integers, Sequences

CONSTANTS
    Symbol,     \* the symbols in bodies
    Body,       \* the bodies that are parsed
    String,     \* the symbols that are well-formed strings
    UrlKey,     \* the string whose decoded value is url
    WithNul,    \* the strings whose decoded value contains a NUL
    Length,     \* the length of the decoded value of each string
    Capacity,   \* the size of the buffer for the URL
    MaxDepth,   \* the deepest nesting below the outermost object: 64
    None        \* no URL found

(* The structural characters of RFC 8259, and the classes of other symbols.*)
BeginArray == "begin-array"
EndArray == "end-array"
BeginObject == "begin-object"
EndObject == "end-object"
NameSeparator == "name-separator"
ValueSeparator == "value-separator"
Space == {"SP"}
Literal == {"true", "false", "null"}
Digit == {"0", "1"}     \* 1 stands for the digits from 1 to 9
Single ==
    {BeginArray, EndArray, BeginObject, EndObject, NameSeparator, ValueSeparator,
     "-", "+", ".", "e"} \cup Space \cup Digit

ASSUME JsonAssumption ==
    /\ \A b \in Body : b \in Seq(Symbol)
    /\ UrlKey \in String /\ WithNul \subseteq String
    /\ String \cap (Single \cup Literal \cup {None, "end"}) = {}
    /\ Length \in [String -> Nat]
    /\ Capacity \in Nat \ {0}
    /\ MaxDepth \in Nat \ {0}

VARIABLES
    text,       \* the body
    pos,        \* the symbol the parser is at
    pc,         \* what is expected there
    stack,      \* the opening brackets of the nested values under way
    depth,      \* parser->depth
    isUrl,      \* the value that follows is that of the member "url"
    found,      \* the value of that member, or None
    status      \* the answer

vars == <<text, pos, pc, stack, depth, isUrl, found, status>>

Here == IF pos \in DOMAIN text THEN text[pos] ELSE "end"

(* The next symbol at i or behind it that is not white space.              *)
Skip(s, i) ==
    CHOOSE j \in i .. (Len(s) + 1) :
        /\ j \in DOMAIN s => s[j] \notin Space
        /\ \A k \in i .. (j - 1) : s[k] \in Space

Init ==
    /\ text \in Body
    /\ pos = Skip(text, 1)
    /\ pc = "open"
    /\ stack = <<>> /\ depth = 0
    /\ isUrl = FALSE /\ found = None
    /\ status = "none"

Fail ==
    /\ pc' = "done"
    /\ status' = "INVALID"
    /\ UNCHANGED <<text, pos, stack, depth, isUrl, found>>

(* The current symbol and the white space behind it are read.              *)
Accept(next) ==
    /\ pos' = Skip(text, pos + 1)
    /\ pc' = next
    /\ UNCHANGED <<text, status>>

-----------------------------------------------------------------------------
(* json_parse_number: the position behind a number at i, or 0.             *)
DigitAt(s, i) == i \in DOMAIN s /\ s[i] \in Digit

BehindDigits(s, i) ==
    IF ~DigitAt(s, i) THEN 0
    ELSE CHOOSE j \in (i + 1) .. (Len(s) + 1) :
            ~DigitAt(s, j) /\ \A k \in i .. (j - 1) : DigitAt(s, k)

Behind(s, i, symbols) == i \in DOMAIN s /\ s[i] \in symbols

BehindInteger(s, i) ==
    IF Behind(s, i, {"0"}) THEN (IF DigitAt(s, i + 1) THEN 0 ELSE i + 1)
                           ELSE BehindDigits(s, i)

BehindFraction(s, i) ==
    IF Behind(s, i, {"."}) THEN BehindDigits(s, i + 1) ELSE i

BehindExponent(s, i) ==
    IF ~Behind(s, i, {"e"}) THEN i
    ELSE BehindDigits(s, IF Behind(s, i + 1, {"+", "-"}) THEN i + 2 ELSE i + 1)

BehindNumber(s, i) ==
    LET whole == BehindInteger(s, IF Behind(s, i, {"-"}) THEN i + 1 ELSE i)
        fraction == IF whole = 0 THEN 0 ELSE BehindFraction(s, whole)
    IN  IF fraction = 0 THEN 0 ELSE BehindExponent(s, fraction)

-----------------------------------------------------------------------------
(* The outermost object, which is not counted in depth.                    *)
Open ==
    /\ pc = "open"
    /\ \/ /\ Here = BeginObject
          /\ Accept("first")
          /\ UNCHANGED <<stack, depth, isUrl, found>>
       \/ Here # BeginObject /\ Fail

(* A string in the place of a key; only keys of the outermost object count.*)
Key ==
    /\ pc = "key" \/ (pc = "first" /\ Here # EndObject)
    /\ \/ /\ Here \in String
          /\ Accept("colon")
          /\ isUrl' = (stack = <<>> /\ Here = UrlKey)
          /\ UNCHANGED <<stack, depth, found>>
       \/ Here \notin String /\ Fail

Colon ==
    /\ pc = "colon"
    /\ \/ /\ Here = NameSeparator
          /\ Accept("value")
          /\ UNCHANGED <<stack, depth, isUrl, found>>
       \/ Here # NameSeparator /\ Fail

(* Seeded fault: a second "url" takes the place of the first.              *)
UrlValueAgain ==
    /\ pc = "value" /\ isUrl
    /\ \/ /\ Here \in String
          /\ Accept("next")
          /\ found' = Here
          /\ isUrl' = FALSE
          /\ UNCHANGED <<stack, depth>>
       \/ Here \notin String /\ Fail

UrlValue ==
    /\ pc = "value" /\ isUrl
    /\ \/ /\ Here \in String /\ found = None
          /\ Accept("next")
          /\ found' = Here
          /\ isUrl' = FALSE
          /\ UNCHANGED <<stack, depth>>
       \/ (Here \notin String \/ found # None) /\ Fail

(* The value of another member, or an element of an array.                 *)
Scalar ==
    /\ (pc = "value" /\ ~isUrl) \/ pc = "element"
    /\ Here \notin {BeginObject, BeginArray} /\ ~(pc = "element" /\ Here = EndArray)
    /\ \/ /\ Here \in String \cup Literal
          /\ Accept("next")
       \/ /\ Here \notin String \cup Literal
          /\ BehindNumber(text, pos) # 0
          /\ pos' = Skip(text, BehindNumber(text, pos))
          /\ pc' = "next"
          /\ UNCHANGED <<text, status>>
       \/ /\ Here \notin String \cup Literal
          /\ BehindNumber(text, pos) = 0
          /\ pc' = "done" /\ status' = "INVALID"
          /\ UNCHANGED <<text, pos>>
    /\ UNCHANGED <<stack, depth, isUrl, found>>

(* Seeded fault: the depth is compared before it is counted.               *)
EnterOneMore ==
    /\ (pc = "value" /\ ~isUrl) \/ pc = "element"
    /\ Here \in {BeginObject, BeginArray}
    /\ \/ /\ depth <= MaxDepth
          /\ Accept(IF Here = BeginObject THEN "first" ELSE "element")
          /\ stack' = Append(stack, Here)
          /\ depth' = depth + 1
          /\ UNCHANGED <<isUrl, found>>
       \/ depth > MaxDepth /\ Fail

(* json_parse_array and json_parse_object are entered ...                  *)
Enter ==
    /\ (pc = "value" /\ ~isUrl) \/ pc = "element"
    /\ Here \in {BeginObject, BeginArray}
    /\ \/ /\ depth < MaxDepth
          /\ Accept(IF Here = BeginObject THEN "first" ELSE "element")
          /\ stack' = Append(stack, Here)
          /\ depth' = depth + 1
          /\ UNCHANGED <<isUrl, found>>
       \/ depth >= MaxDepth /\ Fail

Closing == IF stack = <<>> \/ stack[Len(stack)] = BeginObject THEN EndObject ELSE EndArray

(* ... and left, empty or not.                                             *)
Leave ==
    /\ stack # <<>>
    /\ \/ pc = "next" /\ Here = Closing
       \/ pc = "first" /\ Here = EndObject
       \/ pc = "element" /\ Here = EndArray
    /\ Accept("next")
    /\ stack' = SubSeq(stack, 1, Len(stack) - 1)
    /\ depth' = depth - 1
    /\ UNCHANGED <<isUrl, found>>

(* What follows a value that does not end the nested value it is in.       *)
Comma ==
    /\ pc = "next" /\ Here # Closing
    /\ \/ /\ Here = ValueSeparator
          /\ Accept(IF Closing = EndObject THEN "key" ELSE "value")
          /\ UNCHANGED <<stack, depth, isUrl, found>>
       \/ Here # ValueSeparator /\ Fail

(* The outermost object is closed; it must not be empty.                   *)
Close ==
    /\ stack = <<>> /\ pc \in {"first", "next"} /\ Here = EndObject
    /\ \/ /\ pc = "next"
          /\ Accept("end")
          /\ UNCHANGED <<stack, depth, isUrl, found>>
       \/ pc = "first" /\ Fail

(* The checks behind the object.                                           *)
Finish ==
    /\ pc = "end"
    /\ pc' = "done"
    /\ status' = IF pos # Len(text) + 1 \/ found = None \/ found \in WithNul
                 THEN "INVALID"
                 ELSE IF Length[found] >= Capacity THEN "BUFFER_TOO_SMALL"
                 ELSE "OK"
    /\ UNCHANGED <<text, pos, stack, depth, isUrl, found>>

Next == \/ Open \/ Key \/ Colon \/ UrlValue \/ Scalar \/ Enter \/ Leave
        \/ Comma \/ Close \/ Finish

Spec == Init /\ [][Next]_vars

-----------------------------------------------------------------------------
Grammar == INSTANCE JsonGrammar

(* However deep a body is nested, at most MaxDepth nested values are under *)
(* way, each two calls deep, and every one of them has been returned from  *)
(* when the outermost object ends.                                         *)
RecursionIsBounded ==
    /\ Len(stack) <= MaxDepth
    /\ pc = "end" => stack = <<>>

(* The single pass over the symbols accepts what the grammar and the       *)
(* product specification accept, wherever the white space is and whatever  *)
(* else is in the object, and returns the value of the right member: not   *)
(* that of a nested "url", not the first or the last of two.  Bodies that  *)
(* are nested too deeply are the exception.                                *)
AcceptsRequests ==
    status # "none" =>
        /\ (status # "INVALID") <=>
              /\ Grammar!IsRequest(text)
              /\ Grammar!NestedAtMost(text, MaxDepth)
              /\ \A v \in Grammar!UrlValues(text) : text[v] \notin WithNul
        /\ status # "INVALID" =>
              /\ \A v \in Grammar!UrlValues(text) : found = text[v]
              /\ status = "OK" <=> Length[found] < Capacity
=============================================================================
