----------------------------- MODULE MCJsonUrl ------------------------------
(* All bodies that differ from one of a few requests in at most one symbol *)
(* that is left out, put in or replaced: every check of the parser is met  *)
(* at every place of an otherwise good body; and all that differ in two    *)
(* symbols from the shortest.                                              *)
EXTENDS JsonUrl, SequencesExt

Url == <<"url", NameSeparator, "short">>
Member(value) == <<"text", NameSeparator>> \o value
Two(s, t) == s \o <<ValueSeparator>> \o t
Array(s) == <<BeginArray>> \o s \o <<EndArray>>
Object(s) == <<BeginObject>> \o s \o <<EndObject>>

Good == {
    Object(Url),
    Object(<<"SP", "url", "SP", NameSeparator, "SP", "long", "SP">>),
    Object(Two(Member(Array(Two(Array(<<>>), Array(<<>>)))), Url)),
    Object(Two(Url, Member(Object(<<>>)))),
    Object(Two(Member(Object(Two(Url, Url))), Url)),
    Object(Two(Url, Member(<<"-", "1", "0", ".", "0", "e", "+", "1">>))),
    Object(Two(Member(Array(Two(<<"0">>, <<"true">>))), Url)),
    <<"SP">> \o Object(Two(<<"nul", NameSeparator, "nul">>, Url)) \o <<"SP">>,
    Object(Two(Member(<<"null">>), <<"url", NameSeparator, "nul">>))}

MCSymbol == Single \cup {"true", "null", "url", "text", "short", "long", "nul", "bad"}

Edits(s) ==
    {s} \cup {RemoveAt(s, i) : i \in DOMAIN s}
        \cup {ReplaceAt(s, i, c) : i \in DOMAIN s, c \in MCSymbol}
        \cup {InsertAt(s, i, c) : i \in 1 .. (Len(s) + 1), c \in MCSymbol}

MCBody == {<<>>} \cup UNION {Edits(s) : s \in Good \cup Edits(Object(Url))}
MCString == {"url", "text", "short", "long", "nul"}
MCLength == [url |-> 3, text |-> 4, short |-> 5, long |-> 6, nul |-> 1]
=============================================================================
