--------------------------- MODULE MCRequestHead ----------------------------
(* Lines that differ from a good one in at most one symbol, so that every  *)
(* check is met at every place, and the largest number is 25, which ends   *)
(* in the digit 5 like SIZE_MAX.                                           *)
EXTENDS RequestHead, SequencesExt

MCHeadSymbol ==
    {"GET", "POST", "HTTP/1.0", "HTTP/1.1", "Content-Length", "Transfer-Encoding",
     "x", "(", ":", "SP", "TAB", "NUL", "DEL", "0", "2", "5", "6"}

Edits(s) ==
    {s} \cup {RemoveAt(s, i) : i \in DOMAIN s}
        \cup {ReplaceAt(s, i, c) : i \in DOMAIN s, c \in MCHeadSymbol}
        \cup {InsertAt(s, i, c) : i \in 1 .. (Len(s) + 1), c \in MCHeadSymbol}

GoodRequestLine == <<"GET", "SP", "x", "SP", "HTTP/1.1">>
RequestLines ==
    {<<"POST", "SP", "x", "x", "SP", "HTTP/1.0">>}
    \cup UNION {Edits(s) : s \in Edits(GoodRequestLine)}

Headers == {
    <<"Content-Length", ":", "SP", "2", "5", "TAB">>,
    <<"Content-Length", ":", "0", "2">>,
    <<"Transfer-Encoding", ":", "SP", "x">>,
    <<"x", ":">>}

MCHeads ==
    {<<line>> : line \in RequestLines}
    \cup UNION {{<<GoodRequestLine, h>>, <<GoodRequestLine, h, g>>,
                 <<GoodRequestLine, g, h>>, <<GoodRequestLine, g, h, g>>} :
                    h \in UNION {Edits(s) : s \in Headers}, g \in Headers}
=============================================================================
