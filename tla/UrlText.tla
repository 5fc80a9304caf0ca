------------------------------ MODULE UrlText -------------------------------
(***************************************************************************)
(* The way of an original URL through the program, byte by byte: from the  *)
(* string in the body of POST /shorten (JsonStrings) through the checks    *)
(* behind it and the validation (OriginalUrl) into a record, and from the  *)
(* record into the Location of a redirect and the buffer the response is   *)
(* serialized in (HttpResponse).  src/src/router.c calls one after the     *)
(* other.  The other responses of the program go the last part of the way. *)
(***************************************************************************)
EXTENDS JsonStrings, OriginalUrl, HttpResponse

CONSTANTS
    PageLength,   \* embedded_web_index_html_length
    None          \* no URL, no response

ASSUME PageAssumption == PageLength \in 0 .. MaxBody

ASSUME NoneAssumption == None \notin Seq(Byte)

(* Whatever is short enough to be stored is short enough for a Location.   *)
ASSUME LocationAssumption == MaxUrlLength <= MaxLocation

VARIABLES
    pc,           \* what the thread does next
    url,          \* the original URL that was stored, or None
    response,     \* the response
    pieces,       \* what is still to be appended to the buffer
    written,      \* the length of what is in it
    visited       \* the response is that of GET /{code}

responseVars == <<response, pieces, written>>
vars == <<stringVars, pc, url, responseVars, visited>>

Init ==
    /\ StringInit
    /\ pc = "request"
    /\ url = None
    /\ response = None /\ pieces = <<>> /\ written = 0
    /\ visited = FALSE

(* send_response serializes into a buffer of ResponseSize bytes.           *)
Respond(r) ==
    /\ response' = r
    /\ written' = 0
    /\ IF Serializable(r) THEN pc' = "append" /\ pieces' = Pieces(r)
                          ELSE pc' = "failed" /\ pieces' = <<>>

PlainText == 10    \* "text/plain"
Json == 16         \* "application/json"
Html == 24         \* "text/html; charset=utf-8"

(* set_error: the body repeats the reason phrase.                          *)
Error(status) == Response(status, PlainText, <<>>, 0, ReasonLength(status))

(* What the server and the router answer without looking at the body.      *)
FixedResponses ==
    {Error(s) : s \in {400, 404, 500, 501}}
    \cup {[Error(405) EXCEPT !.allow = n] : n \in {3, 4}}
    \cup {Response(200, PlainText, <<>>, 0, 2),
          Response(200, Html, <<>>, 0, PageLength)}

AnswerFixed ==
    /\ pc = "request"
    /\ \E r \in FixedResponses : Respond(r)
    /\ UNCHANGED <<stringVars, url, visited>>

Shorten ==
    /\ pc = "request"
    /\ pc' = "string"
    /\ Call
    /\ UNCHANGED <<url, responseVars, visited>>

ReadString ==
    /\ pc = "string"
    /\ StringNext
    /\ UNCHANGED <<pc, url, responseVars, visited>>

HasNul(bytes) == \E i \in DOMAIN bytes : bytes[i] = 0

(* The end of http_parse_url_json, and has_valid_original_url.             *)
Acceptable ==
    /\ verdict = "decoded"
    /\ ~HasNul(out)
    /\ Len(out) < MaxUrlLength + 1
    /\ ValidOriginalUrl(out)

(* The JSON of a creation is 48 bytes and twice the code.                  *)
CreationLengths == {48 + 2 * n : n \in 1 .. 11}

(* What handle_shorten makes of the string.                                *)
Create ==
    /\ pc = "string" /\ verdict # "none"
    /\ \/ /\ Acceptable
          /\ url' = out
          /\ \E n \in CreationLengths :
                Respond(IF CanInit(Json, n) THEN Response(201, Json, <<>>, 0, n)
                                            ELSE Error(500))
       \/ ~Acceptable /\ Respond(Error(400)) /\ UNCHANGED url
    /\ UNCHANGED <<stringVars, visited>>

(* handle_redirect, for the record that was stored.                        *)
Visit ==
    /\ pc = "sent" /\ url # None /\ ~visited
    /\ visited' = TRUE
    /\ Respond(IF CanInit(0, 0) /\ CanSetLocation(url)
               THEN Response(302, 0, url, 0, 0) ELSE Error(500))
    /\ UNCHANGED <<stringVars, url>>

(* append_bytes, once; behind the last piece the response is sent.         *)
AppendPiece ==
    /\ pc = "append"
    /\ \/ /\ pieces # <<>> /\ Head(pieces) <= ResponseSize - written
          /\ written' = written + Head(pieces)
          /\ pieces' = Tail(pieces)
          /\ pc' = IF Tail(pieces) = <<>> THEN "sent" ELSE "append"
       \/ /\ pieces # <<>> /\ Head(pieces) > ResponseSize - written
          /\ pc' = "failed"
          /\ UNCHANGED <<pieces, written>>
    /\ UNCHANGED <<stringVars, url, response, visited>>

Next == \/ AnswerFixed \/ Shorten \/ ReadString \/ Create \/ Visit
        \/ AppendPiece

Spec == Init /\ [][Next]_vars

-----------------------------------------------------------------------------
Unicode == INSTANCE UnicodeText

(* Decoding never needs more room than the text it reads, so that a string *)
(* is never refused because the buffer is full: no escape stands for more  *)
(* bytes than it has characters.                                           *)
BufferSuffices ==
    /\ Len(out) < pos
    /\ verdict = "none" /\ pos <= Len(text) /\ text[pos] # Quote =>
          Len(out) + Len(ItemAt(text, pos).bytes) <= OutputSize

(* The decoder accepts exactly the strings that mean a Unicode text and    *)
(* returns that text in UTF-8: no surrogate is left alone, none is encoded,*)
(* no character has a second spelling, and no bytes are invented.          *)
DecodesTheText ==
    pc = "string" /\ verdict # "none" =>
    LET units == Unicode!Spelled(text, HasHex4, Hex4) IN
    /\ verdict = "decoded" =>
          Unicode!IsText(units) /\ Unicode!OfUtf8(out) = units
    /\ verdict = "refused" => ~Unicode!IsText(units)

(* src/docs/product-specs/url-shortener-v1.md:52-57, as cuts of the text   *)
(* into scheme, host, port and rest: what is stored is such a URL, and     *)
(* what was refused is none.                                               *)
IsOriginalUrl(u) ==
    /\ Len(u) <= MaxUrlLength
    /\ \A i \in DOMAIN u : u[i] > 32 /\ u[i] # 127
    /\ \E scheme \in {Http, Https}, host, port \in 0 .. Len(u) :
          /\ Len(scheme) < host /\ host <= port
          /\ SubSeq(u, 1, Len(scheme)) = scheme
          /\ port = Len(u) \/ u[port + 1] \in Delimiter
          /\ \A i \in (Len(scheme) + 1) .. port :
                u[i] \notin Delimiter \cup {At}
          /\ \/ port = host
             \/ /\ u[host + 1] = Colon /\ port > host + 1
                /\ \A i \in (host + 2) .. port : u[i] \in Digits
          /\ \/ /\ u[Len(scheme) + 1] = Opening /\ u[host] = Closing
                /\ SubSeq(u, Len(scheme) + 2, host - 1) \in Ipv6
             \/ \A i \in (Len(scheme) + 1) .. host :
                   \/ u[i] \in Alphanumeric \cup Punctuation
                   \/ /\ u[i] = Percent /\ i + 2 <= host
                      /\ {u[i + 1], u[i + 2]} \subseteq HexDigits

StoresOriginalUrls ==
    pc = "append" /\ written = 0 /\ verdict # "none" =>
        (url # None <=> verdict = "decoded" /\ IsOriginalUrl(out))

(* A URL that was accepted can be visited: it is never refused as a header *)
(* value afterwards, and the Location is what was decoded, byte by byte.   *)
RedirectsToTheText ==
    visited => response.status = 302 /\ response.location = url /\ url = out

(* Every response of the program fits in the buffer it is serialized in,   *)
(* so that no request is left without an answer, and nothing is written    *)
(* behind the end of the buffer.                                           *)
ResponsesFit == pc # "failed" /\ written <= ResponseSize
=============================================================================
