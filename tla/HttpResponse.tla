---------------------------- MODULE HttpResponse ----------------------------
(***************************************************************************)
(* The response builder and serializer (src/src/http.c:725-907).  Of the   *)
(* texts in a response only the Location is data; of the others, which are *)
(* literals of the program, and of the body only the lengths matter.       *)
(***************************************************************************)
EXTENDS Integers, Sequences

CONSTANTS
    MaxBody,         \* HTTP_MAX_BODY_BYTES: 4096
    MaxLocation,     \* HTTP_MAX_LOCATION_BYTES: 2048
    ResponseSize     \* HTTP_MAX_RESPONSE_BYTES: 16384

TypeSize == 64       \* HTTP_MAX_CONTENT_TYPE_BYTES
AllowSize == 16      \* HTTP_MAX_ALLOW_BYTES

(* A body holds the longest reason phrase (21); the buffer has room for    *)
(* the longest Location, the longest body and the rest.                    *)
ASSUME ResponseAssumption ==
    /\ MaxBody \in 21 .. 9999 /\ MaxLocation \in Nat
    /\ ResponseSize \in Nat
    /\ ResponseSize >= 256 + MaxLocation + MaxBody

(* Seeded fault: the bytes are compared as signed characters.              *)
ValidHeaderValueSigned(text) == \A i \in DOMAIN text : text[i] \in 32 .. 126

(* valid_header_value.                                                     *)
ValidHeaderValue(text) == \A i \in DOMAIN text : text[i] \notin (0 .. 31) \cup {127}

(* http_response_init with a literal content type.                         *)
CanInit(type, body) == type < TypeSize /\ body <= MaxBody

(* http_response_set_location.                                             *)
CanSetLocation(text) == Len(text) <= MaxLocation /\ ValidHeaderValue(text)

(* http_response_set_allow.                                                *)
CanSetAllow(allow) == allow < AllowSize

Response(status, type, location, allow, body) ==
    [status |-> status, type |-> type, location |-> location, allow |-> allow,
     body |-> body]

(* Seeded fault: one status has no phrase.                                 *)
StatusForgotten == {200, 201, 302, 400, 404, 405, 500}

(* reason_phrase, its length.                                              *)
Status == {200, 201, 302, 400, 404, 405, 500, 501}
ReasonLength(status) ==
    CASE status = 200 -> 2 [] status = 201 -> 7 [] status = 302 -> 5
      [] status = 400 -> 11 [] status = 404 -> 9 [] status = 405 -> 18
      [] status = 500 -> 21 [] status = 501 -> 15

DigitsOf(n) == IF n < 10 THEN 1 ELSE IF n < 100 THEN 2
               ELSE IF n < 1000 THEN 3 ELSE 4

(* Whether http_serialize_response starts at all.                          *)
Serializable(r) ==
    /\ r.status \in Status
    /\ CanInit(r.type, r.body) /\ CanSetLocation(r.location)
    /\ CanSetAllow(r.allow)

Header(name, value) == IF value > 0 THEN <<name, value, 2>> ELSE <<>>

(* The lengths of what it appends, one after the other.                    *)
Pieces(r) ==
    <<9, 3, 1, ReasonLength(r.status), 2>>
    \o Header(14, r.type)                \* Content-Type:
    \o Header(10, Len(r.location))       \* Location:
    \o Header(7, r.allow)                \* Allow:
    \o <<16, DigitsOf(r.body), 23, r.body>>
=============================================================================
