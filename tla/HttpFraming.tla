----------------------------- MODULE HttpFraming -----------------------------
(***************************************************************************)
(* How http_parse_request (src/src/http.c:98-260) frames a request: what   *)
(* it says of the bytes received so far, which is all that the server may  *)
(* base its next step on.  A byte stream is described by where the things  *)
(* that matter to framing are in it, not by its bytes.                     *)
(***************************************************************************)
EXTENDS Integers

CONSTANTS
    MaxHeader,  \* HTTP_MAX_HEADER_BYTES: 8192
    MaxBody     \* HTTP_MAX_BODY_BYTES: 4096

ASSUME FramingAssumption ==
    /\ MaxHeader \in Nat \ {0}
    /\ MaxBody \in Nat \ {0}

(* What the request line and the headers are found to be once all of them  *)
(* are there: well-formed, malformed, or with a Transfer-Encoding.         *)
HeadVerdict == {"OK", "BAD_REQUEST", "UNSUPPORTED_TRANSFER"}

(* A stream of total bytes.  Its header section is complete with byte      *)
(* headerEnd and its first line ending other than CR LF is visible with    *)
(* byte badLine; 0 stands for never.                                       *)
Stream == [total : Nat, headerEnd : Nat, badLine : Nat, head : HeadVerdict,
           contentLength : Nat]

HeaderIsIn(s, length) == s.headerEnd > 0 /\ length >= s.headerEnd

(* Seeded fault: a CR is bad when the LF that belongs to it is still on its*)
(* way, as it may be for the last byte of the header section.              *)
LineEndingIsBadWhenCut(s, length) ==
    \/ s.badLine > 0 /\ s.badLine <= length
    \/ s.headerEnd > 0 /\ length = s.headerEnd - 1

(* The bytes that are searched for bad line endings: all of them while the *)
(* header section is open, then the header section only.                   *)
LineEndingIsBad(s, length) ==
    /\ s.badLine > 0
    /\ s.badLine <= (IF HeaderIsIn(s, length) THEN s.headerEnd ELSE length)

HeaderIsTooLarge(s, length) ==
    (IF HeaderIsIn(s, length) THEN s.headerEnd ELSE length) > MaxHeader

RequestEnd(s) == s.headerEnd + s.contentLength

(* Seeded fault: only complete header sections are measured.               *)
ParseLateHeaderLimit(s, length) ==
    IF LineEndingIsBad(s, length) THEN "BAD_REQUEST"
    ELSE IF ~HeaderIsIn(s, length) THEN "INCOMPLETE"
    ELSE IF HeaderIsTooLarge(s, length) THEN "HEADERS_TOO_LARGE"
    ELSE IF s.head # "OK" THEN s.head
    ELSE IF s.contentLength > MaxBody THEN "BODY_TOO_LARGE"
    ELSE IF length < RequestEnd(s) THEN "INCOMPLETE"
    ELSE IF length > RequestEnd(s) THEN "BAD_REQUEST"
    ELSE "OK"

(* http_parse_request of the first length bytes of s.                      *)
Parse(s, length) ==
    IF LineEndingIsBad(s, length) THEN "BAD_REQUEST"
    ELSE IF HeaderIsTooLarge(s, length) THEN "HEADERS_TOO_LARGE"
    ELSE IF ~HeaderIsIn(s, length) THEN "INCOMPLETE"
    ELSE IF s.head # "OK" THEN s.head
    ELSE IF s.contentLength > MaxBody THEN "BODY_TOO_LARGE"
    ELSE IF length < RequestEnd(s) THEN "INCOMPLETE"
    ELSE IF length > RequestEnd(s) THEN "BAD_REQUEST"
    ELSE "OK"
=============================================================================
