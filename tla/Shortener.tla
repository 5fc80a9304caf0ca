----------------------------- MODULE Shortener ------------------------------
(***************************************************************************)
(* What the service does with one request after another: router_handle     *)
(* (src/src/router.c) and the two operations of src/src/shortener.c, over  *)
(* the repository of UrlRecords (which Database.tla implements) and the    *)
(* functions of ShortCodes (which Base62.tla implements), in a process     *)
(* (src/src/main.c) that may die at any point and is started again on the  *)
(* same file.                                                              *)
(***************************************************************************)
EXTENDS Integers, Sequences, FiniteSets

CONSTANTS
    Base, MaxValue, Alphabet,  \* of ShortCodes
    MaxId,                     \* bound: INT64_MAX
    Url,                       \* the strings submitted as original URLs
    WellFormed,                \* those among them that are http(s) URLs
    Length,                    \* their lengths
    MaxUrlLength,              \* SHORTENER_MAX_URL_LENGTH
    None,
    Target,                    \* the request targets, sequences of characters
    Slash, Query,              \* '/' and '?'
    Health, Shorten,           \* "health" and "shorten"
    MaxEncodedLength,          \* BASE62_MAX_ENCODED_LENGTH
    MaxCodeLength,             \* SHORTENER_MAX_SHORT_CODE_LENGTH
    BaseUrlLength,             \* the length of SHORTENER_BASE_URL
    JsonCapacity,              \* the size of json in handle_shorten
    MaxBody                    \* HTTP_MAX_BODY_BYTES

Codes == INSTANCE ShortCodes

Capacity == {MaxUrlLength, MaxUrlLength + 1}

VARIABLES
    records, request, reply, stored,  \* of UrlRecords
    pc,         \* where the process is
    exchange,   \* the HTTP request being handled or handled last
    response,   \* its response, or None
    promised,   \* history: the codes given with a 201, and their URLs
    orphans     \* history: the ids stored by exchanges that died

Records == INSTANCE UrlRecords

repository == <<records, request, reply, stored>>
history == <<promised, orphans>>
vars == <<repository, pc, exchange, response, history>>

ASSUME ShortenerAssumption ==
    /\ MaxId \in Nat \ {0} /\ MaxValue \in Nat /\ MaxId < MaxValue
    /\ WellFormed \subseteq Url /\ Length \in [Url -> Nat]
    /\ MaxUrlLength \in Nat \ {0}
    /\ \A t \in Target \cup {Health, Shorten} : t \in Seq({t[i] : i \in DOMAIN t})
    /\ Slash # Query
ASSUME NumeralAssumption ==
    /\ Base \in Nat \ {0, 1}
    /\ \A d, e \in 0 .. (Base - 1) : Alphabet[d] = Alphabet[e] => d = e
ASSUME LengthAssumption ==
    /\ {MaxEncodedLength, MaxCodeLength, BaseUrlLength, JsonCapacity, MaxBody}
          \subseteq Nat
    /\ Len(Codes!CodeOf[MaxId]) <= MaxEncodedLength
    /\ 26 + BaseUrlLength + 1 + 2 * MaxCodeLength < JsonCapacity
    /\ 26 + BaseUrlLength + 1 + 2 * MaxCodeLength <= MaxBody

-----------------------------------------------------------------------------
(* Requests: a body matters to POST /shorten only, and is a JSON object    *)
(* with a URL or something http_parse_url_json refuses, which stands for   *)
(* all bodies elsewhere.                                                   *)
Body == Url \cup {"malformed"}
HttpRequest ==
    [method : {"GET", "POST", "OTHER"}, target : Target, body : {"malformed"}]
    \cup [method : {"POST"}, target : {<<Slash>> \o Shorten}, body : Body]

Plain(status) == [status |-> status]
Redirection(url) == [status |-> 302, location |-> url]
Creation(code) == [status |-> 201, code |-> code]

(* route_path_length: what is before the query.                            *)
PathOf(target) ==
    LET marks == {i \in DOMAIN target : target[i] = Query}
        first == CHOOSE i \in marks : \A j \in marks : i <= j
    IN  IF marks = {} THEN target ELSE SubSeq(target, 1, first - 1)

Path == PathOf(exchange.target)

CodeIn(path) == Tail(path)

(* is_code_path; the code is what follows the slash.                       *)
IsCodePath(path) ==
    /\ path # <<>>
    /\ path[1] = Slash
    /\ \A i \in 2 .. Len(path) : path[i] # Slash

Reserved == {<<>>, Health, Shorten}

-----------------------------------------------------------------------------
Init ==
    /\ Records!Init
    /\ pc = "off"
    /\ exchange = None
    /\ response = None
    /\ promised = [c \in {} |-> None]
    /\ orphans = {}

(* main, up to its call of server_run.                                     *)
Start ==
    /\ pc = "off"
    /\ pc' = "idle"
    /\ UNCHANGED <<repository, exchange, response, history>>

(* handle_client hands a parsed request to router_handle.                  *)
Receive ==
    /\ pc = "idle"
    /\ exchange' \in HttpRequest
    /\ response' = None
    /\ pc' = "route"
    /\ UNCHANGED <<repository, history>>

Respond(r) ==
    /\ response' = r
    /\ pc' = "idle"
    /\ UNCHANGED <<exchange, orphans>>

Continue(label) ==
    /\ pc' = label
    /\ UNCHANGED <<exchange, response, history>>

IsRoute(name) == Path = <<Slash>> \o name

(* The tests of router_handle, in the order of the code.                   *)
Destination ==
    IF IsRoute(<<>>) \/ IsRoute(Health) THEN "constant"
    ELSE IF IsRoute(Shorten) THEN "create"
    ELSE IF IsCodePath(Path) THEN "resolve"
    ELSE "nowhere"

Allowed == IF Destination = "create" THEN "POST" ELSE "GET"

Route ==
    /\ pc = "route"
    /\ \/ /\ Destination = "nowhere"
          /\ Respond(Plain(404))
          /\ UNCHANGED promised
       \/ /\ Destination # "nowhere"
          /\ exchange.method # Allowed
          /\ Respond(Plain(405))
          /\ UNCHANGED promised
       \/ /\ Destination = "constant"
          /\ exchange.method = Allowed
          /\ Respond(Plain(200))
          /\ UNCHANGED promised
       \/ /\ Destination \in {"create", "resolve"}
          /\ exchange.method = Allowed
          /\ Continue(Destination)
    /\ UNCHANGED repository

-----------------------------------------------------------------------------
(* handle_shorten and shortener_create.                                    *)
(* Seeded fault: the scheme and the host are not looked at.                *)
AcceptableAnything ==
    /\ exchange.body # "malformed"
    /\ Length[exchange.body] <= MaxUrlLength

Acceptable ==
    /\ exchange.body # "malformed"
    /\ exchange.body \in WellFormed
    /\ Length[exchange.body] <= MaxUrlLength

(* The buffers of handle_shorten for the code and for the short URL.       *)
CodeCapacity == MaxCodeLength + 1

(* Seeded fault: the slash between base URL and code is not counted.       *)
ShortUrlCapacityNoSlash == BaseUrlLength + MaxCodeLength + 1

ShortUrlCapacity == (BaseUrlLength + 1 + MaxCodeLength) + 1

(* shortener_create asks for room for the longest code before it stores    *)
(* anything; for the short URL it asks for what handle_shorten gives it.   *)
OffersRoom == CodeCapacity >= MaxEncodedLength + 1

(* The clock may fail, or be before 1970.                                  *)
Create ==
    /\ pc = "create"
    /\ \/ /\ ~Acceptable
          /\ Respond(Plain(400))
          /\ UNCHANGED <<repository, promised>>
       \/ /\ Acceptable
          /\ Respond(Plain(500))
          /\ UNCHANGED <<repository, promised>>
       \/ /\ Acceptable
          /\ OffersRoom
          /\ Records!Invoke([op |-> "insert", url |-> exchange.body])
          /\ Continue("insert")

Insert ==
    /\ pc = "insert"
    /\ \/ Records!Store /\ Continue("insert")
       \/ Records!AnswerInsert /\ Continue("inserted")

(* Seeded fault: only the first digit that base62_encode finds is kept.    *)
GivenCodeOneDigit == <<Alphabet[reply.id % Base]>>

GivenCode == Codes!CodeOf[reply.id]

(* SHORTENER_BASE_URL, a slash and the code.                               *)
ShortUrlLength(code) == BaseUrlLength + 1 + Len(code)

(* {"code":"...","short_url":"..."}                                        *)
JsonLength(code) == 26 + Len(code) + ShortUrlLength(code)

(* What may still go wrong when the record is stored: base62_encode wants  *)
(* room for the terminator, each snprintf must not have cut its text, and  *)
(* http_response_init takes no more than a body may hold.                  *)
CreationFits(code) ==
    /\ Len(code) < CodeCapacity
    /\ ShortUrlLength(code) < ShortUrlCapacity
    /\ JsonLength(code) < JsonCapacity
    /\ JsonLength(code) <= MaxBody

Inserted ==
    /\ pc = "inserted"
    /\ IF reply.status = "OK" /\ CreationFits(GivenCode)
       THEN /\ Respond(Creation(GivenCode))
            /\ promised' = Records!Added(promised, GivenCode, exchange.body)
       ELSE Respond(Plain(500)) /\ UNCHANGED promised
    /\ UNCHANGED repository

-----------------------------------------------------------------------------
(* handle_redirect and shortener_resolve.                                  *)
Code == CodeIn(Path)

(* Seeded fault: the largest length has no room for the terminator.        *)
FindCapacityUnterminated == MaxUrlLength

FindCapacity == MaxUrlLength + 1

(* Seeded fault: ids above INT64_MAX are cut to 63 bits.                   *)
ResolveTruncates ==
    /\ pc = "resolve"
    /\ \/ /\ ~Codes!IsCode(Code)
          /\ Respond(Plain(400))
          /\ UNCHANGED <<repository, promised>>
       \/ /\ Codes!IsCode(Code)
          /\ Codes!ValueOf(Code) = 0
          /\ Respond(Plain(404))
          /\ UNCHANGED <<repository, promised>>
       \/ /\ Codes!IsCode(Code)
          /\ Codes!ValueOf(Code) # 0
          /\ Records!Invoke([op |-> "find",
                             id |-> Codes!ValueOf(Code) % (MaxId + 1),
                             capacity |-> FindCapacity])
          /\ Continue("find")

Resolve ==
    /\ pc = "resolve"
    /\ \/ /\ ~Codes!IsCode(Code)
          /\ Respond(Plain(400))
          /\ UNCHANGED <<repository, promised>>
       \/ /\ Codes!IsCode(Code)
          /\ Codes!ValueOf(Code) \notin Records!Id
          /\ Respond(Plain(404))
          /\ UNCHANGED <<repository, promised>>
       \/ /\ Codes!IsCode(Code)
          /\ Codes!ValueOf(Code) \in Records!Id
          /\ Records!Invoke([op |-> "find", id |-> Codes!ValueOf(Code),
                             capacity |-> FindCapacity])
          /\ Continue("find")

Find ==
    /\ pc = "find"
    /\ Records!AnswerFind
    /\ Continue("found")

(* Seeded fault: what could not be read is missing.                        *)
StatusOfMissing(status) == 404

(* What handle_redirect makes of the failures of shortener_resolve.        *)
StatusOf(status) ==
    CASE status = "INVALID_ARGUMENT" -> 400
      [] status = "NOT_FOUND" -> 404
      [] OTHER -> 500

Found ==
    /\ pc = "found"
    /\ Respond(IF reply.status = "OK" THEN Redirection(reply.url)
                                      ELSE Plain(StatusOf(reply.status)))
    /\ UNCHANGED <<repository, promised>>

(* The record an exchange has stored and not yet given a code for.         *)
Pending ==
    ({stored} \ {0})
    \cup (IF pc = "inserted" /\ reply.status = "OK" THEN {reply.id} ELSE {})

(* The process ends or dies.                                               *)
Stop ==
    /\ pc # "off"
    /\ Records!Stop
    /\ pc' = "off"
    /\ exchange' = None /\ response' = None
    /\ orphans' = orphans \cup Pending
    /\ UNCHANGED promised

Next == \/ Start \/ Receive \/ Route
        \/ Create \/ Insert \/ Inserted
        \/ Resolve \/ Find \/ Found
        \/ Stop

Spec == Init /\ [][Next]_vars

-----------------------------------------------------------------------------
TypeOK ==
    /\ DOMAIN records \subseteq Records!Id
    /\ \A id \in DOMAIN records : records[id] \in WellFormed
    /\ request \in Records!Request \cup {None}
    /\ reply \in Records!Reply \cup {None}
    /\ stored \in 0 .. MaxId
    /\ pc \in {"off", "idle", "route", "create", "insert", "inserted",
               "resolve", "find", "found"}
    /\ exchange \in HttpRequest \cup {None}
    /\ \/ response = None
       \/ response.status \in {200, 400, 404, 405, 500}
       \/ response.status = 201 /\ response.code \in DOMAIN promised
       \/ response.status = 302 /\ response.location \in WellFormed
    /\ \A c \in DOMAIN promised : promised[c] \in WellFormed
    /\ orphans \subseteq Records!Id

(* The path of the exchange is that of a code, and answered.               *)
IsAnsweredGet ==
    /\ response # None
    /\ exchange.method = "GET"
    /\ IsCodePath(Path)

(* A code that was given out leads to its own URL, after any number of     *)
(* other requests, failures, crashes and restarts: only an internal error  *)
(* of the repository answers 500, and nothing else is ever answered.  Only *)
(* a code that is spelled exactly like a route goes to the route, which    *)
(* docs/design-docs/routing.md:10 puts first.                              *)
ShortUrlsResolve ==
    IsAnsweredGet /\ Code \in DOMAIN promised \ Reserved =>
        \/ response = Redirection(promised[Code])
        \/ response = Plain(500) /\ reply = Records!Failed("INTERNAL_ERROR")

(* Only one text leads to a record: no second spelling of a code, no       *)
(* overflow of 64 bits and no id above INT64_MAX is answered with its URL. *)
OneCodeForARecord ==
    response # None /\ response.status = 302 =>
        \E id \in DOMAIN records :
            Code = Codes!CodeOf[id] /\ records[id] = response.location

(* A text is refused as malformed exactly when no 64-bit number has it as  *)
(* its code, and missing only while no record has it.                      *)
MissingIsNotMalformed ==
    IsAnsweredGet /\ Code \notin Reserved =>
        /\ response.status = 400 <=>
              \A v \in 0 .. MaxValue : Codes!CodeOf[v] # Code
        /\ response.status = 404 =>
              \A id \in DOMAIN records : Codes!CodeOf[id] # Code

(* A refused or failed creation leaves no record: there is a record for    *)
(* each code given out, and else only those of exchanges that died between *)
(* the commit and the response.  Nothing else may go wrong once the record *)
(* is stored: every code fits its buffer, its short URL, the JSON text and *)
(* the body, or a 500 would be answered for a record that exists.          *)
RecordsHaveCodes ==
    /\ \A id \in DOMAIN records \ (orphans \cup Pending) :
           Codes!CodeOf[id] \in DOMAIN promised
    /\ Cardinality(DOMAIN promised) =
           Cardinality(DOMAIN records \ (orphans \cup Pending))

(* Every creation gets a code that was never given before, also for a URL  *)
(* that was submitted before, and takes no earlier code away.              *)
CodesAreFresh ==
    [][pc = "inserted" /\ response' # None /\ response'.status = 201 =>
          /\ response'.code \notin DOMAIN promised
          /\ promised'[response'.code] = exchange.body
          /\ \A c \in DOMAIN promised : promised'[c] = promised[c]]_vars
=============================================================================
