# Verification of the URL shortener

This directory models the URL shortener of this repository in TLA+, checks the
models with TLC on small instances, and proves theorems about them with TLAPS
for every value of the constants. The models follow the C code, function by
function; `PROJECT.json` names, for every definition, the lines it stands for.

## 1. The system

A single-threaded HTTP server on 127.0.0.1:8080 with two operations: store a URL
and return a short one, and redirect from a short URL. `main` opens the database,
runs the server until SIGINT or SIGTERM or a failure, and closes the database.

| Component | State | Operations | Interacts with |
|---|---|---|---|
| base62 (`src/base62.c`) | none (locals) | `base62_encode`, `base62_decode` | called by the shortener |
| repository (`src/database.c`) | a `database_t` with a SQLite connection; the file `url_shortener.db` | open, close, insert, find | calls SQLite |
| shortener (`src/shortener.c`) | a pointer to the repository | create, resolve, URL validation | calls base62 and the repository |
| router (`src/router.c`) | none | `router_handle` | calls the JSON parser, the shortener and the response builder |
| HTTP (`src/http.c`) | none | request parser, JSON parser, response builder and serializer | called by the server and the router |
| server (`src/server.c`) | the flag `stop_requested`, the listener, one connection, one request buffer | `server_run`, the signal handler | kernel sockets, signals, the clock; calls HTTP and the router |
| main (`src/main.c`) | owns the repository | start, stop | server, repository |
| browser page (`web/index.html`) | form, result, status line, label of the Copy button | submit, copy, a timer | `POST /shorten`, the clipboard |
| asset embedding (`cmake/`) | none | build time only | none |

What is hard here is not the arithmetic of one function but what lies between
steps: bytes that arrive in any portions, signals between two system calls,
clients who fall silent, a deadline, SQLite calls any of which may fail, a
process that may die between the commit of a record and the answer, and limits
(64-bit ids, 11 digits, 2048-byte URLs, a request buffer of exactly the largest
request) at which one byte decides. `PROJECT.json` lists these hazards, each at
its line, with the properties that cover it.

What makes each component correct:

* **base62**: numbers and codes correspond one to one; nothing wraps and nothing
  is written past an array, although the code tests neither.
* **repository**: an answered insert is stored for good; a failed one stored
  nothing; a find answers with what is stored; nothing leaks on an error path.
* **shortener and router**: a short URL that was given out leads to its URL, for
  ever, and nothing else leads there; creation never reuses a code; malformed,
  missing and failing are told apart.
* **HTTP framing and server**: the answer depends on the bytes, not on how they
  arrive; every client is answered or its connection failed; the deadline is for
  the whole request; a stop request ends the server cleanly wherever it comes.
* **request head**: `http_parse_request` scans the bytes once; what it accepts and
  what it makes of it (method, target, content length, transfer coding) is what the
  lines as a whole mean, at every length around `SIZE_MAX` and `HTTP_MAX_TARGET_BYTES`.
* **JSON parser**: one pass with recursion accepts exactly the JSON texts with one
  member "url" at the top that is a usable string, and finds that member's value,
  although other members may nest, repeat names or hold anything; it has at most 64
  nested values under way; a string is decoded exactly, and never past its buffer.
* **original URLs and responses**: two validators in two files must agree: what
  `has_valid_original_url` stores, `http_response_set_location` must accept, or a
  record answers 500 for ever; every response fits in the buffer of the serializer.
* **main**: across signals, kills and restarts, a request is served once and at one
  moment; nothing is stored behind a client's back; the exit status tells the truth.
* **browser page**: two asynchronous handlers and timers share the page; it shows the
  short URL of the last submission or none, and every failure permits a retry.

## 2. Modules

| Module | Models | Kind |
|---|---|---|
| `ShortCodes` | what `base62.c` computes | functions |
| `Base62` | the loops of `base62.c`, one iteration per step | state machine |
| `UrlRecords` | what `include/database.h` promises | abstract specification |
| `Database` | `database.c`, one SQLite call per step, with crashes | state machine that implements `UrlRecords` |
| `HttpFraming` | `http_parse_request` as a function of a prefix of a byte stream | functions |
| `Server` | `server.c`, one system call per step, with clients, clock and signals | state machine over `HttpFraming` |
| `Shortener` | `router.c` and `shortener.c`, with restarts | state machine over `UrlRecords` and `ShortCodes` |
| `RequestHead` | request line and headers in `http_parse_request`, one line per step | state machine |
| `JsonGrammar` | JSON and the body of `POST /shorten`, on whole texts | reference definitions |
| `JsonUrl` | `http_parse_url_json` and its recursive functions, one symbol or call per step | pushdown machine |
| `UnicodeText` | what JSON escapes and UTF-8 mean, as UTF-16 code units | reference definitions |
| `JsonStrings` | `json_parse_string`, one character or escape per step | state machine |
| `OriginalUrl` | `has_valid_original_url` | functions |
| `HttpResponse` | the response builder and the lengths the serializer adds up | functions |
| `UrlText` | a URL's way through the program: body, decoder, validator, record, Location, serializer | composition of the three above |
| `UrlService` | what the service promises its clients | abstract specification |
| `Service` | `main.c` around `Server`, with the stored table, kills and restarts | composition that implements `UrlService` |
| `BrowserPage` | the script of `web/index.html`, one uninterrupted piece of a handler per step | state machine |
| `MC*` | constants for TLC | instances |
| `NumeralTheorems` | what a positional code denotes, in any base | lemmas and theorems |
| `Base62Proofs`, `DatabaseProofs`, `ShortenerProofs`, `ParserProofs`, `UrlTextProofs`, `BrowserPageProofs`, `ServiceProofs` | theorems of the modules they are named after; those of `Server` are in `ServiceProofs`, those of `RequestHead` and `JsonUrl` in `ParserProofs` | proofs |

The layers meet at abstract specifications. `Shortener` takes `UrlRecords`, which
`Database` is shown to implement (checked and proved), and `ShortCodes`, which
`Base62` is shown to compute (checked and proved). `Server` uses `HttpFraming` as the parser,
whose verdict on a head is what `RequestHead` computes, and records that a request
was handed to the router as the answer `"routed"`. `Service` adds what the router
then does, each operation in one step: the thread makes no other call in between,
`Database` shows that a crash leaves a record or none, and `Shortener` what the
steps are. `UrlText` covers the data that the others take as model values.

### Correspondence to the code

* `Base62`: `EncodeDigit` is one iteration of the do-while loop, `EncodeTooSmall`
  and `EncodeEmit` what follows it; `DecodeCheck` the tests on entry,
  `DecodeDigit` and `DecodeForeign` one iteration, `DecodeEnd` the return. `Call`
  is the caller. Two history variables record the exact quotients and the exact
  values of the prefixes, which unbounded arithmetic has and the code has not.
* `Database`: `Open`, `OpenConnection`, `CreateSchema` and `UndoOpen` are
  `database_open`; `Invoke`, `Prepare`, `Bind`, `InsertStep` or `FindStep`, and
  then one of `InsertReject`, `InsertAccept`, `FindReject`, `FindAccept` are the
  two operations up to their returns; `Close` is `database_close`. `Crash` may
  come between any two of these. `schema`, `rows` and `sequence` are the file and
  survive it. SQLite is modelled from its use: a step commits or fails, a table
  with AUTOINCREMENT gives an id above all earlier ones or fails with
  SQLITE_FULL, `sqlite3_finalize` repeats the failure of the step, and
  `sqlite3_close` refuses a connection with live statements.
* `HttpFraming`: a byte stream is a record of where the things that matter to
  framing are in it: where its header section ends, where the first bad line
  ending becomes visible, what the request line and the headers are found to be,
  the content length. `Parse` makes the tests of the code in their order.
* `Server`: `pc` names the system call the thread is about to make. `Poll` and
  `Accept` are the loop of `server_run`, `ParseBytes`, `Wait`, `Input`, `Recv`
  and `Send` are `handle_client`, `Hangup` is the close after it; `Install`,
  `Listen`, `CloseListener` and `Restore` are what is around the loop. Every
  system call fails in every way the code tests for. `interrupted` says that a
  signal has interrupted the call under way; a signal that comes just before the
  call leaves it FALSE, which is the window between the test of the flag and
  `poll`.
* `Shortener`: `Route` is the tests of `router_handle`; `Create`, `Insert` and
  `Inserted` are `handle_shorten` with `shortener_create`; `Resolve`, `Find` and
  `Found` are `handle_redirect` with `shortener_resolve`. `Stop` is the end or
  the death of the process at any of these points. Well-formedness and length of
  a URL are constants; a request target is a sequence of characters. `OffersRoom` is the
  test of the capacities before the insert, `CreationFits` what may fail after it:
  `base62_encode`, the two `snprintf` and `http_response_init`. Each then answers 500, as
  in the code; that this never happens to a stored record is a property
  (`RecordsHaveCodes`). The buffers have the sizes that the headers compute.
* `RequestHead`: `RequestLine`, `HeaderLine` and `EndOfHead` are the three parts of
  the scan. A symbol is one character of each kind the code tells apart, or a word
  it compares with; a comparison that ignores case is a comparison of symbols. The scan takes
  NUL for a token character, as `strchr` finds the end of its own string (`IsToken`). The
  grammar it is compared with is written for any set of token characters: those of HTTP
  (`Token`), and those with NUL added (`TokenOrNul`).
  `WouldOverflow` is the test of `parse_decimal_size` before it multiplies.
* `JsonUrl`: `stack` has an entry for each nested array or object that is being parsed;
  the C stack has two calls for it, of `json_parse_value` and of `json_parse_object` or
  `json_parse_array`. `depth` is `parser->depth`. The brackets, the colon and the comma
  have the names RFC 8259 gives them. A string is one symbol with its
  decoded length; how strings are read is `JsonStrings`. The nesting limit is an
  exception to the documents, which accept any additional members.
* `JsonStrings`, `UrlText`: bytes are numbers. `Decode`, `Refuse` and `Finish` are one
  iteration of the loop of `json_parse_string`; `Create` is what `handle_shorten` does
  with the decoded value, `Visit` what `handle_redirect` does with the stored one, and
  `AppendPiece` one call of `append_bytes`, directly or by `append_c_string`.
* `OriginalUrl`: an index past the end of the text stands for the NUL. `inet_pton` is
  external: the set of texts it accepts is a constant.
* `Service`: `Begin`, `OpenDatabase`, `Serve`, `CloseDatabase` follow `main`; `Serve`
  is any step of `Server`'s thread, joined with `RouterHandle` when it is the one in
  which `handle_client` calls `router_handle`. `Die` and `Boot` kill and restart the
  process. `lost` remembers whose connection a kill cut.
* `BrowserPage`: `Submit`, `Respond` and `Read` are the submit handler up to its first
  `await`, up to its second, and after it; `Press`, `CopySettled` and `Timeout` the
  click handler. A short URL is named by its submission.

Definitions under a comment "Seeded fault" are used by no specification; they are
plausible mistakes, and for each property there is one that TLC finds.

## 3. What is checked

| Run | Instance | Shows |
|---|---|---|
| `base62` | base 3, numbers up to 19 (201 in base 3, so that the last digit can decide on overflow), codes of up to 3 digits, texts of up to 4 characters, one foreign character, every capacity | `ReversedFits`, `OutputFits`, `NeverWraps`, `RoundTrip`, `ReturnsCodes` |
| `database` | 3 ids, two URLs of different lengths, capacities zero, too small and sufficient | `NothingLeaks`, `PromisesAreKept`, `RecordsAreAccountedFor`; refinement of `UrlRecords` |
| `server_framing` | 1 client, header limit 3, body limit 2, all streams around the limits, no signals | `RoomForMore`, `AnswerIsTheStreams` |
| `server_clients` | 2 clients, a complete GET and a POST whose body never comes whole, 1 signal, deadline 1 tick | `NobodyIsForgotten`, `DeadlineIsTotal`, `ReturnsClean`; liveness `StopIsHonoured`, `EveryConnectionEnds` |
| `shortener` | base 2, ids up to 3, 64-bit numbers up to 7, targets of every kind, URLs that are short, longest, too long, ill-formed; codes of up to 2 digits, the JSON buffer and the body just long enough for them | `ShortUrlsResolve`, `OneCodeForARecord`, `MissingIsNotMalformed`, `RecordsHaveCodes`, `CodesAreFresh` |
| `json_url` | all bodies that differ from one of nine requests in at most one of 21 symbols left out, put in or replaced, and from the shortest in two; nesting limit 2, URL buffer 6 | `RecursionIsBounded`, `AcceptsRequests` |
| `url_text` | strings of up to 4 bytes around the limits of UTF-8, pairs of escapes around the limits of code units, URLs that differ from good ones in one byte or are a scheme and any three bytes; longest URL 14, largest body 72, response buffer exactly as large as required | `BufferSuffices`, `DecodesTheText`, `StoresOriginalUrls`, `RedirectsToTheText`, `ResponsesFit` |
| `request_head` | request lines that differ from a good one in at most two symbols; one to three headers of which one differs from a good one in a symbol; targets of up to 2 characters, `SIZE_MAX` 25 | `HeadIsUnderstood`, of the grammar of HTTP with NUL added to its token characters |
| `service` | 2 clients, any requests, every failing system call, 1 signal, 1 kill and any number of restarts, 1 id | `NothingStoredInSilence`, `ExitTellsTheTruth`, `SignalsNeverCutTheService`; refinement of `UrlService` |
| `browser` | 3 submissions, 3 copies, inputs that are empty, plausible or neither | `ShownIsTheLatest`; liveness `RetryIsPermitted`, `CopiedIsTemporary` |
| `request_head_nul`, `browser_copy` | those of `request_head` and `browser` | a violation each, see section 6 |

A type invariant is checked for `Base62`, `Database`, `Server` and `Shortener`, and
proved for these. `HeadIsUnderstood`, `AcceptsRequests`, `DecodesTheText` and
`StoresOriginalUrls` compare what the code finds in one pass with definitions that
say what a whole text is: an RFC's grammar, the meaning of UTF-8, the parts of a URL.

**Why the bounds are enough.** In `base62` the largest number is reached with
overflow by a digit and by a position, and every buffer size around every length
occurs. In `database` the ids run out, so SQLITE_FULL happens after records were
given, and every order of success, failure and crash of three inserts is covered.
In `server_framing` streams end before, at and after every limit, with every cut;
more bytes only repeat the same comparisons. Signals are left out there because
they do not change what the parser is given, and put in `server_clients`, where
two clients suffice for one to wait while the other is served. In `shortener`
there are ids, numbers that are no ids, numbers that overflow, leading zeros and
foreign characters, and the longest code leaves no byte of a buffer unused, so that
one byte less in any of them is noticed.

The parsers are scans that decide at the symbol they are at from a bounded context.
Bodies, heads and URLs therefore vary in one or two places of good ones that contain
every construct: every test is met where it succeeds and where it alone fails. Only
limits count, and each is reached, exceeded by one and missed by one: nesting, the
URL buffer, the target, `SIZE_MAX` (25 ends in the same digit as 2^64 - 1, so that the
last digit of a number can decide), the longest URL, the largest body. Escapes and
bytes are taken at all borders of their ranges. In `service` two clients suffice for
one to be stored while the other waits, looks it up or finds the table full; requests
have one byte, because what longer ones add is in `server_framing`. Its clients are
interchangeable and it has no liveness property, so that their symmetry is sound. In
`browser` three submissions and copies let an early, a middle and a late one be open
at once.

`CHECK_DEADLOCK FALSE` is set where the system stops: `base62` (the caller is done),
`server_*` (`server_run` returns), `json_url`, `url_text` and `request_head` (the text
is read), `service` (after the last client, signal and kill a process that was killed
by a signal or ended may start and end only so often). `Database`, `Shortener` and
`BrowserPage` never stop.

**Fairness.** `FairSpec` of `Server` has weak fairness of the thread's next step in
which no system call fails (`Succeed`: the scheduler runs the process, `poll` returns
when its time is over, `accept`, `recv` and `send` return once they can), of the one
failure that is certain (`NoticeReset`: `recv` of a connection that was reset) and of
`Tick` (CLOCK_MONOTONIC advances). A failure may come at any time but is owed by
nobody, so that what gets the thread out of a wait is a timeout of the code: without the
timeout of either `poll` the liveness properties fail, although `poll` could still fail.
Clients and signals owe nothing, so that a silent client is among the behaviours.
That `send` does not wait for the client for ever is an assumption: a response of
at most 16 KB fits in the default socket buffer.

`Spec` of `BrowserPage` has weak fairness of `Settle` (the browser settles a fetch and
the reading of its body: the server answers every connection or ends it, which is
`EveryConnectionEnds`) and of `Timeout` (timers fire). The user, the clipboard, whose
prompt may stay open, and the form owe nothing.

## 4. What is proved

The theorems hold for every value of the constants that satisfies the named
assumptions, which TLC also evaluates.

* **`Base62Proofs`** (any base above 1, any largest value not below the base, any
  injective alphabet, any array length whose power of the base exceeds the largest
  value: `BaseAssumption`, `AlphabetAssumption`, `LengthAssumption`). The real
  62^11 > 2^64 - 1 is an instance. `Power` is a constant function with its
  recurrence as assumption, because 62^11 is not computed in the code either.
  `Inv` links the two loops: the k-th quotient is determined by the digits found
  so far, the accumulator is the value of the prefix read so far, and while
  the second function works on the result of the first its k-th step undoes the
  corresponding step of the first. The properties say nothing about intermediate
  steps and are not inductive without this. Theorems: `TypeCorrect`,
  `ArrayIsLargeEnough`, `OutputStaysInBuffer`, `DecodingIsExact`, `CodesAreUnique`.

  `LoopsReturnCodes` relates the loops to `ShortCodes`, whose definitions are recursive
  functions over whole numbers and texts: the quotients the first loop leaves behind
  are, read backwards, the values of the prefixes of the text it writes, and the second
  loop computes the same values forwards. `RefusedInv` adds what is known of a text that
  was refused: a character that is no digit, or a prefix whose value does not fit, and
  then the value of the whole does not fit either.
* **`NumeralTheorems`** (any base above 1, any injective alphabet; no state): each
  number has one code, which denotes it (`CodeDenotes`), and a text without leading
  zeros is the code of what it denotes (`DenotesCode`); a larger number has no shorter
  code (`CodesGrow`). Induction is used for sets:
  a set of numbers with 0 and every successor is all of them, which follows from the
  least element of its complement. With it the recursive functions of `ShortCodes` are
  shown to satisfy their equations, and chains of sequences, in which each element is
  computed from the one before, to exist and to be unique.
* **`DatabaseProofs`** (`DatabaseAssumption`: some URL, a positive number of ids).
  `Inv` adds to the properties what is known at each `pc`: the record a call has
  stored is the last row, `lastRowid` is that row when the step is done, and an
  answered id is in the file. Theorems: `TypeCorrect`, `NothingIsLeaked`,
  `PromisesHold`, `RecordsHaveOwners`, and `Implements`, the refinement of
  `UrlRecords`: each step maps to a step of it or to a stutter.
* **`ServiceProofs`**, of `Server` (`FramingAssumption`: positive limits; `ServerAssumption`; any
  number of clients, streams, ticks, signals). `Inv` links the program counter to
  the open connection, the backlog and the listener (`ControlInv`), gives every
  client one place (`ClientInv`), and says what is known of answers, deadline and
  result at each point. The framing lemmas carry the argument: a refusal of a
  prefix is a refusal of every longer one (`RefusalIsStable`), and a full buffer
  is always decided (`CapacitySuffices`). Theorems: `TypeCorrect`, `BufferHasRoom`,
  `AnswersAreTheStreams`, `NobodyIsLeft`, `DeadlineHolds`, `ReturnIsClean`.

  `RunInv` is the part of `Inv` that does not depend on how the run began.
* **`ShortenerProofs`** (`ShortenerAssumption`, and `NumeralAssumption`: a base above 1 and
  an injective alphabet. That codes are injective and decode to what was encoded follows
  by `NumeralTheorems`; `LengthAssumption`: the longest code of an id is no longer than
  `base62_encode` expects, and the JSON buffer and the largest body hold a JSON with the
  longest code).
  `Inv` links `promised`, the short URLs given out, to `records`, and says what the
  thread knows at each `pc` between the insert and the answer, among it that the
  buffers were large enough when the insert was begun (`OffersRoom`). `RecordsHaveCodes` needs
  that no code is longer than that of the largest id (`CodesOfIdsFit`, from `CodesGrow`):
  then the branches after the insert that answer 500 are not taken. Theorems: `TypeCorrect`,
  `PromisedCodesResolve`, `RecordsHaveOneCode`, `MissingIsTold`, `NoRecordWithoutCode`,
  `NewCodesAreFresh`.
* **`ParserProofs`**, of `RequestHead` (`HeadAssumption`: natural limits, and heads of
  at least one line). `HeadsAreUnderstood` says that the scan of `http_parse_request`
  accepts exactly the heads that the grammar describes when NUL is added to its token
  characters, and takes the method, the target, the length and the transfer coding from
  them; with the grammar's own tokens this is false, see section 6. The grammar says that a line can be cut
  somehow; the scan looks for the first space, the first colon, the last character that is
  no blank. The lemmas show that there is only one way to cut: a token contains neither
  space nor colon (`AcceptedIsCut`, `RequestLineAccepted`, `FieldMeans`), and blanks can be
  taken off in one way (`TrimmedIsValue`). `DecimalMeans` says that `parse_decimal_size`
  returns the number that the digits denote, or refuses it: its test before the
  multiplication is one of the exact result (`OverflowMeans`), so nothing is ever reduced
  modulo 2^64. `HeadInv` says what is known of the lines read so far.

* **`ParserProofs`**, of `JsonUrl` (`JsonAssumption`: positive limits, and strings that
  are different from the other symbols; any symbols, any bodies). `RequestsAreAccepted`
  says that `http_parse_url_json` accepts a body just when it is JSON, an object with
  exactly one member url, that a string without NUL, and nested no deeper than the
  limit; and that what it returns is that string. `StackIsBounded` says that the
  recursion is bounded and over at the end.

  `JsonGrammar` says which spans of a text are values, elements and members, each by the
  spans within: a recursive definition. `GrammarIsDefinite` shows that it defines one thing and
  one only: a solution exists, the union of all sets of spans that can be derived from
  themselves (`LanguageExists`), and there is no second one, by induction on the length of
  the span (`LanguageIsUnique`). The parser is at one place of the text and
  knows nothing of spans, so the invariant has to say, of any place, how the text from
  there on must look for the whole to be JSON. Inside the innermost array or object that
  is `Expect`, which depends on where it ends; the parser does not know where, so
  `Continues` speaks of all ends at once: for each array or object on the stack there is
  the set of ends behind which the one around it can go on (`AreNested`), and the text is
  JSON just when `Expect` holds up to one of the innermost. Every action turns the
  `Expect` of its place into that of the next (`KeyExpects`, `ColonExpects`,
  `CommaExpects`, `ScalarExpects`, `NumberExpects`) or goes up or down one level
  (`EnterExpects`, `LeaveExpects`), and every symbol the parser refuses has no `Expect`
  (`WrongExpects`). A number is the one thing a grammar could end in several places: what
  follows a value is white space, a comma or a bracket, so only the longest will do
  (`NumberIsFound`). `Seen`, `Context` and `Shallow` keep account of the members called
  url so far, of the one that is about to begin, and of the depth: the stack is as high as
  there are more brackets opened than closed in the text, which is how `UrlValues` tells
  the members of the outermost object from others.
* **`UrlTextProofs`** (any texts and limits, of which `LocationAssumption` relates two):
  every step of the decoder writes less than it reads (`BufferIsLargeEnough`), and the
  bytes of a valid URL are allowed in a header, by the tests of two different
  functions (`StoredUrlsRedirect`). `EveryResponseFits` keeps the invariant that what
  is still to be appended adds up to no more than the room left (`SerialInv`), where
  the sum of a sequence of lengths is the first of its suffixes' sums (`AddUp`);
  `PiecesAddUp` bounds it for each response, from `ResponseAssumption` (256 bytes beside
  the Location and the body, and a body that holds the longest reason phrase).

  `TheTextIsDecoded` says that `json_parse_string` agrees with `UnicodeText` on every
  text. The reference spells a text as UTF-16 code units from its end to its start, the
  code reads from the start and writes UTF-8, and the two differ in where they find a
  fault: a half of a surrogate pair is a unit like any other to the reference until the
  whole is looked at, and an escape the code refuses at once. `ReadInv` relates them:
  the units of the text are those of the bytes written, as the reference reads UTF-8,
  followed by those of the rest of the text, and a text that was refused has units that
  stand for nothing, whatever surrounds them (`Spoils`). Below it are the lemmas on
  characters: the bytes `append_codepoint` writes for a scalar value are one well-formed
  character of that value (`Utf8Encodes`), `valid_utf8_length` finds exactly the
  well-formed characters (`LengthMeans`), and a pair of escapes is the two units of one
  scalar value above the first plane (`UnitsOfPair`).

  `OriginalUrlsAreStored` says that the scan of `has_valid_original_url`, which looks for
  one delimiter after another, accepts exactly the texts that can be cut into scheme,
  host, port and rest as the reference requires (`ValidIsOriginal`); the host in brackets
  relies on `Ipv6Assumption`, that `inet_pton` takes only hexadecimal digits, colons and
  dots of no more than its buffer. `StoreInv` adds what is stored at each `pc`.
* **`BrowserPageProofs`** (any numbers of submissions and copies): the button is
  disabled exactly while one submission is open (`LatestIsShown`).
* **`ServiceProofs`**, of `Service` (any number of clients, ids, signals, kills; `NoReplyAssumption`:
  `None` is not a reply). `ServiceInv` joins `RunInv`, which the theorems of `Server` show to
  be kept by every step of the server wherever the run started, with where `main` is
  (`MainInv`), where a signal finds no handler (`SignalInv`), whose records there are
  (`RequestInv`) and why connections ended (`EndInv`). The properties need all of it:
  that a kill strikes only where nobody is connected follows from which handlers are
  installed at each `pc`. The lemmas `ParseEffect`, `OtherEffect` and `ServeEffect`
  reduce the steps of the server to four that the clients can see. Theorems:
  `NothingIsStoredInSilence`, `ExitIsTruthful`, `SignalsSpareTheService`, and
  `ServiceIsImplemented`, the refinement of `UrlService`: answering is a step of it,
  as are the end of a response and the end of connections, all else is a stutter.

Some leaves name a back end and a time (`SMTT(30)`, `ZenonT(30)`): they are proved
in a second or two, but would fail on a busy machine with the default.

**Only model-checked**: the liveness properties (fairness and ENABLED are out of
the prover's reach: `StopIsHonoured`, `EveryConnectionEnds`, `RetryIsPermitted`,
`CopiedIsTemporary`). Every other property of the
passing runs is a theorem.

## 5. What is not modelled

* NULL arguments: `main` and the callers never pass any.
* SQLite's own durability, the kernel's TCP, other processes that write the same
  file: assumed as described above. A busy database shows as a failing call.
* What happens to a response after the last `send`: a connection that is closed
  with unread input may be reset by the kernel.
* The build step that embeds the page, and the tests.

* The texts `inet_pton` takes for IPv6 addresses: libc, a constant set of texts.
* A signal after `database_close`: nothing is left to lose.
* The wording of responses and of the page but for what messages claim; its markup
  and styles.

## 6. Findings

**A NUL in a token.** `is_token_char` (`http.c:44`) looks a character up with `strchr`,
which also finds the NUL at the end of its list. A request whose method contains a NUL is
therefore accepted and routed (405 or 404), and a header whose name contains one is
skipped like any unknown header, while `docs/product-specs/url-shortener-v1.md:104` says
"Other malformed requests return HTTP 400." The run `request_head_nul` shows a request
line with a NUL for a method. `HeadIsUnderstood` shows that this is all: with NUL among the
token characters the scan agrees with the grammar, and the rest of the head keeps its
meaning.

**A late copy failure.** The copy handler's `catch` says "The Short URL is still
available to select" (`web/index.html:52`), and `docs/ACCEPTANCE.md:84` promises that it
is. If `writeText` is rejected only after the form was submitted again, the result is
hidden while the page says so. The run `browser_copy` shows the case.

Three things that are not findings:

* `router_handle` tests the routes `/health` and `/shorten` before it considers a code, as
  `docs/design-docs/routing.md:10` says. A record whose code is spelled like a route (with
  base 62 the first such id is 15 783 592 667) therefore gets a short URL that answers 200
  or 405, while `docs/ACCEPTANCE.md:55` promises 302 for every existing record: two
  documents disagree, and the code follows one of them. `ShortUrlsResolve` excepts these
  codes and no others; they occur in the run `shortener`.
* `docs/ACCEPTANCE.md:113` promises a normal exit on SIGINT or SIGTERM, and a second signal
  after the handlers are restored (`server.c:365`) still kills the process;
  `SignalsNeverCutTheService` says, for all instances, that nobody is connected by then.
* The parser refuses a body nested deeper than 64, where the documents accept additional
  members without a limit; `AcceptsRequests` states the limit.

## 7. What is left

The components that run are modelled, and their safety properties are proved.
Left for later: the steps of `Shortener` and `Database`
inside `Service`, instead of one step for both, which would make the two refinements
one chain; larger texts in `url_text`.
