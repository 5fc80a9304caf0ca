--------------------------- MODULE ServiceProofs ----------------------------
(***************************************************************************)
(* First the server alone: for any number of clients, any streams, limits, *)
(* deadline and number of signals it keeps all its safety properties.      *)
(* RunInv says where in the code which connection is open, what it was     *)
(* answered, and what the loops know of the bytes they have; it holds of a *)
(* run of server_run that starts anywhere.                                 *)
(*                                                                         *)
(* Then the whole program, for any number of clients, signals, crashes and *)
(* ids: it implements the service, stores nothing in silence, is not cut   *)
(* off by signals and tells the truth when it exits.  RunInv is used for   *)
(* each of its runs of server_run between two crashes.                     *)
(***************************************************************************)
EXTENDS Service, SequenceTheorems, TLAPS

Reading == {"wait", "input", "recv"}
Handling == {"parse", "send", "hangup"} \cup Reading

Waiting == {backlog[i] : i \in DOMAIN backlog}

(* Where there is a listener, and where a connection.                      *)
ControlInv ==
    /\ pc \in Handling => current # None
    /\ pc \notin Handling \cup {"killed"} => current = None
    /\ pc \in {"start", "install", "listen", "restore", "returned"} =>
          ~listener /\ backlog = <<>>
    /\ pc = "accept" => backlog # <<>>

(* A client waits in the backlog, is handled, or is done with: once each.  *)
ClientInv ==
    /\ \A c \in Client : arrived[c] <= stream[c].total
    /\ \A c \in Client : peer[c] = "closed" => arrived[c] = stream[c].total
    /\ current # None => received <= arrived[current]
    /\ \A i, j \in DOMAIN backlog : backlog[i] = backlog[j] => i = j
    /\ current \notin ended \cup Waiting
    /\ ended \cap Waiting = {}
    /\ \A c \in Client : peer[c] = "idle" <=> c \notin ended \cup Waiting \cup {current}
    /\ \A c \in Client : c \notin ended \cup {current} => answer[c] = "none"

(* What the open connection was answered where.                            *)
AnswerInv ==
    /\ pc \in {"parse"} \cup Reading => answer[current] = "none"
    /\ pc \in Reading => /\ Parse(stream[current], received) = "INCOMPLETE"
                         /\ received < Capacity
    /\ pc = "hangup" => \/ current \in sent \cup broken
                        \/ stop /\ answer[current] = "none"

DeadlineInv ==
    /\ DeadlineIsTotal
    /\ pc \in {"input", "recv"} => lateReads = 0
    /\ pc \in {"parse", "wait"} /\ lateReads > 0 => elapsed >= Deadline

ResultInv ==
    /\ pc \in {"start", "listen", "loop", "poll", "accept", "close"} \cup Handling =>
          step = 1
    /\ result = (IF faulty THEN 1 ELSE 0)
    /\ pc \in {"close", "restore", "returned"} => stop \/ faulty
    /\ pc = "restore" /\ ~faulty => installed \subseteq {Handlers[i] : i \in step .. 3}
    /\ pc = "returned" /\ ~faulty => installed = {}
    /\ pc = "returned" /\ step > 1 => installed = {}

(* What each run of server_run keeps, whatever happened before it.         *)
RunInv ==
    /\ TypeOK
    /\ ControlInv
    /\ ClientInv
    /\ AnswerInv
    /\ DeadlineInv
    /\ ResultInv
    /\ AnswerIsTheStreams

(* The first run begins before any connection is closed.                   *)
FirstInv == pc = "start" => ended = {}

Inv ==
    /\ RunInv
    /\ FirstInv
    /\ NobodyIsForgotten

-----------------------------------------------------------------------------
(* Framing.                                                                *)
Failing == {"BAD_REQUEST", "HEADERS_TOO_LARGE", "BODY_TOO_LARGE",
            "UNSUPPORTED_TRANSFER"}

(* The types of the fields of a stream.                                    *)
LEMMA StreamFields ==
    ASSUME NEW s \in Stream
    PROVE  /\ s.total \in Nat /\ s.headerEnd \in Nat /\ s.badLine \in Nat
           /\ s.head \in HeadVerdict /\ s.contentLength \in Nat
           /\ RequestEnd(s) \in Nat
    BY DEF Stream, RequestEnd

(* The statuses of http_parse_request.                                     *)
LEMMA ParseStatus ==
    ASSUME NEW s \in Stream, NEW length \in Nat
    PROVE  Parse(s, length) \in Failing \cup {"OK", "INCOMPLETE"}
    BY StreamFields DEF Parse, Failing, HeadVerdict

(* A full request buffer is enough for the parser to decide.               *)
LEMMA CapacitySuffices ==
    ASSUME NEW s \in Stream
    PROVE  Parse(s, Capacity) # "INCOMPLETE"
    BY StreamFields, FramingAssumption
        DEF Parse, HeaderIsIn, HeaderIsTooLarge, RequestEnd, Capacity, HeadVerdict

(* A bad line ending that was seen is seen again with more bytes.          *)
LEMMA LineEndingStaysBad ==
    ASSUME NEW s \in Stream, NEW n \in Nat, NEW m \in Nat, n <= m,
           LineEndingIsBad(s, n)
    PROVE  LineEndingIsBad(s, m)
    BY StreamFields DEF LineEndingIsBad, HeaderIsIn

(* More bytes never turn a refusal into something else than a refusal, and *)
(* an unsupported transfer coding remains one.                             *)
LEMMA RefusalIsStable ==
    ASSUME NEW s \in Stream, NEW n \in Nat, NEW m \in Nat, n <= m,
           Parse(s, n) \in Failing
    PROVE  /\ Parse(s, m) \in Failing
           /\ Parse(s, n) = "UNSUPPORTED_TRANSFER" <=>
                 Parse(s, m) = "UNSUPPORTED_TRANSFER"
    <1> USE StreamFields, FramingAssumption
    <1>1. CASE HeaderIsIn(s, n)
        <2>1. HeaderIsIn(s, m)
            BY <1>1 DEF HeaderIsIn
        <2>2. /\ LineEndingIsBad(s, n) <=> LineEndingIsBad(s, m)
              /\ HeaderIsTooLarge(s, n) <=> HeaderIsTooLarge(s, m)
            BY <1>1, <2>1 DEF LineEndingIsBad, HeaderIsTooLarge
        <2> QED BY <1>1, <2>1, <2>2 DEF Parse, Failing, HeadVerdict
    <1>2. CASE ~HeaderIsIn(s, n)
        <2>1. LineEndingIsBad(s, n) \/ HeaderIsTooLarge(s, n)
            BY <1>2 DEF Parse, Failing
        <2>2. ~LineEndingIsBad(s, n) => HeaderIsTooLarge(s, m)
            BY <1>2, <2>1 DEF HeaderIsTooLarge, HeaderIsIn
        <2>3. LineEndingIsBad(s, m) \/ HeaderIsTooLarge(s, m)
            BY <2>1, <2>2, LineEndingStaysBad
        <2>4. /\ Parse(s, n) \in {"BAD_REQUEST", "HEADERS_TOO_LARGE"}
              /\ Parse(s, m) \in {"BAD_REQUEST", "HEADERS_TOO_LARGE"}
            BY <2>1, <2>3 DEF Parse
        <2> QED BY <2>4 DEF Failing
    <1> QED BY <1>1, <1>2

(* Bytes behind an accepted request turn it into a bad one.                *)
LEMMA AcceptedIsExact ==
    ASSUME NEW s \in Stream, NEW n \in Nat, Parse(s, n) = "OK"
    PROVE  n = RequestEnd(s)
    BY StreamFields DEF Parse, HeadVerdict

(* What the loop decides about its bytes is what it would decide about all *)
(* of the stream, unless it serves a request before bytes behind it.       *)
LEMMA DecisionCases ==
    ASSUME stream[current] \in Stream, received \in Nat
    PROVE  /\ Decision \in {"routed", "400", "501", "none"}
           /\ Decision = "routed" <=> Parse(stream[current], received) = "OK"
           /\ Decision = "501" <=>
                 Parse(stream[current], received) = "UNSUPPORTED_TRANSFER"
           /\ Decision = "none" <=>
                 /\ Parse(stream[current], received) = "INCOMPLETE"
                 /\ received # Capacity
    BY DEF Decision

(* What is decided about a whole stream, by the status of the parser.      *)
LEMMA VerdictCases ==
    ASSUME NEW s \in Stream
    PROVE  /\ Parse(s, s.total) = "OK" => Verdict(s) = "routed"
           /\ Parse(s, s.total) = "UNSUPPORTED_TRANSFER" => Verdict(s) = "501"
           /\ Parse(s, s.total) \notin {"OK", "UNSUPPORTED_TRANSFER"} =>
                 Verdict(s) = "400"
    BY DEF Verdict

(* The answer the client is entitled to.                                   *)
Fitting(s, a) ==
    \/ a = Verdict(s)
    \/ /\ a = "routed"
       /\ s.total > RequestEnd(s)
       /\ Parse(s, RequestEnd(s)) = "OK"

(* Nothing decided about a prefix contradicts what a whole stream          *)
(* deserves.                                                               *)
LEMMA DecisionFits ==
    ASSUME stream[current] \in Stream, received \in 0 .. Capacity,
           received <= stream[current].total, Decision # "none"
    PROVE  Fitting(stream[current], Decision)
    <1> DEFINE s == stream[current]
    <1>1. /\ s \in Stream /\ received \in Nat /\ s.total \in Nat
          /\ received <= s.total
        BY StreamFields
    <1>2. Parse(s, received) # "INCOMPLETE"
        <2>1. received = Capacity => Parse(s, received) # "INCOMPLETE"
            BY <1>1, CapacitySuffices
        <2> QED BY <2>1, <1>1, DecisionCases
    <1>3. CASE Parse(s, received) = "OK"
        <2>1. received = RequestEnd(s)
            BY <1>1, <1>3, AcceptedIsExact
        <2>2. Decision = "routed"
            BY <1>1, <1>3, DecisionCases
        <2>3. received = s.total => Verdict(s) = "routed"
            BY <1>1, <1>3, VerdictCases
        <2> QED BY <1>1, <1>3, <2>1, <2>2, <2>3 DEF Fitting
    <1>4. CASE Parse(s, received) \in Failing
        <2>1. /\ Parse(s, s.total) \in Failing
              /\ Parse(s, received) = "UNSUPPORTED_TRANSFER" <=>
                     Parse(s, s.total) = "UNSUPPORTED_TRANSFER"
            BY <1>1, <1>4, RefusalIsStable
        <2>2. CASE Parse(s, received) = "UNSUPPORTED_TRANSFER"
            BY <1>1, <2>1, <2>2, DecisionCases, VerdictCases DEF Fitting
        <2>3. CASE Parse(s, received) # "UNSUPPORTED_TRANSFER"
            <3>1. Decision = "400"
                BY <1>1, <1>2, <1>4, <2>3, DecisionCases DEF Failing
            <3>2. Verdict(s) = "400"
                BY <1>1, <2>1, <2>3, VerdictCases DEF Failing
            <3> QED BY <3>1, <3>2 DEF Fitting
        <2> QED BY <2>2, <2>3
    <1> QED BY <1>1, <1>2, <1>3, <1>4, ParseStatus DEF Failing

-----------------------------------------------------------------------------
(* The backlog.                                                            *)
LEMMA AppendWaiting ==
    ASSUME NEW c \in Client, backlog \in Seq(Client),
           backlog' = Append(backlog, c), c \notin Waiting,
           \A i, j \in DOMAIN backlog : backlog[i] = backlog[j] => i = j
    PROVE  /\ backlog' \in Seq(Client)
           /\ Waiting' = Waiting \cup {c}
           /\ (\A i, j \in DOMAIN backlog : backlog[i] = backlog[j] => i = j)'
    <1>1. /\ Len(backlog) \in Nat
          /\ DOMAIN backlog = 1 .. Len(backlog)
          /\ DOMAIN backlog' = 1 .. (Len(backlog) + 1)
          /\ backlog' \in Seq(Client)
          /\ backlog'[Len(backlog) + 1] = c
          /\ \A i \in 1 .. Len(backlog) : backlog'[i] = backlog[i]
        BY LenProperties, AppendProperties
    <1>2. Waiting' = Waiting \cup {c}
        BY <1>1 DEF Waiting
    <1>3. \A i \in DOMAIN backlog : backlog[i] # c
        BY DEF Waiting
    <1> QED BY <1>1, <1>2, <1>3

(* Accepting takes the head of the backlog and only that.                  *)
LEMMA TailWaiting ==
    ASSUME backlog \in Seq(Client), backlog # <<>>, backlog' = Tail(backlog),
           \A i, j \in DOMAIN backlog : backlog[i] = backlog[j] => i = j
    PROVE  /\ backlog' \in Seq(Client)
           /\ Head(backlog) \in Client
           /\ Head(backlog) \in Waiting
           /\ Waiting' = Waiting \ {Head(backlog)}
           /\ (\A i, j \in DOMAIN backlog : backlog[i] = backlog[j] => i = j)'
    <1>1. /\ Len(backlog) \in Nat \ {0}
          /\ DOMAIN backlog = 1 .. Len(backlog)
          /\ Head(backlog) = backlog[1]
          /\ Head(backlog) \in Client
          /\ backlog' \in Seq(Client)
          /\ DOMAIN backlog' = 1 .. (Len(backlog) - 1)
          /\ \A i \in 1 .. (Len(backlog) - 1) : backlog'[i] = backlog[i + 1]
        BY LenProperties, HeadTailProperties, EmptySeq
    <1>2. Waiting' = Waiting \ {Head(backlog)}
        <2>1. ASSUME NEW c \in Waiting'
              PROVE  c \in Waiting \ {Head(backlog)}
            BY <1>1, <2>1 DEF Waiting
        <2>2. ASSUME NEW c \in Waiting, c # Head(backlog)
              PROVE  c \in Waiting'
            <3>1. PICK i \in 1 .. Len(backlog) : c = backlog[i]
                BY <1>1 DEF Waiting
            <3>2. i - 1 \in 1 .. (Len(backlog) - 1) /\ backlog'[i - 1] = c
                BY <1>1, <2>2, <3>1
            <3> QED BY <1>1, <3>2 DEF Waiting
        <2> QED BY <2>1, <2>2
    <1>3. (\A i, j \in DOMAIN backlog : backlog[i] = backlog[j] => i = j)'
        BY <1>1
    <1>4. Head(backlog) \in Waiting
        BY <1>1 DEF Waiting
    <1> QED BY <1>1, <1>2, <1>3, <1>4

-----------------------------------------------------------------------------
(* The three handlers.                                                     *)
LEMMA AllHandlers == {Handlers[i] : i \in 1 .. 3} = {"SIGINT", "SIGTERM", "SIGPIPE"}
    <1>1. 1 .. 3 = {1, 2, 3}
        OBVIOUS
    <1> QED BY <1>1 DEF Handlers

(* An answer that fits the stream of its connection leaves all fitting. *)
LEMMA RespondFits ==
    ASSUME TypeOK, AnswerIsTheStreams, current \in Client, NEW status,
           Fitting(stream[current], status), UNCHANGED <<stream, late>>,
           answer' = [answer EXCEPT ![current] = status]
    PROVE  AnswerIsTheStreams'
    <1>1. \A c \in Client :
             answer'[c] = IF c = current THEN status ELSE answer[c]
        BY DEF TypeOK
    <1> QED BY <1>1 DEF AnswerIsTheStreams, Fitting

(* The names of the handlers are different.                                *)
LEMMA HandlerNames ==
    /\ \A i \in 1 .. 3 : Handlers[i] \in {"SIGINT", "SIGTERM", "SIGPIPE"}
    /\ \A i, j \in 1 .. 3 : Handlers[i] = Handlers[j] => i = j
    BY DEF Handlers

(* The labels of the thread.                                               *)
Label == {"start", "install", "listen", "loop", "poll", "accept", "parse",
          "wait", "input", "recv", "send", "hangup", "close", "restore",
          "returned", "killed"}

(* A step that only moves control keeps the types.                         *)
LEMMA JustGotoKeepsType ==
    ASSUME TypeOK, NEW label \in Label, JustGoto(label)
    PROVE  TypeOK'
    BY DEF TypeOK, JustGoto, Goto, Label, thread, connection, clients, history

(* Closing the open connection keeps the types.                            *)
LEMMA GiveUpKeepsType ==
    ASSUME TypeOK, GiveUp
    PROVE  TypeOK'
    BY DEF TypeOK, GiveUp, Goto, Fault, connection, clients

(* Breaking out of the loop of handle_client keeps the types.              *)
LEMMA BreakKeepsType ==
    ASSUME TypeOK, current \in Client, Break
    PROVE  TypeOK'
    BY DEF TypeOK, Break, Goto, thread, connection, clients

(* Responding keeps the types.                                             *)
LEMMA RespondKeepsType ==
    ASSUME TypeOK, current \in Client, late' \subseteq Client,
           NEW status \in {"routed", "400", "501"}, Respond(status)
    PROVE  TypeOK'
    <1>1. unsent' \in 0 .. ResponseLength
        BY ServerAssumption DEF Respond
    <1>2. answer' \in [Client -> {"none", "routed", "400", "501"}]
        BY DEF TypeOK, Respond
    <1>3. UNCHANGED <<thread, current, received, elapsed, clients, signals, sent,
                      ended, broken, lateReads, faulty>>
        BY DEF Respond
    <1>4. pc' = "send" /\ interrupted' = FALSE
        BY DEF Respond, Goto
    <1> QED BY <1>1, <1>2, <1>3, <1>4 DEF TypeOK, thread, clients

(* The ways out of accept and recv that find something.                    *)
Taken ==
    /\ backlog' = Tail(backlog)
    /\ received' = 0 /\ elapsed' = 0 /\ unsent' = 0
    /\ lateReads' = 0
    /\ \/ Goto("parse") /\ UNCHANGED broken
       \/ Goto("hangup") /\ broken' = broken \cup {Head(backlog)}
    /\ UNCHANGED <<thread, stream, arrived, peer, signals, answer, sent,
                   ended, late, faulty>>

Taking ==
    /\ \E n \in 1 .. (Capacity - received) :
          /\ received + n <= arrived[current]
          /\ received' = received + n
    /\ lateReads' = lateReads + (IF elapsed >= Deadline THEN 1 ELSE 0)
    /\ Goto("parse")
    /\ UNCHANGED <<thread, current, elapsed, unsent, clients, signals,
                   answer, sent, ended, late, broken, faulty>>

(* A taken connection is no longer waiting.                                *)
LEMMA TakenFrame ==
    ASSUME RunInv, Accept, Taken, current' = Head(backlog)
    PROVE  /\ backlog' \in Seq(Client)
           /\ current' \in Client /\ current' \in Waiting
           /\ Waiting' = Waiting \ {current'}
           /\ (\A i, j \in DOMAIN backlog : backlog[i] = backlog[j] => i = j)'
    BY TailWaiting DEF RunInv, TypeOK, ControlInv, ClientInv, Taken, Accept

(* Every step keeps the types.                                             *)
LEMMA TypeOKStep ==
    ASSUME RunInv, [Next]_vars
    PROVE  TypeOK'
    <1> USE DEF RunInv, thread, connection, clients, history
    <1>1. CASE Start
        BY <1>1 DEF Start, Goto, TypeOK
    <1>2. CASE Install
        <2>1. step' \in 1 .. 3
            BY <1>2 DEF Install, TypeOK
        <2>2. installed' \subseteq {"SIGINT", "SIGTERM", "SIGPIPE"}
            BY <1>2, HandlerNames, ZenonT(30) DEF Install, TypeOK
        <2>3. result' \in {0, 1} /\ faulty' \in BOOLEAN
            BY <1>2 DEF Install, TypeOK, Fault, NoFault
        <2>4. pc' \in {"install", "listen", "returned"} /\ interrupted' = FALSE
            BY <1>2 DEF Install, Goto
        <2>5. UNCHANGED <<stop, listener, connection, clients, signals, answer,
                          sent, ended, late, broken, lateReads>>
            BY <1>2 DEF Install
        <2> QED BY <2>1, <2>2, <2>3, <2>4, <2>5 DEF TypeOK
    <1>3. CASE Listen
        BY <1>3 DEF Listen, Goto, Fault, NoFault, TypeOK
    <1>4. CASE CloseListener
        <2>1. backlog' \in Seq(Client)
            BY <1>4 DEF CloseListener
        <2>2. ended' \subseteq Client
            <3>1. \A i \in DOMAIN backlog : backlog[i] \in Client
                BY LenProperties, ElementOfSeq DEF TypeOK
            <3> QED BY <1>4, <3>1 DEF CloseListener, TypeOK
        <2>3. result' \in {0, 1} /\ faulty' \in BOOLEAN
            BY <1>4 DEF CloseListener, TypeOK, Fault, NoFault
        <2>4. pc' = "restore" /\ interrupted' = FALSE /\ listener' = FALSE
            BY <1>4 DEF CloseListener, Goto
        <2>5. UNCHANGED <<step, stop, installed, connection, stream, arrived,
                          peer, signals, answer, sent, late, broken, lateReads>>
            BY <1>4 DEF CloseListener
        <2> QED BY <2>1, <2>2, <2>3, <2>4, <2>5 DEF TypeOK
    <1>5. CASE Restore
        <2>1. step' \in 1 .. 3
            BY <1>5 DEF Restore, TypeOK
        <2>2. installed' \subseteq {"SIGINT", "SIGTERM", "SIGPIPE"}
            BY <1>5 DEF Restore, TypeOK
        <2>3. result' \in {0, 1} /\ faulty' \in BOOLEAN
            BY <1>5 DEF Restore, TypeOK, Fault, NoFault
        <2>4. pc' \in {"restore", "returned"} /\ interrupted' = FALSE
            BY <1>5 DEF Restore, Goto
        <2>5. UNCHANGED <<stop, listener, connection, clients, signals, answer,
                          sent, ended, late, broken, lateReads>>
            BY <1>5 DEF Restore
        <2> QED BY <2>1, <2>2, <2>3, <2>4, <2>5 DEF TypeOK
    <1>6. CASE Loop
        BY <1>6 DEF Loop, JustGoto, Goto, TypeOK
    <1>7. CASE Poll
        BY <1>7 DEF Poll, JustGoto, Goto, GiveUp, Fault, TypeOK
    <1>8. CASE Accept
        <2>1. CASE JustGoto("loop")
            BY <2>1, JustGotoKeepsType DEF Label
        <2>2. CASE GiveUp
            BY <2>2, GiveUpKeepsType
        <2>3. CASE current' = Head(backlog) /\ Taken
            <3>1. current' \in Client /\ backlog' \in Seq(Client)
                BY <2>3, <1>8, TakenFrame
            <3>2. /\ received' \in 0 .. Capacity /\ elapsed' \in 0 .. Deadline
                  /\ unsent' \in 0 .. ResponseLength /\ lateReads' \in Nat
                BY <2>3, ServerAssumption, FramingAssumption
                    DEF Taken, Capacity
            <3>3. broken' \subseteq Client /\ interrupted' = FALSE
                BY <2>3, <3>1 DEF Taken, Goto, TypeOK
            <3>4. pc' \in {"parse", "hangup"}
                BY <2>3 DEF Taken, Goto
            <3>5. UNCHANGED <<thread, stream, arrived, peer, signals, answer,
                              sent, ended, late, faulty>>
                BY <2>3 DEF Taken
            <3> QED BY <3>1, <3>2, <3>3, <3>4, <3>5 DEF TypeOK
        <2> QED BY <1>8, <2>1, <2>2, <2>3 DEF Accept, Taken
    <1>9. CASE ParseBytes
        <2>1. current \in Client
            BY <1>9 DEF ParseBytes, ControlInv, Handling, Reading, TypeOK
        <2>2. CASE JustGoto("hangup") \/ JustGoto("wait")
            BY <2>2, JustGotoKeepsType DEF Label
        <2>3. CASE Respond(Decision) /\ Decision # "none" /\ UNCHANGED late
            <3>1. Decision \in {"routed", "400", "501"}
                BY <2>1, <2>3, DecisionCases, ServerAssumption DEF TypeOK, Capacity
            <3> QED BY <2>1, <2>3, <3>1, RespondKeepsType DEF TypeOK
        <2> QED BY <1>9, <2>2, <2>3 DEF ParseBytes
    <1>10. CASE Wait
        <2>1. current \in Client
            BY <1>10 DEF Wait, ControlInv, Handling, Reading, TypeOK
        <2>2. CASE JustGoto("hangup") \/ JustGoto("input")
            BY <2>2, JustGotoKeepsType DEF Label
        <2>3. CASE Break
            BY <2>1, <2>3, BreakKeepsType
        <2>4. CASE DeadlineAnswer
            <3>1. late' \subseteq Client /\ Respond("400")
                BY <2>4, <2>1 DEF DeadlineAnswer, TypeOK
            <3> QED BY <3>1, <2>1, RespondKeepsType
        <2> QED BY <1>10, <2>2, <2>3, <2>4 DEF Wait
    <1>11. CASE Input
        <2>1. current \in Client
            BY <1>11 DEF Input, ControlInv, Handling, Reading, TypeOK
        <2>2. CASE JustGoto("recv") \/ JustGoto("wait")
            BY <2>2, JustGotoKeepsType DEF Label
        <2>3. CASE Break
            BY <2>1, <2>3, BreakKeepsType
        <2>4. CASE DeadlineAnswer
            <3>1. late' \subseteq Client /\ Respond("400")
                BY <2>4, <2>1 DEF DeadlineAnswer, TypeOK
            <3> QED BY <3>1, <2>1, RespondKeepsType
        <2> QED BY <1>11, <2>2, <2>3, <2>4 DEF Input
    <1>12. CASE Recv
        <2>1. current \in Client
            BY <1>12 DEF Recv, ControlInv, Handling, Reading, TypeOK
        <2>2. CASE JustGoto("parse")
            BY <2>2, JustGotoKeepsType DEF Label
        <2>3. CASE Break
            BY <2>1, <2>3, BreakKeepsType
        <2>4. CASE Respond("400") /\ UNCHANGED late
            BY <2>1, <2>4, RespondKeepsType DEF TypeOK
        <2>5. CASE Taking
            <3>1. received' \in 0 .. Capacity
                BY <2>5, ServerAssumption, FramingAssumption DEF Taking, TypeOK, Capacity
            <3>2. lateReads' \in Nat
                BY <2>5 DEF Taking, TypeOK
            <3>3. pc' = "parse" /\ interrupted' = FALSE
                BY <2>5 DEF Taking, Goto
            <3>4. UNCHANGED <<thread, current, elapsed, unsent, clients, signals,
                              answer, sent, ended, late, broken, faulty>>
                BY <2>5 DEF Taking
            <3> QED BY <3>1, <3>2, <3>3, <3>4 DEF TypeOK
        <2> QED BY <1>12, <2>2, <2>3, <2>4, <2>5 DEF Recv, Taking
    <1>13. CASE Send
        <2>1. current \in Client
            BY <1>13 DEF Send, ControlInv, Handling, Reading, TypeOK
        <2>2. CASE JustGoto("send")
            BY <2>2, JustGotoKeepsType DEF Label
        <2>3. CASE Break
            BY <2>1, <2>3, BreakKeepsType
        <2>4. CASE /\ unsent' \in 0 .. (unsent - 1)
                   /\ Goto("send")
                   /\ UNCHANGED <<thread, current, received, elapsed, clients,
                                  signals, history>>
            <3>1. unsent' \in 0 .. ResponseLength
                BY <2>4, ServerAssumption DEF TypeOK
            <3>2. pc' = "send" /\ interrupted' = FALSE
                BY <2>4 DEF Goto
            <3> QED BY <2>4, <3>1, <3>2 DEF TypeOK
        <2>5. CASE /\ Goto("hangup")
                   /\ sent' = sent \cup {current}
                   /\ UNCHANGED <<thread, connection, clients, signals, answer,
                                  ended, late, broken, lateReads, faulty>>
            BY <2>1, <2>5 DEF Goto, TypeOK
        <2> QED BY <1>13, <2>2, <2>3, <2>4, <2>5 DEF Send
    <1>14. CASE Hangup
        <2>1. current \in Client
            BY <1>14 DEF Hangup, ControlInv, Handling, Reading, TypeOK
        <2>2. ended' \subseteq Client /\ current' = None /\ pc' = "loop"
              /\ interrupted' = FALSE
            BY <2>1, <1>14 DEF Hangup, Goto, TypeOK
        <2>3. UNCHANGED <<thread, received, elapsed, unsent, clients, signals,
                          answer, sent, late, broken, lateReads, faulty>>
            BY <1>14 DEF Hangup
        <2> QED BY <2>2, <2>3 DEF TypeOK
    <1>15. CASE \E c \in Client : Connect(c)
        BY <1>15 DEF Connect, Alive, quiet, TypeOK
    <1>16. CASE \E c \in Client : Deliver(c)
        BY <1>16 DEF Deliver, Alive, quiet, TypeOK
    <1>17. CASE \E c \in Client : Leave(c)
        BY <1>17, SMTT(30) DEF Leave, Alive, quiet, TypeOK
    <1>18. CASE Tick
        <2>1. elapsed' \in 0 .. Deadline
            BY <1>18, ServerAssumption DEF Tick, TypeOK
        <2>2. UNCHANGED <<pc, interrupted, thread, current, received, unsent,
                          clients, signals, history>>
            BY <1>18 DEF Tick, quiet
        <2> QED BY <2>1, <2>2 DEF TypeOK
    <1>19. CASE Signal
        <2>1. signals' \in 0 .. MaxSignals
            BY <1>19, ServerAssumption DEF Signal, TypeOK
        <2>2. interrupted' \in BOOLEAN
            BY <1>19, Zenon DEF Signal, TypeOK
        <2>3. pc' \in {pc, "killed"} /\ stop' \in {stop, TRUE}
            BY <1>19 DEF Signal
        <2>4. UNCHANGED <<step, result, installed, listener, connection, clients,
                          history>>
            BY <1>19 DEF Signal
        <2> QED BY <2>1, <2>2, <2>3, <2>4, ZenonT(30) DEF TypeOK
    <1>20. CASE UNCHANGED vars
        BY <1>20 DEF vars, TypeOK
    <1> QED BY <1>1, <1>2, <1>3, <1>4, <1>5, <1>6, <1>7, <1>8, <1>9, <1>10, <1>11,
            <1>12, <1>13, <1>14, <1>15, <1>16, <1>17, <1>18, <1>19, <1>20
            DEF Next, Thread, World

(* Every step keeps the link of control to the connections and the         *)
(* listener.                                                               *)
LEMMA ControlInvStep ==
    ASSUME RunInv, [Next]_vars
    PROVE  ControlInv'
    <1> USE DEF RunInv, thread, connection, clients, history
    <1>1. CASE Start
        BY <1>1 DEF Start, Goto, TypeOK, ControlInv, Handling, Reading
    <1>2. CASE Install
        BY <1>2 DEF Install, Goto, Fault, NoFault, TypeOK, ControlInv,
            Handling, Reading
    <1>3. CASE Listen
        BY <1>3 DEF Listen, Goto, Fault, NoFault, TypeOK, ControlInv, Handling,
            Reading
    <1>4. CASE CloseListener
        BY <1>4 DEF CloseListener, Goto, Fault, NoFault, TypeOK, ControlInv,
            Handling, Reading
    <1>5. CASE Restore
        BY <1>5 DEF Restore, Goto, Fault, NoFault, TypeOK, ControlInv,
            Handling, Reading
    <1>6. CASE Loop
        BY <1>6 DEF Loop, JustGoto, Goto, TypeOK, ControlInv, Handling, Reading
    <1>7. CASE Poll
        BY <1>7 DEF Poll, JustGoto, Goto, GiveUp, Fault, TypeOK, ControlInv,
            Handling, Reading
    <1>8. CASE Accept
        <2>1. CASE JustGoto("loop") \/ GiveUp
            BY <1>8, <2>1 DEF Accept, JustGoto, Goto, GiveUp, ControlInv,
                Handling, Reading
        <2>2. CASE Taken /\ current' = Head(backlog)
            <3>1. current' # None
                BY <1>8, <2>2, TakenFrame, ServerAssumption
            <3>2. pc' \in {"parse", "hangup"}
                BY <2>2 DEF Taken, Goto
            <3> QED BY <3>1, <3>2 DEF ControlInv, Handling, Reading
        <2> QED BY <1>8, <2>1, <2>2 DEF Accept, Taken
    <1>9. CASE ParseBytes
        BY <1>9 DEF ParseBytes, JustGoto, Goto, Respond, TypeOK, ControlInv,
            Handling, Reading
    <1>10. CASE Wait
        BY <1>10 DEF Wait, JustGoto, Goto, DeadlineAnswer, Respond, Break,
            TypeOK, ControlInv, Handling, Reading
    <1>11. CASE Input
        BY <1>11 DEF Input, JustGoto, Goto, DeadlineAnswer, Respond, Break,
            TypeOK, ControlInv, Handling, Reading
    <1>12. CASE Recv
        BY <1>12 DEF Recv, JustGoto, Goto, Respond, Break, TypeOK, ControlInv,
            Handling, Reading
    <1>13. CASE Send
        BY <1>13 DEF Send, JustGoto, Goto, Break, TypeOK, ControlInv, Handling,
            Reading
    <1>14. CASE Hangup
        BY <1>14 DEF Hangup, Goto, TypeOK, ControlInv, Handling, Reading
    <1>15. CASE \E c \in Client : Connect(c)
        BY <1>15 DEF Connect, Alive, quiet, TypeOK, ControlInv, Handling,
            Reading
    <1>16. CASE \E c \in Client : Deliver(c)
        BY <1>16 DEF Deliver, Alive, quiet, TypeOK, ControlInv, Handling,
            Reading
    <1>17. CASE \E c \in Client : Leave(c)
        BY <1>17 DEF Leave, Alive, quiet, TypeOK, ControlInv, Handling, Reading
    <1>18. CASE Tick
        BY <1>18 DEF Tick, Alive, quiet, TypeOK, ControlInv, Handling, Reading
    <1>19. CASE Signal
        BY <1>19 DEF Signal, Alive, Interruptible, TypeOK, ControlInv,
            Handling, Reading
    <1>20. CASE UNCHANGED vars
        BY <1>20 DEF vars, TypeOK, ControlInv, Handling, Reading
    <1> QED BY <1>1, <1>2, <1>3, <1>4, <1>5, <1>6, <1>7, <1>8, <1>9, <1>10, <1>11,
            <1>12, <1>13, <1>14, <1>15, <1>16, <1>17, <1>18, <1>19, <1>20
            DEF Next, Thread, World

(* Every step keeps every client in one place.                             *)
LEMMA ClientInvStep ==
    ASSUME RunInv, [Next]_vars
    PROVE  ClientInv'
    <1> USE DEF RunInv, thread, connection, clients, history
    <1>1. CASE Start
        BY <1>1 DEF Start, Goto, TypeOK, ControlInv, ClientInv, Handling,
            Reading, Waiting
    <1>2. CASE Install
        BY <1>2 DEF Install, Goto, Fault, NoFault, TypeOK, ControlInv,
            ClientInv, Handling, Reading, Waiting
    <1>3. CASE Listen
        BY <1>3 DEF Listen, Goto, Fault, NoFault, TypeOK, ControlInv,
            ClientInv, Handling, Reading, Waiting
    <1>4. CASE CloseListener
        BY <1>4 DEF CloseListener, Goto, Fault, NoFault, TypeOK, ControlInv,
            ClientInv, Handling, Reading, Waiting
    <1>5. CASE Restore
        BY <1>5 DEF Restore, Goto, Fault, NoFault, TypeOK, ControlInv,
            ClientInv, Handling, Reading, Waiting
    <1>6. CASE Loop
        BY <1>6 DEF Loop, JustGoto, Goto, TypeOK, ControlInv, ClientInv,
            Handling, Reading, Waiting
    <1>7. CASE Poll
        BY <1>7 DEF Poll, JustGoto, Goto, GiveUp, Fault, TypeOK, ControlInv,
            ClientInv, Handling, Reading, Waiting
    <1>8. CASE Accept
        <2>1. CASE JustGoto("loop") \/ GiveUp
            BY <2>1 DEF JustGoto, Goto, GiveUp, ClientInv, Waiting
        <2>2. CASE Taken /\ current' = Head(backlog)
            <3>1. /\ current' \in Client /\ current' \in Waiting
                  /\ Waiting' = Waiting \ {current'}
                  /\ (\A i, j \in DOMAIN backlog : backlog[i] = backlog[j] => i = j)'
                BY <1>8, <2>2, TakenFrame
            <3>2. /\ UNCHANGED <<stream, arrived, peer, answer, ended>>
                  /\ received' = 0 /\ current = None
                BY <1>8, <2>2 DEF Taken, Accept, ControlInv, Handling, Reading
            <3>3. received' <= arrived'[current']
                BY <3>1, <3>2 DEF TypeOK
            <3> QED BY <3>1, <3>2, <3>3, ServerAssumption DEF ClientInv, TypeOK
        <2> QED BY <1>8, <2>1, <2>2 DEF Accept, Taken
    <1>9. CASE ParseBytes
        BY <1>9 DEF ParseBytes, JustGoto, Goto, Respond, TypeOK, ControlInv,
            ClientInv, Handling, Reading, Waiting
    <1>10. CASE Wait
        BY <1>10 DEF Wait, JustGoto, Goto, DeadlineAnswer, Respond, Break,
            TypeOK, ControlInv, ClientInv, Handling, Reading, Waiting
    <1>11. CASE Input
        BY <1>11 DEF Input, JustGoto, Goto, DeadlineAnswer, Respond, Break,
            TypeOK, ControlInv, ClientInv, Handling, Reading, Waiting
    <1>12. CASE Recv
        BY <1>12, SMTT(30)
            DEF Recv, JustGoto, Goto, Respond, Break, TypeOK, ControlInv,
            ClientInv, Handling, Reading, Waiting
    <1>13. CASE Send
        BY <1>13, SMTT(30) DEF Send, JustGoto, Goto, Break, TypeOK, ControlInv,
            ClientInv, Handling, Reading, Waiting
    <1>14. CASE Hangup
        <2>1. current \in Client /\ None \notin Client
            BY <1>14, ServerAssumption DEF Hangup, ControlInv, Handling, Reading, TypeOK
        <2>2. /\ ended' = ended \cup {current} /\ current' = None
              /\ UNCHANGED <<received, clients, answer>> /\ Waiting' = Waiting
            BY <1>14 DEF Hangup, Waiting
        <2>3. None \notin Waiting /\ None \notin ended
            BY <2>1, LenProperties, ElementOfSeq DEF Waiting, TypeOK
        <2> QED BY <2>1, <2>2, <2>3 DEF ClientInv
    <1>15. CASE \E c \in Client : Connect(c)
        <2>1. PICK c \in Client : Connect(c)
            BY <1>15
        <2>2. /\ peer[c] = "idle" /\ peer' = [peer EXCEPT ![c] = "open"]
              /\ backlog' = Append(backlog, c)
              /\ UNCHANGED <<current, received, stream, arrived, answer, ended>>
            BY <2>1 DEF Connect, quiet
        <2>3. c \notin ended \cup Waiting \cup {current}
            BY <2>2 DEF ClientInv
        <2>4. /\ Waiting' = Waiting \cup {c}
              /\ (\A i, j \in DOMAIN backlog : backlog[i] = backlog[j] => i = j)'
            BY <2>2, <2>3, AppendWaiting DEF ClientInv, TypeOK
        <2>5. \A d \in Client : peer'[d] = IF d = c THEN "open" ELSE peer[d]
            BY <2>2 DEF TypeOK
        <2> QED BY <2>2, <2>3, <2>4, <2>5 DEF ClientInv
    <1>16. CASE \E c \in Client : Deliver(c)
        <2>1. PICK c \in Client : Deliver(c)
            BY <1>16
        <2>2. /\ arrived[c] < stream[c].total /\ peer[c] = "open"
              /\ arrived' = [arrived EXCEPT ![c] = @ + 1]
              /\ UNCHANGED <<current, received, backlog, stream, peer, answer,
                             ended>>
            BY <2>1 DEF Deliver, quiet
        <2>3. stream[c].total \in Nat /\ arrived[c] \in Nat
            BY StreamFields, ServerAssumption DEF TypeOK
        <2>4. \A d \in Client : arrived'[d] = IF d = c THEN arrived[c] + 1
                                                      ELSE arrived[d]
            BY <2>2 DEF TypeOK
        <2>5. current # None => received <= arrived'[current]
            BY <2>3, <2>4, SMTT(30) DEF ClientInv, TypeOK
        <2>6. Waiting' = Waiting
            BY <2>2 DEF Waiting
        <2>7. \A d \in Client : arrived'[d] <= stream[d].total
            BY <2>2, <2>3, <2>4 DEF ClientInv
        <2>8. \A d \in Client : peer[d] = "closed" => arrived'[d] = stream[d].total
            BY <2>2, <2>4 DEF ClientInv
        <2> QED BY <2>2, <2>5, <2>6, <2>7, <2>8 DEF ClientInv
    <1>17. CASE \E c \in Client : Leave(c)
        BY <1>17 DEF Leave, Alive, quiet, TypeOK, ControlInv, ClientInv,
            Handling, Reading, Waiting
    <1>18. CASE Tick
        BY <1>18 DEF Tick, Alive, quiet, TypeOK, ControlInv, ClientInv,
            Handling, Reading, Waiting
    <1>19. CASE Signal
        BY <1>19 DEF Signal, Alive, Interruptible, TypeOK, ControlInv,
            ClientInv, Handling, Reading, Waiting
    <1>20. CASE UNCHANGED vars
        BY <1>20 DEF vars, TypeOK, ControlInv, ClientInv, Handling, Reading,
            Waiting
    <1> QED BY <1>1, <1>2, <1>3, <1>4, <1>5, <1>6, <1>7, <1>8, <1>9, <1>10, <1>11,
            <1>12, <1>13, <1>14, <1>15, <1>16, <1>17, <1>18, <1>19, <1>20
            DEF Next, Thread, World

(* Every step keeps the link of control to the answers.                    *)
LEMMA AnswerInvStep ==
    ASSUME RunInv, [Next]_vars
    PROVE  AnswerInv'
    <1> USE DEF RunInv, thread, connection, clients, history
    <1>1. CASE Start
        BY <1>1 DEF Start, Goto, TypeOK, ControlInv, ClientInv, AnswerInv,
            Handling, Reading
    <1>2. CASE Install
        BY <1>2 DEF Install, Goto, Fault, NoFault, TypeOK, ControlInv,
            ClientInv, AnswerInv, Handling, Reading
    <1>3. CASE Listen
        BY <1>3 DEF Listen, Goto, Fault, NoFault, TypeOK, ControlInv,
            ClientInv, AnswerInv, Handling, Reading
    <1>4. CASE CloseListener
        BY <1>4 DEF CloseListener, Goto, Fault, NoFault, TypeOK, ControlInv,
            ClientInv, AnswerInv, Handling, Reading
    <1>5. CASE Restore
        BY <1>5 DEF Restore, Goto, Fault, NoFault, TypeOK, ControlInv,
            ClientInv, AnswerInv, Handling, Reading
    <1>6. CASE Loop
        BY <1>6 DEF Loop, JustGoto, Goto, TypeOK, ControlInv, ClientInv,
            AnswerInv, Handling, Reading
    <1>7. CASE Poll
        BY <1>7 DEF Poll, JustGoto, Goto, GiveUp, Fault, TypeOK, ControlInv,
            ClientInv, AnswerInv, Handling, Reading
    <1>8. CASE Accept
        <2>1. CASE JustGoto("loop") \/ GiveUp
            BY <2>1 DEF JustGoto, Goto, GiveUp, AnswerInv, Reading
        <2>2. CASE Taken /\ current' = Head(backlog)
            <3>1. current' \in Client /\ current' \in Waiting /\ current = None
                BY <1>8, <2>2, TakenFrame DEF Accept, ControlInv, Handling, Reading
            <3>2. current' \notin ended /\ current' # None
                BY <3>1, ServerAssumption DEF ClientInv
            <3>3. answer'[current'] = "none"
                BY <3>1, <3>2, <2>2 DEF Taken, ClientInv
            <3>4. pc' = "parse" \/ (pc' = "hangup" /\ current' \in broken')
                BY <2>2 DEF Taken, Goto
            <3> QED BY <3>3, <3>4 DEF AnswerInv, Reading
        <2> QED BY <1>8, <2>1, <2>2 DEF Accept, Taken
    <1>9. CASE ParseBytes
        <2>1. current \in Client
            BY <1>9 DEF ParseBytes, ControlInv, Handling, Reading, TypeOK
        <2>2. stream[current] \in Stream /\ received \in 0 .. Capacity /\ Capacity \in Nat
            BY <2>1, ServerAssumption, FramingAssumption DEF TypeOK, Capacity
        <2>3. CASE Respond(Decision)
            BY <2>3 DEF Respond, Goto, AnswerInv, Reading
        <2>4. CASE stop /\ JustGoto("hangup")
            BY <1>9, <2>4 DEF ParseBytes, JustGoto, Goto, AnswerInv, Reading
        <2>5. CASE Decision = "none" /\ JustGoto("wait")
            <3>1. Parse(stream[current], received) = "INCOMPLETE" /\ received < Capacity
                BY <2>2, <2>5, DecisionCases
            <3>2. UNCHANGED <<stream, current, received, answer>> /\ pc' = "wait"
                BY <2>5 DEF JustGoto, Goto
            <3> QED BY <1>9, <3>1, <3>2 DEF AnswerInv, Reading, ParseBytes
        <2> QED BY <1>9, <2>3, <2>4, <2>5 DEF ParseBytes
    <1>10. CASE Wait
        BY <1>10 DEF Wait, JustGoto, Goto, DeadlineAnswer, Respond, Break,
            TypeOK, ControlInv, ClientInv, AnswerInv, Handling, Reading
    <1>11. CASE Input
        BY <1>11 DEF Input, JustGoto, Goto, DeadlineAnswer, Respond, Break,
            TypeOK, ControlInv, ClientInv, AnswerInv, Handling, Reading
    <1>12. CASE Recv
        BY <1>12 DEF Recv, JustGoto, Goto, Respond, Break, TypeOK, ControlInv,
            ClientInv, AnswerInv, Handling, Reading
    <1>13. CASE Send
        BY <1>13 DEF Send, JustGoto, Goto, Break, TypeOK, ControlInv,
            ClientInv, AnswerInv, Handling, Reading
    <1>14. CASE Hangup
        BY <1>14 DEF Hangup, Goto, TypeOK, ControlInv, ClientInv, AnswerInv,
            Handling, Reading
    <1>15. CASE \E c \in Client : Connect(c)
        BY <1>15 DEF Connect, Alive, quiet, TypeOK, ControlInv, ClientInv,
            AnswerInv, Handling, Reading
    <1>16. CASE \E c \in Client : Deliver(c)
        BY <1>16 DEF Deliver, Alive, quiet, TypeOK, ControlInv, ClientInv,
            AnswerInv, Handling, Reading
    <1>17. CASE \E c \in Client : Leave(c)
        BY <1>17 DEF Leave, Alive, quiet, TypeOK, ControlInv, ClientInv,
            AnswerInv, Handling, Reading
    <1>18. CASE Tick
        BY <1>18 DEF Tick, Alive, quiet, TypeOK, ControlInv, ClientInv,
            AnswerInv, Handling, Reading
    <1>19. CASE Signal
        BY <1>19 DEF Signal, Alive, Interruptible, TypeOK, ControlInv,
            ClientInv, AnswerInv, Handling, Reading
    <1>20. CASE UNCHANGED vars
        BY <1>20 DEF vars, TypeOK, ControlInv, ClientInv, AnswerInv, Handling,
            Reading
    <1> QED BY <1>1, <1>2, <1>3, <1>4, <1>5, <1>6, <1>7, <1>8, <1>9, <1>10, <1>11,
            <1>12, <1>13, <1>14, <1>15, <1>16, <1>17, <1>18, <1>19, <1>20
            DEF Next, Thread, World

(* Every step keeps the link of control to the clock.                      *)
LEMMA DeadlineInvStep ==
    ASSUME RunInv, [Next]_vars
    PROVE  DeadlineInv'
    <1> USE DEF RunInv, thread, connection, clients, history
    <1>1. CASE Start
        BY <1>1 DEF Start, Goto, TypeOK, DeadlineInv, DeadlineIsTotal
    <1>2. CASE Install
        BY <1>2 DEF Install, Goto, Fault, NoFault, TypeOK, DeadlineInv,
            DeadlineIsTotal
    <1>3. CASE Listen
        BY <1>3 DEF Listen, Goto, Fault, NoFault, TypeOK, DeadlineInv,
            DeadlineIsTotal
    <1>4. CASE CloseListener
        BY <1>4 DEF CloseListener, Goto, Fault, NoFault, TypeOK, DeadlineInv,
            DeadlineIsTotal
    <1>5. CASE Restore
        BY <1>5 DEF Restore, Goto, Fault, NoFault, TypeOK, DeadlineInv,
            DeadlineIsTotal
    <1>6. CASE Loop
        BY <1>6 DEF Loop, JustGoto, Goto, TypeOK, DeadlineInv, DeadlineIsTotal
    <1>7. CASE Poll
        BY <1>7 DEF Poll, JustGoto, Goto, GiveUp, Fault, TypeOK, DeadlineInv,
            DeadlineIsTotal
    <1>8. CASE Accept
        BY <1>8 DEF Accept, JustGoto, Goto, GiveUp, Fault, TypeOK, DeadlineInv,
            DeadlineIsTotal
    <1>9. CASE ParseBytes
        BY <1>9 DEF ParseBytes, JustGoto, Goto, Respond, TypeOK, DeadlineInv,
            DeadlineIsTotal
    <1>10. CASE Wait
        <2>1. UNCHANGED <<lateReads, elapsed>>
            BY <1>10 DEF Wait, JustGoto, DeadlineAnswer, Respond, Break
        <2>2. pc' \in {"hangup", "send", "input"}
            BY <1>10 DEF Wait, JustGoto, Goto, DeadlineAnswer, Respond, Break
        <2>3. pc' = "input" => elapsed < Deadline
            BY <1>10 DEF Wait, JustGoto, Goto, DeadlineAnswer, Respond, Break
        <2>4. pc' = "input" => lateReads = 0
            BY <1>10, <2>3, ServerAssumption DEF Wait, DeadlineInv, TypeOK
        <2> QED BY <2>1, <2>2, <2>4 DEF DeadlineInv, DeadlineIsTotal
    <1>11. CASE Input
        BY <1>11 DEF Input, JustGoto, Goto, DeadlineAnswer, Respond, Break,
            TypeOK, DeadlineInv, DeadlineIsTotal
    <1>12. CASE Recv
        BY <1>12 DEF Recv, JustGoto, Goto, Respond, Break, TypeOK, DeadlineInv,
            DeadlineIsTotal
    <1>13. CASE Send
        BY <1>13 DEF Send, JustGoto, Goto, Break, TypeOK, DeadlineInv,
            DeadlineIsTotal
    <1>14. CASE Hangup
        BY <1>14 DEF Hangup, Goto, TypeOK, DeadlineInv, DeadlineIsTotal
    <1>15. CASE \E c \in Client : Connect(c)
        BY <1>15 DEF Connect, Alive, quiet, TypeOK, DeadlineInv,
            DeadlineIsTotal
    <1>16. CASE \E c \in Client : Deliver(c)
        BY <1>16 DEF Deliver, Alive, quiet, TypeOK, DeadlineInv,
            DeadlineIsTotal
    <1>17. CASE \E c \in Client : Leave(c)
        BY <1>17 DEF Leave, Alive, quiet, TypeOK, DeadlineInv, DeadlineIsTotal
    <1>18. CASE Tick
        <2>1. elapsed' = elapsed + 1 /\ UNCHANGED <<pc, lateReads>>
            BY <1>18 DEF Tick, quiet
        <2>2. elapsed \in Nat /\ Deadline \in Nat
            BY ServerAssumption DEF TypeOK
        <2>3. elapsed >= Deadline => elapsed' >= Deadline
            BY <2>1, <2>2
        <2> QED BY <2>1, <2>3 DEF DeadlineInv, DeadlineIsTotal
    <1>19. CASE Signal
        BY <1>19 DEF Signal, Alive, Interruptible, TypeOK, DeadlineInv,
            DeadlineIsTotal
    <1>20. CASE UNCHANGED vars
        BY <1>20 DEF vars, TypeOK, DeadlineInv, DeadlineIsTotal
    <1> QED BY <1>1, <1>2, <1>3, <1>4, <1>5, <1>6, <1>7, <1>8, <1>9, <1>10, <1>11,
            <1>12, <1>13, <1>14, <1>15, <1>16, <1>17, <1>18, <1>19, <1>20
            DEF Next, Thread, World

(* Every step keeps the link of control to the result and the handlers.    *)
LEMMA ResultInvStep ==
    ASSUME RunInv, [Next]_vars
    PROVE  ResultInv'
    <1> USE DEF RunInv, thread, connection, clients, history
    <1>1. CASE Start
        BY <1>1 DEF Start, Goto, TypeOK, ResultInv, Handlers, Handling, Reading
    <1>2. CASE Install
        BY <1>2 DEF Install, Goto, Fault, NoFault, TypeOK, ResultInv, Handlers,
            Handling, Reading
    <1>3. CASE Listen
        BY <1>3 DEF Listen, Goto, Fault, NoFault, TypeOK, ResultInv, Handlers,
            Handling, Reading
    <1>4. CASE CloseListener
        <2>1. result' = (IF faulty' THEN 1 ELSE 0) /\ (faulty => faulty')
            BY <1>4 DEF CloseListener, Fault, NoFault, ResultInv
        <2>2. pc' = "restore" /\ UNCHANGED <<step, stop, installed>>
            BY <1>4 DEF CloseListener, Goto
        <2>3. step = 1
            BY <1>4 DEF CloseListener, ResultInv
        <2>4. installed \subseteq {Handlers[i] : i \in 1 .. 3}
            BY AllHandlers DEF TypeOK
        <2>5. stop \/ faulty
            BY <1>4 DEF CloseListener, ResultInv
        <2> QED BY <2>1, <2>2, <2>3, <2>4, <2>5 DEF ResultInv
    <1>5. CASE Restore
        <2>1. result' = (IF faulty' THEN 1 ELSE 0) /\ (faulty => faulty')
            BY <1>5 DEF Restore, Fault, NoFault, ResultInv
        <2>2. stop \/ faulty
            BY <1>5 DEF Restore, ResultInv
        <2>3. ~faulty' => installed' \subseteq {Handlers[i] : i \in (step + 1) .. 3}
            <3>1. SUFFICES ASSUME ~faulty', NEW s \in installed'
                           PROVE  \E i \in (step + 1) .. 3 : s = Handlers[i]
                OBVIOUS
            <3>2. /\ s \in installed /\ s # Handlers[step] /\ ~faulty /\ pc = "restore"
                  /\ step \in 1 .. 3
                BY <1>5, <3>1, <2>1 DEF Restore, Fault, NoFault, TypeOK
            <3>3. PICK i \in step .. 3 : s = Handlers[i]
                BY <3>2 DEF ResultInv
            <3>4. i \in (step + 1) .. 3
                BY <3>2, <3>3
            <3> QED BY <3>3, <3>4
        <2>4. CASE step = 3
            <3>1. (step + 1) .. 3 = {}
                BY <2>4
            <3>2. pc' = "returned" /\ step' = 1 /\ UNCHANGED stop
                BY <1>5, <2>4 DEF Restore, Goto
            <3> QED BY <2>1, <2>2, <2>3, <3>1, <3>2
                DEF ResultInv, Handling, Reading
        <2>5. CASE step # 3
            <3>1. pc' = "restore" /\ step' = step + 1 /\ UNCHANGED stop
                BY <1>5, <2>5 DEF Restore, Goto
            <3> QED BY <2>1, <2>2, <2>3, <3>1
                DEF ResultInv, Handling, Reading
        <2> QED BY <2>4, <2>5
    <1>6. CASE Loop
        BY <1>6 DEF Loop, JustGoto, Goto, TypeOK, ResultInv, Handlers,
            Handling, Reading
    <1>7. CASE Poll
        BY <1>7 DEF Poll, JustGoto, Goto, GiveUp, Fault, TypeOK, ResultInv,
            Handlers, Handling, Reading
    <1>8. CASE Accept
        BY <1>8 DEF Accept, JustGoto, Goto, GiveUp, Fault, TypeOK, ResultInv,
            Handlers, Handling, Reading
    <1>9. CASE ParseBytes
        BY <1>9 DEF ParseBytes, JustGoto, Goto, Respond, TypeOK, ResultInv,
            Handlers, Handling, Reading
    <1>10. CASE Wait
        BY <1>10 DEF Wait, JustGoto, Goto, DeadlineAnswer, Respond, Break,
            TypeOK, ResultInv, Handlers, Handling, Reading
    <1>11. CASE Input
        BY <1>11 DEF Input, JustGoto, Goto, DeadlineAnswer, Respond, Break,
            TypeOK, ResultInv, Handlers, Handling, Reading
    <1>12. CASE Recv
        BY <1>12 DEF Recv, JustGoto, Goto, Respond, Break, TypeOK, ResultInv,
            Handlers, Handling, Reading
    <1>13. CASE Send
        BY <1>13 DEF Send, JustGoto, Goto, Break, TypeOK, ResultInv, Handlers,
            Handling, Reading
    <1>14. CASE Hangup
        BY <1>14 DEF Hangup, Goto, TypeOK, ResultInv, Handlers, Handling,
            Reading
    <1>15. CASE \E c \in Client : Connect(c)
        BY <1>15 DEF Connect, Alive, quiet, TypeOK, ResultInv, Handlers,
            Handling, Reading
    <1>16. CASE \E c \in Client : Deliver(c)
        BY <1>16 DEF Deliver, Alive, quiet, TypeOK, ResultInv, Handlers,
            Handling, Reading
    <1>17. CASE \E c \in Client : Leave(c)
        BY <1>17 DEF Leave, Alive, quiet, TypeOK, ResultInv, Handlers,
            Handling, Reading
    <1>18. CASE Tick
        BY <1>18 DEF Tick, Alive, quiet, TypeOK, ResultInv, Handlers, Handling,
            Reading
    <1>19. CASE Signal
        BY <1>19 DEF Signal, Alive, Interruptible, TypeOK, ResultInv, Handlers,
            Handling, Reading
    <1>20. CASE UNCHANGED vars
        BY <1>20 DEF vars, TypeOK, ResultInv, Handlers, Handling, Reading
    <1> QED BY <1>1, <1>2, <1>3, <1>4, <1>5, <1>6, <1>7, <1>8, <1>9, <1>10, <1>11,
            <1>12, <1>13, <1>14, <1>15, <1>16, <1>17, <1>18, <1>19, <1>20
            DEF Next, Thread, World

(* No step leads back to the start.                                        *)
LEMMA FirstInvStep ==
    ASSUME Inv, [Next]_vars
    PROVE  FirstInv'
    <1>1. pc' = "start" => UNCHANGED <<pc, ended>>
        <2>1. CASE \/ Start \/ Install \/ Listen \/ CloseListener \/ Restore
                   \/ Loop \/ Poll \/ Accept
            BY <2>1 DEF Start, Install, Listen, CloseListener, Restore, Loop,
                Poll, Accept, JustGoto, GiveUp, Goto
        <2>2. CASE ParseBytes \/ Wait \/ Input \/ Recv \/ Send \/ Hangup
            BY <2>2 DEF ParseBytes, Wait, Input, Recv, Send, Hangup, JustGoto,
                Goto, Respond, DeadlineAnswer, Break
        <2>3. CASE World
            BY <2>3 DEF World, Connect, Deliver, Leave, Tick, Signal, quiet,
                history
        <2>4. CASE UNCHANGED vars
            BY <2>4 DEF vars, history
        <2> QED BY <2>1, <2>2, <2>3, <2>4 DEF Next, Thread
    <1> QED BY <1>1 DEF Inv, FirstInv

(* Every step closes no connection without an answer but for the reasons   *)
(* the code has.                                                           *)
LEMMA NobodyIsForgottenStep ==
    ASSUME Inv, [Next]_vars
    PROVE  NobodyIsForgotten'
    <1> USE DEF Inv, RunInv, thread, connection, clients, history
    <1>1. CASE Start
        BY <1>1 DEF Start, FirstInv, NobodyIsForgotten
    <1>2. CASE Install
        BY <1>2 DEF Install, Goto, Fault, NoFault, TypeOK, ControlInv,
            ClientInv, AnswerInv, NobodyIsForgotten, Handling, Reading
    <1>3. CASE Listen
        BY <1>3 DEF Listen, Goto, Fault, NoFault, TypeOK, ControlInv,
            ClientInv, AnswerInv, NobodyIsForgotten, Handling, Reading
    <1>4. CASE CloseListener
        <2>1. /\ ended' = ended \cup Waiting
              /\ UNCHANGED <<answer, sent, broken, stop>>
              /\ faulty => faulty'
            BY <1>4 DEF CloseListener, Waiting, Fault, NoFault
        <2>2. stop \/ faulty
            BY <1>4 DEF CloseListener, ResultInv
        <2>3. \A c \in Waiting : c \in Client
            BY LenProperties, ElementOfSeq DEF Waiting, TypeOK
        <2>4. \A c \in Waiting : answer[c] = "none"
            BY <2>3 DEF ClientInv
        <2> QED BY <2>1, <2>2, <2>4 DEF NobodyIsForgotten
    <1>5. CASE Restore
        BY <1>5 DEF Restore, Goto, Fault, NoFault, TypeOK, ControlInv,
            ClientInv, AnswerInv, NobodyIsForgotten, Handling, Reading
    <1>6. CASE Loop
        BY <1>6 DEF Loop, JustGoto, Goto, TypeOK, ControlInv, ClientInv,
            AnswerInv, NobodyIsForgotten, Handling, Reading
    <1>7. CASE Poll
        BY <1>7 DEF Poll, JustGoto, Goto, GiveUp, Fault, TypeOK, ControlInv,
            ClientInv, AnswerInv, NobodyIsForgotten, Handling, Reading
    <1>8. CASE Accept
        BY <1>8 DEF Accept, JustGoto, Goto, GiveUp, Fault, TypeOK, ControlInv,
            ClientInv, AnswerInv, NobodyIsForgotten, Handling, Reading
    <1>9. CASE ParseBytes
        BY <1>9 DEF ParseBytes, JustGoto, Goto, Respond, TypeOK, ControlInv,
            ClientInv, AnswerInv, NobodyIsForgotten, Handling, Reading
    <1>10. CASE Wait
        BY <1>10 DEF Wait, JustGoto, Goto, DeadlineAnswer, Respond, Break,
            TypeOK, ControlInv, ClientInv, AnswerInv, NobodyIsForgotten,
            Handling, Reading
    <1>11. CASE Input
        BY <1>11 DEF Input, JustGoto, Goto, DeadlineAnswer, Respond, Break,
            TypeOK, ControlInv, ClientInv, AnswerInv, NobodyIsForgotten,
            Handling, Reading
    <1>12. CASE Recv
        BY <1>12 DEF Recv, JustGoto, Goto, Respond, Break, TypeOK, ControlInv,
            ClientInv, AnswerInv, NobodyIsForgotten, Handling, Reading
    <1>13. CASE Send
        BY <1>13 DEF Send, JustGoto, Goto, Break, TypeOK, ControlInv,
            ClientInv, AnswerInv, NobodyIsForgotten, Handling, Reading
    <1>14. CASE Hangup
        BY <1>14 DEF Hangup, Goto, TypeOK, ControlInv, ClientInv, AnswerInv,
            NobodyIsForgotten, Handling, Reading
    <1>15. CASE \E c \in Client : Connect(c)
        BY <1>15 DEF Connect, Alive, quiet, TypeOK, ControlInv, ClientInv,
            AnswerInv, NobodyIsForgotten, Handling, Reading
    <1>16. CASE \E c \in Client : Deliver(c)
        BY <1>16 DEF Deliver, Alive, quiet, TypeOK, ControlInv, ClientInv,
            AnswerInv, NobodyIsForgotten, Handling, Reading
    <1>17. CASE \E c \in Client : Leave(c)
        BY <1>17 DEF Leave, Alive, quiet, TypeOK, ControlInv, ClientInv,
            AnswerInv, NobodyIsForgotten, Handling, Reading
    <1>18. CASE Tick
        BY <1>18 DEF Tick, Alive, quiet, TypeOK, ControlInv, ClientInv,
            AnswerInv, NobodyIsForgotten, Handling, Reading
    <1>19. CASE Signal
        <2>1. UNCHANGED history
            BY <1>19 DEF Signal
        <2>2. stop => stop'
            BY <1>19, Zenon DEF Signal
        <2> QED BY <2>1, <2>2 DEF NobodyIsForgotten
    <1>20. CASE UNCHANGED vars
        BY <1>20 DEF vars, TypeOK, ControlInv, ClientInv, AnswerInv,
            NobodyIsForgotten, Handling, Reading
    <1> QED BY <1>1, <1>2, <1>3, <1>4, <1>5, <1>6, <1>7, <1>8, <1>9, <1>10, <1>11,
            <1>12, <1>13, <1>14, <1>15, <1>16, <1>17, <1>18, <1>19, <1>20
            DEF Next, Thread, World

(* Every step answers what the stream deserves.                            *)
LEMMA AnswerIsTheStreamsStep ==
    ASSUME RunInv, [Next]_vars
    PROVE  AnswerIsTheStreams'
    <1> USE DEF RunInv, thread, connection, clients, history
    <1>1. CASE Start
        BY <1>1 DEF Start, Goto, TypeOK, ControlInv, ClientInv, AnswerInv,
            AnswerIsTheStreams, Handling, Reading
    <1>2. CASE Install
        BY <1>2 DEF Install, Goto, Fault, NoFault, TypeOK, ControlInv,
            ClientInv, AnswerInv, AnswerIsTheStreams, Handling, Reading
    <1>3. CASE Listen
        BY <1>3 DEF Listen, Goto, Fault, NoFault, TypeOK, ControlInv,
            ClientInv, AnswerInv, AnswerIsTheStreams, Handling, Reading
    <1>4. CASE CloseListener
        BY <1>4 DEF CloseListener, Goto, Fault, NoFault, TypeOK, ControlInv,
            ClientInv, AnswerInv, AnswerIsTheStreams, Handling, Reading
    <1>5. CASE Restore
        BY <1>5 DEF Restore, Goto, Fault, NoFault, TypeOK, ControlInv,
            ClientInv, AnswerInv, AnswerIsTheStreams, Handling, Reading
    <1>6. CASE Loop
        BY <1>6 DEF Loop, JustGoto, Goto, TypeOK, ControlInv, ClientInv,
            AnswerInv, AnswerIsTheStreams, Handling, Reading
    <1>7. CASE Poll
        BY <1>7 DEF Poll, JustGoto, Goto, GiveUp, Fault, TypeOK, ControlInv,
            ClientInv, AnswerInv, AnswerIsTheStreams, Handling, Reading
    <1>8. CASE Accept
        BY <1>8 DEF Accept, JustGoto, Goto, GiveUp, Fault, TypeOK, ControlInv,
            ClientInv, AnswerInv, AnswerIsTheStreams, Handling, Reading
    <1>9. CASE ParseBytes
        <2>1. current \in Client
            BY <1>9 DEF ParseBytes, ControlInv, Handling, Reading, TypeOK
        <2>2. /\ stream[current] \in Stream /\ received \in 0 .. Capacity
              /\ received <= stream[current].total
            <3>1. stream[current] \in Stream /\ received \in 0 .. Capacity
                BY <2>1, ServerAssumption DEF TypeOK
            <3>2. received <= arrived[current] /\ arrived[current] <= stream[current].total
                BY <2>1, ServerAssumption DEF ClientInv
            <3>3. received \in Nat /\ arrived[current] \in Nat /\ stream[current].total \in Nat
                BY <2>1, <3>1, StreamFields DEF TypeOK
            <3> QED BY <3>1, <3>2, <3>3
        <2>3. CASE JustGoto("hangup") \/ JustGoto("wait")
            BY <2>3 DEF JustGoto, AnswerIsTheStreams
        <2>4. CASE Respond(Decision) /\ Decision # "none" /\ UNCHANGED late
            <3>1. Fitting(stream[current], Decision)
                BY <2>2, <2>4, DecisionFits
            <3>2. /\ UNCHANGED <<stream, late>>
                  /\ answer' = [answer EXCEPT ![current] = Decision]
                BY <2>4 DEF Respond
            <3> QED BY <2>1, <3>1, <3>2, RespondFits
        <2> QED BY <1>9, <2>3, <2>4 DEF ParseBytes
    <1>10. CASE Wait
        BY <1>10 DEF Wait, JustGoto, Goto, DeadlineAnswer, Respond, Break,
            TypeOK, ControlInv, ClientInv, AnswerInv, AnswerIsTheStreams,
            Handling, Reading
    <1>11. CASE Input
        BY <1>11 DEF Input, JustGoto, Goto, DeadlineAnswer, Respond, Break,
            TypeOK, ControlInv, ClientInv, AnswerInv, AnswerIsTheStreams,
            Handling, Reading
    <1>12. CASE Recv
        <2>1. current \in Client
            BY <1>12 DEF Recv, ControlInv, Handling, Reading, TypeOK
        <2>2. CASE JustGoto("parse") \/ Break \/ Taking
            BY <2>2 DEF JustGoto, Break, Taking, AnswerIsTheStreams
        <2>3. CASE /\ arrived[current] = received /\ peer[current] = "closed"
                   /\ Respond("400") /\ UNCHANGED late
            <3>1. Parse(stream[current], stream[current].total) = "INCOMPLETE"
                BY <1>12, <2>1, <2>3 DEF Recv, AnswerInv, Reading, ClientInv
            <3>2. Fitting(stream[current], "400")
                BY <2>1, <3>1, VerdictCases, ServerAssumption DEF Fitting, TypeOK
            <3>3. /\ UNCHANGED <<stream, late>>
                  /\ answer' = [answer EXCEPT ![current] = "400"]
                BY <2>3 DEF Respond
            <3> QED BY <2>1, <3>2, <3>3, RespondFits
        <2> QED BY <1>12, <2>2, <2>3 DEF Recv, Taking
    <1>13. CASE Send
        BY <1>13 DEF Send, JustGoto, Goto, Break, TypeOK, ControlInv,
            ClientInv, AnswerInv, AnswerIsTheStreams, Handling, Reading
    <1>14. CASE Hangup
        BY <1>14 DEF Hangup, Goto, TypeOK, ControlInv, ClientInv, AnswerInv,
            AnswerIsTheStreams, Handling, Reading
    <1>15. CASE \E c \in Client : Connect(c)
        BY <1>15 DEF Connect, Alive, quiet, TypeOK, ControlInv, ClientInv,
            AnswerInv, AnswerIsTheStreams, Handling, Reading
    <1>16. CASE \E c \in Client : Deliver(c)
        BY <1>16 DEF Deliver, Alive, quiet, TypeOK, ControlInv, ClientInv,
            AnswerInv, AnswerIsTheStreams, Handling, Reading
    <1>17. CASE \E c \in Client : Leave(c)
        BY <1>17 DEF Leave, Alive, quiet, TypeOK, ControlInv, ClientInv,
            AnswerInv, AnswerIsTheStreams, Handling, Reading
    <1>18. CASE Tick
        BY <1>18 DEF Tick, Alive, quiet, TypeOK, ControlInv, ClientInv,
            AnswerInv, AnswerIsTheStreams, Handling, Reading
    <1>19. CASE Signal
        BY <1>19 DEF Signal, Alive, Interruptible, TypeOK, ControlInv,
            ClientInv, AnswerInv, AnswerIsTheStreams, Handling, Reading
    <1>20. CASE UNCHANGED vars
        BY <1>20 DEF vars, TypeOK, ControlInv, ClientInv, AnswerInv,
            AnswerIsTheStreams, Handling, Reading
    <1> QED BY <1>1, <1>2, <1>3, <1>4, <1>5, <1>6, <1>7, <1>8, <1>9, <1>10, <1>11,
            <1>12, <1>13, <1>14, <1>15, <1>16, <1>17, <1>18, <1>19, <1>20
            DEF Next, Thread, World

(* Every step of the thread or the world keeps RunInv.                     *)
LEMMA RunInvStep ==
    ASSUME RunInv, [Next]_vars
    PROVE  RunInv'
    BY TypeOKStep, ControlInvStep, ClientInvStep, AnswerInvStep,
        DeadlineInvStep, ResultInvStep, AnswerIsTheStreamsStep DEF RunInv

(* The inductive invariant holds initially.                                *)
LEMMA InitInv == Init => Inv
    <1> SUFFICES ASSUME Init PROVE Inv
        OBVIOUS
    <1>1. /\ pc = "start" /\ step = 1 /\ result = 0 /\ stop = FALSE
          /\ interrupted = FALSE /\ installed = {} /\ listener = FALSE
          /\ current = None /\ received = 0 /\ elapsed = 0 /\ unsent = 0
          /\ backlog = <<>> /\ stream \in [Client -> Streams]
          /\ arrived = [c \in Client |-> 0]
          /\ peer = [c \in Client |-> "idle"]
          /\ signals = 0
          /\ answer = [c \in Client |-> "none"]
          /\ sent = {} /\ ended = {} /\ late = {} /\ broken = {}
          /\ lateReads = 0 /\ faulty = FALSE
        BY DEF Init
    <1>2. Waiting = {}
        BY <1>1 DEF Waiting
    <1>3. TypeOK
        <2>1. /\ received \in 0 .. Capacity /\ elapsed \in 0 .. Deadline
              /\ unsent \in 0 .. ResponseLength /\ signals \in 0 .. MaxSignals
              /\ step \in 1 .. 3 /\ result \in {0, 1} /\ lateReads \in Nat
            BY <1>1, ServerAssumption, FramingAssumption DEF Capacity
        <2>2. /\ stop \in BOOLEAN /\ interrupted \in BOOLEAN
              /\ listener \in BOOLEAN /\ faulty \in BOOLEAN
            BY <1>1, Zenon
        <2>3. /\ arrived \in [Client -> Nat]
              /\ peer \in [Client -> {"idle", "open", "closed", "reset"}]
              /\ answer \in [Client -> {"none", "routed", "400", "501"}]
              /\ backlog \in Seq(Client) /\ stream \in [Client -> Streams]
            BY <1>1
        <2>4. /\ sent \subseteq Client /\ ended \subseteq Client
              /\ late \subseteq Client /\ broken \subseteq Client
              /\ installed \subseteq {"SIGINT", "SIGTERM", "SIGPIPE"}
              /\ current \in Client \cup {None}
            BY <1>1
        <2>5. pc = "start"
            BY <1>1
        <2> QED BY <2>1, <2>2, <2>3, <2>4, <2>5 DEF TypeOK
    <1>4. ControlInv
        BY <1>1 DEF ControlInv, Handling, Reading
    <1>5. ClientInv
        <2>1. \A c \in Client : stream[c].total \in Nat
            BY <1>3, StreamFields, ServerAssumption DEF TypeOK
        <2> QED BY <1>1, <1>2, <2>1, ServerAssumption DEF ClientInv
    <1>6. AnswerInv
        BY <1>1 DEF AnswerInv, Reading
    <1>7. DeadlineInv
        BY <1>1 DEF DeadlineInv, DeadlineIsTotal
    <1>8. ResultInv
        BY <1>1 DEF ResultInv
    <1>9. NobodyIsForgotten /\ AnswerIsTheStreams /\ FirstInv
        BY <1>1 DEF FirstInv, NobodyIsForgotten, AnswerIsTheStreams
    <1> QED BY <1>3, <1>4, <1>5, <1>6, <1>7, <1>8, <1>9 DEF Inv, RunInv

-----------------------------------------------------------------------------
(* The strengthening of all the invariants of the server is inductive.     *)
THEOREM InvHolds == Spec => []Inv
    <1>1. Inv /\ [Next]_vars => Inv'
        BY RunInvStep, FirstInvStep, NobodyIsForgottenStep DEF Inv, RunInv
    <1> QED BY InitInv, <1>1, PTL DEF Spec

(* Every variable of the server stays in its type: the request buffer is   *)
(* never written behind its end, and no more is sent than there is.        *)
THEOREM TypeCorrect == Spec => []TypeOK
    <1>1. Inv => TypeOK
        BY DEF Inv, RunInv
    <1> QED BY <1>1, InvHolds, PTL

(* For all limits of the parser, the buffer of their sum is large enough:  *)
(* recv is never asked for zero bytes.                                     *)
THEOREM BufferHasRoom == Spec => []RoomForMore
    <1>1. Inv => RoomForMore
        <2> SUFFICES ASSUME Inv PROVE RoomForMore
            OBVIOUS
        <2>1. pc = "parse" => stream[current] \in Stream
            BY ServerAssumption DEF Inv, RunInv, TypeOK, ControlInv, Handling, Reading
        <2> QED BY <2>1, CapacitySuffices
                DEF Inv, RunInv, AnswerInv, RoomForMore, Reading
    <1> QED BY <1>1, InvHolds, PTL

(* For all streams, what a client is told is what the parser says of the   *)
(* whole stream, however TCP cut it into portions.                         *)
THEOREM AnswersAreTheStreams == Spec => []AnswerIsTheStreams
    <1>1. Inv => AnswerIsTheStreams
        BY DEF Inv, RunInv
    <1> QED BY <1>1, InvHolds, PTL

(* For any number of clients, none is left without a response but by a     *)
(* stop request or a failure, and none whose request was routed but by a   *)
(* failure of its own connection.                                          *)
THEOREM NobodyIsLeft == Spec => []NobodyIsForgotten
    <1>1. Inv => NobodyIsForgotten
        BY DEF Inv, RunInv
    <1> QED BY <1>1, InvHolds, PTL

(* For every deadline, a client has at most one read behind it.            *)
THEOREM DeadlineHolds == Spec => []DeadlineIsTotal
    <1>1. Inv => DeadlineIsTotal
        BY DEF Inv, RunInv, DeadlineInv
    <1> QED BY <1>1, InvHolds, PTL

(* However server_run ends, every connection is closed and so is the       *)
(* listener, and a successful return means that a stop was requested and   *)
(* the signal handlers are the old ones.                                   *)
THEOREM ReturnIsClean == Spec => []ReturnsClean
    <1>1. Inv => ReturnsClean
        <2> SUFFICES ASSUME Inv, pc = "returned" PROVE ReturnsClean
            BY DEF ReturnsClean
        <2>1. ~listener /\ current = None /\ backlog = <<>>
            BY DEF Inv, RunInv, ControlInv, Handling, Reading
        <2>2. Waiting = {}
            BY <2>1 DEF Waiting
        <2>3. \A c \in Client : peer[c] # "idle" => c \in ended
            BY <2>1, <2>2, ServerAssumption DEF Inv, RunInv, ClientInv
        <2> QED BY <2>1, <2>3 DEF Inv, RunInv, ResultInv, ReturnsClean
    <1> QED BY <1>1, InvHolds, PTL

-----------------------------------------------------------------------------
(* Where main is while the thread is somewhere.                            *)
MainInv ==
    /\ main \in {"off", "open", "serve"}
    /\ main = "open" => pc \in {"start", "killed"} /\ ~database
    /\ main = "off" =>
          /\ pc \in {"start", "returned", "killed"}
          /\ ~listener /\ ~database /\ current = None /\ backlog = <<>>
          /\ exit = 0 <=> pc = "returned" /\ stop /\ ~faulty

(* Where a signal can kill the process.                                    *)
Guarded == {"listen", "loop", "poll", "accept", "close"} \cup Handling

SignalInv ==
    /\ pc = "killed" /\ main # "off" =>
          ~listener /\ current = None /\ backlog = <<>>
    /\ pc \in Guarded => "SIGINT" \in installed /\ "SIGTERM" \in installed
    /\ pc = "install" => /\ step > 1 => "SIGINT" \in installed
                         /\ step > 2 => "SIGTERM" \in installed

(* What is known of the requests and of what they have stored.             *)
RequestInv ==
    /\ ask \in [Client -> Promise!Ask]
    /\ records \in Seq(Client)
    /\ reply \in [Client -> Replies \cup {None}]
    /\ \A id \in DOMAIN records :
          /\ answer[records[id]] = "routed"
          /\ ask[records[id]] = Promise!NewUrl
          /\ reply[records[id]] = Promise!Created(id)
    /\ \A c \in Client : answer[c] = "routed" => reply[c] \in Replies

(* No answer goes without its reason.                                      *)
EndInv ==
    /\ pc = "send" => answer[current] # "none"
    /\ \A c \in ended : answer[c] # "none" => c \in sent \cup broken \cup lost

ServiceInv == RunInv /\ MainInv /\ SignalInv /\ RequestInv /\ EndInv

-----------------------------------------------------------------------------
(* What a step of the server can do to the clients' histories.             *)
Silent ==
    /\ UNCHANGED <<answer, sent, ended>>
    /\ pc' = "send" => pc = "send" /\ current' = current

Answering(status) ==
    /\ current \in Client /\ current \notin ended /\ answer[current] = "none"
    /\ answer' = [answer EXCEPT ![current] = status]
    /\ UNCHANGED <<sent, ended, current>>
    /\ pc' = "send"

Telling ==
    /\ pc = "send" /\ current \in Client /\ current \notin ended
    /\ sent' = sent \cup {current}
    /\ pc' # "send"
    /\ UNCHANGED <<answer, ended>>

Ending ==
    /\ ended \subseteq ended' /\ ended' \subseteq Client
    /\ \A c \in ended' \ ended : answer[c] # "none" => c \in sent \cup broken
    /\ pc' # "send"
    /\ UNCHANGED <<answer, sent>>

(* The connection that is handled is that of a client who is not done with.*)
LEMMA HandledClient ==
    ASSUME RunInv, pc \in Handling
    PROVE  current \in Client /\ current \notin ended
    BY DEF RunInv, TypeOK, ControlInv, ClientInv

(* The answers of the thread.                                              *)
LEMMA RespondAnswers ==
    ASSUME RunInv, pc \in {"parse"} \cup Reading, NEW status, Respond(status)
    PROVE  Answering(status)
    <1>1. current \in Client /\ current \notin ended /\ answer[current] = "none"
        BY HandledClient DEF RunInv, AnswerInv, Handling
    <1> QED BY <1>1 DEF Respond, Goto, Answering

(* What parsing does.                                                      *)
LEMMA ParseEffect ==
    ASSUME RunInv, ParseBytes
    PROVE  \/ ~Routes /\ Silent
           \/ /\ Answering(Decision)
              /\ Decision \in {"routed", "400", "501"}
              /\ Decision = "routed" <=> Routes
    <1>1. current \in Client
        BY HandledClient DEF ParseBytes, Handling
    <1>2. Decision \in {"routed", "400", "501", "none"}
        BY DEF Decision
    <1>3. CASE stop \/ Decision = "none"
        BY <1>3 DEF ParseBytes, JustGoto, Goto, Routes, Silent, history
    <1>4. CASE ~stop /\ Decision # "none"
        <2>1. Answering(Decision)
            BY <1>4, RespondAnswers DEF ParseBytes
        <2> QED BY <1>2, <1>4, <2>1 DEF ParseBytes, Routes
    <1> QED BY <1>3, <1>4

(* What any other step of the server does.                                 *)
LEMMA OtherEffect ==
    ASSUME RunInv, [Next]_vars, ~ParseBytes
    PROVE  \/ Silent
           \/ (\E status \in {"400", "501"} : Answering(status))
           \/ Telling
           \/ Ending
    <1> USE DEF Silent, history, Goto, connection
    <1>1. CASE Start \/ Install \/ Listen \/ Restore \/ Loop \/ Poll \/ Accept
        BY <1>1 DEF Start, Install, Listen, Restore, Loop, Poll, Accept,
            JustGoto, GiveUp
    <1>2. CASE CloseListener
        <2>1. ended' = ended \cup Waiting /\ pc' # "send" /\ UNCHANGED <<answer, sent>>
            BY <1>2 DEF CloseListener, Waiting, Goto
        <2>2. \A c \in Waiting \ ended : answer[c] = "none" /\ c \in Client
            <3>1. current = None
                BY <1>2 DEF CloseListener, RunInv, ControlInv, Handling, Reading
            <3>2. Waiting \subseteq Client
                BY ElementOfSeq, LenProperties DEF RunInv, TypeOK, Waiting
            <3> QED BY <3>1, <3>2, ServerAssumption DEF RunInv, ClientInv
        <2>3. ended \subseteq Client
            BY DEF RunInv, TypeOK
        <2> QED BY <2>1, <2>2, <2>3 DEF Ending
    <1>3. CASE Wait
        <2>1. CASE Respond("400")
            BY <1>3, <2>1, RespondAnswers DEF Wait, Reading
        <2> QED BY <1>3, <2>1 DEF Wait, JustGoto, DeadlineAnswer, Break
    <1>4. CASE Input
        <2>1. CASE Respond("400")
            BY <1>4, <2>1, RespondAnswers DEF Input, Reading
        <2> QED BY <1>4, <2>1 DEF Input, JustGoto, DeadlineAnswer, Break
    <1>5. CASE Recv
        <2>1. CASE Respond("400")
            BY <1>5, <2>1, RespondAnswers DEF Recv, Reading
        <2> QED BY <1>5, <2>1 DEF Recv, JustGoto, Break
    <1>6. CASE Send
        <2>1. current \in Client /\ current \notin ended /\ pc = "send"
            BY <1>6, HandledClient DEF Send, Handling
        <2> QED BY <1>6, <2>1 DEF Send, JustGoto, Break, Telling
    <1>7. CASE Hangup
        <2>1. current \in Client /\ pc = "hangup"
            BY <1>7, HandledClient DEF Hangup, Handling
        <2>2. answer[current] # "none" => current \in sent \cup broken
            BY <2>1 DEF RunInv, AnswerInv
        <2> QED BY <1>7, <2>1, <2>2 DEF Hangup, Ending, RunInv, TypeOK
    <1>8. CASE World
        BY <1>8 DEF World, Connect, Deliver, Leave, Tick, Signal, quiet
    <1>9. CASE UNCHANGED vars
        BY <1>9 DEF vars
    <1> QED BY <1>1, <1>2, <1>3, <1>4, <1>5, <1>6, <1>7, <1>8, <1>9
            DEF Next, Thread

(* Whose connection failed is not forgotten.                               *)
LEMMA BrokenGrows ==
    ASSUME [Next]_vars
    PROVE  broken \subseteq broken'
    <1> USE DEF history
    <1>1. CASE Start \/ Install \/ Listen \/ CloseListener \/ Restore \/ Loop
        BY <1>1 DEF Start, Install, Listen, CloseListener, Restore, Loop, JustGoto
    <1>2. CASE Poll \/ Accept
        BY <1>2 DEF Poll, Accept, JustGoto, GiveUp
    <1>3. CASE ParseBytes \/ Wait \/ Input \/ Recv
        BY <1>3 DEF ParseBytes, Wait, Input, Recv, JustGoto, Respond,
            DeadlineAnswer, Break
    <1>4. CASE Send \/ Hangup
        BY <1>4 DEF Send, Hangup, JustGoto, Break
    <1>5. CASE World
        BY <1>5 DEF World, Connect, Deliver, Leave, Tick, Signal, quiet
    <1>6. CASE UNCHANGED vars
        BY <1>6 DEF vars
    <1> QED BY <1>1, <1>2, <1>3, <1>4, <1>5, <1>6 DEF Next, Thread

(* What a step of the server does with the requests.                       *)
Other ==
    /\ UNCHANGED <<records, reply>>
    /\ \/ Silent
       \/ \E status \in {"400", "501"} : Answering(status)
       \/ Telling
       \/ Ending

Routing == Answering("routed") /\ RouterHandle

LEMMA ServeEffect ==
    ASSUME RunInv, Serve
    PROVE  /\ UNCHANGED <<process, ask, lost>>
           /\ Routing \/ Other
    <1>1. [Next]_vars /\ UNCHANGED <<process, ask, lost>>
        BY DEF Serve, Next
    <1>2. CASE ParseBytes
        <2>1. CASE Routes
            <3>1. Answering("routed")
                BY <1>2, <2>1, ParseEffect
            <3> QED BY <1>1, <2>1, <3>1 DEF Serve, Routing
        <2>2. CASE ~Routes
            <3>1. UNCHANGED <<records, reply>>
                BY <2>2 DEF Serve
            <3>2. Silent \/ \E status \in {"400", "501"} : Answering(status)
                BY <1>2, <2>2, ParseEffect
            <3> QED BY <1>1, <3>1, <3>2 DEF Other
        <2> QED BY <2>1, <2>2
    <1>3. CASE ~ParseBytes
        <2>1. ~Routes
            BY <1>3 DEF Serve, Routes, Thread, Start, Install, Listen,
                CloseListener, Restore, Loop, Poll, Accept, Wait, Input, Recv,
                Send, Hangup
        <2>2. UNCHANGED <<records, reply>>
            BY <2>1 DEF Serve
        <2> QED BY <1>1, <1>3, <2>2, OtherEffect DEF Other
    <1> QED BY <1>2, <1>3

(* What the world around it does.                                          *)
LEMMA AroundEffect ==
    ASSUME Around
    PROVE  /\ UNCHANGED <<process, requests, lost, broken, current>>
           /\ Silent
    BY DEF Around, LateSignal, World, Connect, Deliver, Leave, Tick, Signal,
        quiet, Silent, history, connection

-----------------------------------------------------------------------------
LEMMA BeginInv == Begin => ServiceInv
    <1> SUFFICES ASSUME Begin PROVE ServiceInv
        OBVIOUS
    <1>1. Init
        BY DEF Begin
    <1>2. RunInv
        BY <1>1, InitInv DEF Inv
    <1>3. MainInv
        BY <1>1 DEF Begin, Init, MainInv
    <1>4. SignalInv
        BY <1>1 DEF Init, SignalInv, Guarded, Handling, Reading
    <1>5. RequestInv
        BY <1>1 DEF Begin, Init, RequestInv
    <1>6. EndInv
        BY <1>1 DEF Init, EndInv
    <1> QED BY <1>2, <1>3, <1>4, <1>5, <1>6 DEF ServiceInv

(* The state of the server in which a process begins or ends.              *)
LEMMA LateSignalKeepsRun ==
    ASSUME RunInv, LateSignal
    PROVE  RunInv'
    <1> USE DEF RunInv, LateSignal, connection, clients, history
    <1>1. TypeOK'
        <2>1. stop' \in BOOLEAN /\ pc' \in {"returned", "killed"}
            BY DEF TypeOK
        <2>2. signals' \in 0 .. MaxSignals
            BY ServerAssumption DEF TypeOK
        <2> QED BY <2>1, <2>2 DEF TypeOK
    <1>2. ControlInv' /\ AnswerInv' /\ DeadlineInv'
        BY DEF ControlInv, AnswerInv, DeadlineInv, DeadlineIsTotal, Handling,
            Reading
    <1>3. ClientInv'
        BY DEF ClientInv, Waiting
    <1>4. ResultInv'
        BY DEF ResultInv, Handling, Reading
    <1>5. AnswerIsTheStreams'
        BY DEF AnswerIsTheStreams
    <1> QED BY <1>1, <1>2, <1>3, <1>4, <1>5

LEMMA DieKeepsRun ==
    ASSUME RunInv, Die
    PROVE  RunInv'
    <1> USE DEF RunInv, Die
    <1>1. TypeOK'
        BY EmptySeq DEF TypeOK
    <1>2. ControlInv' /\ AnswerInv' /\ DeadlineInv' /\ ResultInv'
        BY DEF ControlInv, AnswerInv, DeadlineInv, DeadlineIsTotal, ResultInv,
            Handling, Reading
    <1>3. ClientInv'
        BY ServerAssumption DEF ClientInv, Waiting, TypeOK
    <1>4. AnswerIsTheStreams'
        BY DEF AnswerIsTheStreams
    <1> QED BY <1>1, <1>2, <1>3, <1>4

LEMMA BootKeepsRun ==
    ASSUME RunInv, MainInv, Boot
    PROVE  RunInv'
    <1> USE DEF RunInv, Boot, clients
    <1>0. ~listener /\ current = None /\ backlog = <<>>
        BY DEF MainInv
    <1>1. TypeOK'
        <2>1. /\ received' \in 0 .. Capacity /\ elapsed' \in 0 .. Deadline
              /\ unsent' \in 0 .. ResponseLength /\ lateReads' \in Nat
            BY ServerAssumption, FramingAssumption DEF Capacity
        <2>2. /\ stop' \in BOOLEAN /\ interrupted' \in BOOLEAN
              /\ faulty' \in BOOLEAN /\ installed' = {}
            OBVIOUS
        <2>3. step' \in 1 .. 3 /\ result' \in {0, 1} /\ pc' = "start"
            OBVIOUS
        <2> QED BY <2>1, <2>2, <2>3 DEF TypeOK
    <1>2. ControlInv' /\ AnswerInv' /\ DeadlineInv' /\ ResultInv'
        BY <1>0 DEF ControlInv, AnswerInv, DeadlineInv, DeadlineIsTotal,
            ResultInv, Handling, Reading
    <1>3. ClientInv'
        BY <1>0 DEF ClientInv, Waiting
    <1>4. AnswerIsTheStreams'
        BY DEF AnswerIsTheStreams
    <1> QED BY <1>1, <1>2, <1>3, <1>4

LEMMA RunInvKept ==
    ASSUME ServiceInv, [Step]_everything
    PROVE  RunInv'
    <1>1. RunInv /\ MainInv
        BY DEF ServiceInv
    <1>2. CASE OpenDatabase \/ CloseDatabase \/ UNCHANGED everything
        BY <1>1, <1>2, RunInvStep DEF OpenDatabase, CloseDatabase, everything
    <1>3. CASE Serve \/ World
        BY <1>1, <1>3, RunInvStep DEF Serve, Next
    <1>4. CASE LateSignal \/ Die \/ Boot
        BY <1>1, <1>4, LateSignalKeepsRun, DieKeepsRun, BootKeepsRun
    <1> QED BY <1>2, <1>3, <1>4 DEF Step, Around

(* Where main is.                                                          *)
LEMMA MainInvKept ==
    ASSUME ServiceInv, [Step]_everything
    PROVE  MainInv'
    <1> USE DEF MainInv
    <1>1. RunInv /\ MainInv
        BY DEF ServiceInv
    <1>2. CASE OpenDatabase
        BY <1>1, <1>2 DEF OpenDatabase, Alive, vars, RunInv, ControlInv,
            Handling, Reading, thread, connection, clients
    <1>3. CASE CloseDatabase
        BY <1>1, <1>3 DEF CloseDatabase, vars, RunInv, ControlInv, ResultInv,
            Handling, Reading, thread, connection, clients, history
    <1>4. CASE Serve
        BY <1>4 DEF Serve, process
    <1>5. CASE LateSignal
        BY <1>5 DEF LateSignal, process
    <1>6. CASE main # "off" /\ World /\ UNCHANGED process
        BY <1>1, <1>6 DEF World, Connect, Deliver, Leave, Tick, Signal, quiet,
            process
    <1>7. CASE Die
        BY <1>7 DEF Die, Killed
    <1>8. CASE Boot
        BY <1>1, <1>8 DEF Boot
    <1>9. CASE UNCHANGED everything
        BY <1>1, <1>9 DEF everything, process, vars, thread, connection,
            clients, history
    <1> QED BY <1>2, <1>3, <1>4, <1>5, <1>6, <1>7, <1>8, <1>9 DEF Step, Around

(* A signal kills only where the server has no connection.                 *)
LEMMA SignalInvKept ==
    ASSUME ServiceInv, [Step]_everything
    PROVE  SignalInv'
    <1> USE DEF SignalInv, Guarded, Handling, Reading
    <1>1. SignalInv /\ ControlInv /\ ResultInv /\ MainInv
        BY DEF ServiceInv, RunInv
    <1>2. CASE OpenDatabase \/ CloseDatabase \/ UNCHANGED everything
        BY <1>1, <1>2 DEF OpenDatabase, CloseDatabase, everything, vars,
            thread, connection, clients, process
    <1>3. CASE Serve
        <2>0. main = "serve" /\ main' = main /\ Thread /\ pc' # "killed"
            BY <1>3 DEF Serve, process, Thread, Start, Install, Listen,
                CloseListener, Restore, Loop, Poll, Accept, ParseBytes, Wait,
                Input, Recv, Send, Hangup, JustGoto, GiveUp, Break, Respond,
                DeadlineAnswer, Goto
        <2>1. CASE Start
            BY <1>1, <2>0, <2>1 DEF Start, Goto, ResultInv
        <2>2. CASE Install
            <3>1. step \in 1 .. 3
                BY DEF ServiceInv, RunInv, TypeOK
            <3>2. Handlers[1] = "SIGINT" /\ Handlers[2] = "SIGTERM"
                BY DEF Handlers
            <3> QED BY <1>1, <2>0, <2>2, <3>1, <3>2 DEF Install, Goto
        <2>3. CASE Restore \/ CloseListener
            BY <1>1, <2>0, <2>3 DEF Restore, CloseListener, Goto
        <2>4. CASE ~(Start \/ Install \/ Restore \/ CloseListener)
            <3>1. pc \in Guarded /\ UNCHANGED installed
                BY <2>0, <2>4 DEF Thread, Listen, Loop, Poll, Accept, ParseBytes,
                    Wait, Input, Recv, Send, Hangup, JustGoto, GiveUp, Break,
                    Respond, DeadlineAnswer, thread
            <3>2. pc' # "install"
                BY <2>0, <2>4 DEF Thread, Listen, Loop, Poll, Accept, ParseBytes,
                    Wait, Input, Recv, Send, Hangup, JustGoto, GiveUp, Break,
                    Respond, DeadlineAnswer, Goto
            <3> QED BY <1>1, <2>0, <3>1, <3>2
        <2> QED BY <2>1, <2>2, <2>3, <2>4
    <1>4. CASE LateSignal
        BY <1>1, <1>4 DEF LateSignal, ControlInv, connection, clients
    <1>5. CASE World /\ UNCHANGED process
        <2>1. CASE Signal
            <3>1. CASE pc' = "killed"
                <4>1. pc \in {"start", "install", "restore"}
                    BY <1>1, <2>1, <3>1 DEF Signal, Alive, ServiceInv, RunInv, TypeOK
                <4> QED BY <1>1, <2>1, <3>1, <4>1 DEF Signal, ControlInv,
                        connection, clients
            <3>2. CASE pc' # "killed"
                BY <1>1, <2>1, <3>2 DEF Signal
            <3> QED BY <3>1, <3>2
        <2>2. CASE ~Signal
            BY <1>1, <1>5, <2>2 DEF World, Connect, Deliver, Leave, Tick, quiet,
                Alive, thread
        <2> QED BY <2>1, <2>2
    <1>6. CASE Die
        BY <1>6 DEF Die
    <1>7. CASE Boot
        BY <1>7 DEF Boot
    <1> QED BY <1>2, <1>3, <1>4, <1>5, <1>6, <1>7 DEF Step, Around

(* The effects of all the steps of the program.                            *)
LEMMA StepEffect ==
    ASSUME ServiceInv, [Step]_everything
    PROVE  /\ ask' = ask
           /\ \/ UNCHANGED lost /\ broken \subseteq broken' /\ (Routing \/ Other)
              \/ Die
              \/ /\ Silent /\ UNCHANGED <<records, reply, lost>>
                 /\ broken \subseteq broken'
    <1> USE DEF requests
    <1>1. CASE Serve
        <2>1. [Next]_vars /\ RunInv
            BY <1>1 DEF Serve, Next, ServiceInv
        <2> QED BY <1>1, <2>1, BrokenGrows, ServeEffect
    <1>2. CASE Around
        BY <1>2, AroundEffect
    <1>3. CASE OpenDatabase \/ CloseDatabase \/ UNCHANGED everything
        BY <1>3 DEF OpenDatabase, CloseDatabase, everything, Silent, vars,
            connection, history
    <1>4. CASE Boot
        BY <1>4 DEF Boot, Silent
    <1>5. CASE Die
        BY <1>5 DEF Die
    <1> QED BY <1>1, <1>2, <1>3, <1>4, <1>5 DEF Step

(* The reply that router_handle gives.                                     *)
LEMMA RouterReplies ==
    ASSUME ServiceInv, Routing
    PROVE  /\ current \in Client
           /\ reply' = [reply EXCEPT ![current] = reply'[current]]
           /\ reply'[current] \in Replies
           /\ \/ UNCHANGED records
              \/ /\ ask[current] = Promise!NewUrl
                 /\ records' = Append(records, current)
                 /\ reply'[current] = Promise!Created(Len(records) + 1)
    <1>1. current \in Client
        BY DEF Routing, Answering
    <1>2. /\ records \in Seq(Client) /\ ask[current] \in Promise!Ask
          /\ reply \in [Client -> Replies \cup {None}]
        BY <1>1 DEF ServiceInv, RequestInv
    <1>3. CASE /\ ask[current] = Promise!NewUrl /\ Len(records) < MaxId
               /\ records' = Append(records, current)
               /\ Answers(Promise!Created(Len(records) + 1))
        <2>1. Len(records) + 1 \in 1 .. MaxId
            BY <1>2, <1>3, LenProperties, ServiceAssumption
        <2> QED BY <1>1, <1>2, <1>3, <2>1 DEF Answers, Replies
    <1>4. CASE /\ ask[current] # Promise!NewUrl
               /\ Answers(IF ask[current] \in DOMAIN records
                          THEN Promise!Redirected(records[ask[current]])
                          ELSE Promise!Plain("404"))
               /\ UNCHANGED records
        <2>1. ask[current] \in DOMAIN records => records[ask[current]] \in Client
            BY <1>2, ElementOfSeq, LenProperties
        <2>2. (IF ask[current] \in DOMAIN records
               THEN Promise!Redirected(records[ask[current]])
               ELSE Promise!Plain("404")) \in Replies
            BY <2>1 DEF Replies
        <2> QED BY <1>1, <1>2, <1>4, <2>2 DEF Answers
    <1>5. CASE Answers(Promise!Plain("500")) /\ UNCHANGED records
        BY <1>1, <1>2, <1>5 DEF Answers, Replies
    <1> QED BY <1>3, <1>4, <1>5 DEF Routing, RouterHandle

(* Records are those of the requests that were told their code.            *)
LEMMA RequestInvKept ==
    ASSUME ServiceInv, [Step]_everything
    PROVE  RequestInv'
    <1> USE DEF RequestInv
    <1>1. RequestInv /\ answer \in [Client -> {"none", "routed", "400", "501"}]
        BY DEF ServiceInv, RunInv, TypeOK
    <1>2. ask' = ask
        BY StepEffect
    <1>3. CASE Routing
        <2>1. /\ current \in Client /\ answer[current] = "none"
              /\ answer' = [answer EXCEPT ![current] = "routed"]
            BY <1>3 DEF Routing, Answering
        <2>2. reply' \in [Client -> Replies \cup {None}]
            BY <1>1, <1>3, RouterReplies
        <2>3. records' \in Seq(Client)
            BY <1>1, <1>3, <2>1, RouterReplies, AppendProperties
        <2>4. ASSUME NEW id \in DOMAIN records'
              PROVE  /\ answer'[records'[id]] = "routed"
                     /\ ask'[records'[id]] = Promise!NewUrl
                     /\ reply'[records'[id]] = Promise!Created(id)
            <3>1. CASE id \in DOMAIN records
                <4>1. records'[id] = records[id] /\ records[id] \in Client
                    BY <1>1, <1>3, <2>1, <3>1, RouterReplies, AppendProperties,
                        ElementOfSeq, LenProperties
                <4>2. records[id] # current
                    BY <1>1, <2>1, <3>1
                <4> QED BY <1>1, <1>2, <1>3, <2>1, <3>1, <4>1, <4>2, RouterReplies
            <3>2. CASE id \notin DOMAIN records
                <4>1. records' = Append(records, current)
                    BY <1>3, <3>2, RouterReplies
                <4>2. id = Len(records) + 1 /\ records'[id] = current
                    BY <1>1, <2>1, <3>2, <4>1, AppendProperties, LenProperties
                <4>3. /\ ask[current] = Promise!NewUrl
                      /\ reply'[current] = Promise!Created(Len(records) + 1)
                    BY <1>3, <3>2, RouterReplies
                <4> QED BY <1>1, <1>2, <2>1, <4>2, <4>3
            <3> QED BY <3>1, <3>2
        <2>5. \A c \in Client : answer'[c] = "routed" => reply'[c] \in Replies
            BY <1>1, <1>3, <2>1, RouterReplies
        <2> QED BY <1>1, <1>2, <2>2, <2>3, <2>4, <2>5
    <1>4. CASE UNCHANGED <<records, reply, answer>>
        BY <1>1, <1>2, <1>4
    <1>5. ASSUME NEW status \in {"400", "501"}, Answering(status),
                 UNCHANGED <<records, reply>>
          PROVE  RequestInv'
        <2>1. \A id \in DOMAIN records : records[id] \in Client
            BY <1>1, ElementOfSeq, LenProperties
        <2>2. \A c \in Client : answer'[c] = "routed" => answer[c] = "routed"
            BY <1>1, <1>5 DEF Answering
        <2>3. \A c \in Client : answer[c] = "routed" => answer'[c] = "routed"
            BY <1>1, <1>5 DEF Answering
        <2> QED BY <1>1, <1>2, <1>5, <2>1, <2>2, <2>3
    <1>6. CASE Other
        BY <1>4, <1>5, <1>6 DEF Other, Silent, Telling, Ending
    <1>7. CASE Die
        BY <1>4, <1>7 DEF Die, requests
    <1> QED BY <1>3, <1>4, <1>6, <1>7, StepEffect DEF Silent

(* No connection that was answered ends without its reason.                *)
LEMMA EndInvKept ==
    ASSUME ServiceInv, [Step]_everything
    PROVE  EndInv'
    <1> USE DEF EndInv
    <1>1. /\ EndInv /\ ended \subseteq Client
          /\ answer \in [Client -> {"none", "routed", "400", "501"}]
        BY DEF ServiceInv, RunInv, TypeOK
    <1>2. ASSUME NEW status \in {"routed", "400", "501"}, Answering(status),
                 UNCHANGED lost, broken \subseteq broken'
          PROVE  EndInv'
        BY <1>1, <1>2 DEF Answering
    <1>3. CASE Silent /\ UNCHANGED lost /\ broken \subseteq broken'
        BY <1>1, <1>3 DEF Silent
    <1>4. CASE (Telling \/ Ending) /\ UNCHANGED lost /\ broken \subseteq broken'
        BY <1>1, <1>4 DEF Telling, Ending
    <1>5. CASE Die
        BY <1>1, <1>5 DEF Die
    <1> QED BY <1>2, <1>3, <1>4, <1>5, StepEffect DEF Routing, Other

-----------------------------------------------------------------------------
(* The strengthening: where main is, where a signal can kill, what is      *)
(* stored and whose connection ended why, besides what each run of         *)
(* server_run keeps; it survives every kill and restart.                   *)
THEOREM ServiceInvHolds == ServiceSpec => []ServiceInv
<1>1. ServiceInv /\ [Step]_everything => ServiceInv'
    <2> SUFFICES ASSUME ServiceInv, [Step]_everything PROVE ServiceInv'
        OBVIOUS
    <2>1. RunInv' /\ MainInv' /\ SignalInv' /\ RequestInv' /\ EndInv'
        BY RunInvKept, MainInvKept, SignalInvKept, RequestInvKept, EndInvKept
    <2> QED BY <2>1 DEF ServiceInv
<1> QED BY <1>1, BeginInv, PTL DEF ServiceSpec

(* Nothing is stored behind a client's back: whose URL has an id was       *)
(* answered with it, and when the connection ended without that answer, it *)
(* had failed or its process was killed.                                   *)
THEOREM NothingIsStoredInSilence == ServiceSpec => []NothingStoredInSilence
<1>1. ServiceInv => NothingStoredInSilence
    <2> SUFFICES ASSUME ServiceInv, NEW id \in DOMAIN records
                 PROVE  /\ ask[records[id]] = Promise!NewUrl
                        /\ reply[records[id]] = Promise!Created(id)
                        /\ records[id] \in ended =>
                              records[id] \in sent \cup broken \cup lost
        BY DEF NothingStoredInSilence
    <2> QED BY DEF ServiceInv, RequestInv, EndInv
<1> QED BY <1>1, ServiceInvHolds, PTL

(* Status 0 is that of a requested stop after which nothing is left open   *)
(* and nobody who was answered is left without his response, unless his    *)
(* connection failed.                                                      *)
THEOREM ExitIsTruthful == ServiceSpec => []ExitTellsTheTruth
<1>1. ServiceInv => ExitTellsTheTruth
    <2> SUFFICES ASSUME ServiceInv, main = "off" PROVE ExitTellsTheTruth
        BY DEF ExitTellsTheTruth
    <2>1. /\ ~listener /\ ~database /\ current = None /\ backlog = <<>>
          /\ exit = 0 <=> pc = "returned" /\ stop /\ ~faulty
        BY DEF ServiceInv, MainInv
    <2>2. \A c \in Client : /\ peer[c] # "idle" => c \in ended
                            /\ answer[c] # "none" => c \in ended
        BY <2>1, ServerAssumption DEF ServiceInv, RunInv, ClientInv, Waiting
    <2> QED BY <2>1, <2>2 DEF ServiceInv, EndInv, ExitTellsTheTruth
<1> QED BY <1>1, ServiceInvHolds, PTL

(* A signal kills the process only before it listens or after it has hung  *)
(* up on everybody.                                                        *)
THEOREM SignalsSpareTheService == ServiceSpec => []SignalsNeverCutTheService
<1>1. ServiceInv => SignalsNeverCutTheService
    <2> SUFFICES ASSUME ServiceInv, pc = "killed", main # "off"
                 PROVE  SignalsNeverCutTheService
        BY DEF SignalsNeverCutTheService
    <2>1. ~listener /\ current = None /\ backlog = <<>>
        BY DEF ServiceInv, SignalInv
    <2> QED BY <2>1, ServerAssumption
            DEF ServiceInv, RunInv, ClientInv, Waiting, SignalsNeverCutTheService
<1> QED BY <1>1, ServiceInvHolds, PTL

-----------------------------------------------------------------------------
(* What is decided is a reply.                                             *)
LEMMA DecidedReplies ==
    ASSUME ServiceInv, NEW c \in Client
    PROVE  Decided[c] = None <=> answer[c] = "none"
    <1>1. answer[c] \in {"none", "routed", "400", "501"}
        BY DEF ServiceInv, RunInv, TypeOK
    <1>2. answer[c] = "routed" => reply[c] \in Replies
        BY DEF ServiceInv, RequestInv
    <1>3. [status |-> "400"] \in Replies /\ [status |-> "501"] \in Replies
        BY DEF Replies, Promise!Plain
    <1> QED BY <1>1, <1>2, <1>3, NoReplyAssumption DEF Decided

(* An answer is one decision.                                              *)
LEMMA AnsweringDecides ==
    ASSUME ServiceInv, ask' = ask, NEW status \in {"routed", "400", "501"},
           Answering(status), NEW r,
           reply' = [reply EXCEPT ![current] = r] \/ UNCHANGED reply,
           r = (IF status = "routed" THEN reply'[current] ELSE Promise!Plain(status))
    PROVE  Promise!Decide(current, r)
    <1>1. /\ answer \in [Client -> {"none", "routed", "400", "501"}]
          /\ reply \in [Client -> Replies \cup {None}]
        BY DEF ServiceInv, RunInv, TypeOK, RequestInv
    <1>2. current \in Client /\ answer[current] = "none"
        BY DEF Answering
    <1>3. Decided[current] = None
        BY <1>2, DecidedReplies
    <1>4. Decided' = [Decided EXCEPT ![current] = r]
        <2>1. Decided'[current] = r
            BY <1>1, <1>2 DEF Decided, Answering, Promise!Plain
        <2>2. \A c \in Client \ {current} : Decided'[c] = Decided[c]
            BY <1>1, <1>2 DEF Decided, Answering
        <2> QED BY <1>2, <2>1, <2>2 DEF Decided
    <1> QED BY <1>3, <1>4 DEF Promise!Decide, Answering

(* Every step of the program is a step of the service, or none of them.    *)
LEMMA StepImplements ==
    ASSUME ServiceInv, [Step]_everything
    PROVE  [Promise!Next]_(Promise!vars)
    <1>1. /\ ask' = ask /\ ask \in [Client -> Promise!Ask] /\ records \in Seq(Client)
          /\ reply \in [Client -> Replies \cup {None}]
        BY StepEffect DEF ServiceInv, RequestInv
    <1>2. CASE Routing
        <2>1. current \in Client /\ Answering("routed")
            BY <1>2 DEF Routing, Answering
        <2>2. ASSUME NEW r, Answers(r)
              PROVE  Promise!Decide(current, r)
            <3>1. reply'[current] = r
                BY <1>1, <2>1, <2>2 DEF Answers
            <3> QED BY <1>1, <2>1, <2>2, <3>1, AnsweringDecides DEF Answers
        <2>3. CASE /\ ask[current] = Promise!NewUrl /\ Len(records) < MaxId
                   /\ records' = Append(records, current)
                   /\ Answers(Promise!Created(Len(records) + 1))
            <3>1. Promise!Create(current)
                BY <2>2, <2>3 DEF Promise!Create
            <3> QED BY <2>1, <3>1 DEF Promise!Next
        <2>4. CASE /\ ask[current] # Promise!NewUrl
                   /\ Answers(IF ask[current] \in DOMAIN records
                              THEN Promise!Redirected(records[ask[current]])
                              ELSE Promise!Plain("404"))
                   /\ UNCHANGED records
            <3>1. ask[current] \in DOMAIN records <=> ask[current] <= Len(records)
                <4>1. ask[current] \in 1 .. MaxId
                    BY <1>1, <2>1, <2>4 DEF Promise!Ask, Promise!NewUrl
                <4> QED BY <1>1, <4>1, LenProperties, ServiceAssumption
            <3>2. Promise!LookUp(current)
                BY <2>2, <2>4, <3>1 DEF Promise!LookUp
            <3> QED BY <2>1, <3>2 DEF Promise!Next
        <2>5. CASE Answers(Promise!Plain("500")) /\ UNCHANGED records
            <3>1. Promise!Refuse(current)
                BY <2>2, <2>5 DEF Promise!Refuse
            <3> QED BY <2>1, <3>1 DEF Promise!Next
        <2> QED BY <1>2, <2>3, <2>4, <2>5 DEF Routing, RouterHandle
    <1>3. ASSUME NEW status \in {"400", "501"}, Answering(status),
                 UNCHANGED <<records, reply>>
          PROVE  Promise!Next
        <2>1. current \in Client
            BY <1>3 DEF Answering
        <2>2. Promise!Decide(current, Promise!Plain(status))
            BY <1>1, <1>3, AnsweringDecides
        <2>3. Promise!Refuse(current)
            BY <1>3, <2>2 DEF Promise!Refuse
        <2> QED BY <2>1, <2>3 DEF Promise!Next
    <1>4. CASE UNCHANGED <<records, reply>> /\ Silent
        BY <1>1, <1>4 DEF Silent, Decided, Promise!vars
    <1>5. CASE UNCHANGED <<records, reply>> /\ Telling
        <2>1. current \in Client /\ current \notin ended /\ answer[current] # "none"
            BY <1>5 DEF Telling, ServiceInv, EndInv
        <2>2. Decided[current] # None
            BY <2>1, DecidedReplies
        <2>3. Decided' = Decided
            BY <1>5 DEF Telling, Decided
        <2>4. Promise!Tell(current)
            BY <1>1, <1>5, <2>1, <2>2, <2>3 DEF Telling, Promise!Tell
        <2> QED BY <2>1, <2>4 DEF Promise!Next
    <1>6. CASE UNCHANGED <<records, reply>> /\ Ending
        <2>1. Decided' = Decided
            BY <1>6 DEF Ending, Decided
        <2>2. Promise!Close
            BY <1>1, <1>6, <2>1 DEF Ending, Promise!Close
        <2> QED BY <2>2 DEF Promise!Next
    <1>7. CASE Die
        <2>1. UNCHANGED <<answer, sent, requests>> /\ ended \subseteq ended'
              /\ ended' \subseteq Client
            BY <1>7 DEF Die, ServiceInv, RunInv, TypeOK
        <2>2. Decided' = Decided
            BY <2>1 DEF Decided, requests
        <2>3. Promise!Close
            BY <2>1, <2>2 DEF Promise!Close, requests
        <2> QED BY <2>3 DEF Promise!Next
    <1> QED BY <1>2, <1>3, <1>4, <1>5, <1>6, <1>7, StepEffect DEF Other

(* The program implements the service, across broken connections, signals, *)
(* crashes and restarts.                                                   *)
THEOREM ServiceIsImplemented == ServiceSpec => Implements
<1>1. Begin => Promise!Init
    BY DEF Begin, Init, Promise!Init, Decided
<1>2. ServiceInv /\ [Step]_everything => [Promise!Next]_(Promise!vars)
    BY StepImplements
<1> QED BY <1>1, <1>2, ServiceInvHolds, PTL
        DEF ServiceSpec, Implements, Promise!Spec
=============================================================================
