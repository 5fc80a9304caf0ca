------------------------------- MODULE Server -------------------------------
(***************************************************************************)
(* The server of the shortener (src/src/server.c): one thread that installs*)
(* signal handlers, listens, and handles one connection after the other,   *)
(* one request on each, until a signal or a failure ends it.  Around the   *)
(* thread run the clients, who connect, send their bytes in any portions,  *)
(* fall silent, hang up or reset; the clock; and the signals.  Any of these *)
(* may come between any two system calls of the thread, and every system   *)
(* call may fail where the code handles its failure.                       *)
(***************************************************************************)
EXTENDS Sequences, HttpFraming

CONSTANTS
    Client,          \* the clients, each of which connects at most once
    Streams,         \* what a client may send in all
    Deadline,        \* SERVER_REQUEST_DEADLINE_MS, in ticks of the clock
    ResponseLength,  \* the length of a response, in portions send may take
    MaxSignals,      \* bound: how many signals are sent
    None             \* no client

ASSUME ServerAssumption ==
    /\ Streams \subseteq Stream
    /\ Deadline \in Nat \ {0}
    /\ ResponseLength \in Nat \ {0}
    /\ MaxSignals \in Nat
    /\ None \notin Client

Capacity == MaxHeader + MaxBody               \* SERVER_REQUEST_CAPACITY
Handlers == <<"SIGINT", "SIGTERM", "SIGPIPE">>  \* in the order of the code

VARIABLES
    pc,           \* where the thread is
    step,         \* which of the handlers it is installing or restoring
    result,       \* the local result of server_run
    stop,         \* stop_requested
    interrupted,  \* a signal has interrupted the system call under way
    installed,    \* the signals whose disposition is the server's
    listener,     \* the listening socket is open
    current,      \* the client of the open connection, or None
    received,     \* how many of its bytes are in the request buffer
    elapsed,      \* the time since it was accepted, in ticks
    unsent,       \* how much of the response is still to be sent
    backlog,      \* the connections waiting to be accepted
    stream,       \* what each client sends in all
    arrived,      \* how many of these bytes have arrived
    peer,         \* what each client has done with its connection
    signals,      \* how many signals were sent
    answer,       \* history: what handle_client decided for each client
    sent,         \* history: the clients whose response was sent whole
    ended,        \* history: the clients whose connection is closed
    late,         \* history: the clients who were answered at the deadline
    broken,       \* history: the clients whose connection failed
    lateReads,    \* history: reads from current after the deadline
    faulty        \* history: a system call of the server itself failed

thread == <<step, result, stop, installed, listener>>
connection == <<current, received, elapsed, unsent>>
clients == <<backlog, stream, arrived, peer>>
history == <<answer, sent, ended, late, broken, lateReads, faulty>>
vars == <<pc, interrupted, thread, connection, clients, signals, history>>

Init ==
    /\ pc = "start" /\ step = 1 /\ result = 0 /\ stop = FALSE
    /\ interrupted = FALSE /\ installed = {} /\ listener = FALSE
    /\ current = None /\ received = 0 /\ elapsed = 0 /\ unsent = 0
    /\ backlog = <<>>
    /\ stream \in [Client -> Streams]
    /\ arrived = [c \in Client |-> 0]
    /\ peer = [c \in Client |-> "idle"]
    /\ signals = 0
    /\ answer = [c \in Client |-> "none"]
    /\ sent = {} /\ ended = {} /\ late = {} /\ broken = {}
    /\ lateReads = 0 /\ faulty = FALSE

Goto(label) == pc' = label /\ interrupted' = FALSE

(* A system call of the server itself fails: server_run will return 1.     *)
Fault == result' = 1 /\ faulty' = TRUE
NoFault == UNCHANGED <<result, faulty>>

-----------------------------------------------------------------------------
(* server_run, up to its loop and after it.                                *)
Start ==
    /\ pc = "start"
    /\ Goto("install")
    /\ stop' = FALSE
    /\ UNCHANGED <<step, result, installed, listener, connection, clients,
                   signals, history>>

(* One sigaction; when it fails the earlier ones are undone, which is      *)
(* taken to succeed as the code takes it.                                  *)
Install ==
    /\ pc = "install"
    /\ \/ /\ installed' = installed \cup {Handlers[step]}
          /\ Goto(IF step = 3 THEN "listen" ELSE "install")
          /\ step' = IF step = 3 THEN 1 ELSE step + 1
          /\ NoFault
       \/ /\ installed' = {}
          /\ Goto("returned")
          /\ Fault
          /\ UNCHANGED step
    /\ UNCHANGED <<stop, listener, connection, clients, signals, answer, sent,
                   ended, late, broken, lateReads>>

(* open_listener, whose error paths close the socket again.                *)
Listen ==
    /\ pc = "listen"
    /\ \/ listener' = TRUE /\ Goto("loop") /\ NoFault
       \/ UNCHANGED listener /\ Goto("restore") /\ Fault
    /\ UNCHANGED <<step, stop, installed, connection, clients, signals, answer,
                   sent, ended, late, broken, lateReads>>

(* Closing the listener resets the connections that wait on it.            *)
CloseListener ==
    /\ pc = "close"
    /\ Goto("restore")
    /\ listener' = FALSE
    /\ backlog' = <<>>
    /\ ended' = ended \cup {backlog[i] : i \in DOMAIN backlog}
    /\ Fault \/ NoFault
    /\ UNCHANGED <<step, stop, installed, connection, stream, arrived, peer,
                   signals, answer, sent, late, broken, lateReads>>

Restore ==
    /\ pc = "restore"
    /\ \/ installed' = installed \ {Handlers[step]} /\ NoFault
       \/ UNCHANGED installed /\ Fault
    /\ Goto(IF step = 3 THEN "returned" ELSE "restore")
    /\ step' = IF step = 3 THEN 1 ELSE step + 1
    /\ UNCHANGED <<stop, listener, connection, clients, signals, answer, sent,
                   ended, late, broken, lateReads>>

-----------------------------------------------------------------------------
(* The loop of server_run.                                                 *)
JustGoto(label) ==
    Goto(label) /\ UNCHANGED <<thread, connection, clients, signals, history>>

(* Seeded fault: the way out of the loop skips the listener.               *)
GiveUpNoClose ==
    /\ Goto("restore")
    /\ Fault
    /\ UNCHANGED <<step, stop, installed, listener, connection, clients,
                   signals, answer, sent, ended, late, broken, lateReads>>

GiveUp ==
    /\ Goto("close")
    /\ Fault
    /\ UNCHANGED <<step, stop, installed, listener, connection, clients,
                   signals, answer, sent, ended, late, broken, lateReads>>

Loop ==
    /\ pc = "loop"
    /\ JustGoto(IF stop THEN "close" ELSE "poll")

(* Seeded fault: poll has no timeout and relies on being interrupted.      *)
PollForever ==
    /\ pc = "poll"
    /\ \/ backlog # <<>> /\ JustGoto("accept")
       \/ interrupted /\ JustGoto("loop")
       \/ GiveUp

(* poll of the listener returns because a connection is waiting, because   *)
(* its 100 milliseconds are over or because of a signal; a signal that     *)
(* comes just before poll does not interrupt it.                           *)
Poll ==
    /\ pc = "poll"
    /\ \/ JustGoto(IF backlog # <<>> THEN "accept" ELSE "loop")
       \/ interrupted /\ JustGoto("loop")
       \/ GiveUp

(* accept, and the first reading of the clock in handle_client.            *)
Accept ==
    /\ pc = "accept"
    /\ \/ /\ current' = Head(backlog)
          /\ backlog' = Tail(backlog)
          /\ received' = 0 /\ elapsed' = 0 /\ unsent' = 0
          /\ lateReads' = 0
          /\ \/ Goto("parse") /\ UNCHANGED broken
             \/ Goto("hangup") /\ broken' = broken \cup {Head(backlog)}
          /\ UNCHANGED <<thread, stream, arrived, peer, signals, answer, sent,
                         ended, late, faulty>>
       \/ interrupted /\ JustGoto("loop")
       \/ GiveUp

-----------------------------------------------------------------------------
(* handle_client.                                                          *)
Respond(status) ==
    /\ Goto("send")
    /\ answer' = [answer EXCEPT ![current] = status]
    /\ unsent' = ResponseLength
    /\ UNCHANGED <<thread, current, received, elapsed, clients, signals, sent,
                   ended, broken, lateReads, faulty>>

Break ==
    /\ Goto("hangup")
    /\ broken' = broken \cup {current}
    /\ UNCHANGED <<thread, connection, clients, signals, answer, sent, ended,
                   late, lateReads, faulty>>

(* What the loop makes of the bytes it has; "routed" is router_handle.     *)
Decision ==
    LET status == Parse(stream[current], received) IN
    CASE status = "OK" -> "routed"
      [] status = "UNSUPPORTED_TRANSFER" -> "501"
      [] status = "INCOMPLETE" ->
            (IF received = Capacity THEN "400" ELSE "none")
      [] OTHER -> "400"

ParseBytes ==
    /\ pc = "parse"
    /\ IF stop THEN JustGoto("hangup")
       ELSE IF Decision = "none" THEN JustGoto("wait")
       ELSE Respond(Decision) /\ UNCHANGED late

DeadlineAnswer == Respond("400") /\ late' = late \cup {current}

(* Seeded fault: the deadline is left to poll, which looks for input first.*)
WaitUnchecked ==
    /\ pc = "wait"
    /\ IF stop THEN JustGoto("hangup") ELSE JustGoto("input")

(* wait_for_input_until, up to its poll with the time that remains.        *)
Wait ==
    /\ pc = "wait"
    /\ \/ stop /\ JustGoto("hangup")
       \/ ~stop /\ elapsed >= Deadline /\ DeadlineAnswer
       \/ ~stop /\ elapsed < Deadline /\ JustGoto("input")
       \/ ~stop /\ Break

Readable == arrived[current] > received \/ peer[current] # "open"

(* Seeded fault: poll has no timeout.                                      *)
InputForever ==
    /\ pc = "input"
    /\ \/ Readable /\ JustGoto("recv")
       \/ interrupted /\ JustGoto("wait")
       \/ Break

Input ==
    /\ pc = "input"
    /\ \/ Readable /\ JustGoto("recv")
       \/ ~Readable /\ elapsed >= Deadline /\ DeadlineAnswer
       \/ interrupted /\ JustGoto("wait")
       \/ Break

(* Seeded fault: recv is given the size of the buffer, not of its rest.    *)
RecvWholeSize ==
    /\ pc = "recv"
    /\ \E n \in 1 .. Capacity :
          /\ received + n <= arrived[current]
          /\ received' = received + n
    /\ Goto("parse")
    /\ UNCHANGED <<thread, current, elapsed, unsent, clients, signals, history>>

(* recv takes any part of what has arrived; at the end of the stream the   *)
(* request is malformed; after a reset, or without one, it may fail.       *)
Recv ==
    /\ pc = "recv"
    /\ \/ /\ \E n \in 1 .. (Capacity - received) :
                /\ received + n <= arrived[current]
                /\ received' = received + n
          /\ lateReads' = lateReads + (IF elapsed >= Deadline THEN 1 ELSE 0)
          /\ Goto("parse")
          /\ UNCHANGED <<thread, current, elapsed, unsent, clients, signals,
                         answer, sent, ended, late, broken, faulty>>
       \/ /\ arrived[current] = received
          /\ peer[current] = "closed"
          /\ Respond("400")
          /\ UNCHANGED late
       \/ Break
       \/ interrupted /\ JustGoto("parse")

(* Seeded fault: an interrupted send is taken for a failed one.            *)
SendGivesUp ==
    /\ pc = "send"
    /\ \/ unsent > 0 /\ ~interrupted
          /\ unsent' = 0
          /\ Goto("send")
          /\ UNCHANGED <<thread, current, received, elapsed, clients, signals,
                         history>>
       \/ unsent > 0 /\ interrupted /\ JustGoto("hangup")
       \/ /\ unsent = 0
          /\ Goto("hangup")
          /\ sent' = sent \cup {current}
          /\ UNCHANGED <<thread, connection, clients, signals, answer, ended,
                         late, broken, lateReads, faulty>>

(* One send of send_all.                                                   *)
Send ==
    /\ pc = "send"
    /\ \/ /\ unsent > 0
          /\ unsent' \in 0 .. (unsent - 1)
          /\ Goto("send")
          /\ UNCHANGED <<thread, current, received, elapsed, clients, signals,
                         history>>
       \/ unsent > 0 /\ interrupted /\ JustGoto("send")
       \/ unsent > 0 /\ Break
       \/ /\ unsent = 0
          /\ Goto("hangup")
          /\ sent' = sent \cup {current}
          /\ UNCHANGED <<thread, connection, clients, signals, answer, ended,
                         late, broken, lateReads, faulty>>

Hangup ==
    /\ pc = "hangup"
    /\ Goto("loop")
    /\ ended' = ended \cup {current}
    /\ current' = None
    /\ UNCHANGED <<thread, received, elapsed, unsent, clients, signals, answer,
                   sent, late, broken, lateReads, faulty>>

Thread == \/ Start \/ Install \/ Listen \/ CloseListener \/ Restore
          \/ Loop \/ Poll \/ Accept
          \/ ParseBytes \/ Wait \/ Input \/ Recv \/ Send \/ Hangup

-----------------------------------------------------------------------------
(* The world around the thread.                                            *)
Alive == pc \notin {"returned", "killed"}
quiet == UNCHANGED <<thread, pc, interrupted, signals, history>>

Connect(c) ==
    /\ Alive
    /\ listener
    /\ peer[c] = "idle"
    /\ peer' = [peer EXCEPT ![c] = "open"]
    /\ backlog' = Append(backlog, c)
    /\ quiet
    /\ UNCHANGED <<connection, stream, arrived>>

Deliver(c) ==
    /\ Alive
    /\ peer[c] = "open" /\ c \notin ended
    /\ arrived[c] < stream[c].total
    /\ arrived' = [arrived EXCEPT ![c] = @ + 1]
    /\ quiet
    /\ UNCHANGED <<connection, backlog, stream, peer>>

(* A client closes its side when it has sent all it had to send, or resets *)
(* the connection at any time.                                             *)
Leave(c) ==
    /\ Alive
    /\ peer[c] = "open" /\ c \notin ended
    /\ \/ arrived[c] = stream[c].total /\ peer' = [peer EXCEPT ![c] = "closed"]
       \/ peer' = [peer EXCEPT ![c] = "reset"]
    /\ quiet
    /\ UNCHANGED <<connection, backlog, stream, arrived>>

Tick ==
    /\ current # None
    /\ Alive
    /\ elapsed < Deadline
    /\ elapsed' = elapsed + 1
    /\ quiet
    /\ UNCHANGED <<current, received, unsent, clients>>

Interruptible == {"poll", "accept", "input", "recv", "send"}

(* SIGINT or SIGTERM.  Without its handler the signal kills the process;   *)
(* with it, the flag is set and the system call under way, if any, fails   *)
(* with EINTR unless the signal came just before it.                       *)
Signal ==
    /\ Alive
    /\ signals < MaxSignals
    /\ signals' = signals + 1
    /\ \E s \in {"SIGINT", "SIGTERM"} :
          \/ /\ s \notin installed
             /\ pc' = "killed"
             /\ UNCHANGED <<stop, interrupted>>
          \/ /\ s \in installed
             /\ stop' = TRUE
             /\ interrupted' \in
                   {interrupted} \cup (IF pc \in Interruptible THEN {TRUE} ELSE {})
             /\ UNCHANGED pc
    /\ UNCHANGED <<step, result, installed, listener, connection, clients,
                   history>>

World == \/ \E c \in Client : Connect(c) \/ Deliver(c) \/ Leave(c)
         \/ Tick \/ Signal

Next == Thread \/ World

(* A step of the thread in which no system call fails.                     *)
Succeed == Thread /\ UNCHANGED <<broken, faulty>>

(* recv of a connection that was reset, with nothing left to read, can do  *)
(* nothing but fail.                                                       *)
NoticeReset ==
    /\ pc = "recv"
    /\ peer[current] = "reset"
    /\ Break

(* The scheduler runs the thread, a poll ends with its time, and the clock *)
(* runs.  No system call owes it to the thread to fail: what gets it out   *)
(* of a wait is a timeout of the code, never an error.  Clients and signals*)
(* owe nothing.                                                            *)
Fairness == WF_vars(Succeed) /\ WF_vars(NoticeReset) /\ WF_vars(Tick)

Spec == Init /\ [][Next]_vars
FairSpec == Spec /\ Fairness

-----------------------------------------------------------------------------
TypeOK ==
    /\ pc \in {"start", "install", "listen", "loop", "poll", "accept", "parse",
               "wait", "input", "recv", "send", "hangup", "close", "restore",
               "returned", "killed"}
    /\ step \in 1 .. 3
    /\ result \in {0, 1}
    /\ stop \in BOOLEAN /\ interrupted \in BOOLEAN /\ listener \in BOOLEAN
    /\ faulty \in BOOLEAN
    /\ installed \subseteq {"SIGINT", "SIGTERM", "SIGPIPE"}
    /\ current \in Client \cup {None}
    /\ received \in 0 .. Capacity
    /\ elapsed \in 0 .. Deadline
    /\ unsent \in 0 .. ResponseLength
    /\ backlog \in Seq(Client)
    /\ stream \in [Client -> Streams]
    /\ arrived \in [Client -> Nat]
    /\ peer \in [Client -> {"idle", "open", "closed", "reset"}]
    /\ signals \in 0 .. MaxSignals
    /\ answer \in [Client -> {"none", "routed", "400", "501"}]
    /\ sent \subseteq Client /\ ended \subseteq Client
    /\ late \subseteq Client /\ broken \subseteq Client
    /\ lateReads \in Nat

(* The request buffer holds the largest request and not a byte more: as    *)
(* long as the parser asks for more bytes there is room for one, so that   *)
(* recv is never asked for zero bytes, whose answer 0 reads as the end of  *)
(* the stream (server.c:196 never applies).                                *)
RoomForMore ==
    /\ pc = "parse" /\ received = Capacity =>
          Parse(stream[current], received) # "INCOMPLETE"
    /\ pc \in {"wait", "input", "recv"} => received < Capacity

(* What the client is told does not depend on how TCP cut its bytes into   *)
(* portions: it is what the parser says of all the bytes, except that a    *)
(* deadline turns any answer into 400 and that a request may be served     *)
(* before superfluous bytes behind it arrive.                              *)
Verdict(s) ==
    LET status == Parse(s, s.total) IN
    CASE status = "OK" -> "routed"
      [] status = "UNSUPPORTED_TRANSFER" -> "501"
      [] OTHER -> "400"

AnswerIsTheStreams ==
    \A c \in Client : answer[c] # "none" /\ c \notin late =>
        \/ answer[c] = Verdict(stream[c])
        \/ /\ answer[c] = "routed"
           /\ stream[c].total > RequestEnd(stream[c])
           /\ Parse(stream[c], RequestEnd(stream[c])) = "OK"

(* No connection is closed in silence: only a stop request or a failed     *)
(* system call leaves a client without a response, and once a request was  *)
(* handed to the router, with all that it stores, not even a stop request  *)
(* keeps the response from being sent.                                     *)
NobodyIsForgotten ==
    \A c \in ended :
        /\ c \in sent \/ c \in broken \/ stop \/ faulty
        /\ answer[c] # "none" => c \in sent \/ c \in broken

(* The deadline is for the whole request: however a client dribbles its    *)
(* bytes and however often poll is interrupted, at most one read happens   *)
(* after the deadline.                                                     *)
DeadlineIsTotal == lateReads <= 1

(* server_run returns with nothing of its own left behind, and its result  *)
(* tells a requested stop from a failure.  When it was a later handler     *)
(* that could not be installed (step is past the first), the earlier ones  *)
(* are undone; only a failure to restore leaves some installed.            *)
ReturnsClean ==
    pc = "returned" =>
        /\ ~listener
        /\ current = None
        /\ \A c \in Client : peer[c] # "idle" => c \in ended
        /\ result = (IF faulty THEN 1 ELSE 0)
        /\ result = 0 => stop /\ installed = {}
        /\ step > 1 => installed = {}

(* A stop request is never lost, wherever it comes: also just before poll, *)
(* which it then does not interrupt, while a client is silent.             *)
StopIsHonoured == stop ~> (pc \in {"returned", "killed"})

(* One silent or slow client cannot keep the others waiting for ever.      *)
EveryConnectionEnds ==
    \A c \in Client : peer[c] # "idle" ~> (c \in ended \/ pc = "killed")
=============================================================================
