---------------------------- MODULE BrowserPage -----------------------------
(***************************************************************************)
(* The script of the page (src/web/index.html:31-57): two event handlers   *)
(* that wait for the network, the clipboard and a timer, between any two   *)
(* of which the user may do something else.  An action is what a handler   *)
(* does without waiting.  A short URL is named by the number of the        *)
(* submission it was given for.                                            *)
(***************************************************************************)
EXTENDS Integers

CONSTANTS
    Input,           \* what may be in the input field
    Plausible,       \* the inputs that begin like an http(s) URL
    MaxSubmissions,  \* bound: how often the form is submitted to the server
    MaxCopies        \* bound: how often the Copy button is pressed

ASSUME PageAssumption ==
    /\ Plausible \subseteq Input
    /\ MaxSubmissions \in Nat /\ MaxCopies \in Nat

VARIABLES
    input,      \* i.value
    disabled,   \* b.disabled: the submit button, which then reads Shortening...
    hidden,     \* r.hidden: the result area, with its Copy button
    shown,      \* o.textContent: the short URL, or 0
    status,     \* s.textContent
    copyLabel,  \* c.textContent
    last,       \* how many submissions were sent
    fetching,   \* the submissions whose fetch is not settled
    reading,    \* the submissions whose response.json() is not settled
    pressed,    \* how often the Copy button was pressed
    copying,    \* the presses whose writeText is not settled
    timers      \* how many timers are to set the label of the Copy button back

form == <<input, disabled, last, fetching, reading>>
copy == <<copyLabel, pressed, copying, timers>>
vars == <<form, hidden, shown, status, copy>>

Init ==
    /\ input \in Input /\ disabled = FALSE
    /\ hidden = TRUE /\ shown = 0 /\ status = "" /\ copyLabel = "Copy"
    /\ last = 0 /\ fetching = {} /\ reading = {}
    /\ pressed = 0 /\ copying = {} /\ timers = 0

Edit ==
    /\ input' \in Input \ {input}
    /\ UNCHANGED <<disabled, last, fetching, reading, hidden, shown, status, copy>>

-----------------------------------------------------------------------------
(* Seeded fault: the button stays enabled.                                 *)
SubmitTwice ==
    /\ hidden' = TRUE
    /\ \/ /\ input \notin Plausible
          /\ status' = "invalid"
          /\ UNCHANGED <<disabled, last, fetching>>
       \/ /\ input \in Plausible /\ last < MaxSubmissions
          /\ last' = last + 1 /\ fetching' = fetching \cup {last + 1}
          /\ status' = "submitting" /\ disabled' = TRUE
    /\ UNCHANGED <<input, reading, shown, copy>>

(* The submit event; the browser sends none while the button is disabled.  *)
Submit ==
    /\ ~disabled
    /\ hidden' = TRUE
    /\ \/ /\ input \notin Plausible
          /\ status' = "invalid"
          /\ UNCHANGED <<disabled, last, fetching>>
       \/ /\ input \in Plausible /\ last < MaxSubmissions
          /\ last' = last + 1 /\ fetching' = fetching \cup {last + 1}
          /\ status' = "submitting" /\ disabled' = TRUE
    /\ UNCHANGED <<input, reading, shown, copy>>

(* The catch and the finally of the handler.                               *)
Fail == hidden' = TRUE /\ status' = "failed" /\ UNCHANGED shown
Finally == disabled' = FALSE /\ UNCHANGED <<input, last, copy>>

(* Seeded fault: a refusal returns before the button is enabled again.     *)
RespondNoFinally(n) ==
    /\ n \in fetching
    /\ fetching' = fetching \ {n}
    /\ \/ /\ status' = "invalid" /\ UNCHANGED <<hidden, shown, reading, disabled>>
          /\ UNCHANGED <<input, last, copy>>
       \/ Fail /\ UNCHANGED reading /\ Finally
       \/ /\ reading' = reading \cup {n}
          /\ UNCHANGED <<input, disabled, last, hidden, shown, status, copy>>

(* fetch settles: 400, another failure or none at all, or 201.             *)
Respond(n) ==
    /\ n \in fetching
    /\ fetching' = fetching \ {n}
    /\ \/ status' = "invalid" /\ UNCHANGED <<hidden, shown, reading>> /\ Finally
       \/ Fail /\ UNCHANGED reading /\ Finally
       \/ /\ reading' = reading \cup {n}
          /\ UNCHANGED <<input, disabled, last, hidden, shown, status, copy>>

(* response.json() settles, with a payload or not, well-formed or not.     *)
Read(n) ==
    /\ n \in reading
    /\ reading' = reading \ {n}
    /\ \/ shown' = n /\ hidden' = FALSE /\ status' = "created"
       \/ Fail
    /\ Finally
    /\ UNCHANGED fetching

-----------------------------------------------------------------------------
(* The Copy button can be pressed while the result is visible.             *)
Press ==
    /\ ~hidden /\ pressed < MaxCopies
    /\ pressed' = pressed + 1 /\ copying' = copying \cup {pressed + 1}
    /\ UNCHANGED <<form, hidden, shown, status, copyLabel, timers>>

(* Seeded fault: only the first copy starts a timer.                       *)
CopySettledOneTimer(k) ==
    /\ k \in copying
    /\ copying' = copying \ {k}
    /\ \/ /\ copyLabel' = "Copied" /\ status' = "copied"
          /\ timers' = IF k = 1 THEN 1 ELSE timers
       \/ status' = "copyFailed" /\ UNCHANGED <<copyLabel, timers>>
    /\ UNCHANGED <<form, hidden, shown, pressed>>

(* writeText settles; presses may settle in any order.                     *)
CopySettled(k) ==
    /\ k \in copying
    /\ copying' = copying \ {k}
    /\ \/ copyLabel' = "Copied" /\ status' = "copied" /\ timers' = timers + 1
       \/ status' = "copyFailed" /\ UNCHANGED <<copyLabel, timers>>
    /\ UNCHANGED <<form, hidden, shown, pressed>>

(* 1600 milliseconds are over.                                             *)
Timeout ==
    /\ timers > 0
    /\ timers' = timers - 1
    /\ copyLabel' = "Copy"
    /\ UNCHANGED <<form, hidden, shown, status, pressed, copying>>

Settle == \E n \in 1 .. MaxSubmissions : Respond(n) \/ Read(n)

Next == \/ Edit \/ Submit \/ Settle
        \/ Press \/ (\E k \in 1 .. MaxCopies : CopySettled(k)) \/ Timeout

(* The server answers every request or closes its connection, and timers   *)
(* fire.  The user and the clipboard owe nothing.                          *)
Spec == Init /\ [][Next]_vars /\ WF_vars(Settle) /\ WF_vars(Timeout)

-----------------------------------------------------------------------------
(* However responses, edits and copies interleave, the short URL on the    *)
(* page is that of the last submission, never a late answer to an earlier  *)
(* one, and it is not there while a submission is under way.               *)
ShownIsTheLatest ==
    /\ ~hidden => shown = last /\ fetching \cup reading = {}
    /\ disabled <=> fetching \cup reading # {}

(* Every outcome of a submission permits a retry.                          *)
RetryIsPermitted == disabled ~> ~disabled

(* "Copied" is temporary, however often and however fast the button is     *)
(* pressed.                                                                *)
CopiedIsTemporary == copyLabel = "Copied" ~> copyLabel = "Copy"

(* docs/ACCEPTANCE.md:84, "Clipboard failure leaves the Short URL visible  *)
(* and selectable", and the page's own message, "The Short URL is still    *)
(* available to select": while the page says so, it is.                    *)
CopyFailureLeavesTheUrl == status = "copyFailed" => ~hidden
=============================================================================
