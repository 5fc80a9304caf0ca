----------------------------- MODULE UrlService -----------------------------
(***************************************************************************)
(* What the service promises to its clients (docs/ACCEPTANCE.md), whatever *)
(* happens to their connections and to its process: a request is served at *)
(* most once and at one moment, in which it is stored or looked up in a    *)
(* table that only grows; what the client is told is what was found or     *)
(* done then; a client may be left without a response.                     *)
(*                                                                         *)
(* Service.tla is shown to implement this module.                          *)
(***************************************************************************)
EXTENDS Integers, Sequences

CONSTANTS
    Client,   \* the clients, one request each
    MaxId,    \* bound: the largest id
    None      \* no reply

(* A request looks up an id, or is NewUrl and creates a short URL for the  *)
(* client's own URL; a URL is named by the client who submits it.          *)
NewUrl == 0
Ask == {NewUrl} \cup 1 .. MaxId
Created(id) == [status |-> "201", id |-> id]
Redirected(owner) == [status |-> "302", owner |-> owner]
Plain(status) == [status |-> status]

VARIABLES
    ask,      \* what each client asks for
    records,  \* whose URL has which id
    reply,    \* the reply each client's request has got, or None
    told,     \* the clients who were told their reply
    gone      \* the clients whose connections are closed

vars == <<ask, records, reply, told, gone>>

Init ==
    /\ ask \in [Client -> Ask]
    /\ records = <<>>
    /\ reply = [c \in Client |-> None]
    /\ told = {} /\ gone = {}

Decide(c, r) ==
    /\ reply[c] = None /\ c \notin gone
    /\ reply' = [reply EXCEPT ![c] = r]
    /\ UNCHANGED <<ask, told, gone>>

Create(c) ==
    /\ ask[c] = NewUrl /\ Len(records) < MaxId
    /\ records' = Append(records, c)
    /\ Decide(c, Created(Len(records) + 1))

LookUp(c) ==
    /\ ask[c] # NewUrl
    /\ Decide(c, IF ask[c] <= Len(records) THEN Redirected(records[ask[c]])
                                           ELSE Plain("404"))
    /\ UNCHANGED records

(* Malformed, late or unsupported requests and internal failures.          *)
Refuse(c) ==
    /\ \E status \in {"400", "500", "501"} : Decide(c, Plain(status))
    /\ UNCHANGED records

Tell(c) ==
    /\ reply[c] # None /\ c \notin gone
    /\ told' = told \cup {c}
    /\ UNCHANGED <<ask, records, reply, gone>>

Close ==
    /\ gone' \in SUBSET Client /\ gone \subseteq gone'
    /\ UNCHANGED <<ask, records, reply, told>>

Next == \/ \E c \in Client : Create(c) \/ LookUp(c) \/ Refuse(c) \/ Tell(c)
        \/ Close

Spec == Init /\ [][Next]_vars
=============================================================================
