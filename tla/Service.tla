------------------------------ MODULE Service -------------------------------
(***************************************************************************)
(* The whole program: main (src/src/main.c) around the server of           *)
(* Server.tla, which hands complete requests to router_handle, and the     *)
(* table in url_shortener.db, which outlives the process.  The process may *)
(* be killed at any moment and is then started again on the same file.     *)
(* The two operations are those of Shortener.tla, each in one step: the    *)
(* thread makes no other call in between, and the table survives a crash   *)
(* as Database.tla shows.                                                  *)
(***************************************************************************)
EXTENDS Server

CONSTANTS
    MaxId,      \* bound: the largest id (INT64_MAX)
    MaxCrashes  \* bound: how often the process is killed from outside

ASSUME ServiceAssumption == MaxId \in Nat \ {0} /\ MaxCrashes \in Nat

VARIABLES
    main,      \* where main is: "off", "open", "serve"
    exit,      \* the exit status of the last process
    database,  \* the database is open
    crashes,   \* how often the process was killed from outside
    ask,       \* what each client asks for
    records,   \* file: the clients whose URLs are stored, by id
    reply,     \* what router_handle answered to each client, or None
    lost       \* history: the clients whose process was killed

(* What was decided for each client, as far as it is decided.              *)
Decided ==
    [c \in Client |-> CASE answer[c] = "none" -> None
                        [] answer[c] = "routed" -> reply[c]
                        [] OTHER -> [status |-> answer[c]]]

Promise == INSTANCE UrlService WITH told <- sent, gone <- ended, reply <- Decided

Replies ==
    {Promise!Created(id) : id \in 1 .. MaxId}
    \cup {Promise!Redirected(c) : c \in Client}
    \cup {Promise!Plain(s) : s \in {"400", "404", "500", "501"}}

ASSUME NoReplyAssumption == None \notin Replies

(* What stands in for an exit status of a process without one.             *)
Running == -1
Killed == 2

process == <<main, exit, database, crashes>>
requests == <<ask, records, reply>>
everything == <<vars, process, requests, lost>>

Begin ==
    /\ Init
    /\ main = "open" /\ exit = Running /\ database = FALSE /\ crashes = 0
    /\ ask \in [Client -> Promise!Ask] /\ records = <<>>
    /\ reply = [c \in Client |-> None]
    /\ lost = {}

-----------------------------------------------------------------------------
(* database_open, which closes what it opened when it fails.               *)
OpenDatabase ==
    /\ main = "open" /\ Alive
    /\ \/ main' = "serve" /\ database' = TRUE /\ UNCHANGED exit
       \/ main' = "off" /\ exit' = 1 /\ UNCHANGED database
    /\ UNCHANGED <<vars, crashes, requests, lost>>

Answers(r) == reply' = [reply EXCEPT ![current] = r]

(* router_handle: shortener_create or shortener_resolve, or their failure. *)
(* Seeded fault: the record is stored although the answer is a failure.    *)
RouterHandleStoresAnyway ==
    \/ /\ ask[current] = Promise!NewUrl /\ Len(records) < MaxId
       /\ records' = Append(records, current)
       /\ \/ Answers(Promise!Created(Len(records) + 1))
          \/ Answers(Promise!Plain("500"))
    \/ /\ ask[current] # Promise!NewUrl
       /\ Answers(IF ask[current] \in DOMAIN records
                  THEN Promise!Redirected(records[ask[current]])
                  ELSE Promise!Plain("404"))
       /\ UNCHANGED records
    \/ /\ Answers(Promise!Plain("500"))
       /\ UNCHANGED records

RouterHandle ==
    \/ /\ ask[current] = Promise!NewUrl /\ Len(records) < MaxId
       /\ records' = Append(records, current)
       /\ Answers(Promise!Created(Len(records) + 1))
    \/ /\ ask[current] # Promise!NewUrl
       /\ Answers(IF ask[current] \in DOMAIN records
                  THEN Promise!Redirected(records[ask[current]])
                  ELSE Promise!Plain("404"))
       /\ UNCHANGED records
    \/ /\ Answers(Promise!Plain("500"))
       /\ UNCHANGED records

Routes == pc = "parse" /\ ~stop /\ Decision = "routed"

(* server_run and the handle_client in it.                                 *)
Serve ==
    /\ main = "serve"
    /\ Thread
    /\ IF Routes THEN RouterHandle ELSE UNCHANGED <<records, reply>>
    /\ UNCHANGED <<process, ask, lost>>

(* Seeded fault: main forgets what server_run returned.                    *)
CloseDatabaseAlwaysZero ==
    /\ main = "serve" /\ pc = "returned"
    /\ database' = FALSE
    /\ main' = "off" /\ exit' = 0
    /\ UNCHANGED <<vars, crashes, requests, lost>>

(* database_close and the end of main.                                     *)
CloseDatabase ==
    /\ main = "serve" /\ pc = "returned"
    /\ database' = FALSE
    /\ main' = "off" /\ exit' = result
    /\ UNCHANGED <<vars, crashes, requests, lost>>

-----------------------------------------------------------------------------
(* A signal between the return of server_run and the end of main.          *)
LateSignal ==
    /\ main = "serve" /\ pc = "returned"
    /\ signals < MaxSignals
    /\ signals' = signals + 1
    /\ \E s \in {"SIGINT", "SIGTERM"} :
          IF s \in installed THEN stop' = TRUE /\ UNCHANGED pc
                             ELSE pc' = "killed" /\ UNCHANGED stop
    /\ UNCHANGED <<interrupted, step, result, installed, listener, connection,
                   clients, history, process, requests, lost>>

Around ==
    \/ main # "off" /\ World /\ UNCHANGED <<process, requests, lost>>
    \/ LateSignal

(* The process is killed: the kernel closes what it had open.              *)
Die ==
    /\ main # "off"
    /\ \/ pc = "killed" /\ UNCHANGED crashes
       \/ Alive /\ crashes < MaxCrashes /\ crashes' = crashes + 1
    /\ main' = "off" /\ exit' = Killed /\ database' = FALSE
    /\ pc' = "killed" /\ listener' = FALSE /\ current' = None /\ backlog' = <<>>
    /\ LET Open == {c \in Client : peer[c] # "idle"} \ ended IN
          /\ ended' = ended \cup Open
          /\ lost' = lost \cup Open
    /\ UNCHANGED <<interrupted, step, result, stop, installed, received, elapsed,
                   unsent, stream, arrived, peer, signals, answer, sent, late,
                   broken, lateReads, faulty, requests>>

(* The program is started on the file there is.                            *)
Boot ==
    /\ main = "off"
    /\ main' = "open" /\ exit' = Running
    /\ pc' = "start" /\ step' = 1 /\ result' = 0 /\ stop' = FALSE
    /\ interrupted' = FALSE /\ installed' = {} /\ faulty' = FALSE
    /\ received' = 0 /\ elapsed' = 0 /\ unsent' = 0 /\ lateReads' = 0
    /\ UNCHANGED <<listener, current, clients, signals, answer, sent, ended,
                   late, broken, database, crashes, requests, lost>>

Step == OpenDatabase \/ Serve \/ CloseDatabase \/ Around \/ Die \/ Boot

ServiceSpec == Begin /\ [][Step]_everything

-----------------------------------------------------------------------------
(* The program implements the service (UrlService): across clients, broken *)
(* connections, signals, crashes and restarts every request is served at   *)
(* most once, at one moment, and no reply is given that is not then true.  *)
Implements == Promise!Spec

(* Nothing is stored behind a client's back: when a connection ends, its   *)
(* client was told the code of its record, or its connection had failed or *)
(* its process was killed, and a client may know that a retry may store a  *)
(* second record.                                                          *)
NothingStoredInSilence ==
    \A id \in DOMAIN records :
        LET c == records[id] IN
        /\ ask[c] = Promise!NewUrl /\ reply[c] = Promise!Created(id)
        /\ c \in ended => c \in sent \cup broken \cup lost

(* A process that ends by itself has closed its listener and its database  *)
(* and has hung up on everybody, and status 0 tells the requested stop of  *)
(* a service that worked from every failure.                               *)
ExitTellsTheTruth ==
    main = "off" =>
        /\ ~listener /\ ~database
        /\ \A c \in Client : peer[c] # "idle" => c \in ended
        /\ exit = 0 <=> pc = "returned" /\ stop /\ ~faulty
        /\ exit = 0 => \A c \in Client :
                          answer[c] = "none" \/ c \in sent \cup broken \cup lost

(* A signal never cuts off the service: when it kills the process, the     *)
(* process was not yet listening or had closed its listener and hung up on *)
(* everybody.  After a stop request that may still be before the database  *)
(* is closed (server.c:365, main.c:24).                                    *)
SignalsNeverCutTheService ==
    pc = "killed" /\ main # "off" =>
        /\ ~listener /\ current = None
        /\ \A c \in Client : peer[c] # "idle" => c \in ended
=============================================================================
