------------------------------ MODULE Database ------------------------------
(***************************************************************************)
(* The repository of the shortener (src/src/database.c), one action per    *)
(* call it makes to SQLite, any of which may fail, and the process around  *)
(* it, which may die between any two of them and is then started again on  *)
(* the same file.  The file (rows, sequence, schema) is what survives.     *)
(* SQLite itself is modelled from how database.c uses it.                  *)
(***************************************************************************)
EXTENDS Integers

CONSTANTS Url, MaxId, Length, Capacity, None

VARIABLES
    schema,       \* file: the table exists
    rows,         \* file: the rows of the table
    sequence,     \* file: the AUTOINCREMENT counter of the table
    connection,   \* the process has a SQLite connection
    lastRowid,    \* sqlite3_last_insert_rowid of that connection
    live,         \* how many statements are prepared and not finalized
    handles,      \* how many database_t are allocated
    pc,           \* where the process is in this component
    sqliteStatus, \* the local sqlite_status
    request,      \* the insert or find under way or answered last
    reply,        \* its answer
    promised,     \* history: the ids inserts were answered with, and the URLs
    orphans       \* history: the ids stored by calls that were never answered

vars == <<schema, rows, sequence, connection, lastRowid, live, handles, pc,
          sqliteStatus, request, reply, promised, orphans>>

file == <<schema, rows, sequence>>
memory == <<connection, lastRowid, handles>>
history == <<promised, orphans>>

(* The id the step of the call under way has stored, while it is not yet   *)
(* answered.                                                               *)
stored ==
    IF pc = "check" /\ request.op = "insert" /\ sqliteStatus = "DONE"
    THEN sequence ELSE 0

Records == INSTANCE UrlRecords WITH records <- rows

Id == 1 .. MaxId

ASSUME DatabaseAssumption ==
    /\ Url # {}
    /\ MaxId \in Nat \ {0}
    /\ Length \in [Url -> Nat]
    /\ Capacity \subseteq Nat
    /\ None \notin Records!Request \cup Records!Reply

-----------------------------------------------------------------------------
(* SQLite.  A table that is created AUTOINCREMENT gives an id above every  *)
(* id it ever gave and fails with SQLITE_FULL once it gave the largest.    *)
HasId == sequence < MaxId
NewId == sequence + 1

(* sqlite3_close refuses to close a connection with live statements.       *)
AfterClose(n) == IF n = 0 THEN FALSE ELSE connection

(* sqlite3_finalize repeats the failure of the last sqlite3_step, and is   *)
(* happy with a statement that was never stepped.                          *)
FinalizeStatus(last) == IF last = "ERROR" THEN "ERROR" ELSE "OK"

-----------------------------------------------------------------------------
NoRecords == [i \in {} |-> CHOOSE u \in Url : TRUE]

Init ==
    /\ schema = FALSE
    /\ rows = NoRecords
    /\ sequence = 0
    /\ connection = FALSE
    /\ lastRowid = 0
    /\ live = 0
    /\ handles = 0
    /\ pc = "off"
    /\ sqliteStatus = "OK"
    /\ request = None
    /\ reply = None
    /\ promised = NoRecords
    /\ orphans = {}

idle == UNCHANGED <<live, request, reply, history>>

(* database_open: malloc may fail.                                         *)
Open ==
    /\ pc = "off"
    /\ \/ /\ handles' = handles + 1
          /\ pc' = "openConnection"
       \/ UNCHANGED <<handles, pc>>
    /\ sqliteStatus' = "OK"
    /\ idle
    /\ UNCHANGED <<file, connection, lastRowid>>

(* sqlite3_open_v2 may fail with a connection that must be closed or with  *)
(* none at all.                                                            *)
OpenConnection ==
    /\ pc = "openConnection"
    /\ \/ /\ connection' = TRUE
          /\ lastRowid' = 0
          /\ sqliteStatus' = "OK"
          /\ pc' = "createSchema"
       \/ /\ connection' \in BOOLEAN
          /\ sqliteStatus' = "ERROR"
          /\ pc' = "undoOpen"
          /\ UNCHANGED lastRowid
    /\ idle
    /\ UNCHANGED <<file, handles>>

CreateSchema ==
    /\ pc = "createSchema"
    /\ \/ /\ schema' = TRUE
          /\ sqliteStatus' = "OK"
          /\ pc' = "ready"
       \/ /\ sqliteStatus' = "ERROR"
          /\ pc' = "undoOpen"
          /\ UNCHANGED schema
    /\ idle
    /\ UNCHANGED <<rows, sequence, memory>>

(* Seeded fault: the error path frees nothing.                             *)
UndoOpenNoFree ==
    /\ pc = "undoOpen"
    /\ connection' = AfterClose(live)
    /\ pc' = "off"
    /\ idle
    /\ UNCHANGED <<file, lastRowid, handles, sqliteStatus>>

(* Both error paths of database_open: close what was opened, free, fail.   *)
UndoOpen ==
    /\ pc = "undoOpen"
    /\ connection' = AfterClose(live)
    /\ handles' = handles - 1
    /\ pc' = "off"
    /\ idle
    /\ UNCHANGED <<file, lastRowid, sqliteStatus>>

(* database_close, the last call of the process (src/src/main.c:24).       *)
Close ==
    /\ pc = "ready"
    /\ connection' = AfterClose(live)
    /\ handles' = handles - 1
    /\ pc' = "off"
    /\ request' = None
    /\ reply' = None
    /\ UNCHANGED <<file, lastRowid, live, sqliteStatus, history>>

-----------------------------------------------------------------------------
Answer(r) ==
    /\ reply' = r
    /\ pc' = "ready"
    /\ UNCHANGED <<file, memory, request, orphans>>

(* Entering database_insert_url or database_find_url.                      *)
Invoke ==
    /\ pc = "ready"
    /\ request' \in Records!Request
    /\ reply' = None
    /\ pc' = "arguments"
    /\ sqliteStatus' = "OK"
    /\ UNCHANGED <<file, memory, live, history>>

BadArguments ==
    request.op = "find" /\ (request.id <= 0 \/ request.capacity = 0)

Prepare ==
    /\ pc = "arguments"
    /\ \/ /\ BadArguments
          /\ Answer(Records!Failed("INVALID_ARGUMENT"))
          /\ UNCHANGED <<live, sqliteStatus, promised>>
       \/ /\ ~BadArguments
          /\ sqliteStatus' = "ERROR"
          /\ Answer(Records!Failed("INTERNAL_ERROR"))
          /\ UNCHANGED <<live, promised>>
       \/ /\ ~BadArguments
          /\ sqliteStatus' = "OK"
          /\ live' = live + 1
          /\ pc' = "bind"
          /\ UNCHANGED <<file, memory, request, reply, history>>

(* An insert binds two values and steps only if both are bound; the test   *)
(* for SQLITE_DONE that follows catches all three failures.                *)
Bind ==
    /\ pc = "bind"
    /\ \/ sqliteStatus' = "OK" /\ pc' = "step"
       \/ sqliteStatus' = "NOMEM" /\ pc' = "check"
    /\ UNCHANGED <<file, memory, live, request, reply, history>>

InsertStep ==
    /\ pc = "step"
    /\ request.op = "insert"
    /\ \/ /\ HasId
          /\ rows' = Records!Added(rows, NewId, request.url)
          /\ sequence' = NewId
          /\ lastRowid' = NewId
          /\ sqliteStatus' = "DONE"
       \/ /\ sqliteStatus' = "ERROR"
          /\ UNCHANGED <<rows, sequence, lastRowid>>
    /\ pc' = "check"
    /\ UNCHANGED <<schema, connection, live, handles, request, reply, history>>

FindStep ==
    /\ pc = "step"
    /\ request.op = "find"
    /\ sqliteStatus' \in
          {"ERROR", IF request.id \in DOMAIN rows THEN "ROW" ELSE "DONE"}
    /\ pc' = "check"
    /\ UNCHANGED <<file, memory, live, request, reply, history>>

(* Every path out of the two functions finalizes the statement.            *)
Finalize ==
    /\ live' = live - 1
    /\ UNCHANGED sqliteStatus

(* Seeded fault: only the failure of sqlite3_step is looked at.            *)
StepFailed == sqliteStatus = "ERROR"

InsertFailed == sqliteStatus # "DONE"

(* Seeded fault: the early return forgets the statement.                   *)
InsertRejectNoFinalize ==
    /\ pc = "check"
    /\ request.op = "insert"
    /\ InsertFailed
    /\ Answer(Records!Failed("INTERNAL_ERROR"))
    /\ UNCHANGED <<live, sqliteStatus, promised>>

InsertReject ==
    /\ pc = "check"
    /\ request.op = "insert"
    /\ InsertFailed
    /\ Finalize
    /\ Answer(Records!Failed("INTERNAL_ERROR"))
    /\ UNCHANGED promised

(* Seeded fault: the first id is taken for a failure.                      *)
NoRowidBelowTwo == lastRowid <= 1

NoRowid == lastRowid <= 0

InsertAccept ==
    /\ pc = "check"
    /\ request.op = "insert"
    /\ ~InsertFailed
    /\ Finalize
    /\ IF FinalizeStatus(sqliteStatus) # "OK" \/ NoRowid
       THEN /\ Answer(Records!Failed("INTERNAL_ERROR"))
            /\ UNCHANGED promised
       ELSE /\ Answer(Records!Stored(lastRowid))
            /\ promised' = Records!Added(promised, lastRowid, request.url)

(* Seeded fault: whatever is not a row is a missing record.                *)
FindRejectAsMissing ==
    /\ pc = "check"
    /\ request.op = "find"
    /\ sqliteStatus # "ROW"
    /\ Finalize
    /\ Answer(Records!Failed("NOT_FOUND"))
    /\ UNCHANGED promised

FindReject ==
    /\ pc = "check"
    /\ request.op = "find"
    /\ sqliteStatus # "ROW"
    /\ Finalize
    /\ Answer(Records!Failed(IF sqliteStatus = "DONE" THEN "NOT_FOUND"
                                                      ELSE "INTERNAL_ERROR"))
    /\ UNCHANGED promised

(* sqlite3_column_text may run out of memory and return NULL.              *)
FindAccept ==
    /\ pc = "check"
    /\ request.op = "find"
    /\ sqliteStatus = "ROW"
    /\ Finalize
    /\ \/ Answer(Records!Failed("INTERNAL_ERROR"))
       \/ LET url == rows[request.id] IN
          IF Length[url] >= request.capacity
          THEN Answer(Records!Failed("BUFFER_TOO_SMALL"))
          ELSE Answer(IF FinalizeStatus(sqliteStatus) # "OK"
                      THEN Records!Failed("INTERNAL_ERROR")
                      ELSE Records!Found(url))
    /\ UNCHANGED promised

(* The process dies.  The kernel takes back everything but the file.       *)
Crash ==
    /\ pc # "off"
    /\ connection' = FALSE
    /\ lastRowid' = 0
    /\ live' = 0
    /\ handles' = 0
    /\ pc' = "off"
    /\ request' = None
    /\ reply' = None
    /\ orphans' = orphans \cup ({stored} \ {0})
    /\ UNCHANGED <<file, sqliteStatus, promised>>

Next == \/ Open \/ OpenConnection \/ CreateSchema \/ UndoOpen \/ Close
        \/ Invoke \/ Prepare \/ Bind \/ InsertStep \/ FindStep
        \/ InsertReject \/ InsertAccept \/ FindReject \/ FindAccept
        \/ Crash

Spec == Init /\ [][Next]_vars

-----------------------------------------------------------------------------
TypeOK ==
    /\ schema \in BOOLEAN
    /\ sequence \in 0 .. MaxId
    /\ rows \in [1 .. sequence -> Url]
    /\ connection \in BOOLEAN
    /\ lastRowid \in 0 .. MaxId
    /\ live \in 0 .. 1
    /\ handles \in 0 .. 1
    /\ pc \in {"off", "openConnection", "createSchema", "undoOpen", "ready",
               "arguments", "bind", "step", "check"}
    /\ sqliteStatus \in {"OK", "NOMEM", "ERROR", "ROW", "DONE"}
    /\ request \in Records!Request \cup {None}
    /\ reply \in Records!Reply \cup {None}
    /\ DOMAIN promised \subseteq Id
    /\ orphans \subseteq Id

(* A statement lives exactly as long as the call that prepared it, on      *)
(* every one of the early returns; so sqlite3_close, whose result          *)
(* database_close ignores, is never refused, and once the repository is    *)
(* closed, or was never opened, the connection and the handle are gone.    *)
NothingLeaks ==
    /\ live = (IF pc \in {"bind", "step", "check"} THEN 1 ELSE 0)
    /\ pc = "off" => ~connection /\ handles = 0
    /\ pc \in {"ready", "arguments", "bind", "step", "check"} =>
          connection /\ handles = 1 /\ schema

(* What a caller was told is stored for good: whichever calls fail after   *)
(* it and however often the process dies, the id it was given names its    *)
(* own URL, and not what sqlite3_last_insert_rowid held from before.       *)
PromisesAreKept ==
    \A id \in DOMAIN promised : id \in DOMAIN rows /\ rows[id] = promised[id]

(* Every record is one that exactly one insert was answered with, or one   *)
(* whose insert died between SQLite's commit and the answer, or that of    *)
(* the call still to be answered: an insert that fails stores nothing, so  *)
(* that a caller who is told so may try again without a duplicate.         *)
RecordsAreAccountedFor ==
    /\ DOMAIN rows = DOMAIN promised \cup orphans \cup ({stored} \ {0})
    /\ DOMAIN promised \cap orphans = {}
    /\ stored \notin DOMAIN promised \cup orphans

(* The calls to SQLite add up to what UrlRecords promises.                 *)
ImplementsUrlRecords == Records!Spec
=============================================================================
