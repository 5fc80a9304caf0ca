--------------------------- MODULE DatabaseProofs ---------------------------
(***************************************************************************)
(* For every set of URLs, every largest id and all capacities: database.c  *)
(* leaks nothing, keeps its promises across every failure and crash, and   *)
(* implements UrlRecords.                                                  *)
(***************************************************************************)
EXTENDS Database, TLAPS

InCall == {"arguments", "bind", "step", "check"}

(* What is known of the call under way where.                              *)
CallInv ==
    /\ pc \in InCall => request \in Records!Request /\ reply = None
    /\ pc \in {"bind", "step", "check"} => ~BadArguments
    /\ pc = "ready" => request = None \/ reply # None
    /\ pc \notin InCall \cup {"ready"} => request = None /\ reply = None
    /\ pc = "check" /\ request.op = "insert" =>
          sqliteStatus \in {"NOMEM", "ERROR", "DONE"}
    /\ pc = "check" /\ request.op = "insert" /\ sqliteStatus = "DONE" =>
          /\ lastRowid = sequence /\ sequence > 0
          /\ rows[sequence] = request.url
    /\ pc = "check" /\ request.op = "find" =>
          /\ sqliteStatus = "ROW" => request.id \in DOMAIN rows
          /\ sqliteStatus = "DONE" => request.id \notin DOMAIN rows

(* What the process holds where.                                           *)
ResourceInv ==
    /\ NothingLeaks
    /\ pc \in {"openConnection", "createSchema", "undoOpen"} => handles = 1
    /\ pc = "createSchema" => connection

Inv ==
    /\ TypeOK
    /\ ResourceInv
    /\ CallInv
    /\ PromisesAreKept
    /\ RecordsAreAccountedFor

-----------------------------------------------------------------------------
(* None is neither a request nor a reply.                                  *)
LEMMA NotNone ==
    ASSUME NEW r, r \in Records!Request \cup Records!Reply
    PROVE  r # None
    BY DatabaseAssumption

(* What there is to know of a request, by its operation.                   *)
LEMMA RequestOps ==
    ASSUME NEW r \in Records!Request
    PROVE  /\ r.op \in {"insert", "find"}
           /\ r.op = "insert" => r.url \in Url
           /\ r.op = "find" => r.id \in 0 .. MaxId /\ r.capacity \in Capacity
    BY DEF Records!Request, Records!InsertRequest, Records!FindRequest

(* An empty file has no ids.                                               *)
LEMMA NoRecordsIsEmpty == NoRecords \in [1 .. 0 -> Url] /\ DOMAIN NoRecords = {}
    <1>1. 1 .. 0 = {}
        OBVIOUS
    <1> QED BY <1>1 DEF NoRecords

(* A failure is a reply.                                                   *)
LEMMA FailedIsReply ==
    ASSUME NEW s \in Records!Failures
    PROVE  Records!Failed(s) \in Records!Reply /\ Records!Failed(s) # None
    <1>1. Records!Failed(s) \in Records!Reply
        BY DEF Records!Failed, Records!Reply
    <1> QED BY <1>1, NotNone

(* The answer to an insertion is a reply.                                  *)
LEMMA StoredIsReply ==
    ASSUME NEW id \in Id
    PROVE  Records!Stored(id) \in Records!Reply /\ Records!Stored(id) # None
    <1>1. Records!Stored(id) \in Records!Reply
        BY DEF Records!Stored, Records!Reply, Id, Records!Id
    <1> QED BY <1>1, NotNone

(* The answer to a search is a reply.                                      *)
LEMMA FoundIsReply ==
    ASSUME NEW url \in Url
    PROVE  Records!Found(url) \in Records!Reply /\ Records!Found(url) # None
    <1>1. Records!Found(url) \in Records!Reply
        BY DEF Records!Found, Records!Reply
    <1> QED BY <1>1, NotNone

(* The inductive invariant holds initially.                                *)
LEMMA InitInv == Init => Inv
    <1> SUFFICES ASSUME Init PROVE Inv
        OBVIOUS
    <1> USE DEF Init
    <1>1. TypeOK
        <2>1. rows \in [1 .. sequence -> Url] /\ DOMAIN promised = {}
            BY NoRecordsIsEmpty
        <2>2. sequence \in 0 .. MaxId /\ lastRowid \in 0 .. MaxId
            BY DatabaseAssumption
        <2> HIDE DEF Init
        <2>3. /\ schema = FALSE /\ connection = FALSE /\ live = 0 /\ handles = 0
              /\ pc = "off" /\ sqliteStatus = "OK" /\ request = None
              /\ reply = None /\ orphans = {}
            BY DEF Init
        <2>4. DOMAIN promised \subseteq Id /\ orphans \subseteq Id
            BY <2>1, <2>3
        <2>5. /\ schema \in BOOLEAN /\ connection \in BOOLEAN
              /\ live \in 0 .. 1 /\ handles \in 0 .. 1
            <3>1. schema \in BOOLEAN /\ connection \in BOOLEAN
                BY <2>3, Zenon
            <3>2. live \in 0 .. 1 /\ handles \in 0 .. 1
                BY DEF Init
            <3> QED BY <3>1, <3>2
        <2>6. /\ request \in Records!Request \cup {None}
              /\ reply \in Records!Reply \cup {None}
            BY <2>3
        <2> QED BY ONLY <2>1, <2>2, <2>3, <2>4, <2>5, <2>6 DEF TypeOK
    <1>2. ResourceInv
        BY DEF ResourceInv, NothingLeaks
    <1>3. CallInv
        BY DEF CallInv, InCall
    <1>4. PromisesAreKept
        BY NoRecordsIsEmpty DEF PromisesAreKept
    <1>5. RecordsAreAccountedFor
        BY NoRecordsIsEmpty DEF RecordsAreAccountedFor, stored
    <1> QED BY <1>1, <1>2, <1>3, <1>4, <1>5 DEF Inv

(* The steps that touch neither the file nor the history, nor end or begin *)
(* the time in which a record is stored and not yet answered, keep the     *)
(* properties of the records.                                              *)
LEMMA RecordsUntouched ==
    ASSUME RecordsAreAccountedFor, PromisesAreKept,
           UNCHANGED <<rows, promised, orphans>>, stored' = stored
    PROVE  RecordsAreAccountedFor' /\ PromisesAreKept'
    BY DEF RecordsAreAccountedFor, PromisesAreKept

(* The steps of opening and closing keep the invariant.                    *)
LEMMA LifecycleStep ==
    ASSUME Inv, Open \/ OpenConnection \/ CreateSchema \/ UndoOpen \/ Close
    PROVE  Inv' /\ stored' = stored
    <1> USE DEF Inv
    <1>1. /\ UNCHANGED <<rows, sequence, promised, orphans>>
          /\ live' = live /\ live = 0
          /\ pc \notin InCall /\ pc' \notin InCall
        BY DEF Open, OpenConnection, CreateSchema, UndoOpen, Close, idle, file,
            memory, history, InCall, ResourceInv, NothingLeaks
    <1>2. stored' = 0 /\ stored = 0
        BY <1>1 DEF stored, InCall
    <1>3. RecordsAreAccountedFor' /\ PromisesAreKept'
        BY <1>1, <1>2, RecordsUntouched
    <1>4. /\ \/ UNCHANGED <<request, reply>>
             \/ request' = None /\ reply' = None
          /\ lastRowid' \in {lastRowid, 0}
          /\ sqliteStatus' \in {sqliteStatus, "OK", "ERROR"}
        <2>1. CASE Open
            BY <2>1 DEF Open, idle
        <2>2. CASE OpenConnection
            BY <2>2 DEF OpenConnection, idle
        <2>3. CASE CreateSchema
            BY <2>3 DEF CreateSchema, idle, memory
        <2>4. CASE UndoOpen
            BY <2>4 DEF UndoOpen, idle
        <2>5. CASE Close
            BY <2>5 DEF Close
        <2> QED BY <2>1, <2>2, <2>3, <2>4, <2>5
    <1>5. ResourceInv' /\ handles' \in 0 .. 1
        <2> USE DEF ResourceInv, NothingLeaks, TypeOK, idle
        <2>1. CASE Open
            BY <2>1, <1>1 DEF Open
        <2>2. CASE OpenConnection
            BY <2>2, <1>1 DEF OpenConnection
        <2>3. CASE CreateSchema
            BY <2>3, <1>1 DEF CreateSchema, memory
        <2>4. CASE UndoOpen
            BY <2>4, <1>1 DEF UndoOpen, AfterClose
        <2>5. CASE Close
            BY <2>5, <1>1 DEF Close, AfterClose, file
        <2> QED BY <2>1, <2>2, <2>3, <2>4, <2>5
    <1>6. TypeOK'
        <2>1. 0 \in 0 .. MaxId
            BY DatabaseAssumption
        <2>2. schema' \in BOOLEAN /\ connection' \in BOOLEAN
            BY DEF TypeOK, Open, OpenConnection, CreateSchema,
                UndoOpen, Close, idle, file, memory, AfterClose
        <2>3. pc' \in {"off", "openConnection", "createSchema", "undoOpen",
                       "ready"}
            BY DEF TypeOK, Open, OpenConnection, CreateSchema, UndoOpen, Close
        <2> QED BY <1>1, <1>4, <1>5, <2>1, <2>2, <2>3 DEF TypeOK
    <1>7. CallInv'
        <2>1. pc' = "ready" => request' = None \/ reply' # None
            BY <1>1, <1>4 DEF CallInv, InCall, Open, OpenConnection,
                CreateSchema, UndoOpen, Close
        <2>2. pc' # "ready" => request' = None /\ reply' = None
            BY <1>1, <1>4 DEF CallInv, InCall, Open, OpenConnection,
                CreateSchema, UndoOpen, Close, idle
        <2> QED BY <1>1, <2>1, <2>2 DEF CallInv, InCall
    <1> QED BY <1>2, <1>3, <1>5, <1>6, <1>7

(* The steps of a call that store nothing, and answer nothing but failures *)
(* and URLs that were found.                                               *)
Quiet == \/ Invoke \/ Prepare \/ Bind \/ FindStep
         \/ InsertReject \/ FindReject \/ FindAccept

(* What the steps that touch neither file nor handle leave alone.          *)
LEMMA QuietFrame ==
    ASSUME Inv, Quiet
    PROVE  /\ UNCHANGED <<file, memory, history>>
           /\ stored' = 0 /\ stored = 0
    <1> USE DEF Inv, CallInv, InCall, stored, file, memory, history, Answer
    <1>1. CASE Invoke
        BY <1>1 DEF Invoke
    <1>2. CASE Prepare
        BY <1>2 DEF Prepare
    <1>3. CASE Bind
        BY <1>3 DEF Bind
    <1>4. CASE FindStep
        BY <1>4, RequestOps DEF FindStep
    <1>5. CASE InsertReject
        BY <1>5 DEF InsertReject, InsertFailed, Finalize
    <1>6. CASE FindReject
        BY <1>6 DEF FindReject, Finalize
    <1>7. CASE FindAccept
        BY <1>7 DEF FindAccept, Finalize
    <1> QED BY <1>1, <1>2, <1>3, <1>4, <1>5, <1>6, <1>7 DEF Quiet

(* These steps keep the types.                                             *)
LEMMA QuietType ==
    ASSUME Inv, Quiet
    PROVE  /\ live' \in 0 .. 1
           /\ pc' \in {"ready", "arguments", "bind", "step", "check"}
           /\ sqliteStatus' \in {"OK", "NOMEM", "ERROR", "ROW", "DONE"}
           /\ request' \in Records!Request
           /\ reply' \in Records!Reply \cup {None}
           /\ pc' = "ready" <=> reply' # None
    <1> USE DEF Inv
    <1>1. CASE Invoke
        BY <1>1 DEF Invoke, TypeOK
    <1>2. CASE Prepare
        <2>1. \A s \in Records!Failures : /\ Records!Failed(s) \in Records!Reply
                                          /\ Records!Failed(s) # None
            BY FailedIsReply
        <2> QED BY <1>2, <2>1 DEF Prepare, TypeOK, ResourceInv, NothingLeaks,
                CallInv, InCall, Answer, Records!Failures
    <1>3. CASE Bind
        BY <1>3 DEF Bind, TypeOK, CallInv, InCall
    <1>4. CASE FindStep
        BY <1>4 DEF FindStep, TypeOK, CallInv, InCall
    <1>5. CASE InsertReject
        <2>1. \A s \in Records!Failures : /\ Records!Failed(s) \in Records!Reply
                                          /\ Records!Failed(s) # None
            BY FailedIsReply
        <2> QED BY <1>5, <2>1 DEF InsertReject, Finalize, TypeOK, ResourceInv,
                NothingLeaks, CallInv, InCall, Answer, Records!Failures
    <1>6. CASE FindReject
        <2>1. \A s \in Records!Failures : /\ Records!Failed(s) \in Records!Reply
                                          /\ Records!Failed(s) # None
            BY FailedIsReply
        <2> QED BY <1>6, <2>1 DEF FindReject, Finalize, TypeOK, ResourceInv,
                NothingLeaks, CallInv, InCall, Answer, Records!Failures
    <1>7. CASE FindAccept
        <2>1. \A s \in Records!Failures : /\ Records!Failed(s) \in Records!Reply
                                          /\ Records!Failed(s) # None
            BY FailedIsReply
        <2>2. rows[request.id] \in Url
            BY <1>7 DEF FindAccept, TypeOK, CallInv, InCall
        <2>3. /\ Records!Found(rows[request.id]) \in Records!Reply
              /\ Records!Found(rows[request.id]) # None
            BY <2>2, FoundIsReply
        <2> QED BY <1>7, <2>1, <2>3 DEF FindAccept, Finalize, TypeOK,
                ResourceInv, NothingLeaks, CallInv, InCall, Answer,
                Records!Failures
    <1> QED BY <1>1, <1>2, <1>3, <1>4, <1>5, <1>6, <1>7 DEF Quiet

(* These steps keep the whole invariant.                                   *)
LEMMA QuietStep ==
    ASSUME Inv, Quiet
    PROVE  Inv'
    <1> USE DEF Inv
    <1>1. TypeOK'
        BY QuietFrame, QuietType DEF TypeOK, file, memory, history
    <1>2. ResourceInv'
        <2>1. connection /\ handles = 1 /\ schema
            BY DEF ResourceInv, NothingLeaks, Quiet, Invoke, Prepare, Bind,
                FindStep, InsertReject, FindReject, FindAccept
        <2>2. live' = IF pc' \in {"bind", "step", "check"} THEN 1 ELSE 0
            BY DEF ResourceInv, NothingLeaks, Quiet, Invoke, Prepare, Bind,
                FindStep, InsertReject, FindReject, FindAccept, Finalize, Answer
        <2> QED BY <2>1, <2>2, QuietFrame, QuietType
                DEF ResourceInv, NothingLeaks, file, memory
    <1>3. CallInv'
        <2>1. pc' \in {"bind", "step", "check"} => ~BadArguments'
            BY DEF Quiet, Invoke, Prepare, Bind, FindStep, InsertReject,
                FindReject, FindAccept, Answer, BadArguments, CallInv, InCall
        <2>2. pc' = "check" =>
                 \/ Bind /\ sqliteStatus' = "NOMEM"
                 \/ FindStep
            BY DEF Quiet, Invoke, Prepare, Bind, FindStep, InsertReject,
                FindReject, FindAccept, Answer
        <2>3. FindStep => 
                /\ request'.op = "find"
                /\ sqliteStatus' = "ROW" => request'.id \in DOMAIN rows'
                /\ sqliteStatus' = "DONE" => request'.id \notin DOMAIN rows'
            BY DEF FindStep, file
        <2> QED BY <2>1, <2>2, <2>3, QuietType DEF CallInv, InCall
    <1>4. RecordsAreAccountedFor' /\ PromisesAreKept'
        BY QuietFrame, RecordsUntouched DEF file, history
    <1> QED BY <1>1, <1>2, <1>3, <1>4

(* A file with one more record.                                            *)
LEMMA RowAdded ==
    ASSUME NEW n \in Nat, NEW map \in [1 .. n -> Url], NEW url \in Url
    PROVE  /\ Records!Added(map, n + 1, url) \in [1 .. (n + 1) -> Url]
           /\ Records!Added(map, n + 1, url)[n + 1] = url
           /\ \A i \in 1 .. n : Records!Added(map, n + 1, url)[i] = map[i]
    <1>1. DOMAIN map \cup {n + 1} = 1 .. (n + 1)
        OBVIOUS
    <1> QED BY <1>1 DEF Records!Added

(* The step that commits keeps the invariant: the new record is the last   *)
(* one and the call owns it.                                               *)
LEMMA InsertStepStep ==
    ASSUME Inv, InsertStep
    PROVE  Inv'
    <1> USE DEF Inv
    <1>1. /\ pc = "step" /\ pc' = "check" /\ request' = request /\ reply' = reply
          /\ UNCHANGED <<schema, connection, live, handles, promised, orphans>>
          /\ request \in Records!Request /\ reply = None
          /\ request.op = "insert" /\ request.url \in Url
        BY RequestOps DEF InsertStep, history, CallInv, InCall
    <1>2. sequence \in Nat /\ MaxId \in Nat /\ rows \in [1 .. sequence -> Url]
        BY DatabaseAssumption DEF TypeOK
    <1>3. stored = 0
        BY <1>1 DEF stored
    <1>4. ResourceInv'
        BY <1>1 DEF ResourceInv, NothingLeaks
    <1>5. CASE sqliteStatus' = "ERROR" /\ UNCHANGED <<rows, sequence, lastRowid>>
        <2>1. stored' = stored
            BY <1>5, <1>3 DEF stored
        <2>2. RecordsAreAccountedFor' /\ PromisesAreKept'
            BY <2>1, <1>1, <1>5, RecordsUntouched
        <2>3. TypeOK'
            BY <1>1, <1>5 DEF TypeOK
        <2>4. CallInv'
            BY <1>1, <1>5 DEF CallInv, InCall, BadArguments
        <2> QED BY <1>4, <2>2, <2>3, <2>4
    <1>6. CASE /\ HasId
               /\ rows' = Records!Added(rows, NewId, request.url)
               /\ sequence' = NewId
               /\ lastRowid' = NewId
               /\ sqliteStatus' = "DONE"
        <2>1. NewId \in 1 .. MaxId /\ NewId = sequence + 1
            BY <1>2, <1>6 DEF HasId, NewId
        <2>2. /\ rows' \in [1 .. sequence' -> Url]
              /\ rows'[NewId] = request.url
              /\ \A i \in 1 .. sequence : rows'[i] = rows[i]
            BY <1>1, <1>2, <1>6, <2>1, RowAdded
        <2>3. /\ DOMAIN rows = 1 .. sequence
              /\ DOMAIN rows' = DOMAIN rows \cup {NewId}
              /\ NewId \notin DOMAIN rows
            <3>1. DOMAIN rows = 1 .. sequence /\ DOMAIN rows' = 1 .. sequence'
                BY <1>2, <2>2
            <3>2. sequence' = sequence + 1
                BY <1>6, <2>1
            <3>3. 1 .. (sequence + 1) = 1 .. sequence \cup {sequence + 1}
                BY <1>2
            <3> QED BY <3>1, <3>2, <3>3, <2>1, <1>2
        <2>4. stored' = NewId /\ NewId # 0
            BY <1>1, <1>6, <2>1 DEF stored
        <2>5. TypeOK'
            BY <1>1, <1>6, <2>1, <2>2 DEF TypeOK
        <2>6. CallInv'
            BY <1>1, <1>6, <2>1, <2>2 DEF CallInv, InCall, BadArguments
        <2>7. PromisesAreKept'
            BY <1>1, <2>2, <2>3 DEF PromisesAreKept
        <2>8. RecordsAreAccountedFor'
            BY <1>1, <1>3, <2>3, <2>4 DEF RecordsAreAccountedFor
        <2> QED BY <1>4, <2>5, <2>6, <2>7, <2>8
    <1> QED BY <1>5, <1>6 DEF InsertStep

(* Answering an insertion hands its record to the caller.                  *)
LEMMA InsertAcceptStep ==
    ASSUME Inv, InsertAccept
    PROVE  /\ Inv'
           /\ stored = lastRowid /\ stored' = 0 /\ lastRowid \in Id
           /\ reply' = Records!Stored(lastRowid)
    <1> USE DEF Inv
    <1>1. /\ pc = "check" /\ pc' = "ready" /\ request' = request
          /\ UNCHANGED <<file, memory, sqliteStatus, orphans>>
          /\ request \in Records!Request /\ request.op = "insert"
          /\ sqliteStatus = "DONE"
          /\ live' = live - 1
        BY DEF InsertAccept, InsertFailed, Finalize, Answer, CallInv, InCall
    <1>2. /\ lastRowid = sequence /\ sequence > 0 /\ rows[sequence] = request.url
          /\ sequence \in Id /\ stored = sequence /\ sequence \in DOMAIN rows
        BY <1>1, DatabaseAssumption DEF CallInv, TypeOK, Id, stored
    <1>3. /\ reply' = Records!Stored(lastRowid)
          /\ promised' = Records!Added(promised, lastRowid, request.url)
        BY <1>1, <1>2 DEF InsertAccept, NoRowid, FinalizeStatus, Answer, Id
    <1>4. reply' \in Records!Reply /\ reply' # None
        BY <1>2, <1>3, StoredIsReply
    <1>5. stored' = 0
        BY <1>1 DEF stored
    <1>6. /\ DOMAIN promised' = DOMAIN promised \cup {stored}
          /\ promised'[stored] = rows[stored]
          /\ \A i \in DOMAIN promised \ {stored} : promised'[i] = promised[i]
        BY <1>2, <1>3 DEF Records!Added
    <1>7. ResourceInv'
        BY <1>1 DEF ResourceInv, NothingLeaks, file, memory
    <1>8. live' = 0
        BY <1>1 DEF ResourceInv, NothingLeaks
    <1>9. TypeOK'
        BY <1>1, <1>2, <1>4, <1>6, <1>8 DEF TypeOK, file, memory
    <1>10. CallInv'
        BY <1>1, <1>4 DEF CallInv, InCall
    <1>11. PromisesAreKept'
        BY <1>1, <1>2, <1>6 DEF PromisesAreKept, file
    <1>12. RecordsAreAccountedFor'
        <2>1. DOMAIN rows' = DOMAIN promised' \cup orphans'
            BY <1>1, <1>2, <1>6 DEF RecordsAreAccountedFor, file, Id
        <2>2. DOMAIN promised' \cap orphans' = {}
            BY <1>1, <1>6 DEF RecordsAreAccountedFor
        <2>3. 0 \notin DOMAIN promised' \cup orphans'
            BY <1>9 DEF TypeOK, Id
        <2> QED BY <2>1, <2>2, <2>3, <1>5 DEF RecordsAreAccountedFor
    <1> QED BY <1>2, <1>3, <1>5, <1>7, <1>9, <1>10, <1>11, <1>12

(* A crash keeps the file and leaves the record of a call that died an     *)
(* orphan.                                                                 *)
LEMMA CrashStep ==
    ASSUME Inv, Crash
    PROVE  Inv' /\ stored' = 0
    <1> USE DEF Inv
    <1>1. /\ UNCHANGED <<file, sqliteStatus, promised>>
          /\ connection' = FALSE /\ lastRowid' = 0 /\ live' = 0 /\ handles' = 0
          /\ pc' = "off" /\ request' = None /\ reply' = None
          /\ orphans' = orphans \cup ({stored} \ {0})
        BY DEF Crash
    <1>2. stored' = 0
        BY <1>1 DEF stored
    <1>3. stored \in 0 .. MaxId
        BY DatabaseAssumption DEF stored, TypeOK
    <1>4. 0 \in 0 .. MaxId
        BY DatabaseAssumption
    <1>5. orphans' \subseteq Id
        BY <1>1, <1>3 DEF TypeOK, Id
    <1>6. TypeOK'
        <2>1. connection' \in BOOLEAN
            BY <1>1, Zenon
        <2>2. live' \in 0 .. 1 /\ handles' \in 0 .. 1 /\ lastRowid' \in 0 .. MaxId
            BY <1>1, <1>4
        <2>3. /\ request' \in Records!Request \cup {None}
              /\ reply' \in Records!Reply \cup {None}
            BY <1>1
        <2>4. pc' = "off" /\ UNCHANGED <<file, sqliteStatus, promised>>
            BY <1>1
        <2> QED BY ONLY TypeOK, <2>1, <2>2, <2>3, <2>4, <1>5 DEF TypeOK, file
    <1>7. ResourceInv'
        BY <1>1 DEF ResourceInv, NothingLeaks
    <1>8. CallInv'
        BY <1>1 DEF CallInv, InCall
    <1>9. PromisesAreKept'
        BY <1>1 DEF PromisesAreKept, file
    <1>10. RecordsAreAccountedFor'
        <2>1. DOMAIN rows' = DOMAIN promised' \cup orphans'
            BY <1>1 DEF RecordsAreAccountedFor, file
        <2>2. DOMAIN promised' \cap orphans' = {}
            BY <1>1 DEF RecordsAreAccountedFor
        <2>3. 0 \notin DOMAIN promised' \cup orphans'
            BY <1>6 DEF TypeOK, Id
        <2> QED BY <2>1, <2>2, <2>3, <1>2 DEF RecordsAreAccountedFor
    <1> QED BY <1>2, <1>6, <1>7, <1>8, <1>9, <1>10

(* Stuttering keeps the invariant.                                         *)
LEMMA StutterStep ==
    ASSUME Inv, UNCHANGED vars
    PROVE  Inv' /\ stored' = stored
    <1> USE DEF Inv, vars
    <1>1. stored' = stored
        BY DEF stored
    <1>2. TypeOK'
        BY DEF TypeOK
    <1>3. ResourceInv'
        BY DEF ResourceInv, NothingLeaks
    <1>4. CallInv'
        BY DEF CallInv, InCall, BadArguments
    <1>5. RecordsAreAccountedFor' /\ PromisesAreKept'
        BY <1>1, RecordsUntouched
    <1> QED BY <1>1, <1>2, <1>3, <1>4, <1>5

(* The strengthening of all the invariants of the repository is inductive. *)
THEOREM InvHolds == Spec => []Inv
    <1>1. Inv /\ [Next]_vars => Inv'
        <2> SUFFICES ASSUME Inv, [Next]_vars PROVE Inv'
            OBVIOUS
        <2>1. CASE Open \/ OpenConnection \/ CreateSchema \/ UndoOpen \/ Close
            BY <2>1, LifecycleStep
        <2>2. CASE Quiet
            BY <2>2, QuietStep
        <2>3. CASE InsertStep
            BY <2>3, InsertStepStep
        <2>4. CASE InsertAccept
            BY <2>4, InsertAcceptStep
        <2>5. CASE Crash
            BY <2>5, CrashStep
        <2>6. CASE UNCHANGED vars
            BY <2>6, StutterStep
        <2> QED BY <2>1, <2>2, <2>3, <2>4, <2>5, <2>6 DEF Next, Quiet
    <1> QED BY InitInv, <1>1, PTL DEF Spec

(* Every variable of the repository stays in its type: the rows are those  *)
(* of the ids from 1 to the AUTOINCREMENT counter, and at most one         *)
(* statement and one handle exist at a time.                               *)
THEOREM TypeCorrect == Spec => []TypeOK
    <1>1. Inv => TypeOK
        BY DEF Inv
    <1> QED BY <1>1, InvHolds, PTL

(* No early return of database.c keeps a statement, a connection or a      *)
(* handle, so database_close is never refused by SQLite.                   *)
THEOREM NothingIsLeaked == Spec => []NothingLeaks
    <1>1. Inv => NothingLeaks
        BY DEF Inv, ResourceInv
    <1> QED BY <1>1, InvHolds, PTL

(* The id that an insert was answered with names its URL for ever, through *)
(* all later failures, crashes and restarts.                               *)
THEOREM PromisesHold == Spec => []PromisesAreKept
    <1>1. Inv => PromisesAreKept
        BY DEF Inv
    <1> QED BY <1>1, InvHolds, PTL

(* A failed insert has stored nothing: every record was answered for, is   *)
(* about to be, or belongs to a call whose process died.                   *)
THEOREM RecordsHaveOwners == Spec => []RecordsAreAccountedFor
    <1>1. Inv => RecordsAreAccountedFor
        BY DEF Inv
    <1> QED BY <1>1, InvHolds, PTL

-----------------------------------------------------------------------------
(* Every step of the repository is a step of UrlRecords or changes nothing *)
(* that UrlRecords has.                                                    *)
LEMMA OutstandingInCall ==
    ASSUME Inv
    PROVE  /\ pc \in InCall => Records!Outstanding
           /\ pc \notin InCall => ~Records!Outstanding
    <1>1. \A r \in Records!Request : r # None
        BY NotNone
    <1> QED BY <1>1 DEF Inv, TypeOK, CallInv, InCall, Records!Outstanding

(* Opening and closing are invisible to the callers.                       *)
LEMMA LifecycleRefines ==
    ASSUME Inv, Open \/ OpenConnection \/ CreateSchema \/ UndoOpen \/ Close
    PROVE  Records!Stop \/ UNCHANGED Records!vars
    <1>1. UNCHANGED rows /\ pc \notin InCall /\ pc' \notin InCall
        BY DEF Open, OpenConnection, CreateSchema, UndoOpen, Close, idle, file,
            memory, InCall
    <1>2. stored = 0 /\ stored' = 0
        BY <1>1 DEF stored, InCall
    <1>3. CASE Close
        BY <1>1, <1>2, <1>3 DEF Close, Records!Stop
    <1>4. CASE UNCHANGED <<request, reply>>
        BY <1>1, <1>2, <1>4 DEF Records!vars
    <1> QED BY <1>3, <1>4 DEF Open, OpenConnection, CreateSchema, UndoOpen, idle

(* The steps inside a call are invisible or give its answer.               *)
LEMMA QuietRefines ==
    ASSUME Inv, Quiet
    PROVE  Records!Next \/ UNCHANGED Records!vars
    <1>1. UNCHANGED rows /\ stored = 0 /\ stored' = 0
        BY QuietFrame DEF file
    <1>2. CASE Invoke
        <2>1. ~Records!Outstanding
            BY <1>2, OutstandingInCall DEF Invoke, InCall
        <2>2. Records!Invoke(request') /\ request' \in Records!Request
            BY <1>1, <1>2, <2>1 DEF Invoke, Records!Invoke
        <2> QED BY <2>2 DEF Records!Next
    <1>3. CASE Bind \/ FindStep
        BY <1>1, <1>3 DEF Bind, FindStep, Records!vars
    <1>4. CASE Prepare
        <2>1. CASE UNCHANGED <<request, reply>>
            BY <1>1, <2>1 DEF Records!vars
        <2>2. CASE BadArguments /\ Answer(Records!Failed("INVALID_ARGUMENT"))
            <3>1. /\ Records!Outstanding /\ request.op = "find"
                  /\ request.id = 0 \/ request.capacity = 0
                BY <1>4, <2>2, OutstandingInCall, RequestOps
                    DEF Prepare, InCall, BadArguments, Inv, CallInv
            <3>2. Records!AnswerFind
                BY <3>1, <2>2, <1>1 DEF Records!AnswerFind, Records!Answer, Answer
            <3> QED BY <3>2 DEF Records!Next
        <2>3. CASE Answer(Records!Failed("INTERNAL_ERROR"))
            <3>1. Records!Outstanding /\ request.op \in {"insert", "find"}
                BY <1>4, OutstandingInCall, RequestOps
                    DEF Prepare, InCall, Inv, CallInv
            <3>2. Records!AnswerFind \/ Records!AnswerInsert
                BY <3>1, <2>3, <1>1 DEF Records!AnswerFind, Records!AnswerInsert,
                    Records!Answer, Answer
            <3> QED BY <3>2 DEF Records!Next
        <2> QED BY <1>4, <2>1, <2>2, <2>3 DEF Prepare
    <1>5. CASE InsertReject
        <2>1. Records!Outstanding /\ request.op = "insert"
            BY <1>5, OutstandingInCall DEF InsertReject, InCall
        <2>2. Records!AnswerInsert
            BY <2>1, <1>5, <1>1 DEF InsertReject, Answer, Records!AnswerInsert,
                Records!Answer
        <2> QED BY <2>2 DEF Records!Next
    <1>6. CASE FindReject
        <2>1. Records!Outstanding /\ request.op = "find"
            BY <1>6, OutstandingInCall DEF FindReject, InCall
        <2>2. sqliteStatus = "DONE" => request.id \notin DOMAIN rows
            BY <1>6 DEF FindReject, Inv, CallInv
        <2>3. Records!AnswerFind
            BY <2>1, <2>2, <1>6, <1>1 DEF FindReject, Answer, Records!AnswerFind,
                Records!Answer
        <2> QED BY <2>3 DEF Records!Next
    <1>7. CASE FindAccept
        <2>1. Records!Outstanding /\ request.op = "find"
            BY <1>7, OutstandingInCall DEF FindAccept, InCall
        <2>2. /\ request.id \in DOMAIN rows /\ rows[request.id] \in Url
              /\ sqliteStatus = "ROW" /\ request.capacity \in Nat
            BY <1>7, RequestOps, DatabaseAssumption
                DEF FindAccept, Inv, CallInv, InCall, TypeOK
        <2>3. Length[rows[request.id]] \in Nat
            BY <2>2, DatabaseAssumption
        <2>4. FinalizeStatus(sqliteStatus) = "OK"
            BY <2>2 DEF FinalizeStatus
        <2>5. Records!AnswerFind
            BY <2>1, <2>2, <2>3, <2>4, <1>7, <1>1 DEF FindAccept, Answer,
                Records!AnswerFind, Records!Answer
        <2> QED BY <2>5 DEF Records!Next
    <1> QED BY <1>2, <1>3, <1>4, <1>5, <1>6, <1>7 DEF Quiet

(* The commit is the storing step of UrlRecords.                           *)
LEMMA InsertStepRefines ==
    ASSUME Inv, InsertStep
    PROVE  Records!Store \/ UNCHANGED Records!vars
    <1>1. /\ pc = "step" /\ pc' = "check" /\ request.op = "insert"
          /\ UNCHANGED <<request, reply>> /\ stored = 0
        BY DEF InsertStep, stored
    <1>2. CASE sqliteStatus' = "ERROR" /\ UNCHANGED <<rows, sequence, lastRowid>>
        <2>1. stored' = 0
            BY <1>2 DEF stored
        <2> QED BY <1>1, <1>2, <2>1 DEF Records!vars
    <1>3. CASE /\ HasId
               /\ rows' = Records!Added(rows, NewId, request.url)
               /\ sequence' = NewId
               /\ lastRowid' = NewId
               /\ sqliteStatus' = "DONE"
        <2>1. Records!Outstanding
            BY <1>1, OutstandingInCall DEF InCall
        <2>2. NewId \in Records!Id /\ \A i \in DOMAIN rows : i < NewId
            BY <1>3, DatabaseAssumption DEF HasId, NewId, Inv, TypeOK, Records!Id
        <2>3. stored' = NewId
            BY <1>1, <1>3 DEF stored
        <2> QED BY <1>1, <1>3, <2>1, <2>2, <2>3 DEF Records!Store
    <1> QED BY <1>2, <1>3 DEF InsertStep

(* The acceptance of an insertion is its answer.                           *)
LEMMA InsertAcceptRefines ==
    ASSUME Inv, InsertAccept
    PROVE  Records!AnswerInsert
    <1>1. /\ stored = lastRowid /\ stored' = 0 /\ lastRowid \in Id
          /\ reply' = Records!Stored(lastRowid)
        BY InsertAcceptStep
    <1>2. /\ pc = "check" /\ request.op = "insert"
          /\ UNCHANGED <<rows, request>>
        BY DEF InsertAccept, Answer, file
    <1>3. Records!Outstanding
        BY <1>2, OutstandingInCall DEF InCall
    <1> QED BY <1>1, <1>2, <1>3 DEF Records!AnswerInsert, Records!Answer, Id

(* database.c implements UrlRecords: an insert stores at most one record,  *)
(* answers with the id of the record it stored or has stored none, and a   *)
(* find answers with what is stored, whatever SQLite calls fail and        *)
(* wherever the process dies.                                              *)
THEOREM Implements == Spec => ImplementsUrlRecords
    <1>1. Init => Records!Init
        BY DEF Init, Records!Init, NoRecords, stored
    <1>2. Inv /\ [Next]_vars => [Records!Next]_(Records!vars)
        <2> SUFFICES ASSUME Inv, [Next]_vars
                     PROVE  Records!Next \/ UNCHANGED Records!vars
            OBVIOUS
        <2>1. CASE Open \/ OpenConnection \/ CreateSchema \/ UndoOpen \/ Close
            BY <2>1, LifecycleRefines DEF Records!Next
        <2>2. CASE Quiet
            BY <2>2, QuietRefines
        <2>3. CASE InsertStep
            BY <2>3, InsertStepRefines DEF Records!Next
        <2>4. CASE InsertAccept
            BY <2>4, InsertAcceptRefines DEF Records!Next
        <2>5. CASE Crash
            <3>1. Records!Stop
                BY <2>5, CrashStep DEF Crash, Records!Stop, file
            <3> QED BY <3>1 DEF Records!Next
        <2>6. CASE UNCHANGED vars
            BY <2>6, StutterStep DEF vars, Records!vars
        <2> QED BY <2>1, <2>2, <2>3, <2>4, <2>5, <2>6 DEF Next, Quiet
    <1> QED BY <1>1, <1>2, InvHolds, PTL DEF Spec, ImplementsUrlRecords, Records!Spec
=============================================================================
