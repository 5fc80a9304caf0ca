----------------------------- MODULE UrlRecords -----------------------------
(***************************************************************************)
(* What the repository of the shortener promises to the code above it      *)
(* (src/include/database.h): a map from ids to original URLs that only     *)
(* grows, an insert that answers with the id of the record it stored or    *)
(* has stored nothing, a find that answers with what is stored.  One call  *)
(* is under way at a time.  A call whose process dies is never answered    *)
(* and may have stored its record or not; what is stored survives.         *)
(*                                                                         *)
(* Database.tla is shown to implement this module.                         *)
(***************************************************************************)
EXTENDS Integers

CONSTANTS
    Url,        \* the original URLs
    MaxId,      \* bound: the largest id (INT64_MAX)
    Length,     \* the length of each URL
    Capacity,   \* the output capacities a caller offers
    None        \* no request, no reply

Id == 1 .. MaxId

VARIABLES
    records,    \* the stored records, a function from some ids to URLs
    request,    \* the call under way or answered last
    reply,      \* its answer
    stored      \* the id of the record the call under way stored, or 0

vars == <<records, request, reply, stored>>

(* An id reaches database_find_url from a caller, who may pass any int64.  *)
InsertRequest == [op : {"insert"}, url : Url]
FindRequest == [op : {"find"}, id : 0 .. MaxId, capacity : Capacity]
Request == InsertRequest \cup FindRequest

Stored(id) == [status |-> "OK", id |-> id]
Found(url) == [status |-> "OK", url |-> url]
Failed(status) == [status |-> status]
Failures == {"INVALID_ARGUMENT", "NOT_FOUND", "BUFFER_TOO_SMALL",
             "INTERNAL_ERROR"}
Reply == [status : {"OK"}, id : Id] \cup [status : {"OK"}, url : Url]
         \cup [status : Failures]

(* The map with one more record.                                           *)
Added(map, id, url) ==
    [i \in DOMAIN map \cup {id} |-> IF i = id THEN url ELSE map[i]]

Outstanding == request # None /\ reply = None

-----------------------------------------------------------------------------
Init ==
    /\ records = [i \in {} |-> CHOOSE u \in Url : TRUE]
    /\ request = None
    /\ reply = None
    /\ stored = 0

Invoke(r) ==
    /\ ~Outstanding
    /\ request' = r
    /\ reply' = None
    /\ UNCHANGED <<records, stored>>

(* A new record gets an id above every id there is.                        *)
Store ==
    /\ Outstanding
    /\ request.op = "insert"
    /\ stored = 0
    /\ \E id \in Id :
          /\ \A i \in DOMAIN records : i < id
          /\ records' = Added(records, id, request.url)
          /\ stored' = id
    /\ UNCHANGED <<request, reply>>

Answer(r) ==
    /\ reply' = r
    /\ stored' = 0
    /\ UNCHANGED <<records, request>>

AnswerInsert ==
    /\ Outstanding
    /\ request.op = "insert"
    /\ IF stored = 0 THEN Answer(Failed("INTERNAL_ERROR"))
                     ELSE Answer(Stored(stored))

AnswerFind ==
    /\ Outstanding
    /\ request.op = "find"
    /\ \/ Answer(Failed("INTERNAL_ERROR"))
       \/ /\ request.id = 0 \/ request.capacity = 0
          /\ Answer(Failed("INVALID_ARGUMENT"))
       \/ /\ request.id \notin DOMAIN records
          /\ Answer(Failed("NOT_FOUND"))
       \/ /\ request.id \in DOMAIN records
          /\ IF Length[records[request.id]] < request.capacity
             THEN Answer(Found(records[request.id]))
             ELSE Answer(Failed("BUFFER_TOO_SMALL"))

(* The process dies, or ends: its call is forgotten, its records stay.     *)
Stop ==
    /\ request' = None
    /\ reply' = None
    /\ stored' = 0
    /\ UNCHANGED records

Next == \/ \E r \in Request : Invoke(r)
        \/ Store
        \/ AnswerInsert
        \/ AnswerFind
        \/ Stop

Spec == Init /\ [][Next]_vars
=============================================================================
