------------------------- MODULE BrowserPageProofs --------------------------
(***************************************************************************)
(* For every number of submissions and copies: the page never shows the    *)
(* answer to an earlier submission.                                        *)
(***************************************************************************)
EXTENDS BrowserPage, TLAPS

(* One submission at a time: while the button is disabled the handler      *)
(* waits for the answer to the last one or for its text, and the result is *)
(* hidden; else it waits for nothing.  What the page shows does not tell   *)
(* how many answers are still to come, which is what makes this necessary. *)
Inv ==
    /\ disabled \in BOOLEAN /\ hidden \in BOOLEAN /\ last \in Nat
    /\ ~disabled => fetching = {} /\ reading = {}
    /\ disabled => /\ hidden
                   /\ \/ fetching = {last} /\ reading = {}
                      \/ fetching = {} /\ reading = {last}
    /\ ~hidden => shown = last

(* Every action preserves the invariant.                                   *)
LEMMA NextInv == Inv /\ [Next]_vars => Inv'
    <1> SUFFICES ASSUME Inv, [Next]_vars PROVE Inv'
        OBVIOUS
    <1> USE DEF Inv, form, copy
    <1>1. CASE Edit
        BY <1>1 DEF Edit
    <1>2. CASE Submit
        <2>1. ~disabled /\ hidden' = TRUE /\ UNCHANGED <<reading, shown>>
            BY <1>2 DEF Submit
        <2>2. CASE UNCHANGED <<disabled, last, fetching>>
            BY <2>1, <2>2
        <2>3. CASE /\ last' = last + 1 /\ fetching' = fetching \cup {last + 1}
                   /\ disabled' = TRUE
            BY <2>1, <2>3
        <2> QED BY <1>2, <2>2, <2>3 DEF Submit
    <1>3. ASSUME NEW n \in 1 .. MaxSubmissions, Respond(n) PROVE Inv'
        <2>1. n \in fetching /\ fetching' = fetching \ {n} /\ last' = last
            BY <1>3 DEF Respond, Finally
        <2>2. disabled /\ n = last /\ fetching' = {} /\ reading = {} /\ hidden
            BY <2>1
        <2>3. CASE disabled' = FALSE /\ UNCHANGED <<shown, reading>> /\ hidden' = TRUE
            BY <2>1, <2>2, <2>3
        <2>4. CASE reading' = reading \cup {n} /\ UNCHANGED <<disabled, hidden, shown>>
            BY <2>1, <2>2, <2>4
        <2> QED BY <1>3, <2>2, <2>3, <2>4 DEF Respond, Fail, Finally
    <1>4. ASSUME NEW n \in 1 .. MaxSubmissions, Read(n) PROVE Inv'
        BY <1>4 DEF Read, Fail, Finally
    <1>5. CASE Press \/ Timeout
        BY <1>5 DEF Press, Timeout
    <1>6. ASSUME NEW k \in 1 .. MaxCopies, CopySettled(k) PROVE Inv'
        BY <1>6 DEF CopySettled
    <1>7. CASE UNCHANGED vars
        BY <1>7 DEF vars
    <1> QED BY <1>1, <1>2, <1>3, <1>4, <1>5, <1>6, <1>7 DEF Next, Settle

(* The page shows the short URL of the last submission (ShownIsTheLatest). *)
THEOREM LatestIsShown == Spec => []ShownIsTheLatest
    <1>1. Init => Inv
        <2> SUFFICES ASSUME Init PROVE Inv
            OBVIOUS
        <2>1. disabled = FALSE /\ hidden = TRUE
            BY DEF Init
        <2>2. last \in Nat /\ fetching = {} /\ reading = {}
            BY DEF Init
        <2> QED BY <2>1, <2>2 DEF Inv
    <1>2. Inv => ShownIsTheLatest
        BY DEF Inv, ShownIsTheLatest
    <1> QED BY <1>1, <1>2, NextInv, PTL DEF Spec
=============================================================================
