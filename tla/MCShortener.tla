---------------------------- MODULE MCShortener -----------------------------
(* Base 2, ids up to 3 and 64-bit numbers up to 7, so that there are texts *)
(* of every kind: codes of ids, codes of numbers that are no ids, texts    *)
(* that overflow, texts with leading zeros or foreign characters.  The     *)
(* route "health" is the code of the id 3 and "shorten" that of 5, as the  *)
(* real ones are those of larger ids.  The codes of ids have two digits at *)
(* most, and every buffer for them, their short URLs and the JSON text of  *)
(* both is as large as it has to be and not a byte larger.                 *)
EXTENDS Shortener, TLC

MCAlphabet == (0 :> "0") @@ (1 :> "1")
MCHealth == <<"1", "1">>
MCShorten == <<"1", "0", "1">>

MCTexts ==
    {<<>>, <<"0">>, <<"1">>, <<"1", "0">>, MCHealth, <<"1", "0", "0">>,
     MCShorten, <<"1", "1", "1">>, <<"1", "0", "0", "0">>, <<"0", "1">>,
     <<"1", "-">>}
MCTarget == {<<"/">> \o t : t \in MCTexts}
            \cup {<<"/", "1", "?", "0">>, <<"/", "1", "/">>, <<"1">>, <<"?">>}

(* The longest URL there may be, one too long and one that is none.        *)
MCUrl == {"short", "longest", "tooLong", "bad"}
MCWellFormed == {"short", "longest", "tooLong"}
MCLength == [short |-> 1, longest |-> 2, tooLong |-> 3, bad |-> 1]
=============================================================================
