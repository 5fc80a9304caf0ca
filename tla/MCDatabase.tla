----------------------------- MODULE MCDatabase -----------------------------
(* Two URLs of different lengths, a capacity that fits both, one that fits *)
(* only the shorter and none at all; three ids, so that the table fills up.*)
EXTENDS Database, TLC

MCUrl == {"short", "long"}
MCLength == ("short" :> 1) @@ ("long" :> 2)
=============================================================================
