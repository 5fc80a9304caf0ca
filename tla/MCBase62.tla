------------------------------ MODULE MCBase62 ------------------------------
(* A numeral system of base 3 with numbers up to 19: 3^2 < 19 < 3^3, as    *)
(* 62^10 < UINT64_MAX < 62^11, and 19 is 201 in base 3, so that texts of   *)
(* three digits overflow by their first digit, by their last, or not.      *)
EXTENDS Base62, TLC

MCAlphabet == (0 :> "zero") @@ (1 :> "one") @@ (2 :> "two")
MCPower == [k \in 0 .. 3 |-> 3 ^ k]
MCForeign == {"slash"}
=============================================================================
