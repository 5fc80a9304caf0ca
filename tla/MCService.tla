----------------------------- MODULE MCService ------------------------------
(* Requests of one byte, the smallest there are: what the server makes of  *)
(* longer ones is the matter of MCServer.                                  *)
EXTENDS Service, TLC

MCStreams ==
    {[total |-> 1, headerEnd |-> 1, badLine |-> 0, head |-> "OK",
      contentLength |-> 0]}

MCSymmetry == Permutations(Client)
=============================================================================
