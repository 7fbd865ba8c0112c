------------------------------- MODULE MCObcp -------------------------------
(* Small instances of Obcp for TLC.                                        *)
EXTENDS Obcp

Request(op, p, g) == [op |-> op, pid |-> p, prog |-> g]
At(d, tc) == [delay_s |-> d, tc |-> tc]

(* Three step lists: one that restarts a procedure after its last wait and *)
(* then fails, one that reloads a procedure and deletes one, and an empty  *)
(* one, which load() refuses.                                              *)
MCSteps ==
  [restart |-> <<At(1, Request("start", 1, "empty")),
                 At(0, Request("plain", 0, "empty")),
                 At(2, Request("unaccepted", 0, "empty"))>>,
   reload  |-> <<At(1, Request("load", 1, "restart")),
                 At(0, Request("delete", 0, "empty"))>>,
   empty   |-> <<>>]

MCPrograms == DOMAIN MCSteps
=============================================================================
