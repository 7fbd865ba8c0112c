-------------------------- MODULE MCProcedureRunner --------------------------
(* Small instances of ProcedureRunner for TLC.                             *)
EXTENDS ProcedureRunner

(* Every kind of step, first and last, before and after ones that suspend, *)
(* and an empty procedure.                                                 *)
MCPlans ==
  {<<>>,
   <<"command", "check", "wait">>,
   <<"wait", "wait", "wait", "command">>,
   <<"verified", "go_nogo", "unknown">>,
   <<"command", "broken">>}
=============================================================================
