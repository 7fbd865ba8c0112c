-------------------------- MODULE MCTcVerification --------------------------
(* Four kinds of telecommands, one for each way through gates and handlers. *)
EXTENDS TcVerification
Tc(svc, sub, arg) == [svc |-> svc, sub |-> sub, arg |-> arg]
SomeCommands ==
  {Tc(8, 1, 80), Tc(8, 1, 28), Tc(3, 6, 11), Tc(11, 4, 0)}
SomeRules == {54}
=============================================================================
