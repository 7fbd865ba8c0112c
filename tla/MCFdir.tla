-------------------------------- MODULE MCFdir --------------------------------
(* Three of the shipped faults with shorter delays: low bus voltage, too few *)
(* wheels (judged only while their line is on, and switching it off), and    *)
(* the sun-safe hold the other two command.                                  *)
EXTENDS Fdir
Set(l, n) == [load |-> l, level |-> n, needs |-> "none"]
Cascade(l, n, d) == [load |-> l, level |-> n, delay |-> d]
Step(l, n, needs, d) == [load |-> l, level |-> n, needs |-> needs, delay |-> d]
SomeDerived == [hold |-> [load |-> "aocs", level |-> 3]]
SomeOrder == <<"volts", "wheels", "held">>
SomeFault ==
  [volts |-> [cond |-> "low", persist |-> 2, needs |-> "none", group |-> "eps",
              cascades |-> <<Cascade("aocs", 3, 2), Cascade("payload", 0, 1)>>],
   wheels |-> [cond |-> "fewWheels", persist |-> 1, needs |-> "line", group |-> "aocs",
               cascades |-> <<Cascade("aocs", 3, 1), Cascade("line", 0, 2)>>],
   held |-> [cond |-> "hold", persist |-> 0, needs |-> "none", group |-> "none",
             cascades |-> <<Cascade("payload", 1, 2)>>]]
SomeRules ==
  <<[cond |-> "low", persist |-> 0, severity |-> 2, effects |-> <<Set("aocs", 3)>>],
    [cond |-> "fewWheels", persist |-> 2, severity |-> 3, effects |-> << >>]>>
SomeStages ==
  [n \in 0 .. 2 |-> CASE n = 0 -> << >> [] n = 1 -> <<Set("payload", 1)>>
                      [] OTHER -> <<Set("payload", 0), Set("aocs", 2)>>]
SomeGroups == [eps |-> <<"shed1", "shed2">>, aocs |-> <<"recover", "reset">>]
SomeProcedures ==
  [shed1 |-> <<Step("payload", 1, "none", 0)>>,
   shed2 |-> <<Step("payload", 0, "none", 0), Step("aocs", 2, "line", 1)>>,
   recover |-> <<Step("aocs", 3, "line", 0), Step("payload", 1, "none", 2)>>,
   reset |-> <<Step("payload", 0, "none", 0), Step("aocs", 2, "line", 3)>>]
SomeDelays == <<2, 3>>
SomeLevels == [payload |-> {2}, aocs |-> {5}, line |-> {1}]
===============================================================================
