------------------------- MODULE MCOnBoardMonitoring -------------------------
(* A rule that switches the monitored source off, one that calms another    *)
(* parameter, and a link parameter a forced pass mutes.                     *)
EXTENDS OnBoardMonitoring
Def(p, kind, on) == [param |-> p, check |-> kind, enabled |-> on]
SomeLoaded ==
  {[m \in {"m1", "m2"} |-> IF m = "m1" THEN Def("fpa", "delta", TRUE)
                           ELSE Def("link", "absolute", on)] : on \in BOOLEAN}
SomeOffered == {Def("fpa", "absolute", TRUE)}
SomeRules ==
  {[param |-> "fpa", effect |-> "dark", target |-> "fpa"],
   [param |-> "link", effect |-> "nominal", target |-> "fpa"]}
=============================================================================
