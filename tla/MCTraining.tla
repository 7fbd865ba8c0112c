------------------------------- MODULE MCTraining -------------------------------
(* Two panels that share an id, as in eps_solar_panel_loss.yaml, and a wheel  *)
(* with an id of its own.  "panels" is that scenario with shorter times;      *)
(* "mixed" starts with a failure, reacts to a condition and changes the speed.*)
EXTENDS Training
SomeFids == [px |-> "panel", py |-> "panel", wheel |-> "wheel"]
Event(at, cond, action, target, onset, dur, value) ==
  [at |-> at, cond |-> cond, action |-> action, target |-> target, onset |-> onset,
   dur |-> dur, value |-> value]
SomeScenarios ==
  [panels |-> [initial |-> << >>, duration |-> 5,
     events |-> <<Event(1, FALSE, "inject", "px", "step", 0, 0),
                  Event(3, FALSE, "inject", "py", "step", 0, 0)>>],
   mixed |-> [initial |-> <<Event(Never, FALSE, "inject", "wheel", "gradual", 3, 0)>>, duration |-> 4,
     events |-> <<Event(Never, TRUE, "clear_all", "px", "step", 0, 0),
                  Event(2, FALSE, "set_speed", "px", "step", 0, 4),
                  Event(3, TRUE, "inject", "wheel", "intermittent", 0, 0),
                  Event(1, FALSE, "clear", "px", "step", 0, 0)>>]]
=================================================================================
