-------------------------------- MODULE Training --------------------------------
(***************************************************************************)
(* A training session on the simulator: failure_manager.py, which keeps    *)
(* the injected failures and ramps, flickers and expires them,             *)
(* scenario_engine.py, which injects and clears them by script, and the    *)
(* instructor commands of engine.py, breakpoints included.                 *)
(*                                                                         *)
(* A target is what a model can suffer: a failure name with its extra      *)
(* parameters.  The manager files a failure under an id made of the        *)
(* failure's name and of three of the possible parameters only, so several *)
(* targets may share one: the two panels of eps_solar_panel_loss.yaml do.  *)
(* Everything runs on the tick thread; commands are drained between ticks. *)
(***************************************************************************)
EXTENDS Integers, FiniteSets, Selections

CONSTANTS
  FidOf,        \* target -> id
  Directly,     \* targets the instructor also commands past the manager
  Scenarios,    \* name -> [initial, events, duration]
  NoScenario,
  Full,         \* magnitude of an injected failure
  Ramp,         \* what a gradual onset adds per unit of time
  Quantum,      \* a gradual step has to be larger than this (0.001)
  DtMax,        \* longest sub-step of a tick
  MaxSubSteps,  \* most sub-steps of a tick (max_substeps)
  Speeds,
  Durations,    \* of failures the instructor injects, 0 for unlimited
  MaxCommands   \* bound on the instructor's commands

Targets == DOMAIN FidOf
Fids == {FidOf[t] : t \in Targets}
Onsets == {"step", "gradual", "intermittent"}
Givers == {"instructor", "scenario", "dropped"}  \* "dropped": by a scenario another start replaced
Never == -1

AtMost(a, b) == IF a < b THEN a ELSE b

(* Sub-steps of a tick: as many as keep each within DtMax, up to a cap that *)
(* makes them longer.                                                       *)
SubSteps(s) == IF s > DtMax THEN AtMost((s + DtMax - 1) \div DtMax, MaxSubSteps) ELSE 1

(* What load_scenarios_from_dir lets through: an event has a time or a      *)
(* condition.                                                               *)
EventOK(e) ==
  /\ e.target \in Targets /\ e.onset \in Onsets /\ e.dur \in Nat
  /\ e.at \in Nat \cup {Never} /\ e.cond \in BOOLEAN
  /\ e.action = "set_speed" => e.value \in Speeds
ScenarioOK(s) ==
  /\ s.duration \in Nat \ {0}
  /\ \A es \in {s.initial, s.events} :
       es \in Seq(Range(es)) /\ \A e \in Range(es) : EventOK(e)
  /\ \A i \in DOMAIN s.events : s.events[i].at # Never \/ s.events[i].cond

ASSUME TrainingAssumption ==
  /\ Full \in Nat \ {0} /\ {Ramp, Quantum, MaxCommands} \subseteq Nat
  /\ {DtMax, MaxSubSteps} \subseteq Nat \ {0} /\ Directly \subseteq Targets
  /\ \A s \in Speeds : s \in Nat /\ s % SubSteps(s) = 0
  /\ 1 \in Speeds /\ 0 \in Speeds /\ Durations \subseteq Nat
  /\ NoScenario \notin DOMAIN Scenarios
  /\ \A n \in DOMAIN Scenarios : ScenarioOK(Scenarios[n])

VARIABLES
  effect,    \* target -> what its model suffers
  failures,  \* FailureManager._failures
  active,    \* ScenarioEngine._active
  elapsed,   \* ScenarioEngine._elapsed
  fired,     \* events of the active scenario that have fired
  injected,  \* ScenarioEngine._injected_fids
  speed,     \* time acceleration
  left,      \* sub-steps to go in the running tick
  outer,     \* dt_sim of the running tick, or of the next one
  saved,     \* the breakpoints on disk
  unowned,   \* history: targets with an effect no record was kept for
  commands   \* instructor commands so far

session == <<effect, failures, active, elapsed, fired, injected, speed, unowned>>
vars == <<session, left, outer, saved, commands>>

Running == active # NoScenario
Events == Scenarios[active].events

RecordOK(r) ==
  /\ r.target \in Targets /\ r.onset \in Onsets /\ r.mag \in 0 .. Full
  /\ r.on \in BOOLEAN /\ r.elapsed \in Nat /\ r.dur \in Nat
  /\ r.by \in Givers

(* A failure with a duration is cleared in the sub-step that reaches it. *)
TypeOK ==
  /\ effect \in [Targets -> 0 .. Full]
  /\ DOMAIN failures \subseteq Fids
  /\ \A f \in DOMAIN failures :
       /\ RecordOK(failures[f]) /\ FidOf[failures[f].target] = f
       /\ failures[f].dur > 0 => failures[f].elapsed < failures[f].dur
  /\ active \in {NoScenario} \cup DOMAIN Scenarios
  /\ Running => elapsed \in 0 .. Scenarios[active].duration - 1 /\ fired \subseteq DOMAIN Events
  /\ injected \subseteq Fids /\ speed \in Speeds
  /\ left \in 0 .. SubSteps(outer) /\ outer \in Speeds
  /\ Cardinality(saved) <= 1 /\ unowned \subseteq Targets
  /\ commands \in 0 .. MaxCommands

-----------------------------------------------------------------------------
(* Failures.  A world is what an injection, a clearing or an event changes. *)

World == [effect |-> effect, failures |-> failures, injected |-> injected,
          speed |-> speed, unowned |-> unowned]

Become(world) ==
  \E w \in {world} :
    /\ effect' = w.effect /\ failures' = w.failures /\ injected' = w.injected
    /\ speed' = w.speed /\ unowned' = w.unowned

Record(t, onset, dur, by) ==
  [target |-> t, onset |-> onset, mag |-> IF onset = "step" THEN Full ELSE 0,
   on |-> TRUE, elapsed |-> 0, dur |-> dur, by |-> by]

(* The record replaces one with the same id, whichever target that one had. *)
Filed(fs, r) ==
  [f \in DOMAIN fs \cup {FidOf[r.target]} |-> IF f = FidOf[r.target] THEN r ELSE fs[f]]
Orphaned(w, t) ==
  {u \in Targets \ {t} : /\ FidOf[t] \in DOMAIN w.failures
                         /\ w.failures[FidOf[t]].target = u /\ w.effect[u] > 0}

Told(e, t, level) == [e EXCEPT ![t] = level]
Struck(e, t, onset) == IF onset = "step" THEN Told(e, t, Full) ELSE e

Inject(w, t, onset, dur, by) ==
  [w EXCEPT !.effect = Struck(@, t, onset),
            !.failures = Filed(@, Record(t, onset, dur, by)),
            !.unowned = @ \cup Orphaned(w, t)]

Without(fs, fids) == [f \in DOMAIN fs \ fids |-> fs[f]]
(* The models of the failures under these ids are told, in the order of the *)
(* records: each of its own target.                                         *)
Relieved(w, fids) ==
  [t \in Targets |->
     IF \E f \in fids \cap DOMAIN w.failures : w.failures[f].target = t THEN 0 ELSE w.effect[t]]

(* Mutant: the model is not told. *)
ClearRecord(w, fids) == [w EXCEPT !.failures = Without(@, fids)]
Clear(w, fids) == [w EXCEPT !.effect = Relieved(w, fids), !.failures = Without(@, fids)]

(* A ramp proceeds by steps larger than Quantum, or not at all. *)
Ramped(r, dt) ==
  LET new == AtMost(Full, r.mag + Ramp * dt)
  IN IF new - r.mag > Quantum THEN new ELSE r.mag

(* One sub-step of a failure; flips is the draw of the flicker times.  Only *)
(* a limited failure's elapsed time matters.                                *)
Aged(f, r, dt, flips) ==
  [r EXCEPT !.elapsed = IF r.dur > 0 THEN @ + dt ELSE 0,
            !.mag = IF r.onset = "gradual" THEN Ramped(r, dt) ELSE @,
            !.on = IF f \in flips THEN ~@ ELSE @]

(* What the model suffers after it: only a change reaches the model. *)
Suffered(now, r, next) ==
  IF next.mag # r.mag THEN next.mag
  ELSE IF next.on = r.on THEN now
  ELSE IF next.on THEN Full ELSE 0

(* Mutant: one sub-step late. *)
ExpiredLate(w, dt) ==
  {f \in DOMAIN w.failures : w.failures[f].dur > 0 /\ w.failures[f].elapsed >= w.failures[f].dur}
Expired(w, dt) ==
  {f \in DOMAIN w.failures : w.failures[f].dur > 0 /\ w.failures[f].elapsed + dt >= w.failures[f].dur}

Grown(fs, dt, flips) == [f \in DOMAIN fs |-> Aged(f, fs[f], dt, flips)]
Worn(e, fs, older) ==
  [t \in Targets |->
     IF FidOf[t] \in DOMAIN fs /\ fs[FidOf[t]].target = t
     THEN Suffered(e[t], fs[FidOf[t]], older[FidOf[t]]) ELSE e[t]]
Older(w, dt, flips) ==
  [w EXCEPT !.effect = Worn(@, w.failures, Grown(w.failures, dt, flips)),
            !.failures = Grown(@, dt, flips)]

(* FailureManager.tick: what has expired is cleared, the rest ages. *)
FailuresTick(world, dt, flips) ==
  \E w \in {world} : \E c \in {Clear(w, Expired(w, dt))} : Become(Older(c, dt, flips))

-----------------------------------------------------------------------------
(* Scenarios.  An event is [at, cond, action, target, onset, dur, value]; it *)
(* is due at a time, or when its condition holds.  Messages, parameters and  *)
(* phases change nothing here.                                               *)

Fire(w, e) ==
  CASE e.action = "inject" ->
         [Inject(w, e.target, e.onset, e.dur, "scenario") EXCEPT !.injected = @ \cup {FidOf[e.target]}]
    [] e.action = "clear" -> Clear(w, {FidOf[e.target]})
    [] e.action = "clear_all" -> Clear(w, Fids)
    [] e.action = "set_speed" -> [w EXCEPT !.speed = e.value]
    [] OTHER -> w

FireAll(w, es) ==
  LET after[i \in 0 .. Len(es)] == IF i = 0 THEN w ELSE Fire(after[i - 1], es[i])
  IN after[Len(es)]

DueEvents(time, holding) ==
  {i \in DOMAIN Events \ fired :
     \/ Events[i].at # Never /\ time >= Events[i].at
     \/ Events[i].cond /\ i \in holding}

(* Mutant: the list of ids is reset first. *)
FinishedEmpty(w) == [w EXCEPT !.injected = {}]
(* _finish: failures under the ids this scenario injected are cleared. *)
Finished(w) == [Clear(w, w.injected) EXCEPT !.injected = {}]

Ended(time) == time >= Scenarios[active].duration

(* Mutant: the scenario starts over instead of being deactivated. *)
OverAgain == UNCHANGED active /\ elapsed' = 0 /\ fired' = {}
Inactive == active' = NoScenario /\ elapsed' = 0 /\ fired' = {}

-----------------------------------------------------------------------------
(* The tick thread.  The time of a tick is taken from the speed before the  *)
(* tick drains the instructor's commands: a new speed is for the next one.  *)

BeginTick ==
  /\ left = 0 /\ left' = SubSteps(outer)
  /\ UNCHANGED <<session, outer, saved, commands>>

(* The scenario runs in the last sub-step, with the whole tick's time; the *)
(* failures age at the end of every sub-step.                              *)
SubStep(holding, flips) ==
  \E dt \in {outer \div SubSteps(outer)}, time \in {elapsed + outer} :
    /\ left > 0 /\ left' = left - 1
    /\ dt = 0 => flips = {}
    /\ IF left > 1 \/ ~Running
       THEN FailuresTick(World, dt, flips) /\ UNCHANGED <<active, elapsed, fired>>
       ELSE \E due \in {DueEvents(time, holding)} :
            \E w \in {FireAll(World, Those(Events, due))} :
              IF Ended(time)
              THEN FailuresTick(Finished(w), dt, flips) /\ Inactive
              ELSE /\ FailuresTick(w, dt, flips)
                   /\ elapsed' = time /\ fired' = fired \cup due /\ UNCHANGED active
    /\ outer' = IF left = 1 THEN speed' ELSE outer
    /\ UNCHANGED <<saved, commands>>

Intermittent == {f \in Fids : f \in DOMAIN failures /\ failures[f].onset = "intermittent"}
Conditional == IF Running THEN {i \in DOMAIN Events : Events[i].cond} ELSE {}

Tick ==
  \/ BeginTick
  \/ \E holding \in SUBSET Conditional, flips \in SUBSET Intermittent : SubStep(holding, flips)

-----------------------------------------------------------------------------
(* The instructor: commands wait in a queue that a tick drains first. *)

Bounded == left = 0 /\ commands < MaxCommands /\ commands' = commands + 1
Command == Bounded /\ UNCHANGED <<left, outer>>

FailureInject(t, onset, dur) ==
  /\ Command /\ Become(Inject(World, t, onset, dur, "instructor"))
  /\ UNCHANGED <<active, elapsed, fired, saved>>

FailureClear(fids) ==
  /\ Command /\ Become(Clear(World, fids))
  /\ UNCHANGED <<active, elapsed, fired, saved>>

(* inject and clear_failure reach the model without the manager. *)
DirectInject(t) ==
  /\ Command
  /\ Become([World EXCEPT !.effect = Told(@, t, Full), !.unowned = @ \cup {t}])
  /\ UNCHANGED <<active, elapsed, fired, saved>>

DirectClear(t) ==
  /\ Command /\ Become([World EXCEPT !.effect = Told(@, t, 0)])
  /\ UNCHANGED <<active, elapsed, fired, saved>>

(* set_speed, freeze and pause_scenario, resume *)
SetSpeed(s) ==
  /\ Command /\ speed' = s
  /\ UNCHANGED <<effect, failures, active, elapsed, fired, injected, unowned, saved>>
Resume == speed = 0 /\ SetSpeed(1)

(* A scenario that is still running is dropped, not finished. *)
Dropped(r) == IF r.by = "scenario" THEN [r EXCEPT !.by = "dropped"] ELSE r
AllDropped(fs) == [f \in DOMAIN fs |-> Dropped(fs[f])]
Forgotten(w) == [w EXCEPT !.injected = {}, !.failures = AllDropped(@)]
Opening(n) == FireAll(Forgotten(World), Scenarios[n].initial)
StartScenario(n) ==
  /\ Command /\ Become(Opening(n))
  /\ active' = n /\ elapsed' = 0 /\ fired' = {}
  /\ UNCHANGED saved

StopScenario ==
  /\ Running /\ Command
  /\ Become(Finished(World)) /\ Inactive
  /\ UNCHANGED saved

-----------------------------------------------------------------------------
(* Breakpoints: the models' state, the failures and the scenario's progress. *)

(* Bound: one is saved, beside the commands that are counted. *)
SaveBreakpoint ==
  /\ left = 0 /\ saved = {}
  /\ saved' = {[world |-> World, active |-> active, elapsed |-> elapsed, fired |-> fired]}
  /\ UNCHANGED <<session, left, outer, commands>>

(* Mutant: the progress is restored, the flags of the events are not. *)
RestoredTime(s) ==
  /\ Become(s.world)
  /\ active' = s.active /\ elapsed' = s.elapsed /\ UNCHANGED fired
Restored(s) ==
  /\ Become(s.world)
  /\ active' = s.active /\ elapsed' = s.elapsed /\ fired' = s.fired

LoadBreakpoint ==
  /\ Command
  /\ \E s \in saved : Restored(s)
  /\ UNCHANGED saved

(* The simulator is restarted: what is on disk remains. *)
Fresh == [effect |-> [t \in Targets |-> 0], failures |-> << >>, injected |-> {},
          speed |-> 1, unowned |-> {}]
Restart ==
  /\ Bounded /\ outer' = Fresh.speed
  /\ Become(Fresh) /\ Inactive /\ UNCHANGED <<left, saved>>

InstructorCommand ==
  \/ \E t \in Targets, onset \in Onsets, dur \in Durations : FailureInject(t, onset, dur)
  \/ \E f \in Fids : FailureClear({f})
  \/ FailureClear(Fids)
  \/ \E t \in Directly : DirectInject(t) \/ DirectClear(t)
  \/ \E s \in Speeds : SetSpeed(s)
  \/ Resume
  \/ \E n \in DOMAIN Scenarios : StartScenario(n)
  \/ StopScenario
  \/ SaveBreakpoint
  \/ LoadBreakpoint
  \/ Restart

Init ==
  /\ effect = Fresh.effect /\ failures = Fresh.failures /\ injected = {}
  /\ speed = 1 /\ unowned = {}
  /\ active = NoScenario /\ elapsed = 0 /\ fired = {}
  /\ left = 0 /\ outer = 1 /\ saved = {} /\ commands = 0

Next == Tick \/ InstructorCommand

(* The tick thread runs as long as the simulator does; nobody has to give *)
(* a command.                                                             *)
Spec == Init /\ [][Next]_vars /\ WF_vars(Tick)

-----------------------------------------------------------------------------
(* Properties *)

(* Whatever a model suffers can be cleared by the manager: there is a record *)
(* for it, unless another target took the record's id or the effect never    *)
(* went through the manager (FailureManager.inject, tick, set_state).        *)
EffectsOwned ==
  \A t \in Targets \ unowned :
    effect[t] > 0 => FidOf[t] \in DOMAIN failures /\ failures[FidOf[t]].target = t

(* A failure the running scenario injected is one its end will clear; no      *)
(* scenario running, there is none (ScenarioEngine._injected_fids, _finish).  *)
InjectionsTracked ==
  \A f \in DOMAIN failures : failures[f].by = "scenario" => Running /\ f \in injected

(* Between ticks the timed events that have fired are those whose time has    *)
(* come: none twice and none late, across restarts of the scenario and        *)
(* breakpoints (tick, start, set_state).  One at 0 waits for the first tick.  *)
EventsOnTime ==
  Running =>
    \A i \in DOMAIN Events :
      ~Events[i].cond => /\ i \in fired => elapsed >= Events[i].at
                         /\ elapsed > 0 /\ elapsed >= Events[i].at => i \in fired

(* A scenario comes to its end if time does not stop for good: each command   *)
(* may restart it, but commands are finitely many (the auto-end of tick).     *)
ScenarioEnds == []<>(speed > 0) => [](Running => <>~Running)

(* No scenario running, the spacecraft suffers only what the instructor has   *)
(* injected: failures of a scenario are cleared when it stops "and don't leak *)
(* into the next scenario / free run" (scenario_engine.py:92).                *)
NothingLeaks ==
  ~Running =>
    \A t \in Targets :
      effect[t] > 0 => \E f \in DOMAIN failures :
                         failures[f].target = t /\ failures[f].by = "instructor"
================================================================================
