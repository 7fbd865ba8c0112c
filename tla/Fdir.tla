---------------------------------- MODULE Fdir ----------------------------------
(***************************************************************************)
(* Fault detection, isolation and recovery (_tick_fdir, _tick_fdir_advanced*)
(* and what they call in engine.py, fdir.py): threshold rules, load        *)
(* shedding, faults whose cascades are due some time after detection,      *)
(* recoveries that escalate through procedures, and the spacecraft mode    *)
(* derived from them.  All of them command the same few loads.             *)
(*                                                                         *)
(* A tick is one unit of every delay.  A condition is a telemetry value on *)
(* the wrong side of a threshold: one of Signs, which the environment      *)
(* sets, or in Derived, the level of a load.  An effect is a command       *)
(* [load, level, needs]: it sets the load unless the power line it needs   *)
(* is off; a direct callback needs none.                                   *)
(***************************************************************************)
EXTENDS Integers, Selections

CONSTANTS
  Signs,       \* conditions of the environment
  Derived,     \* conditions on loads: name -> [load, level]
  Order,       \* fault ids, in the order of the configuration
  Fault,       \* fault -> [cond, persist, needs, cascades, group]
  Rules,       \* the rules of fdir.yaml: [cond, persist, severity, effects]
  Stages,      \* load shedding stage -> effects
  Groups,      \* recovery group -> the procedure of each level
  Procedures,  \* procedure -> its steps, effects with a delay
  LevelDelay,  \* time a recovery level has before it escalates
  MaxAttempts,
  LevelsOf,    \* load -> the levels an operator may command
  MaxChanges   \* bound on the changes of the environment

Faults == ToSet(Order)
Conditions == Signs \cup DOMAIN Derived
LoadNames == DOMAIN LevelsOf
RuleIds == 1 .. Len(Rules)
Names == DOMAIN Procedures

Effect == [load : LoadNames, level : Nat, needs : LoadNames \cup {"none"}]
Delay == Nat \ {0}

ASSUME FdirAssumption ==
  /\ Order \in Seq(Faults)
  /\ \A f \in Faults :
       /\ Fault[f].cond \in Conditions /\ Fault[f].persist \in Nat
       /\ Fault[f].cascades \in Seq([load : LoadNames, level : Nat, delay : Delay])
       /\ Fault[f].group \in DOMAIN Groups \cup {"none"}
  /\ \A i \in RuleIds : Rules[i].persist \in Nat /\ Rules[i].effects \in Seq(Effect)
  /\ Len(Rules) \in Nat
  /\ 0 \in DOMAIN Stages /\ \A n \in DOMAIN Stages : Stages[n] \in Seq(Effect)
  /\ \A g \in DOMAIN Groups : Groups[g] \in Seq(Names) /\ Len(Groups[g]) \in 1 .. Len(LevelDelay)
  /\ \A p \in Names :
       Procedures[p] \in Seq([load : LoadNames, level : Nat, needs : LoadNames \cup {"none"},
                              delay : Nat])
  /\ LevelDelay \in Seq(Delay) /\ LevelDelay # << >>
  /\ \A l \in LoadNames : LevelsOf[l] \subseteq Nat
  /\ "payload" \in LoadNames /\ MaxChanges \in Nat

VARIABLES
  signs,      \* environment conditions that hold
  soc,        \* the stage the battery requires
  commissioned, \* spacecraft phase NOMINAL
  loads,      \* modes and lines of the subsystems
  triggered,  \* _fdir_triggered
  ruleAcc,    \* _fdir_persist
  stage,      \* current load shedding stage
  active,     \* _active_faults
  acc,        \* _fault_persist
  pending,    \* _pending_cascades: [fault, k, left]
  recov,      \* _recovery_states
  procs,      \* _active_procedures: [name, age]
  scMode,     \* sc_mode
  done,       \* history: the cascades of an active fault applied so far
  reloaded,   \* history: a breakpoint has been loaded
  changes     \* changes of the environment so far

environment == <<signs, soc, commissioned>>
rules == <<triggered, ruleAcc, stage>>
faults == <<active, acc, pending, recov, done>>
vars == <<environment, loads, rules, faults, procs, scMode, reloaded, changes>>

AtMost(a, b) == IF a < b THEN a ELSE b
Idle == [state |-> "NONE", level |-> 0, attempts |-> 0, since |-> 0]
Levels == 0 .. Len(LevelDelay)
Cascades(f) == Fault[f].cascades
Recovers(f) == Fault[f].group # "none"

TypeOK ==
  /\ signs \subseteq Signs /\ soc \in DOMAIN Stages /\ stage \in DOMAIN Stages
  /\ {commissioned, reloaded} \subseteq BOOLEAN
  /\ loads \in [LoadNames -> Nat]
  /\ triggered \subseteq RuleIds
  /\ \A i \in RuleIds : ruleAcc[i] \in 0 .. Rules[i].persist
  /\ active \subseteq Faults
  /\ \A f \in Faults : acc[f] \in 0 .. Fault[f].persist
  /\ \A i \in DOMAIN pending :
       /\ pending[i].k \in DOMAIN Cascades(pending[i].fault)
       /\ pending[i].left \in 1 .. Cascades(pending[i].fault)[pending[i].k].delay
  /\ \A f \in Faults :
       /\ recov[f].state \in {"NONE", "RUNNING", "COMPLETE", "FAILED"}
       /\ {recov[f].level, recov[f].attempts} \subseteq Levels
  /\ \A i \in DOMAIN procs : procs[i].name \in Names /\ procs[i].age \in Nat
  /\ scMode \in {"SAFE", "NOMINAL", "SCIENCE", "EMERGENCY"}
  /\ \A f \in Faults : done[f] \subseteq DOMAIN Cascades(f)
  /\ changes \in 0 .. MaxChanges

Init ==
  /\ signs = {} /\ soc = 0 /\ commissioned = TRUE
  /\ loads \in [LoadNames -> UNION {LevelsOf[l] : l \in LoadNames}]
  /\ \A l \in LoadNames : loads[l] \in LevelsOf[l]
  /\ triggered = {} /\ ruleAcc = [i \in RuleIds |-> 0] /\ stage = 0
  /\ active = {} /\ acc = [f \in Faults |-> 0] /\ pending = << >>
  /\ recov = [f \in Faults |-> Idle] /\ procs = << >>
  /\ scMode = "SAFE"
  /\ done = [f \in Faults |-> {}] /\ reloaded = FALSE /\ changes = 0

-----------------------------------------------------------------------------
(* Conditions are judged on the telemetry of this tick, written before any *)
(* command of FDIR.                                                        *)

Holds(c) ==
  IF c \in DOMAIN Derived THEN loads[Derived[c].load] = Derived[c].level ELSE c \in signs

Powered(ld, load) == load = "none" \/ ld[load] > 0

Command(ld, e) == IF Powered(ld, e.needs) THEN [ld EXCEPT ![e.load] = e.level] ELSE ld
Commanded(effects) ==
  LET after[i \in 0 .. Len(effects)] ==
        IF i = 0 THEN loads ELSE Command(after[i - 1], effects[i])
  IN after[Len(effects)]

(* The rules of fdir.yaml: the callback of a rule runs when its condition, *)
(* after its persistence, becomes true.                                    *)
RuleCount(i) == IF Holds(Rules[i].cond) THEN AtMost(ruleAcc[i] + 1, Rules[i].persist) ELSE 0
Met == {i \in RuleIds : Holds(Rules[i].cond) /\ RuleCount(i) >= Rules[i].persist}

RuleEffects ==
  FlattenSeq([i \in RuleIds |-> IF i \in Met \ triggered THEN Rules[i].effects ELSE << >>])

StageEffects == IF soc # stage THEN Stages[soc] ELSE << >>

(* fault_propagation.yaml: a fault is not judged without its precondition. *)
Judged(f) == Powered(loads, Fault[f].needs)
FaultCount(f) ==
  IF Judged(f) /\ Holds(Fault[f].cond) THEN AtMost(acc[f] + 1, Fault[f].persist) ELSE 0
Present(f) == Judged(f) /\ Holds(Fault[f].cond) /\ FaultCount(f) >= Fault[f].persist

Detected == {f \in Faults \ active : Present(f)}
Resolved == {f \in active : Judged(f) /\ ~Present(f)}
Unjudged == {f \in active : ~Judged(f)}

StillActive == (active \cup Detected) \ (Resolved \cup Unjudged)

-----------------------------------------------------------------------------
(* Cascades.  Mutants: a fault that is resolved takes the cascades of the   *)
(* others with it; a cascade that is due stays in the list.                *)

Aged == [i \in DOMAIN pending |-> [pending[i] EXCEPT !.left = @ - 1]]
KeptUnlessAny == IF Resolved = {} THEN DOMAIN pending ELSE {}
Kept == {i \in DOMAIN pending : pending[i].fault \notin Resolved}
Due == {i \in Kept : pending[i].left <= 1}
NewCascades(f) ==
  [k \in DOMAIN Cascades(f) |-> [fault |-> f, k |-> k, left |-> Cascades(f)[k].delay]]
Fresh ==
  FlattenSeq([i \in DOMAIN Order |->
    IF Order[i] \in Detected THEN NewCascades(Order[i]) ELSE << >>])

WaitingTwice == Those(Aged, {i \in Kept : pending[i].left >= 1}) \o Fresh
Waiting == Those(Aged, Kept \ Due) \o Fresh

Applied(c) == [load |-> c.load, level |-> c.level, needs |-> "none"]
CascadeEffects ==
  Those([i \in DOMAIN pending |-> Applied(Cascades(pending[i].fault)[pending[i].k])], Due)

DoneNext(f) ==
  IF f \notin StillActive THEN {}
  ELSE (IF f \in Detected THEN {} ELSE done[f])
         \cup {pending[i].k : i \in {j \in Due : pending[j].fault = f}}

-----------------------------------------------------------------------------
(* Recoveries and their procedures.  Mutants: a last level is never over;  *)
(* a new recovery goes on counting the attempts of the one before.         *)

Since(f) == AtMost(recov[f].since + 1, LevelDelay[Len(LevelDelay)])

ExpiredBelowLast ==
  {f \in active \cap StillActive :
     /\ recov[f].state = "RUNNING" /\ Since(f) >= LevelDelay[recov[f].level]
     /\ recov[f].level < Len(Groups[Fault[f].group])}
Expired ==
  {f \in active \cap StillActive :
     recov[f].state = "RUNNING" /\ Since(f) >= LevelDelay[recov[f].level]}
Escalating ==
  {f \in Expired :
     /\ recov[f].level < Len(Groups[Fault[f].group])
     /\ recov[f].attempts < MaxAttempts}

NewRecoveryCounts(f) ==
  [state |-> "RUNNING", level |-> 1, attempts |-> recov[f].attempts + 1, since |-> 0]
NewRecovery(f) == [state |-> "RUNNING", level |-> 1, attempts |-> 1, since |-> 0]

RecovNext(f) ==
  IF f \in Detected /\ Recovers(f) THEN NewRecovery(f)
  ELSE IF f \in Resolved /\ recov[f].state # "NONE"
    THEN [recov[f] EXCEPT !.state = "COMPLETE", !.since = 0]
  ELSE IF f \in Escalating
    THEN [state |-> "RUNNING", level |-> recov[f].level + 1,
          attempts |-> recov[f].attempts + 1, since |-> 0]
  ELSE IF f \in Expired THEN [recov[f] EXCEPT !.state = "FAILED", !.since = 0]
  ELSE IF recov[f].state = "RUNNING" THEN [recov[f] EXCEPT !.since = Since(f)]
  ELSE recov[f]

(* Executions are keyed by procedure and start time: a second start of the *)
(* same procedure in one tick replaces the first.                          *)
StartedBy(seq, level(_)) ==
  [i \in DOMAIN seq |-> [name |-> Groups[Fault[seq[i]].group][level(seq[i])], age |-> 0]]

Started(late) ==
  LET early == Those(Order, {i \in DOMAIN Order : Order[i] \in Detected /\ Recovers(Order[i])})
      first(f) == 1
      next(f) == recov[f].level + 1
  IN StartedBy(early, first) \o StartedBy(late, next)

Append1(ps, p) == IF Contains(ps, p) THEN ps ELSE Append(ps, p)
Executing(started) ==
  LET after[i \in 0 .. Len(started)] ==
        IF i = 0 THEN [j \in DOMAIN procs |-> [procs[j] EXCEPT !.age = @ + 1]]
        ELSE Append1(after[i - 1], started[i])
  IN after[Len(started)]

StepsDue(p) ==
  LET steps == Procedures[p.name] IN Those(steps, {i \in DOMAIN steps : steps[i].delay = p.age})
Unfinished(p) == \E i \in DOMAIN Procedures[p.name] : Procedures[p.name][i].delay > p.age
Ongoing(ps) == Those(ps, {i \in DOMAIN ps : Unfinished(ps[i])})
StepEffects(ps) == FlattenSeq([i \in DOMAIN ps |-> StepsDue(ps[i])])

-----------------------------------------------------------------------------
ModeOf(met) ==
  IF \E i \in met : Rules[i].severity >= 3 THEN "EMERGENCY"
  ELSE IF ~commissioned \/ \E i \in met : Rules[i].severity >= 2 THEN "SAFE"
  ELSE IF loads["payload"] = 2 THEN "SCIENCE" ELSE "NOMINAL"

Basic ==
  /\ triggered' = Met
  /\ ruleAcc' = [i \in RuleIds |-> RuleCount(i)]
  /\ stage' = soc
  /\ scMode' = ModeOf(Met)
  /\ UNCHANGED <<environment, reloaded, changes>>

(* A tick of a commissioned spacecraft.  The order in which two recoveries *)
(* escalate in one tick is that of the dictionary of recovery states.      *)
Tick ==
  /\ commissioned
  /\ Basic
  /\ \E late \in SetToSeqs(Escalating) : \E started \in {Started(late)} :
       \E ps \in {Executing(started)} :
         /\ procs' = Ongoing(ps)
         /\ \E all \in {RuleEffects \o StageEffects \o CascadeEffects \o StepEffects(ps)} :
              loads' = Commanded(all)
  /\ active' = StillActive
  /\ acc' = [f \in Faults |-> FaultCount(f)]
  /\ pending' = Waiting
  /\ recov' = [f \in Faults |-> RecovNext(f)]
  /\ done' = [f \in Faults |-> DoneNext(f)]

(* Below NOMINAL detection is disarmed; rules, load shedding and the       *)
(* procedures under way go on.                                             *)
DisarmedTick ==
  /\ ~commissioned
  /\ Basic
  /\ \E ps \in {Executing(<< >>)} :
       /\ procs' = Ongoing(ps)
       /\ \E all \in {RuleEffects \o StageEffects \o StepEffects(ps)} : loads' = Commanded(all)
  /\ active' = {} /\ pending' = << >>
  /\ acc' = IF active # {} \/ pending # << >> THEN [f \in Faults |-> 0] ELSE acc
  /\ recov' = [f \in Faults |->
       IF recov[f].state = "RUNNING" THEN [recov[f] EXCEPT !.since = Since(f)] ELSE recov[f]]
  /\ done' = [f \in Faults |-> {}]

(* The simulator is stopped and comes up again from the breakpoint just    *)
(* saved: get_state of the engine and the state registry hold neither the  *)
(* pending cascades nor the persistence counters.                          *)
Reload ==
  /\ changes < MaxChanges /\ changes' = changes + 1
  /\ ruleAcc' = [i \in RuleIds |-> 0]
  /\ acc' = [f \in Faults |-> 0]
  /\ pending' = << >>
  /\ reloaded' = TRUE
  /\ UNCHANGED <<environment, loads, triggered, stage, active, recov, done, procs, scMode>>

Change ==
  /\ changes < MaxChanges /\ changes' = changes + 1
  /\ UNCHANGED <<rules, faults, procs, scMode, reloaded>>

SignChanges(s) ==
  /\ Change
  /\ signs' = IF s \in signs THEN signs \ {s} ELSE signs \cup {s}
  /\ UNCHANGED <<soc, commissioned, loads>>

SocChanges(n) ==
  /\ Change /\ n # soc /\ soc' = n
  /\ UNCHANGED <<signs, commissioned, loads>>

PhaseChanges ==
  /\ Change /\ commissioned' = ~commissioned
  /\ UNCHANGED <<signs, soc, loads>>

OperatorCommands(l, n) ==
  /\ Change /\ loads[l] # n
  /\ loads' = [loads EXCEPT ![l] = n]
  /\ UNCHANGED environment

Next ==
  \/ Tick
  \/ DisarmedTick
  \/ Reload
  \/ \E s \in Signs : SignChanges(s)
  \/ \E n \in DOMAIN Stages : SocChanges(n)
  \/ PhaseChanges
  \/ \E l \in LoadNames : \E n \in LevelsOf[l] : OperatorCommands(l, n)

Engine == Tick \/ DisarmedTick
Spec == Init /\ [][Next]_vars /\ WF_vars(Engine)

-----------------------------------------------------------------------------
(* Properties.                                                             *)

(* An active fault with a recovery has one that runs or is exhausted, one  *)
(* attempt for each level, whatever was unpowered, disarmed, cleared and   *)
(* detected again since (_tick_fault_detection, _tick_recovery): none is   *)
(* complete while its fault lasts, none is given up before its last level. *)
RecoveryFollowsFault ==
  \A f \in Faults : Recovers(f) =>
    /\ f \in active => recov[f].state \in {"RUNNING", "FAILED"}
    /\ recov[f].attempts = recov[f].level
    /\ recov[f].state = "FAILED" => recov[f].level = Len(Groups[Fault[f].group])

(* While a fault is active each of its cascades has been applied since it  *)
(* was detected, or is still to come (_pending_cascades).                  *)
CascadesSurviveReload ==
  \A f \in active : \A k \in DOMAIN Cascades(f) :
    k \in done[f] \/ \E i \in DOMAIN pending : pending[i].fault = f /\ pending[i].k = k

(* ... and as long as no breakpoint is loaded it is so.                    *)
NoCascadeForgotten == ~reloaded => CascadesSurviveReload

(* A recovery whose fault stays escalates until it is exhausted: it does   *)
(* not run for ever (_tick_recovery).                                      *)
RecoveryEnds ==
  \A f \in Faults :
    (f \in active /\ recov[f].state = "RUNNING") ~>
      (recov[f].state # "RUNNING" \/ f \notin active)
=============================================================================
