-------------------------------- MODULE Obcp --------------------------------
(***************************************************************************)
(* PUS Service 18, the on-board control procedures: ObcpManager of         *)
(* smo_simulator/obcp.py.                                                  *)
(*                                                                         *)
(* The manager keeps a store of procedures and a table of running ones.    *)
(* Telecommands load, delete, start and stop procedures.  Once per engine  *)
(* tick the manager first collects, under its lock, every step whose delay *)
(* has elapsed, and then, outside the lock, executes the collected steps   *)
(* one after the other and announces the procedures that finished.  A step *)
(* is itself a telecommand, so while the collected steps execute, one of   *)
(* them may load, delete, start or stop a procedure.                       *)
(*                                                                         *)
(* Everything here runs on the engine's tick thread: telecommands from the *)
(* ground are drained before tick() in the same engine tick, breakpoints   *)
(* are saved and restored between engine ticks.                            *)
(***************************************************************************)
EXTENDS Integers, Sequences, FiniteSets

CONSTANTS ProcIds,        \* procedure identifiers that telecommands name
          Programs,       \* names of the step lists a load can carry
          Steps,          \* Steps[g]: the step list of program g
          MaxProcedures,  \* MAX_PROCEDURES
          MaxSteps,       \* MAX_STEPS
          TickSizes,      \* the simulated seconds one engine tick can cover
          MaxRestores     \* bound: breakpoint loads in a behaviour

AllRuns == 0   \* in TC(18,4) proc_id 0 stops every running procedure; in the
               \* other requests 0 is an identifier like any other

(* What a step telecommand asks for.  "malformed" does not decommutate,    *)
(* "unaccepted" fails the engine's acceptance check, "plain" is any other  *)
(* command that leaves the manager alone; the rest are Service 18.         *)
Requests == {"malformed", "unaccepted", "plain",
             "load", "delete", "start", "stop"}

Tc == [op : Requests, pid : ProcIds, prog : Programs]

Step == [delay_s : Int, tc : Tc]

ASSUME ObcpAssumption ==
  /\ ProcIds \subseteq Nat
  /\ AllRuns \in ProcIds
  /\ IsFiniteSet(ProcIds)
  /\ Steps \in [Programs -> Seq(Step)]
  /\ MaxProcedures \in Nat
  /\ MaxSteps \in Nat
  /\ TickSizes \subseteq Nat \ {0}
  /\ MaxRestores \in Nat

VARIABLES
  procedures,  \* _procedures: identifier -> program it holds
  running,     \* _running: identifier -> step_index (from 1), wait_remaining
               \* and, an observer, the seconds ticked since the start: age
  todo,        \* tick(): running identifiers not yet looked at
  due,         \* tick(): collected steps, in collection order
  completed,   \* tick(): identifiers whose last step was collected
  emitted,     \* the Service 5 events the latest action raised
  saved,       \* the state a breakpoint holds, or NoBreakpoint
  outcome,     \* observer: what became of the latest step executed
  failed,      \* observer: runs of this tick that raised STEP_FAILED
  open,        \* observer: runs started whose end was not announced
  restores     \* bound: breakpoint loads so far

vars == <<procedures, running, todo, due, completed, emitted, saved,
          outcome, failed, open, restores>>
-----------------------------------------------------------------------------
StartedEvent    == "OBCP_STARTED"
CompletedEvent  == "OBCP_COMPLETED"
AbortedEvent    == "OBCP_ABORTED"
StepFailedEvent == "OBCP_STEP_FAILED"

Event == [event : {StartedEvent, CompletedEvent, AbortedEvent, StepFailedEvent},
          pid : ProcIds]

Ev(e, P) == {[event |-> e, pid |-> p] : p \in P}

Empty == [p \in {} |-> 0]

NoBreakpoint == [procedures |-> Empty, running |-> Empty, present |-> FALSE]

Idle == todo = {} /\ due = <<>> /\ completed = {}

(* The table f with entry v at key p.                                      *)
With(f, p, v) == [q \in DOMAIN f \cup {p} |-> IF q = p THEN v ELSE f[q]]

(* The runs that remain when those of the procedures in P are aborted.     *)
Without(P) == [p \in DOMAIN running \ P |-> running[p]]

Count(b) == IF b THEN 1 ELSE 0

(* Raise the events in E.  The observer "open" counts one run up for each  *)
(* STARTED and one down for each announcement of an end.                   *)
Raise(E) ==
  /\ emitted' = E
  /\ open' = [p \in ProcIds |->
                open[p] + Count([event |-> StartedEvent, pid |-> p] \in E)
                        - Count([event |-> AbortedEvent, pid |-> p] \in E)
                        - Count([event |-> CompletedEvent, pid |-> p] \in E)]
-----------------------------------------------------------------------------
(* The four Service 18 requests.  F is the set of events already raised in *)
(* the same action.                                                        *)

(* load(): a list of a wrong length or a full store is refused; replacing  *)
(* a running procedure aborts its run.                                     *)
Storable(p, g) ==
  /\ Steps[g] # <<>> /\ Len(Steps[g]) <= MaxSteps
  /\ p \in DOMAIN procedures \/ Cardinality(DOMAIN procedures) < MaxProcedures

Load(p, g) ==
  \/ /\ Storable(p, g)
     /\ procedures' = With(procedures, p, g)
     /\ running' = Without({p})
     /\ Raise(Ev(AbortedEvent, DOMAIN running \cap {p}))
  \/ /\ ~Storable(p, g)
     /\ Raise({})
     /\ UNCHANGED <<procedures, running>>

(* delete(): a running procedure is aborted first.                         *)
Delete(p) ==
  /\ procedures' = [q \in DOMAIN procedures \ {p} |-> procedures[q]]
  /\ running' = Without({p})
  /\ Raise(Ev(AbortedEvent, DOMAIN running \cap {p}))

(* start(): refused unless the procedure is loaded and not running.        *)
StartableAgain(p) == p \in DOMAIN procedures   \* mutant: running is not checked

Startable(p) == p \in DOMAIN procedures \ DOMAIN running

NewRun(p) ==
  [step_index |-> 1, wait_remaining |-> Steps[procedures[p]][1].delay_s, age |-> 0]

Start(p) ==
  \/ /\ Startable(p)
     /\ running' = With(running, p, NewRun(p))
     /\ Raise(Ev(StartedEvent, {p}))
     /\ UNCHANGED procedures
  \/ /\ ~Startable(p)
     /\ Raise({})
     /\ UNCHANGED <<procedures, running>>

(* stop(): one running procedure, or all of them.                          *)
Stopped(p) == IF p = AllRuns THEN DOMAIN running ELSE DOMAIN running \cap {p}

Stop(p) ==
  /\ running' = Without(Stopped(p))
  /\ Raise(Ev(AbortedEvent, Stopped(p)))
  /\ UNCHANGED procedures

(* ServiceDispatcher._handle_s18: the request a telecommand carries.       *)
Handle(tc) ==
  \/ tc.op = "load"   /\ Load(tc.pid, tc.prog)
  \/ tc.op = "delete" /\ Delete(tc.pid)
  \/ tc.op = "start"  /\ Start(tc.pid)
  \/ tc.op = "stop"   /\ Stop(tc.pid)
-----------------------------------------------------------------------------
(* A Service 18 telecommand from the ground or from the time-tagged        *)
(* schedule: both are dispatched before tick() in an engine tick.          *)
Command(tc) ==
  /\ Idle
  /\ Handle(tc)
  /\ outcome' = "none"
  /\ UNCHANGED <<todo, due, completed, saved, failed, restores>>

(* tick(), first half, under the lock: subtract the tick from every wait.  *)
Tick(dt) ==
  /\ Idle
  /\ running' = [p \in DOMAIN running |->
                   [step_index     |-> running[p].step_index,
                    wait_remaining |-> running[p].wait_remaining - dt,
                    age            |-> running[p].age + dt]]
  /\ todo' = DOMAIN running
  /\ failed' = {}
  /\ outcome' = "none"
  /\ Raise({})
  /\ UNCHANGED <<procedures, due, completed, saved, restores>>

StepsOf(p) == Steps[procedures[p]]

(* The entry that _execute_step will be called with.                       *)
Entry(p, i) == [pid |-> p, index |-> i, tc |-> StepsOf(p)[i].tc]

(* The run of p once its current step was taken and another one follows.   *)
WaitFromTick(p) ==   \* mutant: the part of the tick left over is lost
  LET i == running[p].step_index
  IN [step_index     |-> i + 1,
      wait_remaining |-> StepsOf(p)[i + 1].delay_s,
      age            |-> running[p].age]

Advanced(p) ==
  LET i == running[p].step_index
  IN [step_index     |-> i + 1,
      wait_remaining |-> running[p].wait_remaining + StepsOf(p)[i + 1].delay_s,
      age            |-> running[p].age]

(* tick(), one turn of the loop over a running procedure: nothing is due   *)
(* yet, or a step is taken that is not the last, or the last one is.       *)
NothingDueForever(p) ==   \* mutant: the loop does not move on
  /\ p \in todo
  /\ running[p].wait_remaining > 0
  /\ Raise({})
  /\ outcome' = "none"
  /\ UNCHANGED <<procedures, running, todo, due, completed, saved, failed, restores>>

NothingDue(p) ==
  /\ p \in todo
  /\ running[p].wait_remaining > 0
  /\ todo' = todo \ {p}
  /\ Raise({})
  /\ outcome' = "none"
  /\ UNCHANGED <<procedures, running, due, completed, saved, failed, restores>>

CollectStep(p) ==
  /\ p \in todo
  /\ running[p].wait_remaining <= 0
  /\ running[p].step_index < Len(StepsOf(p))
  /\ due' = Append(due, Entry(p, running[p].step_index))
  /\ running' = [running EXCEPT ![p] = Advanced(p)]
  /\ Raise({})
  /\ outcome' = "none"
  /\ UNCHANGED <<procedures, todo, completed, saved, failed, restores>>

CollectLastStep(p) ==
  /\ p \in todo
  /\ running[p].wait_remaining <= 0
  /\ running[p].step_index >= Len(StepsOf(p))
  /\ due' = Append(due, Entry(p, running[p].step_index))
  /\ running' = Without({p})
  /\ completed' = completed \cup {p}
  /\ todo' = todo \ {p}
  /\ Raise({})
  /\ outcome' = "none"
  /\ UNCHANGED <<procedures, saved, failed, restores>>
-----------------------------------------------------------------------------
(* tick(), second half, outside the lock: execute the collected steps.     *)
Executing == todo = {} /\ due # <<>>

(* _fail_step: the event, and an abort if the procedure is running now.    *)
FailStep(p) ==
  /\ running' = Without({p})
  /\ Raise(Ev(StepFailedEvent, {p}) \cup Ev(AbortedEvent, DOMAIN running \cap {p}))
  /\ failed' = failed \cup {p}
  /\ outcome' = "failed"
  /\ UNCHANGED procedures

(* Refused before _dispatch_tc is called: not decommutable, or turned down *)
(* by _check_tc_acceptance.                                                *)
RejectStep ==
  /\ Executing
  /\ Head(due).tc.op \in {"malformed", "unaccepted"}
  /\ due' = Tail(due)
  /\ FailStep(Head(due).pid)
  /\ UNCHANGED <<todo, completed, saved, restores>>

(* _dispatch_tc runs the command, or turns it down at one of its own gates *)
(* (bootloader subset, CAN bus, power line), or the handler refuses it; in *)
(* the last two cases it returns as if nothing had happened.               *)
DispatchPlain(o) ==
  /\ Executing
  /\ Head(due).tc.op = "plain"
  /\ o \in {"executed", "gated", "refused"}
  /\ due' = Tail(due)
  /\ outcome' = o
  /\ Raise({})
  /\ UNCHANGED <<procedures, running, todo, completed, saved, failed, restores>>

(* _dispatch_tc raises.                                                    *)
DispatchRaises ==
  /\ Executing
  /\ Head(due).tc.op = "plain"
  /\ due' = Tail(due)
  /\ FailStep(Head(due).pid)
  /\ UNCHANGED <<todo, completed, saved, restores>>

(* The step is a Service 18 request.  It is not in the bootloader subset,  *)
(* so it may be gated.                                                     *)
DispatchRequest ==
  /\ Executing
  /\ due' = Tail(due)
  /\ Handle(Head(due).tc)
  /\ outcome' = "executed"
  /\ UNCHANGED <<todo, completed, saved, failed, restores>>

GateRequest ==
  /\ Executing
  /\ Head(due).tc.op \in {"load", "delete", "start", "stop"}
  /\ due' = Tail(due)
  /\ outcome' = "gated"
  /\ Raise({})
  /\ UNCHANGED <<procedures, running, todo, completed, saved, failed, restores>>

(* The last loop of tick(): announce the procedures that completed.        *)
AnnounceCompleted(p) ==
  /\ todo = {} /\ due = <<>>
  /\ p \in completed
  /\ completed' = completed \ {p}
  /\ Raise(Ev(CompletedEvent, {p}))
  /\ outcome' = "none"
  /\ UNCHANGED <<procedures, running, todo, due, saved, failed, restores>>
-----------------------------------------------------------------------------
(* get_state() and set_state(), called by the BreakpointManager between    *)
(* ticks.  A restored run keeps its step index and its remaining wait.     *)
SaveBreakpoint ==
  /\ Idle
  /\ restores < MaxRestores
  /\ saved' = [procedures |-> procedures, running |-> running, present |-> TRUE]
  /\ emitted' = {}
  /\ outcome' = "none"
  /\ UNCHANGED <<procedures, running, todo, due, completed, failed, open, restores>>

Restored ==
  [p \in DOMAIN saved.running \cap DOMAIN saved.procedures |-> saved.running[p]]

LoadBreakpoint ==
  /\ Idle
  /\ saved.present
  /\ restores < MaxRestores
  /\ restores' = restores + 1
  /\ procedures' = saved.procedures
  /\ running' = Restored
  /\ open' = [p \in ProcIds |-> Count(p \in DOMAIN Restored)]
  /\ emitted' = {}
  /\ outcome' = "none"
  /\ UNCHANGED <<todo, due, completed, saved, failed>>
-----------------------------------------------------------------------------
(* The procedures that load_from_dir puts in the store at boot are the     *)
(* result of loads, so an empty store is the general initial state.        *)
Init ==
  /\ procedures = Empty
  /\ running = Empty
  /\ todo = {}
  /\ due = <<>>
  /\ completed = {}
  /\ emitted = {}
  /\ saved = NoBreakpoint
  /\ outcome = "none"
  /\ failed = {}
  /\ open = [p \in ProcIds |-> 0]
  /\ restores = 0

Collect ==
  \E p \in ProcIds : NothingDue(p) \/ CollectStep(p) \/ CollectLastStep(p)

Execute ==
  \/ RejectStep
  \/ \E o \in {"executed", "gated", "refused"} : DispatchPlain(o)
  \/ DispatchRaises
  \/ DispatchRequest
  \/ GateRequest

Announce == \E p \in ProcIds : AnnounceCompleted(p)

Next ==
  \/ \E tc \in Tc : Command(tc)
  \/ \E dt \in TickSizes : Tick(dt)
  \/ Collect
  \/ Execute
  \/ Announce
  \/ SaveBreakpoint
  \/ LoadBreakpoint

Spec == Init /\ [][Next]_vars

(* tick() runs to its end once called, and the engine loop keeps calling   *)
(* it as long as the simulation is not frozen.                             *)
Fairness ==
  /\ WF_vars(\E dt \in TickSizes : Tick(dt))
  /\ WF_vars(Collect)
  /\ WF_vars(Execute)
  /\ WF_vars(Announce)

FairSpec == Spec /\ Fairness
-----------------------------------------------------------------------------
Run == [step_index : Nat \ {0}, wait_remaining : Int, age : Nat]

(* A table from some procedure identifiers to values in S.                 *)
IsTable(f, S) == DOMAIN f \subseteq ProcIds /\ f \in [DOMAIN f -> S]

(* The type invariant of the manager's state.                              *)
TypeOK ==
  /\ IsTable(procedures, Programs)
  /\ IsTable(running, Run)
  /\ todo \subseteq ProcIds
  /\ due \in Seq([pid : ProcIds, index : Nat \ {0}, tc : Tc])
  /\ completed \subseteq ProcIds
  /\ emitted \subseteq Event
  /\ IsTable(saved.procedures, Programs)
  /\ IsTable(saved.running, Run)
  /\ outcome \in {"none", "failed", "executed", "gated", "refused"}
  /\ failed \subseteq ProcIds
  /\ open \in [ProcIds -> Int]
  /\ restores \in Nat

(* A running procedure is in the store and its next step exists, so tick() *)
(* never indexes past the step list and never meets the case "deleted      *)
(* underneath us", whatever was loaded, replaced, deleted or restored and  *)
(* whichever step asked for it.                                            *)
RunsAreLoaded ==
  \A p \in DOMAIN running :
    p \in DOMAIN procedures /\ running[p].step_index <= Len(StepsOf(p))

(* load() never lets the store grow past MAX_PROCEDURES, also when a       *)
(* procedure loads others while the store is full.                         *)
StoreBounded == Cardinality(DOMAIN procedures) <= MaxProcedures

(* Every run that started is announced ended once: the runs started and    *)
(* not announced ended are the running ones and those tick() is about to   *)
(* announce, even if a procedure restarts itself, or is replaced or        *)
(* deleted, by one of the steps collected with its last one.               *)
EveryEndAnnouncedOnce ==
  \A p \in ProcIds :
    open[p] = Count(p \in DOMAIN running) + Count(p \in completed)

(* The seconds after its start at which step i of program g is due.        *)
DueTime(g, i) ==
  LET t[k \in 0 .. i] == IF k = 0 THEN 0 ELSE t[k - 1] + Steps[g][k].delay_s
  IN t[i]

(* Delays add up without drift: between ticks a run waits for step i       *)
(* exactly when the seconds it has been ticked have reached the due time   *)
(* of step i - 1 and not that of step i.                                   *)
StepsOnTime ==
  \A p \in DOMAIN running :
    LET i == running[p].step_index  g == procedures[p]
    IN /\ i > 1 => running[p].age >= DueTime(g, i - 1)
       /\ Idle /\ running[p].age > 0 => running[p].age < DueTime(g, i)

(* Every run ends: by completing, by a failure, or by a command.  Delays   *)
(* are finite and the simulation is not frozen for ever.                   *)
EveryRunEnds ==
  \A p \in ProcIds : p \in DOMAIN running ~> p \notin DOMAIN running

(* OBCP_GUIDE, "Fail-stop": a step that is malformed or rejected at        *)
(* acceptance aborts the rest of the procedure.  So once a run has raised  *)
(* STEP_FAILED no further step of it is dispatched.                        *)
FailStop ==
  [][ due # <<>> /\ due' = Tail(due) => Head(due).pid \notin failed ]_vars

(* The shipped procedures rely on a step that the power gate or a handler  *)
(* refuses raising OBCP_STEP_FAILED.                                       *)
RefusalFailsStep ==
  [][ due # <<>> /\ due' = Tail(due) /\ outcome' \in {"gated", "refused"}
      => Ev(StepFailedEvent, {Head(due).pid}) \subseteq emitted' ]_vars
=============================================================================
