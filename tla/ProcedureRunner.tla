--------------------------- MODULE ProcedureRunner ---------------------------
(***************************************************************************)
(* The control system's procedure runner: ProcedureRunner of               *)
(* smo_mcs/procedure_runner.py.  Operators load, start, pause, resume,     *)
(* abort, advance and skip through HTTP handlers; an asyncio task walks    *)
(* through the steps.  Both run on one event loop: a handler can run only  *)
(* while the task is suspended in an await, and an event that is set wakes *)
(* the task later, when other handlers may have run in between.            *)
(*                                                                         *)
(* abort() cancels the task, which then never runs again: the checks for   *)
(* ABORTED in the loop are never true and are left out, and so is that for *)
(* a step skipped beforehand (results ahead are pending, StepsInOrder).    *)
(***************************************************************************)
EXTENDS Integers, Sequences

CONSTANT Plans   \* the lists of steps that can be loaded

Kinds == {"command", "verified", "check", "wait", "go_nogo", "unknown", "broken"}

ASSUME ProcedureRunnerAssumption == Plans \subseteq Seq(Kinds)

VARIABLES
  state,        \* state
  steps,        \* steps
  step_by_step, \* step_by_step
  current_step, \* current_step, from 1, and 0 before the first
  results,      \* step_results
  pause_event,  \* whether _pause_event is set: not paused
  step_event,   \* whether _step_event is set
  idx,          \* the loop's variable, from 1
  task,           \* where the task is
  confirmed,    \* observer: an operator has confirmed since the latest step
  late          \* observer: steps begun since, and despite, a pause; up to 2

runnerVars == <<state, steps, step_by_step, current_step, results, pause_event,
          step_event, idx, task, confirmed, late>>

plan == <<steps, step_by_step>>
events == <<pause_event, step_event>>

Active == state \in {"RUNNING", "PAUSED"}

(* In these the task awaits something, or is ready to go on but has not    *)
(* been scheduled, or does not exist.                                      *)
Awaits == {"none", "ready", "at_pause", "pause_woken", "at_step",
           "step_woken", "sending", "waiting", "polling"}

Suspended == task \in Awaits

Untried(s) == [i \in DOMAIN s |-> "PENDING"]

RunnerInit ==
  /\ state = "IDLE"
  /\ steps = <<>>
  /\ step_by_step = FALSE
  /\ current_step = 0
  /\ results = <<>>
  /\ pause_event = TRUE
  /\ step_event = FALSE
  /\ idx = 0
  /\ task = "none"
  /\ confirmed = FALSE
  /\ late = 0
-----------------------------------------------------------------------------
(* The handlers.                                                           *)
Load(s, by_step) ==
  /\ Suspended
  /\ ~Active
  /\ state' = "LOADED"
  /\ steps' = s
  /\ step_by_step' = by_step
  /\ current_step' = 0
  /\ results' = Untried(s)
  /\ confirmed' = FALSE /\ late' = 0
  /\ UNCHANGED <<events, idx, task>>

Start ==
  /\ Suspended
  /\ state = "LOADED"
  /\ state' = "RUNNING"
  /\ pause_event' = TRUE
  /\ step_event' = TRUE
  /\ idx' = 1
  /\ task' = "ready"
  /\ UNCHANGED <<plan, current_step, results, confirmed, late>>

PauseUncleared == UNCHANGED pause_event   \* mutant: the event is not cleared

ClearPause == pause_event' = FALSE

Pause ==
  /\ Suspended
  /\ state = "RUNNING"
  /\ state' = "PAUSED"
  /\ ClearPause
  /\ late' = 0
  /\ UNCHANGED <<plan, current_step, results, step_event, idx, task, confirmed>>

(* The task once the events have the values of this step.                  *)
Woken ==
  CASE task = "at_pause" /\ pause_event' -> "pause_woken"
    [] task = "at_step" /\ step_event'   -> "step_woken"
    [] OTHER                           -> task

LeavePauseUnset == state' = "RUNNING" /\ UNCHANGED pause_event   \* mutant

(* What step_advance() and skip_step() do about a pause.                   *)
LeavePause ==
  /\ state' = "RUNNING"
  /\ pause_event' = (pause_event \/ state = "PAUSED")

Resume ==
  /\ Suspended
  /\ state = "PAUSED"
  /\ state' = "RUNNING"
  /\ pause_event' = TRUE
  /\ step_event' = (step_event \/ step_by_step)
  /\ task' = Woken
  /\ confirmed' = TRUE
  /\ UNCHANGED <<plan, current_step, results, idx, late>>

StepAdvance ==
  /\ Suspended
  /\ Active
  /\ LeavePause
  /\ step_event' = TRUE
  /\ task' = Woken
  /\ confirmed' = TRUE
  /\ UNCHANGED <<plan, current_step, results, idx, late>>

SkipStep ==
  /\ Suspended
  /\ Active
  /\ results' = [i \in DOMAIN results |->
                   IF i = current_step THEN "SKIPPED" ELSE results[i]]
  /\ LeavePause
  /\ step_event' = TRUE
  /\ task' = Woken
  /\ confirmed' = TRUE
  /\ UNCHANGED <<plan, current_step, idx, late>>

(* abort() ends the task, wherever it is suspended.                        *)
Abort ==
  /\ Suspended
  /\ Active
  /\ state' = "ABORTED"
  /\ pause_event' = TRUE
  /\ step_event' = TRUE
  /\ task' = "none"
  /\ UNCHANGED <<plan, current_step, results, idx, confirmed, late>>

Operator ==
  \/ \E s \in Plans, by_step \in BOOLEAN : Load(s, by_step)
  \/ Start \/ Pause \/ Resume \/ StepAdvance \/ SkipStep \/ Abort
-----------------------------------------------------------------------------
(* The task: the top of the loop, where waiting for an event that is set   *)
(* does not suspend.                                                       *)
TaskBegins ==
  /\ task = "ready"
  /\ task' = "top"
  /\ UNCHANGED <<state, plan, current_step, results, events, idx, confirmed, late>>

Finish ==
  /\ task = "top"
  /\ idx > Len(steps)
  /\ state' = IF state = "RUNNING" THEN "COMPLETED" ELSE state
  /\ task' = "none"
  /\ UNCHANGED <<plan, current_step, results, events, idx, confirmed, late>>

WaitWhilePaused ==
  /\ task = "top"
  /\ idx <= Len(steps)
  /\ ~pause_event
  /\ task' = "at_pause"
  /\ UNCHANGED <<state, plan, current_step, results, events, idx, confirmed, late>>

(* The task gets past its wait for _pause_event.                           *)
PastPause ==
  \/ task = "top" /\ idx <= Len(steps) /\ pause_event
  \/ task = "pause_woken"

StepEventUncleared == UNCHANGED step_event   \* mutant: clear() is missing

ClearStep == step_event' = FALSE

(* In step-by-step mode it pauses itself before every step but the first.  *)
AwaitAdvance ==
  /\ PastPause
  /\ step_by_step /\ idx > 1
  /\ ClearStep
  /\ state' = "PAUSED"
  /\ pause_event' = FALSE
  /\ task' = IF step_event' THEN "step_woken" ELSE "at_step"
  /\ UNCHANGED <<plan, current_step, results, idx, confirmed, late>>

(* A pause that came after the advance that woke the task is overwritten.  *)
EnterStep ==
  /\ \/ PastPause /\ ~(step_by_step /\ idx > 1) /\ UNCHANGED state
     \/ task = "step_woken" /\ state' = "RUNNING"
  /\ current_step' = idx
  /\ results' = [results EXCEPT ![idx] = "RUNNING"]
  /\ task' = "executing"
  /\ confirmed' = FALSE
  /\ late' = IF state' = "PAUSED" /\ late < 2 THEN late + 1 ELSE late
  /\ UNCHANGED <<plan, events, idx>>
-----------------------------------------------------------------------------
(* The outcomes of a step.  Success overwrites whatever is noted for it.   *)
Passed ==
  /\ results' = [results EXCEPT ![idx] = "PASSED"]
  /\ idx' = idx + 1
  /\ task' = "top"
  /\ confirmed' = FALSE
  /\ UNCHANGED <<state, plan, current_step, events, late>>

FailedGoesOn ==   \* mutant: the loop goes on after a failure
  /\ results' = [results EXCEPT ![idx] = "FAILED"]
  /\ idx' = idx + 1 /\ task' = "top" /\ confirmed' = FALSE
  /\ UNCHANGED <<state, plan, current_step, events, late>>

Failed ==
  /\ IF results[idx] = "SKIPPED"
       THEN idx' = idx + 1 /\ task' = "top" /\ UNCHANGED <<state, results>>
       ELSE /\ results' = [results EXCEPT ![idx] = "FAILED"]
            /\ state' = "FAILED"
            /\ task' = "none"
            /\ UNCHANGED idx
  /\ confirmed' = FALSE
  /\ UNCHANGED <<plan, current_step, events, late>>

(* A timeout is noted over a skip, and a failure over the timeout.         *)
TimedOut ==
  /\ results' = [results EXCEPT ![idx] = "FAILED"]
  /\ state' = "FAILED"
  /\ task' = "none"
  /\ UNCHANGED <<plan, current_step, events, idx, confirmed, late>>

(* An exception leaves the step as it was.                                 *)
Raised ==
  /\ state' = "FAILED"
  /\ task' = "none"
  /\ UNCHANGED <<plan, current_step, results, events, idx, confirmed, late>>

GoTo(p) ==
  /\ task' = p
  /\ UNCHANGED <<state, plan, current_step, results, events, idx, confirmed, late>>

(* _execute_step, up to its first await.                                   *)
ExecuteStep ==
  /\ task = "executing"
  /\ \/ steps[idx] = "go_nogo" /\ Passed
     \/ steps[idx] = "unknown" /\ Failed
     \/ steps[idx] = "broken" /\ Raised
     \/ steps[idx] = "wait" /\ GoTo("waiting")
     \/ steps[idx] = "check" /\ GoTo("poll")
     \/ steps[idx] \in {"command", "verified"} /\ GoTo("send")

WaitElapses ==
  /\ task = "waiting"
  /\ Passed

(* Sending suspends only while the connection cannot take more.            *)
SendSuspends ==
  /\ task = "send"
  /\ GoTo("sending")

CommandSent ==
  /\ task \in {"send", "sending"}
  /\ \/ steps[idx] = "command" /\ Passed
     \/ steps[idx] = "verified" /\ GoTo("poll")

SendFails ==
  /\ task \in {"send", "sending"}
  /\ Failed

(* _wait_for_condition, a poll every second until the deadline.            *)
ConditionMet ==
  /\ task = "poll"
  /\ Passed

ConditionUnmet ==
  /\ task = "poll"
  /\ GoTo("polling")

PollAgain ==
  /\ task = "polling"
  /\ GoTo("poll")

DeadlinePasses ==
  /\ task = "polling"
  /\ TimedOut

Task ==
  \/ TaskBegins \/ Finish \/ WaitWhilePaused \/ AwaitAdvance \/ EnterStep
  \/ ExecuteStep \/ WaitElapses
  \/ SendSuspends \/ CommandSent \/ SendFails
  \/ ConditionMet \/ ConditionUnmet \/ PollAgain \/ DeadlinePasses

RunnerNext == Operator \/ Task

(* The event loop runs what is ready, and a deadline passes.               *)
RunnerSpec == RunnerInit /\ [][RunnerNext]_runnerVars /\ WF_runnerVars(Task) /\ SF_runnerVars(DeadlinePasses)
-----------------------------------------------------------------------------
RunnerTypeOK ==
  /\ state \in {"IDLE", "LOADED", "RUNNING", "PAUSED", "COMPLETED", "ABORTED",
                "FAILED"}
  /\ steps \in Plans \cup {<<>>}
  /\ step_by_step \in BOOLEAN
  /\ current_step \in 0 .. Len(steps)
  /\ results \in [DOMAIN steps -> {"PENDING", "RUNNING", "PASSED", "FAILED",
                                   "SKIPPED"}]
  /\ pause_event \in BOOLEAN /\ step_event \in BOOLEAN
  /\ idx \in Nat
  /\ task \in Awaits \cup {"top", "executing", "send", "poll"}
  /\ confirmed \in BOOLEAN /\ late \in 0 .. 2

(* Steps run in order, none twice: those before the current one passed or  *)
(* were skipped, those after it have not begun; and a completed procedure  *)
(* has all its steps done.                                                 *)
StepsInOrder ==
  \A i \in DOMAIN results :
    /\ i < current_step => results[i] \in {"PASSED", "SKIPPED"}
    /\ i > current_step => results[i] = "PENDING"
    /\ state = "COMPLETED" => results[i] \in {"PASSED", "SKIPPED"}

(* A procedure is started, paused or resumed with a task behind it that    *)
(* has steps to do, or it has done all its steps.                          *)
TaskOrDone ==
  /\ Active => task # "none" \/ current_step = Len(steps)
  /\ ~Active => task = "none"

(* "Pause execution after current step completes": whatever operators do,  *)
(* at most one more step begins while the procedure is paused (the one     *)
(* that a resume just before the pause has let go).                        *)
StopsWhenPaused == late <= 1

(* Step-by-step mode: "advance one step at a time with operator            *)
(* confirmation", given after the step before has ended.                   *)
ConfirmedSteps ==
  [][ step_by_step /\ current_step' = current_step + 1 /\ current_step > 0
      => confirmed ]_runnerVars

(* A procedure that is not paused and not run step by step comes to an end,*)
(* though its checks may never be met.                                     *)
EveryRunEnds ==
  task # "none" /\ ~step_by_step ~> task = "none" \/ state = "PAUSED" \/ step_by_step
-----------------------------------------------------------------------------
(* What comments say and the code does not keep.                           *)

(* "RUNNING -> PAUSED -> COMPLETED / ABORTED / FAILED": an active          *)
(* procedure has a task that will bring it to one of these.                *)
ActiveHasTask == Active => task # "none"

(* "Skip the current step and move to the next": a skipped step does not   *)
(* fail the procedure.                                                     *)
SkipMovesOn ==
  [][ state # "FAILED" /\ state' = "FAILED" => results[current_step] # "SKIPPED" ]_runnerVars
=============================================================================
