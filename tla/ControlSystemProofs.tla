------------------------- MODULE ControlSystemProofs -------------------------
(***************************************************************************)
(* Theorems about three parts of the control system, each for every value  *)
(* of its constants: the procedure runner, the alarms, and the             *)
(* telecommands' verdicts and counters.  The parts share no variable and   *)
(* each has a specification of its own: RunnerSpec, AlarmSpec and TcSpec.  *)
(***************************************************************************)
EXTENDS ProcedureRunner, AlarmJournal, TcVerification, SequenceLemmas,
        SequenceTheorems, FiniteSetTheorems

-----------------------------------------------------------------------------
(***************************************************************************)
(* Theorems about the procedure runner (module ProcedureRunner), for every *)
(* list of steps.                                                          *)
(*                                                                         *)
(* StepsInOrder says nothing of where the task is, and so is not           *)
(* inductive: RunnerInv ties the loop's variable, current_step and the results   *)
(* to the point of the loop that the task has reached, and says what an    *)
(* operator's handler finds there.                                         *)
(***************************************************************************)

Results == {"PENDING", "RUNNING", "PASSED", "FAILED", "SKIPPED"}
Done == {"PASSED", "SKIPPED"}

(* Between two steps, and within one.                                      *)
Between == {"ready", "top", "at_pause", "pause_woken", "at_step", "step_woken"}
Before  == {"at_pause", "pause_woken", "at_step", "step_woken"}
Within  == {"executing", "send", "sending", "waiting", "poll", "polling"}

RunnerTyped ==
  /\ state \in {"IDLE", "LOADED", "RUNNING", "PAUSED", "COMPLETED", "ABORTED",
                "FAILED"}
  /\ steps \in Plans \cup {<<>>}
  /\ step_by_step \in BOOLEAN
  /\ current_step \in 0 .. Len(steps)
  /\ results \in [1 .. Len(steps) -> Results]
  /\ idx \in Nat
  /\ task \in {"none"} \cup Between \cup Within

(* Where the task is in the list of steps.                                 *)
Position ==
  /\ task \in Between => current_step = idx - 1
  /\ task \in Before => idx <= Len(steps)
  /\ task \in Within => current_step = idx /\ idx >= 1
  /\ state = "LOADED" => current_step = 0
  /\ Active /\ task = "none" => current_step = Len(steps)
  /\ ~Active => task = "none"

(* What is noted for the steps.                                            *)
Noted ==
  \A i \in 1 .. Len(steps) :
    /\ i < current_step => results[i] \in Done
    /\ i > current_step => results[i] = "PENDING"
    /\ i = current_step /\ task \in Between => results[i] \in Done
    /\ state = "COMPLETED" => results[i] \in Done

(* A pause keeps the task from beginning a step, unless the task was woken *)
(* before it; and what wakes a task that awaits an advance is an operator. *)
Gated ==
  /\ pause_event \in BOOLEAN /\ step_event \in BOOLEAN /\ confirmed \in BOOLEAN
  /\ late \in {0, 1}
  /\ state = "PAUSED" => ~pause_event
  /\ state = "PAUSED" /\ task = "pause_woken" => late = 0
  /\ task = "step_woken" => confirmed

RunnerCore == RunnerTyped /\ Position /\ Noted
RunnerInv == RunnerCore /\ Gated
-----------------------------------------------------------------------------
LEMMA StepsLength ==
  ASSUME RunnerTyped
  PROVE  steps \in Seq(Kinds) /\ Len(steps) \in Nat /\ DOMAIN steps = 1 .. Len(steps)
<1>1. <<>> \in Seq(Kinds)
  BY EmptySeq
<1>2. steps \in Seq(Kinds)
  BY <1>1, ProcedureRunnerAssumption DEF RunnerTyped
<1> QED BY <1>2

LEMMA RunnerInvInit == RunnerInit => RunnerInv
<1> SUFFICES ASSUME RunnerInit PROVE RunnerInv
  OBVIOUS
<1>1. steps = <<>> /\ Len(steps) = 0 /\ 1 .. Len(steps) = {}
  BY DEF RunnerInit
<1>2. results \in [1 .. Len(steps) -> Results]
  <2>1. DOMAIN results = {}
    BY DEF RunnerInit
  <2>2. results = [i \in {} |-> results[i]]
    BY DEF RunnerInit
  <2> QED BY <1>1, <2>1, <2>2
<1>3. step_by_step \in BOOLEAN /\ confirmed \in BOOLEAN
      /\ pause_event \in BOOLEAN /\ step_event \in BOOLEAN
  BY Zenon DEF RunnerInit
<1>4. RunnerTyped
  BY <1>1, <1>2, <1>3 DEF RunnerInit, RunnerTyped
<1>5. Position /\ Noted
  BY <1>1 DEF RunnerInit, Position, Noted, Active, Between, Before, Within
<1>6. Gated
  BY <1>3, Zenon DEF RunnerInit, Gated
<1> QED BY <1>4, <1>5, <1>6 DEF RunnerInv, RunnerCore
-----------------------------------------------------------------------------
(* The handlers keep what the task relies on.                              *)
LEMMA LoadCore ==
  ASSUME RunnerCore, NEW s \in Plans, NEW by_step \in BOOLEAN, Load(s, by_step)
  PROVE  RunnerCore'
<1>1. s \in Seq(Kinds) /\ Len(s) \in Nat /\ DOMAIN s = 1 .. Len(s)
  BY ProcedureRunnerAssumption
<1>2. /\ ~Active /\ state' = "LOADED" /\ steps' = s /\ step_by_step' = by_step
      /\ current_step' = 0 /\ results' = Untried(s) /\ idx' = idx /\ task' = task
  BY DEF Load
<1>3. \A i \in 1 .. Len(s) : results'[i] = "PENDING"
  BY <1>1, <1>2 DEF Untried
<1>4. results' \in [1 .. Len(s) -> Results]
  BY <1>1, <1>2 DEF Untried, Results
<1>5. task' = "none"
  BY <1>2 DEF RunnerCore, Position
<1>6. RunnerTyped'
  BY <1>1, <1>2, <1>4 DEF RunnerCore, RunnerTyped
<1>7. Position'
  BY <1>2, <1>5 DEF Position, Active, Between, Before, Within
<1>8. Noted'
  BY <1>1, <1>2, <1>3 DEF Noted
<1> QED BY <1>6, <1>7, <1>8 DEF RunnerCore

(* A wake-up leaves the task before the step it was before, or where it is.*)
LEMMA WokenProperties ==
  ASSUME RunnerTyped, task' = Woken
  PROVE  /\ task' \in {"none"} \cup Between \cup Within
         /\ task \in Between <=> task' \in Between
         /\ task \in Before <=> task' \in Before
         /\ task \in Within <=> task' \in Within
         /\ task = "none" <=> task' = "none"
BY DEF RunnerTyped, Woken, Between, Before, Within

(* Waking the task, and skipping the step it is at, of an active procedure.*)
LEMMA WakeCore ==
  ASSUME RunnerCore, Active, state' \in {"RUNNING", "PAUSED"},
         UNCHANGED <<plan, current_step, idx>>,
         task' = Woken \/ task' = task,
         \/ results' = results
         \/ results' = [i \in DOMAIN results |->
                          IF i = current_step THEN "SKIPPED" ELSE results[i]]
  PROVE  RunnerCore'
<1>1. /\ task' \in {"none"} \cup Between \cup Within
      /\ task \in Between <=> task' \in Between
      /\ task \in Before <=> task' \in Before
      /\ task \in Within <=> task' \in Within
      /\ task = "none" <=> task' = "none"
  <2>1. CASE task' = Woken
    BY <2>1, WokenProperties DEF RunnerCore
  <2>2. CASE task' = task
    BY <2>2 DEF RunnerCore, RunnerTyped
  <2> QED BY <2>1, <2>2
<1>2. /\ steps' = steps /\ step_by_step' = step_by_step
      /\ current_step' = current_step /\ idx' = idx
  BY DEF plan
<1>3. Len(steps) \in Nat
  BY StepsLength DEF RunnerCore
<1>4. DOMAIN results = 1 .. Len(steps)
  BY DEF RunnerCore, RunnerTyped
<1>5. /\ results' \in [1 .. Len(steps) -> Results]
      /\ \A i \in 1 .. Len(steps) :
           results'[i] = results[i] \/ (i = current_step /\ results'[i] = "SKIPPED")
  BY <1>4 DEF RunnerCore, RunnerTyped, Results
<1>6. RunnerTyped'
  BY <1>1, <1>2, <1>5 DEF RunnerCore, RunnerTyped
<1>7. Position'
  BY <1>1, <1>2 DEF RunnerCore, Position, Active
<1>8. Noted'
  BY <1>1, <1>2, <1>5 DEF RunnerCore, RunnerTyped, Noted, Done
<1> QED BY <1>6, <1>7, <1>8 DEF RunnerCore

LEMMA StartCore ==
  ASSUME RunnerCore, Start
  PROVE  RunnerCore'
<1>1. /\ state = "LOADED" /\ state' = "RUNNING" /\ idx' = 1 /\ task' = "ready"
      /\ steps' = steps /\ step_by_step' = step_by_step
      /\ current_step' = current_step /\ results' = results
  BY DEF Start, plan
<1>2. RunnerTyped'
  BY <1>1 DEF RunnerCore, RunnerTyped, Between
<1>3. Position'
  BY <1>1 DEF RunnerCore, Position, Active, Between, Before, Within
<1>4. Noted'
  BY <1>1 DEF RunnerCore, Noted, Position
<1> QED BY <1>2, <1>3, <1>4 DEF RunnerCore

LEMMA OperatorCore ==
  ASSUME RunnerCore, Operator
  PROVE  RunnerCore'
<1>1. CASE \E s \in Plans, by_step \in BOOLEAN : Load(s, by_step)
  BY <1>1, LoadCore
<1>2. CASE Start
  BY <1>2, StartCore
<1>3. CASE Pause
  <2>1. /\ Active /\ state' = "PAUSED" /\ task' = task /\ results' = results
        /\ UNCHANGED <<plan, current_step, idx>>
    BY <1>3 DEF Pause, Active
  <2> QED BY <2>1, WakeCore
<1>4. CASE Resume
  <2>1. /\ Active /\ state' = "RUNNING" /\ task' = Woken /\ results' = results
        /\ UNCHANGED <<plan, current_step, idx>>
    BY <1>4 DEF Resume, Active
  <2> QED BY <2>1, WakeCore
<1>5. CASE StepAdvance
  <2>1. /\ Active /\ state' = "RUNNING" /\ task' = Woken /\ results' = results
        /\ UNCHANGED <<plan, current_step, idx>>
    BY <1>5 DEF StepAdvance, LeavePause
  <2> QED BY <2>1, WakeCore
<1>6. CASE SkipStep
  <2>1. /\ Active /\ state' = "RUNNING" /\ task' = Woken
        /\ results' = [i \in DOMAIN results |->
                         IF i = current_step THEN "SKIPPED" ELSE results[i]]
        /\ UNCHANGED <<plan, current_step, idx>>
    BY <1>6 DEF SkipStep, LeavePause
  <2> QED BY <2>1, WakeCore
<1>7. CASE Abort
  <2>1. /\ state' = "ABORTED" /\ task' = "none" /\ results' = results
        /\ UNCHANGED <<plan, current_step, idx>>
    BY <1>7 DEF Abort
  <2>2. RunnerTyped' /\ Position'
    BY <2>1 DEF RunnerCore, RunnerTyped, Position, plan, Active, Between, Before, Within
  <2>3. Noted'
    BY <2>1 DEF RunnerCore, Noted, plan, Between
  <2> QED BY <2>2, <2>3 DEF RunnerCore
<1> QED BY <1>1, <1>2, <1>3, <1>4, <1>5, <1>6, <1>7 DEF Operator
-----------------------------------------------------------------------------
(* While the task has a step or the loop to run, the procedure is active.  *)
LEMMA TaskActive ==
  ASSUME RunnerCore, task \in Between \cup Within
  PROVE  Active /\ state # "COMPLETED" /\ state # "LOADED"
BY DEF RunnerCore, RunnerTyped, Position, Active, Between, Within

(* Moving along the loop, without touching the results.                    *)
LEMMA MoveCore ==
  ASSUME RunnerCore, UNCHANGED <<plan, current_step, results, idx>>,
         state' \in {"RUNNING", "PAUSED"},
         \/ task \in Between /\ task' \in Between /\ (task' \in Before => idx <= Len(steps))
         \/ task \in Within /\ task' \in Within
  PROVE  RunnerCore'
<1>1. /\ steps' = steps /\ step_by_step' = step_by_step /\ results' = results
      /\ current_step' = current_step /\ idx' = idx
  BY DEF plan
<1>2. RunnerTyped'
  BY <1>1 DEF RunnerCore, RunnerTyped
<1>3. Position'
  BY <1>1 DEF RunnerCore, Position, Active, Between, Before, Within
<1>4. Noted'
  BY <1>1 DEF RunnerCore, Noted, Between, Within
<1> QED BY <1>2, <1>3, <1>4 DEF RunnerCore

(* _execute_step returns success ...                                       *)
LEMMA PassedCore ==
  ASSUME RunnerCore, task \in Within, Passed
  PROVE  RunnerCore'
<1>1. /\ results' = [results EXCEPT ![idx] = "PASSED"]
      /\ idx' = idx + 1 /\ task' = "top" /\ state' = state
      /\ steps' = steps /\ step_by_step' = step_by_step
      /\ current_step' = current_step
  BY DEF Passed, plan
<1>2. Active /\ state # "COMPLETED" /\ state # "LOADED"
  BY TaskActive
<1>3. current_step = idx /\ idx \in 1 .. Len(steps) /\ Len(steps) \in Nat
  BY StepsLength DEF RunnerCore, RunnerTyped, Position
<1>4. /\ results \in [1 .. Len(steps) -> Results]
      /\ results' \in [1 .. Len(steps) -> Results]
  BY <1>1 DEF RunnerCore, RunnerTyped, Results
<1>5. RunnerTyped'
  BY <1>1, <1>3, <1>4 DEF RunnerCore, RunnerTyped, Between
<1>6. Position'
  BY <1>1, <1>2, <1>3 DEF Position, Active, Between, Before, Within
<1>7. ASSUME NEW i \in 1 .. Len(steps)
      PROVE  /\ i < current_step => results'[i] \in Done
             /\ i > current_step => results'[i] = "PENDING"
             /\ i = current_step => results'[i] \in Done
  <2>1. i # idx => results'[i] = results[i]
    BY <1>1, <1>4
  <2>2. i = idx => results'[i] = "PASSED"
    BY <1>1, <1>4
  <2> QED BY <1>3, <2>1, <2>2 DEF RunnerCore, Noted, Done
<1>8. Noted'
  BY <1>1, <1>2, <1>7 DEF Noted
<1> QED BY <1>5, <1>6, <1>8 DEF RunnerCore

(* ... or a step that an operator has skipped fails ...                    *)
LEMMA SkippedCore ==
  ASSUME RunnerCore, task \in Within, results[idx] = "SKIPPED",
         idx' = idx + 1, task' = "top",
         UNCHANGED <<state, plan, current_step, results>>
  PROVE  RunnerCore'
<1>1. /\ steps' = steps /\ step_by_step' = step_by_step
  BY DEF plan
<1>2. Active /\ state # "COMPLETED" /\ state # "LOADED"
  BY TaskActive
<1>3. current_step = idx /\ idx \in 1 .. Len(steps) /\ Len(steps) \in Nat
  BY StepsLength DEF RunnerCore, RunnerTyped, Position
<1>4. RunnerTyped'
  BY <1>1, <1>3 DEF RunnerCore, RunnerTyped, Between
<1>5. Position'
  BY <1>1, <1>2, <1>3 DEF Position, Active, Between, Before, Within
<1>6. Noted'
  BY <1>1, <1>2, <1>3 DEF RunnerCore, Noted, Done
<1> QED BY <1>4, <1>5, <1>6 DEF RunnerCore

(* ... or the procedure fails, with the step noted as failed or not.       *)
LEMMA FailedCore ==
  ASSUME RunnerCore, task \in Within, state' = "FAILED", task' = "none",
         UNCHANGED <<plan, current_step, idx>>,
         results' = results \/ results' = [results EXCEPT ![idx] = "FAILED"]
  PROVE  RunnerCore'
<1>1. /\ steps' = steps /\ step_by_step' = step_by_step
  BY DEF plan
<1>2. current_step = idx /\ idx \in 1 .. Len(steps) /\ Len(steps) \in Nat
  BY StepsLength DEF RunnerCore, RunnerTyped, Position
<1>3. results \in [1 .. Len(steps) -> Results]
  BY DEF RunnerCore, RunnerTyped
<1>4. /\ results' \in [1 .. Len(steps) -> Results]
      /\ \A i \in 1 .. Len(steps) : i # idx => results'[i] = results[i]
  BY <1>3 DEF Results
<1>5. RunnerTyped'
  BY <1>1, <1>4 DEF RunnerCore, RunnerTyped
<1>6. Position'
  BY <1>1 DEF Position, Active, Between, Before, Within
<1>7. Noted'
  BY <1>1, <1>2, <1>4 DEF RunnerCore, Noted, Between
<1> QED BY <1>5, <1>6, <1>7 DEF RunnerCore

(* Whatever failing comes to.                                              *)
LEMMA FailCore ==
  ASSUME RunnerCore, task \in Within, Failed
  PROVE  RunnerCore'
<1>1. CASE results[idx] = "SKIPPED"
  <2>1. /\ idx' = idx + 1 /\ task' = "top"
        /\ UNCHANGED <<state, plan, current_step, results>>
    BY <1>1 DEF Failed
  <2> QED BY <1>1, <2>1, SkippedCore
<1>2. CASE results[idx] # "SKIPPED"
  <2>1. /\ state' = "FAILED" /\ task' = "none"
        /\ UNCHANGED <<plan, current_step, idx>>
        /\ results' = [results EXCEPT ![idx] = "FAILED"]
    BY <1>2 DEF Failed
  <2> QED BY <2>1, FailedCore
<1> QED BY <1>1, <1>2

(* A step within which the task moves on.                                  *)
LEMMA GoToCore ==
  ASSUME RunnerCore, task \in Within, NEW p \in Within, GoTo(p)
  PROVE  RunnerCore'
<1>1. /\ UNCHANGED <<plan, current_step, results, idx>>
      /\ task' \in Within /\ state' = state
  BY DEF GoTo
<1>2. state' \in {"RUNNING", "PAUSED"}
  BY <1>1, TaskActive DEF Active
<1> QED BY <1>1, <1>2, MoveCore

(* The task reaches a step: it is the one after those that are done.       *)
LEMMA EnterStepCore ==
  ASSUME RunnerCore, EnterStep
  PROVE  RunnerCore'
<1>1. task \in Between /\ idx <= Len(steps)
  BY DEF RunnerCore, Position, EnterStep, PastPause, Between, Before
<1>2. Active
  BY <1>1, TaskActive
<1>3. /\ results' = [results EXCEPT ![idx] = "RUNNING"]
      /\ current_step' = idx /\ idx' = idx /\ task' = "executing"
      /\ steps' = steps /\ step_by_step' = step_by_step
  BY DEF EnterStep, plan
<1>4. state' \in {"RUNNING", "PAUSED"}
  BY <1>2 DEF EnterStep, Active
<1>5. /\ current_step = idx - 1 /\ idx \in 1 .. Len(steps)
      /\ Len(steps) \in Nat
  BY <1>1, StepsLength DEF RunnerCore, RunnerTyped, Position
<1>6. results \in [1 .. Len(steps) -> Results]
  BY DEF RunnerCore, RunnerTyped
<1>7. /\ results' \in [1 .. Len(steps) -> Results]
      /\ \A i \in 1 .. Len(steps) : i # idx => results'[i] = results[i]
  BY <1>3, <1>6 DEF Results
<1>8. RunnerTyped'
  BY <1>3, <1>4, <1>5, <1>7 DEF RunnerCore, RunnerTyped, Within
<1>9. Position'
  BY <1>3, <1>4, <1>5 DEF Position, Active, Between, Before, Within
<1>10. ASSUME NEW i \in 1 .. Len(steps), i < idx
       PROVE  results'[i] \in Done
  <2>1. results'[i] = results[i]
    BY <1>5, <1>7, <1>10
  <2>2. i < current_step \/ i = current_step
    BY <1>5, <1>10
  <2> QED BY <1>1, <2>1, <2>2 DEF RunnerCore, Noted
<1>11. ASSUME NEW i \in 1 .. Len(steps), i > idx
       PROVE  results'[i] = "PENDING"
  <2>1. i > current_step /\ results'[i] = results[i]
    BY <1>5, <1>7, <1>11
  <2> QED BY <2>1 DEF RunnerCore, Noted
<1>12. Noted'
  BY <1>3, <1>4, <1>10, <1>11 DEF Noted, Between
<1> QED BY <1>8, <1>9, <1>12 DEF RunnerCore

(* The loop ends: every step has been done.                                *)
LEMMA FinishCore ==
  ASSUME RunnerCore, Finish
  PROVE  RunnerCore'
<1>1. /\ task = "top" /\ idx > Len(steps) /\ task' = "none"
      /\ state' = IF state = "RUNNING" THEN "COMPLETED" ELSE state
      /\ steps' = steps /\ step_by_step' = step_by_step /\ results' = results
      /\ current_step' = current_step /\ idx' = idx
  BY DEF Finish, plan
<1>2. Active /\ state # "LOADED" /\ state # "COMPLETED"
  BY <1>1, TaskActive DEF Between
<1>3. current_step = Len(steps) /\ Len(steps) \in Nat
  BY <1>1, StepsLength DEF RunnerCore, RunnerTyped, Position, Between
<1>4. \A i \in 1 .. Len(steps) : results[i] \in Done
  BY <1>1, <1>3 DEF RunnerCore, Noted, Between
<1>5. RunnerTyped'
  BY <1>1 DEF RunnerCore, RunnerTyped
<1>6. Position'
  BY <1>1, <1>2, <1>3 DEF Position, Active, Between, Before, Within
<1>7. Noted'
  BY <1>1, <1>3, <1>4 DEF Noted
<1> QED BY <1>5, <1>6, <1>7 DEF RunnerCore

(* Every step of the task keeps the agreement of position and results.     *)
LEMMA TaskCore ==
  ASSUME RunnerCore, Task
  PROVE  RunnerCore'
<1>1. CASE TaskBegins \/ WaitWhilePaused
  <2>1. /\ task \in Between /\ task' \in Between
        /\ task' \in Before => idx <= Len(steps)
        /\ UNCHANGED <<plan, current_step, results, idx>> /\ state' = state
    BY <1>1 DEF TaskBegins, WaitWhilePaused, Between, Before
  <2>2. state' \in {"RUNNING", "PAUSED"}
    BY <2>1, TaskActive DEF Active
  <2> QED BY <2>1, <2>2, MoveCore
<1>2. CASE AwaitAdvance
  <2>1. /\ task \in Between /\ task' \in Between /\ state' = "PAUSED"
        /\ UNCHANGED <<plan, current_step, results, idx>>
    BY <1>2 DEF AwaitAdvance, PastPause, Between
  <2>2. idx <= Len(steps)
    BY <1>2 DEF AwaitAdvance, PastPause, RunnerCore, Position, Before
  <2> QED BY <2>1, <2>2, MoveCore
<1>3. CASE Finish
  BY <1>3, FinishCore
<1>4. CASE EnterStep
  BY <1>4, EnterStepCore
<1>5. CASE ExecuteStep
  <2>1. task \in Within /\ "waiting" \in Within /\ "poll" \in Within /\ "send" \in Within
    BY <1>5 DEF ExecuteStep, Within
  <2>2. CASE Raised
    <3>1. /\ state' = "FAILED" /\ task' = "none" /\ results' = results
          /\ UNCHANGED <<plan, current_step, idx>>
      BY <2>2 DEF Raised
    <3> QED BY <2>1, <3>1, FailedCore
  <2>3. CASE Passed \/ Failed
    BY <2>1, <2>3, PassedCore, FailCore
  <2>4. CASE GoTo("waiting") \/ GoTo("poll") \/ GoTo("send")
    BY <2>1, <2>4, GoToCore
  <2> QED BY <1>5, <2>2, <2>3, <2>4 DEF ExecuteStep
<1>6. CASE WaitElapses \/ ConditionMet
  <2>1. task \in Within /\ Passed
    BY <1>6 DEF WaitElapses, ConditionMet, Within
  <2> QED BY <2>1, PassedCore
<1>7. CASE SendSuspends \/ ConditionUnmet \/ PollAgain
  <2>1. task \in Within /\ \E p \in Within : GoTo(p)
    BY <1>7 DEF SendSuspends, ConditionUnmet, PollAgain, Within
  <2> QED BY <2>1, GoToCore
<1>8. CASE CommandSent
  <2>1. task \in Within /\ "poll" \in Within /\ (Passed \/ GoTo("poll"))
    BY <1>8 DEF CommandSent, Within
  <2> QED BY <2>1, PassedCore, GoToCore
<1>9. CASE SendFails
  <2>1. task \in Within /\ Failed
    BY <1>9 DEF SendFails, Within
  <2> QED BY <2>1, FailCore
<1>10. CASE DeadlinePasses
  <2>1. /\ task \in Within /\ state' = "FAILED" /\ task' = "none"
        /\ UNCHANGED <<plan, current_step, idx>>
        /\ results' = [results EXCEPT ![idx] = "FAILED"]
    BY <1>10 DEF DeadlinePasses, TimedOut, Within
  <2> QED BY <2>1, FailedCore
<1> QED
  BY <1>1, <1>2, <1>3, <1>4, <1>5, <1>6, <1>7, <1>8, <1>9, <1>10 DEF Task
-----------------------------------------------------------------------------
(* Handlers and task keep the gates.                                       *)
LEMMA OperatorGated ==
  ASSUME RunnerCore, Gated, Operator
  PROVE  Gated'
<1>1. CASE \E s \in Plans, by_step \in BOOLEAN : Load(s, by_step)
  <2>1. /\ state' = "LOADED" /\ task' = task /\ task = "none"
        /\ UNCHANGED events /\ confirmed' = FALSE /\ late' = 0
    BY <1>1 DEF Load, RunnerCore, Position
  <2> QED BY <2>1 DEF Gated, events
<1>2. CASE Start
  BY <1>2 DEF Start, Gated
<1>3. CASE Pause
  <2>1. /\ pause_event' = FALSE /\ late' = 0
        /\ UNCHANGED <<step_event, task, confirmed>>
    BY <1>3 DEF Pause, ClearPause
  <2> QED BY <2>1 DEF Gated
<1>4. CASE Resume \/ StepAdvance \/ SkipStep
  <2>1. /\ state' = "RUNNING" /\ confirmed' = TRUE /\ late' = late
        /\ pause_event' = TRUE \/ pause_event' = (pause_event \/ state = "PAUSED")
        /\ step_event' = TRUE \/ step_event' = (step_event \/ step_by_step)
    BY <1>4 DEF Resume, StepAdvance, SkipStep, LeavePause
  <2>2. pause_event' \in BOOLEAN /\ step_event' \in BOOLEAN
    BY <2>1, Zenon
  <2> QED BY <2>1, <2>2 DEF Gated
<1>5. CASE Abort
  <2>1. /\ state' = "ABORTED" /\ pause_event' = TRUE /\ step_event' = TRUE
        /\ task' = "none" /\ UNCHANGED <<confirmed, late>>
    BY <1>5 DEF Abort
  <2> QED BY <2>1 DEF Gated
<1> QED BY <1>1, <1>2, <1>3, <1>4, <1>5 DEF Operator

LEMMA TaskGated ==
  ASSUME RunnerCore, Gated, Task
  PROVE  Gated'
<1>1. CASE TaskBegins
  BY <1>1 DEF TaskBegins, Gated, events
<1>2. CASE Finish
  BY <1>2 DEF Finish, Gated, events
<1>3. CASE WaitWhilePaused
  BY <1>3 DEF WaitWhilePaused, Gated, events
<1>4. CASE AwaitAdvance
  <2>1. /\ pause_event' = FALSE /\ step_event' = FALSE /\ task' = "at_step"
        /\ UNCHANGED <<confirmed, late>>
    BY <1>4 DEF AwaitAdvance, ClearStep
  <2> QED BY <2>1 DEF Gated
<1>5. CASE EnterStep
  <2>1. /\ UNCHANGED events /\ confirmed' = FALSE /\ task' = "executing"
        /\ late' = IF state' = "PAUSED" /\ late < 2 THEN late + 1 ELSE late
    BY <1>5 DEF EnterStep
  <2>2. ASSUME state' = "PAUSED"
        PROVE  state = "PAUSED" /\ task = "pause_woken"
    BY <1>5, <2>2 DEF EnterStep, PastPause, Gated
  <2>3. late' \in {0, 1}
    BY <2>1, <2>2 DEF Gated
  <2>4. state' = "PAUSED" => ~pause_event'
    BY <2>1, <2>2 DEF Gated, events
  <2> QED BY <2>1, <2>3, <2>4 DEF Gated, events
<1>6. CASE \/ ExecuteStep \/ WaitElapses \/ SendSuspends \/ CommandSent \/ SendFails
           \/ ConditionMet \/ ConditionUnmet \/ PollAgain \/ DeadlinePasses
  <2>1. Passed \/ Failed \/ TimedOut \/ Raised \/ \E p \in Within : GoTo(p)
    BY <1>6 DEF ExecuteStep, WaitElapses, SendSuspends, CommandSent, SendFails,
                ConditionMet, ConditionUnmet, PollAgain, DeadlinePasses, Within
  <2>2. /\ UNCHANGED <<events, late>> /\ confirmed' \in {confirmed, FALSE}
        /\ state' \in {state, "FAILED"}
        /\ task' # "pause_woken" /\ task' # "step_woken"
    BY <2>1 DEF Passed, Failed, TimedOut, Raised, GoTo, Within
  <2>3. confirmed' \in BOOLEAN
    BY <2>2, Zenon DEF Gated
  <2> QED BY <2>2, <2>3 DEF Gated, events
<1> QED BY <1>1, <1>2, <1>3, <1>4, <1>5, <1>6 DEF Task
-----------------------------------------------------------------------------
LEMMA RunnerInvNext == RunnerInv /\ [RunnerNext]_runnerVars => RunnerInv'
<1> SUFFICES ASSUME RunnerInv, [RunnerNext]_runnerVars PROVE RunnerInv'
  OBVIOUS
<1>1. CASE Operator
  BY <1>1, OperatorCore, OperatorGated DEF RunnerInv
<1>2. CASE Task
  BY <1>2, TaskCore, TaskGated DEF RunnerInv
<1>3. CASE UNCHANGED runnerVars
  <2>1. /\ UNCHANGED <<state, steps, step_by_step, current_step, results>>
        /\ UNCHANGED <<pause_event, step_event, idx, task, confirmed, late>>
    BY <1>3 DEF runnerVars
  <2>2. RunnerTyped' /\ Position' /\ Noted'
    BY <2>1 DEF RunnerInv, RunnerCore, RunnerTyped, Position, Noted, Active
  <2>3. Gated'
    BY <2>1 DEF RunnerInv, Gated
  <2> QED BY <2>2, <2>3 DEF RunnerInv, RunnerCore
<1> QED BY <1>1, <1>2, <1>3 DEF RunnerNext

LEMMA RunnerInvAlways == RunnerSpec => []RunnerInv
BY RunnerInvInit, RunnerInvNext, PTL DEF RunnerSpec

LEMMA RunnerInvImplies == RunnerInv => RunnerTypeOK /\ StepsInOrder /\ TaskOrDone /\ StopsWhenPaused
<1> SUFFICES ASSUME RunnerInv
             PROVE  RunnerTypeOK /\ StepsInOrder /\ TaskOrDone /\ StopsWhenPaused
  OBVIOUS
<1>1. RunnerTyped /\ Position /\ Noted /\ Gated
  BY DEF RunnerInv, RunnerCore
<1>2. DOMAIN steps = 1 .. Len(steps) /\ DOMAIN results = 1 .. Len(steps)
  BY <1>1, StepsLength DEF RunnerTyped
<1>3. RunnerTypeOK
  BY <1>1, <1>2 DEF RunnerTyped, Gated, RunnerTypeOK, Awaits, Between, Within, Results
<1>4. StepsInOrder
  BY <1>1, <1>2 DEF Noted, Done, StepsInOrder
<1>5. TaskOrDone
  BY <1>1 DEF Position, TaskOrDone
<1>6. StopsWhenPaused
  BY <1>1 DEF Gated, StopsWhenPaused
<1> QED BY <1>3, <1>4, <1>5, <1>6
-----------------------------------------------------------------------------
(* The runner's state keeps its type: results and current_step always fit  *)
(* the procedure that is loaded.                                           *)
THEOREM RunnerTypeCorrect == RunnerSpec => []RunnerTypeOK
BY RunnerInvAlways, RunnerInvImplies, PTL

(* _run() takes the steps in order and none twice, and completes only when *)
(* all have passed or been skipped, whatever the operators do meanwhile.   *)
THEOREM StepsAlwaysInOrder == RunnerSpec => []StepsInOrder
BY RunnerInvAlways, RunnerInvImplies, PTL

(* A procedure that is running or paused has a task, or all steps behind   *)
(* it; one that is neither has no task left.                               *)
THEOREM TaskAlwaysOrDone == RunnerSpec => []TaskOrDone
BY RunnerInvAlways, RunnerInvImplies, PTL

(* While a procedure is paused at most one more of its steps begins.       *)
THEOREM AlwaysStopsWhenPaused == RunnerSpec => []StopsWhenPaused
BY RunnerInvAlways, RunnerInvImplies, PTL

(* Only EnterStep begins a step, and in step-by-step mode it begins all    *)
(* but the first when an operator has woken the task.                      *)
LEMMA StepConfirmed ==
  ASSUME RunnerInv, [RunnerNext]_runnerVars
  PROVE  step_by_step /\ current_step' = current_step + 1 /\ current_step > 0
           => confirmed
<1> SUFFICES ASSUME step_by_step, current_step' = current_step + 1, current_step > 0
             PROVE  confirmed
  OBVIOUS
<1>1. RunnerTyped /\ Position /\ Gated
  BY DEF RunnerInv, RunnerCore
<1>2. current_step \in Nat
  BY <1>1, StepsLength DEF RunnerTyped
<1>3. current_step' # current_step /\ current_step' # 0
  BY <1>2
<1>4. CASE EnterStep
  <2>1. CASE task = "step_woken"
    BY <1>1, <2>1 DEF Gated
  <2>2. CASE task # "step_woken"
    <3>1. PastPause /\ ~(step_by_step /\ idx > 1) /\ current_step' = idx
      BY <1>4, <2>2 DEF EnterStep
    <3>2. task \in Between
      BY <3>1 DEF PastPause, Between
    <3>3. current_step = idx - 1 /\ idx \in Nat
      BY <1>1, <3>2 DEF RunnerTyped, Position
    <3> QED BY <3>1, <3>3
  <2> QED BY <2>1, <2>2
<1>5. CASE Operator
  <2>1. current_step' \in {0, current_step}
    BY <1>5 DEF Operator, Load, Start, Pause, Resume, StepAdvance, SkipStep, Abort
  <2> QED BY <1>3, <2>1
<1>6. CASE Task /\ ~EnterStep
  <2>1. current_step' = current_step
    BY <1>6 DEF Task, TaskBegins, Finish, WaitWhilePaused, AwaitAdvance,
                ExecuteStep, WaitElapses, SendSuspends, CommandSent, SendFails,
                ConditionMet, ConditionUnmet, PollAgain, DeadlinePasses,
                Passed, Failed, TimedOut, Raised, GoTo
  <2> QED BY <1>3, <2>1
<1>7. CASE UNCHANGED runnerVars
  BY <1>3, <1>7 DEF runnerVars
<1> QED BY <1>4, <1>5, <1>6, <1>7 DEF RunnerNext

(* In step-by-step mode _run() begins every step but the first on an       *)
(* operator's word given since the step before it ended.                   *)
THEOREM StepsAlwaysConfirmed == RunnerSpec => ConfirmedSteps
<1>1. RunnerInv /\ [RunnerNext]_runnerVars
        => [step_by_step /\ current_step' = current_step + 1 /\ current_step > 0
              => confirmed]_runnerVars
  BY StepConfirmed
<1> QED BY <1>1, RunnerInvAlways, PTL DEF RunnerSpec, ConfirmedSteps

-----------------------------------------------------------------------------
(***************************************************************************)
(* Theorems about the alarms of the control system (module AlarmJournal),  *)
(* for any parameters, bands and reports and any capacities: the archive   *)
(* and the panel follow the acknowledgements of the journal.               *)
(***************************************************************************)

(* An entry of the journal has the fields that its handling overwrites.    *)
IsAlarm(a) ==
  /\ a = [id |-> a.id, source |-> a.source, about |-> a.about,
          status |-> a.status, acked |-> a.acked, cleared |-> a.cleared,
          row |-> a.row]
  /\ a.acked \in BOOLEAN /\ a.cleared \in BOOLEAN

IsMark(m) == m = [id |-> m.id, acked |-> m.acked] /\ m.acked \in BOOLEAN

IsSequence(s) == Len(s) \in Nat /\ s = [i \in 1 .. Len(s) |-> s[i]]

(* Identifiers count down from the newest entry, and no two entries share  *)
(* a row of the archive.                                                   *)
JournalOK ==
  /\ IsSequence(journal)
  /\ \A i \in DOMAIN journal : /\ IsAlarm(journal[i])
                               /\ journal[i].id = counter + 1 - i
                               /\ journal[i].row \in 0 .. Len(archive)
  /\ \A i, k \in DOMAIN journal :
       journal[i].row = journal[k].row /\ journal[i].row # NoRow => i = k

PanelOK ==
  /\ IsSequence(panel)
  /\ \A k \in DOMAIN panel : IsMark(panel[k]) /\ panel[k].id \in 1 .. counter

ArchiveOK ==
  archive \in Seq(BOOLEAN) /\ counter \in Nat /\ refused \subseteq DOMAIN archive

AlarmInv == JournalOK /\ PanelOK /\ ArchiveOK /\ ArchiveFollows /\ PanelFollows

-----------------------------------------------------------------------------
(* Sequences: a new first element, the first and the last elements.        *)
LEMMA SequenceTyped ==
  ASSUME NEW s, IsSequence(s)
  PROVE  s \in Seq({s[i] : i \in 1 .. Len(s)}) /\ DOMAIN s = 1 .. Len(s)
BY DEF IsSequence

LEMMA TypedSequence ==
  ASSUME NEW S, NEW s \in Seq(S)
  PROVE  IsSequence(s) /\ DOMAIN s = 1 .. Len(s) /\ Len(s) \in Nat
BY DEF IsSequence

LEMMA Prefixed ==
  ASSUME NEW S, NEW s \in Seq(S), NEW a \in S
  PROVE  /\ <<a>> \o s \in Seq(S) /\ Len(<<a>> \o s) = Len(s) + 1
         /\ \A i \in 1 .. Len(s) + 1 :
              (<<a>> \o s)[i] = IF i = 1 THEN a ELSE s[i - 1]
OBVIOUS

LEMMA FirstOnes ==
  ASSUME NEW S, NEW s \in Seq(S), NEW n \in 0 .. Len(s)
  PROVE  /\ SubSeq(s, 1, n) \in Seq(S) /\ Len(SubSeq(s, 1, n)) = n
         /\ \A i \in 1 .. n : SubSeq(s, 1, n)[i] = s[i]
OBVIOUS

LEMMA FinalOnes ==
  ASSUME NEW S, NEW s \in Seq(S), NEW m \in Nat, m < Len(s)
  PROVE  /\ SubSeq(s, Len(s) - m + 1, Len(s)) \in Seq(S)
         /\ Len(SubSeq(s, Len(s) - m + 1, Len(s))) = m
         /\ \A i \in 1 .. m :
              SubSeq(s, Len(s) - m + 1, Len(s))[i] = s[Len(s) - m + i]
OBVIOUS

LEMMA NewRow ==
  ASSUME NEW s \in Seq(BOOLEAN), NEW t, t = Append(s, FALSE)
  PROVE  /\ t \in Seq(BOOLEAN) /\ Len(t) = Len(s) + 1
         /\ \A r \in 1 .. Len(s) : t[r] = s[r]
         /\ t[Len(s) + 1] = FALSE
OBVIOUS

(* The journal with a new entry: the entry first, the older ones moved on  *)
(* by one, at most the last of them lost.                                  *)
IsOneMore(r, s, a) ==
  /\ IsSequence(r) /\ DOMAIN r = 1 .. Len(r)
  /\ Len(r) \in 1 .. Len(s) + 1
  /\ r[1] = a
  /\ \A i \in 2 .. Len(r) : r[i] = s[i - 1] /\ i - 1 \in DOMAIN s

LEMMA KeptIs ==
  ASSUME NEW s, IsSequence(s), NEW a, NEW max \in Nat \ {0},
         NEW r, r = Kept(<<a>> \o s, max)
  PROVE  /\ IsOneMore(r, s, a)
         /\ Len(r) = IF Len(s) + 1 < max THEN Len(s) + 1 ELSE max
<1> DEFINE S == {s[i] : i \in 1 .. Len(s)} \cup {a}
           u == <<a>> \o s
           n == IF Len(u) < max THEN Len(u) ELSE max
           t == SubSeq(u, 1, n)
<1>1. s \in Seq(S) /\ a \in S /\ DOMAIN s = 1 .. Len(s) /\ Len(s) \in Nat
  BY SequenceTyped DEF IsSequence
<1>2. /\ u \in Seq(S) /\ Len(u) = Len(s) + 1
      /\ \A i \in 1 .. Len(s) + 1 : u[i] = IF i = 1 THEN a ELSE s[i - 1]
  <2> HIDE DEF S
  <2> QED
    BY <1>1, Prefixed
<1> HIDE DEF S, u
<1>3. /\ n \in 0 .. Len(u) /\ n \in 1 .. Len(s) + 1
      /\ n = IF Len(s) + 1 < max THEN Len(s) + 1 ELSE max
  BY <1>1, <1>2
<1> HIDE DEF n
<1>4. t \in Seq(S) /\ Len(t) = n /\ \A i \in 1 .. n : t[i] = u[i]
  BY <1>2, <1>3, FirstOnes
<1>5. IsSequence(t) /\ DOMAIN t = 1 .. Len(t)
  BY <1>4, TypedSequence
<1>6. r = t
  BY DEF Kept, u, n
<1> HIDE DEF t
<1>7. t[1] = a /\ \A i \in 2 .. n : t[i] = s[i - 1] /\ i - 1 \in 1 .. Len(s)
  BY <1>1, <1>2, <1>3, <1>4
<1> QED
  BY <1>1, <1>3, <1>4, <1>5, <1>6, <1>7 DEF IsOneMore

(* The panel with a new mark: every mark is an old one or the new one.     *)
LEMMA PanelGrows ==
  ASSUME NEW s, IsSequence(s), NEW a, NEW max \in Nat \ {0}
  PROVE  LET t == LastOnes(Append(s, a), max) IN
         /\ IsSequence(t) /\ DOMAIN t = 1 .. Len(t) /\ Len(t) <= max
         /\ \A i \in DOMAIN t : t[i] = a \/ \E k \in DOMAIN s : t[i] = s[k]
<1> DEFINE S == {s[i] : i \in 1 .. Len(s)} \cup {a}
           u == Append(s, a)
           t == LastOnes(u, max)
<1>1. s \in Seq(S) /\ a \in S /\ DOMAIN s = 1 .. Len(s) /\ Len(s) \in Nat
  BY SequenceTyped DEF IsSequence
<1>2. \A x \in S : x = a \/ \E k \in DOMAIN s : x = s[k]
  BY <1>1
<1> HIDE DEF S
<1>3. u \in Seq(S)
  BY <1>1
<1> HIDE DEF u
<1>4. t \in Seq(S) /\ Len(t) <= max
  <2>1. CASE Len(u) > max
    <3>1. /\ SubSeq(u, Len(u) - max + 1, Len(u)) \in Seq(S)
          /\ Len(SubSeq(u, Len(u) - max + 1, Len(u))) = max
      BY <1>3, <2>1, FinalOnes
    <3> QED
      BY <2>1, <3>1 DEF LastOnes
  <2>2. CASE ~(Len(u) > max)
    BY <1>3, <2>2 DEF LastOnes
  <2> QED
    BY <2>1, <2>2
<1>5. t = LastOnes(Append(s, a), max)
  BY DEF u
<1> HIDE DEF t
<1>6. IsSequence(t) /\ DOMAIN t = 1 .. Len(t)
  BY <1>4, TypedSequence
<1>7. \A i \in DOMAIN t : t[i] \in S
  BY <1>4
<1> QED
  BY <1>2, <1>4, <1>5, <1>6, <1>7

-----------------------------------------------------------------------------
LEMMA AlarmInvInit == AlarmInit => AlarmInv
<1> SUFFICES ASSUME AlarmInit PROVE AlarmInv
  OBVIOUS
<1>1. /\ journal = << >> /\ panel = << >> /\ archive = << >> /\ counter = 0
      /\ refused = {}
  BY DEF AlarmInit, Fresh
<1> QED
  BY <1>1 DEF AlarmInv, JournalOK, PanelOK, ArchiveOK, ArchiveFollows,
     PanelFollows, IsSequence

LEMMA RestartKeeps == ASSUME AlarmInv, Restart PROVE AlarmInv'
<1>1. /\ journal' = << >> /\ panel' = << >> /\ archive' = archive /\ counter' = 0
      /\ refused' = refused
  BY DEF Restart
<1> QED
  BY <1>1 DEF AlarmInv, JournalOK, PanelOK, ArchiveOK, ArchiveFollows,
     PanelFollows, IsSequence

(* A new alarm has a fresh identifier and, if the archive took it, a fresh *)
(* row, unacknowledged in all three places.                                *)
LEMMA RaiseKeeps == ASSUME AlarmInv, NEW f, Raise(f) PROVE AlarmInv'
<1>0. PICK stored \in BOOLEAN :
      /\ archive' = IF stored THEN Append(archive, FALSE) ELSE archive
      /\ journal' = Kept(<<Alarm(f, IF stored THEN Len(archive) + 1
                                              ELSE NoRow)>> \o journal,
                         JournalMax)
  BY DEF Raise
<1> DEFINE row == IF stored THEN Len(archive) + 1 ELSE NoRow
           new == Alarm(f, row)
<1>1. /\ counter' = counter + 1
      /\ panel' = IF OfSeverity4(f) THEN panel
                   ELSE LastOnes(Append(panel, [id |-> counter + 1,
                                                acked |-> FALSE]), PanelMax)
      /\ refused' = refused
  BY DEF Raise
<1>2. /\ archive \in Seq(BOOLEAN) /\ counter \in Nat /\ Len(archive) \in Nat
      /\ IsSequence(journal) /\ IsSequence(panel)
      /\ DOMAIN journal = 1 .. Len(journal) /\ Len(journal) \in Nat
  BY SequenceTyped DEF AlarmInv, ArchiveOK, JournalOK, PanelOK, IsSequence
<1>3. /\ archive' \in Seq(BOOLEAN) /\ Len(archive') \in Nat
      /\ Len(archive) <= Len(archive')
      /\ \A r \in 1 .. Len(archive) : archive'[r] = archive[r]
      /\ row \in 0 .. Len(archive') /\ row \notin 1 .. Len(archive)
      /\ row # NoRow => archive'[row] = FALSE
  <2>1. CASE stored
    <3>1. archive' = Append(archive, FALSE) /\ row = Len(archive) + 1
      BY <1>0, <2>1
    <3>2. archive \in Seq(BOOLEAN) /\ archive' = Append(archive, FALSE)
      BY <1>2, <3>1
    <3>3. /\ archive' \in Seq(BOOLEAN) /\ Len(archive') = Len(archive) + 1
          /\ \A r \in 1 .. Len(archive) : archive'[r] = archive[r]
          /\ archive'[Len(archive) + 1] = FALSE
      BY <3>2, NewRow, Zenon
    <3> HIDE DEF row
    <3>4. /\ Len(archive') \in Nat /\ Len(archive) <= Len(archive')
          /\ row \in 0 .. Len(archive') /\ row \notin 1 .. Len(archive)
      BY <1>2, <3>1, <3>3
    <3>5. archive'[row] = FALSE
      BY <3>1, <3>3, Zenon
    <3> QED
      BY <3>3, <3>4, <3>5
  <2>2. CASE ~stored
    BY <1>0, <1>2, <2>2 DEF NoRow
  <2> QED
    BY <2>1, <2>2
<1>4. IsAlarm(new) /\ new.id = counter + 1 /\ new.row = row
      /\ new.acked = FALSE /\ new.cleared = FALSE
  BY DEF Alarm, IsAlarm
<1> HIDE DEF row, new
<1>5. /\ IsSequence(journal') /\ DOMAIN journal' = 1 .. Len(journal')
      /\ Len(journal') \in 1 .. Len(journal) + 1
      /\ journal'[1] = new
      /\ \A i \in 2 .. Len(journal') :
           journal'[i] = journal[i - 1] /\ i - 1 \in DOMAIN journal
  <2>1. journal' = Kept(<<new>> \o journal, JournalMax)
    BY <1>0 DEF new, row
  <2>2. JournalMax \in Nat \ {0}
    BY AlarmAssumption
  <2>3. IsSequence(journal)
    BY <1>2
  <2>4. IsOneMore(journal', journal, new)
    BY <2>1, <2>2, <2>3, KeptIs
  <2> QED
    BY <2>4 DEF IsOneMore
<1> DEFINE Older(j) == /\ j - 1 \in DOMAIN journal /\ j - 1 \in Nat
                       /\ journal'[j] = journal[j - 1]
                       /\ IsAlarm(journal[j - 1])
                       /\ journal[j - 1].id = counter + 1 - (j - 1)
                       /\ journal[j - 1].row \in 0 .. Len(archive)
<1>51. ASSUME NEW j \in DOMAIN journal', j # 1 PROVE Older(j)
  <2>1. j \in 2 .. Len(journal')
    BY <1>2, <1>5, <1>51
  <2>2. /\ j - 1 \in DOMAIN journal /\ j - 1 \in Nat
        /\ journal'[j] = journal[j - 1]
    BY <1>2, <1>5, <2>1
  <2>3. /\ IsAlarm(journal[j - 1])
        /\ journal[j - 1].id = counter + 1 - (j - 1)
        /\ journal[j - 1].row \in 0 .. Len(archive)
    BY <2>2 DEF AlarmInv, JournalOK
  <2> QED
    BY <2>2, <2>3
<1>6. JournalOK'
  <2>1. \A i \in DOMAIN journal' :
          /\ IsAlarm(journal'[i])
          /\ journal'[i].id = counter' + 1 - i
          /\ journal'[i].row \in 0 .. Len(archive')
    <3> SUFFICES ASSUME NEW i \in DOMAIN journal'
                 PROVE  /\ IsAlarm(journal'[i])
                        /\ journal'[i].id = counter' + 1 - i
                        /\ journal'[i].row \in 0 .. Len(archive')
      OBVIOUS
    <3>1. CASE i = 1
      BY <1>1, <1>2, <1>3, <1>4, <1>5, <3>1
    <3>2. CASE i # 1
      <4>1. Older(i)
        BY <1>51, <3>2
      <4>2. counter' = counter + 1 /\ i \in Int /\ counter \in Int
        BY <1>1, <1>2, <1>5
      <4>3. /\ journal'[i] = journal[i - 1] /\ IsAlarm(journal[i - 1])
            /\ journal[i - 1].id = counter + 1 - (i - 1)
            /\ journal[i - 1].row \in 0 .. Len(archive)
        BY <4>1
      <4> HIDE DEF Older
      <4>4. IsAlarm(journal'[i])
        BY <4>3, Zenon
      <4>5. journal'[i].id = counter' + 1 - i
        <5>1. journal'[i].id = counter + 1 - (i - 1)
          BY <4>3, Zenon
        <5> QED
          BY <4>2, <5>1
      <4>6. journal'[i].row \in 0 .. Len(archive')
        <5>1. journal'[i].row \in 0 .. Len(archive)
          BY <4>3, Zenon
        <5>2. /\ Len(archive) \in Nat /\ Len(archive') \in Nat
              /\ Len(archive) <= Len(archive')
          BY <1>2, <1>3
        <5> QED
          BY <5>1, <5>2
      <4> QED
        BY <4>4, <4>5, <4>6
    <3> QED
      BY <3>1, <3>2
  <2>2. ASSUME NEW i \in DOMAIN journal', NEW k \in DOMAIN journal',
               journal'[i].row = journal'[k].row, journal'[i].row # NoRow
        PROVE  i = k
    <3>1. journal'[1].row = row
      BY <1>4, <1>5
    <3>2. CASE i = 1
      <4>1. row \notin 0 .. Len(archive)
        BY <1>2, <1>3, <2>2, <3>1, <3>2 DEF NoRow
      <4> QED
        BY <1>51, <2>2, <3>1, <3>2, <4>1
    <3>3. CASE k = 1
      <4>1. row \notin 0 .. Len(archive)
        BY <1>2, <1>3, <2>2, <3>1, <3>3 DEF NoRow
      <4> QED
        BY <1>51, <2>2, <3>1, <3>3, <4>1
    <3>4. CASE i # 1 /\ k # 1
      <4>1. Older(i) /\ Older(k)
        BY <1>51, <3>4
      <4>2. i - 1 = k - 1
        BY <2>2, <4>1 DEF AlarmInv, JournalOK
      <4> QED
        BY <1>5, <4>2
    <3> QED
      BY <3>2, <3>3, <3>4
  <2> QED
    BY <1>5, <2>1, <2>2 DEF JournalOK
<1>7. ArchiveFollows'
  <2> SUFFICES ASSUME NEW i \in DOMAIN journal', journal'[i].row # NoRow
               PROVE  archive'[journal'[i].row] <=>
                        journal'[i].acked /\ journal'[i].row \notin refused
    BY <1>1 DEF ArchiveFollows
  <2>1. CASE i = 1
    BY <1>3, <1>4, <1>5, <2>1
  <2>2. CASE i # 1
    <3>1. Older(i)
      BY <1>51, <2>2
    <3>2. journal[i - 1].row \in 1 .. Len(archive)
      BY <1>2, <3>1 DEF NoRow
    <3>3. archive[journal[i - 1].row] <=>
            journal[i - 1].acked /\ journal[i - 1].row \notin refused
      BY <3>1 DEF AlarmInv, ArchiveFollows
    <3> QED
      BY <1>3, <3>1, <3>2, <3>3
  <2> QED
    BY <2>1, <2>2
<1> DEFINE mark == [id |-> counter + 1, acked |-> FALSE]
<1>8. /\ IsSequence(panel')
      /\ \A k \in DOMAIN panel' :
           panel'[k] = mark \/ \E j \in DOMAIN panel : panel'[k] = panel[j]
  <2>1. CASE OfSeverity4(f)
    BY <1>1, <1>2, <2>1
  <2>2. CASE ~OfSeverity4(f)
    <3>1. panel' = LastOnes(Append(panel, mark), PanelMax)
      BY <1>1, <2>2
    <3>2. PanelMax \in Nat \ {0}
      BY AlarmAssumption
    <3> HIDE DEF mark
    <3> QED
      BY <1>2, <3>1, <3>2, PanelGrows
  <2> QED
    BY <2>1, <2>2
<1>9. PanelOK'
  <2> SUFFICES ASSUME NEW k \in DOMAIN panel'
               PROVE  IsMark(panel'[k]) /\ panel'[k].id \in 1 .. counter'
    BY <1>8 DEF PanelOK
  <2>1. CASE panel'[k] = mark
    <3>1. counter' = counter + 1 /\ counter \in Nat
      BY <1>1, <1>2
    <3>2. IsMark(mark) /\ mark.id = counter + 1
      BY Zenon DEF IsMark
    <3> HIDE DEF mark
    <3> QED
      BY <2>1, <3>1, <3>2
  <2>2. ASSUME NEW j \in DOMAIN panel, panel'[k] = panel[j]
        PROVE  IsMark(panel'[k]) /\ panel'[k].id \in 1 .. counter'
    BY <1>1, <1>2, <2>2 DEF AlarmInv, PanelOK
  <2> QED
    BY <1>8, <2>1, <2>2
<1>10. PanelFollows'
  <2> SUFFICES ASSUME NEW k \in DOMAIN panel', NEW i \in DOMAIN journal',
                      panel'[k].id = journal'[i].id
               PROVE  /\ panel'[k].acked => journal'[i].acked
                      /\ journal'[i].acked /\ ~journal'[i].cleared
                           => panel'[k].acked
    BY DEF PanelFollows
  <2>2. \A j \in DOMAIN panel : panel[j].id \in 1 .. counter
    BY DEF AlarmInv, PanelOK
  <2>3. CASE i = 1
    <3>1. panel'[k].id = counter + 1
      BY <1>4, <1>5, <2>3
    <3>2. panel'[k] = mark
      BY <1>2, <1>8, <2>2, <3>1
    <3> QED
      BY <1>4, <1>5, <2>3, <3>2
  <2>4. CASE i # 1
    <3>1. panel'[k].id # counter + 1
      <4>1. Older(i)
        BY <1>51, <2>4
      <4>2. i \in Int /\ i # 1 /\ i - 1 >= 1
        BY <1>2, <1>5, <2>4, <4>1
      <4>3. panel'[k].id = counter + 1 - (i - 1)
        BY <4>1
      <4> HIDE DEF Older
      <4> QED
        BY <1>2, <4>2, <4>3
    <3>2. PICK j \in DOMAIN panel : panel'[k] = panel[j]
      BY <1>8, <3>1
    <3> QED
      BY <1>51, <2>4, <3>2 DEF AlarmInv, PanelFollows
  <2> QED
    BY <2>3, <2>4
<1> QED
  <2>1. ArchiveOK'
    <3>1. counter' \in Nat
      BY <1>1, <1>2
    <3>2. refused' \subseteq DOMAIN archive'
      <4>1. refused \subseteq 1 .. Len(archive)
        BY <1>2 DEF AlarmInv, ArchiveOK
      <4>2. DOMAIN archive' = 1 .. Len(archive')
        BY <1>3
      <4>3. 1 .. Len(archive) \subseteq 1 .. Len(archive')
        BY <1>2, <1>3
      <4> QED
        BY <1>1, <4>1, <4>2, <4>3
    <3> QED
      BY <1>3, <3>1, <3>2 DEF ArchiveOK
  <2> QED
    BY <1>6, <1>7, <1>9, <1>10, <2>1 DEF AlarmInv

-----------------------------------------------------------------------------
(* Entries overwritten, and sequences rewritten entry by entry.            *)
LEMMA AckedEntry ==
  ASSUME NEW v1, NEW v2, NEW v3, NEW v4, NEW v5, NEW v6, NEW v7, NEW a,
         NEW yes,
         a = [id |-> v1, source |-> v2, about |-> v3, status |-> v4,
              acked |-> v5, cleared |-> v6, row |-> v7]
  PROVE  [a EXCEPT !.acked = yes]
           = [id |-> v1, source |-> v2, about |-> v3, status |-> v4,
              acked |-> yes, cleared |-> v6, row |-> v7]
OBVIOUS

LEMMA ClearedEntry ==
  ASSUME NEW v1, NEW v2, NEW v3, NEW v4, NEW v5, NEW v6, NEW v7, NEW a,
         NEW yes,
         a = [id |-> v1, source |-> v2, about |-> v3, status |-> v4,
              acked |-> v5, cleared |-> v6, row |-> v7]
  PROVE  [a EXCEPT !.cleared = yes, !.acked = yes]
           = [id |-> v1, source |-> v2, about |-> v3, status |-> v4,
              acked |-> yes, cleared |-> yes, row |-> v7]
<1> DEFINE b == [a EXCEPT !.cleared = yes]
<1>1. b = [id |-> v1, source |-> v2, about |-> v3, status |-> v4,
           acked |-> v5, cleared |-> yes, row |-> v7]
  OBVIOUS
<1>2. [a EXCEPT !.cleared = yes, !.acked = yes] = [b EXCEPT !.acked = yes]
  OBVIOUS
<1> HIDE DEF b
<1> QED
  BY <1>1, <1>2, AckedEntry

LEMMA AckedMark ==
  ASSUME NEW v1, NEW v2, NEW m, NEW yes, m = [id |-> v1, acked |-> v2]
  PROVE  [m EXCEPT !.acked = yes] = [id |-> v1, acked |-> yes]
OBVIOUS

LEMMA Rewritten ==
  ASSUME NEW s, NEW n \in Nat, DOMAIN s = 1 .. n, s = [i \in 1 .. n |-> s[i]]
  PROVE  IsSequence(s)
<1> DEFINE S == {s[i] : i \in 1 .. n}
<1>1. \A i \in 1 .. n : s[i] \in S
  OBVIOUS
<1> HIDE DEF S
<1>2. s \in [1 .. n -> S]
  BY <1>1
<1>3. s \in Seq(S)
  BY <1>2
<1> QED
  BY <1>3, TypedSequence

(* The archive told of some rows: those it fails to mark are noted.        *)
LEMMA PersistMarks ==
  ASSUME archive \in Seq(BOOLEAN), refused \subseteq DOMAIN archive,
         NEW told, Persist(told)
  PROVE  /\ archive' \in Seq(BOOLEAN) /\ Len(archive') = Len(archive)
         /\ refused' \subseteq DOMAIN archive'
         /\ \A r \in DOMAIN archive :
              /\ r \in told => (archive'[r] <=> r \notin refused')
              /\ r \notin told =>
                   /\ archive'[r] = archive[r]
                   /\ r \in refused' <=> r \in refused
<1>1. PICK failed \in SUBSET Unmarked(told) :
        /\ archive' = Acked(told \ failed)
        /\ refused' = (refused \ told) \cup failed
  BY DEF Persist
<1>2. \A r \in failed : r \in told /\ r \in DOMAIN archive /\ ~archive[r]
  BY DEF Unmarked
<1> DEFINE done == told \ failed
<1>3. archive' = [r \in DOMAIN archive |-> archive[r] \/ r \in done]
  BY <1>1 DEF Acked
<1>4. \A r : r \in done <=> r \in told /\ r \notin failed
  OBVIOUS
<1> HIDE DEF done
<1>5. \A r \in DOMAIN archive :
        (archive[r] \/ r \in done) \in BOOLEAN
  BY Zenon
<1>6. /\ DOMAIN archive = 1 .. Len(archive) /\ Len(archive) \in Nat
      /\ \A r \in DOMAIN archive : archive[r] \in BOOLEAN
  OBVIOUS
<1>7. archive' \in [1 .. Len(archive) -> BOOLEAN]
  BY <1>3, <1>5, <1>6, Zenon
<1>8. /\ archive' \in Seq(BOOLEAN) /\ Len(archive') = Len(archive)
      /\ DOMAIN archive' = DOMAIN archive
  BY <1>6, <1>7
<1>9. refused' \subseteq DOMAIN archive'
  BY <1>1, <1>2, <1>8, Zenon
<1>10. ASSUME NEW r \in DOMAIN archive, r \in told
       PROVE  archive'[r] <=> r \notin refused'
  <2>1. archive'[r] <=> archive[r] \/ r \notin failed
    BY <1>3, <1>4, <1>10, Zenon
  <2>2. r \in refused' <=> r \in failed
    BY <1>1, <1>10, Zenon
  <2> QED
    BY <1>2, <2>1, <2>2, Zenon
<1>11. ASSUME NEW r \in DOMAIN archive, r \notin told
       PROVE  archive'[r] = archive[r] /\ (r \in refused' <=> r \in refused)
  <2>1. r \notin done /\ r \notin failed
    BY <1>2, <1>4, <1>11, Zenon
  <2>2. archive'[r] = (archive[r] \/ r \in done)
    BY <1>3, Zenon
  <2>3. (archive[r] \/ r \in done) = archive[r]
    BY <1>6, <2>1, Zenon
  <2>4. r \in refused' <=> r \in refused
    BY <1>1, <1>11, <2>1, Zenon
  <2> QED
    BY <2>2, <2>3, <2>4, Zenon
<1> QED
  BY <1>8, <1>9, <1>10, <1>11, Zenon

(* Entries acknowledged, and the archive told of the rows they name: no    *)
(* other entry has one of these rows, so that the archive still follows.   *)
LEMMA MarkKeeps ==
  ASSUME AlarmInv, NEW M, M \subseteq DOMAIN journal,
         IsSequence(journal'), DOMAIN journal' = DOMAIN journal,
         \A i \in DOMAIN journal :
           /\ IsAlarm(journal'[i])
           /\ journal'[i].id = journal[i].id /\ journal'[i].row = journal[i].row
           /\ journal'[i].acked = (journal[i].acked \/ i \in M),
         Persist(RowsOf(M)), counter' = counter
  PROVE  JournalOK' /\ ArchiveOK' /\ ArchiveFollows'
<1>1. /\ archive \in Seq(BOOLEAN) /\ counter \in Nat /\ Len(archive) \in Nat
      /\ DOMAIN archive = 1 .. Len(archive) /\ refused \subseteq DOMAIN archive
  BY DEF AlarmInv, ArchiveOK
<1> DEFINE told == RowsOf(M)
<1>2. /\ archive' \in Seq(BOOLEAN) /\ Len(archive') = Len(archive)
      /\ refused' \subseteq DOMAIN archive'
      /\ \A r \in DOMAIN archive :
           /\ r \in told => (archive'[r] <=> r \notin refused')
           /\ r \notin told =>
                archive'[r] = archive[r] /\ (r \in refused' <=> r \in refused)
  <2>1. Persist(told)
    OBVIOUS
  <2> HIDE DEF told
  <2> QED
    BY <1>1, <2>1, PersistMarks
<1>3. JournalOK'
  BY <1>1, <1>2 DEF AlarmInv, JournalOK
<1>4. ArchiveFollows'
  <2> SUFFICES ASSUME NEW i \in DOMAIN journal, journal[i].row # NoRow
               PROVE  archive'[journal[i].row] <=>
                        journal'[i].acked /\ journal[i].row \notin refused'
    BY Zenon DEF ArchiveFollows
  <2>1. journal[i].row \in DOMAIN archive
    <3>1. journal[i].row \in 0 .. Len(archive)
      BY DEF AlarmInv, JournalOK
    <3> QED
      BY <1>1, <3>1 DEF NoRow
  <2>2. archive[journal[i].row] <=>
          journal[i].acked /\ journal[i].row \notin refused
    BY Zenon DEF AlarmInv, ArchiveFollows
  <2>3. journal[i].row \in told <=> i \in M
    BY Zenon DEF RowsOf, AlarmInv, JournalOK
  <2> HIDE DEF told
  <2>4. CASE i \in M
    BY <1>2, <2>1, <2>3, <2>4, Zenon
  <2>5. CASE i \notin M
    <3>1. /\ archive'[journal[i].row] = archive[journal[i].row]
          /\ journal[i].row \in refused' <=> journal[i].row \in refused
      BY <1>2, <2>1, <2>3, <2>5, Zenon
    <3>2. journal'[i].acked <=> journal[i].acked
      BY <2>5, Zenon
    <3> QED
      BY <2>2, <3>1, <3>2, Zenon
  <2> QED
    BY <2>4, <2>5
<1> QED
  BY <1>1, <1>2, <1>3, <1>4 DEF ArchiveOK

(* An entry of the journal with new marks, the rest as it was.             *)
IsMarked(b, a, acked, cleared) ==
  /\ IsAlarm(b)
  /\ b.id = a.id /\ b.source = a.source /\ b.about = a.about
  /\ b.status = a.status /\ b.row = a.row
  /\ b.acked = acked /\ b.cleared = cleared

LEMMA JournalTyped ==
  ASSUME AlarmInv
  PROVE  /\ IsSequence(journal) /\ DOMAIN journal = 1 .. Len(journal)
         /\ Len(journal) \in Nat
         /\ \A i \in DOMAIN journal : IsAlarm(journal[i])
BY SequenceTyped DEF AlarmInv, JournalOK, IsSequence

LEMMA MarkedSequence ==
  ASSUME AlarmInv, DOMAIN journal' = DOMAIN journal,
         journal' = [i \in DOMAIN journal |-> journal'[i]]
  PROVE  IsSequence(journal') /\ Len(journal') = Len(journal)
<1>1. DOMAIN journal = 1 .. Len(journal) /\ Len(journal) \in Nat
  BY JournalTyped
<1>2. /\ DOMAIN journal' = 1 .. Len(journal)
      /\ journal' = [i \in 1 .. Len(journal) |-> journal'[i]]
  BY <1>1, Zenon
<1>3. IsSequence(journal')
  BY <1>1, <1>2, Rewritten
<1>4. DOMAIN journal' = 1 .. Len(journal') /\ Len(journal') \in Nat
  BY <1>3, SequenceTyped DEF IsSequence
<1> QED
  BY <1>1, <1>2, <1>3, <1>4

(* A parameter back inside its band: what it closes it also acknowledges.  *)
LEMMA ClearMarks ==
  ASSUME AlarmInv, NEW p, Clear(p)
  PROVE  /\ DOMAIN journal' = DOMAIN journal
         /\ IsSequence(journal') /\ Len(journal') = Len(journal)
         /\ \A i \in DOMAIN journal :
              IsMarked(journal'[i], journal[i],
                       journal[i].acked \/ Closes(journal[i], p),
                       journal[i].cleared \/ Closes(journal[i], p))
<1> DEFINE new(a) == IF Closes(a, p)
                     THEN [a EXCEPT !.cleared = TRUE, !.acked = TRUE] ELSE a
<1>1. /\ DOMAIN journal' = DOMAIN journal
      /\ \A i \in DOMAIN journal : journal'[i] = new(journal[i])
      /\ journal' = [i \in DOMAIN journal |-> journal'[i]]
  BY Zenon DEF Clear
<1> HIDE DEF new
<1>2. IsSequence(journal') /\ Len(journal') = Len(journal)
  BY <1>1, MarkedSequence, Zenon
<1>3. ASSUME NEW i \in DOMAIN journal
      PROVE  IsMarked(journal'[i], journal[i],
                      journal[i].acked \/ Closes(journal[i], p),
                      journal[i].cleared \/ Closes(journal[i], p))
  <2> DEFINE a == journal[i]
             b == [id |-> a.id, source |-> a.source, about |-> a.about,
                   status |-> a.status, acked |-> TRUE, cleared |-> TRUE,
                   row |-> a.row]
  <2>1. IsAlarm(a)
    BY JournalTyped
  <2>2. journal'[i] = new(a)
    BY <1>1
  <2> HIDE DEF a
  <2>3. CASE Closes(a, p)
    <3>1. journal'[i] = [a EXCEPT !.cleared = TRUE, !.acked = TRUE]
      BY <2>2, <2>3, Zenon DEF new
    <3>2. a = [id |-> a.id, source |-> a.source, about |-> a.about,
               status |-> a.status, acked |-> a.acked, cleared |-> a.cleared,
               row |-> a.row]
      BY <2>1, Zenon DEF IsAlarm
    <3>3. journal'[i] = b
      BY <3>1, <3>2, ClearedEntry, Zenon
    <3>4. /\ IsAlarm(b) /\ b.id = a.id /\ b.source = a.source /\ b.about = a.about
          /\ b.status = a.status /\ b.row = a.row
          /\ b.acked = TRUE /\ b.cleared = TRUE
      BY DEF IsAlarm
    <3> HIDE DEF b
    <3> QED
      BY <2>3, <3>3, <3>4, Zenon DEF IsMarked, a
  <2>4. CASE ~Closes(a, p)
    <3>1. journal'[i] = a
      BY <2>2, <2>4, Zenon DEF new
    <3>2. a.acked \in BOOLEAN /\ a.cleared \in BOOLEAN
      BY <2>1 DEF IsAlarm
    <3>3. (a.acked \/ Closes(a, p)) = a.acked /\ (a.cleared \/ Closes(a, p)) = a.cleared
      BY <2>4, <3>2, Zenon
    <3> QED
      BY <2>1, <3>1, <3>3, Zenon DEF IsMarked, a
  <2> QED
    BY <2>3, <2>4
<1> QED
  BY <1>1, <1>2, <1>3

(* ... and the panel is not told.                                          *)
LEMMA ClearKeeps == ASSUME AlarmInv, NEW p, Clear(p) PROVE AlarmInv'
<1> DEFINE M == {i \in DOMAIN journal : Closes(journal[i], p)}
<1>1. Persist(RowsOf(M)) /\ panel' = panel /\ counter' = counter
  BY DEF Clear
<1>2. M \subseteq DOMAIN journal
      /\ \A i \in DOMAIN journal : i \in M <=> Closes(journal[i], p)
  OBVIOUS
<1> HIDE DEF M
<1>4. DOMAIN journal' = DOMAIN journal /\ IsSequence(journal')
  BY ClearMarks
<1>5. ASSUME NEW i \in DOMAIN journal
      PROVE  /\ IsAlarm(journal'[i])
             /\ journal'[i].id = journal[i].id
             /\ journal'[i].row = journal[i].row
             /\ journal'[i].acked = (journal[i].acked \/ i \in M)
             /\ journal'[i].cleared = (journal[i].cleared \/ i \in M)
  BY <1>2, ClearMarks, Zenon DEF IsMarked
<1>6. JournalOK' /\ ArchiveOK' /\ ArchiveFollows'
  BY <1>1, <1>2, <1>4, <1>5, MarkKeeps, Zenon
<1>7. PanelOK'
  BY <1>1 DEF AlarmInv, PanelOK
<1>8. PanelFollows'
  <2> SUFFICES ASSUME NEW k \in DOMAIN panel, NEW i \in DOMAIN journal,
                      panel[k].id = journal'[i].id
               PROVE  /\ panel[k].acked => journal'[i].acked
                      /\ journal'[i].acked /\ ~journal'[i].cleared
                           => panel[k].acked
    BY <1>1, <1>4, Zenon DEF PanelFollows
  <2>1. /\ panel[k].acked => journal[i].acked
        /\ journal[i].acked /\ ~journal[i].cleared => panel[k].acked
    <3>1. panel[k].id = journal[i].id
      BY <1>5, Zenon
    <3> QED
      BY <3>1, Zenon DEF AlarmInv, PanelFollows
  <2> QED
    BY <1>5, <2>1, Zenon
<1> QED
  BY <1>6, <1>7, <1>8 DEF AlarmInv

LEMMA AckMarks ==
  ASSUME AlarmInv, NEW id, AckJournal(id)
  PROVE  /\ DOMAIN journal' = DOMAIN journal
         /\ IsSequence(journal') /\ Len(journal') = Len(journal)
         /\ \A i \in DOMAIN journal :
              IsMarked(journal'[i], journal[i],
                       journal[i].acked \/ journal[i].id = id, journal[i].cleared)
<1> DEFINE new(a) == IF a.id = id THEN [a EXCEPT !.acked = TRUE] ELSE a
<1>1. /\ DOMAIN journal' = DOMAIN journal
      /\ \A i \in DOMAIN journal : journal'[i] = new(journal[i])
      /\ journal' = [i \in DOMAIN journal |-> journal'[i]]
  BY Zenon DEF AckJournal
<1> HIDE DEF new
<1>2. IsSequence(journal') /\ Len(journal') = Len(journal)
  BY <1>1, MarkedSequence, Zenon
<1>3. ASSUME NEW i \in DOMAIN journal
      PROVE  IsMarked(journal'[i], journal[i],
                      journal[i].acked \/ journal[i].id = id, journal[i].cleared)
  <2> DEFINE a == journal[i]
             b == [id |-> a.id, source |-> a.source, about |-> a.about,
                   status |-> a.status, acked |-> TRUE, cleared |-> a.cleared,
                   row |-> a.row]
  <2>1. IsAlarm(a)
    BY JournalTyped
  <2>2. journal'[i] = new(a)
    BY <1>1
  <2> HIDE DEF a
  <2>3. CASE a.id = id
    <3>1. journal'[i] = [a EXCEPT !.acked = TRUE]
      BY <2>2, <2>3, Zenon DEF new
    <3>2. a = [id |-> a.id, source |-> a.source, about |-> a.about,
               status |-> a.status, acked |-> a.acked, cleared |-> a.cleared,
               row |-> a.row]
      BY <2>1, Zenon DEF IsAlarm
    <3>3. journal'[i] = b
      BY <3>1, <3>2, AckedEntry, Zenon
    <3>4. a.cleared \in BOOLEAN
      BY <2>1 DEF IsAlarm
    <3>5. /\ IsAlarm(b) /\ b.id = a.id /\ b.source = a.source /\ b.about = a.about
          /\ b.status = a.status /\ b.row = a.row
          /\ b.acked = TRUE /\ b.cleared = a.cleared
      BY <3>4 DEF IsAlarm
    <3> HIDE DEF b
    <3> QED
      BY <2>3, <3>3, <3>5, Zenon DEF IsMarked, a
  <2>4. CASE a.id # id
    <3>1. journal'[i] = a
      BY <2>2, <2>4, Zenon DEF new
    <3>2. a.acked \in BOOLEAN
      BY <2>1 DEF IsAlarm
    <3>3. (a.acked \/ a.id = id) = a.acked
      BY <2>4, <3>2, Zenon
    <3> QED
      BY <2>1, <3>1, <3>3, Zenon DEF IsMarked, a
  <2> QED
    BY <2>3, <2>4
<1> QED
  BY <1>1, <1>2, <1>3

(* An operator's acknowledgement, by either route, marks the same alarm in *)
(* the journal, in the archive and on the panel.                           *)
LEMMA AckKeeps ==
  ASSUME AlarmInv, NEW id, AckJournal(id), AckPanel(id), counter' = counter
  PROVE  AlarmInv'
<1> DEFINE M == {i \in DOMAIN journal : journal[i].id = id}
<1>1. /\ Persist(RowsOf(M))
      /\ panel' = [k \in DOMAIN panel |->
                     IF panel[k].id = id THEN [panel[k] EXCEPT !.acked = TRUE]
                                         ELSE panel[k]]
  BY DEF AckJournal, AckPanel
<1>2. M \subseteq DOMAIN journal /\ \A i \in DOMAIN journal : i \in M <=> journal[i].id = id
  OBVIOUS
<1>3. /\ IsSequence(panel) /\ DOMAIN panel = 1 .. Len(panel)
      /\ Len(panel) \in Nat
      /\ \A k \in DOMAIN panel : IsMark(panel[k])
  BY SequenceTyped DEF AlarmInv, PanelOK, IsSequence
<1> HIDE DEF M
<1>4. DOMAIN journal' = DOMAIN journal /\ IsSequence(journal')
  BY AckMarks
<1>5. ASSUME NEW i \in DOMAIN journal
      PROVE  /\ IsAlarm(journal'[i])
             /\ journal'[i].id = journal[i].id
             /\ journal'[i].row = journal[i].row
             /\ journal'[i].acked = (journal[i].acked \/ i \in M)
             /\ journal'[i].cleared = journal[i].cleared
  BY <1>2, AckMarks, Zenon DEF IsMarked
<1>6. JournalOK' /\ ArchiveOK' /\ ArchiveFollows'
  BY <1>1, <1>2, <1>4, <1>5, MarkKeeps, Zenon
<1>7. DOMAIN panel' = DOMAIN panel /\ IsSequence(panel')
  <2>1. /\ DOMAIN panel' = 1 .. Len(panel)
        /\ panel' = [k \in 1 .. Len(panel) |-> panel'[k]]
    BY <1>1, <1>3, Zenon
  <2> QED
    BY <1>3, <2>1, Rewritten
<1>8. ASSUME NEW k \in DOMAIN panel
      PROVE  /\ IsMark(panel'[k]) /\ panel'[k].id = panel[k].id
             /\ panel'[k].acked = (panel[k].acked \/ panel[k].id = id)
  <2>1. CASE panel[k].id = id
    <3> DEFINE b == [id |-> panel[k].id, acked |-> TRUE]
    <3>0. panel'[k] = [panel[k] EXCEPT !.acked = TRUE]
      BY <1>1, <2>1, Zenon
    <3>1. panel'[k] = b
      <4>1. panel[k] = [id |-> panel[k].id, acked |-> panel[k].acked]
        BY <1>3, Zenon DEF IsMark
      <4> QED
        BY <3>0, <4>1, AckedMark, Zenon
    <3>2. IsMark(b) /\ b.id = panel[k].id /\ b.acked = TRUE
      BY DEF IsMark
    <3> HIDE DEF b
    <3> QED
      BY <2>1, <3>1, <3>2
  <2>2. CASE panel[k].id # id
    <3>1. panel'[k] = panel[k]
      BY <1>1, <2>2
    <3>2. IsMark(panel[k]) /\ panel[k].acked \in BOOLEAN
      BY <1>3 DEF IsMark
    <3> QED
      BY <2>2, <3>1, <3>2
  <2> QED
    BY <2>1, <2>2
<1>9. PanelOK'
  <2>1. \A k \in DOMAIN panel : panel[k].id \in 1 .. counter
    BY DEF AlarmInv, PanelOK
  <2> QED
    BY <1>7, <1>8, <2>1 DEF PanelOK
<1>10. PanelFollows'
  <2> SUFFICES ASSUME NEW k \in DOMAIN panel, NEW i \in DOMAIN journal,
                      panel'[k].id = journal'[i].id
               PROVE  /\ panel'[k].acked => journal'[i].acked
                      /\ journal'[i].acked /\ ~journal'[i].cleared
                           => panel'[k].acked
    BY <1>4, <1>7, Zenon DEF PanelFollows
  <2>0. panel[k].id = journal[i].id
    BY <1>5, <1>8
  <2>1. /\ panel[k].acked => journal[i].acked
        /\ journal[i].acked /\ ~journal[i].cleared => panel[k].acked
    BY <2>0, Zenon DEF AlarmInv, PanelFollows
  <2>2. i \in M <=> panel[k].id = id
    BY <1>2, <2>0, Zenon
  <2> QED
    BY <1>5, <1>8, <2>1, <2>2, Zenon
<1> QED
  BY <1>6, <1>9, <1>10 DEF AlarmInv

-----------------------------------------------------------------------------
LEMMA AlarmInvNext == AlarmInv /\ [AlarmNext]_alarmVars => AlarmInv'
<1> SUFFICES ASSUME AlarmInv, [AlarmNext]_alarmVars PROVE AlarmInv'
  OBVIOUS
<1>1. ASSUME UNCHANGED filed PROVE AlarmInv'
  BY <1>1 DEF filed, AlarmInv, JournalOK, PanelOK, ArchiveOK,
     ArchiveFollows, PanelFollows
<1>2. CASE Housekeeping \/ OnBoardReport
  BY <1>1, <1>2 DEF Housekeeping, OnBoardReport, filed
<1>3. CASE File
  BY <1>3, ClearKeeps, RaiseKeeps DEF File
<1>4. ASSUME NEW id, AckInJournal(id) \/ AckOnDisplay(id) PROVE AlarmInv'
  BY <1>4, AckKeeps DEF AckInJournal, AckOnDisplay
<1>5. CASE Restart
  BY <1>5, RestartKeeps
<1>6. CASE UNCHANGED alarmVars
  BY <1>1, <1>6 DEF alarmVars, filed
<1> QED
  BY <1>2, <1>3, <1>4, <1>5, <1>6 DEF AlarmNext

(* The row of an alarm is marked acknowledged exactly when the journal has *)
(* it acknowledged and the archive did not fail when it was last told,     *)
(* whichever route acknowledged it and after any restarts (_raise_alarm,   *)
(* _clear_ground_alarm, _persist_alarm_ack).                               *)
THEOREM ArchiveAlwaysFollows == AlarmSpec => []ArchiveFollows
<1>1. AlarmInv => ArchiveFollows
  BY DEF AlarmInv
<1> QED
  BY AlarmInvInit, AlarmInvNext, <1>1, PTL DEF AlarmSpec

(* An alarm acknowledged by an operator is acknowledged in the journal and *)
(* on the panel; only its parameter acknowledges it in the journal alone.  *)
THEOREM PanelMatchesJournal == AlarmSpec => []PanelFollows
<1>1. AlarmInv => PanelFollows
  BY DEF AlarmInv
<1> QED
  BY AlarmInvInit, AlarmInvNext, <1>1, PTL DEF AlarmSpec

-----------------------------------------------------------------------------
(* The journal against the limit check.  What is still to be filed of a    *)
(* parameter is the state the check has for it, so that the alarm filed    *)
(* last is the one of the state of now.                                    *)
EntryOK(a) ==
  /\ a.about \in IF a.source = Limit THEN Params ELSE Reported
  /\ a.cleared => a.acked /\ a.source = Limit

FilingOK ==
  /\ limitStatus \in [Params -> Statuses]
  /\ filing \in Seq(Finding \cup OnBoardFinding)
  /\ \A k \in DOMAIN filing :
       filing[k].source = Limit => filing[k].status = limitStatus[filing[k].about]
  /\ Len(archive) + Len(filing) <= MaxAlarms

Bounded ==
  /\ Len(journal) <= JournalMax /\ Len(panel) <= PanelMax
  /\ \A i \in DOMAIN journal : EntryOK(journal[i])

FollowInv == FilingOK /\ Bounded /\ LimitAlarmsAgree

Agrees(p) ==
  IF limitStatus[p] = Nominal
  THEN \A i \in LimitAlarms(p) : journal[i].cleared
  ELSE IF LimitAlarms(p) = {} THEN Len(journal) = JournalMax
       ELSE \E i \in LimitAlarms(p) :
              /\ Newest(i, LimitAlarms(p))
              /\ ~journal[i].cleared /\ journal[i].status = limitStatus[p]

LEMMA AgreesIs == LimitAlarmsAgree <=> \A p \in Params : ~Pending(p) => Agrees(p)
BY Zenon DEF LimitAlarmsAgree, Agrees

LEMMA HeadAndTail ==
  ASSUME NEW S, NEW s \in Seq(S), s # << >>
  PROVE  /\ 1 \in DOMAIN s /\ Head(s) = s[1] /\ Head(s) \in S
         /\ Tail(s) \in Seq(S) /\ Len(Tail(s)) = Len(s) - 1
         /\ \A k \in DOMAIN Tail(s) : k + 1 \in DOMAIN s /\ Tail(s)[k] = s[k + 1]
         /\ \A k \in DOMAIN s :
              k = 1 \/ (k - 1 \in DOMAIN Tail(s) /\ s[k] = Tail(s)[k - 1])
OBVIOUS

(* A parameter with nothing left to file had nothing but perhaps the head. *)
LEMMA PendingHead ==
  ASSUME FilingOK, filing # << >>, filing' = Tail(filing),
         NEW p, ~Pending(p)'
  PROVE  Pending(p) => Head(filing).source = Limit /\ Head(filing).about = p
<1> SUFFICES ASSUME NEW k \in DOMAIN filing,
                    filing[k].source = Limit, filing[k].about = p
             PROVE  k = 1
  BY HeadAndTail DEF FilingOK, Pending
<1>1. k = 1 \/ (k - 1 \in DOMAIN filing' /\ filing[k] = filing'[k - 1])
  BY HeadAndTail DEF FilingOK
<1> QED
  BY <1>1, Zenon DEF Pending

LEMMA HeadTyped ==
  ASSUME FilingOK, filing # << >>, NEW f, f = Head(filing)
  PROVE  /\ f \in Finding \cup OnBoardFinding
         /\ f.about \in IF f.source = Limit THEN Params ELSE Reported
         /\ f.source = Limit => f.status = limitStatus[f.about]
<1>1. 1 \in DOMAIN filing /\ f = filing[1] /\ f \in Finding \cup OnBoardFinding
  BY HeadAndTail DEF FilingOK
<1>2. f.about \in IF f.source = Limit THEN Params ELSE Reported
  BY <1>1 DEF Finding, OnBoardFinding, Limit, OnBoard
<1>3. f.source = Limit => f.status = limitStatus[f.about]
  BY <1>1, Zenon DEF FilingOK
<1> QED
  BY <1>1, <1>2, <1>3

LEMMA TailFiling ==
  ASSUME FilingOK, filing # << >>, filing' = Tail(filing),
         limitStatus' = limitStatus,
         Len(archive) \in Nat, Len(archive') \in Nat,
         Len(archive') <= Len(archive) + 1
  PROVE  FilingOK'
<1>1. /\ filing' \in Seq(Finding \cup OnBoardFinding)
      /\ Len(filing) \in Nat /\ Len(filing') = Len(filing) - 1
      /\ \A k \in DOMAIN filing' : k + 1 \in DOMAIN filing /\ filing'[k] = filing[k + 1]
  BY HeadAndTail DEF FilingOK
<1>2. Len(archive') + Len(filing') <= MaxAlarms
  <2>1. Len(archive) + Len(filing) <= MaxAlarms /\ MaxAlarms \in Nat
    BY AlarmAssumption DEF FilingOK
  <2> QED
    BY <1>1, <2>1
<1>3. \A k \in DOMAIN filing' :
        filing'[k].source = Limit => filing'[k].status = limitStatus[filing'[k].about]
  BY <1>1, Zenon DEF FilingOK
<1> QED
  BY <1>1, <1>2, <1>3 DEF FilingOK

(* A new alarm in front of the journal, the last one lost if it was full.  *)
LEMMA RaiseAdds ==
  ASSUME AlarmInv, Bounded, NEW f, Raise(f)
  PROVE  /\ \E row : IsOneMore(journal', journal, Alarm(f, row))
         /\ Len(journal') = IF Len(journal) + 1 < JournalMax THEN Len(journal) + 1
                                                            ELSE JournalMax
         /\ Len(panel') <= PanelMax
         /\ Len(archive') \in Nat /\ Len(archive') <= Len(archive) + 1
<1>1. PICK stored \in BOOLEAN :
      /\ archive' = IF stored THEN Append(archive, FALSE) ELSE archive
      /\ journal' = Kept(<<Alarm(f, IF stored THEN Len(archive) + 1
                                              ELSE NoRow)>> \o journal,
                         JournalMax)
  BY DEF Raise
<1>2. /\ JournalMax \in Nat \ {0} /\ PanelMax \in Nat \ {0}
      /\ IsSequence(journal) /\ IsSequence(panel)
      /\ archive \in Seq(BOOLEAN)
  BY AlarmAssumption DEF AlarmInv, JournalOK, PanelOK, ArchiveOK
<1>3. /\ \E row : IsOneMore(journal', journal, Alarm(f, row))
      /\ Len(journal') = IF Len(journal) + 1 < JournalMax THEN Len(journal) + 1
                                                         ELSE JournalMax
  <2> DEFINE row == IF stored THEN Len(archive) + 1 ELSE NoRow
  <2>1. journal' = Kept(<<Alarm(f, row)>> \o journal, JournalMax)
    BY <1>1
  <2> HIDE DEF row
  <2>2. /\ IsOneMore(journal', journal, Alarm(f, row))
        /\ Len(journal') = IF Len(journal) + 1 < JournalMax THEN Len(journal) + 1
                                                           ELSE JournalMax
    BY <1>2, <2>1, KeptIs
  <2> QED
    BY <2>2
<1>4. Len(panel') <= PanelMax
  <2>1. CASE OfSeverity4(f)
    BY <2>1 DEF Raise, Bounded
  <2>2. CASE ~OfSeverity4(f)
    <3> DEFINE mark == [id |-> counter + 1, acked |-> FALSE]
    <3>1. panel' = LastOnes(Append(panel, mark), PanelMax)
      BY <2>2 DEF Raise
    <3> HIDE DEF mark
    <3> QED
      BY <1>2, <3>1, PanelGrows
  <2> QED
    BY <2>1, <2>2
<1>5. Len(archive') \in Nat /\ Len(archive') <= Len(archive) + 1
  BY <1>1, <1>2
<1> QED
  BY <1>3, <1>4, <1>5

(* What a new alarm leaves as it was: the alarms of other limits move on   *)
(* by one, and if one of them is lost the journal is full.                 *)
LEMMA OthersAgree ==
  ASSUME IsSequence(journal), NEW a, IsOneMore(journal', journal, a),
         Len(journal) <= JournalMax,
         Len(journal') = IF Len(journal) + 1 < JournalMax THEN Len(journal) + 1
                                                        ELSE JournalMax,
         limitStatus' = limitStatus,
         NEW p, ~(a.source = Limit /\ a.about = p), Agrees(p)
  PROVE  Agrees(p)'
<1>1. /\ DOMAIN journal = 1 .. Len(journal) /\ Len(journal) \in Nat
      /\ JournalMax \in Nat \ {0}
  BY AlarmAssumption, SequenceTyped DEF IsSequence
<1>2. /\ DOMAIN journal' = 1 .. Len(journal') /\ journal'[1] = a
      /\ \A i \in 2 .. Len(journal') :
           journal'[i] = journal[i - 1] /\ i - 1 \in DOMAIN journal
  BY DEF IsOneMore
<1>3. Len(journal') \in Nat /\ (Len(journal') = Len(journal) + 1 \/
                               (Len(journal') = JournalMax /\ Len(journal) = JournalMax))
  <2> DEFINE n == Len(journal)
             m == Len(journal')
  <2>1. n \in Nat /\ JournalMax \in Nat /\ n <= JournalMax
        /\ m = IF n + 1 < JournalMax THEN n + 1 ELSE JournalMax
    BY <1>1
  <2> HIDE DEF n, m
  <2>2. m \in Nat /\ (m = n + 1 \/ (m = JournalMax /\ n = JournalMax))
    BY <2>1
  <2> QED
    BY <2>2 DEF n, m
<1>4. ASSUME NEW i \in LimitAlarms(p)'
      PROVE  /\ i \in 2 .. Len(journal') /\ i - 1 \in LimitAlarms(p)
             /\ journal'[i] = journal[i - 1]
  <2>1. i \in DOMAIN journal' /\ journal'[i].source = Limit /\ journal'[i].about = p
    BY DEF LimitAlarms
  <2>2. i # 1
    BY <1>2, <2>1
  <2>3. i \in 2 .. Len(journal')
    BY <1>2, <1>3, <2>1, <2>2
  <2> QED
    BY <1>2, <2>1, <2>3 DEF LimitAlarms
<1>5. ASSUME NEW i \in LimitAlarms(p), i + 1 <= Len(journal')
      PROVE  i + 1 \in LimitAlarms(p)' /\ journal'[i + 1] = journal[i]
  <2>1. i \in DOMAIN journal /\ journal[i].source = Limit /\ journal[i].about = p
    BY DEF LimitAlarms
  <2>2. i + 1 \in 2 .. Len(journal') /\ (i + 1) - 1 = i
    <3>1. i \in 1 .. Len(journal)
      BY <1>1, <2>1, Zenon
    <3> DEFINE n == Len(journal)
               m == Len(journal')
    <3>2. n \in Nat /\ m \in Nat /\ i \in 1 .. n /\ i + 1 <= m
      BY <1>1, <1>3, <1>5, <3>1, Zenon
    <3> HIDE DEF n, m
    <3>3. i + 1 \in 2 .. m /\ (i + 1) - 1 = i
      BY <3>2
    <3> QED
      BY <3>3 DEF m
  <2>3. journal'[i + 1] = journal[i]
    BY <1>2, <2>2
  <2>4. i + 1 \in DOMAIN journal'
    BY <1>2, <1>3, <2>2
  <2> QED
    BY <2>1, <2>3, <2>4 DEF LimitAlarms
<1>6. CASE limitStatus[p] = Nominal
  BY <1>4, <1>6 DEF Agrees
<1>7. CASE limitStatus[p] # Nominal /\ LimitAlarms(p) = {}
  <2>1. Len(journal) = JournalMax /\ LimitAlarms(p)' = {}
    BY <1>4, <1>7 DEF Agrees
  <2>2. Len(journal') = JournalMax
    BY <1>1, <2>1
  <2> QED
    BY <1>7, <2>1, <2>2 DEF Agrees
<1>8. CASE limitStatus[p] # Nominal /\ LimitAlarms(p) # {}
  <2>1. PICK i \in LimitAlarms(p) :
          /\ \A k \in LimitAlarms(p) : i <= k
          /\ ~journal[i].cleared /\ journal[i].status = limitStatus[p]
    BY <1>8 DEF Agrees, Newest
  <2>2. i \in 1 .. Len(journal)
    BY <1>1 DEF LimitAlarms
  <2>3. CASE i + 1 <= Len(journal')
    <3>1. i + 1 \in LimitAlarms(p)' /\ journal'[i + 1] = journal[i]
      BY <1>5, <2>3
    <3>2. \A k \in LimitAlarms(p)' : i + 1 <= k
      <4> TAKE k \in LimitAlarms(p)'
      <4>1. k \in 2 .. Len(journal') /\ i <= k - 1
        BY <1>4, <2>1
      <4> QED
        BY <1>3, <2>2, <4>1
    <3>3. Newest(i + 1, LimitAlarms(p)')
      BY <3>1, <3>2 DEF Newest
    <3>4. ~journal'[i + 1].cleared /\ journal'[i + 1].status = limitStatus'[p]
      BY <2>1, <3>1
    <3>5. LimitAlarms(p)' # {} /\ limitStatus'[p] # Nominal
      BY <1>8, <3>1
    <3> QED
      BY <3>1, <3>3, <3>4, <3>5 DEF Agrees
  <2>4. CASE ~(i + 1 <= Len(journal'))
    <3>1. Len(journal') = JournalMax
      BY <1>3, <2>2, <2>4
    <3>2. LimitAlarms(p)' = {}
      <4> SUFFICES ASSUME NEW k \in LimitAlarms(p)' PROVE FALSE
        OBVIOUS
      <4>1. k \in 2 .. Len(journal') /\ i <= k - 1
        BY <1>4, <2>1
      <4> QED
        BY <1>3, <2>2, <2>4, <4>1
    <3> QED
      BY <1>8, <3>1, <3>2 DEF Agrees
  <2> QED
    BY <2>3, <2>4
<1> QED
  BY <1>6, <1>7, <1>8

LEMMA RaisedAgrees ==
  ASSUME NEW a, IsOneMore(journal', journal, a), limitStatus' = limitStatus,
         NEW p, a.source = Limit, a.about = p, a.status = limitStatus[p],
         limitStatus[p] # Nominal, ~a.cleared
  PROVE  Agrees(p)'
<1>1. DOMAIN journal' = 1 .. Len(journal') /\ 1 \in DOMAIN journal' /\ journal'[1] = a
      /\ Len(journal') \in Nat
  BY DEF IsOneMore, IsSequence
<1>2. 1 \in LimitAlarms(p)'
  BY <1>1 DEF LimitAlarms
<1>3. \A k \in LimitAlarms(p)' : 1 <= k
  BY <1>1 DEF LimitAlarms
<1>4. Newest(1, LimitAlarms(p)')
  BY <1>2, <1>3 DEF Newest
<1>5. LimitAlarms(p)' # {} /\ limitStatus'[p] # Nominal
  BY <1>2
<1>6. ~journal'[1].cleared /\ journal'[1].status = limitStatus'[p]
  BY <1>1
<1> QED
  BY <1>2, <1>4, <1>5, <1>6 DEF Agrees

LEMMA SameAgrees ==
  ASSUME NEW p, Agrees(p), limitStatus' = limitStatus, Len(journal') = Len(journal),
         LimitAlarms(p)' = LimitAlarms(p),
         \A i \in LimitAlarms(p) :
           journal'[i].cleared = journal[i].cleared /\ journal'[i].status = journal[i].status
  PROVE  Agrees(p)'
<1> DEFINE is == LimitAlarms(p)
<1>1. LimitAlarms(p)' = is /\ LimitAlarms(p) = is
  OBVIOUS
<1> HIDE DEF is
<1>2. \A i : Newest(i, LimitAlarms(p)') <=> Newest(i, LimitAlarms(p))
  BY <1>1, Zenon DEF Newest
<1>3. CASE limitStatus[p] = Nominal
  BY <1>3 DEF Agrees
<1>4. CASE limitStatus[p] # Nominal
  BY <1>2, <1>4 DEF Agrees
<1> QED
  BY <1>3, <1>4

LEMMA FileFollows == ASSUME AlarmInv, FollowInv, File PROVE FollowInv'
<1> DEFINE f == Head(filing)
<1>1. /\ filing # << >> /\ filing' = Tail(filing) /\ limitStatus' = limitStatus
      /\ IF Clears(f) THEN Clear(f.about) ELSE Raise(f)
  BY DEF File
<1>2. /\ f.about \in IF f.source = Limit THEN Params ELSE Reported
      /\ f.source = Limit => f.status = limitStatus[f.about]
  BY <1>1, HeadTyped DEF FollowInv
<1>3. /\ Len(archive) \in Nat /\ archive \in Seq(BOOLEAN) /\ IsSequence(journal)
      /\ FilingOK /\ Bounded
      /\ \A p \in Params : ~Pending(p) => Agrees(p)
  BY AgreesIs DEF AlarmInv, ArchiveOK, JournalOK, FollowInv
<1>4. \A p \in Params : ~Pending(p)' => Agrees(p) \/ (f.source = Limit /\ f.about = p)
  BY <1>1, <1>3, PendingHead
<1> HIDE DEF f
<1>5. CASE ~Clears(f)
  <2>1. Raise(f)
    BY <1>1, <1>5
  <2>2. PICK row : IsOneMore(journal', journal, Alarm(f, row))
    BY <1>3, <2>1, RaiseAdds
  <2>3. /\ Len(journal') = IF Len(journal) + 1 < JournalMax THEN Len(journal) + 1
                                                           ELSE JournalMax
        /\ Len(panel') <= PanelMax
        /\ Len(archive') \in Nat /\ Len(archive') <= Len(archive) + 1
    BY <1>3, <2>1, RaiseAdds
  <2> DEFINE a == Alarm(f, row)
  <2>4. /\ a.source = f.source /\ a.about = f.about /\ a.status = f.status
        /\ a.acked = FALSE /\ a.cleared = FALSE
    BY DEF Alarm
  <2>5. IsOneMore(journal', journal, a)
    BY <2>2
  <2> HIDE DEF a
  <2>6. FilingOK'
    BY <1>1, <1>3, <2>3, TailFiling
  <2>7. Bounded'
    <3>1. Len(journal') <= JournalMax
      <4>1. JournalMax \in Nat /\ Len(journal) \in Nat
        BY <1>3, AlarmAssumption DEF IsSequence
      <4> QED
        BY <2>3, <4>1
    <3>2. ASSUME NEW i \in DOMAIN journal' PROVE EntryOK(journal'[i])
      <4>1. CASE i = 1
        BY <1>2, <2>4, <2>5, <4>1 DEF EntryOK, IsOneMore
      <4>2. CASE i # 1
        <5>1. i \in 2 .. Len(journal')
          BY <2>5, <4>2 DEF IsOneMore, IsSequence
        <5> QED
          BY <1>3, <2>5, <5>1 DEF IsOneMore, Bounded
      <4> QED
        BY <4>1, <4>2
    <3> QED
      BY <2>3, <3>1, <3>2 DEF Bounded
  <2>8. ASSUME NEW p \in Params, ~Pending(p)' PROVE Agrees(p)'
    <3>1. CASE f.source = Limit /\ f.about = p
      <4>1. f.status # Nominal
        BY <1>5, <3>1 DEF Clears
      <4> QED
        BY <1>1, <1>2, <2>4, <2>5, <3>1, <4>1, RaisedAgrees
    <3>2. CASE ~(f.source = Limit /\ f.about = p)
      <4>1. Agrees(p)
        BY <1>4, <2>8, <3>2
      <4>2. Len(journal) <= JournalMax
        BY <1>3 DEF Bounded
      <4>3. ~(a.source = Limit /\ a.about = p)
        BY <2>4, <3>2
      <4> QED
        BY <1>1, <1>3, <2>3, <2>5, <4>1, <4>2, <4>3, OthersAgree
    <3> QED
      BY <3>1, <3>2
  <2>9. LimitAlarmsAgree'
    BY <2>8, Zenon DEF LimitAlarmsAgree, Agrees
  <2> QED
    BY <2>6, <2>7, <2>9 DEF FollowInv
<1>6. CASE Clears(f)
  <2>1. Clear(f.about) /\ f.source = Limit /\ f.status = Nominal
    BY <1>1, <1>6 DEF Clears
  <2>2. /\ DOMAIN journal' = DOMAIN journal /\ Len(journal') = Len(journal)
        /\ \A i \in DOMAIN journal :
             IsMarked(journal'[i], journal[i],
                      journal[i].acked \/ Closes(journal[i], f.about),
                      journal[i].cleared \/ Closes(journal[i], f.about))
    BY <2>1, ClearMarks
  <2>3. panel' = panel /\ Len(archive') = Len(archive)
    <3> DEFINE told == RowsOf({i \in DOMAIN journal : Closes(journal[i], f.about)})
    <3>1. Persist(told) /\ panel' = panel
      BY <2>1 DEF Clear
    <3> HIDE DEF told
    <3>2. refused \subseteq DOMAIN archive
      BY DEF AlarmInv, ArchiveOK
    <3> QED
      BY <1>3, <3>1, <3>2, PersistMarks
  <2>4. FilingOK'
    BY <1>1, <1>3, <2>3, TailFiling
  <2>5. Bounded'
    <3>1. ASSUME NEW i \in DOMAIN journal PROVE EntryOK(journal'[i])
      <4>1. EntryOK(journal[i])
        BY <1>3 DEF Bounded
      <4> QED
        BY <2>2, <4>1, Zenon DEF IsMarked, EntryOK, Closes
    <3> QED
      BY <1>3, <2>2, <2>3, <3>1 DEF Bounded
  <2>6. ASSUME NEW p \in Params, ~Pending(p)' PROVE Agrees(p)'
    <3>1. LimitAlarms(p)' = LimitAlarms(p)
      BY <2>2, Zenon DEF LimitAlarms, IsMarked
    <3>2. CASE f.about = p
      <4>1. limitStatus'[p] = Nominal
        BY <1>1, <1>2, <2>1, <3>2
      <4>2. \A i \in LimitAlarms(p) : journal'[i].cleared
        BY <2>2, <3>2, Zenon DEF LimitAlarms, IsMarked, Closes
      <4> QED
        BY <3>1, <4>1, <4>2 DEF Agrees
    <3>3. CASE f.about # p
      <4>1. Agrees(p)
        BY <1>4, <2>6, <3>3
      <4>2. \A i \in LimitAlarms(p) :
              journal'[i].cleared = journal[i].cleared /\ journal'[i].status = journal[i].status
        <5> SUFFICES ASSUME NEW i \in LimitAlarms(p)
                     PROVE  /\ journal'[i].cleared = journal[i].cleared
                            /\ journal'[i].status = journal[i].status
          OBVIOUS
        <5>1. i \in DOMAIN journal /\ ~Closes(journal[i], f.about)
          BY <3>3 DEF LimitAlarms, Closes
        <5>2. journal[i].cleared \in BOOLEAN
          BY <5>1, JournalTyped DEF IsAlarm
        <5>3. (journal[i].cleared \/ Closes(journal[i], f.about)) = journal[i].cleared
          BY <5>1, <5>2, Zenon
        <5> QED
          BY <2>2, <5>1, <5>3, Zenon DEF IsMarked
      <4> QED
        BY <1>1, <2>2, <3>1, <4>1, <4>2, SameAgrees
    <3> QED
      BY <3>2, <3>3
  <2>7. LimitAlarmsAgree'
    BY <2>6, Zenon DEF LimitAlarmsAgree, Agrees
  <2> QED
    BY <2>4, <2>5, <2>7 DEF FollowInv
<1> QED
  BY <1>5, <1>6

(* Housekeeping files every parameter whose state the check changed.       *)
LEMMA HousekeepingFollows ==
  ASSUME AlarmInv, FollowInv, Room(Len(Order)), Housekeeping
  PROVE  FollowInv'
<1>1. /\ filing = << >> /\ journal' = journal /\ panel' = panel /\ archive' = archive
      /\ limitStatus' \in [Params -> Statuses]
  BY DEF Housekeeping, filed
<1> DEFINE ps == Changed(limitStatus')
           found(q) == [source |-> Limit, about |-> q, status |-> limitStatus'[q]]
<1>2. filing' = [k \in DOMAIN ps |-> found(ps[k])]
  BY DEF Housekeeping
<1>3. /\ Order \in Seq(Params) /\ Len(Order) \in Nat
      /\ \A q \in Params : \E i \in DOMAIN Order : Order[i] = q
  BY AlarmAssumption DEF ToSet
<1> DEFINE is == {i \in DOMAIN Order : limitStatus[Order[i]] # limitStatus'[Order[i]]}
<1>4. ps \in Seq(Params) /\ Picks(ps, Order, is) /\ Len(ps) <= Len(Order)
  <2>1. ps = Those(Order, is)
    BY DEF Changed
  <2> HIDE DEF is
  <2> QED
    BY <1>3, <2>1, ThoseArePicked
<1>5. ASSUME NEW q \in Params, limitStatus[q] # limitStatus'[q]
      PROVE  \E k \in DOMAIN ps : ps[k] = q
  <2>1. PICK i \in DOMAIN Order : Order[i] = q
    BY <1>3
  <2>2. i \in is
    BY <1>5, <2>1
  <2> HIDE DEF is, ps
  <2> QED
    BY <1>4, <2>1, <2>2 DEF Picks
<1> HIDE DEF ps, is
<1>6. DOMAIN ps = 1 .. Len(ps) /\ Len(ps) \in Nat /\ \A k \in DOMAIN ps : ps[k] \in Params
  BY <1>4
<1>7. \A q \in Params : /\ found(q) \in Finding \cup OnBoardFinding
                        /\ found(q).source = Limit /\ found(q).about = q
                        /\ found(q).status = limitStatus'[q]
  BY <1>1 DEF Finding
<1> HIDE DEF found
<1>8. filing' \in Seq(Finding \cup OnBoardFinding) /\ Len(filing') = Len(ps)
      /\ DOMAIN filing' = DOMAIN ps /\ \A k \in DOMAIN ps : filing'[k] = found(ps[k])
  <2>1. filing' \in [1 .. Len(ps) -> Finding \cup OnBoardFinding]
    BY <1>2, <1>6, <1>7
  <2> QED
    BY <1>2, <1>6, <2>1
<1>9. FilingOK'
  <2>1. \A k \in DOMAIN filing' : filing'[k].status = limitStatus'[filing'[k].about]
    BY <1>6, <1>7, <1>8
  <2>2. Len(archive') + Len(filing') <= MaxAlarms
    <3>1. Len(archive) + Len(Order) <= MaxAlarms /\ Len(archive) \in Nat /\ MaxAlarms \in Nat
      BY AlarmAssumption DEF Room, AlarmInv, ArchiveOK
    <3> QED
      BY <1>1, <1>3, <1>4, <1>6, <1>8, <3>1
  <2> QED
    BY <1>1, <1>8, <2>1, <2>2 DEF FilingOK
<1>10. Bounded'
  BY <1>1 DEF FollowInv, Bounded
<1>11. ASSUME NEW q \in Params, ~Pending(q)' PROVE Agrees(q)'
  <2>1. Agrees(q)
    BY <1>1, AgreesIs DEF FollowInv, Pending
  <2>2. limitStatus'[q] = limitStatus[q]
    <3>1. SUFFICES ASSUME NEW k \in DOMAIN ps, ps[k] = q PROVE FALSE
      BY <1>5
    <3>2. filing'[k].source = Limit /\ filing'[k].about = q /\ k \in DOMAIN filing'
      BY <1>7, <1>8, <3>1
    <3> QED
      BY <1>11, <3>2, Zenon DEF Pending
  <2> QED
    BY <1>1, <2>1, <2>2, Zenon DEF Agrees, LimitAlarms, Newest
<1>12. LimitAlarmsAgree'
  BY <1>11, Zenon DEF LimitAlarmsAgree, Agrees
<1> QED
  BY <1>9, <1>10, <1>12 DEF FollowInv

LEMMA ReportFollows ==
  ASSUME AlarmInv, FollowInv, Room(1), OnBoardReport
  PROVE  FollowInv'
<1>1. /\ filing = << >> /\ journal' = journal /\ panel' = panel /\ archive' = archive
      /\ limitStatus' = limitStatus
  BY DEF OnBoardReport, filed
<1>2. PICK r \in Reported :
        filing' = <<[source |-> OnBoard, about |-> r, status |-> Nominal]>>
  BY DEF OnBoardReport
<1> DEFINE f == [source |-> OnBoard, about |-> r, status |-> Nominal]
<1>3. f \in OnBoardFinding /\ f.source # Limit
  BY DEF OnBoardFinding, OnBoard, Limit
<1> HIDE DEF f
<1>4. filing' = <<f>>
  BY <1>2 DEF f
<1>5. /\ filing' \in Seq(Finding \cup OnBoardFinding) /\ Len(filing') = 1
      /\ \A k \in DOMAIN filing' : filing'[k].source # Limit
  BY <1>3, <1>4
<1>6. FilingOK'
  <2>1. Len(archive) + 1 <= MaxAlarms
    BY DEF Room
  <2>2. limitStatus' \in [Params -> Statuses]
    BY <1>1 DEF FollowInv, FilingOK
  <2> QED
    BY <1>1, <1>5, <2>1, <2>2 DEF FilingOK
<1>7. Bounded'
  BY <1>1 DEF FollowInv, Bounded
<1>8. ASSUME NEW q \in Params PROVE Agrees(q)'
  <2>1. Agrees(q)
    BY <1>1, AgreesIs DEF FollowInv, Pending
  <2> QED
    BY <1>1, <2>1, Zenon DEF Agrees, LimitAlarms, Newest
<1>9. LimitAlarmsAgree'
  BY <1>8, Zenon DEF LimitAlarmsAgree, Agrees
<1> QED
  BY <1>6, <1>7, <1>9 DEF FollowInv

LEMMA AckFollows ==
  ASSUME AlarmInv, FollowInv, NEW id, AckJournal(id), AckPanel(id),
         UNCHANGED <<limitStatus, filing>>
  PROVE  FollowInv'
<1>1. /\ DOMAIN journal' = DOMAIN journal /\ Len(journal') = Len(journal)
      /\ \A i \in DOMAIN journal :
           IsMarked(journal'[i], journal[i],
                    journal[i].acked \/ journal[i].id = id, journal[i].cleared)
  BY AckMarks
<1>2. Len(archive') = Len(archive)
  <2> DEFINE told == RowsOf({i \in DOMAIN journal : journal[i].id = id})
  <2>1. Persist(told)
    BY DEF AckJournal
  <2> HIDE DEF told
  <2> QED
    BY <2>1, PersistMarks DEF AlarmInv, ArchiveOK
<1>3. Len(panel') = Len(panel)
  <2>1. IsSequence(panel) /\ DOMAIN panel = 1 .. Len(panel) /\ Len(panel) \in Nat
    BY SequenceTyped DEF AlarmInv, PanelOK, IsSequence
  <2>2. /\ DOMAIN panel' = 1 .. Len(panel)
        /\ panel' = [k \in 1 .. Len(panel) |-> panel'[k]]
    BY <2>1, Zenon DEF AckPanel
  <2>3. IsSequence(panel') /\ DOMAIN panel' = 1 .. Len(panel') /\ Len(panel') \in Nat
    BY <2>1, <2>2, Rewritten, SequenceTyped DEF IsSequence
  <2> QED
    BY <2>1, <2>2, <2>3
<1>4. FilingOK'
  BY <1>2 DEF FollowInv, FilingOK
<1>5. Bounded'
  <2>1. ASSUME NEW i \in DOMAIN journal PROVE EntryOK(journal'[i])
    <3>1. EntryOK(journal[i])
      BY DEF FollowInv, Bounded
    <3> QED
      BY <1>1, <3>1, Zenon DEF IsMarked, EntryOK
  <2> QED
    BY <1>1, <1>3, <2>1 DEF FollowInv, Bounded
<1>6. ASSUME NEW p \in Params, ~Pending(p)' PROVE Agrees(p)'
  <2>1. Agrees(p)
    BY <1>6, AgreesIs DEF FollowInv, Pending
  <2>2. LimitAlarms(p)' = LimitAlarms(p)
    BY <1>1, Zenon DEF LimitAlarms, IsMarked
  <2>3. \A i \in LimitAlarms(p) :
          journal'[i].cleared = journal[i].cleared /\ journal'[i].status = journal[i].status
    BY <1>1, Zenon DEF LimitAlarms, IsMarked
  <2> QED
    BY <1>1, <2>1, <2>2, <2>3, SameAgrees
<1>7. LimitAlarmsAgree'
  BY <1>6, Zenon DEF LimitAlarmsAgree, Agrees
<1> QED
  BY <1>4, <1>5, <1>7 DEF FollowInv

LEMMA FreshFollows ==
  ASSUME limitStatus = [p \in Params |-> Nominal],
         filing = << >>, journal = << >>, panel = << >>,
         archive \in Seq(BOOLEAN), Len(archive) <= MaxAlarms
  PROVE  FollowInv
<1>1. limitStatus \in [Params -> Statuses]
  BY DEF Statuses
<1>2. FilingOK
  BY <1>1 DEF FilingOK
<1>3. Bounded
  BY AlarmAssumption DEF Bounded
<1>4. \A p \in Params : limitStatus[p] = Nominal /\ LimitAlarms(p) = {}
  BY DEF LimitAlarms
<1>5. LimitAlarmsAgree
  BY <1>4, Zenon DEF LimitAlarmsAgree
<1> QED
  BY <1>2, <1>3, <1>5 DEF FollowInv

LEMMA FollowInit == AlarmInit => FollowInv
<1> SUFFICES ASSUME AlarmInit PROVE FollowInv
  OBVIOUS
<1>1. /\ limitStatus = [p \in Params |-> Nominal]
      /\ filing = << >> /\ journal = << >> /\ panel = << >>
      /\ archive \in Seq(BOOLEAN) /\ Len(archive) <= MaxAlarms
  BY AlarmAssumption DEF AlarmInit, Fresh
<1> QED
  BY <1>1, FreshFollows

LEMMA RestartFollows == ASSUME AlarmInv, FollowInv, Restart PROVE FollowInv'
<1>1. /\ limitStatus' = [p \in Params |-> Nominal]
      /\ filing' = << >> /\ journal' = << >> /\ panel' = << >> /\ archive' = archive
  BY DEF Restart
<1>2. archive \in Seq(BOOLEAN) /\ Len(archive) <= MaxAlarms
  BY AlarmAssumption DEF AlarmInv, ArchiveOK, FollowInv, FilingOK
<1>3. limitStatus' \in [Params -> Statuses]
  BY <1>1 DEF Statuses
<1>4. FilingOK'
  BY <1>1, <1>2, <1>3 DEF FilingOK
<1>5. Bounded'
  BY <1>1, AlarmAssumption DEF Bounded
<1>6. \A p \in Params : limitStatus'[p] = Nominal /\ LimitAlarms(p)' = {}
  BY <1>1 DEF LimitAlarms
<1>7. LimitAlarmsAgree'
  BY <1>6, Zenon DEF LimitAlarmsAgree
<1> QED
  BY <1>4, <1>5, <1>7 DEF FollowInv

LEMMA FollowNext == AlarmInv /\ FollowInv /\ [AlarmNext]_alarmVars => FollowInv'
<1> SUFFICES ASSUME AlarmInv, FollowInv, [AlarmNext]_alarmVars PROVE FollowInv'
  OBVIOUS
<1>1. CASE Room(Len(Order)) /\ Housekeeping
  BY <1>1, HousekeepingFollows
<1>2. CASE Room(1) /\ OnBoardReport
  BY <1>2, ReportFollows
<1>3. CASE File
  BY <1>3, FileFollows
<1>4. ASSUME NEW id, AckInJournal(id) \/ AckOnDisplay(id) PROVE FollowInv'
  BY <1>4, AckFollows DEF AckInJournal, AckOnDisplay
<1>5. CASE Restart
  BY <1>5, RestartFollows
<1>6. CASE UNCHANGED alarmVars
  <2>1. UNCHANGED <<limitStatus, filing, journal, panel, archive, counter>>
    BY <1>6 DEF alarmVars, filed
  <2>2. FilingOK' /\ Bounded'
    BY <2>1 DEF FollowInv, FilingOK, Bounded
  <2>3. LimitAlarmsAgree'
    BY <2>1 DEF FollowInv, LimitAlarmsAgree, Pending, LimitAlarms, Newest
  <2> QED
    BY <2>2, <2>3 DEF FollowInv
<1> QED
  BY <1>1, <1>2, <1>3, <1>4, <1>5, <1>6 DEF AlarmNext

LEMMA AlarmsFollow == AlarmSpec => [](AlarmInv /\ FollowInv)
<1>1. AlarmInit => AlarmInv /\ FollowInv
  BY AlarmInvInit, FollowInit
<1>2. AlarmInv /\ FollowInv /\ [AlarmNext]_alarmVars => (AlarmInv /\ FollowInv)'
  BY AlarmInvNext, FollowNext
<1> QED
  BY <1>1, <1>2, PTL DEF AlarmSpec

(* Journal, panel and archive keep their types and capacities: an alarm's  *)
(* identifier is its place, its row is in the archive, and only alarms of  *)
(* limits are closed (_raise_alarm, _clear_ground_alarm, add_alarm).       *)
THEOREM AlarmTypeCorrect == AlarmSpec => []AlarmTypeOK
<1>1. AlarmInv /\ FollowInv => AlarmTypeOK
  <2> SUFFICES ASSUME AlarmInv, FollowInv PROVE AlarmTypeOK
    OBVIOUS
  <2>1. /\ archive \in Seq(BOOLEAN) /\ counter \in Nat /\ Len(archive) \in Nat
        /\ DOMAIN archive = 1 .. Len(archive) /\ Len(archive) <= MaxAlarms
    <3>1. archive \in Seq(BOOLEAN) /\ counter \in Nat
      BY DEF AlarmInv, ArchiveOK
    <3>2. Len(filing) \in Nat /\ Len(archive) + Len(filing) <= MaxAlarms /\ MaxAlarms \in Nat
      BY AlarmAssumption DEF FollowInv, FilingOK
    <3> QED
      BY <3>1, <3>2
  <2>2. ASSUME NEW i \in DOMAIN journal
        PROVE  /\ EntryOK(journal[i]) /\ journal[i].id = counter + 1 - i
               /\ journal[i].row # NoRow => journal[i].row \in DOMAIN archive
    <3>1. EntryOK(journal[i]) /\ journal[i].id = counter + 1 - i
          /\ journal[i].row \in 0 .. Len(archive)
      BY DEF FollowInv, Bounded, AlarmInv, JournalOK
    <3> QED
      BY <2>1, <3>1 DEF NoRow
  <2>3. \A i \in DOMAIN panel : panel[i].id \in 1 .. counter
    BY DEF AlarmInv, PanelOK
  <2>4. refused \subseteq DOMAIN archive
    BY DEF AlarmInv, ArchiveOK
  <2> QED
    BY <2>1, <2>2, <2>3, <2>4 DEF AlarmTypeOK, EntryOK, FollowInv, FilingOK, Bounded
<1> QED
  BY AlarmsFollow, <1>1, PTL

(* The journal agrees with the limit check once a packet is filed: inside  *)
(* its band a parameter has no open alarm, outside its newest alarm is     *)
(* open and of the band it is in, unless the journal was too small for it  *)
(* (_check_limit, _raise_alarm, _clear_ground_alarm).                      *)
THEOREM LimitAlarmsAlwaysAgree == AlarmSpec => []LimitAlarmsAgree
<1>1. FollowInv => LimitAlarmsAgree
  BY DEF FollowInv
<1> QED
  BY AlarmsFollow, <1>1, PTL

-----------------------------------------------------------------------------
(***************************************************************************)
(* Theorems about the verdicts of telecommands (module TcVerification),    *)
(* for every set of commands, every size of the queues and every log.      *)
(*                                                                         *)
(* RowsTruthful and CountersAgree look at the two ends of the way of a     *)
(* telecommand.  TcInv adds what holds in between: a telecommand is at one *)
(* place at a time, a report is true wherever it is under way, the         *)
(* accumulators are those of the handler that set them, and the command    *)
(* inside an S11.4 has no fate of its own before the S11.4 is executed.    *)
(***************************************************************************)

Busy == {"run", "rules", "verdict"}

(* A telecommand inserted into the schedule is the one built just before    *)
(* the S11.4, which is "lost" to the link until the S11.4 is executed.      *)
ScheduledOK ==
  \A id \in DOMAIN built : Insert(built[id]) =>
    /\ id > 1 /\ ~Insert(built[id - 1])
    /\ fate[id] # "held"
    /\ fate[id] \in {"lost", "queued"} \/ (pc = "run" /\ tc = id) => fate[id - 1] = "lost"

(* A telecommand is at one place: once in the queue, or in the schedule, or *)
(* in the dispatcher.                                                       *)
QueueOK ==
  \A n \in DOMAIN tcq :
    /\ tcq[n] \in DOMAIN fate /\ fate[tcq[n]] = "queued"
    /\ \A m \in DOMAIN tcq : m # n => tcq[m] # tcq[n]
HeldOK == \A id \in held : id \in DOMAIN fate /\ fate[id] = "held"
RunningOK ==
  /\ pc \in Busy => tc \in DOMAIN fate
  /\ \A id \in DOMAIN fate : fate[id] = "running" <=> pc \in Busy /\ id = tc

(* The accumulators are those of the handler that set them.                *)
FrameOK ==
  pc \in {"rules", "verdict"} =>
    /\ own \in {"ok", "execution", "exec_start"}
    /\ err = (own = "execution") /\ startFail = (own = "exec_start")

(* What a report says has happened, wherever the report is.                *)
SaysTrue(r, f) == r.id \in DOMAIN f /\ f[r.id] \in Claims(NewState[r.rep])
ReportsOK == /\ \A n \in DOMAIN tm : SaysTrue(tm[n], fate)
             /\ \A n \in DOMAIN store : SaysTrue(store[n], fate)
RowsOK == (\A n \in DOMAIN rows : rows[n].id \in DOMAIN fate) /\ RowsTruthful

Ongoing == IF pc \in Busy THEN 1 ELSE 0
CountsOK ==
  /\ counts["rej"] = Having({"rejected"})
  /\ counts["exe"] = Having({"completed", "failed"})
  /\ counts["acc"] = counts["exe"] + Ongoing
  /\ counts["rx"] = counts["acc"] + counts["rej"]

TcInv == /\ TcTypeOK /\ ScheduledOK /\ QueueOK /\ HeldOK /\ RunningOK /\ FrameOK
         /\ ReportsOK /\ RowsOK /\ CountsOK

-----------------------------------------------------------------------------
LEMMA BuiltAre ==
  ASSUME TcTypeOK
  PROVE  /\ DOMAIN fate = DOMAIN built /\ DOMAIN fate \subseteq Ids
         /\ DOMAIN fate = 1 .. Len(fate) /\ Len(fate) \in Nat
         /\ \A id \in DOMAIN fate : fate[id] \in Fates /\ built[id] \in Commands
<1>1. /\ built \in Seq(Commands) /\ Len(built) <= MaxBuilt
      /\ fate \in Seq(Fates) /\ Len(fate) = Len(built)
  BY DEF TcTypeOK
<1>2. MaxBuilt \in Nat
  BY TcVerificationAssumption
<1>3. DOMAIN fate = 1 .. Len(fate) /\ DOMAIN built = 1 .. Len(built) /\ Len(fate) \in Nat
  BY <1>1
<1>4. DOMAIN fate \subseteq Ids
  BY <1>1, <1>2, <1>3 DEF Ids
<1> QED BY <1>1, <1>3, <1>4

LEMMA FateBecomes ==
  ASSUME TcTypeOK, NEW id \in DOMAIN fate, NEW v \in Fates,
         fate' = [fate EXCEPT ![id] = v]
  PROVE  /\ fate' \in Seq(Fates) /\ Len(fate') = Len(fate)
         /\ DOMAIN fate' = DOMAIN fate
         /\ fate'[id] = v
         /\ \A k \in DOMAIN fate : k # id => fate'[k] = fate[k]
BY DEF TcTypeOK

(* What is claimed of a telecommand stays true.                            *)
Forward ==
  \A id \in DOMAIN fate :
    /\ id \in DOMAIN fate'
    /\ \A st \in RowStates : fate[id] \in Claims(st) => fate'[id] \in Claims(st)

MayBecome(old, new) ==
  \/ old \in {"lost", "queued", "held"}
  \/ old = "running" /\ new \in {"completed", "failed"}

LEMMA ClaimsKept ==
  ASSUME NEW old \in Fates, NEW new \in Fates, MayBecome(old, new),
         NEW st \in RowStates, old \in Claims(st)
  PROVE  new \in Claims(st)
BY DEF MayBecome, Claims, RowStates, Fates, Final

LEMMA FateForward ==
  ASSUME TcTypeOK, NEW id \in DOMAIN fate, NEW v \in Fates, MayBecome(fate[id], v),
         fate' = [fate EXCEPT ![id] = v]
  PROVE  Forward
<1>1. fate[id] \in Fates
  BY BuiltAre
<1>2. \A st \in RowStates : fate[id] \in Claims(st) => v \in Claims(st)
  BY <1>1, ClaimsKept
<1> QED BY <1>2, FateBecomes DEF Forward

LEMMA SameForward ==
  ASSUME UNCHANGED fate PROVE Forward
BY DEF Forward

(* An old element or the new one.                                          *)
From(q, p, x) == \A n \in DOMAIN q : q[n] = x \/ \E m \in DOMAIN p : q[n] = p[m]

LEMMA OneMoreFrom ==
  ASSUME NEW S, NEW p \in Seq(S), NEW x \in S
  PROVE  /\ p \o <<x>> \in Seq(S) /\ Len(p \o <<x>>) = Len(p) + 1 /\ Len(<<x>>) = 1
         /\ From(p \o <<x>>, p, x) /\ From(p, p, x)
BY DEF From

LEMMA ReportGoes ==
  ASSUME TcTypeOK, NEW rep \in {1, 2, 4, 7, 8}, NEW id \in Ids, Report(rep, id)
  PROVE  /\ tm' \in Seq(Reports) /\ Len(tm') <= TmCap
         /\ store' \in Seq(Reports) /\ Len(store') <= StoreCap
         /\ From(tm', tm, [rep |-> rep, id |-> id])
         /\ From(store', store, [rep |-> rep, id |-> id])
<1> DEFINE r == [rep |-> rep, id |-> id]
<1>1. r \in Reports
  BY DEF Reports
<1>2. /\ tm \in Seq(Reports) /\ Len(tm) <= TmCap /\ Len(tm) \in Nat
      /\ store \in Seq(Reports) /\ Len(store) <= StoreCap /\ Len(store) \in Nat
  BY DEF TcTypeOK
<1>3. tm' = Sent(<<r>>) /\ store' = Stored(<<r>>)
  BY DEF Report
<1> HIDE DEF r
<1>4. /\ tm \o <<r>> \in Seq(Reports) /\ Len(tm \o <<r>>) = Len(tm) + 1
      /\ Len(<<r>>) = 1 /\ From(tm \o <<r>>, tm, r) /\ From(tm, tm, r)
  BY <1>1, <1>2, OneMoreFrom
<1>5. /\ store \o <<r>> \in Seq(Reports) /\ Len(store \o <<r>>) = Len(store) + 1
      /\ From(store \o <<r>>, store, r) /\ From(store, store, r)
  BY <1>1, <1>2, OneMoreFrom
<1>6. tm' \in Seq(Reports) /\ Len(tm') <= TmCap /\ From(tm', tm, r)
  <2>1. CASE link /\ Len(tm) + Len(<<r>>) <= TmCap
    <3>1. tm' = tm \o <<r>>
      BY <1>3, <2>1 DEF Sent
    <3> QED BY <3>1, <1>4, <2>1
  <2>2. CASE ~(link /\ Len(tm) + Len(<<r>>) <= TmCap)
    <3>1. tm' = tm
      BY <1>3, <2>2 DEF Sent
    <3> QED BY <3>1, <1>2, <1>4
  <2> QED BY <2>1, <2>2
<1>7. store' \in Seq(Reports) /\ Len(store') <= StoreCap /\ From(store', store, r)
  <2>1. CASE app /\ Len(store) + Len(<<r>>) <= StoreCap
    <3>1. store' = store \o <<r>>
      BY <1>3, <2>1 DEF Stored
    <3> QED BY <3>1, <1>4, <1>5, <2>1
  <2>2. CASE ~(app /\ Len(store) + Len(<<r>>) <= StoreCap)
    <3>1. store' = store
      BY <1>3, <2>2 DEF Stored
    <3> QED BY <3>1, <1>2, <1>5
  <2> QED BY <2>1, <2>2
<1> QED BY <1>6, <1>7 DEF r

(* Reports stay true, and the new one is.                                  *)
LEMMA TrueStays ==
  ASSUME Forward, NEW r \in Reports, SaysTrue(r, fate)
  PROVE  SaysTrue(r, fate')
<1>1. NewState[r.rep] \in RowStates
  BY DEF Reports, NewState, RowStates
<1> HIDE DEF NewState
<1> QED BY <1>1, Zenon DEF SaysTrue, Forward

LEMMA ReportsStay ==
  ASSUME TcTypeOK, ReportsOK, Forward, NEW r, SaysTrue(r, fate'),
         From(tm', tm, r), From(store', store, r)
  PROVE  ReportsOK'
<1>1. tm \in Seq(Reports) /\ store \in Seq(Reports)
  BY DEF TcTypeOK
<1>2. \A n \in DOMAIN tm : SaysTrue(tm[n], fate')
  <2>1. \A n \in DOMAIN tm : tm[n] \in Reports
    BY <1>1
  <2> QED BY <2>1, TrueStays, Zenon DEF ReportsOK
<1>3. \A n \in DOMAIN store : SaysTrue(store[n], fate')
  <2>1. \A n \in DOMAIN store : store[n] \in Reports
    BY <1>1
  <2> QED BY <2>1, TrueStays, Zenon DEF ReportsOK
<1>4. \A n \in DOMAIN tm' : SaysTrue(tm'[n], fate')
  BY <1>2, Zenon DEF From
<1>5. \A n \in DOMAIN store' : SaysTrue(store'[n], fate')
  BY <1>3, Zenon DEF From
<1> QED BY <1>4, <1>5, Zenon DEF ReportsOK

LogRows == [id : Ids, state : RowStates]

LEMMA RowsStay ==
  ASSUME TcTypeOK, RowsOK, Forward, UNCHANGED rows
  PROVE  RowsOK'
<1>1. rows \in Seq(LogRows)
  BY Zenon DEF TcTypeOK, LogRows
<1>2. \A n \in DOMAIN rows : rows[n].state \in RowStates
  <2>1. \A n \in DOMAIN rows : rows[n] \in LogRows
    BY <1>1
  <2> QED BY <2>1 DEF LogRows
<1>3. \A n \in DOMAIN rows : rows[n].id \in DOMAIN fate' /\
                             fate'[rows[n].id] \in Claims(rows[n].state)
  BY <1>2, Zenon DEF RowsOK, RowsTruthful, Forward
<1> QED BY <1>3, Zenon DEF RowsOK, RowsTruthful

-----------------------------------------------------------------------------
(* Counting what has become of telecommands.                               *)
Whose(f, s) == {id \in DOMAIN f : f[id] \in s}

LEMMA HavingIs == \A s : Having(s) = Cardinality(Whose(fate, s))
BY DEF Having, Whose

LEMMA Counted ==
  ASSUME NEW f \in Seq(Fates), NEW s
  PROVE  IsFiniteSet(Whose(f, s)) /\ Cardinality(Whose(f, s)) \in Nat
<1>1. DOMAIN f = 1 .. Len(f) /\ Len(f) \in Nat
  OBVIOUS
<1>2. IsFiniteSet(1 .. Len(f))
  BY <1>1, FS_Interval
<1>3. Whose(f, s) \in SUBSET (1 .. Len(f))
  BY <1>1 DEF Whose
<1>4. IsFiniteSet(Whose(f, s))
  BY <1>2, <1>3, FS_Subset
<1> QED BY <1>4, FS_CardinalityType

One(b) == IF b THEN 1 ELSE 0

LEMMA RunningCount ==
  ASSUME RunningOK PROVE Having({"running"}) = Ongoing
<1>1. Whose(fate, {"running"}) = IF pc \in Busy THEN {tc} ELSE {}
  BY DEF RunningOK, Whose
<1> QED BY <1>1, HavingIs, FS_Singleton, FS_EmptySet DEF Ongoing

LEMMA CountsOKAgree ==
  ASSUME RunningOK, CountsOK PROVE CountersAgree
<1>1. Having({"running"}) = Ongoing
  BY RunningCount
<1>2. (Ongoing = 1) = (pc \in {"run", "rules", "verdict"})
  BY DEF Ongoing, Busy
<1> HIDE DEF Ongoing
<1> QED BY <1>1, <1>2 DEF CountsOK, CountersAgree

-----------------------------------------------------------------------------
(* The type invariant in parts, one for each group of variables.           *)
FateTyped == fate \in Seq(Fates) /\ Len(fate) = Len(built)
BuiltTyped == built \in Seq(Commands) /\ Len(built) <= MaxBuilt
LogTyped == rows \in Seq(LogRows) /\ Len(rows) <= LogSize
WaitTyped == tcq \in Seq(Ids) /\ Len(tcq) <= TcCap /\ held \subseteq Ids
DownTyped == /\ tm \in Seq(Reports) /\ Len(tm) <= TmCap
             /\ store \in Seq(Reports) /\ Len(store) <= StoreCap
CraftTyped ==
  /\ link \in BOOLEAN /\ boot \in BOOLEAN /\ app \in BOOLEAN /\ busFailed \in BOOLEAN
  /\ unit \in [Units -> {"dark", "off", "on"}] /\ unit["ttc"] # "off"
EngineTyped ==
  /\ pc \in {"idle", "run", "rules", "verdict", "notify"}
  /\ tc \in Ids \cup {0}
  /\ err \in BOOLEAN /\ startFail \in BOOLEAN
  /\ own \in {"none", "ok", "execution", "exec_start"}
Keys == {"rx", "acc", "rej", "exe"}
TallyTyped == counts \in [Keys -> Nat] /\ changes \in 0 .. MaxChanges

LEMMA TypeParts ==
  TcTypeOK <=> /\ FateTyped /\ BuiltTyped /\ LogTyped /\ WaitTyped /\ DownTyped
               /\ CraftTyped /\ EngineTyped /\ TallyTyped
<1>1. {link, boot, app, busFailed, err, startFail} \subseteq BOOLEAN <=>
        /\ link \in BOOLEAN /\ boot \in BOOLEAN /\ app \in BOOLEAN
        /\ busFailed \in BOOLEAN /\ err \in BOOLEAN /\ startFail \in BOOLEAN
  BY Zenon
<1> QED BY <1>1, Zenon DEF TcTypeOK, FateTyped, BuiltTyped, LogTyped, WaitTyped, DownTyped,
       CraftTyped, EngineTyped, TallyTyped, LogRows, Keys

LEMMA NextTypeParts ==
  TcTypeOK' <=> /\ FateTyped' /\ BuiltTyped' /\ LogTyped' /\ WaitTyped' /\ DownTyped'
                /\ CraftTyped' /\ EngineTyped' /\ TallyTyped'
BY TypeParts, PTL

LEMMA Tallied ==
  ASSUME TallyTyped, NEW ks, Count(ks), UNCHANGED changes
  PROVE  TallyTyped' /\ \A k \in Keys : counts'[k] = counts[k] + One(k \in ks)
<1>1. counts' = [k \in Keys |-> IF k \in ks THEN counts[k] + 1 ELSE counts[k]]
  BY DEF Count, TallyTyped
<1>2. ASSUME NEW k \in Keys
      PROVE  counts[k] \in Nat /\ counts'[k] = counts[k] + One(k \in ks)
             /\ counts'[k] \in Nat
  <2>1. counts[k] \in Nat
    BY DEF TallyTyped
  <2>2. counts'[k] = IF k \in ks THEN counts[k] + 1 ELSE counts[k]
    BY <1>1
  <2> QED BY <2>1, <2>2 DEF One
<1>3. counts' \in [Keys -> Nat]
  BY <1>1, <1>2
<1> QED BY <1>2, <1>3 DEF TallyTyped

LEMMA HavingMoves ==
  ASSUME FateTyped, NEW id \in DOMAIN fate, NEW v, NEW s,
         fate' = [fate EXCEPT ![id] = v]
  PROVE  /\ Having(s) \in Nat
         /\ fate[id] \notin s /\ v \in s => Having(s)' = Having(s) + 1
         /\ (fate[id] \in s <=> v \in s) => Having(s)' = Having(s)
<1>1. fate \in Seq(Fates)
  BY DEF FateTyped
<1>2. Having(s) = Cardinality(Whose(fate, s)) /\ Having(s)' = Cardinality(Whose(fate', s))
  BY DEF Having, Whose
<1>3. IsFiniteSet(Whose(fate, s)) /\ Cardinality(Whose(fate, s)) \in Nat
  BY <1>1, Counted
<1>4. /\ DOMAIN fate' = DOMAIN fate /\ fate'[id] = v
      /\ \A k \in DOMAIN fate : k # id => fate'[k] = fate[k]
  BY <1>1
<1>5. ASSUME fate[id] \notin s, v \in s PROVE Having(s)' = Having(s) + 1
  <2>1. id \notin Whose(fate, s)
    BY <1>5 DEF Whose
  <2>2. Whose(fate', s) = Whose(fate, s) \cup {id}
    <3>1. ASSUME NEW k PROVE k \in Whose(fate', s) <=> k \in Whose(fate, s) \cup {id}
      BY <1>4, <1>5 DEF Whose
    <3> QED BY <3>1
  <2>3. Cardinality(Whose(fate, s) \cup {id}) =
          IF id \in Whose(fate, s) THEN Cardinality(Whose(fate, s))
                                   ELSE Cardinality(Whose(fate, s)) + 1
    BY <1>3, FS_AddElement, Zenon
  <2> QED BY <1>2, <2>1, <2>2, <2>3, Zenon
<1>6. ASSUME fate[id] \in s <=> v \in s PROVE Having(s)' = Having(s)
  <2>1. ASSUME NEW k PROVE k \in Whose(fate', s) <=> k \in Whose(fate, s)
    BY <1>4, <1>6 DEF Whose
  <2>2. Whose(fate', s) = Whose(fate, s)
    BY <2>1
  <2> QED BY <1>2, <2>2, Zenon
<1> QED BY <1>2, <1>3, <1>5, <1>6, Zenon

LEMMA ScheduledStays ==
  ASSUME TcTypeOK, ScheduledOK, UNCHANGED built,
         NEW id \in DOMAIN fate, NEW v \in Fates \ {"held", "lost", "queued"},
         fate[id] # "lost", fate' = [fate EXCEPT ![id] = v],
         pc' = "run" => tc' = id /\ fate[id] \in {"queued", "held"}
  PROVE  ScheduledOK'
<1>1. /\ DOMAIN fate' = DOMAIN fate /\ fate'[id] = v
      /\ \A k \in DOMAIN fate : k # id => fate'[k] = fate[k]
  BY FateBecomes
<1>2. DOMAIN fate = DOMAIN built /\ DOMAIN fate = 1 .. Len(fate) /\ Len(fate) \in Nat
  BY BuiltAre
<1>3. ASSUME NEW k \in DOMAIN built, Insert(built[k])
      PROVE  /\ k > 1 /\ ~Insert(built[k - 1])
             /\ fate'[k] # "held"
             /\ fate'[k] \in {"lost", "queued"} \/ (pc' = "run" /\ tc' = k)
                  => fate'[k - 1] = "lost"
  <2>1. /\ k > 1 /\ ~Insert(built[k - 1]) /\ fate[k] # "held"
        /\ fate[k] \in {"lost", "queued"} => fate[k - 1] = "lost"
    BY <1>3 DEF ScheduledOK
  <2>2. k - 1 \in DOMAIN fate /\ k \in DOMAIN fate /\ k - 1 # k
    BY <1>2, <2>1
  <2>3. fate'[k] # "held"
    BY <1>1, <2>1, <2>2
  <2>4. ASSUME fate'[k] \in {"lost", "queued"} \/ (pc' = "run" /\ tc' = k)
        PROVE  fate'[k - 1] = "lost"
    <3>1. fate[k] \in {"lost", "queued"}
      BY <1>1, <2>1, <2>2, <2>4
    <3> QED BY <1>1, <2>1, <2>2, <3>1
  <2> QED BY <2>1, <2>3, <2>4
<1> QED BY <1>3 DEF ScheduledOK

-----------------------------------------------------------------------------
(* The gates.                                                              *)
Judged(id) ==
  /\ FateTyped' /\ DownTyped' /\ CraftTyped' /\ EngineTyped' /\ TallyTyped'
  /\ ScheduledOK' /\ RunningOK' /\ FrameOK' /\ ReportsOK' /\ RowsOK' /\ CountsOK'
  /\ DOMAIN fate' = DOMAIN fate
  /\ \A k \in DOMAIN fate : k # id => fate'[k] = fate[k]

LEMMA RejectKeeps ==
  ASSUME TcInv, pc = "idle", NEW id \in DOMAIN fate, fate[id] \in {"queued", "held"},
         Reject(id), UNCHANGED <<built, rows, changes, link, boot, app, busFailed>>
  PROVE  Judged(id)
<1>0. TcTypeOK
  BY DEF TcInv
<1>1. /\ FateTyped /\ BuiltTyped /\ DownTyped /\ CraftTyped /\ EngineTyped /\ TallyTyped
      /\ ScheduledOK /\ RunningOK /\ ReportsOK /\ RowsOK /\ CountsOK
  BY <1>0, TypeParts DEF TcInv
<1>2. /\ fate' = [fate EXCEPT ![id] = "rejected"] /\ "rejected" \in Fates
      /\ pc' = "notify" /\ tc' = 0 /\ UNCHANGED <<err, startFail, own, unit>>
      /\ Report(2, id) /\ Count({"rx", "rej"})
  BY DEF Reject, frame, CountGate, Fates, Final
<1>3. id \in Ids
  BY <1>0, BuiltAre
<1>4. /\ fate' \in Seq(Fates) /\ Len(fate') = Len(fate) /\ DOMAIN fate' = DOMAIN fate
      /\ fate'[id] = "rejected" /\ \A k \in DOMAIN fate : k # id => fate'[k] = fate[k]
  BY <1>0, <1>2, FateBecomes
<1>5. Forward
  BY <1>0, <1>2, FateForward DEF MayBecome
<1>6. FateTyped'
  BY <1>1, <1>4 DEF FateTyped
<1>7. /\ DownTyped' /\ From(tm', tm, [rep |-> 2, id |-> id])
      /\ From(store', store, [rep |-> 2, id |-> id])
  BY <1>0, <1>2, <1>3, ReportGoes DEF DownTyped
<1>8. CraftTyped'
  BY <1>1, <1>2 DEF CraftTyped
<1>9. EngineTyped'
  BY <1>1, <1>2 DEF EngineTyped
<1>10. TallyTyped' /\ \A k \in Keys : counts'[k] = counts[k] + One(k \in {"rx", "rej"})
  BY <1>1, <1>2, Tallied
<1>11. ScheduledOK'
  BY <1>0, <1>1, <1>2, ScheduledStays DEF Fates, Final
<1>12. RunningOK'
  BY <1>1, <1>2, <1>4 DEF RunningOK, Busy
<1>13. FrameOK'
  BY <1>2 DEF FrameOK
<1>14. ReportsOK'
  <2>1. SaysTrue([rep |-> 2, id |-> id], fate')
    BY <1>4 DEF SaysTrue, NewState, Claims
  <2> QED BY <1>0, <1>1, <1>5, <1>7, <2>1, ReportsStay
<1>15. RowsOK'
  BY <1>0, <1>1, <1>5, RowsStay
<1>16. CountsOK'
  <2>1. /\ Having({"rejected"})' = Having({"rejected"}) + 1
        /\ Having({"rejected"}) \in Nat
    <3>1. fate[id] \notin {"rejected"} /\ "rejected" \in {"rejected"}
      OBVIOUS
    <3> QED BY <1>1, <1>2, <3>1, HavingMoves
  <2>2. /\ Having({"completed", "failed"})' = Having({"completed", "failed"})
        /\ Having({"completed", "failed"}) \in Nat
    <3>1. fate[id] \notin {"completed", "failed"} /\ "rejected" \notin {"completed", "failed"}
      OBVIOUS
    <3> QED BY <1>1, <1>2, <3>1, HavingMoves
  <2>3. Ongoing = 0 /\ Ongoing' = 0
    BY <1>2 DEF Ongoing, Busy
  <2>4. /\ counts'["rx"] = counts["rx"] + 1 /\ counts'["acc"] = counts["acc"]
        /\ counts'["rej"] = counts["rej"] + 1 /\ counts'["exe"] = counts["exe"]
        /\ counts["rx"] \in Nat /\ counts["acc"] \in Nat /\ counts["rej"] \in Nat
        /\ counts["exe"] \in Nat
    BY <1>1, <1>10 DEF TallyTyped, Keys, One
  <2> QED BY <1>1, <2>1, <2>2, <2>3, <2>4 DEF CountsOK
<1> QED BY <1>4, <1>6, <1>7, <1>8, <1>9, <1>10, <1>11, <1>12, <1>13, <1>14, <1>15, <1>16
        DEF Judged

LEMMA AcceptKeeps ==
  ASSUME TcInv, pc = "idle", NEW id \in DOMAIN fate, fate[id] \in {"queued", "held"},
         Accept(id), UNCHANGED <<built, rows, changes, link, boot, app, busFailed>>
  PROVE  Judged(id)
<1>0. TcTypeOK
  BY DEF TcInv
<1>1. /\ FateTyped /\ BuiltTyped /\ DownTyped /\ CraftTyped /\ EngineTyped /\ TallyTyped
      /\ ScheduledOK /\ RunningOK /\ ReportsOK /\ RowsOK /\ CountsOK
  BY <1>0, TypeParts DEF TcInv
<1>2. /\ fate' = [fate EXCEPT ![id] = "running"] /\ "running" \in Fates
      /\ pc' = "run" /\ tc' = id /\ err' = FALSE /\ startFail' = FALSE /\ own' = "none"
      /\ unit' = [unit EXCEPT !["ttc"] = "on"]
      /\ Report(1, id) /\ Count({"rx", "acc"})
  BY DEF Accept, CountGate, Fates, Final
<1>3. id \in Ids
  BY <1>0, BuiltAre
<1>4. /\ fate' \in Seq(Fates) /\ Len(fate') = Len(fate) /\ DOMAIN fate' = DOMAIN fate
      /\ fate'[id] = "running" /\ \A k \in DOMAIN fate : k # id => fate'[k] = fate[k]
  BY <1>0, <1>2, FateBecomes
<1>5. Forward
  BY <1>0, <1>2, FateForward DEF MayBecome
<1>6. FateTyped'
  BY <1>1, <1>4 DEF FateTyped
<1>7. /\ DownTyped' /\ From(tm', tm, [rep |-> 1, id |-> id])
      /\ From(store', store, [rep |-> 1, id |-> id])
  BY <1>0, <1>2, <1>3, ReportGoes DEF DownTyped
<1>8. CraftTyped'
  BY <1>1, <1>2 DEF CraftTyped, Units
<1>9. EngineTyped'
  BY <1>1, <1>2, <1>3 DEF EngineTyped
<1>10. TallyTyped' /\ \A k \in Keys : counts'[k] = counts[k] + One(k \in {"rx", "acc"})
  BY <1>1, <1>2, Tallied
<1>11. ScheduledOK'
  BY <1>0, <1>1, <1>2, ScheduledStays DEF Fates, Final
<1>12. RunningOK'
  BY <1>1, <1>2, <1>4 DEF RunningOK, Busy
<1>13. FrameOK'
  BY <1>2 DEF FrameOK
<1>14. ReportsOK'
  <2>1. SaysTrue([rep |-> 1, id |-> id], fate')
    BY <1>4 DEF SaysTrue, NewState, Claims
  <2> QED BY <1>0, <1>1, <1>5, <1>7, <2>1, ReportsStay
<1>15. RowsOK'
  BY <1>0, <1>1, <1>5, RowsStay
<1>16. CountsOK'
  <2>1. /\ Having({"rejected"})' = Having({"rejected"})
        /\ Having({"rejected"}) \in Nat
    <3>1. fate[id] \notin {"rejected"} /\ "running" \notin {"rejected"}
      OBVIOUS
    <3> QED BY <1>1, <1>2, <3>1, HavingMoves
  <2>2. /\ Having({"completed", "failed"})' = Having({"completed", "failed"})
        /\ Having({"completed", "failed"}) \in Nat
    <3>1. fate[id] \notin {"completed", "failed"} /\ "running" \notin {"completed", "failed"}
      OBVIOUS
    <3> QED BY <1>1, <1>2, <3>1, HavingMoves
  <2>3. Ongoing = 0 /\ Ongoing' = 1
    BY <1>2 DEF Ongoing, Busy
  <2>4. /\ counts'["rx"] = counts["rx"] + 1 /\ counts'["acc"] = counts["acc"] + 1
        /\ counts'["rej"] = counts["rej"] /\ counts'["exe"] = counts["exe"]
        /\ counts["rx"] \in Nat /\ counts["acc"] \in Nat /\ counts["rej"] \in Nat
        /\ counts["exe"] \in Nat
    BY <1>1, <1>10 DEF TallyTyped, Keys, One
  <2> QED BY <1>1, <2>1, <2>2, <2>3, <2>4 DEF CountsOK
<1> QED BY <1>4, <1>6, <1>7, <1>8, <1>9, <1>10, <1>11, <1>12, <1>13, <1>14, <1>15, <1>16
        DEF Judged

LEMMA GateKeeps ==
  ASSUME TcInv, pc = "idle", NEW id \in DOMAIN fate, fate[id] \in {"queued", "held"},
         Gate(id), UNCHANGED <<built, rows, changes>>
  PROVE  Judged(id)
<1>1. UNCHANGED <<built, rows, changes, link, boot, app, busFailed>>
  BY DEF Gate
<1>2. Accept(id) \/ Reject(id)
  BY Zenon DEF Gate
<1> QED BY <1>1, <1>2, AcceptKeeps, RejectKeeps

-----------------------------------------------------------------------------
(* The actions of the engine.                                              *)
LEMMA HeadLeaves ==
  ASSUME TcInv, tcq # << >>
  PROVE  /\ Head(tcq) \in DOMAIN fate /\ fate[Head(tcq)] = "queued"
         /\ Tail(tcq) \in Seq(Ids) /\ Len(Tail(tcq)) <= TcCap
         /\ \A n \in DOMAIN Tail(tcq) :
              /\ n + 1 \in DOMAIN tcq /\ Tail(tcq)[n] = tcq[n + 1]
              /\ Tail(tcq)[n] # Head(tcq)
              /\ \A m \in DOMAIN Tail(tcq) : m # n => Tail(tcq)[m] # Tail(tcq)[n]
<1>1. tcq \in Seq(Ids) /\ Len(tcq) <= TcCap /\ QueueOK /\ TcCap \in Nat
  BY TcVerificationAssumption DEF TcInv, TcTypeOK
<1>2. DOMAIN tcq = 1 .. Len(tcq) /\ Len(tcq) \in Nat /\ Len(tcq) >= 1
      /\ Head(tcq) = tcq[1]
  BY <1>1
<1>3. /\ Tail(tcq) \in Seq(Ids) /\ Len(Tail(tcq)) = Len(tcq) - 1
      /\ DOMAIN Tail(tcq) = 1 .. Len(tcq) - 1
      /\ \A n \in 1 .. Len(tcq) - 1 : Tail(tcq)[n] = tcq[n + 1]
  BY <1>1
<1>4. ASSUME NEW n \in DOMAIN Tail(tcq)
      PROVE  n + 1 \in DOMAIN tcq /\ n + 1 # 1 /\ Tail(tcq)[n] = tcq[n + 1]
             /\ \A m \in DOMAIN Tail(tcq) : m # n => m + 1 # n + 1
  BY <1>2, <1>3
<1>5. 1 \in DOMAIN tcq
  BY <1>2
<1> QED BY <1>1, <1>2, <1>3, <1>4, <1>5 DEF QueueOK

(* Another telecommand's fate leaves queue and schedule alone.             *)
LEMMA QueueStays ==
  ASSUME QueueOK, NEW id, DOMAIN fate' = DOMAIN fate,
         \A k \in DOMAIN fate : k # id => fate'[k] = fate[k],
         tcq' = tcq, \A n \in DOMAIN tcq : tcq[n] # id
  PROVE  QueueOK'
BY DEF QueueOK

LEMMA HeldStays ==
  ASSUME HeldOK, NEW id, DOMAIN fate' = DOMAIN fate,
         \A k \in DOMAIN fate : k # id => fate'[k] = fate[k],
         held' \subseteq held, id \notin held'
  PROVE  HeldOK'
BY DEF HeldOK

LEMMA GatheredInv ==
  ASSUME TcInv, NEW id, Judged(id), UNCHANGED <<built, rows>>, WaitTyped', QueueOK', HeldOK'
  PROVE  TcInv'
<1>1. BuiltTyped' /\ LogTyped'
  BY TypeParts DEF TcInv, BuiltTyped, LogTyped
<1>2. TcTypeOK'
  BY <1>1, NextTypeParts, Zenon DEF Judged
<1> QED BY <1>2, Zenon DEF TcInv, Judged

LEMMA DrainKeeps == ASSUME TcInv, Drain PROVE TcInv'
<1>0. TcTypeOK
  BY DEF TcInv
<1> DEFINE id == Head(tcq)
<1>1. /\ pc = "idle" /\ tcq # << >> /\ tcq' = Tail(tcq)
      /\ UNCHANGED <<built, rows, held, changes>>
  BY DEF Drain
<1>2. /\ id \in DOMAIN fate /\ fate[id] = "queued"
      /\ tcq' \in Seq(Ids) /\ Len(tcq') <= TcCap
      /\ \A n \in DOMAIN tcq' :
           /\ n + 1 \in DOMAIN tcq /\ tcq'[n] = tcq[n + 1] /\ tcq'[n] # id
           /\ \A m \in DOMAIN tcq' : m # n => tcq'[m] # tcq'[n]
  BY <1>1, HeadLeaves
<1>3. /\ FateTyped /\ BuiltTyped /\ LogTyped /\ WaitTyped /\ DownTyped /\ CraftTyped
      /\ EngineTyped /\ TallyTyped /\ ScheduledOK /\ QueueOK /\ HeldOK
      /\ RunningOK /\ FrameOK /\ ReportsOK /\ RowsOK /\ CountsOK
  BY <1>0, TypeParts DEF TcInv
<1>4. WaitTyped'
  BY <1>1, <1>2, <1>3 DEF WaitTyped
<1>5. (link /\ Gate(id)) \/
      /\ Report(2, id)
      /\ fate' = [fate EXCEPT ![id] = "linkRefused"]
      /\ UNCHANGED <<craft, pc, tc, frame, counts>>
  BY Zenon DEF Drain
<1> HIDE DEF id
<1>6. Judged(id)
  <2>1. CASE Gate(id)
    BY <1>1, <1>2, <2>1, GateKeeps
  <2>2. CASE /\ Report(2, id)
             /\ fate' = [fate EXCEPT ![id] = "linkRefused"]
             /\ UNCHANGED <<craft, pc, tc, frame, counts>>
    <3>1. /\ "linkRefused" \in Fates /\ Report(2, id)
          /\ fate' = [fate EXCEPT ![id] = "linkRefused"]
          /\ UNCHANGED <<link, boot, app, busFailed, unit, pc, tc, err, startFail, own, counts>>
      BY <2>2 DEF Fates, Final, craft, frame
    <3>2. id \in Ids
      BY <1>0, <1>2, BuiltAre
    <3>3. /\ fate' \in Seq(Fates) /\ Len(fate') = Len(fate) /\ DOMAIN fate' = DOMAIN fate
          /\ fate'[id] = "linkRefused"
          /\ \A k \in DOMAIN fate : k # id => fate'[k] = fate[k]
      BY <1>0, <1>2, <3>1, FateBecomes
    <3>4. Forward
      BY <1>0, <1>2, <3>1, FateForward DEF MayBecome
    <3>5. FateTyped' /\ CraftTyped' /\ EngineTyped' /\ TallyTyped'
      BY <1>1, <1>3, <3>1, <3>3 DEF FateTyped, CraftTyped, EngineTyped, TallyTyped
    <3>6. /\ DownTyped' /\ From(tm', tm, [rep |-> 2, id |-> id])
          /\ From(store', store, [rep |-> 2, id |-> id])
      BY <1>0, <3>1, <3>2, ReportGoes DEF DownTyped
    <3>7. ScheduledOK'
      BY <1>0, <1>1, <1>2, <1>3, <3>1, ScheduledStays DEF Fates, Final
    <3>8. RunningOK' /\ FrameOK'
      BY <1>1, <1>2, <1>3, <3>1, <3>3 DEF RunningOK, FrameOK, Busy
    <3>9. ReportsOK'
      <4>1. SaysTrue([rep |-> 2, id |-> id], fate')
        BY <1>2, <3>3 DEF SaysTrue, NewState, Claims
      <4> QED BY <1>0, <1>3, <3>4, <3>6, <4>1, ReportsStay
    <3>10. RowsOK'
      BY <1>0, <1>1, <1>3, <3>4, RowsStay
    <3>11. CountsOK'
      <4>1. Having({"rejected"})' = Having({"rejected"})
        <5>1. fate[id] \notin {"rejected"} /\ "linkRefused" \notin {"rejected"}
          BY <1>2
        <5> QED BY <1>2, <1>3, <3>1, <5>1, HavingMoves
      <4>2. Having({"completed", "failed"})' = Having({"completed", "failed"})
        <5>1. /\ fate[id] \notin {"completed", "failed"}
              /\ "linkRefused" \notin {"completed", "failed"}
          BY <1>2
        <5> QED BY <1>2, <1>3, <3>1, <5>1, HavingMoves
      <4>3. Ongoing' = Ongoing
        BY <3>1 DEF Ongoing
      <4> QED BY <1>3, <3>1, <4>1, <4>2, <4>3 DEF CountsOK
    <3> QED BY <3>3, <3>5, <3>6, <3>7, <3>8, <3>9, <3>10, <3>11, Zenon DEF Judged
  <2> QED BY <1>5, <2>1, <2>2
<1>7. DOMAIN fate' = DOMAIN fate /\ \A k \in DOMAIN fate : k # id => fate'[k] = fate[k]
  BY <1>6 DEF Judged
<1>8. QueueOK'
  BY <1>2, <1>3, <1>7 DEF QueueOK
<1>9. HeldOK'
  <2>1. id \notin held'
    BY <1>1, <1>2, <1>3 DEF HeldOK
  <2> QED BY <1>1, <1>3, <1>7, <2>1, HeldStays
<1> QED BY <1>1, <1>4, <1>6, <1>8, <1>9, GatheredInv

LEMMA ReleaseKeeps == ASSUME TcInv, NEW id \in Ids, Release(id) PROVE TcInv'
<1>1. /\ pc = "idle" /\ id \in held /\ held' = held \ {id} /\ Gate(id)
      /\ UNCHANGED <<built, rows, tcq, changes>>
  BY DEF Release, ground
<1>2. WaitTyped /\ QueueOK /\ HeldOK
  BY TypeParts DEF TcInv
<1>3. id \in DOMAIN fate /\ fate[id] = "held"
  BY <1>1, <1>2 DEF HeldOK
<1>4. Judged(id)
  BY <1>1, <1>3, GateKeeps
<1>5. DOMAIN fate' = DOMAIN fate /\ \A k \in DOMAIN fate : k # id => fate'[k] = fate[k]
  BY <1>4 DEF Judged
<1>6. QueueOK'
  <2>1. \A n \in DOMAIN tcq : tcq[n] # id
    BY <1>2, <1>3 DEF QueueOK
  <2> QED BY <1>1, <1>2, <1>5, <2>1, QueueStays
<1>7. HeldOK'
  <2>1. held' \subseteq held /\ id \notin held'
    BY <1>1
  <2> QED BY <1>2, <1>5, <2>1, HeldStays
<1>8. WaitTyped'
  BY <1>1, <1>2 DEF WaitTyped
<1> QED BY <1>1, <1>4, <1>6, <1>7, <1>8, GatheredInv

LEMMA OutcomesAre ==
  ASSUME NEW c PROVE Outcomes(c) \subseteq {"ok", "execution", "exec_start"}
BY DEF Outcomes, HousekeepingOutcomes, MemoryOutcomes, FunctionOutcomes

(* The S11.4 that is executed puts the telecommand before it on hold.      *)
LEMMA InsertHolds ==
  ASSUME TcInv, pc = "run", Insert(built[tc]), UNCHANGED <<built, tcq, tc, rows, tm, store, counts>>,
         held' = held \cup {tc - 1}, fate' = [fate EXCEPT ![tc - 1] = "held"],
         pc' = "verdict"
  PROVE  /\ FateTyped' /\ WaitTyped' /\ ScheduledOK' /\ QueueOK' /\ HeldOK' /\ RunningOK'
         /\ ReportsOK' /\ RowsOK' /\ CountsOK'
<1> DEFINE id == tc - 1
<1>1. /\ FateTyped /\ BuiltTyped /\ WaitTyped /\ EngineTyped /\ DownTyped
      /\ ScheduledOK /\ QueueOK /\ HeldOK /\ RunningOK /\ ReportsOK /\ RowsOK /\ CountsOK
      /\ TcTypeOK
  BY TypeParts DEF TcInv
<1>2. tc \in DOMAIN fate /\ fate[tc] = "running"
  BY <1>1 DEF RunningOK, Busy
<1>3. /\ DOMAIN fate = DOMAIN built /\ DOMAIN fate = 1 .. Len(fate) /\ Len(fate) \in Nat
      /\ DOMAIN fate \subseteq Ids
  BY <1>1, BuiltAre
<1>4. tc > 1 /\ ~Insert(built[id]) /\ fate[id] = "lost"
  BY <1>1, <1>2, <1>3 DEF ScheduledOK
<1>5. id \in DOMAIN fate /\ id # tc /\ id \in Ids
  BY <1>2, <1>3, <1>4
<1>6. fate' = [fate EXCEPT ![id] = "held"] /\ held' = held \cup {id} /\ "held" \in Fates
  BY DEF Fates
<1>7. \A k \in DOMAIN fate : k - 1 = id => k = tc
  BY <1>2, <1>3
<1> HIDE DEF id
<1>8. /\ fate' \in Seq(Fates) /\ Len(fate') = Len(fate) /\ DOMAIN fate' = DOMAIN fate
      /\ fate'[id] = "held" /\ \A k \in DOMAIN fate : k # id => fate'[k] = fate[k]
  BY <1>1, <1>5, <1>6, FateBecomes
<1>9. Forward
  BY <1>1, <1>4, <1>5, <1>6, FateForward DEF MayBecome
<1>10. FateTyped' /\ WaitTyped'
  BY <1>1, <1>5, <1>6, <1>8 DEF FateTyped, WaitTyped
<1>11. ScheduledOK'
  <2>1. ASSUME NEW k \in DOMAIN built, Insert(built[k])
        PROVE  /\ k > 1 /\ ~Insert(built[k - 1]) /\ fate'[k] # "held"
               /\ fate'[k] \in {"lost", "queued"} => fate'[k - 1] = "lost"
    <3>1. /\ k > 1 /\ ~Insert(built[k - 1]) /\ fate[k] # "held"
          /\ fate[k] \in {"lost", "queued"} => fate[k - 1] = "lost"
      BY <1>1, <2>1 DEF ScheduledOK
    <3>2. k # id /\ k \in DOMAIN fate /\ fate'[k] = fate[k]
      BY <1>3, <1>4, <1>8, <2>1
    <3>3. ASSUME fate[k] \in {"lost", "queued"} PROVE fate'[k - 1] = "lost"
      <4>1. k - 1 # id
        BY <1>2, <1>7, <3>2, <3>3
      <4>2. k - 1 \in DOMAIN fate
        BY <1>3, <3>1, <3>2
      <4> QED BY <1>8, <3>1, <3>3, <4>1, <4>2
    <3> QED BY <3>1, <3>2, <3>3
  <2> QED BY <2>1 DEF ScheduledOK
<1>12. QueueOK'
  <2>1. \A n \in DOMAIN tcq : tcq[n] # id
    BY <1>1, <1>4 DEF QueueOK
  <2> QED BY <1>1, <1>8, <2>1, QueueStays
<1>13. HeldOK'
  BY <1>1, <1>5, <1>6, <1>8 DEF HeldOK
<1>14. RunningOK'
  BY <1>1, <1>2, <1>4, <1>5, <1>8 DEF RunningOK, Busy
<1>15. ReportsOK'
  <2>1. \A n \in DOMAIN tm : SaysTrue(tm[n], fate')
    <3>1. \A n \in DOMAIN tm : tm[n] \in Reports
      BY <1>1 DEF DownTyped
    <3> QED BY <1>1, <1>9, <3>1, TrueStays, Zenon DEF ReportsOK
  <2>2. \A n \in DOMAIN store : SaysTrue(store[n], fate')
    <3>1. \A n \in DOMAIN store : store[n] \in Reports
      BY <1>1 DEF DownTyped
    <3> QED BY <1>1, <1>9, <3>1, TrueStays, Zenon DEF ReportsOK
  <2> QED BY <2>1, <2>2 DEF ReportsOK
<1>16. RowsOK'
  BY <1>1, <1>9, RowsStay
<1>17. CountsOK'
  <2>1. Having({"rejected"})' = Having({"rejected"})
    <3>1. fate[id] \notin {"rejected"} /\ "held" \notin {"rejected"}
      BY <1>4
    <3> QED BY <1>1, <1>5, <1>6, <3>1, HavingMoves
  <2>2. Having({"completed", "failed"})' = Having({"completed", "failed"})
    <3>1. /\ fate[id] \notin {"completed", "failed"}
          /\ "held" \notin {"completed", "failed"}
      BY <1>4
    <3> QED BY <1>1, <1>5, <1>6, <3>1, HavingMoves
  <2>3. Ongoing' = Ongoing
    BY DEF Ongoing, Busy
  <2> QED BY <1>1, <2>1, <2>2, <2>3 DEF CountsOK
<1> QED BY <1>10, <1>11, <1>12, <1>13, <1>14, <1>15, <1>16, <1>17, Zenon

(* A step of the dispatcher that decides no fate.                          *)
LEMMA FatesStay ==
  ASSUME TcInv, UNCHANGED <<built, fate, rows, tcq, held, tm, store, counts, changes>>,
         tc' = tc, (pc \in Busy) = (pc' \in Busy), pc' = "run" => pc = "run"
  PROVE  /\ FateTyped' /\ BuiltTyped' /\ LogTyped' /\ WaitTyped' /\ DownTyped' /\ TallyTyped'
         /\ ScheduledOK' /\ QueueOK' /\ HeldOK' /\ RunningOK' /\ ReportsOK' /\ RowsOK'
         /\ CountsOK'
<1>1. /\ FateTyped /\ BuiltTyped /\ LogTyped /\ WaitTyped /\ DownTyped /\ TallyTyped
      /\ ScheduledOK /\ QueueOK /\ HeldOK /\ RunningOK /\ ReportsOK /\ RowsOK /\ CountsOK
  BY TypeParts DEF TcInv
<1>2. FateTyped' /\ BuiltTyped' /\ LogTyped' /\ WaitTyped' /\ DownTyped' /\ TallyTyped'
  BY <1>1 DEF FateTyped, BuiltTyped, LogTyped, WaitTyped, DownTyped, TallyTyped
<1>3. ScheduledOK'
  BY <1>1 DEF ScheduledOK
<1>4. QueueOK' /\ HeldOK' /\ ReportsOK'
  BY <1>1 DEF QueueOK, HeldOK, ReportsOK
<1>5. RunningOK'
  BY <1>1 DEF RunningOK
<1>6. RowsOK'
  BY <1>1 DEF RowsOK, RowsTruthful
<1>7. CountsOK'
  <2>1. Ongoing' = Ongoing
    BY DEF Ongoing
  <2>2. /\ Having({"rejected"})' = Having({"rejected"})
        /\ Having({"completed", "failed"})' = Having({"completed", "failed"})
    BY DEF Having
  <2> QED BY <1>1, <2>1, <2>2 DEF CountsOK
<1> QED BY <1>2, <1>3, <1>4, <1>5, <1>6, <1>7

LEMMA RunKeeps == ASSUME TcInv, Run PROVE TcInv'
<1> DEFINE c == built[tc]
<1>1. PICK o \in Outcomes(c) :
        /\ own' = o /\ err' = (o = "execution") /\ startFail' = (o = "exec_start")
        /\ busFailed' = BusAfter(c, o)
        /\ \/ pc' = "verdict"
           \/ Function(c, {GpsTimeSync}) /\ o = "ok" /\ pc' = "rules"
        /\ IF Insert(c) /\ o = "ok" THEN /\ held' = held \cup {tc - 1}
                                         /\ fate' = [fate EXCEPT ![tc - 1] = "held"]
                                    ELSE UNCHANGED <<held, fate>>
  BY DEF Run
<1>2. /\ pc = "run"
      /\ UNCHANGED <<built, rows, tcq, tm, store, link, boot, app, unit, tc, counts, changes>>
  BY DEF Run, ground, down
<1>3. /\ BuiltTyped /\ LogTyped /\ DownTyped /\ TallyTyped /\ CraftTyped /\ EngineTyped
  BY TypeParts DEF TcInv
<1>4. o \in {"ok", "execution", "exec_start"}
  BY <1>1, OutcomesAre
<1>5. EngineTyped' /\ FrameOK'
  BY <1>1, <1>2, <1>3, <1>4 DEF EngineTyped, FrameOK
<1>6. CraftTyped'
  BY <1>1, <1>2, <1>3, <1>4 DEF CraftTyped, BusAfter
<1>7. BuiltTyped' /\ LogTyped' /\ DownTyped' /\ TallyTyped'
  BY <1>2, <1>3 DEF BuiltTyped, LogTyped, DownTyped, TallyTyped
<1>8. CASE Insert(c) /\ o = "ok"
  <2>1. pc' = "verdict"
    BY <1>1, <1>8 DEF Insert, Function, IsFunction
  <2>2. /\ FateTyped' /\ WaitTyped' /\ ScheduledOK' /\ QueueOK' /\ HeldOK' /\ RunningOK'
        /\ ReportsOK' /\ RowsOK' /\ CountsOK'
    BY <1>1, <1>2, <1>8, <2>1, InsertHolds
  <2>3. TcTypeOK'
    BY <1>5, <1>6, <1>7, <2>2, NextTypeParts
  <2> QED BY <1>5, <2>2, <2>3 DEF TcInv
<1>9. CASE ~(Insert(c) /\ o = "ok")
  <2>1. UNCHANGED <<held, fate>>
    BY <1>1, <1>9
  <2>2. pc \in Busy /\ pc' \in Busy /\ pc' # "run"
    BY <1>1, <1>2 DEF Busy
  <2>3. /\ FateTyped' /\ WaitTyped' /\ ScheduledOK' /\ QueueOK' /\ HeldOK' /\ RunningOK'
        /\ ReportsOK' /\ RowsOK' /\ CountsOK'
    BY <1>2, <2>1, <2>2, FatesStay
  <2>4. TcTypeOK'
    BY <1>5, <1>6, <1>7, <2>3, NextTypeParts
  <2> QED BY <1>5, <2>3, <2>4 DEF TcInv
<1> QED BY <1>8, <1>9

LEMMA RunRulesKeeps == ASSUME TcInv, RunRules PROVE TcInv'
<1>1. /\ pc \in {"rules", "notify"}
      /\ pc' = IF pc = "rules" THEN "verdict" ELSE "idle"
      /\ UNCHANGED <<built, rows, tcq, fate, held, tm, store, link, boot, app, unit, tc,
                     own, counts, changes>>
  BY DEF RunRules, ground, down
<1>2. UNCHANGED <<err, startFail>> /\ busFailed' \in BOOLEAN
  <2>1. busFailed \in BOOLEAN
    BY DEF TcInv, TcTypeOK
  <2> QED BY <2>1 DEF RunRules, AfterRule, BusAfter
<1>3. /\ CraftTyped /\ EngineTyped /\ FrameOK
  BY TypeParts DEF TcInv
<1>4. (pc \in Busy) = (pc' \in Busy) /\ pc' # "run"
  BY <1>1 DEF Busy
<1>5. /\ FateTyped' /\ BuiltTyped' /\ LogTyped' /\ WaitTyped' /\ DownTyped' /\ TallyTyped'
      /\ ScheduledOK' /\ QueueOK' /\ HeldOK' /\ RunningOK' /\ ReportsOK' /\ RowsOK'
      /\ CountsOK'
  BY <1>1, <1>4, FatesStay
<1>6. CraftTyped' /\ EngineTyped' /\ FrameOK'
  BY <1>1, <1>2, <1>3 DEF CraftTyped, EngineTyped, FrameOK
<1>7. TcTypeOK'
  BY <1>5, <1>6, NextTypeParts
<1> QED BY <1>5, <1>6, <1>7 DEF TcInv

LEMMA ConcludeKeeps == ASSUME TcInv, Conclude PROVE TcInv'
<1> DEFINE v == IF Verdict = "ok" THEN "completed" ELSE "failed"
           rep == FinalReport
<1>0. /\ TcTypeOK /\ FateTyped /\ BuiltTyped /\ LogTyped /\ WaitTyped /\ DownTyped
      /\ CraftTyped /\ EngineTyped /\ TallyTyped /\ ScheduledOK /\ QueueOK /\ HeldOK
      /\ RunningOK /\ ReportsOK /\ RowsOK /\ CountsOK
  BY TypeParts DEF TcInv
<1>1. /\ pc = "verdict" /\ Report(rep, tc) /\ Count({"exe"})
      /\ fate' = [fate EXCEPT ![tc] = v]
      /\ pc' \in {"idle", "notify"}
      /\ tc' = 0 /\ err' = FALSE /\ startFail' = FALSE /\ own' = "none"
      /\ UNCHANGED <<built, rows, tcq, held, link, boot, app, busFailed, unit, changes>>
  BY DEF Conclude, ground, craft
<1>2. tc \in DOMAIN fate /\ fate[tc] = "running"
  BY <1>0, <1>1 DEF RunningOK, Busy
<1>3. tc \in Ids
  BY <1>0, <1>2, BuiltAre
<1>4. /\ rep \in {4, 7, 8} /\ v \in {"completed", "failed"}
      /\ v \in Claims(NewState[rep])
  <2>1. Verdict \in {"execution", "exec_start", "ok"}
    BY DEF Verdict
  <2> HIDE DEF Verdict
  <2>2. CASE Verdict = "execution"
    BY <2>2 DEF FinalReport, NewState, Claims
  <2>3. CASE Verdict = "exec_start"
    BY <2>3 DEF FinalReport, NewState, Claims
  <2>4. CASE Verdict = "ok"
    BY <2>4 DEF FinalReport, NewState, Claims
  <2> QED BY <2>1, <2>2, <2>3, <2>4
<1> HIDE DEF v, rep
<1>5. v \in Fates \ {"held", "lost", "queued"} /\ MayBecome(fate[tc], v)
  BY <1>2, <1>4 DEF Fates, Final, MayBecome
<1>6. /\ fate' \in Seq(Fates) /\ Len(fate') = Len(fate) /\ DOMAIN fate' = DOMAIN fate
      /\ fate'[tc] = v /\ \A k \in DOMAIN fate : k # tc => fate'[k] = fate[k]
  BY <1>0, <1>1, <1>2, <1>5, FateBecomes
<1>7. Forward
  BY <1>0, <1>1, <1>2, <1>5, FateForward
<1>8. /\ FateTyped' /\ BuiltTyped' /\ LogTyped' /\ WaitTyped' /\ CraftTyped'
  BY <1>0, <1>1, <1>6 DEF FateTyped, BuiltTyped, LogTyped, WaitTyped, CraftTyped
<1>9. /\ DownTyped' /\ From(tm', tm, [rep |-> rep, id |-> tc])
      /\ From(store', store, [rep |-> rep, id |-> tc])
  BY <1>0, <1>1, <1>3, <1>4, ReportGoes DEF DownTyped
<1>10. EngineTyped' /\ FrameOK'
  BY <1>1 DEF EngineTyped, FrameOK
<1>11. TallyTyped' /\ \A k \in Keys : counts'[k] = counts[k] + One(k \in {"exe"})
  BY <1>0, <1>1, Tallied
<1>12. ScheduledOK'
  BY <1>0, <1>1, <1>2, <1>5, ScheduledStays
<1>13. QueueOK'
  <2>1. \A n \in DOMAIN tcq : tcq[n] # tc
    BY <1>0, <1>2 DEF QueueOK
  <2> QED BY <1>0, <1>1, <1>6, <2>1, QueueStays
<1>14. HeldOK'
  <2>1. held' \subseteq held /\ tc \notin held'
    BY <1>0, <1>1, <1>2 DEF HeldOK
  <2> QED BY <1>0, <1>6, <2>1, HeldStays
<1>15. RunningOK'
  BY <1>0, <1>1, <1>2, <1>4, <1>6 DEF RunningOK, Busy
<1>16. ReportsOK'
  <2>1. SaysTrue([rep |-> rep, id |-> tc], fate')
    BY <1>2, <1>4, <1>6 DEF SaysTrue
  <2> QED BY <1>0, <1>7, <1>9, <2>1, ReportsStay
<1>17. RowsOK'
  BY <1>0, <1>1, <1>7, RowsStay
<1>18. CountsOK'
  <2>1. /\ Having({"rejected"})' = Having({"rejected"})
        /\ Having({"rejected"}) \in Nat
    <3>1. fate[tc] \notin {"rejected"} /\ v \notin {"rejected"}
      BY <1>2, <1>4
    <3> QED BY <1>0, <1>1, <1>2, <3>1, HavingMoves
  <2>2. /\ Having({"completed", "failed"})' = Having({"completed", "failed"}) + 1
        /\ Having({"completed", "failed"}) \in Nat
    <3>1. fate[tc] \notin {"completed", "failed"}
      BY <1>2
    <3> QED BY <1>0, <1>1, <1>2, <1>4, <3>1, HavingMoves
  <2>3. Ongoing = 1 /\ Ongoing' = 0
    BY <1>1 DEF Ongoing, Busy
  <2>4. /\ counts'["rx"] = counts["rx"] /\ counts'["acc"] = counts["acc"]
        /\ counts'["rej"] = counts["rej"] /\ counts'["exe"] = counts["exe"] + 1
        /\ counts["rx"] \in Nat /\ counts["acc"] \in Nat /\ counts["rej"] \in Nat
        /\ counts["exe"] \in Nat
    BY <1>0, <1>11 DEF TallyTyped, Keys, One
  <2> QED BY <1>0, <2>1, <2>2, <2>3, <2>4 DEF CountsOK
<1>19. TcTypeOK'
  BY <1>8, <1>9, <1>10, <1>11, NextTypeParts
<1> QED BY <1>10, <1>12, <1>13, <1>14, <1>15, <1>16, <1>17, <1>18, <1>19 DEF TcInv

-----------------------------------------------------------------------------
(* Reports that are replayed or received, and changes around the engine.   *)
LEMMA Ahead ==
  ASSUME NEW S, NEW q \in Seq(S), q # << >>
  PROVE  /\ Head(q) \in S /\ Head(q) = q[1] /\ 1 \in DOMAIN q
         /\ Tail(q) \in Seq(S) /\ Len(Tail(q)) <= Len(q)
         /\ \A n \in DOMAIN Tail(q) : n + 1 \in DOMAIN q /\ Tail(q)[n] = q[n + 1]
OBVIOUS

LEMMA ReplayKeeps == ASSUME TcInv, Replay PROVE TcInv'
<1> DEFINE r == Head(store)
<1>0. /\ TcTypeOK /\ FateTyped /\ BuiltTyped /\ LogTyped /\ WaitTyped /\ DownTyped
      /\ CraftTyped /\ EngineTyped /\ TallyTyped /\ ScheduledOK /\ QueueOK /\ HeldOK
      /\ RunningOK /\ FrameOK /\ ReportsOK /\ RowsOK /\ CountsOK
  BY TypeParts DEF TcInv
<1>1. /\ store # << >> /\ tm' = Sent(<<r>>) /\ store' = Tail(store)
      /\ UNCHANGED <<built, rows, tcq, fate, held, link, boot, app, busFailed, unit, pc, tc,
                     err, startFail, own, counts, changes>>
  BY DEF Replay, ground, craft, frame
<1>2. /\ r \in Reports /\ SaysTrue(r, fate)
      /\ store' \in Seq(Reports) /\ Len(store') <= StoreCap
      /\ \A n \in DOMAIN store' : SaysTrue(store'[n], fate)
  <2>1. store \in Seq(Reports) /\ Len(store) <= StoreCap /\ Len(store) \in Nat /\ StoreCap \in Nat
    BY <1>0, TcVerificationAssumption DEF DownTyped
  <2>2. /\ r \in Reports /\ r = store[1] /\ 1 \in DOMAIN store
        /\ store' \in Seq(Reports) /\ Len(store') <= Len(store)
        /\ \A n \in DOMAIN store' : n + 1 \in DOMAIN store /\ store'[n] = store[n + 1]
    BY <1>1, <2>1, Ahead
  <2>3. \A n \in DOMAIN store' : SaysTrue(store'[n], fate)
    BY <1>0, <2>2 DEF ReportsOK
  <2>4. Len(store') \in Nat
    BY <2>2
  <2> QED BY <1>0, <2>1, <2>2, <2>3, <2>4 DEF ReportsOK
<1> HIDE DEF r
<1>3. /\ tm' \in Seq(Reports) /\ Len(tm') <= TmCap
      /\ \A n \in DOMAIN tm' : SaysTrue(tm'[n], fate)
  <2>1. /\ tm \in Seq(Reports) /\ Len(tm) <= TmCap
        /\ \A n \in DOMAIN tm : SaysTrue(tm[n], fate)
    BY <1>0 DEF DownTyped, ReportsOK
  <2>2. /\ tm \o <<r>> \in Seq(Reports) /\ Len(tm \o <<r>>) = Len(tm) + 1 /\ Len(<<r>>) = 1
        /\ From(tm \o <<r>>, tm, r)
    BY <1>2, <2>1, OneMoreFrom
  <2>3. CASE link /\ Len(tm) + Len(<<r>>) <= TmCap
    <3>1. tm' = tm \o <<r>>
      BY <1>1, <2>3 DEF Sent
    <3>2. \A n \in DOMAIN tm' : SaysTrue(tm'[n], fate)
      BY <1>2, <2>1, <2>2, <3>1, Zenon DEF From
    <3> QED BY <2>2, <2>3, <3>1, <3>2
  <2>4. CASE ~(link /\ Len(tm) + Len(<<r>>) <= TmCap)
    <3>1. tm' = tm
      BY <1>1, <2>4 DEF Sent
    <3> QED BY <2>1, <3>1
  <2> QED BY <2>3, <2>4
<1>4. /\ FateTyped' /\ BuiltTyped' /\ LogTyped' /\ WaitTyped' /\ DownTyped'
      /\ CraftTyped' /\ EngineTyped' /\ TallyTyped'
  BY <1>0, <1>1, <1>2, <1>3 DEF FateTyped, BuiltTyped, LogTyped, WaitTyped, DownTyped,
     CraftTyped, EngineTyped, TallyTyped
<1>5. ScheduledOK' /\ QueueOK' /\ HeldOK' /\ RunningOK' /\ FrameOK'
  BY <1>0, <1>1 DEF ScheduledOK, QueueOK, HeldOK, RunningOK, FrameOK
<1>6. ReportsOK'
  BY <1>1, <1>2, <1>3 DEF ReportsOK
<1>7. RowsOK' /\ CountsOK'
  BY <1>0, <1>1 DEF RowsOK, RowsTruthful, CountsOK, Having, Ongoing
<1> QED BY <1>4, <1>5, <1>6, <1>7, NextTypeParts DEF TcInv

LEMMA SeqCountsDiffer ==
  ASSUME NEW i \in Ids, NEW j \in Ids, SeqCount(i) = SeqCount(j) PROVE i = j
<1>1. MaxBuilt \in Nat /\ SeqCounts \in Nat /\ MaxBuilt < SeqCounts
  BY TcVerificationAssumption
<1>2. i \in 1 .. SeqCounts - 1 /\ j \in 1 .. SeqCounts - 1
  BY <1>1 DEF Ids
<1>3. \A k \in 1 .. SeqCounts - 1 : k % SeqCounts = k
  BY <1>1
<1> QED BY <1>2, <1>3 DEF SeqCount

LEMMA ReceiveKeeps == ASSUME TcInv, Receive PROVE TcInv'
<1> DEFINE r == Head(tm) m == Matching(r)
<1>0. /\ TcTypeOK /\ FateTyped /\ BuiltTyped /\ LogTyped /\ WaitTyped /\ DownTyped
      /\ CraftTyped /\ EngineTyped /\ TallyTyped /\ ScheduledOK /\ QueueOK /\ HeldOK
      /\ RunningOK /\ FrameOK /\ ReportsOK /\ RowsOK /\ CountsOK
  BY TypeParts DEF TcInv
<1>1. /\ tm # << >> /\ tm' = Tail(tm)
      /\ UNCHANGED <<built, tcq, fate, held, store, link, boot, app, busFailed, unit, pc, tc,
                     err, startFail, own, counts, changes>>
  BY DEF Receive, craft, frame
<1>2. /\ r \in Reports /\ SaysTrue(r, fate)
      /\ tm' \in Seq(Reports) /\ Len(tm') <= TmCap
      /\ \A n \in DOMAIN tm' : SaysTrue(tm'[n], fate)
  <2>1. tm \in Seq(Reports) /\ Len(tm) <= TmCap /\ Len(tm) \in Nat /\ TmCap \in Nat
    BY <1>0, TcVerificationAssumption DEF DownTyped
  <2>2. /\ r \in Reports /\ r = tm[1] /\ 1 \in DOMAIN tm
        /\ tm' \in Seq(Reports) /\ Len(tm') <= Len(tm)
        /\ \A n \in DOMAIN tm' : n + 1 \in DOMAIN tm /\ tm'[n] = tm[n + 1]
    BY <1>1, <2>1, Ahead
  <2>3. \A n \in DOMAIN tm' : SaysTrue(tm'[n], fate)
    BY <1>0, <2>2 DEF ReportsOK
  <2>4. Len(tm') \in Nat
    BY <2>2
  <2> QED BY <1>0, <2>1, <2>2, <2>3, <2>4 DEF ReportsOK
<1>3. rows' = rows \/ \E n \in m : rows' = [rows EXCEPT ![n].state = NewState[r.rep]]
  <2>1. CASE m = {}
    BY <2>1 DEF Receive
  <2>2. CASE m # {}
    <3>1. m \subseteq DOMAIN rows
      BY DEF Matching
    <3>2. DOMAIN rows \subseteq Nat
      BY <1>0 DEF LogTyped
    <3>3. m \subseteq Nat
      BY <3>1, <3>2
    <3>5. \E n \in m : \A k \in m : n <= k
      <4> HIDE DEF m
      <4> QED BY <2>2, <3>3, LeastExists
    <3>6. (CHOOSE i \in m : \A k \in m : i <= k) \in m
      <4> HIDE DEF m
      <4> QED BY <3>5
    <3>7. rows' = [rows EXCEPT ![CHOOSE i \in m : \A k \in m : i <= k].state = NewState[r.rep]]
      BY <2>2 DEF Receive
    <3> QED BY <3>6, <3>7
  <2> QED BY <2>1, <2>2
<1>4. LogTyped' /\ RowsOK'
  <2>1. CASE rows' = rows
    BY <1>0, <1>1, <2>1 DEF LogTyped, RowsOK, RowsTruthful
  <2>2. ASSUME NEW n \in m, rows' = [rows EXCEPT ![n].state = NewState[r.rep]]
        PROVE  LogTyped' /\ RowsOK'
    <3>1. rows \in Seq(LogRows) /\ Len(rows) <= LogSize
      BY <1>0 DEF LogTyped
    <3>2. n \in DOMAIN rows /\ SeqCount(rows[n].id) = SeqCount(r.id)
      BY <2>2 DEF Matching
    <3>3. rows[n] \in LogRows
      BY <3>1, <3>2
    <3>4. r.id \in Ids /\ rows[n].id \in Ids /\ NewState[r.rep] \in RowStates
      BY <1>2, <3>3 DEF Reports, LogRows, NewState, RowStates
    <3>5. rows[n].id = r.id
      BY <3>2, <3>4, SeqCountsDiffer
    <3> DEFINE st == NewState[r.rep] x == [id |-> r.id, state |-> st]
    <3>6. fate[r.id] \in Claims(st) /\ r.id \in DOMAIN fate
      BY <1>2 DEF SaysTrue
    <3>7. rows' = [rows EXCEPT ![n] = [rows[n] EXCEPT !.state = st]]
      BY <2>2, <3>2
    <3> HIDE DEF st
    <3>8. [rows[n] EXCEPT !.state = st] = x /\ x \in LogRows
      BY <3>3, <3>4, <3>5 DEF LogRows, st
    <3>9. x.id = r.id /\ x.state = st
      OBVIOUS
    <3> HIDE DEF x
    <3>10. rows' = [rows EXCEPT ![n] = x]
      BY <3>7, <3>8
    <3>11. /\ rows' \in Seq(LogRows) /\ Len(rows') = Len(rows) /\ DOMAIN rows' = DOMAIN rows
           /\ rows'[n] = x /\ \A k \in DOMAIN rows : k # n => rows'[k] = rows[k]
      BY <3>1, <3>2, <3>8, <3>10
    <3>12. ASSUME NEW k \in DOMAIN rows
           PROVE  rows'[k].id \in DOMAIN fate /\ fate[rows'[k].id] \in Claims(rows'[k].state)
      <4>1. CASE k = n
        BY <3>6, <3>9, <3>11, <4>1
      <4>2. CASE k # n
        <5>1. rows[k].id \in DOMAIN fate /\ fate[rows[k].id] \in Claims(rows[k].state)
          BY <1>0 DEF RowsOK, RowsTruthful
        <5> QED BY <3>11, <4>2, <5>1
      <4> QED BY <4>1, <4>2
    <3> QED BY <1>1, <3>1, <3>11, <3>12 DEF LogTyped, RowsOK, RowsTruthful
  <2> QED BY <1>3, <2>1, <2>2
<1>5. /\ FateTyped' /\ BuiltTyped' /\ WaitTyped' /\ DownTyped'
      /\ CraftTyped' /\ EngineTyped' /\ TallyTyped'
  BY <1>0, <1>1, <1>2 DEF FateTyped, BuiltTyped, WaitTyped, DownTyped,
     CraftTyped, EngineTyped, TallyTyped
<1>6. ScheduledOK' /\ QueueOK' /\ HeldOK' /\ RunningOK' /\ FrameOK'
  BY <1>0, <1>1 DEF ScheduledOK, QueueOK, HeldOK, RunningOK, FrameOK
<1>7. ReportsOK'
  BY <1>0, <1>1, <1>2 DEF ReportsOK
<1>8. CountsOK'
  BY <1>0, <1>1 DEF CountsOK, Having, Ongoing
<1> QED BY <1>4, <1>5, <1>6, <1>7, <1>8, NextTypeParts DEF TcInv

-----------------------------------------------------------------------------
(* New telecommands.                                                        *)
Extended ==
  /\ DOMAIN fate \subseteq DOMAIN fate'
  /\ \A k \in DOMAIN fate : fate'[k] = fate[k]
  /\ \A k \in DOMAIN fate' \ DOMAIN fate : fate'[k] \in {"lost", "queued"}

LEMMA CountsExtended ==
  ASSUME Extended, CountsOK, UNCHANGED <<counts, pc>> PROVE CountsOK'
<1>1. ASSUME NEW s, "lost" \notin s, "queued" \notin s
      PROVE  Whose(fate', s) = Whose(fate, s)
  <2>1. ASSUME NEW k PROVE k \in Whose(fate', s) <=> k \in Whose(fate, s)
    BY <1>1 DEF Whose, Extended
  <2> QED BY <2>1
<1>2. Having({"rejected"})' = Having({"rejected"})
  <2>1. Whose(fate', {"rejected"}) = Whose(fate, {"rejected"})
    BY <1>1
  <2> QED BY <2>1 DEF Having, Whose
<1>3. Having({"completed", "failed"})' = Having({"completed", "failed"})
  <2>1. Whose(fate', {"completed", "failed"}) = Whose(fate, {"completed", "failed"})
    BY <1>1
  <2> QED BY <2>1 DEF Having, Whose
<1>4. Ongoing' = Ongoing
  BY DEF Ongoing
<1> QED BY <1>2, <1>3, <1>4 DEF CountsOK

LEMMA LogIs ==
  ASSUME LogTyped, NEW rs \in Seq(LogRows)
  PROVE  /\ Log(rs) \in Seq(LogRows) /\ Len(Log(rs)) <= LogSize
         /\ \A n \in DOMAIN Log(rs) : \/ \E k \in DOMAIN rs : Log(rs)[n] = rs[k]
                                      \/ \E k \in DOMAIN rows : Log(rs)[n] = rows[k]
<1> DEFINE all == rs \o rows
           len == IF Len(all) < LogSize THEN Len(all) ELSE LogSize
<1>1. rows \in Seq(LogRows) /\ LogSize \in Nat
  BY TcVerificationAssumption DEF LogTyped
<1>2. /\ all \in Seq(LogRows) /\ Len(all) \in Nat /\ DOMAIN all = 1 .. Len(all)
      /\ \A n \in DOMAIN all : \/ \E k \in DOMAIN rs : all[n] = rs[k]
                               \/ \E k \in DOMAIN rows : all[n] = rows[k]
  <2>1. /\ all \in Seq(LogRows)
        /\ \A k \in DOMAIN all :
             \/ k \in 1 .. Len(rs) /\ all[k] = rs[k]
             \/ k - Len(rs) \in 1 .. Len(rows) /\ all[k] = rows[k - Len(rs)]
    BY <1>1, Concatenated
  <2>2. DOMAIN rs = 1 .. Len(rs) /\ DOMAIN rows = 1 .. Len(rows)
    BY <1>1
  <2> HIDE DEF all
  <2>3. Len(all) \in Nat /\ DOMAIN all = 1 .. Len(all)
    BY <2>1
  <2> QED BY <2>1, <2>2, <2>3, Zenon
<1>3. Log(rs) = SubSeq(all, 1, len)
  BY Zenon DEF Log
<1> HIDE DEF all
<1>4. len \in Nat /\ len <= Len(all) /\ len <= LogSize
  BY <1>1, <1>2
<1> HIDE DEF len
<1>5. /\ Log(rs) \in Seq(LogRows) /\ Len(Log(rs)) = len /\ DOMAIN Log(rs) = 1 .. len
      /\ \A n \in 1 .. len : Log(rs)[n] = all[n] /\ n \in DOMAIN all
  <2>1. \A n \in 1 .. len : all[n] \in LogRows /\ n \in DOMAIN all
    BY <1>2, <1>4
  <2>2. /\ SubSeq(all, 1, len) \in Seq(LogRows)
        /\ Len(SubSeq(all, 1, len)) = (IF 1 <= len THEN len - 1 + 1 ELSE 0)
        /\ \A n \in 1 .. len - 1 + 1 : SubSeq(all, 1, len)[n] = all[1 + n - 1]
    BY <1>4, <2>1, SubSeqProperties
  <2>3. Len(SubSeq(all, 1, len)) = len
    BY <1>4, <2>2
  <2>4. \A n \in 1 .. len : SubSeq(all, 1, len)[n] = all[n]
    BY <1>4, <2>2
  <2> QED BY <1>3, <2>1, <2>2, <2>3, <2>4
<1> QED BY <1>2, <1>4, <1>5

(* A row for a new telecommand says only that it was sent or scheduled.    *)
LEMMA NewRows ==
  ASSUME TcTypeOK, RowsOK, Extended, fate' \in Seq(Fates), DOMAIN fate' \subseteq Ids,
         NEW rs \in Seq(LogRows), rows' = Log(rs),
         \A k \in DOMAIN rs : rs[k].id \in DOMAIN fate' /\ rs[k].state \in {"SENT", "SCHEDULED"}
  PROVE  LogTyped' /\ RowsOK'
<1>1. LogTyped
  BY TypeParts
<1>2. /\ rows' \in Seq(LogRows) /\ Len(rows') <= LogSize
      /\ \A n \in DOMAIN rows' : \/ \E k \in DOMAIN rs : rows'[n] = rs[k]
                                 \/ \E k \in DOMAIN rows : rows'[n] = rows[k]
  BY <1>1, LogIs
<1>3. \A k \in DOMAIN rs :
        rs[k].id \in DOMAIN fate' /\ fate'[rs[k].id] \in Claims(rs[k].state)
  BY DEF Claims
<1>4. \A k \in DOMAIN rows :
        rows[k].id \in DOMAIN fate' /\ fate'[rows[k].id] \in Claims(rows[k].state)
  BY DEF RowsOK, RowsTruthful, Extended
<1>5. \A n \in DOMAIN rows' :
        rows'[n].id \in DOMAIN fate' /\ fate'[rows'[n].id] \in Claims(rows'[n].state)
  BY <1>2, <1>3, <1>4, Zenon
<1> QED BY <1>2, <1>5 DEF LogTyped, RowsOK, RowsTruthful

LEMMA UplinkIs ==
  ASSUME TcTypeOK, QueueOK, Extended, NEW id \in DOMAIN fate' \ DOMAIN fate, id \in Ids,
         Uplink(id), fate'[id] = FateOf(id)
  PROVE  /\ tcq' \in Seq(Ids) /\ Len(tcq') <= TcCap
         /\ QueueOK'
<1>1. tcq \in Seq(Ids) /\ Len(tcq) <= TcCap /\ TcCap \in Nat
  BY TcVerificationAssumption DEF TcTypeOK
<1>2. CASE tcq' = tcq
  BY <1>1, <1>2 DEF QueueOK, Extended
<1>3. CASE Len(tcq) < TcCap /\ tcq' = Append(tcq, id)
  <2>1. /\ tcq' \in Seq(Ids) /\ Len(tcq') = Len(tcq) + 1 /\ DOMAIN tcq' = 1 .. Len(tcq) + 1
        /\ Len(tcq) \in Nat /\ DOMAIN tcq = 1 .. Len(tcq) /\ tcq'[Len(tcq) + 1] = id
        /\ \A n \in 1 .. Len(tcq) : tcq'[n] = tcq[n]
    <3>1. /\ tcq' \in Seq(Ids) /\ Len(tcq') = Len(tcq) + 1
          /\ \A n \in 1 .. Len(tcq) : tcq'[n] = tcq[n]
          /\ tcq'[Len(tcq) + 1] = id
      BY <1>1, <1>3, AppendProperties
    <3> QED BY <1>1, <3>1
  <2>2. tcq' # tcq /\ Len(tcq') <= TcCap
    <3>1. Len(tcq) < TcCap
      BY <1>3
    <3>2. \A a, b \in Nat : a = b + 1 /\ b < TcCap => a # b /\ a <= TcCap
      BY <1>1
    <3>3. Len(tcq') \in Nat /\ Len(tcq) \in Nat /\ Len(tcq') = Len(tcq) + 1
      BY <2>1
    <3>4. Len(tcq') # Len(tcq) /\ Len(tcq') <= TcCap
      BY <3>1, <3>2, <3>3, Zenon
    <3> QED BY <3>4, Zenon
  <2>3. fate'[id] = "queued"
    BY <2>2 DEF FateOf
  <2>4. \A n \in 1 .. Len(tcq) : tcq'[n] \in DOMAIN fate' /\ fate'[tcq'[n]] = "queued"
                                 /\ tcq'[n] # id
    BY <2>1 DEF QueueOK, Extended
  <2>5. \A n \in DOMAIN tcq' : n \in 1 .. Len(tcq) \/ n = Len(tcq) + 1
    BY <2>1
  <2>6. \A n \in 1 .. Len(tcq), k \in 1 .. Len(tcq) : k # n => tcq'[k] # tcq'[n]
    BY <2>1 DEF QueueOK
  <2>7. \A n \in DOMAIN tcq' : tcq'[n] \in DOMAIN fate' /\ fate'[tcq'[n]] = "queued"
    BY <2>1, <2>3, <2>4, <2>5
  <2>8. \A n \in DOMAIN tcq', k \in DOMAIN tcq' : k # n => tcq'[k] # tcq'[n]
    BY <2>1, <2>4, <2>5, <2>6
  <2> QED BY <2>1, <2>2, <2>7, <2>8 DEF QueueOK
<1> QED BY <1>2, <1>3 DEF Uplink

(* What building telecommands leaves to show once fate, rows, tcq are known. *)
LEMMA BuildKeeps ==
  ASSUME TcInv, pc = "idle", Extended, FateTyped', BuiltTyped', LogTyped', RowsOK',
         tcq' \in Seq(Ids), Len(tcq') <= TcCap, QueueOK', ScheduledOK',
         UNCHANGED <<held, down, craft, pc, tc, frame, counts, changes>>
  PROVE  TcInv'
<1>0. /\ TcTypeOK /\ WaitTyped /\ DownTyped /\ CraftTyped /\ EngineTyped /\ TallyTyped /\ HeldOK
      /\ RunningOK /\ FrameOK /\ ReportsOK /\ CountsOK
  BY TypeParts DEF TcInv
<1>1. UNCHANGED <<held, tm, store, link, boot, app, busFailed, unit, pc, tc, err, startFail,
                  own, counts, changes>>
  BY DEF down, craft, frame
<1>2. /\ WaitTyped' /\ DownTyped' /\ CraftTyped' /\ EngineTyped' /\ TallyTyped'
  BY <1>0, <1>1 DEF WaitTyped, DownTyped, CraftTyped, EngineTyped, TallyTyped
<1>3. HeldOK' /\ FrameOK'
  BY <1>0, <1>1 DEF HeldOK, FrameOK, Extended
<1>4. RunningOK'
  <2>1. ASSUME NEW k \in DOMAIN fate' PROVE fate'[k] # "running"
    BY <1>0 DEF Extended, RunningOK, Busy
  <2> QED BY <1>1, <2>1 DEF RunningOK, Busy
<1>5. ReportsOK'
  BY <1>0, <1>1 DEF ReportsOK, SaysTrue, Extended
<1>6. CountsOK'
  BY <1>0, <1>1, CountsExtended
<1> QED BY <1>2, <1>3, <1>4, <1>5, <1>6, NextTypeParts DEF TcInv

LEMMA SendKeeps == ASSUME TcInv, NEW c \in Commands, Send(c) PROVE TcInv'
<1> DEFINE id == Len(built) + 1 rs == <<Row(id, "SENT")>>
<1>0. /\ TcTypeOK /\ FateTyped /\ BuiltTyped /\ LogTyped /\ ScheduledOK /\ QueueOK /\ RowsOK
  BY TypeParts DEF TcInv
<1>1. /\ pc = "idle" /\ Len(built) < MaxBuilt /\ ~Insert(c)
      /\ built' = Append(built, c) /\ rows' = Log(rs) /\ Uplink(id)
      /\ fate' = Append(fate, FateOf(id))
      /\ UNCHANGED <<held, down, craft, pc, tc, frame, counts, changes>>
  BY DEF Send
<1>2. /\ built \in Seq(Commands) /\ fate \in Seq(Fates) /\ Len(fate) = Len(built)
      /\ Len(built) \in Nat /\ MaxBuilt \in Nat
  BY <1>0, TcVerificationAssumption DEF BuiltTyped, FateTyped
<1>3. id \in Ids /\ FateOf(id) \in {"lost", "queued"} /\ FateOf(id) \in Fates
  BY <1>1, <1>2 DEF Ids, FateOf, Fates
<1>4. /\ fate' \in Seq(Fates) /\ Len(fate') = id /\ DOMAIN fate' = 1 .. id
      /\ DOMAIN fate = 1 .. id - 1 /\ fate'[id] = FateOf(id)
      /\ \A k \in 1 .. id - 1 : fate'[k] = fate[k]
  BY <1>1, <1>2, <1>3
<1>5. /\ built' \in Seq(Commands) /\ Len(built') = id /\ DOMAIN built' = 1 .. id
      /\ DOMAIN built = 1 .. id - 1 /\ built'[id] = c
      /\ \A k \in 1 .. id - 1 : built'[k] = built[k]
  BY <1>1, <1>2
<1>6. id \in Nat /\ id >= 1 /\ id <= MaxBuilt
  BY <1>1, <1>2
<1> HIDE DEF id
<1>7. Extended
  BY <1>3, <1>4, <1>6 DEF Extended
<1>8. FateTyped' /\ BuiltTyped'
  BY <1>4, <1>5, <1>6 DEF FateTyped, BuiltTyped
<1>9. DOMAIN fate' \subseteq Ids
  BY <1>2, <1>4, <1>6 DEF Ids
<1>10. LogTyped' /\ RowsOK'
  <2>1. Row(id, "SENT") \in LogRows /\ Row(id, "SENT").id = id
        /\ Row(id, "SENT").state = "SENT"
    BY <1>3 DEF Row, LogRows, RowStates
  <2>2. rs \in Seq(LogRows) /\ \A k \in DOMAIN rs : rs[k] = Row(id, "SENT")
    BY <2>1
  <2>3. id \in DOMAIN fate'
    BY <1>4, <1>6
  <2>4. \A k \in DOMAIN rs : rs[k].id \in DOMAIN fate'
                             /\ rs[k].state \in {"SENT", "SCHEDULED"}
    BY <2>1, <2>2, <2>3
  <2> HIDE DEF rs
  <2> QED BY <1>0, <1>1, <1>4, <1>7, <1>9, <2>2, <2>4, NewRows
<1>11. tcq' \in Seq(Ids) /\ Len(tcq') <= TcCap /\ QueueOK'
  <2>1. id \in DOMAIN fate' \ DOMAIN fate
    BY <1>4, <1>6
  <2> QED BY <1>0, <1>1, <1>3, <1>4, <1>7, <2>1, UplinkIs
<1>12. ScheduledOK'
  <2>1. ASSUME NEW k \in DOMAIN built', Insert(built'[k])
        PROVE  /\ k > 1 /\ ~Insert(built'[k - 1]) /\ fate'[k] # "held"
               /\ fate'[k] \in {"lost", "queued"} => fate'[k - 1] = "lost"
    <3>1. k \in DOMAIN built
      BY <1>1, <1>5, <1>6, <2>1
    <3>2. /\ k > 1 /\ ~Insert(built[k - 1]) /\ fate[k] # "held"
          /\ fate[k] \in {"lost", "queued"} => fate[k - 1] = "lost"
      BY <1>0, <1>5, <2>1, <3>1 DEF ScheduledOK
    <3>3. k \in 1 .. id - 1 /\ k - 1 \in 1 .. id - 1
      BY <1>5, <1>6, <3>1, <3>2
    <3> QED BY <1>4, <1>5, <3>2, <3>3
  <2>2. pc' # "run"
    BY <1>1
  <2> QED BY <2>1, <2>2 DEF ScheduledOK
<1> QED BY <1>1, <1>7, <1>8, <1>10, <1>11, <1>12, BuildKeeps

LEMMA SendScheduledKeeps ==
  ASSUME TcInv, NEW c \in Commands, NEW l \in BOOLEAN, SendScheduled(c, l) PROVE TcInv'
<1> DEFINE n == Len(built) id == n + 2
           rs == <<Row(id, "SENT")>> \o IF l THEN <<Row(id - 1, "SCHEDULED")>> ELSE << >>
<1>0. /\ TcTypeOK /\ FateTyped /\ BuiltTyped /\ LogTyped /\ ScheduledOK /\ QueueOK /\ RowsOK
  BY TypeParts DEF TcInv
<1>1. /\ pc = "idle" /\ n + 1 < MaxBuilt /\ ~Insert(c)
      /\ UNCHANGED <<held, down, craft, pc, tc, frame, counts, changes>>
  BY DEF SendScheduled
<1>2. PICK outer \in Commands :
        /\ Insert(outer)
        /\ built' = built \o <<c, outer>> /\ rows' = Log(rs) /\ Uplink(id)
        /\ fate' = fate \o <<"lost", FateOf(id)>>
  BY DEF SendScheduled
<1>3. /\ built \in Seq(Commands) /\ fate \in Seq(Fates) /\ Len(fate) = n
      /\ n \in Nat /\ MaxBuilt \in Nat
  BY <1>0, TcVerificationAssumption DEF BuiltTyped, FateTyped
<1>4. /\ id \in Ids /\ id - 1 \in Ids /\ FateOf(id) \in {"lost", "queued"}
      /\ FateOf(id) \in Fates /\ "lost" \in Fates
  BY <1>1, <1>3 DEF Ids, FateOf, Fates
<1>5. /\ fate' \in Seq(Fates) /\ Len(fate') = id /\ DOMAIN fate' = 1 .. id
      /\ DOMAIN fate = 1 .. n /\ fate'[id] = FateOf(id) /\ fate'[id - 1] = "lost"
      /\ \A k \in 1 .. n : fate'[k] = fate[k]
  <2> DEFINE f == FateOf(id)
  <2>1. fate' = fate \o <<"lost", f>> /\ f \in Fates
    BY <1>2, <1>4
  <2> HIDE DEF f
  <2> SUFFICES /\ fate' \in Seq(Fates) /\ Len(fate') = id /\ DOMAIN fate' = 1 .. id
               /\ DOMAIN fate = 1 .. n /\ fate'[id] = f /\ fate'[id - 1] = "lost"
               /\ \A k \in 1 .. n : fate'[k] = fate[k]
    BY DEF f
  <2> DEFINE two == <<"lost", f>>
  <2>2. two \in Seq(Fates) /\ Len(two) = 2 /\ two[1] = "lost" /\ two[2] = f
    BY <1>4, <2>1
  <2>3. fate' = fate \o two
    BY <2>1
  <2> HIDE DEF two
  <2>4. /\ fate' \in Seq(Fates) /\ Len(fate') = n + 2
        /\ \A k \in 1 .. Len(fate) : fate'[k] = fate[k]
        /\ \A j \in 1 .. Len(two) : fate'[Len(fate) + j] = two[j]
    <3>1. /\ fate \o two \in Seq(Fates) /\ Len(fate \o two) = Len(fate) + Len(two)
          /\ \A k \in 1 .. Len(fate) : (fate \o two)[k] = fate[k]
          /\ \A j \in 1 .. Len(two) : (fate \o two)[Len(fate) + j] = two[j]
      <4>1. fate \in Seq(Fates) /\ two \in Seq(Fates)
        BY <1>3, <2>2
      <4> QED BY <4>1, Concatenated
    <3> QED BY <1>3, <2>2, <2>3, <3>1
  <2>5. fate'[n + 1] = "lost" /\ fate'[n + 2] = f
    BY <1>3, <2>2, <2>4
  <2> QED BY <1>3, <2>4, <2>5
<1>6. /\ built' \in Seq(Commands) /\ Len(built') = id /\ DOMAIN built' = 1 .. id
      /\ DOMAIN built = 1 .. n /\ built'[id] = outer /\ built'[id - 1] = c
      /\ \A k \in 1 .. n : built'[k] = built[k]
  BY <1>2, <1>3
<1>7. n \in Nat /\ id = n + 2 /\ id <= MaxBuilt /\ MaxBuilt \in Nat
  BY <1>1, <1>3
<1> HIDE DEF n, id
<1>8. \A k \in 1 .. id : k \in 1 .. n \/ k = id - 1 \/ k = id
  BY <1>7
<1>9. Extended
  BY <1>4, <1>5, <1>7, <1>8 DEF Extended
<1>10. FateTyped' /\ BuiltTyped'
  BY <1>5, <1>6, <1>7 DEF FateTyped, BuiltTyped
<1>11. DOMAIN fate' \subseteq Ids
  BY <1>5, <1>7 DEF Ids
<1>12. LogTyped' /\ RowsOK'
  <2> DEFINE x == Row(id, "SENT") y == Row(id - 1, "SCHEDULED")
  <2>1. /\ x \in LogRows /\ x.id = id /\ x.state = "SENT"
        /\ y \in LogRows /\ y.id = id - 1 /\ y.state = "SCHEDULED"
    BY <1>4 DEF Row, LogRows, RowStates
  <2>2. rs = <<x>> \o IF l THEN <<y>> ELSE << >>
    OBVIOUS
  <2> HIDE DEF rs, x, y
  <2>3. rs \in Seq(LogRows) /\ \A k \in DOMAIN rs : rs[k] = x \/ rs[k] = y
    <3>1. CASE l
      <4> DEFINE p == <<x>> q == <<y>>
      <4>1. /\ p \in Seq(LogRows) /\ DOMAIN p = 1 .. Len(p) /\ \A k \in DOMAIN p : p[k] = x
            /\ q \in Seq(LogRows) /\ DOMAIN q = 1 .. Len(q) /\ \A k \in DOMAIN q : q[k] = y
        <5>1. Len(p) = 1 /\ p[1] = x /\ DOMAIN p = 1 .. 1
          OBVIOUS
        <5>2. Len(q) = 1 /\ q[1] = y /\ DOMAIN q = 1 .. 1
          OBVIOUS
        <5>3. p \in Seq(LogRows) /\ q \in Seq(LogRows)
          BY <2>1
        <5> HIDE DEF p, q
        <5> QED BY <5>1, <5>2, <5>3
      <4>2. rs = p \o q
        BY <2>2, <3>1
      <4> HIDE DEF p, q
      <4> QED BY <4>1, <4>2, Concatenated
    <3>2. CASE ~l
      <4>1. rs = <<x>>
        BY <2>2, <3>2
      <4> QED BY <2>1, <4>1
    <3> QED BY <3>1, <3>2
  <2>4. id \in DOMAIN fate' /\ id - 1 \in DOMAIN fate'
    BY <1>5, <1>7
  <2>5. \A k \in DOMAIN rs : rs[k].id \in DOMAIN fate'
                             /\ rs[k].state \in {"SENT", "SCHEDULED"}
    BY <2>1, <2>3, <2>4
  <2>6. rows' = Log(rs)
    BY <1>2
  <2> QED BY <1>0, <1>5, <1>9, <1>11, <2>3, <2>5, <2>6, NewRows
<1>13. tcq' \in Seq(Ids) /\ Len(tcq') <= TcCap /\ QueueOK'
  <2>1. id \in DOMAIN fate' \ DOMAIN fate
    BY <1>5, <1>7
  <2> QED BY <1>0, <1>2, <1>4, <1>5, <1>9, <2>1, UplinkIs
<1>14. ScheduledOK'
  <2>1. ASSUME NEW k \in DOMAIN built', Insert(built'[k])
        PROVE  /\ k > 1 /\ ~Insert(built'[k - 1]) /\ fate'[k] # "held"
               /\ fate'[k] \in {"lost", "queued"} => fate'[k - 1] = "lost"
    <3>1. k \in 1 .. n \/ k = id
      BY <1>1, <1>6, <1>8, <2>1
    <3>2. CASE k = id
      <4>1. k > 1 /\ built'[k - 1] = c /\ fate'[k - 1] = "lost" /\ fate'[k] # "held"
        BY <1>4, <1>5, <1>6, <1>7, <3>2
      <4> QED BY <1>1, <4>1
    <3>3. CASE k \in 1 .. n
      <4>1. /\ k > 1 /\ ~Insert(built[k - 1]) /\ fate[k] # "held"
            /\ fate[k] \in {"lost", "queued"} => fate[k - 1] = "lost"
        BY <1>0, <1>6, <2>1, <3>3 DEF ScheduledOK
      <4>2. k - 1 \in 1 .. n
        BY <1>7, <3>3, <4>1
      <4> QED BY <1>5, <1>6, <3>3, <4>1, <4>2
    <3> QED BY <3>1, <3>2, <3>3
  <2>2. pc' # "run"
    BY <1>1
  <2> QED BY <2>1, <2>2 DEF ScheduledOK
<1> QED BY <1>1, <1>9, <1>10, <1>12, <1>13, <1>14, BuildKeeps

-----------------------------------------------------------------------------
LEMMA EnvironmentKeeps == ASSUME TcInv, Environment PROVE TcInv'
<1>1. /\ pc = "idle" /\ changes < MaxChanges /\ changes' = changes + 1
      /\ UNCHANGED <<built, rows, tcq, fate, held, tm, store, pc, tc, err, startFail, own, counts>>
  BY DEF Environment, ground, down, frame
<1>2. /\ CraftTyped /\ EngineTyped /\ TallyTyped /\ FateTyped /\ BuiltTyped /\ LogTyped
      /\ WaitTyped /\ DownTyped /\ ScheduledOK /\ QueueOK /\ HeldOK
      /\ RunningOK /\ FrameOK /\ ReportsOK /\ RowsOK /\ CountsOK
  BY TypeParts DEF TcInv
<1>3. CraftTyped'
  <2>1. \/ link' = ~link /\ UNCHANGED <<boot, app, busFailed, unit>>
        \/ app' = ~app /\ UNCHANGED <<link, boot, busFailed, unit>>
        \/ boot' = ~app /\ UNCHANGED <<link, app, busFailed, unit>>
        \/ busFailed' = TRUE /\ UNCHANGED <<link, boot, app, unit>>
        \/ /\ \E u \in Switched, s \in {"dark", "off", "on"} :
                (u = "ttc" => s # "off") /\ unit' = [unit EXCEPT ![u] = s]
           /\ UNCHANGED <<link, boot, app, busFailed>>
    BY Zenon DEF Environment
  <2> QED BY <1>2, <2>1 DEF CraftTyped, Units
<1>4. TallyTyped'
  BY <1>1, <1>2, TcVerificationAssumption DEF TallyTyped
<1>5. FateTyped' /\ BuiltTyped' /\ LogTyped' /\ WaitTyped' /\ DownTyped' /\ EngineTyped'
  BY <1>1, <1>2 DEF FateTyped, BuiltTyped, LogTyped, WaitTyped, DownTyped, EngineTyped
<1>6. ScheduledOK' /\ QueueOK' /\ HeldOK' /\ RunningOK' /\ FrameOK' /\ ReportsOK'
  BY <1>1, <1>2 DEF ScheduledOK, QueueOK, HeldOK, RunningOK, FrameOK, ReportsOK
<1>7. RowsOK' /\ CountsOK'
  BY <1>1, <1>2 DEF RowsOK, RowsTruthful, CountsOK, Having, Ongoing
<1> QED BY <1>3, <1>4, <1>5, <1>6, <1>7, NextTypeParts DEF TcInv

LEMMA TcStutterKeeps == ASSUME TcInv, UNCHANGED tcVars PROVE TcInv'
<1>1. UNCHANGED <<built, rows, tcq, fate, held, tm, store, link, boot, app, busFailed, unit,
                  pc, tc, err, startFail, own, counts, changes>>
  BY DEF tcVars, ground, down, craft, frame
<1>2. /\ CraftTyped /\ EngineTyped /\ FrameOK
  BY TypeParts DEF TcInv
<1>3. /\ FateTyped' /\ BuiltTyped' /\ LogTyped' /\ WaitTyped' /\ DownTyped' /\ TallyTyped'
      /\ ScheduledOK' /\ QueueOK' /\ HeldOK' /\ RunningOK' /\ ReportsOK' /\ RowsOK'
      /\ CountsOK'
  BY <1>1, FatesStay
<1>4. CraftTyped' /\ EngineTyped' /\ FrameOK'
  BY <1>1, <1>2 DEF CraftTyped, EngineTyped, FrameOK
<1> QED BY <1>3, <1>4, NextTypeParts DEF TcInv

LEMMA TcInvInit == TcInit => TcInv
<1> SUFFICES ASSUME TcInit PROVE TcInv
  OBVIOUS
<1>0. {SeqCounts, MaxBuilt, TcCap, TmCap, StoreCap, LogSize, MaxChanges} \subseteq Nat
  BY TcVerificationAssumption
<1>1. MaxBuilt \in Nat /\ TcCap \in Nat /\ TmCap \in Nat /\ StoreCap \in Nat /\ LogSize \in Nat
      /\ MaxChanges \in Nat
  BY <1>0
<1>2. FateTyped /\ BuiltTyped /\ LogTyped /\ WaitTyped /\ DownTyped
  BY <1>1 DEF TcInit, FateTyped, BuiltTyped, LogTyped, WaitTyped, DownTyped
<1>3. CraftTyped /\ EngineTyped /\ TallyTyped
  <2>1. link \in BOOLEAN /\ boot \in BOOLEAN /\ app \in BOOLEAN /\ busFailed \in BOOLEAN
    BY DEF TcInit
  <2>2. unit \in [Units -> {"dark", "off", "on"}] /\ unit["ttc"] # "off"
    BY DEF TcInit, Units
  <2>3. counts \in [Keys -> Nat] /\ changes \in 0 .. MaxChanges
    BY <1>1 DEF TcInit, Keys
  <2>4. EngineTyped
    BY DEF TcInit, EngineTyped
  <2> QED BY <2>1, <2>2, <2>3, <2>4, Zenon DEF CraftTyped, TallyTyped
<1>4. ScheduledOK /\ QueueOK /\ HeldOK /\ RunningOK /\ FrameOK /\ ReportsOK /\ RowsOK
  BY DEF TcInit, ScheduledOK, QueueOK, HeldOK, RunningOK, FrameOK, ReportsOK, RowsOK,
     RowsTruthful, Busy
<1>5. CountsOK
  <2>1. \A s : Whose(fate, s) = {}
    BY DEF TcInit, Whose
  <2>2. \A s : Having(s) = 0
    BY <2>1, HavingIs, FS_EmptySet
  <2> QED BY <2>2 DEF CountsOK, TcInit, Ongoing, Busy
<1> QED BY <1>2, <1>3, <1>4, <1>5, TypeParts DEF TcInv

LEMMA TcInvNext == TcInv /\ [TcNext]_tcVars => TcInv'
<1> SUFFICES ASSUME TcInv, [TcNext]_tcVars PROVE TcInv'
  OBVIOUS
<1>1. CASE Drain
  BY <1>1, DrainKeeps
<1>2. CASE Run
  BY <1>2, RunKeeps
<1>3. CASE RunRules
  BY <1>3, RunRulesKeeps
<1>4. CASE Conclude
  BY <1>4, ConcludeKeeps
<1>5. CASE \E id \in Ids : Release(id)
  BY <1>5, ReleaseKeeps
<1>6. CASE Replay
  BY <1>6, ReplayKeeps
<1>7. CASE \E c \in Commands : Send(c)
  BY <1>7, SendKeeps
<1>8. CASE \E l \in BOOLEAN : \E c \in Commands : SendScheduled(c, l)
  BY <1>8, SendScheduledKeeps
<1>9. CASE Receive
  BY <1>9, ReceiveKeeps
<1>10. CASE Environment
  BY <1>10, EnvironmentKeeps
<1>11. CASE UNCHANGED tcVars
  BY <1>11, TcStutterKeeps
<1> QED BY <1>1, <1>2, <1>3, <1>4, <1>5, <1>6, <1>7, <1>8, <1>9, <1>10, <1>11, Zenon
        DEF TcNext, Engine, Ground

LEMMA TcInvAlways == TcSpec => []TcInv
BY TcInvInit, TcInvNext, PTL DEF TcSpec


(* Every variable keeps its type; in particular no queue, store or log      *)
(* grows beyond its limit.                                                  *)
THEOREM TcTypeCorrect == TcSpec => []TcTypeOK
<1>1. TcInv => TcTypeOK
  BY DEF TcInv
<1> QED BY <1>1, TcInvAlways, PTL

(* The verdict reported for a telecommand is its own handler's, also when   *)
(* the action of an event rule was refused in the middle of its execution:  *)
(* _s19_dispatch restores the accumulators of its caller.                   *)
THEOREM VerdictAlwaysOwn == TcSpec => []OwnVerdict
<1>1. TcInv => OwnVerdict
  <2> SUFFICES ASSUME TcInv, pc = "verdict" PROVE Verdict = own
    BY DEF OwnVerdict
  <2>1. /\ own \in {"ok", "execution", "exec_start"}
        /\ err = (own = "execution") /\ startFail = (own = "exec_start")
    BY DEF TcInv, FrameOK
  <2> QED BY <2>1 DEF Verdict
<1> QED BY <1>1, TcInvAlways, PTL

(* The OBDH's counters account for every telecommand: those received are    *)
(* the accepted and the rejected ones, those accepted are the executed ones *)
(* and the one in the dispatcher.                                           *)
THEOREM CountersAlwaysAgree == TcSpec => []CountersAgree
<1>1. TcInv => CountersAgree
  BY CountsOKAgree DEF TcInv
<1> QED BY <1>1, TcInvAlways, PTL

(* The verification log never claims what did not happen on board, however  *)
(* late, repeated or partly lost the reports are.                           *)
THEOREM RowsAlwaysTruthful == TcSpec => []RowsTruthful
<1>1. TcInv => RowsTruthful
  BY DEF TcInv, RowsOK
<1> QED BY <1>1, TcInvAlways, PTL
=============================================================================
