----------------------------- MODULE ObcpProofs -----------------------------
(***************************************************************************)
(* Theorems about the Service 18 manager (module Obcp), for every set of   *)
(* procedure identifiers, every program, every delay, every tick size and  *)
(* every limit.                                                            *)
(*                                                                         *)
(* The safety invariants are not inductive one by one: that a run's next   *)
(* step exists rests on every stored program having a step, and that an    *)
(* end is announced once rests on what tick() has and has not looked at.   *)
(* Inv is their conjunction with those facts.  That steps run on time      *)
(* rests on one more invariant, OnTime: a run that is waiting has not      *)
(* waited past the due time of its next step, counted from its start.      *)
(***************************************************************************)
EXTENDS Obcp, FiniteSetTheorems, SequenceLemmas

(* tick() has still to look at running procedures only, and at none of     *)
(* those it found complete.                                                *)
TickPhase == todo \subseteq DOMAIN running /\ todo \cap completed = {}

(* A store the manager can hold, and runs that fit it.                     *)
Usable(procs, runs) ==
  /\ IsTable(procs, Programs)
  /\ IsTable(runs, Run)
  /\ Cardinality(DOMAIN procs) <= MaxProcedures
  /\ \A p \in DOMAIN procs : Len(Steps[procs[p]]) >= 1
  /\ \A p \in DOMAIN runs :
       p \in DOMAIN procs /\ runs[p].step_index <= Len(Steps[procs[p]])

Observed ==
  /\ emitted \subseteq Event
  /\ open \in [ProcIds -> Int]
  /\ EveryEndAnnouncedOnce

(* What the requests can change.                                           *)
Core == Usable(procedures, running) /\ TickPhase /\ Observed

(* What they cannot.                                                       *)
Rest ==
  /\ todo \subseteq ProcIds
  /\ due \in Seq([pid : ProcIds, index : Nat \ {0}, tc : Tc])
  /\ completed \subseteq ProcIds
  /\ outcome \in {"none", "failed", "executed", "gated", "refused"}
  /\ failed \subseteq ProcIds
  /\ restores \in Nat
  /\ Usable(saved.procedures, saved.running)

Inv == Core /\ Rest
-----------------------------------------------------------------------------
(* Raising events of the catalogue keeps the observers well typed.         *)
LEMMA RaiseType ==
  ASSUME open \in [ProcIds -> Int], NEW E, E \subseteq Event, Raise(E)
  PROVE  emitted' \subseteq Event /\ open' \in [ProcIds -> Int]
BY DEF Raise, Count

LEMMA RaiseNothing ==
  ASSUME open \in [ProcIds -> Int], Raise({})
  PROVE  open' = open /\ emitted' = {}
BY DEF Raise, Count

(* Taking runs away keeps the store usable.                                *)
LEMMA WithoutUsable ==
  ASSUME Usable(procedures, running), NEW P, NEW procs,
         Usable(procs, running)
  PROVE  Usable(procs, Without(P))
BY DEF Usable, Without, IsTable

(* Aborting the runs in P and announcing it keeps the account of ends.     *)
LEMMA AbortCore ==
  ASSUME Core, todo = {}, NEW P \in SUBSET DOMAIN running,
         NEW E, E \subseteq Event,
         \A p \in ProcIds :
           /\ [event |-> StartedEvent, pid |-> p] \notin E
           /\ [event |-> CompletedEvent, pid |-> p] \notin E
           /\ [event |-> AbortedEvent, pid |-> p] \in E <=> p \in P,
         running' = Without(P), Raise(E), UNCHANGED <<todo, completed>>
  PROVE  TickPhase' /\ Observed'
<1>1. TickPhase'
  BY DEF TickPhase
<1>2. emitted' \subseteq Event /\ open' \in [ProcIds -> Int]
  BY RaiseType DEF Core, Observed
<1>3. DOMAIN running' = DOMAIN running \ P
  BY DEF Without
<1>4. ASSUME NEW p \in ProcIds
      PROVE  open'[p] = Count(p \in DOMAIN running') + Count(p \in completed')
  <2>1. open'[p] = open[p] - Count(p \in P)
    <3>1. Count([event |-> StartedEvent, pid |-> p] \in E) = 0
      BY DEF Count
    <3>2. Count([event |-> CompletedEvent, pid |-> p] \in E) = 0
      BY DEF Count
    <3>3. Count([event |-> AbortedEvent, pid |-> p] \in E) = Count(p \in P)
      BY DEF Count
    <3>4. open'[p] = open[p] + 0 - Count(p \in P) - 0
      BY <3>1, <3>2, <3>3 DEF Raise
    <3>5. open[p] \in Int /\ Count(p \in P) \in Int
      BY DEF Core, Observed, Count
    <3> QED BY <3>4, <3>5
  <2>2. open[p] = Count(p \in DOMAIN running) + Count(p \in completed)
    BY DEF Core, Observed, EveryEndAnnouncedOnce
  <2>3. Count(p \in DOMAIN running') = Count(p \in DOMAIN running) - Count(p \in P)
    BY <1>3 DEF Count
  <2>4. completed' = completed
    OBVIOUS
  <2>5. Count(p \in P) \in Int /\ Count(p \in completed) \in Int
        /\ Count(p \in DOMAIN running) \in Int
    BY DEF Count
  <2> QED BY <2>1, <2>2, <2>3, <2>4, <2>5
<1> QED
  BY <1>1, <1>2, <1>4 DEF Observed, EveryEndAnnouncedOnce

(* The events of one kind, told apart.                                     *)
LEMMA EvMember ==
  ASSUME NEW e, NEW f, NEW P, NEW p
  PROVE  [event |-> f, pid |-> p] \in Ev(e, P) <=> f = e /\ p \in P
<1>1. ASSUME [event |-> f, pid |-> p] \in Ev(e, P)
      PROVE  f = e /\ p \in P
  <2>1. PICK q \in P : [event |-> f, pid |-> p] = [event |-> e, pid |-> q]
    BY <1>1 DEF Ev
  <2>2. [event |-> f, pid |-> p].event = [event |-> e, pid |-> q].event
    BY <2>1
  <2>3. [event |-> f, pid |-> p].pid = [event |-> e, pid |-> q].pid
    BY <2>1
  <2> QED BY <2>2, <2>3
<1>2. ASSUME f = e, p \in P
      PROVE  [event |-> f, pid |-> p] \in Ev(e, P)
  BY <1>2 DEF Ev
<1> QED BY <1>1, <1>2

LEMMA EvInEvent ==
  ASSUME NEW P \in SUBSET ProcIds,
         NEW e \in {StartedEvent, CompletedEvent, AbortedEvent, StepFailedEvent}
  PROVE  Ev(e, P) \subseteq Event
BY DEF Ev, Event

LEMMA EventNamesDiffer ==
  /\ StartedEvent # CompletedEvent
  /\ StartedEvent # AbortedEvent
  /\ StartedEvent # StepFailedEvent
  /\ CompletedEvent # AbortedEvent
  /\ CompletedEvent # StepFailedEvent
  /\ AbortedEvent # StepFailedEvent
BY DEF StartedEvent, CompletedEvent, AbortedEvent, StepFailedEvent
(* The two ways in which runs are aborted: by a request, and by a failing  *)
(* step, which is reported as well.                                        *)
LEMMA RequestAborts ==
  ASSUME Core, todo = {}, NEW P \in SUBSET DOMAIN running,
         running' = Without(P), Raise(Ev(AbortedEvent, P)),
         UNCHANGED <<todo, completed>>
  PROVE  TickPhase' /\ Observed'
<1> DEFINE E == Ev(AbortedEvent, P)
<1>1. P \subseteq ProcIds
  BY DEF Core, Usable, IsTable
<1>2. E \subseteq Event
  BY <1>1, EvInEvent
<1>3. ASSUME NEW p \in ProcIds
      PROVE  /\ [event |-> StartedEvent, pid |-> p] \notin E
             /\ [event |-> CompletedEvent, pid |-> p] \notin E
             /\ [event |-> AbortedEvent, pid |-> p] \in E <=> p \in P
  BY EvMember, EventNamesDiffer
<1> HIDE DEF E
<1>4. Raise(E)
  BY DEF E
<1> QED BY <1>2, <1>3, <1>4, AbortCore

LEMMA FailureAborts ==
  ASSUME Core, todo = {}, NEW q \in ProcIds,
         running' = Without({q}),
         Raise(Ev(StepFailedEvent, {q}) \cup Ev(AbortedEvent, DOMAIN running \cap {q})),
         UNCHANGED <<todo, completed>>
  PROVE  TickPhase' /\ Observed'
<1> DEFINE P == DOMAIN running \cap {q}
           E == Ev(StepFailedEvent, {q}) \cup Ev(AbortedEvent, P)
<1>1. P \subseteq ProcIds /\ {q} \subseteq ProcIds
  OBVIOUS
<1>2. E \subseteq Event
  BY <1>1, EvInEvent
<1>3. ASSUME NEW p \in ProcIds
      PROVE  /\ [event |-> StartedEvent, pid |-> p] \notin E
             /\ [event |-> CompletedEvent, pid |-> p] \notin E
             /\ [event |-> AbortedEvent, pid |-> p] \in E <=> p \in P
  BY EvMember, EventNamesDiffer
<1>4. running' = Without(P)
  BY DEF Without
<1> HIDE DEF E
<1>5. Raise(E)
  BY DEF E
<1> QED BY <1>2, <1>3, <1>4, <1>5, AbortCore

(* Raising nothing while no run begins or ends changes no account.         *)
LEMMA NothingRaised ==
  ASSUME Core, Raise({}), UNCHANGED <<procedures, running, todo, completed>>
  PROVE  Core'
<1>1. open' = open
  BY RaiseNothing DEF Core, Observed
<1>2. emitted' = {}
  BY DEF Raise
<1> QED BY <1>1, <1>2 DEF Core, Observed, TickPhase, EveryEndAnnouncedOnce
-----------------------------------------------------------------------------
(* Each of the four requests preserves what the requests can change.       *)
LEMMA LoadCore ==
  ASSUME Core, todo = {}, NEW p \in ProcIds, NEW g \in Programs,
         Load(p, g), UNCHANGED <<todo, completed>>
  PROVE  Core'
<1>1. CASE Storable(p, g)
  <2> DEFINE P == DOMAIN running \cap {p}
  <2>1. procedures' = With(procedures, p, g) /\ Raise(Ev(AbortedEvent, P))
        /\ running' = Without({p})
    BY <1>1 DEF Load
  <2>2. running' = Without(P)
    BY <2>1 DEF Without
  <2>5. TickPhase' /\ Observed'
    BY <2>1, <2>2, RequestAborts
  <2>6. DOMAIN procedures' = DOMAIN procedures \cup {p}
    BY <2>1 DEF With
  <2>7. \A q \in DOMAIN procedures' :
          procedures'[q] = IF q = p THEN g ELSE procedures[q]
    BY <2>1, <2>6 DEF With
  <2>8. Cardinality(DOMAIN procedures') <= MaxProcedures
    <3>1. IsFiniteSet(DOMAIN procedures)
      BY FS_Subset, ObcpAssumption DEF Core, Usable, IsTable
    <3>2. CASE p \in DOMAIN procedures
      BY <3>2, <2>6 DEF Core, Usable
    <3>3. CASE p \notin DOMAIN procedures
      <4>1. Cardinality(DOMAIN procedures) < MaxProcedures
        BY <1>1, <3>3 DEF Storable
      <4>2. Cardinality(DOMAIN procedures') = Cardinality(DOMAIN procedures) + 1
        BY <3>1, <3>3, <2>6, FS_AddElement
      <4>3. Cardinality(DOMAIN procedures) \in Nat
        BY <3>1, FS_CardinalityType
      <4> QED BY <4>1, <4>2, <4>3, ObcpAssumption
    <3> QED BY <3>2, <3>3
  <2>9. IsTable(procedures', Programs)
    <3>1. procedures' \in [DOMAIN procedures \cup {p} -> Programs]
      BY <2>1 DEF With, Core, Usable, IsTable
    <3>2. DOMAIN procedures' \subseteq ProcIds
      BY <2>6 DEF Core, Usable, IsTable
    <3> QED BY <3>1, <3>2, <2>6 DEF IsTable
  <2>10. \A q \in DOMAIN procedures' : Len(Steps[procedures'[q]]) >= 1
    <3>1. Len(Steps[g]) >= 1
      BY <1>1, ObcpAssumption DEF Storable
    <3> QED BY <3>1, <2>6, <2>7 DEF Core, Usable
  <2>11. DOMAIN running' = DOMAIN running \ {p}
         /\ \A q \in DOMAIN running' : running'[q] = running[q]
    BY <2>1 DEF Without
  <2>12. IsTable(running', Run)
    BY <2>1, <2>11 DEF Without, Core, Usable, IsTable
  <2>13. \A q \in DOMAIN running' :
           q \in DOMAIN procedures'
           /\ running'[q].step_index <= Len(Steps[procedures'[q]])
    BY <2>6, <2>7, <2>11 DEF Core, Usable
  <2> QED BY <2>5, <2>8, <2>9, <2>10, <2>12, <2>13 DEF Core, Usable
<1>2. CASE ~Storable(p, g)
  <2>1. UNCHANGED <<procedures, running>> /\ Raise({})
    BY <1>2 DEF Load
  <2> QED BY <2>1, NothingRaised DEF Core
<1> QED BY <1>1, <1>2

LEMMA DeleteCore ==
  ASSUME Core, todo = {}, NEW p \in ProcIds,
         Delete(p), UNCHANGED <<todo, completed>>
  PROVE  Core'
<1> DEFINE P == DOMAIN running \cap {p}
<1>1. running' = Without({p}) /\ Raise(Ev(AbortedEvent, P))
  BY DEF Delete
<1>2. running' = Without(P)
  BY <1>1 DEF Without
<1>3. TickPhase' /\ Observed'
  BY <1>1, <1>2, RequestAborts
<1>4. DOMAIN procedures' = DOMAIN procedures \ {p}
      /\ \A q \in DOMAIN procedures' : procedures'[q] = procedures[q]
  BY DEF Delete
<1>5. IsTable(procedures', Programs)
  BY <1>4 DEF Delete, Core, Usable, IsTable
<1>6. Cardinality(DOMAIN procedures') <= MaxProcedures
  <2>1. IsFiniteSet(DOMAIN procedures)
    BY FS_Subset, ObcpAssumption DEF Core, Usable, IsTable
  <2>2. Cardinality(DOMAIN procedures') <= Cardinality(DOMAIN procedures)
        /\ IsFiniteSet(DOMAIN procedures')
    BY <2>1, <1>4, FS_Subset
  <2>3. Cardinality(DOMAIN procedures) \in Nat
        /\ Cardinality(DOMAIN procedures') \in Nat
    BY <2>1, <2>2, FS_CardinalityType
  <2> QED BY <2>2, <2>3, ObcpAssumption DEF Core, Usable
<1>7. DOMAIN running' = DOMAIN running \ {p}
      /\ \A q \in DOMAIN running' : running'[q] = running[q]
  BY <1>1 DEF Without
<1>8. IsTable(running', Run)
  BY <1>1, <1>7 DEF Without, Core, Usable, IsTable
<1> QED BY <1>3, <1>4, <1>5, <1>6, <1>7, <1>8 DEF Core, Usable

(* A run that begins is added to the account.                              *)
LEMMA StartCore ==
  ASSUME Core, todo = {}, NEW p \in ProcIds,
         Start(p), UNCHANGED <<todo, completed>>
  PROVE  Core'
<1>1. CASE Startable(p)
  <2> DEFINE E == Ev(StartedEvent, {p})
  <2>1. running' = With(running, p, NewRun(p)) /\ procedures' = procedures
    BY <1>1 DEF Start
  <2>2. p \in DOMAIN procedures /\ p \notin DOMAIN running
    BY <1>1 DEF Startable
  <2>3. DOMAIN running' = DOMAIN running \cup {p}
        /\ \A q \in DOMAIN running' :
             running'[q] = IF q = p THEN NewRun(p) ELSE running[q]
    BY <2>1 DEF With
  <2>4. NewRun(p) \in Run
    <3>1. Len(Steps[procedures[p]]) >= 1 /\ procedures[p] \in Programs
      BY <2>2 DEF Core, Usable, IsTable
    <3>2. Steps[procedures[p]][1] \in Step
      BY <3>1, ObcpAssumption
    <3> QED BY <3>2 DEF NewRun, Run, Step
  <2>5. IsTable(running', Run)
    <3>1. DOMAIN running' \subseteq ProcIds
      BY <2>3 DEF Core, Usable, IsTable
    <3>2. running' \in [DOMAIN running \cup {p} -> Run]
      BY <2>1, <2>4 DEF With, Core, Usable, IsTable
    <3> QED BY <3>1, <3>2, <2>3 DEF IsTable
  <2>6. \A q \in DOMAIN running' :
          q \in DOMAIN procedures'
          /\ running'[q].step_index <= Len(Steps[procedures'[q]])
    BY <2>1, <2>2, <2>3 DEF NewRun, Core, Usable
  <2>7. TickPhase'
    BY DEF TickPhase
  <2>8. E \subseteq Event
    BY EvInEvent
  <2>9. ASSUME NEW q \in ProcIds
        PROVE  /\ [event |-> AbortedEvent, pid |-> q] \notin E
               /\ [event |-> CompletedEvent, pid |-> q] \notin E
               /\ [event |-> StartedEvent, pid |-> q] \in E <=> q = p
    BY EvMember, EventNamesDiffer
  <2> HIDE DEF E
  <2>10. Raise(E)
    BY <1>1 DEF Start, E
  <2>11. emitted' \subseteq Event /\ open' \in [ProcIds -> Int]
    BY <2>8, <2>10, RaiseType DEF Core, Observed
  <2>12. ASSUME NEW q \in ProcIds
         PROVE  open'[q] = Count(q \in DOMAIN running') + Count(q \in completed')
    <3>1. Count([event |-> AbortedEvent, pid |-> q] \in E) = 0
          /\ Count([event |-> CompletedEvent, pid |-> q] \in E) = 0
          /\ Count([event |-> StartedEvent, pid |-> q] \in E) = Count(q = p)
      BY <2>9 DEF Count
    <3>2. open'[q] = open[q] + Count(q = p) - 0 - 0
      BY <3>1, <2>10 DEF Raise
    <3>3. open[q] = Count(q \in DOMAIN running) + Count(q \in completed)
      BY DEF Core, Observed, EveryEndAnnouncedOnce
    <3>4. Count(q \in DOMAIN running') = Count(q \in DOMAIN running) + Count(q = p)
      BY <2>2, <2>3 DEF Count
    <3>5. Count(q = p) \in Int /\ Count(q \in completed) \in Int
          /\ Count(q \in DOMAIN running) \in Int /\ completed' = completed
      BY DEF Count
    <3> QED BY <3>2, <3>3, <3>4, <3>5
  <2> QED BY <2>1, <2>5, <2>6, <2>7, <2>11, <2>12
          DEF Core, Usable, Observed, EveryEndAnnouncedOnce
<1>2. CASE ~Startable(p)
  <2>1. UNCHANGED <<procedures, running>> /\ Raise({})
    BY <1>2 DEF Start
  <2> QED BY <2>1, NothingRaised DEF Core
<1> QED BY <1>1, <1>2

LEMMA StopCore ==
  ASSUME Core, todo = {}, NEW p \in ProcIds,
         Stop(p), UNCHANGED <<todo, completed>>
  PROVE  Core'
<1> DEFINE P == Stopped(p)
<1>1. P \subseteq DOMAIN running
  BY DEF Stopped
<1>2. running' = Without(P) /\ Raise(Ev(AbortedEvent, P)) /\ procedures' = procedures
  BY DEF Stop
<1>3. TickPhase' /\ Observed'
  BY <1>1, <1>2, RequestAborts
<1>4. Usable(procedures', running')
  BY <1>2, WithoutUsable DEF Core
<1> QED BY <1>3, <1>4 DEF Core

LEMMA HandleCore ==
  ASSUME Core, todo = {}, NEW tc \in Tc,
         Handle(tc), UNCHANGED <<todo, completed>>
  PROVE  Core'
<1>1. tc.pid \in ProcIds /\ tc.prog \in Programs
  BY DEF Tc
<1>2. CASE Load(tc.pid, tc.prog)
  BY <1>1, <1>2, LoadCore
<1>3. CASE Delete(tc.pid)
  BY <1>1, <1>3, DeleteCore
<1>4. CASE Start(tc.pid)
  BY <1>1, <1>4, StartCore
<1>5. CASE Stop(tc.pid)
  BY <1>1, <1>5, StopCore
<1> QED BY <1>2, <1>3, <1>4, <1>5 DEF Handle
-----------------------------------------------------------------------------
(* The steps of tick() and of the breakpoints.                             *)
LEMMA CollectedEntry ==
  ASSUME Inv, NEW p \in DOMAIN running
  PROVE  /\ p \in ProcIds /\ procedures[p] \in Programs
         /\ running[p] \in Run
         /\ running[p].step_index \in 1 .. Len(StepsOf(p))
         /\ StepsOf(p) \in Seq(Step)
         /\ Entry(p, running[p].step_index)
              \in [pid : ProcIds, index : Nat \ {0}, tc : Tc]
<1>1. p \in ProcIds /\ running[p] \in Run /\ p \in DOMAIN procedures
  BY DEF Inv, Core, Usable, IsTable
<1>2. procedures[p] \in Programs
  BY <1>1 DEF Inv, Core, Usable, IsTable
<1>3. StepsOf(p) \in Seq(Step)
  BY <1>2, ObcpAssumption DEF StepsOf
<1>4. running[p].step_index <= Len(StepsOf(p))
  BY DEF Inv, Core, Usable, StepsOf
<1>5. running[p].step_index \in 1 .. Len(StepsOf(p))
  BY <1>1, <1>3, <1>4 DEF Run
<1>6. StepsOf(p)[running[p].step_index] \in Step
  BY <1>3, <1>5
<1>7. Entry(p, running[p].step_index) \in [pid : ProcIds, index : Nat \ {0}, tc : Tc]
  BY <1>1, <1>5, <1>6 DEF Entry, Step
<1> QED BY <1>1, <1>2, <1>3, <1>5, <1>7

LEMMA TickInv == ASSUME Inv, NEW dt \in TickSizes, Tick(dt) PROVE Inv'
<1>1. DOMAIN running' = DOMAIN running
      /\ \A p \in DOMAIN running :
           running'[p] = [step_index     |-> running[p].step_index,
                          wait_remaining |-> running[p].wait_remaining - dt,
                          age            |-> running[p].age + dt]
  BY DEF Tick
<1>2. dt \in Nat
  BY ObcpAssumption
<1>3. \A p \in DOMAIN running :
        running'[p] \in Run /\ running'[p].step_index = running[p].step_index
  <2> SUFFICES ASSUME NEW p \in DOMAIN running
              PROVE  running'[p] \in Run
                     /\ running'[p].step_index = running[p].step_index
    OBVIOUS
  <2>1. running[p] \in Run
    BY DEF Inv, Core, Usable, IsTable
  <2>2. running[p].wait_remaining - dt \in Int /\ running[p].age + dt \in Nat
    BY <2>1, <1>2 DEF Run
  <2> QED BY <1>1, <1>2, <2>1, <2>2 DEF Run
<1>4. running' \in [DOMAIN running -> Run]
  <2>1. running' = [p \in DOMAIN running |->
                     [step_index     |-> running[p].step_index,
                      wait_remaining |-> running[p].wait_remaining - dt,
                      age            |-> running[p].age + dt]]
    BY DEF Tick
  <2> QED BY <2>1, <1>1, <1>3
<1>5. Usable(procedures', running')
  BY <1>1, <1>3, <1>4 DEF Tick, Inv, Core, Usable, IsTable
<1>6. TickPhase'
  BY <1>1 DEF Tick, Idle, TickPhase
<1>7. open' = open
  BY RaiseNothing DEF Tick, Inv, Core, Observed
<1>8. Observed'
  BY <1>1, <1>7 DEF Tick, Raise, Inv, Core, Observed, EveryEndAnnouncedOnce
<1>9. Rest'
  BY DEF Tick, Inv, Rest, Core, Usable, IsTable
<1> QED BY <1>5, <1>6, <1>8, <1>9 DEF Inv, Core

LEMMA NothingDueInv ==
  ASSUME Inv, NEW p \in ProcIds, NothingDue(p) PROVE Inv'
<1>1. open' = open /\ emitted' = {}
  BY RaiseNothing DEF NothingDue, Inv, Core, Observed
<1>2. TickPhase' /\ Observed'
  BY <1>1 DEF NothingDue, Inv, Core, Observed, TickPhase, EveryEndAnnouncedOnce
<1>3. Usable(procedures', running') /\ Rest'
  BY DEF NothingDue, Inv, Rest, Core
<1> QED BY <1>2, <1>3 DEF Inv, Core

LEMMA CollectStepInv ==
  ASSUME Inv, NEW p \in ProcIds, CollectStep(p) PROVE Inv'
<1>1. p \in DOMAIN running
  BY DEF CollectStep, Inv, Core, TickPhase
<1> DEFINE i == running[p].step_index
<1>2. i \in 1 .. Len(StepsOf(p)) /\ i < Len(StepsOf(p)) /\ StepsOf(p) \in Seq(Step)
      /\ running[p] \in Run
  BY <1>1, CollectedEntry DEF CollectStep
<1>3. i + 1 \in 1 .. Len(StepsOf(p)) /\ StepsOf(p)[i + 1] \in Step
  BY <1>2
<1>4. Advanced(p) \in Run /\ Advanced(p).step_index = i + 1
  <2>1. i + 1 \in Nat \ {0}
        /\ running[p].wait_remaining + StepsOf(p)[i + 1].delay_s \in Int
    BY <1>2, <1>3 DEF Run, Step
  <2> QED BY <2>1, <1>2 DEF Advanced, Run
<1>5. running' = [running EXCEPT ![p] = Advanced(p)]
  BY DEF CollectStep
<1>6. DOMAIN running' = DOMAIN running
      /\ \A q \in DOMAIN running :
           running'[q] = IF q = p THEN Advanced(p) ELSE running[q]
  BY <1>1, <1>5 DEF Inv, Core, Usable, IsTable
<1>7. running' \in [DOMAIN running -> Run]
  BY <1>4, <1>5 DEF Inv, Core, Usable, IsTable
<1>8. i + 1 <= Len(Steps[procedures[p]])
  BY <1>3 DEF StepsOf
<1>9. Usable(procedures', running')
  BY <1>4, <1>6, <1>7, <1>8 DEF CollectStep, Inv, Core, Usable, IsTable
<1>10. open' = open /\ emitted' = {}
  BY RaiseNothing DEF CollectStep, Inv, Core, Observed
<1>11. TickPhase' /\ Observed'
  BY <1>6, <1>10
     DEF CollectStep, Inv, Core, Observed, TickPhase, EveryEndAnnouncedOnce
<1>12. due' \in Seq([pid : ProcIds, index : Nat \ {0}, tc : Tc])
  BY <1>1, CollectedEntry DEF CollectStep, Inv, Rest
<1>13. Rest'
  BY <1>12 DEF CollectStep, Inv, Rest
<1> QED BY <1>9, <1>11, <1>13 DEF Inv, Core

LEMMA CollectLastStepInv ==
  ASSUME Inv, NEW p \in ProcIds, CollectLastStep(p) PROVE Inv'
<1>1. p \in DOMAIN running /\ p \notin completed
  BY DEF CollectLastStep, Inv, Core, TickPhase
<1>2. running' = Without({p}) /\ completed' = completed \cup {p}
      /\ todo' = todo \ {p} /\ procedures' = procedures
  BY DEF CollectLastStep
<1>3. Usable(procedures', running')
  BY <1>2, WithoutUsable DEF Inv, Core
<1>4. DOMAIN running' = DOMAIN running \ {p}
  BY <1>2 DEF Without
<1>5. TickPhase'
  BY <1>2, <1>4 DEF Inv, Core, TickPhase
<1>6. open' = open /\ emitted' = {}
  BY RaiseNothing DEF CollectLastStep, Inv, Core, Observed
<1>7. ASSUME NEW q \in ProcIds
      PROVE  open'[q] = Count(q \in DOMAIN running') + Count(q \in completed')
  <2>1. open[q] = Count(q \in DOMAIN running) + Count(q \in completed)
    BY DEF Inv, Core, Observed, EveryEndAnnouncedOnce
  <2>2. CASE q = p
    BY <2>1, <2>2, <1>1, <1>2, <1>4, <1>6 DEF Count
  <2>3. CASE q # p
    <3>1. (q \in DOMAIN running' <=> q \in DOMAIN running)
          /\ (q \in completed' <=> q \in completed)
      BY <2>3, <1>2, <1>4
    <3>2. Count(q \in DOMAIN running') = Count(q \in DOMAIN running)
          /\ Count(q \in completed') = Count(q \in completed)
      BY <3>1 DEF Count
    <3> QED BY <3>2, <2>1, <1>6
  <2> QED BY <2>2, <2>3
<1>8. Observed'
  BY <1>6, <1>7 DEF Inv, Core, Observed, EveryEndAnnouncedOnce
<1>9. due' \in Seq([pid : ProcIds, index : Nat \ {0}, tc : Tc])
  BY <1>1, CollectedEntry DEF CollectLastStep, Inv, Rest
<1>10. Rest'
  BY <1>9 DEF CollectLastStep, Inv, Rest
<1> QED BY <1>3, <1>5, <1>8, <1>10 DEF Inv, Core

LEMMA ExecuteInv == ASSUME Inv, Execute PROVE Inv'
<1> DEFINE D == [pid : ProcIds, index : Nat \ {0}, tc : Tc]
<1>1. due \in Seq(D) /\ due # <<>> /\ todo = {}
  BY DEF Execute, RejectStep, DispatchPlain, DispatchRaises, DispatchRequest,
         GateRequest, Executing, Inv, Rest
<1> HIDE DEF D
<1>2. Head(due) \in D /\ Tail(due) \in Seq(D)
  BY <1>1
<1> USE DEF D
<1>3. Head(due).pid \in ProcIds /\ Head(due).tc \in Tc
  BY <1>2
<1>4. CASE RejectStep \/ DispatchRaises
  <2>1. FailStep(Head(due).pid) /\ due' = Tail(due)
        /\ UNCHANGED <<todo, completed, saved, restores>>
    BY <1>4 DEF RejectStep, DispatchRaises
  <2>2. TickPhase' /\ Observed'
    BY <2>1, <1>1, <1>3, FailureAborts DEF FailStep, Inv
  <2>3. Usable(procedures', running')
    BY <2>1, WithoutUsable DEF FailStep, Inv, Core
  <2>4. Rest'
    BY <2>1, <1>2, <1>3 DEF FailStep, Inv, Rest
  <2> QED BY <2>2, <2>3, <2>4 DEF Inv, Core
<1>5. CASE GateRequest \/ \E o \in {"executed", "gated", "refused"} : DispatchPlain(o)
  <2>1. /\ Raise({}) /\ due' = Tail(due)
        /\ outcome' \in {"executed", "gated", "refused"}
        /\ UNCHANGED <<procedures, running, todo, completed, saved, failed, restores>>
    BY <1>5 DEF GateRequest, DispatchPlain
  <2>2. Core'
    BY <2>1, NothingRaised DEF Inv
  <2>3. Rest'
    BY <2>1, <1>2 DEF Inv, Rest
  <2> QED BY <2>2, <2>3 DEF Inv
<1>6. CASE DispatchRequest
  <2>1. Core'
    BY <1>1, <1>3, <1>6, HandleCore DEF DispatchRequest, Inv
  <2>2. Rest'
    BY <1>2, <1>6 DEF DispatchRequest, Inv, Rest
  <2> QED BY <2>1, <2>2 DEF Inv
<1> QED BY <1>4, <1>5, <1>6 DEF Execute

LEMMA AnnounceInv ==
  ASSUME Inv, NEW p \in ProcIds, AnnounceCompleted(p) PROVE Inv'
<1> DEFINE E == Ev(CompletedEvent, {p})
<1>1. E \subseteq Event
  BY EvInEvent
<1>2. ASSUME NEW q \in ProcIds
      PROVE  /\ [event |-> AbortedEvent, pid |-> q] \notin E
             /\ [event |-> StartedEvent, pid |-> q] \notin E
             /\ [event |-> CompletedEvent, pid |-> q] \in E <=> q = p
  BY EvMember, EventNamesDiffer
<1> HIDE DEF E
<1>3. Raise(E) /\ completed' = completed \ {p} /\ p \in completed
  BY DEF AnnounceCompleted, E
<1>4. emitted' \subseteq Event /\ open' \in [ProcIds -> Int]
  BY <1>1, <1>3, RaiseType DEF Inv, Core, Observed
<1>5. UNCHANGED <<procedures, running, todo>>
  BY DEF AnnounceCompleted
<1>6. ASSUME NEW q \in ProcIds
      PROVE  open'[q] = Count(q \in DOMAIN running') + Count(q \in completed')
  <2>1. Count([event |-> AbortedEvent, pid |-> q] \in E) = 0
        /\ Count([event |-> StartedEvent, pid |-> q] \in E) = 0
        /\ Count([event |-> CompletedEvent, pid |-> q] \in E) = Count(q = p)
    BY <1>2 DEF Count
  <2>2. open'[q] = open[q] + 0 - 0 - Count(q = p)
    BY <2>1, <1>3 DEF Raise
  <2>3. open[q] = Count(q \in DOMAIN running) + Count(q \in completed)
    BY DEF Inv, Core, Observed, EveryEndAnnouncedOnce
  <2>4. Count(q \in completed') = Count(q \in completed) - Count(q = p)
    BY <1>3 DEF Count
  <2>5. Count(q = p) \in Int /\ Count(q \in completed) \in Int
        /\ Count(q \in DOMAIN running) \in Int /\ running' = running
    BY <1>5 DEF Count
  <2> QED BY <2>2, <2>3, <2>4, <2>5
<1>7. Observed'
  BY <1>4, <1>6 DEF Observed, EveryEndAnnouncedOnce
<1>8. TickPhase' /\ Usable(procedures', running')
  BY <1>3, <1>5 DEF Inv, Core, TickPhase
<1>9. Rest'
  BY DEF AnnounceCompleted, Inv, Rest
<1> QED BY <1>7, <1>8, <1>9 DEF Inv, Core

LEMMA SaveBreakpointInv == ASSUME Inv, SaveBreakpoint PROVE Inv'
<1>1. saved'.procedures = procedures /\ saved'.running = running
  BY DEF SaveBreakpoint
<1>2. UNCHANGED <<procedures, running, todo, due, completed, failed, open, restores>>
      /\ emitted' = {} /\ outcome' = "none"
  BY DEF SaveBreakpoint
<1>3. Core'
  BY <1>2 DEF Inv, Core, Observed, TickPhase, EveryEndAnnouncedOnce
<1>4. Rest'
  BY <1>1, <1>2 DEF Inv, Rest, Core
<1> QED BY <1>3, <1>4 DEF Inv

LEMMA LoadBreakpointInv == ASSUME Inv, LoadBreakpoint PROVE Inv'
<1>1. procedures' = saved.procedures /\ running' = Restored
  BY DEF LoadBreakpoint
<1>2. Usable(procedures', running')
  BY <1>1 DEF Restored, Inv, Rest, Usable, IsTable
<1>3. todo = {} /\ completed = {} /\ UNCHANGED <<todo, due, completed, saved, failed>>
      /\ emitted' = {} /\ outcome' = "none" /\ restores' = restores + 1
  BY DEF LoadBreakpoint, Idle
<1>4. TickPhase'
  BY <1>3 DEF TickPhase
<1>5. open' = [p \in ProcIds |-> Count(p \in DOMAIN Restored)]
  BY DEF LoadBreakpoint
<1>6. Observed'
  BY <1>1, <1>3, <1>5 DEF Observed, EveryEndAnnouncedOnce, Count
<1>7. Rest'
  BY <1>3 DEF Inv, Rest
<1> QED BY <1>2, <1>4, <1>6, <1>7 DEF Inv, Core
-----------------------------------------------------------------------------
(* Inv holds initially and every step preserves it.                        *)
LEMMA InitInv == Init => Inv
<1> SUFFICES ASSUME Init PROVE Inv
  OBVIOUS
<1>1. Cardinality({}) = 0
  BY FS_EmptySet
<1>2. Usable(Empty, Empty)
  BY <1>1, ObcpAssumption DEF Usable, IsTable, Empty
<1>3. Core
  BY <1>2 DEF Init, Core, TickPhase, Observed, EveryEndAnnouncedOnce, Count, Empty
<1>4. Rest
  BY <1>2 DEF Init, Rest, NoBreakpoint
<1> QED BY <1>3, <1>4 DEF Inv

LEMMA NextInv == Inv /\ [Next]_vars => Inv'
<1> SUFFICES ASSUME Inv, [Next]_vars PROVE Inv'
  OBVIOUS
<1>1. CASE \E tc \in Tc : Command(tc)
  <2>1. PICK tc \in Tc : Command(tc)
    BY <1>1
  <2>2. Core'
    BY <2>1, HandleCore DEF Command, Idle, Inv
  <2>3. Rest'
    BY <2>1 DEF Command, Inv, Rest
  <2> QED BY <2>2, <2>3 DEF Inv
<1>2. CASE \E dt \in TickSizes : Tick(dt)
  BY <1>2, TickInv
<1>3. CASE Collect
  BY <1>3, NothingDueInv, CollectStepInv, CollectLastStepInv DEF Collect
<1>4. CASE Execute
  BY <1>4, ExecuteInv
<1>5. CASE Announce
  BY <1>5, AnnounceInv DEF Announce
<1>6. CASE SaveBreakpoint
  BY <1>6, SaveBreakpointInv
<1>7. CASE LoadBreakpoint
  BY <1>7, LoadBreakpointInv
<1>8. CASE UNCHANGED vars
  BY <1>8 DEF vars, Inv, Core, Rest, TickPhase, Observed, EveryEndAnnouncedOnce
<1> QED BY <1>1, <1>2, <1>3, <1>4, <1>5, <1>6, <1>7, <1>8 DEF Next

THEOREM InvAlways == Spec => []Inv
BY InitInv, NextInv, PTL DEF Spec

(* The manager's state always has its type.                                *)
THEOREM TypeCorrect == Spec => []TypeOK
<1>1. Inv => TypeOK
  BY DEF Inv, Core, Rest, Usable, Observed, TypeOK
<1> QED BY <1>1, InvAlways, PTL

(* tick() never indexes past a step list and never finds a running         *)
(* procedure missing from the store.                                       *)
THEOREM RunsAlwaysLoaded == Spec => []RunsAreLoaded
<1>1. Inv => RunsAreLoaded
  BY DEF Inv, Core, Usable, RunsAreLoaded, StepsOf
<1> QED BY <1>1, InvAlways, PTL

(* The store never holds more than MAX_PROCEDURES procedures.              *)
THEOREM StoreAlwaysBounded == Spec => []StoreBounded
<1>1. Inv => StoreBounded
  BY DEF Inv, Core, Usable, StoreBounded
<1> QED BY <1>1, InvAlways, PTL

(* The end of every run is announced exactly once.                         *)
THEOREM EndsAnnouncedOnce == Spec => []EveryEndAnnouncedOnce
<1>1. Inv => EveryEndAnnouncedOnce
  BY DEF Inv, Core, Observed
<1> QED BY <1>1, InvAlways, PTL
-----------------------------------------------------------------------------
(* t holds the due times of the first i steps of program g.                *)
Schedule(g, i, t) ==
  t = [k \in 0 .. i |-> IF k = 0 THEN 0 ELSE t[k - 1] + Steps[g][k].delay_s]

Recurrence(g, i, t) ==
  /\ DOMAIN t = 0 .. i /\ t[0] = 0
  /\ \A k \in 1 .. i : t[k] = t[k - 1] + Steps[g][k].delay_s

LEMMA ScheduleSteps ==
  ASSUME NEW g, NEW i \in Nat, NEW t, Schedule(g, i, t)
  PROVE  Recurrence(g, i, t)
BY DEF Schedule, Recurrence

LEMMA DelayType ==
  ASSUME NEW g \in Programs
  PROVE  /\ Len(Steps[g]) \in Nat
         /\ \A k \in 1 .. Len(Steps[g]) : Steps[g][k].delay_s \in Int
<1>1. Steps[g] \in Seq(Step)
  BY ObcpAssumption
<1>2. \A k \in 1 .. Len(Steps[g]) : Steps[g][k] \in Step
  BY <1>1
<1> QED BY <1>1, <1>2 DEF Step

(* Due times exist, and are integers.                                      *)
LEMMA ScheduleExists ==
  ASSUME NEW g \in Programs
  PROVE  \A i \in 0 .. Len(Steps[g]) : \E t \in [0 .. i -> Int] : Schedule(g, i, t)
<1> DEFINE T == {i \in Nat : i <= Len(Steps[g])
                               => \E t \in [0 .. i -> Int] : Schedule(g, i, t)}
<1>1. 0 \in T
  <2> DEFINE t == [k \in 0 .. 0 |-> 0]
  <2>1. t \in [0 .. 0 -> Int] /\ Schedule(g, 0, t)
    BY DEF Schedule
  <2> QED BY <2>1
<1>2. ASSUME NEW n \in Nat, n \in T PROVE n + 1 \in T
  <2> SUFFICES ASSUME n + 1 <= Len(Steps[g])
              PROVE  \E t \in [0 .. n + 1 -> Int] : Schedule(g, n + 1, t)
    OBVIOUS
  <2>1. PICK t \in [0 .. n -> Int] : Schedule(g, n, t)
    BY <1>2, DelayType
  <2> DEFINE d == Steps[g][n + 1].delay_s
             u == [k \in 0 .. n + 1 |-> IF k = n + 1 THEN t[n] + d ELSE t[k]]
  <2>2. d \in Int /\ t[n] \in Int
    BY DelayType
  <2> HIDE DEF d
  <2>3. u \in [0 .. n + 1 -> Int]
    BY <2>2
  <2>4. DOMAIN u = 0 .. n + 1 /\ \A k \in 0 .. n : u[k] = t[k]
    OBVIOUS
  <2>5. u[n + 1] = t[n] + d
    OBVIOUS
  <2> HIDE DEF u
  <2>6. Recurrence(g, n, t)
    BY <2>1, ScheduleSteps
  <2>7. ASSUME NEW k \in 0 .. n + 1
        PROVE  u[k] = IF k = 0 THEN 0 ELSE u[k - 1] + Steps[g][k].delay_s
    <3>1. CASE k = 0
      BY <2>4, <2>6, <3>1 DEF Recurrence
    <3>2. CASE k \in 1 .. n
      BY <2>4, <2>6, <3>2 DEF Recurrence
    <3>3. CASE k = n + 1
      BY <2>4, <2>5, <3>3 DEF d
    <3> QED BY <3>1, <3>2, <3>3
  <2>8. Schedule(g, n + 1, u)
    BY <2>3, <2>7 DEF Schedule
  <2> QED BY <2>3, <2>8
<1> HIDE DEF T
<1>3. Nat \subseteq T
  BY <1>1, <1>2, Induction
<1> QED BY <1>3, DelayType DEF T

(* The due times of more steps are those of fewer, and more.               *)
LEMMA SchedulesAgree ==
  ASSUME NEW g, NEW i \in Nat, NEW j \in Nat, i <= j,
         NEW t, Schedule(g, i, t), NEW u, Schedule(g, j, u)
  PROVE  \A k \in 0 .. i : t[k] = u[k]
<1> DEFINE T == {k \in Nat : k <= i => t[k] = u[k]}
<1>0. Recurrence(g, i, t) /\ Recurrence(g, j, u)
  BY ScheduleSteps
<1>1. 0 \in T
  BY <1>0 DEF Recurrence
<1>2. ASSUME NEW n \in Nat, n \in T PROVE n + 1 \in T
  <2> SUFFICES ASSUME n + 1 <= i PROVE t[n + 1] = u[n + 1]
    OBVIOUS
  <2>1. t[n] = u[n]
    BY <1>2
  <2>2. t[n + 1] = t[n] + Steps[g][n + 1].delay_s
    BY <1>0 DEF Recurrence
  <2>3. u[n + 1] = u[n] + Steps[g][n + 1].delay_s
    BY <1>0 DEF Recurrence
  <2> QED BY <2>1, <2>2, <2>3
<1> HIDE DEF T
<1>3. Nat \subseteq T
  BY <1>1, <1>2, Induction
<1> QED BY <1>3 DEF T

LEMMA DueTimeIs ==
  ASSUME NEW g \in Programs, NEW i \in 0 .. Len(Steps[g])
  PROVE  \E t \in [0 .. i -> Int] : Schedule(g, i, t) /\ DueTime(g, i) = t[i]
<1>1. i \in Nat
  BY DelayType
<1>2. PICK u \in [0 .. i -> Int] : Schedule(g, i, u)
  BY ScheduleExists
<1> DEFINE t == CHOOSE v : Schedule(g, i, v)
<1>3. Schedule(g, i, t)
  BY <1>2, Zenon
<1>4. DueTime(g, i) = t[i]
  BY DEF DueTime, Schedule
<1> HIDE DEF t
<1>5. t = u
  <2>1. \A k \in 0 .. i : t[k] = u[k]
    BY <1>1, <1>2, <1>3, SchedulesAgree
  <2>2. t = [k \in 0 .. i |-> t[k]]
    BY <1>1, <1>3 DEF Schedule
  <2> QED BY <2>1, <2>2
<1> QED BY <1>2, <1>4, <1>5

(* A step is due its delay after the step before it, the first one its     *)
(* delay after the start.                                                  *)
LEMMA DueTimeStep ==
  ASSUME NEW g \in Programs
  PROVE  /\ DueTime(g, 0) = 0
         /\ \A i \in 0 .. Len(Steps[g]) : DueTime(g, i) \in Int
         /\ \A i \in 1 .. Len(Steps[g]) :
              DueTime(g, i) = DueTime(g, i - 1) + Steps[g][i].delay_s
<1>1. ASSUME NEW i \in 0 .. Len(Steps[g]) PROVE DueTime(g, i) \in Int
  <2>1. PICK t \in [0 .. i -> Int] : DueTime(g, i) = t[i]
    BY DueTimeIs
  <2>2. i \in 0 .. i
    BY DelayType
  <2> QED BY <2>1, <2>2
<1>2. DueTime(g, 0) = 0
  <2>1. 0 \in 0 .. Len(Steps[g]) /\ 0 \in Nat
    BY DelayType
  <2>2. PICK t : Schedule(g, 0, t) /\ DueTime(g, 0) = t[0]
    BY <2>1, DueTimeIs
  <2> QED BY <2>1, <2>2, ScheduleSteps DEF Recurrence
<1>3. ASSUME NEW i \in 1 .. Len(Steps[g])
      PROVE  DueTime(g, i) = DueTime(g, i - 1) + Steps[g][i].delay_s
  <2>1. /\ i \in 0 .. Len(Steps[g]) /\ i - 1 \in 0 .. Len(Steps[g])
        /\ i \in Nat /\ i - 1 \in Nat /\ i - 1 <= i
    BY DelayType
  <2>2. PICK t : Schedule(g, i, t) /\ DueTime(g, i) = t[i]
    BY <2>1, DueTimeIs
  <2>3. PICK u : Schedule(g, i - 1, u) /\ DueTime(g, i - 1) = u[i - 1]
    BY <2>1, DueTimeIs
  <2>4. u[i - 1] = t[i - 1]
    BY <2>1, <2>2, <2>3, SchedulesAgree
  <2>5. t[i] = t[i - 1] + Steps[g][i].delay_s
    <3>1. Recurrence(g, i, t)
      BY <2>1, <2>2, ScheduleSteps
    <3> QED BY <2>1, <3>1 DEF Recurrence
  <2> QED BY <2>2, <2>3, <2>4, <2>5
<1> QED BY <1>1, <1>2, <1>3
-----------------------------------------------------------------------------
(* A run waits for what is left until its next step is due, and the step   *)
(* before that was not taken early.                                        *)
Timely(procs, runs) ==
  \A p \in DOMAIN runs :
    /\ runs[p].wait_remaining = DueTime(procs[p], runs[p].step_index) - runs[p].age
    /\ runs[p].step_index > 1
         => runs[p].age >= DueTime(procs[p], runs[p].step_index - 1)

(* Of the runs tick() has looked at, those that were ticked still wait.    *)
Waiting(runs, unseen) ==
  \A p \in DOMAIN runs \ unseen : runs[p].age > 0 => runs[p].wait_remaining > 0

OnTime ==
  /\ Timely(procedures, running) /\ Waiting(running, todo)
  /\ Timely(saved.procedures, saved.running) /\ Waiting(saved.running, {})

(* Runs that are taken over as they are stay on time.                      *)
LEMMA StillOnTime ==
  ASSUME NEW procs, NEW runs, NEW unseen, NEW procs1, NEW runs1, NEW unseen1,
         Timely(procs, runs), Waiting(runs, unseen),
         \A p \in DOMAIN runs1 :
           /\ p \in DOMAIN runs /\ runs1[p] = runs[p] /\ procs1[p] = procs[p]
           /\ p \in unseen => p \in unseen1
  PROVE  Timely(procs1, runs1) /\ Waiting(runs1, unseen1)
BY DEF Timely, Waiting

(* A step of program g is due at an integer time.                          *)
LEMMA RunOnTime ==
  ASSUME Inv, NEW p \in DOMAIN running
  PROVE  /\ running[p] \in Run /\ procedures[p] \in Programs
         /\ running[p].step_index \in 1 .. Len(Steps[procedures[p]])
         /\ DueTime(procedures[p], running[p].step_index) \in Int
         /\ DueTime(procedures[p], running[p].step_index - 1) \in Int
<1>1. /\ running[p] \in Run /\ procedures[p] \in Programs
      /\ running[p].step_index \in 1 .. Len(Steps[procedures[p]])
  BY CollectedEntry DEF StepsOf
<1>2. Len(Steps[procedures[p]]) \in Nat
  BY <1>1, DelayType
<1>3. /\ running[p].step_index \in 0 .. Len(Steps[procedures[p]])
      /\ running[p].step_index - 1 \in 0 .. Len(Steps[procedures[p]])
  BY <1>1, <1>2
<1> QED BY <1>1, <1>3, DueTimeStep

(* A request keeps the runs it does not abort; a run it starts waits for   *)
(* its first step.                                                         *)
LEMMA HandleOnTime ==
  ASSUME Inv, OnTime, todo = {}, NEW tc \in Tc, Handle(tc), todo' = todo
  PROVE  Timely(procedures', running') /\ Waiting(running', todo')
<1>1. ASSUME \A p \in DOMAIN running' :
               /\ p \in DOMAIN running /\ running'[p] = running[p]
               /\ procedures'[p] = procedures[p]
      PROVE  Timely(procedures', running') /\ Waiting(running', todo')
  BY <1>1, StillOnTime DEF OnTime
<1>2. \A p \in DOMAIN running : p \in DOMAIN procedures
  BY DEF Inv, Core, Usable
<1>3. CASE Load(tc.pid, tc.prog)
  BY <1>1, <1>2, <1>3 DEF Load, With, Without
<1>4. CASE Delete(tc.pid)
  BY <1>1, <1>2, <1>4 DEF Delete, Without
<1>5. CASE Stop(tc.pid)
  BY <1>1, <1>5 DEF Stop, Without
<1>6. CASE Start(tc.pid)
  <2> DEFINE q == tc.pid
  <2>1. CASE ~Startable(q)
    BY <1>1, <1>6, <2>1 DEF Start
  <2>2. CASE Startable(q)
    <3>1. /\ procedures' = procedures /\ q \in DOMAIN procedures
          /\ DOMAIN running' = DOMAIN running \cup {q}
          /\ \A p \in DOMAIN running' :
               running'[p] = IF p = q THEN NewRun(q) ELSE running[p]
      BY <1>6, <2>2 DEF Start, Startable, With
    <3>2. /\ NewRun(q).step_index = 1 /\ NewRun(q).age = 0
          /\ NewRun(q).wait_remaining = DueTime(procedures[q], 1)
      <4>1. procedures[q] \in Programs /\ 1 <= Len(Steps[procedures[q]])
        BY <3>1 DEF Inv, Core, Usable, IsTable
      <4>2. 1 \in 1 .. Len(Steps[procedures[q]])
            /\ Steps[procedures[q]][1].delay_s \in Int
        BY <4>1, DelayType
      <4>3. DueTime(procedures[q], 1)
              = DueTime(procedures[q], 1 - 1) + Steps[procedures[q]][1].delay_s
            /\ DueTime(procedures[q], 0) = 0
        BY <4>1, <4>2, DueTimeStep
      <4>4. DueTime(procedures[q], 1) = Steps[procedures[q]][1].delay_s
        BY <4>2, <4>3
      <4> QED BY <4>4 DEF NewRun
    <3>3. DueTime(procedures[q], 1) \in Int
      <4>1. procedures[q] \in Programs /\ 1 <= Len(Steps[procedures[q]])
        BY <3>1 DEF Inv, Core, Usable, IsTable
      <4>2. 1 \in 0 .. Len(Steps[procedures[q]])
        BY <4>1, DelayType
      <4> QED BY <4>1, <4>2, DueTimeStep
    <3> HIDE DEF q
    <3>4. Timely(procedures', running')
      BY <3>1, <3>2, <3>3 DEF OnTime, Timely
    <3>5. Waiting(running', todo')
      BY <3>1, <3>2 DEF OnTime, Waiting
    <3> QED BY <3>4, <3>5
  <2> QED BY <2>1, <2>2
<1> QED BY <1>3, <1>4, <1>5, <1>6 DEF Handle

LEMMA TickOnTime ==
  ASSUME Inv, OnTime, NEW dt \in TickSizes, Tick(dt) PROVE OnTime'
<1>1. /\ DOMAIN running' = DOMAIN running /\ todo' = DOMAIN running
      /\ procedures' = procedures /\ saved' = saved
      /\ \A p \in DOMAIN running :
           /\ running'[p].step_index = running[p].step_index
           /\ running'[p].wait_remaining = running[p].wait_remaining - dt
           /\ running'[p].age = running[p].age + dt
  BY DEF Tick
<1>2. dt \in Nat
  BY ObcpAssumption
<1>3. ASSUME NEW p \in DOMAIN running
      PROVE  /\ running'[p].wait_remaining
                  = DueTime(procedures[p], running'[p].step_index) - running'[p].age
             /\ running'[p].step_index > 1
                  => running'[p].age
                       >= DueTime(procedures[p], running'[p].step_index - 1)
  <2> DEFINE i == running[p].step_index
             a == running[p].age
             w == running[p].wait_remaining
             d == DueTime(procedures[p], i)
             e == DueTime(procedures[p], i - 1)
  <2>1. i \in Nat /\ a \in Nat /\ w \in Int /\ d \in Int /\ e \in Int
    BY RunOnTime DEF Run
  <2>2. w = d - a /\ (i > 1 => a >= e)
    BY DEF OnTime, Timely
  <2>3. /\ running'[p].step_index = i /\ running'[p].wait_remaining = w - dt
        /\ running'[p].age = a + dt
    BY <1>1
  <2> HIDE DEF i, a, w, d, e
  <2>4. w - dt = d - (a + dt) /\ (i > 1 => a + dt >= e)
    BY <1>2, <2>1, <2>2
  <2> QED BY <2>3, <2>4 DEF d, e
<1>4. Timely(procedures', running')
  BY <1>1, <1>3 DEF Timely
<1>5. Waiting(running', todo')
  BY <1>1 DEF Waiting
<1> QED BY <1>1, <1>4, <1>5 DEF OnTime

LEMMA CollectStepOnTime ==
  ASSUME Inv, OnTime, NEW p \in ProcIds, CollectStep(p) PROVE OnTime'
<1>1. p \in DOMAIN running /\ p \in todo
  BY DEF CollectStep, Inv, Core, TickPhase
<1>2. /\ procedures' = procedures /\ saved' = saved /\ todo' = todo
      /\ running' = [running EXCEPT ![p] = Advanced(p)]
      /\ running[p].wait_remaining <= 0
      /\ running[p].step_index < Len(StepsOf(p))
  BY DEF CollectStep
<1>3. /\ DOMAIN running' = DOMAIN running
      /\ \A q \in DOMAIN running :
           running'[q] = IF q = p THEN Advanced(p) ELSE running[q]
  BY <1>1, <1>2 DEF Inv, Core, Usable, IsTable
<1> DEFINE g == procedures[p]
           i == running[p].step_index
           a == running[p].age
           w == running[p].wait_remaining
<1>4. g \in Programs /\ i \in 1 .. Len(Steps[g]) /\ i + 1 \in 1 .. Len(Steps[g])
      /\ Len(Steps[g]) \in Nat /\ a \in Nat /\ w \in Int
  <2>1. /\ running[p] \in Run /\ g \in Programs /\ i \in 1 .. Len(Steps[g])
    BY <1>1, RunOnTime
  <2>2. Len(Steps[g]) \in Nat /\ i < Len(Steps[g])
    BY <1>2, <2>1, DelayType DEF StepsOf
  <2> QED BY <2>1, <2>2 DEF Run
<1>5. /\ Advanced(p).step_index = i + 1 /\ Advanced(p).age = a
      /\ Advanced(p).wait_remaining = w + Steps[g][i + 1].delay_s
  BY DEF Advanced, StepsOf
<1>6. w = DueTime(g, i) - a /\ w <= 0
  BY <1>1, <1>2 DEF OnTime, Timely
<1> HIDE DEF g, i, a, w
<1>7. /\ DueTime(g, i) \in Int /\ DueTime(g, i + 1) \in Int
      /\ Steps[g][i + 1].delay_s \in Int
      /\ DueTime(g, i + 1) = DueTime(g, i) + Steps[g][i + 1].delay_s
  <2>1. i \in 0 .. Len(Steps[g]) /\ i + 1 \in 0 .. Len(Steps[g]) /\ i + 1 - 1 = i
    BY <1>4
  <2> QED BY <1>4, <2>1, DueTimeStep, DelayType
<1>8. /\ Advanced(p).wait_remaining
           = DueTime(g, Advanced(p).step_index) - Advanced(p).age
      /\ Advanced(p).age >= DueTime(g, Advanced(p).step_index - 1)
  <2>1. i + 1 - 1 = i
    BY <1>4
  <2>2. w + Steps[g][i + 1].delay_s = DueTime(g, i + 1) - a /\ a >= DueTime(g, i)
    <3> DEFINE d == Steps[g][i + 1].delay_s
               t == DueTime(g, i)
               u == DueTime(g, i + 1)
    <3>1. t \in Int /\ u \in Int /\ d \in Int /\ u = t + d
          /\ w = t - a /\ w <= 0 /\ a \in Nat /\ w \in Int
      BY <1>4, <1>6, <1>7
    <3> HIDE DEF d, t, u
    <3>2. w + d = u - a /\ a >= t
      BY <3>1
    <3> QED BY <3>2 DEF d, t, u
  <2>3. Advanced(p).step_index - 1 = i
    <3> DEFINE j == Advanced(p).step_index
    <3>1. j = i + 1 /\ i \in Nat
      BY <1>4, <1>5
    <3> HIDE DEF j
    <3>2. j - 1 = i
      BY <3>1
    <3> QED BY <3>2 DEF j
  <2>4. Advanced(p).wait_remaining = DueTime(g, i + 1) - a
    BY <1>5, <2>2, Zenon
  <2> QED BY <1>5, <2>2, <2>3, <2>4, Zenon
<1>9. Timely(procedures', running')
  BY <1>2, <1>3, <1>8 DEF OnTime, Timely, g
<1>10. Waiting(running', todo')
  BY <1>1, <1>2, <1>3 DEF OnTime, Waiting
<1> QED BY <1>2, <1>9, <1>10 DEF OnTime

LEMMA OnTimeInit == Init => OnTime
BY DEF Init, OnTime, Timely, Waiting, Empty, NoBreakpoint

LEMMA OnTimeNext == Inv /\ OnTime /\ [Next]_vars => OnTime'
<1> SUFFICES ASSUME Inv, OnTime, [Next]_vars PROVE OnTime'
  OBVIOUS
<1>1. ASSUME NEW P, running' = Without(P), procedures' = procedures,
             saved' = saved, DOMAIN running \cap todo \subseteq todo' \cup P
      PROVE  OnTime'
  <2>1. \A p \in DOMAIN running' :
          /\ p \in DOMAIN running /\ running'[p] = running[p]
          /\ p \in todo => p \in todo'
    BY <1>1 DEF Without
  <2> QED BY <1>1, <2>1, StillOnTime DEF OnTime
<1>2. ASSUME running' = running, procedures' = procedures, saved' = saved,
             todo' = todo
      PROVE  OnTime'
  BY <1>2 DEF OnTime
<1>3. CASE \E tc \in Tc : Command(tc)
  <2>1. PICK tc \in Tc : Command(tc)
    BY <1>3
  <2> QED BY <2>1, HandleOnTime DEF Command, Idle, OnTime
<1>4. CASE \E dt \in TickSizes : Tick(dt)
  BY <1>4, TickOnTime
<1>5. ASSUME NEW p \in ProcIds, NothingDue(p) PROVE OnTime'
  <2>1. /\ running' = running /\ procedures' = procedures /\ saved' = saved
        /\ todo' = todo \ {p} /\ running[p].wait_remaining > 0
    BY <1>5 DEF NothingDue
  <2> QED BY <2>1 DEF OnTime, Waiting
<1>6. ASSUME NEW p \in ProcIds, CollectLastStep(p) PROVE OnTime'
  BY <1>1, <1>6 DEF CollectLastStep
<1>7. CASE Collect
  BY <1>5, <1>6, <1>7, CollectStepOnTime DEF Collect
<1>8. CASE RejectStep \/ DispatchRaises
  <2>1. running' = Without({Head(due).pid}) /\ procedures' = procedures
        /\ saved' = saved /\ todo' = todo
    BY <1>8 DEF RejectStep, DispatchRaises, FailStep
  <2> QED BY <1>1, <2>1
<1>9. CASE GateRequest \/ \E o \in {"executed", "gated", "refused"} : DispatchPlain(o)
  BY <1>2, <1>9 DEF GateRequest, DispatchPlain
<1>10. CASE DispatchRequest
  <2> DEFINE D == [pid : ProcIds, index : Nat \ {0}, tc : Tc]
  <2>1. due \in Seq(D) /\ due # <<>> /\ todo = {}
    BY <1>10 DEF DispatchRequest, Executing, Inv, Rest
  <2>2. Head(due).tc \in Tc
    <3> HIDE DEF D
    <3>1. Head(due) \in D
      BY <2>1
    <3> QED BY <3>1 DEF D
  <2>3. Handle(Head(due).tc) /\ todo' = todo /\ saved' = saved
    BY <1>10 DEF DispatchRequest
  <2> QED BY <2>1, <2>2, <2>3, HandleOnTime DEF OnTime
<1>11. CASE Execute
  BY <1>8, <1>9, <1>10, <1>11 DEF Execute
<1>12. CASE Announce
  BY <1>2, <1>12 DEF Announce, AnnounceCompleted
<1>13. CASE SaveBreakpoint
  <2>1. /\ saved'.procedures = procedures /\ saved'.running = running
        /\ todo = {} /\ UNCHANGED <<procedures, running, todo>>
    BY <1>13 DEF SaveBreakpoint, Idle
  <2> QED BY <2>1 DEF OnTime
<1>14. CASE LoadBreakpoint
  <2>1. /\ procedures' = saved.procedures /\ saved' = saved
        /\ todo = {} /\ todo' = todo
        /\ \A p \in DOMAIN running' : p \in DOMAIN saved.running
                                      /\ running'[p] = saved.running[p]
    BY <1>14 DEF LoadBreakpoint, Restored, Idle
  <2>2. Timely(procedures', running') /\ Waiting(running', todo')
    <3>1. Timely(saved.procedures, saved.running) /\ Waiting(saved.running, {})
      BY DEF OnTime
    <3>2. \A p \in DOMAIN running' :
            /\ p \in DOMAIN saved.running /\ running'[p] = saved.running[p]
            /\ procedures'[p] = saved.procedures[p]
      BY <2>1, Zenon
    <3> DEFINE procs == saved.procedures
               runs == saved.running
               procs1 == procedures'
               runs1 == running'
               unseen1 == todo'
    <3>3. Timely(procs, runs) /\ Waiting(runs, {})
      BY <3>1
    <3>4. \A p \in DOMAIN runs1 :
            /\ p \in DOMAIN runs /\ runs1[p] = runs[p] /\ procs1[p] = procs[p]
            /\ p \in {} => p \in unseen1
      BY <3>2
    <3> HIDE DEF procs, runs, procs1, runs1, unseen1
    <3>5. Timely(procs1, runs1) /\ Waiting(runs1, unseen1)
      BY <3>3, <3>4, StillOnTime
    <3> QED BY <3>5 DEF procs1, runs1, unseen1
  <2> QED BY <2>1, <2>2 DEF OnTime
<1>15. CASE UNCHANGED vars
  BY <1>2, <1>15 DEF vars
<1> QED BY <1>3, <1>4, <1>7, <1>11, <1>12, <1>13, <1>14, <1>15 DEF Next

(* Delays add up without drift: a run takes each step at the first tick    *)
(* that ends at or after the sum of the delays up to it, across replaced   *)
(* procedures and restored breakpoints (ObcpManager.tick, set_state).      *)
THEOREM StepsAlwaysOnTime == Spec => []StepsOnTime
<1>1. Inv /\ OnTime => StepsOnTime
  <2> SUFFICES ASSUME Inv, OnTime, NEW p \in DOMAIN running
              PROVE  LET i == running[p].step_index  g == procedures[p]
                     IN /\ i > 1 => running[p].age >= DueTime(g, i - 1)
                        /\ Idle /\ running[p].age > 0
                             => running[p].age < DueTime(g, i)
    BY DEF StepsOnTime
  <2>1. /\ running[p].step_index > 1
             => running[p].age >= DueTime(procedures[p], running[p].step_index - 1)
        /\ running[p].wait_remaining
             = DueTime(procedures[p], running[p].step_index) - running[p].age
    BY DEF OnTime, Timely
  <2>2. Idle /\ running[p].age > 0 => running[p].wait_remaining > 0
    BY DEF Idle, OnTime, Waiting
  <2>3. /\ running[p].age \in Nat /\ running[p].wait_remaining \in Int
        /\ DueTime(procedures[p], running[p].step_index) \in Int
    BY RunOnTime DEF Run
  <2> QED BY <2>1, <2>2, <2>3
<1> QED BY <1>1, InvAlways, OnTimeInit, OnTimeNext, PTL DEF Spec
=============================================================================
