------------------------------- MODULE FdirProofs -------------------------------
(***************************************************************************)
(* Theorems about FDIR (module Fdir), for any faults, conditions, effects, *)
(* rules and delays: its recoveries (if their groups fit the number of     *)
(* attempts), its types, and its pending cascades.                         *)
(***************************************************************************)
EXTENDS Fdir, SequenceLemmas, FiniteSetTheorems

Group(f) == Groups[Fault[f].group]

(* The recovery groups of the configuration: every one has a procedure and *)
(* there are attempts enough for its last level.                           *)
GroupsFit ==
  /\ MaxAttempts \in Nat
  /\ \A f \in Faults : Recovers(f) => Len(Group(f)) \in 1 .. MaxAttempts

IsRecovery(r) ==
  /\ r = [state |-> r.state, level |-> r.level, attempts |-> r.attempts,
          since |-> r.since]
  /\ r.level \in Nat

(* Besides the property itself: a recovery under way is at one of the      *)
(* levels of its group, so that the attempts are never used up before the  *)
(* last of them.                                                           *)
RecoveryOf(r, f) ==
  /\ IsRecovery(r)
  /\ Recovers(f) =>
       /\ r.attempts = r.level
       /\ r.state = "RUNNING" => r.level \in 1 .. Len(Group(f))
       /\ r.state = "FAILED" => r.level = Len(Group(f))

RecoveryInv ==
  /\ active \subseteq Faults
  /\ \A f \in Faults :
       /\ RecoveryOf(recov[f], f)
       /\ Recovers(f) /\ f \in active => recov[f].state \in {"RUNNING", "FAILED"}

LEMMA RecoveryInit == Init => RecoveryInv
<1> SUFFICES ASSUME Init PROVE RecoveryInv
  OBVIOUS
<1>1. active = {} /\ \A f \in Faults : recov[f] = Idle
  BY DEF Init
<1>2. ASSUME NEW f \in Faults PROVE RecoveryOf(Idle, f)
  BY DEF Idle, RecoveryOf, IsRecovery
<1> QED
  BY <1>1, <1>2 DEF RecoveryInv

(* What the updates of a recovery leave of it.                             *)
Continues(q, r, s) ==
  IsRecovery(q) /\ q.state = s /\ q.level = r.level /\ q.attempts = r.attempts

Waited(r, n) == [r EXCEPT !.since = n]
Ended(r, s) == [r EXCEPT !.state = s, !.since = 0]

LEMMA WaitedContinues ==
  ASSUME NEW r, IsRecovery(r), NEW n PROVE Continues(Waited(r, n), r, r.state)
<1>0. PICK x1, x2, x3, x4 :
      /\ r = [state |-> x1, level |-> x2, attempts |-> x3, since |-> x4]
      /\ x2 \in Nat
  BY Zenon DEF IsRecovery
<1>1. Waited(r, n) = [state |-> x1, level |-> x2, attempts |-> x3, since |-> n]
  BY <1>0 DEF Waited
<1> QED
  BY <1>0, <1>1 DEF IsRecovery, Continues

LEMMA EndedContinues ==
  ASSUME NEW r, IsRecovery(r), NEW s PROVE Continues(Ended(r, s), r, s)
<1>0. PICK x1, x2, x3, x4 :
      /\ r = [state |-> x1, level |-> x2, attempts |-> x3, since |-> x4]
      /\ x2 \in Nat
  BY Zenon DEF IsRecovery
<1> DEFINE m == [r EXCEPT !.state = s]
<1>1. m = [state |-> s, level |-> x2, attempts |-> x3, since |-> x4]
  BY <1>0
<1>2. Ended(r, s) = [m EXCEPT !.since = 0]
  BY DEF Ended
<1> HIDE DEF m
<1>3. Ended(r, s) = [state |-> s, level |-> x2, attempts |-> x3, since |-> 0]
  BY <1>1, <1>2
<1> QED
  BY <1>0, <1>3 DEF IsRecovery, Continues

Aging(f) ==
  IF recov[f].state = "RUNNING" THEN Waited(recov[f], Since(f)) ELSE recov[f]

LEMMA AgingContinues ==
  ASSUME NEW f, IsRecovery(recov[f])
  PROVE  Continues(Aging(f), recov[f], recov[f].state)
<1>1. CASE recov[f].state = "RUNNING"
  BY <1>1, WaitedContinues DEF Aging
<1>2. CASE recov[f].state # "RUNNING"
  BY <1>2 DEF Aging, Continues
<1> QED
  BY <1>1, <1>2

(* One tick: a detected fault starts at the first level, a resolved one is *)
(* complete, a level that is over escalates while there is a next one.     *)
LEMMA TickKeeps == ASSUME GroupsFit, RecoveryInv, Tick PROVE RecoveryInv'
<1>1. /\ active' = StillActive
      /\ recov' = [f \in Faults |-> RecovNext(f)]
  BY DEF Tick
<1>2. /\ Detected \subseteq Faults /\ Resolved \subseteq active
      /\ active \cap Detected = {}
  BY DEF Detected, Resolved
<1>3. active' \subseteq Faults
  BY <1>1, <1>2 DEF StillActive, RecoveryInv
<1>4. ASSUME NEW f \in Faults
      PROVE  /\ RecoveryOf(recov'[f], f)
             /\ Recovers(f) /\ f \in active'
                  => recov'[f].state \in {"RUNNING", "FAILED"}
  <2> DEFINE r == recov[f]
             q == recov'[f]
  <2>1. q = RecovNext(f)
    BY <1>1
  <2>2. RecoveryOf(r, f) /\ IsRecovery(r)
    BY DEF RecoveryInv, RecoveryOf
  <2>3. Recovers(f) => Len(Group(f)) \in 1 .. MaxAttempts /\ MaxAttempts \in Nat
    BY DEF GroupsFit
  <2>4. Expired \subseteq active /\ Escalating \subseteq Expired
        /\ \A g \in Expired : recov[g].state = "RUNNING"
    BY DEF Expired, Escalating
  <2>5. CASE f \in Detected /\ Recovers(f)
    <3>1. q = [state |-> "RUNNING", level |-> 1, attempts |-> 1, since |-> 0]
      BY <2>1, <2>5 DEF RecovNext, NewRecovery
    <3> QED
      BY <2>3, <2>5, <3>1 DEF RecoveryOf, IsRecovery
  <2>6. CASE ~(f \in Detected /\ Recovers(f)) /\ f \in Resolved /\ r.state # "NONE"
    <3>1. q = Ended(r, "COMPLETE")
      BY <1>2, <2>1, <2>4, <2>6 DEF RecovNext, Ended
    <3>2. f \notin active'
      BY <1>1, <2>6 DEF StillActive
    <3>3. Continues(q, r, "COMPLETE")
      BY <2>2, <3>1, EndedContinues
    <3> QED
      BY <2>2, <3>2, <3>3 DEF RecoveryOf, Continues
  <2>7. CASE /\ ~(f \in Detected /\ Recovers(f))
             /\ ~(f \in Resolved /\ r.state # "NONE")
             /\ f \in Escalating
    <3>1. q = [state |-> "RUNNING", level |-> r.level + 1,
               attempts |-> r.attempts + 1, since |-> 0]
      BY <2>1, <2>7 DEF RecovNext
    <3>2. r.level \in Nat /\ r.level < Len(Group(f))
      BY <2>2, <2>7 DEF Escalating, Group, IsRecovery
    <3> QED
      BY <2>2, <2>3, <3>1, <3>2 DEF RecoveryOf, IsRecovery
  <2>8. CASE /\ ~(f \in Detected /\ Recovers(f))
             /\ ~(f \in Resolved /\ r.state # "NONE")
             /\ f \in Expired /\ f \notin Escalating
    <3>1. q = Ended(r, "FAILED")
      BY <2>1, <2>8 DEF RecovNext, Ended
    <3>2. ~(r.level < Len(Group(f)) /\ r.attempts < MaxAttempts)
          /\ r.state = "RUNNING" /\ r.level \in Nat
      BY <2>2, <2>4, <2>8 DEF Escalating, Group, IsRecovery
    <3>3. Recovers(f) => r.level = Len(Group(f))
      BY <2>2, <2>3, <3>2 DEF RecoveryOf
    <3>4. Continues(q, r, "FAILED")
      BY <2>2, <3>1, EndedContinues
    <3> QED
      BY <2>2, <3>3, <3>4 DEF RecoveryOf, Continues
  <2>9. CASE /\ ~(f \in Detected /\ Recovers(f))
             /\ ~(f \in Resolved /\ r.state # "NONE")
             /\ f \notin Expired
    <3>1. q = Aging(f)
      BY <2>1, <2>4, <2>9 DEF RecovNext, Aging, Waited
    <3>2. Continues(q, r, r.state)
      BY <2>2, <3>1, AgingContinues
    <3>3. RecoveryOf(q, f)
      BY <2>2, <3>2 DEF RecoveryOf, Continues
    <3>4. Recovers(f) /\ f \in active' => f \in active
      BY <1>1, <2>9 DEF StillActive
    <3> QED
      BY <3>2, <3>3, <3>4 DEF RecoveryInv, Continues
  <2> QED
    BY <2>4, <2>5, <2>6, <2>7, <2>8, <2>9
<1> QED
  BY <1>3, <1>4 DEF RecoveryInv

(* Below NOMINAL no fault is active; what runs, goes on running.           *)
LEMMA DisarmedKeeps == ASSUME RecoveryInv, DisarmedTick PROVE RecoveryInv'
<1>1. /\ active' = {}
      /\ recov' = [f \in Faults |-> Aging(f)]
  BY DEF DisarmedTick, Aging, Waited
<1>2. ASSUME NEW f \in Faults PROVE RecoveryOf(recov'[f], f)
  <2>1. RecoveryOf(recov[f], f) /\ IsRecovery(recov[f])
    BY DEF RecoveryInv, RecoveryOf
  <2>2. Continues(recov'[f], recov[f], recov[f].state)
    BY <1>1, <2>1, AgingContinues
  <2> QED
    BY <2>1, <2>2 DEF RecoveryOf, Continues
<1> QED
  BY <1>1, <1>2 DEF RecoveryInv

LEMMA RecoveryNext == GroupsFit /\ RecoveryInv /\ [Next]_vars => RecoveryInv'
<1> SUFFICES ASSUME GroupsFit, RecoveryInv, [Next]_vars PROVE RecoveryInv'
  OBVIOUS
<1>1. ASSUME UNCHANGED <<active, recov>> PROVE RecoveryInv'
  BY <1>1 DEF RecoveryInv
<1>2. CASE Tick
  BY <1>2, TickKeeps
<1>3. CASE DisarmedTick
  BY <1>3, DisarmedKeeps
<1>4. CASE Reload
  BY <1>1, <1>4 DEF Reload
<1>5. ASSUME Change PROVE RecoveryInv'
  BY <1>1, <1>5 DEF Change, faults
<1>6. CASE UNCHANGED vars
  BY <1>1, <1>6 DEF vars, faults
<1> QED
  BY <1>2, <1>3, <1>4, <1>5, <1>6
  DEF Next, SignChanges, SocChanges, PhaseChanges, OperatorCommands

(* An active fault with a recovery has one that runs or is exhausted, one  *)
(* attempt for each level, given up only at the last (_tick_recovery).     *)
THEOREM RecoveryAlwaysFollows ==
  ASSUME GroupsFit PROVE Spec => []RecoveryFollowsFault
<1>2. RecoveryInv /\ [Next]_vars => RecoveryInv'
  BY RecoveryNext
<1>1. RecoveryInv => RecoveryFollowsFault
  BY DEF RecoveryInv, RecoveryOf, RecoveryFollowsFault, Group
<1> QED
  BY RecoveryInit, <1>1, <1>2, PTL DEF Spec

-----------------------------------------------------------------------------
(* Types.  A pending cascade is one of its fault's, with part of its delay *)
(* left; a fault without recovery never has one under way.                 *)
CascadeSet == [load : LoadNames, level : Nat, delay : Delay]
StepSet == [load : LoadNames, level : Nat, needs : LoadNames \cup {"none"}, delay : Nat]
Commands == Effect \cup StepSet
PendingSet ==
  {c \in [fault : Faults, k : Nat, left : Nat] :
     /\ c.k \in DOMAIN Cascades(c.fault)
     /\ c.left \in 1 .. Cascades(c.fault)[c.k].delay}
ExecSet == [name : Names, age : Nat]
States == {"NONE", "RUNNING", "COMPLETE", "FAILED"}

RecovTyped(r, f) ==
  /\ IsRecovery(r) /\ r.state \in States
  /\ IF Recovers(f) THEN r.attempts = r.level /\ r.level \in Levels
     ELSE r.state = "NONE" /\ r.level = 0 /\ r.attempts = 0

EnvTyped ==
  /\ signs \subseteq Signs /\ soc \in DOMAIN Stages /\ stage \in DOMAIN Stages
  /\ commissioned \in BOOLEAN /\ reloaded \in BOOLEAN
  /\ scMode \in {"SAFE", "NOMINAL", "SCIENCE", "EMERGENCY"}
  /\ changes \in 0 .. MaxChanges

RulesTyped ==
  triggered \subseteq RuleIds /\ \A i \in RuleIds : ruleAcc[i] \in 0 .. Rules[i].persist

FaultsTyped ==
  /\ active \subseteq Faults
  /\ \A f \in Faults : acc[f] \in 0 .. Fault[f].persist
  /\ \A f \in Faults : done[f] \subseteq DOMAIN Cascades(f)
  /\ \A f \in Faults : RecovTyped(recov[f], f)

Typed ==
  /\ EnvTyped /\ RulesTyped /\ FaultsTyped
  /\ loads \in [LoadNames -> Nat]
  /\ pending \in Seq(PendingSet) /\ procs \in Seq(ExecSet)

LEMMA CascadesTyped ==
  ASSUME NEW f \in Faults
  PROVE  /\ Cascades(f) \in Seq(CascadeSet)
         /\ DOMAIN Cascades(f) = 1 .. Len(Cascades(f)) /\ Len(Cascades(f)) \in Nat
         /\ \A k \in DOMAIN Cascades(f) :
              /\ k \in Nat /\ Cascades(f)[k] \in CascadeSet
              /\ Cascades(f)[k].delay \in Delay
<1>1. Cascades(f) \in Seq(CascadeSet)
  BY FdirAssumption DEF Cascades, CascadeSet
<1> DEFINE c == Cascades(f)
<1>2. c \in Seq(CascadeSet)
  BY <1>1
<1> HIDE DEF c
<1>3. /\ DOMAIN c = 1 .. Len(c) /\ Len(c) \in Nat
      /\ \A k \in DOMAIN c : k \in Nat /\ c[k] \in CascadeSet
  BY <1>2
<1>4. \A x \in CascadeSet : x.delay \in Delay
  BY DEF CascadeSet
<1> QED
  BY <1>2, <1>3, <1>4 DEF c

LEMMA TypedImplies == Typed => TypeOK
<1> SUFFICES ASSUME Typed PROVE TypeOK
  OBVIOUS
<1>1. ASSUME NEW i \in DOMAIN pending
      PROVE  /\ pending[i].k \in DOMAIN Cascades(pending[i].fault)
             /\ pending[i].left \in 1 .. Cascades(pending[i].fault)[pending[i].k].delay
  <2>1. pending[i] \in PendingSet
    BY DEF Typed
  <2> QED
    BY <2>1 DEF PendingSet
<1>2. ASSUME NEW i \in DOMAIN procs PROVE procs[i].name \in Names /\ procs[i].age \in Nat
  <2>1. procs[i] \in ExecSet
    BY DEF Typed
  <2> QED
    BY <2>1 DEF ExecSet
<1>3. ASSUME NEW f \in Faults
      PROVE  /\ recov[f].state \in {"NONE", "RUNNING", "COMPLETE", "FAILED"}
             /\ {recov[f].level, recov[f].attempts} \subseteq Levels
  <2>1. RecovTyped(recov[f], f)
    BY DEF Typed, FaultsTyped
  <2>2. 0 \in Levels
    BY FdirAssumption DEF Levels
  <2> QED
    BY <2>1, <2>2 DEF RecovTyped, States
<1> QED
  BY <1>1, <1>2, <1>3 DEF Typed, EnvTyped, RulesTyped, FaultsTyped, TypeOK

LEMMA TypedInit == Init => Typed
<1> SUFFICES ASSUME Init PROVE Typed
  OBVIOUS
<1>1. EnvTyped
  <2>1. 0 \in DOMAIN Stages /\ MaxChanges \in Nat
    BY FdirAssumption
  <2>2. commissioned \in BOOLEAN /\ reloaded \in BOOLEAN
    BY Zenon DEF Init
  <2>3. signs = {} /\ soc = 0 /\ stage = 0 /\ scMode = "SAFE" /\ changes = 0
    BY DEF Init
  <2> QED
    BY <2>1, <2>2, <2>3 DEF EnvTyped
<1>11. RulesTyped
  <2>1. \A i \in RuleIds : Rules[i].persist \in Nat
    BY FdirAssumption
  <2> QED
    BY <2>1 DEF Init, RulesTyped
<1>2. FaultsTyped
  <2>1. /\ active = {} /\ acc = [f \in Faults |-> 0]
        /\ done = [f \in Faults |-> {}] /\ recov = [f \in Faults |-> Idle]
    BY DEF Init
  <2>2. ASSUME NEW f \in Faults PROVE RecovTyped(Idle, f)
    <3>1. 0 \in Levels
      BY FdirAssumption DEF Levels
    <3> QED
      BY <3>1 DEF RecovTyped, IsRecovery, States, Idle
  <2>3. \A f \in Faults : Fault[f].persist \in Nat
    BY FdirAssumption
  <2> QED
    BY <2>1, <2>2, <2>3 DEF FaultsTyped
<1>3. loads \in [LoadNames -> Nat]
  <2> DEFINE A == UNION {LevelsOf[l] : l \in LoadNames}
  <2>1. loads \in [LoadNames -> A] /\ \A l \in LoadNames : loads[l] \in LevelsOf[l]
    BY DEF Init
  <2> HIDE DEF A
  <2>2. \A l \in LoadNames : LevelsOf[l] \subseteq Nat
    BY FdirAssumption
  <2> QED
    BY <2>1, <2>2
<1>4. pending = << >> /\ procs = << >>
  BY DEF Init
<1> QED
  BY <1>1, <1>11, <1>2, <1>3, <1>4 DEF Typed

-----------------------------------------------------------------------------
(* Commands one after the other leave every load at a level.               *)
LEMMA CommandTyped ==
  ASSUME NEW ld \in [LoadNames -> Nat], NEW e \in Commands
  PROVE  Command(ld, e) \in [LoadNames -> Nat]
<1>1. e.load \in LoadNames /\ e.level \in Nat
  BY DEF Commands, Effect, StepSet
<1> QED
  BY <1>1 DEF Command

LEMMA CommandedTyped ==
  ASSUME loads \in [LoadNames -> Nat], NEW es \in Seq(Commands)
  PROVE  Commanded(es) \in [LoadNames -> Nat]
<1> DEFINE X == [LoadNames -> Nat]
           n == Len(es)
           After(t) == t = [i \in 0 .. n |-> IF i = 0 THEN loads
                                             ELSE Command(t[i - 1], es[i])]
           t == CHOOSE t : After(t)
           G == [p \in (1 .. n) \X X |-> Command(p[2], es[p[1]])]
<1>1. n \in Nat /\ \A i \in 1 .. n : es[i] \in Commands
  OBVIOUS
<1>2. Commanded(es) = t[n]
  BY Zenon DEF Commanded
<1>3. \A x \in X : \A i \in 1 .. n : Command(x, es[i]) \in X
  BY <1>1, CommandTyped
<1> HIDE DEF n, X
<1>4. G \in [(1 .. n) \X X -> X]
  BY <1>3
<1>5. \A i \in 1 .. n, x \in X : G[<<i, x>>] = Command(x, es[i])
  OBVIOUS
<1> HIDE DEF G
<1>6. \E u : After(u)
  <2>1. loads \in X
    BY DEF X
  <2>2. PICK u \in [0 .. n -> X] : Stepwise(loads, n, G, u)
    BY <1>1, <1>4, <2>1, RecursionIn
  <2>3. ASSUME NEW i \in 0 .. n
        PROVE  u[i] = IF i = 0 THEN loads ELSE Command(u[i - 1], es[i])
    <3>1. CASE i = 0
      BY <2>2, <3>1 DEF Stepwise
    <3>2. CASE i # 0
      <4>1. i \in 1 .. n /\ i - 1 \in 0 .. n
        BY <1>1, <3>2
      <4>2. u[i - 1] \in X /\ u[i] = G[<<i, u[i - 1]>>]
        BY <2>2, <4>1 DEF Stepwise
      <4> QED
        BY <1>5, <3>2, <4>1, <4>2
    <3> QED
      BY <3>1, <3>2
  <2> QED
    BY <2>3
<1>7. After(t)
  BY <1>6, Zenon
<1> HIDE DEF t
<1>8. t[0] = loads /\ \A i \in 1 .. n : t[i] = Command(t[i - 1], es[i])
  BY <1>1, <1>7
<1>9. ASSUME NEW i \in 1 .. n, t[i - 1] \in X PROVE t[i] \in X
  BY <1>3, <1>8, <1>9, Zenon
<1>10. t[0] \in X
  BY <1>8 DEF X
<1>11. \A i \in 0 .. n : t[i] \in X
  BY <1>1, <1>9, <1>10, PassedOn
<1> QED
  BY <1>1, <1>2, <1>11 DEF X

(* The commands of one tick.                                               *)
LEMMA RuleEffectsTyped == RuleEffects \in Seq(Commands)
<1> DEFINE ss == [i \in RuleIds |-> IF i \in Met \ triggered
                                    THEN Rules[i].effects ELSE << >>]
<1>1. Len(Rules) \in Nat /\ RuleIds = 1 .. Len(Rules)
  BY FdirAssumption DEF RuleIds
<1>2. ASSUME NEW i \in RuleIds PROVE Rules[i].effects \in Seq(Commands)
  <2>1. Rules[i].effects \in Seq(Effect)
    BY FdirAssumption
  <2>2. Effect \subseteq Commands
    BY DEF Commands
  <2> QED
    BY <2>1, <2>2
<1>3. ss \in [1 .. Len(Rules) -> Seq(Commands)]
  <2> HIDE DEF Commands
  <2> QED
    BY <1>1, <1>2
<1>4. RuleEffects = FlattenSeq(ss)
  BY DEF RuleEffects
<1> HIDE DEF ss
<1> QED
  BY <1>1, <1>3, <1>4, Flattened

LEMMA StageEffectsTyped ==
  ASSUME soc \in DOMAIN Stages PROVE StageEffects \in Seq(Commands)
<1>1. Stages[soc] \in Seq(Effect)
  BY FdirAssumption
<1>2. Effect \subseteq Commands
  BY DEF Commands
<1>3. Stages[soc] \in Seq(Commands)
  BY <1>1, <1>2
<1> QED
  BY <1>3 DEF StageEffects

LEMMA CascadeEffectsTyped ==
  ASSUME pending \in Seq(PendingSet) PROVE CascadeEffects \in Seq(Commands)
<1> DEFINE c(i) == Cascades(pending[i].fault)[pending[i].k]
           s == [i \in DOMAIN pending |-> Applied(c(i))]
<1>1. DOMAIN pending = 1 .. Len(pending) /\ Len(pending) \in Nat
  OBVIOUS
<1>2. ASSUME NEW i \in DOMAIN pending PROVE Applied(c(i)) \in Commands
  <2>1. pending[i] \in PendingSet
    OBVIOUS
  <2>2. pending[i].fault \in Faults /\ pending[i].k \in DOMAIN Cascades(pending[i].fault)
    BY <2>1 DEF PendingSet
  <2>3. c(i) \in CascadeSet
    BY <2>2, CascadesTyped
  <2> HIDE DEF c
  <2>4. Applied(c(i)) \in Effect
    BY <2>3 DEF CascadeSet, Applied, Effect
  <2> QED
    BY <2>4 DEF Commands
<1>3. s \in [1 .. Len(pending) -> Commands]
  <2>1. \A i \in DOMAIN pending : s[i] = Applied(c(i))
    BY <1>1
  <2>3. DOMAIN s = 1 .. Len(pending) /\ s = [i \in 1 .. Len(pending) |-> s[i]]
    BY <1>1
  <2> HIDE DEF s, c
  <2>2. \A i \in DOMAIN pending : s[i] \in Commands
    BY <1>2, <2>1, Zenon
  <2> HIDE DEF Commands
  <2> QED
    BY <1>1, <2>2, <2>3
<1>4. CascadeEffects = Those(s, Due)
  BY DEF CascadeEffects
<1> HIDE DEF s
<1>5. s \in Seq(Commands)
  BY <1>1, <1>3
<1> QED
  BY <1>4, <1>5, ThoseArePicked

LEMMA StepEffectsTyped ==
  ASSUME NEW ps \in Seq(ExecSet) PROVE StepEffects(ps) \in Seq(Commands)
<1> DEFINE ss == [i \in DOMAIN ps |-> StepsDue(ps[i])]
<1>1. DOMAIN ps = 1 .. Len(ps) /\ Len(ps) \in Nat
  OBVIOUS
<1>2. ASSUME NEW p \in ExecSet PROVE StepsDue(p) \in Seq(Commands)
  <2>1. p.name \in Names
    BY DEF ExecSet
  <2>2. Procedures[p.name] \in Seq(StepSet)
    BY <2>1, FdirAssumption DEF StepSet
  <2>3. StepsDue(p) \in Seq(StepSet)
    BY <2>2, ThoseArePicked DEF StepsDue
  <2>4. StepSet \subseteq Commands
    BY DEF Commands
  <2> QED
    BY <2>3, <2>4
<1>3. ss \in [1 .. Len(ps) -> Seq(Commands)]
  <2>1. \A i \in 1 .. Len(ps) : ps[i] \in ExecSet
    OBVIOUS
  <2> HIDE DEF Commands
  <2> QED
    BY <1>1, <1>2, <2>1
<1>4. StepEffects(ps) = FlattenSeq(ss)
  BY DEF StepEffects
<1> HIDE DEF ss
<1> QED
  BY <1>1, <1>3, <1>4, Flattened

-----------------------------------------------------------------------------
(* Cascades of a tick: what was pending and is not due stays pending, with *)
(* one tick less to go, unless its fault is resolved; a detected fault     *)
(* adds all of its own.                                                    *)
Carries(r, is) ==
  \A i \in is : \E k \in DOMAIN r :
    r[k].fault = pending[i].fault /\ r[k].k = pending[i].k

LEMMA AgedTyped ==
  ASSUME pending \in Seq(PendingSet), NEW is, is \subseteq Kept \ Due,
         NEW r, r = Those(Aged, is)
  PROVE  /\ r \in Seq(PendingSet)
         /\ Carries(r, is)
<1>1. DOMAIN pending = 1 .. Len(pending) /\ Len(pending) \in Nat
  OBVIOUS
<1>2. ASSUME NEW i \in DOMAIN pending
      PROVE  Aged[i] = [fault |-> pending[i].fault, k |-> pending[i].k,
                        left |-> pending[i].left - 1]
  <2>1. pending[i] \in [fault : Faults, k : Nat, left : Nat]
    <3>1. pending[i] \in PendingSet
      OBVIOUS
    <3> QED
      BY <3>1 DEF PendingSet
  <2>2. Aged[i] = [pending[i] EXCEPT !.left = @ - 1]
    BY DEF Aged
  <2> QED
    BY <2>1, <2>2
<1>3. DOMAIN Aged = 1 .. Len(pending) /\ Aged = [i \in 1 .. Len(pending) |-> Aged[i]]
  BY <1>1 DEF Aged
<1> DEFINE Older == {Aged[i] : i \in DOMAIN pending}
<1>4. Aged \in Seq(Older)
  <2>1. \A i \in 1 .. Len(pending) : Aged[i] \in Older
    BY <1>1
  <2> HIDE DEF Older
  <2>2. Aged \in [1 .. Len(pending) -> Older]
    BY <1>3, <2>1
  <2> QED
    BY <1>1, <2>2
<1> HIDE DEF Older
<1>5. r \in Seq(Older) /\ Picks(r, Aged, is)
  BY <1>4, ThoseArePicked
<1>6. ASSUME NEW i \in is PROVE Aged[i] \in PendingSet
  <2>1. i \in DOMAIN pending /\ ~(pending[i].left <= 1)
    BY <1>6 DEF Kept, Due
  <2> DEFINE p == pending[i]
             d == Cascades(p.fault)[p.k].delay
  <2>2. p \in PendingSet
    BY <2>1
  <2>3. p.fault \in Faults /\ p.k \in Nat /\ p.left \in Nat
        /\ p.k \in DOMAIN Cascades(p.fault) /\ p.left \in 1 .. d
    BY <2>2 DEF PendingSet
  <2>4. d \in Nat
    BY <2>3, CascadesTyped DEF Delay
  <2>5. p.left - 1 \in Nat /\ p.left - 1 \in 1 .. d
    <3> HIDE DEF d
    <3> QED
      BY <2>1, <2>3, <2>4
  <2>6. Aged[i] = [fault |-> p.fault, k |-> p.k, left |-> p.left - 1]
    BY <1>2, <2>1
  <2> QED
    BY <2>3, <2>5, <2>6 DEF PendingSet
<1>7. r \in Seq(PendingSet)
  <2>1. \A k \in DOMAIN r : r[k] \in PendingSet
    BY <1>5, <1>6 DEF Picks
  <2>2. r \in Seq(Older)
    BY <1>5
  <2>3. DOMAIN r = 1 .. Len(r) /\ Len(r) \in Nat /\ r = [k \in 1 .. Len(r) |-> r[k]]
    BY <2>2
  <2> HIDE DEF PendingSet
  <2>4. r \in [1 .. Len(r) -> PendingSet]
    BY <2>1, <2>3
  <2> QED
    BY <2>3, <2>4
<1>8. ASSUME NEW i \in is
      PROVE  \E k \in DOMAIN r : r[k].fault = pending[i].fault /\ r[k].k = pending[i].k
  <2>1. i \in DOMAIN pending
    BY <1>8 DEF Kept
  <2>2. PICK k \in DOMAIN r : r[k] = Aged[i]
    BY <1>1, <1>3, <1>5, <2>1 DEF Picks
  <2>3. r[k].fault = pending[i].fault /\ r[k].k = pending[i].k
    <3>1. r[k] = [fault |-> pending[i].fault, k |-> pending[i].k,
                  left |-> pending[i].left - 1]
      BY <1>2, <2>1, <2>2, Zenon
    <3> QED
      BY <3>1
  <2> QED
    BY <2>3
<1> QED
  BY <1>7, <1>8 DEF Carries

LEMMA FreshTyped ==
  /\ Fresh \in Seq(PendingSet)
  /\ \A f \in Detected : \A k \in DOMAIN Cascades(f) :
       \E j \in DOMAIN Fresh : Fresh[j].fault = f /\ Fresh[j].k = k
<1> DEFINE n == Len(Order)
           ss == [i \in DOMAIN Order |-> IF Order[i] \in Detected
                                         THEN NewCascades(Order[i]) ELSE << >>]
<1>1. n \in Nat /\ DOMAIN Order = 1 .. n
  BY FdirAssumption
<1>2. Faults = {Order[i] : i \in 1 .. n}
  BY <1>1 DEF Faults, ToSet
<1>3. ASSUME NEW f \in Faults
      PROVE  /\ NewCascades(f) \in Seq(PendingSet)
             /\ DOMAIN NewCascades(f) = DOMAIN Cascades(f)
             /\ \A k \in DOMAIN Cascades(f) :
                  NewCascades(f)[k].fault = f /\ NewCascades(f)[k].k = k
  <2> DEFINE m == Len(Cascades(f))
             s == NewCascades(f)
  <2>1. m \in Nat /\ DOMAIN Cascades(f) = 1 .. m
    BY CascadesTyped
  <2>2. /\ DOMAIN s = 1 .. m
        /\ \A k \in 1 .. m :
             s[k] = [fault |-> f, k |-> k, left |-> Cascades(f)[k].delay]
        /\ s = [k \in 1 .. m |-> s[k]]
    BY <2>1 DEF NewCascades
  <2> HIDE DEF s, m
  <2>3. ASSUME NEW k \in 1 .. m PROVE s[k] \in PendingSet /\ s[k].fault = f /\ s[k].k = k
    <3>1. Cascades(f)[k].delay \in Delay
      BY <2>1, CascadesTyped
    <3> QED
      BY <2>1, <2>2, <3>1 DEF PendingSet, Delay
  <2>4. s \in Seq(PendingSet)
    <3>1. s \in [1 .. m -> PendingSet]
      BY <2>2, <2>3
    <3> QED
      BY <2>1, <3>1
  <2> QED
    BY <2>1, <2>2, <2>3, <2>4 DEF s
<1>4. \A i \in 1 .. n : ss[i] = IF Order[i] \in Detected
                                THEN NewCascades(Order[i]) ELSE << >>
  BY <1>1
<1>5. ss \in [1 .. n -> Seq(PendingSet)]
  <2>1. DOMAIN ss = 1 .. n /\ ss = [i \in 1 .. n |-> ss[i]]
    BY <1>1
  <2> HIDE DEF ss, n
  <2>2. ASSUME NEW i \in 1 .. n PROVE ss[i] \in Seq(PendingSet)
    <3>1. Order[i] \in Faults
      BY <1>2
    <3>2. NewCascades(Order[i]) \in Seq(PendingSet)
      BY <1>3, <3>1
    <3>3. << >> \in Seq(PendingSet)
      OBVIOUS
    <3> QED
      BY <1>4, <3>2, <3>3, Zenon
  <2> QED
    BY <2>1, <2>2
<1>6. Fresh = FlattenSeq(ss)
  BY DEF Fresh
<1> HIDE DEF ss, n
<1>7. Fresh \in Seq(PendingSet) /\ HasAll(Fresh, ss, n)
  BY <1>1, <1>5, <1>6, Flattened
<1>8. ASSUME NEW f \in Detected, NEW k \in DOMAIN Cascades(f)
      PROVE  \E j \in DOMAIN Fresh : Fresh[j].fault = f /\ Fresh[j].k = k
  <2>1. f \in Faults
    BY DEF Detected
  <2>2. PICK i \in 1 .. n : Order[i] = f
    BY <1>2, <2>1
  <2>3. ss[i] = NewCascades(f)
    BY <1>4, <2>2
  <2>4. k \in DOMAIN ss[i]
    BY <1>3, <2>1, <2>3
  <2>5. PICK j \in DOMAIN Fresh : Fresh[j] = ss[i][k]
    BY <1>7, <2>4 DEF HasAll
  <2> QED
    BY <1>3, <2>1, <2>3, <2>5
<1> QED
  BY <1>7, <1>8

(* An execution lives from its start to its last step; each grows older.   *)
LEMMA Append1Typed ==
  ASSUME NEW ps \in Seq(ExecSet), NEW p \in ExecSet
  PROVE  Append1(ps, p) \in Seq(ExecSet)
BY DEF Append1

LEMMA ExecutingTyped ==
  ASSUME procs \in Seq(ExecSet), NEW ss \in Seq(ExecSet)
  PROVE  Executing(ss) \in Seq(ExecSet)
<1> DEFINE X == Seq(ExecSet)
           n == Len(ss)
           b == [j \in DOMAIN procs |-> [procs[j] EXCEPT !.age = @ + 1]]
           After(t) == t = [i \in 0 .. n |-> IF i = 0 THEN b
                                             ELSE Append1(t[i - 1], ss[i])]
           t == CHOOSE t : After(t)
           G == [p \in (1 .. n) \X X |-> Append1(p[2], ss[p[1]])]
<1>1. n \in Nat /\ \A i \in 1 .. n : ss[i] \in ExecSet
  OBVIOUS
<1>2. Executing(ss) = t[n]
  BY Zenon DEF Executing
<1>3. \A x \in X : \A i \in 1 .. n : Append1(x, ss[i]) \in X
  BY <1>1, Append1Typed
<1>31. b \in X
  <2>1. DOMAIN procs = 1 .. Len(procs) /\ Len(procs) \in Nat
        /\ \A j \in DOMAIN procs : procs[j] \in ExecSet
    OBVIOUS
  <2>2. ASSUME NEW e \in ExecSet PROVE [e EXCEPT !.age = @ + 1] \in ExecSet
    BY DEF ExecSet
  <2>3. \A j \in DOMAIN procs : b[j] \in ExecSet
    BY <2>1, <2>2
  <2>4. DOMAIN b = DOMAIN procs /\ b = [j \in DOMAIN procs |-> b[j]]
    OBVIOUS
  <2> HIDE DEF b
  <2>5. b \in [1 .. Len(procs) -> ExecSet]
    BY <2>1, <2>3, <2>4
  <2> QED
    BY <2>1, <2>5
<1> HIDE DEF n, X, b
<1>4. G \in [(1 .. n) \X X -> X]
  BY <1>3
<1>5. \A i \in 1 .. n, x \in X : G[<<i, x>>] = Append1(x, ss[i])
  OBVIOUS
<1> HIDE DEF G
<1>6. \E u : After(u)
  <2>2. PICK u \in [0 .. n -> X] : Stepwise(b, n, G, u)
    BY <1>1, <1>31, <1>4, RecursionIn
  <2>3. ASSUME NEW i \in 0 .. n
        PROVE  u[i] = IF i = 0 THEN b ELSE Append1(u[i - 1], ss[i])
    <3>1. CASE i = 0
      BY <2>2, <3>1 DEF Stepwise
    <3>2. CASE i # 0
      <4>1. i \in 1 .. n /\ i - 1 \in 0 .. n
        BY <1>1, <3>2
      <4>2. u[i - 1] \in X /\ u[i] = G[<<i, u[i - 1]>>]
        BY <2>2, <4>1 DEF Stepwise
      <4> QED
        BY <1>5, <3>2, <4>1, <4>2
    <3> QED
      BY <3>1, <3>2
  <2> QED
    BY <2>3
<1>7. After(t)
  BY <1>6, Zenon
<1> HIDE DEF t
<1>8. t[0] = b /\ \A i \in 1 .. n : t[i] = Append1(t[i - 1], ss[i])
  BY <1>1, <1>7
<1>9. ASSUME NEW i \in 1 .. n, t[i - 1] \in X PROVE t[i] \in X
  BY <1>3, <1>8, <1>9, Zenon
<1>11. \A i \in 0 .. n : t[i] \in X
  BY <1>1, <1>31, <1>8, <1>9, PassedOn
<1> QED
  BY <1>1, <1>2, <1>11 DEF X

(* The recoveries that start, or move to the next level, start a procedure *)
(* of their group.                                                         *)
LEMMA FaultsFinite == IsFiniteSet(Faults)
<1> DEFINE n == Len(Order)
           o == [i \in 1 .. n |-> Order[i]]
<1>1. n \in Nat /\ DOMAIN Order = 1 .. n
  BY FdirAssumption
<1>2. IsFiniteSet(1 .. n)
  BY <1>1, FS_Interval
<1>3. Faults = {o[i] : i \in 1 .. n}
  BY <1>1 DEF Faults, ToSet
<1>4. o \in Surjection(1 .. n, Faults)
  BY <1>3 DEF Surjection
<1> QED
  BY <1>2, <1>4, FS_Surjection

LEMMA GroupTyped ==
  ASSUME NEW f \in Faults, Recovers(f), NEW i \in 1 .. Len(Group(f))
  PROVE  /\ Groups[Fault[f].group][i] \in Names
         /\ Len(Group(f)) \in 1 .. Len(LevelDelay)
<1>1. Fault[f].group \in DOMAIN Groups
  BY FdirAssumption DEF Recovers
<1>2. Groups[Fault[f].group] \in Seq(Names)
      /\ Len(Groups[Fault[f].group]) \in 1 .. Len(LevelDelay)
  BY <1>1, FdirAssumption
<1> QED
  BY <1>2 DEF Group

LEMMA StartedByTyped ==
  ASSUME NEW q \in Seq(Faults), NEW r,
         DOMAIN r = DOMAIN q, r = [i \in DOMAIN q |-> r[i]],
         \A i \in DOMAIN q : r[i] \in ExecSet
  PROVE  r \in Seq(ExecSet)
<1>1. DOMAIN q = 1 .. Len(q) /\ Len(q) \in Nat
  OBVIOUS
<1>2. r \in [1 .. Len(q) -> ExecSet]
  BY <1>1
<1> QED
  BY <1>1, <1>2

LEMMA StartedTyped ==
  ASSUME FaultsTyped, NEW late \in SetToSeqs(Escalating)
  PROVE  Started(late) \in Seq(ExecSet)
<1> DEFINE early == Those(Order, {i \in DOMAIN Order :
                                    Order[i] \in Detected /\ Recovers(Order[i])})
           p(f, n) == [name |-> Groups[Fault[f].group][n], age |-> 0]
           a == [i \in DOMAIN early |-> p(early[i], 1)]
           b == [i \in DOMAIN late |-> p(late[i], recov[late[i]].level + 1)]
<1>1. /\ early \in Seq(Faults)
      /\ \A i \in DOMAIN early : early[i] \in Faults /\ Recovers(early[i])
  <2>1. Order \in Seq(Faults)
    BY FdirAssumption
  <2>2. early \in Seq(Faults)
        /\ Picks(early, Order, {i \in DOMAIN Order :
                                  Order[i] \in Detected /\ Recovers(Order[i])})
    BY <2>1, ThoseArePicked
  <2> HIDE DEF early
  <2>3. \A i \in DOMAIN early : early[i] \in Faults
    BY <2>2
  <2>4. \A i \in DOMAIN early : Recovers(early[i])
    BY <2>2 DEF Picks
  <2> QED
    BY <2>2, <2>3, <2>4
<1>2. /\ late \in Seq(Faults)
      /\ \A i \in DOMAIN late : late[i] \in Escalating
  <2> DEFINE E == Escalating
  <2>1. E \subseteq Faults
    BY DEF Escalating, Expired, FaultsTyped
  <2> HIDE DEF E
  <2>2. IsFiniteSet(E)
    BY <2>1, FaultsFinite, FS_Subset
  <2>3. Cardinality(E) \in Nat
    BY <2>2, FS_CardinalityType
  <2>4. late \in [1 .. Cardinality(E) -> E]
    BY Zenon DEF SetToSeqs, E
  <2>5. late \in Seq(Faults) /\ \A i \in DOMAIN late : late[i] \in E
    BY <2>1, <2>3, <2>4
  <2> QED
    BY <2>5 DEF E
<1>3. Started(late) = a \o b
  BY Zenon DEF Started, StartedBy
<1>4. a \in Seq(ExecSet)
  <2>1. ASSUME NEW i \in DOMAIN early PROVE p(early[i], 1) \in ExecSet
    <3>1. early[i] \in Faults /\ Recovers(early[i])
      BY <1>1
    <3> HIDE DEF early
    <3>2. 1 \in 1 .. Len(Group(early[i]))
      <4>1. Len(Groups[Fault[early[i]].group]) \in 1 .. Len(LevelDelay)
        BY <3>1, FdirAssumption DEF Recovers
      <4>2. Len(LevelDelay) \in Nat
        BY FdirAssumption
      <4> QED
        BY <4>1, <4>2 DEF Group
    <3>3. Groups[Fault[early[i]].group][1] \in Names
      BY <3>1, <3>2, GroupTyped
    <3> QED
      BY <3>3 DEF ExecSet
  <2>2. DOMAIN a = DOMAIN early /\ a = [i \in DOMAIN early |-> a[i]]
        /\ \A i \in DOMAIN early : a[i] = p(early[i], 1)
    OBVIOUS
  <2> HIDE DEF a, p, early
  <2>3. \A i \in DOMAIN early : a[i] \in ExecSet
    BY <2>1, <2>2
  <2> QED
    BY <1>1, <2>2, <2>3, StartedByTyped
<1>5. b \in Seq(ExecSet)
  <2>1. ASSUME NEW i \in DOMAIN late
        PROVE  p(late[i], recov[late[i]].level + 1) \in ExecSet
    <3>1. late[i] \in Faults
      BY <1>2
    <3> DEFINE f == late[i]
               n == recov[f].level + 1
    <3>2. /\ recov[f].state = "RUNNING" /\ recov[f].level < Len(Group(f))
          /\ RecovTyped(recov[f], f)
      BY <1>2, <3>1 DEF Escalating, Expired, Group, FaultsTyped
    <3>3. Recovers(f) /\ recov[f].level \in Nat
      BY <3>2 DEF RecovTyped, IsRecovery
    <3>4. Len(Group(f)) \in Nat
      <4>1. Len(Groups[Fault[f].group]) \in 1 .. Len(LevelDelay)
        BY <3>1, <3>3, FdirAssumption DEF Recovers
      <4>2. Len(LevelDelay) \in Nat
        BY FdirAssumption
      <4> QED
        BY <4>1, <4>2 DEF Group
    <3>5. n \in 1 .. Len(Group(f))
      BY <3>2, <3>3, <3>4
    <3> HIDE DEF f, n
    <3>6. Groups[Fault[f].group][n] \in Names
      BY <3>1, <3>3, <3>5, GroupTyped DEF f
    <3> QED
      BY <3>6 DEF ExecSet, f, n
  <2>2. DOMAIN b = DOMAIN late /\ b = [i \in DOMAIN late |-> b[i]]
        /\ \A i \in DOMAIN late : b[i] = p(late[i], recov[late[i]].level + 1)
    OBVIOUS
  <2> HIDE DEF b, p
  <2>3. \A i \in DOMAIN late : b[i] \in ExecSet
    BY <2>1, <2>2
  <2> QED
    BY <1>2, <2>2, <2>3, StartedByTyped
<1> HIDE DEF a, b
<1> QED
  BY <1>3, <1>4, <1>5

LEMMA OngoingTyped ==
  ASSUME NEW ps \in Seq(ExecSet) PROVE Ongoing(ps) \in Seq(ExecSet)
BY ThoseArePicked DEF Ongoing

-----------------------------------------------------------------------------
(* Every action keeps the types.                                           *)
LEMMA BasicTyped == ASSUME Typed, Basic PROVE EnvTyped' /\ RulesTyped'
<1>1. EnvTyped'
  <2>1. UNCHANGED <<signs, soc, commissioned, reloaded, changes>> /\ stage' = soc
    BY DEF Basic, environment
  <2>2. scMode' \in {"SAFE", "NOMINAL", "SCIENCE", "EMERGENCY"}
    BY DEF Basic, ModeOf
  <2> QED
    BY <2>1, <2>2 DEF Typed, EnvTyped
<1>2. RulesTyped'
  <2>1. triggered' = Met /\ ruleAcc' = [i \in RuleIds |-> RuleCount(i)]
    BY DEF Basic
  <2>2. ASSUME NEW i \in RuleIds PROVE RuleCount(i) \in 0 .. Rules[i].persist
    <3>1. Rules[i].persist \in Nat
      BY FdirAssumption
    <3>2. ruleAcc[i] \in 0 .. Rules[i].persist
      BY DEF Typed, RulesTyped
    <3> QED
      BY <3>1, <3>2 DEF RuleCount, AtMost
  <2> QED
    BY <2>1, <2>2 DEF RulesTyped, Met
<1> QED
  BY <1>1, <1>2

LEMMA RecovNextTyped ==
  ASSUME Typed, NEW f \in Faults, NEW q, q = RecovNext(f)
  PROVE  RecovTyped(q, f)
<1> DEFINE r == recov[f]
<1>1. RecovTyped(r, f) /\ IsRecovery(r)
  BY DEF Typed, FaultsTyped, RecovTyped
<1>2. Len(LevelDelay) \in Nat /\ 1 \in Levels
      /\ (Recovers(f) => Len(Group(f)) \in 1 .. Len(LevelDelay))
  <2>1. Len(LevelDelay) \in Nat /\ LevelDelay # << >> /\ LevelDelay \in Seq(Delay)
    BY FdirAssumption
  <2>2. Recovers(f) => Len(Groups[Fault[f].group]) \in 1 .. Len(LevelDelay)
    BY FdirAssumption DEF Recovers
  <2>3. Len(LevelDelay) >= 1
    BY <2>1
  <2> QED
    BY <2>1, <2>2, <2>3 DEF Levels, Group
<1>3. CASE f \in Detected /\ Recovers(f)
  BY <1>2, <1>3 DEF RecovNext, NewRecovery, RecovTyped, IsRecovery, States
<1>4. CASE ~(f \in Detected /\ Recovers(f)) /\ f \in Resolved /\ r.state # "NONE"
  <2>1. q = Ended(r, "COMPLETE")
    BY <1>4 DEF RecovNext, Ended
  <2>3. Continues(q, r, "COMPLETE")
    BY <1>1, <2>1, EndedContinues
  <2> QED
    BY <1>1, <1>4, <2>3 DEF RecovTyped, States, Continues
<1>5. CASE /\ ~(f \in Detected /\ Recovers(f))
           /\ ~(f \in Resolved /\ r.state # "NONE")
           /\ f \in Escalating
  <2>1. q = [state |-> "RUNNING", level |-> r.level + 1,
             attempts |-> r.attempts + 1, since |-> 0]
    BY <1>5 DEF RecovNext
  <2>2. r.level < Len(Group(f)) /\ r.state = "RUNNING" /\ r.level \in Nat
    BY <1>1, <1>5 DEF Escalating, Expired, Group, IsRecovery
  <2>3. Recovers(f) /\ r.attempts = r.level
    BY <1>1, <2>2 DEF RecovTyped
  <2>4. r.level + 1 \in Levels /\ r.level + 1 \in Nat
    BY <1>2, <2>2, <2>3 DEF Levels
  <2> QED
    BY <2>1, <2>3, <2>4 DEF RecovTyped, IsRecovery, States
<1>6. CASE /\ ~(f \in Detected /\ Recovers(f))
           /\ ~(f \in Resolved /\ r.state # "NONE")
           /\ f \notin Escalating /\ f \in Expired
  <2>1. q = Ended(r, "FAILED")
    BY <1>6 DEF RecovNext, Ended
  <2>3. Continues(q, r, "FAILED")
    BY <1>1, <2>1, EndedContinues
  <2>4. r.state = "RUNNING"
    BY <1>6 DEF Expired
  <2> QED
    BY <1>1, <2>3, <2>4 DEF RecovTyped, States, Continues
<1>7. CASE /\ ~(f \in Detected /\ Recovers(f))
           /\ ~(f \in Resolved /\ r.state # "NONE")
           /\ f \notin Escalating /\ f \notin Expired
  <2>1. q = Aging(f)
    BY <1>7 DEF RecovNext, Aging, Waited
  <2>2. Continues(q, r, r.state)
    BY <1>1, <2>1, AgingContinues
  <2> QED
    BY <1>1, <2>2 DEF RecovTyped, Continues
<1> QED
  BY <1>3, <1>4, <1>5, <1>6, <1>7

LEMMA DoneNextTyped ==
  ASSUME Typed, NEW f \in Faults PROVE DoneNext(f) \subseteq DOMAIN Cascades(f)
<1>1. done[f] \subseteq DOMAIN Cascades(f)
  BY DEF Typed, FaultsTyped
<1>2. ASSUME NEW i \in Due, pending[i].fault = f
      PROVE  pending[i].k \in DOMAIN Cascades(f)
  <2>1. i \in DOMAIN pending
    BY DEF Due, Kept
  <2>2. pending[i] \in PendingSet
    BY <2>1 DEF Typed
  <2> QED
    BY <1>2, <2>2 DEF PendingSet
<1> QED
  BY <1>1, <1>2 DEF DoneNext

LEMMA AllTyped ==
  ASSUME NEW a \in Seq(Commands), NEW b \in Seq(Commands),
         NEW c \in Seq(Commands), NEW d \in Seq(Commands)
  PROVE  a \o b \o c \o d \in Seq(Commands) /\ a \o b \o d \in Seq(Commands)
OBVIOUS

LEMMA TickTyped == ASSUME Typed, Tick PROVE Typed'
<1>1. EnvTyped' /\ RulesTyped'
  BY BasicTyped DEF Tick
<1>2. PICK late \in SetToSeqs(Escalating) :
        \E started \in {Started(late)} : \E ps \in {Executing(started)} :
          /\ procs' = Ongoing(ps)
          /\ \E all \in {RuleEffects \o StageEffects \o CascadeEffects
                           \o StepEffects(ps)} : loads' = Commanded(all)
  BY Zenon DEF Tick
<1> DEFINE started == Started(late)
           ps == Executing(started)
           all == RuleEffects \o StageEffects \o CascadeEffects \o StepEffects(ps)
<1>3. procs' = Ongoing(ps) /\ loads' = Commanded(all)
  BY <1>2, Zenon
<1>4. started \in Seq(ExecSet)
  BY StartedTyped DEF Typed
<1> HIDE DEF started
<1>5. ps \in Seq(ExecSet)
  BY <1>4, ExecutingTyped DEF Typed
<1> HIDE DEF ps
<1>6. procs' \in Seq(ExecSet)
  BY <1>3, <1>5, OngoingTyped
<1>7. all \in Seq(Commands)
  <2>1. RuleEffects \in Seq(Commands) /\ StageEffects \in Seq(Commands)
        /\ CascadeEffects \in Seq(Commands) /\ StepEffects(ps) \in Seq(Commands)
    BY <1>5, RuleEffectsTyped, StageEffectsTyped, CascadeEffectsTyped,
       StepEffectsTyped DEF Typed, EnvTyped
  <2> QED
    BY <2>1, AllTyped
<1> HIDE DEF all
<1>8. loads' \in [LoadNames -> Nat]
  BY <1>3, <1>7, CommandedTyped DEF Typed
<1>9. pending' \in Seq(PendingSet)
  <2>1. pending' = Those(Aged, Kept \ Due) \o Fresh
    BY DEF Tick, Waiting
  <2>2. Those(Aged, Kept \ Due) \in Seq(PendingSet)
    BY AgedTyped DEF Typed
  <2>3. Fresh \in Seq(PendingSet)
    BY FreshTyped
  <2> HIDE DEF PendingSet
  <2> QED
    BY <2>1, <2>2, <2>3
<1>10. FaultsTyped'
  <2>1. active' = StillActive /\ acc' = [f \in Faults |-> FaultCount(f)]
        /\ recov' = [f \in Faults |-> RecovNext(f)]
        /\ done' = [f \in Faults |-> DoneNext(f)]
    BY DEF Tick
  <2>2. active' \subseteq Faults
    BY <2>1 DEF StillActive, Detected, Typed, FaultsTyped
  <2>3. ASSUME NEW f \in Faults PROVE FaultCount(f) \in 0 .. Fault[f].persist
    <3>1. Fault[f].persist \in Nat /\ acc[f] \in 0 .. Fault[f].persist
      BY FdirAssumption DEF Typed, FaultsTyped
    <3> QED
      BY <3>1 DEF FaultCount, AtMost
  <2>4. ASSUME NEW f \in Faults PROVE RecovTyped(recov'[f], f)
    BY <2>1, RecovNextTyped
  <2>5. ASSUME NEW f \in Faults PROVE done'[f] \subseteq DOMAIN Cascades(f)
    BY <2>1, DoneNextTyped
  <2> QED
    BY <2>1, <2>2, <2>3, <2>4, <2>5 DEF FaultsTyped
<1> QED
  BY <1>1, <1>6, <1>8, <1>9, <1>10 DEF Typed

LEMMA DisarmedTyped == ASSUME Typed, DisarmedTick PROVE Typed'
<1>1. EnvTyped' /\ RulesTyped'
  BY BasicTyped DEF DisarmedTick
<1> DEFINE ps == Executing(<< >>)
           all == RuleEffects \o StageEffects \o StepEffects(ps)
<1>2. procs' = Ongoing(ps) /\ loads' = Commanded(all) /\ pending' = << >>
  BY Zenon DEF DisarmedTick
<1>3. ps \in Seq(ExecSet)
  <2>1. << >> \in Seq(ExecSet)
    OBVIOUS
  <2> QED
    BY <2>1, ExecutingTyped DEF Typed
<1> HIDE DEF ps
<1>4. all \in Seq(Commands)
  <2>1. RuleEffects \in Seq(Commands) /\ StageEffects \in Seq(Commands)
        /\ StepEffects(ps) \in Seq(Commands)
    BY <1>3, RuleEffectsTyped, StageEffectsTyped, StepEffectsTyped DEF Typed, EnvTyped
  <2> QED
    BY <2>1, AllTyped
<1> HIDE DEF all
<1>5. procs' \in Seq(ExecSet) /\ loads' \in [LoadNames -> Nat]
  BY <1>2, <1>3, <1>4, OngoingTyped, CommandedTyped DEF Typed
<1>6. FaultsTyped'
  <2>1. /\ active' = {} /\ done' = [f \in Faults |-> {}]
        /\ acc' = IF active # {} \/ pending # << >> THEN [f \in Faults |-> 0] ELSE acc
        /\ recov' = [f \in Faults |-> Aging(f)]
    BY DEF DisarmedTick, Aging, Waited
  <2>2. ASSUME NEW f \in Faults PROVE RecovTyped(recov'[f], f)
    <3>1. RecovTyped(recov[f], f) /\ IsRecovery(recov[f])
      BY DEF Typed, FaultsTyped, RecovTyped
    <3>2. Continues(recov'[f], recov[f], recov[f].state)
      BY <2>1, <3>1, AgingContinues
    <3> QED
      BY <3>1, <3>2 DEF RecovTyped, Continues
  <2>3. ASSUME NEW f \in Faults PROVE acc'[f] \in 0 .. Fault[f].persist
    <3>1. Fault[f].persist \in Nat /\ acc[f] \in 0 .. Fault[f].persist
      BY FdirAssumption DEF Typed, FaultsTyped
    <3>2. acc'[f] = 0 \/ acc'[f] = acc[f]
      BY <2>1
    <3> QED
      BY <3>1, <3>2
  <2> QED
    BY <2>1, <2>2, <2>3 DEF FaultsTyped
<1> QED
  BY <1>1, <1>2, <1>5, <1>6 DEF Typed

LEMMA TypedNext == Typed /\ [Next]_vars => Typed'
<1> SUFFICES ASSUME Typed, [Next]_vars PROVE Typed'
  OBVIOUS
<1>1. CASE Tick
  BY <1>1, TickTyped
<1>2. CASE DisarmedTick
  BY <1>2, DisarmedTyped
<1>3. CASE Reload
  <2>1. /\ UNCHANGED <<signs, soc, commissioned, loads, triggered, stage, active,
                       recov, done, procs, scMode>>
        /\ ruleAcc' = [i \in RuleIds |-> 0] /\ acc' = [f \in Faults |-> 0]
        /\ pending' = << >> /\ reloaded' \in BOOLEAN
        /\ changes < MaxChanges /\ changes' = changes + 1
    BY <1>3 DEF Reload, environment
  <2>2. changes' \in 0 .. MaxChanges
    BY <2>1, FdirAssumption DEF Typed, EnvTyped
  <2>3. EnvTyped'
    BY <2>1, <2>2 DEF Typed, EnvTyped
  <2>4. RulesTyped'
    <3>1. \A i \in RuleIds : Rules[i].persist \in Nat
      BY FdirAssumption
    <3> QED
      BY <2>1, <3>1 DEF Typed, RulesTyped
  <2>5. FaultsTyped'
    <3>1. \A f \in Faults : Fault[f].persist \in Nat
      BY FdirAssumption
    <3> QED
      BY <2>1, <3>1 DEF Typed, FaultsTyped
  <2> QED
    BY <2>1, <2>3, <2>4, <2>5 DEF Typed
<1>4. ASSUME Change, EnvTyped', loads' \in [LoadNames -> Nat] PROVE Typed'
  BY <1>4 DEF Change, rules, faults, Typed, RulesTyped, FaultsTyped
<1>5. ASSUME Change PROVE /\ changes' \in 0 .. MaxChanges
                          /\ UNCHANGED <<stage, reloaded, scMode>>
  BY <1>5, FdirAssumption DEF Change, Typed, EnvTyped, rules
<1>6. ASSUME NEW s \in Signs, SignChanges(s) PROVE Typed'
  <2>1. EnvTyped'
    BY <1>5, <1>6 DEF SignChanges, Typed, EnvTyped
  <2> QED
    BY <1>4, <1>6, <2>1 DEF SignChanges, Typed
<1>7. ASSUME NEW n \in DOMAIN Stages, SocChanges(n) PROVE Typed'
  <2>1. EnvTyped'
    BY <1>5, <1>7 DEF SocChanges, Typed, EnvTyped
  <2> QED
    BY <1>4, <1>7, <2>1 DEF SocChanges, Typed
<1>8. CASE PhaseChanges
  <2>0. commissioned' \in BOOLEAN
    BY <1>8, Zenon DEF PhaseChanges
  <2>1. EnvTyped'
    BY <1>5, <1>8, <2>0 DEF PhaseChanges, Typed, EnvTyped
  <2> QED
    BY <1>4, <1>8, <2>1 DEF PhaseChanges, Typed
<1>9. ASSUME NEW l \in LoadNames, NEW n \in LevelsOf[l], OperatorCommands(l, n)
      PROVE  Typed'
  <2>1. EnvTyped'
    BY <1>5, <1>9 DEF OperatorCommands, environment, Typed, EnvTyped
  <2>2. n \in Nat
    BY FdirAssumption
  <2>3. loads' \in [LoadNames -> Nat]
    BY <1>9, <2>2 DEF OperatorCommands, Typed
  <2> QED
    BY <1>4, <1>9, <2>1, <2>3 DEF OperatorCommands
<1>10. CASE UNCHANGED vars
  BY <1>10 DEF vars, environment, rules, faults, Typed, EnvTyped, RulesTyped, FaultsTyped
<1> QED
  BY <1>1, <1>2, <1>3, <1>6, <1>7, <1>8, <1>9, <1>10 DEF Next

(* Type correctness: loads, pending cascades, recoveries and procedures    *)
(* under way keep their ranges through any sequence of ticks, changes and  *)
(* breakpoint loads.                                                       *)
THEOREM TypeCorrect == Spec => []TypeOK
BY TypedInit, TypedNext, TypedImplies, PTL DEF Spec

-----------------------------------------------------------------------------
(* Cascades of an active fault: applied, or still to come.                 *)
LEMMA TickForgetsNothing ==
  ASSUME Typed, CascadesSurviveReload, Tick PROVE CascadesSurviveReload'
<1>1. /\ active' = StillActive
      /\ pending' = Those(Aged, Kept \ Due) \o Fresh
      /\ done' = [f \in Faults |-> DoneNext(f)]
  BY DEF Tick, Waiting
<1> DEFINE old == Those(Aged, Kept \ Due)
<1>2. old \in Seq(PendingSet) /\ Carries(old, Kept \ Due)
  BY AgedTyped DEF Typed
<1>3. Fresh \in Seq(PendingSet)
  BY FreshTyped
<1> HIDE DEF old
<1>4. /\ \A k \in DOMAIN old : k \in DOMAIN pending' /\ pending'[k] = old[k]
      /\ \A k \in DOMAIN Fresh : \E j \in DOMAIN pending' : pending'[j] = Fresh[k]
  <2>1. pending' = old \o Fresh
    BY <1>1 DEF old
  <2> HIDE DEF PendingSet
  <2>2. DOMAIN old = 1 .. Len(old) /\ DOMAIN Fresh = 1 .. Len(Fresh)
    BY <1>2, <1>3
  <2>3. /\ \A k \in 1 .. Len(old) : k \in DOMAIN pending' /\ pending'[k] = old[k]
        /\ \A k \in 1 .. Len(Fresh) :
             Len(old) + k \in DOMAIN pending' /\ pending'[Len(old) + k] = Fresh[k]
    BY <1>2, <1>3, <2>1, Concatenated
  <2> QED
    BY <2>2, <2>3
<1> SUFFICES ASSUME NEW f \in active', NEW k \in DOMAIN Cascades(f)
             PROVE  \/ k \in done'[f]
                    \/ \E i \in DOMAIN pending' :
                         pending'[i].fault = f /\ pending'[i].k = k
  BY DEF CascadesSurviveReload
<1>5. f \in Faults /\ f \in StillActive /\ done'[f] = DoneNext(f)
  BY <1>1 DEF StillActive, Detected, Typed, FaultsTyped
<1>6. CASE f \in Detected
  <2>1. PICK j \in DOMAIN Fresh : Fresh[j].fault = f /\ Fresh[j].k = k
    BY <1>6, FreshTyped
  <2> QED
    BY <1>4, <2>1
<1>7. CASE f \notin Detected
  <2>1. f \in active /\ f \notin Resolved
    BY <1>5, <1>7 DEF StillActive
  <2>2. CASE k \in done[f]
    BY <1>5, <1>7, <2>2 DEF DoneNext
  <2>3. CASE k \notin done[f]
    <3>1. PICK i \in DOMAIN pending : pending[i].fault = f /\ pending[i].k = k
      BY <2>1, <2>3 DEF CascadesSurviveReload
    <3>2. i \in Kept
      BY <2>1, <3>1 DEF Kept
    <3>3. CASE i \in Due
      BY <1>5, <3>1, <3>3 DEF DoneNext
    <3>4. CASE i \notin Due
      BY <1>2, <1>4, <3>1, <3>2, <3>4 DEF Carries
    <3> QED
      BY <3>3, <3>4
  <2> QED
    BY <2>2, <2>3
<1> QED
  BY <1>6, <1>7

LEMMA ForgottenNext ==
  Typed /\ NoCascadeForgotten /\ [Next]_vars => NoCascadeForgotten'
<1> SUFFICES ASSUME Typed, NoCascadeForgotten, [Next]_vars, ~reloaded'
             PROVE  CascadesSurviveReload'
  BY DEF NoCascadeForgotten
<1>1. ASSUME UNCHANGED <<active, pending, done, reloaded>>
      PROVE  CascadesSurviveReload'
  BY <1>1 DEF NoCascadeForgotten, CascadesSurviveReload
<1>2. CASE Tick
  BY <1>2, TickForgetsNothing DEF Tick, Basic, NoCascadeForgotten
<1>3. CASE DisarmedTick
  BY <1>3 DEF DisarmedTick, CascadesSurviveReload
<1>4. CASE Reload
  BY <1>4 DEF Reload
<1>5. ASSUME Change PROVE CascadesSurviveReload'
  BY <1>1, <1>5 DEF Change, faults
<1>6. CASE UNCHANGED vars
  BY <1>1, <1>6 DEF vars, faults
<1> QED
  BY <1>2, <1>3, <1>4, <1>5, <1>6
  DEF Next, SignChanges, SocChanges, PhaseChanges, OperatorCommands

(* As long as no breakpoint is loaded, each cascade of an active fault has *)
(* been applied or is still pending, whatever other faults are resolved,   *)
(* lose their power line or are detected again (_pending_cascades).        *)
THEOREM CascadesNeverForgotten == Spec => []NoCascadeForgotten
<1>1. Init => NoCascadeForgotten
  BY DEF Init, NoCascadeForgotten, CascadesSurviveReload
<1>2. Typed /\ NoCascadeForgotten /\ [Next]_vars => NoCascadeForgotten'
  BY ForgottenNext
<1> QED
  BY TypedInit, TypedNext, <1>1, <1>2, PTL DEF Spec
=============================================================================
