--------------------------- MODULE OnBoardMonitoring ---------------------------
(***************************************************************************)
(* On-board monitoring (S12) and event-action rules (S19): the definitions *)
(* and rules a telecommand changes, the check of every definition at each  *)
(* tick, the reports TM(12,9) and TM(12,10) of a transition, and the rules *)
(* a violation fires, which act on the very parameters being monitored     *)
(* (service_dispatch.py, engine.py, monitoring_loader.py).                 *)
(*                                                                         *)
(* A parameter is a small integer.  An absolute check wants it to be at    *)
(* most Limit, a delta check wants it to move by at most Limit from one    *)
(* evaluation to the next.                                                 *)
(***************************************************************************)
EXTENDS Integers

CONSTANTS
  Mons,       \* monitor ids
  Params,     \* monitored parameters
  Signal,     \* _TTC_SIGNAL_PARAMS
  Gated,      \* parameters whose source can be switched off
  Rules,      \* S19 rules on parameters: [param, effect, target]
  Loaded,     \* the definitions a configuration may load: Mons -> definitions
  Offered,    \* the definitions the ground may add
  MaxValue,   \* bound on a parameter's value
  Limit       \* the limit of every definition

NoValue == -1
Values == 0 .. MaxValue
Kinds == {"absolute", "delta"}
Definitions == [param : Params, check : Kinds, enabled : BOOLEAN]
RuleShapes == [param : Params, effect : {"dark", "nominal"}, target : Params]
Absent == [param |-> "none", check |-> "none", enabled |-> FALSE]

ASSUME OnBoardMonitoringAssumption ==
  /\ Signal \subseteq Params /\ Gated \subseteq Params
  /\ Rules \subseteq RuleShapes
  /\ \A r \in Rules : r.effect = "dark" => r.target \in Gated
  /\ Loaded \subseteq [Mons -> Definitions \cup {Absent}]
  /\ Offered \subseteq [param : Params, check : Kinds, enabled : {TRUE}]
  /\ MaxValue \in Nat /\ Limit \in Nat

VARIABLES
  value,      \* engine.params
  powered,    \* parameters whose source is powered and in an operational mode
  override,   \* _override_passes
  monOn,      \* _s12_enabled
  defs,       \* _s12_definitions, Absent where there is none
  last,       \* last_value of each definition
  active,     \* _s12_violation_active
  rulesOn,    \* _s19_enabled_ids
  told,       \* history: what the ground knows of each monitor
  wasPowered  \* history: the sources that were on at the last tick

world == <<value, powered, override>>
tables == <<monOn, defs, rulesOn>>
monitoringVars == <<world, tables, last, active, told, wasPowered>>

MonitoringTypeOK ==
  /\ value \in [Params -> Values \cup {NoValue}]
  /\ Params \ Gated \subseteq powered /\ powered \subseteq Params
  /\ override \in BOOLEAN /\ monOn \in BOOLEAN
  /\ defs \in [Mons -> Definitions \cup {Absent}]
  /\ last \in [Mons -> Values \cup {NoValue}]
  /\ active \subseteq Mons
  /\ rulesOn \subseteq Rules
  /\ told \in [Mons -> {"nominal", "out", "muted"}]
  /\ wasPowered \subseteq Params

MonitoringInit ==
  /\ value = [p \in Params |-> NoValue]
  /\ powered = Params \ Gated
  /\ override = FALSE /\ monOn = TRUE
  /\ defs \in Loaded
  /\ last = [m \in Mons |-> NoValue]
  /\ active = {} /\ rulesOn = Rules
  /\ told = [m \in Mons |-> "nominal"]
  /\ wasPowered = {}

-----------------------------------------------------------------------------
(* check_monitoring.                                                       *)

Distance(a, b) == IF a > b THEN a - b ELSE b - a

(* A definition that is looked at: neither disabled nor without a value.   *)
Looked(m) ==
  monOn /\ defs[m] # Absent /\ defs[m].enabled /\ value[defs[m].param] # NoValue

Sampled(m) == Looked(m) /\ defs[m].param \in powered

Violates(m) ==
  /\ Sampled(m)
  /\ LET v == value[defs[m].param] IN
       \/ defs[m].check = "absolute" /\ v > Limit
       \/ defs[m].check = "delta" /\ last[m] # NoValue /\ Distance(v, last[m]) > Limit

(* What the delta check compares with next: nothing, if the source is off. *)
Baseline(m) ==
  IF Sampled(m) THEN value[defs[m].param] ELSE IF Looked(m) THEN NoValue ELSE last[m]

-----------------------------------------------------------------------------
(* One tick of _tick_s12_monitoring.  The reports are about the values as  *)
(* they were checked; the rules change the world for the next tick.        *)

Violated == {m \in Mons : Violates(m)}
Suppressed(m) == override /\ defs[m].param \in Signal
New == Violated \ active
Entered == {m \in New : ~Suppressed(m)}

(* A mutant: a definition the ground deleted is not reported as cleared.   *)
ClearedDefined == {m \in active \ Violated : defs[m] # Absent}
Cleared == active \ Violated

Fired == {r \in rulesOn : \E m \in Entered : defs[m].param = r.param}

Act ==
  /\ powered' = powered \ {r.target : r \in {q \in Fired : q.effect = "dark"}}
  /\ value' = [p \in Params |->
       IF \E r \in Fired : r.effect = "nominal" /\ r.target = p THEN 0 ELSE value[p]]

Report == told' = [m \in Mons |->
  CASE m \in Entered -> "out" [] m \in New \ Entered -> "muted"
    [] m \in Cleared -> "nominal" [] OTHER -> told[m]]

(* A mutant: a monitor never leaves the active set.                        *)
TickKeepsActive ==
  /\ active' = active \cup Violated
  /\ last' = [m \in Mons |-> Baseline(m)]
  /\ Report
  /\ Act
  /\ wasPowered' = IF monOn THEN powered ELSE Params
  /\ UNCHANGED <<override, tables>>

MonitoringTick ==
  /\ active' = Violated
  /\ last' = [m \in Mons |-> Baseline(m)]
  /\ Report
  /\ Act
  /\ wasPowered' = IF monOn THEN powered ELSE Params
  /\ UNCHANGED <<override, tables>>

-----------------------------------------------------------------------------
(* Telecommands of S12 and S19.  TC(12,3) and TC(12,4) have a handler, but *)
(* the acceptance table refuses them before it is reached.                 *)

tick == <<active, told, wasPowered>>

SetMonitoring(on) ==
  /\ monOn' = on
  /\ UNCHANGED <<world, defs, rulesOn, last, tick>>

AddDefinition(m, d) ==
  /\ defs' = [defs EXCEPT ![m] = d]
  /\ last' = [last EXCEPT ![m] = NoValue]
  /\ UNCHANGED <<world, monOn, rulesOn, tick>>

DeleteDefinition(m) ==
  /\ defs' = [defs EXCEPT ![m] = Absent]
  /\ last' = [last EXCEPT ![m] = NoValue]
  /\ UNCHANGED <<world, monOn, rulesOn, tick>>

SetRule(r, on) ==
  /\ rulesOn' = IF on THEN rulesOn \cup {r} ELSE rulesOn \ {r}
  /\ UNCHANGED <<world, monOn, defs, last, tick>>

(* The models write a parameter, a source is switched, the instructor      *)
(* forces the passes.                                                      *)
WriteParam(p, v) ==
  /\ value' = [value EXCEPT ![p] = v]
  /\ UNCHANGED <<powered, override, tables, last, tick>>

SwitchSource(p) ==
  /\ powered' = IF p \in powered THEN powered \ {p} ELSE powered \cup {p}
  /\ UNCHANGED <<value, override, tables, last, tick>>

ToggleOverride ==
  /\ override' = ~override
  /\ UNCHANGED <<value, powered, tables, last, tick>>

MonitoringNext ==
  \/ MonitoringTick
  \/ \E on \in BOOLEAN : SetMonitoring(on)
  \/ \E m \in Mons, d \in Offered : AddDefinition(m, d)
  \/ \E m \in Mons : DeleteDefinition(m)
  \/ \E r \in Rules, on \in BOOLEAN : SetRule(r, on)
  \/ \E p \in Params, v \in Values : WriteParam(p, v)
  \/ \E p \in Gated : SwitchSource(p)
  \/ ToggleOverride

MonitoringSpec == MonitoringInit /\ [][MonitoringNext]_monitoringVars /\ WF_monitoringVars(MonitoringTick)

-----------------------------------------------------------------------------
(* Properties.                                                             *)

(* What the ground knows of a monitor is what the last tick found: each     *)
(* TM(12,9) has its TM(12,10), whatever was deleted, redefined, disabled or *)
(* switched off in between (_tick_s12_monitoring compares the active set    *)
(* with the violations of the tick).  Only a forced pass keeps an entry     *)
(* from the ground, and the return is then reported all the same.           *)
GroundAgrees == active = {m \in Mons : told[m] # "nominal"}

(* Equipment that comes up is no step change: a delta check that enters     *)
(* violation compares two samples of a source that was on at the tick       *)
(* before, unless monitoring itself was off then (check_monitoring drops    *)
(* the baseline of a source that is off).                                   *)
PowerUpIsNoStep ==
  [][\A m \in active' \ active :
       defs[m].check = "delta" => defs[m].param \in wasPowered]_monitoringVars

(* A monitored parameter that stays beyond its limit is entered, and        *)
(* reported unless a forced pass mutes it, however often rules act,         *)
(* definitions change or monitoring is switched.                            *)
OutOfLimit(m) ==
  Sampled(m) /\ defs[m].check = "absolute" /\ value[defs[m].param] > Limit

ViolationReported ==
  \A m \in Mons : OutOfLimit(m) ~> (told[m] # "nominal" \/ ~OutOfLimit(m))
=============================================================================
