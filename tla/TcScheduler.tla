---------------------------- MODULE TcScheduler ----------------------------
(***************************************************************************)
(* PUS Service 11, the time-tagged schedule: TCScheduler of                *)
(* smo_simulator/tc_scheduler.py, its telecommand handler, and the part of *)
(* the engine tick that drives it: the sub-stepped on-board clock, the     *)
(* draining of uplinked telecommands, the release of due commands and      *)
(* their dispatch one after the other.                                     *)
(*                                                                         *)
(* Time is counted in units; PerSecond units make a second, so that ticks  *)
(* of a fraction of a second (speeds such as 0.5 or 1.5) can be expressed. *)
(***************************************************************************)
EXTENDS Integers, FiniteSets

CONSTANTS Names,      \* names of telecommands that can be scheduled
          Body,       \* Body[n]: what telecommand n asks for
          Uplinks,    \* requests the ground can send
          PerSecond,  \* time units in a second; dt_max_s is one second
          TickSizes,  \* simulated time, in units, one engine tick can cover
          MaxSubsteps,\* max_substeps
          UnixOffset, \* seconds from the Unix epoch to TIME_EPOCH
          MaxIds,     \* bound: commands inserted in a behaviour
          Horizon,    \* bound: the second at which both clocks stop
          MaxRestores \* bound: breakpoint loads in a behaviour

Request == [op : {"plain", "insert", "delete", "delete_all", "enable",
                  "disable", "set_time", "gps_time_sync"},
            at : Nat, id : Nat, tc : Names]

ASSUME TcSchedulerAssumption ==
  /\ Body \in [Names -> Request]
  /\ Uplinks \subseteq Request
  /\ PerSecond \in Nat \ {0}
  /\ TickSizes \subseteq Nat \ {0}
  /\ MaxSubsteps \in Nat \ {0}
  /\ UnixOffset \in Nat /\ MaxIds \in Nat /\ Horizon \in Nat
  /\ MaxRestores \in Nat

VARIABLES
  commands,   \* _commands: identifier -> execution time and telecommand
  next_id,    \* _next_id
  enabled,    \* _enabled
  obc_time,   \* obc_time_cuc, whole seconds
  set_by,     \* observer: what last set that clock other than ticking
  sim_time,   \* _sim_time, in units since TIME_EPOCH
  dt_sub,     \* length of the sub-step in progress, 0 between ticks
  step,       \* where the engine tick is
  due,        \* released commands still to be dispatched, by identifier
  current,    \* the request being handled, or None
  dispatched, \* observer: identifiers of the commands dispatched
  saved,      \* what the latest breakpoint holds, at first the initial state
  restores    \* bound: breakpoint loads so far

scheduleVars == <<commands, next_id, enabled, obc_time, set_by, sim_time, dt_sub, step,
          due, current, dispatched, saved, restores>>

Ids == 1 .. MaxIds

Nothing == [i \in {} |-> 0]

(* In "current", a request or none.                                        *)
None == [op |-> "none"]
Idle == current = None

(* The part of the state that a breakpoint holds.                          *)
Held == [commands |-> commands, next_id |-> next_id, enabled |-> enabled,
         obc_time |-> obc_time, set_by |-> set_by, sim_time |-> sim_time, dispatched |-> dispatched]

Entry == [exec_time : Nat, tc : Names]

Least(a, b) == IF a <= b THEN a ELSE b

Drop(f, S) == [i \in DOMAIN f \ S |-> f[i]]

ScheduleInit ==
  /\ commands = Nothing
  /\ next_id = 1
  /\ enabled = TRUE
  /\ obc_time = 0
  /\ set_by = "start"
  /\ sim_time = 0
  /\ dt_sub = 0
  /\ step = "idle"
  /\ due = Nothing
  /\ Idle
  /\ dispatched = {}
  /\ saved = Held
  /\ restores = 0
-----------------------------------------------------------------------------
(* _tick_once splits a tick into n equal sub-steps of at most a second, as *)
(* long as n does not exceed max_substeps, ...                             *)
Substeps(dt) == Least((dt + PerSecond - 1) \div PerSecond, MaxSubsteps)

(* ... and in each of them the clock of the computer gains int(dt / n).    *)
Gain(dt) == Substeps(dt) * (dt \div (Substeps(dt) * PerSecond))

(* An engine tick begins: the models tick, the on-board clock among them.  *)
(* _sim_time follows at the end of each sub-step, so that it is one behind *)
(* while the last sub-step drains, releases and dispatches.                *)
Tick(dt) ==
  /\ step = "idle"
  /\ obc_time' = Least(obc_time + Gain(dt), Horizon)
  /\ dt_sub' = dt \div Substeps(dt)
  /\ sim_time' = Least(sim_time + dt - dt_sub', Horizon * PerSecond)
  /\ step' = "drain"
  /\ UNCHANGED <<commands, next_id, enabled, set_by, due, current, dispatched,
                 saved, restores>>

(* _drain_tc_queue takes a telecommand that was uplinked.                  *)
Uplink(r) ==
  /\ step = "drain" /\ Idle
  /\ current' = r
  /\ UNCHANGED <<commands, next_id, enabled, obc_time, set_by, sim_time, dt_sub, step, due,
                 dispatched, saved, restores>>

(* TCScheduler.tick: every command whose time has come leaves the          *)
(* schedule, unless it is disabled.                                        *)
IsDueEarly(i) == commands[i].exec_time <= obc_time + 1   \* mutant: rounds up

IsDue(i) == commands[i].exec_time <= obc_time

Releasable == {i \in DOMAIN commands : enabled /\ IsDue(i)}

KeptAll == commands   \* mutant: released commands are not removed

Kept == Drop(commands, Releasable)

Release ==
  /\ step = "drain" /\ Idle
  /\ due' = [i \in Releasable |-> commands[i]]
  /\ commands' = Kept
  /\ step' = "dispatch"
  /\ UNCHANGED <<next_id, enabled, obc_time, set_by, sim_time, dt_sub, current, dispatched,
                 saved, restores>>

(* The dispatch loop: insertion order is the order of identifiers.         *)
Dispatch(i) ==
  /\ step = "dispatch" /\ Idle
  /\ i \in DOMAIN due
  /\ \A j \in DOMAIN due : i <= j
  /\ current' = Body[due[i].tc]
  /\ due' = Drop(due, {i})
  /\ dispatched' = dispatched \cup {i}
  /\ UNCHANGED <<commands, next_id, enabled, obc_time, set_by, sim_time, dt_sub, step, saved, restores>>

EndTick ==
  /\ step = "dispatch" /\ Idle
  /\ DOMAIN due = {}
  /\ step' = "idle"
  /\ sim_time' = Least(sim_time + dt_sub, Horizon * PerSecond)
  /\ dt_sub' = 0
  /\ UNCHANGED <<commands, next_id, enabled, obc_time, set_by, due, current,
                 dispatched, saved, restores>>
-----------------------------------------------------------------------------
(* The handlers: _handle_s11, S9.1 set_time and S8.1 gps_time_sync.  The   *)
(* bound MaxIds leaves further inserts out.                                *)
Rest == <<sim_time, dt_sub, step, due, dispatched, saved, restores>>

Handling(op) == current.op = op /\ current' = None /\ UNCHANGED Rest

(* Any other telecommand, and one that is refused before it reaches its    *)
(* handler or by it: at a gate, too short, no 3D fix for gps_time_sync.    *)
HandleElsewhere ==
  /\ ~Idle
  /\ current' = None
  /\ UNCHANGED <<commands, next_id, enabled, obc_time, set_by, Rest>>

IdReused == Cardinality(DOMAIN commands) + 1   \* mutant: counts what is there

IdFresh == next_id

HandleInsert ==
  /\ Handling("insert")
  /\ next_id <= MaxIds
  /\ next_id' = next_id + 1
  /\ commands' = [i \in DOMAIN commands \cup {IdFresh} |->
                    IF i = IdFresh THEN [exec_time |-> current.at, tc |-> current.tc]
                                   ELSE commands[i]]
  /\ UNCHANGED <<enabled, obc_time, set_by>>

HandleDelete ==
  /\ Handling("delete")
  /\ commands' = Drop(commands, {current.id})
  /\ UNCHANGED <<next_id, enabled, obc_time, set_by>>

HandleDeleteAll ==
  /\ Handling("delete_all")
  /\ commands' = Drop(commands, DOMAIN commands)
  /\ UNCHANGED <<next_id, enabled, obc_time, set_by>>

HandleEnable ==
  /\ Handling("enable")
  /\ enabled' = TRUE
  /\ UNCHANGED <<commands, next_id, obc_time, set_by>>

HandleDisable ==
  /\ Handling("disable")
  /\ enabled' = FALSE
  /\ UNCHANGED <<commands, next_id, obc_time, set_by>>

HandleSetTime ==
  /\ Handling("set_time")
  /\ obc_time' = Least(current.at, Horizon)
  /\ set_by' = "command"
  /\ UNCHANGED <<commands, next_id, enabled>>

(* gps_time_sync writes sim_time.timestamp(), which counts from the Unix   *)
(* epoch, into a clock that counts from TIME_EPOCH.                        *)
HandleGpsTimeSync ==
  /\ Handling("gps_time_sync")
  /\ obc_time' = Least(sim_time \div PerSecond + UnixOffset, Horizon)
  /\ set_by' = "gps"
  /\ UNCHANGED <<commands, next_id, enabled>>

Handle ==
  \/ HandleElsewhere \/ HandleInsert \/ HandleDelete \/ HandleDeleteAll
  \/ HandleEnable \/ HandleDisable \/ HandleSetTime \/ HandleGpsTimeSync
-----------------------------------------------------------------------------
(* Between ticks the BreakpointManager calls get_state() or set_state() of *)
(* the scheduler, the engine (sim_time) and the computer (obc_time_cuc).   *)
SaveBreakpoint ==
  /\ restores < MaxRestores
  /\ step = "idle"
  /\ saved' = Held
  /\ UNCHANGED <<commands, next_id, enabled, obc_time, set_by, sim_time, dt_sub, step, due,
                 current, dispatched, restores>>

RestoredSchedule == [commands |-> saved.commands, next_id |-> saved.next_id]

LoadBreakpoint ==
  /\ restores < MaxRestores
  /\ restores' = restores + 1
  /\ step = "idle"
  /\ commands' = RestoredSchedule.commands
  /\ next_id' = RestoredSchedule.next_id
  /\ enabled' = saved.enabled
  /\ obc_time' = saved.obc_time
  /\ set_by' = saved.set_by
  /\ sim_time' = saved.sim_time
  /\ dispatched' = saved.dispatched
  /\ UNCHANGED <<dt_sub, step, due, current, saved>>

DispatchOne == \E i \in Ids : Dispatch(i)

ScheduleNext ==
  \/ \E dt \in TickSizes : Tick(dt)
  \/ \E r \in Uplinks : Uplink(r)
  \/ Release
  \/ DispatchOne
  \/ EndTick
  \/ Handle
  \/ SaveBreakpoint
  \/ LoadBreakpoint

(* The tick loop never stops, and a tick runs to its end: the queue that   *)
(* _drain_tc_queue empties holds at most 500 telecommands and the ground   *)
(* sends them more slowly than the engine takes them.                      *)
Fairness ==
  /\ WF_scheduleVars(\E dt \in TickSizes : Tick(dt))
  /\ SF_scheduleVars(Release)
  /\ WF_scheduleVars(DispatchOne)
  /\ WF_scheduleVars(EndTick)
  /\ WF_scheduleVars(Handle)

ScheduleSpec == ScheduleInit /\ [][ScheduleNext]_scheduleVars /\ Fairness
-----------------------------------------------------------------------------
ScheduleTypeOK ==
  /\ DOMAIN commands \subseteq Ids /\ commands \in [DOMAIN commands -> Entry]
  /\ next_id \in 1 .. MaxIds + 1
  /\ enabled \in BOOLEAN
  /\ obc_time \in Nat /\ set_by \in {"start", "command", "gps"}
  /\ sim_time \in Nat /\ dt_sub \in Nat
  /\ step \in {"idle", "drain", "dispatch"}
  /\ DOMAIN due \subseteq Ids /\ due \in [DOMAIN due -> Entry]
  /\ current \in Request \cup {None}
  /\ dispatched \subseteq Ids
  /\ DOMAIN saved.commands \subseteq 1 .. saved.next_id - 1
  /\ saved.next_id \in 1 .. MaxIds + 1
  /\ restores \in 0 .. MaxRestores

(* What became of each identifier in the state h, with the commands        *)
(* released in it, for the abstract specification.                         *)
StatusIn(h, released) ==
  [i \in Ids |->
     CASE i \in h.dispatched      -> "dispatched"
       [] i \in released          -> "released"
       [] i \in DOMAIN h.commands -> "scheduled"
       [] i >= h.next_id          -> "unused"
       [] OTHER                   -> "deleted"]

Promise == INSTANCE TimeTags WITH
  status <- StatusIn(Held, DOMAIN due),
  saved  <- [status |-> StatusIn(saved, {}), enabled |-> saved.enabled]

(* The scheduler keeps the promises of TimeTags, whatever a dispatched     *)
(* command does to the schedule it came from.                              *)
KeepsPromise == Promise!Spec

(* A command runs no earlier than its time tag while the clock only ticks: *)
(* the mission second it was tagged for begins no later than the sub-step  *)
(* that releases it ends, however ticks are split, whatever was loaded and *)
(* whatever the commands before it did to the schedule.                    *)
NeverEarly ==
  set_by = "start" =>
    \A i \in DOMAIN due : due[i].exec_time * PerSecond <= sim_time + dt_sub

(* gps_time_sync is to put the clock right: a clock it set is no further   *)
(* than the mission.  It holds only for UnixOffset = 0.                    *)
SyncedClockRight == set_by = "gps" => obc_time * PerSecond <= sim_time + dt_sub

(* simulation.yaml: sub-stepping grows the step "rather than losing        *)
(* simulated time", so a clock that only ticks keeps up with it.           *)
ClockKeepsPace == set_by = "start" => obc_time >= sim_time \div PerSecond

(* A scheduled command leaves the schedule in the end, unless the schedule *)
(* is disabled or the ground sets the clock.                               *)
EveryTagFires ==
  \A i \in Ids :
    i \in DOMAIN commands ~>
      (i \notin DOMAIN commands \/ ~enabled \/ set_by = "command")
=============================================================================
