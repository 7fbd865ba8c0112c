# TLA+ models of the space mission simulator (SMO)

This directory holds TLA+ specifications of the control logic of the simulator
under `src/packages/`, the TLC configurations that check them, and TLAPS proofs
of their central invariants. Every definition is translated from the source;
`PROJECT.json` maps definitions to lines.

## 1. The system

The repository simulates a spacecraft, its ground segment and the link between
them. Five Python packages carry the logic:

| Part | State | Operations | Interacts with | Modelled by |
|---|---|---|---|---|
| **Simulation engine** (`smo_simulator/engine.py`) | simulated time, spacecraft phase and mode, queues (`tm_queue`, `tc_queue`, `instr_queue`, events), dump queue, FDIR counters, published snapshot | one thread runs a tick per second: instructor queue, then sub-steps of the models, telecommand queue, schedule, control procedures, monitoring, FDIR, emission | every on-board component below; the server's asyncio loop through the queues; HTTP threads through the snapshot | its part in every module of the simulator |
| **Telecommand dispatch** (`engine._dispatch_tc`, `service_dispatch.py`) | the telecommand being handled, counters of received, accepted and rejected ones | gates (boot loader, failed bus, acceptance, power), handlers of PUS services 2 to 20, verification reports S1 | re-entered by the schedule, control procedures and event actions | `TcVerification`, and the handlers in the modules of their components |
| **On-board computer, spacecraft phases** (`models/obdh_basic.py`, `engine.py`) | images, units, counters, watchdog, boot countdown; phase, separation timer, telemetry services | reboot, boot, switch over, configure services | instructor, telecommands, failures | `ObcBoot` |
| **Time-tagged schedule** (`tc_scheduler.py`) | scheduled commands, next identifier, enabled | insert, delete, enable, disable, tick | dispatch; the on-board clock | `TcScheduler`, `TimeTags` |
| **Control procedures** (`obcp.py`) | stored procedures, runs | load, delete, start, stop, tick | dispatch, which can re-enter the manager | `Obcp` |
| **Telemetry storage and playback** (`tm_storage.py`, `engine.queue_dump`, `_tick_dump_emission`) | stores, overflow flags, dump queue, active stores, byte budget | store, switch, delete, dump, paced release | emission of telemetry; the dump archive on disk | `TmDump`, `DumpArchive` |
| **On-board monitoring and event actions** (S12, S19) | definitions, baselines, active violations, rules | add, delete, switch, evaluate; fire rules | dispatch, power of the sources | `OnBoardMonitoring` |
| **FDIR** (`engine._tick_fdir*`, `fdir.py`) | counters, active faults, cascades due, recoveries, procedures, mode | detect, clear, cascade, shed, recover, escalate | loads of every subsystem | `Fdir` |
| **Failures, scenarios, instructor** (`failure_manager.py`, `scenario_engine.py`) | active failures, scenario with its events | inject, ramp, expire, clear; start, fire, end, rewind | subsystem models, breakpoints, speed | `Training` |
| **Imager** (`models/payload_basic.py`) | mode, readiness, image catalogue and memory, strip monitor, calibration, transfer | capture, delete, calibrate, transfer, tick | power, pointing, telecommands | `Payload` |
| **Breakpoints** (`breakpoints.py`) | a file with the state of every component | save, load | every component | in the modules of the components |
| **Other subsystem models** (`models/`) | physics | tick, handle_command | engine | not modelled |
| **Simulator server, gateway** | client lists | accept, broadcast, relay, reconnect | `tm_queue`, `tc_queue` | the consumer of `tm_queue` in `DumpArchive` |
| **Control system** (`smo_mcs`) | procedure runner, verification log, alarm journal, panel, archives, displays | HTTP handlers, telemetry decoding | gateway | `ProcedureRunner`, `TcVerification`, `AlarmJournal` |
| **RF simulation** (`smo_rfsim`) | frame and codec state, sample buffers | modulate, decode, count frames | sits between gateway and simulator | not modelled |
| **Planner** (`smo_planner`) | activities, budgets | plan, check constraints, export | control system | not modelled |
| **Common library** (`smo_common`) | dump store, configuration history | encode, decode, edit, report | all | abstracted in its callers |

What is hard in it:

* **Re-entrancy.** A telecommand dispatched by the schedule, a control procedure
  or an event rule can change the very component that dispatched it, while that
  component is in the middle of a collection it has already copied, and shares
  the dispatcher's accumulators with the command it runs inside.
* **Threads and await points.** The engine thread, the asyncio loops and the
  HTTP handlers share queues and snapshots; the procedure runner's handlers
  write the state its task is in the middle of using, and an operator can
  acknowledge an alarm while the rest of its packet is still being filed.
* **One load, many commanders.** Cascades, threshold rules, load shedding,
  recovery procedures and operators command the same equipment, whose state is
  in turn what monitoring and FDIR judge.
* **Time acceleration.** A tick may stand for many seconds and is cut into
  sub-steps; delays, clocks and budgets must not depend on how it was cut.
* **Limits.** Every queue, store and journal is bounded and drops from one end.
* **Breakpoints.** They take the state of several components back at once, and
  not all of it.

`PROJECT.json` lists every component (also those that are not modelled, with the
reason) and the hazards at their lines.

## 2. Modules

| Module | Models |
|---|---|
| `Obcp` | `ObcpManager` with its telecommands, the dispatch of its steps and the tick |
| `TimeTags` | abstract: what a time-tagged schedule promises |
| `TcScheduler` | `TCScheduler`, its telecommands, the sub-stepped clock, the release loop; implements `TimeTags` |
| `TmDump` | the stores and the paced playback |
| `DumpArchive` | `TmDump` with the link and the archive files (EXTENDS it and adds variables) |
| `ProcedureRunner` | the control system's procedure runner, handlers and task |
| `ObcBoot` | the on-board computer composed with the spacecraft phase machine |
| `TcVerification` | uplink queue, gates, dispatch with event rules, S1 reports and their way down, the ground's log |
| `OnBoardMonitoring` | monitoring definitions, rules, the tick and the reports |
| `Fdir` | faults, cascades, load shedding, recoveries, procedures, spacecraft mode |
| `Training` | failure manager, scenario engine, instructor commands, breakpoints |
| `AlarmJournal` | ground limit check, journal, FDIR panel and archive of alarms |
| `Payload` | the imager and the telecommands that reach it |
| `Selections` | what a list comprehension with an "if" keeps; used by `Fdir`, `Training` and `AlarmJournal` |
| `SequenceLemmas` | lemmas about induction, recursive functions and sequences that the proofs share |
| `ObcpProofs`, `TmDumpProofs`, `FdirProofs`, `TrainingProofs`, `PayloadProofs` | TLAPS proofs about the module of that name |
| `OnBoardComputerProofs` | proofs about `ObcBoot`, `OnBoardMonitoring` and `TcScheduler` |
| `ControlSystemProofs` | proofs about `ProcedureRunner`, `AlarmJournal` and `TcVerification` |
| `MC*` | instances for TLC |

Where one module of proofs covers several components, the names of those
components say whose they are: `RunnerSpec`, `AlarmSpec`, `TcSpec`, `BootSpec`,
`MonitoringSpec`, `ScheduleSpec`.

`DumpArchive` composes `TmDump` with the ground; `TcScheduler` is composed with
its abstract specification `TimeTags` by a refinement mapping. The other modules
are closed by an environment that does what the rest of the system may do.

### Obcp

State: `procedures` and `running` are the manager's two dictionaries; `todo`,
`due` and `completed` are the local variables of `tick()` (the runs still to be
looked at, the collected steps, the runs to be announced), so that what the code
does between releasing its lock and its last event is visible. `Command` is a
telecommand of service 18 from the ground, which runs when no tick is in
progress; `Tick` begins a tick; `Collect` is the loop over the runs under the
lock, `Execute` the dispatch of the collected steps after it, with one action
per outcome (refused before dispatch, dispatched and handled elsewhere, a gate
refuses it, an exception, a service 18 request that re-enters the manager);
`Announce` raises the completion events. `open` counts started minus ended
announcements per procedure, an observer. Breakpoints save and restore
`procedures` and `running` between ticks. Delays are whole seconds. Telecommand
bodies are abstract: what matters is whether a step re-enters the manager.

### TimeTags and TcScheduler

`TimeTags` gives each identifier a status (unused, scheduled, deleted, released,
dispatched) and says when it may change. `TcScheduler` has the code's
dictionary, counter and flag, the two clocks (`obc_time_cuc` in whole seconds,
simulated time in fractions of a second), and the position in the engine tick:
`Tick` (the models have advanced through the sub-steps), `Uplink` (the queue is
drained), `Release` (`TCScheduler.tick` collects and removes what is due),
`Dispatch` (one collected command after the other), `Handle` (what the command
does: any S11 request, setting the clock, or nothing to the schedule),
`EndTick`. A dispatched command may insert, delete everything, disable the
schedule or set the clock. The refinement mapping is `StatusIn`.

### TmDump and DumpArchive

`stores`, `recording` and `overflow` are the storage's dictionaries; `pending`,
`active` and `budget` the engine's dump queue, set of dumped stores and byte
budget. Packets are numbers in order of creation and have one size. The stores
exist only while the nominal software runs (`bootloader`). Breakpoints hold all
of this. `DumpArchive` adds what leaves the spacecraft: the queue to the server,
the link, and the archive files, which are named after store and second, so the
files of the current second can be overwritten and earlier ones cannot.

### ProcedureRunner

One asyncio loop runs handlers and task. `task` says where the task is: suspended
in an await, or woken, or in the middle of a segment, in which case no handler
can run. Handlers are `Load`, `Start`, `Pause`, `Resume`, `StepAdvance`,
`SkipStep`, `Abort`; the task's segments are cut where the code can suspend.
Setting an event wakes the task, which runs later: a second handler can come in
between. Sending suspends or not, telemetry checks are met or not, deadlines
pass, a malformed step raises. Kinds of steps stand for their contents.

### ObcBoot

A sub-step of the engine drains the instructor's commands, runs the phase
machine, ticks the computer and then executes telecommands; `at` turns through
those four stages, and one unit of time is one sub-step. `swImage`, `mode`,
`bootPending`, `bootTimer`, `bootInhibit`, `imageCorrupt`, the two units and
their counters are those of `obdh_basic.py`; `phase`, `sepTimer` and `services`
(APID, housekeeping and stores, which are configured together) those of the
engine. Every telecommand, phase command, separation and failure that reaches
them is an action; the reboot and the entry into the boot loader are operators,
because several actions perform them.

### TcVerification

Telecommands are numbered as `tc_manager.py` builds them; a report names its
telecommand only by the sequence count. `tcq`, `held` (the schedule) and `pc`
say where each is; `Drain` runs the gates in the order of the code, `Run` the
handler, `RunRules` the event rules that run inside it, `Conclude` gives the
verdict. `err` and `startFail` are the dispatcher's accumulators, which nested
dispatches share; `own` is an observer, what the handler itself decided. S1
reports go to `tm`, if the link is there and the queue not full, and to `store`,
which a dump replays. `rows` is the log of the control system with its matching
of reports to rows. `fate` is history.

### OnBoardMonitoring

A parameter is a small integer or has no value; `Mons` have definitions of one
of two kinds. `Tick` is one evaluation of all definitions with its reports and
rules; the actions around it are the telecommands of services 12 and 19, the
power of the sources, the instructor's forced pass and writes of parameters.
`told` is what the ground knows after the reports.

### Fdir

`Tick` is one call of `_tick_fdir` and `_tick_fdir_advanced`, part by part in
their order: threshold rules, load shedding, fault detection, cascades due,
recoveries, procedures, spacecraft mode. The parts are operators from state to
state, composed in `Tick`, since each sees what the one before left.
Conditions are of the environment or derived from a load, so that cascades and
procedures change what is judged. The instance has three of the shipped faults
with shorter delays.

### Training

The time of a tick (`outer`) is taken from the speed before the tick drains the
instructor's commands, so a new speed counts from the next tick. `BeginTick`
ends the draining and cuts the tick into as many sub-steps as keep each within
`DtMax`, but no more than `MaxSubSteps`. The scenario runs in the last one, with
the time of the whole tick; then, as at the end of every sub-step, the failures
age. Failures have onset, duration and the one who gave them;
`effect` is what the model suffers, which need not agree with the manager's
records. The instructor's commands inject, clear, clear all, start, stop, pause,
rewind, save and load. That an event of a scenario has a target and a time or a
condition is assumed (`ScenarioOK`), because `_validate_event` refuses others.

### AlarmJournal

`Housekeeping` and `OnBoardReport` are packets: they leave in `filing` what
`_process_tm` has still to file, and `File` files one alarm or clears one,
because the task awaits the consoles after each. Acknowledgements by either
route may come in between. The archive may fail to insert a row, and to mark any
of the rows it is told of: the code swallows both, when the journal has the
alarm or its acknowledgement already. `refused` is history, the rows that were
not marked when the archive was last told. `Restart` begins with an empty
journal and panel and identifiers from 1; the archive stays.

### Payload

`Tick` takes line, device states, temperature and pointing and computes modes,
readiness, streaming, the strip monitor, calibration and transfer in the code's
order. `Capture` has the gates of mode, readiness, pointing, identifier and
space. `Restart` is the start of a new process from a breakpoint of that moment:
the scene counter is not part of the state that is saved, and the numbers of the
devices come back from the file as text, so that all devices read as on and none
can be switched any more. Temperature and
pointing are drawn anew in every tick. Fields `left`, `spoiled` and `cut` of an
image are history. Shutter, filter wheel, compression and radiometry are left
out, so is the older form of deletion by count, which no telecommand uses.

## 3. Runs

All runs but the last must pass. The last checks one statement of the
repository that the code does not keep; `findings` in `PROJECT.json` quotes it.

| Run | Checks | Bounds, and why they are enough |
|---|---|---|
| `MCObcp` | `EveryEndAnnouncedOnce`, `StepsOnTime` (a step is dispatched in the tick that covers its delay), `EveryRunEnds` | two procedures, three programs: one that restarts a procedure, one that reloads and deletes, an empty one; any step may fail and the ground may stop a run; ticks of 1 and 3 s, so that several steps fall in one tick and a delay spans ticks; one breakpoint load |
| `MCTcScheduler` | `NeverEarly`, `KeepsPromise` (refinement of `TimeTags`), `EveryTagFires` | two identifiers, commands that insert, clear, disable and set the clock; ticks of two sub-steps; one breakpoint load; the epochs of the two clocks are three seconds apart |
| `MCTmDump` | `StoreHoldsWhatItShould`, `DumpInProgress`, `ClearedWhenPlayed`, `EveryDumpEnds` | a circular and a linear store of one packet, up to three dumps, a queue of two, two thirds of a packet of budget per tick: overflow of both kinds, truncation, overlapping dumps, a carried budget and a breakpoint load all occur. Longer stores are covered by the proofs |
| `MCProcedureRunner` | `StepsInOrder`, `StopsWhenPaused`, `ConfirmedSteps`, `EveryRunEnds` | all kinds of step at the start, middle and end of procedures of up to four steps, both modes; handlers are unbounded |
| `MCObcBoot` | `BootCountsAgree`, `Settles` (the boots of the two units add up; without further commands the computer and the phase come to rest in one of their stable configurations) | a countdown and a separation timer of two sub-steps, two reboots: enough for a reboot during the countdown and a switchover between two boots |
| `MCTcVerification` | `TcTypeOK`, `OwnVerdict`, `CountersAgree`, `RowsTruthful`, `EveryTcJudged` | three telecommands out of four kinds (each way through gates and handlers, one with a rule whose action is refused), queues of one and two, a store of one report, one change of the environment |
| `MCOnBoardMonitoring` | `GroundAgrees`, `ViolationReported` | two monitors, a delta and an absolute one, two rules (one switches the monitored source off), three values |
| `MCFdir` | `TypeOK`, `RecoveryFollowsFault`, `NoCascadeForgotten`, `RecoveryEnds` | three faults, of which one switches off what it is judged by and one is caused by the others; two levels of recovery; three changes of the environment, one breakpoint load among them |
| `MCTraining` | `TypeOK`, `EffectsOwned`, `InjectionsTracked`, `EventsOnTime`, `ScenarioEnds` | three targets with two ids, two scenarios, three commands of the instructor, speeds 0, 1 and 4, for which the cap of two sub-steps of a tick binds |
| `MCAlarmJournal` | `AlarmTypeOK`, `LimitAlarmsAgree`, `ArchiveFollows`, `PanelFollows` | two limited parameters with two bands, two kinds of on-board report, a journal of three and a panel of two, four alarms: both overflow, with a restart in between; every subset of the rows the archive is told of may stay unmarked |
| `MCPayload` | `TypeOK`, `NoCollision`, `StoreAgrees`, `SpoiledAloneIsMarked` | three commands and two changes of line, device, segments or restarts; strips of one and two ticks, so that they overlap; a catalogue of two, which evicts |
| `MCDumpArchiveCleared` *violation* | `OnlyPlayedIsCleared`: playback clears only what it played | a store of two packets |

Constants named `Max...` (but for `MaxProcedures`, `MaxPending`, `MaxAttempts`,
`MaxValue`, `MaxSubsteps` and `MaxSubSteps`) and `Horizon` only bound the state space; everything else is a
parameter of the code or of its configuration. Deadlock is checked in every run
but `MCTcVerification`: when the telecommands of the bound have been built,
judged and reported on a link that stays away, nothing is left to happen.

### Fairness

The engine's loop ticks for as long as the simulation runs and finishes each
tick: weak fairness of the actions of a tick in the modules of the simulator. In
`TcScheduler` the release is strongly fair, because draining the uplink queue
can interrupt it but the queue is finite and the ground slower than the engine.
In `ProcedureRunner` the event loop runs ready tasks (weak fairness of the task)
and the monotonic clock passes every deadline (strong fairness of
`DeadlinePasses`, which polling enables again and again). `ScenarioEnds` in
addition supposes that time is not stopped for good (`speed > 0` again and
again), which is the instructor's to decide. Nothing is assumed of operators,
the ground, the link or breakpoints; `AlarmJournal` and `Payload` state safety
only.

## 4. Proofs

Eight modules hold theorems. All of them rest only on the named assumptions on
constants, and on `GroupsFit` where it is stated. Every safety property of the
runs is proved: for any number of procedures, telecommands, faults, failures or
images and any capacities, where a run has two or three. In each case the
inductive invariant is stronger than the property it carries.

* `ObcpProofs`: `TypeCorrect`; `RunsAlwaysLoaded` (a running procedure is in the
  store with its next step in range), strengthened with facts on the saved
  breakpoint; `StoreAlwaysBounded` (`MAX_PROCEDURES` is never exceeded);
  `EndsAnnouncedOnce`: the announcements open are the runs plus the completions
  still to be announced; `StepsAlwaysOnTime`, from `OnTime`: a waiting run has
  not waited past the due time of its next step, counted from its start, of
  which the remaining wait is what the recursive sum of delays says.
* `TmDumpProofs`: `TypeCorrect` with all limits; `StoresAlwaysRight`, on lemmas
  about the newest and the oldest elements of a sequence (a window that is not
  full grows by what is appended, a full one slides or stays);
  `DumpAlwaysConsistent`, which needs a cap of at least one packet, so that a
  truncated dump leaves something to play; `AlwaysClearedWhenPlayed`. A
  breakpoint load replaces the whole state, so `Inv` asks of the saved copy what
  it asks of the state.
* `FdirProofs`: `TypeCorrect`; `RecoveryAlwaysFollows`, under `GroupsFit`: every
  recovery group has at least one procedure and at most `MaxAttempts` of them.
  The shipped configuration satisfies it; without it a recovery would be given
  up before its last level. The invariant adds that a recovery under way is at a
  level of its group. `CascadesNeverForgotten`: the cascades of a fault are
  applied or pending, through a tick that detects, resolves and applies at once;
  what a tick keeps of the pending ones is a selection (`Those`) with one
  element for each position kept.
* `TrainingProofs`: `TypeCorrect`, `EffectsAlwaysOwned`,
  `InjectionsAlwaysTracked` and `EventsAlwaysOnTime` from one invariant of a
  session, `TrainingInv`, which also holds of every breakpoint on disk. What a
  scenario changes at once is a sequence of events: `FireAll` is a recursive
  function, and what each event keeps (`Tidy`: a record's own target, the list
  of injected ids, the models' suffering) all of them keep, by induction.
* `PayloadProofs`: `TypeCorrect`, `IdsNeverCollide`, `StoreAlwaysAgrees` and
  `SpoiledAlwaysMarked`. `PayloadInv` adds that no id is beyond the scene
  counter before a restart; that the only image still being scanned, unless
  another capture cut it short, is the newest, and that the monitor holds its id
  and what is left of its strip; and that a calibration that runs has time left.
  How the sum of the sizes changes when an image is appended, evicted from the
  front or deleted from the middle are lemmas (`SumMore`, `SumLess`).
* `OnBoardComputerProofs`, of `TcScheduler`: `ScheduleTypeCorrect`;
  `NoTagFiresEarly`: on a clock that only ticked no command fires before its
  tag, however ticks are split. The invariant compares the clocks: the on-board
  clock is not ahead of the mission by more than the sub-step in progress
  (`ClockOK`), and every identifier given is in one place (`ScheduleOK`).
  `SchedulerImplementsTimeTags`: initial states map to initial states and every
  step to a step of `TimeTags` or a stutter, with a lemma for each action. This
  is the safety part of `KeepsPromise`.
* Of `ObcBoot`: `BootTypeCorrect` (both timers are decremented without a test; the
  invariant `TimersRun` says that a running one has not reached zero);
  `CountdownOnlyInBootloader`; `BootCountsAlwaysAgree`;
  `ServicesAlwaysFollowPhase`; `FlightAlwaysHasApplication`;
  `CorruptImageNeverStarts` (only the instructor's change of phase starts an
  image whose CRC fails).
* Of `OnBoardMonitoring`: `MonitoringTypeCorrect`; `GroundAlwaysAgrees`;
  `PowerUpIsNeverStep` (a delta check does not enter violation on a source that
  has just come up), which needs `BaselineOK`: a baseline belongs to a source
  that was on at the tick before.
* `ControlSystemProofs`, of `ProcedureRunner`: `RunnerTypeCorrect`,
  `StepsAlwaysInOrder`, `TaskAlwaysOrDone` (an active procedure has a task or no
  step left), from an invariant that says where the task is: between two steps
  `current_step = idx - 1` and that step is done, within one both are the same;
  `AlwaysStopsWhenPaused` and `StepsAlwaysConfirmed` from `Gated`: while paused
  `_pause_event` is clear, and a task woken to take the next step was woken by
  an operator.
* Of `AlarmJournal`: `ArchiveAlwaysFollows` (an alarm and its row differ only
  where the archive failed the last time it was told) and `PanelMatchesJournal`; the
  invariant adds that identifiers count down from the newest entry of the
  journal, that no two entries share a row of the archive, and that an alarm on
  the panel is one of this start's. `AlarmTypeCorrect` and
  `LimitAlarmsAlwaysAgree`, from `FollowInv`: what is still to be filed of a
  parameter is the state the limit check has for it.
* Of `TcVerification`: `TcTypeCorrect`, `VerdictAlwaysOwn`,
  `CountersAlwaysAgree`, `RowsAlwaysTruthful`, from `TcInv`: a telecommand is at
  one place at a time, a report is true wherever it is under way (queue, store,
  replay), the accumulators are those of the handler that set them, and the
  command inside an S11.4 has no fate of its own before that one is executed.

**How recursion and induction are done.** The provers cannot instantiate a
theorem about an arbitrary predicate. `SequenceLemmas` therefore states
induction of a set of naturals (`Induction`, from the well-foundedness of their
order: the least number outside of it), and recursive functions by the step they
satisfy (`RecursionIn`, `PassedOn`). Sums, the events of a scenario,
`FlattenSeq` and selections are treated that way. A fold or `SelectSeq` takes an
operator, about which nothing can be proved: the modules define their sums as
recursive functions and their selections by positions (`Selections`).

**What is only model-checked**: liveness (`EveryRunEnds` twice, `EveryTagFires`,
`EveryDumpEnds`, `Settles`, `EveryTcJudged`, `ViolationReported`,
`RecoveryEnds`, `ScenarioEnds`, and the fairness in `KeepsPromise`): it needs
ENABLED, which no backend here expands. And `OnlyPlayedIsCleared`, which is
false.

Some proved invariants are not repeated in the runs, because an instance adds
nothing to the theorem: `RunsAreLoaded`, `TaskOrDone`, `NoCountdownInApplication`,
`PowerUpIsNoStep`, `ServicesFollowPhase`, `FlightNeedsApplication`,
`CorruptNeverStarts`, and the type invariants of the modules whose run does not
list one.

## 5. What is said and not kept, and what is not modelled

### Statements the code does not keep

`OnlyPlayedIsCleared` has a run of its own. The others are definitions of their
modules; TLC finds each violated when it takes the place of the properties in
the configuration named.

| Statement | Where it is said | What the code does |
|---|---|---|
| `Obcp!FailStop` (`MCObcp.cfg`) | `src/docs/OBCP_GUIDE.md:108` "**Fail-stop.** A step that is malformed or rejected at acceptance raises `OBCP_STEP_FAILED` and **aborts the rest of the procedure**" | `tick()` collects all due steps of a procedure before it executes any; those collected after the failing one in the same tick are still dispatched (`obcp.py:319`) |
| `Obcp!RefusalFailsStep` (`MCObcp.cfg`) | `src/configs/eosat1/obcp/02_safe_mode_entry.yaml:6` "power-gated on the aocs_wheels line, so if the wheels are unpowered the step fails (OBCP_STEP_FAILED event)" | `_dispatch_tc` returns normally when the power gate or the handler refuses, and the procedure goes on (`obcp.py:355`) |
| `TcScheduler!SyncedClockRight` (`MCTcScheduler.cfg`) | `ecss_packet.py:133` "Convert CUC seconds since J2000 to UTC datetime." | `gps_time_sync` sets the clock to seconds since 1970 (`obdh_basic.py:633`): every time-tagged command is due at once |
| `TcScheduler!ClockKeepsPace` (`PerSecond = 2`, `TickSizes = {3}`, `MaxSubsteps = 2`, `MaxIds = 1`, `Horizon = 3`, `MaxRestores = 0`) | `src/configs/eosat1/simulation.yaml:36` "the per-substep dt grows above dt_max_s rather than losing simulated time", `engine.py:1816` "simulated time is never truncated" | the clock gains `int(dt)` in each sub-step (`obdh_basic.py:234`) |
| `DumpArchive!TapeIsComplete` (`MCDumpArchiveCleared.cfg` with `MaxPackets = 3`) | `src/docs/OPERATIONS_GUIDE.md:1083` "The S15 dump archive is the **complete** tape: every packet the spacecraft played back, whether or not the ground heard it." | the file is named after store and second and opened with "wb": a second dump in the second overwrites the first; a failed write is only logged (`engine.py:2801`) |
| `ProcedureRunner!ActiveHasTask` (`MCProcedureRunner.cfg`) | `procedure_runner.py:131` "Pause execution after current step completes." | a pause during the last step leaves the state PAUSED without a task; `load()` then refuses every procedure (`procedure_runner.py:262`) |
| `ProcedureRunner!SkipMovesOn` (`MCProcedureRunner.cfg`) | `procedure_runner.py:173` "Skip the current step and move to the next." | the poll of the skipped step goes on, and its deadline writes TIMEOUT over SKIPPED and fails the procedure (`procedure_runner.py:374`) |
| `ObcBoot!AutoBoots` (`MCObcBoot.cfg`) | `obdh_basic.py:495` "Auto-boot to application after 10s (unless inhibited)" | in flight the phase machine sees the boot loader and `_enter_bootloader_mode` clears the countdown (`engine.py:578`): the computer waits for the ground |
| `TcVerification!FinalStaysFinal` (`MCTcVerification.cfg`) | `server.py:1330` "the persistent `tc_log` row has to follow the same SENT → ACCEPTED → COMPLETED / REJECTED / FAILED transitions" | S1 reports are also stored and a dump replays them: a late S1.1 makes a COMPLETED row ACCEPTED (`server.py:1349`) |
| `TcVerification!RefusalIsSent` (`MCTcVerification.cfg`) | `engine.py:2169` "the S1.2 carries the reason (defect #87)" | the report of a refusal for want of an uplink is dropped for want of a downlink, which is the same expression (`engine.py:2177`) |
| `Fdir!CascadesSurviveReload` (`MCFdir.cfg`) | `src/defects/124-fdir-never-ran.md:67` "The FDIR state (active faults, pending cascades, running procedures) is in the breakpoint registry" | neither `_pending_cascades` nor the persistence counters are (`engine.py:1565`): after a load the remaining cascades never come |
| `Training!NothingLeaks` (`MCTraining.cfg`) | `scenario_engine.py:92` "so they can be cleared when the scenario stops (auto-end or manual) and don't leak into the next scenario / free run" | the id of a failure leaves out the face of the panel (`failure_manager.py:87`): the two failures of `eps_solar_panel_loss.yaml` share one, and only the second is repaired |
| `AlarmJournal!EveryAlarmOnPanel` (`MCAlarmJournal.cfg`) | `server.py:3479` "File one alarm: journal, FDIR panel, archive, WS broadcast." | red limits and S5.4 events are filed with severity 4; `add_alarm` does `Severity(4)`, which has 0 to 3 only, and swallows the ValueError (`fdir_alarm_panel.py:59`) |
| `AlarmJournal!AcksSurvive` (`MCAlarmJournal.cfg`) | `server.py:3611` "The acknowledgement is written through to the archive so it survives an MCS restart" | the entry of the journal is acknowledged first, and a failure of the archive's UPDATE is swallowed (`server.py:3585`, `server.py:3538`); nothing tries again (`ArchiveFollows` is what remains) |
| `Payload!DevicesRoundTrip` (`MCPayload.cfg`) | `smo_common/state.py:33` "A component whose complete mutable state round-trips as a JSON-safe dict." | the keys of `device_states` are integers, which a JSON file turns into strings: after a restart every device reads as on (`payload_basic.py:310`) and `set_device_state` refuses (`payload_basic.py:1406`) |
| `Payload!ScenesUnique` (`MCPayload.cfg`) | `payload_basic.py:1025` "Keep the auto-assign counter ahead of ground-assigned ids so a later auto capture cannot collide." | the counter is not in `get_state` (`payload_basic.py:1387`): after a restart from a breakpoint identifiers in the catalogue are given again |
| `Payload!SpoiledIsMarked` (`MCPayload.cfg`) | `payload_basic.py:105` "losing FINE (or the error gate) mid-strip marks it PARTIAL" | there is one monitor, and a second capture during the strip takes it over (`payload_basic.py:1057`) |
| `Payload!DarkLasts` (`MCPayload.cfg`) | `payload_basic.py:1220` "Half duration per phase (Defect 1)" | the timer starts at half of the duration and the dark phase of a BOTH calibration ends when it is at most that, in the first tick (`payload_basic.py:402`) |

### Hazards beyond the list

Met while modelling, and not among the hazards of `PROJECT.json`:

* `obcp.py:308`, `obcp.py:80`: a delay of NaN or infinity never elapses.
* `service_dispatch.py:1475`: the handle of the 65536th scheduled command does not
  fit its report; `tc_scheduler.py:142`: commands due in one tick run in the
  order of insertion, not of their tags.
* `tm_storage.py:108`: a circular store drops its oldest packet without moving
  `_oldest_ts`; `engine.py:2780`: a dump during a dump copies the same packets
  again; `engine.py:2846`: a released packet is lost without being counted when
  `tm_queue` is full; `engine.py:567`: a reboot clears the stores, not the dump.
* `procedure_runner.py:177`: `skip_step` before a step has begun marks the one
  before.
* `obdh_basic.py:243`: a countdown that still runs when the image is forced or the
  computer reboots (`NoCountdownInApplication` is proved); `obdh_basic.py:374`:
  clearing the reboot counter raises OBC_REBOOT; `obdh_basic.py:676`: inhibiting
  the boot does not stop a countdown that runs.
* `tc_manager.py:27`: sequence counts start at 1 again after a restart of the
  control system; `RowsTruthful` assumes that none is used twice.
* `service_dispatch.py:1706`: the baseline of a delta check and the power cycle of
  its source (`PowerUpIsNoStep` is proved); `service_dispatch.py:1547`: TC(12,2)
  keeps the baselines; `service_dispatch.py:1575`: a definition replaced while
  violated; `engine.py:2629`: a violation muted by a forced pass is never
  reported; `engine.py:2207`: TC(12,3), (12,4) and (12,12) are refused.
* `engine.py:1080`: a lost precondition leaves a recovery RUNNING until the fault
  is detected again; `engine.py:1058`: persistence counters outlive a change of
  phase; `engine.py:1101`: after a load an active fault is taken for cleared;
  `fdir.py:350`: two starts within a second share an execution id; `fdir.py:428`:
  steps due after a failed one are executed.
* `scenario_engine.py:237`: starting over a running scenario forgets its failures;
  `scenario_engine.py:368`: an end clears the instructor's failure of the same id;
  `failure_manager.py:153`: a slow ramp stands still; `engine.py:3334`: resume
  does not restore the speed; `engine.py:3164`: a full instructor queue;
  `engine.py:3639`: effects injected past the manager.
* `fdir_alarm_panel.py:59`: alarms of severity 4 never reach the panel;
  `server.py:4076`: an alarm acknowledged on the display after it has left the
  journal stays unacknowledged in the archive.
* `payload_basic.py:1387`: the device states do not survive a breakpoint file (see
  `DevicesRoundTrip` above); `payload_basic.py:1063`: the eviction of the oldest image frees no memory and
  does not count down `image_count`; `payload_basic.py:525`: imaging fills the
  store in half an hour without a capture, and bad segments clamp what is used.
* `server.py:116` of the simulator: the broadcast loops iterate over the live list
  of clients across awaits.

### Not modelled

* **Numerical models** of attitude, power, heat, radio link and propulsion, orbit
  computation, and signal processing in `smo_rfsim`: floating-point dynamics that
  neither tool can check. They are the larger part of the code's lines, with the
  planner, the HTTP and WebSocket front ends, displays, reports and the
  configuration editor, which are sequential and keep no state that several
  actors share. This is why the modules map about a tenth of all lines although
  they cover the control logic of the simulator: they stand for most of
  `obcp.py`, `tc_scheduler.py`, `fdir.py`, `procedure_runner.py` and half of
  `engine.py`.
* Formatting, logging, reports that only read, and files other than the dump
  archive and breakpoints.
* The GO/NO-GO poll of the control system (one missing check,
  `server.py:2428`), the client lists of servers and gateway.
* The widths of identifiers and floating-point delays; hazards that depend on
  them say so.
* A breakpoint load that stops half-way because one component raises.

## 6. Plan

1. Proofs of action properties: what a step of a component may never do to the
   telecommands, records and alarms of another.
2. `Eps` and `Aocs`: the mode machines and power lines of the subsystem models,
   composed with `Payload` and `Fdir` in place of their environments.
3. `Snapshot`: what a reader of the published snapshot sees of a tick; breakpoints
   that fail half-way.
4. `Relay`: clients of the server and the gateway that come and go during a
   broadcast.
