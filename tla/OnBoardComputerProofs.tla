------------------------ MODULE OnBoardComputerProofs ------------------------
(***************************************************************************)
(* Theorems about three parts of the on-board software, each for every     *)
(* value of its constants: the computer's images and boot counts, the      *)
(* monitoring of parameters, and the time-tagged schedule.  The parts      *)
(* share no variable and each has a specification of its own: BootSpec,    *)
(* MonitoringSpec and ScheduleSpec.                                        *)
(***************************************************************************)
EXTENDS ObcBoot, OnBoardMonitoring, TcScheduler, TLAPS

-----------------------------------------------------------------------------
(***************************************************************************)
(* Proofs about ObcBoot: the types, the boot countdown, the agreement of   *)
(* the boot counters, the telemetry services and the images, for every     *)
(* length of the countdown and of the separation timer and any number of   *)
(* reboots.                                                                *)
(***************************************************************************)

(* A running timer has not reached zero: both are decremented without a    *)
(* test, so that the types depend on it.                                   *)
TimersRun ==
  /\ bootPending => bootTimer >= 1
  /\ phase = 1 => sepTimer >= 1

BootIInv == BootTypeOK /\ TimersRun /\ NoCountdownInApplication

LEMMA BootInvInit == BootInit => BootIInv
<1> SUFFICES ASSUME BootInit PROVE BootIInv
  OBVIOUS
<1> USE ObcBootAssumption
<1>1. /\ bootPending = FALSE /\ bootPending \in BOOLEAN
      /\ bootInhibit \in BOOLEAN /\ imageCorrupt \in BOOLEAN
      /\ watchdogArmed \in BOOLEAN /\ watchdogDue \in BOOLEAN
  BY Zenon DEF BootInit
<1>2. /\ at = "instructor" /\ phase \in {3, 6} /\ sepTimer = 0
      /\ services \in {"beacon", "application"} /\ swImage = "boot"
      /\ mode = 0 /\ bootTimer = 0 /\ activeObc = 0 /\ rebootCount = 0
      /\ bootCount = [u \in Units |-> 0]
  BY DEF BootInit
<1>3. bootCount \in [Units -> Nat]
  BY <1>2
<1> QED
  BY <1>1, <1>2, <1>3
     DEF BootIInv, BootTypeOK, TimersRun, NoCountdownInApplication, Units

(* A reboot of either unit is well typed, arms the countdown only over the *)
(* boot loader, and gives it a time to run.                                *)
LEMMA RebootSound ==
  ASSUME BootIInv, NEW u \in Units, Reboot(u)
  PROVE  /\ swImage' = "boot" /\ mode' \in 0 .. 2
         /\ watchdogDue' \in BOOLEAN
         /\ bootPending' \in BOOLEAN
         /\ bootTimer' \in 0 .. BootTime
         /\ bootPending' => bootTimer' >= 1
         /\ bootCount' \in [Units -> Nat] /\ rebootCount' \in Nat
<1> USE ObcBootAssumption
<1>1. bootPending' \in BOOLEAN /\ (bootPending' <=> ~bootInhibit)
  BY Zenon DEF BootIInv, BootTypeOK, Reboot
<1>2. /\ swImage' = "boot" /\ mode' \in 0 .. 2
      /\ bootCount' \in [Units -> Nat] /\ rebootCount' \in Nat
  BY DEF BootIInv, BootTypeOK, Reboot
<1>3. watchdogDue' \in BOOLEAN
  BY Zenon DEF Reboot
<1>4. bootTimer' = IF bootInhibit THEN 0 ELSE BootTime
  BY DEF Reboot
<1>5. bootTimer' \in 0 .. BootTime /\ (bootPending' => bootTimer' >= 1)
  BY <1>1, <1>4
<1> QED
  BY <1>1, <1>2, <1>3, <1>5

(* The entry into the boot loader leaves no countdown behind.              *)
LEMMA EnterSound ==
  ASSUME EnterBootloader
  PROVE  services' = "beacon" /\ swImage' = "boot" /\ bootPending' = FALSE
BY Zenon DEF EnterBootloader

(* Ending or continuing, the countdown stays within its bounds.            *)
LEMMA TimerSound ==
  ASSUME BootIInv
  PROVE  /\ TimerNext \in 0 .. BootTime
         /\ bootPending /\ ~BootEnds => TimerNext >= 1
         /\ ImageNext \in {"boot", "app"} /\ ModeNext \in 0 .. 2
         /\ bootPending /\ ~BootEnds => ImageNext = "boot"
BY ObcBootAssumption DEF BootIInv, BootTypeOK, TimersRun, NoCountdownInApplication,
   TimerNext, BootEnds, ImageNext, ModeNext

LEMMA BootInvNext == BootIInv /\ [BootNext]_bootVars => BootIInv'
<1> SUFFICES ASSUME BootIInv, [BootNext]_bootVars PROVE BootIInv'
  OBVIOUS
<1> USE ObcBootAssumption
<1>1. CASE PhaseTick
  <2>1. /\ at' = "obdh" /\ mode' = mode /\ bootTimer' = bootTimer
        /\ bootInhibit' = bootInhibit /\ imageCorrupt' = imageCorrupt
        /\ watchdogArmed' = watchdogArmed /\ watchdogDue' = watchdogDue
        /\ activeObc' = activeObc /\ bootCount' = bootCount
        /\ rebootCount' = rebootCount
    BY <1>1, Zenon DEF PhaseTick, switches, counters
  <2>2. \/ bootPending' = bootPending /\ swImage' \in {swImage, "boot"}
        \/ bootPending' = FALSE /\ swImage' = "boot"
    BY <1>1, Zenon DEF PhaseTick, EnterBootloader, craft
  <2>3. /\ bootPending' \in BOOLEAN /\ swImage' \in {"boot", "app"}
        /\ NoCountdownInApplication' /\ (bootPending' => bootPending)
    <3> USE DEF BootIInv, BootTypeOK, NoCountdownInApplication
    <3>1. CASE bootPending' = bootPending /\ swImage' = swImage
      BY <3>1, Zenon
    <3>2. CASE bootPending' = bootPending /\ swImage' = "boot"
      BY <3>2, Zenon
    <3>3. CASE bootPending' = FALSE /\ swImage' = "boot"
      BY <3>3, Zenon
    <3> QED
      BY <2>2, <3>1, <3>2, <3>3
  <2>4. /\ phase' \in 0 .. 6 /\ sepTimer' \in 0 .. SepTime
        /\ services' \in {"beacon", "application"}
        /\ phase' = 1 => sepTimer' >= 1
    <3>1. \/ phase = 1 /\ sepTimer' = sepTimer - 1
             /\ phase' = (IF sepTimer = 1 THEN 2 ELSE 1)
             /\ services' = services
          \/ phase' \in {3, 4} /\ sepTimer' \in {sepTimer, 0}
             /\ services' \in {services, "application", "beacon"}
          \/ UNCHANGED <<phase, sepTimer, services>>
      BY <1>1, Zenon DEF PhaseTick, EnterBootloader, craft
    <3> QED
      BY <3>1 DEF BootIInv, BootTypeOK, TimersRun
  <2> QED
    BY <2>1, <2>3, <2>4 DEF BootIInv, BootTypeOK, TimersRun
<1>2. CASE ObdhTick
  <2>1. CASE WatchdogBites /\ Reboot(activeObc)
    <3>1. activeObc \in Units
      BY DEF BootIInv, BootTypeOK
    <3> QED
      BY <1>2, <2>1, <3>1, RebootSound DEF BootIInv, BootTypeOK, TimersRun,
         NoCountdownInApplication, ObdhTick, craft, switches
  <2>2. CASE ~WatchdogBites
    BY <1>2, <2>2, TimerSound DEF BootIInv, BootTypeOK, TimersRun,
       NoCountdownInApplication, ObdhTick, craft, switches
  <2> QED
    BY <1>2, <2>1, <2>2 DEF ObdhTick
<1>3. CASE TurnOver
  BY <1>3 DEF BootIInv, BootTypeOK, TimersRun, NoCountdownInApplication, TurnOver,
     craft, obc
<1>4. CASE ObcReboot
  <2>1. activeObc \in Units
    BY DEF BootIInv, BootTypeOK
  <2> QED
    BY <1>4, <2>1, RebootSound DEF BootIInv, BootTypeOK, TimersRun,
       NoCountdownInApplication, ObcReboot, Command, craft, switches
<1>5. CASE ObcSwitchUnit
  <2>1. 1 - activeObc \in Units
    BY DEF BootIInv, BootTypeOK, Units
  <2> QED
    BY <1>5, <2>1, RebootSound DEF BootIInv, BootTypeOK, TimersRun,
       NoCountdownInApplication, ObcSwitchUnit, Command, craft, switches
<1>6. CASE ObcBootApp
  BY <1>6 DEF BootIInv, BootTypeOK, TimersRun, NoCountdownInApplication, ObcBootApp,
     Command, craft, switches, counters
<1>7. CASE ObcBootInhibit
  BY <1>7 DEF BootIInv, BootTypeOK, TimersRun, NoCountdownInApplication,
     ObcBootInhibit, Command, craft, counters
<1>8. CASE ObcClearRebootCnt
  BY <1>8 DEF BootIInv, BootTypeOK, TimersRun, NoCountdownInApplication,
     ObcClearRebootCnt, Command, craft, switches
<1>9. CASE SetMode
  BY <1>9 DEF BootIInv, BootTypeOK, TimersRun, NoCountdownInApplication, SetMode,
     AppCommand, Command, craft, switches, counters
<1>10. CASE WatchdogCommand
  BY <1>10 DEF BootIInv, BootTypeOK, TimersRun, NoCountdownInApplication,
     WatchdogCommand, AppCommand, Command, craft, counters
<1>11. ASSUME NEW p \in 0 .. 6, SetPhase(p) PROVE BootIInv'
  <2>1. /\ at' = at /\ mode' = mode /\ bootTimer' = bootTimer
        /\ bootInhibit' = bootInhibit /\ imageCorrupt' = imageCorrupt
        /\ watchdogArmed' = watchdogArmed /\ watchdogDue' = watchdogDue
        /\ activeObc' = activeObc /\ bootCount' = bootCount
        /\ rebootCount' = rebootCount
    BY <1>11, Zenon DEF SetPhase, Instructor, switches, counters
  <2>2. bootPending' = FALSE /\ swImage' \in {"boot", "app"}
    BY <1>11, Zenon DEF SetPhase, EnterBootloader, ForceApplication
  <2>3. bootPending' \in BOOLEAN /\ ~bootPending'
    BY <2>2, Zenon
  <2>4. /\ phase' \in 0 .. 6 /\ sepTimer' \in 0 .. SepTime
        /\ services' \in {"beacon", "application"}
        /\ phase' = 1 => sepTimer' >= 1
    BY <1>11 DEF SetPhase, BootIInv, BootTypeOK, EnterBootloader
  <2> QED
    BY <2>1, <2>2, <2>3, <2>4
       DEF BootIInv, BootTypeOK, TimersRun, NoCountdownInApplication
<1>12. CASE StartSeparation
  <2>1. /\ at' = at /\ mode' = mode /\ bootTimer' = 0
        /\ bootInhibit' = bootInhibit /\ imageCorrupt' = imageCorrupt
        /\ watchdogArmed' = watchdogArmed /\ watchdogDue' = watchdogDue
        /\ activeObc' = activeObc /\ bootCount' = bootCount
        /\ rebootCount' = rebootCount /\ phase' = 1 /\ sepTimer' = SepTime
    BY <1>12, Zenon DEF StartSeparation, Instructor, switches, counters
  <2>2. services' = "beacon" /\ swImage' = "boot" /\ bootPending' = FALSE
    BY <1>12, EnterSound, Zenon DEF StartSeparation
  <2>3. bootPending' \in BOOLEAN /\ ~bootPending'
    BY <2>2, Zenon
  <2> QED
    BY <2>1, <2>2, <2>3
       DEF BootIInv, BootTypeOK, TimersRun, NoCountdownInApplication
<1>13. CASE InjectWatchdog
  BY <1>13 DEF BootIInv, BootTypeOK, TimersRun, NoCountdownInApplication,
     InjectWatchdog, Instructor, craft, counters
<1>14. CASE InjectCrash
  <2>1. activeObc \in Units
    BY DEF BootIInv, BootTypeOK
  <2> QED
    BY <1>14, <2>1, RebootSound DEF BootIInv, BootTypeOK, TimersRun,
       NoCountdownInApplication, InjectCrash, Instructor, craft, switches
<1>15. CASE InjectStuck
  BY <1>15 DEF BootIInv, BootTypeOK, TimersRun, NoCountdownInApplication, InjectStuck,
     Instructor, craft, counters
<1>16. CASE ImageFailure
  BY <1>16 DEF BootIInv, BootTypeOK, TimersRun, NoCountdownInApplication,
     ImageFailure, Instructor, craft, counters
<1>17. CASE UNCHANGED bootVars
  BY <1>17 DEF BootIInv, BootTypeOK, TimersRun, NoCountdownInApplication, bootVars, craft,
     obc
<1> QED
  BY <1>1, <1>2, <1>3, <1>4, <1>5, <1>6, <1>7, <1>8, <1>9, <1>10, <1>11,
     <1>12, <1>13, <1>14, <1>15, <1>16, <1>17
     DEF BootNext, BootTick, Telecommand, InstructorCommand

LEMMA BootInvariant == BootSpec => []BootIInv
BY BootInvInit, BootInvNext, PTL DEF BootSpec

(* The variables keep their types: in particular neither of the two timers *)
(* the code decrements unconditionally runs below zero.                    *)
THEOREM BootTypeCorrect == BootSpec => []BootTypeOK
<1>1. BootIInv => BootTypeOK
  BY DEF BootIInv
<1> QED
  BY <1>1, BootInvariant, PTL

(* No countdown runs under the application (OBDHBasicModel.tick would      *)
(* reset its mode to nominal when it ends).                                *)
THEOREM CountdownOnlyInBootloader == BootSpec => []NoCountdownInApplication
<1>1. BootIInv => NoCountdownInApplication
  BY DEF BootIInv
<1> QED
  BY <1>1, BootInvariant, PTL

-----------------------------------------------------------------------------
(* Sums and phases.                                                        *)
LEMMA CountsInit == BootInit => BootCountsAgree
BY DEF BootInit, BootCountsAgree, Units

LEMMA RebootCounts ==
  ASSUME BootIInv, BootCountsAgree, NEW u \in Units, Reboot(u)
  PROVE  BootCountsAgree'
BY DEF BootIInv, BootTypeOK, Units, BootCountsAgree, Reboot

LEMMA CountsNext == BootIInv /\ BootCountsAgree /\ [BootNext]_bootVars => BootCountsAgree'
<1> SUFFICES ASSUME BootIInv, BootCountsAgree, [BootNext]_bootVars PROVE BootCountsAgree'
  OBVIOUS
<1>1. activeObc \in Units /\ 1 - activeObc \in Units
  BY DEF BootIInv, BootTypeOK, Units
<1>2. \/ Reboot(activeObc) \/ Reboot(1 - activeObc) \/ ObcClearRebootCnt
      \/ UNCHANGED <<bootCount, rebootCount>>
  BY DEF BootNext, BootTick, Telecommand, InstructorCommand, PhaseTick, ObdhTick,
     TurnOver, ObcReboot, ObcSwitchUnit, ObcBootApp, ObcBootInhibit, SetMode,
     WatchdogCommand, SetPhase, StartSeparation, InjectWatchdog, InjectCrash,
     InjectStuck, ImageFailure, bootVars, obc, counters
<1>3. CASE Reboot(activeObc)
  BY <1>1, <1>3, RebootCounts
<1>4. CASE Reboot(1 - activeObc)
  BY <1>1, <1>4, RebootCounts
<1>5. CASE ObcClearRebootCnt
  BY <1>5 DEF ObcClearRebootCnt, BootCountsAgree, Units
<1>6. CASE UNCHANGED <<bootCount, rebootCount>>
  BY <1>6 DEF BootCountsAgree
<1> QED
  BY <1>2, <1>3, <1>4, <1>5, <1>6

(* The boots of the two units add up to the reboots, over any number of    *)
(* crashes, switchovers, watchdog resets and clearings.                    *)
THEOREM BootCountsAlwaysAgree == BootSpec => []BootCountsAgree
BY CountsInit, CountsNext, BootInvariant, PTL DEF BootSpec

(* A reboot is seen by the phase machine before the OBDH model ticks.      *)
PhaseInv == ServicesFollowPhase /\ FlightNeedsApplication

LEMMA PhaseInit == BootInit => PhaseInv
BY DEF BootInit, PhaseInv, ServicesFollowPhase, FlightNeedsApplication

LEMMA PhaseNext == BootIInv /\ PhaseInv /\ [BootNext]_bootVars => PhaseInv'
<1> SUFFICES ASSUME BootIInv, PhaseInv, [BootNext]_bootVars PROVE PhaseInv'
  OBVIOUS
<1>1. CASE PhaseTick
  BY <1>1 DEF PhaseTick, ApplicationSeen, RebootSeen, EnterBootloader, craft,
     BootIInv, BootTypeOK, PhaseInv, ServicesFollowPhase, FlightNeedsApplication
<1>2. CASE \E p \in 0 .. 6 : SetPhase(p)
  <2> PICK p \in 0 .. 6 : SetPhase(p)
    BY <1>2
  <2>1. at' = "instructor" /\ phase' = p
    BY DEF SetPhase, Instructor
  <2>2. services' = "beacon" <=> p <= 3
    BY DEF SetPhase, EnterBootloader, BootIInv, BootTypeOK, PhaseInv,
       ServicesFollowPhase
  <2> QED
    BY <2>1, <2>2 DEF PhaseInv, ServicesFollowPhase, FlightNeedsApplication
<1>3. CASE StartSeparation
  BY <1>3 DEF StartSeparation, Instructor, EnterBootloader, PhaseInv,
     ServicesFollowPhase, FlightNeedsApplication
<1>4. CASE /\ UNCHANGED craft
           /\ at' # "obdh" \/ UNCHANGED <<at, swImage>>
  BY <1>4 DEF craft, PhaseInv, ServicesFollowPhase, FlightNeedsApplication
<1>5. \/ PhaseTick \/ (\E p \in 0 .. 6 : SetPhase(p)) \/ StartSeparation
      \/ /\ UNCHANGED craft
         /\ at' # "obdh" \/ UNCHANGED <<at, swImage>>
  BY DEF BootNext, BootTick, Telecommand, InstructorCommand, ObdhTick, TurnOver,
     ObcReboot, ObcSwitchUnit, ObcBootApp, ObcBootInhibit, ObcClearRebootCnt,
     SetMode, WatchdogCommand, AppCommand, Command, Instructor, InjectWatchdog,
     InjectCrash, InjectStuck, ImageFailure, bootVars, obc
<1> QED
  BY <1>1, <1>2, <1>3, <1>4, <1>5

LEMMA PhaseInvariant == BootSpec => []PhaseInv
BY PhaseInit, PhaseNext, BootInvariant, PTL DEF BootSpec

(* The telemetry services are those of the boot loader exactly before      *)
(* LEOP, through any mixture of phase commands, reboots and separations.   *)
THEOREM ServicesAlwaysFollowPhase == BootSpec => []ServicesFollowPhase
<1>1. PhaseInv => ServicesFollowPhase
  BY DEF PhaseInv
<1> QED
  BY <1>1, PhaseInvariant, PTL

(* Once the phase machine has run, a phase of flight has its application:  *)
(* no reboot is missed.                                                    *)
THEOREM FlightAlwaysHasApplication == BootSpec => []FlightNeedsApplication
<1>1. PhaseInv => FlightNeedsApplication
  BY DEF PhaseInv
<1> QED
  BY <1>1, PhaseInvariant, PTL

(* An image whose CRC fails is started by no countdown, telecommand or     *)
(* watchdog: a step that starts it is the instructor's.                    *)
THEOREM CorruptImageNeverStarts == BootSpec => CorruptNeverStarts
<1>1. ASSUME BootIInv, [BootNext]_bootVars, imageCorrupt, swImage = "boot",
             swImage' = "app"
      PROVE  at = "instructor"
  <2>1. \/ swImage' = swImage \/ swImage' = "boot" \/ at = "instructor"
        \/ swImage' = ImageNext
    BY <1>1 DEF BootNext, BootTick, Telecommand, InstructorCommand, PhaseTick,
       EnterBootloader, ObdhTick, TurnOver, ObcReboot, ObcSwitchUnit, Reboot,
       ObcBootApp, ObcBootInhibit, ObcClearRebootCnt, SetMode,
       WatchdogCommand, SetPhase, StartSeparation, InjectWatchdog,
       InjectCrash, InjectStuck, ImageFailure, Instructor, bootVars, obc, craft
  <2>2. ImageNext = "boot"
    BY <1>1 DEF ImageNext
  <2> QED
    BY <1>1, <2>1, <2>2
<1> QED
  BY <1>1, BootInvariant, PTL DEF BootSpec, CorruptNeverStarts

-----------------------------------------------------------------------------
(***************************************************************************)
(* Theorems about on-board monitoring (module OnBoardMonitoring), for any  *)
(* monitors, parameters, rules, definitions and limits: the types, that    *)
(* the ground knows what the last tick found, and that equipment coming up *)
(* is no step change.                                                      *)
(***************************************************************************)

(* A baseline is that of a definition which is looked at as long as        *)
(* monitoring is on, and of a source that was on at the tick before.       *)
BaselineOK ==
  \A m \in Mons : last[m] # NoValue =>
    /\ defs[m] # Absent /\ defs[m].enabled
    /\ value[defs[m].param] # NoValue
    /\ defs[m].param \in wasPowered

MonitoringInv == MonitoringTypeOK /\ GroundAgrees /\ BaselineOK

LEMMA MonitoringInvInit == MonitoringInit => MonitoringInv
<1> SUFFICES ASSUME MonitoringInit PROVE MonitoringInv
  OBVIOUS
<1> USE OnBoardMonitoringAssumption
<1>1. override \in BOOLEAN /\ monOn \in BOOLEAN
  BY Zenon DEF MonitoringInit
<1>2. /\ value \in [Params -> Values \cup {NoValue}]
      /\ Params \ Gated \subseteq powered /\ powered \subseteq Params
      /\ defs \in [Mons -> Definitions \cup {Absent}]
      /\ last \in [Mons -> Values \cup {NoValue}]
      /\ active \subseteq Mons /\ rulesOn \subseteq Rules
      /\ told \in [Mons -> {"nominal", "out", "muted"}]
      /\ wasPowered \subseteq Params
  BY DEF MonitoringInit
<1>3. GroundAgrees /\ BaselineOK
  BY DEF MonitoringInit, GroundAgrees, BaselineOK
<1> QED
  BY <1>1, <1>2, <1>3 DEF MonitoringInv, MonitoringTypeOK

(* A definition that is looked at has its parameter.                       *)
LEMMA LookedTyped ==
  ASSUME MonitoringTypeOK, NEW m \in Mons, Looked(m)
  PROVE  /\ defs[m].param \in Params
         /\ value[defs[m].param] \in Values
         /\ defs[m] # Absent /\ defs[m].enabled /\ monOn
BY DEF MonitoringTypeOK, Looked, Definitions

(* One tick: the new baselines, the reports and what the rules did.        *)
LEMMA BaselineTyped ==
  ASSUME MonitoringTypeOK PROVE [m \in Mons |-> Baseline(m)] \in [Mons -> Values \cup {NoValue}]
<1>1. ASSUME NEW m \in Mons PROVE Baseline(m) \in Values \cup {NoValue}
  <2>1. last[m] \in Values \cup {NoValue}
    BY DEF MonitoringTypeOK
  <2>2. Sampled(m) => value[defs[m].param] \in Values
    BY LookedTyped DEF Sampled
  <2> QED
    BY <2>1, <2>2 DEF Baseline
<1> QED
  BY <1>1

LEMMA ActTyped ==
  ASSUME MonitoringTypeOK, Act
  PROVE  /\ value' \in [Params -> Values \cup {NoValue}]
         /\ \A p \in Params : value[p] # NoValue => value'[p] # NoValue
         /\ Params \ Gated \subseteq powered' /\ powered' \subseteq Params
<1> USE OnBoardMonitoringAssumption
<1>1. 0 \in Values /\ NoValue # 0
  BY DEF Values, NoValue
<1>2. \A p \in Params : value'[p] = 0 \/ value'[p] = value[p]
  BY DEF Act
<1>3. value' \in [Params -> Values \cup {NoValue}]
  BY <1>1 DEF Act, MonitoringTypeOK
<1>4. \A r \in Fired : r.effect = "dark" => r.target \in Gated
  BY DEF Fired, MonitoringTypeOK
<1>5. Params \ Gated \subseteq powered' /\ powered' \subseteq Params
  BY <1>4 DEF Act, MonitoringTypeOK
<1> QED
  BY <1>1, <1>2, <1>3, <1>5

LEMMA MonitoringTickKeeps == ASSUME MonitoringInv, MonitoringTick PROVE MonitoringInv'
<1>1. /\ active' = Violated
      /\ last' = [m \in Mons |-> Baseline(m)]
      /\ Report /\ Act
      /\ UNCHANGED <<override, monOn, defs, rulesOn>>
  BY DEF MonitoringTick, tables
<1>2. wasPowered' = IF monOn THEN powered ELSE Params
  BY Zenon DEF MonitoringTick
<1>3. MonitoringTypeOK
  BY DEF MonitoringInv
<1>4. told' \in [Mons -> {"nominal", "out", "muted"}]
  BY <1>1, <1>3 DEF Report, MonitoringTypeOK
<1>5. active' \subseteq Mons
  BY <1>1 DEF Violated
<1>6. MonitoringTypeOK'
  <2>1. override' \in BOOLEAN /\ monOn' \in BOOLEAN
    BY <1>1, <1>3, Zenon DEF MonitoringTypeOK
  <2>2. wasPowered' \subseteq Params
    BY <1>2, <1>3 DEF MonitoringTypeOK
  <2>3. /\ value' \in [Params -> Values \cup {NoValue}]
        /\ Params \ Gated \subseteq powered' /\ powered' \subseteq Params
    BY <1>1, <1>3, ActTyped
  <2>4. last' \in [Mons -> Values \cup {NoValue}]
    BY <1>1, <1>3, BaselineTyped
  <2>5. defs' \in [Mons -> Definitions \cup {Absent}] /\ rulesOn' \subseteq Rules
    BY <1>1, <1>3 DEF MonitoringTypeOK
  <2> QED
    BY <1>4, <1>5, <2>1, <2>2, <2>3, <2>4, <2>5 DEF MonitoringTypeOK
<1>7. GroundAgrees'
  <2>1. ASSUME NEW m \in Mons
        PROVE  m \in Violated <=> told'[m] # "nominal"
    <3>1. told'[m] = (CASE m \in Entered -> "out"
                        [] m \in New \ Entered -> "muted"
                        [] m \in Cleared -> "nominal" [] OTHER -> told[m])
      BY <1>1 DEF Report
    <3>2. /\ Entered \subseteq New /\ New = Violated \ active
          /\ Cleared = active \ Violated
      BY DEF Entered, New, Cleared
    <3>3. m \in active <=> told[m] # "nominal"
      BY DEF MonitoringInv, GroundAgrees
    <3>4. CASE m \in Entered
      BY <3>1, <3>2, <3>4
    <3>5. CASE m \in New \ Entered
      BY <3>1, <3>2, <3>5
    <3>6. CASE m \in Cleared
      BY <3>1, <3>2, <3>6
    <3>7. CASE m \notin New /\ m \notin Cleared
      BY <3>1, <3>2, <3>3, <3>7
    <3> QED
      BY <3>2, <3>4, <3>5, <3>6, <3>7
  <2> QED
    BY <1>1, <2>1 DEF GroundAgrees, Violated
<1>8. BaselineOK'
  <2> SUFFICES ASSUME NEW m \in Mons, last'[m] # NoValue
               PROVE  /\ defs[m] # Absent /\ defs[m].enabled
                      /\ value'[defs[m].param] # NoValue
                      /\ defs[m].param \in wasPowered'
    BY <1>1 DEF BaselineOK
  <2>1. last'[m] = Baseline(m)
    BY <1>1
  <2>2. CASE Sampled(m)
    <3>1. defs[m].param \in powered /\ Looked(m)
      BY <2>2 DEF Sampled
    <3>2. /\ defs[m].param \in Params /\ value[defs[m].param] # NoValue
          /\ defs[m] # Absent /\ defs[m].enabled /\ monOn
      BY <1>3, <3>1, LookedTyped DEF Looked
    <3> QED
      BY <1>1, <1>2, <1>3, <3>1, <3>2, ActTyped
  <2>3. CASE ~Sampled(m)
    <3>1. ~Looked(m) /\ last[m] # NoValue
      BY <2>1, <2>3 DEF Baseline
    <3>2. /\ defs[m] # Absent /\ defs[m].enabled
          /\ value[defs[m].param] # NoValue /\ defs[m].param \in wasPowered
      BY <3>1 DEF MonitoringInv, BaselineOK
    <3>3. ~monOn
      BY <3>1, <3>2 DEF Looked
    <3>4. defs[m].param \in Params
      BY <1>3, <3>2 DEF MonitoringTypeOK
    <3> QED
      BY <1>1, <1>2, <1>3, <3>2, <3>3, <3>4, ActTyped
  <2> QED
    BY <2>2, <2>3
<1> QED
  BY <1>6, <1>7, <1>8 DEF MonitoringInv

(* Telecommands: a definition that is replaced or deleted loses its        *)
(* baseline, and no telecommand changes what was reported.                 *)
LEMMA DefinitionKeeps ==
  ASSUME MonitoringInv, NEW m \in Mons, NEW d \in Definitions \cup {Absent},
         defs' = [defs EXCEPT ![m] = d],
         last' = [last EXCEPT ![m] = NoValue],
         UNCHANGED <<world, monOn, rulesOn, tick>>
  PROVE  MonitoringInv'
<1>1. UNCHANGED <<value, powered, override, monOn, rulesOn, active, told,
                  wasPowered>>
  BY DEF world, tick
<1>2. override' \in BOOLEAN /\ monOn' \in BOOLEAN
  BY <1>1, Zenon DEF MonitoringInv, MonitoringTypeOK
<1>3. /\ defs' \in [Mons -> Definitions \cup {Absent}]
      /\ last' \in [Mons -> Values \cup {NoValue}]
  BY DEF MonitoringInv, MonitoringTypeOK
<1>4. MonitoringTypeOK'
  BY <1>1, <1>2, <1>3 DEF MonitoringInv, MonitoringTypeOK
<1>5. GroundAgrees'
  BY <1>1 DEF MonitoringInv, GroundAgrees
<1>6. BaselineOK'
  <2> SUFFICES ASSUME NEW k \in Mons, last'[k] # NoValue
               PROVE  /\ defs'[k] # Absent /\ defs'[k].enabled
                      /\ value'[defs'[k].param] # NoValue
                      /\ defs'[k].param \in wasPowered'
    BY DEF BaselineOK
  <2>1. k # m /\ defs'[k] = defs[k] /\ last[k] # NoValue
    BY DEF MonitoringInv, MonitoringTypeOK
  <2> QED
    BY <1>1, <2>1 DEF MonitoringInv, BaselineOK
<1> QED
  BY <1>4, <1>5, <1>6 DEF MonitoringInv

(* The other steps change neither definitions, baselines nor reports, and  *)
(* take no parameter's value away.                                         *)
LEMMA OtherKeeps ==
  ASSUME MonitoringInv, UNCHANGED <<defs, last, active, told, wasPowered>>,
         monOn' \in BOOLEAN, override' \in BOOLEAN,
         value' \in [Params -> Values \cup {NoValue}],
         \A p \in Params : value[p] # NoValue => value'[p] # NoValue,
         Params \ Gated \subseteq powered', powered' \subseteq Params,
         rulesOn' \subseteq Rules
  PROVE  MonitoringInv'
<1>1. MonitoringTypeOK'
  BY DEF MonitoringInv, MonitoringTypeOK
<1>2. GroundAgrees'
  BY DEF MonitoringInv, GroundAgrees
<1>3. BaselineOK'
  <2> SUFFICES ASSUME NEW k \in Mons, last[k] # NoValue
               PROVE  /\ defs[k] # Absent /\ defs[k].enabled
                      /\ value'[defs[k].param] # NoValue
                      /\ defs[k].param \in wasPowered
    BY DEF BaselineOK
  <2>1. /\ defs[k] # Absent /\ defs[k].enabled
        /\ value[defs[k].param] # NoValue /\ defs[k].param \in wasPowered
    BY DEF MonitoringInv, BaselineOK
  <2>2. defs[k].param \in Params
    BY <2>1 DEF MonitoringInv, MonitoringTypeOK
  <2> QED
    BY <2>1, <2>2
<1> QED
  BY <1>1, <1>2, <1>3 DEF MonitoringInv

LEMMA MonitoringInvNext == MonitoringInv /\ [MonitoringNext]_monitoringVars => MonitoringInv'
<1> SUFFICES ASSUME MonitoringInv, [MonitoringNext]_monitoringVars PROVE MonitoringInv'
  OBVIOUS
<1> USE OnBoardMonitoringAssumption
<1>0. /\ value \in [Params -> Values \cup {NoValue}]
      /\ Params \ Gated \subseteq powered /\ powered \subseteq Params
      /\ rulesOn \subseteq Rules
  BY DEF MonitoringInv, MonitoringTypeOK
<1>1. monOn \in BOOLEAN /\ override \in BOOLEAN
  BY Zenon DEF MonitoringInv, MonitoringTypeOK
<1>2. CASE MonitoringTick
  BY <1>2, MonitoringTickKeeps
<1>3. ASSUME NEW on \in BOOLEAN, SetMonitoring(on) PROVE MonitoringInv'
  <2>1. UNCHANGED <<value, powered, override, defs, rulesOn, last, active,
                    told, wasPowered>>
    BY <1>3 DEF SetMonitoring, world, tick
  <2>2. monOn' \in BOOLEAN /\ override' \in BOOLEAN
    BY <1>1, <1>3, Zenon DEF SetMonitoring, world
  <2> QED
    BY <1>0, <2>1, <2>2, OtherKeeps
<1>4. ASSUME NEW m \in Mons, NEW d \in Offered, AddDefinition(m, d) PROVE MonitoringInv'
  <2>1. d \in Definitions
    BY DEF Definitions
  <2> QED
    BY <1>4, <2>1, DefinitionKeeps DEF AddDefinition
<1>5. ASSUME NEW m \in Mons, DeleteDefinition(m) PROVE MonitoringInv'
  BY <1>5, DefinitionKeeps DEF DeleteDefinition
<1>6. ASSUME NEW r \in Rules, NEW on \in BOOLEAN, SetRule(r, on) PROVE MonitoringInv'
  <2>1. UNCHANGED <<value, powered, override, monOn, defs, last, active,
                    told, wasPowered>>
    BY <1>6 DEF SetRule, world, tick
  <2>2. monOn' \in BOOLEAN /\ override' \in BOOLEAN
    BY <1>1, <1>6, Zenon DEF SetRule, world
  <2>3. rulesOn' \subseteq Rules
    BY <1>0, <1>6 DEF SetRule
  <2> QED
    BY <1>0, <2>1, <2>2, <2>3, OtherKeeps
<1>7. ASSUME NEW p \in Params, NEW v \in Values, WriteParam(p, v) PROVE MonitoringInv'
  <2>1. UNCHANGED <<powered, override, monOn, defs, rulesOn, last, active,
                    told, wasPowered>>
    BY <1>7 DEF WriteParam, tables, tick
  <2>2. monOn' \in BOOLEAN /\ override' \in BOOLEAN
    BY <1>1, <1>7, Zenon DEF WriteParam, tables
  <2>3. v # NoValue
    BY DEF Values, NoValue
  <2>4. /\ value' \in [Params -> Values \cup {NoValue}]
        /\ \A q \in Params : value[q] # NoValue => value'[q] # NoValue
    BY <1>0, <1>7, <2>3 DEF WriteParam
  <2> QED
    BY <1>0, <2>1, <2>2, <2>4, OtherKeeps
<1>8. ASSUME NEW p \in Gated, SwitchSource(p) PROVE MonitoringInv'
  <2>1. UNCHANGED <<value, override, monOn, defs, rulesOn, last, active,
                    told, wasPowered>>
    BY <1>8 DEF SwitchSource, tables, tick
  <2>2. monOn' \in BOOLEAN /\ override' \in BOOLEAN
    BY <1>1, <1>8, Zenon DEF SwitchSource, tables
  <2>3. Params \ Gated \subseteq powered' /\ powered' \subseteq Params
    BY <1>0, <1>8 DEF SwitchSource
  <2> QED
    BY <1>0, <2>1, <2>2, <2>3, OtherKeeps
<1>9. CASE ToggleOverride
  <2>1. UNCHANGED <<value, powered, monOn, defs, rulesOn, last, active,
                    told, wasPowered>>
    BY <1>9 DEF ToggleOverride, tables, tick
  <2>2. monOn' \in BOOLEAN /\ override' \in BOOLEAN
    BY <1>1, <1>9, Zenon DEF ToggleOverride, tables
  <2> QED
    BY <1>0, <2>1, <2>2, OtherKeeps
<1>10. CASE UNCHANGED monitoringVars
  <2>1. UNCHANGED <<value, powered, defs, rulesOn, last, active, told,
                    wasPowered>>
    BY <1>10 DEF monitoringVars, world, tables
  <2>2. monOn' \in BOOLEAN /\ override' \in BOOLEAN
    BY <1>1, <1>10, Zenon DEF monitoringVars, world, tables
  <2> QED
    BY <1>0, <2>1, <2>2, OtherKeeps
<1> QED
  BY <1>2, <1>3, <1>4, <1>5, <1>6, <1>7, <1>8, <1>9, <1>10 DEF MonitoringNext

LEMMA MonitoringInvariant == MonitoringSpec => []MonitoringInv
BY MonitoringInvInit, MonitoringInvNext, PTL DEF MonitoringSpec

(* The variables keep their types; in particular a rule switches off only  *)
(* sources that can be switched.                                           *)
THEOREM MonitoringTypeCorrect == MonitoringSpec => []MonitoringTypeOK
<1>1. MonitoringInv => MonitoringTypeOK
  BY DEF MonitoringInv
<1> QED
  BY <1>1, MonitoringInvariant, PTL

(* What the ground was told of each monitor is what the last tick found,   *)
(* whatever was added, deleted, disabled, forced or switched in between.   *)
THEOREM GroundAlwaysAgrees == MonitoringSpec => []GroundAgrees
<1>1. MonitoringInv => GroundAgrees
  BY DEF MonitoringInv
<1> QED
  BY <1>1, MonitoringInvariant, PTL

(* A delta check enters violation only on a source that was on at the tick *)
(* before (or while monitoring was off): powering up is no step change.    *)
THEOREM PowerUpIsNeverStep == MonitoringSpec => PowerUpIsNoStep
<1>1. ASSUME MonitoringInv, [MonitoringNext]_monitoringVars, NEW m \in active' \ active,
             defs[m].check = "delta"
      PROVE  defs[m].param \in wasPowered
  <2>1. active' = active \/ active' = Violated
    BY <1>1 DEF MonitoringNext, MonitoringTick, SetMonitoring, AddDefinition, DeleteDefinition,
       SetRule, WriteParam, SwitchSource, ToggleOverride, monitoringVars, tick
  <2>2. m \in Mons /\ Violates(m)
    BY <1>1, <2>1 DEF Violated
  <2>3. last[m] # NoValue
    BY <1>1, <2>2 DEF Violates
  <2> QED
    BY <1>1, <2>2, <2>3 DEF MonitoringInv, BaselineOK
<1>2. MonitoringInv /\ [MonitoringNext]_monitoringVars =>
        \A m \in active' \ active :
          defs[m].check = "delta" => defs[m].param \in wasPowered
  BY <1>1
<1> QED
  BY <1>2, MonitoringInvariant, PTL DEF MonitoringSpec, PowerUpIsNoStep

-----------------------------------------------------------------------------
(***************************************************************************)
(* Theorems about the time-tagged schedule (module TcScheduler), for every *)
(* split of ticks into sub-steps, every clock and every telecommand: the   *)
(* types, that identifiers are never given twice, that no command fires    *)
(* before its time, and that every step is one that TimeTags allows.       *)
(***************************************************************************)

(* A schedule, its counter, and what was released and dispatched: the      *)
(* identifiers given so far, each in one place.                            *)
ScheduleOK(cs, n, du, di) ==
  /\ n \in 1 .. MaxIds + 1
  /\ DOMAIN cs \subseteq 1 .. n - 1 /\ cs \in [DOMAIN cs -> Entry]
  /\ DOMAIN du \subseteq 1 .. n - 1 /\ du \in [DOMAIN du -> Entry]
  /\ di \subseteq 1 .. n - 1
  /\ DOMAIN cs \cap DOMAIN du = {}
  /\ di \cap (DOMAIN cs \cup DOMAIN du) = {}

(* The two clocks: one that only ticked is not ahead of the mission by     *)
(* more than the sub-step in progress.                                     *)
ClockOK(t, by, sim, ds) ==
  /\ t \in 0 .. Horizon /\ by \in {"start", "command", "gps"}
  /\ sim \in Nat /\ ds \in Nat
  /\ by = "start" => t * PerSecond <= sim + ds

(* Between the parts of a tick nothing is in hand.                         *)
StageOK ==
  /\ step \in {"idle", "drain", "dispatch"}
  /\ current \in Request \cup {None}
  /\ step = "idle" => dt_sub = 0 /\ Idle
  /\ step # "dispatch" => DOMAIN due = {}

(* What was released was due on a clock that has only ticked since.        *)
DueOK == set_by = "start" => \A i \in DOMAIN due : due[i].exec_time <= obc_time

SavedOK ==
  /\ ScheduleOK(saved.commands, saved.next_id, Nothing, saved.dispatched)
  /\ ClockOK(saved.obc_time, saved.set_by, saved.sim_time, 0)
  /\ saved.enabled \in BOOLEAN

ScheduleInv ==
  /\ ScheduleOK(commands, next_id, due, dispatched)
  /\ ClockOK(obc_time, set_by, sim_time, dt_sub)
  /\ StageOK /\ DueOK /\ SavedOK
  /\ enabled \in BOOLEAN /\ restores \in 0 .. MaxRestores
-----------------------------------------------------------------------------
(* Arithmetic of the sub-steps.                                            *)
LEMMA Division ==
  ASSUME NEW a \in Nat, NEW b \in Nat \ {0}
  PROVE  a \div b \in Nat /\ b * (a \div b) <= a /\ a < b * (a \div b) + b
OBVIOUS

LEMMA AtLeastOne ==
  ASSUME NEW a \in Nat, NEW b \in Nat \ {0}, a >= b
  PROVE  a \div b >= 1
BY Division

LEMMA Regroup ==
  ASSUME NEW n \in Nat, NEW q \in Nat, NEW p \in Nat, NEW d \in Nat,
         (n * p) * q <= d
  PROVE  n * q \in Nat /\ (n * q) * p <= d
OBVIOUS

LEMMA Scale ==
  ASSUME NEW a \in Nat, NEW b \in Nat, NEW p \in Nat, a <= b
  PROVE  a * p <= b * p /\ a * p \in Nat
OBVIOUS

(* Whatever the number of sub-steps, their whole seconds do not exceed the *)
(* time the tick covers.                                                   *)
LEMMA GainBound ==
  ASSUME NEW dt \in TickSizes
  PROVE  /\ dt \div Substeps(dt) \in Nat /\ dt \div Substeps(dt) <= dt
         /\ Gain(dt) \in Nat /\ Gain(dt) * PerSecond <= dt
<1> USE TcSchedulerAssumption
<1>1. dt \in Nat /\ dt >= 1 /\ PerSecond \in Nat \ {0}
  OBVIOUS
<1> DEFINE up == (dt + PerSecond - 1) \div PerSecond
<1> DEFINE n == Substeps(dt)
<1>2. up \in Nat /\ up >= 1
  <2>1. dt + PerSecond - 1 \in Nat /\ dt + PerSecond - 1 >= PerSecond
    BY <1>1
  <2> QED
    BY <1>1, <2>1, AtLeastOne, Division
<1>3. n \in Nat \ {0}
  <2> HIDE DEF up
  <2> QED
    BY <1>2 DEF Substeps, Least, up
<1> HIDE DEF n
<1>4. dt \div n \in Nat /\ n * (dt \div n) <= dt
  BY <1>1, <1>3, Division
<1>5. dt \div n <= dt
  <2> DEFINE q == dt \div n
  <2> HIDE DEF q
  <2> SUFFICES q <= dt
    BY DEF q
  <2>1. q \in Nat /\ n * q <= dt
    BY <1>4 DEF q
  <2>2. q <= n * q
    BY <1>3, <2>1
  <2> QED
    BY <1>1, <1>3, <2>1, <2>2
<1> DEFINE k == n * PerSecond
<1>6. k \in Nat \ {0}
  BY <1>1, <1>3
<1> DEFINE q == dt \div k
<1>7. q \in Nat /\ k * q <= dt
  <2> HIDE DEF k
  <2> QED
    BY <1>1, <1>6, Division
<1>8. Gain(dt) = n * q
  BY DEF Gain, n
<1> HIDE DEF q
<1>9. n * q \in Nat /\ (n * q) * PerSecond <= dt
  BY <1>1, <1>3, <1>7, Regroup
<1> QED
  BY <1>4, <1>5, <1>8, <1>9 DEF n

(* The clocks after a tick, and after the last of its sub-steps.           *)
LEMMA ClockTicks ==
  ASSUME NEW t \in 0 .. Horizon, NEW sim \in Nat, NEW dt \in Nat,
         NEW ds \in Nat, ds <= dt, NEW g \in Nat, g * PerSecond <= dt
  PROVE  /\ Least(t + g, Horizon) \in 0 .. Horizon
         /\ Least(sim + dt - ds, Horizon * PerSecond) \in Nat
         /\ t * PerSecond <= sim =>
              Least(t + g, Horizon) * PerSecond
                <= Least(sim + dt - ds, Horizon * PerSecond) + ds
<1> USE TcSchedulerAssumption
<1> DEFINE u == Least(t + g, Horizon)
<1>1. u \in 0 .. Horizon /\ u <= t + g
  BY DEF Least
<1> HIDE DEF u
<1>2. PerSecond \in Nat /\ Horizon \in Nat /\ t \in Nat /\ u \in Nat
  BY <1>1
<1>3. u * PerSecond <= Horizon * PerSecond /\ Horizon * PerSecond \in Nat
  BY <1>1, <1>2, Scale
<1>4. u * PerSecond <= (t + g) * PerSecond /\ u * PerSecond \in Nat
  BY <1>1, <1>2, Scale
<1>5. (t + g) * PerSecond = t * PerSecond + g * PerSecond
  BY <1>2
<1> DEFINE hp == Horizon * PerSecond
           up == u * PerSecond
           tp == t * PerSecond
           gp == g * PerSecond
<1>6. hp \in Nat /\ up \in Nat /\ tp \in Nat /\ gp \in Nat /\ up <= hp
      /\ up <= tp + gp /\ gp <= dt
  BY <1>2, <1>3, <1>4, <1>5
<1> HIDE DEF hp, up, tp, gp
<1>7. Least(sim + dt - ds, hp) \in Nat
      /\ (tp <= sim => up <= Least(sim + dt - ds, hp) + ds)
  BY <1>6 DEF Least
<1> QED
  BY <1>1, <1>7 DEF u, hp, up, tp

LEMMA ClockCatchesUp ==
  ASSUME NEW t \in 0 .. Horizon, NEW sim \in Nat, NEW ds \in Nat
  PROVE  /\ Least(sim + ds, Horizon * PerSecond) \in Nat
         /\ t * PerSecond <= sim + ds =>
              t * PerSecond <= Least(sim + ds, Horizon * PerSecond) + 0
<1> USE TcSchedulerAssumption
<1>1. PerSecond \in Nat /\ Horizon \in Nat /\ t \in Nat /\ t <= Horizon
  OBVIOUS
<1>2. t * PerSecond <= Horizon * PerSecond /\ t * PerSecond \in Nat
      /\ Horizon * PerSecond \in Nat
  BY <1>1, Scale
<1> DEFINE hp == Horizon * PerSecond
           tp == t * PerSecond
<1>3. hp \in Nat /\ tp \in Nat /\ tp <= hp
  BY <1>2
<1> HIDE DEF hp, tp
<1>4. Least(sim + ds, hp) \in Nat
      /\ (tp <= sim + ds => tp <= Least(sim + ds, hp) + 0)
  BY <1>3 DEF Least
<1> QED
  BY <1>4 DEF hp, tp

-----------------------------------------------------------------------------
(* Invariance.                                                             *)
LEMMA ScheduleInvInit == ScheduleInit => ScheduleInv
<1> SUFFICES ASSUME ScheduleInit PROVE ScheduleInv
  OBVIOUS
<1> USE TcSchedulerAssumption
<1>1. enabled \in BOOLEAN
  BY Zenon DEF ScheduleInit
<1>2. /\ commands = Nothing /\ next_id = 1 /\ obc_time = 0 /\ set_by = "start"
      /\ sim_time = 0 /\ dt_sub = 0 /\ step = "idle" /\ due = Nothing
      /\ current = None /\ dispatched = {} /\ saved = Held /\ restores = 0
  BY DEF ScheduleInit, Idle
<1>3. Nothing \in [{} -> Entry] /\ DOMAIN Nothing = {}
  BY DEF Nothing
<1>4. ScheduleOK(Nothing, 1, Nothing, {})
  BY <1>3 DEF ScheduleOK
<1>5. ClockOK(0, "start", 0, 0)
  BY DEF ClockOK
<1>6. saved.enabled \in BOOLEAN
  BY <1>1, <1>2, Zenon DEF Held
<1>7. /\ saved.commands = Nothing /\ saved.next_id = 1
      /\ saved.dispatched = {} /\ saved.obc_time = 0
      /\ saved.set_by = "start" /\ saved.sim_time = 0
  BY <1>2 DEF Held
<1>8. SavedOK
  BY <1>4, <1>5, <1>6, <1>7 DEF SavedOK
<1>9. StageOK /\ DueOK
  BY <1>2, <1>3 DEF StageOK, DueOK, Idle
<1>10. restores \in 0 .. MaxRestores
  BY <1>2
<1> QED
  BY <1>1, <1>2, <1>4, <1>5, <1>8, <1>9, <1>10 DEF ScheduleInv

(* Most actions leave the saved copy alone.                                *)
LEMMA SavedKept == ASSUME SavedOK, UNCHANGED saved PROVE SavedOK'
BY DEF SavedOK

LEMMA ScheduleTickKeeps == ASSUME ScheduleInv, NEW dt \in TickSizes, Tick(dt) PROVE ScheduleInv'
<1> USE TcSchedulerAssumption
<1> DEFINE ds == dt \div Substeps(dt)
<1>1. ds \in Nat /\ ds <= dt /\ Gain(dt) \in Nat /\ Gain(dt) * PerSecond <= dt
  BY GainBound
<1>2. dt \in Nat /\ step = "idle" /\ dt_sub = 0 /\ DOMAIN due = {} /\ Idle
      /\ obc_time \in 0 .. Horizon /\ sim_time \in Nat
      /\ set_by \in {"start", "command", "gps"}
      /\ (set_by = "start" => obc_time * PerSecond <= sim_time)
  BY DEF Tick, ScheduleInv, StageOK, ClockOK
<1>3. /\ obc_time' = Least(obc_time + Gain(dt), Horizon)
      /\ dt_sub' = ds
      /\ sim_time' = Least(sim_time + dt - ds, Horizon * PerSecond)
      /\ step' = "drain"
  BY DEF Tick
<1> HIDE DEF ds
<1>4. ClockOK(obc_time', set_by, sim_time', dt_sub')
  BY <1>1, <1>2, <1>3, ClockTicks DEF ClockOK
<1>5. /\ UNCHANGED <<commands, next_id, enabled, set_by, due, current,
                     dispatched, saved, restores>>
  BY DEF Tick
<1>6. StageOK' /\ DueOK'
  BY <1>2, <1>3, <1>5 DEF StageOK, DueOK, ScheduleInv, Idle
<1>7. enabled' \in BOOLEAN
  BY <1>5, Zenon DEF ScheduleInv
<1>8. ScheduleOK(commands, next_id, due, dispatched)'
  BY <1>5 DEF ScheduleInv
<1>9. ClockOK(obc_time, set_by, sim_time, dt_sub)'
  BY <1>4, <1>5
<1>10. SavedOK' /\ restores' \in 0 .. MaxRestores
  BY <1>5, SavedKept DEF ScheduleInv
<1> QED
  BY <1>6, <1>7, <1>8, <1>9, <1>10 DEF ScheduleInv

(* Leaving commands out of a schedule.                                     *)
LEMMA DropLemma ==
  ASSUME NEW f, NEW S, f \in [DOMAIN f -> Entry]
  PROVE  /\ DOMAIN Drop(f, S) = DOMAIN f \ S
         /\ Drop(f, S) \in [DOMAIN Drop(f, S) -> Entry]
         /\ \A i \in DOMAIN f \ S : Drop(f, S)[i] = f[i]
BY DEF Drop

LEMMA UplinkKeeps == ASSUME ScheduleInv, NEW r \in Uplinks, Uplink(r) PROVE ScheduleInv'
<1>1. /\ step = "drain" /\ current' = r /\ r \in Request
      /\ UNCHANGED <<commands, next_id, enabled, obc_time, set_by, sim_time,
                     dt_sub, step, due, dispatched, saved, restores>>
  BY TcSchedulerAssumption DEF Uplink
<1>2. StageOK' /\ DueOK'
  BY <1>1 DEF ScheduleInv, StageOK, DueOK
<1>3. enabled' \in BOOLEAN
  BY <1>1, Zenon DEF ScheduleInv
<1> QED
  BY <1>1, <1>2, <1>3, SavedKept DEF ScheduleInv

LEMMA ReleaseKeeps == ASSUME ScheduleInv, Release PROVE ScheduleInv'
<1>1. /\ step = "drain" /\ Idle /\ step' = "dispatch"
      /\ due' = [i \in Releasable |-> commands[i]]
      /\ commands' = Drop(commands, Releasable)
      /\ UNCHANGED <<next_id, enabled, obc_time, set_by, sim_time, dt_sub,
                     current, dispatched, saved, restores>>
  BY DEF Release, Kept
<1>2. Releasable \subseteq DOMAIN commands
      /\ \A i \in Releasable : commands[i].exec_time <= obc_time
  BY DEF Releasable, IsDue
<1>3. /\ commands \in [DOMAIN commands -> Entry]
      /\ DOMAIN commands \subseteq 1 .. next_id - 1
      /\ dispatched \subseteq 1 .. next_id - 1
      /\ dispatched \cap DOMAIN commands = {}
      /\ next_id \in 1 .. MaxIds + 1
  BY DEF ScheduleInv, ScheduleOK
<1>4. DOMAIN due' = Releasable /\ due' \in [DOMAIN due' -> Entry]
  BY <1>1, <1>2, <1>3
<1>5. DOMAIN commands' = DOMAIN commands \ Releasable
      /\ commands' \in [DOMAIN commands' -> Entry]
  BY <1>1, <1>3, DropLemma
<1>6. ScheduleOK(commands', next_id, due', dispatched)
  BY <1>2, <1>3, <1>4, <1>5 DEF ScheduleOK
<1>7. StageOK' /\ DueOK'
  BY <1>1, <1>2, <1>4 DEF ScheduleInv, StageOK, DueOK, Idle
<1>8. enabled' \in BOOLEAN
  BY <1>1, Zenon DEF ScheduleInv
<1>9. ScheduleOK(commands, next_id, due, dispatched)'
  BY <1>1, <1>6
<1> QED
  BY <1>1, <1>7, <1>8, <1>9, SavedKept DEF ScheduleInv

LEMMA DispatchKeeps == ASSUME ScheduleInv, NEW k \in Ids, Dispatch(k) PROVE ScheduleInv'
<1>1. /\ step = "dispatch" /\ k \in DOMAIN due
      /\ current' = Body[due[k].tc]
      /\ due' = Drop(due, {k})
      /\ dispatched' = dispatched \cup {k}
      /\ UNCHANGED <<commands, next_id, enabled, obc_time, set_by, sim_time,
                     dt_sub, step, saved, restores>>
  BY DEF Dispatch
<1>2. /\ due \in [DOMAIN due -> Entry] /\ DOMAIN due \subseteq 1 .. next_id - 1
  BY DEF ScheduleInv, ScheduleOK
<1>3. DOMAIN due' = DOMAIN due \ {k} /\ due' \in [DOMAIN due' -> Entry]
      /\ \A j \in DOMAIN due' : due'[j] = due[j]
  <2> DEFINE nd == Drop(due, {k})
  <2>1. DOMAIN nd = DOMAIN due \ {k} /\ nd \in [DOMAIN nd -> Entry]
        /\ \A j \in DOMAIN due \ {k} : nd[j] = due[j]
    BY <1>2, DropLemma
  <2>2. due' = nd
    BY <1>1
  <2> HIDE DEF nd
  <2> QED
    BY <2>1, <2>2
<1>4. current' \in Request
  BY <1>1, <1>2, TcSchedulerAssumption DEF Entry
<1>5. ScheduleOK(commands, next_id, due', dispatched')
  BY <1>1, <1>2, <1>3 DEF ScheduleInv, ScheduleOK
<1>6. StageOK' /\ DueOK'
  BY <1>1, <1>3, <1>4 DEF ScheduleInv, StageOK, DueOK
<1>7. enabled' \in BOOLEAN
  BY <1>1, Zenon DEF ScheduleInv
<1>8. ScheduleOK(commands, next_id, due, dispatched)'
  BY <1>1, <1>5
<1> QED
  BY <1>1, <1>6, <1>7, <1>8, SavedKept DEF ScheduleInv

LEMMA EndTickKeeps == ASSUME ScheduleInv, EndTick PROVE ScheduleInv'
<1>1. /\ Idle /\ DOMAIN due = {} /\ step' = "idle" /\ dt_sub' = 0
      /\ sim_time' = Least(sim_time + dt_sub, Horizon * PerSecond)
      /\ UNCHANGED <<commands, next_id, enabled, obc_time, set_by, due,
                     current, dispatched, saved, restores>>
  BY DEF EndTick
<1>2. ClockOK(obc_time, set_by, sim_time', 0)
  BY <1>1, ClockCatchesUp DEF ScheduleInv, ClockOK
<1>3. StageOK' /\ DueOK'
  BY <1>1 DEF ScheduleInv, StageOK, DueOK, Idle
<1>4. enabled' \in BOOLEAN
  BY <1>1, Zenon DEF ScheduleInv
<1>5. ScheduleOK(commands, next_id, due, dispatched)'
  BY <1>1 DEF ScheduleInv
<1>6. ClockOK(obc_time, set_by, sim_time, dt_sub)'
  BY <1>1, <1>2
<1> QED
  BY <1>1, <1>3, <1>4, <1>5, <1>6, SavedKept DEF ScheduleInv

-----------------------------------------------------------------------------
(* The handlers: each ends with nothing in hand, outside idle.             *)
LEMMA HandlerStage ==
  ASSUME ScheduleInv, ~Idle, current' = None, UNCHANGED Rest
  PROVE  /\ StageOK' /\ SavedOK' /\ restores' \in 0 .. MaxRestores
         /\ step # "idle" /\ current \in Request
         /\ UNCHANGED <<sim_time, dt_sub, due, dispatched>>
BY SavedKept DEF ScheduleInv, StageOK, Rest, Idle

LEMMA Busy == ASSUME NEW op, op # "none", Handling(op) PROVE ~Idle
BY DEF Handling, Idle, None

(* A handler that leaves the clock alone.                                  *)
LEMMA ScheduleHandlers ==
  ASSUME ScheduleInv, ~Idle, current' = None, UNCHANGED Rest,
         UNCHANGED <<obc_time, set_by>>, enabled' \in BOOLEAN,
         ScheduleOK(commands', next_id', due, dispatched)
  PROVE  ScheduleInv'
<1>1. /\ StageOK' /\ SavedOK' /\ restores' \in 0 .. MaxRestores
      /\ UNCHANGED <<sim_time, dt_sub, due, dispatched>>
  BY HandlerStage
<1>2. ScheduleOK(commands, next_id, due, dispatched)'
  BY <1>1
<1>3. ClockOK(obc_time, set_by, sim_time, dt_sub)' /\ DueOK'
  BY <1>1 DEF ScheduleInv, DueOK
<1> QED
  BY <1>1, <1>2, <1>3, Zenon DEF ScheduleInv

(* A handler that writes the clock: it no longer only ticks.               *)
LEMMA ClockHandlers ==
  ASSUME ScheduleInv, ~Idle, current' = None, UNCHANGED Rest,
         UNCHANGED <<commands, next_id, enabled>>,
         obc_time' \in 0 .. Horizon, set_by' \in {"command", "gps"}
  PROVE  ScheduleInv'
<1>1. /\ StageOK' /\ SavedOK' /\ restores' \in 0 .. MaxRestores
      /\ UNCHANGED <<sim_time, dt_sub, due, dispatched>>
  BY HandlerStage
<1>2. ScheduleOK(commands, next_id, due, dispatched)'
  BY <1>1 DEF ScheduleInv
<1>3. ClockOK(obc_time, set_by, sim_time, dt_sub)' /\ DueOK'
  BY <1>1 DEF ScheduleInv, ClockOK, DueOK
<1>4. enabled' \in BOOLEAN
  BY Zenon DEF ScheduleInv
<1> QED
  BY <1>1, <1>2, <1>3, <1>4, Zenon DEF ScheduleInv

LEMMA DropKeeps ==
  ASSUME ScheduleInv, NEW S
  PROVE  ScheduleOK(Drop(commands, S), next_id, due, dispatched)
<1>1. DOMAIN Drop(commands, S) = DOMAIN commands \ S
      /\ Drop(commands, S) \in [DOMAIN Drop(commands, S) -> Entry]
  BY DropLemma DEF ScheduleInv, ScheduleOK
<1> QED
  BY <1>1 DEF ScheduleInv, ScheduleOK

LEMMA InsertKeeps == ASSUME ScheduleInv, HandleInsert PROVE ScheduleInv'
<1> USE TcSchedulerAssumption
<1>1. /\ next_id <= MaxIds /\ next_id' = next_id + 1
      /\ commands' = [i \in DOMAIN commands \cup {next_id} |->
            IF i = next_id THEN [exec_time |-> current.at, tc |-> current.tc]
                           ELSE commands[i]]
      /\ UNCHANGED <<enabled, obc_time, set_by>>
  BY DEF HandleInsert, IdFresh
<1>2. current' = None /\ UNCHANGED Rest /\ ~Idle
  BY Busy DEF HandleInsert, Handling
<1>3. current \in Request
  BY <1>2, HandlerStage
<1>4. [exec_time |-> current.at, tc |-> current.tc] \in Entry
  BY <1>3 DEF Request, Entry
<1>5. ScheduleOK(commands, next_id, due, dispatched)
  BY DEF ScheduleInv
<1>6. next_id \in Nat /\ next_id >= 1 /\ next_id' \in 1 .. MaxIds + 1
      /\ next_id \in 1 .. next_id' - 1 /\ next_id \notin 1 .. next_id - 1
      /\ 1 .. next_id - 1 \subseteq 1 .. next_id' - 1
  BY <1>1, <1>5 DEF ScheduleOK
<1>7. DOMAIN commands' = DOMAIN commands \cup {next_id}
      /\ commands' \in [DOMAIN commands' -> Entry]
  BY <1>1, <1>4, <1>5 DEF ScheduleOK
<1>8. ScheduleOK(commands', next_id', due, dispatched)
  BY <1>5, <1>6, <1>7 DEF ScheduleOK
<1>9. enabled' \in BOOLEAN
  BY <1>1, Zenon DEF ScheduleInv
<1> QED
  BY <1>1, <1>2, <1>8, <1>9, ScheduleHandlers

LEMMA HandleKeeps == ASSUME ScheduleInv, Handle PROVE ScheduleInv'
<1> USE TcSchedulerAssumption
<1>1. ScheduleOK(commands, next_id, due, dispatched)
  BY DEF ScheduleInv
<1>2. CASE HandleElsewhere
  <2>1. ~Idle /\ current' = None
        /\ UNCHANGED <<commands, next_id, enabled, obc_time, set_by>>
        /\ UNCHANGED Rest
    BY <1>2 DEF HandleElsewhere
  <2>2. enabled' \in BOOLEAN
    BY <2>1, Zenon DEF ScheduleInv
  <2>3. ScheduleOK(commands', next_id', due, dispatched)
    BY <1>1, <2>1
  <2> QED
    BY <2>1, <2>2, <2>3, ScheduleHandlers
<1>3. CASE HandleInsert
  BY <1>3, InsertKeeps
<1>4. ASSUME HandleDelete \/ HandleDeleteAll PROVE ScheduleInv'
  <2>1. ~Idle /\ current' = None /\ UNCHANGED Rest
    BY <1>4, Busy DEF HandleDelete, HandleDeleteAll, Handling
  <2>2. UNCHANGED <<next_id, enabled, obc_time, set_by>>
    BY <1>4 DEF HandleDelete, HandleDeleteAll
  <2>3. ScheduleOK(commands', next_id, due, dispatched)
    BY <1>4, DropKeeps DEF HandleDelete, HandleDeleteAll
  <2>4. enabled' \in BOOLEAN
    BY <2>2, Zenon DEF ScheduleInv
  <2>5. ScheduleOK(commands', next_id', due, dispatched)
    BY <2>2, <2>3
  <2> QED
    BY <2>1, <2>2, <2>4, <2>5, ScheduleHandlers
<1>5. ASSUME HandleEnable \/ HandleDisable PROVE ScheduleInv'
  <2>1. ~Idle /\ current' = None /\ UNCHANGED Rest
    BY <1>5, Busy DEF HandleEnable, HandleDisable, Handling
  <2>2. UNCHANGED <<commands, next_id, obc_time, set_by>>
    BY <1>5 DEF HandleEnable, HandleDisable
  <2>3. enabled' \in BOOLEAN
    BY <1>5, Zenon DEF HandleEnable, HandleDisable
  <2>4. ScheduleOK(commands', next_id', due, dispatched)
    BY <1>1, <2>2
  <2> QED
    BY <2>1, <2>2, <2>3, <2>4, ScheduleHandlers
<1>6. CASE HandleSetTime
  <2>1. ~Idle /\ current' = None /\ UNCHANGED Rest
    BY <1>6, Busy DEF HandleSetTime, Handling
  <2>2. current.at \in Nat
    BY <2>1, HandlerStage DEF Request
  <2>3. /\ obc_time' \in 0 .. Horizon /\ set_by' = "command"
        /\ UNCHANGED <<commands, next_id, enabled>>
    BY <1>6, <2>2 DEF HandleSetTime, Least
  <2> QED
    BY <2>1, <2>3, ClockHandlers
<1>7. CASE HandleGpsTimeSync
  <2>1. ~Idle /\ current' = None /\ UNCHANGED Rest
    BY <1>7, Busy DEF HandleGpsTimeSync, Handling
  <2> DEFINE d == sim_time \div PerSecond
  <2>2. d \in Nat
    BY Division DEF ScheduleInv, ClockOK
  <2>3. /\ obc_time' = Least(d + UnixOffset, Horizon) /\ set_by' = "gps"
        /\ UNCHANGED <<commands, next_id, enabled>>
    BY <1>7 DEF HandleGpsTimeSync
  <2> HIDE DEF d
  <2>4. obc_time' \in 0 .. Horizon
    BY <2>2, <2>3 DEF Least
  <2> QED
    BY <2>1, <2>3, <2>4, ClockHandlers
<1> QED
  BY <1>2, <1>3, <1>4, <1>5, <1>6, <1>7 DEF Handle

-----------------------------------------------------------------------------
(* Breakpoints are taken and loaded between ticks.                         *)
LEMMA SaveKeeps == ASSUME ScheduleInv, SaveBreakpoint PROVE ScheduleInv'
<1>1. /\ step = "idle" /\ saved' = Held
      /\ UNCHANGED <<commands, next_id, enabled, obc_time, set_by, sim_time,
                     dt_sub, step, due, current, dispatched, restores>>
  BY DEF SaveBreakpoint
<1>2. /\ saved'.commands = commands /\ saved'.next_id = next_id
      /\ saved'.obc_time = obc_time /\ saved'.set_by = set_by
      /\ saved'.sim_time = sim_time /\ saved'.dispatched = dispatched
  BY <1>1 DEF Held
<1>3. saved'.enabled \in BOOLEAN /\ enabled' \in BOOLEAN
  BY <1>1, Zenon DEF Held, ScheduleInv
<1>4. dt_sub = 0
  BY <1>1 DEF ScheduleInv, StageOK
<1>5. ScheduleOK(commands, next_id, Nothing, dispatched)
  <2>1. DOMAIN Nothing = {} /\ Nothing \in [{} -> Entry]
    BY DEF Nothing
  <2> QED
    BY <2>1 DEF ScheduleInv, ScheduleOK
<1>6. SavedOK'
  BY <1>2, <1>3, <1>4, <1>5 DEF SavedOK, ScheduleInv
<1>7. StageOK' /\ DueOK'
  BY <1>1 DEF ScheduleInv, StageOK, DueOK, Idle
<1> QED
  BY <1>1, <1>3, <1>6, <1>7 DEF ScheduleInv

LEMMA LoadKeeps == ASSUME ScheduleInv, LoadBreakpoint PROVE ScheduleInv'
<1> USE TcSchedulerAssumption
<1>1. /\ restores < MaxRestores /\ restores' = restores + 1 /\ step = "idle"
      /\ commands' = saved.commands /\ next_id' = saved.next_id
      /\ obc_time' = saved.obc_time /\ set_by' = saved.set_by
      /\ sim_time' = saved.sim_time /\ dispatched' = saved.dispatched
      /\ UNCHANGED <<dt_sub, step, due, current, saved>>
  BY DEF LoadBreakpoint, RestoredSchedule
<1>2. enabled' \in BOOLEAN
  <2>1. enabled' = saved.enabled
    BY DEF LoadBreakpoint
  <2> QED
    BY <2>1, Zenon DEF ScheduleInv, SavedOK
<1>3. dt_sub = 0 /\ DOMAIN due = {}
  BY <1>1 DEF ScheduleInv, StageOK
<1>4. StageOK' /\ DueOK'
  BY <1>1, <1>3 DEF ScheduleInv, StageOK, DueOK, Idle
<1>5. due \in [{} -> Entry]
  BY <1>3 DEF ScheduleInv, ScheduleOK
<1>6. ScheduleOK(commands', next_id', due, dispatched')
  BY <1>1, <1>3, <1>5 DEF ScheduleInv, SavedOK, ScheduleOK
<1>7. ScheduleOK(commands, next_id, due, dispatched)'
  BY <1>1, <1>6
<1>8. ClockOK(obc_time, set_by, sim_time, dt_sub)'
  BY <1>1, <1>3 DEF ScheduleInv, SavedOK
<1>9. restores' \in 0 .. MaxRestores
  BY <1>1 DEF ScheduleInv
<1> QED
  BY <1>1, <1>2, <1>4, <1>7, <1>8, <1>9, SavedKept DEF ScheduleInv

LEMMA ScheduleInvNext == ScheduleInv /\ [ScheduleNext]_scheduleVars => ScheduleInv'
<1> SUFFICES ASSUME ScheduleInv, [ScheduleNext]_scheduleVars PROVE ScheduleInv'
  OBVIOUS
<1>1. ASSUME NEW dt \in TickSizes, Tick(dt) PROVE ScheduleInv'
  BY <1>1, ScheduleTickKeeps
<1>2. ASSUME NEW r \in Uplinks, Uplink(r) PROVE ScheduleInv'
  BY <1>2, UplinkKeeps
<1>3. CASE DispatchOne
  BY <1>3, DispatchKeeps DEF DispatchOne
<1>4. CASE UNCHANGED scheduleVars
  <2>1. enabled' \in BOOLEAN
    BY <1>4, Zenon DEF ScheduleInv, scheduleVars
  <2>2. StageOK' /\ DueOK'
    BY <1>4 DEF ScheduleInv, StageOK, DueOK, Idle, scheduleVars
  <2> QED
    BY <1>4, <2>1, <2>2, SavedKept DEF ScheduleInv, scheduleVars
<1> QED
  BY <1>1, <1>2, <1>3, <1>4, ReleaseKeeps, EndTickKeeps, HandleKeeps,
     SaveKeeps, LoadKeeps DEF ScheduleNext

LEMMA ScheduleInvariant == ScheduleSpec => []ScheduleInv
BY ScheduleInvInit, ScheduleInvNext, PTL DEF ScheduleSpec

(* The variables keep their types; in particular an identifier is never    *)
(* beyond the counter, in the schedule or in what a breakpoint holds.      *)
THEOREM ScheduleTypeCorrect == ScheduleSpec => []ScheduleTypeOK
<1>1. ScheduleInv => ScheduleTypeOK
  <2> SUFFICES ASSUME ScheduleInv PROVE ScheduleTypeOK
    OBVIOUS
  <2> USE TcSchedulerAssumption
  <2>1. 1 .. next_id - 1 \subseteq Ids
    BY DEF ScheduleInv, ScheduleOK, Ids
  <2>2. /\ DOMAIN commands \subseteq Ids /\ commands \in [DOMAIN commands -> Entry]
        /\ next_id \in 1 .. MaxIds + 1
        /\ DOMAIN due \subseteq Ids /\ due \in [DOMAIN due -> Entry]
        /\ dispatched \subseteq Ids
    BY <2>1 DEF ScheduleInv, ScheduleOK
  <2>3. /\ obc_time \in Nat /\ set_by \in {"start", "command", "gps"}
        /\ sim_time \in Nat /\ dt_sub \in Nat
        /\ step \in {"idle", "drain", "dispatch"}
        /\ current \in Request \cup {None}
    BY DEF ScheduleInv, ClockOK, StageOK
  <2>4. /\ DOMAIN saved.commands \subseteq 1 .. saved.next_id - 1
        /\ saved.next_id \in 1 .. MaxIds + 1
    BY DEF ScheduleInv, SavedOK, ScheduleOK
  <2>5. enabled \in BOOLEAN /\ restores \in 0 .. MaxRestores
    BY Zenon DEF ScheduleInv
  <2> QED
    BY <2>2, <2>3, <2>4, <2>5 DEF ScheduleTypeOK
<1> QED
  BY <1>1, ScheduleInvariant, PTL

(* No command fires before its time tag on a clock that only ticks: for    *)
(* every split of a tick into sub-steps (engine._tick_once), every order   *)
(* of telecommands and every breakpoint.                                   *)
THEOREM NoTagFiresEarly == ScheduleSpec => []NeverEarly
<1>1. ScheduleInv => NeverEarly
  <2> SUFFICES ASSUME ScheduleInv, set_by = "start", NEW i \in DOMAIN due
               PROVE  due[i].exec_time * PerSecond <= sim_time + dt_sub
    BY DEF NeverEarly
  <2> USE TcSchedulerAssumption
  <2> DEFINE e == due[i].exec_time
             t == obc_time
  <2>1. e \in Nat /\ t \in Nat /\ PerSecond \in Nat /\ e <= t
        /\ sim_time + dt_sub \in Nat
        /\ t * PerSecond <= sim_time + dt_sub
    BY DEF ScheduleInv, DueOK, ClockOK, ScheduleOK, Entry
  <2> HIDE DEF e, t
  <2>2. e * PerSecond <= t * PerSecond /\ e * PerSecond \in Nat
        /\ t * PerSecond \in Nat
    BY <2>1, Scale
  <2>3. e * PerSecond <= sim_time + dt_sub
    BY <2>1, <2>2
  <2> QED
    BY <2>3 DEF e
<1> QED
  BY <1>1, ScheduleInvariant, PTL

-----------------------------------------------------------------------------
(* The steps of the scheduler are steps of TimeTags.  View is the status   *)
(* of every identifier, from the parts of the state it depends on.         *)
View(cs, n, du, di) ==
  [i \in Ids |->
     CASE i \in di        -> "dispatched"
       [] i \in DOMAIN du -> "released"
       [] i \in DOMAIN cs -> "scheduled"
       [] i >= n          -> "unused"
       [] OTHER           -> "deleted"]

SavedView == [status  |-> View(saved.commands, saved.next_id, Nothing,
                               saved.dispatched),
              enabled |-> saved.enabled]

(* The five places are exclusive.                                          *)
LEMMA ViewIs ==
  ASSUME NEW cs, NEW n, NEW du, NEW di, ScheduleOK(cs, n, du, di),
         NEW i \in Ids
  PROVE  /\ View(cs, n, du, di)[i] = "dispatched" <=> i \in di
         /\ View(cs, n, du, di)[i] = "released" <=> i \in DOMAIN du
         /\ View(cs, n, du, di)[i] = "scheduled" <=> i \in DOMAIN cs
         /\ View(cs, n, du, di)[i] = "unused" <=> i >= n
         /\ View(cs, n, du, di)[i] = "deleted" <=>
              i < n /\ i \notin di \cup DOMAIN du \cup DOMAIN cs
         /\ View(cs, n, du, di)[i] \in {"dispatched", "released", "scheduled",
                                        "unused", "deleted"}
<1> USE TcSchedulerAssumption
<1>1. i \in Nat /\ n \in Nat /\ ~(i >= n /\ i \in 1 .. n - 1)
      /\ (i >= n <=> ~(i < n))
  BY DEF ScheduleOK, Ids
<1>2. /\ i \in di => i \notin DOMAIN du /\ i \notin DOMAIN cs /\ ~(i >= n)
      /\ i \in DOMAIN du => i \notin DOMAIN cs /\ ~(i >= n)
      /\ i \in DOMAIN cs => ~(i >= n)
  BY <1>1 DEF ScheduleOK
<1>3. View(cs, n, du, di)[i] =
        (CASE i \in di        -> "dispatched"
           [] i \in DOMAIN du -> "released"
           [] i \in DOMAIN cs -> "scheduled"
           [] i >= n          -> "unused"
           [] OTHER           -> "deleted")
  BY DEF View
<1>4. i < n <=> ~(i >= n)
  BY <1>1
<1> QED
  BY <1>2, <1>3, <1>4

LEMMA Mapping ==
  /\ StatusIn(Held, DOMAIN due) = View(commands, next_id, due, dispatched)
  /\ StatusIn(Held, DOMAIN due)' = View(commands', next_id', due', dispatched')
  /\ [status |-> StatusIn(saved, {}), enabled |-> saved.enabled] = SavedView
  /\ [status |-> StatusIn(saved, {}), enabled |-> saved.enabled]' = SavedView'
BY DEF StatusIn, Held, View, SavedView, Nothing

LEMMA InitMaps == ScheduleInit => Promise!Init
<1> SUFFICES ASSUME ScheduleInit PROVE Promise!Init
  OBVIOUS
<1> USE TcSchedulerAssumption
<1>1. ScheduleInv
  BY ScheduleInvInit
<1>2. enabled = TRUE
  BY Zenon DEF ScheduleInit
<1>3. View(commands, next_id, due, dispatched) = [i \in Ids |-> "unused"]
  BY DEF ScheduleInit, View, Nothing, Ids
<1>4. /\ saved.commands = commands /\ saved.next_id = next_id
      /\ saved.dispatched = dispatched /\ due = Nothing
  BY DEF ScheduleInit, Held
<1>5. saved.enabled = enabled
  BY Zenon DEF ScheduleInit, Held
<1>6. SavedView = [status |-> View(commands, next_id, due, dispatched),
                   enabled |-> enabled]
  BY <1>4, <1>5, Zenon DEF SavedView
<1> QED
  BY <1>2, <1>3, <1>6, Mapping, Zenon DEF Promise!Init

(* The identifiers of U stay where they are.                               *)
Unmoved(U) ==
  \A i \in U :
    /\ i \in dispatched' <=> i \in dispatched
    /\ i \in DOMAIN due' <=> i \in DOMAIN due
    /\ i \in DOMAIN commands' <=> i \in DOMAIN commands
    /\ i >= next_id' <=> i >= next_id

LEMMA UnmovedView ==
  ASSUME NEW U \in SUBSET Ids, Unmoved(U)
  PROVE  \A i \in U : View(commands', next_id', due', dispatched')[i]
                        = View(commands, next_id, due, dispatched)[i]
BY DEF View, Unmoved

LEMMA ViewDomain ==
  View(commands', next_id', due', dispatched')
    = [i \in Ids |-> View(commands', next_id', due', dispatched')[i]]
BY DEF View

LEMMA ReleaseMaps ==
  ASSUME ScheduleInv, ScheduleInv', Release PROVE [Promise!Next]_(Promise!vars)
<1> DEFINE st == View(commands, next_id, due, dispatched)
           sn == View(commands', next_id', due', dispatched')
           S == Releasable
<1>1. /\ due' = [i \in Releasable |-> commands[i]]
      /\ commands' = Drop(commands, Releasable)
      /\ UNCHANGED <<next_id, dispatched, saved>>
      /\ step = "drain"
  BY DEF Release, Kept
<1>2. UNCHANGED enabled
  BY Zenon DEF Release
<1>3. /\ S \subseteq DOMAIN commands /\ DOMAIN commands \subseteq Ids
      /\ DOMAIN due = {}
      /\ ScheduleOK(commands, next_id, due, dispatched)
      /\ ScheduleOK(commands', next_id', due', dispatched')
  <2>1. S \subseteq DOMAIN commands
    BY DEF Releasable
  <2>2. DOMAIN commands \subseteq Ids
    BY TcSchedulerAssumption DEF ScheduleInv, ScheduleOK, Ids
  <2>3. DOMAIN due = {}
    BY <1>1 DEF ScheduleInv, StageOK
  <2> QED
    BY <2>1, <2>2, <2>3 DEF ScheduleInv
<1>4. DOMAIN due' = S /\ DOMAIN commands' = DOMAIN commands \ S
  BY <1>1 DEF Drop
<1>5. sn = [i \in Ids |-> IF i \in S THEN "released" ELSE st[i]]
  <2>1. \A i \in Ids \cap S : sn[i] = "released"
    BY <1>3, <1>4, ViewIs
  <2>2. Unmoved(Ids \ S)
    BY <1>1, <1>3, <1>4 DEF Unmoved
  <2>3. \A i \in Ids \ S : sn[i] = st[i]
    BY <2>2, UnmovedView
  <2>4. sn = [i \in Ids |-> sn[i]]
    BY ViewDomain
  <2> HIDE DEF S, sn, st
  <2> QED
    BY <2>1, <2>3, <2>4
<1>6. S \in SUBSET {i \in Ids : st[i] = "scheduled"}
  BY <1>3, ViewIs
<1>7. {i \in Ids : st[i] = "released"} = {}
  BY <1>3, ViewIs
<1>8. SavedView' = SavedView
  BY <1>1 DEF SavedView
<1> HIDE DEF st, sn
<1>9. CASE enabled
  <2>1. Promise!Release(S)
    BY <1>2, <1>5, <1>7, <1>8, <1>9, Mapping
       DEF Promise!Release, Promise!In, Promise!Move, st, sn
  <2>2. S \in SUBSET Promise!In("scheduled")
    BY <1>6, Mapping DEF Promise!In, st
  <2> QED
    BY <2>1, <2>2 DEF Promise!Next
<1>10. CASE ~enabled
  <2>1. S = {}
    BY <1>10 DEF Releasable
  <2>2. sn = st
    BY <1>5, <2>1 DEF View, st
  <2> QED
    BY <1>2, <1>8, <2>2, Mapping DEF Promise!vars, st, sn
<1> QED
  BY <1>9, <1>10

LEMMA DispatchMaps ==
  ASSUME ScheduleInv, ScheduleInv', NEW k \in Ids, Dispatch(k)
  PROVE  [Promise!Next]_(Promise!vars)
<1> DEFINE st == View(commands, next_id, due, dispatched)
           sn == View(commands', next_id', due', dispatched')
<1>1. /\ k \in DOMAIN due /\ \A j \in DOMAIN due : k <= j
      /\ due' = Drop(due, {k}) /\ dispatched' = dispatched \cup {k}
      /\ UNCHANGED <<commands, next_id, saved>>
  BY DEF Dispatch
<1>2. UNCHANGED enabled
  BY Zenon DEF Dispatch
<1>3. /\ ScheduleOK(commands, next_id, due, dispatched)
      /\ ScheduleOK(commands', next_id', due', dispatched')
  BY DEF ScheduleInv
<1>4. DOMAIN due' = DOMAIN due \ {k}
  BY <1>1 DEF Drop
<1>5. sn = [i \in Ids |-> IF i \in {k} THEN "dispatched" ELSE st[i]]
  <2>1. \A i \in Ids \cap {k} : sn[i] = "dispatched"
    BY <1>1, <1>3, ViewIs
  <2>2. Unmoved(Ids \ {k})
    BY <1>1, <1>4 DEF Unmoved
  <2>3. \A i \in Ids \ {k} : sn[i] = st[i]
    BY <2>2, UnmovedView
  <2>4. sn = [i \in Ids |-> sn[i]]
    BY ViewDomain
  <2> HIDE DEF sn, st
  <2> QED
    BY <2>1, <2>3, <2>4
<1>6. /\ st[k] = "released"
      /\ \A j \in Ids : st[j] = "released" => k <= j
  BY <1>1, <1>3, ViewIs
<1>7. SavedView' = SavedView
  BY <1>1 DEF SavedView
<1> HIDE DEF st, sn
<1>8. Promise!Dispatch(k)
  BY <1>2, <1>5, <1>6, <1>7, Mapping
     DEF Promise!Dispatch, Promise!In, Promise!Move, st, sn
<1> QED
  BY <1>8 DEF Promise!Next, Promise!DispatchOne

LEMMA InsertMaps ==
  ASSUME ScheduleInv, ScheduleInv', HandleInsert PROVE Promise!Next
<1> USE TcSchedulerAssumption
<1> DEFINE st == View(commands, next_id, due, dispatched)
           sn == View(commands', next_id', due', dispatched')
           k == next_id
<1>1. /\ k <= MaxIds /\ next_id' = k + 1
      /\ DOMAIN commands' = DOMAIN commands \cup {k}
      /\ UNCHANGED <<due, dispatched, saved>>
  BY DEF HandleInsert, IdFresh, Handling, Rest
<1>2. UNCHANGED enabled
  BY Zenon DEF HandleInsert
<1>3. /\ ScheduleOK(commands, next_id, due, dispatched)
      /\ ScheduleOK(commands', next_id', due', dispatched')
  BY DEF ScheduleInv
<1>4. k \in Ids /\ k \in Nat
  BY <1>1, <1>3 DEF ScheduleOK, Ids
<1>5. sn = [i \in Ids |-> IF i \in {k} THEN "scheduled" ELSE st[i]]
  <2>1. \A i \in Ids \cap {k} : sn[i] = "scheduled"
    BY <1>1, <1>3, ViewIs
  <2>2. Unmoved(Ids \ {k})
    BY <1>1, <1>4 DEF Ids, Unmoved
  <2>3. \A i \in Ids \ {k} : sn[i] = st[i]
    BY <2>2, UnmovedView
  <2>4. sn = [i \in Ids |-> sn[i]]
    BY ViewDomain
  <2> HIDE DEF k, sn, st
  <2> QED
    BY <2>1, <2>3, <2>4
<1>6. /\ st[k] = "unused"
      /\ \A j \in Ids : st[j] = "unused" => k <= j
  BY <1>3, <1>4, ViewIs DEF Ids
<1>7. SavedView' = SavedView
  BY <1>1 DEF SavedView
<1> HIDE DEF st, sn, k
<1>8. Promise!Insert(k)
  BY <1>2, <1>4, <1>5, <1>6, <1>7, Mapping
     DEF Promise!Insert, Promise!In, Promise!Move, st, sn
<1> QED
  BY <1>4, <1>8 DEF Promise!Next

(* One command deleted, if there is one of that number, or all of them.    *)
LEMMA DeleteMaps ==
  ASSUME ScheduleInv, ScheduleInv', NEW D, commands' = Drop(commands, D),
         UNCHANGED <<next_id, enabled, due, dispatched, saved>>
  PROVE  Promise!Next
<1> DEFINE st == View(commands, next_id, due, dispatched)
           sn == View(commands', next_id', due', dispatched')
           S == DOMAIN commands \cap D
<1>1. UNCHANGED enabled
  BY Zenon
<1>2. DOMAIN commands' = DOMAIN commands \ D
  BY DEF Drop
<1>3. /\ ScheduleOK(commands, next_id, due, dispatched)
      /\ ScheduleOK(commands', next_id', due', dispatched')
  BY DEF ScheduleInv
<1>4. S \subseteq Ids /\ \A i \in Ids \cap S : i < next_id
  BY <1>3, TcSchedulerAssumption DEF ScheduleOK, Ids
<1>5. sn = [i \in Ids |-> IF i \in S THEN "deleted" ELSE st[i]]
  <2>1. \A i \in Ids \cap S : sn[i] = "deleted"
    <3> SUFFICES ASSUME NEW i \in Ids \cap S PROVE sn[i] = "deleted"
      OBVIOUS
    <3>1. i \notin dispatched /\ i \notin DOMAIN due /\ i \notin DOMAIN commands'
      BY <1>2, <1>3 DEF ScheduleOK
    <3> QED
      BY <3>1, <1>3, <1>4, ViewIs
  <2>2. Unmoved(Ids \ S)
    BY <1>2 DEF Unmoved
  <2>3. \A i \in Ids \ S : sn[i] = st[i]
    BY <2>2, UnmovedView
  <2>4. sn = [i \in Ids |-> sn[i]]
    BY ViewDomain
  <2> HIDE DEF S, sn, st
  <2> QED
    BY <2>1, <2>3, <2>4
<1>6. S \in SUBSET {i \in Ids : st[i] = "scheduled"}
  BY <1>3, <1>4, ViewIs
<1>7. SavedView' = SavedView
  BY DEF SavedView
<1> HIDE DEF st, sn, S
<1>8. Promise!Delete(S)
  BY <1>1, <1>5, <1>7, Mapping
     DEF Promise!Delete, Promise!Move, st, sn
<1>9. S \in SUBSET Promise!In("scheduled")
  BY <1>6, Mapping DEF Promise!In, st
<1> QED
  BY <1>8, <1>9 DEF Promise!Next

(* Steps that touch no schedule, and those that switch or restore it.      *)
LEMMA StutterMaps ==
  ASSUME UNCHANGED <<commands, next_id, enabled, due, dispatched, saved>>
  PROVE  UNCHANGED Promise!vars
<1>1. UNCHANGED enabled
  BY Zenon
<1>2. /\ View(commands', next_id', due', dispatched')
          = View(commands, next_id, due, dispatched)
      /\ SavedView' = SavedView
  BY DEF SavedView
<1> QED
  BY <1>1, <1>2, Mapping, Zenon DEF Promise!vars

LEMMA SwitchMaps ==
  ASSUME ScheduleInv', UNCHANGED <<commands, next_id, due, dispatched, saved>>
  PROVE  Promise!Next
<1>1. enabled' \in BOOLEAN
  BY Zenon DEF ScheduleInv
<1>2. /\ View(commands', next_id', due', dispatched')
          = View(commands, next_id, due, dispatched)
      /\ SavedView' = SavedView
  BY DEF SavedView
<1>3. Promise!Switch
  BY <1>1, <1>2, Mapping, Zenon DEF Promise!Switch
<1> QED
  BY <1>3 DEF Promise!Next

LEMMA BreakpointMaps ==
  ASSUME ScheduleInv, ScheduleInv', SaveBreakpoint \/ LoadBreakpoint PROVE Promise!Next
<1> DEFINE st == View(commands, next_id, due, dispatched)
           sn == View(commands', next_id', due', dispatched')
<1>1. step = "idle" /\ DOMAIN due = {}
  BY DEF ScheduleInv, StageOK, SaveBreakpoint, LoadBreakpoint
<1>2. {i \in Ids : st[i] = "released"} = {}
  BY <1>1, ViewIs DEF ScheduleInv
<1>3. \A cs, n, di : View(cs, n, due, di) = View(cs, n, Nothing, di)
  BY <1>1 DEF View, Nothing
<1>4. CASE SaveBreakpoint
  <2>1. /\ saved'.commands = commands /\ saved'.next_id = next_id
        /\ saved'.dispatched = dispatched
        /\ UNCHANGED <<commands, next_id, due, dispatched>>
    BY <1>4 DEF SaveBreakpoint, Held
  <2>2. saved'.enabled = enabled /\ UNCHANGED enabled
    BY <1>4, Zenon DEF SaveBreakpoint, Held
  <2>3. SavedView' = [status |-> st, enabled |-> enabled]
    BY <1>3, <2>1, <2>2, Zenon DEF SavedView
  <2>4. sn = st
    BY <2>1
  <2> HIDE DEF st, sn
  <2>5. Promise!Save
    BY <1>2, <2>2, <2>3, <2>4, Mapping DEF Promise!Save, Promise!In, st, sn
  <2> QED
    BY <2>5 DEF Promise!Next
<1>5. CASE LoadBreakpoint
  <2>1. /\ commands' = saved.commands /\ next_id' = saved.next_id
        /\ dispatched' = saved.dispatched
        /\ UNCHANGED <<due, saved>>
    BY <1>5 DEF LoadBreakpoint, RestoredSchedule
  <2>2. enabled' = saved.enabled
    BY <1>5, Zenon DEF LoadBreakpoint
  <2>3. SavedView' = SavedView
    BY <2>1 DEF SavedView
  <2>4. sn = View(saved.commands, saved.next_id, Nothing, saved.dispatched)
    BY <1>3, <2>1
  <2>5. sn = SavedView.status /\ enabled' = SavedView.enabled
    BY <2>2, <2>4, Zenon DEF SavedView
  <2> HIDE DEF st, sn
  <2>6. Promise!Restore
    BY <1>2, <2>3, <2>5, Mapping DEF Promise!Restore, Promise!In, st, sn
  <2> QED
    BY <2>6 DEF Promise!Next
<1> QED
  BY <1>4, <1>5

LEMMA NextMaps == ScheduleInv /\ ScheduleInv' /\ [ScheduleNext]_scheduleVars => [Promise!Next]_(Promise!vars)
<1> SUFFICES ASSUME ScheduleInv, ScheduleInv', [ScheduleNext]_scheduleVars
             PROVE  [Promise!Next]_(Promise!vars)
  OBVIOUS
<1>1. CASE UNCHANGED <<commands, next_id, enabled, due, dispatched, saved>>
  BY <1>1, StutterMaps
<1>2. CASE Release
  BY <1>2, ReleaseMaps
<1>3. CASE DispatchOne
  BY <1>3, DispatchMaps DEF DispatchOne
<1>4. CASE HandleInsert
  BY <1>4, InsertMaps
<1>5. CASE HandleDelete \/ HandleDeleteAll
  <2>1. UNCHANGED <<next_id, enabled, due, dispatched, saved>>
    BY <1>5 DEF HandleDelete, HandleDeleteAll, Handling, Rest
  <2>2. \E D : commands' = Drop(commands, D)
    BY <1>5 DEF HandleDelete, HandleDeleteAll
  <2> QED
    BY <2>1, <2>2, DeleteMaps
<1>6. CASE HandleEnable \/ HandleDisable
  <2>1. UNCHANGED <<commands, next_id, due, dispatched, saved>>
    BY <1>6 DEF HandleEnable, HandleDisable, Handling, Rest
  <2> QED
    BY <2>1, SwitchMaps
<1>7. CASE SaveBreakpoint \/ LoadBreakpoint
  BY <1>7, BreakpointMaps
<1>8. \/ UNCHANGED <<commands, next_id, enabled, due, dispatched, saved>>
      \/ Release \/ DispatchOne \/ HandleInsert
      \/ HandleDelete \/ HandleDeleteAll \/ HandleEnable \/ HandleDisable
      \/ SaveBreakpoint \/ LoadBreakpoint
  BY DEF ScheduleNext, Tick, Uplink, EndTick, Handle, HandleElsewhere, HandleSetTime,
     HandleGpsTimeSync, Handling, Rest, scheduleVars
<1> QED
  BY <1>1, <1>2, <1>3, <1>4, <1>5, <1>6, <1>7, <1>8

(* The scheduler implements the safety part of TimeTags: an identifier is  *)
(* given once, a command leaves the schedule once, in the order of         *)
(* identifiers and only from an enabled schedule, whatever a dispatched    *)
(* command does to the schedule it came from.                              *)
THEOREM SchedulerImplementsTimeTags ==
  ScheduleSpec => Promise!Init /\ [][Promise!Next]_(Promise!vars)
BY InitMaps, NextMaps, ScheduleInvariant, PTL DEF ScheduleSpec

=============================================================================
