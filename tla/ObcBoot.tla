------------------------------- MODULE ObcBoot -------------------------------
(***************************************************************************)
(* The on-board computer's images (boot loader, application), its reboots, *)
(* watchdog and boot countdown (obdh_basic.py), composed with the          *)
(* spacecraft phase machine of the engine, which configures the telemetry  *)
(* services for the beacon or for the application (engine.py).             *)
(*                                                                         *)
(* A sub-step of the engine drains the instructor's commands, runs the     *)
(* phase machine, ticks the OBDH model and then executes telecommands; the *)
(* four turns of "at" are those stages.  Instructor commands and           *)
(* telecommands may be absent in any tick.  One unit of time is one        *)
(* sub-step.  The phases are                                               *)
(*   0 pre-separation, 1 separation timer, 2 initial power-on,             *)
(*   3 boot loader, 4 LEOP, 5 commissioning, 6 nominal.                    *)
(***************************************************************************)
EXTENDS Naturals

CONSTANTS
  BootTime,     \* sub-steps of the CRC check before the application starts
  SepTime,      \* sub-steps of the separation timer
  MaxReboots    \* bound on the reboots of a behaviour

ASSUME ObcBootAssumption ==
  /\ BootTime \in Nat \ {0}
  /\ SepTime \in Nat \ {0}
  /\ MaxReboots \in Nat

VARIABLES
  at,            \* the stage of the sub-step that runs next
  phase,         \* engine._spacecraft_phase
  sepTimer,      \* engine._sep_timer
  services,      \* APID, HK gating and TM stores: "beacon" or "application"
  swImage,       \* "boot" or "app"
  mode,          \* OBC mode: 0 nominal, 1 safe, 2 maintenance
  bootPending,   \* a boot countdown runs
  bootTimer,     \* what is left of it
  bootInhibit,   \* no countdown after a reboot
  imageCorrupt,  \* the application image fails its CRC
  watchdogArmed,
  watchdogDue,   \* watchdog_timer has reached watchdog_period
  activeObc,     \* 0 = unit A, 1 = unit B
  bootCount,     \* boots of each unit
  rebootCount

obc == <<swImage, mode, bootPending, bootTimer, bootInhibit, imageCorrupt,
         watchdogArmed, watchdogDue, activeObc, bootCount, rebootCount>>
craft == <<phase, sepTimer, services>>
bootVars == <<at, craft, obc>>

Units == {0, 1}
counters == <<activeObc, bootCount, rebootCount>>
switches == <<bootInhibit, imageCorrupt, watchdogArmed>>

BootTypeOK ==
  /\ at \in {"instructor", "phase", "obdh", "command"}
  /\ phase \in 0 .. 6
  /\ sepTimer \in 0 .. SepTime
  /\ services \in {"beacon", "application"}
  /\ swImage \in {"boot", "app"}
  /\ mode \in 0 .. 2
  /\ bootPending \in BOOLEAN
  /\ bootTimer \in 0 .. BootTime
  /\ bootInhibit \in BOOLEAN
  /\ imageCorrupt \in BOOLEAN
  /\ watchdogArmed \in BOOLEAN
  /\ watchdogDue \in BOOLEAN
  /\ activeObc \in Units
  /\ bootCount \in [Units -> Nat]
  /\ rebootCount \in Nat

(* The engine starts in the boot loader, or, without start_in_bootloader,  *)
(* in the nominal phase; the OBC's image is the boot loader in both cases. *)
BootInit ==
  /\ at = "instructor"
  /\ \/ phase = 3 /\ services = "beacon"
     \/ phase = 6 /\ services = "application"
  /\ sepTimer = 0
  /\ swImage = "boot" /\ mode = 0
  /\ bootPending = FALSE /\ bootTimer = 0
  /\ bootInhibit = FALSE /\ imageCorrupt = FALSE
  /\ watchdogArmed = TRUE /\ watchdogDue = FALSE
  /\ activeObc = 0 /\ bootCount = [u \in Units |-> 0] /\ rebootCount = 0

-----------------------------------------------------------------------------
(* What a reboot of the unit "u" does; the countdown to the application is *)
(* armed at once unless the ground has inhibited it.                       *)
Reboot(u) ==
  /\ rebootCount' = rebootCount + 1
  /\ bootCount' = [bootCount EXCEPT ![u] = @ + 1]
  /\ swImage' = "boot" /\ mode' = 1 /\ watchdogDue' = FALSE
  /\ bootPending' = ~bootInhibit
  /\ bootTimer' = IF bootInhibit THEN 0 ELSE BootTime

(* Beacon operation: boot loader APID, beacon HK only, TM stores emptied   *)
(* and disabled, the OBC forced into its boot loader without countdown.    *)
EnterBootloader ==
  /\ services' = "beacon" /\ swImage' = "boot" /\ bootPending' = FALSE

RebootSeenNominal == phase = 6 /\ swImage = "boot"   \* mutant: only in nominal
RebootSeen == phase >= 4 /\ swImage = "boot"
ApplicationSeen == phase = 3 /\ swImage = "app"

(* The engine's phase machine: separation, power-on, LEOP once the         *)
(* application runs, and back to the beacon when a reboot is seen.         *)
PhaseTick ==
  /\ at = "phase" /\ at' = "obdh"
  /\ \/ /\ phase = 1
        /\ sepTimer' = sepTimer - 1
        /\ phase' = IF sepTimer = 1 THEN 2 ELSE 1
        /\ UNCHANGED <<services, swImage, bootPending>>
     \/ /\ phase = 2
        /\ phase' = 3 /\ swImage' = "boot"
        /\ UNCHANGED <<sepTimer, services, bootPending>>
     \/ /\ ApplicationSeen
        /\ phase' = 4 /\ services' = "application"
        /\ UNCHANGED <<sepTimer, swImage, bootPending>>
     \/ /\ RebootSeen
        /\ phase' = 3 /\ sepTimer' = 0 /\ EnterBootloader
     \/ /\ phase \notin {1, 2} /\ ~ApplicationSeen /\ ~RebootSeen
        /\ UNCHANGED <<craft, swImage, bootPending>>
  /\ UNCHANGED <<mode, bootTimer, switches, watchdogDue, counters>>

(* The boot countdown comes first in OBDHBasicModel.tick ... *)
BootEnds == bootPending /\ bootTimer <= 1
ImageNext == IF BootEnds THEN IF imageCorrupt THEN "boot" ELSE "app"
                         ELSE swImage
ModeNext == IF BootEnds /\ ~imageCorrupt THEN 0 ELSE mode

TimerNext == IF bootPending THEN bootTimer - 1 ELSE bootTimer

(* ... then the watchdog, on the image and mode the countdown left.  A     *)
(* healthy application, and every other configuration, resets the timer.   *)
WatchdogBites ==
  ImageNext = "app" /\ ModeNext = 0 /\ watchdogArmed /\ watchdogDue

ObdhTick ==
  /\ at = "obdh" /\ at' = "command"
  /\ \/ /\ WatchdogBites /\ Reboot(activeObc)
     \/ /\ ~WatchdogBites
        /\ swImage' = ImageNext /\ mode' = ModeNext
        /\ bootPending' = (bootPending /\ ~BootEnds)
        /\ bootTimer' = TimerNext
        /\ watchdogDue' = FALSE
        /\ UNCHANGED <<bootCount, rebootCount>>
  /\ UNCHANGED <<craft, switches, activeObc>>

(* The other stages of the tick; nothing of this module changes in them. *)
TurnOver ==
  /\ \/ at = "command" /\ at' = "instructor"
     \/ at = "instructor" /\ at' = "phase"
  /\ UNCHANGED <<craft, obc>>

-----------------------------------------------------------------------------
(* Telecommands, received, time-tagged or event-triggered.  The OBDH model *)
(* refuses all but the boot loader's commands while the boot loader runs.  *)
Command == at = "command" /\ UNCHANGED <<at, craft>>
AppCommand == Command /\ swImage = "app"

ObcReboot ==
  /\ Command /\ rebootCount < MaxReboots
  /\ Reboot(activeObc)
  /\ UNCHANGED <<switches, activeObc>>

ObcSwitchUnit ==
  /\ Command /\ rebootCount < MaxReboots
  /\ activeObc' = 1 - activeObc
  /\ Reboot(1 - activeObc)
  /\ UNCHANGED switches

ObcBootApp ==
  /\ Command /\ swImage = "boot"
  /\ bootPending' = TRUE /\ bootTimer' = BootTime
  /\ UNCHANGED <<swImage, mode, switches, watchdogDue, counters>>

ObcBootInhibit ==
  /\ Command
  /\ bootInhibit' \in BOOLEAN
  /\ UNCHANGED <<swImage, mode, bootPending, bootTimer, imageCorrupt,
                 watchdogArmed, watchdogDue, counters>>

ClearOneUnit ==   \* mutant: only the active unit's counter is cleared
  /\ Command
  /\ bootCount' = [bootCount EXCEPT ![activeObc] = 0] /\ rebootCount' = 0
  /\ UNCHANGED <<swImage, mode, bootPending, bootTimer, switches,
                 watchdogDue, activeObc>>

ObcClearRebootCnt ==
  /\ Command
  /\ bootCount' = [u \in Units |-> 0] /\ rebootCount' = 0
  /\ UNCHANGED <<swImage, mode, bootPending, bootTimer, switches,
                 watchdogDue, activeObc>>

(* Also the call of the FDIR action safe_mode_obc, with the mode 1. *)
SetMode ==
  /\ AppCommand
  /\ mode' \in 0 .. 2
  /\ UNCHANGED <<swImage, bootPending, bootTimer, switches, watchdogDue,
                 counters>>

(* A longer period takes a forced time-out back, a shorter one does not. *)
WatchdogCommand ==
  /\ AppCommand
  /\ \/ watchdogArmed' \in BOOLEAN /\ UNCHANGED watchdogDue
     \/ watchdogDue' \in {FALSE, watchdogDue} /\ UNCHANGED watchdogArmed
  /\ UNCHANGED <<swImage, mode, bootPending, bootTimer, bootInhibit,
                 imageCorrupt, counters>>

-----------------------------------------------------------------------------
(* Instructor commands: phase changes and injected failures. *)
Instructor == at = "instructor" /\ UNCHANGED at

ForceApplication == swImage' = "app" /\ bootPending' = FALSE

SetPhase(p) ==
  /\ Instructor
  /\ phase' = p
  /\ \/ /\ p <= 3 /\ EnterBootloader
        /\ sepTimer' = IF p = 1 THEN SepTime ELSE 0
     \/ /\ p >= 4
        /\ ForceApplication
        /\ services' = IF phase <= 3 THEN "application" ELSE services
        /\ UNCHANGED sepTimer
  /\ UNCHANGED <<mode, bootTimer, switches, watchdogDue, counters>>

StartSeparation ==
  /\ Instructor
  /\ phase' = 1 /\ sepTimer' = SepTime /\ EnterBootloader /\ bootTimer' = 0
  /\ UNCHANGED <<mode, switches, watchdogDue, counters>>

InjectWatchdog ==
  /\ Instructor /\ rebootCount < MaxReboots
  /\ watchdogArmed' = TRUE /\ watchdogDue' = TRUE
  /\ UNCHANGED <<craft, swImage, mode, bootPending, bootTimer, bootInhibit,
                 imageCorrupt, counters>>

(* obc_crash and memory_corruption both reboot the active unit. *)
InjectCrash ==
  /\ Instructor /\ rebootCount < MaxReboots
  /\ Reboot(activeObc)
  /\ UNCHANGED <<craft, switches, activeObc>>

InjectStuck ==
  /\ Instructor
  /\ imageCorrupt' = TRUE /\ bootInhibit' = TRUE
  /\ swImage' = "boot" /\ bootPending' = FALSE
  /\ UNCHANGED <<craft, mode, bootTimer, watchdogArmed, watchdogDue, counters>>

(* boot_image_corrupt, injected or cleared; clearing the stuck boot loader *)
(* also lifts the inhibition; clearing the watchdog takes its time-out back. *)
ImageFailure ==
  /\ Instructor
  /\ \/ imageCorrupt' \in BOOLEAN /\ UNCHANGED <<bootInhibit, watchdogDue>>
     \/ /\ imageCorrupt' = FALSE /\ bootInhibit' = FALSE
        /\ UNCHANGED watchdogDue
     \/ watchdogDue' = FALSE /\ UNCHANGED <<bootInhibit, imageCorrupt>>
  /\ UNCHANGED <<craft, swImage, mode, bootPending, bootTimer, watchdogArmed,
                 counters>>

-----------------------------------------------------------------------------
BootTick == PhaseTick \/ ObdhTick \/ TurnOver
Telecommand == ObcReboot \/ ObcSwitchUnit \/ ObcBootApp \/ ObcBootInhibit
                 \/ ObcClearRebootCnt \/ SetMode \/ WatchdogCommand
InstructorCommand == (\E p \in 0 .. 6 : SetPhase(p)) \/ StartSeparation
                       \/ InjectWatchdog \/ InjectCrash \/ InjectStuck
                       \/ ImageFailure
BootNext == BootTick \/ Telecommand \/ InstructorCommand

(* The engine's thread keeps ticking; ground and instructor need not act. *)
BootSpec == BootInit /\ [][BootNext]_bootVars /\ WF_bootVars(BootTick)

-----------------------------------------------------------------------------
(* The telemetry services are those of the boot loader exactly in the      *)
(* phases before LEOP, whatever mixture of phase commands, reboots and     *)
(* separations led there (_enter_bootloader_mode, _exit_bootloader_mode    *)
(* and configure_separation_state are separate pieces of code).            *)
ServicesFollowPhase == services = "beacon" <=> phase <= 3

(* Once the phase machine has run, a phase of flight means that the        *)
(* application runs: no reboot is missed by the engine.                    *)
FlightNeedsApplication == at = "obdh" /\ phase >= 4 => swImage = "app"

(* A countdown never runs under a running application, whose mode it would *)
(* reset to nominal when it ends.                                          *)
NoCountdownInApplication == bootPending => swImage = "boot"

(* The boots of the two units add up to the reboots, over switchovers and  *)
(* watchdog reboots and after the counters were cleared.                   *)
BootCountsAgree == bootCount[0] + bootCount[1] = rebootCount

(* An image whose CRC fails is started by no telecommand, watchdog or      *)
(* countdown; only the instructor's change of phase forces it.             *)
CorruptNeverStarts ==
  [][imageCorrupt /\ swImage = "boot" /\ swImage' = "app"
       => at = "instructor"]_bootVars

(* When the ground and the instructor fall silent the spacecraft settles:  *)
(* no countdown is left, and it beacons from the boot loader or flies the  *)
(* application (or waits before separation).                               *)
Settled ==
  /\ ~bootPending
  /\ \/ phase = 0
     \/ phase = 3 /\ swImage = "boot"
     \/ phase >= 4 /\ swImage = "app"
Settles == <>[][BootTick]_bootVars => <>[]Settled

(* What the code's comment and the manual promise of a reboot that the     *)
(* ground has not inhibited: the countdown it arms ends in the application *)
(* (or in a failed CRC).  The phase machine drops it instead.              *)
AutoBoots ==
  [][BootTick /\ bootPending /\ ~bootPending' => swImage' = "app" \/ imageCorrupt]_bootVars
=============================================================================
