-------------------------------- MODULE Payload --------------------------------
(***************************************************************************)
(* The imager (models/payload_basic.py) and the telecommands that reach it *)
(* (_route_payload_cmd in service_dispatch.py): its mode and power gates,  *)
(* the readiness of the detector, the image catalogue and its memory, the  *)
(* monitor of the strip being scanned, calibration, transfer of an image,  *)
(* bad memory segments and the restart from a breakpoint.                  *)
(*                                                                         *)
(* A tick is one unit of every time, sizes are whole units of memory.  The *)
(* temperature and the pointing are the environment's: every tick draws    *)
(* whether the detector is cold and one of Pointing.  Shutter, filter      *)
(* wheel, compression and the radiometry of an image are left out; what    *)
(* the failures of the detector make of an image comes with its frame.     *)
(***************************************************************************)
EXTENDS Integers, SequencesExt

CONSTANTS
  Frames,       \* what a capture may bring: [size, lines, status], lines in ticks
  Requested,    \* scene ids the ground may assign
  First,        \* _next_scene_id of a new process (100)
  Segments, SegmentSize,
  StartUsed,    \* mem_used_mb of a new process: nothing in the catalogue
  Stream,       \* what a tick of imaging writes
  CatalogueMax, \* 1000
  Settle,       \* fpa_ready_hysteresis_s
  HalfCal,      \* half of calibration_duration_s
  Rate,         \* what a tick of a transfer moves
  MaxCommands, MaxEvents  \* bounds: captures, ... and changes, restarts

Off == 0
Standby == 1
Imaging == 2
AutoScene == 0      \* the scene id of a capture that leaves it to the imager
Devices == {"fpa", "lamp"}
Pointing == {"fine", "shaky", "lost"}  \* shaky: only the rate is too high
Kinds == {"dark", "flat", "both"}

ASSUME PayloadAssumption ==
  /\ \A f \in Frames : /\ f.size \in Nat \ {0} /\ f.lines \in Nat \ {0}
                      /\ f.status \in {"OK", "PARTIAL", "CORRUPT"}
  /\ Requested \subseteq Nat \ {AutoScene}
  /\ {First, StartUsed, Stream} \subseteq Nat
  /\ {Segments, SegmentSize, CatalogueMax, Settle, HalfCal, Rate} \subseteq Nat \ {0}
  /\ StartUsed <= Segments * SegmentSize

VARIABLES
  mode, line, devices,  \* the mode, the EPS line, the devices switched on
  ready, settled,       \* fpa_ready, fpa_ready_timer
  fine,                 \* whether the pointing the last tick sampled was fine
  images,               \* image_catalog
  image_count,
  mem,                  \* mem_used_mb
  bad,                  \* bad_segments
  next_scene,           \* _next_scene_id: of the model, not of its state
  strip,                \* the strip-acquisition monitor
  cal, valid,           \* calibration_*, calibration_valid_mask
  transfer,             \* transfer_active and what is left of it
  shrunk, evicted, restarted,  \* history: what has happened so far
  commands, events      \* bounds

power == <<mode, line, devices>>
detector == <<ready, settled, fine>>
store == <<images, image_count, mem, bad, strip>>
calibration == <<cal, valid>>
history == <<shrunk, evicted, restarted>>
bounds == <<commands, events>>
vars == <<power, detector, store, next_scene, calibration, transfer, history, bounds>>

AtMost(a, b) == IF a < b THEN a ELSE b
AtLeast(a, b) == IF a < b THEN b ELSE a
Total(b) == (Segments - Cardinality(b)) * SegmentSize
SizeOf(imgs) ==
  LET sum[i \in 0 .. Len(imgs)] == IF i = 0 THEN 0 ELSE sum[i - 1] + imgs[i].size
  IN sum[Len(imgs)]
SceneIds == {images[i].scene : i \in DOMAIN images}
NoCal == [active |-> FALSE, phase |-> "idle", kind |-> "both", timer |-> 0]

(* left, spoiled and cut are history: the time the strip of the image has   *)
(* still to run, and whether the pointing was lost in it or another capture *)
(* began.                                                                   *)
TypeOK ==
  /\ mode \in Off .. Imaging /\ devices \subseteq Devices
  /\ {line, ready, fine, valid, transfer.active} \subseteq BOOLEAN
  /\ settled \in 0 .. Settle
  /\ Len(images) <= CatalogueMax
  /\ \A i \in DOMAIN images :
       /\ images[i].status \in {"OK", "PARTIAL", "CORRUPT"}
       /\ \E f \in Frames : images[i].size = f.size /\ images[i].left \in 0 .. f.lines
  /\ image_count \in Nat /\ mem \in Nat
  /\ bad \subseteq 0 .. Segments - 1
  /\ next_scene >= First
  /\ cal.phase \in {"idle", "dark", "flat", "complete"}
  /\ cal.active <=> cal.phase \in {"dark", "flat"}
  /\ cal.kind \in Kinds /\ cal.timer \in 0 .. HalfCal
  /\ transfer.left \in Nat /\ (transfer.active => transfer.left > 0)

-----------------------------------------------------------------------------
(* The tick: what it makes of the state, part by part, in its order.        *)

ModeFed == IF line THEN mode ELSE Off
Lost == ~line /\ mode # Off  \* the line went while the imager was on

Ended(c, phase) == [c EXCEPT !.active = FALSE, !.phase = phase]
Aborted(c) == Ended(c, "idle")

(* The dark phase of both ends once the timer, which starts at half of the *)
(* duration, is at most half of it.                                        *)
DarkStep(c) ==
  IF c.kind = "dark"
  THEN IF c.timer <= 0 THEN Ended(c, "complete") ELSE c
  ELSE IF c.timer <= HalfCal THEN [c EXCEPT !.phase = "flat", !.timer = HalfCal] ELSE c

FlatOverrun(c) ==   \* mutant: one tick more
  IF c.timer < 0 THEN Ended(c, "complete") ELSE c

FlatStep(c) ==
  IF c.timer <= 0 THEN Ended(c, "complete") ELSE c

Counted(c) == [c EXCEPT !.timer = @ - 1]

CalStep ==
  IF Lost \/ (cal.active /\ ModeFed = Off) THEN Aborted(cal)
  ELSE IF ~cal.active THEN cal
  ELSE IF cal.phase = "dark" THEN DarkStep(Counted(cal)) ELSE FlatStep(Counted(cal))

CalKept(c) == IF "lamp" \notin devices /\ c.active THEN Aborted(c) ELSE c

SettledAt(cold) ==
  IF ~cold THEN 0 ELSE AtMost((IF Lost THEN 0 ELSE settled) + 1, Settle)
ReadyAt(cold) == cold /\ ((ready /\ ~Lost) \/ SettledAt(cold) >= Settle)

Streamed(rdy) ==
  IF ModeFed = Imaging /\ rdy THEN AtMost(Total(bad), mem + Stream) ELSE mem

(* The monitor marks the newest image of its scene, if the pointing is lost *)
(* while the strip lasts.                                                   *)
MarkedLate(p) ==   \* mutant: the last stretch of a strip is not judged
  IF strip.left > 1 /\ p = "lost"
  THEN {i \in DOMAIN images : images[i].scene = strip.scene} ELSE {}

Marked(p) ==
  IF strip.left > 0 /\ p = "lost"
  THEN {i \in DOMAIN images :
          /\ images[i].scene = strip.scene
          /\ \A k \in DOMAIN images : images[k].scene = strip.scene => k <= i}
  ELSE {}

Judged(i, p) ==
  [images[i] EXCEPT !.status = IF i \in Marked(p) /\ @ = "OK" THEN "PARTIAL" ELSE @,
                    !.left = AtLeast(@ - 1, 0),
                    !.spoiled = @ \/ (images[i].left > 0 /\ p = "lost")]
Scanned(p) == [i \in DOMAIN images |-> Judged(i, p)]

Transferred ==
  IF transfer.active
  THEN [active |-> transfer.left > Rate, left |-> AtLeast(transfer.left - Rate, 0)]
  ELSE transfer

Tick ==
  \E cold \in BOOLEAN, p \in Pointing :
    LET fpa == "fpa" \in devices IN
    /\ mode' = IF fpa THEN ModeFed ELSE Off
    /\ ready' = (fpa /\ ReadyAt(cold))
    /\ settled' = IF fpa THEN SettledAt(cold) ELSE 0
    /\ fine' = (p = "fine")
    /\ mem' = Streamed(ReadyAt(cold))
    /\ images' = Scanned(p)
    /\ strip' = [strip EXCEPT !.left = AtLeast(@ - 1, 0)]
    /\ cal' = CalKept(CalStep)
    /\ valid' = (valid \/ (cal.active /\ CalStep.phase = "complete" /\ cal.kind = "both"))
    /\ transfer' = Transferred
    /\ UNCHANGED <<line, devices, image_count, bad, next_scene, history, bounds>>

-----------------------------------------------------------------------------
(* Telecommands.  The engine refuses most of them while the line or the    *)
(* imager is off (check_power_state); a mode comes also by the route of    *)
(* the EPS, which it never refuses, and a transfer is not gated.           *)

Accepted == line /\ mode # Off
Command == commands < MaxCommands /\ commands' = commands + 1
OnlyCommand == UNCHANGED <<history, events>>

SetMode(m) ==
  /\ m # mode
  /\ mode' = m
  /\ UNCHANGED <<line, devices, detector, store, next_scene, calibration, transfer,
                 history, bounds>>

NextIgnoring(req) ==   \* mutant: the counter forgets the ids of the ground
  IF req = AutoScene THEN next_scene + 1 ELSE next_scene

NextScene(req) ==
  IF req = AutoScene THEN next_scene + 1 ELSE AtLeast(next_scene, req)
SceneOf(req) == IF req = AutoScene THEN next_scene + 1 ELSE req

Room(f) == bad # 0 .. Segments - 1 /\ Total(bad) - mem >= f.size

CutShort(img) == [img EXCEPT !.cut = @ \/ img.left > 0]
Catalogued(img) ==
  LET all == Append([i \in DOMAIN images |-> CutShort(images[i])], img)
  IN IF Len(all) > CatalogueMax THEN Tail(all) ELSE all

Capture(f, req) ==
  /\ Command
  /\ Accepted /\ mode = Imaging /\ ready /\ fine
  /\ req = AutoScene \/ req \notin SceneIds
  /\ Room(f)
  /\ next_scene' = NextScene(req)
  /\ images' = Catalogued([scene |-> SceneOf(req), size |-> f.size, status |-> f.status,
                           left |-> f.lines, spoiled |-> FALSE, cut |-> FALSE])
  /\ evicted' = (evicted \/ Len(images) = CatalogueMax)
  /\ strip' = [left |-> f.lines, scene |-> SceneOf(req)]
  /\ image_count' = image_count + 1
  /\ mem' = mem + f.size
  /\ UNCHANGED <<power, detector, bad, calibration, transfer,
                 shrunk, restarted, events>>

FirstOf(scene) ==
  CHOOSE i \in DOMAIN images :
    images[i].scene = scene /\ \A k \in DOMAIN images : images[k].scene = scene => i <= k

FreedFrames(scene) == AtLeast(mem - images[FirstOf(scene)].size - 1, 0)  \* mutant
Freed(scene) == AtLeast(mem - images[FirstOf(scene)].size, 0)

Delete(scene) ==
  /\ Command /\ Accepted
  /\ scene \in SceneIds
  /\ mem' = Freed(scene)
  /\ image_count' = AtLeast(image_count - 1, 0)
  /\ images' = RemoveAt(images, FirstOf(scene))
  /\ UNCHANGED <<power, detector, bad, strip, next_scene, calibration, transfer>>
  /\ OnlyCommand

StartCalibration(kind) ==
  /\ Command /\ Accepted
  /\ ~cal.active /\ mode = Imaging
  /\ cal' = [active |-> TRUE, phase |-> IF kind = "flat" THEN "flat" ELSE "dark",
             kind |-> kind, timer |-> HalfCal]
  /\ UNCHANGED <<power, detector, store, next_scene, valid, transfer>>
  /\ OnlyCommand

StopCalibration ==
  /\ Command /\ Accepted
  /\ cal.active
  /\ cal' = [Aborted(cal) EXCEPT !.timer = 0]
  /\ UNCHANGED <<power, detector, store, next_scene, valid, transfer>>
  /\ OnlyCommand

InitiateTransfer(scene) ==
  /\ Command
  /\ scene \in SceneIds
  /\ transfer' = [active |-> TRUE, left |-> images[FirstOf(scene)].size]
  /\ UNCHANGED <<power, detector, store, next_scene, calibration>>
  /\ OnlyCommand

-----------------------------------------------------------------------------
(* The EPS line, the devices and the failures.  The segment of a failure   *)
(* and that of PAYLOAD_MARK_BAD_SEGMENT go the same way.                   *)

Change == events < MaxEvents /\ events' = events + 1
OnlyChange ==
  UNCHANGED <<detector, images, image_count, mem, strip, next_scene, calibration, transfer,
              evicted, restarted, commands>>

SwitchLine ==
  /\ Change /\ line' = ~line
  /\ UNCHANGED <<mode, devices, bad, shrunk>> /\ OnlyChange

(* Once the state has come from a file no device is found by its number.   *)
SwitchDevice(d) ==
  /\ Change /\ ~restarted
  /\ devices' = IF d \in devices THEN devices \ {d} ELSE devices \cup {d}
  /\ UNCHANGED <<mode, line, bad, shrunk>> /\ OnlyChange

BadSegment(s) ==
  /\ Change /\ s \notin bad
  /\ bad' = bad \cup {s} /\ shrunk' = TRUE
  /\ UNCHANGED power /\ OnlyChange

ClearSegments(b) ==
  /\ Change /\ bad # {}
  /\ bad' = b
  /\ UNCHANGED <<power, shrunk>> /\ OnlyChange

-----------------------------------------------------------------------------
(* The simulator is stopped and started anew from a breakpoint of this      *)
(* moment: it holds the state of the model, but not the scene counter, and  *)
(* the numbers of the devices come back as text, under which nobody looks:  *)
(* all are on for good.  Loading an older one only takes the state back to  *)
(* where it has been.                                                       *)

Restart ==
  /\ Change
  /\ next_scene' = First /\ restarted' = TRUE
  /\ devices' = Devices
  /\ UNCHANGED <<mode, line, detector, store, calibration, transfer, shrunk, evicted, commands>>

-----------------------------------------------------------------------------
Init ==
  /\ mode = Off /\ line \in BOOLEAN /\ devices = Devices
  /\ ready = FALSE /\ settled = 0 /\ fine = FALSE
  /\ images = << >> /\ image_count = 0 /\ mem = StartUsed /\ bad = {}
  /\ next_scene = First
  /\ strip = [left |-> 0, scene |-> 0]
  /\ cal = NoCal /\ valid = FALSE /\ transfer = [active |-> FALSE, left |-> 0]
  /\ shrunk = FALSE /\ evicted = FALSE /\ restarted = FALSE
  /\ commands = 0 /\ events = 0

Next ==
  \/ Tick
  \/ \E m \in Off .. Imaging : SetMode(m)
  \/ \E f \in Frames, req \in Requested \cup {AutoScene} : Capture(f, req)
  \/ \E scene \in SceneIds : Delete(scene) \/ InitiateTransfer(scene)
  \/ \E kind \in Kinds : StartCalibration(kind)
  \/ StopCalibration
  \/ SwitchLine
  \/ \E d \in Devices : SwitchDevice(d)
  \/ \E s \in 0 .. Segments - 1 : BadSegment(s) \/ ClearSegments(bad \ {s})
  \/ ClearSegments({})
  \/ Restart

Spec == Init /\ [][Next]_vars

-----------------------------------------------------------------------------
(* Properties *)

(* "so a later auto capture cannot collide": a scene id names one image.    *)
ScenesUnique ==
  \A i, k \in DOMAIN images : images[i].scene = images[k].scene => i = k

(* ... which holds until the simulator is restarted from a breakpoint       *)
(* (capture, set_state), in whatever order ids are chosen by the ground and *)
(* by the imager, deleted and used again.                                   *)
NoCollision == ~restarted => ScenesUnique

(* The memory in use covers the images and fits the store, and the number  *)
(* of images is that of the catalogue, until a segment goes bad and until  *)
(* the catalogue is full (_available_storage_mb, capture, delete_image).   *)
StoreAgrees ==
  /\ ~shrunk => StartUsed + SizeOf(images) <= mem /\ mem <= Total({})
  /\ ~evicted => image_count = Len(images)

(* "losing FINE mid-strip marks it PARTIAL": an image in whose strip the    *)
(* pointing was lost is not reported as good.                               *)
SpoiledIsMarked ==
  \A i \in DOMAIN images : images[i].spoiled => images[i].status # "OK"

(* ... which the one monitor does for every image whose strip no other      *)
(* capture cut short, in whatever order images are deleted, evicted and     *)
(* their ids used again, also when a restart made two alike (tick, capture).*)
SpoiledAloneIsMarked ==
  \A i \in DOMAIN images :
    images[i].spoiled /\ ~images[i].cut => images[i].status # "OK"

(* "complete mutable state round-trips as a JSON-safe dict" (state.py:33):  *)
(* a restart leaves the devices as they were.                               *)
DevicesRoundTrip == [][~restarted /\ restarted' => devices' = devices]_vars

(* "Half duration per phase": the dark phase ends when its time is over.   *)
DarkLasts == [][cal.phase = "dark" /\ cal'.phase = "flat" => cal.timer <= 1]_vars
================================================================================
