---------------------------- MODULE TcVerification ----------------------------
(***************************************************************************)
(* A telecommand from the control system to its verdict: the uplink queue, *)
(* the acceptance gates of the engine, the dispatcher with the event rules *)
(* it runs inside other commands, the S1 reports with everything that can  *)
(* happen to them on the way down, and the verification log they update    *)
(* (engine.py, service_dispatch.py, and server.py of the control system).  *)
(*                                                                         *)
(* Telecommands are numbered in the order tc_manager builds them; the      *)
(* sequence count of number "id" is id % SeqCounts, and that is all a report  *)
(* says of its telecommand.  A telecommand is [svc, sub, arg]: arg is the  *)
(* function of an S8.1, the parameter of an S20, the SID of an S3, the     *)
(* memory region of an S6, and NoArg when the data field is empty.         *)
(***************************************************************************)
EXTENDS Integers, Sequences, FiniteSets

CONSTANTS
  Commands,    \* the telecommands the ground may build
  RuleFuncs,   \* functions of the S19 rules on COMMAND_REJECTED and 0x020F
  SeqCounts,   \* 2^14 sequence counts
  MaxBuilt,    \* bound on the telecommands of a behaviour
  TcCap,       \* tc_queue
  TmCap,       \* tm_queue
  StoreCap,    \* the on-board store that takes the S1 reports
  LogSize,     \* rows of the verification log
  Switched,    \* the equipment whose power and mode change in the instance
  MaxChanges   \* bound on the changes of the environment

NoArg == -1
MemLoadOk == 0   \* "arg" of an S6 request the memory map grants

ASSUME TcVerificationAssumption ==
  /\ Commands \subseteq [svc : Nat, sub : Nat, arg : Int]
  /\ RuleFuncs \subseteq Nat
  /\ Switched \subseteq {"aocs", "payload", "ttc"}
  /\ {SeqCounts, MaxBuilt, TcCap, TmCap, StoreCap, LogSize, MaxChanges} \subseteq Nat
  /\ MaxBuilt < SeqCounts

VARIABLES
  built,      \* the telecommands built so far, in order
  fate,       \* what has become of each of them
  rows,       \* the verification log, newest first
  tcq,        \* engine.tc_queue
  held,       \* telecommands of the on-board schedule
  tm,         \* S1 reports on their way to the control system
  store,      \* S1 reports in the on-board store
  link,       \* uplink_active, which is downlink_active
  boot,       \* spacecraft phase of the boot loader or before
  app,        \* the application image runs
  busFailed,  \* the active CAN bus has failed
  unit,       \* power and mode of the equipment
  pc,         \* where the engine is in _dispatch_tc
  tc,         \* the telecommand being dispatched
  err,        \* the dispatcher's _err_reason is set
  startFail,  \* the dispatcher's _exec_fail is set
  own,        \* what the handler of tc itself decided
  counts,     \* the OBDH's telecommand counters
  changes     \* changes of the environment so far

ground == <<built, rows, tcq>>
down == <<tm, store>>
craft == <<link, boot, app, busFailed, unit>>
frame == <<err, startFail, own>>
tcVars == <<ground, fate, held, down, craft, pc, tc, frame, counts, changes>>

Ids == 1 .. MaxBuilt
Units == {"aocs", "payload", "ttc"}
Final == {"linkRefused", "rejected", "completed", "failed"}
Fates == {"lost", "queued", "held", "running"} \cup Final
Reports == [rep : {1, 2, 4, 7, 8}, id : Ids]
RowStates == {"SENT", "SCHEDULED", "ACCEPTED", "REJECTED", "FAILED", "COMPLETED"}
SeqCount(id) == id % SeqCounts

TcTypeOK ==
  /\ built \in Seq(Commands) /\ Len(built) <= MaxBuilt
  /\ fate \in Seq(Fates) /\ Len(fate) = Len(built)
  /\ rows \in Seq([id : Ids, state : RowStates]) /\ Len(rows) <= LogSize
  /\ tcq \in Seq(Ids) /\ Len(tcq) <= TcCap
  /\ held \subseteq Ids
  /\ tm \in Seq(Reports) /\ Len(tm) <= TmCap
  /\ store \in Seq(Reports) /\ Len(store) <= StoreCap
  /\ {link, boot, app, busFailed, err, startFail} \subseteq BOOLEAN
  /\ unit \in [Units -> {"dark", "off", "on"}] /\ unit["ttc"] # "off"
  /\ pc \in {"idle", "run", "rules", "verdict", "notify"}
  /\ tc \in Ids \cup {0}
  /\ own \in {"none", "ok", "execution", "exec_start"}
  /\ counts \in [{"rx", "acc", "rej", "exe"} -> Nat]
  /\ changes \in 0 .. MaxChanges

TcInit ==
  /\ built = << >> /\ fate = << >> /\ rows = << >> /\ tcq = << >> /\ held = {}
  /\ tm = << >> /\ store = << >>
  /\ link = TRUE /\ busFailed = FALSE
  /\ boot \in BOOLEAN /\ app = ~boot
  /\ unit = [u \in Units |-> IF boot THEN "dark" ELSE "on"]
  /\ pc = "idle" /\ tc = 0
  /\ err = FALSE /\ startFail = FALSE /\ own = "none"
  /\ counts = [k \in {"rx", "acc", "rej", "exe"} |-> 0]
  /\ changes = 0

-----------------------------------------------------------------------------
(* The gates, in the order of _dispatch_tc.                                *)

IsFunction(c) == c.svc = 8 /\ c.sub = 1
Function(c, fs) == IsFunction(c) /\ c.arg \in fs
ObdhFuncs == (50 .. 62) \cup {80}

BootAllowed(c) ==
  \/ <<c.svc, c.sub>> \in {<<17, 1>>, <<9, 1>>, <<20, 1>>, <<20, 3>>}
  \/ c.svc = 3 /\ c.sub \in {1, 3, 5, 6, 9, 27}
  \/ Function(c, {19, 20, 52, 53, 54, 55, 56, 57, 61, 66, 67, 69})

BusReaches(c) == IsFunction(c) /\ c.arg # NoArg /\ busFailed => c.arg \in ObdhFuncs

ValidSubtypes(svc) ==
  CASE svc = 2 -> {1, 5, 6}               [] svc = 3 -> {1, 2, 3, 4, 5, 6, 27, 31}
    [] svc = 5 -> {5, 6, 7, 8}            [] svc = 6 -> {2, 5, 9}
    [] svc = 8 -> {1}                     [] svc = 9 -> {1, 2}
    [] svc = 11 -> {4, 7, 9, 11, 13, 17}  [] svc = 12 -> {1, 2, 6, 7}
    [] svc = 15 -> {1, 2, 9, 11, 13}      [] svc = 17 -> {1}
    [] svc = 18 -> {1, 2, 3, 4, 6}        [] svc = 19 -> {1, 2, 4, 5, 8}
    [] svc = 20 -> {1, 3}                 [] OTHER -> {}

Accepted(c) == c.sub \in ValidSubtypes(c.svc) /\ ~(IsFunction(c) /\ c.arg = NoArg)

EquipmentManagement == {0, 2, 3, 4, 5, 6, 7, 9, 26}

(* A function needs the line of its owner and, unless it manages the       *)
(* equipment, a mode other than OFF.                                       *)
FunctionPowered(f) ==
  /\ f \in 0 .. 15 \cup 26 .. 39 =>
       LET u == IF f < 16 THEN "aocs" ELSE "payload" IN
         \/ unit[u] = "on"
         \/ unit[u] = "off" /\ f \in EquipmentManagement
  /\ f \in 63 .. 78 => unit["ttc"] = "on"

ParamPowered(p) ==
  /\ p \in 512 .. 767 => unit["aocs"] = "on"
  /\ p \in 768 .. 831 => app
  /\ p \in 1280 .. 1535 => unit["ttc"] = "on"
  /\ p \in 1536 .. 1791 => unit["payload"] = "on"

Powered(c) ==
  /\ IsFunction(c) => FunctionPowered(c.arg)
  /\ c.svc = 20 => ParamPowered(c.arg)

Passes(c) ==
  /\ boot => BootAllowed(c)
  /\ BusReaches(c)
  /\ Accepted(c)
  /\ boot \/ Powered(c)

-----------------------------------------------------------------------------
(* What the handlers answer.                                               *)

MemoryOutcomes(c) == IF c.arg = MemLoadOk THEN {"ok"} ELSE {"exec_start"}
HousekeepingOutcomes(c) ==
  IF c.sub \in {4, 6} /\ c.arg = 11 /\ ~app THEN {"exec_start"} ELSE {"ok"}
FunctionOutcomes(f) ==   \* every model may refuse; an unknown function does nothing
  {"ok"} \cup (IF f \in (0 .. 95) \cup (100 .. 118) THEN {"execution"} ELSE {})
         \cup (IF f \in 86 .. 88 THEN {"exec_start"} ELSE {})
Outcomes(c) ==
  CASE c.svc = 3 -> HousekeepingOutcomes(c)
    [] c.svc = 6 -> MemoryOutcomes(c)
    [] c.svc = 8 -> FunctionOutcomes(c.arg)
    [] c.svc \in {9, 18} -> {"ok", "execution"}
    [] c.svc = 19 -> {"ok", "exec_start"}
    [] OTHER -> {"ok"}

SelectBus == 54
GpsTimeSync == 80
Insert(c) == c.svc = 11 /\ c.sub = 4

(* The active bus after a function: a selection succeeds only on a bus     *)
(* that works.                                                             *)
BusAfter(c, o) == busFailed /\ ~(Function(c, {SelectBus}) /\ o = "ok")

-----------------------------------------------------------------------------
(* Reports: down the link when there is one and room in the queue, and     *)
(* into the store when the application runs and the store is not full.     *)

Sent(rs) == IF link /\ Len(tm) + Len(rs) <= TmCap THEN tm \o rs ELSE tm
Stored(rs) == IF app /\ Len(store) + Len(rs) <= StoreCap THEN store \o rs ELSE store
Report(rep, id) ==
  /\ tm' = Sent(<<[rep |-> rep, id |-> id]>>)
  /\ store' = Stored(<<[rep |-> rep, id |-> id]>>)

Count(ks) == counts' = [k \in DOMAIN counts |-> IF k \in ks THEN counts[k] + 1
                                                            ELSE counts[k]]
CountUnrejected(ks) == Count(ks \ {"rej"})   \* mutant: a gate forgets to count
CountGate(ks) == Count(ks)

(* _reject_tc: the report, the counter, and the event whose rules run next. *)
Reject(id) ==
  /\ Report(2, id) /\ CountGate({"rx", "rej"})
  /\ fate' = [fate EXCEPT ![id] = "rejected"]
  /\ pc' = "notify" /\ tc' = 0
  /\ UNCHANGED <<frame, unit>>

(* Acceptance: S1.1, the transmitter held on, and a dispatch with empty     *)
(* accumulators.  (S1.3 changes no row of the log and is left out.)         *)
Accept(id) ==
  /\ Report(1, id) /\ CountGate({"rx", "acc"})
  /\ fate' = [fate EXCEPT ![id] = "running"]
  /\ unit' = [unit EXCEPT !["ttc"] = "on"]
  /\ err' = FALSE /\ startFail' = FALSE /\ own' = "none"
  /\ pc' = "run" /\ tc' = id

Gate(id) ==
  /\ IF Passes(built[id]) THEN Accept(id) ELSE Reject(id)
  /\ UNCHANGED <<link, boot, app, busFailed>>

KeepsQueue == FALSE   \* mutant: the queue waits for an uplink
RefusesUplink == ~link

(* _drain_tc_queue: without an uplink the command is refused outside the    *)
(* on-board software: no counter, no event.                                 *)
Drain ==
  /\ pc = "idle" /\ tcq # << >>
  /\ tcq' = Tail(tcq)
  /\ \/ link /\ Gate(Head(tcq))
     \/ /\ RefusesUplink /\ Report(2, Head(tcq))
        /\ fate' = [fate EXCEPT ![Head(tcq)] = "linkRefused"]
        /\ UNCHANGED <<craft, pc, tc, frame, counts>>
  /\ UNCHANGED <<built, rows, held, changes>>

(* A telecommand of the schedule falls due: no uplink is needed.            *)
Release(id) ==
  /\ pc = "idle" /\ id \in held
  /\ held' = held \ {id}
  /\ Gate(id)
  /\ UNCHANGED <<ground, changes>>

(* The handler; a clock jump of GPS time sync raises an event inside it.    *)
Run ==
  /\ pc = "run"
  /\ LET c == built[tc] IN
     \E o \in Outcomes(c) :
       /\ own' = o /\ err' = (o = "execution") /\ startFail' = (o = "exec_start")
       /\ busFailed' = BusAfter(c, o)
       /\ \/ pc' = "verdict"
          \/ Function(c, {GpsTimeSync}) /\ o = "ok" /\ pc' = "rules"
       /\ IF Insert(c) /\ o = "ok" THEN /\ held' = held \cup {tc - 1}
                                        /\ fate' = [fate EXCEPT ![tc - 1] = "held"]
                                   ELSE UNCHANGED <<held, fate>>
  /\ UNCHANGED <<ground, down, link, boot, app, unit, tc, counts, changes>>

AfterRuleUnrestored(refused) == err' = refused /\ UNCHANGED startFail   \* mutant
(* _s19_dispatch saves the accumulators and restores them.                  *)
AfterRule(refused) == UNCHANGED <<err, startFail>>

(* The rules on an event, in the middle of a dispatch or after a refusal.   *)
RunRules ==
  /\ pc \in {"rules", "notify"}
  /\ pc' = IF pc = "rules" THEN "verdict" ELSE "idle"
  /\ \/ \E f \in RuleFuncs : \E o \in FunctionOutcomes(f) :
          /\ AfterRule(o = "execution")
          /\ busFailed' = BusAfter([svc |-> 8, sub |-> 1, arg |-> f], o)
     \/ UNCHANGED <<err, startFail, busFailed>>   \* no rule is enabled
  /\ UNCHANGED <<ground, fate, held, down, link, boot, app, unit, tc, own, counts,
                 changes>>

Verdict == IF err THEN "execution" ELSE IF startFail THEN "exec_start" ELSE "ok"
FinalReport == CASE Verdict = "execution" -> 8 [] Verdict = "exec_start" -> 4
                 [] Verdict = "ok" -> 7

(* The accumulators of the caller are back; the report is S1.8, the         *)
(* handler's own S1.4, or S1.7, and a failure raises an event too.          *)
Conclude ==
  /\ pc = "verdict"
  /\ Report(FinalReport, tc) /\ Count({"exe"})
  /\ fate' = [fate EXCEPT ![tc] = IF Verdict = "ok" THEN "completed" ELSE "failed"]
  /\ pc' = IF Verdict = "ok" THEN "idle" ELSE "notify"
  /\ tc' = 0 /\ err' = FALSE /\ startFail' = FALSE /\ own' = "none"
  /\ UNCHANGED <<ground, held, craft, changes>>

-----------------------------------------------------------------------------
(* A dump replays the stored reports in order, none of them twice (TmDump  *)
(* has the details of dumps).                                               *)
Replay ==
  /\ pc = "idle" /\ store # << >>
  /\ tm' = Sent(<<Head(store)>>) /\ store' = Tail(store)
  /\ UNCHANGED <<ground, fate, held, craft, pc, tc, frame, counts, changes>>

-----------------------------------------------------------------------------
(* The control system.                                                      *)

Row(id, state) == [id |-> id, state |-> state]
LogAll(rs) == rs \o rows   \* mutant: the log keeps every row
Log(rs) == SubSeq(rs \o rows, 1, IF Len(rs \o rows) < LogSize THEN Len(rs \o rows)
                                                              ELSE LogSize)

(* The packet goes to the spacecraft unless the connection is down or the   *)
(* queue is full; the row says SENT all the same.  (A packet that arrives   *)
(* during a dispatch waits for its end: it is sent between dispatches.)     *)
Uplink(id) == \/ Len(tcq) < TcCap /\ tcq' = Append(tcq, id)
              \/ UNCHANGED tcq
FateOf(id) == IF tcq' = tcq THEN "lost" ELSE "queued"

Send(c) ==
  /\ pc = "idle" /\ Len(built) < MaxBuilt /\ ~Insert(c)
  /\ LET id == Len(built) + 1 IN
       /\ built' = Append(built, c)
       /\ rows' = Log(<<Row(id, "SENT")>>)
       /\ Uplink(id)
       /\ fate' = Append(fate, FateOf(id))
  /\ UNCHANGED <<held, down, craft, pc, tc, frame, counts, changes>>

(* An S11.4 embeds a complete telecommand, which is built first.  The       *)
(* command page logs both; a schedule upload only the S11.4.                *)
SendScheduled(c, logged) ==
  /\ pc = "idle" /\ Len(built) + 1 < MaxBuilt /\ ~Insert(c)
  /\ \E outer \in {k \in Commands : Insert(k)} :
     LET id == Len(built) + 2 IN
       /\ built' = built \o <<c, outer>>
       /\ rows' = Log(<<Row(id, "SENT")>> \o
                      IF logged THEN <<Row(id - 1, "SCHEDULED")>> ELSE << >>)
       /\ Uplink(id)
       /\ fate' = fate \o <<"lost", FateOf(id)>>
  /\ UNCHANGED <<held, down, craft, pc, tc, frame, counts, changes>>

NewState == [r \in {1, 2, 4, 7, 8} |->
               CASE r = 1 -> "ACCEPTED" [] r = 2 -> "REJECTED" [] r = 7 -> "COMPLETED"
                 [] r \in {4, 8} -> "FAILED"]

MatchingNewest(r) == DOMAIN rows \cap {1}   \* mutant: the newest row, whatever its count
Matching(r) == {n \in DOMAIN rows : SeqCount(rows[n].id) = SeqCount(r.id)}

(* A report sets the state of the newest row with its sequence count.       *)
Receive ==
  /\ tm # << >>
  /\ tm' = Tail(tm)
  /\ LET r == Head(tm) m == Matching(r) IN
       rows' = IF m = {} THEN rows
               ELSE LET n == CHOOSE n \in m : \A k \in m : n <= k
                    IN [rows EXCEPT ![n].state = NewState[r.rep]]
  /\ UNCHANGED <<built, tcq, fate, held, store, craft, pc, tc, frame, counts,
                 changes>>

-----------------------------------------------------------------------------
(* The environment: passes, boots, bus failures, power and mode of units.   *)
Environment ==
  /\ pc = "idle" /\ changes < MaxChanges
  /\ changes' = changes + 1
  /\ \/ link' = ~link /\ UNCHANGED <<boot, app, busFailed, unit>>
     \/ app' = ~app /\ UNCHANGED <<link, boot, busFailed, unit>>
     \/ boot # ~app /\ boot' = ~app /\ UNCHANGED <<link, app, busFailed, unit>>
     \/ ~busFailed /\ busFailed' = TRUE /\ UNCHANGED <<link, boot, app, unit>>
     \/ /\ \E u \in Switched, s \in {"dark", "off", "on"} :
             (u = "ttc" => s # "off") /\ unit' = [unit EXCEPT ![u] = s]
        /\ UNCHANGED <<link, boot, app, busFailed>>
  /\ UNCHANGED <<ground, fate, held, down, pc, tc, frame, counts>>

Engine == Drain \/ Run \/ RunRules \/ Conclude
Ground == \/ \E c \in Commands : Send(c) \/ \E l \in BOOLEAN : SendScheduled(c, l)
          \/ Receive
TcNext == \/ Engine \/ \E id \in Ids : Release(id)
        \/ Replay \/ Ground \/ Environment

Fairness == WF_tcVars(Engine)
TcSpec == TcInit /\ [][TcNext]_tcVars /\ Fairness

-----------------------------------------------------------------------------
(* The verdict reported for a telecommand is the one its own handler gave,  *)
(* also when an event of the handler ran a rule whose action was refused.   *)
OwnVerdict == pc = "verdict" => Verdict = own

(* The OBDH's counters agree with what became of the telecommands: every    *)
(* one received is accepted or rejected, every one accepted is executed,    *)
(* and a refusal for want of an uplink counts nowhere.                      *)
Having(s) == Cardinality({id \in DOMAIN fate : fate[id] \in s})
CountersAgree ==
  /\ counts["rej"] = Having({"rejected"})
  /\ counts["exe"] = Having({"completed", "failed"})
  /\ counts["acc"] = counts["exe"] + Having({"running"})
  /\ counts["rx"] = counts["acc"] + counts["rej"]
  /\ (Having({"running"}) = 1) = (pc \in {"run", "rules", "verdict"})

(* The verification log never claims what did not happen on board, however  *)
(* late, repeated by a dump, or partly lost the reports are.                *)
Claims(state) ==
  CASE state = "COMPLETED" -> {"completed"}
    [] state = "FAILED" -> {"failed"}
    [] state = "REJECTED" -> {"rejected", "linkRefused"}
    [] state = "ACCEPTED" -> {"running", "completed", "failed"}
    [] OTHER -> Fates
RowsTruthful == \A n \in DOMAIN rows : fate[rows[n].id] \in Claims(rows[n].state)

(* Every telecommand that reaches the queue is judged in the end.           *)
EveryTcJudged ==
  \A id \in Ids :
    (id \in DOMAIN fate /\ fate[id] \in {"queued", "running"}) ~>
    (id \in DOMAIN fate /\ fate[id] \in Final)

(* server.py:1330 "the persistent `tc_log` row has to follow the same SENT  *)
(* -> ACCEPTED -> COMPLETED / REJECTED / FAILED transitions": a row with a  *)
(* final state keeps it.                                                    *)
FinalRows == {n \in DOMAIN rows : rows[n].state \in {"COMPLETED", "REJECTED", "FAILED"}}
FinalStaysFinal ==
  [][\A n \in FinalRows, k \in DOMAIN rows' :
       rows'[k].id = rows[n].id => rows'[k].state = rows[n].state]_rows

(* engine.py:2169 "the S1.2 carries the reason (defect #87)": a telecommand *)
(* refused for want of an uplink has its S1.2 sent to the ground.           *)
RefusalIsSent ==
  [][\A id \in DOMAIN fate :
       fate'[id] = "linkRefused" /\ fate[id] # "linkRefused" /\ Len(tm) < TmCap
         => Len(tm') = Len(tm) + 1]_fate
=============================================================================
