------------------------------ MODULE AlarmJournal ------------------------------
(***************************************************************************)
(* The alarms of the control system: the ground limit check of             *)
(* tm_processor.py, and what server.py files of it and of the on-board     *)
(* reports in three places: the journal, the FDIR panel and the archive.   *)
(*                                                                         *)
(* One task receives telemetry.  It files the alarms of a packet one after *)
(* the other and waits for the consoles after each, so the acknowledgement *)
(* of an operator can come in between.  Only the archive outlives a        *)
(* restart of the control system.                                          *)
(***************************************************************************)
EXTENDS Integers, Selections

CONSTANTS
  Params,      \* parameters with a ground limit
  Order,       \* their order in a housekeeping packet
  Bands,       \* the limit states other than nominal
  Reported,    \* what on-board reports raise an alarm for
  Severe,      \* the bands and the reports that make an alarm of severity 4
  JournalMax,  \* capacity of the journal (1000)
  PanelMax,    \* capacity of the FDIR panel (100)
  MaxAlarms    \* bound on the alarms archived

Nominal == "nominal"
Statuses == Bands \cup {Nominal}
Limit == "LIMIT"
OnBoard == "ONBOARD"  \* S5 and S12
NoRow == 0

ASSUME AlarmAssumption ==
  /\ Order \in Seq(Params) /\ ToSet(Order) = Params /\ IsInjective(Order)
  /\ Nominal \notin Bands /\ Params \cap Reported = {}
  /\ Severe \subseteq Bands \cup Reported
  /\ {JournalMax, PanelMax, MaxAlarms} \subseteq Nat \ {0}

VARIABLES
  limitStatus, \* TMProcessor._limit_status
  filing,      \* what the packet under way has still to file
  journal,     \* _alarm_journal, newest first
  panel,       \* FDIRAlarmPanel._alarms, oldest first
  archive,     \* tm_alarms: is the row acknowledged
  counter,     \* _alarm_id_counter
  refused      \* history: rows the archive failed to mark when it was last told

filed == <<journal, panel, archive, counter, refused>>
alarmVars == <<limitStatus, filing, filed>>

Finding == [source : {Limit}, about : Params, status : Statuses]
OnBoardFinding == [source : {OnBoard}, about : Reported, status : {Nominal}]

AlarmTypeOK ==
  /\ limitStatus \in [Params -> Statuses]
  /\ filing \in Seq(Finding \cup OnBoardFinding)
  /\ Len(journal) <= JournalMax /\ Len(panel) <= PanelMax
  /\ \A i \in DOMAIN journal :
       /\ journal[i].about \in IF journal[i].source = Limit THEN Params ELSE Reported
       /\ journal[i].id = counter + 1 - i
       /\ journal[i].cleared => journal[i].acked /\ journal[i].source = Limit
       /\ journal[i].row # NoRow => journal[i].row \in DOMAIN archive
  /\ \A i \in DOMAIN panel : panel[i].id \in 1 .. counter
  /\ archive \in Seq(BOOLEAN) /\ Len(archive) <= MaxAlarms
  /\ refused \subseteq DOMAIN archive
  /\ counter \in Nat

-----------------------------------------------------------------------------
(* The telemetry task *)

(* The limit check reports a parameter's change of state, not the state. *)
ChangedNominal(new) ==   \* mutant: a change of band is no change
  Those(Order, {i \in DOMAIN Order :
                 (limitStatus[Order[i]] = Nominal) # (new[Order[i]] = Nominal)})

Changed(new) ==
  Those(Order, {i \in DOMAIN Order : limitStatus[Order[i]] # new[Order[i]]})

Housekeeping ==
  /\ filing = << >>
  /\ \E new \in [Params -> Statuses] :
       /\ limitStatus' = new
       /\ \E ps \in {Changed(new)} :
            filing' = [k \in DOMAIN ps |-> [source |-> Limit, about |-> ps[k], status |-> new[ps[k]]]]
  /\ UNCHANGED filed

OnBoardReport ==
  /\ filing = << >>
  /\ \E r \in Reported : filing' = <<[source |-> OnBoard, about |-> r, status |-> Nominal]>>
  /\ UNCHANGED <<limitStatus, filed>>

Clears(f) == f.source = Limit /\ f.status = Nominal

OfSeverity4(f) == (IF f.source = Limit THEN f.status ELSE f.about) \in Severe

(* The archive may refuse a row: the alarm then has none.  The panel takes *)
(* severities 0 to 3; what add_alarm raises for others, it swallows.       *)
Alarm(f, row) ==
  [id |-> counter + 1, source |-> f.source, about |-> f.about, status |-> f.status,
   acked |-> FALSE, cleared |-> FALSE, row |-> row]

KeptOneMore(s, max) ==   \* mutant: trimmed before the new alarm is in
  SubSeq(s, 1, IF Len(s) < max + 1 THEN Len(s) ELSE max + 1)

Kept(s, max) == SubSeq(s, 1, IF Len(s) < max THEN Len(s) ELSE max)
LastOnes(s, max) == IF Len(s) > max THEN SubSeq(s, Len(s) - max + 1, Len(s)) ELSE s

Raise(f) ==
  /\ counter' = counter + 1
  /\ \E stored \in BOOLEAN :
       /\ archive' = IF stored THEN Append(archive, FALSE) ELSE archive
       /\ journal' = Kept(<<Alarm(f, IF stored THEN Len(archive) + 1 ELSE NoRow)>> \o journal,
                          JournalMax)
  /\ panel' = IF OfSeverity4(f) THEN panel
               ELSE LastOnes(Append(panel, [id |-> counter + 1, acked |-> FALSE]), PanelMax)
  /\ UNCHANGED refused

(* The archive is told of the acknowledgement of each of these rows.  The   *)
(* journal's entry is acknowledged by then; an UPDATE that fails is         *)
(* swallowed, and one without a connection is none: the row stays as it is  *)
(* until the archive is told again.                                         *)
RowsOf(is) == {journal[i].row : i \in is}
Acked(rows) == [r \in DOMAIN archive |-> archive[r] \/ r \in rows]
Unmarked(rows) == {r \in rows \cap DOMAIN archive : ~archive[r]}

Persist(rows) ==
  \E failed \in SUBSET Unmarked(rows) :
    /\ archive' = Acked(rows \ failed)
    /\ refused' = (refused \ rows) \cup failed

(* Every alarm of the limit that is still open is closed and acknowledged; *)
(* the archive is told, the panel is not.                                  *)
Closes(a, p) == a.source = Limit /\ a.about = p /\ ~a.cleared

Clear(p) ==
  /\ journal' = [i \in DOMAIN journal |->
                   IF Closes(journal[i], p)
                   THEN [journal[i] EXCEPT !.cleared = TRUE, !.acked = TRUE] ELSE journal[i]]
  /\ Persist(RowsOf({i \in DOMAIN journal : Closes(journal[i], p)}))
  /\ UNCHANGED <<panel, counter>>

File ==
  /\ filing # << >>
  /\ filing' = Tail(filing)
  /\ IF Clears(Head(filing)) THEN Clear(Head(filing).about) ELSE Raise(Head(filing))
  /\ UNCHANGED limitStatus

-----------------------------------------------------------------------------
(* Operators.  Two routes acknowledge an alarm by its id: the journal's     *)
(* knows only what is in the journal, the display's the panel on its own.   *)

InJournal(id) == \E i \in DOMAIN journal : journal[i].id = id

AckPanel(id) ==
  panel' = [i \in DOMAIN panel |->
              IF panel[i].id = id THEN [panel[i] EXCEPT !.acked = TRUE] ELSE panel[i]]

AckJournalById(id) ==   \* mutant: the archive is told the id, not the row
  /\ journal' = [i \in DOMAIN journal |->
                   IF journal[i].id = id THEN [journal[i] EXCEPT !.acked = TRUE] ELSE journal[i]]
  /\ Persist(IF InJournal(id) THEN {id} ELSE {})

AckJournal(id) ==
  /\ journal' = [i \in DOMAIN journal |->
                   IF journal[i].id = id THEN [journal[i] EXCEPT !.acked = TRUE] ELSE journal[i]]
  /\ Persist(RowsOf({i \in DOMAIN journal : journal[i].id = id}))

AckWithoutPanel(id) ==   \* mutant: the journal's route leaves the panel alone
  /\ InJournal(id)
  /\ AckJournal(id)
  /\ UNCHANGED <<limitStatus, filing, panel, counter>>

AckInJournal(id) ==
  /\ InJournal(id)
  /\ AckJournal(id) /\ AckPanel(id)
  /\ UNCHANGED <<limitStatus, filing, counter>>

AckOnDisplay(id) ==
  /\ AckPanel(id) /\ AckJournal(id)
  /\ UNCHANGED <<limitStatus, filing, counter>>

-----------------------------------------------------------------------------
Fresh ==
  /\ limitStatus = [p \in Params |-> Nominal]
  /\ filing = << >> /\ journal = << >> /\ panel = << >> /\ counter = 0

Restart ==
  /\ limitStatus' = [p \in Params |-> Nominal]
  /\ filing' = << >> /\ journal' = << >> /\ panel' = << >> /\ counter' = 0
  /\ UNCHANGED <<archive, refused>>

AlarmInit == Fresh /\ archive = << >> /\ refused = {}

(* Bound: a packet is received while there is room for all it may raise. *)
Room(n) == Len(archive) + n <= MaxAlarms /\ counter + n <= MaxAlarms

AlarmNext ==
  \/ Room(Len(Order)) /\ Housekeeping
  \/ Room(1) /\ OnBoardReport
  \/ File
  \/ \E id \in 1 .. counter : AckInJournal(id) \/ AckOnDisplay(id)
  \/ Restart

AlarmSpec == AlarmInit /\ [][AlarmNext]_alarmVars

-----------------------------------------------------------------------------
(* Properties *)

Pending(p) == \E k \in DOMAIN filing : filing[k].source = Limit /\ filing[k].about = p
LimitAlarms(p) == {i \in DOMAIN journal : journal[i].source = Limit /\ journal[i].about = p}
Newest(i, is) == i \in is /\ \A k \in is : i <= k

(* The journal agrees with the limit check: a parameter inside its band has *)
(* no open alarm, and one outside has its newest alarm open, for the band   *)
(* it is in, unless the journal was too small for it (_clear_ground_alarm,  *)
(* _raise_alarm); a change that is still being filed is excepted.           *)
LimitAlarmsAgree ==
  \A p \in Params : ~Pending(p) =>
    IF limitStatus[p] = Nominal
    THEN \A i \in LimitAlarms(p) : journal[i].cleared
    ELSE IF LimitAlarms(p) = {} THEN Len(journal) = JournalMax
         ELSE \E i \in LimitAlarms(p) :
                /\ Newest(i, LimitAlarms(p))
                /\ ~journal[i].cleared /\ journal[i].status = limitStatus[p]

(* The row of an alarm is marked acknowledged exactly when its entry in the *)
(* journal is and the archive did not fail the last time it was told        *)
(* (_raise_alarm, _clear_ground_alarm, _persist_alarm_ack): no way to       *)
(* acknowledge forgets the row, a failure is made good by acknowledging     *)
(* again, and after restarts, whose alarms have the same ids but other      *)
(* rows, no row is marked for another alarm.                                *)
ArchiveFollows ==
  \A i \in DOMAIN journal :
    journal[i].row # NoRow =>
      (archive[journal[i].row] <=> journal[i].acked /\ journal[i].row \notin refused)

(* An alarm an operator has acknowledged, by either route, is acknowledged  *)
(* on the panel and in the journal; only an alarm that was closed by its    *)
(* parameter may be acknowledged in the journal alone.                      *)
PanelFollows ==
  \A k \in DOMAIN panel, i \in DOMAIN journal :
    panel[k].id = journal[i].id =>
      /\ panel[k].acked => journal[i].acked
      /\ journal[i].acked /\ ~journal[i].cleared => panel[k].acked

(* _raise_alarm, "File one alarm: journal, FDIR panel, archive, WS          *)
(* broadcast": the newest alarm of the journal is on the panel too.         *)
EveryAlarmOnPanel ==
  journal # << >> => \E k \in DOMAIN panel : panel[k].id = journal[1].id

(* "The acknowledgement is written through to the archive so it survives an *)
(* MCS restart" (_handle_alarm_ack): whatever the journal has acknowledged  *)
(* is acknowledged in the archive.                                          *)
AcksSurvive ==
  \A i \in DOMAIN journal :
    journal[i].acked /\ journal[i].row # NoRow => archive[journal[i].row]
================================================================================
