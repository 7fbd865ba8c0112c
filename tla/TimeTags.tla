------------------------------ MODULE TimeTags ------------------------------
(***************************************************************************)
(* What the time-tagged schedule (PUS Service 11) promises, without clocks *)
(* or telecommands: an identifier is given to one command and never again, *)
(* a scheduled command leaves the schedule once, either deleted or         *)
(* released, a disabled schedule releases nothing, and every released      *)
(* command is dispatched once, in the order of identifiers.  Restoring a   *)
(* breakpoint takes all of that back to the moment it was saved.           *)
(***************************************************************************)
EXTENDS Integers

CONSTANT Ids   \* identifiers 1 .. n

VARIABLES status,   \* identifier -> what became of its command
          enabled,  \* whether the schedule may release
          saved     \* the status and enabled of the latest breakpoint

vars == <<status, enabled, saved>>

Statuses == {"unused", "scheduled", "deleted", "released", "dispatched"}

In(s) == {i \in Ids : status[i] = s}

Move(S, s) == [i \in Ids |-> IF i \in S THEN s ELSE status[i]]

Init ==
  /\ status = [i \in Ids |-> "unused"]
  /\ enabled = TRUE
  /\ saved = [status |-> status, enabled |-> enabled]

(* The next identifier is the least one not used so far.                   *)
Insert(i) ==
  /\ i \in In("unused")
  /\ \A j \in In("unused") : i <= j
  /\ status' = Move({i}, "scheduled")
  /\ UNCHANGED <<enabled, saved>>

Delete(S) ==
  /\ status' = Move(S, "deleted")
  /\ UNCHANGED <<enabled, saved>>

Release(S) ==
  /\ enabled
  /\ In("released") = {}
  /\ status' = Move(S, "released")
  /\ UNCHANGED <<enabled, saved>>

Dispatch(i) ==
  /\ i \in In("released")
  /\ \A j \in In("released") : i <= j
  /\ status' = Move({i}, "dispatched")
  /\ UNCHANGED <<enabled, saved>>

Switch ==
  /\ enabled' \in BOOLEAN
  /\ UNCHANGED <<status, saved>>

(* Breakpoints hold whole schedules, and only between dispatches.          *)
Save ==
  /\ In("released") = {}
  /\ saved' = [status |-> status, enabled |-> enabled]
  /\ UNCHANGED <<status, enabled>>

Restore ==
  /\ In("released") = {}
  /\ status' = saved.status
  /\ enabled' = saved.enabled
  /\ UNCHANGED saved

DispatchOne == \E i \in Ids : Dispatch(i)

Next ==
  \/ \E i \in Ids : Insert(i)
  \/ \E S \in SUBSET In("scheduled") : Delete(S) \/ Release(S)
  \/ DispatchOne
  \/ Switch
  \/ Save
  \/ Restore

Spec == Init /\ [][Next]_vars /\ WF_vars(DispatchOne)
=============================================================================
