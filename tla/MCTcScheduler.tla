--------------------------- MODULE MCTcScheduler ---------------------------
(* Small instances of TcScheduler for TLC.                                 *)
EXTENDS TcScheduler

R(op, at, id, tc) == [op |-> op, at |-> at, id |-> id, tc |-> tc]

(* Commands worth scheduling: an ordinary one and ones that change the     *)
(* schedule while its commands are being dispatched.                       *)
MCBody ==
  [plain  |-> R("plain", 0, 0, "plain"),
   clear  |-> R("delete_all", 0, 0, "plain"),
   stop   |-> R("disable", 0, 0, "plain"),
   again  |-> R("insert", 1, 0, "plain")]

MCNames == DOMAIN MCBody

(* The ground schedules commands that change the schedule; "again" then    *)
(* schedules the ordinary one.                                             *)
AllUplinks ==
  {R("insert", 3, 0, n) : n \in MCNames \ {"plain"}} \cup
  {R("delete", 0, 1, "plain"), R("enable", 0, 0, "plain"),
   R("set_time", 0, 0, "plain"), R("gps_time_sync", 0, 0, "plain")}
=============================================================================
