--------------------------- MODULE MCDumpArchive ---------------------------
(* Small instances of DumpArchive for TLC.                                 *)
EXTENDS DumpArchive

CONSTANTS hk, event   \* model values: HK_Store and Event_Store

TwoStores == {hk, event}
SmallCapacity == [s \in TwoStores |-> IF s = hk THEN 2 ELSE 1]
=============================================================================
