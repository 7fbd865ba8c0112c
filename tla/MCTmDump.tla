------------------------------ MODULE MCTmDump ------------------------------
(* Small instances of TmDump for TLC: one circular and one linear store.   *)
EXTENDS TmDump

CONSTANTS hk, event   \* model values: HK_Store and Event_Store

TwoStores == {hk, event}
OnePacket == [s \in TwoStores |-> 1]
=============================================================================
