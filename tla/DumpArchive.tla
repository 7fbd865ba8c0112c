---------------------------- MODULE DumpArchive ----------------------------
(***************************************************************************)
(* What a dump leaves on the ground: TmDump with the link over which       *)
(* packets are played back and the files that queue_dump writes.           *)
(*                                                                         *)
(* A file is named after its store and the wall-clock second, and opened   *)
(* for writing.  Only the files of the current second can still be         *)
(* overwritten; those of earlier seconds are one set of packets, the tape. *)
(***************************************************************************)
EXTENDS TmDump

CONSTANTS QueueSize,  \* maxsize of tm_queue
          WriteOk     \* whether writing a file can succeed, can fail

VARIABLES
  queued,    \* packets in tm_queue
  downlink,  \* downlink_active
  file,      \* file[s]: the packets in the file of store s and of this second
  tape,      \* the packets in the files of earlier seconds
  played     \* observer: the packets released

link    == <<queued, downlink>>
archive == <<file, tape, played>>

Members(q) == {q[i] : i \in DOMAIN q}

Archived == tape \cup UNION {file[s] : s \in Stores}

ArchiveInit ==
  /\ Init
  /\ queued = 0
  /\ downlink \in BOOLEAN
  /\ file = [s \in Stores |-> {}]
  /\ tape = {}
  /\ played = {}

(* queue_dump writes the whole store; a failure is only logged.            *)
DumpToFile(s, ok) ==
  /\ StartDump(s)
  /\ file' = IF ok THEN [file EXCEPT ![s] = Members(stores[s])] ELSE file
  /\ UNCHANGED <<tape, played, link>>

(* The packets that tm_queue has no room for are lost, like all that are   *)
(* released with the link down.                                            *)
Playback(n) ==
  /\ n = Len(pending) - Len(pending')
  /\ queued' = IF downlink THEN Least(queued + n, QueueSize) ELSE queued
  /\ played' = played \cup {pending[i].pkt : i \in 1 .. n}
  /\ UNCHANGED <<downlink, file, tape>>

(* The server's broadcast loop takes a packet from tm_queue.               *)
Broadcast ==
  /\ queued > 0
  /\ queued' = queued - 1
  /\ UNCHANGED <<vars, downlink, archive>>

(* The spacecraft rises or sets, the transmitter is switched, ...          *)
LinkChanges ==
  /\ downlink' = ~downlink
  /\ UNCHANGED <<vars, queued, archive>>

SecondPasses ==
  /\ tape' = Archived
  /\ file' = [s \in Stores |-> {}]
  /\ UNCHANGED <<vars, link, played>>

ArchiveNext ==
  \/ \E s \in Stores, ok \in WriteOk : DumpToFile(s, ok)
  \/ \E gain \in Budgets :
       EmissionTick(gain) /\ \E n \in 0 .. MaxPending : Playback(n)
  \/ Broadcast \/ LinkChanges \/ SecondPasses
  \/ /\ \/ \E s \in Stores : StorePacket(s) \/ SwitchStore(s) \/ DeleteStore(s)
        \/ IdleTick \/ EnterBootloader \/ BootApplication
        \/ SaveBreakpoint \/ LoadBreakpoint
     /\ UNCHANGED <<link, archive>>

ArchiveSpec == ArchiveInit /\ [][ArchiveNext]_<<vars, link, archive>>
-----------------------------------------------------------------------------
(* What documents say of playback and the code does not keep.              *)

(* PUS_SERVICE_REFERENCE, S15: expiry is only by linear overflow or S15.11 *)
(* clear, and a dump plays the entire store.  So when a tick clears a      *)
(* store, what it held was played.                                         *)
OnlyPlayedIsCleared ==
  [][ pending # <<>> /\ pending' = <<>> /\ restores' = restores
      => \A s \in Stores : Members(stores[s]) \subseteq
                             Members(stores'[s]) \cup played' ]_<<vars, link, archive>>

(* OPERATIONS_GUIDE: the dump archive is the complete tape, every packet   *)
(* the spacecraft played back.                                             *)
TapeIsComplete == played \subseteq Archived
=============================================================================
