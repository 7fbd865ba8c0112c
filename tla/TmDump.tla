------------------------------- MODULE TmDump -------------------------------
(***************************************************************************)
(* PUS Service 15, the on-board telemetry stores and their playback:       *)
(* OnboardTMStorage of smo_simulator/tm_storage.py, its telecommand        *)
(* handler, and SimulationEngine.queue_dump / _tick_dump_emission.         *)
(*                                                                         *)
(* A store keeps packets while the nominal software runs.  Dumping a store *)
(* copies its packets to a queue shared by all dumps; each engine tick     *)
(* then releases from that queue what the telemetry rate allows, whether   *)
(* or not the link is up.  When the queue runs empty every store that was  *)
(* dumped is cleared.  What reaches the ground, over the link and through  *)
(* the file that every dump leaves, is the subject of DumpArchive.         *)
(*                                                                         *)
(* Packets are numbered in the order they are created.  They all have the  *)
(* same size: sizes matter only to how many fit in a tick.                 *)
(***************************************************************************)
EXTENDS Integers, Sequences, FiniteSets

CONSTANTS Stores,      \* store identifiers
          Circular,    \* the stores that overwrite their oldest packet
          Capacity,    \* Capacity[s]: packets store s can hold
          MaxPending,  \* MAX_DUMP_PENDING
          PacketSize,  \* bytes of a packet
          Budgets,     \* bytes that a tick can add: rate / 8 * dt
          MaxPackets,  \* bound: packets created in a behaviour
          MaxDumps,    \* bound: dumps requested in a behaviour
          MaxRestores  \* bound: breakpoint loads in a behaviour

ASSUME TmDumpAssumption ==
  /\ Circular \subseteq Stores
  /\ Capacity \in [Stores -> Nat \ {0}]
  /\ MaxPending \in Nat \ {0}
  /\ PacketSize \in Nat \ {0} /\ Budgets \subseteq Nat \ {0}
  /\ MaxPackets \in Nat /\ MaxDumps \in Nat /\ MaxRestores \in Nat

VARIABLES
  stores,     \* _stores: the packets each store holds, oldest first
  recording,  \* _enabled: the stores that record
  overflow,   \* _overflow: the stores whose overflow flag is set
  pending,    \* _dump_pending: packets to release, with their store
  active,     \* _dump_active_stores
  budget,     \* _dump_byte_budget
  bootloader, \* the bootloader runs: stores do not exist
  created,    \* packets created so far
  dumps,      \* bound: dumps so far
  restores,   \* bound: breakpoint loads so far
  offered,    \* observer: packets offered to each store since it was cleared
  saved       \* what the latest breakpoint holds

vars == <<stores, recording, overflow, pending, active, budget, bootloader,
          created, dumps, restores, offered, saved>>

(* Variables that several actions leave alone together.                    *)
storage == <<stores, recording, overflow, offered>>
dump    == <<pending, active, budget>>
bounds  == <<dumps, restores>>

Packets == 1 .. MaxPackets

Least(a, b) == IF a <= b THEN a ELSE b

(* What a breakpoint holds of this part of the engine.                     *)
Held == [stores |-> stores, recording |-> recording, overflow |-> overflow,
         offered |-> offered, pending |-> pending, active |-> active,
         budget |-> budget, bootloader |-> bootloader]

Init ==
  /\ stores = [s \in Stores |-> <<>>]
  /\ recording = Stores
  /\ overflow = {}
  /\ pending = <<>>
  /\ active = {}
  /\ budget = 0
  /\ bootloader = FALSE
  /\ created = 0
  /\ dumps = 0
  /\ restores = 0
  /\ offered = [s \in Stores |-> <<>>]
  /\ saved = Held
-----------------------------------------------------------------------------
(* store_packet_direct, reached from _enqueue_tm and _emit_event only when *)
(* the nominal software runs.  A store that is disabled refuses.           *)
Full(s) == Len(stores[s]) >= Capacity[s]

KeepsOldest(s, p) ==   \* mutant: a circular store stops when full
  IF Full(s) THEN stores[s] ELSE Append(stores[s], p)

Stored(s, p) ==
  IF ~Full(s) THEN Append(stores[s], p)
  ELSE IF s \in Circular THEN Append(Tail(stores[s]), p)
  ELSE stores[s]

StorePacket(s) ==
  /\ ~bootloader
  /\ s \in recording
  /\ created < MaxPackets
  /\ created' = created + 1
  /\ stores' = [stores EXCEPT ![s] = Stored(s, created')]
  /\ overflow' = IF Full(s) THEN overflow \cup {s} ELSE overflow
  /\ offered' = [offered EXCEPT ![s] = Append(@, created')]
  /\ UNCHANGED <<recording, bootloader, dump, bounds, saved>>

(* S15.1 and S15.2.                                                        *)
SwitchStore(s) ==
  /\ ~bootloader
  /\ recording' \in {recording \cup {s}, recording \ {s}}
  /\ UNCHANGED <<stores, overflow, offered, bootloader, created, dump, bounds,
                 saved>>

(* delete_store, for every store in S.                                     *)
Delete(S) ==
  /\ stores' = [s \in Stores |-> IF s \in S THEN <<>> ELSE stores[s]]
  /\ offered' = [s \in Stores |-> IF s \in S THEN <<>> ELSE offered[s]]
  /\ overflow' = overflow \ S

(* S15.11.                                                                 *)
DeleteStore(s) ==
  /\ ~bootloader
  /\ Delete({s})
  /\ UNCHANGED <<recording, bootloader, created, dump, bounds, saved>>
-----------------------------------------------------------------------------
(* queue_dump, S15.9.                                                      *)
Room == MaxPending - Len(pending)

QueuedFrom(s) ==
  [i \in 1 .. Least(Len(stores[s]), Room) |-> [pkt |-> stores[s][i], sid |-> s]]

ActiveIfQueued(s) ==   \* mutant: only the first dump in progress is noted
  IF pending = <<>> THEN {s} ELSE active

ActiveWith(s) == active \cup {s}

StartDump(s) ==
  /\ ~bootloader
  /\ stores[s] # <<>>
  /\ dumps < MaxDumps
  /\ dumps' = dumps + 1
  /\ pending' = pending \o QueuedFrom(s)
  /\ active' = ActiveWith(s)
  /\ UNCHANGED <<storage, budget, restores, bootloader, created, saved>>

(* _tick_dump_emission with a queue that is empty ...                      *)
IdleTick ==
  /\ pending = <<>>
  /\ budget # 0
  /\ budget' = 0
  /\ UNCHANGED <<storage, pending, active, bounds, bootloader, created,
                 saved>>

(* ... and with one that is not: n packets are released.                   *)
CarriedNothing(rest, b) == 0   \* mutant: what a tick leaves over is forgotten

(* What a tick leaves of a budget b when rest is still pending.            *)
Carried(rest, b) == IF rest # <<>> THEN Least(b, PacketSize) ELSE b

ClearedAtOnce(rest, n) ==   \* mutant: a store is cleared once it is released from
  {pending[i].sid : i \in 1 .. n}

Cleared(rest, n) == IF rest = <<>> THEN active ELSE {}

EmissionTick(gain) ==
  LET n    == Least((budget + gain) \div PacketSize, Len(pending))
      rest == SubSeq(pending, n + 1, Len(pending))
  IN /\ pending # <<>>
     /\ pending' = rest
     /\ budget' = Carried(rest, budget + gain - n * PacketSize)
     /\ Delete(Cleared(rest, n))
     /\ active' = active \ Cleared(rest, n)
     /\ UNCHANGED <<recording, bootloader, created, bounds, saved>>
-----------------------------------------------------------------------------
(* _enter_bootloader_mode, and the boot of the application.                *)
EnterBootloader ==
  /\ bootloader' = TRUE
  /\ Delete(Stores)
  /\ recording' = {}
  /\ UNCHANGED <<dump, bounds, created, saved>>

BootApplication ==
  /\ bootloader
  /\ bootloader' = FALSE
  /\ recording' = Stores
  /\ UNCHANGED <<stores, overflow, offered, dump, bounds, created, saved>>

(* get_state and set_state of the storage and of the engine.               *)
SaveBreakpoint ==
  /\ restores < MaxRestores
  /\ saved' = Held
  /\ UNCHANGED <<storage, dump, bounds, bootloader, created>>

LoadBreakpoint ==
  /\ restores < MaxRestores
  /\ restores' = restores + 1
  /\ stores' = saved.stores
  /\ recording' = saved.recording
  /\ overflow' = saved.overflow
  /\ offered' = saved.offered
  /\ pending' = saved.pending
  /\ active' = saved.active
  /\ budget' = saved.budget
  /\ bootloader' = saved.bootloader
  /\ UNCHANGED <<dumps, created, saved>>

Tick == IdleTick \/ \E gain \in Budgets : EmissionTick(gain)

Next ==
  \/ \E s \in Stores :
       StorePacket(s) \/ SwitchStore(s) \/ DeleteStore(s) \/ StartDump(s)
  \/ Tick
  \/ EnterBootloader \/ BootApplication
  \/ SaveBreakpoint \/ LoadBreakpoint

Spec == Init /\ [][Next]_vars

(* The engine loop keeps ticking while the simulation is not frozen.       *)
FairSpec == Spec /\ WF_vars(Tick)
-----------------------------------------------------------------------------
Entry == [pkt : Packets, sid : Stores]

(* The type invariant, with the limits on memory: architecture.md, section *)
(* 7, "All data structures are bounded".                                   *)
TypeOK ==
  /\ stores \in [Stores -> Seq(Packets)]
  /\ \A s \in Stores : Len(stores[s]) <= Capacity[s]
  /\ recording \subseteq Stores
  /\ overflow \subseteq Stores
  /\ pending \in Seq(Entry) /\ Len(pending) <= MaxPending
  /\ active \subseteq Stores
  /\ budget \in Nat
  /\ bootloader \in BOOLEAN
  /\ created \in 0 .. MaxPackets
  /\ dumps \in 0 .. MaxDumps
  /\ restores \in 0 .. MaxRestores
  /\ offered \in [Stores -> Seq(Packets)]

(* A circular store holds the newest of the packets offered to it since it *)
(* was cleared, a linear store the oldest, and the overflow flag says      *)
(* whether any were lost, also after dumps, clears and breakpoints.        *)
StoreHoldsWhatItShould ==
  \A s \in Stores :
    LET n == Len(offered[s])
        k == Least(n, Capacity[s])
    IN /\ stores[s] = IF s \in Circular THEN SubSeq(offered[s], n - k + 1, n)
                                        ELSE SubSeq(offered[s], 1, k)
       /\ s \in overflow <=> n > Capacity[s]

(* Between ticks there is a store to be cleared exactly as long as packets *)
(* are pending, and every pending packet is of such a store, so that a     *)
(* dump ends with its store cleared and no store is cleared without a dump.*)
DumpInProgress ==
  /\ pending = <<>> <=> active = {}
  /\ \A i \in DOMAIN pending : pending[i].sid \in active

(* A store stays as it was dumped until every packet queued from it has    *)
(* been released: playback never clears a store with packets pending.      *)
ClearedWhenPlayed ==
  [][ \A s \in Stores :
        /\ pending' # pending /\ restores' = restores
        /\ stores[s] # <<>> /\ stores'[s] = <<>>
        => \A i \in DOMAIN pending' : pending'[i].sid # s ]_vars

(* Every dump comes to its end, whatever the rate is, with the link up or  *)
(* down and with other dumps asked for meanwhile, as long as they are      *)
(* finitely many.                                                          *)
EveryDumpEnds == \A s \in Stores : s \in active ~> s \notin active
=============================================================================
