---------------------------- MODULE TmDumpProofs ----------------------------
(***************************************************************************)
(* Theorems about the telemetry stores and their playback (module TmDump), *)
(* for all stores, capacities, packet sizes and rates.                     *)
(*                                                                         *)
(* Neither the contents of the stores nor the agreement of the dump queue  *)
(* with the active stores survives a breakpoint load on its own: what the  *)
(* breakpoint holds must be as good as what it replaces.  Inv therefore    *)
(* asks the same of the state and of the saved copy.                       *)
(***************************************************************************)
EXTENDS TmDump, SequenceTheorems, TLAPS

(* The newest and the oldest c elements of a sequence.                     *)
Newest(q, c) == SubSeq(q, Len(q) - Least(Len(q), c) + 1, Len(q))
Oldest(q, c) == SubSeq(q, 1, Least(Len(q), c))

(* What store s is to keep of the packets q offered to it.                 *)
Keeps(s, q) == IF s \in Circular THEN Newest(q, Capacity[s])
                                 ELSE Oldest(q, Capacity[s])

StorageOK(st, rec, ov, off) ==
  /\ st \in [Stores -> Seq(Packets)] /\ off \in [Stores -> Seq(Packets)]
  /\ rec \subseteq Stores /\ ov \subseteq Stores
  /\ \A s \in Stores : /\ Len(st[s]) <= Capacity[s]
                       /\ st[s] = Keeps(s, off[s])
                       /\ s \in ov <=> Len(off[s]) > Capacity[s]

PlaybackOK(pend, act, bud) ==
  /\ pend \in Seq(Entry) /\ Len(pend) <= MaxPending
  /\ act \subseteq Stores
  /\ bud \in Nat
  /\ pend = <<>> <=> act = {}
  /\ \A i \in 1 .. Len(pend) : pend[i].sid \in act

Storage  == StorageOK(stores, recording, overflow, offered)
Playback == PlaybackOK(pending, active, budget)
Backup   == /\ StorageOK(saved.stores, saved.recording, saved.overflow,
                         saved.offered)
            /\ PlaybackOK(saved.pending, saved.active, saved.budget)
            /\ saved.bootloader \in BOOLEAN
Counters == /\ bootloader \in BOOLEAN
            /\ created \in 0 .. MaxPackets
            /\ dumps \in 0 .. MaxDumps
            /\ restores \in 0 .. MaxRestores

Inv == Storage /\ Playback /\ Backup /\ Counters
-----------------------------------------------------------------------------
(* Sequences: what appending does to the newest and the oldest elements.   *)
LEMMA NewestProperties ==
  ASSUME NEW S, NEW q \in Seq(S), NEW c \in Nat
  PROVE  /\ Newest(q, c) \in Seq(S)
         /\ Len(Newest(q, c)) = Least(Len(q), c)
         /\ \A i \in 1 .. Least(Len(q), c) :
              Newest(q, c)[i] = q[Len(q) - Least(Len(q), c) + i]
<1> DEFINE k == Least(Len(q), c)
<1>1. k \in Nat /\ k <= Len(q)
  BY DEF Least
<1>2. \A i \in Len(q) - k + 1 .. Len(q) : q[i] \in S
  BY <1>1
<1> HIDE DEF k
<1>3. /\ SubSeq(q, Len(q) - k + 1, Len(q)) \in Seq(S)
      /\ Len(SubSeq(q, Len(q) - k + 1, Len(q)))
           = IF Len(q) - k + 1 <= Len(q) THEN Len(q) - (Len(q) - k + 1) + 1 ELSE 0
      /\ \A i \in 1 .. Len(q) - (Len(q) - k + 1) + 1 :
           SubSeq(q, Len(q) - k + 1, Len(q))[i] = q[Len(q) - k + 1 + i - 1]
  BY <1>1, <1>2, SubSeqProperties
<1>4. Newest(q, c) = SubSeq(q, Len(q) - k + 1, Len(q))
  BY DEF Newest, k
<1>5. /\ Newest(q, c) \in Seq(S)
      /\ Len(Newest(q, c)) = k
      /\ \A i \in 1 .. k : Newest(q, c)[i] = q[Len(q) - k + i]
  BY <1>1, <1>3, <1>4
<1> QED BY <1>5 DEF k

LEMMA OldestProperties ==
  ASSUME NEW S, NEW q \in Seq(S), NEW c \in Nat
  PROVE  /\ Oldest(q, c) \in Seq(S)
         /\ Len(Oldest(q, c)) = Least(Len(q), c)
         /\ \A i \in 1 .. Least(Len(q), c) : Oldest(q, c)[i] = q[i]
<1> DEFINE k == Least(Len(q), c)
<1>1. k \in Nat /\ k <= Len(q)
  BY DEF Least
<1>2. \A i \in 1 .. k : q[i] \in S
  BY <1>1
<1> HIDE DEF k
<1>3. /\ SubSeq(q, 1, k) \in Seq(S)
      /\ Len(SubSeq(q, 1, k)) = IF 1 <= k THEN k - 1 + 1 ELSE 0
      /\ \A i \in 1 .. k - 1 + 1 : SubSeq(q, 1, k)[i] = q[1 + i - 1]
  BY <1>1, <1>2, SubSeqProperties
<1>4. Oldest(q, c) = SubSeq(q, 1, k)
  BY DEF Oldest, k
<1>5. /\ Oldest(q, c) \in Seq(S)
      /\ Len(Oldest(q, c)) = k
      /\ \A i \in 1 .. k : Oldest(q, c)[i] = q[i]
  BY <1>1, <1>3, <1>4
<1> QED BY <1>5 DEF k

(* A window that is not full grows, one that is full slides or stays.      *)
LEMMA NewestGrows ==
  ASSUME NEW S, NEW q \in Seq(S), NEW p \in S, NEW c \in Nat, Len(q) < c
  PROVE  Newest(Append(q, p), c) = Append(Newest(q, c), p)
<1> DEFINE r == Append(q, p)
<1>1. /\ r \in Seq(S) /\ Len(r) = Len(q) + 1
      /\ \A i \in 1 .. Len(q) : r[i] = q[i]
      /\ r[Len(q) + 1] = p
  BY AppendProperties
<1>2. Newest(q, c) = q
  <2>1. Least(Len(q), c) = Len(q)
    BY DEF Least
  <2>2. Newest(q, c) = SubSeq(q, 1, Len(q))
    BY <2>1 DEF Newest
  <2> QED BY <2>2, SubSeqFull
<1>3. Newest(r, c) = r
  <2> HIDE DEF r
  <2>1. Least(Len(r), c) = Len(r)
    BY <1>1 DEF Least
  <2>2. Newest(r, c) = SubSeq(r, 1, Len(r))
    BY <1>1, <2>1 DEF Newest
  <2> QED BY <1>1, <2>2, SubSeqFull
<1> QED BY <1>2, <1>3

LEMMA NewestSlides ==
  ASSUME NEW S, NEW q \in Seq(S), NEW p \in S, NEW c \in Nat \ {0},
         Len(q) >= c
  PROVE  Newest(Append(q, p), c) = Append(Tail(Newest(q, c)), p)
<1> DEFINE r == Append(q, p)
           w == Newest(q, c)
           v == Append(Tail(w), p)
           u == Newest(r, c)
<1>1. /\ r \in Seq(S) /\ Len(r) = Len(q) + 1
      /\ \A i \in 1 .. Len(q) : r[i] = q[i]
      /\ r[Len(q) + 1] = p
  BY AppendProperties
<1>2. Least(Len(q), c) = c
  BY DEF Least
<1>3. w \in Seq(S) /\ Len(w) = c /\ \A i \in 1 .. c : w[i] = q[Len(q) - c + i]
  <2>1. /\ w \in Seq(S)
        /\ Len(w) = Least(Len(q), c)
        /\ \A i \in 1 .. Least(Len(q), c) : w[i] = q[Len(q) - Least(Len(q), c) + i]
    <3>1. c \in Nat
      OBVIOUS
    <3> QED BY ONLY <3>1, q \in Seq(S), NewestProperties
  <2> QED BY <1>2, <2>1
<1> HIDE DEF r, w
<1>4. Least(Len(r), c) = c
  BY <1>1 DEF Least
<1>5. u \in Seq(S) /\ Len(u) = c /\ \A i \in 1 .. c : u[i] = r[Len(r) - c + i]
  <2>1. /\ u \in Seq(S)
        /\ Len(u) = Least(Len(r), c)
        /\ \A i \in 1 .. Least(Len(r), c) : u[i] = r[Len(r) - Least(Len(r), c) + i]
    <3>1. c \in Nat
      OBVIOUS
    <3>2. r \in Seq(S)
      BY <1>1
    <3> QED BY ONLY <3>1, <3>2, NewestProperties
  <2> QED BY <1>4, <2>1
<1>6. w # <<>>
  BY <1>3
<1>7. /\ Tail(w) \in Seq(S) /\ Len(Tail(w)) = c - 1
      /\ \A i \in 1 .. c - 1 : Tail(w)[i] = w[i + 1]
  BY <1>3, <1>6, HeadTailProperties
<1> DEFINE t == Tail(w)
<1> HIDE DEF t
<1>8. /\ v \in Seq(S) /\ Len(v) = Len(t) + 1
      /\ \A i \in 1 .. Len(t) : v[i] = t[i]
      /\ v[Len(t) + 1] = p
  <2>1. t \in Seq(S) /\ v = Append(t, p)
    BY <1>7 DEF t
  <2> HIDE DEF v
  <2>2. /\ Append(t, p) \in Seq(S) /\ Len(Append(t, p)) = Len(t) + 1
        /\ \A i \in 1 .. Len(t) : Append(t, p)[i] = t[i]
        /\ Append(t, p)[Len(t) + 1] = p
    BY <2>1, AppendProperties
  <2> QED BY <2>1, <2>2
<1>9. t \in Seq(S) /\ Len(t) = c - 1 /\ \A i \in 1 .. c - 1 : t[i] = w[i + 1]
  BY <1>7 DEF t
<1> HIDE DEF u, v
<1>10. ASSUME NEW i \in 1 .. c
       PROVE  u[i] = v[i]
  <2>1. u[i] = r[Len(q) + 1 - c + i]
    BY <1>1, <1>5
  <2>2. CASE i = c
    <3>1. u[i] = r[Len(q) + 1]
      BY <2>1, <2>2
    <3>2. v[i] = p
      BY <1>8, <1>9, <2>2
    <3> QED BY <1>1, <3>1, <3>2
  <2>3. CASE i < c
    <3>1. v[i] = w[i + 1]
      BY <1>8, <1>9, <2>3
    <3>2. w[i + 1] = q[Len(q) - c + (i + 1)]
      BY <1>3, <2>3
    <3>3. Len(q) - c + (i + 1) \in 1 .. Len(q)
      BY <2>3
    <3>4. r[Len(q) - c + (i + 1)] = q[Len(q) - c + (i + 1)]
      BY <1>1, <3>3
    <3>5. Len(q) - c + (i + 1) = Len(q) + 1 - c + i
      OBVIOUS
    <3> QED BY <2>1, <3>1, <3>2, <3>4, <3>5
  <2> QED BY <2>2, <2>3
<1>11. Len(u) = c /\ Len(v) = c
  BY <1>5, <1>8, <1>9
<1>12. u = v
  BY <1>5, <1>8, <1>10, <1>11, SeqEqual
<1> QED BY <1>12 DEF u, v, w, r

LEMMA OldestStays ==
  ASSUME NEW S, NEW q \in Seq(S), NEW p \in S, NEW c \in Nat, Len(q) >= c
  PROVE  Oldest(Append(q, p), c) = Oldest(q, c)
<1> DEFINE r == Append(q, p)
           u == Oldest(r, c)
           v == Oldest(q, c)
<1>1. /\ r \in Seq(S) /\ Len(r) = Len(q) + 1
      /\ \A i \in 1 .. Len(q) : r[i] = q[i]
  BY AppendProperties
<1>2. Least(Len(q), c) = c
  BY DEF Least
<1>3. v \in Seq(S) /\ Len(v) = c /\ \A i \in 1 .. c : v[i] = q[i]
  BY <1>2, OldestProperties
<1> HIDE DEF r
<1>4. Least(Len(r), c) = c
  BY <1>1 DEF Least
<1>5. u \in Seq(S) /\ Len(u) = c /\ \A i \in 1 .. c : u[i] = r[i]
  BY <1>1, <1>4, OldestProperties
<1> HIDE DEF u, v
<1>6. u = v
  BY <1>1, <1>3, <1>5, SeqEqual
<1> QED BY <1>6 DEF u, v, r

LEMMA OldestGrows ==
  ASSUME NEW S, NEW q \in Seq(S), NEW p \in S, NEW c \in Nat, Len(q) < c
  PROVE  Oldest(Append(q, p), c) = Append(Oldest(q, c), p)
<1> DEFINE r == Append(q, p)
<1>1. r \in Seq(S) /\ Len(r) = Len(q) + 1
  BY AppendProperties
<1>2. Least(Len(q), c) = Len(q)
  BY DEF Least
<1>3. Oldest(q, c) = q
  BY <1>2, SubSeqFull DEF Oldest
<1> HIDE DEF r
<1>4. Least(Len(r), c) = Len(r)
  BY <1>1 DEF Least
<1>5. Oldest(r, c) = r
  BY <1>1, <1>4, SubSeqFull DEF Oldest
<1> QED BY <1>3, <1>5 DEF r
-----------------------------------------------------------------------------
(* The stores.                                                             *)
LEMMA CapacityPositive ==
  ASSUME NEW s \in Stores
  PROVE  Capacity[s] \in Nat \ {0} /\ Capacity[s] \in Nat
BY TmDumpAssumption

LEMMA KeepsLength ==
  ASSUME NEW s \in Stores, NEW q \in Seq(Packets)
  PROVE  Len(Keeps(s, q)) = Least(Len(q), Capacity[s])
<1>1. Capacity[s] \in Nat
  BY CapacityPositive
<1>2. Len(Newest(q, Capacity[s])) = Least(Len(q), Capacity[s])
  BY <1>1, NewestProperties
<1>3. Len(Oldest(q, Capacity[s])) = Least(Len(q), Capacity[s])
  BY <1>1, OldestProperties
<1> QED BY <1>2, <1>3 DEF Keeps

LEMMA KeepsNothing ==
  ASSUME NEW s \in Stores
  PROVE  Keeps(s, <<>>) = <<>>
<1>1. <<>> \in Seq(Packets) /\ Len(<<>>) = 0
  BY EmptySeq
<1>2. Capacity[s] \in Nat
  BY CapacityPositive
<1>3. Least(Len(<<>>), Capacity[s]) = 0
  BY <1>1, <1>2 DEF Least
<1>4. Newest(<<>>, Capacity[s]) = <<>>
  BY <1>1, <1>3, SubSeqEmpty DEF Newest
<1>5. Oldest(<<>>, Capacity[s]) = <<>>
  BY <1>1, <1>3, SubSeqEmpty DEF Oldest
<1> QED BY <1>4, <1>5 DEF Keeps

(* store_packet_direct keeps in a store what it is to keep.                *)
LEMMA StoredKeeps ==
  ASSUME Storage, NEW s \in Stores, NEW p \in Packets
  PROVE  /\ Stored(s, p) \in Seq(Packets)
         /\ Len(Stored(s, p)) <= Capacity[s]
         /\ Stored(s, p) = Keeps(s, Append(offered[s], p))
         /\ Full(s) <=> Len(Append(offered[s], p)) > Capacity[s]
         /\ s \in overflow => Full(s)
<1> DEFINE q == offered[s]
           c == Capacity[s]
<1>1. /\ stores[s] \in Seq(Packets) /\ q \in Seq(Packets)
      /\ stores[s] = Keeps(s, q) /\ Len(stores[s]) <= c
      /\ s \in overflow <=> Len(q) > c
  BY DEF Storage, StorageOK
<1>2. c \in Nat \ {0} /\ c \in Nat
  BY CapacityPositive
<1>3. /\ Append(q, p) \in Seq(Packets)
      /\ Len(Append(q, p)) = Len(q) + 1
  BY <1>1, AppendProperties
<1>4. Len(stores[s]) = Least(Len(q), c)
  BY <1>1, KeepsLength
<1>5. Len(q) \in Nat
  BY <1>1
<1>6. Full(s) <=> Len(q) >= c
  BY <1>2, <1>4, <1>5 DEF Full, Least
<1>7. /\ Full(s) <=> Len(Append(q, p)) > c
      /\ s \in overflow => Full(s)
  BY <1>1, <1>2, <1>3, <1>5, <1>6
<1>8. Stored(s, p) = Keeps(s, Append(q, p))
  <2>1. CASE ~Full(s)
    <3>1. Len(q) < c
      BY <1>2, <1>5, <1>6, <2>1
    <3>2. Newest(Append(q, p), c) = Append(Newest(q, c), p)
      BY ONLY <1>1, <1>2, <3>1, p \in Packets, NewestGrows
    <3>3. Oldest(Append(q, p), c) = Append(Oldest(q, c), p)
      BY ONLY <1>1, <1>2, <3>1, p \in Packets, OldestGrows
    <3>4. Stored(s, p) = Append(Keeps(s, q), p)
      BY <1>1, <2>1 DEF Stored
    <3> QED BY <3>2, <3>3, <3>4 DEF Keeps
  <2>2. CASE Full(s) /\ s \in Circular
    <3>1. Newest(Append(q, p), c) = Append(Tail(Newest(q, c)), p)
      BY ONLY <1>1, <1>2, <1>6, <2>2, p \in Packets, NewestSlides
    <3>2. Stored(s, p) = Append(Tail(Keeps(s, q)), p)
      BY <1>1, <2>2 DEF Stored
    <3> QED BY <2>2, <3>1, <3>2 DEF Keeps
  <2>3. CASE Full(s) /\ s \notin Circular
    <3>1. Oldest(Append(q, p), c) = Oldest(q, c)
      BY ONLY <1>1, <1>2, <1>6, <2>3, p \in Packets, OldestStays
    <3>2. Stored(s, p) = Keeps(s, q)
      BY <1>1, <2>3 DEF Stored
    <3> QED BY <2>3, <3>1, <3>2 DEF Keeps
  <2> QED BY <2>1, <2>2, <2>3
<1>9. Stored(s, p) \in Seq(Packets)
  <2>1. Newest(Append(q, p), c) \in Seq(Packets)
    BY ONLY <1>2, <1>3, NewestProperties
  <2>2. Oldest(Append(q, p), c) \in Seq(Packets)
    BY ONLY <1>2, <1>3, OldestProperties
  <2> QED BY <1>8, <2>1, <2>2 DEF Keeps
<1>10. Len(Stored(s, p)) <= c
  <2>1. Len(Stored(s, p)) = Least(Len(Append(q, p)), c)
    BY <1>3, <1>8, KeepsLength
  <2> QED BY <1>2, <1>3, <1>5, <2>1 DEF Least
<1> QED BY <1>7, <1>8, <1>9, <1>10

(* delete_store, of any set of stores, keeps the storage good.             *)
LEMMA DeleteStorage ==
  ASSUME Storage, NEW S, Delete(S),
         recording' \subseteq Stores
  PROVE  Storage'
<1>1. ASSUME NEW s \in Stores, s \in S
      PROVE  /\ Len(stores'[s]) <= Capacity[s]
             /\ stores'[s] = Keeps(s, offered'[s])
             /\ s \in overflow' <=> Len(offered'[s]) > Capacity[s]
  <2>1. stores'[s] = <<>> /\ offered'[s] = <<>> /\ s \notin overflow'
    BY <1>1 DEF Delete
  <2>2. Capacity[s] \in Nat
    BY CapacityPositive
  <2>3. Len(<<>>) = 0
    OBVIOUS
  <2> QED BY <2>1, <2>2, <2>3, KeepsNothing
<1>2. ASSUME NEW s \in Stores, s \notin S
      PROVE  /\ Len(stores'[s]) <= Capacity[s]
             /\ stores'[s] = Keeps(s, offered'[s])
             /\ s \in overflow' <=> Len(offered'[s]) > Capacity[s]
  <2>1. stores'[s] = stores[s] /\ offered'[s] = offered[s]
    BY <1>2 DEF Delete
  <2>2. s \in overflow' <=> s \in overflow
    BY <1>2 DEF Delete
  <2> QED BY <2>1, <2>2 DEF Storage, StorageOK
<1>3. stores' \in [Stores -> Seq(Packets)] /\ offered' \in [Stores -> Seq(Packets)]
  <2>1. <<>> \in Seq(Packets)
    BY EmptySeq
  <2> QED BY <2>1 DEF Delete, Storage, StorageOK
<1>4. overflow' \subseteq Stores
  BY DEF Delete, Storage, StorageOK
<1> QED BY <1>1, <1>2, <1>3, <1>4 DEF Storage, StorageOK

LEMMA StorePacketStorage ==
  ASSUME Storage, created \in 0 .. MaxPackets, NEW s \in Stores, StorePacket(s)
  PROVE  Storage'
<1> DEFINE p == created'
<1>1. p \in Packets
  BY TmDumpAssumption DEF StorePacket, Packets
<1>2. /\ stores' = [stores EXCEPT ![s] = Stored(s, p)]
      /\ offered' = [offered EXCEPT ![s] = Append(offered[s], p)]
      /\ overflow' = IF Full(s) THEN overflow \cup {s} ELSE overflow
      /\ recording' = recording
  BY DEF StorePacket
<1> HIDE DEF p
<1>3. /\ Stored(s, p) \in Seq(Packets)
      /\ Len(Stored(s, p)) <= Capacity[s]
      /\ Stored(s, p) = Keeps(s, Append(offered[s], p))
      /\ Full(s) <=> Len(Append(offered[s], p)) > Capacity[s]
      /\ s \in overflow => Full(s)
  BY <1>1, StoredKeeps
<1>4. stores \in [Stores -> Seq(Packets)] /\ offered \in [Stores -> Seq(Packets)]
  BY DEF Storage, StorageOK
<1>5. Append(offered[s], p) \in Seq(Packets)
  BY <1>1, <1>4, AppendProperties
<1>6. ASSUME NEW r \in Stores
      PROVE  /\ Len(stores'[r]) <= Capacity[r]
             /\ stores'[r] = Keeps(r, offered'[r])
             /\ r \in overflow' <=> Len(offered'[r]) > Capacity[r]
  <2>1. CASE r = s
    <3>1. stores'[r] = Stored(s, p) /\ offered'[r] = Append(offered[s], p)
      BY <1>2, <1>4, <2>1
    <3>2. r \in overflow' <=> Full(s)
      BY <1>2, <1>3, <2>1
    <3> QED BY <1>3, <2>1, <3>1, <3>2
  <2>2. CASE r # s
    <3>1. stores'[r] = stores[r] /\ offered'[r] = offered[r]
      BY <1>2, <1>4, <2>2
    <3>2. r \in overflow' <=> r \in overflow
      BY <1>2, <2>2
    <3> QED BY <3>1, <3>2 DEF Storage, StorageOK
  <2> QED BY <2>1, <2>2
<1>7. stores' \in [Stores -> Seq(Packets)] /\ offered' \in [Stores -> Seq(Packets)]
  BY <1>2, <1>3, <1>4, <1>5
<1>8. overflow' \subseteq Stores /\ recording' \subseteq Stores
  BY <1>2 DEF Storage, StorageOK
<1> QED BY <1>6, <1>7, <1>8 DEF Storage, StorageOK
-----------------------------------------------------------------------------
(* The playback.  queue_dump keeps the queue within its cap and the store  *)
(* it copies among the active ones.                                        *)
LEMMA QueuedProperties ==
  ASSUME Storage, Playback, NEW s \in Stores, stores[s] # <<>>
  PROVE  /\ QueuedFrom(s) \in Seq(Entry)
         /\ Len(pending) + Len(QueuedFrom(s)) <= MaxPending
         /\ \A i \in 1 .. Len(QueuedFrom(s)) : QueuedFrom(s)[i].sid = s
         /\ pending = <<>> => Len(QueuedFrom(s)) > 0
<1> DEFINE k == Least(Len(stores[s]), Room)
           e == [i \in 1 .. k |-> [pkt |-> stores[s][i], sid |-> s]]
<1>1. stores[s] \in Seq(Packets) /\ Len(stores[s]) \in Nat \ {0}
  <2>1. stores[s] \in Seq(Packets)
    BY DEF Storage, StorageOK
  <2> QED BY <2>1, EmptySeq
<1>2. Len(pending) \in Nat /\ Room \in Nat /\ Len(pending) + Room = MaxPending
      /\ MaxPending \in Nat \ {0}
  BY TmDumpAssumption DEF Playback, PlaybackOK, Room
<1>3. k \in Nat /\ k <= Len(stores[s]) /\ k <= Room
  BY <1>1, <1>2 DEF Least
<1>4. pending = <<>> => k > 0
  <2>1. pending = <<>> => Room = MaxPending
    BY TmDumpAssumption DEF Room
  <2> QED BY <1>1, <1>2, <2>1 DEF Least
<1>5. QueuedFrom(s) = e
  BY DEF QueuedFrom
<1> HIDE DEF k
<1>6. \A i \in 1 .. k : [pkt |-> stores[s][i], sid |-> s] \in Entry
  BY <1>1, <1>3 DEF Entry
<1>7. e \in [1 .. k -> Entry]
  BY <1>6
<1>8. DOMAIN e = 1 .. k /\ \A i \in 1 .. k : e[i].sid = s
  OBVIOUS
<1> HIDE DEF e
<1>9. e \in Seq(Entry) /\ Len(e) = k
  BY <1>3, <1>7, <1>8
<1> QED BY <1>2, <1>3, <1>4, <1>5, <1>8, <1>9

LEMMA StartDumpPlayback ==
  ASSUME Storage, Playback, NEW s \in Stores, StartDump(s)
  PROVE  Playback'
<1> DEFINE new == QueuedFrom(s)
<1>1. /\ new \in Seq(Entry)
      /\ Len(pending) + Len(new) <= MaxPending
      /\ \A i \in 1 .. Len(new) : new[i].sid = s
      /\ pending = <<>> => Len(new) > 0
  BY QueuedProperties DEF StartDump
<1>2. pending' = pending \o new /\ active' = active \cup {s} /\ budget' = budget
  BY DEF StartDump, ActiveWith
<1> HIDE DEF new
<1>3. /\ pending \in Seq(Entry) /\ active \subseteq Stores /\ budget \in Nat
      /\ \A i \in 1 .. Len(pending) : pending[i].sid \in active
  BY DEF Playback, PlaybackOK
<1>4. /\ pending' \in Seq(Entry)
      /\ Len(pending') = Len(pending) + Len(new)
      /\ \A i \in 1 .. Len(pending) + Len(new) :
           pending'[i] = IF i <= Len(pending) THEN pending[i]
                                              ELSE new[i - Len(pending)]
  BY <1>1, <1>2, <1>3, ConcatProperties
<1>5. Len(pending) \in Nat /\ Len(new) \in Nat
  BY <1>1, <1>3
<1>6. ASSUME NEW i \in 1 .. Len(pending')
      PROVE  pending'[i].sid \in active'
  <2>1. CASE i <= Len(pending)
    BY <1>2, <1>3, <1>4, <1>5, <2>1
  <2>2. CASE i > Len(pending)
    <3>1. pending'[i] = new[i - Len(pending)]
      BY <1>4, <1>5, <2>2
    <3>2. i - Len(pending) \in 1 .. Len(new)
      BY <1>4, <1>5, <2>2
    <3> QED BY <1>1, <1>2, <3>1, <3>2
  <2> QED BY <1>5, <2>1, <2>2
<1>7. pending' # <<>> /\ active' # {}
  <2>1. Len(pending') > 0
    <3>1. CASE pending = <<>>
      BY <1>1, <1>4, <1>5, <3>1
    <3>2. CASE pending # <<>>
      <4>1. Len(pending) \in Nat \ {0}
        BY <1>3, <3>2, EmptySeq
      <4> QED BY <1>4, <1>5, <4>1
    <3> QED BY <3>1, <3>2
  <2> QED BY <1>2, <1>4, <2>1
<1> QED BY <1>1, <1>2, <1>3, <1>4, <1>6, <1>7 DEF Playback, PlaybackOK

(* A tick never releases more than its budget pays for ...                 *)
LEMMA ReleasePaid ==
  ASSUME NEW b \in Nat, NEW gain \in Nat, NEW m \in Nat,
         NEW n, n = Least((b + gain) \div PacketSize, m),
         NEW left, left = b + gain - n * PacketSize
  PROVE  n \in Nat /\ n <= m /\ left \in Nat
<1> DEFINE d == (b + gain) \div PacketSize
<1>1. PacketSize \in Nat \ {0}
  BY TmDumpAssumption
<1>2. d \in Nat /\ d * PacketSize <= b + gain
  BY <1>1
<1> HIDE DEF d
<1>3. n \in Nat /\ n <= m /\ n <= d
  BY <1>2 DEF Least, d
<1>4. n * PacketSize <= d * PacketSize
  BY <1>1, <1>2, <1>3
<1>5. n * PacketSize \in Nat
  BY <1>1, <1>3
<1>6. d * PacketSize \in Nat
  BY <1>1, <1>2
<1>7. b + gain - n * PacketSize \in Nat
  BY <1>2, <1>4, <1>5, <1>6
<1> QED BY <1>3, <1>7

(* ... and the active stores are given up with the last packet released.   *)
LEMMA EmissionPlayback ==
  ASSUME Playback, NEW gain \in Budgets, EmissionTick(gain)
  PROVE  Playback'
<1> DEFINE n == Least((budget + gain) \div PacketSize, Len(pending))
           left == budget + gain - n * PacketSize
<1>1. /\ pending \in Seq(Entry) /\ Len(pending) <= MaxPending
      /\ active \subseteq Stores
      /\ budget \in Nat
      /\ pending = <<>> <=> active = {}
      /\ \A i \in 1 .. Len(pending) : pending[i].sid \in active
  BY DEF Playback, PlaybackOK
<1>2. Len(pending) \in Nat /\ MaxPending \in Nat /\ PacketSize \in Nat
  BY <1>1, TmDumpAssumption
<1>3. n \in Nat /\ n <= Len(pending) /\ left \in Nat
  <2>1. gain \in Nat
    BY TmDumpAssumption
  <2>2. /\ n = Least((budget + gain) \div PacketSize, Len(pending))
        /\ left = budget + gain - n * PacketSize
    OBVIOUS
  <2> HIDE DEF n, left
  <2> QED BY ONLY <1>1, <1>2, <2>1, <2>2, ReleasePaid
<1>4. /\ pending # <<>>
      /\ pending' = SubSeq(pending, n + 1, Len(pending))
      /\ budget' = Carried(pending', left)
      /\ active' = active \ Cleared(pending', n)
  BY DEF EmissionTick
<1> HIDE DEF n, left
<1>5. /\ pending' \in Seq(Entry)
      /\ Len(pending') = Len(pending) - n
      /\ \A i \in 1 .. Len(pending) - n : pending'[i] = pending[n + i]
  <2>1. \A i \in n + 1 .. Len(pending) : pending[i] \in Entry
    BY <1>1, <1>3
  <2>2. /\ SubSeq(pending, n + 1, Len(pending)) \in Seq(Entry)
        /\ Len(SubSeq(pending, n + 1, Len(pending)))
             = IF n + 1 <= Len(pending) THEN Len(pending) - (n + 1) + 1 ELSE 0
        /\ \A i \in 1 .. Len(pending) - (n + 1) + 1 :
             SubSeq(pending, n + 1, Len(pending))[i] = pending[n + 1 + i - 1]
    BY <1>2, <1>3, <2>1, SubSeqProperties
  <2> QED BY <1>2, <1>3, <1>4, <2>2
<1>6. budget' \in Nat
  BY <1>2, <1>3, <1>4 DEF Carried, Least
<1>7. CASE pending' = <<>>
  <2>1. active' = {}
    BY <1>4, <1>7 DEF Cleared
  <2>2. Len(pending') = 0
    BY <1>7
  <2> QED BY <1>2, <1>5, <1>6, <1>7, <2>1, <2>2 DEF Playback, PlaybackOK
<1>8. CASE pending' # <<>>
  <2>1. active' = active
    BY <1>4, <1>8 DEF Cleared
  <2>2. active # {}
    BY <1>1, <1>4
  <2>3. ASSUME NEW i \in 1 .. Len(pending')
        PROVE  pending'[i].sid \in active'
    <3>1. n + i \in 1 .. Len(pending)
      BY <1>2, <1>3, <1>5
    <3>2. pending'[i] = pending[n + i]
      BY <1>5
    <3> QED BY <1>1, <2>1, <3>1, <3>2
  <2>4. Len(pending') <= MaxPending
    BY <1>1, <1>2, <1>3, <1>5
  <2> QED BY <1>1, <1>5, <1>6, <1>8, <2>1, <2>2, <2>3, <2>4 DEF Playback, PlaybackOK
<1> QED BY <1>7, <1>8
-----------------------------------------------------------------------------
(* Inv holds at first and is kept by every step.                           *)
LEMMA InvInit == Init => Inv
<1> SUFFICES ASSUME Init PROVE Inv
  OBVIOUS
<1>1. Storage
  <2>1. <<>> \in Seq(Packets) /\ Len(<<>>) = 0
    BY EmptySeq
  <2>2. ASSUME NEW s \in Stores
        PROVE  /\ Len(stores[s]) <= Capacity[s]
               /\ stores[s] = Keeps(s, offered[s])
               /\ s \in overflow <=> Len(offered[s]) > Capacity[s]
    <3>1. stores[s] = <<>> /\ offered[s] = <<>> /\ s \notin overflow
      BY DEF Init
    <3>2. Capacity[s] \in Nat
      BY CapacityPositive
    <3> QED BY <2>1, <3>1, <3>2, KeepsNothing
  <2> QED BY <2>1, <2>2 DEF Init, Storage, StorageOK
<1>2. Playback
  <2>1. pending \in Seq(Entry) /\ Len(pending) = 0 /\ pending = <<>> /\ active = {}
        /\ budget = 0
    BY EmptySeq DEF Init
  <2>2. 0 <= MaxPending
    BY TmDumpAssumption
  <2> QED BY <2>1, <2>2 DEF Playback, PlaybackOK
<1>3. Counters
  <2>1. bootloader \in BOOLEAN
    BY Zenon DEF Init
  <2>2. created = 0 /\ dumps = 0 /\ restores = 0
    BY DEF Init
  <2> QED BY <2>1, <2>2, TmDumpAssumption DEF Counters
<1>4. Backup
  <2>1. saved = Held /\ bootloader \in BOOLEAN
    BY DEF Init
  <2>2. /\ saved.stores = stores /\ saved.recording = recording
        /\ saved.overflow = overflow /\ saved.offered = offered
        /\ saved.pending = pending /\ saved.active = active
        /\ saved.budget = budget /\ saved.bootloader = bootloader
    BY <2>1 DEF Held
  <2> QED BY <1>1, <1>2, <2>1, <2>2 DEF Backup, Storage, Playback
<1> QED BY <1>1, <1>2, <1>3, <1>4 DEF Inv

LEMMA InvNext == Inv /\ [Next]_vars => Inv'
<1> SUFFICES ASSUME Inv, [Next]_vars PROVE Inv'
  OBVIOUS
<1> USE DEF Inv
<1>1. ASSUME NEW s \in Stores, StorePacket(s) PROVE Inv'
  <2>1. Storage'
    BY <1>1, StorePacketStorage DEF Counters
  <2>2. Playback' /\ Backup'
    BY <1>1 DEF StorePacket, dump, Playback, Backup
  <2>3. Counters'
    BY <1>1, TmDumpAssumption DEF StorePacket, bounds, Counters
  <2> QED BY <2>1, <2>2, <2>3
<1>2. ASSUME NEW s \in Stores, SwitchStore(s) PROVE Inv'
  <2>1. Storage'
    BY <1>2 DEF SwitchStore, Storage, StorageOK
  <2>2. Playback' /\ Backup' /\ Counters'
    BY <1>2 DEF SwitchStore, dump, bounds, Playback, Backup, Counters
  <2> QED BY <2>1, <2>2
<1>3. ASSUME NEW s \in Stores, DeleteStore(s) PROVE Inv'
  <2>1. Storage'
    BY <1>3, DeleteStorage DEF DeleteStore, Storage, StorageOK
  <2>2. Playback' /\ Backup' /\ Counters'
    BY <1>3 DEF DeleteStore, dump, bounds, Playback, Backup, Counters
  <2> QED BY <2>1, <2>2
<1>4. ASSUME NEW s \in Stores, StartDump(s) PROVE Inv'
  <2>1. Playback'
    BY <1>4, StartDumpPlayback
  <2>2. Storage' /\ Backup'
    BY <1>4 DEF StartDump, storage, Storage, Backup
  <2>3. Counters'
    BY <1>4, TmDumpAssumption DEF StartDump, Counters
  <2> QED BY <2>1, <2>2, <2>3
<1>5. ASSUME IdleTick PROVE Inv'
  <2>1. Playback'
    BY <1>5 DEF IdleTick, Playback, PlaybackOK
  <2>2. Storage' /\ Backup' /\ Counters'
    BY <1>5 DEF IdleTick, storage, bounds, Storage, Backup, Counters
  <2> QED BY <2>1, <2>2
<1>6. ASSUME NEW gain \in Budgets, EmissionTick(gain) PROVE Inv'
  <2>1. Playback'
    BY <1>6, EmissionPlayback
  <2>2. PICK S : Delete(S)
    BY <1>6 DEF EmissionTick
  <2>3. /\ recording' = recording /\ bootloader' = bootloader
        /\ created' = created /\ bounds' = bounds /\ saved' = saved
    BY <1>6 DEF EmissionTick
  <2>4. Storage'
    BY <2>2, <2>3, DeleteStorage DEF Storage, StorageOK
  <2>5. Backup' /\ Counters'
    BY <2>3 DEF bounds, Backup, Counters
  <2> QED BY <2>1, <2>4, <2>5
<1>7. CASE EnterBootloader
  <2>1. Storage'
    BY <1>7, DeleteStorage DEF EnterBootloader
  <2>2. Playback' /\ Backup' /\ Counters'
    BY <1>7 DEF EnterBootloader, dump, bounds, Playback, Backup, Counters
  <2> QED BY <2>1, <2>2
<1>8. CASE BootApplication
  <2>1. Storage'
    BY <1>8 DEF BootApplication, Storage, StorageOK
  <2>2. Playback' /\ Backup' /\ Counters'
    BY <1>8 DEF BootApplication, dump, bounds, Playback, Backup, Counters
  <2> QED BY <2>1, <2>2
<1>9. CASE SaveBreakpoint
  <2>1. Storage' /\ Playback' /\ Counters'
    BY <1>9 DEF SaveBreakpoint, storage, dump, bounds, Storage, Playback, Counters
  <2>2. saved' = Held
    BY <1>9 DEF SaveBreakpoint
  <2>3. /\ saved'.stores = stores /\ saved'.recording = recording
        /\ saved'.overflow = overflow /\ saved'.offered = offered
        /\ saved'.pending = pending /\ saved'.active = active
        /\ saved'.budget = budget /\ saved'.bootloader = bootloader
    BY <2>2 DEF Held
  <2>4. Backup'
    BY <2>3 DEF Backup, Storage, Playback, Counters
  <2> QED BY <2>1, <2>4
<1>10. CASE LoadBreakpoint
  <2>1. Storage' /\ Playback' /\ Backup'
    BY <1>10 DEF LoadBreakpoint, Backup, Storage, Playback
  <2>2. Counters'
    BY <1>10, TmDumpAssumption DEF LoadBreakpoint, Backup, Counters
  <2> QED BY <2>1, <2>2
<1>11. CASE UNCHANGED vars
  BY <1>11 DEF vars, Storage, Playback, Backup, Counters
<1> QED
  BY <1>1, <1>2, <1>3, <1>4, <1>5, <1>6, <1>7, <1>8, <1>9, <1>10, <1>11
  DEF Next, Tick

(* Inv is all that the three invariants need.                              *)
LEMMA InvImplies == Inv => TypeOK /\ StoreHoldsWhatItShould /\ DumpInProgress
<1> SUFFICES ASSUME Inv PROVE TypeOK /\ StoreHoldsWhatItShould /\ DumpInProgress
  OBVIOUS
<1>1. TypeOK
  BY DEF Inv, Storage, StorageOK, Playback, PlaybackOK, Counters, TypeOK
<1>2. StoreHoldsWhatItShould
  BY DEF Inv, Storage, StorageOK, Keeps, Newest, Oldest, StoreHoldsWhatItShould
<1>3. DumpInProgress
  <2>1. DOMAIN pending = 1 .. Len(pending)
    BY DEF Inv, Playback, PlaybackOK
  <2> QED BY <2>1 DEF Inv, Playback, PlaybackOK, DumpInProgress
<1> QED BY <1>1, <1>2, <1>3

LEMMA InvAlways == Spec => []Inv
BY InvInit, InvNext, PTL DEF Spec
-----------------------------------------------------------------------------
(* The state of storage and playback keeps its type and its limits: no     *)
(* store exceeds its capacity, the dump queue never exceeds                *)
(* MAX_DUMP_PENDING and the byte budget of a tick never goes negative.     *)
THEOREM TypeCorrect == Spec => []TypeOK
BY InvAlways, InvImplies, PTL

(* store_packet_direct, delete_store, the playback and the breakpoints     *)
(* leave in a circular store the newest packets offered since it was       *)
(* cleared and in a linear store the oldest, with the right overflow flag. *)
THEOREM StoresAlwaysRight == Spec => []StoreHoldsWhatItShould
BY InvAlways, InvImplies, PTL

(* queue_dump and _tick_dump_emission agree on what is being dumped:       *)
(* stores are active exactly while packets are pending, and every pending  *)
(* packet is of an active store.                                           *)
THEOREM DumpAlwaysConsistent == Spec => []DumpInProgress
BY InvAlways, InvImplies, PTL

(* A step that moves the queue and empties a store leaves none of the      *)
(* store's packets in the queue.                                           *)
LEMMA ClearedStep ==
  ASSUME Inv, [Next]_vars, NEW s \in Stores,
         pending' # pending, restores' = restores,
         stores[s] # <<>>, stores'[s] = <<>>
  PROVE  \A i \in DOMAIN pending' : pending'[i].sid # s
<1>1. PICK gain \in Budgets : EmissionTick(gain)
  <2>1. CASE \E r \in Stores : StorePacket(r) \/ SwitchStore(r) \/ DeleteStore(r)
    BY <2>1 DEF StorePacket, SwitchStore, DeleteStore, dump
  <2>2. CASE \E r \in Stores : StartDump(r)
    BY <2>2 DEF StartDump, storage
  <2>3. CASE IdleTick \/ EnterBootloader \/ BootApplication \/ SaveBreakpoint
    BY <2>3 DEF IdleTick, EnterBootloader, BootApplication, SaveBreakpoint, dump
  <2>4. CASE LoadBreakpoint
    <3>1. restores \in Nat /\ restores' = restores + 1
      BY <2>4, TmDumpAssumption DEF LoadBreakpoint, Inv, Counters
    <3> QED BY <3>1
  <2>5. CASE UNCHANGED vars
    BY <2>5 DEF vars
  <2> QED BY <2>1, <2>2, <2>3, <2>4, <2>5 DEF Next, Tick
<1>2. PICK n : Delete(Cleared(pending', n))
  BY <1>1 DEF EmissionTick
<1>3. s \in Cleared(pending', n)
  BY <1>2 DEF Delete
<1>4. pending' = <<>>
  BY <1>3 DEF Cleared
<1> QED BY <1>4

(* _tick_dump_emission clears a store only when nothing dumped from it is  *)
(* left to release.                                                        *)
THEOREM AlwaysClearedWhenPlayed == Spec => ClearedWhenPlayed
<1>1. Inv /\ [Next]_vars =>
        [ \A s \in Stores :
            /\ pending' # pending /\ restores' = restores
            /\ stores[s] # <<>> /\ stores'[s] = <<>>
            => \A i \in DOMAIN pending' : pending'[i].sid # s ]_vars
  BY ClearedStep
<1> QED BY <1>1, InvAlways, PTL DEF Spec, ClearedWhenPlayed
=============================================================================
