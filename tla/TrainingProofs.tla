----------------------------- MODULE TrainingProofs -----------------------------
(***************************************************************************)
(* A training session keeps its promises for every set of targets,         *)
(* scenarios and speeds: each model's suffering is on file, a scenario's   *)
(* failures are on the list its end clears, its events fire when their     *)
(* time has come.                                                          *)
(*                                                                         *)
(* What all four need is one invariant of the session, TrainingInv, which  *)
(* holds of the breakpoints on disk as of the session at work: loading one *)
(* preserves it for that reason.  Its part about the world, Tidy, is kept  *)
(* by each event a scenario fires, so by any sequence of them.             *)
(***************************************************************************)
EXTENDS Training, SequenceLemmas, FiniteSetTheorems

(* The values of the world's fields, which the code changes together.      *)
Files == [target : Targets, onset : Onsets, mag : 0 .. Full, on : BOOLEAN,
          elapsed : Nat, dur : Nat, by : Givers]
Filings == UNION {[D -> Files] : D \in SUBSET Fids}
Worlds == [effect : [Targets -> 0 .. Full], failures : Filings,
           injected : SUBSET Fids, speed : Speeds, unowned : SUBSET Targets]

W(e, fs, is, sp, us) ==
  [effect |-> e, failures |-> fs, injected |-> is, speed |-> sp, unowned |-> us]

(* A limited failure on file has time left, and is filed under its own id.  *)
FiledOK(fs) ==
  \A f \in DOMAIN fs : /\ FidOf[fs[f].target] = f
                       /\ fs[f].dur > 0 => fs[f].elapsed < fs[f].dur

OwnedIn(e, fs, us) ==
  \A t \in Targets \ us :
    e[t] > 0 => FidOf[t] \in DOMAIN fs /\ fs[FidOf[t]].target = t

TrackedIn(fs, is) == \A f \in DOMAIN fs : fs[f].by = "scenario" => f \in is
Unscripted(fs) == \A f \in DOMAIN fs : fs[f].by # "scenario"

LEMMA WorldIs ==
  ASSUME NEW w \in Worlds
  PROVE  /\ w = W(w.effect, w.failures, w.injected, w.speed, w.unowned)
         /\ w.effect \in [Targets -> 0 .. Full] /\ w.failures \in Filings
         /\ w.injected \subseteq Fids /\ w.speed \in Speeds /\ w.unowned \subseteq Targets
BY DEF Worlds, W

LEMMA WorldMade ==
  ASSUME NEW e \in [Targets -> 0 .. Full], NEW fs \in Filings, NEW is \in SUBSET Fids,
         NEW sp \in Speeds, NEW us \in SUBSET Targets
  PROVE  /\ W(e, fs, is, sp, us) \in Worlds
         /\ W(e, fs, is, sp, us).effect = e /\ W(e, fs, is, sp, us).failures = fs
         /\ W(e, fs, is, sp, us).injected = is /\ W(e, fs, is, sp, us).speed = sp
         /\ W(e, fs, is, sp, us).unowned = us
BY DEF Worlds, W

LEMMA WIs ==
  ASSUME NEW e, NEW fs, NEW is, NEW sp, NEW us
  PROVE  /\ W(e, fs, is, sp, us).effect = e /\ W(e, fs, is, sp, us).failures = fs
         /\ W(e, fs, is, sp, us).injected = is /\ W(e, fs, is, sp, us).speed = sp
         /\ W(e, fs, is, sp, us).unowned = us
BY DEF W

LEMMA FilingIs ==
  ASSUME NEW fs \in Filings
  PROVE  /\ DOMAIN fs \subseteq Fids /\ \A f \in DOMAIN fs : fs[f] \in Files
BY DEF Filings

LEMMA FilingMade ==
  ASSUME NEW D \in SUBSET Fids, NEW fs, fs = [f \in D |-> fs[f]], \A f \in D : fs[f] \in Files
  PROVE  fs \in Filings /\ DOMAIN fs = D
<1>1. fs \in [D -> Files]
  BY Zenon
<1>2. DOMAIN fs = D
  BY <1>1
<1> QED BY <1>1, <1>2 DEF Filings

LEMMA FileIs ==
  ASSUME NEW r \in Files
  PROVE  /\ r.target \in Targets /\ r.onset \in Onsets /\ r.mag \in 0 .. Full
         /\ r.on \in BOOLEAN /\ r.elapsed \in Nat /\ r.dur \in Nat /\ r.by \in Givers
BY DEF Files

LEMMA NumbersAre ==
  /\ Full \in Nat \ {0} /\ Ramp \in Nat /\ Quantum \in Nat /\ MaxCommands \in Nat
  /\ {DtMax, MaxSubSteps} \subseteq Nat \ {0} /\ Directly \subseteq Targets /\ Speeds \subseteq Nat
  /\ 0 \in Speeds /\ 1 \in Speeds /\ Durations \subseteq Nat
<1>1. {Ramp, Quantum, MaxCommands} \subseteq Nat
  BY TrainingAssumption
<1>2. Ramp \in Nat /\ Quantum \in Nat /\ MaxCommands \in Nat
  BY <1>1
<1> QED BY <1>2, TrainingAssumption

-----------------------------------------------------------------------------
(* Injections.                                                              *)
LEMMA RecordIs ==
  ASSUME NEW t \in Targets, NEW onset \in Onsets, NEW dur \in Nat, NEW by \in Givers
  PROVE  /\ Record(t, onset, dur, by) \in Files
         /\ Record(t, onset, dur, by).target = t /\ Record(t, onset, dur, by).by = by
         /\ Record(t, onset, dur, by).dur = dur /\ Record(t, onset, dur, by).elapsed = 0
BY NumbersAre DEF Record, Files, Onsets

LEMMA FiledIs ==
  ASSUME NEW fs \in Filings, NEW r \in Files
  PROVE  /\ Filed(fs, r) \in Filings
         /\ DOMAIN Filed(fs, r) = DOMAIN fs \cup {FidOf[r.target]}
         /\ Filed(fs, r)[FidOf[r.target]] = r
         /\ \A f \in DOMAIN fs : f # FidOf[r.target] => Filed(fs, r)[f] = fs[f]
<1> DEFINE id == FidOf[r.target] g == Filed(fs, r) D == DOMAIN fs \cup {id}
<1>1. id \in Fids /\ DOMAIN fs \subseteq Fids /\ \A f \in DOMAIN fs : fs[f] \in Files
  BY FileIs, FilingIs DEF Fids
<1>2. g = [f \in D |-> IF f = id THEN r ELSE fs[f]]
  BY DEF Filed
<1> HIDE DEF id, g
<1>3. g = [f \in D |-> g[f]] /\ DOMAIN g = D /\ g[id] = r
      /\ \A f \in DOMAIN fs : f # id => g[f] = fs[f]
  BY <1>2
<1>4. \A f \in D : g[f] \in Files
  BY <1>1, <1>3
<1>5. D \in SUBSET Fids
  BY <1>1
<1>6. g \in Filings
  BY <1>3, <1>4, <1>5, FilingMade
<1> QED BY <1>3, <1>6 DEF g, id

(* Worlds whose fields are these.                                           *)
Only(e, fs, is, sp, us) ==
  [effect : {e}, failures : {fs}, injected : {is}, speed : {sp}, unowned : {us}]

LEMMA OnlyIs ==
  ASSUME NEW e, NEW fs, NEW is, NEW sp, NEW us, NEW w \in Only(e, fs, is, sp, us)
  PROVE  w = W(e, fs, is, sp, us)
BY DEF Only, W

LEMMA ToldTyped ==
  ASSUME NEW e \in [Targets -> 0 .. Full], NEW t \in Targets, NEW level \in 0 .. Full
  PROVE  /\ Told(e, t, level) \in [Targets -> 0 .. Full] /\ Told(e, t, level)[t] = level
         /\ \A u \in Targets \ {t} : Told(e, t, level)[u] = e[u]
BY DEF Told

LEMMA StruckTyped ==
  ASSUME NEW e \in [Targets -> 0 .. Full], NEW t \in Targets, NEW onset
  PROVE  /\ Struck(e, t, onset) \in [Targets -> 0 .. Full]
         /\ \A u \in Targets \ {t} : Struck(e, t, onset)[u] = e[u]
<1>1. Full \in 0 .. Full
  BY NumbersAre
<1> QED BY <1>1, ToldTyped DEF Struck

LEMMA InjectIs ==
  ASSUME NEW w \in Worlds, NEW t, NEW onset, NEW dur, NEW by
  PROVE  Inject(w, t, onset, dur, by) =
           W(Struck(w.effect, t, onset), Filed(w.failures, Record(t, onset, dur, by)),
             w.injected, w.speed, w.unowned \cup Orphaned(w, t))
<1>1. Inject(w, t, onset, dur, by) \in
        Only(Struck(w.effect, t, onset), Filed(w.failures, Record(t, onset, dur, by)),
             w.injected, w.speed, w.unowned \cup Orphaned(w, t))
  BY DEF Inject, Worlds, Only
<1> QED BY <1>1, OnlyIs

(* Injecting leaves every failure on file filed and every effect owned; the *)
(* failure it files is by the giver it is told.                             *)
Good == {w \in Worlds : FiledOK(w.failures) /\ OwnedIn(w.effect, w.failures, w.unowned)}

LEMMA InjectGood ==
  ASSUME NEW w \in Good, NEW t \in Targets, NEW onset \in Onsets, NEW dur \in Nat,
         NEW by \in Givers, NEW q, q = Inject(w, t, onset, dur, by)
  PROVE  /\ q \in Good /\ q.injected = w.injected
         /\ DOMAIN q.failures = DOMAIN w.failures \cup {FidOf[t]}
         /\ q.failures[FidOf[t]].by = by
         /\ \A f \in DOMAIN w.failures : f # FidOf[t] => q.failures[f] = w.failures[f]
<1> DEFINE e == w.effect fs == w.failures us == w.unowned
           e2 == Struck(e, t, onset) r == Record(t, onset, dur, by)
           fs2 == Filed(fs, r) us2 == us \cup Orphaned(w, t)
<1>1. /\ w \in Worlds /\ FiledOK(fs) /\ OwnedIn(e, fs, us)
  BY DEF Good
<1>2. /\ e \in [Targets -> 0 .. Full] /\ fs \in Filings /\ us \subseteq Targets
      /\ w.injected \subseteq Fids /\ w.speed \in Speeds
  BY <1>1, WorldIs
<1>3. q = W(e2, fs2, w.injected, w.speed, us2)
  BY <1>1, InjectIs
<1>4. e2 \in [Targets -> 0 .. Full] /\ \A u \in Targets \ {t} : e2[u] = e[u]
  BY <1>2, StruckTyped
<1>5. r \in Files /\ r.target = t /\ r.by = by /\ r.dur = dur /\ r.elapsed = 0
  BY RecordIs
<1>6. /\ us2 \subseteq Targets /\ us \subseteq us2
      /\ \A u \in Targets \ {t} :
           FidOf[t] \in DOMAIN fs /\ fs[FidOf[t]].target = u /\ e[u] > 0 => u \in us2
  BY <1>2 DEF Orphaned
<1> HIDE DEF e2, r, us2
<1>7. /\ fs2 \in Filings /\ DOMAIN fs2 = DOMAIN fs \cup {FidOf[t]} /\ fs2[FidOf[t]] = r
      /\ \A f \in DOMAIN fs : f # FidOf[t] => fs2[f] = fs[f]
  <2>1. FidOf[r.target] = FidOf[t]
    BY <1>5
  <2> QED BY <1>2, <1>5, <2>1, FiledIs
<1> HIDE DEF e, fs, us, fs2
<1>8. FiledOK(fs2)
  BY <1>1, <1>5, <1>7 DEF FiledOK
<1>9. OwnedIn(e2, fs2, us2)
  <2> SUFFICES ASSUME NEW u \in Targets \ us2, e2[u] > 0
               PROVE  FidOf[u] \in DOMAIN fs2 /\ fs2[FidOf[u]].target = u
    BY DEF OwnedIn
  <2>1. CASE u = t
    BY <1>5, <1>7, <2>1
  <2>2. CASE u # t
    <3>1. e[u] > 0 /\ u \notin us
      BY <1>4, <1>6, <2>2
    <3>2. FidOf[u] \in DOMAIN fs /\ fs[FidOf[u]].target = u
      BY <1>1, <3>1 DEF OwnedIn
    <3>3. FidOf[u] # FidOf[t]
      BY <1>6, <2>2, <3>1, <3>2
    <3> QED BY <1>7, <3>2, <3>3
  <2> QED BY <2>1, <2>2
<1>10. /\ q \in Worlds /\ q.effect = e2 /\ q.failures = fs2 /\ q.unowned = us2
       /\ q.injected = w.injected
  BY <1>2, <1>3, <1>4, <1>6, <1>7, WorldMade
<1>11. q \in Good
  BY <1>8, <1>9, <1>10 DEF Good
<1> QED BY <1>5, <1>7, <1>10, <1>11 DEF fs

-----------------------------------------------------------------------------
(* Clearings.                                                               *)
LEMMA WithoutIs ==
  ASSUME NEW fs \in Filings, NEW fids
  PROVE  /\ Without(fs, fids) \in Filings
         /\ DOMAIN Without(fs, fids) = DOMAIN fs \ fids
         /\ \A f \in DOMAIN fs \ fids : Without(fs, fids)[f] = fs[f]
<1> DEFINE g == Without(fs, fids) D == DOMAIN fs \ fids
<1>1. DOMAIN fs \subseteq Fids /\ \A f \in DOMAIN fs : fs[f] \in Files
  BY FilingIs
<1>2. g = [f \in D |-> fs[f]]
  BY DEF Without
<1> HIDE DEF g
<1>3. g = [f \in D |-> g[f]] /\ DOMAIN g = D /\ \A f \in D : g[f] = fs[f]
  BY <1>2
<1>4. D \in SUBSET Fids /\ \A f \in D : g[f] \in Files
  BY <1>1, <1>3
<1>5. g \in Filings
  BY <1>3, <1>4, FilingMade
<1> QED BY <1>3, <1>5 DEF g

LEMMA RelievedIs ==
  ASSUME NEW w \in Worlds, NEW fids
  PROVE  /\ Relieved(w, fids) \in [Targets -> 0 .. Full]
         /\ \A t \in Targets : Relieved(w, fids)[t] > 0 =>
              /\ w.effect[t] > 0
              /\ \A f \in DOMAIN w.failures : f \in fids => w.failures[f].target # t
<1>1. w.effect \in [Targets -> 0 .. Full] /\ Full \in Nat
  BY WorldIs, NumbersAre
<1>2. 0 \in 0 .. Full
  BY <1>1
<1> QED BY <1>1, <1>2 DEF Relieved

LEMMA ClearIs ==
  ASSUME NEW w \in Worlds, NEW fids
  PROVE  Clear(w, fids) =
           W(Relieved(w, fids), Without(w.failures, fids), w.injected, w.speed, w.unowned)
<1>1. Clear(w, fids) \in
        Only(Relieved(w, fids), Without(w.failures, fids), w.injected, w.speed, w.unowned)
  BY DEF Clear, Worlds, Only
<1> QED BY <1>1, OnlyIs

(* Clearing takes the records of these ids away and nothing else.           *)
LEMMA ClearGood ==
  ASSUME NEW w \in Good, NEW fids, NEW q, q = Clear(w, fids)
  PROVE  /\ q \in Good /\ q.injected = w.injected
         /\ DOMAIN q.failures = DOMAIN w.failures \ fids
         /\ \A f \in DOMAIN w.failures \ fids : q.failures[f] = w.failures[f]
<1> DEFINE fs == w.failures e2 == Relieved(w, fids) fs2 == Without(fs, fids)
<1>1. w \in Worlds /\ FiledOK(fs) /\ OwnedIn(w.effect, fs, w.unowned)
  BY DEF Good
<1>2. /\ fs \in Filings /\ w.unowned \in SUBSET Targets
      /\ w.injected \in SUBSET Fids /\ w.speed \in Speeds
  BY <1>1, WorldIs
<1>3. q = W(e2, fs2, w.injected, w.speed, w.unowned)
  BY <1>1, ClearIs
<1>4. /\ e2 \in [Targets -> 0 .. Full]
      /\ \A t \in Targets : e2[t] > 0 =>
           w.effect[t] > 0 /\ \A f \in DOMAIN fs : f \in fids => fs[f].target # t
  BY <1>1, RelievedIs
<1>5. /\ fs2 \in Filings /\ DOMAIN fs2 = DOMAIN fs \ fids
      /\ \A f \in DOMAIN fs \ fids : fs2[f] = fs[f]
  BY <1>2, WithoutIs
<1> HIDE DEF e2, fs2, fs
<1>6. FiledOK(fs2)
  BY <1>1, <1>5 DEF FiledOK
<1>7. OwnedIn(e2, fs2, w.unowned)
  <2> SUFFICES ASSUME NEW t \in Targets \ w.unowned, e2[t] > 0
               PROVE  FidOf[t] \in DOMAIN fs2 /\ fs2[FidOf[t]].target = t
    BY DEF OwnedIn
  <2>1. w.effect[t] > 0 /\ \A f \in DOMAIN fs : f \in fids => fs[f].target # t
    BY <1>4
  <2>2. FidOf[t] \in DOMAIN fs /\ fs[FidOf[t]].target = t
    BY <1>1, <2>1 DEF OwnedIn
  <2> QED BY <1>5, <2>1, <2>2
<1>8. /\ q \in Worlds /\ q.effect = e2 /\ q.failures = fs2 /\ q.unowned = w.unowned
      /\ q.injected = w.injected
  BY <1>2, <1>3, <1>4, <1>5, WorldMade
<1>9. q \in Good
  BY <1>6, <1>7, <1>8 DEF Good
<1> QED BY <1>5, <1>8, <1>9 DEF fs

-----------------------------------------------------------------------------
(* Ageing.                                                                  *)
LEMMA RampedTyped ==
  ASSUME NEW r \in Files, NEW dt \in Nat PROVE Ramped(r, dt) \in 0 .. Full
<1>1. r.mag \in 0 .. Full /\ Full \in Nat /\ Ramp \in Nat /\ Quantum \in Nat
  BY FileIs, NumbersAre
<1>2. Ramp * dt \in Nat
  BY <1>1
<1> DEFINE more == Ramp * dt
<1> HIDE DEF more
<1>3. AtMost(Full, r.mag + more) \in 0 .. Full
  BY <1>1, <1>2 DEF more, AtMost
<1>4. Ramped(r, dt) \in {AtMost(Full, r.mag + more), r.mag}
  BY DEF Ramped, more
<1> QED BY <1>1, <1>3, <1>4

LEMMA AgedIs ==
  ASSUME NEW f, NEW r \in Files, NEW dt \in Nat, NEW flips, NEW q, q = Aged(f, r, dt, flips)
  PROVE  /\ q \in Files /\ q.target = r.target /\ q.dur = r.dur /\ q.by = r.by
         /\ q.dur > 0 => q.elapsed = r.elapsed + dt
<1> DEFINE el == IF r.dur > 0 THEN r.elapsed + dt ELSE 0
           mg == IF r.onset = "gradual" THEN Ramped(r, dt) ELSE r.mag
           on == IF f \in flips THEN ~r.on ELSE r.on
<1>1. /\ r.target \in Targets /\ r.onset \in Onsets /\ r.mag \in 0 .. Full
      /\ r.on \in BOOLEAN /\ r.elapsed \in Nat /\ r.dur \in Nat /\ r.by \in Givers
  BY FileIs
<1>2. el \in Nat /\ (r.dur > 0 => el = r.elapsed + dt)
  BY <1>1
<1>3. mg \in 0 .. Full
  BY <1>1, RampedTyped
<1>4. on \in BOOLEAN
  <2>1. (~r.on) \in BOOLEAN
    BY Zenon
  <2> QED BY <1>1, <2>1, Zenon
<1>5. q = [r EXCEPT !.elapsed = el, !.mag = mg, !.on = on]
  BY Zenon DEF Aged
<1> HIDE DEF el, mg, on
<1>6. q \in [target : {r.target}, onset : {r.onset}, mag : {mg}, on : {on},
             elapsed : {el}, dur : {r.dur}, by : {r.by}]
  BY <1>5 DEF Files
<1> QED BY <1>1, <1>2, <1>3, <1>4, <1>6 DEF Files

LEMMA GrownIs ==
  ASSUME NEW fs \in Filings, NEW dt \in Nat, NEW flips, NEW g, g = Grown(fs, dt, flips)
  PROVE  /\ g \in Filings /\ DOMAIN g = DOMAIN fs
         /\ \A f \in DOMAIN fs :
              /\ g[f] \in Files /\ g[f].target = fs[f].target /\ g[f].by = fs[f].by
              /\ g[f].dur = fs[f].dur
              /\ g[f].dur > 0 => g[f].elapsed = fs[f].elapsed + dt
<1>1. DOMAIN fs \subseteq Fids /\ \A f \in DOMAIN fs : fs[f] \in Files
  BY FilingIs
<1>2. g = [f \in DOMAIN fs |-> Aged(f, fs[f], dt, flips)]
  BY DEF Grown
<1>3. g = [f \in DOMAIN fs |-> g[f]] /\ DOMAIN g = DOMAIN fs
      /\ \A f \in DOMAIN fs : g[f] = Aged(f, fs[f], dt, flips)
  BY <1>2
<1>4. \A f \in DOMAIN fs :
        /\ g[f] \in Files /\ g[f].target = fs[f].target /\ g[f].by = fs[f].by
        /\ g[f].dur = fs[f].dur
        /\ g[f].dur > 0 => g[f].elapsed = fs[f].elapsed + dt
  BY <1>1, <1>3, AgedIs
<1>5. g \in Filings
  BY <1>1, <1>3, <1>4, FilingMade
<1> QED BY <1>3, <1>4, <1>5

LEMMA WornIs ==
  ASSUME NEW e \in [Targets -> 0 .. Full], NEW fs \in Filings, NEW g \in Filings,
         DOMAIN g = DOMAIN fs, NEW q, q = Worn(e, fs, g)
  PROVE  /\ q \in [Targets -> 0 .. Full]
         /\ \A t \in Targets :
              ~(FidOf[t] \in DOMAIN fs /\ fs[FidOf[t]].target = t) => q[t] = e[t]
<1>1. Full \in 0 .. Full /\ 0 \in 0 .. Full /\ \A f \in DOMAIN g : g[f].mag \in 0 .. Full
  BY NumbersAre, FilingIs, FileIs
<1>2. ASSUME NEW t \in Targets, FidOf[t] \in DOMAIN fs
      PROVE  Suffered(e[t], fs[FidOf[t]], g[FidOf[t]]) \in 0 .. Full
  BY <1>1, <1>2 DEF Suffered
<1> QED BY <1>2 DEF Worn

LEMMA OlderIs ==
  ASSUME NEW w \in Worlds, NEW dt, NEW flips
  PROVE  Older(w, dt, flips) =
           W(Worn(w.effect, w.failures, Grown(w.failures, dt, flips)),
             Grown(w.failures, dt, flips), w.injected, w.speed, w.unowned)
<1>1. Older(w, dt, flips) \in
        Only(Worn(w.effect, w.failures, Grown(w.failures, dt, flips)),
             Grown(w.failures, dt, flips), w.injected, w.speed, w.unowned)
  BY DEF Older, Worlds, Only
<1> QED BY <1>1, OnlyIs

(* Ageing keeps the records; those that are left after a clearing of what   *)
(* expires have time left.                                                  *)
LEMMA OlderGood ==
  ASSUME NEW w \in Good, NEW dt \in Nat, NEW flips, NEW q, q = Older(w, dt, flips),
         \A f \in DOMAIN w.failures :
           w.failures[f].dur > 0 => w.failures[f].elapsed + dt < w.failures[f].dur
  PROVE  /\ q \in Good /\ q.injected = w.injected
         /\ DOMAIN q.failures = DOMAIN w.failures
         /\ \A f \in DOMAIN w.failures : q.failures[f].by = w.failures[f].by
<1> DEFINE fs == w.failures g == Grown(fs, dt, flips) e2 == Worn(w.effect, fs, g)
<1>1. w \in Worlds /\ FiledOK(fs) /\ OwnedIn(w.effect, fs, w.unowned)
  BY DEF Good
<1>2. /\ w.effect \in [Targets -> 0 .. Full] /\ fs \in Filings
      /\ w.unowned \in SUBSET Targets /\ w.injected \in SUBSET Fids /\ w.speed \in Speeds
  BY <1>1, WorldIs
<1>3. q = W(e2, g, w.injected, w.speed, w.unowned)
  BY <1>1, OlderIs
<1>4. /\ g \in Filings /\ DOMAIN g = DOMAIN fs
      /\ \A f \in DOMAIN fs :
           /\ g[f] \in Files /\ g[f].target = fs[f].target /\ g[f].by = fs[f].by
           /\ g[f].dur = fs[f].dur
           /\ g[f].dur > 0 => g[f].elapsed = fs[f].elapsed + dt
  BY <1>2, GrownIs
<1> HIDE DEF g
<1>5. /\ e2 \in [Targets -> 0 .. Full]
      /\ \A t \in Targets :
           ~(FidOf[t] \in DOMAIN fs /\ fs[FidOf[t]].target = t) => e2[t] = w.effect[t]
  BY <1>2, <1>4, WornIs
<1> HIDE DEF e2
<1>6. FiledOK(g)
  BY <1>1, <1>4 DEF FiledOK
<1>7. OwnedIn(e2, g, w.unowned)
  <2> SUFFICES ASSUME NEW t \in Targets \ w.unowned, e2[t] > 0
               PROVE  FidOf[t] \in DOMAIN fs /\ fs[FidOf[t]].target = t
    BY <1>4 DEF OwnedIn
  <2> QED BY <1>1, <1>5 DEF OwnedIn
<1>8. /\ q \in Worlds /\ q.effect = e2 /\ q.failures = g /\ q.unowned = w.unowned
      /\ q.injected = w.injected
  BY <1>2, <1>3, <1>4, <1>5, WorldMade
<1>9. q \in Good
  BY <1>6, <1>7, <1>8 DEF Good
<1> QED BY <1>4, <1>8, <1>9

-----------------------------------------------------------------------------
(* What is tracked: a failure the running scenario injected.                *)
Tidy == {w \in Good : TrackedIn(w.failures, w.injected)}

LEMMA InjectTidy ==
  ASSUME NEW w \in Tidy, NEW t \in Targets, NEW onset \in Onsets, NEW dur \in Nat,
         NEW q, q = Inject(w, t, onset, dur, "instructor")
  PROVE  q \in Tidy /\ (Unscripted(w.failures) => Unscripted(q.failures))
<1>1. w \in Good /\ TrackedIn(w.failures, w.injected) /\ "instructor" \in Givers
  BY DEF Tidy, Givers
<1>2. /\ q \in Good /\ q.injected = w.injected
      /\ DOMAIN q.failures = DOMAIN w.failures \cup {FidOf[t]}
      /\ q.failures[FidOf[t]].by = "instructor"
      /\ \A f \in DOMAIN w.failures : f # FidOf[t] => q.failures[f] = w.failures[f]
  BY <1>1, InjectGood
<1>3. TrackedIn(q.failures, q.injected)
  BY <1>1, <1>2 DEF TrackedIn
<1>4. Unscripted(w.failures) => Unscripted(q.failures)
  BY <1>2 DEF Unscripted
<1> QED BY <1>2, <1>3, <1>4 DEF Tidy

LEMMA ClearTidy ==
  ASSUME NEW w \in Tidy, NEW fids, NEW q, q = Clear(w, fids)
  PROVE  q \in Tidy /\ (Unscripted(w.failures) => Unscripted(q.failures))
<1>1. w \in Good /\ TrackedIn(w.failures, w.injected)
  BY DEF Tidy
<1>2. /\ q \in Good /\ q.injected = w.injected
      /\ DOMAIN q.failures = DOMAIN w.failures \ fids
      /\ \A f \in DOMAIN w.failures \ fids : q.failures[f] = w.failures[f]
  BY <1>1, ClearGood
<1>3. TrackedIn(q.failures, q.injected)
  BY <1>1, <1>2 DEF TrackedIn
<1>4. Unscripted(w.failures) => Unscripted(q.failures)
  BY <1>2 DEF Unscripted
<1> QED BY <1>2, <1>3, <1>4 DEF Tidy

(* FailureManager.tick: nothing outlives its duration.                      *)
LEMMA AgeingTidy ==
  ASSUME NEW w \in Tidy, NEW dt \in Nat, NEW flips, NEW c, c = Clear(w, Expired(w, dt)),
         NEW q, q = Older(c, dt, flips)
  PROVE  q \in Tidy /\ (Unscripted(w.failures) => Unscripted(q.failures))
<1>1. w \in Good /\ c \in Tidy /\ (Unscripted(w.failures) => Unscripted(c.failures))
  BY ClearTidy DEF Tidy
<1>2. c \in Good /\ TrackedIn(c.failures, c.injected)
  BY <1>1 DEF Tidy
<1>3. /\ DOMAIN c.failures = DOMAIN w.failures \ Expired(w, dt)
      /\ \A f \in DOMAIN w.failures \ Expired(w, dt) : c.failures[f] = w.failures[f]
  BY <1>1, ClearGood
<1>4. \A f \in DOMAIN w.failures : w.failures[f].dur \in Nat /\ w.failures[f].elapsed \in Nat
  BY <1>1, WorldIs, FilingIs, FileIs DEF Good
<1>5. ASSUME NEW f \in DOMAIN c.failures, c.failures[f].dur > 0
      PROVE  c.failures[f].elapsed + dt < c.failures[f].dur
  <2>1. f \in DOMAIN w.failures /\ f \notin Expired(w, dt)
        /\ c.failures[f] = w.failures[f]
    BY <1>3
  <2>2. ~(w.failures[f].elapsed + dt >= w.failures[f].dur)
    BY <1>5, <2>1 DEF Expired
  <2> QED BY <1>4, <2>1, <2>2
<1>6. /\ q \in Good /\ q.injected = c.injected /\ DOMAIN q.failures = DOMAIN c.failures
      /\ \A f \in DOMAIN c.failures : q.failures[f].by = c.failures[f].by
  BY <1>2, <1>5, OlderGood
<1>7. TrackedIn(q.failures, q.injected)
  BY <1>2, <1>6 DEF TrackedIn
<1>8. Unscripted(c.failures) => Unscripted(q.failures)
  BY <1>6 DEF Unscripted
<1> QED BY <1>1, <1>6, <1>7, <1>8 DEF Tidy

-----------------------------------------------------------------------------
(* Scenarios.                                                               *)
LEMMA FireTidy ==
  ASSUME NEW w \in Tidy, NEW e, EventOK(e), NEW q, q = Fire(w, e)
  PROVE  q \in Tidy
<1>1. w \in Good /\ w \in Worlds /\ TrackedIn(w.failures, w.injected)
  BY DEF Tidy, Good
<1>2. e.target \in Targets /\ e.onset \in Onsets /\ e.dur \in Nat
  BY DEF EventOK
<1>3. CASE e.action = "inject"
  <2> DEFINE id == FidOf[e.target] v == Inject(w, e.target, e.onset, e.dur, "scenario")
  <2>1. /\ v \in Good /\ v.injected = w.injected
        /\ DOMAIN v.failures = DOMAIN w.failures \cup {id}
        /\ \A f \in DOMAIN w.failures : f # id => v.failures[f] = w.failures[f]
    <3>1. "scenario" \in Givers
      BY DEF Givers
    <3> QED BY <1>1, <1>2, <3>1, InjectGood
  <2>2. q = [v EXCEPT !.injected = @ \cup {id}]
    BY <1>3, Zenon DEF Fire
  <2> HIDE DEF v
  <2>3. /\ v \in Worlds /\ id \in Fids /\ FiledOK(v.failures)
        /\ OwnedIn(v.effect, v.failures, v.unowned)
    BY <1>2, <2>1 DEF Good, Fids
  <2>4. v.effect \in [Targets -> 0 .. Full] /\ v.failures \in Filings
        /\ v.injected \in SUBSET Fids /\ v.speed \in Speeds /\ v.unowned \in SUBSET Targets
    BY <2>3, WorldIs
  <2> HIDE DEF id
  <2>5. q = W(v.effect, v.failures, v.injected \cup {id}, v.speed, v.unowned)
    <3>1. q \in Only(v.effect, v.failures, v.injected \cup {id}, v.speed, v.unowned)
      BY <2>2, <2>3 DEF Worlds, Only
    <3> QED BY <3>1, OnlyIs
  <2>6. /\ q \in Worlds /\ q.effect = v.effect /\ q.failures = v.failures
        /\ q.unowned = v.unowned /\ q.injected = v.injected \cup {id}
    <3>1. v.injected \cup {id} \in SUBSET Fids
      BY <2>3, <2>4
    <3> QED BY <2>4, <2>5, <3>1, WorldMade
  <2>7. TrackedIn(q.failures, q.injected)
    BY <1>1, <2>1, <2>6 DEF TrackedIn
  <2>8. q \in Good
    BY <2>3, <2>6 DEF Good
  <2> QED BY <2>7, <2>8 DEF Tidy
<1>4. CASE e.action = "clear"
  <2>1. q = Clear(w, {FidOf[e.target]})
    BY <1>4, Zenon DEF Fire
  <2> QED BY <2>1, ClearTidy
<1>5. CASE e.action = "clear_all"
  <2>1. q = Clear(w, Fids)
    BY <1>5, Zenon DEF Fire
  <2> QED BY <2>1, ClearTidy
<1>6. CASE e.action = "set_speed"
  <2>1. q = [w EXCEPT !.speed = e.value] /\ e.value \in Speeds
    BY <1>6 DEF Fire, EventOK
  <2>2. q \in Only(w.effect, w.failures, w.injected, e.value, w.unowned)
    BY <1>1, <2>1 DEF Worlds, Only
  <2>3. q = W(w.effect, w.failures, w.injected, e.value, w.unowned)
    BY <2>2, OnlyIs
  <2>4. /\ q \in Worlds /\ q.effect = w.effect /\ q.failures = w.failures
        /\ q.unowned = w.unowned /\ q.injected = w.injected
    BY <1>1, <2>1, <2>3, WorldIs, WorldMade
  <2> QED BY <1>1, <2>4 DEF Tidy, Good
<1>7. CASE e.action \notin {"inject", "clear", "clear_all", "set_speed"}
  BY <1>7 DEF Fire
<1> QED BY <1>3, <1>4, <1>5, <1>6, <1>7

LEMMA FireAllTidy ==
  ASSUME NEW w \in Tidy, NEW S, NEW es \in Seq(S), \A e \in S : EventOK(e),
         NEW q, q = FireAll(w, es)
  PROVE  q \in Tidy
<1> DEFINE n == Len(es)
           After(t) == t = [i \in 0 .. n |-> IF i = 0 THEN w ELSE Fire(t[i - 1], es[i])]
           t == CHOOSE t : After(t)
           G == [p \in (1 .. n) \X Tidy |-> Fire(p[2], es[p[1]])]
<1>1. n \in Nat /\ \A i \in 1 .. n : EventOK(es[i])
  OBVIOUS
<1>2. q = t[n]
  BY Zenon DEF FireAll
<1>3. \A x \in Tidy : \A i \in 1 .. n : Fire(x, es[i]) \in Tidy
  BY <1>1, FireTidy
<1> HIDE DEF n
<1>4. G \in [(1 .. n) \X Tidy -> Tidy]
  BY <1>3
<1>5. \A i \in 1 .. n, x \in Tidy : G[<<i, x>>] = Fire(x, es[i])
  OBVIOUS
<1> HIDE DEF G
<1>6. \E u : After(u)
  <2>1. PICK u \in [0 .. n -> Tidy] : Stepwise(w, n, G, u)
    BY <1>1, <1>4, RecursionIn
  <2>2. ASSUME NEW i \in 0 .. n
        PROVE  u[i] = IF i = 0 THEN w ELSE Fire(u[i - 1], es[i])
    <3>1. CASE i = 0
      BY <2>1, <3>1 DEF Stepwise
    <3>2. CASE i # 0
      <4>1. i \in 1 .. n /\ i - 1 \in 0 .. n
        BY <1>1, <3>2
      <4>2. u[i - 1] \in Tidy /\ u[i] = G[<<i, u[i - 1]>>]
        BY <2>1, <4>1 DEF Stepwise
      <4> QED BY <1>5, <3>2, <4>1, <4>2
    <3> QED BY <3>1, <3>2
  <2> QED BY <2>2
<1>7. After(t)
  BY <1>6, Zenon
<1> HIDE DEF t
<1>8. t[0] = w /\ \A i \in 1 .. n : t[i] = Fire(t[i - 1], es[i])
  BY <1>1, <1>7
<1>9. ASSUME NEW i \in 1 .. n, t[i - 1] \in Tidy PROVE t[i] \in Tidy
  BY <1>3, <1>8, <1>9, Zenon
<1>10. t[0] \in Tidy
  BY <1>8
<1>11. \A i \in 0 .. n : t[i] \in Tidy
  BY <1>1, <1>9, <1>10, PassedOn
<1> QED BY <1>1, <1>2, <1>11

(* The end of a scenario leaves no failure of it; a start drops its claim.  *)
LEMMA FinishedTidy ==
  ASSUME NEW w \in Tidy, NEW q, q = Finished(w)
  PROVE  q \in Tidy /\ Unscripted(q.failures)
<1> DEFINE c == Clear(w, w.injected)
<1>1. w \in Good /\ TrackedIn(w.failures, w.injected) /\ c \in Tidy
  BY ClearTidy DEF Tidy
<1>2. c \in Good /\ c \in Worlds /\ DOMAIN c.failures = DOMAIN w.failures \ w.injected
      /\ \A f \in DOMAIN w.failures \ w.injected : c.failures[f] = w.failures[f]
  BY <1>1, ClearGood DEF Good
<1>3. q = [c EXCEPT !.injected = {}]
  BY Zenon DEF Finished
<1> HIDE DEF c
<1>4. q \in Only(c.effect, c.failures, {}, c.speed, c.unowned)
  BY <1>2, <1>3 DEF Worlds, Only
<1>5. q = W(c.effect, c.failures, {}, c.speed, c.unowned)
  BY <1>4, OnlyIs
<1>6. /\ q \in Worlds /\ q.effect = c.effect /\ q.failures = c.failures
      /\ q.unowned = c.unowned /\ q.injected = {}
  <2>1. {} \in SUBSET Fids
    OBVIOUS
  <2> QED BY <1>2, <1>5, <2>1, WorldIs, WorldMade
<1>7. Unscripted(q.failures)
  BY <1>1, <1>2, <1>6 DEF TrackedIn, Unscripted
<1>8. TrackedIn(q.failures, q.injected)
  BY <1>7 DEF TrackedIn, Unscripted
<1>9. q \in Good
  BY <1>2, <1>6 DEF Good
<1> QED BY <1>7, <1>8, <1>9 DEF Tidy

LEMMA DroppedIs ==
  ASSUME NEW r \in Files
  PROVE  /\ Dropped(r) \in Files /\ Dropped(r).by # "scenario"
         /\ Dropped(r).target = r.target /\ Dropped(r).dur = r.dur
         /\ Dropped(r).elapsed = r.elapsed
<1>1. "dropped" \in Givers
  BY DEF Givers
<1> QED BY <1>1 DEF Dropped, Files

LEMMA ForgottenTidy ==
  ASSUME NEW w \in Tidy, NEW q, q = Forgotten(w)
  PROVE  q \in Tidy
<1> DEFINE g == AllDropped(w.failures)
<1>1. /\ w \in Worlds /\ FiledOK(w.failures) /\ OwnedIn(w.effect, w.failures, w.unowned)
  BY DEF Tidy, Good
<1>2. /\ w.effect \in [Targets -> 0 .. Full] /\ w.failures \in Filings
      /\ w.speed \in Speeds /\ w.unowned \in SUBSET Targets
  BY <1>1, WorldIs
<1>3. DOMAIN w.failures \subseteq Fids /\ \A f \in DOMAIN w.failures : w.failures[f] \in Files
  BY <1>2, FilingIs
<1>4. g = [f \in DOMAIN w.failures |-> Dropped(w.failures[f])]
  BY DEF AllDropped
<1>5. q = [w EXCEPT !.injected = {}, !.failures = g]
  BY Zenon DEF Forgotten
<1> HIDE DEF g
<1>6. g = [f \in DOMAIN w.failures |-> g[f]] /\ DOMAIN g = DOMAIN w.failures
      /\ \A f \in DOMAIN w.failures : g[f] = Dropped(w.failures[f])
  BY <1>4
<1>7. \A f \in DOMAIN w.failures :
        /\ g[f] \in Files /\ g[f].by # "scenario" /\ g[f].target = w.failures[f].target
        /\ g[f].dur = w.failures[f].dur /\ g[f].elapsed = w.failures[f].elapsed
  BY <1>3, <1>6, DroppedIs
<1>8. g \in Filings
  BY <1>3, <1>6, <1>7, FilingMade
<1>9. q \in Only(w.effect, g, {}, w.speed, w.unowned)
  BY <1>1, <1>5 DEF Worlds, Only
<1>10. q = W(w.effect, g, {}, w.speed, w.unowned)
  BY <1>9, OnlyIs
<1>11. /\ q \in Worlds /\ q.effect = w.effect /\ q.failures = g
       /\ q.unowned = w.unowned /\ q.injected = {}
  <2>1. {} \in SUBSET Fids
    OBVIOUS
  <2> QED BY <1>2, <1>8, <1>10, <2>1, WorldMade
<1>12. FiledOK(g)
  BY <1>1, <1>6, <1>7 DEF FiledOK
<1>13. OwnedIn(w.effect, g, w.unowned)
  BY <1>1, <1>6, <1>7 DEF OwnedIn
<1>14. TrackedIn(g, {})
  BY <1>6, <1>7 DEF TrackedIn
<1> QED BY <1>11, <1>12, <1>13, <1>14 DEF Tidy, Good

-----------------------------------------------------------------------------
(* The session, at work or in a breakpoint: its world is tidy, no failure   *)
(* is left of a scenario that is over, the timed events that have fired are *)
(* those whose time has come.                                               *)
OnTime(es, el, fi) ==
  \A i \in DOMAIN es :
    ~es[i].cond => /\ i \in fi => el >= es[i].at
                   /\ el > 0 /\ el >= es[i].at => i \in fi

Progress(a, el, fi) ==
  /\ el \in 0 .. Scenarios[a].duration - 1
  /\ fi \subseteq DOMAIN Scenarios[a].events
  /\ OnTime(Scenarios[a].events, el, fi)

SessionOK(w, a, el, fi) ==
  /\ w \in Tidy /\ a \in {NoScenario} \cup DOMAIN Scenarios
  /\ a = NoScenario => Unscripted(w.failures)
  /\ a # NoScenario => Progress(a, el, fi)

TrainingInv ==
  /\ SessionOK(World, active, elapsed, fired)
  /\ \A s \in saved : SessionOK(s.world, s.active, s.elapsed, s.fired)
  /\ outer \in Speeds /\ left \in 0 .. SubSteps(outer)
  /\ Cardinality(saved) <= 1 /\ commands \in 0 .. MaxCommands

LEMMA SubStepsPositive == ASSUME NEW s \in Speeds PROVE SubSteps(s) \in Nat \ {0}
<1>1. s \in Nat /\ DtMax \in Nat \ {0} /\ MaxSubSteps \in Nat \ {0}
  BY NumbersAre
<1>2. ASSUME NEW a \in Nat, NEW b \in Nat \ {0}, a >= b PROVE a \div b \in Nat \ {0}
  <2>1. a \div b \in Int /\ a \div b >= 1
    BY <1>2
  <2> QED BY <2>1
<1>3. CASE s > DtMax
  <2>1. s + DtMax - 1 \in Nat /\ s + DtMax - 1 >= DtMax
    BY <1>1, <1>3
  <2> DEFINE n == (s + DtMax - 1) \div DtMax
  <2>2. n \in Nat \ {0}
    BY <1>1, <1>2, <2>1
  <2>3. SubSteps(s) = AtMost(n, MaxSubSteps)
    BY <1>3 DEF SubSteps
  <2> HIDE DEF n
  <2> QED BY <1>1, <2>2, <2>3 DEF AtMost
<1>4. CASE ~(s > DtMax)
  BY <1>4 DEF SubSteps
<1> QED BY <1>3, <1>4

LEMMA ScenarioIs ==
  ASSUME NEW n \in DOMAIN Scenarios
  PROVE  /\ n # NoScenario /\ Scenarios[n].duration \in Nat \ {0}
         /\ Scenarios[n].events \in Seq(Range(Scenarios[n].events))
         /\ Scenarios[n].initial \in Seq(Range(Scenarios[n].initial))
         /\ \A e \in Range(Scenarios[n].events) : EventOK(e)
         /\ \A e \in Range(Scenarios[n].initial) : EventOK(e)
         /\ \A i \in DOMAIN Scenarios[n].events :
              /\ EventOK(Scenarios[n].events[i])
              /\ Scenarios[n].events[i].at # Never \/ Scenarios[n].events[i].cond
<1>1. ScenarioOK(Scenarios[n]) /\ n # NoScenario
  BY TrainingAssumption
<1>2. \A i \in DOMAIN Scenarios[n].events :
        Scenarios[n].events[i] \in Range(Scenarios[n].events)
  BY DEF Range
<1> QED BY <1>1, <1>2 DEF ScenarioOK

(* A world the state becomes.                                               *)
LEMMA BecomeIs ==
  ASSUME NEW w \in Tidy, effect' = w.effect, failures' = w.failures,
         injected' = w.injected, speed' = w.speed, unowned' = w.unowned
  PROVE  World' = w
<1>1. w = W(w.effect, w.failures, w.injected, w.speed, w.unowned)
  BY WorldIs DEF Tidy, Good
<1> QED BY <1>1 DEF World, W

LEMMA WorldSame == ASSUME UNCHANGED session PROVE World' = World
BY DEF World, session

LEMMA WorldHas ==
  /\ World.effect = effect /\ World.failures = failures /\ World.injected = injected
  /\ World.speed = speed /\ World.unowned = unowned
BY DEF World

(* The parts of a step's proof: what stays.                                 *)
LEMMA InvMade ==
  ASSUME TrainingInv, saved' = saved, SessionOK(World', active', elapsed', fired'),
         outer' \in Speeds, left' \in 0 .. SubSteps(outer'), commands' \in 0 .. MaxCommands
  PROVE  TrainingInv'
BY DEF TrainingInv

LEMMA CommandKeeps ==
  ASSUME TrainingInv, Command
  PROVE  /\ outer' \in Speeds /\ left' \in 0 .. SubSteps(outer')
         /\ commands' \in 0 .. MaxCommands
BY NumbersAre DEF TrainingInv, Command, Bounded

(* A command that changes the world only.                                   *)
LEMMA CommandDone ==
  ASSUME TrainingInv, Command, NEW w \in Tidy,
         Unscripted(failures) => Unscripted(w.failures),
         effect' = w.effect, failures' = w.failures, injected' = w.injected,
         speed' = w.speed, unowned' = w.unowned,
         UNCHANGED <<active, elapsed, fired, saved>>
  PROVE  TrainingInv'
<1>1. World' = w
  BY BecomeIs
<1>2. SessionOK(World, active, elapsed, fired) /\ World.failures = failures
  BY WorldHas DEF TrainingInv
<1>3. SessionOK(w, active, elapsed, fired)
  BY <1>2 DEF SessionOK
<1>4. SessionOK(World', active', elapsed', fired')
  BY <1>1, <1>3
<1> QED BY <1>4, CommandKeeps, InvMade

LEMMA FreshTidy == Fresh \in Tidy /\ Unscripted(Fresh.failures)
<1>1. [t \in Targets |-> 0] \in [Targets -> 0 .. Full]
  BY NumbersAre
<1>2. << >> \in Filings /\ DOMAIN << >> = {}
  <2>1. << >> \in [{} -> Files]
    OBVIOUS
  <2> QED BY <2>1 DEF Filings
<1>3. Fresh = W([t \in Targets |-> 0], << >>, {}, 1, {})
  BY Zenon DEF Fresh, W
<1> DEFINE zero == [t \in Targets |-> 0]
<1>4. \A t \in Targets : zero[t] = 0
  OBVIOUS
<1> HIDE DEF zero
<1>5. /\ Fresh \in Worlds /\ Fresh.effect = zero /\ Fresh.failures = << >>
      /\ Fresh.injected = {} /\ Fresh.unowned = {}
  <2>1. {} \in SUBSET Fids /\ {} \in SUBSET Targets /\ 1 \in Speeds
    BY NumbersAre
  <2> QED BY <1>1, <1>2, <1>3, <2>1, WorldMade DEF zero
<1>6. Unscripted(<< >>) /\ FiledOK(<< >>) /\ TrackedIn(<< >>, {})
  BY <1>2 DEF Unscripted, FiledOK, TrackedIn
<1>7. OwnedIn(zero, << >>, {})
  BY <1>4 DEF OwnedIn
<1> QED BY <1>5, <1>6, <1>7 DEF Tidy, Good

-----------------------------------------------------------------------------
LEMMA InvInit == Init => TrainingInv
<1> SUFFICES ASSUME Init PROVE TrainingInv
  OBVIOUS
<1>1. World = Fresh
  <2>1. /\ effect = Fresh.effect /\ failures = Fresh.failures /\ injected = {} /\ speed = 1
        /\ unowned = {}
    BY Zenon DEF Init
  <2>2. Fresh = W(Fresh.effect, Fresh.failures, {}, 1, {})
    BY DEF Fresh, W
  <2> QED BY <2>1, <2>2, Zenon DEF World, W
<1>2. active = NoScenario /\ saved = {} /\ outer = 1 /\ left = 0 /\ commands = 0
  BY DEF Init
<1>3. SessionOK(World, active, elapsed, fired)
  BY <1>1, <1>2, FreshTidy DEF SessionOK
<1>4. 1 \in Speeds /\ MaxCommands \in Nat /\ SubSteps(1) \in Nat
  BY NumbersAre, SubStepsPositive
<1>5. Cardinality({}) = 0
  BY FS_EmptySet
<1> QED BY <1>2, <1>3, <1>4, <1>5 DEF TrainingInv

(* BeginTick cuts the time of the tick; nothing else changes.               *)
LEMMA BeginTickInv == ASSUME TrainingInv, BeginTick PROVE TrainingInv'
<1>1. left' = SubSteps(outer) /\ UNCHANGED <<session, outer, saved, commands>>
  BY DEF BeginTick
<1>2. SessionOK(World, active, elapsed, fired)
  BY DEF TrainingInv
<1>3. outer \in Speeds
  BY DEF TrainingInv
<1>4. outer' \in Speeds /\ left' \in 0 .. SubSteps(outer')
  BY <1>1, <1>3, SubStepsPositive
<1>5. World' = World /\ active' = active /\ elapsed' = elapsed /\ fired' = fired
  BY <1>1, WorldSame DEF session
<1>6. SessionOK(World', active', elapsed', fired')
  BY <1>2, <1>5
<1>7. saved' = saved /\ commands' \in 0 .. MaxCommands
  BY <1>1 DEF TrainingInv
<1> QED BY <1>4, <1>6, <1>7, InvMade

(* FailuresTick leads to a tidy world.                                      *)
LEMMA FailuresTickIs ==
  ASSUME NEW w \in Tidy, NEW dt \in Nat, NEW flips, FailuresTick(w, dt, flips)
  PROVE  World' \in Tidy /\ (Unscripted(w.failures) => Unscripted(World'.failures))
<1> DEFINE c == Clear(w, Expired(w, dt)) q == Older(c, dt, flips)
<1>1. q \in Tidy /\ (Unscripted(w.failures) => Unscripted(q.failures))
  BY AgeingTidy
<1>2. /\ effect' = q.effect /\ failures' = q.failures /\ injected' = q.injected
      /\ speed' = q.speed /\ unowned' = q.unowned
  BY DEF FailuresTick, Become
<1> HIDE DEF q
<1>3. World' = q
  BY <1>1, <1>2, BecomeIs
<1> QED BY <1>1, <1>3

(* The events that are due when the time is reached, and those before.      *)
LEMMA DueOnTime ==
  ASSUME Running, active \in DOMAIN Scenarios, Progress(active, elapsed, fired),
         outer \in Nat, NEW time, time = elapsed + outer, NEW holding,
         NEW due, due = DueEvents(time, holding)
  PROVE  /\ due \subseteq DOMAIN Events
         /\ OnTime(Events, time, fired \cup due)
<1>1. /\ elapsed \in Nat /\ fired \subseteq DOMAIN Events /\ OnTime(Events, elapsed, fired)
  BY ScenarioIs DEF Progress, Events
<1>2. \A i \in DOMAIN Events :
        /\ Events[i].at \in Nat \cup {Never}
        /\ ~Events[i].cond => Events[i].at # Never
  BY ScenarioIs DEF Events, EventOK
<1> HIDE DEF Events
<1>3. \A i \in DOMAIN Events : ~Events[i].cond => Events[i].at \in Nat
  BY <1>2
<1>4. \A i \in DOMAIN Events :
        ~Events[i].cond => (i \in fired \cup due <=> i \in fired \/ time >= Events[i].at)
  BY <1>2 DEF DueEvents
<1>5. \A i \in DOMAIN Events : ~Events[i].cond /\ i \in fired => time >= Events[i].at
  BY <1>1, <1>3 DEF OnTime
<1>6. due \subseteq DOMAIN Events
  BY DEF DueEvents
<1> QED BY <1>4, <1>5, <1>6, Zenon DEF OnTime

(* SubStep: a quiet one, one with the scenario, one that ends it.           *)
LEMMA SubStepInv ==
  ASSUME TrainingInv, NEW holding, NEW flips, SubStep(holding, flips) PROVE TrainingInv'
<1>1. PICK dt \in {outer \div SubSteps(outer)}, time \in {elapsed + outer} :
        /\ left > 0 /\ left' = left - 1
        /\ IF left > 1 \/ ~Running
           THEN FailuresTick(World, dt, flips) /\ UNCHANGED <<active, elapsed, fired>>
           ELSE \E due \in {DueEvents(time, holding)} :
                \E w \in {FireAll(World, Those(Events, due))} :
                  IF Ended(time)
                  THEN FailuresTick(Finished(w), dt, flips) /\ Inactive
                  ELSE /\ FailuresTick(w, dt, flips)
                       /\ elapsed' = time /\ fired' = fired \cup due /\ UNCHANGED active
        /\ outer' = IF left = 1 THEN speed' ELSE outer
        /\ UNCHANGED <<saved, commands>>
  BY Zenon DEF SubStep
<1>2. /\ SessionOK(World, active, elapsed, fired) /\ outer \in Speeds
      /\ left \in 0 .. SubSteps(outer) /\ commands \in 0 .. MaxCommands
  BY DEF TrainingInv
<1>3. World \in Tidy /\ outer \in Nat /\ SubSteps(outer) \in Nat \ {0}
  BY <1>2, NumbersAre, SubStepsPositive DEF SessionOK
<1>4. dt \in Nat /\ time = elapsed + outer
  <2>1. ASSUME NEW a \in Nat, NEW b \in Nat \ {0} PROVE a \div b \in Nat
    OBVIOUS
  <2>2. outer \div SubSteps(outer) \in Nat
    BY <1>3, <2>1
  <2> QED BY <2>2
<1>5. ASSUME World' \in Tidy
      PROVE  /\ outer' \in Speeds /\ left' \in 0 .. SubSteps(outer') /\ saved' = saved
             /\ commands' \in 0 .. MaxCommands
  <2>1. saved' = saved /\ commands' = commands /\ left' = left - 1
    BY <1>1
  <2>2. CASE left = 1
    <3>1. outer' = speed' /\ left' = 0
      BY <1>1, <2>2
    <3>2. World'.speed = speed' /\ World'.speed \in Speeds
      BY <1>5, WorldIs DEF World, Tidy, Good
    <3>3. SubSteps(outer') \in Nat
      BY <3>1, <3>2, SubStepsPositive
    <3> QED BY <1>2, <2>1, <3>1, <3>2, <3>3
  <2>3. CASE left # 1
    <3>1. outer' = outer
      BY <1>1, <2>3
    <3>2. left - 1 \in 0 .. SubSteps(outer)
      BY <1>1, <1>2, <1>3
    <3> QED BY <1>2, <2>1, <3>1, <3>2
  <2> QED BY <2>2, <2>3
<1>6. CASE left > 1 \/ ~Running
  <2>1. FailuresTick(World, dt, flips) /\ UNCHANGED <<active, elapsed, fired>>
    BY <1>1, <1>6, Zenon
  <2>2. World' \in Tidy /\ (Unscripted(World.failures) => Unscripted(World'.failures))
    BY <1>3, <1>4, <2>1, FailuresTickIs
  <2>3. SessionOK(World', active', elapsed', fired')
    BY <1>2, <2>1, <2>2 DEF SessionOK
  <2> QED BY <1>5, <2>2, <2>3, InvMade
<1>7. CASE ~(left > 1 \/ ~Running)
  <2>1. PICK due \in {DueEvents(time, holding)} :
        \E w \in {FireAll(World, Those(Events, due))} :
          IF Ended(time)
          THEN FailuresTick(Finished(w), dt, flips) /\ Inactive
          ELSE /\ FailuresTick(w, dt, flips)
               /\ elapsed' = time /\ fired' = fired \cup due /\ UNCHANGED active
    BY <1>1, <1>7, Zenon
  <2>2. PICK w \in {FireAll(World, Those(Events, due))} :
          IF Ended(time)
          THEN FailuresTick(Finished(w), dt, flips) /\ Inactive
          ELSE /\ FailuresTick(w, dt, flips)
               /\ elapsed' = time /\ fired' = fired \cup due /\ UNCHANGED active
    BY <2>1, Zenon
  <2>3. Running /\ active \in DOMAIN Scenarios /\ Progress(active, elapsed, fired)
    BY <1>2, <1>7 DEF Running, SessionOK
  <2>4. w \in Tidy
    <3> DEFINE S == Range(Events)
    <3>1. Events \in Seq(S) /\ \A e \in S : EventOK(e)
      BY <2>3, ScenarioIs DEF Events
    <3> HIDE DEF S
    <3>2. Those(Events, due) \in Seq(S)
      BY <3>1, ThoseArePicked
    <3> QED BY <1>3, <2>2, <3>1, <3>2, FireAllTidy
  <2>5. CASE Ended(time)
    <3>1. FailuresTick(Finished(w), dt, flips) /\ Inactive
      BY <2>2, <2>5, Zenon
    <3>2. Finished(w) \in Tidy /\ Unscripted(Finished(w).failures)
      BY <2>4, FinishedTidy
    <3>3. World' \in Tidy /\ Unscripted(World'.failures)
      BY <1>4, <3>1, <3>2, FailuresTickIs
    <3>4. SessionOK(World', active', elapsed', fired')
      BY <3>1, <3>3 DEF Inactive, SessionOK
    <3> QED BY <1>5, <3>3, <3>4, InvMade
  <2>6. CASE ~Ended(time)
    <3>1. /\ FailuresTick(w, dt, flips)
          /\ elapsed' = time /\ fired' = fired \cup due /\ active' = active
      BY <2>2, <2>6, Zenon
    <3>2. World' \in Tidy
      BY <1>4, <2>4, <3>1, FailuresTickIs
    <3>3. due \subseteq DOMAIN Events /\ OnTime(Events, time, fired \cup due)
      BY <1>3, <1>4, <2>1, <2>3, DueOnTime
    <3>4. time \in 0 .. Scenarios[active].duration - 1
      <4>1. elapsed \in Nat /\ Scenarios[active].duration \in Nat
        BY <2>3, ScenarioIs DEF Progress
      <4> QED BY <1>3, <1>4, <2>6, <4>1 DEF Ended
    <3>5. Progress(active, time, fired \cup due)
      BY <2>3, <3>3, <3>4 DEF Progress, Events
    <3>6. SessionOK(World', active', elapsed', fired')
      BY <2>3, <3>1, <3>2, <3>5 DEF SessionOK, Running
    <3> QED BY <1>5, <3>2, <3>6, InvMade
  <2> QED BY <2>5, <2>6
<1> QED BY <1>6, <1>7

-----------------------------------------------------------------------------
(* The instructor's commands.                                               *)
LEMMA WorldTidy ==
  ASSUME TrainingInv
  PROVE  /\ World \in Tidy /\ World \in Worlds /\ World.failures = failures
         /\ effect \in [Targets -> 0 .. Full] /\ failures \in Filings
         /\ injected \in SUBSET Fids /\ speed \in Speeds /\ unowned \in SUBSET Targets
<1>1. World \in Tidy /\ World \in Worlds
  BY DEF TrainingInv, SessionOK, Tidy, Good
<1> QED BY <1>1, WorldIs, WorldHas

LEMMA FailureInjectInv ==
  ASSUME TrainingInv, NEW t \in Targets, NEW onset \in Onsets, NEW dur \in Nat,
         FailureInject(t, onset, dur)
  PROVE  TrainingInv'
<1>1. PICK w \in {Inject(World, t, onset, dur, "instructor")} :
        /\ effect' = w.effect /\ failures' = w.failures /\ injected' = w.injected
        /\ speed' = w.speed /\ unowned' = w.unowned
  BY DEF FailureInject, Become
<1>2. w \in Tidy /\ (Unscripted(World.failures) => Unscripted(w.failures))
  BY WorldTidy, InjectTidy
<1>3. Unscripted(failures) => Unscripted(w.failures)
  BY <1>2, WorldTidy
<1>4. Command /\ UNCHANGED <<active, elapsed, fired, saved>>
  BY DEF FailureInject
<1> QED BY <1>1, <1>2, <1>3, <1>4, CommandDone

LEMMA FailureClearInv ==
  ASSUME TrainingInv, NEW fids, FailureClear(fids) PROVE TrainingInv'
<1>1. PICK w \in {Clear(World, fids)} :
        /\ effect' = w.effect /\ failures' = w.failures /\ injected' = w.injected
        /\ speed' = w.speed /\ unowned' = w.unowned
  BY DEF FailureClear, Become
<1>2. w \in Tidy /\ (Unscripted(World.failures) => Unscripted(w.failures))
  BY WorldTidy, ClearTidy
<1>3. Unscripted(failures) => Unscripted(w.failures)
  BY <1>2, WorldTidy
<1>4. Command /\ UNCHANGED <<active, elapsed, fired, saved>>
  BY DEF FailureClear
<1> QED BY <1>1, <1>2, <1>3, <1>4, CommandDone

(* The model is told past the manager, which then owes nothing for it.      *)
LEMMA PastManagerTidy ==
  ASSUME NEW w \in Tidy, NEW t \in Targets, NEW level \in 0 .. Full,
         NEW us \in SUBSET Targets, w.unowned \subseteq us, level = 0 \/ t \in us,
         NEW q, q \in Only(Told(w.effect, t, level), w.failures, w.injected, w.speed, us)
  PROVE  q \in Tidy /\ q.failures = w.failures
<1> DEFINE e2 == Told(w.effect, t, level)
<1>1. /\ w \in Worlds /\ FiledOK(w.failures) /\ OwnedIn(w.effect, w.failures, w.unowned)
      /\ TrackedIn(w.failures, w.injected)
  BY DEF Tidy, Good
<1>2. /\ w.effect \in [Targets -> 0 .. Full] /\ w.failures \in Filings
      /\ w.injected \in SUBSET Fids /\ w.speed \in Speeds
  BY <1>1, WorldIs
<1>3. /\ e2 \in [Targets -> 0 .. Full] /\ e2[t] = level
      /\ \A u \in Targets \ {t} : e2[u] = w.effect[u]
  BY <1>2, ToldTyped
<1> HIDE DEF e2
<1>4. q = W(e2, w.failures, w.injected, w.speed, us)
  BY OnlyIs DEF e2
<1>5. /\ q \in Worlds /\ q.effect = e2 /\ q.failures = w.failures
      /\ q.injected = w.injected /\ q.unowned = us
  BY <1>2, <1>3, <1>4, WorldMade
<1>6. OwnedIn(e2, w.failures, us)
  BY <1>1, <1>3 DEF OwnedIn
<1> QED BY <1>1, <1>5, <1>6 DEF Tidy, Good

LEMMA ToldTidy ==
  ASSUME NEW w \in Tidy, NEW t \in Targets,
         NEW q \in Only(Told(w.effect, t, Full), w.failures, w.injected, w.speed,
                        w.unowned \cup {t})
  PROVE  q \in Tidy /\ q.failures = w.failures
<1> DEFINE us == w.unowned \cup {t}
<1>1. us \in SUBSET Targets /\ w.unowned \subseteq us /\ t \in us /\ Full \in 0 .. Full
  BY WorldIs, NumbersAre DEF Tidy, Good
<1>2. q \in Only(Told(w.effect, t, Full), w.failures, w.injected, w.speed, us)
  OBVIOUS
<1> HIDE DEF us
<1> QED BY <1>1, <1>2, PastManagerTidy

LEMMA DirectInjectInv ==
  ASSUME TrainingInv, NEW t \in Directly, DirectInject(t) PROVE TrainingInv'
<1>1. PICK w \in {[World EXCEPT !.effect = Told(@, t, Full), !.unowned = @ \cup {t}]} :
        /\ effect' = w.effect /\ failures' = w.failures /\ injected' = w.injected
        /\ speed' = w.speed /\ unowned' = w.unowned
  BY DEF DirectInject, Become
<1>2. t \in Targets /\ Full \in 0 .. Full
  BY NumbersAre
<1>3. w \in Only(Told(World.effect, t, Full), World.failures, World.injected,
                 World.speed, World.unowned \cup {t})
  BY <1>1, WorldTidy DEF Worlds, Only
<1>4. w \in Tidy /\ w.failures = World.failures
  BY <1>2, <1>3, WorldTidy, ToldTidy
<1>5. Unscripted(failures) => Unscripted(w.failures)
  BY <1>4, WorldTidy
<1>6. Command /\ UNCHANGED <<active, elapsed, fired, saved>>
  BY DEF DirectInject
<1> QED BY <1>1, <1>4, <1>5, <1>6, CommandDone

LEMMA DirectClearInv ==
  ASSUME TrainingInv, NEW t \in Directly, DirectClear(t) PROVE TrainingInv'
<1>1. PICK w \in {[World EXCEPT !.effect = Told(@, t, 0)]} :
        /\ effect' = w.effect /\ failures' = w.failures /\ injected' = w.injected
        /\ speed' = w.speed /\ unowned' = w.unowned
  BY DEF DirectClear, Become
<1>2. t \in Targets /\ 0 \in 0 .. Full
  BY NumbersAre
<1>3. w \in Only(Told(World.effect, t, 0), World.failures, World.injected,
                 World.speed, World.unowned)
  BY <1>1, WorldTidy DEF Worlds, Only
<1>4. World.unowned \in SUBSET Targets
  BY WorldTidy, WorldIs
<1>5. w \in Tidy /\ w.failures = World.failures
  BY <1>2, <1>3, <1>4, WorldTidy, PastManagerTidy
<1>6. Unscripted(failures) => Unscripted(w.failures)
  BY <1>5, WorldTidy
<1>7. Command /\ UNCHANGED <<active, elapsed, fired, saved>>
  BY DEF DirectClear
<1> QED BY <1>1, <1>5, <1>6, <1>7, CommandDone

LEMMA SetSpeedInv ==
  ASSUME TrainingInv, NEW s \in Speeds, SetSpeed(s) PROVE TrainingInv'
<1>1. /\ Command /\ speed' = s
      /\ UNCHANGED <<effect, failures, active, elapsed, fired, injected, unowned, saved>>
  BY DEF SetSpeed
<1> DEFINE w == W(World.effect, World.failures, World.injected, s, World.unowned)
<1>2. /\ w \in Worlds /\ w.effect = World.effect /\ w.failures = World.failures
      /\ w.injected = World.injected /\ w.speed = s /\ w.unowned = World.unowned
  BY WorldTidy, WorldHas, WorldMade
<1> HIDE DEF w
<1>3. w \in Tidy
  BY <1>2, WorldTidy DEF Tidy, Good
<1>4. /\ effect' = w.effect /\ failures' = w.failures /\ injected' = w.injected
      /\ speed' = w.speed /\ unowned' = w.unowned
  BY <1>1, <1>2, WorldHas
<1>5. Unscripted(failures) => Unscripted(w.failures)
  BY <1>2, WorldHas
<1> QED BY <1>1, <1>3, <1>4, <1>5, CommandDone

(* The initial events of a scenario happen at its start, before its time    *)
(* begins: none of the others has fired.                                    *)
LEMMA StartScenarioInv ==
  ASSUME TrainingInv, NEW n \in DOMAIN Scenarios, StartScenario(n) PROVE TrainingInv'
<1>1. PICK w \in {Opening(n)} :
        /\ effect' = w.effect /\ failures' = w.failures /\ injected' = w.injected
        /\ speed' = w.speed /\ unowned' = w.unowned
  BY DEF StartScenario, Become
<1>2. /\ Command /\ active' = n /\ elapsed' = 0 /\ fired' = {} /\ saved' = saved
  BY DEF StartScenario
<1>3. w \in Tidy
  <2> DEFINE S == Range(Scenarios[n].initial)
  <2>1. Scenarios[n].initial \in Seq(S) /\ \A e \in S : EventOK(e)
    BY ScenarioIs
  <2> HIDE DEF S
  <2>2. Forgotten(World) \in Tidy
    BY WorldTidy, ForgottenTidy
  <2> QED BY <1>1, <2>1, <2>2, FireAllTidy DEF Opening
<1>4. World' = w
  BY <1>1, <1>3, BecomeIs
<1>5. Progress(n, 0, {})
  BY ScenarioIs DEF Progress, OnTime
<1>6. SessionOK(World', active', elapsed', fired')
  <2>1. SessionOK(w, n, 0, {})
    BY <1>3, <1>5, ScenarioIs DEF SessionOK
  <2> QED BY <1>2, <1>4, <2>1
<1> QED BY <1>2, <1>6, CommandKeeps, InvMade

LEMMA StopScenarioInv == ASSUME TrainingInv, StopScenario PROVE TrainingInv'
<1>1. PICK w \in {Finished(World)} :
        /\ effect' = w.effect /\ failures' = w.failures /\ injected' = w.injected
        /\ speed' = w.speed /\ unowned' = w.unowned
  BY DEF StopScenario, Become
<1>2. /\ Command /\ active' = NoScenario /\ saved' = saved
  BY DEF StopScenario, Inactive
<1>3. w \in Tidy /\ Unscripted(w.failures)
  BY <1>1, WorldTidy, FinishedTidy
<1>4. World' = w
  BY <1>1, <1>3, BecomeIs
<1>5. SessionOK(World', active', elapsed', fired')
  BY <1>2, <1>3, <1>4 DEF SessionOK
<1> QED BY <1>2, <1>5, CommandKeeps, InvMade

(* A breakpoint is a session as it was between two ticks, and is one again. *)
LEMMA SaveBreakpointInv == ASSUME TrainingInv, SaveBreakpoint PROVE TrainingInv'
<1> DEFINE s == [world |-> World, active |-> active, elapsed |-> elapsed, fired |-> fired]
<1>1. saved' = {s} /\ UNCHANGED <<session, left, outer, commands>>
  BY DEF SaveBreakpoint
<1>2. /\ SessionOK(World, active, elapsed, fired) /\ outer \in Speeds
      /\ left \in 0 .. SubSteps(outer) /\ commands \in 0 .. MaxCommands
  BY DEF TrainingInv
<1>3. /\ World' = World /\ active' = active /\ elapsed' = elapsed /\ fired' = fired
      /\ outer' = outer /\ left' = left /\ commands' = commands
  BY <1>1, WorldSame DEF session
<1>4. s.world = World /\ s.active = active /\ s.elapsed = elapsed /\ s.fired = fired
  OBVIOUS
<1>5. SessionOK(s.world, s.active, s.elapsed, s.fired)
  BY <1>2, <1>4
<1> HIDE DEF s
<1>6. Cardinality({s}) = 1
  BY FS_Singleton
<1>7. \A x \in saved' : SessionOK(x.world, x.active, x.elapsed, x.fired)
  BY <1>1, <1>5
<1>8. Cardinality(saved') <= 1
  BY <1>1, <1>6
<1>9. SessionOK(World', active', elapsed', fired')
  BY <1>2, <1>3
<1>10. outer' \in Speeds /\ left' \in 0 .. SubSteps(outer') /\ commands' \in 0 .. MaxCommands
  BY <1>2, <1>3
<1> QED BY <1>7, <1>8, <1>9, <1>10 DEF TrainingInv

LEMMA LoadBreakpointInv == ASSUME TrainingInv, LoadBreakpoint PROVE TrainingInv'
<1>1. PICK s \in saved : Restored(s)
  BY DEF LoadBreakpoint
<1>2. Command /\ saved' = saved
  BY DEF LoadBreakpoint
<1>3. SessionOK(s.world, s.active, s.elapsed, s.fired)
  BY DEF TrainingInv
<1>4. PICK w \in {s.world} :
        /\ effect' = w.effect /\ failures' = w.failures /\ injected' = w.injected
        /\ speed' = w.speed /\ unowned' = w.unowned
  BY <1>1 DEF Restored, Become
<1>5. active' = s.active /\ elapsed' = s.elapsed /\ fired' = s.fired
  BY <1>1 DEF Restored
<1>6. w = s.world /\ w \in Tidy
  BY <1>3, <1>4 DEF SessionOK
<1>7. World' = s.world
  BY <1>4, <1>6, BecomeIs
<1>8. SessionOK(World', active', elapsed', fired')
  BY <1>3, <1>5, <1>7
<1> QED BY <1>2, <1>8, CommandKeeps, InvMade

LEMMA RestartInv == ASSUME TrainingInv, Restart PROVE TrainingInv'
<1>1. PICK w \in {Fresh} :
        /\ effect' = w.effect /\ failures' = w.failures /\ injected' = w.injected
        /\ speed' = w.speed /\ unowned' = w.unowned
  BY DEF Restart, Become
<1>2. /\ active' = NoScenario /\ saved' = saved /\ left' = left /\ left = 0
      /\ outer' = 1 /\ commands' = commands + 1 /\ commands < MaxCommands
  BY DEF Restart, Bounded, Inactive, Fresh
<1>3. w \in Tidy /\ Unscripted(w.failures)
  BY <1>1, FreshTidy
<1>4. World' = w
  BY <1>1, <1>3, BecomeIs
<1>5. SessionOK(World', active', elapsed', fired')
  BY <1>2, <1>3, <1>4 DEF SessionOK
<1>6. 1 \in Speeds /\ 0 \in 0 .. SubSteps(1) /\ commands + 1 \in 0 .. MaxCommands
  <2>1. 1 \in Speeds /\ SubSteps(1) \in Nat \ {0} /\ MaxCommands \in Nat
    BY NumbersAre, SubStepsPositive
  <2>2. commands \in 0 .. MaxCommands
    BY DEF TrainingInv
  <2> QED BY <1>2, <2>1, <2>2
<1> QED BY <1>2, <1>5, <1>6, InvMade

LEMMA InvStutter == ASSUME TrainingInv, UNCHANGED vars PROVE TrainingInv'
<1>1. /\ UNCHANGED session /\ left' = left /\ outer' = outer /\ saved' = saved
      /\ commands' = commands
  BY DEF vars
<1>2. World' = World /\ active' = active /\ elapsed' = elapsed /\ fired' = fired
  BY <1>1, WorldSame DEF session
<1>3. SessionOK(World', active', elapsed', fired')
  BY <1>2 DEF TrainingInv
<1> QED BY <1>1, <1>3, InvMade DEF TrainingInv

LEMMA InvNext == TrainingInv /\ [Next]_vars => TrainingInv'
<1> SUFFICES ASSUME TrainingInv, [Next]_vars PROVE TrainingInv'
  OBVIOUS
<1>1. CASE Tick
  BY <1>1, BeginTickInv, SubStepInv DEF Tick
<1>2. CASE InstructorCommand
  <2>1. CASE \E t \in Targets, onset \in Onsets, dur \in Durations : FailureInject(t, onset, dur)
    BY <2>1, NumbersAre, FailureInjectInv
  <2>2. CASE (\E f \in Fids : FailureClear({f})) \/ FailureClear(Fids)
    BY <2>2, FailureClearInv
  <2>3. CASE \E t \in Directly : DirectInject(t) \/ DirectClear(t)
    BY <2>3, DirectInjectInv, DirectClearInv
  <2>4. CASE (\E s \in Speeds : SetSpeed(s)) \/ Resume
    BY <2>4, NumbersAre, SetSpeedInv DEF Resume
  <2>5. CASE \E n \in DOMAIN Scenarios : StartScenario(n)
    BY <2>5, StartScenarioInv
  <2>6. CASE StopScenario
    BY <2>6, StopScenarioInv
  <2>7. CASE SaveBreakpoint
    BY <2>7, SaveBreakpointInv
  <2>8. CASE LoadBreakpoint
    BY <2>8, LoadBreakpointInv
  <2>9. CASE Restart
    BY <2>9, RestartInv
  <2> QED
    BY <1>2, <2>1, <2>2, <2>3, <2>4, <2>5, <2>6, <2>7, <2>8, <2>9, Zenon DEF InstructorCommand
<1>3. CASE UNCHANGED vars
  BY <1>3, InvStutter
<1> QED BY <1>1, <1>2, <1>3 DEF Next

LEMMA InvTypes == TrainingInv => TypeOK
<1> SUFFICES ASSUME TrainingInv PROVE TypeOK
  OBVIOUS
<1>1. /\ World.failures = failures /\ effect \in [Targets -> 0 .. Full] /\ failures \in Filings
      /\ injected \in SUBSET Fids /\ speed \in Speeds /\ unowned \in SUBSET Targets
  BY WorldTidy
<1>2. FiledOK(failures)
  BY WorldTidy DEF Tidy, Good
<1>3. DOMAIN failures \subseteq Fids /\ \A f \in DOMAIN failures : RecordOK(failures[f])
  BY <1>1, FilingIs, FileIs DEF RecordOK
<1>4. /\ active \in {NoScenario} \cup DOMAIN Scenarios
      /\ Running => elapsed \in 0 .. Scenarios[active].duration - 1 /\ fired \subseteq DOMAIN Events
  BY DEF TrainingInv, SessionOK, Progress, Running, Events
<1>5. /\ left \in 0 .. SubSteps(outer) /\ outer \in Speeds /\ Cardinality(saved) <= 1
      /\ commands \in 0 .. MaxCommands
  BY DEF TrainingInv
<1> QED BY <1>1, <1>2, <1>3, <1>4, <1>5 DEF TypeOK, FiledOK

LEMMA InvOwned == TrainingInv => EffectsOwned
BY WorldTidy, WorldHas DEF Tidy, Good, OwnedIn, EffectsOwned

LEMMA InvTracked == TrainingInv => InjectionsTracked
<1> SUFFICES ASSUME TrainingInv PROVE InjectionsTracked
  OBVIOUS
<1>1. TrackedIn(failures, injected) /\ (active = NoScenario => Unscripted(failures))
  BY WorldHas DEF TrainingInv, SessionOK, Tidy
<1> QED BY <1>1 DEF TrackedIn, Unscripted, InjectionsTracked, Running

LEMMA InvOnTime == TrainingInv => EventsOnTime
BY DEF TrainingInv, SessionOK, Progress, OnTime, EventsOnTime, Running, Events

LEMMA InvAlways == Spec => []TrainingInv
BY InvInit, InvNext, PTL DEF Spec

(* Every record on file is one of a failure that still has time left, under *)
(* its own id; a scenario that is running has not reached its end           *)
(* (FailureManager.tick, ScenarioEngine.tick, load_state).                  *)
THEOREM TypeCorrect == Spec => []TypeOK
BY InvAlways, InvTypes, PTL

(* Whatever a model suffers, clear_all can take away: the manager has the   *)
(* record, unless the effect is one it was never told of or one whose       *)
(* record another target's took (FailureManager.inject, tick, set_state).   *)
THEOREM EffectsAlwaysOwned == Spec => []EffectsOwned
BY InvAlways, InvOwned, PTL

(* No failure of a scenario outlives its end without a claim to it: those   *)
(* on file are in the list that _finish clears (ScenarioEngine.start, stop, *)
(* tick and the breakpoints).                                               *)
THEOREM InjectionsAlwaysTracked == Spec => []InjectionsTracked
BY InvAlways, InvTracked, PTL

(* The timed events that have fired are those whose time has come, however  *)
(* often a scenario is started over or a breakpoint loaded                  *)
(* (ScenarioEngine.tick, start, set_state).                                 *)
THEOREM EventsAlwaysOnTime == Spec => []EventsOnTime
BY InvAlways, InvOnTime, PTL
=================================================================================
