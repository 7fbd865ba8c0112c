----------------------------- MODULE PayloadProofs -----------------------------
(***************************************************************************)
(* The imager keeps its promises for every size of store and catalogue and *)
(* every scene id the ground may choose: no two images share an id before  *)
(* a restart, the memory in use covers the images, and an image spoiled by *)
(* lost pointing is marked.                                                *)
(*                                                                         *)
(* The inductive invariant, PayloadInv, adds what the properties rest on:  *)
(* no id is beyond the scene counter, and only the newest image's strip is *)
(* still watched, with the time and the scene the monitor holds.  Sums of  *)
(* sizes are recursive functions; how they change with an image more or    *)
(* less is proved by induction through the least counterexample.           *)
(***************************************************************************)
EXTENDS Payload, SequenceLemmas, SequenceTheorems, FiniteSetTheorems

Statuses == {"OK", "PARTIAL", "CORRUPT"}
Image == [scene : Nat, size : Nat, status : Statuses, left : Nat,
          spoiled : BOOLEAN, cut : BOOLEAN]

(* An image keeps to its frame, the larger one an image of it may take.     *)
FrameOf(img, f) == img.size = f.size /\ img.left \in 0 .. f.lines
Framed(img) == \E f \in Frames : FrameOf(img, f)

LEMMA NumbersAre ==
  /\ First \in Nat /\ StartUsed \in Nat /\ Stream \in Nat
  /\ Segments \in Nat \ {0} /\ SegmentSize \in Nat \ {0} /\ CatalogueMax \in Nat \ {0}
  /\ Settle \in Nat \ {0} /\ HalfCal \in Nat \ {0} /\ Rate \in Nat \ {0}
  /\ StartUsed <= Segments * SegmentSize
<1>1. /\ {First, StartUsed, Stream} \subseteq Nat
      /\ {Segments, SegmentSize, CatalogueMax, Settle, HalfCal, Rate} \subseteq Nat \ {0}
  BY PayloadAssumption
<1>2. First \in Nat /\ StartUsed \in Nat /\ Stream \in Nat
  BY <1>1
<1>3. Segments \in Nat \ {0} /\ SegmentSize \in Nat \ {0} /\ CatalogueMax \in Nat \ {0}
  BY <1>1
<1>4. Settle \in Nat \ {0} /\ HalfCal \in Nat \ {0} /\ Rate \in Nat \ {0}
  BY <1>1
<1> QED BY <1>2, <1>3, <1>4, PayloadAssumption

LEMMA FrameIs ==
  ASSUME NEW f \in Frames
  PROVE  f.size \in Nat \ {0} /\ f.lines \in Nat \ {0} /\ f.status \in Statuses
BY PayloadAssumption DEF Statuses

-----------------------------------------------------------------------------
(* Sums of sizes.                                                           *)
Adding(s, t) ==
  /\ t[0] = 0
  /\ \A i \in 1 .. Len(s) : t[i - 1] \in Nat /\ t[i] \in Nat /\ t[i] = t[i - 1] + s[i].size

Sized(s) == \A i \in 1 .. Len(s) : s[i].size \in Nat

LEMMA SumIs ==
  ASSUME NEW S, NEW s \in Seq(S), Sized(s)
  PROVE  \E t : Adding(s, t) /\ SizeOf(s) = t[Len(s)] /\ SizeOf(s) \in Nat
<1> DEFINE n == Len(s)
           Sum(t) == t = [i \in 0 .. n |-> IF i = 0 THEN 0 ELSE t[i - 1] + s[i].size]
           t == CHOOSE t : Sum(t)
           G == [p \in (1 .. n) \X Nat |-> p[2] + s[p[1]].size]
<1>1. n \in Nat /\ \A i \in 1 .. n : s[i].size \in Nat
  BY DEF Sized
<1>2. SizeOf(s) = t[n]
  BY Zenon DEF SizeOf
<1> HIDE DEF n
<1>3. G \in [(1 .. n) \X Nat -> Nat]
  BY <1>1
<1>4. \A i \in 1 .. n, x \in Nat : G[<<i, x>>] = x + s[i].size
  OBVIOUS
<1> HIDE DEF G
<1>5. \E u : Sum(u)
  <2>1. PICK u \in [0 .. n -> Nat] : Stepwise(0, n, G, u)
    BY <1>1, <1>3, RecursionIn
  <2>2. ASSUME NEW i \in 0 .. n
        PROVE  u[i] = IF i = 0 THEN 0 ELSE u[i - 1] + s[i].size
    <3>1. CASE i = 0
      BY <2>1, <3>1 DEF Stepwise
    <3>2. CASE i # 0
      <4>1. i \in 1 .. n /\ i - 1 \in 0 .. n
        BY <1>1, <3>2
      <4>2. u[i - 1] \in Nat /\ u[i] = G[<<i, u[i - 1]>>]
        BY <2>1, <4>1 DEF Stepwise
      <4> QED BY <1>4, <3>2, <4>1, <4>2
    <3> QED BY <3>1, <3>2
  <2> QED BY <2>2
<1>6. Sum(t)
  BY <1>5, Zenon
<1> HIDE DEF t
<1>7. t[0] = 0 /\ \A i \in 1 .. n : t[i] = t[i - 1] + s[i].size
  BY <1>1, <1>6
<1>8. ASSUME NEW i \in 1 .. n, t[i - 1] \in Nat PROVE t[i] \in Nat
  BY <1>1, <1>7, <1>8
<1>9. \A i \in 0 .. n : t[i] \in Nat
  <2>1. t[0] \in Nat
    BY <1>7
  <2> QED BY <1>1, <1>8, <2>1, PassedOn
<1>10. \A i \in 1 .. n : i \in 0 .. n /\ i - 1 \in 0 .. n
  BY <1>1
<1>11. Adding(s, t)
  BY <1>7, <1>9, <1>10 DEF Adding, n
<1> QED BY <1>1, <1>2, <1>9, <1>11 DEF n

(* Equal sizes make equal sums.                                             *)
LEMMA SumSame ==
  ASSUME NEW S, NEW s \in Seq(S), NEW R, NEW q \in Seq(R), Sized(s), Len(q) = Len(s),
         \A i \in 1 .. Len(s) : q[i].size = s[i].size
  PROVE  SizeOf(q) = SizeOf(s)
<1> DEFINE n == Len(s)
<1>1. Sized(q) /\ n \in Nat /\ Len(q) = n
  BY DEF Sized
<1>2. PICK t : Adding(s, t) /\ SizeOf(s) = t[n]
  BY SumIs
<1>3. PICK u : Adding(q, u) /\ SizeOf(q) = u[n]
  BY <1>1, SumIs
<1> DEFINE T == {i \in Nat : i <= n => u[i] = t[i]}
<1>4. 0 \in T
  BY <1>2, <1>3 DEF Adding
<1>5. ASSUME NEW i \in Nat, i \in T PROVE i + 1 \in T
  <2> SUFFICES ASSUME i + 1 <= n PROVE u[i + 1] = t[i + 1]
    OBVIOUS
  <2>1. i + 1 \in 1 .. n /\ (i + 1) - 1 = i /\ i <= n
    BY <1>1
  <2>2. u[i] = t[i]
    BY <1>5, <2>1
  <2>3. u[i + 1] = u[i] + q[i + 1].size /\ t[i + 1] = t[i] + s[i + 1].size
    BY <1>1, <1>2, <1>3, <2>1 DEF Adding
  <2> QED BY <2>1, <2>2, <2>3
<1> HIDE DEF T
<1>6. Nat \subseteq T
  BY <1>4, <1>5, Induction
<1> QED BY <1>1, <1>2, <1>3, <1>6 DEF T

(* The sum with one more at the end, and with one less.                     *)
LEMMA SumMore ==
  ASSUME NEW S, NEW s \in Seq(S), NEW R, NEW q \in Seq(R), Sized(q),
         Len(q) = Len(s) + 1, \A i \in 1 .. Len(s) : q[i].size = s[i].size
  PROVE  SizeOf(q) = SizeOf(s) + q[Len(s) + 1].size
<1> DEFINE n == Len(s)
<1>1. n \in Nat /\ Len(q) = n + 1 /\ Sized(s)
  BY DEF Sized
<1>2. PICK t : Adding(s, t) /\ SizeOf(s) = t[n]
  BY <1>1, SumIs
<1>3. PICK u : Adding(q, u) /\ SizeOf(q) = u[n + 1]
  BY <1>1, SumIs
<1> DEFINE T == {i \in Nat : i <= n => u[i] = t[i]}
<1>4. 0 \in T
  BY <1>2, <1>3 DEF Adding
<1>5. ASSUME NEW i \in Nat, i \in T PROVE i + 1 \in T
  <2> SUFFICES ASSUME i + 1 <= n PROVE u[i + 1] = t[i + 1]
    OBVIOUS
  <2>1. i + 1 \in 1 .. n /\ i + 1 \in 1 .. n + 1 /\ (i + 1) - 1 = i /\ i <= n
    BY <1>1
  <2>2. u[i] = t[i]
    BY <1>5, <2>1
  <2>3. u[i + 1] = u[i] + q[i + 1].size /\ t[i + 1] = t[i] + s[i + 1].size
    BY <1>1, <1>2, <1>3, <2>1 DEF Adding
  <2> QED BY <2>1, <2>2, <2>3
<1> HIDE DEF T
<1>6. Nat \subseteq T
  BY <1>4, <1>5, Induction
<1>7. u[n] = t[n]
  BY <1>1, <1>6 DEF T
<1>8. u[n + 1] = u[n] + q[n + 1].size
  <2>1. n + 1 \in 1 .. n + 1 /\ (n + 1) - 1 = n
    BY <1>1
  <2> QED BY <1>1, <1>3, <2>1 DEF Adding
<1> QED BY <1>2, <1>3, <1>7, <1>8

(* q is s without its element k.                                            *)
Lacks(q, s, k) ==
  /\ Len(q) = Len(s) - 1
  /\ \A j \in 1 .. Len(q) : q[j] = IF j < k THEN s[j] ELSE s[j + 1]

LEMMA SumLess ==
  ASSUME NEW S, NEW s \in Seq(S), NEW q \in Seq(S), Sized(s),
         NEW k \in 1 .. Len(s), Lacks(q, s, k)
  PROVE  SizeOf(s) = SizeOf(q) + s[k].size
<1> DEFINE n == Len(q)
<1>1. /\ n \in Nat /\ Len(s) = n + 1 /\ k \in 1 .. n + 1 /\ k \in Nat
      /\ \A j \in 1 .. n : q[j] = IF j < k THEN s[j] ELSE s[j + 1]
  BY DEF Lacks
<1>2. Sized(q)
  BY <1>1 DEF Sized
<1> HIDE DEF n
<1>3. PICK t : Adding(s, t) /\ SizeOf(s) = t[n + 1]
  BY <1>1, SumIs
<1>4. PICK u : Adding(q, u) /\ SizeOf(q) = u[n]
  BY <1>2, SumIs DEF n
<1>5. /\ t[0] = 0
      /\ \A i \in 1 .. n + 1 : /\ t[i - 1] \in Nat /\ t[i] \in Nat
                               /\ t[i] = t[i - 1] + s[i].size
  BY <1>1, <1>3 DEF Adding
<1>6. /\ u[0] = 0
      /\ \A i \in 1 .. n : u[i - 1] \in Nat /\ u[i] \in Nat /\ u[i] = u[i - 1] + q[i].size
  BY <1>4 DEF Adding, n
<1>7. \A i \in 1 .. n + 1 : s[i].size \in Nat
  BY <1>1 DEF Sized
<1> DEFINE Same(i) == t[IF i < k THEN i ELSE i + 1]
                        = u[i] + (IF i < k THEN 0 ELSE s[k].size)
           T == {i \in Nat : i <= n => Same(i)}
<1>8. 0 \in T
  BY <1>1, <1>5, <1>6
<1>9. ASSUME NEW i \in Nat, i \in T PROVE i + 1 \in T
  <2> SUFFICES ASSUME i + 1 <= n PROVE Same(i + 1)
    OBVIOUS
  <2>1. i + 1 \in 1 .. n /\ (i + 1) - 1 = i /\ i <= n
    BY <1>1
  <2>2. Same(i)
    BY <1>9, <2>1
  <2>3. u[i] \in Nat /\ u[i + 1] = u[i] + q[i + 1].size
    BY <1>6, <2>1
  <2>4. i + 1 \in 1 .. n + 1 /\ i + 2 \in 1 .. n + 1 /\ (i + 2) - 1 = i + 1
        /\ (i + 1) + 1 = i + 2
    BY <1>1, <2>1
  <2>5. /\ t[i + 1] = t[i] + s[i + 1].size /\ t[i + 2] = t[i + 1] + s[i + 2].size
        /\ t[i] \in Nat /\ t[i + 1] \in Nat /\ t[i + 2] \in Nat
        /\ s[i + 1].size \in Nat /\ s[i + 2].size \in Nat /\ s[k].size \in Nat
    BY <1>1, <1>5, <1>7, <2>1, <2>4
  <2>6. CASE i + 1 < k
    <3>1. q[i + 1] = s[i + 1] /\ i < k
      BY <1>1, <2>1, <2>6
    <3>2. t[i] = u[i] + 0
      BY <2>2, <3>1
    <3>3. t[i + 1] = u[i + 1] + 0
      BY <2>3, <2>5, <3>1, <3>2
    <3> QED BY <2>6, <3>3
  <2>7. CASE i + 1 = k
    <3>1. q[i + 1] = s[i + 2] /\ i < k
      BY <1>1, <2>1, <2>4, <2>7
    <3>2. t[i] = u[i] + 0
      BY <2>2, <3>1
    <3>3. t[i + 2] = u[i + 1] + s[k].size
      <4>1. u[i + 1] = u[i] + s[i + 2].size /\ s[i + 1].size = s[k].size
        BY <2>3, <2>7, <3>1, Zenon
      <4>2. t[i] \in Nat /\ s[k].size \in Nat /\ s[i + 2].size \in Nat
        BY <2>5, Zenon
      <4>3. \A x, y, z \in Nat : ((x + 0) + y) + z = (x + z) + y
        OBVIOUS
      <4>5. u[i] \in Nat
        BY <2>3
      <4>6. t[i + 1] = (u[i] + 0) + s[k].size
        BY <2>5, <3>2, <4>1, Zenon
      <4>7. t[i + 2] = ((u[i] + 0) + s[k].size) + s[i + 2].size
        BY <2>5, <4>6, Zenon
      <4>8. \A z \in Nat : ((u[i] + 0) + s[k].size) + z = (u[i] + z) + s[k].size
        BY <4>2, <4>3, <4>5, Zenon
      <4>4. t[i + 2] = (u[i] + s[i + 2].size) + s[k].size
        BY <4>2, <4>7, <4>8, Zenon
      <4> QED BY <4>1, <4>4, Zenon
    <3>4. ~(i + 1 < k)
      BY <1>1, <2>7
    <3> QED BY <2>4, <3>3, <3>4
  <2>8. CASE i + 1 > k
    <3>1. q[i + 1] = s[i + 2] /\ ~(i < k) /\ ~(i + 1 < k)
      BY <1>1, <2>1, <2>4, <2>8
    <3>2. t[i + 1] = u[i] + s[k].size
      BY <2>2, <3>1
    <3>3. t[i + 2] = u[i + 1] + s[k].size
      <4>1. u[i + 1] = u[i] + s[i + 2].size
        BY <2>3, <3>1, Zenon
      <4>2. u[i] \in Nat /\ s[k].size \in Nat /\ s[i + 2].size \in Nat
        BY <2>3, <2>5, Zenon
      <4>3. \A x, y, z \in Nat : (x + y) + z = (x + z) + y
        OBVIOUS
      <4>5. t[i + 2] = (u[i] + s[k].size) + s[i + 2].size
        BY <2>5, <3>2, Zenon
      <4>6. (u[i] + s[k].size) + s[i + 2].size = (u[i] + s[i + 2].size) + s[k].size
        BY <4>2, <4>3, Zenon
      <4>4. t[i + 2] = (u[i] + s[i + 2].size) + s[k].size
        BY <4>5, <4>6, Zenon
      <4> QED BY <4>1, <4>4, Zenon
    <3> QED BY <2>4, <3>1, <3>3
  <2> QED BY <1>1, <2>6, <2>7, <2>8
<1>10. Nat \subseteq T
  <2> HIDE DEF T
  <2> QED BY <1>8, <1>9, Induction
<1>11. CASE k = n + 1
  <2>1. n < k /\ n \in T
    BY <1>1, <1>10, <1>11
  <2>2. t[n] = u[n] + 0
    BY <1>1, <2>1
  <2>3. u[n] \in Nat
    BY <1>1, <1>5, <2>2, <1>6
  <2>4. n + 1 \in 1 .. n + 1 /\ (n + 1) - 1 = n
    BY <1>1
  <2>5. t[n + 1] = t[n] + s[n + 1].size
    BY <1>5, <2>4
  <2> QED BY <1>3, <1>4, <1>11, <2>2, <2>3, <2>5
<1>12. CASE k # n + 1
  <2>1. ~(n < k) /\ n \in T
    BY <1>1, <1>10, <1>12
  <2>2. t[n + 1] = u[n] + s[k].size
    BY <1>1, <2>1
  <2> QED BY <1>3, <1>4, <2>2
<1> QED BY <1>11, <1>12

LEMMA RemovedLacks ==
  ASSUME NEW S, NEW s \in Seq(S), NEW k \in 1 .. Len(s), NEW q, q = RemoveAt(s, k)
  PROVE  q \in Seq(S) /\ Lacks(q, s, k)
<1> DEFINE a == SubSeq(s, 1, k - 1) b == SubSeq(s, k + 1, Len(s)) n == Len(s)
<1>1. n \in Nat /\ k \in 1 .. n
  OBVIOUS
<1>2. a \in Seq(S) /\ Len(a) = k - 1 /\ \A i \in 1 .. k - 1 : a[i] = s[i]
  BY SubSeqProperties
<1>3. b \in Seq(S) /\ Len(b) = n - k /\ \A i \in 1 .. n - k : b[i] = s[i + k]
  BY SubSeqProperties
<1>4. q = a \o b
  BY DEF RemoveAt
<1> HIDE DEF a, b, n
<1>5. /\ q \in Seq(S) /\ Len(q) = Len(a) + Len(b)
      /\ \A i \in 1 .. Len(a) : q[i] = a[i]
      /\ \A j \in 1 .. Len(b) : q[Len(a) + j] = b[j]
  <2>1. /\ a \o b \in Seq(S) /\ Len(a \o b) = Len(a) + Len(b)
        /\ \A i \in 1 .. Len(a) : (a \o b)[i] = a[i]
        /\ \A j \in 1 .. Len(b) : (a \o b)[Len(a) + j] = b[j]
    <3>1. a \in Seq(S) /\ b \in Seq(S)
      BY <1>2, <1>3
    <3> QED BY <3>1, Concatenated
  <2> QED BY <1>4, <2>1, Zenon
<1>6. Len(q) = n - 1
  BY <1>1, <1>2, <1>3, <1>5
<1>7. ASSUME NEW j \in 1 .. n - 1 PROVE q[j] = IF j < k THEN s[j] ELSE s[j + 1]
  <2>1. CASE j < k
    <3>1. j \in 1 .. k - 1
      BY <1>1, <2>1
    <3> QED BY <1>2, <1>5, <2>1, <3>1
  <2>2. CASE ~(j < k)
    <3> DEFINE i == j - (k - 1)
    <3>1. i \in 1 .. n - k /\ (k - 1) + i = j /\ i + k = j + 1
      BY <1>1, <2>2
    <3> HIDE DEF i
    <3>2. q[(k - 1) + i] = b[i] /\ b[i] = s[i + k]
      BY <1>2, <1>3, <1>5, <3>1
    <3> QED BY <2>2, <3>1, <3>2
  <2> QED BY <2>1, <2>2
<1> QED BY <1>5, <1>6, <1>7 DEF Lacks, n

LEMMA TailLacks ==
  ASSUME NEW S, NEW s \in Seq(S), s # << >>, NEW q, q = Tail(s)
  PROVE  q \in Seq(S) /\ Lacks(q, s, 1) /\ 1 \in 1 .. Len(s)
<1>1. /\ q \in Seq(S) /\ Len(q) = Len(s) - 1 /\ 1 \in 1 .. Len(s)
      /\ \A j \in 1 .. Len(q) : q[j] = s[j + 1]
  OBVIOUS
<1> QED BY <1>1 DEF Lacks

-----------------------------------------------------------------------------
(* The catalogue: what every image of it keeps to, and the strip monitor of *)
(* the one image whose strip is still running unless another cut it short.  *)
Honest(img) == img.spoiled /\ ~img.cut => img.status # "OK"

CatalogueOK(imgs) ==
  /\ imgs \in Seq(Image) /\ Len(imgs) <= CatalogueMax
  /\ \A i \in 1 .. Len(imgs) : Framed(imgs[i]) /\ Honest(imgs[i])

Scanning(img) == img.left > 0 /\ ~img.cut
StripOK(imgs, st) ==
  \A i \in 1 .. Len(imgs) :
    Scanning(imgs[i]) =>
      i = Len(imgs) /\ st.left = imgs[i].left /\ st.scene = imgs[i].scene

ScenesOK(imgs, next) ==
  /\ \A i, k \in 1 .. Len(imgs) : imgs[i].scene = imgs[k].scene => i = k
  /\ \A i \in 1 .. Len(imgs) : imgs[i].scene <= next

LEMMA ImageIs ==
  ASSUME NEW img \in Image
  PROVE  /\ img.scene \in Nat /\ img.size \in Nat /\ img.status \in Statuses
         /\ img.left \in Nat /\ img.spoiled \in BOOLEAN /\ img.cut \in BOOLEAN
BY DEF Image

LEMMA SizedImages == ASSUME NEW imgs \in Seq(Image) PROVE Sized(imgs)
<1>1. \A i \in 1 .. Len(imgs) : imgs[i] \in Image
  OBVIOUS
<1> QED BY <1>1, ImageIs DEF Sized

(* An image fewer: no other stops to be the newest or to have its own id.   *)
LEMMA LackingKeeps ==
  ASSUME NEW s \in Seq(Image), NEW q \in Seq(Image), NEW k \in 1 .. Len(s), Lacks(q, s, k),
         \A i \in 1 .. Len(s) : Framed(s[i]) /\ Honest(s[i])
  PROVE  /\ \A i \in 1 .. Len(q) : Framed(q[i]) /\ Honest(q[i])
         /\ \A st : StripOK(s, st) => StripOK(q, st)
         /\ \A next : ScenesOK(s, next) => ScenesOK(q, next)
         /\ Len(q) = Len(s) - 1 /\ SizeOf(s) = SizeOf(q) + s[k].size
<1> DEFINE At(j) == IF j < k THEN j ELSE j + 1
<1>1. /\ Len(s) \in Nat /\ Len(q) \in Nat /\ Len(q) = Len(s) - 1 /\ k \in Nat
      /\ \A j \in 1 .. Len(q) : q[j] = s[At(j)]
  BY DEF Lacks
<1>2. ASSUME NEW j \in 1 .. Len(q)
      PROVE  At(j) \in 1 .. Len(s) /\ (At(j) = Len(s) => j = Len(q))
  BY <1>1
<1>3. \A i, j \in 1 .. Len(q) : At(i) = At(j) => i = j
  BY <1>1
<1> HIDE DEF At
<1>4. \A i \in 1 .. Len(q) : Framed(q[i]) /\ Honest(q[i])
  BY <1>1, <1>2
<1>5. ASSUME NEW st, StripOK(s, st) PROVE StripOK(q, st)
  <2> SUFFICES ASSUME NEW i \in 1 .. Len(q), Scanning(q[i])
               PROVE  i = Len(q) /\ st.left = q[i].left /\ st.scene = q[i].scene
    BY Zenon DEF StripOK
  <2>1. q[i] = s[At(i)] /\ At(i) \in 1 .. Len(s)
    BY <1>1, <1>2
  <2>2. Scanning(s[At(i)])
    BY <2>1, Zenon
  <2>3. At(i) = Len(s) /\ st.left = s[At(i)].left /\ st.scene = s[At(i)].scene
    BY <1>5, <2>1, <2>2, Zenon DEF StripOK
  <2> QED BY <1>2, <2>1, <2>3
<1>6. ASSUME NEW next, ScenesOK(s, next) PROVE ScenesOK(q, next)
  BY <1>1, <1>2, <1>3, <1>6 DEF ScenesOK
<1>7. SizeOf(s) = SizeOf(q) + s[k].size
  BY SizedImages, SumLess
<1> QED BY <1>1, <1>4, <1>5, <1>6, <1>7

-----------------------------------------------------------------------------
(* A tick judges every image.                                               *)
LEMMA JudgedIs ==
  ASSUME NEW i, NEW img, img = images[i], img \in Image, NEW p, NEW q, q = Judged(i, p)
  PROVE  /\ q \in Image /\ q.scene = img.scene /\ q.size = img.size /\ q.cut = img.cut
         /\ q.left = AtLeast(img.left - 1, 0)
         /\ q.status = IF i \in Marked(p) /\ img.status = "OK" THEN "PARTIAL" ELSE img.status
         /\ q.spoiled <=> img.spoiled \/ (img.left > 0 /\ p = "lost")
<1> DEFINE st == IF i \in Marked(p) /\ img.status = "OK" THEN "PARTIAL" ELSE img.status
           lf == AtLeast(img.left - 1, 0)
           sp == img.spoiled \/ (img.left > 0 /\ p = "lost")
<1>1. /\ img.scene \in Nat /\ img.size \in Nat /\ img.status \in Statuses
      /\ img.left \in Nat /\ img.spoiled \in BOOLEAN /\ img.cut \in BOOLEAN
  BY ImageIs
<1>2. st \in Statuses
  BY <1>1 DEF Statuses
<1>3. lf \in Nat
  BY <1>1 DEF AtLeast
<1>4. sp \in BOOLEAN
  BY Zenon
<1>5. q = [img EXCEPT !.status = st, !.left = lf, !.spoiled = sp]
  BY Zenon DEF Judged
<1> HIDE DEF st, lf, sp
<1>6. q \in [scene : {img.scene}, size : {img.size}, status : {st}, left : {lf},
             spoiled : {sp}, cut : {img.cut}]
  BY <1>5 DEF Image
<1>7. /\ q \in Image /\ q.scene = img.scene /\ q.size = img.size /\ q.cut = img.cut
      /\ q.left = lf /\ q.status = st /\ q.spoiled = sp
  BY <1>1, <1>2, <1>3, <1>4, <1>6 DEF Image
<1>8. q.spoiled <=> img.spoiled \/ (img.left > 0 /\ p = "lost")
  BY <1>7, Zenon DEF sp
<1> QED BY <1>7, <1>8, Zenon DEF st, lf

LEMMA ScannedKeeps ==
  ASSUME CatalogueOK(images), StripOK(images, strip), NEW p,
         NEW q, q = Scanned(p), NEW st, st.left = AtLeast(strip.left - 1, 0),
         st.scene = strip.scene
  PROVE  /\ CatalogueOK(q) /\ StripOK(q, st) /\ Len(q) = Len(images)
         /\ \A next : ScenesOK(images, next) => ScenesOK(q, next)
         /\ SizeOf(q) = SizeOf(images)
<1> DEFINE n == Len(images)
<1>1. /\ images \in Seq(Image) /\ n \in Nat /\ DOMAIN images = 1 .. n
      /\ \A i \in 1 .. n : images[i] \in Image
  BY DEF CatalogueOK
<1>2. /\ n <= CatalogueMax
      /\ \A i \in 1 .. n : Framed(images[i]) /\ Honest(images[i])
  BY DEF CatalogueOK
<1> HIDE DEF n
<1>3. q = [i \in 1 .. n |-> q[i]]
      /\ \A i \in 1 .. n : q[i] = Judged(i, p)
  <2>1. q = [i \in 1 .. n |-> Judged(i, p)]
    BY <1>1 DEF Scanned
  <2> QED BY <2>1
<1>4. ASSUME NEW i \in 1 .. n
      PROVE  /\ q[i] \in Image /\ q[i].scene = images[i].scene /\ q[i].size = images[i].size
             /\ q[i].cut = images[i].cut /\ q[i].left = AtLeast(images[i].left - 1, 0)
             /\ q[i].status = IF i \in Marked(p) /\ images[i].status = "OK" THEN "PARTIAL"
                              ELSE images[i].status
             /\ q[i].spoiled <=> images[i].spoiled \/ (images[i].left > 0 /\ p = "lost")
  <2>1. images[i] \in Image /\ q[i] = Judged(i, p)
    BY <1>1, <1>3
  <2> QED BY <2>1, JudgedIs
<1>5. q \in [1 .. n -> Image]
  BY <1>3, <1>4
<1>6. q \in Seq(Image) /\ Len(q) = n
  BY <1>1, <1>5
<1>7. ASSUME NEW i \in 1 .. n PROVE Framed(q[i])
  <2>1. PICK f \in Frames : images[i].size = f.size /\ images[i].left \in 0 .. f.lines
    BY <1>2 DEF Framed, FrameOf
  <2>2. q[i].size = f.size /\ q[i].left \in 0 .. f.lines
    BY <1>4, <2>1, FrameIs DEF AtLeast
  <2> QED BY <2>2 DEF Framed, FrameOf
<1>8. ASSUME NEW i \in 1 .. n PROVE Honest(q[i])
  <2> SUFFICES ASSUME q[i].spoiled, ~q[i].cut, q[i].status = "OK" PROVE FALSE
    BY Zenon DEF Honest
  <2>1. i \notin Marked(p) /\ images[i].status = "OK" /\ ~images[i].cut
    BY <1>4
  <2>2. ~images[i].spoiled
    BY <1>2, <2>1 DEF Honest
  <2>3. images[i].left > 0 /\ p = "lost"
    BY <1>4, <2>2
  <2>4. Scanning(images[i])
    BY <2>1, <2>3 DEF Scanning
  <2>5. i = n /\ strip.left = images[i].left /\ strip.scene = images[i].scene
    BY <2>4 DEF StripOK, n
  <2>6. \A k \in DOMAIN images : k <= i
    BY <1>1, <2>5
  <2> QED BY <1>1, <2>1, <2>3, <2>5, <2>6 DEF Marked
<1>9. StripOK(q, st)
  <2> SUFFICES ASSUME NEW i \in 1 .. n, Scanning(q[i])
               PROVE  i = n /\ st.left = q[i].left /\ st.scene = q[i].scene
    BY <1>6, Zenon DEF StripOK
  <2>1. Scanning(images[i])
    BY <1>1, <1>4, ImageIs DEF Scanning, AtLeast
  <2>2. i = n /\ strip.left = images[i].left /\ strip.scene = images[i].scene
    BY <2>1 DEF StripOK, n
  <2> QED BY <1>4, <2>2
<1>10. ASSUME NEW next, ScenesOK(images, next) PROVE ScenesOK(q, next)
  BY <1>4, <1>6, <1>10 DEF ScenesOK, n
<1>11. SizeOf(q) = SizeOf(images)
  <2>1. Sized(images) /\ Len(q) = Len(images)
        /\ \A i \in 1 .. Len(images) : q[i].size = images[i].size
    BY <1>1, <1>4, <1>6, SizedImages DEF n
  <2> QED BY <1>1, <1>6, <2>1, SumSame
<1> QED BY <1>2, <1>6, <1>7, <1>8, <1>9, <1>10, <1>11 DEF CatalogueOK, n

-----------------------------------------------------------------------------
(* A capture cuts short the strip of the image before, and evicts the       *)
(* oldest from a full catalogue.                                            *)
LEMMA CutShortIs ==
  ASSUME NEW img \in Image, NEW q, q = CutShort(img)
  PROVE  /\ q \in Image /\ q.scene = img.scene /\ q.size = img.size /\ q.left = img.left
         /\ q.status = img.status /\ q.spoiled = img.spoiled
         /\ q.cut <=> img.cut \/ img.left > 0
<1> DEFINE ct == img.cut \/ img.left > 0
<1>1. /\ img.scene \in Nat /\ img.size \in Nat /\ img.status \in Statuses
      /\ img.left \in Nat /\ img.spoiled \in BOOLEAN /\ img.cut \in BOOLEAN
  BY ImageIs
<1>2. ct \in BOOLEAN
  BY Zenon
<1>3. q = [img EXCEPT !.cut = ct]
  BY Zenon DEF CutShort
<1> HIDE DEF ct
<1>4. q \in [scene : {img.scene}, size : {img.size}, status : {img.status},
             left : {img.left}, spoiled : {img.spoiled}, cut : {ct}]
  BY <1>3 DEF Image
<1>5. /\ q \in Image /\ q.scene = img.scene /\ q.size = img.size /\ q.left = img.left
      /\ q.status = img.status /\ q.spoiled = img.spoiled /\ q.cut = ct
  BY <1>1, <1>2, <1>4 DEF Image
<1>6. q.cut <=> img.cut \/ img.left > 0
  BY <1>5, Zenon DEF ct
<1> QED BY <1>5, <1>6

LEMMA CataloguedKeeps ==
  ASSUME CatalogueOK(images), NEW img \in Image, Framed(img), ~img.spoiled, ~img.cut,
         NEW st, st.left = img.left, st.scene = img.scene,
         NEW q, q = Catalogued(img)
  PROVE  /\ CatalogueOK(q) /\ StripOK(q, st)
         /\ Len(images) # CatalogueMax => Len(q) = Len(images) + 1
         /\ SizeOf(q) <= SizeOf(images) + img.size
         /\ SizeOf(q) \in Nat /\ SizeOf(images) \in Nat
         /\ \A next, more :
              /\ ScenesOK(images, next) /\ next \in Nat /\ more \in Nat
              /\ next <= more /\ img.scene <= more /\ img.scene \notin SceneIds
              => ScenesOK(q, more)
<1> DEFINE n == Len(images) cs == [i \in DOMAIN images |-> CutShort(images[i])]
           all == Append(cs, img)
<1>1. /\ images \in Seq(Image) /\ n \in Nat /\ DOMAIN images = 1 .. n /\ n <= CatalogueMax
      /\ \A i \in 1 .. n : images[i] \in Image /\ Framed(images[i]) /\ Honest(images[i])
  BY DEF CatalogueOK
<1> HIDE DEF n
<1>2. /\ cs = [i \in 1 .. n |-> cs[i]]
      /\ \A i \in 1 .. n : cs[i] = CutShort(images[i])
  BY <1>1
<1>3. q = IF Len(all) > CatalogueMax THEN Tail(all) ELSE all
  BY Zenon DEF Catalogued
<1> HIDE DEF cs
<1>4. ASSUME NEW i \in 1 .. n
      PROVE  /\ cs[i] \in Image /\ cs[i].scene = images[i].scene
             /\ cs[i].size = images[i].size /\ cs[i].left = images[i].left
             /\ cs[i].status = images[i].status /\ cs[i].spoiled = images[i].spoiled
             /\ cs[i].cut <=> images[i].cut \/ images[i].left > 0
  BY <1>1, <1>2, CutShortIs
<1>5. cs \in Seq(Image) /\ Len(cs) = n
  <2>1. cs \in [1 .. n -> Image]
    BY <1>2, <1>4
  <2> QED BY <1>1, <2>1
<1>6. /\ all \in Seq(Image) /\ Len(all) = n + 1 /\ all[n + 1] = img
      /\ \A i \in 1 .. n : all[i] = cs[i]
  BY <1>1, <1>5, AppendProperties
<1> HIDE DEF all
<1>7. \A i \in 1 .. n + 1 : i \in 1 .. n \/ i = n + 1
  BY <1>1
<1>8. ASSUME NEW i \in 1 .. n PROVE Framed(all[i]) /\ Honest(all[i]) /\ ~Scanning(all[i])
  <2>1. Framed(all[i])
    BY <1>1, <1>4, <1>6 DEF Framed, FrameOf
  <2>2. Honest(all[i])
    BY <1>1, <1>4, <1>6 DEF Honest
  <2>3. ~Scanning(all[i])
    BY <1>4, <1>6 DEF Scanning
  <2> QED BY <2>1, <2>2, <2>3
<1>9. Framed(img) /\ Honest(img)
  BY DEF Honest
<1>10. \A i \in 1 .. Len(all) : Framed(all[i]) /\ Honest(all[i])
  BY <1>6, <1>7, <1>8, <1>9
<1>11. StripOK(all, st)
  BY <1>6, <1>7, <1>8 DEF StripOK
<1>12. ASSUME NEW next \in Nat, NEW more \in Nat, ScenesOK(images, next), next <= more,
              img.scene <= more, img.scene \notin SceneIds
       PROVE  ScenesOK(all, more)
  <2>1. \A i \in 1 .. n : all[i].scene = images[i].scene /\ images[i].scene # img.scene
    BY <1>1, <1>4, <1>6, <1>12 DEF SceneIds
  <2>2. \A i \in 1 .. n : images[i].scene \in Nat /\ images[i].scene <= next
    BY <1>1, <1>12, ImageIs DEF ScenesOK, n
  <2>3. \A i, k \in 1 .. n : images[i].scene = images[k].scene => i = k
    BY <1>12 DEF ScenesOK, n
  <2>4. \A i, k \in 1 .. n + 1 : all[i].scene = all[k].scene => i = k
    BY <1>6, <1>7, <2>1, <2>3
  <2>5. \A i \in 1 .. n : all[i].scene <= more
    BY <1>12, <2>1, <2>2
  <2>6. \A i \in 1 .. n + 1 : all[i].scene <= more
    BY <1>6, <1>7, <1>12, <2>5
  <2> QED BY <1>6, <2>4, <2>6 DEF ScenesOK
<1>13. /\ SizeOf(all) = SizeOf(images) + img.size
       /\ SizeOf(all) \in Nat /\ SizeOf(images) \in Nat
  <2>1. Sized(all) /\ Sized(images)
    BY <1>1, <1>6, SizedImages
  <2>2. \A i \in 1 .. Len(images) : all[i].size = images[i].size
    BY <1>4, <1>6 DEF n
  <2>3. Len(all) = Len(images) + 1 /\ all[Len(images) + 1] = img
    BY <1>6 DEF n
  <2>4. SizeOf(all) = SizeOf(images) + img.size
    BY <1>1, <1>6, <2>1, <2>2, <2>3, SumMore
  <2>5. SizeOf(all) \in Nat /\ SizeOf(images) \in Nat
    BY <1>1, <1>6, <2>1, SumIs
  <2> QED BY <2>4, <2>5
<1>14. CASE Len(all) > CatalogueMax
  <2>1. q = Tail(all) /\ all # << >>
    BY <1>1, <1>3, <1>6, <1>14
  <2>2. q \in Seq(Image) /\ Lacks(q, all, 1) /\ 1 \in 1 .. Len(all)
    BY <1>6, <2>1, TailLacks
  <2>3. /\ \A i \in 1 .. Len(q) : Framed(q[i]) /\ Honest(q[i])
        /\ \A s : StripOK(all, s) => StripOK(q, s)
        /\ \A next : ScenesOK(all, next) => ScenesOK(q, next)
        /\ Len(q) = Len(all) - 1 /\ SizeOf(all) = SizeOf(q) + all[1].size
    BY <1>6, <1>10, <2>2, LackingKeeps
  <2>4. Len(q) = n /\ n = CatalogueMax
    BY <1>1, <1>6, <1>14, <2>3, NumbersAre
  <2>5. SizeOf(q) \in Nat /\ all[1].size \in Nat
    <3>1. all[1] \in Image
      BY <1>6, <2>2
    <3> QED BY <2>2, <3>1, SizedImages, SumIs, ImageIs
  <2>6. SizeOf(q) <= SizeOf(images) + img.size
    BY <1>13, <2>3, <2>5
  <2>7. CatalogueOK(q)
    BY <1>1, <2>2, <2>3, <2>4 DEF CatalogueOK
  <2>8. StripOK(q, st)
    BY <1>11, <2>3
  <2>9. Len(images) = CatalogueMax
    BY <2>4 DEF n
  <2> QED BY <1>12, <1>13, <2>3, <2>5, <2>6, <2>7, <2>8, <2>9, Zenon
<1>15. CASE ~(Len(all) > CatalogueMax)
  <2>1. q = all
    BY <1>3, <1>15
  <2>2. Len(all) <= CatalogueMax
    BY <1>1, <1>6, <1>15, NumbersAre
  <2>3. CatalogueOK(q)
    BY <1>6, <1>10, <2>1, <2>2 DEF CatalogueOK
  <2>4. Len(q) = Len(images) + 1
    BY <1>6, <2>1 DEF n
  <2>5. SizeOf(q) <= SizeOf(images) + img.size
    <3>1. SizeOf(q) \in Nat /\ SizeOf(q) = SizeOf(images) + img.size
      BY <1>13, <2>1
    <3> QED BY <3>1
  <2> QED BY <1>11, <1>12, <1>13, <2>1, <2>3, <2>4, <2>5, Zenon
<1> QED BY <1>14, <1>15

-----------------------------------------------------------------------------
(* Calibration: its timer runs as long as it is active, and only then.      *)
Phases == {"idle", "dark", "flat", "complete"}
Cals == [active : BOOLEAN, phase : Phases, kind : Kinds, timer : 0 .. HalfCal]
CalOK(c) ==
  /\ c \in Cals
  /\ c.active <=> c.phase \in {"dark", "flat"}
  /\ c.active => c.timer > 0

LEMMA CalIs ==
  ASSUME NEW c \in Cals
  PROVE  /\ c.active \in BOOLEAN /\ c.phase \in Phases /\ c.kind \in Kinds
         /\ c.timer \in 0 .. HalfCal
BY DEF Cals

LEMMA EndedOK ==
  ASSUME NEW c \in Cals, NEW phase \in {"idle", "complete"}
  PROVE  /\ CalOK(Ended(c, phase)) /\ Ended(c, phase).kind = c.kind
         /\ Ended(c, phase).phase = phase
<1>1. Ended(c, phase) \in [active : {FALSE}, phase : {phase}, kind : {c.kind},
                           timer : {c.timer}]
  BY DEF Ended, Cals
<1>2. FALSE \in BOOLEAN /\ phase \in Phases /\ phase \notin {"dark", "flat"}
  BY DEF Phases
<1>3. c.kind \in Kinds /\ c.timer \in 0 .. HalfCal
  BY CalIs
<1>4. /\ Ended(c, phase) \in Cals /\ Ended(c, phase).active = FALSE
      /\ Ended(c, phase).phase = phase /\ Ended(c, phase).kind = c.kind
  BY <1>1, <1>2, <1>3 DEF Cals
<1> QED BY <1>2, <1>4 DEF CalOK

LEMMA CountedIs ==
  ASSUME NEW c, CalOK(c), c.active
  PROVE  /\ Counted(c) \in Cals /\ Counted(c).active /\ Counted(c).kind = c.kind
         /\ Counted(c).phase = c.phase
<1>1. c \in Cals /\ c.timer > 0
  BY DEF CalOK
<1>2. c.timer - 1 \in 0 .. HalfCal /\ c.phase \in Phases /\ c.kind \in Kinds
      /\ c.active \in BOOLEAN
  BY <1>1, CalIs, NumbersAre
<1> DEFINE less == c.timer - 1
<1>3. Counted(c) = [c EXCEPT !.timer = less]
  BY Zenon DEF Counted
<1> HIDE DEF less
<1>4. Counted(c) \in [active : {c.active}, phase : {c.phase}, kind : {c.kind}, timer : {less}]
  BY <1>1, <1>3 DEF Cals
<1>5. less \in 0 .. HalfCal
  BY <1>2 DEF less
<1> QED BY <1>2, <1>4, <1>5 DEF Cals

LEMMA DarkStepOK ==
  ASSUME NEW c \in Cals, c.active, c.phase = "dark" PROVE CalOK(DarkStep(c))
<1>1. "complete" \in {"idle", "complete"} /\ HalfCal \in 0 .. HalfCal /\ HalfCal > 0
      /\ c.active \in BOOLEAN /\ c.kind \in Kinds /\ c.timer \in 0 .. HalfCal
  BY CalIs, NumbersAre
<1>2. CASE c.kind = "dark" /\ c.timer <= 0
  <2>1. DarkStep(c) = Ended(c, "complete")
    BY <1>2 DEF DarkStep
  <2> QED BY <1>1, <2>1, EndedOK
<1>3. CASE c.kind = "dark" /\ ~(c.timer <= 0)
  <2>1. DarkStep(c) = c /\ c.timer > 0
    BY <1>1, <1>3 DEF DarkStep
  <2> QED BY <1>1, <2>1 DEF CalOK
<1>4. CASE c.kind # "dark"
  <2>1. DarkStep(c) = [c EXCEPT !.phase = "flat", !.timer = HalfCal]
    BY <1>1, <1>4 DEF DarkStep
  <2>2. DarkStep(c) \in [active : {c.active}, phase : {"flat"}, kind : {c.kind},
                         timer : {HalfCal}]
    BY <2>1 DEF Cals
  <2>3. /\ DarkStep(c) \in Cals /\ DarkStep(c).active = c.active
        /\ DarkStep(c).phase = "flat" /\ DarkStep(c).timer = HalfCal
    BY <1>1, <2>2 DEF Cals, Phases
  <2> QED BY <1>1, <2>3 DEF CalOK
<1> QED BY <1>2, <1>3, <1>4

LEMMA FlatStepOK ==
  ASSUME NEW c \in Cals, c.active, c.phase = "flat" PROVE CalOK(FlatStep(c))
<1>1. "complete" \in {"idle", "complete"} /\ c.timer \in 0 .. HalfCal
  BY CalIs
<1>2. CASE c.timer <= 0
  <2>1. FlatStep(c) = Ended(c, "complete")
    BY <1>2 DEF FlatStep
  <2> QED BY <1>1, <2>1, EndedOK
<1>3. CASE ~(c.timer <= 0)
  <2>1. FlatStep(c) = c /\ c.timer > 0
    BY <1>1, <1>3, NumbersAre DEF FlatStep
  <2> QED BY <2>1 DEF CalOK
<1> QED BY <1>2, <1>3

LEMMA AbortedOK == ASSUME NEW c \in Cals PROVE CalOK(Aborted(c))
<1>1. "idle" \in {"idle", "complete"}
  OBVIOUS
<1> QED BY <1>1, EndedOK, Zenon DEF Aborted

LEMMA CalStepOK == ASSUME CalOK(cal) PROVE CalOK(CalKept(CalStep))
<1>1. cal \in Cals
  BY DEF CalOK
<1>2. CalOK(CalStep)
  <2>1. CASE Lost \/ (cal.active /\ ModeFed = Off)
    BY <1>1, <2>1, AbortedOK, Zenon DEF CalStep
  <2>2. CASE ~(Lost \/ (cal.active /\ ModeFed = Off)) /\ ~cal.active
    BY <2>2, Zenon DEF CalStep
  <2>3. CASE ~(Lost \/ (cal.active /\ ModeFed = Off)) /\ cal.active
    <3>1. /\ Counted(cal) \in Cals /\ Counted(cal).active
          /\ Counted(cal).phase = cal.phase /\ cal.phase \in {"dark", "flat"}
      BY <2>3, CountedIs DEF CalOK
    <3>2. CalStep = IF cal.phase = "dark" THEN DarkStep(Counted(cal)) ELSE FlatStep(Counted(cal))
      BY <2>3, Zenon DEF CalStep
    <3> QED BY <3>1, <3>2, DarkStepOK, FlatStepOK
  <2> QED BY <2>1, <2>2, <2>3
<1> DEFINE c == CalStep
<1> HIDE DEF c
<1>3. CalOK(c) /\ c \in Cals
  BY <1>2 DEF c, CalOK
<1>4. CalOK(CalKept(c))
  BY <1>3, AbortedOK DEF CalKept
<1> QED BY <1>4 DEF c

-----------------------------------------------------------------------------
(* The store.                                                               *)
StoreOK(imgs, cnt, used, broken, shr, ev) ==
  /\ cnt \in Nat /\ used \in Nat /\ broken \subseteq 0 .. Segments - 1
  /\ ~shr => broken = {} /\ StartUsed + SizeOf(imgs) <= used /\ used <= Total({})
  /\ ~ev => cnt = Len(imgs)

LEMMA TotalIs ==
  /\ \A b \in SUBSET (0 .. Segments - 1) : Total(b) \in Nat
  /\ Total({}) = Segments * SegmentSize
<1>1. Segments \in Nat /\ SegmentSize \in Nat
  BY NumbersAre
<1>2. ASSUME NEW b \in SUBSET (0 .. Segments - 1) PROVE Total(b) \in Nat
  <2>1. IsFiniteSet(0 .. Segments - 1) /\ Cardinality(0 .. Segments - 1) = Segments
    <3>1. 0 \in Int /\ Segments - 1 \in Int
      BY <1>1
    <3> QED BY <1>1, <3>1, FS_Interval
  <2>2. IsFiniteSet(b) /\ Cardinality(b) <= Segments
    BY <2>1, FS_Subset
  <2>3. Cardinality(b) \in Nat
    BY <2>2, FS_CardinalityType
  <2>4. Segments - Cardinality(b) \in Nat
    BY <1>1, <2>2, <2>3
  <2>5. \A x, y \in Nat : x * y \in Nat
    OBVIOUS
  <2> QED BY <1>1, <2>4, <2>5, Zenon DEF Total
<1>3. Total({}) = Segments * SegmentSize
  <2>1. Cardinality({}) = 0 /\ Segments - 0 = Segments
    BY <1>1, FS_EmptySet
  <2> QED BY <2>1, Zenon DEF Total
<1> QED BY <1>2, <1>3

-----------------------------------------------------------------------------
(* The inductive invariant.                                                 *)
PowerOK == mode \in Off .. Imaging /\ line \in BOOLEAN /\ devices \subseteq Devices
DetectorOK == ready \in BOOLEAN /\ settled \in 0 .. Settle /\ fine \in BOOLEAN
ImagesOK ==
  /\ CatalogueOK(images) /\ strip \in [left : Nat, scene : Nat] /\ StripOK(images, strip)
  /\ next_scene \in Nat /\ next_scene >= First
  /\ ~restarted => ScenesOK(images, next_scene)
CountsOK == StoreOK(images, image_count, mem, bad, shrunk, evicted)
DutiesOK ==
  /\ CalOK(cal) /\ valid \in BOOLEAN
  /\ transfer \in [active : BOOLEAN, left : Nat]
  /\ transfer.active => transfer.left > 0

PayloadInv == PowerOK /\ DetectorOK /\ ImagesOK /\ CountsOK /\ DutiesOK

LEMMA PowerStays == ASSUME PowerOK, UNCHANGED power PROVE PowerOK'
BY DEF PowerOK, power
LEMMA DetectorStays == ASSUME DetectorOK, UNCHANGED detector PROVE DetectorOK'
BY DEF DetectorOK, detector
LEMMA ImagesStay ==
  ASSUME ImagesOK, UNCHANGED <<images, strip, next_scene, restarted>> PROVE ImagesOK'
BY DEF ImagesOK
LEMMA CountsStay ==
  ASSUME CountsOK, UNCHANGED <<images, image_count, mem, bad, shrunk, evicted>> PROVE CountsOK'
BY DEF CountsOK
LEMMA DutiesStay == ASSUME DutiesOK, UNCHANGED <<calibration, transfer>> PROVE DutiesOK'
BY DEF DutiesOK, calibration

LEMMA StartingStrip ==
  /\ [left |-> 0, scene |-> 0] \in [left : Nat, scene : Nat]
  /\ CatalogueOK(<< >>) /\ \A st : StripOK(<< >>, st) /\ \A next : ScenesOK(<< >>, next)
  /\ SizeOf(<< >>) = 0
<1>1. << >> \in Seq(Image) /\ Len(<< >>) = 0 /\ 1 .. 0 = {}
  OBVIOUS
<1>2. SizeOf(<< >>) = 0
  <2>1. Sized(<< >>)
    BY <1>1 DEF Sized
  <2>2. PICK t : Adding(<< >>, t) /\ SizeOf(<< >>) = t[0]
    BY <1>1, <2>1, SumIs
  <2> QED BY <2>2 DEF Adding
<1>3. CatalogueOK(<< >>)
  BY <1>1, NumbersAre DEF CatalogueOK
<1>4. \A st : StripOK(<< >>, st)
  BY <1>1 DEF StripOK
<1>5. \A next : ScenesOK(<< >>, next)
  BY <1>1 DEF ScenesOK
<1>6. [left |-> 0, scene |-> 0] \in [left : Nat, scene : Nat]
  OBVIOUS
<1> QED BY <1>2, <1>3, <1>4, <1>5, <1>6

LEMMA InvInit == Init => PayloadInv
<1> SUFFICES ASSUME Init PROVE PayloadInv
  OBVIOUS
<1>1. PowerOK /\ DetectorOK
  <2>1. mode = Off /\ line \in BOOLEAN /\ devices = Devices
    BY DEF Init
  <2>2. PowerOK
    BY <2>1 DEF PowerOK, Off, Imaging
  <2>3. ready \in BOOLEAN /\ fine \in BOOLEAN
    BY Zenon DEF Init
  <2>4. settled = 0 /\ 0 \in 0 .. Settle
    BY NumbersAre DEF Init
  <2>5. DetectorOK
    BY <2>3, <2>4 DEF DetectorOK
  <2> QED BY <2>2, <2>5
<1>2. images = << >> /\ strip = [left |-> 0, scene |-> 0] /\ next_scene = First
      /\ image_count = 0 /\ mem = StartUsed /\ bad = {}
  BY DEF Init
<1>3. ImagesOK
  BY <1>2, StartingStrip, NumbersAre DEF ImagesOK
<1>4. CountsOK
  <2>1. Len(<< >>) = 0 /\ {} \subseteq 0 .. Segments - 1
    OBVIOUS
  <2>2. StartUsed + 0 <= StartUsed /\ StartUsed <= Total({})
    BY NumbersAre, TotalIs
  <2> QED BY <1>2, <2>1, <2>2, StartingStrip, NumbersAre DEF CountsOK, StoreOK
<1>5. DutiesOK
  <2>1. NoCal = cal /\ valid = FALSE /\ transfer = [active |-> FALSE, left |-> 0]
    BY DEF Init
  <2>2. CalOK(NoCal)
    BY NumbersAre DEF NoCal, CalOK, Cals, Phases, Kinds
  <2> QED BY <2>1, <2>2 DEF DutiesOK
<1> QED BY <1>1, <1>3, <1>4, <1>5 DEF PayloadInv

-----------------------------------------------------------------------------
(* The tick, part by part.                                                  *)
LEMMA TransferredOK ==
  ASSUME transfer \in [active : BOOLEAN, left : Nat], transfer.active => transfer.left > 0,
         NEW t, t = Transferred
  PROVE  t \in [active : BOOLEAN, left : Nat] /\ (t.active => t.left > 0)
<1>1. transfer.left \in Nat /\ transfer.active \in BOOLEAN /\ Rate \in Nat
  BY NumbersAre
<1>2. CASE transfer.active
  <2> DEFINE more == transfer.left > Rate rest == AtLeast(transfer.left - Rate, 0)
  <2>1. t = [active |-> more, left |-> rest]
    BY <1>2, Zenon DEF Transferred
  <2>2. more \in BOOLEAN
    OBVIOUS
  <2>3. rest \in Nat /\ (more => rest > 0)
    BY <1>1 DEF AtLeast
  <2> HIDE DEF more, rest
  <2> QED BY <2>1, <2>2, <2>3
<1>3. CASE ~transfer.active
  <2>1. t = transfer
    BY <1>3, Zenon DEF Transferred
  <2> QED BY <2>1
<1> QED BY <1>2, <1>3

LEMMA TickInv == ASSUME PayloadInv, Tick PROVE PayloadInv'
<1>1. PICK cold \in BOOLEAN, p \in Pointing :
        /\ mode' = IF "fpa" \in devices THEN ModeFed ELSE Off
        /\ ready' = ("fpa" \in devices /\ ReadyAt(cold))
        /\ settled' = IF "fpa" \in devices THEN SettledAt(cold) ELSE 0
        /\ fine' = (p = "fine")
        /\ mem' = Streamed(ReadyAt(cold))
        /\ images' = Scanned(p)
        /\ strip' = [strip EXCEPT !.left = AtLeast(@ - 1, 0)]
        /\ cal' = CalKept(CalStep)
        /\ valid' = (valid \/ (cal.active /\ CalStep.phase = "complete" /\ cal.kind = "both"))
        /\ transfer' = Transferred
        /\ UNCHANGED <<line, devices, image_count, bad, next_scene, history, bounds>>
  BY Zenon DEF Tick
<1>2. PowerOK /\ DetectorOK /\ ImagesOK /\ CountsOK /\ DutiesOK
  BY DEF PayloadInv
<1>3. PowerOK'
  BY <1>1, <1>2 DEF PowerOK, ModeFed, Off, Imaging
<1>4. DetectorOK'
  <2>1. ready' \in BOOLEAN /\ fine' \in BOOLEAN
    <3>1. ("fpa" \in devices /\ ReadyAt(cold)) \in BOOLEAN /\ (p = "fine") \in BOOLEAN
      BY Zenon
    <3> QED BY <1>1, <3>1, Zenon
  <2>2. settled \in 0 .. Settle /\ Settle \in Nat \ {0}
    BY <1>2, NumbersAre DEF DetectorOK
  <2>3. SettledAt(cold) \in 0 .. Settle
    BY <2>2 DEF SettledAt, AtMost
  <2>4. settled' \in 0 .. Settle
    BY <1>1, <2>2, <2>3
  <2> QED BY <2>1, <2>4 DEF DetectorOK
<1>5. /\ CatalogueOK(images') /\ StripOK(images', strip') /\ Len(images') = Len(images)
      /\ \A next : ScenesOK(images, next) => ScenesOK(images', next)
      /\ SizeOf(images') = SizeOf(images) /\ strip' \in [left : Nat, scene : Nat]
  <2>1. CatalogueOK(images) /\ StripOK(images, strip) /\ strip \in [left : Nat, scene : Nat]
    BY <1>2 DEF ImagesOK
  <2> DEFINE fewer == AtLeast(strip.left - 1, 0)
  <2>2. fewer \in Nat
    BY <2>1 DEF AtLeast
  <2>3. strip' = [strip EXCEPT !.left = fewer]
    BY <1>1
  <2> HIDE DEF fewer
  <2>4. strip' \in [left : Nat, scene : Nat] /\ strip'.left = fewer
        /\ strip'.scene = strip.scene
    BY <2>1, <2>2, <2>3
  <2>5. strip'.left = AtLeast(strip.left - 1, 0)
    BY <2>4 DEF fewer
  <2> QED BY <1>1, <2>1, <2>4, <2>5, ScannedKeeps
<1>6. ImagesOK'
  <2>1. next_scene' = next_scene /\ restarted' = restarted
    BY <1>1 DEF history
  <2> QED BY <1>2, <1>5, <2>1 DEF ImagesOK
<1>7. CountsOK'
  <2>1. /\ image_count' = image_count /\ bad' = bad /\ shrunk' = shrunk /\ evicted' = evicted
    BY <1>1 DEF history
  <2>2. /\ image_count \in Nat /\ mem \in Nat /\ bad \subseteq 0 .. Segments - 1
        /\ (~shrunk => bad = {} /\ StartUsed + SizeOf(images) <= mem /\ mem <= Total({}))
        /\ (~evicted => image_count = Len(images))
    BY <1>2 DEF CountsOK, StoreOK
  <2>3. Total(bad) \in Nat /\ Stream \in Nat /\ StartUsed \in Nat
    BY <2>2, TotalIs, NumbersAre
  <2>4. mem' = AtMost(Total(bad), mem + Stream) \/ mem' = mem
    BY <1>1 DEF Streamed
  <2>5. mem' \in Nat /\ (mem <= Total(bad) => mem <= mem' /\ mem' <= Total(bad))
    <3>1. ASSUME NEW a \in Nat, NEW m \in Nat, NEW st \in Nat, NEW q, q = AtMost(a, m + st)
          PROVE  q \in Nat /\ (m <= a => m <= q /\ q <= a)
      <4>1. CASE a < m + st
        <5>1. q = a
          BY <3>1, <4>1 DEF AtMost
        <5> QED BY <5>1
      <4>2. CASE ~(a < m + st)
        <5>1. q = m + st
          BY <3>1, <4>2 DEF AtMost
        <5>2. m <= m + st /\ m + st <= a
          BY <4>2
        <5> QED BY <5>1, <5>2
      <4> QED BY <4>1, <4>2
    <3>2. mem \in Nat /\ Total(bad) \in Nat /\ Stream \in Nat
      BY <2>2, <2>3, Zenon
    <3>3. CASE mem' = AtMost(Total(bad), mem + Stream)
      BY <3>1, <3>2, <3>3, Zenon
    <3>4. CASE mem' = mem
      <4>1. \A m \in Nat : m <= m
        OBVIOUS
      <4> QED BY <3>2, <3>4, <4>1, Zenon
    <3> QED BY <2>4, <3>3, <3>4
  <2>6. SizeOf(images) \in Nat
    BY <1>2, SizedImages, SumIs DEF ImagesOK, CatalogueOK
  <2>7. ~shrunk => bad = {} /\ StartUsed + SizeOf(images) <= mem' /\ mem' <= Total({})
    <3> SUFFICES ASSUME ~shrunk
                 PROVE  bad = {} /\ StartUsed + SizeOf(images) <= mem' /\ mem' <= Total({})
      BY Zenon
    <3>1. bad = {} /\ StartUsed + SizeOf(images) <= mem /\ mem <= Total({})
      BY <2>2, Zenon
    <3>2. mem <= Total(bad)
      BY <3>1
    <3>3. mem <= mem' /\ mem' <= Total(bad)
      BY <2>5, <3>2, Zenon
    <3>4. \A x, y, m, n \in Nat : x + y <= m /\ m <= n => x + y <= n
      OBVIOUS
    <3>5. StartUsed + SizeOf(images) <= mem'
      BY <2>2, <2>3, <2>5, <2>6, <3>1, <3>3, <3>4, Zenon
    <3>6. mem' <= Total({})
      BY <3>1, <3>3
    <3> QED BY <3>1, <3>5, <3>6
  <2> QED BY <1>5, <2>1, <2>2, <2>5, <2>7 DEF CountsOK, StoreOK
<1>8. DutiesOK'
  <2>1. CalOK(cal') /\ transfer' \in [active : BOOLEAN, left : Nat]
        /\ (transfer'.active => transfer'.left > 0)
    BY <1>1, <1>2, CalStepOK, TransferredOK DEF DutiesOK
  <2>2. valid' \in BOOLEAN
    <3>1. (valid \/ (cal.active /\ CalStep.phase = "complete" /\ cal.kind = "both")) \in BOOLEAN
      BY Zenon
    <3> QED BY <1>1, <3>1, Zenon
  <2> QED BY <2>1, <2>2 DEF DutiesOK
<1> QED BY <1>3, <1>4, <1>6, <1>7, <1>8 DEF PayloadInv

-----------------------------------------------------------------------------
(* The telecommands.                                                        *)
LEMMA SetModeInv ==
  ASSUME PayloadInv, NEW m \in Off .. Imaging, SetMode(m) PROVE PayloadInv'
<1>1. /\ mode' = m
      /\ UNCHANGED <<line, devices, detector, store, next_scene, calibration, transfer,
                     history, bounds>>
  BY DEF SetMode
<1>2. PowerOK /\ DetectorOK /\ ImagesOK /\ CountsOK /\ DutiesOK
  BY DEF PayloadInv
<1>3. PowerOK'
  BY <1>1, <1>2 DEF PowerOK
<1>4. ImagesOK' /\ CountsOK'
  BY <1>1, <1>2, ImagesStay, CountsStay DEF store, history
<1>5. DetectorOK' /\ DutiesOK'
  BY <1>1, <1>2, DetectorStays, DutiesStay
<1> QED BY <1>3, <1>4, <1>5 DEF PayloadInv

LEMMA CaptureInv ==
  ASSUME PayloadInv, NEW f \in Frames, NEW req \in Requested \cup {AutoScene}, Capture(f, req)
  PROVE  PayloadInv'
<1> DEFINE img == [scene |-> SceneOf(req), size |-> f.size, status |-> f.status,
                   left |-> f.lines, spoiled |-> FALSE, cut |-> FALSE]
<1>1. /\ req = AutoScene \/ req \notin SceneIds
      /\ Room(f) /\ next_scene' = NextScene(req) /\ images' = Catalogued(img)
      /\ evicted' = (evicted \/ Len(images) = CatalogueMax)
      /\ strip' = [left |-> f.lines, scene |-> SceneOf(req)]
      /\ image_count' = image_count + 1 /\ mem' = mem + f.size
      /\ UNCHANGED <<power, detector, bad, calibration, transfer, shrunk, restarted, events>>
  BY DEF Capture
<1>2. PowerOK /\ DetectorOK /\ ImagesOK /\ CountsOK /\ DutiesOK
  BY DEF PayloadInv
<1>3. /\ CatalogueOK(images) /\ next_scene \in Nat /\ next_scene >= First
      /\ (~restarted => ScenesOK(images, next_scene))
  BY <1>2 DEF ImagesOK
<1>4. f.size \in Nat \ {0} /\ f.lines \in Nat \ {0} /\ f.status \in Statuses
  BY FrameIs
<1>5. /\ SceneOf(req) \in Nat /\ NextScene(req) \in Nat /\ next_scene <= NextScene(req)
      /\ SceneOf(req) <= NextScene(req)
      /\ (SceneOf(req) = req /\ req \notin SceneIds) \/ SceneOf(req) = next_scene + 1
  <2>1. req \in Nat
    BY PayloadAssumption DEF AutoScene
  <2>2. CASE req = AutoScene
    BY <1>3, <2>2 DEF SceneOf, NextScene
  <2>3. CASE req # AutoScene
    BY <1>1, <1>3, <2>1, <2>3 DEF SceneOf, NextScene, AtLeast
  <2> QED BY <2>2, <2>3
<1>6. /\ img \in Image /\ img.size = f.size /\ img.left = f.lines /\ img.scene = SceneOf(req)
      /\ ~img.spoiled /\ ~img.cut
  <2>1. FALSE \in BOOLEAN
    OBVIOUS
  <2> QED BY <1>4, <1>5, <2>1 DEF Image
<1> HIDE DEF img
<1>7. Framed(img)
  BY <1>4, <1>6 DEF Framed, FrameOf
<1>8. strip' \in [left : Nat, scene : Nat] /\ strip'.left = img.left /\ strip'.scene = img.scene
  BY <1>1, <1>4, <1>5, <1>6
<1>9. /\ CatalogueOK(images') /\ StripOK(images', strip')
      /\ Len(images) # CatalogueMax => Len(images') = Len(images) + 1
      /\ SizeOf(images') <= SizeOf(images) + img.size
      /\ SizeOf(images') \in Nat /\ SizeOf(images) \in Nat
      /\ \A next, more :
           /\ ScenesOK(images, next) /\ next \in Nat /\ more \in Nat
           /\ next <= more /\ img.scene <= more /\ img.scene \notin SceneIds
           => ScenesOK(images', more)
  BY <1>1, <1>3, <1>6, <1>7, <1>8, CataloguedKeeps
<1>10. ImagesOK'
  <2>1. ASSUME ~restarted PROVE ScenesOK(images', NextScene(req))
    <3>1. ScenesOK(images, next_scene)
      BY <1>3, <2>1
    <3>2. \A i \in DOMAIN images : images[i].scene # next_scene + 1
      <4>1. DOMAIN images = 1 .. Len(images) /\ \A i \in 1 .. Len(images) : images[i] \in Image
        BY <1>3 DEF CatalogueOK
      <4>2. \A i \in 1 .. Len(images) : images[i].scene \in Nat /\ images[i].scene <= next_scene
        BY <3>1, <4>1, ImageIs DEF ScenesOK
      <4>3. \A a, b \in Nat : a <= b => a # b + 1
        OBVIOUS
      <4> QED BY <1>3, <4>1, <4>2, <4>3, Zenon
    <3>3. next_scene + 1 \notin SceneIds
      BY <3>2 DEF SceneIds
    <3>4. img.scene \notin SceneIds
      BY <1>5, <1>6, <3>3
    <3>5. img.scene <= NextScene(req)
      BY <1>5, <1>6
    <3> QED BY <1>3, <1>5, <1>9, <3>1, <3>4, <3>5, Zenon
  <2>2. restarted' = restarted /\ next_scene' = NextScene(req)
    BY <1>1
  <2>3. NextScene(req) >= First
    BY <1>3, <1>5, NumbersAre
  <2> QED BY <1>5, <1>8, <1>9, <2>1, <2>2, <2>3 DEF ImagesOK
<1>11. CountsOK'
  <2>1. /\ image_count \in Nat /\ mem \in Nat /\ bad \subseteq 0 .. Segments - 1
        /\ (~shrunk => bad = {} /\ StartUsed + SizeOf(images) <= mem /\ mem <= Total({}))
        /\ (~evicted => image_count = Len(images))
    BY <1>2 DEF CountsOK, StoreOK
  <2>2. bad' = bad /\ shrunk' = shrunk /\ mem' = mem + f.size /\ image_count' = image_count + 1
    BY <1>1
  <2>3. StartUsed \in Nat /\ Total(bad) \in Nat
    BY <2>1, TotalIs, NumbersAre
  <2>4. mem + f.size <= Total(bad)
    <3>1. Total(bad) - mem >= f.size
      BY <1>1 DEF Room
    <3> QED BY <1>4, <2>1, <2>3, <3>1
  <2>5. ASSUME ~shrunk
        PROVE  bad = {} /\ StartUsed + SizeOf(images') <= mem + f.size
               /\ mem + f.size <= Total({})
    <3>1. bad = {} /\ StartUsed + SizeOf(images) <= mem
      BY <2>1, <2>5, Zenon
    <3>2. mem + f.size <= Total({})
      BY <2>4, <3>1
    <3>3. \A s, a, b, m, z \in Nat : s + a <= m /\ b <= a + z => s + b <= m + z
      OBVIOUS
    <3>4. SizeOf(images') <= SizeOf(images) + f.size /\ f.size \in Nat
      BY <1>4, <1>6, <1>9
    <3>5. StartUsed + SizeOf(images') <= mem + f.size
      BY <1>9, <2>1, <2>3, <3>1, <3>3, <3>4, Zenon
    <3> QED BY <3>1, <3>2, <3>5
  <2>6. ASSUME ~evicted' PROVE image_count' = Len(images')
    <3>1. ~evicted /\ Len(images) # CatalogueMax
      BY <1>1, <2>6, Zenon
    <3> QED BY <1>9, <2>1, <2>2, <3>1
  <2>7. image_count' \in Nat /\ mem' \in Nat
    BY <1>4, <2>1, <2>2
  <2>8. ~shrunk' => bad' = {} /\ StartUsed + SizeOf(images') <= mem' /\ mem' <= Total({})
    BY <2>2, <2>5
  <2>9. bad' \subseteq 0 .. Segments - 1
    BY <2>1, <2>2
  <2> QED BY <2>6, <2>7, <2>8, <2>9, Zenon DEF CountsOK, StoreOK
<1>12. PowerOK' /\ DetectorOK' /\ DutiesOK'
  BY <1>1, <1>2, PowerStays, DetectorStays, DutiesStay
<1> QED BY <1>10, <1>11, <1>12 DEF PayloadInv

(* The first image of a scene, which Delete and InitiateTransfer go to.     *)
LEMMA FirstIs ==
  ASSUME CatalogueOK(images), NEW scene \in SceneIds
  PROVE  FirstOf(scene) \in 1 .. Len(images)
<1> DEFINE Its == {i \in 1 .. Len(images) : images[i].scene = scene}
<1>1. DOMAIN images = 1 .. Len(images) /\ Len(images) \in Nat
  BY DEF CatalogueOK
<1>2. Its # {}
  BY <1>1 DEF SceneIds
<1>3. Its \subseteq Nat
  BY <1>1
<1>4. PICK i \in Its : \A k \in Its : i <= k
  BY <1>2, <1>3, LeastExists
<1>5. \E j \in DOMAIN images :
        images[j].scene = scene
        /\ \A k \in DOMAIN images : images[k].scene = scene => j <= k
  BY <1>1, <1>4
<1>6. FirstOf(scene) \in DOMAIN images
  BY <1>5, Zenon DEF FirstOf
<1> QED BY <1>1, <1>6

LEMMA DeleteInv ==
  ASSUME PayloadInv, NEW scene \in SceneIds, Delete(scene) PROVE PayloadInv'
<1> DEFINE k == FirstOf(scene)
           gone == images[k].size
<1>1. /\ mem' = AtLeast(mem - gone, 0) /\ image_count' = AtLeast(image_count - 1, 0)
      /\ images' = RemoveAt(images, k)
      /\ UNCHANGED <<power, detector, bad, strip, next_scene, calibration, transfer>>
      /\ UNCHANGED <<shrunk, evicted, restarted>>
  BY DEF Delete, Freed, OnlyCommand, history
<1>2. PowerOK /\ DetectorOK /\ ImagesOK /\ CountsOK /\ DutiesOK
  BY DEF PayloadInv
<1>3. /\ images \in Seq(Image) /\ Len(images) <= CatalogueMax /\ CatalogueOK(images)
      /\ \A i \in 1 .. Len(images) : Framed(images[i]) /\ Honest(images[i])
      /\ strip \in [left : Nat, scene : Nat] /\ StripOK(images, strip)
      /\ next_scene \in Nat /\ next_scene >= First
      /\ (~restarted => ScenesOK(images, next_scene))
  BY <1>2 DEF ImagesOK, CatalogueOK
<1>4. k \in 1 .. Len(images)
  BY <1>3, FirstIs
<1>5. gone \in Nat
  BY <1>3, <1>4, ImageIs
<1> HIDE DEF k, gone
<1>6. images' \in Seq(Image) /\ Lacks(images', images, k)
  BY <1>1, <1>3, <1>4, RemovedLacks
<1>7. /\ \A i \in 1 .. Len(images') : Framed(images'[i]) /\ Honest(images'[i])
      /\ StripOK(images', strip)
      /\ (ScenesOK(images, next_scene) => ScenesOK(images', next_scene))
      /\ Len(images') = Len(images) - 1
      /\ SizeOf(images) = SizeOf(images') + images[k].size
  BY <1>3, <1>4, <1>6, LackingKeeps
<1>8. Len(images) \in Nat /\ Len(images) > 0 /\ Len(images') \in Nat
  BY <1>3, <1>4, <1>6
<1>9. ImagesOK'
  <2>1. Len(images') <= CatalogueMax
    BY <1>3, <1>7, <1>8, NumbersAre
  <2>2. CatalogueOK(images')
    BY <1>6, <1>7, <2>1 DEF CatalogueOK
  <2>3. strip' = strip /\ next_scene' = next_scene /\ restarted' = restarted
    BY <1>1
  <2> QED BY <1>3, <1>7, <2>2, <2>3 DEF ImagesOK
<1>10. CountsOK'
  <2>1. /\ image_count \in Nat /\ mem \in Nat /\ bad \subseteq 0 .. Segments - 1
        /\ (~shrunk => bad = {} /\ StartUsed + SizeOf(images) <= mem /\ mem <= Total({}))
        /\ (~evicted => image_count = Len(images))
    BY <1>2 DEF CountsOK, StoreOK
  <2>2. bad' = bad /\ shrunk' = shrunk /\ evicted' = evicted
    BY <1>1
  <2>3. StartUsed \in Nat /\ Total({}) \in Nat
    BY TotalIs, NumbersAre
  <2>4. SizeOf(images') \in Nat /\ SizeOf(images) = SizeOf(images') + gone
    BY <1>6, <1>7, SizedImages, SumIs DEF gone
  <2>5. ASSUME NEW m \in Nat, NEW z \in Nat
        PROVE  AtLeast(m - z, 0) \in Nat /\ AtLeast(m - z, 0) <= m /\ m <= AtLeast(m - z, 0) + z
    BY DEF AtLeast
  <2>6. mem' \in Nat /\ mem' <= mem /\ mem <= mem' + gone
    BY <1>1, <1>5, <2>1, <2>5
  <2>7. image_count' \in Nat /\ (~evicted => image_count' = Len(images'))
    BY <1>1, <1>7, <1>8, <2>1 DEF AtLeast
  <2>8. ASSUME ~shrunk
        PROVE  bad = {} /\ StartUsed + SizeOf(images') <= mem' /\ mem' <= Total({})
    <3>1. bad = {} /\ StartUsed + (SizeOf(images') + gone) <= mem /\ mem <= Total({})
      BY <2>1, <2>4, <2>8, Zenon
    <3>2. \A s, a, g, m, n, t \in Nat :
            s + (a + g) <= m /\ m <= n + g /\ n <= m /\ m <= t => s + a <= n /\ n <= t
      OBVIOUS
    <3>3. StartUsed + SizeOf(images') <= mem' /\ mem' <= Total({})
      BY <1>5, <2>1, <2>3, <2>4, <2>6, <3>1, <3>2, Zenon
    <3> QED BY <3>1, <3>3
  <2>9. ~shrunk' => bad' = {} /\ StartUsed + SizeOf(images') <= mem' /\ mem' <= Total({})
    BY <2>2, <2>8
  <2> QED BY <2>1, <2>2, <2>6, <2>7, <2>9 DEF CountsOK, StoreOK
<1>11. PowerOK' /\ DetectorOK' /\ DutiesOK'
  BY <1>1, <1>2, PowerStays, DetectorStays, DutiesStay
<1> QED BY <1>9, <1>10, <1>11 DEF PayloadInv

LEMMA InitiateTransferInv ==
  ASSUME PayloadInv, NEW scene \in SceneIds, InitiateTransfer(scene) PROVE PayloadInv'
<1> DEFINE size == images[FirstOf(scene)].size
<1>1. /\ transfer' = [active |-> TRUE, left |-> size]
      /\ UNCHANGED <<power, detector, store, next_scene, calibration>>
      /\ UNCHANGED <<shrunk, evicted, restarted>>
  BY DEF InitiateTransfer, OnlyCommand, history
<1>2. PowerOK /\ DetectorOK /\ ImagesOK /\ CountsOK /\ DutiesOK
  BY DEF PayloadInv
<1>3. size \in Nat \ {0}
  <2>1. CatalogueOK(images)
    BY <1>2 DEF ImagesOK
  <2>2. Framed(images[FirstOf(scene)])
    BY <2>1, FirstIs DEF CatalogueOK
  <2> QED BY <2>2, FrameIs DEF Framed, FrameOf
<1> HIDE DEF size
<1>4. DutiesOK'
  <2>1. transfer' \in [active : BOOLEAN, left : Nat] /\ transfer'.left > 0
    <3>1. TRUE \in BOOLEAN
      OBVIOUS
    <3> QED BY <1>1, <1>3, <3>1
  <2>2. cal' = cal /\ valid' = valid
    BY <1>1 DEF calibration
  <2> QED BY <1>2, <2>1, <2>2 DEF DutiesOK
<1>5. PowerOK' /\ DetectorOK'
  BY <1>1, <1>2, PowerStays, DetectorStays
<1>6. ImagesOK' /\ CountsOK'
  BY <1>1, <1>2, ImagesStay, CountsStay DEF store
<1> QED BY <1>4, <1>5, <1>6 DEF PayloadInv

(* The telecommands that only change the calibration.                       *)
LEMMA CalibrationInv ==
  ASSUME PayloadInv, CalOK(cal'),
         UNCHANGED <<power, detector, store, next_scene, valid, transfer>>,
         UNCHANGED <<history, events>>
  PROVE  PayloadInv'
<1>1. PowerOK /\ DetectorOK /\ ImagesOK /\ CountsOK /\ DutiesOK
  BY DEF PayloadInv
<1>2. PowerOK' /\ DetectorOK'
  BY <1>1, PowerStays, DetectorStays
<1>3. ImagesOK' /\ CountsOK'
  BY <1>1, ImagesStay, CountsStay DEF store, history
<1>4. DutiesOK'
  BY <1>1 DEF DutiesOK
<1> QED BY <1>2, <1>3, <1>4 DEF PayloadInv

LEMMA StartCalibrationInv ==
  ASSUME PayloadInv, NEW kind \in Kinds, StartCalibration(kind) PROVE PayloadInv'
<1> DEFINE phase == IF kind = "flat" THEN "flat" ELSE "dark"
<1>1. /\ cal' = [active |-> TRUE, phase |-> phase, kind |-> kind, timer |-> HalfCal]
      /\ UNCHANGED <<power, detector, store, next_scene, valid, transfer>>
      /\ UNCHANGED <<history, events>>
  BY DEF StartCalibration, OnlyCommand
<1>2. TRUE \in BOOLEAN /\ phase \in Phases /\ phase \in {"dark", "flat"}
  BY DEF Phases
<1>3. HalfCal \in 0 .. HalfCal /\ HalfCal > 0
  BY NumbersAre
<1> HIDE DEF phase
<1>4. cal' \in Cals /\ cal'.active /\ cal'.phase = phase /\ cal'.timer = HalfCal
  BY <1>1, <1>2, <1>3 DEF Cals
<1>5. CalOK(cal')
  BY <1>2, <1>3, <1>4 DEF CalOK
<1> QED BY <1>1, <1>5, CalibrationInv

LEMMA StopCalibrationInv == ASSUME PayloadInv, StopCalibration PROVE PayloadInv'
<1> DEFINE a == Aborted(cal)
<1>1. /\ cal' = [a EXCEPT !.timer = 0]
      /\ UNCHANGED <<power, detector, store, next_scene, valid, transfer>>
      /\ UNCHANGED <<history, events>>
  BY DEF StopCalibration, OnlyCommand
<1>2. cal \in Cals
  BY DEF PayloadInv, DutiesOK, CalOK
<1>3. a \in Cals /\ a.phase = "idle" /\ (a.active <=> a.phase \in {"dark", "flat"})
  <2>1. "idle" \in {"idle", "complete"}
    OBVIOUS
  <2>2. CalOK(Ended(cal, "idle")) /\ Ended(cal, "idle").phase = "idle"
    BY <1>2, <2>1, EndedOK
  <2> QED BY <2>2 DEF Aborted, CalOK
<1> HIDE DEF a
<1>4. a.active \in BOOLEAN /\ ~a.active /\ a.phase \in Phases /\ a.kind \in Kinds
  BY <1>3, CalIs
<1>5. cal' \in [active : {a.active}, phase : {a.phase}, kind : {a.kind}, timer : {0}]
  BY <1>1, <1>3 DEF Cals
<1>6. 0 \in 0 .. HalfCal
  BY NumbersAre
<1>7. cal' \in Cals /\ cal'.phase = a.phase /\ ~cal'.active
  BY <1>4, <1>5, <1>6 DEF Cals
<1>8. CalOK(cal')
  BY <1>3, <1>7 DEF CalOK
<1> QED BY <1>1, <1>8, CalibrationInv

-----------------------------------------------------------------------------
(* The line, the devices, the segments and the restart.                     *)
LEMMA SwitchLineInv == ASSUME PayloadInv, SwitchLine PROVE PayloadInv'
<1>1. /\ line' = ~line /\ UNCHANGED <<mode, devices, bad, shrunk>> /\ OnlyChange
  BY DEF SwitchLine
<1>2. PowerOK /\ DetectorOK /\ ImagesOK /\ CountsOK /\ DutiesOK
  BY DEF PayloadInv
<1>3. PowerOK'
  <2>1. (~line) \in BOOLEAN
    OBVIOUS
  <2> QED BY <1>1, <1>2, <2>1 DEF PowerOK
<1>4. DetectorOK' /\ DutiesOK'
  BY <1>1, <1>2, DetectorStays, DutiesStay DEF OnlyChange
<1>5. ImagesOK' /\ CountsOK'
  BY <1>1, <1>2, ImagesStay, CountsStay DEF OnlyChange
<1> QED BY <1>3, <1>4, <1>5 DEF PayloadInv

LEMMA SwitchDeviceInv ==
  ASSUME PayloadInv, NEW d \in Devices, SwitchDevice(d) PROVE PayloadInv'
<1>1. /\ devices' = (IF d \in devices THEN devices \ {d} ELSE devices \cup {d})
      /\ UNCHANGED <<mode, line, bad, shrunk>> /\ OnlyChange
  BY DEF SwitchDevice
<1>2. PowerOK /\ DetectorOK /\ ImagesOK /\ CountsOK /\ DutiesOK
  BY DEF PayloadInv
<1>3. PowerOK'
  BY <1>1, <1>2 DEF PowerOK
<1>4. DetectorOK' /\ DutiesOK'
  BY <1>1, <1>2, DetectorStays, DutiesStay DEF OnlyChange
<1>5. ImagesOK' /\ CountsOK'
  BY <1>1, <1>2, ImagesStay, CountsStay DEF OnlyChange
<1> QED BY <1>3, <1>4, <1>5 DEF PayloadInv

(* A segment that goes bad ends what the store promises; clearing segments  *)
(* does not bring it back, nor does it take it away.                        *)
LEMMA SegmentsInv ==
  ASSUME PayloadInv, bad' \subseteq 0 .. Segments - 1, UNCHANGED power, OnlyChange,
         shrunk' \/ (shrunk' = shrunk /\ (bad = {} => bad' = {}))
  PROVE  PayloadInv'
<1>1. PowerOK /\ DetectorOK /\ ImagesOK /\ CountsOK /\ DutiesOK
  BY DEF PayloadInv
<1>2. PowerOK' /\ DetectorOK' /\ DutiesOK'
  BY <1>1, PowerStays, DetectorStays, DutiesStay DEF OnlyChange
<1>3. ImagesOK'
  BY <1>1, ImagesStay DEF OnlyChange
<1>4. CountsOK'
  <2>1. images' = images /\ image_count' = image_count /\ mem' = mem /\ evicted' = evicted
    BY DEF OnlyChange
  <2>2. ~shrunk' => ~shrunk /\ (bad = {} => bad' = {})
    BY Zenon
  <2> QED BY <1>1, <2>1, <2>2 DEF CountsOK, StoreOK
<1> QED BY <1>2, <1>3, <1>4 DEF PayloadInv

LEMMA BadSegmentInv ==
  ASSUME PayloadInv, NEW s \in 0 .. Segments - 1, BadSegment(s) PROVE PayloadInv'
<1>1. bad' = bad \cup {s} /\ shrunk' = TRUE /\ UNCHANGED power /\ OnlyChange
  BY DEF BadSegment
<1>2. bad' \subseteq 0 .. Segments - 1
  BY <1>1 DEF PayloadInv, CountsOK, StoreOK
<1> QED BY <1>1, <1>2, SegmentsInv

LEMMA ClearSegmentsInv ==
  ASSUME PayloadInv, NEW b, b \subseteq bad, ClearSegments(b) PROVE PayloadInv'
<1>1. bad' = b /\ UNCHANGED power /\ shrunk' = shrunk /\ OnlyChange
  BY DEF ClearSegments
<1>2. bad' \subseteq 0 .. Segments - 1 /\ (bad = {} => bad' = {})
  BY <1>1 DEF PayloadInv, CountsOK, StoreOK
<1> QED BY <1>1, <1>2, SegmentsInv

LEMMA RestartInv == ASSUME PayloadInv, Restart PROVE PayloadInv'
<1>1. /\ next_scene' = First /\ restarted' = TRUE
      /\ devices' = Devices
      /\ UNCHANGED <<mode, line, detector, store, calibration, transfer, shrunk, evicted, commands>>
  BY DEF Restart
<1>2. PowerOK /\ DetectorOK /\ ImagesOK /\ CountsOK /\ DutiesOK
  BY DEF PayloadInv
<1>3. PowerOK' /\ DetectorOK' /\ DutiesOK'
  BY <1>1, <1>2, DetectorStays, DutiesStay DEF PowerOK
<1>4. ImagesOK'
  <2>1. images' = images /\ strip' = strip
    BY <1>1 DEF store
  <2>2. First \in Nat /\ First >= First
    BY NumbersAre
  <2> QED BY <1>1, <1>2, <2>1, <2>2 DEF ImagesOK
<1>5. CountsOK'
  BY <1>1, <1>2, CountsStay DEF store
<1> QED BY <1>3, <1>4, <1>5 DEF PayloadInv

LEMMA InvStutter == ASSUME PayloadInv, UNCHANGED vars PROVE PayloadInv'
<1>1. /\ UNCHANGED power /\ UNCHANGED detector /\ UNCHANGED <<calibration, transfer>>
      /\ UNCHANGED <<images, strip, next_scene, restarted>>
      /\ UNCHANGED <<images, image_count, mem, bad, shrunk, evicted>>
  BY DEF vars, store, history
<1> QED BY <1>1, PowerStays, DetectorStays, ImagesStay, CountsStay, DutiesStay DEF PayloadInv

LEMMA InvNext == PayloadInv /\ [Next]_vars => PayloadInv'
<1> SUFFICES ASSUME PayloadInv, [Next]_vars PROVE PayloadInv'
  OBVIOUS
<1>1. CASE Tick
  BY <1>1, TickInv
<1>2. ASSUME NEW m \in Off .. Imaging, SetMode(m) PROVE PayloadInv'
  BY <1>2, SetModeInv
<1>3. ASSUME NEW f \in Frames, NEW req \in Requested \cup {AutoScene}, Capture(f, req)
      PROVE  PayloadInv'
  BY <1>3, CaptureInv
<1>4. ASSUME NEW scene \in SceneIds, Delete(scene) \/ InitiateTransfer(scene)
      PROVE  PayloadInv'
  BY <1>4, DeleteInv, InitiateTransferInv
<1>5. ASSUME NEW kind \in Kinds, StartCalibration(kind) PROVE PayloadInv'
  BY <1>5, StartCalibrationInv
<1>6. CASE StopCalibration \/ SwitchLine \/ Restart
  BY <1>6, StopCalibrationInv, SwitchLineInv, RestartInv
<1>7. ASSUME NEW d \in Devices, SwitchDevice(d) PROVE PayloadInv'
  BY <1>7, SwitchDeviceInv
<1>8. ASSUME NEW s \in 0 .. Segments - 1, BadSegment(s) PROVE PayloadInv'
  BY <1>8, BadSegmentInv
<1>9. ASSUME NEW b, b \subseteq bad, ClearSegments(b) PROVE PayloadInv'
  BY <1>9, ClearSegmentsInv
<1>10. ASSUME NEW s \in 0 .. Segments - 1, ClearSegments(bad \ {s}) PROVE PayloadInv'
  <2>1. bad \ {s} \subseteq bad
    OBVIOUS
  <2> QED BY <1>9, <1>10, <2>1
<1>11. CASE ClearSegments({})
  <2>1. {} \subseteq bad
    OBVIOUS
  <2> QED BY <1>9, <1>11, <2>1
<1>12. CASE UNCHANGED vars
  BY <1>12, InvStutter
<1> QED BY <1>1, <1>2, <1>3, <1>4, <1>5, <1>6, <1>7, <1>8, <1>10, <1>11, <1>12, Zenon
        DEF Next

-----------------------------------------------------------------------------
(* What it says of the properties.                                          *)
LEMMA InvTypes == PayloadInv => TypeOK
<1> SUFFICES ASSUME PayloadInv PROVE TypeOK
  OBVIOUS
<1>1. PowerOK /\ DetectorOK /\ ImagesOK /\ CountsOK /\ DutiesOK
  BY DEF PayloadInv
<1>2. /\ images \in Seq(Image) /\ Len(images) <= CatalogueMax
      /\ \A i \in 1 .. Len(images) : Framed(images[i])
      /\ next_scene >= First
  BY <1>1 DEF ImagesOK, CatalogueOK
<1>3. ASSUME NEW i \in DOMAIN images
      PROVE  /\ images[i].status \in {"OK", "PARTIAL", "CORRUPT"}
             /\ \E f \in Frames : images[i].size = f.size /\ images[i].left \in 0 .. f.lines
  <2>1. images[i] \in Image /\ Framed(images[i])
    BY <1>2
  <2> QED BY <2>1, ImageIs DEF Framed, FrameOf, Statuses
<1>4. mode \in Off .. Imaging /\ devices \subseteq Devices /\ settled \in 0 .. Settle
  BY <1>1 DEF PowerOK, DetectorOK
<1>5. {line, ready, fine, valid, transfer.active} \subseteq BOOLEAN
  <2>1. line \in BOOLEAN /\ ready \in BOOLEAN /\ fine \in BOOLEAN /\ valid \in BOOLEAN
    BY <1>1, Zenon DEF PowerOK, DetectorOK, DutiesOK
  <2>2. transfer.active \in BOOLEAN
    BY <1>1 DEF DutiesOK
  <2> QED BY <2>1, <2>2, Zenon
<1>6. image_count \in Nat /\ mem \in Nat /\ bad \subseteq 0 .. Segments - 1
  BY <1>1 DEF CountsOK, StoreOK
<1>7. /\ cal.phase \in {"idle", "dark", "flat", "complete"}
      /\ cal.active <=> cal.phase \in {"dark", "flat"}
      /\ cal.kind \in Kinds /\ cal.timer \in 0 .. HalfCal
  BY <1>1, CalIs DEF DutiesOK, CalOK, Phases
<1>8. transfer.left \in Nat /\ (transfer.active => transfer.left > 0)
  BY <1>1 DEF DutiesOK
<1> QED BY <1>2, <1>3, <1>4, <1>5, <1>6, <1>7, <1>8 DEF TypeOK

LEMMA InvPromises ==
  PayloadInv => NoCollision /\ StoreAgrees /\ SpoiledAloneIsMarked
<1> SUFFICES ASSUME PayloadInv PROVE NoCollision /\ StoreAgrees /\ SpoiledAloneIsMarked
  OBVIOUS
<1>1. /\ images \in Seq(Image) /\ \A i \in 1 .. Len(images) : Honest(images[i])
      /\ (~restarted => ScenesOK(images, next_scene))
  BY DEF PayloadInv, ImagesOK, CatalogueOK
<1>2. DOMAIN images = 1 .. Len(images)
  BY <1>1
<1>3. NoCollision
  BY <1>1, <1>2 DEF NoCollision, ScenesUnique, ScenesOK
<1>4. StoreAgrees
  BY DEF PayloadInv, CountsOK, StoreOK, StoreAgrees
<1>5. SpoiledAloneIsMarked
  BY <1>1, <1>2 DEF SpoiledAloneIsMarked, Honest
<1> QED BY <1>3, <1>4, <1>5

LEMMA InvHolds == Spec => []PayloadInv
BY InvInit, InvNext, PTL DEF Spec

(* The types: settling stays within its hysteresis, the catalogue within    *)
(* CATALOG_MAX, every image keeps to the frame it was captured with, and a  *)
(* calibration that runs is in a phase of its own (tick, capture,           *)
(* handle_command of payload_basic.py).                                     *)
THEOREM TypeCorrect == Spec => []TypeOK
BY InvHolds, InvTypes, PTL

(* Two images of the catalogue never share a scene id before the simulator  *)
(* is restarted from a breakpoint, whatever ids the ground chooses, deletes *)
(* and chooses again (capture, _next_scene_id, delete_image).               *)
THEOREM IdsNeverCollide == Spec => []NoCollision
BY InvHolds, InvPromises, PTL

(* The memory in use covers the images of the catalogue and fits the store  *)
(* until a segment goes bad, and image_count is the length of the catalogue *)
(* until it is full (capture, delete_image, the stream of a tick).          *)
THEOREM StoreAlwaysAgrees == Spec => []StoreAgrees
BY InvHolds, InvPromises, PTL

(* An image in whose strip the pointing was lost is not reported as good    *)
(* unless another capture cut its strip short: the one strip monitor always *)
(* watches the image that is being scanned (tick, capture).                 *)
THEOREM SpoiledAlwaysMarked == Spec => []SpoiledAloneIsMarked
BY InvHolds, InvPromises, PTL
================================================================================
