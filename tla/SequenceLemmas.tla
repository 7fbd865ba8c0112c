----------------------------- MODULE SequenceLemmas -----------------------------
(***************************************************************************)
(* What the other proofs need of numbers and sequences: induction over the *)
(* naturals, stated of a set instead of a predicate, functions defined by  *)
(* recursion, what FlattenSeq and Those have and how long they are.        *)
(***************************************************************************)
EXTENDS Integers, Selections, WellFoundedInduction, TLAPS

(* The order of the naturals, in which every set of them has a least one.   *)
Smaller == OpToRel(<, Nat)

LEMMA SmallerIs ==
  ASSUME NEW m \in Nat, NEW n \in Nat PROVE <<m, n>> \in Smaller <=> m < n
BY DEF Smaller, OpToRel

LEMMA SmallerWellFounded == IsWellFoundedOn(Smaller, Nat)
BY NatLessThanWellFounded, Zenon DEF Smaller

LEMMA LeastExists ==
  ASSUME NEW T, T \subseteq Nat, T # {}
  PROVE  \E n \in T : \A k \in T : n <= k
<1>1. PICK n \in T : \A k \in T : <<k, n>> \notin Smaller
  BY SmallerWellFounded, WFMin
<1>2. \A k \in T : k \in Nat /\ n \in Nat /\ ~(k < n)
  BY <1>1, SmallerIs
<1> QED BY <1>2

(* Every set of naturals that has 0 and, with a number, its successor, has *)
(* them all: the least one missing would have no predecessor.              *)
LEMMA Induction ==
  ASSUME NEW T, 0 \in T, \A n \in Nat : n \in T => n + 1 \in T
  PROVE  Nat \subseteq T
<1> DEFINE U == Nat \ T
<1> SUFFICES ASSUME U # {} PROVE FALSE
  OBVIOUS
<1>1. PICK m \in U : \A n \in U : <<n, m>> \notin Smaller
  <2>1. U \subseteq Nat
    OBVIOUS
  <2> HIDE DEF U
  <2> QED BY <2>1, SmallerWellFounded, WFMin
<1>2. m \in Nat /\ m - 1 \in Nat
  OBVIOUS
<1>3. <<m - 1, m>> \in Smaller
  BY <1>2, SmallerIs
<1>4. m - 1 \notin U
  BY <1>1, <1>3, Zenon
<1> QED BY <1>2, <1>4

(* What the first element of t has, and each passes on, all have.          *)
LEMMA PassedOn ==
  ASSUME NEW n \in Nat, NEW t, NEW X, t[0] \in X,
         \A i \in 1 .. n : t[i - 1] \in X => t[i] \in X
  PROVE  \A i \in 0 .. n : t[i] \in X
<1> DEFINE T == {i \in Nat : i <= n => t[i] \in X}
<1>1. 0 \in T
  OBVIOUS
<1>2. ASSUME NEW i \in Nat, i \in T PROVE i + 1 \in T
  <2> SUFFICES ASSUME i + 1 <= n PROVE t[i + 1] \in X
    OBVIOUS
  <2>1. i + 1 \in 1 .. n /\ (i + 1) - 1 = i /\ i <= n
    OBVIOUS
  <2>2. t[i] \in X
    BY <1>2, <2>1
  <2>3. t[(i + 1) - 1] \in X
    BY <2>1, <2>2, Zenon
  <2> QED BY <2>1, <2>3, Zenon
<1> HIDE DEF T
<1>3. Nat \subseteq T
  BY <1>1, <1>2, Induction
<1> QED BY <1>3 DEF T

(* A function defined by recursion from b by the steps G exists.           *)
Recursion(b, n, G, t) ==
  t = [i \in 0 .. n |-> IF i = 0 THEN b ELSE G[<<i, t[i - 1]>>]]

Stepwise(b, n, G, t) ==
  /\ DOMAIN t = 0 .. n /\ t[0] = b
  /\ \A i \in 1 .. n : t[i] = G[<<i, t[i - 1]>>]

LEMMA RecursionSteps ==
  ASSUME NEW b, NEW n \in Nat, NEW G, NEW t, Recursion(b, n, G, t)
  PROVE  Stepwise(b, n, G, t)
BY DEF Recursion, Stepwise

LEMMA StepsRecursion ==
  ASSUME NEW b, NEW n \in Nat, NEW G, NEW t,
         t = [i \in 0 .. n |-> t[i]], Stepwise(b, n, G, t)
  PROVE  Recursion(b, n, G, t)
<1>1. ASSUME NEW i \in 0 .. n
      PROVE  t[i] = IF i = 0 THEN b ELSE G[<<i, t[i - 1]>>]
  <2>1. i = 0 \/ i \in 1 .. n
    OBVIOUS
  <2> QED BY <2>1 DEF Stepwise
<1> QED BY <1>1 DEF Recursion

LEMMA RecursionExists ==
  ASSUME NEW b, NEW G PROVE \A n \in Nat : \E t : Recursion(b, n, G, t)
<1> DEFINE T == {n \in Nat : \E t : Recursion(b, n, G, t)}
<1>1. 0 \in T
  <2> DEFINE t == [i \in 0 .. 0 |-> b]
  <2>1. t = [i \in 0 .. 0 |-> t[i]] /\ Stepwise(b, 0, G, t)
    BY DEF Stepwise
  <2> HIDE DEF t
  <2> QED BY <2>1, StepsRecursion
<1>2. ASSUME NEW n \in Nat, n \in T PROVE n + 1 \in T
  <2>1. PICK t : Recursion(b, n, G, t)
    BY <1>2
  <2>2. Stepwise(b, n, G, t)
    BY <2>1, RecursionSteps
  <2> DEFINE v == G[<<n + 1, t[n]>>]
             u == [i \in 0 .. n + 1 |-> IF i = n + 1 THEN v ELSE t[i]]
  <2>3. /\ DOMAIN u = 0 .. n + 1 /\ u = [i \in 0 .. n + 1 |-> u[i]]
        /\ u[n + 1] = v /\ \A i \in 0 .. n : u[i] = t[i]
    OBVIOUS
  <2> HIDE DEF u
  <2>4. ASSUME NEW i \in 1 .. n + 1 PROVE u[i] = G[<<i, u[i - 1]>>]
    <3>1. CASE i = n + 1
      <4>1. n \in 0 .. n /\ (n + 1) - 1 = n
        OBVIOUS
      <4>2. u[n + 1] = G[<<n + 1, u[n]>>]
        BY <2>3, <4>1, Zenon
      <4> QED BY <3>1, <4>1, <4>2, Zenon
    <3>2. CASE i # n + 1
      <4>1. i \in 1 .. n /\ i - 1 \in 0 .. n /\ i \in 0 .. n
        BY <3>2
      <4> QED BY <2>2, <2>3, <4>1, Zenon DEF Stepwise
    <3> QED BY <3>1, <3>2
  <2>5. Stepwise(b, n + 1, G, u)
    <3>1. 0 \in 0 .. n
      OBVIOUS
    <3>2. u[0] = b
      BY <2>2, <2>3, <3>1, Zenon DEF Stepwise
    <3> QED BY <2>3, <2>4, <3>2, Zenon DEF Stepwise
  <2>6. Recursion(b, n + 1, G, u)
    BY <2>3, <2>5, StepsRecursion
  <2> QED BY <2>6
<1> HIDE DEF T
<1>3. Nat \subseteq T
  BY <1>1, <1>2, Induction
<1> QED BY <1>3 DEF T

(* ... and what X has of b, it has of all of t, if the steps stay in X.    *)
LEMMA RecursionIn ==
  ASSUME NEW X, NEW b \in X, NEW n \in Nat, NEW G \in [(1 .. n) \X X -> X]
  PROVE  \E t \in [0 .. n -> X] : Stepwise(b, n, G, t)
<1>1. PICK t : Recursion(b, n, G, t)
  BY RecursionExists
<1>2. Stepwise(b, n, G, t)
  BY <1>1, RecursionSteps
<1>3. ASSUME NEW i \in 1 .. n, t[i - 1] \in X PROVE t[i] \in X
  BY <1>2, <1>3 DEF Stepwise
<1>4. t[0] \in X
  BY <1>2 DEF Stepwise
<1>5. \A i \in 0 .. n : t[i] \in X
  BY <1>3, <1>4, PassedOn
<1>6. t \in [0 .. n -> X]
  BY <1>1, <1>5 DEF Recursion
<1> QED BY <1>2, <1>6

-----------------------------------------------------------------------------
(* FlattenSeq: t holds the first sequences of ss, one by one appended.     *)
Joined(r, s) == r \o s

Flattens(ss, m, t) ==
  t = [i \in 1 .. m |-> IF i = 1 THEN ss[i] ELSE Joined(t[i - 1], ss[i])]

Appending(ss, m, t) ==
  /\ DOMAIN t = 1 .. m /\ t[1] = ss[1]
  /\ \A i \in 2 .. m : t[i] = Joined(t[i - 1], ss[i])

LEMMA FlattensAppend ==
  ASSUME NEW ss, NEW m \in Nat \ {0}, NEW t, Flattens(ss, m, t)
  PROVE  Appending(ss, m, t)
BY DEF Flattens, Appending

LEMMA FlattensExist ==
  ASSUME NEW ss PROVE \A m \in Nat \ {0} : \E t : Flattens(ss, m, t)
<1> DEFINE T == {n \in Nat : \E t : Flattens(ss, n + 1, t)}
<1>1. 0 \in T
  <2> DEFINE t == [i \in 1 .. 1 |-> ss[i]]
  <2>1. t = [i \in 1 .. 0 + 1 |-> IF i = 1 THEN ss[i] ELSE Joined(t[i - 1], ss[i])]
    OBVIOUS
  <2>2. Flattens(ss, 0 + 1, t)
    BY <2>1, Zenon DEF Flattens
  <2> QED BY <2>2
<1>2. ASSUME NEW n \in Nat, n \in T PROVE n + 1 \in T
  <2>1. PICK t : Flattens(ss, n + 1, t)
    BY <1>2
  <2>2. Appending(ss, n + 1, t)
    BY <2>1, FlattensAppend
  <2> DEFINE u == [i \in 1 .. n + 2 |-> IF i = n + 2 THEN Joined(t[n + 1], ss[n + 2])
                                     ELSE t[i]]
  <2>3. DOMAIN u = 1 .. n + 2 /\ u = [i \in 1 .. n + 2 |-> u[i]]
    OBVIOUS
  <2>4. u[n + 2] = Joined(t[n + 1], ss[n + 2]) /\ \A i \in 1 .. n + 1 : u[i] = t[i]
    OBVIOUS
  <2> HIDE DEF u
  <2>5. ASSUME NEW i \in 1 .. n + 2
        PROVE  u[i] = IF i = 1 THEN ss[i] ELSE Joined(u[i - 1], ss[i])
    <3>1. CASE i = n + 2
      BY <2>4, <3>1
    <3>2. CASE i # n + 2 /\ i # 1
      <4>1. i \in 2 .. n + 1 /\ i - 1 \in 1 .. n + 1
        BY <3>2
      <4> QED BY <2>2, <2>4, <3>2, <4>1 DEF Appending
    <3>3. CASE i = 1
      BY <2>2, <2>4, <3>3 DEF Appending
    <3> QED BY <3>1, <3>2, <3>3
  <2>6. u = [i \in 1 .. n + 2 |-> IF i = 1 THEN ss[i] ELSE Joined(u[i - 1], ss[i])]
    BY <2>3, <2>5
  <2>7. n + 2 = (n + 1) + 1
    OBVIOUS
  <2>8. Flattens(ss, (n + 1) + 1, u)
    BY <2>6, <2>7 DEF Flattens
  <2> QED BY <2>8
<1> HIDE DEF T
<1>3. Nat \subseteq T
  BY <1>1, <1>2, Induction
<1> SUFFICES ASSUME NEW m \in Nat \ {0} PROVE \E t : Flattens(ss, m, t)
  OBVIOUS
<1>4. m - 1 \in T /\ (m - 1) + 1 = m
  BY <1>3
<1> QED BY <1>4 DEF T

(* r has what the first m sequences of ss have, and is at most m long if   *)
(* they have at most one element each.                                     *)
HasAll(r, ss, m) ==
  /\ \A i \in 1 .. m : \A j \in DOMAIN ss[i] : \E k \in DOMAIN r : r[k] = ss[i][j]
  /\ \A k \in DOMAIN r : \E i \in 1 .. m : \E j \in DOMAIN ss[i] : r[k] = ss[i][j]
  /\ (\A i \in 1 .. m : Len(ss[i]) <= 1) => Len(r) <= m

LEMMA Concatenated ==
  ASSUME NEW S, NEW r \in Seq(S), NEW s \in Seq(S)
  PROVE  /\ r \o s \in Seq(S) /\ Len(r \o s) = Len(r) + Len(s)
         /\ \A k \in 1 .. Len(r) : k \in DOMAIN (r \o s) /\ (r \o s)[k] = r[k]
         /\ \A j \in 1 .. Len(s) :
              Len(r) + j \in DOMAIN (r \o s) /\ (r \o s)[Len(r) + j] = s[j]
         /\ \A k \in DOMAIN (r \o s) :
              \/ k \in 1 .. Len(r)
              \/ k - Len(r) \in 1 .. Len(s) /\ (r \o s)[k] = s[k - Len(r)]
OBVIOUS

LEMMA AppendedHas ==
  ASSUME NEW S, NEW ss, NEW m \in Nat \ {0}, NEW r \in Seq(S),
         \A i \in 1 .. m + 1 : ss[i] \in Seq(S), HasAll(r, ss, m),
         NEW q, q = r \o ss[m + 1]
  PROVE  q \in Seq(S) /\ HasAll(q, ss, m + 1)
<1> DEFINE s == ss[m + 1]
<1>1. s \in Seq(S) /\ DOMAIN s = 1 .. Len(s) /\ Len(s) \in Nat
      /\ DOMAIN r = 1 .. Len(r) /\ Len(r) \in Nat
  OBVIOUS
<1>2. /\ q \in Seq(S) /\ Len(q) = Len(r) + Len(s)
      /\ \A k \in 1 .. Len(r) : k \in DOMAIN q /\ q[k] = r[k]
      /\ \A j \in 1 .. Len(s) : Len(r) + j \in DOMAIN q /\ q[Len(r) + j] = s[j]
      /\ \A k \in DOMAIN q :
           \/ k \in 1 .. Len(r)
           \/ k - Len(r) \in 1 .. Len(s) /\ q[k] = s[k - Len(r)]
  <2> HIDE DEF s
  <2>1. q = r \o s
    BY DEF s
  <2> QED BY <1>1, <2>1, Concatenated
<1>3. ASSUME NEW i \in 1 .. m + 1, NEW j \in DOMAIN ss[i]
      PROVE  \E k \in DOMAIN q : q[k] = ss[i][j]
  <2>1. CASE i = m + 1
    BY <1>1, <1>2, <2>1
  <2>2. CASE i # m + 1
    <3>1. i \in 1 .. m
      BY <2>2
    <3>2. PICK k \in DOMAIN r : r[k] = ss[i][j]
      BY <3>1 DEF HasAll
    <3> QED BY <1>1, <1>2, <3>2
  <2> QED BY <2>1, <2>2
<1>4. ASSUME NEW k \in DOMAIN q
      PROVE  \E i \in 1 .. m + 1 : \E j \in DOMAIN ss[i] : q[k] = ss[i][j]
  <2>1. CASE k \in 1 .. Len(r)
    <3>1. PICK i \in 1 .. m : \E j \in DOMAIN ss[i] : r[k] = ss[i][j]
      BY <1>1, <2>1 DEF HasAll
    <3>2. i \in 1 .. m + 1
      OBVIOUS
    <3>3. q[k] = r[k]
      BY <1>2, <2>1
    <3> QED BY <3>1, <3>2, <3>3, Zenon
  <2>2. CASE k - Len(r) \in 1 .. Len(s) /\ q[k] = s[k - Len(r)]
    <3>1. m + 1 \in 1 .. m + 1
      OBVIOUS
    <3> QED BY <1>1, <2>2, <3>1, Zenon
  <2> QED BY <1>2, <2>1, <2>2
<1>5. ASSUME \A i \in 1 .. m + 1 : Len(ss[i]) <= 1 PROVE Len(q) <= m + 1
  <2>1. \A i \in 1 .. m : i \in 1 .. m + 1
    OBVIOUS
  <2>2. Len(r) <= m /\ Len(s) <= 1
    BY <1>5, <2>1 DEF HasAll
  <2> HIDE DEF s
  <2> QED BY <1>1, <1>2, <2>2
<1> QED
  <2> HIDE DEF s
  <2> QED BY <1>2, <1>3, <1>4, <1>5 DEF HasAll

LEMMA FlattensHave ==
  ASSUME NEW S, NEW ss, NEW n \in Nat \ {0}, NEW t, Flattens(ss, n, t),
         \A i \in 1 .. n : ss[i] \in Seq(S)
  PROVE  t[n] \in Seq(S) /\ HasAll(t[n], ss, n)
<1> DEFINE T == {m \in Nat : m + 1 <= n =>
                   t[m + 1] \in Seq(S) /\ HasAll(t[m + 1], ss, m + 1)}
<1>1. Appending(ss, n, t)
  BY FlattensAppend
<1>2. 0 \in T
  <2>1. t[1] = ss[1] /\ ss[1] \in Seq(S)
    BY <1>1 DEF Appending
  <2>2. HasAll(t[1], ss, 1)
    BY <2>1 DEF HasAll
  <2> QED BY <2>1, <2>2
<1>3. ASSUME NEW m \in Nat, m \in T PROVE m + 1 \in T
  <2> SUFFICES ASSUME (m + 1) + 1 <= n
               PROVE  /\ t[(m + 1) + 1] \in Seq(S)
                      /\ HasAll(t[(m + 1) + 1], ss, (m + 1) + 1)
    OBVIOUS
  <2>1. t[m + 1] \in Seq(S) /\ HasAll(t[m + 1], ss, m + 1)
    BY <1>3
  <2>2. t[(m + 1) + 1] = t[m + 1] \o ss[(m + 1) + 1]
    <3>1. (m + 1) + 1 \in 2 .. n /\ ((m + 1) + 1) - 1 = m + 1
      OBVIOUS
    <3> QED BY <1>1, <3>1 DEF Appending, Joined
  <2>3. m + 1 \in Nat \ {0} /\ \A i \in 1 .. (m + 1) + 1 : i \in 1 .. n
    OBVIOUS
  <2> QED BY <2>1, <2>2, <2>3, AppendedHas
<1> HIDE DEF T
<1>4. n - 1 \in T /\ (n - 1) + 1 = n
  <2>1. Nat \subseteq T
    BY <1>2, <1>3, Induction
  <2> QED BY <2>1
<1> QED BY <1>4 DEF T

LEMMA Flattened ==
  ASSUME NEW S, NEW ss, NEW n \in Nat, ss \in [1 .. n -> Seq(S)],
         NEW r, r = FlattenSeq(ss)
  PROVE  r \in Seq(S) /\ HasAll(r, ss, n)
<1>1. Len(ss) = n /\ ss \in Seq(Seq(S))
  OBVIOUS
<1>2. CASE n = 0
  <2>1. r = ss /\ Len(ss) = 0
    BY <1>1, <1>2 DEF FlattenSeq
  <2>2. r = << >>
    BY <1>1, <2>1
  <2>3. HasAll(<< >>, ss, n)
    BY <1>2 DEF HasAll
  <2> QED BY <2>2, <2>3
<1>3. CASE n # 0
  <2> DEFINE t == CHOOSE t : Flattens(ss, n, t)
  <2>1. r = t[n]
    BY <1>1, <1>3, Zenon DEF FlattenSeq, Flattens, Joined
  <2>2. Flattens(ss, n, t)
    <3>1. \E u : Flattens(ss, n, u)
      BY <1>3, FlattensExist
    <3> QED BY <3>1, Zenon
  <2> HIDE DEF t
  <2>3. \A i \in 1 .. n : ss[i] \in Seq(S)
    OBVIOUS
  <2> QED BY <1>3, <2>1, <2>2, <2>3, FlattensHave
<1> QED BY <1>2, <1>3

(* What is at some positions of a sequence.                                *)
Picks(r, s, is) ==
  /\ \A i \in DOMAIN s : i \in is => \E k \in DOMAIN r : r[k] = s[i]
  /\ \A k \in DOMAIN r : \E i \in DOMAIN s : i \in is /\ r[k] = s[i]

LEMMA ThoseArePicked ==
  ASSUME NEW S, NEW s \in Seq(S), NEW is, NEW r, r = Those(s, is)
  PROVE  r \in Seq(S) /\ Picks(r, s, is) /\ Len(r) <= Len(s)
<1> DEFINE ss == [i \in DOMAIN s |-> IF i \in is THEN <<s[i]>> ELSE << >>]
           n == Len(s)
<1>1. n \in Nat /\ DOMAIN s = 1 .. n /\ \A i \in 1 .. n : s[i] \in S
  OBVIOUS
<1>2. \A i \in 1 .. n : ss[i] = IF i \in is THEN <<s[i]>> ELSE << >>
  BY <1>1
<1>3. ASSUME NEW i \in 1 .. n
      PROVE  /\ ss[i] \in Seq(S)
             /\ DOMAIN ss[i] = IF i \in is THEN {1} ELSE {}
             /\ i \in is => ss[i][1] = s[i]
  BY <1>1, <1>2
<1>31. \A i \in 1 .. n : Len(ss[i]) <= 1
  BY <1>1, <1>2
<1>4. ss \in [1 .. n -> Seq(S)]
  <2>1. DOMAIN ss = 1 .. n /\ ss = [i \in 1 .. n |-> ss[i]]
    BY <1>1
  <2> HIDE DEF ss
  <2> QED
    BY <2>1, <1>3
<1>5. r = FlattenSeq(ss)
  BY DEF Those
<1> HIDE DEF ss, n
<1>6. r \in Seq(S) /\ HasAll(r, ss, n)
  BY <1>1, <1>4, <1>5, Flattened
<1>7. ASSUME NEW i \in 1 .. n, i \in is PROVE \E k \in DOMAIN r : r[k] = s[i]
  <2>1. 1 \in DOMAIN ss[i] /\ ss[i][1] = s[i]
    BY <1>3, <1>7
  <2> QED
    BY <1>6, <2>1 DEF HasAll
<1>8. ASSUME NEW k \in DOMAIN r PROVE \E i \in 1 .. n : i \in is /\ r[k] = s[i]
  <2>1. PICK i \in 1 .. n : \E j \in DOMAIN ss[i] : r[k] = ss[i][j]
    BY <1>6 DEF HasAll
  <2>2. i \in is
    BY <1>3, <2>1
  <2>3. DOMAIN ss[i] = {1} /\ ss[i][1] = s[i]
    BY <1>3, <2>2
  <2> QED
    BY <2>1, <2>2, <2>3
<1>9. Len(r) <= n
  BY <1>6, <1>31 DEF HasAll
<1>10. n = Len(s)
  BY DEF n
<1> QED
  BY <1>1, <1>6, <1>7, <1>8, <1>9, <1>10 DEF Picks
=============================================================================
