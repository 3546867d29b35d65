-------------------------- MODULE Iteration_proofs --------------------------
(***************************************************************************)
(* Facts about Iterate, and about finite sets of natural numbers.          *)
(*                                                                         *)
(* Induction is carried out with least elements: a statement that fails    *)
(* for some natural number fails for a least one (LeastNat).               *)
(***************************************************************************)
EXTENDS Iteration, Integers, FiniteSetTheorems, WellFoundedInduction, TLAPS

\* Every nonempty set of natural numbers has a least element.
LEMMA LeastNat ==
  ASSUME NEW S \in SUBSET Nat, S # {}
  PROVE  \E n \in S : \A m \in S : n <= m
<1>1. PICK n \in S : \A m \in S : ~(<<m, n>> \in OpToRel(<, Nat))
  BY NatLessThanWellFounded, WFMin
<1>2. \A m \in S : ~(m < n)
  BY <1>1 DEF OpToRel
<1> QED
  BY <1>2

\* No step leads out of S.
StepsIn(step, S) == \A k \in Nat : \A x \in S : step[k][x] \in S

\* `g' is the first `n' steps of a walk within S.
WalkOf(S, step, start, g, n) ==
  /\ g \in [0 .. n -> S]
  /\ g[0] = start
  /\ \A k \in 1 .. n : g[k] = step[k][g[k - 1]]

\* The first `n' steps of a walk exist, whatever n is.
LEMMA WalksExist ==
  ASSUME NEW S, NEW start \in S, NEW step, StepsIn(step, S), NEW n \in Nat
  PROVE  \E g : WalkOf(S, step, start, g, n)
<1> DEFINE IsWalk(g, m) == WalkOf(S, step, start, g, m)
           Bad == {m \in Nat : ~\E g : IsWalk(g, m)}
<1>1. Bad = {}
  <2> SUFFICES ASSUME Bad # {} PROVE FALSE
    OBVIOUS
  <2>1. PICK m \in Bad : \A i \in Bad : m <= i
    <3> HIDE DEF IsWalk
    <3> QED
      BY LeastNat
  <2>2. m \in Nat /\ ~\E g : IsWalk(g, m)
    <3> HIDE DEF IsWalk
    <3> QED
      OBVIOUS
  <2>3. CASE m = 0
    <3> DEFINE h == [i \in 0 .. 0 |-> start]
    <3>1. h \in [0 .. 0 -> S] /\ h[0] = start
      OBVIOUS
    <3>2. 1 .. 0 = {}
      OBVIOUS
    <3> HIDE DEF h
    <3>3. IsWalk(h, m)
      BY <2>3, <3>1, <3>2 DEF WalkOf
    <3> QED
      BY <2>2, <3>3
  <2>4. CASE m # 0
    <3>1. m - 1 \in Nat /\ m - 1 \notin Bad
      <4> HIDE DEF Bad
      <4> QED
        BY <2>1, <2>2, <2>4
    <3>2. PICK g : IsWalk(g, m - 1)
      <4> HIDE DEF IsWalk
      <4> QED
        BY <3>1
    <3> DEFINE h == [i \in 0 .. m |-> IF i = m THEN step[m][g[m - 1]] ELSE g[i]]
    <3>3. g \in [0 .. m - 1 -> S] /\ g[0] = start
      BY <3>2 DEF WalkOf
    <3>4. step[m][g[m - 1]] \in S
      <4>1. g[m - 1] \in S
        BY <2>2, <3>1, <3>3
      <4> QED
        BY <2>2, <4>1 DEF StepsIn
    <3>5. h \in [0 .. m -> S]
      BY <2>2, <3>1, <3>3, <3>4
    <3>6. h[0] = start
      BY <2>2, <2>4, <3>3
    <3>7. ASSUME NEW k \in 1 .. m PROVE h[k] = step[k][h[k - 1]]
      <4>1. CASE k = m
        BY <4>1, <2>2, <3>1
      <4>2. CASE k # m
        <5>1. k \in 1 .. m - 1 /\ k \in 0 .. m /\ k - 1 \in 0 .. m /\ k - 1 # m
          BY <4>2, <2>2
        <5>2. g[k] = step[k][g[k - 1]]
          BY <3>2, <5>1 DEF WalkOf
        <5> QED
          BY <5>1, <5>2, <4>2
      <4> QED
        BY <4>1, <4>2
    <3> HIDE DEF h
    <3>8. IsWalk(h, m)
      BY <3>5, <3>6, <3>7 DEF WalkOf
    <3> QED
      BY <2>2, <3>8
  <2> QED
    BY <2>3, <2>4
<1> HIDE DEF IsWalk
<1>2. \E g : IsWalk(g, n)
  BY <1>1
<1> QED
  BY <1>2 DEF IsWalk

\* Two walks agree as far as both go.
LEMMA WalksAgree ==
  ASSUME NEW S, NEW start \in S, NEW step, StepsIn(step, S),
         NEW m \in Nat, NEW n \in Nat, NEW g, NEW h,
         WalkOf(S, step, start, g, m), WalkOf(S, step, start, h, n),
         NEW i \in Nat, i <= m, i <= n
  PROVE  g[i] = h[i]
<1> USE DEF WalkOf
<1> DEFINE Differ == {j \in Nat : j <= m /\ j <= n /\ g[j] # h[j]}
<1>1. Differ = {}
  <2> SUFFICES ASSUME Differ # {} PROVE FALSE
    OBVIOUS
  <2>1. PICK j \in Differ : \A k \in Differ : j <= k
    BY LeastNat
  <2>2. j # 0
    BY <2>1
  <2>3. j - 1 \in Nat /\ j - 1 \notin Differ
    BY <2>1, <2>2
  <2>4. g[j - 1] = h[j - 1]
    BY <2>3
  <2>5. j \in 1 .. m /\ j \in 1 .. n
    BY <2>2
  <2> QED
    BY <2>4, <2>5
<1> QED
  BY <1>1

\* A walk that no step leads out of S stays in S, and is given by its steps.
THEOREM IterateSteps ==
  ASSUME NEW S, NEW start \in S, NEW step, StepsIn(step, S)
  PROVE  /\ Iterate(step, start) \in [Nat -> S]
         /\ Iterate(step, start)[0] = start
         /\ \A k \in Nat : Iterate(step, start)[k + 1]
                             = step[k + 1][Iterate(step, start)[k]]
<1> DEFINE walk(n) == CHOOSE g : WalkOf(S, step, start, g, n)
           f == [n \in Nat |-> walk(n)[n]]
<1>1. \A n \in Nat : WalkOf(S, step, start, walk(n), n)
  BY WalksExist
<1> HIDE DEF walk
<1>2. f \in [Nat -> S]
  BY <1>1 DEF WalkOf
<1>3. f[0] = start
  BY <1>1 DEF WalkOf
<1>4. \A k \in Nat : f[k + 1] = step[k + 1][f[k]]
  <2> TAKE k \in Nat
  <2>1. /\ WalkOf(S, step, start, walk(k), k)
        /\ WalkOf(S, step, start, walk(k + 1), k + 1)
    BY <1>1
  <2>2. walk(k + 1)[k] = walk(k)[k]
    BY <2>1, WalksAgree
  <2>3. walk(k + 1)[k + 1] = step[k + 1][walk(k + 1)[k]]
    BY <2>1 DEF WalkOf
  <2> QED
    BY <2>2, <2>3
<1> HIDE DEF f
<1> DEFINE Rec(w) == w = [k \in Nat |-> IF k = 0 THEN start ELSE step[k][w[k - 1]]]
<1>5. Rec(f)
  <2>1. \A k \in Nat : f[k] = IF k = 0 THEN start ELSE step[k][f[k - 1]]
    <3> TAKE k \in Nat
    <3>1. CASE k = 0
      BY <1>3, <3>1
    <3>2. CASE k # 0
      <4>1. k - 1 \in Nat /\ (k - 1) + 1 = k
        BY <3>2
      <4>2. f[(k - 1) + 1] = step[(k - 1) + 1][f[k - 1]]
        BY <1>4, <4>1
      <4> QED
        BY <3>2, <4>1, <4>2
    <3> QED
      BY <3>1, <3>2
  <2> QED
    BY <1>2, <2>1
<1>6. Iterate(step, start) = CHOOSE w : Rec(w)
  BY DEF Iterate
<1>7. Rec(Iterate(step, start))
  <2> HIDE DEF Rec
  <2> QED
    BY <1>5, <1>6
<1> DEFINE w == Iterate(step, start)
<1>8. w[0] = start /\ \A k \in Nat : w[k + 1] = step[k + 1][w[k]]
  <2>1. \A k \in Nat : w[k] = IF k = 0 THEN start ELSE step[k][w[k - 1]]
    BY <1>7
  <2> HIDE DEF w
  <2>2. ASSUME NEW k \in Nat PROVE w[k + 1] = step[k + 1][w[k]]
    <3>1. k + 1 \in Nat /\ k + 1 # 0 /\ (k + 1) - 1 = k
      OBVIOUS
    <3> QED
      BY <2>1, <3>1
  <2> QED
    BY <2>1, <2>2
<1>9. w \in [Nat -> S]
  <2>1. w = [k \in Nat |-> w[k]]
    BY <1>7
  <2> HIDE DEF w
  <2> DEFINE Differ == {n \in Nat : w[n] # f[n]}
  <2>2. Differ = {}
    <3> SUFFICES ASSUME Differ # {} PROVE FALSE
      OBVIOUS
    <3>1. PICK n \in Differ : \A i \in Differ : n <= i
      BY LeastNat
    <3>2. n # 0
      BY <1>3, <1>8
    <3>3. n - 1 \in Nat /\ (n - 1) + 1 = n /\ n - 1 \notin Differ
      BY <3>1, <3>2
    <3>4. w[n - 1] = f[n - 1]
      BY <3>3
    <3>5. w[(n - 1) + 1] = f[(n - 1) + 1]
      BY <1>4, <1>8, <3>3, <3>4
    <3> QED
      BY <3>3, <3>5
  <2> HIDE DEF w
  <2> QED
    BY <1>2, <2>1, <2>2
<1> QED
  BY <1>8, <1>9

\* The same, for steps that are taken from members of S alone.
THEOREM IterateWalks ==
  ASSUME NEW S, NEW start \in S, NEW step \in [Nat -> [S -> S]]
  PROVE  /\ Iterate(step, start) \in [Nat -> S]
         /\ Iterate(step, start)[0] = start
         /\ \A k \in Nat : Iterate(step, start)[k + 1]
                             = step[k + 1][Iterate(step, start)[k]]
<1>1. StepsIn(step, S)
  BY DEF StepsIn
<1> QED
  BY <1>1, IterateSteps

----------------------------------------------------------------------------
(* Where a walk can be *)

\* A walk that no step leads out of T stays in T.
LEMMA WalkStays ==
  ASSUME NEW T, NEW w, w[0] \in T, \A k \in Nat : w[k] \in T => w[k + 1] \in T
  PROVE  \A k \in Nat : w[k] \in T
<1> DEFINE Out == {k \in Nat : w[k] \notin T}
<1> SUFFICES ASSUME Out # {} PROVE FALSE
  OBVIOUS
<1>1. PICK k \in Out : \A i \in Out : k <= i
  BY LeastNat
<1>2. k # 0
  OBVIOUS
<1>3. k - 1 \in Nat /\ k - 1 \notin Out /\ (k - 1) + 1 = k
  BY <1>1, <1>2
<1> QED
  BY <1>3

\* While a walk is in L its rank rises with every step.
LEMMA WalkRises ==
  ASSUME NEW L, NEW rank \in [L -> Int], NEW w,
         \A k \in Nat : w[k + 1] \in L =>
                          w[k] \in L /\ rank[w[k]] < rank[w[k + 1]],
         NEW j \in Nat
  PROVE  \A d \in Nat : w[j + d + 1] \in L =>
                           w[j] \in L /\ rank[w[j]] < rank[w[j + d + 1]]
<1> DEFINE Rises(d) == w[j + d + 1] \in L =>
                         w[j] \in L /\ rank[w[j]] < rank[w[j + d + 1]]
           Fails == {d \in Nat : ~Rises(d)}
<1> SUFFICES ASSUME Fails # {} PROVE FALSE
  OBVIOUS
<1>1. PICK d \in Fails : \A i \in Fails : d <= i
  <2> HIDE DEF Rises
  <2> QED
    BY LeastNat
<1>2. CASE d = 0
  <2>1. j + d + 1 = j + 1
    BY <1>2
  <2> QED
    BY <2>1
<1>3. CASE d # 0
  <2>1. d - 1 \in Nat /\ d - 1 \notin Fails
    <3> HIDE DEF Rises
    <3> QED
      BY <1>1, <1>3
  <2>2. Rises(d - 1)
    <3> HIDE DEF Rises
    <3> QED
      BY <2>1
  <2>3. j + (d - 1) + 1 = j + d /\ j + d \in Nat
    OBVIOUS
  <2> DEFINE x == w[j]
             y == w[j + d]
             z == w[j + d + 1]
  <2>4. z \in L => y \in L /\ rank[y] < rank[z]
    BY <2>3
  <2>5. y \in L => x \in L /\ rank[x] < rank[y]
    BY <2>2, <2>3
  <2>6. ~(z \in L => x \in L /\ rank[x] < rank[z])
    OBVIOUS
  <2> HIDE DEF x, y, z
  <2> QED
    BY <2>4, <2>5, <2>6
<1> QED
  BY <1>2, <1>3

\* So it has left a finite L after as many steps as L has members.
LEMMA WalkLeaves ==
  ASSUME NEW L, IsFiniteSet(L), NEW rank \in [L -> Int], NEW w,
         \A k \in Nat : w[k + 1] \in L =>
                          w[k] \in L /\ rank[w[k]] < rank[w[k + 1]],
         NEW k \in Nat, w[k] \in L
  PROVE  k < Cardinality(L)
<1>1. Cardinality(L) \in Nat
  BY FS_CardinalityType
<1>2. ASSUME NEW i \in 0 .. k, NEW j \in 0 .. k, i < j
      PROVE  w[j] \in L => w[i] \in L /\ rank[w[i]] < rank[w[j]]
  <2>1. (j - i) - 1 \in Nat /\ i + ((j - i) - 1) + 1 = j /\ i \in Nat
    BY <1>2
  <2>2. \A d \in Nat : w[i + d + 1] \in L =>
                           w[i] \in L /\ rank[w[i]] < rank[w[i + d + 1]]
    BY <2>1, WalkRises
  <2> QED
    BY <2>1, <2>2
<1>3. \A i \in 0 .. k : w[i] \in L
  <2> TAKE i \in 0 .. k
  <2>1. i = k \/ i < k
    OBVIOUS
  <2>2. k \in 0 .. k
    OBVIOUS
  <2> QED
    BY <1>2, <2>1, <2>2
<1>4. \A i, j \in 0 .. k : w[i] = w[j] => i = j
  <2> SUFFICES ASSUME NEW i \in 0 .. k, NEW j \in 0 .. k, w[i] = w[j], i # j
               PROVE  FALSE
    OBVIOUS
  <2>1. rank[w[i]] \in Int
    BY <1>3
  <2>2. CASE i < j
    BY <1>2, <1>3, <2>1, <2>2
  <2>3. CASE j < i
    BY <1>2, <1>3, <2>1, <2>3
  <2> QED
    BY <2>2, <2>3
<1>5. IsFiniteSet(0 .. k) /\ Cardinality(0 .. k) = k + 1
  BY FS_Interval
<1> DEFINE f == [i \in 0 .. k |-> w[i]]
<1>6. f \in [0 .. k -> L]
  BY <1>3
<1>7. \A x, y \in 0 .. k : f[x] = f[y] => x = y
  BY <1>4
<1> HIDE DEF f
<1> SUFFICES ASSUME ~(k < Cardinality(L)) PROVE FALSE
  OBVIOUS
<1>8. Cardinality(L) < k + 1
  BY <1>1
<1>9. \E x, y \in 0 .. k : x # y /\ f[x] = f[y]
  BY <1>5, <1>6, <1>8, FS_PigeonHole
<1> QED
  BY <1>7, <1>9

\* A walk whose every step leads from one set to the next is in them all along.
LEMMA WalkPasses ==
  ASSUME NEW T, NEW w, w[0] \in T[0], \A k \in Nat : w[k] \in T[k] => w[k + 1] \in T[k + 1]
  PROVE  \A k \in Nat : w[k] \in T[k]
<1> DEFINE Out == {k \in Nat : w[k] \notin T[k]}
<1> SUFFICES ASSUME Out # {} PROVE FALSE
  OBVIOUS
<1>1. PICK k \in Out : \A i \in Out : k <= i
  BY LeastNat
<1>2. k # 0
  OBVIOUS
<1>3. k - 1 \in Nat /\ k - 1 \notin Out /\ (k - 1) + 1 = k
  BY <1>1, <1>2
<1> QED
  BY <1>3
=============================================================================
