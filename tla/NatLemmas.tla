----------------------------- MODULE NatLemmas ------------------------------
(***************************************************************************)
(* Induction and recursion over the natural numbers, for sets instead of   *)
(* predicates, and what the recursive functions of the models compute.     *)
(***************************************************************************)
EXTENDS Naturals, WellFoundedInduction, TLAPS

LEMMA LessWellFounded ==
  IsWellFoundedOn({s \in Nat \X Nat : s[1] < s[2]}, Nat)
<1>1. IsWellFoundedOn(OpToRel(<, Nat), Nat)
  BY NatLessThanWellFounded, Zenon
<1>2. OpToRel(<, Nat) = {s \in Nat \X Nat : s[1] < s[2]}
  BY Zenon DEF OpToRel
<1> QED
  BY <1>1, <1>2, Zenon

(* Induction, for the set of numbers that have a property. *)
LEMMA Induction ==
  ASSUME NEW G, 0 \in G, \A i \in Nat : i \in G => i + 1 \in G
  PROVE  Nat \subseteq G
<1> DEFINE R == {s \in Nat \X Nat : s[1] < s[2]}
           T == Nat \ G
<1>1. SUFFICES ASSUME T # {} PROVE FALSE
  OBVIOUS
<1>2. PICK m \in T : \A j \in T : ~ (<<j, m>> \in R)
  <2>1. IsWellFoundedOn(R, Nat) /\ T \subseteq Nat
    BY LessWellFounded
  <2> HIDE DEF R, T
  <2> QED
    BY <1>1, <2>1, WFMin
<1>3. m \in Nat /\ m # 0
  BY <1>2
<1>4. m - 1 \in Nat /\ m - 1 \notin T
  <2>1. m - 1 \in Nat /\ m - 1 < m
    BY <1>3
  <2>2. <<m - 1, m>> \in R
    BY <1>3, <2>1
  <2> QED
    BY <1>2, <2>1, <2>2
<1> QED
  BY <1>2, <1>3, <1>4

LEMMA LeastExists ==
  ASSUME NEW T, T \subseteq Nat, T # {}
  PROVE  \E m \in T : \A j \in T : m <= j
<1> DEFINE R == {s \in Nat \X Nat : s[1] < s[2]}
<1>1. PICK m \in T : \A j \in T : ~ (<<j, m>> \in R)
  <2>1. IsWellFoundedOn(R, Nat)
    BY LessWellFounded
  <2> HIDE DEF R
  <2> QED
    BY <2>1, WFMin
<1>2. ASSUME NEW j \in T PROVE m <= j
  <2>1. j \in Nat /\ m \in Nat
    OBVIOUS
  <2>2. ~ (<<j, m>> \in R)
    BY <1>1
  <2>3. ~ (j < m)
    BY <2>1, <2>2
  <2> QED
    BY <2>1, <2>3
<1> QED
  BY <1>2

(* A function may be defined by what it is at 0 and how it goes on. *)
Keeps(step, V) == \A i \in Nat : \A x \in V : step[i][x] \in V

Runs(v, step, V, n) ==
  {f \in [0..n -> V] : f[0] = v /\ \A i \in 1..n : f[i] = step[i][f[i - 1]]}

LEMMA Recursion ==
  ASSUME NEW V, NEW v \in V, NEW step, Keeps(step, V)
  PROVE  \A n \in Nat : Runs(v, step, V, n) # {}
<1> DEFINE P(n, f) == f[0] = v /\ \A i \in 1..n : f[i] = step[i][f[i - 1]]
           G == {n \in Nat : \E f \in [0..n -> V] : P(n, f)}
<1>1. 0 \in G
  <2>1. [i \in 0..0 |-> v] \in [0..0 -> V] /\ P(0, [i \in 0..0 |-> v])
    OBVIOUS
  <2> QED
    BY <2>1
<1>2. ASSUME NEW n \in Nat, n \in G PROVE n + 1 \in G
  <2>1. PICK f \in [0..n -> V] : P(n, f)
    BY <1>2
  <2> DEFINE g == [i \in 0..(n + 1) |-> IF i = n + 1 THEN step[n + 1][f[n]] ELSE f[i]]
  <2>2. g \in [0..(n + 1) -> V]
    <3>1. f[n] \in V
      OBVIOUS
    <3>2. step[n + 1][f[n]] \in V
      BY <3>1 DEF Keeps
    <3> QED
      BY <3>2
  <2>3. g[0] = v
    BY <2>1
  <2>4. ASSUME NEW i \in 1..(n + 1) PROVE g[i] = step[i][g[i - 1]]
    <3>1. g[i - 1] = f[i - 1]
      OBVIOUS
    <3>2. CASE i = n + 1
      <4>1. i - 1 = n /\ i \in 0..(n + 1)
        BY <3>2
      <4>2. g[i] = step[n + 1][f[n]]
        BY <3>2, <4>1
      <4> QED
        BY <3>1, <3>2, <4>1, <4>2
    <3>3. CASE i # n + 1
      BY <2>1, <3>1, <3>3
    <3> QED
      BY <3>2, <3>3
  <2>5. P(n + 1, g)
    BY <2>3, <2>4
  <2> HIDE DEF g, P
  <2> QED
    BY <2>2, <2>5
<1>3. Nat \subseteq G
  <2> HIDE DEF G
  <2> QED
    BY <1>1, <1>2, Induction
<1> QED
  BY <1>3 DEF Runs

(* A function with that definition is the powers of two. *)
LEMMA Doubles ==
  ASSUME NEW p, p = CHOOSE f : f = [k \in Nat |-> IF k = 0 THEN 1 ELSE 2 * f[k - 1]]
  PROVE  /\ p[0] = 1
         /\ \A k \in Nat : p[k + 1] = 2 * p[k] /\ p[k] \in Nat /\ p[k] > k
<1> DEFINE Def(f) == [k \in Nat |-> IF k = 0 THEN 1 ELSE 2 * f[k - 1]]
           step == [i \in Nat |-> [x \in Nat |-> 2 * x]]
           R(n) == Runs(1, step, Nat, n)
           F == [n \in Nat |-> CHOOSE f \in R(n) : TRUE]
           g == [n \in Nat |-> F[n][n]]
<1>1. \A n \in Nat : R(n) # {}
  <2>1. Keeps(step, Nat)
    BY DEF Keeps
  <2> HIDE DEF step
  <2> QED
    BY <2>1, Recursion
<1>2. \A n \in Nat : F[n] \in R(n)
  <2> HIDE DEF R
  <2> QED
    BY <1>1
<1>0. \A i \in Nat, x \in Nat : step[i][x] = 2 * x
  OBVIOUS
<1>3. ASSUME NEW n \in Nat, NEW f \in R(n)
      PROVE  /\ f \in [0..n -> Nat] /\ f[0] = 1
             /\ \A i \in 1..n : f[i] = 2 * f[i - 1]
  <2>1. /\ f \in [0..n -> Nat] /\ f[0] = 1
        /\ \A i \in 1..n : f[i] = step[i][f[i - 1]]
    BY DEF Runs
  <2>2. ASSUME NEW i \in 1..n PROVE f[i] = 2 * f[i - 1]
    <3> HIDE DEF step
    <3>0. i \in Nat /\ i - 1 \in 0..n
      OBVIOUS
    <3>1. i \in Nat /\ f[i - 1] \in Nat
      BY <2>1, <3>0
    <3>2. f[i] = step[i][f[i - 1]]
      BY <2>1
    <3> QED
      BY <1>0, <3>1, <3>2
  <2> QED
    BY <2>1, <2>2
<1> HIDE DEF R
<1> DEFINE G == {i \in Nat : \A n, m \in Nat : i <= n /\ i <= m => F[n][i] = F[m][i]}
<1>4. Nat \subseteq G
  <2>1. 0 \in G
    BY <1>2, <1>3
  <2>2. ASSUME NEW i \in Nat, i \in G PROVE i + 1 \in G
    <3> SUFFICES ASSUME NEW n \in Nat, NEW m \in Nat, i + 1 <= n, i + 1 <= m
                 PROVE  F[n][i + 1] = F[m][i + 1]
      OBVIOUS
    <3> HIDE DEF F
    <3>1. F[n][i] = F[m][i]
      BY <2>2
    <3>2. i + 1 \in 1..n /\ i + 1 \in 1..m /\ (i + 1) - 1 = i
      OBVIOUS
    <3>3. F[n][i + 1] = 2 * F[n][i] /\ F[m][i + 1] = 2 * F[m][i]
      BY <1>2, <1>3, <3>2
    <3> QED
      BY <3>1, <3>3
  <2> HIDE DEF G
  <2> QED
    BY <2>1, <2>2, Induction
<1>5. \A n \in Nat : g[n] = IF n = 0 THEN 1 ELSE 2 * g[n - 1]
  <2> TAKE n \in Nat
  <2>1. CASE n = 0
    BY <1>2, <1>3, <2>1
  <2>2. CASE n # 0
    <3>1. n - 1 \in Nat /\ n \in 1..n /\ n - 1 <= n
      BY <2>2
    <3> HIDE DEF F
    <3>2. F[n][n] = 2 * F[n][n - 1]
      BY <1>2, <1>3, <3>1
    <3>3. F[n][n - 1] = F[n - 1][n - 1]
      BY <1>4, <3>1
    <3> QED
      BY <2>2, <3>1, <3>2, <3>3
  <2> QED
    BY <2>1, <2>2
<1>6. g = Def(g)
  <2> HIDE DEF F
  <2> QED
    BY <1>5
<1>7. p = Def(p)
  <2>1. p = CHOOSE f : f = Def(f)
    OBVIOUS
  <2> HIDE DEF Def, g
  <2> QED
    BY <1>6, <2>1
<1>8. \A n \in Nat : p[n] = IF n = 0 THEN 1 ELSE 2 * p[n - 1]
  BY <1>7
<1>9. p[0] = 1 /\ \A n \in Nat : p[n + 1] = 2 * p[n]
  <2>1. \A n \in Nat : n + 1 \in Nat /\ n + 1 # 0 /\ (n + 1) - 1 = n
    OBVIOUS
  <2> QED
    BY <1>8, <2>1
<1> DEFINE H == {k \in Nat : p[k] \in Nat /\ p[k] > k}
<1>10. Nat \subseteq H
  <2>1. 0 \in H
    BY <1>9
  <2>2. ASSUME NEW k \in Nat, k \in H PROVE k + 1 \in H
    <3>1. p[k + 1] = 2 * p[k] /\ p[k] \in Nat /\ p[k] > k
      BY <1>9, <2>2
    <3>2. 2 * p[k] \in Nat /\ 2 * p[k] > k + 1
      BY <3>1
    <3> QED
      BY <3>1, <3>2
  <2> HIDE DEF H
  <2> QED
    BY <2>1, <2>2, Induction
<1> QED
  BY <1>9, <1>10
=============================================================================
