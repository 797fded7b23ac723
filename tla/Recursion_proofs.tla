-------------------------- MODULE Recursion_proofs ---------------------------
(***************************************************************************)
(* Induction and recursion over the naturals, for sets and functions: what *)
(* the proofs about data need.                                             *)
(***************************************************************************)
EXTENDS Naturals, WellFoundedInduction, TLAPS

\* Some naturals have a least one among them.
LEMMA LeastOf ==
  ASSUME NEW T \in SUBSET Nat, T # {}
  PROVE  \E n \in T : \A m \in T : n <= m
<1> DEFINE R == OpToRel(<, Nat)
<1>1. IsWellFoundedOn(R, Nat)
  BY NatLessThanWellFounded
<1>2. \A x, y \in Nat : <<x, y>> \in R <=> x < y
  BY DEF OpToRel
<1> HIDE DEF R
<1>3. PICK x \in T : \A y \in T : ~ (<<y, x>> \in R)
  BY <1>1, WFMin
<1>4. \A m \in T : x \in Nat /\ m \in Nat /\ ~ (m < x)
  BY <1>2, <1>3
<1> QED BY <1>3, <1>4

\* A set that has 0, and with each natural the next, has them all.
LEMMA Induction ==
  ASSUME NEW S, 0 \in S, \A n \in Nat : n \in S => n + 1 \in S
  PROVE  Nat \subseteq S
<1> SUFFICES ASSUME Nat \ S # {} PROVE FALSE
  OBVIOUS
<1> DEFINE T == Nat \ S
<1>1. T \in SUBSET Nat
  OBVIOUS
<1>2. PICK n \in T : \A m \in T : n <= m
  BY <1>1, LeastOf
<1>3. n # 0 /\ n \in Nat
  BY <1>2
<1>4. n - 1 \in Nat /\ ~ (n <= n - 1)
  BY <1>3
<1>5. n - 1 \in S
  BY <1>2, <1>4
<1>6. (n - 1) + 1 = n
  BY <1>3
<1> QED BY <1>2, <1>4, <1>5, <1>6

\* The same up to a bound.
LEMMA BoundedInduction ==
  ASSUME NEW S, NEW N \in Nat, 0 \in S, \A n \in 0..(N - 1) : n \in S => n + 1 \in S
  PROVE  0..N \subseteq S
<1> DEFINE T == S \cup {n \in Nat : n > N}
<1>1. 0 \in T
  OBVIOUS
<1>2. \A n \in Nat : n \in T => n + 1 \in T
  <2> SUFFICES ASSUME NEW n \in Nat, n \in T PROVE n + 1 \in T
    OBVIOUS
  <2>1. CASE n > N \/ n = N
    BY <2>1
  <2>2. CASE n < N
    BY <2>2
  <2> QED BY <2>1, <2>2
<1> HIDE DEF T
<1>3. Nat \subseteq T
  BY <1>1, <1>2, Induction
<1> QED BY <1>3 DEF T

\* f is the function on the naturals that step makes from base.
Recurses(f, S, base, step) == f \in [Nat -> S] /\ f[0] = base /\ \A n \in Nat : f[n + 1] = step[n][f[n]]

\* A step for each natural defines a function on them.
LEMMA RecursionExists ==
  ASSUME NEW S, NEW base \in S, NEW step \in [Nat -> [S -> S]]
  PROVE  \E f : Recurses(f, S, base, step)
<1> DEFINE Upto(n) == {f \in [0..n -> S] : f[0] = base /\ \A m \in 0..(n - 1) : f[m + 1] = step[m][f[m]]}
           Good    == {n \in Nat : \E f \in Upto(n) : TRUE}
<1>1. 0 \in Good
  <2> DEFINE g == [n \in 0..0 |-> base]
  <2>1. g \in [0..0 -> S] /\ g[0] = base
    OBVIOUS
  <2>2. \A m \in 0..(0 - 1) : FALSE
    OBVIOUS
  <2> HIDE DEF g
  <2>3. g \in Upto(0)
    BY <2>1, <2>2
  <2> QED BY <2>3
<1>2. ASSUME NEW n \in Nat, n \in Good PROVE n + 1 \in Good
  <2>1. PICK f \in Upto(n) : TRUE
    BY <1>2
  <2>2. f \in [0..n -> S] /\ f[0] = base /\ \A m \in 0..(n - 1) : f[m + 1] = step[m][f[m]]
    BY <2>1
  <2> DEFINE next == step[n][f[n]]
             g    == [m \in 0..(n + 1) |-> IF m = n + 1 THEN next ELSE f[m]]
  <2>3. f[n] \in S
    BY <2>2
  <2>4. step[n] \in [S -> S]
    OBVIOUS
  <2>5. next \in S
    BY <2>3, <2>4
  <2>6. g \in [0..(n + 1) -> S]
    <3> HIDE DEF next
    <3> QED BY <2>2, <2>5
  <2>7. g[n + 1] = next /\ \A m \in 0..n : g[m] = f[m]
    <3> HIDE DEF next
    <3> QED OBVIOUS
  <2> HIDE DEF g
  <2>8. \A m \in 0..n : g[m + 1] = step[m][g[m]]
    <3> SUFFICES ASSUME NEW m \in 0..n PROVE g[m + 1] = step[m][g[m]]
      OBVIOUS
    <3>1. CASE m = n
      BY <2>7, <3>1
    <3>2. CASE m < n
      <4>1. m \in 0..(n - 1) /\ m + 1 \in 0..n
        BY <3>2
      <4>2. g[m + 1] = f[m + 1] /\ g[m] = f[m]
        BY <2>7, <4>1
      <4> QED BY <2>2, <4>1, <4>2
    <3> QED BY <3>1, <3>2
  <2>9. g[0] = base
    BY <2>2, <2>7
  <2>10. (n + 1) - 1 = n /\ n + 1 \in Nat
    OBVIOUS
  <2>11. g \in Upto(n + 1)
    BY <2>6, <2>8, <2>9, <2>10
  <2> QED BY <2>10, <2>11
<1>3. Nat \subseteq Good
  <2> HIDE DEF Good
  <2> QED BY <1>1, <1>2, Induction
\* Two of them agree as far as both go.
<1>4. ASSUME NEW j \in Nat, NEW k \in Nat, NEW f \in Upto(j), NEW g \in Upto(k)
      PROVE  \A n \in Nat : n <= j /\ n <= k => f[n] = g[n]
  <2> DEFINE Agree == {n \in Nat : n <= j /\ n <= k => f[n] = g[n]}
  <2>1. 0 \in Agree
    OBVIOUS
  <2>2. ASSUME NEW n \in Nat, n \in Agree PROVE n + 1 \in Agree
    <3> SUFFICES ASSUME n + 1 <= j, n + 1 <= k PROVE f[n + 1] = g[n + 1]
      OBVIOUS
    <3>1. n \in 0..(j - 1) /\ n \in 0..(k - 1) /\ n <= j /\ n <= k
      OBVIOUS
    <3>2. f[n] = g[n]
      BY <2>2, <3>1
    <3>3. f[n + 1] = step[n][f[n]] /\ g[n + 1] = step[n][g[n]]
      BY <3>1
    <3> QED BY <3>2, <3>3
  <2>3. Nat \subseteq Agree
    <3> HIDE DEF Agree
    <3> QED BY <2>1, <2>2, Induction
  <2> QED BY <2>3
<1> DEFINE F(n) == CHOOSE f : f \in Upto(n)
           h    == [n \in Nat |-> F(n)[n]]
<1>5. \A n \in Nat : F(n) \in Upto(n)
  <2> SUFFICES ASSUME NEW n \in Nat PROVE F(n) \in Upto(n)
    OBVIOUS
  <2>1. \E f : f \in Upto(n)
    BY <1>3
  <2> HIDE DEF Upto
  <2> QED BY <2>1
<1> HIDE DEF F
<1>6. \A n \in Nat : F(n) \in [0..n -> S] /\ F(n)[n] \in S /\ F(n)[0] = base
  BY <1>5
<1>7. h \in [Nat -> S] /\ \A n \in Nat : h[n] = F(n)[n]
  BY <1>6
<1> HIDE DEF h
<1>8. ASSUME NEW n \in Nat PROVE h[n + 1] = step[n][h[n]]
  <2>1. F(n) \in Upto(n) /\ F(n + 1) \in Upto(n + 1) /\ n + 1 \in Nat /\ n <= n /\ n <= n + 1
    BY <1>5
  <2>2. F(n)[n] = F(n + 1)[n]
    <3> HIDE DEF Upto
    <3> QED BY <1>4, <2>1
  <2>3. F(n + 1)[n + 1] = step[n][F(n + 1)[n]]
    <3>1. n \in 0..((n + 1) - 1)
      OBVIOUS
    <3> QED BY <2>1, <3>1
  <2> QED BY <1>7, <2>1, <2>2, <2>3
<1>9. h[0] = base
  BY <1>6, <1>7
<1> QED BY <1>7, <1>8, <1>9 DEF Recurses

\* The same up to a bound, in the form a definition by LET h[n \in 0..N] takes.
RecursesUpTo(h, S, base, step, N) ==
  h \in [0..N -> S] /\ h[0] = base /\ \A n \in 1..N : h[n] = step[n - 1][h[n - 1]]

LEMMA RecursionUpTo ==
  ASSUME NEW S, NEW base \in S, NEW step \in [Nat -> [S -> S]], NEW N \in Nat
  PROVE  \E h : RecursesUpTo(h, S, base, step, N)
<1>1. PICK f : Recurses(f, S, base, step)
  BY RecursionExists
<1>2. f \in [Nat -> S] /\ f[0] = base /\ \A n \in Nat : f[n + 1] = step[n][f[n]]
  BY <1>1 DEF Recurses
<1> DEFINE h == [n \in 0..N |-> f[n]]
<1>3. h \in [0..N -> S] /\ h[0] = base
  BY <1>2
<1>4. ASSUME NEW n \in 1..N PROVE h[n] = step[n - 1][h[n - 1]]
  <2>1. n - 1 \in Nat /\ (n - 1) + 1 = n /\ n \in 0..N /\ n - 1 \in 0..N
    OBVIOUS
  <2>2. f[n] = step[n - 1][f[n - 1]]
    BY <1>2, <2>1
  <2> QED BY <2>1, <2>2
<1> HIDE DEF h
<1> QED BY <1>3, <1>4 DEF RecursesUpTo
==============================================================================
