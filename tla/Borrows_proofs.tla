--------------------------- MODULE Borrows_proofs ----------------------------
(***************************************************************************)
(* For every module, whatever its functions call and however they go       *)
(* round: what the inference of borrows ends with (Borrows.c).             *)
(***************************************************************************)
EXTENDS Borrows, FiniteSetTheorems, Recursion_proofs

\* What the modules are made of.
LEMMA SeqFacts ==
  ASSUME NEW s, IsSeq(s)
  PROVE  Len(s) \in Nat /\ DOMAIN s = 1..Len(s)
BY DEF IsSeq

LEMMA ModuleFacts ==
  ASSUME fns \in Modules
  PROVE  /\ Len(fns) \in Nat /\ DOMAIN fns = 1..Len(fns)
         /\ \A f \in DOMAIN fns :
              /\ IsFunction(fns[f])
              /\ Len(fns[f].nodes) \in Nat /\ DOMAIN fns[f].nodes = 1..Len(fns[f].nodes)
              /\ Len(fns[f].growth) \in Nat /\ DOMAIN fns[f].growth = 1..Len(fns[f].growth)
              /\ Len(fns[f].params) \in Nat /\ ParamsOf(f) = 1..Len(fns[f].params)
<1>1. IsSeq(fns) /\ \A f \in DOMAIN fns : IsFunction(fns[f])
  BY ModulesAssumption
<1>2. \A f \in DOMAIN fns : IsSeq(fns[f].nodes) /\ IsSeq(fns[f].growth) /\ IsSeq(fns[f].params)
  BY <1>1 DEF IsFunction
<1> QED BY <1>1, <1>2, SeqFacts DEF ParamsOf

-----------------------------------------------------------------------------
\* One scan.

\* The states of a scan whose steps are given.
Steps(h, S, c, N, step) ==
  /\ h = [k \in 0..N |-> IF k = 0 THEN c ELSE step[k - 1][h[k - 1]]]
  /\ \A k \in 0..N : h[k] \in S

LEMMA StepsExist ==
  ASSUME NEW S, NEW c \in S, NEW N \in Nat, NEW step \in [Nat -> [S -> S]]
  PROVE  \E h : Steps(h, S, c, N, step)
<1>1. PICK g : Recurses(g, S, c, step)
  BY RecursionExists
<1>2. g \in [Nat -> S] /\ g[0] = c /\ \A n \in Nat : g[n + 1] = step[n][g[n]]
  BY <1>1 DEF Recurses
<1> DEFINE h == [k \in 0..N |-> g[k]]
<1>3. ASSUME NEW k \in 0..N PROVE h[k] = IF k = 0 THEN c ELSE step[k - 1][h[k - 1]]
  <2>1. CASE k # 0
    <3>1. k - 1 \in Nat /\ (k - 1) + 1 = k /\ k - 1 \in 0..N
      BY <2>1
    <3> QED BY <1>2, <2>1, <3>1
  <2> QED BY <1>2, <2>1
<1>4. h = [k \in 0..N |-> IF k = 0 THEN c ELSE step[k - 1][h[k - 1]]]
  BY <1>3
<1>5. \A k \in 0..N : h[k] \in S
  BY <1>2
<1> HIDE DEF h
<1>6. Steps(h, S, c, N, step)
  BY <1>4, <1>5 DEF Steps
<1> QED BY <1>6

\* A chain of sets, each within the next.
LEMMA Chain ==
  ASSUME NEW x, NEW N \in Nat, \A k \in 0..(N - 1) : x[k] \subseteq x[k + 1]
  PROVE  \A k \in 0..N : x[0] \subseteq x[k] /\ x[k] \subseteq x[N]
<1> DEFINE G == {k \in 0..N : x[0] \subseteq x[k]}
           H == {k \in 0..N : x[N - k] \subseteq x[N]}
<1>1. 0..N \subseteq G
  <2>1. 0 \in G /\ \A k \in 0..(N - 1) : k \in G => k + 1 \in G
    OBVIOUS
  <2> HIDE DEF G
  <2> QED BY <2>1, BoundedInduction
<1>2. 0..N \subseteq H
  <2>1. 0 \in H
    OBVIOUS
  <2>2. ASSUME NEW k \in 0..(N - 1), k \in H PROVE k + 1 \in H
    <3>1. N - (k + 1) \in 0..(N - 1) /\ (N - (k + 1)) + 1 = N - k /\ k + 1 \in 0..N
      OBVIOUS
    <3> QED BY <2>2, <3>1
  <2> HIDE DEF H
  <2> QED BY <2>1, <2>2, BoundedInduction
<1>3. \A k \in 0..N : N - k \in 0..N /\ N - (N - k) = k
  OBVIOUS
<1> QED BY <1>1, <1>2, <1>3

\* A scan of a body takes its nodes one after the other (ScanBorrows).
LEMMA ScanSteps ==
  ASSUME NEW c, NEW f, Len(fns[f].nodes) \in Nat
  PROVE  \E m : /\ m[0] = c
                /\ \A k \in 0..(Len(fns[f].nodes) - 1) : m[k + 1] = Leave(f, m[k], fns[f].nodes[k + 1])
                /\ ScanBorrows(c, f) = m[Len(fns[f].nodes)]
<1> DEFINE N        == Len(fns[f].nodes)
           S        == SUBSET c
           step     == [n \in Nat |-> [x \in S |-> Leave(f, x, fns[f].nodes[n + 1])]]
           Upto(m)  == [k \in 0..N |-> IF k = 0 THEN c ELSE Leave(f, m[k - 1], fns[f].nodes[k])]
<1>1. \A x, n : x \in S => Leave(f, x, n) \in S
  BY DEF Leave
<1>2. c \in S /\ N \in Nat
  OBVIOUS
<1> HIDE DEF S
<1>3. step \in [Nat -> [S -> S]] /\ \A n \in Nat, x \in S : step[n][x] = Leave(f, x, fns[f].nodes[n + 1])
  BY <1>1
<1> HIDE DEF step, N
<1>4. PICK h : Steps(h, S, c, N, step)
  BY <1>2, <1>3, StepsExist
<1>5. h = Upto(h)
  <2>1. ASSUME NEW k \in 0..N, k # 0 PROVE step[k - 1][h[k - 1]] = Leave(f, h[k - 1], fns[f].nodes[k])
    <3>1. k - 1 \in Nat /\ (k - 1) + 1 = k /\ k - 1 \in 0..N
      BY <1>2, <2>1
    <3> QED BY <1>3, <1>4, <3>1 DEF Steps
  <2>2. Upto(h) = [k \in 0..N |-> IF k = 0 THEN c ELSE step[k - 1][h[k - 1]]]
    BY <2>1
  <2> QED BY <1>4, <2>2 DEF Steps
<1> DEFINE m == CHOOSE x : x = Upto(x)
<1>6. m = Upto(m)
  <2>1. \E x : x = Upto(x)
    BY <1>5
  <2> HIDE DEF Upto
  <2> QED BY <2>1
<1>7. ScanBorrows(c, f) = m[N]
  BY DEF ScanBorrows, N
<1> HIDE DEF m
<1>8. m[0] = c
  BY <1>2, <1>6
<1>9. ASSUME NEW k \in 0..(N - 1) PROVE m[k + 1] = Leave(f, m[k], fns[f].nodes[k + 1])
  <2>1. k + 1 \in 0..N /\ k + 1 # 0 /\ (k + 1) - 1 = k
    BY <1>2
  <2> QED BY <1>6, <2>1
<1> QED BY <1>7, <1>8, <1>9 DEF N

\* Of a larger set of candidates a node takes no more of the smaller one.
LEMMA ConsumedLess ==
  ASSUME NEW c, NEW d, NEW f, NEW n, c \subseteq d
  PROVE  Consumed(d, f, n) \cap c \subseteq Consumed(c, f, n)
<1>1. \A p : BorrowRoot(d, f, p) \cap c \subseteq BorrowRoot(c, f, p)
  BY DEF BorrowRoot
<1>2. \A p : ConsumeIfTaken(d, f, p) \cap c \subseteq ConsumeIfTaken(c, f, p)
  BY <1>1 DEF ConsumeIfTaken
<1>3. \A arg, j : ScanBorrowArg(d, f, n, arg, j) \cap c \subseteq ScanBorrowArg(c, f, n, arg, j)
  BY <1>1, <1>2, SMTT(40) DEF ScanBorrowArg
<1>4. ScanCallBorrows(d, f, n) \cap c \subseteq ScanCallBorrows(c, f, n)
  <2> DEFINE Kept(e, k)  == IF k \in DOMAIN n.args THEN BorrowRoot(e, f, n.args[k]) ELSE {}
             Taken_(e, k) == IF k \in DOMAIN n.args THEN ConsumeIfTaken(e, f, n.args[k]) ELSE {}
             Args(e)     == UNION {ScanBorrowArg(e, f, n, Operands(n)[j], j) : j \in DOMAIN Operands(n)}
             All(e)      == UNION {Kept(e, k) : k \in DOMAIN n.args}
             name        == IF IsMethod(n) THEN "a method" ELSE n.callee
  <2>1. \A k : Kept(d, k) \cap c \subseteq Kept(c, k)
    BY <1>1
  <2>2. \A k : Taken_(d, k) \cap c \subseteq Taken_(c, k)
    BY <1>2
  <2>3. Args(d) \cap c \subseteq Args(c)
    BY <1>3
  <2>4. All(d) \cap c \subseteq All(c)
    BY <2>1
  <2> DEFINE only == (Mutators \ {"array_push", "array_replace"}) \cup {"drop", "addressof"}
             Of(e) == CASE n.callee = ""           -> All(e)
                        [] name = "array_push"     -> Kept(e, 1) \cup Taken_(e, 2)
                        [] name = "array_replace"  -> Kept(e, 1) \cup Kept(e, 3)
                        [] name \in only           -> Kept(e, 1)
                        [] name = "ptr_place"      -> Kept(e, 2)
                        [] name \in OnlyRead       -> {}
                        [] OTHER                   -> Args(e)
  <2>5. \A e : ScanCallBorrows(e, f, n) = Of(e)
    BY DEF ScanCallBorrows
  <2> HIDE DEF Kept, Taken_, Args, All, name, only
  <2>6. Of(d) \cap c \subseteq Of(c)
    BY <2>1, <2>2, <2>3, <2>4 DEF name, only, Mutators, Resizing, Growing, OnlyRead
  <2> QED BY <2>5, <2>6
<1> QED BY <1>1, <1>2, <1>4 DEF Consumed

\* The more candidates a scan starts from, the more it leaves.
LEMMA ScanMonotone ==
  ASSUME NEW c, NEW d, NEW f, Len(fns[f].nodes) \in Nat, c \subseteq d
  PROVE  ScanBorrows(c, f) \subseteq ScanBorrows(d, f)
<1> DEFINE N == Len(fns[f].nodes)
<1>1. PICK x : /\ x[0] = c
               /\ \A k \in 0..(N - 1) : x[k + 1] = Leave(f, x[k], fns[f].nodes[k + 1])
               /\ ScanBorrows(c, f) = x[N]
  BY ScanSteps
<1>2. PICK y : /\ y[0] = d
               /\ \A k \in 0..(N - 1) : y[k + 1] = Leave(f, y[k], fns[f].nodes[k + 1])
               /\ ScanBorrows(d, f) = y[N]
  BY ScanSteps
<1> DEFINE G == {k \in 0..N : x[k] \subseteq y[k]}
<1>3. N \in Nat /\ 0 \in G
  BY <1>1, <1>2
<1>4. ASSUME NEW k \in 0..(N - 1), k \in G PROVE k + 1 \in G
  <2>1. x[k] \subseteq y[k] /\ k + 1 \in 0..N
    BY <1>4
  <2>2. Leave(f, x[k], fns[f].nodes[k + 1]) \subseteq Leave(f, y[k], fns[f].nodes[k + 1])
    BY <2>1, ConsumedLess DEF Leave
  <2> QED BY <1>1, <1>2, <2>1, <2>2
<1> HIDE DEF G, N
<1>5. 0..N \subseteq G
  BY <1>3, <1>4, BoundedInduction
<1> QED BY <1>1, <1>2, <1>3, <1>5 DEF G

\* A scan only takes candidates away, and where it takes none no node does.
LEMMA ScanShrinks ==
  ASSUME NEW c, NEW f, Len(fns[f].nodes) \in Nat
  PROVE  /\ ScanBorrows(c, f) \subseteq c
         /\ ScanBorrows(c, f) = c =>
              \A k \in 1..Len(fns[f].nodes) : Consumed(c, f, fns[f].nodes[k]) \cap c = {}
<1> DEFINE N == Len(fns[f].nodes)
<1>1. PICK x : /\ x[0] = c
               /\ \A k \in 0..(N - 1) : x[k + 1] = Leave(f, x[k], fns[f].nodes[k + 1])
               /\ ScanBorrows(c, f) = x[N]
  BY ScanSteps
<1> DEFINE y == [k \in 0..N |-> x[N - k]]
<1>2. ASSUME NEW k \in 0..(N - 1) PROVE y[k] \subseteq y[k + 1]
  <2>1. N - (k + 1) \in 0..(N - 1) /\ (N - (k + 1)) + 1 = N - k /\ k \in 0..N /\ k + 1 \in 0..N
    OBVIOUS
  <2>2. x[N - k] \subseteq x[N - (k + 1)]
    BY <1>1, <2>1 DEF Leave
  <2> QED BY <2>1, <2>2
<1>3. y[0] = x[N] /\ y[N] = c /\ \A k \in 0..N : N - k \in 0..N /\ x[k] = y[N - k]
  BY <1>1
<1> HIDE DEF y
<1>4. \A k \in 0..N : y[0] \subseteq y[k] /\ y[k] \subseteq y[N]
  BY <1>2, Chain
<1>5. ASSUME x[N] = c, NEW k \in 1..N PROVE Consumed(c, f, fns[f].nodes[k]) \cap c = {}
  <2>1. k - 1 \in 0..(N - 1) /\ (k - 1) + 1 = k /\ k \in 0..N /\ k - 1 \in 0..N
    OBVIOUS
  <2>2. x[k] = c /\ x[k - 1] = c
    BY <1>3, <1>4, <1>5, <2>1
  <2>3. c = Leave(f, c, fns[f].nodes[k])
    BY <1>1, <2>1, <2>2
  <2> QED BY <2>3 DEF Leave
<1>6. 0 \in 0..N
  OBVIOUS
<1> QED BY <1>1, <1>3, <1>4, <1>5, <1>6

\* A set of candidates that no scan leaves anything of out.
Stays(c) == \A f \in DOMAIN fns : ScanBorrows(c, f) = c

-----------------------------------------------------------------------------
\* The candidates left are never fewer than any set of them that stays.
GreatestInv ==
  /\ fns \in Modules
  /\ phase \in {"growth", "borrow", "check", "run", "rejected"}
  /\ phase # "growth" =>
       lent \subseteq Eligible /\ \A c \in SUBSET Eligible : Stays(c) => c \subseteq lent

LEMMA GreatestStep == GreatestInv /\ [Next]_vars => GreatestInv'
<1> SUFFICES ASSUME GreatestInv, [Next]_vars PROVE GreatestInv'
  OBVIOUS
<1>1. \A f \in DOMAIN fns : Len(fns[f].nodes) \in Nat
  BY ModuleFacts DEF GreatestInv
<1>2. ASSUME fns' = fns
      PROVE  Eligible' = Eligible /\ \A c : Stays(c)' = Stays(c)
  BY <1>2 DEF Eligible, AllParams, ParamsOf, Param, HasBody, Stays, ScanBorrows, Leave, Consumed,
              ScanCallBorrows, ScanBorrowArg, ConsumeIfTaken, BorrowRoot, Callable
<1>3. ASSUME fns' = fns, lent' = lent, phase' = phase PROVE GreatestInv'
  BY <1>2, <1>3 DEF GreatestInv
<1>4. CASE ScanNextBorrows
  <2>1. /\ phase = "borrow" /\ scan \in DOMAIN fns /\ lent' = ScanBorrows(lent, scan)
        /\ fns' = fns /\ phase' = phase
    BY <1>4 DEF ScanNextBorrows
  <2>2. ASSUME NEW c \in SUBSET Eligible, Stays(c) PROVE c \subseteq lent'
    <3>1. c \subseteq lent /\ ScanBorrows(c, scan) = c
      BY <2>1, <2>2 DEF GreatestInv, Stays
    <3> QED BY <1>1, <2>1, <3>1, ScanMonotone
  <2>3. lent' \subseteq Eligible
    BY <1>1, <2>1, ScanShrinks DEF GreatestInv
  <2> QED BY <1>2, <2>1, <2>2, <2>3 DEF GreatestInv
<1>5. CASE EndRound
  <2>1. fns' = fns /\ phase \in {"growth", "borrow"}
    BY <1>5 DEF EndRound
  <2>2. CASE phase' = phase /\ lent' = lent
    BY <1>3, <2>1, <2>2
  <2>3. CASE phase' = "borrow" /\ lent' = Eligible
    BY <1>2, <2>1, <2>3 DEF GreatestInv
  <2>4. CASE phase = "borrow" /\ phase' = "check" /\ lent' = lent
    BY <1>2, <2>1, <2>4 DEF GreatestInv
  <2> QED BY <1>5, <2>1, <2>2, <2>3, <2>4 DEF EndRound
<1>6. CASE CheckBodies
  <2>1. fns' = fns /\ lent' = lent /\ phase = "check" /\ phase' \in {"run", "rejected"}
    BY <1>6 DEF CheckBodies
  <2> QED BY <1>2, <2>1 DEF GreatestInv
<1>7. CASE MarkNextGrowth
  BY <1>3, <1>7 DEF MarkNextGrowth
<1>8. CASE inference' = inference
  BY <1>3, <1>8 DEF inference
<1> QED BY <1>4, <1>5, <1>6, <1>7, <1>8
        DEF Next, Ended, EnterExport, EnterCall, BindRef, LeaveCall, vars

\* No parameter takes its argument without need: what the passes over the
\* functions leave is the largest set of candidates a whole round keeps, wherever
\* they stop (InferBorrowedParams).
THEOREM InferenceIsGreatestHolds == Spec => []InferenceIsGreatest
<1>1. Init => GreatestInv
  BY DEF Init, GreatestInv
<1>2. GreatestInv => InferenceIsGreatest
  <2> SUFFICES ASSUME GreatestInv, phase = "check",
                      NEW more \in (SUBSET (Eligible \ lent)) \ {{}},
                      \A f \in DOMAIN fns : ScanBorrows(lent \cup more, f) = lent \cup more
               PROVE  FALSE
    BY DEF InferenceIsGreatest
  <2>1. lent \cup more \subseteq lent
    BY DEF GreatestInv, Stays
  <2> QED BY <2>1
<1> QED BY <1>1, <1>2, GreatestStep, PTL DEF Spec

-----------------------------------------------------------------------------
\* The cap on the rounds.

Growable == {q \in AllParams : Param(q).mod = "ref" /\ ~Param(q).rest /\ Param(q).ty.form = "array"}

\* Marks a whole scan adds nothing to.
GrowthStays(marked) == \A f \in DOMAIN fns : ScanGrowth(marked, f) = marked

LEMMA ParamsFinite ==
  ASSUME fns \in Modules
  PROVE  IsFiniteSet(Growable) /\ IsFiniteSet(Eligible)
<1> DEFINE g == [f \in DOMAIN fns |-> {f} \X ParamsOf(f)]
           T == {g[f] : f \in DOMAIN fns}
<1>1. IsFiniteSet(DOMAIN fns)
  BY ModuleFacts, FS_Interval
<1>2. g \in Surjection(DOMAIN fns, T)
  BY DEF Surjection
<1>3. IsFiniteSet(T)
  BY <1>1, <1>2, FS_Surjection
<1>4. ASSUME NEW t \in T PROVE IsFiniteSet(t)
  <2>1. PICK f \in DOMAIN fns : t = {f} \X ParamsOf(f)
    BY <1>4
  <2>2. IsFiniteSet(ParamsOf(f)) /\ IsFiniteSet({f})
    <3>1. ParamsOf(f) = 1..Len(fns[f].params) /\ Len(fns[f].params) \in Int /\ 1 \in Int
      BY ModuleFacts
    <3>2. IsFiniteSet(1..Len(fns[f].params))
      BY <3>1, FS_Interval
    <3> QED BY <3>1, <3>2, FS_Singleton
  <2> QED BY <2>1, <2>2, FS_Product
<1>5. AllParams = UNION T
  BY DEF AllParams
<1> HIDE DEF T, g
<1>6. IsFiniteSet(AllParams)
  BY <1>3, <1>4, <1>5, FS_UNION
<1>7. Growable \in SUBSET AllParams /\ Eligible \in SUBSET AllParams
  BY DEF Growable, Eligible
<1> QED BY <1>6, <1>7, FS_Subset

\* A set within another of as many elements or more: strictly within, it has fewer.
LEMMA FewerLeft ==
  ASSUME NEW S, IsFiniteSet(S), NEW T \in SUBSET S
  PROVE  /\ Cardinality(T) \in Nat /\ Cardinality(S) \in Nat /\ Cardinality(T) <= Cardinality(S)
         /\ T # S => Cardinality(T) + 1 <= Cardinality(S)
<1>1. IsFiniteSet(T) /\ Cardinality(T) <= Cardinality(S) /\ (Cardinality(S) = Cardinality(T) => S = T)
  BY FS_Subset
<1>2. Cardinality(T) \in Nat /\ Cardinality(S) \in Nat
  BY <1>1, FS_CardinalityType
<1> QED BY <1>1, <1>2

\* A scan for growth takes the nodes one after the other (ScanGrowth).
LEMMA GrowthSteps ==
  ASSUME NEW c, NEW f \in DOMAIN fns, Len(fns[f].growth) \in Nat
  PROVE  \E m : /\ m[0] = c
                /\ \A k \in 0..(Len(fns[f].growth) - 1) :
                     m[k + 1] = Mark(f, m[k], fns[f].growth[k + 1]) /\ m[k + 1] \subseteq m[k] \cup Growable
                /\ ScanGrowth(c, f) = m[Len(fns[f].growth)]
<1> DEFINE N        == Len(fns[f].growth)
           S        == SUBSET (c \cup Growable)
           step     == [n \in Nat |-> [x \in S |-> Mark(f, x, fns[f].growth[n + 1])]]
           Upto(m)  == [k \in 0..N |-> IF k = 0 THEN c ELSE Mark(f, m[k - 1], fns[f].growth[k])]
<1>1. \A x, n : Mark(f, x, n) \subseteq x \cup Growable
  <2>1. \A p : MarkGrowth(f, p) \subseteq Growable
    BY DEF MarkGrowth, RefArrayParamNamed, Growable, AllParams
  <2> QED BY <2>1 DEF Mark
<1>2. c \in S /\ N \in Nat
  OBVIOUS
<1>3. \A x, n : x \in S => Mark(f, x, n) \in S
  BY <1>1
<1> HIDE DEF S
<1>4. step \in [Nat -> [S -> S]] /\ \A n \in Nat, x \in S : step[n][x] = Mark(f, x, fns[f].growth[n + 1])
  BY <1>3
<1> HIDE DEF step, N
<1>5. PICK h : Steps(h, S, c, N, step)
  BY <1>2, <1>4, StepsExist
<1>6. h = Upto(h)
  <2>1. ASSUME NEW k \in 0..N, k # 0 PROVE step[k - 1][h[k - 1]] = Mark(f, h[k - 1], fns[f].growth[k])
    <3>1. k - 1 \in Nat /\ (k - 1) + 1 = k /\ k - 1 \in 0..N
      BY <1>2, <2>1
    <3> QED BY <1>4, <1>5, <3>1 DEF Steps
  <2>2. Upto(h) = [k \in 0..N |-> IF k = 0 THEN c ELSE step[k - 1][h[k - 1]]]
    BY <2>1
  <2> QED BY <1>5, <2>2 DEF Steps
<1> DEFINE m == CHOOSE x : x = Upto(x)
<1>7. m = Upto(m)
  <2>1. \E x : x = Upto(x)
    BY <1>6
  <2> HIDE DEF Upto
  <2> QED BY <2>1
<1>8. ScanGrowth(c, f) = m[N]
  BY DEF ScanGrowth, N
<1> HIDE DEF m
<1>9. m[0] = c
  BY <1>2, <1>7
<1>10. ASSUME NEW k \in 0..(N - 1) PROVE m[k + 1] = Mark(f, m[k], fns[f].growth[k + 1])
  <2>1. k + 1 \in 0..N /\ k + 1 # 0 /\ (k + 1) - 1 = k
    BY <1>2
  <2> QED BY <1>7, <2>1
<1> QED BY <1>1, <1>8, <1>9, <1>10 DEF N

\* A scan for growth only adds marks, and where it adds none no node does.
LEMMA GrowthGrows ==
  ASSUME fns \in Modules, NEW c \in SUBSET Growable, NEW f \in DOMAIN fns
  PROVE  /\ c \subseteq ScanGrowth(c, f) /\ ScanGrowth(c, f) \subseteq Growable
         /\ ScanGrowth(c, f) = c =>
              \A k \in DOMAIN fns[f].growth :
                \A p \in GrownBy(c, fns[f].growth[k]) : MarkGrowth(f, p) \subseteq c
<1> DEFINE N == Len(fns[f].growth)
<1>1. N \in Nat /\ DOMAIN fns[f].growth = 1..N
  BY ModuleFacts
<1>2. PICK x : /\ x[0] = c
               /\ \A k \in 0..(N - 1) :
                    x[k + 1] = Mark(f, x[k], fns[f].growth[k + 1]) /\ x[k + 1] \subseteq x[k] \cup Growable
               /\ ScanGrowth(c, f) = x[N]
  BY <1>1, GrowthSteps
<1>3. \A k \in 0..(N - 1) : x[k] \subseteq x[k + 1]
  BY <1>2 DEF Mark
<1>4. \A k \in 0..N : x[0] \subseteq x[k] /\ x[k] \subseteq x[N]
  BY <1>1, <1>3, Chain
<1> DEFINE G == {k \in 0..N : x[k] \subseteq Growable}
<1>5. 0 \in G /\ \A k \in 0..(N - 1) : k \in G => k + 1 \in G
  BY <1>1, <1>2
<1> HIDE DEF G
<1>6. 0..N \subseteq G
  BY <1>1, <1>5, BoundedInduction
<1>7. N \in 0..N
  BY <1>1
<1>8. ASSUME x[N] = c, NEW k \in 1..N PROVE Mark(f, c, fns[f].growth[k]) = c
  <2>1. k - 1 \in 0..(N - 1) /\ (k - 1) + 1 = k /\ k \in 0..N /\ k - 1 \in 0..N
    BY <1>1
  <2>2. x[k] = c /\ x[k - 1] = c
    BY <1>2, <1>4, <1>8, <2>1
  <2> QED BY <1>2, <2>1, <2>2
<1>9. ASSUME x[N] = c, NEW k \in 1..N, NEW p \in GrownBy(c, fns[f].growth[k])
      PROVE  MarkGrowth(f, p) \subseteq c
  BY <1>8, <1>9 DEF Mark
<1> HIDE DEF N
<1> QED BY <1>1, <1>2, <1>4, <1>6, <1>7, <1>9 DEF G

\* A round that found something to change leaves one candidate fewer.
Tick == IF changed THEN 1 ELSE 0

GrowthBehind ==
  /\ growing \subseteq Growable
  /\ round + Tick <= Cardinality(growing)
  /\ ~changed => \A f \in DOMAIN fns : f < scan => ScanGrowth(growing, f) = growing

LentBehind ==
  /\ lent \subseteq Eligible
  /\ round + Tick + Cardinality(lent) <= Cardinality(Eligible)
  /\ ~changed => \A f \in DOMAIN fns : f < scan => ScanBorrows(lent, f) = lent

SettleInv ==
  /\ fns \in Modules
  /\ phase \in {"growth", "borrow", "check", "run", "rejected"}
  /\ round \in Nat /\ scan \in Nat \ {0} /\ changed \in BOOLEAN
  /\ phase = "growth" => GrowthBehind
  /\ phase = "borrow" => LentBehind
  /\ phase # "growth" =>
       growing \subseteq Growable /\ (Cardinality(Growable) < MaxRounds => GrowthStays(growing))
  /\ phase \notin {"growth", "borrow"} =>
       lent \subseteq Eligible /\ (Cardinality(Eligible) < MaxRounds => Stays(lent))

LEMMA SettleStep == SettleInv /\ [Next]_vars => SettleInv'
<1> SUFFICES ASSUME SettleInv, [Next]_vars PROVE SettleInv'
  OBVIOUS
<1>1. fns \in Modules /\ IsFiniteSet(Growable) /\ IsFiniteSet(Eligible)
  BY ParamsFinite DEF SettleInv
<1>2. /\ Len(fns) \in Nat /\ DOMAIN fns = 1..Len(fns)
      /\ \A f \in DOMAIN fns : Len(fns[f].nodes) \in Nat
  BY <1>1, ModuleFacts
<1>3. ASSUME fns' = fns
      PROVE  /\ Eligible' = Eligible /\ Growable' = Growable
             /\ \A c : Stays(c)' = Stays(c) /\ GrowthStays(c)' = GrowthStays(c)
             /\ \A c, f : ScanGrowth(c, f)' = ScanGrowth(c, f) /\ ScanBorrows(c, f)' = ScanBorrows(c, f)
  BY <1>3 DEF Eligible, Growable, AllParams, ParamsOf, Param, HasBody, Stays, ScanBorrows, Leave, Consumed,
              ScanCallBorrows, ScanBorrowArg, ConsumeIfTaken, BorrowRoot, Callable,
              GrowthStays, ScanGrowth, Mark, MarkGrowth, GrownBy, RefArrayParamNamed, CalleeGrowsParam
<1>4. ASSUME inference' = inference PROVE SettleInv'
  <2>1. /\ fns' = fns /\ phase' = phase /\ round' = round /\ scan' = scan /\ changed' = changed
        /\ growing' = growing /\ lent' = lent
    BY <1>4 DEF inference
  <2>2. GrowthBehind' = GrowthBehind /\ LentBehind' = LentBehind
    BY <1>3, <2>1 DEF GrowthBehind, LentBehind, Tick
  <2> QED BY <1>3, <2>1, <2>2 DEF SettleInv
<1>5. CASE MarkNextGrowth
  <2>1. /\ phase = "growth" /\ phase' = phase /\ scan \in DOMAIN fns /\ scan' = scan + 1
        /\ growing' = ScanGrowth(growing, scan) /\ changed' = (changed \/ growing' # growing)
        /\ fns' = fns /\ round' = round /\ lent' = lent
    BY <1>5 DEF MarkNextGrowth, Scan
  <2>2. GrowthBehind /\ round \in Nat /\ changed \in BOOLEAN /\ scan \in Nat \ {0}
    BY <2>1 DEF SettleInv
  <2>3. growing \in SUBSET growing' /\ growing' \in SUBSET Growable
    BY <1>1, <2>1, <2>2, GrowthGrows DEF GrowthBehind
  <2>4. IsFiniteSet(growing')
    BY <1>1, <2>3, FS_Subset
  <2>5. /\ Cardinality(growing) \in Nat /\ Cardinality(growing') \in Nat
        /\ Cardinality(growing) <= Cardinality(growing')
        /\ growing # growing' => Cardinality(growing) + 1 <= Cardinality(growing')
    BY <2>3, <2>4, FewerLeft
  <2>6. round + Tick' <= Cardinality(growing')
    BY <2>1, <2>2, <2>5 DEF GrowthBehind, Tick
  <2>7. ASSUME ~changed', NEW f \in DOMAIN fns, f < scan + 1 PROVE ScanGrowth(growing', f) = growing'
    <3>1. growing' = growing /\ ~changed
      BY <2>1, <2>7
    <3>2. f < scan \/ f = scan
      BY <1>2, <2>2, <2>7
    <3> QED BY <2>1, <2>2, <3>1, <3>2 DEF GrowthBehind
  <2>8. GrowthBehind'
    BY <1>3, <2>1, <2>3, <2>6, <2>7 DEF GrowthBehind
  <2> QED BY <1>3, <2>1, <2>2, <2>8 DEF SettleInv
<1>6. CASE ScanNextBorrows
  <2>1. /\ phase = "borrow" /\ phase' = phase /\ scan \in DOMAIN fns /\ scan' = scan + 1
        /\ lent' = ScanBorrows(lent, scan) /\ changed' = (changed \/ lent' # lent)
        /\ fns' = fns /\ round' = round /\ growing' = growing
    BY <1>6 DEF ScanNextBorrows, Scan
  <2>2. LentBehind /\ round \in Nat /\ changed \in BOOLEAN /\ scan \in Nat \ {0}
    BY <2>1 DEF SettleInv
  <2>3. lent' \in SUBSET lent /\ lent \in SUBSET Eligible
    BY <1>2, <2>1, <2>2, ScanShrinks DEF LentBehind
  <2>4. IsFiniteSet(lent) /\ Cardinality(Eligible) \in Nat
    BY <1>1, <2>3, FS_Subset, FS_CardinalityType
  <2>5. /\ Cardinality(lent) \in Nat /\ Cardinality(lent') \in Nat
        /\ Cardinality(lent') <= Cardinality(lent)
        /\ lent' # lent => Cardinality(lent') + 1 <= Cardinality(lent)
    BY <2>3, <2>4, FewerLeft
  <2>6. round + Tick' + Cardinality(lent') <= Cardinality(Eligible)
    BY <2>1, <2>2, <2>4, <2>5 DEF LentBehind, Tick
  <2>7. ASSUME ~changed', NEW f \in DOMAIN fns, f < scan + 1 PROVE ScanBorrows(lent', f) = lent'
    <3>1. lent' = lent /\ ~changed
      BY <2>1, <2>7
    <3>2. f < scan \/ f = scan
      BY <1>2, <2>2, <2>7
    <3> QED BY <2>1, <2>2, <3>1, <3>2 DEF LentBehind
  <2>8. LentBehind'
    BY <1>3, <2>1, <2>3, <2>6, <2>7 DEF LentBehind
  <2> QED BY <1>3, <2>1, <2>2, <2>8 DEF SettleInv
<1>7. EndRound => changed' \in BOOLEAN
  BY Zenon DEF EndRound
<1>8. CASE EndRound
  <2>1. /\ phase \in {"growth", "borrow"} /\ scan \notin DOMAIN fns
        /\ fns' = fns /\ growing' = growing /\ scan' = 1 /\ changed' = FALSE
        /\ round \in Nat /\ scan \in Nat \ {0} /\ changed \in BOOLEAN
    BY <1>8 DEF EndRound, SettleInv
  <2>2. \A f \in DOMAIN fns : f < scan /\ ~ (f < scan')
    BY <1>2, <2>1
  <2>3. Tick' = 0 /\ MaxRounds \in Nat
    BY <2>1, BoundsAssumption DEF Tick
  <2>4. CASE AnotherRound
    <3>1. /\ changed /\ round' = round + 1 /\ phase' = phase /\ lent' = lent
      BY <1>8, <2>1, <2>4 DEF EndRound, AnotherRound
    <3>2. phase = "growth" => GrowthBehind'
      BY <1>3, <2>1, <2>2, <2>3, <3>1 DEF SettleInv, GrowthBehind, Tick
    <3>3. phase = "borrow" => LentBehind'
      BY <1>3, <2>1, <2>2, <2>3, <3>1 DEF SettleInv, LentBehind, Tick
    <3>4. /\ fns' \in Modules /\ phase' \in {"growth", "borrow"}
          /\ round' \in Nat /\ scan' \in Nat \ {0}
      BY <1>1, <2>1, <3>1
    <3>5. phase # "growth" => /\ growing' \subseteq Growable'
                              /\ Cardinality(Growable') < MaxRounds => GrowthStays(growing)'
      BY <1>3, <2>1 DEF SettleInv
    <3> QED BY <1>7, <1>8, <3>1, <3>2, <3>3, <3>4, <3>5 DEF SettleInv
  <2>5. CASE ~AnotherRound /\ phase = "growth"
    <3>1. round' = 0 /\ phase' = "borrow" /\ lent' = Eligible
      BY <1>8, <2>5 DEF EndRound
    <3>2. GrowthBehind
      BY <2>5 DEF SettleInv
    <3>3. Cardinality(Growable) < MaxRounds => GrowthStays(growing)
      <4> SUFFICES ASSUME Cardinality(Growable) < MaxRounds PROVE GrowthStays(growing)
        OBVIOUS
      <4>1. /\ Cardinality(growing) \in Nat /\ Cardinality(Growable) \in Nat
            /\ Cardinality(growing) <= Cardinality(Growable)
        BY <1>1, <3>2, FewerLeft DEF GrowthBehind
      <4>2. ~changed
        BY <2>1, <2>3, <2>5, <3>2, <4>1 DEF AnotherRound, GrowthBehind, Tick
      <4> QED BY <2>2, <3>2, <4>2 DEF GrowthStays, GrowthBehind
    <3>4. Cardinality(Eligible) \in Nat
      BY <1>1, FS_CardinalityType
    <3>5. LentBehind'
      BY <1>3, <2>1, <2>2, <2>3, <3>1, <3>4 DEF LentBehind
    <3>6. /\ fns' \in Modules /\ round' \in Nat /\ scan' \in Nat \ {0}
      BY <1>1, <2>1, <3>1
    <3>7. growing' \subseteq Growable' /\ (Cardinality(Growable') < MaxRounds => GrowthStays(growing)')
      BY <1>3, <2>1, <3>2, <3>3 DEF GrowthBehind
    <3> QED BY <1>7, <1>8, <3>1, <3>5, <3>6, <3>7 DEF SettleInv
  <2>6. CASE ~AnotherRound /\ phase = "borrow"
    <3>1. round' = 0 /\ phase' = "check" /\ lent' = lent
      BY <1>8, <2>6 DEF EndRound
    <3>2. LentBehind
      BY <2>6 DEF SettleInv
    <3>3. Cardinality(Eligible) < MaxRounds => Stays(lent)
      <4> SUFFICES ASSUME Cardinality(Eligible) < MaxRounds PROVE Stays(lent)
        OBVIOUS
      <4>1. Cardinality(lent) \in Nat /\ Cardinality(Eligible) \in Nat
        BY <1>1, <3>2, FewerLeft DEF LentBehind
      <4>2. ~changed
        BY <2>1, <2>3, <2>6, <3>2, <4>1 DEF AnotherRound, LentBehind, Tick
      <4> QED BY <2>2, <3>2, <4>2 DEF Stays, LentBehind
    <3>4. /\ fns' \in Modules /\ round' \in Nat /\ scan' \in Nat \ {0}
      BY <1>1, <2>1, <3>1
    <3>5. growing' \subseteq Growable' /\ (Cardinality(Growable') < MaxRounds => GrowthStays(growing)')
      BY <1>3, <2>1, <2>6 DEF SettleInv
    <3>6. lent' \subseteq Eligible' /\ (Cardinality(Eligible') < MaxRounds => Stays(lent)')
      BY <1>3, <2>1, <3>1, <3>2, <3>3 DEF LentBehind
    <3> QED BY <1>7, <1>8, <3>1, <3>4, <3>5, <3>6 DEF SettleInv
  <2> QED BY <2>1, <2>4, <2>5, <2>6
<1>9. CASE CheckBodies
  <2>1. /\ phase = "check" /\ phase' \in {"run", "rejected"} /\ fns' = fns /\ lent' = lent /\ growing' = growing
        /\ round' = round /\ scan' = scan /\ changed' = changed
    BY <1>9 DEF CheckBodies
  <2> QED BY <1>3, <2>1 DEF SettleInv
<1> QED BY <1>4, <1>5, <1>6, <1>8, <1>9
        DEF Next, Ended, EnterExport, EnterCall, BindRef, LeaveCall, vars, inference

LEMMA SettleStart == Init => SettleInv
<1> SUFFICES ASSUME Init PROVE SettleInv
  OBVIOUS
<1>1. /\ fns \in Modules /\ phase = "growth" /\ round = 0 /\ scan = 1 /\ ~changed /\ changed \in BOOLEAN
      /\ growing = {}
  BY DEF Init
<1>2. \A f \in DOMAIN fns : ~ (f < scan)
  BY <1>1, ModuleFacts
<1>3. GrowthBehind
  BY <1>1, <1>2, FS_EmptySet DEF GrowthBehind, Tick
<1> QED BY <1>1, <1>3 DEF SettleInv

LEMMA SettleHolds == Spec => []SettleInv
BY SettleStart, SettleStep, PTL DEF Spec

\* Every round but the last takes a candidate away or marks a parameter: with fewer
\* of either than rounds, both inferences end where another round finds nothing new
\* (the caps of InferBorrowedParams and MarkGrowableArrayParams).
THEOREM InferenceSettles ==
  Spec => [](phase \notin {"growth", "borrow"} =>
               /\ Cardinality(Growable) < MaxRounds => GrowthStays(growing)
               /\ Cardinality(Eligible) < MaxRounds => Stays(lent))
<1>1. SettleInv => (phase \notin {"growth", "borrow"} =>
                      /\ Cardinality(Growable) < MaxRounds => GrowthStays(growing)
                      /\ Cardinality(Eligible) < MaxRounds => Stays(lent))
  BY DEF SettleInv
<1> QED BY <1>1, SettleHolds, PTL

-----------------------------------------------------------------------------
\* What the resolver refuses because of a borrow.

\* No function has the name of a builtin, which the scan takes a call for, and no
\* plain value is given to a mutable `ref` rest after the first, where the scan
\* looks at owning values only: the two cases where the scan says less of a call
\* than the resolver (ScanCallBorrows, ScanBorrowArg).
PlainNames ==
  \A f \in DOMAIN fns : fns[f].name # "" /\ (fns[f].method \/ fns[f].name \notin Builtins)
RestsOwn ==
  \A f \in DOMAIN fns : \A n \in {m \in Body(f) : m.kind = "Invoke"} : \A g \in Resolved(n) :
    \A j \in DOMAIN Operands(n) \ ParamsOf(g) :
      /\ Operands(n)[j].kind = "Path"
      /\ \E q \in ParamFor(g, j) : Param(q).mod = "ref" /\ ~Param(q).const
      => Operands(n)[j].ty.owns

\* An argument of a call of a function is scanned as one (ScanBorrowArg).
LEMMA ArgScanned ==
  ASSUME PlainNames, NEW l, NEW f, NEW n, n.kind = "Invoke", NEW g \in Callable(n), NEW j \in DOMAIN Operands(n)
  PROVE  ScanBorrowArg(l, f, n, Operands(n)[j], j) \subseteq Consumed(l, f, n)
<1>1. g \in DOMAIN fns /\ fns[g].name = n.callee /\ fns[g].method = IsMethod(n)
  BY DEF Callable
<1> DEFINE name == IF IsMethod(n) THEN "a method" ELSE n.callee
<1>2. n.callee # "" /\ name \notin Builtins
  <2>1. CASE IsMethod(n)
    BY <1>1, <2>1 DEF PlainNames, Builtins, Mutators, Resizing, Growing, OnlyRead
  <2>2. CASE ~IsMethod(n)
    BY <1>1, <2>2 DEF PlainNames
  <2> QED BY <2>1, <2>2
<1>3. /\ name # "array_push" /\ name # "array_replace" /\ name # "ptr_place" /\ name \notin OnlyRead
      /\ name \notin (Mutators \ {"array_push", "array_replace"}) \cup {"drop", "addressof"}
  BY <1>2 DEF Builtins, Mutators, Resizing, Growing
<1>4. ScanCallBorrows(l, f, n) = UNION {ScanBorrowArg(l, f, n, Operands(n)[k], k) : k \in DOMAIN Operands(n)}
  BY <1>2, <1>3 DEF ScanCallBorrows
<1> QED BY <1>4 DEF Consumed

\* A call of a builtin is scanned as one.
LEMMA BuiltinScanned ==
  ASSUME NEW l, NEW f, NEW n, NEW k \in DOMAIN n.args, Calls(n, Builtins)
  PROVE  /\ Calls(n, Mutators \cup {"drop"}) /\ k = 1 => BorrowRoot(l, f, n.args[k]) \subseteq Consumed(l, f, n)
         /\ Calls(n, {"array_push"}) /\ k = 2 => ConsumeIfTaken(l, f, n.args[k]) \subseteq Consumed(l, f, n)
         /\ Calls(n, {"ptr_place"}) /\ k = 2 => BorrowRoot(l, f, n.args[k]) \subseteq Consumed(l, f, n)
         /\ Calls(n, {"array_replace"}) /\ k = 3 => BorrowRoot(l, f, n.args[k]) \subseteq Consumed(l, f, n)
<1>1. n.kind = "Invoke" /\ ~IsMethod(n) /\ n.callee \in Builtins /\ n.callee # ""
  BY DEF Calls, Builtins, Mutators, Resizing, Growing, OnlyRead
<1>2. Consumed(l, f, n) = ScanCallBorrows(l, f, n)
  BY <1>1 DEF Consumed
<1>3. ASSUME n.callee = "array_push"
      PROVE  /\ k = 1 => BorrowRoot(l, f, n.args[k]) \subseteq ScanCallBorrows(l, f, n)
             /\ k = 2 => ConsumeIfTaken(l, f, n.args[k]) \subseteq ScanCallBorrows(l, f, n)
  BY <1>1, <1>3 DEF ScanCallBorrows, Mutators, Resizing, Growing, OnlyRead
<1>4. ASSUME n.callee = "array_replace", k \in {1, 3}
      PROVE  BorrowRoot(l, f, n.args[k]) \subseteq ScanCallBorrows(l, f, n)
  BY <1>1, <1>4 DEF ScanCallBorrows, Mutators, Resizing, Growing, OnlyRead
<1>5. ASSUME n.callee \in (Mutators \ {"array_push", "array_replace"}) \cup {"drop"}, k = 1
      PROVE  BorrowRoot(l, f, n.args[k]) \subseteq ScanCallBorrows(l, f, n)
  BY <1>1, <1>5 DEF ScanCallBorrows, Mutators, Resizing, Growing, OnlyRead
<1>6. ASSUME n.callee = "ptr_place", k = 2
      PROVE  BorrowRoot(l, f, n.args[k]) \subseteq ScanCallBorrows(l, f, n)
  BY <1>1, <1>6 DEF ScanCallBorrows, Mutators, Resizing, Growing, OnlyRead
<1> QED BY <1>1, <1>2, <1>3, <1>4, <1>5, <1>6 DEF Calls

\* The resolver's parameter for an argument is what the scan asks of the argument.
LEMMA OperandConsumed ==
  ASSUME fns \in Modules, PlainNames, RestsOwn, NEW l, NEW f \in DOMAIN fns, NEW n \in Body(f), n.kind = "Invoke",
         NEW j \in DOMAIN Operands(n), NEW g \in Resolved(n), NEW q \in ParamFor(g, j),
         Operands(n)[j].kind = "Path",
         \/ Param(q).mod = "ref" /\ ~Param(q).const
         \/ Param(q).mod = "none" /\ ~fns[g].extern /\ q \notin l /\ Operands(n)[j].ty.owns
  PROVE  BorrowRoot(l, f, Operands(n)[j]) \subseteq Consumed(l, f, n)
<1> DEFINE arg == Operands(n)[j]
<1>1. g \in Callable(n)
  BY DEF Resolved
<1>2. ScanBorrowArg(l, f, n, arg, j) \subseteq Consumed(l, f, n)
  BY <1>1, ArgScanned
<1> HIDE DEF arg
<1>3. CASE j \in ParamsOf(g)
  <2>1. q = <<g, j>>
    BY <1>3 DEF ParamFor
  <2>2. CASE Param(q).mod = "ref" /\ ~Param(q).const
    <3>1. BorrowRoot(l, f, arg) \subseteq ScanBorrowArg(l, f, n, arg, j)
      BY <1>1, <1>3, <2>1, <2>2 DEF ScanBorrowArg
    <3> QED BY <1>2, <3>1 DEF arg
  <2>3. CASE Param(q).mod = "none" /\ ~fns[g].extern /\ q \notin l /\ Operands(n)[j].ty.owns
    <3>1. ConsumeIfTaken(l, f, arg) = BorrowRoot(l, f, arg)
      BY <2>3 DEF ConsumeIfTaken, arg
    <3>2. ConsumeIfTaken(l, f, arg) \subseteq ScanBorrowArg(l, f, n, arg, j)
      BY <1>1, <1>3, <2>1, <2>3 DEF ScanBorrowArg
    <3> QED BY <1>2, <3>1, <3>2 DEF arg
  <2> QED BY <2>2, <2>3
<1>4. CASE j \notin ParamsOf(g)
  <2>1. ~fns[g].cvararg
    BY <1>4 DEF ParamFor
  <2>2. arg.ty.owns
    BY <1>4 DEF RestsOwn, arg
  <2>3. ConsumeIfTaken(l, f, arg) = BorrowRoot(l, f, arg)
    BY <2>2 DEF ConsumeIfTaken, arg
  <2>4. ConsumeIfTaken(l, f, arg) \subseteq ScanBorrowArg(l, f, n, arg, j)
    BY <1>1, <1>4, <2>1 DEF ScanBorrowArg
  <2> QED BY <1>2, <2>3, <2>4 DEF arg
<1> QED BY <1>3, <1>4

\* A candidate whose path is written, lent mutably or taken does not stay one.
LEMMA UsesConsumed ==
  ASSUME fns \in Modules, PlainNames, RestsOwn, NEW l, NEW f \in DOMAIN fns, NEW n \in Body(f), NEW p,
         p.kind = "Path", p \in Written(n) \cup LentMutably(n) \/ (p \in Taken(l, n) /\ p.ty.owns)
  PROVE  BorrowRoot(l, f, p) \subseteq Consumed(l, f, n)
<1>1. CASE p \in Written(n)
  <2>1. CASE n.kind \in {"Assign", "IncDec"}
    BY <1>1, <2>1 DEF Written, Consumed, Calls
  <2>2. CASE n.kind \notin {"Assign", "IncDec"}
    <3>1. Calls(n, Mutators \cup {"drop"}) /\ p \in ArgOf(n, 1)
      BY <1>1, <2>2 DEF Written
    <3>2. Calls(n, Builtins) /\ 1 \in DOMAIN n.args /\ p = n.args[1]
      BY <3>1 DEF ArgOf, Calls, Builtins
    <3> QED BY <3>1, <3>2, BuiltinScanned
  <2> QED BY <2>1, <2>2
<1>2. CASE p \in LentMutably(n)
  <2>1. CASE n.kind = "VarDecl"
    BY <1>2, <2>1 DEF LentMutably, Consumed
  <2>2. CASE n.kind = "Invoke"
    <3>1. PICK j \in DOMAIN Operands(n), g \in Resolved(n) :
            p = Operands(n)[j] /\ \E q \in ParamFor(g, j) : Param(q).mod = "ref" /\ ~Param(q).const
      BY <1>2, <2>2 DEF LentMutably
    <3> QED BY <2>2, <3>1, OperandConsumed
  <2> QED BY <1>2, <2>1, <2>2 DEF LentMutably
<1>3. CASE p \in Taken(l, n) /\ p.ty.owns
  <2>1. ConsumeIfTaken(l, f, p) = BorrowRoot(l, f, p)
    BY <1>3 DEF ConsumeIfTaken
  <2>2. CASE n.kind \in {"Return", "VarDecl", "Assign", "Init"}
    BY <1>3, <2>1, <2>2 DEF Taken, Consumed
  <2>3. CASE n.kind = "Invoke"
    <3>1. CASE Calls(n, {"array_push", "ptr_place"})
      <4>1. Calls(n, Builtins) /\ 2 \in DOMAIN n.args /\ p = n.args[2]
        BY <1>3, <2>3, <3>1 DEF Taken, ArgOf, Calls, Builtins, Mutators, Resizing, Growing
      <4>2. Calls(n, {"array_push"}) \/ Calls(n, {"ptr_place"})
        BY <3>1 DEF Calls
      <4> QED BY <2>1, <4>1, <4>2, BuiltinScanned
    <3>2. CASE Calls(n, {"array_replace"})
      <4>1. p \in ArgOf(n, 3)
        BY <1>3, <2>3, <3>2 DEF Taken, Calls
      <4>2. Calls(n, Builtins) /\ 3 \in DOMAIN n.args /\ p = n.args[3]
        BY <3>2, <4>1 DEF ArgOf, Calls, Builtins, Mutators
      <4> QED BY <3>2, <4>2, BuiltinScanned
    <3>3. CASE ~Calls(n, {"array_push", "ptr_place"}) /\ ~Calls(n, {"array_replace"})
      <4>1. PICK j \in DOMAIN Operands(n), g \in Resolved(n) :
              /\ p = Operands(n)[j] /\ ~fns[g].extern
              /\ \E q \in ParamFor(g, j) : Param(q).mod = "none" /\ q \notin l
        BY <1>3, <2>3, <3>3 DEF Taken
      <4> QED BY <1>3, <2>3, <4>1, OperandConsumed
    <3> QED BY <3>1, <3>2, <3>3
  <2> QED BY <1>3, <2>2, <2>3 DEF Taken
<1> QED BY <1>1, <1>2, <1>3

\* So no inferred borrow is written, lent mutably or taken in its body.
LEMMA BorrowsUnused ==
  ASSUME fns \in Modules, PlainNames, RestsOwn, NEW l, Stays(l), NEW f \in DOMAIN fns, NEW n \in Body(f), NEW p,
         p.kind = "Path", p \in Written(n) \cup LentMutably(n) \/ (p \in Taken(l, n) /\ p.ty.owns)
  PROVE  \A q \in l : q[1] = f => Param(q).name # p.root
<1>1. PICK k \in DOMAIN fns[f].nodes : n = fns[f].nodes[k]
  BY DEF Body
<1>2. Len(fns[f].nodes) \in Nat /\ k \in 1..Len(fns[f].nodes) /\ ScanBorrows(l, f) = l
  BY ModuleFacts DEF Stays
<1>3. Consumed(l, f, n) \cap l = {}
  BY <1>1, <1>2, ScanShrinks
<1>4. BorrowRoot(l, f, p) \subseteq Consumed(l, f, n)
  BY UsesConsumed
<1> QED BY <1>3, <1>4 DEF BorrowRoot

\* The scans never differ: what the theorems below ask of a module.
ScansAgree == PlainNames /\ RestsOwn /\ Cardinality(Eligible) < MaxRounds

\* Borrowing what is only read refuses no module that is accepted when every such
\* parameter takes its argument, wherever the scan understands the calls
\* (InferBorrowedParams).  Each of the three conditions is needed: a function called
\* `load`, a plain value for a `ref` rest, or a chain of calls longer than the cap
\* has a legal body refused.
THEOREM NoFalseErrorHolds == Spec => [](ScansAgree => NoFalseError)
<1>1. ASSUME SettleInv, ScansAgree, phase = "check", Errors({}) = {}, NEW p \in Errors(lent) PROVE FALSE
  <2>1. fns \in Modules /\ Stays(lent) /\ PlainNames /\ RestsOwn
    BY <1>1 DEF SettleInv, ScansAgree
  <2>2. PICK f \in DOMAIN fns : \E n \in Body(f) :
          p \in MoveErrors(lent, f, n) \cup ConstErrors(lent, f, n) \cup GrowthErrors(growing, f, n)
    BY <1>1 DEF Errors
  <2> PICK n \in Body(f) : p \in MoveErrors(lent, f, n) \cup ConstErrors(lent, f, n) \cup GrowthErrors(growing, f, n)
    BY <2>2
  <2>3. p \notin MoveErrors({}, f, n) \cup ConstErrors({}, f, n) \cup GrowthErrors(growing, f, n)
    BY <1>1 DEF Errors
  <2>4. \A x : x \in ConstNames(lent, f) => x \in ConstNames({}, f) \/ \E q \in lent : q[1] = f /\ Param(q).name = x
    BY DEF ConstNames
  <2>5. CASE p \in ConstErrors(lent, f, n)
    <3>1. p \in Written(n) \cup LentMutably(n) /\ p.kind = "Path" /\ p.root \in ConstNames(lent, f)
      BY <2>5 DEF ConstErrors
    <3>2. p.root \notin ConstNames({}, f)
      BY <2>3, <3>1 DEF ConstErrors
    <3> QED BY <2>1, <2>4, <3>1, <3>2, BorrowsUnused
  <2>6. CASE p \in MoveErrors(lent, f, n)
    <3>1. /\ p \in Taken(lent, n) /\ p.kind = "Path" /\ p.ty.owns
          /\ ~(MoveUnchecked(n) /\ p.ty.form \in {"struct", "noisy"})
          /\ p.root \in ConstNames(lent, f) \/ (p.root \in RefNames(f) /\ p.ty.form \notin {"struct", "noisy"})
      BY <2>6 DEF MoveErrors
    <3>2. p \in Taken({}, n)
      BY <3>1 DEF Taken
    <3>3. p.root \in ConstNames(lent, f) /\ p.root \notin ConstNames({}, f)
      BY <2>3, <3>1, <3>2 DEF MoveErrors
    <3> QED BY <2>1, <2>4, <3>1, <3>3, BorrowsUnused
  <2> QED BY <2>2, <2>3, <2>5, <2>6
<1>2. SettleInv => (ScansAgree => NoFalseError)
  BY <1>1 DEF NoFalseError
<1> QED BY <1>2, SettleHolds, PTL

-----------------------------------------------------------------------------
\* What runs.

\* Every owning struct a node moves out unchecked is reached by a name that is not
\* `const ref` in the source, and no side of a `?:` is an owning path: elsewhere
\* the resolver lets a move through (WalkVarDeclInitTyped, CheckTernaryBranches).
MovesSeen ==
  \A f \in DOMAIN fns : \A n \in Body(f) : \A v \in Taken(lent, n) :
    /\ MoveUnchecked(n) /\ v.kind = "Path" /\ v.ty.form \in {"struct", "noisy"} => v.root \notin ConstNames({}, f)
    /\ v.kind = "Conditional" => \A p \in Sources(v) : ~(p.kind = "Path" /\ p.ty.owns)

\* What the names of a body are stored as: nothing a frame was lent for reading has
\* another kind of name.
FrameKept(fr) ==
  /\ fr = [fn |-> fr.fn, at |-> fr.at] /\ fr.fn \in DOMAIN fns
  /\ \A x \in DOMAIN fr.at : fr.at[x].kept => x \in ConstNames(lent, fr.fn)

LEMMA NoErrors ==
  ASSUME Errors(lent) = {}, NEW f \in DOMAIN fns, NEW n \in Body(f)
  PROVE  /\ MoveErrors(lent, f, n) = {} /\ GrowthErrors(growing, f, n) = {}
         /\ \A p \in Written(n) \cup LentMutably(n) : p.kind = "Path" => p.root \notin ConstNames(lent, f)
<1>1. MoveErrors(lent, f, n) \cup ConstErrors(lent, f, n) \cup GrowthErrors(growing, f, n) \subseteq Errors(lent)
  BY DEF Errors
<1>2. ConstErrors(lent, f, n) = {}
  BY <1>1
<1> QED BY <1>1, <1>2 DEF ConstErrors

\* The argument a parameter is given, unless it is a rest.
LEMMA ArgumentOf ==
  ASSUME fns \in Modules, NEW f \in DOMAIN fns, NEW n \in Body(f), n.kind = "Invoke", NEW g \in Resolved(n),
         NEW j \in ParamsOf(g), ~Param(<<g, j>>).rest
  PROVE  /\ g \in DOMAIN fns /\ g \in Callable(n)
         /\ j \in DOMAIN Operands(n) /\ ParamFor(g, j) = {<<g, j>>}
         /\ Fits(Operands(n)[j], Param(<<g, j>>), FALSE)
<1> DEFINE params == fns[g].params
           rest   == params # <<>> /\ params[Len(params)].rest
<1>1. g \in Callable(n) /\ g \in DOMAIN fns
  BY DEF Resolved, Callable
<1>2. /\ Len(params) \in Nat /\ ParamsOf(g) = 1..Len(params) /\ ParamsOf(g) = DOMAIN params
      /\ IsFunction(fns[g]) /\ Param(<<g, j>>) = params[j]
  BY <1>1, ModuleFacts DEF ParamsOf, Param
<1>3. Len(Operands(n)) \in Nat /\ DOMAIN Operands(n) = 1..Len(Operands(n))
  <2>1. IsSeq(n.args)
    BY ModuleFacts DEF Body, IsFunction
  <2>2. n.args \in Seq({n.args[k] : k \in DOMAIN n.args})
    BY <2>1 DEF IsSeq
  <2> DEFINE S == {n.args[k] : k \in DOMAIN n.args} \cup {n.base}
  <2>3. n.args \in Seq(S)
    BY <2>2
  <2>4. n.base \in S
    OBVIOUS
  <2> HIDE DEF S
  <2>5. <<n.base>> \in Seq(S) /\ <<>> \in Seq(S)
    BY <2>4
  <2>6. Operands(n) \in Seq(S)
    BY <2>3, <2>5 DEF Operands
  <2> QED BY <2>6
<1>4. /\ IF rest THEN Len(Operands(n)) >= Len(params) - 1
         ELSE Len(Operands(n)) = Len(params) \/ (fns[g].cvararg /\ Len(Operands(n)) > Len(params))
      /\ \A k \in DOMAIN Operands(n) \cap ParamsOf(g) : Fits(Operands(n)[k], params[k], params[k].rest)
  BY DEF Resolved
<1>5. rest => j # Len(params)
  BY <1>2
<1>6. j \in DOMAIN Operands(n)
  BY <1>2, <1>3, <1>4, <1>5
<1>7. Fits(Operands(n)[j], params[j], params[j].rest)
  BY <1>4, <1>6
<1>8. Fits(Operands(n)[j], params[j], FALSE)
  BY <1>2, <1>7 DEF Fits
<1> QED BY <1>1, <1>2, <1>6, <1>8 DEF ParamFor

\* What a name of an entered body is stored as: what its parameter is given, or a
\* local's own.
LEMMA Entered ==
  ASSUME fns \in Modules, NEW g \in DOMAIN fns, NEW given, NEW x \in DOMAIN NamesOf(g, given)
  PROVE  \/ \E j \in ParamsOf(g) : Param(<<g, j>>).name = x /\ NamesOf(g, given)[x] = given[j]
         \/ /\ ~NamesOf(g, given)[x].kept
            /\ NamesOf(g, given)[x].view =>
                 \E n \in Body(g) : n.kind = "VarDecl" /\ ~n.isRef /\ n.name = x /\ n.ty.form = "fixed"
<1> DEFINE locals  == {n \in Body(g) : n.kind = "VarDecl" /\ ~n.isRef}
           InParams == \E j \in ParamsOf(g) : fns[g].params[j].name = x
           at(y)   == IF \E j \in ParamsOf(g) : fns[g].params[j].name = y
                      THEN given[CHOOSE j \in ParamsOf(g) : fns[g].params[j].name = y]
                      ELSE [Own EXCEPT !.view = \E n \in locals : n.name = y /\ n.ty.form = "fixed"]
           Names   == {fns[g].params[j].name : j \in ParamsOf(g)} \cup {n.name : n \in locals}
<1>1. NamesOf(g, given) = [y \in Names |-> at(y)]
  BY DEF NamesOf
<1>2. x \in Names /\ NamesOf(g, given)[x] = at(x)
  BY <1>1
<1>3. CASE InParams
  <2>1. PICK j \in ParamsOf(g) : j = CHOOSE k \in ParamsOf(g) : fns[g].params[k].name = x
    BY <1>3
  <2>2. fns[g].params[j].name = x
    BY <1>3, <2>1
  <2>3. at(x) = given[j]
    BY <1>3, <2>1
  <2> QED BY <1>2, <2>2, <2>3 DEF Param
<1>4. CASE ~InParams
  <2> DEFINE isView == \E n \in locals : n.name = x /\ n.ty.form = "fixed"
  <2>1. at(x) = [Own EXCEPT !.view = isView]
    BY <1>4
  <2>2. isView => \E n \in Body(g) : n.kind = "VarDecl" /\ ~n.isRef /\ n.name = x /\ n.ty.form = "fixed"
    OBVIOUS
  <2> HIDE DEF isView, at
  <2>3. NamesOf(g, given)[x].view = isView /\ NamesOf(g, given)[x].kept = FALSE
    BY <1>2, <2>1 DEF Own
  <2> QED BY <2>2, <2>3, Zenon
<1> QED BY <1>3, <1>4

\* Storage given to a parameter that takes no value is its argument's.
LEMMA StoredFacts ==
  ASSUME NEW p
  PROVE  /\ Stored(p).kept = Top.at[p.root].kept
         /\ Stored(p).view = (p.ty.form = "fixed" \/ (p.end = "whole" /\ Top.at[p.root].view))
BY DEF Stored

LEMMA PassedFacts ==
  ASSUME NEW q, NEW arg
  PROVE  /\ Passed(q, arg).kept =>
              \/ q \in lent \/ (Param(q).mod # "none" /\ Param(q).const)
              \/ Param(q).mod # "none" /\ arg.kind = "Path" /\ Stored(arg).kept
         /\ Passed(q, arg).view =>
              \/ Param(q).mod = "none" /\ q \notin lent /\ Param(q).rest
              \/ /\ Param(q).mod # "none" \/ q \in lent
                 /\ \/ arg.kind = "Path" /\ Stored(arg).view
                    \/ arg.kind = "Init" /\ arg.ty.form = "array"
<1>1. CASE Param(q).mod = "none" /\ q \notin lent
  <2>1. Passed(q, arg) = [view |-> Param(q).rest, kept |-> FALSE]
    BY <1>1 DEF Passed, Own
  <2> QED BY <1>1, <2>1
<1>2. CASE ~(Param(q).mod = "none" /\ q \notin lent) /\ arg.kind = "Path"
  <2> DEFINE kept == Stored(arg).kept \/ Param(q).const \/ q \in lent
  <2>1. Passed(q, arg) = [Stored(arg) EXCEPT !.kept = kept]
    BY <1>2 DEF Passed
  <2>2. kept => q \in lent \/ (Param(q).mod # "none" /\ Param(q).const) \/ (Param(q).mod # "none" /\ Stored(arg).kept)
    BY <1>2
  <2> HIDE DEF kept
  <2>3. Passed(q, arg).kept = kept /\ Passed(q, arg).view = Stored(arg).view
    BY <2>1 DEF Stored
  <2>4. Passed(q, arg).kept => kept
    BY <2>3, Zenon
  <2>5. Passed(q, arg).view => Stored(arg).view
    BY <2>3, Zenon
  <2> QED BY <1>2, <2>2, <2>4, <2>5
<1>3. CASE ~(Param(q).mod = "none" /\ q \notin lent) /\ arg.kind # "Path"
  <2> DEFINE kept == FALSE \/ Param(q).const \/ q \in lent
             view == arg.kind = "Init" /\ arg.ty.form = "array"
  <2>1. Passed(q, arg) = [[Own EXCEPT !.view = view] EXCEPT !.kept = kept]
    BY <1>3 DEF Passed, Own
  <2>2. kept => q \in lent \/ (Param(q).mod # "none" /\ Param(q).const)
    BY <1>3
  <2>3. view => arg.kind = "Init" /\ arg.ty.form = "array"
    OBVIOUS
  <2> HIDE DEF kept, view
  <2>4. Passed(q, arg).kept = kept /\ Passed(q, arg).view = view
    BY <2>1 DEF Own
  <2>5. Passed(q, arg).kept => kept
    BY <2>4, Zenon
  <2>6. Passed(q, arg).view => view
    BY <2>4, Zenon
  <2> QED BY <1>3, <2>2, <2>3, <2>5, <2>6
<1> QED BY <1>1, <1>2, <1>3

\* Nothing but a `const ref` or an inferred borrow of a called body is lent for reading.
LEMMA EnteredKept ==
  ASSUME fns \in Modules, Errors(lent) = {}, FrameKept(Top), NEW n \in Body(Top.fn), n.kind = "Invoke",
         NEW g \in Resolved(n), \A j \in DOMAIN Operands(n) : Operands(n)[j].kind = "Path" => Bound(Operands(n)[j])
  PROVE  FrameKept([fn |-> g, at |-> NamesOf(g, Given(g, n))])
<1> DEFINE f  == Top.fn
           at == NamesOf(g, Given(g, n))
<1>1. g \in DOMAIN fns /\ f \in DOMAIN fns
  BY DEF Resolved, Callable, FrameKept
<1>2. ASSUME NEW x \in DOMAIN at, at[x].kept, x \notin ConstNames(lent, g) PROVE FALSE
  <2>1. PICK j \in ParamsOf(g) : Param(<<g, j>>).name = x /\ at[x] = Given(g, n)[j]
    BY <1>1, <1>2, Entered
  <2> DEFINE q   == <<g, j>>
             arg == Operands(n)[j]
  <2>2. q \in {g} \X ParamsOf(g) /\ q \notin lent /\ ~Param(q).const
    BY <1>2, <2>1 DEF ConstNames
  <2>3. Given(g, n)[j] = IF Param(q).rest THEN [Own EXCEPT !.view = TRUE] ELSE Passed(q, arg)
    BY <2>1 DEF Given
  <2>4. ~Param(q).rest /\ Passed(q, arg).kept
    BY <1>2, <2>1, <2>3 DEF Own
  <2>5. Param(q).mod # "none" /\ arg.kind = "Path" /\ Stored(arg).kept
    BY <2>2, <2>4, PassedFacts
  <2>6. j \in DOMAIN Operands(n) /\ ParamFor(g, j) = {q} /\ IsFunction(fns[g])
    BY <1>1, <2>1, <2>4, ArgumentOf, ModuleFacts
  <2>7. Param(q).mod = "ref"
    BY <2>1, <2>5, <2>6 DEF IsFunction, Param, ParamsOf
  <2>8. arg \in LentMutably(n)
    BY <2>2, <2>6, <2>7 DEF LentMutably
  <2>9. arg.root \notin ConstNames(lent, f)
    BY <1>1, <2>5, <2>8, NoErrors
  <2>10. arg.root \in DOMAIN Top.at /\ Top.at[arg.root].kept
    BY <2>5, <2>6, StoredFacts DEF Bound
  <2> QED BY <2>9, <2>10 DEF FrameKept
<1> HIDE DEF at
<1> QED BY <1>1, <1>2 DEF FrameKept, at

\* Nor of a `ref` local.
LEMMA BoundKept ==
  ASSUME fns \in Modules, Errors(lent) = {}, FrameKept(Top), NEW n \in Body(Top.fn), n.kind = "VarDecl", n.isRef,
         n.init.kind = "Path", Bound(n.init), n.const \/ Stored(n.init).kept
  PROVE  n.name \in ConstNames(lent, Top.fn)
<1>1. Top.fn \in DOMAIN fns
  BY DEF FrameKept
<1>2. CASE n.const
  BY <1>2 DEF ConstNames
<1>3. CASE ~n.const /\ Stored(n.init).kept
  <2>1. n.init \in LentMutably(n)
    BY <1>3 DEF LentMutably
  <2>2. n.init.root \notin ConstNames(lent, Top.fn)
    BY <1>1, <2>1, NoErrors
  <2> QED BY <1>3, <2>2, StoredFacts DEF Bound, FrameKept
<1> QED BY <1>2, <1>3

\* Nothing a body takes or writes was lent to it for reading only.
LEMMA TopKept ==
  ASSUME fns \in Modules, Errors(lent) = {}, FrameKept(Top), PlainNames, RestsOwn, Stays(lent), MovesSeen,
         NEW n \in Body(Top.fn)
  PROVE  LentKept(n)
<1> DEFINE f == Top.fn
<1>1. f \in DOMAIN fns
  BY DEF FrameKept
<1>2. ASSUME NEW p \in Known(Moved(n) \cup Written(n)), Stored(p).kept PROVE FALSE
  <2>1. p.kind = "Path" /\ p.root \in ConstNames(lent, f)
    BY <1>2, StoredFacts DEF Known, Bound, FrameKept
  <2>2. CASE p \in Written(n)
    BY <1>1, <2>1, <2>2, NoErrors
  <2>3. CASE p \in Moved(n)
    <3>1. PICK v \in Taken(lent, n) : p \in Sources(v) /\ p.ty.owns
      BY <2>3 DEF Moved
    <3>2. p = v
      BY <1>1, <2>1, <3>1 DEF MovesSeen, Sources
    <3>3. MoveUnchecked(n) /\ p.ty.form \in {"struct", "noisy"}
      <4>1. p \notin MoveErrors(lent, f, n)
        BY <1>1, NoErrors
      <4> QED BY <2>1, <3>1, <3>2, <4>1 DEF MoveErrors
    <3>4. p.root \notin ConstNames({}, f)
      BY <1>1, <2>1, <3>1, <3>2, <3>3 DEF MovesSeen
    <3>5. PICK q \in lent : q[1] = f /\ Param(q).name = p.root
      BY <2>1, <3>4 DEF ConstNames
    <3> QED BY <1>1, <2>1, <3>1, <3>2, <3>5, BorrowsUnused
  <2> QED BY <1>2, <2>2, <2>3 DEF Known
<1> QED BY <1>2 DEF LentKept

\* Growth.  What grows is a node the scan for growth meets, and what it grows is
\* neither a `ref` local nor a rest: those the scan looks through (ScanGrowth).
Whole(p)     == p.kind = "Path" /\ p.end = "whole"
RefLocals(f) == {n.name : n \in {m \in Body(f) : m.kind = "VarDecl" /\ m.isRef /\ ~m.const}}
GrowthSeen ==
  \A f \in DOMAIN fns : \A n \in Body(f) :
    /\ n.kind \in {"Assign", "Invoke"} => n \in {fns[f].growth[k] : k \in DOMAIN fns[f].growth}
    /\ \A p \in GrownBy(growing, n) : Whole(p) /\ p.ty.form = "array" => p.root \notin RefLocals(f)
    /\ \A p \in Grown(n) \cup Moved(n) : Whole(p) => p.root \notin RestNames(f)

\* A name has one type in a function, a `ref` local that of what it is bound to, and
\* a fixed array owns nothing.
FormsOf(f, x) ==
  {Param(q).ty.form : q \in {p \in {f} \X ParamsOf(f) : Param(p).name = x}}
    \cup {n.ty.form : n \in {m \in Body(f) : m.kind = "VarDecl" /\ m.name = x}}
Uses(n) ==
  Moved(n) \cup Written(n)
    \cup (IF n.kind = "Invoke" THEN {Operands(n)[j] : j \in DOMAIN Operands(n)} ELSE {})
    \cup (IF n.kind = "VarDecl" /\ n.isRef THEN {n.init} ELSE {})
Typed ==
  \A f \in DOMAIN fns : \A n \in Body(f) :
    /\ \A p \in Uses(n) : Whole(p) => FormsOf(f, p.root) \subseteq {p.ty.form}
    /\ n.kind = "VarDecl" /\ n.isRef /\ n.init.ty.form \in {"array", "fixed"} => n.ty.form = n.init.ty.form
    /\ \A p \in Moved(n) : p.ty.form # "fixed"

GrowthKnown == Typed /\ GrowthSeen /\ GrowthStays(growing)

\* Storage on the stack has the name of a fixed array of the body's own, or of a
\* parameter or an alias that is not known to grow.
ViewNames(f) ==
  {Param(q).name : q \in {p \in {f} \X ParamsOf(f) : Param(p).mod = "ref" /\ p \notin growing}}
    \cup RestNames(f) \cup RefLocals(f) \cup ConstNames(lent, f)
    \cup {n.name : n \in {m \in Body(f) : m.kind = "VarDecl" /\ ~m.isRef /\ m.ty.form = "fixed"}}

FrameViews(fr) ==
  \A x \in DOMAIN fr.at : fr.at[x].view =>
    x \in ViewNames(fr.fn) /\ FormsOf(fr.fn, x) \cap {"array", "fixed"} # {}

\* An array on the stack that a node uses as one.
LEMMA ViewUsed ==
  ASSUME FrameKept(Top), FrameViews(Top), Typed, NEW n \in Body(Top.fn), NEW p \in Uses(n), p.kind = "Path",
         Bound(p), Stored(p).view
  PROVE  /\ p.ty.form \in {"array", "fixed"}
         /\ p.ty.form # "fixed" =>
              /\ Whole(p)
              /\ \/ p.root \in RestNames(Top.fn) \cup RefLocals(Top.fn) \cup ConstNames(lent, Top.fn)
                 \/ \E q \in RefArrayParamNamed(Top.fn, p.root) : q \notin growing
<1> DEFINE f == Top.fn
<1>1. f \in DOMAIN fns
  BY DEF FrameKept
<1>2. CASE p.ty.form = "fixed"
  BY <1>2
<1>3. CASE p.ty.form # "fixed"
  <2>1. p.end = "whole" /\ p.root \in DOMAIN Top.at /\ Top.at[p.root].view
    BY <1>3, StoredFacts DEF Bound
  <2>2. p.root \in ViewNames(f) /\ FormsOf(f, p.root) \cap {"array", "fixed"} # {}
    BY <2>1 DEF FrameViews
  <2>3. Whole(p) /\ FormsOf(f, p.root) \subseteq {p.ty.form}
    BY <1>1, <2>1 DEF Typed, Whole
  <2>4. p.ty.form = "array"
    BY <1>3, <2>2, <2>3
  <2>5. CASE \E m \in Body(f) : m.kind = "VarDecl" /\ m.ty.form = "fixed" /\ m.name = p.root
    BY <2>3, <2>4, <2>5 DEF FormsOf
  <2>6. CASE \E q \in {f} \X ParamsOf(f) : Param(q).mod = "ref" /\ q \notin growing /\ Param(q).name = p.root
    <3>1. PICK q \in {f} \X ParamsOf(f) : Param(q).mod = "ref" /\ q \notin growing /\ Param(q).name = p.root
      BY <2>6
    <3>2. Param(q).ty.form = "array"
      BY <2>3, <2>4, <3>1 DEF FormsOf
    <3>3. CASE Param(q).rest
      BY <2>3, <2>4, <3>1, <3>3 DEF RestNames
    <3>4. CASE ~Param(q).rest
      BY <2>3, <2>4, <3>1, <3>2, <3>4 DEF RefArrayParamNamed
    <3> QED BY <3>3, <3>4
  <2> QED BY <2>2, <2>3, <2>4, <2>5, <2>6 DEF ViewNames
<1> QED BY <1>2, <1>3

\* A `ref` array parameter that a node grows is marked.
LEMMA GrownMarked ==
  ASSUME GrowthSeen, GrowthStays(growing), NEW f \in DOMAIN fns, NEW n \in Body(f), n.kind \in {"Assign", "Invoke"},
         NEW p \in GrownBy(growing, n), Whole(p), growing \subseteq Growable, fns \in Modules
  PROVE  RefArrayParamNamed(f, p.root) \subseteq growing
<1>1. PICK k \in DOMAIN fns[f].growth : n = fns[f].growth[k]
  BY DEF GrowthSeen
<1>2. MarkGrowth(f, p) \subseteq growing
  BY <1>1, GrowthGrows DEF GrowthStays
<1> QED BY <1>2 DEF MarkGrowth, Whole

\* What a name of a called body is stored as on the stack: the argument is such, and
\* who grows its parameter is not given it.
LEMMA EnteredViews ==
  ASSUME fns \in Modules, Errors(lent) = {}, growing \subseteq Growable, GrowthKnown,
         FrameKept(Top), FrameViews(Top), NEW n \in Body(Top.fn), n.kind = "Invoke",
         NEW g \in Resolved(n), \A j \in DOMAIN Operands(n) : Operands(n)[j].kind = "Path" => Bound(Operands(n)[j])
  PROVE  FrameViews([fn |-> g, at |-> NamesOf(g, Given(g, n))])
<1> DEFINE f  == Top.fn
           at == NamesOf(g, Given(g, n))
<1>1. g \in DOMAIN fns /\ f \in DOMAIN fns /\ IsFunction(fns[g])
  BY ModuleFacts DEF Resolved, Callable, FrameKept
<1>2. ASSUME NEW x \in DOMAIN at, at[x].view
      PROVE  x \in ViewNames(g) /\ FormsOf(g, x) \cap {"array", "fixed"} # {}
  <2>1. CASE \E m \in Body(g) : m.kind = "VarDecl" /\ ~m.isRef /\ m.name = x /\ m.ty.form = "fixed"
    BY <2>1 DEF ViewNames, FormsOf
  <2>2. CASE \E j \in ParamsOf(g) : Param(<<g, j>>).name = x /\ at[x] = Given(g, n)[j]
    <3>1. PICK j \in ParamsOf(g) : Param(<<g, j>>).name = x /\ at[x] = Given(g, n)[j]
      BY <2>2
    <3> DEFINE q   == <<g, j>>
               arg == Operands(n)[j]
    <3>2. q \in {g} \X ParamsOf(g) /\ Param(q) = fns[g].params[j] /\ j \in DOMAIN fns[g].params
      BY <3>1 DEF Param, ParamsOf
    <3>3. Param(q).ty.form \in FormsOf(g, x)
      BY <3>1, <3>2 DEF FormsOf
    <3>4. CASE Param(q).rest
      <4>1. Param(q).ty.form = "array"
        BY <1>1, <3>2, <3>4 DEF IsFunction
      <4>2. x \in RestNames(g)
        BY <3>1, <3>2, <3>4 DEF RestNames
      <4> QED BY <3>3, <4>1, <4>2 DEF ViewNames
    <3>5. CASE ~Param(q).rest
      <4>1. at[x] = Passed(q, arg)
        BY <3>1, <3>5 DEF Given
      <4>2. /\ Param(q).mod # "none" \/ q \in lent
            /\ \/ arg.kind = "Path" /\ Stored(arg).view
               \/ arg.kind = "Init" /\ arg.ty.form = "array"
        BY <1>2, <3>5, <4>1, PassedFacts
      <4>3. j \in DOMAIN Operands(n) /\ ParamFor(g, j) = {q} /\ Fits(arg, Param(q), FALSE) /\ g \in Resolved(n)
        BY <1>1, <3>1, <3>5, ArgumentOf
      <4>4. arg \in Uses(n)
        BY <4>3 DEF Uses
      <4>5. arg.kind = "Path" =>
              /\ arg.ty.form \in {"array", "fixed"}
              /\ arg.ty.form # "fixed" =>
                   /\ Whole(arg)
                   /\ \/ arg.root \in RestNames(f) \cup RefLocals(f) \cup ConstNames(lent, f)
                      \/ \E r \in RefArrayParamNamed(f, arg.root) : r \notin growing
        BY <4>2, <4>3, <4>4, ViewUsed DEF GrowthKnown
      <4>6. arg.ty.form \in {"array", "fixed"}
        BY <4>2, <4>5
      <4>7. Param(q).ty.form \in {"array", "fixed"}
        BY <4>3, <4>6 DEF Fits
      <4>8. x \in ViewNames(g)
        <5>1. CASE q \in lent \/ Param(q).const
          BY <3>1, <3>2, <5>1 DEF ViewNames, ConstNames
        <5>2. CASE q \notin lent /\ ~Param(q).const /\ q \notin growing
          <6>1. Param(q).mod = "ref"
            BY <1>1, <3>2, <4>2, <5>2 DEF IsFunction
          <6> QED BY <3>1, <3>2, <5>2, <6>1 DEF ViewNames
        <5>3. CASE q \notin lent /\ ~Param(q).const /\ q \in growing
          <6>1. Param(q).mod = "ref"
            BY <1>1, <3>2, <4>2, <5>3 DEF IsFunction
          <6>2. arg \notin GrowthErrors(growing, f, n)
            BY <1>1, NoErrors
          <6>3. /\ ~(arg.kind = "Init" /\ arg.ty.form = "array") /\ arg.ty.form # "fixed"
                /\ ~(arg.kind = "Path" /\ arg.end = "whole" /\ arg.root \in RestNames(f))
            BY <4>3, <5>3, <6>2 DEF GrowthErrors, IsView
          <6>4. Whole(arg) /\ arg.kind = "Path" /\ arg.ty.form = "array"
            BY <4>2, <4>5, <6>3
          <6>5. arg \in GrownBy(growing, n)
            BY <4>3, <5>3 DEF GrownBy, CalleeGrowsParam, Resolved
          <6>6. arg.root \notin RefLocals(f)
            BY <1>1, <6>4, <6>5 DEF GrowthKnown, GrowthSeen
          <6>7. arg.root \notin ConstNames(lent, f)
            <7>1. arg \in LentMutably(n)
              BY <4>3, <5>3, <6>1 DEF LentMutably
            <7> QED BY <1>1, <6>4, <7>1, NoErrors
          <6>8. RefArrayParamNamed(f, arg.root) \subseteq growing
            BY <1>1, <6>4, <6>5, GrownMarked DEF GrowthKnown
          <6> QED BY <4>5, <6>3, <6>4, <6>6, <6>7, <6>8 DEF Whole
        <5> QED BY <5>1, <5>2, <5>3
      <4> QED BY <3>3, <4>7, <4>8
    <3> QED BY <3>4, <3>5
  <2> QED BY <1>1, <1>2, <2>1, <2>2, Entered
<1> HIDE DEF at
<1> QED BY <1>2 DEF FrameViews, at

\* The same of a `ref` local.
LEMMA BoundViews ==
  ASSUME FrameKept(Top), FrameViews(Top), Typed, NEW n \in Body(Top.fn), n.kind = "VarDecl", n.isRef,
         n.init.kind = "Path", Bound(n.init), Stored(n.init).view
  PROVE  n.name \in ViewNames(Top.fn) /\ FormsOf(Top.fn, n.name) \cap {"array", "fixed"} # {}
<1>1. Top.fn \in DOMAIN fns
  BY DEF FrameKept
<1>2. n.name \in ConstNames(lent, Top.fn) \/ n.name \in RefLocals(Top.fn)
  BY DEF ConstNames, RefLocals
<1>3. n.init \in Uses(n)
  BY DEF Uses
<1>4. n.init.ty.form \in {"array", "fixed"}
  BY <1>3, ViewUsed
<1>5. n.ty.form \in {"array", "fixed"}
  BY <1>1, <1>4 DEF Typed
<1>6. n.ty.form \in FormsOf(Top.fn, n.name)
  BY DEF FormsOf
<1> QED BY <1>2, <1>5, <1>6 DEF ViewNames

\* Nothing a body grows, rebinds or takes is on the stack.
LEMMA TopViews ==
  ASSUME fns \in Modules, Errors(lent) = {}, growing \subseteq Growable, GrowthKnown, MovesSeen,
         FrameKept(Top), FrameViews(Top), NEW n \in Body(Top.fn)
  PROVE  ViewsKept(n)
<1> DEFINE f == Top.fn
<1>1. f \in DOMAIN fns
  BY DEF FrameKept
<1>2. ASSUME NEW p \in Known(Moved(n) \cup Grown(n)), Stored(p).view PROVE FALSE
  <2>1. p.kind = "Path" /\ Bound(p) /\ p \in Uses(n)
    BY DEF Known, Uses, Grown
  <2>2. p.ty.form # "fixed"
    BY <1>1 DEF GrowthKnown, Typed, Known, Grown
  <2>3. /\ p.ty.form = "array" /\ Whole(p)
        /\ \/ p.root \in RestNames(f) \cup RefLocals(f) \cup ConstNames(lent, f)
           \/ \E q \in RefArrayParamNamed(f, p.root) : q \notin growing
    BY <1>2, <2>1, <2>2, ViewUsed DEF GrowthKnown
  <2>4. p.root \notin RestNames(f)
    BY <1>1, <2>3 DEF GrowthKnown, GrowthSeen, Known
  <2>5. CASE p \in Moved(n)
    <3>1. PICK v \in Taken(lent, n) : p \in Sources(v) /\ p.ty.owns
      BY <2>5 DEF Moved
    <3>2. p = v
      BY <1>1, <2>1, <3>1 DEF MovesSeen, Sources
    <3>3. p \notin MoveErrors(lent, f, n)
      BY <1>1, NoErrors
    <3>4. p.root \notin ConstNames(lent, f) /\ p.root \notin RefNames(f)
      BY <2>1, <2>3, <3>1, <3>2, <3>3 DEF MoveErrors
    <3>5. RefLocals(f) \subseteq RefNames(f) /\ (\A q \in RefArrayParamNamed(f, p.root) : p.root \in RefNames(f))
      BY DEF RefLocals, RefNames, RefArrayParamNamed
    <3> QED BY <2>3, <2>4, <3>4, <3>5
  <2>6. CASE p \in Grown(n)
    <3>1. p \in Written(n) /\ (n.kind = "Assign" \/ Calls(n, Resizing))
      BY <2>6 DEF Grown
    <3>2. p.root \notin ConstNames(lent, f)
      BY <1>1, <2>1, <3>1, NoErrors
    <3>3. n.kind \in {"Assign", "Invoke"} /\ p \in GrownBy(growing, n)
      <4>1. CASE n.kind = "Assign"
        BY <3>1, <4>1 DEF Written, GrownBy, Calls
      <4>2. CASE n.kind # "Assign"
        <5>1. n.kind = "Invoke" /\ n.callee \in Resizing /\ p \in ArgOf(n, 1)
          BY <3>1, <4>2 DEF Written, Calls
        <5>2. 1 \in DOMAIN n.args /\ p = n.args[1]
          BY <5>1 DEF ArgOf
        <5> QED BY <5>1, <5>2 DEF GrownBy
      <4> QED BY <4>1, <4>2
    <3>4. p.root \notin RefLocals(f)
      BY <1>1, <2>3, <3>3 DEF GrowthKnown, GrowthSeen
    <3>5. RefArrayParamNamed(f, p.root) \subseteq growing
      BY <1>1, <2>3, <3>3, GrownMarked DEF GrowthKnown
    <3> QED BY <2>3, <2>4, <3>2, <3>4, <3>5
  <2> QED BY <2>5, <2>6 DEF Known
<1> QED BY <1>2 DEF ViewsKept

\* A stack of frames after a call, a `ref` local or a return.
IsStack(s) == \E S : s \in Seq(S)

LEMMA StackFacts ==
  ASSUME NEW s, IsStack(s)
  PROVE  /\ Len(s) \in Nat /\ DOMAIN s = 1..Len(s)
         /\ s # <<>> =>
              /\ Len(s) \in DOMAIN s
              /\ IsStack(SubSeq(s, 1, Len(s) - 1))
              /\ \A k \in DOMAIN SubSeq(s, 1, Len(s) - 1) : k \in DOMAIN s /\ SubSeq(s, 1, Len(s) - 1)[k] = s[k]
<1>1. PICK S : s \in Seq(S)
  BY DEF IsStack
<1>2. ASSUME s # <<>>
      PROVE  /\ SubSeq(s, 1, Len(s) - 1) \in Seq(S)
             /\ \A k \in DOMAIN SubSeq(s, 1, Len(s) - 1) : k \in DOMAIN s /\ SubSeq(s, 1, Len(s) - 1)[k] = s[k]
  BY <1>1, <1>2
<1>3. s # <<>> => IsStack(SubSeq(s, 1, Len(s) - 1))
  BY <1>2, Zenon DEF IsStack
<1>4. Len(s) \in Nat /\ DOMAIN s = 1..Len(s) /\ (s # <<>> => Len(s) \in DOMAIN s)
  BY <1>1
<1> QED BY <1>2, <1>3, <1>4

LEMMA StackPush ==
  ASSUME NEW s, IsStack(s), NEW e
  PROVE  /\ IsStack(Append(s, e))
         /\ \A k \in DOMAIN Append(s, e) : Append(s, e)[k] = e \/ (k \in DOMAIN s /\ Append(s, e)[k] = s[k])
<1>1. PICK S : s \in Seq(S)
  BY DEF IsStack
<1> DEFINE T == S \cup {e}
<1>2. s \in Seq(T) /\ e \in T
  BY <1>1
<1> HIDE DEF T
<1>3. Append(s, e) \in Seq(T)
  BY <1>2
<1>4. \A k \in DOMAIN Append(s, e) : Append(s, e)[k] = e \/ (k \in DOMAIN s /\ Append(s, e)[k] = s[k])
  BY <1>2
<1> QED BY <1>3, <1>4, Zenon DEF IsStack

LEMMA StackPut ==
  ASSUME NEW s, IsStack(s), s # <<>>, NEW e, NEW t, t = [s EXCEPT ![Len(s)] = e]
  PROVE  IsStack(t) /\ \A k \in DOMAIN t : k \in DOMAIN s /\ t[k] \in {e, s[k]}
<1>1. PICK S : s \in Seq(S)
  BY DEF IsStack
<1> DEFINE T == S \cup {e}
<1>2. s \in Seq(T) /\ e \in T
  BY <1>1
<1> HIDE DEF T
<1>3. t \in Seq(T)
  BY <1>2
<1>4. \A k \in DOMAIN t : k \in DOMAIN s /\ t[k] \in {e, s[k]}
  BY <1>1
<1> QED BY <1>3, <1>4 DEF IsStack

\* The frames are those of a module that was accepted.
RunInv ==
  /\ SettleInv
  /\ IsStack(frames)
  /\ frames # <<>> => phase = "run"
  /\ phase = "run" => Errors(lent) = {}
  /\ \A i \in DOMAIN frames : FrameKept(frames[i]) /\ (GrowthKnown => FrameViews(frames[i]))

\* An exported function is given storage of its own.
LEMMA ExportEntered ==
  ASSUME fns \in Modules, NEW g \in DOMAIN fns
  PROVE  LET fr == [fn |-> g, at |-> NamesOf(g, [j \in ParamsOf(g) |-> Own])] IN FrameKept(fr) /\ FrameViews(fr)
<1> DEFINE given == [j \in ParamsOf(g) |-> Own]
           at    == NamesOf(g, given)
<1>1. ASSUME NEW x \in DOMAIN at
      PROVE  /\ ~at[x].kept
             /\ at[x].view => x \in ViewNames(g) /\ FormsOf(g, x) \cap {"array", "fixed"} # {}
  <2>1. CASE \E j \in ParamsOf(g) : Param(<<g, j>>).name = x /\ at[x] = given[j]
    BY <2>1 DEF Own
  <2>2. CASE /\ ~at[x].kept
             /\ at[x].view => \E n \in Body(g) : n.kind = "VarDecl" /\ ~n.isRef /\ n.name = x /\ n.ty.form = "fixed"
    BY <2>2 DEF ViewNames, FormsOf
  <2> HIDE DEF given
  <2> QED BY <2>1, <2>2, Entered
<1> HIDE DEF at
<1> QED BY <1>1 DEF FrameKept, FrameViews, at

LEMMA TopKnown ==
  ASSUME RunInv, frames # <<>>
  PROVE  /\ phase = "run" /\ Errors(lent) = {} /\ Len(frames) \in DOMAIN frames /\ Top = frames[Len(frames)]
         /\ FrameKept(Top) /\ (GrowthKnown => FrameViews(Top)) /\ Top.fn \in DOMAIN fns
<1>1. Len(frames) \in DOMAIN frames
  BY StackFacts DEF RunInv
<1>2. FrameKept(Top) /\ (GrowthKnown => FrameViews(Top))
  BY <1>1 DEF RunInv, Top
<1> QED BY <1>1, <1>2 DEF RunInv, Top, FrameKept

LEMMA RunStep == RunInv /\ [Next]_vars => RunInv'
<1> SUFFICES ASSUME RunInv, [Next]_vars PROVE RunInv'
  OBVIOUS
<1>1. SettleInv'
  BY SettleStep DEF RunInv
<1>2. fns \in Modules /\ (phase = "run" => growing \subseteq Growable)
  BY DEF RunInv, SettleInv
\* While a module runs, what is known of it does not change.
<1>3. ASSUME fns' = fns, growing' = growing, lent' = lent
      PROVE  /\ Errors(lent)' = Errors(lent) /\ GrowthKnown' = GrowthKnown
             /\ \A fr : FrameKept(fr)' = FrameKept(fr) /\ FrameViews(fr)' = FrameViews(fr)
  <2>1. fns' = fns /\ growing' = growing /\ lent' = lent
    BY <1>3
  <2>2. /\ \A f : Body(f)' = Body(f) /\ ParamsOf(f)' = ParamsOf(f)
        /\ \A q : Param(q)' = Param(q)
    BY <2>1 DEF Body, ParamsOf, Param
  <2>3. /\ \A n : Callable(n)' = Callable(n) /\ Resolved(n)' = Resolved(n)
        /\ \A f, x : RefArrayParamNamed(f, x)' = RefArrayParamNamed(f, x)
        /\ \A g, j : ParamFor(g, j)' = ParamFor(g, j)
        /\ \A f : RefNames(f)' = RefNames(f) /\ RestNames(f)' = RestNames(f) /\ RefLocals(f)' = RefLocals(f)
        /\ \A l, f : ConstNames(l, f)' = ConstNames(l, f)
        /\ \A f, x : FormsOf(f, x)' = FormsOf(f, x)
    BY <2>1, <2>2 DEF Callable, Resolved, RefArrayParamNamed, ParamFor, RefNames, RestNames, RefLocals, ConstNames, FormsOf
  <2>4. \A l, n : Taken(l, n)' = Taken(l, n)
    BY <2>1, <2>2, <2>3 DEF Taken
  <2>5. \A n : LentMutably(n)' = LentMutably(n)
    BY <2>1, <2>2, <2>3 DEF LentMutably
  <2>6. /\ \A l, f, n : MoveErrors(l, f, n)' = MoveErrors(l, f, n) /\ ConstErrors(l, f, n)' = ConstErrors(l, f, n)
        /\ \A m, f, n : GrowthErrors(m, f, n)' = GrowthErrors(m, f, n)
    <3>1. \A l, f, n : MoveErrors(l, f, n)' = MoveErrors(l, f, n)
      BY <2>3, <2>4 DEF MoveErrors
    <3>2. \A l, f, n : ConstErrors(l, f, n)' = ConstErrors(l, f, n)
      BY <2>3, <2>5 DEF ConstErrors
    <3>3. \A m, f, n : GrowthErrors(m, f, n)' = GrowthErrors(m, f, n)
      <4>1. \A m, f, p : OnlyView(m, f, p)' <=> OnlyView(m, f, p)
        BY <2>2, <2>3 DEF OnlyView
      <4>2. \A f, p : IsView(f, p)' <=> IsView(f, p)
        BY <2>3 DEF IsView
      <4> QED BY <2>3, <4>1, <4>2 DEF GrowthErrors
    <3> QED BY <3>1, <3>2, <3>3
  <2>7. Errors(lent)' = Errors(lent)
    BY <2>1, <2>2, <2>6 DEF Errors
  <2>8. \A n : Moved(n)' = Moved(n)
    BY <2>1, <2>4 DEF Moved
  <2>9. /\ \A m, n : GrownBy(m, n)' = GrownBy(m, n)
        /\ GrowthStays(growing)' = GrowthStays(growing)
    <3>1. \A m, n : GrownBy(m, n)' = GrownBy(m, n)
      BY <2>3 DEF GrownBy, CalleeGrowsParam
    <3>2. \A f, m, n : Mark(f, m, n)' = Mark(f, m, n)
      BY <2>3, <3>1 DEF Mark, MarkGrowth
    <3>3. \A m, f : ScanGrowth(m, f)' = ScanGrowth(m, f)
      BY <2>1, <3>2 DEF ScanGrowth
    <3> QED BY <2>1, <3>1, <3>3 DEF GrowthStays
  <2>10. Typed' = Typed /\ GrowthSeen' = GrowthSeen
    <3>1. \A n : Uses(n)' = Uses(n)
      BY <2>8 DEF Uses
    <3>2. Typed' = Typed
      BY <2>1, <2>2, <2>3, <2>8, <3>1, ZenonT(40) DEF Typed
    <3>3. GrowthSeen' = GrowthSeen
      BY <2>1, <2>2, <2>3, <2>8, <2>9 DEF GrowthSeen
    <3> QED BY <3>2, <3>3
  <2>11. \A fr : FrameKept(fr)' = FrameKept(fr) /\ FrameViews(fr)' = FrameViews(fr)
    BY <2>1, <2>2, <2>3 DEF FrameKept, FrameViews, ViewNames
  <2> QED BY <2>1, <2>7, <2>9, <2>10, <2>11 DEF GrowthKnown
<1>4. ASSUME inference' = inference, phase = "run", IsStack(frames'),
             \A i \in DOMAIN frames' :
               \/ i \in DOMAIN frames /\ frames'[i] = frames[i]
               \/ FrameKept(frames'[i]) /\ (GrowthKnown => FrameViews(frames'[i]))
      PROVE  RunInv'
  <2>1. phase' = "run" /\ Errors(lent)' = {} /\ GrowthKnown' = GrowthKnown
    BY <1>3, <1>4 DEF RunInv, inference
  <2>2. ASSUME NEW i \in DOMAIN frames' PROVE FrameKept(frames[i])' /\ (GrowthKnown' => FrameViews(frames[i])')
    <3>1. FrameKept(frames'[i]) /\ (GrowthKnown => FrameViews(frames'[i]))
      BY <1>4, <2>2 DEF RunInv
    <3> QED BY <1>3, <1>4, <2>1, <3>1 DEF inference
  <2> QED BY <1>1, <1>4, <2>1, <2>2 DEF RunInv
\* Inference and check run nothing.
<1>5. ASSUME frames = <<>>, frames' = frames, phase' = "run" => Errors(lent)' = {} PROVE RunInv'
  <2>1. DOMAIN frames' = {} /\ IsStack(frames')
    BY <1>5 DEF RunInv
  <2> QED BY <1>1, <1>5, <2>1 DEF RunInv
<1>6. CASE MarkNextGrowth \/ ScanNextBorrows \/ EndRound
  <2>1. phase \in {"growth", "borrow"} /\ frames' = frames /\ phase' # "run"
    BY <1>6 DEF MarkNextGrowth, ScanNextBorrows, EndRound
  <2> QED BY <1>5, <2>1 DEF RunInv
<1>7. CASE CheckBodies
  <2>1. phase = "check" /\ frames' = frames
    BY <1>7 DEF CheckBodies
  <2>2. phase' = "run" => Errors(lent)' = {}
    BY <1>3, <1>7 DEF CheckBodies
  <2> QED BY <1>5, <2>1, <2>2 DEF RunInv
<1>8. CASE UNCHANGED vars
  <2>1. inference' = inference /\ frames' = frames
    BY <1>8 DEF vars
  <2>2. CASE phase = "run"
    BY <1>4, <2>1, <2>2 DEF RunInv
  <2>3. CASE phase # "run"
    BY <1>5, <2>1, <2>3 DEF RunInv, inference
  <2> QED BY <2>2, <2>3
<1>9. ASSUME NEW g \in DOMAIN fns, EnterExport(g) PROVE RunInv'
  <2> DEFINE fr == [fn |-> g, at |-> NamesOf(g, [j \in ParamsOf(g) |-> Own])]
  <2>1. phase = "run" /\ inference' = inference /\ frames' = <<fr>>
    BY <1>9 DEF EnterExport
  <2>2. FrameKept(fr) /\ FrameViews(fr)
    BY <1>2, ExportEntered
  <2> HIDE DEF fr
  <2>3. <<fr>> \in Seq({fr}) /\ \A i \in DOMAIN <<fr>> : <<fr>>[i] = fr
    OBVIOUS
  <2>4. IsStack(frames')
    BY <2>1, <2>3 DEF IsStack
  <2> QED BY <1>4, <2>1, <2>2, <2>3, <2>4
<1>10. frames # <<>> =>
         /\ phase = "run" /\ Errors(lent) = {} /\ Len(frames) \in DOMAIN frames /\ Top = frames[Len(frames)]
         /\ FrameKept(Top) /\ (GrowthKnown => FrameViews(Top)) /\ Top.fn \in DOMAIN fns
  BY TopKnown
<1>11. ASSUME frames # <<>>, NEW n \in Body(Top.fn), n.kind = "Invoke", NEW g \in Resolved(n), EnterCall(n, g)
       PROVE  RunInv'
  <2> DEFINE fr == [fn |-> g, at |-> NamesOf(g, Given(g, n))]
  <2>1. /\ inference' = inference /\ frames' = Append(frames, fr)
        /\ \A j \in DOMAIN Operands(n) : Operands(n)[j].kind = "Path" => Bound(Operands(n)[j])
    BY <1>11 DEF EnterCall
  <2>2. FrameKept(fr)
    BY <1>2, <1>10, <1>11, <2>1, EnteredKept
  <2>3. GrowthKnown => FrameViews(fr)
    BY <1>2, <1>10, <1>11, <2>1, EnteredViews
  <2> HIDE DEF fr
  <2>4. IsStack(frames') /\ \A i \in DOMAIN frames' : frames'[i] = fr \/ (i \in DOMAIN frames /\ frames'[i] = frames[i])
    <3>1. IsStack(frames)
      BY DEF RunInv
    <3>2. IsStack(Append(frames, fr))
      BY <3>1, StackPush, Zenon
    <3>3. \A i \in DOMAIN Append(frames, fr) :
            Append(frames, fr)[i] = fr \/ (i \in DOMAIN frames /\ Append(frames, fr)[i] = frames[i])
      BY <3>1, StackPush, Zenon
    <3> QED BY <2>1, <3>2, <3>3, Zenon
  <2>5. phase = "run"
    BY <1>10, <1>11
  <2> QED BY <1>4, <2>1, <2>2, <2>3, <2>4, <2>5
<1>12. ASSUME frames # <<>>, NEW n \in Body(Top.fn), n.kind = "VarDecl", n.isRef, BindRef(n) PROVE RunInv'
  <2> DEFINE at   == [x \in DOMAIN Top.at \cup {n.name} |->
                        IF x = n.name THEN [Stored(n.init) EXCEPT !.kept = @ \/ n.const] ELSE Top.at[x]]
             kept == Stored(n.init).kept \/ n.const
             fr   == [fn |-> Top.fn, at |-> at]
  <2>1. /\ inference' = inference /\ n.init.kind = "Path" /\ Bound(n.init)
        /\ frames' = [frames EXCEPT ![Len(frames)] = fr]
    <3>1. Top = [fn |-> Top.fn, at |-> Top.at]
      BY <1>10, <1>12 DEF FrameKept
    <3>2. frames' = [frames EXCEPT ![Len(frames)].at = at]
      BY <1>10, <1>12 DEF BindRef, Top
    <3>3. inference' = inference /\ n.init.kind = "Path" /\ Bound(n.init)
      BY <1>12 DEF BindRef
    <3> HIDE DEF at
    <3>4. [frames EXCEPT ![Len(frames)].at = at] = [frames EXCEPT ![Len(frames)] = [Top EXCEPT !.at = at]]
      BY DEF Top
    <3>5. [Top EXCEPT !.at = at] = fr
      BY <3>1
    <3> QED BY <3>2, <3>3, <3>4, <3>5
  <2>2. at[n.name].view => Stored(n.init).view
    BY DEF Stored
  <2>3. at[n.name].kept => Stored(n.init).kept \/ n.const
    <3>1. kept => Stored(n.init).kept \/ n.const
      OBVIOUS
    <3>2. at[n.name] = [Stored(n.init) EXCEPT !.kept = kept]
      OBVIOUS
    <3> HIDE DEF kept, at
    <3>3. at[n.name].kept = kept
      BY <3>2 DEF Stored
    <3> QED BY <3>1, <3>3, Zenon
  <2>4. DOMAIN at = DOMAIN Top.at \cup {n.name} /\ \A x \in DOMAIN at : x # n.name => x \in DOMAIN Top.at /\ at[x] = Top.at[x]
    OBVIOUS
  <2> HIDE DEF at
  <2>5. FrameKept(fr)
    <3>1. at[n.name].kept => n.name \in ConstNames(lent, Top.fn)
      BY <1>2, <1>10, <1>12, <2>1, <2>3, BoundKept
    <3> QED BY <1>10, <1>12, <2>4, <3>1 DEF FrameKept
  <2>6. GrowthKnown => FrameViews(fr)
    <3> SUFFICES ASSUME GrowthKnown PROVE FrameViews(fr)
      OBVIOUS
    <3>1. at[n.name].view =>
            n.name \in ViewNames(Top.fn) /\ FormsOf(Top.fn, n.name) \cap {"array", "fixed"} # {}
      BY <1>10, <1>12, <2>1, <2>2, BoundViews DEF GrowthKnown
    <3> QED BY <1>10, <1>12, <2>4, <3>1 DEF FrameViews
  <2> HIDE DEF fr
  <2>7. IsStack(frames') /\ \A i \in DOMAIN frames' : i \in DOMAIN frames /\ frames'[i] \in {fr, frames[i]}
    BY <1>12, <2>1, StackPut DEF RunInv
  <2> QED BY <1>4, <1>10, <1>12, <2>1, <2>5, <2>6, <2>7
<1>13. ASSUME frames # <<>>, LeaveCall PROVE RunInv'
  BY <1>4, <1>10, <1>13, StackFacts DEF LeaveCall, RunInv
<1> QED BY <1>6, <1>7, <1>8, <1>9, <1>11, <1>12, <1>13 DEF Next, Ended

LEMMA RunHolds == Spec => []RunInv
<1>1. ASSUME Init, SettleInv PROVE RunInv
  <2>1. frames = <<>> /\ phase = "growth"
    BY <1>1 DEF Init
  <2>2. frames \in Seq({}) /\ DOMAIN frames = {}
    BY <2>1
  <2> QED BY <1>1, <2>1, <2>2 DEF RunInv, IsStack
<1>2. Init => SettleInv
  BY SettleStart
<1> QED BY <1>1, <1>2, RunStep, PTL DEF Spec

\* What a call was lent for reading it neither takes nor writes, whatever runs and
\* however deep: the scan that inferred the borrow and the checks of the resolver
\* leave no third way (InferBorrowedParams, CheckConstRefArgs), given that the scans
\* agree and that no move is let through unseen.
THEOREM BorrowsKeptHolds ==
  Spec => [](ScansAgree /\ MovesSeen => (frames # <<>> => \A n \in Body(Top.fn) : LentKept(n)))
<1>1. ASSUME RunInv, ScansAgree, MovesSeen, frames # <<>>, NEW n \in Body(Top.fn) PROVE LentKept(n)
  <2>1. fns \in Modules /\ Errors(lent) = {} /\ Stays(lent)
    BY <1>1 DEF RunInv, SettleInv, ScansAgree
  <2>2. FrameKept(Top)
    BY <1>1, TopKnown
  <2> QED BY <1>1, <2>1, <2>2, TopKept DEF ScansAgree
<1>2. RunInv => (ScansAgree /\ MovesSeen => (frames # <<>> => \A n \in Body(Top.fn) : LentKept(n)))
  BY <1>1
<1> QED BY <1>2, RunHolds, PTL

\* And it grows, rebinds or takes nothing that lives on the stack, when the marks for
\* growth are complete as well: an accepted module runs without a wrong use of
\* storage (MarkGrowableArrayParams, CheckGrowableArgs).
THEOREM StorageKeptHolds ==
  Spec => [](ScansAgree /\ MovesSeen /\ Typed /\ GrowthSeen /\ Cardinality(Growable) < MaxRounds => StorageKept)
<1>1. ASSUME RunInv, ScansAgree, MovesSeen, Typed, GrowthSeen, Cardinality(Growable) < MaxRounds,
             frames # <<>>, NEW n \in Body(Top.fn)
      PROVE  LentKept(n) /\ ViewsKept(n)
  <2>1. fns \in Modules /\ Errors(lent) = {} /\ Stays(lent) /\ growing \subseteq Growable /\ GrowthStays(growing)
    BY <1>1 DEF RunInv, SettleInv, ScansAgree
  <2>2. GrowthKnown
    BY <1>1, <2>1 DEF GrowthKnown
  <2>3. FrameKept(Top) /\ FrameViews(Top)
    BY <1>1, <2>2, TopKnown
  <2> QED BY <1>1, <2>1, <2>2, <2>3, TopKept, TopViews DEF ScansAgree
<1>2. RunInv => (ScansAgree /\ MovesSeen /\ Typed /\ GrowthSeen /\ Cardinality(Growable) < MaxRounds => StorageKept)
  BY <1>1 DEF StorageKept
<1> QED BY <1>2, RunHolds, PTL
=============================================================================
