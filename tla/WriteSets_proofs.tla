--------------------------- MODULE WriteSets_proofs ---------------------------
(***************************************************************************)
(* For every module: the passes over the call graph end with sets that are *)
(* closed under calls, they never hold more than any closed family of sets *)
(* does, and the set of a function on the stack covers those above it.     *)
(***************************************************************************)
EXTENDS WriteSets, TLAPS

\* A set is a record with these fields and no others.
IsFnWrites(w) == w = [keys |-> w.keys, reads |-> w.reads, all |-> w.all] /\ w.all \in BOOLEAN

\* Merging the k-th callee of f would change nothing.
Settled(f, k) == Merged(sets[f], Called(f)[k]) = sets[f]

SetTypes ==
  /\ mod \in {Modules[name] : name \in DOMAIN Modules}
  /\ phase \in {"merge", "done"} /\ changed \in BOOLEAN
  /\ caller \in Functions /\ nextCall \in 1..(Len(Called(caller)) + 1)
  /\ sets = [f \in Functions |-> sets[f]] /\ \A f \in Functions : IsFnWrites(sets[f])
  /\ stack \in Seq(Functions)

\* Sets only grow.
Grown == \A f \in Functions : Covers(sets[f], Direct(FnsOf(mod)[f]))

\* A pass that has changed nothing so far leaves settled callees behind, and the last one all.
SettledBehind ==
  phase = "merge" /\ ~changed =>
    \A f \in Functions : \A k \in DOMAIN Called(f) : f < caller \/ (f = caller /\ k < nextCall) => Settled(f, k)
AllSettled == phase = "done" => \A f \in Functions : \A k \in DOMAIN Called(f) : Settled(f, k)

Least == \A w : Closed(w) => \A f \in Functions : Covers(w[f], sets[f])

SetsInv == SetTypes /\ Grown /\ SettledBehind /\ AllSettled /\ Least /\ (phase = "merge" => stack = <<>>)

-----------------------------------------------------------------------------
\* What a module is.
LEMMA ModuleFacts ==
  ASSUME SetTypes
  PROVE  /\ Len(FnsOf(mod)) \in Nat \ {0} /\ Functions = 1..Len(FnsOf(mod))
         /\ \A f \in Functions : /\ Len(Called(f)) \in Nat /\ DOMAIN Called(f) = 1..Len(Called(f))
                                 /\ IsFnWrites(Direct(FnsOf(mod)[f]))
<1>1. PICK name \in DOMAIN Modules : mod = Modules[name]
  BY DEF SetTypes
<1>2. \A f \in Functions : Direct(FnsOf(mod)[f]).all \in BOOLEAN
  BY <1>1, ModulesAssumption DEF Functions
<1> QED BY <1>1, <1>2, ModulesAssumption DEF Functions, Called, IsFnWrites, Direct

\* Covering is reflexive and transitive.
LEMMA CoversOrder ==
  /\ \A a : a.all \in BOOLEAN => Covers(a, a)
  /\ \A a, b, c : Covers(a, b) /\ Covers(b, c) => Covers(a, c)
BY DEF Covers

\* Merging a callee gives a set that covers both, and is covered by what covers both.
LEMMA MergedFacts ==
  ASSUME SetTypes, NEW v, IsFnWrites(v), NEW c
  PROVE  /\ IsFnWrites(Merged(v, c))
         /\ \A b : Covers(v, b) => Covers(Merged(v, c), b)
         /\ c \in Functions => Covers(Merged(v, c), sets[c])
         /\ c \notin Functions => Merged(v, c).all
         /\ \A w : Covers(w, v) /\ (IF c \in Functions THEN Covers(w, sets[c]) ELSE w.all) => Covers(w, Merged(v, c))
<1>1. CASE c \in Functions
  <2>1. IsFnWrites(sets[c])
    BY <1>1 DEF SetTypes
  <2>2. Merged(v, c) = [keys |-> v.keys \cup sets[c].keys, reads |-> v.reads \cup sets[c].reads, all |-> v.all \/ sets[c].all]
    BY <1>1 DEF Merged
  <2> QED BY <1>1, <2>1, <2>2 DEF IsFnWrites, Covers
<1>2. CASE c \notin Functions
  <2>1. Merged(v, c) = [keys |-> v.keys, reads |-> v.reads, all |-> TRUE]
    BY <1>2 DEF Merged, IsFnWrites
  <2> QED BY <1>2, <2>1 DEF IsFnWrites, Covers
<1> QED BY <1>1, <1>2

-----------------------------------------------------------------------------
\* Before the first pass each set is what the function does by itself.
LEMMA InitHolds == SetsInit => SetsInv
<1> SUFFICES ASSUME SetsInit PROVE SetsInv
  OBVIOUS
<1>1. PICK name \in DOMAIN Modules : mod = Modules[name]
  BY DEF SetsInit
<1>2. /\ Functions = 1..Len(FnsOf(mod)) /\ Len(FnsOf(mod)) \in Nat \ {0}
      /\ \A f \in Functions : /\ Len(Called(f)) \in Nat /\ DOMAIN Called(f) = 1..Len(Called(f))
                              /\ Direct(FnsOf(mod)[f]).all \in BOOLEAN
  BY <1>1, ModulesAssumption DEF Functions, Called
<1>3. \A f \in Functions : IsFnWrites(Direct(FnsOf(mod)[f]))
  BY <1>2 DEF IsFnWrites, Direct
<1>4. \A f \in Functions : sets[f] = Direct(FnsOf(mod)[f])
  BY DEF SetsInit
<1>5. sets = [f \in Functions |-> sets[f]]
  BY <1>4 DEF SetsInit
<1>6. SetTypes
  <2>1. caller \in Functions /\ nextCall \in 1..(Len(Called(caller)) + 1)
    BY <1>2 DEF SetsInit
  <2>2. \A f \in Functions : IsFnWrites(sets[f])
    BY <1>3, <1>4
  <2>3. stack \in Seq(Functions)
    BY DEF SetsInit
  <2> QED BY <1>1, <1>5, <2>1, <2>2, <2>3 DEF SetsInit, SetTypes
<1>7. Grown
  BY <1>2, <1>4, CoversOrder DEF Grown
<1>8. SettledBehind /\ AllSettled
  BY <1>2 DEF SetsInit, SettledBehind, AllSettled
<1>9. Least
  BY <1>4 DEF Least, Closed
<1> QED BY <1>6, <1>7, <1>8, <1>9 DEF SetsInv, SetsInit

\* The module stays, and what is said of it.
LEMMA ModuleStays ==
  ASSUME mod' = mod
  PROVE  /\ Functions' = Functions /\ \A f : Called(f)' = Called(f)
         /\ \A w : Closed(w)' <=> Closed(w)
BY DEF Functions, Called, Closed

\* Steps that leave the sets alone.
LEMMA SameSets ==
  ASSUME mod' = mod, sets' = sets
  PROVE  /\ Functions' = Functions /\ \A f : Called(f)' = Called(f)
         /\ Grown' <=> Grown
         /\ Least' <=> Least
         /\ \A f, k : Settled(f, k)' <=> Settled(f, k)
BY ModuleStays DEF Grown, Least, Settled, Merged, Functions, Called

\* Merging a callee: the set grows, to no more than a closed family has; if nothing changed the callee is settled.
LEMMA MergeCalleeKeeps ==
  ASSUME SetsInv, MergeCallee
  PROVE  SetsInv'
<1> DEFINE c == Called(caller)[nextCall]
           v == Merged(sets[caller], c)
<1>1. /\ phase = "merge" /\ nextCall <= Len(Called(caller)) /\ sets' = [sets EXCEPT ![caller] = v]
      /\ changed' = (changed \/ v # sets[caller]) /\ nextCall' = nextCall + 1
      /\ mod' = mod /\ phase' = phase /\ caller' = caller /\ stack' = stack
  BY DEF MergeCallee
<1>2. /\ SetTypes /\ Grown /\ SettledBehind /\ Least /\ stack = <<>>
      /\ caller \in Functions /\ nextCall \in DOMAIN Called(caller) /\ IsFnWrites(sets[caller])
  BY <1>1, ModuleFacts DEF SetsInv, SetTypes
<1>3. /\ IsFnWrites(v)
      /\ \A b : Covers(sets[caller], b) => Covers(v, b)
      /\ \A w : Covers(w, sets[caller]) /\ (IF c \in Functions THEN Covers(w, sets[c]) ELSE w.all) => Covers(w, v)
  BY <1>2, MergedFacts
<1> HIDE DEF v
<1>4. /\ sets' = [f \in Functions |-> sets'[f]] /\ sets'[caller] = v
      /\ \A f \in Functions : f # caller => sets'[f] = sets[f]
  BY <1>1, <1>2 DEF SetTypes
<1>5. SetTypes'
  <2>1. nextCall' \in 1..(Len(Called(caller)) + 1)
    BY <1>1, <1>2, ModuleFacts DEF SetTypes
  <2>2. \A f \in Functions : IsFnWrites(sets'[f])
    BY <1>2, <1>3, <1>4 DEF SetTypes
  <2>3. IsFnWrites(sets[caller])
    BY <1>2
  <2> QED BY <1>1, <1>2, <1>4, <2>1, <2>2, ModuleStays DEF SetTypes, IsFnWrites
<1>6. Grown'
  BY <1>1, <1>2, <1>3, <1>4, ModuleStays DEF Grown
<1>7. Least'
  <2> SUFFICES ASSUME NEW w, Closed(w), NEW f \in Functions PROVE Covers(w[f], sets'[f])
    BY <1>1, ModuleStays DEF Least
  <2>1. \A g \in Functions : Covers(w[g], sets[g])
    BY <1>2 DEF Least
  <2>2. CASE f # caller
    BY <1>4, <2>1, <2>2
  <2>3. CASE f = caller
    <3>1. IF c \in Functions THEN Covers(w[caller], w[c]) ELSE w[caller].all
      BY <1>2 DEF Closed
    <3>2. IF c \in Functions THEN Covers(w[caller], sets[c]) ELSE w[caller].all
      BY <2>1, <3>1, CoversOrder
    <3> QED BY <1>2, <1>3, <1>4, <2>1, <2>3, <3>2
  <2> QED BY <2>2, <2>3
<1>8. SettledBehind'
  <2> SUFFICES ASSUME ~changed', NEW f \in Functions, NEW k \in DOMAIN Called(f),
                      f < caller \/ (f = caller /\ k < nextCall + 1)
               PROVE  Settled(f, k)'
    BY <1>1, ModuleStays DEF SettledBehind
  <2>1. ~changed /\ v = sets[caller]
    BY <1>1
  <2>2. sets' = sets
    BY <1>1, <1>2, <2>1 DEF SetTypes
  <2>3. Settled(f, k)
    <3>1. CASE f < caller \/ (f = caller /\ k < nextCall)
      BY <1>1, <1>2, <2>1, <3>1 DEF SettledBehind
    <3>2. CASE f = caller /\ k = nextCall
      BY <2>1, <3>2 DEF Settled, v
    <3>3. k \in Nat /\ nextCall \in Nat
      BY <1>2, ModuleFacts
    <3> QED BY <3>1, <3>2, <3>3
  <2> QED BY <1>1, <2>2, <2>3, SameSets
<1>9. AllSettled'
  BY <1>1 DEF AllSettled
<1> QED BY <1>1, <1>2, <1>5, <1>6, <1>7, <1>8, <1>9 DEF SetsInv

\* The callees of the next function have not been merged in this pass.
LEMMA NextFunctionKeeps ==
  ASSUME SetsInv, NextFunction
  PROVE  SetsInv'
<1>1. /\ phase = "merge" /\ nextCall > Len(Called(caller)) /\ caller < Len(FnsOf(mod))
      /\ caller' = caller + 1 /\ nextCall' = 1
      /\ UNCHANGED <<mod, phase, sets, changed, stack>>
  BY DEF NextFunction
<1>2. SetTypes /\ SettledBehind
  BY DEF SetsInv
<1>3. /\ caller \in Functions /\ caller' \in Functions /\ Functions \subseteq Nat
      /\ Len(Called(caller')) \in Nat /\ nextCall \in Nat /\ Len(Called(caller)) \in Nat
      /\ \A f \in Functions : DOMAIN Called(f) = 1..Len(Called(f))
  BY <1>1, <1>2, ModuleFacts DEF SetTypes
<1>4. SetTypes'
  BY <1>1, <1>2, <1>3, SameSets DEF SetTypes
<1>5. SettledBehind'
  <2> SUFFICES ASSUME ~changed, NEW f \in Functions, NEW k \in DOMAIN Called(f),
                      f < caller' \/ (f = caller' /\ k < 1)
               PROVE  Settled(f, k)
    BY <1>1, SameSets DEF SettledBehind
  <2>1. f < caller \/ (f = caller /\ k < nextCall)
    BY <1>1, <1>3
  <2> QED BY <1>1, <1>2, <2>1 DEF SettledBehind
<1> QED BY <1>1, <1>4, <1>5, SameSets DEF SetsInv, AllSettled

\* A pass that changed nothing has settled them all; after another one the next begins.
LEMMA EndPassKeeps ==
  ASSUME SetsInv, EndPass
  PROVE  SetsInv'
<1>1. /\ phase = "merge" /\ nextCall > Len(Called(caller)) /\ caller = Len(FnsOf(mod)) /\ ~changed'
      /\ changed' \in BOOLEAN
      /\ IF changed THEN phase' = "merge" /\ caller' = 1 /\ nextCall' = 1
                    ELSE phase' = "done" /\ UNCHANGED <<caller, nextCall>>
      /\ UNCHANGED <<mod, sets, stack>>
  BY DEF EndPass
<1>2. SetTypes /\ SettledBehind /\ stack = <<>>
  BY <1>1 DEF SetsInv
<1>3. /\ Functions = 1..Len(FnsOf(mod)) /\ Len(FnsOf(mod)) \in Nat \ {0} /\ nextCall \in Nat
      /\ \A f \in Functions : Len(Called(f)) \in Nat /\ DOMAIN Called(f) = 1..Len(Called(f))
  BY <1>2, ModuleFacts DEF SetTypes
<1>4. SetTypes'
  BY <1>1, <1>2, <1>3, SameSets DEF SetTypes
<1>5. SettledBehind'
  BY <1>1, <1>3, SameSets DEF SettledBehind
<1>6. AllSettled'
  <2> SUFFICES ASSUME ~changed, NEW f \in Functions, NEW k \in DOMAIN Called(f) PROVE Settled(f, k)
    BY <1>1, SameSets DEF AllSettled
  <2>1. f < caller \/ (f = caller /\ k < nextCall)
    BY <1>1, <1>3
  <2> QED BY <1>1, <1>2, <2>1 DEF SettledBehind
<1> QED BY <1>1, <1>2, <1>4, <1>5, <1>6, SameSets DEF SetsInv

\* Calls and returns leave the sets alone, and come after the passes.
LEMMA CallsKeep ==
  ASSUME SetsInv, UNCHANGED setVars, stack' \in Seq(Functions), phase = "done" \/ stack' = stack
  PROVE  SetsInv'
<1>1. /\ mod' = mod /\ phase' = phase /\ sets' = sets /\ caller' = caller /\ nextCall' = nextCall
      /\ changed' = changed
  BY DEF setVars
<1>2. SetTypes'
  BY <1>1, SameSets DEF SetsInv, SetTypes
<1>3. SettledBehind' /\ AllSettled'
  BY <1>1, SameSets DEF SetsInv, SettledBehind, AllSettled
<1> QED BY <1>1, <1>2, <1>3, SameSets DEF SetsInv

\* Every step keeps the invariant.
LEMMA NextKeeps == SetsInv /\ [SetsNext]_writeVars => SetsInv'
<1> SUFFICES ASSUME SetsInv, [SetsNext]_writeVars PROVE SetsInv'
  OBVIOUS
<1>1. CASE Merge
  BY <1>1, MergeCalleeKeeps, NextFunctionKeeps, EndPassKeeps DEF Merge
<1>2. ASSUME NEW g \in Functions, Enter(g) PROVE SetsInv'
  BY <1>2, CallsKeep DEF Enter, SetsInv, SetTypes
<1>3. CASE Leave
  <2>1. stack' \in Seq(Functions)
    BY <1>3 DEF Leave, SetsInv, SetTypes
  <2> QED BY <1>3, <2>1, CallsKeep DEF Leave
<1>4. CASE UNCHANGED writeVars
  BY <1>4, CallsKeep DEF writeVars, SetsInv, SetTypes
<1> QED BY <1>1, <1>2, <1>3, <1>4 DEF SetsNext

-----------------------------------------------------------------------------
\* What is settled is closed.
LEMMA SettledClosed ==
  ASSUME SetsInv, phase = "done"
  PROVE  Closed(sets)
<1> SUFFICES ASSUME NEW f \in Functions, NEW k \in DOMAIN Called(f)
             PROVE  IF Called(f)[k] \in Functions THEN Covers(sets[f], sets[Called(f)[k]]) ELSE sets[f].all
  BY DEF Closed, SetsInv, Grown
<1>1. IsFnWrites(sets[f]) /\ Merged(sets[f], Called(f)[k]) = sets[f] /\ SetTypes
  BY DEF SetsInv, SetTypes, AllSettled, Settled
<1> QED BY <1>1, MergedFacts

\* A function that may be called is covered by its caller.
LEMMA CallCovered ==
  ASSUME SetsInv, phase = "done", NEW f \in Functions, NEW g \in Functions, MayCall(f, g)
  PROVE  Covers(sets[f], sets[g])
<1>1. CASE Direct(FnsOf(mod)[f]).all
  BY <1>1 DEF SetsInv, Grown, Covers
<1>2. CASE g \in {Called(f)[k] : k \in DOMAIN Called(f)}
  BY <1>2, SettledClosed DEF Closed
<1> QED BY <1>1, <1>2 DEF MayCall

\* A call adds a function that the last one covers, hence all below it do.
LEMMA CoversKeeps == SetsInv /\ CoversCalls /\ [SetsNext]_writeVars => CoversCalls'
<1> SUFFICES ASSUME SetsInv, CoversCalls, [SetsNext]_writeVars PROVE CoversCalls'
  OBVIOUS
<1>0. stack \in Seq(Functions) /\ \A f \in Functions : sets[f].all \in BOOLEAN
  BY DEF SetsInv, SetTypes, IsFnWrites
<1>1. CASE Merge
  BY <1>1 DEF Merge, MergeCallee, NextFunction, EndPass, SetsInv, CoversCalls
<1>2. ASSUME NEW g \in Functions, Enter(g) PROVE CoversCalls'
  <2>1. phase = "done" /\ stack' = Append(stack, g) /\ sets' = sets
    BY <1>2 DEF Enter, setVars
  <2>2. \A i \in DOMAIN stack : Covers(sets[stack[i]], sets[g])
    <3> SUFFICES ASSUME NEW i \in DOMAIN stack PROVE Covers(sets[stack[i]], sets[g])
      OBVIOUS
    <3>1. Len(stack) \in DOMAIN stack /\ i <= Len(stack) /\ stack # <<>> /\ stack[Len(stack)] \in Functions
      BY <1>0
    <3>2. Covers(sets[stack[Len(stack)]], sets[g])
      BY <1>2, <2>1, <3>1, CallCovered DEF Enter
    <3>3. Covers(sets[stack[i]], sets[stack[Len(stack)]])
      BY <3>1 DEF CoversCalls
    <3> QED BY <3>2, <3>3, CoversOrder
  <2>3. Covers(sets[g], sets[g])
    BY <1>0, CoversOrder
  <2>4. /\ DOMAIN stack' = DOMAIN stack \cup {Len(stack) + 1} /\ stack'[Len(stack) + 1] = g
        /\ \A i \in DOMAIN stack : stack'[i] = stack[i] /\ i <= Len(stack)
        /\ Len(stack) \in Nat
    BY <1>0, <2>1
  <2> QED BY <2>1, <2>2, <2>3, <2>4 DEF CoversCalls
<1>3. CASE Leave
  <2>1. sets' = sets /\ DOMAIN stack' \subseteq DOMAIN stack /\ \A i \in DOMAIN stack' : stack'[i] = stack[i]
    BY <1>0, <1>3 DEF Leave, setVars
  <2> QED BY <2>1 DEF CoversCalls
<1>4. CASE UNCHANGED writeVars
  BY <1>4 DEF writeVars, setVars, CoversCalls
<1> QED BY <1>1, <1>2, <1>3, <1>4 DEF SetsNext

-----------------------------------------------------------------------------
\* The invariant holds throughout.
LEMMA Invariant == SetsSpec => []SetsInv
BY InitHolds, NextKeeps, PTL DEF SetsSpec

\* What the passes end with is closed under calls, whatever the call graph (WriteSetsBuild).
THEOREM SetsAreClosed == SetsSpec => [](phase = "done" => Closed(sets))
BY Invariant, SettledClosed, PTL

\* No set ever holds more than it would in any family of sets that is closed.
THEOREM SetsAreSmallest == SetsSpec => []Least
<1>1. SetsInv => Least
  BY DEF SetsInv
<1> QED BY <1>1, Invariant, PTL

\* What a call may write, every function that waits for it may write.
THEOREM CoversCallsHolds == SetsSpec => []CoversCalls
<1>1. SetsInit => CoversCalls
  BY DEF SetsInit, CoversCalls
<1> QED BY <1>1, Invariant, CoversKeeps, PTL DEF SetsSpec

-----------------------------------------------------------------------------
\* What is within reach.

Reach(f) == Within(f, CallClosed)

LEMMA CallClosedIs ==
  CallClosed = {S \in SUBSET Functions : \A h \in S : CalleesOf(h) \cap Functions \subseteq S}
<1> DEFINE callees == UNION {{f} \X (CalleesOf(f) \cap Functions) : f \in Functions}
<1>1. CallClosed = {S \in SUBSET Functions : \A c \in callees : c[1] \in S => c[2] \in S}
  BY DEF CallClosed
<1>2. \A f, g : <<f, g>> \in callees <=> f \in Functions /\ g \in CalleesOf(f) \cap Functions
  OBVIOUS
<1>3. \A c \in callees : c = <<c[1], c[2]>>
  OBVIOUS
<1> HIDE DEF callees
<1>4. ASSUME NEW S \in SUBSET Functions
      PROVE  (\A c \in callees : c[1] \in S => c[2] \in S) <=> (\A h \in S : CalleesOf(h) \cap Functions \subseteq S)
  <2>1. ASSUME \A c \in callees : c[1] \in S => c[2] \in S, NEW h \in S, NEW g \in CalleesOf(h) \cap Functions
        PROVE  g \in S
    <3>1. <<h, g>> \in callees
      BY <1>2, <2>1
    <3> QED BY <2>1, <3>1
  <2>2. ASSUME \A h \in S : CalleesOf(h) \cap Functions \subseteq S, NEW c \in callees, c[1] \in S
        PROVE  c[2] \in S
    <3>1. <<c[1], c[2]>> \in callees
      BY <1>3, <2>2
    <3> QED BY <1>2, <2>2, <3>1
  <2> QED BY <2>1, <2>2
<1> QED BY <1>1, <1>4

LEMMA WithinSteps ==
  ASSUME NEW f \in Functions
  PROVE  /\ f \in Reach(f) /\ Reach(f) \subseteq Functions
         /\ \A c \in CalleesOf(f) \cap Functions : Reach(c) \subseteq Reach(f)
         /\ \A S \in SUBSET Functions : f \in S /\ (\A h \in S : CalleesOf(h) \cap Functions \subseteq S) => Reach(f) \subseteq S
BY CallClosedIs DEF Reach, Within

\* Each set has what the function does by itself, and nothing that no function
\* within its reach does.
Lower == \A f \in Functions :
  /\ Direct(FnsOf(mod)[f]).keys \subseteq sets[f].keys /\ Direct(FnsOf(mod)[f]).reads \subseteq sets[f].reads
  /\ Direct(FnsOf(mod)[f]).all => sets[f].all

Upper == \A f \in Functions :
  /\ \A key \in sets[f].keys : \E g \in Reach(f) : key \in Direct(FnsOf(mod)[g]).keys
  /\ \A name \in sets[f].reads : \E g \in Reach(f) : name \in Direct(FnsOf(mod)[g]).reads
  /\ sets[f].all => \E g \in Reach(f) : Anything(g)

LEMMA BoundsStay ==
  ASSUME mod' = mod, sets' = sets, Lower, Upper
  PROVE  Lower' /\ Upper'
<1>1. /\ Functions' = Functions /\ \A f : Called(f)' = Called(f)
      /\ \A f : Reach(f)' = Reach(f) /\ Anything(f)' = Anything(f)
  BY DEF Functions, Called, CalleesOf, Reach, Within, CallClosed, Anything
<1> QED BY <1>1 DEF Lower, Upper

\* A callee adds what is within its reach (MergeWrites).
LEMMA BoundsMerge ==
  ASSUME SetsInv, MergeCallee, Lower, Upper
  PROVE  Lower' /\ Upper'
<1> DEFINE c == Called(caller)[nextCall]
           v == Merged(sets[caller], c)
<1>1. SetTypes /\ nextCall <= Len(Called(caller)) /\ sets' = [sets EXCEPT ![caller] = v] /\ mod' = mod
  BY DEF SetsInv, MergeCallee
<1>2. caller \in Functions /\ nextCall \in DOMAIN Called(caller) /\ sets = [f \in Functions |-> sets[f]]
  BY <1>1, ModuleFacts DEF SetTypes
<1>3. sets'[caller] = v /\ \A f \in Functions : f # caller => sets'[f] = sets[f]
  BY <1>1, <1>2
<1>4. /\ Functions' = Functions /\ \A f : Called(f)' = Called(f)
      /\ \A f : Reach(f)' = Reach(f) /\ Anything(f)' = Anything(f)
  BY <1>1 DEF Functions, Called, CalleesOf, Reach, Within, CallClosed, Anything
<1>5. CASE c \in Functions
  <2>1. v = [keys |-> sets[caller].keys \cup sets[c].keys, reads |-> sets[caller].reads \cup sets[c].reads,
             all |-> sets[caller].all \/ sets[c].all]
    BY <1>5 DEF Merged
  <2>2. v.keys = sets[caller].keys \cup sets[c].keys /\ v.reads = sets[caller].reads \cup sets[c].reads
        /\ (v.all <=> sets[caller].all \/ sets[c].all)
    <3>1. v.all = (sets[caller].all \/ sets[c].all)
      BY <2>1
    <3>2. v.keys = sets[caller].keys \cup sets[c].keys /\ v.reads = sets[caller].reads \cup sets[c].reads
      BY <2>1
    <3> QED BY <3>1, <3>2
  <2>3. Reach(c) \subseteq Reach(caller)
    BY <1>2, <1>5, WithinSteps DEF CalleesOf
  <2> HIDE DEF v, c
  <2>4. Lower'
    BY <1>1, <1>3, <1>4, <2>2 DEF Lower
  <2>5. Upper'
    BY <1>1, <1>3, <1>4, <1>5, <2>2, <2>3 DEF Upper
  <2> QED BY <2>4, <2>5
<1>6. CASE c \notin Functions
  <2>1. v = [sets[caller] EXCEPT !.all = TRUE] /\ IsFnWrites(sets[caller])
    BY <1>1, <1>2, <1>6 DEF Merged, SetTypes
  <2>2. v.keys = sets[caller].keys /\ v.reads = sets[caller].reads /\ v.all
    BY <2>1 DEF IsFnWrites
  <2>3. Anything(caller) /\ caller \in Reach(caller)
    BY <1>2, <1>6, WithinSteps DEF Anything, CalleesOf
  <2> HIDE DEF v, c
  <2>4. Lower'
    BY <1>1, <1>3, <1>4, <2>2 DEF Lower
  <2>5. Upper'
    BY <1>1, <1>3, <1>4, <2>2, <2>3 DEF Upper
  <2> QED BY <2>4, <2>5
<1> QED BY <1>5, <1>6

LEMMA BoundsStep == SetsInv /\ Lower /\ Upper /\ [SetsNext]_writeVars => Lower' /\ Upper'
<1> SUFFICES ASSUME SetsInv, Lower, Upper, [SetsNext]_writeVars PROVE Lower' /\ Upper'
  OBVIOUS
<1>1. CASE MergeCallee
  BY <1>1, BoundsMerge
<1>2. CASE ~MergeCallee
  <2>1. mod' = mod /\ sets' = sets
    BY <1>2 DEF SetsNext, Merge, NextFunction, EndPass, Enter, Leave, writeVars, setVars
  <2> QED BY <2>1, BoundsStay
<1> QED BY <1>1, <1>2

\* A set that is settled has what every function within reach does by itself.
LEMMA SettledHasAll ==
  ASSUME SetsInv, Lower, phase = "done", NEW f \in Functions, NEW g \in Reach(f)
  PROVE  /\ Direct(FnsOf(mod)[g]).keys \subseteq sets[f].keys /\ Direct(FnsOf(mod)[g]).reads \subseteq sets[f].reads
         /\ Anything(g) => sets[f].all
<1> DEFINE Less(h) == /\ sets[h].keys \subseteq sets[f].keys /\ sets[h].reads \subseteq sets[f].reads
                      /\ sets[h].all => sets[f].all
           S == {h \in Functions : Less(h)}
<1>1. ASSUME NEW h \in Functions, NEW k \in DOMAIN Called(h)
      PROVE  IF Called(h)[k] \in Functions
             THEN /\ sets[Called(h)[k]].keys \subseteq sets[h].keys /\ sets[Called(h)[k]].reads \subseteq sets[h].reads
                  /\ sets[Called(h)[k]].all => sets[h].all
             ELSE sets[h].all
  <2> DEFINE c == Called(h)[k]
  <2>1. Merged(sets[h], c) = sets[h] /\ IsFnWrites(sets[h])
    BY DEF SetsInv, AllSettled, Settled, SetTypes
  <2>2. CASE c \in Functions
    <3>1. sets[h] = [keys |-> sets[h].keys \cup sets[c].keys, reads |-> sets[h].reads \cup sets[c].reads,
                     all |-> sets[h].all \/ sets[c].all]
      BY <2>1, <2>2 DEF Merged
    <3>2. /\ sets[h].keys = sets[h].keys \cup sets[c].keys /\ sets[h].reads = sets[h].reads \cup sets[c].reads
          /\ sets[h].all = (sets[h].all \/ sets[c].all)
      BY <3>1
    <3> QED BY <2>2, <3>2
  <2>3. CASE c \notin Functions
    <3>1. sets[h] = [sets[h] EXCEPT !.all = TRUE]
      BY <2>1, <2>3 DEF Merged
    <3> QED BY <2>1, <2>3, <3>1 DEF IsFnWrites
  <2> QED BY <2>2, <2>3
<1>2. \A h \in S : CalleesOf(h) \cap Functions \subseteq S
  BY <1>1 DEF CalleesOf
<1>3. f \in S /\ S \in SUBSET Functions
  OBVIOUS
<1> HIDE DEF S
<1>4. g \in S
  BY <1>2, <1>3, WithinSteps
<1>5. g \in Functions /\ Less(g)
  BY <1>4 DEF S
<1>6. Anything(g) => sets[g].all
  BY <1>1, <1>5 DEF Anything, CalleesOf, Lower
<1> QED BY <1>5, <1>6 DEF Lower

LEMMA BoundsInit == SetsInit => Lower /\ Upper
<1> SUFFICES ASSUME SetsInit PROVE Lower /\ Upper
  OBVIOUS
<1>1. \A f \in Functions : sets[f] = Direct(FnsOf(mod)[f]) /\ f \in Reach(f)
  BY WithinSteps DEF SetsInit
<1> QED BY <1>1 DEF Lower, Upper, Anything

LEMMA BoundsMeet == SetsInv /\ Lower /\ Upper => SetsAreLeast
<1> SUFFICES ASSUME SetsInv, Lower, Upper, phase = "done", NEW f \in Functions
             PROVE  sets[f] = [keys  |-> UNION {Direct(FnsOf(mod)[g]).keys : g \in Reach(f)},
                               reads |-> UNION {Direct(FnsOf(mod)[g]).reads : g \in Reach(f)},
                               all   |-> \E g \in Reach(f) : Anything(g)]
  BY DEF SetsAreLeast, Reach
<1>1. sets[f].keys = UNION {Direct(FnsOf(mod)[g]).keys : g \in Reach(f)}
  BY SettledHasAll DEF Upper
<1>2. sets[f].reads = UNION {Direct(FnsOf(mod)[g]).reads : g \in Reach(f)}
  BY SettledHasAll DEF Upper
<1>3. sets[f].all = \E g \in Reach(f) : Anything(g)
  <2>1. sets[f].all <=> \E g \in Reach(f) : Anything(g)
    BY SettledHasAll DEF Upper
  <2>2. sets[f].all \in BOOLEAN
    BY DEF SetsInv, SetTypes, IsFnWrites
  <2> QED BY <2>1, <2>2
<1>4. sets[f] = [keys |-> sets[f].keys, reads |-> sets[f].reads, all |-> sets[f].all]
  BY DEF SetsInv, SetTypes, IsFnWrites
<1> QED BY <1>1, <1>2, <1>3, <1>4

\* What the passes end with is what the functions within reach do, no more and no
\* less, whatever the call graph.
THEOREM SetsAreLeastHolds == SetsSpec => []SetsAreLeast
BY BoundsInit, BoundsMeet, BoundsStep, Invariant, PTL DEF SetsSpec
=============================================================================
