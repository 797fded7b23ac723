--------------------------- MODULE JitMemory_proofs ---------------------------
(***************************************************************************)
(* For any numbers of compilers, handles and contexts, any programs, and   *)
(* whichever steps of a compile fail: the embedding API frees what it made *)
(* once, uses nothing that is gone and leaves nothing behind.              *)
(*                                                                         *)
(* First the contexts, for any globals: an @export body sees a context     *)
(* that lives and is of its handle, however contexts are made and          *)
(* destroyed, from inside one another too.                                 *)
(***************************************************************************)
EXTENDS JitInv, TLAPS

Frames == [k : Contexts, does : {"create", "destroy"}, next : Nat]

ContextTypes ==
  /\ contexts \in [Contexts -> ContextRecords \cup {Null}]
  /\ bound \in [Jits -> Contexts \cup {Null}]
  /\ running \in Seq(Frames)

\* What a create or destroy function works on is there, and it is the only one to.
RunningLive == \A n \in DOMAIN running : contexts[running[n].k] # Null
RunningOnce == \A m, n \in DOMAIN running : running[m].k = running[n].k => m = n

BoundInv == ContextTypes /\ RunningLive /\ RunningOnce /\ ExportBound

-----------------------------------------------------------------------------
\* A step that leaves the contexts alone keeps the invariant.
LEMMA UnchangedKeeps ==
  ASSUME BoundInv, UNCHANGED contextVars
  PROVE  BoundInv'
BY DEF BoundInv, ContextTypes, RunningLive, RunningOnce, ExportBound, contextVars

\* Each function on the stack works on a context.
LEMMA OnStackFacts ==
  ASSUME ContextTypes
  PROVE  \A n \in DOMAIN running : running[n].k \in Contexts
<1>1. \A n \in DOMAIN running : running[n] \in Frames
  BY DEF ContextTypes
<1> QED BY <1>1 DEF Frames

\* The function that runs is one of those on the stack, and returns to the one below.
LEMMA InnermostFacts ==
  ASSUME BoundInv, running # <<>>
  PROVE  /\ Len(running) \in DOMAIN running
         /\ Innermost \in Frames
         /\ contexts[Innermost.k] \in ContextRecords
         /\ Return \in Seq(Frames)
         /\ DOMAIN Return = DOMAIN running \ {Len(running)}
         /\ \A n \in DOMAIN Return : Return[n] = running[n]
         /\ \A next \in Nat : /\ Step(next) \in Seq(Frames) /\ DOMAIN Step(next) = DOMAIN running
                              /\ \A n \in DOMAIN running : Step(next)[n].k = running[n].k
<1>1. running \in Seq(Frames) /\ Len(running) \in Nat \ {0} /\ DOMAIN running = 1..Len(running)
  BY DEF BoundInv, ContextTypes
<1>2. Len(running) \in DOMAIN running /\ Innermost \in Frames
  BY <1>1 DEF Innermost
<1>3. contexts[Innermost.k] \in ContextRecords
  BY <1>2 DEF BoundInv, ContextTypes, RunningLive, Innermost, Frames
<1>4. /\ Return \in Seq(Frames)
      /\ DOMAIN Return = DOMAIN running \ {Len(running)}
      /\ \A n \in DOMAIN Return : Return[n] = running[n]
  BY <1>1 DEF Return
<1>5. ASSUME NEW next \in Nat
      PROVE  /\ Step(next) \in Seq(Frames) /\ DOMAIN Step(next) = DOMAIN running
             /\ \A n \in DOMAIN running : Step(next)[n].k = running[n].k
  <2>1. [running[Len(running)] EXCEPT !.next = next] \in Frames
    BY <1>2 DEF Innermost, Frames
  <2> QED BY <1>1, <1>2, <2>1 DEF Step
<1> QED BY <1>1, <1>2, <1>3, <1>4, <1>5

\* Storing in a field of a context that lives.
LEMMA FieldKeeps ==
  ASSUME ContextTypes, NEW k \in Contexts, contexts[k] # Null, NEW i \in DOMAIN Globals, NEW value \in Values,
         contexts' = [contexts EXCEPT ![k].field[i] = value]
  PROVE  /\ contexts' \in [Contexts -> ContextRecords \cup {Null}]
         /\ \A c \in Contexts : /\ contexts'[c] = Null <=> contexts[c] = Null
                                /\ contexts[c] # Null => contexts'[c].h = contexts[c].h
<1>1. contexts[k] \in ContextRecords
  BY DEF ContextTypes
<1>2. [contexts[k] EXCEPT !.field[i] = value] \in ContextRecords
  BY <1>1 DEF ContextRecords
<1>3. [contexts[k] EXCEPT !.field[i] = value].h = contexts[k].h
  BY <1>1 DEF ContextRecords
<1> QED BY <1>1, <1>2, <1>3, NullAssumption DEF ContextTypes

-----------------------------------------------------------------------------
\* The actions.

\* A new context is bound; nothing was bound to it or working on it.
LEMMA CreateKeeps ==
  ASSUME BoundInv, NEW h \in Jits, NEW k \in Contexts, ContextCreate(h, k)
  PROVE  BoundInv'
<1> DEFINE fresh == [h |-> h, field |-> [i \in DOMAIN Globals |-> Null]]
           frame == [k |-> k, does |-> "create", next |-> 1]
<1>1. /\ contexts[k] = Null /\ contexts' = [contexts EXCEPT ![k] = fresh]
      /\ bound' = [bound EXCEPT ![h] = k] /\ running' = Append(running, frame)
  BY DEF ContextCreate
<1>2. fresh \in ContextRecords /\ fresh # Null /\ fresh.h = h
  BY NullAssumption DEF ContextRecords, Values
<1>3. frame \in Frames
  BY DEF Frames
<1> HIDE DEF fresh
<1>4. ContextTypes'
  BY <1>1, <1>2, <1>3 DEF BoundInv, ContextTypes
<1>5. /\ \A n \in DOMAIN running : running[n].k \in Contexts /\ running[n].k # k /\ running'[n] = running[n]
      /\ DOMAIN running' = DOMAIN running \cup {Len(running) + 1}
      /\ running'[Len(running) + 1].k = k /\ Len(running) + 1 \notin DOMAIN running
  <2>1. running \in Seq(Frames) /\ \A n \in DOMAIN running : running[n].k \in Contexts /\ running[n].k # k
    BY <1>1, OnStackFacts DEF BoundInv, ContextTypes, RunningLive
  <2> QED BY <1>1, <1>3, <2>1
<1>6. RunningLive' /\ RunningOnce'
  BY <1>1, <1>2, <1>5 DEF BoundInv, ContextTypes, RunningLive, RunningOnce
<1>7. ExportBound'
  BY <1>1, <1>2 DEF BoundInv, ContextTypes, ExportBound
<1> QED BY <1>4, <1>6, <1>7 DEF BoundInv

\* The innermost function goes on to another global, having stored in a field or not.
LEMMA StepKeeps ==
  ASSUME BoundInv, running # <<>>, NEW next \in Nat, running' = Step(next), bound' = bound,
         contexts' \in [Contexts -> ContextRecords \cup {Null}],
         \A c \in Contexts : /\ contexts'[c] = Null <=> contexts[c] = Null
                             /\ contexts[c] # Null => contexts'[c].h = contexts[c].h
  PROVE  BoundInv'
<1>1. /\ running' \in Seq(Frames) /\ DOMAIN running' = DOMAIN running
      /\ \A n \in DOMAIN running : running'[n].k = running[n].k /\ running[n].k \in Contexts
  BY InnermostFacts, OnStackFacts DEF BoundInv
<1> QED BY <1>1 DEF BoundInv, ContextTypes, RunningLive, RunningOnce, ExportBound

\* So does a host function that stores in a context.
LEMMA StoreKeeps ==
  ASSUME BoundInv, UNCHANGED <<bound, running>>,
         contexts' \in [Contexts -> ContextRecords \cup {Null}],
         \A c \in Contexts : /\ contexts'[c] = Null <=> contexts[c] = Null
                             /\ contexts[c] # Null => contexts'[c].h = contexts[c].h
  PROVE  BoundInv'
<1>1. \A n \in DOMAIN running : running[n].k \in Contexts
  BY OnStackFacts DEF BoundInv
<1> QED BY <1>1 DEF BoundInv, ContextTypes, RunningLive, RunningOnce, ExportBound

\* A global of the context being made is built or stored (InitContextGlobal).
LEMMA InitKeeps ==
  ASSUME BoundInv, InitContextGlobal
  PROVE  BoundInv'
<1>1. running # <<>> /\ bound' = bound /\ running' = Step(Innermost.next + 1)
  BY DEF InitContextGlobal
<1>2. Innermost.k \in Contexts /\ Innermost.next + 1 \in Nat /\ contexts[Innermost.k] # Null
  BY <1>1, InnermostFacts, NullAssumption DEF Frames
<1>3. /\ contexts' \in [Contexts -> ContextRecords \cup {Null}]
      /\ \A c \in Contexts : /\ contexts'[c] = Null <=> contexts[c] = Null
                             /\ contexts[c] # Null => contexts'[c].h = contexts[c].h
  <2>1. CASE Innermost.next \in Owning
    <3>1. Innermost.next \in DOMAIN Globals /\ Value(Innermost.k, Innermost.next) \in Values
      BY <1>2, <2>1 DEF Owning, Values
    <3>2. contexts' = [contexts EXCEPT ![Innermost.k].field[Innermost.next] = Value(Innermost.k, Innermost.next)]
      BY <2>1 DEF InitContextGlobal
    <3> QED BY <1>2, <3>1, <3>2, FieldKeeps DEF BoundInv
  <2>2. CASE Innermost.next \notin Owning
    BY <2>2 DEF InitContextGlobal, BoundInv, ContextTypes
  <2> QED BY <2>1, <2>2
<1> QED BY <1>1, <1>2, <1>3, StepKeeps

\* A global of the context being destroyed is nulled and dropped (DropContextGlobal).
LEMMA DropKeeps ==
  ASSUME BoundInv, DropContextGlobal
  PROVE  BoundInv'
<1>1. running # <<>> /\ bound' = bound /\ running' = Step(Innermost.next - 1) /\ Innermost.next > 0
  BY DEF DropContextGlobal
<1>2. Innermost.k \in Contexts /\ Innermost.next - 1 \in Nat /\ contexts[Innermost.k] # Null
  BY <1>1, InnermostFacts, NullAssumption DEF Frames
<1>3. /\ contexts' \in [Contexts -> ContextRecords \cup {Null}]
      /\ \A c \in Contexts : /\ contexts'[c] = Null <=> contexts[c] = Null
                             /\ contexts[c] # Null => contexts'[c].h = contexts[c].h
  <2>1. CASE Innermost.next \in Owning
    <3>1. Innermost.next \in DOMAIN Globals /\ Null \in Values
      BY <2>1 DEF Owning, Values
    <3>2. contexts' = [contexts EXCEPT ![Innermost.k].field[Innermost.next] = Null]
      BY <2>1 DEF DropContextGlobal
    <3> QED BY <1>2, <3>1, <3>2, FieldKeeps DEF BoundInv
  <2>2. CASE Innermost.next \notin Owning
    BY <2>2 DEF DropContextGlobal, BoundInv, ContextTypes
  <2> QED BY <2>1, <2>2
<1> QED BY <1>1, <1>2, <1>3, StepKeeps

\* The create function returns.
LEMMA EndCreateKeeps ==
  ASSUME BoundInv, EndCreate
  PROVE  BoundInv'
<1>1. running # <<>> /\ running' = Return /\ UNCHANGED <<contexts, bound>>
  BY DEF EndCreate
<1> QED BY <1>1, InnermostFacts DEF BoundInv, ContextTypes, RunningLive, RunningOnce, ExportBound

\* A destroy function starts on a context no function works on.
LEMMA DestroyKeeps ==
  ASSUME BoundInv, NEW k \in Contexts, ContextDestroy(k)
  PROVE  BoundInv'
<1> DEFINE frame == [k |-> k, does |-> "destroy", next |-> Len(Globals)]
<1>1. /\ contexts[k] # Null /\ UNCHANGED <<contexts, bound>> /\ running' = Append(running, frame)
      /\ \A n \in DOMAIN running : running[n].k # k
  BY DEF ContextDestroy, OnStack
<1>2. frame \in Frames
  BY GlobalsAssumption DEF Frames
<1>3. /\ running' \in Seq(Frames) /\ DOMAIN running' = DOMAIN running \cup {Len(running) + 1}
      /\ running'[Len(running) + 1].k = k /\ Len(running) + 1 \notin DOMAIN running
      /\ \A n \in DOMAIN running : running'[n] = running[n]
  BY <1>1, <1>2 DEF BoundInv, ContextTypes
<1> QED BY <1>1, <1>3 DEF BoundInv, ContextTypes, RunningLive, RunningOnce, ExportBound

\* The context that goes is the innermost's only, and no other handle has it bound.
LEMMA EndDestroyKeeps ==
  ASSUME BoundInv, EndDestroy
  PROVE  BoundInv'
<1> DEFINE k == Innermost.k
           h == contexts[k].h
<1>1. /\ running # <<>> /\ running' = Return /\ contexts' = [contexts EXCEPT ![k] = Null]
      /\ bound' = [bound EXCEPT ![h] = IF @ = k THEN Null ELSE @]
  BY DEF EndDestroy
<1>2. k \in Contexts /\ h \in Jits
  BY <1>1, InnermostFacts DEF Frames, ContextRecords
<1>3. ContextTypes'
  BY <1>1, <1>2, InnermostFacts DEF BoundInv, ContextTypes
<1>4. \A n \in DOMAIN running' : /\ n \in DOMAIN running /\ running'[n] = running[n]
                                 /\ running[n].k \in Contexts /\ running[n].k # k
  BY <1>1, InnermostFacts, OnStackFacts DEF BoundInv, RunningOnce, Innermost
<1>5. RunningLive' /\ RunningOnce'
  BY <1>1, <1>2, <1>4 DEF BoundInv, ContextTypes, RunningLive, RunningOnce
<1>6. ExportBound'
  BY <1>1, <1>2 DEF BoundInv, ContextTypes, ExportBound
<1> QED BY <1>3, <1>5, <1>6 DEF BoundInv

\* A function run against a context stores in it.
LEMMA CallKeeps ==
  ASSUME BoundInv, NEW k \in Contexts, contexts[k] # Null, NEW i \in Owning, NEW value \in {Null, Value(k, i)},
         SetGlobal(k, i, value)
  PROVE  BoundInv'
<1>1. i \in DOMAIN Globals /\ value \in Values
  BY DEF Owning, Values
<1>2. contexts' = [contexts EXCEPT ![k].field[i] = value] /\ UNCHANGED <<bound, running>>
  BY DEF SetGlobal
<1> QED BY <1>1, <1>2, FieldKeeps, StoreKeeps DEF BoundInv

-----------------------------------------------------------------------------
\* At first there is no context.
LEMMA InitHolds == Init => BoundInv
BY DEF Init, BoundInv, ContextTypes, RunningLive, RunningOnce, ExportBound

\* Every step keeps the invariant.
LEMMA NextKeeps == BoundInv /\ [Next]_vars => BoundInv'
<1> SUFFICES ASSUME BoundInv, [Next]_vars PROVE BoundInv'
  OBVIOUS
<1>1. CASE UNCHANGED vars
  BY <1>1, UnchangedKeeps DEF vars, contextVars
<1>2. CASE Host
  BY <1>2, UnchangedKeeps DEF Host
<1>3. ASSUME NEW h \in Jits, NEW k \in Contexts, ContextCreate(h, k) PROVE BoundInv'
  BY <1>3, CreateKeeps
<1>4. ASSUME NEW k \in Contexts, ContextDestroy(k) PROVE BoundInv'
  BY <1>4, DestroyKeeps
<1>5. ASSUME NEW i \in Owning, NEW k \in Contexts, NEW value \in {Null, Value(k, i)}, Call(k, i, value)
      PROVE  BoundInv'
  BY <1>5, CallKeeps DEF Call
<1>6. ASSUME NEW i \in Owning, NEW h \in Jits, NEW empty \in BOOLEAN, ExportCall(h, i, empty)
      PROVE  BoundInv'
  <2>1. bound[h] \in Contexts /\ contexts[bound[h]] # Null
    BY <1>6 DEF ExportCall, BoundInv, ContextTypes, ExportBound
  <2>2. If(~empty, Value(bound[h], i)) \in {Null, Value(bound[h], i)}
    BY DEF If
  <2>3. SetGlobal(bound[h], i, If(~empty, Value(bound[h], i)))
    BY <1>6 DEF ExportCall
  <2> QED BY <2>1, <2>2, <2>3, CallKeeps
<1>7. CASE Generated
  BY <1>3, <1>4, <1>5, <1>6, <1>7, InitKeeps, EndCreateKeeps, DropKeeps, EndDestroyKeeps DEF Generated
<1> QED BY <1>1, <1>2, <1>7 DEF Next

\* Each create and destroy function works on a context that lives and that no other works on.
THEOREM ContextsLive == Spec => []BoundInv
BY InitHolds, NextKeeps, PTL DEF Spec

\* An @export body never sees a context that is gone, or one of another handle.
THEOREM ExportBoundHolds == Spec => []ExportBound
<1>1. BoundInv => ExportBound
  BY DEF BoundInv
<1> QED BY <1>1, ContextsLive, PTL

-----------------------------------------------------------------------------
\* What a list of frees gives back.

LEMMA GoneShort ==
  /\ Gone(<<>>) = {} /\ ~Twice(<<>>)
  /\ \A a : Gone(<<a>>) = NonNull({a}) /\ ~Twice(<<a>>)
  /\ \A a, b : /\ Gone(<<a, b>>) = NonNull({a, b})
               /\ (a = b => a = Null) => ~Twice(<<a, b>>)
<1>1. Gone(<<>>) = {} /\ ~Twice(<<>>)
  BY DEF Gone, Twice, NonNull
<1>2. ASSUME NEW a PROVE Gone(<<a>>) = NonNull({a}) /\ ~Twice(<<a>>)
  <2>1. DOMAIN <<a>> = {1} /\ <<a>>[1] = a
    OBVIOUS
  <2> QED BY <2>1 DEF Gone, Twice, NonNull
<1>3. ASSUME NEW a, NEW b
      PROVE  /\ Gone(<<a, b>>) = NonNull({a, b})
             /\ (a = b => a = Null) => ~Twice(<<a, b>>)
  <2>1. DOMAIN <<a, b>> = {1, 2} /\ <<a, b>>[1] = a /\ <<a, b>>[2] = b
    OBVIOUS
  <2> QED BY <2>1 DEF Gone, Twice, NonNull
<1> QED BY <1>1, <1>2, <1>3

LEMMA GoneLong ==
  /\ \A a, b, c : /\ Gone(<<a, b, c>>) = NonNull({a, b, c})
                  /\ (a = b \/ a = c => a = Null) /\ (b = c => b = Null) => ~Twice(<<a, b, c>>)
  /\ \A a, b, c, d :
       /\ Gone(<<a, b, c, d>>) = NonNull({a, b, c, d})
       /\ (a = b \/ a = c \/ a = d => a = Null) /\ (b = c \/ b = d => b = Null) /\ (c = d => c = Null)
            => ~Twice(<<a, b, c, d>>)
  /\ \A a, b, c, d, e :
       /\ Gone(<<a, b, c, d, e>>) = NonNull({a, b, c, d, e})
       /\ (/\ a = b \/ a = c \/ a = d \/ a = e => a = Null
           /\ b = c \/ b = d \/ b = e => b = Null
           /\ c = d \/ c = e => c = Null
           /\ d = e => d = Null)
            => ~Twice(<<a, b, c, d, e>>)
<1>1. ASSUME NEW a, NEW b, NEW c
      PROVE  /\ Gone(<<a, b, c>>) = NonNull({a, b, c})
             /\ (a = b \/ a = c => a = Null) /\ (b = c => b = Null) => ~Twice(<<a, b, c>>)
  <2>1. DOMAIN <<a, b, c>> = {1, 2, 3} /\ <<a, b, c>>[1] = a /\ <<a, b, c>>[2] = b /\ <<a, b, c>>[3] = c
    OBVIOUS
  <2> QED BY <2>1 DEF Gone, Twice, NonNull
<1>2. ASSUME NEW a, NEW b, NEW c, NEW d
      PROVE  /\ Gone(<<a, b, c, d>>) = NonNull({a, b, c, d})
             /\ (a = b \/ a = c \/ a = d => a = Null) /\ (b = c \/ b = d => b = Null) /\ (c = d => c = Null)
                  => ~Twice(<<a, b, c, d>>)
  <2>1. /\ DOMAIN <<a, b, c, d>> = {1, 2, 3, 4} /\ <<a, b, c, d>>[1] = a /\ <<a, b, c, d>>[2] = b
        /\ <<a, b, c, d>>[3] = c /\ <<a, b, c, d>>[4] = d
    OBVIOUS
  <2> QED BY <2>1 DEF Gone, Twice, NonNull
<1>3. ASSUME NEW a, NEW b, NEW c, NEW d, NEW e
      PROVE  /\ Gone(<<a, b, c, d, e>>) = NonNull({a, b, c, d, e})
             /\ (/\ a = b \/ a = c \/ a = d \/ a = e => a = Null
                 /\ b = c \/ b = d \/ b = e => b = Null
                 /\ c = d \/ c = e => c = Null
                 /\ d = e => d = Null)
                  => ~Twice(<<a, b, c, d, e>>)
  <2>1. /\ DOMAIN <<a, b, c, d, e>> = {1, 2, 3, 4, 5} /\ <<a, b, c, d, e>>[1] = a /\ <<a, b, c, d, e>>[2] = b
        /\ <<a, b, c, d, e>>[3] = c /\ <<a, b, c, d, e>>[4] = d /\ <<a, b, c, d, e>>[5] = e
    OBVIOUS
  <2>2. Gone(<<a, b, c, d, e>>) = NonNull({a, b, c, d, e})
    BY <2>1 DEF Gone, NonNull
  <2>3. ASSUME /\ a = b \/ a = c \/ a = d \/ a = e => a = Null
               /\ b = c \/ b = d \/ b = e => b = Null
               /\ c = d \/ c = e => c = Null
               /\ d = e => d = Null
        PROVE  ~Twice(<<a, b, c, d, e>>)
    <3> SUFFICES ASSUME NEW i \in {1, 2, 3, 4, 5}, NEW j \in {1, 2, 3, 4, 5}, i # j,
                        <<a, b, c, d, e>>[i] # Null, <<a, b, c, d, e>>[i] = <<a, b, c, d, e>>[j]
                 PROVE  FALSE
      BY <2>1 DEF Twice
    <3> QED BY <2>1, <2>3
  <2> QED BY <2>2, <2>3
<1> QED BY <1>1, <1>2, <1>3

LEMMA GoneConcat ==
  ASSUME NEW S, NEW s \in Seq(S), NEW t \in Seq(S)
  PROVE  /\ s \o t \in Seq(S)
         /\ Gone(s \o t) = Gone(s) \cup Gone(t)
         /\ ~Twice(s) /\ ~Twice(t) /\ Gone(s) \cap Gone(t) = {} => ~Twice(s \o t)
<1> DEFINE u == s \o t
<1>1. /\ u \in Seq(S) /\ Len(s) \in Nat /\ Len(t) \in Nat /\ DOMAIN s = 1..Len(s) /\ DOMAIN t = 1..Len(t)
      /\ DOMAIN u = 1..(Len(s) + Len(t))
      /\ \A i \in 1..Len(s) : u[i] = s[i]
      /\ \A i \in 1..Len(t) : u[i + Len(s)] = t[i]
  OBVIOUS
<1>2. \A i \in DOMAIN u : \/ i \in DOMAIN s /\ u[i] = s[i]
                          \/ i - Len(s) \in DOMAIN t /\ u[i] = t[i - Len(s)] /\ i > Len(s)
  <2> SUFFICES ASSUME NEW i \in DOMAIN u, i \notin DOMAIN s
               PROVE  i - Len(s) \in DOMAIN t /\ u[i] = t[i - Len(s)] /\ i > Len(s)
    BY <1>1
  <2>1. i \in Nat /\ i > Len(s) /\ i <= Len(s) + Len(t)
    BY <1>1
  <2>2. i - Len(s) \in 1..Len(t) /\ (i - Len(s)) + Len(s) = i
    BY <1>1, <2>1
  <2> QED BY <1>1, <2>1, <2>2
<1> HIDE DEF u
<1>3. Gone(u) = Gone(s) \cup Gone(t)
  <2>1. Gone(u) \subseteq Gone(s) \cup Gone(t)
    BY <1>2 DEF Gone, NonNull
  <2>2. Gone(s) \subseteq Gone(u)
    BY <1>1 DEF Gone, NonNull
  <2>3. \A i \in 1..Len(t) : i + Len(s) \in DOMAIN u
    BY <1>1
  <2>4. Gone(t) \subseteq Gone(u)
    BY <1>1, <2>3 DEF Gone, NonNull
  <2> QED BY <2>1, <2>2, <2>4
<1>4. ASSUME ~Twice(s), ~Twice(t), Gone(s) \cap Gone(t) = {} PROVE ~Twice(u)
  <2> SUFFICES ASSUME NEW i \in DOMAIN u, NEW j \in DOMAIN u, i # j, u[i] # Null, u[i] = u[j] PROVE FALSE
    BY DEF Twice
  <2>1. CASE i \in DOMAIN s /\ u[i] = s[i] /\ j \in DOMAIN s /\ u[j] = s[j]
    BY <1>4, <2>1 DEF Twice
  <2>2. CASE /\ i - Len(s) \in DOMAIN t /\ u[i] = t[i - Len(s)] /\ i > Len(s)
             /\ j - Len(s) \in DOMAIN t /\ u[j] = t[j - Len(s)] /\ j > Len(s)
    <3>1. i - Len(s) # j - Len(s)
      BY <1>1
    <3> QED BY <1>4, <2>2, <3>1 DEF Twice
  <2>3. ASSUME NEW x \in DOMAIN s, NEW y \in DOMAIN t, s[x] = t[y], s[x] # Null PROVE FALSE
    BY <1>4, <2>3 DEF Gone, NonNull
  <2> QED BY <1>2, <2>1, <2>2, <2>3
<1> QED BY <1>1, <1>3, <1>4 DEF u

\* A step that uses and frees what is there, each once, and makes what is not.
LEMMA HeapStep ==
  ASSUME NEW used, NEW freed, NEW made, Heap(used, freed, made), misused = FALSE,
         used \subseteq heap, Gone(freed) \subseteq heap, ~Twice(freed), made \cap (heap \ Gone(freed)) = {}
  PROVE  misused' = FALSE /\ heap' = (heap \ Gone(freed)) \cup made
BY DEF Heap

\* Such a step that frees nothing.
LEMMA HeapMakes ==
  ASSUME NEW used, NEW made, Heap(used, <<>>, made), misused = FALSE, used \subseteq heap, made \cap heap = {}
  PROVE  misused' = FALSE /\ heap' = (heap \ {}) \cup made
BY GoneShort DEF Heap

-----------------------------------------------------------------------------
\* The kinds of objects.

\* What belongs to a compile for h: the handle and the module made for it, its
\* own objects, and the texts it gives the host.
ObjectsFor(h) == (HandleKinds \X {h}) \cup CallObjects \cup TextObjects

LEMMA KindFacts ==
  /\ \A x \in CompilerObjects : x[1] \in CompilerKinds
  /\ \A x \in HandleObjects   : x[1] \in HandleKinds
  /\ \A x \in CallObjects     : x[1] \in CallKinds
  /\ \A x \in ContextObjects  : x[1] \in ContextKinds
  /\ \A x \in TextObjects     : x[1] = "text"
BY DEF CompilerObjects, HandleObjects, CallObjects, ContextObjects, TextObjects,
       CompilerKinds, HandleKinds, CallKinds, ContextKinds

\* Slots are about objects of their kind.
LEMMA CompilerSlotsKept ==
  ASSUME CompilerSlots, MemoryTypes, compilers' = compilers, NEW gone, NEW made, heap' = (heap \ gone) \cup made,
         \A x \in gone \cup made : x[1] \notin CompilerKinds
  PROVE  CompilerSlots'
<1>1. \A x : x[1] \in CompilerKinds => (x \in heap' <=> x \in heap)
  OBVIOUS
<1>2. \A c \in Compilers :
        /\ <<"compiler", c>>[1] \in CompilerKinds
        /\ \A p : <<"prefix", c, p>>[1] \in CompilerKinds
        /\ \A n : <<"dirs", c, n>>[1] \in CompilerKinds
        /\ \A d : <<"dir", c, d>>[1] \in CompilerKinds
  BY DEF CompilerKinds
<1> QED BY <1>1, <1>2 DEF CompilerSlots, CompilerHas

LEMMA ContextSlotsKept ==
  ASSUME ContextSlots, contexts' = contexts, NEW gone, NEW made, heap' = (heap \ gone) \cup made,
         \A x \in gone \cup made : x[1] \notin ContextKinds
  PROVE  ContextSlots'
<1>1. \A x : x[1] \in ContextKinds => (x \in heap' <=> x \in heap)
  OBVIOUS
<1>2. \A k \in Contexts :
        /\ <<"context", k>>[1] \in ContextKinds
        /\ \A i : Value(k, i)[1] \in ContextKinds
  BY DEF ContextKinds, Value
<1> QED BY <1>1, <1>2 DEF ContextSlots, ContextHas

\* The slots of h are about objects of h.
LEMMA SlotsKept ==
  ASSUME NEW h, NEW r, NEW b, SlotsOf(h, r, b), NEW gone, NEW made, heap' = (heap \ gone) \cup made,
         \A x \in gone \cup made : ~(x[1] \in HandleKinds /\ x[2] = h)
  PROVE  \A s, c : s = r /\ c = b => SlotsOf(h, s, c)'
<1>1. \A x : x[1] \in HandleKinds /\ x[2] = h => (x \in heap' <=> x \in heap)
  OBVIOUS
<1>2. \A kind \in HandleKinds : <<kind, h>> \in heap' <=> <<kind, h>> \in heap
  BY <1>1
<1> QED BY <1>2 DEF SlotsOf, HandleKinds

\* A step of a compile touches what belongs to it, and leaves the rest as it is.
MySlots == SlotsOf(call.h, call.handle, call.built)

LEMMA CallStep ==
  ASSUME MemoryInv, call # Null, UNCHANGED <<compilers, jits, contexts, running>>, misused' = FALSE,
         NEW gone \in SUBSET ObjectsFor(call.h), NEW made \in SUBSET ObjectsFor(call.h),
         heap' = (heap \ gone) \cup made,
         call' \in CallsOf(call.h), MySlots', CallSlots', TextSlots', PcInv', MakingInv'
  PROVE  MemoryInv'
<1>1. call.h \in Targets /\ call' # Null /\ call'.h = call.h
  BY ObjectsAssumption DEF MemoryInv, MemoryTypes, CallsOf
<1>2. \A x \in gone \cup made : /\ x[1] \notin CompilerKinds \cup ContextKinds
                                /\ x[1] \in HandleKinds => x[2] = call.h
  <2>1. \A x \in ObjectsFor(call.h) : \/ x[1] \in HandleKinds /\ x[2] = call.h
                                      \/ x[1] \in CallKinds \cup {"text"}
    BY KindFacts DEF ObjectsFor
  <2>2. \A kind \in HandleKinds \cup CallKinds \cup {"text"} : kind \notin CompilerKinds \cup ContextKinds
    BY DEF HandleKinds, CallKinds, CompilerKinds, ContextKinds
  <2>3. \A kind \in CallKinds \cup {"text"} : kind \notin HandleKinds
    BY DEF HandleKinds, CallKinds
  <2> QED BY <2>1, <2>2, <2>3
<1>3. CompilerSlots' /\ ContextSlots'
  BY <1>2, CompilerSlotsKept, ContextSlotsKept DEF MemoryInv
<1>4. HandleSlots'
  <2> SUFFICES ASSUME NEW h \in Targets, h # call.h PROVE SlotsOf(h, IdleHandle(h), NoBuilt)'
    BY <1>1 DEF HandleSlots, InCall, MySlots
  <2>1. SlotsOf(h, IdleHandle(h), NoBuilt)
    BY DEF MemoryInv, HandleSlots, InCall
  <2>2. IdleHandle(h)' = IdleHandle(h) /\ NoBuilt' = NoBuilt
    BY DEF IdleHandle, NoHandle, NoBuilt
  <2>3. \A x \in gone \cup made : ~(x[1] \in HandleKinds /\ x[2] = h)
    BY <1>2
  <2> QED BY <2>1, <2>2, <2>3, SlotsKept
<1>5. heap' \subseteq Objects
  <2>1. ObjectsFor(call.h) \subseteq Objects
    BY <1>1 DEF ObjectsFor, Objects, HandleObjects
  <2> QED BY <2>1 DEF MemoryInv
<1>6. MemoryTypes'
  BY <1>1 DEF MemoryInv, MemoryTypes
<1>7. PublishedInv' /\ FieldInv' /\ FrameInv'
  BY DEF MemoryInv, PublishedInv, FieldInv, FrameInv
<1> QED BY <1>3, <1>4, <1>5, <1>6, <1>7 DEF MemoryInv

-----------------------------------------------------------------------------
\* The steps of a compile.

\* Nothing is NULL only.
LEMMA NothingBuilt ==
  /\ NoBuilt.mod = Null /\ NoBuilt.ctx = Null /\ NoBuilt.externs = Null /\ NoBuilt.metadata = Null
  /\ NoHandle.self = Null /\ NoHandle.backend = Null /\ NoHandle.exports = Null /\ NoHandle.lljit = Null
  /\ NoHandle.externs = Null /\ NoHandle.metadata = Null /\ NoHandle.diagnostics = Null
  /\ NoHandle.prefixText = Null
BY DEF NoBuilt, NoHandle

LEMMA NothingTyped == \A h : NoBuilt \in BuiltsOf(h) /\ NoHandle \in HandlesOf(h)
BY HostAssumption DEF NoBuilt, BuiltsOf, NoHandle, HandlesOf, Opt

\* What there is while a compile for h is at work, and what is not NULL.
LEMMA CallFacts ==
  ASSUME MemoryInv, call # Null
  PROVE  /\ call.h \in Targets /\ call.c \in Compilers /\ call \in CallsOf(call.h)
         /\ MySlots /\ CallSlots /\ TextSlots /\ PcInv /\ MakingInv /\ CompilerSlots /\ misused = FALSE
         /\ compilers[call.c] \in CompilerRecords
         /\ Null \notin ObjectsFor(call.h) \cup CallsOf(call.h)
         /\ \A kind \in HandleKinds : <<kind, call.h>> \in ObjectsFor(call.h)
         /\ \A kind \in CallKinds : <<kind, "call">> \in ObjectsFor(call.h)
         /\ TextObjects \subseteq ObjectsFor(call.h)
<1>1. call.h \in Targets /\ call \in CallsOf(call.h) /\ misused = FALSE
  BY DEF MemoryInv, MemoryTypes
<1>2. call.c \in Compilers
  BY <1>1 DEF CallsOf
<1>3. MySlots
  BY <1>1 DEF MemoryInv, HandleSlots, InCall, MySlots
<1>4. compilers[call.c] \in CompilerRecords
  BY <1>2 DEF MemoryInv, MemoryTypes, PcInv
<1>5. ObjectsFor(call.h) \subseteq Objects
  BY <1>1 DEF ObjectsFor, Objects, HandleObjects
<1>6. /\ \A kind \in HandleKinds : <<kind, call.h>> \in ObjectsFor(call.h)
      /\ \A kind \in CallKinds : <<kind, "call">> \in ObjectsFor(call.h)
      /\ TextObjects \subseteq ObjectsFor(call.h)
  BY DEF ObjectsFor, CallObjects
<1> QED BY <1>1, <1>2, <1>3, <1>4, <1>5, <1>6, ObjectsAssumption DEF MemoryInv

\* The settings a compile reads are there (NULL ones are not used).
LEMMA SettingsThere ==
  ASSUME CompilerSlots, NEW c \in Compilers, compilers[c] \in CompilerRecords
  PROVE  NonNull({PrefixOf(c)}) \subseteq heap /\ NonNull({DirsOf(c)}) \subseteq heap
<1>1. compilers[c] # Null
  BY ObjectsAssumption
<1>2. compilers[c].prefix \in Prefixes /\ compilers[c].dirs \in 0..MaxDirs
  BY DEF CompilerRecords
<1>3. CompilerHas(c)
  BY DEF CompilerSlots
<1>4. NonNull({PrefixOf(c)}) \subseteq heap
  <2>1. CASE compilers[c].prefix = ""
    BY <2>1 DEF NonNull, PrefixOf, If
  <2>2. CASE compilers[c].prefix # ""
    <3>1. <<"prefix", c, compilers[c].prefix>> \in heap
      BY <1>1, <1>2, <1>3, <2>2 DEF CompilerHas
    <3> QED BY <2>2, <3>1 DEF NonNull, PrefixOf, If
  <2> QED BY <2>1, <2>2
<1>5. NonNull({DirsOf(c)}) \subseteq heap
  <2>1. CASE compilers[c].dirs = 0
    BY <2>1 DEF NonNull, DirsOf, If
  <2>2. CASE compilers[c].dirs > 0
    <3>1. <<"dirs", c, compilers[c].dirs>> \in heap
      BY <1>1, <1>2, <1>3, <2>2 DEF CompilerHas
    <3> QED BY <2>2, <3>1 DEF NonNull, DirsOf, If
  <2> QED BY <1>2, <2>1, <2>2
<1> QED BY <1>4, <1>5

LEMMA AnalyzeKeeps ==
  ASSUME MemoryInv, NEW parsed \in BOOLEAN, NEW errors \in BOOLEAN, AnalyzeModule(parsed, errors),
         UNCHANGED contextVars
  PROVE  MemoryInv'
<1> DEFINE ast  == If(parsed, <<"ast", "call">>)
           used == NonNull({If(call.loads /\ ~call.hosted, call.dirs)})
<1>1. call # Null /\ call.pc = "load" /\ Heap(used, <<>>, NonNull({ast}))
  BY DEF AnalyzeModule, At
<1>2. call' = [call EXCEPT !.pc = "analyzed", !.errors = errors, !.mod = ast, !.prefix = compilers[call.c].prefix]
      /\ UNCHANGED <<compilers, jits, contexts, running>>
  BY DEF AnalyzeModule, contextVars
<1>3. used \subseteq heap
  <2>1. call.loads /\ ~call.hosted => call.dirs = DirsOf(call.c)
    BY <1>1, CallFacts DEF PcInv
  <2>2. NonNull({DirsOf(call.c)}) \subseteq heap /\ NonNull({Null}) = {}
    BY <1>1, CallFacts, SettingsThere DEF NonNull
  <2> QED BY <2>1, <2>2 DEF If
<1>4. NonNull({ast}) \cap heap = {} /\ NonNull({ast}) \in SUBSET ObjectsFor(call.h) /\ ast \in Opt(<<"ast", "call">>)
  BY <1>1, CallFacts DEF PcInv, CallSlots, NonNull, If, CallKinds, Opt
<1>5. misused' = FALSE /\ heap' = (heap \ {}) \cup NonNull({ast})
  BY <1>1, <1>3, <1>4, HeapMakes, CallFacts
<1>6. call' \in CallsOf(call.h)
  BY <1>1, <1>2, <1>4, CallFacts DEF CallsOf, CompilerRecords, Point
<1>7. MySlots'
  BY <1>1, <1>2, <1>5, CallFacts DEF MySlots, SlotsOf, NonNull, If, CallsOf
<1>8. CallSlots'
  <2>1. call' # Null /\ call'.mod = ast /\ call'.ir = call.ir /\ call'.machine = call.machine
        /\ call'.triple = call.triple /\ call'.error = call.error
    BY <1>1, <1>2, <1>6, CallFacts DEF CallsOf
  <2>2. \A kind \in CallKinds : <<kind, "call">> \in heap' <=> <<kind, "call">> \in heap \/ (kind = "ast" /\ parsed)
    BY <1>1, <1>5, CallFacts DEF NonNull, If
  <2>3. parsed <=> ast # Null
    BY <1>1, CallFacts DEF CallKinds, If
  <2> QED BY <1>1, <2>1, <2>2, <2>3, CallFacts DEF CallSlots, CallKinds, PcInv
<1>9. TextSlots'
  BY <1>1, <1>2, <1>5, CallFacts DEF TextSlots, HostTexts, NonNull, If, CallsOf
<1>10. PcInv' /\ MakingInv'
  BY <1>1, <1>2, <1>6, CallFacts DEF PcInv, MakingInv, Making, Loading, CallsOf, If
<1> QED BY <1>1, <1>2, <1>4, <1>5, <1>6, <1>7, <1>8, <1>9, <1>10, CallStep

\* A step that leaves the objects of the compile, or those of the handle and the module, alone.
LEMMA CallSlotsKept ==
  ASSUME MemoryInv, call # Null, call' # Null, NEW gone, NEW made, heap' = (heap \ gone) \cup made,
         \A kind \in CallKinds : <<kind, "call">> \notin gone \cup made,
         call'.mod = call.mod, call'.ir = call.ir, call'.machine = call.machine, call'.triple = call.triple,
         call'.error = call.error
  PROVE  CallSlots'
<1>1. \A kind \in CallKinds : <<kind, "call">> \in heap' <=> <<kind, "call">> \in heap
  OBVIOUS
<1> QED BY <1>1 DEF MemoryInv, CallSlots, CallKinds

LEMMA MySlotsKept ==
  ASSUME MemoryInv, call # Null, NEW gone, NEW made, heap' = (heap \ gone) \cup made,
         \A x \in gone \cup made : x[1] \notin HandleKinds,
         call'.h = call.h, call'.handle = call.handle, call'.built = call.built
  PROVE  MySlots'
<1>1. \A kind \in HandleKinds : <<kind, call.h>> \in heap' <=> <<kind, call.h>> \in heap
  OBVIOUS
<1> QED BY <1>1, CallFacts DEF MySlots, SlotsOf, HandleKinds

\* A step that goes on to another point, making texts for the host at most.
LEMMA GoStep ==
  ASSUME MemoryInv, call # Null, NEW pc \in Point, GoTo(pc), UNCHANGED <<compilers, jits, contexts, running>>,
         misused' = FALSE, NEW made \in SUBSET TextObjects, heap' = (heap \ {}) \cup made,
         TextSlots', PcInv', MakingInv'
  PROVE  MemoryInv'
<1>1. call' = [call EXCEPT !.pc = pc] /\ call' \in CallsOf(call.h) /\ made \in SUBSET ObjectsFor(call.h)
  BY CallFacts DEF GoTo, CallsOf
<1>2. \A x \in TextObjects : x[1] \notin HandleKinds \cup CallKinds
  BY KindFacts DEF HandleKinds, CallKinds
<1>3. MySlots'
  <2>1. /\ call'.h = call.h /\ call'.handle = call.handle /\ call'.built = call.built
    BY <1>1, CallFacts DEF CallsOf
  <2> QED BY <1>2, <2>1, MySlotsKept
<1>4. CallSlots'
  <2>1. /\ call' # Null /\ call'.mod = call.mod /\ call'.ir = call.ir /\ call'.machine = call.machine
        /\ call'.triple = call.triple /\ call'.error = call.error
    BY <1>1, CallFacts DEF CallsOf
  <2>2. \A kind \in CallKinds : <<kind, "call">> \notin made
    BY <1>2
  <2> QED BY <2>1, <2>2, CallSlotsKept
<1> QED BY <1>1, <1>3, <1>4, CallStep

LEMMA ContinueKeeps ==
  ASSUME MemoryInv, Continue \/ SkipOutput, UNCHANGED contextVars
  PROVE  MemoryInv'
<1>1. call # Null /\ call.pc = "analyzed" /\ UNCHANGED <<heap, misused, compilers, jits, contexts, running>>
  BY DEF Continue, SkipOutput, At, contextVars
<1>2. PICK pc \in {"build", "result"} : GoTo(pc) /\ (pc = "build" => call.mod # Null) /\ (pc = "result" => call.op = "text")
  BY DEF Continue, SkipOutput, Fails
<1>3. call' = [call EXCEPT !.pc = pc] /\ call \in CallsOf(call.h)
  BY <1>1, <1>2, CallFacts DEF GoTo, CallsOf
<1>4. TextSlots'
  BY <1>1, <1>2, CallFacts DEF TextSlots, HostTexts, CallsOf
<1>5. PcInv' /\ MakingInv'
  BY <1>1, <1>2, <1>3, CallFacts DEF PcInv, MakingInv, Making, Loading, CallsOf
<1>6. pc \in Point /\ misused' = FALSE /\ heap' = (heap \ {}) \cup {} /\ {} \in SUBSET TextObjects
  BY <1>1, CallFacts DEF Point
<1> QED BY <1>1, <1>2, <1>4, <1>5, <1>6, GoStep

LEMMA StopKeeps ==
  ASSUME MemoryInv, StopAtErrors, UNCHANGED contextVars
  PROVE  MemoryInv'
<1>1. /\ call # Null /\ call.pc = "analyzed" /\ Heap({}, <<>>, {Error}) /\ GoTo("teardown")
      /\ UNCHANGED <<compilers, jits, contexts, running>>
  BY DEF StopAtErrors, At, contextVars
<1>2. {Error} \cap heap = {} /\ {Error} \in SUBSET TextObjects
  BY <1>1, CallFacts DEF TextSlots, HostTexts, Error, TextObjects
<1>3. misused' = FALSE /\ heap' = (heap \ {}) \cup {Error}
  BY <1>1, <1>2, HeapMakes, CallFacts
<1>4. call' = [call EXCEPT !.pc = "teardown"]
  BY <1>1 DEF GoTo
<1>5. TextSlots'
  BY <1>1, <1>3, <1>4, CallFacts DEF TextSlots, CallsOf, Error
<1>6. PcInv' /\ MakingInv'
  BY <1>1, <1>4, CallFacts DEF PcInv, MakingInv, Making, Loading, CallsOf
<1> QED BY <1>1, <1>2, <1>3, <1>5, <1>6, GoStep DEF Point

\* The module that is built is all of its objects.
LEMMA BuildKeeps ==
  ASSUME MemoryInv, NEW has \in Programs, NEW errors \in BOOLEAN, BuildLlvmModuleEx(has, errors),
         UNCHANGED contextVars
  PROVE  MemoryInv'
<1> DEFINE built == [mod |-> <<"module", call.h>>, ctx |-> <<"llcontext", call.h>>,
                     externs |-> If("externs" \in has, <<"names", call.h>>),
                     metadata |-> If("components" \in has, <<"metadata", call.h>>)]
           made  == NonNull({built.mod, built.ctx, built.externs, built.metadata})
           next  == IF call.op = "text" THEN "print" ELSE IF errors THEN "buildfailed"
                    ELSE IF call.op = "jit" THEN "handle" ELSE "target"
           used  == NonNull({If(call.op # "text", PrefixOf(call.c))})
<1>1. /\ call # Null /\ call.pc = "build" /\ Heap(used, <<>>, made)
      /\ call' = [call EXCEPT !.built = built, !.errors = errors, !.pc = next]
      /\ UNCHANGED <<compilers, jits, contexts, running>>
  BY DEF BuildLlvmModuleEx, At, contextVars
<1>2. call.built = NoBuilt /\ call.handle = NoHandle
  BY <1>1, CallFacts DEF MakingInv, Loading, Making
<1>3. built \in BuiltsOf(call.h) /\ built.mod # Null /\ built.ctx # Null
  BY <1>1, CallFacts DEF BuiltsOf, Opt, If, HandleKinds
<1>4. made \cap heap = {} /\ made \in SUBSET ObjectsFor(call.h)
  <2>1. \A kind \in {"module", "llcontext", "names", "metadata"} :
          <<kind, call.h>> \notin heap /\ <<kind, call.h>> \in ObjectsFor(call.h)
    <3>1. /\ <<"module", call.h>> \notin heap /\ <<"llcontext", call.h>> \notin heap
          /\ <<"names", call.h>> \notin heap /\ <<"metadata", call.h>> \notin heap
      <4>1. /\ call.built.mod = Null /\ call.built.ctx = Null /\ call.built.externs = Null
            /\ call.built.metadata = Null /\ call.handle.metadata = Null
        BY <1>2, NothingBuilt
      <4> QED BY <1>1, <4>1, CallFacts DEF MySlots, SlotsOf
    <3> QED BY <1>1, <3>1, CallFacts DEF HandleKinds
  <2>2. \A x \in made : \E kind \in {"module", "llcontext", "names", "metadata"} : x = <<kind, call.h>>
    BY DEF NonNull, If
  <2> QED BY ZenonT(60), <2>1, <2>2
<1>5. misused' = FALSE /\ heap' = (heap \ {}) \cup made
  <2>1. used \subseteq NonNull({PrefixOf(call.c)})
    BY DEF NonNull, If
  <2>2. NonNull({PrefixOf(call.c)}) \subseteq heap
    BY <1>1, CallFacts, SettingsThere
  <2> HIDE DEF made, used
  <2> QED BY <1>1, <1>4, <2>1, <2>2, HeapMakes, CallFacts
<1>6. call' \in CallsOf(call.h)
  BY ZenonT(60), <1>1, <1>3, CallFacts DEF CallsOf, Point
<1>7. MySlots'
  <2>1. call'.h = call.h /\ call'.handle = call.handle /\ call'.built = built
    BY <1>1, CallFacts DEF CallsOf
  <2>2. /\ <<"module", call.h>> \in made /\ <<"llcontext", call.h>> \in made
        /\ <<"names", call.h>> \in made <=> built.externs # Null
        /\ <<"metadata", call.h>> \in made <=> built.metadata # Null
    BY <1>3 DEF NonNull, If, BuiltsOf, Opt
  <2>3. \A kind \in HandleKinds \ {"module", "llcontext", "names", "metadata"} : <<kind, call.h>> \notin made
    BY DEF NonNull, If
  <2> HIDE DEF made, built
  <2> QED BY <1>1, <1>2, <1>3, <1>5, <2>1, <2>2, <2>3, NothingBuilt, CallFacts DEF MySlots, SlotsOf, HandleKinds, NoBuilt
<1>8. CallSlots'
  <2>1. \A kind \in CallKinds : <<kind, "call">> \notin made
    BY DEF NonNull, If, CallKinds
  <2>2. call' # Null
    BY <1>1, <1>6, CallFacts
  <2>3. /\ call'.mod = call.mod /\ call'.ir = call.ir /\ call'.machine = call.machine
        /\ call'.triple = call.triple /\ call'.error = call.error
    BY <1>1, CallFacts DEF CallsOf
  <2> QED BY <1>1, <1>5, <2>1, <2>2, <2>3, CallSlotsKept
<1>9. TextSlots'
  BY <1>1, <1>5, <1>6, CallFacts DEF TextSlots, HostTexts, NonNull, If, CallsOf
<1>10. PcInv' /\ MakingInv'
  BY <1>1, <1>2, <1>3, <1>6, CallFacts DEF PcInv, MakingInv, Making, Loading, CallsOf
<1> QED BY <1>1, <1>4, <1>5, <1>6, <1>7, <1>8, <1>9, <1>10, CallStep

-----------------------------------------------------------------------------
\* The module that is built, disposed of.

\* What BuiltModuleDispose frees is there, each object once.
LEMMA DisposeFacts ==
  ASSUME MemoryInv, call # Null
  PROVE  LET built == call.built
             freed == BuiltModuleDispose(built)
         IN  /\ Gone(freed) = NonNull({built.mod, built.ctx, built.externs, built.metadata})
             /\ ~Twice(freed) /\ freed \in Seq(Objects \cup {Null})
             /\ Gone(freed) \subseteq heap
             /\ \A x \in Gone(freed) :
                  \E kind \in {"module", "llcontext", "names", "metadata"} : x = <<kind, call.h>> /\ x \in ObjectsFor(call.h)
<1> DEFINE built == call.built
           freed == BuiltModuleDispose(built)
<1>1. /\ built.mod \in {Null, <<"module", call.h>>} /\ built.ctx \in {Null, <<"llcontext", call.h>>}
      /\ built.externs \in {Null, <<"names", call.h>>} /\ built.metadata \in {Null, <<"metadata", call.h>>}
  BY CallFacts DEF CallsOf, BuiltsOf, Opt
<1>2. Gone(freed) = NonNull({built.mod, built.ctx, built.externs, built.metadata}) /\ ~Twice(freed)
  <2>1. /\ built.mod = built.ctx \/ built.mod = built.externs \/ built.mod = built.metadata => built.mod = Null
        /\ built.ctx = built.externs \/ built.ctx = built.metadata => built.ctx = Null
        /\ built.externs = built.metadata => built.externs = Null
    BY <1>1
  <2> QED BY <2>1, GoneLong DEF BuiltModuleDispose
<1>3. Gone(freed) \subseteq heap
  <2>1. /\ built.mod # Null => built.mod \in heap
        /\ built.ctx # Null => built.ctx \in heap
        /\ built.externs # Null => built.externs \in heap
        /\ built.metadata # Null => built.metadata \in heap
    BY <1>1, CallFacts DEF MySlots, SlotsOf
  <2> QED BY <1>2, <2>1 DEF NonNull
<1>4. \A kind \in {"module", "llcontext", "names", "metadata"} :
        <<kind, call.h>> \in ObjectsFor(call.h) /\ <<kind, call.h>> \in Objects
  BY CallFacts DEF HandleKinds, Objects, HandleObjects
<1>5. freed \in Seq(Objects \cup {Null})
  BY <1>1, <1>4 DEF BuiltModuleDispose
<1>6. \A x \in Gone(freed) : \E kind \in {"module", "llcontext", "names", "metadata"} :
                               x = <<kind, call.h>> /\ x \in ObjectsFor(call.h)
  BY <1>1, <1>2, <1>4 DEF NonNull
<1> QED BY <1>2, <1>3, <1>5, <1>6

\* After it the handle alone has objects.
LEMMA DisposeSlots ==
  ASSUME MemoryInv, call # Null, NEW gone, NEW made,
         heap' = (heap \ (Gone(BuiltModuleDispose(call.built)) \cup gone)) \cup made,
         \A x \in gone \cup made : x[1] \notin HandleKinds,
         call'.h = call.h, call'.handle = call.handle, call'.built = NoBuilt, call.handle.metadata = Null
  PROVE  MySlots'
<1> DEFINE freed == Gone(BuiltModuleDispose(call.built))
<1>1. \A kind \in HandleKinds : <<kind, call.h>> \in heap' <=> <<kind, call.h>> \in heap /\ <<kind, call.h>> \notin freed
  OBVIOUS
<1>2. \A kind \in HandleKinds \ {"module", "llcontext", "names", "metadata"} : <<kind, call.h>> \notin freed
  BY DisposeFacts
<1>3. /\ call.built.mod # Null => <<"module", call.h>> \in freed
      /\ call.built.ctx # Null => <<"llcontext", call.h>> \in freed
      /\ call.built.externs # Null => <<"names", call.h>> \in freed
      /\ call.built.metadata # Null => <<"metadata", call.h>> \in freed
  BY DisposeFacts, CallFacts DEF CallsOf, BuiltsOf, Opt, NonNull
<1> HIDE DEF freed
<1>4. /\ <<"module", call.h>> \notin heap' /\ <<"llcontext", call.h>> \notin heap'
      /\ <<"names", call.h>> \notin heap' /\ <<"metadata", call.h>> \notin heap'
  BY <1>1, <1>3, CallFacts DEF MySlots, SlotsOf, HandleKinds
<1> QED BY <1>1, <1>2, <1>4, NothingBuilt, CallFacts DEF MySlots, SlotsOf, HandleKinds

LEMMA BuildFailedKeeps ==
  ASSUME MemoryInv, BuildFailed, UNCHANGED contextVars
  PROVE  MemoryInv'
<1> DEFINE freed == BuiltModuleDispose(call.built)
<1>1. /\ call # Null /\ call.pc = "buildfailed" /\ Heap({}, freed, {Error})
      /\ call' = [call EXCEPT !.pc = "teardown", !.built = NoBuilt]
      /\ UNCHANGED <<compilers, jits, contexts, running>>
  BY DEF BuildFailed, At, contextVars
<1>2. Error \notin heap /\ Error \in ObjectsFor(call.h) /\ Error[1] = "text" /\ call.handle = NoHandle
  BY <1>1, CallFacts DEF TextSlots, HostTexts, Error, TextObjects, MakingInv, Making
<1>3. misused' = FALSE /\ heap' = (heap \ Gone(freed)) \cup {Error}
  <2>1. /\ Gone(freed) \subseteq heap /\ ~Twice(freed) /\ misused = FALSE /\ {} \subseteq heap
        /\ {Error} \cap (heap \ Gone(freed)) = {}
    BY <1>1, <1>2, DisposeFacts, CallFacts
  <2> QED BY <1>1, <2>1, HeapStep
<1>4. call' \in CallsOf(call.h) /\ call' # Null
  <2>1. call' \in CallsOf(call.h)
    BY <1>1, CallFacts DEF CallsOf, Point, BuiltsOf, NoBuilt, Opt
  <2> QED BY <1>1, <2>1, CallFacts
<1>5. /\ call'.h = call.h /\ call'.op = call.op /\ call'.c = call.c /\ call'.pc = "teardown" /\ call'.built = NoBuilt
      /\ call'.handle = call.handle /\ call'.mod = call.mod /\ call'.ir = call.ir /\ call'.machine = call.machine
      /\ call'.triple = call.triple /\ call'.error = call.error
  BY <1>1, CallFacts DEF CallsOf
<1>6. MySlots'
  <2>1. \A x \in {} \cup {Error} : x[1] \notin HandleKinds
    BY <1>2 DEF HandleKinds
  <2>2. heap' = (heap \ (Gone(freed) \cup {})) \cup {Error} /\ call.handle.metadata = Null
    BY <1>2, <1>3, NothingBuilt
  <2> QED BY <1>1, <1>5, <2>1, <2>2, DisposeSlots
<1>7. CallSlots'
  <2>1. \A kind \in CallKinds : <<kind, "call">> \notin Gone(freed) \cup {Error}
    BY <1>1, <1>2, DisposeFacts DEF CallKinds
  <2> QED BY <1>1, <1>3, <1>4, <1>5, <2>1, CallSlotsKept
<1>8. TextSlots'
  <2>1. \A x \in Gone(freed) : x[1] # "text"
    BY <1>1, DisposeFacts
  <2> QED BY <1>1, <1>3, <1>5, <2>1, CallFacts DEF TextSlots, Error
<1>9. PcInv' /\ MakingInv'
  BY <1>1, <1>2, <1>5, NothingBuilt, CallFacts DEF PcInv, MakingInv, Making, Loading
<1>10. Gone(freed) \in SUBSET ObjectsFor(call.h) /\ {Error} \in SUBSET ObjectsFor(call.h)
  BY <1>1, <1>2, DisposeFacts
<1> QED BY <1>1, <1>3, <1>4, <1>6, <1>7, <1>8, <1>9, <1>10, CallStep

LEMMA PrintKeeps ==
  ASSUME MemoryInv, GenerateLlvmIr, UNCHANGED contextVars
  PROVE  MemoryInv'
<1> DEFINE freed == BuiltModuleDispose(call.built)
           ir    == <<"ir", "call">>
           used  == NonNull({If(~call.errors, call.built.mod)})
<1>1. /\ call # Null /\ call.pc = "print" /\ Heap(used, freed, {ir})
      /\ call' = [call EXCEPT !.pc = "result", !.built = NoBuilt, !.ir = ir]
      /\ UNCHANGED <<compilers, jits, contexts, running>>
  BY DEF GenerateLlvmIr, At, contextVars
<1>2. /\ call.handle = NoHandle /\ call.ir = Null /\ call.mod # Null /\ call.machine = Null /\ call.triple = Null
      /\ call.error = Null
  BY <1>1, CallFacts DEF MakingInv, PcInv, Making
<1>3. ir \notin heap /\ ir \in ObjectsFor(call.h) /\ ir # Null
  BY <1>1, <1>2, CallFacts DEF CallSlots, CallKinds
<1>4. used \subseteq heap
  BY <1>1, CallFacts DEF MySlots, SlotsOf, NonNull, If, CallsOf, BuiltsOf, Opt
<1>5. misused' = FALSE /\ heap' = (heap \ Gone(freed)) \cup {ir}
  <2>1. /\ Gone(freed) \subseteq heap /\ ~Twice(freed) /\ misused = FALSE
        /\ {ir} \cap (heap \ Gone(freed)) = {}
    BY <1>1, <1>3, DisposeFacts, CallFacts
  <2> QED BY ZenonT(60), <1>1, <1>4, <2>1, HeapStep
<1>6. call' \in CallsOf(call.h) /\ call' # Null
  <2>1. call' \in CallsOf(call.h)
    BY <1>1, CallFacts DEF CallsOf, Point, BuiltsOf, NoBuilt, Opt
  <2> QED BY <1>1, <2>1, CallFacts
<1>7. /\ call'.h = call.h /\ call'.op = call.op /\ call'.c = call.c /\ call'.pc = "result" /\ call'.built = NoBuilt
      /\ call'.handle = call.handle /\ call'.mod = call.mod /\ call'.ir = ir /\ call'.machine = call.machine
      /\ call'.triple = call.triple /\ call'.error = call.error
  BY <1>1, CallFacts DEF CallsOf
<1>8. MySlots'
  <2>1. \A x \in {} \cup {ir} : x[1] \notin HandleKinds
    BY DEF HandleKinds
  <2>2. heap' = (heap \ (Gone(freed) \cup {})) \cup {ir} /\ call.handle.metadata = Null
    BY <1>2, <1>5, NothingBuilt
  <2> QED BY <1>1, <1>7, <2>1, <2>2, DisposeSlots
<1>9. CallSlots'
  <2>1. \A kind \in CallKinds : <<kind, "call">> \in heap' <=> <<kind, "call">> \in heap \/ kind = "ir"
    BY <1>1, <1>5, DisposeFacts DEF CallKinds
  <2> QED BY <1>1, <1>3, <1>6, <1>7, <2>1, CallFacts DEF CallSlots, CallKinds
<1>10. TextSlots'
  <2>1. \A x \in Gone(freed) \cup {ir} : x[1] # "text"
    BY <1>1, DisposeFacts
  <2> QED BY <1>1, <1>5, <1>6, <1>7, <2>1, CallFacts DEF TextSlots, HostTexts
<1>11. PcInv' /\ MakingInv'
  BY <1>1, <1>2, <1>7, NothingBuilt, CallFacts DEF PcInv, MakingInv, Making, Loading
<1>12. Gone(freed) \in SUBSET ObjectsFor(call.h) /\ {ir} \in SUBSET ObjectsFor(call.h)
  BY <1>1, <1>3, DisposeFacts
<1> QED BY <1>1, <1>5, <1>6, <1>8, <1>9, <1>10, <1>11, <1>12, CallStep

LEMMA ResultKeeps ==
  ASSUME MemoryInv, BuildResult, UNCHANGED contextVars
  PROVE  MemoryInv'
<1> DEFINE ir    == call.ir
           texts == {<<"text", "output">>, <<"text", "diagnostics">>}
<1>1. /\ call # Null /\ call.pc = "result" /\ Heap(NonNull({ir}), <<ir>>, texts)
      /\ call' = [call EXCEPT !.pc = "teardown", !.ir = Null]
      /\ UNCHANGED <<compilers, jits, contexts, running>>
  BY DEF BuildResult, At, contextVars
<1>2. ir \in {Null, <<"ir", "call">>} /\ (ir # Null => ir \in heap) /\ <<"ir", "call">> \in ObjectsFor(call.h)
  BY <1>1, CallFacts DEF CallsOf, Opt, CallSlots, CallKinds
<1>3. texts \cap heap = {} /\ texts \in SUBSET ObjectsFor(call.h)
  BY <1>1, CallFacts DEF TextSlots, HostTexts, TextObjects
<1>4. Gone(<<ir>>) = NonNull({ir}) /\ ~Twice(<<ir>>)
  BY GoneShort
<1>5. misused' = FALSE /\ heap' = (heap \ NonNull({ir})) \cup texts
  <2>1. NonNull({ir}) \subseteq heap /\ misused = FALSE
    BY <1>1, <1>2, CallFacts DEF NonNull
  <2> QED BY <1>1, <1>3, <1>4, <2>1 DEF Heap
<1>6. call' \in CallsOf(call.h) /\ call' # Null
  <2>1. call' \in CallsOf(call.h)
    BY <1>1, CallFacts DEF CallsOf, Point, Opt
  <2> QED BY <1>1, <2>1, CallFacts
<1>7. /\ call'.h = call.h /\ call'.op = call.op /\ call'.c = call.c /\ call'.pc = "teardown" /\ call'.built = call.built
      /\ call'.handle = call.handle /\ call'.mod = call.mod /\ call'.ir = Null /\ call'.machine = call.machine
      /\ call'.triple = call.triple /\ call'.error = call.error
  BY <1>1, CallFacts DEF CallsOf
<1>8. MySlots'
  <2>1. \A x \in NonNull({ir}) \cup texts : x[1] \notin HandleKinds
    BY <1>2 DEF HandleKinds, NonNull
  <2> QED BY <1>1, <1>5, <1>7, <2>1, MySlotsKept
<1>9. CallSlots'
  <2>1. \A kind \in CallKinds : <<kind, "call">> \in heap' <=> <<kind, "call">> \in heap /\ kind # "ir"
    <3>1. \A kind \in CallKinds : <<kind, "call">> \notin texts
      BY DEF CallKinds
    <3>2. <<"ir", "call">> \in NonNull({ir}) \/ <<"ir", "call">> \notin heap
      BY <1>1, <1>2, CallFacts DEF CallSlots, NonNull
    <3>3. \A kind \in CallKinds : <<kind, "call">> \in NonNull({ir}) => kind = "ir"
      BY <1>2 DEF NonNull
    <3> QED BY <1>5, <3>1, <3>2, <3>3
  <2> QED BY <1>1, <1>6, <1>7, <2>1, CallFacts DEF CallSlots, CallKinds
<1>10. TextSlots'
  BY <1>5, <1>7 DEF TextSlots
<1>11. PcInv' /\ MakingInv'
  BY <1>1, <1>7, CallFacts DEF PcInv, MakingInv, Making, Loading
<1>12. NonNull({ir}) \in SUBSET ObjectsFor(call.h)
  BY <1>2 DEF NonNull
<1> QED BY <1>1, <1>3, <1>5, <1>6, <1>8, <1>9, <1>10, <1>11, <1>12, CallStep

-----------------------------------------------------------------------------
\* An object file.

LEMMA TargetKeeps ==
  ASSUME MemoryInv, NEW named \in BOOLEAN, NEW ok \in BOOLEAN, EmitTarget(named, ok), UNCHANGED contextVars
  PROVE  MemoryInv'
<1> DEFINE triple  == If(named, <<"triple", "call">>)
           machine == If(ok, <<"machine", "call">>)
           error   == If(~ok, <<"message", "call">>)
           made    == NonNull({triple, machine, error})
           next    == IF ok THEN "emit" ELSE "emitted"
<1>1. /\ call # Null /\ call.pc = "target" /\ Heap({call.built.mod}, <<>>, made)
      /\ call' = [call EXCEPT !.pc = next, !.triple = triple, !.machine = machine, !.error = error]
      /\ UNCHANGED <<compilers, jits, contexts, running>>
  BY DEF EmitTarget, At, contextVars
<1>2. /\ call.built.mod # Null /\ call.built.ctx # Null /\ call.mod # Null /\ call.triple = Null
      /\ call.machine = Null /\ call.error = Null /\ call.ir = Null
  BY <1>1, CallFacts DEF MakingInv, PcInv
<1>3. \A kind \in {"triple", "machine", "message"} :
        <<kind, "call">> \notin heap /\ <<kind, "call">> \in ObjectsFor(call.h) /\ <<kind, "call">> # Null
  BY <1>1, <1>2, CallFacts DEF CallSlots, CallKinds
<1>4. /\ <<"triple", "call">> \in made <=> triple # Null
      /\ <<"machine", "call">> \in made <=> machine # Null
      /\ <<"message", "call">> \in made <=> error # Null
      /\ \A x \in made : x \in {<<"triple", "call">>, <<"machine", "call">>, <<"message", "call">>}
      /\ (machine # Null <=> ok) /\ (error # Null <=> ~ok)
      /\ triple \in Opt(<<"triple", "call">>) /\ machine \in Opt(<<"machine", "call">>)
      /\ error \in Opt(<<"message", "call">>)
  BY <1>3 DEF NonNull, If, Opt
<1> HIDE DEF triple, machine, error, made
<1>5. misused' = FALSE /\ heap' = (heap \ {}) \cup made
  <2>1. call.built.mod \in heap
    BY <1>1, <1>2, CallFacts DEF MySlots, SlotsOf, CallsOf, BuiltsOf, Opt
  <2>2. made \cap heap = {}
    BY <1>3, <1>4
  <2> QED BY <1>1, <2>1, <2>2, GoneShort, CallFacts DEF Heap
<1>6. call' \in CallsOf(call.h) /\ call' # Null
  <2>1. call' \in CallsOf(call.h)
    BY ZenonT(60), <1>1, <1>4, CallFacts DEF CallsOf, Point
  <2> QED BY <1>1, <2>1, CallFacts
<1>7. /\ call'.h = call.h /\ call'.op = call.op /\ call'.c = call.c /\ call'.pc = next /\ call'.built = call.built
      /\ call'.handle = call.handle /\ call'.mod = call.mod /\ call'.ir = call.ir /\ call'.machine = machine
      /\ call'.triple = triple /\ call'.error = error
  BY <1>1, CallFacts DEF CallsOf
<1>8. MySlots'
  <2>1. \A x \in {} \cup made : x[1] \notin HandleKinds
    BY <1>4 DEF HandleKinds
  <2> QED BY <1>1, <1>5, <1>7, <2>1, MySlotsKept
<1>9. CallSlots'
  <2>1. \A kind \in CallKinds : <<kind, "call">> \in heap' <=> <<kind, "call">> \in heap \/ <<kind, "call">> \in made
    BY <1>5
  <2>2. \A kind \in CallKinds \ {"triple", "machine", "message"} : <<kind, "call">> \notin made
    BY <1>4
  <2> QED BY <1>1, <1>3, <1>4, <1>6, <1>7, <2>1, <2>2, CallFacts DEF CallSlots, CallKinds
<1>10. TextSlots'
  <2>1. \A x \in made : x[1] # "text"
    BY <1>4
  <2> QED BY <1>1, <1>5, <1>6, <1>7, <2>1, CallFacts DEF TextSlots, HostTexts
<1>11. PcInv' /\ MakingInv'
  BY <1>1, <1>2, <1>4, <1>7, CallFacts DEF PcInv, MakingInv, Making, Loading
<1>12. made \in SUBSET ObjectsFor(call.h)
  BY <1>3, <1>4
<1> QED BY <1>1, <1>5, <1>6, <1>8, <1>9, <1>10, <1>11, <1>12, CallStep

LEMMA EmitKeeps ==
  ASSUME MemoryInv, NEW ok \in BOOLEAN, EmitToFile(ok), UNCHANGED contextVars
  PROVE  MemoryInv'
<1> DEFINE machine == <<"machine", "call">>
           error   == If(~ok, <<"message", "call">>)
           made    == NonNull({error})
<1>1. /\ call # Null /\ call.pc = "emit" /\ Heap({call.built.mod}, <<call.machine>>, made)
      /\ call' = [call EXCEPT !.pc = "emitted", !.machine = Null, !.error = error]
      /\ UNCHANGED <<compilers, jits, contexts, running>>
  BY DEF EmitToFile, At, contextVars
<1>2. /\ call.built.mod # Null /\ call.built.ctx # Null /\ call.mod # Null /\ call.machine = machine
      /\ call.error = Null /\ call.ir = Null
  BY <1>1, CallFacts DEF MakingInv, PcInv, CallsOf, Opt
<1>3. \A kind \in CallKinds : <<kind, "call">> \in ObjectsFor(call.h) /\ <<kind, "call">> # Null
  BY <1>1, CallFacts
<1>4. machine \in heap /\ <<"message", "call">> \notin heap
  BY <1>1, <1>2, <1>3, CallFacts DEF CallSlots, CallKinds
<1>5. /\ <<"message", "call">> \in made <=> error # Null
      /\ \A x \in made : x = <<"message", "call">>
      /\ error \in Opt(<<"message", "call">>)
  BY <1>3 DEF NonNull, If, Opt
<1>6. Gone(<<call.machine>>) = {machine} /\ ~Twice(<<call.machine>>)
  BY <1>2, <1>3, GoneShort DEF NonNull, CallKinds
<1> HIDE DEF error, made
<1>7. misused' = FALSE /\ heap' = (heap \ {machine}) \cup made
  <2>1. call.built.mod \in heap
    BY <1>1, <1>2, CallFacts DEF MySlots, SlotsOf, CallsOf, BuiltsOf, Opt
  <2> QED BY <1>1, <1>4, <1>5, <1>6, <2>1, CallFacts DEF Heap
<1>8. call' \in CallsOf(call.h) /\ call' # Null
  <2>1. call' \in CallsOf(call.h)
    BY <1>1, <1>5, CallFacts DEF CallsOf, Point, Opt
  <2> QED BY <1>1, <2>1, CallFacts
<1>9. /\ call'.h = call.h /\ call'.op = call.op /\ call'.c = call.c /\ call'.pc = "emitted" /\ call'.built = call.built
      /\ call'.handle = call.handle /\ call'.mod = call.mod /\ call'.ir = call.ir /\ call'.machine = Null
      /\ call'.triple = call.triple /\ call'.error = error
  BY <1>1, CallFacts DEF CallsOf
<1>10. MySlots'
  <2>1. \A x \in {machine} \cup made : x[1] \notin HandleKinds
    BY <1>5 DEF HandleKinds
  <2> QED BY <1>1, <1>7, <1>9, <2>1, MySlotsKept
<1>11. CallSlots'
  <2>1. \A kind \in CallKinds :
          <<kind, "call">> \in heap' <=> (<<kind, "call">> \in heap /\ kind # "machine") \/ <<kind, "call">> \in made
    BY <1>7
  <2>2. \A kind \in CallKinds \ {"message"} : <<kind, "call">> \notin made
    BY <1>5
  <2> QED BY <1>1, <1>4, <1>5, <1>8, <1>9, <2>1, <2>2, CallFacts DEF CallSlots, CallKinds
<1>12. TextSlots'
  <2>1. \A x \in {machine} \cup made : x[1] # "text"
    BY <1>5
  <2> QED BY <1>1, <1>7, <1>8, <1>9, <2>1, CallFacts DEF TextSlots, HostTexts
<1>13. PcInv' /\ MakingInv'
  BY <1>1, <1>2, <1>9, CallFacts DEF PcInv, MakingInv, Making, Loading
<1>14. {machine} \in SUBSET ObjectsFor(call.h) /\ made \in SUBSET ObjectsFor(call.h)
  BY <1>3, <1>5 DEF CallKinds
<1> QED BY <1>1, <1>7, <1>8, <1>10, <1>11, <1>12, <1>13, <1>14, CallStep

LEMMA EmitDoneKeeps ==
  ASSUME MemoryInv, EmitDone, UNCHANGED contextVars
  PROVE  MemoryInv'
<1> DEFINE own   == <<call.triple, call.error>>
           built == BuiltModuleDispose(call.built)
           mine  == Gone(own)
           made  == NonNull({If(call.error # Null, Error)})
<1>1. /\ call # Null /\ call.pc = "emitted" /\ Heap({}, own \o built, made)
      /\ call' = [call EXCEPT !.pc = "teardown", !.triple = Null, !.error = Null, !.built = NoBuilt]
      /\ UNCHANGED <<compilers, jits, contexts, running>>
  BY DEF EmitDone, At, contextVars
<1>2. /\ call.handle = NoHandle /\ call.mod # Null /\ call.machine = Null /\ call.ir = Null
      /\ call.triple \in {Null, <<"triple", "call">>} /\ call.error \in {Null, <<"message", "call">>}
  BY <1>1, CallFacts DEF MakingInv, PcInv, CallsOf, Opt, Making
<1>3. \A kind \in CallKinds : <<kind, "call">> \in ObjectsFor(call.h) /\ <<kind, "call">> # Null /\ <<kind, "call">> \in Objects
  BY <1>1, CallFacts DEF Objects, CallObjects
<1>4. /\ mine = NonNull({call.triple, call.error}) /\ ~Twice(own) /\ own \in Seq(Objects \cup {Null})
      /\ \A x \in mine : x \in {<<"triple", "call">>, <<"message", "call">>}
      /\ <<"triple", "call">> \in heap => <<"triple", "call">> \in mine
      /\ <<"message", "call">> \in heap => <<"message", "call">> \in mine
      /\ mine \subseteq heap
  <2>1. mine = NonNull({call.triple, call.error}) /\ ~Twice(own)
    BY <1>2, GoneShort
  <2>2. own \in Seq(Objects \cup {Null})
    BY <1>2, <1>3 DEF CallKinds
  <2>3. call.triple # Null <=> <<"triple", "call">> \in heap
    BY <1>1, CallFacts DEF CallSlots
  <2>4. call.error # Null <=> <<"message", "call">> \in heap
    BY <1>1, CallFacts DEF CallSlots
  <2> QED BY <1>2, <2>1, <2>2, <2>3, <2>4 DEF NonNull
<1>5. Gone(own \o built) = Gone(built) \cup mine /\ ~Twice(own \o built)
  <2>1. built \in Seq(Objects \cup {Null}) /\ ~Twice(built) /\ \A x \in Gone(built) : x[1] \in HandleKinds
    BY <1>1, DisposeFacts DEF HandleKinds
  <2>2. mine = Gone(own)
    OBVIOUS
  <2> HIDE DEF own, built, mine
  <2>3. Gone(own) \cap Gone(built) = {}
    BY <1>4, <2>1, <2>2 DEF HandleKinds
  <2>4. /\ Gone(own \o built) = Gone(own) \cup Gone(built)
        /\ ~Twice(own) /\ ~Twice(built) /\ Gone(own) \cap Gone(built) = {} => ~Twice(own \o built)
    BY <1>4, <2>1, GoneConcat
  <2> QED BY <1>4, <2>1, <2>2, <2>3, <2>4
<1>6. made \subseteq {Error} /\ Error \notin heap /\ Error \in ObjectsFor(call.h)
  BY <1>1, CallFacts DEF TextSlots, HostTexts, NonNull, If, Error, TextObjects
<1> HIDE DEF own, built, mine, made
<1>7. misused' = FALSE /\ heap' = (heap \ (Gone(built) \cup mine)) \cup made
  <2>1. Gone(built) \subseteq heap /\ misused = FALSE
    BY <1>1, DisposeFacts, CallFacts DEF built
  <2> QED BY <1>1, <1>4, <1>5, <1>6, <2>1 DEF Heap
<1>8. call' \in CallsOf(call.h) /\ call' # Null
  <2>1. call' \in CallsOf(call.h)
    BY <1>1, CallFacts DEF CallsOf, Point, Opt, BuiltsOf, NoBuilt
  <2> QED BY <1>1, <2>1, CallFacts
<1>9. /\ call'.h = call.h /\ call'.op = call.op /\ call'.c = call.c /\ call'.pc = "teardown" /\ call'.built = NoBuilt
      /\ call'.handle = call.handle /\ call'.mod = call.mod /\ call'.ir = call.ir /\ call'.machine = call.machine
      /\ call'.triple = Null /\ call'.error = Null
  BY <1>1, CallFacts DEF CallsOf
<1>10. MySlots'
  <2>1. \A x \in mine \cup made : x[1] \notin HandleKinds
    BY <1>4, <1>6 DEF HandleKinds, Error
  <2> QED BY <1>1, <1>2, <1>7, <1>9, <2>1, DisposeSlots, NothingBuilt DEF built
<1>11. \A x \in Gone(built) : x[1] \in HandleKinds /\ x \in ObjectsFor(call.h)
  BY <1>1, DisposeFacts DEF built, HandleKinds
<1>12. CallSlots'
  <2>1. \A kind \in CallKinds : <<kind, "call">> \in heap' <=> <<kind, "call">> \in heap /\ <<kind, "call">> \notin mine
    BY <1>6, <1>7, <1>11 DEF CallKinds, HandleKinds, Error
  <2> QED BY <1>1, <1>4, <1>8, <1>9, <2>1, CallFacts DEF CallSlots, CallKinds
<1>13. TextSlots'
  <2>1. \A x \in mine \cup Gone(built) : x[1] # "text"
    BY <1>4, <1>11 DEF HandleKinds
  <2> QED BY <1>1, <1>6, <1>7, <1>8, <1>9, <2>1, CallFacts DEF TextSlots, HostTexts, Error
<1>14. PcInv' /\ MakingInv'
  BY <1>1, <1>2, <1>9, NothingBuilt, CallFacts DEF PcInv, MakingInv, Making, Loading
<1>15. Gone(built) \cup mine \in SUBSET ObjectsFor(call.h) /\ made \in SUBSET ObjectsFor(call.h)
  BY <1>3, <1>4, <1>6, <1>11 DEF CallKinds
<1> QED BY <1>1, <1>7, <1>8, <1>10, <1>12, <1>13, <1>14, <1>15, CallStep

-----------------------------------------------------------------------------
\* A handle that is made.

\* The session of a handle or the module and its context are gone: what the load disposes of when it fails.
LEMMA ModuleFacts ==
  ASSUME MemoryInv, call # Null, call.built.mod # Null, call.built.ctx # Null
  PROVE  /\ call.built.mod = <<"module", call.h>> /\ call.built.ctx = <<"llcontext", call.h>>
         /\ {call.built.mod, call.built.ctx} \subseteq heap
         /\ Gone(DisposeBuiltModuleOnError) = {call.built.mod, call.built.ctx}
         /\ ~Twice(DisposeBuiltModuleOnError) /\ DisposeBuiltModuleOnError \in Seq(Objects \cup {Null})
<1>1. call.built.mod = <<"module", call.h>> /\ call.built.ctx = <<"llcontext", call.h>>
  BY CallFacts DEF CallsOf, BuiltsOf, Opt
<1>2. {call.built.mod, call.built.ctx} \subseteq heap
  BY <1>1, CallFacts DEF MySlots, SlotsOf
<1>3. Gone(DisposeBuiltModuleOnError) = {call.built.mod, call.built.ctx} /\ ~Twice(DisposeBuiltModuleOnError)
  BY <1>1, GoneShort DEF DisposeBuiltModuleOnError, NonNull
<1>4. DisposeBuiltModuleOnError \in Seq(Objects \cup {Null})
  BY <1>2 DEF DisposeBuiltModuleOnError, MemoryInv
<1> QED BY <1>1, <1>2, <1>3, <1>4

\* A load that fails has disposed of the module, the machine and the session.
LEMMA FailStep ==
  ASSUME MemoryInv, call # Null, call.pc \in {"machine", "optimize", "lljit", "add"},
         UNCHANGED <<compilers, jits, contexts, running>>, misused' = FALSE,
         heap' = (heap \ ({call.built.mod, call.built.ctx} \cup NonNull({call.machine, call.handle.lljit})))
                   \cup {<<"message", "call">>},
         call' \in CallsOf(call.h), call'.op = call.op, call'.c = call.c, call'.mod = call.mod, call'.ir = call.ir,
         call'.triple = call.triple, call'.prefix = call.prefix, call'.pc = "loadfailed", call'.machine = Null,
         call'.error = <<"message", "call">>, call'.built = WithoutModule(call.built),
         call'.handle.lljit = Null, call'.handle = call.handle \/ call'.handle = [call.handle EXCEPT !.lljit = Null]
  PROVE  MemoryInv'
<1> DEFINE gone == {call.built.mod, call.built.ctx} \cup NonNull({call.machine, call.handle.lljit})
           error == <<"message", "call">>
<1>1. call' # Null /\ call'.h = call.h
  <2>1. call' # Null
    BY CallFacts
  <2> QED BY <2>1 DEF CallsOf
<1>2. /\ call.built.mod = <<"module", call.h>> /\ call.built.ctx = <<"llcontext", call.h>>
      /\ call.mod # Null /\ call.ir = Null /\ call.triple = Null /\ call.error = Null /\ call.h \in Jits /\ call.op = "jit"
      /\ call.handle.self # Null /\ call.handle.symbols = SymbolsUnder(call.prefix)
      /\ call.handle.metadata = Null /\ call.handle.diagnostics = Null /\ call.handle.prefixText = Null
  BY CallFacts, ModuleFacts DEF PcInv, MakingInv, Making
<1>3. \A kind \in CallKinds : <<kind, "call">> \in ObjectsFor(call.h) /\ <<kind, "call">> # Null
  BY CallFacts
<1>4. \A kind \in HandleKinds : <<kind, call.h>> \in ObjectsFor(call.h) /\ <<kind, call.h>> # Null
  BY CallFacts
<1>5. call.machine \in {Null, <<"machine", "call">>} /\ call.handle.lljit \in {Null, <<"lljit", call.h>>}
  BY CallFacts DEF CallsOf, HandlesOf, Opt
<1>6. /\ \A x \in gone : x \in {<<"module", call.h>>, <<"llcontext", call.h>>, <<"machine", "call">>, <<"lljit", call.h>>}
      /\ <<"module", call.h>> \in gone /\ <<"llcontext", call.h>> \in gone
      /\ <<"machine", "call">> \in heap => <<"machine", "call">> \in gone
      /\ <<"lljit", call.h>> \in heap => <<"lljit", call.h>> \in gone
  BY <1>2, <1>5, CallFacts DEF NonNull, CallSlots, MySlots, SlotsOf
<1>7. heap' = (heap \ gone) \cup {error}
  OBVIOUS
<1> HIDE DEF gone
<1>8. /\ call'.handle.self = call.handle.self /\ call'.handle.backend = call.handle.backend
      /\ call'.handle.exports = call.handle.exports /\ call'.handle.externs = call.handle.externs
      /\ call'.handle.metadata = call.handle.metadata /\ call'.handle.diagnostics = call.handle.diagnostics
      /\ call'.handle.prefixText = call.handle.prefixText /\ call'.handle.symbols = call.handle.symbols
  BY CallFacts DEF CallsOf, HandlesOf
<1>9. /\ call'.built.mod = Null /\ call'.built.ctx = Null
      /\ call'.built.externs = call.built.externs /\ call'.built.metadata = call.built.metadata
  BY CallFacts DEF CallsOf, BuiltsOf, WithoutModule
<1>10. MySlots'
  <2>1. \A kind \in HandleKinds : <<kind, call.h>> \in heap' <=> <<kind, call.h>> \in heap /\ <<kind, call.h>> \notin gone
    BY <1>7 DEF HandleKinds
  <2>2. \A kind \in HandleKinds \ {"module", "llcontext", "lljit"} : <<kind, call.h>> \notin gone
    BY <1>6 DEF HandleKinds
  <2> QED BY <1>1, <1>6, <1>8, <1>9, <2>1, <2>2, CallFacts DEF MySlots, SlotsOf, HandleKinds
<1>11. CallSlots'
  <2>1. \A kind \in CallKinds :
          <<kind, "call">> \in heap' <=> (<<kind, "call">> \in heap /\ <<kind, "call">> \notin gone) \/ kind = "message"
    BY <1>7
  <2>2. \A kind \in CallKinds \ {"machine"} : <<kind, "call">> \notin gone
    BY <1>6 DEF CallKinds
  <2> QED BY <1>1, <1>3, <1>6, <2>1, <2>2, CallFacts DEF CallSlots, CallKinds
<1>12. TextSlots'
  <2>1. \A x \in gone \cup {error} : x[1] # "text"
    BY <1>6
  <2> QED BY <1>1, <1>7, <2>1, CallFacts DEF TextSlots, HostTexts
<1>13. PcInv' /\ MakingInv'
  BY <1>1, <1>2, <1>3, <1>8, <1>9, NothingBuilt, CallFacts DEF PcInv, MakingInv, Making, Loading, CallKinds
<1>14. gone \in SUBSET ObjectsFor(call.h) /\ {error} \in SUBSET ObjectsFor(call.h)
  BY <1>3, <1>4, <1>6 DEF CallKinds, HandleKinds
<1> QED BY <1>7, <1>10, <1>11, <1>12, <1>13, <1>14, CallStep

LEMMA FailFields ==
  ASSUME MemoryInv, call # Null, call.pc \in {"machine", "optimize", "lljit", "add"},
         \/ call' = [LoadFails EXCEPT !.built = WithoutModule(@)] /\ call.machine = Null /\ call.handle.lljit = Null
         \/ call' = [LoadFails EXCEPT !.built = WithoutModule(@), !.machine = Null] /\ call.handle.lljit = Null
         \/ call' = [LoadFails EXCEPT !.built = WithoutModule(@), !.handle.lljit = Null] /\ call.machine = Null
  PROVE  /\ call' \in CallsOf(call.h) /\ call'.op = call.op /\ call'.c = call.c /\ call'.mod = call.mod
         /\ call'.ir = call.ir /\ call'.triple = call.triple /\ call'.prefix = call.prefix
         /\ call'.pc = "loadfailed" /\ call'.machine = Null /\ call'.error = <<"message", "call">>
         /\ call'.built = WithoutModule(call.built) /\ call'.handle.lljit = Null
         /\ call'.handle = call.handle \/ call'.handle = [call.handle EXCEPT !.lljit = Null]
<1>1. WithoutModule(call.built) \in BuiltsOf(call.h)
  BY CallFacts DEF CallsOf, BuiltsOf, WithoutModule, Opt
<1>2. [call.handle EXCEPT !.lljit = Null] \in HandlesOf(call.h) /\ [call.handle EXCEPT !.lljit = Null].lljit = Null
  BY CallFacts DEF CallsOf, HandlesOf, Opt
<1>3. LoadFails \in CallsOf(call.h)
  BY CallFacts DEF LoadFails, CallsOf, Point, Opt
<1>4. /\ LoadFails.op = call.op /\ LoadFails.c = call.c /\ LoadFails.mod = call.mod /\ LoadFails.ir = call.ir
      /\ LoadFails.triple = call.triple /\ LoadFails.prefix = call.prefix /\ LoadFails.pc = "loadfailed"
      /\ LoadFails.error = <<"message", "call">> /\ LoadFails.built = call.built /\ LoadFails.handle = call.handle
      /\ LoadFails.machine = call.machine
  BY CallFacts DEF LoadFails, CallsOf
<1> DEFINE built  == WithoutModule(call.built)
           handle == [call.handle EXCEPT !.lljit = Null]
<1> HIDE DEF LoadFails, built, handle
<1>5. ASSUME call' = [LoadFails EXCEPT !.built = built], call.machine = Null
      PROVE  /\ call' \in CallsOf(call.h) /\ call'.op = call.op /\ call'.c = call.c /\ call'.mod = call.mod
             /\ call'.ir = call.ir /\ call'.triple = call.triple /\ call'.prefix = call.prefix
             /\ call'.pc = "loadfailed" /\ call'.machine = Null /\ call'.error = <<"message", "call">>
             /\ call'.built = built /\ call'.handle = call.handle
  BY <1>1, <1>3, <1>4, <1>5 DEF CallsOf, built
<1>6. ASSUME call' = [LoadFails EXCEPT !.built = built, !.machine = Null]
      PROVE  /\ call' \in CallsOf(call.h) /\ call'.op = call.op /\ call'.c = call.c /\ call'.mod = call.mod
             /\ call'.ir = call.ir /\ call'.triple = call.triple /\ call'.prefix = call.prefix
             /\ call'.pc = "loadfailed" /\ call'.machine = Null /\ call'.error = <<"message", "call">>
             /\ call'.built = built /\ call'.handle = call.handle
  BY <1>1, <1>3, <1>4, <1>6 DEF CallsOf, built, Opt
<1>7. ASSUME call' = [LoadFails EXCEPT !.built = built, !.handle = handle], call.machine = Null
      PROVE  /\ call' \in CallsOf(call.h) /\ call'.op = call.op /\ call'.c = call.c /\ call'.mod = call.mod
             /\ call'.ir = call.ir /\ call'.triple = call.triple /\ call'.prefix = call.prefix
             /\ call'.pc = "loadfailed" /\ call'.machine = Null /\ call'.error = <<"message", "call">>
             /\ call'.built = built /\ call'.handle = handle
  BY <1>1, <1>2, <1>3, <1>4, <1>7 DEF CallsOf, built, handle
<1>8. CASE call' = [LoadFails EXCEPT !.built = WithoutModule(@)] /\ call.machine = Null /\ call.handle.lljit = Null
  <2>1. call' = [LoadFails EXCEPT !.built = built]
    BY <1>4, <1>8 DEF built
  <2> QED BY <1>5, <1>8, <2>1 DEF built
<1>9. CASE call' = [LoadFails EXCEPT !.built = WithoutModule(@), !.machine = Null] /\ call.handle.lljit = Null
  <2>1. call' = [LoadFails EXCEPT !.built = built, !.machine = Null]
    BY <1>4, <1>9 DEF built
  <2> QED BY <1>6, <1>9, <2>1 DEF built
<1>10. CASE call' = [LoadFails EXCEPT !.built = WithoutModule(@), !.handle.lljit = Null] /\ call.machine = Null
  <2>1. call' = [LoadFails EXCEPT !.built = built, !.handle = handle]
    BY <1>4, <1>10 DEF built, handle
  <2> QED BY <1>2, <1>7, <1>10, <2>1 DEF built, handle
<1> QED BY <1>8, <1>9, <1>10

LEMMA NewHandleKeeps ==
  ASSUME MemoryInv, NewHandle, UNCHANGED contextVars
  PROVE  MemoryInv'
<1> DEFINE externs == JitCopyExternSymbols
           handle  == [NoHandle EXCEPT !.self = <<"jit", call.h>>, !.exports = <<"exports", call.h>>,
                                       !.backend = <<"backend", call.h>>, !.externs = externs,
                                       !.symbols = SymbolsUnder(call.prefix)]
           used    == {call.mod} \cup NonNull({call.built.externs})
           made    == NonNull({handle.self, handle.exports, handle.backend, externs})
<1>1. /\ call # Null /\ call.pc = "handle" /\ Heap(used, <<>>, made)
      /\ call' = [call EXCEPT !.pc = "machine", !.handle = handle]
      /\ UNCHANGED <<compilers, jits, contexts, running>>
  BY DEF NewHandle, At, contextVars
<1>2. /\ call.built.mod # Null /\ call.built.ctx # Null /\ call.handle = NoHandle /\ call.mod # Null
      /\ call.triple = Null /\ call.machine = Null /\ call.error = Null /\ call.ir = Null /\ call.op = "jit"
  BY <1>1, CallFacts DEF MakingInv, PcInv, Making
<1>3. \A kind \in HandleKinds : <<kind, call.h>> \in ObjectsFor(call.h) /\ <<kind, call.h>> # Null
  BY <1>1, CallFacts
<1>4. /\ handle.self = <<"jit", call.h>> /\ handle.exports = <<"exports", call.h>>
      /\ handle.backend = <<"backend", call.h>> /\ handle.externs = externs /\ handle.lljit = Null
      /\ handle.metadata = Null /\ handle.diagnostics = Null /\ handle.prefixText = Null
      /\ handle.symbols = SymbolsUnder(call.prefix)
  BY DEF NoHandle
<1>5. handle \in HandlesOf(call.h)
  <2>1. NoHandle \in HandlesOf(call.h)
    BY HostAssumption DEF NoHandle, HandlesOf, Opt
  <2>2. externs \in Opt(<<"externs", call.h>>)
    BY DEF JitCopyExternSymbols, If, Opt
  <2>3. SymbolsUnder(call.prefix) \in SUBSET (Prefixes \X {"f", "e"})
    <3>1. call.prefix \in Prefixes /\ "" \in Prefixes
      BY <1>1, CallFacts, HostAssumption DEF CallsOf
    <3>2. <<call.prefix, "f">> \in Prefixes \X {"f", "e"} /\ <<"", "e">> \in Prefixes \X {"f", "e"}
      BY <3>1
    <3> QED BY <3>2 DEF SymbolsUnder
  <2> QED BY <2>1, <2>2, <2>3 DEF HandlesOf, Opt
<1>6. /\ made = NonNull({<<"jit", call.h>>, <<"exports", call.h>>, <<"backend", call.h>>, externs})
      /\ externs \in {Null, <<"externs", call.h>>}
  BY <1>4 DEF JitCopyExternSymbols, If
<1> HIDE DEF handle, externs, made
<1>7. /\ \A x \in made : x \in {<<"jit", call.h>>, <<"exports", call.h>>, <<"backend", call.h>>, <<"externs", call.h>>}
      /\ <<"jit", call.h>> \in made /\ <<"exports", call.h>> \in made /\ <<"backend", call.h>> \in made
      /\ <<"externs", call.h>> \in made <=> externs # Null
  BY <1>3, <1>6 DEF NonNull, HandleKinds
<1>8. used \subseteq heap
  <2>1. call.mod \in heap
    BY <1>1, <1>2, CallFacts DEF CallSlots, CallsOf, Opt
  <2>2. call.built.externs # Null => call.built.externs \in heap
    BY <1>1, CallFacts DEF MySlots, SlotsOf, CallsOf, BuiltsOf, Opt
  <2> QED BY <2>1, <2>2 DEF NonNull
<1>9. made \cap heap = {}
  BY <1>1, <1>2, <1>7, NothingBuilt, CallFacts DEF MySlots, SlotsOf
<1>10. misused' = FALSE /\ heap' = (heap \ {}) \cup made
  BY <1>1, <1>8, <1>9, GoneShort, CallFacts DEF Heap
<1>11. call' \in CallsOf(call.h) /\ call' # Null
  <2>1. call' \in CallsOf(call.h)
    BY <1>1, <1>5, CallFacts DEF CallsOf, Point
  <2> QED BY <1>1, <2>1, CallFacts
<1>12. /\ call'.h = call.h /\ call'.op = call.op /\ call'.c = call.c /\ call'.pc = "machine" /\ call'.built = call.built
       /\ call'.handle = handle /\ call'.mod = call.mod /\ call'.ir = call.ir /\ call'.machine = call.machine
       /\ call'.triple = call.triple /\ call'.error = call.error /\ call'.prefix = call.prefix
  BY <1>1, CallFacts DEF CallsOf
<1>13. MySlots'
  <2>1. \A kind \in HandleKinds : <<kind, call.h>> \in heap' <=> <<kind, call.h>> \in heap \/ <<kind, call.h>> \in made
    BY <1>10
  <2>2. \A kind \in HandleKinds \ {"jit", "exports", "backend", "externs"} : <<kind, call.h>> \notin made
    BY <1>7
  <2> QED BY <1>1, <1>2, <1>3, <1>4, <1>7, <1>12, <2>1, <2>2, NothingBuilt, CallFacts DEF MySlots, SlotsOf, HandleKinds
<1>14. CallSlots'
  <2>1. \A kind \in CallKinds : <<kind, "call">> \notin {} \cup made
    BY <1>7 DEF CallKinds
  <2> QED BY <1>1, <1>10, <1>11, <1>12, <2>1, CallSlotsKept
<1>15. TextSlots'
  <2>1. \A x \in made : x[1] # "text"
    BY <1>7
  <2> QED BY <1>1, <1>10, <1>11, <1>12, <2>1, CallFacts DEF TextSlots, HostTexts
<1>16. PcInv' /\ MakingInv'
  BY <1>1, <1>2, <1>3, <1>4, <1>12, NothingBuilt, CallFacts DEF PcInv, MakingInv, Making, Loading, HandleKinds
<1>17. made \in SUBSET ObjectsFor(call.h)
  BY <1>3, <1>7 DEF HandleKinds
<1> QED BY <1>1, <1>10, <1>11, <1>13, <1>14, <1>15, <1>16, <1>17, CallStep

LEMMA MachineKeeps ==
  ASSUME MemoryInv, NEW ok \in BOOLEAN, JitCreateTargetMachine(ok), UNCHANGED contextVars
  PROVE  MemoryInv'
<1> DEFINE machine == <<"machine", "call">>
           error   == <<"message", "call">>
<1>1. call # Null /\ call.pc = "machine" /\ UNCHANGED <<compilers, jits, contexts, running>>
  BY DEF JitCreateTargetMachine, At, contextVars
<1>2. /\ call.built.mod # Null /\ call.built.ctx # Null /\ call.handle.lljit = Null /\ call.mod # Null
      /\ call.triple = Null /\ call.machine = Null /\ call.error = Null /\ call.ir = Null /\ call.op = "jit"
  BY <1>1, CallFacts DEF MakingInv, PcInv, Making
<1>3. \A kind \in {"machine", "message"} :
        <<kind, "call">> \notin heap /\ <<kind, "call">> \in ObjectsFor(call.h) /\ <<kind, "call">> # Null
  BY <1>1, <1>2, CallFacts DEF CallSlots, CallKinds
<1>4. CASE ok
  <2>1. Heap({call.built.mod}, <<>>, {machine}) /\ call' = [call EXCEPT !.pc = "optimize", !.machine = machine]
    BY <1>4 DEF JitCreateTargetMachine, CreateHostTargetMachine
  <2>2. misused' = FALSE /\ heap' = (heap \ {}) \cup {machine}
    BY <1>1, <1>2, <1>3, <2>1, ModuleFacts, GoneShort, CallFacts DEF Heap
  <2>3. call' \in CallsOf(call.h) /\ call' # Null
    <3>1. call' \in CallsOf(call.h)
      BY <1>1, <2>1, CallFacts DEF CallsOf, Point, Opt
    <3> QED BY <1>1, <3>1, CallFacts
  <2>4. /\ call'.h = call.h /\ call'.op = call.op /\ call'.c = call.c /\ call'.pc = "optimize"
        /\ call'.built = call.built /\ call'.handle = call.handle /\ call'.mod = call.mod /\ call'.ir = call.ir
        /\ call'.machine = machine /\ call'.triple = call.triple /\ call'.error = call.error /\ call'.prefix = call.prefix
    BY <1>1, <2>1, CallFacts DEF CallsOf
  <2>5. MySlots'
    <3>1. \A x \in {} \cup {machine} : x[1] \notin HandleKinds
      BY DEF HandleKinds
    <3> QED BY <1>1, <2>2, <2>4, <3>1, MySlotsKept
  <2>6. CallSlots'
    <3>1. \A kind \in CallKinds : <<kind, "call">> \in heap' <=> <<kind, "call">> \in heap \/ kind = "machine"
      BY <2>2
    <3> QED BY <1>1, <1>3, <2>3, <2>4, <3>1, CallFacts DEF CallSlots, CallKinds
  <2>7. TextSlots'
    BY <1>1, <2>2, <2>3, <2>4, CallFacts DEF TextSlots, HostTexts
  <2>8. PcInv' /\ MakingInv'
    BY <1>1, <1>2, <1>3, <2>4, CallFacts DEF PcInv, MakingInv, Making, Loading
  <2>9. {machine} \in SUBSET ObjectsFor(call.h) /\ {} \in SUBSET ObjectsFor(call.h)
    BY <1>3
  <2> QED BY <1>1, <2>2, <2>3, <2>5, <2>6, <2>7, <2>8, <2>9, CallStep
<1>5. CASE ~ok
  <2>1. Heap({}, DisposeBuiltModuleOnError, {error}) /\ call' = [LoadFails EXCEPT !.built = WithoutModule(@)]
    BY <1>5 DEF JitCreateTargetMachine, CreateHostTargetMachine
  <2>2. misused' = FALSE /\ heap' = (heap \ {call.built.mod, call.built.ctx}) \cup {error}
    BY <1>1, <1>2, <1>3, <2>1, ModuleFacts, CallFacts DEF Heap
  <2>3. NonNull({call.machine, call.handle.lljit}) = {}
    BY <1>2 DEF NonNull
  <2> QED BY <1>1, <1>2, <2>1, <2>2, <2>3, FailStep, FailFields
<1> QED BY <1>4, <1>5

\* The machine, the module and its context go together.
LEMMA MachineGone ==
  ASSUME MemoryInv, call # Null, call.built.mod # Null, call.built.ctx # Null,
         call.machine = <<"machine", "call">>, call.machine \in heap
  PROVE  /\ Gone(<<call.machine>> \o DisposeBuiltModuleOnError) = {call.machine, call.built.mod, call.built.ctx}
         /\ ~Twice(<<call.machine>> \o DisposeBuiltModuleOnError)
<1> DEFINE own == <<call.machine>>
           S   == Objects \cup {Null}
<1>1. Gone(own) = {call.machine} /\ ~Twice(own) /\ own \in Seq(S)
  <2>1. call.machine \in Objects /\ call.machine # Null
    BY ObjectsAssumption DEF MemoryInv
  <2> QED BY <2>1, GoneShort DEF NonNull
<1>2. /\ Gone(DisposeBuiltModuleOnError) = {call.built.mod, call.built.ctx} /\ ~Twice(DisposeBuiltModuleOnError)
      /\ DisposeBuiltModuleOnError \in Seq(S)
      /\ call.machine # call.built.mod /\ call.machine # call.built.ctx
  BY ModuleFacts
<1> HIDE DEF own, S
<1>3. /\ Gone(own \o DisposeBuiltModuleOnError) = Gone(own) \cup Gone(DisposeBuiltModuleOnError)
      /\ ~Twice(own) /\ ~Twice(DisposeBuiltModuleOnError) /\ Gone(own) \cap Gone(DisposeBuiltModuleOnError) = {}
           => ~Twice(own \o DisposeBuiltModuleOnError)
  BY <1>1, <1>2, GoneConcat
<1>4. Gone(own) \cap Gone(DisposeBuiltModuleOnError) = {}
  BY <1>1, <1>2
<1> QED BY <1>1, <1>2, <1>3, <1>4 DEF own

LEMMA PipelineKeeps ==
  ASSUME MemoryInv, NEW ok \in BOOLEAN, JitRunOptimizationPipeline(ok), UNCHANGED contextVars
  PROVE  MemoryInv'
<1> DEFINE machine == <<"machine", "call">>
           error   == <<"message", "call">>
<1>1. call # Null /\ call.pc = "optimize" /\ UNCHANGED <<compilers, jits, contexts, running>>
  BY DEF JitRunOptimizationPipeline, At, contextVars
<1>2. /\ call.built.mod # Null /\ call.built.ctx # Null /\ call.handle.lljit = Null /\ call.mod # Null
      /\ call.triple = Null /\ call.error = Null /\ call.ir = Null /\ call.op = "jit" /\ call.machine = machine
  BY <1>1, CallFacts DEF MakingInv, PcInv, Making, CallsOf, Opt
<1>3. machine \in heap /\ error \notin heap /\ machine # Null
  BY <1>1, <1>2, CallFacts DEF CallSlots, CallKinds
<1>4. CASE ok
  <2>1. Heap({call.machine, call.built.mod}, <<>>, {}) /\ GoTo("lljit")
    BY <1>4 DEF JitRunOptimizationPipeline
  <2>2. misused' = FALSE /\ heap' = (heap \ {}) \cup {}
    BY <1>1, <1>2, <1>3, <2>1, ModuleFacts, GoneShort, CallFacts DEF Heap
  <2>3. call' = [call EXCEPT !.pc = "lljit"]
    BY <2>1 DEF GoTo
  <2>4. TextSlots'
    BY <1>1, <2>2, <2>3, CallFacts DEF TextSlots, HostTexts, CallsOf
  <2>5. PcInv' /\ MakingInv'
    BY <1>1, <1>2, <2>3, CallFacts DEF PcInv, MakingInv, Making, Loading, CallsOf
  <2>6. "lljit" \in Point /\ {} \in SUBSET TextObjects
    BY DEF Point
  <2> QED BY <1>1, <2>1, <2>2, <2>4, <2>5, <2>6, GoStep
<1>5. CASE ~ok
  <2>1. /\ Heap({}, <<call.machine>> \o DisposeBuiltModuleOnError, {error})
        /\ call' = [LoadFails EXCEPT !.built = WithoutModule(@), !.machine = Null]
    BY <1>5 DEF JitRunOptimizationPipeline
  <2>2. /\ Gone(<<call.machine>> \o DisposeBuiltModuleOnError) = {call.machine, call.built.mod, call.built.ctx}
        /\ ~Twice(<<call.machine>> \o DisposeBuiltModuleOnError)
    BY <1>1, <1>2, <1>3, MachineGone
  <2>3. misused' = FALSE /\ heap' = (heap \ {call.machine, call.built.mod, call.built.ctx}) \cup {error}
    BY <1>1, <1>2, <1>3, <2>1, <2>2, ModuleFacts, CallFacts DEF Heap
  <2>4. NonNull({call.machine, call.handle.lljit}) = {call.machine}
    BY <1>2, <1>3 DEF NonNull
  <2>5. heap' = (heap \ ({call.built.mod, call.built.ctx} \cup NonNull({call.machine, call.handle.lljit}))) \cup {error}
    BY <2>3, <2>4
  <2> QED BY <1>1, <1>2, <2>1, <2>3, <2>5, FailStep, FailFields
<1> QED BY <1>4, <1>5

LEMMA SessionKeeps ==
  ASSUME MemoryInv, NEW ok \in BOOLEAN, JitCreateLLJIT(ok), UNCHANGED contextVars
  PROVE  MemoryInv'
<1> DEFINE machine == <<"machine", "call">>
           error   == <<"message", "call">>
           lljit   == <<"lljit", call.h>>
           handle  == [call.handle EXCEPT !.lljit = lljit]
<1>1. call # Null /\ call.pc = "lljit" /\ UNCHANGED <<compilers, jits, contexts, running>>
  BY DEF JitCreateLLJIT, At, contextVars
<1>2. /\ call.built.mod # Null /\ call.built.ctx # Null /\ call.handle.lljit = Null /\ call.mod # Null
      /\ call.triple = Null /\ call.error = Null /\ call.ir = Null /\ call.op = "jit" /\ call.machine = machine
      /\ call.handle.self # Null /\ call.handle.symbols = SymbolsUnder(call.prefix)
      /\ call.handle.metadata = Null /\ call.handle.diagnostics = Null /\ call.handle.prefixText = Null
  BY <1>1, CallFacts DEF MakingInv, PcInv, Making, CallsOf, Opt
<1>3. machine \in heap /\ error \notin heap /\ machine # Null /\ machine \in ObjectsFor(call.h)
  BY <1>1, <1>2, CallFacts DEF CallSlots, CallKinds
<1>4. CASE ok
  <2>1. /\ Heap({}, <<call.machine>>, {lljit})
        /\ call' = [call EXCEPT !.pc = "add", !.machine = Null, !.handle = handle]
    BY <1>4 DEF JitCreateLLJIT
  <2>2. lljit \notin heap /\ lljit \in ObjectsFor(call.h) /\ lljit # Null
    BY <1>1, <1>2, CallFacts DEF MySlots, SlotsOf, HandleKinds
  <2>3. misused' = FALSE /\ heap' = (heap \ {machine}) \cup {lljit}
    <3>1. Gone(<<call.machine>>) = {machine} /\ ~Twice(<<call.machine>>)
      BY <1>2, <1>3, GoneShort DEF NonNull
    <3> QED BY <1>1, <1>3, <2>1, <2>2, <3>1, CallFacts DEF Heap
  <2>4. /\ handle \in HandlesOf(call.h) /\ handle.lljit = lljit
        /\ handle.self = call.handle.self /\ handle.backend = call.handle.backend
        /\ handle.exports = call.handle.exports /\ handle.externs = call.handle.externs
        /\ handle.metadata = call.handle.metadata /\ handle.diagnostics = call.handle.diagnostics
        /\ handle.prefixText = call.handle.prefixText /\ handle.symbols = call.handle.symbols
    BY <1>1, CallFacts DEF CallsOf, HandlesOf, Opt
  <2> HIDE DEF handle
  <2>5. call' \in CallsOf(call.h) /\ call' # Null
    <3>1. call' \in CallsOf(call.h)
      BY <1>1, <2>1, <2>4, CallFacts DEF CallsOf, Point, Opt
    <3> QED BY <1>1, <3>1, CallFacts
  <2>6. /\ call'.h = call.h /\ call'.op = call.op /\ call'.c = call.c /\ call'.pc = "add"
        /\ call'.built = call.built /\ call'.handle = handle /\ call'.mod = call.mod /\ call'.ir = call.ir
        /\ call'.machine = Null /\ call'.triple = call.triple /\ call'.error = call.error /\ call'.prefix = call.prefix
    BY <1>1, <2>1, CallFacts DEF CallsOf
  <2>7. MySlots'
    <3>1. \A kind \in HandleKinds : <<kind, call.h>> \in heap' <=> <<kind, call.h>> \in heap \/ kind = "lljit"
      BY <2>3 DEF HandleKinds
    <3> QED BY <1>1, <2>2, <2>4, <2>6, <3>1, CallFacts DEF MySlots, SlotsOf, HandleKinds
  <2>8. CallSlots'
    <3>1. \A kind \in CallKinds : <<kind, "call">> \in heap' <=> <<kind, "call">> \in heap /\ kind # "machine"
      BY <2>3 DEF CallKinds
    <3> QED BY <1>1, <1>3, <2>5, <2>6, <3>1, CallFacts DEF CallSlots, CallKinds
  <2>9. TextSlots'
    BY <1>1, <2>3, <2>5, <2>6, CallFacts DEF TextSlots, HostTexts
  <2>10. PcInv' /\ MakingInv'
    BY <1>1, <1>2, <2>2, <2>4, <2>6, CallFacts DEF PcInv, MakingInv, Making, Loading
  <2>11. {machine} \in SUBSET ObjectsFor(call.h) /\ {lljit} \in SUBSET ObjectsFor(call.h)
    BY <1>3, <2>2
  <2> QED BY <1>1, <2>3, <2>5, <2>7, <2>8, <2>9, <2>10, <2>11, CallStep
<1>5. CASE ~ok
  <2>1. /\ Heap({}, <<call.machine>> \o DisposeBuiltModuleOnError, {error})
        /\ call' = [LoadFails EXCEPT !.built = WithoutModule(@), !.machine = Null]
    BY <1>5 DEF JitCreateLLJIT
  <2>2. /\ Gone(<<call.machine>> \o DisposeBuiltModuleOnError) = {call.machine, call.built.mod, call.built.ctx}
        /\ ~Twice(<<call.machine>> \o DisposeBuiltModuleOnError)
    BY <1>1, <1>2, <1>3, MachineGone
  <2>3. misused' = FALSE /\ heap' = (heap \ {call.machine, call.built.mod, call.built.ctx}) \cup {error}
    BY <1>1, <1>2, <1>3, <2>1, <2>2, ModuleFacts, CallFacts DEF Heap
  <2>4. NonNull({call.machine, call.handle.lljit}) = {call.machine}
    BY <1>2, <1>3 DEF NonNull
  <2>5. heap' = (heap \ ({call.built.mod, call.built.ctx} \cup NonNull({call.machine, call.handle.lljit}))) \cup {error}
    BY <2>3, <2>4
  <2> QED BY <1>1, <1>2, <2>1, <2>3, <2>5, FailStep, FailFields
<1> QED BY <1>4, <1>5

LEMMA AddKeeps ==
  ASSUME MemoryInv, NEW ok \in BOOLEAN, JitAddModule(ok), UNCHANGED contextVars
  PROVE  MemoryInv'
<1> DEFINE error == <<"message", "call">>
           lljit == <<"lljit", call.h>>
           gone  == {call.built.mod, call.built.ctx}
<1>1. call # Null /\ call.pc = "add" /\ UNCHANGED <<compilers, jits, contexts, running>>
  BY DEF JitAddModule, At, contextVars
<1>2. /\ call.built.mod # Null /\ call.built.ctx # Null /\ call.handle.lljit = lljit /\ call.mod # Null
      /\ call.triple = Null /\ call.error = Null /\ call.ir = Null /\ call.op = "jit" /\ call.machine = Null
      /\ call.handle.self # Null /\ call.handle.symbols = SymbolsUnder(call.prefix)
      /\ call.handle.metadata = Null /\ call.handle.diagnostics = Null /\ call.handle.prefixText = Null
  BY <1>1, CallFacts DEF MakingInv, PcInv, Making, CallsOf, HandlesOf, Opt
<1>3. lljit \in heap /\ lljit # Null /\ error \notin heap
  BY <1>1, <1>2, CallFacts DEF MySlots, SlotsOf, HandleKinds, CallSlots
<1>4. /\ gone \subseteq heap /\ ~Twice(DisposeBuiltModuleOnError) /\ Gone(DisposeBuiltModuleOnError) = gone
      /\ call.built.mod = <<"module", call.h>> /\ call.built.ctx = <<"llcontext", call.h>>
  BY <1>1, <1>2, ModuleFacts
<1>5. CASE ok
  <2>1. /\ Heap({call.handle.lljit}, DisposeBuiltModuleOnError, {})
        /\ call' = [call EXCEPT !.pc = "publish", !.built = WithoutModule(call.built)]
    BY <1>5 DEF JitAddModule
  <2>2. misused' = FALSE /\ heap' = (heap \ gone) \cup {}
    BY <1>1, <1>2, <1>3, <1>4, <2>1, CallFacts DEF Heap
  <2>3. /\ WithoutModule(call.built) \in BuiltsOf(call.h)
        /\ WithoutModule(call.built).mod = Null /\ WithoutModule(call.built).ctx = Null
        /\ WithoutModule(call.built).externs = call.built.externs
        /\ WithoutModule(call.built).metadata = call.built.metadata
    BY <1>1, CallFacts DEF CallsOf, BuiltsOf, WithoutModule, Opt
  <2>4. call' \in CallsOf(call.h) /\ call' # Null
    <3>1. call' \in CallsOf(call.h)
      BY <1>1, <2>1, <2>3, CallFacts DEF CallsOf, Point
    <3> QED BY <1>1, <3>1, CallFacts
  <2>5. /\ call'.h = call.h /\ call'.op = call.op /\ call'.c = call.c /\ call'.pc = "publish"
        /\ call'.built = WithoutModule(call.built) /\ call'.handle = call.handle /\ call'.mod = call.mod
        /\ call'.ir = call.ir /\ call'.machine = Null /\ call'.triple = call.triple /\ call'.error = call.error
        /\ call'.prefix = call.prefix
    BY <1>1, <1>2, <2>1, CallFacts DEF CallsOf
  <2>6. MySlots'
    <3>1. \A kind \in HandleKinds : <<kind, call.h>> \in heap' <=> <<kind, call.h>> \in heap /\ kind \notin {"module", "llcontext"}
      BY <1>4, <2>2
    <3> QED BY <1>1, <2>3, <2>5, <3>1, CallFacts DEF MySlots, SlotsOf, HandleKinds
  <2>7. CallSlots'
    <3>1. \A kind \in CallKinds : <<kind, "call">> \notin gone \cup {}
      BY <1>4 DEF CallKinds
    <3> QED BY <1>1, <1>2, <2>2, <2>4, <2>5, <3>1, CallSlotsKept
  <2>8. TextSlots'
    <3>1. \A x \in gone : x[1] # "text"
      BY <1>4
    <3> QED BY <1>1, <2>2, <2>4, <2>5, <3>1, CallFacts DEF TextSlots, HostTexts
  <2>9. PcInv' /\ MakingInv'
    BY <1>1, <1>2, <1>3, <2>3, <2>5, CallFacts DEF PcInv, MakingInv, Making, Loading
  <2>10. gone \in SUBSET ObjectsFor(call.h) /\ {} \in SUBSET ObjectsFor(call.h)
    BY <1>1, <1>4, CallFacts DEF HandleKinds
  <2> QED BY <1>1, <2>2, <2>4, <2>6, <2>7, <2>8, <2>9, <2>10, CallStep
<1>6. CASE ~ok
  <2> DEFINE last  == <<call.handle.lljit>>
             freed == DisposeBuiltModuleOnError \o last
             S     == Objects \cup {Null}
  <2>1. Heap({}, freed, {error}) /\ call' = [LoadFails EXCEPT !.built = WithoutModule(@), !.handle.lljit = Null]
    BY <1>6 DEF JitAddModule
  <2>2. Gone(last) = {lljit} /\ ~Twice(last) /\ last \in Seq(S) /\ DisposeBuiltModuleOnError \in Seq(S)
    <3>1. lljit \in S
      BY <1>3 DEF MemoryInv
    <3> QED BY SMTT(30), <1>1, <1>2, <1>3, <3>1, ModuleFacts, GoneShort DEF NonNull
  <2>3. last = <<lljit>>
    BY <1>2
  <2> HIDE DEF last, S
  <2>4. /\ Gone(freed) = gone \cup {lljit}
        /\ ~Twice(DisposeBuiltModuleOnError) /\ ~Twice(last) /\ gone \cap {lljit} = {} => ~Twice(freed)
    BY <1>4, <2>2, GoneConcat
  <2>5. Gone(freed) = gone \cup {lljit} /\ ~Twice(freed)
    BY <1>4, <2>2, <2>4
  <2> HIDE DEF freed
  <2>6. misused' = FALSE /\ heap' = (heap \ (gone \cup {lljit})) \cup {error}
    BY <1>1, <1>3, <1>4, <2>1, <2>5, CallFacts DEF Heap
  <2>7. NonNull({call.machine, call.handle.lljit}) = {lljit}
    BY <1>2, <1>3 DEF NonNull
  <2> QED BY <1>1, <1>2, <2>1, <2>6, <2>7, FailStep, FailFields
<1> QED BY <1>5, <1>6

\* What LLVMJitDestroy frees of a handle is there, each object once.
LEMMA BackendFacts ==
  ASSUME NEW h \in Targets, NEW r \in HandlesOf(h), NEW b, SlotsOf(h, r, b), heap \subseteq Objects
  PROVE  LET freed == LLVMJitDestroy(r)
         IN  /\ Gone(freed) = NonNull({r.lljit, r.externs, r.backend}) /\ ~Twice(freed)
             /\ freed \in Seq(Objects \cup {Null}) /\ Gone(freed) \subseteq heap
             /\ \A x \in Gone(freed) : x \in {<<"lljit", h>>, <<"externs", h>>, <<"backend", h>>}
             /\ \A kind \in {"lljit", "externs", "backend"} : <<kind, h>> \in heap => <<kind, h>> \in Gone(freed)
<1> DEFINE freed == LLVMJitDestroy(r)
<1>1. /\ r.lljit \in {Null, <<"lljit", h>>} /\ r.externs \in {Null, <<"externs", h>>}
      /\ r.backend \in {Null, <<"backend", h>>}
  BY DEF HandlesOf, Opt
<1>2. Gone(freed) = NonNull({r.lljit, r.externs, r.backend}) /\ ~Twice(freed)
  BY <1>1, GoneLong DEF LLVMJitDestroy
<1>3. /\ r.lljit # Null <=> <<"lljit", h>> \in heap
      /\ r.externs # Null <=> <<"externs", h>> \in heap
      /\ r.backend # Null <=> <<"backend", h>> \in heap
  BY DEF SlotsOf
<1>4. Gone(freed) \subseteq heap /\ \A x \in Gone(freed) : x \in {<<"lljit", h>>, <<"externs", h>>, <<"backend", h>>}
  BY <1>1, <1>2, <1>3 DEF NonNull
<1>5. freed \in Seq(Objects \cup {Null})
  BY <1>1, <1>3 DEF LLVMJitDestroy
<1>6. \A kind \in {"lljit", "externs", "backend"} : <<kind, h>> \in heap => <<kind, h>> \in Gone(freed)
  BY <1>1, <1>2, <1>3 DEF NonNull
<1> QED BY <1>2, <1>4, <1>5, <1>6

\* A handle that could not be filled is freed with all it had.
LEMMA LoadFailedKeeps ==
  ASSUME MemoryInv, LoadFailed, UNCHANGED contextVars
  PROVE  MemoryInv'
<1> DEFINE first   == <<call.error>>
           backend == LLVMJitDestroy(call.handle)
           built   == BuiltModuleDispose(call.built)
           last    == <<call.handle.exports, call.handle.self>>
           freed   == first \o backend \o built \o last
           S       == Objects \cup {Null}
           error   == <<"message", "call">>
<1>1. /\ call # Null /\ call.pc = "loadfailed" /\ Heap({call.error}, freed, {Error})
      /\ call' = [call EXCEPT !.pc = "teardown", !.error = Null, !.built = NoBuilt, !.handle = NoHandle]
      /\ UNCHANGED <<compilers, jits, contexts, running>>
  BY DEF LoadFailed, At, contextVars
<1>2. /\ call.error = error /\ call.mod # Null /\ call.machine = Null /\ call.ir = Null /\ call.triple = Null
      /\ call.handle.metadata = Null /\ call.handle.diagnostics = Null /\ call.handle.prefixText = Null
      /\ call.handle \in HandlesOf(call.h)
      /\ call.handle.exports \in {Null, <<"exports", call.h>>} /\ call.handle.self \in {Null, <<"jit", call.h>>}
  BY <1>1, CallFacts DEF MakingInv, PcInv, Making, CallsOf, HandlesOf, Opt
<1>3. error \in heap /\ error \in S /\ error # Null /\ error \in ObjectsFor(call.h)
  BY <1>1, <1>2, CallFacts DEF CallSlots, CallKinds, MemoryInv
<1>4. Error \notin heap /\ Error \in ObjectsFor(call.h)
  BY <1>1, CallFacts DEF TextSlots, HostTexts, Error, TextObjects
<1>5. Gone(first) = {error} /\ ~Twice(first) /\ first \in Seq(S)
  BY <1>2, <1>3, GoneShort DEF NonNull
<1>6. /\ ~Twice(backend) /\ backend \in Seq(S) /\ Gone(backend) \subseteq heap
      /\ \A x \in Gone(backend) : x \in {<<"lljit", call.h>>, <<"externs", call.h>>, <<"backend", call.h>>}
      /\ \A kind \in {"lljit", "externs", "backend"} : <<kind, call.h>> \in heap => <<kind, call.h>> \in Gone(backend)
  BY <1>1, <1>2, CallFacts, BackendFacts DEF MySlots, MemoryInv
<1>7. /\ ~Twice(built) /\ built \in Seq(S) /\ Gone(built) \subseteq heap
      /\ \A x \in Gone(built) : x \in {<<"module", call.h>>, <<"llcontext", call.h>>, <<"names", call.h>>, <<"metadata", call.h>>}
  BY <1>1, DisposeFacts
<1>8. /\ <<"exports", call.h>> \in heap <=> call.handle.exports # Null
      /\ <<"jit", call.h>> \in heap <=> call.handle.self # Null
  BY <1>1, CallFacts DEF MySlots, SlotsOf
<1>9. /\ ~Twice(last) /\ last \in Seq(S) /\ Gone(last) \subseteq heap
      /\ \A x \in Gone(last) : x \in {<<"exports", call.h>>, <<"jit", call.h>>}
      /\ <<"exports", call.h>> \in heap => <<"exports", call.h>> \in Gone(last)
      /\ <<"jit", call.h>> \in heap => <<"jit", call.h>> \in Gone(last)
  <2>1. Gone(last) = NonNull({call.handle.exports, call.handle.self}) /\ ~Twice(last)
    BY <1>2, GoneShort
  <2>2. call.handle.exports \in S /\ call.handle.self \in S
    BY <1>2, <1>8 DEF MemoryInv
  <2> QED BY <1>2, <1>8, <2>1, <2>2 DEF NonNull
<1> HIDE DEF first, backend, built, last, S, freed
<1>21. /\ \A x \in Gone(first) : x[1] = "message"
       /\ \A x \in Gone(backend) : x[1] \in {"lljit", "externs", "backend"}
       /\ \A x \in Gone(built) : x[1] \in {"module", "llcontext", "names", "metadata"}
       /\ \A x \in Gone(last) : x[1] \in {"exports", "jit"}
  BY <1>5, <1>6, <1>7, <1>9
<1>10. /\ ~Twice(freed)
       /\ Gone(freed) = Gone(first) \cup Gone(backend) \cup Gone(built) \cup Gone(last)
  <2> DEFINE three == first \o backend \o built
  <2>1. three \in Seq(S) /\ ~Twice(three) /\ Gone(three) = Gone(first) \cup Gone(backend) \cup Gone(built)
    <3>1. Gone(first) \cap Gone(backend) = {} /\ Gone(first) \cap Gone(built) = {} /\ Gone(backend) \cap Gone(built) = {}
      BY <1>21
    <3> DEFINE two == first \o backend
    <3>2. two \in Seq(S) /\ Gone(two) = Gone(first) \cup Gone(backend) /\ ~Twice(two)
      BY <1>5, <1>6, <3>1, GoneConcat
    <3>3. three = two \o built /\ Gone(two) \cap Gone(built) = {}
      BY <3>1, <3>2
    <3> HIDE DEF two, three
    <3>4. two \o built \in Seq(S) /\ Gone(two \o built) = Gone(two) \cup Gone(built) /\ ~Twice(two \o built)
      BY <1>7, <3>2, <3>3, GoneConcat
    <3> QED BY <3>2, <3>3, <3>4
  <2>2. Gone(three) \cap Gone(last) = {}
    BY <1>21, <2>1
  <2>3. freed = three \o last
    BY DEF freed
  <2> HIDE DEF three
  <2>4. Gone(three \o last) = Gone(three) \cup Gone(last) /\ ~Twice(three \o last)
    BY <1>9, <2>1, <2>2, GoneConcat
  <2> QED BY <2>1, <2>3, <2>4
<1> DEFINE gone == Gone(first) \cup Gone(backend) \cup Gone(last)
<1>11. /\ misused' = FALSE /\ heap' = (heap \ (Gone(built) \cup gone)) \cup {Error}
  <2>1. Gone(freed) \subseteq heap /\ misused = FALSE /\ {call.error} \subseteq heap
    BY <1>1, <1>2, <1>3, <1>5, <1>6, <1>7, <1>9, <1>10, CallFacts
  <2>2. Gone(freed) = Gone(built) \cup gone
    BY <1>10
  <2>3. {Error} \cap (heap \ Gone(freed)) = {}
    BY <1>4
  <2> HIDE DEF gone
  <2>4. misused' = FALSE /\ heap' = (heap \ Gone(freed)) \cup {Error}
    BY <1>1, <1>10, <2>1, <2>3 DEF Heap
  <2> QED BY <2>2, <2>4
<1>12. call' \in CallsOf(call.h) /\ call' # Null
  <2>1. call' \in CallsOf(call.h)
    BY <1>1, NothingTyped, CallFacts DEF CallsOf, Point, Opt
  <2> QED BY <1>1, <2>1, CallFacts
<1>13. /\ call'.h = call.h /\ call'.op = call.op /\ call'.c = call.c /\ call'.pc = "teardown"
       /\ call'.built = NoBuilt /\ call'.handle = NoHandle /\ call'.mod = call.mod
       /\ call'.ir = call.ir /\ call'.machine = Null /\ call'.triple = call.triple /\ call'.error = Null
  BY <1>1, <1>2, CallFacts DEF CallsOf
<1>14. \A kind \in HandleKinds : <<kind, call.h>> \notin heap'
  <2>1. \A kind \in {"module", "llcontext", "names", "metadata"} : <<kind, call.h>> \in heap => <<kind, call.h>> \in Gone(built)
    <3>1. Gone(built) = NonNull({call.built.mod, call.built.ctx, call.built.externs, call.built.metadata})
      BY <1>1, DisposeFacts DEF built
    <3>2. /\ call.built.mod # Null => call.built.mod = <<"module", call.h>>
          /\ call.built.ctx # Null => call.built.ctx = <<"llcontext", call.h>>
          /\ call.built.externs # Null => call.built.externs = <<"names", call.h>>
          /\ call.built.metadata # Null => call.built.metadata = <<"metadata", call.h>>
      BY <1>1, CallFacts DEF CallsOf, BuiltsOf, Opt
    <3>3. /\ <<"module", call.h>> \in heap => call.built.mod # Null
          /\ <<"llcontext", call.h>> \in heap => call.built.ctx # Null
          /\ <<"names", call.h>> \in heap => call.built.externs # Null
          /\ <<"metadata", call.h>> \in heap => call.built.metadata # Null
      BY <1>1, <1>2, CallFacts DEF MySlots, SlotsOf
    <3> QED BY <3>1, <3>2, <3>3 DEF NonNull
  <2>2. <<"diagnostics", call.h>> \notin heap /\ <<"prefixText", call.h>> \notin heap
    BY <1>1, <1>2, CallFacts DEF MySlots, SlotsOf
  <2>3. \A kind \in HandleKinds : <<kind, call.h>> \in heap => <<kind, call.h>> \in Gone(built) \cup gone
    BY <1>6, <1>9, <2>1, <2>2 DEF HandleKinds
  <2>4. \A kind \in HandleKinds : <<kind, call.h>> # Error
    BY DEF HandleKinds, Error
  <2> QED BY <1>11, <2>3, <2>4
<1>15. MySlots'
  BY <1>13, <1>14, NothingBuilt DEF MySlots, SlotsOf, HandleKinds
<1>16. \A x \in Gone(built) \cup gone : x = error \/ (x[1] \in HandleKinds /\ x \in ObjectsFor(call.h))
  <2>1. \A kind \in HandleKinds : <<kind, call.h>> \in ObjectsFor(call.h)
    BY <1>1, CallFacts
  <2>2. \A x \in Gone(backend) \cup Gone(built) \cup Gone(last) : \E kind \in HandleKinds : x = <<kind, call.h>>
    BY <1>6, <1>7, <1>9 DEF HandleKinds
  <2> QED BY <1>5, <2>1, <2>2
<1> HIDE DEF gone
<1>17. CallSlots'
  <2>1. \A kind \in CallKinds : <<kind, "call">> \in heap' <=> <<kind, "call">> \in heap /\ kind # "message"
    <3>1. \A kind \in CallKinds : kind # "message" => <<kind, "call">> \notin Gone(built) \cup gone
      BY <1>16 DEF CallKinds, HandleKinds
    <3>2. error \in gone
      BY <1>5 DEF gone
    <3> QED BY <1>11, <3>1, <3>2 DEF CallKinds, Error
  <2> QED BY <1>1, <1>2, <1>12, <1>13, <2>1, CallFacts DEF CallSlots, CallKinds
<1>18. TextSlots'
  <2>1. \A x \in Gone(built) \cup gone : x[1] # "text"
    BY <1>16 DEF HandleKinds
  <2> QED BY <1>1, <1>11, <1>13, <2>1, CallFacts DEF TextSlots, Error
<1>19. PcInv' /\ MakingInv'
  BY <1>1, <1>2, <1>13, NothingBuilt, CallFacts DEF PcInv, MakingInv, Making, Loading
<1>20. Gone(built) \cup gone \in SUBSET ObjectsFor(call.h) /\ {Error} \in SUBSET ObjectsFor(call.h)
  BY <1>3, <1>4, <1>16
<1> QED BY <1>1, <1>11, <1>12, <1>15, <1>17, <1>18, <1>19, <1>20, CallStep

\* The metadata goes on with the handle, the rest of the module is disposed of.
LEMMA PublishKeeps ==
  ASSUME MemoryInv, Publish, UNCHANGED contextVars
  PROVE  MemoryInv'
<1> DEFINE text   == If(call.prefix # "", <<"prefixText", call.h>>)
           diag   == <<"diagnostics", call.h>>
           handle == [call.handle EXCEPT !.metadata = call.built.metadata, !.diagnostics = diag,
                                         !.prefix = call.prefix, !.prefixText = text]
           freed  == BuiltModuleDispose([call.built EXCEPT !.metadata = Null])
           gone   == NonNull({call.built.externs})
           made   == NonNull({diag, text})
<1>1. /\ call # Null /\ call.pc = "publish" /\ Heap(NonNull({PrefixOf(call.c)}), freed, NonNull({handle.diagnostics, handle.prefixText}))
      /\ call' = [call EXCEPT !.pc = "teardown", !.built = NoBuilt, !.handle = handle]
      /\ UNCHANGED <<compilers, jits, contexts, running>>
  BY DEF Publish, At, contextVars
<1>2. /\ call.built.mod = Null /\ call.built.ctx = Null /\ call.handle.lljit # Null /\ call.mod # Null
      /\ call.triple = Null /\ call.error = Null /\ call.ir = Null /\ call.op = "jit" /\ call.machine = Null
      /\ call.handle.self # Null /\ call.handle.symbols = SymbolsUnder(call.prefix) /\ call.h \in Jits
      /\ call.handle.metadata = Null /\ call.handle.diagnostics = Null /\ call.handle.prefixText = Null
      /\ call.prefix \in Prefixes
      /\ call.built.externs \in {Null, <<"names", call.h>>} /\ call.built.metadata \in {Null, <<"metadata", call.h>>}
  BY <1>1, CallFacts DEF MakingInv, PcInv, Making, CallsOf, BuiltsOf, Opt
<1>3. \A kind \in HandleKinds : <<kind, call.h>> \in ObjectsFor(call.h) /\ <<kind, call.h>> # Null
  BY <1>1, CallFacts
<1>4. text \in {Null, <<"prefixText", call.h>>} /\ diag # Null
  BY <1>3 DEF If, HandleKinds
<1> HIDE DEF text
<1>5. /\ handle \in HandlesOf(call.h) /\ handle.self = call.handle.self /\ handle.backend = call.handle.backend
      /\ handle.exports = call.handle.exports /\ handle.lljit = call.handle.lljit
      /\ handle.externs = call.handle.externs /\ handle.metadata = call.built.metadata /\ handle.diagnostics = diag
      /\ handle.prefix = call.prefix /\ handle.prefixText = text /\ handle.symbols = call.handle.symbols
  BY ZenonT(60), <1>1, <1>2, <1>4, CallFacts DEF CallsOf, HandlesOf, Opt
<1>6. Gone(freed) = gone /\ ~Twice(freed)
  <2> DEFINE built == [call.built EXCEPT !.metadata = Null]
  <2>1. built.mod = Null /\ built.ctx = Null /\ built.externs = call.built.externs /\ built.metadata = Null
    BY <1>1, <1>2, CallFacts DEF CallsOf, BuiltsOf
  <2> HIDE DEF built
  <2>2. Gone(BuiltModuleDispose(built)) = NonNull({built.mod, built.ctx, built.externs, built.metadata})
        /\ ~Twice(BuiltModuleDispose(built))
    BY <2>1, GoneLong DEF BuiltModuleDispose
  <2>3. NonNull({built.mod, built.ctx, built.externs, built.metadata}) = gone
    BY <2>1 DEF NonNull
  <2> QED BY <2>2, <2>3 DEF built
<1>7. /\ diag \notin heap /\ <<"prefixText", call.h>> \notin heap /\ <<"module", call.h>> \notin heap
      /\ <<"llcontext", call.h>> \notin heap
      /\ <<"names", call.h>> \in heap <=> call.built.externs # Null
      /\ <<"metadata", call.h>> \in heap <=> call.built.metadata # Null
  BY <1>1, <1>2, CallFacts DEF MySlots, SlotsOf
<1>8. /\ gone \subseteq heap /\ (\A x \in gone : x = <<"names", call.h>>)
      /\ <<"names", call.h>> \in heap => <<"names", call.h>> \in gone
      /\ \A x \in made : x \in {diag, <<"prefixText", call.h>>}
      /\ diag \in made /\ (<<"prefixText", call.h>> \in made <=> text # Null)
  BY <1>2, <1>4, <1>7 DEF NonNull
<1> HIDE DEF handle, freed, gone, made
<1>9. misused' = FALSE /\ heap' = (heap \ gone) \cup made
  <2>1. NonNull({PrefixOf(call.c)}) \subseteq heap /\ misused = FALSE
    BY <1>1, CallFacts, SettingsThere
  <2>2. NonNull({handle.diagnostics, handle.prefixText}) = made /\ made \cap heap = {}
    BY <1>5, <1>7, <1>8 DEF made
  <2> QED BY <1>1, <1>6, <1>8, <2>1, <2>2 DEF Heap
<1>10. call' \in CallsOf(call.h) /\ call' # Null
  <2>1. call' \in CallsOf(call.h)
    BY <1>1, <1>5, NothingTyped, CallFacts DEF CallsOf, Point
  <2> QED BY <1>1, <2>1, CallFacts
<1>11. /\ call'.h = call.h /\ call'.op = call.op /\ call'.c = call.c /\ call'.pc = "teardown" /\ call'.built = NoBuilt
       /\ call'.handle = handle /\ call'.mod = call.mod /\ call'.ir = call.ir /\ call'.machine = call.machine
       /\ call'.triple = call.triple /\ call'.error = call.error /\ call'.prefix = call.prefix
  BY <1>1, CallFacts DEF CallsOf
<1>12. MySlots'
  <2>1. \A kind \in HandleKinds : <<kind, call.h>> \in heap' <=>
                                    \/ <<kind, call.h>> \in heap /\ <<kind, call.h>> \notin gone
                                    \/ <<kind, call.h>> \in made
    BY <1>9
  <2>2. \A kind \in HandleKinds \ {"names", "diagnostics", "prefixText"} :
          <<kind, call.h>> \notin gone /\ <<kind, call.h>> \notin made
    BY <1>8
  <2>3. /\ <<"names", call.h>> \notin heap'
        /\ <<"diagnostics", call.h>> \in heap'
        /\ <<"prefixText", call.h>> \in heap' <=> text # Null
    BY <1>7, <1>8, <1>9
  <2> QED BY <1>1, <1>2, <1>4, <1>5, <1>7, <1>11, <2>1, <2>2, <2>3, NothingBuilt, CallFacts
          DEF MySlots, SlotsOf, HandleKinds
<1>13. CallSlots'
  <2>1. \A kind \in CallKinds : <<kind, "call">> \notin gone \cup made
    BY <1>8 DEF CallKinds
  <2> QED BY <1>1, <1>9, <1>10, <1>11, <2>1, CallSlotsKept
<1>14. TextSlots'
  <2>1. \A x \in gone \cup made : x[1] # "text"
    BY <1>8
  <2> QED BY <1>1, <1>9, <1>10, <1>11, <2>1, CallFacts DEF TextSlots, HostTexts
<1>15. PcInv'
  BY <1>1, <1>2, <1>11, CallFacts DEF PcInv, Making
<1>16. MakingInv'
  BY <1>1, <1>2, <1>5, <1>11, NothingBuilt DEF MakingInv, Making, Loading, IsPublished
<1>17. gone \in SUBSET ObjectsFor(call.h) /\ made \in SUBSET ObjectsFor(call.h)
  BY <1>3, <1>8 DEF HandleKinds
<1> QED BY <1>1, <1>9, <1>10, <1>12, <1>13, <1>14, <1>15, <1>16, <1>17, CallStep

-----------------------------------------------------------------------------
\* A compile that starts and one that ends.

LEMMA StartKeeps ==
  ASSUME MemoryInv, NEW op \in {"text", "object", "jit"}, NEW c \in Compilers, NEW h \in Targets, NEW loads \in BOOLEAN,
         op = "jit" <=> h \in Jits, h \in Jits => jits[h] = Null, InitModuleLoader(op, c, h, loads),
         UNCHANGED contextVars
  PROVE  MemoryInv'
<1> DEFINE made  == {<<"arena", "call">>, <<"diag", "call">>, <<"sources", "call">>}
           fresh == [op |-> op, c |-> c, h |-> h, pc |-> "load", loads |-> loads,
                     hosted |-> loads /\ compilers[c].hosted, dirs |-> DirsOf(c), errors |-> FALSE, mod |-> Null,
                     prefix |-> "", built |-> NoBuilt, handle |-> NoHandle, machine |-> Null, triple |-> Null,
                     ir |-> Null, error |-> Null]
<1>1. /\ call = Null /\ compilers[c] # Null /\ HostTexts = {} /\ call' = fresh /\ Heap({}, <<>>, made)
      /\ UNCHANGED <<compilers, jits, contexts, running>>
  BY DEF InitModuleLoader, Idle, contextVars
<1>2. misused = FALSE /\ CompilerSlots /\ ContextSlots /\ HandleSlots /\ CallSlots /\ TextSlots /\ heap \subseteq Objects
  BY DEF MemoryInv, MemoryTypes
<1>3. \A x \in made : x \notin heap /\ x \in Objects /\ x[1] \in CallKinds
  <2>1. \A kind \in CallKinds : <<kind, "call">> \in Objects
    BY DEF Objects, CallObjects
  <2>2. /\ <<"arena", "call">> \notin heap /\ <<"diag", "call">> \notin heap /\ <<"sources", "call">> \notin heap
    BY <1>1, <1>2 DEF CallSlots
  <2> QED BY <2>1, <2>2 DEF CallKinds
<1>4. misused' = FALSE /\ heap' = (heap \ {}) \cup made
  <2>1. made \cap heap = {} /\ {} \subseteq heap
    BY <1>3
  <2> HIDE DEF made
  <2> QED BY <1>1, <1>2, <2>1, HeapMakes
<1>5. fresh \in CallsOf(h)
  <2>1. compilers[c] \in CompilerRecords
    BY <1>1 DEF MemoryInv, MemoryTypes
  <2>2. DirsOf(c) \in {Null} \cup ({"dirs"} \X Compilers \X (0..MaxDirs)) /\ compilers[c].hosted \in BOOLEAN
    BY <2>1 DEF CompilerRecords, DirsOf, If
  <2> HIDE DEF fresh
  <2>3. "" \in Prefixes
    BY HostAssumption
  <2> QED BY <2>2, <2>3, NothingTyped DEF CallsOf, Point, Opt, fresh
<1>6. /\ fresh.op = op /\ fresh.c = c /\ fresh.h = h /\ fresh.pc = "load" /\ fresh.loads = loads
      /\ fresh.hosted = (loads /\ compilers[c].hosted) /\ fresh.dirs = DirsOf(c) /\ fresh.mod = Null
      /\ fresh.prefix = "" /\ fresh.built = NoBuilt /\ fresh.handle = NoHandle /\ fresh.machine = Null
      /\ fresh.triple = Null /\ fresh.ir = Null /\ fresh.error = Null
  OBVIOUS
<1> HIDE DEF fresh, made
<1>7. call' # Null
  BY <1>1, <1>5, ObjectsAssumption
<1>8. \A x \in {} \cup made : x[1] \notin CompilerKinds \cup ContextKinds \cup HandleKinds \cup {"text"}
  BY <1>3 DEF CallKinds, CompilerKinds, ContextKinds, HandleKinds
<1>9. CompilerSlots' /\ ContextSlots'
  BY <1>1, <1>2, <1>4, <1>8, CompilerSlotsKept, ContextSlotsKept DEF MemoryInv
<1>10. HandleSlots'
  <2> SUFFICES ASSUME NEW t \in Targets
               PROVE  IF InCall(t)' THEN SlotsOf(t, call.handle, call.built)' ELSE SlotsOf(t, IdleHandle(t), NoBuilt)'
    BY DEF HandleSlots
  <2>1. SlotsOf(t, IdleHandle(t), NoBuilt)
    BY <1>1, <1>2 DEF HandleSlots, InCall
  <2>2. \A x \in {} \cup made : ~(x[1] \in HandleKinds /\ x[2] = t)
    BY <1>8
  <2>3. CASE t = h
    <3>1. IdleHandle(t) = NoHandle
      BY <2>3 DEF IdleHandle
    <3>2. call'.handle = NoHandle /\ call'.built = NoBuilt
      BY <1>1, <1>6
    <3>3. SlotsOf(t, call.handle, call.built)'
      BY <1>4, <2>1, <2>2, <3>1, <3>2, SlotsKept
    <3> QED BY <1>1, <1>6, <1>7, <2>3, <3>3 DEF InCall
  <2>4. CASE t # h
    <3>1. IdleHandle(t)' = IdleHandle(t) /\ NoBuilt' = NoBuilt
      BY <1>1 DEF IdleHandle, NoHandle, NoBuilt
    <3>2. SlotsOf(t, IdleHandle(t), NoBuilt)'
      BY <1>4, <2>1, <2>2, <3>1, SlotsKept
    <3> QED BY <1>1, <1>6, <2>4, <3>2 DEF InCall
  <2> QED BY <2>3, <2>4
<1>11. CallSlots'
  BY <1>1, <1>2, <1>4, <1>6, <1>7 DEF CallSlots, made
<1>12. TextSlots'
  BY <1>1, <1>2, <1>4, <1>8 DEF TextSlots, HostTexts
<1>13. PcInv'
  BY <1>1, <1>6, HostAssumption DEF PcInv, Making, Targets, DirsOf
<1>14. MakingInv'
  BY <1>1, <1>6, NothingBuilt DEF MakingInv, Making, Loading
<1>15. MemoryTypes'
  BY <1>1, <1>4, <1>5, <1>6 DEF MemoryInv, MemoryTypes
<1>16. heap' \subseteq Objects
  BY <1>2, <1>3, <1>4
<1>17. PublishedInv' /\ FieldInv' /\ FrameInv'
  BY <1>1 DEF MemoryInv, PublishedInv, FieldInv, FrameInv
<1> QED BY <1>9, <1>10, <1>11, <1>12, <1>13, <1>14, <1>15, <1>16, <1>17 DEF MemoryInv

LEMMA TeardownKeeps ==
  ASSUME MemoryInv, BoundInv, TeardownCompile, UNCHANGED contextVars
  PROVE  MemoryInv'
<1> DEFINE freed == <<call.mod, <<"sources", "call">>, <<"diag", "call">>, <<"arena", "call">>>>
           gone  == NonNull({call.mod, <<"sources", "call">>, <<"diag", "call">>, <<"arena", "call">>})
<1>1. /\ call # Null /\ call.pc = "teardown" /\ Heap({}, freed, {})
      /\ jits' = IF call.handle = NoHandle THEN jits ELSE [jits EXCEPT ![call.h] = call.handle]
      /\ call' = Null /\ UNCHANGED <<compilers, contexts, running>>
  BY DEF TeardownCompile, At, contextVars
<1>2. /\ call.mod \in {Null, <<"ast", "call">>} /\ call.built = NoBuilt /\ call.machine = Null /\ call.triple = Null
      /\ call.ir = Null /\ call.error = Null
      /\ call.handle # NoHandle => IsPublished(call.handle) /\ call.h \in Jits
      /\ call.h \in Jits => jits[call.h] = Null
      /\ call.handle \in HandlesOf(call.h) /\ call.h \in Targets
  BY <1>1, CallFacts DEF MakingInv, PcInv, Loading, CallsOf, Opt
<1>3. Gone(freed) = gone /\ ~Twice(freed)
  BY <1>2, GoneLong
<1>4. \A kind \in CallKinds : <<kind, "call">> # Null
  BY <1>1, CallFacts
<1>5. /\ <<"arena", "call">> \in heap /\ <<"diag", "call">> \in heap /\ <<"sources", "call">> \in heap
      /\ <<"ast", "call">> \in heap <=> call.mod # Null
      /\ <<"ir", "call">> \notin heap /\ <<"machine", "call">> \notin heap /\ <<"triple", "call">> \notin heap
      /\ <<"message", "call">> \notin heap
  BY <1>1, <1>2, CallFacts DEF CallSlots
<1>6. /\ gone \subseteq heap /\ \A x \in gone : x[1] \in CallKinds
      /\ <<"arena", "call">> \in gone /\ <<"diag", "call">> \in gone /\ <<"sources", "call">> \in gone
      /\ <<"ast", "call">> \in heap => <<"ast", "call">> \in gone
  BY <1>2, <1>4, <1>5 DEF NonNull, CallKinds
<1> HIDE DEF freed, gone
<1>7. misused' = FALSE /\ heap' = (heap \ gone) \cup {}
  BY <1>1, <1>3, <1>6, CallFacts DEF Heap
<1>8. \A x \in gone \cup {} : x[1] \notin CompilerKinds \cup ContextKinds \cup HandleKinds \cup {"text"}
  BY <1>6 DEF CallKinds, CompilerKinds, ContextKinds, HandleKinds
<1>9. CompilerSlots' /\ ContextSlots'
  BY <1>1, <1>7, <1>8, CompilerSlotsKept, ContextSlotsKept DEF MemoryInv
<1>10. call.handle # Null /\ NoHandle # Null
  <2>1. NoHandle \in HandlesOf(call.h)
    BY NothingTyped
  <2> QED BY <1>2, <2>1, ObjectsAssumption
<1>11. \A t \in Jits : jits'[t] = IF t = call.h /\ call.handle # NoHandle THEN call.handle ELSE jits[t]
  <2>1. jits = [t \in Jits |-> jits[t]]
    BY DEF MemoryInv, MemoryTypes
  <2> QED BY <1>1, <1>2, <2>1
<1>12. HandleSlots'
  <2> SUFFICES ASSUME NEW t \in Targets PROVE SlotsOf(t, IdleHandle(t), NoBuilt)'
    BY <1>1 DEF HandleSlots, InCall
  <2>1. \A x \in gone \cup {} : ~(x[1] \in HandleKinds /\ x[2] = t)
    BY <1>8
  <2>2. CASE t = call.h
    <3>1. SlotsOf(t, call.handle, NoBuilt)
      BY <1>1, <1>2, <2>2, CallFacts DEF MySlots
    <3>2. IdleHandle(t)' = call.handle /\ NoBuilt' = NoBuilt
      BY <1>2, <1>10, <1>11, <2>2 DEF IdleHandle, NoHandle, NoBuilt
    <3> QED BY <1>7, <2>1, <3>1, <3>2, SlotsKept
  <2>3. CASE t # call.h
    <3>1. SlotsOf(t, IdleHandle(t), NoBuilt)
      BY <2>3 DEF MemoryInv, HandleSlots, InCall
    <3>2. IdleHandle(t)' = IdleHandle(t) /\ NoBuilt' = NoBuilt
      BY <1>11, <2>3 DEF IdleHandle, NoHandle, NoBuilt
    <3> QED BY <1>7, <2>1, <3>1, <3>2, SlotsKept
  <2> QED BY <2>2, <2>3
<1>13. CallSlots'
  BY <1>1, <1>5, <1>6, <1>7 DEF CallSlots
<1>14. TextSlots'
  BY <1>1, <1>7, <1>8, CallFacts DEF TextSlots
<1>15. PcInv' /\ MakingInv'
  BY <1>1 DEF PcInv, MakingInv
<1>16. MemoryTypes'
  <2>1. jits' = [t \in Jits |-> jits'[t]]
    BY <1>1 DEF MemoryInv, MemoryTypes
  <2>2. \A t \in Jits : jits'[t] \in HandlesOf(t) \cup {Null}
    BY <1>2, <1>11 DEF MemoryInv, MemoryTypes
  <2> QED BY <1>1, <1>7, <2>1, <2>2 DEF MemoryInv, MemoryTypes
<1>17. heap' \subseteq Objects
  BY <1>7 DEF MemoryInv
<1>18. PublishedInv'
  BY <1>2, <1>11 DEF MemoryInv, PublishedInv
<1>19. FieldInv' /\ FrameInv'
  <2>1. \A k \in Contexts : contexts[k] # Null => contexts[k].h \in Jits
    BY DEF BoundInv, ContextTypes, ContextRecords
  <2>2. \A t \in Jits : jits[t] # Null => jits'[t] = jits[t]
    BY <1>2, <1>11
  <2> QED BY <1>1, <2>1, <2>2 DEF MemoryInv, FieldInv, FrameInv
<1> QED BY <1>9, <1>12, <1>13, <1>14, <1>15, <1>16, <1>17, <1>18, <1>19 DEF MemoryInv

-----------------------------------------------------------------------------
\* The settings of a compiler.

\* A step on a compiler touches what belongs to it.
LEMMA SettingStep ==
  ASSUME MemoryInv, NEW c \in Compilers, UNCHANGED <<jits, call, contexts, running>>, misused' = FALSE,
         NEW gone, NEW made \in SUBSET Objects, heap' = (heap \ gone) \cup made,
         \A x \in gone \cup made : x[1] \in CompilerKinds /\ x[2] = c,
         NEW new \in CompilerRecords \cup {Null}, compilers' = [compilers EXCEPT ![c] = new],
         CompilerHas(c)', call # Null => new # Null /\ (call.pc = "load" /\ call.loads => call.hosted)
  PROVE  MemoryInv'
<1>1. \A x \in gone \cup made : x[1] \notin ContextKinds \cup HandleKinds \cup CallKinds \cup {"text"}
  BY DEF CompilerKinds, ContextKinds, HandleKinds, CallKinds
<1>2. compilers' \in [Compilers -> CompilerRecords \cup {Null}]
  BY DEF MemoryInv, MemoryTypes
<1>3. CompilerSlots'
  <2> SUFFICES ASSUME NEW d \in Compilers, d # c PROVE CompilerHas(d)'
    BY DEF CompilerSlots
  <2>1. compilers'[d] = compilers[d] /\ CompilerHas(d)
    BY DEF MemoryInv, MemoryTypes, CompilerSlots
  <2>2. /\ <<"compiler", d>> \in heap' <=> <<"compiler", d>> \in heap
        /\ \A p : <<"prefix", d, p>> \in heap' <=> <<"prefix", d, p>> \in heap
        /\ \A n : <<"dirs", d, n>> \in heap' <=> <<"dirs", d, n>> \in heap
        /\ \A n : <<"dir", d, n>> \in heap' <=> <<"dir", d, n>> \in heap
    <3>1. \A x : x[2] = d => (x \in heap' <=> x \in heap)
      OBVIOUS
    <3>2. /\ <<"compiler", d>>[2] = d /\ \A p : <<"prefix", d, p>>[2] = d
          /\ \A n : <<"dirs", d, n>>[2] = d /\ <<"dir", d, n>>[2] = d
      OBVIOUS
    <3> QED BY <3>1, <3>2
  <2> QED BY <2>1, <2>2 DEF CompilerHas
<1>4. ContextSlots'
  BY <1>1, ContextSlotsKept DEF MemoryInv
<1>5. HandleSlots'
  <2> SUFFICES ASSUME NEW h \in Targets
               PROVE  IF InCall(h)' THEN SlotsOf(h, call.handle, call.built)' ELSE SlotsOf(h, IdleHandle(h), NoBuilt)'
    BY DEF HandleSlots
  <2>1. IF InCall(h) THEN SlotsOf(h, call.handle, call.built) ELSE SlotsOf(h, IdleHandle(h), NoBuilt)
    BY DEF MemoryInv, HandleSlots
  <2>2. /\ InCall(h)' = InCall(h) /\ IdleHandle(h)' = IdleHandle(h) /\ NoBuilt' = NoBuilt
        /\ call'.handle = call.handle /\ call'.built = call.built
    BY DEF InCall, IdleHandle, NoHandle, NoBuilt
  <2>3. \A x \in gone \cup made : ~(x[1] \in HandleKinds /\ x[2] = h)
    BY <1>1
  <2> QED BY <2>1, <2>2, <2>3, SlotsKept
<1>6. CallSlots'
  <2>1. \A x : x[1] \in CallKinds => (x \in heap' <=> x \in heap)
    BY <1>1
  <2>2. \A kind \in CallKinds : <<kind, "call">> \in heap' <=> <<kind, "call">> \in heap
    BY <2>1
  <2> QED BY <2>2 DEF MemoryInv, CallSlots, CallKinds
<1>7. TextSlots'
  BY <1>1 DEF MemoryInv, TextSlots, HostTexts
<1>8. PcInv'
  <2>1. \A d \in Compilers : d # c => compilers'[d] = compilers[d]
    BY DEF MemoryInv, MemoryTypes
  <2>2. compilers'[c] = new
    BY DEF MemoryInv, MemoryTypes
  <2>3. call # Null => call.c \in Compilers
    BY DEF MemoryInv, MemoryTypes, CallsOf
  <2> QED BY <2>1, <2>2, <2>3 DEF MemoryInv, PcInv, DirsOf
<1>9. MakingInv' /\ PublishedInv' /\ FieldInv' /\ FrameInv'
  BY DEF MemoryInv, MakingInv, PublishedInv, FieldInv, FrameInv
<1>10. MemoryTypes' /\ heap' \subseteq Objects
  BY <1>2 DEF MemoryInv, MemoryTypes
<1> QED BY <1>3, <1>4, <1>5, <1>6, <1>7, <1>8, <1>9, <1>10 DEF MemoryInv

\* The compiler a setter is called for is there, and with a load at work it is the host's resolver that calls.
LEMMA SetterFacts ==
  ASSUME MemoryInv, NEW c \in Compilers
  PROVE  /\ misused = FALSE /\ heap \subseteq Objects /\ CompilerHas(c) /\ DOMAIN compilers = Compilers
         /\ compilers[c] # Null => compilers[c] \in CompilerRecords
         /\ InHost(c) => compilers[c] # Null /\ (call # Null => call.pc = "load" /\ call.hosted)
BY DEF MemoryInv, MemoryTypes, CompilerSlots, InHost, Idle

LEMMA SettingObjects ==
  ASSUME NEW c \in Compilers
  PROVE  /\ <<"compiler", c>> \in Objects
         /\ \A p \in Prefixes : <<"prefix", c, p>> \in Objects /\ <<"prefix", c, p>> # Null
         /\ \A n \in 0..MaxDirs : <<"dirs", c, n>> \in Objects /\ <<"dir", c, n>> \in Objects /\ <<"dirs", c, n>> # Null
<1>1. <<"compiler", c>> \in Objects
  BY DEF Objects, CompilerObjects
<1>2. \A p \in Prefixes : <<"prefix", c, p>> \in Objects
  BY DEF Objects, CompilerObjects
<1>3. \A n \in 0..MaxDirs : <<"dirs", c, n>> \in Objects /\ <<"dir", c, n>> \in Objects
  BY DEF Objects, CompilerObjects
<1> QED BY <1>1, <1>2, <1>3, ObjectsAssumption

LEMMA NoDirs == 0 \in 0..MaxDirs /\ (\A d \in 0..MaxDirs : d \notin 1..0 /\ ~(d = 0 /\ d > 0))
<1>1. MaxDirs \in Nat
  BY HostAssumption
<1> QED BY <1>1

LEMMA NewCompilerKeeps ==
  ASSUME MemoryInv, NEW c \in Compilers, Create(c), UNCHANGED contextVars
  PROVE  MemoryInv'
<1> DEFINE made == {<<"compiler", c>>}
           new  == [prefix |-> "", dirs |-> 0, hosted |-> FALSE]
<1>1. /\ call = Null /\ compilers[c] = Null /\ compilers' = [compilers EXCEPT ![c] = new] /\ Heap({}, <<>>, made)
      /\ UNCHANGED <<jits, call, contexts, running>>
  BY DEF Create, Idle, contextVars
<1>2. new \in CompilerRecords /\ new # Null
  <2>1. new \in CompilerRecords
    <3>1. "" \in Prefixes
      BY HostAssumption
    <3> QED BY <3>1, NoDirs DEF CompilerRecords
  <2> QED BY <2>1, ObjectsAssumption
<1>3. made \cap heap = {} /\ made \in SUBSET Objects
  <2>1. <<"compiler", c>> \notin heap
    BY <1>1, SetterFacts DEF CompilerHas
  <2> QED BY <2>1, SettingObjects
<1>4. misused' = FALSE /\ heap' = (heap \ {}) \cup made
  BY <1>1, <1>3, GoneShort, SetterFacts DEF Heap
<1>5. \A x \in {} \cup made : x[1] \in CompilerKinds /\ x[2] = c
  BY DEF CompilerKinds
<1>6. CompilerHas(c)'
  <2>1. compilers'[c] = new /\ new.prefix = "" /\ new.dirs = 0
    BY <1>1, SetterFacts
  <2>2. /\ \A p : <<"prefix", c, p>> \in heap' <=> <<"prefix", c, p>> \in heap
        /\ \A n : <<"dirs", c, n>> \in heap' <=> <<"dirs", c, n>> \in heap
        /\ \A n : <<"dir", c, n>> \in heap' <=> <<"dir", c, n>> \in heap
        /\ <<"compiler", c>> \in heap'
    BY <1>4
  <2>3. /\ \A p \in Prefixes : <<"prefix", c, p>> \notin heap
        /\ \A n \in 0..MaxDirs : <<"dirs", c, n>> \notin heap /\ <<"dir", c, n>> \notin heap
    BY <1>1, SetterFacts DEF CompilerHas
  <2>4. compilers'[c] # Null /\ compilers'[c].prefix = "" /\ compilers'[c].dirs = 0
    BY <1>2, <2>1
  <2> HIDE DEF new, made
  <2> QED BY <2>2, <2>3, <2>4, NoDirs DEF CompilerHas
<1> QED BY <1>1, <1>2, <1>3, <1>4, <1>5, <1>6, SettingStep

LEMMA PrefixKeeps ==
  ASSUME MemoryInv, NEW c \in Compilers, NEW prefix \in Prefixes, SetSymbolPrefix(c, prefix), UNCHANGED contextVars
  PROVE  MemoryInv'
<1> DEFINE gone == NonNull({PrefixOf(c)})
           made == NonNull({If(prefix # "", <<"prefix", c, prefix>>)})
           new  == [compilers[c] EXCEPT !.prefix = prefix]
<1>1. /\ InHost(c) /\ Heap({}, <<PrefixOf(c)>>, made) /\ compilers' = [compilers EXCEPT ![c] = new]
      /\ UNCHANGED <<jits, call, contexts, running>>
  BY DEF SetSymbolPrefix, contextVars
<1>2. compilers[c] \in CompilerRecords /\ compilers[c] # Null
  BY <1>1, SetterFacts
<1>3. new \in CompilerRecords /\ new # Null /\ new.prefix = prefix /\ new.dirs = compilers[c].dirs
  <2>1. new \in CompilerRecords /\ new.prefix = prefix /\ new.dirs = compilers[c].dirs
    BY <1>2 DEF CompilerRecords
  <2> QED BY <2>1, ObjectsAssumption
<1>4. compilers'[c] = new
  BY <1>1, SetterFacts
<1>5. \A p \in Prefixes : <<"prefix", c, p>> # Null /\ <<"prefix", c, p>> \in Objects
  BY SettingObjects
<1>6. /\ gone \subseteq heap
      /\ \A p \in Prefixes : <<"prefix", c, p>> \in heap => <<"prefix", c, p>> \in gone
      /\ \A x \in gone : x = <<"prefix", c, compilers[c].prefix>>
  <2>1. compilers[c].prefix \in Prefixes
    BY <1>2 DEF CompilerRecords
  <2>2. \A p \in Prefixes : <<"prefix", c, p>> \in heap <=> p = compilers[c].prefix /\ p # ""
    BY <1>2, SetterFacts DEF CompilerHas
  <2>3. gone = IF compilers[c].prefix # "" THEN {<<"prefix", c, compilers[c].prefix>>} ELSE {}
    BY <1>5, <2>1 DEF PrefixOf, If, NonNull
  <2> QED BY <2>1, <2>2, <2>3
<1>7. /\ \A x \in made : x = <<"prefix", c, prefix>> /\ x \in Objects
      /\ <<"prefix", c, prefix>> \in made <=> prefix # ""
  <2>1. made = IF prefix # "" THEN {<<"prefix", c, prefix>>} ELSE {}
    BY <1>5 DEF If, NonNull
  <2>2. <<"prefix", c, prefix>> \in Objects
    BY <1>5
  <2> HIDE DEF made
  <2> QED BY <2>1, <2>2
<1>8. Gone(<<PrefixOf(c)>>) = gone /\ ~Twice(<<PrefixOf(c)>>)
  BY GoneShort
<1> HIDE DEF gone, made, new
<1>9. misused' = FALSE /\ heap' = (heap \ gone) \cup made
  <2>1. made \cap (heap \ gone) = {}
    BY <1>6, <1>7
  <2> QED BY <1>1, <1>6, <1>8, <2>1, SetterFacts DEF Heap
<1>10. \A x \in gone \cup made : x[1] \in CompilerKinds /\ x[2] = c
  <2>1. \A x \in gone \cup made : \E p : x = <<"prefix", c, p>>
    BY <1>6, <1>7
  <2> QED BY <2>1 DEF CompilerKinds
<1>11. CompilerHas(c)'
  <2>1. \A p \in Prefixes : <<"prefix", c, p>> \in heap' <=> p = prefix /\ p # ""
    BY <1>6, <1>7, <1>9
  <2>2. /\ \A n : <<"dirs", c, n>> \in heap' <=> <<"dirs", c, n>> \in heap
        /\ \A n : <<"dir", c, n>> \in heap' <=> <<"dir", c, n>> \in heap
        /\ <<"compiler", c>> \in heap' <=> <<"compiler", c>> \in heap
    BY <1>6, <1>7, <1>9
  <2> QED BY <1>2, <1>3, <1>4, <2>1, <2>2, SetterFacts DEF CompilerHas
<1>12. made \in SUBSET Objects
  BY <1>7
<1> QED BY <1>1, <1>3, <1>9, <1>10, <1>11, <1>12, SetterFacts, SettingStep

LEMMA DirKeeps ==
  ASSUME MemoryInv, NEW c \in Compilers, AddImportDir(c), UNCHANGED contextVars
  PROVE  MemoryInv'
<1> DEFINE n    == compilers[c].dirs + 1
           gone == NonNull({DirsOf(c)})
           made == {<<"dirs", c, n>>, <<"dir", c, n>>}
           new  == [compilers[c] EXCEPT !.dirs = n]
<1>1. /\ InHost(c) /\ n <= MaxDirs /\ Heap({}, <<DirsOf(c)>>, made) /\ compilers' = [compilers EXCEPT ![c] = new]
      /\ UNCHANGED <<jits, call, contexts, running>>
  BY DEF AddImportDir, contextVars
<1>2. compilers[c] \in CompilerRecords /\ compilers[c] # Null /\ compilers[c].dirs \in 0..MaxDirs
  BY <1>1, SetterFacts DEF CompilerRecords
<1>3. n \in 0..MaxDirs /\ n > 0 /\ compilers[c].dirs \in Nat /\ MaxDirs \in Nat
  <2>1. MaxDirs \in Nat
    BY HostAssumption
  <2> QED BY <1>1, <1>2, <2>1
<1>4. new \in CompilerRecords /\ new # Null /\ new.prefix = compilers[c].prefix /\ new.dirs = n
  <2>1. new \in CompilerRecords /\ new.prefix = compilers[c].prefix /\ new.dirs = n
    BY <1>2, <1>3 DEF CompilerRecords
  <2> QED BY <2>1, ObjectsAssumption
<1>5. compilers'[c] = new
  BY <1>1, SetterFacts
<1>6. \A m \in 0..MaxDirs : <<"dirs", c, m>> # Null /\ <<"dirs", c, m>> \in Objects /\ <<"dir", c, m>> \in Objects
  BY SettingObjects
<1>7. /\ gone \subseteq heap
      /\ \A m \in 0..MaxDirs : <<"dirs", c, m>> \in heap => <<"dirs", c, m>> \in gone
      /\ \A x \in gone : x = <<"dirs", c, compilers[c].dirs>>
  <2>1. \A m \in 0..MaxDirs : <<"dirs", c, m>> \in heap <=> m = compilers[c].dirs /\ m > 0
    BY <1>2, SetterFacts DEF CompilerHas
  <2>2. gone = IF compilers[c].dirs > 0 THEN {<<"dirs", c, compilers[c].dirs>>} ELSE {}
    BY <1>2, <1>6 DEF DirsOf, If, NonNull
  <2> QED BY <1>2, <2>1, <2>2
<1>8. <<"dirs", c, n>> \notin heap /\ <<"dir", c, n>> \notin heap
  <2>1. /\ <<"dirs", c, n>> \in heap => n = compilers[c].dirs
        /\ <<"dir", c, n>> \in heap => n \in 1..compilers[c].dirs
    <3> HIDE DEF n
    <3> QED BY <1>3, SetterFacts DEF CompilerHas
  <2> QED BY <1>3, <2>1
<1>9. Gone(<<DirsOf(c)>>) = gone /\ ~Twice(<<DirsOf(c)>>)
  BY GoneShort
<1> HIDE DEF gone, new, n
<1>10. misused' = FALSE /\ heap' = (heap \ gone) \cup made
  BY <1>1, <1>7, <1>8, <1>9, SetterFacts DEF Heap
<1>11. \A x \in gone \cup made : x[1] \in CompilerKinds /\ x[2] = c
  BY <1>7 DEF CompilerKinds
<1>12. CompilerHas(c)'
  <2>1. \A m \in 0..MaxDirs : <<"dirs", c, m>> \in heap' <=> m = n
    BY <1>7, <1>10
  <2>2. \A d \in 0..MaxDirs : <<"dir", c, d>> \in heap' <=> d \in 1..n
    <3>1. \A d \in 0..MaxDirs : <<"dir", c, d>> \in heap' <=> <<"dir", c, d>> \in heap \/ d = n
      BY <1>7, <1>10
    <3>2. \A d \in 0..MaxDirs : d \in 1..n <=> d \in 1..compilers[c].dirs \/ d = n
      BY <1>3 DEF n
    <3> QED BY <1>2, <3>1, <3>2, SetterFacts DEF CompilerHas
  <2>3. /\ \A p : <<"prefix", c, p>> \in heap' <=> <<"prefix", c, p>> \in heap
        /\ <<"compiler", c>> \in heap' <=> <<"compiler", c>> \in heap
    BY <1>7, <1>10
  <2> QED BY ZenonT(60), <1>2, <1>3, <1>4, <1>5, <2>1, <2>2, <2>3, SetterFacts DEF CompilerHas
<1>13. made \in SUBSET Objects
  BY <1>3, <1>6
<1>14. call # Null => new # Null /\ (call.pc = "load" /\ call.loads => call.hosted)
  BY <1>1, <1>4, SetterFacts
<1> QED BY ZenonT(60), <1>1, <1>4, <1>10, <1>11, <1>12, <1>13, <1>14, SettingStep

LEMMA ResolverKeeps ==
  ASSUME MemoryInv, NEW c \in Compilers, NEW hosted \in BOOLEAN, SetImportResolver(c, hosted), UNCHANGED contextVars
  PROVE  MemoryInv'
<1> DEFINE new == [compilers[c] EXCEPT !.hosted = hosted]
<1>1. /\ InHost(c) /\ compilers' = [compilers EXCEPT ![c] = new]
      /\ UNCHANGED <<heap, misused, jits, call, contexts, running>>
  BY DEF SetImportResolver, contextVars
<1>2. compilers[c] \in CompilerRecords /\ compilers[c] # Null
  BY <1>1, SetterFacts
<1>3. new \in CompilerRecords /\ new # Null /\ new.prefix = compilers[c].prefix /\ new.dirs = compilers[c].dirs
  <2>1. new \in CompilerRecords /\ new.prefix = compilers[c].prefix /\ new.dirs = compilers[c].dirs
    BY <1>2 DEF CompilerRecords
  <2> QED BY <2>1, ObjectsAssumption
<1>4. compilers'[c] = new
  BY <1>1, SetterFacts
<1> HIDE DEF new
<1>5. CompilerHas(c)'
  BY ZenonT(60), <1>1, <1>2, <1>3, <1>4, SetterFacts DEF CompilerHas
<1>6. misused' = FALSE /\ heap' = (heap \ {}) \cup {} /\ {} \in SUBSET Objects
  BY <1>1, SetterFacts
<1>7. call # Null => new # Null /\ (call.pc = "load" /\ call.loads => call.hosted)
  BY <1>1, <1>3, SetterFacts
<1>8. \A x \in {} \cup {} : x[1] \in CompilerKinds /\ x[2] = c
  OBVIOUS
<1> QED BY <1>1, <1>3, <1>5, <1>6, <1>7, <1>8, SettingStep

\* A compiler that is destroyed gives back its prefix, each directory, their array and itself.
LEMMA DestroyCompilerKeeps ==
  ASSUME MemoryInv, NEW c \in Compilers, Destroy(c), UNCHANGED contextVars
  PROVE  MemoryInv'
<1> DEFINE n     == compilers[c].dirs
           first == <<PrefixOf(c)>>
           names == [d \in 1..n |-> <<"dir", c, d>>]
           last  == <<DirsOf(c), <<"compiler", c>>>>
           freed == first \o names \o last
           gone  == Gone(freed)
           S     == Objects \cup {Null}
<1>1. /\ call = Null /\ compilers[c] # Null /\ Heap({}, freed, {}) /\ compilers' = [compilers EXCEPT ![c] = Null]
      /\ UNCHANGED <<jits, call, contexts, running>>
  BY DEF Destroy, Idle, contextVars
<1>2. compilers[c] \in CompilerRecords /\ compilers[c].prefix \in Prefixes /\ n \in 0..MaxDirs /\ MaxDirs \in Nat
  <2>1. compilers[c] \in CompilerRecords
    BY <1>1, SetterFacts
  <2>2. MaxDirs \in Nat
    BY HostAssumption
  <2> QED BY <2>1, <2>2 DEF CompilerRecords
<1>3. /\ \A p \in Prefixes : <<"prefix", c, p>> \in heap <=> p = compilers[c].prefix /\ p # ""
      /\ \A m \in 0..MaxDirs : <<"dirs", c, m>> \in heap <=> m = n /\ m > 0
      /\ \A d \in 0..MaxDirs : <<"dir", c, d>> \in heap <=> d \in 1..n
      /\ <<"compiler", c>> \in heap
  BY <1>1, SetterFacts DEF CompilerHas
<1>4. <<"compiler", c>> # Null /\ \A d \in 0..MaxDirs : <<"dir", c, d>> # Null
  BY SettingObjects, ObjectsAssumption
<1>5. /\ ~Twice(first) /\ first \in Seq(S) /\ Gone(first) \subseteq heap
      /\ \A x \in Gone(first) : x = <<"prefix", c, compilers[c].prefix>>
      /\ \A p \in Prefixes : <<"prefix", c, p>> \in heap => <<"prefix", c, p>> \in Gone(first)
  <2>1. Gone(first) = NonNull({PrefixOf(c)}) /\ ~Twice(first)
    BY GoneShort
  <2>2. NonNull({PrefixOf(c)}) = IF compilers[c].prefix # "" THEN {<<"prefix", c, compilers[c].prefix>>} ELSE {}
    BY <1>2, SettingObjects DEF PrefixOf, If, NonNull
  <2>3. PrefixOf(c) \in S
    BY <1>2, SettingObjects DEF PrefixOf, If
  <2> HIDE DEF S
  <2>4. first \in Seq(S)
    BY <2>3
  <2> HIDE DEF first
  <2> QED BY <1>2, <1>3, <2>1, <2>2, <2>4
<1>6. /\ ~Twice(names) /\ names \in Seq(S) /\ Gone(names) = {<<"dir", c, d>> : d \in 1..n} /\ Gone(names) \subseteq heap
  <2>1. DOMAIN names = 1..n /\ \A d \in 1..n : d \in 0..MaxDirs /\ names[d] = <<"dir", c, d>>
    BY <1>2
  <2>2. \A d \in 1..n : <<"dir", c, d>> # Null /\ <<"dir", c, d>> \in heap /\ <<"dir", c, d>> \in S
    BY <1>3, <2>1, SettingObjects, ObjectsAssumption
  <2> HIDE DEF names, S
  <2>3. names \in Seq(S)
    BY <1>2, <2>2 DEF names
  <2>4. Gone(names) = {<<"dir", c, d>> : d \in 1..n}
    BY <2>1, <2>2 DEF Gone, NonNull
  <2>5. ~Twice(names)
    BY <2>1 DEF Twice
  <2> QED BY <2>2, <2>3, <2>4, <2>5
<1>7. /\ ~Twice(last) /\ last \in Seq(S) /\ Gone(last) \subseteq heap
      /\ \A x \in Gone(last) : x = <<"dirs", c, n>> \/ x = <<"compiler", c>>
      /\ <<"compiler", c>> \in Gone(last)
      /\ \A m \in 0..MaxDirs : <<"dirs", c, m>> \in heap => <<"dirs", c, m>> \in Gone(last)
  <2>1. DirsOf(c) = Null \/ DirsOf(c) = <<"dirs", c, n>>
    BY DEF DirsOf, If
  <2>2. Gone(last) = NonNull({DirsOf(c), <<"compiler", c>>}) /\ ~Twice(last)
    BY <1>4, <2>1, GoneShort
  <2>3. NonNull({DirsOf(c)}) = IF n > 0 THEN {<<"dirs", c, n>>} ELSE {}
    BY <1>2, SettingObjects DEF DirsOf, If, NonNull
  <2>4. Gone(last) = NonNull({DirsOf(c)}) \cup {<<"compiler", c>>}
    BY <1>4, <2>2 DEF NonNull
  <2>5. DirsOf(c) \in S /\ <<"compiler", c>> \in S
    BY <1>2, SettingObjects DEF DirsOf, If
  <2> HIDE DEF S
  <2>6. last \in Seq(S)
    BY <2>5
  <2> QED BY <1>2, <1>3, <2>2, <2>3, <2>4, <2>6
<1> HIDE DEF first, names, last, S, n
<1>8. /\ \A x \in Gone(first) : x[1] = "prefix" /\ x[2] = c
      /\ \A x \in Gone(names) : x[1] = "dir" /\ x[2] = c
      /\ \A x \in Gone(last) : x[1] \in {"dirs", "compiler"} /\ x[2] = c
  BY <1>5, <1>6, <1>7
<1>9. gone = Gone(first) \cup Gone(names) \cup Gone(last) /\ ~Twice(freed)
  <2> DEFINE two == first \o names
  <2>1. Gone(first) \cap Gone(names) = {}
    BY <1>8
  <2>2. two \in Seq(S) /\ Gone(two) = Gone(first) \cup Gone(names) /\ ~Twice(two)
    BY <1>5, <1>6, <2>1, GoneConcat
  <2>3. freed = two \o last /\ Gone(two) \cap Gone(last) = {}
    BY <1>8, <2>2
  <2> HIDE DEF two, freed
  <2>4. Gone(two \o last) = Gone(two) \cup Gone(last) /\ ~Twice(two \o last)
    BY <1>7, <2>2, <2>3, GoneConcat
  <2> QED BY <2>2, <2>3, <2>4
<1> HIDE DEF freed
<1>10. misused' = FALSE /\ heap' = (heap \ gone) \cup {}
  BY <1>1, <1>5, <1>6, <1>7, <1>9, SetterFacts DEF Heap
<1>11. \A x \in gone \cup {} : x[1] \in CompilerKinds /\ x[2] = c
  BY <1>8, <1>9 DEF CompilerKinds
<1>12. CompilerHas(c)'
  <2>1. compilers'[c] = Null
    BY <1>1, SetterFacts
  <2>2. \A p \in Prefixes : <<"prefix", c, p>> \notin heap'
    BY <1>5, <1>9, <1>10
  <2>3. \A m \in 0..MaxDirs : <<"dirs", c, m>> \notin heap'
    BY <1>7, <1>9, <1>10
  <2>4. \A d \in 0..MaxDirs : <<"dir", c, d>> \notin heap'
    BY <1>3, <1>6, <1>9, <1>10
  <2>5. <<"compiler", c>> \notin heap'
    BY <1>7, <1>9, <1>10
  <2> QED BY <2>1, <2>2, <2>3, <2>4, <2>5 DEF CompilerHas
<1> HIDE DEF gone
<1>13. {} \in SUBSET Objects /\ Null \in CompilerRecords \cup {Null}
  OBVIOUS
<1>14. call # Null => Null # Null /\ (call.pc = "load" /\ call.loads => call.hosted)
  BY <1>1
<1> QED BY <1>1, <1>10, <1>11, <1>12, <1>13, <1>14, SettingStep

-----------------------------------------------------------------------------
\* The texts of the host, and the handles and contexts between compiles.

\* A step of the host that leaves compilers, compile and handles alone: their slots are kept.
LEMMA SlotsStay ==
  ASSUME MemoryInv, UNCHANGED <<compilers, jits, call>>, NEW gone, NEW made, heap' = (heap \ gone) \cup made,
         \A x \in gone \cup made : x[1] \notin CompilerKinds \cup HandleKinds \cup CallKinds
  PROVE  CompilerSlots' /\ HandleSlots' /\ CallSlots'
<1>1. CompilerSlots'
  BY CompilerSlotsKept DEF MemoryInv
<1>2. HandleSlots'
  <2> SUFFICES ASSUME NEW h \in Targets
               PROVE  IF InCall(h)' THEN SlotsOf(h, call.handle, call.built)' ELSE SlotsOf(h, IdleHandle(h), NoBuilt)'
    BY DEF HandleSlots
  <2>1. IF InCall(h) THEN SlotsOf(h, call.handle, call.built) ELSE SlotsOf(h, IdleHandle(h), NoBuilt)
    BY DEF MemoryInv, HandleSlots
  <2>2. /\ InCall(h)' = InCall(h) /\ IdleHandle(h)' = IdleHandle(h) /\ NoBuilt' = NoBuilt
        /\ call'.handle = call.handle /\ call'.built = call.built
    BY DEF InCall, IdleHandle, NoHandle, NoBuilt
  <2>3. \A x \in gone \cup made : ~(x[1] \in HandleKinds /\ x[2] = h)
    OBVIOUS
  <2> QED BY <2>1, <2>2, <2>3, SlotsKept
<1>3. CallSlots'
  <2>1. \A x : x[1] \in CallKinds => (x \in heap' <=> x \in heap)
    OBVIOUS
  <2>2. \A kind \in CallKinds : <<kind, "call">> \in heap' <=> <<kind, "call">> \in heap
    BY <2>1
  <2> QED BY <2>2 DEF MemoryInv, CallSlots, CallKinds
<1> QED BY <1>1, <1>2, <1>3

\* The host frees the texts it was given (strataResultFree, strataFreeError).
LEMMA TextStep ==
  ASSUME MemoryInv, UNCHANGED <<compilers, jits, call, contexts, running>>, misused' = FALSE, call = Null,
         NEW gone, heap' = (heap \ gone) \cup {}, \A x \in gone : x[1] = "text",
         <<"text", "output">> \in gone <=> <<"text", "diagnostics">> \in gone
  PROVE  MemoryInv'
<1>1. \A x \in gone \cup {} : x[1] \notin CompilerKinds \cup HandleKinds \cup CallKinds \cup ContextKinds
  BY DEF CompilerKinds, HandleKinds, CallKinds, ContextKinds
<1>2. CompilerSlots' /\ HandleSlots' /\ CallSlots' /\ ContextSlots'
  BY <1>1, SlotsStay, ContextSlotsKept DEF MemoryInv
<1>3. TextSlots'
  BY DEF MemoryInv, TextSlots, HostTexts
<1>4. /\ PcInv' /\ MakingInv' /\ PublishedInv' /\ FieldInv' /\ FrameInv' /\ MemoryTypes' /\ heap' \subseteq Objects
  BY DEF MemoryInv, PcInv, MakingInv, PublishedInv, FieldInv, FrameInv, MemoryTypes
<1> QED BY <1>2, <1>3, <1>4 DEF MemoryInv

LEMMA TextKeeps ==
  ASSUME MemoryInv, ResultFree \/ FreeError, UNCHANGED contextVars
  PROVE  MemoryInv'
<1>1. call = Null /\ UNCHANGED <<compilers, jits, call, contexts, running>> /\ misused = FALSE
  BY DEF ResultFree, FreeError, Idle, contextVars, MemoryInv, MemoryTypes
<1>2. \A x \in TextObjects : x # Null
  BY ObjectsAssumption DEF Objects
<1>3. CASE ResultFree
  <2> DEFINE gone == {<<"text", "output">>, <<"text", "diagnostics">>}
  <2>1. gone \subseteq heap /\ Heap({}, <<<<"text", "output">>, <<"text", "diagnostics">>>>, {})
    BY <1>3 DEF ResultFree, MemoryInv, TextSlots
  <2>2. <<"text", "output">> # Null /\ <<"text", "diagnostics">> # Null
    BY <1>2 DEF TextObjects
  <2>3. /\ Gone(<<<<"text", "output">>, <<"text", "diagnostics">>>>) = gone
        /\ ~Twice(<<<<"text", "output">>, <<"text", "diagnostics">>>>)
    BY <2>2, GoneShort DEF NonNull
  <2>4. misused' = FALSE /\ heap' = (heap \ gone) \cup {}
    BY <1>1, <2>1, <2>3 DEF Heap
  <2>5. /\ \A x \in gone : x[1] = "text"
        /\ <<"text", "output">> \in gone <=> <<"text", "diagnostics">> \in gone
    OBVIOUS
  <2> HIDE DEF gone
  <2> QED BY <1>1, <2>4, <2>5, TextStep
<1>4. CASE FreeError
  <2>1. Error \in heap /\ Heap({}, <<Error>>, {}) /\ Error # Null
    BY <1>2, <1>4 DEF FreeError, Error, TextObjects
  <2>2. Gone(<<Error>>) = {Error} /\ ~Twice(<<Error>>)
    BY <2>1, GoneShort DEF NonNull
  <2>3. misused' = FALSE /\ heap' = (heap \ {Error}) \cup {}
    BY <1>1, <2>1, <2>2 DEF Heap
  <2>4. /\ \A x \in {Error} : x[1] = "text"
        /\ <<"text", "output">> \in {Error} <=> <<"text", "diagnostics">> \in {Error}
    BY DEF Error
  <2> DEFINE gone == {Error}
  <2>5. /\ heap' = (heap \ gone) \cup {} /\ \A x \in gone : x[1] = "text"
        /\ <<"text", "output">> \in gone <=> <<"text", "diagnostics">> \in gone
    BY <2>3, <2>4
  <2> HIDE DEF gone
  <2> QED BY <1>1, <2>3, <2>5, TextStep
<1> QED BY <1>3, <1>4

\* A handle that is destroyed gives back all its objects; no context is of it.
LEMMA DestroyHandleKeeps ==
  ASSUME MemoryInv, BoundInv, NEW h \in Jits, ~InUse(h), JitDestroy(h), UNCHANGED contextVars
  PROVE  MemoryInv'
<1> DEFINE r     == jits[h]
           first == LLVMJitDestroy(r)
           last  == <<r.exports, r.diagnostics, r.prefixText, r.metadata, r.self>>
           freed == first \o last
           gone  == Gone(freed)
           S     == Objects \cup {Null}
<1>1. /\ call = Null /\ r # Null /\ Heap({}, freed, {}) /\ jits' = [jits EXCEPT ![h] = Null]
      /\ UNCHANGED <<compilers, call, contexts, running>>
  BY DEF JitDestroy, Idle, contextVars
<1>2. r \in HandlesOf(h) /\ h \in Targets /\ misused = FALSE /\ heap \subseteq Objects /\ jits = [t \in Jits |-> jits[t]]
  BY <1>1 DEF MemoryInv, MemoryTypes, Targets
<1>3. SlotsOf(h, r, NoBuilt)
  BY <1>1, <1>2 DEF MemoryInv, HandleSlots, InCall, IdleHandle
<1>4. /\ ~Twice(first) /\ first \in Seq(S) /\ Gone(first) \subseteq heap
      /\ \A x \in Gone(first) : x \in {<<"lljit", h>>, <<"externs", h>>, <<"backend", h>>}
      /\ \A kind \in {"lljit", "externs", "backend"} : <<kind, h>> \in heap => <<kind, h>> \in Gone(first)
  BY <1>2, <1>3, BackendFacts
<1>5. /\ r.exports \in {Null, <<"exports", h>>} /\ r.diagnostics \in {Null, <<"diagnostics", h>>}
      /\ r.prefixText \in {Null, <<"prefixText", h>>} /\ r.metadata \in {Null, <<"metadata", h>>}
      /\ r.self \in {Null, <<"jit", h>>}
  BY <1>2 DEF HandlesOf, Opt
<1>6. /\ <<"exports", h>> \in heap <=> r.exports # Null
      /\ <<"diagnostics", h>> \in heap <=> r.diagnostics # Null
      /\ <<"prefixText", h>> \in heap <=> r.prefixText # Null
      /\ <<"metadata", h>> \in heap <=> r.metadata # Null
      /\ <<"jit", h>> \in heap <=> r.self # Null
      /\ <<"module", h>> \notin heap /\ <<"llcontext", h>> \notin heap /\ <<"names", h>> \notin heap
  BY <1>3, NothingBuilt DEF SlotsOf
<1>7. /\ ~Twice(last) /\ last \in Seq(S) /\ Gone(last) \subseteq heap
      /\ \A x \in Gone(last) : x \in {<<"exports", h>>, <<"diagnostics", h>>, <<"prefixText", h>>, <<"metadata", h>>, <<"jit", h>>}
      /\ \A kind \in {"exports", "diagnostics", "prefixText", "metadata", "jit"} :
           <<kind, h>> \in heap => <<kind, h>> \in Gone(last)
  <2>1. /\ r.exports = r.diagnostics \/ r.exports = r.prefixText \/ r.exports = r.metadata \/ r.exports = r.self
             => r.exports = Null
        /\ r.diagnostics = r.prefixText \/ r.diagnostics = r.metadata \/ r.diagnostics = r.self => r.diagnostics = Null
        /\ r.prefixText = r.metadata \/ r.prefixText = r.self => r.prefixText = Null
        /\ r.metadata = r.self => r.metadata = Null
    BY <1>5
  <2>2. Gone(last) = NonNull({r.exports, r.diagnostics, r.prefixText, r.metadata, r.self}) /\ ~Twice(last)
    BY <2>1, GoneLong
  <2>3. r.exports \in S /\ r.diagnostics \in S /\ r.prefixText \in S /\ r.metadata \in S /\ r.self \in S
    BY <1>2, <1>5, <1>6
  <2> HIDE DEF S
  <2>4. last \in Seq(S)
    BY <2>3
  <2> HIDE DEF last, r
  <2> QED BY <1>5, <1>6, <2>2, <2>4 DEF NonNull
<1> HIDE DEF first, last, S, r
<1>8. /\ \A x \in Gone(first) : x[1] \in {"lljit", "externs", "backend"} /\ x[2] = h
      /\ \A x \in Gone(last) : x[1] \in {"exports", "diagnostics", "prefixText", "metadata", "jit"} /\ x[2] = h
  BY <1>4, <1>7
<1>9. gone = Gone(first) \cup Gone(last) /\ ~Twice(freed)
  <2>1. Gone(first) \cap Gone(last) = {}
    BY <1>8
  <2> QED BY <1>4, <1>7, <2>1, GoneConcat
<1> HIDE DEF freed
<1>10. misused' = FALSE /\ heap' = (heap \ gone) \cup {}
  BY <1>1, <1>2, <1>4, <1>7, <1>9 DEF Heap
<1>11. \A x \in gone \cup {} : x[1] \in HandleKinds /\ x[2] = h
  BY <1>8, <1>9 DEF HandleKinds
<1>12. \A kind \in HandleKinds : <<kind, h>> \notin heap'
  <2>1. \A kind \in HandleKinds : <<kind, h>> \in heap => <<kind, h>> \in gone
    BY <1>4, <1>6, <1>7, <1>9 DEF HandleKinds
  <2> QED BY <1>10, <2>1
<1> HIDE DEF gone
<1>13. \A x \in gone \cup {} : x[1] \notin CompilerKinds \cup ContextKinds \cup CallKinds \cup {"text"}
  BY <1>11 DEF CompilerKinds, ContextKinds, HandleKinds, CallKinds
<1>14. CompilerSlots' /\ ContextSlots'
  BY <1>1, <1>10, <1>13, CompilerSlotsKept, ContextSlotsKept DEF MemoryInv
<1>15. \A t \in Jits : jits'[t] = IF t = h THEN Null ELSE jits[t]
  BY <1>1, <1>2
<1>16. HandleSlots'
  <2> SUFFICES ASSUME NEW t \in Targets PROVE SlotsOf(t, IdleHandle(t), NoBuilt)'
    BY <1>1 DEF HandleSlots, InCall
  <2>1. CASE t = h
    <3>1. IdleHandle(t)' = NoHandle /\ NoBuilt' = NoBuilt
      BY <1>15, <2>1 DEF IdleHandle, NoHandle, NoBuilt
    <3> QED BY <1>12, <2>1, <3>1, NothingBuilt DEF SlotsOf, HandleKinds
  <2>2. CASE t # h
    <3>1. IdleHandle(t)' = IdleHandle(t) /\ NoBuilt' = NoBuilt
      BY <1>15, <2>2 DEF IdleHandle, NoHandle, NoBuilt
    <3>2. SlotsOf(t, IdleHandle(t), NoBuilt)
      BY <1>1 DEF MemoryInv, HandleSlots, InCall
    <3>3. \A x \in gone \cup {} : ~(x[1] \in HandleKinds /\ x[2] = t)
      BY <1>11, <2>2
    <3> QED BY <1>10, <3>1, <3>2, <3>3, SlotsKept
  <2> QED BY <2>1, <2>2
<1>17. CallSlots'
  <2>1. \A kind \in CallKinds : <<kind, "call">> \in heap' <=> <<kind, "call">> \in heap
    BY <1>10, <1>13
  <2> QED BY <1>1, <2>1 DEF MemoryInv, CallSlots, CallKinds
<1>18. TextSlots'
  BY <1>1, <1>10, <1>13 DEF MemoryInv, TextSlots
<1>19. PcInv' /\ MakingInv'
  BY <1>1 DEF PcInv, MakingInv
<1>20. PublishedInv'
  BY <1>15 DEF MemoryInv, PublishedInv
<1>21. FieldInv' /\ FrameInv'
  <2>1. \A k \in Contexts : contexts[k] # Null => contexts[k].h \in Jits /\ contexts[k].h # h
    BY DEF BoundInv, ContextTypes, ContextRecords, InUse
  <2> QED BY <1>1, <1>15, <2>1 DEF MemoryInv, FieldInv, FrameInv
<1>22. MemoryTypes' /\ heap' \subseteq Objects
  <2>1. jits' = [t \in Jits |-> jits'[t]]
    BY <1>1, <1>2
  <2> QED BY <1>1, <1>10, <1>15, <2>1 DEF MemoryInv, MemoryTypes
<1> QED BY <1>14, <1>16, <1>17, <1>18, <1>19, <1>20, <1>21, <1>22 DEF MemoryInv

-----------------------------------------------------------------------------
\* The contexts.

\* A step of the generated code touches contexts and their values.
LEMMA ContextStep ==
  ASSUME MemoryInv, UNCHANGED <<compilers, jits, call>>, misused' = FALSE, NEW gone, NEW made \in SUBSET Objects,
         heap' = (heap \ gone) \cup made, \A x \in gone \cup made : x[1] \in ContextKinds,
         ContextSlots', FieldInv', FrameInv'
  PROVE  MemoryInv'
<1>1. \A x \in gone \cup made : x[1] \notin CompilerKinds \cup HandleKinds \cup CallKinds \cup {"text"}
  BY DEF CompilerKinds, HandleKinds, CallKinds, ContextKinds
<1>2. CompilerSlots' /\ HandleSlots' /\ CallSlots'
  BY <1>1, SlotsStay
<1>3. TextSlots'
  BY <1>1 DEF MemoryInv, TextSlots, HostTexts
<1>4. PcInv' /\ MakingInv' /\ PublishedInv' /\ MemoryTypes' /\ heap' \subseteq Objects
  BY DEF MemoryInv, PcInv, MakingInv, PublishedInv, MemoryTypes, DirsOf
<1> QED BY <1>2, <1>3, <1>4 DEF MemoryInv

\* While the host runs, the session a context's code is of is there, and so is the context.
LEMMA CodeThere ==
  ASSUME MemoryInv, BoundInv, call = Null, NEW k \in Contexts, contexts[k] # Null
  PROVE  /\ Code(k) \in heap /\ <<"context", k>> \in heap /\ contexts[k] \in ContextRecords
         /\ jits[contexts[k].h] # Null /\ contexts[k].h \in Jits
<1>1. contexts[k] \in ContextRecords /\ contexts[k].h \in Jits /\ jits[contexts[k].h] # Null
  BY DEF BoundInv, ContextTypes, ContextRecords, MemoryInv, FieldInv
<1>2. <<"context", k>> \in heap
  BY DEF MemoryInv, ContextSlots, ContextHas
<1>3. Code(k) \in heap
  <2> DEFINE h == contexts[k].h
  <2>1. jits[h] \in HandlesOf(h) /\ jits[h].lljit # Null /\ h \in Targets
    BY <1>1 DEF MemoryInv, MemoryTypes, PublishedInv, IsPublished, Targets
  <2>2. SlotsOf(h, jits[h], NoBuilt)
    BY <1>1, <2>1 DEF MemoryInv, HandleSlots, InCall, IdleHandle
  <2> QED BY <2>1, <2>2 DEF SlotsOf, HandlesOf, Opt, Code
<1> QED BY <1>1, <1>2, <1>3

LEMMA ContextObjectsThere ==
  ASSUME NEW k \in Contexts
  PROVE  /\ <<"context", k>> \in Objects /\ <<"context", k>> # Null
         /\ \A i \in DOMAIN Globals : Value(k, i) \in Objects /\ Value(k, i) # Null
<1>1. <<"context", k>> \in Objects /\ \A i \in DOMAIN Globals : Value(k, i) \in Objects
  BY DEF Objects, ContextObjects, Value
<1> QED BY <1>1, ObjectsAssumption

\* A value is stored over another, which is freed.
LEMMA StoreSlots ==
  ASSUME MemoryInv, BoundInv, call = Null, UNCHANGED jits, NEW k \in Contexts, contexts[k] # Null, NEW i \in Owning,
         NEW value \in {Null, Value(k, i)}, contexts' = [contexts EXCEPT ![k].field[i] = value],
         heap' = (heap \ NonNull({contexts[k].field[i]})) \cup NonNull({value})
  PROVE  /\ ContextSlots' /\ FieldInv'
         /\ NonNull({contexts[k].field[i]}) \subseteq heap /\ NonNull({value}) \in SUBSET Objects
         /\ NonNull({value}) \cap (heap \ NonNull({contexts[k].field[i]})) = {}
         /\ \A x \in NonNull({contexts[k].field[i]}) \cup NonNull({value}) : x[1] \in ContextKinds
         /\ \A c \in Contexts, j \in DOMAIN Globals :
              contexts[c] # Null => contexts'[c].field[j] = IF c = k /\ j = i THEN value ELSE contexts[c].field[j]
<1>1. i \in DOMAIN Globals /\ contexts[k] \in ContextRecords /\ contexts \in [Contexts -> ContextRecords \cup {Null}]
  BY DEF Owning, BoundInv, ContextTypes
<1>2. value \in Values
  BY DEF Values
<1>3. /\ contexts' \in [Contexts -> ContextRecords \cup {Null}]
      /\ \A c \in Contexts : /\ contexts'[c] = Null <=> contexts[c] = Null
                             /\ contexts[c] # Null => contexts'[c].h = contexts[c].h
  BY <1>1, <1>2, FieldKeeps DEF BoundInv
<1>4. \A c \in Contexts, j \in DOMAIN Globals :
        contexts[c] # Null => contexts'[c].field[j] = IF c = k /\ j = i THEN value ELSE contexts[c].field[j]
  BY <1>1 DEF ContextRecords
<1>5. contexts[k].field[i] \in {Null, Value(k, i)}
  BY DEF MemoryInv, FieldInv
<1>6. Value(k, i) \in Objects /\ Value(k, i) # Null /\ Value(k, i)[1] \in ContextKinds
  BY <1>1, ContextObjectsThere DEF Value, ContextKinds
<1>7. Value(k, i) \in heap <=> contexts[k].field[i] # Null
  BY <1>1 DEF MemoryInv, ContextSlots, ContextHas
<1>8. /\ NonNull({contexts[k].field[i]}) \subseteq heap /\ NonNull({value}) \in SUBSET Objects
      /\ NonNull({value}) \cap (heap \ NonNull({contexts[k].field[i]})) = {}
      /\ \A x \in NonNull({contexts[k].field[i]}) \cup NonNull({value}) : x[1] \in ContextKinds
      /\ \A x : x # Value(k, i) => (x \in heap' <=> x \in heap)
      /\ Value(k, i) \in heap' <=> value # Null
  BY <1>5, <1>6, <1>7 DEF NonNull
<1>9. ContextSlots'
  <2> SUFFICES ASSUME NEW c \in Contexts PROVE ContextHas(c)'
    BY DEF ContextSlots
  <2>1. <<"context", c>> \in heap' <=> contexts'[c] # Null
    BY <1>3, <1>8 DEF MemoryInv, ContextSlots, ContextHas, Value
  <2>2. ASSUME NEW j \in DOMAIN Globals
        PROVE  Value(c, j) \in heap' <=> contexts'[c] # Null /\ j \in Owning /\ contexts'[c].field[j] # Null
    <3>1. Value(c, j) \in heap <=> contexts[c] # Null /\ j \in Owning /\ contexts[c].field[j] # Null
      BY DEF MemoryInv, ContextSlots, ContextHas
    <3>2. CASE c = k /\ j = i
      BY <1>3, <1>4, <1>8, <3>2
    <3>3. CASE ~(c = k /\ j = i)
      <4>1. Value(c, j) # Value(k, i)
        BY <3>3 DEF Value
      <4>2. Value(c, j) \in heap' <=> Value(c, j) \in heap
        BY <1>8, <4>1
      <4>3. contexts'[c] # Null <=> contexts[c] # Null
        BY <1>3
      <4>4. contexts[c] # Null => contexts'[c].field[j] = contexts[c].field[j]
        BY <1>4, <3>3
      <4> QED BY <3>1, <4>2, <4>3, <4>4
    <3> QED BY <3>2, <3>3
  <2> QED BY <2>1, <2>2 DEF ContextHas
<1>10. FieldInv'
  <2> SUFFICES ASSUME NEW c \in Contexts, contexts'[c] # Null
               PROVE  /\ jits'[contexts'[c].h] # Null
                      /\ \A j \in Owning : contexts'[c].field[j] \in {Null, Value(c, j)}
    BY DEF FieldInv
  <2>1. contexts[c] # Null /\ contexts'[c].h = contexts[c].h
    BY <1>3
  <2>2. /\ jits[contexts[c].h] # Null
        /\ \A j \in Owning : contexts[c].field[j] \in {Null, Value(c, j)}
    BY <2>1 DEF MemoryInv, FieldInv
  <2>3. \A j \in Owning : j \in DOMAIN Globals
    BY DEF Owning
  <2> QED BY <1>4, <2>1, <2>2, <2>3
<1> QED BY <1>4, <1>8, <1>9, <1>10

\* What the store leaves in each field.
LEMMA StoredField ==
  ASSUME BoundInv, NEW k \in Contexts, contexts[k] # Null, NEW i \in Owning, NEW value \in {Null, Value(k, i)},
         contexts' = [contexts EXCEPT ![k].field[i] = value]
  PROVE  \A c \in Contexts, j \in Owning :
           contexts[c] # Null => contexts'[c].field[j] = IF c = k /\ j = i THEN value ELSE contexts[c].field[j]
<1>1. i \in DOMAIN Globals /\ contexts[k] \in ContextRecords /\ contexts \in [Contexts -> ContextRecords \cup {Null}]
  BY DEF Owning, BoundInv, ContextTypes
<1> QED BY <1>1 DEF ContextRecords, Owning

\* The store keeps the invariant if it keeps to what the functions that run have not built or dropped.
LEMMA StoreStep ==
  ASSUME MemoryInv, BoundInv, call = Null, UNCHANGED <<compilers, jits, call>>,
         NEW k \in Contexts, contexts[k] # Null, NEW i \in Owning, NEW value \in {Null, Value(k, i)},
         contexts' = [contexts EXCEPT ![k].field[i] = value],
         NEW freed, NEW made, Heap({Code(k), <<"context", k>>}, freed, made),
         Gone(freed) = NonNull({contexts[k].field[i]}), ~Twice(freed), made = NonNull({value}), FrameInv'
  PROVE  MemoryInv'
<1> DEFINE gone == NonNull({contexts[k].field[i]})
<1>1. heap' = (heap \ gone) \cup made
  BY DEF Heap
<1>2. /\ ContextSlots' /\ FieldInv' /\ gone \subseteq heap /\ made \in SUBSET Objects
      /\ made \cap (heap \ gone) = {} /\ \A x \in gone \cup made : x[1] \in ContextKinds
  BY <1>1, StoreSlots
<1> HIDE DEF gone
<1>3. {Code(k), <<"context", k>>} \subseteq heap /\ misused = FALSE
  BY CodeThere DEF MemoryInv, MemoryTypes
<1>4. Gone(freed) = gone
  BY DEF gone
<1>5. misused' = FALSE
  BY <1>2, <1>3, <1>4 DEF Heap
<1> QED BY <1>1, <1>2, <1>5, ContextStep

\* A step of the generated code that leaves the heap and the contexts alone.
LEMMA FramesStep ==
  ASSUME MemoryInv, UNCHANGED <<heap, misused, compilers, jits, call, contexts>>, FrameInv'
  PROVE  MemoryInv'
<1>1. heap' = (heap \ {}) \cup {} /\ {} \in SUBSET Objects
  OBVIOUS
<1>2. ContextSlots' /\ FieldInv'
  BY DEF MemoryInv, ContextSlots, ContextHas, FieldInv
<1>3. misused' = FALSE
  BY DEF MemoryInv, MemoryTypes
<1> QED BY <1>1, <1>2, <1>3, ContextStep

\* The innermost function goes on to another global; those below stay where they are.
LEMMA StepFacts ==
  ASSUME BoundInv, running # <<>>, NEW next \in Nat
  PROVE  /\ DOMAIN Step(next) = DOMAIN running /\ Len(running) \in DOMAIN running
         /\ \A n \in DOMAIN running : n # Len(running) => Step(next)[n] = running[n] /\ running[n].k # Innermost.k
         /\ LET f == Step(next)[Len(running)]
            IN  f.k = Innermost.k /\ f.does = Innermost.does /\ f.next = next
<1>1. running \in Seq(Frames) /\ Len(running) \in DOMAIN running /\ Innermost \in Frames /\ Innermost = running[Len(running)]
  BY InnermostFacts DEF BoundInv, ContextTypes, Innermost
<1>2. /\ DOMAIN Step(next) = DOMAIN running
      /\ \A n \in DOMAIN running : n # Len(running) => Step(next)[n] = running[n]
      /\ Step(next)[Len(running)] = [running[Len(running)] EXCEPT !.next = next]
  BY <1>1 DEF Step
<1>3. \A n \in DOMAIN running : n # Len(running) => running[n].k # Innermost.k
  BY <1>1 DEF BoundInv, RunningOnce
<1> QED BY <1>1, <1>2, <1>3 DEF Frames

\* A context is made for a handle; none of its globals is built (ContextCreate).
LEMMA ContextCreateKeeps ==
  ASSUME MemoryInv, BoundInv, NEW h \in Jits, NEW k \in Contexts, ContextCreate(h, k)
  PROVE  MemoryInv'
<1> DEFINE fresh == [h |-> h, field |-> [i \in DOMAIN Globals |-> Null]]
           frame == [k |-> k, does |-> "create", next |-> 1]
           made  == {<<"context", k>>}
<1>1. /\ call = Null /\ jits[h] # Null /\ contexts[k] = Null /\ UNCHANGED <<compilers, jits, call>>
      /\ contexts' = [contexts EXCEPT ![k] = fresh] /\ running' = Append(running, frame)
      /\ Heap({jits[h].lljit}, <<>>, made)
  BY DEF ContextCreate, Idle
<1>2. fresh \in ContextRecords /\ fresh # Null /\ fresh.h = h /\ \A i \in Owning : fresh.field[i] = Null
  BY NullAssumption DEF ContextRecords, Values, Owning
<1>3. \A c \in Contexts : contexts'[c] = IF c = k THEN fresh ELSE contexts[c]
  BY <1>1 DEF BoundInv, ContextTypes
<1> HIDE DEF fresh
<1>4. jits[h].lljit \in heap
  <2>1. jits[h] \in HandlesOf(h) /\ jits[h].lljit # Null /\ h \in Targets
    BY <1>1 DEF MemoryInv, MemoryTypes, PublishedInv, IsPublished, Targets
  <2>2. SlotsOf(h, jits[h], NoBuilt)
    BY <1>1, <2>1 DEF MemoryInv, HandleSlots, InCall, IdleHandle
  <2> QED BY <2>1, <2>2 DEF SlotsOf, HandlesOf, Opt
<1>5. <<"context", k>> \notin heap /\ \A i \in DOMAIN Globals : Value(k, i) \notin heap
  BY <1>1 DEF MemoryInv, ContextSlots, ContextHas
<1>6. misused' = FALSE /\ heap' = (heap \ {}) \cup made
  <2>1. misused = FALSE /\ {jits[h].lljit} \subseteq heap /\ made \cap heap = {}
    BY <1>4, <1>5 DEF MemoryInv, MemoryTypes
  <2> HIDE DEF made
  <2> QED BY <1>1, <2>1, GoneShort DEF Heap
<1>7. ContextSlots'
  <2> SUFFICES ASSUME NEW c \in Contexts PROVE ContextHas(c)'
    BY DEF ContextSlots
  <2>1. \A i : Value(c, i) \in heap' <=> Value(c, i) \in heap
    BY <1>6 DEF Value
  <2>2. <<"context", c>> \in heap' <=> c = k \/ <<"context", c>> \in heap
    BY <1>6
  <2>3. ContextHas(c)
    BY DEF MemoryInv, ContextSlots
  <2> HIDE DEF made
  <2> QED BY <1>2, <1>3, <1>5, <2>1, <2>2, <2>3 DEF ContextHas
<1>8. FieldInv'
  BY <1>1, <1>2, <1>3 DEF MemoryInv, FieldInv
<1>9. FrameInv'
  <2>1. running \in Seq(Frames) /\ frame \in Frames
    BY DEF BoundInv, ContextTypes, Frames
  <2>2. /\ DOMAIN running' = DOMAIN running \cup {Len(running) + 1} /\ running'[Len(running) + 1] = frame
        /\ \A n \in DOMAIN running : running'[n] = running[n]
    BY <1>1, <2>1
  <2>3. \A n \in DOMAIN running : running[n].k \in Contexts /\ running[n].k # k
    BY <1>1, OnStackFacts DEF BoundInv, RunningLive
  <2>4. frame.k = k
    OBVIOUS
  <2> HIDE DEF frame
  <2>5. \A n \in DOMAIN running' : \/ n \in DOMAIN running /\ running'[n] = running[n] /\ contexts'[running[n].k] = contexts[running[n].k]
                                   \/ contexts'[running'[n].k] = fresh
    BY <1>3, <2>2, <2>3, <2>4
  <2> QED BY <1>2, <2>5 DEF MemoryInv, FrameInv
<1>10. made \in SUBSET Objects /\ \A x \in {} \cup made : x[1] \in ContextKinds
  BY ContextObjectsThere DEF ContextKinds
<1> HIDE DEF made
<1> QED BY <1>1, <1>6, <1>7, <1>8, <1>9, <1>10, ContextStep

\* A global is built, over nothing (InitContextGlobal).
LEMMA InitGlobalKeeps ==
  ASSUME MemoryInv, BoundInv, InitContextGlobal
  PROVE  MemoryInv'
<1> DEFINE k == Innermost.k
           i == Innermost.next
           n == Len(running)
<1>1. /\ call = Null /\ running # <<>> /\ Innermost.does = "create" /\ running' = Step(i + 1)
      /\ UNCHANGED <<compilers, jits, call>>
  BY DEF InitContextGlobal, Idle
<1>2. /\ k \in Contexts /\ contexts[k] # Null /\ i \in Nat /\ i + 1 \in Nat /\ Innermost = running[n] /\ n \in DOMAIN running
      /\ \A m \in DOMAIN running : running[m].k \in Contexts /\ contexts[running[m].k] # Null
  BY <1>1, InnermostFacts, OnStackFacts, NullAssumption DEF Frames, Innermost, BoundInv, RunningLive
<1>3. /\ DOMAIN running' = DOMAIN running
      /\ \A m \in DOMAIN running : m # n => running'[m] = running[m] /\ running[m].k # k
      /\ running'[n].k = k /\ running'[n].does = "create" /\ running'[n].next = i + 1
  BY <1>1, <1>2, StepFacts
<1>4. \A j \in Owning : j >= i => contexts[k].field[j] = Null
  BY <1>1, <1>2 DEF MemoryInv, FrameInv
<1>5. \A j \in Owning : j \in Nat
  BY GlobalsAssumption DEF Owning
<1> HIDE DEF k, i, n
<1>6. CASE i \in Owning
  <2>1. /\ Heap({Code(k), <<"context", k>>}, <<>>, {Value(k, i)})
        /\ contexts' = [contexts EXCEPT ![k].field[i] = Value(k, i)]
    BY <1>6 DEF InitContextGlobal, k, i
  <2> DEFINE value == Value(k, i)
             made  == {Value(k, i)}
  <2>2. \A c \in Contexts, j \in Owning :
          contexts[c] # Null => contexts'[c].field[j] = IF c = k /\ j = i THEN value ELSE contexts[c].field[j]
    BY ZenonT(60), <1>2, <1>6, <2>1, StoredField
  <2>3. FrameInv'
    <3> SUFFICES ASSUME NEW m \in DOMAIN running, NEW j \in Owning,
                        IF running'[m].does = "create" THEN j >= running'[m].next ELSE j > running'[m].next
                 PROVE  contexts'[running'[m].k].field[j] = Null
      BY <1>3 DEF FrameInv
    <3>1. CASE m = n
      <4>1. j # i /\ j >= i
        BY <1>2, <1>3, <1>5, <3>1
      <4> QED BY <1>2, <1>3, <1>4, <2>2, <3>1, <4>1
    <3>2. CASE m # n
      <4>1. contexts[running[m].k].field[j] = Null
        BY <1>3, <3>2 DEF MemoryInv, FrameInv
      <4> QED BY <1>2, <1>3, <2>2, <3>2, <4>1
    <3> QED BY <3>1, <3>2
  <2>4. contexts[k].field[i] = Null /\ value # Null
    <3>1. i \in DOMAIN Globals
      BY <1>6 DEF Owning
    <3>2. Value(k, i) # Null
      BY <1>2, <3>1, ContextObjectsThere
    <3>3. i >= i
      BY <1>2
    <3> QED BY <1>4, <1>6, <3>2, <3>3
  <2>5. /\ Gone(<<>>) = NonNull({contexts[k].field[i]}) /\ ~Twice(<<>>) /\ made = NonNull({value})
        /\ value \in {Null, Value(k, i)}
    BY <2>4, GoneShort DEF NonNull
  <2> HIDE DEF made
  <2>6. Heap({Code(k), <<"context", k>>}, <<>>, made) /\ contexts' = [contexts EXCEPT ![k].field[i] = value]
    BY <2>1 DEF made
  <2> HIDE DEF value
  <2> QED BY <1>1, <1>2, <1>6, <2>3, <2>5, <2>6, StoreStep
<1>7. CASE i \notin Owning
  <2>1. UNCHANGED <<heap, misused, contexts>>
    BY <1>7 DEF InitContextGlobal, i
  <2>2. FrameInv'
    <3> SUFFICES ASSUME NEW m \in DOMAIN running, NEW j \in Owning,
                        IF running'[m].does = "create" THEN j >= running'[m].next ELSE j > running'[m].next
                 PROVE  contexts[running'[m].k].field[j] = Null
      BY <1>3, <2>1 DEF FrameInv
    <3>1. CASE m = n
      BY <1>2, <1>3, <1>4, <1>5, <3>1
    <3>2. CASE m # n
      BY <1>3, <3>2 DEF MemoryInv, FrameInv
    <3> QED BY <3>1, <3>2
  <2> QED BY <1>1, <2>1, <2>2, FramesStep
<1> QED BY <1>6, <1>7

\* The create function returns: what it built is built.
LEMMA CreatedKeeps ==
  ASSUME MemoryInv, BoundInv, EndCreate
  PROVE  MemoryInv'
<1>1. running # <<>> /\ running' = Return /\ UNCHANGED <<hostVars, contexts, bound>>
  BY DEF EndCreate
<1>2. FrameInv'
  BY <1>1, InnermostFacts DEF MemoryInv, FrameInv
<1>3. UNCHANGED <<heap, misused, compilers, jits, call, contexts>>
  BY <1>1 DEF hostVars
<1> QED BY <1>2, <1>3, FramesStep

\* The destroy function starts: it has dropped nothing yet (ContextDestroy).
LEMMA ContextDestroyKeeps ==
  ASSUME MemoryInv, BoundInv, NEW k \in Contexts, ContextDestroy(k)
  PROVE  MemoryInv'
<1> DEFINE frame == [k |-> k, does |-> "destroy", next |-> Len(Globals)]
<1>1. /\ UNCHANGED <<heap, misused, compilers, jits, call, contexts>> /\ running' = Append(running, frame)
  BY DEF ContextDestroy, hostVars
<1>2. running \in Seq(Frames) /\ frame \in Frames
  BY GlobalsAssumption DEF BoundInv, ContextTypes, Frames
<1>3. /\ DOMAIN running' = DOMAIN running \cup {Len(running) + 1} /\ running'[Len(running) + 1] = frame
      /\ \A n \in DOMAIN running : running'[n] = running[n]
  BY <1>1, <1>2
<1>4. \A i \in Owning : ~(i > Len(Globals))
  BY GlobalsAssumption DEF Owning
<1>5. FrameInv'
  BY <1>1, <1>3, <1>4 DEF MemoryInv, FrameInv
<1> QED BY <1>1, <1>5, FramesStep

\* A global is nulled and its value dropped (DropContextGlobal).
LEMMA DropGlobalKeeps ==
  ASSUME MemoryInv, BoundInv, DropContextGlobal
  PROVE  MemoryInv'
<1> DEFINE k == Innermost.k
           i == Innermost.next
           n == Len(running)
<1>1. /\ call = Null /\ running # <<>> /\ Innermost.does = "destroy" /\ i > 0 /\ running' = Step(i - 1)
      /\ UNCHANGED <<compilers, jits, call>>
  BY DEF DropContextGlobal, Idle
<1>2. /\ k \in Contexts /\ contexts[k] # Null /\ i \in Nat /\ i - 1 \in Nat /\ Innermost = running[n] /\ n \in DOMAIN running
      /\ \A m \in DOMAIN running : running[m].k \in Contexts /\ contexts[running[m].k] # Null
  BY SMTT(30), <1>1, InnermostFacts, OnStackFacts, NullAssumption DEF Frames, Innermost, BoundInv, RunningLive
<1>3. /\ DOMAIN running' = DOMAIN running
      /\ \A m \in DOMAIN running : m # n => running'[m] = running[m] /\ running[m].k # k
      /\ running'[n].k = k /\ running'[n].does = "destroy" /\ running'[n].next = i - 1
  BY <1>1, <1>2, StepFacts
<1>4. \A j \in Owning : j > i => contexts[k].field[j] = Null
  BY <1>1, <1>2 DEF MemoryInv, FrameInv
<1>5. \A j \in Owning : j \in Nat
  BY GlobalsAssumption DEF Owning
<1> HIDE DEF k, i, n
<1>6. CASE i \in Owning
  <2>1. /\ Heap({Code(k), <<"context", k>>}, <<contexts[k].field[i]>>, {})
        /\ contexts' = [contexts EXCEPT ![k].field[i] = Null]
    BY <1>6 DEF DropContextGlobal, k, i
  <2> DEFINE freed == <<contexts[k].field[i]>>
             made  == {}
  <2>2. \A c \in Contexts, j \in Owning :
          contexts[c] # Null => contexts'[c].field[j] = IF c = k /\ j = i THEN Null ELSE contexts[c].field[j]
    BY ZenonT(60), <1>2, <1>6, <2>1, StoredField
  <2>3. FrameInv'
    <3> SUFFICES ASSUME NEW m \in DOMAIN running, NEW j \in Owning,
                        IF running'[m].does = "create" THEN j >= running'[m].next ELSE j > running'[m].next
                 PROVE  contexts'[running'[m].k].field[j] = Null
      BY <1>3 DEF FrameInv
    <3>1. CASE m = n
      <4>1. j = i \/ j > i
        BY <1>2, <1>3, <1>5, <3>1
      <4> QED BY <1>2, <1>3, <1>4, <2>2, <3>1, <4>1
    <3>2. CASE m # n
      <4>1. contexts[running[m].k].field[j] = Null
        BY <1>3, <3>2 DEF MemoryInv, FrameInv
      <4> QED BY <1>2, <1>3, <2>2, <3>2, <4>1
    <3> QED BY <3>1, <3>2
  <2>4. /\ Gone(freed) = NonNull({contexts[k].field[i]}) /\ ~Twice(freed) /\ made = NonNull({Null})
        /\ Null \in {Null, Value(k, i)}
    BY GoneShort DEF NonNull
  <2>5. Heap({Code(k), <<"context", k>>}, freed, made)
    BY <2>1
  <2> HIDE DEF freed, made
  <2> QED BY <1>1, <1>2, <1>6, <2>1, <2>3, <2>4, <2>5, StoreStep
<1>7. CASE i \notin Owning
  <2>1. UNCHANGED <<heap, misused, contexts>>
    BY <1>7 DEF DropContextGlobal, i
  <2>2. FrameInv'
    <3> SUFFICES ASSUME NEW m \in DOMAIN running, NEW j \in Owning,
                        IF running'[m].does = "create" THEN j >= running'[m].next ELSE j > running'[m].next
                 PROVE  contexts[running'[m].k].field[j] = Null
      BY <1>3, <2>1 DEF FrameInv
    <3>1. CASE m = n
      <4>1. j # i /\ j > i - 1
        BY <1>3, <1>7, <3>1
      <4> QED BY <1>2, <1>3, <1>4, <1>5, <3>1, <4>1
    <3>2. CASE m # n
      BY <1>3, <3>2 DEF MemoryInv, FrameInv
    <3> QED BY <3>1, <3>2
  <2> QED BY <1>1, <2>1, <2>2, FramesStep
<1> QED BY <1>6, <1>7

\* A context is freed; all its globals are dropped (EndDestroy).
LEMMA ContextGoneKeeps ==
  ASSUME MemoryInv, BoundInv, EndDestroy
  PROVE  MemoryInv'
<1> DEFINE k    == Innermost.k
           n    == Len(running)
           gone == {<<"context", k>>}
<1>1. /\ call = Null /\ running # <<>> /\ Innermost.does = "destroy" /\ Innermost.next = 0 /\ running' = Return
      /\ UNCHANGED <<compilers, jits, call>> /\ contexts' = [contexts EXCEPT ![k] = Null]
      /\ Heap({Code(k)}, <<<<"context", k>>>>, {})
  BY DEF EndDestroy, Idle
<1>2. /\ k \in Contexts /\ contexts[k] # Null /\ n \in DOMAIN running /\ Innermost = running[n]
      /\ DOMAIN running' = DOMAIN running \ {n} /\ \A m \in DOMAIN running' : running'[m] = running[m]
      /\ \A m \in DOMAIN running : running[m].k \in Contexts
  BY <1>1, InnermostFacts, OnStackFacts, NullAssumption DEF Frames, Innermost, BoundInv
<1>3. \A m \in DOMAIN running' : running[m].k # k
  BY <1>2 DEF BoundInv, RunningOnce
<1>4. \A c \in Contexts : contexts'[c] = IF c = k THEN Null ELSE contexts[c]
  BY <1>1 DEF BoundInv, ContextTypes
<1>5. \A j \in Owning : contexts[k].field[j] = Null
  <2>1. \A j \in Owning : j > 0
    BY GlobalsAssumption DEF Owning
  <2> QED BY <1>1, <1>2, <2>1 DEF MemoryInv, FrameInv
<1>6. misused' = FALSE /\ heap' = (heap \ gone) \cup {}
  <2>1. {Code(k)} \subseteq heap /\ gone \subseteq heap /\ misused = FALSE
    BY <1>1, <1>2, CodeThere DEF MemoryInv, MemoryTypes
  <2>2. Gone(<<<<"context", k>>>>) = gone /\ ~Twice(<<<<"context", k>>>>)
    BY <1>2, GoneShort, ContextObjectsThere DEF NonNull
  <2> HIDE DEF gone, k
  <2> QED BY <1>1, <2>1, <2>2 DEF Heap
<1> HIDE DEF k, n
<1>7. ContextSlots'
  <2> SUFFICES ASSUME NEW c \in Contexts PROVE ContextHas(c)'
    BY DEF ContextSlots
  <2>1. \A i : Value(c, i) \in heap' <=> Value(c, i) \in heap
    BY <1>6 DEF Value
  <2>2. <<"context", c>> \in heap' <=> c # k /\ <<"context", c>> \in heap
    BY <1>6
  <2>3. ContextHas(c)
    BY DEF MemoryInv, ContextSlots
  <2> HIDE DEF gone
  <2> QED BY <1>4, <1>5, <2>1, <2>2, <2>3 DEF ContextHas
<1>8. FieldInv'
  BY <1>1, <1>4 DEF MemoryInv, FieldInv
<1>9. FrameInv'
  BY <1>2, <1>3, <1>4 DEF MemoryInv, FrameInv
<1>10. {} \in SUBSET Objects /\ \A x \in gone \cup {} : x[1] \in ContextKinds
  BY DEF ContextKinds
<1> HIDE DEF gone
<1> QED BY <1>1, <1>6, <1>7, <1>8, <1>9, <1>10, ContextStep

\* A host function stores in a context that no function builds or drops.
LEMMA SetGlobalKeeps ==
  ASSUME MemoryInv, BoundInv, call = Null, NEW k \in Contexts, contexts[k] # Null, ~OnStack(k), NEW i \in Owning,
         NEW value \in {Null, Value(k, i)}, SetGlobal(k, i, value)
  PROVE  MemoryInv'
<1> DEFINE freed == <<contexts[k].field[i]>>
           made  == NonNull({value})
<1>1. /\ Heap({Code(k), <<"context", k>>}, freed, made)
      /\ contexts' = [contexts EXCEPT ![k].field[i] = value] /\ UNCHANGED <<compilers, jits, call, running>>
  BY DEF SetGlobal
<1>2. Gone(freed) = NonNull({contexts[k].field[i]}) /\ ~Twice(freed) /\ made = NonNull({value})
  BY GoneShort
<1> HIDE DEF freed, made
<1>3. \A c \in Contexts, j \in Owning :
        contexts[c] # Null => contexts'[c].field[j] = IF c = k /\ j = i THEN value ELSE contexts[c].field[j]
  <2>1. contexts' = [contexts EXCEPT ![k].field[i] = value]
    BY <1>1
  <2>2. i \in DOMAIN Globals /\ contexts[k] \in ContextRecords /\ contexts \in [Contexts -> ContextRecords \cup {Null}]
    BY DEF Owning, BoundInv, ContextTypes
  <2> QED BY <2>1, <2>2 DEF ContextRecords, Owning
<1>4. \A n \in DOMAIN running : running[n].k \in Contexts /\ contexts[running[n].k] # Null /\ running[n].k # k
  BY OnStackFacts DEF BoundInv, RunningLive, OnStack
<1>5. FrameInv'
  <2> SUFFICES ASSUME NEW n \in DOMAIN running, NEW j \in Owning,
                      IF running[n].does = "create" THEN j >= running[n].next ELSE j > running[n].next
               PROVE  contexts'[running[n].k].field[j] = Null
    BY <1>1 DEF FrameInv
  <2>1. contexts[running[n].k].field[j] = Null
    BY DEF MemoryInv, FrameInv
  <2> QED BY <1>3, <1>4, <2>1
<1> QED BY <1>1, <1>2, <1>5, StoreStep

-----------------------------------------------------------------------------
\* At first there is nothing.
LEMMA NothingAtFirst == Init => MemoryInv
<1> SUFFICES ASSUME Init PROVE MemoryInv
  OBVIOUS
<1>1. /\ heap = {} /\ misused = FALSE /\ call = Null /\ running = <<>>
      /\ \A c \in Compilers : compilers[c] = Null
      /\ \A h \in Jits : jits[h] = Null
      /\ \A k \in Contexts : contexts[k] = Null
      /\ compilers \in [Compilers -> {Null}] /\ jits = [h \in Jits |-> jits[h]]
  BY DEF Init
<1>2. MemoryTypes /\ heap \subseteq Objects
  BY <1>1 DEF MemoryTypes
<1>3. CompilerSlots /\ ContextSlots /\ CallSlots /\ TextSlots
  BY <1>1 DEF CompilerSlots, CompilerHas, ContextSlots, ContextHas, CallSlots, TextSlots
<1>4. HandleSlots
  BY <1>1, NothingBuilt DEF HandleSlots, InCall, IdleHandle, SlotsOf
<1>5. PcInv /\ MakingInv /\ PublishedInv /\ FieldInv /\ FrameInv
  BY <1>1 DEF PcInv, MakingInv, PublishedInv, FieldInv, FrameInv
<1> QED BY <1>2, <1>3, <1>4, <1>5 DEF MemoryInv

\* The calls that start a compile.
LEMMA StartsKeep ==
  ASSUME MemoryInv, Start, UNCHANGED contextVars
  PROVE  MemoryInv'
<1>1. PICK c \in Compilers : /\ compilers[c] # Null
                             /\ \/ CompileString(c) \/ CompileFile(c) \/ CompileToObject(c)
                                \/ \E h \in Jits : JitCompileString(c, h) \/ JitCompileFile(c, h)
  BY DEF Start
<1>2. compilers[c].hosted \in BOOLEAN /\ Null \in Targets /\ Null \notin Jits
  BY <1>1, HostAssumption DEF MemoryInv, MemoryTypes, CompilerRecords, Targets
<1>3. CASE CompileString(c)
  BY <1>2, <1>3, StartKeeps DEF CompileString
<1>4. CASE CompileFile(c)
  BY <1>2, <1>4, StartKeeps DEF CompileFile
<1>5. CASE CompileToObject(c)
  BY <1>2, <1>5, StartKeeps DEF CompileToObject
<1>6. ASSUME NEW h \in Jits, JitCompileString(c, h) PROVE MemoryInv'
  BY <1>2, <1>6, StartKeeps DEF JitCompileString, Targets
<1>7. ASSUME NEW h \in Jits, JitCompileFile(c, h) PROVE MemoryInv'
  BY <1>2, <1>7, StartKeeps DEF JitCompileFile, Targets
<1> QED BY <1>1, <1>3, <1>4, <1>5, <1>6, <1>7

\* What the host and the compiler do, one step per operation.
LEMMA HostKeeps ==
  ASSUME MemoryInv, BoundInv, Host
  PROVE  MemoryInv'
<1>1. UNCHANGED contextVars
  BY DEF Host
<1>2. CASE Settings
  BY <1>1, <1>2, NewCompilerKeeps, DestroyCompilerKeeps, DirKeeps, PrefixKeeps, ResolverKeeps DEF Settings
<1>3. CASE Start
  BY <1>1, <1>3, StartsKeep
<1>4. CASE FrontEnd
  BY <1>1, <1>4, AnalyzeKeeps, StopKeeps, ContinueKeeps, TeardownKeeps DEF FrontEnd
<1>5. CASE BackEnd
  BY <1>1, <1>5, BuildKeeps, BuildFailedKeeps, PrintKeeps, ResultKeeps, TargetKeeps, EmitKeeps, EmitDoneKeeps DEF BackEnd
<1>6. CASE Load
  BY <1>1, <1>6, NewHandleKeeps, LoadFailedKeeps, PublishKeeps, MachineKeeps, PipelineKeeps, SessionKeeps, AddKeeps DEF Load
<1>7. CASE Release
  BY <1>1, <1>7, TextKeeps, DestroyHandleKeeps DEF Release
<1> QED BY <1>2, <1>3, <1>4, <1>5, <1>6, <1>7 DEF Host

\* What the generated code does.
LEMMA GeneratedKeeps ==
  ASSUME MemoryInv, BoundInv, Generated
  PROVE  MemoryInv'
<1>1. ASSUME NEW i \in Owning, NEW k \in Contexts, NEW value \in {Null, Value(k, i)}, Call(k, i, value)
      PROVE  MemoryInv'
  BY <1>1, SetGlobalKeeps DEF Call, Idle
<1>2. ASSUME NEW i \in Owning, NEW h \in Jits, NEW empty \in BOOLEAN, ExportCall(h, i, empty)
      PROVE  MemoryInv'
  <2>1. bound[h] \in Contexts /\ contexts[bound[h]] # Null
    BY <1>2 DEF ExportCall, BoundInv, ContextTypes, ExportBound
  <2>2. If(~empty, Value(bound[h], i)) \in {Null, Value(bound[h], i)}
    BY DEF If
  <2>3. call = Null /\ ~OnStack(bound[h]) /\ SetGlobal(bound[h], i, If(~empty, Value(bound[h], i)))
    BY <1>2 DEF ExportCall, Idle
  <2> QED BY <2>1, <2>2, <2>3, SetGlobalKeeps
<1> QED BY <1>1, <1>2, ContextCreateKeeps, InitGlobalKeeps, CreatedKeeps, DropGlobalKeeps, ContextGoneKeeps,
           ContextDestroyKeeps DEF Generated

LEMMA StutterKeeps ==
  ASSUME MemoryInv, UNCHANGED vars
  PROVE  MemoryInv'
<1>1. UNCHANGED <<heap, misused, compilers, jits, call, contexts>> /\ running' = running
  BY DEF vars
<1>2. FrameInv'
  BY <1>1 DEF MemoryInv, FrameInv
<1> QED BY <1>1, <1>2, FramesStep

LEMMA MemoryKept == MemoryInv /\ BoundInv /\ [Next]_vars => MemoryInv'
BY HostKeeps, GeneratedKeeps, StutterKeeps DEF Next

\* Every object in the heap has its owner, and every pointer of an owner its object.
THEOREM MemoryHolds == Spec => []MemoryInv
<1>1. Spec => []BoundInv
  BY ContextsLive
<1> QED BY <1>1, NothingAtFirst, MemoryKept, PTL DEF Spec

\* Nothing is freed twice, used after it was freed, or overwritten while it is all that knows an
\* object, whichever steps of a compile fail.
THEOREM MemorySafeHolds == Spec => []MemorySafe
<1>1. MemoryInv => MemorySafe
  BY DEF MemoryInv, MemoryTypes, MemorySafe
<1> QED BY <1>1, MemoryHolds, PTL

-----------------------------------------------------------------------------
\* What is owned, owner by owner.
LEMMA OwnedFacts ==
  /\ \A c \in Compilers : compilers[c] # Null => CompilerOwns(c) \subseteq Owned
  /\ \A h \in Jits : jits[h] # Null => HandleOwns(h) \subseteq Owned
  /\ \A k \in Contexts : contexts[k] # Null => ContextOwns(k) \subseteq Owned
  /\ \A x \in Owned :
       \/ \E c \in Compilers : compilers[c] # Null /\ x \in CompilerOwns(c)
       \/ \E h \in Jits : jits[h] # Null /\ x \in HandleOwns(h)
       \/ \E k \in Contexts : contexts[k] # Null /\ x \in ContextOwns(k)
BY DEF Owned

\* What an owner has is in the heap.
LEMMA OwnedThere ==
  ASSUME MemoryInv, BoundInv, call = Null, NEW x, x \in Owned, x # Null
  PROVE  x \in heap /\ x[1] # "text"
<1>1. ASSUME NEW c \in Compilers, compilers[c] # Null, x \in CompilerOwns(c) PROVE x \in heap /\ x[1] # "text"
  <2>1. compilers[c] \in CompilerRecords /\ CompilerSlots
    BY <1>1 DEF MemoryInv, MemoryTypes
  <2>2. compilers[c].prefix \in Prefixes /\ compilers[c].dirs \in 0..MaxDirs /\ MaxDirs \in Nat
    BY <2>1, HostAssumption DEF CompilerRecords
  <2>3. NonNull({PrefixOf(c)}) \subseteq heap /\ NonNull({DirsOf(c)}) \subseteq heap
    BY <2>1, SettingsThere
  <2>4. CASE x = PrefixOf(c)
    BY <2>3, <2>4 DEF PrefixOf, If, NonNull
  <2>5. CASE x = DirsOf(c)
    BY <2>3, <2>5 DEF DirsOf, If, NonNull
  <2>6. CASE x = <<"compiler", c>>
    BY <1>1, <2>1, <2>6 DEF CompilerSlots, CompilerHas
  <2>7. ASSUME NEW d \in 1..compilers[c].dirs, x = <<"dir", c, d>> PROVE x \in heap /\ x[1] # "text"
    <3>1. d \in 0..MaxDirs
      BY <2>2, <2>7
    <3> QED BY <1>1, <2>1, <2>7, <3>1 DEF CompilerSlots, CompilerHas
  <2> QED BY <1>1, <2>4, <2>5, <2>6, <2>7 DEF CompilerOwns
<1>2. ASSUME NEW h \in Jits, jits[h] # Null, x \in HandleOwns(h) PROVE x \in heap /\ x[1] # "text"
  <2>1. jits[h] \in HandlesOf(h) /\ h \in Targets
    BY <1>2 DEF MemoryInv, MemoryTypes, Targets
  <2>2. SlotsOf(h, jits[h], NoBuilt)
    BY <1>2, <2>1 DEF MemoryInv, HandleSlots, InCall, IdleHandle
  <2>3. \E kind \in HandleKinds : x = <<kind, h>>
    BY <1>2, <2>1 DEF HandleOwns, HandlesOf, Opt, HandleKinds
  <2>4. x \in heap
    BY <1>2, <2>1, <2>2 DEF HandleOwns, HandlesOf, Opt, SlotsOf
  <2> QED BY <2>3, <2>4 DEF HandleKinds
<1>3. ASSUME NEW k \in Contexts, contexts[k] # Null, x \in ContextOwns(k) PROVE x \in heap /\ x[1] # "text"
  <2>1. CASE x = <<"context", k>>
    BY <1>3, <2>1 DEF MemoryInv, ContextSlots, ContextHas
  <2>2. ASSUME NEW i \in Owning, x = contexts[k].field[i] PROVE x \in heap /\ x[1] # "text"
    <3>1. x = Value(k, i) /\ i \in DOMAIN Globals
      BY <1>3, <2>2 DEF MemoryInv, FieldInv, Owning
    <3>2. contexts[k].field[i] # Null /\ ContextHas(k)
      BY <2>2 DEF MemoryInv, ContextSlots
    <3>3. Value(k, i) \in heap
      BY <1>3, <3>1, <3>2 DEF ContextHas
    <3> QED BY <3>1, <3>3 DEF Value
  <2> QED BY <1>3, <2>1, <2>2 DEF ContextOwns
<1> QED BY <1>1, <1>2, <1>3, OwnedFacts

\* What is in the heap has an owner, the texts aside.
LEMMA ThereOwned ==
  ASSUME MemoryInv, BoundInv, call = Null, NEW x \in heap, x[1] # "text"
  PROVE  x \in Owned /\ x # Null
<1>1. x \in Objects /\ x # Null
  BY ObjectsAssumption DEF MemoryInv
<1>2. CASE x \in CompilerObjects
  <2>1. PICK c \in Compilers : \/ x = <<"compiler", c>>
                               \/ \E p \in Prefixes : x = <<"prefix", c, p>>
                               \/ \E n \in 0..MaxDirs : x = <<"dirs", c, n>> \/ x = <<"dir", c, n>>
    BY <1>2 DEF CompilerObjects
  <2>2. CompilerHas(c)
    BY DEF MemoryInv, CompilerSlots
  <2>3. compilers[c] # Null /\ x \in CompilerOwns(c)
    <3>1. CASE x = <<"compiler", c>>
      BY <2>2, <3>1 DEF CompilerHas, CompilerOwns
    <3>2. ASSUME NEW p \in Prefixes, x = <<"prefix", c, p>> PROVE compilers[c] # Null /\ x \in CompilerOwns(c)
      BY <2>2, <3>2 DEF CompilerHas, CompilerOwns, PrefixOf, If
    <3>3. ASSUME NEW n \in 0..MaxDirs, x = <<"dirs", c, n>> PROVE compilers[c] # Null /\ x \in CompilerOwns(c)
      BY <2>2, <3>3 DEF CompilerHas, CompilerOwns, DirsOf, If
    <3>4. ASSUME NEW n \in 0..MaxDirs, x = <<"dir", c, n>> PROVE compilers[c] # Null /\ x \in CompilerOwns(c)
      BY <2>2, <3>4 DEF CompilerHas, CompilerOwns
    <3> QED BY <2>1, <3>1, <3>2, <3>3, <3>4
  <2> QED BY <1>1, <2>3, OwnedFacts
<1>3. CASE x \in HandleObjects
  <2>1. PICK h \in Targets, kind \in HandleKinds : x = <<kind, h>>
    BY <1>3 DEF HandleObjects
  <2>2. SlotsOf(h, IdleHandle(h), NoBuilt)
    BY DEF MemoryInv, HandleSlots, InCall
  <2>3. h \in Jits /\ jits[h] # Null
    <3> SUFFICES ASSUME ~(h \in Jits /\ jits[h] # Null) PROVE FALSE
      OBVIOUS
    <3>1. IdleHandle(h) = NoHandle
      BY DEF IdleHandle
    <3> QED BY <2>1, <2>2, <3>1, NothingBuilt DEF SlotsOf, HandleKinds
  <2>4. jits[h] \in HandlesOf(h) /\ IdleHandle(h) = jits[h]
    BY <2>3 DEF MemoryInv, MemoryTypes, IdleHandle
  <2>5. x \in HandleOwns(h)
    <3>1. SlotsOf(h, jits[h], NoBuilt)
      BY <2>2, <2>4
    <3> QED BY <2>1, <2>4, <3>1, NothingBuilt DEF SlotsOf, HandleKinds, HandleOwns, HandlesOf, Opt
  <2> QED BY <1>1, <2>3, <2>5, OwnedFacts
<1>4. CASE x \in CallObjects
  BY <1>4 DEF CallObjects, CallKinds, MemoryInv, CallSlots
<1>5. CASE x \in ContextObjects
  <2>1. PICK k \in Contexts : x = <<"context", k>> \/ \E i \in DOMAIN Globals : x = Value(k, i)
    BY <1>5 DEF ContextObjects, Value
  <2>2. ContextHas(k)
    BY DEF MemoryInv, ContextSlots
  <2>3. contexts[k] # Null /\ x \in ContextOwns(k)
    <3>1. CASE x = <<"context", k>>
      BY <2>2, <3>1 DEF ContextHas, ContextOwns
    <3>2. ASSUME NEW i \in DOMAIN Globals, x = Value(k, i) PROVE contexts[k] # Null /\ x \in ContextOwns(k)
      <4>1. contexts[k] # Null /\ i \in Owning /\ contexts[k].field[i] # Null
        BY <2>2, <3>2 DEF ContextHas
      <4>2. contexts[k].field[i] = x
        BY <3>2, <4>1 DEF MemoryInv, FieldInv
      <4> QED BY <4>1, <4>2 DEF ContextOwns
    <3> QED BY <2>1, <3>1, <3>2
  <2> QED BY <1>1, <2>3, OwnedFacts
<1>6. CASE x \in TextObjects
  BY <1>6 DEF TextObjects
<1> QED BY <1>1, <1>2, <1>3, <1>4, <1>5, <1>6 DEF Objects

\* Between calls the heap holds what the compilers, the handles, the contexts and the texts the host
\* was given own, and nothing else: a compile that failed half way has given back all it had.
THEOREM NothingLeaksHolds == Spec => []NothingLeaks
<1>1. MemoryInv /\ BoundInv => NothingLeaks
  <2> SUFFICES ASSUME MemoryInv, BoundInv, call = Null PROVE heap \ HostTexts = Owned \ {Null}
    BY DEF NothingLeaks, Idle
  <2>1. \A x : x \in heap \ HostTexts <=> x \in heap /\ x[1] # "text"
    BY DEF HostTexts
  <2>2. \A x \in heap : x[1] # "text" => x \in Owned /\ x # Null
    BY ThereOwned
  <2>3. \A x \in Owned : x # Null => x \in heap /\ x[1] # "text"
    BY OwnedThere
  <2> QED BY <2>1, <2>2, <2>3
<1> QED BY <1>1, MemoryHolds, ContextsLive, PTL

\* Every function of a handle is found by the name its source gives it, under the prefix it was
\* compiled with, whatever the compiler's prefix has become.
THEOREM LookupFindsHolds == Spec => []LookupFinds
<1>1. MemoryInv => LookupFinds
  <2> SUFFICES ASSUME MemoryInv, NEW h \in Jits, jits[h] # Null, NEW symbol \in jits[h].symbols
               PROVE  GetFunction(h, symbol[2]) = symbol
    BY DEF LookupFinds
  <2> DEFINE prefix == jits[h].prefix
  <2>1. jits[h].symbols = {<<prefix, "f">>, <<"", "e">>} /\ prefix \in Prefixes
    BY DEF MemoryInv, MemoryTypes, PublishedInv, IsPublished, SymbolsUnder, HandlesOf
  <2>2. \A p \in Prefixes : <<p, "f">> # Null /\ <<p, "e">> # Null
    BY ObjectsAssumption DEF Symbols
  <2> HIDE DEF prefix
  <2>3. \A s : LLVMJitGetAddress(h, s) = IF s \in {<<prefix, "f">>, <<"", "e">>} THEN s ELSE Null
    BY <2>1 DEF LLVMJitGetAddress, If
  <2>4. \A name : GetFunction(h, name) = IF prefix # "" /\ LLVMJitGetAddress(h, <<prefix, name>>) # Null
                                         THEN LLVMJitGetAddress(h, <<prefix, name>>)
                                         ELSE LLVMJitGetAddress(h, <<"", name>>)
    BY DEF GetFunction, prefix
  <2>5. GetFunction(h, "f") = <<prefix, "f">>
    BY <2>1, <2>2, <2>3, <2>4
  <2>6. GetFunction(h, "e") = <<"", "e">>
    BY <2>1, <2>2, <2>3, <2>4, HostAssumption
  <2>7. symbol = <<prefix, "f">> \/ symbol = <<"", "e">>
    BY <2>1
  <2>8. CASE symbol = <<prefix, "f">>
    BY <2>5, <2>8
  <2>9. CASE symbol = <<"", "e">>
    BY <2>6, <2>9
  <2> QED BY <2>7, <2>8, <2>9
<1> QED BY <1>1, MemoryHolds, PTL
=============================================================================
