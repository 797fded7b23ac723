------------------------- MODULE ModuleLoader_proofs -------------------------
(***************************************************************************)
(* For every set of programs: loading one merges every module once, after  *)
(* the modules it imports, but for those that import it back.              *)
(***************************************************************************)
EXTENDS ModuleLoader, Recursion_proofs

-----------------------------------------------------------------------------
\* Sequences.

\* One element makes a sequence of its set.
LEMMA SingleType == ASSUME NEW S, NEW e \in S PROVE <<e>> \in Seq(S)
OBVIOUS

-----------------------------------------------------------------------------
\* Resolution and reachability.

\* What an import resolves to is a module, or nothing (ResolveImport).
LEMMA ResolveType ==
  ASSUME TypeOK, NEW name, NEW path
  PROVE  ResolveImport(name, path) \in DOMAIN prog.files \cup {NoModule}
<1>1. CASE ~prog.hosted
  BY <1>1 DEF ResolveImport, ResolveImportPath, FileExists
<1>2. CASE prog.hosted /\ <<name, path>> \in DOMAIN prog.answers
  BY <1>2, ProgramsAssumption DEF ResolveImport, TypeOK
<1>3. CASE prog.hosted /\ <<name, path>> \notin DOMAIN prog.answers
  BY <1>3 DEF ResolveImport
<1> QED BY <1>1, <1>2, <1>3

\* A module reaches itself, and what is imported by what it reaches.
LEMMA ReachesSteps ==
  /\ \A a : Abstract!Reaches(a, a)
  /\ \A a, b, c : /\ Abstract!Reaches(a, b) /\ b \in DOMAIN prog.files /\ c \in ImportGraph[b]
                 => Abstract!Reaches(a, c)
BY DEF Abstract!Reaches, ImportGraph

\* What the call on top of the stack finds is an import of its module.
LEMMA FoundIsImport ==
  ASSUME TypeOK, Pending, Found # NoModule
  PROVE  /\ Name \in DOMAIN prog.files
         /\ Found \in DOMAIN prog.files
         /\ Found \in ImportGraph[Name]
<1>1. Top \in DOMAIN stack /\ Top \in Nat
  BY DEF Pending, Top, TypeOK
<1>a. stack[Top] \in Calls
  <2>1. stack \in Seq(Calls)
    BY DEF TypeOK
  <2> QED BY <1>1, <2>1
<1>2. Name \in DOMAIN prog.files
  BY <1>a DEF Name, Calls
<1>b. Paths \in Seq(Seq(STRING))
  BY <1>2, ProgramsAssumption DEF Paths, TypeOK
<1>3. stack[Top].next \in DOMAIN Paths
  BY <1>a, <1>b DEF Pending, Calls
<1>4. Found \in DOMAIN prog.files
  BY ResolveType DEF Found
<1> QED BY <1>2, <1>3, <1>4 DEF ImportGraph, Imported, Found, Paths

\* A step that keeps the program keeps what is resolved and reached.
LEMMA GraphStays ==
  ASSUME prog' = prog
  PROVE  /\ ImportGraph' = ImportGraph
         /\ \A name, path : ResolveImport(name, path)' = ResolveImport(name, path)
         /\ \A a, b : Abstract!Reaches(a, b)' <=> Abstract!Reaches(a, b)
<1>1. \A name, path : ResolveImport(name, path)' = ResolveImport(name, path)
  BY DEF ResolveImport, ResolveImportPath, FileExists
<1>2. ImportGraph' = ImportGraph
  BY DEF ImportGraph, Imported, ResolveImport, ResolveImportPath, FileExists
<1>3. Abstract!Modules' = Abstract!Modules
  BY <1>2 DEF Abstract!Modules
<1>4. \A a, b : Abstract!Reaches(a, b)' <=> Abstract!Reaches(a, b)
  BY <1>2, <1>3 DEF Abstract!Reaches
<1> QED BY <1>1, <1>2, <1>4

-----------------------------------------------------------------------------
\* The invariant.

\* It holds before anything is read.
LEMMA InitHolds == Init => LoadInv
BY DEF Init, LoadInv, TypeOK, EachOnce, Chained, Followed, Keys, Merged, OnStack

\* The main module is read (ModuleLoaderLoad).
LEMMA LoadKeeps ==
  ASSUME LoadInv, Load
  PROVE  LoadInv'
<1>1. prog.main \in DOMAIN prog.files
  BY DEF Load, FileExists
<1> DEFINE frame == [name |-> prog.main, next |-> 1]
<1>2. /\ stack' = <<frame>> /\ visited' = <<prog.main>> /\ prog' = prog /\ order' = order
      /\ frame \in Calls
      /\ frame.name = prog.main /\ frame.next = 1
  BY <1>1 DEF Load, Call, Calls
<1> HIDE DEF frame
<1>3. TypeOK'
  <2>0. Calls' = Calls
    BY <1>2 DEF Calls
  <2>1. stack' \in Seq(Calls) /\ visited' \in Seq(DOMAIN prog.files)
    BY <1>1, <1>2, SingleType
  <2> QED BY <1>2, <2>0, <2>1 DEF LoadInv, TypeOK
<1>4. EachOnce'
  <2>1. order = <<>>
    BY DEF LoadInv, EachOnce, Load
  <2> QED BY <1>2, <2>1 DEF EachOnce, Keys, Merged, OnStack
<1>5. Chained'
  BY <1>1, <1>2, GraphStays, ReachesSteps DEF Chained
<1>6. Followed'
  BY <1>2 DEF Followed
<1> QED BY <1>3, <1>4, <1>5, <1>6 DEF LoadInv

\* A call moves on to its next import; nothing else of the calls changes.
LEMMA ContinuedFrames ==
  ASSUME TypeOK, Pending
  PROVE  /\ Top \in DOMAIN stack
         /\ Continued \in Seq(Calls) /\ DOMAIN Continued = DOMAIN stack /\ Len(Continued) = Len(stack)
         /\ \A k \in DOMAIN stack : Continued[k].name = stack[k].name
         /\ \A k \in DOMAIN stack \ {Top} : Continued[k] = stack[k]
         /\ Continued[Top].next = stack[Top].next + 1
<1>1. stack \in Seq(Calls)
  BY DEF TypeOK
<1>2. Top \in DOMAIN stack /\ Top = Len(stack)
  BY <1>1 DEF Pending, Top
<1>3. \A k \in DOMAIN stack : stack[k] \in Calls
  BY <1>1
<1>4. [stack[Top] EXCEPT !.next = @ + 1] \in Calls
  BY <1>2, <1>3 DEF Calls
<1>5. Continued = [stack EXCEPT ![Top] = [stack[Top] EXCEPT !.next = @ + 1]]
  BY DEF Continued
<1>6. Continued \in Seq(Calls) /\ DOMAIN Continued = DOMAIN stack /\ Len(Continued) = Len(stack)
  BY <1>1, <1>2, <1>4, <1>5
<1>7. \A k \in DOMAIN stack \ {Top} : Continued[k] = stack[k]
  BY <1>1, <1>5
<1>8. Continued[Top].name = stack[Top].name /\ Continued[Top].next = stack[Top].next + 1
  BY <1>2, <1>3, <1>5 DEF Calls
<1> QED BY <1>2, <1>6, <1>7, <1>8

\* An import that is read already, or was not found, only moves the call on
\* (ResolveImport returns).
LEMMA SkipKeeps ==
  ASSUME LoadInv, Pending, Found \in Keys \cup {NoModule},
         stack' = Continued, UNCHANGED <<prog, visited, order>>
  PROVE  LoadInv'
<1>0. TypeOK /\ EachOnce /\ Chained /\ Followed
  BY DEF LoadInv
<1> USE ContinuedFrames, <1>0
<1>1. TypeOK'
  <2>1. Calls' = Calls
    BY DEF Calls
  <2> QED BY <2>1 DEF TypeOK
<1>2. EachOnce'
  <2>1. OnStack' = OnStack
    BY DEF OnStack
  <2> QED BY <2>1 DEF EachOnce, Keys, Merged
<1>3. Chained'
  BY GraphStays DEF Chained
<1>4. Followed'
  <2> SUFFICES ASSUME NEW k \in DOMAIN stack, NEW i \in 1..(Continued[k].next - 1),
                      i \in DOMAIN prog.files[stack[k].name].imports
               PROVE  ResolveImport(stack[k].name, prog.files[stack[k].name].imports[i]) \in Keys \cup {NoModule}
    BY GraphStays DEF Followed, Keys
  <2>1. CASE k # Top
    BY <2>1 DEF Followed
  <2>2. CASE k = Top /\ i = stack[Top].next
    BY <2>2 DEF Found, Name, Paths
  <2>3. CASE k = Top /\ i # stack[Top].next
    <3>1. stack[Top].next \in Nat
      <4>1. stack \in Seq(Calls)
        BY DEF TypeOK
      <4>2. stack[Top] \in Calls
        BY <4>1
      <4> QED BY <4>2 DEF Calls
    <3>2. i \in 1..(stack[Top].next - 1)
      BY <2>3, <3>1
    <3> QED BY <2>3, <3>2 DEF Followed
  <2> QED BY <2>1, <2>2, <2>3
<1> QED BY <1>1, <1>2, <1>3, <1>4 DEF LoadInv

\* Appending adds one element, at the end.
LEMMA AppendFacts ==
  ASSUME NEW S, NEW s \in Seq(S), NEW e
  PROVE  /\ DOMAIN Append(s, e) = DOMAIN s \cup {Len(s) + 1}
         /\ \A k \in DOMAIN s : Append(s, e)[k] = s[k]
         /\ Append(s, e)[Len(s) + 1] = e
         /\ Len(s) + 1 \notin DOMAIN s
         /\ \A k \in DOMAIN s : k \in 1..Len(s)
         /\ e \in S => Append(s, e) \in Seq(S)
OBVIOUS

\* A new module is read and its call goes on top (LoadStrataModule).
LEMMA ImportKeeps ==
  ASSUME LoadInv, ImportModule
  PROVE  LoadInv'
<1>0. TypeOK /\ EachOnce /\ Chained /\ Followed
  BY DEF LoadInv
<1>1. Pending /\ Found # NoModule /\ Found \notin Keys /\ prog' = prog /\ order' = order
  BY DEF ImportModule, AlreadyVisited
<1>2. Found \in DOMAIN prog.files /\ Name \in DOMAIN prog.files /\ Found \in ImportGraph[Name]
  BY <1>0, <1>1, FoundIsImport
<1> DEFINE f == Found
           frame == [name |-> f, next |-> 1]
<1>3. frame \in Calls /\ frame.name = f /\ frame.next = 1
  BY <1>2 DEF Calls
<1>4. visited' = Append(visited, f) /\ stack' = Append(Continued, frame)
  BY DEF ImportModule, Call
<1>5. visited \in Seq(DOMAIN prog.files) /\ stack \in Seq(Calls) /\ Continued \in Seq(Calls)
  BY <1>0, <1>1, ContinuedFrames DEF TypeOK
<1>6. f \in DOMAIN prog.files /\ f \notin Keys /\ f \in ImportGraph[Name]
  BY <1>1, <1>2
<1> DEFINE new == Len(stack) + 1
<1>7. /\ DOMAIN stack' = DOMAIN stack \cup {new} /\ new \notin DOMAIN stack
      /\ stack'[new] = frame
      /\ \A k \in DOMAIN stack : stack'[k] = Continued[k] /\ stack'[k].name = stack[k].name /\ k <= Top /\ k < new
      /\ Top \in DOMAIN stack /\ Top \in Nat /\ DOMAIN stack \subseteq Nat /\ new \in Nat
  <2>1. Top \in Nat /\ Top = Len(stack) /\ DOMAIN stack = 1..Top
    BY <1>5 DEF Top
  <2>2. Len(Continued) = Len(stack) /\ DOMAIN Continued = DOMAIN stack
    BY <1>0, <1>1, ContinuedFrames
  <2> QED BY <1>0, <1>1, <1>4, <1>5, <2>1, <2>2, ContinuedFrames, AppendFacts
<1> HIDE DEF f, frame, new
<1>8. Keys' = Keys \cup {f}
  BY <1>4, <1>5, AppendFacts DEF Keys
<1>9. OnStack' = OnStack \cup {f}
  <2>1. OnStack' = {stack'[k].name : k \in DOMAIN stack'}
    BY DEF OnStack
  <2> QED BY <1>3, <1>7, <2>1 DEF OnStack
<1>10. TypeOK'
  <2>1. Calls' = Calls
    BY <1>1 DEF Calls
  <2>2. visited' \in Seq(DOMAIN prog.files) /\ stack' \in Seq(Calls)
    BY <1>3, <1>4, <1>5, <1>6, AppendFacts
  <2> QED BY <1>0, <1>1, <2>1, <2>2 DEF TypeOK
<1>11. EachOnce'
  <2>1. Merged' = Merged /\ visited' # <<>>
    BY <1>1, <1>4, <1>5 DEF Merged
  <2>2. f \notin Merged /\ f \notin OnStack /\ \A k \in DOMAIN stack : stack[k].name # f
    BY <1>0, <1>6 DEF EachOnce, OnStack
  <2>3. \A j, k \in DOMAIN stack' : stack'[j].name = stack'[k].name => j = k
    BY <1>0, <1>3, <1>7, <2>2 DEF EachOnce
  <2> QED BY <1>0, <1>8, <1>9, <2>1, <2>2, <2>3 DEF EachOnce
<1>12. Chained'
  <2>1. stack[Top].name = Name
    BY DEF Name
  <2>2. \A a : Abstract!Reaches(a, Name) => Abstract!Reaches(a, f)
    BY <1>2, <1>6, ReachesSteps
  <2>3. \A k \in DOMAIN stack : Abstract!Reaches(stack[k].name, f)
    BY <1>0, <1>7, <2>1, <2>2 DEF Chained
  <2>4. Abstract!Reaches(prog.main, f) /\ Abstract!Reaches(f, f)
    BY <1>0, <1>7, <2>1, <2>2, ReachesSteps DEF Chained
  <2>5. \A j, k \in DOMAIN stack' : j <= k => Abstract!Reaches(stack'[j].name, stack'[k].name)
    <3> SUFFICES ASSUME NEW j \in DOMAIN stack', NEW k \in DOMAIN stack', j <= k
                 PROVE  Abstract!Reaches(stack'[j].name, stack'[k].name)
      OBVIOUS
    <3>1. CASE j \in DOMAIN stack /\ k \in DOMAIN stack
      BY <1>0, <1>7, <3>1 DEF Chained
    <3>2. CASE k = new /\ j \in DOMAIN stack
      BY <1>3, <1>7, <2>3, <3>2
    <3>3. CASE k = new /\ j = new
      BY <1>3, <1>7, <2>4, <3>3
    <3>4. ~(j = new /\ k \in DOMAIN stack)
      BY <1>7
    <3> QED BY <1>7, <3>1, <3>2, <3>3, <3>4
  <2>6. \A k \in DOMAIN stack' : Abstract!Reaches(prog.main, stack'[k].name)
    BY <1>0, <1>3, <1>7, <2>4 DEF Chained
  <2>7. prog.main \in DOMAIN prog.files
    <3>1. visited # <<>>
      <4>1. stack[Top].name \in Keys
        BY <1>0, <1>7 DEF EachOnce, OnStack
      <4>2. SUFFICES ASSUME visited = <<>> PROVE FALSE
        OBVIOUS
      <4>3. Keys = {}
        BY <4>2 DEF Keys
      <4> QED BY <4>1, <4>3
    <3> QED BY <1>0, <3>1 DEF Chained
  <2> QED BY <1>1, <2>5, <2>6, <2>7, GraphStays DEF Chained
<1>13. Followed'
  <2> SUFFICES ASSUME NEW k \in DOMAIN stack', NEW i \in 1..(stack'[k].next - 1),
                      i \in DOMAIN prog.files[stack'[k].name].imports
               PROVE  ResolveImport(stack'[k].name, prog.files[stack'[k].name].imports[i]) \in Keys' \cup {NoModule}
    BY <1>1, GraphStays DEF Followed
  <2>1. CASE k = new
    BY <1>3, <1>7, <2>1
  <2>2. CASE k \in DOMAIN stack /\ k # Top
    <3>1. stack'[k] = stack[k]
      BY <1>0, <1>1, <1>7, <2>2, ContinuedFrames
    <3> QED BY <1>0, <1>8, <2>2, <3>1 DEF Followed
  <2>3. CASE k = Top
    <3>1. stack'[k].next = stack[Top].next + 1 /\ stack'[k].name = stack[Top].name
      BY <1>0, <1>1, <1>7, <2>3, ContinuedFrames
    <3>2. stack[Top] \in Calls
      BY <1>5, <1>7
    <3>3. stack[Top].next \in Nat
      BY <3>2 DEF Calls
    <3>4. i = stack[Top].next \/ i \in 1..(stack[Top].next - 1)
      BY <3>1, <3>3
    <3>5. CASE i = stack[Top].next
      BY <1>8, <3>1, <3>5 DEF f, Found, Name, Paths
    <3>6. CASE i \in 1..(stack[Top].next - 1)
      BY <1>0, <1>7, <1>8, <3>1, <3>6 DEF Followed
    <3> QED BY <3>4, <3>5, <3>6
  <2> QED BY <1>7, <2>1, <2>2, <2>3
<1> QED BY <1>10, <1>11, <1>12, <1>13 DEF LoadInv

\* The call on top ends: its frame goes, its module is merged.
LEMMA EndedFacts ==
  ASSUME TypeOK, Top > 0, MergeModule
  PROVE  /\ Top \in DOMAIN stack /\ Top \in Nat
         /\ stack' \in Seq(Calls) /\ DOMAIN stack' = DOMAIN stack \ {Top}
         /\ \A k \in DOMAIN stack' : stack'[k] = stack[k]
         /\ Merged' = Merged \cup {Name}
         /\ order' \in Seq(DOMAIN prog.files)
         /\ Name \in DOMAIN prog.files
<1>1. stack \in Seq(Calls) /\ order \in Seq(DOMAIN prog.files)
  BY DEF TypeOK
<1>2. Top \in DOMAIN stack /\ Top \in Nat /\ Top = Len(stack) /\ DOMAIN stack = 1..Top
  BY <1>1 DEF Top
<1>3. stack' = SubSeq(stack, 1, Top - 1) /\ order' = Append(order, Name)
  BY DEF MergeModule
<1>4. /\ stack' \in Seq(Calls) /\ DOMAIN stack' = 1..(Top - 1)
      /\ \A k \in DOMAIN stack' : stack'[k] = stack[k]
  BY <1>1, <1>2, <1>3
<1>5. stack[Top] \in Calls
  BY <1>1, <1>2
<1>6. Name \in DOMAIN prog.files
  BY <1>5 DEF Name, Calls
<1>7. Merged' = Merged \cup {Name} /\ order' \in Seq(DOMAIN prog.files)
  BY <1>1, <1>3, <1>6, AppendFacts DEF Merged
<1> QED BY <1>2, <1>4, <1>6, <1>7

LEMMA MergeKeeps ==
  ASSUME LoadInv, MergeModule
  PROVE  LoadInv'
<1>0. TypeOK /\ EachOnce /\ Chained /\ Followed /\ Top > 0 /\ prog' = prog /\ visited' = visited
  BY DEF LoadInv, MergeModule
<1>1. /\ Top \in DOMAIN stack /\ Top \in Nat
      /\ stack' \in Seq(Calls) /\ DOMAIN stack' = DOMAIN stack \ {Top}
      /\ \A k \in DOMAIN stack' : stack'[k] = stack[k]
      /\ Merged' = Merged \cup {Name}
      /\ order' \in Seq(DOMAIN prog.files)
  BY <1>0, EndedFacts
<1>2. TypeOK'
  <2>1. Calls' = Calls
    BY <1>0 DEF Calls
  <2> QED BY <1>0, <1>1, <2>1 DEF TypeOK
<1>3. EachOnce'
  <2>1. Name = stack[Top].name
    BY DEF Name
  <2>2. \A k \in DOMAIN stack' : stack'[k].name # Name
    BY <1>0, <1>1, <2>1 DEF EachOnce
  <2>3. OnStack' = {stack'[k].name : k \in DOMAIN stack'}
    BY DEF OnStack
  <2>4. OnStack = OnStack' \cup {Name} /\ Name \notin OnStack'
    BY <1>1, <2>1, <2>2, <2>3 DEF OnStack
  <2>5. visited # <<>>
    <3>1. stack[Top].name \in Keys
      BY <1>0, <1>1 DEF EachOnce, OnStack
    <3>2. SUFFICES ASSUME visited = <<>> PROVE FALSE
      OBVIOUS
    <3>3. Keys = {}
      BY <3>2 DEF Keys
    <3> QED BY <3>1, <3>3
  <2>6. Keys' = Keys
    BY <1>0 DEF Keys
  <2>7. \A j, k \in DOMAIN stack' : stack'[j].name = stack'[k].name => j = k
    BY <1>0, <1>1 DEF EachOnce
  <2>8. Keys = Merged \cup OnStack /\ Merged \cap OnStack = {}
    BY <1>0 DEF EachOnce
  <2> HIDE DEF Merged, OnStack, Keys
  <2> QED BY <1>0, <1>1, <2>4, <2>5, <2>6, <2>7, <2>8 DEF EachOnce
<1>4. Chained'
  BY <1>0, <1>1, GraphStays DEF Chained
<1>5. Followed'
  <2>1. Keys' = Keys
    BY <1>0 DEF Keys
  <2> QED BY <1>0, <1>1, <2>1, GraphStays DEF Followed
<1> QED BY <1>2, <1>3, <1>4, <1>5 DEF LoadInv

\* Nothing is read: nothing changes.
LEMMA IdleKeeps ==
  ASSUME LoadInv, UNCHANGED <<prog, stack, visited, order>>
  PROVE  LoadInv'
<1>1. TypeOK'
  BY DEF LoadInv, TypeOK, Calls
<1>2. EachOnce'
  <2>1. Keys' = Keys /\ Merged' = Merged /\ OnStack' = OnStack
    BY DEF Keys, Merged, OnStack
  <2> QED BY <2>1 DEF LoadInv, EachOnce
<1>3. Chained'
  BY GraphStays DEF LoadInv, Chained
<1>4. Followed'
  BY GraphStays DEF LoadInv, Followed, Keys
<1> QED BY <1>1, <1>2, <1>3, <1>4 DEF LoadInv

\* Every step keeps the invariant.
LEMMA NextKeeps == LoadInv /\ [Next]_loaderVars => LoadInv'
<1> SUFFICES ASSUME LoadInv, [Next]_loaderVars PROVE LoadInv'
  OBVIOUS
<1>1. CASE Load
  BY <1>1, LoadKeeps
<1>2. CASE LoadFails
  BY <1>2, IdleKeeps DEF LoadFails
<1>3. CASE ImportModule
  BY <1>3, ImportKeeps
<1>4. CASE ImportAgain
  BY <1>4, SkipKeeps DEF ImportAgain, AlreadyVisited
<1>5. CASE ImportFails
  BY <1>5, SkipKeeps DEF ImportFails
<1>6. CASE MergeModule
  BY <1>6, MergeKeeps
<1>7. CASE UNCHANGED loaderVars
  BY <1>7, IdleKeeps DEF loaderVars
<1> QED BY <1>1, <1>2, <1>3, <1>4, <1>5, <1>6, <1>7 DEF Next

\* What is read is merged or being loaded, once; the calls on the stack form a
\* chain of imports from the main module; the imports behind them are read.
THEOREM Inductive == Spec => []LoadInv
BY InitHolds, NextKeeps, PTL DEF Spec

-----------------------------------------------------------------------------
\* The refinement.

\* A merge is a merge of the abstract specification: what the module imports is
\* merged, or is on the stack and so reaches it.
LEMMA MergeRefines ==
  ASSUME LoadInv, MergeModule
  PROVE  Abstract!Merge(Name)
<1>0. TypeOK /\ EachOnce /\ Chained /\ Followed /\ Top > 0 /\ prog' = prog
  BY DEF LoadInv, MergeModule
<1>1. Top \in DOMAIN stack /\ Top \in Nat /\ Name \in DOMAIN prog.files /\ Name = stack[Top].name
  BY <1>0, EndedFacts DEF Name
<1>2. Abstract!Merged = Merged /\ Abstract!Modules = DOMAIN prog.files
  BY DEF Abstract!Merged, Merged, Abstract!Modules, ImportGraph
<1>3. Name \notin Merged
  BY <1>0, <1>1 DEF EachOnce, OnStack
<1>4. Abstract!Reaches(prog.main, Name)
  BY <1>0, <1>1 DEF Chained
<1>5. prog.main \in DOMAIN prog.files
  <2>1. Keys # {}
    BY <1>0, <1>1 DEF EachOnce, OnStack
  <2>2. SUFFICES ASSUME visited = <<>> PROVE FALSE
    BY <1>0 DEF Chained
  <2>3. Keys = {}
    BY <2>2 DEF Keys
  <2> QED BY <2>1, <2>3
<1>6. \A i \in ImportGraph[Name] : i \in Merged \/ Abstract!Reaches(i, Name)
  <2> SUFFICES ASSUME NEW i \in ImportGraph[Name], i \notin Merged
               PROVE  Abstract!Reaches(i, Name)
    OBVIOUS
  <2>1. PICK k \in DOMAIN prog.files[Name].imports :
          i = ResolveImport(Name, prog.files[Name].imports[k]) /\ i \in DOMAIN prog.files
    BY <1>1 DEF ImportGraph, Imported
  <2>2. i # NoModule
    BY <2>1, <1>0, ProgramsAssumption DEF TypeOK
  <2>3. k \in 1..(stack[Top].next - 1)
    <3>1. prog.files[Name].imports \in Seq(Seq(STRING))
      BY <1>0, <1>1, ProgramsAssumption DEF TypeOK
    <3>2. stack \in Seq(Calls)
      BY <1>0 DEF TypeOK
    <3>3. stack[Top] \in Calls
      BY <1>1, <3>2
    <3>4. stack[Top].next \in Nat
      BY <3>3 DEF Calls
    <3>5. stack[Top].next > Len(prog.files[Name].imports)
      BY <1>0, <3>1, <3>4 DEF MergeModule, Pending, Paths
    <3> QED BY <3>1, <3>4, <3>5
  <2>4. i \in Keys
    BY <1>0, <1>1, <2>1, <2>2, <2>3 DEF Followed
  <2>5. PICK j \in DOMAIN stack : stack[j].name = i
    BY <1>0, <2>4 DEF EachOnce, OnStack
  <2>6. j <= Top
    <3>1. stack \in Seq(Calls)
      BY <1>0 DEF TypeOK
    <3> QED BY <2>5, <3>1 DEF Top
  <2> QED BY <1>0, <1>1, <2>5, <2>6 DEF Chained
<1>7. ImportGraph' = ImportGraph /\ order' = Append(order, Name)
  BY <1>0, GraphStays DEF MergeModule
<1> QED BY <1>0, <1>1, <1>2, <1>3, <1>4, <1>5, <1>6, <1>7 DEF Abstract!Merge

\* Loading a program merges its modules in an import order: no module twice, none
\* that the main one does not reach, each after its imports but those of a cycle.
\* (That all of them are merged in the end is the fairness TLC checks.)
THEOREM Refines == Spec => Abstract!Init /\ [][Abstract!Next]_(Abstract!importVars)
<1>1. Init => Abstract!Init
  BY DEF Init, Abstract!Init
<1>2. LoadInv /\ [Next]_loaderVars => [Abstract!Next]_(Abstract!importVars)
  <2> SUFFICES ASSUME LoadInv, [Next]_loaderVars
               PROVE  [Abstract!Next]_(Abstract!importVars)
    OBVIOUS
  <2>1. CASE MergeModule
    <3>1. Name \in Abstract!Modules
      <4>1. TypeOK /\ Top > 0
        BY <2>1 DEF LoadInv, MergeModule
      <4> QED BY <2>1, <4>1, EndedFacts DEF Abstract!Modules, ImportGraph
    <3> QED BY <2>1, <3>1, MergeRefines DEF Abstract!Next
  <2>2. CASE ~MergeModule
    <3>1. prog' = prog /\ order' = order
      BY <2>2 DEF Next, Load, LoadFails, ImportModule, ImportAgain, ImportFails, loaderVars
    <3> QED BY <3>1, GraphStays DEF Abstract!importVars
  <2> QED BY <2>1, <2>2
<1> QED BY <1>1, <1>2, Inductive, PTL DEF Spec

-----------------------------------------------------------------------------
\* What merging keeps.

\* A declaration that is appended clashes with none before it (AppendDeclaration).
LEMMA AppendItemFacts ==
  ASSUME NEW decls \in Seq(Declarations), NEW d \in Declarations
  PROVE  LET r == AppendItem(decls, d)
         IN  /\ r \in Seq(Declarations)
             /\ Len(decls) <= Len(r) /\ \A k \in 1..Len(decls) : r[k] = decls[k]
             /\ NoneTwice(decls) => NoneTwice(r)
             /\ Len(r) <= Len(decls) + 1
             /\ Len(r) = Len(decls) + 1 => r[Len(decls) + 1] = d
<1>1. CASE Redefines(decls, d)
  BY <1>1 DEF AppendItem
<1>2. CASE ~Redefines(decls, d)
  <2> DEFINE r == Append(decls, d)
  <2>1. AppendItem(decls, d) = r
    BY <1>2 DEF AppendItem
  <2>2. /\ r \in Seq(Declarations) /\ Len(r) = Len(decls) + 1 /\ r[Len(decls) + 1] = d
        /\ DOMAIN decls = 1..Len(decls) /\ DOMAIN r = 1..(Len(decls) + 1) /\ Len(decls) \in Nat
        /\ \A k \in 1..Len(decls) : r[k] = decls[k]
    OBVIOUS
  <2> HIDE DEF r
  <2>3. ASSUME NoneTwice(decls) PROVE NoneTwice(r)
    <3> SUFFICES ASSUME NEW i \in DOMAIN r, NEW j \in DOMAIN r, i < j, r[i].kind = r[j].kind, r[i].name = r[j].name
                 PROVE  r[i].kind = "function" \/ \E k \in {i, j} : r[k].kind = "struct" /\ r[k].form # "defined"
      BY DEF NoneTwice
    <3>1. i \in DOMAIN decls /\ r[i] = decls[i]
      BY <2>2
    <3>2. CASE j \in DOMAIN decls
      <4>1. r[j] = decls[j]
        BY <2>2, <3>2
      <4> QED BY <2>3, <3>1, <3>2, <4>1 DEF NoneTwice
    <3>3. CASE j = Len(decls) + 1
      <4>1. r[j] = d
        BY <2>2, <3>3
      <4>2. decls[i].kind = d.kind /\ decls[i].name = d.name
        BY <3>1, <4>1
      <4>3. CASE d.kind = "function"
        BY <3>1, <4>2, <4>3
      <4>4. CASE d.kind = "struct" /\ d.form # "defined"
        BY <4>1, <4>4
      <4>5. CASE d.kind = "struct" /\ decls[i].form = "forward"
        BY <3>1, <4>2, <4>5
      <4>6. d.kind \in {"struct", "handle", "enum", "global", "function"}
        BY DEF Declarations
      <4> QED BY <1>2, <3>1, <4>2, <4>3, <4>4, <4>5, <4>6 DEF Redefines
    <3> QED BY <2>2, <3>2, <3>3
  <2> QED BY <2>1, <2>2, <2>3
<1> QED BY <1>1, <1>2

\* The declarations are appended one after the other.
LEMMA AppendItemsSteps ==
  ASSUME NEW decls \in Seq(Declarations), NEW items \in Seq(Declarations)
  PROVE  \E m : /\ m[0] = decls
                /\ \A n \in 0..(Len(items) - 1) : m[n + 1] = AppendItem(m[n], items[n + 1])
                /\ AppendItems(decls, items) = m[Len(items)]
<1> DEFINE N       == Len(items)
           S       == Seq(Declarations)
           step    == [n \in Nat |-> [x \in S |-> IF n + 1 \in 1..N THEN AppendItem(x, items[n + 1]) ELSE x]]
           Body(m) == [n \in 0..N |-> IF n = 0 THEN decls ELSE AppendItem(m[n - 1], items[n])]
<1>1. N \in Nat /\ \A k \in 1..N : items[k] \in Declarations
  OBVIOUS
<1>2. \A x \in S, d \in Declarations : AppendItem(x, d) \in S
  BY AppendItemFacts
<1>3. step \in [Nat -> [S -> S]]
  <2> HIDE DEF S, N
  <2> QED BY <1>1, <1>2
<1>4. \A n \in Nat, x \in S : step[n][x] = IF n + 1 \in 1..N THEN AppendItem(x, items[n + 1]) ELSE x
  <2> HIDE DEF S, N
  <2> QED OBVIOUS
<1>5. decls \in S
  OBVIOUS
<1> HIDE DEF S, N, step
<1>a. PICK f : Recurses(f, S, decls, step)
  BY <1>3, <1>5, RecursionExists
<1>6. f \in [Nat -> S] /\ f[0] = decls /\ \A n \in Nat : f[n + 1] = step[n][f[n]]
  BY <1>a DEF Recurses
<1> DEFINE g == [n \in 0..N |-> f[n]]
<1>7. g = Body(g)
  <2>1. \A n \in 0..N : f[n] = IF n = 0 THEN decls ELSE AppendItem(f[n - 1], items[n])
    <3> SUFFICES ASSUME NEW n \in 0..N, n # 0 PROVE f[n] = AppendItem(f[n - 1], items[n])
      BY <1>6
    <3>1. n - 1 \in Nat /\ (n - 1) + 1 = n /\ n \in 1..N
      BY <1>1
    <3>2. f[n] = step[n - 1][f[n - 1]]
      BY <1>6, <3>1
    <3>3. f[n - 1] \in S
      BY <1>6, <3>1
    <3> QED BY <1>4, <3>1, <3>2, <3>3
  <2>2. \A n \in 0..N : n # 0 => g[n - 1] = f[n - 1]
    BY <1>1
  <2> QED BY <2>1, <2>2
<1> DEFINE m == CHOOSE x : x = Body(x)
<1>8. m = Body(m)
  <2>1. \E x : x = Body(x)
    BY <1>7
  <2> HIDE DEF Body
  <2> QED BY <2>1
<1>9. AppendItems(decls, items) = m[N]
  BY DEF AppendItems, N
<1> HIDE DEF m
<1>10. m[0] = decls
  BY <1>1, <1>8
<1>11. \A n \in 0..(N - 1) : m[n + 1] = AppendItem(m[n], items[n + 1])
  <2> SUFFICES ASSUME NEW n \in 0..(N - 1) PROVE m[n + 1] = AppendItem(m[n], items[n + 1])
    OBVIOUS
  <2>1. n + 1 \in 0..N /\ n + 1 # 0 /\ (n + 1) - 1 = n
    BY <1>1
  <2>2. Body(m)[n + 1] = AppendItem(m[n], items[n + 1])
    BY <2>1
  <2> QED BY <1>8, <2>2
<1> QED BY <1>9, <1>10, <1>11 DEF N

\* What came before stays where it is; the result clashes no more than it did; it
\* has every declaration appended unless one was refused (AppendItems).
LEMMA AppendItemsFacts ==
  ASSUME NEW decls \in Seq(Declarations), NEW items \in Seq(Declarations)
  PROVE  LET r == AppendItems(decls, items)
         IN  /\ r \in Seq(Declarations)
             /\ Len(decls) <= Len(r) /\ \A k \in 1..Len(decls) : r[k] = decls[k]
             /\ NoneTwice(decls) => NoneTwice(r)
             /\ Refused(decls, items) = 0 => HasAll(r, items)
<1> DEFINE N == Len(items)
<1>1. PICK m : /\ m[0] = decls
               /\ \A n \in 0..(N - 1) : m[n + 1] = AppendItem(m[n], items[n + 1])
               /\ AppendItems(decls, items) = m[N]
  BY AppendItemsSteps
<1> DEFINE Good(n) == /\ m[n] \in Seq(Declarations)
                      /\ Len(decls) <= Len(m[n]) /\ \A k \in 1..Len(decls) : m[n][k] = decls[k]
                      /\ NoneTwice(decls) => NoneTwice(m[n])
                      /\ Len(m[n]) <= Len(decls) + n
                      /\ Len(m[n]) = Len(decls) + n => \A k \in 1..n : m[n][Len(decls) + k] = items[k]
           G == {n \in 0..N : Good(n)}
<1>2. N \in Nat /\ Len(decls) \in Nat
  OBVIOUS
<1>3. 0 \in G
  BY <1>1
<1>4. ASSUME NEW n \in 0..(N - 1), n \in G PROVE n + 1 \in G
  <2> DEFINE d == items[n + 1]
             before == m[n]
             after  == m[n + 1]
  <2>1. n \in Nat /\ n + 1 \in 1..N /\ d \in Declarations
    OBVIOUS
  <2>2. Good(n)
    BY <1>4
  <2>3. after = AppendItem(before, d)
    BY <1>1
  <2>4. before \in Seq(Declarations)
    BY <2>2
  <2> HIDE DEF d, before, after
  <2>5. /\ after \in Seq(Declarations)
        /\ Len(before) <= Len(after) /\ \A k \in 1..Len(before) : after[k] = before[k]
        /\ NoneTwice(before) => NoneTwice(after)
        /\ Len(after) <= Len(before) + 1
        /\ Len(after) = Len(before) + 1 => after[Len(before) + 1] = d
    BY <2>1, <2>3, <2>4, AppendItemFacts
  <2>6. Len(before) \in Nat /\ Len(after) \in Nat
    BY <2>4, <2>5
  <2>7. /\ Len(decls) <= Len(before) /\ (\A k \in 1..Len(decls) : before[k] = decls[k])
        /\ (NoneTwice(decls) => NoneTwice(before))
        /\ Len(before) <= Len(decls) + n
        /\ (Len(before) = Len(decls) + n => \A k \in 1..n : before[Len(decls) + k] = items[k])
    BY <2>2 DEF before
  <2>8. Len(decls) <= Len(after) /\ \A k \in 1..Len(decls) : after[k] = decls[k]
    BY <1>2, <2>5, <2>6, <2>7
  <2>9. Len(after) <= Len(decls) + (n + 1)
    BY <1>2, <2>1, <2>5, <2>6, <2>7
  <2>10. ASSUME Len(after) = Len(decls) + (n + 1), NEW k \in 1..(n + 1)
         PROVE  after[Len(decls) + k] = items[k]
    <3>1. Len(before) = Len(decls) + n /\ Len(after) = Len(before) + 1
      BY <1>2, <2>1, <2>5, <2>6, <2>7, <2>10
    <3>2. CASE k = n + 1
      <4>1. Len(decls) + k = Len(before) + 1
        BY <1>2, <2>1, <3>1, <3>2
      <4> QED BY <2>5, <3>1, <3>2, <4>1 DEF d
    <3>3. CASE k \in 1..n
      <4>1. Len(decls) + k \in 1..Len(before)
        BY <1>2, <2>1, <3>1, <3>3
      <4>2. after[Len(decls) + k] = before[Len(decls) + k]
        BY <2>5, <4>1
      <4> QED BY <2>7, <3>1, <3>3, <4>2
    <3> QED BY <2>1, <3>2, <3>3
  <2>11. Good(n + 1)
    BY <2>5, <2>7, <2>8, <2>9, <2>10 DEF after
  <2>12. n + 1 \in 0..N
    BY <1>2, <2>1
  <2> HIDE DEF Good
  <2> QED BY <2>11, <2>12
<1>5. 0..N \subseteq G
  <2> HIDE DEF G, N
  <2> QED BY <1>2, <1>3, <1>4, BoundedInduction
<1>6. Good(N)
  <2> HIDE DEF Good, N
  <2>1. N \in 0..N
    BY <1>2
  <2> QED BY <1>5, <2>1
<1> DEFINE r == AppendItems(decls, items)
<1>7. r = m[N]
  BY <1>1
<1>8. /\ r \in Seq(Declarations)
      /\ Len(decls) <= Len(r) /\ \A k \in 1..Len(decls) : r[k] = decls[k]
      /\ NoneTwice(decls) => NoneTwice(r)
      /\ Len(r) = Len(decls) + N => \A k \in 1..N : r[Len(decls) + k] = items[k]
  BY <1>6, <1>7
<1> HIDE DEF r
<1>9. ASSUME Refused(decls, items) = 0 PROVE HasAll(r, items)
  <2>1. Len(r) = Len(decls) + N /\ DOMAIN items = 1..N
    BY <1>2, <1>8, <1>9 DEF Refused, r
  <2>2. \A k \in 1..N : Len(decls) + k \in DOMAIN r
    <3> HIDE DEF N
    <3>1. DOMAIN r = 1..Len(r)
      BY <1>8
    <3> QED BY <1>2, <2>1, <3>1
  <2> HIDE DEF N
  <2> QED BY <1>8, <2>1, <2>2 DEF HasAll
<1> QED BY <1>8, <1>9 DEF r

-----------------------------------------------------------------------------
\* What was merged is all there.

\* A step that merges nothing keeps what was merged.
LEMMA RootStays ==
  ASSUME RootInv, UNCHANGED <<prog, root, order>>, errors' = {} => errors = {}
  PROVE  RootInv'
<1>1. Merged' = Merged
  BY DEF Merged
<1> QED BY <1>1 DEF RootInv, NoneTwice, HasAll

\* A module is merged (MergeModule).
LEMMA RootMerges ==
  ASSUME LoadInv, RootInv, MergeModule
  PROVE  RootInv'
<1> DEFINE items == prog.files[Name].items
<1>1. TypeOK /\ Top > 0 /\ prog' = prog /\ root' = AppendItems(root, items)
  BY DEF LoadInv, MergeModule
<1>2. Name \in DOMAIN prog.files /\ Merged' = Merged \cup {Name}
  BY <1>1, EndedFacts
<1>3. items \in Seq(Declarations) /\ root \in Seq(Declarations)
  BY <1>1, <1>2, ProgramsAssumption DEF TypeOK, RootInv
<1>4. errors' = {} => errors = {} /\ Refused(root, items) = 0
  BY DEF MergeModule
<1> HIDE DEF items
<1>5. /\ root' \in Seq(Declarations)
      /\ Len(root) <= Len(root') /\ \A k \in 1..Len(root) : root'[k] = root[k]
      /\ NoneTwice(root) => NoneTwice(root')
      /\ Refused(root, items) = 0 => HasAll(root', items)
  BY <1>1, <1>3, AppendItemsFacts
<1>6. DOMAIN root = 1..Len(root) /\ DOMAIN root' = 1..Len(root') /\ Len(root) \in Nat /\ Len(root') \in Nat
  BY <1>3, <1>5
<1>7. ASSUME errors' = {}, NEW name \in Merged' PROVE HasAll(root', prog.files[name].items)
  <2>1. CASE name = Name
    BY <1>4, <1>5, <1>7, <2>1 DEF items
  <2>2. CASE name \in Merged
    <3>1. HasAll(root, prog.files[name].items)
      BY <1>4, <1>7, <2>2 DEF RootInv
    <3>2. \A j \in DOMAIN root : j \in DOMAIN root' /\ root'[j] = root[j]
      BY <1>5, <1>6
    <3> QED BY <3>1, <3>2 DEF HasAll
  <2> QED BY <1>2, <1>7, <2>1, <2>2
<1>8. NoneTwice(root)'
  BY <1>5 DEF RootInv, NoneTwice
<1>9. (errors = {} => \A name \in Merged : HasAll(root, prog.files[name].items))'
  BY <1>1, <1>7 DEF HasAll
<1> QED BY <1>5, <1>8, <1>9 DEF RootInv

LEMMA RootStep == LoadInv /\ RootInv /\ [Next]_loaderVars => RootInv'
<1> SUFFICES ASSUME LoadInv, RootInv, [Next]_loaderVars PROVE RootInv'
  OBVIOUS
<1>1. CASE MergeModule
  BY <1>1, RootMerges
<1>2. CASE ~MergeModule
  <2>1. UNCHANGED <<prog, root, order>> /\ (errors' = {} => errors = {})
    BY <1>2 DEF Next, Load, LoadFails, ImportModule, ImportAgain, ImportFails, loaderVars
  <2> QED BY <2>1, RootStays
<1> QED BY <1>1, <1>2

\* No name is defined twice among the declarations merged, whatever files they are
\* in; and what loads without an error has every declaration of every module read.
THEOREM RootWhole == Spec => []RootIsWhole
<1>1. Init => RootInv
  BY DEF Init, RootInv, NoneTwice, Merged
<1>2. LoadInv /\ RootInv => RootIsWhole
  <2> SUFFICES ASSUME LoadInv, RootInv PROVE RootIsWhole
    OBVIOUS
  <2>1. Done => Keys = Merged
    <3> SUFFICES ASSUME stack = <<>> PROVE Keys = Merged
      BY DEF Done
    <3>1. OnStack = {}
      BY DEF OnStack
    <3> QED BY <3>1 DEF LoadInv, EachOnce
  <2> QED BY <2>1 DEF RootInv, RootIsWhole
<1> QED BY <1>1, <1>2, RootStep, Inductive, PTL DEF Spec
=============================================================================
