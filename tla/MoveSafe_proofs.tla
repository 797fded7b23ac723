--------------------------- MODULE MoveSafe_proofs ---------------------------
(***************************************************************************)
(* For every set of functions, of tracked places and of facts, and every   *)
(* cap on the passes: the checker's and the run's variables keep their     *)
(* types, and a function the move checker accepted after its passes        *)
(* settled neither uses a place it moved (O1) nor returns with a part of a *)
(* `ref` parameter moved out (O2).                                         *)
(*                                                                         *)
(* The argument is the one of any forward analysis.  A pass that changes   *)
(* nothing leaves a fixpoint (SettledBehind, IsFixpoint); the report walks *)
(* the states of that fixpoint and misses none (ReportedBehind); and the   *)
(* states of a run stay under it (RunCovered).  The last sections show the *)
(* same of every walk along a path of the function, narrowing and refs     *)
(* included, and that a report has such a walk behind it.                  *)
(***************************************************************************)
EXTENDS MoveInv, TLAPS, MovePaths, Recursion_proofs

-----------------------------------------------------------------------------
\* Types of what the solver computes.

\* Joining two states of a place gives a state of a place.
LEMMA JoinType ==
  /\ \A a, b \in PlaceStates : Join(a, b) \in PlaceStates
  /\ \A a, b \in FactStates : Join(a, b) \in FactStates
BY DEF Join, PlaceStates, FactStates, Unvisited, Live, Moved, Maybe,
       FactNone, FactNonEmpty, FactDisagree, FactEmpty

\* Forgetting facts keeps a fact state a fact state.
LEMMA ForgetType ==
  ASSUME NEW fs \in FactState, NEW kills, NEW empties
  PROVE  Forget(fs, kills, empties) \in FactState
BY DEF Forget, FactState, FactStates, PlaceStates, FactNone, FactEmpty, Moved

\* So does learning one.
LEMMA SetFactType ==
  ASSUME NEW fs \in FactState, NEW key, NEW value \in FactStates
  PROVE  SetFact(fs, key, value) \in FactState
BY DEF SetFact, FactState

\* Consuming a value, or several, is forgetting.
LEMMA ConsumeType ==
  ASSUME NEW fs \in FactState, NEW v, NEW move
  PROVE  Consume(fs, v, move) \in FactState
BY ForgetType DEF Consume

\* The facts after some arguments are a fact state.
LEMMA ArgsType ==
  ASSUME NEW fs \in FactState, NEW n, NEW count
  PROVE  FactsAfterArgs(fs, n, count) \in FactState
BY ForgetType DEF FactsAfterArgs, ConsumeEach

\* Each operation of the graph takes a fact state to a fact state.
LEMMA FactDeclareType ==
  ASSUME NEW fs \in FactState, NEW n
  PROVE  FactDeclare(fs, n) \in FactState
<1> DEFINE taken == IF n.isRef THEN fs ELSE Consume(fs, n.init, TRUE)
           fresh == Forget(taken, Both(KillFacts(<<NameSeg(n.name)>>, TRUE),
                                       KillIndexVar(<<NameSeg(n.name)>>)), {})
           bound == [fresh EXCEPT !.ref = [r \in Refs |-> IF r = n.name THEN Live ELSE @[r]]]
<1>1. taken \in FactState
  BY ConsumeType
<1>2. fresh \in FactState
  <2> HIDE DEF taken
  <2> QED BY <1>1, ForgetType
<1>3. bound \in FactState
  <2> HIDE DEF fresh
  <2> QED BY <1>2 DEF FactState, PlaceStates, Live
<1>4. FactNonEmpty \in FactStates
  BY DEF FactStates
<1>5. SetFact(bound, <<NameSeg(n.name)>>, FactNonEmpty) \in FactState
  <2> HIDE DEF bound
  <2> QED BY <1>3, <1>4, SetFactType
<1> HIDE DEF bound
<1>6. FactDeclare(fs, n) \in {bound, SetFact(bound, <<NameSeg(n.name)>>, FactNonEmpty)}
  BY Zenon DEF FactDeclare, bound, fresh, taken
<1> QED BY <1>3, <1>5, <1>6

\* An assignment takes a fact state to a fact state (FactAssign).
LEMMA FactAssignType ==
  ASSUME NEW fs \in FactState, NEW n
  PROVE  FactAssign(fs, n) \in FactState
<1> DEFINE taken   == Consume(fs, n.value, TRUE)
           dropped == IF n.target.ty.owns
                        THEN Forget(taken, KillWrites(n.target.ty.drops), {}) ELSE taken
           written == Forget(dropped, KillPlaceOf(n.target, TRUE), {})
<1>1. taken \in FactState
  BY ConsumeType
<1>2. dropped \in FactState
  <2> HIDE DEF taken
  <2> QED BY <1>1, ForgetType
<1>3. written \in FactState
  <2> HIDE DEF dropped
  <2> QED BY <1>2, ForgetType
<1>4. SetFact(written, n.target.key, FactNonEmpty) \in FactState
  <2> HIDE DEF written
  <2>1. FactNonEmpty \in FactStates
    BY DEF FactStates
  <2> QED BY <1>3, <2>1, SetFactType
<1> HIDE DEF written
<1>5. FactAssign(fs, n) \in {written, SetFact(written, n.target.key, FactNonEmpty)}
  BY Zenon DEF FactAssign, written, dropped, taken
<1> QED BY <1>3, <1>4, <1>5

\* So does an array builtin (CallFactStep).
LEMMA FactMutateType ==
  ASSUME NEW fs \in FactState, NEW name, NEW arr
  PROVE  FactMutate(fs, name, arr) \in FactState
BY ForgetType DEF FactMutate

\* So does any builtin call.
LEMMA FactIntrinsicType ==
  ASSUME NEW fs \in FactState, NEW n
  PROVE  FactIntrinsic(fs, n) \in FactState
BY ForgetType, FactMutateType DEF FactIntrinsic, ConsumeEach

\* So does a call, or a literal with its elements.
LEMMA FactCallType ==
  ASSUME NEW fs \in FactState, NEW n
  PROVE  FactCall(fs, n) \in FactState
BY ForgetType, ArgsType DEF FactCall

\* Every operation takes a fact state to a fact state (FactStep).
LEMMA FactStepType ==
  ASSUME NEW fs \in FactState, NEW op
  PROVE  FactStep(fs, op) \in FactState
<1>1. ASSUME NEW n PROVE FactEval(fs, n) \in FactState
  BY FactAssignType, FactIntrinsicType, FactCallType, ForgetType DEF FactEval
<1>2. ASSUME NEW n PROVE FactScopeExit(fs, n) \in FactState
  BY ForgetType DEF FactScopeExit
<1> QED BY <1>1, <1>2, FactDeclareType, ConsumeType DEF FactStep

\* The places after an operation.
LEMMA PlaceStepType ==
  ASSUME NEW state \in [Paths -> PlaceStates], NEW op
  PROVE  PlaceStep(state, op) \in [Paths -> PlaceStates]
<1>1. ASSUME NEW p, NEW value \in PlaceStates
      PROVE  SetPlace(state, p, value) \in [Paths -> PlaceStates]
  BY DEF SetPlace
<1>2. Live \in PlaceStates /\ Moved \in PlaceStates
  BY DEF PlaceStates
<1> QED BY <1>1, <1>2 DEF PlaceStep

\* Every operation takes a state to a state (Transfer).
LEMMA TransferType ==
  ASSUME NEW st \in State, NEW op
  PROVE  Transfer(st, op) \in State
BY PlaceStepType, FactStepType DEF Transfer, State

\* The states the blocks start from (SolveEntryStates).
LEMMA EverywhereType ==
  Everywhere(Live) \in State /\ Everywhere(Unvisited) \in State
BY DEF Everywhere, State, FactState, PlaceStates, FactStates, Unvisited, Live, FactNone

\* Joining two states gives a state.
LEMMA JoinStateType ==
  ASSUME NEW x \in State, NEW y \in State
  PROVE  JoinState(x, y) \in State
BY JoinType DEF JoinState, State, FactState

\* An edge changes facts only.
LEMMA EdgeStateType ==
  ASSUME NEW st \in State, NEW g, NEW x, NEW s
  PROVE  /\ EdgeState(g, x, s, st) \in State
         /\ EdgeState(g, x, s, st).place = st.place
<1>1. ASSUME NEW proves, NEW loopExit
      PROVE  ApplyCond(st.fs, proves, loopExit) \in FactState
  BY DEF ApplyCond, State, FactState, FactStates, FactNone, FactNonEmpty, FactEmpty
<1>2. ASSUME NEW fs \in FactState
      PROVE  [st EXCEPT !.fs = fs] \in State /\ [st EXCEPT !.fs = fs].place = st.place
  BY DEF State
<1> QED BY <1>1, <1>2 DEF EdgeState

-----------------------------------------------------------------------------
\* The graph.

\* What CfgBuild makes true of the graph of the function being checked.
LEMMA GraphFacts ==
  ASSUME prog \in DOMAIN Programs
  PROVE  /\ Len(graph.blocks) \in Nat
         /\ Len(graph.blocks) >= 2
         /\ BlocksOf(graph) = 1..Len(graph.blocks)
         /\ Entry \in graph.reachable /\ graph.reachable \subseteq BlocksOf(graph)
         /\ Exit \in BlocksOf(graph)
         /\ \A x \in BlocksOf(graph) : NOps(x) \in Nat
         /\ \A x \in BlocksOf(graph) : DOMAIN Ops(graph, x) = 1..NOps(x)
         /\ \A x \in BlocksOf(graph) : Len(Succ(graph, x)) \in Nat
         /\ \A x \in BlocksOf(graph) : DOMAIN Succ(graph, x) = 1..Len(Succ(graph, x))
         /\ \A x \in BlocksOf(graph) : \A s \in DOMAIN Succ(graph, x) :
                Succ(graph, x)[s] \in BlocksOf(graph)
         /\ \A x \in graph.reachable : \A s \in DOMAIN Succ(graph, x) :
                Succ(graph, x)[s] \in graph.reachable
         /\ NOps(Exit) = 0
<1>1. WellFormed(graph)
  BY ProgramsAssumption DEF graph
<1>2. ASSUME NEW q, IsSeq(q) PROVE Len(q) \in Nat /\ DOMAIN q = 1..Len(q)
  BY <1>2 DEF IsSeq
<1>3. Len(<<>>) = 0
  OBVIOUS
<1> QED BY <1>1, <1>2, <1>3 DEF WellFormed, Exit, Entry, NOps, BlocksOf

-----------------------------------------------------------------------------
\* Type correctness.

\* Where a block of the graph may be stepped.
LEMMA Position ==
  ASSUME TypeOK, blk \in graph.reachable
  PROVE  /\ blk \in BlocksOf(graph)
         /\ NOps(blk) \in Nat
         /\ NOps(blk) + 1 \in 1..(NOps(blk) + 1)
         /\ pos \in Nat \ {0}
         /\ AtOp => pos \in 1..NOps(blk) /\ pos \in 1..(NOps(blk) + 1) /\ pos + 1 \in 1..(NOps(blk) + 1)
         /\ AtEdges => EdgeNo \in Nat \ {0}
<1>1. prog \in DOMAIN Programs /\ pos \in Nat \ {0}
  BY DEF TypeOK
<1>2. blk \in BlocksOf(graph) /\ NOps(blk) \in Nat
  BY <1>1, GraphFacts
<1>3. AtOp => pos <= NOps(blk)
  BY DEF AtOp
<1>4. AtEdges => pos > NOps(blk)
  BY DEF AtEdges
<1> QED BY <1>1, <1>2, <1>3, <1>4 DEF EdgeNo

\* The checker starts from typed variables.
LEMMA TypeInit == Init => TypeOK
<1> SUFFICES ASSUME SolverInit, RunInit PROVE TypeOK
  BY DEF Init
<1>1. prog \in DOMAIN Programs
  BY DEF SolverInit
<1>2. in \in [BlocksOf(graph) -> State]
  BY <1>1, EverywhereType DEF SolverInit
<1>3. /\ at = [x \in BlocksOf(graph) |-> at[x]]
      /\ \A x \in BlocksOf(graph) : at[x] \in [1..(NOps(x) + 1) -> State]
  <2>1. in[Entry] \in State
    BY <1>1, <1>2, GraphFacts
  <2> QED BY <2>1, EverywhereType DEF SolverInit
<1>4. pass \in 0..(MaxPass - 1) /\ blk \in 1..(Len(graph.blocks) + 1)
  BY <1>1, GraphFacts, MaxPassAssumption DEF SolverInit
<1>5. ints \in [IntVars -> 0..MaxInt]
  BY MaxIntAssumption DEF RunInit
<1>6. phase = "solve" /\ pos \in Nat \ {0} /\ changed = FALSE /\ converged = FALSE
  BY DEF SolverInit
<1>7. rb = 0 /\ rpos \in Nat \ {0} /\ moved = {} /\ full = {}
  BY DEF RunInit
<1> QED BY <1>1, <1>2, <1>3, <1>4, <1>5, <1>6, <1>7 DEF TypeOK

\* A step of the checker keeps its variables typed.
LEMMA TypeCheck == TypeOK /\ Check => TypeOK'
<1> SUFFICES ASSUME TypeOK, Check PROVE TypeOK'
  OBVIOUS
<1> DEFINE InTyped == in \in [BlocksOf(graph) -> State]
           AtTyped == /\ at = [y \in BlocksOf(graph) |-> at[y]]
                      /\ \A y \in BlocksOf(graph) : at[y] \in [1..(NOps(y) + 1) -> State]
<1>1. /\ prog' = prog /\ graph' = graph
      /\ BlocksOf(graph)' = BlocksOf(graph)
      /\ \A x : NOps(x)' = NOps(x)
  BY DEF Check, SolverNext, SkipUnreachable, StepOp, JoinEdge, LeaveBlock, EndPass,
         ReportOp, ReportBlockDone, ReportDone, graph, NOps
<1>2. /\ prog \in DOMAIN Programs /\ pos \in Nat \ {0} /\ blk \in 1..(Len(graph.blocks) + 1)
      /\ InTyped /\ AtTyped
      /\ changed \in BOOLEAN /\ converged \in BOOLEAN
  BY DEF TypeOK
<1>3. /\ BlocksOf(graph) = 1..Len(graph.blocks) /\ Len(graph.blocks) \in Nat /\ Len(graph.blocks) >= 2
      /\ graph.reachable \subseteq BlocksOf(graph)
  BY <1>2, GraphFacts
<1>4. /\ blk \in BlocksOf(graph) => blk + 1 \in 1..(Len(graph.blocks) + 1)
      /\ 1 \in 1..(Len(graph.blocks) + 1)
  BY <1>3
<1>5. ASSUME phase' \in {"solve", "report", "done"}, pass' \in 0..(MaxPass - 1),
             blk' \in 1..(Len(graph.blocks) + 1), pos' \in Nat \ {0}, InTyped', AtTyped',
             changed' \in BOOLEAN, converged' \in BOOLEAN
      PROVE  TypeOK'
  <2>1. /\ rb' \in {0} \cup graph'.reachable /\ rpos' \in Nat \ {0} /\ moved' \subseteq Paths
        /\ full' \subseteq OptLocs /\ ints' \in [IntVars -> 0..MaxInt]
    BY <1>1 DEF TypeOK, Check, runVars
  <2>2. prog' \in DOMAIN Programs /\ blk' \in 1..(Len(graph'.blocks) + 1)
    BY <1>1, <1>2, <1>5
  <2> QED BY <1>5, <2>1, <2>2 DEF TypeOK
<1>6. ASSUME NEW x \in 1..(Len(graph.blocks) + 1), GotoBlock(x)
      PROVE  blk' \in 1..(Len(graph.blocks) + 1) /\ pos' \in Nat \ {0} /\ AtTyped'
  <2>1. CASE x \in BlocksOf(graph)
    <3>1. 1 \in 1..(NOps(x) + 1) /\ in[x] \in State
      BY <1>2, <2>1, GraphFacts
    <3>2. at' = [at EXCEPT ![x][1] = in[x]]
      BY <1>6, <2>1 DEF GotoBlock
    <3>3. /\ at' = [y \in BlocksOf(graph) |-> at'[y]]
          /\ \A y \in BlocksOf(graph) : at'[y] \in [1..(NOps(y) + 1) -> State]
      BY <1>2, <2>1, <3>1, <3>2
    <3> QED BY <1>1, <1>6, <3>3 DEF GotoBlock
  <2>2. CASE x \notin BlocksOf(graph)
    BY <1>1, <1>2, <1>6, <2>2 DEF GotoBlock
  <2> QED BY <2>1, <2>2
<1>7. ASSUME AtOp, ApplyOp
      PROVE  AtTyped' /\ pos + 1 \in Nat \ {0}
  <2>1. blk \in graph.reachable
    BY <1>7 DEF AtOp
  <2>2. /\ blk \in BlocksOf(graph)
        /\ pos \in 1..(NOps(blk) + 1) /\ pos + 1 \in 1..(NOps(blk) + 1)
    BY <1>7, <2>1, Position
  <2>3. Transfer(at[blk][pos], Ops(graph, blk)[pos]) \in State
    BY <1>2, <2>2, TransferType
  <2>4. /\ at' = [y \in BlocksOf(graph) |-> at'[y]]
        /\ \A y \in BlocksOf(graph) : at'[y] \in [1..(NOps(y) + 1) -> State]
    BY <1>2, <1>7, <2>2, <2>3 DEF ApplyOp
  <2> QED BY <1>1, <1>2, <2>4
<1>8. CASE SkipUnreachable
  <2>1. GotoBlock(blk + 1) /\ blk \in BlocksOf(graph)
    BY <1>8 DEF SkipUnreachable
  <2>2. UNCHANGED <<phase, pass, in, changed, converged>>
    BY <1>8 DEF SkipUnreachable
  <2> QED BY <1>1, <1>2, <1>4, <1>5, <1>6, <2>1, <2>2 DEF TypeOK
<1>9. CASE StepOp
  BY <1>1, <1>2, <1>5, <1>7, <1>9 DEF StepOp, TypeOK
<1>10. CASE JoinEdge
  <2> DEFINE dst == Succ(graph, blk)[EdgeNo]
             edge == EdgeState(graph, blk, EdgeNo, EndOf(blk))
  <2>1. blk \in graph.reachable /\ AtEdges /\ EdgeNo <= Len(Succ(graph, blk))
    BY <1>10 DEF JoinEdge, AtEdges
  <2>2. blk \in BlocksOf(graph) /\ EdgeNo \in Nat \ {0} /\ NOps(blk) + 1 \in 1..(NOps(blk) + 1)
    BY <2>1, Position
  <2>3. dst \in BlocksOf(graph)
    <3>1. Len(Succ(graph, blk)) \in Nat /\ DOMAIN Succ(graph, blk) = 1..Len(Succ(graph, blk))
      BY <1>2, <2>2, GraphFacts
    <3>2. EdgeNo \in DOMAIN Succ(graph, blk)
      <4> HIDE DEF dst, edge
      <4> QED BY <2>1, <2>2, <3>1
    <3> QED BY <1>2, <2>2, <3>2, GraphFacts
  <2>4. EndOf(blk) \in State
    BY <1>2, <2>2 DEF EndOf
  <2>5. JoinState(in[dst], edge) \in State
    BY <1>2, <2>3, <2>4, EdgeStateType, JoinStateType
  <2>6. in' = [in EXCEPT ![dst] = JoinState(in[dst], edge)]
    BY <1>10 DEF JoinEdge
  <2>7. in' \in [BlocksOf(graph) -> State]
    <3> HIDE DEF dst, edge
    <3> QED BY <1>2, <2>3, <2>5, <2>6
  <2>8. changed' \in BOOLEAN
    BY <1>10 DEF JoinEdge
  <2>9. pos' = pos + 1 /\ UNCHANGED <<phase, pass, blk, at, converged>>
    BY <1>10 DEF JoinEdge
  <2> QED BY <1>1, <1>2, <1>5, <2>7, <2>8, <2>9 DEF TypeOK
<1>11. CASE LeaveBlock
  <2>1. blk \in BlocksOf(graph)
    BY <1>3, <1>11 DEF LeaveBlock, AtEdges
  <2>2. GotoBlock(blk + 1) /\ UNCHANGED <<phase, pass, in, changed, converged>>
    BY <1>11 DEF LeaveBlock
  <2> QED BY <1>1, <1>2, <1>4, <1>5, <1>6, <2>1, <2>2 DEF TypeOK
<1>12. CASE EndPass
  <2>1. GotoBlock(1) /\ in' = in /\ changed' = FALSE
    BY <1>12 DEF EndPass
  <2>2. pass \in 0..(MaxPass - 1)
    BY DEF TypeOK
  <2>3. pass' \in 0..(MaxPass - 1)
    BY <1>12, <2>2, MaxPassAssumption DEF EndPass
  <2>4. converged' \in BOOLEAN
    BY <1>2, <1>12 DEF EndPass
  <2>5. phase' \in {"solve", "report", "done"}
    BY <1>12 DEF EndPass
  <2> QED BY <1>1, <1>2, <1>4, <1>5, <1>6, <2>1, <2>3, <2>4, <2>5
<1>13. CASE ReportOp
  BY <1>1, <1>2, <1>5, <1>7, <1>13 DEF ReportOp, TypeOK
<1>14. CASE ReportBlockDone
  <2>1. blk \in BlocksOf(graph)
    BY <1>3, <1>14 DEF ReportBlockDone, AtEdges
  <2>2. GotoBlock(blk + 1) /\ UNCHANGED <<phase, pass, in, changed, converged>>
    BY <1>14 DEF ReportBlockDone
  <2> QED BY <1>1, <1>2, <1>4, <1>5, <1>6, <2>1, <2>2 DEF TypeOK
<1>15. CASE ReportDone
  BY <1>1, <1>2, <1>5, <1>15 DEF ReportDone, TypeOK
<1> QED BY <1>8, <1>9, <1>10, <1>11, <1>12, <1>13, <1>14, <1>15 DEF Check, SolverNext

\* A step of the running function keeps the store typed.
LEMMA TypeRun == TypeOK /\ (StartRun \/ RunOp \/ RunEdge \/ UNCHANGED vars) => TypeOK'
<1> SUFFICES ASSUME TypeOK, StartRun \/ RunOp \/ RunEdge \/ UNCHANGED vars PROVE TypeOK'
  OBVIOUS
<1> USE DEF TypeOK
<1>1. /\ UNCHANGED solverVars /\ graph' = graph
      /\ BlocksOf(graph)' = BlocksOf(graph)
      /\ \A x : NOps(x)' = NOps(x)
  BY DEF StartRun, RunOp, RunEdge, vars, solverVars, graph, NOps
<1>2. CASE StartRun
  BY <1>1, <1>2, GraphFacts DEF StartRun, solverVars
<1>3. CASE RunOp
  <2>1. MovedAfter(RunOp_) \subseteq Paths
    BY DEF MovedAfter, UsesPlace, TrackedPlace
  <2>2. full' \subseteq OptLocs
    BY <1>3 DEF RunOp
  <2>3. ints' \in [IntVars -> 0..MaxInt]
    BY <1>3 DEF RunOp
  <2>4. moved' \subseteq Paths /\ rpos' \in Nat \ {0} /\ rb' = rb
    BY <1>3, <2>1 DEF RunOp
  <2> QED BY <1>1, <2>2, <2>3, <2>4 DEF solverVars
<1>4. CASE RunEdge
  <2>1. rb \in graph.reachable
    BY <1>4 DEF RunEdge
  <2>2. rb' \in graph.reachable
    BY <1>4, <2>1, GraphFacts DEF RunEdge, Succ
  <2> QED BY <1>1, <1>4, <2>2 DEF RunEdge, solverVars
<1>5. CASE UNCHANGED vars
  BY <1>1, <1>5 DEF vars, solverVars, runVars
<1> QED BY <1>2, <1>3, <1>4, <1>5

\* The checker's and the run's variables keep their types, whatever the
\* functions checked (SolveEntryStates, ReportMoveFacts).
THEOREM TypeCorrect == Spec => []TypeOK
<1>1. TypeOK /\ [Next]_vars => TypeOK'
  BY TypeCheck, TypeRun DEF Next
<1> QED BY <1>1, TypeInit, PTL DEF Spec

-----------------------------------------------------------------------------
\* Places.

Gone == {Moved, Maybe}

\* What absorbs a gone place has it gone.
LEMMA JoinGone ==
  \A a, b \in PlaceStates : (b \in Gone /\ Join(a, b) = a) => a \in Gone
BY DEF Join, PlaceStates, Gone, Unvisited, Live, Moved, Maybe

\* If the state covers what is moved before an operation, it does so after it.
LEMMA TransferCovers ==
  ASSUME NEW st \in State, NEW op,
         \A q \in moved : st.place[q] \in Gone, moved \subseteq Paths
  PROVE  \A q \in MovedAfter(op) : q \in Paths /\ Transfer(st, op).place[q] \in Gone
<1>1. Transfer(st, op).place = PlaceStep(st.place, op)
  BY DEF Transfer
<1>2. CASE op.op = "Declare"
  <2>1. PlaceStep(st.place, op) = SetPlace(st.place, <<op.node.name>>, Live)
    BY <1>2 DEF PlaceStep, UsesPlace, WritesPlace
  <2>2. MovedAfter(op) = {q \in moved : ~Touches(<<op.node.name>>, q, FALSE)}
    BY <1>2 DEF MovedAfter, UsesPlace, WritesPlace
  <2> QED BY <1>1, <2>1, <2>2 DEF SetPlace, Touches
<1>3. CASE op.op # "Declare" /\ UsesPlace(op)
  <2>1. PlaceStep(st.place, op) =
          IF MovesPlace(op) THEN SetPlace(st.place, op.node.path, Moved) ELSE st.place
    BY <1>3 DEF PlaceStep, UsesPlace, WritesPlace
  <2>2. MovedAfter(op) = IF MovesPlace(op) THEN moved \cup {op.node.path} ELSE moved
    BY <1>3 DEF MovedAfter, UsesPlace, WritesPlace
  <2>3. op.node.path \in Paths
    BY <1>3 DEF UsesPlace, TrackedPlace
  <2>4. Moved # Live /\ Moved \in Gone
    BY DEF Moved, Live, Gone
  <2> QED BY <1>1, <2>1, <2>2, <2>3, <2>4 DEF SetPlace
<1>4. CASE op.op # "Declare" /\ ~UsesPlace(op) /\ WritesPlace(op)
  <2>1. PlaceStep(st.place, op) = SetPlace(st.place, op.node.target.path, Live)
    BY <1>4 DEF PlaceStep
  <2>2. MovedAfter(op) = {q \in moved : ~Touches(op.node.target.path, q, FALSE)}
    BY <1>4 DEF MovedAfter
  <2> QED BY <1>1, <2>1, <2>2 DEF SetPlace, Touches
<1>5. CASE op.op # "Declare" /\ ~UsesPlace(op) /\ ~WritesPlace(op)
  BY <1>1, <1>5 DEF PlaceStep, MovedAfter
<1> QED BY <1>2, <1>3, <1>4, <1>5

\* A use of a moved place is reported in a state that covers what is moved.
LEMMA UseReported ==
  ASSUME NEW st \in State, NEW op, moved \subseteq Paths,
         \A q \in moved : st.place[q] \in Gone, UsesMoved(op)
  PROVE  "move" \in Reports(st, op)
<1>1. \A q \in moved : q \in Paths /\ st.place[q] # Live
  BY DEF Gone, Moved, Maybe, Live
<1>2. CASE UsesPlace(op) /\ \E q \in moved : Touches(q, op.node.path, WholeUse(op))
  <2>1. PlaceBlocker(st.place, op.node.path, WholeUse(op)) # {}
    BY <1>1, <1>2 DEF PlaceBlocker
  <2>2. MoveReport(st.place, op)
    BY <1>2, <2>1 DEF MoveReport
  <2> QED BY <2>2 DEF Reports
<1>3. CASE /\ WritesPlace(op) /\ Len(op.node.target.path) > 1
           /\ \E q \in moved : Touches(q, WholeOf(op.node.target.path), FALSE)
  <2>1. PlaceBlocker(st.place, WholeOf(op.node.target.path), FALSE) # {}
    BY <1>1, <1>3 DEF PlaceBlocker
  <2>2. MoveReport(st.place, op)
    BY <1>3, <2>1 DEF MoveReport
  <2> QED BY <2>2 DEF Reports
<1> QED BY <1>2, <1>3 DEF UsesMoved

-----------------------------------------------------------------------------
\* The passes.

\* Checking a function leaves its graph alone.
LEMMA GraphKept ==
  Check => /\ prog' = prog /\ graph' = graph
           /\ \A x : NOps(x)' = NOps(x)
BY DEF Check, SolverNext, SkipUnreachable, StepOp, JoinEdge, LeaveBlock, EndPass,
       ReportOp, ReportBlockDone, ReportDone, graph, NOps

\* Going to a block starts it from its entry state and leaves the others alone.
LEMMA GotoKept ==
  ASSUME TypeOK, NEW x, GotoBlock(x)
  PROVE  /\ \A y \in BlocksOf(graph) : y # x => at'[y] = at[y]
         /\ x \in BlocksOf(graph) => at'[x][1] = in[x]
         /\ x \in BlocksOf(graph) /\ at[x][1] = in[x] => at'[x] = at[x]
         /\ x \in graph.reachable => /\ Stepped(graph, at', in, x, 1)
                                     /\ EdgesAbsorbed(graph, at', in, x, 1 - NOps(x))
<1>1. /\ \A y \in BlocksOf(graph) : at[y] \in [1..(NOps(y) + 1) -> State]
      /\ at = [y \in BlocksOf(graph) |-> at[y]]
      /\ prog \in DOMAIN Programs
  BY DEF TypeOK
<1>2. /\ \A y \in BlocksOf(graph) : NOps(y) \in Nat /\ 1 \in 1..(NOps(y) + 1)
      /\ graph.reachable \subseteq BlocksOf(graph)
  BY <1>1, GraphFacts
<1>3. x \in BlocksOf(graph) => at' = [at EXCEPT ![x][1] = in[x]]
  BY DEF GotoBlock
<1>4. x \in BlocksOf(graph) => at'[x][1] = in[x]
  BY <1>1, <1>2, <1>3
<1>5. \A y \in BlocksOf(graph) : y # x => at'[y] = at[y]
  BY <1>1, <1>3 DEF GotoBlock
<1>6. x \in BlocksOf(graph) /\ at[x][1] = in[x] => at'[x] = at[x]
  BY <1>1, <1>2, <1>3
<1>7. ASSUME x \in graph.reachable
      PROVE  Stepped(graph, at', in, x, 1) /\ EdgesAbsorbed(graph, at', in, x, 1 - NOps(x))
  <2>1. NOps(x) \in Nat /\ Len(Succ(graph, x)) \in Nat
    BY <1>1, <1>2, <1>7, GraphFacts
  <2>2. EdgesAbsorbed(graph, at', in, x, 1 - NOps(x))
    BY <2>1 DEF EdgesAbsorbed
  <2>3. Stepped(graph, at', in, x, 1)
    BY <1>2, <1>4, <1>7, <2>1 DEF Stepped, NOps
  <2> QED BY <2>2, <2>3
<1> QED BY <1>4, <1>5, <1>6, <1>7

\* Applying an operation extends what is stepped of the block, and changes
\* nothing if that was stepped already.
LEMMA ApplyKept ==
  ASSUME TypeOK, AtOp, ApplyOp
  PROVE  /\ \A y \in BlocksOf(graph) : y # blk => at'[y] = at[y]
         /\ Stepped(graph, at, in, blk, pos) => Stepped(graph, at', in, blk, pos + 1)
         /\ Stepped(graph, at, in, blk, NOps(blk) + 1) => at'[blk] = at[blk]
<1>1. /\ \A y \in BlocksOf(graph) : at[y] \in [1..(NOps(y) + 1) -> State]
      /\ at = [y \in BlocksOf(graph) |-> at[y]]
  BY DEF TypeOK
<1>2. blk \in graph.reachable
  BY DEF AtOp
<1>3. /\ blk \in BlocksOf(graph) /\ NOps(blk) \in Nat
      /\ pos \in 1..NOps(blk) /\ pos + 1 \in 1..(NOps(blk) + 1)
  BY <1>2, Position
<1>4. at' = [at EXCEPT ![blk][pos + 1] = Transfer(at[blk][pos], Ops(graph, blk)[pos])]
  BY DEF ApplyOp
<1>5. /\ at'[blk][pos + 1] = Transfer(at[blk][pos], Ops(graph, blk)[pos])
      /\ \A i \in 1..(NOps(blk) + 1) : i # pos + 1 => at'[blk][i] = at[blk][i]
  BY <1>1, <1>3, <1>4
<1>6. ASSUME Stepped(graph, at, in, blk, pos) PROVE Stepped(graph, at', in, blk, pos + 1)
  <2>1. at'[blk][1] = in[blk]
    BY <1>3, <1>5, <1>6 DEF Stepped
  <2>2. ASSUME NEW i \in 1..NOps(blk), i < pos + 1
        PROVE  at'[blk][i + 1] = Transfer(at'[blk][i], Ops(graph, blk)[i])
    <3>1. i \in 1..(NOps(blk) + 1) /\ i + 1 \in 1..(NOps(blk) + 1) /\ i # pos + 1
      BY <1>3, <2>2
    <3>2. CASE i = pos
      BY <1>5, <3>1, <3>2
    <3>3. CASE i # pos
      <4>1. i < pos /\ i + 1 # pos + 1
        BY <1>3, <2>2, <3>3
      <4>2. at[blk][i + 1] = Transfer(at[blk][i], Ops(graph, blk)[i])
        BY <1>6, <4>1 DEF Stepped, NOps
      <4> QED BY <1>5, <3>1, <4>1, <4>2
    <3> QED BY <3>2, <3>3
  <2> QED BY <2>1, <2>2 DEF Stepped, NOps
<1>7. ASSUME Stepped(graph, at, in, blk, NOps(blk) + 1) PROVE at'[blk] = at[blk]
  <2>1. pos \in 1..NOps(blk) /\ pos < NOps(blk) + 1
    BY <1>3
  <2>2. at[blk][pos + 1] = Transfer(at[blk][pos], Ops(graph, blk)[pos])
    BY <1>7, <2>1 DEF Stepped, NOps
  <2> QED BY <1>1, <1>3, <1>4, <2>2
<1>8. \A y \in BlocksOf(graph) : y # blk => at'[y] = at[y]
  BY <1>1, <1>4
<1> QED BY <1>6, <1>7, <1>8

\* Joining is for each place, fact and ref.
LEMMA AbsorbsEach ==
  ASSUME NEW a \in State, NEW c
  PROVE  Absorbs(a, c) <=> /\ \A p \in Paths : Join(a.place[p], c.place[p]) = a.place[p]
                           /\ \A k \in FactKeys : Join(a.fs.fact[k], c.fs.fact[k]) = a.fs.fact[k]
                           /\ \A r \in Refs : Join(a.fs.ref[r], c.fs.ref[r]) = a.fs.ref[r]
<1>1. /\ a = [place |-> a.place, fs |-> [fact |-> a.fs.fact, ref |-> a.fs.ref]]
      /\ a.place = [p \in Paths |-> a.place[p]]
      /\ a.fs.fact = [k \in FactKeys |-> a.fs.fact[k]]
      /\ a.fs.ref = [r \in Refs |-> a.fs.ref[r]]
  BY DEF State, FactState
<1> DEFINE j == JoinState(a, c)
<1>2. j = a <=> j.place = a.place /\ j.fs.fact = a.fs.fact /\ j.fs.ref = a.fs.ref
  BY <1>1 DEF JoinState
<1>3. j.place = a.place <=> \A p \in Paths : Join(a.place[p], c.place[p]) = a.place[p]
  BY <1>1 DEF JoinState
<1>4. j.fs.fact = a.fs.fact <=> \A k \in FactKeys : Join(a.fs.fact[k], c.fs.fact[k]) = a.fs.fact[k]
  BY <1>1 DEF JoinState
<1>5. j.fs.ref = a.fs.ref <=> \A r \in Refs : Join(a.fs.ref[r], c.fs.ref[r]) = a.fs.ref[r]
  BY <1>1 DEF JoinState
<1> HIDE DEF j
<1> QED BY <1>2, <1>3, <1>4, <1>5 DEF Absorbs, j

\* What a state absorbs, it absorbs with anything joined into it.
LEMMA AbsorbsJoined ==
  ASSUME NEW a \in State, NEW b \in State, NEW c, Absorbs(a, c)
  PROVE  Absorbs(JoinState(a, b), c)
<1>1. \A x, y, z : Join(x, z) = x => Join(Join(x, y), z) = Join(x, y)
  BY DEF Join, Unvisited, Maybe
<1>2. JoinState(a, b) \in State
  BY JoinStateType
<1>3. /\ \A p \in Paths : JoinState(a, b).place[p] = Join(a.place[p], b.place[p])
      /\ \A k \in FactKeys : JoinState(a, b).fs.fact[k] = Join(a.fs.fact[k], b.fs.fact[k])
      /\ \A r \in Refs : JoinState(a, b).fs.ref[r] = Join(a.fs.ref[r], b.fs.ref[r])
  BY DEF JoinState
<1> QED BY <1>1, <1>2, <1>3, AbsorbsEach

\* What is settled of a block stays while its states and the entry states do.
LEMMA SettledKept ==
  ASSUME NEW g, NEW h, NEW h2, NEW e, NEW x, h2[x] = h[x]
  PROVE  /\ Settled(g, h2, e, x) = Settled(g, h, e, x)
         /\ \A j : Stepped(g, h2, e, x, j) = Stepped(g, h, e, x, j)
         /\ \A k : EdgesAbsorbed(g, h2, e, x, k) = EdgesAbsorbed(g, h, e, x, k)
BY DEF Settled, Stepped, EdgesAbsorbed

-----------------------------------------------------------------------------
\* Each part of the invariant over a step of the checker.

\* The loop over the blocks goes up by one.
LEMMA BlocksInOrder ==
  ASSUME TypeOK
  PROVE  /\ blk \in Nat /\ Len(graph.blocks) \in Nat /\ blk <= Len(graph.blocks) + 1
         /\ BlocksOf(graph) = 1..Len(graph.blocks)
         /\ graph.reachable \subseteq BlocksOf(graph)
         /\ 1 \in graph.reachable
         /\ \A x \in graph.reachable : x # blk => (x < blk + 1) = (x < blk)
         /\ blk \notin BlocksOf(graph) => \A x \in graph.reachable : x < blk
<1>1. prog \in DOMAIN Programs /\ blk \in 1..(Len(graph.blocks) + 1)
  BY DEF TypeOK
<1> QED BY <1>1, GraphFacts DEF Entry

\* While a pass changes nothing, the blocks behind stay settled (SolveEntryStates).
LEMMA SettledBehindStep == TypeOK /\ PhaseInv /\ SettledBehind /\ Check => SettledBehind'
<1> SUFFICES ASSUME TypeOK, PhaseInv, SettledBehind, Check, phase' = "solve", ~changed'
             PROVE  /\ \A x \in graph.reachable : x < blk' => Settled(graph, at', in', x)
                    /\ blk' \in graph.reachable =>
                         /\ Stepped(graph, at', in', blk', pos')
                         /\ EdgesAbsorbed(graph, at', in', blk', pos' - NOps(blk'))
  BY GraphKept DEF SettledBehind, EdgeNo, NOps
<1>1. /\ graph.reachable \subseteq BlocksOf(graph)
      /\ BlocksOf(graph) = 1..Len(graph.blocks)
      /\ Len(graph.blocks) \in Nat /\ blk \in Nat
      /\ \A x \in graph.reachable : x # blk => (x < blk + 1) = (x < blk)
  BY BlocksInOrder
<1>2. ASSUME phase = "solve", ~changed, GotoBlock(blk + 1), in' = in,
             blk \in graph.reachable => Settled(graph, at, in, blk)
      PROVE  /\ \A x \in graph.reachable : x < blk' => Settled(graph, at', in', x)
             /\ blk' \in graph.reachable =>
                  /\ Stepped(graph, at', in', blk', pos')
                  /\ EdgesAbsorbed(graph, at', in', blk', pos' - NOps(blk'))
  <2>1. blk' = blk + 1 /\ pos' = 1
    BY <1>2 DEF GotoBlock
  <2>2. ASSUME NEW x \in graph.reachable, x < blk + 1 PROVE Settled(graph, at', in, x)
    <3>1. Settled(graph, at, in, x)
      BY <1>1, <1>2, <2>2 DEF SettledBehind
    <3>2. x # blk + 1
      BY <1>1, <2>2
    <3>3. at'[x] = at[x]
      BY <1>1, <1>2, <3>2, GotoKept
    <3> QED BY <3>1, <3>3, SettledKept
  <2>3. blk + 1 \in graph.reachable => /\ Stepped(graph, at', in, blk + 1, 1)
                                       /\ EdgesAbsorbed(graph, at', in, blk + 1, 1 - NOps(blk + 1))
    BY <1>2, GotoKept
  <2> QED BY <1>2, <2>1, <2>2, <2>3
<1>3. CASE SkipUnreachable
  <2>1. phase = "solve" /\ ~changed /\ GotoBlock(blk + 1) /\ in' = in /\ blk \notin graph.reachable
    BY <1>3 DEF SkipUnreachable
  <2> QED BY <1>2, <2>1
<1>4. CASE StepOp
  <2>1. AtOp /\ ApplyOp /\ phase = "solve" /\ ~changed /\ in' = in /\ blk' = blk /\ pos' = pos + 1
    BY <1>4 DEF StepOp
  <2>2. blk \in graph.reachable /\ pos \in 1..NOps(blk) /\ NOps(blk) \in Nat
    BY <2>1, Position DEF AtOp
  <2>3. \A x \in BlocksOf(graph) : x # blk => at'[x] = at[x]
    BY <2>1, ApplyKept
  <2>4. ASSUME NEW x \in graph.reachable, x < blk PROVE Settled(graph, at', in, x)
    BY <1>1, <2>1, <2>3, <2>4, SettledKept DEF SettledBehind
  <2>5. Stepped(graph, at, in, blk, pos)
    BY <2>1, <2>2 DEF SettledBehind
  <2>6. Stepped(graph, at', in, blk, pos + 1)
    BY <2>1, <2>5, ApplyKept
  <2>7. EdgesAbsorbed(graph, at', in, blk, pos + 1 - NOps(blk))
    <3>1. Len(Succ(graph, blk)) \in Nat
      BY <1>1, <2>2, GraphFacts DEF TypeOK
    <3> QED BY <2>2, <3>1 DEF EdgesAbsorbed
  <2>8. \A x \in graph.reachable : x < blk' => Settled(graph, at', in', x)
    BY <2>1, <2>4
  <2>9. Stepped(graph, at', in', blk', pos') /\ EdgesAbsorbed(graph, at', in', blk', pos' - NOps(blk'))
    <3>1. in' = in /\ blk' = blk /\ pos' = pos + 1
      BY <2>1
    <3>2. Stepped(graph, at', in', blk', pos')
      BY <2>6, <3>1
    <3>3. EdgesAbsorbed(graph, at', in', blk', pos' - NOps(blk'))
      <4>1. NOps(blk') = NOps(blk)
        BY <3>1
      <4>2. pos' - NOps(blk') = pos + 1 - NOps(blk)
        BY <3>1, <4>1, <2>2
      <4> QED BY <2>7, <3>1, <4>2
    <3> QED BY <3>2, <3>3
  <2> QED BY <2>8, <2>9
<1>5. CASE JoinEdge
  <2> DEFINE dst  == Succ(graph, blk)[EdgeNo]
             edge == EdgeState(graph, blk, EdgeNo, EndOf(blk))
  <2>1. /\ phase = "solve" /\ ~changed /\ blk \in graph.reachable
        /\ JoinState(in[dst], edge) = in[dst]
        /\ in' = [in EXCEPT ![dst] = in[dst]]
        /\ at' = at /\ blk' = blk /\ pos' = pos + 1
    BY <1>5 DEF JoinEdge, AtEdges
  <2>2. AtEdges /\ EdgeNo \in Nat \ {0} /\ NOps(blk) \in Nat /\ pos \in Nat
    BY <1>5, <2>1, Position DEF JoinEdge
  <2>3. in' = in
    <3>1. in \in [BlocksOf(graph) -> State]
      BY DEF TypeOK
    <3> HIDE DEF dst
    <3> QED BY <2>1, <3>1
  <2>4. Stepped(graph, at, in, blk, pos) /\ EdgesAbsorbed(graph, at, in, blk, EdgeNo)
    BY <2>1 DEF SettledBehind
  <2>5. Stepped(graph, at, in, blk, pos + 1)
    BY <2>2, <2>4 DEF Stepped, AtEdges, NOps
  <2>6. Absorbs(in[dst], edge)
    BY <2>1 DEF Absorbs
  <2>7. EdgesAbsorbed(graph, at, in, blk, EdgeNo + 1)
    <3>1. ASSUME NEW s \in 1..Len(Succ(graph, blk)), s < EdgeNo + 1
          PROVE  Absorbs(in[Succ(graph, blk)[s]],
                         EdgeState(graph, blk, s, at[blk][Len(Ops(graph, blk)) + 1]))
      <4>1. s = EdgeNo \/ s < EdgeNo
        BY <2>2, <3>1
      <4> QED BY <2>4, <2>6, <4>1 DEF EdgesAbsorbed, EndOf, NOps
    <3> QED BY <3>1 DEF EdgesAbsorbed
  <2>8. pos + 1 - NOps(blk) = EdgeNo + 1
    BY <2>2 DEF EdgeNo
  <2>9. \A x \in graph.reachable : x < blk' => Settled(graph, at', in', x)
    BY <2>1, <2>3 DEF SettledBehind
  <2>10. Stepped(graph, at', in', blk', pos') /\ EdgesAbsorbed(graph, at', in', blk', pos' - NOps(blk'))
    <3>1. in' = in /\ blk' = blk /\ pos' = pos + 1
      BY <2>1, <2>3
    <3>2. Stepped(graph, at', in', blk', pos')
      BY <2>1, <2>5, <3>1
    <3>3. EdgesAbsorbed(graph, at', in', blk', pos' - NOps(blk'))
      <4>1. NOps(blk') = NOps(blk)
        BY <3>1
      <4>2. pos' - NOps(blk') = EdgeNo + 1
        BY <2>2, <2>8, <3>1, <4>1
      <4> QED BY <2>1, <2>7, <3>1, <4>2
    <3> QED BY <3>2, <3>3
  <2> QED BY <2>9, <2>10
<1>6. CASE LeaveBlock
  <2>1. /\ phase = "solve" /\ ~changed /\ GotoBlock(blk + 1) /\ in' = in
        /\ blk \in graph.reachable /\ AtEdges /\ EdgeNo > Len(Succ(graph, blk))
    BY <1>6 DEF LeaveBlock, AtEdges
  <2>2. /\ NOps(blk) \in Nat /\ pos \in Nat /\ EdgeNo \in Nat /\ Len(Succ(graph, blk)) \in Nat
        /\ pos > NOps(blk)
    BY <1>1, <2>1, Position, GraphFacts DEF TypeOK, AtEdges
  <2>3. Stepped(graph, at, in, blk, pos) /\ EdgesAbsorbed(graph, at, in, blk, EdgeNo)
    BY <2>1 DEF SettledBehind
  <2>4. Stepped(graph, at, in, blk, NOps(blk) + 1)
    BY <2>2, <2>3 DEF Stepped, NOps
  <2>5. EdgesAbsorbed(graph, at, in, blk, Len(Succ(graph, blk)) + 1)
    BY <2>1, <2>2, <2>3 DEF EdgesAbsorbed
  <2>6. Settled(graph, at, in, blk)
    BY <2>4, <2>5 DEF Settled, NOps
  <2> QED BY <1>2, <2>1, <2>6
<1>7. CASE EndPass
  <2>1. GotoBlock(1) /\ in' = in
    BY <1>7 DEF EndPass
  <2>2. blk' = 1 /\ pos' = 1
    BY <2>1 DEF GotoBlock
  <2>3. \A x \in graph.reachable : ~(x < 1)
    BY <1>1
  <2>4. 1 \in graph.reachable => /\ Stepped(graph, at', in, 1, 1)
                                 /\ EdgesAbsorbed(graph, at', in, 1, 1 - NOps(1))
    BY <2>1, GotoKept
  <2> QED BY <2>1, <2>2, <2>3, <2>4
<1>8. CASE ReportOp \/ ReportBlockDone \/ ReportDone
  BY <1>8 DEF ReportOp, ReportBlockDone, ReportDone
<1> QED BY <1>3, <1>4, <1>5, <1>6, <1>7, <1>8 DEF Check, SolverNext

\* In the report the history of a fixpoint is rewritten as it is.
LEMMA ReportKeepsHistory ==
  ASSUME TypeOK, IsFixpoint, converged, ReportOp \/ ReportBlockDone \/ ReportDone \/
                                        (SkipUnreachable /\ phase = "report")
  PROVE  in' = in /\ \A x \in graph.reachable : at'[x] = at[x]
<1>1. /\ graph.reachable \subseteq BlocksOf(graph)
      /\ \A x \in graph.reachable : Settled(graph, at, in, x)
  BY BlocksInOrder DEF IsFixpoint
<1>2. ASSUME GotoBlock(blk + 1) PROVE \A x \in graph.reachable : at'[x] = at[x]
  <2>1. \A x \in graph.reachable : at[x][1] = in[x]
    BY <1>1 DEF Settled, Stepped
  <2> QED BY <1>1, <1>2, <2>1, GotoKept
<1>3. ASSUME AtOp, ApplyOp PROVE \A x \in graph.reachable : at'[x] = at[x]
  <2>1. Stepped(graph, at, in, blk, NOps(blk) + 1)
    BY <1>1, <1>3 DEF AtOp, Settled, NOps
  <2> QED BY <1>1, <1>3, <2>1, ApplyKept
<1> QED BY <1>2, <1>3 DEF ReportOp, ReportBlockDone, ReportDone, SkipUnreachable

\* A pass that changed nothing ends on a fixpoint, which the report keeps.
LEMMA FixpointStep ==
  TypeOK /\ PhaseInv /\ SettledBehind /\ IsFixpoint /\ Check => IsFixpoint'
<1> SUFFICES ASSUME TypeOK, PhaseInv, SettledBehind, IsFixpoint, Check, converged'
             PROVE  \A x \in graph.reachable : Settled(graph, at', in', x)
  BY GraphKept DEF IsFixpoint
<1>1. CASE EndPass
  <2>1. phase = "solve" /\ ~converged /\ ~changed /\ blk \notin BlocksOf(graph)
        /\ GotoBlock(1) /\ in' = in
    BY <1>1 DEF EndPass, PhaseInv
  <2>2. \A x \in graph.reachable : x \in BlocksOf(graph) /\ Settled(graph, at, in, x)
    BY <2>1, BlocksInOrder DEF SettledBehind
  <2>3. \A x \in graph.reachable : at'[x] = at[x]
    BY <2>1, <2>2, GotoKept DEF Settled, Stepped
  <2> QED BY <2>1, <2>2, <2>3, SettledKept
<1>2. CASE StepOp \/ JoinEdge \/ LeaveBlock \/ (SkipUnreachable /\ phase = "solve")
  BY <1>2 DEF StepOp, JoinEdge, LeaveBlock, SkipUnreachable, PhaseInv
<1>3. CASE ReportOp \/ ReportBlockDone \/ ReportDone \/ (SkipUnreachable /\ phase = "report")
  <2>1. converged
    BY <1>3 DEF ReportOp, ReportBlockDone, ReportDone, SkipUnreachable
  <2>2. in' = in /\ \A x \in graph.reachable : at'[x] = at[x]
    BY <1>3, <2>1, ReportKeepsHistory
  <2> QED BY <2>1, <2>2, SettledKept DEF IsFixpoint
<1> QED BY <1>1, <1>2, <1>3 DEF Check, SolverNext, SkipUnreachable

\* Each phase stays where it should be.
LEMMA PhaseStep == TypeOK /\ PhaseInv /\ Check => PhaseInv'
<1> SUFFICES ASSUME TypeOK, PhaseInv, Check PROVE PhaseInv'
  OBVIOUS
<1>1. graph' = graph /\ (\A x : NOps(x)' = NOps(x)) /\ BlocksOf(graph) = 1..Len(graph.blocks)
      /\ blk \in 1..(Len(graph.blocks) + 1) /\ Len(graph.blocks) \in Nat /\ prog \in DOMAIN Programs
      /\ 1 \in BlocksOf(graph)
  BY GraphKept, BlocksInOrder DEF TypeOK
<1>2. \A x \in graph.reachable : NOps(x) \in Nat
  BY <1>1, GraphFacts
<1>3. ASSUME NEW x, GotoBlock(x), phase' # "done",
             phase' = "solve" => ~converged', phase' # "solve" => ~changed'
      PROVE  PhaseInv'
  <2>1. blk' = x /\ pos' = 1
    BY <1>3 DEF GotoBlock
  <2>2. x \in graph.reachable => 1 <= NOps(x) + 1
    BY <1>2
  <2>3. \A y : Len(Ops(graph, y)) = NOps(y)
    BY DEF NOps
  <2> QED BY <1>1, <1>3, <2>1, <2>2, <2>3 DEF PhaseInv, NOps
<1>4. CASE SkipUnreachable
  BY <1>3, <1>4 DEF SkipUnreachable, PhaseInv
<1>5. CASE LeaveBlock
  BY <1>3, <1>5 DEF LeaveBlock, PhaseInv
<1>6. CASE ReportBlockDone
  BY <1>3, <1>6 DEF ReportBlockDone, PhaseInv
<1>7. CASE EndPass
  <2>1. GotoBlock(1) /\ changed' = FALSE
    BY <1>7 DEF EndPass
  <2>2. phase' # "done" /\ (phase' = "solve" => ~converged')
    BY <1>7 DEF EndPass, PhaseInv
  <2> QED BY <1>3, <2>1, <2>2
<1>8. CASE StepOp \/ JoinEdge
  BY <1>8 DEF StepOp, JoinEdge, PhaseInv
<1>9. CASE ReportOp
  <2>1. pos \in 1..NOps(blk) /\ NOps(blk) \in Nat /\ blk \in graph.reachable
    BY <1>9, Position DEF ReportOp, AtOp
  <2>2. phase' = "report" /\ blk' = blk /\ pos' = pos + 1 /\ changed' = changed /\ converged' = converged
        /\ phase = "report"
    BY <1>9 DEF ReportOp
  <2>3. pos + 1 <= NOps(blk) + 1
    BY <2>1
  <2> QED BY <1>1, <2>1, <2>2, <2>3 DEF PhaseInv, NOps
<1>10. CASE ReportDone
  <2>1. blk = Len(graph.blocks) + 1
    BY <1>1, <1>10 DEF ReportDone
  <2> QED BY <1>1, <1>10, <2>1 DEF ReportDone, PhaseInv
<1> QED BY <1>4, <1>5, <1>6, <1>7, <1>8, <1>9, <1>10 DEF Check, SolverNext

\* The entry only gains (SolveEntryStates joins, never overwrites).
LEMMA EntryStep == TypeOK /\ EntryAbsorbs /\ Check => EntryAbsorbs'
<1> SUFFICES ASSUME TypeOK, EntryAbsorbs, Check PROVE EntryAbsorbs'
  OBVIOUS
<1>1. in \in [BlocksOf(graph) -> State] /\ Entry \in BlocksOf(graph)
  BY BlocksInOrder DEF TypeOK, Entry
<1>2. CASE JoinEdge
  <2> DEFINE dst  == Succ(graph, blk)[EdgeNo]
             edge == EdgeState(graph, blk, EdgeNo, EndOf(blk))
  <2>1. in' = [in EXCEPT ![dst] = JoinState(in[dst], edge)]
    BY <1>2 DEF JoinEdge
  <2>2. edge \in State
    <3>1. blk \in BlocksOf(graph) /\ NOps(blk) + 1 \in 1..(NOps(blk) + 1)
      BY <1>2, Position DEF JoinEdge, AtEdges
    <3>2. EndOf(blk) \in State
      BY <3>1 DEF EndOf, TypeOK
    <3> QED BY <3>2, EdgeStateType
  <2> HIDE DEF dst, edge
  <2>3. in'[Entry] = in[Entry] \/ in'[Entry] = JoinState(in[Entry], edge)
    BY <1>1, <2>1
  <2> QED BY <1>1, <2>2, <2>3, AbsorbsJoined DEF EntryAbsorbs
<1>3. CASE in' = in
  BY <1>3 DEF EntryAbsorbs
<1> QED BY <1>2, <1>3 DEF Check, SolverNext, SkipUnreachable, StepOp, LeaveBlock, EndPass,
                         ReportOp, ReportBlockDone, ReportDone

\* From a fixpoint, what is behind has been reported (ReportMoveFacts).
LEMMA ReportedStep ==
  TypeOK /\ PhaseInv /\ IsFixpoint /\ ReportedBehind /\ Check => ReportedBehind'
<1> SUFFICES ASSUME TypeOK, PhaseInv, IsFixpoint, ReportedBehind, Check,
                    converged', phase' # "solve",
                    NEW x \in graph.reachable, NEW j \in 1..NOps(x),
                    x < blk' \/ (x = blk' /\ j < pos'),
                    NEW kind \in Reports(at'[x][j], Ops(graph, x)[j])
             PROVE  <<x, j, kind>> \in found'
  BY GraphKept DEF ReportedBehind, NOps
<1>1. /\ graph.reachable \subseteq BlocksOf(graph) /\ BlocksOf(graph) = 1..Len(graph.blocks)
      /\ Len(graph.blocks) \in Nat /\ blk \in Nat /\ x \in Nat /\ x # 0
      /\ x # blk => (x < blk + 1) = (x < blk)
      /\ NOps(x) \in Nat /\ j \in Nat
  <2>1. /\ graph.reachable \subseteq BlocksOf(graph) /\ BlocksOf(graph) = 1..Len(graph.blocks)
        /\ Len(graph.blocks) \in Nat /\ blk \in Nat
    BY BlocksInOrder
  <2>2. NOps(x) \in Nat
    BY <2>1, GraphFacts DEF TypeOK
  <2> QED BY <2>1, <2>2
<1>2. ASSUME converged, phase = "report", at'[x] = at[x], x < blk \/ (x = blk /\ j < pos)
      PROVE  <<x, j, kind>> \in found
  BY <1>2 DEF ReportedBehind
<1>3. ASSUME ReportOp \/ ReportBlockDone \/ ReportDone \/ (SkipUnreachable /\ phase = "report")
      PROVE  converged /\ phase = "report" /\ at'[x] = at[x] /\ found \subseteq found'
  <2>1. converged /\ phase = "report" /\ found \subseteq found'
    BY <1>3 DEF ReportOp, ReportBlockDone, ReportDone, SkipUnreachable
  <2> QED BY <1>3, <2>1, ReportKeepsHistory
<1>4. CASE ReportOp
  <2>1. blk' = blk /\ pos' = pos + 1 /\ AtOp
        /\ found' = found \cup {<<blk, pos, k>> : k \in Reports(at[blk][pos], Ops(graph, blk)[pos])}
    BY <1>4 DEF ReportOp
  <2>2. pos \in Nat
    BY DEF TypeOK
  <2>3. CASE x = blk /\ j = pos
    BY <1>3, <1>4, <2>1, <2>3
  <2>4. CASE ~(x = blk /\ j = pos)
    <3>1. x < blk \/ (x = blk /\ j < pos)
      BY <1>1, <2>1, <2>2, <2>4
    <3> QED BY <1>2, <1>3, <1>4, <3>1
  <2> QED BY <2>3, <2>4
<1>5. CASE ReportBlockDone
  <2>1. blk' = blk + 1 /\ pos' = 1 /\ pos > NOps(blk) /\ pos \in Nat
    BY <1>5 DEF ReportBlockDone, GotoBlock, AtEdges, TypeOK
  <2>2. x < blk \/ (x = blk /\ j < pos)
    BY <1>1, <2>1
  <2> QED BY <1>2, <1>3, <1>5, <2>2
<1>6. CASE SkipUnreachable
  <2>1. blk' = blk + 1 /\ pos' = 1 /\ x # blk /\ phase = "report"
    BY <1>6 DEF SkipUnreachable, GotoBlock
  <2>2. x < blk
    BY <1>1, <2>1
  <2> QED BY <1>2, <1>3, <1>6, <2>1, <2>2
<1>7. CASE ReportDone
  <2>1. blk' = blk /\ pos' = pos
    BY <1>7 DEF ReportDone
  <2> QED BY <1>2, <1>3, <1>7, <2>1
<1>8. CASE EndPass
  <2>1. blk' = 1 /\ pos' = 1
    BY <1>8 DEF EndPass, GotoBlock
  <2> QED BY <1>1, <2>1
<1>9. CASE StepOp \/ JoinEdge \/ LeaveBlock
  BY <1>9 DEF StepOp, JoinEdge, LeaveBlock
<1> QED BY <1>4, <1>5, <1>6, <1>7, <1>8, <1>9 DEF Check, SolverNext

\* A `ref` parameter not restored is reported (CheckRefParamsRestored).
LEMMA RefParamsStep == RefParamsReported /\ Check => RefParamsReported'
<1> SUFFICES ASSUME RefParamsReported, Check, phase' = "done"
             PROVE  NotRestored' # {} => <<Exit, 0, "refparam">> \in found'
  BY DEF RefParamsReported
<1>1. CASE ReportDone
  BY <1>1 DEF ReportDone, NotRestored, graph
<1>2. CASE ~ReportDone
  BY <1>2 DEF Check, SolverNext, SkipUnreachable, StepOp, JoinEdge, LeaveBlock, EndPass,
              ReportOp, ReportBlockDone
<1> QED BY <1>1, <1>2

\* Nothing of a run changes while the function is checked, and what is accepted
\* is checked no more.
LEMMA CheckKeepsRun == PhaseInv /\ RunCovered /\ Check => RunCovered'
<1> SUFFICES ASSUME PhaseInv, RunCovered, Check PROVE RunCovered'
  OBVIOUS
<1>1. rb' = rb /\ rpos' = rpos /\ moved' = moved
  BY DEF Check, runVars
<1>2. CASE rb = 0
  BY <1>1, <1>2 DEF RunCovered
<1>3. CASE rb # 0
  <2>1. phase = "done"
    BY <1>3 DEF RunCovered, Accepted
  <2> QED BY <2>1 DEF Check, SolverNext, SkipUnreachable, StepOp, JoinEdge, LeaveBlock, EndPass,
                      ReportOp, ReportBlockDone, ReportDone
<1> QED BY <1>2, <1>3

\* A step of a run of an accepted function stays under the fixpoint.
LEMMA RunStaysCovered ==
  ASSUME TypeOK, IsFixpoint, RunCovered, StartRun \/ RunOp \/ RunEdge \/ UNCHANGED vars
  PROVE  RunCovered'
<1>1. UNCHANGED solverVars /\ graph' = graph /\ Accepted' = Accepted /\ \A x : NOps(x)' = NOps(x)
  BY DEF StartRun, RunOp, RunEdge, vars, solverVars, graph, Accepted, NOps
<1>2. /\ prog \in DOMAIN Programs /\ graph.reachable \subseteq BlocksOf(graph)
      /\ \A x \in BlocksOf(graph) : at[x] \in [1..(NOps(x) + 1) -> State] /\ NOps(x) \in Nat
      /\ in \in [BlocksOf(graph) -> State]
      /\ moved \subseteq Paths /\ rpos \in Nat \ {0} /\ rb \in {0} \cup graph.reachable
  BY BlocksInOrder, GraphFacts DEF TypeOK
<1>3. Entry \in graph.reachable /\ Entry # 0 /\ 0 \notin graph.reachable
  BY <1>2, GraphFacts, BlocksInOrder DEF Entry
<1>4. \A x \in graph.reachable : at'[x] = at[x] /\ Len(Ops(graph, x)) = NOps(x)
  BY <1>1 DEF solverVars, NOps
<1>5. CASE StartRun
  <2>1. Accepted /\ rb = 0 /\ rb' = Entry /\ rpos' = rpos /\ moved' = moved
    BY <1>5 DEF StartRun
  <2>2. moved' = {} /\ rpos' = 1
    BY <2>1 DEF RunCovered
  <2>3. NOps(Entry) \in Nat
    BY <1>2, <1>3
  <2>4. 1 <= NOps(Entry) + 1
    BY <2>3
  <2>5. NOps(rb)' = NOps(Entry)
    BY <1>1, <2>1 DEF NOps
  <2> QED BY <1>1, <1>3, <2>1, <2>2, <2>4, <2>5 DEF RunCovered
<1>6. CASE RunOp
  <2>1. /\ rb # 0 /\ rb \in graph.reachable /\ rpos <= NOps(rb)
        /\ rb' = rb /\ rpos' = rpos + 1 /\ moved' = MovedAfter(Ops(graph, rb)[rpos])
    BY <1>2, <1>6 DEF RunOp, AtRunOp, RunOps, RunOp_, NOps, Ops
  <2>2. rpos \in 1..NOps(rb) /\ rpos + 1 <= NOps(rb) + 1 /\ rpos \in 1..(NOps(rb) + 1)
        /\ rpos < NOps(rb) + 1
    BY <1>2, <2>1
  <2>3. Accepted
    BY <2>1 DEF RunCovered
  <2>4. ASSUME converged, NEW q \in moved'
        PROVE  at[rb][rpos + 1].place[q] \in Gone
    <3>1. at[rb][rpos + 1] = Transfer(at[rb][rpos], Ops(graph, rb)[rpos])
      BY <2>1, <2>2, <2>4 DEF IsFixpoint, Settled, Stepped, NOps
    <3>2. at[rb][rpos] \in State
      BY <1>2, <2>1, <2>2
    <3>3. \A r \in moved : at[rb][rpos].place[r] \in Gone
      BY <2>1, <2>4 DEF RunCovered, Gone
    <3> QED BY <1>2, <2>1, <2>4, <3>1, <3>2, <3>3, TransferCovers
  <2>5. NOps(rb)' = NOps(rb) /\ at' = at /\ converged' = converged
    BY <1>1, <2>1 DEF NOps, solverVars
  <2> QED BY <1>1, <2>1, <2>2, <2>3, <2>4, <2>5 DEF RunCovered, Gone
<1>7. CASE RunEdge
  <2>1. PICK s \in DOMAIN Succ(graph, rb) : rb' = Succ(graph, rb)[s]
    BY <1>7 DEF RunEdge, Succ
  <2>2. /\ rb # 0 /\ rb \in graph.reachable /\ ~(rpos <= NOps(rb)) /\ rpos' = 1 /\ moved' = moved
    BY <1>2, <1>7 DEF RunEdge, RunOps, NOps, Ops
  <2>3. rb' \in graph.reachable /\ rb' # 0 /\ s \in 1..Len(Succ(graph, rb)) /\ Len(Succ(graph, rb)) \in Nat
    BY <1>2, <1>3, <2>1, <2>2, GraphFacts, SMTT(30)
  <2>4. Accepted /\ rpos = NOps(rb) + 1
    BY <1>2, <2>2 DEF RunCovered
  <2>5. ASSUME converged, NEW q \in moved
        PROVE  at[rb'][1].place[q] \in Gone
    <3> DEFINE dst  == Succ(graph, rb)[s]
               edge == EdgeState(graph, rb, s, at[rb][NOps(rb) + 1])
    <3>1. Settled(graph, at, in, rb) /\ at[dst][1] = in[dst]
      BY <2>1, <2>2, <2>3, <2>5 DEF IsFixpoint, Settled, Stepped
    <3>2. Absorbs(in[dst], edge)
      BY <2>3, <3>1 DEF Settled, EdgesAbsorbed, NOps
    <3>3. at[rb][NOps(rb) + 1] \in State /\ in[dst] \in State
      BY <1>2, <2>1, <2>2, <2>3
    <3>4. edge \in State /\ edge.place = at[rb][NOps(rb) + 1].place
      BY <3>3, EdgeStateType
    <3>5. q \in Paths /\ edge.place[q] \in Gone
      BY <1>2, <2>2, <2>4, <2>5, <3>4 DEF RunCovered, Gone
    <3>6. Join(in[dst].place[q], edge.place[q]) = in[dst].place[q]
      <4> HIDE DEF edge, dst
      <4> QED BY <3>2, <3>5 DEF Absorbs, JoinState
    <3>7. in[dst].place[q] \in PlaceStates /\ edge.place[q] \in PlaceStates
      <4> HIDE DEF edge, dst
      <4> QED BY <3>3, <3>4, <3>5 DEF State
    <3>8. in[dst].place[q] \in Gone
      <4> HIDE DEF edge, dst
      <4> QED BY <3>5, <3>6, <3>7, JoinGone
    <3> QED BY <2>1, <3>1, <3>8
  <2>6. NOps(rb)' = NOps(rb') /\ at' = at /\ converged' = converged
    BY <1>1, <2>1 DEF NOps, solverVars
  <2>7. 1 <= NOps(rb') + 1
    BY <1>2, <2>3
  <2> QED BY <1>1, <2>2, <2>3, <2>4, <2>5, <2>6, <2>7 DEF RunCovered, Gone
<1>8. CASE UNCHANGED vars
  BY <1>1, <1>8 DEF vars, solverVars, runVars, RunCovered
<1> QED BY <1>5, <1>6, <1>7, <1>8

-----------------------------------------------------------------------------
\* The theorems.

\* The invariant holds before the checker starts.
LEMMA InvInit == Init => IInv
<1> SUFFICES ASSUME SolverInit, RunInit PROVE IInv
  BY DEF Init
<1>1. TypeOK
  BY TypeInit DEF Init
<1>2. /\ phase = "solve" /\ blk = 1 /\ pos = 1 /\ ~changed /\ ~converged
      /\ rb = 0 /\ rpos = 1 /\ moved = {}
  BY DEF SolverInit, RunInit
<1>3. PhaseInv /\ IsFixpoint /\ ReportedBehind /\ RefParamsReported /\ RunCovered
  BY <1>2 DEF PhaseInv, IsFixpoint, ReportedBehind, RefParamsReported, RunCovered
<1>4. SettledBehind
  <2>1. \A x \in graph.reachable : ~(x < 1)
    BY <1>1, BlocksInOrder
  <2>2. 1 \in graph.reachable /\ NOps(1) \in Nat /\ Len(Succ(graph, 1)) \in Nat
    BY <1>1, BlocksInOrder, GraphFacts DEF TypeOK
  <2>3. at[1][1] = in[1]
    <3>1. 1 \in BlocksOf(graph) /\ 1 \in 1..(NOps(1) + 1)
      BY <1>1, <2>2, BlocksInOrder
    <3> QED BY <3>1 DEF SolverInit, Entry
  <2>4. Stepped(graph, at, in, 1, 1) /\ EdgesAbsorbed(graph, at, in, 1, 1 - NOps(1))
    BY <2>2, <2>3 DEF Stepped, EdgesAbsorbed
  <2> QED BY <1>2, <2>1, <2>4 DEF SettledBehind, EdgeNo
<1>5. EntryAbsorbs
  <2>1. in[Entry] = Everywhere(Live)
    BY <1>1, BlocksInOrder DEF SolverInit, Entry
  <2>2. JoinState(Everywhere(Live), Everywhere(Live)) = Everywhere(Live)
    BY DEF JoinState, Everywhere, Join
  <2> QED BY <2>1, <2>2 DEF EntryAbsorbs, Absorbs
<1> QED BY <1>3, <1>4, <1>5 DEF IInv

\* Every step of the checker and of the run keeps the invariant.
LEMMA InvStep == TypeOK /\ IInv /\ [Next]_vars => IInv'
<1> SUFFICES ASSUME TypeOK, IInv, [Next]_vars PROVE IInv'
  OBVIOUS
<1>1. /\ PhaseInv /\ SettledBehind /\ IsFixpoint /\ EntryAbsorbs
      /\ ReportedBehind /\ RefParamsReported /\ RunCovered
  BY DEF IInv
<1>2. CASE Check
  BY <1>1, <1>2, PhaseStep, SettledBehindStep, FixpointStep, EntryStep, ReportedStep,
     RefParamsStep, CheckKeepsRun DEF IInv
<1>3. CASE StartRun \/ RunOp \/ RunEdge \/ UNCHANGED vars
  <2>1. UNCHANGED solverVars /\ graph' = graph /\ \A x : NOps(x)' = NOps(x)
    BY <1>3 DEF StartRun, RunOp, RunEdge, vars, solverVars, graph, NOps
  <2>2. RunCovered'
    BY <1>1, <1>3, RunStaysCovered
  <2>3. PhaseInv'
    BY <1>1, <2>1 DEF solverVars, PhaseInv, NOps
  <2>4. SettledBehind'
    BY <1>1, <2>1 DEF solverVars, SettledBehind, EdgeNo, NOps
  <2>5. IsFixpoint'
    BY <1>1, <2>1 DEF solverVars, IsFixpoint
  <2>6. ReportedBehind'
    BY <1>1, <2>1 DEF solverVars, ReportedBehind, NOps
  <2>7. RefParamsReported'
    BY <1>1, <2>1 DEF solverVars, RefParamsReported, NotRestored
  <2>8. EntryAbsorbs'
    BY <1>1, <2>1 DEF solverVars, EntryAbsorbs
  <2> QED BY <2>2, <2>3, <2>4, <2>5, <2>6, <2>7, <2>8 DEF IInv
<1> QED BY <1>2, <1>3 DEF Next

\* The invariant behind the two theorems below: a settled pass leaves a
\* fixpoint, the report covers it, and the states of a run stay under it
\* (SolveEntryStates, ReportMoveFacts).
THEOREM Inductive == Spec => []IInv
<1> QED BY TypeCorrect, InvInit, InvStep, PTL DEF Spec

\* O1: whatever the function and however it branches and loops, if the checker
\* accepted it and its passes settled before the cap (SolveEntryStates), no run
\* of it uses a place it has moved, part or whole.
THEOREM NoUseOfMovedHolds == Spec => [](converged => NoUseOfMoved)
<1>1. ASSUME TypeOK, IInv, converged PROVE NoUseOfMoved
  <2> SUFFICES ASSUME AtRunOp, UsesMoved(RunOp_) PROVE FALSE
    BY DEF NoUseOfMoved
  <2>1. /\ rb # 0 /\ rpos <= NOps(rb) /\ RunOp_ = Ops(graph, rb)[rpos]
        /\ rb \in graph.reachable /\ rpos \in Nat \ {0} /\ moved \subseteq Paths
    BY <1>1 DEF AtRunOp, RunOps, RunOp_, NOps, Ops, TypeOK
  <2>2. /\ rb \in BlocksOf(graph) /\ NOps(rb) \in Nat
        /\ at[rb] \in [1..(NOps(rb) + 1) -> State]
    BY <1>1, <2>1, GraphFacts DEF TypeOK
  <2>3. /\ Accepted /\ \A q \in moved : at[rb][rpos].place[q] \in Gone
    BY <1>1, <2>1 DEF IInv, RunCovered, Gone
  <2>4. rpos \in 1..NOps(rb) /\ at[rb][rpos] \in State
    BY <2>1, <2>2
  <2>5. "move" \in Reports(at[rb][rpos], Ops(graph, rb)[rpos])
    BY <2>1, <2>3, <2>4, UseReported
  <2>6. phase = "done" /\ found = {}
    BY <2>3 DEF Accepted
  <2>7. rb < blk
    BY <1>1, <2>2, <2>6, BlocksInOrder DEF IInv, PhaseInv
  <2>8. <<rb, rpos, "move">> \in found
    BY <1>1, <2>1, <2>4, <2>5, <2>6, <2>7 DEF IInv, ReportedBehind
  <2> QED BY <2>6, <2>8
<1> QED BY <1>1, TypeCorrect, Inductive, PTL

\* O2: under the same condition, what a run took out of a `ref` parameter is
\* back when the function returns (CheckRefParamsRestored).
THEOREM RefParamsRestoredHolds == Spec => [](converged => RefParamsRestored)
<1>1. ASSUME TypeOK, IInv, converged PROVE RefParamsRestored
  <2> SUFFICES ASSUME rb = Exit, NEW q \in moved, q[1] \in graph.refParams PROVE FALSE
    BY DEF RefParamsRestored
  <2>1. Exit \in graph.reachable /\ q \in Paths /\ rpos \in Nat \ {0} /\ prog \in DOMAIN Programs
    BY <1>1 DEF TypeOK, Exit
  <2>2. NOps(Exit) = 0
    BY <2>1, GraphFacts
  <2>3. Accepted /\ rpos = 1 /\ at[Exit][1].place[q] \in Gone
    BY <1>1, <2>1, <2>2 DEF IInv, RunCovered, Exit, Gone
  <2>4. at[Exit][1] = in[Exit]
    BY <1>1, <2>1 DEF IInv, IsFixpoint, Settled, Stepped
  <2>5. NotRestored # {}
    BY <2>1, <2>3, <2>4 DEF NotRestored, Gone
  <2> QED BY <1>1, <2>3, <2>5 DEF IInv, RefParamsReported, Accepted
<1> QED BY <1>1, TypeCorrect, Inductive, PTL

-----------------------------------------------------------------------------
(***************************************************************************)
(* The join of the move checker loses nothing: for every set of functions, *)
(* of tracked places, keys and refs, whatever is wrong on some path of a   *)
(* function is reported once the passes settle (ReportsEveryPath).         *)
(*                                                                         *)
(* The state the checker keeps at a point covers the state of every walk   *)
(* that gets there: what it takes to be there, proven or valid is so on    *)
(* the walk.  Every operation keeps that (Transfer), so does every edge,   *)
(* and so does a join into an entry state that absorbs the edge.  A state  *)
(* that covers another reports whatever the other would.                   *)
(***************************************************************************)

PlacesCover(a, b) == \A p \in Paths : a[p] # Unvisited /\ (a[p] = Live => b[p] = Live)

FactsCover(a, b) ==
  /\ \A k \in FactKeys : a.fact[k] # Unvisited /\ (a.fact[k] = FactNonEmpty => b.fact[k] = FactNonEmpty)
  /\ \A r \in Refs : a.ref[r] # Unvisited /\ (a.ref[r] = Live => b.ref[r] = Live)

Covers(a, b) == PlacesCover(a.place, b.place) /\ FactsCover(a.fs, b.fs)

-----------------------------------------------------------------------------
\* Operations.

\* Both forget the same facts and refs (Forget).
LEMMA ForgetCovers ==
  ASSUME NEW a, NEW b, NEW kills, NEW empties, FactsCover(a, b)
  PROVE  FactsCover(Forget(a, kills, empties), Forget(b, kills, empties))
BY DEF FactsCover, Forget, Unvisited, FactNone, FactNonEmpty, FactEmpty, Moved, Live

\* What the covering state learns, the other does; it may learn more.
LEMMA SetFactCovers ==
  ASSUME NEW a, NEW b, NEW key, FactsCover(a, b), NEW A \in BOOLEAN, NEW B \in BOOLEAN, A => B,
         a = [fact |-> a.fact, ref |-> a.ref], b = [fact |-> b.fact, ref |-> b.ref]
  PROVE  FactsCover(IF A THEN SetFact(a, key, FactNonEmpty) ELSE a,
                    IF B THEN SetFact(b, key, FactNonEmpty) ELSE b)
<1> DEFINE Learns(s) == SetFact(s, key, FactNonEmpty)
<1>1. ASSUME NEW s, s = [fact |-> s.fact, ref |-> s.ref]
      PROVE  /\ \A k \in FactKeys : Learns(s).fact[k] = IF k = key THEN FactNonEmpty ELSE s.fact[k]
             /\ Learns(s).ref = s.ref
  BY <1>1 DEF SetFact
<1> HIDE DEF Learns
<1> QED BY <1>1 DEF FactsCover, FactNonEmpty, Unvisited, Learns

\* A proof the covering state has, the other has.
LEMMA ProvesCovers ==
  ASSUME NEW a, NEW b, FactsCover(a, b)
  PROVE  /\ \A key : Fact(a, key) = FactNonEmpty => Fact(b, key) = FactNonEmpty
         /\ \A v : Proven(a, v) => Proven(b, v)
         /\ \A v : Proves(a, v) => Proves(b, v)
<1>1. \A key : Fact(a, key) = FactNonEmpty => Fact(b, key) = FactNonEmpty
  BY DEF FactsCover, Fact
<1> QED BY <1>1 DEF Proven, Proves

\* Each operation on facts keeps the cover.
LEMMA DeclareCovers ==
  ASSUME NEW a \in FactState, NEW b \in FactState, NEW n, FactsCover(a, b)
  PROVE  FactsCover(FactDeclare(a, n), FactDeclare(b, n))
<1> DEFINE name  == <<NameSeg(n.name)>>
           taken(s) == IF n.isRef THEN s ELSE Consume(s, n.init, TRUE)
           fresh(s) == Forget(taken(s), Both(KillFacts(name, TRUE), KillIndexVar(name)), {})
           bound(s) == [fresh(s) EXCEPT !.ref = [r \in Refs |-> IF r = n.name THEN Live ELSE @[r]]]
           proves(s) == ~n.isRef /\ Proves(s, n.init)
<1>1. FactsCover(taken(a), taken(b))
  BY ForgetCovers DEF Consume
<1>2. FactsCover(fresh(a), fresh(b))
  <2> HIDE DEF taken
  <2> QED BY <1>1, ForgetCovers
<1>3. \A s : /\ fresh(s) = [fact |-> fresh(s).fact, ref |-> fresh(s).ref]
  BY DEF Forget
<1> HIDE DEF fresh
<1>4. \A s : /\ bound(s) = [fact |-> bound(s).fact, ref |-> bound(s).ref]
             /\ bound(s).fact = fresh(s).fact
             /\ \A r \in Refs : bound(s).ref[r] = IF r = n.name THEN Live ELSE fresh(s).ref[r]
  BY <1>3
<1> HIDE DEF bound
<1>5. FactsCover(bound(a), bound(b))
  BY <1>2, <1>4 DEF FactsCover, Live, Unvisited
<1>6. proves(a) => proves(b)
  BY ProvesCovers
<1>7. \A s : FactDeclare(s, n) = IF proves(s) THEN SetFact(bound(s), name, FactNonEmpty) ELSE bound(s)
  BY DEF FactDeclare, bound, fresh
<1> HIDE DEF proves, name
<1>8. FactsCover(IF proves(a) THEN SetFact(bound(a), name, FactNonEmpty) ELSE bound(a),
                 IF proves(b) THEN SetFact(bound(b), name, FactNonEmpty) ELSE bound(b))
  <2>1. \A s : proves(s) \in BOOLEAN
    BY DEF proves
  <2> QED BY <1>4, <1>5, <1>6, <2>1, SetFactCovers
<1> QED BY <1>7, <1>8

LEMMA AssignCovers ==
  ASSUME NEW a \in FactState, NEW b \in FactState, NEW n, FactsCover(a, b)
  PROVE  FactsCover(FactAssign(a, n), FactAssign(b, n))
<1> DEFINE taken(s)   == Consume(s, n.value, TRUE)
           dropped(s) == IF n.target.ty.owns
                           THEN Forget(taken(s), KillWrites(n.target.ty.drops), {}) ELSE taken(s)
           written(s) == Forget(dropped(s), KillPlaceOf(n.target, TRUE), {})
           proves(s)  == Proves(s, n.value) /\ n.target.ty.opt /\ n.target.key # NoKey
<1>1. FactsCover(taken(a), taken(b))
  BY ForgetCovers DEF Consume
<1>2. FactsCover(dropped(a), dropped(b))
  <2> HIDE DEF taken
  <2> QED BY <1>1, ForgetCovers
<1>3. FactsCover(written(a), written(b))
  <2> HIDE DEF dropped
  <2> QED BY <1>2, ForgetCovers
<1>4. \A s : written(s) = [fact |-> written(s).fact, ref |-> written(s).ref]
  BY DEF Forget
<1>5. (proves(a) => proves(b)) /\ \A s : proves(s) \in BOOLEAN
  BY ProvesCovers
<1>6. \A s : FactAssign(s, n) =
               IF proves(s) THEN SetFact(written(s), n.target.key, FactNonEmpty) ELSE written(s)
  BY DEF FactAssign
<1> HIDE DEF proves, written
<1>7. FactsCover(IF proves(a) THEN SetFact(written(a), n.target.key, FactNonEmpty) ELSE written(a),
                 IF proves(b) THEN SetFact(written(b), n.target.key, FactNonEmpty) ELSE written(b))
  BY <1>3, <1>4, <1>5, SetFactCovers
<1> QED BY <1>6, <1>7

LEMMA ArgsCover ==
  ASSUME NEW a, NEW b, NEW n, NEW count, FactsCover(a, b)
  PROVE  FactsCover(FactsAfterArgs(a, n, count), FactsAfterArgs(b, n, count))
BY ForgetCovers DEF FactsAfterArgs, ConsumeEach

LEMMA IntrinsicCovers ==
  ASSUME NEW a, NEW b, NEW n, FactsCover(a, b)
  PROVE  FactsCover(FactIntrinsic(a, n), FactIntrinsic(b, n))
<1>1. ASSUME NEW x, NEW y, NEW name, NEW arr, FactsCover(x, y)
      PROVE  FactsCover(FactMutate(x, name, arr), FactMutate(y, name, arr))
  BY <1>1, ForgetCovers DEF FactMutate
<1> QED BY <1>1, ForgetCovers DEF FactIntrinsic, ConsumeEach

LEMMA FactStepCovers ==
  ASSUME NEW a \in FactState, NEW b \in FactState, NEW op, FactsCover(a, b)
  PROVE  FactsCover(FactStep(a, op), FactStep(b, op))
<1>1. ASSUME NEW n PROVE FactsCover(FactEval(a, n), FactEval(b, n))
  <2>1. FactsCover(FactCall(a, n), FactCall(b, n))
    BY ArgsCover, ForgetCovers DEF FactCall
  <2> QED BY <2>1, AssignCovers, IntrinsicCovers, ForgetCovers DEF FactEval
<1>2. ASSUME NEW n PROVE FactsCover(FactScopeExit(a, n), FactScopeExit(b, n))
  BY ForgetCovers DEF FactScopeExit
<1> QED BY <1>1, <1>2, DeclareCovers, ForgetCovers DEF FactStep, Consume

\* So does each operation on places.
LEMMA PlaceStepCovers ==
  ASSUME NEW a, NEW b, NEW op, PlacesCover(a, b)
  PROVE  PlacesCover(PlaceStep(a, op), PlaceStep(b, op))
<1>1. ASSUME NEW p, NEW value \in {Live, Moved}
      PROVE  PlacesCover(SetPlace(a, p, value), SetPlace(b, p, value))
  BY <1>1 DEF PlacesCover, SetPlace, Live, Moved, Unvisited
<1> QED BY <1>1 DEF PlaceStep

LEMMA OpCovers ==
  ASSUME NEW a \in State, NEW b \in State, NEW op, Covers(a, b)
  PROVE  Covers(Transfer(a, op), Transfer(b, op))
<1>1. a.fs \in FactState /\ b.fs \in FactState
  BY DEF State
<1> QED BY <1>1, FactStepCovers, PlaceStepCovers DEF Covers, Transfer

-----------------------------------------------------------------------------
\* Edges and joins.

\* An edge proves the same to both (ApplyCond).
LEMMA EdgeCovers ==
  ASSUME NEW a \in State, NEW b \in State, NEW g, NEW x, NEW s, Covers(a, b)
  PROVE  Covers(EdgeState(g, x, s, a), EdgeState(g, x, s, b))
<1>1. ASSUME NEW proves, NEW loopExit
      PROVE  FactsCover(ApplyCond(a.fs, proves, loopExit), ApplyCond(b.fs, proves, loopExit))
  <2>1. \A c \in State :
          /\ ApplyCond(c.fs, proves, loopExit).ref = c.fs.ref
          /\ \A k \in FactKeys : ApplyCond(c.fs, proves, loopExit).fact[k] =
               IF k \notin DOMAIN proves THEN c.fs.fact[k]
               ELSE IF proves[k] THEN FactNonEmpty ELSE IF loopExit THEN FactNone ELSE FactEmpty
    BY DEF ApplyCond, State, FactState
  <2> QED BY <2>1 DEF Covers, FactsCover, FactNone, FactNonEmpty, FactEmpty, Unvisited
<1>2. \A c \in State : \A f : [c EXCEPT !.fs = f].fs = f /\ [c EXCEPT !.fs = f].place = c.place
  BY DEF State
<1> QED BY <1>1, <1>2 DEF Covers, EdgeState

\* What absorbs a state covers all that the state covers.
LEMMA AbsorbsCovers ==
  ASSUME NEW a \in State, NEW e, NEW b, Absorbs(a, e), Covers(e, b)
  PROVE  Covers(a, b)
<1>1. \A x, y : Join(x, y) = x /\ y # Unvisited => x # Unvisited /\ (x = Maybe \/ x = y)
  BY DEF Join, Unvisited, Maybe
<1>2. Live # Maybe /\ FactNonEmpty # Maybe
  BY DEF Live, Maybe, FactNonEmpty
<1>3. PlacesCover(a.place, b.place)
  BY <1>1, <1>2, AbsorbsEach DEF Covers, PlacesCover
<1>4. FactsCover(a.fs, b.fs)
  BY <1>1, <1>2, AbsorbsEach DEF Covers, FactsCover
<1> QED BY <1>3, <1>4 DEF Covers

-----------------------------------------------------------------------------
\* Reports.

\* A state that covers another reports whatever the other would.
LEMMA ReportsCover ==
  ASSUME NEW a \in State, NEW b \in State, NEW op, Covers(a, b)
  PROVE  Reports(b, op) \subseteq Reports(a, op)
<1>1. \A p, whole : PlaceBlocker(b.place, p, whole) \subseteq PlaceBlocker(a.place, p, whole)
  BY DEF PlaceBlocker, Covers, PlacesCover
<1>2. MoveReport(b.place, op) => MoveReport(a.place, op)
  BY <1>1 DEF MoveReport
<1>3. ASSUME NEW x, NEW y, FactsCover(x, y)
      PROVE  /\ \A v, wants : ConsumeUnproven(y, v, wants) => ConsumeUnproven(x, v, wants)
             /\ \A n : Unproven(y, n) => Unproven(x, n)
  BY <1>3, ProvesCovers DEF ConsumeUnproven, Unproven
<1>4. FactsCover(a.fs, b.fs)
  BY DEF Covers
<1>5. ASSUME NEW i, ConsumeUnproven(FactsAfterArgs(b.fs, op.node, i - 1), op.node.args[i].arg, op.node.args[i].wants)
      PROVE  ConsumeUnproven(FactsAfterArgs(a.fs, op.node, i - 1), op.node.args[i].arg, op.node.args[i].wants)
  BY <1>3, <1>4, <1>5, ArgsCover
<1>6. NarrowReport(b.fs, op) => NarrowReport(a.fs, op)
  BY <1>3, <1>4, <1>5 DEF NarrowReport
<1>7. DanglingCheck(FactStep(b.fs, op), op) => DanglingCheck(FactStep(a.fs, op), op)
  <2>1. FactsCover(FactStep(a.fs, op), FactStep(b.fs, op))
    BY <1>4, FactStepCovers DEF State
  <2> QED BY <2>1 DEF FactsCover, DanglingCheck
<1> QED BY <1>2, <1>6, <1>7 DEF Reports

-----------------------------------------------------------------------------
\* Walks.

\* Walks, unfolded, within a set that has the start and with a walk its next
\* steps: the start, then one step more for each natural up to MaxWalk.
LEMMA WalksUnfold ==
  ASSUME NEW g, NEW S, Start \in S, \A w \in S : WalkSteps(g, w) \subseteq S
  PROVE  \E m : /\ m[0] = {Start} /\ Walks(g) = m[MaxWalk]
                /\ \A n \in 1..MaxWalk : m[n] = m[n - 1] \cup UNION {WalkSteps(g, w) : w \in m[n - 1]}
<1> DEFINE T       == SUBSET S
           More(x) == x \cup UNION {WalkSteps(g, w) : w \in x}
           step    == [n \in Nat |-> [x \in T |-> More(x)]]
           Body(m) == [n \in 0..MaxWalk |-> IF n = 0 THEN {Start} ELSE More(m[n - 1])]
           m       == CHOOSE x : x = Body(x)
<1>1. MaxWalk \in Nat
  BY MaxWalkAssumption
<1>2. {Start} \in T /\ \A x \in T : More(x) \in T
  OBVIOUS
<1>3. \E x : x = Body(x)
  <2> HIDE DEF T, More
  <2>1. step \in [Nat -> [T -> T]] /\ \A n \in Nat, x \in T : step[n][x] = More(x)
    BY <1>2
  <2> HIDE DEF step
  <2>2. PICK h : RecursesUpTo(h, T, {Start}, step, MaxWalk)
    BY <1>1, <1>2, <2>1, RecursionUpTo
  <2>3. /\ h \in [0..MaxWalk -> T] /\ h[0] = {Start}
        /\ \A n \in 1..MaxWalk : h[n] = step[n - 1][h[n - 1]]
    BY <2>2 DEF RecursesUpTo
  <2>4. ASSUME NEW n \in 1..MaxWalk PROVE h[n] = More(h[n - 1])
    <3>1. n - 1 \in Nat /\ n - 1 \in 0..MaxWalk
      BY <1>1
    <3> QED BY <2>1, <2>3, <3>1
  <2>5. h = Body(h)
    BY <1>1, <2>3, <2>4
  <2> QED BY <2>5
<1>4. m = Body(m)
  <2> HIDE DEF Body
  <2> QED BY <1>3
<1>5. Walks(g) = m[MaxWalk]
  BY DEF Walks, More
<1> HIDE DEF m
<1>6. m[0] = {Start} /\ \A n \in 1..MaxWalk : m[n] = More(m[n - 1])
  BY <1>1, <1>4
<1> QED BY <1>5, <1>6

\* Such a set has all walks, and the start is one.
LEMMA WalksWithin ==
  ASSUME NEW g, NEW S, Start \in S, \A w \in S : WalkSteps(g, w) \subseteq S
  PROVE  Walks(g) \subseteq S /\ Start \in Walks(g)
<1>1. PICK m : /\ m[0] = {Start} /\ Walks(g) = m[MaxWalk]
               /\ \A n \in 1..MaxWalk : m[n] = m[n - 1] \cup UNION {WalkSteps(g, w) : w \in m[n - 1]}
  BY WalksUnfold
<1>2. MaxWalk \in Nat
  BY MaxWalkAssumption
<1> DEFINE In == {n \in 0..MaxWalk : m[n] \subseteq S /\ Start \in m[n]}
<1>3. 0 \in In
  BY <1>1, <1>2
<1>4. ASSUME NEW n \in 0..(MaxWalk - 1), n \in In PROVE n + 1 \in In
  <2>1. n + 1 \in 1..MaxWalk /\ (n + 1) - 1 = n /\ n + 1 \in 0..MaxWalk
    BY <1>2
  <2>2. m[n + 1] = m[n] \cup UNION {WalkSteps(g, w) : w \in m[n]}
    BY <1>1, <2>1
  <2> QED BY <1>4, <2>1, <2>2
<1> HIDE DEF In
<1>5. 0..MaxWalk \subseteq In
  BY <1>2, <1>3, <1>4, BoundedInduction
<1> QED BY <1>1, <1>2, <1>5 DEF In

\* The walks the states of the checker cover.
Covered == {w \in [blk : graph.reachable, pos : Nat, st : State] :
              w.pos \in 1..(NOps(w.blk) + 1) /\ Covers(at[w.blk][w.pos], w.st)}

\* From a fixpoint the checker's states cover every walk (SolveEntryStates).
LEMMA WalksCovered ==
  ASSUME TypeOK, IsFixpoint, EntryAbsorbs, converged
  PROVE  Walks(graph) \subseteq Covered
<1>1. /\ prog \in DOMAIN Programs /\ graph.reachable \subseteq BlocksOf(graph)
      /\ Entry \in graph.reachable
      /\ \A x \in BlocksOf(graph) : at[x] \in [1..(NOps(x) + 1) -> State] /\ NOps(x) \in Nat
      /\ in \in [BlocksOf(graph) -> State]
      /\ \A x : Len(Ops(graph, x)) = NOps(x)
  BY BlocksInOrder, GraphFacts DEF TypeOK, Entry, NOps
<1>2. \A x \in graph.reachable : Settled(graph, at, in, x) /\ at[x][1] = in[x]
  BY DEF IsFixpoint, Settled, Stepped
<1>3. Start \in Covered
  <2>1. Covers(Everywhere(Live), Everywhere(Live)) /\ Everywhere(Live) \in State
    BY EverywhereType DEF Covers, PlacesCover, FactsCover, Everywhere, Live, Unvisited
  <2>2. Covers(in[Entry], Everywhere(Live))
    BY <1>1, <2>1, AbsorbsCovers DEF EntryAbsorbs
  <2>3. 1 \in 1..(NOps(Entry) + 1)
    BY <1>1
  <2> QED BY <1>1, <1>2, <2>1, <2>2, <2>3 DEF Start, Covered
<1>4. ASSUME NEW w \in Covered, NEW v \in WalkSteps(graph, w) PROVE v \in Covered
  <2>1. /\ w \in [blk : graph.reachable, pos : Nat, st : State]
        /\ w.blk \in graph.reachable /\ w.pos \in 1..(NOps(w.blk) + 1) /\ w.st \in State
        /\ Covers(at[w.blk][w.pos], w.st)
        /\ NOps(w.blk) \in Nat /\ at[w.blk][w.pos] \in State
    BY <1>1 DEF Covered
  <2>2. CASE w.pos <= NOps(w.blk)
    <3> DEFINE op == Ops(graph, w.blk)[w.pos]
    <3>1. v = [w EXCEPT !.pos = w.pos + 1, !.st = Transfer(w.st, op)]
      BY <1>1, <2>2 DEF WalkSteps
    <3>2. w.pos \in 1..NOps(w.blk) /\ w.pos < NOps(w.blk) + 1 /\ w.pos + 1 \in 1..(NOps(w.blk) + 1)
      BY <2>1, <2>2
    <3>3. at[w.blk][w.pos + 1] = Transfer(at[w.blk][w.pos], op)
      <4>1. /\ Stepped(graph, at, in, w.blk, NOps(w.blk) + 1)
            /\ Len(Ops(graph, w.blk)) = NOps(w.blk)
        BY <1>1, <1>2, <2>1 DEF Settled
      <4> QED BY <3>2, <4>1 DEF Stepped
    <3> HIDE DEF op
    <3>4. Covers(at[w.blk][w.pos + 1], Transfer(w.st, op)) /\ Transfer(w.st, op) \in State
      BY <2>1, <3>3, OpCovers, TransferType
    <3>5. v = [blk |-> w.blk, pos |-> w.pos + 1, st |-> Transfer(w.st, op)]
      BY <2>1, <3>1
    <3>6. v \in [blk : graph.reachable, pos : Nat, st : State]
      BY <2>1, <3>2, <3>4, <3>5
    <3> QED BY <3>2, <3>4, <3>5, <3>6 DEF Covered
  <2>3. CASE ~(w.pos <= NOps(w.blk))
    <3>1. w.pos = NOps(w.blk) + 1
      BY <2>1, <2>3
    <3>2. PICK s \in DOMAIN Succ(graph, w.blk) :
            v = [blk |-> Succ(graph, w.blk)[s], pos |-> 1, st |-> EdgeState(graph, w.blk, s, w.st)]
      BY <1>1, <2>3 DEF WalkSteps
    <3> DEFINE dst == Succ(graph, w.blk)[s]
               end == at[w.blk][NOps(w.blk) + 1]
    <3>3. dst \in graph.reachable /\ s \in 1..Len(Succ(graph, w.blk)) /\ Len(Succ(graph, w.blk)) \in Nat
      BY <1>1, <2>1, GraphFacts
    <3>4. Absorbs(in[dst], EdgeState(graph, w.blk, s, end))
      <4>1. s < Len(Succ(graph, w.blk)) + 1
        BY <3>3
      <4> QED BY <1>1, <1>2, <2>1, <3>3, <4>1 DEF Settled, EdgesAbsorbed
    <3> HIDE DEF dst
    <3>5. Covers(EdgeState(graph, w.blk, s, end), EdgeState(graph, w.blk, s, w.st))
          /\ EdgeState(graph, w.blk, s, w.st) \in State
      BY <2>1, <3>1, EdgeCovers, EdgeStateType
    <3>6. in[dst] \in State /\ at[dst][1] = in[dst] /\ 1 \in 1..(NOps(dst) + 1)
      BY <1>1, <1>2, <3>3
    <3>7. Covers(at[dst][1], EdgeState(graph, w.blk, s, w.st))
      BY <3>4, <3>5, <3>6, AbsorbsCovers
    <3> QED BY <3>2, <3>3, <3>5, <3>6, <3>7 DEF Covered, dst
  <2> QED BY <2>2, <2>3
<1> QED BY <1>3, <1>4, WalksWithin

\* The join loses nothing: once the passes settle before the cap, every report
\* some path through the function calls for is made (SolveEntryStates,
\* ReportMoveFacts, CheckRefParamsRestored).
THEOREM ReportsEveryPathHolds == Spec => [](converged => ReportsEveryPath)
<1>1. ASSUME TypeOK, IInv, converged PROVE ReportsEveryPath
  <2> SUFFICES ASSUME phase = "done",
                      NEW r \in ReportsOnPaths(graph) \cup {<<Exit, 0, "refparam">> : p \in LeftMovedOnPaths(graph)}
               PROVE  r \in found
    BY DEF ReportsEveryPath, PathReports, graph
  <2>1. /\ prog \in DOMAIN Programs /\ graph = Programs[prog]
        /\ Walks(graph) \subseteq Covered
        /\ \A x \in BlocksOf(graph) : at[x] \in [1..(NOps(x) + 1) -> State] /\ NOps(x) \in Nat
        /\ graph.reachable \subseteq BlocksOf(graph)
        /\ in \in [BlocksOf(graph) -> State]
    BY <1>1, WalksCovered, GraphFacts DEF IInv, TypeOK, graph
  <2>2. ASSUME NEW w \in Walks(graph), w.pos <= Len(Ops(graph, w.blk)),
               NEW kind \in Reports(w.st, Ops(graph, w.blk)[w.pos])
        PROVE  <<w.blk, w.pos, kind>> \in found
    <3>1. /\ w.blk \in graph.reachable /\ w.pos \in 1..(NOps(w.blk) + 1) /\ w.st \in State
          /\ Covers(at[w.blk][w.pos], w.st)
      BY <2>1, <2>2 DEF Covered
    <3>2. w.pos \in 1..NOps(w.blk) /\ at[w.blk][w.pos] \in State
      BY <2>1, <2>2, <3>1 DEF NOps
    <3>3. kind \in Reports(at[w.blk][w.pos], Ops(graph, w.blk)[w.pos])
      BY <2>2, <3>1, <3>2, ReportsCover
    <3>4. w.blk < blk
      BY <1>1, <2>1, <3>1, BlocksInOrder DEF IInv, PhaseInv
    <3> QED BY <1>1, <3>1, <3>2, <3>3, <3>4 DEF IInv, ReportedBehind
  <2>3. ASSUME NEW q \in LeftMovedOnPaths(graph) PROVE <<Exit, 0, "refparam">> \in found
    <3>1. PICK w \in Walks(graph) : w.blk = Exit /\ w.pos = 1 /\ w.st.place[q] = Moved
      BY <2>3 DEF LeftMovedOnPaths
    <3>2. q \in Paths /\ q[1] \in graph.refParams
      BY <2>3 DEF LeftMovedOnPaths
    <3>3. Exit \in graph.reachable /\ Covers(at[Exit][1], w.st)
      BY <2>1, <3>1 DEF Covered
    <3>4. at[Exit][1] = in[Exit] /\ in[Exit].place[q] \in PlaceStates
      BY <1>1, <2>1, <3>2, <3>3 DEF IInv, IsFixpoint, Settled, Stepped, State
    <3>5. in[Exit].place[q] \in {Moved, Maybe}
      BY <3>1, <3>2, <3>3, <3>4 DEF Covers, PlacesCover, PlaceStates, Live, Moved
    <3>6. NotRestored # {}
      BY <3>2, <3>3, <3>5 DEF NotRestored
    <3> QED BY <1>1, <3>6 DEF IInv, RefParamsReported
  <2> QED BY <2>2, <2>3 DEF ReportsOnPaths
<1> QED BY <1>1, TypeCorrect, Inductive, PTL

-----------------------------------------------------------------------------
\* Whatever is reported is wrong on some path.

\* The byte x says no more than y and z do together: it is one of them, or
\* stands for their disagreement, or for no information.
Between(x, y, z) == x \in {Unvisited, y, z} \/ (x = Maybe /\ y # z)

\* The fact an operation makes of a key comes from this one.
Source(op, k) ==
  IF op.op = "Declare" /\ ~op.node.isRef /\ Carries(op.node.init) /\ k = <<NameSeg(op.node.name)>>
    THEN op.node.init.key
  ELSE IF op.op = "Eval" /\ op.node.kind = "Assign" /\ CopiesFact(op) /\ k = op.node.target.key
    THEN op.node.value.key
  ELSE k

\* Forgetting says the same of all three (Forget).
LEMMA ForgetBetween ==
  ASSUME NEW a, NEW b, NEW c, NEW kills, NEW empties
  PROVE  /\ \A k \in FactKeys : Between(a.fact[k], b.fact[k], c.fact[k]) =>
              Between(Forget(a, kills, empties).fact[k], Forget(b, kills, empties).fact[k],
                      Forget(c, kills, empties).fact[k])
         /\ \A r \in Refs : Between(a.ref[r], b.ref[r], c.ref[r]) =>
              Between(Forget(a, kills, empties).ref[r], Forget(b, kills, empties).ref[r],
                      Forget(c, kills, empties).ref[r])
BY DEF Forget, Between

LEMMA ForgetSets ==
  ASSUME NEW s, NEW kills, NEW k \in FactKeys, k \in kills.facts
  PROVE  Forget(s, kills, {}).fact[k] = FactNone
BY DEF Forget

\* A key is under itself.
LEMMA UnderItself == \A k : UnderKey(k, k, TRUE)
BY DEF UnderKey, SegsAlias

\* What a taker may count on follows the fact copied, if there is one (Proves).
LEMMA ProvesBetween ==
  ASSUME NEW a, NEW b, NEW c, NEW v,
         Carries(v) => /\ a.fact[v.key] # Unvisited
                       /\ Between(a.fact[v.key], b.fact[v.key], c.fact[v.key])
  PROVE  Proves(a, v) = Proves(b, v) \/ Proves(a, v) = Proves(c, v)
<1>1. CASE v = NoNode
  BY <1>1 DEF Proves
<1>2. CASE v # NoNode /\ ~v.ty.opt
  BY <1>2 DEF Proves
<1>3. CASE v # NoNode /\ v.ty.opt /\ ~(IsPlace(v) /\ v.key \in FactKeys)
  <2>1. FactNone # FactNonEmpty
    BY DEF FactNone, FactNonEmpty
  <2> QED BY <1>3, <2>1 DEF Proves, Proven, Fact
<1>4. CASE Carries(v)
  <2>1. \A s : Proves(s, v) = (s.fact[v.key] = FactNonEmpty)
    BY <1>4 DEF Carries, Proves, Proven, Fact
  <2>2. FactNonEmpty # Maybe
    BY DEF FactNonEmpty, Maybe
  <2> QED BY <1>4, <2>1, <2>2 DEF Between
<1> QED BY <1>1, <1>2, <1>3, <1>4 DEF Carries

LEMMA DeclareBetween ==
  ASSUME NEW a, NEW b, NEW c, NEW n, NEW k \in FactKeys,
         Between(a.fact[k], b.fact[k], c.fact[k]) \/ k = <<NameSeg(n.name)>>,
         (~n.isRef /\ Carries(n.init) /\ k = <<NameSeg(n.name)>>) =>
            /\ a.fact[n.init.key] # Unvisited
            /\ Between(a.fact[n.init.key], b.fact[n.init.key], c.fact[n.init.key])
  PROVE  Between(FactDeclare(a, n).fact[k], FactDeclare(b, n).fact[k], FactDeclare(c, n).fact[k])
<1> DEFINE name     == <<NameSeg(n.name)>>
           kills    == Both(KillFacts(name, TRUE), KillIndexVar(name))
           taken(s) == IF n.isRef THEN s ELSE Consume(s, n.init, TRUE)
           fresh(s) == Forget(taken(s), kills, {})
           bound(s) == [fresh(s) EXCEPT !.ref = [r \in Refs |-> IF r = n.name THEN Live ELSE @[r]]]
           proves(s) == ~n.isRef /\ Proves(s, n.init)
<1>1. \A s : FactDeclare(s, n) = IF proves(s) THEN SetFact(bound(s), name, FactNonEmpty) ELSE bound(s)
  BY DEF FactDeclare
<1>2. ASSUME NEW s
      PROVE  bound(s) = [fact |-> bound(s).fact, ref |-> bound(s).ref] /\ bound(s).fact = fresh(s).fact
  <2>1. fresh(s) = [fact |-> fresh(s).fact, ref |-> fresh(s).ref]
    <3> HIDE DEF taken, kills
    <3> QED BY DEF Forget
  <2> HIDE DEF fresh
  <2> QED BY <2>1
<1>3. k = name => k \in kills.facts
  BY UnderItself DEF KillFacts, Both
<1>4. ASSUME NEW s, k = name PROVE fresh(s).fact[k] = FactNone
  <2>1. k \in kills.facts
    BY <1>3, <1>4
  <2> HIDE DEF taken, kills, name
  <2> QED BY <2>1, ForgetSets
<1>5. CASE k # name
  <2>1. Between(taken(a).fact[k], taken(b).fact[k], taken(c).fact[k])
    BY <1>5, ForgetBetween DEF Consume
  <2>2. Between(fresh(a).fact[k], fresh(b).fact[k], fresh(c).fact[k])
    <3> HIDE DEF taken, kills, name
    <3> QED BY <2>1, ForgetBetween
  <2>3. \A s : FactDeclare(s, n).fact[k] = fresh(s).fact[k]
    <3> HIDE DEF bound, fresh, name, proves
    <3> QED BY <1>1, <1>2, <1>5 DEF SetFact
  <2> HIDE DEF fresh
  <2> QED BY <2>2, <2>3
<1>6. CASE k = name
  <2>1. proves(a) = proves(b) \/ proves(a) = proves(c)
    BY <1>6, ProvesBetween
  <2> HIDE DEF bound, fresh, name, proves
  <2>2. \A s : FactDeclare(s, n).fact[k] = IF proves(s) THEN FactNonEmpty ELSE FactNone
    BY <1>1, <1>2, <1>4, <1>6 DEF SetFact
  <2> QED BY <2>1, <2>2 DEF Between
<1> QED BY <1>5, <1>6

LEMMA DeclareRefs ==
  ASSUME NEW a, NEW b, NEW c, NEW n, NEW r \in Refs, Between(a.ref[r], b.ref[r], c.ref[r])
  PROVE  Between(FactDeclare(a, n).ref[r], FactDeclare(b, n).ref[r], FactDeclare(c, n).ref[r])
<1> DEFINE name     == <<NameSeg(n.name)>>
           kills    == Both(KillFacts(name, TRUE), KillIndexVar(name))
           taken(s) == IF n.isRef THEN s ELSE Consume(s, n.init, TRUE)
           fresh(s) == Forget(taken(s), kills, {})
           bound(s) == [fresh(s) EXCEPT !.ref = [q \in Refs |-> IF q = n.name THEN Live ELSE @[q]]]
           proves(s) == ~n.isRef /\ Proves(s, n.init)
<1>1. \A s : FactDeclare(s, n) = IF proves(s) THEN SetFact(bound(s), name, FactNonEmpty) ELSE bound(s)
  BY DEF FactDeclare
<1>2. ASSUME NEW s
      PROVE  /\ bound(s) = [fact |-> bound(s).fact, ref |-> bound(s).ref]
             /\ bound(s).ref[r] = IF r = n.name THEN Live ELSE fresh(s).ref[r]
  <2>1. fresh(s) = [fact |-> fresh(s).fact, ref |-> fresh(s).ref]
    <3> HIDE DEF taken, kills
    <3> QED BY DEF Forget
  <2> HIDE DEF fresh
  <2> QED BY <2>1
<1>3. Between(taken(a).ref[r], taken(b).ref[r], taken(c).ref[r])
  BY ForgetBetween DEF Consume
<1>4. Between(fresh(a).ref[r], fresh(b).ref[r], fresh(c).ref[r])
  <2> HIDE DEF taken, kills
  <2> QED BY <1>3, ForgetBetween
<1> HIDE DEF bound, fresh, name, proves
<1>5. \A s : FactDeclare(s, n).ref[r] = IF r = n.name THEN Live ELSE fresh(s).ref[r]
  BY <1>1, <1>2 DEF SetFact
<1> QED BY <1>4, <1>5 DEF Between

LEMMA AssignBetween ==
  ASSUME NEW a, NEW b, NEW c, NEW n
  PROVE  /\ \A k \in FactKeys :
              /\ Between(a.fact[k], b.fact[k], c.fact[k])
                   \/ (IsPlace(n.target) /\ n.target.ty.opt /\ n.target.key # NoKey /\ k = n.target.key)
              /\ (Carries(n.value) /\ n.target.ty.opt /\ n.target.key # NoKey /\ k = n.target.key) =>
                    /\ IsPlace(n.target)
                    /\ a.fact[n.value.key] # Unvisited
                    /\ Between(a.fact[n.value.key], b.fact[n.value.key], c.fact[n.value.key])
              => Between(FactAssign(a, n).fact[k], FactAssign(b, n).fact[k], FactAssign(c, n).fact[k])
         /\ \A r \in Refs : Between(a.ref[r], b.ref[r], c.ref[r]) =>
              Between(FactAssign(a, n).ref[r], FactAssign(b, n).ref[r], FactAssign(c, n).ref[r])
<1> DEFINE taken(s)   == Consume(s, n.value, TRUE)
           dropped(s) == IF n.target.ty.owns
                           THEN Forget(taken(s), KillWrites(n.target.ty.drops), {}) ELSE taken(s)
           kills      == KillPlaceOf(n.target, TRUE)
           written(s) == Forget(dropped(s), kills, {})
           sets       == n.target.ty.opt /\ n.target.key # NoKey
           proves(s)  == Proves(s, n.value) /\ sets
<1>1. \A s : FactAssign(s, n) =
               IF proves(s) THEN SetFact(written(s), n.target.key, FactNonEmpty) ELSE written(s)
  BY DEF FactAssign
<1>2. \A s : written(s) = [fact |-> written(s).fact, ref |-> written(s).ref]
  <2> HIDE DEF dropped, kills
  <2> QED BY DEF Forget
<1>3. \A k \in FactKeys : Between(a.fact[k], b.fact[k], c.fact[k]) =>
        Between(written(a).fact[k], written(b).fact[k], written(c).fact[k])
  <2>1. \A k \in FactKeys : Between(a.fact[k], b.fact[k], c.fact[k]) =>
          Between(taken(a).fact[k], taken(b).fact[k], taken(c).fact[k])
    BY ForgetBetween DEF Consume
  <2>2. \A k \in FactKeys : Between(a.fact[k], b.fact[k], c.fact[k]) =>
          Between(dropped(a).fact[k], dropped(b).fact[k], dropped(c).fact[k])
    <3> HIDE DEF taken
    <3> QED BY <2>1, ForgetBetween
  <2> HIDE DEF dropped, kills
  <2> QED BY <2>2, ForgetBetween
<1>4. \A r \in Refs : Between(a.ref[r], b.ref[r], c.ref[r]) =>
        Between(written(a).ref[r], written(b).ref[r], written(c).ref[r])
  <2>1. \A r \in Refs : Between(a.ref[r], b.ref[r], c.ref[r]) =>
          Between(taken(a).ref[r], taken(b).ref[r], taken(c).ref[r])
    BY ForgetBetween DEF Consume
  <2>2. \A r \in Refs : Between(a.ref[r], b.ref[r], c.ref[r]) =>
          Between(dropped(a).ref[r], dropped(b).ref[r], dropped(c).ref[r])
    <3> HIDE DEF taken
    <3> QED BY <2>1, ForgetBetween
  <2> HIDE DEF dropped, kills
  <2> QED BY <2>2, ForgetBetween
<1>5. \A k \in FactKeys : sets /\ IsPlace(n.target) /\ k = n.target.key => k \in kills.facts
  BY UnderItself DEF KillPlaceOf, KillFacts, Both
<1>6. \A k \in FactKeys : \A s : k \in kills.facts => written(s).fact[k] = FactNone
  <2> HIDE DEF dropped, kills
  <2> QED BY DEF Forget
<1> HIDE DEF written, dropped, kills
<1>7. \A s : /\ \A k \in FactKeys : FactAssign(s, n).fact[k] =
                  IF proves(s) /\ k = n.target.key THEN FactNonEmpty ELSE written(s).fact[k]
             /\ FactAssign(s, n).ref = written(s).ref
  <2> HIDE DEF proves
  <2> QED BY <1>1, <1>2 DEF SetFact
<1>8. ASSUME NEW k \in FactKeys,
             Between(a.fact[k], b.fact[k], c.fact[k]) \/ (IsPlace(n.target) /\ sets /\ k = n.target.key),
             (Carries(n.value) /\ sets /\ k = n.target.key) =>
                /\ IsPlace(n.target)
                /\ a.fact[n.value.key] # Unvisited
                /\ Between(a.fact[n.value.key], b.fact[n.value.key], c.fact[n.value.key])
      PROVE  Between(FactAssign(a, n).fact[k], FactAssign(b, n).fact[k], FactAssign(c, n).fact[k])
  <2>1. CASE k # n.target.key \/ ~sets
    <3>1. \A s : FactAssign(s, n).fact[k] = written(s).fact[k]
      BY <1>7, <2>1 DEF proves
    <3> QED BY <1>3, <1>8, <2>1, <3>1
  <2>2. CASE k = n.target.key /\ sets
    <3>1. Proves(a, n.value) = Proves(b, n.value) \/ Proves(a, n.value) = Proves(c, n.value)
      BY <1>8, <2>2, ProvesBetween
    <3>2. \A s : FactAssign(s, n).fact[k] = IF Proves(s, n.value) THEN FactNonEmpty ELSE written(s).fact[k]
      BY <1>7, <2>2 DEF proves
    <3>3. CASE IsPlace(n.target)
      <4>1. \A s : written(s).fact[k] = FactNone
        BY <1>5, <1>6, <2>2, <3>3
      <4> QED BY <3>1, <3>2, <4>1 DEF Between
    <3>4. CASE ~IsPlace(n.target)
      <4>1. ~Carries(n.value)
        BY <1>8, <2>2, <3>4
      <4>2. \A s : Proves(s, n.value) = Proves(a, n.value)
        <5>1. FactNone # FactNonEmpty
          BY DEF FactNone, FactNonEmpty
        <5> QED BY <4>1, <5>1 DEF Carries, Proves, Proven, Fact
      <4>3. Between(written(a).fact[k], written(b).fact[k], written(c).fact[k])
        BY <1>3, <1>8, <3>4
      <4> QED BY <3>2, <4>2, <4>3 DEF Between
    <3> QED BY <3>3, <3>4
  <2> QED BY <2>1, <2>2
<1> QED BY <1>4, <1>7, <1>8

\* Every other operation only forgets (FactStep).
LEMMA FactStepBetween ==
  ASSUME NEW a, NEW b, NEW c, NEW op,
         (CopiesFact(op) /\ op.op = "Eval") => IsPlace(op.node.target)
  PROVE  /\ \A k \in FactKeys :
              /\ CopiesFact(op) => a.fact[Source(op, k)] # Unvisited
              /\ Between(a.fact[Source(op, k)], b.fact[Source(op, k)], c.fact[Source(op, k)])
              => Between(FactStep(a, op).fact[k], FactStep(b, op).fact[k], FactStep(c, op).fact[k])
         /\ \A r \in Refs : Between(a.ref[r], b.ref[r], c.ref[r]) =>
              Between(FactStep(a, op).ref[r], FactStep(b, op).ref[r], FactStep(c, op).ref[r])
<1>1. CASE op.op = "Declare"
  <2>1. \A s : FactStep(s, op) = FactDeclare(s, op.node)
    BY <1>1 DEF FactStep
  <2>2. ASSUME NEW k \in FactKeys,
               CopiesFact(op) => a.fact[Source(op, k)] # Unvisited,
               Between(a.fact[Source(op, k)], b.fact[Source(op, k)], c.fact[Source(op, k)])
        PROVE  Between(FactStep(a, op).fact[k], FactStep(b, op).fact[k], FactStep(c, op).fact[k])
    <3> DEFINE n == op.node
               copied == ~n.isRef /\ Carries(n.init) /\ k = <<NameSeg(n.name)>>
    <3>1. Source(op, k) = IF copied THEN n.init.key ELSE k
      BY <1>1 DEF Source
    <3>2. copied => CopiesFact(op)
      BY <1>1 DEF CopiesFact
    <3>3. copied => /\ a.fact[n.init.key] # Unvisited
                    /\ Between(a.fact[n.init.key], b.fact[n.init.key], c.fact[n.init.key])
      BY <2>2, <3>1, <3>2
    <3>4. ~copied => Between(a.fact[k], b.fact[k], c.fact[k])
      BY <2>2, <3>1
    <3>5. Between(FactDeclare(a, n).fact[k], FactDeclare(b, n).fact[k], FactDeclare(c, n).fact[k])
      BY <3>3, <3>4, DeclareBetween
    <3> QED BY <2>1, <3>5
  <2>3. \A r \in Refs : Between(a.ref[r], b.ref[r], c.ref[r]) =>
          Between(FactStep(a, op).ref[r], FactStep(b, op).ref[r], FactStep(c, op).ref[r])
    BY <2>1, DeclareRefs
  <2> QED BY <2>2, <2>3
<1>2. CASE op.op = "Eval" /\ op.node.kind = "Assign"
  <2> DEFINE n == op.node
             sets == n.target.ty.opt /\ n.target.key # NoKey
  <2>1. \A s : FactStep(s, op) = FactAssign(s, n)
    BY <1>2 DEF FactStep, FactEval
  <2>2. CopiesFact(op) <=> Carries(n.value) /\ sets
    BY <1>2 DEF CopiesFact
  <2>3. ASSUME NEW k \in FactKeys,
               CopiesFact(op) => a.fact[Source(op, k)] # Unvisited,
               Between(a.fact[Source(op, k)], b.fact[Source(op, k)], c.fact[Source(op, k)])
        PROVE  Between(FactStep(a, op).fact[k], FactStep(b, op).fact[k], FactStep(c, op).fact[k])
    <3>1. Source(op, k) = IF CopiesFact(op) /\ k = n.target.key THEN n.value.key ELSE k
      BY <1>2 DEF Source
    <3>2. CASE CopiesFact(op) /\ k = n.target.key
      BY <1>2, <2>1, <2>2, <2>3, <3>1, <3>2, AssignBetween
    <3>3. CASE ~(CopiesFact(op) /\ k = n.target.key)
      BY <2>1, <2>2, <2>3, <3>1, <3>3, AssignBetween
    <3> QED BY <3>2, <3>3
  <2>4. \A r \in Refs : Between(a.ref[r], b.ref[r], c.ref[r]) =>
          Between(FactStep(a, op).ref[r], FactStep(b, op).ref[r], FactStep(c, op).ref[r])
    BY <2>1, AssignBetween
  <2> QED BY <2>3, <2>4
<1>3. CASE op.op # "Declare" /\ ~(op.op = "Eval" /\ op.node.kind = "Assign")
  <2> DEFINE n == op.node
  <2>1. \A k : Source(op, k) = k
    BY <1>3 DEF Source
  <2> DEFINE Same(A, B, C) ==
               /\ \A k \in FactKeys : Between(a.fact[k], b.fact[k], c.fact[k]) => Between(A.fact[k], B.fact[k], C.fact[k])
               /\ \A r \in Refs : Between(a.ref[r], b.ref[r], c.ref[r]) => Between(A.ref[r], B.ref[r], C.ref[r])
  <2>2. Same(a, b, c)
    OBVIOUS
  <2>3. ASSUME NEW A, NEW B, NEW C, Same(A, B, C), NEW kills, NEW empties
        PROVE  Same(Forget(A, kills, empties), Forget(B, kills, empties), Forget(C, kills, empties))
    BY <2>3, ForgetBetween
  <2> HIDE DEF Same
  <2>4. Same(FactScopeExit(a, n), FactScopeExit(b, n), FactScopeExit(c, n))
    BY <2>2, <2>3 DEF FactScopeExit
  <2>5. Same(Consume(a, n.value, TRUE), Consume(b, n.value, TRUE), Consume(c, n.value, TRUE))
    BY <2>2, <2>3 DEF Consume
  <2>6. Same(FactCall(a, n), FactCall(b, n), FactCall(c, n))
    BY <2>2, <2>3 DEF FactCall, FactsAfterArgs, ConsumeEach
  <2>7. ASSUME NEW A, NEW B, NEW C, Same(A, B, C), NEW name, NEW arr
        PROVE  Same(FactMutate(A, name, arr), FactMutate(B, name, arr), FactMutate(C, name, arr))
    BY <2>3, <2>7 DEF FactMutate
  <2>8. Same(FactIntrinsic(a, n), FactIntrinsic(b, n), FactIntrinsic(c, n))
    BY <2>2, <2>3, <2>7 DEF FactIntrinsic, ConsumeEach
  <2>9. Same(FactEval(a, n), FactEval(b, n), FactEval(c, n)) \/ n.kind = "Assign"
    BY <2>2, <2>3, <2>6, <2>8 DEF FactEval
  <2>10. Same(FactStep(a, op), FactStep(b, op), FactStep(c, op))
    BY <1>3, <2>2, <2>4, <2>5, <2>9 DEF FactStep
  <2> QED BY <2>1, <2>10 DEF Same
<1> QED BY <1>1, <1>2, <1>3

\* Places are moved, made Live or kept (PlaceStep).
LEMMA PlaceStepBetween ==
  ASSUME NEW a, NEW b, NEW c, NEW op
  PROVE  \A p \in Paths : Between(a[p], b[p], c[p]) =>
           Between(PlaceStep(a, op)[p], PlaceStep(b, op)[p], PlaceStep(c, op)[p])
<1>1. ASSUME NEW q, NEW value, NEW p \in Paths, Between(a[p], b[p], c[p])
      PROVE  Between(SetPlace(a, q, value)[p], SetPlace(b, q, value)[p], SetPlace(c, q, value)[p])
  BY <1>1 DEF SetPlace, Between
<1> QED BY <1>1 DEF PlaceStep

-----------------------------------------------------------------------------
\* A state is explained by the states S of some walks if each of its bytes is.

Explained(st, S) ==
  /\ \A p \in Paths : \E v, w \in S : Between(st.place[p], v.place[p], w.place[p])
  /\ \A k \in FactKeys : \E v, w \in S : Between(st.fs.fact[k], v.fs.fact[k], w.fs.fact[k])
  /\ \A r \in Refs : \E v, w \in S : Between(st.fs.ref[r], v.fs.ref[r], w.fs.ref[r])

\* Some path has reached a state.
Visited(st) == Covers(st, st)

\* Two explained states join in an explained one (JoinState).
LEMMA JoinExplained ==
  ASSUME NEW a, NEW b, NEW S, Explained(a, S), Explained(b, S)
  PROVE  Explained(JoinState(a, b), S)
<1>1. ASSUME NEW x, NEW y, NEW x1, NEW x2, NEW y1, NEW y2, Between(x, x1, x2), Between(y, y1, y2)
      PROVE  \E v, w \in {x1, x2, y1, y2} : Between(Join(x, y), v, w)
  BY <1>1 DEF Between, Join, Unvisited, Maybe
<1>2. ASSUME NEW p \in Paths
      PROVE  \E v, w \in S : Between(JoinState(a, b).place[p], v.place[p], w.place[p])
  <2>1. PICK x1 \in S, x2 \in S : Between(a.place[p], x1.place[p], x2.place[p])
    BY DEF Explained
  <2>2. PICK y1 \in S, y2 \in S : Between(b.place[p], y1.place[p], y2.place[p])
    BY DEF Explained
  <2>3. JoinState(a, b).place[p] = Join(a.place[p], b.place[p])
    BY DEF JoinState
  <2> QED BY <1>1, <2>1, <2>2, <2>3
<1>3. ASSUME NEW k \in FactKeys
      PROVE  \E v, w \in S : Between(JoinState(a, b).fs.fact[k], v.fs.fact[k], w.fs.fact[k])
  <2>1. PICK x1 \in S, x2 \in S : Between(a.fs.fact[k], x1.fs.fact[k], x2.fs.fact[k])
    BY DEF Explained
  <2>2. PICK y1 \in S, y2 \in S : Between(b.fs.fact[k], y1.fs.fact[k], y2.fs.fact[k])
    BY DEF Explained
  <2>3. JoinState(a, b).fs.fact[k] = Join(a.fs.fact[k], b.fs.fact[k])
    BY DEF JoinState
  <2> QED BY <1>1, <2>1, <2>2, <2>3
<1>4. ASSUME NEW r \in Refs
      PROVE  \E v, w \in S : Between(JoinState(a, b).fs.ref[r], v.fs.ref[r], w.fs.ref[r])
  <2>1. PICK x1 \in S, x2 \in S : Between(a.fs.ref[r], x1.fs.ref[r], x2.fs.ref[r])
    BY DEF Explained
  <2>2. PICK y1 \in S, y2 \in S : Between(b.fs.ref[r], y1.fs.ref[r], y2.fs.ref[r])
    BY DEF Explained
  <2>3. JoinState(a, b).fs.ref[r] = Join(a.fs.ref[r], b.fs.ref[r])
    BY DEF JoinState
  <2> QED BY <1>1, <2>1, <2>2, <2>3
<1> QED BY <1>2, <1>3, <1>4 DEF Explained

LEMMA JoinVisited ==
  ASSUME NEW a, NEW b, Visited(a) \/ Visited(b)
  PROVE  Visited(JoinState(a, b))
<1>1. \A x, y : x # Unvisited \/ y # Unvisited => Join(x, y) # Unvisited
  BY DEF Join, Unvisited, Maybe
<1> QED BY <1>1 DEF Visited, Covers, PlacesCover, FactsCover, JoinState

\* What an operation makes of an explained state is explained by what it makes
\* of the walks; a fact is copied from a visited state only (Transfer).
LEMMA TransferExplained ==
  ASSUME NEW a, NEW S, NEW T, NEW op, Explained(a, S), \A w \in S : Transfer(w, op) \in T,
         CopiesFact(op) => Visited(a) /\ (op.op = "Eval" => IsPlace(op.node.target))
  PROVE  Explained(Transfer(a, op), T)
<1>1. ASSUME NEW p \in Paths
      PROVE  \E v, w \in T : Between(Transfer(a, op).place[p], v.place[p], w.place[p])
  <2>1. PICK v \in S, w \in S : Between(a.place[p], v.place[p], w.place[p])
    BY DEF Explained
  <2>2. Between(Transfer(a, op).place[p], Transfer(v, op).place[p], Transfer(w, op).place[p])
    BY <2>1, PlaceStepBetween DEF Transfer
  <2> QED BY <2>2
<1>2. ASSUME NEW k \in FactKeys
      PROVE  \E v, w \in T : Between(Transfer(a, op).fs.fact[k], v.fs.fact[k], w.fs.fact[k])
  <2>1. Source(op, k) \in FactKeys
    BY DEF Source, CopiesFact, Carries
  <2>2. PICK v \in S, w \in S : Between(a.fs.fact[Source(op, k)], v.fs.fact[Source(op, k)], w.fs.fact[Source(op, k)])
    BY <2>1 DEF Explained
  <2>3. CopiesFact(op) => a.fs.fact[Source(op, k)] # Unvisited
    BY <2>1 DEF Visited, Covers, FactsCover
  <2>4. Between(FactStep(a.fs, op).fact[k], FactStep(v.fs, op).fact[k], FactStep(w.fs, op).fact[k])
    BY <2>2, <2>3, FactStepBetween
  <2> QED BY <2>4 DEF Transfer
<1>3. ASSUME NEW r \in Refs
      PROVE  \E v, w \in T : Between(Transfer(a, op).fs.ref[r], v.fs.ref[r], w.fs.ref[r])
  <2>1. PICK v \in S, w \in S : Between(a.fs.ref[r], v.fs.ref[r], w.fs.ref[r])
    BY DEF Explained
  <2>2. Between(FactStep(a.fs, op).ref[r], FactStep(v.fs, op).ref[r], FactStep(w.fs, op).ref[r])
    BY <2>1, FactStepBetween
  <2> QED BY <2>2 DEF Transfer
<1> QED BY <1>1, <1>2, <1>3 DEF Explained

\* So is what an edge makes of it (ApplyCond).
LEMMA EdgeExplained ==
  ASSUME NEW a \in State, NEW S \in SUBSET State, NEW T, NEW g, NEW x, NEW s, Explained(a, S),
         \A w \in S : EdgeState(g, x, s, w) \in T
  PROVE  Explained(EdgeState(g, x, s, a), T)
<1>1. ASSUME NEW u \in State, NEW v \in State, NEW w \in State, NEW proves, NEW loopExit, NEW k \in FactKeys,
             Between(u.fs.fact[k], v.fs.fact[k], w.fs.fact[k])
      PROVE  Between(ApplyCond(u.fs, proves, loopExit).fact[k], ApplyCond(v.fs, proves, loopExit).fact[k],
                     ApplyCond(w.fs, proves, loopExit).fact[k])
  <2>1. \A c \in State : ApplyCond(c.fs, proves, loopExit).fact[k] =
               IF k \notin DOMAIN proves THEN c.fs.fact[k]
               ELSE IF proves[k] THEN FactNonEmpty ELSE IF loopExit THEN FactNone ELSE FactEmpty
    BY DEF ApplyCond, State, FactState
  <2> QED BY <1>1, <2>1 DEF Between
<1>2. \A c \in State : \A proves, loopExit : ApplyCond(c.fs, proves, loopExit).ref = c.fs.ref
  BY DEF ApplyCond, State, FactState
<1>3. \A c \in State : \A f : [c EXCEPT !.fs = f].fs = f /\ [c EXCEPT !.fs = f].place = c.place
  BY DEF State
<1>4. ASSUME NEW u \in State, NEW v \in State, NEW w \in State
      PROVE  /\ \A k \in FactKeys : Between(u.fs.fact[k], v.fs.fact[k], w.fs.fact[k]) =>
                  Between(EdgeState(g, x, s, u).fs.fact[k], EdgeState(g, x, s, v).fs.fact[k],
                          EdgeState(g, x, s, w).fs.fact[k])
             /\ EdgeState(g, x, s, u).fs.ref = u.fs.ref
             /\ EdgeState(g, x, s, u).place = u.place
  BY <1>1, <1>2, <1>3, SMTT(30) DEF EdgeState
<1>5. ASSUME NEW k \in FactKeys
      PROVE  \E v, w \in T : Between(EdgeState(g, x, s, a).fs.fact[k], v.fs.fact[k], w.fs.fact[k])
  <2>1. PICK v \in S, w \in S : Between(a.fs.fact[k], v.fs.fact[k], w.fs.fact[k])
    BY DEF Explained
  <2> QED BY <1>4, <2>1
<1>6. ASSUME NEW p \in Paths
      PROVE  \E v, w \in T : Between(EdgeState(g, x, s, a).place[p], v.place[p], w.place[p])
  <2>1. PICK v \in S, w \in S : Between(a.place[p], v.place[p], w.place[p])
    BY DEF Explained
  <2> QED BY <1>4, <2>1
<1>7. ASSUME NEW r \in Refs
      PROVE  \E v, w \in T : Between(EdgeState(g, x, s, a).fs.ref[r], v.fs.ref[r], w.fs.ref[r])
  <2>1. PICK v \in S, w \in S : Between(a.fs.ref[r], v.fs.ref[r], w.fs.ref[r])
    BY DEF Explained
  <2> QED BY <1>4, <2>1
<1> QED BY <1>5, <1>6, <1>7 DEF Explained

\* Whatever is reported in a visited state that walks explain, is reported of
\* one of the walks (ReportMoveFacts).
LEMMA ReportsExplained ==
  ASSUME NEW a \in State, NEW S, S # {}, NEW op, Explained(a, S), Visited(a), NEW kind \in Reports(a, op)
  PROVE  \E w \in S : kind \in Reports(w, op)
<1>1. ASSUME NEW x, NEW y, NEW z, NEW v, Between(x, y, z), x # Unvisited, v # Maybe, x # v
      PROVE  y # v \/ z # v
  BY <1>1 DEF Between
<1>2. Live # Maybe /\ FactNonEmpty # Maybe
  BY DEF Live, Maybe, FactNonEmpty
<1>3. ASSUME NEW p \in Paths, a.place[p] # Live PROVE \E w \in S : w.place[p] # Live
  BY <1>1, <1>2, <1>3 DEF Explained, Visited, Covers, PlacesCover
<1>4. ASSUME NEW k \in FactKeys, a.fs.fact[k] # FactNonEmpty PROVE \E w \in S : w.fs.fact[k] # FactNonEmpty
  BY <1>1, <1>2, <1>4 DEF Explained, Visited, Covers, FactsCover
<1>5. ASSUME NEW q, NEW whole, PlaceBlocker(a.place, q, whole) # {}
      PROVE  \E w \in S : PlaceBlocker(w.place, q, whole) # {}
  BY <1>3, <1>5 DEF PlaceBlocker
<1>6. CASE kind = "move"
  <2>1. MoveReport(a.place, op)
    BY <1>6 DEF Reports
  <2>2. \E w \in S : MoveReport(w.place, op)
    <3>1. CASE UsesPlace(op) /\ PlaceBlocker(a.place, op.node.path, WholeUse(op)) # {}
      BY <1>5, <3>1 DEF MoveReport
    <3>2. CASE /\ WritesPlace(op) /\ Len(op.node.target.path) > 1
               /\ PlaceBlocker(a.place, WholeOf(op.node.target.path), FALSE) # {}
      BY <1>5, <3>2 DEF MoveReport
    <3>3. CASE /\ op.op = "Declare" /\ op.node.isRef /\ TrackedPlace(op.node.init)
               /\ PlaceBlocker(a.place, op.node.init.path, TRUE) # {}
      BY <1>5, <3>3 DEF MoveReport
    <3> QED BY <2>1, <3>1, <3>2, <3>3 DEF MoveReport
  <2> QED BY <1>6, <2>2 DEF Reports
<1>7. ASSUME NEW key, Fact(a.fs, key) # FactNonEmpty
      PROVE  \E w \in S : Fact(w.fs, key) # FactNonEmpty
  BY <1>4, <1>7 DEF Fact
<1>8. ASSUME NEW v, NEW wants, ConsumeUnproven(a.fs, v, wants)
      PROVE  \E w \in S : ConsumeUnproven(w.fs, v, wants)
  <2>1. v # NoNode /\ wants /\ v.ty.opt /\ ~Proven(a.fs, v)
    BY <1>8 DEF ConsumeUnproven
  <2>2. \E w \in S : ~Proven(w.fs, v)
    BY <1>7, <2>1 DEF Proven
  <2> QED BY <2>1, <2>2 DEF ConsumeUnproven
<1>9. ASSUME NEW n, Unproven(a.fs, n) PROVE \E w \in S : Unproven(w.fs, n)
  BY <1>7, <1>9 DEF Unproven
<1>10. ASSUME NEW n, NEW count, NEW v, NEW wants, ConsumeUnproven(FactsAfterArgs(a.fs, n, count), v, wants)
       PROVE  \E w \in S : ConsumeUnproven(FactsAfterArgs(w.fs, n, count), v, wants)
  <2> DEFINE after(st) == FactsAfterArgs(st.fs, n, count)
  <2>1. ASSUME NEW k \in FactKeys, after(a).fact[k] # FactNonEmpty
        PROVE  \E w \in S : after(w).fact[k] # FactNonEmpty
    <3>1. \A b, c : Between(a.fs.fact[k], b.fs.fact[k], c.fs.fact[k]) =>
                      Between(after(a).fact[k], after(b).fact[k], after(c).fact[k])
      BY ForgetBetween DEF FactsAfterArgs, ConsumeEach
    <3>2. after(a).fact[k] # Unvisited
      <4>1. FactsCover(a.fs, a.fs)
        BY DEF Visited, Covers
      <4>2. FactsCover(after(a), after(a))
        BY <4>1, ArgsCover
      <4> HIDE DEF after
      <4> QED BY <4>2 DEF FactsCover
    <3>3. PICK b \in S, c \in S : Between(a.fs.fact[k], b.fs.fact[k], c.fs.fact[k])
      BY DEF Explained
    <3>4. Between(after(a).fact[k], after(b).fact[k], after(c).fact[k])
      BY <3>1, <3>3
    <3> HIDE DEF after
    <3> QED BY <1>1, <1>2, <2>1, <3>2, <3>4
  <2> HIDE DEF after
  <2>2. v # NoNode /\ wants /\ v.ty.opt /\ ~Proven(after(a), v)
    BY <1>10 DEF ConsumeUnproven, after
  <2>3. \E w \in S : ~Proven(after(w), v)
    BY <2>1, <2>2 DEF Proven, Fact
  <2> QED BY <2>2, <2>3 DEF ConsumeUnproven, after
<1>11. CASE kind = "narrow"
  <2> DEFINE n == op.node
  <2>1. NarrowReport(a.fs, op)
    BY <1>11 DEF Reports
  <2>2. \E w \in S : NarrowReport(w.fs, op)
    <3>1. CASE op.op = "Declare" /\ ~n.isRef /\ ConsumeUnproven(a.fs, n.init, n.wants)
      BY <1>8, <3>1 DEF NarrowReport
    <3>2. CASE op.op = "Return" /\ ConsumeUnproven(a.fs, n.value, n.wants)
      BY <1>8, <3>2 DEF NarrowReport
    <3>3. CASE op.op = "Eval" /\ n.kind \in {"Place", "Member", "Index"} /\ Unproven(a.fs, n)
      BY <1>9, <3>3 DEF NarrowReport
    <3>4. CASE op.op = "Eval" /\ n.kind \in {"Assign"} /\ IsPlace(n.target) /\ Unproven(a.fs, n.target)
      BY <1>9, <3>4 DEF NarrowReport
    <3>5. CASE op.op = "Eval" /\ n.kind \in {"Assign"} /\ ConsumeUnproven(a.fs, n.value, ~n.target.ty.opt)
      BY <1>8, <3>5 DEF NarrowReport
    <3>6. CASE /\ op.op = "Eval" /\ n.kind \in {"Call", "Init"}
               /\ \E i \in DOMAIN n.args :
                    ConsumeUnproven(FactsAfterArgs(a.fs, n, i - 1), n.args[i].arg, n.args[i].wants)
      BY <1>10, <3>6 DEF NarrowReport
    <3> QED BY <2>1, <3>1, <3>2, <3>3, <3>4, <3>5, <3>6 DEF NarrowReport
  <2> QED BY <1>11, <2>2 DEF Reports
<1>12. CASE kind = "dangle"
  <2>1. DanglingCheck(FactStep(a.fs, op), op)
    BY <1>12 DEF Reports
  <2> DEFINE n == IF op.node.kind = "Assign" THEN op.node.target ELSE op.node
             r == RootIdent(n)
  <2>2. op.op = "Eval" /\ IsPlace(n) /\ r \in Refs /\ FactStep(a.fs, op).ref[r] # Live
    BY <2>1 DEF DanglingCheck
  <2> HIDE DEF r
  <2>3. \E w \in S : FactStep(w.fs, op).ref[r] # Live
    <3>1. CASE op.node.kind = "Assign"
      <4>1. \A s : FactStep(s, op) = FactAssign(s, op.node)
        BY <2>2, <3>1 DEF FactStep, FactEval
      <4>2. PICK b \in S, c \in S : Between(a.fs.ref[r], b.fs.ref[r], c.fs.ref[r])
        BY <2>2 DEF Explained
      <4>3. Between(FactStep(a.fs, op).ref[r], FactStep(b.fs, op).ref[r], FactStep(c.fs, op).ref[r])
        BY <2>2, <4>1, <4>2, AssignBetween
      <4>4. FactStep(a.fs, op).ref[r] # Unvisited
        <5>1. a.fs \in FactState /\ FactsCover(a.fs, a.fs)
          BY DEF State, Visited, Covers
        <5>2. FactsCover(FactStep(a.fs, op), FactStep(a.fs, op))
          BY <5>1, FactStepCovers
        <5> QED BY <2>2, <5>2 DEF FactsCover
      <4> QED BY <1>1, <1>2, <2>2, <4>3, <4>4
    <3>2. CASE op.node.kind # "Assign"
      <4>1. \A s : FactStep(s, op) = s
        BY <2>2, <3>2 DEF FactStep, FactEval, IsPlace
      <4>2. PICK b \in S, c \in S : Between(a.fs.ref[r], b.fs.ref[r], c.fs.ref[r])
        BY <2>2 DEF Explained
      <4>3. a.fs.ref[r] # Unvisited
        BY <2>2 DEF Visited, Covers, FactsCover
      <4> QED BY <1>1, <1>2, <2>2, <4>1, <4>2, <4>3
    <3> QED BY <3>1, <3>2
  <2>4. \E w \in S : DanglingCheck(FactStep(w.fs, op), op)
    BY <2>2, <2>3 DEF DanglingCheck, r
  <2> QED BY <1>12, <2>4 DEF Reports
<1>13. kind \in {"move", "narrow", "dangle"}
  BY DEF Reports
<1> QED BY <1>6, <1>11, <1>12, <1>13

-----------------------------------------------------------------------------
\* The blocks and the walks that reach them.

\* A block reached by edges to later blocks has one of them from another such
\* block before it.
LEMMA ForwardFacts ==
  ASSUME NEW g, Len(g.blocks) \in Nat
  PROVE  /\ Forward(g) \subseteq g.reachable
         /\ \A x \in Forward(g) :
              x = Entry \/ \E y \in Forward(g) : y < x /\ \E s \in DOMAIN Succ(g, y) : Succ(g, y)[s] = x
<1> DEFINE N          == Len(g.blocks)
           Sees(x, y) == \E s \in DOMAIN Succ(g, y) : Succ(g, y)[s] = x
           T          == SUBSET g.reachable
           More(n, a) == a \cup {x \in {n} \cap g.reachable : x = Entry \/ \E y \in a : Sees(x, y)}
           step       == [n \in Nat |-> [a \in T |-> More(n + 1, a)]]
           Body(m)    == [n \in 0..N |-> IF n = 0 THEN {} ELSE More(n, m[n - 1])]
           m          == CHOOSE x : x = Body(x)
<1>1. {} \in T /\ \A n, a : a \in T => More(n, a) \in T
  OBVIOUS
<1>2. \E x : x = Body(x)
  <2> HIDE DEF T, More
  <2>1. step \in [Nat -> [T -> T]] /\ \A n \in Nat, a \in T : step[n][a] = More(n + 1, a)
    BY <1>1
  <2> HIDE DEF step
  <2>2. PICK h : RecursesUpTo(h, T, {}, step, N)
    BY <1>1, <2>1, RecursionUpTo
  <2>3. h \in [0..N -> T] /\ h[0] = {} /\ \A n \in 1..N : h[n] = step[n - 1][h[n - 1]]
    BY <2>2 DEF RecursesUpTo
  <2>4. ASSUME NEW n \in 1..N PROVE h[n] = More(n, h[n - 1])
    <3>1. n - 1 \in Nat /\ n - 1 \in 0..N /\ (n - 1) + 1 = n
      OBVIOUS
    <3>2. h[n] = step[n - 1][h[n - 1]] /\ h[n - 1] \in T
      BY <2>3, <3>1
    <3>3. step[n - 1][h[n - 1]] = More((n - 1) + 1, h[n - 1])
      BY <2>1, <3>1, <3>2
    <3>4. More((n - 1) + 1, h[n - 1]) = More(n, h[n - 1])
      BY <3>1
    <3> QED BY <3>2, <3>3, <3>4
  <2>5. h = Body(h)
    BY <2>3, <2>4
  <2> QED BY <2>5
<1>3. m = Body(m)
  <2> HIDE DEF Body
  <2> QED BY <1>2
<1>4. Forward(g) = m[N]
  BY DEF Forward
<1> HIDE DEF m
<1>5. m[0] = {} /\ \A n \in 1..N : m[n] = More(n, m[n - 1])
  BY <1>3
<1> DEFINE Supported(a) == \A x \in a : x = Entry \/ \E y \in a : y < x /\ Sees(x, y)
           In == {n \in 0..N : m[n] \subseteq g.reachable \cap (1..n) /\ Supported(m[n])}
<1>6. 0 \in In
  BY <1>5
<1>7. ASSUME NEW n \in 0..(N - 1), n \in In PROVE n + 1 \in In
  <2>1. n + 1 \in 1..N /\ (n + 1) - 1 = n /\ n + 1 \in 0..N /\ n \in Nat
    OBVIOUS
  <2>2. m[n + 1] = More(n + 1, m[n])
    BY <1>5, <2>1
  <2>3. m[n] \subseteq 1..n /\ m[n] \subseteq g.reachable /\ Supported(m[n])
    BY <1>7
  <2>4. m[n + 1] \subseteq g.reachable \cap (1..(n + 1))
    BY <2>1, <2>2, <2>3
  <2>5. Supported(m[n + 1])
    <3> SUFFICES ASSUME NEW x \in m[n + 1], x # Entry PROVE \E y \in m[n + 1] : y < x /\ Sees(x, y)
      OBVIOUS
    <3>1. CASE x \in m[n]
      <4>1. \E y \in m[n] : y < x /\ Sees(x, y)
        BY <2>3, <3>1
      <4> HIDE DEF Sees
      <4> QED BY <2>2, <4>1
    <3>2. CASE x \notin m[n]
      <4>1. x = n + 1 /\ \E y \in m[n] : Sees(x, y)
        BY <2>2, <3>2
      <4>2. \A y \in m[n] : y < x
        BY <2>1, <2>3, <4>1
      <4> HIDE DEF Sees
      <4> QED BY <2>2, <4>1, <4>2
    <3> QED BY <3>1, <3>2
  <2> HIDE DEF Supported
  <2> QED BY <2>1, <2>4, <2>5
<1> HIDE DEF In
<1>8. 0..N \subseteq In
  BY <1>6, <1>7, BoundedInduction
<1>9. N \in In
  BY <1>8
<1> QED BY <1>4, <1>9 DEF In

\* What has the entry, and with a block what follows it, has all (MarkReachable).
LEMMA ReachedWithin ==
  ASSUME NEW g, NEW S, Len(g.blocks) \in Nat, ReachedOnly(g), Entry \in S,
         \A y \in S : \A s \in DOMAIN Succ(g, y) : Succ(g, y)[s] \in S
  PROVE  g.reachable \subseteq S
<1> DEFINE N       == Len(g.blocks)
           T       == SUBSET S
           More(a) == a \cup UNION {{Succ(g, y)[s] : s \in DOMAIN Succ(g, y)} : y \in a}
           step    == [n \in Nat |-> [a \in T |-> More(a)]]
           Body(m) == [n \in 0..N |-> IF n = 0 THEN {Entry} ELSE More(m[n - 1])]
           m       == CHOOSE x : x = Body(x)
<1>1. {Entry} \in T /\ \A a : a \in T => More(a) \in T
  OBVIOUS
<1>2. \E x : x = Body(x)
  <2> HIDE DEF T, More
  <2>1. step \in [Nat -> [T -> T]] /\ \A n \in Nat, a \in T : step[n][a] = More(a)
    BY <1>1
  <2> HIDE DEF step
  <2>2. PICK h : RecursesUpTo(h, T, {Entry}, step, N)
    BY <1>1, <2>1, RecursionUpTo
  <2>3. h \in [0..N -> T] /\ h[0] = {Entry} /\ \A n \in 1..N : h[n] = step[n - 1][h[n - 1]]
    BY <2>2 DEF RecursesUpTo
  <2>4. ASSUME NEW n \in 1..N PROVE h[n] = More(h[n - 1])
    <3>1. n - 1 \in Nat /\ n - 1 \in 0..N
      OBVIOUS
    <3> QED BY <2>1, <2>3, <3>1
  <2>5. h = Body(h)
    BY <2>3, <2>4
  <2> QED BY <2>5
<1>3. m = Body(m)
  <2> HIDE DEF Body
  <2> QED BY <1>2
<1>4. g.reachable \subseteq m[N]
  BY DEF ReachedOnly
<1> HIDE DEF m
<1>5. m[0] = {Entry} /\ \A n \in 1..N : m[n] = More(m[n - 1])
  <2>1. 0 \in 0..N /\ \A n \in 1..N : n \in 0..N /\ n # 0
    OBVIOUS
  <2> HIDE DEF N, More
  <2> QED BY <1>3, <2>1
<1> DEFINE In == {n \in 0..N : m[n] \in T}
<1>6. 0 \in In
  BY <1>1, <1>5
<1>7. ASSUME NEW n \in 0..(N - 1), n \in In PROVE n + 1 \in In
  <2>1. n + 1 \in 1..N /\ (n + 1) - 1 = n /\ n + 1 \in 0..N
    OBVIOUS
  <2>2. m[n + 1] = More(m[n])
    BY <1>5, <2>1
  <2> HIDE DEF More, T
  <2> QED BY <1>1, <1>7, <2>1, <2>2
<1> HIDE DEF In
<1>8. 0..N \subseteq In
  BY <1>6, <1>7, BoundedInduction
<1> QED BY <1>4, <1>8 DEF In

\* Where a walk may be: each path has a place or has moved it.
AnyWalk == {w \in [blk : graph.reachable, pos : Nat, st : State] :
              /\ w.pos \in 1..(NOps(w.blk) + 1)
              /\ \A p \in Paths : w.st.place[p] \in {Live, Moved}}

LEMMA WalksTyped ==
  ASSUME prog \in DOMAIN Programs
  PROVE  Walks(graph) \subseteq AnyWalk /\ Start \in Walks(graph)
<1>1. /\ Entry \in graph.reachable /\ graph.reachable \subseteq BlocksOf(graph)
      /\ \A x \in BlocksOf(graph) : NOps(x) \in Nat
      /\ \A x : Len(Ops(graph, x)) = NOps(x)
  BY GraphFacts DEF NOps
<1>2. Start \in AnyWalk
  <2>1. Everywhere(Live) \in State /\ \A p \in Paths : Everywhere(Live).place[p] = Live
    BY EverywhereType DEF Everywhere
  <2>2. 1 \in 1..(NOps(Entry) + 1) /\ 1 \in Nat
    BY <1>1
  <2> QED BY <1>1, <2>1, <2>2 DEF Start, AnyWalk
<1>3. ASSUME NEW w \in AnyWalk, NEW v \in WalkSteps(graph, w) PROVE v \in AnyWalk
  <2>1. /\ w \in [blk : graph.reachable, pos : Nat, st : State]
        /\ w.blk \in graph.reachable /\ w.pos \in 1..(NOps(w.blk) + 1) /\ w.st \in State
        /\ \A p \in Paths : w.st.place[p] \in {Live, Moved}
        /\ NOps(w.blk) \in Nat
    BY <1>1, <1>3 DEF AnyWalk
  <2>2. CASE w.pos <= NOps(w.blk)
    <3> DEFINE op == Ops(graph, w.blk)[w.pos]
    <3>1. v = [w EXCEPT !.pos = w.pos + 1, !.st = Transfer(w.st, op)]
      BY <1>1, <1>3, <2>2 DEF WalkSteps
    <3>2. w.pos + 1 \in 1..(NOps(w.blk) + 1) /\ w.pos + 1 \in Nat
      BY <2>1, <2>2
    <3> HIDE DEF op
    <3>3. Transfer(w.st, op) \in State
      BY <2>1, TransferType
    <3>4. \A p \in Paths : Transfer(w.st, op).place[p] \in {Live, Moved}
      <4>1. \A p \in Paths : \A q : \A value \in {Live, Moved} : SetPlace(w.st.place, q, value)[p] \in {Live, Moved}
        BY <2>1 DEF SetPlace
      <4> QED BY <2>1, <4>1 DEF Transfer, PlaceStep
    <3>5. v = [blk |-> w.blk, pos |-> w.pos + 1, st |-> Transfer(w.st, op)]
      BY <2>1, <3>1
    <3> QED BY <2>1, <3>2, <3>3, <3>4, <3>5 DEF AnyWalk
  <2>3. CASE ~(w.pos <= NOps(w.blk))
    <3>1. PICK s \in DOMAIN Succ(graph, w.blk) :
            v = [blk |-> Succ(graph, w.blk)[s], pos |-> 1, st |-> EdgeState(graph, w.blk, s, w.st)]
      BY <1>1, <1>3, <2>3 DEF WalkSteps
    <3>2. Succ(graph, w.blk)[s] \in graph.reachable
      BY <2>1, GraphFacts
    <3>3. EdgeState(graph, w.blk, s, w.st) \in State /\ EdgeState(graph, w.blk, s, w.st).place = w.st.place
      BY <2>1, EdgeStateType
    <3>4. 1 \in 1..(NOps(Succ(graph, w.blk)[s]) + 1) /\ 1 \in Nat
      BY <1>1, <3>2
    <3> QED BY <2>1, <3>1, <3>2, <3>3, <3>4 DEF AnyWalk
  <2> QED BY <2>2, <2>3
<1> QED BY <1>2, <1>3, WalksWithin

\* The states of the walks at operation j of block x.
StatesAt(g, x, j) == {w.st : w \in {v \in Walks(g) : v.blk = x /\ v.pos = j}}

\* They go on by the operation, and past the last one by the edges.
LEMMA StatesGoOn ==
  ASSUME prog \in DOMAIN Programs, WalksClosed(graph), NEW x \in graph.reachable
  PROVE  /\ \A j \in 1..(NOps(x) + 1) : StatesAt(graph, x, j) \subseteq State
         /\ \A j \in 1..NOps(x) : \A w \in StatesAt(graph, x, j) :
              Transfer(w, Ops(graph, x)[j]) \in StatesAt(graph, x, j + 1)
         /\ \A s \in DOMAIN Succ(graph, x) : \A w \in StatesAt(graph, x, NOps(x) + 1) :
              EdgeState(graph, x, s, w) \in StatesAt(graph, Succ(graph, x)[s], 1)
<1>1. NOps(x) \in Nat /\ Len(Ops(graph, x)) = NOps(x)
  BY GraphFacts DEF NOps
<1>2. ASSUME NEW j, NEW u \in StatesAt(graph, x, j)
      PROVE  /\ u \in State
             /\ \E w \in Walks(graph) : /\ w \in [blk : graph.reachable, pos : Nat, st : State]
                                        /\ w.blk = x /\ w.pos = j /\ w.st = u
                                        /\ WalkSteps(graph, w) \subseteq Walks(graph)
  <2>1. PICK w \in Walks(graph) : w.blk = x /\ w.pos = j /\ w.st = u
    BY <1>2 DEF StatesAt
  <2>2. w \in [blk : graph.reachable, pos : Nat, st : State]
    BY WalksTyped DEF AnyWalk
  <2>3. u \in State
    BY <2>1, <2>2
  <2> QED BY <2>1, <2>2, <2>3 DEF WalksClosed
<1>3. ASSUME NEW j \in 1..NOps(x), NEW u \in StatesAt(graph, x, j)
      PROVE  Transfer(u, Ops(graph, x)[j]) \in StatesAt(graph, x, j + 1)
  <2>1. PICK w \in Walks(graph) : /\ w \in [blk : graph.reachable, pos : Nat, st : State]
                                  /\ w.blk = x /\ w.pos = j /\ w.st = u
                                  /\ WalkSteps(graph, w) \subseteq Walks(graph)
    BY <1>2, <1>3
  <2>2. WalkSteps(graph, w) = {[w EXCEPT !.pos = w.pos + 1, !.st = Transfer(w.st, Ops(graph, w.blk)[w.pos])]}
    BY <1>1, <2>1 DEF WalkSteps
  <2>3. Transfer(u, Ops(graph, x)[j]) \in StatesAt(graph, x, j + 1)
    <3> DEFINE after == Transfer(u, Ops(graph, x)[j])
    <3>1. Transfer(w.st, Ops(graph, w.blk)[w.pos]) = after
      BY <2>1
    <3> HIDE DEF after
    <3>2. PICK v \in Walks(graph) : v = [w EXCEPT !.pos = w.pos + 1, !.st = after]
      BY <2>1, <2>2, <3>1
    <3>3. v.blk = x /\ v.pos = j + 1 /\ v.st = after
      BY <2>1, <3>2
    <3> QED BY <3>2, <3>3 DEF after, StatesAt
  <2> QED BY <2>3
<1>4. ASSUME NEW s \in DOMAIN Succ(graph, x), NEW u \in StatesAt(graph, x, NOps(x) + 1)
      PROVE  EdgeState(graph, x, s, u) \in StatesAt(graph, Succ(graph, x)[s], 1)
  <2>1. PICK w \in Walks(graph) : /\ w \in [blk : graph.reachable, pos : Nat, st : State]
                                  /\ w.blk = x /\ w.pos = NOps(x) + 1 /\ w.st = u
                                  /\ WalkSteps(graph, w) \subseteq Walks(graph)
    BY <1>2, <1>4
  <2>2. [blk |-> Succ(graph, x)[s], pos |-> 1, st |-> EdgeState(graph, x, s, u)] \in WalkSteps(graph, w)
    <3>1. w.blk = x /\ w.st = u /\ ~(w.pos <= Len(Ops(graph, w.blk)))
      BY <1>1, <2>1
    <3> QED BY <3>1 DEF WalkSteps
  <2>3. [blk |-> Succ(graph, x)[s], pos |-> 1, st |-> EdgeState(graph, x, s, u)] \in Walks(graph)
    BY <2>1, <2>2
  <2> QED BY <2>3 DEF StatesAt
<1> QED BY <1>2, <1>3, <1>4

\* There is one at every operation of every block.
LEMMA StatesThere ==
  ASSUME prog \in DOMAIN Programs, WalksClosed(graph), ReachedOnly(graph)
  PROVE  \A x \in graph.reachable : \A j \in 1..(NOps(x) + 1) : StatesAt(graph, x, j) # {}
<1> DEFINE S == {x \in graph.reachable : StatesAt(graph, x, 1) # {}}
<1>1. /\ Entry \in graph.reachable /\ Len(graph.blocks) \in Nat
      /\ \A x \in graph.reachable : NOps(x) \in Nat
  BY GraphFacts
<1>2. Entry \in S
  <2>1. Start \in Walks(graph) /\ Start.blk = Entry /\ Start.pos = 1
    BY WalksTyped DEF Start
  <2> QED BY <1>1, <2>1 DEF StatesAt
<1>3. ASSUME NEW x \in S, NEW j \in 1..(NOps(x) + 1) PROVE StatesAt(graph, x, j) # {}
  <2> DEFINE In == {n \in 0..NOps(x) : StatesAt(graph, x, n + 1) # {}}
  <2>1. 0 \in In
    BY <1>1, <1>3
  <2>2. ASSUME NEW n \in 0..(NOps(x) - 1), n \in In PROVE n + 1 \in In
    <3>1. n + 1 \in 1..NOps(x) /\ n + 1 \in 0..NOps(x)
      BY <1>1
    <3>2. PICK w : w \in StatesAt(graph, x, n + 1)
      BY <2>2
    <3>3. Transfer(w, Ops(graph, x)[n + 1]) \in StatesAt(graph, x, (n + 1) + 1)
      BY <1>3, <3>1, <3>2, StatesGoOn
    <3> QED BY <3>1, <3>3
  <2> HIDE DEF In
  <2>3. 0..NOps(x) \subseteq In
    BY <1>1, <1>3, <2>1, <2>2, BoundedInduction
  <2>4. j - 1 \in 0..NOps(x) /\ (j - 1) + 1 = j
    BY <1>1, <1>3
  <2>5. j - 1 \in In
    BY <2>3, <2>4
  <2> QED BY <2>4, <2>5 DEF In
<1>4. ASSUME NEW x \in S, NEW s \in DOMAIN Succ(graph, x) PROVE Succ(graph, x)[s] \in S
  <2>1. x \in graph.reachable /\ NOps(x) + 1 \in 1..(NOps(x) + 1)
    BY <1>1
  <2>2. PICK w : w \in StatesAt(graph, x, NOps(x) + 1)
    BY <1>3, <2>1
  <2>3. EdgeState(graph, x, s, w) \in StatesAt(graph, Succ(graph, x)[s], 1)
    BY <2>1, <2>2, StatesGoOn
  <2>4. Succ(graph, x)[s] \in graph.reachable
    BY <2>1, GraphFacts
  <2> QED BY <2>3, <2>4
<1>5. graph.reachable \subseteq S
  <2> HIDE DEF S
  <2> QED BY <1>1, <1>2, <1>4, ReachedWithin
<1> HIDE DEF S
<1>6. \A x \in graph.reachable : x \in S
  BY <1>5
<1> QED BY <1>3, <1>6

-----------------------------------------------------------------------------
\* The invariant: the solver's states are explained by the walks.

\* What is asked of a graph.
Exact(g) == ReachedOnly(g) /\ WalksClosed(g) /\ CopiesForward(g)

EntriesExplained == \A x \in graph.reachable : Explained(in[x], StatesAt(graph, x, 1))

\* The last state of the block being stepped.
Here == IF pos <= NOps(blk) + 1 THEN pos ELSE NOps(blk) + 1

HereExplained ==
  (phase = "solve" /\ blk \in graph.reachable) => Explained(at[blk][Here], StatesAt(graph, blk, Here))

\* A block with an edge from an earlier one has been given a state, or will be
\* in this pass before its turn.
ForwardVisited ==
  \A x \in Forward(graph) :
    \/ Visited(in[x])
    \/ /\ phase = "solve"
       /\ \E y \in Forward(graph) : \E s \in DOMAIN Succ(graph, y) :
            y < x /\ Succ(graph, y)[s] = x /\ (y > blk \/ (y = blk /\ s >= EdgeNo))

HereVisited == (phase = "solve" /\ blk \in Forward(graph)) => Visited(at[blk][Here])

OnPaths(g) == ReportsOnPaths(g) \cup {<<Exit, 0, "refparam">> : p \in LeftMovedOnPaths(g)}
FoundOnPaths == (phase = "solve" => found = {}) /\ (converged => found \subseteq OnPaths(graph))

\* What an operation of the block makes of its last state.
LEMMA OpApplied ==
  ASSUME TypeOK, AtOp, ApplyOp
  PROVE  at'[blk][pos + 1] = Transfer(at[blk][pos], Ops(graph, blk)[pos]) /\ at[blk][pos] \in State
<1>1. /\ \A y \in BlocksOf(graph) : at[y] \in [1..(NOps(y) + 1) -> State]
      /\ at = [y \in BlocksOf(graph) |-> at[y]]
      /\ blk \in graph.reachable
  BY DEF TypeOK, AtOp
<1>2. /\ blk \in BlocksOf(graph) /\ NOps(blk) \in Nat
      /\ pos \in 1..NOps(blk) /\ pos \in 1..(NOps(blk) + 1) /\ pos + 1 \in 1..(NOps(blk) + 1)
  BY <1>1, Position
<1>3. at' = [at EXCEPT ![blk][pos + 1] = Transfer(at[blk][pos], Ops(graph, blk)[pos])]
  BY DEF ApplyOp
<1> QED BY <1>1, <1>2, <1>3

\* The state an edge out of the block brings.
LEMMA EdgeBrings ==
  ASSUME TypeOK, AtEdges, EdgeNo <= Len(Succ(graph, blk))
  PROVE  /\ Here = NOps(blk) + 1 /\ EndOf(blk) = at[blk][Here] /\ EndOf(blk) \in State
         /\ EdgeNo \in DOMAIN Succ(graph, blk) /\ Succ(graph, blk)[EdgeNo] \in graph.reachable
<1>1. /\ blk \in graph.reachable /\ blk \in BlocksOf(graph) /\ NOps(blk) \in Nat /\ EdgeNo \in Nat \ {0}
      /\ pos \in Nat /\ pos > NOps(blk) /\ NOps(blk) + 1 \in 1..(NOps(blk) + 1)
  BY Position DEF AtEdges
<1>2. Here = NOps(blk) + 1
  BY <1>1 DEF Here
<1>3. EdgeNo \in DOMAIN Succ(graph, blk)
  BY <1>1, GraphFacts DEF TypeOK
<1>4. Succ(graph, blk)[EdgeNo] \in graph.reachable
  BY <1>1, <1>3, GraphFacts DEF TypeOK
<1>5. at[blk][NOps(blk) + 1] \in State
  BY <1>1 DEF TypeOK
<1> QED BY <1>2, <1>3, <1>4, <1>5 DEF EndOf

LEMMA EntriesStep ==
  ASSUME TypeOK, Exact(graph), EntriesExplained, HereExplained, Check
  PROVE  EntriesExplained'
<1>1. graph' = graph
  BY GraphKept
<1>2. CASE JoinEdge
  <2> DEFINE dst  == Succ(graph, blk)[EdgeNo]
             edge == EdgeState(graph, blk, EdgeNo, EndOf(blk))
  <2>1. /\ phase = "solve" /\ AtEdges /\ EdgeNo <= Len(Succ(graph, blk)) /\ blk \in graph.reachable
        /\ in' = [in EXCEPT ![dst] = JoinState(in[dst], edge)]
    BY <1>2 DEF JoinEdge, AtEdges
  <2>2. /\ Here = NOps(blk) + 1 /\ EndOf(blk) = at[blk][Here] /\ EndOf(blk) \in State
        /\ EdgeNo \in DOMAIN Succ(graph, blk) /\ dst \in graph.reachable
    BY <2>1, EdgeBrings
  <2>3. Explained(EndOf(blk), StatesAt(graph, blk, NOps(blk) + 1))
    BY <2>1, <2>2 DEF HereExplained
  <2>4. /\ StatesAt(graph, blk, NOps(blk) + 1) \subseteq State
        /\ \A w \in StatesAt(graph, blk, NOps(blk) + 1) : EdgeState(graph, blk, EdgeNo, w) \in StatesAt(graph, dst, 1)
    <3>1. NOps(blk) + 1 \in 1..(NOps(blk) + 1)
      BY <2>1, Position
    <3> QED BY <2>1, <2>2, <3>1, StatesGoOn DEF Exact, TypeOK
  <2>5. Explained(edge, StatesAt(graph, dst, 1))
    BY <2>2, <2>3, <2>4, EdgeExplained
  <2> HIDE DEF edge, dst
  <2>6. Explained(JoinState(in[dst], edge), StatesAt(graph, dst, 1))
    BY <2>2, <2>5, JoinExplained DEF EntriesExplained
  <2>7. \A x \in graph.reachable : in'[x] = IF x = dst THEN JoinState(in[dst], edge) ELSE in[x]
    BY <2>1, BlocksInOrder DEF TypeOK
  <2> QED BY <1>1, <2>6, <2>7 DEF EntriesExplained
<1>3. CASE ~JoinEdge
  <2>1. in' = in
    BY <1>3 DEF Check, SolverNext, SkipUnreachable, StepOp, LeaveBlock, EndPass, ReportOp,
                ReportBlockDone, ReportDone
  <2> QED BY <1>1, <2>1 DEF EntriesExplained
<1> QED BY <1>2, <1>3

\* A block gone to starts from its entry state.
LEMMA HereAtEntry ==
  ASSUME TypeOK, Check, NEW x, GotoBlock(x), x \in graph.reachable
  PROVE  blk' = x /\ Here' = 1 /\ at'[x][1] = in[x]
<1>1. blk' = x /\ pos' = 1 /\ at'[x][1] = in[x]
  BY GotoKept, BlocksInOrder DEF GotoBlock
<1>2. NOps(blk)' = NOps(x) /\ NOps(x) \in Nat
  <2>1. x \in BlocksOf(graph)
    BY BlocksInOrder
  <2> QED BY <1>1, <2>1, GraphKept, GraphFacts DEF NOps, TypeOK
<1> QED BY <1>1, <1>2 DEF Here

\* What a step of the passes does to the state of the block.
LEMMA HereStep ==
  ASSUME TypeOK, Check, phase = "solve", phase' = "solve", blk' \in graph.reachable
  PROVE  \/ Here' = 1 /\ at'[blk'][Here'] = in[blk'] /\ GotoBlock(blk')
         \/ /\ StepOp /\ blk' = blk /\ Here = pos /\ Here' = pos + 1 /\ pos \in 1..NOps(blk)
            /\ at[blk][pos] \in State
            /\ at'[blk][pos + 1] = Transfer(at[blk][pos], Ops(graph, blk)[pos])
         \/ JoinEdge /\ blk' = blk /\ at' = at /\ Here' = Here
<1>1. CASE \E x : GotoBlock(x)
  <2>1. PICK x : GotoBlock(x)
    BY <1>1
  <2>2. blk' = x
    BY <2>1 DEF GotoBlock
  <2> QED BY <2>1, <2>2, HereAtEntry
<1>2. CASE StepOp
  <2>1. AtOp /\ ApplyOp /\ blk' = blk /\ pos' = pos + 1
    BY <1>2 DEF StepOp
  <2>2. blk \in graph.reachable /\ pos \in 1..NOps(blk) /\ NOps(blk) \in Nat
    BY <2>1, Position DEF AtOp
  <2>3. NOps(blk)' = NOps(blk)
    BY <2>1, GraphKept DEF NOps
  <2>4. Here = pos /\ Here' = pos + 1
    BY <2>1, <2>2, <2>3 DEF Here
  <2> QED BY <1>2, <2>1, <2>2, <2>4, OpApplied
<1>3. CASE JoinEdge
  <2>1. at' = at /\ blk' = blk /\ pos' = pos + 1 /\ AtEdges
    BY <1>3 DEF JoinEdge
  <2>2. NOps(blk)' = NOps(blk)
    BY <2>1, GraphKept DEF NOps
  <2>3. blk \in graph.reachable /\ NOps(blk) \in Nat /\ pos \in Nat /\ pos > NOps(blk)
    BY <2>1, Position DEF AtEdges
  <2>4. Here' = Here
    BY <2>1, <2>2, <2>3 DEF Here
  <2> QED BY <1>3, <2>1, <2>4
<1>4. SkipUnreachable \/ LeaveBlock \/ EndPass => \E x : GotoBlock(x)
  BY DEF SkipUnreachable, LeaveBlock, EndPass
<1>5. ~ReportOp /\ ~ReportBlockDone /\ ~ReportDone
  BY DEF ReportOp, ReportBlockDone, ReportDone
<1> QED BY <1>1, <1>2, <1>3, <1>4, <1>5 DEF Check, SolverNext

\* The passes start, and never come back.
LEMMA SolveBefore == Check /\ phase' = "solve" => phase = "solve"
BY DEF Check, SolverNext, SkipUnreachable, StepOp, JoinEdge, LeaveBlock, EndPass,
       ReportOp, ReportBlockDone, ReportDone

LEMMA HereExplainedStep ==
  ASSUME TypeOK, Exact(graph), EntriesExplained, HereExplained, HereVisited, Check
  PROVE  HereExplained'
<1> SUFFICES ASSUME phase' = "solve", blk' \in graph.reachable
             PROVE  Explained(at'[blk'][Here'], StatesAt(graph, blk', Here'))
  BY GraphKept DEF HereExplained
<1>1. phase = "solve"
  BY SolveBefore
<1>2. CASE Here' = 1 /\ at'[blk'][Here'] = in[blk']
  BY <1>2 DEF EntriesExplained
<1>3. CASE /\ blk' = blk /\ Here = pos /\ Here' = pos + 1 /\ pos \in 1..NOps(blk)
           /\ at'[blk][pos + 1] = Transfer(at[blk][pos], Ops(graph, blk)[pos])
  <2> DEFINE op == Ops(graph, blk)[pos]
  <2>1. Explained(at[blk][pos], StatesAt(graph, blk, pos))
    BY <1>1, <1>3 DEF HereExplained
  <2>2. \A w \in StatesAt(graph, blk, pos) : Transfer(w, op) \in StatesAt(graph, blk, pos + 1)
    BY <1>3, StatesGoOn DEF Exact, TypeOK
  <2>3. CopiesFact(op) => Visited(at[blk][pos]) /\ (op.op = "Eval" => IsPlace(op.node.target))
    <3>1. pos \in DOMAIN Ops(graph, blk)
      BY <1>3, BlocksInOrder, GraphFacts DEF TypeOK
    <3>2. CopiesFact(op) => blk \in Forward(graph) /\ (op.op = "Eval" => IsPlace(op.node.target))
      BY <1>3, <3>1 DEF Exact, CopiesForward
    <3> QED BY <1>1, <1>3, <3>2 DEF HereVisited
  <2> HIDE DEF op
  <2>4. Explained(Transfer(at[blk][pos], op), StatesAt(graph, blk, pos + 1))
    BY <2>1, <2>2, <2>3, TransferExplained
  <2> QED BY <1>3, <2>4 DEF op
<1>4. CASE blk' = blk /\ at' = at /\ Here' = Here
  BY <1>1, <1>4 DEF HereExplained
<1> QED BY <1>1, <1>2, <1>3, <1>4, HereStep

\* Where an edge counts from in a block just gone to.
LEMMA FirstEdge ==
  ASSUME TypeOK, NEW x \in graph.reachable, NEW s \in DOMAIN Succ(graph, x)
  PROVE  s >= 1 - NOps(x) /\ s \in 1..Len(Succ(graph, x)) /\ Len(Succ(graph, x)) \in Nat /\ NOps(x) \in Nat
<1>1. x \in BlocksOf(graph) /\ prog \in DOMAIN Programs
  BY BlocksInOrder DEF TypeOK
<1>2. NOps(x) \in Nat /\ s \in 1..Len(Succ(graph, x)) /\ Len(Succ(graph, x)) \in Nat
  BY <1>1, GraphFacts
<1> QED BY <1>2

LEMMA ForwardVisitedStep ==
  ASSUME TypeOK, ForwardVisited, HereVisited, Check
  PROVE  ForwardVisited'
<1>1. graph' = graph /\ \A x : NOps(x)' = NOps(x)
  BY GraphKept
<1>2. /\ Forward(graph) \subseteq graph.reachable
      /\ blk \in Nat /\ Len(graph.blocks) \in Nat /\ blk <= Len(graph.blocks) + 1
      /\ BlocksOf(graph) = 1..Len(graph.blocks) /\ graph.reachable \subseteq BlocksOf(graph)
  BY BlocksInOrder, ForwardFacts
<1> DEFINE Later(x, b, e) == \E y \in Forward(graph) : \E s \in DOMAIN Succ(graph, y) :
                               y < x /\ Succ(graph, y)[s] = x /\ (y > b \/ (y = b /\ s >= e))
<1> SUFFICES ASSUME NEW x \in Forward(graph)
             PROVE  Visited(in'[x]) \/ (phase' = "solve" /\ Later(x, blk', pos' - NOps(blk')))
  BY <1>1 DEF ForwardVisited, EdgeNo, NOps
<1>3. CASE Visited(in[x])
  <2>1. CASE JoinEdge
    <3> DEFINE dst  == Succ(graph, blk)[EdgeNo]
               edge == EdgeState(graph, blk, EdgeNo, EndOf(blk))
    <3>1. in' = [in EXCEPT ![dst] = JoinState(in[dst], edge)]
      BY <2>1 DEF JoinEdge
    <3> HIDE DEF dst, edge
    <3>2. in'[x] = IF x = dst THEN JoinState(in[x], edge) ELSE in[x]
      BY <1>2, <3>1 DEF TypeOK
    <3> QED BY <1>3, <3>2, JoinVisited
  <2>2. CASE ~JoinEdge
    <3>1. in' = in
      BY <2>2 DEF Check, SolverNext, SkipUnreachable, StepOp, LeaveBlock, EndPass, ReportOp,
                  ReportBlockDone, ReportDone
    <3> QED BY <1>3, <3>1
  <2> QED BY <2>1, <2>2
<1>4. CASE ~Visited(in[x])
  <2>1. phase = "solve"
    BY <1>4 DEF ForwardVisited
  <2>a. PICK y \in Forward(graph) : \E s \in DOMAIN Succ(graph, y) :
          y < x /\ Succ(graph, y)[s] = x /\ (y > blk \/ (y = blk /\ s >= EdgeNo))
    BY <1>4 DEF ForwardVisited
  <2>2. PICK s \in DOMAIN Succ(graph, y) :
          y < x /\ Succ(graph, y)[s] = x /\ (y > blk \/ (y = blk /\ s >= EdgeNo))
    BY <2>a
  <2>3. /\ y \in graph.reachable /\ y \in BlocksOf(graph) /\ y \in Nat /\ y <= Len(graph.blocks)
        /\ NOps(y) \in Nat /\ s \in 1..Len(Succ(graph, y)) /\ Len(Succ(graph, y)) \in Nat
        /\ s >= 1 - NOps(y)
    BY <1>2, <2>2, FirstEdge
  <2>4. ASSUME GotoBlock(blk + 1), phase' = "solve", y # blk
        PROVE  phase' = "solve" /\ Later(x, blk', pos' - NOps(blk'))
    <3>1. blk' = blk + 1 /\ pos' = 1
      BY <2>4 DEF GotoBlock
    <3>2. y > blk' \/ (y = blk' /\ s >= pos' - NOps(blk'))
      BY <1>2, <2>2, <2>3, <2>4, <3>1
    <3> QED BY <2>2, <2>4, <3>2
  <2>5. CASE SkipUnreachable
    BY <2>1, <2>3, <2>4, <2>5 DEF SkipUnreachable
  <2>6. CASE LeaveBlock
    <3>1. y # blk
      <4>1. EdgeNo > Len(Succ(graph, blk)) /\ (blk \in graph.reachable => EdgeNo \in Nat)
        BY <2>6, Position DEF LeaveBlock
      <4> QED BY <2>2, <2>3, <4>1
    <3> QED BY <2>4, <2>6, <3>1 DEF LeaveBlock
  <2>7. CASE EndPass
    <3>1. blk \notin BlocksOf(graph) /\ blk \in 1..(Len(graph.blocks) + 1)
      BY <2>7 DEF EndPass, TypeOK
    <3> QED BY <1>2, <2>2, <2>3, <3>1
  <2>8. CASE StepOp
    <3>1. blk' = blk /\ pos' = pos + 1 /\ phase' = "solve" /\ AtOp
      BY <2>1, <2>8 DEF StepOp
    <3>2. y = blk => s >= pos' - NOps(blk')
      <4>1. pos \in 1..NOps(blk) /\ NOps(blk) \in Nat
        BY <3>1, Position DEF AtOp
      <4> QED BY <2>3, <3>1, <4>1
    <3>3. y > blk' \/ (y = blk' /\ s >= pos' - NOps(blk'))
      BY <2>2, <3>1, <3>2
    <3> QED BY <2>2, <3>1, <3>3
  <2>9. CASE JoinEdge
    <3> DEFINE dst  == Succ(graph, blk)[EdgeNo]
               edge == EdgeState(graph, blk, EdgeNo, EndOf(blk))
    <3>1. /\ blk' = blk /\ pos' = pos + 1 /\ phase' = "solve" /\ AtEdges /\ EdgeNo <= Len(Succ(graph, blk))
          /\ in' = [in EXCEPT ![dst] = JoinState(in[dst], edge)]
      BY <2>1, <2>9 DEF JoinEdge
    <3>2. EdgeNo \in Nat /\ pos \in Nat /\ NOps(blk) \in Nat /\ pos' - NOps(blk') = EdgeNo + 1
      BY <3>1, Position DEF AtEdges, EdgeNo
    <3>3. CASE y = blk /\ s = EdgeNo
      <4>1. /\ EndOf(blk) = at[blk][Here] /\ EndOf(blk) \in State
        BY <3>1, EdgeBrings
      <4>2. Visited(EndOf(blk))
        BY <2>1, <2>2, <3>3, <4>1 DEF HereVisited
      <4>3. Visited(edge)
        BY <4>1, <4>2, EdgeCovers DEF Visited
      <4>4. x = dst
        BY <2>2, <3>3
      <4> HIDE DEF edge, dst
      <4>5. in'[x] = JoinState(in[x], edge)
        BY <1>2, <3>1, <4>4 DEF TypeOK
      <4> QED BY <4>3, <4>5, JoinVisited
    <3>4. CASE ~(y = blk /\ s = EdgeNo)
      <4>1. y > blk' \/ (y = blk' /\ s >= pos' - NOps(blk'))
        BY <2>2, <2>3, <3>1, <3>2, <3>4
      <4> QED BY <2>2, <3>1, <4>1
    <3> QED BY <3>3, <3>4
  <2>10. ~ReportOp /\ ~ReportBlockDone /\ ~ReportDone
    BY <2>1 DEF ReportOp, ReportBlockDone, ReportDone
  <2> QED BY <2>5, <2>6, <2>7, <2>8, <2>9, <2>10 DEF Check, SolverNext
<1> QED BY <1>3, <1>4

LEMMA HereVisitedStep ==
  ASSUME TypeOK, ForwardVisited', HereVisited, Check
  PROVE  HereVisited'
<1> SUFFICES ASSUME phase' = "solve", blk' \in Forward(graph) PROVE Visited(at'[blk'][Here'])
  BY GraphKept DEF HereVisited
<1>1. phase = "solve" /\ graph' = graph
  BY SolveBefore, GraphKept
<1>2. blk' \in graph.reachable /\ graph.reachable \subseteq BlocksOf(graph)
      /\ BlocksOf(graph) = 1..Len(graph.blocks)
  BY ForwardFacts, BlocksInOrder
<1>3. CASE Here' = 1 /\ at'[blk'][Here'] = in[blk'] /\ GotoBlock(blk')
  <2>1. pos' = 1
    BY <1>3 DEF GotoBlock
  <2>2. pos \in Nat \ {0}
    BY DEF TypeOK
  <2>3. in' = in
    <3>1. ~JoinEdge
      BY <2>1, <2>2 DEF JoinEdge
    <3> QED BY <3>1 DEF Check, SolverNext, SkipUnreachable, StepOp, LeaveBlock, EndPass, ReportOp,
                        ReportBlockDone, ReportDone
  <2>4. Visited(in'[blk'])
    <3>1. \A y \in Forward(graph) : y \in Nat
      BY <1>2, ForwardFacts, BlocksInOrder
    <3>2. ~ \E y \in Forward(graph) : y < blk' /\ (y > blk' \/ y = blk')
      BY <3>1
    <3> QED BY <1>1, <3>2 DEF ForwardVisited
  <2> QED BY <1>3, <2>3, <2>4
<1>4. CASE /\ blk' = blk /\ Here = pos /\ Here' = pos + 1 /\ at[blk][pos] \in State
           /\ at'[blk][pos + 1] = Transfer(at[blk][pos], Ops(graph, blk)[pos])
  BY <1>1, <1>4, OpCovers DEF HereVisited, Visited
<1>5. CASE blk' = blk /\ at' = at /\ Here' = Here
  BY <1>1, <1>5 DEF HereVisited
<1> QED BY <1>1, <1>2, <1>3, <1>4, <1>5, HereStep

\* At a fixpoint every state is explained, and some walk is there.
LEMMA FixpointExplained ==
  ASSUME TypeOK, IsFixpoint, EntryAbsorbs, converged, Exact(graph), EntriesExplained, NEW x \in graph.reachable
  PROVE  \A j \in 1..(NOps(x) + 1) :
           /\ at[x][j] \in State /\ StatesAt(graph, x, j) # {}
           /\ Explained(at[x][j], StatesAt(graph, x, j)) /\ Visited(at[x][j])
<1>1. /\ x \in BlocksOf(graph) /\ NOps(x) \in Nat /\ prog \in DOMAIN Programs /\ Len(Ops(graph, x)) = NOps(x)
      /\ DOMAIN Ops(graph, x) = 1..NOps(x)
  BY BlocksInOrder, GraphFacts DEF TypeOK, NOps
<1>2. \A j \in 1..(NOps(x) + 1) : at[x][j] \in State
  BY <1>1 DEF TypeOK
<1>3. at[x][1] = in[x] /\ \A j \in 1..NOps(x) : at[x][j + 1] = Transfer(at[x][j], Ops(graph, x)[j])
  <2>1. Stepped(graph, at, in, x, NOps(x) + 1)
    BY <1>1 DEF IsFixpoint, Settled
  <2>2. \A j \in 1..NOps(x) : j < NOps(x) + 1
    BY <1>1
  <2> QED BY <1>1, <2>1, <2>2 DEF Stepped
<1>4. ASSUME NEW j \in 1..(NOps(x) + 1)
      PROVE  StatesAt(graph, x, j) # {} /\ Visited(at[x][j])
  <2>1. StatesAt(graph, x, j) # {}
    BY <1>1, StatesThere DEF Exact
  <2>2. PICK w \in Walks(graph) : w.blk = x /\ w.pos = j
    BY <2>1 DEF StatesAt
  <2>3. Covers(at[x][j], w.st)
    BY <2>2, WalksCovered DEF Covered
  <2> QED BY <2>1, <2>3 DEF Visited, Covers, PlacesCover, FactsCover
<1> DEFINE In == {n \in 0..NOps(x) : Explained(at[x][n + 1], StatesAt(graph, x, n + 1))}
<1>5. 0 \in In
  BY <1>1, <1>3 DEF EntriesExplained
<1>6. ASSUME NEW n \in 0..(NOps(x) - 1), n \in In PROVE n + 1 \in In
  <2> DEFINE j  == n + 1
             op == Ops(graph, x)[j]
  <2>1. j \in 1..NOps(x) /\ j \in 0..NOps(x) /\ j \in 1..(NOps(x) + 1)
    BY <1>1
  <2>2. Explained(at[x][j], StatesAt(graph, x, j))
    BY <1>6
  <2>3. \A w \in StatesAt(graph, x, j) : Transfer(w, op) \in StatesAt(graph, x, j + 1)
    BY <1>1, <2>1, StatesGoOn DEF Exact
  <2>4. CopiesFact(op) => Visited(at[x][j]) /\ (op.op = "Eval" => IsPlace(op.node.target))
    BY <1>1, <1>4, <2>1 DEF Exact, CopiesForward
  <2>5. at[x][j + 1] = Transfer(at[x][j], op)
    BY <1>3, <2>1
  <2> HIDE DEF op, j
  <2>6. Explained(at[x][j + 1], StatesAt(graph, x, j + 1))
    BY <2>2, <2>3, <2>4, <2>5, TransferExplained
  <2> QED BY <2>1, <2>6 DEF j
<1> HIDE DEF In
<1>7. 0..NOps(x) \subseteq In
  BY <1>1, <1>5, <1>6, BoundedInduction
<1>8. ASSUME NEW j \in 1..(NOps(x) + 1) PROVE Explained(at[x][j], StatesAt(graph, x, j))
  <2>1. j - 1 \in 0..NOps(x) /\ (j - 1) + 1 = j
    BY <1>1
  <2>2. j - 1 \in In
    BY <1>7, <2>1
  <2> QED BY <2>1, <2>2 DEF In
<1> QED BY <1>2, <1>4, <1>8

LEMMA FoundStep ==
  ASSUME TypeOK, PhaseInv, IsFixpoint, EntryAbsorbs, Exact(graph), EntriesExplained, FoundOnPaths, Check
  PROVE  FoundOnPaths'
<1>1. graph' = graph
  BY GraphKept
<1>2. CASE ReportOp
  <2>1. /\ phase = "report" /\ phase' = "report" /\ AtOp /\ converged' = converged
        /\ found' = found \cup {<<blk, pos, kind>> : kind \in Reports(at[blk][pos], Ops(graph, blk)[pos])}
    BY <1>2 DEF ReportOp
  <2>2. /\ blk \in graph.reachable /\ pos \in 1..NOps(blk) /\ pos \in 1..(NOps(blk) + 1)
        /\ NOps(blk) \in Nat /\ NOps(blk) = Len(Ops(graph, blk))
    BY <2>1, Position DEF AtOp, NOps
  <2>3. ASSUME converged, NEW kind \in Reports(at[blk][pos], Ops(graph, blk)[pos])
        PROVE  <<blk, pos, kind>> \in OnPaths(graph)
    <3>1. \E u \in StatesAt(graph, blk, pos) : kind \in Reports(u, Ops(graph, blk)[pos])
      BY <2>2, <2>3, FixpointExplained, ReportsExplained
    <3>2. PICK w \in Walks(graph) : /\ w.blk = blk /\ w.pos = pos
                                    /\ kind \in Reports(w.st, Ops(graph, blk)[pos])
      BY <3>1 DEF StatesAt
    <3>3. w.pos <= Len(Ops(graph, w.blk)) /\ kind \in Reports(w.st, Ops(graph, w.blk)[w.pos])
      BY <2>2, <3>2
    <3>4. <<blk, pos, kind>> \in {<<w.blk, w.pos, k>> : k \in Reports(w.st, Ops(graph, w.blk)[w.pos])}
      BY <3>2, <3>3
    <3>5. <<blk, pos, kind>> \in ReportsOnPaths(graph)
      BY <3>3, <3>4 DEF ReportsOnPaths
    <3> QED BY <3>5 DEF OnPaths
  <2> QED BY <1>1, <2>1, <2>3 DEF FoundOnPaths
<1>3. CASE ReportDone
  <2>1. /\ phase = "report" /\ phase' = "done" /\ converged' = converged
        /\ found' = found \cup {<<Exit, 0, "refparam">> : p \in NotRestored}
    BY <1>3 DEF ReportDone
  <2>2. ASSUME converged, NEW q \in NotRestored PROVE <<Exit, 0, "refparam">> \in OnPaths(graph)
    <3>1. Exit \in graph.reachable /\ q \in Paths /\ q[1] \in graph.refParams /\ in[Exit].place[q] \in {Moved, Maybe}
      BY <2>2 DEF NotRestored
    <3>2. PICK u \in StatesAt(graph, Exit, 1), v \in StatesAt(graph, Exit, 1) :
            Between(in[Exit].place[q], u.place[q], v.place[q])
      BY <3>1 DEF EntriesExplained, Explained
    <3>3. PICK w \in StatesAt(graph, Exit, 1) : w.place[q] # Live
      BY <3>1, <3>2 DEF Between, Live, Moved, Maybe, Unvisited
    <3>4. PICK z \in Walks(graph) : z.blk = Exit /\ z.pos = 1 /\ z.st = w
      BY <3>3 DEF StatesAt
    <3>5. z.st.place[q] = Moved
      BY <3>1, <3>3, <3>4, WalksTyped DEF AnyWalk, TypeOK
    <3>6. q \in LeftMovedOnPaths(graph)
      BY <3>1, <3>4, <3>5 DEF LeftMovedOnPaths
    <3> QED BY <3>6 DEF OnPaths
  <2> QED BY <1>1, <2>1, <2>2 DEF FoundOnPaths
<1>4. CASE EndPass
  BY <1>1, <1>4 DEF EndPass, FoundOnPaths
<1>5. CASE ~ReportOp /\ ~ReportDone /\ ~EndPass
  <2>1. found' = found /\ converged' = converged /\ phase' = phase
    BY <1>5 DEF Check, SolverNext, SkipUnreachable, StepOp, JoinEdge, LeaveBlock, ReportBlockDone
  <2> QED BY <1>1, <2>1 DEF FoundOnPaths
<1> QED BY <1>2, <1>3, <1>4, <1>5

PathInv == EntriesExplained /\ HereExplained /\ ForwardVisited /\ HereVisited /\ FoundOnPaths

LEMMA PathInit ==
  ASSUME Init, Exact(graph)
  PROVE  PathInv
<1>1. /\ TypeOK /\ phase = "solve" /\ blk = 1 /\ pos = 1 /\ found = {} /\ ~converged
      /\ \A x \in BlocksOf(graph) : in[x] = Everywhere(IF x = Entry THEN Live ELSE Unvisited)
      /\ \A x \in BlocksOf(graph) : at[x] = [j \in 1..(NOps(x) + 1) |->
             IF x = Entry /\ j = 1 THEN in[Entry] ELSE Everywhere(Unvisited)]
  BY TypeInit DEF Init, SolverInit
<1>2. /\ prog \in DOMAIN Programs /\ graph.reachable \subseteq BlocksOf(graph) /\ 1 \in graph.reachable
      /\ \A x \in graph.reachable : NOps(x) \in Nat
  BY <1>1, BlocksInOrder, GraphFacts DEF TypeOK
<1>3. ASSUME NEW x \in graph.reachable PROVE Explained(in[x], StatesAt(graph, x, 1))
  <2>1. StatesAt(graph, x, 1) # {}
    BY <1>2, <1>3, StatesThere DEF Exact
  <2>2. CASE x # Entry
    <3>1. in[x] = Everywhere(Unvisited)
      BY <1>1, <1>2, <2>2
    <3>2. /\ \A p \in Paths : in[x].place[p] = Unvisited
          /\ \A k \in FactKeys : in[x].fs.fact[k] = Unvisited
          /\ \A r \in Refs : in[x].fs.ref[r] = Unvisited
      BY <3>1 DEF Everywhere
    <3> QED BY <2>1, <3>2 DEF Explained, Between
  <2>3. CASE x = Entry
    <3>1. in[x] = Everywhere(Live)
      BY <1>1, <1>2, <2>3
    <3>2. Everywhere(Live) \in StatesAt(graph, x, 1)
      <4>1. Start \in Walks(graph) /\ Start.blk = Entry /\ Start.pos = 1 /\ Start.st = Everywhere(Live)
        BY <1>2, WalksTyped DEF Start
      <4> QED BY <2>3, <4>1 DEF StatesAt
    <3> QED BY <3>1, <3>2 DEF Explained, Between
  <2> QED BY <2>2, <2>3
<1>4. Here = 1 /\ at[1][1] = in[1] /\ Entry = 1
  <2>1. NOps(1) \in Nat /\ 1 \in BlocksOf(graph) /\ 1 \in 1..(NOps(1) + 1) /\ Entry = 1
    BY <1>2 DEF Entry
  <2>2. 1 <= NOps(1) + 1
    BY <2>1
  <2>3. Here = 1
    BY <1>1, <2>2 DEF Here
  <2>4. at[1][1] = in[1]
    BY <1>1, <2>1
  <2> QED BY <2>1, <2>3, <2>4
<1>5. Visited(in[1])
  <2>1. in[1] = Everywhere(Live)
    BY <1>1, <1>2, <1>4
  <2> QED BY <2>1 DEF Visited, Covers, PlacesCover, FactsCover, Everywhere, Live, Unvisited
<1>6. ForwardVisited
  <2> SUFFICES ASSUME NEW x \in Forward(graph), x # 1
               PROVE \E y \in Forward(graph) : \E s \in DOMAIN Succ(graph, y) :
                       y < x /\ Succ(graph, y)[s] = x /\ (y > blk \/ (y = blk /\ s >= EdgeNo))
    BY <1>1, <1>5 DEF ForwardVisited
  <2>a. PICK y \in Forward(graph) : \E s \in DOMAIN Succ(graph, y) : y < x /\ Succ(graph, y)[s] = x
    BY <1>1, <1>4, ForwardFacts, BlocksInOrder
  <2>1. PICK s \in DOMAIN Succ(graph, y) : y < x /\ Succ(graph, y)[s] = x
    BY <2>a
  <2>2. y \in graph.reachable /\ y \in Nat /\ y >= 1
    BY <1>1, <2>1, ForwardFacts, BlocksInOrder
  <2>3. y = 1 => s >= EdgeNo
    BY <1>1, <2>1, <2>2, FirstEdge DEF EdgeNo
  <2> QED BY <1>1, <2>1, <2>2, <2>3
<1>7. HereExplained /\ HereVisited /\ FoundOnPaths
  BY <1>1, <1>2, <1>3, <1>4, <1>5 DEF HereExplained, HereVisited, FoundOnPaths
<1> QED BY <1>3, <1>6, <1>7 DEF PathInv, EntriesExplained

LEMMA PathStep ==
  ASSUME TypeOK, IInv, [Next]_vars, Exact(graph), PathInv
  PROVE  PathInv'
<1>1. /\ EntriesExplained /\ HereExplained /\ ForwardVisited /\ HereVisited /\ FoundOnPaths
      /\ PhaseInv /\ IsFixpoint /\ EntryAbsorbs
  BY DEF PathInv, IInv
<1>2. CASE Check
  <2>1. ForwardVisited'
    BY <1>1, <1>2, ForwardVisitedStep
  <2> QED BY <1>1, <1>2, <2>1, EntriesStep, HereExplainedStep, HereVisitedStep, FoundStep DEF PathInv
<1>3. CASE StartRun \/ RunOp \/ RunEdge \/ UNCHANGED vars
  <2>1. UNCHANGED solverVars /\ graph' = graph /\ \A x : NOps(x)' = NOps(x)
    BY <1>3 DEF StartRun, RunOp, RunEdge, vars, solverVars, graph, NOps
  <2>2. Here' = Here /\ EdgeNo' = EdgeNo
    BY <2>1 DEF solverVars, Here, EdgeNo, NOps
  <2>3. EntriesExplained'
    BY <1>1, <2>1 DEF solverVars, EntriesExplained
  <2>4. HereExplained' /\ HereVisited'
    BY <1>1, <2>1, <2>2 DEF solverVars, HereExplained, HereVisited
  <2>5. ForwardVisited'
    BY <1>1, <2>1, <2>2 DEF solverVars, ForwardVisited
  <2>6. FoundOnPaths'
    BY <1>1, <2>1 DEF solverVars, FoundOnPaths
  <2> QED BY <2>3, <2>4, <2>5, <2>6 DEF PathInv
<1> QED BY <1>2, <1>3 DEF Next

\* The join, the passes and the order of the blocks invent nothing: once the
\* passes settle, whatever is reported some path through the function calls for
\* (SolveEntryStates, ReportMoveFacts, CheckRefParamsRestored).  The function
\* has no block but those a path reaches, MaxWalk steps are enough for all its
\* walks, and facts are copied only where the first pass has one to copy.
THEOREM ReportsOnlyPathsHolds ==
  Spec => [](converged /\ Exact(graph) => ReportsOnlyPaths)
<1>1. Init => (Exact(graph) => PathInv)
  BY PathInit
<1>2. TypeOK /\ IInv /\ [Next]_vars /\ (Exact(graph) => PathInv) => (Exact(graph) => PathInv)'
  <2>1. [Next]_vars => graph' = graph
    <3>1. Check => graph' = graph
      BY GraphKept
    <3>2. StartRun \/ RunOp \/ RunEdge \/ UNCHANGED vars => graph' = graph
      BY DEF StartRun, RunOp, RunEdge, vars, solverVars, graph
    <3> QED BY <3>1, <3>2 DEF Next
  <2>2. [Next]_vars /\ Exact(graph)' => Exact(graph)
    BY <2>1
  <2> QED BY <2>2, PathStep
<1>3. ASSUME converged, Exact(graph), Exact(graph) => PathInv PROVE ReportsOnlyPaths
  <2>1. found \subseteq OnPaths(graph)
    BY <1>3 DEF PathInv, FoundOnPaths
  <2>2. \A row \in PathReports : row.fn = prog => row.reports = OnPaths(graph)
    BY DEF PathReports, OnPaths, graph
  <2> QED BY <2>1, <2>2 DEF ReportsOnlyPaths
<1>4. Spec => [](Exact(graph) => PathInv)
  BY <1>1, <1>2, TypeCorrect, Inductive, PTL DEF Spec
<1> QED BY <1>3, <1>4, PTL
=============================================================================
