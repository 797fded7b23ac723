----------------------------- MODULE MoveSolver -----------------------------
(***************************************************************************)
(* The move checker's dataflow (src/src/Sema/MoveCheck/MoveCheck.c):       *)
(* SolveEntryStates finds the state of every block's entry by passing over *)
(* the blocks in the order they were allocated until a pass changes        *)
(* nothing, or MaxPass passes have run; ReportMoveFacts then walks every   *)
(* reachable block once more from its entry state and reports.             *)
(*                                                                         *)
(* One step of the model is one operation of a block, or one edge out of   *)
(* it.  The code keeps the state it steps in one buffer; `at` remembers    *)
(* every state it held, and `converged` whether the loop ended because a   *)
(* pass changed nothing: the properties speak of both.                     *)
(***************************************************************************)
EXTENDS Facts, FiniteSets

CONSTANTS Programs,   \* the functions checked, by name: the graph [blocks, reachable] CfgBuild
                      \* makes; refParams, the mutable `ref` parameters to be restored; for
                      \* a run, names, the variables it mentions
          MaxPass     \* 64

BlocksOf(g)    == DOMAIN g.blocks
Ops(g, x)      == g.blocks[x].ops
Succ(g, x)     == g.blocks[x].succ

IsSeq(s) == Len(s) \in Nat /\ s = [i \in 1..Len(s) |-> s[i]]

\* What MarkReachable and AddEdge make true of every graph.
WellFormed(g) ==
  /\ BlocksOf(g) = 1..Len(g.blocks) /\ Len(g.blocks) >= Exit
  /\ Entry \in g.reachable /\ g.reachable \subseteq BlocksOf(g)
  /\ \A x \in BlocksOf(g) : \A s \in DOMAIN Succ(g, x) : Succ(g, x)[s] \in BlocksOf(g)
  /\ \A x \in g.reachable : \A s \in DOMAIN Succ(g, x) : Succ(g, x)[s] \in g.reachable
  /\ \A x \in BlocksOf(g) : IsSeq(Ops(g, x)) /\ IsSeq(Succ(g, x))
  /\ Ops(g, Exit) = <<>> /\ Succ(g, Exit) = <<>>

ASSUME ProgramsAssumption == \A p \in DOMAIN Programs : WellFormed(Programs[p])
ASSUME MaxPassAssumption == MaxPass \in Nat \ {0}

-----------------------------------------------------------------------------
\* States.  `place` holds a PlaceState per tracked path, `fs` the fact state.

FactState == [fact : [FactKeys -> FactStates], ref : [Refs -> PlaceStates]]
State     == [place : [Paths -> PlaceStates], fs : FactState]

Everywhere(v) == [place |-> [p \in Paths |-> v],
                  fs |-> [fact |-> [k \in FactKeys |-> v], ref |-> [r \in Refs |-> v]]]

JoinState(x, y) ==
  [place |-> [p \in Paths |-> Join(x.place[p], y.place[p])],
   fs |-> [fact |-> [k \in FactKeys |-> Join(x.fs.fact[k], y.fs.fact[k])],
           ref  |-> [r \in Refs |-> Join(x.fs.ref[r], y.fs.ref[r])]]]

\* A use of a tracked place: a variable is used whole, and so is what is moved.
UsesPlace(op)  == op.op = "Eval" /\ op.node.kind = "Place" /\ TrackedPlace(op.node)
WholeUse(op)   == Len(op.node.path) = 1 \/ op.consumed
MovesPlace(op) == /\ op.consumed /\ ~op.node.copied
                  /\ ~op.node.ty.opt /\ op.node.ty.owns

WritesPlace(op) == /\ op.op = "Eval" /\ op.node.kind = "Assign"
                   /\ TrackedPlace(op.node.target)

PlaceStep(state, op) ==
  CASE op.op = "Declare" -> SetPlace(state, <<op.node.name>>, Live)
    [] UsesPlace(op)     -> IF MovesPlace(op) THEN SetPlace(state, op.node.path, Moved) ELSE state
    [] WritesPlace(op)   -> SetPlace(state, op.node.target.path, Live)
    [] OTHER -> state

Transfer(st, op) == [place |-> PlaceStep(st.place, op), fs |-> FactStep(st.fs, op)]

\* What an edge out of a block ending on a condition adds (ApplyCond); the end
\* of a loop proves no place empty.
ApplyCond(fs, proves, loopExit) ==
  [fs EXCEPT !.fact = [k \in FactKeys |->
     IF k \notin DOMAIN proves THEN fs.fact[k]
     ELSE IF proves[k] THEN FactNonEmpty ELSE IF loopExit THEN FactNone ELSE FactEmpty]]

EdgeState(g, x, s, st) ==
  LET ops  == Ops(g, x)
      last == ops[Len(ops)]
  IN  IF ops # <<>> /\ last.op = "Condition"
        THEN [st EXCEPT !.fs = ApplyCond(@, last.proves[s], g.blocks[x].loopCond /\ s = 2)]
        ELSE st

-----------------------------------------------------------------------------
\* What is reported of an operation in the state before it.

MoveReport(st, op) ==
  \/ UsesPlace(op) /\ PlaceBlocker(st, op.node.path, WholeUse(op)) # {}
  \* Writing a part needs the whole to be in one piece.
  \/ WritesPlace(op) /\ Len(op.node.target.path) > 1
       /\ PlaceBlocker(st, WholeOf(op.node.target.path), FALSE) # {}
  \* A ref cannot be bound to a place with a part moved out.
  \/ op.op = "Declare" /\ op.node.isRef /\ TrackedPlace(op.node.init)
       /\ PlaceBlocker(st, op.node.init.path, TRUE) # {}

Reports(st, op) ==
  {kind \in {"move", "narrow", "dangle"} :
     \/ kind = "move"   /\ MoveReport(st.place, op)
     \/ kind = "narrow" /\ NarrowReport(st.fs, op)
     \/ kind = "dangle" /\ DanglingCheck(FactStep(st.fs, op), op)}

-----------------------------------------------------------------------------
VARIABLES prog,      \* the function being checked
          phase,     \* "solve", "report", "done"
          pass, blk, \* the pass and the block being stepped
          pos,       \* the next operation of the block; past the last one, the next edge
          at,        \* the state before every operation and at the end of every block,
                     \* as last computed
          in,        \* the entry state of every block
          changed,   \* did this pass change an entry state?
          converged,
          found,     \* reports, <<block, position, kind>>
          fold       \* what the null tests met so far fold to

graph == Programs[prog]

solverVars == <<prog, phase, pass, blk, pos, at, in, changed, converged, found, fold>>

NOps(x)   == Len(Ops(graph, x))
AtOp      == blk \in graph.reachable /\ pos <= NOps(blk)
AtEdges   == blk \in graph.reachable /\ pos > NOps(blk)
EdgeNo    == pos - NOps(blk)
EndOf(x)  == at[x][NOps(x) + 1]

SolverInit ==
  /\ prog \in DOMAIN Programs
  /\ phase = "solve" /\ pass = 0 /\ blk = 1 /\ pos = 1
  /\ in = [x \in BlocksOf(graph) |-> Everywhere(IF x = Entry THEN Live ELSE Unvisited)]
  /\ at = [x \in BlocksOf(graph) |-> [j \in 1..(NOps(x) + 1) |->
             IF x = Entry /\ j = 1 THEN in[Entry] ELSE Everywhere(Unvisited)]]
  /\ changed = FALSE /\ converged = FALSE /\ found = {} /\ fold = <<>>

\* A bug: the block is stepped from whatever the buffer held.
GotoBlockStale(x) == blk' = x /\ pos' = 1 /\ at' = at

\* Go on with block x from its entry state; past the last block nothing is left.
GotoBlock(x) ==
  /\ blk' = x /\ pos' = 1
  /\ at' = IF x \in BlocksOf(graph) THEN [at EXCEPT ![x][1] = in[x]] ELSE at

SkipUnreachable ==
  /\ phase \in {"solve", "report"}
  /\ blk \in BlocksOf(graph) \ graph.reachable
  /\ GotoBlock(blk + 1)
  /\ UNCHANGED <<prog, phase, pass, in, changed, converged, found, fold>>

\* Apply one operation of the block.
ApplyOp == at' = [at EXCEPT ![blk][pos + 1] = Transfer(at[blk][pos], Ops(graph, blk)[pos])]

StepOp ==
  /\ phase = "solve" /\ AtOp
  /\ ApplyOp
  /\ pos' = pos + 1
  /\ UNCHANGED <<prog, phase, pass, blk, in, changed, converged, found, fold>>

\* Join the state at the end of the block into one successor.
JoinEdge ==
  /\ phase = "solve" /\ AtEdges /\ EdgeNo <= Len(Succ(graph, blk))
  /\ LET dst == Succ(graph, blk)[EdgeNo]
         new == JoinState(in[dst], EdgeState(graph, blk, EdgeNo, EndOf(blk)))
     IN  /\ in' = [in EXCEPT ![dst] = new]
         /\ changed' = (changed \/ new # in[dst])
  /\ pos' = pos + 1
  /\ UNCHANGED <<prog, phase, pass, blk, at, converged, found, fold>>

LeaveBlock ==
  /\ phase = "solve" /\ AtEdges /\ EdgeNo > Len(Succ(graph, blk))
  /\ GotoBlock(blk + 1)
  /\ UNCHANGED <<prog, phase, pass, in, changed, converged, found, fold>>

\* All blocks stepped: another pass, or the report.
EndPass ==
  /\ phase = "solve" /\ blk \notin BlocksOf(graph)
  /\ GotoBlock(1)
  /\ changed' = FALSE
  /\ IF changed /\ pass + 1 < MaxPass
       THEN pass' = pass + 1 /\ UNCHANGED <<phase, converged>>
       ELSE phase' = "report" /\ converged' = ~changed /\ UNCHANGED pass
  /\ UNCHANGED <<prog, in, found, fold>>

\* A bug: the last visit of a test decides.
NoteFoldLast(op, st) ==
  IF op.op = "Eval" /\ op.node.kind = "NullTest"
    THEN [n \in DOMAIN fold \cup {op.node.name} |->
            IF n = op.node.name THEN NullTestFold(st.fs, op.node) ELSE fold[n]]
    ELSE fold

\* A test is folded only if every visit agrees (NoteNullTestFold).
NoteFold(op, st) ==
  IF op.op = "Eval" /\ op.node.kind = "NullTest"
    THEN LET here == NullTestFold(st.fs, op.node)
         IN  IF op.node.name \in DOMAIN fold /\ fold[op.node.name] # here
               THEN [fold EXCEPT ![op.node.name] = "runtime"]
               ELSE [n \in DOMAIN fold \cup {op.node.name} |-> IF n = op.node.name THEN here ELSE fold[n]]
    ELSE fold

ReportOp ==
  /\ phase = "report" /\ AtOp
  /\ LET op == Ops(graph, blk)[pos]
     IN  /\ found' = found \cup {<<blk, pos, kind>> : kind \in Reports(at[blk][pos], op)}
         /\ fold' = NoteFold(op, at[blk][pos])
  /\ ApplyOp
  /\ pos' = pos + 1
  /\ UNCHANGED <<prog, phase, pass, blk, in, changed, converged>>

ReportBlockDone ==
  /\ phase = "report" /\ AtEdges
  /\ GotoBlock(blk + 1)
  /\ UNCHANGED <<prog, phase, pass, in, changed, converged, found, fold>>

\* A bug: only what every path leaves moved is looked at.
NotRestoredAnywhere ==
  IF Exit \in graph.reachable
    THEN {p \in Paths : p[1] \in graph.refParams /\ in[Exit].place[p] = Moved}
    ELSE {}

\* The places of `ref` parameters that some path to the exit leaves moved
\* (CheckRefParamsRestored; a drop method has no parameters to restore).
NotRestored ==
  IF Exit \in graph.reachable
    THEN {p \in Paths : p[1] \in graph.refParams /\ in[Exit].place[p] \in {Moved, Maybe}}
    ELSE {}

ReportDone ==
  /\ phase = "report" /\ blk \notin BlocksOf(graph)
  /\ phase' = "done"
  /\ found' = found \cup {<<Exit, 0, "refparam">> : p \in NotRestored}
  /\ UNCHANGED <<prog, pass, blk, pos, at, in, changed, converged, fold>>

SolverNext ==
  \/ SkipUnreachable \/ StepOp \/ JoinEdge \/ LeaveBlock \/ EndPass
  \/ ReportOp \/ ReportBlockDone \/ ReportDone

-----------------------------------------------------------------------------
Accepted == phase = "done" /\ found = {}
=============================================================================
