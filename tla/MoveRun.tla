------------------------------- MODULE MoveRun -------------------------------
(***************************************************************************)
(* A function the move checker accepted, running: what the rules the       *)
(* checker enforces are about (docs/spec/ownership.md, O1, O2, O4 and O5). *)
(*                                                                         *)
(* The run walks the function's graph with a store: which tracked places   *)
(* have been moved out, which optional locations hold a value, the integer *)
(* variables used as indices, what each `ref` local is bound to and which  *)
(* of those no longer exist.  What an operation may write without the      *)
(* graph saying what (a callee, a drop method, a fresh value) is any value.*)
(* An index past the array stops the program.                              *)
(***************************************************************************)
EXTENDS MoveSolver
LOCAL INSTANCE SequencesExt
LOCAL INSTANCE TLC

CONSTANTS OptLocs,   \* the optional locations: <<name, field or "#i", ...>>
          IntVars,   \* the integer variables used as indices
          MaxInt,    \* their largest value, and the last index of every array
          ByteRange  \* the number of values of the narrow integer type casts go to

ASSUME MaxIntAssumption == MaxInt \in Nat

VARIABLES rb, rpos,  \* the block and operation the run is at; rb = 0 before it starts
          moved, full, ints, refs, dead, truth

runVars == <<rb, rpos, moved, full, ints, refs, dead, truth>>
vars    == <<solverVars, runVars>>

Unbound == <<>>

-----------------------------------------------------------------------------
\* Locations.

IndexValue(ix) ==
  CASE ix.form = "var"     -> ints[ix.var]
    [] ix.form = "plus"    -> ints[ix.var] + ix.lit
    [] ix.form = "cast"    -> ints[ix.var] % ByteRange
    [] ix.form = "castlit" -> ix.lit % ByteRange
    [] OTHER               -> ix.lit

Slot(i) == "#" \o ToString(i)

\* `base[i]` and `base.f`; the root of a bound ref is what it is bound to.
Loc(n) ==
  LET root == RootIdent(n)
      from == IF root \in Refs /\ refs[root] # Unbound THEN refs[root] ELSE <<root>>
      Step(s) == IF "at" \in DOMAIN s THEN s.at ELSE Slot(IndexValue(s.ix))
  IN  from \o [i \in 1..(Len(n.steps) - 1) |-> Step(n.steps[i + 1])]

InBounds(n) == \A i \in DOMAIN n.steps :
                 "ix" \in DOMAIN n.steps[i] => IndexValue(n.steps[i].ix) <= MaxInt

Under(loc)   == {l \in OptLocs : IsStrictPrefix(loc, l)}
RefsUnder(loc) == {r \in Refs : IsStrictPrefix(loc, refs[r])}
RefsTo(loc)    == {r \in Refs : IsPrefix(loc, refs[r])}
Globals      == {l \in OptLocs : l[1] \in GlobalNames}

\* The locations a write set names; its keys are names only.
Names(key)   == [i \in DOMAIN key |-> key[i].text]
Written(w)   == IF w.all THEN Globals ELSE {l \in OptLocs : \E g \in w.keys : IsPrefix(Names(g), l)}
RefsWritten(w) ==
  {r \in Refs : refs[r] # Unbound /\ IF w.all THEN refs[r][1] \in GlobalNames
                                     ELSE \E g \in w.keys : IsStrictPrefix(Names(g), refs[r])}

-----------------------------------------------------------------------------
\* What an operation does to the store: the locations it fills and empties,
\* those that may end up either way, the places it takes and gives back, the
\* refs it kills, and the integers it may change.

Effect == [fill |-> {}, empty |-> {}, either |-> {}, ints |-> {}, kill |-> {}]

Also(e, f) == [x \in DOMAIN e |-> e[x] \cup f[x]]

\* A value taken by value leaves an optional empty, and nothing under it to
\* refer to; where a plain value was there is nothing left at all.
TakeEffect(v, byValue) ==
  IF v = NoNode \/ ~byValue \/ ~IsPlace(v) \/ v.copied \/ ~v.ty.owns THEN Effect
  ELSE [Effect EXCEPT !.empty = IF v.ty.opt THEN {Loc(v)} ELSE {},
                      !.kill = IF v.ty.opt THEN RefsUnder(Loc(v)) ELSE RefsTo(Loc(v))]

DropEffect(w) == [Effect EXCEPT !.either = Written(w), !.kill = RefsWritten(w)]

\* A location is given a value: what is under it is that value's.
StoreEffect(loc, ty, v) ==
  LET isFull == v # NoNode /\ IF ~v.ty.opt THEN TRUE ELSE IsPlace(v) /\ Loc(v) \in full
      known  == v = NoNode \/ ~v.ty.opt \/ IsPlace(v)
  IN  [Effect EXCEPT !.fill   = IF ty.opt /\ isFull THEN {loc} ELSE {},
                     !.empty  = IF ty.opt /\ known /\ ~isFull THEN {loc} ELSE {},
                     !.either = Under(loc) \cup (IF ty.opt /\ ~known THEN {loc} ELSE {}),
                     !.ints   = IF Len(loc) = 1 THEN {loc[1]} \cap IntVars ELSE {}]

RefArgEffect(a) ==
  IF a.ref = "no" \/ ~IsPlace(a.arg) THEN Effect
  ELSE LET loc == Loc(a.arg)
       IN  [Effect EXCEPT !.either = Under(loc) \cup (IF a.ref = "optional" THEN {loc} ELSE {}),
                          !.ints   = IF Len(loc) = 1 THEN {loc[1]} \cap IntVars ELSE {},
                          !.kill   = RefsUnder(loc)]

\* The union of the arguments' effects; the operand order is LoanCheck's matter.
ArgsEffect(args) ==
  FoldLeft(LAMBDA e, a : Also(e, Also(TakeEffect(a.arg, a.byValue), RefArgEffect(a))), Effect, args)

MutateEffect(name, arr) ==
  IF ~IsPlace(arr) THEN Effect
  ELSE [Effect EXCEPT !.kill = RefsUnder(Loc(arr)),
                      !.either = IF name \in {"array_push", "array_reserve"} THEN {} ELSE Under(Loc(arr))]

EvalEffect(n) ==
  CASE n.kind = "Assign" ->
         Also(Also(TakeEffect(n.value, TRUE), StoreEffect(Loc(n.target), n.target.ty, n.value)),
              IF n.target.ty.owns
                THEN [DropEffect(n.target.ty.drops) EXCEPT !.kill = @ \cup RefsUnder(Loc(n.target))]
                ELSE Effect)
    [] n.kind = "IncDec" -> StoreEffect(Loc(n.operand), Plain, NoNode)
    [] n.kind \in {"Call", "Init"} -> Also(ArgsEffect(n.args), DropEffect(n.writes))
    [] n.kind = "Intrinsic" ->
         Also(ArgsEffect(n.args),
              IF n.callee = "drop" THEN DropEffect(n.args[1].arg.ty.drops)
                                 ELSE MutateEffect(n.callee, n.args[1].arg))
    [] OTHER -> Effect

OpEffect(op) ==
  CASE op.op = "Declare" ->
         IF op.node.isRef THEN Effect
         ELSE Also(TakeEffect(op.node.init, TRUE), StoreEffect(<<op.node.name>>, op.node.ty, op.node.init))
    [] op.op = "Return" -> TakeEffect(op.node.value, TRUE)
    [] op.op = "ScopeExit" ->
         FoldLeft(LAMBDA e, s : IF s.kind = "VarDecl" /\ ~s.isRef /\ s.ty.owns
                                  THEN Also(e, DropEffect(s.ty.drops)) ELSE e,
                  Effect, op.node.stmts)
    [] op.op = "Eval" -> EvalEffect(op.node)
    [] OTHER -> Effect

-----------------------------------------------------------------------------
\* The truth of the conditions met, which decides the branches.

Holds(n) == n.name \in DOMAIN truth /\ truth[n.name]

TruthValues(n) ==
  CASE n.kind = "NullTest" -> IF IsPlace(n.operand) THEN {Loc(n.operand) \in full} ELSE BOOLEAN
    [] n.kind = "Unary" -> {~Holds(n.operand)}
    [] n.kind = "And"   -> {Holds(n.lhs) /\ Holds(n.rhs)}
    [] n.kind = "Or"    -> {Holds(n.lhs) \/ Holds(n.rhs)}
    [] n.kind = "True"  -> {TRUE}
    [] n.name # ""      -> BOOLEAN
    [] OTHER            -> {}

-----------------------------------------------------------------------------
RunInit == /\ rb = 0 /\ rpos = 1 /\ moved = {} /\ full = {} /\ ints = [v \in IntVars |-> 0]
           /\ refs = [r \in Refs |-> Unbound] /\ dead = {} /\ truth = <<>>

\* What was there before the function was called is anything, where it is the
\* function's concern.
StartRun ==
  /\ Accepted /\ rb = 0
  /\ rb' = Entry
  /\ full' \in SUBSET {l \in OptLocs : l[1] \in graph.names}
  /\ ints' \in {f \in [IntVars -> 0..MaxInt] : \A v \in IntVars \ graph.names : f[v] = 0}
  /\ UNCHANGED <<solverVars, rpos, moved, refs, dead, truth>>

RunOps == graph.blocks[rb].ops
AtRunOp == rb # 0 /\ rpos <= Len(RunOps)
RunOp_  == RunOps[rpos]

\* Taking a tracked place, or giving it a value again.
MovedAfter(op) ==
  CASE op.op = "Declare" -> {q \in moved : ~Touches(<<op.node.name>>, q, FALSE)}
    [] UsesPlace(op)     -> IF MovesPlace(op) THEN moved \cup {op.node.path} ELSE moved
    [] WritesPlace(op)   -> {q \in moved : ~Touches(op.node.target.path, q, FALSE)}
    [] OTHER -> moved

\* A panic on an index out of bounds ends the run.
Panics(op) == op.op = "Eval" /\ IsPlace(op.node) /\ ~InBounds(op.node)

RunOp ==
  /\ AtRunOp /\ ~Panics(RunOp_)
  /\ LET op == RunOp_
         e  == OpEffect(op)
         free == e.either \ (e.fill \cup e.empty)
         binds == op.op = "Declare" /\ op.node.isRef
     IN  /\ moved' = MovedAfter(op)
         /\ \E some \in SUBSET free :
              full' = ((full \ (e.empty \cup free)) \cup e.fill \cup some) \cap OptLocs
         /\ \E new \in [e.ints -> 0..MaxInt] :
              ints' = [v \in IntVars |-> IF v \in e.ints THEN new[v] ELSE ints[v]]
         /\ refs' = IF binds THEN [refs EXCEPT ![op.node.name] = Loc(op.node.init)] ELSE refs
         /\ dead' = (dead \cup e.kill) \ (IF binds THEN {op.node.name} ELSE {})
         /\ IF op.op = "Eval" /\ TruthValues(op.node) # {}
              THEN \E v \in TruthValues(op.node) : truth' = (op.node.name :> v) @@ truth
              ELSE UNCHANGED truth
  /\ rpos' = rpos + 1
  /\ UNCHANGED <<solverVars, rb>>

\* The condition the block ends on picks the edge.
RunEdge ==
  /\ rb # 0 /\ rpos > Len(RunOps)
  /\ \E s \in DOMAIN graph.blocks[rb].succ :
       /\ (RunOps # <<>> /\ RunOps[Len(RunOps)].op = "Condition")
            => (s = 1) = Holds(RunOps[Len(RunOps)].node)
       /\ rb' = graph.blocks[rb].succ[s]
  /\ rpos' = 1
  /\ UNCHANGED <<solverVars, moved, full, ints, refs, dead, truth>>

Check == SolverNext /\ UNCHANGED runVars
Next  == Check \/ StartRun \/ RunOp \/ RunEdge

Init == SolverInit /\ RunInit

\* The checker is a loop nothing else can hold up; the program need not run.
Spec == Init /\ [][Next]_vars /\ WF_vars(Check)

-----------------------------------------------------------------------------
\* What an accepted program never does at the operation it is about to run.

\* O1: a place is used only while it, what it is part of and, used whole, its
\* parts are there; a part is written only into a whole that is there.
UsesMoved(op) ==
  \/ UsesPlace(op) /\ \E q \in moved : Touches(q, op.node.path, WholeUse(op))
  \/ /\ WritesPlace(op) /\ Len(op.node.target.path) > 1
     /\ \E q \in moved : Touches(q, WholeOf(op.node.target.path), FALSE)

NoUseOfMoved == AtRunOp => ~UsesMoved(RunOp_)

\* O4: an optional is read through, or handed to something that wants the value,
\* only when it holds one.
LocOf(steps) == Loc([steps |-> steps])
ReadsEmpty(op) ==
  LET n == op.node
      through(x) == \E t \in x.through : LocOf(t.steps) \notin full
      wanted(v, wants) == v # NoNode /\ wants /\ v.ty.opt /\ IsPlace(v) /\ Loc(v) \notin full
  IN  \/ op.op = "Declare" /\ ~n.isRef /\ wanted(n.init, n.wants)
      \/ op.op = "Return" /\ wanted(n.value, n.wants)
      \/ /\ op.op = "Eval"
         /\ \/ IsPlace(n) /\ through(n)
            \/ n.kind = "Assign" /\ (through(n.target) \/ wanted(n.value, ~n.target.ty.opt))
            \/ n.kind \in {"Call", "Init"} /\ \E i \in DOMAIN n.args : wanted(n.args[i].arg, n.args[i].wants)

NoReadOfEmpty == AtRunOp => ~ReadsEmpty(RunOp_)

\* The passes reach a state no pass changes, rather than the cap on them.
Settles == <>converged

\* A folded null test answers what the test would have.
FoldAgrees ==
  AtRunOp /\ RunOp_.op = "Eval" /\ RunOp_.node.kind = "NullTest" /\ IsPlace(RunOp_.node.operand) =>
    LET f == fold[RunOp_.node.name]  set == Loc(RunOp_.node.operand) \in full
    IN  (f = "set" => set) /\ (f = "empty" => ~set)

\* O5: a ref is used only while what it is bound to exists.
UsesRef(op) ==
  IF op.op # "Eval" THEN {}
  ELSE LET n == IF op.node.kind = "Assign" THEN op.node.target ELSE op.node
       IN  IF IsPlace(n) THEN {RootIdent(n)} \cap Refs ELSE {}

NoDanglingRef == AtRunOp => UsesRef(RunOp_) \cap dead = {}

\* O2: what is taken out of a `ref` parameter is back when the function returns.
RefParamsRestored == rb = Exit => \A q \in moved : q[1] \notin graph.refParams
=============================================================================
