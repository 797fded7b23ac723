------------------------------ MODULE LoanRun -------------------------------
(***************************************************************************)
(* Loans: what the operands of an expression borrow until it ends          *)
(* (src/src/Sema/MoveCheck/Loans.c), the order in which globals are built  *)
(* (WalkInit of MoveCheck.c), and a run of the module that passed.         *)
(*                                                                         *)
(* The module's own code is the host's: the initializers of its globals in *)
(* order and then a call.  A run is a stack of frames, the host below the  *)
(* functions of `stack`.                                                   *)
(***************************************************************************)
EXTENDS WriteSets, Ast
LOCAL INSTANCE SequencesExt
LOCAL INSTANCE FiniteSetsExt
LOCAL INSTANCE Functions
LOCAL INSTANCE TLC

CONSTANT MaxNesting   \* of the nodes of an expression

Owns(n) == "ty" \in DOMAIN n /\ n.ty.owns

-----------------------------------------------------------------------------
\* The check of one expression.

\* Places that may share storage: one is a prefix of the other.
PlacesOverlap(a, b) == \A s \in 1..Min({Len(a), Len(b)}) : SegsAlias(a[s], b[s])

AddAccess(n, mode) == IF Owns(n) /\ n.lax # NoKey THEN {[key |-> n.lax, mode |-> mode]} ELSE {}

\* A node and how it is taken; of a place under a place only the indices matter.
As(n, mode) == [node |-> n, mode |-> mode]
UnderPlace(n, mode) == IF n.lax = NoKey THEN mode ELSE "index"

\* What CollectAccesses goes on to from a node.
Below(n, mode) ==
  CASE n.kind = "Member" -> {As(n.base, UnderPlace(n, "shared"))}
    [] n.kind = "Index"  -> {As(n.base, UnderPlace(n, "shared")), As(n.index, "shared")}
    [] n.kind \in {"Binary", "And", "Or"} -> {As(n.lhs, "shared"), As(n.rhs, "shared")}
    [] n.kind \in {"Unary", "NullTest"} -> {As(n.operand, "shared")}
    [] n.kind = "Assign" -> {As(n.value, "move"), As(n.target, "mut")}
    [] n.kind = "IncDec" -> {As(n.operand, "mut")}
    [] n.kind = "Conditional" -> {As(n.cond, "shared"), As(n.then, mode), As(n.else, mode)}
    [] n.kind \in {"Call", "Intrinsic", "Init"} -> {As(n.args[k].arg, ArgMode(n, k)) : k \in DOMAIN n.args}
    [] OTHER -> {}

\* A node and all that a walk comes to from it.
WalkFrom(start, Children(_)) ==
  LET level[d \in 0..MaxNesting] == IF d = 0 THEN {start} ELSE UNION {Children(v) : v \in level[d - 1]}
  IN  UNION {level[d] : d \in 0..MaxNesting}

\* Every owning place `n` touches while it is evaluated, with how.
CollectAccesses(n, mode) ==
  LET Children(v) == Below(v.node, v.mode)
  IN  UNION {AddAccess(v.node, v.mode) : v \in {w \in WalkFrom(As(n, mode), Children) : w.mode # "index"}}

Operand(n, mode) == [node |-> n, mode |-> mode]
Operands(n) ==
  CASE n.kind \in {"Call", "Intrinsic"} -> [k \in DOMAIN n.args |-> Operand(n.args[k].arg, ArgMode(n, k))]
    [] n.kind = "Binary" -> <<Operand(n.lhs, "shared"), Operand(n.rhs, "shared")>>
    [] n.kind = "Index"  -> <<Operand(n.base, "shared"), Operand(n.index, "shared")>>
    [] n.kind = "Assign" /\ n.target.kind = "Index" ->
         <<Operand(n.target.base, "mut"), Operand(n.target.index, "shared")>>
    [] OTHER -> <<>>

\* A bug: only what a later operand moves conflicts, not what it may change.
ConflictOnMove(loan, effect) == effect = "move"
Conflict(loan, effect) == loan = "mut" \/ effect # "shared"

\* What an earlier operand lends against what a later one does.
CheckOperandPair(earlier, later) ==
  {a \in CollectAccesses(later.node, later.mode) :
     \E l \in AddAccess(earlier.node, earlier.mode) :
       l.mode # "move" /\ Conflict(l.mode, a.mode) /\ PlacesOverlap(l.key, a.key)}

CalleeWrites(d, key) ==
  d \notin Functions \/ sets[d].all \/ \E w \in sets[d].keys : PlacesOverlap(w, key)

\* An argument that borrows a global place must not be one the callee writes.
CheckGlobalArgs(f, n) ==
  IF n.kind # "Call" \/ n.decl = Unknown \/ (n.decl \in Functions /\ FnsOf(mod)[n.decl].extern) THEN {}
  ELSE {k \in DOMAIN n.args : /\ ArgMode(n, k) # "move" /\ Owns(n.args[k].arg)
                              /\ IsGlobalPlace(FnsOf(mod)[f], n.args[k].arg.lax)
                              /\ CalleeWrites(n.decl, n.args[k].arg.lax)}

LoanCheck(f, n) ==
  /\ CheckGlobalArgs(f, n) = {}
  /\ \A i, j \in DOMAIN Operands(n) : i < j => CheckOperandPair(Operands(n)[i], Operands(n)[j]) = {}

-----------------------------------------------------------------------------
\* The check of the initializers: which globals one touches, and what its calls do.

Globals  == mod.globals
\* A bug: the functions an initializer calls are not looked into.
TouchedByOwn(d) == {}
TouchedBy(d) == IF d \notin Functions THEN {}
                ELSE sets[d].reads \cup {key[1].text : key \in sets[d].keys}

\* What WalkInit goes on to: it knows nothing of assignments.
InitBelow(n) == IF n.kind \in {"Assign", "IncDec"} THEN {} ELSE {v.node : v \in Below(n, "shared")}
InitNodes(n) == WalkFrom(n, InitBelow)

\* The globals an initializer touches.
WalkInit(n) == UNION {CASE m.kind = "Place" -> {RootIdent(m)}
                        [] m.kind = "Call"  -> TouchedBy(m.decl)
                        [] OTHER -> {} : m \in InitNodes(n)}

\* An initializer may use the globals before it (the code starts after itself).
TouchGlobal(g) == \A later \in (g + 1)..Len(Globals) : Globals[later].name \notin WalkInit(Globals[g].init)

MoveCheckModule ==
  /\ \A g \in DOMAIN Globals : TouchGlobal(g)
  /\ \A f \in Functions : \A k \in Evals(FnsOf(mod)[f]) : LoanCheck(f, FnsOf(mod)[f].ops[k].node)

-----------------------------------------------------------------------------
\* The run.

VARIABLES verdict,   \* "none", "accepted", "rejected"
          frames,    \* of the host and the calls: [pos, vals, held, refs, todo]
          ready      \* how many globals are built

loanVars == <<writeVars, verdict, frames, ready>>

\* An operand is where it is stored and the parameters it was reached through, down
\* the calls; `ok` until something writes there.
Value      == [at |-> <<>>, via |-> {}, ok |-> TRUE]
NewFrame(held) == [pos |-> 1, vals |-> <<>>, held |-> held, refs |-> <<>>, todo |-> <<>>]

Top      == Len(frames)
HostOps  == IF ready < Len(Globals) THEN Globals[ready + 1].ops ELSE mod.host
OpsOf(k) == IF k = 1 THEN HostOps ELSE FnsOf(mod)[stack[k - 1]].ops
LocalsOf(k) == IF k = 1 THEN {} ELSE FnsOf(mod)[stack[k - 1]].locals
Running  == verdict = "accepted" /\ frames[Top].todo = <<>> /\ frames[Top].pos <= Len(OpsOf(Top))
Op       == OpsOf(Top)[frames[Top].pos]

\* Storage: a borrowed parameter is the caller's place, a `ref` local what it was
\* bound to, any other local belongs to its frame.
InFrame(k, x) == x \o "@" \o ToString(k)
Root(k, x) == IF x \in DOMAIN frames[k].held THEN frames[k].held[x].at
              ELSE IF x \in DOMAIN frames[k].refs THEN frames[k].refs[x].at
              ELSE IF x \in LocalsOf(k) THEN <<InFrame(k, x)>> ELSE <<x>>
IndexOf(ix) == CASE ix.form = "lit" -> ix.lit [] ix.form = "plus" -> 1 [] OTHER -> 0
StepOf(s)   == IF "at" \in DOMAIN s THEN s.at ELSE "#" \o ToString(IndexOf(s.ix))
TailOf(n)    == [s \in 1..(Len(n.steps) - 1) |-> StepOf(n.steps[s + 1])]
StorageOf(n) == Root(Top, RootIdent(n)) \o TailOf(n)

Overlap(s, t) == IsPrefix(s, t) \/ IsPrefix(t, s)

\* The parameters a name of frame k goes through.
Via(k, x) ==
  IF x \in DOMAIN frames[k].held THEN {<<k, x>>} \cup frames[k].held[x].via
  ELSE IF x \in DOMAIN frames[k].refs THEN frames[k].refs[x].via
  ELSE {}

Lend(n) == [at |-> StorageOf(n), via |-> Via(Top, RootIdent(n)), ok |-> TRUE]

\* How many operands an operation takes: each left its value on the frame.  A
\* variable that is indexed leaves one too.
PlaceArity(n) ==
  LET indices == {s \in DOMAIN n.steps : "ix" \in DOMAIN n.steps[s]}
  IN  Cardinality(indices) + Cardinality(indices \cap {2})
Arity(op) ==
  IF op.op # "Eval" THEN (IF op.op = "Declare" /\ op.node.init # NoNode THEN 1 ELSE 0)
  ELSE LET n == op.node
       IN CASE n.kind \in {"Binary", "Index"} -> 2
            [] n.kind \in {"Unary", "NullTest", "Member"} -> 1
            [] n.kind = "Assign" -> 1 + (IF IsPlace(n.target) THEN PlaceArity(n.target) ELSE 0)
            [] n.kind = "IncDec" -> IF IsPlace(n.operand) THEN PlaceArity(n.operand) ELSE 0
            [] n.kind \in {"Call", "Intrinsic", "Init"} -> Len(n.args)
            [] OTHER -> 0

Vals      == frames[Top].vals
Popped(c) == SubSeq(Vals, Len(Vals) - c + 1, Len(Vals))
Rest(c)   == SubSeq(Vals, 1, Len(Vals) - c)

\* The place an operation writes: assigned, counted, dropped, moved out or grown.
WrittenPlace(op) ==
  IF op.op # "Eval" THEN NoNode
  ELSE CASE op.node.kind = "Assign" -> op.node.target
         [] op.node.kind = "IncDec" -> op.node.operand
         [] op.node.kind = "Intrinsic" /\ (op.node.callee = "drop" \/ ArgMode(op.node, 1) = "mut") -> op.node.args[1].arg
         [] op.node.kind \in {"Place", "Member", "Index"} /\ op.consumed /\ Owns(op.node) -> op.node
         [] OTHER -> NoNode
WritesPlace(op) == IsPlace(WrittenPlace(op))

\* Whatever is borrowed there no longer holds, but for what it is written through.
Left(v, at) == [v EXCEPT !.ok = @ /\ (v.at = <<>> \/ ~Overlap(v.at, at))]
Disturbed(fs, at, through) ==
  LET Vs(k) == [j \in DOMAIN fs[k].vals |-> Left(fs[k].vals[j], at)]
      Hs(k) == [x \in DOMAIN fs[k].held |-> IF <<k, x>> \in through THEN fs[k].held[x] ELSE Left(fs[k].held[x], at)]
  IN  [k \in DOMAIN fs |-> [fs[k] EXCEPT !.vals = Vs(k), !.held = Hs(k)]]
AfterWrite(fs) ==
  IF WritesPlace(Op) /\ Owns(WrittenPlace(Op)) 
  THEN Disturbed(fs, StorageOf(WrittenPlace(Op)), Via(Top, RootIdent(WrittenPlace(Op))))
  ELSE fs

\* A read of an owning place lends it; anything else is a value.
Result(op) ==
  IF op.op # "Eval" THEN <<>>
  ELSE IF IsPlace(op.node) /\ Owns(op.node) /\ ~op.consumed THEN <<Lend(op.node)>>
  ELSE <<Value>>

\* A `ref` local stands for the place it is bound to.
Binds(op)       == op.op = "Declare" /\ op.node.isRef
Bound(refs, op) ==
  IF Binds(op) THEN [x \in DOMAIN refs \cup {op.node.name} |-> IF x = op.node.name THEN Lend(op.node.init) ELSE refs[x]]
  ELSE refs

\* Drop methods: of the locals of a scope, the last first, and of what is dropped.
DropFn(ty) == IF "dropFn" \in DOMAIN ty THEN <<ty.dropFn>> ELSE <<>>
DropsOf(op) ==
  CASE op.op = "ScopeExit" ->
         FoldLeft(LAMBDA acc, s : IF s.kind = "VarDecl" /\ ~s.isRef THEN DropFn(s.ty) \o acc ELSE acc, <<>>, op.node.stmts)
    [] op.op = "Eval" /\ op.node.kind = "Intrinsic" /\ op.node.callee = "drop" -> DropFn(op.node.args[1].arg.ty)
    [] op.op = "Eval" /\ op.node.kind = "Assign" -> DropFn(op.node.target.ty)
    [] OTHER -> <<>>

\* The functions a call may reach.
Targets(op) ==
  IF ~IsCall(op) THEN {}
  ELSE {g \in Functions : FnsOf(mod)[g].body /\ Len(stack) < MaxDepth
          /\ (g = op.node.decl \/ (op.node.decl = Unknown /\ DOMAIN FnsOf(mod)[g].params = DOMAIN op.node.args))}

\* What a callee is lent: the places passed to the parameters that borrow.  Their
\* storage is what it was when they were evaluated.
LentBy(op) == IF IsCall(op) THEN {k \in DOMAIN op.node.args : IsPlace(op.node.args[k].arg) /\ ArgMode(op.node, k) # "move"}
              ELSE {}
Lent(op, g, args) ==
  LET lent == {k \in LentBy(op) : args[k].at # <<>>}
  IN  [x \in {FnsOf(mod)[g].params[k] : k \in lent} |->
         LET k == CHOOSE j \in lent : FnsOf(mod)[g].params[j] = x
         IN  [Lend(op.node.args[k].arg) EXCEPT !.ok = args[k].ok]]

CheckModule ==
  /\ phase = "done" /\ verdict = "none"
  /\ verdict' = IF MoveCheckModule THEN "accepted" ELSE "rejected"
  /\ UNCHANGED <<writeVars, frames, ready>>

\* An operation that calls nothing.
Evaluate ==
  /\ Running /\ Targets(Op) = {}
  /\ frames' = AfterWrite([frames EXCEPT ![Top].pos = @ + 1,
                                         ![Top].vals = Rest(Arity(Op)) \o Result(Op),
                                         ![Top].refs = Bound(@, Op),
                                         ![Top].todo = DropsOf(Op)])
  /\ UNCHANGED <<writeVars, verdict, ready>>

CallFunction ==
  /\ Running
  /\ \E g \in Targets(Op) :
       /\ Enter(g)
       /\ frames' = Append([frames EXCEPT ![Top].pos = @ + 1, ![Top].vals = Rest(Arity(Op))],
                           NewFrame(Lent(Op, g, Popped(Arity(Op)))))
  /\ UNCHANGED <<verdict, ready>>

\* A function may return after any operation.
Finish ==
  /\ verdict = "accepted" /\ Top > 1
  /\ Leave
  /\ frames' = [SubSeq(frames, 1, Top - 1) EXCEPT ![Top - 1].vals = IF frames[Top - 1].todo = <<>> THEN Append(@, Value) ELSE @,
                                                  ![Top - 1].todo = IF @ = <<>> THEN @ ELSE Tail(@)]
  /\ UNCHANGED <<verdict, ready>>

RunDrop ==
  /\ verdict = "accepted" /\ frames[Top].todo # <<>> /\ Len(stack) < MaxDepth
  /\ stack' = Append(stack, Head(frames[Top].todo))
  /\ frames' = Append(frames, NewFrame(<<>>))
  /\ UNCHANGED <<setVars, verdict, ready>>

GlobalReady ==
  /\ verdict = "accepted" /\ Top = 1 /\ frames[1].todo = <<>> /\ ready < Len(Globals)
  /\ frames[1].pos > Len(HostOps)
  /\ ready' = ready + 1
  /\ frames' = [frames EXCEPT ![1].pos = 1, ![1].vals = <<>>]
  /\ UNCHANGED <<writeVars, verdict>>

Init == SetsInit /\ verdict = "none" /\ frames = <<NewFrame(<<>>)>> /\ ready = 0
Solve == Merge /\ UNCHANGED <<verdict, frames, ready>>
Next == Solve \/ CheckModule \/ Evaluate \/ CallFunction \/ Finish \/ RunDrop \/ GlobalReady
Spec == Init /\ [][Next]_loanVars /\ WF_loanVars(Solve)

-----------------------------------------------------------------------------
\* The passes over the callees end (WriteSetsBuild): sets only grow.
Settles == <>(phase = "done")

\* What a run writes is in the set of every function on the stack but those that
\* only pass it on as a parameter of theirs (CheckGlobalArgs and CallFactStep
\* rely on it).
Denotes(seg, step) == IF seg.index THEN seg.literal => step = "#" \o seg.text ELSE seg.text = step
Matches(key, at)   == Len(key) <= Len(at) /\ \A s \in 1..Len(key) : Denotes(key[s], at[s])
IsGlobal(at) == \E g \in DOMAIN Globals : Globals[g].name = at[1]
Declared(k, at) == sets[stack[k - 1]].all \/ \E key \in sets[stack[k - 1]].keys : Matches(key, at)
WritesDeclared ==
  Running /\ WritesPlace(Op) /\ IsGlobal(StorageOf(WrittenPlace(Op))) =>
    \A k \in 2..Top : (\A v \in Via(Top, RootIdent(WrittenPlace(Op))) : k < v[1]) =>
      Declared(k, StorageOf(WrittenPlace(Op)))

\* O6 and O7: what an operand or an argument borrows is not written until the
\* expression it belongs to is done.
LoansHold ==
  /\ \A k \in 2..Top : \A x \in DOMAIN frames[k].held : frames[k].held[x].ok
  /\ Running => \A j \in DOMAIN Popped(Arity(Op)) : Popped(Arity(Op))[j].ok

\* O10: while a global is built, only the globals before it are used.
Used(op) == IF op.op = "Eval" /\ IsPlace(op.node) THEN op.node ELSE WrittenPlace(op)
NoEarlyGlobal ==
  Running /\ ready < Len(Globals) /\ IsPlace(Used(Op)) =>
    \A g \in (ready + 1)..Len(Globals) : StorageOf(Used(Op))[1] # Globals[g].name

-----------------------------------------------------------------------------
\* What the resolver and the graph builder see to, stated of a module.

HasRoot(n)    == Len(n.steps) \in Nat \ {0}
LaxRoot(n)    == n.lax[1].text
Fits(key, at) == Len(key) = Len(at) /\ Matches(key, at)

\* What the `ref` locals of a function are bound to.
Binders(fn)  == {k \in DOMAIN fn.ops : Binds(fn.ops[k])}
RefNames(fn) == {fn.ops[k].node.name : k \in Binders(fn)}

\* A place is spelled as it is reached, through a `ref` local as what that is bound
\* to, which has been done before (AliasTarget).
SpelledAsReached(fn, n, pos) ==
  /\ Len(n.lax) \in Nat \ {0} /\ HasRoot(n)
  /\ IF RootIdent(n) \in RefNames(fn)
     THEN /\ \E k \in Binders(fn) : k < pos /\ fn.ops[k].node.name = RootIdent(n)
          /\ \A k \in Binders(fn) : fn.ops[k].node.name = RootIdent(n) =>
               LET bound == fn.ops[k].node.init.lax
               IN  /\ Len(n.lax) = Len(bound) + Len(TailOf(n))
                   /\ \A s \in 1..Len(bound) : n.lax[s] = bound[s]
                   /\ \A s \in DOMAIN TailOf(n) : Denotes(n.lax[Len(bound) + s], TailOf(n)[s])
     ELSE LaxRoot(n) = RootIdent(n) /\ Fits(n.lax, <<RootIdent(n)>> \o TailOf(n))

\* The places an operation lends or binds, those it may change, and both.
Evaluated(op) == {op.node.args[k].arg : k \in LentBy(op)} \cup (IF Binds(op) THEN {op.node.init} ELSE {})
Changes(op)   == (IF WritesPlace(op) THEN {WrittenPlace(op)} ELSE {})
                   \cup {op.node.args[k].arg : k \in {j \in LentBy(op) : ArgMode(op.node, j) = "mut"}}
Names(op)     == Evaluated(op) \cup Changes(op)

\* What is lent or bound is a place evaluated before; no parameter that is `const` is
\* changed; and a global is moved out of to be dropped only.
OpResolved(fn, pos) ==
  LET op == fn.ops[pos]
  IN  /\ \A n \in Names(op) : SpelledAsReached(fn, n, pos)
      /\ \A n \in Evaluated(op) :
           /\ IsPlace(n)
           /\ \E k \in Evals(fn) : k < pos /\ IsPlace(fn.ops[k].node) /\ RootIdent(fn.ops[k].node) = RootIdent(n)
      /\ \A n \in Changes(op) : LaxRoot(n) \notin fn.const
      /\ WritesPlace(op) /\ op.node = WrittenPlace(op) /\ LaxRoot(op.node) \notin fn.locals => op.node.lax \in Direct(fn).keys
      /\ IsPlace(Used(op)) => HasRoot(Used(op))
      /\ WritesPlace(op) /\ op.node.kind = "Intrinsic" => 1 \in DOMAIN op.node.args

\* Who is lent what.
CallResolved(m, n) ==
  n.decl \in DOMAIN FnsOf(m) =>
    LET callee == FnsOf(m)[n.decl]
    IN  /\ DOMAIN callee.params = DOMAIN n.args
        /\ \A k \in DOMAIN n.args : callee.params[k] \notin callee.const => ArgMode(n, k) # "shared"

IsList(ops) == Len(ops) \in Nat /\ DOMAIN ops = 1..Len(ops)
FnResolved(m, fn) ==
  /\ fn.const \subseteq {fn.params[k] : k \in DOMAIN fn.params}
  /\ {fn.params[k] : k \in DOMAIN fn.params} \subseteq fn.locals \ RefNames(fn)
  /\ RefNames(fn) \subseteq fn.locals
  /\ IsList(fn.ops) /\ (~fn.body => fn.ops = <<>>)
  /\ \A pos \in DOMAIN fn.ops : /\ OpResolved(fn, pos)
                                /\ IsCall(fn.ops[pos]) => CallResolved(m, fn.ops[pos].node)
                                /\ DropsOf(fn.ops[pos]) \in Seq(DOMAIN FnsOf(m))
\* An initializer names what the walk comes to, and drops nothing.
InitWalked(global) ==
  \A k \in DOMAIN global.ops : LET op == global.ops[k] IN
    /\ DropsOf(op) = <<>> /\ ~Binds(op)
    /\ \A n \in {m \in {Used(op)} : IsPlace(m)} \cup Evaluated(op) :
         \E m \in InitNodes(global.init) : m.kind = "Place" /\ RootIdent(m) = RootIdent(n)
    /\ IsCall(op) => op.node \in InitNodes(global.init)

HostOpResolved(m, op) ==
  /\ ~Binds(op) /\ DropsOf(op) \in Seq(DOMAIN FnsOf(m))
  /\ \A n \in Names(op) : HasRoot(n)
  /\ IsPlace(Used(op)) => HasRoot(Used(op))
  /\ IsCall(op) => CallResolved(m, op.node)

ModuleResolved(m) ==
  /\ \A f \in DOMAIN FnsOf(m) : FnResolved(m, FnsOf(m)[f])
  /\ \A f \in DOMAIN FnsOf(m) : \A x \in FnsOf(m)[f].locals : \A k \in 1..(MaxDepth + 1) : \A g \in DOMAIN m.globals :
       m.globals[g].name # InFrame(k, x)
  /\ IsList(m.globals)
  /\ \A ops \in {m.host} \cup {m.globals[g].ops : g \in DOMAIN m.globals} :
       IsList(ops) /\ \A k \in DOMAIN ops : HostOpResolved(m, ops[k])

ASSUME ResolvedAssumption == \A name \in DOMAIN Modules : ModuleResolved(Modules[name])
=============================================================================
