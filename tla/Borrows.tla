------------------------------ MODULE Borrows -------------------------------
(***************************************************************************)
(* What the functions of a module do to their parameters, found before     *)
(* anything is resolved (src/src/Sema/Resolve/Borrows.c): which mutable    *)
(* `ref T[]` parameters are grown, so that no view of the stack may be     *)
(* passed for them, and which by-value parameters are only read, so that   *)
(* they become `const ref` and the caller keeps its value.                 *)
(*                                                                         *)
(* Both are fixpoints over calls, one function scanned per step, with a    *)
(* cap on the rounds.  The resolver then checks every body against them,   *)
(* and the calls of an accepted module run.                                *)
(***************************************************************************)
EXTENDS Ast, FiniteSets

CONSTANTS Modules,    \* of each module, its functions in order: [name, method, extern, export,
                      \* cvararg, params, nodes, growth]; a parameter is [name, mod, const, rest,
                      \* ty]; nodes and growth, what the two scans meet in the body (ScanOrder)
          MaxRounds,  \* 64
          MaxDepth    \* of the calls of a run

IsSeq(s) == s \in Seq({s[k] : k \in DOMAIN s})

\* A parameter is by value or by `ref`, only the last may be a rest, which is an
\* array, and bare `...` is for extern functions (ParseFunctionParams).
IsFunction(f) ==
  /\ IsSeq(f.params) /\ IsSeq(f.nodes) /\ IsSeq(f.growth)
  /\ f.cvararg => f.extern
  /\ \A j \in DOMAIN f.params :
       /\ f.params[j].mod \in {"none", "ref"}
       /\ f.params[j].rest => j = Len(f.params) /\ f.params[j].ty.form = "array"
  /\ \A k \in DOMAIN f.nodes : f.nodes[k].kind = "Invoke" => IsSeq(f.nodes[k].args)

ASSUME ModulesAssumption == \A m \in Modules : IsSeq(m) /\ \A f \in DOMAIN m : IsFunction(m[f])
ASSUME BoundsAssumption == MaxRounds \in Nat \ {0} /\ MaxDepth \in Nat

-----------------------------------------------------------------------------
\* Calls.

IsMethod(n) == n.base # NoNode

\* Argument j is for parameter j of the callee; a receiver is the first.
Operands(n) == (IF IsMethod(n) THEN <<n.base>> ELSE <<>>) \o n.args

Growing  == {"array_push", "array_resize", "array_reserve"}
Resizing == Growing \cup {"array_pop", "array_remove", "array_swap_remove"}
Mutators == Resizing \cup {"array_replace", "array_take"}
OnlyRead == {"copy", "sizeof", "alignof", "load", "substring"}
Builtins == Mutators \cup OnlyRead \cup {"drop", "addressof", "ptr_place"}

\* A call of one of these builtins, which no method is; and its argument k.
Calls(n, names) == n.kind = "Invoke" /\ ~IsMethod(n) /\ n.callee \in names
ArgOf(n, k)     == {n.args[j] : j \in DOMAIN n.args \cap {k}}

-----------------------------------------------------------------------------
VARIABLES fns,        \* the functions of the module
          phase,      \* "growth", "borrow", "check", "run", "rejected"
          round, scan,\* the round and the function to scan next
          changed,
          growing,    \* the parameters marked growsArray, as <<function, position>>
          lent,       \* the borrow candidates, at the end the inferred borrows
          frames      \* of the run: [fn, at], where each of its names is stored

inference == <<fns, phase, round, scan, changed, growing, lent>>
vars      == <<inference, frames>>

ParamsOf(f) == DOMAIN fns[f].params
Param(q)    == fns[q[1]].params[q[2]]
AllParams   == UNION {{f} \X ParamsOf(f) : f \in DOMAIN fns}
Body(f)     == {fns[f].nodes[k] : k \in DOMAIN fns[f].nodes}
HasBody(f)  == fns[f].nodes # <<>>

\* Every function a call may mean, as the scans see it: only its name counts.
Callable(n) == {f \in DOMAIN fns : fns[f].name = n.callee /\ fns[f].method = IsMethod(n)}

-----------------------------------------------------------------------------
\* Growth.

RefArrayParamNamed(f, x) ==
  {q \in {f} \X ParamsOf(f) : /\ Param(q).mod = "ref" /\ ~Param(q).rest
                              /\ Param(q).ty.form = "array" /\ Param(q).name = x}

CalleeGrowsParam(marked, n, j) == \E f \in Callable(n) : <<f, j>> \in marked

MarkGrowth(f, n) == IF n.kind = "Path" /\ n.end = "whole" THEN RefArrayParamNamed(f, n.root) ELSE {}

\* What a node grows or rebinds.
GrownBy(marked, n) ==
  CASE n.kind = "Assign" -> {n.target}
    [] n.kind = "Invoke" -> {n.args[k] : k \in {j \in DOMAIN n.args : j = 1 /\ n.callee \in Resizing}}
                              \cup {Operands(n)[j] : j \in {k \in DOMAIN Operands(n) : CalleeGrowsParam(marked, n, k)}}
    [] OTHER -> {}

Mark(f, marked, n) == marked \cup UNION {MarkGrowth(f, m) : m \in GrownBy(marked, n)}

ScanGrowth(marked, f) ==
  LET nodes == fns[f].growth
      upto[k \in 0..Len(nodes)] == IF k = 0 THEN marked ELSE Mark(f, upto[k - 1], nodes[k])
  IN  upto[Len(nodes)]

-----------------------------------------------------------------------------
\* Borrows.  `c` is the set of candidates left.

BorrowCandidateType(ty) == ty.form \in {"string", "array", "struct"}

Eligible == {q \in AllParams :
  /\ HasBody(q[1]) /\ ~fns[q[1]].extern /\ ~fns[q[1]].export
  /\ Param(q).mod = "none" /\ ~Param(q).rest /\ BorrowCandidateType(Param(q).ty)}

\* A bug: only the parameter itself counts, not a path into it.
BorrowRootWhole(c, f, n) ==
  IF n.kind = "Path" /\ n.end = "whole" THEN {q \in c : q[1] = f /\ Param(q).name = n.root} ELSE {}

BorrowRoot(c, f, n) ==
  IF n.kind = "Path" THEN {q \in c : q[1] = f /\ Param(q).name = n.root} ELSE {}

\* Used where a value is taken, if there is something to own at the end of the path.
ConsumeIfTaken(c, f, n) == IF n.kind = "Path" /\ n.ty.owns THEN BorrowRoot(c, f, n) ELSE {}

\* An argument for parameter j of whatever has the callee's name.
ScanBorrowArg(c, f, n, arg, j) ==
  LET Into(g) ==
        IF j \notin ParamsOf(g) THEN (IF fns[g].cvararg THEN {} ELSE ConsumeIfTaken(c, f, arg))
        ELSE LET q == Param(<<g, j>>)
             IN  IF q.mod = "ref" /\ ~q.const THEN BorrowRoot(c, f, arg)
                 ELSE IF q.mod = "none" /\ ~fns[g].extern /\ <<g, j>> \notin c THEN ConsumeIfTaken(c, f, arg)
                 ELSE {}
  IN  IF Callable(n) = {} THEN BorrowRoot(c, f, arg) ELSE UNION {Into(g) : g \in Callable(n)}

ScanCallBorrows(c, f, n) ==
  LET Kept(k)  == IF k \in DOMAIN n.args THEN BorrowRoot(c, f, n.args[k]) ELSE {}
      Taken(k) == IF k \in DOMAIN n.args THEN ConsumeIfTaken(c, f, n.args[k]) ELSE {}
      name     == IF IsMethod(n) THEN "a method" ELSE n.callee
  IN  CASE n.callee = ""               -> UNION {Kept(k) : k \in DOMAIN n.args}
        [] name = "array_push"         -> Kept(1) \cup Taken(2)
        [] name = "array_replace"      -> Kept(1) \cup Kept(3)
        [] name \in (Mutators \ {"array_push", "array_replace"}) \cup {"drop", "addressof"} -> Kept(1)
        [] name = "ptr_place"          -> Kept(2)
        [] name \in OnlyRead           -> {}
        [] OTHER -> UNION {ScanBorrowArg(c, f, n, Operands(n)[j], j) : j \in DOMAIN Operands(n)}

\* The candidates a node by itself is the end of.
Consumed(c, f, n) ==
  CASE n.kind = "Return"  -> ConsumeIfTaken(c, f, n.value)
    [] n.kind = "VarDecl" -> IF ~n.isRef THEN ConsumeIfTaken(c, f, n.init)
                             ELSE IF n.const THEN {} ELSE BorrowRoot(c, f, n.init)
    [] n.kind = "Assign"  -> BorrowRoot(c, f, n.target) \cup ConsumeIfTaken(c, f, n.value)
    [] n.kind = "IncDec"  -> BorrowRoot(c, f, n.operand)
    [] n.kind = "Init"    -> UNION {ConsumeIfTaken(c, f, n.args[k]) : k \in DOMAIN n.args}
    [] n.kind = "Invoke"  -> ScanCallBorrows(c, f, n)
    [] OTHER -> {}

Leave(f, c, n) == {q \in c : q \notin Consumed(c, f, n)}

ScanBorrows(c, f) ==
  LET nodes == fns[f].nodes
      upto[k \in 0..Len(nodes)] == IF k = 0 THEN c ELSE Leave(f, upto[k - 1], nodes[k])
  IN  upto[Len(nodes)]

-----------------------------------------------------------------------------
\* What the resolver refuses in a body, with the parameters of `l` borrowed.

\* The parameter of g an argument j is for: a rest takes all that follow, a bare
\* `...` has none.
ParamFor(g, j) ==
  IF j \in ParamsOf(g) THEN {<<g, j>>} ELSE IF fns[g].cvararg THEN {} ELSE {<<g, Len(fns[g].params)>>}

Fits(arg, q, isRest) ==
  IF isRest THEN arg.ty.form \notin {"fixed", "array"}
  ELSE arg.ty.form = q.ty.form \/ (arg.ty.form = "fixed" /\ q.ty.form = "array" /\ q.mod = "ref")

\* The functions a call may be resolved to.
Resolved(n) ==
  {g \in Callable(n) :
     LET params == fns[g].params
         rest   == params # <<>> /\ params[Len(params)].rest
     IN  /\ IF rest THEN Len(Operands(n)) >= Len(params) - 1
            ELSE Len(Operands(n)) = Len(params) \/ (fns[g].cvararg /\ Len(Operands(n)) > Len(params))
         /\ \A j \in DOMAIN Operands(n) \cap ParamsOf(g) : Fits(Operands(n)[j], params[j], params[j].rest)}

\* A node takes the values of these,
Taken(l, n) ==
  LET Into(j) == {g \in Resolved(n) : /\ ~fns[g].extern
                                     /\ \E q \in ParamFor(g, j) : Param(q).mod = "none" /\ q \notin l}
  IN  CASE n.kind = "Return"  -> {n.value}
        [] n.kind = "VarDecl" -> IF n.isRef THEN {} ELSE {n.init}
        [] n.kind = "Assign"  -> {n.value}
        [] n.kind = "Init"    -> {n.args[k] : k \in DOMAIN n.args}
        [] n.kind = "Invoke"  ->
             CASE Calls(n, {"array_push", "ptr_place"}) -> ArgOf(n, 2)
               [] Calls(n, {"array_replace"}) -> ArgOf(n, 3)
               [] OTHER -> {Operands(n)[j] : j \in {k \in DOMAIN Operands(n) : Into(k) # {}}}
        [] OTHER -> {}

\* and writes to these.
Written(n) ==
  CASE n.kind = "Assign" -> {n.target}
    [] n.kind = "IncDec" -> {n.operand}
    [] Calls(n, Mutators \cup {"drop"}) -> ArgOf(n, 1)
    [] OTHER -> {}

\* A mutable alias may be made of these.
LentMutably(n) ==
  CASE n.kind = "VarDecl" -> IF n.isRef /\ ~n.const THEN {n.init} ELSE {}
    [] n.kind = "Invoke"  ->
         {Operands(n)[j] : j \in {k \in DOMAIN Operands(n) : \E g \in Resolved(n) :
            \E q \in ParamFor(g, k) : Param(q).mod = "ref" /\ ~Param(q).const}}
    [] OTHER -> {}

\* The names no path may be written or moved through.
ConstNames(l, f) ==
  {Param(q).name : q \in {p \in {f} \X ParamsOf(f) : Param(p).const \/ p \in l}}
    \cup {n.name : n \in {m \in Body(f) : m.kind = "VarDecl" /\ m.isRef /\ m.const}}
RefNames(f) ==
  {Param(q).name : q \in {p \in {f} \X ParamsOf(f) : Param(p).mod = "ref"}}
    \cup {n.name : n \in {m \in Body(f) : m.kind = "VarDecl" /\ m.isRef}}
RestNames(f) == {Param(q).name : q \in {p \in {f} \X ParamsOf(f) : Param(p).rest}}

\* A struct is only looked at where it is returned or becomes an element.
MoveUnchecked(n) ==
  \/ n.kind = "VarDecl"
  \/ n.kind = "Assign" /\ n.target.end # "element"
  \/ n.kind = "Init" /\ n.ty.form # "array"
  \/ n.kind = "Invoke" /\ ~Calls(n, Builtins)

MoveErrors(l, f, n) ==
  {p \in Taken(l, n) : /\ p.kind = "Path" /\ p.ty.owns
                       /\ ~(MoveUnchecked(n) /\ p.ty.form \in {"struct", "noisy"})
                       /\ p.root \in ConstNames(l, f)
                            \/ (p.root \in RefNames(f) /\ p.ty.form \notin {"struct", "noisy"})}

ConstErrors(l, f, n) ==
  {p \in Written(n) \cup LentMutably(n) : p.kind = "Path" /\ p.root \in ConstNames(l, f)}

\* An array that may be on the stack: a `ref` parameter nobody grows; a literal, a
\* fixed array or a rest.
OnlyView(marked, f, p) ==
  /\ p.kind = "Path" /\ p.end = "whole"
  /\ \E q \in {f} \X ParamsOf(f) :
       Param(q).mod = "ref" /\ Param(q).ty.form = "array" /\ Param(q).name = p.root
  /\ RefArrayParamNamed(f, p.root) \cap marked = {}
IsView(f, p) ==
  \/ p.kind = "Init" /\ p.ty.form = "array"
  \/ p.ty.form = "fixed"
  \/ p.kind = "Path" /\ p.end = "whole" /\ p.root \in RestNames(f)

\* The first may not be grown, the others not given to who grows it.
GrowthErrors(marked, f, n) ==
  {p \in (IF n.kind = "Assign" THEN {n.target}
          ELSE IF Calls(n, Growing) THEN ArgOf(n, 1) ELSE {}) : OnlyView(marked, f, p)}
    \cup (IF n.kind # "Invoke" THEN {}
          ELSE {Operands(n)[j] : j \in {k \in DOMAIN Operands(n) :
                  IsView(f, Operands(n)[k]) /\ \E g \in Resolved(n) : <<g, k>> \in marked}})

Errors(l) == UNION {UNION {MoveErrors(l, f, n) \cup ConstErrors(l, f, n) \cup GrowthErrors(growing, f, n) :
                             n \in Body(f)} : f \in DOMAIN fns}

-----------------------------------------------------------------------------
\* Inference: MarkGrowableArrayParams, then InferBorrowedParams.

Init ==
  /\ fns \in Modules
  /\ phase = "growth" /\ round = 0 /\ scan = 1 /\ changed = FALSE
  /\ growing = {} /\ lent = {} /\ frames = <<>>

Scan(set) == scan' = scan + 1 /\ changed' = (changed \/ set)

MarkNextGrowth ==
  /\ phase = "growth" /\ scan \in DOMAIN fns
  /\ growing' = ScanGrowth(growing, scan)
  /\ Scan(growing' # growing)
  /\ UNCHANGED <<fns, phase, round, lent, frames>>

\* A bug: a function scanned later is not yet known to borrow.
ScanNextBorrowsCallersFirst ==
  /\ phase = "borrow" /\ scan \in DOMAIN fns
  /\ lent' = LET known == {q \in lent : q[1] <= scan}
             IN  {q \in ScanBorrows(lent, scan) : q[1] # scan \/ q \in ScanBorrows(known, scan)}
  /\ Scan(lent' # lent)
  /\ UNCHANGED <<fns, phase, round, growing, frames>>

ScanNextBorrows ==
  /\ phase = "borrow" /\ scan \in DOMAIN fns
  /\ lent' = ScanBorrows(lent, scan)
  /\ Scan(lent' # lent)
  /\ UNCHANGED <<fns, phase, round, growing, frames>>

\* A bug: a single round is taken to be enough.
AnotherRoundNever == FALSE

\* The fixpoint is not reached yet, and the cap on the rounds neither.
AnotherRound == changed /\ round + 1 < MaxRounds

EndRound ==
  /\ phase \in {"growth", "borrow"} /\ scan \notin DOMAIN fns
  /\ scan' = 1 /\ changed' = FALSE
  /\ IF AnotherRound THEN round' = round + 1 /\ UNCHANGED <<phase, lent>>
     ELSE /\ round' = 0
          /\ IF phase = "growth" THEN phase' = "borrow" /\ lent' = Eligible
             ELSE phase' = "check" /\ UNCHANGED lent
  /\ UNCHANGED <<fns, growing, frames>>

CheckBodies ==
  /\ phase = "check"
  /\ phase' = IF Errors(lent) = {} THEN "run" ELSE "rejected"
  /\ UNCHANGED <<fns, round, scan, changed, growing, lent, frames>>

-----------------------------------------------------------------------------
\* A run: a body may do whatever its nodes do, in any order.  Storage is on the
\* stack (`view`) or not, and lent for reading only (`kept`) or not.

Own  == [view |-> FALSE, kept |-> FALSE]
Top  == frames[Len(frames)]

Bound(p) == p.root \in DOMAIN Top.at

\* Where a path leads: an array in a part of something is on the heap.
Stored(p) == [view |-> p.ty.form = "fixed" \/ (p.end = "whole" /\ Top.at[p.root].view),
              kept |-> Top.at[p.root].kept]

\* The storage a parameter is given for an argument.
Passed(q, arg) ==
  IF Param(q).mod = "none" /\ q \notin lent THEN [Own EXCEPT !.view = Param(q).rest]
  ELSE LET from == IF arg.kind = "Path" THEN Stored(arg)
                   ELSE [Own EXCEPT !.view = arg.kind = "Init" /\ arg.ty.form = "array"]
       IN  [from EXCEPT !.kept = @ \/ Param(q).const \/ q \in lent]

Given(g, n) ==
  [j \in ParamsOf(g) |-> IF Param(<<g, j>>).rest THEN [Own EXCEPT !.view = TRUE]
                         ELSE Passed(<<g, j>>, Operands(n)[j])]

NamesOf(g, given) ==
  LET locals == {n \in Body(g) : n.kind = "VarDecl" /\ ~n.isRef}
  IN  [x \in {fns[g].params[j].name : j \in ParamsOf(g)} \cup {n.name : n \in locals} |->
         IF \E j \in ParamsOf(g) : fns[g].params[j].name = x
         THEN given[CHOOSE j \in ParamsOf(g) : fns[g].params[j].name = x]
         ELSE [Own EXCEPT !.view = \E n \in locals : n.name = x /\ n.ty.form = "fixed"]]

EnterExport(g) ==
  /\ phase = "run" /\ frames = <<>> /\ fns[g].export /\ MaxDepth > 0
  /\ frames' = <<[fn |-> g, at |-> NamesOf(g, [j \in ParamsOf(g) |-> Own])]>>
  /\ UNCHANGED inference

EnterCall(n, g) ==
  /\ Len(frames) < MaxDepth
  /\ HasBody(g)
  /\ \A j \in DOMAIN Operands(n) : Operands(n)[j].kind = "Path" => Bound(Operands(n)[j])
  /\ frames' = Append(frames, [fn |-> g, at |-> NamesOf(g, Given(g, n))])
  /\ UNCHANGED inference

BindRef(n) ==
  /\ n.name \notin DOMAIN Top.at
  /\ n.init.kind = "Path" /\ Bound(n.init)
  /\ frames' = [frames EXCEPT ![Len(frames)].at =
                  [x \in DOMAIN @ \cup {n.name} |->
                     IF x = n.name THEN [Stored(n.init) EXCEPT !.kept = @ \/ n.const] ELSE @[x]]]
  /\ UNCHANGED inference

LeaveCall ==
  /\ frames' = SubSeq(frames, 1, Len(frames) - 1)
  /\ UNCHANGED inference

Ended == phase = "rejected" /\ UNCHANGED vars

Next ==
  \/ MarkNextGrowth \/ ScanNextBorrows \/ EndRound \/ CheckBodies \/ Ended
  \/ \E g \in DOMAIN fns : EnterExport(g)
  \/ /\ frames # <<>>
     /\ \/ \E n \in Body(Top.fn) : n.kind = "Invoke" /\ \E g \in Resolved(n) : EnterCall(n, g)
        \/ \E n \in Body(Top.fn) : n.kind = "VarDecl" /\ n.isRef /\ BindRef(n)
        \/ LeaveCall

Spec == Init /\ [][Next]_vars

-----------------------------------------------------------------------------
\* What a node of the body on top of the stack takes, with both sides of a
\* `?:`; what it grows or rebinds; and which of these paths it has storage for.
Sources(v) == IF v.kind = "Conditional" THEN {v.then, v.else} ELSE {v}
Moved(n)   == {p \in UNION {Sources(v) : v \in Taken(lent, n)} : p.kind = "Path" /\ p.ty.owns}
Grown(n)   == {p \in Written(n) : /\ p.kind = "Path" /\ p.ty.form = "array"
                                  /\ n.kind = "Assign" \/ Calls(n, Resizing)}
Known(ps)  == {p \in ps : p.kind = "Path" /\ Bound(p)}

\* It takes nothing and writes nothing it was only lent,
LentKept(n)  == \A p \in Known(Moved(n) \cup Written(n)) : ~Stored(p).kept
\* and grows, rebinds or takes nothing that lives on the stack.
ViewsKept(n) == \A p \in Known(Moved(n) \cup Grown(n)) : ~Stored(p).view

\* A miss of the inference is an error in a body, never a wrong program.
StorageKept == frames # <<>> => \A n \in Body(Top.fn) : LentKept(n) /\ ViewsKept(n)

\* Borrowing what is only read refuses no module that is accepted when every
\* such parameter takes its argument.
NoFalseError == phase = "check" /\ Errors({}) = {} => Errors(lent) = {}

\* No parameter takes its argument without need: the inferred borrows are all
\* the candidates that a whole round can leave as they are.
InferenceIsGreatest ==
  phase = "check" =>
    \A c \in {lent \cup more : more \in (SUBSET (Eligible \ lent)) \ {{}}} :
      \E f \in DOMAIN fns : ScanBorrows(c, f) # c
=============================================================================
