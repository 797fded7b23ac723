----------------------------- MODULE WriteSets ------------------------------
(***************************************************************************)
(* The globals each function may write and read, directly or through the   *)
(* functions it calls (src/src/Sema/MoveCheck/WriteSets.c), and the calls  *)
(* of a run, which is what the sets are about.                             *)
(*                                                                         *)
(* ScanWrites gives what a function does by itself.  The sets are then     *)
(* passed over, function by function and callee by callee, until a pass    *)
(* changes nothing.                                                        *)
(***************************************************************************)
EXTENDS Places

CONSTANTS Modules,    \* of each module, its functions: [body, extern, locals, ops], the
                      \* operations of the graph in order, and its globals
          MaxDepth    \* of the calls of a run

FnsOf(m) == m.fns

-----------------------------------------------------------------------------
\* What one operation writes and reads.

ArrayMutators == {"array_push", "array_pop", "array_resize", "array_remove", "array_swap_remove", "array_reserve",
                  "array_replace", "array_take"}

ArgMode(n, k) ==
  IF n.args[k].byValue THEN "move"
  ELSE IF n.kind = "Intrinsic" THEN IF k = 1 /\ n.callee \in ArrayMutators THEN "mut" ELSE "shared"
  ELSE IF n.args[k].ref = "no" THEN "shared" ELSE "mut"

IsGlobalPlace(fn, key) == key # NoKey /\ key[1].text \notin fn.locals

\* A bug: what is lent to be changed is not counted.
WrittenKeysOfOwn(n) ==
  CASE n.kind = "Assign" -> {n.target.lax}
    [] n.kind = "IncDec" -> {n.operand.lax}
    [] n.kind = "Intrinsic" /\ n.callee = "drop" -> {n.args[1].arg.lax}
    [] OTHER -> {}

WrittenKeys(n) ==
  CASE n.kind = "Assign" -> {n.target.lax}
    [] n.kind = "IncDec" -> {n.operand.lax}
    [] n.kind = "Intrinsic" /\ n.callee = "drop" -> {n.args[1].arg.lax}
    [] n.kind = "Call" \/ (n.kind = "Intrinsic" /\ n.callee # "drop") -> {n.args[k].arg.lax : k \in {j \in DOMAIN n.args : ArgMode(n, j) = "mut"}}
    [] OTHER -> {}

NoteWrites(fn, n) == {key \in WrittenKeys(n) : IsGlobalPlace(fn, key)}

RootIdent(n)     == n.steps[1].at
NoteReads(fn, n) == IF IsPlace(n) THEN {RootIdent(n)} \ fn.locals ELSE {}

IsCall(op)  == op.op = "Eval" /\ op.node.kind = "Call"
Evals(fn)   == {k \in DOMAIN fn.ops : fn.ops[k].op = "Eval"}
Unknown     == 0     \* a call through a delegate, or a constructor, resolves to no function

\* ScanWrites, and what is assumed of a function without a body.
Direct(fn) ==
  [keys  |-> IF fn.body THEN UNION {NoteWrites(fn, fn.ops[k].node) : k \in Evals(fn)} ELSE {},
   reads |-> IF fn.body THEN UNION {NoteReads(fn, fn.ops[k].node) : k \in Evals(fn)} ELSE {},
   all   |-> IF fn.body THEN \E k \in Evals(fn) : IsCall(fn.ops[k]) /\ fn.ops[k].node.decl = Unknown
                        ELSE ~fn.extern]

\* The functions a function calls, but for `extern` ones.
Noted(m, op)  == IsCall(op) /\ op.node.decl # Unknown
                   /\ (op.node.decl \in DOMAIN FnsOf(m) => ~FnsOf(m)[op.node.decl].extern)
Callees(m, f) ==
  IF ~FnsOf(m)[f].body THEN <<>>
  ELSE LET Test(op) == Noted(m, op)
           calls    == SelectSeq(FnsOf(m)[f].ops, Test)
       IN  [k \in DOMAIN calls |-> calls[k].node.decl]

ASSUME ModulesAssumption ==
  \A name \in DOMAIN Modules : LET m == Modules[name] IN
    /\ Len(FnsOf(m)) \in Nat \ {0} /\ DOMAIN FnsOf(m) = 1..Len(FnsOf(m))
    /\ \A f \in DOMAIN FnsOf(m) : /\ Len(Callees(m, f)) \in Nat
                                  /\ DOMAIN Callees(m, f) = 1..Len(Callees(m, f))
                                  /\ Direct(FnsOf(m)[f]).all \in BOOLEAN
ASSUME MaxDepthAssumption == MaxDepth \in Nat

-----------------------------------------------------------------------------
VARIABLES mod,       \* the module
          phase,     \* "merge", "done"
          sets,      \* of each function, its FnWrites [keys, reads, all]
          caller, nextCall,\* the next callee to merge
          changed,
          stack      \* the calls of the run, the outermost first

setVars   == <<mod, phase, sets, caller, nextCall, changed>>
writeVars == <<setVars, stack>>

Functions == DOMAIN FnsOf(mod)
Called(f) == Callees(mod, f)

\* The caller's set with what a callee adds; a callee without a set may do anything.
Merged(w, c) ==
  IF c \notin Functions THEN [w EXCEPT !.all = TRUE]
  ELSE [keys |-> w.keys \cup sets[c].keys, reads |-> w.reads \cup sets[c].reads, all |-> w.all \/ sets[c].all]

SetsInit ==
  /\ \E name \in DOMAIN Modules : mod = Modules[name]
  /\ phase = "merge" /\ caller = 1 /\ nextCall = 1 /\ changed = FALSE
  /\ sets = [f \in Functions |-> Direct(FnsOf(mod)[f])]
  /\ stack = <<>>

MergeCallee ==
  /\ phase = "merge" /\ nextCall <= Len(Called(caller))
  /\ sets' = [sets EXCEPT ![caller] = Merged(@, Called(caller)[nextCall])]
  /\ changed' = (changed \/ Merged(sets[caller], Called(caller)[nextCall]) # sets[caller])
  /\ nextCall' = nextCall + 1
  /\ UNCHANGED <<mod, phase, caller, stack>>

NextFunction ==
  /\ phase = "merge" /\ nextCall > Len(Called(caller)) /\ caller < Len(FnsOf(mod))
  /\ caller' = caller + 1 /\ nextCall' = 1
  /\ UNCHANGED <<mod, phase, sets, changed, stack>>

\* Bugs: a single pass; a pass counts as a change.
EndPassOnce ==
  /\ phase = "merge" /\ nextCall > Len(Called(caller)) /\ caller = Len(FnsOf(mod))
  /\ phase' = "done" /\ UNCHANGED <<mod, sets, caller, nextCall, changed, stack>>
EndPassAgain ==
  /\ phase = "merge" /\ nextCall > Len(Called(caller)) /\ caller = Len(FnsOf(mod))
  /\ phase' = "merge" /\ caller' = 1 /\ nextCall' = 1 /\ UNCHANGED <<mod, sets, changed, stack>>

EndPass ==
  /\ phase = "merge" /\ nextCall > Len(Called(caller)) /\ caller = Len(FnsOf(mod))
  /\ IF changed THEN phase' = "merge" /\ caller' = 1 /\ nextCall' = 1
                ELSE phase' = "done" /\ UNCHANGED <<caller, nextCall>>
  /\ changed' = FALSE
  /\ UNCHANGED <<mod, sets, stack>>

Merge == MergeCallee \/ NextFunction \/ EndPass

\* A call of the run: from a function that calls it, from one that makes an
\* unknown call, or from outside.
MayCall(f, g) == FnsOf(mod)[f].body /\ (g \in {Called(f)[k] : k \in DOMAIN Called(f)} \/ Direct(FnsOf(mod)[f]).all)
Enter(g) ==
  /\ phase = "done" /\ Len(stack) < MaxDepth
  /\ stack # <<>> => MayCall(stack[Len(stack)], g)
  /\ stack' = Append(stack, g)
  /\ UNCHANGED setVars
Leave ==
  /\ phase = "done" /\ stack # <<>>
  /\ stack' = SubSeq(stack, 1, Len(stack) - 1)
  /\ UNCHANGED setVars

SetsNext == Merge \/ (\E g \in Functions : Enter(g)) \/ Leave
SetsSpec == SetsInit /\ [][SetsNext]_writeVars

-----------------------------------------------------------------------------
\* a covers b: what b may write, a may.
Covers(a, b) == a.all \/ (~b.all /\ b.keys \subseteq a.keys /\ b.reads \subseteq a.reads)

\* What a call may write, every function that waits for it may write: the sets
\* answer for callees of callees (CheckGlobalArgs, CallFactStep ask one set only).
CoversCalls == \A i, j \in DOMAIN stack : i <= j => Covers(sets[stack[i]], sets[stack[j]])

\* The sets are closed under calls; a callee without a set may do anything.
Closed(w) ==
  \A f \in Functions :
    /\ Covers(w[f], Direct(FnsOf(mod)[f]))
    /\ \A k \in DOMAIN Called(f) : IF Called(f)[k] \in Functions THEN Covers(w[f], w[Called(f)[k]]) ELSE w[f].all

\* The sets of functions that call none but their own, and what such a set must have
\* of the functions within reach of one.
CalleesOf(f) == LET called == Called(f) IN {called[k] : k \in DOMAIN called}
CallClosed ==
  LET callees == UNION {{f} \X (CalleesOf(f) \cap Functions) : f \in Functions}
  IN  {S \in SUBSET Functions : \A c \in callees : c[1] \in S => c[2] \in S}
Within(f, closed) == {g \in Functions : \A S \in closed : f \in S => g \in S}

\* A function without a set is called: it may do anything.
Anything(f) == Direct(FnsOf(mod)[f]).all \/ ~(CalleesOf(f) \subseteq Functions)

\* The sets hold what the functions within reach do by themselves, and nothing else
\* (WriteSetsBuild).
SetsAreLeast ==
  phase = "done" =>
    LET closed == CallClosed
    IN  \A f \in Functions : LET within == Within(f, closed) IN
          sets[f] = [keys  |-> UNION {Direct(FnsOf(mod)[g]).keys : g \in within},
                     reads |-> UNION {Direct(FnsOf(mod)[g]).reads : g \in within},
                     all   |-> \E g \in within : Anything(g)]
=============================================================================
