------------------------------ MODULE CfgLower ------------------------------
(***************************************************************************)
(* The control-flow graph the move checker runs over: CfgBuild and the     *)
(* Lower* functions of src/src/Sema/Cfg.c, as operators that thread the    *)
(* builder through a statement tree.                                       *)
(*                                                                         *)
(* A statement or expression is a record whose `kind` is the AST node kind. *)
(* A variable or a chain of fields on one (IsPurePlace) is a single node of *)
(* kind "Place" with the `path` it spells, <<"a">> or <<"a", "f">>.  Block  *)
(* numbers are the array indices of the code plus one: the entry is block 1 *)
(* and the exit block 2.                                                   *)
(*                                                                         *)
(* The tree recursion needs RECURSIVE operators, so nothing is proved about *)
(* this module; the modules with proofs take graphs as constants.          *)
(***************************************************************************)
EXTENDS Ast
LOCAL INSTANCE SequencesExt
LOCAL INSTANCE TLC

EmptyBlock == [ops |-> <<>>, succ |-> <<>>, loopCond |-> FALSE]

\* The Builder: the blocks so far, the current one, the open scopes with their
\* pending defers, the enclosing loops, and whether a defer is being lowered.
EmptyBuilder == [blocks |-> <<EmptyBlock, EmptyBlock>>, cur |-> Entry,
                 scopes |-> <<>>, loops |-> <<>>, deferDepth |-> 0]

NewBlocks(b, n) == [b EXCEPT !.blocks = @ \o [i \in 1..n |-> EmptyBlock]]
LastBlock(b)    == Len(b.blocks)
MoveTo(b, blk)  == [b EXCEPT !.cur = blk]

Emit(b, op) == [b EXCEPT !.blocks[b.cur].ops = Append(@, op)]

EvalOp(n, consumed) == [op |-> "Eval", node |-> n, consumed |-> consumed]

\* A block has at most two successors; a third edge is ignored.
AddEdge(b, from, to) ==
  IF Len(b.blocks[from].succ) < 2
    THEN [b EXCEPT !.blocks[from].succ = Append(@, to)]
    ELSE b

Goto(b, target) == AddEdge(b, b.cur, target)

\* Statements after a jump land in a block nothing enters.
StartDeadBlock(b) == MoveTo(NewBlocks(b, 1), LastBlock(b) + 1)

PushScope(b, block) ==
  [b EXCEPT !.scopes = Append(@, [block |-> block, defers |-> <<>>])]
PopScope(b) == [b EXCEPT !.scopes = Front(@)]

RECURSIVE LowerStmt(_, _), LowerExprC(_, _, _), LowerPlace(_, _)

LowerExpr(b, n) == LowerExprC(b, n, FALSE)

\* A place being written or borrowed is not read: only the base it goes
\* through and its index operands run.
LowerPlaceRoot(b, base) ==
  IF base.kind = "Place" /\ Len(base.path) = 1
    THEN Emit(b, EvalOp(base, FALSE))
    ELSE LowerPlace(b, base)

LowerPlace(b, n) ==
  CASE n.kind \in {"None", "Place"} -> b
    [] n.kind = "Member" -> LowerPlaceRoot(b, n.base)
    [] n.kind = "Index"  -> LowerExpr(LowerPlaceRoot(b, n.base), n.index)
    [] OTHER -> LowerExpr(b, n)

\* What `c` having the value proves: key :> TRUE when set, FALSE when empty
\* (ApplyCond): `x?` terms joined by && when it is true, by || when it is false,
\* under any number of `!`.  A later term overrides an earlier one.
RECURSIVE CondFacts(_, _)
CondFacts(c, value) ==
  CASE c.kind = "Unary" -> CondFacts(c.operand, ~value)
    [] c.kind = "NullTest" -> IF c.operand.key = <<>> THEN <<>> ELSE c.operand.key :> value
    [] c.kind = IF value THEN "And" ELSE "Or" -> CondFacts(c.rhs, value) @@ CondFacts(c.lhs, value)
    [] OTHER -> <<>>

\* Lowers `cond` and ends the block it finishes in on its value.
EndOnCondition(b, cond, onTrue, onFalse) ==
  AddEdge(AddEdge(Emit(b, [op |-> "Condition", node |-> cond,
                           proves |-> <<CondFacts(cond, TRUE), CondFacts(cond, FALSE)>>]),
                  b.cur, onTrue),
          b.cur, onFalse)

Branch(b, cond, onTrue, onFalse) == EndOnCondition(LowerExpr(b, cond), cond, onTrue, onFalse)

MarkLoopCond(b) == [b EXCEPT !.blocks[b.cur].loopCond = TRUE]

\* Block `start` evaluates `n` and leads to `target`.
ExprFrom(b, start, n, consumed, target) == Goto(LowerExprC(MoveTo(b, start), n, consumed), target)

\* `&&` and `||`: the right operand has a block of its own, and the operator
\* itself is evaluated where the two ways meet.
LowerLogic(b, n, consumed) ==
  LET rhs   == LastBlock(b) + 1
      join  == LastBlock(b) + 2
      isAnd == n.kind = "And"
  IN  Emit(MoveTo(ExprFrom(Branch(NewBlocks(b, 2), n.lhs, IF isAnd THEN rhs ELSE join,
                                                         IF isAnd THEN join ELSE rhs),
                           rhs, n.rhs, FALSE, join),
                  join),
           EvalOp(n, consumed))

LowerConditional(b, n, consumed) ==
  LET thn  == LastBlock(b) + 1
      els  == LastBlock(b) + 2
      join == LastBlock(b) + 3
  IN  Emit(MoveTo(ExprFrom(ExprFrom(Branch(NewBlocks(b, 3), n.cond, thn, els),
                                    thn, n.then, consumed, join),
                           els, n.else, consumed, join),
                  join),
           EvalOp(n, consumed))

\* The operands of the remaining expressions, in evaluation order.
LowerOperands(b, n, consumed) ==
  CASE n.kind = "Assign"   -> LowerPlace(LowerExprC(b, n.value, TRUE), n.target)
    [] n.kind = "IncDec"   -> LowerPlace(b, n.operand)
    [] n.kind \in {"Unary", "NullTest"} -> LowerExpr(b, n.operand)
    [] n.kind = "Member"   -> LowerExpr(b, n.base)
    [] n.kind = "Index"    -> LowerExpr(LowerExpr(b, n.base), n.index)
    [] n.kind = "Binary"   -> LowerExpr(LowerExpr(b, n.lhs), n.rhs)
    \* An argument's byValue is ArgIsConsumed of the callee; a literal takes
    \* its elements by value.
    [] n.kind \in {"Call", "Intrinsic", "Init"} ->
         FoldLeft(LAMBDA acc, a : LowerExprC(acc, a.arg, a.byValue), b, n.args)
    [] OTHER -> b

LowerExprC(b, n, consumed) ==
  CASE n.kind = "None"            -> b
    [] n.kind \in {"And", "Or"}   -> LowerLogic(b, n, consumed)
    [] n.kind = "Conditional"     -> LowerConditional(b, n, consumed)
    [] OTHER -> Emit(LowerOperands(b, n, consumed), EvalOp(n, consumed))

\* Lowers the deferred statements of one scope, the latest first.
LowerDefers(b, scope) == FoldRight(LAMBDA d, acc : LowerStmt(acc, d), scope.defers, b)

\* The defers of the scopes above `depth`, each followed by its scope's exit,
\* innermost first; nothing while a defer is itself being lowered.
EmitExit(b, block) == IF block = NoNode THEN b ELSE Emit(b, [op |-> "ScopeExit", node |-> block])

LeaveScope(b, s) ==
  EmitExit([LowerDefers([b EXCEPT !.deferDepth = @ + 1], b.scopes[s]) EXCEPT !.deferDepth = @ - 1],
           b.scopes[s].block)

RunDefers(b, depth) ==
  IF b.deferDepth > 0 THEN b
  ELSE FoldLeft(LeaveScope, b, [i \in 1..(Len(b.scopes) - depth) |-> Len(b.scopes) + 1 - i])

EndBlock(b, n) == PopScope(EmitExit(LowerDefers(b, Last(b.scopes)), n))
LowerBlock(b, n) == EndBlock(FoldLeft(LowerStmt, PushScope(b, n), n.stmts), n)

LowerVarDecl(b, n) ==
  Emit(LowerExprC(b, n.init, ~n.isRef), [op |-> "Declare", node |-> n])

\* Nothing follows a @noreturn call, not even the defers.
LowerExprStmt(b, n) ==
  LET After(b1) == IF n.noreturn THEN StartDeadBlock(b1) ELSE b1
  IN  After(LowerExpr(b, n.expr))

LowerDefer(b, n) ==
  IF b.scopes = <<>> THEN b
  ELSE [b EXCEPT !.scopes[Len(b.scopes)].defers = Append(@, n.stmt)]

LowerReturn(b, n) ==
  StartDeadBlock(Goto(RunDefers(Emit(LowerExprC(b, n.value, TRUE), [op |-> "Return", node |-> n]), 0),
                      Exit))

LowerBreakContinue(b, n) ==
  IF b.loops = <<>> THEN b
  ELSE LET lf == Last(b.loops)
       IN  StartDeadBlock(Goto(RunDefers(b, lf.scopeDepth),
                               IF n.kind = "Break" THEN lf.breakTarget
                                                   ELSE lf.continueTarget))

\* Block `start` runs `stmt` and leads to `target`.
StmtFrom(b, start, stmt, target) == Goto(LowerStmt(MoveTo(b, start), stmt), target)

\* The blocks of an `if` are allocated before the statements inside it, so a
\* join has a smaller number than the blocks of a nested `if` that lead to it.
LowerIf(b, n) ==
  LET hasElse == n.else # NoNode
      join == LastBlock(b) + IF hasElse THEN 3 ELSE 2
      thn  == LastBlock(b) + 1
      els  == IF hasElse THEN LastBlock(b) + 2 ELSE join
      Else(b1) == IF hasElse THEN StmtFrom(b1, els, n.else, join) ELSE b1
  IN  MoveTo(Else(StmtFrom(Branch(NewBlocks(b, join - LastBlock(b)), n.cond, thn, els),
                           thn, n.then, join)),
             join)

PushLoop(b, brk, cont) ==
  [b EXCEPT !.loops = Append(@, [breakTarget |-> brk, continueTarget |-> cont,
                                 scopeDepth |-> Len(b.scopes)])]
PopLoop(b) == [b EXCEPT !.loops = Front(@)]

\* Enters the loop's head, which leads to the body alone (`endless`) or ends on
\* the loop's condition.
HeadEnd(b, cond, endless, body, after) ==
  IF endless THEN Goto(b, body) ELSE MarkLoopCond(Branch(b, cond, body, after))
LowerLoopHead(b, cond, endless, head, body, after) ==
  HeadEnd(MoveTo(Goto(b, head), head), cond, endless, body, after)

\* The body of the loop, from which `break` and `continue` get out.
LowerLoopBody(b, body, stmt, brk, cont) == PopLoop(StmtFrom(PushLoop(b, brk, cont), body, stmt, cont))

\* `while (true)` has no way out but break and return.
LowerWhile(b, n) ==
  LET head  == LastBlock(b) + 1
      body  == LastBlock(b) + 2
      after == LastBlock(b) + 3
  IN  MoveTo(LowerLoopBody(LowerLoopHead(NewBlocks(b, 3), n.cond, n.cond.kind = "True", head, body, after),
                           body, n.body, after, head),
             after)

\* The loop of a `for`, after its init has run.
LowerForLoop(b, n) ==
  LET head  == LastBlock(b) + 1
      body  == LastBlock(b) + 2
      step  == LastBlock(b) + 3
      after == LastBlock(b) + 4
  IN  MoveTo(ExprFrom(LowerLoopBody(LowerLoopHead(NewBlocks(b, 4), n.cond, n.cond = NoNode, head, body, after),
                                    body, n.body, after, step),
                      step, n.update, FALSE, head),
             after)

LowerFor(b, n) == PopScope(LowerForLoop(LowerStmt(PushScope(b, NoNode), n.init), n))

LowerStmt(b, n) ==
  CASE n.kind = "Block"    -> LowerBlock(b, n)
    [] n.kind = "VarDecl"  -> LowerVarDecl(b, n)
    [] n.kind = "ExprStmt" -> LowerExprStmt(b, n)
    [] n.kind = "Defer"    -> LowerDefer(b, n)
    [] n.kind = "Return"   -> LowerReturn(b, n)
    [] n.kind \in {"Break", "Continue"} -> LowerBreakContinue(b, n)
    [] n.kind = "If"       -> LowerIf(b, n)
    [] n.kind = "While"    -> LowerWhile(b, n)
    [] n.kind = "For"      -> LowerFor(b, n)
    [] OTHER -> b

\* The blocks some path from the entry gets to.
RECURSIVE ReachFrom(_, _)
ReachFrom(blocks, seen) ==
  LET next == seen \cup UNION {{blocks[x].succ[i] : i \in DOMAIN blocks[x].succ} : x \in seen}
  IN  IF next = seen THEN seen ELSE ReachFrom(blocks, next)

MarkReachable(blocks) == ReachFrom(blocks, {Entry})

\* (Lowering the body is written as a fold, which lets TLC evaluate a constant
\* table of graphs once.)
Graph(b) == [blocks |-> b.blocks, reachable |-> MarkReachable(b.blocks)]
CfgBuild(body) == Graph(Goto(FoldLeft(LowerStmt, EmptyBuilder, <<body>>), Exit))
=============================================================================
