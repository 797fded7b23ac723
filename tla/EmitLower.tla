------------------------------ MODULE EmitLower ------------------------------
(***************************************************************************)
(* The code the LLVM backend writes for the statements and owning          *)
(* expressions of a function: Stmt.c, Ownership.c, Boxes.c, Assign.c and   *)
(* the owning parts of Expr.c, Call.c, Numeric.c and Function.c in         *)
(* src/src/Codegen/Builder, as operators that thread the Builder through   *)
(* the same trees CfgLower takes.                                          *)
(*                                                                         *)
(* Code is blocks of instructions that load, store, clear and drop owned   *)
(* values; values that own nothing leave no trace.  An owning type has a   *)
(* `shape`:                                                                *)
(*   "box"   ^int, a pointer                                               *)
(*   "node"  a box whose contents own another one, under `next`            *)
(*   "fat"   string, T[]                                                   *)
(*   "rec"   a struct held by value with two fat fields `f`, `g`           *)
(*   "res"   a struct held by value with a drop method (it has a drop flag)*)
(* The tree recursion needs RECURSIVE operators: nothing is proved here.   *)
(***************************************************************************)
EXTENDS Ast
LOCAL INSTANCE SequencesExt
LOCAL INSTANCE TLC

Shaped(ty, shape) == ty @@ [shape |-> shape]
IsStruct(ty)      == ty.shape \in {"rec", "res"}

\* Storage: a local, a temporary, or a part of one.
Slot(x, shape) == [path |-> <<x>>, shape |-> shape]
Loc(n)         == [path |-> n.path, shape |-> n.ty.shape]
TempName(r)    == "%" \o ToString(r)

Jump(to)          == [op |-> "br", to |-> to]
CondJump(c, t, e) == [op |-> "cond", name |-> c.name, then |-> t, else |-> e]
Return_(r)        == [op |-> "ret", reg |-> r]
Unreachable       == [op |-> "unreachable"]
NoEnd             == [op |-> "none"]
EmptyCode         == [code |-> <<>>, end |-> NoEnd]

\* The Builder.  `val` is the register of the last expression (0: it owns
\* nothing), `fresh` the call results nothing has bound or borrowed yet,
\* `takes` the arguments of the calls being lowered.
EmptyEmitter ==
  [blocks |-> <<EmptyCode>>, cur |-> 1, terminated |-> FALSE, scopes |-> <<>>, owning |-> <<>>,
   loops |-> <<>>, temps |-> <<>>, fresh |-> {}, parts |-> <<>>, takes |-> <<>>, val |-> 0, regs |-> 0]

NewBbs(b, n)  == [b EXCEPT !.blocks = @ \o [i \in 1..n |-> EmptyCode]]
LastBb(b)     == Len(b.blocks)
Put(b, i)     == [b EXCEPT !.blocks[b.cur].code = Append(@, i)]
PutAll(b, is) == [b EXCEPT !.blocks[b.cur].code = @ \o is]
PutValue(b, i) == [Put(b, i @@ [reg |-> b.regs + 1]) EXCEPT !.regs = @ + 1, !.val = b.regs + 1]
NoValue(b)    == [b EXCEPT !.val = 0]
EndWith(b, e) == [b EXCEPT !.blocks[b.cur].end = e, !.terminated = TRUE]
PositionAtEnd(b, blk) == [b EXCEPT !.cur = blk, !.terminated = FALSE]
Br(b, to)     == IF b.terminated THEN b ELSE EndWith(b, Jump(to))

Store(at, r) == [op |-> "store", at |-> at, from |-> r]
Clear(at)    == [op |-> "clear", at |-> at]
New(shape)   == [op |-> "new", shape |-> shape]

-----------------------------------------------------------------------------
\* Drops and drop flags.

Flagged(b, at) == \E i \in DOMAIN b.owning : b.owning[i].at = at /\ b.owning[i].flag

\* A bug: a flag is armed and never cleared.
SetDropFlagOnly(b, at, set) ==
  IF Flagged(b, at) /\ set THEN Put(b, [op |-> "flag", at |-> at, set |-> set]) ELSE b
SetDropFlag(b, at, set) ==
  IF Flagged(b, at) THEN Put(b, [op |-> "flag", at |-> at, set |-> set]) ELSE b

EmitDropOne(b, at) == Put(b, [op |-> "drop", at |-> at, ifSet |-> FALSE, scopeEnd |-> FALSE])
EmitDropReg(b, r, shape, ifSet) == Put(b, [op |-> "dropReg", from |-> r, shape |-> shape, ifSet |-> ifSet])

\* A bug: in the order of declaration.
EmitDropsForward(b, from) ==
  FoldLeft(LAMBDA acc, ol : Put(acc, [op |-> "drop", at |-> ol.at, ifSet |-> ol.flag, scopeEnd |-> TRUE]),
           b, SubSeq(b.owning, from + 1, Len(b.owning)))
\* The owning locals declared since the mark, the last declared first.
EmitDrops(b, from) ==
  FoldRight(LAMBDA ol, acc : Put(acc, [op |-> "drop", at |-> ol.at, ifSet |-> ol.flag, scopeEnd |-> TRUE]),
            SubSeq(b.owning, from + 1, Len(b.owning)), b)
PopLocals(b, mark) == [b EXCEPT !.owning = SubSeq(@, 1, mark)]
PushLocal(b, x, shape) ==
  [b EXCEPT !.owning = Append(@, [at |-> Slot(x, shape), flag |-> shape = "res"])]

-----------------------------------------------------------------------------
\* Temporaries of the statement.

ParkTemp(b, r, shape) ==
  [Put(b, Store(Slot(TempName(r), shape), r)) EXCEPT !.fresh = @ \ {r},
                                                     !.temps = Append(@, Slot(TempName(r), shape))]
ClaimTemp(b, r, shape) == IF r \in b.fresh THEN ParkTemp(b, r, shape) ELSE b

\* Where the pieces taken out of temporaries live.
PartOf(b, n)    == SelectSeq(b.parts, LAMBDA p : p.node = n)
HasPart(b, n)   == PartOf(b, n) # <<>>
AddPart(b, n, path, idx) ==
  [b EXCEPT !.parts = Append(@, [node |-> n, at |-> [path |-> path, shape |-> n.ty.shape], idx |-> idx])]

\* `n` is an owning piece read out of the value in register r, which `n.base` made.
BorrowTempPart(b, n, r) ==
  IF HasPart(b, n.base)
    THEN LET p == Last(PartOf(b, n.base)) IN AddPart(b, n, Append(p.at.path, n.field), p.idx)
  ELSE IF r \in b.fresh
    THEN AddPart(ClaimTemp(b, r, n.base.ty.shape), n, <<TempName(r), n.field>>, Len(b.temps) + 1)
  ELSE b

FlushTemps(b, mark) ==
  [IF b.terminated THEN b ELSE FoldLeft(EmitDropOne, b, SubSeq(b.temps, mark + 1, Len(b.temps)))
   EXCEPT !.temps = SubSeq(@, 1, mark), !.fresh = {},
          !.parts = SelectSeq(@, LAMBDA p : p.idx <= mark)]

-----------------------------------------------------------------------------
\* Moving out of a place.  `consumed` is the context the graph knows: the
\* checker annotates the place with it (UseMove), unless the use is a copy.

IsSource(n) == n.kind \in {"Place", "Member"}
MovedSource(n, consumed) == consumed /\ IsSource(n) /\ n.ty.owns /\ ~n.copied

\* A bug: an optional is not cleared when it moves.
SourceClearsPlain(b, n, consumed) ==
  IF ~MovedSource(n, consumed) \/ n.ty.opt THEN <<>>
  ELSE IF HasPart(b, n) THEN <<Clear(Last(PartOf(b, n)).at)>>
  ELSE IF n.kind = "Place" THEN <<Clear(Loc(n))>> ELSE <<>>
\* A piece of a temporary is cleared there; a place is cleared where it is.
SourceClears(b, n, consumed) ==
  IF ~MovedSource(n, consumed) THEN <<>>
  ELSE IF HasPart(b, n) THEN <<Clear(Last(PartOf(b, n)).at)>>
  ELSE IF n.kind = "Place" THEN <<Clear(Loc(n))>> ELSE <<>>

NullMovedSource(b, n, consumed) ==
  IF MovedSource(n, consumed) /\ n.kind = "Place" /\ IsStruct(n.ty)
    THEN SetDropFlag(PutAll(b, SourceClears(b, n, consumed)), Loc(n), FALSE)
    ELSE PutAll(b, SourceClears(b, n, consumed))

\* A string literal is borrowed bytes until an owner copies it.
IsLiteral(n) == n.kind = "Value"
EmitOwnedValue(b, n) ==
  IF IsLiteral(n) /\ n.ty.owns /\ n.ty.shape = "fat" THEN PutValue(b, New("fat"))
  ELSE [NullMovedSource(b, n, TRUE) EXCEPT !.val = b.val]

\* A bug: the old value is not saved before the store.
OverwriteUnsaved(b, at, r, between, ifSet) ==
  [EmitDropReg(PutAll(Put([b EXCEPT !.regs = @ + 1], Store(at, r)), between), b.regs + 1, at.shape, ifSet)
   EXCEPT !.val = r]

\* Saves what the slot holds (and its flag), stores the new value, does what is
\* `between`, and drops the saved value.
Overwrite(b, at, r, between, ifSet) ==
  [EmitDropReg(PutAll(Put(PutValue(b, [op |-> "save", at |-> at]), Store(at, r)), between),
               b.regs + 1, at.shape, ifSet)
   EXCEPT !.val = r]

-----------------------------------------------------------------------------
\* Expressions.

RECURSIVE EmitExpr(_, _, _), EmitStmt(_, _)

NoteFresh(b) == [b EXCEPT !.fresh = @ \cup {b.val}]
Used(b, r)   == IF r = 0 THEN b ELSE Put(b, [op |-> "use", from |-> r])

\* A place is loaded; a variable that moves out has its flag cleared at once.
\* A plain field is read through what holds it.
EmitPlace(b, n, consumed) ==
  IF ~n.ty.owns
    THEN NoValue(IF Len(n.path) = 1 THEN b ELSE Put(b, [op |-> "deref", at |-> Loc(n.base)]))
  ELSE IF MovedSource(n, consumed) /\ Len(n.path) = 1
    THEN SetDropFlag(PutValue(b, [op |-> "load", at |-> Loc(n), opt |-> n.ty.opt]), Loc(n), FALSE)
    ELSE PutValue(b, [op |-> "load", at |-> Loc(n), opt |-> n.ty.opt])

\* A struct literal is built where it stands; other literals own nothing yet.
EmitLiteral(b, n) == IF n.ty.owns /\ IsStruct(n.ty) THEN PutValue(b, New(n.ty.shape)) ELSE NoValue(b)

\* A field of a value that is no place: a call's result is only borrowed for it.
MemberOfValue(b, n) ==
  IF n.ty.owns
    THEN [BorrowTempPart(PutValue(b, [op |-> "part", from |-> b.val, field |-> n.field]), n, b.val)
          EXCEPT !.val = b.regs + 1]
    ELSE NoValue(ClaimTemp(Used(b, b.val), b.val, n.base.ty.shape))

\* `==` and `+` on strings read both sides; `+` makes a fresh string.
ReadBoth(b, l) == Used(Used(ClaimTemp(ClaimTemp(b, l, "fat"), b.val, "fat"), l), b.val)
StringBinary(b, n, l) ==
  IF n.ty.owns THEN NoteFresh(PutValue(ReadBoth(b, l), New("fat"))) ELSE NoValue(ReadBoth(b, l))
StringRhs(b, n) == StringBinary(EmitExpr(b, n.rhs, FALSE), n, b.val)

\* `x?` of a place looks at its slot, of a temporary at the value.
ClaimTested(b, n) == ClaimTemp(b, b.val, n.operand.ty.shape)
EmitNullTest(b, n) ==
  IF n.operand.kind = "Place" THEN NoValue(b) ELSE ClaimTested(EmitExpr(b, n.operand, FALSE), n)

\* A condition, with the temporaries it borrowed dropped before the branch.
EmitConditionI1(b, c) == FlushTemps(EmitExpr(b, c, FALSE), Len(b.temps))

\* `&&` and `||`: the left side's temporaries outlive the operator.
LogicalRest(b, n, rhs, merge) ==
  PositionAtEnd(
    EndWith(EmitExpr(PositionAtEnd(EndWith(NewBbs(b, 2),
                                           IF n.kind = "And" THEN CondJump(n.lhs, rhs, merge)
                                                             ELSE CondJump(n.lhs, merge, rhs)),
                                   rhs),
                     n.rhs, FALSE),
            Jump(merge)),
    merge)
LogicalAfter(b, n) == NoValue(LogicalRest(b, n, LastBb(b) + 1, LastBb(b) + 2))
EmitLogical(b, n)  == LogicalAfter(EmitExpr(b, n.lhs, FALSE), n)

\* `?:` of values that own nothing; a branch's temporaries die inside it.
ConditionalBranch(b, bb, n, to) ==
  EndWith(FlushTemps(EmitExpr(PositionAtEnd(b, bb), n, FALSE), Len(b.temps)), Jump(to))
ConditionalRest(b, n, first) ==
  PositionAtEnd(ConditionalBranch(ConditionalBranch(EndWith(NewBbs(b, 3), CondJump(n.cond, first, first + 1)),
                                                    first, n.then, first + 2),
                                  first + 1, n.else, first + 2),
                first + 2)
ConditionalAfter(b, n) == NoValue(ConditionalRest(b, n, LastBb(b) + 1))
EmitConditional(b, n)  == ConditionalAfter(EmitConditionI1(b, n.cond), n)

\* What an argument leaves for the call: storage the callee empties, storage it
\* only reads, or a value.
Take(b, t)       == [b EXCEPT !.takes[Len(b.takes)] = Append(@, t)]
TakeSlot(b, at, opt) == Take(b, [by |-> "slot", at |-> at, opt |-> opt])
TakeValue(b, shape) == Take(b, [by |-> "value", reg |-> b.val, shape |-> shape])

\* A box or a string by value goes by pointer: the callee empties the caller's
\* own storage, or a slot made for the value.
TakeEvaluated(b, n) ==
  IF HasPart(b, n) THEN TakeSlot(b, Last(PartOf(b, n)).at, n.ty.opt) ELSE TakeValue(b, n.ty.shape)
EmitArgByPtr(b, n) ==
  CASE n.kind = "Place" -> TakeSlot(IF n.ty.shape = "fat" THEN b ELSE EmitExpr(b, n, TRUE), Loc(n), n.ty.opt)
    [] IsLiteral(n)     -> TakeValue(EmitOwnedValue(EmitExpr(b, n, TRUE), n), n.ty.shape)
    [] OTHER            -> TakeEvaluated(EmitExpr(b, n, TRUE), n)

\* A struct by value: a moved place is emptied, a live one is copied.
TakeStruct(b, n) ==
  IF ~IsSource(n) THEN TakeValue(b, n.ty.shape)
  ELSE IF MovedSource(n, TRUE) THEN TakeValue(NullMovedSource(b, n, TRUE), n.ty.shape)
  ELSE TakeValue(PutValue(b, [op |-> "copy", from |-> b.val]), n.ty.shape)

\* A `ref` parameter borrows: the address of a place, or a temporary parked.
LendEvaluated(b, n) == IF b.val = 0 THEN b ELSE ParkTemp(b, b.val, n.ty.shape)

EmitCallArg(b, a) ==
  CASE ~a.arg.ty.owns       -> EmitExpr(b, a.arg, a.byValue)
    [] a.byValue /\ IsStruct(a.arg.ty) -> TakeStruct(EmitExpr(b, a.arg, TRUE), a.arg)
    [] a.byValue            -> EmitArgByPtr(b, a.arg)
    [] a.arg.kind = "Place" -> Take(b, [by |-> "lend", at |-> Loc(a.arg), opt |-> a.arg.ty.opt])
    [] OTHER                -> LendEvaluated(EmitExpr(b, a.arg, FALSE), a.arg)

CallInstr(b, n) ==
  [PutValue(b, [op |-> "call", takes |-> Last(b.takes), opt |-> n.ty.opt,
                shape |-> IF n.ty.owns THEN n.ty.shape ELSE "none"])
   EXCEPT !.takes = Front(@)]
CallResult(b, n) == IF n.ty.owns THEN NoteFresh(b) ELSE NoValue(b)
EmitCall(b, n)   ==
  CallResult(CallInstr(FoldLeft(EmitCallArg, [b EXCEPT !.takes = Append(@, <<>>)], n.args), n), n)

\* drop(): the place in place, or the value once it is made.
DropEvaluated(b, n) == IF b.val = 0 THEN b ELSE EmitDropReg(b, b.val, n.ty.shape, FALSE)
EmitDrop(b, n) ==
  NoValue(IF n.kind = "Place" /\ MovedSource(n, TRUE)
            THEN SetDropFlag(EmitDropOne(b, Loc(n)), Loc(n), FALSE)
            ELSE DropEvaluated(EmitExpr(b, n, TRUE), n))

EmitCopy(b) == PutValue(b, [op |-> "copy", from |-> b.val])

-----------------------------------------------------------------------------
\* Assignment of the value in b.val to the target, by what the target holds.

\* string, T[]: the new value is stored before the source is cleared.
ArrayRebind(b, n) ==
  Overwrite(b, Loc(n.target), b.val, SourceClears(b, n.value, TRUE), FALSE)
\* A bug: the source is cleared after the store, as for strings.
BoxMoveLate(b, n) ==
  Overwrite(b, Loc(n.target), b.val, SourceClears(b, n.value, TRUE), FALSE)
\* Box from box: the source is cleared first, since it may be inside what is dropped.
BoxMove(b, n) ==
  Overwrite(PutAll(b, SourceClears(b, n.value, TRUE)), Loc(n.target), b.val, <<>>, FALSE)
OptionalRebind(b, n) ==
  Overwrite(PutValue(b, New(n.target.ty.shape)), Loc(n.target), b.regs + 1, <<>>, FALSE)
\* A plain value goes into the box; what the old contents own is dropped first.
Inner(at) == [path |-> Append(at.path, "next"), shape |-> at.shape]
BoxContent(b, n) ==
  LET held == Put(b, [op |-> "deref", at |-> Loc(n.target)])
  IN  NoValue(IF n.target.ty.shape = "node" THEN EmitDropOne(held, Inner(Loc(n.target))) ELSE held)
OwningElement(b, n) ==
  Overwrite(b, Loc(n.target), b.val,
            IF Flagged(b, Loc(n.target)) THEN <<[op |-> "flag", at |-> Loc(n.target), set |-> TRUE]>> ELSE <<>>,
            Flagged(b, Loc(n.target)))

Assigned(b, n) ==
  CASE ~n.target.ty.owns            -> NoValue(b)
    [] n.target.ty.shape = "fat"    -> ArrayRebind(IF IsLiteral(n.value) THEN PutValue(b, New("fat")) ELSE b, n)
    [] IsStruct(n.target.ty)        -> OwningElement(EmitOwnedValue(b, n.value), n)
    [] n.value.ty.owns              -> BoxMove(b, n)
    [] n.target.ty.opt              -> OptionalRebind(b, n)
    [] OTHER                        -> BoxContent(b, n)
EmitAssign(b, n) == Assigned(EmitExpr(b, n.value, TRUE), n)

EmitValue(b, n, consumed) ==
  CASE n.kind = "Place"       -> EmitPlace(b, n, consumed)
    [] n.kind = "Value"       -> EmitLiteral(b, n)
    [] n.kind = "Member"      -> MemberOfValue(EmitExpr(b, n.base, FALSE), n)
    [] n.kind = "Binary"      -> StringRhs(EmitExpr(b, n.lhs, FALSE), n)
    [] n.kind \in {"And", "Or"} -> EmitLogical(b, n)
    [] n.kind = "Unary"       -> NoValue(EmitExpr(b, n.operand, FALSE))
    [] n.kind = "NullTest"    -> EmitNullTest(b, n)
    [] n.kind = "Conditional" -> EmitConditional(b, n)
    [] n.kind = "Assign"      -> EmitAssign(b, n)
    [] n.kind = "Call"        -> EmitCall(b, n)
    [] n.kind = "Intrinsic"   -> IF n.callee = "drop" THEN EmitDrop(b, n.args[1].arg)
                                 ELSE EmitCopy(EmitExpr(b, n.args[1].arg, FALSE))
    [] OTHER -> NoValue(b)

\* A condition's truth is settled where it is computed.
Settled(b, n) == IF n.name = "" THEN b ELSE NoValue(Put(b, [op |-> "test", node |-> n, from |-> b.val]))
EmitExpr(b, n, consumed) == IF n = NoNode THEN NoValue(b) ELSE Settled(EmitValue(b, n, consumed), n)

\* The result of a call nobody takes is dropped on the spot.
DropResult(b, n) ==
  IF n.kind \in {"Call", "Intrinsic"} /\ n.ty.owns
    THEN EmitDropReg([b EXCEPT !.fresh = @ \ {b.val}], b.val, n.ty.shape, FALSE) ELSE b
EmitDiscardExpr(b, n) == DropResult(EmitExpr(b, n, FALSE), n)

-----------------------------------------------------------------------------
\* Scopes, defers and declarations.

PushScope(b) == [b EXCEPT !.scopes = Append(@, <<>>)]
PopScope(b)  == [b EXCEPT !.scopes = Front(@)]

\* Deferred statements of one scope, the latest first; nothing follows a jump.
RunDefers(b, defers) ==
  FoldRight(LAMBDA d, acc : IF acc.terminated THEN acc ELSE EmitStmt(acc, d), defers, b)
RunDefersFrom(b, depth) == FoldRight(LAMBDA s, acc : RunDefers(acc, s), SubSeq(b.scopes, depth + 1, Len(b.scopes)), b)
EndDefers(b) == IF b.terminated THEN b ELSE RunDefers(b, Last(b.scopes))

\* The value into the new local's slot.
Declare(b, n, r) == Put(b, Store(Slot(n.name, n.ty.shape), r))

\* string, T[] and boxes: the source is cleared after the store.
DeclarePointer(b, n) ==
  IF n.init.ty.owns /\ ~IsLiteral(n.init)
    THEN PutAll(Declare(b, n, b.val), SourceClears(b, n.init, TRUE))
    ELSE Declare(PutValue(b, New(n.ty.shape)), n, b.regs + 1)
\* A struct is emptied at its source before it is stored, and armed.
DeclareStruct(b, n) == Declare(b, n, b.val)
Arm(b, n) ==
  IF n.ty.shape = "res" THEN Put(b, [op |-> "flag", at |-> Slot(n.name, n.ty.shape), set |-> TRUE]) ELSE b

\* Without a value: nothing, or a default struct, which its drop method counts.
DeclareDefault(b, n) ==
  IF n.ty.shape = "res" THEN Declare(PutValue(b, New("res")), n, b.regs + 1)
                        ELSE Put(b, Clear(Slot(n.name, n.ty.shape)))

DeclareValue(b, n) ==
  CASE n.isRef \/ ~n.ty.owns -> b
    [] n.init = NoNode        -> Arm(DeclareDefault(b, n), n)
    [] IsStruct(n.ty)         -> Arm(DeclareStruct(EmitOwnedValue(b, n.init), n), n)
    [] OTHER                  -> DeclarePointer(b, n)
EmitVarDecl(b, n) ==
  LET held == DeclareValue(IF n.isRef THEN b ELSE EmitExpr(b, n.init, TRUE), n)
  IN  IF n.isRef \/ ~n.ty.owns THEN held ELSE PushLocal(held, n.name, n.ty.shape)

EmitDefer(b, n) ==
  IF b.scopes = <<>> THEN b ELSE [b EXCEPT !.scopes[Len(b.scopes)] = Append(@, n.stmt)]

UntilTerminated(b, stmts) ==
  FoldLeft(LAMBDA acc, s : IF acc.terminated THEN acc ELSE EmitStmt(acc, s), b, stmts)

DropsUnlessTerminated(b, mark) == PopLocals(IF b.terminated THEN b ELSE EmitDrops(b, mark), mark)
EmitBlock(b, n) ==
  DropsUnlessTerminated(PopScope(EndDefers(UntilTerminated(PushScope(b), n.stmts))), Len(b.owning))

-----------------------------------------------------------------------------
\* Jumps and control flow.

\* The value is made and its source cleared; then the temporaries, the defers of
\* every scope and the locals of every scope go, in that order.
ReturnValue(b, n) ==
  IF n = NoNode \/ ~n.ty.owns THEN b
  ELSE IF n.ty.shape = "fat" THEN EmitOwnedValue(b, n)
  ELSE [NullMovedSource(b, n, TRUE) EXCEPT !.val = b.val]
LeaveFunction(b, r) == EndWith(EmitDrops(RunDefersFrom(FlushTemps(b, 0), 0), 0), Return_(r))
LeaveWith(b)        == LeaveFunction(b, b.val)
EmitReturn(b, n)    == LeaveWith(ReturnValue(EmitExpr(b, n.value, TRUE), n.value))

EndIfNoreturn(b, n) == IF n.noreturn THEN EndWith(b, Unreachable) ELSE b
EmitExprStmt(b, n)  == EndIfNoreturn(EmitDiscardExpr(b, n.expr), n)

EmitBreakContinue(b, n) ==
  IF b.loops = <<>> THEN b
  ELSE LET loop == Last(b.loops)
       IN  Br(EmitDrops(RunDefersFrom(b, loop.scopeDepth), loop.bodyMark),
              IF n.kind = "Break" THEN loop.end ELSE loop.cont)

\* A branch or a loop's body has a scope for defers, but the locals it declares
\* itself (unbraced) stay in the enclosing list.
Scoped(b, bb, stmt, to) == Br(PopScope(EndDefers(EmitStmt(PushScope(PositionAtEnd(b, bb)), stmt))), to)

IfRest(b, n, first) ==
  LET end == first + 1
      els == IF n.else = NoNode THEN end ELSE first + 2
      Else(c) == IF n.else = NoNode THEN c ELSE Scoped(c, els, n.else, end)
  IN  PositionAtEnd(Else(Scoped(EndWith(NewBbs(b, IF n.else = NoNode THEN 2 ELSE 3), CondJump(n.cond, first, els)),
                                first, n.then, end)),
                    end)
IfAfter(b, n) == IfRest(b, n, LastBb(b) + 1)
EmitIf(b, n)  == IfAfter(EmitConditionI1(b, n.cond), n)

\* A bug: the mark of the body is off by one.
PushLoopPast(b, end, cont) ==
  [b EXCEPT !.loops = Append(@, [end |-> end, cont |-> cont, bodyMark |-> Len(b.owning) + 1,
                                 scopeDepth |-> Len(b.scopes)])]
PushLoop(b, end, cont) ==
  [b EXCEPT !.loops = Append(@, [end |-> end, cont |-> cont, bodyMark |-> Len(b.owning),
                                 scopeDepth |-> Len(b.scopes)])]
PopLoop(b) == [b EXCEPT !.loops = Front(@)]
LoopBody(b, body, stmt, end, cont) == PopLoop(Scoped(PushLoop(b, end, cont), body, stmt, cont))

LoopHead(b, cond, head, body, end) ==
  IF cond = NoNode THEN EndWith(PositionAtEnd(b, head), Jump(body))
  ELSE EndWith(EmitConditionI1(PositionAtEnd(b, head), cond), CondJump(cond, body, end))

WhileRest(b, n, head) ==
  PositionAtEnd(LoopBody(LoopHead(EndWith(NewBbs(b, 3), Jump(head)), n.cond, head, head + 1, head + 2),
                         head + 1, n.body, head + 2, head),
                head + 2)
EmitWhile(b, n) == WhileRest(b, n, LastBb(b) + 1)

\* The variable of a `for` dies when the loop ends, however it ends.
Update(b, n) == IF n = NoNode THEN b ELSE FlushTemps(EmitDiscardExpr(b, n), Len(b.temps))
ForRest(b, n, head, mark) ==
  PopLocals(EmitDrops(
    PositionAtEnd(
      Br(Update(PositionAtEnd(LoopBody(LoopHead(Br(NewBbs(b, 4), head), n.cond, head, head + 1, head + 3),
                                       head + 1, n.body, head + 3, head + 2),
                              head + 2),
                n.update),
         head),
      head + 3),
    mark), mark)
ForAfter(b, n, mark) == ForRest(b, n, LastBb(b) + 1, mark)
EmitFor(b, n) == ForAfter(EmitStmt(b, n.init), n, Len(b.owning))

EmitStmtInner(b, n) ==
  CASE n.kind = "Return"   -> EmitReturn(b, n)
    [] n.kind = "ExprStmt" -> EmitExprStmt(b, n)
    [] n.kind = "VarDecl"  -> EmitVarDecl(b, n)
    [] n.kind = "Defer"    -> EmitDefer(b, n)
    [] n.kind = "Block"    -> EmitBlock(b, n)
    [] n.kind = "If"       -> EmitIf(b, n)
    [] n.kind = "While"    -> EmitWhile(b, n)
    [] n.kind = "For"      -> EmitFor(b, n)
    [] n.kind \in {"Break", "Continue"} -> EmitBreakContinue(b, n)
    [] OTHER -> b

\* A statement is the lifetime of its temporaries.
EmitStmt(b, n) == FlushTemps(EmitStmtInner(b, n), Len(b.temps))

-----------------------------------------------------------------------------
\* The registers a block reads, and those it reads from another block.
Reads(i) ==
  CASE i.op \in {"part", "copy", "dropReg", "use", "store", "test"} -> {i.from} \ {0}
    [] i.op = "call" -> {i.takes[k].reg : k \in {l \in DOMAIN i.takes : i.takes[l].by = "value"}} \ {0}
    [] OTHER -> {}
ReadsOf(blk) == UNION {Reads(blk.code[k]) : k \in DOMAIN blk.code}
                  \cup (IF blk.end.op = "ret" THEN {blk.end.reg} \ {0} ELSE {})
MadeIn(blk)  == {blk.code[k].reg : k \in {l \in DOMAIN blk.code : "reg" \in DOMAIN blk.code[l]}}
Lasting(blocks) == UNION {ReadsOf(blocks[e]) \ MadeIn(blocks[e]) : e \in DOMAIN blocks}

-----------------------------------------------------------------------------
\* A parameter owned by the callee: a box or a string in the caller's slot, a
\* struct in a slot of its own.
Param(x, ty) == [name |-> x, ty |-> ty]
EmitParam(b, p) == PushLocal(Arm(b, p), p.name, p.ty.shape)

EndBody(b) == IF b.terminated THEN b ELSE LeaveFunction(NoValue(b), 0)
DefineFunction(params, body) ==
  EndBody(PopScope(EndDefers(UntilTerminated(PushScope(FoldLeft(EmitParam, EmptyEmitter, params)), body.stmts))))

\* (The folds let TLC evaluate a constant table of code once.)
CodeBuild(params, body) ==
  FoldLeft(LAMBDA acc, blocks : [code |-> blocks, lasting |-> Lasting(blocks)], <<>>,
           FoldLeft(LAMBDA acc, s : <<DefineFunction(params, s).blocks>>, <<>>, <<body>>))
=============================================================================
