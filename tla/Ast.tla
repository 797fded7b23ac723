-------------------------------- MODULE Ast --------------------------------
(***************************************************************************)
(* The statement and expression nodes the models of the front end work on: *)
(* src/src/AST/AST.h with the fields the ownership analyses read.  Places  *)
(* are in module Places.                                                   *)
(***************************************************************************)
EXTENDS Naturals, Sequences
LOCAL INSTANCE TLC

\* The blocks every graph starts with.
Entry == 1
Exit  == 2

\* The absent child of a node (a NULL pointer).
NoNode == [kind |-> "None"]

\* A set of globals some code may write; `all` when nothing is known about it.
Writes(keys) == [all |-> FALSE, keys |-> keys]
NoWrites     == Writes({})
AllWrites    == [all |-> TRUE, keys |-> {}]

\* What the analyses ask of a type: is it a `T?`, does it own what it holds,
\* what may its drop methods write.
Type(opt, owns, drops) == [opt |-> opt, owns |-> owns, drops |-> drops]
Plain    == Type(FALSE, FALSE, NoWrites)
Owning   == Type(FALSE, TRUE, NoWrites)
Optional == Type(TRUE, TRUE, NoWrites)

\* Fields every expression has; only places have keys.  A condition has a name,
\* which tells two nodes of the same shape apart.
Expr(kind, ty) == [kind |-> kind, ty |-> ty, name |-> "", copied |-> FALSE, key |-> <<>>, lax |-> <<>>]
Named(n, name) == [n EXCEPT !.name = name]

\* A literal, or any expression whose value is fresh.
Fresh(ty)   == Expr("Value", ty)
\* A condition nothing is known about.
Flag(name)  == Named(Expr("Flag", Plain), name)
True        == Named(Expr("True", Plain), "true")
NullTest(name, n) == Named(Expr("NullTest", Plain), name) @@ [operand |-> n]
Not(n)      == Named(Expr("Unary", Plain), "!" \o n.name) @@ [operand |-> n]
And(a, b)   == Named(Expr("And", Plain), "(" \o a.name \o "&&" \o b.name \o ")") @@ [lhs |-> a, rhs |-> b]
Or(a, b)    == Named(Expr("Or", Plain), "(" \o a.name \o "||" \o b.name \o ")") @@ [lhs |-> a, rhs |-> b]
Cond(c, t, e)  == Expr("Conditional", t.ty) @@ [cond |-> c, then |-> t, else |-> e]
IncDec(n)      == Expr("IncDec", Plain) @@ [operand |-> n]
Assign(t, v)   == Expr("Assign", t.ty) @@ [target |-> t, value |-> v]

\* An argument: taken by value, wanting a plain `T`, or by mutable `ref` (of a
\* `T?` or of a `T`).
Arg(n, byValue, wants, ref) == [arg |-> n, byValue |-> byValue, wants |-> wants, ref |-> ref]
ByValue(n) == Arg(n, TRUE, FALSE, "no")
AsPlain(n) == Arg(n, TRUE, TRUE, "no")
Borrow(n)  == Arg(n, FALSE, FALSE, "no")
MutRef(n)  == Arg(n, FALSE, FALSE, IF n.ty.opt THEN "optional" ELSE "plain")

Call(args, writes, ty) == Expr("Call", ty) @@ [args |-> args, writes |-> writes]
Intrinsic(callee, args, ty) == Expr("Intrinsic", ty) @@ [callee |-> callee, args |-> args]
Drop(n)       == Intrinsic("drop", <<ByValue(n)>>, Plain)
PushTo(a, v)  == Intrinsic("array_push", <<Borrow(a), ByValue(v)>>, Plain)
RemoveFrom(a) == Intrinsic("array_remove", <<Borrow(a)>>, Plain)
Literal(elems, ty) == Expr("Init", ty) @@ [args |-> elems, writes |-> NoWrites]

-----------------------------------------------------------------------------
VarDecl(x, ty, init) ==
  [kind |-> "VarDecl", name |-> x, ty |-> ty, isRef |-> FALSE, init |-> init, wants |-> ~ty.opt]
RefDecl(x, bound) ==
  [kind |-> "VarDecl", name |-> x, ty |-> bound.ty, isRef |-> TRUE, init |-> bound, wants |-> FALSE]
Block(stmts)     == [kind |-> "Block", stmts |-> stmts]
Do(e)            == [kind |-> "ExprStmt", expr |-> e, noreturn |-> FALSE]
Abort(e)         == [kind |-> "ExprStmt", expr |-> e, noreturn |-> TRUE]
Defer(s)         == [kind |-> "Defer", stmt |-> s]
Return(v, wants) == [kind |-> "Return", value |-> v, wants |-> wants]
Break            == [kind |-> "Break"]
Continue         == [kind |-> "Continue"]
If(c, t, e)      == [kind |-> "If", cond |-> c, then |-> t, else |-> e]
While(c, s)      == [kind |-> "While", cond |-> c, body |-> s]
For(i, c, u, s)  == [kind |-> "For", init |-> i, cond |-> c, update |-> u, body |-> s]
=============================================================================
