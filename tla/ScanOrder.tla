----------------------------- MODULE ScanOrder ------------------------------
(***************************************************************************)
(* Bodies of functions as the scans of src/src/Sema/Resolve/Borrows.c meet *)
(* them: what nodes say of paths, calls and literals, and the order of the *)
(* two scans over a body.  Module Borrows takes the nodes in that order.   *)
(***************************************************************************)
EXTENDS Ast
LOCAL INSTANCE SequencesExt
LOCAL INSTANCE TLC

\* Nodes.  A type is told by its form: "scalar", "fixed", "string", "array",
\* "struct" (one that owns, without a drop method), "noisy" (with one), "box".

Form(form) == Type(FALSE, form \notin {"scalar", "fixed"}, NoWrites) @@ [form |-> form]

\* A parameter or a local, and a field or an element of a path.  `inner` holds
\* the index expressions of the path.
Path(x, form)        == Expr("Path", Form(form)) @@ [root |-> x, end |-> "whole", inner |-> <<>>]
Field(n, form)       == [n EXCEPT !.ty = Form(form), !.end = "field"]
Elem(n, form, index) == [n EXCEPT !.ty = Form(form), !.end = "element", !.inner = Append(@, index)]

\* A call by name: `callee` is "" where a value is called, `base` is the receiver.
Invoke(base, callee, args) == Expr("Invoke", Form("scalar")) @@ [base |-> base, callee |-> callee, args |-> args]
Filled(elems, form)        == Literal(elems, Form(form))
Repeated(value, form)      == Expr("Repeat", Form(form)) @@ [operand |-> value]
Bind(x, bound, const)      == RefDecl(x, bound) @@ [const |-> const]

\* What ScanBorrows scans below a node.
Children(n) ==
  CASE n.kind = "Block"    -> n.stmts
    [] n.kind = "Return"   -> <<n.value>>
    [] n.kind = "If"       -> <<n.cond, n.then, n.else>>
    [] n.kind = "While"    -> <<n.cond, n.body>>
    [] n.kind = "For"      -> <<n.init, n.cond, n.update, n.body>>
    [] n.kind = "VarDecl"  -> <<n.init>>
    [] n.kind = "ExprStmt" -> <<n.expr>>
    [] n.kind = "Defer"    -> <<n.stmt>>
    [] n.kind \in {"Unary", "IncDec", "NullTest", "Repeat"} -> <<n.operand>>
    [] n.kind \in {"And", "Or"} -> <<n.lhs, n.rhs>>
    [] n.kind = "Assign"   -> <<n.target, n.value>>
    [] n.kind = "Path"     -> n.inner
    [] n.kind = "Conditional" -> <<n.cond, n.then, n.else>>
    [] n.kind = "Init"     -> n.args
    [] n.kind = "Invoke"   -> <<n.base>> \o n.args
    [] OTHER -> <<>>

\* ScanGrowth does not look into what is assigned to.
GrowthChildren(n) == IF n.kind = "Assign" THEN <<n.value>> ELSE Children(n)

\* The order of the scans: only ScanCallBorrows scans what is below a node first.
RECURSIVE Nodes(_), GrowthNodes(_)
Nodes(n) ==
  LET below == FoldLeft(LAMBDA acc, m : acc \o Nodes(m), <<>>, Children(n))
  IN  IF n.kind = "Invoke" THEN Append(below, n) ELSE <<n>> \o below
GrowthNodes(n) == FoldLeft(LAMBDA acc, m : acc \o GrowthNodes(m), <<n>>, GrowthChildren(n))
=============================================================================
