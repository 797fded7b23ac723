------------------------------- MODULE MCLoans ------------------------------
(***************************************************************************)
(* Small modules: globals `h`, `g` and `l` in that order, a `main` that    *)
(* calls `Mid`, which calls `Leaf`, which may call `Mid` again; `Build`,   *)
(* called by the initializer of `h`; and a drop method.                    *)
(***************************************************************************)
EXTENDS LoanRun
LOCAL INSTANCE SequencesExt
LOCAL INSTANCE TLC
Cfg == INSTANCE CfgLower

CONSTANTS Inits, Mains, Mids, Leaves

Main == 1  Mid == 2  Leaf == 3  Build == 4  OnDrop == 5  SetSecond == 6  Both == 7  Ext == 8

Noisy == Owning @@ [dropFn |-> OnDrop]
H  == Var("h", Owning)
G  == Var("g", Owning)
GF == Fld(G, "f", Owning)
GK == Fld(G, "k", Owning)
GN == Fld(G, "n", Plain)
L  == Var("l", Owning)
At(ix) == Elem(L, ix, Owning)
X  == Var("x", Owning)
New == Fresh(Owning)

CallOf(d, args)     == Call(args, NoWrites, Owning) @@ [decl |-> d]
Pass(n, mode)       == IF mode = "ref" THEN MutRef(n) ELSE Borrow(n)
Two(a, b)           == Do(CallOf(SetSecond, <<a, MutRef(b)>>))
Lent2(a, b)         == Do(CallOf(Both, <<Borrow(a), Borrow(b)>>))
Local(s)            == Block(<<VarDecl("x", Owning, New), s>>)
Concat(a, b)        == Expr("Binary", Owning) @@ [lhs |-> a, rhs |-> b]

\* A function takes its parameter by mutable `ref` when it writes it.
ParamMode(s) == IF s \in {"set", "setPart", "forward"} THEN "ref" ELSE "lend"

ConstIn(x, mode) == IF mode = "ref" THEN {} ELSE {x}

\* What `main` does, given how Mid takes its argument.
MainStmt(s, mid) ==
  LET To(n) == Do(CallOf(Mid, <<Pass(n, mid)>>))
  IN  CASE s = "g"      -> To(G)
        [] s = "g.f"    -> To(GF)
        [] s = "l[0]"   -> To(At(IxLit(0)))
        [] s = "l[i]"   -> To(At(IxVar("i")))
        [] s = "local"  -> Local(To(X))
        [] s = "fnptr"  -> Do(CallOf(Unknown, <<Borrow(G)>>))
        [] s = "fnlocal" -> Local(Do(CallOf(Unknown, <<Borrow(X)>>)))
        [] s = "same"   -> Two(Borrow(G), G)
        [] s = "whole"  -> Two(Borrow(GF), G)
        [] s = "parts"  -> Two(MutRef(GF), GK)
        [] s = "elems"  -> Two(Borrow(At(IxLit(0))), At(IxLit(1)))
        [] s = "maybe"  -> Two(Borrow(At(IxVar("i"))), At(IxLit(0)))
        [] s = "inner"  -> Do(Concat(G, Assign(G, New)))
        [] s = "deep"   -> Lent2(GF, CallOf(SetSecond, <<Borrow(H), MutRef(G)>>))
        [] s = "count"  -> Lent2(G, IncDec(GN))
        [] s = "two" -> Lent2(H, G)
        [] s = "noisy"  -> Block(<<VarDecl("x", Noisy, Fresh(Noisy)), To(G), Do(Assign(Var("x", Noisy), Fresh(Noisy)))>>)
        [] s = "alias"  -> Block(<<RefDecl("r", GF), To(RefVar("r", GF))>>)
        [] s = "extern" -> Do(CallOf(Ext, <<Borrow(G)>>))

\* What Mid and Leaf do to globals and their own parameter, and pass on to
\* the function `next`.
Stmt(s, param, next, mode) ==
  LET P == Var(param, Owning)
      To(n) == Do(CallOf(next, <<Pass(n, mode)>>))
  IN  CASE s = "nothing" -> Do(Fresh(Plain))
        [] s = "set"     -> Do(Assign(P, New))
        [] s = "setPart" -> Do(Assign(Fld(P, "f", Owning), New))
        [] s = "forward" -> To(P)
        [] s = "passG"   -> To(G)
        [] s = "passL"   -> To(At(IxLit(1)))
        [] s = "g"       -> Do(Assign(G, New))
        [] s = "g.f"     -> Do(Assign(GF, New))
        [] s = "g.n++"   -> Do(IncDec(GN))
        [] s = "l[0]"    -> Do(Assign(At(IxLit(0)), New))
        [] s = "l[i]"    -> Do(Assign(At(IxVar("i")), New))
        [] s = "push"    -> Do(PushTo(L, New))
        [] s = "dropG"   -> Do(Drop(G))
        [] s = "readG"   -> Do(G)
        [] s = "alias"   -> Block(<<RefDecl("r", GF), Do(Assign(RefVar("r", GF), New))>>)

OpsIn(stmt)  == FoldLeft(LAMBDA acc, b : acc \o b.ops, <<>>, Cfg!CfgBuild(Block(<<stmt>>)).blocks)
Fn(params, const, locals, stmt) ==
  [body |-> TRUE, extern |-> FALSE, params |-> params, const |-> const, locals |-> locals \cup {params[k] : k \in DOMAIN params},
   ops |-> OpsIn(stmt)]
Extern(x) == [body |-> FALSE, extern |-> TRUE, params |-> <<x>>, const |-> {x}, locals |-> {x}, ops |-> <<>>]

InitOf(s) ==
  CASE s = "new" -> New [] s = "build" -> CallOf(Build, <<>>) [] s = "early" -> Concat(New, G)
Value0(n)  == SelectSeq(OpsIn(Do(n)), LAMBDA op : op.op = "Eval")

Global(x, init) == [name |-> x, init |-> init, ops |-> Value0(init)]

ModuleOf(init, main, mid, leaf) ==
  LET midMode  == ParamMode(mid)
      leafMode == ParamMode(leaf)
      globals  == <<Global("h", InitOf(init)), Global("g", Concat(H, New)), Global("l", New)>>
  IN  [fns     |-> <<Fn(<<>>, {}, {"x", "r"}, MainStmt(main, midMode)),
                     Fn(<<"p">>, ConstIn("p", midMode), {"r"}, Stmt(mid, "p", Leaf, leafMode)),
                     Fn(<<"q">>, ConstIn("q", leafMode), {"r"}, Stmt(leaf, "q", Mid, midMode)),
                     Fn(<<>>, {}, {"x"}, Local(Do(CallOf(Leaf, <<Pass(X, leafMode)>>)))),
                     Fn(<<"self">>, {}, {}, Do(Var("self", Owning))),
                     Fn(<<"a", "b">>, {"a"}, {}, Do(Assign(Var("b", Owning), New))),
                     Fn(<<"a", "b">>, {"a", "b"}, {}, Do(Concat(Var("a", Owning), Var("b", Owning)))),
                     Extern("a")>>,
       globals |-> globals,
       host    |-> Value0(CallOf(Main, <<>>))]

\* Only a parameter taken by `ref` is passed on by `ref`; what main does has no
\* part in the initializers.
Allowed(p) == /\ p[1] # "new" => p[2] = "two"
              /\ p[3] = "forward" => ParamMode(p[4]) = "ref"
              /\ p[4] = "forward" => ParamMode(p[3]) = "ref"
ModuleTable == <<>> @@ [p \in {q \in Inits \X Mains \X Mids \X Leaves : Allowed(q)} |-> ModuleOf(p[1], p[2], p[3], p[4])]
MCModules   == ModuleTable

\* The initializers are walked whole, and the drop method touches no global.
ASSUME MCInitsWalked ==
  \A p \in DOMAIN ModuleTable : LET m == ModuleTable[p] IN
    /\ \A g \in DOMAIN m.globals : InitWalked(m.globals[g])
    /\ Direct(FnsOf(m)[OnDrop]) = [keys |-> {}, reads |-> {}, all |-> FALSE] /\ Callees(m, OnDrop) = <<>>
=============================================================================
