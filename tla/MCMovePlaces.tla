---------------------------- MODULE MCMovePlaces ----------------------------
(***************************************************************************)
(* Small functions over an owning parameter `a` with an owning field `f`   *)
(* for the move checker: one statement of every shape the lowering has,    *)
(* with two simple statements inside it, then one more simple statement.   *)
(***************************************************************************)
EXTENDS MoveInv, MovePaths, CfgLower
LOCAL INSTANCE TLC

A  == Var("a", Owning)
AF == Fld(A, "f", Owning)
AG == Fld(AF, "g", Owning)
B  == Var("b", Owning)

MCPaths == {<<"a">>, <<"a", "f">>, <<"a", "f", "g">>, <<"b">>}

Take(n) == Call(<<ByValue(n)>>, NoWrites, Plain)

\* What a simple statement evaluates.
SimpleExpr(s) ==
  CASE s = "use"   -> A
    [] s = "useF"  -> AF
    [] s = "take"  -> Drop(A)
    [] s = "takeF" -> Take(AF)
    [] s = "takeG" -> Take(AG)
    [] s = "setG"  -> Assign(AG, Fresh(Owning))
    [] s = "set"   -> Assign(A, Fresh(Owning))
    [] s = "setF"  -> Assign(AF, Fresh(Owning))
    [] s = "lend"  -> Call(<<MutRef(A)>>, NoWrites, Plain)
    [] s = "swap"  -> Assign(A, B)
    [] s = "copy"  -> Take(Copied(AF))
    [] OTHER       -> Fresh(Plain)

Simple(s) == IF s = "keep" THEN VarDecl("b", Owning, A)
             ELSE IF s = "bind" THEN RefDecl("r", A)
             ELSE Do(SimpleExpr(s))

\* A simple statement and what it evaluates.
Step(s) == [stmt |-> Simple(s), expr |-> SimpleExpr(s)]

Shaped(shape, s, t) ==
  CASE shape = "else"     -> If(Flag("c"), s.stmt, t.stmt)
    [] shape = "break"    -> While(Flag("c"), Block(<<s.stmt, If(Flag("d"), Break, NoNode), t.stmt>>))
    [] shape = "endless"  -> While(True, Block(<<If(Flag("d"), Break, NoNode), s.stmt, t.stmt>>))
    [] shape = "for"      -> For(NoNode, Flag("c"), s.expr,
                                 Block(<<If(Flag("d"), Continue, NoNode), t.stmt>>))
    [] shape = "return"   -> If(Flag("c"), Block(<<Defer(t.stmt), s.stmt, Return(NoNode, FALSE)>>), NoNode)
    [] shape = "defer"    -> Block(<<Defer(s.stmt), t.stmt>>)
    [] shape = "logic"    -> If(And(Flag("c"), Named(s.expr, "e")), t.stmt, NoNode)
    [] shape = "cond"     -> Do(Cond(Flag("c"), s.expr, t.expr))
    [] shape = "abort"    -> If(Flag("c"), Block(<<s.stmt, Abort(t.expr)>>), NoNode)

Body(shape, s, t, last) ==
  Block(<<VarDecl("b", Owning, Fresh(Owning)), Shaped(shape, s, t), last.stmt>>)

CONSTANTS Shapes, Firsts, Seconds, Lasts

\* TLC evaluates this definition once, and MCPrograms at every use.
ProgramTable == <<>> @@ [p \in Shapes \X Firsts \X Seconds \X Lasts |->
                 CfgBuild(Body(p[1], Step(p[2]), Step(p[3]), Step(p[4]))) @@ [refParams |-> {"a"}, names |-> {}]]
MCPrograms == ProgramTable
MCRefTarget == [r \in {"r"} |-> A.lax]

\* The functions are such that the passes invent nothing in them.
ASSUME MCExact == LET table == Programs
                  IN  \A p \in DOMAIN table :
                        ReachedOnly(table[p]) /\ WalksClosed(table[p]) /\ CopiesForward(table[p])
=============================================================================
