---------------------------- MODULE MCMoveFacts -----------------------------
(***************************************************************************)
(* Small functions that test an optional place, do something and read it:  *)
(* a local, a global, a field, and elements of an array under a literal,   *)
(* a variable and a sum; and others that bind a `ref` local to a place, do *)
(* something and use the ref.                                              *)
(***************************************************************************)
EXTENDS MoveInv, CfgLower
LOCAL INSTANCE TLC

X == Var("x", Optional)
Y == Var("y", Optional)
G == Var("g", Optional)
H == Fld(Var("h", Owning), "o", Optional)
L == Var("l", Owning)
At(ix) == Elem(L, ix, Optional)

\* A type whose drop method writes the global.
Loud == Type(FALSE, TRUE, Writes({<<NameSeg("g")>>}))

Target(t) ==
  CASE t = "x" -> X [] t = "g" -> G [] t = "h.o" -> H
    [] t = "l[0]" -> At(IxLit(0)) [] t = "l[i]" -> At(IxVar("i")) [] t = "l[i+1]" -> At(IxPlus("i"))

Read(n)  == Do(Fld(n, "id", Plain))
None     == Fresh(Optional)
Lend(n)  == Call(<<MutRef(n)>>, NoWrites, Plain)
I        == Var("i", Plain)

\* What happens between the test of `n` and its use.
Between(s, n) ==
  CASE s = "nothing"  -> Do(Fresh(Plain))
    [] s = "drop"     -> Do(Drop(n))
    [] s = "none"     -> Do(Assign(n, None))
    [] s = "some"     -> Do(Assign(n, Fresh(Owning)))
    [] s = "fromY"    -> Do(Assign(n, Y))
    [] s = "toY"      -> VarDecl("y", Optional, n)
    [] s = "lend"     -> Do(Lend(n))
    [] s = "lendBase" -> Do(Lend(L))
    [] s = "i++"      -> Do(IncDec(I))
    [] s = "writesG"  -> Do(Call(<<>>, Writes({<<NameSeg("g")>>}), Plain))
    [] s = "unknown"  -> Do(Call(<<>>, AllWrites, Plain))
    [] s = "other"    -> Do(Assign(At(IxLit(1)), None))
    [] s = "othervar" -> Do(Assign(At(IxVar("j")), None))
    [] s = "push"     -> Do(PushTo(L, Fresh(Optional)))
    [] s = "remove"   -> Do(RemoveFrom(L))
    [] s = "newH"     -> Do(Assign(Var("h", Owning), Fresh(Owning)))
    [] s = "dropLoud" -> Block(<<VarDecl("loud", Loud, Fresh(Loud))>>)
    [] s = "takeLoud" -> Do(Drop(Var("noisy", Loud)))
    [] s = "setLoud"  -> Do(Assign(Var("noisy", Loud), Fresh(Loud)))
    [] s = "lambda"   -> Do(Literal(<<ByValue(n)>>, Owning))

Test(k, n) == NullTest("n" \o ToString(k), n)

Around(shape, n, s) ==
  CASE shape = "if"     -> If(Test(1, n), Block(<<s, Read(n)>>), NoNode)
    [] shape = "while"  -> While(Test(1, n), Block(<<Read(n), s>>))
    [] shape = "return" -> Block(<<If(Not(Test(1, n)), Return(NoNode, FALSE), NoNode), s,
                                   Do(Call(<<AsPlain(n)>>, NoWrites, Plain))>>)
    [] shape = "or"     -> If(Or(Not(Test(1, n)), Flag("c")), s, Read(n))
    [] shape = "and"    -> If(And(Test(1, n), Named(Fld(n, "id", Plain), "id")), Block(<<s, Read(n)>>), NoNode)
    [] shape = "join"   -> Block(<<If(Test(1, n), s, Do(Assign(n, Fresh(Owning)))), Read(n)>>)
    [] shape = "defer"  -> If(Test(1, n), Block(<<Defer(Read(n)), s>>), NoNode)
    [] shape = "fold"   -> If(Test(1, n), Block(<<If(Flag("c"), s, NoNode),
                                If(Test(2, n), Read(n), NoNode)>>), If(Test(3, n), Read(n), NoNode))
    [] shape = "loop"   -> While(Flag("c"), Block(<<If(Test(1, n), Read(n), Break), s,
                                If(Test(2, n), Read(n), NoNode)>>))
    [] shape = "twice"  -> If(Test(1, n), Block(<<Defer(If(Test(2, n), Read(n), NoNode)),
                                If(Flag("c"), Return(NoNode, FALSE), NoNode), s>>), NoNode)
    [] shape = "into"   -> If(Test(1, n), Block(<<s, VarDecl("y", Optional, n), Read(Y)>>), NoNode)

-----------------------------------------------------------------------------
A  == Var("a", Owning)
OwnedG == Var("g", Owning)

BoundTo(t) ==
  CASE t = "a"     -> A
    [] t = "a.f"   -> Fld(A, "f", Owning)
    [] t = "x"     -> X
    [] t = "a.o"   -> Fld(A, "o", Optional)
    [] t = "g.o"   -> Fld(OwnedG, "o", Optional)
    [] t = "l[0]"  -> Elem(L, IxLit(0), Owning)
    [] t = "l[0]?" -> Elem(L, IxLit(0), Optional)
    [] t = "l[i].f" -> Fld(Elem(L, IxVar("i"), Owning), "f", Owning)

BaseOf(t) == CASE t \in {"a", "a.f", "a.o"} -> A [] t = "x" -> X [] t = "g.o" -> OwnedG [] OTHER -> L

Name(t) == "r:" \o t
Use(r) == IF r.ty.opt THEN If(NullTest("r", r), Do(Fld(r, "id", Plain)), NoNode)
                      ELSE Do(Fld(r, "id", Plain))

Mad  == Type(FALSE, TRUE, AllWrites)

\* What happens to the place `n`, or to the variable `base` it is part of.
RefBetween(s, n, base) ==
  CASE s = "nothing"  -> Do(Fresh(Plain))
    [] s = "drop"     -> Do(Drop(base))
    [] s = "set"      -> Do(Assign(base, Fresh(base.ty)))
    [] s = "dropSelf" -> Do(Drop(n))
    [] s = "setSelf"  -> Do(Assign(n, Fresh(n.ty)))
    [] s = "keep"     -> VarDecl("k", base.ty, base)
    [] s = "lend"     -> Do(Call(<<MutRef(base)>>, NoWrites, Plain))
    [] s = "borrow"   -> Do(Call(<<Borrow(base)>>, NoWrites, Plain))
    [] s = "push"     -> Do(PushTo(L, Fresh(Owning)))
    [] s = "remove"   -> Do(RemoveFrom(L))
    [] s = "i++"      -> Do(IncDec(I))
    [] s = "writesG"  -> Do(Call(<<>>, Writes({<<NameSeg("g")>>}), Plain))
    [] s = "writesGo" -> Do(Call(<<>>, Writes({<<NameSeg("g"), NameSeg("o")>>}), Plain))
    [] s = "unknown"  -> Do(Call(<<>>, AllWrites, Plain))
    [] s = "loudScope" -> Block(<<VarDecl("n", Loud, Fresh(Loud))>>)
    [] s = "madScope"  -> Block(<<VarDecl("n", Mad, Fresh(Mad))>>)
    [] s = "dropLoud"  -> Do(Drop(Var("m", Mad)))
    [] s = "setLoud"   -> Do(Assign(Var("m", Loud), Fresh(Loud)))

\* `bind` binds the ref and `use` uses it.
RefAround(shape, bind, use, s) ==
  CASE shape = "then"   -> Block(<<bind, s, use>>)
    [] shape = "if"     -> Block(<<bind, If(Flag("c"), s, NoNode), use>>)
    [] shape = "loop"   -> Block(<<bind, While(Flag("c"), Block(<<use, s>>))>>)
    [] shape = "rebind" -> While(Flag("c"), Block(<<bind, use, s,
                                                   If(Flag("d"), Continue, NoNode), use>>))
    [] shape = "defer"  -> Block(<<bind, Block(<<Defer(s), use>>), use>>)
    [] shape = "late"   -> Block(<<bind, Defer(use), If(Flag("c"), Return(NoNode, FALSE), NoNode), s>>)

CONSTANTS Shapes, Targets, Middles,               \* of tests of named places
          ElementShapes, ElementTargets, ElementMiddles,  \* of array elements
          RefShapes, RefTargets, RefMiddles               \* of refs

\* A function is named by its shape, its target and its middle; one of a ref has
\* "ref" before them.  Every target has a ref of its own.
TestBody(shape, n, s) == Block(<<Around(shape, n, Between(s, n))>>)
RefBody(shape, t, s)  == RefAround(shape, RefDecl(Name(t), BoundTo(t)), Use(RefVar(Name(t), BoundTo(t))),
                                   RefBetween(s, BoundTo(t), BaseOf(t)))

Functions == (Shapes \X Targets \X Middles) \cup (ElementShapes \X ElementTargets \X ElementMiddles)
               \cup ({"ref"} \X RefShapes \X RefTargets \X RefMiddles)

FunctionBody(p) == IF p[1] = "ref" THEN RefBody(p[2], p[3], p[4]) ELSE TestBody(p[1], Target(p[2]), p[3])
NamesOf(p)      == IF p[1] = "ref" THEN {BaseOf(p[3]).path[1], "i"}
                   ELSE IF p[2] \in Targets THEN {"x", "y", "g", "h"} ELSE {"y", "l", "i", "j"}

\* TLC evaluates a table once; under a LET, the coverage it counts does not follow the
\* table at every use of the constant.
ProgramTable ==
  <<>> @@ [p \in Functions |-> CfgBuild(FunctionBody(p)) @@ [refParams |-> {}, names |-> NamesOf(p)]]
MCPrograms == LET table == ProgramTable IN table

MCRefs      == {Name(t) : t \in RefTargets}
RefTargetTable == [r \in Refs |-> BoundTo(CHOOSE t \in RefTargets : Name(t) = r).lax]
MCRefTarget == LET table == RefTargetTable IN table

\* The optional places of the functions.
FactKeySet ==
  {<<NameSeg("x")>>, <<NameSeg("y")>>, <<NameSeg("g")>>, <<NameSeg("h"), NameSeg("o")>>,
   <<NameSeg("a"), NameSeg("o")>>, <<NameSeg("g"), NameSeg("o")>>}
    \cup {<<NameSeg("l"), ix.seg>> : ix \in {IxLit(0), IxVar("i"), IxPlus("i")}}
MCFactKeys == LET keys == FactKeySet IN keys
OptLocSet ==
  {<<"x">>, <<"y">>, <<"g">>, <<"h", "o">>, <<"a", "o">>, <<"g", "o">>} \cup {<<"l", Slot(k)>> : k \in 0..MaxInt}
MCOptLocs == LET locs == OptLocSet IN locs

\* Functions that copy a fact, and only where the passes invent nothing by it.
ASSUME MCCopiesForward ==
  LET table == Programs
  IN  \E p \in DOMAIN table : /\ CopiesForward(table[p])
                             /\ \E x \in table[p].reachable : \E j \in DOMAIN Ops(table[p], x) :
                                  CopiesFact(Ops(table[p], x)[j])
=============================================================================
