--------------------------- MODULE MCMoveFindings ---------------------------
(***************************************************************************)
(* The functions on which the move checker does not do what the rules say: *)
(* named by the constant Which; some have a run.                          *)
(***************************************************************************)
EXTENDS MoveRun, MovePaths, CfgLower
LOCAL INSTANCE SequencesExt
LOCAL INSTANCE TLC

A == Var("a", Owning)
X == Var("x", Optional)
Y == Var("y", Optional)
L == Var("l", Owning)
At(ix)     == Elem(L, ix, Optional)
Read(n)    == Do(Fld(n, "id", Plain))
Set(n, e)  == Do(Assign(n, e))
None       == Fresh(Optional)
Test(n)    == NullTest("n", n)
Clear(n)   == Named(Call(<<MutRef(n)>>, NoWrites, Plain), "clear")
Alias      == RefVar("r", At(IxVar("i")))

\* An else-if chain of n + 1 arms, the last of which drops `a`.
Chain(n) == FoldLeft(LAMBDA rest, k : If(Flag("c"), Do(Fresh(Plain)), rest),
                     If(Flag("c"), Do(Drop(A)), NoNode), [k \in 1..n |-> k])

\* `x` set after a branch on both sides of another.
SetAfterBranch == Block(<<If(Flag("d"), Do(Fresh(Plain)), NoNode), Set(X, Fresh(Owning))>>)

CONSTANT Which

Body ==
  CASE Which = "chain"    -> <<Chain(MaxPass + 2), Do(A)>>
    [] Which = "meet"     -> <<VarDecl("x", Optional, None),
                               If(Flag("c"), SetAfterBranch, SetAfterBranch),
                               VarDecl("y", Optional, X),
                               If(Flag("e"), Read(Y), NoNode)>>
    [] Which = "unspelled" -> <<If(Test(At(IxVar("i"))),
                                   Block(<<Set(At(IxCall(0)), None), Read(At(IxVar("i")))>>), NoNode)>>
    [] Which = "cast"     -> <<If(Test(At(IxCast("i"))), Read(At(IxVar("i"))), NoNode)>>
    [] Which = "alias"    -> <<RefDecl("r", At(IxVar("i"))), Do(IncDec(Var("i", Plain))),
                               If(Test(At(IxVar("i"))), Read(Alias), NoNode)>>
    [] Which = "operand"  -> <<If(And(Test(X), Clear(X)), Read(X), NoNode)>>

ProgramTable == <<>> @@ [p \in {Which} |->
                 CfgBuild(Block(Body)) @@ [refParams |-> {}, names |-> {"x", "y", "l", "i"}]]
MCPrograms == ProgramTable

MCRefTarget == [r \in {"r"} |-> Alias.lax]
MCFactKeys  == {X.key, Y.key, At(IxVar("i")).key}
MCPaths     == {<<"a">>}
MCOptLocs   == {<<"x">>, <<"y">>} \cup {<<"l", Slot(k)>> : k \in 0..MaxInt}
=============================================================================
