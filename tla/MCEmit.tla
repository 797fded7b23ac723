------------------------------- MODULE MCEmit -------------------------------
(***************************************************************************)
(* Small functions over an owned parameter `a`, a `ref` parameter `p` and  *)
(* a local `b`, all of one owning type: a statement shape with two simple  *)
(* statements in it; and functions about parts, lists and temporaries.     *)
(***************************************************************************)
EXTENDS EmitRun
LOCAL INSTANCE SequencesExt
LOCAL INSTANCE TLC
Cfg  == INSTANCE CfgLower

CONSTANTS Kinds, Shapes, Firsts, Seconds, Stories

Box  == Code!Shaped(Owning, "box")
Fat  == Code!Shaped(Owning, "fat")
Rec  == Code!Shaped(Owning, "rec")
Res  == Code!Shaped(Owning, "res")
Node == Code!Shaped(Owning, "node")
OptNode == Code!Shaped(Optional, "node")
OptBox  == Code!Shaped(Optional, "box")
KindOf  == [box |-> Box, fat |-> Fat, rec |-> Rec, res |-> Res, node |-> Node]

Mk(ty)     == Call(<<>>, NoWrites, ty)
Take(n)    == Call(<<ByValue(n)>>, NoWrites, Plain)
Lend(n)    == Call(<<Borrow(n)>>, NoWrites, Plain)
MemberOf(n, f, ty) ==
  Expr("Member", ty) @@ [base |-> n, field |-> f, path |-> NoPath, through |-> {}, steps |-> <<[at |-> "()"]>>]
Size(n)    == MemberOf(n, "length", Plain)
Concat(l, r) == Expr("Binary", Fat) @@ [lhs |-> l, rhs |-> r]
Same(name, l, r) == Named(Expr("Binary", Plain), name) @@ [lhs |-> l, rhs |-> r]
Copy(n)    == Intrinsic("copy", <<Borrow(n)>>, n.ty)

\* One simple statement on variables of type ty.
Simple(s, ty) ==
  LET A == Var("a", ty)  B == Var("b", ty)  P == Var("p", ty)
  IN  CASE s = "use"     -> Do(A)
        [] s = "take"    -> Do(Take(A))
        [] s = "drop"    -> Do(Drop(A))
        [] s = "set"     -> Do(Assign(A, Mk(ty)))
        [] s = "swap"    -> Do(Assign(A, B))
        [] s = "self"    -> Do(Assign(A, A))
        [] s = "back"    -> Do(Assign(B, A))
        [] s = "keep"    -> VarDecl("c", ty, A)
        [] s = "lend"    -> Do(Lend(A))
        [] s = "lendNew" -> Do(Lend(Mk(ty)))
        [] s = "new"     -> Do(Mk(ty))
        [] s = "both"    -> Do(Call(<<ByValue(A), Borrow(B), ByValue(Mk(ty)), Borrow(Mk(ty))>>, NoWrites, Plain))
        [] s = "ret"     -> Return(A, FALSE)
        [] s = "retNew"  -> Return(Mk(ty), FALSE)
        [] s = "restore" -> Block(<<VarDecl("t", ty, P), Do(Assign(P, Mk(ty)))>>)
        [] s = "chain"   -> Block(<<VarDecl("c", ty, B), VarDecl("t", ty, A), Do(Assign(B, Mk(ty)))>>)
        [] s = "give"    -> Return(Call(<<ByValue(A)>>, NoWrites, ty), FALSE)
        [] OTHER         -> Do(Fresh(Plain))

Shape(shape, s, t, ty) ==
  CASE shape = "line"   -> Block(<<s, t>>)
    [] shape = "else"   -> If(Flag("c"), Block(<<s>>), Block(<<t>>))
    [] shape = "loop"   -> While(Flag("c"), Block(<<s, If(Flag("d"), Break, NoNode), t>>))
    [] shape = "for"    -> For(VarDecl("i", ty, Mk(ty)), Flag("c"), Lend(Mk(ty)),
                               Block(<<VarDecl("e", ty, Mk(ty)), If(Flag("d"), Continue, NoNode), s,
                                       If(Flag("e"), Block(<<t, Break>>), NoNode)>>))
    [] shape = "return" -> Block(<<Defer(t), If(Flag("c"), Block(<<s, Return(NoNode, FALSE)>>), NoNode)>>)
    [] shape = "defer"  -> Block(<<VarDecl("e", ty, Mk(ty)), Defer(Do(Lend(Var("e", ty)))), Defer(s), t>>)
    [] shape = "abort"  -> If(Flag("c"), Block(<<s, Abort(Lend(Mk(ty)))>>), Block(<<t>>))

Flow(shape, s, t, ty) == <<VarDecl("b", ty, Mk(ty)), Shape(shape, Simple(s, ty), Simple(t, ty), ty)>>

\* Parts of structs and lists, optionals, strings and temporaries.
X  == Var("a", Rec)
XF == Fld(X, "f", Fat)
S  == Var("a", Fat)
N  == Var("a", Node)
NNext == Fld(N, "next", OptNode)
O  == Var("a", OptNode)
ONext == Fld(O, "next", OptNode)
Story(name) ==
  CASE name = "takePart" -> [ty |-> Rec, body |-> <<Do(Take(XF)), Do(Assign(XF, Mk(Fat))), If(Flag("c"), Do(Take(X)), NoNode)>>]
    [] name = "keepPart" -> [ty |-> Rec, body |-> <<VarDecl("s", Fat, XF), If(Flag("c"), Return(NoNode, FALSE), NoNode), Do(Take(Fld(X, "g", Fat)))>>]
    [] name = "tempPart" -> [ty |-> Rec, body |-> <<Do(Take(MemberOf(Mk(Rec), "f", Fat))), VarDecl("s", Fat, MemberOf(Mk(Rec), "g", Fat)), Do(Lend(Var("s", Fat)))>>]
    [] name = "setPart"  -> [ty |-> Rec, body |-> <<Do(Assign(XF, MemberOf(Mk(Rec), "g", Fat)))>>]
    [] name = "tempNext" -> [ty |-> Node, body |-> <<Do(Take(MemberOf(Mk(Node), "next", OptNode))), VarDecl("s", OptNode, MemberOf(Mk(Node), "next", OptNode))>>]
    [] name = "copyRec"  -> [ty |-> Rec, body |-> <<Do(Take(Copied(X))), VarDecl("s", Rec, Copy(X)), Do(Take(X))>>]
    [] name = "text"     -> [ty |-> Fat, body |-> <<VarDecl("s", Fat, Concat(S, Concat(Mk(Fat), Mk(Fat)))),
                              If(And(Same("q", S, Mk(Fat)), Same("r", Concat(S, S), Var("s", Fat))), Do(Take(S)), NoNode)>>]
    [] name = "literal"  -> [ty |-> Fat, body |-> <<Do(Assign(S, Fresh(Fat))), Do(Take(Fresh(Fat))), VarDecl("s", Fat, Fresh(Fat)), Return(Fresh(Fat), FALSE)>>]
    [] name = "sizes"    -> [ty |-> Fat, body |-> <<While(Named(Size(Mk(Fat)), "m"), Do(Cond(Flag("c"), Size(Mk(Fat)), Size(Concat(S, Mk(Fat)))))), Return(S, FALSE)>>]
    [] name = "nested"   -> [ty |-> Fat, body |-> <<Return(Call(<<Borrow(Mk(Fat)), ByValue(S), Borrow(Concat(Mk(Fat), Mk(Fat)))>>, NoWrites, Fat), FALSE)>>]
    [] name = "walk"     -> [ty |-> OptNode, body |-> <<While(NullTest("n", O), Block(<<Do(Fld(O, "id", Plain)), Do(Assign(O, ONext))>>))>>]
    [] name = "unlink"   -> [ty |-> Node, body |-> <<VarDecl("s", OptNode, NNext), If(NullTest("n", Var("s", OptNode)), Do(Take(Var("s", OptNode))), NoNode), Do(Take(N))>>]
    [] name = "relink"   -> [ty |-> Node, body |-> <<Do(Assign(NNext, Mk(OptNode))), If(NullTest("n", NNext), Do(Assign(N, Mk(Node))), NoNode)>>]
    [] name = "content"  -> [ty |-> Node, body |-> <<Do(Assign(N, Fresh(Plain))), Do(Fld(N, "id", Plain)), Do(Assign(Var("p", Node), Fresh(Plain)))>>]
    [] name = "refill"   -> [ty |-> OptBox, body |-> <<VarDecl("s", OptBox, NoNode), Do(Assign(Var("s", OptBox), Fresh(Plain))),
                              If(NullTest("n", Var("a", OptBox)), Do(Assign(Var("s", OptBox), Var("a", OptBox))), NoNode),
                              If(NullTest("k", Var("a", OptBox)), Do(Drop(Var("a", OptBox))), NoNode)>>]
    [] name = "tested"   -> [ty |-> OptBox, body |-> <<If(NullTest("n", Mk(OptBox)), Do(Take(Mk(OptBox))), NoNode), Return(Var("a", OptBox), FALSE)>>]
    [] name = "selfText" -> [ty |-> Fat, body |-> <<Do(Assign(S, S)), Do(Lend(S))>>]
    [] name = "refRes"   -> [ty |-> Res, body |-> <<VarDecl("t", Res, Var("p", Res)), Do(Assign(Var("p", Res), Mk(Res)))>>]
    [] name = "deferDrop" -> [ty |-> OptBox, body |-> <<Defer(If(NullTest("n", Var("a", OptBox)), Do(Drop(Var("a", OptBox))), NoNode)),
                              If(Flag("c"), Block(<<Do(Take(Var("a", OptBox))), Return(NoNode, FALSE)>>), NoNode)>>]

\* A `ref` parameter's own value is taken and put back whole only if it is a
\* struct held by value (Resolve/Moves.c refuses the others), and nothing
\* returns from a deferred statement (Resolve/Stmt.c).  `s = s` of a string and
\* the refill of a struct with a drop method are stories of their own.
Returns == {"ret", "retNew", "give"}
Allowed(p) ==
  /\ "restore" \in {p[3], p[4]} => p[1] = "rec"
  /\ "self" \in {p[3], p[4]} => p[1] # "fat"
  /\ p[2] = "defer"  => p[3] \notin Returns
  /\ p[2] = "return" => p[4] \notin Returns
Generic == {p \in Kinds \X Shapes \X Firsts \X Seconds : Allowed(p)}
Names   == Generic \cup ({"story"} \X Stories)
TypeOf(p) == IF p[1] = "story" THEN Story(p[2]).ty ELSE KindOf[p[1]]
BodyOf(p) == Block(IF p[1] = "story" THEN Story(p[2]).body ELSE Flow(p[2], p[3], p[4], KindOf[p[1]]))
Argument(x, ty) == <<[at |-> Code!Slot(x, ty.shape), opt |-> ty.opt]>>

\* TLC evaluates these tables once, and MCPrograms and MCEmitted at every use.
ProgramTable ==
  <<>> @@ [p \in Names |-> Cfg!CfgBuild(BodyOf(p))
                              @@ [refParams |-> {"p"}, owned |-> Argument("a", TypeOf(p)),
                                  lent |-> Argument("p", TypeOf(p))]]
CodeTable  == <<>> @@ [p \in Names |-> Code!CodeBuild(<<Code!Param("a", TypeOf(p))>>, BodyOf(p))]
MCPrograms == ProgramTable
MCEmitted  == CodeTable

MCPaths    == {<<x>> : x \in {"a", "b", "c", "e", "i", "p", "s", "t"}} \cup {<<"a", "f">>, <<"a", "g">>}
MCFactKeys == {<<NameSeg("a")>>, <<NameSeg("s")>>, <<NameSeg("a"), NameSeg("next")>>}
MCNone     == <<>>
MCLocals   == <<"p", "a", "b", "i", "e", "s", "c", "t">>
MCObjects  == <<"o1", "o2", "o3", "o4", "o5", "o6", "o7", "o8", "o9", "o10", "o11", "o12", "o13", "o14", "o15", "o16",
                 "o17", "o18", "o19", "o20", "o21", "o22", "o23", "o24">>
=============================================================================
