------------------------------ MODULE MCMono ------------------------------
(***************************************************************************)
(* Instances of MonoRun: a library of templates and plain declarations, and *)
(* a `main` of two statements, each one of the shapes below.                *)
(***************************************************************************)
EXTENDS MonoRun

\* Scaled widths: the limits of each type are met by small numbers.
MCBits == [sbyte |-> 2, byte |-> 2, short |-> 3, ushort |-> 3, int |-> 4, uint |-> 4, long |-> 5, ulong |-> 5]

T(x)    == Leaf(x)
Int1    == T("int")
Bool1   == T("bool")
I(x)    == Ident(T(x))
Stmt(k, kids) == Node(k, NoType, <<>>, kids, 0)
Expr(e) == Stmt("expr", <<e>>)
Ret(e)  == Stmt("return", <<e>>)
If(c, a, b) == Stmt("if", <<c, a, b>>)
Var(x, t, e)  == Node("var", T(x), <<t>>, <<e>>, 0)
Auto(x, e)    == Node("var", T(x), <<>>, <<e>>, 0)
Bin(op, a, b) == Node("binary", T(op), <<>>, <<a, b>>, 0)
Field(b, f)   == Node("member", T(f), <<>>, <<b>>, 0)
At(a, i)      == Node("index", NoType, <<>>, <<a, i>>, 0)
Inc(x)        == Node("incdec", T("++"), <<>>, <<I(x)>>, 0)
Cast(t, e)    == Node("cast", NoType, <<t>>, <<e>>, 0)
Lit(t, es)    == Node("structinit", NoType, <<t>>, es, 0)
Meta(f, args) == Node("meta", T(f), <<>>, args, 0)
Cond(c, a, b) == Node("conditional", NoType, <<>>, <<c, a, b>>, 0)
Loop(x, c, b) == Stmt("for", <<Var(x, Int1, IntLiteral(0)), Bin("<", I(x), c), Inc(x), Block(b)>>)
F(f, args)       == Call(Absent, T(f), FALSE, <<>>, args)
FT(f, ts, args)  == Call(Absent, T(f), TRUE, ts, args)
M(b, f, args)    == Call(b, T(f), FALSE, <<>>, args)
MT(b, f, ts, args) == Call(b, T(f), TRUE, ts, args)
Spread(x)        == Node("expand", T(x), <<>>, <<>>, 0)

FieldDecl(f, t) == Node("field", T(f), <<t>>, <<Absent>>, 0)
Struct(n, ps, fields) == [Decl("struct", T(n), <<>>, fields) EXCEPT !.tparams = ps]
Fn(n, ps, ret, params, body) == [Decl("function", T(n), <<ret>>, params \o <<Block(body)>>) EXCEPT !.tparams = ps]
Packed(fn) == [fn EXCEPT !.pack = TRUE]
Method(h, n, ps, ret, params, body) ==
  [Fn(n, ps, ret, params, body) EXCEPT !.name = MethodName(T(h), T(n)), !.handle = T(h), !.method = T(n)]
Impl(h, ps, methods) == [Decl("impl", T(h), <<>>, <<>>) EXCEPT !.tparams = ps, !.methods = methods]
Global(n, t, e) == Decl("global", T(n), <<t>>, <<e>>)

Box(t)     == Use("box", <<t>>)
Pair(a, b) == Use("pair", <<a, b>>)
Rest(x, t) == Param(x, ArrayOf(T(t)), 1)
Self(t)    == Param("self", t, 2)

-----------------------------------------------------------------------------
\* The library.

Structs == <<
  Struct("box", <<"T">>, <<FieldDecl("item", T("T"))>>),
  Struct("pair", <<"A", "B">>, <<FieldDecl("first", T("A")), FieldDecl("second", T("B"))>>),
  Struct("node", <<"T">>, <<FieldDecl("item", T("T")), FieldDecl("next", Optional(Use("node", <<T("T")>>)))>>),
  Struct("deep", <<"T">>, <<FieldDecl("next", Optional(Use("deep", <<Box(T("T"))>>)))>>),
  Struct("Plain", <<>>, <<FieldDecl("b", Box(Int1)), FieldDecl("n", Int1)>>),
  [Struct("Num", <<>>, <<>>) EXCEPT !.val = 1, !.handle = Int1],
  [Struct("Shut", <<>>, <<>>) EXCEPT !.val = 2] >>

Impls == <<
  Impl("box", <<"E">>, <<
    Method("box", "get", <<>>, T("E"), <<Self(Box(T("E")))>>, <<Ret(Field(I("self"), "item"))>>),
    Method("box", "with", <<"U">>, Pair(T("E"), T("U")), <<Self(Box(T("E"))), Param("u", T("U"), 0)>>,
           <<Ret(Lit(Pair(T("E"), T("U")), <<Field(I("self"), "item"), I("u")>>))>>),
    Method("box", "init", <<"U">>, T("void"), <<Self(Box(T("E"))), Param("u", T("U"), 0)>>, <<Expr(F("same", <<I("u")>>))>>),
    Method("box", "init", <<>>, T("void"), <<Self(Box(T("E"))), Param("e", T("E"), 0)>>, <<>>) >>),
  Impl("Plain", <<>>, <<
    Method("Plain", "show", <<>>, Int1, <<Self(T("Plain"))>>, <<Ret(M(Field(I("self"), "b"), "get", <<>>))>>),
    Method("Plain", "put", <<"U">>, T("U"), <<Self(T("Plain")), Param("u", T("U"), 0)>>, <<Ret(F("same", <<I("u")>>))>>) >>),
  Impl("Hub", <<>>, << Method("Hub", "make", <<"U">>, Box(T("U")), <<Param("u", T("U"), 0)>>, <<Ret(F("wrap", <<I("u")>>))>>) >>) >>

\* `describe` decides branches by its types, `inner` reads each element of a pack within a
\* loop over the pack, `walk` calls itself with the rest of its pack.
Functions == <<
  Fn("same", <<"T">>, T("T"), <<Param("x", T("T"), 0)>>, <<Ret(I("x"))>>),
  Fn("wrap", <<"T">>, Box(T("T")), <<Param("x", T("T"), 0)>>, <<Ret(Lit(Box(T("T")), <<I("x")>>))>>),
  Fn("both", <<"T">>, Bool1, <<Param("x", T("T"), 0), Param("y", T("T"), 0)>>, <<Ret(Bin("==", I("x"), I("y")))>>),
  Fn("describe", <<"T">>, Int1, <<Param("x", T("T"), 0)>>, <<
    If(Meta("whole", <<TypeArg(T("T"))>>), Expr(F("same", <<I("x")>>)), Expr(F("wrap", <<I("x")>>))),
    If(Bin("&&", Meta("has_function", <<TypeArg(T("T")), TypeArg(T("get"))>>), BoolLiteral(TRUE)),
       Ret(M(I("x"), "get", <<>>)), Absent),
    Ret(Cond(Bin("==", I("x"), I("null")), IntLiteral(1), Cast(Int1, Meta("up", <<IntLiteral(2)>>)))) >>),
  Packed(Fn("inner", <<"Ts">>, T("void"), <<Rest("args", "Ts")>>, <<
    Loop("i", Field(I("args"), "length"), <<
      Loop("j", Field(I("args"), "length"), << Expr(F("same", <<At(I("args"), I("i"))>>)) >>) >>) >>)),
  Packed(Fn("walk", <<"T", "Ts">>, Int1, <<Param("x", T("T"), 0), Rest("more", "Ts")>>, <<
    Expr(F("same", <<I("x")>>)),
    If(Bin(">", Field(I("more"), "length"), IntLiteral(0)), Expr(F("walk", <<Spread("more")>>)), Absent),
    Ret(Field(I("more"), "length")) >>)),
  Fn("down", <<"T">>, T("void"), <<Param("x", T("T"), 0)>>, <<Expr(F("down", <<F("wrap", <<I("x")>>)>>))>>) >>

Metas == <<
  Fn("whole", <<>>, Bool1, <<Param("t", T("type"), 0)>>,
     <<Ret(Bin("||", Meta("is_same", <<TypeArg(T("t")), TypeArg(Int1)>>), Meta("is_same", <<TypeArg(T("t")), TypeArg(Box(Int1))>>)))>>),
  Fn("up", <<>>, Int1, <<Param("n", Int1, 0)>>, <<
     Var("s", Int1, I("n")),
     If(Bin(">", I("n"), IntLiteral(0)),
        Expr(Node("assign", T("+="), <<>>, <<I("s"), Meta("up", <<Bin("-", I("n"), IntLiteral(1))>>)>>, 0)), Absent),
     Ret(I("s")) >>) >>

-----------------------------------------------------------------------------
\* The statements. `i` is an int, `b` a bool, `p` a Plain and `o` an optional int.

Statements == <<
  Expr(F("same", <<I("i")>>)),
  Expr(FT("same", <<Bool1>>, <<I("b")>>)),
  Block(<<Auto("x", F("wrap", <<I("i")>>)), Expr(M(I("x"), "with", <<I("b")>>))>>),
  Expr(F("wrap", <<F("wrap", <<I("b")>>)>>)),
  Block(<<Var("i", Bool1, BoolLiteral(TRUE)), Block(<<Expr(F("same", <<I("i")>>))>>)>>),
  Expr(M(I("p"), "put", <<I("i")>>)),
  Expr(MT(I("p"), "put", <<Box(Bool1)>>, <<F("wrap", <<I("b")>>)>>)),
  Expr(M(I("Hub"), "make", <<I("b")>>)),
  Expr(F("inner", <<I("i"), I("b")>>)),
  Expr(F("walk", <<I("b"), I("i"), I("i")>>)),
  Expr(FT("walk", <<Int1>>, <<I("i")>>)),
  If(Meta("whole", <<TypeArg(Bool1)>>), Block(<<Expr(F("same", <<I("i")>>))>>), Expr(F("wrap", <<I("i")>>))),
  Expr(F("describe", <<I("i")>>)),
  Expr(F("describe", <<I("o")>>)),
  Expr(F("describe", <<Field(I("p"), "b")>>)),
  Expr(FT("box", <<Int1>>, <<I("b")>>)),
  Expr(FT("box", <<Int1>>, <<I("i")>>)),
  Block(<<Var("q", Pair(Int1, Box(Bool1)), Absent), Expr(F("same", <<Field(Field(I("q"), "second"), "item")>>))>>),
  Var("n", Use("node", <<Int1>>), Absent),
  Var("d", Use("deep", <<Int1>>), Absent),
  Expr(F("down", <<I("i")>>)),
  Expr(M(I("g"), "with", <<Meta("up", <<IntLiteral(2)>>)>>)),
  Expr(Meta("up", <<IntLiteral(4)>>)),
  Loop("k", IntLiteral(2), <<Expr(F("both", <<I("k"), I("i")>>))>>),
  Expr(F("both", <<I("i"), I("b")>>)),
  Expr(Cond(Meta("has_function", <<TypeArg(Box(Bool1)), TypeArg(T("get"))>>), M(I("p"), "show", <<>>), F("wrap", <<I("i")>>))),
  Expr(F("describe", <<Cast(T("Num"), I("i"))>>)) >>

Locals == << Var("i", Int1, IntLiteral(1)), Var("b", Bool1, BoolLiteral(TRUE)), Var("p", T("Plain"), Absent),
             Var("o", Optional(Int1), Absent) >>

Program(s, t) ==
  [structs |-> Structs, impls |-> Impls,
   functions |-> Append(Functions, Fn("main", <<>>, Int1, <<>>, Locals \o <<Statements[s], Statements[t]>>)),
   globals |-> <<Global("g", Box(Int1), Absent)>>, enums |-> <<Decl("enum", T("Colour"), <<>>, <<>>)>>,
   delegates |-> <<>>, handles |-> {T("Hub")}, metas |-> Metas]

-----------------------------------------------------------------------------
\* The library with one declaration that is wrong, or that fails when it is used by the
\* first statement of `main`.

Nothing == Absent
Over(d, list, use) == [decl |-> d, list |-> list, use |-> use]
PackFn(body)  == Packed(Fn("odd", <<"Ts">>, T("void"), <<Rest("args", "Ts")>>, body))
MetaFn(ret, body) == Fn("odd", <<>>, T(ret), <<Param("n", Int1, 0)>>, body)
N             == I("n")
UseOdd        == Expr(F("odd", <<I("i")>>))
UseMeta(v)    == Expr(Meta("odd", <<IntLiteral(v)>>))
PackLoop(b)   == Loop("i", Field(I("args"), "length"), b)
Set(op, e)    == Expr(Node("assign", T(op), <<>>, <<N, e>>, 0))

Wrong == <<
  Over(Struct("box", <<"T">>, <<>>), "structs", Nothing),
  Over(Struct("box", <<>>, <<>>), "structs", Nothing),
  Over(Struct("odd", <<"T">>, <<FieldDecl("t", T("type"))>>), "structs", Nothing),
  Over(Struct("odd", <<>>, <<FieldDecl("t", Use("Plain", <<Int1>>))>>), "structs", Nothing),
  Over(Struct("odd", <<>>, <<FieldDecl("t", Use("box", <<Int1, Bool1>>))>>), "structs", Nothing),
  Over(Struct("odd", <<>>, <<FieldDecl("t", T("box"))>>), "structs", Nothing),
  Over(Impl("box", <<>>, <<>>), "impls", Nothing),
  Over(Impl("box", <<"A", "B">>, <<>>), "impls", Nothing),
  Over(Impl("Plain", <<"A">>, <<>>), "impls", Nothing),
  Over(Impl("Plain", <<>>, <<Method("Plain", "put", <<"V">>, T("V"), <<Self(T("Plain")), Param("v", T("V"), 0)>>, <<>>)>>),
       "impls", Nothing),
  Over(Impl("Plain", <<>>, <<Method("Plain", "show", <<"V">>, T("V"), <<Param("v", T("V"), 0)>>, <<>>)>>), "impls", Nothing),
  Over(Impl("box", <<"E">>, <<[Method("box", "ext", <<>>, Int1, <<>>, <<>>) EXCEPT !.isExtern = TRUE]>>), "impls", Nothing),
  Over(Fn("same", <<"T">>, Int1, <<>>, <<>>), "functions", Nothing),
  Over(Fn("box", <<"T">>, Int1, <<>>, <<>>), "functions", Nothing),
  Over(Fn("same", <<>>, Int1, <<>>, <<>>), "functions", Nothing),
  Over(PackFn(<<PackLoop(<<Stmt("break", <<>>)>>)>>), "functions", UseOdd),
  Over(PackFn(<<Expr(I("args"))>>), "functions", UseOdd),
  Over(PackFn(<<Expr(At(I("args"), I("k")))>>), "functions", UseOdd),
  Over(PackFn(<<Var("x", T("Ts"), Absent)>>), "functions", UseOdd),
  Over(PackFn(<<Stmt("for", <<Auto("i", IntLiteral(0)), Bin("<", I("i"), Field(I("args"), "length")), Inc("k"), Block(<<>>)>>)>>),
       "functions", UseOdd),
  Over(Fn("whole", <<>>, Bool1, <<Param("n", Int1, 0)>>, <<Ret(BoolLiteral(TRUE))>>), "metas", Nothing),
  Over(Fn("is_same", <<>>, Bool1, <<>>, <<Ret(BoolLiteral(TRUE))>>), "metas", Nothing),
  Over(MetaFn("string", <<Ret(N)>>), "metas", UseMeta(1)),
  Over(MetaFn("int", <<Expr(F("same", <<N>>))>>), "metas", UseMeta(1)),
  Over(MetaFn("int", <<Stmt("if", <<Bin(">", N, IntLiteral(1)), Ret(N), Absent>>)>>), "metas", UseMeta(1)),
  Over(MetaFn("int", <<Ret(Bin("/", N, Bin("-", N, N)))>>), "metas", UseMeta(1)),
  Over(MetaFn("int", <<Ret(Bin("<<", N, IntLiteral(7)))>>), "metas", UseMeta(1)),
  Over(MetaFn("sbyte", <<Ret(N)>>), "metas", UseMeta(2)),
  Over(MetaFn("int", <<Expr(Absent), Set("-=", IntLiteral(3)), Set("*=", N), Ret(Bin("%", Bin(">>", N, IntLiteral(1)), IntLiteral(3)))>>),
       "metas", UseMeta(1)),
  Over(MetaFn("int", <<Var("m", Int1, Node("unary", T("-"), <<>>, <<N>>, 0)), Var("m", Int1, N), Ret(I("m"))>>), "metas", UseMeta(1)),
  Over(MetaFn("int", <<Ret(BoolLiteral(TRUE))>>), "metas", UseMeta(1)),
  Over(MetaFn("int", <<Ret(Cond(Bin("!=", Bin("^", N, IntLiteral(3)), IntLiteral(2)), N, Node("unary", T("~"), <<>>, <<N>>, 0)))>>),
       "metas", UseMeta(1)) >>

WrongProgram(w) == [[Program(1, 1) EXCEPT ![w.list] = Append(@, w.decl)] EXCEPT
                      !.functions = IF w.use = Nothing THEN @
                                    ELSE Append(@, Fn("use", <<>>, T("void"), <<>>, <<Locals[1], w.use>>))]

MCPrograms == {Program(s, t) : <<s, t>> \in (DOMAIN Statements) \X (DOMAIN Statements)}
              \cup {WrongProgram(Wrong[k]) : k \in DOMAIN Wrong}
=============================================================================
