------------------------------- MODULE MCParse -------------------------------
(***************************************************************************)
(* What the parser is given: every expression of two operators in each      *)
(* other, every declaration in its forms, and every short run of tokens in  *)
(* the middle of a function.                                                *)
(***************************************************************************)
EXTENDS ParserRun
LOCAL INSTANCE SequencesExt
LOCAL INSTANCE FiniteSetsExt

MCNames     == {"a", "b", "f", "m", "x", "T", "S", "handle", "self", "ptr", "null", "extends", "get", "set", "private", "export", "meta", "flags", "component", "noreturn"}
MCIntegers  == {"1", "2", "0x"}
MCLiterals  == {"true", "'s'"}
MCMalformed == {"0x", "#"}

A == Ident("a")   B == Ident("b")   One == Literal("1")
T == NamedType("T", <<>>)   IntT == NamedType("int", <<>>)   Void == NamedType("void", <<>>)

Pick(table, k) == table[1 + (k % Len(table))]

-----------------------------------------------------------------------------
\* Expressions: each shape with a hole for another.

Ops == <<"||", "&&", "|", "^", "&", "==", "<", ">", ">>", "<<", "+", "-", "*", "/">>
NOps == Len(Ops)

Shape(k, n) ==
  LET j == k - 2 * NOps
  IN  IF k <= NOps THEN Binary(Ops[k], n, B)
      ELSE IF k <= 2 * NOps THEN Binary(Ops[k - NOps], B, n)
      ELSE CASE j = 1 -> Conditional(n, A, B)  [] j = 2 -> Conditional(A, n, B)  [] j = 3 -> Conditional(A, B, n)
             [] j = 4 -> Assign("=", n, B)     [] j = 5 -> Assign("+=", A, n)
             [] j = 6 -> Unary("-", n)         [] j = 7 -> Unary("!", n)         [] j = 8 -> Unary("*", n)
             [] j = 9 -> Unary("&", n)         [] j = 10 -> IncDec("++", TRUE, n) [] j = 11 -> IncDec("--", FALSE, n)
             [] j = 12 -> NullTest(n)          [] j = 13 -> Index(n, B)          [] j = 14 -> Index(A, n)
             [] j = 15 -> Member(n, "m")       [] j = 16 -> Call(Null, "f", NoTypes, <<n>>)
             [] j = 17 -> Call(n, "m", NoTypes, <<B>>)  [] j = 18 -> Call(Null, "f", <<T, ArrayOf(IntT, "")>>, <<n>>)
             [] j = 19 -> Call(n, "m", <<>>, <<One>>)
             [] j = 20 -> Cast(IntT, n)        [] j = 21 -> Cast(T, n)           [] j = 22 -> Cast(Boxed(T), n)
             [] j = 23 -> Cast(Pointer(T), n)  [] j = 24 -> MetaCall("m", <<n, One>>)
             [] j = 25 -> StructInit(NamedType("S", <<>>), <<Field("m", n), Field("", One)>>)
             [] j = 26 -> StructInit(NamedType("S", <<T, NamedType("S", <<T>>)>>), <<Field("m", n)>>)
             [] j = 27 -> ArrayInit(IntT, <<n, One>>, Null)  [] j = 28 -> ArrayInit(Null, <<One>>, n)
             [] j = 29 -> ArrayInit(Null, <<n>>, Null)
Shapes == 2 * NOps + 29
Leaves == <<A, One, Member(A, "m"), Ident("ptr.null")>>

Program(list) == [tokens |-> Joined([i \in DOMAIN list |-> TopTokens(list[i])]), decls |-> [list |-> list], kept |-> Null]
Plain(t, name, body) == Function(Signature(<<>>, FALSE, FALSE, "", t, name, <<>>), <<>>, FALSE, Block(body))
ExprProgram(n) == Program(<<Plain(Void, "f", <<ExprStmt(Assign("=", Ident("x"), n))>>)>>)

ExprTable == [k \in 1..(Shapes * Shapes) |->
               ExprProgram(Shape(1 + ((k - 1) % Shapes), Shape(1 + ((k - 1) \div Shapes), Pick(Leaves, k))))]

-----------------------------------------------------------------------------
\* Types, each wherever a type may stand.

GenericT == NamedType("S", <<IntT, NamedType("S", <<T, Boxed(T)>>)>>)
Types == <<
  IntT, T, GenericT, Optional(T), Optional(GenericT), ArrayOf(IntT, ""), ArrayOf(T, "2"), ArrayOf(ArrayOf(IntT, "2"), ""),
  ArrayOf(ArrayOf(ArrayOf(T, ""), "a"), "2"), ArrayOf(Optional(T), ""), Optional(ArrayOf(IntT, "")), Boxed(T), Boxed(IntT),
  Boxed(Boxed(T)), ArrayOf(Boxed(T), ""), Optional(ArrayOf(Boxed(T), "")), Pointer(IntT), Pointer(Pointer(T)),
  ArrayOf(Pointer(IntT), "2"), Optional(ArrayOf(Pointer(T), "")), Boxed(Pointer(T)), Pointer(Boxed(T)),
  NamedType("float3", <<>>), NamedType("string", <<>>), NamedType("cstring", <<>>), NamedType("self", <<>>),
  Boxed(NamedType("T", <<NamedType("T", <<T>>)>>)) >>

Consts(t) == <<t, Const(t)>>
AllTypes == FlattenSeq([i \in DOMAIN Types |-> Consts(Types[i])])

Value(t) ==
  LET plain == Unconst(t)
      array == IF plain.k = "optional" THEN Unconst(plain.type) ELSE plain
  IN  CASE array.k = "array" -> ArrayInit(array.type, <<A, One>>, Null)
        [] plain.k \in {"box", "optional"} /\ plain.type.k = "name" -> StructInit(Unconst(plain.type), <<Field("m", A)>>)
        [] plain.k = "name" /\ plain.name \notin {"string", "cstring"} -> StructInit(plain, <<Field("", A), Field("m", One)>>)
        [] OTHER -> A

TypeProgram(t) ==
  Program(<<Struct("struct", "S", <<"T">>, <<FieldDecl(t, "m", "", A), FieldDecl(IntT, "x", "", Null)>>, TRUE, FALSE),
            Function(Signature(<<>>, TRUE, FALSE, "", Void, "f", <<>>), <<Param({"ref"}, Unconst(t), "a", FALSE, FALSE), Param({"const"}, Unconst(t), "b", FALSE, FALSE)>>, TRUE, Null),
            Global(t, "x", Null),
            Plain(t, "m", <<VarDecl(t, "x", FALSE, Value(t)), VarDecl(Unconst(t), "a", TRUE, B), VarDecl(Const(Unconst(t)), "b", TRUE, A),
                            Return(A), ExprStmt(Assign("=", A, MetaCall("m", <<Unconst(t), One>>)))>>)>>)
TypeTable == [i \in DOMAIN AllTypes |-> TypeProgram(AllTypes[i])]

-----------------------------------------------------------------------------
\* Statements, each alone, inside another, and before another.

Stmts == <<
  ExprStmt(Null), ExprStmt(Call(Null, "f", NoTypes, <<A, PackExpand("b")>>)), ExprStmt(IncDec("++", FALSE, A)), Block(<<>>),
  Return(Null), Return(A), Return(ArrayInit(IntT, <<One, A>>, Null)), Jump("break"), Jump("continue"), Defer(ExprStmt(Assign("=", A, B))),
  VarDecl(Inferred, "a", FALSE, Conditional(A, One, B)), VarDecl(Const(Inferred), "a", FALSE, StructInit(T, <<>>)),
  VarDecl(T, "a", FALSE, StructInit(T, <<Field("m", ArrayInit(Null, <<One>>, Null))>>)), VarDecl(Pointer(T), "a", FALSE, Ident("ptr.null")),
  VarDecl(Boxed(T), "a", FALSE, Cast(Boxed(T), B)), VarDecl(ArrayOf(GenericT, ""), "a", FALSE, ArrayInit(GenericT, <<A>>, Literal("2"))),
  VarDecl(NamedType("string", <<>>), "a", FALSE, StructInit(Null, <<Field("m", A)>>)),
  If(A, ExprStmt(Assign("=", A, B)), Null), If(NullTest(A), Return(A), Block(<<Jump("break")>>)), While(Binary("<", A, B), Block(<<ExprStmt(Null)>>)),
  For(Null, Null, Null, ExprStmt(Null)), For(VarDecl(IntT, "a", FALSE, One), Binary("<", A, B), IncDec("++", FALSE, A), Jump("continue")),
  For(VarDecl(Inferred, "a", FALSE, One), Null, Assign("+=", A, B), ExprStmt(Null)), For(Assign("=", A, B), A, Null, Block(<<>>)) >>

Nested(s, t, k) ==
  CASE k = 1 -> Block(<<s, t>>)   [] k = 2 -> If(A, Block(<<s>>), t)   [] k = 3 -> While(A, Block(<<t, s>>))
    [] k = 4 -> For(Null, A, Null, Block(<<s, s, t>>))   [] k = 5 -> Defer(Block(<<s, t>>))
StmtTable == [k \in 1..(Len(Stmts) * Len(Stmts)) |->
               Program(<<Plain(ArrayOf(IntT, ""), "f", <<Nested(Pick(Stmts, k), Stmts[1 + ((k - 1) \div Len(Stmts))], 1 + (k % 5)), Stmts[1 + ((k - 1) \div Len(Stmts))]>>)>>)]

-----------------------------------------------------------------------------
\* Declarations, each before another.

Sig(attributes, isExtern, isDelegate, typeParam, typeParams) ==
  Signature(attributes, isExtern, isDelegate, typeParam, IntT, "f", typeParams)
Params2 == <<Param({}, T, "a", FALSE, FALSE), Param({"ref"}, IntT, "b", FALSE, FALSE)>>
Body    == Block(<<Return(A)>>)
OutParam == Param({"return"}, IntT, "a", FALSE, FALSE)
Self    == Param({}, SelfType, "self", FALSE, TRUE)

Decls == <<
  Import(<<"a">>), Import(<<".", ".", "/", "a", "/", "b">>), Handle("T", ""), Handle("T", "S"), Alias("T", GenericT), Alias("T", ArrayOf(IntT, "")),
  Struct("struct", "S", <<>>, <<>>, TRUE, FALSE), Struct("struct", "S", <<>>, <<>>, FALSE, FALSE), Struct("struct", "S", <<>>, <<FieldDecl(IntT, "a", "2", Null), FieldDecl(T, "b", "", One)>>, TRUE, TRUE),
  Struct("union", "S", <<>>, <<FieldDecl(IntT, "a", "", Null), FieldDecl(Pointer(T), "b", "", Null)>>, TRUE, FALSE),
  Struct("struct", "S", <<"T", "a">>, <<FieldDecl(Boxed(T), "b", "", Null), FieldDecl(ArrayOf(T, "2"), "m", "", ArrayInit(Null, <<A>>, Null))>>, TRUE, FALSE),
  [Struct("struct", "S", <<>>, <<FieldDecl(IntT, "a", "", One)>>, TRUE, FALSE) EXCEPT !.component = TRUE],
  Enum("T", Null, <<>>), Enum("T", NamedType("byte", <<>>), <<EnumValue("a", Null), EnumValue("b", Binary("<<", One, Literal("2")))>>),
  [Enum("T", Null, <<EnumValue("a", One)>>) EXCEPT !.flags = TRUE],
  Global(IntT, "a", One), Global(ArrayOf(IntT, "2"), "a", ArrayInit(IntT, <<One, A>>, Null)), Global(T, "a", StructInit(Null, <<Field("m", One)>>)),
  Function(Sig(<<>>, FALSE, FALSE, "", <<>>), Params2, FALSE, Body), Function(Sig(<<>>, FALSE, FALSE, "", <<>>), Params2, FALSE, Null),
  Function(Sig(<<>>, TRUE, FALSE, "", <<>>), Params2, TRUE, Null), Function(Sig(<<>>, TRUE, TRUE, "", <<>>), Params2, FALSE, Null),
  Function(Sig(<<>>, TRUE, FALSE, "T", <<>>), Params2, FALSE, Null), Function(Sig(<<"private">>, FALSE, FALSE, "", <<"T", "S">>), Params2, FALSE, Body),
  Function(Sig(<<>>, FALSE, FALSE, "", <<"T", "...">>), <<Param({"const"}, IntT, "a", FALSE, FALSE), Param({}, T, "b", TRUE, FALSE)>>, FALSE, Body),
  Function(Sig(<<"export">>, FALSE, FALSE, "", <<>>), <<>>, FALSE, Body), Function(Sig(<<"meta">>, FALSE, FALSE, "", <<>>), Params2, FALSE, Body),
  Function(Sig(<<"private", "noreturn">>, TRUE, FALSE, "", <<>>), <<>>, FALSE, Null),
  Function(Signature(<<>>, TRUE, FALSE, "", Void, "f", <<>>), <<OutParam>>, FALSE, Null),
  Impl("T", <<>>, <<>>, <<>>), Impl("T", <<"a">>, <<>>, <<Property(IntT, "x", "a", ""), Property(T, "m", "a", "b")>>),
  Impl("T", <<>>, <<Function(Sig(<<>>, FALSE, FALSE, "", <<>>), <<Self>>, FALSE, Body),
                    Function(Sig(<<"private">>, FALSE, FALSE, "", <<"S">>), <<[Self EXCEPT !.mods = {"ref"}]>> \o Params2, FALSE, Body)>>,
       <<Property(T, "m", "", "b")>>) >>

DeclTable == [k \in 1..(Len(Decls) * Len(Decls)) |-> Program(<<Pick(Decls, k), Decls[1 + ((k - 1) \div Len(Decls))], Decls[8]>>)]

-----------------------------------------------------------------------------
\* Short runs of tokens in a function, in a struct, in an impl block and between declarations: what
\* follows them is a program.

InBody == <<"a", "T", "1", "0x", "=", "-", "*", "<", ">>", "(", ")", "[", "]", "?", ":", ".", ",", "^", "const", "var", "return", "if", "for", "defer", "@", "++", "int">>
InType == <<"a", "int", "1", "0x", "=", "(", ")", "<", ">", "?", "[", "^", "*", "...", ",", "const", "fieldoffset", "property", "@", "extern", "self", "ref", ".">>

\* The k-th run of n tokens.
RECURSIVE Run(_, _, _)
Run(alphabet, n, k) ==
  IF n = 0 THEN <<>> ELSE <<alphabet[1 + (k % Len(alphabet))]>> \o Run(alphabet, n - 1, k \div Len(alphabet))

Soup(before, run, after) == [tokens |-> before \o run \o after \o <<"int", "x", ";">>, decls |-> Null, kept |-> Global(IntT, "x", Null)]
BodySoup(run, k) ==
  Soup(<<"void", "f", "(", ")", "{">>, run,
       (CASE k = 0 -> <<>>  [] k = 1 -> <<";">>  [] OTHER -> <<";", "b", "=", "1", ";">>) \o <<"}">>)
TypeSoup(k, run) ==
  CASE k = 0 -> Soup(<<"struct", "S", "{">>, run, <<";", "int", "b", ";", "}">>)
    [] k = 1 -> Soup(<<"impl", "T", "{">>, run, <<";", "}">>)
    [] k = 2 -> Soup(<<"int", "f", "(">>, run, <<")", ";">>)
    [] k = 3 -> Soup(<<>>, run, <<";">>)

BodySoups == [k \in 1..(Len(InBody) * Len(InBody) * Len(InBody)) |-> BodySoup(Run(InBody, 3, k), k % 4)]
TypeSoups == [k \in 1..(4 * Len(InType) * Len(InType)) |-> TypeSoup(k % 4, Run(InType, 2, k \div 4))]

\* A conditional whose second operand starts with a `*`, as it may be written.
MCTernary == << [tokens |-> <<"void", "f", "(", ")", "{", "x", "=", "a", "?", "*", "b", ":", "1", ";", "}">>, kept |-> Null,
                 decls |-> [list |-> <<Plain(Void, "f", <<ExprStmt(Assign("=", Ident("x"), Conditional(A, Unary("*", B), One)))>>)>>]] >>

MCSources == ExprTable \o TypeTable \o StmtTable \o DeclTable \o BodySoups \o TypeSoups
=============================================================================
