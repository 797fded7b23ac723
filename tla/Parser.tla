------------------------------ MODULE Parser ------------------------------
(***************************************************************************)
(* Types, expressions and statements: precedence, casts, generic calls,     *)
(* braced initializers, and what tells a declaration from an expression     *)
(* (src/src/Parse/ParseType.c, ParseExpr.c, ParseStmt.c).                   *)
(***************************************************************************)
EXTENDS ParserState

\* What is nested in itself, or in a declaration: a type, bare, full or any but `var`, an
\* expression, one of binary operators, a braced initializer, a statement, a block.
RECURSIVE Parse(_, _)
ParseTypeImpl(p, bare) == Parse(IF bare THEN "bare type" ELSE "type", p)
ParserTryParseType(p)  == Parse("any type", p)
ParseExpr(p)           == Parse("expression", p)
ParseStatement(p)      == Parse("statement", p)
ParseOperation(p)      == Parse("operation", p)
ParseBraced(p)         == Parse("braces", p)

-----------------------------------------------------------------------------
\* Types.

NamedType(name, args) == [k |-> "name", name |-> name, args |-> args]
Boxed(t)        == [k |-> "box", type |-> t]
Pointer(t)      == [k |-> "pointer", type |-> t]
Optional(t)     == [k |-> "optional", type |-> t]
ArrayOf(t, len) == [k |-> "array", type |-> t, len |-> len]   \* "" for `[]`
Const(t)        == [k |-> "const", type |-> t]
Pack(t)         == [k |-> "pack", type |-> t]                   \* `Name...`
Inferred        == [k |-> "var"]

Unconst(t)        == IF t.k = "const" THEN t.type ELSE t
IsNamed(t, name)  == Unconst(t).k = "name" /\ Unconst(t).name = name
IsArray(t)        == Unconst(t).k = "array"
MaxDims           == 8

RECURSIVE AnyFixed(_)
AnyFixed(t) == t.k = "array" /\ (IsInteger(t.len) \/ AnyFixed(t.type))

\* Arrays of t, after count groups of brackets; the last group is the innermost array.
RECURSIVE Dims(_, _, _)
Dim(p, len, t, count) == Then(Dims(p, t, count + 1), LAMBDA q, inner : Result(q, ArrayOf(inner, len)))
\* p is after `[N`; saved is at its `[`.
DimEnd(p, saved, t, count) ==
  IF At(p, "]") THEN Dim(Advance(p), Ahead(saved), t, count) ELSE Result(RestoreLexerState(p, saved), t)
Bracket(p, t, count) ==
  IF Ahead(p) = "]" THEN Dim(Advance(Advance(p)), "", t, count)
  ELSE IF IsInteger(Ahead(p)) \/ IsName(Ahead(p)) THEN DimEnd(Advance(Advance(p)), p, t, count)
  ELSE Result(p, t)
Dims(p, t, count) ==
  IF At(p, "[") /\ count < MaxDims THEN Bracket(LexerPeekToken(p), t, count) ELSE Result(p, t)

ApplyArrayBrackets(p, t) == Dims(p, t, 0)

ParseOptionalSuffix(p, t) ==
  IF ~At(p, "?") THEN Result(p, t)
  ELSE IF IsNamed(t, "cstring") THEN Result(Advance(Report(p, "optional cstring")), t)
  ELSE Result(Advance(p), Optional(t))

ParseArrayOptionalSuffix(p, t) ==
  IF ~At(p, "?") THEN Result(p, t)
  ELSE IF t.k = "array" /\ ~IsInteger(t.len) THEN Result(Advance(p), Optional(t))
  ELSE Result(Advance(Report(p, "optional")), t)

\* After a box: `?` only after `[]` of every dimension.
BoxOptionalSuffix(p, t) ==
  IF ~At(p, "?") THEN Result(p, t)
  ELSE IF t.k = "array" /\ ~AnyFixed(t) THEN Result(Advance(p), Optional(t))
  ELSE Result(Advance(Report(p, "optional")), t)

ParseBoxSuffixes(p, t) ==
  Then(ApplyArrayBrackets(IF At(p, "?") THEN Advance(Report(p, "optional box")) ELSE p, t), BoxOptionalSuffix)

ConsumeTypeArgClose(p) == IF At(p, ">") THEN Advance(p) ELSE [p EXCEPT !.split = TRUE]

\* The type arguments of a name. Only a bare name can be expanded; the list ends at `>`.
RECURSIVE TypeArgs(_, _, _)
TypeArgs(p, name, args) ==
  IfParsed(ParseTypeImpl(p, FALSE), LAMBDA q, t :
    LET pack == At(q, "...")
        all  == Append(args, IF pack THEN Pack(t) ELSE t)
        next == ParserConsume(q, "...")
    IN  IF pack /\ (t.k # "name" \/ t.args # <<>>) THEN Fail(q)
        ELSE IF At(next, ",") THEN TypeArgs(Advance(next), name, all)
        ELSE IF Tok(next) \in {">", ">>"} THEN Result(ConsumeTypeArgClose(next), NamedType(name, all))
        ELSE Fail(next))

ParseTypeArgsAfter(p, name, allowEmpty) ==
  IF allowEmpty /\ Tok(Advance(p)) \in {">", ">>"} THEN Result(ConsumeTypeArgClose(Advance(p)), NamedType(name, <<>>))
  ELSE TypeArgs(Advance(p), name, <<>>)

ParseBaseTypeName(p, isConst) ==
  IF IsName(Tok(p)) \/ Tok(p) \in TypeWords THEN Result(Advance(p), NamedType(Tok(p), <<>>))
  ELSE Fail(IF isConst THEN Report(p, "const") ELSE p)

\* p is after the `^` at `at`.
ParseBoxedType(p, at, bare) ==
  Then(ParseTypeImpl(p, TRUE), LAMBDA q, t :
    LET boxed == IF \E w \in {"string", "cstring"} : IsNamed(t, w) THEN ReportAt(q, at, "boxed string") ELSE q
    IN  IF t = Null THEN Fail(Report(q, "type after ^"))
        ELSE IF bare THEN Result(boxed, Boxed(t)) ELSE ParseBoxSuffixes(boxed, Boxed(t)))

\* An optional needs an array.
PointerSuffix(p, t) == IF t.k = "array" THEN ParseArrayOptionalSuffix(p, t) ELSE Result(p, t)

\* Nothing is reported: a statement may start with a dereference.
ParsePointerType(p, bare) ==
  IfParsed(ParseTypeImpl(p, TRUE), LAMBDA q, t :
    IF bare THEN Result(q, Pointer(t)) ELSE Then(ApplyArrayBrackets(q, Pointer(t)), PointerSuffix))

ParseTypeName(p, isConst) ==
  IF IsName(Tok(p)) /\ At(Advance(p), "<") THEN ParseTypeArgsAfter(Advance(p), Tok(p), FALSE)
  ELSE ParseBaseTypeName(p, isConst)

ArraySuffixes(p, t) == Then(ApplyArrayBrackets(p, t), ParseArrayOptionalSuffix)

ParseNamedType(p, isConst, bare) ==
  IfParsed(ParseTypeName(p, isConst), LAMBDA q, t :
    IF bare THEN Result(q, t) ELSE Then(ParseOptionalSuffix(q, t), ArraySuffixes))

\* p is after a `const`. bare: without the suffixes, which bind looser than `^` and `*`.
UnqualifiedType(p, isConst, bare) ==
  CASE At(p, "^") -> ParseBoxedType(Advance(p), p.cur, bare)
    [] At(p, "*") -> ParsePointerType(Advance(p), bare)
    [] OTHER      -> ParseNamedType(p, isConst, bare)

QualifiedType(p, bare) ==
  IfParsed(UnqualifiedType(ParserConsume(p, "const"), At(p, "const"), bare), LAMBDA q, t :
    Result(q, IF At(p, "const") THEN Const(t) ELSE t))

NotInferred(p) == IF At(p, "var") THEN Fail(Report(p, "var")) ELSE ParseTypeImpl(p, FALSE)

\* `handle` is a keyword only before the name it declares.
AtHandleDecl(p) == At(p, "handle") /\ IsName(TokenAt(p.cur + 1))

CheckTypeNameNotHandle(p) == IF At(p, "handle") THEN Report(p, "handle") ELSE p

\* A bug: a trial that fails is not undone.
LooksLikeVarDeclKept(p) ==
  IF Tok(p) \in TypeWords \cup {"ref", "const", "var", "^"} THEN Result(p, TRUE)
  ELSE IF ~IsName(Tok(p)) /\ ~At(p, "*") THEN Result(p, FALSE)
  ELSE Then(ParserTryParseType(p), LAMBDA q, t :
         IF t # Null /\ IsName(Tok(q)) THEN Result(RestoreLexerState(q, p), TRUE) ELSE Result(q, FALSE))

\* Whether a declaration starts here: a name or a `*` does when it is a type followed by a name;
\* the trial is undone.
LooksLikeVarDecl(p) ==
  IF Tok(p) \in TypeWords \cup {"ref", "const", "var", "^"} THEN Result(p, TRUE)
  ELSE IF ~IsName(Tok(p)) /\ ~At(p, "*") THEN Result(p, FALSE)
  ELSE Then(ParserTryParseType(p), LAMBDA q, t : Result(RestoreLexerState(q, p), t # Null /\ IsName(Tok(q))))

-----------------------------------------------------------------------------
\* Expressions.

Ident(name)            == [k |-> "ident", name |-> name]
Literal(t)             == [k |-> "literal", value |-> t]
Unary(op, n)           == [k |-> "unary", op |-> op, operand |-> n]
IncDec(op, prefix, n)  == [k |-> "incdec", op |-> op, prefix |-> prefix, operand |-> n]
Binary(op, l, r)       == [k |-> "binary", op |-> op, lhs |-> l, rhs |-> r]
Conditional(c, t, e)   == [k |-> "conditional", condition |-> c, then |-> t, else |-> e]
Assign(op, target, n)  == [k |-> "assign", op |-> op, target |-> target, value |-> n]
Cast(t, n)             == [k |-> "cast", type |-> t, operand |-> n]
NullTest(n)            == [k |-> "nulltest", operand |-> n]
Index(base, n)         == [k |-> "index", base |-> base, index |-> n]
Member(base, name)     == [k |-> "member", base |-> base, member |-> name]
PackExpand(name)       == [k |-> "expand", name |-> name]
MetaCall(name, args)   == [k |-> "meta", name |-> name, args |-> args]
StructInit(t, fields)  == [k |-> "struct init", type |-> t, fields |-> fields]
ArrayInit(t, elems, n) == [k |-> "array init", type |-> t, elements |-> elems, count |-> n]
Field(name, n)         == [name |-> name, value |-> n]       \* "" without a name

\* types: of `<...>`, NoTypes where there is none.
NoTypes                      == <<Null>>
Call(base, name, types, args) == [k |-> "call", base |-> base, callee |-> name, types |-> types, args |-> args]

-----------------------------------------------------------------------------
\* The operators.

Levels == << {"||"}, {"&&"}, {"|"}, {"^"}, {"&"}, {"==", "!="}, {"<", "<=", ">", ">="}, {"<<", ">>"},
             {"+", "-"}, {"*", "/", "%"} >>

BinaryInfo(t)  == IF \E l \in DOMAIN Levels : t \in Levels[l] THEN CHOOSE l \in DOMAIN Levels : t \in Levels[l] ELSE 0
AssignOps      == {"=", "+=", "-=", "*=", "/=", "%="}
UnaryOps       == {"-", "+", "!", "~", "&", "*"}

\* What makes the `?` before it a conditional.
StartsExpression(t) == IsName(t) \/ IsLiteral(t) \/ t \in {"@", "(", "!", "~", "-"} \cup Vectors

\* What makes the `(Name)` before it a cast.
StartsOperand(t) == IsName(t) \/ IsLiteral(t) \/ t \in {"(", "!", "~"} \cup Numbers \cup Vectors

-----------------------------------------------------------------------------
RECURSIVE ParseAssign(_), ParseConditional(_), ParseBinary(_, _), BinaryRest(_, _, _), ParseUnary(_),
          PostfixRest(_, _), Arguments(_, _), InitFields(_, _), ArrayElements(_, _), MetaArgs(_, _)

\* What failed to parse is left out of a list.
Listed(list, n) == IF n = Null THEN list ELSE Append(list, n)

\* The token that must follow.
Closed(r, t) == [r EXCEPT !.p = ParserExpect(@, t)]

\* `name...` is a pack expanded.
Arguments(p, args) ==
  Then(ParseExpr(p), LAMBDA q, a :
    LET expand == a.k = "ident" /\ At(q, "...")
        next   == IF expand THEN Advance(q) ELSE q
        all    == Listed(args, IF expand THEN PackExpand(a.name) ELSE a)
    IN  IF At(next, ",") THEN Arguments(Advance(next), all) ELSE Result(next, all))

ParseCallArgs(p) ==
  LET open == Advance(p) IN Closed(IF At(open, ")") THEN Result(open, <<>>) ELSE Arguments(open, <<>>), ")")

-----------------------------------------------------------------------------
\* Braced initializers.

\* After an element: on to the next one, or to the end.
NextElement(p, stops) ==
  IF At(p, ",") THEN Advance(p)
  ELSE IF Tok(p) \in {"}", "eof"} THEN p
  ELSE ParserConsume(SkipTo(Report(p, "',' or '}'"), {",", "}"} \cup stops), ",")

ParseStructInitBody(p, t) ==
  Then(InitFields(Advance(p), <<>>), LAMBDA q, fields : Result(ParserExpect(q, "}"), StructInit(t, fields)))

ParseArrayInitBody(p, t) ==
  Then(ArrayElements(Advance(p), <<>>), LAMBDA q, list :
    Result(ParserExpect(q, "}"), ArrayInit(t, list.elements, list.count)))

ParseBracePrimary(p) == IF Ahead(p) = "." THEN ParseStructInitBody(p, Null) ELSE ParseArrayInitBody(p, Null)

\* p is at the value of a field.
InitValue(p, name, fields) ==
  Then(IF At(p, "{") THEN ParseBraced(p) ELSE ParseExpr(p), LAMBDA q, v :
    InitFields(NextElement(q, {"."}), IF v = Null THEN fields ELSE Append(fields, Field(name, v))))

InitFields(p, fields) ==
  LET at == Advance(p)
  IN  IF Tok(p) \in {"}", "eof"} THEN Result(p, fields)
      ELSE IF ~At(p, ".") THEN InitValue(p, "", fields)
      ELSE IF ~IsName(Tok(at)) THEN Result(Report(at, "field name"), fields)
      ELSE InitValue(ParserExpect(Advance(at), "="), Tok(at), fields)

\* p is after the first elements. `{ value; count }` is count copies of one value.
AfterElement(p, elems) ==
  IF Len(elems) = 1 /\ At(p, ";") THEN [ParseExpr(Advance(p)) EXCEPT !.node = [elements |-> elems, count |-> @]]
  ELSE ArrayElements(NextElement(p, {}), elems)

ArrayElements(p, elems) ==
  IF Tok(p) \in {"}", "eof"} THEN Result(p, [elements |-> elems, count |-> Null])
  ELSE Then(ParseExpr(p), LAMBDA q, e : AfterElement(q, Listed(elems, e)))

-----------------------------------------------------------------------------
\* Primaries.

\* Type arguments of a call: a `<` opens them only when a `(` follows the `>`, or where
\* a literal is allowed a `{` after at least one.
TryTypeArgs(p, name, literal) ==
  LET Opens(q, t) == t # Null /\ (At(q, "(") \/ (literal /\ At(q, "{") /\ t.args # <<>>))
  IN  IF ~At(p, "<") THEN Fail(p)
      ELSE Then(ParseTypeArgsAfter(p, name, TRUE), LAMBDA q, t :
             IF Opens(q, t) THEN Result(q, t) ELSE Fail(RestoreLexerState(q, p)))

\* p is at the `(` of a call.
CallOf(p, base, name, t) ==
  Then(ParseCallArgs(p), LAMBDA q, args : Result(q, Call(base, name, IF t = Null THEN NoTypes ELSE t.args, args)))

\* A name or a type word: a call, a struct literal, or a name.
ParseNamedPrimary(p) ==
  LET name == Tok(p)
  IN  Then(IF IsName(name) THEN TryTypeArgs(Advance(p), name, TRUE) ELSE Fail(Advance(p)), LAMBDA q, t :
        CASE At(q, "(") -> CallOf(q, Null, name, t)
          [] At(q, "{") -> ParseStructInitBody(q, IF t = Null THEN NamedType(name, <<>>) ELSE t)
          [] OTHER      -> Result(q, Ident(name)))

\* The inner expression, whatever follows it.
ParseParenExpr(p) == Closed(ParseExpr(Advance(p)), ")")

\* A type when `,` or `)` follows it, else an expression.
ParseMetaArg(p) ==
  Then(ParserTryParseType(p), LAMBDA q, t :
    IF t # Null /\ Tok(q) \in {",", ")"} THEN Result(q, t) ELSE ParseExpr(RestoreLexerState(q, p)))

MetaArgs(p, args) ==
  Then(ParseMetaArg(p), LAMBDA q, a :
    IF At(q, ",") THEN MetaArgs(Advance(q), Listed(args, a)) ELSE Result(q, Listed(args, a)))

\* p is after the name; q where a `(` that is missing was reported.
MetaCallArgs(p, name, q) ==
  IF ~At(p, "(") THEN Result(q, MetaCall(name, <<>>))
  ELSE Then(IF At(Advance(p), ")") THEN Result(Advance(p), <<>>) ELSE MetaArgs(Advance(p), <<>>), LAMBDA r, args :
         Result(ParserExpect(r, ")"), MetaCall(name, args)))

\* A missing name or `(` is reported, and the call is kept.
ParseMetaCall(p) ==
  LET at    == Advance(p)
      named == IsName(Tok(at))
      open  == IF named THEN Advance(at) ELSE Report(at, "meta function name")
  IN  MetaCallArgs(open, IF named THEN Tok(at) ELSE "", IF named THEN Report(open, "(") ELSE open)

\* `T[] {` or `T[N] {`, seen by walking the brackets; p is at a bracket, or after one.
RECURSIVE BraceAfterDims(_, _)
BraceAfterDim(p, sawDim) ==
  IF At(p, "]") THEN BraceAfterDims(Advance(p), TRUE)
  ELSE IF ~(IsInteger(Tok(p)) \/ IsName(Tok(p))) THEN FALSE
  ELSE IF At(Advance(p), "]") THEN BraceAfterDims(Advance(Advance(p)), TRUE) ELSE sawDim /\ At(Advance(p), "{")
BraceAfterDims(p, sawDim) == IF At(p, "[") THEN BraceAfterDim(Advance(p), sawDim) ELSE sawDim /\ At(p, "{")

StartsTypedArrayLiteral(p) ==
  (IsName(Tok(p)) \/ Tok(p) \in Scalars \cup Vectors) /\ BraceAfterDims(Advance(p), FALSE)

\* The body is read even when the type is refused.
ParseTypedArrayLiteral(p) ==
  IfParsed(ParserTryParseType(p), LAMBDA q, t :
    ParseArrayInitBody(IF t.len # "" THEN ReportAt(q, p.cur, "fixed-size array literal") ELSE q, t.type))

ParsePrimary(p) ==
  CASE StartsTypedArrayLiteral(p) -> ParseTypedArrayLiteral(p)
    [] IsLiteral(Tok(p)) -> Result(Advance(p), Literal(Tok(p)))
    [] ~StartsTypedArrayLiteral(p) /\ (IsName(Tok(p)) \/ Tok(p) \in Numbers \cup Vectors) -> ParseNamedPrimary(p)
    [] At(p, "@") -> ParseMetaCall(p)
    [] At(p, "(") -> ParseParenExpr(p)
    [] At(p, "{") -> ParseBraced(p)
    [] OTHER -> Fail(Report(p, "expression"))

-----------------------------------------------------------------------------
\* Postfix forms.

\* p is at the name after a dot.
MemberAfterDot(p, e) ==
  LET name == Tok(p)
  IN  IF ~IsName(name) THEN Result(Report(p, "member name"), e)
      ELSE IF e = Ident("ptr") /\ name = "null" /\ ~At(Advance(p), "(") THEN PostfixRest(Advance(p), Ident("ptr.null"))
      ELSE Then(Then(TryTypeArgs(Advance(p), name, FALSE), LAMBDA q, t :
                  IF At(q, "(") THEN CallOf(q, e, name, t) ELSE Result(q, Member(e, name))), PostfixRest)

PostfixRest(p, e) ==
  CASE At(p, "?") /\ ~StartsExpression(Ahead(p)) -> PostfixRest(Advance(p), NullTest(e))
    [] At(p, "[") -> IfParsed(Closed(ParseExpr(Advance(p)), "]"), LAMBDA q, n : PostfixRest(q, Index(e, n)))
    [] Tok(p) \in {"++", "--"} -> PostfixRest(Advance(p), IncDec(Tok(p), FALSE, e))
    [] At(p, ".") -> MemberAfterDot(Advance(p), e)
    [] OTHER -> Result(p, e)

ParsePostfix(p) == IfParsed(ParsePrimary(p), PostfixRest)

-----------------------------------------------------------------------------
\* Operators.

\* The `)` that ends a cast of type t: `(Type)` is one for certain when the type is a keyword
\* or a box; `(Name)` and `(*Name)` when what follows can only start an operand.
CastEnd(p, t, sure, saved) ==
  LET seen == IF t # Null /\ At(p, ")") THEN LexerPeekToken(p) ELSE p
  IN  IF t # Null /\ At(p, ")") /\ (sure \/ StartsOperand(Ahead(p))) THEN Result(Advance(seen), t)
      ELSE Fail(RestoreLexerState(seen, saved))

\* The type of a cast, or the parser as it was.
TryCast(p) ==
  LET saved == LexerPeekToken(p)
      sure  == Ahead(p) \in Scalars \cup {"^"}
  IN  IF ~At(p, "(") THEN Fail(p)
      ELSE IF ~(sure \/ IsName(Ahead(p)) \/ Ahead(p) = "*") THEN Fail(saved)
      ELSE Then(ParserTryParseType(Advance(saved)), LAMBDA q, t : CastEnd(q, t, sure, saved))

\* p is at the operand.
Prefixed(p, Node(_)) == IfParsed(ParseUnary(p), LAMBDA q, n : Result(q, Node(n)))

ParseUnary(p) ==
  IF Tok(p) \in UnaryOps \cup {"++", "--"}
  THEN Prefixed(Advance(p), LAMBDA n : IF Tok(p) \in UnaryOps THEN Unary(Tok(p), n) ELSE IncDec(Tok(p), TRUE, n))
  ELSE Then(TryCast(p), LAMBDA q, t : IF t = Null THEN ParsePostfix(q) ELSE Prefixed(q, LAMBDA n : Cast(t, n)))

\* A bug: operators of one level group to the right.
BinaryRestRight(p, l, minPrec) ==
  LET prec == BinaryInfo(Tok(p))
  IN  IF prec = 0 \/ prec < minPrec THEN Result(p, l)
      ELSE IfParsed(ParseBinary(Advance(p), prec), LAMBDA q, r : BinaryRest(q, Binary(Tok(p), l, r), minPrec))

BinaryRest(p, l, minPrec) ==
  LET prec == BinaryInfo(Tok(p))
  IN  IF prec = 0 \/ prec < minPrec THEN Result(p, l)
      ELSE IfParsed(ParseBinary(Advance(p), prec + 1), LAMBDA q, r : BinaryRest(q, Binary(Tok(p), l, r), minPrec))

ParseBinary(p, minPrec) == IfParsed(ParseUnary(p), LAMBDA q, l : BinaryRest(q, l, minPrec))

\* A branch that failed leaves a hole.
ParseConditional(p) ==
  IfParsed(ParseOperation(p), LAMBDA q, c :
    IF ~At(q, "?") THEN Result(q, c)
    ELSE Then(ParseExpr(Advance(q)), LAMBDA r, t :
           Then(ParseConditional(ParserExpect(r, ":")), LAMBDA end, e : Result(end, Conditional(c, t, e)))))

ParseAssign(p) ==
  IfParsed(ParseConditional(p), LAMBDA q, target :
    IF Tok(q) \notin AssignOps THEN Result(q, target)
    ELSE IfParsed(IF At(Advance(q), "{") THEN ParseBraced(Advance(q)) ELSE ParseAssign(Advance(q)), LAMBDA r, v :
           Result(r, Assign(Tok(q), target, v))))

-----------------------------------------------------------------------------
\* Statements.

VarDecl(t, name, isRef, init) == [k |-> "var decl", type |-> t, name |-> name, isRef |-> isRef, init |-> init]
ExprStmt(n)                   == [k |-> "expr stmt", expr |-> n]     \* Null in an empty one
Block(stmts)                  == [k |-> "block", statements |-> stmts]
If(c, then, else)             == [k |-> "if", condition |-> c, then |-> then, else |-> else]
While(c, body)                == [k |-> "while", condition |-> c, body |-> body]
For(init, c, update, body)    == [k |-> "for", init |-> init, condition |-> c, update |-> update, body |-> body]
Return(n)                     == [k |-> "return", value |-> n]
Defer(s)                      == [k |-> "defer", stmt |-> s]
Jump(word)                    == [k |-> word]                        \* break, continue

Ended(r) == Closed(r, ";")

-----------------------------------------------------------------------------
\* What a `{` initializes.

\* The struct a braced initializer of a type makes: inside a box or an optional.
Inside(t) == IF t.k \in {"box", "optional"} THEN t.type ELSE t

\* A braced initializer is an array literal for an array, or an optional one.
ParseTypedInit(p, t) ==
  LET plain == Unconst(t)
      array == IF plain.k = "optional" THEN Unconst(plain.type) ELSE plain
  IN  IF array.k = "array" THEN ParseArrayInitBody(p, array.type)
      ELSE ParseStructInitBody(p, IF IsNamed(t, "string") THEN Null ELSE Unconst(Inside(plain)))

-----------------------------------------------------------------------------
\* Declarations.

StartsVarInfer(p) == At(ParserConsume(p, "const"), "var")

\* `var name = expr`; the caller ends the statement.
ParseInferredVarDecl(p) ==
  LET at   == Advance(ParserConsume(p, "const"))
      type == IF At(p, "const") THEN Const(Inferred) ELSE Inferred
  IN  IF ~IsName(Tok(at)) THEN Fail(Report(at, "variable name"))
      ELSE IF ~At(Advance(at), "=") THEN Fail(Report(Advance(at), "initializer"))
      ELSE IfParsed(ParseExpr(Advance(Advance(at))), LAMBDA q, n : Result(q, VarDecl(type, Tok(at), FALSE, n)))

\* p is at what a variable of type t is given; a `{` only where braced.
Initializer(p, t, braced) == IF braced /\ At(p, "{") THEN ParseTypedInit(p, t) ELSE ParseExpr(p)

\* A type and a name, and what `=` gives it.
ParseDeclarator(p, isRef, refConst, braced) ==
  IfParsed(ParserTryParseType(p), LAMBDA q, t :
    LET type == IF refConst THEN Const(Unconst(t)) ELSE t
        name == Tok(q)
    IN  IF ~IsName(name) THEN Fail(Report(q, "variable name"))
        ELSE Then(IF At(Advance(q), "=") THEN Initializer(Advance(Advance(q)), type, braced) ELSE Fail(Advance(q)),
                  LAMBDA r, n : Result(r, VarDecl(type, name, isRef, n))))

EndedIfParsed(r) == IF Failed(r) THEN r ELSE Ended(r)

\* `ref T x` and `const ref T x` bind an alias.
ParseVarDecl(p) ==
  LET refConst == At(p, "const") /\ At(Advance(p), "ref")
      at       == IF refConst THEN Advance(p) ELSE p
      q        == ParserConsume(at, "ref")
  IN  IF At(at, "ref") /\ At(q, "var") THEN Fail(Report(q, "ref var"))
      ELSE EndedIfParsed(ParseDeclarator(q, At(at, "ref"), refConst, TRUE))

ParseExprStmt(p) == IfParsed(ParseExpr(p), LAMBDA q, n : Ended(Result(q, ExprStmt(n))))

ParseVarDeclOrExprStmt(p) ==
  IF StartsVarInfer(p) THEN EndedIfParsed(ParseInferredVarDecl(p))
  ELSE Then(LooksLikeVarDecl(p), LAMBDA q, looks : IF looks THEN ParseVarDecl(q) ELSE ParseExprStmt(q))

-----------------------------------------------------------------------------
\* Control flow.

RECURSIVE Statements(_, _)

\* A statement that failed is skipped.
Statements(p, stmts) ==
  IF Tok(p) \in {"}", "eof"} THEN Result(p, stmts)
  ELSE Then(ParseStatement(p), LAMBDA q, s :
         IF s = Null THEN Statements(Synchronize(q), stmts) ELSE Statements(q, Append(stmts, s)))

ParseBlock(p) ==
  Then(Statements(ParserExpect(p, "{"), <<>>), LAMBDA q, stmts : Result(ParserExpect(q, "}"), Block(stmts)))

\* `{` makes what the function returns: a dynamic array, or the struct inside an optional or a box.
ParseReturnInit(p) ==
  LET plain == Unconst(p.returnType)
      t     == IF plain.k = "optional" THEN Unconst(plain.type) ELSE plain
  IN  IF t.k = "array" /\ ~IsInteger(t.len) THEN ParseArrayInitBody(p, t.type)
      ELSE ParseStructInitBody(p, Unconst(IF t.k = "box" THEN t.type ELSE t))

ParseReturn(p) ==
  LET q == Advance(p)
  IN  IF At(q, ";") THEN Result(Advance(q), Return(Null))
      ELSE Then(IF At(q, "{") /\ p.returnType # Null THEN ParseReturnInit(q) ELSE ParseExpr(q), LAMBDA r, n :
             Ended(Result(r, Return(n))))

\* `(cond)`
ParseCondition(p) == Closed(ParseExpr(ParserExpect(p, "(")), ")")

ParseElse(p) == IF At(p, "else") THEN ParseStatement(Advance(p)) ELSE Fail(p)

ParseIf(p) ==
  Then(ParseCondition(Advance(p)), LAMBDA q, c :
    Then(ParseStatement(q), LAMBDA r, t :
      Then(ParseElse(r), LAMBDA end, e : Result(end, If(c, t, e)))))

ParseWhile(p) ==
  Then(ParseCondition(Advance(p)), LAMBDA q, c :
    Then(ParseStatement(q), LAMBDA r, body : Result(r, While(c, body))))

\* The first clause of a `for`, the declaration or Null, and whether a declaration failed.
Clause(r, isDecl) == Result(r.p, [init |-> r.node, lost |-> isDecl /\ Failed(r)])
ParseForInit(p) ==
  IF At(p, ";") THEN Clause(Fail(p), FALSE)
  ELSE IF StartsVarInfer(p) THEN Clause(ParseInferredVarDecl(p), TRUE)
  ELSE Then(LooksLikeVarDecl(p), LAMBDA q, looks :
         Clause(IF looks THEN ParseDeclarator(q, FALSE, FALSE, FALSE) ELSE ParseExpr(q), looks))

\* A clause that may be left out, and the token that ends it.
ClauseExpr(p, stop) == Closed(IF At(p, stop) THEN Fail(p) ELSE ParseExpr(p), stop)

ForClauses(p, init) ==
  Then(ClauseExpr(p, ";"), LAMBDA q, c :
    Then(ClauseExpr(q, ")"), LAMBDA r, update :
      Then(ParseStatement(r), LAMBDA end, body : Result(end, For(init, c, update, body)))))

ParseFor(p) ==
  LET open == Advance(p)
  IN  IF ~At(open, "(") THEN Fail(Report(open, "("))
      ELSE Then(ParseForInit(Advance(open)), LAMBDA q, clause :
             IF clause.lost THEN Fail(q) ELSE ForClauses(ParserExpect(q, ";"), clause.init))

ParseDefer(p) ==
  Then(ParseStatement(Advance(p)), LAMBDA q, s :
    IF s \in {Null, ExprStmt(Null)} THEN Fail(ReportAt(q, p.cur, "statement after defer")) ELSE Result(q, Defer(s)))

Statement(p) ==
  CASE At(p, "{")      -> ParseBlock(p)
    [] At(p, "return") -> ParseReturn(p)
    [] At(p, "if")     -> ParseIf(p)
    [] At(p, "while")  -> ParseWhile(p)
    [] At(p, "for")    -> ParseFor(p)
    [] At(p, "defer")  -> ParseDefer(p)
    [] Tok(p) \in {"break", "continue"} -> Ended(Result(Advance(p), Jump(Tok(p))))
    [] At(p, ";")      -> Result(Advance(p), ExprStmt(Null))
    [] OTHER           -> ParseVarDeclOrExprStmt(p)

Parse(what, p) ==
  CASE what \in {"type", "bare type"} -> QualifiedType(p, what = "bare type")
    [] what = "any type"   -> NotInferred(p)
    [] what = "expression" -> ParseAssign(p)
    [] what = "operation"  -> ParseBinary(p, 0)
    [] what = "braces"     -> ParseBracePrimary(p)
    [] what = "array initializer" -> ParseArrayInitBody(p, Null)
    [] what = "statement"  -> Statement(p)
    [] what = "block"      -> ParseBlock(p)
=============================================================================
