------------------------------- MODULE Printer -------------------------------
(***************************************************************************)
(* How a program is written: the tokens of a tree, with parentheses where   *)
(* the precedence of the operators needs them and nowhere else.  This is    *)
(* what the parser is compared with; it has no counterpart in the code.     *)
(***************************************************************************)
EXTENDS ParserDecl
LOCAL INSTANCE SequencesExt

Parens(ts) == <<"(">> \o ts \o <<")">>
If_(c, ts) == IF c THEN ts ELSE <<>>

\* Sequences of tokens with a separator between them.
Separated(tss, sep) == FoldLeft(LAMBDA acc, ts : IF acc = <<>> THEN ts ELSE acc \o <<sep>> \o ts, <<>>, tss)
Joined(tss)         == FlattenSeq(tss)

-----------------------------------------------------------------------------
\* The tokens of a type, an expression, a statement, a declaration.
RECURSIVE Written(_, _)
TypeTokens(t) == Written("type", t)
ExprTokens(n) == Written("expression", n)
StmtTokens(s) == Written("statement", s)
TopTokens(d)  == Written("declaration", d)

RECURSIVE DimTokens(_), Leaf(_)

Leaf(t)      == IF t.k = "array" THEN Leaf(t.type) ELSE t
DimTokens(t) == IF t.k = "array" THEN <<"[">> \o If_(t.len # "", <<t.len>>) \o <<"]">> \o DimTokens(t.type) ELSE <<>>

OfType(t) ==
  CASE t.k = "name"     -> <<t.name>> \o If_(t.args # <<>>, <<"<">> \o Separated([i \in DOMAIN t.args |-> TypeTokens(t.args[i])], ",") \o <<">">>)
    [] t.k = "const"    -> <<"const">> \o TypeTokens(t.type)
    [] t.k = "box"      -> <<"^">> \o TypeTokens(t.type)
    [] t.k = "pointer"  -> <<"*">> \o TypeTokens(t.type)
    [] t.k = "optional" -> TypeTokens(t.type) \o <<"?">>
    [] t.k = "array"    -> TypeTokens(Leaf(t)) \o DimTokens(t)
    [] t.k = "pack"     -> TypeTokens(t.type) \o <<"...">>
    [] t.k = "var"      -> <<"var">>

-----------------------------------------------------------------------------
\* How tightly an expression binds.

ASSIGN == 1   CONDITIONAL == 2   UNARY == 13   POSTFIX == 14   PRIMARY == 15
Comparisons == Levels[7]

Binding(n) ==
  CASE n.k = "assign"                            -> ASSIGN
    [] n.k = "conditional"                       -> CONDITIONAL
    [] n.k = "binary"                            -> CONDITIONAL + BinaryInfo(n.op)
    [] n.k \in {"unary", "cast"}                 -> UNARY
    [] n.k = "incdec"                            -> IF n.prefix THEN UNARY ELSE POSTFIX
    [] n.k \in {"nulltest", "index", "member"}   -> POSTFIX
    [] n.k \in {"meta", "array init"}            -> UNARY
    [] n.k = "struct init"                       -> IF n.type = Null THEN UNARY ELSE PRIMARY
    [] OTHER                                     -> PRIMARY

Enclosed(ts, c) == IF c THEN Parens(ts) ELSE ts

\* An expression where something binds as tightly as level.
Tokens(n, level) == Enclosed(ExprTokens(n), Binding(n) < level)

List(ns)     == Separated([i \in DOMAIN ns |-> Tokens(ns[i], ASSIGN)], ",")
Braces(ts)   == <<"{">> \o ts \o <<"}">>
Brackets(ts) == <<"[">> \o ts \o <<"]">>
TypeList(ts) == <<"<">> \o Separated([i \in DOMAIN ts |-> TypeTokens(ts[i])], ",") \o <<">">>

\* `a < b > (c)` is a call, `a? - b` a conditional: comparisons of comparisons and
\* null tests before a `-` need parentheses.
Minuend(ts, op)       == Enclosed(ts, op = "-" /\ Last(ts) = "?")
BinaryTokens(n, level) ==
  Minuend(Tokens(n.lhs, IF n.op \in Comparisons THEN level + 1 ELSE level), n.op) \o <<n.op>> \o Tokens(n.rhs, level + 1)

\* What could be a type is one, unless it has parentheses.
MetaArgTokens(n) ==
  CASE n.k \in {"name", "array", "box", "pointer", "optional", "const"} -> TypeTokens(n)
    [] n.k \in {"ident", "index", "nulltest", "unary"} -> Parens(ExprTokens(n))
    [] OTHER -> Tokens(n, ASSIGN)

\* The token after a `?` must start an expression for the conditional to be seen.
Then_(ts)     == Enclosed(ts, ~StartsExpression(ts[1]))

\* A `{` after an `=` opens a braced initializer and nothing more.
IsBraced(n) == n.k \in {"array init", "struct init"} /\ n.type = Null
Value_(ts, n)  == Enclosed(ts, ts[1] = "{" /\ ~IsBraced(n))
ValueTokens(n) == Value_(Tokens(n, ASSIGN), n)

OfExpr(n) ==
  CASE n.k = "ident"       -> IF n.name = "ptr.null" THEN <<"ptr", ".", "null">> ELSE <<n.name>>
    [] n.k = "literal"     -> <<n.value>>
    [] n.k = "expand"      -> <<n.name, "...">>
    [] n.k = "unary"       -> <<n.op>> \o Tokens(n.operand, UNARY)
    [] n.k = "cast"        -> Parens(TypeTokens(n.type)) \o
                                Tokens(n.operand, IF TypeTokens(n.type)[1] \in Scalars \cup {"^"} THEN UNARY ELSE POSTFIX)
    [] n.k = "incdec"      -> IF n.prefix THEN <<n.op>> \o Tokens(n.operand, UNARY) ELSE Tokens(n.operand, POSTFIX) \o <<n.op>>
    [] n.k = "binary"      -> BinaryTokens(n, CONDITIONAL + BinaryInfo(n.op))
    [] n.k = "conditional" -> Tokens(n.condition, CONDITIONAL + 1) \o <<"?">> \o Then_(Tokens(n.then, ASSIGN)) \o <<":">> \o Tokens(n.else, CONDITIONAL)
    [] n.k = "assign"      -> Tokens(n.target, CONDITIONAL) \o <<n.op>> \o ValueTokens(n.value)
    [] n.k = "nulltest"    -> Tokens(n.operand, POSTFIX) \o <<"?">>
    [] n.k = "index"       -> Tokens(n.base, POSTFIX) \o Brackets(Tokens(n.index, ASSIGN))
    [] n.k = "member"      -> Tokens(n.base, POSTFIX) \o <<".", n.member>>
    [] n.k = "call"        -> If_(n.base # Null, Tokens(n.base, POSTFIX) \o <<".">>) \o <<n.callee>>
                                \o If_(n.types # NoTypes, TypeList(n.types)) \o Parens(List(n.args))
    [] n.k = "meta"        -> <<"@", n.name>> \o Parens(Separated([i \in DOMAIN n.args |-> MetaArgTokens(n.args[i])], ","))
    [] n.k = "struct init" -> If_(n.type # Null, TypeTokens(n.type)) \o Braces(Separated([i \in DOMAIN n.fields |->
                                If_(n.fields[i].name # "", <<".", n.fields[i].name, "=">>) \o ValueTokens(n.fields[i].value)], ","))
    [] n.k = "array init"  -> If_(n.type # Null, TypeTokens(n.type) \o <<"[", "]">>)
                                \o Braces(List(n.elements) \o If_(n.count # Null, <<";">> \o Tokens(n.count, ASSIGN)))
    [] n.k = "null"        -> <<>>

\* A braced initializer of a declaration does not name its type again.
InitTokens(n) ==
  IF n = Null THEN <<>> ELSE ValueTokens(IF n.k \in {"array init", "struct init"} THEN [n EXCEPT !.type = Null] ELSE n)

-----------------------------------------------------------------------------
DeclTokens(d) ==
  LET const == d.isRef /\ d.type.k = "const"
  IN  If_(const, <<"const">>) \o If_(d.isRef, <<"ref">>) \o TypeTokens(IF const THEN d.type.type ELSE d.type)
        \o <<d.name>> \o If_(d.init # Null, <<"=">> \o (IF Unconst(d.type) = Inferred THEN ValueTokens(d.init) ELSE InitTokens(d.init)))

OfStmt(s) ==
  CASE s.k = "var decl"  -> DeclTokens(s) \o <<";">>
    [] s.k = "expr stmt" -> ExprTokens(s.expr) \o <<";">>
    [] s.k = "block"     -> Braces(Joined([i \in DOMAIN s.statements |-> StmtTokens(s.statements[i])]))
    [] s.k = "if"        -> <<"if">> \o Parens(ExprTokens(s.condition)) \o StmtTokens(s.then)
                              \o If_(s.else # Null, <<"else">> \o StmtTokens(s.else))
    [] s.k = "while"     -> <<"while">> \o Parens(ExprTokens(s.condition)) \o StmtTokens(s.body)
    [] s.k = "for"       -> <<"for">> \o Parens((IF s.init.k = "var decl" THEN DeclTokens(s.init) ELSE ExprTokens(s.init))
                              \o <<";">> \o ExprTokens(s.condition) \o <<";">> \o ExprTokens(s.update)) \o StmtTokens(s.body)
    [] s.k = "return"    -> <<"return">> \o InitTokens(s.value) \o <<";">>
    [] s.k = "defer"     -> <<"defer">> \o StmtTokens(s.stmt)
    [] s.k = "null"      -> <<>>
    [] OTHER             -> <<s.k, ";">>

ParamTokens(q) ==
  LET Mod(w) == If_(w \in q.mods, <<w>>)
  IN  Mod("const") \o (IF "return" \in q.mods THEN <<"return">> ELSE Mod("ref"))
        \o (IF q.self THEN <<"self">> ELSE TypeTokens(q.type) \o If_(q.rest, <<"...">>) \o <<q.name>>)

\* A pack is marked by the `...` after its name.
TypeParamTokens(names) ==
  If_(names # <<>>, <<"<">> \o FoldLeft(LAMBDA acc, n : IF acc = <<>> \/ n = "..." THEN Append(acc, n) ELSE acc \o <<",", n>>, <<>>, names)
                      \o <<">">>)

FunctionTokens(f) ==
  LET s == f.signature
  IN  Joined([i \in DOMAIN s.attributes |-> <<"@", s.attributes[i]>>])
        \o If_(s.isExtern, <<"extern">>) \o If_(s.isDelegate, <<"delegate">>) \o If_(s.typeParam # "", <<"<", s.typeParam, ">">>)
        \o TypeTokens(s.type) \o <<s.name>> \o TypeParamTokens(s.typeParams)
        \o Parens(Separated([i \in DOMAIN f.params |-> ParamTokens(f.params[i])], ",") \o If_(f.cVararg, <<",", "...">>))
        \o (IF f.body = Null THEN <<";">> ELSE StmtTokens(f.body))

FieldTokens(d) ==
  If_(d.offset # "", <<"fieldoffset", "(", d.offset, ")">>) \o TypeTokens(d.type) \o <<d.name>>
    \o If_(d.value # Null, <<"=">> \o Tokens(d.value, ASSIGN)) \o <<";">>

PropertyTokens(d) ==
  <<"property">> \o TypeTokens(d.type) \o <<d.name>>
    \o Braces(If_(d.get # "", <<"get", "=", d.get, ";">>) \o If_(d.set # "", <<"set", "=", d.set, ";">>))

OfDecl(d) ==
  CASE d.k = "import"   -> <<"import">> \o d.path \o <<";">>
    [] d.k = "handle"   -> <<"handle", d.name>> \o If_(d.base # "", <<":", d.base>>) \o <<";">>
    [] d.k = "alias"    -> <<"struct", d.name, "=">> \o TypeTokens(d.type) \o <<";">>
    [] d.k = "struct"   -> If_(d.component, <<"@", "component">>) \o If_(d.isExtern, <<"extern">>) \o <<d.word, d.name>> \o TypeParamTokens(d.params)
                             \o (IF d.complete THEN Braces(Joined([i \in DOMAIN d.fields |-> FieldTokens(d.fields[i])])) ELSE <<";">>)
    [] d.k = "enum"     -> If_(d.flags, <<"@", "flags">>) \o <<"enum", d.name>> \o If_(d.type # Null, <<":">> \o TypeTokens(d.type))
                             \o Braces(Separated([i \in DOMAIN d.members |-> <<d.members[i].name>>
                                  \o If_(d.members[i].value # Null, <<"=">> \o Tokens(d.members[i].value, CONDITIONAL + 1))], ","))
    [] d.k = "impl"     -> <<"impl", d.name>> \o TypeParamTokens(d.params)
                             \o Braces(Joined([i \in DOMAIN d.methods |-> FunctionTokens(d.methods[i])])
                                        \o Joined([i \in DOMAIN d.properties |-> PropertyTokens(d.properties[i])]))
    [] d.k = "function" -> FunctionTokens(d)
    [] d.k = "global"   -> TypeTokens(d.type) \o <<d.name>> \o If_(d.init # Null, <<"=">> \o InitTokens(d.init)) \o <<";">>

Written(what, n) ==
  CASE what = "type" -> OfType(n)  [] what = "expression" -> OfExpr(n)  [] what = "statement" -> OfStmt(n)
    [] what = "declaration" -> OfDecl(n)
=============================================================================
