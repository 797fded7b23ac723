------------------------------ MODULE ParserDecl ------------------------------
(***************************************************************************)
(* Declarations: structs, enums, handles, impl blocks, functions and        *)
(* globals (src/src/Parse/ParseDecl.c).                                     *)
(***************************************************************************)
EXTENDS Parser

\* A declaration, or what one is made of.
RECURSIVE Declare(_, _)
DeclType(p)    == Declare("any type", p)
DeclExpr(p)    == Declare("expression", p)
Declaration(p) == Declare("declaration", p)

Import(path)         == [k |-> "import", path |-> path]
Handle(name, base)   == [k |-> "handle", name |-> name, base |-> base]           \* "" without a base
Alias(name, t)       == [k |-> "alias", name |-> name, type |-> t]
Enum(name, t, members) == [k |-> "enum", name |-> name, type |-> t, members |-> members, flags |-> FALSE]
EnumValue(name, n)   == [name |-> name, value |-> n]
Global(t, name, n)   == [k |-> "global", type |-> t, name |-> name, init |-> n]
Impl(name, params, methods, props) ==
  [k |-> "impl", name |-> name, params |-> params, methods |-> methods, properties |-> props]
Property(t, name, get, set) == [k |-> "property", type |-> t, name |-> name, get |-> get, set |-> set]

\* word: struct or union.
Struct(word, name, params, fields, complete, isExtern) ==
  [k |-> "struct", word |-> word, name |-> name, params |-> params, fields |-> fields,
   complete |-> complete, isExtern |-> isExtern, component |-> FALSE]
FieldDecl(t, name, offset, n) == [type |-> t, name |-> name, offset |-> offset, value |-> n]

\* mods: of "ref", "const" and "return"; rest: `T... name`.
Param(mods, t, name, rest, self) == [mods |-> mods, type |-> t, name |-> name, rest |-> rest, self |-> self]
SelfType == NamedType("self", <<>>)

\* attributes: the names written; cVararg: the list ends in a bare `...`.
Function(signature, params, cVararg, body) ==
  [k |-> "function", signature |-> signature, params |-> params, cVararg |-> cVararg, body |-> body]
Signature(attributes, isExtern, isDelegate, typeParam, t, name, typeParams) ==
  [attributes |-> attributes, isExtern |-> isExtern, isDelegate |-> isDelegate, typeParam |-> typeParam,
   type |-> t, name |-> name, typeParams |-> typeParams]

Checked(p, bad, what) == IF bad THEN Report(p, what) ELSE p

-----------------------------------------------------------------------------
\* `<T, U...>`: names, and whether one is a pack, which only the last may be.

RECURSIVE TypeParams(_, _, _)

\* p is after a parameter.
TypeParamsRest(p, names, pack) ==
  IF At(p, ",") THEN TypeParams(Advance(p), names, pack) ELSE Result(p, [names |-> names, pack |-> pack])

\* One that is refused is left out; a pack before the last is reported, and marks the list.
TypeParam(p, name, refused, names, pack) ==
  LET q      == Checked(Advance(p), refused # "", refused)
      isPack == At(q, "...")
      r      == ParserConsume(q, "...")
  IN  TypeParamsRest(Checked(r, isPack /\ At(r, ","), "parameter pack must be last"),
                     IF refused = "" THEN Append(names, name) ELSE names, pack \/ isPack)

TypeParams(p, names, pack) ==
  LET name == Tok(p)
      taken == \E i \in DOMAIN names : names[i] = name
  IN  IF name \in TypeWords THEN TypeParam(p, name, "builtin type parameter", names, pack)
      ELSE IF IsName(name) THEN TypeParam(p, name, IF taken THEN "duplicate type parameter" ELSE "", names, pack)
      ELSE Result(Report(p, "type parameter name"), [names |-> names, pack |-> pack])

ParseTypeParamList(p) == Closed(TypeParams(Advance(p), <<>>, FALSE), ">")

\* After the name of a function; a pack is marked at the end.
ParseTypeParamsOfFunction(p) ==
  IF ~At(p, "<") THEN Result(p, <<>>)
  ELSE Then(ParseTypeParamList(p), LAMBDA q, l : Result(q, IF l.pack THEN Append(l.names, "...") ELSE l.names))

\* After the name of a type: with no pack.
ParseTypeParamsOfType(p) ==
  IF ~At(p, "<") THEN Result(p, <<>>)
  ELSE Then(ParseTypeParamList(p), LAMBDA q, l : Result(IF l.pack THEN Report(q, "pack of a type") ELSE q, l.names))

-----------------------------------------------------------------------------
\* Handles, structs and enums.

\* `: Base`, or the `extends Base` it replaced.
HandleBase(p) ==
  LET base == Advance(p)  old == Advance(Report(p, "extends"))
  IN  CASE At(p, ":") -> IF IsName(Tok(base)) THEN Result(Advance(base), Tok(base)) ELSE Result(Report(base, "base handle"), "")
        [] At(p, "extends") -> Result(IF IsName(Tok(old)) THEN Advance(old) ELSE old, "")
        [] OTHER -> Result(p, "")

ParseHandleDecl(p) ==
  LET name == Tok(Advance(p))
  IN  Ended(Then(HandleBase(Advance(CheckTypeNameNotHandle(Advance(p)))), LAMBDA q, base :
        Result(IF At(q, "{") THEN Synchronize(Report(Advance(q), "handle body")) ELSE q, Handle(name, base))))

\* A refused type is reported and what follows it skipped, here and by the caller.
ParseStructAlias(p, name) ==
  Then(DeclType(p), LAMBDA q, t :
    IF t = Null THEN Fail(Synchronize(Report(q, "type after ="))) ELSE Ended(Result(q, Alias(name, t))))

\* `fieldoffset(N)`: the offset, "" where there is none, Null when it is malformed.
ParseFieldOffsetPrefix(p, isExtern, isUnion) ==
  LET open  == Advance(p)  n == Advance(open)  close == Advance(n)
      done  == Advance(close)
  IN  IF ~At(p, "fieldoffset") THEN Result(p, Literal(""))
      ELSE IF ~At(open, "(") THEN Fail(Report(open, "("))
      ELSE IF ~IsInteger(Tok(n)) THEN Fail(Report(n, "offset"))
      ELSE IF ~At(close, ")") THEN Fail(Report(close, ")"))
      ELSE Result(IF ~isExtern \/ isUnion THEN Report(done, "fieldoffset") ELSE done, Literal(Tok(n)))

RECURSIVE Fields(_, _, _, _)

\* p is after a field.
AfterField(p, isExtern, isUnion, fields) ==
  IF At(p, ";") THEN Fields(Advance(p), isExtern, isUnion, fields) ELSE Result(Report(p, ";"), fields)

FieldDefault(p, isUnion) ==
  IF ~At(p, "=") THEN Fail(p)
  ELSE Then(DeclExpr(Advance(p)), LAMBDA q, n : Result(IF isUnion THEN Report(q, "union default") ELSE q, n))

ParseStructField(p, offset, isExtern, isUnion, fields) ==
  Then(DeclType(p), LAMBDA q, t :
    IF t = Null THEN Result(Report(q, "field type"), fields)
    ELSE IF ~IsName(Tok(q)) THEN Result(Report(q, "field name"), fields)
    ELSE Then(FieldDefault(Advance(q), isUnion), LAMBDA r, n :
           AfterField(r, isExtern, isUnion, Append(fields, FieldDecl(t, Tok(q), offset, n)))))

\* The fields up to the closing brace, or to one that is malformed.
Fields(p, isExtern, isUnion, fields) ==
  IF Tok(p) \in {"}", "eof"} THEN Result(p, fields)
  ELSE Then(ParseFieldOffsetPrefix(p, isExtern, isUnion), LAMBDA q, offset :
         IF offset = Null THEN Result(q, fields) ELSE ParseStructField(q, offset.value, isExtern, isUnion, fields))

\* p is after the name and its parameters.
StructRest(p, word, name, params, isExtern) ==
  LET generic == params # <<>>
      head    == Checked(p, isExtern /\ generic, "generic extern struct")
      forward == Checked(Checked(head, isExtern, "extern struct body"), generic, "generic forward declaration")
  IN  IF At(p, "=") THEN ParseStructAlias(Checked(Advance(p), generic, "generic alias"), name)
      ELSE IF ~At(head, "{") THEN Ended(Result(forward, Struct(word, name, params, <<>>, FALSE, isExtern)))
      ELSE Then(Fields(Advance(head), isExtern, word = "union", <<>>), LAMBDA q, fields :
             Result(ParserConsume(ParserExpect(q, "}"), ";"), Struct(word, name, params, fields, TRUE, isExtern)))

\* p is at `struct` or `union`.
ParseStructDecl(p, isExtern) ==
  LET at == Advance(p)
  IN  IF ~IsName(Tok(at)) THEN Fail(Report(at, "struct name"))
      ELSE Then(ParseTypeParamsOfType(Advance(CheckTypeNameNotHandle(at))), LAMBDA q, params :
             StructRest(q, Tok(p), Tok(at), params, isExtern))

\* What is malformed before the body is skipped, here and by the caller.
RECURSIVE EnumMembers(_, _)
EnumMember(p, members) == IF At(p, ",") THEN EnumMembers(Advance(p), members) ELSE Result(p, members)
EnumMembers(p, members) ==
  LET With(n) == Append(members, EnumValue(Tok(p), n))
  IN  IF Tok(p) \in {"}", "eof"} THEN Result(p, members)
      ELSE IF ~IsName(Tok(p)) THEN Result(Report(p, "enum member"), members)
      ELSE IF ~At(Advance(p), "=") THEN EnumMember(Advance(p), With(Null))
      ELSE Then(Declare("operation", Advance(Advance(p))), LAMBDA q, n :
             IF n = Null THEN Result(q, members) ELSE EnumMember(q, With(n)))

EnumBody(p, name, t) ==
  Then(EnumMembers(ParserExpect(p, "{"), <<>>), LAMBDA q, members :
    Result(ParserConsume(ParserExpect(q, "}"), ";"), Enum(name, t, members)))

ParseEnumDecl(p) ==
  LET at == Advance(p)
      q  == Advance(CheckTypeNameNotHandle(at))
  IN  IF ~IsName(Tok(at)) THEN Fail(Synchronize(Report(at, "enum name")))
      ELSE IF ~At(q, ":") THEN EnumBody(q, Tok(at), Null)
      ELSE Then(DeclType(Advance(q)), LAMBDA r, t :
             IF t = Null THEN Fail(Synchronize(Report(r, "underlying type"))) ELSE EnumBody(r, Tok(at), t))

-----------------------------------------------------------------------------
\* Functions and globals.

\* `ref`, `const` and `return`, at most three of them.
RECURSIVE ParamMods(_, _, _)
ParamMods(p, mods, count) ==
  IF count < 3 /\ Tok(p) \in {"ref", "const", "return"} THEN ParamMods(Advance(p), mods \cup {Tok(p)}, count + 1)
  ELSE Result(p, mods)

\* p is after the modifiers. `self` without a type has the type of the impl block.
ParamRest(p, mods) ==
  IF At(p, "self") /\ Tok(Advance(p)) \in {",", ")"}
  THEN Result(IF p.implSelf THEN Advance(p) ELSE ReportAt(Advance(p), p.cur, "self"), Param(mods, SelfType, "self", FALSE, TRUE))
  ELSE Then(DeclType(p), LAMBDA q, t :
         LET at == ParserConsume(q, "...")
         IN  IF t = Null THEN Fail(Report(q, "parameter type"))
             ELSE IF ~IsName(Tok(at)) THEN Fail(Report(at, "parameter name"))
             ELSE Result(Advance(at), Param(mods, t, Tok(at), At(q, "..."), FALSE)))

ParseParam(p) == Then(ParamMods(p, {}, 0), ParamRest)

ParamList(params, cVararg) == [params |-> params, cVararg |-> cVararg]

\* p is after the parameters so far: the list ends at one that is malformed, or in a bare
\* `...` after a comma.
RECURSIVE Params(_, _)
ParamsRest(p, params) ==
  IF ~At(p, ",") THEN Result(p, ParamList(params, FALSE))
  ELSE IF At(Advance(p), "...") THEN Result(Advance(Advance(p)), ParamList(params, TRUE))
  ELSE Params(Advance(p), params)

Params(p, params) ==
  Then(ParseParam(p), LAMBDA q, a :
    IF a = Null THEN Result(q, ParamList(params, FALSE))
    ELSE ParamsRest(Checked(q, a.self /\ params # <<>> /\ p.implSelf, "late self"), Append(params, a)))

\* What is wrong with a list as a whole: of the types and the places of its parameters.
ParamErrors(list, isExtern, t) ==
  LET n == Len(list.params)
      Wrong(i) == \/ list.params[i].rest /\ i # n
                  \/ "return" \in list.params[i].mods /\ (~isExtern \/ i # n \/ ~IsNamed(t, "void"))
  IN  (list.cVararg /\ ~isExtern) \/ \E i \in DOMAIN list.params : Wrong(i)

ParseFunctionParams(p, isExtern, t) ==
  LET bare == Checked(p, At(p, "..."), "bare ...")
  IN  Closed(Then(IF At(bare, ")") THEN Result(bare, ParamList(<<>>, FALSE)) ELSE Params(bare, <<>>), LAMBDA q, list :
               Result(Checked(q, ParamErrors(list, isExtern, t), "parameters"), list)), ")")

\* What a braced `return` makes.
ReturnInitType(t) ==
  LET plain == Unconst(t)
  IN  IF plain.k = "box" THEN plain.type ELSE IF IsNamed(t, "string") THEN Null ELSE plain

\* A bug: what the function returns is still known after it.
ParseFunctionBodyKeeping(p, isExtern, t) ==
  IF At(p, ";") THEN Fail(Advance(p))
  ELSE IF isExtern /\ At(p, "{") THEN Fail(Synchronize(Advance(Report(p, "extern body"))))
  ELSE IF ~At(p, "{") THEN Fail(Report(p, "body"))
  ELSE Declare("block", [p EXCEPT !.returnType = ReturnInitType(t)])

\* `;` or a body.
ParseFunctionBody(p, isExtern, t) ==
  IF At(p, ";") THEN Fail(Advance(p))
  ELSE IF isExtern /\ At(p, "{") THEN Fail(Synchronize(Advance(Report(p, "extern body"))))
  ELSE IF ~At(p, "{") THEN Fail(Report(p, "body"))
  ELSE [Declare("block", [p EXCEPT !.returnType = ReturnInitType(t)]) EXCEPT !.p.returnType = Null]

\* p is after `<`: the one type parameter of an extern function.
ExternTypeParam(p) ==
  Closed(IF IsName(Tok(p)) THEN Result(Advance(p), Tok(p)) ELSE Result(Report(p, "extern type parameter"), ""), ">")

\* `extern`, `extern delegate` and `extern<T>`.
Prefix(isExtern, isDelegate, typeParam) == [isExtern |-> isExtern, isDelegate |-> isDelegate, typeParam |-> typeParam]
ParseExternPrefix(p) ==
  LET isDelegate == At(Advance(p), "delegate")
      q == ParserConsume(Advance(p), "delegate")
  IN  IF ~At(p, "extern") THEN Result(p, Prefix(FALSE, FALSE, ""))
      ELSE IF ~At(q, "<") THEN Result(q, Prefix(TRUE, isDelegate, ""))
      ELSE Then(ExternTypeParam(Advance(q)), LAMBDA r, name : Result(r, Prefix(TRUE, isDelegate, name)))

\* p is after the `=` of a global.
GlobalValue(p, t) ==
  LET array == IF Unconst(t).k = "optional" THEN Unconst(Unconst(t).type) ELSE Unconst(t)
  IN  IF At(p, "{") /\ array.k = "array" THEN [Declare("array initializer", p) EXCEPT !.node.type = array.type]
      ELSE DeclExpr(p)

\* Reached when no `(` follows the name.
ParseGlobalDecl(p, t, name, isExtern, attributed) ==
  LET q == Checked(p, attributed, "attribute of a global")
  IN  IF isExtern THEN Fail(Synchronize(Report(p, "extern global")))
      ELSE Then(IF At(q, "=") THEN GlobalValue(Advance(q), t) ELSE Fail(q), LAMBDA r, n :
             Ended(Result(r, Global(t, name, n))))

Has(attributes, a) == \E i \in DOMAIN attributes : attributes[i] = a

\* Whether an attribute is unknown, or excludes another.
AttributeErrors(attributes) ==
  \/ \E i \in DOMAIN attributes : attributes[i] \notin {"private", "export", "noreturn", "meta"}
  \/ Has(attributes, "private") /\ Has(attributes, "export")

\* The rules a function breaks that show in its head.
HeadErrors(s) ==
  \/ s.isDelegate /\ (s.attributes # <<>> \/ s.typeParam # "")
  \/ s.typeParams # <<>> /\ (s.isExtern \/ Has(s.attributes, "export"))
  \/ Has(s.attributes, "meta") /\ (s.isExtern \/ Has(s.attributes, "export") \/ s.typeParams # <<>>)

\* A meta function has a body and takes a fixed number of arguments.
MetaErrors(s, list, body) ==
  Has(s.attributes, "meta")
    /\ ((~s.isExtern /\ body = Null) \/ list.cVararg \/ \E i \in DOMAIN list.params : list.params[i].rest)

\* p is at the `(` of the parameters.
FunctionRest(p, s) ==
  Then(ParseFunctionParams(Advance(Checked(p, HeadErrors(s), "function")), s.isExtern, s.type), LAMBDA q, list :
    Then(ParseFunctionBody(q, s.isExtern, s.type), LAMBDA r, body :
      Result(Checked(r, MetaErrors(s, list, body), "meta function"), Function(s, list.params, list.cVararg, body))))

\* p is after the name.
FunctionOrGlobal(p, x, t, name, attributes) ==
  Then(ParseTypeParamsOfFunction(p), LAMBDA q, params :
    IF At(q, "(") THEN FunctionRest(q, Signature(attributes, x.isExtern, x.isDelegate, x.typeParam, t, name, params))
    ELSE IF At(p, "<") THEN Fail(Report(q, "( after type parameters"))
    ELSE ParseGlobalDecl(q, t, name, x.isExtern, attributes # <<>>))

\* p is after the attributes and the prefix.
TypedDecl(p, x, attributes) ==
  Then(DeclType(p), LAMBDA q, t :
    IF t = Null THEN Fail(IF At(q, "eof") THEN q ELSE Report(q, "type of a function"))
    ELSE IF ~IsName(Tok(q)) THEN Fail(Report(q, "name"))
    ELSE FunctionOrGlobal(Advance(q), x, t, Tok(q), attributes))

ParseFunctionWithAttributes(p, attributes) ==
  Then(ParseExternPrefix(Checked(p, AttributeErrors(attributes), "attributes")), LAMBDA q, x :
    IF attributes # <<>> /\ (Tok(q) \in {"struct", "enum", "import", "impl"} \/ AtHandleDecl(q))
    THEN Fail(Report(q, "attribute")) ELSE TypedDecl(q, x, attributes))

RECURSIVE ParseAttributes(_, _)
ParseAttributes(p, attributes) ==
  LET at == Advance(p)
  IN  IF ~At(p, "@") THEN Result(p, attributes)
      ELSE IF IsName(Tok(at)) THEN ParseAttributes(Advance(at), Append(attributes, Tok(at)))
      ELSE ParseAttributes(Report(at, "attribute name"), attributes)

ParseFunction(p) == Then(ParseAttributes(p, <<>>), ParseFunctionWithAttributes)

-----------------------------------------------------------------------------
\* Impl blocks.

\* `get = Symbol; set = Symbol;`, up to what is neither.
RECURSIVE Accessors(_, _)

\* p is at the symbol.
Accessor(p, symbols, word) ==
  LET q   == Checked(p, symbols[word] # "", "duplicate accessor")
      all == [symbols EXCEPT ![word] = Tok(p)]
  IN  IF ~IsName(Tok(p)) THEN Result(Report(p, "extern symbol"), symbols)
      ELSE IF At(Advance(q), ";") THEN Accessors(Advance(Advance(q)), all) ELSE Result(Report(Advance(q), ";"), all)

Accessors(p, symbols) ==
  IF Tok(p) \in {"}", "eof"} THEN Result(p, symbols)
  ELSE IF Tok(p) \notin {"get", "set"} THEN Result(Report(p, "get or set"), symbols)
  ELSE Accessor(ParserExpect(Advance(p), "="), symbols, Tok(p))

ParsePropertyDecl(p) ==
  Then(DeclType(Advance(p)), LAMBDA q, t :
    IF t = Null THEN Fail(Report(q, "property type"))
    ELSE IF ~IsName(Tok(q)) THEN Fail(Report(q, "property name"))
    ELSE Then(Accessors(ParserExpect(Advance(q), "{"), [w \in {"get", "set"} |-> ""]), LAMBDA r, symbols :
           Result(ParserExpect(r, "}"), Property(t, Tok(q), symbols["get"], symbols["set"]))))

\* What a method breaks: a parameter of the impl's name, a generic drop, an attribute.
MethodErrors(s, params) ==
  \/ \E i \in DOMAIN s.typeParams : Has(params, s.typeParams[i])
  \/ s.name = "drop" /\ s.typeParams # <<>>
  \/ Has(s.attributes, "export") \/ Has(s.attributes, "meta")

RECURSIVE Methods(_, _, _)

\* What was refused is skipped.
Refused(p, params, impl) == Methods(Synchronize(p), params, impl)

Methods(p, params, impl) ==
  IF Tok(p) \in {"}", "eof"} THEN Result(p, impl)
  ELSE IF At(p, "property")
  THEN Then(ParsePropertyDecl(p), LAMBDA q, d :
         IF d = Null THEN Refused(q, params, impl)
         ELSE Methods(q, params, [impl EXCEPT !.properties = Append(@, d)]))
  ELSE Then(Declaration(p), LAMBDA q, f :
         IF f = Null THEN Refused(q, params, impl)
         ELSE IF f.k = "global" THEN Refused(Report(q, "global of an impl"), params, impl)
         ELSE Methods(Checked(q, MethodErrors(f.signature, params), "method"), params,
                      [impl EXCEPT !.methods = Append(@, f)]))

\* p is after the name and its parameters.
ImplBody(p, name, params) ==
  Then(Methods(ParserExpect([p EXCEPT !.implSelf = TRUE], "{"), params, [methods |-> <<>>, properties |-> <<>>]), LAMBDA q, all :
    Result(ParserExpect([q EXCEPT !.implSelf = p.implSelf], "}"), Impl(name, params, all.methods, all.properties)))

ParseImplDecl(p) ==
  LET at == Advance(p)
  IN  IF ~IsName(Tok(at)) THEN Fail(Report(at, "handle name"))
      ELSE Then(ParseTypeParamsOfType(Advance(at)), LAMBDA q, params : ImplBody(q, Tok(at), params))

-----------------------------------------------------------------------------
\* Imports, and what attributes stand before.

\* A path is read as it is written.
RECURSIVE ImportPath(_, _)
ImportPath(p, path) ==
  IF IsName(Tok(p)) \/ Tok(p) \in {"/", "."} THEN ImportPath(Advance(p), Append(path, Tok(p))) ELSE Result(p, Import(path))

\* What follows a missing path is skipped, here and by the caller.
ParseImport(p) ==
  LET at == Advance(p)
  IN  IF IsName(Tok(at)) \/ At(at, ".") THEN Ended(ImportPath(at, <<>>)) ELSE Fail(Synchronize(Report(at, "module path")))

StartsStruct(p)       == Tok(p) \in {"struct", "union"}
StartsExternStruct(p) == At(p, "extern") /\ Ahead(p) \in {"struct", "union"}

\* What is given an attribute a, if it may have it, and what is refused is reported.
Attributed(p, n, attributes, a, field, may) ==
  Result(Checked(p, \E i \in DOMAIN attributes : attributes[i] # a \/ ~may, "attribute"),
         IF may /\ Has(attributes, a) THEN [n EXCEPT ![field] = TRUE] ELSE n)

\* The only attribute of an enum is @flags.
ParseAttributedEnum(p, attributes) ==
  Then(ParseEnumDecl(p), LAMBDA q, n :
    IF n # Null THEN Attributed(q, n, attributes, "flags", "flags", TRUE)
    ELSE Fail(Checked(q, \E i \in DOMAIN attributes : attributes[i] # "flags", "attribute")))

\* The only one of a struct is @component, for one with fields and no parameters.
ParseAttributedStruct(p, attributes) ==
  IfParsed(ParseStructDecl(ParserConsume(p, "extern"), At(p, "extern")), LAMBDA q, n :
    Attributed(q, n, attributes, "component", "component",
               n.k = "struct" /\ n.complete /\ ~n.isExtern /\ n.params = <<>>))

ParseAttributedDecl(p) ==
  Then(ParseAttributes(p, <<>>), LAMBDA q, attributes :
    IF At(q, "enum") THEN ParseAttributedEnum(q, attributes)
    ELSE IF StartsStruct(q) \/ StartsExternStruct(q) THEN ParseAttributedStruct(q, attributes)
    ELSE ParseFunctionWithAttributes(q, attributes))

Declare(what, p) ==
  CASE what = "import"      -> ParseImport(p)
    [] what = "handle"      -> ParseHandleDecl(p)
    [] what = "struct"      -> ParseStructDecl(ParserConsume(p, "extern"), At(p, "extern"))
    [] what = "enum"        -> ParseEnumDecl(p)
    [] what = "impl"        -> ParseImplDecl(p)
    [] what = "attributed"  -> ParseAttributedDecl(p)
    [] what = "declaration" -> ParseFunction(p)
    [] OTHER                -> Parse(what, p)
=============================================================================
