---------------------------- MODULE GenericAst ----------------------------
(***************************************************************************)
(* What the expansion of generics works on: type names, the names they are  *)
(* spelled as, nodes and declarations (TypeName, TypeNameGenericSpelling    *)
(* and the nodes of src/src/AST/AST.h), and deep copies of them with type   *)
(* parameters replaced and parameter packs spliced (src/src/AST/ASTClone.c).*)
(*                                                                          *)
(* A node is [k, name, types, kids, val]: its kind, the name it mentions,   *)
(* the types written in it, the nodes below it in source order, and a       *)
(* number. Sharing of subtrees is not modelled: a copy shares nothing.      *)
(***************************************************************************)
EXTENDS Integers, Sequences
LOCAL INSTANCE SequencesExt

\* F of a value that is named once.
With(x, F(_)) == F(x)

-----------------------------------------------------------------------------
\* Types. A plain name, the name of an instance, a use `name<args>` that is not rewritten
\* yet, `name...`, a wrapper, or no type.

Type(k, name, args) == [k |-> k, name |-> name, args |-> args]

Leaf(name)       == Type("leaf", name, <<>>)
Use(name, args)  == Type("use", name, args)
Expand(name)     == Type("pack", name, <<>>)
Boxed(t)         == Type("box", "", <<t>>)
Optional(t)      == Type("opt", "", <<t>>)
Pointer(t)       == Type("ptr", "", <<t>>)
ArrayOf(t)       == Type("array", "", <<t>>)
FixedArray(t, n) == Type("fixed", n, <<t>>)
NoType           == Type("none", "", <<>>)

IsLeafType(t) == t.k \in {"leaf", "inst"}
IsWrapper(t)  == t.k \in {"box", "opt", "ptr", "array", "fixed"}
IsArray(t)    == t.k \in {"array", "fixed"}

\* The canonical name of t: a use is spelled as the instance it will name.
RECURSIVE Spell(_)
Spell(t) == Type(IF t.k = "use" THEN "inst" ELSE t.k, t.name, [i \in DOMAIN t.args |-> Spell(t.args[i])])

TypeNameGenericSpelling(base, args) == Spell(Use(base, args))

\* Handle_method, and element i of a pack value.
MethodName(handle, method) == Type("method", "", <<handle, method>>)
ElementName(value, i)      == Type("element", value, [j \in 1..i |-> NoType])

\* The names a name is spelled with: what its length grows with.
RECURSIVE SpelledNames(_)
SpelledNames(t) == 1 + FoldLeft(LAMBDA n, a : n + SpelledNames(a), 0, t.args)

-----------------------------------------------------------------------------
\* Nodes.

Node(k, name, types, kids, val) == [k |-> k, name |-> name, types |-> types, kids |-> kids, val |-> val]

Absent      == Node("absent", NoType, <<>>, <<>>, 0)
IntLiteral(v) == Node("int", Leaf("int"), <<>>, <<>>, v)
BoolLiteral(b) == Node("bool", NoType, <<>>, <<>>, IF b THEN 1 ELSE 0)
Ident(n)    == Node("ident", n, <<>>, <<>>, 0)
Block(s)    == Node("block", NoType, <<>>, s, 0)
TypeArg(t)  == Node("type", NoType, <<t>>, <<>>, 0)      \* of a meta call
PackLen(n)  == Node("packlength", Leaf("int"), <<>>, <<>>, n)

IsNamed(n, name) == n.k = "ident" /\ n.name = Leaf(name)

\* A call: val tells whether a list of type arguments is written. The first kid is what a
\* method is called on.
Call(base, callee, listed, targs, args) ==
  Node("call", callee, targs, <<base>> \o args, IF listed THEN 1 ELSE 0)
HasTypeArgList(call) == call.val = 1
CallArgs(call)       == Tail(call.kids)

\* A declaration is a node with type parameters, the last of which may be a pack; a method
\* has the struct it belongs to and its own name; an impl has its methods.
Decl(k, name, types, kids) ==
  [k |-> k, name |-> name, types |-> types, kids |-> kids, val |-> 0, tparams |-> <<>>, pack |-> FALSE,
   handle |-> NoType, method |-> NoType, isExtern |-> FALSE, isInstance |-> FALSE, methods |-> <<>>]

\* A function's kids are its parameters and its body. A parameter's val: 0 by value, 1 the
\* rest parameter, 2 by reference.
Param(name, t, val) == Node("param", Leaf(name), <<t>>, <<>>, val)
IsRest(p)           == p.k = "param" /\ p.val = 1
ParamsOf(fn)        == SelectSeq(fn.kids, LAMBDA p : p.k = "param")
BodyOf(fn)          == fn.kids[Len(fn.kids)]
ReturnType(fn)      == fn.types[1]

FixedTypeParamCount(fn) == Len(fn.tparams) - IF fn.pack THEN 1 ELSE 0
PackType(fn)            == IF fn.pack THEN fn.tparams[Len(fn.tparams)] ELSE ""

\* Whether p is `TArgs... args` for the pack of fn.
IsPackRest(fn, p) == fn.pack /\ IsRest(p) /\ IsArray(p.types[1]) /\ p.types[1].args[1].name = PackType(fn)

-----------------------------------------------------------------------------
\* Substitution: type parameters and their arguments, the pack and its types, the pack
\* loops around, innermost first, and whether misuses of the pack are reported.

NoSubst == [params |-> <<>>, args |-> <<>>, packType |-> "", packArgs |-> <<>>, packValue |-> "",
            loops |-> <<>>, inPackLoop |-> FALSE, reports |-> FALSE]

Binding(params, args) == [NoSubst EXCEPT !.params = params, !.args = args]

SubstArg(s, t) == t.k = "leaf" /\ Contains(s.params, t.name)
ArgOf(s, t)    == s.args[SelectInSeq(s.params, LAMBDA p : p = t.name)]

IsPackTypeName(s, t)  == s.packType # "" /\ t.name = s.packType /\ t.k \in {"leaf", "pack"}
IsPackValueName(s, t) == s.packValue # "" /\ t = Leaf(s.packValue)

RECURSIVE TypeNameSubstitute(_, _)

\* `T...` is spliced if T is the pack, and else copied as written.
SubstTypeArgs(s, args) ==
  FlattenSeq([i \in DOMAIN args |->
    IF args[i].k = "pack" THEN IF IsPackTypeName(s, args[i]) THEN s.packArgs ELSE <<args[i]>>
    ELSE <<TypeNameSubstitute(s, args[i])>>])

TypeNameSubstitute(s, t) ==
  CASE t.k = "use"    -> [t EXCEPT !.args = SubstTypeArgs(s, t.args)]
    [] IsWrapper(t)   -> [t EXCEPT !.args = <<TypeNameSubstitute(s, t.args[1])>>]
    [] SubstArg(s, t) -> ArgOf(s, t)
    [] OTHER          -> t

\* The pack is only ever spliced, or the element of the rest parameter.
RECURSIVE MentionsPack(_, _)
MentionsPack(s, t) == \/ t.k = "leaf" /\ IsPackTypeName(s, t)
                      \/ \E i \in DOMAIN t.args : MentionsPack(s, t.args[i])

-----------------------------------------------------------------------------
\* Copies. A copy comes with what was reported while it was made.

Copy(n, errors) == [n |-> n, errors |-> errors]
CopiedNodes(cs)  == [i \in DOMAIN cs |-> cs[i].n]
CopiedErrors(cs) == UNION {cs[i].errors : i \in DOMAIN cs}
ReportIf(s, bad, what) == IF s.reports /\ bad THEN {what} ELSE {}

TypeErrors(s, types) == ReportIf(s, \E i \in DOMAIN types : MentionsPack(s, types[i]), "pack not expanded")

\* n with the types in it substituted, and c with the copies of what is below it.
Substituted(s, n) == Copy([n EXCEPT !.types = SubstTypeArgs(s, @)], TypeErrors(s, n.types))
WithCopies(c, cs) == Copy([c.n EXCEPT !.kids = CopiedNodes(cs)], c.errors \cup CopiedErrors(cs))

RECURSIVE AstCloneSubst(_, _)
CloneList(s, ns) == [i \in DOMAIN ns |-> AstCloneSubst(s, ns[i])]

\* Most nodes. In each of these n is the node, and c its copy with its types substituted.
CloneNode(s, n, c) == WithCopies(c, CloneList(s, n.kids))

CloneStruct(s, n, c)     == CloneNode(s, n, c)     \* its fields
CloneEnum(s, n, c)       == CloneNode(s, n, c)     \* its members
CloneParam(s, n, c)      == CloneNode(s, n, c)
CloneStatement(s, n, c)  == CloneNode(s, n, c)
CloneStructInit(s, n, c) == CloneNode(s, n, c)     \* `T { .. }` names the argument
CloneTyped(s, n, c)      == CloneNode(s, n, c)     \* casts and globals
CloneParts(s, n, c)      == CloneNode(s, n, c)     \* array literals, tests, meta calls

WithMethodCopies(c, cs) == Copy([c.n EXCEPT !.methods = CopiedNodes(cs)], c.errors \cup CopiedErrors(cs))
CloneImpl(s, n, c) == WithMethodCopies(CloneNode(s, n, c), CloneList(s, n.methods))

\* The rest parameter of a pack becomes a parameter for each of its types.
PackParam(s, p, j) == Copy([p EXCEPT !.name = ElementName(p.name.name, j), !.types = <<s.packArgs[j]>>, !.val = 0], {})
IsPackParam(s, p)  == IsRest(p) /\ IsPackValueName(s, p.name)
CloneParams(s, ns) ==
  FlattenSeq([i \in DOMAIN ns |->
    IF IsPackParam(s, ns[i]) THEN [j \in DOMAIN s.packArgs |-> PackParam(s, ns[i], j)]
    ELSE <<AstCloneSubst(s, ns[i])>>])

\* val: whether the function takes any number of arguments.
CloneFunction(s, n, c) ==
  [WithCopies(c, CloneParams(s, n.kids)) EXCEPT
     !.n.val = IF \E i \in DOMAIN n.kids : IsPackParam(s, n.kids[i]) THEN 0 ELSE @]

\* A `break` in an ordinary loop belongs to that loop.
OrdinaryLoopSubst(s) == [s EXCEPT !.inPackLoop = FALSE]

CloneWhile(s, n, c) == WithCopies(c, <<AstCloneSubst(s, n.kids[1]), AstCloneSubst(OrdinaryLoopSubst(s), n.kids[2])>>)

\* `i < args.length`.
IsPackLoopCondition(s, n) ==
  /\ n.k = "binary" /\ n.name = Leaf("<")
  /\ n.kids[2].k = "member" /\ n.kids[2].name = Leaf("length")
  /\ n.kids[2].kids[1].k = "ident" /\ IsPackValueName(s, n.kids[2].kids[1].name)

\* `i++`, `i += 1` or `i = i + 1`.
IsPackLoopUpdate(n, var) ==
  \/ n.k = "incdec" /\ n.name = Leaf("++") /\ n.kids[1] = Ident(var)
  \/ /\ n.k = "assign" /\ n.kids[1] = Ident(var)
     /\ \/ n.name = Leaf("+=") /\ n.kids[2].k = "int" /\ n.kids[2].val = 1
        \/ /\ n.name = Leaf("=") /\ n.kids[2].k = "binary" /\ n.kids[2].name = Leaf("+")
           /\ n.kids[2].kids[1] = Ident(var) /\ n.kids[2].kids[2].k = "int" /\ n.kids[2].kids[2].val = 1

\* A bug: the variable of a pack loop is the innermost loop's, whatever it is called.
ClonePackIndexInnermost(s, n) ==
  LET value == n.kids[1].name.name
      index == n.kids[2]
  IN  IF index.k = "int" THEN Copy(Ident(ElementName(value, index.val + 1)), {})
      ELSE IF index.k = "ident" /\ s.loops # <<>>
      THEN Copy(Ident(ElementName(value, s.loops[1].index)), {})
      ELSE Copy(Ident(ElementName(value, 1)), ReportIf(s, TRUE, "pack index"))

\* `args[i]`: the element a literal or the variable of a pack loop stands for.
ClonePackIndex(s, n) ==
  LET value == n.kids[1].name.name
      index == n.kids[2]
      loops == SelectSeq(s.loops, LAMBDA l : Ident(l.var) = index)
  IN  IF index.k = "int" THEN Copy(Ident(ElementName(value, index.val + 1)), {})
      ELSE IF loops # <<>> THEN Copy(Ident(ElementName(value, loops[1].index)), {})
      ELSE Copy(Ident(ElementName(value, 1)), ReportIf(s, TRUE, "pack index"))

\* One turn of a pack loop: the variable, constant, and the body with it bound to element j.
TurnSubst(s, var, j) == [s EXCEPT !.loops = <<[var |-> var, index |-> j]>> \o @, !.inPackLoop = TRUE]
PackTurn(s, decl, body, j) ==
  With(AstCloneSubst(TurnSubst(s, decl.name, j), body), LAMBDA c :
    Copy(Block(<<[decl EXCEPT !.types = SubstTypeArgs(s, @), !.kids = <<IntLiteral(j - 1)>>], c.n>>), c.errors))

\* A `for` over a pack is unrolled; with another shape it is reported, and nothing is left.
ClonePackLoop(s, n) ==
  LET decl  == n.kids[1]
      ok    == /\ decl.k = "var" /\ decl.kids[1].k = "int"
               /\ n.kids[2].kids[1] = Ident(decl.name) /\ IsPackLoopUpdate(n.kids[3], decl.name)
      first == decl.kids[1].val
  IN  IF ok THEN WithCopies(Copy(Block(<<>>), {}),
                            [i \in 1..(Len(s.packArgs) - first) |-> PackTurn(s, decl, n.kids[4], first + i)])
      ELSE Copy(Block(<<>>), ReportIf(s, TRUE, "pack loop"))

CloneFor(s, n, c) ==
  IF IsPackLoopCondition(s, n.kids[2]) THEN ClonePackLoop(s, n)
  ELSE WithCopies(c, CloneList(s, SubSeq(n.kids, 1, 3)) \o <<AstCloneSubst(OrdinaryLoopSubst(s), n.kids[4])>>)

\* A pack loop is unrolled: there is nothing to leave.
CloneJump(s, n) == Copy(n, ReportIf(s, s.inPackLoop, "jump in pack loop"))

\* `args...` is spliced into the arguments.
CloneCallArgs(s, ns) ==
  FlattenSeq([i \in DOMAIN ns |->
    IF ns[i].k = "expand" /\ IsPackValueName(s, ns[i].name)
    THEN [j \in DOMAIN s.packArgs |-> Copy(Ident(ElementName(s.packValue, j)), {})]
    ELSE <<AstCloneSubst(s, ns[i])>>])

CloneCall(s, n, c) == WithCopies(c, CloneCallArgs(s, n.kids))

\* `args.length` of the pack.
CloneMember(s, n, c) ==
  IF n.name = Leaf("length") /\ n.kids[1].k = "ident" /\ IsPackValueName(s, n.kids[1].name)
  THEN Copy(PackLen(Len(s.packArgs)), {}) ELSE CloneNode(s, n, c)

CloneIndex(s, n, c) ==
  IF n.kids[1].k = "ident" /\ IsPackValueName(s, n.kids[1].name) THEN ClonePackIndex(s, n) ELSE CloneNode(s, n, c)

\* `T.max` names the argument.
CloneIdent(s, n) ==
  Copy(IF SubstArg(s, n.name) THEN Ident(Spell(ArgOf(s, n.name))) ELSE n,
       ReportIf(s, IsPackValueName(s, n.name) \/ IsPackTypeName(s, n.name), "bare pack"))

CloneOf(s, n, c) ==
  CASE n.k = "function" -> CloneFunction(s, n, c)
    [] n.k = "impl"     -> CloneImpl(s, n, c)
    [] n.k = "struct"   -> CloneStruct(s, n, c)
    [] n.k = "enum"     -> CloneEnum(s, n, c)
    [] n.k = "param"    -> CloneParam(s, n, c)
    [] n.k = "structinit" -> CloneStructInit(s, n, c)
    [] n.k \in {"block", "return", "if"}      -> CloneStatement(s, n, c)
    [] n.k \in {"incdec", "cast", "global"}   -> CloneTyped(s, n, c)
    [] n.k \in {"arrayinit", "nulltest", "defer", "conditional", "meta"} -> CloneParts(s, n, c)
    [] n.k = "while"    -> CloneWhile(s, n, c)
    [] n.k = "for"      -> CloneFor(s, n, c)
    [] n.k = "call"     -> CloneCall(s, n, c)
    [] n.k = "member"   -> CloneMember(s, n, c)
    [] n.k = "index"    -> CloneIndex(s, n, c)
    [] n.k = "ident"    -> CloneIdent(s, n)
    [] n.k \in {"break", "continue"} -> CloneJump(s, n)
    [] n.k \in {"absent", "expand"}  -> Copy(n, {})
    [] OTHER            -> CloneNode(s, n, c)

AstCloneSubst(s, n) == CloneOf(s, n, Substituted(s, n))
=============================================================================
