--------------------------- MODULE GenericMeaning ---------------------------
(***************************************************************************)
(* What an instance of a template means: its body read once, in an          *)
(* environment that says what each type parameter, pack element, loop       *)
(* variable and local stands for. Nothing is copied and no list of work is  *)
(* kept: what the expansion (Monomorphize) makes is compared with this.     *)
(* It is defined for programs the expansion reports nothing of.             *)
(***************************************************************************)
EXTENDS Monomorphize
LOCAL INSTANCE SequencesExt
LOCAL INSTANCE FiniteSetsExt

Extended(f, x, v) == [y \in DOMAIN f \cup {x} |-> IF y = x THEN v ELSE f[y]]

\* types: of the type parameters; loops: the turn of each pack loop around, by variable.
NoEnv == [types |-> [x \in {} |-> NoType], packValue |-> "", pack |-> <<>>, loops |-> [x \in {} |-> 0],
          vars |-> <<>>, inInstance |-> FALSE, world |-> <<>>]

WithTypes(env, params, args) == FoldLeft(LAMBDA e, i : [e EXCEPT !.types = Extended(@, params[i], args[i])],
                                         [env EXCEPT !.inInstance = TRUE], [i \in DOMAIN params |-> i])
WithArgs(env, fn, args) ==
  LET fixed == FixedTypeParamCount(fn)
      rests == PackRests(fn)
      e == WithTypes(env, SubSeq(fn.tparams, 1, fixed), args)
  IN  IF rests = <<>> THEN e
      ELSE [e EXCEPT !.packValue = rests[1].name.name, !.pack = SubSeq(args, fixed + 1, Len(args))]

Element(env, j) == ElementName(env.packValue, j)
IsThePack(env, n) == env.packValue # "" /\ IsNamed(n, env.packValue)

-----------------------------------------------------------------------------
\* The canonical type t stands for.

RECURSIVE TypeIn(_, _)
TypesIn(env, ts) == FlattenSeq([i \in DOMAIN ts |-> IF ts[i].k = "pack" THEN env.pack ELSE <<TypeIn(env, ts[i])>>])
TypeIn(env, t) ==
  CASE t.k = "use"  -> Type("inst", t.name, TypesIn(env, t.args))
    [] IsWrapper(t) -> Type(t.k, t.name, TypesIn(env, t.args))
    [] t.k = "leaf" /\ t.name \in DOMAIN env.types -> env.types[t.name]
    [] OTHER        -> t

\* As it would be written, for the built-in meta functions to take apart.
RECURSIVE AsWritten(_)
AsWritten(t) == Type(IF t.k = "inst" THEN "use" ELSE t.k, t.name, [i \in DOMAIN t.args |-> AsWritten(t.args[i])])

RECURSIVE Unwrapped(_)
Unwrapped(t) == IF t.k \in {"box", "opt", "ptr"} THEN Unwrapped(t.args[1]) ELSE t

-----------------------------------------------------------------------------
\* The declarations of the program p that a canonical name stands for.

Origin(name) == Leaf(name.name)
StructOf(p, t) == FirstNamed(p.structs, Origin(t))
EnvOf(tparams, name) == IF name.k = "inst" THEN WithTypes(NoEnv, tparams, name.args) ELSE NoEnv
IsStructOf(p, t) == t.k \in {"leaf", "inst"} /\ HasNamed(p.structs, Origin(t)) /\ ~IsAlias(StructOf(p, t))

MethodsOf(p, handle, method) ==
  {<<impl, fn>> \in UNION {{i} \X ToSet(i.methods) : i \in {j \in ToSet(p.impls) : j.name = Origin(handle)}} :
     fn.method = method}
GenericMethods(p, handle, method) == {x \in MethodsOf(p, handle, method) : IsGeneric(x[2])}

FieldOf(p, t, f) ==
  LET sd == StructOf(p, t)
  IN  IF IsStructOf(p, t) /\ HasNamed(sd.kids, f) THEN TypeIn(EnvOf(sd.tparams, t), ReturnType(FirstNamed(sd.kids, f)))
      ELSE NoType

ResultOf(p, name) ==
  LET fns == SelectSeq(p.functions, LAMBDA fn : fn.name = Origin(name))
  IN  IF IsStructOf(p, name) THEN name
      ELSE IF Len(fns) # 1 THEN NoType
      ELSE TypeIn(IF name.k = "inst" THEN WithArgs(NoEnv, fns[1], name.args) ELSE NoEnv, ReturnType(fns[1]))

\* The type of an expression that is read already, as far as declarations tell.
VarsNamed(env, name) == {i \in DOMAIN env.vars : env.vars[i].name = name}
RECURSIVE TypeOfMeant(_, _, _)
TypeOfMeant(p, env, n) ==
  CASE n.k = "ident"  -> IF VarsNamed(env, n.name) # {} THEN env.vars[Max(VarsNamed(env, n.name))].type
                         ELSE IF HasNamed(p.globals, n.name) THEN TypeIn(NoEnv, ReturnType(FirstNamed(p.globals, n.name)))
                         ELSE NoType
    [] n.k = "member" -> FieldOf(p, Unwrapped(TypeOfMeant(p, env, n.kids[1])), n.name)
    [] n.k = "call"   -> IF n.kids[1] = Absent THEN ResultOf(p, n.name) ELSE NoType
    [] n.k \in {"int", "packlength"} -> n.name
    [] n.k \in {"bool", "string"}    -> Leaf(n.k)
    [] n.k = "float"  -> Leaf("double")
    [] n.k = "cast"   -> n.types[1]
    [] n.k = "structinit" -> n.types[1]
    [] n.k = "unary"  -> IF n.name = Leaf("!") THEN Leaf("bool") ELSE TypeOfMeant(p, env, n.kids[1])
    [] OTHER          -> NoType

RECURSIVE IsNeverEmpty(_, _)
IsNeverEmpty(p, t) ==
  \/ t.k \in {"box", "array", "fixed"} \/ HasNamed(p.enums, t) \/ t \in {Leaf(x) : x \in NeverEmptyPrims}
  \/ IF IsStructOf(p, t) THEN ~IsIncomplete(StructOf(p, t))
     ELSE HasNamed(p.structs, t) /\ IsNeverEmpty(p, Spell(StructOf(p, t).handle))

-----------------------------------------------------------------------------
\* The type arguments of a call: the first argument of known type fixes a parameter.

FixedFrom(p, env, fn, args, self, k) ==
  LET ps == ParamsOf(fn)
      at == {i \in DOMAIN args : /\ i + self < RestIndex(fn) /\ i + self <= Len(ps)
                                 /\ FixedParamIndex(fn, ps[i + self].types[1]) = k
                                 /\ TypeOfMeant(p, env, args[i]) # NoType}
  IN  TypeOfMeant(p, env, args[Min(at)])

ArgsMeant(p, env, fn, args, self, targs, listed) ==
  LET fixed == FixedTypeParamCount(fn)
      first == Min({RestIndex(fn) - self, Len(args) + 1})
      pack  == [i \in 1..(Len(args) + 1 - first) |-> TypeOfMeant(p, env, args[first + i - 1])]
  IN  IF listed /\ ~(fn.pack /\ Len(targs) = fixed) THEN targs
      ELSE (IF listed THEN targs ELSE [k \in 1..fixed |-> FixedFrom(p, env, fn, args, self, k)]) \o pack

-----------------------------------------------------------------------------
\* Reading a node: what it becomes, the environment after it, and whether a meta call or a
\* null test in it was decided.

RECURSIVE Read(_, _, _)
Result(env, n, decided) == [env |-> env, n |-> n, decided |-> decided]
ReadNext(acc, r) == [env |-> r.env, ns |-> Append(acc.ns, r.n), decided |-> acc.decided \/ r.decided]
ReadAll(p, env, ns) ==
  FoldLeft(LAMBDA acc, n : ReadNext(acc, Read(p, acc.env, n)), [env |-> env, ns |-> <<>>, decided |-> FALSE], ns)
PartsRead(env, n, ks) == Result(ks.env, [n EXCEPT !.types = TypesIn(env, @), !.kids = ks.ns], ks.decided)
ReadParts(p, env, n)  == PartsRead(env, n, ReadAll(p, env, n.kids))
ReadInside(p, env, n) == [ReadParts(p, env, n) EXCEPT !.env = env]

\* Meta functions ask about the impls of the program, the environment's world.
World(p) == [structTemplates |-> <<>>, implTemplates |-> <<>>, methodTemplates |-> <<>>, heap |-> p.impls,
             impls |-> [i \in DOMAIN p.impls |-> i], metaFunctions |-> CollectMetaFunctions(p.metas).known]
MetaFrameOf(env) ==
  FoldSet(LAMBDA x, f : MetaBind(f, TypeBinding(Leaf(x), AsWritten(env.types[x]))), MetaFrame("", 0, FALSE), DOMAIN env.types)
ReadMeta(env, n) == MetaLiteralNode(MetaPrim(env.world, n), MetaEvalCall(env.world, MetaFrameOf(env), n).v)

TypeRead(p, env, n) == IF n.types # <<>> THEN n.types[1] ELSE TypeOfMeant(p, env, n.kids[1])
BoundVar(r, t)      == [r EXCEPT !.env.vars = Append(@, [name |-> r.n.name, type |-> t])]
ReadVar(p, env, n)  == With(ReadParts(p, env, n), LAMBDA r : BoundVar(r, TypeRead(p, env, r.n)))

\* A branch is chosen when the condition is decided and constant.
ChoiceRead(c, n, both) == Result(both.env, [n EXCEPT !.kids = <<c.n>> \o both.ns], c.decided \/ both.decided)
ChoiceMade(p, env, n, c, value) ==
  IF ~((c.decided \/ MentionsPackLength(c.n)) /\ value.ok) THEN ChoiceRead(c, n, ReadAll(p, env, Tail(n.kids)))
  ELSE With(Read(p, env, Kept(n, value.v.i # 0)), LAMBDA r : [r EXCEPT !.decided = c.decided \/ @])
ReadChoice(p, env, n) ==
  With(Read(p, env, n.kids[1]), LAMBDA c :
    ChoiceMade(p, env, n, c, MetaEvalBool(env.world, MetaFrame("", 0, TRUE), c.n)))

ReadNullTest(p, env, n) ==
  IF IsNeverEmpty(p, TypeOfMeant(p, env, Read(p, env, NullTested(n)).n))
  THEN Result(env, BoolLiteral(n.name # Leaf("==")), TRUE) ELSE ReadParts(p, env, n)

\* A loop over the pack is its turns; `args[i]` the element of the turn of the loop over i.
IsPackLoop(env, n) == n.kids[2].k = "binary" /\ n.kids[2].kids[2].k = "member" /\ IsThePack(env, n.kids[2].kids[2].kids[1])
ReadTurn(p, env, n, j) ==
  LET var == [n.kids[1] EXCEPT !.types = TypesIn(env, @), !.kids = <<IntLiteral(j - 1)>>]
      e == [env EXCEPT !.loops = Extended(@, var.name.name, j), !.vars = Append(@, [name |-> var.name, type |-> Leaf("int")])]
  IN  Block(<<var, Read(p, e, n.kids[4]).n>>)
ReadPackLoop(p, env, n) ==
  LET first == n.kids[1].kids[1].val
  IN  Result(env, Block([i \in 1..(Len(env.pack) - first) |-> ReadTurn(p, env, n, first + i)]), FALSE)
ReadElement(env, index) == Ident(Element(env, IF index.k = "int" THEN index.val + 1 ELSE env.loops[index.name.name]))

\* A method is looked for on the type of its receiver, or on the struct or handle named.
IsStaticIn(p, env, base) == base.k = "ident" /\ VarsNamed(env, base.name) = {}
                            /\ (IsStructOf(p, base.name) \/ base.name \in p.handles)
SelfMeant(fn, handle) == fn.method = Leaf("init") \/ (ParamsOf(fn) # <<>> /\ ParamsOf(fn)[1].types[1].name = handle.name)
InstanceCall(call, args) == NoTypeArgs([call EXCEPT !.name = IF @ = Leaf("init") THEN @ ELSE Type("inst", @.name, args)])
MethodRead(p, env, call, fn, self, listed) ==
  InstanceCall(call, ArgsMeant(p, env, fn, CallArgs(call), self, call.types, listed))
ReadMethodOf(p, env, call, handle, static, listed) ==
  LET found == GenericMethods(p, handle, call.name)
      fn == (CHOOSE x \in found : TRUE)[2]
  IN  IF found = {} THEN call
      ELSE MethodRead(p, env, call, fn, IF ~static /\ SelfMeant(fn, handle) THEN 1 ELSE 0, listed)
ReadMethod(p, env, call, base, listed) ==
  IF IsStaticIn(p, env, base) THEN ReadMethodOf(p, env, call, base.name, TRUE, listed)
  ELSE ReadMethodOf(p, env, call, Unwrapped(TypeOfMeant(p, env, base)), FALSE, listed)

\* A call whose parts are read.
HasGenericInit(p, name) == GenericMethods(p, name, Leaf("init")) # {}
CallMeant(p, env, call, listed) ==
  IF call.kids[1] # Absent THEN ReadMethod(p, env, call, call.kids[1], listed)
  ELSE IF HasNamed(p.functions, call.name) /\ IsGeneric(FirstNamed(p.functions, call.name))
  THEN MethodRead(p, env, call, FirstNamed(p.functions, call.name), 0, listed)
  ELSE IF IsStructOf(p, call.name) /\ IsGeneric(StructOf(p, call.name))
  THEN [InstanceCall(call, call.types) EXCEPT !.val = IF HasGenericInit(p, call.name) THEN 0 ELSE call.val]
  ELSE IF HasGenericInit(p, call.name) THEN NoTypeArgs(call) ELSE call

SplicedArgs(env, ns) ==
  FlattenSeq([i \in DOMAIN ns |-> IF ns[i].k = "expand" THEN [j \in DOMAIN env.pack |-> Ident(Element(env, j))] ELSE <<ns[i]>>])
ReadCall(p, env, n) ==
  With(ReadParts(p, env, [n EXCEPT !.kids = SplicedArgs(env, @)]), LAMBDA r :
    [r EXCEPT !.n = CallMeant(p, r.env, @, HasTypeArgList(n))])

Read(p, env, n) ==
  CASE n.k = "meta"                        -> Result(env, ReadMeta(env, n), TRUE)
    [] n.k \in {"if", "conditional"}       -> ReadChoice(p, env, n)
    [] env.inInstance /\ IsNullTest(n)     -> ReadNullTest(p, env, n)
    [] n.k = "call"                        -> ReadCall(p, env, n)
    [] n.k = "var"                         -> ReadVar(p, env, n)
    [] n.k = "for" /\ IsPackLoop(env, n)   -> ReadPackLoop(p, env, n)
    [] n.k = "block" \/ (n.k = "for" /\ ~IsPackLoop(env, n)) -> ReadInside(p, env, n)
    [] n.k = "member" /\ n.name = Leaf("length") /\ IsThePack(env, n.kids[1]) -> Result(env, PackLen(Len(env.pack)), FALSE)
    [] n.k = "index" /\ IsThePack(env, n.kids[1]) -> Result(env, ReadElement(env, n.kids[2]), FALSE)
    [] n.k = "ident" /\ n.name.name \in DOMAIN env.types -> Result(env, Ident(env.types[n.name.name]), FALSE)
    [] OTHER                               -> ReadParts(p, env, n)

-----------------------------------------------------------------------------
\* Declarations. Only types, nodes and flags are compared.

Shape(d) == [types |-> d.types, kids |-> d.kids, val |-> d.val]

ParamsMeant(env, fn) ==
  FlattenSeq([i \in DOMAIN ParamsOf(fn) |->
    LET q == ParamsOf(fn)[i]
    IN  IF fn.pack /\ IsPackRest(fn, q)
        THEN [j \in DOMAIN env.pack |-> [q EXCEPT !.name = Element(env, j), !.types = <<env.pack[j]>>, !.val = 0]]
        ELSE <<[q EXCEPT !.types = TypesIn(env, @)]>>])
InWorld(p, env) == [env EXCEPT !.world = World(p)]
BodyMeant(p, env, fn, ps) ==
  Read(p, [InWorld(p, env) EXCEPT !.vars = [i \in DOMAIN ps |-> [name |-> ps[i].name, type |-> ps[i].types[1]]]], BodyOf(fn)).n
WithBodyMeant(env, fn, ps, body) ==
  [types |-> TypesIn(env, fn.types), kids |-> Append(ps, body), val |-> IF PackRests(fn) # <<>> THEN 0 ELSE fn.val]
FunctionMeant(p, env, fn) ==
  With(ParamsMeant(env, fn), LAMBDA ps : WithBodyMeant(env, fn, ps, BodyMeant(p, env, fn, ps)))
DeclMeant(p, env, d) == Shape(ReadParts(p, InWorld(p, env), d).n)

\* The methods of a name: several only for `init`, whose name does not tell its arguments.
InMethods(p, made, handle, method) ==
  {<<EnvOf(x[1].tparams, handle), x[2]>> : x \in {y \in MethodsOf(p, handle, method) : IsPlain(y[2])}}
  \cup {<<WithArgs(EnvOf(x[1].tparams, handle), x[2], s[2].args), x[2]>> :
          <<x, s>> \in {<<y, s>> \in GenericMethods(p, handle, Leaf(method.name)) \X made :
                          s[1] = handle /\ s[2].name = method.name /\ (method = s[2] \/ method = Leaf("init"))}}
InFunctions(p, name) ==
  LET fn == FirstNamed(p.functions, Origin(name))
  IN  {<<IF name.k = "inst" THEN WithArgs(NoEnv, fn, name.args) ELSE NoEnv, fn>>}

\* What the declaration d of the expanded module may be; made: the method instances.
Written(p, d) ==
  CASE d.k = "struct" -> StructOf(p, d.name)
    [] d.k = "global" -> FirstNamed(p.globals, d.name)
    [] d.k = "enum"   -> FirstNamed(p.enums, d.name)
Meanings(p, made, d) ==
  IF d.k = "function"
  THEN {FunctionMeant(p, x[1], x[2]) :
          x \in IF d.name.k = "method" THEN InMethods(p, made, d.name.args[1], d.name.args[2]) ELSE InFunctions(p, d.name)}
  ELSE {DeclMeant(p, EnvOf(Written(p, d).tparams, d.name), Written(p, d))}
=============================================================================
