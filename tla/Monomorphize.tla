--------------------------- MODULE Monomorphize ---------------------------
(***************************************************************************)
(* The expansion of generics: templates are moved out of the module, every  *)
(* use of one is rewritten into the name of an instance, and instances join *)
(* the work list as they are made (src/src/Sema/Monomorphize.c). Type       *)
(* arguments that are not written are inferred from declared types; meta    *)
(* calls fold, and so do the conditions that hold one.                      *)
(*                                                                          *)
(* The state m is a record: heap, the declarations; the module's lists of   *)
(* indices into it; the templates; the work list pending, a stack.          *)
(***************************************************************************)
EXTENDS MetaEval
LOCAL INSTANCE SequencesExt
LOCAL INSTANCE FiniteSetsExt

CONSTANTS MaxDepth,       \* MONO_MAX_DEPTH
          MaxName,        \* MONO_MAX_NAME, counted in names
          MaxInstances    \* MONO_MAX_INSTANCES

Report(m, what)         == [m EXCEPT !.errors = @ \cup {what}]
ReportWhen(m, bad, what) == IF bad THEN Report(m, what) ELSE m
Stopped(m, what)        == [Report(m, what) EXCEPT !.stopped = TRUE]

\* A declaration the module gains: listed, and to be rewritten.
Listed(m, list, d) ==
  [m EXCEPT !.heap = Append(@, d), ![list] = Append(@, Len(m.heap) + 1), !.pending = Append(@, Len(m.heap) + 1)]

DeclsOf(m, list) == [i \in DOMAIN m[list] |-> m.heap[m[list][i]]]

HasNamed(ds, name) == \E i \in DOMAIN ds : ds[i].name = name
FirstNamed(ds, name) == ds[SelectInSeq(ds, LAMBDA d : d.name = name)]

IsStructTemplate(m, name) == HasNamed(m.structTemplates, name)
IsAlias(sd)               == sd.val = 1
IsIncomplete(sd)          == sd.val = 2
PlainStructs(m)           == SelectSeq(DeclsOf(m, "structs"), LAMBDA sd : ~IsAlias(sd))
PlainStructNamed(m, name) == HasNamed(PlainStructs(m), name)

-----------------------------------------------------------------------------
\* Limits.

\* Room for one more instance.
TakeInstanceSlot(m) ==
  IF m.stopped THEN [m |-> m, ok |-> FALSE]
  ELSE IF m.count >= MaxInstances THEN [m |-> Stopped(m, "too many"), ok |-> FALSE]
  ELSE [m |-> [m EXCEPT !.count = @ + 1], ok |-> TRUE]

\* What Make gives of m with one more instance counted, if there is room.
InSlot(m, Make(_)) == With(TakeInstanceSlot(m), LAMBDA slot : IF slot.ok THEN Make(slot.m) ELSE slot.m)

WithinLimits(depth, name) == depth <= MaxDepth /\ SpelledNames(name) <= MaxName

\* A bug: the depth of an instance that is named again is forgotten.
InstanceDepthOfUse(m, name) == 0

\* The depth a struct instance was made at: nesting is counted across expansions.
InstanceDepth(m, name) ==
  IF \E d \in m.depths : d[1] = name THEN (CHOOSE d \in m.depths : d[1] = name)[2] ELSE 0

-----------------------------------------------------------------------------
\* Generic methods.

\* Among the plain methods of handle's impls.
HandleHasPlainMethod(m, handle, method) ==
  \E i \in DOMAIN m.impls :
    /\ m.heap[m.impls[i]].name = handle
    /\ \E j \in DOMAIN m.heap[m.impls[i]].methods :
          LET fn == m.heap[m.impls[i]].methods[j] IN fn.tparams = <<>> /\ fn.method = method

HasMethodTemplate(m, handle, method) ==
  \E i \in DOMAIN m.methodTemplates : m.methodTemplates[i].handle = handle /\ m.methodTemplates[i].fn.method = method
MethodTemplate(m, handle, method) ==
  SelectSeq(m.methodTemplates, LAMBDA mt : mt.handle = handle /\ mt.fn.method = method)[1]

\* A handle has one template of a name; only `init` may also be a plain method.
RegisterMethodTemplate(m, impl, fn) ==
  LET handle == m.heap[impl].name
      named  == [m EXCEPT !.methodNames = @ \cup {fn.method}]
  IN  IF HasMethodTemplate(m, handle, fn.method) THEN Report(named, "overloaded generic method")
      ELSE IF fn.method # Leaf("init") /\ HandleHasPlainMethod(m, handle, fn.method)
      THEN Report(named, "generic method named as a plain one")
      ELSE [named EXCEPT !.methodTemplates = Append(@, [handle |-> handle, fn |-> fn, impl |-> impl])]

IsGeneric(d) == d.tparams # <<>>
IsPlain(d)   == d.tparams = <<>>

TakeMethodTemplates(m, impl) ==
  LET taken == FoldLeft(LAMBDA acc, fn : RegisterMethodTemplate(acc, impl, fn), m,
                        SelectSeq(m.heap[impl].methods, IsGeneric))
  IN  [taken EXCEPT !.heap[impl].methods = SelectSeq(@, IsPlain)]

-----------------------------------------------------------------------------
\* Instances.

\* Each impl binds its own parameter names to the same arguments. It is listed before its
\* generic methods are taken out, so that these are checked against its plain ones.
AddMethod(m, handle, fn) ==
  Listed(m, "functions", [fn EXCEPT !.name = MethodName(handle, fn.method), !.isInstance = TRUE])
WithMethods(m, impl, name) ==
  [FoldLeft(LAMBDA acc, fn : AddMethod(acc, name, fn), m, m.heap[impl].methods) EXCEPT !.pending = Append(@, impl)]
InstantiateImpl(m, tImpl, name, args) ==
  LET impl == Len(m.heap) + 1
      copy == AstCloneSubst(Binding(tImpl.tparams, args), tImpl).n
      m1   == [m EXCEPT !.heap = Append(@, [copy EXCEPT !.name = name, !.tparams = <<>>]), !.impls = Append(@, impl)]
  IN  WithMethods(TakeMethodTemplates(m1, impl), impl, name)

\* The struct `name`, which is tmpl at args, and the impls of tmpl.
StructAdded(m, tmpl, name, args, depth) ==
  LET inst == [AstCloneSubst(Binding(tmpl.tparams, args), tmpl).n EXCEPT !.name = name, !.tparams = <<>>]
      m1   == [Listed(m, "structs", inst) EXCEPT !.depths = @ \cup {<<name, depth>>}]
  IN  FoldLeft(LAMBDA acc, t : InstantiateImpl(acc, t, name, args), m1,
               SelectSeq(m.implTemplates, LAMBDA t : t.name = tmpl.name))
InstantiateStruct(m, tmpl, name, args, depth) ==
  IF HasNamed(DeclsOf(m, "structs"), name) THEN m
  ELSE InSlot(m, LAMBDA room : StructAdded(room, tmpl, name, args, depth))

PackRests(tmpl) == SelectSeq(ParamsOf(tmpl), LAMBDA p : IsPackRest(tmpl, p))

\* args: the fixed type arguments, then the pack's.
TemplateSubst(tmpl, args) ==
  LET fixed == FixedTypeParamCount(tmpl)
      rests == PackRests(tmpl)
  IN  [Binding(SubSeq(tmpl.tparams, 1, fixed), args) EXCEPT
         !.packType  = PackType(tmpl),
         !.packArgs  = IF tmpl.pack THEN SubSeq(args, fixed + 1, Len(args)) ELSE <<>>,
         !.packValue = IF tmpl.pack /\ rests # <<>> THEN rests[Len(rests)].name.name ELSE "",
         !.reports   = TRUE]

CloneTemplate(m, tmpl, args) ==
  With(AstCloneSubst(TemplateSubst(tmpl, args), tmpl), LAMBDA c :
    [m |-> [m EXCEPT !.errors = @ \cup c.errors], n |-> [c.n EXCEPT !.pack = FALSE, !.tparams = <<>>]])

FunctionAdded(m, tmpl, name, args) ==
  With(CloneTemplate(m, tmpl, args), LAMBDA c :
    Listed(c.m, "functions", [c.n EXCEPT !.name = name, !.isInstance = TRUE]))

\* A bug: an instance is made at every call that names it.
InstantiateFunctionAgain(m, tmpl, name, args) == InSlot(m, LAMBDA room : FunctionAdded(room, tmpl, name, args))

InstantiateFunction(m, tmpl, name, args) ==
  IF HasNamed(DeclsOf(m, "functions"), name) THEN m
  ELSE InSlot(m, LAMBDA room : FunctionAdded(room, tmpl, name, args))

SameParams(a, b) ==
  LET as == ParamsOf(a)
      bs == ParamsOf(b)
  IN  Len(as) = Len(bs) /\ \A i \in DOMAIN as : as[i].val = bs[i].val /\ Spell(as[i].types[1]) = Spell(bs[i].types[1])

\* An `init` that takes the same parameters is there: `T(args)` means that one.
InitMatchesPlain(m, handle, inst) ==
  \E i \in DOMAIN m.impls :
    /\ m.heap[m.impls[i]].name = handle
    /\ \E j \in DOMAIN m.heap[m.impls[i]].methods :
          LET fn == m.heap[m.impls[i]].methods[j] IN fn.method = Leaf("init") /\ SameParams(fn, inst)

\* The instance `spelling` of a generic method joins the impl its template is in. An `init`
\* keeps its name, so that it overloads the constructor.
MethodAdded(m, mt, spelling, inst) ==
  LET m1 == [m EXCEPT !.methodInstances = @ \cup {<<mt.handle, spelling>>}]
  IN  IF inst.method = Leaf("init") /\ InitMatchesPlain(m, mt.handle, inst) THEN m1
      ELSE Listed([m1 EXCEPT !.heap[mt.impl].methods = Append(@, inst)], "functions", inst)
NamedMethod(fn, handle, method) == [fn EXCEPT !.method = method, !.name = MethodName(handle, method), !.isInstance = TRUE]
InstantiateMethod(m, mt, spelling, args) ==
  IF <<mt.handle, spelling>> \in m.methodInstances THEN m
  ELSE InSlot(m, LAMBDA room : With(CloneTemplate(room, mt.fn, args), LAMBDA c :
         MethodAdded(c.m, mt, spelling,
                     NamedMethod(c.n, mt.handle, IF mt.fn.method = Leaf("init") THEN Leaf("init") ELSE spelling))))

-----------------------------------------------------------------------------
\* The declared types of the blocks being rewritten, innermost last. NoType: not known
\* before type checking.

PushScope(m) == [m EXCEPT !.scopes = Append(@, <<>>)]
PopScope(m)  == [m EXCEPT !.scopes = SubSeq(@, 1, Len(@) - 1)]

BindName(m, name, t) ==
  IF m.scopes = <<>> THEN m ELSE [m EXCEPT !.scopes[Len(m.scopes)] = Append(@, [name |-> name, type |-> t])]

BindsOf(scope, name) == {j \in DOMAIN scope : scope[j].name = name}
ScopesOf(m, name)    == {i \in DOMAIN m.scopes : BindsOf(m.scopes[i], name) # {}}
IsLocal(m, name)     == ScopesOf(m, name) # {}

BoundType(m, name) ==
  LET scope == m.scopes[Max(ScopesOf(m, name))] IN scope[Max(BindsOf(scope, name))].type

GlobalType(m, name) ==
  LET gs == DeclsOf(m, "globals") IN IF HasNamed(gs, name) THEN ReturnType(FirstNamed(gs, name)) ELSE NoType

-----------------------------------------------------------------------------
\* Types. Rewriting one gives its nesting depth: a use is one deeper than its arguments.

RECURSIVE RewriteType(_, _)
TypeResult(m, t, d) == [m |-> m, t |-> t, d |-> d]
Deeper(a, b)        == IF a > b THEN a ELSE b

AddType(acc, r) == [m |-> r.m, ts |-> Append(acc.ts, r.t), d |-> Deeper(acc.d, r.d)]
RewriteTypes(m, ts) ==
  FoldLeft(LAMBDA acc, t : AddType(acc, RewriteType(acc.m, t)), [m |-> m, ts |-> <<>>, d |-> 0], ts)

RewriteLeaf(m, t) ==
  TypeResult(CASE IsStructTemplate(m, t)  -> Report(m, "type arguments needed")
               [] t = Leaf("type")        -> Report(m, "type outside meta functions")
               [] OTHER                   -> m,
             t, InstanceDepth(m, t))

\* The use is left as the name of its instance, made or not.
UseRewritten(t, r, base, name) ==
  LET arity == Len(FirstNamed(r.m.structTemplates, base).tparams)
  IN  TypeResult(
        IF ~IsStructTemplate(r.m, base) THEN Report(r.m, "not a generic struct")
        ELSE IF arity # Len(t.args) THEN Report(r.m, "number of type arguments")
        ELSE IF ~WithinLimits(r.d + 1, name) THEN Stopped(r.m, "too deep")
        ELSE InstantiateStruct(r.m, FirstNamed(r.m.structTemplates, base), name, r.ts, r.d + 1),
        name, r.d + 1)
RewriteUse(m, t) ==
  With(RewriteTypes(m, t.args), LAMBDA r : UseRewritten(t, r, Leaf(t.name), TypeNameGenericSpelling(t.name, r.ts)))

Wrapped(t, r) == [r EXCEPT !.t = [t EXCEPT !.args = <<r.t>>]]
RewriteType(m, t) ==
  CASE t.k = "use"  -> RewriteUse(m, t)
    [] IsWrapper(t) -> Wrapped(t, RewriteType(m, t.args[1]))
    [] t.k = "pack" -> TypeResult(Report(m, "not a pack"), t, InstanceDepth(m, Leaf(t.name)))
    [] OTHER        -> RewriteLeaf(m, t)

\* A use that is not rewritten yet is, which makes its instance.
MonoCanonical(m, t) == IF t.k = "use" THEN RewriteType(m, t) ELSE TypeResult(m, t, 0)

RECURSIVE MonoUnwrap(_, _)
MonoUnwrap(m, t) ==
  IF t.k \in {"box", "opt", "ptr"} THEN MonoUnwrap(m, t.args[1]) ELSE MonoCanonical(m, t)

-----------------------------------------------------------------------------
\* What can be said of the type of an expression before type checking; NoType if nothing.

Typed(m, t) == [m |-> m, t |-> t]
Unknown(m)  == Typed(m, NoType)

RECURSIVE MonoTypeOf(_, _)
TypeOfIdent(m, e) == Typed(m, IF IsLocal(m, e.name) THEN BoundType(m, e.name) ELSE GlobalType(m, e.name))

\* A field of a struct, through boxes, optionals and pointers.
FieldType(sds, t, f) ==
  IF ~IsArray(t) /\ HasNamed(sds, t) /\ HasNamed(FirstNamed(sds, t).kids, f)
  THEN ReturnType(FirstNamed(FirstNamed(sds, t).kids, f)) ELSE NoType
TypeOfMember(m, e) ==
  With(MonoTypeOf(m, e.kids[1]), LAMBDA base :
    With(MonoUnwrap(base.m, base.t), LAMBDA on : Typed(on.m, FieldType(PlainStructs(on.m), on.t, e.name))))

\* A constructor, or a function declared once.
TypeOfCall(m, e) ==
  LET fns == SelectSeq(DeclsOf(m, "functions"), LAMBDA fn : fn.handle = NoType /\ fn.name = e.name)
  IN  Typed(m, CASE e.kids[1] # Absent -> NoType
                 [] e.kids[1] = Absent /\ PlainStructNamed(m, e.name) -> e.name
                 [] e.kids[1] = Absent /\ ~PlainStructNamed(m, e.name) /\ Len(fns) = 1 -> ReturnType(fns[1])
                 [] OTHER -> NoType)

TypeOfUnary(m, e) ==
  CASE e.name = Leaf("!")                 -> Typed(m, Leaf("bool"))
    [] e.name \in {Leaf("-"), Leaf("~")} -> MonoTypeOf(m, e.kids[1])
    [] OTHER                              -> Unknown(m)

DeclaredTypeOf(m, e) ==
  CASE e.k = "ident"  -> TypeOfIdent(m, e)
    [] e.k = "member" -> TypeOfMember(m, e)
    [] e.k = "call"   -> TypeOfCall(m, e)
    [] e.k = "unary"  -> TypeOfUnary(m, e)
    [] e.k \in {"int", "packlength"} -> Typed(m, e.name)
    [] e.k = "float"  -> Typed(m, Leaf("double"))
    [] e.k \in {"bool", "string"} -> Typed(m, Leaf(e.k))
    [] e.k = "cast"   -> Typed(m, e.types[1])
    [] e.k = "structinit" /\ e.types # <<>> -> Typed(m, Spell(e.types[1]))
    [] OTHER          -> Unknown(m)

MonoTypeOf(m, e) ==
  With(DeclaredTypeOf(m, e), LAMBDA r : With(MonoCanonical(r.m, r.t), LAMBDA c : Typed(c.m, c.t)))

-----------------------------------------------------------------------------
\* Inference.

FixedParamIndex(tmpl, t) ==
  IF t.k = "leaf" /\ Contains(SubSeq(tmpl.tparams, 1, FixedTypeParamCount(tmpl)), t.name)
  THEN SelectInSeq(tmpl.tparams, LAMBDA p : p = t.name) ELSE 0

\* The place of the pack's rest parameter; past every parameter without one.
RestIndex(tmpl) ==
  LET ps == ParamsOf(tmpl) IN IF PackRests(tmpl) = <<>> THEN 1000 ELSE SelectInSeq(ps, LAMBDA p : IsPackRest(tmpl, p))

\* Type t is found for the k-th fixed parameter.
InferFixed(acc, k, t, given) ==
  IF acc.fixed[k] = NoType THEN [acc EXCEPT !.fixed[k] = t]
  ELSE IF ~given /\ Spell(acc.fixed[k]) # Spell(t) THEN [acc EXCEPT !.why = "two types"]
  ELSE acc

\* One argument, for parameter i of tmpl.
Inferred(acc, tmpl, i, t, given) ==
  LET ps == ParamsOf(tmpl)
      k  == IF i <= Len(ps) THEN FixedParamIndex(tmpl, ps[i].types[1]) ELSE 0
  IN  CASE i >= RestIndex(tmpl) /\ t = NoType -> [acc EXCEPT !.why = "type not known"]
        [] i >= RestIndex(tmpl) /\ t # NoType -> [acc EXCEPT !.pack = Append(@, t)]
        [] OTHER -> IF k = 0 \/ t = NoType THEN acc ELSE InferFixed(acc, k, t, given)
InferArg(acc, tmpl, i, arg, given) ==
  IF acc.why # "" THEN acc
  ELSE With(MonoTypeOf(acc.m, arg), LAMBDA r : Inferred([acc EXCEPT !.m = r.m], tmpl, i, r.t, given))

\* The type arguments of a call to tmpl: the fixed ones, given or inferred, then the
\* pack's. The first self parameters are not matched.
FoundTypeArgs(r, quiet) ==
  LET why == IF r.why = "" /\ \E k \in DOMAIN r.fixed : r.fixed[k] = NoType THEN "cannot infer" ELSE r.why
  IN  [m |-> ReportWhen(r.m, why # "" /\ ~quiet, why), ok |-> why = "", args |-> r.fixed \o r.pack]
InferTypeArgs(m, tmpl, args, self, quiet, given) ==
  LET fixed == FixedTypeParamCount(tmpl)
      none  == [m |-> m, fixed |-> SubSeq(given \o [k \in 1..fixed |-> NoType], 1, fixed),
                pack |-> <<>>, why |-> ""]
  IN  FoundTypeArgs(FoldLeft(LAMBDA acc, i : InferArg(acc, tmpl, i + self, args[i], given # <<>>), none,
                             [i \in DOMAIN args |-> i]), quiet)

\* The type arguments of a call: written, or inferred; when only the fixed ones are
\* written, the pack is.
TypeArgsOf(m, tmpl, call, self, quiet) ==
  LET fixed == FixedTypeParamCount(tmpl)
      given == call.types
      n     == Len(given)
      infers == ~HasTypeArgList(call) \/ (tmpl.pack /\ n = fixed /\ \A i \in 1..n : given[i].k # "pack")
  IN  IF infers THEN InferTypeArgs(m, tmpl, CallArgs(call), self, quiet, given)
      ELSE IF (tmpl.pack /\ n < fixed) \/ (~tmpl.pack /\ n # fixed)
      THEN [m |-> Report(m, "number of type arguments"), ok |-> FALSE, args |-> <<>>]
      ELSE [m |-> m, ok |-> TRUE, args |-> given]

-----------------------------------------------------------------------------
\* Calls. Their types and arguments are rewritten; depth: of the type arguments written.

Rewritten(m, n) == [m |-> m, n |-> n]
NoTypeArgs(call) == [call EXCEPT !.types = <<>>, !.val = 0]

\* The instance of a method template a call names, or why not; its spelling or NoType.
MethodMade(r, mt, spelling, depth) ==
  IF ~r.ok THEN Unknown(r.m)
  ELSE IF ~WithinLimits(depth + 1, spelling) THEN Unknown(Stopped(r.m, "too deep"))
  ELSE Typed(InstantiateMethod(r.m, mt, spelling, r.args), spelling)
MakeMethodInstance(m, mt, call, self, depth, quiet) ==
  With(TypeArgsOf(m, mt.fn, call, self, quiet), LAMBDA r :
    MethodMade(r, mt, TypeNameGenericSpelling(mt.fn.method.name, r.args), depth))

TakesSelf(fn, handle) == ParamsOf(fn) # <<>> /\ Spell(ParamsOf(fn)[1].types[1]) = handle

\* What a method is called on: a struct or handle by name, or a value of a known type.
IsStatic(m, base) ==
  /\ base.k = "ident" /\ ~IsLocal(m, base.name)
  /\ PlainStructNamed(m, base.name) \/ base.name \in m.handles

NamesInstance(call, made) == IF made = NoType \/ call.name = Leaf("init") THEN call ELSE [call EXCEPT !.name = made]
SelfArgs(mt, handle, static) ==
  IF ~static /\ (mt.fn.method = Leaf("init") \/ TakesSelf(mt.fn, handle)) THEN 1 ELSE 0
MethodOf(m, call, handle, static, depth) ==
  IF ~HasMethodTemplate(m, handle, call.name)
  THEN Rewritten(ReportWhen(m, HasTypeArgList(call), "no generic method of this"), call)
  ELSE With(MethodTemplate(m, handle, call.name), LAMBDA mt :
         With(MakeMethodInstance(m, mt, call, SelfArgs(mt, handle, static), depth, call.name = Leaf("init")), LAMBDA made :
           Rewritten(made.m, NoTypeArgs(NamesInstance(call, made.t)))))

\* The receiver: the handle methods are looked for on, NoType if it is not known.
Receiver(m, base) ==
  IF IsStatic(m, base) THEN Typed(m, base.name)
  ELSE With(MonoTypeOf(m, base), LAMBDA r : With(MonoUnwrap(r.m, r.t), LAMBDA on : Typed(on.m, on.t)))

\* Without type arguments, a call on a value of unknown type is left for type checking.
RewriteMethodCall(m, call, depth) ==
  IF call.name \notin m.methodNames THEN Rewritten(ReportWhen(m, HasTypeArgList(call), "no generic method"), call)
  ELSE With(Receiver(m, call.kids[1]), LAMBDA on :
         IF on.t = NoType THEN Rewritten(ReportWhen(on.m, HasTypeArgList(call), "receiver not known"), call)
         ELSE MethodOf(on.m, call, on.t, IsStatic(m, call.kids[1]), depth))

\* `H(args)`: the `init` template of H, if any, is instantiated; nothing is reported.
RewriteConstructorCall(m, call, depth) ==
  IF Leaf("init") \in m.methodNames /\ HasMethodTemplate(m, call.name, Leaf("init"))
  THEN Rewritten(MakeMethodInstance(m, MethodTemplate(m, call.name, Leaf("init")), NoTypeArgs(call), 1, depth, TRUE).m,
                 NoTypeArgs(call))
  ELSE Rewritten(m, call)

\* `holder<int>(args)` is a constructor call on the instance.
RewriteGenericStructCall(m, call) ==
  With(RewriteType(m, Use(call.name.name, call.types)), LAMBDA r :
    Rewritten(r.m, [call EXCEPT !.name = r.t, !.types = <<>>]))

FunctionCallRewritten(r, tmpl, call, name, depth) ==
  IF ~r.ok THEN Rewritten(r.m, call)
  ELSE IF ~WithinLimits(depth + 1, name) THEN Rewritten(Stopped(r.m, "too deep"), call)
  ELSE Rewritten(InstantiateFunction(r.m, tmpl, name, r.args), NoTypeArgs([call EXCEPT !.name = name]))
RewriteFunctionCall(m, tmpl, call, depth) ==
  With(TypeArgsOf(m, tmpl, call, 0, FALSE), LAMBDA r :
    FunctionCallRewritten(r, tmpl, call, TypeNameGenericSpelling(call.name.name, r.args), depth))

\* A call whose types and kids are rewritten.
CallRewritten(m, call, depth) ==
  IF call.kids[1] # Absent THEN RewriteMethodCall(m, call, depth)
  ELSE IF HasNamed(m.functionTemplates, call.name)
  THEN RewriteFunctionCall(m, FirstNamed(m.functionTemplates, call.name), call, depth)
  ELSE IF IsStructTemplate(m, call.name) /\ call.types = <<>>
  THEN Rewritten(Report(m, "type arguments needed"), call)
  ELSE With(IF IsStructTemplate(m, call.name) THEN RewriteGenericStructCall(m, call) ELSE Rewritten(m, call),
            LAMBDA r : RewriteConstructorCall(r.m, r.n, depth))

-----------------------------------------------------------------------------
\* What an instance's types decide.

NeverEmptyPrims == SignedPrims \cup UnsignedPrims \cup {"bool", "float", "double", "string", "float2", "float3", "float4"}

\* A value of type t is never null; aliases, whose handle is the type they name, are followed
\* up to a depth.
RECURSIVE NeverEmptyType(_, _, _)
NeverEmptyType(m, t, depth) ==
  LET sds == DeclsOf(m, "structs")
      sd  == FirstNamed(sds, t)
  IN  /\ t.k \notin {"none", "opt", "ptr"} /\ depth <= 8
      /\ \/ t.k \in {"box", "array", "fixed"}
         \/ t.k = "leaf" /\ t.name \in NeverEmptyPrims
         \/ HasNamed(DeclsOf(m, "enums"), t)
         \/ HasNamed(sds, t) /\ (IF IsAlias(sd) THEN NeverEmptyType(m, Spell(sd.handle), depth + 1) ELSE ~IsIncomplete(sd))

IsNull(n)      == IsNamed(n, "null")
IsEquality(n)  == n.k = "binary" /\ n.name \in {Leaf("=="), Leaf("!=")}
IsNullTest(n)  == n.k = "nulltest" \/ (IsEquality(n) /\ (IsNull(n.kids[1]) \/ IsNull(n.kids[2])))
NullTested(n)  == n.kids[IF IsEquality(n) /\ IsNull(n.kids[1]) THEN 2 ELSE 1]

\* Whether n holds `args.length`: such a condition folds without a meta call.
RECURSIVE MentionsPackLength(_)
MentionsPackLength(n) ==
  \/ n.k = "packlength"
  \/ n.k \in {"unary", "binary", "conditional", "cast"} /\ \E i \in DOMAIN n.kids : MentionsPackLength(n.kids[i])

-----------------------------------------------------------------------------
\* Rewriting a node: its types, then the nodes below it in order. A declaration being
\* rewritten is replaced when it is done; what is looked up in it is canonical either way.

RECURSIVE Rewrite(_, _)

AddNode(acc, r) == [m |-> r.m, ns |-> Append(acc.ns, r.n)]
RewriteSlotList(m, ns) == FoldLeft(LAMBDA acc, n : AddNode(acc, Rewrite(acc.m, n)), [m |-> m, ns |-> <<>>], ns)

\* n with its types rewritten, and then its kids; d is the depth of the types.
WithTypesRewritten(n, ts) ==
  With(RewriteSlotList(ts.m, n.kids), LAMBDA ks :
    [m |-> ks.m, n |-> [n EXCEPT !.types = ts.ts, !.kids = ks.ns], d |-> ts.d])
RewriteNode(m, n) == WithTypesRewritten(n, RewriteTypes(m, n.types))

\* What is written bare before the braces is only a name, not a type.
RewriteInitName(m, t) ==
  [m |-> ReportWhen(m, IsStructTemplate(m, t), "type arguments needed"), ts |-> <<t>>, d |-> 0]
RewriteStructInit(m, n) ==
  IF n.types # <<>> /\ n.types[1].k = "leaf" THEN WithTypesRewritten(n, RewriteInitName(m, n.types[1]))
  ELSE RewriteNode(m, n)

RewriteCall(m, n) == With(RewriteNode(m, n), LAMBDA r : CallRewritten(r.m, r.n, r.d))

Closed(r)          == Rewritten(PopScope(r.m), r.n)
RewriteScoped(m, n) == Closed(RewriteNode(PushScope(m), n))

\* A local is bound after its initializer, whose type a `var` takes.
BindTo(v, t, n) == Rewritten(BindName(t.m, v.name, t.t), n)
Declared(v, r)  == BindTo(v, IF v.types # <<>> THEN Typed(r.m, r.n.types[1]) ELSE MonoTypeOf(r.m, r.n.kids[1]), r.n)
RewriteVarDecl(m, v) == Declared(v, RewriteNode(m, v))

\* The parameters are in a scope around the body.
BindParams(m, ps) == FoldLeft(LAMBDA acc, p : BindName(acc, p.name, p.types[1]), PushScope(m), ps)
WithBody(head, body, flag) ==
  Rewritten([PopScope(body.m) EXCEPT !.inInstance = flag], [head EXCEPT !.kids = Append(@, body.n)])
RewriteFunction(m, fn) ==
  With(RewriteNode(m, [fn EXCEPT !.kids = ParamsOf(fn)]), LAMBDA head :
    WithBody(head.n, Rewrite([BindParams(head.m, head.n.kids) EXCEPT !.inInstance = fn.isInstance], BodyOf(fn)),
             m.inInstance))

\* The types of an instance decide a null test, unless its operand's is not known. The
\* operand, which is not rewritten, is then gone.
FoldedNullTest(m, n) ==
  With(MonoTypeOf(m, NullTested(n)), LAMBDA r :
    IF ~NeverEmptyType(r.m, r.t, 0) THEN RewriteNode(r.m, n)
    ELSE Rewritten([r.m EXCEPT !.metaCalls = @ + 1], BoolLiteral(n.name # Leaf("=="))))

\* What the rewritten condition c decides, of what was met at m: a meta call or a length
\* must be in it.
Decision(m, c) ==
  IF c.m.metaCalls # m.metaCalls \/ MentionsPackLength(c.n) THEN FoldCondition(c.m, c.n)
  ELSE [folds |-> FALSE, taken |-> FALSE]
FoldedBranch(n) == IF n.k = "block" THEN n ELSE Block(IF n = Absent THEN <<>> ELSE <<n>>)
Kept(n, taken)  == With(n.kids[IF taken THEN 2 ELSE 3], LAMBDA b : IF n.k = "if" THEN FoldedBranch(b) ELSE b)

BranchesRewritten(c, n, bs) == Rewritten(bs.m, [n EXCEPT !.kids = <<c.n>> \o bs.ns])
RewriteBranches(c, n)       == BranchesRewritten(c, n, RewriteSlotList(c.m, Tail(n.kids)))

\* A bug: both branches are rewritten before one is dropped.
BranchedBoth(m, n, c) ==
  With(RewriteBranches(c, n), LAMBDA r : With(Decision(m, c), LAMBDA d :
    IF d.folds THEN Rewritten(r.m, Kept(r.n, d.taken)) ELSE r))

\* The branch not taken is dropped before it is rewritten: nothing in it is instantiated.
Branched(m, n, c) ==
  With(Decision(m, c), LAMBDA d : IF d.folds THEN Rewrite(c.m, Kept(n, d.taken)) ELSE RewriteBranches(c, n))
RewriteIf(m, n)          == Branched(m, n, Rewrite(m, n.kids[1]))
RewriteConditional(m, n) == Branched(m, n, Rewrite(m, n.kids[1]))

Rewrite(m, n) ==
  CASE n.k = "meta"             -> FoldMetaCall(m, n)
    [] n.k = "if"               -> RewriteIf(m, n)
    [] n.k = "conditional"      -> RewriteConditional(m, n)
    [] m.inInstance /\ IsNullTest(n) -> FoldedNullTest(m, n)
    [] n.k = "call"             -> RewriteCall(m, n)
    [] n.k = "structinit"       -> RewriteStructInit(m, n)
    [] n.k = "function"         -> RewriteFunction(m, n)
    [] n.k = "var"              -> RewriteVarDecl(m, n)
    [] n.k \in {"block", "for"} -> RewriteScoped(m, n)
    [] n.k = "expand"           -> Rewritten(Report(m, "not a pack"), n)
    [] OTHER                    -> RewriteNode(m, n)
=============================================================================
