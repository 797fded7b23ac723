----------------------------- MODULE MetaEval -----------------------------
(***************************************************************************)
(* Meta functions: what their bodies may hold, and the interpreter that     *)
(* folds a call `@name(args)` while generics are expanded                   *)
(* (CheckMeta*, Meta* and Fold* of src/src/Sema/Monomorphize.c).            *)
(*                                                                          *)
(* m is the state of the expansion (Monomorphize): the templates and impls  *)
(* built-in functions ask about, and the meta functions by name.            *)
(***************************************************************************)
EXTENDS GenericAst
LOCAL INSTANCE SequencesExt
LOCAL INSTANCE FiniteSetsExt

CONSTANTS Bits,          \* the width of each integer type, that of `long` being the widest
          MetaMaxDepth   \* META_MAX_DEPTH

SignedPrims    == {"sbyte", "short", "int", "long"}
UnsignedPrims  == {"byte", "ushort", "uint", "ulong"}
IsIntegerPrim(p)  == p \in SignedPrims \cup UnsignedPrims
IsUnsignedPrim(p) == p \in UnsignedPrims

IsTypeParamType(t)  == t = Leaf("type")
IsScalarMetaType(t) == t.k = "leaf" /\ (t.name = "bool" \/ IsIntegerPrim(t.name))

-----------------------------------------------------------------------------
\* Values: the integers of the widest type, and booleans (0 and 1 with isBool).

MetaValue(i, b) == [i |-> i, isBool |-> b]
Truth(b)        == MetaValue(IF b THEN 1 ELSE 0, TRUE)
Integer(i)      == MetaValue(i, FALSE)

Half    == 2 ^ (Bits["long"] - 1)
Wrap(i) == ((i + Half) % (2 * Half)) - Half

\* A ulong is held in a signed word, so it stops at the largest long.
MetaFits(p, i) ==
  CASE p \in {"bool", "long"}         -> TRUE
    [] p = "ulong"                    -> i >= 0
    [] p \in UnsignedPrims \ {"ulong"} -> i \in 0..(2 ^ Bits[p] - 1)
    [] OTHER                          -> i \in (-(2 ^ (Bits[p] - 1)))..(2 ^ (Bits[p] - 1) - 1)

\* C's division, towards zero.
Quotient(a, b) == LET q == (IF a < 0 THEN -a ELSE a) \div (IF b < 0 THEN -b ELSE b)
                  IN  IF (a < 0) = (b < 0) THEN q ELSE -q

Bit(i, j) == (i \div 2 ^ j) % 2
BitOf(op, x, y) == CASE op = "&" -> x * y [] op = "|" -> x + y - x * y [] op = "^" -> (x + y) % 2
BitOp(op, a, b) ==
  Wrap(FoldLeft(LAMBDA sum, j : sum + 2 ^ (j - 1) * BitOf(op, Bit(a, j - 1), Bit(b, j - 1)), 0,
                [j \in 1..Bits["long"] |-> j]))

\* An operator gives a value or a reason.
Value(v)  == [ok |-> TRUE, v |-> v, why |-> ""]
Refuse(w) == [ok |-> FALSE, v |-> Integer(0), why |-> w]

MetaUnary(op, v) ==
  CASE op = "!" -> IF v.isBool THEN Value(Truth(v.i = 0)) ELSE Refuse("operand")
    [] op # "!" /\ v.isBool -> Refuse("operand")
    [] op = "-" /\ ~v.isBool -> Value(Integer(Wrap(-v.i)))
    [] op = "~" /\ ~v.isBool -> Value(Integer(-v.i - 1))
    [] OTHER -> Value(v)

\* The remainder of a division by -1 is 0, and the quotient wraps.
Divided(op, a, b) ==
  IF b = 0 THEN Refuse("division by zero")
  ELSE Value(Integer(IF op = "/" THEN Wrap(Quotient(a, b)) ELSE a - b * Quotient(a, b)))

Shifted(op, a, b) ==
  IF b \notin 0..(Bits["long"] - 1) THEN Refuse("shift count")
  ELSE Value(Integer(IF op = "<<" THEN Wrap(a * 2 ^ b) ELSE a \div 2 ^ b))

Compared(op, a, b) ==
  Truth(CASE op = "<" -> a < b [] op = "<=" -> a <= b [] op = ">" -> a > b [] op = ">=" -> a >= b)

MetaBinary(op, a, b) ==
  CASE op \in {"==", "!="} ->
         IF a.isBool # b.isBool THEN Refuse("operands") ELSE Value(Truth((a.i = b.i) = (op = "==")))
    [] op \in {"&", "|", "^"} /\ a.isBool /\ b.isBool -> Value(Truth(BitOp(op, a.i, b.i) = 1))
    [] op \notin {"==", "!="} /\ (a.isBool \/ b.isBool) /\ ~(op \in {"&", "|", "^"} /\ a.isBool /\ b.isBool) ->
         Refuse("operands")
    [] OTHER ->
         CASE op = "+" -> Value(Integer(Wrap(a.i + b.i)))
           [] op = "-" -> Value(Integer(Wrap(a.i - b.i)))
           [] op = "*" -> Value(Integer(Wrap(a.i * b.i)))
           [] op \in {"/", "%"}       -> Divided(op, a.i, b.i)
           [] op \in {"&", "|", "^"}  -> Value(Integer(BitOp(op, a.i, b.i)))
           [] op \in {"<<", ">>"}     -> Shifted(op, a.i, b.i)
           [] op \in {"<", "<=", ">", ">="} -> Value(Compared(op, a.i, b.i))

-----------------------------------------------------------------------------
\* Frames. A binding is a type parameter with its type, or a variable with its type's name
\* and its value; start is the first of the innermost block. A quiet frame reports nothing.

MetaFrame(prim, depth, quiet) ==
  [prim |-> prim, depth |-> depth, quiet |-> quiet, bindings |-> <<>>, start |-> 1,
   returned |-> FALSE, result |-> Integer(0)]

TypeBinding(name, t)     == [name |-> name, prim |-> "type", type |-> t, v |-> Integer(0)]
VarBinding(name, p, v)   == [name |-> name, prim |-> p, type |-> NoType, v |-> v]

MetaBind(f, b)      == [f EXCEPT !.bindings = Append(@, b)]
BindingsOf(f, name) == {i \in DOMAIN f.bindings : f.bindings[i].name = name}
IsBound(f, name)    == BindingsOf(f, name) # {}
MetaLookup(f, name) == Max(BindingsOf(f, name))
Holds(f, name)      == f.bindings[MetaLookup(f, name)]

\* What evaluating gives: the frame after it, a value, and, when it failed, why.
Done(f, v)     == [ok |-> TRUE, f |-> f, v |-> v, errors |-> {}]
MetaFail(f, w) == [ok |-> FALSE, f |-> f, v |-> Integer(0), errors |-> IF f.quiet THEN {} ELSE {w}]
AndThen(r, Op(_, _)) == IF r.ok THEN Op(r.f, r.v) ELSE r
Outcome(f, o)  == IF o.ok THEN Done(f, o.v) ELSE MetaFail(f, o.why)

\* A value stored into a slot of type p.
MetaStore(f, p, v) ==
  IF v.isBool # (p = "bool") THEN MetaFail(f, "kind of value")
  ELSE IF ~MetaFits(p, v.i) THEN MetaFail(f, "out of range")
  ELSE Done(f, v)

\* t with the type parameters bound in f replaced.
MetaResolveType(f, t) ==
  LET bound == SelectSeq(f.bindings, LAMBDA b : b.prim = "type")
  IN  TypeNameSubstitute(Binding([i \in DOMAIN bound |-> bound[i].name.name], [i \in DOMAIN bound |-> bound[i].type]), t)

-----------------------------------------------------------------------------
\* Built-in meta functions.

HasMethodNamed(methods, method) == \E i \in DOMAIN methods : methods[i].method = method

\* The impls of a generic struct are searched by its base name: an instance may not be made.
MetaTypeHasMethod(m, t, method) ==
  LET base == IF t.k = "use" THEN Leaf(t.name) ELSE t
      impls == IF \E i \in DOMAIN m.structTemplates : m.structTemplates[i].name = base THEN m.implTemplates
               ELSE [i \in DOMAIN m.impls |-> m.heap[m.impls[i]]]
  IN  /\ t.k \in {"leaf", "inst", "use"}
      /\ \/ \E i \in DOMAIN impls : impls[i].name = base /\ HasMethodNamed(impls[i].methods, method)
         \/ \E i \in DOMAIN m.methodTemplates :
               m.methodTemplates[i].handle = base /\ m.methodTemplates[i].fn.method = method

MetaHasFunction(m, f, args) ==
  IF Len(args) # 2 THEN MetaFail(f, "arguments")
  ELSE IF args[1].k # "type" THEN MetaFail(f, "a type is expected")
  ELSE IF args[2].k # "type" \/ ~IsLeafType(args[2].types[1]) THEN MetaFail(f, "a method is expected")
  ELSE Done(f, Truth(MetaTypeHasMethod(m, MetaResolveType(f, args[1].types[1]), args[2].types[1])))

MetaIsSame(f, args) ==
  IF Len(args) # 2 THEN MetaFail(f, "arguments")
  ELSE IF args[1].k # "type" \/ args[2].k # "type" THEN MetaFail(f, "a type is expected")
  ELSE Done(f, Truth(Spell(MetaResolveType(f, args[1].types[1])) = Spell(MetaResolveType(f, args[2].types[1]))))

-----------------------------------------------------------------------------
\* The interpreter: of an expression its value, of a statement the frame it leaves.

RECURSIVE MetaEval(_, _, _)

MetaEvalIdent(f, n) ==
  IF ~IsBound(f, n.name) THEN MetaFail(f, "not a value")
  ELSE IF Holds(f, n.name).prim = "type" THEN MetaFail(f, "a type is no value")
  ELSE Done(f, Holds(f, n.name).v)

MetaEvalBool(m, f, n) ==
  AndThen(MetaEval(m, f, n), LAMBDA g, v : IF v.isBool THEN Done(g, v) ELSE MetaFail(g, "condition"))

\* `&&` is decided by a false left side, `||` by a true one: the right side is then not evaluated.
MetaEvalLogic(m, f, n) ==
  AndThen(MetaEval(m, f, n.kids[1]), LAMBDA g, a :
    IF ~a.isBool THEN MetaFail(g, "operands")
    ELSE IF (a.i # 0) = (n.name = Leaf("||")) THEN Done(g, a)
    ELSE AndThen(MetaEval(m, g, n.kids[2]), LAMBDA h, b : IF b.isBool THEN Done(h, b) ELSE MetaFail(h, "operands")))

MetaEvalBinary(m, f, n) ==
  IF n.name.name \in {"&&", "||"} THEN MetaEvalLogic(m, f, n)
  ELSE AndThen(MetaEval(m, f, n.kids[1]), LAMBDA g, a :
         AndThen(MetaEval(m, g, n.kids[2]), LAMBDA h, b : Outcome(h, MetaBinary(n.name.name, a, b))))

\* The variable is looked up before the value is evaluated, and read after.
OperatorOf(op) == CASE op = "+=" -> "+" [] op = "-=" -> "-" [] op = "*=" -> "*" [] op = "/=" -> "/" [] OTHER -> "%"
MetaSet(f, at, v) ==
  AndThen(MetaStore(f, f.bindings[at].prim, v), LAMBDA g, w : Done([g EXCEPT !.bindings[at].v = w], w))
MetaAssign(m, f, n) ==
  IF n.kids[1].k # "ident" \/ ~IsBound(f, n.kids[1].name) THEN MetaFail(f, "target")
  ELSE IF Holds(f, n.kids[1].name).prim = "type" THEN MetaFail(f, "target")
  ELSE LET at == MetaLookup(f, n.kids[1].name)
       IN  AndThen(MetaEval(m, f, n.kids[2]), LAMBDA g, v :
             IF n.name = Leaf("=") THEN MetaSet(g, at, v)
             ELSE AndThen(Outcome(g, MetaBinary(OperatorOf(n.name.name), g.bindings[at].v, v)),
                          LAMBDA h, w : MetaSet(h, at, w)))

\* The arguments of a call, evaluated in the caller's frame and bound one by one in the
\* callee's. A value may also be named by what the caller binds. Both frames are kept, and
\* whether all went well.
Binds(f, callee, ok, errors) == [f |-> f, callee |-> callee, ok |-> ok, errors |-> errors]
MetaBindType(f, callee, p, arg) ==
  IF arg.k # "type" THEN Binds(f, callee, FALSE, MetaFail(f, "a type is expected").errors)
  ELSE IF IsLeafType(arg.types[1]) /\ IsBound(f, arg.types[1]) /\ Holds(f, arg.types[1]).prim # "type"
  THEN Binds(f, callee, FALSE, MetaFail(f, "a value, not a type").errors)
  ELSE Binds(f, MetaBind(callee, TypeBinding(p.name, MetaResolveType(f, arg.types[1]))), TRUE, {})

MetaArgument(m, f, arg) ==
  IF arg.k # "type" THEN MetaEval(m, f, arg)
  ELSE IF IsLeafType(arg.types[1]) /\ IsBound(f, arg.types[1]) /\ Holds(f, arg.types[1]).prim # "type"
  THEN Done(f, Holds(f, arg.types[1]).v) ELSE MetaFail(f, "a value is expected")

MetaBindValue(m, f, callee, p, arg) ==
  With(AndThen(MetaArgument(m, f, arg), LAMBDA g, v : [MetaStore(callee, p.types[1].name, v) EXCEPT !.f = g]), LAMBDA r :
    Binds(r.f, IF r.ok THEN MetaBind(callee, VarBinding(p.name, p.types[1].name, r.v)) ELSE callee, r.ok, r.errors))

MetaBindArgs(m, f, callee, params, args) ==
  FoldLeft(LAMBDA acc, i :
             IF ~acc.ok THEN acc
             ELSE IF IsTypeParamType(params[i].types[1]) THEN MetaBindType(acc.f, acc.callee, params[i], args[i])
             ELSE MetaBindValue(m, acc.f, acc.callee, params[i], args[i]),
           Binds(f, callee, TRUE, {}), [i \in DOMAIN params |-> i])

\* The body of fn, in a frame of its own.
MetaRun(m, f, fn, args) ==
  IF f.depth + 1 > MetaMaxDepth THEN MetaFail(f, "meta recursion")
  ELSE With(MetaBindArgs(m, f, MetaFrame(ReturnType(fn).name, f.depth + 1, f.quiet), ParamsOf(fn), args), LAMBDA bound :
    IF ~bound.ok THEN [MetaFail(bound.f, "") EXCEPT !.errors = bound.errors]
    ELSE With(MetaEval(m, bound.callee, BodyOf(fn)), LAMBDA r :
      IF ~r.ok THEN [r EXCEPT !.f = bound.f]
      ELSE IF ~r.f.returned THEN MetaFail(bound.f, "no return") ELSE Done(bound.f, r.f.result)))

\* A meta function that was refused when it was collected is never run; nothing is reported again.
IsMeta(m, name)   == \E i \in DOMAIN m.metaFunctions : m.metaFunctions[i].fn.name = name
MetaNamed(m, name) == SelectSeq(m.metaFunctions, LAMBDA mf : mf.fn.name = name)[1]
MetaEvalCall(m, f, n) ==
  CASE n.name = Leaf("has_function") -> MetaHasFunction(m, f, n.kids)
    [] n.name = Leaf("is_same")      -> MetaIsSame(f, n.kids)
    [] n.name \notin {Leaf("has_function"), Leaf("is_same")} /\ ~IsMeta(m, n.name) -> MetaFail(f, "unknown")
    [] OTHER ->
         LET mf == MetaNamed(m, n.name)
         IN  IF ~mf.valid THEN [MetaFail(f, "") EXCEPT !.errors = {}]
             ELSE IF Len(n.kids) # Len(ParamsOf(mf.fn)) THEN MetaFail(f, "arguments")
             ELSE MetaRun(m, f, mf.fn, n.kids)

\* The type a meta call's literal has; bool when there is no such function.
MetaPrim(m, n) == IF IsMeta(m, n.name) THEN IF MetaNamed(m, n.name).valid THEN ReturnType(MetaNamed(m, n.name).fn).name
                                            ELSE "bool"
                  ELSE "bool"

MetaExecVarDecl(m, f, n) ==
  IF \E i \in f.start..Len(f.bindings) : f.bindings[i].name = n.name THEN MetaFail(f, "declared twice")
  ELSE IF n.kids[1] = Absent THEN MetaFail(f, "no initializer")
  ELSE AndThen(MetaEval(m, f, n.kids[1]), LAMBDA g, v :
         AndThen(MetaStore(g, n.types[1].name, v), LAMBDA h, w :
           Done(MetaBind(h, VarBinding(n.name, n.types[1].name, w)), w)))

\* A block drops its variables, and stops at a return.
MetaExecBlock(m, f, n) ==
  LET run == FoldLeft(LAMBDA r, s : IF r.ok /\ ~r.f.returned THEN MetaEval(m, r.f, s) ELSE r,
                      Done([f EXCEPT !.start = Len(f.bindings) + 1], Integer(0)), n.kids)
  IN  [run EXCEPT !.f.bindings = SubSeq(@, 1, Len(f.bindings)), !.f.start = f.start]

MetaExecReturn(m, f, n) ==
  IF n.kids[1] = Absent THEN MetaFail(f, "return without a value")
  ELSE AndThen(MetaEval(m, f, n.kids[1]), LAMBDA g, v :
         AndThen(MetaStore(g, f.prim, v), LAMBDA h, w : Done([h EXCEPT !.returned = TRUE, !.result = w], w)))

MetaExecIf(m, f, n) ==
  AndThen(MetaEvalBool(m, f, n.kids[1]), LAMBDA g, v :
    IF v.i # 0 THEN MetaEval(m, g, n.kids[2])
    ELSE IF n.kids[3] = Absent THEN Done(g, v) ELSE MetaEval(m, g, n.kids[3]))

MetaEval(m, f, n) ==
  CASE n.k \in {"int", "packlength"} -> Done(f, Integer(Wrap(n.val)))
    [] n.k = "bool"        -> Done(f, MetaValue(n.val, TRUE))
    [] n.k = "ident"       -> MetaEvalIdent(f, n)
    [] n.k = "unary"       -> AndThen(MetaEval(m, f, n.kids[1]), LAMBDA g, v : Outcome(g, MetaUnary(n.name.name, v)))
    [] n.k = "binary"      -> MetaEvalBinary(m, f, n)
    [] n.k = "conditional" -> AndThen(MetaEvalBool(m, f, n.kids[1]), LAMBDA g, v :
                                MetaEval(m, g, n.kids[IF v.i # 0 THEN 2 ELSE 3]))
    [] n.k = "assign"      -> MetaAssign(m, f, n)
    [] n.k = "meta"        -> MetaEvalCall(m, f, n)
    [] n.k = "block"       -> MetaExecBlock(m, f, n)
    [] n.k = "return"      -> MetaExecReturn(m, f, n)
    [] n.k = "if"          -> MetaExecIf(m, f, n)
    [] n.k = "var"         -> MetaExecVarDecl(m, f, n)
    [] n.k = "expr"        -> IF n.kids[1] = Absent THEN Done(f, Integer(0)) ELSE MetaEval(m, f, n.kids[1])
    [] OTHER               -> MetaFail(f, "not at compile time")

-----------------------------------------------------------------------------
\* What a body may hold, checked when the function is collected, whether or not it is called.

RECURSIVE CheckMeta(_)
CheckMetaExpr(n) ==
  /\ n.k \in {"absent", "int", "bool", "ident", "unary", "binary", "assign", "conditional", "meta", "type"}
  /\ n.k = "unary" => n.name.name \notin {"&", "*"}
CheckMetaVar(n) == n.k = "var" => n.types # <<>> /\ IsScalarMetaType(n.types[1]) /\ n.kids[1] # Absent
CheckMetaStmt(n) == n.k \in {"block", "return", "if", "var", "expr"} /\ CheckMetaVar(n)
CheckMeta(n) == (CheckMetaExpr(n) \/ CheckMetaStmt(n)) /\ \A i \in DOMAIN n.kids : CheckMeta(n.kids[i])

\* What is reported of a meta function as it is collected; known: those before it.
IsBuiltinMeta(fn) == fn.name \in {Leaf("has_function"), Leaf("is_same")}
NameErrors(known, fn) ==
  IF IsBuiltinMeta(fn) THEN {"built-in meta function"}
  ELSE IF \E i \in DOMAIN known : known[i].fn.name = fn.name THEN {"redefinition"} ELSE {}
BadMetaParam(p) == p.val = 2 \/ (~IsTypeParamType(p.types[1]) /\ ~IsScalarMetaType(p.types[1]))
SignatureErrors(fn) == {"meta parameter" : p \in {q \in ToSet(ParamsOf(fn)) : BadMetaParam(q)}}
                       \cup (IF IsScalarMetaType(ReturnType(fn)) THEN {} ELSE {"meta result"})
BodyErrors(fn) == IF BodyOf(fn) # Absent /\ ~CheckMeta(BodyOf(fn)) THEN {"meta body"} ELSE {}

\* The meta functions, the first of each name, and what was reported. The body of one whose
\* name or signature is wrong is not looked at.
AddMetaFunction(acc, fn, named, signed) ==
  With(named \cup signed \cup (IF named \cup signed = {} THEN BodyErrors(fn) ELSE {}), LAMBDA errors :
    [known |-> IF named # {} THEN acc.known
               ELSE Append(acc.known, [fn |-> fn, valid |-> errors = {} /\ BodyOf(fn) # Absent]),
     errors |-> acc.errors \cup errors])
CollectMetaFunctions(fns) ==
  FoldLeft(LAMBDA acc, fn : AddMetaFunction(acc, fn, NameErrors(acc.known, fn), SignatureErrors(fn)),
           [known |-> <<>>, errors |-> {}], fns)

-----------------------------------------------------------------------------
\* Folding. The literal a value becomes: of the signedness and width of its type, and
\* negated when it is negative, as the parser reads `-5`.

LiteralType(p) == CASE p = "ulong" -> "ulong" [] p = "long" -> "long"
                    [] p \in UnsignedPrims \ {"ulong"} -> "uint" [] OTHER -> "int"
IntLiteralOf(p, i) == Node("int", Leaf(LiteralType(p)), <<>>, <<>>, i)
MetaLiteralNode(p, v) ==
  CASE p = "bool" -> BoolLiteral(v.i # 0)
    [] p # "bool" /\ v.i >= 0 -> IntLiteralOf(p, v.i)
    [] OTHER -> Node("unary", Leaf("-"), <<>>, <<IntLiteralOf(p, -v.i)>>, 0)

\* A call that fails folds to false or 0, so that the rest is expanded.
MetaFolded(m, r, p) ==
  [n |-> MetaLiteralNode(p, IF r.ok THEN r.v ELSE MetaValue(0, p = "bool")),
   m |-> [m EXCEPT !.metaCalls = @ + 1, !.errors = @ \cup r.errors]]
FoldMetaCall(m, n) == MetaFolded(m, MetaEval(m, MetaFrame("", 0, FALSE), n), MetaPrim(m, n))

\* Whether a rewritten condition is constant, and what it is: names and calls are not.
FoldCondition(m, n) ==
  With(MetaEval(m, MetaFrame("", 0, TRUE), n), LAMBDA r : [folds |-> r.ok /\ r.v.isBool, taken |-> r.ok /\ r.v.i # 0])
=============================================================================
