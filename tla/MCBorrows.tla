------------------------------ MODULE MCBorrows -----------------------------
(***************************************************************************)
(* Small modules.  `Main` is exported and calls `A`, which may call `B`,   *)
(* which may call `C`, `A` or itself, the callers declared first, so that  *)
(* what `C` does is learnt by `A` only in a later round.  In the borrow    *)
(* family all take one parameter of the same form by value, in the growth  *)
(* family an `int[]` by `ref`.                                             *)
(***************************************************************************)
EXTENDS Borrows, ScanOrder
LOCAL INSTANCE TLC

CONSTANTS Forms,               \* of the parameter of the borrow family
          Firsts, Seconds, Thirds, \* what the bodies of A, B and C do
          Growers1, Growers2, Growers3, \* and in the growth family
          Givens               \* what Main passes there

P == "p"
Take(x, form, v)  == VarDecl(x, Form(form), v)
New(form)         == Fresh(Form(form))
Num               == New("scalar")
CallTo(g, args)   == Do(Invoke(NoNode, g, args))
CallOn(base, m, args) == Do(Invoke(base, m, args))

Function(name, params, body) ==
  [name |-> name, method |-> FALSE, extern |-> FALSE, export |-> FALSE, cvararg |-> FALSE,
   params |-> params, nodes |-> Nodes(body), growth |-> GrowthNodes(body)]
Method(name, params, body) == [Function(name, params, body) EXCEPT !.method = TRUE]
Extern(name, params)       == [Function(name, params, Block(<<>>)) EXCEPT !.extern = TRUE, !.nodes = <<>>, !.growth = <<>>]

Parameter(name, mod, form) == [name |-> name, mod |-> mod, const |-> FALSE, rest |-> FALSE, ty |-> Form(form)]
Value(form)                == Parameter(P, "none", form)
Ref(form)                  == Parameter(P, "ref", form)
ConstRef(form)             == [Ref(form) EXCEPT !.const = TRUE]
Rest(mod)                  == [Parameter(P, mod, "array") EXCEPT !.rest = TRUE]

-----------------------------------------------------------------------------
\* What a body does with its parameter of a form; `next` is who it may call.
Lend(s, form, next) ==
  LET p == Path(P, form)
  IN  CASE s = "read"     -> CallTo("copy", <<p>>)
        [] s = "take"     -> Take("m", form, p)
        [] s = "return"   -> Return(p, FALSE)
        [] s = "pass"     -> CallTo(next, <<p>>)
        [] s = "twice"    -> Block(<<CallTo(next, <<p>>), CallTo(next, <<p>>)>>)
        [] s = "index"    -> Do(Assign(Elem(Path("t", "array"), "scalar", Invoke(NoNode, next, <<p>>)), Num))
        [] s = "self"     -> If(Flag("c"), CallTo("A", <<p>>), Do(Num))
        [] s = "loop"     -> For(Take("i", "scalar", Num), And(Flag("c"), Not(Flag("d"))),
                                 Do(IncDec(Path("i", "scalar"))), CallTo(next, <<p>>))
        [] s = "write"    -> Defer(Do(Assign(p, New(form))))
        [] s = "part"     -> Take("m", "string", Field(p, "string"))
        [] s = "count"    -> While(Flag("c"), Do(IncDec(Field(p, "scalar"))))
        [] s = "length"   -> Take("m", "scalar", Field(p, "scalar"))
        [] s = "element"  -> Do(Assign(Elem(p, "string", Num), New("string")))
        [] s = "pop"      -> CallTo("array_pop", <<p>>)
        [] s = "push"     -> CallTo("array_push", <<Path("l", "array"), p>>)
        [] s = "replace"  -> CallTo("array_replace", <<Path("l", "array"), Num, p>>)
        [] s = "place"    -> CallTo("ptr_place", <<Num, p>>)
        [] s = "alias"    -> Block(<<Bind("r", p, FALSE), Do(Assign(Path("r", form), New(form)))>>)
        [] s = "view"     -> Block(<<Bind("r", p, TRUE), CallTo("Reads", <<Path("r", form)>>)>>)
        [] s = "literal"  -> Return(Filled(<<p>>, "array"), FALSE)
        [] s = "field"    -> Return(Filled(<<p>>, "struct"), FALSE)
        [] s = "repeated" -> Return(Repeated(p, "array"), FALSE)
        [] s = "extern"   -> CallTo("Host", <<p, p>>)
        [] s = "rest"     -> CallTo("Gather", <<p>>)
        [] s = "delegate" -> CallTo("", <<p>>)
        [] s = "method"   -> CallOn(p, "Sees", <<>>)
        [] s = "changes"  -> CallOn(p, "Changes", <<>>)
        [] s = "overload" -> CallTo("Either", <<p, Num>>)
        [] s = "constArg" -> CallTo("Reads", <<p>>)
        [] s = "refArg"   -> CallTo("Writes", <<p>>)
        \* Holes: a struct taken through a const ref of the body's own, or by `?:`.
        [] s = "viewTaken" -> Block(<<Bind("r", p, TRUE), Take("m", form, Path("r", form))>>)
        [] s = "chosen"    -> Return([Cond(Flag("c"), p, Path("q", form)) EXCEPT !.ty = Form(form)], FALSE)

\* Which of these the rest of the language lets through for a form.
Legal(s, form) ==
  /\ s \in {"part", "count", "chosen", "viewTaken"} => form = "struct"
  /\ s \in {"element", "pop"} => form = "array"
  /\ s = "rest" => form # "array"

LendModule(form, s1, s2, s3) ==
  <<[Function("Main", <<>>, Block(<<Take("v", form, New(form)), CallTo("A", <<Path("v", form)>>),
                                    CallTo("A", <<Path("v", form)>>)>>)) EXCEPT !.export = TRUE],
    Function("A", <<Value(form)>>, Lend(s1, form, "B")),
    Function("B", <<Value(form)>>, Lend(s2, form, "C")),
    Function("C", <<Value(form)>>, Lend(s3, form, "C")),
    Function("Reads", <<ConstRef(form)>>, Do(Num)),
    Function("Writes", <<Ref(form)>>, Do(Assign(Path(P, form), New(form)))),
    Function("Gather", <<Rest("none")>>, Do(Num)),
    Function("Either", <<Value(form), Parameter("n", "none", "scalar")>>, CallTo("copy", <<Path(P, form)>>)),
    Function("Either", <<Value(form), Parameter("n", "none", "string")>>, Take("m", form, Path(P, form))),
    Method("Sees", <<Value(form)>>, CallTo("B", <<Path(P, form)>>)),
    Method("Changes", <<Ref(form)>>, Do(Assign(Path(P, form), New(form)))),
    [Extern("Host", <<Value(form)>>) EXCEPT !.cvararg = TRUE]>>

-----------------------------------------------------------------------------
\* The same for an array borrowed by `ref`.
Grow(s, next) ==
  LET p == Path(P, "array")
      x == Path("x", "scalar")
  IN  CASE s = "read"   -> Take("m", "scalar", Elem(p, "scalar", Num))
        [] s = "push"   -> CallTo("array_push", <<p, Num>>)
        [] s = "pop"    -> Do(IncDec(Elem(p, "scalar", Invoke(NoNode, "array_pop", <<p>>))))
        [] s = "resize" -> Defer(CallTo("array_resize", <<p, Num>>))
        [] s = "rebind" -> Do(Assign(p, New("array")))
        [] s = "set"    -> Do(Assign(Elem(p, "scalar", Num), Num))
        [] s = "pass"   -> CallTo(next, <<p>>)
        [] s = "nested" -> Do(Assign(x, Invoke(NoNode, next, <<p>>)))
        [] s = "self"   -> If(Flag("c"), CallTo("A", <<p>>), Do(Num))
        [] s = "method" -> CallOn(p, "Sees", <<>>)
        [] s = "copied" -> Block(<<Take("l", "array", Invoke(NoNode, "copy", <<p>>)),
                                   CallTo("array_push", <<Path("l", "array"), Num>>)>>)
        [] s = "const"  -> Block(<<Bind("r", p, TRUE), CallTo("Reads", <<Path("r", "array")>>)>>)
        [] s = "ref"    -> Block(<<Bind("r", p, FALSE), Do(Assign(Elem(Path("r", "array"), "scalar", Num), Num))>>)
        \* Holes: grown through a ref of the body's own, or by a call in an index.
        [] s = "refGrown" -> Block(<<Bind("r", p, FALSE), CallTo("array_push", <<Path("r", "array"), Num>>)>>)
        [] s = "index"    -> Do(Assign(Elem(Path("t", "array"), "scalar", Invoke(NoNode, next, <<p>>)), Num))

\* What Main, or a function with a varargs rest it calls, passes to A.
GivenBy(s) ==
  CASE s = "heap"    -> Block(<<Take("v", "array", New("array")), CallTo("A", <<Path("v", "array")>>)>>)
    [] s = "fixed"   -> Block(<<Take("v", "fixed", New("fixed")), CallTo("A", <<Path("v", "fixed")>>)>>)
    [] s = "literal" -> CallTo("A", <<Filled(<<Num>>, "array")>>)
    [] s = "part"    -> Block(<<Take("v", "struct", New("struct")),
                                CallTo("A", <<Field(Path("v", "struct"), "array")>>),
                                CallTo("Reads", <<Field(Path("v", "struct"), "fixed")>>)>>)
    [] s \in {"rest", "restGrown"} -> CallTo("Gather", <<Num, Num>>)
    [] s = "refRest" -> CallTo("Share", <<Num, Num>>)

GrowModule(given, s1, s2, s3) ==
  LET p    == Path(P, "array")
      rest == IF given = "restGrown" THEN CallTo("array_push", <<p, Num>>) ELSE CallTo("A", <<p>>)
  IN <<[Function("Main", <<>>, GivenBy(given)) EXCEPT !.export = TRUE],
       Function("Gather", <<Rest("none")>>, IF given \in {"rest", "restGrown"} THEN rest ELSE Do(Num)),
       Function("Share", <<Rest("ref")>>, IF given = "refRest" THEN rest ELSE Do(Num)),
       Function("A", <<Ref("array")>>, Grow(s1, "B")),
       Function("B", <<Ref("array")>>, Grow(s2, "C")),
       Function("C", <<Ref("array")>>, Grow(s3, "C")),
       Function("Reads", <<ConstRef("array")>>, Do(Num)),
       Method("Sees", <<Ref("array")>>, CallTo("B", <<p>>))>>

-----------------------------------------------------------------------------
Lends == {u \in {"lend"} \X Forms \X Firsts \X Seconds \X Thirds : \A k \in 3..5 : Legal(u[k], u[2])}
Grows == {"grow"} \X Givens \X Growers1 \X Growers2 \X Growers3

MCModules == {LendModule(u[2], u[3], u[4], u[5]) : u \in Lends}
               \cup {GrowModule(u[2], u[3], u[4], u[5]) : u \in Grows}
=============================================================================
