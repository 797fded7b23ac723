------------------------------ MODULE MonoRun ------------------------------
(***************************************************************************)
(* A run of the expansion (Monomorphize of src/src/Sema/Monomorphize.c):    *)
(* the templates are collected, then each declaration of the work list is   *)
(* rewritten, the last one listed first, until none is left.                *)
(*                                                                          *)
(* A program is a record of declarations; a method is listed among the      *)
(* functions too.                                                           *)
(***************************************************************************)
EXTENDS GenericMeaning
LOCAL INSTANCE SequencesExt
LOCAL INSTANCE FiniteSetsExt

CONSTANT Programs

VARIABLES program, mono, phase

vars == <<program, mono, phase>>

-----------------------------------------------------------------------------
\* The module before the expansion: a heap of declarations, and where they are in it.

Lists == <<"structs", "impls", "functions", "globals", "enums", "delegates">>
DeclsIn(p, list) == IF list = "functions" THEN FlattenSeq([i \in DOMAIN p.impls |-> p.impls[i].methods]) \o p.functions
                    ELSE p[list]
SizeBefore(p, k) == FoldLeft(LAMBDA n, list : n + Len(DeclsIn(p, list)), 0, SubSeq(Lists, 1, k - 1))
IndicesOf(p, k)  == [i \in DOMAIN DeclsIn(p, Lists[k]) |-> SizeBefore(p, k) + i]

\* The flag that the code leaves unset is any boolean.
NewMono(p, flag) ==
  [heap |-> FlattenSeq([k \in DOMAIN Lists |-> DeclsIn(p, Lists[k])]),
   structs |-> IndicesOf(p, 1), impls |-> IndicesOf(p, 2), functions |-> IndicesOf(p, 3),
   globals |-> IndicesOf(p, 4), enums |-> IndicesOf(p, 5), delegates |-> IndicesOf(p, 6),
   handles |-> p.handles, pending |-> <<>>, structTemplates |-> <<>>, functionTemplates |-> <<>>,
   implTemplates |-> <<>>, methodTemplates |-> <<>>, methodNames |-> {}, methodInstances |-> {},
   metaFunctions |-> <<>>, metaCalls |-> 0, depths |-> {}, count |-> 0, stopped |-> FALSE,
   inInstance |-> flag, scopes |-> <<>>, errors |-> {}]

-----------------------------------------------------------------------------
\* Collecting.

AddErrors(m, whats) == [m EXCEPT !.errors = @ \cup whats]
ErrorsIf(bad, what) == IF bad THEN {what} ELSE {}
ErrorsOf(ds, Bad(_), what) == ErrorsIf(\E i \in DOMAIN ds : Bad(ds[i]), what)

\* The first template of a name counts.
CollectStructTemplates(m) ==
  LET taken == FoldLeft(LAMBDA acc, sd :
                          IF IsPlain(sd) THEN acc
                          ELSE IF IsStructTemplate(acc, sd.name) THEN Report(acc, "redefinition")
                          ELSE [acc EXCEPT !.structTemplates = Append(@, sd)],
                        AddErrors(m, ErrorsOf(DeclsOf(m, "structs"), LAMBDA sd : sd.name = Leaf("type"), "reserved")),
                        DeclsOf(m, "structs"))
  IN  [taken EXCEPT !.structs = SelectSeq(@, LAMBDA i : IsPlain(m.heap[i]))]

\* What is wrong with an impl. One that binds parameters no struct has stays in the module.
ImplMismatch(m, impl) ==
  IF IsPlain(impl) THEN ErrorsIf(IsStructTemplate(m, impl.name), "generic impl needed")
  ELSE IF ~IsStructTemplate(m, impl.name) THEN {"not a generic struct"}
  ELSE ErrorsIf(Len(FirstNamed(m.structTemplates, impl.name).tparams) # Len(impl.tparams), "number of type parameters")
ImplErrors(impl) == ErrorsIf(impl.types # <<>>, "property in a generic impl")
                    \cup ErrorsOf(impl.methods, LAMBDA fn : fn.isExtern, "extern method in a generic impl")

CollectImplTemplates(m) ==
  LET impls == DeclsOf(m, "impls")
      moves(impl) == IsGeneric(impl) /\ ImplMismatch(m, impl) = {}
      moved == SelectSeq(impls, moves)
  IN  [m EXCEPT !.implTemplates = moved,
                !.impls = SelectSeq(@, LAMBDA i : ~moves(m.heap[i])),
                !.methodNames = UNION {{fn.method : fn \in {f \in ToSet(impl.methods) : IsGeneric(f)}} : impl \in ToSet(moved)},
                !.errors = @ \cup UNION {ImplMismatch(m, impl) : impl \in ToSet(impls)}
                             \cup UNION {ImplErrors(impl) : impl \in ToSet(moved)}]

CollectPlainMethodTemplates(m) == FoldLeft(TakeMethodTemplates, m, m.impls)

\* The methods of generic structs and the generic methods are not functions of the module.
IsMethodTemplate(m, fn) ==
  fn.handle # NoType /\ (IsGeneric(fn) \/ \E i \in DOMAIN m.implTemplates : Contains(m.implTemplates[i].methods, fn))
CollectFunctionTemplates(m) ==
  LET generic == SelectSeq(DeclsOf(m, "functions"), LAMBDA fn : IsGeneric(fn) /\ fn.handle = NoType)
      taken == FoldLeft(LAMBDA acc, fn :
                          IF HasNamed(acc.functionTemplates, fn.name) THEN Report(acc, "overloaded generic function")
                          ELSE IF IsStructTemplate(acc, fn.name) \/ PlainStructNamed(acc, fn.name)
                          THEN Report(acc, "function named as a struct")
                          ELSE [acc EXCEPT !.functionTemplates = Append(@, fn)], m, generic)
  IN  [taken EXCEPT !.functions = SelectSeq(@, LAMBDA i : IsPlain(m.heap[i]) /\ ~IsMethodTemplate(m, m.heap[i]))]

CheckPlainNames(m) ==
  LET clash(fn) == /\ fn.handle = NoType
                   /\ HasNamed(m.functionTemplates, fn.name) \/ IsStructTemplate(m, fn.name)
  IN  AddErrors(m, ErrorsOf(DeclsOf(m, "functions"), clash, "named as a template")
                   \cup ErrorsOf(DeclsOf(m, "structs"), LAMBDA sd : IsStructTemplate(m, sd.name), "redefinition")
                   \cup ErrorsOf(DeclsOf(m, "enums"), LAMBDA ed : ed.name = Leaf("type"), "reserved")
                   \cup ErrorsIf(Leaf("type") \in m.handles, "reserved"))

RECURSIVE MentionsTypeKeyword(_)
MentionsTypeKeyword(t) == t = Leaf("type") \/ \E i \in DOMAIN t.args : MentionsTypeKeyword(t.args[i])

\* Templates are not rewritten, so their declarations are checked here. One that is wrong
\* stops the expansion: an instance does not report it again.
DeclaredTypes(d) == IF d.k = "function" THEN d.types \o [i \in DOMAIN ParamsOf(d) |-> ParamsOf(d)[i].types[1]]
                    ELSE [i \in DOMAIN d.kids |-> ReturnType(d.kids[i])]
IsMovedTemplate(m, d) == \/ d.k = "struct" /\ IsGeneric(d)
                         \/ d.k = "function" /\ (IsGeneric(d) \/ IsMethodTemplate(m, d))
CheckTemplateTypeKeyword(m) ==
  LET wrong(d) == /\ IsMovedTemplate(m, d)
                  /\ \E i \in DOMAIN DeclaredTypes(d) : MentionsTypeKeyword(DeclaredTypes(d)[i])
      found == ErrorsOf(m.heap, wrong, "type outside meta functions")
  IN  [AddErrors(m, found) EXCEPT !.stopped = @ \/ found # {}]

WithMetaFunctions(m, fns) ==
  With(CollectMetaFunctions(fns), LAMBDA c : [AddErrors(m, c.errors) EXCEPT !.metaFunctions = c.known])

\* Every concrete declaration is rewritten once.
PushAll(m) == [m EXCEPT !.pending = FlattenSeq([k \in DOMAIN Lists |-> m[Lists[k]]])]

Collected(m, p) ==
  PushAll(CheckTemplateTypeKeyword(WithMetaFunctions(CheckPlainNames(CollectFunctionTemplates(
    CollectPlainMethodTemplates(CollectImplTemplates(CollectStructTemplates(m))))), p.metas)))

-----------------------------------------------------------------------------
Init == /\ program \in Programs
        /\ \E flag \in BOOLEAN : mono = NewMono(program, flag)
        /\ phase = "collect"

Collect == /\ phase = "collect"
           /\ mono' = Collected(mono, program)
           /\ phase' = "rewrite"
           /\ UNCHANGED program

\* The last declaration listed is taken and rewritten.
Taken          == [mono EXCEPT !.pending = Front(@)]
Replaced(i, r) == [r.m EXCEPT !.heap[i] = r.n]
RewriteNext ==
  /\ phase = "rewrite" /\ mono.pending # <<>>
  /\ mono' = LET i == mono.pending[Len(mono.pending)] IN Replaced(i, Rewrite(Taken, mono.heap[i]))
  /\ UNCHANGED <<program, phase>>

Finished == phase = "rewrite" /\ mono.pending = <<>>
Stay     == Finished /\ UNCHANGED vars

Next == Collect \/ RewriteNext \/ Stay
Spec == Init /\ [][Next]_vars

-----------------------------------------------------------------------------
\* Properties.

ListedDecls == UNION {ToSet(mono[list]) : list \in ToSet(Lists)}
Complete    == Finished /\ mono.errors = {}
Once(is)    == \A i, j \in DOMAIN is : is[i] = is[j] => i = j

\* Between two steps no scope is open, nothing waits twice, everything that waits is listed
\* in the module, and no two instances of a struct or of a function have one name.
TypeOK ==
  /\ phase \in {"collect", "rewrite"} /\ mono.scopes = <<>> /\ mono.inInstance \in BOOLEAN
  /\ ToSet(mono.pending) \subseteq ListedDecls /\ Once(mono.pending)
  /\ \A list \in {"structs", "functions"} :
        LET named == SelectSeq(DeclsOf(mono, list), LAMBDA d : d.name.k = "inst")
        IN  Once([i \in DOMAIN named |-> named[i].name])

\* An expansion that reports nothing gives each declaration, instances included, the fields,
\* parameters and body its template has when it is read in one pass with the type arguments
\* in place: types inferred at each call, branches decided by meta calls, null tests and the
\* length of a pack, elements picked by the turn of the loop they name.
BodiesAgree ==
  Complete => \A i \in ListedDecls : mono.heap[i].k = "impl"
                                     \/ Shape(mono.heap[i]) \in Meanings(program, mono.methodInstances, mono.heap[i])

RECURSIVE PartsOf(_)
PartsOf(t) == {t} \cup UNION {PartsOf(t.args[i]) : i \in DOMAIN t.args}
RECURSIVE NodesOf(_)
NodesOf(n) == {n} \cup UNION {NodesOf(n.kids[i]) : i \in DOMAIN n.kids}
NamesIn(d) == UNION {UNION {PartsOf(t) : t \in ToSet(n.types) \cup (IF n = d THEN {} ELSE {n.name})} : n \in NodesOf(d)}

\* The methods of a struct instance are made with it; a method instance is for those who call it.
NamedBy(d, names) ==
  IF d.name.k = "method" THEN \/ d.name.args[2] \in names
                              \/ d.name.args[1] \in names /\ d.name.args[2].k = "leaf"
  ELSE d.name \in names
RECURSIVE Reached(_)
Reached(is) ==
  LET names == UNION {NamesIn(mono.heap[i]) : i \in is}
      next == is \cup {i \in ListedDecls : NamedBy(mono.heap[i], names)}
  IN  IF next = is THEN is ELSE Reached(next)
WrittenDecls == {i \in ListedDecls : i <= SizeBefore(program, Len(Lists) + 1)}

\* What is left for type checking holds no use of a template, no meta call and no pack; every
\* instance that is named is there; and every instance that is there is named by what is
\* written, directly or through instances: nothing is made for a branch that was dropped.
ClosedWorld ==
  Complete =>
    /\ \A i \in ListedDecls :
          /\ \A n \in NodesOf(mono.heap[i]) : n.k \notin {"meta", "expand"}
          /\ \A t \in NamesIn(mono.heap[i]) :
                /\ t.k \notin {"use", "pack"}
                /\ t.k = "inst" => \E j \in ListedDecls : NamedBy(mono.heap[j], {t})
    /\ {i \in ListedDecls : mono.heap[i].k # "impl"} \subseteq Reached(WrittenDecls)

\* How deep the type arguments of a canonical name are nested.
RECURSIVE Nesting(_)
Nesting(t) == (IF t.k = "inst" THEN 1 ELSE 0) + FoldLeft(LAMBDA d, a : Deeper(d, Nesting(a)), 0, t.args)

\* A recursive template is cut off at the nesting of its instances, however many expansions
\* lie between two uses: the depth recorded is that of the whole name, no instance is deeper
\* or named longer than the limits, and as many are there as are counted.
CutOff ==
  /\ \A d \in mono.depths : d[2] = Nesting(d[1]) /\ d[2] <= MaxDepth /\ SpelledNames(d[1]) <= MaxName
  /\ {d[1] : d \in mono.depths} = {sd.name : sd \in {s \in ToSet(DeclsOf(mono, "structs")) : s.name.k = "inst"}}
  /\ mono.count <= MaxInstances
  /\ mono.count = Cardinality(mono.depths) + Cardinality(mono.methodInstances)
                  + Cardinality({i \in ToSet(mono.functions) : mono.heap[i].name.k = "inst"})
=============================================================================
