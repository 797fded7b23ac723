----------------------------- MODULE JitContexts -----------------------------
(***************************************************************************)
(* The contexts of a JIT handle (src/src/Codegen/Builder/Module.c): each is *)
(* one instance of the module's globals.  The generated create function    *)
(* fills them in declaration order, destroy drops them in reverse, and the *)
(* newest context is the one @export bodies run against.  An initializer   *)
(* and a drop method may call an extern, whose host function may use the   *)
(* contexts and the settings before it returns; it does not compile.       *)
(*                                                                         *)
(* The host keeps its word (include/strata/strata.h): it destroys each     *)
(* context once, before its handle, and calls an @export function only     *)
(* while the bound context is neither being made nor being destroyed.      *)
(***************************************************************************)
EXTENDS JitHost

CONSTANTS Contexts,
          Globals       \* the module's globals, in order

ASSUME GlobalsAssumption == Globals \in Seq({"owning", "manifest", "scalar"})

VARIABLES contexts,     \* of each context, its handle and the value of each global, or Null
          bound,        \* of each handle, the context its @export bodies see
          running       \* the create and destroy functions that run, the innermost last

vars == <<heap, misused, compilers, jits, call, contexts, bound, running>>
contextVars == <<contexts, bound, running>>

-----------------------------------------------------------------------------
Owning == {i \in DOMAIN Globals : Globals[i] = "owning"}
Value(k, i) == <<"value", k, i>>

\* The generated functions are code of the handle's session.
Code(k) == jits[contexts[k].h].lljit

\* A context: its handle, and of each global its value.
Values == {Null} \cup {Value(k, i) : k \in Contexts, i \in Owning}
ContextRecords == [h : Jits, field : [DOMAIN Globals -> Values]]
ASSUME NullAssumption == Null \notin ContextRecords

\* A manifest constant has no field; a module without fields has stub functions.
ClassifyGlobal(i) == Globals[i] # "manifest"
HasInstancedGlobals == \E i \in DOMAIN Globals : ClassifyGlobal(i)

Innermost == running[Len(running)]
Return == SubSeq(running, 1, Len(running) - 1)
Step(next) == [running EXCEPT ![Len(running)].next = next]
OnStack(k) == \E n \in DOMAIN running : running[n].k = k

\* A handle whose code runs, or whose contexts live, may not be destroyed.
InUse(h) == \E k \in Contexts : contexts[k] # Null /\ contexts[k].h = h

ContextCreate(h, k) ==
  /\ Idle /\ jits[h] # Null /\ contexts[k] = Null /\ HasInstancedGlobals
  /\ Heap({jits[h].lljit}, <<>>, {<<"context", k>>})
  /\ contexts' = [contexts EXCEPT ![k] = [h |-> h, field |-> [i \in DOMAIN Globals |-> Null]]]
  /\ bound' = [bound EXCEPT ![h] = k]
  /\ running' = Append(running, [k |-> k, does |-> "create", next |-> 1])
  /\ UNCHANGED <<compilers, jits, call>>

\* An owning global's value is built, or taken from a call; the others are stored.
InitContextGlobal ==
  LET k == Innermost.k
      i == Innermost.next
  IN  /\ Idle /\ running # <<>> /\ Innermost.does = "create" /\ i <= Len(Globals)
      /\ IF i \in Owning
         THEN /\ Heap({Code(k), <<"context", k>>}, <<>>, {Value(k, i)})
              /\ contexts' = [contexts EXCEPT ![k].field[i] = Value(k, i)]
         ELSE UNCHANGED <<heap, misused, contexts>>
      /\ running' = Step(i + 1)
      /\ UNCHANGED <<compilers, jits, call, bound>>

EndCreate ==
  /\ Idle /\ running # <<>> /\ Innermost.does = "create" /\ Innermost.next > Len(Globals)
  /\ running' = Return
  /\ UNCHANGED <<hostVars, contexts, bound>>

ContextDestroy(k) ==
  /\ Idle /\ contexts[k] # Null /\ ~OnStack(k)
  /\ running' = Append(running, [k |-> k, does |-> "destroy", next |-> Len(Globals)])
  /\ UNCHANGED <<hostVars, contexts, bound>>

\* The field is nulled before the value's own drop method runs.
DropContextGlobal ==
  LET k == Innermost.k
      i == Innermost.next
  IN  /\ Idle /\ running # <<>> /\ Innermost.does = "destroy" /\ i > 0
      /\ IF i \in Owning
         THEN /\ Heap({Code(k), <<"context", k>>}, <<contexts[k].field[i]>>, {})
              /\ contexts' = [contexts EXCEPT ![k].field[i] = Null]
         ELSE UNCHANGED <<heap, misused, contexts>>
      /\ running' = Step(i - 1)
      /\ UNCHANGED <<compilers, jits, call, bound>>

\* A bug: the context that is freed stays bound.
EndDestroyStillBound ==
  /\ Idle /\ running # <<>> /\ Innermost.does = "destroy" /\ Innermost.next = 0
  /\ Heap({Code(Innermost.k)}, <<<<"context", Innermost.k>>>>, {})
  /\ contexts' = [contexts EXCEPT ![Innermost.k] = Null]
  /\ running' = Return
  /\ UNCHANGED <<compilers, jits, call, bound>>

\* The context is unbound, if it is still the bound one, and freed.
EndDestroy ==
  LET k == Innermost.k
      h == contexts[k].h
  IN  /\ Idle /\ running # <<>> /\ Innermost.does = "destroy" /\ Innermost.next = 0
      /\ bound' = [bound EXCEPT ![h] = IF @ = k THEN Null ELSE @]
      /\ Heap({Code(k)}, <<<<"context", k>>>>, {})
      /\ contexts' = [contexts EXCEPT ![k] = Null]
      /\ running' = Return
      /\ UNCHANGED <<compilers, jits, call>>

\* A function run against a context replaces the value of an owning global, by
\* an empty one or one of its own.
SetGlobal(k, i, value) ==
  /\ Heap({Code(k), <<"context", k>>}, <<contexts[k].field[i]>>, NonNull({value}))
  /\ contexts' = [contexts EXCEPT ![k].field[i] = value]
  /\ UNCHANGED <<compilers, jits, call, bound, running>>

Call(k, i, value) ==
  Idle /\ contexts[k] # Null /\ ~OnStack(k) /\ SetGlobal(k, i, value)

\* An @export body has no context parameter: it loads the bound context.
ExportCall(h, i, empty) ==
  /\ Idle /\ jits[h] # Null /\ bound[h] # Null /\ ~OnStack(bound[h])
  /\ SetGlobal(bound[h], i, If(~empty, Value(bound[h], i)))

-----------------------------------------------------------------------------
Init ==
  /\ heap = {} /\ misused = FALSE /\ call = Null
  /\ compilers = [c \in Compilers |-> Null]
  /\ jits = [h \in Jits |-> Null]
  /\ contexts = [k \in Contexts |-> Null]
  /\ bound = [h \in Jits |-> Null]
  /\ running = <<>>

Settings ==
  \E c \in Compilers :
    \/ Create(c) \/ Destroy(c) \/ AddImportDir(c)
    \/ \E prefix \in Prefixes : SetSymbolPrefix(c, prefix)
    \/ \E hosted \in BOOLEAN : SetImportResolver(c, hosted)

Start ==
  \E c \in Compilers :
    /\ compilers[c] # Null /\ running = <<>>
    /\ \/ CompileString(c) \/ CompileFile(c) \/ CompileToObject(c)
       \/ \E h \in Jits : JitCompileString(c, h) \/ JitCompileFile(c, h)

FrontEnd ==
  \/ \E parsed, errors \in BOOLEAN : AnalyzeModule(parsed, errors)
  \/ StopAtErrors \/ Continue \/ SkipOutput \/ TeardownCompile

BackEnd ==
  \/ \E has \in Programs, errors \in BOOLEAN : BuildLlvmModuleEx(has, errors)
  \/ BuildFailed \/ GenerateLlvmIr \/ BuildResult
  \/ \E named, ok \in BOOLEAN : EmitTarget(named, ok)
  \/ \E ok \in BOOLEAN : EmitToFile(ok)
  \/ EmitDone

Load ==
  \/ NewHandle \/ LoadFailed \/ Publish
  \/ \E ok \in BOOLEAN : JitCreateTargetMachine(ok) \/ JitRunOptimizationPipeline(ok) \/ JitCreateLLJIT(ok)
                         \/ JitAddModule(ok)

Release == ResultFree \/ FreeError \/ \E h \in Jits : ~InUse(h) /\ JitDestroy(h)

Generated ==
  \/ \E h \in Jits, k \in Contexts : ContextCreate(h, k)
  \/ InitContextGlobal \/ EndCreate \/ DropContextGlobal \/ EndDestroy
  \/ \E k \in Contexts : ContextDestroy(k)
  \/ \E i \in Owning, k \in Contexts : \E value \in {Null, Value(k, i)} : Call(k, i, value)
  \/ \E i \in Owning, h \in Jits, empty \in BOOLEAN : ExportCall(h, i, empty)

Host == (Settings \/ Start \/ FrontEnd \/ BackEnd \/ Load \/ Release) /\ UNCHANGED contextVars

Next == Host \/ Generated

Spec == Init /\ [][Next]_vars

-----------------------------------------------------------------------------
\* Nothing is freed twice, used after it was freed, or overwritten while it is
\* the only reference to an object, whichever steps of a compile fail and
\* whatever the host does between them.
MemorySafe == ~misused

\* Between calls the heap holds what the compilers, the handles, the contexts and
\* the texts the host was given own, and nothing else: a compile that failed half
\* way has given back all it had.
CompilerOwns(c) == {<<"compiler", c>>, PrefixOf(c), DirsOf(c)} \cup {<<"dir", c, d>> : d \in 1..compilers[c].dirs}
HandleOwns(h)   == {jits[h].self, jits[h].backend, jits[h].exports, jits[h].lljit, jits[h].externs, jits[h].metadata,
                    jits[h].diagnostics, jits[h].prefixText}
ContextOwns(k)  == {<<"context", k>>} \cup {contexts[k].field[i] : i \in Owning}

Owned == (UNION {CompilerOwns(c) : c \in {c \in Compilers : compilers[c] # Null}})
         \cup (UNION {HandleOwns(h) : h \in {h \in Jits : jits[h] # Null}})
         \cup (UNION {ContextOwns(k) : k \in {k \in Contexts : contexts[k] # Null}})

NothingLeaks == Idle => heap \ HostTexts = Owned \ {Null}

\* An @export body never sees a context that is gone, or one of another handle,
\* in whatever order contexts are made and destroyed, also from inside one another.
ExportBound == \A h \in Jits : bound[h] # Null => contexts[bound[h]] # Null /\ contexts[bound[h]].h = h

\* Every function of a handle is found by the name its source gives it, under the
\* prefix it was compiled with, whatever the compiler's prefix has become.
LookupFinds ==
  \A h \in {h \in Jits : jits[h] # Null} :
    \A symbol \in jits[h].symbols : GetFunction(h, symbol[2]) = symbol
=============================================================================
