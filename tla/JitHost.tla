------------------------------- MODULE JitHost -------------------------------
(***************************************************************************)
(* The embedding API (src/src/Embed, Codegen/LLVMJit.c, LLVMAot.c): a host *)
(* makes compilers and configures them; a compile parses, builds an LLVM   *)
(* module and turns it into a text, an object file or a JIT handle, and    *)
(* each of its steps may fail.  What is modelled is who owns what: every   *)
(* allocation is a named object of the heap, and every free is of the      *)
(* pointer the code frees.                                                 *)
(*                                                                         *)
(* The vectors BuildLlvmModuleEx forgets (its scopes and symDecls) are not *)
(* among the objects.  The host frees the texts it is given before   *)
(* the next call, passes no NULL compiler and wants the LLVM back end.     *)
(* An import resolver may call the compiler's setters while it answers.    *)
(***************************************************************************)
EXTENDS Naturals, Sequences

CONSTANTS Compilers, Jits,
          Prefixes,     \* the symbol prefixes a host sets, "" for none
          Programs,     \* what programs have: sets of "externs" and "components"
          MaxDirs,      \* bound: import directories of a compiler
          Null          \* the null pointer

ASSUME HostAssumption == /\ "" \in Prefixes
                         /\ Programs \subseteq SUBSET {"externs", "components"}
                         /\ MaxDirs \in Nat
                         /\ Null \notin Compilers \cup Jits \cup {"call"}

VARIABLES heap,         \* the objects allocated and not freed
          misused,      \* whether something not allocated was freed or used
          compilers,    \* of each compiler, its settings, or Null
          jits,         \* of each handle, its fields, or Null
          call          \* the compile in progress, or Null

hostVars == <<heap, misused, compilers, jits, call>>

-----------------------------------------------------------------------------
\* A step uses some pointers, frees some, one after the other, and allocates
\* some objects. free(NULL) does nothing; using NULL is a misuse.
NonNull(ptrs) == ptrs \ {Null}
Gone(freed)   == NonNull({freed[i] : i \in DOMAIN freed})
Twice(freed)  == \E i, j \in DOMAIN freed : i # j /\ freed[i] # Null /\ freed[i] = freed[j]

Heap(used, freed, made) ==
  /\ heap' = (heap \ Gone(freed)) \cup made
  /\ misused' = \/ misused
                \/ ~ (used \cup Gone(freed) \subseteq heap)
                \/ Twice(freed)
                \/ made \cap (heap \ Gone(freed)) # {}

If(condition, object) == IF condition THEN object ELSE Null

Idle == call = Null
Error == <<"text", "error">>                     \* what *errOut is given
HostTexts == {x \in heap : x[1] = "text"}         \* the host's to free

\* The caller of the setters: the host between compiles, or its import resolver.
InHost(c) == compilers[c] # Null /\ IF Idle THEN TRUE ELSE call.pc = "load" /\ call.hosted

-----------------------------------------------------------------------------
\* The compiler and its settings.

DirsOf(c)   == If(compilers[c].dirs > 0, <<"dirs", c, compilers[c].dirs>>)
PrefixOf(c) == If(compilers[c].prefix # "", <<"prefix", c, compilers[c].prefix>>)

Create(c) ==
  /\ Idle /\ compilers[c] = Null
  /\ compilers' = [compilers EXCEPT ![c] = [prefix |-> "", dirs |-> 0, hosted |-> FALSE]]
  /\ Heap({}, <<>>, {<<"compiler", c>>})
  /\ UNCHANGED <<jits, call>>

Destroy(c) ==
  /\ Idle /\ compilers[c] # Null
  /\ Heap({}, <<PrefixOf(c)>> \o [d \in 1..compilers[c].dirs |-> <<"dir", c, d>>]
                              \o <<DirsOf(c), <<"compiler", c>> >>, {})
  /\ compilers' = [compilers EXCEPT ![c] = Null]
  /\ UNCHANGED <<jits, call>>

\* realloc moves the array; the call that cannot grow it changes nothing.
AddImportDir(c) ==
  LET n == compilers[c].dirs + 1
  IN  /\ InHost(c) /\ n <= MaxDirs
      /\ Heap({}, <<DirsOf(c)>>, {<<"dirs", c, n>>, <<"dir", c, n>>})
      /\ compilers' = [compilers EXCEPT ![c].dirs = n]
      /\ UNCHANGED <<jits, call>>

\* An invalid prefix is refused before anything is freed.
SetSymbolPrefix(c, prefix) ==
  /\ InHost(c)
  /\ Heap({}, <<PrefixOf(c)>>, NonNull({If(prefix # "", <<"prefix", c, prefix>>)}))
  /\ compilers' = [compilers EXCEPT ![c].prefix = prefix]
  /\ UNCHANGED <<jits, call>>

SetImportResolver(c, hosted) ==
  /\ InHost(c)
  /\ compilers' = [compilers EXCEPT ![c].hosted = hosted]
  /\ UNCHANGED <<heap, misused, jits, call>>

-----------------------------------------------------------------------------
\* A compile: setup, load and analysis, back end, teardown.

NoBuilt == [mod |-> Null, ctx |-> Null, externs |-> Null, metadata |-> Null]
NoHandle == [self |-> Null, backend |-> Null, exports |-> Null, lljit |-> Null, externs |-> Null,
             metadata |-> Null, diagnostics |-> Null, prefixText |-> Null, prefix |-> "", symbols |-> {}]

\* The module loader keeps its own copy of the resolver and of the directories' array.
InitModuleLoader(op, c, h, loads) ==
  /\ Idle /\ compilers[c] # Null /\ HostTexts = {}
  /\ call' = [op |-> op, c |-> c, h |-> h, pc |-> "load", loads |-> loads, hosted |-> loads /\ compilers[c].hosted,
              dirs |-> DirsOf(c), errors |-> FALSE, mod |-> Null, prefix |-> "", built |-> NoBuilt,
              handle |-> NoHandle, machine |-> Null, triple |-> Null, ir |-> Null, error |-> Null]
  /\ Heap({}, <<>>, {<<"arena", "call">>, <<"diag", "call">>, <<"sources", "call">>})
  /\ UNCHANGED <<compilers, jits>>

\* From a file or through a resolver the program is loaded; a string without one is parsed.
CompileString(c)   == InitModuleLoader("text", c, Null, compilers[c].hosted)
CompileFile(c)     == InitModuleLoader("text", c, Null, TRUE)
CompileToObject(c) == InitModuleLoader("object", c, Null, TRUE)
JitCompileString(c, h) == jits[h] = Null /\ InitModuleLoader("jit", c, h, compilers[c].hosted)
JitCompileFile(c, h)   == jits[h] = Null /\ InitModuleLoader("jit", c, h, TRUE)

Point == {"load", "analyzed", "build", "buildfailed", "print", "result", "target", "emit", "emitted", "handle",
          "machine", "optimize", "lljit", "add", "publish", "loadfailed", "teardown"}

\* What a compile is for, and what the records hold.
Targets == Jits \cup {Null}
Opt(x)  == {Null, x}
CompilerRecords == [prefix : Prefixes, dirs : 0..MaxDirs, hosted : BOOLEAN]
BuiltsOf(h)  == [mod : Opt(<<"module", h>>), ctx : Opt(<<"llcontext", h>>), externs : Opt(<<"names", h>>),
                 metadata : Opt(<<"metadata", h>>)]
HandlesOf(h) == [self : Opt(<<"jit", h>>), backend : Opt(<<"backend", h>>), exports : Opt(<<"exports", h>>),
                 lljit : Opt(<<"lljit", h>>), externs : Opt(<<"externs", h>>), metadata : Opt(<<"metadata", h>>),
                 diagnostics : Opt(<<"diagnostics", h>>), prefixText : Opt(<<"prefixText", h>>),
                 prefix : Prefixes, symbols : SUBSET (Prefixes \X {"f", "e"})]
CallsOf(h) == [op : {"text", "object", "jit"}, c : Compilers, h : {h}, pc : Point, loads : BOOLEAN, hosted : BOOLEAN,
               dirs : {Null} \cup ({"dirs"} \X Compilers \X (0..MaxDirs)), errors : BOOLEAN, mod : Opt(<<"ast", "call">>),
               prefix : Prefixes, built : BuiltsOf(h), handle : HandlesOf(h), machine : Opt(<<"machine", "call">>),
               triple : Opt(<<"triple", "call">>), ir : Opt(<<"ir", "call">>), error : Opt(<<"message", "call">>)]

At(pc) == call # Null /\ call.pc = pc
GoTo(pc) == call' = [call EXCEPT !.pc = pc]

\* A file that cannot be read gives no module; errors of any phase are in the engine.
AnalyzeModule(parsed, errors) ==
  /\ At("load")
  /\ Heap(NonNull({If(call.loads /\ ~call.hosted, call.dirs)}), <<>>, NonNull({If(parsed, <<"ast", "call">>)}))
  /\ call' = [call EXCEPT !.pc = "analyzed", !.errors = errors, !.mod = If(parsed, <<"ast", "call">>),
                          !.prefix = compilers[call.c].prefix]
  /\ UNCHANGED <<compilers, jits>>

Fails == call.errors \/ call.mod = Null

\* JitFromModule and strataCompileToObject give the diagnostics, or go on.
StopAtErrors ==
  /\ At("analyzed") /\ call.op # "text" /\ Fails
  /\ Heap({}, <<>>, {Error})
  /\ GoTo("teardown") /\ UNCHANGED <<compilers, jits>>

Continue ==
  /\ At("analyzed") /\ ~Fails
  /\ \/ GoTo("build")
     \/ call.op = "text" /\ GoTo("result")        \* the dump of the tree, or an unknown kind
  /\ UNCHANGED <<heap, misused, compilers, jits>>

SkipOutput == At("analyzed") /\ call.op = "text" /\ Fails /\ GoTo("result") /\ UNCHANGED <<heap, misused, compilers, jits>>

\* A module with externs has their names, one with components the types' metadata. The text
\* is made with no prefix.
BuildLlvmModuleEx(has, errors) ==
  LET built == [mod |-> <<"module", call.h>>, ctx |-> <<"llcontext", call.h>>,
                externs |-> If("externs" \in has, <<"names", call.h>>),
                metadata |-> If("components" \in has, <<"metadata", call.h>>)]
  IN  /\ At("build")
      /\ Heap(NonNull({If(call.op # "text", PrefixOf(call.c))}), <<>>, NonNull({built.mod, built.ctx, built.externs, built.metadata}))
      /\ call' = [call EXCEPT !.built = built, !.errors = errors,
                              !.pc = IF call.op = "text" THEN "print" ELSE IF errors THEN "buildfailed"
                                     ELSE IF call.op = "jit" THEN "handle" ELSE "target"]
      /\ UNCHANGED <<compilers, jits>>

BuiltModuleDispose(built) == <<built.mod, built.ctx, built.externs, built.metadata>>

BuildFailed ==
  /\ At("buildfailed")
  /\ Heap({}, BuiltModuleDispose(call.built), {Error})
  /\ call' = [call EXCEPT !.pc = "teardown", !.built = NoBuilt]
  /\ UNCHANGED <<compilers, jits>>

TeardownCompile ==
  /\ At("teardown")
  /\ Heap({}, <<call.mod, <<"sources", "call">>, <<"diag", "call">>, <<"arena", "call">> >>, {})
  /\ jits' = IF call.handle = NoHandle THEN jits ELSE [jits EXCEPT ![call.h] = call.handle]
  /\ call' = Null
  /\ UNCHANGED compilers

-----------------------------------------------------------------------------
\* Text: GenerateLlvmIr prints the module, BuildResult copies the text.

GenerateLlvmIr ==
  /\ At("print")
  /\ Heap(NonNull({If(~call.errors, call.built.mod)}), BuiltModuleDispose(call.built), {<<"ir", "call">>})
  /\ call' = [call EXCEPT !.pc = "result", !.built = NoBuilt, !.ir = <<"ir", "call">>]
  /\ UNCHANGED <<compilers, jits>>

BuildResult ==
  /\ At("result")
  /\ Heap(NonNull({call.ir}), <<call.ir>>, {<<"text", "output">>, <<"text", "diagnostics">>})
  /\ call' = [call EXCEPT !.pc = "teardown", !.ir = Null]
  /\ UNCHANGED <<compilers, jits>>

ResultFree ==
  /\ Idle /\ <<"text", "output">> \in heap
  /\ Heap({}, << <<"text", "output">>, <<"text", "diagnostics">> >>, {})
  /\ UNCHANGED <<compilers, jits, call>>

FreeError == Idle /\ Error \in heap /\ Heap({}, <<Error>>, {}) /\ UNCHANGED <<compilers, jits, call>>

-----------------------------------------------------------------------------
\* Object files: EmitNativeFile, for the host's target or a named one. The
\* default triple is disposed on both of its ways out.

EmitTarget(named, ok) ==
  LET triple == If(named, <<"triple", "call">>)
      next   == If(ok, <<"machine", "call">>)
      error  == If(~ok, <<"message", "call">>)
  IN  /\ At("target")
      /\ Heap({call.built.mod}, <<>>, NonNull({triple, next, error}))
      /\ call' = [call EXCEPT !.pc = IF ok THEN "emit" ELSE "emitted", !.triple = triple, !.machine = next, !.error = error]
      /\ UNCHANGED <<compilers, jits>>

EmitToFile(ok) ==
  LET error == If(~ok, <<"message", "call">>)
  IN  /\ At("emit")
      /\ Heap({call.built.mod}, <<call.machine>>, NonNull({error}))
      /\ call' = [call EXCEPT !.pc = "emitted", !.machine = Null, !.error = error]
      /\ UNCHANGED <<compilers, jits>>

EmitDone ==
  /\ At("emitted")
  /\ Heap({}, <<call.triple, call.error>> \o BuiltModuleDispose(call.built), NonNull({If(call.error # Null, Error)}))
  /\ call' = [call EXCEPT !.pc = "teardown", !.triple = Null, !.error = Null, !.built = NoBuilt]
  /\ UNCHANGED <<compilers, jits>>

-----------------------------------------------------------------------------
\* JIT: JitFromModuleLlvm makes the handle and LLVMJitLoad fills its back end.

\* Of the functions "f" has the prefix, "e" is an @export and keeps its C name.
SymbolsUnder(prefix) == {<<prefix, "f">>, <<"", "e">>}

\* The names of the externs are copied into the back end before anything can fail.
JitCopyExternSymbols == If(call.built.externs # Null, <<"externs", call.h>>)

NewHandle ==
  LET externs == JitCopyExternSymbols
      handle  == [NoHandle EXCEPT !.self = <<"jit", call.h>>, !.exports = <<"exports", call.h>>,
                                  !.backend = <<"backend", call.h>>, !.externs = externs,
                                  !.symbols = SymbolsUnder(call.prefix)]
  IN  /\ At("handle")
      /\ Heap({call.mod} \cup NonNull({call.built.externs}), <<>>, NonNull({handle.self, handle.exports, handle.backend, externs}))
      /\ call' = [call EXCEPT !.pc = "machine", !.handle = handle]
      /\ UNCHANGED <<compilers, jits>>

LoadFails == [call EXCEPT !.pc = "loadfailed", !.error = <<"message", "call">>]

\* A failed load disposes of the module and its context, and forgets them.
DisposeBuiltModuleOnError == <<call.built.mod, call.built.ctx>>
WithoutModule(built) == [built EXCEPT !.mod = Null, !.ctx = Null]

\* The machine, or why there is none; the target may be unknown, or the machine refused.
CreateHostTargetMachine(ok) == IF ok THEN <<"machine", "call">> ELSE <<"message", "call">>

JitCreateTargetMachine(ok) ==
  /\ At("machine")
  /\ IF ok THEN /\ Heap({call.built.mod}, <<>>, {CreateHostTargetMachine(ok)})
                /\ call' = [call EXCEPT !.pc = "optimize", !.machine = CreateHostTargetMachine(ok)]
           ELSE /\ Heap({}, DisposeBuiltModuleOnError, {CreateHostTargetMachine(ok)})
                /\ call' = [LoadFails EXCEPT !.built = WithoutModule(@)]
  /\ UNCHANGED <<compilers, jits>>

\* A bug: the target machine is not disposed when the passes fail.
PipelineKeepingMachine(ok) ==
  /\ At("optimize")
  /\ IF ok THEN Heap({call.machine, call.built.mod}, <<>>, {}) /\ GoTo("lljit")
           ELSE /\ Heap({}, DisposeBuiltModuleOnError, {<<"message", "call">>})
                /\ call' = [LoadFails EXCEPT !.built = WithoutModule(@), !.machine = Null]
  /\ UNCHANGED <<compilers, jits>>

JitRunOptimizationPipeline(ok) ==
  /\ At("optimize")
  /\ IF ok THEN Heap({call.machine, call.built.mod}, <<>>, {}) /\ GoTo("lljit")
           ELSE /\ Heap({}, <<call.machine>> \o DisposeBuiltModuleOnError, {<<"message", "call">>})
                /\ call' = [LoadFails EXCEPT !.built = WithoutModule(@), !.machine = Null]
  /\ UNCHANGED <<compilers, jits>>

\* The builder takes the target machine, whether it succeeds or not.
JitCreateLLJIT(ok) ==
  /\ At("lljit")
  /\ IF ok THEN /\ Heap({}, <<call.machine>>, {<<"lljit", call.h>>})
                /\ call' = [call EXCEPT !.pc = "add", !.machine = Null, !.handle.lljit = <<"lljit", call.h>>]
           ELSE /\ Heap({}, <<call.machine>> \o DisposeBuiltModuleOnError, {<<"message", "call">>})
                /\ call' = [LoadFails EXCEPT !.built = WithoutModule(@), !.machine = Null]
  /\ UNCHANGED <<compilers, jits>>

\* A bug: the disposed session stays in the handle that is destroyed next.
AddModuleKeepingSession(ok) ==
  /\ At("add")
  /\ IF ok THEN /\ Heap({call.handle.lljit}, DisposeBuiltModuleOnError, {})
                /\ call' = [call EXCEPT !.pc = "publish", !.built = WithoutModule(@)]
           ELSE /\ Heap({}, DisposeBuiltModuleOnError \o <<call.handle.lljit>>, {<<"message", "call">>})
                /\ call' = [LoadFails EXCEPT !.built = WithoutModule(@)]
  /\ UNCHANGED <<compilers, jits>>

\* The session takes the module and its context; when it refuses them it is disposed.
JitAddModule(ok) ==
  /\ At("add")
  /\ IF ok THEN /\ Heap({call.handle.lljit}, DisposeBuiltModuleOnError, {})
                /\ call' = [call EXCEPT !.pc = "publish", !.built = WithoutModule(@)]
           ELSE /\ Heap({}, DisposeBuiltModuleOnError \o <<call.handle.lljit>>, {<<"message", "call">>})
                /\ call' = [LoadFails EXCEPT !.built = WithoutModule(@), !.handle.lljit = Null]
  /\ UNCHANGED <<compilers, jits>>

LLVMJitDestroy(handle) == <<handle.lljit, handle.externs, handle.backend>>

LoadFailed ==
  /\ At("loadfailed")
  /\ Heap({call.error}, <<call.error>> \o LLVMJitDestroy(call.handle) \o BuiltModuleDispose(call.built)
                        \o <<call.handle.exports, call.handle.self>>, {Error})
  /\ call' = [call EXCEPT !.pc = "teardown", !.error = Null, !.built = NoBuilt, !.handle = NoHandle]
  /\ UNCHANGED <<compilers, jits>>

\* The metadata moves to the handle; the prefix and the diagnostics are copied.
Publish ==
  LET handle == [call.handle EXCEPT !.metadata = call.built.metadata, !.diagnostics = <<"diagnostics", call.h>>,
                                    !.prefix = call.prefix, !.prefixText = If(call.prefix # "", <<"prefixText", call.h>>)]
  IN  /\ At("publish")
      /\ Heap(NonNull({PrefixOf(call.c)}), BuiltModuleDispose([call.built EXCEPT !.metadata = Null]),
              NonNull({handle.diagnostics, handle.prefixText}))
      /\ call' = [call EXCEPT !.pc = "teardown", !.built = NoBuilt, !.handle = handle]
      /\ UNCHANGED <<compilers, jits>>

LLVMJitGetAddress(h, symbol) == If(symbol \in jits[h].symbols, symbol)

\* A bug: only the prefixed symbol is looked up.
GetPrefixedFunction(h, name) == LLVMJitGetAddress(h, <<jits[h].prefix, name>>)

\* The prefixed symbol first, then the name as it is.
GetFunction(h, name) ==
  LET prefixed == LLVMJitGetAddress(h, <<jits[h].prefix, name>>)
  IN  IF jits[h].prefix # "" /\ prefixed # Null THEN prefixed ELSE LLVMJitGetAddress(h, <<"", name>>)

JitDestroy(h) ==
  /\ Idle /\ jits[h] # Null
  /\ Heap({}, LLVMJitDestroy(jits[h]) \o <<jits[h].exports, jits[h].diagnostics, jits[h].prefixText,
                                           jits[h].metadata, jits[h].self>>, {})
  /\ jits' = [jits EXCEPT ![h] = Null]
  /\ UNCHANGED <<compilers, call>>
=============================================================================
