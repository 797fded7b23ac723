------------------------------- MODULE JitInv --------------------------------
(***************************************************************************)
(* Why nothing of the embedding API is lost or used when gone: the         *)
(* inductive invariant behind MemorySafe, NothingLeaks and LookupFinds     *)
(* (module JitContexts).  It says of each kind of object when one is in    *)
(* the heap, and of each point of a compile which pointers it holds.       *)
(***************************************************************************)
EXTENDS JitContexts

-----------------------------------------------------------------------------
\* The objects, by kind.  An object is told from the others by its kind and
\* what it belongs to: a compiler, a handle or the compile for it, the compile
\* in progress, a context, the host.

CompilerKinds == {"compiler", "prefix", "dirs", "dir"}
HandleKinds   == {"jit", "backend", "exports", "lljit", "externs", "metadata", "diagnostics", "prefixText",
                  "module", "llcontext", "names"}
CallKinds     == {"arena", "diag", "sources", "ast", "ir", "machine", "triple", "message"}
ContextKinds  == {"context", "value"}

CompilerObjects == ({"compiler"} \X Compilers) \cup ({"prefix"} \X Compilers \X Prefixes)
                   \cup ({"dirs", "dir"} \X Compilers \X (0..MaxDirs))
HandleObjects   == HandleKinds \X Targets
CallObjects     == CallKinds \X {"call"}
ContextObjects  == ({"context"} \X Contexts) \cup ({"value"} \X Contexts \X (DOMAIN Globals))
TextObjects     == {"text"} \X {"error", "output", "diagnostics"}

Objects == CompilerObjects \cup HandleObjects \cup CallObjects \cup ContextObjects \cup TextObjects
Symbols == Prefixes \X {"f", "e"}

\* NULL is no address.
ASSUME ObjectsAssumption ==
  /\ Null \notin Objects \cup Symbols \cup CompilerRecords
  /\ \A h \in Targets : Null \notin HandlesOf(h) \cup CallsOf(h)

-----------------------------------------------------------------------------
\* What a compiler owns.
CompilerHas(c) ==
  /\ <<"compiler", c>> \in heap <=> compilers[c] # Null
  /\ \A p \in Prefixes : <<"prefix", c, p>> \in heap <=> compilers[c] # Null /\ p = compilers[c].prefix /\ p # ""
  /\ \A n \in 0..MaxDirs : <<"dirs", c, n>> \in heap <=> compilers[c] # Null /\ n = compilers[c].dirs /\ n > 0
  /\ \A d \in 0..MaxDirs : <<"dir", c, d>> \in heap <=> compilers[c] # Null /\ d \in 1..compilers[c].dirs

CompilerSlots == \A c \in Compilers : CompilerHas(c)

\* What a context owns.
ContextHas(k) ==
  /\ <<"context", k>> \in heap <=> contexts[k] # Null
  /\ \A i \in DOMAIN Globals : Value(k, i) \in heap <=> contexts[k] # Null /\ i \in Owning /\ contexts[k].field[i] # Null

ContextSlots == \A k \in Contexts : ContextHas(k)

\* What the handle r and the module b built for h own.
SlotsOf(h, r, b) ==
  /\ <<"jit", h>> \in heap         <=> r.self # Null
  /\ <<"backend", h>> \in heap     <=> r.backend # Null
  /\ <<"exports", h>> \in heap     <=> r.exports # Null
  /\ <<"lljit", h>> \in heap       <=> r.lljit # Null
  /\ <<"externs", h>> \in heap     <=> r.externs # Null
  /\ <<"diagnostics", h>> \in heap <=> r.diagnostics # Null
  /\ <<"prefixText", h>> \in heap  <=> r.prefixText # Null
  /\ <<"module", h>> \in heap      <=> b.mod # Null
  /\ <<"llcontext", h>> \in heap   <=> b.ctx # Null
  /\ <<"names", h>> \in heap       <=> b.externs # Null
  /\ <<"metadata", h>> \in heap    <=> r.metadata # Null \/ b.metadata # Null

\* The handle that is being made for h, or the one that was.
InCall(h)    == call # Null /\ call.h = h
IdleHandle(h) == IF h \in Jits /\ jits[h] # Null THEN jits[h] ELSE NoHandle

HandleSlots ==
  \A h \in Targets : IF InCall(h) THEN SlotsOf(h, call.handle, call.built) ELSE SlotsOf(h, IdleHandle(h), NoBuilt)

\* What a compile owns.
CallSlots ==
  /\ \A kind \in {"arena", "diag", "sources"} : <<kind, "call">> \in heap <=> call # Null
  /\ <<"ast", "call">> \in heap     <=> call # Null /\ call.mod # Null
  /\ <<"ir", "call">> \in heap      <=> call # Null /\ call.ir # Null
  /\ <<"machine", "call">> \in heap <=> call # Null /\ call.machine # Null
  /\ <<"triple", "call">> \in heap  <=> call # Null /\ call.triple # Null
  /\ <<"message", "call">> \in heap <=> call # Null /\ call.error # Null

\* The texts are the host's, two of them together; while a compile is at work there is none.
TextSlots ==
  /\ <<"text", "output">> \in heap <=> <<"text", "diagnostics">> \in heap
  /\ call # Null /\ call.pc # "teardown" => HostTexts = {}

-----------------------------------------------------------------------------
\* What a compile holds at each of its points.

Loading == {"load", "analyzed", "build"}
Making  == {"machine", "optimize", "lljit", "add", "publish", "loadfailed"}

PcInv ==
  call # Null =>
    /\ call.op = "jit" <=> call.h \in Jits
    /\ call.pc \in Making \cup {"handle"} => call.op = "jit"
    /\ call.h \in Jits => jits[call.h] = Null
    /\ compilers[call.c] # Null
    /\ call.pc = "load" => call.mod = Null /\ (call.loads /\ ~call.hosted => call.dirs = DirsOf(call.c))
    /\ call.pc \notin {"load", "analyzed", "result", "teardown"} => call.mod # Null
    /\ call.machine # Null <=> call.pc \in {"optimize", "lljit", "emit"}
    /\ call.pc \notin {"emit", "emitted"} => call.triple = Null
    /\ call.pc # "result" => call.ir = Null
    /\ call.pc \notin {"emitted", "loadfailed"} => call.error = Null
    /\ call.pc = "loadfailed" => call.error # Null

IsPublished(r) == r.lljit # Null /\ r.symbols = SymbolsUnder(r.prefix)

\* The module that is built and the handle that is made.
MakingInv ==
  call # Null =>
    /\ call.pc \in Loading \cup {"result", "teardown"} => call.built = NoBuilt
    /\ call.built.mod # Null /\ call.built.ctx # Null
         <=> call.pc \in {"buildfailed", "print", "target", "emit", "emitted", "handle", "machine", "optimize", "lljit", "add"}
    /\ call.pc \in {"publish", "loadfailed"} => call.built.mod = Null /\ call.built.ctx = Null
    /\ call.pc \notin Making \cup {"teardown"} => call.handle = NoHandle
    /\ call.pc \in Making => call.handle.self # Null /\ call.handle.symbols = SymbolsUnder(call.prefix)
    /\ call.pc \in {"add", "publish"} => call.handle.lljit # Null
    /\ call.pc \in {"machine", "optimize", "lljit", "loadfailed"} => call.handle.lljit = Null
    /\ call.pc \in Making =>
         call.handle.metadata = Null /\ call.handle.diagnostics = Null /\ call.handle.prefixText = Null
    /\ call.pc = "teardown" /\ call.handle # NoHandle => IsPublished(call.handle) /\ call.h \in Jits

\* A handle that is published has a session, and the symbols its prefix gives.
PublishedInv == \A h \in Jits : jits[h] # Null => IsPublished(jits[h])

-----------------------------------------------------------------------------
\* The contexts: their fields, what of them is not built or already dropped, and
\* the handle their code is of.
FieldInv ==
  \A k \in Contexts : contexts[k] # Null =>
    /\ jits[contexts[k].h] # Null
    /\ \A i \in Owning : contexts[k].field[i] \in {Null, Value(k, i)}
FrameInv ==
  \A n \in DOMAIN running :
    LET f == running[n] IN
      \A i \in Owning : (IF f.does = "create" THEN i >= f.next ELSE i > f.next) => contexts[f.k].field[i] = Null

MemoryTypes ==
  /\ misused = FALSE
  /\ compilers \in [Compilers -> CompilerRecords \cup {Null}]
  /\ \A h \in Jits : jits[h] \in HandlesOf(h) \cup {Null}
  /\ jits = [h \in Jits |-> jits[h]]
  /\ call # Null => call.h \in Targets /\ call \in CallsOf(call.h)

MemoryInv ==
  /\ MemoryTypes /\ heap \subseteq Objects
  /\ CompilerSlots /\ ContextSlots /\ HandleSlots /\ CallSlots /\ TextSlots
  /\ PcInv /\ MakingInv /\ PublishedInv
  /\ FieldInv /\ FrameInv
=============================================================================
