# A TLA+ development of the Strata compiler

`stratac` compiles Strata, a C-like language whose owning types are checked for
use after move, for narrowing of optionals and for dangling references before
any code is generated. The rules are listed in `docs/spec/ownership.md` (O1 to
O16). What this project cares about most is the analysis that enforces them:
whether what it accepts is safe to run, whether it rejects what is safe, and
whether the code that is generated does what the analysis assumed. Around it
stand the parts that bring a program to that analysis (module loader, parser,
monomorphizer) and the library API through which a host compiles and runs it.

## Inventory

| Part | Source | State it keeps | Operations |
| --- | --- | --- | --- |
| Control-flow graph | `Sema/Cfg.c` | blocks, current block, open scopes with their pending defers, loop targets | one `Lower*` per statement and expression kind, `RunDefers`, `MarkReachable` |
| Move checker: places | `Sema/MoveCheck/Places.c` | tables of locals, tracked paths, ref aliases; one byte per path (unvisited, live, moved, maybe) | `Join`, `PlaceBlocker`, `SetPlace`, spelling of keys and indices |
| Move checker: facts | `Sema/MoveCheck/Facts.c` | one byte per optional place (none, non-empty, disagree, empty) and per `ref` local | `FactStep` over every kind of operation, kills, `ApplyCond`, reports, folding of `x?` |
| Move checker: solver | `Sema/MoveCheck/MoveCheck.c` | entry state of every block, the pass, the reports | `SolveEntryStates` (at most 64 passes), `ReportMoveFacts`, `CheckRefParamsRestored` |
| Loans, write sets | `Sema/MoveCheck/Loans.c`, `WriteSets.c` | accesses of one expression; globals written per function | operand pairs, a fixpoint over the call graph |
| Resolver, types | `Sema/Resolve/*`, `Sema/ConstFold.c`, `NodeTypes.c` | scopes, declarations, types of nodes | declaration passes, overload choice, inferred borrows, constant evaluation |
| Monomorphizer | `Sema/Monomorphize.c` | templates, instances made, nesting depths | instantiate until nothing new, within limits |
| Emission | `Codegen/Builder/*` | scopes with defers, owning locals with drop flags, temporaries of the statement | one `Emit*` per node; `RunDefers`, `EmitDrops`, `FlushTemps` |
| Types and layout | `Codegen/TypeRegistry.c`, `TypeUtil.c`, `TypeMetadata.c` | registered types | layout, classification, metadata |
| LLVM output | `Codegen/LLVM*.c` | a module, a JIT | load, look up, write objects |
| Parser, lexer, AST | `Parse/*`, `Lex/*`, `AST/*` | token window, tree | one function per construct, error recovery, cloning |
| Module loader | `Import/ModuleLoader.c` | visited keys, sources, root module | depth-first load, merge |
| Embedding API | `Embed/*` | compiler settings, JIT handles | compile, look up, bind, destroy |
| Driver, core, std | `stratac/main.c`, `Core/*`, `std/*` | arguments; arena, vectors, diagnostics | |

How they interact: the driver or the embedding API runs loader, parser,
monomorphizer, resolver and move checker in order over one module, and hands the
annotated tree to the emission. Everything is sequential; there are no threads.
The one place where actors interleave is the API: a host's resolver is called
while a program loads, its externs while a context is made or destroyed, and
either may call back. Elsewhere what is hard is not interleaving but order and
agreement: the solver depends on the order blocks were allocated in; each
operation forgets some facts and keeps others; the graph the checker walks and
the code the emission writes are two lowerings of the same tree that must run
the same defers and drops in the same order; every owned value must be dropped
exactly once on every way out of every scope; a trial parse must leave no trace
when it is undone; a template met again from anywhere must give one instance,
with the types of that place; and whatever step of a compile fails, each
resource has one owner. `PROJECT.json` lists these hazards at their lines.

## Modules

| Module | Models |
| --- | --- |
| `Ast` | the statement and expression nodes the checker reads (`AST/AST.h`) |
| `Places` | `Places.c`: tracked paths, the lattice `Join`, `PlaceBlocker`, `SetPlace`; keys and when they may name the same place |
| `Facts` | `Facts.c`: what each operation does to narrowing and ref facts and what it reports |
| `CfgLower` | `Cfg.c`: `CfgBuild` as operators that thread the builder through the tree |
| `MoveSolver` | `MoveCheck.c`: the passes and the report, one step per operation or edge |
| `MoveRun` | the function, once accepted, running over a store: what the rules are about; the safety properties |
| `MovePaths` | what the dataflow stands for: the reports of a walk along every path, without joins or passes |
| `MoveInv` | the inductive invariant, part by part |
| `MoveSafe_proofs` | the proofs |
| `EmitLower` | the emission of statements and owning expressions (`Stmt.c`, `Ownership.c`, `Boxes.c`, `Assign.c`, and the owning parts of `Expr.c`, `Call.c`, `Numeric.c`, `Function.c`) as operators that thread the `Builder` through the tree |
| `EmitRun` | the emitted code, once the checker has accepted the function, running over slots, drop flags and owned objects; what O1, O7 and O8 promise of it |
| `WriteSets` | `WriteSets.c`: what each function may write and read, passed over the call graph until nothing changes; the calls of a run |
| `LoanRun` | `Loans.c` and the order of globals (`WalkInit`): which operands of one expression conflict, and a run of the module that evaluates them |
| `ImportOrder` | what loading promises, in one action: a module is merged once, after what it imports |
| `ModuleLoader`, `ModuleLoader_proofs` | `ModuleLoader.c`: finding, parsing, merging, with the recursion as a stack; that it implements `ImportOrder` |
| `ParserState` | `Parser.c` and the peek of `Lexer.c`: the token window, checkpoints, reports, recovery |
| `Parser`, `ParserDecl` | `ParseType.c`, `ParseExpr.c`, `ParseStmt.c`; `ParseDecl.c`: one operator per function |
| `Printer` | how a tree is written: the reference the parser is compared with, not code |
| `ParserRun` | `ParserParseModule`: one declaration a step; what parsing promises |
| `JitHost` | `Embed/*`, `LLVMJit.c`, `LLVMAot.c`: who owns which object on every path of a compile |
| `JitContexts` | `Builder/Module.c`: the contexts a handle's generated functions make and destroy, with callbacks |
| `JitInv`, `JitMemory_proofs` | the inductive invariant of the API, and its proofs |
| `WriteSets_proofs`, `LoanRun_proofs` | the proofs about write sets, and about a run of the module |
| `GenericAst` | types, canonical names, and copies with parameters replaced (`AST.h`, `ASTClone.c`) |
| `MetaEval` | meta functions: what their bodies may hold, and the interpreter (`Monomorphize.c`) |
| `Monomorphize` | templates, instances, inference, packs, folded branches, limits (`Monomorphize.c`) |
| `GenericMeaning` | what an instance means, read in one pass in an environment: the reference, not code |
| `MonoRun` | the work list, one declaration a step; what expansion promises |
| `ScanOrder` | the order in which the two scans of `Borrows.c` come to the nodes of a body |
| `Borrows` | `Resolve/Borrows.c`: which parameters are grown and which are only read, one function scanned a step; the checks of the bodies that rest on it; the calls of an accepted module |
| `Borrows_proofs` | the proofs about it |
| `Recursion_proofs` | induction and recursion over the naturals, for sets and functions |
| `MCMovePlaces`, `MCMoveFacts`, `MCMoveFindings`, `MCEmit`, `MCLoans`, `MCLoader`, `MCParse`, `MCJit`, `MCMono`, `MCBorrows` | instances for TLC |

`MoveRun` composes the solver with the program it checks. Its state beside the
solver's: the places moved out, the optional locations that hold a value, the
integer variables used as indices, what each `ref` is bound to and which are
dead. A callee, a drop method or a fresh value may leave anything in what it may
write; an index out of bounds stops the program.

## How the model corresponds to the code

A function is a graph of blocks of operations. `CfgLower!CfgBuild` produces it
from a small tree, block for block in the order `Cfg.c` allocates them (the
numbers are the array indices plus one): the order decides how many passes the
solver takes, so it is kept exactly. The tables the code collects before it
solves (tracked paths, keys, aliases) are constants; the modules `Ast` and
`Places` spell them the way `CollectLocals`, `CollectPaths` and `BuildPlace` do.
Names, keys and globals are strings; a place carries its path, its key and its
"lax" spelling (the one that stands for indices without a spelling).

`MoveSolver` does in one step what one turn of a loop does in `SolveEntryStates`
or `ReportMoveFacts`: step over an operation (`StepOp`), join into one successor
(`GotoBlock`), end a pass, report an operation. `Transfer`, `Join`,
`PlaceBlocker` and the operators of `Facts` are the functions of the same names.
Scratch copies (`ReadState` and the like) are ordinary values. The state the
checker had before each operation is kept in `at`; the code recomputes it in the
reporting walk, which is the same value and spares the proofs an induction.

The run in `MoveRun` starts only when the checker has finished without a report,
from any contents of what existed before the call. It is what the properties are
about: the rules O1, O2, O4 and O5 speak of places that are moved, empty or
gone, and the checker's bytes are only its estimate of these.

`EmitLower` writes the code of a function from the same tree `CfgLower` makes
the graph of. The two share nothing but what the checker annotates: which uses
move and what null tests fold to. Instructions exist only for owned values:
load, save, store, clear, drop, arm or clear a drop flag, call. The `Builder`
keeps what it keeps in the code: blocks, open scopes with their defers, the list
of owning locals with the marks of blocks and loops, the temporaries of the
statement, the fresh results nobody has claimed, the pieces taken out of
temporaries. Owning types differ by their `shape`, because the code does: a box
is a pointer, a string or array is cleared after the store and not before it, a
struct held by value is emptied field by field, one with a drop method has a
drop flag, a list node owns another through its contents.

`EmitRun` gives that code a machine: a slot or register holds an object, zero,
or junk (storage never written: the code zeroes temporaries at the entry, not
locals). A fresh optional is empty or not, a list has one or two nodes,
conditions other than null tests go either way. A callee drops what it is given
by value, as every Strata callee does. Objects dropped and no longer mentioned
are handed out again. `Check` is the checker's step, so only accepted functions
run, with the folds the checker chose.

### Loans and write sets

`WriteSets` scans the operations of each function (the ones `CfgLower` makes)
for what it writes, reads and lends to be changed, and passes over the call
graph, function by function and callee by callee, until a pass changes nothing.
One step is one such merge. When the passes are done `LoanRun!CheckModule`
checks every expression as `Loans.c` does and every initializer as `WalkInit`
does; a module that passes runs. A run is a stack of frames: the host's, which
builds the globals in order and then calls `main`, and one per call. A frame
holds the values its expression has evaluated and not yet used, with the storage
each one borrows, so that a write through any frame can be seen to spoil a value
of any other. A function may return after any of its operations. The walks over
an expression (`CollectAccesses`, `WalkInit`) are sets, level by level down to
`MaxNesting`, which the code does by recursion. The last section of `LoanRun`
says what the resolver and the graph builder see to, of any module
(`ModuleResolved`): a place is spelled as it is reached, through a `ref` local as
what that is bound to; what is lent or bound was evaluated before; no `const`
parameter is changed or lent to be changed.

### The module loader

A module is named by its canonical path, a sequence of components, which is also
its key in the visited set. `stack` is the recursion of `LoadStrataModule`: the
modules being loaded and which import of each comes next. The refinement mapping
takes `main` from the program, `order` from the merges, and `imports` from what
`ResolveImport` gives for each import of each file, so that the abstract module
knows nothing of directories, hosts or files that are not there.

### The parser

A token is a member of a small set; names, numbers and other literals are told
apart as the code tells them apart. The parser's state is a record: the index of
the current token, whether the lexer has peeked at the next one, whether a `>>`
has been split, what was reported, and how often each malformed token was
reported by the lexer. An operator per `Parse*` function takes the parser and
returns it with the node or `Null`. A trial (`TryParse*`) works on the same
record and puts back exactly what `RestoreLexerState` and `RestoreDiags` put
back, no more, so that what the code forgets to put back would be seen.
`Printer` writes the tokens of a tree with the parentheses its operators need
and no others; what the parser makes of them must be that tree.

### The embedding API

Every allocation is a named object of `heap`. A step lists the pointers the code
uses, the pointers it frees, in order, and what it allocates; `misused` records
a use or a free of what is not there, a use of NULL, and the overwriting of what
is still there; the loss of the last reference is what
`NothingLeaks` sees. The host may do anything between steps that `strata.h`
allows. Its obligations are the header's: it destroys a context once and before
its handle, frees the texts it is given, and does not call a function of a
handle that is gone. While a program loads its resolver may call the setters of
the same compiler; while a context is made or destroyed its externs may make,
use and destroy other contexts and change settings.

### Generics

The state `m` is the `Mono` of the code: a heap of declarations, the lists of
the module, templates, instances made with the depth of each, the work list, and
the scopes of the function being rewritten. A name of an instance is the
structure it is spelled from, not its text, and no two structures are spelled
alike. `Rewrite` is one turn of the work list: everything the code does to that
declaration, all instances it makes on the way included. `GenericMeaning` gives
a body its meaning without any of this: an environment says what each type
parameter, pack element, loop variable and local stands for, and the body is
read once. `BodiesAgree` compares the two.

### Inferred borrows

A module is a list of functions whose bodies are trees of the nodes `Ast` has,
and a few more. A type is told by its form, because the scans and the checks
ask no more of it: does it own something, is it an array, a fixed array, a
struct, one with a drop method. `Nodes` lists the nodes of a body in the order
`ScanBorrows` comes to them and `GrowthNodes` in that of `ScanGrowth`, which
does not look into the target of an assignment. One step scans one function,
with what the scans before it have left, so that the order of declaration and
the number of rounds are those of the code. `ScanOrder` makes the lists;
`Borrows` has them as they are, and asks nothing of them. `Errors` is what the resolver
reports of the bodies once the inference is done: `MoveErrors` (`MarkMoved`,
where it is asked), `ConstErrors` and `GrowthErrors`.

A module without errors runs. A frame holds, for each name, whether its storage
is on the stack and whether it was lent for reading only; a call hands on the
storage of its arguments as `EmitCallArgs` does, a `ref` local that of its path.
A body may do what its nodes do in any order and any number of times: the scans
are about all of them, and what a branch excludes they do not know. Two
overloads that both fit a call may both be called; the ranking of overloads is
not modelled.

## Runs

| Run | Question | Bounds |
| --- | --- | --- |
| `move_places` | Is every accepted function free of uses after a move, are its `ref` parameters restored, does the solver report exactly what the paths report, do the passes settle, is the invariant of the proofs inductive in fact? | nine shapes of control flow (`if`/`else`, loops left by `break`, endless loops, `for` with `continue`, return past a defer, scope defers, `&&` with a moving right operand, `?:`, a @noreturn call), nine statements inside, four after them, two at the end, over `a`, `a.f`, `a.f.g`, `b` |
| `move_facts` | Does an accepted read of an optional ever find it empty, does a folded test answer what the test would, is a `ref` an accepted function uses bound to something that exists? | eleven shapes of test and use, three kinds of place (local, global, field), twelve statements between test and use; six shapes with eleven statements for `l[0]`, `l[i]`, `l[i+1]` of an array of two, indices 0..1; six shapes, eight targets and eighteen statements for `ref` locals |
| `emit` | Is every owned value of an accepted function dropped once, on every way out, and after every use of it? | five owning types, seven shapes of control flow (sequence, `if`/`else`, a loop left by `break`, `for` with `continue` and its own owning variable, return past a defer, scope defers, a @noreturn call), thirteen statements and then three more inside; seventeen functions about parts, lists, optionals, text and temporaries; twenty-four objects |
| `loans` | Do the write sets settle at the least solution, does a run write only what they declare, is what an operand borrows left alone until its expression is done, and is no global used before it is built? | five functions that call each other, write and lend globals; three initializers, eighteen bodies of `main`, eleven of the second and seven of the third function; five calls deep |
| `loader` | Is each reachable module merged once, after what it imports unless that imports it back, and does a load without errors have every declaration? | every import graph over three modules with nine import lists each (itself, twice, one that is not there), pairs of clashing declarations, files of one name in up to three directories, hosts that answer with one name for two imports or two for one |
| `parse` | Is what is parsed what was printed; is anything lost without a report; is what follows an error found; does parsing end? | every pair of 57 expression shapes nested; 54 types wherever a type may stand; 24 statements and 32 declarations in pairs; every run of three of 27 tokens in a body, and of two of 23 in a struct, an impl block, a parameter list and between declarations |
| `jit_host` | Is anything freed twice, used when gone or lost, whatever step of a compile fails and whatever the host calls back? | one compiler, two handles, two contexts; two import directories, with and without prefix and resolver; programs with externs and components or without |
| `mono` | Does every declaration that is left mean what its template means, is nothing left or made that should not be, and is runaway expansion cut off? | a library of generic structs, impls, functions, packs and meta functions; `main` with every pair of 27 statements; the library with each of 32 declarations that are wrong or fail when used |
| `borrows` | Does an accepted module ever take or write what it was only lent, or grow what is on the stack; does inferring borrows refuse what would be accepted without; is the inference complete? | an exported function that calls a chain of three, callers declared first, the last of which may call itself and the others the first: six, twenty-eight and six bodies for a string, an array and a struct by value; seven, ten and five bodies for an `int[]` by `ref`, given a heap array, a fixed one, a literal, a field and a rest of either kind; four calls deep |
| `find_chain`, `find_ternary`, `find_borrow` | one disagreement each, below | a function or a small module each |

Why the bounds are enough. A function in a run has one join or loop around the
statements under study, and the move lattice has four values: two statements
inside and one after are enough to reach every pair of states at every kind of
edge, and a statement after them tells every difference that matters apart. Two
names, two fields deep, have every relation `PlaceBlocker` tells apart (same,
ancestor, part, unrelated). Two elements under three spellings have every
relation `SegsAlias` tells apart (same spelling, same element under another
spelling, different elements).

In `emit` each function owns `a` and `b`, is lent `p`, and takes a path that
moves, refills or keeps them and one that does not, so a drop flag, a scope's
list of locals and a loop's mark are each read in every state a path leaves. Two
statements in the shape are enough to move on one path, refill on the other and
use or return after both. `TypeOK` says among other things that two objects are
always left, so that twenty-four never restrict a behaviour.

In `loader` three modules have every cycle and diamond there is up to what one
more module would repeat. In `parse` an operator in an operand of another is
what precedence and trials decide on; three tokens are one more than the parser
ever looks ahead. In `jit_host` a second handle and a second context are what a
stale binding or a wrong prefix needs; a third of either stands where one of the
two does (both sets are symmetric). A second compiler would share nothing with
the first.

`mono` scales the limits so that small programs meet them: nesting 3 for
`MONO_MAX_DEPTH` 32, names of 6 parts for `MONO_MAX_NAME` 1024 characters, 9
instances for `MONO_MAX_INSTANCES` 4096, meta calls 4 deep for `META_MAX_DEPTH`
64, and integers of 2 to 5 bits for 8 to 64. The pair of the statements is what
makes an instance be met twice, from two places, in either order; the library's
functions call each other, so that it is also met from instances. `MaxDepth` of
`loans` bounds the calls of a run: the functions recurse. Its `MaxNesting`
is more than the expressions of its functions have levels.

In `borrows` a chain of three with the callers first is learnt in as many rounds
as it is long, and `self` closes it to a cycle; a fourth function would add a
round of the same kind. Four frames are the exported function and the chain once
around.

`MaxPass` is the cap on the passes, 64 in the code. `move_places` sets it to 6,
which is stronger: every function of the run settles in six. `move_facts`
and `emit` keep 64, as does `MaxRounds` of `borrows`. `find_chain` scales the cap to
4 and the chain to 6 arms: a chain of n arms needs one pass per arm, so the
relation between the two, not their size, is what the run shows. `MaxInt` bounds
indices and array length, `ByteRange` is the number of values of the narrow type
an index can be cast to. `MaxWalk` bounds the steps of a walk in `MovePaths`: a
walk visits a block again only in a new state, and one cut short would show as a
report of the solver that no walk makes (`ReportsOnlyPaths`).

What the properties say:

- `NoUseOfMoved` (O1): an accepted function never uses, whole or in part, what
  the run has moved out.
- `RefParamsRestored` (O2): it returns with everything back that it took out of
  a `ref` parameter.
- `NoReadOfEmpty` (O4): an optional read as its contents is not empty then.
- `FoldAgrees`: a null test the checker folds would have given that answer, on
  every visit.
- `NoDanglingRef` (O5): a `ref` is used only while what it is bound to exists.
- `ReportsEveryPath`, `ReportsOnlyPaths` (in `move_places`): what the dataflow
  reports is exactly what a walk of each path reports, with neither joins nor
  passes (`MovePaths`). This is where the order of blocks, the first pass over
  unvisited blocks and the cap would show.
- `Settles`: the checker finishes, and by a pass that changed nothing rather
  than by the cap.
- `DropsOnlyOwned` (O8): what is dropped, by an instruction or by a callee, is
  alive then; a drop method never runs on emptied storage; no drop flag is read
  before it was written.
- `UsesFindValues` (O1): what is read, lent or handed on is alive.
- `NothingLeaks` (O7, O8): at a return, what is alive is what is returned and
  what was lent. With `DropsOnlyOwned`, exactly once.
- `DropOrder` (O8): when a scope drops a local, no later local and no temporary
  holds anything that is alive.
- `FoldedTestAgrees` (O4): a null test the checker folded, in the emitted code,
  answers what the slot would.
- `SetsAreLeast`: what the passes return is, for each function, what the
  functions within its reach do by themselves; no more, and no less in spite of
  recursion.
- `WritesDeclared`: whatever a run writes is in the set of each function on the
  stack but those that only pass it on. It is what the narrowing facts rely on
  at a call.
- `LoansHold` (O6, O7): what an operand or an argument borrows is not written,
  moved or dropped until the expression it belongs to is done.
- `NoEarlyGlobal` (O10): while a global is built only the ones before it are
  used, through whatever calls.
- `LoadInv`, `ImplementsImportOrder`: the loader's stack, visited set and order
  of merging, and that they implement the abstract order, the end of loading
  included.
- `RootIsWhole`: no error means no declaration lost, and no name is defined
  twice.
- `RoundTrip`: a program is read as it was written.
- `NothingSilent`: what is read without a report, printed again, has every token
  that was there; statements that start with `const` or `ref` and no type are
  excepted (see below).
- `Recovers`: the declaration after a broken one is found.
- `LexerReportsOnce`: a malformed token is reported once, however many trials
  read it.
- `Progress`: each turn of the loop over declarations consumes something.
- `MemorySafe`, `NothingLeaks` (of `JitContexts`): nothing is freed twice or
  used when gone; between calls the heap is what live compilers, handles,
  contexts and texts own.
- `ExportBound`: the context an `@export` body would see is alive and of its
  handle.
- `LookupFinds`: each function of a handle is found under its name.
- `BodiesAgree`, `ClosedWorld`: a complete expansion means what the templates
  mean; no use of a template, meta call or pack is left, and every instance
  there is named by something written.
- `StorageKept`: no body on the stack takes or writes storage it was only lent,
  or grows, rebinds or takes an array that lives on the stack. It is the promise
  of the inference: what it misses is an error in a body, never a wrong program.
- `NoFalseError`: a module without errors when every such parameter takes its
  argument has none when they are inferred.
- `InferenceIsGreatest`: no larger set of borrows would be left as it is by a
  round, so that a caller never loses a value for the order of declaration or
  for recursion.
- `CutOff`: the depth recorded for an instance is that of its whole name,
  however many expansions lie between, and none is beyond a limit.

Fairness. `MoveRun!Spec` assumes `WF_vars(Check)`: the checker is a sequential
loop with nothing to wait for, so a step it can take is taken. The run of the
checked program has no fairness: it may stop anywhere, or loop. `LoanRun!Spec`
assumes the same of the passes over the call graph (`WF_loanVars(Solve)`) and
nothing of the run after them, and `ModuleLoader!Spec` of the loader, which is
one recursive function: `ImplementsImportOrder` has the liveness of
`ImportOrder` in it. `EmitRun`, `ParserRun`, `JitContexts`, `MonoRun` and
`Borrows` state safety only and assume none. A host owes the API nothing, so a liveness property
of it would have nothing to stand on; and expansion ends by its limits, which
`CutOff` is about.

Deadlock is not checked where the end of a behaviour is the end of the work: a
rejected function or module, an accepted one that has returned or panicked, a
program that is loaded. It is checked for the parser and the expansion, which
stutter once they have finished, so that a step that fits no action would be
found; and for the API, where a host can always go on.

## Proofs

The theorems about the checker hold for every table of functions, every set of
places and facts and every cap. They assume what the constants' assumptions say:
`ProgramsAssumption` (a graph is blocks with successors among them and with a
closed set of reachable ones that holds the entry: what `CfgBuild` returns),
`MaxPassAssumption` (a positive cap) and `MaxIntAssumption`. TLC evaluates the
three on every run. The theorems about the loader assume of the programs only
what their assumption in `ModuleLoader` says of their shape.

- `TypeCorrect` (`MoveSafe_proofs`): `Spec => []TypeOK`.
- `Inductive` (`MoveSafe_proofs`): `Spec => []IInv`.
- `ModuleLoader_proofs`: `Inductive` (`Spec => []LoadInv`) and `Refines` (the
  loader implements the safety part of `ImportOrder`), for every program.
- `WriteSets_proofs`: `SetsAreClosed` (the passes end with sets closed under
  calls), `SetsAreSmallest` (no set is ever more than in any closed family), and
  `CoversCallsHolds` (what a callee may write, every function that waits for it
  may write), for every call graph. They are theorems of `SetsSpec`, the passes
  and then any calls the graph allows.
- `WriteSets_proofs`: `SetsAreLeastHolds`, that the two together make the sets
  what the functions within reach do by themselves; by induction over the number
  of calls on the way. `RunSetsAreLeast` (`LoanRun_proofs`) is the same of
  `LoanRun!Spec`, in which drop methods are run as well.
- `LoanRun_proofs`, for every module that is resolved as `ResolvedAssumption`
  says: `WritesDeclaredHolds` and `NoEarlyGlobalHolds`, each under named
  conditions, below.
- `JitMemory_proofs`: `ContextsLive` and `ExportBoundHolds`; `MemoryHolds` (the
  inductive invariant), `MemorySafeHolds`, `NothingLeaksHolds` and
  `LookupFindsHolds`, for any numbers of compilers, handles, contexts and import
  directories, any prefixes and programs, whichever step of a compile fails and
  whatever the host does between steps.
- `RootWhole` (`ModuleLoader_proofs`): `Spec => []RootIsWhole`, for every program.
- `ReportsEveryPathHolds` (`MoveSafe_proofs`): whenever the passes settled, what
  any walk of a path would report is reported, narrowing and refs included.
- `ReportsOnlyPathsHolds` (`MoveSafe_proofs`): whenever the passes settled,
  nothing else is, for the functions that are `Exact`, below.
- `Borrows_proofs`, for any functions and calls: `InferenceIsGreatestHolds`;
  `InferenceSettles` (with fewer candidates than rounds the cap cuts nothing
  off); `NoFalseErrorHolds`, `BorrowsKeptHolds` and `StorageKeptHolds`, each
  under named conditions, below.
- `NoUseOfMovedHolds`, `RefParamsRestoredHolds`: the two safety properties,
  whenever the passes settled before the cap. `find_chain` shows that this
  hypothesis cannot be dropped; `Settles` that the functions of `move_places`
  meet it.

`NoUseOfMoved` is not inductive: it speaks of the run, and what the run may do
depends on what was reported, which depends on the entry states the passes left.
`IInv` follows that chain. `SettledBehind`: in a pass that has changed nothing
so far, the blocks already walked are settled, their recorded states are the
transfer of their entry state and their edges bring nothing new. It is needed
because a pass is many steps, and the last one must find all of them true at
once. `IsFixpoint`: when the passes end quietly every reachable block is
settled, and remains so, since nothing writes the states any more.
`ReportedBehind`: the reporting walk has reported everything due behind it, so
that an empty report means no operation had a blocker. `RunCovered`: at every
point of the run, what is moved out is `Moved` or `Maybe` in the state the
checker had there. It is kept by an operation because `Transfer` marks what the
operation moves and clears no more than it refills, and by an edge because a
settled edge joins into a state that already covers it (`Join` never loses
`Moved` for one of its sides). `PlaceBlocker` then names a blocker for every use
of a place that is covered, which contradicts the empty report.
`RefParamsReported` and `PhaseInv` carry the rest.

The agreement with the paths needs one thing more: `EntryAbsorbs`, that a state
joined into the entry of a block is absorbed there. A walk is then followed step
by step: at each point the state of the walk is `Covers`ed by the one the solver
has there, which is why an operation that reports something of the former reports
it of the latter.

The converse is not kept by such a following: a state of the solver is the join
of several walks and equals none of them. What holds is byte by byte. A byte is
`Between` two others if it is one of them, or stands for their disagreement, or
for no information; a state is `Explained` by a set of walks if each of its bytes
is between those of two of them (`EntriesExplained`, `HereExplained`). An
operation keeps it because what it does to a byte depends on that byte alone, but
for the facts that one place copies to another: if the source is still unvisited,
the copy is "not proven" where the walks say "proven" (the first of the
disagreements below). So a copying operation must stand in a block that the first
pass comes to with a state: one with a chain of edges from the entry that each go
to a later block (`Forward`; `ForwardVisited` and `HereVisited` say that the
chain has been followed). That is `CopiesForward`. With `ReachedOnly` (each block
marked reachable is on a path) and `WalksClosed` (`MaxWalk` steps are enough) it
makes a function `Exact`. A report is about one byte, which is then some walk's
(`FoundOnPaths`). `MCMovePlaces` has as an `ASSUME`, which TLC evaluates, that
every function of `move_places` is `Exact`; `MCMoveFacts`, that its functions
copy in such blocks only.

For the loader, `Chained` is the part that makes the step go through: a module
is on the stack because those below it reach it, so when a module is merged,
each import that is not merged yet is on the stack below it, hence reaches it,
which is what `ImportOrder!Merge` asks. `Followed` says that the imports before
the next one have been read, `EachOnce` that what was read is merged or on the
stack. Reachability is defined as membership in every closed set, which needs no
recursion and no induction. `RootIsWhole` does need induction, over the
declarations appended one by one. It is done on sets of naturals (a set with 0
and the next of each of its elements has them all, `Recursion_proofs`), which
follows from the library's fact that a nonempty set has a least element; the
recursive definitions it is about are functions, and that such a function exists
is proved there too.

For the write sets the argument is that of the solver in small: in a pass that
has changed nothing so far, merging any callee passed would change nothing
(`SettledBehind`), so the pass that ends quietly leaves all settled, which is
closed. That nothing else is in the sets (`Least`) is kept by each merge.

What a run writes is another matter than what the sets say, and `WritesDeclared`
needs to know of each name of each frame what storage it stands for (`RunInv`). A
`ref` local stands for what it is bound to, so its place is spelled like the
storage it stands for if that is a global's (`RefsIn`). A parameter stands for a
place of the caller's, and in turn for one of the caller's caller: `SafeIn` says
of storage and the parameters it was reached through that every function that
waits has it in its set, but those that pass it on as a parameter. It is kept by
a call, because a parameter that may be changed is lent `ref`, and what is lent
`ref` counts as written by the function that lends it (`HeldIn`); and by a call
through a delegate, because such a function may write anything. `TodoIn` says
that a drop method that waits to run is covered by the function that runs it,
which is not what the passes see to: they look at calls only. That it holds is
the hypothesis `DropsCovered`. `NoEarlyGlobal` follows the same frames from the
initializer on (`EarlyInv`): the sets of the functions on the stack hold no later
global, nor does anything a frame holds come to one. Of the initializer itself it
is a hypothesis, `InitsSeen`, that the walk sees what it does: that it names
nothing where `WalkInit` does not look, calls no delegate on any way, and does
not touch its own global, which `TouchGlobal` does not ask. `MCLoans` has as an
`ASSUME` that in every module of `loans` the initializers are walked and the drop
method touches no global. `LoansHold` has no theorem: it is false in general
(below).

For the API, `ExportBound` needs that the context a function works on is alive
and is no other's (`RunningLive`, `RunningOnce`): an `EndDestroy` deep in
callbacks frees only its own, and unbinds it from the only handle that could
have it bound. `MemoryInv` says of each kind of object when one is in the heap:
exactly when the slot of its owner is not NULL (`CompilerSlots`, `HandleSlots`,
`CallSlots`, `ContextSlots`, `TextSlots`). `PcInv` and `MakingInv` say which of
the slots are filled at each point of a compile, which is what makes every error
path free what it has and nothing else; `FieldInv` and `FrameInv` do the same for
the contexts that callbacks make and destroy. `MemorySafe` then follows for each
step from the slots it goes through, and `NothingLeaks` because between calls
the slots of a compile are all NULL. The assumptions are `HostAssumption` and
`GlobalsAssumption` (what prefixes and globals are), and `NullAssumption` and
`ObjectsAssumption` (NULL is no object).

For the inferred borrows everything rests on one fact about a scan: what it
takes from a set of candidates it takes from any larger set too (`ScanMonotone`),
since a callee that borrows asks less of its caller. So a set that a whole round
leaves as it is stays within what any round leaves of more
(`InferenceIsGreatestHolds`). Each round but the last takes a candidate away or
marks a parameter, so the rounds are at most as many as those (`SettleInv`, by
cardinality), and the last one found nothing. What it leaves is therefore not
written, lent mutably or taken in any body (`BorrowsUnused`), as far as the scan
means by a call what the resolver means: `ScansAgree`. It asks that no function
has the name of a builtin, that what follows the first argument of a `ref` rest
owns something, and that there are fewer candidates than rounds. Each is needed;
where it fails the code refuses a legal body (below). Under it `NoFalseError`
follows.

`StorageKept` is about a run, and needs to know where storage comes from:
`FrameKept`, that only a `const ref` or an inferred borrow has storage lent for
reading, and `FrameViews`, that storage on the stack has the name of a fixed
array, a rest, an alias, or a parameter nobody is known to grow. Both are kept by
a call because an argument of another kind would have been an error. The
hypotheses are the holes of the code, stated of the module: `MovesSeen` (no
owning struct is moved out of a name that is `const ref` in the source, where
the resolver does not look, and none by `?:`), `GrowthSeen` (what grows is in
the scan's sight, and is no `ref` local and no rest) and `Typed` (what the rest of the
resolver sees to: a name has one type, and so has its alias). `BorrowsKeptHolds`
is the half about reading, which needs only the first. Every function of the run
`borrows` meets them but those that assign or grow an array through a `ref` local.

Only model-checked: what concerns narrowing facts and refs in a run
(`NoReadOfEmpty`, `FoldAgrees`, `NoDanglingRef`) and `LoansHold`, which are false
in general (see below) and hold on the functions of the runs; `Settles` and the
liveness in `ImplementsImportOrder`, because liveness is out of the prover's
reach; and everything about emitted code, the parser and the expansion, whose
operators are recursive over trees.

## Where the code and its documents disagree

Three of these are runs.

- `find_chain`: an `if`/`else if` chain of more than 64 arms moves a place in
  the last arm; the use after it is accepted (`MoveCheck.c:411`).
- `find_ternary`: `x = a ? *b : 1;` is an error, because `*` is not among the
  tokens that make a `?` the conditional operator (`ParseExpr.c:138`).

- `find_borrow`: in `void f(S p) { const ref S k = p; S m = k; }`, S a struct
  that owns a string, `p` is inferred to be borrowed and the body moves the
  string out of the caller's value all the same. The scan does not follow a
  `const ref` local, and a struct is refused as moved only where it is returned,
  becomes an element or is put into an array (`Stmt.c:739`, `Moves.c:480`,
  `Members.c:940`): a written `const ref S p` and a global can be moved from in
  the same way. `Borrows.c:189` says that a miss is "never a wrong program", and
  O3 of `docs/spec/ownership.md` that nothing is moved out of a `const ref` or a
  global.

The others have no run of their own; where a module for TLC holds a program that
shows one, it is named in brackets.

- `y = x` after a branch in which both sides set `x` after another branch is
  rejected (`Facts.c:482`, `Which = "meet"` of `MCMoveFindings`): the first pass
  reads the still unvisited state as "not proven" and the join keeps that.
- `Both(g, Change())`, where `Change` writes the global `g`, is accepted, although
  by O7 what an operand borrows holds until its expression ends: pairs of
  operands are compared by their places (`Loans.c:236`), and what a call writes
  is compared with its own arguments only (`WriteSets.c:269`).
- The initializer of a global may use that global, for instance through a
  function it calls: `WriteSets.c:292` says "its initializer may use only the
  globals before it", and the search starts after it (`WriteSets.c:295`). The walk
  over an initializer does not go into assignments and increments
  (`MoveCheck.c:737`), so `int a = b++; int b = 3;` is accepted, and takes a
  function that calls a delegate for one that touches nothing
  (`MoveCheck.c:717`), against O10.
- What a drop method writes is in the write set of no function that runs it:
  `ScanWrites` looks at the operations of the body (`WriteSets.c:82`).
- `if (l[i]?) { l[f()] = none; l[i].id; }` is accepted (`Facts.c:594`, `Which =
  "unspelled"`).
- Assigning through a `ref` local is always reported as dangling
  (`Facts.c:740`).
- `s = s` of a string or an array stores the value, clears the source, which is
  the same slot, and drops the old value: `s` is empty after it (`Assign.c:128`,
  `Stories = {"selfText"}` of `MCEmit`). Boxes clear first and survive, which is
  what the test covers.
- In `Res t = p; p = Res.Make(5);` with `ref Res p`, the drop method of the
  emptied `p` runs once more (`Assign.c:325`, `"refRes"`): only a function's own
  locals and parameters have drop flags.
- An array is grown on the stack through a `ref` local bound to the parameter
  (`Borrows.c:50`, `"refGrown"` of `MCBorrows`; `tests/unit/ArrayTests.c:1333`
  has the direct case refused), by a call in the index of an assignment's target
  (`Borrows.c:111`, `"index"`), and by a function with a by-value rest parameter
  that pushes to it (`Builder/Call.c:482` keeps its buffer on the stack,
  `"restGrown"`).
- After 64 rounds both inferences stop (`Borrows.c:646`, `:686`): with a chain
  of 69 functions a fixed array is grown, or a legal body is refused. A function
  called `load` is taken for the builtin by the scan (`Borrows.c:535`), so an
  argument it takes is an error.
- In `void g(ref int... xs)` and `void f(S p, int x) { g(x, p.count); }` the call
  is an error: of what follows the first argument of a rest the scan looks at
  owning values only (`Borrows.c:346`), so `p` is inferred to be borrowed, and
  `p.count` may then not be lent (`Calls.c:278`).
- A by-value rest array moved as a whole (`int[] m = xs;`), or a `ref` one that is
  popped, is not refused either, although its buffer is on the caller's stack
  (`Builder/Call.c:482`, `Builder/Function.c:274`).
- `ref 5;` and `const *1;` as statements are skipped without a diagnostic
  (`ParseStmt.c:247`).
- The declaration after `import 5;` is lost: the error is skipped twice
  (`Parser.c:134`).
- A compile leaks the builder's vectors `scopes` and `symDecls`
  (`Builder/Module.c:765`). `strataCompileToObject` guards against a NULL
  compiler after it has used it. `@export` functions keep their name, although
  `strata.h` says a prefix applies to every symbol exported. Destroying the
  newest context leaves `@export` bodies without one, although older contexts
  live.
- Whether a null test in the initializer of a global or a default of a field
  folds is undefined: `inInstance` is read before it is set
  (`Monomorphize.c:3069`).
- A generic method and a plain one of the same name in two `impl` blocks of one
  generic struct are refused or not by the order they are written in. `f<>()` is
  taken for `f()`: a pack is inferred. A binding declared as the unbraced branch
  of an `if` is seen after it when type arguments are inferred, and a local
  delegate with the name of a function is typed by that function.

`MCMoveFindings` holds three more functions that `NoReadOfEmpty` fails on,
listed as hazards: a cast in an index (`Which = "cast"`), a `ref` to `l[i]`
after `i` has changed (`"alias"`), and a left operand emptied by the right one
of an `&&` (`"operand"`).

## Not modelled, and the plan

Out of reach of this kind of check, or nothing but a transcription of tables:
the lexer, the dump of the tree, arguments and files of the driver, the choice
of LLVM instructions, the layout LLVM computes, the wording of diagnostics. The
arena and the vectors of the core are memory management below what the models
speak of.

Of the resolver (`Sema/Resolve/*`, `ConstFold.c`, `NodeTypes.c`) only the two
inferences about parameters and the checks that rest on them are modelled. What
the other modules need of it are constants of theirs: the type of a node, which
uses move, which parameters lend. A faithful model of the rest is a model of
Strata's whole type system; what its rules protect at run time is what the runs
of the checker and of the emission are about. Of it, scopes and overload choice
are worth modelling; of the type registry, classification. The rules of O3 that
the move checker adds (`ElementMoveCheck`, `PointerMoveCheck`,
`DropFieldMoveCheck` of `MoveCheck.c`) and the notes it leaves for the code
generator (`AnnotateUse`) are not modelled either.

What would come next:

1. Proofs: `NoReadOfEmpty`, `FoldAgrees` and `NoDanglingRef` for functions
   without the spellings listed above; `LoansHold` for modules whose operands
   call nothing that writes what an earlier one borrows.
2. `LowerAgree`: the graph of `CfgLower` and the code of `EmitLower` in
   lockstep, with drop methods that write globals: same tests, the defers and
   drops of each exit in an order the facts of the graph are true of. Array
   elements and owned globals in the emission.
3. The resolver's overload choice, against a reference that ranks all
   candidates; with it the calls of `Borrows` would be the ones the code makes.

`LoanRun` leaves out casts that view their operand, array literals and the
callee expression of a call through a delegate. `Parser` leaves out the values
of literals and what is written in an escape (`ParseLiteral.c`). `JitHost`
leaves out binding externs, type metadata queries and the panic handler.
`MonoRun`'s programs have no delegates and no properties with types.
`Borrows` leaves out boxes, optionals, pointers and casts.

Owned values are modelled where these limits hold. Left out of `EmitLower`: `?:`
between owning values (the front end refuses it, but for owning structs, see
`TypeRules.c:246`), array literals and elements, `extern` calls, function
values, owned globals, and what is inside a drop or a copy. The functions of
`emit` hold none of the following, for which the properties fail or the model
has no construct; each is a hazard with its line: an owning declaration as an
unbraced branch (`Stmt.c:389`), the contents of a box assigned after its drop
(`Assign.c:236`), an operand's result beside a `?:` (`Expr.c:906`), a comparison
of two fresh boxes (`Numeric.c:232`), a conditional temporary with a drop method
(`Ownership.c:463`), an assignment used as an operand (`Assign.c:444`), and
`copy(s).length` (`Ownership.c:763`). Where graph and code disagree about order
(`Cfg.c:121`, `Cfg.c:447`, `Cfg.c:504`), `emit` checks the code on its own; what
a drop method writes is in `MoveRun` only.
