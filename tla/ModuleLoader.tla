---------------------------- MODULE ModuleLoader -----------------------------
(***************************************************************************)
(* Loading a program: the modules its imports reach are parsed and their   *)
(* declarations merged into one root module (src/src/Import/ModuleLoader.c). *)
(*                                                                         *)
(* A module is named by its canonical path, the sequence of its components, *)
(* which is also its key in the visited set; a host's resolver may name it *)
(* as it likes.  Parsing a file gives its imports and its declarations.    *)
(***************************************************************************)
EXTENDS Naturals, Sequences, FiniteSets
LOCAL INSTANCE SequencesExt

CONSTANT Programs    \* of each, [main, files, dirs, hosted, answers]: its files by name, the
                     \* import directories, whether a resolver answers, and what

NoModule == <<>>     \* nothing was found under a name

Declarations == [kind : {"struct", "handle", "enum", "global", "function"}, name : STRING,
                 form : {"forward", "defined", "extern"}]

\* A host answers for an import with a module, if it answers.
ASSUME ProgramsAssumption ==
  \A p \in DOMAIN Programs :
    /\ NoModule \notin DOMAIN Programs[p].files
    /\ \A name \in DOMAIN Programs[p].files : Programs[p].files[name].imports \in Seq(Seq(STRING))
    /\ \A name \in DOMAIN Programs[p].files : Programs[p].files[name].items \in Seq(Declarations)
    /\ \A q \in DOMAIN Programs[p].answers : Programs[p].answers[q] \in DOMAIN Programs[p].files \cup {NoModule}

VARIABLES prog,      \* the program that is loaded
          stack,     \* the calls of LoadStrataModule: [name, next], the import to resolve
          visited,   \* the modules read, in order: the position is the file number
          root,      \* the declarations merged
          order,     \* the modules they came from, in order
          errors     \* the imports that failed, and the declarations refused

loaderVars == <<prog, stack, visited, root, order, errors>>

-----------------------------------------------------------------------------
\* Finding a module.

FileExists(name) == name \in DOMAIN prog.files

\* Beside the importer, then in each import directory.
ResolveImportPath(importer, path) ==
  LET candidates == <<Front(importer) \o path>> \o [d \in DOMAIN prog.dirs |-> prog.dirs[d] \o path]
      Taken(k)   == FileExists(candidates[k]) /\ \A j \in 1..(k - 1) : ~FileExists(candidates[j])
  IN  IF \E k \in DOMAIN candidates : Taken(k)
      THEN candidates[CHOOSE k \in DOMAIN candidates : Taken(k)] ELSE NoModule

\* A resolver that fails, or gives text without a name, gives nothing.
ResolveImport(importer, path) ==
  IF ~prog.hosted THEN ResolveImportPath(importer, path)
  ELSE IF <<importer, path>> \in DOMAIN prog.answers THEN prog.answers[<<importer, path>>] ELSE NoModule

-----------------------------------------------------------------------------
\* Merging what a file declares.

\* A struct may be declared before it is defined, an extern one more than once;
\* functions and impl blocks are compared later.
Redefines(decls, d) ==
  /\ d.kind \in {"struct", "handle", "enum", "global"}
  /\ d.kind = "struct" => d.form = "defined"
  /\ \E k \in DOMAIN decls : /\ decls[k].kind = d.kind /\ decls[k].name = d.name
                             /\ d.kind = "struct" => decls[k].form # "forward"

AppendItem(decls, d) == IF Redefines(decls, d) THEN decls ELSE Append(decls, d)

\* A bug: a declaration is compared with those of its own file only.
AppendItemsBlind(decls, items) == decls \o FoldLeft(AppendItem, <<>>, items)

\* One after the other, each compared with all that came before it.
AppendItems(decls, items) ==
  LET merged[n \in 0..Len(items)] == IF n = 0 THEN decls ELSE AppendItem(merged[n - 1], items[n])
  IN  merged[Len(items)]

Refused(decls, items) == Len(decls) + Len(items) - Len(AppendItems(decls, items))

-----------------------------------------------------------------------------
\* The calls.

Top     == Len(stack)
Keys    == {visited[k] : k \in DOMAIN visited}
Name    == stack[Top].name
Paths   == prog.files[Name].imports
Pending == Top > 0 /\ stack[Top].next <= Len(Paths)
Found   == ResolveImport(Name, Paths[stack[Top].next])
Call(name)     == [name |-> name, next |-> 1]
Continued      == [stack EXCEPT ![Top].next = @ + 1]

Init ==
  /\ \E p \in DOMAIN Programs : prog = Programs[p]
  /\ stack = <<>> /\ visited = <<>> /\ root = <<>> /\ order = <<>> /\ errors = {}

\* The main module, from the caller.
Load ==
  /\ visited = <<>> /\ FileExists(prog.main)
  /\ visited' = <<prog.main>>
  /\ stack' = <<Call(prog.main)>>
  /\ UNCHANGED <<prog, root, order, errors>>

LoadFails ==
  /\ visited = <<>> /\ ~FileExists(prog.main) /\ errors = {}
  /\ errors' = {<<prog.main, "missing">>}
  /\ UNCHANGED <<prog, stack, visited, root, order>>

\* A bug: a module is known once it is merged.
AlreadyMerged(name) == name \in {order[k] : k \in DOMAIN order}

AlreadyVisited(name) == name \in Keys

ImportModule ==
  /\ Pending /\ Found # NoModule /\ ~AlreadyVisited(Found)
  /\ visited' = Append(visited, Found)
  /\ stack' = Append(Continued, Call(Found))
  /\ UNCHANGED <<prog, root, order, errors>>

ImportAgain ==
  /\ Pending /\ Found # NoModule /\ AlreadyVisited(Found)
  /\ stack' = Continued
  /\ UNCHANGED <<prog, visited, root, order, errors>>

ImportFails ==
  /\ Pending /\ Found = NoModule
  /\ stack' = Continued
  /\ errors' = errors \cup {<<Name, Paths[stack[Top].next]>>}
  /\ UNCHANGED <<prog, visited, root, order>>

\* A bug: a module's declarations come before those of its last import.
MergeModuleEarly ==
  /\ Top > 0 /\ ~(Pending /\ stack[Top].next < Len(Paths))
  /\ root' = AppendItems(root, prog.files[Name].items)
  /\ order' = Append(order, Name)
  /\ errors' = IF Refused(root, prog.files[Name].items) = 0 THEN errors ELSE errors \cup {<<Name, "redefinition">>}
  /\ stack' = SubSeq(stack, 1, Top - 1)
  /\ UNCHANGED <<prog, visited>>

\* The declarations of a module follow those of its imports.
MergeModule ==
  /\ Top > 0 /\ ~Pending
  /\ root' = AppendItems(root, prog.files[Name].items)
  /\ order' = Append(order, Name)
  /\ errors' = IF Refused(root, prog.files[Name].items) = 0 THEN errors ELSE errors \cup {<<Name, "redefinition">>}
  /\ stack' = SubSeq(stack, 1, Top - 1)
  /\ UNCHANGED <<prog, visited>>

Next == Load \/ LoadFails \/ ImportModule \/ ImportAgain \/ ImportFails \/ MergeModule
Spec == Init /\ [][Next]_loaderVars /\ WF_loaderVars(Next)

-----------------------------------------------------------------------------
\* What is promised.

Imported(name) == {ResolveImport(name, prog.files[name].imports[k]) : k \in DOMAIN prog.files[name].imports} \cap DOMAIN prog.files
ImportGraph    == [name \in DOMAIN prog.files |-> Imported(name)]

Abstract == INSTANCE ImportOrder WITH main <- prog.main, imports <- ImportGraph

\* Every reachable module is merged once, after the modules it imports but for
\* those that import it back, and in the end all of them are (ModuleLoaderLoad).
ImplementsImportOrder == Abstract!Spec

Done == visited # <<>> /\ stack = <<>>

\* No two definitions of a name, whatever files they are in.
NoneTwice(decls) ==
  \A i, j \in DOMAIN decls :
    i < j /\ decls[i].kind = decls[j].kind /\ decls[i].name = decls[j].name
      => decls[i].kind = "function" \/ \E k \in {i, j} : decls[k].kind = "struct" /\ decls[k].form # "defined"

HasAll(decls, items) == \A k \in DOMAIN items : \E j \in DOMAIN decls : decls[j] = items[k]

\* What loads without an error has every declaration of every module it read, and
\* no two definitions of a name, whatever files they are in (AppendItems).
RootIsWhole ==
  /\ NoneTwice(root)
  /\ Done /\ errors = {} => \A name \in Keys : HasAll(root, prog.files[name].items)

Calls == [name : DOMAIN prog.files, next : Nat \ {0}]
TypeOK ==
  /\ prog \in {Programs[p] : p \in DOMAIN Programs}
  /\ stack \in Seq(Calls)
  /\ visited \in Seq(DOMAIN prog.files) /\ order \in Seq(DOMAIN prog.files)

-----------------------------------------------------------------------------
\* Why it is so.

Merged    == {order[k] : k \in DOMAIN order}
OnStack   == {stack[k].name : k \in DOMAIN stack}

\* What was read is either merged or still being loaded, and once.
EachOnce ==
  /\ Keys = Merged \cup OnStack
  /\ Merged \cap OnStack = {}
  /\ \A j, k \in DOMAIN stack : stack[j].name = stack[k].name => j = k
  /\ visited = <<>> => order = <<>>

\* A module on the stack is there because those below it reach it.
Chained ==
  /\ \A j, k \in DOMAIN stack : j <= k => Abstract!Reaches(stack[j].name, stack[k].name)
  /\ \A k \in DOMAIN stack : Abstract!Reaches(prog.main, stack[k].name)
  /\ visited # <<>> => prog.main \in DOMAIN prog.files

\* The imports that were followed have been read.
Followed ==
  \A k \in DOMAIN stack : \A i \in 1..(stack[k].next - 1) :
    i \in DOMAIN prog.files[stack[k].name].imports
      => ResolveImport(stack[k].name, prog.files[stack[k].name].imports[i]) \in Keys \cup {NoModule}

LoadInv == TypeOK /\ EachOnce /\ Chained /\ Followed

\* As long as nothing failed, what was merged is all there.
RootInv ==
  /\ root \in Seq(Declarations)
  /\ NoneTwice(root)
  /\ errors = {} => \A name \in Merged : HasAll(root, prog.files[name].items)
=============================================================================
