------------------------------ MODULE MCLoader ------------------------------
(***************************************************************************)
(* Programs of up to three modules, with every import graph; files of the  *)
(* same name beside the importer and in two import directories; and a host *)
(* that answers for the imports.                                           *)
(***************************************************************************)
EXTENDS ModuleLoader
LOCAL INSTANCE TLC
LOCAL INSTANCE SequencesExt
LOCAL INSTANCE FiniteSetsExt

M == <<"m">>   A == <<"a">>   B == <<"b">>
Names3  == {M, A, B}

Struct(name, form) == [kind |-> "struct", name |-> name, form |-> form]
Decl(kind, name)   == [kind |-> kind, name |-> name, form |-> "defined"]

File(imports, items) == [imports |-> imports, items |-> items]
Disk(files, dirs)    == [main |-> M, files |-> files, dirs |-> dirs, hosted |-> FALSE, answers |-> <<>>]

\* A file may import itself, one twice, or one that is not there.
ImportLists == << <<>>, <<A>>, <<B>>, <<A, B>>, <<B, A>>, <<M>>, <<A, A>>, << <<"gone">>, A>>, <<M, A, B>> >>
Lists       == Len(ImportLists)
Graph(k)    == (M :> ImportLists[1 + (k % Lists)]) @@ (A :> ImportLists[1 + ((k \div Lists) % Lists)])
                 @@ (B :> ImportLists[1 + k \div (Lists * Lists)])

\* What two files declare.
Clashes == {<<Struct("S", x), Struct("S", y)>> : x, y \in {"forward", "defined", "extern"}}
             \cup {<<Decl(k, "N"), Decl(k, "N")>> : k \in {"handle", "enum", "global", "function"}}
             \cup {<<Decl("global", "N"), Decl("enum", "N")>>}

GraphProgram(g) == Disk([n \in Names3 |-> File(g[n], <<Decl("function", n[1])>>)], <<>>)
ClashProgram(c, imports) ==
  Disk((M :> File(imports, <<>>)) @@ (A :> File(<<>>, <<c[1]>>)) @@ (B :> File(<<A>>, <<c[2]>>)), <<>>)

\* The same name beside the importer and in the import directories.
D1 == <<"d">>  D2 == <<"e">>
SearchProgram(at) ==
  Disk([n \in {M} \cup at |-> File(IF n = M THEN <<A, B>> ELSE IF Last(n) = "a" THEN <<B>> ELSE <<A>>, <<Decl("function", "f")>>)],
       <<D1, D2>>)
Places4 == {A, B, D1 \o A, D1 \o B, D2 \o A, D2 \o B}

\* A host names the modules: one name for two imports, or two for one.
HostProgram(an, bn) ==
  [Disk([n \in {M, A, B} |-> File(IF n = M THEN <<A, B>> ELSE <<A>>, <<Decl("function", n[1])>>)], <<>>)
     EXCEPT !.hosted = TRUE, !.answers = (<<M, A>> :> an) @@ (<<M, B>> :> bn) @@ (<<A, A>> :> B)]

Listed(S) == FoldSet(LAMBDA x, acc : Append(acc, x), <<>>, S)
ProgramTable ==
  [k \in 1..(Lists * Lists * Lists) |-> GraphProgram(Graph(k - 1))]
    \o Listed({ClashProgram(c, imports) : c \in Clashes, imports \in {<<A, B>>, <<B, A>>}})
    \o Listed({SearchProgram(at) : at \in SUBSET Places4})
    \o Listed({HostProgram(an, bn) : an, bn \in {A, B, M, NoModule}})
    \o <<Disk(A :> File(<<>>, <<>>), <<>>)>>
MCPrograms  == ProgramTable
=============================================================================
