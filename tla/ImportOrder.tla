----------------------------- MODULE ImportOrder -----------------------------
(***************************************************************************)
(* What loading a program promises: every module the main one reaches is   *)
(* merged once, and after the modules it imports, but for those that import *)
(* it back.                                                                *)
(***************************************************************************)
EXTENDS Sequences

VARIABLES main,      \* the first module, <<>> when there is none
          imports,   \* of each module, the set of modules it imports
          order      \* the modules merged so far

importVars == <<main, imports, order>>

Modules == DOMAIN imports
Merged  == {order[k] : k \in DOMAIN order}

\* b is in every set that holds a and what its members import.
Reaches(a, b) ==
  \A S \in SUBSET Modules : a \in S /\ (\A x \in S : imports[x] \subseteq S) => b \in S

Merge(n) ==
  /\ main \in Modules /\ Reaches(main, n)
  /\ n \notin Merged
  /\ \A i \in imports[n] : i \in Merged \/ Reaches(i, n)
  /\ order' = Append(order, n)
  /\ UNCHANGED <<main, imports>>

Init == order = <<>>
Next == \E n \in Modules : Merge(n)
Spec == Init /\ [][Next]_importVars /\ WF_importVars(Next)
=============================================================================
