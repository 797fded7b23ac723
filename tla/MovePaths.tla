----------------------------- MODULE MovePaths ------------------------------
(***************************************************************************)
(* What the move checker's dataflow stands for: the reports a walk along   *)
(* every path of the graph would make, each path with the state of its own *)
(* (no join, no pass, no order of blocks).  The solver is compared with it. *)
(***************************************************************************)
EXTENDS MoveSolver

CONSTANT MaxWalk    \* steps of a walk
ASSUME MaxWalkAssumption == MaxWalk \in Nat

\* One step of a walk: the next operation of the block, or an edge out of it.
WalkSteps(g, w) ==
  IF w.pos <= Len(Ops(g, w.blk))
    THEN {[w EXCEPT !.pos = @ + 1, !.st = Transfer(@, Ops(g, w.blk)[w.pos])]}
    ELSE {[blk |-> Succ(g, w.blk)[s], pos |-> 1, st |-> EdgeState(g, w.blk, s, w.st)] :
            s \in DOMAIN Succ(g, w.blk)}

Start == [blk |-> Entry, pos |-> 1, st |-> Everywhere(Live)]
Walks(g) ==
  LET walks[n \in 0..MaxWalk] ==
        IF n = 0 THEN {Start}
        ELSE LET shorter == walks[n - 1] IN shorter \cup UNION {WalkSteps(g, w) : w \in shorter}
  IN  walks[MaxWalk]

ReportsOnPaths(g) ==
  UNION {{<<w.blk, w.pos, kind>> : kind \in Reports(w.st, Ops(g, w.blk)[w.pos])} :
           w \in {v \in Walks(g) : v.pos <= Len(Ops(g, v.blk))}}

\* The `ref` parameters some path leaves with a part moved out.
LeftMovedOnPaths(g) ==
  {p \in Paths : p[1] \in g.refParams
                   /\ \E w \in Walks(g) : w.blk = Exit /\ w.pos = 1 /\ w.st.place[p] = Moved}

\* MaxWalk steps are enough: one more finds nothing new.
WalksClosed(g) == LET all == Walks(g) IN \A w \in all : WalkSteps(g, w) \subseteq all

\* Every block the solver steps is on some path from the entry (MarkReachable).
ReachedOnly(g) ==
  LET reached[n \in 0..Len(g.blocks)] ==
        IF n = 0 THEN {Entry}
        ELSE LET before == reached[n - 1]
             IN  before \cup UNION {{Succ(g, y)[s] : s \in DOMAIN Succ(g, y)} : y \in before}
  IN  g.reachable \subseteq reached[Len(g.blocks)]

\* All of them, for every function (TLC evaluates the table once).
PathReports ==
  LET table == Programs
  IN  {[fn |-> f,
        reports |-> ReportsOnPaths(table[f])
                      \cup {<<Exit, 0, "refparam">> : p \in LeftMovedOnPaths(table[f])}] :
         f \in DOMAIN table}

\* Whatever is wrong on some path is reported: the join loses nothing.
ReportsEveryPath ==
  phase = "done" => \A row \in PathReports : row.fn = prog => row.reports \subseteq found

\* Whatever is reported is wrong on some path: the join, the passes and the
\* order of the blocks invent nothing.
ReportsOnlyPaths ==
  phase = "done" => \A row \in PathReports : row.fn = prog => found \subseteq row.reports
=============================================================================
