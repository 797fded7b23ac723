------------------------------ MODULE MoveInv -------------------------------
(***************************************************************************)
(* Why an accepted function does not use what it moved: the inductive      *)
(* invariant behind NoUseOfMoved and RefParamsRestored (module MoveRun),   *)
(* stated part by part for the runs to check and module MoveSafe_proofs to *)
(* prove.                                                                  *)
(***************************************************************************)
EXTENDS MoveRun

TypeOK ==
  /\ prog \in DOMAIN Programs
  /\ phase \in {"solve", "report", "done"}
  /\ pass \in 0..(MaxPass - 1)
  /\ blk \in 1..(Len(graph.blocks) + 1)
  /\ pos \in Nat \ {0}
  /\ in \in [BlocksOf(graph) -> State]
  /\ at = [x \in BlocksOf(graph) |-> at[x]]
  /\ \A x \in BlocksOf(graph) : at[x] \in [1..(NOps(x) + 1) -> State]
  /\ changed \in BOOLEAN /\ converged \in BOOLEAN
  /\ rb \in {0} \cup graph.reachable
  /\ rpos \in Nat \ {0}
  /\ moved \subseteq Paths
  /\ full \subseteq OptLocs
  /\ ints \in [IntVars -> 0..MaxInt]

\* Where each phase is.
PhaseInv ==
  /\ phase = "done" => blk = Len(graph.blocks) + 1
  /\ phase = "solve" => ~converged
  /\ phase # "solve" => ~changed
  /\ (blk \in graph.reachable /\ phase = "report") => pos <= NOps(blk) + 1

\* In graph g, with history h of states and entry states e: the first j - 1
\* operations of block x have been applied to its entry state ...
Stepped(g, h, e, x, j) ==
  /\ h[x][1] = e[x]
  /\ \A i \in 1..Len(Ops(g, x)) : i < j => h[x][i + 1] = Transfer(h[x][i], Ops(g, x)[i])

\* Joining `b` into `a` changes nothing.
Absorbs(a, b) == JoinState(a, b) = a

\* ... and its first k - 1 edges bring nothing new.
EdgesAbsorbed(g, h, e, x, k) ==
  \A s \in 1..Len(Succ(g, x)) :
    s < k => Absorbs(e[Succ(g, x)[s]], EdgeState(g, x, s, h[x][Len(Ops(g, x)) + 1]))

Settled(g, h, e, x) ==
  Stepped(g, h, e, x, Len(Ops(g, x)) + 1) /\ EdgesAbsorbed(g, h, e, x, Len(Succ(g, x)) + 1)

\* In a pass that has changed nothing yet, the blocks behind are settled.
SettledBehind ==
  (phase = "solve" /\ ~changed) =>
    /\ \A x \in graph.reachable : x < blk => Settled(graph, at, in, x)
    /\ blk \in graph.reachable =>
         Stepped(graph, at, in, blk, pos) /\ EdgesAbsorbed(graph, at, in, blk, EdgeNo)

\* What the passes end on when they settle is a fixpoint.
IsFixpoint == converged => \A x \in graph.reachable : Settled(graph, at, in, x)

\* The function is entered with everything there and nothing known.
EntryAbsorbs == Absorbs(in[Entry], Everywhere(Live))

\* What has been reported so far, from a fixpoint.
ReportedBehind ==
  (converged /\ phase # "solve") =>
    \A x \in graph.reachable : \A j \in 1..NOps(x) :
      (x < blk \/ (x = blk /\ j < pos)) =>
        \A kind \in Reports(at[x][j], Ops(graph, x)[j]) : <<x, j, kind>> \in found

RefParamsReported ==
  phase = "done" => (NotRestored # {} => <<Exit, 0, "refparam">> \in found)

\* What the run has taken is taken in the state the checker had there.
RunCovered ==
  IF rb = 0 THEN moved = {} /\ rpos = 1
  ELSE /\ Accepted
       /\ rpos <= NOps(rb) + 1
       /\ converged => \A q \in moved : at[rb][rpos].place[q] \in {Moved, Maybe}

IInv == /\ PhaseInv /\ SettledBehind /\ IsFixpoint /\ EntryAbsorbs
        /\ ReportedBehind /\ RefParamsReported /\ RunCovered

-----------------------------------------------------------------------------
\* What the passes must not do to invent nothing.

\* An optional place whose own fact decides what its taker may count on.
Carries(v) == v # NoNode /\ v.ty.opt /\ IsPlace(v) /\ v.key \in FactKeys

\* Operations that copy a fact from one key to another: the copy of a fact no
\* path has given yet is not "no information".
CopiesFact(op) ==
  \/ op.op = "Declare" /\ ~op.node.isRef /\ Carries(op.node.init)
  \/ /\ op.op = "Eval" /\ op.node.kind = "Assign" /\ Carries(op.node.value)
     /\ op.node.target.ty.opt /\ op.node.target.key # NoKey

\* The blocks the first pass has a state for when it comes to them: reached from
\* the entry by edges to later blocks only.
Forward(g) ==
  LET upTo[n \in 0..Len(g.blocks)] ==
        IF n = 0 THEN {}
        ELSE LET before == upTo[n - 1]
             IN  before \cup {x \in {n} \cap g.reachable :
                                \/ x = Entry
                                \/ \E y \in before : \E s \in DOMAIN Succ(g, y) : Succ(g, y)[s] = x}
  IN  upTo[Len(g.blocks)]

\* Facts are copied in such blocks only, and to places.
CopiesForward(g) ==
  \A x \in g.reachable : \A j \in DOMAIN Ops(g, x) :
    CopiesFact(Ops(g, x)[j]) =>
      x \in Forward(g) /\ (Ops(g, x)[j].op = "Eval" => IsPlace(Ops(g, x)[j].node.target))
=============================================================================
