------------------------------- MODULE Facts -------------------------------
(***************************************************************************)
(* Narrowing and ref facts (src/src/Sema/MoveCheck/Facts.c): which optional *)
(* places are proven non-empty, which `ref` locals are still valid, and    *)
(* what each operation of the graph does to both.                          *)
(*                                                                         *)
(* A fact state is [fact, ref]: the byte of every optional place's key and *)
(* of every `ref` local.  The sequential updates of the code (kill, then   *)
(* set) are sets of keys here: what an operation forgets (kills), what it  *)
(* leaves known empty (empties), and what it proves.                       *)
(***************************************************************************)
EXTENDS Places, Ast
LOCAL INSTANCE SequencesExt

CONSTANTS FactKeys,    \* keys of the optional places
          Refs,        \* names of the `ref` locals
          RefTarget,   \* the key each was bound to (the alias table)
          GlobalNames  \* roots that are not locals

FactNone     == 1
FactNonEmpty == 2
FactDisagree == 3
FactEmpty    == 4
FactStates   == {Unvisited, FactNone, FactNonEmpty, FactDisagree, FactEmpty}

Root(key)     == key[1].text
RootedIn(k, names) == k # NoKey /\ Root(k) \in names

-----------------------------------------------------------------------------
\* What is forgotten.  `Kills` is a set of keys whose facts go and a set of refs.

NoKills == [facts |-> {}, refs |-> {}]
Both(x, y) == [facts |-> x.facts \cup y.facts, refs |-> x.refs \cup y.refs]

\* A bug: a ref to the very place that goes is kept.
KillRefsBelow(key, selfToo) == {r \in Refs : RefTarget[r] # NoKey /\ UnderKey(RefTarget[r], key, FALSE)}

KillRefs(key, selfToo) == {r \in Refs : RefTarget[r] # NoKey /\ UnderKey(RefTarget[r], key, selfToo)}

KillFacts(key, selfToo) ==
  [facts |-> {k \in FactKeys : UnderKey(k, key, selfToo)}, refs |-> KillRefs(key, selfToo)]

\* Facts about elements indexed by the variable (or place) spelled `words`.
KillIndexVar(words) ==
  [facts |-> {k \in FactKeys : \E s \in DOMAIN k : words \in k[s].words}, refs |-> {}]

KillGlobals ==
  [facts |-> {k \in FactKeys : RootedIn(k, GlobalNames)},
   refs  |-> {r \in Refs : RootedIn(RefTarget[r], GlobalNames)}]

\* A write set [all, keys]: the globals a function, or the drop methods of a
\* type, may write.
KillWrites(w) ==
  IF w.all THEN KillGlobals
  ELSE [facts |-> UNION {KillFacts(g, TRUE).facts : g \in w.keys},
        refs  |-> UNION {KillFacts(g, TRUE).refs : g \in w.keys}]

\* Writing a place whose key cannot be spelled forgets nothing.
KillPlaceOf(n, selfToo) ==
  IF ~IsPlace(n) \/ n.key = NoKey THEN NoKills
  ELSE Both(KillFacts(n.key, selfToo),
            KillIndexVar(IF n.kind = "Place" /\ Len(n.path) = 1
                           THEN n.key ELSE <<NameSeg(Root(n.key))>>))

-----------------------------------------------------------------------------
\* Consuming a value.

Fact(fs, key) == IF key \in FactKeys THEN fs.fact[key] ELSE FactNone
Proven(fs, n) == IsPlace(n) /\ Fact(fs, n.key) = FactNonEmpty

\* May the taker count the value as non-empty?
Proves(fs, v) == v # NoNode /\ (~v.ty.opt \/ Proven(fs, v))

\* What moving `v` out forgets, and the key it leaves known empty.
ConsumeKills(v, move) ==
  IF v = NoNode \/ ~move \/ ~IsPlace(v) \/ ~v.ty.owns THEN NoKills
  ELSE IF ~v.ty.opt
    THEN IF v.copied \/ v.lax = NoKey THEN NoKills ELSE KillFacts(v.lax, TRUE)
    ELSE IF v.lax = NoKey THEN NoKills
         ELSE KillFacts(IF v.key # NoKey THEN v.key ELSE v.lax, TRUE)

ConsumeEmpties(v, move) ==
  IF v # NoNode /\ move /\ IsPlace(v) /\ v.ty.owns /\ v.ty.opt
    THEN {v.key} \cap FactKeys ELSE {}

\* Handing an unproven optional to something that wants the value is reported.
ConsumeUnproven(fs, v, wants) == v # NoNode /\ wants /\ v.ty.opt /\ ~Proven(fs, v)

\* Reading through a `T?` needs the proof for every optional place on the way.
Unproven(fs, n) == \E t \in n.through : Fact(fs, t.key) # FactNonEmpty

-----------------------------------------------------------------------------
\* One update of a fact state.

Forget(fs, kills, empties) ==
  [fact |-> [k \in FactKeys |-> IF k \in empties THEN FactEmpty
                                ELSE IF k \in kills.facts THEN FactNone ELSE fs.fact[k]],
   ref  |-> [r \in Refs |-> IF r \in kills.refs THEN Moved ELSE fs.ref[r]]]

SetFact(fs, key, value) == [fs EXCEPT !.fact = [k \in FactKeys |-> IF k = key THEN value ELSE @[k]]]

Consume(fs, v, move) == Forget(fs, ConsumeKills(v, move), ConsumeEmpties(v, move))

\* Several values consumed in order: a key is empty only if nothing after the
\* move that emptied it forgets it again.
ConsumeEach(fs, n, Value(_), Move(_), Then(_)) ==
  LET Kills(i) == Both(ConsumeKills(Value(i), Move(i)), Then(i))
      Empties(i) == ConsumeEmpties(Value(i), Move(i)) \ Then(i).facts
      kills == [facts |-> UNION {Kills(i).facts : i \in 1..n},
                refs  |-> UNION {Kills(i).refs : i \in 1..n}]
      empties == {k \in FactKeys : \E i \in 1..n :
                    k \in Empties(i) /\ \A l \in (i+1)..n : k \notin Kills(l).facts \ Empties(l)}
  IN  Forget(fs, kills, empties)

-----------------------------------------------------------------------------
\* The effect of one operation (FactStep and the functions it dispatches to).

\* A declaration binds a fresh variable: nothing known under its name holds.
FactDeclare(fs, n) ==
  LET proves == ~n.isRef /\ Proves(fs, n.init)
      name   == <<NameSeg(n.name)>>
      taken  == IF n.isRef THEN fs ELSE Consume(fs, n.init, TRUE)
      fresh  == Forget(taken, Both(KillFacts(name, TRUE), KillIndexVar(name)), {})
      bound  == [fresh EXCEPT !.ref = [r \in Refs |-> IF r = n.name THEN Live ELSE @[r]]]
  IN  IF proves THEN SetFact(bound, name, FactNonEmpty) ELSE bound

\* The owning locals the block declares itself drop here.
FactScopeExit(fs, n) ==
  LET dropped == {i \in DOMAIN n.stmts : /\ n.stmts[i].kind = "VarDecl"
                                         /\ ~n.stmts[i].isRef /\ n.stmts[i].ty.owns}
      kills(i) == KillWrites(n.stmts[i].ty.drops)
  IN  Forget(fs, [facts |-> UNION {kills(i).facts : i \in dropped},
                  refs  |-> UNION {kills(i).refs : i \in dropped}], {})

\* Consume the value, drop what the target held, then forget the target.
FactAssign(fs, n) ==
  LET taken   == Consume(fs, n.value, TRUE)
      dropped == IF n.target.ty.owns
                   THEN Forget(taken, KillWrites(n.target.ty.drops), {}) ELSE taken
      written == Forget(dropped, KillPlaceOf(n.target, TRUE), {})
  IN  IF Proves(fs, n.value) /\ n.target.ty.opt /\ n.target.key # NoKey
        THEN SetFact(written, n.target.key, FactNonEmpty) ELSE written

\* The variable an array builtin spells its array with.
ArrayName(n) == IF IsPlace(n) /\ n.kind # "Index" THEN {<<NameSeg(n.steps[Len(n.steps)].at)>>} ELSE {}

\* Pushing keeps every element but may move them; the other mutators change them.
FactMutate(fs, name, arr) ==
  IF name \in {"array_push", "array_reserve"}
    THEN Forget(fs, [facts |-> UNION {KillIndexVar(w).facts : w \in ArrayName(arr)},
                     refs  |-> IF IsPlace(arr) /\ arr.lax # NoKey
                                 THEN KillRefs(arr.lax, FALSE) ELSE {}], {})
    ELSE Forget(fs, KillPlaceOf(arr, FALSE), {})

FactIntrinsic(fs, n) ==
  LET Value1(i) == n.args[i].arg
      Move(i)   == n.args[i].byValue
      None(i)   == NoKills
      taken     == ConsumeEach(fs, Len(n.args), Value1, Move, None)
  IN  IF n.callee = "drop"
        THEN Forget(taken, KillWrites(n.args[1].arg.ty.drops), {})
        ELSE FactMutate(taken, n.callee, n.args[1].arg)

\* Every argument (or element of a literal, which writes nothing) is consumed in turn and a mutable `ref` one forgotten; then
\* what the callee may write.
ArgRefKills(a) == IF a.ref = "no" THEN NoKills ELSE KillPlaceOf(a.arg, a.ref = "optional")

FactsAfterArgs(fs, n, count) ==
  LET ArgValue(i) == n.args[i].arg
      Move(i)     == n.args[i].byValue
      RefKills(i) == ArgRefKills(n.args[i])
  IN  ConsumeEach(fs, count, ArgValue, Move, RefKills)

FactCall(fs, n) == Forget(FactsAfterArgs(fs, n, Len(n.args)), KillWrites(n.writes), {})

FactEval(fs, n) ==
  CASE n.kind = "Assign"    -> FactAssign(fs, n)
    [] n.kind = "IncDec"    -> Forget(fs, KillPlaceOf(n.operand, TRUE), {})
    [] n.kind = "Intrinsic" -> FactIntrinsic(fs, n)
    [] n.kind \in {"Call", "Init"} -> FactCall(fs, n)
    [] OTHER -> fs

FactStep(fs, op) ==
  CASE op.op = "Declare"   -> FactDeclare(fs, op.node)
    [] op.op = "ScopeExit" -> FactScopeExit(fs, op.node)
    [] op.op = "Return"    -> Consume(fs, op.node.value, TRUE)
    [] op.op = "Eval"      -> FactEval(fs, op.node)
    [] OTHER -> fs

-----------------------------------------------------------------------------
\* What the reporting pass says of an operation, in the state before it (narrow)
\* and after it (dangle).

NarrowReport(fs, op) ==
  LET n == op.node
      eval(kinds) == op.op = "Eval" /\ n.kind \in kinds
  IN  \/ op.op = "Declare" /\ ~n.isRef /\ ConsumeUnproven(fs, n.init, n.wants)
      \/ op.op = "Return" /\ ConsumeUnproven(fs, n.value, n.wants)
      \/ eval({"Place", "Member", "Index"}) /\ Unproven(fs, n)
      \/ eval({"Assign"}) /\ \/ IsPlace(n.target) /\ Unproven(fs, n.target)
                             \/ ConsumeUnproven(fs, n.value, ~n.target.ty.opt)
      \/ eval({"Call", "Init"}) /\ \E i \in DOMAIN n.args :
            ConsumeUnproven(FactsAfterArgs(fs, n, i - 1), n.args[i].arg, n.args[i].wants)

\* The variable a place starts from.
RootIdent(n) == n.steps[1].at

\* A `ref` used after what it was bound to changed.
DanglingCheck(fs, op) ==
  /\ op.op = "Eval"
  /\ LET n == IF op.node.kind = "Assign" THEN op.node.target ELSE op.node
     IN  IsPlace(n) /\ RootIdent(n) \in Refs /\ fs.ref[RootIdent(n)] # Live

\* What a null test is folded to: "set" or "empty" when the place is proven so
\* wherever the test is reached.
NullTestFold(fs, n) ==
  LET k == IF IsPlace(n.operand) THEN Fact(fs, n.operand.key) ELSE FactNone
  IN  IF k = FactNonEmpty THEN "set" ELSE IF k = FactEmpty THEN "empty" ELSE "runtime"
=============================================================================
