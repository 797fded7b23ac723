------------------------------- MODULE Places -------------------------------
(***************************************************************************)
(* Places: how the move checker names them and what it remembers of them   *)
(* (src/src/Sema/MoveCheck/Places.c and the key functions of Facts.c).     *)
(*                                                                         *)
(* A place has a `path` when it is a variable and fields only, and is then *)
(* tracked for moves; and a `key`, which may also go through indices, under *)
(* which narrowing facts and refs are kept.  A key is a sequence of         *)
(* segments: names, and index spellings with the variables they mention.   *)
(* Place nodes are built bottom-up by the constructors below, so the       *)
(* recursion of PlaceKeyImpl over the base needs no recursive operator.    *)
(***************************************************************************)
EXTENDS Naturals, Sequences
LOCAL INSTANCE SequencesExt

CONSTANT Paths     \* the tracked places: paths rooted at owning locals

Unvisited == 0     \* no path has reached the block yet
Live      == 1
Moved     == 2
Maybe     == 3
PlaceStates == {Unvisited, Live, Moved, Maybe}

\* Bugs Join could have: the last path's state is kept; a path not taken yet
\* counts as a disagreement.
JoinTakesLatest(a, b)     == IF b = Unvisited THEN a ELSE b
JoinCountsUnvisited(a, b) == IF a = b THEN a ELSE Maybe

\* Two states that differ meet in Maybe; Unvisited is no information.
Join(a, b) == IF a = Unvisited THEN b
              ELSE IF b = Unvisited \/ a = b THEN a ELSE Maybe

IsAncestor(a, d) == IsStrictPrefix(a, d)

\* The place a part is written into.
WholeOf(p) == Front(p)

\* A place is unusable while it or an ancestor is not Live; a part matters only
\* when the whole is used.
Touches(q, p, whole) == q = p \/ IsAncestor(q, p) \/ (whole /\ IsAncestor(p, q))

\* Bugs PlaceBlocker could have: a place moved on some paths only passes, or a
\* whole with a part moved out.
BlockerMissesMaybe(state, p, whole) == {q \in Paths : state[q] = Moved /\ Touches(q, p, whole)}
BlockerMissesParts(state, p, whole) == {q \in Paths : state[q] # Live /\ Touches(q, p, FALSE)}

PlaceBlocker(state, p, whole) == {q \in Paths : state[q] # Live /\ Touches(q, p, whole)}

\* Marks a place Moved, or makes it and every part of it Live again.
SetPlace(state, p, value) ==
  [q \in Paths |-> IF q = p \/ (value = Live /\ IsAncestor(p, q)) THEN value ELSE state[q]]

-----------------------------------------------------------------------------
\* Segments and keys.

NameSeg(n)            == [index |-> FALSE, text |-> n, literal |-> FALSE, words |-> {}]
IndexSeg(t, lit, ws)  == [index |-> TRUE, text |-> t, literal |-> lit, words |-> ws]
AnyIndex              == IndexSeg("?", FALSE, {})
NoKey                 == <<>>
NoPath                == <<>>

\* A bug: two indices alias only when spelled alike.
SegsSpelledAlike(a, b) == a = b

\* Two segments may name the same thing: literal indices only when they are the
\* same literal, any other index always, names only when equal.
SegsAlias(a, b) == (a.index /\ b.index /\ ~(a.literal /\ b.literal)) \/ a = b

\* `k` may be the place `key` (with selfToo) or something under it.
UnderKey(k, key, selfToo) ==
  /\ Len(k) > Len(key) \/ (selfToo /\ Len(k) = Len(key))
  /\ \A s \in 1..Len(key) : SegsAlias(key[s], k[s])

-----------------------------------------------------------------------------
\* Index expressions: what the program computes (form, var, lit) beside how the
\* checker spells it.  A cast is spelled as its operand and a call not at all.

IxVar(v)     == [form |-> "var",     var |-> v,  lit |-> 0, seg |-> IndexSeg(v, FALSE, {<<NameSeg(v)>>})]
IxLit(n)     == [form |-> "lit",     var |-> "", lit |-> n, seg |-> IndexSeg(ToString(n), TRUE, {})]
IxPlus(v)    == [form |-> "plus",    var |-> v,  lit |-> 1,
                 seg |-> IndexSeg("(" \o v \o "+1)", FALSE, {<<NameSeg(v)>>})]
IxCast(v)    == [IxVar(v) EXCEPT !.form = "cast"]
IxCastLit(n) == [IxLit(n) EXCEPT !.form = "castlit"]
IxCall(n)    == [form |-> "lit", var |-> "", lit |-> n, seg |-> AnyIndex]

Spelled(ix) == ix.seg # AnyIndex

-----------------------------------------------------------------------------
\* Place expressions.  `key` is what FactPlaceOf finds (NoKey when an index has
\* no spelling), `lax` what PlaceKeyImpl finds with `[?]` for such an index,
\* `through` the optional places read on the way, `steps` what the program does
\* to get there.

Var(x, ty) ==
  [kind |-> "Place", name |-> "", path |-> <<x>>, key |-> <<NameSeg(x)>>, lax |-> <<NameSeg(x)>>,
   ty |-> ty, copied |-> FALSE, through |-> {}, steps |-> <<[at |-> x]>>]

\* A `ref` local stands for the place it was bound to (AliasTarget).
RefVar(x, bound) == [Var(x, bound.ty) EXCEPT !.key = bound.lax, !.lax = bound.lax]

Through(n) == n.through \cup (IF n.ty.opt THEN {[key |-> n.key, steps |-> n.steps]} ELSE {})

Extend(k, seg) == IF k = NoKey THEN NoKey ELSE Append(k, seg)

Fld(n, f, ty) ==
  [base |-> n] @@
  [n EXCEPT !.kind = IF n.kind = "Place" THEN "Place" ELSE "Member",
            !.path = IF n.kind = "Place" THEN Append(@, f) ELSE NoPath,
            !.key = Extend(@, NameSeg(f)), !.lax = Extend(@, NameSeg(f)),
            !.ty = ty, !.through = Through(n), !.steps = Append(@, [at |-> f])]

Elem(n, ix, ty) ==
  [base |-> n, index |-> [kind |-> "IndexValue", name |-> "", ix |-> ix]] @@
  [n EXCEPT !.kind = "Index", !.path = NoPath,
            !.key = IF Spelled(ix) THEN Extend(@, ix.seg) ELSE NoKey,
            !.lax = Extend(@, ix.seg),
            !.ty = ty, !.through = Through(n), !.steps = Append(@, [ix |-> ix])]

\* A box handed to a bare `T`, or a bare struct element, is copied: the place
\* keeps its value (CollectCopies).
Copied(n) == [n EXCEPT !.copied = TRUE]

TrackedPlace(n) == n.kind = "Place" /\ n.path \in Paths
IsPlace(n)      == n.kind \in {"Place", "Member", "Index"}
=============================================================================
