--------------------------- MODULE LoanRun_proofs ---------------------------
(***************************************************************************)
(* For every module that is resolved as LoanRun assumes: what a run writes *)
(* is in the set of every function that waits for it, and an initializer   *)
(* uses the globals before its own only.                                   *)
(***************************************************************************)
EXTENDS LoanRun, WriteSets_proofs

-----------------------------------------------------------------------------
\* Sequences whose elements have no type of their own.

IsSeq(s) == Len(s) \in Nat /\ s = [k \in 1..Len(s) |-> s[k]]

LEMMA SeqSame ==
  ASSUME NEW n \in Nat, NEW s, s = [k \in 1..n |-> s[k]]
  PROVE  IsSeq(s) /\ Len(s) = n
<1>1. s \in Seq({s[k] : k \in 1..n})
  OBVIOUS
<1> QED BY <1>1 DEF IsSeq

LEMMA SeqPush ==
  ASSUME NEW s, IsSeq(s), NEW e
  PROVE  /\ IsSeq(Append(s, e)) /\ Len(Append(s, e)) = Len(s) + 1
         /\ Append(s, e)[Len(s) + 1] = e /\ \A k \in 1..Len(s) : Append(s, e)[k] = s[k]
<1> DEFINE E == {s[k] : k \in 1..Len(s)} \cup {e}
           t == Append(s, e)
<1>1. s \in Seq(E) /\ e \in E /\ Len(s) \in Nat
  BY DEF IsSeq
<1> HIDE DEF E
<1>2. t \in Seq(E) /\ Len(t) = Len(s) + 1 /\ t[Len(s) + 1] = e /\ \A k \in 1..Len(s) : t[k] = s[k]
  BY <1>1
<1> HIDE DEF t
<1>3. IsSeq(t)
  BY <1>2 DEF IsSeq
<1> QED BY <1>2, <1>3 DEF t

LEMMA SeqPop ==
  ASSUME NEW s, IsSeq(s), Len(s) > 1
  PROVE  LET t == SubSeq(s, 1, Len(s) - 1)
         IN  IsSeq(t) /\ Len(t) = Len(s) - 1 /\ \A k \in 1..(Len(s) - 1) : t[k] = s[k]
<1>1. s \in Seq({s[k] : k \in 1..Len(s)})
  BY DEF IsSeq
<1> QED BY <1>1, SeqSame DEF IsSeq

LEMMA SeqJoin ==
  ASSUME NEW s, IsSeq(s), Len(s) >= 1, NEW t, IsSeq(t)
  PROVE  /\ IsSeq(s \o t) /\ Len(s \o t) = Len(s) + Len(t) /\ (s \o t)[1] = s[1]
         /\ \A k \in 1..Len(s) : (s \o t)[k] = s[k]
         /\ \A k \in 1..Len(t) : (s \o t)[Len(s) + k] = t[k]
<1> DEFINE E == {s[k] : k \in 1..Len(s)} \cup {t[k] : k \in 1..Len(t)}
<1>1. s \in Seq(E) /\ t \in Seq(E)
  BY DEF IsSeq
<1>2. Len(s) \in Nat /\ Len(t) \in Nat
  BY DEF IsSeq
<1> HIDE DEF E
<1> DEFINE u == s \o t
<1>3. /\ u \in Seq(E) /\ Len(u) = Len(s) + Len(t)
      /\ \A k \in 1..Len(s) : u[k] = s[k]
      /\ \A k \in 1..Len(t) : u[Len(s) + k] = t[k]
  BY <1>1, <1>2
<1> HIDE DEF u
<1>4. IsSeq(u) /\ u[1] = s[1]
  BY <1>2, <1>3 DEF IsSeq
<1> QED BY <1>3, <1>4 DEF u

-----------------------------------------------------------------------------
\* The invariant, of a module `m`, the sets `ws` and the calls `st`.

ParamsOf(fn) == {fn.params[k] : k \in DOMAIN fn.params}

\* A place that is lent, and the frame of a call.
IsLoan(v) == /\ v = [at |-> v.at, via |-> v.via, ok |-> v.ok]
             /\ IsSeq(v.at) /\ Len(v.at) >= 1
IsFrame(f, fns) ==
  /\ f = [pos |-> f.pos, vals |-> f.vals, held |-> f.held, refs |-> f.refs, todo |-> f.todo]
  /\ f.pos \in Nat \ {0} /\ f.todo \in Seq(fns)
  /\ f.held = [x \in DOMAIN f.held |-> f.held[x]] /\ \A x \in DOMAIN f.held : IsLoan(f.held[x])
  /\ \A r \in DOMAIN f.refs : IsLoan(f.refs[r])

Shape ==
  /\ IsSeq(frames) /\ Top = Len(stack) + 1 /\ Len(stack) <= MaxDepth
  /\ \A k \in 1..Top : IsFrame(frames[k], Functions)
  /\ DOMAIN frames[1].held = {} /\ DOMAIN frames[1].refs = {}
  /\ verdict # "accepted" => Top = 1 /\ frames[1].todo = <<>>
  /\ verdict = "accepted" => phase = "done"
  /\ ready \in Nat

\* A write to this storage through these parameters is in the sets of the calls up to
\* the k-th frame's, but for those that pass it on as a parameter.
GlobalIn(m, at) == \E g \in DOMAIN m.globals : m.globals[g].name = at[1]
DeclIn(w, at)   == w.all \/ \E key \in w.keys : Matches(key, at)
SafeIn(m, ws, st, k, at, via) ==
  GlobalIn(m, at) => \A j \in 2..k : (\A u \in via : j < u[1]) => DeclIn(ws[st[j - 1]], at)

\* What a place of the k-th frame stands for: a global as it is spelled, or something
\* that may be written when the place may.
PlaceIn(m, ws, st, k, n, v) ==
  LET fn == FnsOf(m)[st[k - 1]]
  IN  /\ LaxRoot(n) \notin fn.locals => Fits(n.lax, v.at)
      /\ LaxRoot(n) \in fn.locals \ fn.const => SafeIn(m, ws, st, k, v.at, v.via)

HeldIn(m, ws, st, k, f) ==
  LET fn == FnsOf(m)[st[k - 1]]
  IN  \A x \in DOMAIN f.held :
        /\ x \in ParamsOf(fn)
        /\ x \notin fn.const => SafeIn(m, ws, st, k, f.held[x].at, {<<k, x>>} \cup f.held[x].via)
RefsIn(m, ws, st, k, f) ==
  LET fn == FnsOf(m)[st[k - 1]]
  IN  /\ \A r \in DOMAIN f.refs : \E b \in Binders(fn) :
           b < f.pos /\ fn.ops[b].node.name = r /\ PlaceIn(m, ws, st, k, fn.ops[b].node.init, f.refs[r])
      /\ \A b \in Binders(fn) : b < f.pos => fn.ops[b].node.name \in DOMAIN f.refs
TodoIn(ws, st, k, f) == \A j \in DOMAIN f.todo : Covers(ws[st[k - 1]], ws[f.todo[j]])
FrameIn(m, ws, st, k, f) == HeldIn(m, ws, st, k, f) /\ RefsIn(m, ws, st, k, f) /\ TodoIn(ws, st, k, f)

\* What the drop methods write is in the sets of the functions that run them: the
\* passes see to it of calls only.
DropsCovered ==
  \A f \in Functions : \A pos \in DOMAIN FnsOf(mod)[f].ops :
    LET drops == DropsOf(FnsOf(mod)[f].ops[pos])
    IN  \A j \in DOMAIN drops : Covers(sets[f], sets[drops[j]])

RunInv == verdict = "accepted" /\ DropsCovered => CoversCalls /\ \A k \in 2..Top : FrameIn(mod, sets, stack, k, frames[k])

-----------------------------------------------------------------------------
\* Storage, and what it stands for.

\* A longer place is matched by the keys of a shorter one, and is as safe.
LEMMA LongerSafe ==
  ASSUME NEW at, IsSeq(at), Len(at) >= 1, NEW tail, IsSeq(tail)
  PROVE  /\ \A key : Matches(key, at) => Matches(key, at \o tail)
         /\ \A m, ws, st, k, via : SafeIn(m, ws, st, k, at, via) => SafeIn(m, ws, st, k, at \o tail, via)
<1> DEFINE all == at \o tail
<1>1. /\ Len(at) \in Nat /\ Len(tail) \in Nat /\ Len(all) = Len(at) + Len(tail) /\ all[1] = at[1]
      /\ \A k \in 1..Len(at) : all[k] = at[k]
  BY SeqJoin DEF IsSeq
<1> HIDE DEF all
<1>2. \A key : Len(key) \in Nat /\ Matches(key, at) => Matches(key, all)
  BY <1>1 DEF Matches
<1> QED BY <1>1, <1>2 DEF SafeIn, GlobalIn, DeclIn, all

LEMMA JoinLoan ==
  ASSUME NEW v, IsLoan(v), NEW tail, IsSeq(tail)
  PROVE  IsSeq(v.at \o tail) /\ Len(v.at \o tail) >= 1
<1>1. IsSeq(v.at) /\ Len(v.at) >= 1 /\ Len(v.at) \in Nat /\ Len(tail) \in Nat
  BY DEF IsLoan, IsSeq
<1>2. IsSeq(v.at \o tail) /\ Len(v.at \o tail) = Len(v.at) + Len(tail)
  BY <1>1, SeqJoin
<1> QED BY <1>1, <1>2

\* What the assumption says of the module of a run.
LEMMA Resolved ==
  ASSUME SetTypes
  PROVE  /\ ModuleResolved(mod) /\ Functions = DOMAIN FnsOf(mod)
         /\ \A f \in Functions : FnResolved(mod, FnsOf(mod)[f])
<1>1. PICK name \in DOMAIN Modules : mod = Modules[name]
  BY DEF SetTypes
<1>2. ModuleResolved(mod)
  BY <1>1, ResolvedAssumption
<1>3. \A f \in DOMAIN FnsOf(mod) : FnResolved(mod, FnsOf(mod)[f])
  BY <1>2 DEF ModuleResolved
<1> QED BY <1>2, <1>3 DEF Functions

\* The names of locals in storage are no globals.
LEMMA LocalStorage ==
  ASSUME SetTypes, NEW f \in Functions, NEW x \in FnsOf(mod)[f].locals, NEW k \in 1..(MaxDepth + 1), NEW at,
         at[1] = InFrame(k, x)
  PROVE  ~GlobalIn(mod, at)
BY Resolved DEF ModuleResolved, GlobalIn, Functions

\* The rest of a place.
LEMMA TailIs ==
  ASSUME NEW n, HasRoot(n)
  PROVE  IsSeq(TailOf(n)) /\ DOMAIN TailOf(n) = 1..Len(TailOf(n))
<1>1. Len(n.steps) - 1 \in Nat
  BY DEF HasRoot
<1>2. TailOf(n) = [s \in 1..(Len(n.steps) - 1) |-> TailOf(n)[s]]
  BY DEF TailOf
<1> QED BY <1>1, <1>2, SeqSame DEF IsSeq

\* The function of a frame, and the frame.
LEMMA TopIs ==
  ASSUME SetTypes, Shape, NEW k \in 2..Top
  PROVE  /\ k - 1 \in DOMAIN stack /\ stack[k - 1] \in Functions /\ IsFrame(frames[k], Functions)
         /\ k \in 1..(MaxDepth + 1) /\ Top \in Nat
BY MaxDepthAssumption DEF SetTypes, Shape, IsSeq

\* What a `ref` local stands for, one step further.
LEMMA ThroughRef ==
  ASSUME NEW v, IsLoan(v), NEW n, NEW bound, IsSeq(TailOf(n)), Fits(bound, v.at),
         Len(n.lax) = Len(bound) + Len(TailOf(n)),
         \A s \in 1..Len(bound) : n.lax[s] = bound[s],
         \A s \in 1..Len(TailOf(n)) : Denotes(n.lax[Len(bound) + s], TailOf(n)[s])
  PROVE  Fits(n.lax, v.at \o TailOf(n))
<1> DEFINE tail == TailOf(n)
           all  == v.at \o tail
<1>1. /\ Len(v.at) \in Nat /\ Len(tail) \in Nat /\ Len(all) = Len(v.at) + Len(tail)
      /\ \A k \in 1..Len(v.at) : all[k] = v.at[k]
      /\ \A k \in 1..Len(tail) : all[Len(v.at) + k] = tail[k]
  BY SeqJoin DEF IsLoan, IsSeq
<1>2. Len(bound) = Len(v.at) /\ \A s \in 1..Len(bound) : Denotes(bound[s], v.at[s])
  BY DEF Fits, Matches
<1>3. ASSUME NEW s \in 1..Len(n.lax) PROVE Denotes(n.lax[s], all[s])
  <2>1. CASE s <= Len(bound)
    <3>1. s \in 1..Len(bound)
      BY <1>1, <1>2, <2>1
    <3> QED BY <1>1, <1>2, <3>1
  <2>2. CASE s > Len(bound)
    <3> DEFINE j == s - Len(bound)
    <3>1. j \in 1..Len(tail) /\ s = Len(bound) + j
      BY <1>1, <1>2, <2>2
    <3> QED BY <1>1, <1>2, <3>1
  <2> QED BY <1>1, <1>2, <2>1, <2>2
<1> HIDE DEF all, tail
<1> QED BY <1>1, <1>2, <1>3 DEF Fits, Matches, all, tail

\* What the bound place of a `ref` local is.
LEMMA BinderIs ==
  ASSUME SetTypes, NEW f \in Functions, NEW b \in Binders(FnsOf(mod)[f])
  PROVE  LET fn   == FnsOf(mod)[f]
             init == fn.ops[b].node.init
         IN  /\ b \in DOMAIN fn.ops /\ init \in Evaluated(fn.ops[b]) /\ IsPlace(init) /\ SpelledAsReached(fn, init, b)
             /\ Len(init.lax) \in Nat \ {0}
<1> DEFINE fn == FnsOf(mod)[f]
           init == fn.ops[b].node.init
<1>1. b \in DOMAIN fn.ops /\ Binds(fn.ops[b]) /\ FnResolved(mod, fn)
  BY Resolved DEF Binders
<1>2. OpResolved(fn, b)
  BY <1>1 DEF FnResolved
<1>3. init \in Evaluated(fn.ops[b]) /\ init \in Names(fn.ops[b])
  BY <1>1 DEF Evaluated, Names
<1>4. IsPlace(init) /\ SpelledAsReached(fn, init, b)
  BY <1>2, <1>3 DEF OpResolved
<1>5. Len(init.lax) \in Nat \ {0}
  BY <1>4 DEF SpelledAsReached
<1> QED BY <1>1, <1>3, <1>4, <1>5

\* A place that is named stands for what it spells: a global, or something that may be
\* written when its root may.
LEMMA LendIn ==
  ASSUME SetTypes, Shape, Top >= 2, HeldIn(mod, sets, stack, Top, frames[Top]), RefsIn(mod, sets, stack, Top, frames[Top]),
         NEW n, SpelledAsReached(FnsOf(mod)[stack[Top - 1]], n, frames[Top].pos)
  PROVE  IsLoan(Lend(n)) /\ PlaceIn(mod, sets, stack, Top, n, Lend(n))
<1> DEFINE x    == RootIdent(n)
           f    == frames[Top]
           fn   == FnsOf(mod)[stack[Top - 1]]
           tail == TailOf(n)
           v    == Lend(n)
<1>1. /\ Top \in 2..Top /\ stack[Top - 1] \in Functions /\ IsFrame(f, Functions) /\ Top \in 1..(MaxDepth + 1)
  BY TopIs DEF Shape, IsSeq
<1>2. /\ ParamsOf(fn) \subseteq fn.locals \ RefNames(fn) /\ RefNames(fn) \subseteq fn.locals /\ fn.const \subseteq ParamsOf(fn)
  BY <1>1, Resolved DEF FnResolved, ParamsOf
<1>3. Len(n.lax) \in Nat \ {0} /\ IsSeq(tail) /\ DOMAIN tail = 1..Len(tail)
  BY TailIs DEF SpelledAsReached
<1>4. v = [at |-> Root(Top, x) \o tail, via |-> Via(Top, x), ok |-> TRUE]
  BY DEF Lend, StorageOf
<1>5. CASE x \in DOMAIN f.held
  <2> DEFINE u == f.held[x]
  <2>1. Root(Top, x) = u.at /\ Via(Top, x) = {<<Top, x>>} \cup u.via /\ IsLoan(u)
    BY <1>1, <1>5 DEF Root, Via, IsFrame
  <2>2. x \in ParamsOf(fn) /\ (x \notin fn.const => SafeIn(mod, sets, stack, Top, u.at, Via(Top, x)))
    BY <1>5, <2>1 DEF HeldIn
  <2>3. LaxRoot(n) = x /\ x \in fn.locals
    BY <1>2, <2>2 DEF SpelledAsReached
  <2>4. IsSeq(u.at \o tail) /\ Len(u.at \o tail) >= 1
    BY <1>3, <2>1, JoinLoan
  <2>5. x \notin fn.const => SafeIn(mod, sets, stack, Top, u.at \o tail, Via(Top, x))
    BY <1>3, <2>1, <2>2, LongerSafe DEF IsLoan
  <2> HIDE DEF u, x, fn, tail
  <2> QED BY <1>4, <2>1, <2>3, <2>4, <2>5 DEF IsLoan, PlaceIn, fn
<1>6. CASE x \notin DOMAIN f.held /\ x \in DOMAIN f.refs
  <2> DEFINE u == f.refs[x]
  <2>1. Root(Top, x) = u.at /\ Via(Top, x) = u.via /\ IsLoan(u)
    BY <1>1, <1>6 DEF Root, Via, IsFrame
  <2>2. PICK b \in Binders(fn) : fn.ops[b].node.name = x /\ PlaceIn(mod, sets, stack, Top, fn.ops[b].node.init, u)
    BY <1>6 DEF RefsIn
  <2> DEFINE bound == fn.ops[b].node.init.lax
  <2>3. x \in RefNames(fn) /\ Len(bound) \in Nat \ {0}
    BY <1>1, <2>2, BinderIs DEF RefNames
  <2>4. /\ Len(n.lax) = Len(bound) + Len(tail) /\ \A s \in 1..Len(bound) : n.lax[s] = bound[s]
        /\ \A s \in DOMAIN tail : Denotes(n.lax[Len(bound) + s], tail[s])
    BY <2>2, <2>3 DEF SpelledAsReached
  <2>5. LaxRoot(n) = LaxRoot(fn.ops[b].node.init)
    <3>1. 1 \in 1..Len(bound)
      <4>1. \A m \in Nat \ {0} : 1 \in 1..m
        OBVIOUS
      <4>2. Len(bound) \in Nat \ {0}
        BY <2>3
      <4> QED BY <4>1, <4>2
    <3>2. n.lax[1] = bound[1]
      BY <2>4, <3>1
    <3> QED BY <3>2 DEF LaxRoot
  <2>6. IsSeq(u.at \o tail) /\ Len(u.at \o tail) >= 1
    BY <1>3, <2>1, JoinLoan
  <2>7. LaxRoot(n) \notin fn.locals => Fits(n.lax, u.at \o tail)
    <3> SUFFICES ASSUME LaxRoot(n) \notin fn.locals PROVE Fits(n.lax, u.at \o tail)
      OBVIOUS
    <3>1. Fits(bound, u.at)
      BY <2>2, <2>5 DEF PlaceIn
    <3> QED BY <1>3, <2>1, <2>4, <3>1, ThroughRef
  <2>8. LaxRoot(n) \in fn.locals \ fn.const => SafeIn(mod, sets, stack, Top, u.at \o tail, u.via)
    <3>1. LaxRoot(n) \in fn.locals \ fn.const => SafeIn(mod, sets, stack, Top, u.at, u.via)
      BY <2>2, <2>5 DEF PlaceIn
    <3> QED BY <1>3, <2>1, <3>1, LongerSafe DEF IsLoan
  <2> HIDE DEF u, x, fn, tail
  <2> QED BY <1>4, <2>1, <2>6, <2>7, <2>8 DEF IsLoan, PlaceIn, fn
<1>7. CASE x \notin DOMAIN f.held /\ x \notin DOMAIN f.refs
  <2>1. x \notin RefNames(fn)
    BY <1>7 DEF SpelledAsReached, RefsIn
  <2>2. LaxRoot(n) = x /\ Fits(n.lax, <<x>> \o tail)
    BY <2>1 DEF SpelledAsReached
  <2>3. LocalsOf(Top) = fn.locals /\ Via(Top, x) = {}
    BY <1>1, <1>7 DEF LocalsOf, Via
  <2>4. \A e : IsSeq(<<e>> \o tail) /\ Len(<<e>> \o tail) >= 1 /\ (<<e>> \o tail)[1] = e
    <3> TAKE e
    <3>1. IsSeq(<<e>>) /\ Len(<<e>>) = 1 /\ <<e>>[1] = e
      BY DEF IsSeq
    <3> QED BY <1>3, <3>1, SeqJoin DEF IsSeq
  <2>5. CASE x \in fn.locals
    <3>1. Root(Top, x) = <<InFrame(Top, x)>>
      BY <1>7, <2>3, <2>5 DEF Root
    <3>2. IsLoan(v) /\ v.at[1] = InFrame(Top, x)
      BY <1>4, <2>4, <3>1 DEF IsLoan
    <3>3. ~GlobalIn(mod, v.at)
      BY <1>1, <2>5, <3>2, LocalStorage
    <3> HIDE DEF x
    <3> QED BY <2>2, <2>5, <3>2, <3>3 DEF PlaceIn, SafeIn
  <2>6. CASE x \notin fn.locals
    <3>1. Root(Top, x) = <<x>>
      BY <1>7, <2>3, <2>6 DEF Root
    <3>2. IsLoan(v) /\ v.at = <<x>> \o tail
      BY <1>4, <2>4, <3>1 DEF IsLoan
    <3> HIDE DEF x, tail
    <3> QED BY <2>2, <2>6, <3>2 DEF PlaceIn
  <2> QED BY <2>5, <2>6
<1> QED BY <1>5, <1>6, <1>7

\* A function's own writes to globals are in its set.
LEMMA OwnWrites ==
  ASSUME SetTypes, NEW f \in Functions, NEW pos \in DOMAIN FnsOf(mod)[f].ops,
         NEW n \in Changes(FnsOf(mod)[f].ops[pos]), LaxRoot(n) \notin FnsOf(mod)[f].locals
  PROVE  n.lax \in Direct(FnsOf(mod)[f]).keys
<1> DEFINE fn == FnsOf(mod)[f]
           op == fn.ops[pos]
<1>1. OpResolved(fn, pos) /\ fn.body
  BY Resolved DEF FnResolved
<1>2. n.lax # NoKey
  <2>1. SpelledAsReached(fn, n, pos)
    BY <1>1 DEF OpResolved, Names
  <2>2. Len(n.lax) \in Nat \ {0}
    BY <2>1 DEF SpelledAsReached
  <2>3. Len(NoKey) = 0
    BY DEF NoKey
  <2> QED BY <2>2, <2>3
<1>3. SUFFICES ASSUME ~(WritesPlace(op) /\ op.node = WrittenPlace(op))
      PROVE  n.lax \in Direct(fn).keys
  <2>1. CASE WritesPlace(op) /\ op.node = WrittenPlace(op) /\ n = WrittenPlace(op)
    BY <1>1, <2>1 DEF OpResolved
  <2>2. CASE WritesPlace(op) /\ op.node = WrittenPlace(op) /\ n # WrittenPlace(op)
    <3>1. IsPlace(op.node) /\ IsCall(op)
      BY <2>2 DEF WritesPlace, Changes, LentBy
    <3> QED BY <3>1 DEF IsPlace, IsCall
  <2> QED BY <1>3, <2>1, <2>2
<1>4. op.op = "Eval" /\ n.lax \in WrittenKeys(op.node)
  <2>1. CASE WritesPlace(op) /\ n = WrittenPlace(op)
    <3>1. op.op = "Eval"
      BY <2>1 DEF WritesPlace, WrittenPlace, IsPlace, NoNode
    <3>2. IsPlace(n) /\ n # op.node
      BY <1>3, <2>1 DEF WritesPlace
    <3>3. n # NoNode
      BY <3>2 DEF IsPlace, NoNode
    <3>4. op.node.kind = "Intrinsic" => 1 \in DOMAIN op.node.args
      BY <1>1, <2>1 DEF OpResolved
    <3>5. CASE op.node.kind = "Assign"
      BY <2>1, <3>1, <3>5 DEF WrittenPlace, WrittenKeys
    <3>6. CASE op.node.kind = "IncDec"
      BY <2>1, <3>1, <3>6 DEF WrittenPlace, WrittenKeys
    <3>7. CASE op.node.kind = "Intrinsic"
      <4>1. n = op.node.args[1].arg /\ (op.node.callee = "drop" \/ ArgMode(op.node, 1) = "mut")
        BY <2>1, <3>1, <3>3, <3>7 DEF WrittenPlace
      <4>2. CASE op.node.callee = "drop"
        <5>1. WrittenKeys(op.node) = {op.node.args[1].arg.lax}
          BY <3>7, <4>2 DEF WrittenKeys
        <5> QED BY <3>1, <4>1, <5>1
      <4>3. CASE op.node.callee # "drop"
        <5>1. 1 \in {j \in DOMAIN op.node.args : ArgMode(op.node, j) = "mut"}
          BY <3>4, <3>7, <4>1, <4>3
        <5>2. WrittenKeys(op.node) = {op.node.args[k].arg.lax : k \in {j \in DOMAIN op.node.args : ArgMode(op.node, j) = "mut"}}
          BY <3>7, <4>3 DEF WrittenKeys
        <5> QED BY <3>1, <4>1, <5>1, <5>2
      <4> QED BY <4>2, <4>3
    <3>8. CASE op.node.kind \notin {"Assign", "IncDec", "Intrinsic"}
      BY <2>1, <3>1, <3>2, <3>3, <3>8 DEF WrittenPlace
    <3> QED BY <3>5, <3>6, <3>7, <3>8
  <2>2. CASE \E k \in LentBy(op) : ArgMode(op.node, k) = "mut" /\ n = op.node.args[k].arg
    <3>1. PICK k \in LentBy(op) : ArgMode(op.node, k) = "mut" /\ n = op.node.args[k].arg
      BY <2>2
    <3>2. IsCall(op) /\ k \in DOMAIN op.node.args
      BY <3>1 DEF LentBy
    <3> QED BY <3>1, <3>2 DEF IsCall, WrittenKeys
  <2> QED BY <2>1, <2>2 DEF Changes
<1>5. n.lax \in NoteWrites(fn, op.node)
  BY <1>2, <1>4 DEF NoteWrites, IsGlobalPlace, LaxRoot
<1>6. pos \in Evals(fn)
  BY <1>4 DEF Evals
<1> QED BY <1>1, <1>5, <1>6 DEF Direct

\* The next operation of a frame of the module's.
LEMMA OpIs ==
  ASSUME SetTypes, Shape, Running, Top >= 2
  PROVE  LET fn == FnsOf(mod)[stack[Top - 1]]
         IN  /\ frames[Top].pos \in DOMAIN fn.ops /\ Op = fn.ops[frames[Top].pos] /\ fn.body
             /\ OpResolved(fn, frames[Top].pos)
             /\ IsCall(Op) => CallResolved(mod, Op.node)
             /\ DropsOf(Op) \in Seq(Functions)
<1> DEFINE fn == FnsOf(mod)[stack[Top - 1]]
<1>1. Top \in 2..Top /\ stack[Top - 1] \in Functions /\ IsFrame(frames[Top], Functions) /\ Top \in Nat
  BY TopIs DEF Shape, IsSeq
<1>2. FnResolved(mod, fn) /\ DOMAIN fn.ops = 1..Len(fn.ops) /\ Len(fn.ops) \in Nat
  BY <1>1, Resolved DEF FnResolved, IsList
<1>3. OpsOf(Top) = fn.ops
  BY <1>1 DEF OpsOf
<1>4. frames[Top].pos \in DOMAIN fn.ops /\ Op = fn.ops[frames[Top].pos]
  BY <1>1, <1>2, <1>3 DEF Running, Op, IsFrame
<1>5. fn.body
  BY <1>2, <1>4 DEF FnResolved
<1> QED BY <1>1, <1>2, <1>4, <1>5, Resolved DEF FnResolved

\* What an operation may change is in the sets of the calls that wait for it, but for
\* those that pass it on as a parameter.
LEMMA ChangeSafe ==
  ASSUME SetsInv, Shape, CoversCalls, Running, Top >= 2,
         HeldIn(mod, sets, stack, Top, frames[Top]), RefsIn(mod, sets, stack, Top, frames[Top]),
         NEW n \in Changes(Op)
  PROVE  IsLoan(Lend(n)) /\ SafeIn(mod, sets, stack, Top, Lend(n).at, Lend(n).via)
<1> DEFINE g  == stack[Top - 1]
           fn == FnsOf(mod)[g]
           pos == frames[Top].pos
<1>1. SetTypes /\ pos \in DOMAIN fn.ops /\ Op = fn.ops[pos] /\ OpResolved(fn, pos)
  BY OpIs DEF SetsInv
<1>2. SpelledAsReached(fn, n, pos) /\ LaxRoot(n) \notin fn.const
  BY <1>1 DEF OpResolved, Names
<1>3. IsLoan(Lend(n)) /\ PlaceIn(mod, sets, stack, Top, n, Lend(n))
  BY <1>1, <1>2, LendIn
<1>4. CASE LaxRoot(n) \in fn.locals
  BY <1>2, <1>3, <1>4 DEF PlaceIn
<1>5. CASE LaxRoot(n) \notin fn.locals
  <2>1. Top - 1 \in DOMAIN stack /\ g \in Functions /\ Top \in Nat
    BY <1>1, TopIs DEF Shape, IsSeq
  <2>2. n.lax \in Direct(fn).keys
    BY <1>1, <1>5, <2>1, OwnWrites
  <2>3. Covers(sets[g], Direct(fn)) /\ Matches(n.lax, Lend(n).at)
    BY <1>3, <1>5, <2>1 DEF SetsInv, Grown, PlaceIn, Fits
  <2>4. ASSUME NEW j \in 2..Top PROVE DeclIn(sets[stack[j - 1]], Lend(n).at)
    <3>1. j - 1 \in DOMAIN stack /\ j - 1 <= Top - 1
      BY <1>1, <2>1, TopIs
    <3>2. Covers(sets[stack[j - 1]], sets[g])
      BY <2>1, <3>1 DEF CoversCalls
    <3>3. Covers(sets[stack[j - 1]], Direct(fn))
      BY <2>3, <3>2, CoversOrder
    <3> QED BY <2>2, <2>3, <3>3 DEF Covers, DeclIn
  <2> QED BY <1>3, <2>4 DEF SafeIn
<1> QED BY <1>4, <1>5

-----------------------------------------------------------------------------
\* The steps keep the shape of the frames.

\* A frame by its places: only what is said of their values may differ.
SamePlaces(g, f) ==
  /\ DOMAIN g.held = DOMAIN f.held /\ \A x \in DOMAIN f.held : g.held[x].at = f.held[x].at /\ g.held[x].via = f.held[x].via
  /\ g.refs = f.refs /\ g.pos = f.pos /\ g.todo = f.todo

\* A write leaves the frames as they are but for what holds.
LEMMA DisturbedKeeps ==
  ASSUME NEW fs, IsSeq(fs), NEW fns, \A k \in 1..Len(fs) : IsFrame(fs[k], fns), NEW at, NEW through
  PROVE  LET gs == Disturbed(fs, at, through)
         IN  IsSeq(gs) /\ Len(gs) = Len(fs) /\ \A k \in 1..Len(fs) : IsFrame(gs[k], fns) /\ SamePlaces(gs[k], fs[k])
<1> DEFINE gs == Disturbed(fs, at, through)
<1>1. Len(fs) \in Nat /\ DOMAIN fs = 1..Len(fs)
  BY DEF IsSeq
<1>2. gs = [k \in 1..Len(fs) |-> gs[k]]
  BY <1>1 DEF Disturbed
<1>3. ASSUME NEW k \in 1..Len(fs) PROVE IsFrame(gs[k], fns) /\ SamePlaces(gs[k], fs[k])
  <2> DEFINE f == fs[k]
             vals == [j \in DOMAIN f.vals |-> Left(f.vals[j], at)]
             held == [x \in DOMAIN f.held |-> IF <<k, x>> \in through THEN f.held[x] ELSE Left(f.held[x], at)]
  <2>1. gs[k] = [f EXCEPT !.vals = vals, !.held = held]
    BY <1>1 DEF Disturbed
  <2>2. IsFrame(f, fns)
    OBVIOUS
  <2>3. \A x \in DOMAIN f.held : IsLoan(held[x]) /\ held[x].at = f.held[x].at /\ held[x].via = f.held[x].via
    <3> TAKE x \in DOMAIN f.held
    <3>1. IsLoan(f.held[x])
      BY <2>2 DEF IsFrame
    <3>2. f.held[x] = [at |-> f.held[x].at, via |-> f.held[x].via, ok |-> f.held[x].ok]
      BY <3>1 DEF IsLoan
    <3>3. Left(f.held[x], at) = [at |-> f.held[x].at, via |-> f.held[x].via, ok |-> Left(f.held[x], at).ok]
      BY <3>2 DEF Left
    <3>4. IsLoan(Left(f.held[x], at)) /\ Left(f.held[x], at).at = f.held[x].at /\ Left(f.held[x], at).via = f.held[x].via
      BY <3>1, <3>3 DEF IsLoan
    <3> QED BY <3>1, <3>4
  <2>4. DOMAIN held = DOMAIN f.held /\ held = [x \in DOMAIN f.held |-> held[x]]
    OBVIOUS
  <2> HIDE DEF vals, held, f, gs
  <2>5. gs[k] = [pos |-> f.pos, vals |-> vals, held |-> held, refs |-> f.refs, todo |-> f.todo]
    BY <2>1, <2>2 DEF IsFrame
  <2>6. /\ gs[k].pos = f.pos /\ gs[k].vals = vals /\ gs[k].held = held /\ gs[k].refs = f.refs /\ gs[k].todo = f.todo
    BY <2>5
  <2>7. IsFrame(gs[k], fns)
    BY <2>2, <2>3, <2>4, <2>5, <2>6 DEF IsFrame
  <2> QED BY <2>3, <2>4, <2>6, <2>7 DEF SamePlaces, f
<1> HIDE DEF gs
<1> QED BY <1>1, <1>2, <1>3, SeqSame DEF gs

LEMMA AfterWriteKeeps ==
  ASSUME NEW fs, IsSeq(fs), NEW fns, \A k \in 1..Len(fs) : IsFrame(fs[k], fns)
  PROVE  LET gs == AfterWrite(fs)
         IN  IsSeq(gs) /\ Len(gs) = Len(fs) /\ \A k \in 1..Len(fs) : IsFrame(gs[k], fns) /\ SamePlaces(gs[k], fs[k])
<1>1. CASE WritesPlace(Op) /\ Owns(WrittenPlace(Op))
  <2> DEFINE at      == StorageOf(WrittenPlace(Op))
             through == Via(Top, RootIdent(WrittenPlace(Op)))
             gs      == Disturbed(fs, at, through)
  <2>1. AfterWrite(fs) = gs
    BY <1>1 DEF AfterWrite
  <2> HIDE DEF at, through
  <2>2. IsSeq(gs) /\ Len(gs) = Len(fs) /\ \A k \in 1..Len(fs) : IsFrame(gs[k], fns) /\ SamePlaces(gs[k], fs[k])
    BY DisturbedKeeps
  <2> HIDE DEF gs
  <2> QED BY <2>1, <2>2
<1>2. CASE ~(WritesPlace(Op) /\ Owns(WrittenPlace(Op)))
  BY <1>2 DEF AfterWrite, SamePlaces
<1> QED BY <1>1, <1>2

\* What is lent has storage.
LEMMA LendIsLoan ==
  ASSUME Shape, NEW n, HasRoot(n)
  PROVE  IsLoan(Lend(n))
<1> DEFINE x == RootIdent(n)
           f == frames[Top]
<1>1. IsFrame(f, Functions)
  BY MaxDepthAssumption DEF Shape, IsSeq
<1>2. IsSeq(TailOf(n)) /\ Lend(n) = [at |-> Root(Top, x) \o TailOf(n), via |-> Via(Top, x), ok |-> TRUE]
  BY TailIs DEF Lend, StorageOf
<1>3. IsSeq(Root(Top, x)) /\ Len(Root(Top, x)) >= 1
  <2>1. \A e : IsSeq(<<e>>) /\ Len(<<e>>) >= 1
    BY DEF IsSeq
  <2>2. CASE x \in DOMAIN f.held
    BY <1>1, <2>2 DEF Root, IsFrame, IsLoan
  <2>3. CASE x \notin DOMAIN f.held /\ x \in DOMAIN f.refs
    BY <1>1, <2>3 DEF Root, IsFrame, IsLoan
  <2>4. CASE x \notin DOMAIN f.held /\ x \notin DOMAIN f.refs
    BY <2>1, <2>4 DEF Root
  <2> QED BY <2>2, <2>3, <2>4
<1> DEFINE v == [at |-> Root(Top, x), via |-> Via(Top, x), ok |-> TRUE]
<1>4. IsLoan(v)
  BY <1>3 DEF IsLoan
<1>5. IsSeq(v.at \o TailOf(n)) /\ Len(v.at \o TailOf(n)) >= 1
  BY <1>2, <1>4, JoinLoan
<1> QED BY <1>2, <1>5 DEF IsLoan

\* The operations of the host bind nothing, and what any operation names has a root.
LEMMA HostOpsAre ==
  ASSUME SetTypes, Shape, Running, Top = 1
  PROVE  /\ frames[1].pos \in DOMAIN HostOps /\ Op = HostOps[frames[1].pos]
         /\ ~Binds(Op) /\ DropsOf(Op) \in Seq(Functions)
         /\ \A n \in Names(Op) : HasRoot(n)
         /\ IsCall(Op) => CallResolved(mod, Op.node)
         /\ IsPlace(Used(Op)) => HasRoot(Used(Op))
<1>1. IsFrame(frames[1], Functions)
  BY DEF Shape, IsSeq
<1>2. IsList(HostOps) /\ \A k \in DOMAIN HostOps : HostOpResolved(mod, HostOps[k])
  <2>1. HostOps \in {mod.host} \cup {mod.globals[g].ops : g \in DOMAIN mod.globals}
    <3>1. ready < Len(Globals) => ready + 1 \in DOMAIN mod.globals
      BY Resolved DEF Globals, Shape, ModuleResolved, IsList
    <3> QED BY <3>1 DEF HostOps, Globals
  <2> QED BY <2>1, Resolved DEF ModuleResolved
<1>3. frames[1].pos \in DOMAIN HostOps /\ Op = HostOps[frames[1].pos]
  BY <1>1, <1>2 DEF Running, Op, OpsOf, IsFrame, IsList
<1> QED BY <1>2, <1>3 DEF HostOpResolved, Functions

LEMMA OpFacts ==
  ASSUME SetTypes, Shape, Running
  PROVE  /\ DropsOf(Op) \in Seq(Functions)
         /\ \A n \in Names(Op) : HasRoot(n)
         /\ IsCall(Op) => CallResolved(mod, Op.node)
         /\ Top = 1 => ~Binds(Op)
         /\ IsPlace(Used(Op)) => HasRoot(Used(Op))
<1>1. CASE Top = 1
  BY <1>1, HostOpsAre
<1>2. CASE Top # 1
  <2>1. Top >= 2
    BY <1>2 DEF Shape, SetTypes
  <2>2. DropsOf(Op) \in Seq(Functions) /\ (IsCall(Op) => CallResolved(mod, Op.node)) /\ \E fn, pos : Op = fn.ops[pos] /\ OpResolved(fn, pos)
    BY <2>1, OpIs
  <2> QED BY <1>2, <2>2 DEF OpResolved, SpelledAsReached
<1> QED BY <1>1, <1>2

\* An operation that calls nothing.
LEMMA EvaluateShape ==
  ASSUME SetTypes, Shape, Evaluate
  PROVE  /\ Shape' /\ Top' = Top /\ stack' = stack /\ sets' = sets /\ mod' = mod
         /\ \A k \in 1..Top : k # Top => SamePlaces(frames'[k], frames[k])
         /\ DOMAIN frames'[Top].held = DOMAIN frames[Top].held
         /\ \A x \in DOMAIN frames[Top].held : /\ frames'[Top].held[x].at = frames[Top].held[x].at
                                               /\ frames'[Top].held[x].via = frames[Top].held[x].via
         /\ frames'[Top].refs = Bound(frames[Top].refs, Op) /\ frames'[Top].pos = frames[Top].pos + 1
         /\ frames'[Top].todo = DropsOf(Op)
<1> DEFINE f == frames[Top]
           vals == Rest(Arity(Op)) \o Result(Op)
           refs == Bound(f.refs, Op)
           mid == [frames EXCEPT ![Top].pos = f.pos + 1, ![Top].vals = vals, ![Top].refs = refs, ![Top].todo = DropsOf(Op)]
<1>1. /\ Running /\ frames' = AfterWrite(mid) /\ stack' = stack /\ UNCHANGED <<setVars, verdict, ready>>
      /\ mod' = mod /\ sets' = sets /\ phase' = phase
  BY DEF Evaluate, writeVars, setVars
<1>2. /\ Len(frames) \in Nat /\ DOMAIN frames = 1..Len(frames) /\ Top \in 1..Len(frames) /\ IsFrame(f, Functions)
      /\ \A k \in 1..Top : IsFrame(frames[k], Functions)
  BY DEF Top, Shape, IsSeq, SetTypes
<1>3. /\ DropsOf(Op) \in Seq(Functions) /\ \A n \in Names(Op) : HasRoot(n)
      /\ Top = 1 => ~Binds(Op)
  BY <1>1, OpFacts
<1>4. /\ \A r \in DOMAIN refs : IsLoan(refs[r])
      /\ Top = 1 => DOMAIN refs = {}
  <2>1. CASE Binds(Op)
    <3>1. Op.node.init \in Names(Op)
      BY <2>1 DEF Names, Evaluated
    <3>2. IsLoan(Lend(Op.node.init))
      BY <1>3, <3>1, LendIsLoan
    <3> HIDE DEF f
    <3> QED BY <1>2, <1>3, <2>1, <3>2 DEF Bound, IsFrame
  <2>2. CASE ~Binds(Op)
    BY <1>2, <2>2 DEF Bound, IsFrame, Shape
  <2> QED BY <2>1, <2>2
<1> HIDE DEF vals, refs
<1>5. /\ DOMAIN mid = 1..Top /\ \A k \in 1..Top : k # Top => mid[k] = frames[k]
      /\ mid[Top] = [f EXCEPT !.pos = f.pos + 1, !.vals = vals, !.refs = refs, !.todo = DropsOf(Op)]
      /\ mid = [k \in 1..Top |-> mid[k]]
  BY <1>2 DEF Top
<1>6. mid[Top] = [pos |-> f.pos + 1, vals |-> vals, held |-> f.held, refs |-> refs, todo |-> DropsOf(Op)]
  <2> HIDE DEF f, mid
  <2> QED BY <1>2, <1>5 DEF IsFrame
<1> DEFINE g == mid[Top]
<1>7. /\ g.pos = f.pos + 1 /\ g.held = f.held /\ g.refs = refs /\ g.todo = DropsOf(Op) /\ g.vals = vals
  BY <1>6
<1>8. IsFrame(mid[Top], Functions)
  <2> HIDE DEF mid, f
  <2> QED BY <1>2, <1>3, <1>4, <1>6, <1>7 DEF IsFrame
<1> HIDE DEF mid
<1>9. IsSeq(mid) /\ Len(mid) = Top /\ \A k \in 1..Len(mid) : IsFrame(mid[k], Functions)
  BY <1>2, <1>5, <1>8, SeqSame
<1>10. /\ IsSeq(frames') /\ Len(frames') = Top /\ \A k \in 1..Top : IsFrame(frames'[k], Functions) /\ SamePlaces(frames'[k], mid[k])
  BY <1>1, <1>9, AfterWriteKeeps
<1>11. \A k \in 1..Top : k # Top => SamePlaces(frames'[k], frames[k])
  BY <1>5, <1>10
<1>12. SamePlaces(frames'[Top], mid[Top])
  BY <1>2, <1>10
<1>13. DOMAIN frames'[1].held = {} /\ DOMAIN frames'[1].refs = {}
  <2>1. 1 \in 1..Top
    BY <1>2
  <2>2. CASE Top = 1
    BY <1>4, <1>7, <1>12, <2>2 DEF Shape, SamePlaces
  <2>3. CASE Top # 1
    BY <1>11, <2>1, <2>3 DEF Shape, SamePlaces
  <2> QED BY <2>2, <2>3
<1>14. Functions' = Functions
  BY <1>1 DEF Functions
<1>15. Shape'
  BY <1>1, <1>10, <1>13, <1>14 DEF Top, Shape, Running
<1>16. /\ DOMAIN frames'[Top].held = DOMAIN f.held
       /\ \A x \in DOMAIN f.held : frames'[Top].held[x].at = f.held[x].at /\ frames'[Top].held[x].via = f.held[x].via
       /\ frames'[Top].refs = refs /\ frames'[Top].pos = f.pos + 1 /\ frames'[Top].todo = DropsOf(Op)
  BY <1>7, <1>12 DEF SamePlaces
<1> QED BY <1>1, <1>10, <1>11, <1>15, <1>16 DEF Top, refs

\* A new frame on top.
LEMMA PushShape ==
  ASSUME SetTypes, Shape, NEW fs, IsSeq(fs), Len(fs) = Top, \A k \in 1..Top : IsFrame(fs[k], Functions),
         DOMAIN fs[1].held = {}, DOMAIN fs[1].refs = {},
         NEW held, IsFrame(NewFrame(held), Functions), NEW g \in Functions, Len(stack) < MaxDepth,
         stack' = Append(stack, g), frames' = Append(fs, NewFrame(held)),
         verdict = "accepted", mod' = mod, phase' = phase, verdict' = verdict, ready' = ready
  PROVE  /\ Shape' /\ Top' = Top + 1
         /\ frames'[Top + 1] = NewFrame(held) /\ \A k \in 1..Top : frames'[k] = fs[k]
         /\ stack'[Top] = g /\ \A i \in DOMAIN stack : stack'[i] = stack[i]
<1>1. /\ Len(stack) \in Nat /\ Top = Len(stack) + 1 /\ Top \in Nat /\ 1 \in 1..Top /\ MaxDepth \in Nat
  BY MaxDepthAssumption DEF Shape, SetTypes
<1>2. /\ IsSeq(frames') /\ Len(frames') = Top + 1 /\ frames'[Top + 1] = NewFrame(held)
      /\ \A k \in 1..Top : frames'[k] = fs[k]
  BY SeqPush
<1>3. /\ Len(stack') = Len(stack) + 1 /\ stack'[Top] = g /\ \A i \in DOMAIN stack : stack'[i] = stack[i]
  BY <1>1 DEF SetTypes
<1>4. \A k \in 1..(Top + 1) : IsFrame(frames'[k], Functions)
  <2> TAKE k \in 1..(Top + 1)
  <2>1. CASE k \in 1..Top
    BY <1>2, <2>1
  <2>2. CASE k = Top + 1
    BY <1>2, <2>2
  <2> QED BY <1>1, <2>1, <2>2
<1>5. Functions' = Functions
  BY DEF Functions
<1>6. Top' = Top + 1
  BY <1>2 DEF Top
<1>7. Shape'
  BY <1>1, <1>2, <1>3, <1>4, <1>5, <1>6 DEF Shape
<1> QED BY <1>2, <1>3, <1>6, <1>7

\* What a callee holds has storage.
LEMMA LentIs ==
  ASSUME SetTypes, Shape, Running, NEW g \in Targets(Op), NEW args
  PROVE  LET held == Lent(Op, g, args)
         IN  /\ IsFrame(NewFrame(held), Functions)
             /\ \A x \in DOMAIN held : \E k \in LentBy(Op) :
                  /\ x = FnsOf(mod)[g].params[k]
                  /\ held[x].at = Lend(Op.node.args[k].arg).at /\ held[x].via = Lend(Op.node.args[k].arg).via
<1> DEFINE lent == {k \in LentBy(Op) : args[k].at # <<>>}
           P(k) == FnsOf(mod)[g].params[k]
           Of(x) == CHOOSE j \in lent : P(j) = x
           L(x) == Lend(Op.node.args[Of(x)].arg)
           held == Lent(Op, g, args)
<1>1. held = [x \in {P(k) : k \in lent} |-> [L(x) EXCEPT !.ok = args[Of(x)].ok]]
  BY DEF Lent
<1>2. ASSUME NEW x \in DOMAIN held
      PROVE  Of(x) \in LentBy(Op) /\ P(Of(x)) = x /\ IsLoan(held[x]) /\ held[x].at = L(x).at /\ held[x].via = L(x).via
  <2>1. \E k \in lent : P(k) = x
    BY <1>1
  <2>2. Of(x) \in lent /\ P(Of(x)) = x
    BY <2>1
  <2>3. Op.node.args[Of(x)].arg \in Names(Op)
    BY <2>2 DEF Names, Evaluated
  <2>4. IsLoan(L(x))
    BY <2>3, OpFacts, LendIsLoan
  <2>5. held[x] = [L(x) EXCEPT !.ok = args[Of(x)].ok]
    BY <1>1
  <2>6. held[x] = [at |-> L(x).at, via |-> L(x).via, ok |-> args[Of(x)].ok]
    <3> HIDE DEF L, held
    <3> QED BY <2>4, <2>5 DEF IsLoan
  <2> HIDE DEF L, held
  <2>7. held[x].at = L(x).at /\ held[x].via = L(x).via /\ held[x].ok = args[Of(x)].ok
    BY <2>6
  <2>8. IsLoan(held[x])
    BY <2>4, <2>6, <2>7 DEF IsLoan
  <2> QED BY <2>2, <2>7, <2>8
<1>3. held = [x \in DOMAIN held |-> held[x]]
  BY <1>1
<1> HIDE DEF held, L, Of
<1>4. IsFrame(NewFrame(held), Functions)
  BY <1>2, <1>3 DEF IsFrame, NewFrame
<1> QED BY <1>2, <1>4 DEF held, L, Of

\* A call: the callee's frame holds what it is lent, the caller's stands at the next
\* operation.
LEMMA CallShape ==
  ASSUME SetTypes, Shape, CallFunction
  PROVE  \E g, args :
         /\ g \in Targets(Op)
         /\ Shape' /\ Top' = Top + 1 /\ sets' = sets /\ mod' = mod /\ Enter(g) /\ Running
         /\ stack'[Top] = g /\ \A i \in DOMAIN stack : stack'[i] = stack[i]
         /\ \A k \in 1..Top : k # Top => frames'[k] = frames[k]
         /\ /\ frames'[Top].held = frames[Top].held /\ frames'[Top].refs = frames[Top].refs
            /\ frames'[Top].pos = frames[Top].pos + 1 /\ frames'[Top].todo = frames[Top].todo
         /\ frames'[Top + 1] = NewFrame(Lent(Op, g, args))
<1>1. PICK g \in Targets(Op) :
        /\ Enter(g)
        /\ frames' = Append([frames EXCEPT ![Top].pos = @ + 1, ![Top].vals = Rest(Arity(Op))],
                            NewFrame(Lent(Op, g, Popped(Arity(Op)))))
  BY DEF CallFunction
<1> DEFINE f == frames[Top]
           vals == Rest(Arity(Op))
           fs == [frames EXCEPT ![Top].pos = f.pos + 1, ![Top].vals = vals]
           held == Lent(Op, g, Popped(Arity(Op)))
<1>2. /\ Running /\ frames' = Append(fs, NewFrame(held)) /\ g \in Functions /\ Len(stack) < MaxDepth
      /\ stack' = Append(stack, g) /\ mod' = mod /\ sets' = sets /\ phase' = phase /\ verdict' = verdict /\ ready' = ready
      /\ verdict = "accepted"
  BY <1>1 DEF CallFunction, Enter, setVars, Targets, Running
<1>3. /\ Len(frames) \in Nat /\ DOMAIN frames = 1..Len(frames) /\ Top \in 1..Len(frames) /\ IsFrame(f, Functions)
      /\ \A k \in 1..Top : IsFrame(frames[k], Functions)
  BY DEF Top, Shape, IsSeq, SetTypes
<1>4. IsFrame(NewFrame(held), Functions)
  BY <1>1, <1>2, LentIs
<1> HIDE DEF vals, held
<1>5. /\ DOMAIN fs = 1..Top /\ \A k \in 1..Top : k # Top => fs[k] = frames[k]
      /\ fs[Top] = [f EXCEPT !.pos = f.pos + 1, !.vals = vals]
      /\ fs = [k \in 1..Top |-> fs[k]]
  BY <1>3 DEF Top
<1>6. fs[Top] = [pos |-> f.pos + 1, vals |-> vals, held |-> f.held, refs |-> f.refs, todo |-> f.todo]
  <2> HIDE DEF f, fs
  <2> QED BY <1>3, <1>5 DEF IsFrame
<1>7. /\ fs[Top].pos = f.pos + 1 /\ fs[Top].held = f.held /\ fs[Top].refs = f.refs /\ fs[Top].todo = f.todo /\ fs[Top].vals = vals
  BY <1>6
<1>8. IsFrame(fs[Top], Functions)
  <2> HIDE DEF fs, f
  <2> QED BY <1>3, <1>6, <1>7 DEF IsFrame
<1> HIDE DEF fs
<1>9. IsSeq(fs) /\ Len(fs) = Top /\ \A k \in 1..Top : IsFrame(fs[k], Functions)
  BY <1>3, <1>5, <1>8, SeqSame DEF Top
<1>10. DOMAIN fs[1].held = {} /\ DOMAIN fs[1].refs = {}
  <2>1. 1 \in 1..Top
    BY <1>3 DEF Top
  <2> QED BY <1>5, <1>7, <2>1 DEF Shape
<1>11. /\ Shape' /\ Top' = Top + 1
       /\ frames'[Top + 1] = NewFrame(held) /\ \A k \in 1..Top : frames'[k] = fs[k]
       /\ stack'[Top] = g /\ \A i \in DOMAIN stack : stack'[i] = stack[i]
  BY <1>2, <1>4, <1>9, <1>10, PushShape
<1>12. Top \in 1..Top
  BY <1>3 DEF Top
<1>13. \E args : frames'[Top + 1] = NewFrame(Lent(Op, g, args))
  BY <1>11 DEF held
<1>14. /\ \A k \in 1..Top : k # Top => frames'[k] = frames[k]
       /\ frames'[Top].held = f.held /\ frames'[Top].refs = f.refs /\ frames'[Top].pos = f.pos + 1 /\ frames'[Top].todo = f.todo
  BY <1>5, <1>7, <1>11, <1>12
<1> QED BY <1>1, <1>2, <1>11, <1>13, <1>14

\* A drop method runs in a frame that holds nothing.
LEMMA RunDropShape ==
  ASSUME SetTypes, Shape, RunDrop
  PROVE  /\ Shape' /\ Top' = Top + 1 /\ sets' = sets /\ mod' = mod /\ verdict = "accepted"
         /\ 1 \in DOMAIN frames[Top].todo /\ stack'[Top] = frames[Top].todo[1] /\ \A i \in DOMAIN stack : stack'[i] = stack[i]
         /\ stack' = Append(stack, frames[Top].todo[1]) /\ frames[Top].todo[1] \in Functions
         /\ \A k \in 1..Top : frames'[k] = frames[k]
         /\ frames'[Top + 1] = NewFrame(<<>>)
<1> DEFINE todo == frames[Top].todo
<1>1. /\ verdict = "accepted" /\ todo # <<>> /\ Len(stack) < MaxDepth /\ stack' = Append(stack, Head(todo))
      /\ frames' = Append(frames, NewFrame(<<>>))
      /\ mod' = mod /\ sets' = sets /\ phase' = phase /\ verdict' = verdict /\ ready' = ready
  BY DEF RunDrop, setVars
<1>2. IsFrame(frames[Top], Functions) /\ IsSeq(frames) /\ Len(frames) = Top
  BY DEF Top, Shape, IsSeq, SetTypes
<1>3. todo \in Seq(Functions)
  BY <1>2 DEF IsFrame
<1>4. 1 \in DOMAIN todo /\ Head(todo) = todo[1] /\ todo[1] \in Functions
  BY <1>1, <1>3
<1>5. IsFrame(NewFrame(<<>>), Functions)
  BY DEF IsFrame, NewFrame
<1>6. \A k \in 1..Top : IsFrame(frames[k], Functions)
  BY DEF Shape
<1>7. /\ Shape' /\ Top' = Top + 1
      /\ frames'[Top + 1] = NewFrame(<<>>) /\ \A k \in 1..Top : frames'[k] = frames[k]
      /\ stack'[Top] = todo[1] /\ \A i \in DOMAIN stack : stack'[i] = stack[i]
  <2>1. DOMAIN frames[1].held = {} /\ DOMAIN frames[1].refs = {}
    BY DEF Shape
  <2> QED BY <1>1, <1>2, <1>4, <1>5, <1>6, <2>1, PushShape
<1> QED BY <1>1, <1>4, <1>7

\* A return: the frame on top goes, the one below gets a value or is rid of a drop.
LEMMA FinishShape ==
  ASSUME SetTypes, Shape, Finish
  PROVE  /\ Shape' /\ Top' = Top - 1 /\ Top >= 2 /\ sets' = sets /\ mod' = mod /\ Leave
         /\ \A i \in 1..(Len(stack) - 1) : stack'[i] = stack[i]
         /\ \A k \in 1..(Top - 1) : /\ frames'[k].held = frames[k].held /\ frames'[k].refs = frames[k].refs
                                    /\ frames'[k].pos = frames[k].pos
                                    /\ \A j \in DOMAIN frames'[k].todo : \E i \in DOMAIN frames[k].todo :
                                         frames'[k].todo[j] = frames[k].todo[i]
<1> DEFINE n    == Top - 1
           f    == frames[n]
           vals == IF f.todo = <<>> THEN Append(f.vals, Value) ELSE f.vals
           todo == IF f.todo = <<>> THEN f.todo ELSE Tail(f.todo)
           cut  == SubSeq(frames, 1, n)
           fs   == [cut EXCEPT ![n].vals = vals, ![n].todo = todo]
<1>1. /\ verdict = "accepted" /\ Top > 1 /\ Leave
      /\ stack' = SubSeq(stack, 1, Len(stack) - 1)
      /\ mod' = mod /\ sets' = sets /\ phase' = phase /\ verdict' = verdict /\ ready' = ready
  BY DEF Finish, Leave, setVars
<1>2. /\ Len(frames) \in Nat /\ Len(frames) = Top /\ n \in 1..Top /\ n \in Nat /\ IsFrame(f, Functions) /\ 1 \in 1..n
      /\ \A k \in 1..Top : IsFrame(frames[k], Functions)
  BY <1>1 DEF Top, Shape, IsSeq, SetTypes
<1>3. IsSeq(cut) /\ Len(cut) = n /\ \A k \in 1..n : cut[k] = frames[k]
  BY <1>1, <1>2, SeqPop DEF Shape
<1>4. frames' = [cut EXCEPT ![n].vals = IF f.todo = <<>> THEN Append(@, Value) ELSE @,
                            ![n].todo = IF @ = <<>> THEN @ ELSE Tail(@)]
  BY DEF Finish
<1>5. todo \in Seq(Functions) /\ \A j \in DOMAIN todo : \E i \in DOMAIN f.todo : todo[j] = f.todo[i]
  <2>1. f.todo \in Seq(Functions)
    BY <1>2 DEF IsFrame
  <2> HIDE DEF f
  <2>2. CASE f.todo # <<>>
    <3>1. Tail(f.todo) \in Seq(Functions) /\ \A j \in DOMAIN Tail(f.todo) : j + 1 \in DOMAIN f.todo /\ Tail(f.todo)[j] = f.todo[j + 1]
      BY <2>1, <2>2
    <3> QED BY <2>2, <3>1
  <2> QED BY <2>1, <2>2
<1> HIDE DEF cut
<1>6. cut[n] = f /\ n \in DOMAIN cut /\ DOMAIN cut = 1..n /\ cut = [k \in 1..n |-> cut[k]]
  BY <1>2, <1>3 DEF IsSeq
<1>7. frames' = fs
  BY <1>4, <1>6, <1>2 DEF IsFrame
<1> HIDE DEF vals, todo
<1>8. /\ DOMAIN fs = 1..n /\ \A k \in 1..n : k # n => fs[k] = frames[k]
      /\ fs[n] = [f EXCEPT !.vals = vals, !.todo = todo]
      /\ fs = [k \in 1..n |-> fs[k]]
  BY <1>2, <1>3, <1>6
<1>9. fs[n] = [pos |-> f.pos, vals |-> vals, held |-> f.held, refs |-> f.refs, todo |-> todo]
  <2> HIDE DEF f, fs, n
  <2> QED BY <1>2, <1>8 DEF IsFrame
<1> HIDE DEF fs
<1>10. /\ fs[n].pos = f.pos /\ fs[n].held = f.held /\ fs[n].refs = f.refs /\ fs[n].todo = todo /\ fs[n].vals = vals
  BY <1>9
<1>11. IsFrame(fs[n], Functions)
  <2> HIDE DEF f
  <2> QED BY <1>2, <1>5, <1>9, <1>10 DEF IsFrame
<1>12. IsSeq(fs) /\ Len(fs) = n /\ \A k \in 1..n : IsFrame(fs[k], Functions)
  BY <1>2, <1>8, <1>11, SeqSame
<1>13. DOMAIN fs[1].held = {} /\ DOMAIN fs[1].refs = {}
  BY <1>2, <1>8, <1>10 DEF Shape
<1>14. Len(stack') = Len(stack) - 1 /\ \A i \in 1..(Len(stack) - 1) : stack'[i] = stack[i]
  <2>1. stack \in Seq(Functions) /\ Len(stack) = n
    BY <1>2 DEF Shape, SetTypes
  <2> QED BY <1>1, <1>2, <2>1
<1>15. Functions' = Functions
  BY <1>1 DEF Functions
<1>16. Shape'
  <2>1. Len(stack) \in Nat /\ Top = Len(stack) + 1 /\ Len(stack) <= MaxDepth
    BY DEF Shape, SetTypes
  <2>2. Top' = n
    BY <1>7, <1>12 DEF Top
  <2>3. Top' = Len(stack') + 1 /\ Len(stack') <= MaxDepth
    BY <1>14, <2>1, <2>2, MaxDepthAssumption
  <2> HIDE DEF n
  <2> QED BY <1>1, <1>7, <1>12, <1>13, <1>15, <2>2, <2>3 DEF Shape
<1>17. \A k \in 1..n : /\ fs[k].held = frames[k].held /\ fs[k].refs = frames[k].refs /\ fs[k].pos = frames[k].pos
                       /\ \A j \in DOMAIN fs[k].todo : \E i \in DOMAIN frames[k].todo : fs[k].todo[j] = frames[k].todo[i]
  <2> TAKE k \in 1..n
  <2>1. CASE k # n
    BY <1>8, <2>1
  <2>2. CASE k = n
    BY <1>5, <1>10, <2>2
  <2> QED BY <2>1, <2>2
<1>18. Top' = Top - 1
  BY <1>7, <1>12 DEF Top
<1> QED BY <1>1, <1>2, <1>7, <1>14, <1>16, <1>17, <1>18

\* A global is built, and the host goes on to the next.
LEMMA ReadyShape ==
  ASSUME SetTypes, Shape, GlobalReady
  PROVE  /\ Shape' /\ Top = 1 /\ Top' = 1 /\ stack' = stack /\ sets' = sets /\ mod' = mod /\ verdict' = verdict
         /\ frames'[1].todo = frames[1].todo
<1> DEFINE f == frames[1]
           fs == [frames EXCEPT ![1].pos = 1, ![1].vals = <<>>]
<1>1. /\ verdict = "accepted" /\ Top = 1 /\ frames' = fs /\ ready' = ready + 1
      /\ mod' = mod /\ sets' = sets /\ phase' = phase /\ verdict' = verdict /\ stack' = stack
  BY DEF GlobalReady, writeVars, setVars
<1>2. Len(frames) = 1 /\ DOMAIN frames = 1..1 /\ frames = [k \in 1..1 |-> frames[k]] /\ IsFrame(f, Functions)
  BY <1>1 DEF Top, Shape, IsSeq
<1>3. fs[1] = [f EXCEPT !.pos = 1, !.vals = <<>>] /\ fs = [k \in 1..1 |-> fs[k]]
  BY <1>2
<1> HIDE DEF fs
<1>4. fs[1] = [pos |-> 1, vals |-> <<>>, held |-> f.held, refs |-> f.refs, todo |-> f.todo]
  <2> HIDE DEF f
  <2> QED BY <1>2, <1>3 DEF IsFrame
<1>5. /\ fs[1].pos = 1 /\ fs[1].held = f.held /\ fs[1].refs = f.refs /\ fs[1].todo = f.todo /\ fs[1].vals = <<>>
  BY <1>4
<1>6. IsFrame(fs[1], Functions)
  <2> HIDE DEF f
  <2> QED BY <1>2, <1>4, <1>5 DEF IsFrame
<1>7. IsSeq(fs) /\ Len(fs) = 1
  BY <1>3, SeqSame
<1>8. Functions' = Functions
  BY <1>1 DEF Functions
<1>9. Top' = 1
  BY <1>1, <1>7 DEF Top
<1> QED BY <1>1, <1>5, <1>6, <1>7, <1>8, <1>9 DEF Shape

-----------------------------------------------------------------------------
\* The steps keep the sets.

LEMMA LoanSteps ==
  ASSUME SetsInv, Shape, [Next]_loanVars
  PROVE  \/ [SetsNext]_writeVars
         \/ RunDrop /\ UNCHANGED setVars /\ phase = "done" /\ stack' \in Seq(Functions)
<1>0. SetTypes
  BY DEF SetsInv
<1>1. CASE Solve
  BY <1>1 DEF Solve, SetsNext
<1>2. CASE CheckModule \/ Evaluate \/ GlobalReady
  BY <1>2 DEF CheckModule, Evaluate, GlobalReady
<1>3. CASE CallFunction
  BY <1>3 DEF CallFunction, Targets, SetsNext
<1>4. CASE Finish
  BY <1>4 DEF Finish, SetsNext
<1>5. CASE RunDrop
  <2>1. stack' = Append(stack, frames[Top].todo[1]) /\ frames[Top].todo[1] \in Functions /\ verdict = "accepted"
    BY <1>0, <1>5, RunDropShape
  <2>2. stack' \in Seq(Functions)
    BY <1>0, <2>1 DEF SetTypes
  <2> QED BY <1>5, <2>1, <2>2 DEF RunDrop, Shape
<1>6. CASE UNCHANGED loanVars
  BY <1>6 DEF loanVars
<1> QED BY <1>1, <1>2, <1>3, <1>4, <1>5, <1>6 DEF Next

LEMMA SetsStep ==
  ASSUME SetsInv, Shape, [Next]_loanVars
  PROVE  SetsInv'
BY LoanSteps, NextKeeps, CallsKeep

LEMMA ShapeStep ==
  ASSUME SetsInv, Shape, [Next]_loanVars
  PROVE  Shape'
<1>0. SetTypes
  BY DEF SetsInv
<1>1. CASE Solve
  <2>1. phase = "merge" /\ mod' = mod /\ stack' = stack /\ verdict' = verdict /\ frames' = frames /\ ready' = ready
    BY <1>1 DEF Solve, Merge, MergeCallee, NextFunction, EndPass
  <2>2. verdict # "accepted"
    BY <2>1 DEF Shape
  <2>3. Top' = Top /\ Functions' = Functions
    BY <2>1 DEF Top, Functions
  <2> QED BY <2>1, <2>2, <2>3 DEF Shape
<1>2. CASE CheckModule
  <2>1. phase = "done" /\ phase' = phase /\ mod' = mod /\ stack' = stack /\ frames' = frames /\ ready' = ready /\ verdict = "none"
    BY <1>2 DEF CheckModule, writeVars, setVars
  <2>2. Top' = Top /\ Functions' = Functions
    BY <2>1 DEF Top, Functions
  <2> QED BY <2>1, <2>2 DEF Shape
<1>3. CASE Evaluate
  BY <1>0, <1>3, EvaluateShape
<1>4. CASE CallFunction
  BY <1>0, <1>4, CallShape
<1>5. CASE Finish
  BY <1>0, <1>5, FinishShape
<1>6. CASE RunDrop
  BY <1>0, <1>6, RunDropShape
<1>7. CASE GlobalReady
  BY <1>0, <1>7, ReadyShape
<1>8. CASE UNCHANGED loanVars
  BY <1>8 DEF loanVars, writeVars, setVars, Shape, Top, Functions
<1> QED BY <1>1, <1>2, <1>3, <1>4, <1>5, <1>6, <1>7, <1>8 DEF Next

LEMMA InitShape == Init => SetsInv /\ Shape /\ RunInv
<1> SUFFICES ASSUME Init PROVE SetsInv /\ Shape /\ RunInv
  OBVIOUS
<1>1. SetsInit /\ stack = <<>> /\ verdict = "none" /\ frames = <<NewFrame(<<>>)>> /\ ready = 0
  BY DEF Init, SetsInit
<1>2. SetsInv
  BY <1>1, InitHolds
<1>3. IsSeq(frames) /\ Len(frames) = 1 /\ frames[1] = NewFrame(<<>>) /\ Len(stack) = 0
  BY <1>1 DEF IsSeq
<1>4. IsFrame(NewFrame(<<>>), Functions) /\ DOMAIN NewFrame(<<>>).held = {} /\ DOMAIN NewFrame(<<>>).refs = {}
      /\ NewFrame(<<>>).todo = <<>>
  BY DEF IsFrame, NewFrame
<1>5. Shape
  BY <1>1, <1>3, <1>4, MaxDepthAssumption DEF Shape, Top
<1> QED BY <1>1, <1>2, <1>5 DEF RunInv

-----------------------------------------------------------------------------
\* The steps keep what a frame's places stand for.

\* It rests on the calls below the frame and on the frame's places only.
LEMMA FrameOf ==
  ASSUME NEW m, NEW ws, NEW k \in Nat, NEW st, NEW st2, \A i \in 1..(k - 1) : st2[i] = st[i], k >= 2,
         NEW f, NEW g, DOMAIN g.held = DOMAIN f.held,
         \A x \in DOMAIN f.held : g.held[x].at = f.held[x].at /\ g.held[x].via = f.held[x].via
  PROVE  /\ HeldIn(m, ws, st, k, f) => HeldIn(m, ws, st2, k, g)
         /\ RefsIn(m, ws, st, k, f) /\ g.refs = f.refs /\ g.pos = f.pos => RefsIn(m, ws, st2, k, g)
         /\ TodoIn(ws, st, k, f) /\ (\A j \in DOMAIN g.todo : \E i \in DOMAIN f.todo : g.todo[j] = f.todo[i])
              => TodoIn(ws, st2, k, g)
<1>1. st2[k - 1] = st[k - 1]
  OBVIOUS
<1>2. \A at, via : SafeIn(m, ws, st, k, at, via) <=> SafeIn(m, ws, st2, k, at, via)
  <2>1. \A j \in 2..k : j - 1 \in 1..(k - 1)
    OBVIOUS
  <2>2. \A j \in 2..k : st2[j - 1] = st[j - 1]
    BY <2>1
  <2> QED BY <2>2 DEF SafeIn
<1>3. \A n, v : PlaceIn(m, ws, st, k, n, v) <=> PlaceIn(m, ws, st2, k, n, v)
  BY <1>1, <1>2 DEF PlaceIn
<1>4. HeldIn(m, ws, st, k, f) => HeldIn(m, ws, st2, k, g)
  BY <1>1, <1>2 DEF HeldIn
<1>5. RefsIn(m, ws, st, k, f) /\ g.refs = f.refs /\ g.pos = f.pos => RefsIn(m, ws, st2, k, g)
  BY <1>1, <1>3 DEF RefsIn
<1>6. TodoIn(ws, st, k, f) /\ (\A j \in DOMAIN g.todo : \E i \in DOMAIN f.todo : g.todo[j] = f.todo[i])
        => TodoIn(ws, st2, k, g)
  BY <1>1 DEF TodoIn
<1> QED BY <1>4, <1>5, <1>6

\* What is bound stands for what it is bound to.
LEMMA RefsStep ==
  ASSUME SetTypes, Shape, Running, Top >= 2,
         HeldIn(mod, sets, stack, Top, frames[Top]), RefsIn(mod, sets, stack, Top, frames[Top]),
         NEW g, g.refs = Bound(frames[Top].refs, Op), g.pos = frames[Top].pos + 1
  PROVE  RefsIn(mod, sets, stack, Top, g)
<1> DEFINE fn  == FnsOf(mod)[stack[Top - 1]]
           f   == frames[Top]
           pos == f.pos
<1>1. pos \in DOMAIN fn.ops /\ Op = fn.ops[pos] /\ OpResolved(fn, pos)
  BY OpIs
<1>2. Top \in 2..Top /\ stack[Top - 1] \in Functions /\ IsFrame(f, Functions)
  BY TopIs DEF Shape, IsSeq
<1>3. pos \in Nat \ {0} /\ \A b \in Binders(fn) : b \in Nat
  BY <1>2, Resolved DEF IsFrame, Binders, FnResolved, IsList
<1>4. ASSUME Binds(Op)
      PROVE  pos \in Binders(fn) /\ PlaceIn(mod, sets, stack, Top, Op.node.init, Lend(Op.node.init))
  <2>1. Op.node.init \in Names(Op)
    BY <1>4 DEF Names, Evaluated
  <2>2. SpelledAsReached(fn, Op.node.init, pos)
    BY <1>1, <2>1 DEF OpResolved
  <2> QED BY <1>1, <1>4, <2>2, LendIn DEF Binders
<1>5. ASSUME NEW r \in DOMAIN g.refs
      PROVE  \E b \in Binders(fn) : b < g.pos /\ fn.ops[b].node.name = r /\ PlaceIn(mod, sets, stack, Top, fn.ops[b].node.init, g.refs[r])
  <2>1. CASE Binds(Op) /\ r = Op.node.name
    <3>1. g.refs[r] = Lend(Op.node.init)
      BY <2>1 DEF Bound
    <3>2. pos < g.pos
      BY <1>3
    <3>3. pos \in Binders(fn) /\ PlaceIn(mod, sets, stack, Top, fn.ops[pos].node.init, g.refs[r])
      BY <1>1, <1>4, <2>1, <3>1
    <3>4. fn.ops[pos].node.name = r
      BY <1>1, <2>1
    <3> QED BY <3>2, <3>3, <3>4
  <2>2. CASE ~(Binds(Op) /\ r = Op.node.name)
    <3>1. r \in DOMAIN f.refs /\ g.refs[r] = f.refs[r]
      BY <1>5, <2>2 DEF Bound
    <3>2. PICK b \in Binders(fn) : b < pos /\ fn.ops[b].node.name = r /\ PlaceIn(mod, sets, stack, Top, fn.ops[b].node.init, f.refs[r])
      BY <3>1 DEF RefsIn
    <3>3. b < g.pos
      BY <1>3, <3>2
    <3> QED BY <3>1, <3>2, <3>3
  <2> QED BY <2>1, <2>2
<1>6. ASSUME NEW b \in Binders(fn), b < g.pos PROVE fn.ops[b].node.name \in DOMAIN g.refs
  <2>1. DOMAIN f.refs \subseteq DOMAIN g.refs
    BY DEF Bound
  <2>2. CASE b = pos
    <3>1. Binds(Op)
      BY <1>1, <1>6, <2>2 DEF Binders
    <3> QED BY <1>1, <2>2, <3>1 DEF Bound
  <2>3. CASE b # pos
    <3>1. b < pos
      BY <1>3, <1>6, <2>3
    <3> QED BY <1>6, <2>1, <3>1 DEF RefsIn
  <2> QED BY <2>2, <2>3
<1> QED BY <1>5, <1>6 DEF RefsIn

LEMMA TodoStep ==
  ASSUME SetTypes, Shape, Running, Top >= 2, DropsCovered, NEW g, g.todo = DropsOf(Op)
  PROVE  TodoIn(sets, stack, Top, g)
<1>1. stack[Top - 1] \in Functions
  BY TopIs DEF Shape, IsSeq
<1>2. LET fn == FnsOf(mod)[stack[Top - 1]]
      IN  frames[Top].pos \in DOMAIN fn.ops /\ Op = fn.ops[frames[Top].pos]
  BY OpIs
<1> QED BY <1>1, <1>2 DEF TodoIn, DropsCovered

\* A callee's frame: what it holds is a parameter of its own, and what it may write is
\* safe to write where the call is made.
LEMMA CalleeFrame ==
  ASSUME SetsInv, Shape, CoversCalls, Running, NEW g \in Targets(Op), NEW args,
         Top >= 2 => HeldIn(mod, sets, stack, Top, frames[Top]) /\ RefsIn(mod, sets, stack, Top, frames[Top]),
         NEW st, st[Top] = g, \A i \in DOMAIN stack : st[i] = stack[i]
  PROVE  FrameIn(mod, sets, st, Top + 1, NewFrame(Lent(Op, g, args)))
<1> DEFINE held == Lent(Op, g, args)
           callee == FnsOf(mod)[g]
           new == NewFrame(held)
<1>1. /\ SetTypes /\ Top \in Nat /\ Len(stack) \in Nat /\ Top = Len(stack) + 1 /\ DOMAIN stack = 1..Len(stack)
  BY DEF SetsInv, SetTypes, Shape
<1>2. /\ IsCall(Op) /\ g \in Functions /\ (g = Op.node.decl \/ (Op.node.decl = Unknown /\ DOMAIN callee.params = DOMAIN Op.node.args))
      /\ DOMAIN callee.params = DOMAIN Op.node.args
      /\ g = Op.node.decl => \A k \in DOMAIN Op.node.args : callee.params[k] \notin callee.const => ArgMode(Op.node, k) # "shared"
  <2>1. /\ IsCall(Op) /\ g \in Functions /\ (g = Op.node.decl \/ (Op.node.decl = Unknown /\ DOMAIN callee.params = DOMAIN Op.node.args))
    BY DEF Targets
  <2>2. CallResolved(mod, Op.node)
    BY <1>1, <2>1, OpFacts
  <2> QED BY <2>1, <2>2 DEF CallResolved, Functions
<1>3. ASSUME NEW x \in DOMAIN held
      PROVE  /\ x \in ParamsOf(callee)
             /\ x \notin callee.const => SafeIn(mod, sets, st, Top + 1, held[x].at, {<<Top + 1, x>>} \cup held[x].via)
  <2>1. PICK k \in LentBy(Op) : /\ x = callee.params[k]
                                /\ held[x].at = Lend(Op.node.args[k].arg).at /\ held[x].via = Lend(Op.node.args[k].arg).via
    BY <1>1, LentIs
  <2>2. k \in DOMAIN Op.node.args /\ ArgMode(Op.node, k) # "move"
    BY <1>2, <2>1 DEF LentBy
  <2>3. x \in ParamsOf(callee)
    BY <1>2, <2>1, <2>2 DEF ParamsOf
  <2> DEFINE at == held[x].at
             via == {<<Top + 1, x>>} \cup held[x].via
  <2>4. ASSUME x \notin callee.const, GlobalIn(mod, at), NEW j \in 2..(Top + 1), \A u \in via : j < u[1]
        PROVE  DeclIn(sets[st[j - 1]], at)
    <3>1. j < <<Top + 1, x>>[1] /\ \A u \in held[x].via : j < u[1]
      BY <2>4
    <3>2. j \in 2..Top /\ Top >= 2 /\ j - 1 \in DOMAIN stack /\ st[j - 1] = stack[j - 1] /\ Top - 1 \in DOMAIN stack /\ j - 1 <= Top - 1
      BY <1>1, <3>1
    <3>3. HeldIn(mod, sets, stack, Top, frames[Top]) /\ RefsIn(mod, sets, stack, Top, frames[Top])
      BY <3>2
    <3>4. CASE g = Op.node.decl
      <4>1. ArgMode(Op.node, k) = "mut"
        BY <1>2, <2>1, <2>2, <2>4, <3>4 DEF ArgMode
      <4>2. Op.node.args[k].arg \in Changes(Op)
        BY <2>1, <4>1 DEF Changes
      <4>3. SafeIn(mod, sets, stack, Top, at, held[x].via)
        BY <2>1, <3>2, <3>3, <4>2, ChangeSafe
      <4> QED BY <2>4, <3>1, <3>2, <4>3 DEF SafeIn
    <3>5. CASE g # Op.node.decl
      <4> DEFINE h == stack[Top - 1]
                 fn == FnsOf(mod)[h]
      <4>1. Op.node.decl = Unknown /\ h \in Functions
        BY <1>1, <1>2, <3>2, <3>5 DEF SetTypes
      <4>2. frames[Top].pos \in DOMAIN fn.ops /\ Op = fn.ops[frames[Top].pos] /\ fn.body
        BY <1>1, <3>2, OpIs
      <4>3. frames[Top].pos \in Evals(fn)
        BY <1>2, <4>2 DEF IsCall, Evals
      <4>4. Direct(fn).all
        BY <1>2, <4>1, <4>2, <4>3 DEF Direct
      <4>5. Covers(sets[h], Direct(fn)) /\ Covers(sets[stack[j - 1]], sets[h])
        BY <3>2, <4>1 DEF CoversCalls, SetsInv, Grown
      <4> QED BY <3>2, <4>4, <4>5 DEF Covers, DeclIn
    <3> QED BY <3>4, <3>5
  <2> QED BY <2>3, <2>4 DEF SafeIn
<1>4. st[(Top + 1) - 1] = g /\ new.held = held /\ DOMAIN new.refs = {} /\ DOMAIN new.todo = {} /\ new.pos = 1
  BY <1>1 DEF NewFrame
<1>5. \A b \in Binders(callee) : ~(b < 1)
  BY <1>1, <1>2, Resolved DEF Binders, FnResolved, IsList
<1> HIDE DEF held, new, callee
<1>6. HeldIn(mod, sets, st, Top + 1, new)
  BY <1>3, <1>4 DEF HeldIn, callee
<1>7. RefsIn(mod, sets, st, Top + 1, new)
  BY <1>4, <1>5 DEF RefsIn, callee
<1>8. TodoIn(sets, st, Top + 1, new)
  BY <1>4 DEF TodoIn
<1> QED BY <1>6, <1>7, <1>8 DEF FrameIn, new, held

\* A drop method is covered by the function that runs it.
LEMMA DropCovered ==
  ASSUME SetsInv, Shape, CoversCalls, NEW g \in Functions, stack' = Append(stack, g), sets' = sets,
         Top >= 2 => Covers(sets[stack[Top - 1]], sets[g])
  PROVE  CoversCalls'
<1>1. /\ stack \in Seq(Functions) /\ Len(stack) \in Nat /\ Top = Len(stack) + 1 /\ \A f \in Functions : sets[f].all \in BOOLEAN
  BY DEF SetsInv, SetTypes, IsFnWrites, Shape
<1>2. /\ DOMAIN stack' = DOMAIN stack \cup {Len(stack) + 1} /\ stack'[Len(stack) + 1] = g
      /\ \A i \in DOMAIN stack : stack'[i] = stack[i] /\ i <= Len(stack)
  BY <1>1
<1>3. ASSUME NEW i \in DOMAIN stack PROVE Covers(sets[stack[i]], sets[g])
  <2>1. Top >= 2 /\ Top - 1 \in DOMAIN stack /\ i <= Top - 1
    BY <1>1
  <2>2. Covers(sets[stack[i]], sets[stack[Top - 1]])
    BY <2>1 DEF CoversCalls
  <2> QED BY <2>1, <2>2, CoversOrder
<1>4. Covers(sets[g], sets[g])
  BY <1>1, CoversOrder
<1> QED BY <1>1, <1>2, <1>3, <1>4 DEF CoversCalls

LEMMA RunStep ==
  ASSUME SetsInv, Shape, RunInv, [Next]_loanVars
  PROVE  RunInv'
<1>0. SetTypes /\ Top \in Nat /\ Len(stack) \in Nat /\ Top = Len(stack) + 1 /\ DOMAIN stack = 1..Len(stack)
  BY DEF SetsInv, SetTypes, Shape
<1> DEFINE Sound == CoversCalls /\ \A k \in 2..Top : FrameIn(mod, sets, stack, k, frames[k])
<1>1. ASSUME mod' = mod, sets' = sets PROVE DropsCovered' <=> DropsCovered
  BY <1>1 DEF DropsCovered, Functions
<1>2. CASE Solve
  <2>1. phase = "merge" /\ verdict' = verdict
    BY <1>2 DEF Solve, Merge, MergeCallee, NextFunction, EndPass
  <2> QED BY <2>1 DEF RunInv, Shape
<1>3. CASE CheckModule
  <2>1. verdict = "none" /\ stack' = stack /\ frames' = frames
    BY <1>3 DEF CheckModule, writeVars
  <2>2. Top = 1 /\ Top' = 1 /\ stack' = <<>>
    BY <1>0, <2>1 DEF Shape, Top
  <2> QED BY <2>2 DEF RunInv, CoversCalls
<1>4. SUFFICES ASSUME Evaluate \/ CallFunction \/ Finish \/ RunDrop \/ GlobalReady, DropsCovered, Sound, verdict = "accepted"
      PROVE  Sound'
  <2>1. CASE UNCHANGED loanVars
    BY <2>1 DEF loanVars, writeVars, setVars, RunInv, Top, CoversCalls, DropsCovered, Functions
  <2>2. CASE Evaluate \/ CallFunction \/ Finish \/ RunDrop \/ GlobalReady
    <3>1. mod' = mod /\ sets' = sets
      BY <1>0, <2>2, EvaluateShape, CallShape, FinishShape, RunDropShape, ReadyShape
    <3>2. verdict = "accepted"
      BY <2>2 DEF Evaluate, CallFunction, Finish, RunDrop, GlobalReady, Running
    <3> QED BY <1>1, <1>4, <2>2, <3>1, <3>2 DEF RunInv
  <2> QED BY <1>2, <1>3, <2>1, <2>2 DEF Next
<1>5. Top >= 2 => FrameIn(mod, sets, stack, Top, frames[Top])
  BY <1>0, <1>4
<1>6. CASE Evaluate
  <2>1. /\ Top' = Top /\ stack' = stack /\ sets' = sets /\ mod' = mod /\ Running
        /\ \A k \in 1..Top : k # Top => SamePlaces(frames'[k], frames[k])
        /\ DOMAIN frames'[Top].held = DOMAIN frames[Top].held
        /\ \A x \in DOMAIN frames[Top].held : /\ frames'[Top].held[x].at = frames[Top].held[x].at
                                              /\ frames'[Top].held[x].via = frames[Top].held[x].via
        /\ frames'[Top].refs = Bound(frames[Top].refs, Op) /\ frames'[Top].pos = frames[Top].pos + 1
        /\ frames'[Top].todo = DropsOf(Op)
    BY <1>0, <1>6, EvaluateShape DEF Evaluate
  <2>2. ASSUME NEW k \in 2..Top, k # Top PROVE FrameIn(mod, sets, stack, k, frames'[k])
    <3>1. SamePlaces(frames'[k], frames[k]) /\ FrameIn(mod, sets, stack, k, frames[k])
      BY <1>4, <2>1, <2>2
    <3>2. k \in Nat /\ k >= 2
      BY <1>0
    <3> QED BY <3>1, <3>2, FrameOf DEF SamePlaces, FrameIn
  <2>3. ASSUME Top >= 2 PROVE FrameIn(mod, sets, stack, Top, frames'[Top])
    <3>1. HeldIn(mod, sets, stack, Top, frames[Top]) /\ RefsIn(mod, sets, stack, Top, frames[Top])
      BY <1>5, <2>3 DEF FrameIn
    <3>2. HeldIn(mod, sets, stack, Top, frames'[Top])
      BY <1>0, <2>1, <2>3, <3>1, FrameOf
    <3>3. RefsIn(mod, sets, stack, Top, frames'[Top])
      BY <1>0, <2>1, <2>3, <3>1, RefsStep
    <3>4. TodoIn(sets, stack, Top, frames'[Top])
      BY <1>0, <1>4, <2>1, <2>3, TodoStep
    <3> QED BY <3>2, <3>3, <3>4 DEF FrameIn
  <2>4. CoversCalls'
    BY <1>4, <2>1 DEF CoversCalls
  <2> QED BY <1>0, <2>1, <2>2, <2>3, <2>4
<1>7. CASE CallFunction
  <2>1. PICK g, args :
         /\ g \in Targets(Op)
         /\ Top' = Top + 1 /\ sets' = sets /\ mod' = mod /\ Enter(g) /\ Running
         /\ stack'[Top] = g /\ \A i \in DOMAIN stack : stack'[i] = stack[i]
         /\ \A k \in 1..Top : k # Top => frames'[k] = frames[k]
         /\ /\ frames'[Top].held = frames[Top].held /\ frames'[Top].refs = frames[Top].refs
            /\ frames'[Top].pos = frames[Top].pos + 1 /\ frames'[Top].todo = frames[Top].todo
         /\ frames'[Top + 1] = NewFrame(Lent(Op, g, args))
    BY <1>0, <1>7, CallShape
  <2>2. Top >= 2 => HeldIn(mod, sets, stack, Top, frames[Top]) /\ RefsIn(mod, sets, stack, Top, frames[Top])
    BY <1>5 DEF FrameIn
  <2>3. FrameIn(mod, sets, stack', Top + 1, frames'[Top + 1])
    BY <1>4, <2>1, <2>2, CalleeFrame
  <2>4. ASSUME NEW k \in 2..Top, k # Top PROVE FrameIn(mod, sets, stack', k, frames'[k])
    <3>1. frames'[k] = frames[k] /\ FrameIn(mod, sets, stack, k, frames[k]) /\ \A i \in 1..(k - 1) : i \in DOMAIN stack
      BY <1>0, <1>4, <2>1, <2>4
    <3>2. k \in Nat /\ k >= 2 /\ \A i \in 1..(k - 1) : stack'[i] = stack[i]
      BY <1>0, <2>1, <3>1
    <3> QED BY <3>1, <3>2, FrameOf DEF FrameIn
  <2>5. ASSUME Top >= 2 PROVE FrameIn(mod, sets, stack', Top, frames'[Top])
    <3>1. \A i \in 1..(Top - 1) : stack'[i] = stack[i]
      BY <1>0, <2>1
    <3>2. ~Binds(Op)
      BY <2>1 DEF Targets, IsCall, Binds
    <3>3. RefsIn(mod, sets, stack, Top, frames'[Top])
      BY <1>0, <2>1, <2>2, <2>5, <3>2, RefsStep DEF Bound
    <3>4. RefsIn(mod, sets, stack', Top, frames'[Top])
      BY <1>0, <2>5, <3>1, <3>3, FrameOf
    <3>5. HeldIn(mod, sets, stack', Top, frames'[Top])
      BY <1>0, <2>1, <2>2, <2>5, <3>1, FrameOf
    <3>6. TodoIn(sets, stack', Top, frames'[Top])
      <4>1. TodoIn(sets, stack, Top, frames[Top])
        BY <1>5, <2>5 DEF FrameIn
      <4> QED BY <1>0, <2>1, <2>5, <3>1, <4>1 DEF TodoIn
    <3> QED BY <3>4, <3>5, <3>6 DEF FrameIn
  <2>6. CoversCalls'
    BY <1>4, <2>1, CoversKeeps DEF SetsNext, Targets
  <2>7. \A k \in 2..(Top + 1) : FrameIn(mod, sets, stack', k, frames'[k])
    <3> TAKE k \in 2..(Top + 1)
    <3>1. k = Top + 1 \/ (k = Top /\ Top >= 2) \/ (k \in 2..Top /\ k # Top)
      BY <1>0
    <3> QED BY <2>3, <2>4, <2>5, <3>1
  <2> QED BY <2>1, <2>6, <2>7
<1>8. CASE Finish
  <2>1. /\ Top' = Top - 1 /\ Top >= 2 /\ sets' = sets /\ mod' = mod /\ Leave
        /\ \A i \in 1..(Len(stack) - 1) : stack'[i] = stack[i]
        /\ \A k \in 1..(Top - 1) : /\ frames'[k].held = frames[k].held /\ frames'[k].refs = frames[k].refs
                                   /\ frames'[k].pos = frames[k].pos
                                   /\ \A j \in DOMAIN frames'[k].todo : \E i \in DOMAIN frames[k].todo :
                                        frames'[k].todo[j] = frames[k].todo[i]
    BY <1>0, <1>8, FinishShape
  <2>2. ASSUME NEW k \in 2..(Top - 1) PROVE FrameIn(mod, sets, stack', k, frames'[k])
    <3>1. FrameIn(mod, sets, stack, k, frames[k]) /\ k \in 1..(Top - 1) /\ k \in Nat /\ k >= 2
      BY <1>0, <1>4
    <3>2. \A i \in 1..(k - 1) : i \in 1..(Len(stack) - 1)
      BY <1>0
    <3>3. \A i \in 1..(k - 1) : stack'[i] = stack[i]
      BY <2>1, <3>2
    <3> QED BY <2>1, <3>1, <3>3, FrameOf DEF FrameIn
  <2>3. CoversCalls'
    BY <1>4, <2>1, CoversKeeps DEF SetsNext
  <2> QED BY <2>1, <2>2, <2>3
<1>9. CASE RunDrop
  <2>1. /\ Top' = Top + 1 /\ sets' = sets /\ mod' = mod
        /\ 1 \in DOMAIN frames[Top].todo /\ stack'[Top] = frames[Top].todo[1] /\ \A i \in DOMAIN stack : stack'[i] = stack[i]
        /\ stack' = Append(stack, frames[Top].todo[1]) /\ frames[Top].todo[1] \in Functions
        /\ \A k \in 1..Top : frames'[k] = frames[k]
        /\ frames'[Top + 1] = NewFrame(<<>>)
    BY <1>0, <1>9, RunDropShape
  <2>2. ASSUME NEW k \in 2..Top PROVE FrameIn(mod, sets, stack', k, frames'[k])
    <3>1. FrameIn(mod, sets, stack, k, frames[k]) /\ frames'[k] = frames[k] /\ k \in Nat /\ k >= 2
      BY <1>0, <1>4, <2>1
    <3>2. \A i \in 1..(k - 1) : stack'[i] = stack[i]
      BY <1>0, <2>1
    <3> QED BY <3>1, <3>2, FrameOf DEF FrameIn
  <2>3. FrameIn(mod, sets, stack', Top + 1, NewFrame(<<>>))
    <3> DEFINE new == NewFrame(<<>>)
               g == frames[Top].todo[1]
    <3>1. DOMAIN new.held = {} /\ DOMAIN new.refs = {} /\ DOMAIN new.todo = {} /\ new.pos = 1
      BY DEF NewFrame
    <3>2. \A b \in Binders(FnsOf(mod)[g]) : ~(b < 1)
      BY <1>0, <2>1, Resolved DEF Binders, FnResolved, IsList
    <3>3. stack'[(Top + 1) - 1] = g
      BY <1>0, <2>1
    <3> HIDE DEF new, g
    <3> QED BY <3>1, <3>2, <3>3 DEF FrameIn, HeldIn, RefsIn, TodoIn, new
  <2>4. CoversCalls'
    <3>1. Top >= 2 => Covers(sets[stack[Top - 1]], sets[frames[Top].todo[1]])
      BY <1>5, <2>1 DEF FrameIn, TodoIn
    <3> QED BY <1>4, <2>1, <3>1, DropCovered
  <2>5. \A k \in 2..(Top + 1) : FrameIn(mod, sets, stack', k, frames'[k])
    <3> TAKE k \in 2..(Top + 1)
    <3>1. k = Top + 1 \/ k \in 2..Top
      BY <1>0
    <3> QED BY <2>1, <2>2, <2>3, <3>1
  <2> QED BY <2>1, <2>4, <2>5
<1>10. CASE GlobalReady
  <2>1. Top = 1 /\ Top' = 1 /\ stack' = stack /\ sets' = sets
    BY <1>0, <1>10, ReadyShape
  <2> QED BY <1>4, <2>1 DEF CoversCalls
<1> QED BY <1>4, <1>6, <1>7, <1>8, <1>9, <1>10

LEMMA RunInvariant == Spec => [](SetsInv /\ Shape /\ RunInv)
BY InitShape, SetsStep, ShapeStep, RunStep, PTL DEF Spec

\* A run accepted with its drop methods covered: a write to a global is in the set of
\* every function that waits for it, but of those that pass the place on as a parameter
\* of theirs (CheckGlobalArgs, CallFactStep).
THEOREM WritesDeclaredHolds == Spec => [](DropsCovered => WritesDeclared)
<1>1. SetsInv /\ Shape /\ RunInv => (DropsCovered => WritesDeclared)
  <2> DEFINE n == WrittenPlace(Op)
  <2> SUFFICES ASSUME SetsInv, Shape, RunInv, DropsCovered, Running, WritesPlace(Op), IsGlobal(StorageOf(n)),
                      NEW k \in 2..Top, \A v \in Via(Top, RootIdent(n)) : k < v[1]
               PROVE  Declared(k, StorageOf(n))
    BY DEF WritesDeclared
  <2>1. Top \in Nat /\ Top >= 2 /\ Top \in 2..Top
    BY DEF SetsInv, SetTypes, Shape
  <2>2. CoversCalls /\ HeldIn(mod, sets, stack, Top, frames[Top]) /\ RefsIn(mod, sets, stack, Top, frames[Top])
    BY <2>1 DEF RunInv, Running, FrameIn
  <2>3. n \in Changes(Op)
    BY DEF Changes
  <2>4. SafeIn(mod, sets, stack, Top, Lend(n).at, Lend(n).via)
    BY <2>1, <2>2, <2>3, ChangeSafe
  <2>5. Lend(n).at = StorageOf(n) /\ Lend(n).via = Via(Top, RootIdent(n))
    BY DEF Lend
  <2>6. GlobalIn(mod, StorageOf(n))
    BY DEF IsGlobal, Globals, GlobalIn
  <2> HIDE DEF n
  <2> QED BY <2>4, <2>5, <2>6 DEF SafeIn, DeclIn, Declared
<1> QED BY <1>1, RunInvariant, PTL

-----------------------------------------------------------------------------
\* The initializers.

\* The walk over the initializers sees all they do: the operations of each, no call to
\* what may do anything, and the global itself (TouchGlobal looks at the later ones).
InitsSeen ==
  \A g \in DOMAIN Globals : LET init == Globals[g].init IN
    /\ InitWalked(Globals[g]) /\ Globals[g].name \notin WalkInit(init)
    /\ \A n \in InitNodes(init) : n.kind = "Call" => n.decl \in Functions /\ ~sets[n.decl].all

\* The globals that are not built, and what does not come to one.
LaterIn(m, built) == {m.globals[g].name : g \in (built + 1)..Len(m.globals)}
CleanSet(later, w) == ~w.all /\ later \cap w.reads = {} /\ \A key \in w.keys : key[1].text \notin later
CleanFrame(later, f) ==
  /\ \A x \in DOMAIN f.held : f.held[x].at[1] \notin later
  /\ \A r \in DOMAIN f.refs : f.refs[r].at[1] \notin later

Touched  == \A g \in DOMAIN Globals : TouchGlobal(g)
EarlyInv ==
  verdict = "accepted" =>
    /\ Touched
    /\ DropsCovered /\ InitsSeen /\ ready < Len(Globals) =>
         /\ \A i \in DOMAIN stack : CleanSet(LaterIn(mod, ready), sets[stack[i]])
         /\ \A k \in 1..Top : CleanFrame(LaterIn(mod, ready), frames[k])
         /\ DOMAIN frames[1].todo = {}

LEMMA CoversClean ==
  ASSUME NEW later, NEW a, NEW b, CleanSet(later, a), Covers(a, b)
  PROVE  CleanSet(later, b)
BY DEF CleanSet, Covers

\* The initializer that is run: what it names and what it calls is no later global.
LEMMA InitRuns ==
  ASSUME SetTypes, Shape, Running, Top = 1, ready < Len(Globals), InitsSeen, Touched
  PROVE  /\ DropsOf(Op) = <<>> /\ ~Binds(Op)
         /\ \A n \in Evaluated(Op) : RootIdent(n) \notin LaterIn(mod, ready)
         /\ IsPlace(Used(Op)) => RootIdent(Used(Op)) \notin LaterIn(mod, ready)
         /\ IsCall(Op) => Op.node.decl \in Functions /\ CleanSet(LaterIn(mod, ready), sets[Op.node.decl])
<1> DEFINE g == ready + 1
           init == Globals[g].init
           later == LaterIn(mod, ready)
<1>1. ready \in Nat /\ Len(Globals) \in Nat /\ DOMAIN Globals = 1..Len(Globals) /\ g \in DOMAIN Globals
  BY Resolved DEF Shape, ModuleResolved, IsList, Globals
<1>2. HostOps = Globals[g].ops /\ frames[1].pos \in DOMAIN HostOps /\ Op = HostOps[frames[1].pos]
  BY HostOpsAre DEF HostOps
<1>3. InitWalked(Globals[g]) /\ Globals[g].name \notin WalkInit(init) /\ TouchGlobal(g)
      /\ \A n \in InitNodes(init) : n.kind = "Call" => n.decl \in Functions /\ ~sets[n.decl].all
  BY <1>1 DEF InitsSeen, Touched
<1>4. WalkInit(init) \cap later = {}
  <2>1. \A j \in (g + 1)..Len(Globals) : Globals[j].name \notin WalkInit(init)
    BY <1>3 DEF TouchGlobal
  <2>2. \A j \in g..Len(Globals) : j = g \/ j \in (g + 1)..Len(Globals)
    BY <1>1
  <2>3. \A j \in g..Len(Globals) : Globals[j].name \notin WalkInit(init)
    BY <1>3, <2>1, <2>2
  <2> QED BY <2>3 DEF LaterIn, Globals
<1>5. \A m \in InitNodes(init) : /\ m.kind = "Place" => RootIdent(m) \in WalkInit(init)
                                 /\ m.kind = "Call" => TouchedBy(m.decl) \subseteq WalkInit(init)
  BY DEF WalkInit
<1>6. /\ DropsOf(Op) = <<>> /\ ~Binds(Op)
      /\ \A n \in {m \in {Used(Op)} : IsPlace(m)} \cup Evaluated(Op) :
           \E m \in InitNodes(init) : m.kind = "Place" /\ RootIdent(m) = RootIdent(n)
      /\ IsCall(Op) => Op.node \in InitNodes(init)
  BY <1>2, <1>3 DEF InitWalked
<1>7. IsCall(Op) => Op.node.decl \in Functions /\ CleanSet(later, sets[Op.node.decl])
  <2> SUFFICES ASSUME IsCall(Op) PROVE Op.node.decl \in Functions /\ CleanSet(later, sets[Op.node.decl])
    OBVIOUS
  <2> DEFINE d == Op.node.decl
  <2>1. Op.node \in InitNodes(init) /\ Op.node.kind = "Call"
    BY <1>6 DEF IsCall
  <2>2. d \in Functions /\ ~sets[d].all /\ TouchedBy(d) \subseteq WalkInit(init)
    BY <1>3, <1>5, <2>1
  <2>3. sets[d].reads \subseteq WalkInit(init) /\ \A key \in sets[d].keys : key[1].text \in WalkInit(init)
    BY <2>2 DEF TouchedBy
  <2> HIDE DEF d, init
  <2> QED BY <1>4, <2>2, <2>3 DEF CleanSet, d
<1>8. \A n \in {m \in {Used(Op)} : IsPlace(m)} \cup Evaluated(Op) : RootIdent(n) \notin later
  BY <1>4, <1>5, <1>6
<1> QED BY <1>6, <1>7, <1>8

\* What an operation uses, lends or binds is no later global.
LEMMA UseIsEarly ==
  ASSUME SetsInv, Shape, Running, ready < Len(Globals), InitsSeen, Touched,
         \A i \in DOMAIN stack : CleanSet(LaterIn(mod, ready), sets[stack[i]]),
         CleanFrame(LaterIn(mod, ready), frames[Top]),
         NEW n, n \in Evaluated(Op) \/ (IsPlace(Used(Op)) /\ n = Used(Op))
  PROVE  Lend(n).at[1] \notin LaterIn(mod, ready)
<1> DEFINE later == LaterIn(mod, ready)
           x == RootIdent(n)
           f == frames[Top]
<1>1. SetTypes /\ HasRoot(n)
  BY OpFacts DEF SetsInv, Names
<1>2. IsFrame(f, Functions) /\ Top \in Nat /\ Top >= 1 /\ IsSeq(TailOf(n))
  BY <1>1, TailIs DEF Shape, SetTypes, IsSeq
<1>3. Lend(n).at = Root(Top, x) \o TailOf(n)
  BY DEF Lend, StorageOf
<1>4. ASSUME NEW v, IsSeq(v), Len(v) >= 1, Root(Top, x) = v, v[1] \notin later
      PROVE  Lend(n).at[1] \notin later
  BY <1>2, <1>3, <1>4, SeqJoin
<1>5. CASE x \in DOMAIN f.held
  <2>1. Root(Top, x) = f.held[x].at /\ IsLoan(f.held[x]) /\ f.held[x].at[1] \notin later
    BY <1>2, <1>5 DEF Root, IsFrame, CleanFrame
  <2> QED BY <1>4, <2>1 DEF IsLoan
<1>6. CASE x \notin DOMAIN f.held /\ x \in DOMAIN f.refs
  <2>1. Root(Top, x) = f.refs[x].at /\ IsLoan(f.refs[x]) /\ f.refs[x].at[1] \notin later
    BY <1>2, <1>6 DEF Root, IsFrame, CleanFrame
  <2> QED BY <1>4, <2>1 DEF IsLoan
<1>7. \A e : IsSeq(<<e>>) /\ Len(<<e>>) >= 1 /\ <<e>>[1] = e
  BY DEF IsSeq
<1>8. CASE x \notin DOMAIN f.held /\ x \notin DOMAIN f.refs /\ x \in LocalsOf(Top)
  <2> DEFINE e == InFrame(Top, x)
  <2>1. Top >= 2
    BY <1>2, <1>8 DEF LocalsOf
  <2>2. Top \in 2..Top
    BY <1>2, <2>1
  <2>3. stack[Top - 1] \in Functions /\ Top \in 1..(MaxDepth + 1)
    BY <1>1, <2>2, TopIs
  <2>4. x \in FnsOf(mod)[stack[Top - 1]].locals
    BY <1>2, <1>8, <2>1 DEF LocalsOf
  <2>5. Root(Top, x) = <<e>> /\ <<e>>[1] = e
    BY <1>7, <1>8 DEF Root
  <2>6. ~GlobalIn(mod, <<e>>)
    BY <1>1, <2>3, <2>4, <2>5, LocalStorage
  <2>7. e \notin later
    <3>1. \A g \in (ready + 1)..Len(mod.globals) : g \in DOMAIN mod.globals
      BY <1>1, Resolved DEF Shape, ModuleResolved, IsList
    <3> HIDE DEF e
    <3> QED BY <2>5, <2>6, <3>1 DEF GlobalIn, LaterIn
  <2> HIDE DEF e
  <2> QED BY <1>4, <1>7, <2>5, <2>7
<1>9. CASE x \notin DOMAIN f.held /\ x \notin DOMAIN f.refs /\ x \notin LocalsOf(Top)
  <2>1. Root(Top, x) = <<x>>
    BY <1>9 DEF Root
  <2>2. x \notin later
    <3>1. CASE Top = 1
      BY <1>1, <3>1, InitRuns
    <3>2. CASE Top # 1
      <4> DEFINE g == stack[Top - 1]
                 fn == FnsOf(mod)[g]
                 pos == f.pos
      <4>1. Top >= 2 /\ Top \in 2..Top
        BY <1>2, <3>2
      <4>2. Top - 1 \in DOMAIN stack /\ g \in Functions
        BY <1>1, <4>1, TopIs
      <4>3. pos \in DOMAIN fn.ops /\ Op = fn.ops[pos] /\ OpResolved(fn, pos) /\ fn.body
        BY <1>1, <4>1, OpIs
      <4>4. CleanSet(later, Direct(fn))
        BY <4>2, CoversClean DEF SetsInv, Grown
      <4>5. x \notin fn.locals
        BY <1>9, <4>1 DEF LocalsOf
      <4>6. ASSUME NEW k \in Evals(fn), IsPlace(fn.ops[k].node), RootIdent(fn.ops[k].node) = x
            PROVE  x \notin later
        <5>1. x \in NoteReads(fn, fn.ops[k].node)
          BY <4>5, <4>6 DEF NoteReads
        <5>2. x \in Direct(fn).reads
          BY <4>3, <5>1 DEF Direct
        <5> QED BY <4>4, <5>2 DEF CleanSet
      <4>7. CASE n \in Evaluated(Op)
        BY <4>3, <4>6, <4>7 DEF OpResolved
      <4>8. CASE IsPlace(Used(Op)) /\ n = Used(Op) /\ Op.op = "Eval" /\ IsPlace(Op.node)
        BY <4>3, <4>6, <4>8 DEF Used, Evals
      <4>9. CASE IsPlace(Used(Op)) /\ n = Used(Op) /\ ~(Op.op = "Eval" /\ IsPlace(Op.node))
        <5>1. n = WrittenPlace(Op) /\ n \in Changes(Op)
          BY <4>9 DEF Used, Changes, WritesPlace
        <5>2. SpelledAsReached(fn, n, pos)
          BY <4>3, <5>1 DEF OpResolved, Names
        <5>3. x \notin RefNames(fn)
          BY <1>1, <4>2, <4>5, Resolved DEF FnResolved
        <5>4. LaxRoot(n) = x
          BY <5>2, <5>3 DEF SpelledAsReached
        <5>5. n.lax \in Direct(fn).keys
          BY <1>1, <4>2, <4>3, <4>5, <5>1, <5>4, OwnWrites
        <5> QED BY <4>4, <5>4, <5>5 DEF CleanSet, LaxRoot
      <4> QED BY <4>7, <4>8, <4>9
    <3> QED BY <3>1, <3>2
  <2> HIDE DEF x
  <2> QED BY <1>4, <1>7, <2>1, <2>2
<1> QED BY <1>5, <1>6, <1>8, <1>9

LEMMA CheckedStays ==
  ASSUME mod' = mod, sets' = sets
  PROVE  (DropsCovered' <=> DropsCovered) /\ (InitsSeen' <=> InitsSeen) /\ (Touched' <=> Touched)
<1>1. Functions' = Functions /\ Globals' = Globals
  BY DEF Functions, Globals
<1>2. DropsCovered' <=> DropsCovered
  BY <1>1 DEF DropsCovered
<1>3. ASSUME NEW n PROVE WalkInit(n)' = WalkInit(n)
  BY <1>1 DEF WalkInit, TouchedBy
<1>4. InitsSeen' <=> InitsSeen
  BY <1>1, <1>3 DEF InitsSeen
<1>5. Touched' <=> Touched
  BY <1>1, <1>3 DEF Touched, TouchGlobal
<1> QED BY <1>2, <1>4, <1>5

\* What is on the stack and in the frames stays clear of the later globals.
Clear(later) ==
  /\ \A i \in DOMAIN stack : CleanSet(later, sets[stack[i]])
  /\ \A k \in 1..Top : CleanFrame(later, frames[k])
  /\ DOMAIN frames[1].todo = {}

LEMMA ClearEvaluate ==
  ASSUME SetsInv, Shape, Evaluate, ready < Len(Globals), InitsSeen, Touched, Clear(LaterIn(mod, ready))
  PROVE  Clear(LaterIn(mod, ready))'
<1> DEFINE later == LaterIn(mod, ready)
           f == frames[Top]
<1>1. /\ SetTypes /\ Running /\ Top' = Top /\ stack' = stack /\ sets' = sets /\ mod' = mod /\ ready' = ready
      /\ \A k \in 1..Top : k # Top => SamePlaces(frames'[k], frames[k])
      /\ DOMAIN frames'[Top].held = DOMAIN f.held
      /\ \A x \in DOMAIN f.held : frames'[Top].held[x].at = f.held[x].at
      /\ frames'[Top].refs = Bound(f.refs, Op) /\ frames'[Top].todo = DropsOf(Op)
  BY EvaluateShape DEF SetsInv, Evaluate
<1>2. Top \in Nat /\ 1 \in 1..Top /\ Top \in 1..Top
  BY <1>1 DEF Shape, SetTypes
<1>3. \A n \in Evaluated(Op) : Lend(n).at[1] \notin later
  BY <1>1, <1>2, UseIsEarly DEF Clear
<1>4. CleanFrame(later, frames'[Top])
  <2>1. CleanFrame(later, f)
    BY <1>2 DEF Clear
  <2>2. \A r \in DOMAIN Bound(f.refs, Op) : Bound(f.refs, Op)[r].at[1] \notin later
    <3>1. CASE Binds(Op)
      <4>1. Op.node.init \in Evaluated(Op)
        BY <3>1 DEF Evaluated
      <4> HIDE DEF f, later
      <4> QED BY <1>3, <2>1, <3>1, <4>1 DEF Bound, CleanFrame
    <3>2. CASE ~Binds(Op)
      BY <2>1, <3>2 DEF Bound, CleanFrame
    <3> QED BY <3>1, <3>2
  <2> QED BY <1>1, <2>1, <2>2 DEF CleanFrame
<1>5. \A k \in 1..Top : CleanFrame(later, frames'[k])
  <2> TAKE k \in 1..Top
  <2>1. CASE k = Top
    BY <1>4, <2>1
  <2>2. CASE k # Top
    BY <1>1, <2>2 DEF Clear, CleanFrame, SamePlaces
  <2> QED BY <2>1, <2>2
<1>6. DOMAIN frames'[1].todo = {}
  <2>1. CASE Top = 1
    BY <1>1, <2>1, InitRuns
  <2>2. CASE Top # 1
    BY <1>1, <1>2, <2>2 DEF Clear, SamePlaces
  <2> QED BY <2>1, <2>2
<1> QED BY <1>1, <1>5, <1>6 DEF Clear

LEMMA ClearCall ==
  ASSUME SetsInv, Shape, CallFunction, CoversCalls', ready < Len(Globals), InitsSeen, Touched, Clear(LaterIn(mod, ready))
  PROVE  Clear(LaterIn(mod, ready))'
<1> DEFINE later == LaterIn(mod, ready)
<1>0. SetTypes /\ ready' = ready /\ Len(stack) \in Nat /\ Top = Len(stack) + 1 /\ DOMAIN stack = 1..Len(stack)
  BY DEF SetsInv, SetTypes, Shape, CallFunction
<1>1. PICK g, args :
         /\ g \in Targets(Op)
         /\ Top' = Top + 1 /\ sets' = sets /\ mod' = mod /\ Running /\ Enter(g)
         /\ stack'[Top] = g /\ \A i \in DOMAIN stack : stack'[i] = stack[i]
         /\ \A k \in 1..Top : k # Top => frames'[k] = frames[k]
         /\ frames'[Top].held = frames[Top].held /\ frames'[Top].refs = frames[Top].refs /\ frames'[Top].todo = frames[Top].todo
         /\ frames'[Top + 1] = NewFrame(Lent(Op, g, args))
  BY <1>0, CallShape
<1>2. Top \in Nat /\ 1 \in 1..Top /\ Top \in 1..Top /\ DOMAIN stack' = 1..Top
  BY <1>0, <1>1 DEF Enter, SetTypes
<1>3. \A n \in Evaluated(Op) : Lend(n).at[1] \notin later
  BY <1>1, <1>2, UseIsEarly DEF Clear
<1>4. CleanFrame(later, frames'[Top + 1])
  <2> DEFINE held == Lent(Op, g, args)
  <2>1. \A x \in DOMAIN held : \E k \in LentBy(Op) : held[x].at = Lend(Op.node.args[k].arg).at
    BY <1>0, <1>1, LentIs
  <2>2. \A k \in LentBy(Op) : Op.node.args[k].arg \in Evaluated(Op)
    BY DEF Evaluated
  <2>3. frames'[Top + 1].held = held /\ DOMAIN frames'[Top + 1].refs = {}
    BY <1>1 DEF NewFrame
  <2> HIDE DEF held, later
  <2> QED BY <1>3, <2>1, <2>2, <2>3 DEF CleanFrame
<1>5. \A k \in 1..(Top + 1) : CleanFrame(later, frames'[k])
  <2> TAKE k \in 1..(Top + 1)
  <2>1. CASE k = Top + 1
    BY <1>4, <2>1
  <2>2. CASE k # Top + 1
    <3>1. k \in 1..Top
      BY <1>2, <2>2
    <3>2. CleanFrame(later, frames[k])
      BY <3>1 DEF Clear
    <3>3. frames'[k].held = frames[k].held /\ frames'[k].refs = frames[k].refs
      BY <1>1, <3>1
    <3> QED BY <3>2, <3>3 DEF CleanFrame
  <2> QED BY <2>1, <2>2
<1>6. CleanSet(later, sets[g])
  <2>1. CASE Top = 1
    <3>1. IsCall(Op) /\ (g = Op.node.decl \/ Op.node.decl = Unknown)
      BY <1>1 DEF Targets
    <3>2. Op.node.decl \in Functions /\ CleanSet(later, sets[Op.node.decl])
      BY <1>0, <1>1, <2>1, <3>1, InitRuns
    <3>3. Unknown \notin Functions
      BY ModuleFacts DEF SetsInv, Unknown
    <3> QED BY <3>1, <3>2, <3>3
  <2>2. CASE Top # 1
    <3>1. Top - 1 \in DOMAIN stack /\ Top - 1 \in DOMAIN stack' /\ Top \in DOMAIN stack' /\ Top - 1 <= Top
      BY <1>0, <1>2, <2>2
    <3>2. Covers(sets[stack[Top - 1]], sets[g])
      BY <1>1, <3>1 DEF CoversCalls
    <3>3. CleanSet(later, sets[stack[Top - 1]])
      BY <3>1 DEF Clear
    <3> QED BY <3>2, <3>3, CoversClean
  <2> QED BY <2>1, <2>2
<1>7. \A i \in DOMAIN stack' : CleanSet(later, sets[stack'[i]])
  <2> TAKE i \in DOMAIN stack'
  <2>1. CASE i = Top
    BY <1>1, <1>6, <2>1
  <2>2. CASE i # Top
    <3>1. i \in DOMAIN stack
      BY <1>0, <1>2, <2>2
    <3> QED BY <1>1, <3>1 DEF Clear
  <2> QED BY <2>1, <2>2
<1>8. DOMAIN frames'[1].todo = {}
  <2>1. frames'[1].todo = frames[1].todo
    BY <1>1, <1>2
  <2> QED BY <2>1 DEF Clear
<1> QED BY <1>0, <1>1, <1>5, <1>7, <1>8 DEF Clear

LEMMA ClearDrop ==
  ASSUME SetsInv, Shape, RunDrop, CoversCalls', Clear(LaterIn(mod, ready))
  PROVE  Clear(LaterIn(mod, ready))'
<1> DEFINE later == LaterIn(mod, ready)
           g == frames[Top].todo[1]
<1>0. SetTypes /\ ready' = ready /\ Len(stack) \in Nat /\ Top = Len(stack) + 1 /\ DOMAIN stack = 1..Len(stack)
  BY DEF SetsInv, SetTypes, Shape, RunDrop
<1>1. /\ Top' = Top + 1 /\ sets' = sets /\ mod' = mod
      /\ 1 \in DOMAIN frames[Top].todo /\ stack'[Top] = g /\ \A i \in DOMAIN stack : stack'[i] = stack[i]
      /\ stack' = Append(stack, g)
      /\ \A k \in 1..Top : frames'[k] = frames[k]
      /\ frames'[Top + 1] = NewFrame(<<>>)
  BY <1>0, RunDropShape
<1>2. Top # 1
  BY <1>1 DEF Clear
<1> HIDE DEF g
<1>3. Top \in Nat /\ 1 \in 1..Top /\ DOMAIN stack' = 1..Top
  BY <1>0, <1>1 DEF SetTypes
<1>4. CleanSet(later, sets[g])
  <2>1. Top - 1 \in DOMAIN stack /\ Top - 1 \in DOMAIN stack' /\ Top \in DOMAIN stack' /\ Top - 1 <= Top
    BY <1>0, <1>2, <1>3
  <2>2. Covers(sets[stack[Top - 1]], sets[g])
    BY <1>1, <2>1 DEF CoversCalls
  <2>3. CleanSet(later, sets[stack[Top - 1]])
    BY <2>1 DEF Clear
  <2> QED BY <2>2, <2>3, CoversClean
<1>5. \A i \in DOMAIN stack' : CleanSet(later, sets[stack'[i]])
  <2> TAKE i \in DOMAIN stack'
  <2>1. i = Top \/ i \in DOMAIN stack
    BY <1>0, <1>3
  <2> QED BY <1>1, <1>4, <2>1 DEF Clear
<1>6. \A k \in 1..(Top + 1) : CleanFrame(later, frames'[k])
  <2> TAKE k \in 1..(Top + 1)
  <2>1. k = Top + 1 \/ k \in 1..Top
    BY <1>3
  <2>2. DOMAIN NewFrame(<<>>).held = {} /\ DOMAIN NewFrame(<<>>).refs = {}
    BY DEF NewFrame
  <2>3. CleanFrame(later, NewFrame(<<>>))
    BY <2>2 DEF CleanFrame
  <2> QED BY <1>1, <2>1, <2>3 DEF Clear
<1> QED BY <1>0, <1>1, <1>3, <1>5, <1>6 DEF Clear

LEMMA ClearFinish ==
  ASSUME SetsInv, Shape, Finish, Clear(LaterIn(mod, ready))
  PROVE  Clear(LaterIn(mod, ready))'
<1> DEFINE later == LaterIn(mod, ready)
<1>0. SetTypes /\ ready' = ready /\ Len(stack) \in Nat /\ Top = Len(stack) + 1 /\ DOMAIN stack = 1..Len(stack)
  BY DEF SetsInv, SetTypes, Shape, Finish
<1>1. /\ Top' = Top - 1 /\ Top >= 2 /\ sets' = sets /\ mod' = mod /\ Leave
      /\ \A i \in 1..(Len(stack) - 1) : stack'[i] = stack[i]
      /\ \A k \in 1..(Top - 1) : /\ frames'[k].held = frames[k].held /\ frames'[k].refs = frames[k].refs
                                 /\ \A j \in DOMAIN frames'[k].todo : \E i \in DOMAIN frames[k].todo :
                                      frames'[k].todo[j] = frames[k].todo[i]
  BY <1>0, FinishShape
<1>2. DOMAIN stack' = 1..(Len(stack) - 1) /\ 1 \in 1..(Top - 1) /\ \A k \in 1..(Top - 1) : k \in 1..Top
  BY <1>0, <1>1 DEF Leave, SetTypes
<1>3. \A i \in DOMAIN stack' : CleanSet(later, sets[stack'[i]])
  BY <1>0, <1>1, <1>2 DEF Clear
<1>4. \A k \in 1..(Top - 1) : CleanFrame(later, frames'[k])
  <2> TAKE k \in 1..(Top - 1)
  <2>1. CleanFrame(later, frames[k])
    BY <1>2 DEF Clear
  <2> QED BY <1>1, <2>1 DEF CleanFrame
<1>5. DOMAIN frames'[1].todo = {}
  BY <1>1, <1>2 DEF Clear
<1> QED BY <1>0, <1>1, <1>3, <1>4, <1>5 DEF Clear

LEMMA ClearReady ==
  ASSUME SetsInv, Shape, GlobalReady
  PROVE  Clear(LaterIn(mod, ready))'
<1>1. /\ SetTypes /\ Shape' /\ Top = 1 /\ Top' = 1 /\ stack' = stack /\ frames'[1].todo = frames[1].todo /\ frames[1].todo = <<>>
  BY ReadyShape DEF SetsInv, GlobalReady
<1>2. stack = <<>> /\ \A k \in 1..Top' : k = 1
  BY <1>1 DEF Shape, SetTypes
<1>3. DOMAIN frames'[1].held = {} /\ DOMAIN frames'[1].refs = {}
  BY <1>1 DEF Shape
<1>4. DOMAIN frames'[1].todo = {} /\ DOMAIN stack' = {}
  BY <1>1, <1>2
<1> QED BY <1>1, <1>2, <1>3, <1>4 DEF Clear, CleanFrame

LEMMA EarlyStep ==
  ASSUME SetsInv, Shape, RunInv', EarlyInv, [Next]_loanVars
  PROVE  EarlyInv'
<1>0. SetTypes /\ ready \in Nat
  BY DEF SetsInv, Shape
<1>1. EarlyInv <=> (verdict = "accepted" => /\ Touched
                                            /\ DropsCovered /\ InitsSeen /\ ready < Len(Globals) => Clear(LaterIn(mod, ready)))
  BY DEF EarlyInv, Clear
<1>2. EarlyInv' <=> (verdict' = "accepted" =>
                       /\ Touched'
                       /\ DropsCovered' /\ InitsSeen' /\ ready' < Len(Globals') => Clear(LaterIn(mod, ready))')
  BY DEF EarlyInv, Clear
<1>3. CASE Solve
  <2>1. phase = "merge" /\ verdict' = verdict
    BY <1>3 DEF Solve, Merge, MergeCallee, NextFunction, EndPass
  <2> QED BY <1>2, <2>1 DEF Shape
<1>4. CASE CheckModule
  <2>1. /\ verdict = "none" /\ verdict' = (IF MoveCheckModule THEN "accepted" ELSE "rejected")
        /\ stack' = stack /\ frames' = frames /\ mod' = mod /\ sets' = sets
    BY <1>4 DEF CheckModule, writeVars, setVars
  <2>2. verdict' = "accepted" => Touched
    BY <2>1 DEF MoveCheckModule, Touched
  <2>3. Top = 1 /\ Top' = 1 /\ frames[1].todo = <<>> /\ stack = <<>> /\ \A k \in 1..1 : k = 1
    BY <1>0, <2>1 DEF Shape, Top, SetTypes
  <2>4. DOMAIN frames[1].held = {} /\ DOMAIN frames[1].refs = {}
    BY DEF Shape
  <2>5. DOMAIN frames'[1].todo = {} /\ DOMAIN stack' = {}
    BY <2>1, <2>3
  <2>6. Clear(LaterIn(mod, ready))'
    BY <2>1, <2>3, <2>4, <2>5 DEF Clear, CleanFrame
  <2> QED BY <1>2, <2>1, <2>2, <2>6, CheckedStays
<1>5. CASE UNCHANGED loanVars
  <2>1. /\ verdict' = verdict /\ ready' = ready /\ mod' = mod /\ sets' = sets /\ stack' = stack /\ frames' = frames
    BY <1>5 DEF loanVars, writeVars, setVars
  <2>2. Top' = Top /\ Globals' = Globals
    BY <2>1 DEF Top, Globals
  <2>3. Clear(LaterIn(mod, ready)) => Clear(LaterIn(mod, ready))'
    BY <2>1, <2>2 DEF Clear
  <2> QED BY <1>1, <1>2, <2>1, <2>2, <2>3, CheckedStays
<1>6. CASE Evaluate \/ CallFunction \/ Finish \/ RunDrop \/ GlobalReady
  <2>1. mod' = mod /\ sets' = sets
    BY <1>0, <1>6, EvaluateShape, CallShape, FinishShape, RunDropShape, ReadyShape
  <2>2. verdict = "accepted" /\ verdict' = verdict
    BY <1>6 DEF Evaluate, CallFunction, Finish, RunDrop, GlobalReady, Running
  <2>3. ready' = ready \/ ready' = ready + 1
    BY <1>6 DEF Evaluate, CallFunction, Finish, RunDrop, GlobalReady
  <2>4. Globals' = Globals /\ Len(Globals) \in Nat
    BY <1>0, <2>1, Resolved DEF Globals, ModuleResolved, IsList
  <2>5. SUFFICES ASSUME DropsCovered, InitsSeen, Touched, ready' < Len(Globals), ready < Len(Globals), Clear(LaterIn(mod, ready))
                 PROVE  Clear(LaterIn(mod, ready))'
    BY <1>0, <1>1, <1>2, <2>1, <2>2, <2>3, <2>4, CheckedStays
  <2>6. CoversCalls'
    BY <2>1, <2>2, <2>5, CheckedStays DEF RunInv
  <2> QED BY <1>6, <2>5, <2>6, ClearEvaluate, ClearCall, ClearFinish, ClearDrop, ClearReady
<1> QED BY <1>3, <1>4, <1>5, <1>6 DEF Next

LEMMA EarlyInvariant == Spec => [](SetsInv /\ Shape /\ RunInv /\ EarlyInv)
<1>1. Init => EarlyInv
  BY DEF Init, EarlyInv
<1> QED BY <1>1, InitShape, SetsStep, ShapeStep, RunStep, EarlyStep, PTL DEF Spec

\* An initializer whose walk sees what it does, drop methods covered, uses the globals
\* before its own only, and so do all the functions it calls, and those they call (O10).
THEOREM NoEarlyGlobalHolds == Spec => [](DropsCovered /\ InitsSeen => NoEarlyGlobal)
<1>1. SetsInv /\ Shape /\ RunInv /\ EarlyInv => (DropsCovered /\ InitsSeen => NoEarlyGlobal)
  <2> SUFFICES ASSUME SetsInv, Shape, EarlyInv, DropsCovered, InitsSeen, Running, ready < Len(Globals), IsPlace(Used(Op)),
                      NEW g \in (ready + 1)..Len(Globals)
               PROVE  StorageOf(Used(Op))[1] # Globals[g].name
    BY DEF NoEarlyGlobal
  <2>1. Top \in Nat /\ Top \in 1..Top
    BY DEF SetsInv, SetTypes, Shape
  <2>2. /\ Touched /\ CleanFrame(LaterIn(mod, ready), frames[Top])
        /\ \A i \in DOMAIN stack : CleanSet(LaterIn(mod, ready), sets[stack[i]])
    BY <2>1 DEF EarlyInv, Running
  <2>3. Lend(Used(Op)).at[1] \notin LaterIn(mod, ready)
    BY <2>2, UseIsEarly
  <2>4. Globals[g].name \in LaterIn(mod, ready)
    BY DEF LaterIn, Globals
  <2>5. Lend(Used(Op)).at = StorageOf(Used(Op))
    BY DEF Lend
  <2> QED BY <2>3, <2>4, <2>5
<1> QED BY <1>1, EarlyInvariant, PTL

\* The sets of a run are the least too: drop methods run outside the calls they are
\* built from, and change none.
THEOREM RunSetsAreLeast == Spec => []SetsAreLeast
<1>1. SetsInv /\ Shape /\ Lower /\ Upper /\ [Next]_loanVars => Lower' /\ Upper'
  <2> SUFFICES ASSUME SetsInv, Shape, Lower, Upper, [Next]_loanVars PROVE Lower' /\ Upper'
    OBVIOUS
  <2>1. CASE [SetsNext]_writeVars
    BY <2>1, BoundsStep
  <2>2. CASE UNCHANGED setVars
    BY <2>2, BoundsStay DEF setVars
  <2> QED BY <2>1, <2>2, LoanSteps
<1>2. Init => Lower /\ Upper
  BY BoundsInit DEF Init
<1> QED BY <1>1, <1>2, BoundsMeet, RunInvariant, PTL DEF Spec
=============================================================================
