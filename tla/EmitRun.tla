------------------------------- MODULE EmitRun -------------------------------
(***************************************************************************)
(* The emitted code of a function the move checker accepted, running on    *)
(* the storage it was written for: slots, drop flags, registers and owned  *)
(* objects (docs/spec/ownership.md, O1, O7 and O8).                        *)
(*                                                                         *)
(* Programs[p] is the graph the checker reads, Emitted[p] the code the     *)
(* backend wrote for the same tree (EmitLower).  The two share nothing but *)
(* the annotations: which uses move, and what the null tests fold to.      *)
(*                                                                         *)
(* What a slot or a register holds is an object, "null" (zeroed storage)   *)
(* or "junk" (storage nothing was written to).  A struct held by value has *)
(* a cell per owning field, or one cell when it has a drop method; a node  *)
(* object has a `next` cell of its own.                                    *)
(***************************************************************************)
EXTENDS MoveSolver
LOCAL INSTANCE SequencesExt
LOCAL INSTANCE FiniteSetsExt
LOCAL INSTANCE TLC

CONSTANTS Emitted,      \* of each program: its blocks, and the registers that outlive theirs
          ObjectList,   \* the objects, in the order they are handed out
          LocalList     \* the variables of the functions, in the order they declare them

Code == INSTANCE EmitLower

Objects == Range(ObjectList)

VARIABLES eb, epos,   \* the block and instruction; eb = 0 before the run
          instr,      \* the instruction there, the block's jump or return last
          mem,        \* cells that have been written
          flags,      \* drop flags that have been written
          live,       \* objects made and not dropped
          reg,        \* registers: what each field holds, and the flag saved with it
          truth       \* of the conditions met

machine  == <<eb, epos, instr, mem, flags, live, reg, truth>>
emitVars == <<solverVars, machine>>

Program == Programs[prog]   \* with the arguments it owns and is lent

-----------------------------------------------------------------------------
\* Storage.  m is a machine [mem, flags, live, reg].

M == [mem |-> mem, flags |-> flags, live |-> live, reg |-> reg]

Locals == Range(LocalList)

\* Temporaries are zeroed at the entry, locals are not (EntryAllocaZeroed, EntryAlloca).
Held(m, cell) ==
  IF cell \in DOMAIN m.mem THEN m.mem[cell] ELSE IF cell[1] \in Locals THEN "junk" ELSE "null"

NextOf(o) == <<o, "next">>

\* `next` goes through the object; any other field is inside the slot.
CellOf(m, path) ==
  FoldLeft(LAMBDA c, f : IF f = "next" THEN NextOf(Held(m, c)) ELSE Append(c, f), <<path[1]>>, Tail(path))

Fields(shape) == IF shape = "rec" THEN {"f", "g"} ELSE {""}
FieldCell(m, slot, f) == IF f = "" THEN CellOf(m, slot.path) ELSE Append(CellOf(m, slot.path), f)
Cells(m, slot) == {FieldCell(m, slot, f) : f \in Fields(slot.shape)}

Contents(m, slot) == [f \in Fields(slot.shape) |-> Held(m, FieldCell(m, slot, f))]
Empty(shape)      == [f \in Fields(shape) |-> "null"]

Write(m, slot, val) ==
  [m EXCEPT !.mem = [c \in Cells(m, slot) |-> val[CHOOSE f \in Fields(slot.shape) : FieldCell(m, slot, f) = c]] @@ @]

\* The objects a set of values owns, down the chains of `next`.
Owned(m, values) ==
  LET Below(own) == {Held(m, NextOf(o)) : o \in own} \cap Objects
      Reach[own \in SUBSET Objects] ==
        IF Below(own) \subseteq own THEN own ELSE Reach[own \cup Below(own)]
  IN  Reach[values \cap Objects]

\* Objects nothing mentions can be handed out again.
Mentioned(m) ==
  m.live \cup Range(m.mem) \cup UNION {Range(m.reg[r].val) : r \in DOMAIN m.reg}
Free(m) == SelectSeq(ObjectList, LAMBDA o : o \notin Mentioned(m))

Destroy(m, values) ==
  LET gone == Owned(m, values)
  IN  [m EXCEPT !.live = @ \ gone,
                !.mem = [c \in {d \in DOMAIN @ : d[1] \notin gone} |-> @[c]]]

\* A zeroed slot is skipped, except by a drop method, which runs on what it is given.
Droppable(m, shape, v) ==
  IF v = "null" THEN shape # "res" ELSE v \in Objects /\ Owned(m, {v}) \subseteq m.live

-----------------------------------------------------------------------------
\* Making values.

SetReg(m, r, val) == [m EXCEPT !.reg = (r :> [val |-> val, set |-> "set"]) @@ @]
Value(m, r, shape) == IF r = 0 THEN Empty(shape) ELSE m.reg[r].val

Made(m, r, val, next) ==
  SetReg([m EXCEPT !.live = @ \cup (Range(val) \cap Objects) \cup (Range(next) \cap Objects),
                   !.mem = next @@ @], r, val)

\* A node is the first of a list of one or two.
MakeSome(m, r, shape) ==
  LET o == Free(m)
  IN  CASE shape = "rec"  -> {Made(m, r, [f |-> o[1], g |-> o[2]], <<>>)}
        [] shape = "node" -> {Made(m, r, ("" :> o[1]), NextOf(o[1]) :> "null"),
                              Made(m, r, ("" :> o[1]), (NextOf(o[1]) :> o[2]) @@ (NextOf(o[2]) :> "null"))}
        [] OTHER          -> {Made(m, r, ("" :> o[1]), <<>>)}
Make(m, r, shape, opt) ==
  MakeSome(m, r, shape) \cup (IF opt THEN {SetReg(m, r, Empty(shape))} ELSE {})

\* A deep copy (EmitCopyValue) of a value without a `next`.
CopyOf(m, val) == [f \in DOMAIN val |-> IF val[f] = "null" THEN "null" ELSE Free(m)[IF f = "g" THEN 2 ELSE 1]]

-----------------------------------------------------------------------------
\* The instructions.  Each gives the machines it may leave.

Destroyed(m, slot) == Write(Destroy(m, Range(Contents(m, slot))), slot, Empty(slot.shape))

FlagOf(m, slot) == IF slot.path[1] \in DOMAIN m.flags THEN m.flags[slot.path[1]] ELSE "junk"

\* A callee drops what it owns, and empties the slot it was handed.
TakeAway(m, t) ==
  CASE t.by = "slot"  -> Destroyed(m, t.at)
    [] t.by = "value" -> Destroy(m, Range(Value(m, t.reg, t.shape)))
    [] OTHER -> m

Execute(m, i) ==
  CASE i.op = "load"  -> {SetReg(m, i.reg, Contents(m, i.at))}
    [] i.op = "save"  -> {[SetReg(m, i.reg, Contents(m, i.at)) EXCEPT !.reg[i.reg].set = FlagOf(m, i.at)]}
    [] i.op = "part"  -> {SetReg(m, i.reg, "" :> IF i.field = "next" THEN Held(m, NextOf(m.reg[i.from].val[""]))
                                                 ELSE m.reg[i.from].val[i.field])}
    [] i.op = "new"   -> Make(m, i.reg, i.shape, FALSE)
    [] i.op = "copy"  -> {Made(m, i.reg, CopyOf(m, m.reg[i.from].val), <<>>)}
    [] i.op = "call"  -> LET taken == FoldLeft(TakeAway, m, i.takes)
                         IN  IF i.shape = "none" THEN {taken} ELSE Make(taken, i.reg, i.shape, i.opt)
    [] i.op = "store" -> {Write(m, i.at, Value(m, i.from, i.at.shape))}
    [] i.op = "clear" -> {Write(m, i.at, Empty(i.at.shape))}
    [] i.op = "flag"  -> {[m EXCEPT !.flags = (i.at.path[1] :> IF i.set THEN "set" ELSE "clear") @@ @]}
    [] i.op = "drop"  -> IF i.ifSet /\ FlagOf(m, i.at) = "clear" THEN {m} ELSE {Destroyed(m, i.at)}
    [] i.op = "dropReg" -> IF i.ifSet /\ m.reg[i.from].set = "clear" THEN {m}
                           ELSE {Destroy(m, Range(m.reg[i.from].val))}
    [] OTHER -> {m}

\* The truth of a condition; a null test the checker folded is a constant.
Holds(n)    == n.name \in DOMAIN truth /\ truth[n.name]
Folded(n)   == n.name \in DOMAIN fold /\ fold[n.name] # "runtime"
HoldsValue(i) ==
  IF i.node.operand.kind = "Place" THEN Held(M, CellOf(M, i.node.operand.path)) # "null"
                                   ELSE reg[i.from].val[""] # "null"
TruthValues(i) ==
  CASE i.node.kind = "NullTest" -> IF Folded(i.node) THEN {fold[i.node.name] = "set"} ELSE {HoldsValue(i)}
    [] i.node.kind = "Unary" -> {~Holds(i.node.operand)}
    [] i.node.kind = "And"   -> {Holds(i.node.lhs) /\ Holds(i.node.rhs)}
    [] i.node.kind = "Or"    -> {Holds(i.node.lhs) \/ Holds(i.node.rhs)}
    [] i.node.kind = "True"  -> {TRUE}
    [] OTHER                 -> BOOLEAN

-----------------------------------------------------------------------------
Idle == [op |-> "idle"]
RunInit == /\ eb = 0 /\ epos = 1 /\ instr = Idle
           /\ mem = <<>> /\ flags = <<>> /\ live = {} /\ reg = <<>> /\ truth = <<>>

Become(m) == mem' = m.mem /\ flags' = m.flags /\ live' = m.live /\ reg' = m.reg

\* The k-th instruction of a block.
InstrOf(code, k) == IF k <= Len(code.code) THEN code.code[k] ELSE code.end
GoTo(e, k) == eb' = e /\ epos' = k /\ instr' = InstrOf(Emitted[prog].code[e], k)

\* The caller's arguments: what the function owns, and what it is lent.
Arguments(p) == p.owned \o p.lent
Entered(ms, x) ==
  UNION {{[Write(n, x.at, n.reg[0].val) EXCEPT !.reg = <<>>] : n \in Make(m, 0, x.at.shape, x.opt)} : m \in ms}

StartRun ==
  /\ Accepted /\ eb = 0
  /\ GoTo(1, 1)
  /\ \E m \in FoldLeft(Entered, {M}, Arguments(Program)) : Become(m)
  /\ UNCHANGED <<solverVars, truth>>

AtInstr == instr.op \notin {"idle", "br", "cond", "ret", "unreachable"}

Step ==
  /\ AtInstr
  /\ \E m \in Execute(M, instr) : Become(m)
  /\ IF instr.op = "test" THEN \E v \in TruthValues(instr) : truth' = (instr.node.name :> v) @@ truth
                          ELSE UNCHANGED truth
  /\ GoTo(eb, epos + 1)
  /\ UNCHANGED solverVars

\* Only the registers another block reads outlive their block.
Jump ==
  /\ instr.op \in {"br", "cond"}
  /\ GoTo(IF instr.op = "br" THEN instr.to ELSE IF truth[instr.name] THEN instr.then ELSE instr.else, 1)
  /\ reg' = [r \in DOMAIN reg \cap Emitted[prog].lasting |-> reg[r]]
  /\ UNCHANGED <<solverVars, mem, flags, live, truth>>

AtReturn == instr.op = "ret"

Check == SolverNext /\ UNCHANGED machine
Next  == Check \/ StartRun \/ Step \/ Jump

Init == SolverInit /\ RunInit
Spec == Init /\ [][Next]_emitVars

-----------------------------------------------------------------------------
\* Types: every instruction finds the registers it reads, and there are
\* objects left to hand out.
TypeOK ==
  /\ eb \in Nat /\ epos \in Nat
  /\ live \subseteq Objects
  /\ \A c \in DOMAIN mem : mem[c] \in Objects \cup {"null", "junk"}
  /\ \A x \in DOMAIN flags : x \in Locals /\ flags[x] \in {"set", "clear"}
  /\ AtInstr => Code!Reads(instr) \subseteq DOMAIN reg
  /\ Len(Free(M)) >= 2

\* O8 ("drop runs exactly once per owned value"): what is dropped is there and
\* has not been dropped; a drop flag is read only once it was written.
TakenBy(m, t) ==
  CASE t.by = "slot"  -> {<<t.at.shape, v>> : v \in Range(Contents(m, t.at))}
    [] t.by = "value" -> {<<t.shape, v>> : v \in Range(Value(m, t.reg, t.shape))}
    [] OTHER -> {}
DropsOf(m, i) ==
  CASE i.op = "drop"    -> IF i.ifSet /\ FlagOf(m, i.at) = "clear" THEN {}
                           ELSE {<<i.at.shape, v>> : v \in Range(Contents(m, i.at))}
    [] i.op = "dropReg" -> IF i.ifSet /\ m.reg[i.from].set = "clear" THEN {}
                           ELSE {<<i.shape, v>> : v \in Range(m.reg[i.from].val)}
    [] i.op = "call"    -> UNION {TakenBy(m, i.takes[k]) : k \in DOMAIN i.takes}
    [] OTHER -> {}

DropsOnlyOwned ==
  AtInstr => /\ \A d \in DropsOf(M, instr) : Droppable(M, d[1], d[2])
             /\ instr.op = "drop" /\ instr.ifSet => FlagOf(M, instr.at) # "junk"

\* O1: a value that is read, lent or handed on is there.
IsThere(v) == v \in live
Needed(i) ==
  CASE i.op = "load" /\ ~i.opt -> Range(Contents(M, i.at))
    [] i.op = "deref" /\ i.at.shape \notin {"rec", "res"} -> Range(Contents(M, i.at))
    [] i.op = "use" /\ i.from # 0 -> Range(reg[i.from].val)
    [] i.op = "part" /\ i.field = "next" -> Range(reg[i.from].val)
    [] i.op = "call" -> UNION {Range(Contents(M, i.takes[k].at)) :
                                 k \in {l \in DOMAIN i.takes : i.takes[l].by # "value" /\ ~i.takes[l].opt}}
    [] OTHER -> {}

UsesFindValues == AtInstr => \A v \in Needed(instr) : IsThere(v)

\* O7 and O8: when the function returns, what is left alive is what it returns
\* and what it was lent; what it owned is gone from the caller's slots.
Given(args) == UNION {Range(Contents(M, args[k].at)) : k \in DOMAIN args}
Returned    == IF instr.reg = 0 THEN {} ELSE Range(reg[instr.reg].val)

NothingLeaks == AtReturn => live = Owned(M, Returned \cup Given(Program.lent))

\* The last declared local goes first, after every temporary: a local can rely
\* on every local declared before it (EmitDrops).
Later(x) == LET k == CHOOSE j \in DOMAIN LocalList : LocalList[j] = x
            IN  {LocalList[j] : j \in (k + 1)..Len(LocalList)}
DropOrder ==
  AtInstr /\ instr.op = "drop" /\ instr.scopeEnd =>
    \A c \in DOMAIN mem : mem[c] \in live =>
       c[1] \notin Later(instr.at.path[1]) /\ (c[1] \in Locals \cup Objects)

\* A folded null test answers what the slot would.
FoldedTestAgrees ==
  AtInstr /\ instr.op = "test" /\ instr.node.kind = "NullTest" /\ Folded(instr.node) =>
    (fold[instr.node.name] = "set") = HoldsValue(instr)
=============================================================================
