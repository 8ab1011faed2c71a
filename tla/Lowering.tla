------------------------------- MODULE Lowering ------------------------------
(***************************************************************************)
(* From a signal graph to a plan: Lowering and Prune of Plan.cpp.          *)
(*                                                                         *)
(* Lowering is one call without interruption: operators that take the      *)
(* lowering `s' so far and return it further on, s.r holding the register  *)
(* or field a helper returns.  s.sc is the Scope; every node emitted in it *)
(* has a register in s.sc.val.  A plan is [fields, code, regs, why]: code  *)
(* is a sequence of instructions per band, why the reason of a failure.    *)
(* Where C++ leaves the order of two arguments of a call open, and with it *)
(* the numbers of the registers they allocate, the first comes first here. *)
(***************************************************************************)
EXTENDS Signals

CONSTANT None  \* no reason, no variant, no reading

NoReg == -1
NoField == 0

Instr(op, form, nature, dst, imm, args) ==
  [op |-> op, form |-> form, nature |-> nature, dst |-> dst, imm |-> imm, args |-> args]

NoMap == [x \in {} |-> NoReg]
Bind(m, x, y) == (x :> y) @@ m

NewScope(inner, maxd) ==
  [inner |-> inner, maxd |-> maxd, val |-> NoMap, line |-> NoMap, perm |-> NoMap, table |-> NoMap,
   own |-> NoMap, ints |-> NoMap, guardReg |-> NoMap, started |-> {}, iota |-> NoField,
   iotaReg |-> NoReg, guard |-> Always, epilogues |-> <<>>]

NewLowering(maxd) ==
  [fields |-> <<>>, code |-> [b \in InitBand..SampleBand |-> <<>>], regs |-> 0, why |-> None,
   r |-> NoReg, slot |-> [field |-> NoField, at |-> NoReg, cond |-> Always], sc |-> NewScope(FALSE, maxd)]

Failed(s) == s.why # None
Fail(s, why) == [s EXCEPT !.why = why]

\* What comes after s, unless s has failed.
Then(s, next) == IF Failed(s) THEN s ELSE next

Emitted(s, id) == id \in DOMAIN s.sc.val
SetVal(s, id, r) == [s EXCEPT !.sc.val = Bind(@, id, r), !.r = r]

(***************************************************************************)
(* Instructions and fields.                                                *)
(***************************************************************************)

\* Everything a generator emits goes into the init band.
Push(s, band, i) == [s EXCEPT !.code[IF s.sc.inner THEN InitBand ELSE band] = Append(@, i)]

Define(s, band, op, form, nature, imm, args) ==
  [Push(s, band, Instr(op, form, nature, s.regs, imm, args)) EXCEPT !.regs = @ + 1, !.r = s.regs]

Effect(s, band, op, imm, args) == Push(s, band, Instr(op, None, "Int", NoReg, imm, args))

Load(s, band, f, at) == Define(s, band, "LoadField", None, s.fields[f].nature, f, at)
Store(s, band, f, args) == Effect(s, band, "StoreField", f, args)
Bin(s, op, x, y) == Define(s, SampleBand, "BinOp", op, "Int", 0, <<x, y>>)

Field(kind, sig, nature, extent) ==
  [kind |-> kind, sig |-> sig, nature |-> nature, extent |-> extent, ring |-> FALSE, wave |-> <<>>]

AddField(s, f) == [s EXCEPT !.fields = Append(@, f), !.r = Len(s.fields) + 1]

Epilogue(kind, field, size, cond) == [kind |-> kind, field |-> field, size |-> size, cond |-> cond]
AddEpilogue(s, e) == [s EXCEPT !.sc.epilogues = Append(@, e)]

GuardEnded(s) == IF s.sc.guard = Always THEN s ELSE Effect(s, SampleBand, "GuardEnd", 0, <<>>)
GuardBegun(s, cond, g) ==
  [IF cond = Always THEN s ELSE Effect(s, SampleBand, "GuardBegin", 0, <<g>>) EXCEPT !.sc.guard = cond]
SetGuard(s, cond, g) == IF s.sc.guard = cond THEN s ELSE GuardBegun(GuardEnded(s), cond, g)
NoGuard(s) == SetGuard(s, Always, NoReg)

BindInt(s, v) == [s EXCEPT !.sc.ints = Bind(@, v, s.r)]

\* Mutant: a constant stays inside the guard that is open.
IntRegGuarded(s, v) ==
  IF v \in DOMAIN s.sc.ints THEN [s EXCEPT !.r = s.sc.ints[v]]
  ELSE BindInt(Define(s, SampleBand, "ConstInt", None, "Int", v, <<>>), v)

IntReg(s, v) ==
  IF v \in DOMAIN s.sc.ints THEN [s EXCEPT !.r = s.sc.ints[v]]
  ELSE BindInt(Define(NoGuard(s), SampleBand, "ConstInt", None, "Int", v, <<>>), v)

BindIota(s) == AddEpilogue([s EXCEPT !.sc.iota = s.r], Epilogue("Iota", s.r, 0, Always))
IotaField(s) ==
  IF s.sc.iota # NoField THEN [s EXCEPT !.r = s.sc.iota] ELSE BindIota(AddField(s, Field("Perm", None, "Int", 1)))

BindIotaReg(s) == [s EXCEPT !.sc.iotaReg = s.r]
LoadIota(s) == BindIotaReg(Load(NoGuard(s), SampleBand, s.r, <<>>))
IotaReg(s) == IF s.sc.iotaReg # NoReg THEN [s EXCEPT !.r = s.sc.iotaReg] ELSE LoadIota(IotaField(s))

\* The line that keeps the history of id, allocated when first asked for.
BindLine(a, s, id, l) ==
  IF l.ring THEN IotaField([s EXCEPT !.sc.line = Bind(@, id, s.r)])
  ELSE AddEpilogue([s EXCEPT !.sc.line = Bind(@, id, s.r)], Epilogue("Shift", s.r, l.max, a.guard[id]))
NewLine(a, s, id, l) ==
  IF l.extent = 0 THEN [s EXCEPT !.sc.line = Bind(@, id, NoField)]
  ELSE BindLine(a, AddField(s, [Field("Delay", id, a.nature[id], l.extent) EXCEPT !.ring = l.ring]), id, l)
LineOf(a, s, id) ==
  IF id \in DOMAIN s.sc.line THEN s ELSE NewLine(a, s, id, LineFor(a.graph, id, s.sc.maxd[id]))

\* s.r & (extent - 1)
MaskedBy(s, x) == Bin(s, "AND", x, s.r)
Masked(s, f) == MaskedBy(IntReg(s, s.fields[f].extent - 1), s.r)

WriteIndex(s, f) == IF s.fields[f].ring THEN Masked(IotaReg(s), f) ELSE IntReg(s, 0)

Less(s, x) == Bin(s, "Sub", s.r, x)

\* The sample `delay' frames ago; with a literal 0 the frame counter is used as it is.
ReadIndex(s, f, delay, zero) ==
  IF ~s.fields[f].ring THEN [s EXCEPT !.r = delay]
  ELSE Masked(IF zero THEN IotaReg(s) ELSE Less(IotaReg(s), delay), f)

(***************************************************************************)
(* Nodes.                                                                  *)
(***************************************************************************)

RECURSIVE Emit(_, _, _)

EmitAll(a, s, ids) == FoldLeft(LAMBDA t, id : Emit(a, t, id), s, ids)
Regs(s, ids) == [i \in DOMAIN ids |-> s.sc.val[ids[i]]]

FoldBin(s, op, regs) ==
  FoldLeft(LAMBDA t, x : Bin(t, op, t.r, x), [s EXCEPT !.r = Head(regs)], Tail(regs))

\* The register that holds a condition; its atoms are emitted under their own
\* guards, the instructions that combine them outside any guard.
Conjoined(acc, s) == [s |-> s, regs |-> Append(acc.regs, s.r)]
Disjoined(acc) == FoldBin(acc.s, "OR", acc.regs)
Condition(s, clauses) ==
  Disjoined(FoldLeft(LAMBDA acc, c : Conjoined(acc, FoldBin(acc.s, "AND", Regs(acc.s, c))),
                     [s |-> s, regs |-> <<>>], clauses))
BindGuard(s, cond) == [s EXCEPT !.sc.guardReg = Bind(@, cond, s.r)]
GuardOver(s, cond, clauses) == Then(s, BindGuard(Condition(NoGuard(s), clauses), cond))
NewGuard(a, s, cond, clauses) == GuardOver(EmitAll(a, s, FlattenSeq(clauses)), cond, clauses)
GuardReg(a, s, cond) ==
  IF cond \in DOMAIN s.sc.guardReg THEN [s EXCEPT !.r = s.sc.guardReg[cond]]
  ELSE NewGuard(a, s, cond, SetToSeq({SetToSortSeq(c, <) : c \in cond}))

\* The guard of an instruction, if it has one.
Behind(s, cond) == Then(s, SetGuard(s, cond, s.r))
Guarded(a, s, cond) == IF cond = Always THEN NoGuard(s) ELSE Behind(GuardReg(a, s, cond), cond)

\* The place of the value of id in its line, then the guard of the instruction.
OpenAt(a, s, f, at, cond) == [Guarded(a, s, cond) EXCEPT !.slot = [field |-> f, at |-> at, cond |-> cond]]
OpenHere(a, s, f, cond) == OpenAt(a, s, f, s.r, cond)
OpenIn(a, s, f, cond) ==
  IF f = NoField THEN OpenAt(a, s, f, NoReg, cond) ELSE OpenHere(a, WriteIndex(s, f), f, cond)
OpenLine(a, s, id) == OpenIn(a, s, s.sc.line[id], a.guard[id])
Open(a, s, id) == OpenLine(a, LineOf(a, s, id), id)

BindPerm(s, id) == [s EXCEPT !.sc.perm = Bind(@, id, s.r)]
PermOf(a, s, id) ==
  IF id \in DOMAIN s.sc.perm THEN [s EXCEPT !.r = s.sc.perm[id]]
  ELSE BindPerm(AddField(s, Field("Perm", id, a.nature[id], 1)), id)

Bound(s, id) == SetVal(s, id, s.r)
StoredIn(s, slot, dst) == IF slot.field = NoField THEN s ELSE Store(s, SampleBand, slot.field, <<slot.at, dst>>)
\* A guarded value is loaded behind its guard, for the frames in which the
\* guard was closed: from its line, or from a field of its own.
KeptHere(s, dst) == Load(NoGuard(Store(s, SampleBand, s.r, <<dst>>)), SampleBand, s.r, <<>>)
KeptIn(a, s, id, slot, dst) ==
  IF slot.field # NoField THEN Load(NoGuard(s), SampleBand, slot.field, <<slot.at>>)
  ELSE KeptHere(PermOf(a, s, id), dst)
Close(a, s, id, slot, dst) ==
  IF slot.cond = Always THEN SetVal(StoredIn(s, slot, dst), id, dst)
  ELSE Bound(KeptIn(a, StoredIn(s, slot, dst), id, slot, dst), id)

Closed(a, s, id) == Then(s, Close(a, s, id, s.slot, s.r))

(***************************************************************************)
(* Groups: the lines of all projections first, they end the traversal.     *)
(***************************************************************************)

StoreBranch(a, s, p, r) ==
  IF s.sc.line[p] = NoField THEN SetVal(s, p, r) ELSE Closed(a, [Open(a, s, p) EXCEPT !.r = r], p)
BranchDone(a, s, p) == Then(s, StoreBranch(a, s, p, s.r))
EmitBranch(a, s, p, body) == BranchDone(a, Emit(a, s, body), p)

Used(a, rec) == SelectSeq([j \in DOMAIN a.graph[rec].kids |-> j], LAMBDA j : <<rec, j>> \in DOMAIN a.projAt)
Lined(a, s, rec) == FoldLeft(LAMBDA t, j : LineOf(a, t, a.projAt[<<rec, j>>]), s, Used(a, rec))
EmitRec(a, s, rec) ==
  IF rec \in s.sc.started THEN s
  ELSE FoldLeft(LAMBDA t, j : EmitBranch(a, t, a.projAt[<<rec, j>>], Kid(a.graph, rec, j)),
                Lined(a, [s EXCEPT !.sc.started = @ \cup {rec}], rec), Used(a, rec))

(***************************************************************************)
(* The end of a frame.  Emitting a guard may add epilogues.                *)
(***************************************************************************)

\* IntReg may close the guard: it is set again.
MoveTo(s, e, to) == Store(s, SampleBand, e.field, <<to, s.r>>)
MoveSlot(s, e, g, from, to) == MoveTo(Load(SetGuard(s, e.cond, g), SampleBand, e.field, <<from>>), e, to)
MoveFrom(s, e, g, from) == MoveSlot(s, e, g, from, s.r)
ShiftFrom(s, e, g, i) == MoveFrom(IntReg(s, i), e, g, s.r)
ShiftSlot(s, e, g, i) == ShiftFrom(IntReg(s, i - 1), e, g, i)

\* Mutant: the oldest sample is moved last.
OldestLast(size) == [k \in 1..size |-> k]

\* The oldest sample first.
Oldest(size) == [k \in 1..size |-> size + 1 - k]

PlusHere(s, x) == Bin(s, "Add", x, s.r)
AddOne(s) == PlusHere(IntReg(s, 1), s.r)
Increment(s, e) == AddOne(Load(s, SampleBand, e.field, <<>>))
RemHere(s, x) == Bin(s, "Rem", x, s.r)
WrapAt(s, size) == RemHere(IntReg(s, size), s.r)
StoreBack(s, e) == Store(s, SampleBand, e.field, <<s.r>>)

EpilogueCode(s, e, g) ==
  CASE e.kind = "Shift" -> FoldLeft(LAMBDA t, i : ShiftSlot(t, e, g, i), s, Oldest(e.size))
    [] e.kind = "Iota" -> StoreBack(Increment(s, e), e)
    [] e.kind = "WaveIndex" -> StoreBack(WrapAt(Increment(s, e), e.size), e)

EpilogueBehind(s, e) == Then(s, EpilogueCode(s, e, IF e.cond = Always THEN NoReg ELSE s.sc.guardReg[e.cond]))

RECURSIVE EpilogueFrom(_, _, _)
EpilogueFrom(a, s, n) ==
  IF Failed(s) \/ n > Len(s.sc.epilogues) THEN s
  ELSE EpilogueFrom(a, EpilogueBehind(Guarded(a, s, s.sc.epilogues[n].cond), s.sc.epilogues[n]), n + 1)

EmitEpilogue(a, s) == NoGuard(EpilogueFrom(a, NoGuard(s), 1))

(***************************************************************************)
(* Tables: a generator is a scope of its own, in a loop of the init band.  *)
(***************************************************************************)

BindTable(s, tbl) == [s EXCEPT !.sc.table = Bind(@, tbl, s.r)]

LoopTurn(a, s, f, turn) == Then(s, EmitEpilogue(a, Store(s, InitBand, f, <<turn, s.r>>)))
LoopBody(a, s, f, root, turn) ==
  LoopTurn(a, Emit(a, [s EXCEPT !.sc = NewScope(TRUE, MaxDelays(a.graph, a.iv, {root}))], root), f, turn)
EndLoop(s, outer) == Effect([s EXCEPT !.sc = outer], InitBand, "LoopEnd", 0, <<>>)
Loop(a, s, f, root) == EndLoop(LoopBody(a, s, f, root, s.r), s.sc)
FillLoop(a, s, size, root) == Loop(a, Define(s, InitBand, "LoopBegin", None, "Int", size, <<>>), s.r, root)
FillTable(a, s, tbl, size, root) ==
  IF ~DelaysBounded(a.graph, a.iv, {root}) THEN Fail(s, "unbounded generator")
  ELSE FillLoop(a, BindTable(AddField(s, Field("Table", tbl, a.nature[tbl], size)), tbl), size, root)

EmitTable(a, s, tbl, size, gen) ==
  CASE tbl \in DOMAIN s.sc.table -> s
    [] ~IsInt(a.graph, size) \/ a.graph[size].value <= 0 -> Fail(s, "table size")
    [] Kind(a.graph, gen) # "Gen" -> Fail(s, "not a generator")
    [] OTHER -> FillTable(a, s, tbl, a.graph[size].value, Kid(a.graph, gen, 1))

\* A table that is written: the value goes in before any read of the frame.
StoreEntry(a, s, tbl, regs) == Then(s, NoGuard(Store(s, a.band[tbl], s.sc.table[tbl], regs)))
StoreWrite(a, s, tbl, ids) == Then(s, StoreEntry(a, Guarded(a, s, a.guard[tbl]), tbl, Regs(s, ids)))
EmitWrites(a, s, tbl, ids) ==
  Then(s, SetVal(IF ids = <<>> THEN s ELSE StoreWrite(a, EmitAll(a, s, ids), tbl, ids), tbl, NoReg))

(***************************************************************************)
(* What is emitted before a node's own instructions, in the code's order.  *)
(***************************************************************************)

BindOwn(s, id) == [s EXCEPT !.sc.own = Bind(@, id, s.r)]
WidgetField(s, id) ==
  IF id \in DOMAIN s.sc.own THEN s ELSE BindOwn(AddField(s, Field("Widget", id, "Real", 1)), id)

\* The delay, then the producer of the history, unless it has a line already.
DelayReg(a, s, id) == IF Kind(a.graph, id) = "Delay1" THEN IntReg(s, 1) ELSE Emit(a, s, Kid(a.graph, id, 2))
Producer(a, s, x) ==
  IF Kind(a.graph, x) = "Proj" THEN EmitRec(a, s, Kid(a.graph, x, 1))
  ELSE IF x \in DOMAIN s.sc.line THEN s ELSE Emit(a, s, x)

Literal0(g, id) == Kind(g, id) = "Delay" /\ IsInt(g, Kid(g, id, 2)) /\ g[Kid(g, id, 2)].value = 0
Unkept(s, x) == x \notin DOMAIN s.sc.line \/ s.sc.line[x] = NoField
ReadPast(a, s, id, x, delay) ==
  CASE Unkept(s, x) /\ Emitted(s, x) /\ s.sc.maxd[x] = 0 -> SetVal(s, id, s.sc.val[x])
    [] Unkept(s, x) /\ ~(Emitted(s, x) /\ s.sc.maxd[x] = 0) -> Fail(s, "no history")
    [] OTHER -> IF Emitted(s, id) THEN s ELSE ReadIndex(s, s.sc.line[x], delay, Literal0(a.graph, id))
ReadProduced(a, s, id, x, delay) == Then(s, ReadPast(a, s, id, x, delay))
ReadDelayed(a, s, id, x) == Then(s, ReadProduced(a, Producer(a, s, x), id, x, s.r))
BeforeDelay(a, s, id, x) == ReadDelayed(a, DelayReg(a, s, id), id, x)

\* A prefix loads its state before its operand is emitted and stores it after.
KeepNext(s, id, r) == Then(s, NoGuard(Store(s, SampleBand, s.sc.perm[id], <<r>>)))
StorePrefix(a, s, id) == Then(s, KeepNext(Guarded(a, s, a.guard[id]), id, s.r))
LoadPrefix(s, id) ==
  Bound(Load(Store(s, InitBand, s.sc.perm[id], <<s.r>>), SampleBand, s.sc.perm[id], <<>>), id)
PrefixFrom(a, s, id) == Then(s, StorePrefix(a, Emit(a, LoadPrefix(s, id), Kid(a.graph, id, 2)), id))
PrefixField(a, s, id) == BindPerm(AddField(s, Field("Perm", id, a.nature[id], 1)), id)
BeforePrefix(a, s, id) ==
  IF a.band[Kid(a.graph, id, 1)] # InitBand THEN Fail(s, "prefix")
  ELSE PrefixFrom(a, Emit(a, PrefixField(a, s, id), Kid(a.graph, id, 1)), id)

WaveTable(s, id, elements) ==
  BindTable(AddField(s, [Field("Table", id, "Int", Len(elements)) EXCEPT !.wave = elements]), id)
WaveEpilogue(s, id, size, cond) == AddEpilogue(s, Epilogue("WaveIndex", s.sc.own[id], size, cond))
BeforeWaveform(a, s, id, elements) ==
  WaveEpilogue(BindOwn(AddField(WaveTable(s, id, elements), Field("Perm", id, "Int", 1)), id),
            id, Len(elements), a.guard[id])

Projected(s, id) == IF Emitted(s, id) THEN s ELSE Fail(s, "group without delay")

Before(a, s, id, n) ==
  CASE n.kind = "Control" -> EmitAll(a, s, <<n.kids[2], n.kids[1]>>)
    [] n.kind = "Proj" -> Projected(EmitRec(a, s, n.kids[1]), id)
    [] n.kind \in {"Rec", "Gen"} -> Fail(s, "misplaced")
    [] n.kind = "Extended" /\ n.form = "AssertBounds" -> Emit(a, s, n.kids[3])
    [] n.kind = "Extended" /\ n.form \in {"Lowest", "Highest"} -> s
    [] IsButton(n.kind) \/ n.kind = "Slider" -> WidgetField(s, id)
    [] n.kind = "Bargraph" -> WidgetField(Emit(a, s, n.kids[3]), id)
    [] n.kind = "WRTbl" -> EmitWrites(a, EmitTable(a, s, id, n.kids[1], n.kids[2]), id, Tail(Tail(n.kids)))
    [] n.kind = "RDTbl" -> IF Kind(a.graph, n.kids[1]) # "WRTbl" THEN Fail(s, "not a table") ELSE EmitAll(a, s, n.kids)
    [] n.kind = "Waveform" -> BeforeWaveform(a, s, id, n.value)
    [] n.kind \in {"Delay1", "Delay"} -> BeforeDelay(a, s, id, n.kids[1])
    [] n.kind = "Prefix" -> BeforePrefix(a, s, id)
    [] OTHER -> EmitAll(a, s, n.kids)

\* Nodes that have no value of their own.
Forwards(n) ==
  CASE n.kind \in {"Attach", "Control"} -> n.kids[1]
    [] n.kind = "Extended" /\ n.form = "AssertBounds" -> n.kids[3]
    [] OTHER -> 0

\* The instructions that compute a node; `at' is the index a delay reads.
Constant(s, b, x) == Define(s, b, "ConstReal", None, "Real", x, <<>>)
Plain(a, s, id, n, op, imm) == Define(s, a.band[id], op, n.form, a.nature[id], imm, Regs(s, n.kids))
LoadOwn(s, id, b) == Load(s, b, s.sc.own[id], <<>>)
StoreOwn(s, id, b, x) == Store(s, b, s.sc.own[id], <<s.sc.val[x]>>)
LoadTable(s, tbl, b, at) == Load(s, b, s.sc.table[tbl], <<at>>)
LoadTableHere(s, tbl, b) == LoadTable(s, tbl, b, s.r)
KeepInt(s, v) == IF v \in DOMAIN s.sc.ints THEN s ELSE BindInt(s, v)

Compute(a, s, id, n, at) ==
  CASE n.kind = "Extended" /\ n.form = "Lowest" -> Constant(s, a.band[id], a.iv[n.kids[1]].lo)
    [] n.kind = "Extended" /\ n.form = "Highest" -> Constant(s, a.band[id], a.iv[n.kids[1]].hi)
    [] IsButton(n.kind) \/ n.kind = "Slider" -> LoadOwn(s, id, a.band[id])
    [] n.kind = "Bargraph" -> LoadOwn(StoreOwn(s, id, a.band[id], n.kids[3]), id, a.band[id])
    [] n.kind = "RDTbl" -> LoadTable(s, n.kids[1], a.band[id], s.sc.val[n.kids[2]])
    [] n.kind = "Waveform" -> LoadTableHere(LoadOwn(s, id, a.band[id]), id, a.band[id])
    [] n.kind \in {"Delay1", "Delay"} -> Load(s, a.band[id], s.sc.line[n.kids[1]], <<at>>)
    [] n.kind = "Int" -> KeepInt(Plain(a, s, id, n, "ConstInt", n.value), n.value)
    [] n.kind = "Real" -> Plain(a, s, id, n, "ConstReal", n.value)
    [] OTHER -> Plain(a, s, id, n, n.kind, n.value)

Done(s, id) == [s EXCEPT !.r = s.sc.val[id]]
ComputeIn(a, s, id, n, at) == Then(s, Closed(a, Compute(a, s, id, n, at), id))
EmitNode(a, s, id, n) ==
  IF Forwards(n) # 0 THEN SetVal(s, id, s.sc.val[Forwards(n)]) ELSE ComputeIn(a, Open(a, s, id), id, n, s.r)
EmitAfter(a, s, id, n) == Then(s, IF Emitted(s, id) THEN Done(s, id) ELSE EmitNode(a, s, id, n))

\* The register of a node, in s.r.
Emit(a, s, id) ==
  Then(s, IF Emitted(s, id) THEN Done(s, id) ELSE EmitAfter(a, Before(a, s, id, a.graph[id]), id, a.graph[id]))

(***************************************************************************)
(* Instructions whose result nothing reads are dropped, until none is left.*)
(***************************************************************************)

Reading(code) == UNION {UNION {ToSet(code[b][k].args) : k \in DOMAIN code[b]} : b \in DOMAIN code}
Wanted(i, read) == i.dst = NoReg \/ i.dst \in read \/ i.op = "LoopBegin"

RECURSIVE Pruned(_)
Pruned(code) ==
  LET read == Reading(code)
      left == [b \in DOMAIN code |-> SelectSeq(code[b], LAMBDA i : Wanted(i, read))]
  IN  IF left = code THEN code ELSE Pruned(left)

(***************************************************************************)
(* Lowering::Run.                                                          *)
(***************************************************************************)

Outputs(s, roots) ==
  FoldLeft(LAMBDA t, o : Effect(t, SampleBand, "Output", o, <<t.sc.val[roots[o]]>>),
           NoGuard(s), [o \in DOMAIN roots |-> o])

Plan(s) == [fields |-> s.fields, code |-> IF Failed(s) THEN s.code ELSE Pruned(s.code),
            regs |-> s.regs, why |-> s.why]

Finish(a, s, roots) == Then(s, EmitEpilogue(a, Outputs(s, roots)))
Lowered(a, roots) ==
  IF ~a.bounded THEN Fail(NewLowering(a.maxd), "unbounded delay")
  ELSE Finish(a, EmitAll(a, NewLowering(a.maxd), roots), roots)

Lower(g, roots) == Plan(Lowered(Analysis(g, ToSet(roots)), roots))
=============================================================================
