-------------------------------- MODULE Player -------------------------------
(***************************************************************************)
(* Running a plan: RegisterLayout and InstanceLayout (Layout.cpp), the     *)
(* life cycle of Instance.cpp and the interpreter (Interp.cpp).            *)
(*                                                                         *)
(* An instance is [regs, kept, fields, outs] and two observations: `stale',*)
(* registers read though nothing wrote them since the frame (or the band)  *)
(* began, and `beyond', delay lines indexed outside their extent.          *)
(***************************************************************************)
EXTENDS Lowering

(***************************************************************************)
(* Layout.                                                                 *)
(***************************************************************************)

Bands == InitBand..SampleBand
DefinedIn(code) == {code[k].dst : k \in DOMAIN code} \ {NoReg}
ReadsIn(code) == UNION {ToSet(code[k].args) : k \in DOMAIN code}
Opens(op) == op \in {"GuardBegin", "LoopBegin"}
Closes(op) == op \in {"GuardEnd", "LoopEnd"}

\* Where a begin and its end lead (Interp::Prepare).
Jumps(code) ==
  FoldLeft(LAMBDA acc, pc :
             IF Opens(code[pc].op) THEN [acc EXCEPT !.open = <<pc>> \o @]
             ELSE IF Closes(code[pc].op) /\ acc.open # <<>>
             THEN [open |-> Tail(acc.open), jump |-> [acc.jump EXCEPT ![Head(acc.open)] = pc + 1, ![pc] = Head(acc.open)]]
             ELSE acc,
           [open |-> <<>>, jump |-> [pc \in DOMAIN code |-> 0]], [pc \in DOMAIN code |-> pc]).jump

\* Definitions between a begin and the end of a guard.
UnderGuard(code) ==
  {code[k].dst : k \in {j \in DOMAIN code :
     Cardinality({i \in 1..(j - 1) : code[i].op = "GuardBegin"})
       > Cardinality({i \in 1..(j - 1) : code[i].op = "GuardEnd"})}} \ {NoReg}

\* The registers an instance keeps across calls.
Retained(code) ==
  UNION {UnderGuard(code[b]) : b \in Bands}
    \cup UNION {DefinedIn(code[b]) \cap UNION {ReadsIn(code[c]) : c \in (b + 1)..SampleBand} : b \in Bands}

InitWrites(code) == {i.imm : i \in {j \in ToSet(code[InitBand]) : j.op = "StoreField"}}

TypesOf(code, regs) ==
  [r \in 0..(regs - 1) |->
     LET defs == {i \in UNION {ToSet(code[b]) : b \in Bands} : i.dst = r}
     IN  IF defs = {} THEN "Real" ELSE (CHOOSE i \in defs : TRUE).nature]

Prepared(plan) ==
  [fields |-> plan.fields, code |-> plan.code, why |-> plan.why,
   jumps |-> [b \in Bands |-> Jumps(plan.code[b])], types |-> TypesOf(plan.code, plan.regs),
   retained |-> Retained(plan.code), initWrites |-> InitWrites(plan.code)]

(***************************************************************************)
(* One instruction.                                                        *)
(***************************************************************************)

AsInt(types, m, r) == IF types[r] = "Int" THEN m.regs[r] ELSE Saturated(m.regs[r])

Written(m, i, v) == [m EXCEPT !.regs[i.dst] = v, !.fresh = @ \cup {i.dst}]

\* The slot an index selects: negative ones are large as unsigned numbers.
Slot(p, f, at) ==
  IF at < 0 \/ at >= p.fields[f].extent THEN p.fields[f].extent ELSE at + 1

Outside(p, f, at) == p.fields[f].kind = "Delay" /\ (at < 0 \/ at >= p.fields[f].extent)

Binary(p, m, i) ==
  LET x == i.args[1]
      y == i.args[2]
  IN  IF p.types[x] = "Int" THEN IntegerBinary(i.form, m.regs[x], m.regs[y])
      ELSE RealBinary(i.form, m.regs[x], m.regs[y])

Extended(p, m, i) ==
  LET x == m.regs[i.args[1]]
      integer == p.types[i.args[1]] = "Int"
  IN  CASE i.form = "Abs" -> IF integer /\ x = MinInt THEN x ELSE Magnitude(x)
        [] i.form = "Min" -> Min({x, m.regs[i.args[2]]})
        [] i.form = "Max" -> Max({x, m.regs[i.args[2]]})

Stored(p, m, i) ==
  LET v == Last(i.args)
      at == IF Len(i.args) > 1 THEN AsInt(p.types, m, i.args[1]) ELSE 0
      x == IF p.fields[i.imm].nature = "Int" THEN AsInt(p.types, m, v) ELSE m.regs[v]
  IN  [m EXCEPT !.fields = [@ EXCEPT ![i.imm] = [@ EXCEPT ![Slot(p, i.imm, at)] = x]],
                !.beyond = @ \/ Outside(p, i.imm, at)]

Loaded(p, m, i) ==
  LET at == IF i.args # <<>> THEN AsInt(p.types, m, i.args[1]) ELSE 0
  IN  Written([m EXCEPT !.beyond = @ \/ Outside(p, i.imm, at)], i, m.fields[i.imm][Slot(p, i.imm, at)])

Execute(p, m, i, in) ==
  LET arg(k) == m.regs[i.args[k]]
      whole(k) == AsInt(p.types, m, i.args[k])
  IN  CASE i.op \in {"ConstInt", "ConstReal"} -> Written(m, i, i.imm)
        [] i.op = "Input" -> Written(m, i, in[i.imm])
        [] i.op = "Output" -> [m EXCEPT !.outs = (i.imm :> arg(1)) @@ @]
        [] i.op = "BinOp" -> Written(m, i, Binary(p, m, i))
        [] i.op = "Extended" -> Written(m, i, Extended(p, m, i))
        [] i.op = "IntCast" -> Written(m, i, whole(1))
        [] i.op = "FloatCast" -> Written(m, i, arg(1))
        [] i.op = "Select2" -> Written(m, i, IF arg(1) # 0 THEN arg(3) ELSE arg(2))
        [] i.op = "Select3" -> Written(m, i, IF arg(1) = 0 THEN arg(2) ELSE IF arg(1) = 1 THEN arg(3) ELSE arg(4))
        [] i.op = "LoadField" -> Loaded(p, m, i)
        [] i.op = "StoreField" -> Stored(p, m, i)
        [] i.op = "LoopBegin" -> Written(m, i, 0)
        [] OTHER -> m

Noted(m, i) == [m EXCEPT !.stale = @ \cup {r \in ToSet(i.args) : r \notin m.fresh}]

(***************************************************************************)
(* One pass over a band.                                                   *)
(***************************************************************************)

RECURSIVE Pass(_, _, _, _, _)
Pass(p, m, b, pc, in) ==
  IF pc > Len(p.code[b]) THEN m
  ELSE LET i == p.code[b][pc]
           jump == p.jumps[b][pc]
           noted == Noted(m, i)
       IN  CASE i.op = "GuardBegin" /\ m.regs[i.args[1]] = 0 -> Pass(p, noted, b, jump, in)
             [] i.op = "LoopEnd" ->
                  LET begin == p.code[b][jump]
                      turn == [m EXCEPT !.regs = [@ EXCEPT ![begin.dst] = @ + 1]]
                  IN  Pass(p, turn, b, IF m.regs[begin.dst] + 1 < begin.imm THEN jump + 1 ELSE pc + 1, in)
             [] OTHER -> Pass(p, Execute(p, noted, i, in), b, pc + 1, in)

\* A pass may rely on what the bands before it define.
RunBand(p, m, b, in) ==
  Pass(p, [m EXCEPT !.fresh = UNION {DefinedIn(p.code[c]) : c \in InitBand..(b - 1)}], b, 1, in)

\* Execute: registers that are kept are put back before a call and saved after it.
Restored(m) == [m EXCEPT !.regs = m.kept @@ @]
Saved(m) == [m EXCEPT !.kept = [r \in DOMAIN @ |-> m.regs[r]]]

(***************************************************************************)
(* The life cycle.                                                         *)
(***************************************************************************)

Blank(f) == [k \in 1..f.extent |-> 0]

NewInstance(p) ==
  [regs |-> [r \in DOMAIN p.types |-> 0], kept |-> [r \in p.retained |-> 0],
   fields |-> [f \in DOMAIN p.fields |-> Blank(p.fields[f])], outs |-> <<>>,
   fresh |-> {}, stale |-> {}, beyond |-> FALSE]

History(f) == f.kind \in {"Delay", "Perm"}

Constants(p, m) ==
  LET start(f) == CASE History(p.fields[f]) /\ f \in p.initWrites -> Blank(p.fields[f])
                    [] p.fields[f].wave # <<>> -> p.fields[f].wave
                    [] OTHER -> m.fields[f]
  IN  Saved(RunBand(p, Restored([m EXCEPT !.fields = [f \in DOMAIN @ |-> start(f)]]), InitBand, <<>>))

\* Every field of a widget of that label; the value of `shown' by label.
Widgets(p) == {f \in DOMAIN p.fields : p.fields[f].kind = "Widget"}
SetControls(p, m, g, shown) ==
  [m EXCEPT !.fields = [f \in DOMAIN @ |->
     IF f \in Widgets(p) /\ g[p.fields[f].sig].value \in DOMAIN shown
     THEN <<shown[g[p.fields[f].sig].value]>> ELSE @[f]]]

Clear(p, m) ==
  [m EXCEPT !.fields = [f \in DOMAIN @ |->
                          IF History(p.fields[f]) /\ f \notin p.initWrites THEN Blank(p.fields[f]) ELSE @[f]],
            !.kept = [r \in DOMAIN @ |-> IF r \in DefinedIn(p.code[InitBand]) THEN @[r] ELSE 0]]

\* One call of Compute is a control pass and one frame after another.
ControlPass(p, m) == RunBand(p, Restored(m), ControlBand, <<>>)
Frame(p, m, in) == RunBand(p, [m EXCEPT !.outs = <<>>], SampleBand, in)
=============================================================================
