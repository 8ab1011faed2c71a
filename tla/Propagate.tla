------------------------------- MODULE Propagate ------------------------------
(***************************************************************************)
(* Boxes and the signals they make of their inputs: the arities of the     *)
(* algebra (Box.cpp) and Propagate.cpp.                                    *)
(*                                                                         *)
(* A box is a node as a signal is.  Its value is the number of an Int or   *)
(* Real, the label of a group or widget, the elements of a waveform, the   *)
(* number of a slot; a Route's is its inputs, its outputs and its pairs.   *)
(* A label is a path: names, "/" for the root and ".." for the parent.     *)
(***************************************************************************)
EXTENDS Simplify

(***************************************************************************)
(* Arities.                                                                *)
(***************************************************************************)

Unknown == [ins |-> 0, outs |-> 0, known |-> FALSE]
Arity(ins, outs) == [ins |-> ins, outs |-> outs, known |-> TRUE]

PrimArity(prim) ==
  CASE prim \in {"Mem", "IntCast", "FloatCast", "Abs", "Sqrt", "Floor"} -> 1
    [] prim \in {"Select2", "RdTable", "AssertBounds"} -> 3
    [] prim = "Select3" -> 4
    [] prim = "RwTable" -> 5
    [] OTHER -> 2

Compose(kind, a, b) ==
  CASE kind = "Seq" /\ a.outs = b.ins -> Arity(a.ins, b.outs)
    [] kind = "Par" -> Arity(a.ins + b.ins, a.outs + b.outs)
    [] kind = "Split" /\ a.outs # 0 /\ b.ins # 0 /\ b.ins % a.outs = 0 -> Arity(a.ins, b.outs)
    [] kind = "Merge" /\ a.outs # 0 /\ b.ins # 0 /\ a.outs % b.ins = 0 -> Arity(a.ins, b.outs)
    [] kind = "Rec" /\ b.ins <= a.outs /\ b.outs <= a.ins -> Arity(Max({0, a.ins - b.outs}), a.outs)
    [] OTHER -> Unknown

RECURSIVE ArityOf(_)
ArityOf(box) ==
  CASE box.kind \in {"Int", "Real", "Slot", "Button", "Checkbox", "Slider"} -> Arity(0, 1)
    [] box.kind \in {"Wire", "Bargraph"} -> Arity(1, 1)
    [] box.kind = "Cut" -> Arity(1, 0)
    [] box.kind = "Waveform" -> Arity(0, 2)
    [] box.kind = "Environment" -> Arity(0, 0)
    [] box.kind = "Prim" -> Arity(PrimArity(box.form), 1)
    [] box.kind = "Route" -> IF box.value = <<>> THEN Unknown ELSE Arity(box.value[1], box.value[2])
    [] box.kind = "Group" -> ArityOf(Kid(box, 1))
    [] box.kind = "Symbolic" ->
         LET body == ArityOf(Kid(box, 2)) IN IF body.known THEN Arity(body.ins + 1, body.outs) ELSE Unknown
    [] box.kind \in {"Seq", "Par", "Split", "Merge", "Rec"} ->
         LET a == ArityOf(Kid(box, 1))
             b == ArityOf(Kid(box, 2))
         IN  IF a.known /\ b.known THEN Compose(box.kind, a, b) ELSE Unknown
    [] OTHER -> Unknown

\* A composition that does not fit is an error, as is what contains one.
MakeBox(kind, a, b) ==
  IF Error \in {a, b} \/ (ArityOf(a).known /\ ArityOf(b).known /\ ~Compose(kind, ArityOf(a), ArityOf(b)).known)
  THEN Error ELSE Node(kind, "", <<>>, <<a, b>>)

(***************************************************************************)
(* Primitives.  Literals are folded, all else is left to Simplify.         *)
(***************************************************************************)

Bin(op, x, y) == IF IsNum(x) /\ IsNum(y) THEN SimpBinOp(op, x, y) ELSE MakeBin(op, x, y)
Delay(x, d) == IF IsNum(x) /\ IsNum(d) THEN SimpDelay(x, d) ELSE Make("Delay", "", <<>>, <<x, d>>)
Delay1(x) == IF IsNum(x) THEN SimpDelay1(x) ELSE Make("Delay1", "", <<>>, <<x>>)
Select2(sel, a, b) == Make("Select2", "", <<>>, <<sel, a, b>>)
Controlled(x, gate) == Make("Control", "", <<>>, <<x, Bin("NE", gate, MakeReal(Whole(0)))>>)

Select3(in) ==
  Select2(Bin("EQ", in[1], MakeInt(0)), Select2(Bin("EQ", in[1], MakeInt(1)), in[4], in[3]), in[2])

Table(in, rw) ==
  LET gen == Make("Gen", "", <<>>, <<in[2]>>)
      tbl == Make("WRTbl", "", <<>>, IF rw THEN <<in[1], gen, in[3], in[4]>> ELSE <<in[1], gen>>)
  IN  Make("RDTbl", "", <<>>, <<tbl, Last(in)>>)

PrimSignal(prim, in) ==
  CASE prim = "Mem"       -> Delay1(in[1])
    [] prim = "FDelay"    -> Delay(in[1], in[2])
    [] prim = "Prefix"    -> Make("Prefix", "", <<>>, in)
    [] prim = "IntCast"   -> SimpIntCast(in[1])
    [] prim = "FloatCast" -> SimpFloatCast(in[1])
    [] prim = "Select2"   -> Select2(in[1], in[2], in[3])
    [] prim = "Select3"   -> Select3(in)
    [] prim = "Attach"    -> Make("Attach", "", <<>>, in)
    [] prim = "Enable"    -> Controlled(Bin("Mul", in[1], in[2]), in[2])
    [] prim = "Control"   -> Controlled(in[1], in[2])
    [] prim = "RdTable"   -> Table(in, FALSE)
    [] prim = "RwTable"   -> Table(in, TRUE)
    [] prim \in {"Abs", "Min", "Max", "Pow", "Fmod", "Sqrt", "Floor", "AssertBounds"} -> SimpExtended(prim, in)
    [] OTHER -> Bin(prim, in[1], in[2])

(***************************************************************************)
(* The propagator: what it has computed before, the bindings of slots,     *)
(* the groups it is in, the recursive groups, the widgets it has met,      *)
(* whether it failed, and the signals of the box it returns from.          *)
(***************************************************************************)

Propagator == [memo |-> <<>>, slots |-> <<>>, path |-> <<>>, groups |-> <<>>, ui |-> <<>>, failed |-> FALSE, r |-> <<>>]

Returns(p, out) == [p EXCEPT !.r = out]
Fail(p) == [p EXCEPT !.failed = TRUE, !.r = <<Error>>]

\* Mutant: results are found again under any binding of the slots.
MemoKeyOfBox(p, box, in) == <<box, <<>>, p.path, in>>

MemoKey(p, box, in) == <<box, p.slots, p.path, in>>

\* Where a label leads from a path of groups.
WalkTo(path, label) ==
  FoldLeft(LAMBDA at, seg : CASE seg = "/"  -> <<>>
                              [] seg = ".." -> IF at = <<>> THEN at ELSE Front(at)
                              [] OTHER      -> Append(at, seg), path, label)
Widget(p, kind, label, kids) ==
  LET path == WalkTo(p.path, label)
  IN  [p EXCEPT !.ui = Append(@, [kind |-> kind, path |-> path]), !.r = <<Make(kind, "", path, kids)>>]

\* The inputs of the second box are the outputs of the first, as often as fits.
Fanned(l, n) == [i \in 1..n |-> l[((i - 1) % Len(l)) + 1]]

\* Outputs a multiple of n apart are summed.
Mixed(l, n) ==
  [b \in 1..n |-> FoldLeft(LAMBDA t, i : Bin("Add", t, l[i]), l[b],
                           SelectSeq([i \in DOMAIN l |-> i], LAMBDA i : i > n /\ (i - b) % n = 0))]

\* Every pair adds an input to an output; pairs that lead outside are ignored.
AddedTo(acc, add) ==
  IF acc = MakeInt(0) THEN add ELSE IF add = MakeInt(0) THEN acc ELSE SimpBinOp("Add", acc, add)
Routed(value, in) ==
  FoldLeft(LAMBDA out, k : IF value[2 * k + 1] \in 1..value[1] /\ value[2 * k + 2] \in 1..value[2]
                           THEN [out EXCEPT ![value[2 * k + 2]] = AddedTo(@, in[value[2 * k + 1]])] ELSE out,
           [i \in 1..value[2] |-> MakeInt(0)], [k \in 1..((Len(value) - 2) \div 2) |-> k])

BoundSlot(p, box) == SelectInSeq(Reverse(p.slots), LAMBDA s : s[1] = box)

RECURSIVE Propagate(_, _, _)

\* The feedback is the last frame's; the outputs are this frame's.
FedBack(g, n) == [i \in 1..n |-> Delay1(Proj(g, i))]
Forward(l, a, in) == Propagate(l, a, l.r \o in)
CloseLoop(body, g, n) ==
  LET group == ClosedAs(body.groups, g, body.r)
  IN  Returns([body EXCEPT !.groups = CloseRec(@, g, body.r)], [i \in 1..n |-> Delay(Proj(group, i), MakeInt(0))])
PropagateRec(p, a, b, in) ==
  LET g == Opened(p.groups)
      back == FedBack(g, ArityOf(b).ins)
  IN  CloseLoop(Forward(Propagate([p EXCEPT !.groups = OpenRec(@)], b, back), a, in), g, ArityOf(a).outs)

Real(p, box, in) ==
  LET a == Kid(box, 1)
      b == Kid(box, 2)
      ins(kid) == ArityOf(kid).ins
  IN  CASE box.kind = "Int" -> Returns(p, <<MakeInt(box.value[1])>>)
        [] box.kind = "Real" -> Returns(p, <<MakeReal(box.value)>>)
        [] box.kind = "Waveform" -> Returns(p, <<MakeInt(Len(box.value)), Make("Waveform", "", box.value, <<>>)>>)
        [] box.kind \in {"Cut", "Environment"} -> Returns(p, <<>>)
        [] box.kind = "Wire" -> Returns(p, in)
        [] box.kind = "Slot" ->
             LET i == BoundSlot(p, box)
             IN  IF i = 0 THEN Fail(p) ELSE Returns(p, <<Reverse(p.slots)[i][2]>>)
        [] box.kind = "Symbolic" ->
             [Propagate([p EXCEPT !.slots = Append(@, <<a, Head(in)>>)], b, Tail(in)) EXCEPT !.slots = p.slots]
        [] box.kind = "Prim" -> Returns(p, <<PrimSignal(box.form, in)>>)
        [] box.kind \in {"Button", "Checkbox"} -> Widget(p, box.kind, box.value, <<>>)
        [] box.kind = "Slider" -> Widget(p, box.kind, box.value, box.kids)
        [] box.kind = "Bargraph" -> Widget(p, box.kind, box.value, box.kids \o in)
        [] box.kind = "Group" ->
             [Propagate([p EXCEPT !.path = Append(@, box.value[1])], a, in) EXCEPT !.path = p.path]
        [] box.kind = "Seq" -> LET l == Propagate(p, a, in) IN Propagate(l, b, l.r)
        [] box.kind = "Par" ->
             LET l == Propagate(p, a, SubSeq(in, 1, ins(a)))
                 r == Propagate(l, b, SubSeq(in, ins(a) + 1, Len(in)))
             IN  Returns(r, l.r \o r.r)
        [] box.kind = "Split" -> LET l == Propagate(p, a, in) IN Propagate(l, b, Fanned(l.r, ins(b)))
        [] box.kind = "Merge" -> LET l == Propagate(p, a, in) IN Propagate(l, b, Mixed(l.r, ins(b)))
        [] box.kind = "Rec" -> PropagateRec(p, a, b, in)
        [] box.kind = "Route" -> Returns(p, Routed(box.value, in))
        [] box.kind = "Error" -> Returns(p, <<Error>>)

Remembering(p, key, out) ==
  IF key \in DOMAIN p.memo THEN Returns(p, p.memo[key]) ELSE [out EXCEPT !.memo = (key :> out.r) @@ @]
Propagate(p, box, in) == Remembering(p, MemoKey(p, box, in), Real(p, box, in))

\* The signals of a closed box, from its inputs.
Run(box) == Propagate(Propagator, box, [i \in 1..ArityOf(box).ins |-> Input(i)])
=============================================================================
