-------------------------------- MODULE Streams -------------------------------
(***************************************************************************)
(* What boxes and signal graphs mean, as functions of streams: the         *)
(* reference for propagation and for every pass over the graph.            *)
(*                                                                         *)
(* A stream is [real, at]: its nature, and its value in each of the first  *)
(* Frames frames.  A value is a fraction, that of a table a sequence of    *)
(* them.  Undefined is what a program leaves to the machine: a division    *)
(* by zero, a read outside a table, a value that is no fraction.           *)
(*                                                                         *)
(* A box is a function from streams to streams.  Feedback is the solution  *)
(* of its equations, found from zeros on: each round settles one frame     *)
(* more, as feedback is a frame late.                                      *)
(***************************************************************************)
EXTENDS Propagate

CONSTANT Frames

Time == 1..Frames
Undefined == <<>>
Zeros == [real |-> FALSE, at |-> [t \in Time |-> Whole(0)]]
Unspecified == [real |-> TRUE, at |-> [t \in Time |-> Undefined]]
Always(q) == [t \in Time |-> q]
Steady(real, q) == [real |-> real, at |-> Always(q)]

(***************************************************************************)
(* Values.                                                                 *)
(***************************************************************************)

Lacking(op, x, y) == Undefined \in {x, y} \/ (op \in {"Div", "Rem", "Fmod"} /\ y = Whole(0))
WholeOperated(op, m, n) == Whole(IF op \in {"LeftShift", "RightShift"} THEN Shifted(op, m, n) ELSE IntegerBinary(op, m, n))
Operated(op, ints, x, y) ==
  CASE Lacking(op, x, y) -> Undefined
    [] ~Lacking(op, x, y) /\ IsBitwise(op) -> WholeOperated(op, Truncated(x), Truncated(y))
    [] ~Lacking(op, x, y) /\ IsComparison(op) -> Whole(FractionCompared(op, x, y))
    [] OTHER -> LET q == Exact(op, x, y) IN IF ints /\ op # "Div" THEN Whole(Wrap(q[1])) ELSE q

Integral(x) == IF x = Undefined THEN x ELSE Whole(Truncated(x))

RootOf(x) == IF x = Undefined THEN x ELSE LET found == Root(x) IN IF found = <<>> THEN Undefined ELSE Head(found)

Raised(ints, x, y) ==
  CASE Undefined \in {x, y} -> Undefined
    [] Undefined \notin {x, y} /\ y[2] = 2 -> IF y[1] = 1 THEN RootOf(x) ELSE Undefined
    [] Undefined \notin {x, y} /\ y[2] = 1 ->
         CASE y[1] < 0 /\ (ints \/ x = Whole(0)) -> Undefined
           [] y[1] >= 0 /\ ints -> Whole(IntPower[x[1], y[1]])
           [] OTHER -> RealPower(x, y[1])
    [] OTHER -> Undefined

Chosen(form, ints, x, y) ==
  CASE Undefined \in {x, y} -> Undefined
    [] Undefined \notin {x, y} /\ form = "Min" -> IF Less(x, y) THEN x ELSE y
    [] Undefined \notin {x, y} /\ form = "Max" -> IF Less(x, y) THEN y ELSE x
    [] Undefined \notin {x, y} /\ form = "Abs" -> IF ints THEN Whole(Wrap(Size(x)[1])) ELSE Size(x)
    [] Undefined \notin {x, y} /\ form = "Floor" -> Whole(x[1] \div x[2])

(***************************************************************************)
(* Streams.                                                                *)
(***************************************************************************)

Stream(real, At(_)) == [real |-> real, at |-> [t \in Time |-> At(t)]]
Ints(a, b) == ~a.real /\ ~b.real

OperatedStream(op, a, b) ==
  Stream(CASE IsComparison(op) \/ IsBitwise(op) -> FALSE
           [] op \in {"Div", "Fmod"} -> TRUE
           [] OTHER -> ~Ints(a, b),
         LAMBDA t : Operated(op, Ints(a, b), a.at[t], b.at[t]))

FunctionStream(form, args) ==
  LET x == args[1]
      y == Last(args)
      real == form \in {"Fmod", "Sqrt", "Floor"} \/ ~Ints(x, y)
  IN  CASE form = "AssertBounds" -> [real |-> TRUE, at |-> args[3].at]
        [] form = "Fmod" -> OperatedStream(form, x, y)
        [] form = "Sqrt" -> Stream(TRUE, LAMBDA t : RootOf(x.at[t]))
        [] form = "Pow" -> Stream(real, LAMBDA t : Raised(~real, x.at[t], y.at[t]))
        [] OTHER -> Stream(real, LAMBDA t : Chosen(form, ~real, x.at[t], y.at[t]))

\* d frames ago; 0 before the first.
DelayedBy(x, d) ==
  Stream(x.real, LAMBDA t : LET n == Integral(d.at[t])
                            IN  CASE n = Undefined -> Undefined
                                  [] n # Undefined /\ n[1] < 0 -> Undefined
                                  [] n # Undefined /\ n[1] >= t -> Whole(0)
                                  [] OTHER -> x.at[t - n[1]])
DelayedOnce(x) == DelayedBy(x, Steady(FALSE, Whole(1)))

PrefixedBy(x, y) == Stream(x.real \/ y.real, LAMBDA t : IF t = 1 THEN x.at[1] ELSE y.at[t - 1])

SelectedBy(s, a, b) ==
  Stream(~Ints(a, b), LAMBDA t : CASE Integral(s.at[t]) = Undefined -> Undefined
                                   [] Integral(s.at[t]) = Whole(0) -> a.at[t]
                                   [] OTHER -> b.at[t])

\* The last value x had while the gate was open.
HeldWhile(x, gate) ==
  LET at[t \in Time] == CASE gate.at[t] = Undefined -> Undefined
                            [] gate.at[t] \notin {Undefined, Whole(0)} -> x.at[t]
                            [] OTHER -> IF t = 1 THEN Whole(0) ELSE at[t - 1]
  IN  [real |-> x.real, at |-> at]

\* A table holds what its generator gives in as many frames; a write comes
\* before the reads of its frame and has the nature of the table.
Filled(size, gen) == Stream(gen.real, LAMBDA t : [k \in 1..size.at[1][1] |-> gen.at[k]])
Written(tbl, w, x) ==
  LET value(t) == IF tbl.real THEN x.at[t] ELSE Integral(x.at[t])
      at[t \in Time] == LET before == IF t = 1 THEN tbl.at[1] ELSE at[t - 1]
                              i == Integral(w.at[t])
                          IN  CASE i = Undefined -> [k \in DOMAIN before |-> Undefined]
                                [] i # Undefined /\ i[1] \in 0..(Len(before) - 1) -> [before EXCEPT ![i[1] + 1] = value(t)]
                                [] OTHER -> [k \in DOMAIN before |-> Undefined]
  IN  [real |-> tbl.real, at |-> at]
ReadAt(tbl, r) ==
  Stream(tbl.real, LAMBDA t : LET i == Integral(r.at[t])
                              IN  CASE i = Undefined -> Undefined
                                    [] i # Undefined /\ i[1] \in 0..(Len(tbl.at[t]) - 1) -> tbl.at[t][i[1] + 1]
                                    [] OTHER -> Undefined)

Cycled(elements) == Stream(FALSE, LAMBDA t : Whole(elements[((t - 1) % Len(elements)) + 1]))
AsInt(x) == Stream(FALSE, LAMBDA t : Integral(x.at[t]))
AsReal(x) == [x EXCEPT !.real = TRUE]

(***************************************************************************)
(* What is heard of a box: its streams, given those of its inputs, of the  *)
(* slots and of the controls shown at each path.                           *)
(***************************************************************************)

Shown(shown, path) == [real |-> TRUE, at |-> IF path \in DOMAIN shown THEN shown[path] ELSE Always(Whole(0))]

\* One of three, by the value of the first.
SelectedOf3(in) ==
  Stream(\E i \in 2..4 : in[i].real,
         LAMBDA t : CASE in[1].at[t] = Undefined -> Undefined
                      [] in[1].at[t] = Whole(0) -> in[2].at[t]
                      [] in[1].at[t] = Whole(1) -> in[3].at[t]
                      [] OTHER -> in[4].at[t])

PrimStream(prim, in) ==
  CASE prim = "Mem"       -> DelayedOnce(in[1])
    [] prim = "FDelay"    -> DelayedBy(in[1], in[2])
    [] prim = "Prefix"    -> PrefixedBy(in[1], in[2])
    [] prim = "IntCast"   -> AsInt(in[1])
    [] prim = "FloatCast" -> AsReal(in[1])
    [] prim = "Select2"   -> SelectedBy(in[1], in[2], in[3])
    [] prim = "Select3"   -> SelectedOf3(in)
    [] prim = "Attach"    -> in[1]
    [] prim = "Enable"    -> HeldWhile(OperatedStream("Mul", in[1], in[2]), in[2])
    [] prim = "Control"   -> HeldWhile(in[1], in[2])
    [] prim = "RdTable"   -> ReadAt(Filled(in[1], in[2]), in[3])
    [] prim = "RwTable"   -> ReadAt(Written(Filled(in[1], in[2]), in[3], in[4]), in[5])
    [] prim \in {"Abs", "Min", "Max", "Pow", "Fmod", "Sqrt", "Floor", "AssertBounds"} -> FunctionStream(prim, in)
    [] OTHER -> OperatedStream(prim, in[1], in[2])

SumOf(streams) ==
  IF streams = <<>> THEN Zeros
  ELSE FoldLeft(LAMBDA a, b : OperatedStream("Add", a, b), Head(streams), Tail(streams))
\* Those of the streams whose place fits.
Those(streams, Fits(_)) == LET at == SetToSortSeq({i \in DOMAIN streams : Fits(i)}, <) IN [k \in DOMAIN at |-> streams[at[k]]]

RECURSIVE Heard(_, _, _)
Heard(box, env, in) ==
  LET a == Kid(box, 1)
      b == Kid(box, 2)
      ins == ArityOf(b).ins
      outs == Heard(a, env, in)
      lead(dst) == {k \in 1..((Len(box.value) - 2) \div 2) : box.value[2 * k + 2] = dst /\ box.value[2 * k + 1] \in DOMAIN in}
      around(out) == Heard(a, env, Heard(b, env, [i \in 1..ins |-> DelayedOnce(out[i])]) \o in)
      RECURSIVE Solution(_)
      Solution(out) == LET next == around(out) IN IF next = out THEN out ELSE Solution(next)
  IN  CASE box.kind = "Int" -> <<Steady(FALSE, Whole(Wrap(box.value[1])))>>
        [] box.kind = "Real" -> <<Steady(TRUE, box.value)>>
        [] box.kind = "Waveform" -> <<Steady(FALSE, Whole(Len(box.value))), Cycled(box.value)>>
        [] box.kind \in {"Cut", "Environment"} -> <<>>
        [] box.kind = "Wire" -> in
        [] box.kind = "Slot" -> <<env.slots[box]>>
        [] box.kind = "Symbolic" -> Heard(b, [env EXCEPT !.slots = (a :> Head(in)) @@ @], Tail(in))
        [] box.kind = "Prim" -> <<PrimStream(box.form, in)>>
        [] box.kind \in {"Button", "Checkbox", "Slider"} -> <<Shown(env.shown, WalkTo(env.path, box.value))>>
        [] box.kind = "Bargraph" -> <<AsReal(in[1])>>
        [] box.kind = "Group" -> Heard(a, [env EXCEPT !.path = Append(@, box.value[1])], in)
        [] box.kind = "Seq" -> Heard(b, env, outs)
        [] box.kind = "Par" ->
             LET mine == ArityOf(a).ins
             IN  Heard(a, env, SubSeq(in, 1, mine)) \o Heard(b, env, SubSeq(in, mine + 1, Len(in)))
        [] box.kind = "Split" -> Heard(b, env, FoldLeft(LAMBDA l, k : l \o outs, <<>>, [k \in 1..(ins \div Len(outs)) |-> k]))
        [] box.kind = "Merge" -> Heard(b, env, [i \in 1..ins |-> SumOf(Those(outs, LAMBDA o : (o - i) % ins = 0))])
        [] box.kind = "Rec" -> Solution([i \in 1..ArityOf(a).outs |-> Zeros])
        [] box.kind = "Route" ->
             [dst \in 1..box.value[2] |-> LET ks == SetToSeq(lead(dst)) IN SumOf([i \in DOMAIN ks |-> in[box.value[2 * ks[i] + 1]]])]

(***************************************************************************)
(* What is heard of a graph: of its branches, until nothing changes, then  *)
(* of its roots.  The branches of an open group are anything.              *)
(***************************************************************************)

RECURSIVE Sounds(_, _, _, _)
Sounds(branches, shown, in, t) ==
  LET kid(i) == Sounds(branches, shown, in, Kid(t, i))
      group == branches[Kid(t, 1).value[1]]
  IN  CASE t.kind \in {"Int", "Real"} -> Steady(t.kind = "Real", t.value)
        [] t.kind = "Input" -> in[t.value[1]]
        [] t.kind = "Waveform" -> Cycled(t.value)
        [] t.kind \in {"Button", "Checkbox", "Slider"} -> Shown(shown, t.value)
        [] t.kind = "Bargraph" -> AsReal(kid(3))
        [] t.kind = "BinOp" -> OperatedStream(t.form, kid(1), kid(2))
        [] t.kind = "Extended" -> FunctionStream(t.form, [i \in DOMAIN t.kids |-> kid(i)])
        [] t.kind = "Delay1" -> DelayedOnce(kid(1))
        [] t.kind = "Delay" -> DelayedBy(kid(1), kid(2))
        [] t.kind = "Prefix" -> PrefixedBy(kid(1), kid(2))
        [] t.kind = "Select2" -> SelectedBy(kid(1), kid(2), kid(3))
        [] t.kind = "IntCast" -> AsInt(kid(1))
        [] t.kind = "FloatCast" -> AsReal(kid(1))
        [] t.kind = "Control" -> HeldWhile(kid(1), kid(2))
        [] t.kind \in {"Attach", "Gen"} -> kid(1)
        [] t.kind = "WRTbl" ->
             IF Len(t.kids) = 2 THEN Filled(kid(1), kid(2)) ELSE Written(Filled(kid(1), kid(2)), kid(3), kid(4))
        [] t.kind = "RDTbl" -> ReadAt(kid(1), kid(2))
        [] t.kind = "Proj" -> IF t.value[1] \in DOMAIN group THEN group[t.value[1]] ELSE Unspecified

\* Every branch, from what is heard of the branches.
Around(branches, groups, shown, in) ==
  [g \in DOMAIN groups |-> [i \in DOMAIN groups[g].branches |-> Sounds(branches, shown, in, groups[g].branches[i])]]

RECURSIVE Settled(_, _, _, _)
SettledFrom(branches, next, groups, shown, in) ==
  IF next = branches THEN branches ELSE Settled(next, groups, shown, in)
Settled(branches, groups, shown, in) ==
  SettledFrom(branches, Around(branches, groups, shown, in), groups, shown, in)

Heeding(branches, roots, shown, in) == [i \in DOMAIN roots |-> Sounds(branches, shown, in, roots[i])]
SoundsOf(groups, roots, shown, in) ==
  Heeding(Settled([g \in DOMAIN groups |-> [i \in DOMAIN groups[g].branches |-> Zeros]], groups, shown, in),
          roots, shown, in)

\* Streams of one value in every frame in which the first has one; no
\* integer becomes real, a real one is an integer where it is known to be.
SameWhereDefined(before, after) ==
  /\ Len(before) = Len(after)
  /\ \A i \in DOMAIN before :
       /\ after[i].real => before[i].real
       /\ \A t \in Time : before[i].at[t] \in {Undefined, after[i].at[t]}
=============================================================================
