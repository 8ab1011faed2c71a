------------------------------- MODULE Signals -------------------------------
(***************************************************************************)
(* The signal graph and what lowering infers from it: Signal.h, Type.cpp,  *)
(* Schedule.cpp, InferNatures of Promote.cpp, and the conditions under     *)
(* which a node runs (Conditions, Annotate and Reach of Plan.cpp).         *)
(*                                                                         *)
(* A graph is a sequence of nodes [kind, form, kids, value]; a node's id   *)
(* is its position and its children stand before it, except the branches   *)
(* of a Rec.  `value' is the literal, the channel, the label, the branch   *)
(* of a Proj or the elements of a waveform.                                *)
(***************************************************************************)
EXTENDS Intervals, SequencesExt, TLC

CONSTANT MaxCopyDelay

Node(kind, form, kids, value) == [kind |-> kind, form |-> form, kids |-> kids, value |-> value]

Kind(g, id) == g[id].kind
Kid(g, id, i) == g[id].kids[i]
Kids(g, id) == ToSet(g[id].kids)
Ids(g) == [id \in DOMAIN g |-> id]
IsInt(g, id) == Kind(g, id) = "Int"

IsButton(kind) == kind \in {"Button", "Checkbox"}
IsComparison(op) == op \in {"GT", "LT", "GE", "LE", "EQ", "NE"}
IsBitwise(op) == op \in {"AND", "OR", "XOR"}

\* What the nodes of `start' reach in Successors.
Closure(start, Successors(_)) ==
  LET RECURSIVE Upward(_)
      Upward(ids) == LET seen == ids \cup UNION {Successors(x) : x \in ids}
                   IN  IF seen = ids THEN ids ELSE Upward(seen)
  IN  Upward(start)

(***************************************************************************)
(* Rates and natures: sweeps in id order, until nothing changes.  Only a   *)
(* Proj looks at a later node, so every sweep carries a change once around *)
(* a group.                                                                *)
(***************************************************************************)

Konst == 0
Block == 1
Samp == 2

\* The band of a rate (AssignBands).
InitBand == Konst
ControlBand == Block
SampleBand == Samp

Sweeps(g, Inferred(_, _), start) ==
  LET RECURSIVE Sweep(_)
      Sweep(found) == LET next == FoldLeft(LAMBDA f, id : [f EXCEPT ![id] = Inferred(f, id)], found, Ids(g))
                      IN  IF next = found THEN found ELSE Sweep(next)
  IN  Sweep(start)

\* Mutant: a node with a state has the rate of its operands.
RateOfOperands(g, var, id) ==
  CASE g[id].kind \in {"Int", "Real"} -> Konst
    [] g[id].kind \in {"Waveform", "Input"} -> Samp
    [] IsButton(g[id].kind) \/ g[id].kind = "Slider" -> Block
    [] g[id].kind = "Proj" -> var[g[id].kids[1]]
    [] OTHER -> Max({Konst} \cup {var[c] : c \in ToSet(g[id].kids)})

VariabilityOf(g, var, id) ==
  LET n == g[id]
      kid(i) == var[n.kids[i]]
      all == Max({Konst} \cup {var[c] : c \in ToSet(n.kids)})
  IN  CASE n.kind \in {"Int", "Real"} -> Konst
        [] n.kind \in {"Waveform", "Input", "Delay1", "Delay", "Prefix"} -> Samp
        [] n.kind \in {"BinOp", "Select2", "Select3", "Rec"} -> all
        [] n.kind \in {"IntCast", "FloatCast", "Attach", "Control", "Gen", "Proj"} -> kid(1)
        [] n.kind = "WRTbl" -> IF Len(n.kids) = 4 THEN Max({kid(3), kid(4)}) ELSE Konst
        [] n.kind = "RDTbl" -> Max({kid(1), kid(2)})
        [] IsButton(n.kind) \/ n.kind = "Slider" -> Block
        [] n.kind = "Bargraph" -> Max({kid(3), Block})
        [] n.kind = "Extended" ->
             CASE n.form = "AssertBounds" -> kid(3)
               [] n.form \in {"Lowest", "Highest"} -> Konst
               [] OTHER -> all

InferVariability(g) ==
  Sweeps(g, LAMBDA var, id : VariabilityOf(g, var, id), [id \in DOMAIN g |-> Konst])

Join(natures) == IF "Real" \in natures THEN "Real" ELSE "Int"

NatureOf(g, nat, id) ==
  LET n == g[id]
      kid(i) == nat[n.kids[i]]
      all == Join({nat[c] : c \in ToSet(n.kids)})
  IN  CASE n.kind \in {"Int", "IntCast", "Rec", "Waveform"} -> "Int"
        [] n.kind \in {"Real", "Input", "FloatCast", "Slider", "Bargraph"} \/ IsButton(n.kind) -> "Real"
        [] n.kind = "BinOp" -> IF IsComparison(n.form) \/ IsBitwise(n.form) THEN "Int" ELSE all
        [] n.kind \in {"Delay1", "Delay", "Attach", "Control", "Gen", "RDTbl"} -> kid(1)
        [] n.kind = "Prefix" -> all
        [] n.kind = "Select2" -> Join({kid(2), kid(3)})
        [] n.kind = "Select3" -> Join({kid(2), kid(3), kid(4)})
        [] n.kind = "WRTbl" -> kid(2)
        [] n.kind = "Extended" -> IF n.form \in {"Abs", "Min", "Max"} THEN all ELSE "Real"
        [] n.kind = "Proj" -> nat[Kid(g, n.kids[1], n.value)]

InferNatures(g) == Sweeps(g, LAMBDA nat, id : NatureOf(g, nat, id), [id \in DOMAIN g |-> "Int"])

(***************************************************************************)
(* Intervals: a branch of a group is assumed to be 0 at first, and a bound *)
(* that does not hold is widened to infinity.                              *)
(***************************************************************************)

Groups(g) == {id \in DOMAIN g : Kind(g, id) = "Rec"}

IntervalOf(g, assumed, iv, id) ==
  LET n == g[id]
      k(i) == iv[n.kids[i]]
  IN  CASE n.kind = "Int" -> IntNum(n.value)
        [] n.kind = "Real" -> RealNum(n.value)
        [] n.kind = "Waveform" -> FoldLeft(LAMBDA i, v : Reunion(i, IntNum(v)), IntNum(Head(n.value)), Tail(n.value))
        [] n.kind = "Input" -> Interval(-1, 1, FALSE)
        [] n.kind \in {"Delay1", "Delay"} -> Reunion(k(1), Zero)
        [] n.kind = "Prefix" -> Reunion(k(1), k(2))
        [] n.kind = "BinOp" -> Arithmetic(n.form, k(1), k(2))
        [] n.kind = "IntCast" -> IntCast(k(1))
        [] n.kind = "FloatCast" -> FloatCast(k(1))
        [] n.kind = "Select2" -> Reunion(k(2), k(3))
        [] n.kind = "Select3" -> Reunion(Reunion(k(2), k(3)), k(4))
        [] n.kind \in {"Attach", "Control", "Gen", "RDTbl"} -> k(1)
        [] n.kind = "WRTbl" -> IF Len(n.kids) = 4 THEN Reunion(k(2), k(4)) ELSE k(2)
        [] IsButton(n.kind) -> Interval(0, 1, TRUE)
        \* The step of a slider is positive and no integer's.
        [] n.kind = "Slider" -> Interval(k(2).lo, k(3).hi, FALSE)
        [] n.kind = "Bargraph" -> k(3)
        [] n.kind = "Proj" -> assumed[n.kids[1]][n.value]
        [] n.kind = "Rec" -> Top  \* set after the sweep; nothing in the sweep reads it
        [] n.kind = "Extended" ->
             CASE n.form = "Abs" -> AbsI(k(1))
               [] n.form = "Min" -> MinI(k(1), k(2))
               [] n.form = "Max" -> MaxI(k(1), k(2))
               [] n.form = "AssertBounds" -> Interval(Max({k(3).lo, k(1).lo}), Min({k(3).hi, k(2).lo}), FALSE)
               [] n.form = "Lowest" -> Interval(k(1).lo, k(1).lo, FALSE)
               [] n.form = "Highest" -> Interval(k(1).hi, k(1).hi, FALSE)

Swept(g, assumed) ==
  FoldLeft(LAMBDA iv, id : Append(iv, IntervalOf(g, assumed, iv, id)), <<>>, Ids(g))

Widened(was, now) ==
  LET merged == Reunion(now, was)
  IN  Interval(IF merged.lo # was.lo THEN -Huge ELSE merged.lo,
               IF merged.hi # was.hi THEN Huge ELSE merged.hi, merged.whole)

RECURSIVE Settled(_, _)
Settled(g, assumed) ==
  LET iv == Swept(g, assumed)
      next == [r \in DOMAIN assumed |->
                 [j \in DOMAIN assumed[r] |-> Widened(assumed[r][j], iv[Kid(g, r, j)])]]
  IN  IF \A r \in DOMAIN assumed : \A j \in DOMAIN assumed[r] : SameBounds(next[r][j], assumed[r][j])
      THEN iv ELSE Settled(g, next)

InferIntervals(g) == Settled(g, [r \in Groups(g) |-> [j \in DOMAIN g[r].kids |-> Zero]])

(***************************************************************************)
(* Histories.                                                              *)
(***************************************************************************)

\* How far back node p reads its i-th child at most.
EdgeDelay(g, iv, p, i) ==
  CASE Kind(g, p) = "Delay" -> IF i = 1 THEN iv[Kid(g, p, 2)].hi ELSE 0
    [] Kind(g, p) = "Delay1" -> 1
    [] Kind(g, p) = "Prefix" -> IF i = 2 THEN 1 ELSE 0
    [] OTHER -> 0

\* The walk of MaxDelays stops at generators: they have delays of their own.
Walked(g, roots) == Closure(roots, LAMBDA id : IF Kind(g, id) = "Gen" THEN {} ELSE Kids(g, id))
Edges(g, roots) == {<<p, i>> \in (Walked(g, roots) \X (1..4)) : Kind(g, p) # "Gen" /\ i <= Len(g[p].kids)}

DelaysBounded(g, iv, roots) ==
  \A p \in Walked(g, roots) :
    Kind(g, p) = "Delay" => LET n == iv[Kid(g, p, 2)] IN n.lo >= 0 /\ n.hi < MaxInt

MaxDelays(g, iv, roots) ==
  [id \in DOMAIN g |-> Max({0} \cup {EdgeDelay(g, iv, e[1], e[2]) :
                                       e \in {d \in Edges(g, roots) : Kid(g, d[1], d[2]) = id}})]

Pow2Limit(x) == Min({n \in {2 ^ k : k \in 1..IntBits} : n >= x})

NoLine == [extent |-> 0, ring |-> FALSE, max |-> 0]
\* Mutant: no room for the current sample.
LineForPast(g, id, max) ==
  IF max <= 0 THEN NoLine
  ELSE [extent |-> IF max >= MaxCopyDelay THEN Pow2Limit(max) ELSE max, ring |-> max >= MaxCopyDelay, max |-> max]

LineFor(g, id, max) ==
  IF max <= 0 \/ (Kind(g, id) = "Prefix" /\ max = 1) THEN NoLine
  ELSE [extent |-> IF max >= MaxCopyDelay THEN Pow2Limit(max + 1) ELSE max + 1,
        ring |-> max >= MaxCopyDelay, max |-> max]

(***************************************************************************)
(* Conditions: a set of clauses, each a set of nodes that must all be true.*)
(* The code's empty disjunction, true, is Always; a node no output reaches *)
(* outside generators has none.                                            *)
(***************************************************************************)

Always == {{}}
Minimal(clauses) == {c \in clauses : ~\E d \in clauses : d \subseteq c /\ d # c}
Or(x, y) == Minimal(x \cup y)
And(x, y) == Minimal({c[1] \cup c[2] : c \in x \X y})

\* The condition under which p asks for its i-th child: a Control's value is
\* asked for when its condition is true as well.
Asked(g, conds, p, i) ==
  IF Kind(g, p) = "Control" /\ i = 1 THEN And(conds[p], {{Kid(g, p, 2)}}) ELSE conds[p]

CondFrom(g, conds, p, i, id) == Or(conds[id], Asked(g, conds, p, i))

AnnotateFrom(g, conds, p) ==
  IF Kind(g, p) = "Gen" \/ conds[p] = {} THEN conds
  ELSE FoldLeft(LAMBDA c, i : [c EXCEPT ![Kid(g, p, i)] = CondFrom(g, c, p, i, Kid(g, p, i))],
                conds, [i \in DOMAIN g[p].kids |-> i])

\* Every node passes its condition on until no condition gets weaker.
RECURSIVE Annotated(_, _)
Annotated(g, conds) ==
  LET next == FoldLeft(LAMBDA c, p : AnnotateFrom(g, c, p), conds, Reverse(Ids(g)))
  IN  IF next = conds THEN conds ELSE Annotated(g, next)

Annotate(g, roots) == Annotated(g, [id \in DOMAIN g |-> IF id \in roots THEN Always ELSE {}])

\* Projections the outputs depend on, generators included, by group and branch.
Reached(g, roots) ==
  Closure(roots, LAMBDA id : IF Kind(g, id) = "Proj" THEN {Kid(g, Kid(g, id, 1), g[id].value)} ELSE Kids(g, id))
ProjAt(g, roots) ==
  LET projs == {id \in Reached(g, roots) : Kind(g, id) = "Proj"}
  IN  [b \in {<<Kid(g, p, 1), g[p].value>> : p \in projs} |->
         CHOOSE p \in projs : <<Kid(g, p, 1), g[p].value>> = b]

\* What Lowering::Run knows before it emits anything.
AnalysisWith(g, roots, var, conds, iv) ==
  [graph |-> g, nature |-> InferNatures(g), band |-> var, iv |-> iv,
   bounded |-> DelaysBounded(g, iv, roots),
   maxd |-> MaxDelays(g, iv, roots),
   guard |-> [id \in DOMAIN g |-> IF var[id] = SampleBand /\ conds[id] # {} THEN conds[id] ELSE Always],
   projAt |-> ProjAt(g, roots)]
Analysis(g, roots) == AnalysisWith(g, roots, InferVariability(g), Annotate(g, roots), InferIntervals(g))
=============================================================================
