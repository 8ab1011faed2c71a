------------------------------- MODULE Circuits -------------------------------
(***************************************************************************)
(* A circuit on its way to a typed signal graph: Graph's constructor and   *)
(* Normalize.  A box is propagated, and its signals promoted, simplified   *)
(* and promoted again, since what is simplified may need other casts.      *)
(*                                                                         *)
(* What is in the way of a program's tests is what they do not hear: two   *)
(* boxes may meet in one signal, a pass may give a signal a value it had   *)
(* not, and both may only show in a frame no test plays.                   *)
(***************************************************************************)
EXTENDS NormalForm, Streams

(***************************************************************************)
(* Promote.cpp: which signals are integers and which are real, and the     *)
(* casts a typed program needs.                                            *)
(***************************************************************************)

Join(natures) == IF "Real" \in natures THEN "Real" ELSE "Int"
KeepsNature(form) == form \in {"Abs", "Min", "Max", "Pow"}

\* The nature of a signal, given that of the branches of every group.
RECURSIVE NatureIn(_, _)
NatureIn(nat, t) ==
  LET kid(i) == NatureIn(nat, t.kids[i])
      kids(is) == Join({kid(i) : i \in is})
  IN  CASE t.kind \in {"Int", "IntCast", "Rec", "Waveform"} -> "Int"
        [] t.kind \in {"Real", "Input", "FloatCast", "Button", "Checkbox", "Slider", "Bargraph", "Error"} -> "Real"
        [] t.kind = "BinOp" /\ (IsComparison(t.form) \/ IsBitwise(t.form)) -> "Int"
        [] t.kind = "BinOp" /\ t.form = "Div" -> "Real"
        [] t.kind = "BinOp" /\ ~(IsComparison(t.form) \/ IsBitwise(t.form) \/ t.form = "Div") -> kids({1, 2})
        [] t.kind \in {"Delay1", "Delay", "Attach", "Control", "Gen", "RDTbl"} -> kid(1)
        [] t.kind = "Prefix" -> kids({1, 2})
        [] t.kind = "Select2" -> kids({2, 3})
        [] t.kind = "WRTbl" -> kid(2)
        [] t.kind = "Extended" -> IF KeepsNature(t.form) THEN kids(DOMAIN t.kids) ELSE "Real"
        [] t.kind = "Proj" -> LET branches == nat[Kid(t, 1).value[1]]
                              IN  IF t.value[1] \in DOMAIN branches THEN branches[t.value[1]] ELSE "Int"

\* Natures of the branches, from integers upwards until nothing changes.
InferNatures(groups) ==
  LET RECURSIVE Sweep(_)
      Sweep(nat) ==
        LET next == [g \in DOMAIN groups |-> [i \in DOMAIN groups[g].branches |-> NatureIn(nat, groups[g].branches[i])]]
        IN  IF next = nat THEN nat ELSE Sweep(next)
  IN  Sweep([g \in DOMAIN groups |-> [i \in DOMAIN groups[g].branches |-> "Int"]])

\* Mutant: the operands of a comparison stay as they are.
PromotedBinOpExceptComparisons(op, natures, toInt, toFloat, kids) ==
  CASE IsBitwise(op) -> MakeBin(op, toInt[1], toInt[2])
    [] op = "Div" -> MakeBin(op, toFloat[1], toFloat[2])
    [] op = "Rem" /\ natures # {"Int"} -> Extended("Fmod", toFloat)
    [] natures = {"Int", "Real"} /\ op # "Rem" /\ ~IsComparison(op) -> MakeBin(op, toFloat[1], toFloat[2])
    [] OTHER -> MakeBin(op, kids[1], kids[2])

PromotedBinOp(op, natures, toInt, toFloat, kids) ==
  CASE IsBitwise(op) -> MakeBin(op, toInt[1], toInt[2])
    [] op = "Div" -> MakeBin(op, toFloat[1], toFloat[2])
    [] op = "Rem" /\ natures # {"Int"} -> Extended("Fmod", toFloat)
    [] natures = {"Int", "Real"} /\ op # "Rem" -> MakeBin(op, toFloat[1], toFloat[2])
    [] OTHER -> MakeBin(op, kids[1], kids[2])

\* A node with its promoted children; natures are those the children had.
PromoteNode(nat, t, p) ==
  LET natureOf(i) == NatureIn(nat, t.kids[i])
      natures == {natureOf(i) : i \in DOMAIN t.kids}
      toFloat(i) == IF natureOf(i) = "Real" THEN p[i] ELSE SimpFloatCast(p[i])
      toInt(i) == IF natureOf(i) = "Int" THEN p[i] ELSE SimpIntCast(p[i])
      with(casts) == Rebuilt(t, [i \in DOMAIN p |-> IF i \in DOMAIN casts THEN casts[i] ELSE p[i]])
  IN  CASE t.kind = "BinOp" ->
             PromotedBinOp(t.form, natures, [i \in 1..2 |-> toInt(i)], [i \in 1..2 |-> toFloat(i)], p)
        [] t.kind \in {"Delay", "RDTbl"} -> with(2 :> toInt(2))
        [] t.kind = "Prefix" /\ natures = {"Int", "Real"} -> with([i \in 1..2 |-> toFloat(i)])
        [] t.kind = "Select2" ->
             IF natureOf(2) = natureOf(3) THEN with(1 :> toInt(1))
             ELSE with((1 :> toInt(1)) @@ [i \in {2, 3} |-> toFloat(i)])
        [] t.kind = "IntCast" -> toInt(1)
        [] t.kind = "FloatCast" -> toFloat(1)
        [] t.kind = "WRTbl" /\ Len(p) = 4 ->
             with((3 :> toInt(3))
                    @@ (4 :> CASE natureOf(2) = natureOf(4) -> p[4]
                               [] natureOf(2) = "Real" /\ natureOf(4) = "Int" -> SimpFloatCast(p[4])
                               [] OTHER -> SimpIntCast(p[4])))
        [] t.kind = "Bargraph" -> with(3 :> toFloat(3))
        [] t.kind = "Extended" ->
             with([i \in DOMAIN p |-> IF KeepsNature(t.form) /\ natures = {"Int"} THEN toInt(i) ELSE toFloat(i)])
        [] OTHER -> Rebuilt(t, p)

Promoted(groups, roots) ==
  LET nat == InferNatures(groups) IN Rewrite(groups, roots, LAMBDA t, kids : PromoteNode(nat, t, kids))

(***************************************************************************)
(* The state.                                                              *)
(***************************************************************************)

CONSTANTS
  Families, \* the circuits, in sets of one kind
  Stimuli   \* what is played to them: [in, shown], streams of the inputs and of the controls

VARIABLES
  box,      \* the circuit
  stage,    \* how far it is
  groups,   \* the recursive groups of its signals
  roots,    \* the signals of its outputs
  ui        \* the widgets met in propagation, in order

vars == <<box, stage, groups, roots, ui>>

(***************************************************************************)
(* The compilation.                                                        *)
(***************************************************************************)

Init ==
  /\ \E family \in Families : box \in family
  /\ stage = "box" /\ groups = <<>> /\ roots = <<>> /\ ui = <<>>

\* No graph is made of a box that is an error or whose arity is not known.
Ok == box # Error /\ ArityOf(box).known

Refuse ==
  /\ stage = "box" /\ ~Ok
  /\ stage' = "refused"
  /\ UNCHANGED <<box, groups, roots, ui>>

Propagated(p) == groups' = p.groups /\ roots' = p.r /\ ui' = p.ui
PropagateBox ==
  /\ stage = "box" /\ Ok
  /\ Propagated(Run(box))
  /\ stage' = "propagated"
  /\ UNCHANGED box

Pass(from, to, rewritten) ==
  /\ stage = from /\ stage' = to
  /\ groups' = rewritten.groups /\ roots' = rewritten.r
  /\ UNCHANGED <<box, ui>>

PromoteSignals   == Pass("propagated", "promoted", Promoted(groups, roots))
SimplifySignals  == Pass("promoted", "simplified", Simplified(groups, roots))
PromoteAgain     == Pass("simplified", "ready", Promoted(groups, roots))

Next == Refuse \/ PropagateBox \/ PromoteSignals \/ SimplifySignals \/ PromoteAgain

Spec == Init /\ [][Next]_vars

(***************************************************************************)
(* The user interface (Ui.cpp).                                            *)
(***************************************************************************)

\* All signals of the roots.
Reachable ==
  LET kids(ts) == UNION {ToSet(t.kids) \cup (IF t.kind = "Rec" THEN ToSet(groups[t.value[1]].branches) ELSE {}) : t \in ts}
      RECURSIVE Closure(_)
      Closure(ts) == LET more == ts \cup kids(ts) IN IF more = ts THEN ts ELSE Closure(more)
  IN  Closure(ToSet(roots))

IsControl(t) == t.kind \in {"Button", "Checkbox", "Slider"}
Widgets == {t \in Reachable : IsControl(t) \/ t.kind = "Bargraph"}
Paths == {t.value : t \in Widgets}

FirstAt(path) == ui[Min({i \in DOMAIN ui : ui[i].path = path})]

\* Mutant: what simplification removed is listed too.
UiTreeUncounted == {FirstAt(ui[i].path) : i \in DOMAIN ui}

\* For every path a widget is left at, the first that was met there.
UiTree == {FirstAt(path) : path \in Paths \cap {ui[i].path : i \in DOMAIN ui}}

\* A path of two widgets is an error, unless they only show something.
PathConflict == \E t, u \in Widgets : t # u /\ t.value = u.value /\ (IsControl(t) \/ IsControl(u))

(***************************************************************************)
(* Properties.                                                             *)
(***************************************************************************)

HeardOf(stimulus) == Heard(box, [slots |-> <<>>, path |-> <<>>, shown |-> stimulus.shown], stimulus.in)
Played(stimulus) == SoundsOf(groups, roots, stimulus.shown, stimulus.in)
InputsFit(stimulus) == ArityOf(box).ins <= Len(stimulus.in)
Given(stimulus) == [stimulus EXCEPT !.in = SubSeq(@, 1, ArityOf(box).ins)]
Fitting == {Given(s) : s \in {s \in Stimuli : InputsFit(s)}}

MeansTheBox == \A s \in Fitting : SameWhereDefined(HeardOf(s), Played(s))

\* The signals of a box are, in number and in every frame of every stimulus,
\* what the box denotes: whatever was found in the memo, bound to a slot,
\* shared between groups or fed back (Propagate.cpp).
PropagationMeans == stage = "propagated" => MeansTheBox

\* And so they are after every pass, where what the box denotes is defined,
\* and of the same nature or an integer: not a rule of Simplify, nor the
\* normal form's cancelling and factoring, nor a cast, nor groups that have
\* become one changes what is heard.
PassesKeepMeaning == stage \in {"promoted", "simplified", "ready"} => MeansTheBox

\* In the finished graph operators see operands of one nature, and casts,
\* indices and gates what the plan's instructions take, by the natures of
\* the graph as simplification left it (Promote.cpp; Plan.cpp relies on it).
Natural(nat, t) ==
  LET nature(i) == NatureIn(nat, Kid(t, i))
      natures == {nature(i) : i \in DOMAIN t.kids}
  IN  CASE t.kind = "BinOp" ->
             IF IsBitwise(t.form) \/ t.form = "Rem" THEN natures = {"Int"}
             ELSE IF t.form = "Div" THEN natures = {"Real"} ELSE Cardinality(natures) = 1
        [] t.kind \in {"Delay", "RDTbl"} -> nature(2) = "Int"
        [] t.kind = "Prefix" -> nature(1) = nature(2)
        [] t.kind = "Select2" -> nature(1) = "Int" /\ nature(2) = nature(3)
        [] t.kind = "IntCast" -> natures = {"Real"}
        [] t.kind = "FloatCast" -> natures = {"Int"}
        [] t.kind = "WRTbl" -> Len(t.kids) = 4 => nature(3) = "Int" /\ nature(4) = nature(2)
        [] t.kind = "Bargraph" -> nature(3) = "Real"
        [] t.kind = "Extended" -> IF KeepsNature(t.form) THEN Cardinality(natures) = 1 ELSE natures = {"Real"}
        [] OTHER -> TRUE
WellPromoted ==
  stage = "ready" => LET nat == InferNatures(groups) IN \A t \in Reachable : Natural(nat, t)

\* Unless their paths conflict, the user interface shows the widgets that
\* are left in the graph, each at the path the program reads it from.
WidgetsListed ==
  stage = "ready" /\ ~PathConflict => UiTree = {[kind |-> t.kind, path |-> t.value] : t \in Widgets}
=============================================================================
