-------------------------------- MODULE Evaluate ------------------------------
(***************************************************************************)
(* From a program's terms to a box: Eval.cpp and Apply.cpp.                *)
(*                                                                         *)
(* The evaluator is a record, and evaluation a function of it: tables,     *)
(* slots in use, depth, the diagnostics raised, every box that was folded  *)
(* with its number, and what the last call returned.                       *)
(***************************************************************************)
EXTENDS Environments

CONSTANTS
  MaxEvalDepth, \* the bound on nested evaluations
  Sources       \* the statements of the files components and libraries name

Wire == Leaf("Wire", "")
SlotBox(n) == Node("Slot", "", <<n>>, <<>>)
InFlight == Leaf("InFlight", "")

(***************************************************************************)
(* The evaluator.                                                          *)
(***************************************************************************)

Evaluator ==
  [keeps |-> TRUE, memo |-> <<>>, pm |-> <<>>, symbolic |-> <<>>, symbolicEnvs |-> <<>>,
   slots |-> 0, depth |-> 0, codes |-> {}, folds |-> {}, r |-> Error]
\* One that looks nothing up, the reference for the tables.
Forgetful == [Evaluator EXCEPT !.keeps = FALSE]
ClearMemo(ev) == [ev EXCEPT !.memo = <<>>, !.pm = <<>>, !.symbolic = <<>>, !.symbolicEnvs = <<>>]

Gives(ev, box) == [ev EXCEPT !.r = box]
Warns(ev, code) == [ev EXCEPT !.codes = @ \cup {code}]
Fails(ev, code) == Gives(Warns(ev, code), Error)
NewSlot(ev) == [ev EXCEPT !.slots = @ + 1, !.r = SlotBox(ev.slots + 1)]

\* Mutant: what a name means is remembered wherever it stands.
KeyOfTerm(t, env) == <<t, Nil>>

Key(t, env) == <<t, env>>
Known(ev, key) == key \in DOMAIN ev.memo

(***************************************************************************)
(* Evaluation calls itself through Do: a term in an environment, the same  *)
(* as a pattern, as a circuit, as a number, a box made symbolic or folded, *)
(* boxes composed, a function applied.                                     *)
(***************************************************************************)

RECURSIVE Do(_, _)
Eval(ev, t, env) == Do(ev, <<"eval", t, env>>)
EvalIn(ev, t, env, pattern) == Do(ev, <<IF pattern THEN "pattern" ELSE "eval", t, env>>)
EvalAs(ev, t, env, pattern) == Do(ev, <<"real", t, env, pattern>>)
EvalSymbolic(ev, t, env, pattern) == Do(ev, <<"circuit", t, env, pattern>>)
EvalNumber(ev, t, env) == Do(ev, <<"number", t, env>>)
EvalLabel(ev, t, env) == Do(ev, <<"label", t, env>>)
ToSymbolic(ev, box) == Do(ev, <<"symbolic", box>>)
Apply(ev, fun, args) == Do(ev, <<"apply", fun, args>>)
ComposeBoxes(ev, kind, a, b, fold) == Do(ev, <<"compose", kind, a, b, fold>>)
Folds(ev, box) == Do(ev, <<"fold", box>>)
Simplifies(ev, box) == Do(ev, <<"simplify", box>>)

\* What is done after an evaluation.
After(v, Next(_)) == Next(v)
\* One after the other; what each returned.
InTurn(ev, items, Call(_, _)) ==
  FoldLeft(LAMBDA v, item : LET u == Call(v, item) IN [u EXCEPT !.r = Append(v.r, u.r)], [ev EXCEPT !.r = <<>>], items)
SymbolicAll(ev, boxes) == InTurn(ev, boxes, ToSymbolic)

(***************************************************************************)
(* Composition.                                                            *)
(***************************************************************************)

Composable(kind, a, b) == ~ArityOf(a).known \/ ~ArityOf(b).known \/ Compose(kind, ArityOf(a), ArityOf(b)).known

RECURSIVE NumericTuple(_)
NumericTuple(box) ==
  IF box.kind = "Par" THEN NumericTuple(Kid(box, 1)) /\ NumericTuple(Kid(box, 2)) ELSE IsNum(box)

\* Numbers sent through a wire or a primitive of one or two inputs become a number.
Foldable(a, b) ==
  NumericTuple(a) /\ (b.kind = "Wire" \/ (b.kind = "Prim" /\ PrimArity(b.form) \in {1, 2}))

MaybeFolds(ev, box, fold) == IF fold THEN Folds(ev, box) ELSE Gives(ev, box)
Composition(ev, kind, a, b, fold) ==
  CASE Error \in {a, b} -> Gives(ev, Error)
    [] Error \notin {a, b} /\ ~Composable(kind, a, b) -> Fails(ev, "EvalArityMismatch")
    [] OTHER -> MaybeFolds(ev, MakeBox(kind, a, b), kind = "Seq" /\ fold /\ Foldable(a, b))

Composed(ev, kind, a, b) == ComposeBoxes(ev, kind, a, b, TRUE)
\* Two boxes side by side, sent through a primitive.
Operate(ev, a, b, prim, fold) ==
  After(Composed(ev, "Par", a, b), LAMBDA pair : ComposeBoxes(pair, "Seq", pair.r, Prim(prim), fold))

Defining(ev, stmts) ==
  LET defs == Definitions(stmts)
  IN  [ev EXCEPT !.codes = @ \cup UNION {DefinitionCodes(ClausesOf(defs, n)) : n \in ToSet(DefinedNames(defs))}]

FileEnv(name, stmts) == Push(Nil, BindingsFromDefs(stmts, "Definition", Nil), FALSE, name)
\* The environment of the file a name leads to from here.
Target(env, spec) == IF ResolutionOf(env) = "" \/ spec \notin DOMAIN Sources THEN Nil ELSE FileEnv(spec, Sources[spec])

(***************************************************************************)
(* Names, numbers, labels.                                                 *)
(***************************************************************************)

\* Functions are not evaluated before they are applied.
EvalBinding(ev, b, layer) ==
  LET env == IF b.kind = "Definition" THEN layer ELSE b.env
  IN  CASE b.kind = "Value" -> Gives(ev, b.id)
        [] b.kind = "Term" -> Eval(ev, b.id, Nil)
        [] OTHER -> IF b.id.kind = "Lambda" THEN Gives(ev, ClosureOf(b.id, env)) ELSE Eval(ev, b.id, env)

EvalIdent(ev, name, env) ==
  LET i == LayerOf(env, name)
  IN  IF i = 0 THEN Fails(ev, "EvalUnboundName")
      ELSE EvalBinding(ev, LookupLocal(env[i], name), SubSeq(env, i, Len(env)))

\* A number for the box, if it is one.
Folding(ev, box) ==
  After(FoldConstant(box), LAMBDA v : IF v = Nothing THEN Gives(ev, box) ELSE [ev EXCEPT !.folds = @ \cup {<<box, v[1]>>}, !.r = v[1]])

\* The number of a closed term with one output, if it has one.
IfNumber(v) == IF IsNum(v.r) THEN Gives(v, Some(v.r)) ELSE Gives(Warns(v, "EvalNonConstantIterationCount"), Nothing)
NumberOf(v) ==
  CASE v.r = Error -> Gives(v, Nothing)
    [] v.r # Error /\ ArityOf(v.r) # Arity(0, 1) -> Gives(Warns(v, "EvalArityMismatch"), Nothing)
    [] OTHER -> IfNumber(Folds(v, v.r))

\* A variable in a label is written out; 0 where it is no number.
Numbered(path, n) == Append(Front(path), Last(path) \o ToString(n))
LabelOf(ev, t, env) ==
  LET v == EvalNumber(ev, Ident(t.form), env)
  IN  IF t.form = "" THEN Gives(ev, t.value)
      ELSE Gives(v, Numbered(t.value, IF v.r = Nothing THEN 0 ELSE IntegerOf(v.r[1])))

(***************************************************************************)
(* Application.                                                            *)
(***************************************************************************)

SpecialInfix(prim) ==
  prim \in {"Add", "Sub", "Mul", "Div", "Rem", "FDelay", "Attach", "Enable", "Control", "Pow"} \/ IsBitwise(prim) \/ IsComparison(prim)

SideBySide(ev, boxes) ==
  FoldLeft(LAMBDA v, x : Composed(v, "Par", x, v.r), Gives(ev, Last(boxes)), Reverse(Front(boxes)))
SendTo(ev, boxes, fun) == After(SideBySide(ev, boxes), LAMBDA l : Composed(l, "Seq", l.r, fun))

\* One argument of an infix operator is its second.
Wired(fun, args, outs, wires) ==
  IF outs = 1 /\ fun.kind = "Prim" /\ SpecialInfix(fun.form) THEN wires \o args ELSE args \o wires

\* A circuit is applied by composition, missing arguments are inputs.
OutputCount(args) == FoldLeft(LAMBDA n, arity : n + (IF arity.known THEN arity.outs ELSE 1), 0, [i \in DOMAIN args |-> ArityOf(args[i])])
Wires(n) == [i \in 1..n |-> Wire]
SendArguments(ev, fun, args, ins, outs) ==
  IF outs > ins THEN Fails(ev, "EvalArityMismatch") ELSE SendTo(ev, Wired(fun, args, outs, Wires(ins - outs)), fun)
ApplyTo(ev, fun, args, arity) ==
  IF ~arity.known THEN SendTo(ev, args, fun)
  ELSE After(SymbolicAll(ev, args), LAMBDA all : SendArguments(all, fun, args, arity.ins, OutputCount(all.r)))
ApplyCircuit(ev, fun, args) == After(ToSymbolic(ev, fun), LAMBDA s : ApplyTo(s, fun, args, ArityOf(s.r)))

\* A parameter is bound to its argument, to a number where it is one.
ApplyLambda(ev, lambda, env, args) ==
  LET Called(v) == Eval(v, Body(lambda), PushValue(env, Kid(lambda, 1).form, "Value", v.r))
  IN  After(Called(Folds(ev, args[1])), LAMBDA v : Apply(v, v.r, Tail(args)))

\* One argument for all the rules that fit so far; the first that fits them
\* all is the one.
MatchWith(ev, state, args, met, live) ==
  LET first == SelectInSeq(live, LAMBDA l : l)
  IN  CASE first = 0 -> Fails(ev, "EvalNoMatchingRule")
        [] first # 0 /\ Len(args) = Len(state.patterns[1]) -> Eval(ev, Body(Kid(state.rules, first)), Matched(state, met)[first])
        [] OTHER -> Gives(ev, Matcher(state.rules, state.patterns, Matched(state, met), live, args))
MatchArgument(ev, pm, given) ==
  LET state == pm.value[1]
      n == Len(pm.kids) + 1
      arg == IF AsksNumber(state, n) THEN Simplifies(ev, given).r ELSE given
      Match(args) == After(MatchRules(state, n, Last(args)), LAMBDA met : MatchWith(ev, state, args, met, Live(state, met)))
  IN  Match(Append(pm.kids, arg))

ApplyBox(ev, fun, args) ==
  LET f == Captured(fun)
      matched == MatchArgument(ev, fun, args[1])
      called == Eval(ev, f.term, f.env)
  IN  CASE args = <<>> -> Gives(ev, fun)
        [] args # <<>> /\ Error \in {fun} \cup ToSet(args) -> Gives(ev, Error)
        [] OTHER ->
             CASE fun.kind = "PatternMatcher" -> Apply(matched, matched.r, Tail(args))
               [] fun.kind \notin {"PatternMatcher", "Closure"} -> ApplyCircuit(ev, fun, args)
               [] fun.kind = "Closure" /\ f.term.kind = "Ident" -> Apply(called, called.r, args)
               [] fun.kind = "Closure" /\ f.term.kind = "Lambda" -> ApplyLambda(ev, f.term, f.env, args)
               [] OTHER -> Fails(ev, "EvalNotApplicable")

(***************************************************************************)
(* Patterns.                                                               *)
(***************************************************************************)

CaseKey(t, env) == <<t, env>>

\* The patterns are evaluated once; a match has variables of its own.
EvalCase(ev, t, env) ==
  LET key == CaseKey(t, env)
      base == PushBarrier(env)
      Pattern(v, p) == After(EvalIn(v, p, env, TRUE), LAMBDA u : Simplifies(u, u.r))
      all == InTurn(ev, t.kids, LAMBDA v, rule : InTurn(v, Params(rule), Pattern))
      pm == Matcher(t, all.r, [r \in DOMAIN t.kids |-> base], [r \in DOMAIN t.kids |-> TRUE], <<>>)
  IN  CASE key \in DOMAIN ev.pm -> Gives(ev, ev.pm[key])
        [] key \notin DOMAIN ev.pm /\ ev.keeps -> [all EXCEPT !.pm = (key :> pm) @@ @, !.r = pm]
        [] OTHER -> Gives(all, pm)

\* Identifiers are variables, but for what is applied.
EvalInPattern(ev, t, env) ==
  LET Pat(v, c) == EvalIn(v, c, env, TRUE)
      fun == IF Kid(t, 1).kind = "Ident" THEN Eval(ev, Kid(t, 1), env) ELSE Pat(ev, Kid(t, 1))
      args == InTurn(fun, Tail(t.kids), Pat)
      parts == InTurn(ev, t.kids, Pat)
  IN  CASE t.kind = "Ident" -> Gives(ev, Leaf("PatternVar", t.form))
        [] t.kind = "Apply" -> Apply(args, fun.r, args.r)
        [] t.kind = "NegIdent" -> Operate(ev, MakeInt(0), Leaf("PatternVar", t.form), "Sub", TRUE)
        [] t.kind = "Route" ->
             Gives(parts, Make("Route", "", <<>>, IF Len(t.kids) > 2 THEN parts.r ELSE Append(parts.r, MakeInt(0))))
        [] t.kind \in {"ModifLocalDef", "Modulation"} -> Fails(ev, "EvalInvalidPattern")
        [] t.kind \in {"Seq", "Par", "Split", "Merge", "RecComp", "BinOp", "Delay1", "With", "LetRec",
                       "Iterate", "Inputs", "Outputs", "Group"} -> EvalAs(ev, t, env, TRUE)
        [] OTHER -> Eval(ev, t, env)

(***************************************************************************)
(* Iteration.                                                              *)
(***************************************************************************)

RouteBox(ins, outs, pairs) ==
  Node("Route", "", <<ins, outs>> \o pairs,
       <<MakeInt(ins), MakeInt(outs), Tuple([i \in DOMAIN pairs |-> MakeInt(pairs[i])])>>)
Empty == RouteBox(0, 0, <<0, 0>>)

\* As many wires as the body has outputs, which are as many as its inputs.
IterateNone(ev, arity) ==
  CASE ~arity.known \/ arity.ins # arity.outs -> Fails(ev, "EvalArityMismatch")
    [] arity = Arity(0, 0) -> Gives(ev, Empty)
    [] OTHER -> Gives(ev, LeftTuple([i \in 1..arity.outs |-> Wire]))

FollowingTerms(n) == [i \in 1..(n - 1) |-> i]

\* Sums are chained from the first on, others from the last.
Iterate(ev, t, n, env, pattern) ==
  LET At(v, i) == EvalIn(v, Kid(t, 2), PushValue(env, t.value[1], "Term", MakeInt(i)), pattern)
      Added(v, i) == After(At(v, i), LAMBDA x : Operate(x, v.r, x.r, IF t.form = "Sum" THEN "Add" ELSE "Mul", FALSE))
      Before(v, i) == After(At(v, i), LAMBDA x : ComposeBoxes(x, t.form, x.r, v.r, FALSE))
      NoneOf(probe) == IF probe.r = Error THEN probe ELSE IterateNone(probe, ArityOf(probe.r))
  IN  CASE n = 0 /\ t.form # "Seq" -> Gives(ev, Empty)
        [] n = 0 /\ t.form = "Seq" -> After(At(ev, 0), LAMBDA v : NoneOf(ToSymbolic(v, v.r)))
        [] n # 0 /\ t.form \in {"Sum", "Prod"} -> FoldLeft(Added, At(ev, 0), FollowingTerms(n))
        [] OTHER -> FoldLeft(Before, At(ev, n - 1), [k \in 1..(n - 1) |-> n - 1 - k])

(***************************************************************************)
(* Modulation.                                                             *)
(***************************************************************************)

\* The body with its widgets replaced; an input that is left is one of the
\* result.
ModulateWith(ev, path, slot, ins, circuit) ==
  LET warned == IF HasTarget(ev.r, path) THEN ev ELSE Warns(ev, "EvalNoModulationTarget")
      Result(box) == IF ins = 2 THEN Make("Symbolic", "", <<>>, <<slot, box>>) ELSE box
  IN  IF ev.r = Error THEN ev ELSE Gives(warned, Result(Implant(ev.r, path, slot, ins, circuit)))

\* By multiplication where no circuit is named.
Modulate(ev, modulator, body, env) ==
  LET Circuit(label) == IF modulator.kids = <<>> THEN Gives(label, Prim("Mul")) ELSE EvalSymbolic(label, Kid(modulator, 1), env, FALSE)
      Slotted(v, arity) == IF arity.ins = 2 THEN NewSlot(v) ELSE v
      Within(slot, path, arity, circuit) == ModulateWith(EvalSymbolic(slot, body, env, FALSE), path, slot.r, arity.ins, circuit)
      By(named, path, arity) ==
        CASE named.r = Error -> named
          [] named.r # Error /\ (~arity.known \/ arity.ins > 2 \/ arity.outs # 1) -> Fails(named, "EvalBadModulationCircuit")
          [] OTHER -> Within(Slotted(named, arity), path, arity, named.r)
  IN  After(EvalLabel(ev, modulator, env), LAMBDA label : After(Circuit(label), LAMBDA v : By(v, LabelPath(label.r), ArityOf(v.r))))

(***************************************************************************)
(* Functions as circuits.                                                  *)
(***************************************************************************)

SlotKey(lambda, env) == <<lambda, env>>

\* The environment in which a parameter is a slot.
SymbolicEnvironment(ev, lambda, env) ==
  LET key == SlotKey(lambda, env)
      slot == NewSlot(ev)
      inner == PushValue(env, Kid(lambda, 1).form, "Value", slot.r)
  IN  CASE key \in DOMAIN ev.symbolicEnvs -> Gives(ev, ev.symbolicEnvs[key])
        [] key \notin DOMAIN ev.symbolicEnvs /\ ev.keeps -> [slot EXCEPT !.symbolicEnvs = (key :> inner) @@ @, !.r = inner]
        [] OTHER -> Gives(slot, inner)

SymbolicLambda(ev, lambda, env) ==
  LET Slot(inner) == LookupLocal(inner[1], Kid(lambda, 1).form).id
      Symbolic(v, inner) == Gives(v, Make("Symbolic", "", <<>>, <<Slot(inner), v.r>>))
  IN  After(SymbolicEnvironment(ev, lambda, env), LAMBDA v : Symbolic(EvalSymbolic(v, Body(lambda), v.r, FALSE), v.r))

SymbolicMatcher(ev, pm) ==
  LET Inner(v) == ToSymbolic(v, v.r)
      Symbolic(slot, v) == Gives(v, Make("Symbolic", "", <<>>, <<slot, v.r>>))
  IN  After(NewSlot(ev), LAMBDA v : Symbolic(v.r, Inner(Apply(v, pm, <<v.r>>))))

\* Arities may only show now that there are no functions left.
Reassembled(ev, box, whole) ==
  CASE ev.r = box.kids -> Gives(ev, box)
    [] ev.r # box.kids /\ whole = Error -> Fails(ev, "EvalArityMismatch")
    [] OTHER -> Gives(ev, whole)
SymbolicParts(ev, box) == After(SymbolicAll(ev, box.kids), LAMBDA parts : Reassembled(parts, box, RebuiltBox(box, parts.r)))

Symbolically(ev, box) ==
  LET f == Captured(box)
      closure == box.kind = "Closure"
  IN  CASE closure /\ box.form = "Env" -> Gives(ev, Leaf("Environment", ""))
        [] closure /\ box.form = "Term" /\ f.term.kind = "Lambda" -> SymbolicLambda(ev, f.term, f.env)
        [] closure /\ box.form = "Term" /\ f.term.kind = "Ident" -> EvalSymbolic(ev, f.term, f.env, FALSE)
        [] closure /\ box.form = "Term" /\ f.term.kind \notin {"Lambda", "Ident"} -> Fails(ev, "EvalNotAClosure")
        [] box.kind = "PatternMatcher" -> SymbolicMatcher(ev, box)
        [] OTHER -> IF box.kids = <<>> THEN Gives(ev, box) ELSE SymbolicParts(ev, box)

(***************************************************************************)
(* Terms.                                                                  *)
(***************************************************************************)

\* Replacements are evaluated here, the rest where the function was made.
Modified(ev, t, env) ==
  LET defs == Tail(t.kids)
      f == Captured(ev.r)
      modified == ReplaceDefs(f.env, BindingsFromDefs(defs, "Closure", env))
      v == Defining(ev, defs)
  IN  CASE ev.r.kind = "Error" -> ev
        [] ev.r.kind \notin {"Error", "Closure"} -> Fails(ev, "EvalNotAClosure")
        [] OTHER ->
             CASE ev.r.form = "Env" -> Gives(v, EnvironmentOf(modified))
               [] ev.r.form = "Term" /\ f.term.kind = "Lambda" -> Gives(v, ClosureOf(f.term, modified))
               [] OTHER -> Eval(v, f.term, modified)

Accessed(ev, name) ==
  CASE ev.r.kind = "Error" -> ev
    [] ev.r.kind = "Closure" -> EvalIdent(ev, name, Captured(ev.r).env)
    [] OTHER -> Fails(ev, "EvalBadAccess")

Counted(ev, kind) ==
  CASE ev.r = Error -> ev
    [] ev.r # Error /\ ~ArityOf(ev.r).known -> Fails(ev, "EvalArityMismatch")
    [] OTHER -> Gives(ev, MakeInt(IF kind = "Inputs" THEN ArityOf(ev.r).ins ELSE ArityOf(ev.r).outs))

\* A table where all of it is constant.
IsTable(ins, outs, pairs) == IsNum(ins) /\ IsNum(outs) /\ pairs # Nothing /\ Len(pairs[1]) >= 2 /\ Len(pairs[1]) % 2 = 0
RouteOf(parts, ins, outs, pairs) ==
  IF IsTable(ins, outs, pairs)
  THEN RouteBox(IntegerOf(ins), IntegerOf(outs), [i \in DOMAIN pairs[1] |-> IntegerOf(pairs[1][i])])
  ELSE Node("Route", "", <<>>, parts)
RouteFrom(ev) ==
  IF Error \in ToSet(ev.r) THEN Gives(ev, Error)
  ELSE Gives(ev, RouteOf(ev.r, Folds(ev, ev.r[1]).r, Folds(ev, ev.r[2]).r, FoldOutputs(ev.r[3], <<>>)))
EvalRoute(ev, t, env, pattern) ==
  LET parts == InTurn(ev, t.kids, LAMBDA v, c : EvalSymbolic(v, c, env, pattern))
  IN  RouteFrom(IF Len(t.kids) > 2 THEN parts ELSE Gives(parts, Append(parts.r, MakeBox("Par", MakeInt(0), MakeInt(0)))))

\* A slider or a bargraph, with its bounds.
EvalWidget(ev, t, env) ==
  LET WidgetOf(label, v) ==
        IF Nothing \in ToSet(v.r) THEN Gives(v, Error)
        ELSE Gives(v, Node(t.kind, "", label, [i \in DOMAIN v.r |-> MakeReal(v.r[i][1].value)]))
      Numbers(v) == InTurn(v, t.kids, LAMBDA u, c : EvalNumber(u, c, env))
  IN  After(EvalLabel(ev, t, env), LAMBDA label : WidgetOf(label.r, Numbers(label)))

BoxKind(kind) == IF kind = "RecComp" THEN "Rec" ELSE kind

RealEval(ev, t, env, pattern) ==
  LET In(v, c) == EvalIn(v, c, env, pattern)
      first == In(ev, Kid(t, 1))
      all == InTurn(ev, t.kids, In)
      args == InTurn(ev, Tail(t.kids), In)
      FromFile(target) ==
        CASE target = Nil -> Fails(ev, "ResFileNotFound")
          [] target # Nil /\ t.kind = "Library" -> Gives(ev, EnvironmentOf(target))
          [] OTHER -> Gives(ev, ClosureOf(Ident("process"), target))
      Iterated(v) == IF v.r = Nothing THEN Gives(v, Error) ELSE Iterate(v, t, IntegerOf(v.r[1]), env, pattern)
      Grouped(label, v) == IF v.r = Error THEN v ELSE Gives(v, Make("Group", "", label, <<v.r>>))
  IN  CASE t.kind = "Int" -> Gives(ev, MakeInt(t.value[1]))
        [] t.kind = "Real" -> Gives(ev, MakeReal(t.value))
        [] t.kind = "Prim" -> Gives(ev, IF t.form \in {"Wire", "Cut"} THEN Leaf(t.form, "") ELSE t)
        [] t.kind = "Ident" -> EvalIdent(ev, t.form, env)
        [] t.kind \in {"Seq", "Par", "Split", "Merge", "RecComp"} ->
             After(all, LAMBDA v : Composed(v, BoxKind(t.kind), v.r[1], v.r[2]))
        [] t.kind = "BinOp" -> After(all, LAMBDA v : Operate(v, v.r[1], v.r[2], t.form, TRUE))
        [] t.kind = "Delay1" -> After(first, LAMBDA v : Composed(v, "Seq", v.r, Prim("Mem")))
        [] t.kind = "NegIdent" -> After(EvalIdent(ev, t.form, env), LAMBDA v : Operate(v, MakeInt(0), v.r, "Sub", TRUE))
        [] t.kind = "With" ->
             EvalIn(Defining(ev, Tail(t.kids)), Kid(t, 1),
                    PushLayer(env, BindingsFromDefs(Tail(t.kids), "Definition", Nil)), pattern)
        [] t.kind = "LetRec" -> In(ev, LetRecToWith(t))
        [] t.kind = "ModifLocalDef" -> Modified(first, t, env)
        [] t.kind = "Apply" -> After(args, LAMBDA v : After(In(v, Kid(t, 1)), LAMBDA fun : Apply(fun, fun.r, v.r)))
        [] t.kind = "Access" -> Accessed(first, t.form)
        [] t.kind = "Lambda" -> Gives(ev, ClosureOf(NestLambda(Params(t), Body(t)), env))
        [] t.kind = "Case" -> EvalCase(ev, t, env)
        [] t.kind = "Modulation" ->
             Modulate(ev, Kid(t, 1), IF Len(t.kids) = 2 THEN Kid(t, 2) ELSE Tree("Modulation", Tail(t.kids)), env)
        [] t.kind = "Iterate" -> Iterated(EvalNumber(ev, Kid(t, 1), env))
        [] t.kind \in {"Inputs", "Outputs"} -> Counted(After(first, LAMBDA v : ToSymbolic(v, v.r)), t.kind)
        [] t.kind = "Environment" ->
             Gives(Defining(ev, t.kids), EnvironmentOf(Push(env, BindingsFromDefs(t.kids, "Definition", Nil), FALSE, ResolutionOf(env))))
        [] t.kind \in {"Component", "Library"} -> FromFile(Target(env, t.form))
        [] t.kind = "Waveform" -> Gives(ev, Node("Waveform", "", [i \in DOMAIN t.kids |-> t.kids[i].value[1]], <<>>))
        [] t.kind = "Route" -> EvalRoute(ev, t, env, pattern)
        [] t.kind \in {"Button", "Checkbox"} -> After(EvalLabel(ev, t, env), LAMBDA v : Gives(v, Node(t.kind, "", v.r, <<>>)))
        [] t.kind \in {"Slider", "Bargraph"} -> EvalWidget(ev, t, env)
        [] t.kind = "Group" -> After(EvalLabel(ev, t, env), LAMBDA v : Grouped(v.r, In(v, Kid(t, 1))))
        [] t.kind = "Hole" -> Gives(ev, Error)
        [] OTHER -> Fails(ev, "EvalNotApplicable")

(***************************************************************************)
(* What is being evaluated is marked; what has been is remembered.         *)
(***************************************************************************)

Entered(ev, key) == [ev EXCEPT !.memo = (key :> InFlight) @@ @, !.depth = @ + 1]
Left(ev, key) ==
  [ev EXCEPT !.memo = IF ev.keeps THEN (key :> ev.r) @@ @ ELSE [k \in DOMAIN @ \ {key} |-> @[k]],
             !.depth = @ - 1]

EvalTerm(ev, t, env) ==
  LET key == Key(t, env)
  IN  CASE Known(ev, key) /\ ev.memo[key] # InFlight -> Gives(ev, ev.memo[key])
        [] Known(ev, key) /\ ev.memo[key] = InFlight -> Fails(ev, "EvalLoopDetected")
        [] ~Known(ev, key) /\ ev.depth >= MaxEvalDepth -> Fails(ev, "EvalDepthExceeded")
        [] OTHER -> Left(EvalAs(Entered(ev, key), t, env, FALSE), key)

SymbolicOnce(ev, box) ==
  LET Remembered(v) == IF ev.keeps THEN [v EXCEPT !.symbolic = (box :> v.r) @@ @] ELSE v
  IN  IF box \in DOMAIN ev.symbolic THEN Gives(ev, ev.symbolic[box]) ELSE Remembered(Symbolically(ev, box))

Do(ev, call) ==
  CASE call[1] = "eval" -> EvalTerm(ev, call[2], call[3])
    [] call[1] = "pattern" -> EvalInPattern(ev, call[2], call[3])
    [] call[1] = "real" -> RealEval(ev, call[2], call[3], call[4])
    [] call[1] = "circuit" -> After(EvalIn(ev, call[2], call[3], call[4]), LAMBDA v : ToSymbolic(v, v.r))
    [] call[1] = "number" -> After(EvalSymbolic(ev, call[2], call[3], FALSE), NumberOf)
    [] call[1] = "label" -> LabelOf(ev, call[2], call[3])
    [] call[1] = "symbolic" -> SymbolicOnce(ev, call[2])
    [] call[1] = "apply" -> ApplyBox(ev, call[2], call[3])
    [] call[1] = "compose" -> Composition(ev, call[2], call[3], call[4], call[5])
    [] call[1] = "fold" -> Folding(ev, call[2])
    [] call[1] = "simplify" -> Gives(ev, SimplifyPattern(call[2]))

EvalEntry(ev, env, name) == EvalSymbolic(ev, Ident(name), env, FALSE)
=============================================================================
