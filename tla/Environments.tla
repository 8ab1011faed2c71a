----------------------------- MODULE Environments -----------------------------
(***************************************************************************)
(* The environments names are looked up in (Env.h and Env.cpp), what       *)
(* definitions bind in them, and evaluated boxes taken apart: closed ones  *)
(* folded to numbers (Fold.cpp), arguments matched with the patterns of    *)
(* rules, and widgets replaced by what modulates them (Apply.cpp).         *)
(*                                                                         *)
(* An environment is its layers, innermost first; the environment of a     *)
(* layer is what is left from that layer on.  Equal layers in equal        *)
(* environments are one, as the code interns them.  A layer knows the file *)
(* it is the top of, "" for none.                                          *)
(*                                                                         *)
(* A term is a node as a box is.  Its form is the name of an Ident, Str,   *)
(* NegIdent, Definition, RecDef or Access, the operator of a BinOp, the    *)
(* kind of an Iterate, whose value is its variable, and the variable a     *)
(* label names.  The last child of a clause, rule or lambda is its body.   *)
(*                                                                         *)
(* Beside circuits a box may be a Closure [term, env], a PatternMatcher,   *)
(* whose children are the arguments it has met, or a PatternVar.           *)
(***************************************************************************)
EXTENDS Propagate

\* A definition is evaluated where it was found, a closure in an environment
\* of its own, a term in none; a value is evaluated.
Binding(name, kind, id, env) == [name |-> name, kind |-> kind, id |-> id, env |-> env]

Nil == <<>>
Push(env, bindings, barrier, file) == <<[bindings |-> bindings, barrier |-> barrier, file |-> file]>> \o env
PushLayer(env, bindings) == Push(env, bindings, FALSE, "")
PushValue(env, name, kind, id) == PushLayer(env, <<Binding(name, kind, id, Nil)>>)
PushBarrier(env) == Push(env, <<>>, TRUE, "")

Named(bindings, name) == {i \in DOMAIN bindings : bindings[i].name = name}
\* The later of two bindings of a name is the one.
LookupLocal(layer, name) == layer.bindings[CHOOSE i \in Named(layer.bindings, name) : \A j \in Named(layer.bindings, name) : j <= i]

\* The first layer that binds the name; 0 if none does.
Binds(layer, name) == Named(layer.bindings, name) # {}
LayerOf(env, name) == SelectInSeq(env, LAMBDA layer : Binds(layer, name))

\* The layer of the innermost match that binds the name; 0 if none does.
OfThisMatch(env, name) ==
  LET first == SelectInSeq(env, LAMBDA layer : layer.barrier \/ Binds(layer, name))
  IN  IF first = 0 \/ env[first].barrier THEN 0 ELSE first

ResolutionOf(env) == LET i == SelectInSeq(env, LAMBDA layer : layer.file # "") IN IF i = 0 THEN "" ELSE env[i].file

\* The innermost layer with some definitions exchanged, others added.
ReplaceDefs(env, replacements) ==
  LET Replaced(bindings, r) ==
        IF Named(bindings, r.name) = {} THEN Append(bindings, r)
        ELSE [bindings EXCEPT ![Min(Named(bindings, r.name))] = r]
  IN  [env EXCEPT ![1].bindings = FoldLeft(Replaced, @, replacements)]

(***************************************************************************)
(* What the definitions of a layer bind: DefinitionTerm, GroupClauses,     *)
(* BindingsFromDefs and LetRecToWith of Eval.cpp.                          *)
(***************************************************************************)

Leaf(kind, form) == Node(kind, form, <<>>, <<>>)
Ident(name) == Leaf("Ident", name)
Str(name) == Leaf("Str", name)
Prim(prim) == Leaf("Prim", prim)
Tree(kind, kids) == Node(kind, "", <<>>, kids)

NestLambda(params, body) == FoldRight(LAMBDA p, t : Tree("Lambda", <<p, t>>), params, body)
Params(t) == Front(t.kids)
Body(t) == Last(t.kids)

\* Only different names need no matching.
Standard(clause) ==
  /\ \A p \in ToSet(Params(clause)) : p.kind = "Ident"
  /\ IsInjective(Params(clause))

\* The clauses of each name, in the order of the first.
DefinedNames(defs) == FoldLeft(LAMBDA names, d : IF Contains(names, d.form) THEN names ELSE Append(names, d.form), <<>>, defs)
Definitions(stmts) == SelectSeq(stmts, LAMBDA s : s.kind = "Definition")
ClausesOf(defs, name) == FoldLeft(LAMBDA all, d : IF d.form = name THEN all \o d.kids ELSE all, <<>>, defs)

RuleOf(clause) == Tree("Rule", clause.kids)
Agrees(clauses, c) == Len(c.kids) = Len(clauses[1].kids)

DefinitionTerm(clauses) ==
  LET c == clauses[1]
      names == [i \in DOMAIN Params(c) |-> Str(Params(c)[i].form)]
      rules == SelectSeq(clauses, LAMBDA d : Agrees(clauses, d))
  IN  CASE Len(clauses) = 1 /\ Standard(c) -> NestLambda(names, Body(c))
        [] Len(clauses) = 1 /\ ~Standard(c) -> Tree("Case", <<RuleOf(c)>>)
        [] Len(clauses) > 1 /\ Params(c) = <<>> -> c
        [] OTHER -> Tree("Case", [i \in DOMAIN rules |-> RuleOf(rules[i])])

\* What is wrong with the clauses of a name.
DefinitionCodes(clauses) ==
  IF Len(clauses) > 1 /\ Params(clauses[1]) = <<>> THEN {"EvalRedefinition"}
  ELSE IF \A c \in ToSet(clauses) : Agrees(clauses, c) THEN {} ELSE {"EvalArityMismatch"}

BindingsFromDefs(stmts, kind, env) ==
  LET defs == Definitions(stmts)
      names == DefinedNames(defs)
  IN  [i \in DOMAIN names |-> Binding(names[i], kind, DefinitionTerm(ClausesOf(defs, names[i])), env)]

\* A letrec is a feedback loop whose outputs have the names.
Tuple(ts) == FoldRight(LAMBDA t, l : Tree("Par", <<t, l>>), Front(ts), Last(ts))
LeftTuple(ts) == FoldLeft(LAMBDA l, t : Tree("Par", <<l, t>>), Head(ts), Tail(ts))
LetRecBody == " LETRECBODY"
DefinedAs(name, t) == Node("Definition", name, <<>>, <<Tree("Clause", <<t>>)>>)
LetRecToWith(t) ==
  LET recs == SelectSeq(Tail(t.kids), LAMBDA k : k.kind = "RecDef")
      where == Definitions(Tail(t.kids))
      names == [i \in DOMAIN recs |-> Str(recs[i].form)]
      inner == Tuple([i \in DOMAIN recs |-> Kid(recs[i], 1)])
      body == IF where = <<>> THEN inner ELSE Tree("With", <<inner>> \o where)
      bus == LeftTuple([i \in DOMAIN recs |-> Prim("Wire")])
      pick(i) == LeftTuple([j \in DOMAIN recs |-> Prim(IF j = i THEN "Wire" ELSE "Cut")])
      output(i) == DefinedAs(recs[i].form, Tree("Seq", <<Ident(LetRecBody), pick(i)>>))
  IN  IF recs = <<>> THEN Tree("With", <<Kid(t, 1)>> \o where)
      ELSE Tree("With", <<Kid(t, 1), DefinedAs(LetRecBody, Tree("RecComp", <<NestLambda(names, body), bus>>))>>
                          \o [i \in DOMAIN recs |-> output(i)])

(***************************************************************************)
(* Numbers: Fold.cpp.  What may be no number is a sequence of at most one  *)
(* result.                                                                 *)
(***************************************************************************)

Nothing == <<>>
Some(x) == <<x>>

IntegerOf(a) == Truncated(a.value)
BothInts(a, b) == IsInt(a) /\ IsInt(b)

\* In 32 bits if both are integers.
Join(op, a, b) ==
  LET q == Exact(op, a.value, b.value) IN IF BothInts(a, b) THEN MakeInt(q[1]) ELSE MakeReal(q)

\* Mutant: an integer divided by an integer is an integer.
FoldDivInt(a, b) ==
  LET q == Over(a.value, b.value) IN IF BothInts(a, b) THEN MakeInt(TowardsZero(q)) ELSE MakeReal(q)

\* A quotient of integers is one where it is exact, so that patterns match.
FoldDiv(a, b) ==
  LET q == Over(a.value, b.value)
  IN  IF BothInts(a, b) /\ q[2] = 1 /\ q[1] \in MinInt..MaxInt THEN MakeInt(q[1]) ELSE MakeReal(q)

\* Integers by multiplication; what is no fraction is not modelled.
FoldPow(a, b) ==
  LET product == FoldLeft(LAMBDA r, k : MakeInt(r.value[1] * a.value[1]), MakeInt(1), [k \in 1..b.value[1] |-> k])
      power == RealPower(a.value, b.value[1])
  IN  IF BothInts(a, b) /\ b.value[1] > 0 THEN Some(product)
      ELSE IF b.value[2] # 1 \/ (b.value[1] < 0 /\ a.value = Whole(0)) THEN Nothing
      ELSE Some(IF BothInts(a, b) THEN MakeInt(Truncated(power)) ELSE MakeReal(power))

\* Of two equal numbers the first.
Pick(form, a, b) == IF (form = "Min" /\ Less(b.value, a.value)) \/ (form = "Max" /\ Less(a.value, b.value)) THEN b ELSE a
FoldExtreme(form, a, b) ==
  LET m == Pick(form, a, b) IN IF BothInts(a, b) THEN m ELSE MakeReal(m.value)

FoldBits(op, a, b) ==
  MakeInt(IF op \in {"LeftShift", "RightShift"} THEN Shifted(op, IntegerOf(a), IntegerOf(b))
          ELSE IntegerBinary(op, IntegerOf(a), IntegerOf(b)))

\* One of the numbers that follow, by the first.
FoldSelect(in) ==
  IF IsInt(in[1]) /\ in[1].value[1] \in 0..(Len(in) - 2) THEN Some(in[in[1].value[1] + 2]) ELSE Nothing

ApplyPrim(prim, in) ==
  LET a == in[1]
      b == in[2]
  IN  IF Len(in) # PrimArity(prim) THEN Nothing
      ELSE
      CASE prim \in {"Add", "Sub", "Mul"} \/ (prim \in {"Rem", "Fmod"} /\ b.value # Whole(0)) -> Some(Join(prim, a, b))
        [] prim = "Fmod" /\ b.value = Whole(0) -> IF BothInts(a, b) THEN Some(MakeInt(0)) ELSE Nothing
        [] prim = "Div" -> IF b.value = Whole(0) THEN Nothing ELSE Some(FoldDiv(a, b))
        [] prim = "Pow" -> FoldPow(a, b)
        [] prim \in {"Min", "Max"} -> Some(FoldExtreme(prim, a, b))
        [] IsBitwise(prim) -> Some(FoldBits(prim, a, b))
        [] IsComparison(prim) -> Some(MakeInt(FractionCompared(prim, a.value, b.value)))
        [] prim = "IntCast" -> Some(MakeInt(IntegerOf(a)))
        [] prim = "FloatCast" -> Some(MakeReal(a.value))
        [] prim = "Abs" -> Some(IF IsInt(a) THEN MakeInt(Size(a.value)[1]) ELSE MakeReal(Size(a.value)))
        [] prim = "Floor" -> Some(MakeReal(Whole(a.value[1] \div a.value[2])))
        [] prim = "Sqrt" -> IF Root(a.value) = <<>> THEN Nothing ELSE Some(MakeReal(Head(Root(a.value))))
        [] prim = "FDelay" -> IF b = MakeInt(0) THEN Some(a) ELSE Nothing
        [] prim \in {"Select2", "Select3"} -> FoldSelect(in)
        [] OTHER -> Nothing

Sum2(a, b) == Join("Add", a, b)
\* Outputs a multiple of n apart.
FoldMerge(outs, n) ==
  FoldLeft(LAMBDA sums, j : [sums EXCEPT ![((j - 1) % n) + 1] = Sum2(@, outs[j])],
           [k \in 1..n |-> MakeInt(0)], [j \in DOMAIN outs |-> j])
FoldRoute(route, in) ==
  FoldLeft(LAMBDA outs, k : IF route[2 * k + 1] \in 1..route[1] /\ route[2 * k + 2] \in 1..route[2]
                            THEN [outs EXCEPT ![route[2 * k + 2]] = Sum2(@, in[route[2 * k + 1]])] ELSE outs,
           [i \in 1..route[2] |-> MakeInt(0)], [k \in 1..((Len(route) - 2) \div 2) |-> k])

Onwards(outs, Next(_)) == IF outs = Nothing THEN outs ELSE Next(outs[1])
AsOutputs(v) == IF v = Nothing THEN v ELSE Some(v)
BothOf(left, right) == IF Nothing \in {left, right} THEN Nothing ELSE Some(left[1] \o right[1])

\* The outputs of a box for numbers as its inputs.
RECURSIVE FoldOutputs(_, _)
FoldKind(box, in) ==
  LET a == Kid(box, 1)
      b == Kid(box, 2)
      Beside(mine) == BothOf(FoldOutputs(a, SubSeq(in, 1, mine)), FoldOutputs(b, SubSeq(in, mine + 1, Len(in))))
  IN  CASE IsNum(box) -> Some(<<box>>)
        [] box.kind = "Wire" -> Some(in)
        [] box.kind = "Cut" -> Some(<<>>)
        [] box.kind = "Prim" -> AsOutputs(ApplyPrim(box.form, in))
        [] box.kind = "Group" -> FoldOutputs(a, in)
        [] box.kind = "Par" -> Beside(ArityOf(a).ins)
        [] box.kind = "Seq" -> Onwards(FoldOutputs(a, in), LAMBDA l : FoldOutputs(b, l))
        [] box.kind = "Split" -> Onwards(FoldOutputs(a, in), LAMBDA l : FoldOutputs(b, Fanned(l, ArityOf(b).ins)))
        [] box.kind = "Merge" -> Onwards(FoldOutputs(a, in), LAMBDA l : FoldOutputs(b, FoldMerge(l, ArityOf(b).ins)))
        [] box.kind = "Route" -> Some(FoldRoute(box.value, in))
        [] OTHER -> Nothing
TakesInputs(arity, n) == arity.known /\ arity.ins = n
FoldOutputs(box, in) == IF TakesInputs(ArityOf(box), Len(in)) THEN FoldKind(box, in) ELSE Nothing

TheOutput(outs) == IF outs = Nothing THEN outs ELSE outs[1]

\* The number of a box with no input and one output.
FoldConstant(box) ==
  IF ArityOf(box) = Arity(0, 1) THEN TheOutput(FoldOutputs(box, <<>>)) ELSE Nothing

(***************************************************************************)
(* Boxes that are no circuits.                                             *)
(***************************************************************************)

ClosureOf(term, env) == Node("Closure", "Term", <<[term |-> term, env |-> env]>>, <<>>)
EnvironmentOf(env) == Node("Closure", "Env", <<[term |-> Error, env |-> env]>>, <<>>)
Captured(closure) == closure.value[1]

IsComposition(kind) == kind \in {"Seq", "Par", "Split", "Merge", "Rec"}
Structural(kind) == IsComposition(kind) \/ kind = "Route"
\* The same box with other children.
RebuiltBox(box, kids) ==
  IF IsComposition(box.kind) THEN MakeBox(box.kind, kids[1], kids[2]) ELSE Rebuilt(box, kids)

FoldedOr(v, box) == IF v = Nothing THEN box ELSE v[1]

(***************************************************************************)
(* Matching.  The variables of a match are layers on its environment.      *)
(***************************************************************************)

\* A closed part with one output is its number.
RECURSIVE SimplifyPattern(_)
SimplifyParts(p) ==
  IF Structural(p.kind) THEN RebuiltBox(p, [i \in DOMAIN p.kids |-> SimplifyPattern(Kid(p, i))]) ELSE p
SimplifyPattern(p) == FoldedOr(FoldConstant(p), SimplifyParts(p))

\* A variable met before stands for the same box again.
MatchVariable(name, arg, env) ==
  LET i == OfThisMatch(env, name)
      met == LookupLocal(env[i], name)
  IN  IF i = 0 THEN Some(PushValue(env, name, "Value", arg))
      ELSE IF met.kind = "Value" /\ met.id = arg THEN Some(env) ELSE Nothing

\* The environment with the variables of the pattern, if the argument fits.
RECURSIVE MatchPattern(_, _, _)
MatchPattern(pattern, arg, env) ==
  CASE pattern.kind = "PatternVar" -> MatchVariable(pattern.form, arg, env)
    [] Structural(pattern.kind) /\ arg.kind = pattern.kind /\ Len(pattern.kids) = Len(arg.kids) ->
         FoldLeft(LAMBDA e, i : IF e = Nothing THEN e ELSE MatchPattern(Kid(pattern, i), Kid(arg, i), e[1]),
                  Some(env), [i \in DOMAIN arg.kids |-> i])
    [] OTHER -> IF pattern = arg THEN Some(env) ELSE Nothing

\* Rules as far as they have been matched: their patterns, their environments,
\* and which of them still fit.
Matcher(rules, patterns, envs, live, args) ==
  Node("PatternMatcher", "", <<[rules |-> rules, patterns |-> patterns, envs |-> envs, live |-> live]>>, args)

\* The n-th argument is folded where a number is asked for.
AsksNumber(state, n) ==
  \E r \in DOMAIN state.live : state.live[r] /\ n <= Len(state.patterns[r]) /\ IsNum(state.patterns[r][n])
MatchRules(state, n, arg) ==
  [r \in DOMAIN state.live |->
     IF state.live[r] /\ n <= Len(state.patterns[r]) THEN MatchPattern(state.patterns[r][n], arg, state.envs[r])
     ELSE Nothing]
Live(state, met) == [r \in DOMAIN met |-> met[r] # Nothing]

\* Mutant: every rule starts over with the next argument.
MatchedNone(state, met) == state.envs

Matched(state, met) == [r \in DOMAIN met |-> IF met[r] = Nothing THEN state.envs[r] ELSE met[r][1]]

(***************************************************************************)
(* Modulation.  A target is a path, its last name first.                   *)
(***************************************************************************)

LabelPath(label) == Reverse(WalkTo(<<>>, label))

\* Is path an ordered part of label?
PathMatchesLabel(path, label) ==
  LET next == FoldLeft(LAMBDA i, seg : IF i < Len(path) /\ path[i + 1] = seg THEN i + 1 ELSE i, 0, label)
  IN  next = Len(path)

\* What of the target a group leaves to be found within it.
WithinGroup(group, target) ==
  IF IsSuffix(group, target) THEN SubSeq(target, 1, Len(target) - Len(group)) ELSE target

\* A widget is replaced by a circuit of no input, followed by one of one, or
\* joined by the slot before one of two.
Implanted(box, slot, ins, circuit) ==
  CASE ins = 0 -> circuit
    [] ins = 1 -> MakeBox("Seq", box, circuit)
    [] ins = 2 -> MakeBox("Seq", MakeBox("Par", box, slot), circuit)

IsWidget(kind) == kind \in {"Button", "Checkbox", "Slider", "Bargraph"}
IsTarget(box, path) == IsWidget(box.kind) /\ PathMatchesLabel(path, LabelPath(box.value))

RECURSIVE Implant(_, _, _, _, _)
Implant(box, path, slot, ins, circuit) ==
  LET inner == IF box.kind = "Group" THEN WithinGroup(LabelPath(box.value), path) ELSE path
  IN  CASE IsWidget(box.kind) -> IF IsTarget(box, path) THEN Implanted(box, slot, ins, circuit) ELSE box
        [] box.kids = <<>> -> box
        [] OTHER -> RebuiltBox(box, [i \in DOMAIN box.kids |-> Implant(Kid(box, i), inner, slot, ins, circuit)])

RECURSIVE HasTarget(_, _)
HasTarget(box, path) ==
  LET inner == IF box.kind = "Group" THEN WithinGroup(LabelPath(box.value), path) ELSE path
  IN  IF IsWidget(box.kind) THEN IsTarget(box, path) ELSE \E k \in ToSet(box.kids) : HasTarget(k, inner)
=============================================================================
