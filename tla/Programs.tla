-------------------------------- MODULE Programs -------------------------------
(***************************************************************************)
(* A program as it is edited: it is processed on tables that evaluations   *)
(* before have left, its expressions are expanded for display, and what    *)
(* they expand to is put in their place.  Its author writes the same       *)
(* program in other words.                                                 *)
(*                                                                         *)
(* What a test does not reach is how these follow on one another: a name   *)
(* may be found in the wrong layer, a slot be written under a name another *)
(* has, and a table know a term in an environment it no longer has.        *)
(***************************************************************************)
EXTENDS Evaluate, Streams

CONSTANTS
  Texts,        \* what an author starts from: statements and the number of steps
                \* made on them, the bound on expansions and edits
  Stimuli,      \* what is played to programs: [in, shown]
  AnySelection  \* is also materialized what asks for more than a signal?

VARIABLES
  program,   \* the source, as a term
  meant,     \* what the program meant at first
  evaluator, \* of the session
  changed,   \* has the source changed since its environment was last asked for?
  result,    \* what the source means as last evaluated, if it has been:
             \* heard in the session, and by one who remembers nothing
  last,      \* what has been done last: "materialized", "rephrased" or else ""
  left       \* how many steps are left

vars == <<program, meant, evaluator, changed, result, last, left>>

(***************************************************************************)
(* A selected expression evaluated where it stands and written back as a   *)
(* term: Expand.cpp and Lift.cpp.  A program is a term whose children are  *)
(* its statements; a place in it is the path of child numbers that leads   *)
(* there.                                                                  *)
(***************************************************************************)

Declined == Leaf("NoTerm", "")

TermAt(source, at) == FoldLeft(Kid, source, at)
Within(at, i) == SubSeq(at, 1, i)

RECURSIVE ReplacedAt(_, _, _)
ReplacedAt(t, at, new) ==
  IF at = <<>> THEN new ELSE [t EXCEPT !.kids[Head(at)] = ReplacedAt(@, Tail(at), new)]

IsExpression(kind) == kind \notin {"Program", "Definition", "Clause", "RecDef", "Rule", "Modulator", "Str", "Hole"}

(***************************************************************************)
(* The scope of a place.                                                   *)
(***************************************************************************)

\* The parameters of a function that is not called are slots, each in the
\* scope of those before.
Inside(ev, params, body, env) ==
  LET Nested(v, i) == SymbolicEnvironment(v, NestLambda(SubSeq(params, i, Len(params)), body), v.r[1])
  IN  FoldLeft(LAMBDA v, i : LET u == Nested(v, i) IN Gives(u, Some(u.r)), Gives(ev, Some(env)), [i \in DOMAIN params |-> i])

\* From a node into the child the place is in.
StepInto(ev, t, child) ==
  LET isLast == child = Len(t.kids)
      names == [i \in DOMAIN Params(t) |-> Str(Params(t)[i].form)]
      plain == /\ \A p \in ToSet(Params(t)) : p.kind \in {"Ident", "Str"}
               /\ IsInjective(names)
      defs == IF t.kind = "With" THEN Tail(t.kids) ELSE t.kids
  IN  CASE ev.r = Nothing -> ev
        [] ev.r # Nothing /\ t.kind = "Definition" -> IF Len(t.kids) = 1 THEN ev ELSE Gives(ev, Nothing)
        [] ev.r # Nothing /\ t.kind \in {"Clause", "Lambda"} ->
             IF isLast /\ plain THEN Inside(ev, names, Body(t), ev.r[1]) ELSE Gives(ev, Nothing)
        [] ev.r # Nothing /\ t.kind \in {"With", "Environment"} ->
             Gives(Defining(ev, defs), Some(PushLayer(ev.r[1], BindingsFromDefs(defs, "Definition", Nil))))
        [] ev.r # Nothing /\ t.kind = "Iterate" -> IF isLast THEN Gives(ev, Nothing) ELSE ev
        [] ev.r # Nothing /\ t.kind \in {"LetRec", "Rule"} -> Gives(ev, Nothing)
        [] OTHER -> ev

\* The environment a place is evaluated in, if it has one.
ContextAt(ev, source, at, env) ==
  FoldLeft(LAMBDA v, i : StepInto(v, TermAt(source, Within(at, i - 1)), at[i]), Gives(ev, Some(env)), [i \in DOMAIN at |-> i])

\* The slots that can be written, under the names they are visible by.
VisibleSlots(env) ==
  LET names == UNION {{b.name : b \in ToSet(layer.bindings)} : layer \in ToSet(env)}
      binding(name) == LookupLocal(env[LayerOf(env, name)], name)
      slots == {n \in names : binding(n).kind = "Value" /\ binding(n).id.kind = "Slot"}
  IN  {[slot |-> binding(n).id, name |-> n] : n \in slots}

(***************************************************************************)
(* Writing.                                                                *)
(***************************************************************************)

\* Mutant: binders are numbered only within what is written.
NoneUsed(ambient) == {}

UsedNames(ambient) == {s.name : s \in ambient}

Lifter(ambient) ==
  [names |-> [slot \in {s.slot : s \in ambient} |-> (CHOOSE s \in ambient : s.slot = slot).name],
   used |-> UsedNames(ambient), memo |-> <<>>, scope |-> 0, scopes |-> 0, declined |-> FALSE, r |-> Declined]

Writes(l, t) == [l EXCEPT !.r = t]
Decline(l) == [l EXCEPT !.declined = TRUE, !.r = Declined]

\* fl_slotN, or the first of fl_slotN_1, fl_slotN_2, ... that is not in use.
NameOfSlot(n, k) == "fl_slot" \o ToString(n) \o (IF k = 0 THEN "" ELSE "_" \o ToString(k))
FreshName(slot, used) ==
  LET n == slot.value[1]
      fits(k) == NameOfSlot(n, k) \notin used
  IN  NameOfSlot(n, CHOOSE k \in 0..Cardinality(used) : fits(k) /\ \A j \in 0..(k - 1) : ~fits(j))

TermKind(kind) == IF kind = "Rec" THEN "RecComp" ELSE kind

RECURSIVE Go(_, _)

GoAll(l, boxes) == FoldLeft(LAMBDA v, b : LET u == Go(v, b) IN Writes(u, Append(v.r, u.r)), Writes(l, <<>>), boxes)

\* A function of a slot, in a scope and under a name of its own.
Abstracted(l, box) ==
  LET slot == Kid(box, 1)
      name == FreshName(slot, l.used)
      inner == [l EXCEPT !.names = (slot :> name) @@ @, !.used = @ \cup {name}, !.scope = l.scopes + 1, !.scopes = @ + 1]
      body == Go(inner, Kid(box, 2))
  IN  [body EXCEPT !.names = l.names, !.scope = l.scope, !.r = Tree("Lambda", <<Str(name), @>>)]

Build(l, box) ==
  LET parts == GoAll(l, box.kids)
  IN  CASE box.kind \in {"Int", "Real", "Prim", "Button", "Checkbox", "Slider", "Bargraph"} -> Writes(l, box)
        [] box.kind \in {"Wire", "Cut"} -> Writes(l, Prim(box.kind))
        [] box.kind = "Waveform" -> Writes(l, Tree("Waveform", [i \in DOMAIN box.value |-> MakeInt(box.value[i])]))
        [] IsComposition(box.kind) \/ box.kind \in {"Group", "Route"} ->
             Writes(parts, Node(TermKind(box.kind), box.form, IF box.kind = "Group" THEN box.value ELSE <<>>, parts.r))
        [] box.kind = "Slot" -> IF box \in DOMAIN l.names THEN Writes(l, Ident(l.names[box])) ELSE Decline(l)
        [] box.kind = "Symbolic" -> Abstracted(l, box)
        [] OTHER -> Decline(l)

LiftKey(l, box) == <<l.scope, box>>

Go(l, box) ==
  LET key == LiftKey(l, box)
      built == Build(l, box)
  IN  CASE l.declined -> l
        [] ~l.declined /\ key \in DOMAIN l.memo -> Writes(l, l.memo[key])
        [] OTHER -> IF built.declined THEN built ELSE [built EXCEPT !.memo = (key :> built.r) @@ @]

\* Nothing is written of what has a part that cannot be.
WrittenBy(l) == IF l.declined THEN Declined ELSE l.r
Lift(box, ambient) == WrittenBy(Go(Lifter(ambient), box))

\* The evaluator, with the term the selection expands to.
ExpandIn(ev, t, env) == After(EvalSymbolic(ev, t, env, FALSE), LAMBDA v : Gives(v, Lift(v.r, VisibleSlots(env))))
Expand(ev, source, at, env) ==
  LET t == TermAt(source, at)
  IN  After(ContextAt(ev, source, at, env),
            LAMBDA v : IF v.r = Nothing \/ ~IsExpression(t.kind) THEN Gives(v, Declined) ELSE ExpandIn(v, t, v.r[1]))

(***************************************************************************)
(* What a program means: what is heard of its process.                     *)
(***************************************************************************)

Main(source) == FileEnv("main", source.kids)
Evaluation(ev, source) == EvalEntry(Defining(ev, source.kids), Main(source), "process")

Inputs(box, stimulus) == SubSeq(stimulus.in, 1, ArityOf(box).ins)
Values(streams) == [i \in DOMAIN streams |-> streams[i].at]
HeardOf(box, stimulus) ==
  Values(Heard(box, [slots |-> <<>>, path |-> <<>>, shown |-> stimulus.shown], Inputs(box, stimulus)))

Compiles(box) == box # Error /\ ArityOf(box).known
Meaning(box) == IF Compiles(box) THEN Some([s \in Stimuli |-> HeardOf(box, s)]) ELSE Nothing
Judged(ev) == [heard |-> Meaning(ev.r), codes |-> ev.codes]
Means(source) == Judged(Evaluation(Forgetful, source))

(***************************************************************************)
(* Other words for the same.                                               *)
(***************************************************************************)

RECURSIVE PlacesIn(_)
PlacesIn(t) == {<<>>} \cup UNION {{<<i>> \o at : at \in PlacesIn(Kid(t, i))} : i \in DOMAIN t.kids}
Above(source, at) == [i \in DOMAIN at |-> TermAt(source, Within(at, i - 1))]

\* Parameters are no expressions.
HasParams(kind) == kind \in {"Clause", "Rule", "Lambda"}
IsEvaluated(source, at) ==
  LET above == Above(source, at)
  IN  \A i \in DOMAIN at : (HasParams(above[i].kind) => at[i] = Len(above[i].kids)) /\ above[i].kind # "Waveform"

NewName(n) == "new" \o ToString(n)

\* An expression under a name of its own.
GivenName(t, new) == Tree("With", <<Ident(new), DefinedAs(new, t)>>)
HasName(source, at) == IsEvaluated(source, at) /\ ~(TermAt(source, at).kind = "Lambda" /\ Len(TermAt(source, at).kids) > 2)

\* A function given its arguments one after the other.
RECURSIVE ParamsOf(_)
ParamsOf(t) == IF t.kind = "Lambda" THEN Len(Params(t)) + ParamsOf(Body(t)) ELSE 0
TakesAtLeast(box, n) ==
  CASE box.kind = "Closure" -> ParamsOf(Captured(box).term) >= n
    [] box.kind = "PatternMatcher" -> Len(box.value[1].patterns[1]) - Len(box.kids) >= n
    [] OTHER -> FALSE
Curried(t) == Tree("Apply", <<Tree("Apply", Front(t.kids)), Last(t.kids)>>)
IsCallee(source, at) == at # <<>> /\ Last(at) = 1 /\ TermAt(source, Front(at)).kind = "Apply"
Curries(t, value) == Len(t.kids) > 2 /\ TakesAtLeast(value, Len(t.kids) - 1)

\* A parameter under another name, where it is not another's name as well.
Labelled(kind) == kind \in {"Button", "Checkbox", "Slider", "Bargraph", "Group", "Modulator"}
RECURSIVE Renamed(_, _, _)
Renamed(t, name, new) ==
  LET within == [t EXCEPT !.kids = [i \in DOMAIN @ |-> Renamed(@[i], name, new)]]
      defines == \E d \in ToSet(t.kids) : d.kind \in {"Definition", "RecDef"} /\ d.form = name
  IN  CASE t.kind \in {"Ident", "NegIdent"} \/ Labelled(t.kind) -> IF t.form = name THEN [within EXCEPT !.form = new] ELSE within
        [] t.kind \in {"With", "Environment", "LetRec"} -> IF defines THEN t ELSE within
        [] HasParams(t.kind) ->
             IF \E p \in ToSet(Params(t)) : p.form = name THEN t ELSE [within EXCEPT !.kids = Append(Params(t), Last(@))]
        [] t.kind = "Iterate" -> IF t.value[1] = name THEN [within EXCEPT !.kids = <<@[1], Kid(t, 2)>>] ELSE within
        [] OTHER -> within
RenamedParam(t, name, new) ==
  [t EXCEPT !.kids = Append([i \in DOMAIN Params(t) |-> IF Params(t)[i].form = name THEN [Params(t)[i] EXCEPT !.form = new] ELSE Params(t)[i]],
                            Renamed(Body(t), name, new))]
ParamNames(t) == IF HasParams(t.kind) THEN {p.form : p \in {p \in ToSet(Params(t)) : p.kind \in {"Ident", "Str"}}} ELSE {}

Rephrasings(source, at, value, new) ==
  LET t == TermAt(source, at)
      call == TermAt(source, Front(at))
  IN  (IF IsExpression(t.kind) /\ HasName(source, at) THEN {ReplacedAt(source, at, GivenName(t, new))} ELSE {})
        \cup (IF IsCallee(source, at) /\ Curries(call, value) THEN {ReplacedAt(source, Front(at), Curried(call))} ELSE {})
        \cup {ReplacedAt(source, at, RenamedParam(t, name, new)) : name \in ParamNames(t)}

(***************************************************************************)
(* Steps.                                                                  *)
(***************************************************************************)

Init ==
  /\ \E text \in Texts : program = Tree("Program", text.stmts) /\ left = text.steps
  /\ meant = Means(program).heard
  /\ evaluator = Evaluator /\ changed = TRUE /\ result = Nothing /\ last = ""

\* The tables are cleared when the environment of the file is made anew.
Evaluates(ev) == evaluator' = ev /\ result' = Some([warm |-> Meaning(ev.r), fresh |-> Means(program)])
Process ==
  /\ result = Nothing
  /\ Evaluates(Evaluation(IF changed THEN ClearMemo(evaluator) ELSE evaluator, program))
  /\ changed' = FALSE
  /\ UNCHANGED <<program, meant, last, left>>

Step(what) == left > 0 /\ left' = left - 1 /\ last' = what
Edited(source) == program' = source /\ changed' = TRUE /\ result' = Nothing /\ UNCHANGED meant

\* The display of an expression evaluates it.
Preview(expanded) ==
  /\ Step("")
  /\ evaluator' = expanded
  /\ changed' = FALSE
  /\ UNCHANGED <<program, meant, result>>

\* Rules ask what their arguments are; what is modified, or looked into, is
\* more than what it is where it stands.
AsksForMore(at, value) ==
  \/ value.kind = "PatternMatcher"
  \/ at # <<>> /\ Last(at) = 1 /\ TermAt(program, Front(at)).kind \in {"ModifLocalDef", "Access"}
  \/ \E p \in PlacesIn(program) :
       TermAt(program, p).kind = "ModifLocalDef" /\ ~IsPrefix(p, at) /\ ~IsPrefix(at, p)

Materialize(at, value, expanded) ==
  /\ Step("materialized")
  /\ AnySelection \/ ~AsksForMore(at, value)
  /\ expanded.r # Declined
  /\ evaluator' = expanded
  /\ Edited(ReplacedAt(program, at, expanded.r))

Rephrase(at, value) ==
  /\ Step("rephrased")
  /\ \E source \in Rephrasings(program, at, value, NewName(left)) : Edited(source)
  /\ UNCHANGED evaluator

\* What an expression is where it stands.
ValueIn(context, t) == IF context.r = Nothing THEN Error ELSE Eval(context, t, context.r[1]).r
ValueAt(at) == ValueIn(ContextAt(Forgetful, program, at, Main(program)), TermAt(program, at))

Select(at, value, expanded) == Preview(expanded) \/ Materialize(at, value, expanded) \/ Rephrase(at, value)
Next ==
  \/ Process
  \/ \E at \in PlacesIn(program) : Select(at, ValueAt(at), Expand(evaluator, program, at, Main(program)))

Spec == Init /\ [][Next]_vars

(***************************************************************************)
(* Properties.                                                             *)
(***************************************************************************)

KeptMeaning == result # Nothing /\ meant # Nothing => result[1].fresh.heard = meant

\* What Expand makes of a selected expression can stand in its place: read
\* again where it was written (ContextAt, Lift), under the names visible there
\* and next to names its author chose, the program is heard as before.
MaterializingKeepsMeaning == last = "materialized" => KeptMeaning

\* Neither how an expression is named, nor which names parameters have, nor
\* whether arguments are given at once or one after the other (Apply,
\* EvalIdent, MatchArgument) changes what is heard.
RephrasingKeepsMeaning == last = "rephrased" => KeptMeaning

\* Whatever has been evaluated before, in whichever order and on whichever
\* source, the process means what it means to one that remembers nothing: the
\* four tables of the evaluator are no part of the meaning (Memo, PmMemo,
\* Symbolic and SymbolicEnvs of Eval.h).
TablesTransparent ==
  result # Nothing /\ result[1].fresh.codes = {} => result[1].warm = result[1].fresh.heard

\* What FoldConstant replaces by a number while a program is evaluated is heard
\* as that number in every frame, where the signal has a value at all.
FoldedAsHeard ==
  \A fold \in evaluator.folds : \A s \in Stimuli : \A t \in Time : HeardOf(fold[1], s)[1][t] \in {Undefined, fold[2].value}
=============================================================================
