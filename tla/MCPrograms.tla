------------------------------- MODULE MCPrograms ------------------------------
EXTENDS Programs

(***************************************************************************)
(* Terms.                                                                  *)
(***************************************************************************)

I(n) == MakeInt(n)
R(n, d) == MakeReal(<<n, d>>)
W == Prim("Wire")
X == Ident("x")
Y == Ident("y")
A == Ident("a")
N == Ident("n")
F(args) == Tree("Apply", <<Ident("f")>> \o args)
Call(f, args) == Tree("Apply", <<f>> \o args)
Op(op, a, b) == Node("BinOp", op, <<>>, <<a, b>>)
Beside(a, b) == Tree("Par", <<a, b>>)
Then(a, b) == Tree("Seq", <<a, b>>)
Lam(names, body) == Tree("Lambda", [i \in DOMAIN names |-> Str(names[i])] \o <<body>>)
Clause(params, body) == Tree("Clause", params \o <<body>>)
Fun(name, params, body) == Node("Definition", name, <<>>, <<Clause(params, body)>>)
Const(name, t) == Fun(name, <<>>, t)
Proc(t) == Const("process", t)
Rule(params, body) == Tree("Rule", params \o <<body>>)
Repeat(form, count, body) == Node("Iterate", form, <<"i">>, <<count, body>>)
Slider(name, var) == Node("Slider", var, <<name>>, <<I(0), I(0), I(1), R(1, 4)>>)
In(group, t) == Node("Group", "", <<group>>, <<t>>)
Modulated(name, by, t) == Tree("Modulation", <<Node("Modulator", "", <<name>>, by), t>>)
RecDef(name, t) == Node("RecDef", name, <<>>, <<t>>)
Look(t, name) == Node("Access", name, <<>>, <<t>>)

(***************************************************************************)
(* Programs.                                                               *)
(***************************************************************************)

MCSources == "lib" :> <<Const("k", I(3)), Fun("f", <<X>>, Op("Add", X, Ident("k"))), Proc(F(<<W>>))>>

Scopes == {
  <<Fun("f", <<X>>, Op("Sub", X, I(2))), Proc(F(<<I(3)>>))>>,
  <<Const("c", A), Const("a", I(2)), Fun("f", <<A>>, Op("Sub", Ident("c"), A)), Proc(F(<<W>>))>>,
  <<Fun("process", <<Ident("fl_slot2")>>, Beside(Ident("fl_slot2"), Lam(<<"y">>, Op("Sub", Y, Ident("fl_slot2")))))>>,
  <<Proc(Call(Lam(<<"x", "y">>, Op("Sub", Lam(<<"x">>, Op("Mul", X, Y)), X)), <<W>>))>> }

ScopesOfTwo == {
  <<Const("a", I(1)), Const("b", Tree("With", <<A, Const("a", I(2))>>)), Proc(Beside(Ident("b"), A))>>,
  <<Fun("f", <<X, Y>>, Op("Sub", X, Y)), Proc(Beside(F(<<I(1), W>>), F(<<I(2)>>)))>>,
  <<Fun("f", <<X>>, Tree("With", <<Tree("Apply", <<Ident("g"), I(2)>>), Fun("g", <<Y>>, Op("Sub", X, Y))>>)), Proc(Beside(F(<<W>>), F(<<I(1)>>)))>>,
  <<Fun("f", <<Ident("g"), X>>, Call(Ident("g"), <<Call(Ident("g"), <<X>>)>>)), Proc(F(<<Lam(<<"y">>, Op("Sub", Y, I(3))), W>>))>> }

Matching == {
  <<Fun("f", <<I(0)>>, W), Const("c", I(1)), Fun("f", <<N>>, Then(F(<<Op("Sub", N, Ident("c"))>>), Op("Mul", W, N))), Proc(F(<<I(1)>>))>>,
  <<Node("Definition", "f", <<>>, <<Clause(<<X, X>>, X), Clause(<<X, Y>>, Op("Sub", X, Y))>>), Proc(Beside(F(<<I(2), I(2)>>), F(<<I(2), W>>)))>>,
  <<Fun("f", <<X>>, Call(Tree("Case", <<Rule(<<X>>, Op("Add", X, I(1)))>>), <<I(5)>>)), Proc(F(<<I(2)>>))>>,
  <<Node("Definition", "f", <<>>, <<Clause(<<Beside(X, Y)>>, Op("Add", F(<<X>>), F(<<Y>>))), Clause(<<X>>, I(1))>>), Proc(F(<<Beside(W, I(3))>>))>>,
  <<Node("Definition", "f", <<>>, <<Clause(<<I(1), I(2)>>, I(7)), Clause(<<X, I(2)>>, X), Clause(<<I(1), Y>>, Y)>>), Proc(Beside(F(<<I(1), I(3)>>), F(<<I(4), Op("Div", I(4), I(2))>>)))>> }

Modules == {
  <<Const("e", Tree("Environment", <<Const("k", I(3)), Fun("f", <<X>>, Op("Add", X, Ident("k")))>>)), Proc(Call(Look(Ident("e"), "f"), <<W>>))>>,
  <<Const("e", Tree("Environment", <<Const("k", I(3)), Fun("f", <<X>>, Op("Add", X, Ident("k")))>>)), Const("k", I(1)),
    Proc(Call(Look(Tree("ModifLocalDef", <<Ident("e"), Const("k", Op("Add", Ident("k"), I(4)))>>), "f"), <<W>>))>>,
  <<Proc(Beside(Leaf("Component", "lib"), Look(Leaf("Library", "lib"), "k")))>>,
  <<Proc(Tree("LetRec", <<X, RecDef("x", Op("Add", X, A)), Const("a", I(2))>>))>>,
  <<Proc(Tree("LetRec", <<Op("Sub", X, Y), RecDef("x", Op("Add", Y, I(1))), RecDef("y", X)>>))>> }

Iterations == {
  <<Proc(Repeat("Par", I(3), Op("Mul", W, Ident("i"))))>>,
  <<Proc(Then(W, Repeat("Seq", I(3), Op("Sub", Ident("i"), W))))>>,
  <<Proc(Repeat("Sum", I(3), Op("Mul", W, Ident("i"))))>>,
  <<Proc(Repeat("Prod", Tree("Outputs", <<Beside(W, W)>>), Slider("s", "i")))>>,
  <<Proc(Then(Beside(W, W), Repeat("Seq", I(0), Beside(W, W))))>> }

Wirings == {
  <<Proc(Modulated("s", <<Lam(<<"x">>, Op("Mul", X, I(2)))>>, Op("Add", Slider("s", ""), Slider("t", ""))))>>,
  <<Proc(Modulated("s", <<>>, In("g", Slider("s", ""))))>>,
  <<Fun("f", <<X>>, Op("Sub", Slider("s", ""), X)), Proc(Beside(Ident("f"), Modulated("s", <<Lam(<<"x">>, Op("Mul", X, I(2)))>>, Ident("f"))))>>,
  <<Proc(Tree("Route", <<I(2), I(2), Beside(Beside(I(1), I(2)), Beside(I(2), I(1)))>>))>>,
  <<Const("a", I(2)), Proc(Tree("RecComp", <<Op("Add", W, Leaf("NegIdent", "a")), W>>))>>,
  <<Proc(Tree("Split", <<Tree("Delay1", <<W>>), Call(Prim("Sub"), <<I(1)>>)>>))>>,
  <<Proc(Tree("Merge", <<Beside(W, I(2)), Call(Prim("Sub"), <<I(3)>>)>>))>> }

Literals == {I(-3), I(0), I(2), I(7), R(1, 2), R(-5, 2)}
BinaryPrims == {"Add", "Sub", "Mul", "Div", "Rem", "Fmod", "Pow", "Min", "Max", "AND", "OR", "XOR", "LeftShift", "RightShift",
                "GT", "LT", "GE", "LE", "EQ", "NE", "FDelay"}
All(ts) == Tuple(SetToSeq(ts))
Calculations ==
  {<<Proc(All({Call(Prim(prim), <<a, b>>) : b \in Literals}))>> : prim \in BinaryPrims, a \in Literals}
    \cup {<<Proc(All({Call(Prim(prim), <<a>>) : a \in Literals}))>> : prim \in {"IntCast", "FloatCast", "Abs", "Floor", "Sqrt"}}

TwoNumbers == Beside(I(3), R(1, 2))
Bounded(t) == Node("Slider", "", <<"t">>, <<t, I(0), I(1), R(1, 4)>>)
BoundsOfSliders ==
  {<<Proc(Bounded(t))>> : t \in {
     Tree("Merge", <<Beside(TwoNumbers, Beside(I(1), I(5))), Prim("Sub")>>), Tree("Split", <<TwoNumbers, Tree("Merge", <<Beside(Prim("Sub"), Prim("Mul")), W>>)>>),
     Then(TwoNumbers, Then(Tree("Route", <<I(2), I(2), Beside(Beside(I(1), I(2)), Beside(Beside(I(2), I(1)), Beside(I(1), I(1))))>>), Prim("Sub"))),
     Call(Prim("Select3"), <<I(1), I(4), R(1, 2), I(6)>>), Call(Prim("Select2"), <<I(1), I(4), I(5)>>),
     Then(Beside(I(1), Beside(I(4), I(5))), Beside(Prim("Cut"), Prim("Sub"))), In("g", Op("Sub", I(1), I(2)))}}

Made(texts, steps) == {[stmts |-> stmts, steps |-> steps] : stmts \in texts}
MCTexts ==
  Made(Calculations \cup BoundsOfSliders, 0)
    \cup Made(Matching \cup Modules \cup Iterations \cup Wirings, 1)
    \cup Made(Scopes \cup ScopesOfTwo, 2)
\* A function defined by rules, which what is selected may be:
\* f(0) = 1; f(x) = 2; process = f(0);
ReadByRules == Made({<<Fun("f", <<I(0)>>, I(1)), Fun("f", <<X>>, I(2)), Proc(F(<<I(0)>>))>>}, 1)

Reals(values) == [real |-> TRUE, at |-> values]
MCStimuli == {
  [in |-> <<Reals(<<<<3, 1>>, <<-2, 1>>, <<1, 2>>>>), Reals(<<<<5, 2>>, <<4, 1>>, <<-1, 1>>>>), Reals(<<<<1, 1>>, <<0, 1>>, <<2, 1>>>>)>>,
   shown |-> <<"s">> :> <<Whole(1), Whole(0), Whole(1)>>] }
=============================================================================
