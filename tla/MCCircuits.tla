------------------------------ MODULE MCCircuits ------------------------------
(***************************************************************************)
(* Instances of Circuits: all sums and products of three operands, on      *)
(* reals and on integers, and circuits for everything else a box can be.   *)
(***************************************************************************)
EXTENDS Circuits

Leaf(kind, value) == Node(kind, "", value, <<>>)
I(n) == Leaf("Int", <<n>>)
R(n, d) == Leaf("Real", <<n, d>>)
W == Leaf("Wire", <<>>)
Cut == Leaf("Cut", <<>>)
P(prim) == Node("Prim", prim, <<>>, <<>>)
Then(a, b) == MakeBox("Seq", a, b)
Beside(a, b) == MakeBox("Par", a, b)
Spread(a, b) == MakeBox("Split", a, b)
Merged(a, b) == MakeBox("Merge", a, b)
Looped(a, b) == MakeBox("Rec", a, b)
All(boxes) == FoldLeft(Beside, Head(boxes), Tail(boxes))
Of(prim, boxes) == Then(All(boxes), P(prim))
Slot(k) == Leaf("Slot", <<k>>)
Lambda(k, body) == Make("Symbolic", "", <<>>, <<Slot(k), body>>)
Of2(body) == Lambda(1, Lambda(2, body))
X == Slot(1)
Y == Slot(2)
Rounded(a) == Of("IntCast", <<a>>)
RoundedWire == Rounded(W)
Last1(a) == Of("Mem", <<a>>)
Ago(a, d) == Of("FDelay", <<a, d>>)
Button(path) == Leaf("Button", path)
Slider(path) == Node("Slider", "", path, <<MakeReal(<<0, 1>>), MakeReal(<<0, 1>>), MakeReal(<<1, 1>>), MakeReal(<<1, 4>>)>>)
Bargraph(path) == Node("Bargraph", "", path, <<MakeReal(<<0, 1>>), MakeReal(<<1, 1>>)>>)
Group(name, a) == Make("Group", "", <<name>>, <<a>>)
Waveform(s) == Leaf("Waveform", s)
Route(value) == Leaf("Route", value)

(***************************************************************************)
(* Three operands, the first two combined first or the last two.           *)
(***************************************************************************)

Both(op, po, a, b, c) == {Of(op, <<Of(po, <<a, b>>), c>>), Of(op, <<c, Of(po, <<a, b>>)>>)}
Combined(ops, atoms) ==
  {Of2(e) : e \in UNION {Both(op, po, a, b, c) : op \in ops, po \in ops, a \in atoms, b \in atoms, c \in atoms}}

RealSums == Combined({"Add", "Sub", "Mul", "Div"}, {X, Y, I(-1), R(1, 2)})
IntSums ==
  Combined({"Add", "Sub", "Mul"}, {Rounded(X), Rounded(Y), I(0), I(3)})
    \cup Combined({"Rem", "OR", "LE", "Mul", "RightShift"}, {Rounded(X), Y, I(1)})

\* Two products, to be cancelled and factored.
Factors == {X, Y, Of("Mul", <<X, Y>>), R(1, 2)}
Products ==
  {Of2(Of(op, <<Of(po, <<a, b>>), Of(qo, <<c, X>>)>>)) :
     op \in {"Add", "Sub", "Div"}, po \in {"Mul", "Div"}, qo \in {"Mul", "Div"}, a \in Factors, b \in Factors, c \in Factors}

\* Three, two of which share more than the third.
Shares ==
  LET mul(a, b) == Of("Mul", <<a, b>>)
      square == mul(X, X)
  IN  {Of2(Of(op, <<Of(po, <<mul(square, a), mul(square, mul(Y, b))>>), Of(qo, <<c, X>>)>>)) :
         op \in {"Add", "Sub"}, po \in {"Add", "Sub"}, qo \in {"Mul", "Div"},
         a \in {R(1, 2), Y}, b \in {Y, I(3)}, c \in {Y, X, R(1, 2)}}

\* What is delayed or raised.
Inner == {Of(op, <<a, b>>) : op \in {"Mul", "Div", "Add"}, a \in {X, R(1, 2)}, b \in {Y, I(2), Slider(<<"s">>)}}
Delayed ==
  {Of2(Ago(e, d)) : e \in Inner \cup {Ago(e, I(1)) : e \in Inner}, d \in {I(0), I(1), I(2), Of("Abs", <<Rounded(Y)>>)}}
    \cup {Of2(Last1(Ago(e, Of("Abs", <<Rounded(Y)>>)))) : e \in Inner}
Powers == {Of2(Of("Pow", <<e, n>>)) : e \in Inner \cup {X, R(1, 2)}, n \in {I(-1), I(0), I(1), I(2), R(1, 2), R(2, 1)}}
    \cup {Lambda(1, Of("Pow", <<Rounded(X), I(n)>>)) : n \in 1..3}

(***************************************************************************)
(* Feedback.                                                               *)
(***************************************************************************)

Sum == P("Add")
Zeroed == Then(Beside(W, I(0)), P("Mul"))
Halved == Then(Beside(W, R(1, 2)), P("Mul"))
Crossed == Route(<<2, 2, 1, 2, 2, 1>>)
Feedback ==
  { Looped(Sum, W),                                                   \* the sum of all that came in
    Looped(Sum, Halved),
    Looped(Sum, Then(Halved, P("Mem"))),
    Looped(Then(Beside(RoundedWire, I(1)), Sum), W),                      \* a counter, of integers
    Then(Looped(Then(Beside(W, R(1, 2)), Sum), W), P("IntCast")),
    Looped(Then(Looped(Sum, Halved), W), W),                          \* a loop in the loop
    Looped(Looped(All(<<W, W, W>>), Beside(W, W)), W),
    Looped(Then(All(<<Sum, W>>), Crossed), Beside(W, W)),             \* two that feed each other
    Looped(Then(Beside(W, W), Crossed), Beside(W, W)),
    Beside(Looped(Sum, W), Looped(Sum, W)),                           \* one loop, twice
    Beside(Looped(Sum, Halved), Looped(Then(Sum, W), Halved)),
    Looped(Beside(Zeroed, Zeroed), Beside(W, W)),                     \* nothing is left of the loop
    Looped(Then(Beside(W, Zeroed), Sum), W),
    Looped(Of("Select2", <<Then(Beside(W, I(2)), P("LT")), W, Last1(W)>>), W),
    Looped(Then(Beside(Then(Beside(W, W), P("Max")), R(1, 2)), P("Mul")), W),
    Looped(Then(Beside(W, I(3)), P("Rem")), Then(Beside(W, I(1)), Sum)) }

(***************************************************************************)
(* Composition, slots, widgets, tables, selection and control.             *)
(***************************************************************************)

Swap == Lambda(1, Lambda(2, Beside(Y, X)))
Twice == Lambda(1, Of("Add", <<X, X>>))
Composed ==
  { Spread(W, Sum), Spread(Beside(W, R(1, 2)), All(<<Sum, P("Mul")>>)),
    Merged(All(<<W, R(1, 2), W, I(1)>>), P("Sub")), Merged(All(<<W, W, I(3), I(4), I(5), I(6)>>), Beside(W, P("Mul"))),
    Then(Swap, P("Sub")), Then(Swap, Swap), Then(Beside(Cut, W), Twice),
    Beside(Twice, Twice), Then(Beside(W, W), Beside(Twice, Twice)),
    Lambda(1, Then(Lambda(1, Of("Mul", <<X, R(1, 2)>>)), Lambda(2, Of("Sub", <<X, Y>>)))),
    Lambda(1, Lambda(1, X)), Lambda(1, Of("Sub", <<X, Then(Beside(I(1), X), Lambda(1, P("Add")))>>)),
    Route(<<2, 3, 1, 1, 2, 1, 2, 3, 1, 4, 0, 1>>), Then(Beside(W, I(0)), Route(<<2, 2, 1, 1, 2, 1>>)),
    Then(All(<<R(1, 2), I(0), I(1)>>), Route(<<3, 1, 2, 1, 3, 1, 1, 1>>)),
    Then(Waveform(<<3, 1, 2>>), Beside(W, W)),
    Beside(W, Leaf("Environment", <<>>)),
    Then(Lambda(1, W), X), Then(Beside(W, W), W), Then(W, Cut),
    Looped(W, Beside(W, W)), Spread(Beside(W, W), All(<<W, W, W>>)) }

Bound == Of("Mul", <<Slider(<<"s">>), Button(<<"b">>)>>)
Controls ==
  { Bound, Group("g", Bound), Beside(Group("g", Slider(<<"s">>)), Group("h", Slider(<<"s">>))),
    Beside(Group("g", Slider(<<"s">>)), Slider(<<"s">>)),
    Group("g", Beside(Slider(<<"/", "s">>), Group("h", Slider(<<"..", "s">>)))),
    Group("g", Group("h", Beside(Button(<<"..", "..", "..", "b">>), Button(<<"/", "g", "b">>)))),
    Beside(Then(W, Bargraph(<<"m">>)), Then(Halved, Bargraph(<<"m">>))),
    Then(RoundedWire, Bargraph(<<"m">>)), Then(W, Bargraph(<<"s">>)),
    Beside(Slider(<<"s">>), Then(W, Bargraph(<<"s">>))),
    Of("Attach", <<W, Then(Halved, Bargraph(<<"m">>))>>),
    Of("Mul", <<I(0), Slider(<<"s">>)>>), Beside(Button(<<"b">>), Then(Beside(Slider(<<"s">>), I(0)), P("AND"))),
    Lambda(1, Of("Add", <<Of("Mul", <<X, Slider(<<"s">>)>>), Of("Mul", <<Slider(<<"s">>), R(1, 2)>>)>>)),
    Of("Control", <<W, Button(<<"b">>)>>), Of("Enable", <<W, Button(<<"b">>)>>), Of("Enable", <<W, Slider(<<"s">>)>>),
    Of("Control", <<W, I(0)>>), Of("Control", <<W, I(1)>>), Of("Control", <<W, R(1, 2)>>), Of("Enable", <<W, I(2)>>),
    Of("Control", <<Last1(W), W>>) }

Selection ==
  {Of2(Of("Select2", <<s, a, Y>>)) : s \in {X, I(0), I(1), R(1, 2), Button(<<"b">>)}, a \in {Rounded(X), Y, I(1)}}
    \cup {Of2(Of("Select3", <<s, X, Rounded(Y), I(7)>>)) : s \in {Rounded(X), I(0), I(1), I(2), Button(<<"b">>)}}
    \cup {Of2(Of("Prefix", <<a, b>>)) : a \in {X, I(1), Rounded(Y)}, b \in {Y, Rounded(X)}}
    \cup {Of2(Of(prim, <<a, b>>)) : prim \in {"Min", "Max", "Fmod", "XOR", "LeftShift", "EQ", "GE"},
                                    a \in {X, Rounded(X), I(2)}, b \in {Y, Rounded(Y), R(1, 2)}}
    \cup {Of(prim, <<a>>) : prim \in {"Abs", "Floor", "Sqrt", "IntCast", "FloatCast"}, a \in {W, RoundedWire, R(9, 4)}}
    \cup {Of("IntCast", <<Of("FloatCast", <<RoundedWire>>)>>), Of("AssertBounds", <<I(0), I(1), W>>)}

Counter == Looped(Then(Beside(W, I(1)), Sum), W)
Index == Of("Rem", <<Of("Sub", <<Counter, I(1)>>), I(3)>>)
Tables ==
  {Of("RdTable", <<I(3), gen, Index>>) : gen \in {Counter, Of("Mul", <<Counter, R(1, 2)>>), Then(Beside(Cut, W), Waveform(<<2, 5>>)) }}
    \cup {Of("RdTable", <<Waveform(<<4, 2, 7>>), Index>>), Of("RdTable", <<I(2), I(5), W>>)}
    \cup {Of("RwTable", <<I(3), gen, Index, x, i>>) : gen \in {Counter, R(1, 2)}, x \in {W, RoundedWire}, i \in {I(0), Index, W}}

MCFamilies == {RealSums, IntSums, Products, Shares, Delayed, Powers, Feedback, Composed, Controls, Selection, Tables}

\* Circuits that do not keep their meaning: process(x) = x*assertbounds(0,1,0.5);
ConstantFactors == {{Lambda(1, Of("Mul", <<X, Of("AssertBounds", <<I(0), I(1), R(1, 2)>>)>>))}}
\* process = ((*(0),*(0)) ~ (_,_)), (((*(0):*(2)),*(0)) ~ (_,_));
Doubled == Then(Beside(W, I(2)), P("Mul"))
MergedGroups ==
  {{Beside(Looped(Beside(Zeroed, Zeroed), Beside(W, W)), Looped(Beside(Then(Zeroed, Doubled), Zeroed), Beside(W, W)))}}

(***************************************************************************)
(* Stimuli.                                                                *)
(***************************************************************************)

Reals(values) == [real |-> TRUE, at |-> values]
Opposites(s) == [t \in DOMAIN s |-> Opposite(s[t])]

Moved(b, s) == <<"b">> :> b @@ <<"s">> :> s @@ <<"g", "s">> :> Opposites(s) @@ <<"g", "b">> :> Opposites(b)

Same == <<Reals(<<<<1, 2>>, <<3, 1>>, <<-1, 1>>, <<0, 1>>>>), Reals(<<<<2, 1>>, <<2, 1>>, <<1, 2>>, <<-3, 1>>>>)>>

MCStimuli ==
  { [in |-> <<Reals(<<<<3, 1>>, <<-2, 1>>, <<1, 2>>, <<2, 1>>>>), Reals(<<<<5, 2>>, <<4, 1>>, <<-1, 1>>, <<2, 1>>>>)>> \o Same,
     shown |-> Moved(<<Whole(1), Whole(0), Whole(0), Whole(1)>>, <<<<1, 4>>, <<1, 4>>, <<1, 2>>, <<1, 1>>>>)],
    [in |-> <<Reals(<<<<1, 1>>, <<0, 1>>, <<2, 1>>, <<1, 1>>>>), Reals(<<<<0, 1>>, <<1, 1>>, <<-3, 2>>, <<1, 1>>>>)>> \o Same,
     shown |-> Moved(<<Whole(0), Whole(1), Whole(0), Whole(0)>>, <<<<0, 1>>, <<1, 1>>, <<1, 1>>, <<3, 4>>>>)] }
=============================================================================
