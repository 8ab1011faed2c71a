------------------------------- MODULE Simplify -------------------------------
(***************************************************************************)
(* Simplify.cpp: one rewrite of a node whose operands are simplified.      *)
(* The rules are tried in order; the first that fits gives the result.     *)
(***************************************************************************)
EXTENDS Terms

When(fits, t) == IF fits THEN <<t>> ELSE <<>>
Truth01(b) == MakeInt(Truth(b))

(***************************************************************************)
(* Literals.                                                               *)
(***************************************************************************)

AsI(t) == Truncated(t.value)
BothInt(x, y) == IsInt(x) /\ IsInt(y)
IsNegativeNum(t) == IsNum(t) /\ Less(t.value, Whole(0))
Negate(t) == IF IsInt(t) THEN MakeInt(-t.value[1]) ELSE MakeReal(Opposite(t.value))

ShiftBits(n) == Unsigned(n) % IntBits
Shifted(op, x, n) ==
  IF op = "LeftShift" THEN Wrap(x * 2 ^ ShiftBits(n)) ELSE x \div 2 ^ ShiftBits(n)

FractionCompared(op, p, q) == Compared(op, p[1] * q[2], q[1] * p[2])

\* A literal of the value q of two literals; a quotient of integers is an
\* integer where it is whole.
Literal(x, y, q) == IF BothInt(x, y) /\ q[2] = 1 THEN MakeInt(q[1]) ELSE MakeReal(q)

\* What two literals make; a division by zero is left to the program.
Compute(op, x, y) ==
  IF op \in {"Div", "Rem"} /\ IsNumber(y, 0) THEN <<>>
  ELSE <<CASE op \in {"LeftShift", "RightShift"} -> MakeInt(Shifted(op, AsI(x), AsI(y)))
           [] IsComparison(op) -> MakeInt(FractionCompared(op, x.value, y.value))
           [] op \in {"AND", "OR", "XOR"} -> MakeInt(IntegerBinary(op, AsI(x), AsI(y)))
           [] OTHER -> Literal(x, y, Exact(op, x.value, y.value))>>

(***************************************************************************)
(* Operators.                                                              *)
(***************************************************************************)

\* What an operator's result does not depend on, and what it is decided by.
Neutral(op) ==
  CASE op \in {"Add", "Sub", "LeftShift", "RightShift", "OR"} -> {0}
    [] op \in {"Mul", "Div"} -> {1}
    [] op = "AND" -> {-1}
    [] OTHER -> {}
LeftNeutral(op) == IF op \in {"Sub", "Div", "LeftShift", "RightShift"} THEN {} ELSE Neutral(op)
Absorbing(op) ==
  CASE op \in {"Mul", "AND"} -> {0}
    [] op = "OR" -> {-1}
    [] OTHER -> {}
Holds(numbers, t) == \E n \in numbers : IsNumber(t, n)

\* n * (a - b) with n < 0 is -n * (b - a).
NegatedDifference(op, n, d) ==
  LET flipped == MakeBin("Sub", Kid(d, 2), Kid(d, 1))
  IN  When(op = "Mul" /\ IsNegativeNum(n) /\ IsBinOp(d, "Sub"),
           IF IsNumber(n, -1) THEN flipped ELSE MakeBin("Mul", Negate(n), flipped))

\* n * (m * a) is (n * m) * a.
TimesLiteral(m, t) == IF IsNumber(m, 1) THEN t ELSE MakeBin("Mul", m, t)
ScaledProduct(op, n, y, i) ==
  When(op = "Mul" /\ IsNum(n) /\ IsBinOp(y, "Mul") /\ IsNum(Kid(y, i)),
       TimesLiteral(Literal(n, Kid(y, i), Times(n.value, Kid(y, i).value)), Kid(y, 3 - i)))

Units(op, x, y) ==
  When(Holds(LeftNeutral(op), x), y) \o When(Holds(Absorbing(op), x), x)
    \o When(Holds(Neutral(op), y), x) \o When(Holds(Absorbing(op), y), y)

SameOperands(op, x) ==
  When(op \in {"AND", "OR"}, x) \o When(op \in {"GE", "LE", "EQ"}, MakeInt(1))
    \o When(op \in {"GT", "LT", "NE", "Rem", "XOR"}, MakeInt(0))

IsBool(t) == t.kind = "BinOp" /\ IsComparison(t.form)
WithTrue(op, one, b) ==
  When(op \in {"AND", "OR"} /\ IsNumber(one, 1) /\ IsBool(b), IF op = "AND" THEN b ELSE MakeInt(1))

SimpBinOp(op, x, y) ==
  Head(IF IsNum(x) /\ IsNum(y) THEN Compute(op, x, y) \o <<MakeBin(op, x, y)>>
       ELSE NegatedDifference(op, x, y) \o NegatedDifference(op, y, x)
              \o ScaledProduct(op, x, y, 1) \o ScaledProduct(op, x, y, 2)
              \o When(op = "Sub" /\ IsNumber(x, 0), MakeBin("Mul", MakeInt(-1), y))
              \o Units(op, x, y)
              \o (IF x = y THEN SameOperands(op, x) ELSE WithTrue(op, x, y) \o WithTrue(op, y, x))
              \o <<MakeBin(op, x, y)>>)

(***************************************************************************)
(* Casts, selection, control, delays.                                      *)
(***************************************************************************)

SimpIntCast(x) ==
  CASE IsInt(x) -> x
    [] x.kind = "Real" -> MakeInt(Truncated(x.value))
    [] OTHER -> Make("IntCast", "", <<>>, <<x>>)

SimpFloatCast(x) ==
  CASE IsInt(x) -> MakeReal(x.value)
    [] x.kind = "Real" -> x
    [] OTHER -> Make("FloatCast", "", <<>>, <<x>>)

SimpSelect2(sel, a, b) ==
  Head(When(IsNumber(sel, 0), a) \o When(IsNum(sel), b) \o When(a = b, a)
         \o <<Make("Select2", "", <<>>, <<sel, a, b>>)>>)

SimpControl(x, cond) ==
  Head(When(IsNumber(cond, 0), MakeInt(0)) \o When(IsNumber(cond, 1), x)
         \o <<Make("Control", "", <<>>, <<x, cond>>)>>)

\* Mutant: any factor, one that changes from sample to sample too, moves
\* out of a delay.
ConstantAny(t) == TRUE

\* Only what never changes moves out of a delay.
Constant(t) == Order(t) < 2

\* A delay by 0 stays on a projection, where it marks the current output.
RECURSIVE SimpDelay(_, _)
SimpDelay(x, d) ==
  Head(When(IsNumber(d, 0) /\ x.kind = "Proj", Make("Delay", "", <<>>, <<x, d>>))
         \o When(IsNumber(d, 0), x)
         \o When(IsNumber(x, 0), x)
         \o When(IsBinOp(x, "Mul") /\ Constant(Kid(x, 1)), MakeBin("Mul", Kid(x, 1), SimpDelay(Kid(x, 2), d)))
         \o When(IsBinOp(x, "Mul") /\ Constant(Kid(x, 2)), MakeBin("Mul", Kid(x, 2), SimpDelay(Kid(x, 1), d)))
         \o When(IsBinOp(x, "Div") /\ Constant(Kid(x, 2)), MakeBin("Div", SimpDelay(Kid(x, 1), d), Kid(x, 2)))
         \o When(x.kind = "Delay" /\ Constant(Kid(x, 2)), SimpDelay(Kid(x, 1), SimpBinOp("Add", d, Kid(x, 2))))
         \o <<Make("Delay", "", <<>>, <<x, d>>)>>)
SimpDelay1(x) == SimpDelay(x, MakeInt(1))

(***************************************************************************)
(* Functions.  A power or root of literals that is no fraction stays.      *)
(***************************************************************************)

Power[q \in Int \X Nat, n \in Nat] == IF n = 0 THEN Whole(1) ELSE Times(q, Power[q, n - 1])
IntPower[x \in Int, n \in Nat] == IF n = 0 THEN 1 ELSE Wrap(x * IntPower[x, n - 1])
RealPower(q, n) == IF n >= 0 THEN Power[q, n] ELSE Over(Whole(1), Power[q, -n])

\* The square root of a fraction, where it is one.
Root(q) ==
  LET isRoot(r) == Times(r, r) = q /\ Fraction(r[1], r[2]) = r
  IN  SetToSeq({r \in {<<n, d>> : n \in 0..Magnitude(q[1]), d \in 1..q[2]} : isRoot(r)})

PowerRules(x, y) ==
  LET root(t) == Extended("Sqrt", <<t>>)
  IN  When(~IsNum(x) /\ IsNumber(y, 0), MakeReal(Whole(1)))
        \o When(~IsNum(x) /\ IsNumber(y, 1), x)
        \o When(~IsNum(x) /\ IsNum(y) /\ y.value = <<1, 2>>, root(x))
        \o When(~IsNum(x) /\ IsNum(y) /\ y.value = <<1, 4>>, root(root(x)))

RealLiterals(qs) == [i \in DOMAIN qs |-> MakeReal(qs[i])]

\* The power of two literals, where it is a fraction.
PowerOf(x, y) ==
  CASE BothInt(x, y) /\ y.value[1] > 0 -> <<MakeInt(IntPower[x.value[1], y.value[1]])>>
    [] y.value = <<1, 2>> -> RealLiterals(Root(x.value))
    [] y.value[2] > 2 \/ (y.value[2] = 2 /\ y.value[1] # 1) \/ (IsNumber(x, 0) /\ y.value[1] < 0) -> <<>>
    [] BothInt(x, y) /\ y.value[1] <= 0 -> <<MakeInt(Truncated(RealPower(x.value, y.value[1])))>>
    [] OTHER -> <<MakeReal(RealPower(x.value, y.value[1]))>>

Extreme(form, p, q) ==
  CASE form = "Abs" -> Size(p)
    [] form = "Min" -> IF Less(q, p) THEN q ELSE p
    [] form = "Max" -> IF Less(p, q) THEN q ELSE p

Folded(form, x, y) ==
  CASE form \in {"Abs", "Min", "Max"} -> <<Literal(x, y, Extreme(form, x.value, y.value))>>
    [] form = "Pow" -> PowerOf(x, y)
    [] form = "Fmod" -> IF IsNumber(y, 0) THEN <<>> ELSE <<MakeReal(Remaining(x.value, y.value))>>
    [] form = "Sqrt" -> RealLiterals(Root(x.value))
    [] form = "Floor" -> <<MakeReal(Whole(x.value[1] \div x.value[2]))>>
    [] OTHER -> <<>>

SimpExtended(form, args) ==
  Head((IF form = "Pow" THEN PowerRules(args[1], args[2]) ELSE <<>>)
         \o (IF \A a \in ToSet(args) : IsNum(a) THEN Folded(form, args[1], Last(args)) ELSE <<>>)
         \o <<Extended(form, args)>>)
=============================================================================
