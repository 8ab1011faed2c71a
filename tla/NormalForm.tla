------------------------------ MODULE NormalForm ------------------------------
(***************************************************************************)
(* NormalForm.cpp: a sum as a set of products, from which common factors   *)
(* are taken out one after the other, and the sum put together again by    *)
(* how often its parts change.                                             *)
(*                                                                         *)
(* A product (MTerm) is [coef, factors]: a literal and the exponent of     *)
(* each factor.  A sum (ATerm) has one product for every signature, the    *)
(* product's factors without its coefficient.  Maps are walked in any      *)
(* fixed order where the code walks them by id.                            *)
(***************************************************************************)
EXTENDS Simplify

NoTerm == Node("None", "", <<>>, <<>>)
AddNums(a, b) == SimpBinOp("Add", a, b)
SubNums(a, b) == SimpBinOp("Sub", a, b)
MulNums(a, b) == SimpBinOp("Mul", a, b)
DivNums(a, b) == SimpBinOp("Div", a, b)
MinusNum(a) == MulNums(MakeInt(-1), a)
SameMagnitude(a, b) == IsNum(a) /\ IsNum(b) /\ Size(a.value) = Size(b.value)
IsGEZero(a) == IsNum(a) /\ ~Less(a.value, Whole(0))

IsPow(t) == t.kind = "Extended" /\ t.form = "Pow" /\ IsInt(Kid(t, 2))
PowTerm(t, n) == IF n > 1 THEN Extended("Pow", <<t, MakeInt(n)>>) ELSE t

(***************************************************************************)
(* Products.                                                               *)
(***************************************************************************)

Product(coef, factors) == [coef |-> coef, factors |-> factors]
Number(n) == Product(MakeInt(n), <<>>)
IsNotZero(m) == ~IsNumber(m.coef, 0)
IsNegative(m) == ~IsGEZero(m.coef)

Exponent(m, f) == IF f \in DOMAIN m.factors THEN m.factors[f] ELSE 0
Cleanup(m) ==
  Product(m.coef, IF IsNotZero(m) THEN [f \in {f \in DOMAIN m.factors : m.factors[f] # 0} |-> m.factors[f]] ELSE <<>>)
\* The factors of m, and n times those of the factors given.
Multiplied(m, factors, n) ==
  [f \in DOMAIN m.factors \cup DOMAIN factors |->
     Exponent(m, f) + n * (IF f \in DOMAIN factors THEN factors[f] ELSE 0)]
MulBy(m, by) == Cleanup(Product(MulNums(m.coef, by.coef), Multiplied(m, by.factors, 1)))
DivBy(m, by) == Cleanup(Product(DivNums(m.coef, by.coef), Multiplied(m, by.factors, -1)))

\* m times t, or divided by t if the sign is -1.
RECURSIVE Scale(_, _, _)
Scale(m, t, sign) ==
  CASE IsNum(t) -> [m EXCEPT !.coef = SimpBinOp(IF sign > 0 THEN "Mul" ELSE "Div", @, t)]
    [] IsBinOp(t, "Mul") -> Scale(Scale(m, Kid(t, 1), sign), Kid(t, 2), sign)
    [] IsBinOp(t, "Div") -> Scale(Scale(m, Kid(t, 1), sign), Kid(t, 2), -sign)
    [] IsPow(t) -> [m EXCEPT !.factors = Multiplied(m, Kid(t, 1) :> Kid(t, 2).value[1], sign)]
    [] OTHER -> [m EXCEPT !.factors = Multiplied(m, t :> 1, sign)]
ProductOf(t) == Scale(Number(1), t, 1)

\* Signs cost nothing, so that taking them out comes to an end.
Complexity(m) ==
  MapThenSumSet(LAMBDA f : (1 + Order(f)) * Magnitude(m.factors[f]), DOMAIN m.factors)
    + (IF IsNumber(m.coef, 1) \/ IsNumber(m.coef, -1) THEN 0 ELSE 1)

\* Two products of one signature.
CombineProducts(m, n, negate) ==
  Cleanup(CASE ~IsNotZero(n) -> m
            [] ~IsNotZero(m) /\ IsNotZero(n) -> Product(IF negate THEN MinusNum(n.coef) ELSE n.coef, n.factors)
            [] OTHER -> [m EXCEPT !.coef = SimpBinOp(IF negate THEN "Sub" ELSE "Add", @, n.coef)])

HasDivisor(m, d) ==
  IF DOMAIN d.factors = {} THEN SameMagnitude(m.coef, d.coef)
  ELSE \A f \in DOMAIN d.factors :
         /\ f \in DOMAIN m.factors
         /\ Signum(m.factors[f]) = Signum(d.factors[f]) /\ Magnitude(m.factors[f]) >= Magnitude(d.factors[f])

GcdOf(a, b) ==
  LET shared(f) == IF a.factors[f] > 0 /\ b.factors[f] > 0 THEN Min({a.factors[f], b.factors[f]})
                   ELSE IF a.factors[f] < 0 /\ b.factors[f] < 0 THEN Max({a.factors[f], b.factors[f]}) ELSE 0
  IN  Product(IF SameMagnitude(a.coef, b.coef) THEN a.coef ELSE MakeInt(1),
              [f \in {f \in DOMAIN a.factors \cap DOMAIN b.factors : shared(f) # 0} |-> shared(f)])

\* A product from left to right; NoTerm is the empty one.
MulLeft(r, t) == IF r = NoTerm THEN t ELSE MakeBin("Mul", r, t)
DivLeft(r, t) == MakeBin("Div", IF r = NoTerm THEN MakeReal(Whole(1)) ELSE r, t)

\* The factors of one order above or below the line.
FactorsOf(m, order, sign) ==
  FoldSet(LAMBDA f, r : MulLeft(r, PowTerm(f, Magnitude(m.factors[f]))), NoTerm,
          {f \in DOMAIN m.factors : Order(f) = order /\ sign * m.factors[f] > 0})
TimesQuotient(r, above, below) ==
  CASE above # NoTerm /\ below # NoTerm -> MulLeft(r, MakeBin("Div", above, below))
    [] above # NoTerm /\ below = NoTerm -> MulLeft(r, above)
    [] above = NoTerm /\ below # NoTerm -> DivLeft(r, below)
    [] OTHER -> r
OrOne(t) == IF t = NoTerm THEN MakeInt(1) ELSE t

\* The product as a term: a quotient for every order, the coefficient being
\* all there is at order 0 above the line.
ProductTree(m, coef) ==
  LET part(r, order) ==
        TimesQuotient(r, IF order = 0 THEN coef ELSE FactorsOf(m, order, 1), FactorsOf(m, order, -1))
  IN  OrOne(FoldLeft(part, NoTerm, <<0, 1, 2, 3>>))

\* The factors of m with a coefficient.
TermOf(m, coef) ==
  IF DOMAIN m.factors = {} \/ ~IsNotZero(m) THEN coef
  ELSE ProductTree(m, IF IsNumber(coef, 1) THEN NoTerm ELSE coef)
Signature(m) == TermOf(m, MakeInt(1))
AsTerm(m, negate) == TermOf(m, IF negate THEN MinusNum(m.coef) ELSE m.coef)

(***************************************************************************)
(* Sums.                                                                   *)
(***************************************************************************)

CombineAt(a, sig, m, sub) ==
  IF sig \in DOMAIN a THEN [a EXCEPT ![sig] = CombineProducts(@, m, sub)]
  ELSE (sig :> IF sub THEN MulBy(m, Number(-1)) ELSE m) @@ a
Combine(a, m, sub) == CombineAt(a, Signature(m), m, sub)

RECURSIVE AddTree(_, _, _)
AddTree(a, t, positive) ==
  CASE IsBinOp(t, "Add") -> AddTree(AddTree(a, Kid(t, 1), positive), Kid(t, 2), positive)
    [] IsBinOp(t, "Sub") -> AddTree(AddTree(a, Kid(t, 1), positive), Kid(t, 2), ~positive)
    [] OTHER -> Combine(a, ProductOf(t), ~positive)

\* The most complex factor two products of the sum share.
GreatestDivisor(a) ==
  LET shared == {GcdOf(a[p[1]], a[p[2]]) : p \in {q \in (DOMAIN a) \X (DOMAIN a) : q[1] # q[2]}}
      best == {d \in shared : \A e \in shared : Complexity(e) <= Complexity(d)}
  IN  IF \E d \in best : Complexity(d) > 0 THEN CHOOSE d \in best : TRUE ELSE Number(1)

\* Products by their sign, the sum of those of one order.
SimplifyingAdd(x, y) ==
  LET first == CHOOSE t \in {x, y} : TRUE
  IN  Head(When(IsNum(x) /\ IsNum(y), AddNums(x, y)) \o When(IsNumber(x, 0), y) \o When(IsNumber(y, 0), x)
             \o <<MakeBin("Add", first, IF first = x THEN y ELSE x)>>)

WithSign(positive, t) == [positive |-> positive, t |-> t]
AddSigned(p, q) ==
  CASE IsNumber(p.t, 0) -> q
    [] IsNumber(q.t, 0) /\ ~IsNumber(p.t, 0) -> p
    [] OTHER -> CASE p.positive /\ q.positive -> WithSign(TRUE, MakeBin("Add", p.t, q.t))
                  [] p.positive /\ ~q.positive -> WithSign(TRUE, MakeBin("Sub", p.t, q.t))
                  [] ~p.positive /\ q.positive -> WithSign(TRUE, MakeBin("Sub", q.t, p.t))
                  [] OTHER -> WithSign(FALSE, MakeBin("Add", p.t, q.t))

TermsOf(a) == [s \in DOMAIN a |-> WithSign(~IsNegative(a[s]), AsTerm(a[s], IsNegative(a[s])))]
PartOf(terms, order, positive) ==
  FoldSet(LAMBDA s, r : SimplifyingAdd(r, terms[s].t), MakeInt(0),
          {s \in DOMAIN terms : terms[s].positive = positive /\ Order(terms[s].t) = order})
PartsOf(terms) == [order \in 0..3 |-> [positive \in BOOLEAN |-> PartOf(terms, order, positive)]]
SumOfParts(parts) ==
  LET added(s, order) ==
        AddSigned(WithSign(TRUE, parts[order][TRUE]), AddSigned(WithSign(FALSE, parts[order][FALSE]), s))
  IN  FoldLeft(added, WithSign(TRUE, SubNums(parts[0][TRUE], parts[0][FALSE])), <<3, 2, 1>>)
SignedTerm(s) == IF s.positive THEN s.t ELSE MakeBin("Mul", MakeInt(-1), s.t)
SumTree(a) == SignedTerm(SumOfParts(PartsOf(TermsOf(a))))

\* The sum of some of the products.
Collected(products, sigs) == FoldSet(LAMBDA s, a : Combine(a, products[s], FALSE), <<>>, sigs)
Factorize(a, d) ==
  LET divided == {s \in DOMAIN a : HasDivisor(a[s], d)}
      quotients == [s \in divided |-> DivBy(a[s], d)]
  IN  AddTree(Collected(a, DOMAIN a \ divided),
              MakeBin("Mul", AsTerm(d, FALSE), SumTree(Collected(quotients, divided))), TRUE)

RECURSIVE Factorized(_)
FactorizedBy(a, d) == IF IsNotZero(d) /\ Complexity(d) > 0 THEN Factorized(Factorize(a, d)) ELSE a
Factorized(a) == FactorizedBy(a, GreatestDivisor(a))

NormalizeAddTerm(t) == SumTree(Factorized(AddTree(<<>>, t, TRUE)))

(***************************************************************************)
(* The pass.                                                               *)
(***************************************************************************)

Ruled(t, kids) ==
  CASE t.kind = "BinOp"     -> SimpBinOp(t.form, kids[1], kids[2])
    [] t.kind = "Delay1"    -> SimpDelay1(kids[1])
    [] t.kind = "Delay"     -> SimpDelay(kids[1], kids[2])
    [] t.kind = "IntCast"   -> SimpIntCast(kids[1])
    [] t.kind = "FloatCast" -> SimpFloatCast(kids[1])
    [] t.kind = "Select2"   -> SimpSelect2(kids[1], kids[2], kids[3])
    [] t.kind = "Control"   -> SimpControl(kids[1], kids[2])
    [] t.kind = "Extended"  -> SimpExtended(t.form, kids)
    [] OTHER -> Rebuilt(t, kids)

\* An operator that no rule changed is brought into normal form, a power always.
Normalized(t, kids, r) ==
  IF (t.kind = "BinOp" /\ r = Rebuilt(t, kids)) \/ (t.kind = "Extended" /\ t.form = "Pow")
  THEN NormalizeAddTerm(r) ELSE r

SimplifyNode(t, kids) == Normalized(t, kids, Ruled(t, kids))

Simplified(groups, roots) == Rewrite(groups, roots, SimplifyNode)
=============================================================================
