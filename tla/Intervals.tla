------------------------------ MODULE Intervals ------------------------------
(***************************************************************************)
(* The numbers of a plan and the intervals the compiler infers for them:   *)
(* Interval.cpp, and IntegerBinary of Math.h.                              *)
(*                                                                         *)
(* An integer has IntBits bits.  A double is an integer without that limit *)
(* (the graphs compute with whole numbers only), and what is beyond +-Huge *)
(* is infinite.  Of an interval's resolution (Lsb) the code asks whether   *)
(* it is an integer's, Lsb >= 0: the field `whole'.                        *)
(***************************************************************************)
EXTENDS Integers, FiniteSetsExt

LOCAL INSTANCE Bitwise

CONSTANTS IntBits, Huge

MinInt == -(2 ^ (IntBits - 1))
MaxInt == 2 ^ (IntBits - 1) - 1
Unsigned(x) == x % 2 ^ IntBits
Signed(x) == IF x > MaxInt THEN x - 2 ^ IntBits ELSE x

Wrap(x) == Signed(Unsigned(x))
Saturated(x) == Max({MinInt, Min({MaxInt, x})})

Truth(b) == IF b THEN 1 ELSE 0
Magnitude(x) == IF x < 0 THEN -x ELSE x
Signum(x) == IF x < 0 THEN -1 ELSE 1

Compared(op, x, y) ==
  Truth(CASE op = "GT" -> x > y [] op = "LT" -> x < y [] op = "GE" -> x >= y
          [] op = "LE" -> x <= y [] op = "EQ" -> x = y [] op = "NE" -> x # y)

IntegerBinary(op, x, y) ==
  CASE op = "Add" -> Wrap(x + y)
    [] op = "Sub" -> Wrap(x - y)
    [] op = "Mul" -> Wrap(x * y)
    [] op = "Rem" -> IF y = 0 THEN x ELSE Signum(x) * (Magnitude(x) % Magnitude(y))
    [] op = "AND" -> Signed(Unsigned(x) & Unsigned(y))
    [] op = "OR"  -> Signed(Unsigned(x) | Unsigned(y))
    [] op = "XOR" -> Signed(Unsigned(x) ^^ Unsigned(y))
    [] OTHER -> Compared(op, x, y)

RealBinary(op, x, y) ==
  CASE op = "Add" -> x + y
    [] op = "Sub" -> x - y
    [] op = "Mul" -> x * y
    [] OTHER -> Compared(op, x, y)

(***************************************************************************)
(* Intervals.                                                              *)
(***************************************************************************)

Finite(x) == Max({-Huge, Min({Huge, x})})
Interval(a, b, whole) == [lo |-> Finite(Min({a, b})), hi |-> Finite(Max({a, b})), whole |-> whole]

Top == Interval(-Huge, Huge, FALSE)
Zero == Interval(0, 0, FALSE)
IntNum(x) == Interval(x, x, TRUE)
\* The resolution of a double is far below 1, except that of 0.
RealNum(x) == Interval(x, x, x = 0)

Has(i, x) == i.lo <= x /\ x <= i.hi
SameBounds(i, j) == i.lo = j.lo /\ i.hi = j.hi
Reunion(i, j) == Interval(Min({i.lo, j.lo}), Max({i.hi, j.hi}), i.whole /\ j.whole)

IntCast(i) == Interval(Saturated(i.lo), Saturated(i.hi), TRUE)
FloatCast(i) == Interval(i.lo, i.hi, FALSE)

\* Mutant: the bounds of a sum are added without regard to its wrap.
AddIUnwrapped(x, y) == Interval(x.lo + y.lo, x.hi + y.hi, x.whole /\ y.whole)

AddI(x, y) ==
  LET lo == x.lo + y.lo
      hi == x.hi + y.hi
      integers == x.whole /\ y.whole
  IN  CASE ~integers -> Interval(lo, hi, FALSE)
        [] integers /\ ((lo < MinInt /\ hi >= MinInt) \/ (lo <= MaxInt /\ hi > MaxInt)) ->
             Interval(MinInt, MaxInt, TRUE)
        [] OTHER -> Interval(Wrap(Saturated(x.lo) + Saturated(y.lo)),
                             Wrap(Saturated(x.hi) + Saturated(y.hi)), TRUE)

SubI(x, y) == Interval(x.lo - y.hi, x.hi - y.lo, x.whole /\ y.whole)

MulI(x, y) ==
  LET ends == {x.lo * y.lo, x.lo * y.hi, x.hi * y.lo, x.hi * y.hi}
      largest(i) == Max({Magnitude(i.lo), Magnitude(i.hi)})
      integers == x.whole /\ y.whole
  IN  IF integers /\ largest(x) * largest(y) >= MaxInt
      THEN Interval(MinInt, MaxInt, TRUE)
      ELSE Interval(Min(ends), Max(ends), integers)

CompareI(x, y, strict) ==
  CASE IF strict THEN x.lo > y.hi ELSE x.lo >= y.hi -> IntNum(1)
    [] IF strict THEN x.hi <= y.lo ELSE x.hi < y.lo -> IntNum(0)
    [] OTHER -> Interval(0, 1, TRUE)

EqualityI(x, y, same) ==
  CASE x.lo = x.hi /\ x.hi = y.lo /\ y.lo = y.hi -> IntNum(Truth(same))
    [] x.hi < y.lo \/ x.lo > y.hi -> IntNum(1 - Truth(same))
    [] OTHER -> Interval(0, 1, TRUE)

AbsI(x) ==
  CASE x.lo >= 0 -> x
    [] x.lo < 0 /\ x.whole /\ x.lo <= MinInt ->
         Interval(IF x.hi >= 0 THEN 0 ELSE Min({Magnitude(x.hi), MaxInt}), MaxInt, TRUE)
    [] x.hi <= 0 /\ ~(x.whole /\ x.lo <= MinInt) -> Interval(-x.hi, -x.lo, x.whole)
    [] OTHER -> Interval(0, Max({Magnitude(x.lo), Magnitude(x.hi)}), x.whole)

MinI(x, y) == Interval(Min({x.lo, y.lo}), Min({x.hi, y.hi}), x.whole /\ y.whole)
MaxI(x, y) == Interval(Max({x.lo, y.lo}), Max({x.hi, y.hi}), x.whole /\ y.whole)

(***************************************************************************)
(* Bitwise operators: the tightest bounds of an `or', found on unsigned    *)
(* intervals by splitting at the highest bit; `and' and `xor' from it.     *)
(***************************************************************************)

U(lo, hi) == [lo |-> lo, hi |-> hi]
Largest == 2 ^ IntBits - 1
UEmpty == U(Largest, 0)
IsEmptyU(i) == i.lo > i.hi
UnionU(a, b) ==
  CASE IsEmptyU(a) -> b
    [] IsEmptyU(b) /\ ~IsEmptyU(a) -> a
    [] OTHER -> U(Min({a.lo, b.lo}), Max({a.hi, b.hi}))
NotU(a) == U(Largest - a.hi, Largest - a.lo)
Unoffset(a, d) == U(a.lo - d, a.hi - d)
IsZeroU(a) == a.lo = 0 /\ a.hi = 0

Msb(x) == Max({0} \cup {b \in {2 ^ k : k \in 0..(IntBits - 1)} : b <= x})
\* The two halves of an interval, below and from its highest bit m.
Below(x, m) == IF m <= x.lo THEN UEmpty ELSE U(x.lo, m - 1)
From(x, m)  == IF m <= x.lo THEN x ELSE U(m, x.hi)

RECURSIVE HiOr(_, _)
HiOr(a, b) ==
  LET ma == Msb(a.hi)
      mb == Msb(b.hi)
      top(x, m) == Unoffset(From(x, m), m)
  IN  CASE IsZeroU(a) -> b.hi
        [] IsZeroU(b) /\ ~IsZeroU(a) -> a.hi
        [] ~IsZeroU(a) /\ ~IsZeroU(b) /\ (a.hi = 2 * ma - 1 \/ b.hi = 2 * mb - 1) -> a.hi | b.hi
        [] OTHER ->
             CASE mb > ma -> IF a.lo <= mb - 1 /\ mb - 1 <= a.hi THEN 2 * mb - 1
                             ELSE HiOr(top(b, mb), a) + mb
               [] ma > mb -> HiOr(b, a)
               [] OTHER -> ma + Max({HiOr(top(a, ma), top(b, ma))}
                             \cup {HiOr(top(a, ma), y) : y \in {Below(b, ma)} \ {UEmpty}}
                             \cup {HiOr(x, top(b, ma)) : x \in {Below(a, ma)} \ {UEmpty}})

RECURSIVE LoOr(_, _)
LoOr(a, b) ==
  LET ma == Msb(a.hi)
      mb == Msb(b.hi)
      a0 == Below(a, ma)
      b0 == Below(b, mb)
      top(x, m) == Unoffset(From(x, m), m)
      \* Both keep the highest bit, or one of them does and the other is below it.
      both == IF ma = mb THEN {ma + LoOr(top(a, ma), top(b, ma))} ELSE {}
  IN  CASE a.lo = 0 -> b.lo
        [] b.lo = 0 /\ a.lo # 0 -> a.lo
        [] OTHER ->
             CASE ma > mb -> IF IsEmptyU(a0) THEN ma + LoOr(top(a, ma), b) ELSE LoOr(a0, b)
               [] mb > ma -> LoOr(b, a)
               [] ~IsEmptyU(a0) /\ ~IsEmptyU(b0) /\ ma = mb -> LoOr(a0, b0)
               [] OTHER -> Min(both \cup {ma + LoOr(top(a, ma), y) : y \in {b0} \ {UEmpty}}
                                    \cup {ma + LoOr(x, top(b, ma)) : x \in {a0} \ {UEmpty}})

OrU(a, b) ==
  CASE IsZeroU(a) -> b
    [] IsZeroU(b) /\ ~IsZeroU(a) -> a
    [] OTHER -> IF IsEmptyU(a) \/ IsEmptyU(b) THEN UEmpty ELSE U(LoOr(a, b), HiOr(a, b))
AndU(a, b) == NotU(OrU(NotU(a), NotU(b)))
XorU(a, b) == AndU(OrU(a, b), NotU(AndU(a, b)))

\* The negative and the nonnegative part of a signed interval, and back.
Negative(x) ==
  CASE x.hi < 0 -> U(Unsigned(x.lo), Unsigned(x.hi))
    [] x.lo >= 0 -> UEmpty
    [] OTHER -> U(Unsigned(x.lo), Largest)
Positive(x) ==
  CASE x.hi < 0 -> UEmpty
    [] x.lo >= 0 -> U(x.lo, x.hi)
    [] OTHER -> U(0, x.hi)
SignMerge(n, p) ==
  CASE IsEmptyU(n) -> p
    [] IsEmptyU(p) /\ ~IsEmptyU(n) -> U(Signed(n.lo), Signed(n.hi))
    [] OTHER -> U(Signed(n.lo), p.hi)
NotS(a) == U(-1 - a.hi, -1 - a.lo)

OrS(a, b) ==
  LET an == Negative(a)  ap == Positive(a)
      bn == Negative(b)  bp == Positive(b)
  IN  SignMerge(UnionU(UnionU(OrU(an, bp), OrU(an, bn)), OrU(ap, bn)), OrU(ap, bp))
AndS(a, b) == NotS(OrS(NotS(a), NotS(b)))
XorS(a, b) ==
  LET an == Negative(a)  ap == Positive(a)
      bn == Negative(b)  bp == Positive(b)
  IN  SignMerge(UnionU(XorU(an, bp), XorU(ap, bn)), UnionU(XorU(ap, bp), XorU(an, bn)))

AsSigned(x) == U(Saturated(x.lo), Saturated(x.hi))
FromBits(z) == Interval(z.lo, z.hi, TRUE)

Arithmetic(op, x, y) ==
  CASE op = "Add" -> AddI(x, y)
    [] op = "Sub" -> SubI(x, y)
    [] op = "Mul" -> MulI(x, y)
    [] op = "GT"  -> CompareI(x, y, TRUE)
    [] op = "LT"  -> CompareI(y, x, TRUE)
    [] op = "GE"  -> CompareI(x, y, FALSE)
    [] op = "LE"  -> CompareI(y, x, FALSE)
    [] op = "EQ"  -> EqualityI(x, y, TRUE)
    [] op = "NE"  -> EqualityI(x, y, FALSE)
    [] op = "AND" -> FromBits(AndS(AsSigned(x), AsSigned(y)))
    [] op = "OR"  -> FromBits(OrS(AsSigned(x), AsSigned(y)))
    [] op = "XOR" -> FromBits(XorS(AsSigned(x), AsSigned(y)))
=============================================================================
