-------------------------------- MODULE Terms --------------------------------
(***************************************************************************)
(* Signals as terms: Signal.h, Signal.cpp, Rewrite.h.                      *)
(*                                                                         *)
(* A signal is a term [kind, form, value, kids].  Terms with one content   *)
(* are one signal, as the arena hash-conses them; only a recursive group   *)
(* has an identity of its own, its place in a store of groups.  What the   *)
(* code orders by the id of a signal is here in any fixed order.           *)
(*                                                                         *)
(* A literal is a fraction <<n, d>>; that of an Int is whole and has       *)
(* IntBits bits, that of a Real is exact where a double is rounded.        *)
(***************************************************************************)
EXTENDS Intervals, SequencesExt, TLC

(***************************************************************************)
(* Fractions.                                                              *)
(***************************************************************************)

Divisor[a \in Nat, b \in Nat] == IF b = 0 THEN a ELSE Divisor[b, a % b]
Reduced(n, d, g) == <<Signum(n) * Signum(d) * (Magnitude(n) \div g), Magnitude(d) \div g>>
Fraction(n, d) == Reduced(n, d, Divisor[Magnitude(n), Magnitude(d)])
Whole(n) == <<n, 1>>

Plus(p, q)  == Fraction(p[1] * q[2] + q[1] * p[2], p[2] * q[2])
Minus(p, q) == Fraction(p[1] * q[2] - q[1] * p[2], p[2] * q[2])
Times(p, q) == Fraction(p[1] * q[1], p[2] * q[2])
Over(p, q)  == Fraction(p[1] * q[2], p[2] * q[1])
Less(p, q) == p[1] * q[2] < q[1] * p[2]
Opposite(p) == <<-p[1], p[2]>>
Size(p) == <<Magnitude(p[1]), p[2]>>
TowardsZero(p) == Signum(p[1]) * (Magnitude(p[1]) \div p[2])
\* To an integer, no further than IntBits bits reach.
Truncated(p) == Saturated(TowardsZero(p))
\* What remains of p after the most multiples of q towards zero.
Remaining(p, q) == Minus(p, Times(q, Whole(TowardsZero(Over(p, q)))))

Exact(op, p, q) ==
  CASE op = "Add" -> Plus(p, q)
    [] op = "Sub" -> Minus(p, q)
    [] op = "Mul" -> Times(p, q)
    [] op = "Div" -> Over(p, q)
    [] op \in {"Rem", "Fmod"} -> Remaining(p, q)

(***************************************************************************)
(* Terms.                                                                  *)
(***************************************************************************)

Node(kind, form, value, kids) == [kind |-> kind, form |-> form, value |-> value, kids |-> kids]
Error == Node("Error", "", <<>>, <<>>)
\* Nothing is built on an error.
Make(kind, form, value, kids) == IF Contains(kids, Error) THEN Error ELSE Node(kind, form, value, kids)
\* The same node with other children (Arena::Rebuild).
Rebuilt(t, kids) == Make(t.kind, t.form, t.value, kids)

MakeInt(n)  == Node("Int", "", Whole(Wrap(n)), <<>>)
MakeReal(q) == Node("Real", "", q, <<>>)
Input(c) == Node("Input", "", <<c>>, <<>>)
MakeBin(op, x, y) == Make("BinOp", op, <<>>, <<x, y>>)
Extended(form, kids) == Make("Extended", form, <<>>, kids)

Kid(t, i) == t.kids[i]
IsInt(t) == t.kind = "Int"
IsNum(t) == t.kind \in {"Int", "Real"}
IsBinOp(t, op) == t.kind = "BinOp" /\ t.form = op
IsNumber(t, n) == IsNum(t) /\ t.value = Whole(n)
IsComparison(op) == op \in {"GT", "LT", "GE", "LE", "EQ", "NE"}
IsBitwise(op) == op \in {"AND", "OR", "XOR", "LeftShift", "RightShift"}

\* How often a signal may change: 0 a literal, 2 a control, 3 a sample.
RECURSIVE Order(_)
Order(t) ==
  LET floor(n) == Max({n} \cup {Order(k) : k \in ToSet(t.kids)})
  IN  CASE t.kind \in {"Int", "Real"} -> 0
        [] t.kind \in {"Button", "Checkbox", "Slider"} -> 2
        [] t.kind = "Bargraph" -> floor(2)
        [] t.kind \in {"Input", "Waveform", "Delay1", "Delay", "Prefix", "Rec", "Proj", "Select2",
                       "Gen", "RDTbl", "WRTbl"} -> 3
        [] t.kind = "Attach" -> Max({1, Order(Kid(t, 1))})
        [] OTHER -> floor(0)

(***************************************************************************)
(* Recursive groups.  A group is opened before its branches exist, since   *)
(* they refer to it, and is a signal like others once it is closed.        *)
(***************************************************************************)

Rec(g) == Node("Rec", "", <<g>>, <<>>)
Proj(g, i) == Make("Proj", "", <<i>>, <<g>>)
OpenGroup == [open |-> TRUE, branches |-> <<>>]
Closed(branches) == [open |-> FALSE, branches |-> branches]

OpenRec(groups) == Append(groups, OpenGroup)
Opened(groups) == Rec(Len(groups) + 1)

\* A group whose branches are those of a closed one is that group, and what
\* was reserved for it stays open.
SameBranches(groups, branches) == {h \in DOMAIN groups : groups[h] = Closed(branches)}
CloseRec(groups, g, branches) ==
  IF SameBranches(groups, branches) # {} THEN groups ELSE [groups EXCEPT ![g.value[1]] = Closed(branches)]
ClosedAs(groups, g, branches) ==
  IF SameBranches(groups, branches) # {} THEN Rec(Min(SameBranches(groups, branches))) ELSE g

(***************************************************************************)
(* A pass rebuilds every signal once, children first.  `done' is what has  *)
(* become of a signal, `r' the result; while a group is open, it stands    *)
(* for itself in its own branches.                                         *)
(***************************************************************************)

Rewrite(groups, roots, Rebuild(_, _)) ==
  LET Done(w, t, r) == [w EXCEPT !.done = (t :> r) @@ @, !.r = r]
      RECURSIVE Go(_, _)
      GoAll(w, ts) ==
        FoldLeft(LAMBDA v, t : LET u == Go(v, t) IN [u EXCEPT !.r = Append(v.r, u.r)], [w EXCEPT !.r = <<>>], ts)
      GoGroup(w, t) ==
        LET g == Opened(w.groups)
            body == GoAll([Done(w, t, g) EXCEPT !.groups = OpenRec(@)], w.groups[t.value[1]].branches)
        IN  Done([body EXCEPT !.groups = CloseRec(@, g, body.r)], t, ClosedAs(body.groups, g, body.r))
      Go(w, t) ==
        CASE t \in DOMAIN w.done -> [w EXCEPT !.r = w.done[t]]
          [] t \notin DOMAIN w.done /\ t.kind = "Rec" -> GoGroup(w, t)
          [] OTHER -> LET kids == GoAll(w, t.kids) IN Done(kids, t, Rebuild(t, kids.r))
  IN  GoAll([groups |-> groups, done |-> <<>>, r |-> <<>>], roots)
=============================================================================
