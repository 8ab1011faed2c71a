---------------------------- MODULE MCRegisters -----------------------------
(***************************************************************************)
(* Plans for the register allocator: every short sample band, and longer   *)
(* ones with the patterns that short ones do not reach.                    *)
(***************************************************************************)
EXTENDS Registers

CONSTANTS p1, p2, p3

Plan(init, ctl, sample) == [init |-> init, control |-> ctl, sample |-> sample]

\* Every band of up to Length instructions whose k-th instruction defines v_k.
V == <<"a", "b", "c", "d", "e">>
Steps(k) ==
  LET before == {V[j] : j \in 1..(k - 1)} IN
  {Input(V[k]), Load(V[k], "f")}
    \cup {Arith(V[k], x, y) : x, y \in before} \cup {Math(V[k], x) : x \in before}
    \cup {Store("f", x) : x \in before} \cup {Store("g", x) : x \in before}
Useful(c) == \A k \in DOMAIN c : c[k].dst # None => \E j \in DOMAIN c : c[k].dst \in Reads(c, j)
\* No plan stores twice to one cell with nothing in between.
OkBand(c) == /\ \A k \in DOMAIN c : Reads(c, k) \subseteq Defined(SubSeq(c, 1, k - 1))
             /\ Useful(c) /\ StoresApart(c, 0)
Bands4 == {<<i, j, k, l>> : i \in Steps(1), j \in Steps(2), k \in Steps(3), l \in Steps(4)}
Short == {Plan(<<>>, <<>>, c) : c \in {b \in Bands4 : OkBand(b)}}

Long == {
  \* Two cells stored one value, old values read before.
  Plan(<<>>, <<>>, <<Load("a", "f"), Load("b", "g"), Arith("c", "a", "b"),
                     Store("f", "c"), Store("g", "c"), Output("a")>>),
  Plan(<<>>, <<>>, <<Load("a", "f"), Arith("c", "a", "a"), Store("f", "c"),
                     Load("b", "g"), Math("d", "b"), Store("g", "c"), Output("d")>>),
  \* A conditional value and a conditional store between load and use.
  Plan(<<>>, <<>>, <<Load("a", "f"), GuardBegin("q"), Input("b"), Store("f", "b"),
                     GuardEnd("q"), Arith("c", "a", "b"), Output("c"), Load("d", "f"), Output("d")>>),
  Plan(<<>>, <<Input("k"), GuardBegin("q"), Math("m", "k"), GuardEnd("q")>>,
       <<Load("a", "f"), Arith("b", "a", "k"), Math2("c", "b", "m"), Store("f", "c"), Output("a")>>),
  \* A table filled by a loop, and values of the other bands.
  Plan(<<Input("i"), Input("j"), LoopBegin("l"), Math("x", "i"), Arith("y", "x", "j"),
         StoreAt("t", "y"), LoopEnd("l"), Arith("z", "j", "j"), Store("f", "z")>>,
       <<Arith("k", "i", "j")>>,
       <<LoadAt("a", "t"), Arith("b", "a", "k"), Load("c", "f"), Store("f", "b"), Output("c")>>),
  Plan(<<Input("i"), LoopBegin("l"), Math("x", "i"), Input("y"), Arith("z", "x", "y"),
         StoreAt("t", "z"), LoopEnd("l")>>, <<>>, <<>>),
  \* A call first of all, with cells and values of other bands around it.
  Plan(<<Input("k")>>, <<>>, <<Math("a", "k"), Load("b", "f"), Arith("c", "a", "b"),
         Arith("d", "c", "k"), Store("f", "d"), Load("e", "g"), Arith("h", "d", "e"), Store("g", "h")>>),
  \* The new value of a cell computed before the old one is read.
  Plan(<<>>, <<>>, <<Input("b"), Arith("c", "b", "b"), Load("a", "f"), Store("f", "c"), Output("a")>>),
  Plan(<<>>, <<Load("a", "f"), Arith("b", "a", "a"), Store("f", "b")>>,
       <<Load("c", "f"), Store("g", "c"), Input("d"), Store("f", "d"), Load("e", "g"), Output("e")>>),
  \* Indexed accesses between constant ones.
  Plan(<<>>, <<>>, <<Load("a", "f"), StoreAt("f", "a"), Load("b", "f"), Input("c"),
                     LoadAt("d", "f"), Store("f", "c"), Arith("e", "b", "d"), Output("e")>>),
  \* Results left in d0, pressure, a foreign call and a select.
  Plan(<<>>, <<>>, <<Input("a"), Input("b"), Math("c", "a"), Arith("d", "b", "c"), Math2("e", "d", "b"), Output("e"), Output("a")>>),
  Plan(<<>>, <<>>, <<Input("a"), Input("b"), Input("c"), Input("d"), Select("e", "a", "b"), Least("h", "c", "d"), Foreign("i", "e"), Output("h"), Output("i")>>),
  Plan(<<Input("k"), Input("m")>>, <<>>, <<Input("a"), Math("b", "a"), Arith("c", "b", "k"), Math("d", "c"), Arith("e", "d", "m"), Arith("h", "e", "k"), Output("h")>>)
}

AllPrograms == Short \cup Long
MCPhysical == {p1, p2, p3}
MCPreserved == {p1}
=============================================================================
