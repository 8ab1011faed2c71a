--------------------------- MODULE PrepareProofs ----------------------------
(***************************************************************************)
(* Proofs about how a band is prepared, for every plan that is as the      *)
(* assumption on Programs says: forwarding loads and moving stores up      *)
(* keeps what a band does, whichever guards hold, and the code of an entry *)
(* made of prepared bands has the shape on which register allocation and   *)
(* the run of the entry rely.                                              *)
(*                                                                         *)
(* Both passes are followed by a simulation along the band.  While loads   *)
(* are forwarded the new code holds what the old one does, under the names *)
(* that values have by then (Alike).  While stores move up it holds the    *)
(* same but for the cells of the stores that have moved and that the old   *)
(* code has still to come to (Early).                                      *)
(***************************************************************************)
EXTENDS Registers, SequenceFacts, FiniteSetTheorems

(***************************************************************************)
(* Recursion along a band.                                                 *)
(***************************************************************************)

\* What contains 0 and with each number the next contains all up to n.
LEMMA UpTo ==
  ASSUME NEW n \in Nat, NEW S, 0 \in S, \A k \in 0..(n - 1) : k \in S => k + 1 \in S
  PROVE  \A k \in 0..n : k \in S
<1> DEFINE missing == {k \in 0..n : k \notin S}
<1> SUFFICES ASSUME missing # {} PROVE FALSE
  OBVIOUS
<1>1. PICK m \in missing : \A k \in missing : m <= k
  <2>1. missing \in SUBSET Nat
    OBVIOUS
  <2> HIDE DEF missing
  <2> QED BY <2>1, MinIsLeast
<1>2. m \in 1..n /\ m - 1 \in 0..(n - 1) /\ m - 1 \notin missing /\ m - 1 + 1 = m
  BY <1>1
<1> QED BY <1>1, <1>2

\* The functions that are defined by recursion obey their equations.
LEMMA RunOfIs ==
  ASSUME NEW c, NEW n \in Nat, n = Len(c), NEW taken, NEW items
  PROVE  LET f == RunOf(c, taken, items) IN
         /\ f[0] = Unrun(items)
         /\ \A k \in 1..n : f[k] = RunOne(f[k - 1], c[k], taken)
<1> DEFINE next(was, k) == RunOne(was, c[k], taken)
           Is(g, m) == g = [k \in 0..m |-> IF k = 0 THEN Unrun(items) ELSE next(g[k - 1], k)]
           S == {m \in 0..n : \E g : Is(g, m)}
<1>1. \E g : Is(g, n)
  <2>1. 0 \in S
    <3>1. Is([k \in 0..0 |-> Unrun(items)], 0)
      OBVIOUS
    <3>2. 0 \in 0..n /\ \E g : Is(g, 0)
      <4> HIDE DEF Is
      <4> QED BY <3>1
    <3> QED BY <3>2
  <2>2. ASSUME NEW m \in 0..(n - 1), m \in S PROVE m + 1 \in S
    <3>1. PICK g : Is(g, m)
      BY <2>2
    <3> DEFINE h == [k \in 0..(m + 1) |-> IF k = m + 1 THEN next(g[m], m + 1) ELSE g[k]]
    <3>2. ASSUME NEW k \in 0..(m + 1)
          PROVE  h[k] = IF k = 0 THEN Unrun(items) ELSE next(h[k - 1], k)
      <4> HIDE DEF next
      <4>1. CASE k = m + 1
        BY <4>1
      <4>2. CASE k = 0
        BY <4>2, <3>1
      <4>3. CASE k \in 1..m
        <5>1. k - 1 \in 0..m /\ k \in 0..m
          BY <4>3
        <5> QED BY <5>1, <4>3, <3>1
      <4> QED BY <4>1, <4>2, <4>3
    <3>3. Is(h, m + 1)
      <4> HIDE DEF next
      <4> QED BY <3>2
    <3>4. m + 1 \in 0..n /\ \E y : Is(y, m + 1)
      <4> HIDE DEF Is, h
      <4> QED BY <3>3
    <3> QED BY <3>4
  <2>3. n \in S
    <3> HIDE DEF S
    <3> QED BY <2>1, <2>2, UpTo
  <2> QED BY <2>3
<1>2. Is(RunOf(c, taken, items), n)
  BY <1>1 DEF RunOf
<1> DEFINE f == RunOf(c, taken, items)
<1>3. f[0] = Unrun(items) /\ \A k \in 1..n : f[k] = next(f[k - 1], k)
  <2>1. Is(f, n)
    BY <1>2
  <2> HIDE DEF next, f
  <2> QED BY <2>1
<1> QED BY <1>3

\* The loop that forwards loads.
LEMMA ForwardingIs ==
  ASSUME NEW c, NEW n \in Nat, n = Len(c), NEW lasting
  PROVE  LET f == Forwarding(c, lasting) IN
         /\ f[0] = Unforwarded
         /\ \A k \in 1..n : f[k] = ForwardOne(f[k - 1], c[k], lasting)
<1> DEFINE next(was, k) == ForwardOne(was, c[k], lasting)
           Is(g, m) == g = [k \in 0..m |-> IF k = 0 THEN Unforwarded ELSE next(g[k - 1], k)]
           S == {m \in 0..n : \E g : Is(g, m)}
<1>1. \E g : Is(g, n)
  <2>1. 0 \in S
    <3>1. Is([k \in 0..0 |-> Unforwarded], 0)
      OBVIOUS
    <3>2. 0 \in 0..n /\ \E g : Is(g, 0)
      <4> HIDE DEF Is
      <4> QED BY <3>1
    <3> QED BY <3>2
  <2>2. ASSUME NEW m \in 0..(n - 1), m \in S PROVE m + 1 \in S
    <3>1. PICK g : Is(g, m)
      BY <2>2
    <3> DEFINE h == [k \in 0..(m + 1) |-> IF k = m + 1 THEN next(g[m], m + 1) ELSE g[k]]
    <3>2. ASSUME NEW k \in 0..(m + 1)
          PROVE  h[k] = IF k = 0 THEN Unforwarded ELSE next(h[k - 1], k)
      <4> HIDE DEF next
      <4>1. CASE k = m + 1
        BY <4>1
      <4>2. CASE k = 0
        BY <4>2, <3>1
      <4>3. CASE k \in 1..m
        <5>1. k - 1 \in 0..m /\ k \in 0..m
          BY <4>3
        <5> QED BY <5>1, <4>3, <3>1
      <4> QED BY <4>1, <4>2, <4>3
    <3>3. Is(h, m + 1)
      <4> HIDE DEF next
      <4> QED BY <3>2
    <3>4. m + 1 \in 0..n /\ \E y : Is(y, m + 1)
      <4> HIDE DEF Is, h
      <4> QED BY <3>3
    <3> QED BY <3>4
  <2>3. n \in S
    <3> HIDE DEF S
    <3> QED BY <2>1, <2>2, UpTo
  <2> QED BY <2>3
<1>2. Is(Forwarding(c, lasting), n)
  BY <1>1 DEF Forwarding
<1> DEFINE f == Forwarding(c, lasting)
<1>3. f[0] = Unforwarded /\ \A k \in 1..n : f[k] = next(f[k - 1], k)
  <2>1. Is(f, n)
    BY <1>2
  <2> HIDE DEF next, f
  <2> QED BY <2>1
<1> QED BY <1>3

\* The loop over the stores that move right behind one instruction.
LEMMA RaisedIs ==
  ASSUME NEW c, NEW n \in Nat, n = Len(c), NEW at, NEW scheduled
  PROVE  LET f == Raised(c, at, scheduled) IN
         /\ f[0] = scheduled
         /\ \A k \in 1..n : f[k] = IF Moves(c, k) /\ Earliest(c, k) = at THEN Append(f[k - 1], c[k]) ELSE f[k - 1]
<1> DEFINE next(was, k) == IF Moves(c, k) /\ Earliest(c, k) = at THEN Append(was, c[k]) ELSE was
           Is(g, m) == g = [k \in 0..m |-> IF k = 0 THEN scheduled ELSE next(g[k - 1], k)]
           S == {m \in 0..n : \E g : Is(g, m)}
<1>1. \E g : Is(g, n)
  <2>1. 0 \in S
    <3>1. Is([k \in 0..0 |-> scheduled], 0)
      OBVIOUS
    <3>2. 0 \in 0..n /\ \E g : Is(g, 0)
      <4> HIDE DEF Is
      <4> QED BY <3>1
    <3> QED BY <3>2
  <2>2. ASSUME NEW m \in 0..(n - 1), m \in S PROVE m + 1 \in S
    <3>1. PICK g : Is(g, m)
      BY <2>2
    <3> DEFINE h == [k \in 0..(m + 1) |-> IF k = m + 1 THEN next(g[m], m + 1) ELSE g[k]]
    <3>2. ASSUME NEW k \in 0..(m + 1)
          PROVE  h[k] = IF k = 0 THEN scheduled ELSE next(h[k - 1], k)
      <4> HIDE DEF next
      <4>1. CASE k = m + 1
        BY <4>1
      <4>2. CASE k = 0
        BY <4>2, <3>1
      <4>3. CASE k \in 1..m
        <5>1. k - 1 \in 0..m /\ k \in 0..m
          BY <4>3
        <5> QED BY <5>1, <4>3, <3>1
      <4> QED BY <4>1, <4>2, <4>3
    <3>3. Is(h, m + 1)
      <4> HIDE DEF next
      <4> QED BY <3>2
    <3>4. m + 1 \in 0..n /\ \E y : Is(y, m + 1)
      <4> HIDE DEF Is, h
      <4> QED BY <3>3
    <3> QED BY <3>4
  <2>3. n \in S
    <3> HIDE DEF S
    <3> QED BY <2>1, <2>2, UpTo
  <2> QED BY <2>3
<1>2. Is(Raised(c, at, scheduled), n)
  BY <1>1 DEF Raised
<1> DEFINE f == Raised(c, at, scheduled)
<1>3. f[0] = scheduled /\ \A k \in 1..n : f[k] = next(f[k - 1], k)
  <2>1. Is(f, n)
    BY <1>2
  <2> HIDE DEF next, f
  <2> QED BY <2>1
<1> QED BY <1>3

\* The loop that schedules the code.
LEMMA HoistingIs ==
  ASSUME NEW c, NEW n \in Nat, n = Len(c)
  PROVE  LET f == Hoisting(c) IN
         /\ f[0] = Raised(c, 0, <<>>)[n]
         /\ \A k \in 1..n : f[k] = Raised(c, k, IF Moves(c, k) THEN f[k - 1] ELSE Append(f[k - 1], c[k]))[n]
<1> DEFINE next(was, k) == Raised(c, k, IF Moves(c, k) THEN was ELSE Append(was, c[k]))[n]
           Is(g, m) == g = [k \in 0..m |-> IF k = 0 THEN Raised(c, 0, <<>>)[n] ELSE next(g[k - 1], k)]
           S == {m \in 0..n : \E g : Is(g, m)}
<1>1. \E g : Is(g, n)
  <2>1. 0 \in S
    <3>1. Is([k \in 0..0 |-> Raised(c, 0, <<>>)[n]], 0)
      OBVIOUS
    <3>2. 0 \in 0..n /\ \E g : Is(g, 0)
      <4> HIDE DEF Is
      <4> QED BY <3>1
    <3> QED BY <3>2
  <2>2. ASSUME NEW m \in 0..(n - 1), m \in S PROVE m + 1 \in S
    <3>1. PICK g : Is(g, m)
      BY <2>2
    <3> DEFINE h == [k \in 0..(m + 1) |-> IF k = m + 1 THEN next(g[m], m + 1) ELSE g[k]]
    <3>2. ASSUME NEW k \in 0..(m + 1)
          PROVE  h[k] = IF k = 0 THEN Raised(c, 0, <<>>)[n] ELSE next(h[k - 1], k)
      <4> HIDE DEF next
      <4>1. CASE k = m + 1
        BY <4>1
      <4>2. CASE k = 0
        BY <4>2, <3>1
      <4>3. CASE k \in 1..m
        <5>1. k - 1 \in 0..m /\ k \in 0..m
          BY <4>3
        <5> QED BY <5>1, <4>3, <3>1
      <4> QED BY <4>1, <4>2, <4>3
    <3>3. Is(h, m + 1)
      <4> HIDE DEF next
      <4> QED BY <3>2
    <3>4. m + 1 \in 0..n /\ \E y : Is(y, m + 1)
      <4> HIDE DEF Is, h
      <4> QED BY <3>3
    <3> QED BY <3>4
  <2>3. n \in S
    <3> HIDE DEF S
    <3> QED BY <2>1, <2>2, UpTo
  <2> QED BY <2>3
<1>2. Is(Hoisting(c), n)
  BY <1>1 DEF Hoisting
<1> DEFINE f == Hoisting(c)
<1>3. f[0] = Raised(c, 0, <<>>)[n] /\ \A k \in 1..n : f[k] = next(f[k - 1], k)
  <2>1. Is(f, n)
    BY <1>2
  <2> HIDE DEF next, f
  <2> QED BY <2>1
<1> QED BY <1>3

(***************************************************************************)
(* What the interpreter of the reference does.                             *)
(***************************************************************************)

\* What there is after all of s.
After(s, taken, items) == RunOf(s, taken, items)[Len(s)]

\* What an instruction at the end adds.
LEMMA AfterAppended ==
  ASSUME NEW s, IsSequence(s), NEW i, NEW taken, NEW items
  PROVE  After(Append(s, i), taken, items) = RunOne(After(s, taken, items), i, taken)
<1> DEFINE t == Append(s, i)
           n == Len(s)
           f == RunOf(s, taken, items)
           g == RunOf(t, taken, items)
<1>1. n \in Nat /\ n + 1 \in Nat /\ Len(t) = n + 1 /\ t[n + 1] = i /\ \A k \in 1..n : t[k] = s[k]
  BY AnySeq, Appended
<1>2. f[0] = Unrun(items) /\ \A k \in 1..n : f[k] = RunOne(f[k - 1], s[k], taken)
  BY <1>1, RunOfIs
<1>3. g[0] = Unrun(items) /\ \A k \in 1..(n + 1) : g[k] = RunOne(g[k - 1], t[k], taken)
  <2> HIDE DEF t
  <2> QED BY <1>1, RunOfIs
<1>4. f[n] = g[n]
  <2> DEFINE S == {k \in 0..n : f[k] = g[k]}
  <2> HIDE DEF f, g, t, n
  <2>1. 0 \in S
    BY <1>1, <1>2, <1>3
  <2>2. ASSUME NEW k \in 0..(n - 1), k \in S PROVE k + 1 \in S
    <3>1. k + 1 \in 1..n /\ k + 1 \in 1..(n + 1) /\ k + 1 - 1 = k /\ k + 1 \in 0..n
      BY <1>1
    <3>2. f[k + 1] = RunOne(f[k], s[k + 1], taken) /\ g[k + 1] = RunOne(g[k], t[k + 1], taken)
      BY <3>1, <1>2, <1>3
    <3>3. f[k + 1] = g[k + 1]
      BY <3>1, <3>2, <2>2, <1>1
    <3> QED BY <3>1, <3>3
  <2>3. \A k \in 0..n : k \in S
    <3> HIDE DEF S
    <3> QED BY <1>1, <2>1, <2>2, UpTo
  <2>4. n \in 0..n
    BY <1>1
  <2> QED BY <2>3, <2>4
<1>5. n + 1 \in 1..(n + 1) /\ n + 1 - 1 = n
  BY <1>1
<1>6. g[n + 1] = RunOne(f[n], i, taken)
  <2> HIDE DEF f, g, t, n
  <2> QED BY <1>1, <1>3, <1>4, <1>5
<1> QED BY <1>1, <1>6 DEF After

\* Something the interpreter may hold.
IsState(r, items) ==
  /\ r = [holds |-> r.holds, inside |-> r.inside, sent |-> r.sent]
  /\ r.holds = [x \in items |-> r.holds[x]]

\* The operands of i.
Given(r, i) == [n \in DOMAIN i.args |-> r.holds[i.args[n]]]

\* The item that an instruction writes, if any.
Target(i) == IF i.op \in {"store", "storeAt"} THEN i.field ELSE i.dst

\* What the items hold once i has written v, where it is not skipped.
Wrote(h, inside, i, v) == IF inside # None \/ Target(i) = None THEN h ELSE Put(h, Target(i), v)

\* Nothing has run yet.
LEMMA UnrunIsState == ASSUME NEW items PROVE IsState(Unrun(items), items)
BY DEF IsState, Unrun

\* What is put into one item leaves the others.
LEMMA PutKeeps ==
  ASSUME NEW items, NEW h, h = [x \in items |-> h[x]], NEW y, NEW v
  PROVE  Put(h, y, v) = [x \in items |-> IF x = y THEN v ELSE h[x]]
BY DEF Put

\* What q is after instruction i, where r was before.
Stepped(q, r, i, taken) ==
  /\ q = [holds |-> q.holds, inside |-> q.inside, sent |-> q.sent]
  /\ q.inside = IF r.inside # None
                THEN IF i.op = "endguard" /\ i.field = r.inside THEN None ELSE r.inside
                ELSE IF i.op = "guard" /\ i.field \notin taken THEN i.field ELSE None
  /\ q.sent = IF r.inside # None \/ i.op \notin {"output", "foreign"} THEN r.sent
              ELSE Append(r.sent, IF i.op = "output" THEN Given(r, i)[1]
                                  ELSE <<i.op, i.dst, Given(r, i)>>)
  /\ q.holds = Wrote(r.holds, r.inside, i,
                     IF i.op \in {"load", "loadAt"} THEN r.holds[i.field]
                     ELSE IF i.op \in {"store", "storeAt"} THEN Given(r, i)[1]
                     ELSE <<i.op, i.dst, Given(r, i)>>)

\* The interpreter runs one instruction.
LEMMA OneStep ==
  ASSUME NEW items, NEW taken, NEW r, IsState(r, items), NEW i, Shape(i), None \notin items,
         i.op \in {"store", "storeAt"} => i.field # None
  PROVE  Stepped(RunOne(r, i, taken), r, i, taken)
<1> DEFINE ops == Given(r, i)
           term == <<i.op, i.dst, ops>>
<1>0. r = [holds |-> r.holds, inside |-> r.inside, sent |-> r.sent]
  BY DEF IsState
<1>1. CASE r.inside # None
  BY <1>0, <1>1 DEF RunOne, Wrote, Stepped
<1>2. CASE r.inside = None
  <2> SUFFICES ASSUME NEW q, q = RunOne(r, i, taken) PROVE Stepped(q, r, i, taken)
    OBVIOUS
  <2>1. q = CASE i.op = "guard" -> [r EXCEPT !.inside = IF i.field \in taken THEN None ELSE i.field]
         [] i.op \in {"load", "loadAt"} -> [r EXCEPT !.holds = Put(@, i.dst, r.holds[i.field])]
         [] i.op \in {"store", "storeAt"} -> [r EXCEPT !.holds = Put(@, i.field, ops[1])]
         [] i.op = "output" -> [r EXCEPT !.sent = Append(@, ops[1])]
         [] i.op = "foreign" -> [r EXCEPT !.sent = Append(@, term), !.holds = Put(@, i.dst, term)]
         [] i.op \in {"arith", "min", "select", "math", "input"} -> [r EXCEPT !.holds = Put(@, i.dst, term)]
         [] OTHER -> r
    BY <1>2 DEF RunOne, Given
  <2> HIDE DEF term, ops
  <2>2. CASE i.op = "guard"
    <3>1. q = [r EXCEPT !.inside = IF i.field \in taken THEN None ELSE i.field]
      BY <2>1, <2>2
    <3> QED BY <3>1, <2>2, <1>0, <1>2 DEF Stepped, Wrote, Target, Shape
  <2>3. CASE i.op \in {"load", "loadAt"}
    <3>1. q = [r EXCEPT !.holds = Put(@, i.dst, r.holds[i.field])]
      BY <2>1, <2>3
    <3> QED BY <3>1, <2>3, <1>0, <1>2 DEF Stepped, Wrote, Target, Shape
  <2>4. CASE i.op \in {"store", "storeAt"}
    <3>1. q = [r EXCEPT !.holds = Put(@, i.field, ops[1])]
      BY <2>1, <2>4
    <3> QED BY <3>1, <2>4, <1>0, <1>2 DEF Stepped, Wrote, Target, Shape, ops
  <2>5. CASE i.op = "output"
    <3>1. q = [r EXCEPT !.sent = Append(@, ops[1])]
      BY <2>1, <2>5
    <3> QED BY <3>1, <2>5, <1>0, <1>2 DEF Stepped, Wrote, Target, Shape, ops
  <2>6. CASE i.op = "foreign"
    <3>1. q = [r EXCEPT !.sent = Append(@, term), !.holds = Put(@, i.dst, term)]
      BY <2>1, <2>6
    <3> QED BY <3>1, <2>6, <1>0, <1>2 DEF Stepped, Wrote, Target, Shape, ops, term
  <2>7. CASE i.op \in {"arith", "min", "select", "math", "input"}
    <3>1. q = [r EXCEPT !.holds = Put(@, i.dst, term)]
      BY <2>1, <2>7
    <3> QED BY <3>1, <2>7, <1>0, <1>2 DEF Stepped, Wrote, Target, Shape, ops, term
  <2>8. CASE i.op \notin {"guard", "load", "loadAt", "store", "storeAt", "output", "foreign",
                          "arith", "min", "select", "math", "input"}
    <3>1. q = r
      BY <2>1, <2>8
    <3> QED BY <3>1, <2>8, <1>0, <1>2 DEF Stepped, Wrote, Target, Shape
  <2> QED BY <2>2, <2>3, <2>4, <2>5, <2>6, <2>7, <2>8
<1> QED BY <1>1, <1>2

(***************************************************************************)
(* The bands of a plan.                                                    *)
(***************************************************************************)

\* What a band of instructions over the values and fields of p is like.
IsInstr(i) == i = [op |-> i.op, args |-> i.args, dst |-> i.dst, field |-> i.field]
InstructionsOK(p, c) ==
  /\ None \notin Items(p) /\ Values(p) \cap Fields(p) = {}
  /\ IsSequence(c) /\ Len(c) \in Nat /\ DOMAIN c = 1..Len(c)
  /\ \A k \in 1..Len(c) :
       /\ Shape(c[k]) /\ IsInstr(c[k])
       /\ c[k].dst \in Values(p) \cup {None}
       /\ IsSequence(c[k].args) /\ \A n \in DOMAIN c[k].args : c[k].args[n] \in Values(p)
       /\ c[k].op \in {"load", "store", "loadAt", "storeAt"} => c[k].field \in Fields(p)
       /\ c[k].op \notin {"loop", "endloop"}

\* Guards end, and what they guard is retained.
GuardsOK(p, c) ==
  /\ \A k \in 1..Len(c) : c[k].op = "guard" =>
       \E j \in 1..Len(c) : k < j /\ c[j].op = "endguard" /\ c[j].field = c[k].field
  /\ \A k \in 1..Len(c) : Guarded(c, k) => c[k].dst \in Retained(p) \cup {None}

BandOK(p, c) == InstructionsOK(p, c) /\ GuardsOK(p, c) /\ SingleAssignment(c)

\* Two sequences in a row, and where the elements of each of them stand.
LEMMA InARow ==
  ASSUME NEW a, IsSequence(a), NEW b, IsSequence(b)
  PROVE  /\ IsSequence(a \o b)
         /\ Len(a) \in Nat /\ Len(b) \in Nat /\ Len(a \o b) = Len(a) + Len(b)
         /\ DOMAIN a = 1..Len(a) /\ DOMAIN b = 1..Len(b) /\ DOMAIN (a \o b) = 1..Len(a \o b)
         /\ \A k \in 1..Len(a) : /\ k + 0 = k /\ k + 0 \in 1..Len(a \o b) /\ k + 0 <= Len(a)
                                 /\ k \in 1..Len(a \o b) /\ (a \o b)[k] = a[k]
         /\ \A k \in 1..Len(b) : /\ k + Len(a) \in 1..Len(a \o b) /\ ~(k + Len(a) <= Len(a))
                                 /\ k + Len(a) > Len(a) /\ (a \o b)[k + Len(a)] = b[k]
         /\ \A k \in 1..Len(a \o b) : /\ k - 0 = k /\ (k <= Len(a) => k - 0 \in 1..Len(a))
                                      /\ (~(k <= Len(a)) => k - Len(a) \in 1..Len(b))
<1>1. /\ IsSequence(a \o b) /\ Len(a \o b) = Len(a) + Len(b)
      /\ \A k \in 1..Len(a) : (a \o b)[k] = a[k]
      /\ \A k \in 1..Len(b) : (a \o b)[Len(a) + k] = b[k]
  BY Concatenated
<1>2. Len(a) \in Nat /\ Len(b) \in Nat /\ DOMAIN a = 1..Len(a) /\ DOMAIN b = 1..Len(b)
  BY AnySeq
<1> DEFINE n == Len(a)
           m == Len(b)
           c == a \o b
<1>3. DOMAIN c = 1..Len(c)
  BY <1>1, AnySeq
<1>4. n \in Nat /\ m \in Nat /\ Len(c) = n + m
  BY <1>1, <1>2
<1>5. \A k \in 1..m : c[n + k] = b[k]
  BY <1>1
<1>6. \A k \in 1..n : c[k] = a[k]
  BY <1>1
<1>7. IsSequence(c) /\ DOMAIN a = 1..n /\ DOMAIN b = 1..m
  BY <1>1, <1>2
<1> HIDE DEF n, m, c
<1>8. \A k \in 1..m : k + n = n + k /\ k + n \in 1..Len(c) /\ ~(k + n <= n) /\ k + n > n
  BY <1>4
<1>9. \A k \in 1..n : k + 0 = k /\ k \in 1..Len(c) /\ k <= n
  BY <1>4
<1>10. \A k \in 1..Len(c) : k - 0 = k /\ (k <= n => k \in 1..n) /\ (~(k <= n) => k - n \in 1..m)
  BY <1>4
<1> QED BY <1>3, <1>4, <1>5, <1>6, <1>7, <1>8, <1>9, <1>10 DEF n, m, c

\* Where the instructions of band c stand in the code l of both bands: at first
\* (among the n of the control band) or behind.
Stands(c, l, o, n, first) ==
  /\ IsSequence(l) /\ Len(l) \in Nat /\ DOMAIN l = 1..Len(l)
  /\ IsSequence(c) /\ Len(c) \in Nat /\ DOMAIN c = 1..Len(c)
  /\ n \in Nat /\ o \in Nat
  /\ \A k \in 1..Len(c) : k + o \in 1..Len(l) /\ l[k + o] = c[k] /\ (k + o <= n <=> first)
  /\ \A k \in 1..Len(l) : (k <= n <=> first) => k - o \in 1..Len(c)

\* Of two bands in a row the first stands in front.
LEMMA BothStand ==
  ASSUME NEW a, NEW b, IsSequence(a), IsSequence(b)
  PROVE  Stands(a, a \o b, 0, Len(a), TRUE) /\ Stands(b, a \o b, Len(a), Len(a), FALSE)
<1> DEFINE l == a \o b
           n == Len(a)
           m == Len(b)
<1>1. /\ IsSequence(l) /\ n \in Nat /\ m \in Nat /\ Len(l) = n + m
      /\ DOMAIN a = 1..n /\ DOMAIN b = 1..m /\ DOMAIN l = 1..Len(l)
  BY InARow
<1>2. \A k \in 1..n : k + 0 = k /\ k + 0 \in 1..Len(l) /\ k + 0 <= n /\ l[k] = a[k]
  BY InARow
<1>3. \A k \in 1..m : k + n \in 1..Len(l) /\ ~(k + n <= n) /\ l[k + n] = b[k]
  BY InARow
<1>4. \A k \in 1..Len(l) : k - 0 = k /\ (k <= n => k - 0 \in 1..n) /\ (~(k <= n) => k - n \in 1..m)
  BY InARow
<1>5. Len(l) \in Nat
  <2> HIDE DEF l, n, m
  <2> QED BY <1>1
<1> HIDE DEF l
<1>6. Stands(a, l, 0, n, TRUE)
  BY <1>1, <1>2, <1>4, <1>5 DEF Stands
<1>7. Stands(b, l, n, n, FALSE)
  <2> HIDE DEF n
  <2> QED BY <1>1, <1>3, <1>4, <1>5 DEF Stands, m
<1> QED BY <1>6, <1>7 DEF l

\* So stand the bands of a plan in what lowering makes.
LEMMA BandStands ==
  ASSUME NEW p \in Programs, NEW c \in {p.control, p.sample}
  PROVE  \E o \in Nat, first \in BOOLEAN :
           /\ Stands(c, Lowered(p, "sample"), o, Len(p.control), first)
           /\ c = IF first THEN p.control ELSE p.sample
<1>1. IsSequence(p.control) /\ IsSequence(p.sample)
  BY ProgramsAssumption DEF IsSequence
<1>3. Lowered(p, "sample") = p.control \o p.sample
  BY DEF Lowered
<1>4. /\ Stands(p.control, Lowered(p, "sample"), 0, Len(p.control), TRUE)
      /\ Stands(p.sample, Lowered(p, "sample"), Len(p.control), Len(p.control), FALSE)
  BY <1>1, <1>3, BothStand
<1>5. Len(p.control) \in Nat
  BY <1>4 DEF Stands
<1> QED BY <1>4, <1>5

\* The plans are assumed to have such bands.
LEMMA BandIsOK ==
  ASSUME NEW p \in Programs, NEW c \in {p.control, p.sample}
  PROVE  BandOK(p, c)
<1> DEFINE l == Lowered(p, "sample")
<1>1. /\ \A k \in DOMAIN l : Shape(l[k]) /\ l[k].op \notin {"loop", "endloop"}
      /\ SingleAssignment(l) /\ Nested(l, Len(p.control))
      /\ c \in Seq(Instructions(p))
      /\ None \notin Values(p) /\ Values(p) \cap Fields(p) = {}
  BY ProgramsAssumption DEF LoweredControl
<1>2. PICK o \in Nat, first \in BOOLEAN : Stands(c, l, o, Len(p.control), first)
  BY BandStands
<1>21. /\ \A k \in 1..Len(c) : k + o \in 1..Len(l) /\ l[k + o] = c[k] /\ (k + o <= Len(p.control) <=> first)
       /\ \A j \in 1..Len(l) : (j <= Len(p.control) <=> first) => j - o \in 1..Len(c)
  BY <1>2 DEF Stands
<1>3. /\ IsSequence(c) /\ Len(c) \in Nat /\ DOMAIN c = 1..Len(c) /\ DOMAIN l = 1..Len(l)
      /\ Len(p.control) \in Nat /\ Len(l) \in Nat
  BY <1>2 DEF Stands
<1> HIDE DEF l
<1>4. \A k \in 1..Len(c) : Shape(c[k]) /\ c[k].op \notin {"loop", "endloop"}
  BY <1>1, <1>21, <1>3
<1>5. ASSUME NEW k \in 1..Len(c)
      PROVE  /\ c[k].dst \in Values(p) \cup {None}
             /\ IsSequence(c[k].args) /\ \A n \in DOMAIN c[k].args : c[k].args[n] \in Values(p)
             /\ c[k].op \in {"load", "store", "loadAt", "storeAt"} => c[k].field \in Fields(p)
             /\ IsInstr(c[k])
  <2>1. c[k] \in Instructions(p)
    BY <1>1, <1>3
  <2>2. c[k].args \in Seq(Values(p)) /\ c[k].dst \in Values(p) \cup {None}
    BY <2>1 DEF Instructions
  <2>3. \A n \in DOMAIN c[k].args : c[k].args[n] \in Values(p)
    BY <2>2
  <2>4. c[k].op \in {"load", "store", "loadAt", "storeAt"} => c[k].field \in Fields(p)
    BY <1>3 DEF Fields, FieldsIn, Accesses
  <2>5. IsInstr(c[k])
    BY <2>1 DEF Instructions, IsInstr
  <2> QED BY <2>2, <2>3, <2>4, <2>5 DEF IsSequence
<1>7. SingleAssignment(c)
  <2> SUFFICES ASSUME NEW j \in 1..Len(c), NEW k \in 1..Len(c), c[j].dst # None
               PROVE  (c[j].dst = c[k].dst => j = k) /\ (c[j].dst \in Reads(c, k) => j < k)
    BY <1>3 DEF SingleAssignment
  <2>1. /\ j + o \in 1..Len(l) /\ k + o \in 1..Len(l) /\ l[j + o] = c[j] /\ l[k + o] = c[k]
        /\ (j + o = k + o => j = k) /\ (j + o < k + o => j < k)
    BY <1>21, <1>3
  <2>2. Reads(l, k + o) = Reads(c, k)
    BY <2>1 DEF Reads
  <2> QED BY <2>1, <2>2, <1>1, <1>3 DEF SingleAssignment
<1>8. \A k \in 1..Len(c) : c[k].op = "guard" =>
       \E j \in 1..Len(c) : k < j /\ c[j].op = "endguard" /\ c[j].field = c[k].field
  <2> SUFFICES ASSUME NEW k \in 1..Len(c), c[k].op = "guard"
               PROVE  \E j \in 1..Len(c) : k < j /\ c[j].op = "endguard" /\ c[j].field = c[k].field
    OBVIOUS
  <2>1. k + o \in DOMAIN l /\ l[k + o] = c[k]
    BY <1>21, <1>3
  <2>2. PICK j \in DOMAIN l : <<k + o, j>> \in Brackets(l)
    BY <2>1, <1>1 DEF Nested
  <2>3. /\ k + o < j /\ (k + o <= Len(p.control) <=> j <= Len(p.control))
        /\ l[j].op = "endguard" /\ l[j].field = c[k].field
    BY <2>1, <2>2, <1>1 DEF Nested, Brackets
  <2>4. j - o \in 1..Len(c) /\ j - o + o = j /\ k < j - o
    BY <2>3, <1>21, <1>3
  <2>5. c[j - o] = l[j]
    BY <2>4, <1>21
  <2> QED BY <2>3, <2>4, <2>5
<1>9. \A k \in 1..Len(c) : Guarded(c, k) => c[k].dst \in Retained(p) \cup {None}
  BY <1>3 DEF Retained
<1>10. None \notin Fields(p)
  <2> SUFFICES ASSUME None \in Fields(p) PROVE FALSE
    OBVIOUS
  <2>0. /\ \A k \in DOMAIN p.init : Shape(p.init[k])
        /\ \A k \in DOMAIN p.control : Shape(p.control[k])
        /\ \A k \in DOMAIN p.sample : Shape(p.sample[k])
    <3>1. \A k \in DOMAIN p.init : Shape(p.init[k])
      BY ProgramsAssumption DEF Lowered
    <3>2. \A d \in {p.control, p.sample} : \A k \in DOMAIN d : Shape(d[k])
      <4> SUFFICES ASSUME NEW d \in {p.control, p.sample} PROVE \A k \in DOMAIN d : Shape(d[k])
        OBVIOUS
      <4>1. PICK u \in Nat, low \in BOOLEAN : Stands(d, l, u, Len(p.control), low)
        BY BandStands DEF l
      <4> QED BY <4>1, <1>1 DEF Stands
    <3> QED BY <3>1, <3>2
  <2>1. \A d : (\A k \in DOMAIN d : Shape(d[k])) => None \notin FieldsIn(d)
    BY DEF FieldsIn, Accesses, Shape
  <2> QED BY <2>0, <2>1 DEF Fields
<1>6. InstructionsOK(p, c)
  BY <1>1, <1>3, <1>4, <1>5, <1>10 DEF InstructionsOK, Items
<1> QED BY <1>6, <1>7, <1>8, <1>9 DEF BandOK, GuardsOK

(***************************************************************************)
(* Loads that are forwarded.                                               *)
(***************************************************************************)

\* No instruction behind k writes v.
Settled(c, v, k) == \A j \in (k + 1)..Len(c) : c[j].dst # v

\* What forwarding knows after k instructions are values that will not change
\* and that have no other name; what it renames does not outlive the call.
ForwardOK(p, c, k, known, alias) ==
  /\ \A f \in DOMAIN known : /\ f \in Fields(p) /\ known[f] \in Values(p) \ DOMAIN alias
                             /\ Settled(c, known[f], k)
  /\ \A x \in DOMAIN alias : /\ x \in Values(p) \ Retained(p) /\ Settled(c, x, k)
                             /\ alias[x] \in Values(p) \ DOMAIN alias /\ Settled(c, alias[x], k)

\* A load that an earlier access of the cell answers.
Redundant(i, known, lasting) == i.op = "load" /\ i.field \in DOMAIN known /\ i.dst \notin lasting

\* What is settled stays settled.
LEMMA SettledLater ==
  ASSUME NEW c, NEW k \in Nat, NEW v, Settled(c, v, k) PROVE Settled(c, v, k + 1)
<1>1. \A j \in (k + 1 + 1)..Len(c) : j \in (k + 1)..Len(c)
  OBVIOUS
<1> QED BY <1>1 DEF Settled

\* An operand under the name it has by now.
LEMMA EntryHolds ==
  ASSUME NEW p, NEW c, BandOK(p, c), NEW k \in 0..(Len(c) - 1), NEW known, NEW alias,
         ForwardOK(p, c, k, known, alias), NEW n \in DOMAIN c[k + 1].args
  PROVE  LET u == Entry(alias, c[k + 1].args[n]) IN
         u \in Values(p) \ DOMAIN alias /\ Settled(c, u, k)
<1> DEFINE w == c[k + 1].args[n]
<1>1. Len(c) \in Nat /\ k + 1 \in 1..Len(c) /\ k \in Nat /\ DOMAIN c = 1..Len(c)
  BY DEF BandOK, InstructionsOK
<1>2. w \in Values(p) /\ w \in Reads(c, k + 1)
  BY <1>1 DEF BandOK, InstructionsOK, Reads, ToSet
<1>3. Settled(c, w, k)
  <2> SUFFICES ASSUME NEW j \in (k + 1)..Len(c), c[j].dst = w PROVE FALSE
    BY DEF Settled
  <2>1. j \in DOMAIN c /\ k + 1 \in DOMAIN c /\ ~(j < k + 1)
    BY <1>1
  <2>2. w # None => FALSE
    BY <2>1, <1>2 DEF BandOK, SingleAssignment
  <2>3. w # None
    BY <1>2 DEF BandOK, InstructionsOK, Items
  <2> QED BY <2>2, <2>3
<1>4. CASE w \in DOMAIN alias
  BY <1>4 DEF ForwardOK, Entry
<1>5. CASE w \notin DOMAIN alias
  BY <1>2, <1>3, <1>5 DEF Entry
<1> QED BY <1>4, <1>5

\* So it is after the next instruction.
LEMMA ForwardStep ==
  ASSUME NEW p, NEW c, BandOK(p, c), NEW k \in 0..(Len(c) - 1),
         NEW known, NEW alias, ForwardOK(p, c, k, known, alias),
         NEW i, i = Renamed(c[k + 1], alias)
  PROVE  ForwardOK(p, c, k + 1, Known(known, i, Retained(p)),
                   IF Redundant(i, known, Retained(p)) THEN With(alias, i.dst, known[i.field]) ELSE alias)
<1> DEFINE o == c[k + 1]
           after == Known(known, i, Retained(p))
<1>1. Len(c) \in Nat /\ k + 1 \in 1..Len(c) /\ k \in Nat /\ DOMAIN c = 1..Len(c) /\ Shape(o)
  BY DEF BandOK, InstructionsOK
<1>2. /\ i.op = o.op /\ i.dst = o.dst /\ i.field = o.field
      /\ i.args = [n \in DOMAIN o.args |-> Entry(alias, o.args[n])]
  BY <1>1 DEF BandOK, InstructionsOK, IsInstr, Renamed
<1>3. /\ o.dst \in Values(p) \cup {None} /\ (o.op = "load" => o.dst # None /\ o.field \in Fields(p))
      /\ (o.op = "store" => o.field \in Fields(p) /\ 1 \in DOMAIN o.args)
  BY <1>1 DEF BandOK, InstructionsOK, Shape
<1>4. \A x : Settled(c, x, k) => Settled(c, x, k + 1) /\ x # o.dst
  BY <1>1, SettledLater DEF Settled
<1>5. o.dst # None => Settled(c, o.dst, k + 1)
  <2> SUFFICES ASSUME o.dst # None, NEW j \in (k + 1 + 1)..Len(c), c[j].dst = o.dst PROVE FALSE
    BY DEF Settled
  <2>1. j \in DOMAIN c /\ k + 1 \in DOMAIN c /\ j # k + 1
    BY <1>1
  <2> QED BY <2>1 DEF BandOK, SingleAssignment
<1>6. o.op = "store" => i.args[1] \in Values(p) \ DOMAIN alias /\ Settled(c, i.args[1], k + 1)
  BY <1>2, <1>3, <1>4, EntryHolds
<1> HIDE DEF o
<1>7. CASE Redundant(i, known, Retained(p))
  <2> DEFINE v == known[i.field]
             renamed == With(alias, o.dst, v)
  <2>1. /\ o.op = "load" /\ o.dst \in Values(p) \ Retained(p) /\ v \in Values(p) \ DOMAIN alias
        /\ Settled(c, v, k) /\ v # o.dst
    BY <1>7, <1>2, <1>3, <1>4 DEF Redundant, ForwardOK
  <2>2. after = known
    BY <1>7, <1>2 DEF Redundant, Known
  <2>3. /\ DOMAIN renamed = DOMAIN alias \cup {o.dst} /\ renamed[o.dst] = v
        /\ \A x \in DOMAIN alias : x # o.dst /\ renamed[x] = alias[x]
    <3>1. \A x \in DOMAIN alias : x # o.dst
      BY <1>4 DEF ForwardOK
    <3> HIDE DEF v
    <3> QED BY <3>1 DEF With
  <2> HIDE DEF renamed, v
  <2>4. ForwardOK(p, c, k + 1, known, renamed)
    BY <2>1, <2>3, <1>3, <1>4, <1>5 DEF ForwardOK
  <2> QED BY <2>2, <2>4, <1>2, <1>7 DEF renamed, v
<1>8. CASE ~Redundant(i, known, Retained(p))
  <2> HIDE DEF after
  <2> SUFFICES ForwardOK(p, c, k + 1, after, alias)
    BY <1>8 DEF after
  <2>0. after = Known(known, i, Retained(p))
    BY DEF after
  <2>9. \A x \in DOMAIN alias : /\ x \in Values(p) \ Retained(p) /\ Settled(c, x, k + 1)
                                /\ alias[x] \in Values(p) \ DOMAIN alias /\ Settled(c, alias[x], k + 1)
    BY <1>4 DEF ForwardOK
  <2>10. \A f \in DOMAIN known : /\ f \in Fields(p) /\ known[f] \in Values(p) \ DOMAIN alias
                                 /\ Settled(c, known[f], k + 1)
    BY <1>4 DEF ForwardOK
  <2>1. ASSUME NEW u, after = With(known, o.field, u), o.field \in Fields(p),
               u \in Values(p) \ DOMAIN alias, Settled(c, u, k + 1)
        PROVE  ForwardOK(p, c, k + 1, after, alias)
    <3>1. /\ DOMAIN after = DOMAIN known \cup {o.field} /\ after[o.field] = u
          /\ \A f \in DOMAIN known : f # o.field => after[f] = known[f]
      BY <2>1 DEF With
    <3> QED BY <3>1, <2>1, <2>9, <2>10 DEF ForwardOK
  <2>2. CASE o.op = "store"
    <3>1. after = With(known, o.field, i.args[1])
      BY <2>0, <2>2, <1>2 DEF Known
    <3> QED BY <2>1, <2>2, <3>1, <1>3, <1>6
  <2>3. CASE o.op = "load" /\ (o.field \notin DOMAIN known \/ o.dst \in Retained(p))
    <3>1. after = With(known, o.field, o.dst)
      BY <2>0, <2>3, <1>2 DEF Known
    <3>2. o.dst \notin DOMAIN alias
      BY <1>4 DEF ForwardOK
    <3> QED BY <2>1, <2>3, <3>1, <3>2, <1>3, <1>5
  <2>4. CASE o.op = "storeAt"
    <3>1. after = Without(known, o.field)
      BY <2>0, <2>4, <1>2 DEF Known
    <3>2. DOMAIN after \subseteq DOMAIN known /\ \A f \in DOMAIN after : after[f] = known[f]
      BY <3>1 DEF Without
    <3> QED BY <3>2, <2>9, <2>10 DEF ForwardOK
  <2>5. CASE o.op \in {"guard", "endguard"}
    <3>1. DOMAIN after = {}
      BY <2>0, <2>5, <1>2 DEF Known, NoEntries
    <3> QED BY <3>1, <2>9 DEF ForwardOK
  <2>6. CASE ~(\/ o.op \in {"store", "storeAt", "guard", "endguard"}
               \/ o.op = "load" /\ (o.field \notin DOMAIN known \/ o.dst \in Retained(p)))
    <3>1. after = known
      BY <2>0, <2>6, <1>2 DEF Known
    <3> QED BY <3>1, <2>9, <2>10 DEF ForwardOK
  <2> QED BY <2>2, <2>3, <2>4, <2>5, <2>6
<1> QED BY <1>7, <1>8

\* What forwarding has made of the first k instructions.
Forwards(p, c, k) == Forwarding(c, Retained(p))[k]

\* What forwarding makes of the next instruction.
LEMMA ForwardsStep ==
  ASSUME NEW p, NEW c, BandOK(p, c), NEW k \in 0..(Len(c) - 1)
  PROVE  LET s == Forwards(p, c, k) t == Forwards(p, c, k + 1)
             i == Renamed(c[k + 1], s.alias)
         IN  /\ t.known = Known(s.known, i, Retained(p))
             /\ t.alias = IF Redundant(i, s.known, Retained(p))
                          THEN With(s.alias, i.dst, s.known[i.field]) ELSE s.alias
             /\ t.code = IF Redundant(i, s.known, Retained(p)) THEN s.code ELSE Append(s.code, i)
<1> DEFINE f == Forwarding(c, Retained(p))
<1>1. Len(c) \in Nat /\ k + 1 \in 1..Len(c) /\ k + 1 - 1 = k
  BY DEF BandOK, InstructionsOK
<1>2. f[k + 1] = ForwardOne(f[k], c[k + 1], Retained(p))
  BY <1>1, ForwardingIs
<1> HIDE DEF f
<1>3. \A s : LET t == ForwardOne(s, c[k + 1], Retained(p)) i == Renamed(c[k + 1], s.alias) IN
             /\ t.known = Known(s.known, i, Retained(p))
             /\ t.alias = IF Redundant(i, s.known, Retained(p))
                          THEN With(s.alias, i.dst, s.known[i.field]) ELSE s.alias
             /\ t.code = IF Redundant(i, s.known, Retained(p)) THEN s.code ELSE Append(s.code, i)
  BY DEF ForwardOne, Redundant
<1> QED BY <1>2, <1>3 DEF Forwards, f

\* Forwarding begins with nothing.
LEMMA ForwardsBegin ==
  ASSUME NEW p, NEW c, BandOK(p, c)
  PROVE  Forwards(p, c, 0) = Unforwarded
<1>1. Len(c) \in Nat
  BY DEF BandOK, InstructionsOK
<1> QED BY <1>1, ForwardingIs DEF Forwards

\* What forwarding knows and renames is settled, all along the band.
LEMMA ForwardsOK ==
  ASSUME NEW p, NEW c, BandOK(p, c)
  PROVE  \A k \in 0..Len(c) :
           /\ ForwardOK(p, c, k, Forwards(p, c, k).known, Forwards(p, c, k).alias)
           /\ IsSequence(Forwards(p, c, k).code)
<1> DEFINE OK(k) == /\ ForwardOK(p, c, k, Forwards(p, c, k).known, Forwards(p, c, k).alias)
                    /\ IsSequence(Forwards(p, c, k).code)
           S == {k \in 0..Len(c) : OK(k)}
<1>0. Len(c) \in Nat
  BY DEF BandOK, InstructionsOK
<1>1. 0 \in S
  <2>1. OK(0)
    BY ForwardsBegin, ShortSequences DEF Unforwarded, NoEntries, ForwardOK
  <2> QED BY <2>1, <1>0
<1>2. ASSUME NEW k \in 0..(Len(c) - 1), k \in S PROVE k + 1 \in S
  <2> DEFINE s == Forwards(p, c, k)
             t == Forwards(p, c, k + 1)
             i == Renamed(c[k + 1], s.alias)
  <2>1. ForwardOK(p, c, k, s.known, s.alias) /\ IsSequence(s.code)
    BY <1>2
  <2>2. /\ t.known = Known(s.known, i, Retained(p))
        /\ t.alias = IF Redundant(i, s.known, Retained(p))
                     THEN With(s.alias, i.dst, s.known[i.field]) ELSE s.alias
        /\ t.code = IF Redundant(i, s.known, Retained(p)) THEN s.code ELSE Append(s.code, i)
    BY ForwardsStep
  <2> HIDE DEF s, t, i
  <2>3. ForwardOK(p, c, k + 1, t.known, t.alias)
    BY <2>1, <2>2, ForwardStep DEF i
  <2>4. IsSequence(t.code)
    BY <2>1, <2>2, Appended
  <2>5. k + 1 \in 0..Len(c)
    BY <1>0
  <2> QED BY <2>3, <2>4, <2>5 DEF t
<1>3. \A k \in 0..Len(c) : k \in S
  <2> HIDE DEF S
  <2> QED BY <1>0, <1>1, <1>2, UpTo
<1> QED BY <1>3

(***************************************************************************)
(* Guards that do not hold.                                                *)
(***************************************************************************)

\* The interpreter skips because of a guard that has not ended yet.
Skipping(c, k, inside) ==
  inside # None => \E g \in 1..k : /\ c[g].op = "guard" /\ c[g].field = inside
                                   /\ \A j \in (g + 1)..k : ~(c[j].op = "endguard" /\ c[j].field = inside)

\* The interpreter runs the band step by step.
LEMMA RunIsState ==
  ASSUME NEW p, NEW c, InstructionsOK(p, c), NEW taken
  PROVE  /\ RunOf(c, taken, Items(p))[0] = Unrun(Items(p))
         /\ \A k \in 0..Len(c) : IsState(RunOf(c, taken, Items(p))[k], Items(p))
         /\ \A k \in 0..(Len(c) - 1) :
              Stepped(RunOf(c, taken, Items(p))[k + 1], RunOf(c, taken, Items(p))[k], c[k + 1], taken)
<1> DEFINE r == RunOf(c, taken, Items(p))
           S == {k \in 0..Len(c) : IsState(r[k], Items(p))}
<1>0. Len(c) \in Nat /\ None \notin Items(p) /\ Fields(p) \subseteq Items(p)
  BY DEF InstructionsOK, Items
<1>1. r[0] = Unrun(Items(p)) /\ \A k \in 1..Len(c) : r[k] = RunOne(r[k - 1], c[k], taken)
  BY <1>0, RunOfIs
<1> HIDE DEF r
<1>2. \A k \in 0..(Len(c) - 1) : k + 1 \in 1..Len(c) /\ k + 1 \in 0..Len(c) /\ r[k + 1] = RunOne(r[k], c[k + 1], taken)
  <2> SUFFICES ASSUME NEW k \in 0..(Len(c) - 1)
               PROVE  k + 1 \in 1..Len(c) /\ k + 1 \in 0..Len(c) /\ r[k + 1] = RunOne(r[k], c[k + 1], taken)
    OBVIOUS
  <2>1. k + 1 \in 1..Len(c) /\ k + 1 \in 0..Len(c) /\ k + 1 - 1 = k
    BY <1>0
  <2> QED BY <2>1, <1>1
<1>3. ASSUME NEW k \in 0..(Len(c) - 1), IsState(r[k], Items(p))
      PROVE  Stepped(r[k + 1], r[k], c[k + 1], taken) /\ IsState(r[k + 1], Items(p))
  <2> DEFINE i == c[k + 1]
  <2>1. Shape(i) /\ (i.op \in {"store", "storeAt"} => i.field # None)
    BY <1>0, <1>2 DEF InstructionsOK
  <2>2. Stepped(r[k + 1], r[k], i, taken)
    BY <2>1, <1>0, <1>2, <1>3, OneStep
  <2> HIDE DEF i
  <2>3. IsState(r[k + 1], Items(p))
    BY <2>2, <1>3 DEF Stepped, IsState, Wrote, Put
  <2> QED BY <2>2, <2>3 DEF i
<1>4. 0 \in S
  BY <1>0, <1>1, UnrunIsState
<1>5. ASSUME NEW k \in 0..(Len(c) - 1), k \in S PROVE k + 1 \in S
  BY <1>2, <1>3, <1>5
<1>6. \A k \in 0..Len(c) : k \in S
  <2> HIDE DEF S
  <2> QED BY <1>0, <1>4, <1>5, UpTo
<1>7. \A k \in 0..(Len(c) - 1) : k \in 0..Len(c)
  BY <1>0
<1> QED BY <1>1, <1>3, <1>6, <1>7 DEF r

\* So it is all along the band.
LEMMA SkippingHolds ==
  ASSUME NEW p, NEW c, BandOK(p, c), NEW taken
  PROVE  \A k \in 0..Len(c) : Skipping(c, k, RunOf(c, taken, Items(p))[k].inside)
<1> DEFINE r == RunOf(c, taken, Items(p))
           S == {k \in 0..Len(c) : Skipping(c, k, r[k].inside)}
<1>0. Len(c) \in Nat
  BY DEF BandOK, InstructionsOK
<1>1. 0 \in S
  <2>1. r[0] = Unrun(Items(p))
    BY RunIsState DEF BandOK
  <2>2. r[0].inside = None
    BY <2>1 DEF Unrun
  <2> QED BY <1>0, <2>2 DEF Skipping
<1>2. ASSUME NEW k \in 0..(Len(c) - 1), k \in S PROVE k + 1 \in S
  <2> DEFINE i == c[k + 1]
  <2>1. Stepped(r[k + 1], r[k], i, taken) /\ Skipping(c, k, r[k].inside)
    BY <1>2, RunIsState DEF BandOK
  <2>2. k + 1 \in 0..Len(c) /\ k + 1 \in 1..(k + 1) /\ k \in Nat
    BY <1>0
  <2> HIDE DEF r
  <2>3. CASE r[k].inside = None
    <3> SUFFICES ASSUME r[k + 1].inside # None PROVE Skipping(c, k + 1, r[k + 1].inside)
      BY <2>2 DEF Skipping
    <3>1. i.op = "guard" /\ i.field = r[k + 1].inside
      BY <2>1, <2>3 DEF Stepped
    <3>2. \A j : j \notin (k + 1 + 1)..(k + 1)
      BY <2>2
    <3> QED BY <3>1, <3>2, <2>2 DEF Skipping
  <2>4. CASE r[k].inside # None
    <3> SUFFICES ASSUME r[k + 1].inside # None PROVE Skipping(c, k + 1, r[k + 1].inside)
      BY <2>2 DEF Skipping
    <3>1. r[k + 1].inside = r[k].inside /\ ~(i.op = "endguard" /\ i.field = r[k].inside)
      BY <2>1, <2>4 DEF Stepped
    <3>2. PICK g \in 1..k : /\ c[g].op = "guard" /\ c[g].field = r[k].inside
                            /\ \A j \in (g + 1)..k : ~(c[j].op = "endguard" /\ c[j].field = r[k].inside)
      BY <2>1, <2>4 DEF Skipping
    <3>3. g \in 1..(k + 1) /\ \A j \in (g + 1)..(k + 1) : j \in (g + 1)..k \/ j = k + 1
      BY <2>2
    <3> QED BY <3>1, <3>2, <3>3 DEF Skipping
  <2> QED BY <2>3, <2>4
<1>3. \A k \in 0..Len(c) : k \in S
  <2> HIDE DEF S
  <2> QED BY <1>0, <1>1, <1>2, UpTo
<1> QED BY <1>3

\* What is skipped defines nothing that is not retained.
LEMMA SkippedIsRetained ==
  ASSUME NEW p, NEW c, BandOK(p, c), NEW taken, NEW k \in 0..(Len(c) - 1),
         RunOf(c, taken, Items(p))[k].inside # None
  PROVE  c[k + 1].dst \in Retained(p) \cup {None}
<1> DEFINE inside == RunOf(c, taken, Items(p))[k].inside
<1>0. Len(c) \in Nat /\ k + 1 \in 1..Len(c) /\ k \in 0..Len(c) /\ DOMAIN c = 1..Len(c)
  BY DEF BandOK, InstructionsOK
<1>1. Skipping(c, k, inside)
  BY <1>0, SkippingHolds
<1> HIDE DEF inside
<1>2. PICK g \in 1..k : /\ c[g].op = "guard" /\ c[g].field = inside
                        /\ \A j \in (g + 1)..k : ~(c[j].op = "endguard" /\ c[j].field = inside)
  BY <1>1 DEF Skipping, inside
<1>3. g \in 1..Len(c)
  BY <1>0
<1>4. PICK j \in 1..Len(c) : g < j /\ c[j].op = "endguard" /\ c[j].field = inside
  BY <1>2, <1>3 DEF BandOK, GuardsOK
<1>5. k + 1 <= j
  BY <1>2, <1>3, <1>4, <1>0
<1>6. CASE j = k + 1
  BY <1>0, <1>4, <1>6 DEF BandOK, InstructionsOK, Shape
<1>7. CASE j # k + 1
  <2>1. Guarded(c, k + 1)
    BY <1>0, <1>2, <1>3, <1>4, <1>5, <1>7 DEF Guarded
  <2> QED BY <2>1, <1>0 DEF BandOK, GuardsOK
<1> QED BY <1>6, <1>7

\* What the band holds at r holds at q under the names it has by now.
Alike(p, r, q, known, alias) ==
  /\ IsState(r, Items(p)) /\ IsState(q, Items(p))
  /\ q.inside = r.inside /\ q.sent = r.sent
  /\ \A x \in Items(p) \ DOMAIN alias : q.holds[x] = r.holds[x]
  /\ \A x \in DOMAIN alias : r.holds[x] = r.holds[alias[x]]
  /\ r.inside = None => \A f \in DOMAIN known : r.holds[f] = r.holds[known[f]]

\* What an instruction writes leaves the other items.
LEMMA WroteElsewhere ==
  ASSUME NEW items, NEW h, h = [x \in items |-> h[x]], NEW inside, NEW i, NEW v
  PROVE  LET w == Wrote(h, inside, i, v) IN
         /\ w = [x \in items |-> w[x]]
         /\ \A x \in items : x # Target(i) => w[x] = h[x]
         /\ inside # None \/ Target(i) = None => w = h
         /\ inside = None /\ Target(i) # None /\ Target(i) \in items => w[Target(i)] = v
BY DEF Wrote, Put

\* A load that is dropped.
LEMMA AlikeDropped ==
  ASSUME NEW p, NEW c, BandOK(p, c), NEW k \in 0..(Len(c) - 1), NEW known, NEW alias,
         ForwardOK(p, c, k, known, alias), NEW o, o = c[k + 1], o.op = "load",
         o.field \in DOMAIN known, o.dst \notin Retained(p),
         NEW r, NEW q, Alike(p, r, q, known, alias), r.inside = None,
         NEW taken, NEW s, Stepped(s, r, o, taken), IsState(s, Items(p))
  PROVE  Alike(p, s, q, known, With(alias, o.dst, known[o.field]))
<1> DEFINE v == known[o.field]
           renamed == With(alias, o.dst, v)
<1>1. /\ k + 1 \in 1..Len(c) /\ k + 1 \in (k + 1)..Len(c)
      /\ None \notin Items(p) /\ Values(p) \cap Fields(p) = {}
      /\ Values(p) \subseteq Items(p) /\ Fields(p) \subseteq Items(p)
  BY DEF BandOK, InstructionsOK, Items
<1>2. o.dst \in Values(p) /\ o.dst # None /\ Target(o) = o.dst
  BY <1>1 DEF BandOK, InstructionsOK, Shape, Target
<1>3. \A x : Settled(c, x, k) => x # o.dst
  BY <1>1 DEF Settled
<1>4. v \in Values(p) \ DOMAIN alias /\ v # o.dst /\ r.holds[o.field] = r.holds[v] /\ o.field \in Fields(p)
  BY <1>3 DEF ForwardOK, Alike
<1>5. /\ DOMAIN renamed = DOMAIN alias \cup {o.dst} /\ renamed[o.dst] = v
      /\ \A x \in DOMAIN alias : x # o.dst /\ renamed[x] = alias[x]
  <2>1. \A x \in DOMAIN alias : x # o.dst
    BY <1>3 DEF ForwardOK
  <2> HIDE DEF v
  <2> QED BY <2>1 DEF With
<1> HIDE DEF v, renamed
<1>6. /\ \A x \in Items(p) : x # o.dst => s.holds[x] = r.holds[x]
      /\ s.holds[o.dst] = r.holds[o.field]
  <2>1. s.holds = Wrote(r.holds, r.inside, o, r.holds[o.field])
    BY DEF Stepped
  <2>2. r.holds = [x \in Items(p) |-> r.holds[x]]
    BY DEF Alike, IsState
  <2> QED BY <2>1, <2>2, <1>1, <1>2, WroteElsewhere
<1>7. s.inside = None /\ s.sent = r.sent
  BY DEF Stepped
<1>8. /\ \A x \in DOMAIN alias : /\ x \in Values(p) /\ x # o.dst /\ alias[x] \in Values(p) /\ alias[x] # o.dst
      /\ \A f \in DOMAIN known : f \in Fields(p) /\ f # o.dst /\ known[f] \in Values(p) /\ known[f] # o.dst
  BY <1>1, <1>2, <1>3 DEF ForwardOK
<1>9. \A x \in DOMAIN renamed : s.holds[x] = s.holds[renamed[x]]
  <2> SUFFICES ASSUME NEW x \in DOMAIN renamed PROVE s.holds[x] = s.holds[renamed[x]]
    OBVIOUS
  <2>1. CASE x = o.dst
    BY <2>1, <1>1, <1>4, <1>5, <1>6
  <2>2. CASE x \in DOMAIN alias
    <3>1. r.holds[x] = r.holds[alias[x]]
      BY <2>2 DEF Alike
    <3>2. s.holds[x] = r.holds[x] /\ s.holds[alias[x]] = r.holds[alias[x]]
      BY <2>2, <1>1, <1>6, <1>8
    <3> QED BY <3>1, <3>2, <2>2, <1>5
  <2> QED BY <2>1, <2>2, <1>5
<1>10. \A x \in Items(p) \ DOMAIN renamed : q.holds[x] = s.holds[x]
  BY <1>5, <1>6 DEF Alike
<1>11. \A f \in DOMAIN known : s.holds[f] = s.holds[known[f]]
  BY <1>1, <1>6, <1>8 DEF Alike
<1> QED BY <1>7, <1>9, <1>10, <1>11 DEF Alike, renamed, v

\* An instruction that is kept under its new operands.
LEMMA AlikeKept ==
  ASSUME NEW p, NEW c, BandOK(p, c), NEW k \in 0..(Len(c) - 1), NEW known, NEW alias,
         ForwardOK(p, c, k, known, alias), NEW o, o = c[k + 1], NEW i, i = Renamed(o, alias),
         ~Redundant(i, known, Retained(p)),
         NEW r, NEW q, Alike(p, r, q, known, alias), NEW taken,
         NEW s, Stepped(s, r, o, taken), IsState(s, Items(p)),
         NEW t, Stepped(t, q, i, taken)
  PROVE  Alike(p, s, t, Known(known, i, Retained(p)), alias)
<1> DEFINE after == Known(known, i, Retained(p))
<1>1. /\ k + 1 \in 1..Len(c) /\ k + 1 \in (k + 1)..Len(c) /\ Shape(o) /\ IsInstr(o)
      /\ None \notin Items(p) /\ Values(p) \cap Fields(p) = {}
      /\ Values(p) \subseteq Items(p) /\ Fields(p) \subseteq Items(p)
      /\ \A n \in DOMAIN o.args : o.args[n] \in Values(p)
      /\ o.dst \in Values(p) \cup {None}
      /\ o.op \in {"load", "store", "loadAt", "storeAt"} => o.field \in Fields(p)
  BY DEF BandOK, InstructionsOK, Items
<1>2. /\ i.op = o.op /\ i.dst = o.dst /\ i.field = o.field
      /\ DOMAIN i.args = DOMAIN o.args /\ i.args = [n \in DOMAIN o.args |-> Entry(alias, o.args[n])]
  BY <1>1 DEF IsInstr, Renamed
<1>3. Target(i) = Target(o) /\ (Target(o) # None => Target(o) \in Items(p))
      /\ (o.op \in {"store", "storeAt"} => Target(o) = o.field /\ o.field # None)
      /\ (o.op \notin {"store", "storeAt"} => Target(o) = o.dst)
  BY <1>1, <1>2 DEF Target
<1>4. /\ \A x \in DOMAIN alias : /\ x \in Values(p) /\ x # Target(o)
                                 /\ alias[x] \in Values(p) \ DOMAIN alias /\ alias[x] # Target(o)
      /\ \A f \in DOMAIN known : f \in Fields(p) /\ f # o.dst /\ known[f] \in Values(p) /\ known[f] # Target(o)
  <2>1. \A x : Settled(c, x, k) => x # o.dst
    BY <1>1 DEF Settled
  <2>2. \A x \in Values(p) : o.op \in {"store", "storeAt"} => x # o.field
    BY <1>1
  <2>3. \A f \in Fields(p) : f # o.dst
    BY <1>1
  <2> QED BY <2>1, <2>2, <2>3, <1>3 DEF ForwardOK
<1>5. Given(q, i) = Given(r, o) /\ \A n \in DOMAIN o.args : r.holds[i.args[n]] = r.holds[o.args[n]]
  <2>1. ASSUME NEW n \in DOMAIN o.args
        PROVE  q.holds[i.args[n]] = r.holds[o.args[n]] /\ r.holds[i.args[n]] = r.holds[o.args[n]]
    <3> DEFINE w == o.args[n]
    <3>1. i.args[n] = Entry(alias, w) /\ w \in Items(p)
      BY <1>1, <1>2
    <3>2. CASE w \in DOMAIN alias
      <4>1. i.args[n] = alias[w] /\ alias[w] \in Items(p) \ DOMAIN alias
        BY <3>1, <3>2, <1>1, <1>4 DEF Entry
      <4> QED BY <4>1, <3>2 DEF Alike
    <3>3. CASE w \notin DOMAIN alias
      BY <3>1, <3>3 DEF Entry, Alike
    <3> QED BY <3>2, <3>3
  <2> QED BY <2>1, <1>2 DEF Given
<1>6. o.op \in {"load", "loadAt"} => q.holds[o.field] = r.holds[o.field]
  <2>1. o.op \in {"load", "loadAt"} => o.field \in Items(p) \ DOMAIN alias
    BY <1>1, <1>4
  <2> QED BY <2>1 DEF Alike
<1> DEFINE v == IF o.op \in {"load", "loadAt"} THEN r.holds[o.field]
                ELSE IF o.op \in {"store", "storeAt"} THEN Given(r, o)[1]
                ELSE <<o.op, o.dst, Given(r, o)>>
<1>7. s.holds = Wrote(r.holds, r.inside, o, v)
  BY DEF Stepped
<1>8. t.holds = Wrote(q.holds, r.inside, i, v)
  BY <1>2, <1>5, <1>6 DEF Stepped, Alike
<1>9. t.inside = s.inside /\ t.sent = s.sent
  BY <1>2, <1>5 DEF Stepped, Alike
<1>10. /\ r.holds = [x \in Items(p) |-> r.holds[x]] /\ q.holds = [x \in Items(p) |-> q.holds[x]]
       /\ IsState(q, Items(p))
  BY DEF Alike, IsState
<1> HIDE DEF v
<1>11. /\ \A x \in Items(p) : x # Target(o) => s.holds[x] = r.holds[x] /\ t.holds[x] = q.holds[x]
       /\ r.inside # None \/ Target(o) = None => s.holds = r.holds /\ t.holds = q.holds
       /\ r.inside = None /\ Target(o) # None => s.holds[Target(o)] = v /\ t.holds[Target(o)] = v
       /\ t.holds = [x \in Items(p) |-> t.holds[x]]
  BY <1>3, <1>7, <1>8, <1>10, WroteElsewhere
<1>12. IsState(t, Items(p))
  <2>1. t = [holds |-> t.holds, inside |-> t.inside, sent |-> t.sent]
    BY DEF Stepped
  <2> QED BY <2>1, <1>11 DEF IsState
<1>13. \A x \in Items(p) \ DOMAIN alias : t.holds[x] = s.holds[x]
  <2> SUFFICES ASSUME NEW x \in Items(p) \ DOMAIN alias PROVE t.holds[x] = s.holds[x]
    OBVIOUS
  <2>1. q.holds[x] = r.holds[x]
    BY DEF Alike
  <2>2. CASE x = Target(o)
    BY <2>1, <2>2, <1>11
  <2>3. CASE x # Target(o)
    BY <2>1, <2>3, <1>11
  <2> QED BY <2>2, <2>3
<1>14. \A x \in DOMAIN alias : s.holds[x] = s.holds[alias[x]]
  <2> SUFFICES ASSUME NEW x \in DOMAIN alias PROVE s.holds[x] = s.holds[alias[x]]
    OBVIOUS
  <2>1. r.holds[x] = r.holds[alias[x]]
    BY DEF Alike
  <2> QED BY <2>1, <1>1, <1>4, <1>11
<1> HIDE DEF after
<1>15. ASSUME s.inside = None, NEW f \in DOMAIN after PROVE s.holds[f] = s.holds[after[f]]
  <2>0. after = Known(known, i, Retained(p))
    BY DEF after
  <2>1. CASE o.op \in {"guard", "endguard"}
    <3>1. DOMAIN after = {}
      BY <2>0, <2>1, <1>2 DEF Known, NoEntries
    <3> QED BY <3>1, <1>15
  <2> SUFFICES ASSUME o.op \notin {"guard", "endguard"} PROVE s.holds[f] = s.holds[after[f]]
    BY <2>1
  <2>2. r.inside = None
    BY <1>15 DEF Stepped
  <2>3. \A g \in DOMAIN known : g # Target(o) => s.holds[g] = s.holds[known[g]]
    <3> SUFFICES ASSUME NEW g \in DOMAIN known, g # Target(o) PROVE s.holds[g] = s.holds[known[g]]
      OBVIOUS
    <3>1. r.holds[g] = r.holds[known[g]]
      BY <2>2 DEF Alike
    <3> QED BY <3>1, <1>1, <1>4, <1>11
  <2>4. CASE o.op = "store"
    <3>1. after = With(known, o.field, i.args[1])
      BY <2>0, <2>4, <1>2 DEF Known
    <3>2. CASE f = o.field
      <4>1. after[f] = i.args[1]
        BY <3>1, <3>2 DEF With
      <4>2. 1 \in DOMAIN o.args /\ o.args[1] \in Values(p) /\ v = r.holds[o.args[1]]
        BY <2>4, <1>1 DEF Shape, v, Given
      <4>3. i.args[1] \in Values(p)
        BY <4>2, <1>2, <1>4 DEF Entry
      <4>4. i.args[1] # Target(o) /\ o.field \in Fields(p)
        BY <4>3, <2>4, <1>1, <1>3
      <4>5. s.holds[i.args[1]] = r.holds[o.args[1]]
        BY <4>2, <4>3, <4>4, <1>1, <1>5, <1>11
      <4> QED BY <4>1, <4>2, <4>5, <3>2, <2>2, <2>4, <1>3, <1>11
    <3>3. CASE f # o.field
      <4>1. f \in DOMAIN known /\ after[f] = known[f]
        BY <3>1, <3>3, <1>15 DEF With
      <4> QED BY <4>1, <3>3, <2>3, <2>4, <1>3
    <3> QED BY <3>2, <3>3
  <2>5. CASE o.op = "load"
    <3>1. after = With(known, o.field, o.dst)
      BY <2>0, <2>5, <1>2 DEF Known, Redundant
    <3>2. o.dst # None /\ o.dst \in Values(p) /\ o.field \in Fields(p) /\ o.field # o.dst /\ Target(o) = o.dst
      BY <2>5, <1>1, <1>3 DEF Shape
    <3>3. CASE f = o.field
      <4>1. after[f] = o.dst
        BY <3>1, <3>3 DEF With
      <4>2. s.holds[o.dst] = r.holds[f] /\ s.holds[f] = r.holds[f]
        BY <3>2, <3>3, <2>2, <2>5, <1>1, <1>11 DEF v
      <4> QED BY <4>1, <4>2
    <3>4. CASE f # o.field
      <4>1. f \in DOMAIN known /\ after[f] = known[f]
        BY <3>1, <3>4, <1>15 DEF With
      <4> QED BY <4>1, <3>2, <2>3, <1>4
    <3> QED BY <3>3, <3>4
  <2>6. CASE o.op = "storeAt"
    <3>1. after = Without(known, o.field)
      BY <2>0, <2>6, <1>2 DEF Known
    <3>2. f \in DOMAIN known /\ f # o.field /\ after[f] = known[f]
      BY <3>1, <1>15 DEF Without
    <3> QED BY <3>2, <2>3, <2>6, <1>3
  <2>7. CASE o.op \notin {"store", "storeAt", "load"}
    <3>1. after = known
      BY <2>0, <2>7, <1>2 DEF Known
    <3> QED BY <3>1, <2>3, <2>7, <1>3, <1>4, <1>15
  <2> QED BY <2>4, <2>5, <2>6, <2>7
<1> QED BY <1>9, <1>12, <1>13, <1>14, <1>15 DEF Alike, after

\* What outlives a call is an item.
LEMMA RetainedIsItem == \A p : Retained(p) \cup Fields(p) \subseteq Items(p)
<1>1. ASSUME NEW p PROVE Retained(p) \subseteq Values(p) 
  BY DEF Retained, Values, Defined
<1> QED BY <1>1 DEF Items

\* The band and what forwarding makes of it do the same.
LEMMA ForwardedMeansSame ==
  ASSUME NEW p, NEW c, BandOK(p, c), NEW taken
  PROVE  Effect(Forwarded(c, Retained(p)), taken, Items(p), Retained(p) \cup Fields(p))
           = Effect(c, taken, Items(p), Retained(p) \cup Fields(p))
<1> DEFINE r == RunOf(c, taken, Items(p))
           q(k) == After(Forwards(p, c, k).code, taken, Items(p))
           OK(k) == Alike(p, r[k], q(k), Forwards(p, c, k).known, Forwards(p, c, k).alias)
           S == {k \in 0..Len(c) : OK(k)}
<1>0. Len(c) \in Nat /\ None \notin Items(p) /\ Fields(p) \subseteq Items(p)
  BY DEF BandOK, InstructionsOK, Items
<1>1. 0 \in S
  <2>1. r[0] = Unrun(Items(p))
    BY RunIsState DEF BandOK
  <2>2. q(0) = Unrun(Items(p))
    <3>1. Forwards(p, c, 0).code = <<>>
      BY ForwardsBegin DEF Unforwarded
    <3>2. Len(<<>>) = 0 /\ 0 \in Nat
      BY ShortSequences
    <3>3. RunOf(<<>>, taken, Items(p))[0] = Unrun(Items(p))
      BY <3>2, RunOfIs
    <3> QED BY <3>1, <3>2, <3>3 DEF After
  <2>3. Forwards(p, c, 0).known = NoEntries /\ Forwards(p, c, 0).alias = NoEntries
    BY ForwardsBegin DEF Unforwarded
  <2> HIDE DEF r, q
  <2>4. OK(0)
    BY <2>1, <2>2, <2>3, UnrunIsState DEF Alike, NoEntries
  <2> QED BY <2>4, <1>0
<1>2. ASSUME NEW k \in 0..(Len(c) - 1), k \in S PROVE k + 1 \in S
  <2> DEFINE s == Forwards(p, c, k)
             t == Forwards(p, c, k + 1)
             o == c[k + 1]
             i == Renamed(o, s.alias)
  <2>1. k + 1 \in 0..Len(c) /\ k \in 0..Len(c) /\ k + 1 \in 1..Len(c)
    BY <1>0
  <2>2. Stepped(r[k + 1], r[k], o, taken) /\ IsState(r[k + 1], Items(p)) /\ OK(k)
    BY <1>2, <2>1, RunIsState DEF BandOK
  <2>3. ForwardOK(p, c, k, s.known, s.alias) /\ IsSequence(s.code)
    BY <2>1, ForwardsOK
  <2>4. /\ t.known = Known(s.known, i, Retained(p))
        /\ t.alias = IF Redundant(i, s.known, Retained(p))
                     THEN With(s.alias, i.dst, s.known[i.field]) ELSE s.alias
        /\ t.code = IF Redundant(i, s.known, Retained(p)) THEN s.code ELSE Append(s.code, i)
    BY ForwardsStep
  <2>5. Shape(o) /\ IsInstr(o) /\ i.op = o.op /\ i.dst = o.dst /\ i.field = o.field
        /\ DOMAIN i.args = DOMAIN o.args
    BY <2>1 DEF BandOK, InstructionsOK, IsInstr, Renamed
  <2>6. r[k].inside # None => o.dst \in Retained(p) \cup {None}
    BY SkippedIsRetained
  <2>7. q(k + 1) = IF Redundant(i, s.known, Retained(p)) THEN q(k) ELSE RunOne(q(k), i, taken)
    BY <2>3, <2>4, AfterAppended
  <2> HIDE DEF r, q, i, o, s, t
  <2>8. OK(k + 1)
    <3>1. CASE Redundant(i, s.known, Retained(p))
      <4>1. /\ o.op = "load" /\ o.field \in DOMAIN s.known /\ o.dst \notin Retained(p) /\ o.dst # None
        BY <3>1, <2>5 DEF Redundant, Shape
      <4>2. r[k].inside = None
        BY <4>1, <2>6
      <4>3. Alike(p, r[k], q(k), s.known, s.alias)
        BY <2>2 DEF s
      <4>4. Alike(p, r[k + 1], q(k), s.known, With(s.alias, o.dst, s.known[o.field]))
        BY <4>1, <4>2, <4>3, <2>2, <2>3, AlikeDropped DEF o
      <4>5. Known(s.known, i, Retained(p)) = s.known
        BY <4>1, <2>5 DEF Known
      <4> QED BY <3>1, <4>4, <4>5, <2>4, <2>5, <2>7 DEF t
    <3>2. CASE ~Redundant(i, s.known, Retained(p))
      <4>1. Alike(p, r[k], q(k), s.known, s.alias)
        BY <2>2 DEF s
      <4>2. Shape(i) /\ (i.op \in {"store", "storeAt"} => i.field # None)
        BY <2>5 DEF Shape
      <4>3. IsState(q(k), Items(p))
        BY <4>1 DEF Alike
      <4>4. Stepped(q(k + 1), q(k), i, taken)
        BY <3>2, <4>2, <4>3, <2>7, <1>0, OneStep
      <4>5. Alike(p, r[k + 1], q(k + 1), Known(s.known, i, Retained(p)), s.alias)
        BY <3>2, <4>1, <4>4, <2>2, <2>3, AlikeKept DEF o, i
      <4> QED BY <3>2, <4>5, <2>4 DEF t
    <3> QED BY <3>1, <3>2
  <2> QED BY <2>8, <2>1
<1>3. \A k \in 0..Len(c) : k \in S
  <2> HIDE DEF S
  <2> QED BY <1>0, <1>1, <1>2, UpTo
<1>4. Alike(p, r[Len(c)], q(Len(c)), Forwards(p, c, Len(c)).known, Forwards(p, c, Len(c)).alias)
  BY <1>3, <1>0
<1>5. \A x \in DOMAIN Forwards(p, c, Len(c)).alias : x \in Values(p) \ Retained(p)
  BY <1>0, ForwardsOK DEF ForwardOK
<1>6. Values(p) \cap Fields(p) = {}
  BY DEF BandOK, InstructionsOK
<1> DEFINE lasting == Retained(p) \cup Fields(p)
<1> HIDE DEF r, q
<1>7. \A x \in lasting : q(Len(c)).holds[x] = r[Len(c)].holds[x]
  BY <1>4, <1>5, <1>6, RetainedIsItem DEF Alike
<1>8. q(Len(c)).sent = r[Len(c)].sent
  BY <1>4 DEF Alike
<1> HIDE DEF lasting
<1>9. Effect(c, taken, Items(p), lasting)
        = [sent |-> r[Len(c)].sent, holds |-> [x \in lasting |-> r[Len(c)].holds[x]]]
  BY DEF Effect, r
<1>10. Effect(Forwarded(c, Retained(p)), taken, Items(p), lasting)
        = [sent |-> q(Len(c)).sent, holds |-> [x \in lasting |-> q(Len(c)).holds[x]]]
  BY DEF Effect, q, After, Forwarded, Forwards
<1> QED BY <1>7, <1>8, <1>9, <1>10 DEF lasting

\* What one instruction over the values and fields of p is like.
InstructionOK(p, i) ==
  /\ Shape(i) /\ IsInstr(i)
  /\ i.dst \in Values(p) \cup {None}
  /\ IsSequence(i.args) /\ \A n \in DOMAIN i.args : i.args[n] \in Values(p)
  /\ i.op \in {"load", "store", "loadAt", "storeAt"} => i.field \in Fields(p)
  /\ i.op \notin {"loop", "endloop"}

\* Renaming keeps all of an instruction but its operands, which are values.
LEMMA RenamedIsOK ==
  ASSUME NEW p, NEW o, InstructionOK(p, o), NEW alias,
         \A n \in DOMAIN o.args : Entry(alias, o.args[n]) \in Values(p)
  PROVE  InstructionOK(p, Renamed(o, alias))
<1> DEFINE i == Renamed(o, alias)
<1>1. IsSequence(o.args) /\ IsInstr(o)
  BY DEF InstructionOK
<1>2. Len(o.args) \in Nat /\ DOMAIN o.args = 1..Len(o.args)
  BY <1>1, AnySeq
<1>3. /\ i.op = o.op /\ i.dst = o.dst /\ i.field = o.field
      /\ i.args = [n \in DOMAIN o.args |-> Entry(alias, o.args[n])] /\ IsInstr(i)
  BY <1>1 DEF IsInstr, Renamed
<1> HIDE DEF i
<1>4. DOMAIN i.args = DOMAIN o.args /\ \A n \in DOMAIN i.args : i.args[n] \in Values(p)
  BY <1>3
<1>5. i.args = [n \in 1..Len(o.args) |-> i.args[n]]
  BY <1>2, <1>3
<1>6. IsSequence(i.args)
  BY <1>2, <1>5, Tabled
<1>7. Shape(i)
  BY <1>3, <1>4 DEF InstructionOK, Shape
<1> QED BY <1>3, <1>4, <1>6, <1>7 DEF InstructionOK, i

\* What forwarding leaves is a sequence of such instructions.
LEMMA ForwardedIsOK ==
  ASSUME NEW p, NEW c, BandOK(p, c)
  PROVE  InstructionsOK(p, Forwarded(c, Retained(p)))
<1> DEFINE AllOK(d) == \A j \in 1..Len(d) : InstructionOK(p, d[j])
           S == {k \in 0..Len(c) : AllOK(Forwards(p, c, k).code)}
<1>0. /\ Len(c) \in Nat /\ None \notin Items(p) /\ Values(p) \cap Fields(p) = {}
      /\ \A k \in 1..Len(c) : InstructionOK(p, c[k])
  BY DEF BandOK, InstructionsOK, InstructionOK
<1>1. 0 \in S
  <2>1. Forwards(p, c, 0).code = <<>>
    BY ForwardsBegin DEF Unforwarded
  <2>2. Len(<<>>) = 0
    BY ShortSequences
  <2>3. \A j : j \notin 1..0
    OBVIOUS
  <2> QED BY <1>0, <2>1, <2>2, <2>3
<1>2. ASSUME NEW k \in 0..(Len(c) - 1), k \in S PROVE k + 1 \in S
  <2> DEFINE s == Forwards(p, c, k)
             t == Forwards(p, c, k + 1)
             i == Renamed(c[k + 1], s.alias)
  <2>1. k + 1 \in 0..Len(c) /\ k \in 0..Len(c) /\ k + 1 \in 1..Len(c)
    BY <1>0
  <2>2. t.code = IF Redundant(i, s.known, Retained(p)) THEN s.code ELSE Append(s.code, i)
    BY ForwardsStep
  <2>3. ForwardOK(p, c, k, s.known, s.alias) /\ IsSequence(s.code) /\ AllOK(s.code)
    BY <1>2, <2>1, ForwardsOK
  <2>4. InstructionOK(p, i)
    <3>1. \A n \in DOMAIN c[k + 1].args : Entry(s.alias, c[k + 1].args[n]) \in Values(p)
      BY <2>3, EntryHolds
    <3> QED BY <3>1, <2>1, <1>0, RenamedIsOK
  <2> HIDE DEF i, s, t
  <2>5. AllOK(Append(s.code, i))
    <3>1. /\ Len(Append(s.code, i)) = Len(s.code) + 1 /\ Len(s.code) \in Nat
          /\ \A j \in 1..Len(s.code) : Append(s.code, i)[j] = s.code[j]
          /\ Append(s.code, i)[Len(s.code) + 1] = i
      BY <2>3, Appended, AnySeq
    <3>2. \A j \in 1..(Len(s.code) + 1) : j \in 1..Len(s.code) \/ j = Len(s.code) + 1
      BY <3>1
    <3> QED BY <3>1, <3>2, <2>3, <2>4
  <2>6. AllOK(t.code)
    BY <2>2, <2>3, <2>5
  <2> QED BY <2>1, <2>6 DEF t
<1>3. \A k \in 0..Len(c) : k \in S
  <2> HIDE DEF S
  <2> QED BY <1>0, <1>1, <1>2, UpTo
<1> DEFINE d == Forwarded(c, Retained(p))
<1>4. AllOK(d) /\ IsSequence(d)
  <2>1. Len(c) \in 0..Len(c)
    BY <1>0
  <2>2. d = Forwards(p, c, Len(c)).code
    BY DEF Forwarded, Forwards
  <2> QED BY <2>1, <2>2, <1>3, ForwardsOK
<1> HIDE DEF d
<1>5. Len(d) \in Nat /\ DOMAIN d = 1..Len(d)
  BY <1>4, AnySeq
<1> QED BY <1>0, <1>4, <1>5 DEF InstructionsOK, InstructionOK, d

(***************************************************************************)
(* Stores that move up.                                                    *)
(***************************************************************************)

\* The last instruction before a store that blocks it.
LEMMA EarliestIs ==
  ASSUME NEW d, NEW s \in 1..Len(d), Len(d) \in Nat
  PROVE  /\ Earliest(d, s) \in 0..(s - 1)
         /\ \A j \in 1..(s - 1) : Earliest(d, s) < j => ~Blocks(d, j, s)
         /\ Earliest(d, s) # 0 => Blocks(d, Earliest(d, s), s)
<1> DEFINE B == {0} \cup {k \in 1..(s - 1) : Blocks(d, k, s)}
<1>1. s - 1 \in Nat /\ B \in SUBSET (0..(s - 1)) /\ B # {}
  OBVIOUS
<1>2. Max(B) \in B /\ \A y \in B : y <= Max(B)
  <2> HIDE DEF B
  <2> QED BY <1>1, MaxIsGreatest
<1>3. Earliest(d, s) = Max(B)
  BY DEF Earliest
<1> DEFINE e == Earliest(d, s)
<1> HIDE DEF e
<1>4. e \in B /\ \A y \in B : y <= e
  BY <1>2, <1>3 DEF e
<1>5. e \in 0..(s - 1)
  BY <1>1, <1>4
<1>6. \A j \in 1..(s - 1) : e < j => ~Blocks(d, j, s)
  <2> SUFFICES ASSUME NEW j \in 1..(s - 1), e < j, Blocks(d, j, s) PROVE FALSE
    OBVIOUS
  <2>1. j \in B
    OBVIOUS
  <2> QED BY <2>1, <1>4, <1>5
<1>7. e # 0 => Blocks(d, e, s)
  BY <1>4
<1> QED BY <1>5, <1>6, <1>7 DEF e

\* The stores that have moved before the rest of the code behind instruction k,
\* those up to pos of them that move right behind k.
Ahead(d, k, pos) ==
  {s \in 1..Len(d) : /\ Moves(d, s) /\ k < s
                     /\ Earliest(d, s) < k \/ (Earliest(d, s) = k /\ s <= pos)}

\* Such a store is not blocked by what it has passed.
LEMMA AheadPasses ==
  ASSUME NEW d, Len(d) \in Nat, NEW k \in 0..Len(d), NEW pos \in Nat, NEW s \in Ahead(d, k, pos)
  PROVE  /\ s \in 1..Len(d) /\ k < s /\ d[s].op = "store"
         /\ \A j \in (k + 1)..(s - 1) : ~Blocks(d, j, s)
<1>1. s \in 1..Len(d) /\ k < s /\ d[s].op = "store" /\ Earliest(d, s) <= k
  <2>1. s \in 1..Len(d) /\ k < s /\ d[s].op = "store" /\ (Earliest(d, s) < k \/ Earliest(d, s) = k)
    BY DEF Ahead, Moves
  <2>2. Earliest(d, s) \in Int
    BY <2>1, EarliestIs
  <2> QED BY <2>1, <2>2
<1>2. \A j \in (k + 1)..(s - 1) : j \in 1..(s - 1) /\ Earliest(d, s) < j
  BY <1>1, EarliestIs
<1> QED BY <1>1, <1>2, EarliestIs

\* Stores ahead of the rest of the code go to different cells.
LEMMA AheadApart ==
  ASSUME NEW p, NEW d, InstructionsOK(p, d), NEW k \in 0..Len(d), NEW pos \in Nat,
         NEW s \in Ahead(d, k, pos), NEW t \in Ahead(d, k, pos), s # t
  PROVE  d[s].field # d[t].field
<1>1. /\ Len(d) \in Nat /\ DOMAIN d = 1..Len(d)
  BY DEF InstructionsOK
<1>2. \A u, v \in Ahead(d, k, pos) : u < v => d[u].field # d[v].field
  <2> SUFFICES ASSUME NEW u \in Ahead(d, k, pos), NEW v \in Ahead(d, k, pos), u < v
               PROVE  d[u].field # d[v].field
    OBVIOUS
  <2>1. u \in 1..Len(d) /\ v \in 1..Len(d) /\ k < u /\ d[u].op = "store" /\ u \in (k + 1)..(v - 1)
    BY <1>1, AheadPasses
  <2>2. ~Blocks(d, u, v)
    BY <1>1, <2>1, AheadPasses
  <2> QED BY <2>1, <2>2, <1>1 DEF Blocks, Accesses
<1>3. s \in Int /\ t \in Int
  BY DEF Ahead
<1>4. s < t \/ t < s
  BY <1>3
<1> QED BY <1>2, <1>4

\* How the stores ahead change along the schedule.
LEMMA AheadIs ==
  ASSUME NEW d, Len(d) \in Nat
  PROVE  /\ Ahead(d, 0, 0) = {}
         /\ Ahead(d, Len(d), Len(d)) = {}
         /\ \A k \in 0..(Len(d) - 1) : Ahead(d, k + 1, 0) = Ahead(d, k, Len(d)) \ {k + 1}
         /\ \A k \in 0..Len(d) : \A pos \in 1..Len(d) :
              IF Moves(d, pos) /\ Earliest(d, pos) = k
              THEN pos \notin Ahead(d, k, pos - 1) /\ Ahead(d, k, pos) = Ahead(d, k, pos - 1) \cup {pos}
              ELSE Ahead(d, k, pos) = Ahead(d, k, pos - 1)
<1>1. \A s \in 1..Len(d) : Earliest(d, s) \in 0..(s - 1) /\ (Moves(d, s) => Earliest(d, s) < s - 1)
  BY EarliestIs DEF Moves
<1>2. Ahead(d, 0, 0) = {}
  BY <1>1 DEF Ahead
<1>3. Ahead(d, Len(d), Len(d)) = {}
  BY DEF Ahead
<1>4. ASSUME NEW k \in 0..(Len(d) - 1) PROVE Ahead(d, k + 1, 0) = Ahead(d, k, Len(d)) \ {k + 1}
  <2>1. \A s \in 1..Len(d) : s \in Ahead(d, k + 1, 0) <=> s \in Ahead(d, k, Len(d)) /\ s # k + 1
    <3> SUFFICES ASSUME NEW s \in 1..Len(d)
                 PROVE  s \in Ahead(d, k + 1, 0) <=> s \in Ahead(d, k, Len(d)) /\ s # k + 1
      OBVIOUS
    <3>1. Earliest(d, s) \in 0..(s - 1)
      BY <1>1
    <3> QED BY <3>1 DEF Ahead
  <2>2. \A s : (s \in Ahead(d, k + 1, 0) => s \in 1..Len(d)) /\ (s \in Ahead(d, k, Len(d)) => s \in 1..Len(d))
    BY DEF Ahead
  <2> QED BY <2>1, <2>2
<1>5. ASSUME NEW k \in 0..Len(d), NEW pos \in 1..Len(d)
      PROVE  IF Moves(d, pos) /\ Earliest(d, pos) = k
             THEN pos \notin Ahead(d, k, pos - 1) /\ Ahead(d, k, pos) = Ahead(d, k, pos - 1) \cup {pos}
             ELSE Ahead(d, k, pos) = Ahead(d, k, pos - 1)
  <2>1. \A s \in 1..Len(d) : s <= pos <=> s <= pos - 1 \/ s = pos
    OBVIOUS
  <2>2. CASE Moves(d, pos) /\ Earliest(d, pos) = k
    <3>1. k < pos
      BY <2>2, <1>1
    <3> QED BY <2>1, <2>2, <3>1 DEF Ahead
  <2>3. CASE ~(Moves(d, pos) /\ Earliest(d, pos) = k)
    BY <2>1, <2>3 DEF Ahead
  <2> QED BY <2>2, <2>3
<1> QED BY <1>2, <1>3, <1>4, <1>5

\* The items of q are those of r, but for the cells of stores ahead.
Early(p, d, ahead, r, q) ==
  /\ IsState(r, Items(p)) /\ IsState(q, Items(p))
  /\ q.inside = r.inside /\ q.sent = r.sent
  /\ \A x \in Items(p) : (\A s \in ahead : d[s].field # x) => q.holds[x] = r.holds[x]
  /\ \A s \in ahead : q.holds[d[s].field] = IF r.inside = None THEN r.holds[d[s].args[1]]
                                            ELSE r.holds[d[s].field]

\* With no store ahead the two hold the same.
LEMMA EarlyNone ==
  ASSUME NEW p, NEW d, NEW r, NEW q
  PROVE  Early(p, d, {}, r, q) <=> IsState(r, Items(p)) /\ r = q
<1>1. ASSUME Early(p, d, {}, r, q) PROVE IsState(r, Items(p)) /\ r = q
  <2>1. /\ r = [holds |-> r.holds, inside |-> r.inside, sent |-> r.sent]
        /\ q = [holds |-> q.holds, inside |-> q.inside, sent |-> q.sent]
        /\ r.holds = [x \in Items(p) |-> r.holds[x]] /\ q.holds = [x \in Items(p) |-> q.holds[x]]
        /\ q.inside = r.inside /\ q.sent = r.sent /\ \A x \in Items(p) : q.holds[x] = r.holds[x]
    BY <1>1 DEF Early, IsState
  <2>2. q.holds = r.holds
    <3>1. \A h, g : h = [x \in Items(p) |-> h[x]] /\ g = [x \in Items(p) |-> g[x]]
                    /\ (\A x \in Items(p) : h[x] = g[x]) => h = g
      OBVIOUS
    <3> QED BY <2>1, <3>1, Zenon
  <2> QED BY <1>1, <2>1, <2>2, Zenon DEF Early
<1>2. ASSUME IsState(r, Items(p)), r = q PROVE Early(p, d, {}, r, q)
  BY <1>2 DEF Early
<1> QED BY <1>1, <1>2

\* A store that has moved is passed.
LEMMA EarlyPassed ==
  ASSUME NEW p, NEW d, InstructionsOK(p, d), NEW k \in 0..(Len(d) - 1),
         NEW ahead, ahead = Ahead(d, k, Len(d)), k + 1 \in ahead,
         NEW r, NEW q, Early(p, d, ahead, r, q), NEW taken,
         NEW s, Stepped(s, r, d[k + 1], taken), IsState(s, Items(p))
  PROVE  Early(p, d, ahead \ {k + 1}, s, q)
<1> DEFINE o == d[k + 1]
           rest == ahead \ {k + 1}
<1>1. /\ Len(d) \in Nat /\ k \in 0..Len(d) /\ k + 1 \in 1..Len(d) /\ Shape(o)
      /\ Values(p) \cap Fields(p) = {} /\ None \notin Items(p)
      /\ Fields(p) \subseteq Items(p) /\ Values(p) \subseteq Items(p)
  BY DEF InstructionsOK, Items
<1>2. \A t \in ahead : /\ t \in 1..Len(d) /\ d[t].op = "store" /\ d[t].field \in Fields(p)
                       /\ 1 \in DOMAIN d[t].args /\ d[t].args[1] \in Values(p)
  <2>1. \A t \in ahead : t \in 1..Len(d) /\ d[t].op = "store"
    BY <1>1, AheadPasses
  <2> QED BY <2>1 DEF InstructionsOK, Shape
<1>3. \A t \in rest : d[t].field # o.field
  <2>1. \A t \in rest : t \in Ahead(d, k, Len(d)) /\ k + 1 \in Ahead(d, k, Len(d)) /\ t # k + 1
    OBVIOUS
  <2> QED BY <2>1, <1>1, AheadApart
<1>4. o.op = "store" /\ o.field \in Fields(p) /\ 1 \in DOMAIN o.args /\ o.args[1] \in Values(p)
  BY <1>2
<1> HIDE DEF o
<1>5. Target(o) = o.field /\ o.field # None /\ o.field \in Items(p)
  BY <1>1, <1>4 DEF Target
<1>6. s.inside = r.inside /\ s.sent = r.sent
  BY <1>4 DEF Stepped, o
<1>7. s.holds = Wrote(r.holds, r.inside, o, r.holds[o.args[1]])
  BY <1>4 DEF Stepped, Given, o
<1>8. r.holds = [x \in Items(p) |-> r.holds[x]]
  BY DEF Early, IsState
<1>9. /\ \A x \in Items(p) : x # o.field => s.holds[x] = r.holds[x]
      /\ r.inside # None => s.holds = r.holds
      /\ r.inside = None => s.holds[o.field] = r.holds[o.args[1]]
  BY <1>5, <1>7, <1>8, WroteElsewhere
<1>10. q.holds[o.field] = s.holds[o.field]
  <2>1. q.holds[o.field] = IF r.inside = None THEN r.holds[o.args[1]] ELSE r.holds[o.field]
    BY DEF Early, o
  <2> QED BY <2>1, <1>9
<1>11. ASSUME NEW x \in Items(p), \A t \in rest : d[t].field # x PROVE q.holds[x] = s.holds[x]
  <2>1. CASE x = o.field
    BY <2>1, <1>10
  <2>2. CASE x # o.field
    <3>1. \A t \in ahead : d[t].field # x
      BY <2>2, <1>11 DEF o
    <3> QED BY <2>2, <3>1, <1>9 DEF Early
  <2> QED BY <2>1, <2>2
<1>12. ASSUME NEW t \in rest
       PROVE  q.holds[d[t].field] = IF s.inside = None THEN s.holds[d[t].args[1]] ELSE s.holds[d[t].field]
  <2>1. q.holds[d[t].field] = IF r.inside = None THEN r.holds[d[t].args[1]] ELSE r.holds[d[t].field]
    BY DEF Early
  <2>2. d[t].args[1] \in Values(p) /\ d[t].field \in Fields(p) /\ d[t].field # o.field
    BY <1>2, <1>3
  <2>3. s.holds[d[t].args[1]] = r.holds[d[t].args[1]] /\ s.holds[d[t].field] = r.holds[d[t].field]
    BY <2>2, <1>1, <1>4, <1>9
  <2> QED BY <2>1, <2>3, <1>6
<1>13. q.inside = s.inside /\ q.sent = s.sent /\ IsState(q, Items(p))
  BY <1>6 DEF Early
<1> HIDE DEF rest
<1> QED BY <1>11, <1>12, <1>13 DEF Early, rest

\* An instruction that stays where it is.
LEMMA EarlyStays ==
  ASSUME NEW p, NEW d, InstructionsOK(p, d), NEW k \in 0..(Len(d) - 1),
         NEW ahead, ahead = Ahead(d, k, Len(d)), k + 1 \notin ahead,
         NEW r, NEW q, Early(p, d, ahead, r, q), NEW taken,
         NEW s, Stepped(s, r, d[k + 1], taken), IsState(s, Items(p)),
         NEW t, Stepped(t, q, d[k + 1], taken), IsState(t, Items(p))
  PROVE  Early(p, d, ahead, s, t)
<1> DEFINE o == d[k + 1]
<1>1. /\ Len(d) \in Nat /\ k \in 0..Len(d) /\ k + 1 \in 1..Len(d) /\ DOMAIN d = 1..Len(d)
      /\ Shape(o) /\ Values(p) \cap Fields(p) = {} /\ None \notin Items(p)
      /\ Fields(p) \subseteq Items(p) /\ Values(p) \subseteq Items(p)
      /\ \A n \in DOMAIN o.args : o.args[n] \in Values(p)
      /\ o.dst \in Values(p) \cup {None}
      /\ o.op \in {"load", "store", "loadAt", "storeAt"} => o.field \in Fields(p)
  BY DEF InstructionsOK, Items
<1>2. \A u \in ahead : /\ u \in 1..Len(d) /\ k + 1 < u /\ ~Blocks(d, k + 1, u)
                       /\ d[u].field \in Fields(p) /\ 1 \in DOMAIN d[u].args
                       /\ d[u].args[1] \in Values(p) /\ d[u].args[1] \in Reads(d, u)
  <2>1. ASSUME NEW u \in ahead
        PROVE  u \in 1..Len(d) /\ k + 1 < u /\ ~Blocks(d, k + 1, u) /\ d[u].op = "store"
    <3>1. u \in 1..Len(d) /\ k < u /\ d[u].op = "store" /\ \A j \in (k + 1)..(u - 1) : ~Blocks(d, j, u)
      BY <1>1, AheadPasses
    <3>2. u # k + 1
      OBVIOUS
    <3>3. k + 1 \in (k + 1)..(u - 1) /\ k + 1 < u
      BY <1>1, <3>1, <3>2
    <3> QED BY <3>1, <3>3
  <2>2. \A u \in ahead : d[u].field \in Fields(p) /\ 1 \in DOMAIN d[u].args /\ d[u].args[1] \in Values(p)
    BY <2>1 DEF InstructionsOK, Shape
  <2>3. \A u \in ahead : d[u].args[1] \in Reads(d, u)
    BY <2>2 DEF Reads, ToSet
  <2> QED BY <2>1, <2>2, <2>3
<1>3. \A u \in ahead : /\ o.op \notin {"guard", "endguard", "foreign"}
                       /\ o.op \in {"load", "store", "loadAt", "storeAt"} => o.field # d[u].field
                       /\ o.dst # d[u].args[1]
  BY <1>1, <1>2 DEF Blocks, Accesses
<1> HIDE DEF o
<1>4. Given(q, o) = Given(r, o)
  <2>1. \A n \in DOMAIN o.args : q.holds[o.args[n]] = r.holds[o.args[n]]
    <3> SUFFICES ASSUME NEW n \in DOMAIN o.args PROVE q.holds[o.args[n]] = r.holds[o.args[n]]
      OBVIOUS
    <3>1. o.args[n] \in Items(p) /\ \A u \in ahead : d[u].field # o.args[n]
      BY <1>1, <1>2
    <3> QED BY <3>1 DEF Early
  <2> QED BY <2>1 DEF Given
<1>5. o.op \in {"load", "loadAt"} => q.holds[o.field] = r.holds[o.field]
  <2> SUFFICES ASSUME o.op \in {"load", "loadAt"} PROVE q.holds[o.field] = r.holds[o.field]
    OBVIOUS
  <2>1. o.field \in Items(p) /\ \A u \in ahead : d[u].field # o.field
    BY <1>1, <1>3
  <2> QED BY <2>1 DEF Early
<1> DEFINE v == IF o.op \in {"load", "loadAt"} THEN r.holds[o.field]
                ELSE IF o.op \in {"store", "storeAt"} THEN Given(r, o)[1]
                ELSE <<o.op, o.dst, Given(r, o)>>
<1>6. s.holds = Wrote(r.holds, r.inside, o, v)
  BY DEF Stepped, o
<1>7. t.holds = Wrote(q.holds, r.inside, o, v)
  BY <1>4, <1>5 DEF Stepped, Early, o
<1>8. t.inside = s.inside /\ t.sent = s.sent
  BY <1>4 DEF Stepped, Early, o
<1>9. r.holds = [x \in Items(p) |-> r.holds[x]] /\ q.holds = [x \in Items(p) |-> q.holds[x]]
  BY DEF Early, IsState
<1> HIDE DEF v
<1>10. Target(o) # None => Target(o) \in Items(p)
  BY <1>1 DEF Target
<1>11. /\ \A x \in Items(p) : x # Target(o) => s.holds[x] = r.holds[x] /\ t.holds[x] = q.holds[x]
       /\ r.inside # None \/ Target(o) = None => s.holds = r.holds /\ t.holds = q.holds
       /\ r.inside = None /\ Target(o) # None => s.holds[Target(o)] = v /\ t.holds[Target(o)] = v
  BY <1>6, <1>7, <1>9, <1>10, WroteElsewhere
<1>12. \A u \in ahead : d[u].field # Target(o) /\ d[u].args[1] # Target(o) /\ s.inside = r.inside
  <2> SUFFICES ASSUME NEW u \in ahead
               PROVE  d[u].field # Target(o) /\ d[u].args[1] # Target(o) /\ s.inside = r.inside
    OBVIOUS
  <2>1. s.inside = r.inside
    BY <1>3 DEF Stepped, o
  <2>2. CASE o.op \in {"store", "storeAt"}
    BY <2>1, <2>2, <1>1, <1>2, <1>3 DEF Target
  <2>3. CASE o.op \notin {"store", "storeAt"}
    <3>1. Target(o) = o.dst
      BY <2>3 DEF Target
    <3>2. d[u].field # o.dst
      BY <1>1, <1>2
    <3> QED BY <2>1, <3>1, <3>2, <1>3
  <2> QED BY <2>2, <2>3
<1>13. ASSUME NEW x \in Items(p), \A u \in ahead : d[u].field # x PROVE t.holds[x] = s.holds[x]
  <2>1. q.holds[x] = r.holds[x]
    BY <1>13 DEF Early
  <2>2. CASE x = Target(o)
    BY <2>1, <2>2, <1>11
  <2>3. CASE x # Target(o)
    BY <2>1, <2>3, <1>11
  <2> QED BY <2>2, <2>3
<1>14. ASSUME NEW u \in ahead
       PROVE  t.holds[d[u].field] = IF s.inside = None THEN s.holds[d[u].args[1]] ELSE s.holds[d[u].field]
  <2>1. q.holds[d[u].field] = IF r.inside = None THEN r.holds[d[u].args[1]] ELSE r.holds[d[u].field]
    BY DEF Early
  <2>2. d[u].field \in Items(p) /\ d[u].args[1] \in Items(p)
    BY <1>1, <1>2
  <2> QED BY <2>1, <2>2, <1>11, <1>12
<1> QED BY <1>8, <1>13, <1>14 DEF Early

\* A store that moves right behind instruction k.
LEMMA EarlyMoved ==
  ASSUME NEW p, NEW d, InstructionsOK(p, d), NEW k \in 0..Len(d), NEW pos \in 1..Len(d),
         NEW ahead, ahead = Ahead(d, k, pos - 1), pos \notin ahead,
         ahead \cup {pos} = Ahead(d, k, pos),
         NEW r, NEW q, Early(p, d, ahead, r, q), NEW taken,
         NEW t, Stepped(t, q, d[pos], taken), IsState(t, Items(p))
  PROVE  Early(p, d, ahead \cup {pos}, r, t)
<1> DEFINE o == d[pos]
           both == ahead \cup {pos}
<1>1. /\ Len(d) \in Nat /\ pos \in Nat
      /\ Values(p) \cap Fields(p) = {} /\ None \notin Items(p)
      /\ Fields(p) \subseteq Items(p) /\ Values(p) \subseteq Items(p)
  BY DEF InstructionsOK, Items
<1>2. \A u \in both : /\ d[u].op = "store" /\ d[u].field \in Fields(p)
                      /\ 1 \in DOMAIN d[u].args /\ d[u].args[1] \in Values(p)
  <2>1. \A u \in both : u \in 1..Len(d) /\ d[u].op = "store"
    BY <1>1, AheadPasses
  <2> QED BY <2>1 DEF InstructionsOK, Shape
<1>3. \A u \in ahead : u = pos \/ d[u].field # o.field
  <2>1. \A u \in ahead : u \in Ahead(d, k, pos) /\ pos \in Ahead(d, k, pos)
    OBVIOUS
  <2> QED BY <2>1, <1>1, AheadApart
<1>4. o.op = "store" /\ o.field \in Fields(p) /\ 1 \in DOMAIN o.args /\ o.args[1] \in Values(p)
  BY <1>2
<1> HIDE DEF o
<1>5. Target(o) = o.field /\ o.field # None /\ o.field \in Items(p)
  BY <1>1, <1>4 DEF Target
<1>6. t.inside = r.inside /\ t.sent = r.sent
  BY <1>4 DEF Stepped, Early, o
<1>7. t.holds = Wrote(q.holds, r.inside, o, q.holds[o.args[1]])
  BY <1>4 DEF Stepped, Given, Early, o
<1>8. q.holds = [x \in Items(p) |-> q.holds[x]]
  BY DEF Early, IsState
<1>9. /\ \A x \in Items(p) : x # o.field => t.holds[x] = q.holds[x]
      /\ r.inside # None => t.holds = q.holds
      /\ r.inside = None => t.holds[o.field] = q.holds[o.args[1]]
  BY <1>5, <1>7, <1>8, WroteElsewhere
<1>10. q.holds[o.args[1]] = r.holds[o.args[1]] /\ q.holds[o.field] = r.holds[o.field]
  <2>1. \A u \in ahead : d[u].field # o.args[1] /\ d[u].field # o.field
    BY <1>1, <1>2, <1>3, <1>4
  <2>2. o.args[1] \in Items(p) /\ o.field \in Items(p)
    BY <1>1, <1>4
  <2> QED BY <2>1, <2>2 DEF Early
<1>11. ASSUME NEW x \in Items(p), \A u \in both : d[u].field # x PROVE t.holds[x] = r.holds[x]
  <2>1. x # o.field /\ \A u \in ahead : d[u].field # x
    BY <1>11 DEF o
  <2> QED BY <2>1, <1>9 DEF Early
<1>12. ASSUME NEW u \in both
       PROVE  t.holds[d[u].field] = IF r.inside = None THEN r.holds[d[u].args[1]] ELSE r.holds[d[u].field]
  <2>1. CASE u = pos
    BY <2>1, <1>9, <1>10 DEF o
  <2>2. CASE u \in ahead
    <3>1. q.holds[d[u].field] = IF r.inside = None THEN r.holds[d[u].args[1]] ELSE r.holds[d[u].field]
      BY <2>2 DEF Early
    <3>2. d[u].field \in Items(p) /\ d[u].field # o.field
      BY <2>2, <1>1, <1>2, <1>3
    <3> QED BY <3>1, <3>2, <1>9
  <2> QED BY <2>1, <2>2
<1>13. IsState(r, Items(p))
  BY DEF Early
<1> HIDE DEF both
<1> QED BY <1>6, <1>11, <1>12, <1>13 DEF Early, both

\* Appending what may have no state: after it there is one.
LEMMA AppendedStep ==
  ASSUME NEW p, NEW d, InstructionsOK(p, d), NEW k \in 1..Len(d), NEW taken,
         NEW b, IsSequence(b), IsState(After(b, taken, Items(p)), Items(p))
  PROVE  LET t == After(Append(b, d[k]), taken, Items(p)) IN
         Stepped(t, After(b, taken, Items(p)), d[k], taken) /\ IsState(t, Items(p))
<1> DEFINE q == After(b, taken, Items(p))
           t == After(Append(b, d[k]), taken, Items(p))
<1>1. t = RunOne(q, d[k], taken)
  BY AfterAppended
<1>2. /\ Shape(d[k]) /\ None \notin Items(p) /\ Fields(p) \subseteq Items(p)
      /\ d[k].op \in {"store", "storeAt"} => d[k].field # None
  BY DEF InstructionsOK, Items
<1> HIDE DEF q, t
<1>3. Stepped(t, q, d[k], taken)
  BY <1>1, <1>2, OneStep DEF q
<1>4. IsState(q, Items(p))
  BY DEF q
<1>5. IsState(t, Items(p))
  BY <1>3, <1>4 DEF Stepped, IsState, Wrote, Put
<1> QED BY <1>3, <1>5 DEF q, t

\* The stores that move right behind one instruction.
LEMMA RaisedMeansSame ==
  ASSUME NEW p, NEW d, InstructionsOK(p, d), NEW taken, NEW k \in 0..Len(d),
         NEW r, NEW scheduled, IsSequence(scheduled),
         Early(p, d, Ahead(d, k, 0), r, After(scheduled, taken, Items(p)))
  PROVE  LET raised == Raised(d, k, scheduled)[Len(d)] IN
         /\ IsSequence(raised)
         /\ Early(p, d, Ahead(d, k, Len(d)), r, After(raised, taken, Items(p)))
<1> DEFINE f == Raised(d, k, scheduled)
           q(pos) == After(f[pos], taken, Items(p))
           OK(pos) == IsSequence(f[pos]) /\ Early(p, d, Ahead(d, k, pos), r, q(pos))
           S == {pos \in 0..Len(d) : OK(pos)}
<1>0. Len(d) \in Nat
  BY DEF InstructionsOK
<1>1. /\ f[0] = scheduled
      /\ \A pos \in 1..Len(d) : f[pos] = IF Moves(d, pos) /\ Earliest(d, pos) = k
                                       THEN Append(f[pos - 1], d[pos]) ELSE f[pos - 1]
  BY <1>0, RaisedIs
<1> HIDE DEF f
<1>2. 0 \in S
  BY <1>0, <1>1
<1>3. ASSUME NEW j \in 0..(Len(d) - 1), j \in S PROVE j + 1 \in S
  <2> DEFINE pos == j + 1
  <2>1. pos \in 1..Len(d) /\ pos - 1 = j /\ pos \in 0..Len(d)
    BY <1>0
  <2>2. OK(j)
    BY <1>3
  <2> HIDE DEF pos
  <2>3. CASE Moves(d, pos) /\ Earliest(d, pos) = k
    <3>1. f[pos] = Append(f[j], d[pos])
      BY <2>1, <2>3, <1>1
    <3>2. pos \notin Ahead(d, k, j) /\ Ahead(d, k, pos) = Ahead(d, k, j) \cup {pos}
      BY <2>1, <2>3, <1>0, AheadIs
    <3>3. IsState(q(j), Items(p)) /\ IsSequence(f[j])
      BY <2>2 DEF Early
    <3>4. Stepped(q(pos), q(j), d[pos], taken) /\ IsState(q(pos), Items(p))
      <4>1. /\ Stepped(After(Append(f[j], d[pos]), taken, Items(p)), After(f[j], taken, Items(p)), d[pos], taken)
            /\ IsState(After(Append(f[j], d[pos]), taken, Items(p)), Items(p))
        BY <2>1, <3>3, AppendedStep
      <4> QED BY <4>1, <3>1
    <3>5. IsSequence(f[pos])
      BY <3>1, <3>3, Appended
    <3> HIDE DEF q
    <3>6. Early(p, d, Ahead(d, k, j) \cup {pos}, r, q(pos))
      BY <2>1, <2>2, <3>2, <3>4, EarlyMoved
    <3>7. OK(pos)
      BY <3>2, <3>5, <3>6
    <3> QED BY <3>7, <2>1 DEF pos
  <2>4. CASE ~(Moves(d, pos) /\ Earliest(d, pos) = k)
    <3>1. f[pos] = f[j] /\ Ahead(d, k, pos) = Ahead(d, k, j)
      BY <2>1, <2>4, <1>0, <1>1, AheadIs
    <3>2. OK(pos)
      BY <3>1, <2>2
    <3> QED BY <3>2, <2>1 DEF pos
  <2> QED BY <2>3, <2>4
<1>4. \A pos \in 0..Len(d) : pos \in S
  <2> HIDE DEF S
  <2> QED BY <1>0, <1>2, <1>3, UpTo
<1>5. OK(Len(d))
  BY <1>0, <1>4
<1> QED BY <1>5 DEF f

\* The code and its schedule do the same.
LEMMA HoistedMeansSame ==
  ASSUME NEW p, NEW d, InstructionsOK(p, d), NEW taken
  PROVE  IsSequence(Hoisted(d)) /\ After(Hoisted(d), taken, Items(p)) = After(d, taken, Items(p))
<1> DEFINE n == Len(d)
           f == Hoisting(d)
           r == RunOf(d, taken, Items(p))
           q(k) == After(f[k], taken, Items(p))
           OK(k) == IsSequence(f[k]) /\ Early(p, d, Ahead(d, k, n), r[k], q(k))
           S == {k \in 0..n : OK(k)}
<1>0. n \in Nat
  BY DEF InstructionsOK
<1>1. /\ f[0] = Raised(d, 0, <<>>)[n]
      /\ \A k \in 1..n : f[k] = Raised(d, k, IF Moves(d, k) THEN f[k - 1] ELSE Append(f[k - 1], d[k]))[n]
  BY <1>0, HoistingIs
<1>2. /\ r[0] = Unrun(Items(p))
      /\ \A k \in 0..n : IsState(r[k], Items(p))
      /\ \A k \in 0..(n - 1) : Stepped(r[k + 1], r[k], d[k + 1], taken)
  BY RunIsState
<1> HIDE DEF f, r, n
<1>3. 0 \in S
  <2>1. After(<<>>, taken, Items(p)) = Unrun(Items(p)) /\ IsSequence(<<>>)
    <3>1. Len(<<>>) = 0 /\ 0 \in Nat /\ IsSequence(<<>>)
      BY ShortSequences
    <3>2. RunOf(<<>>, taken, Items(p))[0] = Unrun(Items(p))
      BY <3>1, RunOfIs
    <3> QED BY <3>1, <3>2 DEF After
  <2>2. Early(p, d, {}, r[0], After(<<>>, taken, Items(p)))
    BY <1>2, <2>1, UnrunIsState, EarlyNone
  <2>3. Ahead(d, 0, 0) = {}
    BY <1>0, AheadIs DEF n
  <2>4. 0 \in 0..n
    BY <1>0
  <2>5. /\ IsSequence(Raised(d, 0, <<>>)[n])
        /\ Early(p, d, Ahead(d, 0, n), r[0], After(Raised(d, 0, <<>>)[n], taken, Items(p)))
    BY <2>1, <2>2, <2>3, <2>4, RaisedMeansSame DEF n
  <2> QED BY <2>4, <2>5, <1>1
<1>4. ASSUME NEW k \in 0..(n - 1), k \in S PROVE k + 1 \in S
  <2> DEFINE ahead == Ahead(d, k, n)
  <2>1. k + 1 \in 1..n /\ k + 1 \in 0..n /\ k + 1 - 1 = k /\ k \in 0..n /\ k \in Nat
    BY <1>0
  <2>2. OK(k)
    BY <1>4
  <2>3. Ahead(d, k + 1, 0) = ahead \ {k + 1}
    BY <1>0, AheadIs DEF n
  <2>4. Stepped(r[k + 1], r[k], d[k + 1], taken) /\ IsState(r[k + 1], Items(p))
    BY <1>2, <2>1
  <2> DEFINE b == IF Moves(d, k + 1) THEN f[k] ELSE Append(f[k], d[k + 1])
  <2>5. f[k + 1] = Raised(d, k + 1, b)[n]
    BY <1>1, <2>1
  <2>6. IsSequence(b) /\ Early(p, d, Ahead(d, k + 1, 0), r[k + 1], After(b, taken, Items(p)))
    <3>1. CASE Moves(d, k + 1)
      <4>1. k + 1 \in ahead
        <5>1. Earliest(d, k + 1) \in 0..(k + 1 - 1) /\ Earliest(d, k + 1) < k + 1 - 1
          BY <2>1, <1>0, <3>1, EarliestIs DEF Moves, n
        <5>2. Earliest(d, k + 1) < k /\ k < k + 1
          BY <2>1, <5>1
        <5> QED BY <5>2, <2>1, <3>1 DEF Ahead, n
      <4>2. Early(p, d, ahead \ {k + 1}, r[k + 1], q(k))
        <5> HIDE DEF q
        <5> QED BY <2>2, <2>4, <4>1, EarlyPassed DEF n
      <4> QED BY <4>2, <3>1, <2>2, <2>3
    <3>2. CASE ~Moves(d, k + 1)
      <4>1. k + 1 \notin ahead
        BY <3>2 DEF Ahead
      <4>2. IsState(q(k), Items(p)) /\ IsSequence(f[k])
        BY <2>2 DEF Early
      <4> DEFINE t == After(Append(f[k], d[k + 1]), taken, Items(p))
      <4>3. Stepped(t, q(k), d[k + 1], taken) /\ IsState(t, Items(p))
        BY <2>1, <4>2, AppendedStep DEF n
      <4>4. Early(p, d, ahead, r[k + 1], t)
        <5> HIDE DEF q, t
        <5> QED BY <2>2, <2>4, <4>1, <4>3, EarlyStays DEF n
      <4>5. IsSequence(Append(f[k], d[k + 1])) /\ ahead \ {k + 1} = ahead
        BY <4>1, <4>2, Appended
      <4> QED BY <3>2, <4>4, <4>5, <2>3
    <3> QED BY <3>1, <3>2
  <2> HIDE DEF b
  <2>7. /\ IsSequence(Raised(d, k + 1, b)[n])
        /\ Early(p, d, Ahead(d, k + 1, n), r[k + 1], After(Raised(d, k + 1, b)[n], taken, Items(p)))
    BY <2>1, <2>6, RaisedMeansSame DEF n
  <2> QED BY <2>1, <2>5, <2>7
<1>5. \A k \in 0..n : k \in S
  <2> HIDE DEF S
  <2> QED BY <1>0, <1>3, <1>4, UpTo
<1>6. OK(n)
  BY <1>0, <1>5
<1>7. Ahead(d, n, n) = {}
  BY <1>0, AheadIs DEF n
<1>8. r[n] = q(n)
  <2> HIDE DEF q
  <2> QED BY <1>6, <1>7, EarlyNone
<1> QED BY <1>6, <1>8 DEF n, f, r, Hoisted, After

(***************************************************************************)
(* Where the instructions of a band are after forwarding.                  *)
(***************************************************************************)

\* Instruction k of the band under the names its operands have by then.
RenamedAt(p, c, k) == Renamed(c[k], Forwards(p, c, k - 1).alias)

\* Does forwarding drop it?
Dropped(p, c, k) == Redundant(RenamedAt(p, c, k), Forwards(p, c, k - 1).known, Retained(p))

\* The elements of d are those that forwarding keeps of the first k, m says which.
KeptOf(p, c, k, d, m) ==
  /\ m = [j \in 1..Len(d) |-> m[j]]
  /\ \A j \in 1..Len(d) : m[j] \in 1..k /\ ~Dropped(p, c, m[j]) /\ d[j] = RenamedAt(p, c, m[j])
  /\ \A i, j \in 1..Len(d) : i < j => m[i] < m[j]
  /\ \A u \in 1..k : ~Dropped(p, c, u) => \E j \in 1..Len(d) : m[j] = u

\* Forwarding keeps instructions of the band in their order.
LEMMA ForwardedFrom ==
  ASSUME NEW p, NEW c, BandOK(p, c)
  PROVE  \E m : KeptOf(p, c, Len(c), Forwarded(c, Retained(p)), m)
<1> DEFINE OK(k) == \E m : KeptOf(p, c, k, Forwards(p, c, k).code, m)
           S == {k \in 0..Len(c) : OK(k)}
<1>0. Len(c) \in Nat
  BY DEF BandOK, InstructionsOK
<1>1. 0 \in S
  <2>1. Forwards(p, c, 0).code = <<>>
    BY ForwardsBegin DEF Unforwarded
  <2>2. Len(<<>>) = 0
    BY ShortSequences
  <2> DEFINE m == [j \in 1..0 |-> 0]
  <2>3. KeptOf(p, c, 0, <<>>, m)
    <3>1. \A j : j \notin 1..0
      OBVIOUS
    <3> QED BY <2>2, <3>1 DEF KeptOf
  <2> HIDE DEF m
  <2> QED BY <1>0, <2>1, <2>3
<1>2. ASSUME NEW k \in 0..(Len(c) - 1), k \in S PROVE k + 1 \in S
  <2> DEFINE s == Forwards(p, c, k)
             t == Forwards(p, c, k + 1)
             i == RenamedAt(p, c, k + 1)
             n == Len(s.code)
  <2>1. k + 1 \in 0..Len(c) /\ k \in 0..Len(c) /\ k + 1 \in 1..Len(c) /\ k + 1 - 1 = k /\ k \in Nat
    BY <1>0
  <2>2. t.code = IF Dropped(p, c, k + 1) THEN s.code ELSE Append(s.code, i)
    BY <2>1, ForwardsStep DEF RenamedAt, Dropped
  <2>3. IsSequence(s.code)
    BY <2>1, ForwardsOK
  <2> HIDE DEF s, t, i
  <2>4. PICK m : KeptOf(p, c, k, s.code, m)
    BY <1>2 DEF s
  <2>5. CASE Dropped(p, c, k + 1)
    <3>1. KeptOf(p, c, k + 1, s.code, m)
      <4>1. \A u \in 1..(k + 1) : u \in 1..k \/ u = k + 1
        BY <2>1
      <4>2. \A u \in 1..k : u \in 1..(k + 1)
        BY <2>1
      <4> QED BY <4>1, <4>2, <2>4, <2>5 DEF KeptOf
    <3> QED BY <3>1, <2>1, <2>2, <2>5 DEF t
  <2>6. CASE ~Dropped(p, c, k + 1)
    <3> DEFINE d == Append(s.code, i)
               h == [j \in 1..(n + 1) |-> IF j = n + 1 THEN k + 1 ELSE m[j]]
    <3>1. /\ Len(d) = n + 1 /\ n \in Nat /\ d[n + 1] = i
          /\ \A j \in 1..n : d[j] = s.code[j]
      BY <2>3, Appended, AnySeq
    <3>0. /\ \A j \in 1..n : m[j] \in 1..k /\ ~Dropped(p, c, m[j]) /\ s.code[j] = RenamedAt(p, c, m[j])
          /\ \A a, b \in 1..n : a < b => m[a] < m[b]
          /\ \A u \in 1..k : ~Dropped(p, c, u) => \E j \in 1..n : m[j] = u
      BY <2>4 DEF KeptOf
    <3> HIDE DEF d, n
    <3>2. /\ \A j \in 1..n : j \in 1..(n + 1) /\ h[j] = m[j] /\ h[j] \in 1..k
          /\ n + 1 \in 1..(n + 1) /\ h[n + 1] = k + 1
          /\ \A j \in 1..(n + 1) : j \in 1..n \/ j = n + 1
      BY <3>1, <3>0
    <3>3. h = [j \in 1..(n + 1) |-> h[j]]
      OBVIOUS
    <3> HIDE DEF h
    <3>4. \A j \in 1..(n + 1) : h[j] \in 1..(k + 1) /\ ~Dropped(p, c, h[j]) /\ d[j] = RenamedAt(p, c, h[j])
      <4> SUFFICES ASSUME NEW j \in 1..(n + 1)
                   PROVE  h[j] \in 1..(k + 1) /\ ~Dropped(p, c, h[j]) /\ d[j] = RenamedAt(p, c, h[j])
        OBVIOUS
      <4>1. CASE j = n + 1
        BY <4>1, <3>1, <3>2, <2>1, <2>6 DEF i
      <4>2. CASE j \in 1..n
        BY <4>2, <3>0, <3>1, <3>2, <2>1
      <4> QED BY <4>1, <4>2, <3>2
    <3>5. \A a, b \in 1..(n + 1) : a < b => h[a] < h[b]
      <4> SUFFICES ASSUME NEW a \in 1..(n + 1), NEW b \in 1..(n + 1), a < b PROVE h[a] < h[b]
        OBVIOUS
      <4>1. a \in 1..n
        BY <3>1
      <4>2. CASE b = n + 1
        BY <4>1, <4>2, <3>2, <2>1
      <4>3. CASE b \in 1..n
        BY <4>1, <4>3, <3>0, <3>2
      <4> QED BY <4>2, <4>3, <3>2
    <3>6. \A u \in 1..(k + 1) : ~Dropped(p, c, u) => \E j \in 1..(n + 1) : h[j] = u
      <4> SUFFICES ASSUME NEW u \in 1..(k + 1), ~Dropped(p, c, u) PROVE \E j \in 1..(n + 1) : h[j] = u
        OBVIOUS
      <4>1. CASE u = k + 1
        BY <4>1, <3>2
      <4>2. CASE u # k + 1
        <5>1. u \in 1..k
          BY <4>2, <2>1
        <5>2. PICK j \in 1..n : m[j] = u
          BY <5>1, <3>0
        <5> QED BY <5>2, <3>2
      <4> QED BY <4>1, <4>2
    <3>7. KeptOf(p, c, k + 1, d, h)
      BY <3>1, <3>3, <3>4, <3>5, <3>6 DEF KeptOf
    <3> QED BY <3>7, <2>1, <2>2, <2>6 DEF t, d
  <2> QED BY <2>5, <2>6
<1>3. \A k \in 0..Len(c) : k \in S
  <2> HIDE DEF S
  <2> QED BY <1>0, <1>1, <1>2, UpTo
<1>4. OK(Len(c))
  BY <1>0, <1>3
<1> QED BY <1>4 DEF Forwarded, Forwards

(***************************************************************************)
(* The shape of a band that is prepared.                                   *)
(***************************************************************************)

\* What a plan is like, said of one band.
BandShape(p, c) ==
  /\ InstructionsOK(p, c) /\ SingleAssignment(c) /\ DefinesFirst(c, Retained(p)) /\ Nested(c, 0)
  /\ \A k \in 1..Len(c) : Guarded(c, k) => c[k].dst \in Retained(p) \cup {None}
  /\ StoresApart(c, 0)

\* Such a band is one that forwarding keeps the meaning of.
LEMMA ShapeIsOK == \A p, c : BandShape(p, c) => BandOK(p, c)
<1> SUFFICES ASSUME NEW p, NEW c, BandShape(p, c) PROVE BandOK(p, c)
  OBVIOUS
<1>1. DOMAIN c = 1..Len(c) /\ Len(c) \in Nat
  BY DEF BandShape, InstructionsOK
<1>2. ASSUME NEW k \in 1..Len(c), c[k].op = "guard"
      PROVE  \E j \in 1..Len(c) : k < j /\ c[j].op = "endguard" /\ c[j].field = c[k].field
  <2>1. PICK j \in DOMAIN c : <<k, j>> \in Brackets(c)
    BY <1>1, <1>2 DEF BandShape, Nested
  <2>2. k < j /\ c[j].op = "endguard" /\ c[j].field = c[k].field
    BY <1>2, <2>1 DEF BandShape, Nested, Brackets
  <2> QED BY <2>1, <2>2, <1>1
<1> QED BY <1>2 DEF BandShape, BandOK, GuardsOK

\* What renaming keeps, and that it takes values that are settled.
LEMMA RenamedAtIs ==
  ASSUME NEW p, NEW c, BandOK(p, c), NEW k \in 1..Len(c)
  PROVE  LET i == RenamedAt(p, c, k) IN
         /\ i.op = c[k].op /\ i.dst = c[k].dst /\ i.field = c[k].field
         /\ i.args = [n \in DOMAIN c[k].args |-> Entry(Forwards(p, c, k - 1).alias, c[k].args[n])]
         /\ Dropped(p, c, k) => c[k].op = "load" /\ c[k].dst \notin Retained(p)
         /\ \A n \in DOMAIN c[k].args : i.args[n] \in Values(p) /\ Settled(c, i.args[n], k - 1)
<1>1. IsInstr(c[k]) /\ Len(c) \in Nat
  BY DEF BandOK, InstructionsOK
<1>2. LET i == RenamedAt(p, c, k) IN
         /\ i.op = c[k].op /\ i.dst = c[k].dst /\ i.field = c[k].field
         /\ i.args = [n \in DOMAIN c[k].args |-> Entry(Forwards(p, c, k - 1).alias, c[k].args[n])]
  BY <1>1 DEF RenamedAt, Renamed, IsInstr
<1>3. Dropped(p, c, k) => c[k].op = "load" /\ c[k].dst \notin Retained(p)
  BY <1>2 DEF Dropped, Redundant
<1>4. k - 1 \in 0..(Len(c) - 1) /\ k - 1 + 1 = k /\ k - 1 \in 0..Len(c)
  BY <1>1
<1>5. ForwardOK(p, c, k - 1, Forwards(p, c, k - 1).known, Forwards(p, c, k - 1).alias)
  BY <1>4, ForwardsOK
<1>6. \A n \in DOMAIN c[k].args :
        LET u == Entry(Forwards(p, c, k - 1).alias, c[k].args[n]) IN u \in Values(p) /\ Settled(c, u, k - 1)
  BY <1>4, <1>5, EntryHolds
<1> QED BY <1>2, <1>3, <1>6

\* What a cell is known to hold after an instruction.
LEMMA KnownIs ==
  ASSUME NEW known, NEW i, NEW lasting, NEW f \in DOMAIN Known(known, i, lasting)
  PROVE  LET v == Known(known, i, lasting)[f] IN
         \/ f \in DOMAIN known /\ v = known[f]
         \/ i.op = "store" /\ v = i.args[1]
         \/ i.op = "load" /\ ~Redundant(i, known, lasting) /\ v = i.dst
<1> DEFINE after == Known(known, i, lasting)
<1>1. ASSUME NEW y, after = With(known, i.field, y)
      PROVE  (f \in DOMAIN known /\ after[f] = known[f]) \/ after[f] = y
  <2> HIDE DEF after
  <2>1. f \in DOMAIN known \cup {i.field} /\ after[f] = IF f = i.field THEN y ELSE known[f]
    <3>1. f \in DOMAIN after
      BY DEF after
    <3> QED BY <1>1, <3>1 DEF With
  <2> QED BY <2>1
<1>2. CASE i.op = "store"
  <2>1. after = With(known, i.field, i.args[1])
    BY <1>2 DEF Known
  <2> HIDE DEF after
  <2> QED BY <2>1, <1>1, <1>2 DEF after
<1>3. CASE i.op = "load" /\ (i.field \notin DOMAIN known \/ i.dst \in lasting)
  <2>1. after = With(known, i.field, i.dst) /\ ~Redundant(i, known, lasting)
    BY <1>3 DEF Known, Redundant
  <2> HIDE DEF after
  <2> QED BY <2>1, <1>1, <1>3 DEF after
<1>4. CASE i.op = "storeAt"
  <2>1. after = Without(known, i.field)
    BY <1>4 DEF Known
  <2> HIDE DEF after
  <2>2. f \in DOMAIN known /\ after[f] = known[f]
    <3>1. f \in DOMAIN after
      BY DEF after
    <3> QED BY <2>1, <3>1 DEF Without
  <2> QED BY <2>2 DEF after
<1>5. CASE i.op \in {"guard", "endguard"}
  <2>1. after = NoEntries
    BY <1>5 DEF Known
  <2> QED BY <2>1 DEF NoEntries
<1>6. CASE ~(\/ i.op \in {"store", "storeAt", "guard", "endguard"}
             \/ i.op = "load" /\ (i.field \notin DOMAIN known \/ i.dst \in lasting))
  <2>1. after = known
    BY <1>6 DEF Known
  <2> QED BY <2>1
<1> QED BY <1>2, <1>3, <1>4, <1>5, <1>6

\* v is a value of the band that is retained or that one of the first k
\* instructions defines, and not one that forwarding drops.
Sourced(p, c, k, v) ==
  /\ v \in ReadIn(c) \cup Defined(c)
  /\ v \in Retained(p) \/ \E u \in 1..k : c[u].dst = v /\ ~Dropped(p, c, u)

\* So are the values that cells are known to hold, and those that names stand for.
AllSourced(p, c, k) ==
  /\ \A f \in DOMAIN Forwards(p, c, k).known : Sourced(p, c, k, Forwards(p, c, k).known[f])
  /\ \A x \in DOMAIN Forwards(p, c, k).alias : Sourced(p, c, k, Forwards(p, c, k).alias[x])
  /\ \A u \in 1..k : Dropped(p, c, u) => c[u].dst \in DOMAIN Forwards(p, c, k).alias

\* So is the name an operand has by then.
LEMMA EntrySourced ==
  ASSUME NEW p, NEW c, BandShape(p, c), NEW k \in 0..(Len(c) - 1), AllSourced(p, c, k),
         NEW n \in DOMAIN c[k + 1].args
  PROVE  Sourced(p, c, k, Entry(Forwards(p, c, k).alias, c[k + 1].args[n]))
<1> DEFINE w == c[k + 1].args[n]
           alias == Forwards(p, c, k).alias
<1>1. Len(c) \in Nat /\ DOMAIN c = 1..Len(c) /\ k + 1 \in 1..Len(c) /\ k + 1 - 1 = k
  BY DEF BandShape, InstructionsOK
<1>2. w \in Reads(c, k + 1)
  BY DEF Reads, ToSet
<1>3. w \in ReadIn(c)
  BY <1>1, <1>2 DEF ReadIn
<1>4. CASE w \in DOMAIN alias
  BY <1>4 DEF AllSourced, Entry
<1>5. CASE w \notin DOMAIN alias
  <2>1. w \in Retained(p) \/ \E u \in 1..k : c[u].dst = w
    BY <1>1, <1>2 DEF BandShape, DefinesFirst
  <2>2. Sourced(p, c, k, w)
    BY <2>1, <1>3, <1>5 DEF Sourced, AllSourced
  <2> QED BY <2>2, <1>5 DEF Entry
<1> QED BY <1>4, <1>5

\* So they are all along the band.
LEMMA SourcedHolds ==
  ASSUME NEW p, NEW c, BandShape(p, c)
  PROVE  \A k \in 0..Len(c) : AllSourced(p, c, k)
<1> DEFINE S == {k \in 0..Len(c) : AllSourced(p, c, k)}
<1>0. Len(c) \in Nat /\ DOMAIN c = 1..Len(c) /\ BandOK(p, c)
  BY ShapeIsOK DEF BandShape, InstructionsOK
<1>1. 0 \in S
  <2>1. Forwards(p, c, 0).known = NoEntries /\ Forwards(p, c, 0).alias = NoEntries
    BY <1>0, ForwardsBegin DEF Unforwarded
  <2>2. \A u : u \notin 1..0
    OBVIOUS
  <2> QED BY <1>0, <2>1, <2>2 DEF AllSourced, NoEntries
<1>2. ASSUME NEW k \in 0..(Len(c) - 1), k \in S PROVE k + 1 \in S
  <2> DEFINE s == Forwards(p, c, k)
             t == Forwards(p, c, k + 1)
             i == RenamedAt(p, c, k + 1)
             o == c[k + 1]
  <2>1. k + 1 \in 0..Len(c) /\ k \in 0..Len(c) /\ k + 1 \in 1..Len(c) /\ k + 1 - 1 = k /\ k \in Nat
        /\ k + 1 \in 1..(k + 1) /\ \A u \in 1..(k + 1) : u \in 1..k \/ u = k + 1
    BY <1>0
  <2>2. /\ t.known = Known(s.known, i, Retained(p))
        /\ t.alias = IF Dropped(p, c, k + 1) THEN With(s.alias, i.dst, s.known[i.field]) ELSE s.alias
    BY <1>0, <2>1, ForwardsStep DEF RenamedAt, Dropped
  <2>3. AllSourced(p, c, k)
    BY <1>2
  <2>4. \A v : Sourced(p, c, k, v) => Sourced(p, c, k + 1, v)
    <3>1. \A u \in 1..k : u \in 1..(k + 1)
      BY <2>1
    <3> QED BY <3>1 DEF Sourced
  <2>5. /\ i.op = o.op /\ i.dst = o.dst /\ i.field = o.field
        /\ i.args = [n \in DOMAIN o.args |-> Entry(s.alias, o.args[n])] /\ Shape(o)
    BY <1>0, <2>1, RenamedAtIs DEF BandShape, InstructionsOK
  <2>6. i.op = "store" => Sourced(p, c, k, i.args[1])
    <3>1. i.op = "store" => 1 \in DOMAIN o.args
      BY <2>5 DEF Shape
    <3> QED BY <3>1, <2>3, <2>5, EntrySourced
  <2>7. i.op = "load" /\ ~Dropped(p, c, k + 1) => Sourced(p, c, k + 1, i.dst)
    <3> SUFFICES ASSUME i.op = "load", ~Dropped(p, c, k + 1) PROVE Sourced(p, c, k + 1, i.dst)
      OBVIOUS
    <3>1. o.dst \in Defined(c)
      BY <1>0, <2>1, <2>5 DEF Defined, Shape
    <3> QED BY <3>1, <2>1, <2>5 DEF Sourced
  <2>8. Dropped(p, c, k + 1) => i.field \in DOMAIN s.known
    BY <2>1 DEF Dropped, Redundant
  <2>9. Redundant(i, s.known, Retained(p)) <=> Dropped(p, c, k + 1)
    BY <2>1 DEF Dropped
  <2> HIDE DEF s, t, i, o
  <2>10. \A f \in DOMAIN t.known : Sourced(p, c, k + 1, t.known[f])
    <3> SUFFICES ASSUME NEW f \in DOMAIN t.known PROVE Sourced(p, c, k + 1, t.known[f])
      OBVIOUS
    <3>1. \/ f \in DOMAIN s.known /\ t.known[f] = s.known[f]
          \/ i.op = "store" /\ t.known[f] = i.args[1]
          \/ i.op = "load" /\ ~Redundant(i, s.known, Retained(p)) /\ t.known[f] = i.dst
      BY <2>2, KnownIs
    <3> QED BY <3>1, <2>3, <2>4, <2>6, <2>7, <2>9 DEF AllSourced, s
  <2>11. \A x \in DOMAIN t.alias : Sourced(p, c, k + 1, t.alias[x])
    <3>1. CASE Dropped(p, c, k + 1)
      <4> DEFINE v == s.known[i.field]
      <4>1. Sourced(p, c, k, v)
        BY <3>1, <2>3, <2>8 DEF AllSourced, s
      <4> HIDE DEF v
      <4>2. t.alias = With(s.alias, i.dst, v)
        BY <3>1, <2>2 DEF v
      <4>3. \A x \in DOMAIN t.alias : (x \in DOMAIN s.alias /\ t.alias[x] = s.alias[x]) \/ t.alias[x] = v
        BY <4>2 DEF With
      <4> QED BY <4>1, <4>3, <2>3, <2>4 DEF AllSourced, s
    <3>2. CASE ~Dropped(p, c, k + 1)
      BY <3>2, <2>2, <2>3, <2>4 DEF AllSourced, s
    <3> QED BY <3>1, <3>2
  <2>12. DOMAIN s.alias \subseteq DOMAIN t.alias /\ (Dropped(p, c, k + 1) => o.dst \in DOMAIN t.alias)
    <3>1. \A y : DOMAIN With(s.alias, i.dst, y) = DOMAIN s.alias \cup {i.dst}
      BY DEF With
    <3> QED BY <3>1, <2>2, <2>5
  <2>13. \A u \in 1..(k + 1) : Dropped(p, c, u) => c[u].dst \in DOMAIN t.alias
    BY <2>1, <2>3, <2>12 DEF AllSourced, s, o
  <2> QED BY <2>1, <2>10, <2>11, <2>13 DEF AllSourced, t
<1>3. \A k \in 0..Len(c) : k \in S
  <2> HIDE DEF S
  <2> QED BY <1>0, <1>1, <1>2, UpTo
<1> QED BY <1>3

\* The instructions of d are among those of c, of values of c.
Within(d, c) ==
  /\ \A j \in 1..Len(d) : \E u \in 1..Len(c) :
       d[j].op = c[u].op /\ d[j].field = c[u].field /\ d[j].dst = c[u].dst
  /\ ReadIn(d) \subseteq ReadIn(c) \cup Defined(c)

\* The operations that open and close guards and loops.
Bracketing == {"guard", "endguard", "loop", "endloop"}

\* The guards and loops of d are those of c, in the order of c.
SameBrackets(c, d, m) ==
  /\ Len(c) \in Nat /\ DOMAIN c = 1..Len(c) /\ Len(d) \in Nat /\ DOMAIN d = 1..Len(d)
  /\ \A j \in 1..Len(d) : m[j] \in 1..Len(c) /\ d[j].op = c[m[j]].op /\ d[j].field = c[m[j]].field
  /\ \A i, j \in 1..Len(d) : d[i].op \in Bracketing /\ d[j].op \in Bracketing =>
       (m[i] < m[j] <=> i < j) /\ (m[i] = m[j] <=> i = j)
  /\ \A u \in 1..Len(c) : c[u].op \in Bracketing => \E j \in 1..Len(d) : m[j] = u

\* Code that has the guards and loops of c in the order of c nests as c does.
LEMMA NestedMapped ==
  ASSUME NEW c, NEW d, NEW m, SameBrackets(c, d, m), Nested(c, 0)
  PROVE  Nested(d, 0)
<1>0. /\ Len(c) \in Nat /\ DOMAIN c = 1..Len(c) /\ Len(d) \in Nat /\ DOMAIN d = 1..Len(d)
      /\ \A j \in 1..Len(d) : m[j] \in 1..Len(c) /\ d[j].op = c[m[j]].op /\ d[j].field = c[m[j]].field
      /\ \A i, j \in 1..Len(d) : d[i].op \in Bracketing /\ d[j].op \in Bracketing =>
           (m[i] < m[j] <=> i < j) /\ (m[i] = m[j] <=> i = j)
      /\ \A u \in 1..Len(c) : c[u].op \in Bracketing => \E j \in 1..Len(d) : m[j] = u
  BY DEF SameBrackets
<1>9. \A i, j \in 1..Len(d) : <<i, j>> \in Brackets(d) <=> <<m[i], m[j]>> \in Brackets(c)
  <2> SUFFICES ASSUME NEW i \in 1..Len(d), NEW j \in 1..Len(d)
               PROVE  <<i, j>> \in Brackets(d) <=> <<m[i], m[j]>> \in Brackets(c)
    OBVIOUS
  <2>1. /\ m[i] \in DOMAIN c /\ m[j] \in DOMAIN c /\ i \in DOMAIN d /\ j \in DOMAIN d
        /\ d[i].op = c[m[i]].op /\ d[j].op = c[m[j]].op
        /\ d[i].field = c[m[i]].field /\ d[j].field = c[m[j]].field
    BY <1>0
  <2> QED BY <2>1 DEF Brackets
<1>1. \A k \in 1..Len(d) : d[k].op \in {"guard", "loop"} => \E j \in 1..Len(d) : <<k, j>> \in Brackets(d)
  <2> SUFFICES ASSUME NEW k \in 1..Len(d), d[k].op \in {"guard", "loop"}
               PROVE  \E j \in 1..Len(d) : <<k, j>> \in Brackets(d)
    OBVIOUS
  <2>1. m[k] \in DOMAIN c /\ c[m[k]].op \in {"guard", "loop"}
    BY <1>0
  <2>2. PICK u \in DOMAIN c : <<m[k], u>> \in Brackets(c)
    BY <2>1 DEF Nested
  <2>3. c[u].op \in Bracketing
    BY <2>2 DEF Brackets, Bracketing
  <2> QED BY <2>2, <2>3, <1>0, <1>9
<1>2. \A k \in 1..Len(d) : d[k].op \in {"endguard", "endloop"} => \E j \in 1..Len(d) : <<j, k>> \in Brackets(d)
  <2> SUFFICES ASSUME NEW k \in 1..Len(d), d[k].op \in {"endguard", "endloop"}
               PROVE  \E j \in 1..Len(d) : <<j, k>> \in Brackets(d)
    OBVIOUS
  <2>1. m[k] \in DOMAIN c /\ c[m[k]].op \in {"endguard", "endloop"}
    BY <1>0
  <2>2. PICK u \in DOMAIN c : <<u, m[k]>> \in Brackets(c)
    BY <2>1 DEF Nested
  <2>3. c[u].op \in Bracketing
    BY <2>2 DEF Brackets, Bracketing
  <2> QED BY <2>2, <2>3, <1>0, <1>9
<1>3. \A l \in Brackets(d) : /\ l[1] \in 1..Len(d) /\ l[2] \in 1..Len(d) /\ l = <<l[1], l[2]>>
                             /\ d[l[1]].op \in Bracketing /\ d[l[2]].op \in Bracketing
                             /\ <<m[l[1]], m[l[2]]>> \in Brackets(c)
  <2>1. \A l \in Brackets(d) : /\ l[1] \in 1..Len(d) /\ l[2] \in 1..Len(d) /\ l = <<l[1], l[2]>>
                               /\ d[l[1]].op \in Bracketing /\ d[l[2]].op \in Bracketing
    BY <1>0 DEF Brackets, Bracketing
  <2> QED BY <2>1, <1>9
<1>4. \A l \in Brackets(d) : /\ l[1] < l[2] /\ (l[1] <= 0 <=> l[2] <= 0)
                             /\ (d[l[1]].op = "guard" <=> d[l[2]].op = "endguard")
  <2> SUFFICES ASSUME NEW l \in Brackets(d)
               PROVE  /\ l[1] < l[2] /\ (l[1] <= 0 <=> l[2] <= 0)
                      /\ (d[l[1]].op = "guard" <=> d[l[2]].op = "endguard")
    OBVIOUS
  <2> DEFINE x == <<m[l[1]], m[l[2]]>>
  <2>1. x \in Brackets(c)
    BY <1>3
  <2>2. x[1] < x[2] /\ (c[x[1]].op = "guard" <=> c[x[2]].op = "endguard")
    BY <2>1 DEF Nested
  <2>3. /\ l[1] \in 1..Len(d) /\ l[2] \in 1..Len(d)
        /\ d[l[1]].op \in Bracketing /\ d[l[2]].op \in Bracketing
    BY <1>3
  <2>4. l[1] < l[2] /\ ~(l[1] <= 0) /\ ~(l[2] <= 0)
    BY <2>2, <2>3, <1>0
  <2>5. d[l[1]].op = c[m[l[1]]].op /\ d[l[2]].op = c[m[l[2]]].op
    BY <2>3, <1>0
  <2> QED BY <2>2, <2>4, <2>5
<1>5. \A l, o \in Brackets(d) :
        l = o \/ l[2] < o[1] \/ o[2] < l[1] \/ (l[1] < o[1] /\ o[2] < l[2]) \/ (o[1] < l[1] /\ l[2] < o[2])
  <2> SUFFICES ASSUME NEW l \in Brackets(d), NEW o \in Brackets(d)
               PROVE  l = o \/ l[2] < o[1] \/ o[2] < l[1] \/ (l[1] < o[1] /\ o[2] < l[2])
                        \/ (o[1] < l[1] /\ l[2] < o[2])
    OBVIOUS
  <2> DEFINE x == <<m[l[1]], m[l[2]]>>
             y == <<m[o[1]], m[o[2]]>>
  <2>1. x \in Brackets(c) /\ y \in Brackets(c)
    BY <1>3
  <2>2. x = y \/ x[2] < y[1] \/ y[2] < x[1] \/ (x[1] < y[1] /\ y[2] < x[2]) \/ (y[1] < x[1] /\ x[2] < y[2])
    BY <2>1 DEF Nested
  <2>3. \/ (m[l[1]] = m[o[1]] /\ m[l[2]] = m[o[2]]) \/ m[l[2]] < m[o[1]] \/ m[o[2]] < m[l[1]]
        \/ (m[l[1]] < m[o[1]] /\ m[o[2]] < m[l[2]]) \/ (m[o[1]] < m[l[1]] /\ m[l[2]] < m[o[2]])
    BY <2>2
  <2>4. /\ l[1] \in 1..Len(d) /\ l[2] \in 1..Len(d) /\ o[1] \in 1..Len(d) /\ o[2] \in 1..Len(d)
        /\ d[l[1]].op \in Bracketing /\ d[l[2]].op \in Bracketing
        /\ d[o[1]].op \in Bracketing /\ d[o[2]].op \in Bracketing
    BY <1>3
  <2> HIDE DEF x, y
  <2>5. \/ (l[1] = o[1] /\ l[2] = o[2]) \/ l[2] < o[1] \/ o[2] < l[1]
        \/ (l[1] < o[1] /\ o[2] < l[2]) \/ (o[1] < l[1] /\ l[2] < o[2])
    BY <2>3, <2>4, <1>0
  <2>6. l = <<l[1], l[2]>> /\ o = <<o[1], o[2]>>
    BY <1>3
  <2> QED BY <2>5, <2>6
<1> QED BY <1>0, <1>1, <1>2, <1>4, <1>5 DEF Nested

\* Forwarding keeps the shape of a band.
LEMMA ForwardedShape ==
  ASSUME NEW p, NEW c, BandShape(p, c)
  PROVE  BandShape(p, Forwarded(c, Retained(p))) /\ Within(Forwarded(c, Retained(p)), c)
<1> DEFINE d == Forwarded(c, Retained(p))
<1>0. /\ BandOK(p, c) /\ InstructionsOK(p, d) /\ None \notin Values(p)
      /\ Len(c) \in Nat /\ DOMAIN c = 1..Len(c) /\ Len(d) \in Nat /\ DOMAIN d = 1..Len(d)
  BY ShapeIsOK, ForwardedIsOK DEF InstructionsOK, BandShape, Items
<1>1. PICK m : KeptOf(p, c, Len(c), d, m)
  BY <1>0, ForwardedFrom
<1> HIDE DEF d
<1>2. /\ \A j \in 1..Len(d) : m[j] \in 1..Len(c) /\ ~Dropped(p, c, m[j]) /\ d[j] = RenamedAt(p, c, m[j])
      /\ \A i, j \in 1..Len(d) : i < j => m[i] < m[j]
      /\ \A u \in 1..Len(c) : ~Dropped(p, c, u) => \E j \in 1..Len(d) : m[j] = u
  BY <1>1 DEF KeptOf
<1>3. \A i, j \in 1..Len(d) : (m[i] < m[j] <=> i < j) /\ (m[i] = m[j] <=> i = j)
  <2> SUFFICES ASSUME NEW i \in 1..Len(d), NEW j \in 1..Len(d)
               PROVE  (m[i] < m[j] <=> i < j) /\ (m[i] = m[j] <=> i = j)
    OBVIOUS
  <2>1. m[i] \in Nat /\ m[j] \in Nat
    BY <1>2
  <2>2. CASE i < j
    <3>1. m[i] < m[j]
      BY <2>2, <1>2
    <3> QED BY <3>1, <2>1, <2>2
  <2>3. CASE j < i
    <3>1. m[j] < m[i]
      BY <2>3, <1>2
    <3> QED BY <3>1, <2>1, <2>3
  <2>4. CASE i = j
    BY <2>1, <2>4
  <2> QED BY <2>2, <2>3, <2>4, <1>0
<1>4. ASSUME NEW j \in 1..Len(d)
      PROVE  /\ d[j].op = c[m[j]].op /\ d[j].dst = c[m[j]].dst /\ d[j].field = c[m[j]].field
             /\ DOMAIN d[j].args = DOMAIN c[m[j]].args
             /\ \A n \in DOMAIN d[j].args :
                  /\ d[j].args[n] \in Values(p) /\ Settled(c, d[j].args[n], m[j] - 1)
                  /\ Sourced(p, c, m[j] - 1, d[j].args[n])
  <2>1. m[j] \in 1..Len(c) /\ d[j] = RenamedAt(p, c, m[j])
    BY <1>2
  <2>2. /\ d[j].op = c[m[j]].op /\ d[j].dst = c[m[j]].dst /\ d[j].field = c[m[j]].field
        /\ d[j].args = [n \in DOMAIN c[m[j]].args |-> Entry(Forwards(p, c, m[j] - 1).alias, c[m[j]].args[n])]
        /\ \A n \in DOMAIN c[m[j]].args : d[j].args[n] \in Values(p) /\ Settled(c, d[j].args[n], m[j] - 1)
    BY <2>1, <1>0, RenamedAtIs
  <2>3. m[j] - 1 \in 0..(Len(c) - 1) /\ m[j] - 1 + 1 = m[j] /\ m[j] - 1 \in 0..Len(c)
    BY <2>1, <1>0
  <2>4. AllSourced(p, c, m[j] - 1)
    BY <2>3, SourcedHolds
  <2>5. \A n \in DOMAIN c[m[j]].args :
          Sourced(p, c, m[j] - 1, Entry(Forwards(p, c, m[j] - 1).alias, c[m[j]].args[n]))
    BY <2>3, <2>4, EntrySourced
  <2> QED BY <2>2, <2>5
<1>5. \A k \in 1..Len(d) : \A x \in Reads(d, k) : \E n \in DOMAIN d[k].args : d[k].args[n] = x
  BY DEF Reads, ToSet
<1>6. SingleAssignment(d)
  <2> SUFFICES ASSUME NEW j \in 1..Len(d), NEW k \in 1..Len(d), d[j].dst # None
               PROVE  (d[j].dst = d[k].dst => j = k) /\ (d[j].dst \in Reads(d, k) => j < k)
    BY <1>0 DEF SingleAssignment
  <2>1. m[j] \in 1..Len(c) /\ m[k] \in 1..Len(c) /\ m[j] \in DOMAIN c /\ m[k] \in DOMAIN c
    BY <1>0, <1>2
  <2>2. d[j].dst = d[k].dst => j = k
    <3> SUFFICES ASSUME d[j].dst = d[k].dst PROVE j = k
      OBVIOUS
    <3>1. c[m[j]].dst = c[m[k]].dst /\ c[m[j]].dst # None
      BY <1>4
    <3>2. m[j] = m[k]
      BY <2>1, <3>1 DEF BandShape, SingleAssignment
    <3> QED BY <3>2, <1>3
  <2>3. d[j].dst \in Reads(d, k) => j < k
    <3> SUFFICES ASSUME d[j].dst \in Reads(d, k) PROVE j < k
      OBVIOUS
    <3>1. PICK n \in DOMAIN d[k].args : d[k].args[n] = d[j].dst
      BY <1>5
    <3>2. Settled(c, c[m[j]].dst, m[k] - 1)
      BY <3>1, <1>4
    <3>3. \A v \in (m[k] - 1 + 1)..Len(c) : c[v].dst # c[m[j]].dst
      BY <3>2 DEF Settled
    <3>4. m[j] \notin (m[k] - 1 + 1)..Len(c)
      BY <3>3
    <3>5. m[j] < m[k]
      BY <3>4, <2>1, <1>0
    <3> QED BY <3>5, <1>3
  <2> QED BY <2>2, <2>3
<1>7. DefinesFirst(d, Retained(p))
  <2> SUFFICES ASSUME NEW k \in 1..Len(d), NEW x \in Reads(d, k) \ Retained(p)
               PROVE  \E j \in 1..(k - 1) : d[j].dst = x
    BY <1>0 DEF DefinesFirst
  <2>1. PICK n \in DOMAIN d[k].args : d[k].args[n] = x
    BY <1>5
  <2>2. PICK u \in 1..(m[k] - 1) : c[u].dst = x /\ ~Dropped(p, c, u)
    BY <2>1, <1>4 DEF Sourced
  <2>3. u \in 1..Len(c) /\ u < m[k]
    BY <2>2, <1>0, <1>2
  <2>4. PICK j \in 1..Len(d) : m[j] = u
    BY <2>2, <2>3, <1>2
  <2>5. j < k /\ d[j].dst = x
    BY <2>2, <2>3, <2>4, <1>3, <1>4
  <2> QED BY <2>5, <1>0
<1>8. \A u \in 1..Len(c) : c[u].op # "load" => \E j \in 1..Len(d) : m[j] = u
  <2>1. ASSUME NEW u \in 1..Len(c), Dropped(p, c, u) PROVE c[u].op = "load"
    <3>1. BandOK(p, c)
      BY <1>0
    <3>2. Dropped(p, c, u) => c[u].op = "load" /\ c[u].dst \notin Retained(p)
      BY <3>1, RenamedAtIs, Zenon
    <3> QED BY <2>1, <3>2, Zenon
  <2> QED BY <2>1, <1>2
<1>9. DOMAIN c = 1..Len(c) /\ Nested(c, 0)
  BY DEF BandShape, InstructionsOK
<1>10. Nested(d, 0)
  <2>1. \A u \in 1..Len(c) : c[u].op \in Bracketing => \E j \in 1..Len(d) : m[j] = u
    BY <1>8 DEF Bracketing
  <2>2. SameBrackets(c, d, m)
    BY <2>1, <1>0, <1>2, <1>3, <1>4 DEF SameBrackets
  <2> QED BY <2>2, <1>9, NestedMapped
<1>11. \A k \in 1..Len(d) : Guarded(d, k) => d[k].dst \in Retained(p) \cup {None}
  <2> SUFFICES ASSUME NEW k \in 1..Len(d), Guarded(d, k) PROVE d[k].dst \in Retained(p) \cup {None}
    OBVIOUS
  <2>1. PICK i \in 1..Len(d), j \in 1..Len(d) :
          d[i].op = "guard" /\ d[j].op = "endguard" /\ d[i].field = d[j].field /\ i < k /\ k < j
    BY <1>0 DEF Guarded
  <2>2. /\ m[i] \in DOMAIN c /\ m[j] \in DOMAIN c /\ m[k] \in 1..Len(c)
        /\ c[m[i]].op = "guard" /\ c[m[j]].op = "endguard" /\ c[m[i]].field = c[m[j]].field
        /\ m[i] < m[k] /\ m[k] < m[j]
    BY <2>1, <1>0, <1>2, <1>4
  <2>3. Guarded(c, m[k])
    BY <2>2 DEF Guarded
  <2> QED BY <2>2, <2>3, <1>4 DEF BandShape
<1>12. StoresApart(d, 0)
  <2> SUFFICES ASSUME NEW k \in 1..Len(d), NEW s \in 1..Len(d), d[k].op = "store", d[s].op = "store",
                      d[k].field = d[s].field, k < s
               PROVE  \E b \in k..s : \/ d[b].op \in {"guard", "endguard", "foreign"}
                                      \/ d[b].op \in {"loadAt", "storeAt"} /\ d[b].field = d[s].field
    BY <1>0 DEF StoresApart
  <2>1. /\ m[k] \in DOMAIN c /\ m[s] \in DOMAIN c /\ c[m[k]].op = "store" /\ c[m[s]].op = "store"
        /\ c[m[k]].field = c[m[s]].field /\ m[k] < m[s] /\ (m[k] <= 0 <=> m[s] <= 0)
    BY <1>0, <1>2, <1>4
  <2>2. PICK u \in m[k]..m[s] : \/ c[u].op \in {"guard", "endguard", "foreign"}
                                \/ c[u].op \in {"loadAt", "storeAt"} /\ c[u].field = c[m[s]].field
    BY <2>1 DEF BandShape, StoresApart
  <2>3. u \in 1..Len(c) /\ c[u].op # "load" /\ u # m[k] /\ u # m[s] /\ m[k] < u /\ u < m[s]
    BY <2>1, <2>2, <1>0
  <2>4. PICK b \in 1..Len(d) : m[b] = u
    BY <2>3, <1>8
  <2>5. k < b /\ b < s
    BY <2>3, <2>4, <1>3
  <2>6. b \in k..s
    BY <2>5, <1>0
  <2> QED BY <2>2, <2>4, <2>6, <1>4
<1>13. Within(d, c)
  <2>1. \A j \in 1..Len(d) : \E u \in 1..Len(c) :
          d[j].op = c[u].op /\ d[j].field = c[u].field /\ d[j].dst = c[u].dst
    BY <1>2, <1>4
  <2>2. ReadIn(d) \subseteq ReadIn(c) \cup Defined(c)
    <3> SUFFICES ASSUME NEW x \in ReadIn(d) PROVE x \in ReadIn(c) \cup Defined(c)
      OBVIOUS
    <3>1. PICK k \in 1..Len(d) : x \in Reads(d, k)
      BY <1>0 DEF ReadIn
    <3> QED BY <3>1, <1>4, <1>5 DEF Sourced
  <2> QED BY <2>1, <2>2 DEF Within
<1> QED BY <1>0, <1>6, <1>7, <1>10, <1>11, <1>12, <1>13 DEF BandShape, d

(***************************************************************************)
(* Where the instructions of a band are after stores have moved up.        *)
(***************************************************************************)

\* The instruction that u stands at or right behind, and the order of the schedule.
Place(d, u) == IF Moves(d, u) THEN Earliest(d, u) ELSE u

\* The order of the schedule.
Before(d, u, v) == Place(d, u) < Place(d, v) \/ (Place(d, u) = Place(d, v) /\ u < v)

\* The elements of s are those of T in that order, m says which.
Scheduled(d, T, s, m) ==
  /\ m = [j \in 1..Len(s) |-> m[j]]
  /\ \A j \in 1..Len(s) : m[j] \in T /\ s[j] = d[m[j]]
  /\ \A i, j \in 1..Len(s) : i < j => Before(d, m[i], m[j])
  /\ \A u \in T : \E j \in 1..Len(s) : m[j] = u

\* One more at the end of a schedule.
LEMMA ScheduledAppended ==
  ASSUME NEW d, NEW T, NEW s, IsSequence(s), NEW m, Scheduled(d, T, s, m),
         NEW u, \A t \in T : Before(d, t, u)
  PROVE  \E h : Scheduled(d, T \cup {u}, Append(s, d[u]), h)
<1> DEFINE n == Len(s)
           a == Append(s, d[u])
           h == [j \in 1..(n + 1) |-> IF j = n + 1 THEN u ELSE m[j]]
<1>1. /\ Len(a) = n + 1 /\ n \in Nat /\ a[n + 1] = d[u]
      /\ \A j \in 1..n : a[j] = s[j]
  BY Appended, AnySeq
<1>2. /\ \A j \in 1..n : m[j] \in T /\ s[j] = d[m[j]]
      /\ \A i, j \in 1..n : i < j => Before(d, m[i], m[j])
      /\ \A t \in T : \E j \in 1..n : m[j] = t
  BY DEF Scheduled
<1> HIDE DEF n, a
<1>3. /\ \A j \in 1..n : j \in 1..(n + 1) /\ h[j] = m[j]
      /\ n + 1 \in 1..(n + 1) /\ h[n + 1] = u
      /\ \A j \in 1..(n + 1) : j \in 1..n \/ j = n + 1
      /\ h = [j \in 1..(n + 1) |-> h[j]]
  BY <1>1
<1> HIDE DEF h
<1>4. \A j \in 1..(n + 1) : h[j] \in T \cup {u} /\ a[j] = d[h[j]]
  BY <1>1, <1>2, <1>3
<1>5. ASSUME NEW i \in 1..(n + 1), NEW j \in 1..(n + 1), i < j PROVE Before(d, h[i], h[j])
  <2>1. i \in 1..n
    BY <1>1, <1>5
  <2>2. CASE j = n + 1
    BY <2>1, <2>2, <1>2, <1>3
  <2>3. CASE j \in 1..n
    BY <2>1, <2>3, <1>2, <1>3, <1>5
  <2> QED BY <2>2, <2>3, <1>3
<1>6. \A t \in T \cup {u} : \E j \in 1..(n + 1) : h[j] = t
  BY <1>2, <1>3
<1>7. Scheduled(d, T \cup {u}, a, h)
  BY <1>1, <1>3, <1>4, <1>5, <1>6 DEF Scheduled
<1> QED BY <1>7 DEF a

\* What is scheduled up to instruction k and what stands behind it of the first pos.
Done(d, k, pos) ==
  {u \in 1..Len(d) : Place(d, u) < k \/ (Place(d, u) = k /\ (u <= pos \/ ~Moves(d, u)))}

\* Stores move up, the rest stays.
LEMMA PlaceIs ==
  ASSUME NEW d, Len(d) \in Nat, NEW u \in 1..Len(d)
  PROVE  /\ Place(d, u) \in 0..u
         /\ Moves(d, u) => Place(d, u) = Earliest(d, u) /\ Place(d, u) < u - 1 /\ d[u].op = "store"
         /\ ~Moves(d, u) => Place(d, u) = u
<1>1. Earliest(d, u) \in 0..(u - 1)
  BY EarliestIs
<1> QED BY <1>1 DEF Place, Moves

\* What is scheduled when.
LEMMA DoneIs ==
  ASSUME NEW d, Len(d) \in Nat
  PROVE  /\ Done(d, 0, 0) = {}
         /\ Done(d, Len(d), Len(d)) = 1..Len(d)
         /\ \A k \in 0..(Len(d) - 1) :
              IF Moves(d, k + 1) THEN Done(d, k + 1, 0) = Done(d, k, Len(d))
              ELSE /\ Done(d, k + 1, 0) = Done(d, k, Len(d)) \cup {k + 1}
                   /\ \A t \in Done(d, k, Len(d)) : Before(d, t, k + 1)
         /\ \A k \in 0..Len(d) : \A pos \in 1..Len(d) :
              IF Moves(d, pos) /\ Earliest(d, pos) = k
              THEN /\ Done(d, k, pos) = Done(d, k, pos - 1) \cup {pos}
                   /\ \A t \in Done(d, k, pos - 1) : Before(d, t, pos)
              ELSE Done(d, k, pos) = Done(d, k, pos - 1)
<1>1. \A u \in 1..Len(d) : /\ Place(d, u) \in 0..u
                           /\ Moves(d, u) => Place(d, u) = Earliest(d, u) /\ Place(d, u) < u - 1
                           /\ ~Moves(d, u) => Place(d, u) = u
  BY PlaceIs
<1>2. Done(d, 0, 0) = {}
  BY <1>1 DEF Done
<1>3. Done(d, Len(d), Len(d)) = 1..Len(d)
  <2>1. \A u \in 1..Len(d) : Place(d, u) < Len(d) \/ Place(d, u) = Len(d)
    BY <1>1
  <2> QED BY <2>1 DEF Done
<1>4. ASSUME NEW k \in 0..(Len(d) - 1)
      PROVE  IF Moves(d, k + 1) THEN Done(d, k + 1, 0) = Done(d, k, Len(d))
             ELSE /\ Done(d, k + 1, 0) = Done(d, k, Len(d)) \cup {k + 1}
                  /\ \A t \in Done(d, k, Len(d)) : Before(d, t, k + 1)
  <2>1. k + 1 \in 1..Len(d) /\ k \in Int
    OBVIOUS
  <2>2. \A u \in 1..Len(d) : u \in Done(d, k, Len(d)) <=> Place(d, u) <= k
    <3>1. \A u \in 1..Len(d) : u <= Len(d) /\ Place(d, u) \in Int
      BY <1>1
    <3> QED BY <3>1, <2>1 DEF Done
  <2>3. \A u \in 1..Len(d) : u \in Done(d, k + 1, 0) <=> Place(d, u) <= k \/ (u = k + 1 /\ ~Moves(d, u))
    <3> SUFFICES ASSUME NEW u \in 1..Len(d)
                 PROVE  u \in Done(d, k + 1, 0) <=> Place(d, u) <= k \/ (u = k + 1 /\ ~Moves(d, u))
      OBVIOUS
    <3>1. Place(d, u) \in Int /\ ~(u <= 0) /\ (~Moves(d, u) => Place(d, u) = u)
      BY <1>1
    <3>2. u \in Done(d, k + 1, 0) <=> Place(d, u) < k + 1 \/ (Place(d, u) = k + 1 /\ ~Moves(d, u))
      BY <3>1 DEF Done
    <3> QED BY <3>1, <3>2, <2>1
  <2>4. \A j, i : Done(d, j, i) \subseteq 1..Len(d)
    BY DEF Done
  <2>5. CASE Moves(d, k + 1)
    BY <2>1, <2>2, <2>3, <2>4, <2>5
  <2>6. CASE ~Moves(d, k + 1)
    <3>1. Done(d, k + 1, 0) = Done(d, k, Len(d)) \cup {k + 1}
      BY <2>1, <2>2, <2>3, <2>4, <2>6
    <3>2. Place(d, k + 1) = k + 1
      BY <2>1, <2>6, <1>1
    <3>3. \A t \in Done(d, k, Len(d)) : Place(d, t) <= k /\ Place(d, t) \in Int
      BY <2>2, <2>4, <1>1
    <3>4. \A t \in Done(d, k, Len(d)) : Place(d, t) < Place(d, k + 1)
      BY <3>2, <3>3, <2>1
    <3> QED BY <3>1, <3>4, <2>6 DEF Before
  <2> QED BY <2>5, <2>6
<1>5. ASSUME NEW k \in 0..Len(d), NEW pos \in 1..Len(d)
      PROVE  IF Moves(d, pos) /\ Earliest(d, pos) = k
             THEN /\ Done(d, k, pos) = Done(d, k, pos - 1) \cup {pos}
                  /\ \A t \in Done(d, k, pos - 1) : Before(d, t, pos)
             ELSE Done(d, k, pos) = Done(d, k, pos - 1)
  <2>1. \A u \in 1..Len(d) : u <= pos <=> u <= pos - 1 \/ u = pos
    OBVIOUS
  <2>2. CASE Moves(d, pos) /\ Earliest(d, pos) = k
    <3>1. Place(d, pos) = k /\ k < pos
      BY <2>2, <1>1
    <3>2. Done(d, k, pos) = Done(d, k, pos - 1) \cup {pos}
      BY <2>1, <3>1 DEF Done
    <3>3. \A t \in Done(d, k, pos - 1) : Before(d, t, pos)
      <4> SUFFICES ASSUME NEW t \in 1..Len(d), t \in Done(d, k, pos - 1) PROVE Before(d, t, pos)
        BY DEF Done
      <4>1. Place(d, t) < k \/ (Place(d, t) = k /\ (t <= pos - 1 \/ ~Moves(d, t)))
        BY DEF Done
      <4>2. Place(d, t) = k /\ ~Moves(d, t) => t = k
        BY <1>1
      <4>3. Place(d, t) < k \/ (Place(d, t) = k /\ t < pos)
        BY <4>1, <4>2, <3>1
      <4> QED BY <4>3, <3>1 DEF Before
    <3> QED BY <3>2, <3>3, <2>2
  <2>3. CASE ~(Moves(d, pos) /\ Earliest(d, pos) = k)
    <3>1. Place(d, pos) = k => ~Moves(d, pos)
      BY <2>3, <1>1
    <3>2. Done(d, k, pos) = Done(d, k, pos - 1)
      BY <2>1, <3>1 DEF Done
    <3> QED BY <3>2, <2>3
  <2> QED BY <2>2, <2>3
<1> QED BY <1>2, <1>3, <1>4, <1>5

\* The stores that move right behind one instruction are scheduled.
LEMMA RaisedSchedules ==
  ASSUME NEW d, Len(d) \in Nat, NEW k \in 0..Len(d), NEW s, IsSequence(s),
         \E m : Scheduled(d, Done(d, k, 0), s, m)
  PROVE  LET raised == Raised(d, k, s)[Len(d)] IN
         IsSequence(raised) /\ \E m : Scheduled(d, Done(d, k, Len(d)), raised, m)
<1> DEFINE f == Raised(d, k, s)
           OK(pos) == IsSequence(f[pos]) /\ \E m : Scheduled(d, Done(d, k, pos), f[pos], m)
           S == {pos \in 0..Len(d) : OK(pos)}
<1>1. /\ f[0] = s
      /\ \A pos \in 1..Len(d) : f[pos] = IF Moves(d, pos) /\ Earliest(d, pos) = k
                                       THEN Append(f[pos - 1], d[pos]) ELSE f[pos - 1]
  BY RaisedIs
<1> HIDE DEF f
<1>2. 0 \in S
  BY <1>1
<1>3. ASSUME NEW j \in 0..(Len(d) - 1), j \in S PROVE j + 1 \in S
  <2> DEFINE pos == j + 1
  <2>1. pos \in 1..Len(d) /\ pos - 1 = j /\ pos \in 0..Len(d)
    OBVIOUS
  <2>2. OK(j)
    BY <1>3
  <2>3. PICK m : Scheduled(d, Done(d, k, j), f[j], m)
    BY <2>2
  <2> HIDE DEF pos
  <2>4. CASE Moves(d, pos) /\ Earliest(d, pos) = k
    <3>1. f[pos] = Append(f[j], d[pos])
      BY <2>1, <2>4, <1>1
    <3>2. Done(d, k, pos) = Done(d, k, j) \cup {pos} /\ \A t \in Done(d, k, j) : Before(d, t, pos)
      BY <2>1, <2>4, DoneIs
    <3>3. \E h : Scheduled(d, Done(d, k, j) \cup {pos}, Append(f[j], d[pos]), h)
      BY <2>2, <2>3, <3>2, ScheduledAppended
    <3>4. OK(pos)
      BY <2>2, <3>1, <3>2, <3>3, Appended
    <3> QED BY <3>4, <2>1 DEF pos
  <2>5. CASE ~(Moves(d, pos) /\ Earliest(d, pos) = k)
    <3>1. f[pos] = f[j] /\ Done(d, k, pos) = Done(d, k, j)
      BY <2>1, <2>5, <1>1, DoneIs
    <3>2. OK(pos)
      BY <3>1, <2>2
    <3> QED BY <3>2, <2>1 DEF pos
  <2> QED BY <2>4, <2>5
<1>4. \A pos \in 0..Len(d) : pos \in S
  <2> HIDE DEF S
  <2> QED BY <1>2, <1>3, UpTo
<1>5. OK(Len(d))
  BY <1>4
<1> QED BY <1>5 DEF f

\* The schedule has every instruction once, in that order.
LEMMA HoistedFrom ==
  ASSUME NEW d, Len(d) \in Nat
  PROVE  IsSequence(Hoisted(d)) /\ \E m : Scheduled(d, 1..Len(d), Hoisted(d), m)
<1> DEFINE n == Len(d)
           f == Hoisting(d)
           OK(k) == IsSequence(f[k]) /\ \E m : Scheduled(d, Done(d, k, n), f[k], m)
           S == {k \in 0..n : OK(k)}
<1>1. /\ f[0] = Raised(d, 0, <<>>)[n]
      /\ \A k \in 1..n : f[k] = Raised(d, k, IF Moves(d, k) THEN f[k - 1] ELSE Append(f[k - 1], d[k]))[n]
  BY HoistingIs
<1>0. n \in Nat
  OBVIOUS
<1> HIDE DEF f, n
<1>2. 0 \in S
  <2>1. Done(d, 0, 0) = {} /\ Len(<<>>) = 0 /\ IsSequence(<<>>) /\ \A j : j \notin 1..0
    BY <1>0, DoneIs, ShortSequences
  <2> DEFINE m == [j \in 1..0 |-> 0]
  <2>2. Scheduled(d, {}, <<>>, m)
    BY <2>1 DEF Scheduled
  <2> HIDE DEF m
  <2>3. \E h : Scheduled(d, Done(d, 0, 0), <<>>, h)
    BY <2>1, <2>2
  <2>4. 0 \in 0..n
    BY <1>0
  <2>5. IsSequence(f[0]) /\ \E h : Scheduled(d, Done(d, 0, n), f[0], h)
    BY <2>1, <2>3, <2>4, <1>0, <1>1, RaisedSchedules DEF n
  <2> QED BY <2>4, <2>5
<1>3. ASSUME NEW k \in 0..(n - 1), k \in S PROVE k + 1 \in S
  <2>1. k + 1 \in 1..n /\ k + 1 \in 0..n /\ k + 1 - 1 = k
    BY <1>0
  <2>2. OK(k)
    BY <1>3
  <2>3. PICK m : Scheduled(d, Done(d, k, n), f[k], m)
    BY <2>2
  <2> DEFINE b == IF Moves(d, k + 1) THEN f[k] ELSE Append(f[k], d[k + 1])
  <2>4. f[k + 1] = Raised(d, k + 1, b)[n]
    BY <1>1, <2>1
  <2>5. IsSequence(b) /\ \E h : Scheduled(d, Done(d, k + 1, 0), b, h)
    <3>1. CASE Moves(d, k + 1)
      <4>1. Done(d, k + 1, 0) = Done(d, k, n)
        BY <3>1, <1>0, DoneIs DEF n
      <4> QED BY <3>1, <4>1, <2>2
    <3>2. CASE ~Moves(d, k + 1)
      <4>1. /\ Done(d, k + 1, 0) = Done(d, k, n) \cup {k + 1}
            /\ \A t \in Done(d, k, n) : Before(d, t, k + 1)
        BY <3>2, <1>0, DoneIs DEF n
      <4>2. \E h : Scheduled(d, Done(d, k, n) \cup {k + 1}, Append(f[k], d[k + 1]), h)
        BY <2>2, <2>3, <4>1, ScheduledAppended
      <4>3. IsSequence(Append(f[k], d[k + 1]))
        BY <2>2, Appended
      <4> QED BY <3>2, <4>1, <4>2, <4>3
    <3> QED BY <3>1, <3>2
  <2> HIDE DEF b
  <2>6. IsSequence(f[k + 1]) /\ \E h : Scheduled(d, Done(d, k + 1, n), f[k + 1], h)
    BY <2>1, <2>4, <2>5, <1>0, RaisedSchedules DEF n
  <2> QED BY <2>1, <2>6
<1>4. \A k \in 0..n : k \in S
  <2> HIDE DEF S
  <2> QED BY <1>0, <1>2, <1>3, UpTo
<1>5. OK(n)
  BY <1>0, <1>4
<1>6. Done(d, n, n) = 1..n
  BY <1>0, DoneIs DEF n
<1> QED BY <1>5, <1>6 DEF Hoisted, f, n

\* A store stands right behind the last instruction it may not pass, or behind
\* other stores; stores that stand together go to different cells.
StoresUp(c, end) ==
  \A k, s \in DOMAIN c :
    c[s].op = "store" /\ k < s /\ (k <= end => s <= end) =>
      /\ c[k].op = "store" \/ \E b \in k..(s - 1) : Blocks(c, b, s)
      /\ (\A b \in k..s : c[b].op = "store") => c[k].field # c[s].field

\* What a band is like once it is prepared.
ReadyShape(p, c) ==
  /\ InstructionsOK(p, c) /\ SingleAssignment(c) /\ DefinesFirst(c, Retained(p)) /\ Nested(c, 0)
  /\ \A k \in 1..Len(c) : Guarded(c, k) => c[k].dst \in Retained(p) \cup {None}
  /\ StoresUp(c, 0)

\* What the order of the schedule keeps of the order of the code.
LEMMA BeforeIs ==
  ASSUME NEW d, Len(d) \in Nat, NEW u \in 1..Len(d), NEW v \in 1..Len(d)
  PROVE  /\ Before(d, u, v) => ~Before(d, v, u) /\ u # v
         /\ u < v /\ ~Moves(d, u) /\ (Moves(d, v) => Blocks(d, u, v)) => Before(d, u, v)
         /\ u < v /\ ~Moves(d, v) => Before(d, u, v)
         /\ Before(d, u, v) /\ ~Moves(d, u) => u < v
<1>1. /\ Place(d, u) \in 0..u /\ Place(d, v) \in 0..v
      /\ Moves(d, v) => Place(d, v) = Earliest(d, v)
      /\ ~Moves(d, u) => Place(d, u) = u
      /\ ~Moves(d, v) => Place(d, v) = v
  BY PlaceIs
<1>2. Before(d, u, v) => ~Before(d, v, u) /\ u # v
  BY <1>1 DEF Before
<1>3. u < v /\ ~Moves(d, v) => Before(d, u, v)
  BY <1>1 DEF Before
<1>4. ASSUME u < v, ~Moves(d, u), Moves(d, v), Blocks(d, u, v) PROVE Before(d, u, v)
  <2>1. u \in 1..(v - 1)
    BY <1>4
  <2>2. ~(Earliest(d, v) < u) /\ Earliest(d, v) \in 0..(v - 1)
    BY <1>4, <2>1, EarliestIs
  <2> QED BY <2>2, <1>1, <1>4 DEF Before
<1>5. Before(d, u, v) /\ ~Moves(d, u) => u < v
  BY <1>1 DEF Before
<1> QED BY <1>2, <1>3, <1>4, <1>5

\* The last instruction a store may not pass is no store.
LEMMA EarliestIsNoStore ==
  ASSUME NEW p, NEW d, BandShape(p, d), NEW s \in 1..Len(d), d[s].op = "store", Earliest(d, s) # 0
  PROVE  LET e == Earliest(d, s) IN e \in 1..(s - 1) /\ d[e].op # "store" /\ Blocks(d, e, s)
<1> DEFINE e == Earliest(d, s)
<1>1. /\ Len(d) \in Nat /\ DOMAIN d = 1..Len(d) /\ None \notin Values(p)
      /\ Shape(d[s]) /\ \A n \in DOMAIN d[s].args : d[s].args[n] \in Values(p)
  BY DEF BandShape, InstructionsOK, Items
<1>2. e \in 1..(s - 1) /\ Blocks(d, e, s) /\ \A j \in 1..(s - 1) : e < j => ~Blocks(d, j, s)
  <2>1. e \in 0..(s - 1) /\ e # 0 /\ Blocks(d, e, s) /\ \A j \in 1..(s - 1) : e < j => ~Blocks(d, j, s)
    BY <1>1, EarliestIs
  <2> HIDE DEF e
  <2> QED BY <2>1
<1> HIDE DEF e
<1>3. ASSUME d[e].op = "store" PROVE FALSE
  <2>1. e \in 1..Len(d) /\ e < s
    BY <1>1, <1>2
  <2>2. d[e].dst = None
    BY <2>1, <1>3 DEF BandShape, InstructionsOK, Shape
  <2>3. None \notin Reads(d, s)
    BY <1>1 DEF Reads, ToSet
  <2>4. d[e].field = d[s].field
    BY <2>2, <2>3, <1>2, <1>3 DEF Blocks
  <2>5. PICK b \in e..s : \/ d[b].op \in {"guard", "endguard", "foreign"}
                          \/ d[b].op \in {"loadAt", "storeAt"} /\ d[b].field = d[s].field
    BY <2>1, <2>4, <1>1, <1>3 DEF BandShape, StoresApart
  <2>6. b # e /\ b # s
    BY <2>5, <1>3
  <2>7. b \in 1..(s - 1) /\ e < b /\ b \in DOMAIN d
    BY <2>1, <2>6, <1>1
  <2>8. Blocks(d, b, s)
    BY <2>5, <2>7 DEF Blocks, Accesses
  <2> QED BY <2>7, <2>8, <1>2
<1> QED BY <1>2, <1>3 DEF e

\* Moving stores up makes a band ready: each store stands as early as it may.
LEMMA HoistedShape ==
  ASSUME NEW p, NEW d, BandShape(p, d)
  PROVE  /\ ReadyShape(p, Hoisted(d))
         /\ \A j \in 1..Len(Hoisted(d)) : \E u \in 1..Len(d) : Hoisted(d)[j] = d[u]
<1> DEFINE e == Hoisted(d)
<1>0. /\ None \notin Items(p) /\ Values(p) \cap Fields(p) = {}
      /\ Len(d) \in Nat /\ DOMAIN d = 1..Len(d)
      /\ \A k \in 1..Len(d) : Shape(d[k])
  BY DEF InstructionsOK, BandShape
<1>1. IsSequence(e) /\ Len(e) \in Nat /\ DOMAIN e = 1..Len(e)
  BY <1>0, HoistedFrom, AnySeq
<1>2. PICK m : Scheduled(d, 1..Len(d), e, m)
  BY <1>0, HoistedFrom
<1> HIDE DEF e
<1>3. /\ \A j \in 1..Len(e) : m[j] \in 1..Len(d) /\ e[j] = d[m[j]]
      /\ \A i, j \in 1..Len(e) : i < j => Before(d, m[i], m[j])
      /\ \A u \in 1..Len(d) : \E j \in 1..Len(e) : m[j] = u
  BY <1>2 DEF Scheduled
<1>4. \A i, j \in 1..Len(e) : (Before(d, m[i], m[j]) <=> i < j) /\ (m[i] = m[j] <=> i = j)
  <2> SUFFICES ASSUME NEW i \in 1..Len(e), NEW j \in 1..Len(e)
               PROVE  (Before(d, m[i], m[j]) <=> i < j) /\ (m[i] = m[j] <=> i = j)
    OBVIOUS
  <2>0. m[i] \in 1..Len(d) /\ m[j] \in 1..Len(d)
    BY <1>3
  <2>1. /\ Before(d, m[i], m[j]) => ~Before(d, m[j], m[i]) /\ m[i] # m[j]
        /\ Before(d, m[j], m[i]) => m[i] # m[j]
    BY <2>0, <1>0, BeforeIs
  <2>2. CASE i < j
    <3>1. Before(d, m[i], m[j])
      BY <2>2, <1>3
    <3> QED BY <3>1, <2>1, <2>2
  <2>3. CASE j < i
    <3>1. Before(d, m[j], m[i])
      BY <2>3, <1>3
    <3> QED BY <3>1, <2>1, <2>3
  <2>4. CASE i = j
    BY <2>1, <2>4
  <2> QED BY <2>2, <2>3, <2>4, <1>1
<1>5. \A u \in 1..Len(d) : d[u].op # "store" => ~Moves(d, u)
  BY DEF Moves
<1>6. \A u \in 1..Len(d) : d[u].dst # None => d[u].op # "store"
  BY <1>0 DEF Shape
<1>7. InstructionsOK(p, e)
  <2>1. \A k \in 1..Len(e) : \E u \in 1..Len(d) : e[k] = d[u]
    BY <1>3
  <2> QED BY <2>1, <1>0, <1>1 DEF BandShape, InstructionsOK
<1>8. \A j, k \in 1..Len(e) : e[j].dst # None /\ e[j].dst \in Reads(e, k) /\ m[j] < m[k] => j < k
  <2> SUFFICES ASSUME NEW j \in 1..Len(e), NEW k \in 1..Len(e), e[j].dst # None,
                      e[j].dst \in Reads(e, k), m[j] < m[k]
               PROVE  j < k
    OBVIOUS
  <2>1. /\ m[j] \in 1..Len(d) /\ m[k] \in 1..Len(d) /\ e[j] = d[m[j]] /\ e[k] = d[m[k]]
        /\ ~Moves(d, m[j])
    BY <1>3, <1>5, <1>6
  <2>2. Blocks(d, m[j], m[k])
    BY <2>1 DEF Blocks, Reads
  <2>3. Before(d, m[j], m[k])
    BY <2>1, <2>2, <1>0, BeforeIs
  <2> QED BY <2>3, <1>4
<1>9. SingleAssignment(e)
  <2> SUFFICES ASSUME NEW j \in 1..Len(e), NEW k \in 1..Len(e), e[j].dst # None
               PROVE  (e[j].dst = e[k].dst => j = k) /\ (e[j].dst \in Reads(e, k) => j < k)
    BY <1>1 DEF SingleAssignment
  <2>1. /\ m[j] \in DOMAIN d /\ m[k] \in DOMAIN d /\ e[j] = d[m[j]] /\ e[k] = d[m[k]]
        /\ Reads(d, m[k]) = Reads(e, k)
    BY <1>0, <1>3 DEF Reads
  <2>2. (e[j].dst = e[k].dst => m[j] = m[k]) /\ (e[j].dst \in Reads(e, k) => m[j] < m[k])
    BY <2>1 DEF BandShape, SingleAssignment
  <2> QED BY <2>2, <1>4, <1>8
<1>10. DefinesFirst(e, Retained(p))
  <2> SUFFICES ASSUME NEW k \in 1..Len(e), NEW x \in Reads(e, k) \ Retained(p)
               PROVE  \E j \in 1..(k - 1) : e[j].dst = x
    BY <1>1 DEF DefinesFirst
  <2>1. m[k] \in DOMAIN d /\ Reads(d, m[k]) = Reads(e, k)
    BY <1>0, <1>3 DEF Reads
  <2>2. PICK u \in 1..(m[k] - 1) : d[u].dst = x
    BY <2>1 DEF BandShape, DefinesFirst
  <2>3. u \in 1..Len(d) /\ u < m[k]
    BY <2>1, <2>2, <1>0
  <2>4. PICK j \in 1..Len(e) : m[j] = u
    BY <2>3, <1>3
  <2>5. x # None
    <3>1. \A n \in DOMAIN e[k].args : e[k].args[n] # None
      BY <1>7 DEF InstructionsOK, Items
    <3> QED BY <3>1 DEF Reads, ToSet
  <2>6. e[j].dst = x /\ j < k
    BY <2>2, <2>3, <2>4, <2>5, <1>3, <1>8
  <2> QED BY <2>6, <1>1
<1>11. Nested(e, 0)
  <2>1. \A j \in 1..Len(e) : m[j] \in 1..Len(d) /\ e[j].op = d[m[j]].op /\ e[j].field = d[m[j]].field
    BY <1>3
  <2>2. ASSUME NEW i \in 1..Len(e), NEW j \in 1..Len(e), e[i].op \in Bracketing, e[j].op \in Bracketing
        PROVE  (m[i] < m[j] <=> i < j) /\ (m[i] = m[j] <=> i = j)
    <3>1. m[i] \in 1..Len(d) /\ m[j] \in 1..Len(d) /\ ~Moves(d, m[i]) /\ ~Moves(d, m[j])
      BY <2>1, <2>2, <1>5 DEF Bracketing
    <3>2. Before(d, m[i], m[j]) <=> m[i] < m[j]
      BY <3>1, <1>0, BeforeIs
    <3> QED BY <3>2, <1>4
  <2>3. \A u \in 1..Len(d) : d[u].op \in Bracketing => \E j \in 1..Len(e) : m[j] = u
    BY <1>3
  <2>4. Nested(d, 0)
    BY DEF BandShape
  <2>5. SameBrackets(d, e, m)
    BY <2>1, <2>2, <2>3, <1>0, <1>1 DEF SameBrackets
  <2> QED BY <2>4, <2>5, NestedMapped
<1>12. \A k \in 1..Len(e) : Guarded(e, k) => e[k].dst \in Retained(p) \cup {None}
  <2> SUFFICES ASSUME NEW k \in 1..Len(e), Guarded(e, k), e[k].dst # None PROVE e[k].dst \in Retained(p)
    OBVIOUS
  <2>1. PICK i \in 1..Len(e), j \in 1..Len(e) :
          e[i].op = "guard" /\ e[j].op = "endguard" /\ e[i].field = e[j].field /\ i < k /\ k < j
    BY <1>1 DEF Guarded
  <2>2. /\ m[i] \in 1..Len(d) /\ m[j] \in 1..Len(d) /\ m[k] \in 1..Len(d)
        /\ e[i] = d[m[i]] /\ e[j] = d[m[j]] /\ e[k] = d[m[k]]
        /\ ~Moves(d, m[i]) /\ ~Moves(d, m[j]) /\ ~Moves(d, m[k])
        /\ Before(d, m[i], m[k]) /\ Before(d, m[k], m[j])
    BY <2>1, <1>3, <1>5, <1>6
  <2>3. m[i] < m[k] /\ m[k] < m[j]
    BY <2>2, <1>0, BeforeIs
  <2>4. Guarded(d, m[k])
    BY <2>1, <2>2, <2>3, <1>0 DEF Guarded
  <2> QED BY <2>2, <2>4 DEF BandShape
<1>13. StoresUp(e, 0)
  <2> SUFFICES ASSUME NEW k \in 1..Len(e), NEW s \in 1..Len(e), e[s].op = "store", k < s
               PROVE  /\ e[k].op = "store" \/ \E b \in k..(s - 1) : Blocks(e, b, s)
                      /\ (\A b \in k..s : e[b].op = "store") => e[k].field # e[s].field
    BY <1>1 DEF StoresUp
  <2> DEFINE u == m[k]
             v == m[s]
  <2>1. u \in 1..Len(d) /\ v \in 1..Len(d) /\ e[k] = d[u] /\ e[s] = d[v] /\ Before(d, u, v) /\ u # v
    BY <1>3, <1>4
  <2> HIDE DEF u, v
  <2>2. ASSUME e[k].op # "store" PROVE \E b \in k..(s - 1) : Blocks(e, b, s)
    <3>1. ~Moves(d, u) /\ u < v /\ Place(d, u) = u
      BY <2>1, <2>2, <1>0, <1>5, BeforeIs, PlaceIs
    <3>2. u <= Earliest(d, v) /\ Earliest(d, v) \in 0..(v - 1)
      <4>1. Earliest(d, v) \in 0..(v - 1)
        BY <2>1, <1>0, EarliestIs
      <4>2. CASE Moves(d, v)
        <5>1. Place(d, v) = Earliest(d, v)
          BY <4>2, <2>1, <1>0, PlaceIs
        <5> QED BY <5>1, <4>1, <3>1, <2>1 DEF Before
      <4>3. CASE ~Moves(d, v)
        <5>1. ~(Earliest(d, v) < v - 1)
          BY <4>3, <2>1 DEF Moves
        <5> QED BY <5>1, <4>1, <3>1, <2>1
      <4> QED BY <4>2, <4>3
    <3> DEFINE x == Earliest(d, v)
    <3>3. x # 0
      BY <3>2, <2>1
    <3>4. x \in 1..(v - 1) /\ d[x].op # "store" /\ Blocks(d, x, v)
      BY <3>3, <2>1, EarliestIsNoStore
    <3> HIDE DEF x
    <3>5. x \in 1..Len(d) /\ x < v /\ ~Moves(d, x) /\ u <= x
      BY <3>2, <3>4, <2>1, <1>0, <1>5 DEF x
    <3>6. PICK b \in 1..Len(e) : m[b] = x
      BY <3>5, <1>3
    <3>7. Before(d, x, v)
      BY <3>4, <3>5, <2>1, <1>0, BeforeIs
    <3>8. b < s
      BY <3>6, <3>7, <1>4 DEF v
    <3>9. b >= k
      <4>1. CASE u = x
        BY <4>1, <3>6, <1>4 DEF u
      <4>2. CASE u # x
        <5>1. u < x
          BY <4>2, <3>5, <2>1
        <5>2. Before(d, u, x)
          BY <5>1, <3>5, <2>1, <1>0, BeforeIs
        <5>3. k < b
          BY <5>2, <3>6, <1>4 DEF u
        <5> QED BY <5>3
      <4> QED BY <4>1, <4>2
    <3>10. Blocks(e, b, s)
      <4>1. e[b] = d[x] /\ b \in DOMAIN e /\ x \in DOMAIN d /\ Reads(e, s) = Reads(d, v)
        BY <3>5, <3>6, <2>1, <1>0, <1>1, <1>3 DEF Reads
      <4> QED BY <4>1, <3>4, <2>1 DEF Blocks, Accesses
    <3> QED BY <3>8, <3>9, <3>10, <1>1
  <2>3. ASSUME \A b \in k..s : e[b].op = "store", e[k].field = e[s].field PROVE FALSE
    <3>1. d[u].op = "store" /\ d[v].op = "store" /\ d[u].field = d[v].field
      <4>1. k \in k..s
        BY <1>1
      <4> QED BY <4>1, <2>1, <2>3
    <3>2. ASSUME NEW y \in 1..Len(d), NEW z \in 1..Len(d), y < z,
                 d[y].op = "store", d[z].op = "store", d[y].field = d[z].field
          PROVE  \E x \in 1..Len(d) : d[x].op # "store" /\ Before(d, y, x) /\ Before(d, x, z)
      <4>1. PICK x \in y..z : \/ d[x].op \in {"guard", "endguard", "foreign"}
                              \/ d[x].op \in {"loadAt", "storeAt"} /\ d[x].field = d[z].field
        <5>1. y \in DOMAIN d /\ z \in DOMAIN d /\ (y <= 0 <=> z <= 0)
          BY <1>0
        <5> QED BY <5>1, <3>2 DEF BandShape, StoresApart
      <4>2. x \in 1..Len(d) /\ d[x].op # "store" /\ y < x /\ x < z
        <5>1. x # y /\ x # z /\ d[x].op # "store"
          BY <4>1, <3>2
        <5> QED BY <5>1, <1>0
      <4>3. ~Moves(d, x) /\ Blocks(d, x, z)
        BY <4>1, <4>2, <1>0, <1>5 DEF Blocks, Accesses
      <4>4. Before(d, y, x)
        BY <4>2, <4>3, <1>0, BeforeIs
      <4>5. Before(d, x, z)
        BY <4>2, <4>3, <1>0, BeforeIs
      <4> QED BY <4>2, <4>4, <4>5
    <3>3. CASE u < v
      <4>1. PICK x \in 1..Len(d) : d[x].op # "store" /\ Before(d, u, x) /\ Before(d, x, v)
        BY <3>1, <3>2, <3>3, <2>1
      <4>2. PICK b \in 1..Len(e) : m[b] = x
        BY <1>3
      <4>3. k < b /\ b < s
        BY <4>1, <4>2, <1>4 DEF u, v
      <4>4. b \in k..s /\ e[b] = d[x]
        BY <4>2, <4>3, <1>3
      <4> QED BY <4>1, <4>4, <2>3
    <3>4. CASE v < u
      <4>1. PICK x \in 1..Len(d) : d[x].op # "store" /\ Before(d, v, x) /\ Before(d, x, u)
        BY <3>1, <3>2, <3>4, <2>1
      <4>2. PICK b \in 1..Len(e) : m[b] = x
        BY <1>3
      <4>3. s < b /\ b < k
        BY <4>1, <4>2, <1>4 DEF u, v
      <4> QED BY <4>3
    <3> QED BY <3>3, <3>4, <2>1
  <2> QED BY <2>2, <2>3
<1>14. \A j \in 1..Len(e) : \E u \in 1..Len(d) : e[j] = d[u]
  BY <1>3
<1> QED BY <1>7, <1>9, <1>10, <1>11, <1>12, <1>13, <1>14 DEF ReadyShape, e

(***************************************************************************)
(* The bands of a plan have that shape.                                    *)
(***************************************************************************)

\* A plan is like that in each of its bands.
LEMMA BandHasShape ==
  ASSUME NEW p \in Programs, NEW c \in {p.control, p.sample}
  PROVE  BandShape(p, c)
<1> DEFINE l == Lowered(p, "sample")
           n == Len(p.control)
<1>0. /\ InstructionsOK(p, c) /\ SingleAssignment(c)
      /\ \A k \in 1..Len(c) : Guarded(c, k) => c[k].dst \in Retained(p) \cup {None}
  BY BandIsOK DEF BandOK, GuardsOK
<1>1. DefinesFirst(l, Retained(p)) /\ Nested(l, n) /\ StoresApart(l, n)
  BY ProgramsAssumption DEF LoweredControl
<1>2. PICK o \in Nat, first \in BOOLEAN : Stands(c, l, o, n, first) /\ c = IF first THEN p.control ELSE p.sample
  BY BandStands
<1>3. /\ DOMAIN c = 1..Len(c) /\ Len(c) \in Nat /\ DOMAIN l = 1..Len(l) /\ Len(l) \in Nat /\ n \in Nat
      /\ \A k \in 1..Len(c) : k + o \in 1..Len(l) /\ l[k + o] = c[k] /\ (k + o <= n <=> first)
      /\ \A k \in 1..Len(l) : (k <= n <=> first) => k - o \in 1..Len(c)
  BY <1>2 DEF Stands
<1> HIDE DEF l, n
<1>5. \A k \in 1..Len(l) : (k <= n <=> first) =>
        k - o \in 1..Len(c) /\ k - o + o = k /\ c[k - o] = l[k]
  <2>1. \A k \in 1..Len(l) : (k <= n <=> first) => k - o \in 1..Len(c) /\ k - o + o = k
    BY <1>3
  <2> QED BY <2>1, <1>3
<1>6. Nested(c, 0)
  <2>1. \A i, j \in 1..Len(c) : <<i, j>> \in Brackets(c) <=> <<i + o, j + o>> \in Brackets(l)
    <3> SUFFICES ASSUME NEW i \in 1..Len(c), NEW j \in 1..Len(c)
                 PROVE  <<i, j>> \in Brackets(c) <=> <<i + o, j + o>> \in Brackets(l)
      OBVIOUS
    <3>1. /\ i \in DOMAIN c /\ j \in DOMAIN c /\ i + o \in DOMAIN l /\ j + o \in DOMAIN l
          /\ l[i + o] = c[i] /\ l[j + o] = c[j]
      BY <1>3
    <3> QED BY <3>1 DEF Brackets
  <2>2. \A x \in Brackets(l) : /\ x[1] \in 1..Len(l) /\ x[2] \in 1..Len(l) /\ x = <<x[1], x[2]>>
                               /\ (x[1] <= n <=> x[2] <= n)
    BY <1>1, <1>3 DEF Nested, Brackets
  <2>3. \A k \in 1..Len(c) : c[k].op \in {"guard", "loop"} => \E j \in 1..Len(c) : <<k, j>> \in Brackets(c)
    <3> SUFFICES ASSUME NEW k \in 1..Len(c), c[k].op \in {"guard", "loop"}
                 PROVE  \E j \in 1..Len(c) : <<k, j>> \in Brackets(c)
      OBVIOUS
    <3>1. k + o \in DOMAIN l /\ l[k + o].op \in {"guard", "loop"} /\ (k + o <= n <=> first)
      BY <1>3
    <3>2. PICK u \in DOMAIN l : <<k + o, u>> \in Brackets(l)
      BY <3>1, <1>1 DEF Nested
    <3>3. u - o \in 1..Len(c) /\ u - o + o = u
      BY <3>1, <3>2, <2>2, <1>3, <1>5
    <3> QED BY <3>2, <3>3, <2>1
  <2>4. \A k \in 1..Len(c) : c[k].op \in {"endguard", "endloop"} => \E j \in 1..Len(c) : <<j, k>> \in Brackets(c)
    <3> SUFFICES ASSUME NEW k \in 1..Len(c), c[k].op \in {"endguard", "endloop"}
                 PROVE  \E j \in 1..Len(c) : <<j, k>> \in Brackets(c)
      OBVIOUS
    <3>1. k + o \in DOMAIN l /\ l[k + o].op \in {"endguard", "endloop"} /\ (k + o <= n <=> first)
      BY <1>3
    <3>2. PICK u \in DOMAIN l : <<u, k + o>> \in Brackets(l)
      BY <3>1, <1>1 DEF Nested
    <3>3. u - o \in 1..Len(c) /\ u - o + o = u
      BY <3>1, <3>2, <2>2, <1>3, <1>5
    <3> QED BY <3>2, <3>3, <2>1
  <2>5. \A x \in Brackets(c) : /\ x[1] \in 1..Len(c) /\ x[2] \in 1..Len(c) /\ x = <<x[1], x[2]>>
                               /\ <<x[1] + o, x[2] + o>> \in Brackets(l)
                               /\ l[x[1] + o] = c[x[1]] /\ l[x[2] + o] = c[x[2]]
    <3>1. \A x \in Brackets(c) : x[1] \in 1..Len(c) /\ x[2] \in 1..Len(c) /\ x = <<x[1], x[2]>>
      BY <1>3 DEF Brackets
    <3> QED BY <3>1, <2>1, <1>3
  <2>6. \A x \in Brackets(c) : /\ x[1] < x[2] /\ (x[1] <= 0 <=> x[2] <= 0)
                               /\ (c[x[1]].op = "guard" <=> c[x[2]].op = "endguard")
    <3> SUFFICES ASSUME NEW x \in Brackets(c)
                 PROVE  /\ x[1] < x[2] /\ (x[1] <= 0 <=> x[2] <= 0)
                        /\ (c[x[1]].op = "guard" <=> c[x[2]].op = "endguard")
      OBVIOUS
    <3> DEFINE y == <<x[1] + o, x[2] + o>>
    <3>1. y \in Brackets(l)
      BY <2>5
    <3>2. y[1] < y[2] /\ (l[y[1]].op = "guard" <=> l[y[2]].op = "endguard")
      BY <3>1, <1>1 DEF Nested
    <3>3. x[1] + o < x[2] + o /\ (l[x[1] + o].op = "guard" <=> l[x[2] + o].op = "endguard")
      BY <3>2
    <3> HIDE DEF y
    <3>4. x[1] \in 1..Len(c) /\ x[2] \in 1..Len(c)
      BY <2>5
    <3>5. x[1] < x[2] /\ ~(x[1] <= 0) /\ ~(x[2] <= 0)
      BY <3>3, <3>4, <1>3
    <3> QED BY <3>3, <3>5, <2>5
  <2>7. \A x, y \in Brackets(c) :
          x = y \/ x[2] < y[1] \/ y[2] < x[1] \/ (x[1] < y[1] /\ y[2] < x[2]) \/ (y[1] < x[1] /\ x[2] < y[2])
    <3> SUFFICES ASSUME NEW x \in Brackets(c), NEW y \in Brackets(c)
                 PROVE  x = y \/ x[2] < y[1] \/ y[2] < x[1] \/ (x[1] < y[1] /\ y[2] < x[2])
                          \/ (y[1] < x[1] /\ x[2] < y[2])
      OBVIOUS
    <3> DEFINE s == <<x[1] + o, x[2] + o>>
               t == <<y[1] + o, y[2] + o>>
    <3>1. s \in Brackets(l) /\ t \in Brackets(l)
      BY <2>5
    <3>2. s = t \/ s[2] < t[1] \/ t[2] < s[1] \/ (s[1] < t[1] /\ t[2] < s[2]) \/ (t[1] < s[1] /\ s[2] < t[2])
      BY <3>1, <1>1 DEF Nested
    <3>3. \/ (x[1] + o = y[1] + o /\ x[2] + o = y[2] + o) \/ x[2] + o < y[1] + o \/ y[2] + o < x[1] + o
          \/ (x[1] + o < y[1] + o /\ y[2] + o < x[2] + o) \/ (y[1] + o < x[1] + o /\ x[2] + o < y[2] + o)
      BY <3>2
    <3> HIDE DEF s, t
    <3>4. x[1] \in Nat /\ x[2] \in Nat /\ y[1] \in Nat /\ y[2] \in Nat
      <4>1. x[1] \in 1..Len(c) /\ x[2] \in 1..Len(c) /\ y[1] \in 1..Len(c) /\ y[2] \in 1..Len(c)
        BY <2>5
      <4>2. \A i \in 1..Len(c) : i \in Nat
        OBVIOUS
      <4> QED BY <4>1, <4>2
    <3>5. \/ (x[1] = y[1] /\ x[2] = y[2]) \/ x[2] < y[1] \/ y[2] < x[1]
          \/ (x[1] < y[1] /\ y[2] < x[2]) \/ (y[1] < x[1] /\ x[2] < y[2])
      BY <3>3, <3>4
    <3>6. x = <<x[1], x[2]>> /\ y = <<y[1], y[2]>>
      BY <2>5
    <3> QED BY <3>5, <3>6
  <2> QED BY <1>3, <2>3, <2>4, <2>6, <2>7 DEF Nested
<1>7. StoresApart(c, 0)
  <2> SUFFICES ASSUME NEW k \in 1..Len(c), NEW s \in 1..Len(c), c[k].op = "store", c[s].op = "store",
                      c[k].field = c[s].field, k < s
               PROVE  \E b \in k..s : \/ c[b].op \in {"guard", "endguard", "foreign"}
                                      \/ c[b].op \in {"loadAt", "storeAt"} /\ c[b].field = c[s].field
    BY <1>3 DEF StoresApart
  <2>1. /\ k + o \in DOMAIN l /\ s + o \in DOMAIN l /\ l[k + o] = c[k] /\ l[s + o] = c[s]
        /\ k + o < s + o /\ (k + o <= n <=> first) /\ (s + o <= n <=> first)
    BY <1>3
  <2>2. PICK u \in (k + o)..(s + o) : \/ l[u].op \in {"guard", "endguard", "foreign"}
                                      \/ l[u].op \in {"loadAt", "storeAt"} /\ l[u].field = c[s].field
    BY <2>1, <1>1 DEF StoresApart
  <2>3. u \in 1..Len(l) /\ (u <= n <=> first)
    BY <2>1, <2>2, <1>3
  <2>4. u - o \in k..s /\ c[u - o] = l[u]
    BY <2>2, <2>3, <1>3, <1>5
  <2> QED BY <2>2, <2>4
<1>8. DefinesFirst(c, Retained(p))
  <2> SUFFICES ASSUME NEW k \in 1..Len(c), NEW x \in Reads(c, k) \ Retained(p)
               PROVE  \E j \in 1..(k - 1) : c[j].dst = x
    BY <1>3 DEF DefinesFirst
  <2>1. k + o \in DOMAIN l /\ l[k + o] = c[k] /\ (k + o <= n <=> first)
    BY <1>3
  <2>2. Reads(l, k + o) = Reads(c, k)
    BY <2>1 DEF Reads
  <2>3. PICK j \in 1..(k + o - 1) : l[j].dst = x
    BY <2>1, <2>2, <1>1 DEF DefinesFirst
  <2>4. j \in 1..Len(l)
    BY <2>1, <2>3, <1>3
  <2>5. CASE j <= n <=> first
    <3>1. j - o \in 1..(k - 1) /\ c[j - o] = l[j]
      BY <2>3, <2>4, <2>5, <1>3, <1>5
    <3> QED BY <3>1, <2>3
  <2>6. CASE ~(j <= n <=> first)
    <3>1. j <= n /\ ~first
      BY <2>1, <2>3, <2>4, <2>6, <1>3
    <3>2. /\ IsSequence(p.control) /\ IsSequence(p.sample) /\ l = p.control \o p.sample
      BY ProgramsAssumption DEF IsSequence, l, Lowered
    <3>3. n = Len(p.control)
      BY DEF n
    <3>4. /\ DOMAIN p.control = 1..n /\ (\A i \in 1..n : l[i] = p.control[i])
      <4>1. \A i \in 1..Len(p.control) : (p.control \o p.sample)[i] = p.control[i]
        BY <3>2, Concatenated
      <4>2. DOMAIN p.control = 1..Len(p.control)
        BY <3>2, AnySeq
      <4> QED BY <3>2, <3>3, <4>1, <4>2
    <3>5. j \in 1..n
      BY <3>1, <2>4, <1>3
    <3>6. p.control[j].dst = x /\ j \in DOMAIN p.control
      BY <3>4, <3>5, <2>3
    <3>7. x # None
      <4>1. \A i \in DOMAIN c[k].args : c[k].args[i] # None
        BY <1>0 DEF InstructionsOK, Items
      <4> QED BY <4>1 DEF Reads, ToSet
    <3>8. x \in Defined(p.control)
      BY <3>6, <3>7 DEF Defined
    <3>9. c = p.sample
      BY <1>2, <3>1
    <3>10. x \in ReadIn(p.sample)
      BY <3>9, <1>3 DEF ReadIn
    <3> QED BY <3>8, <3>10 DEF Retained
  <2> QED BY <2>5, <2>6
<1> QED BY <1>0, <1>6, <1>7, <1>8 DEF BandShape

\* What guards and loops of a band are called.
BracketFields(c) == {c[k].field : k \in {j \in DOMAIN c : c[j].op \in Bracketing}}

\* Two bands of a plan: the second defines nothing the first reads, what it reads
\* of the first is retained, and no guard opens in the one and ends in the other.
BandsApart(p, a, b) ==
  /\ Defined(a) \cap Defined(b) = {} /\ Defined(b) \cap ReadIn(a) = {}
  /\ Defined(a) \cap ReadIn(b) \subseteq Retained(p)
  /\ BracketFields(a) \cap BracketFields(b) = {}

\* So it is of the control and the sample band.
LEMMA PlanBandsApart ==
  ASSUME NEW p \in Programs
  PROVE  BandsApart(p, p.control, p.sample)
<1> DEFINE l == Lowered(p, "sample")
           n == Len(p.control)
           m == Len(p.sample)
           a == p.control
           b == p.sample
<1>1. IsSequence(a) /\ IsSequence(b) /\ l = a \o b
  BY ProgramsAssumption DEF IsSequence, Lowered
<1>2. SingleAssignment(l) /\ Nested(l, n)
  BY ProgramsAssumption DEF LoweredControl
<1>3. Stands(a, l, 0, n, TRUE) /\ Stands(b, l, n, n, FALSE)
  BY <1>1, BothStand
<1>4. /\ DOMAIN a = 1..n /\ DOMAIN b = 1..m /\ DOMAIN l = 1..Len(l) /\ n \in Nat /\ m \in Nat /\ Len(l) \in Nat
      /\ \A k \in 1..n : k + 0 \in 1..Len(l) /\ l[k + 0] = a[k] /\ k + 0 <= n
      /\ \A k \in 1..m : k + n \in 1..Len(l) /\ l[k + n] = b[k] /\ ~(k + n <= n)
  BY <1>3 DEF Stands
<1> HIDE DEF l, n, m, a, b
<1>5. \A k \in 1..n : k \in 1..Len(l) /\ l[k] = a[k] /\ k <= n
  <2>1. \A k \in 1..n : k + 0 = k
    BY <1>4
  <2> QED BY <2>1, <1>4
<1>6. ASSUME NEW j \in 1..n, NEW k \in 1..m
      PROVE  /\ b[k].dst # None => a[j].dst # b[k].dst /\ b[k].dst \notin Reads(a, j)
             /\ a[j].op \in Bracketing /\ b[k].op \in Bracketing => a[j].field # b[k].field
  <2>1. /\ j \in DOMAIN l /\ k + n \in DOMAIN l /\ l[j] = a[j] /\ l[k + n] = b[k]
        /\ j <= n /\ ~(k + n <= n) /\ j # k + n /\ ~(k + n < j)
    BY <1>4, <1>5
  <2>2. Reads(l, j) = Reads(a, j)
    BY <2>1 DEF Reads
  <2>3. b[k].dst # None => a[j].dst # b[k].dst /\ b[k].dst \notin Reads(a, j)
    BY <2>1, <2>2, <1>2 DEF SingleAssignment
  <2>4. ASSUME NEW x \in DOMAIN l, l[x].op \in Bracketing
        PROVE  \E y \in DOMAIN l : /\ l[y].field = l[x].field
                                   /\ (x <= n <=> y <= n)
                                   /\ \/ l[x].op \in {"guard", "loop"} /\ l[y].op \in {"endguard", "endloop"}
                                      \/ l[y].op \in {"guard", "loop"} /\ l[x].op \in {"endguard", "endloop"}
    <3>1. CASE l[x].op \in {"guard", "loop"}
      <4>1. PICK y \in DOMAIN l : <<x, y>> \in Brackets(l)
        BY <3>1, <1>2 DEF Nested
      <4>2. (x <= n <=> y <= n) /\ l[y].field = l[x].field /\ l[y].op \in {"endguard", "endloop"}
        BY <4>1, <1>2 DEF Nested, Brackets
      <4> QED BY <3>1, <4>2
    <3>2. CASE l[x].op \in {"endguard", "endloop"}
      <4>1. PICK y \in DOMAIN l : <<y, x>> \in Brackets(l)
        BY <3>2, <1>2 DEF Nested
      <4>2. (x <= n <=> y <= n) /\ l[y].field = l[x].field /\ l[y].op \in {"guard", "loop"}
        BY <4>1, <1>2 DEF Nested, Brackets
      <4> QED BY <3>2, <4>2
    <3> QED BY <3>1, <3>2, <2>4 DEF Bracketing
  <2>5. ASSUME NEW x \in DOMAIN l, NEW y \in DOMAIN l, l[x].op \in {"guard", "loop"},
               l[y].op \in {"endguard", "endloop"}, l[x].field = l[y].field
        PROVE  x <= n <=> y <= n
    <3>1. <<x, y>> \in Brackets(l)
      BY <2>5 DEF Brackets
    <3> QED BY <3>1, <1>2 DEF Nested
  <2>6. ASSUME a[j].op \in Bracketing, b[k].op \in Bracketing, a[j].field = b[k].field PROVE FALSE
    <3>1. PICK y \in DOMAIN l : /\ l[y].field = l[j].field /\ (j <= n <=> y <= n)
                                /\ \/ l[j].op \in {"guard", "loop"} /\ l[y].op \in {"endguard", "endloop"}
                                   \/ l[y].op \in {"guard", "loop"} /\ l[j].op \in {"endguard", "endloop"}
      BY <2>1, <2>4, <2>6
    <3>2. l[k + n].op \in {"guard", "loop"} \/ l[k + n].op \in {"endguard", "endloop"}
      BY <2>1, <2>6 DEF Bracketing
    <3>3. y <= n <=> k + n <= n
      BY <3>1, <3>2, <2>1, <2>5, <2>6
    <3> QED BY <3>1, <3>3, <2>1
  <2> QED BY <2>3, <2>6
<1>7. Defined(a) \cap Defined(b) = {} /\ Defined(b) \cap ReadIn(a) = {}
  <2>1. ASSUME NEW x \in Defined(b) PROVE x \notin Defined(a) /\ x \notin ReadIn(a)
    <3>1. PICK k \in 1..m : b[k].dst = x /\ x # None
      BY <1>4, <2>1 DEF Defined
    <3>2. x \notin Defined(a)
      BY <3>1, <1>4, <1>6 DEF Defined
    <3>3. x \notin ReadIn(a)
      BY <3>1, <1>4, <1>6 DEF ReadIn
    <3> QED BY <3>2, <3>3
  <2> QED BY <2>1
<1>8. BracketFields(a) \cap BracketFields(b) = {}
  BY <1>4, <1>6 DEF BracketFields
<1>9. Defined(a) \cap ReadIn(b) \subseteq Retained(p)
  BY DEF Retained, a, b
<1> QED BY <1>7, <1>8, <1>9 DEF BandsApart, a, b

\* What is within a band reads, defines and guards nothing else.
LEMMA WithinIs ==
  ASSUME NEW d, NEW c, Within(d, c), Len(d) \in Nat, DOMAIN d = 1..Len(d), DOMAIN c = 1..Len(c)
  PROVE  /\ Defined(d) \subseteq Defined(c) /\ ReadIn(d) \subseteq ReadIn(c) \cup Defined(c)
         /\ BracketFields(d) \subseteq BracketFields(c)
<1>1. Defined(d) \subseteq Defined(c)
  BY DEF Within, Defined
<1>2. BracketFields(d) \subseteq BracketFields(c)
  BY DEF Within, BracketFields
<1> QED BY <1>1, <1>2 DEF Within

\* A band of a plan, prepared.
LEMMA PreparedShape ==
  ASSUME NEW p \in Programs, NEW c \in {p.control, p.sample}
  PROVE  LET d == Prepared(c, Retained(p)) IN
         /\ ReadyShape(p, d) /\ Defined(d) \subseteq Defined(c)
         /\ ReadIn(d) \subseteq ReadIn(c) \cup Defined(c) /\ BracketFields(d) \subseteq BracketFields(c)
<1> DEFINE f == Forwarded(c, Retained(p))
           d == Prepared(c, Retained(p))
<1>1. BandShape(p, f) /\ Within(f, c) /\ BandShape(p, c)
  BY BandHasShape, ForwardedShape
<1>2. d = Hoisted(f)
  BY DEF Prepared
<1> HIDE DEF f, d
<1>3. ReadyShape(p, d) /\ \A j \in 1..Len(d) : \E u \in 1..Len(f) : d[j] = f[u]
  BY <1>1, <1>2, HoistedShape
<1>4. /\ Len(d) \in Nat /\ DOMAIN d = 1..Len(d) /\ Len(f) \in Nat /\ DOMAIN f = 1..Len(f)
      /\ Len(c) \in Nat /\ DOMAIN c = 1..Len(c)
  BY <1>1, <1>3 DEF ReadyShape, BandShape, InstructionsOK
<1>5. Within(d, c)
  <2>1. \A j \in 1..Len(d) : \E u \in 1..Len(c) :
          d[j].op = c[u].op /\ d[j].field = c[u].field /\ d[j].dst = c[u].dst
    <3>1. ASSUME NEW j \in 1..Len(d)
          PROVE  \E u \in 1..Len(c) : d[j].op = c[u].op /\ d[j].field = c[u].field /\ d[j].dst = c[u].dst
      <4>1. PICK v \in 1..Len(f) : d[j] = f[v]
        BY <1>3
      <4>2. PICK u \in 1..Len(c) : f[v].op = c[u].op /\ f[v].field = c[u].field /\ f[v].dst = c[u].dst
        BY <1>1 DEF Within
      <4> QED BY <4>1, <4>2
    <3> QED BY <3>1
  <2>2. ReadIn(d) \subseteq ReadIn(f)
    BY <1>3, <1>4 DEF ReadIn, Reads
  <2> QED BY <2>1, <2>2, <1>1 DEF Within
<1>6. /\ Defined(d) \subseteq Defined(c) /\ ReadIn(d) \subseteq ReadIn(c) \cup Defined(c)
      /\ BracketFields(d) \subseteq BracketFields(c)
  BY <1>4, <1>5, WithinIs
<1> QED BY <1>3, <1>6 DEF d

\* So are prepared bands.
LEMMA PreparedBandsApart ==
  ASSUME NEW p \in Programs
  PROVE  BandsApart(p, Prepared(p.control, Retained(p)), Prepared(p.sample, Retained(p)))
<1>1. BandsApart(p, p.control, p.sample)
  BY PlanBandsApart
<1>2. \A c \in {p.control, p.sample} : LET d == Prepared(c, Retained(p)) IN
         /\ Defined(d) \subseteq Defined(c)
         /\ ReadIn(d) \subseteq ReadIn(c) \cup Defined(c) /\ BracketFields(d) \subseteq BracketFields(c)
  BY PreparedShape
<1> DEFINE a == Prepared(p.control, Retained(p))
           b == Prepared(p.sample, Retained(p))
<1>3. /\ Defined(a) \subseteq Defined(p.control) /\ Defined(b) \subseteq Defined(p.sample)
      /\ ReadIn(a) \subseteq ReadIn(p.control) \cup Defined(p.control)
      /\ ReadIn(b) \subseteq ReadIn(p.sample) \cup Defined(p.sample)
      /\ BracketFields(a) \subseteq BracketFields(p.control) /\ BracketFields(b) \subseteq BracketFields(p.sample)
  BY <1>2
<1> HIDE DEF a, b
<1>4. BandsApart(p, a, b)
  BY <1>1, <1>3 DEF BandsApart
<1> QED BY <1>4 DEF a, b

(***************************************************************************)
(* The code of an entry.                                                   *)
(***************************************************************************)

\* What the code of an entry is like, its control part ending at `end'.
EntryOK(p, b, c, end) ==
  /\ Len(c) \in Nat /\ DOMAIN c = 1..Len(c) /\ end \in 0..Len(c)
  /\ \A k \in 1..Len(c) : /\ Shape(c[k]) /\ c[k].dst \in Values(p) \cup {None}
                          /\ Reads(c, k) \subseteq Values(p)
  /\ FieldsIn(c) \subseteq Fields(p)
  /\ DefinesFirst(c, Retained(p)) /\ SingleAssignment(c) /\ Nested(c, end)
  /\ Scoped(c, end, Retained(p)) /\ (b = "sample" => StoresUp(c, end))
  /\ None \notin Values(p) /\ Values(p) \cap Fields(p) = {}

\* Two bands that nest, nest in a row.
LEMMA NestedInARow ==
  ASSUME NEW a, NEW b, NEW c, Stands(a, c, 0, Len(a), TRUE), Stands(b, c, Len(a), Len(a), FALSE),
         Nested(a, 0), Nested(b, 0), BracketFields(a) \cap BracketFields(b) = {}
  PROVE  Nested(c, Len(a))
<1> DEFINE n == Len(a)
           m == Len(b)
<1>1. /\ DOMAIN a = 1..n /\ DOMAIN b = 1..m /\ DOMAIN c = 1..Len(c) /\ n \in Nat /\ m \in Nat /\ Len(c) \in Nat
      /\ \A k \in 1..n : k + 0 \in 1..Len(c) /\ c[k + 0] = a[k] /\ k + 0 <= n
      /\ \A k \in 1..m : k + n \in 1..Len(c) /\ c[k + n] = b[k] /\ ~(k + n <= n)
      /\ \A k \in 1..Len(c) : k <= n => k - 0 \in 1..n
      /\ \A k \in 1..Len(c) : ~(k <= n) => k - n \in 1..m
  BY DEF Stands
<1> HIDE DEF n, m
<1>2. \A k \in 1..n : k \in 1..Len(c) /\ c[k] = a[k] /\ k <= n
  <2>1. \A k \in 1..n : k + 0 = k
    BY <1>1
  <2> QED BY <2>1, <1>1
<1>3. \A k \in 1..Len(c) : k <= n => k \in 1..n /\ c[k] = a[k]
  <2>1. \A k \in 1..Len(c) : k - 0 = k
    BY <1>1
  <2> QED BY <2>1, <1>1, <1>2
<1>4. \A k \in 1..Len(c) : ~(k <= n) => k - n \in 1..m /\ k - n + n = k /\ c[k] = b[k - n]
  <2>1. \A k \in 1..Len(c) : k - n + n = k
    BY <1>1
  <2> QED BY <2>1, <1>1
<1>5. \A x \in Brackets(c) :
        /\ x[1] \in 1..Len(c) /\ x[2] \in 1..Len(c) /\ x = <<x[1], x[2]>>
        /\ \/ x[1] <= n /\ x[2] <= n /\ <<x[1], x[2]>> \in Brackets(a)
              /\ c[x[1]] = a[x[1]] /\ c[x[2]] = a[x[2]]
           \/ ~(x[1] <= n) /\ ~(x[2] <= n) /\ <<x[1] - n, x[2] - n>> \in Brackets(b)
              /\ c[x[1]] = b[x[1] - n] /\ c[x[2]] = b[x[2] - n]
  <2> SUFFICES ASSUME NEW x \in Brackets(c)
               PROVE  /\ x[1] \in 1..Len(c) /\ x[2] \in 1..Len(c) /\ x = <<x[1], x[2]>>
                      /\ \/ x[1] <= n /\ x[2] <= n /\ <<x[1], x[2]>> \in Brackets(a)
                            /\ c[x[1]] = a[x[1]] /\ c[x[2]] = a[x[2]]
                         \/ ~(x[1] <= n) /\ ~(x[2] <= n) /\ <<x[1] - n, x[2] - n>> \in Brackets(b)
                            /\ c[x[1]] = b[x[1] - n] /\ c[x[2]] = b[x[2] - n]
    OBVIOUS
  <2>1. /\ x[1] \in 1..Len(c) /\ x[2] \in 1..Len(c) /\ x = <<x[1], x[2]>>
        /\ c[x[1]].op \in {"guard", "loop"} /\ c[x[2]].op \in {"endguard", "endloop"}
        /\ c[x[1]].field = c[x[2]].field
    BY <1>1 DEF Brackets
  <2> DEFINE i == x[1]
             j == x[2]
  <2> HIDE DEF i, j
  <2>2. /\ i \in 1..Len(c) /\ j \in 1..Len(c) /\ c[i].field = c[j].field
        /\ c[i].op \in {"guard", "loop"} /\ c[j].op \in {"endguard", "endloop"}
    BY <2>1 DEF i, j
  <2>3. \A u \in 1..n, v \in 1..m : a[u].op \in Bracketing /\ b[v].op \in Bracketing => a[u].field # b[v].field
    BY <1>1 DEF BracketFields
  <2>4. CASE i <= n /\ j <= n
    <3>1. i \in DOMAIN a /\ j \in DOMAIN a /\ c[i] = a[i] /\ c[j] = a[j]
      BY <2>2, <2>4, <1>1, <1>3
    <3>2. <<i, j>> \in Brackets(a)
      BY <3>1, <2>2 DEF Brackets
    <3> QED BY <2>1, <2>4, <3>1, <3>2 DEF i, j
  <2>5. CASE ~(i <= n) /\ ~(j <= n)
    <3>1. i - n \in DOMAIN b /\ j - n \in DOMAIN b /\ c[i] = b[i - n] /\ c[j] = b[j - n]
      BY <2>2, <2>5, <1>1, <1>4
    <3>2. <<i - n, j - n>> \in Brackets(b)
      BY <3>1, <2>2 DEF Brackets
    <3> QED BY <2>1, <2>5, <3>1, <3>2 DEF i, j
  <2>6. CASE i <= n /\ ~(j <= n)
    <3>1. i \in 1..n /\ j - n \in 1..m /\ c[i] = a[i] /\ c[j] = b[j - n]
      BY <2>2, <2>6, <1>3, <1>4
    <3> QED BY <3>1, <2>2, <2>3 DEF Bracketing
  <2>7. CASE ~(i <= n) /\ j <= n
    <3>1. j \in 1..n /\ i - n \in 1..m /\ c[j] = a[j] /\ c[i] = b[i - n]
      BY <2>2, <2>7, <1>3, <1>4
    <3> QED BY <3>1, <2>2, <2>3 DEF Bracketing
  <2> QED BY <2>4, <2>5, <2>6, <2>7
<1>6. \A x : x \in Brackets(a) =>
        /\ x[1] \in 1..n /\ x[2] \in 1..n /\ <<x[1], x[2]>> \in Brackets(c) /\ x = <<x[1], x[2]>>
  <2> SUFFICES ASSUME NEW x, x \in Brackets(a)
               PROVE  x[1] \in 1..n /\ x[2] \in 1..n /\ <<x[1], x[2]>> \in Brackets(c) /\ x = <<x[1], x[2]>>
    OBVIOUS
  <2>1. /\ x[1] \in 1..n /\ x[2] \in 1..n /\ x = <<x[1], x[2]>>
        /\ a[x[1]].op \in {"guard", "loop"} /\ a[x[2]].op \in {"endguard", "endloop"}
        /\ a[x[1]].field = a[x[2]].field
    BY <1>1 DEF Brackets
  <2>2. /\ x[1] \in DOMAIN c /\ x[2] \in DOMAIN c /\ c[x[1]] = a[x[1]] /\ c[x[2]] = a[x[2]]
    BY <2>1, <1>1, <1>2
  <2> QED BY <2>1, <2>2 DEF Brackets
<1>7. \A x : x \in Brackets(b) =>
        /\ x[1] \in 1..m /\ x[2] \in 1..m /\ <<x[1] + n, x[2] + n>> \in Brackets(c) /\ x = <<x[1], x[2]>>
  <2> SUFFICES ASSUME NEW x, x \in Brackets(b)
               PROVE  /\ x[1] \in 1..m /\ x[2] \in 1..m /\ <<x[1] + n, x[2] + n>> \in Brackets(c)
                      /\ x = <<x[1], x[2]>>
    OBVIOUS
  <2>1. /\ x[1] \in 1..m /\ x[2] \in 1..m /\ x = <<x[1], x[2]>>
        /\ b[x[1]].op \in {"guard", "loop"} /\ b[x[2]].op \in {"endguard", "endloop"}
        /\ b[x[1]].field = b[x[2]].field
    BY <1>1 DEF Brackets
  <2>2. /\ x[1] + n \in DOMAIN c /\ x[2] + n \in DOMAIN c /\ c[x[1] + n] = b[x[1]] /\ c[x[2] + n] = b[x[2]]
    BY <2>1, <1>1
  <2> QED BY <2>1, <2>2 DEF Brackets
<1>8. ASSUME NEW k \in 1..Len(c)
      PROVE  /\ c[k].op \in {"guard", "loop"} => \E j \in 1..Len(c) : <<k, j>> \in Brackets(c)
             /\ c[k].op \in {"endguard", "endloop"} => \E j \in 1..Len(c) : <<j, k>> \in Brackets(c)
  <2>1. CASE k <= n
    <3>1. k \in DOMAIN a /\ c[k] = a[k]
      BY <2>1, <1>1, <1>3
    <3>2. ASSUME c[k].op \in {"guard", "loop"} PROVE \E j \in 1..Len(c) : <<k, j>> \in Brackets(c)
      <4>1. PICK j \in DOMAIN a : <<k, j>> \in Brackets(a)
        BY <3>1, <3>2 DEF Nested
      <4>2. <<k, j>> \in Brackets(c)
        BY <4>1, <1>6
      <4> QED BY <4>1, <4>2, <1>1, <1>2
    <3>3. ASSUME c[k].op \in {"endguard", "endloop"} PROVE \E j \in 1..Len(c) : <<j, k>> \in Brackets(c)
      <4>1. PICK j \in DOMAIN a : <<j, k>> \in Brackets(a)
        BY <3>1, <3>3 DEF Nested
      <4>2. <<j, k>> \in Brackets(c)
        BY <4>1, <1>6
      <4> QED BY <4>1, <4>2, <1>1, <1>2
    <3> QED BY <3>2, <3>3
  <2>2. CASE ~(k <= n)
    <3>1. k - n \in DOMAIN b /\ c[k] = b[k - n] /\ k - n + n = k
      BY <2>2, <1>1, <1>4
    <3>2. ASSUME c[k].op \in {"guard", "loop"} PROVE \E j \in 1..Len(c) : <<k, j>> \in Brackets(c)
      <4>1. PICK j \in DOMAIN b : <<k - n, j>> \in Brackets(b)
        BY <3>1, <3>2 DEF Nested
      <4>2. <<k, j + n>> \in Brackets(c)
        BY <4>1, <3>1, <1>7
      <4> QED BY <4>1, <4>2, <1>1
    <3>3. ASSUME c[k].op \in {"endguard", "endloop"} PROVE \E j \in 1..Len(c) : <<j, k>> \in Brackets(c)
      <4>1. PICK j \in DOMAIN b : <<j, k - n>> \in Brackets(b)
        BY <3>1, <3>3 DEF Nested
      <4>2. <<j + n, k>> \in Brackets(c)
        BY <4>1, <3>1, <1>7
      <4> QED BY <4>1, <4>2, <1>1
    <3> QED BY <3>2, <3>3
  <2> QED BY <2>1, <2>2
<1>9. \A x \in Brackets(c) : /\ x[1] < x[2] /\ (x[1] <= n <=> x[2] <= n)
                             /\ (c[x[1]].op = "guard" <=> c[x[2]].op = "endguard")
  <2> SUFFICES ASSUME NEW x \in Brackets(c)
               PROVE  /\ x[1] < x[2] /\ (x[1] <= n <=> x[2] <= n)
                      /\ (c[x[1]].op = "guard" <=> c[x[2]].op = "endguard")
    OBVIOUS
  <2> DEFINE i == x[1]
             j == x[2]
             s == <<i, j>>
             t == <<i - n, j - n>>
  <2>1. /\ i \in 1..Len(c) /\ j \in 1..Len(c)
        /\ \/ i <= n /\ j <= n /\ s \in Brackets(a) /\ c[i] = a[i] /\ c[j] = a[j]
           \/ ~(i <= n) /\ ~(j <= n) /\ t \in Brackets(b) /\ c[i] = b[i - n] /\ c[j] = b[j - n]
    BY <1>5
  <2> HIDE DEF i, j
  <2>2. s \in Brackets(a) => i < j /\ (a[i].op = "guard" <=> a[j].op = "endguard")
    <3>1. s[1] = i /\ s[2] = j
      OBVIOUS
    <3> HIDE DEF s
    <3> QED BY <3>1 DEF Nested
  <2>3. t \in Brackets(b) => i - n < j - n /\ (b[i - n].op = "guard" <=> b[j - n].op = "endguard")
    <3>1. t[1] = i - n /\ t[2] = j - n
      OBVIOUS
    <3> HIDE DEF t
    <3> QED BY <3>1 DEF Nested
  <2>4. i - n < j - n => i < j
    BY <2>1, <1>1
  <2> HIDE DEF s, t
  <2>5. i < j /\ (i <= n <=> j <= n) /\ (c[i].op = "guard" <=> c[j].op = "endguard")
    BY <2>1, <2>2, <2>3, <2>4
  <2> QED BY <2>5 DEF i, j
<1>10. \A x, y \in Brackets(c) :
         x = y \/ x[2] < y[1] \/ y[2] < x[1] \/ (x[1] < y[1] /\ y[2] < x[2]) \/ (y[1] < x[1] /\ x[2] < y[2])
  <2> SUFFICES ASSUME NEW x \in Brackets(c), NEW y \in Brackets(c)
               PROVE  x = y \/ x[2] < y[1] \/ y[2] < x[1] \/ (x[1] < y[1] /\ y[2] < x[2])
                        \/ (y[1] < x[1] /\ x[2] < y[2])
    OBVIOUS
  <2> DEFINE i == x[1]
             j == x[2]
             k == y[1]
             o == y[2]
  <2>1. /\ i \in 1..Len(c) /\ j \in 1..Len(c) /\ k \in 1..Len(c) /\ o \in 1..Len(c)
        /\ x = <<i, j>> /\ y = <<k, o>>
        /\ \/ i <= n /\ j <= n /\ <<i, j>> \in Brackets(a)
           \/ ~(i <= n) /\ ~(j <= n) /\ <<i - n, j - n>> \in Brackets(b)
        /\ \/ k <= n /\ o <= n /\ <<k, o>> \in Brackets(a)
           \/ ~(k <= n) /\ ~(o <= n) /\ <<k - n, o - n>> \in Brackets(b)
    BY <1>5
  <2> HIDE DEF i, j, k, o
  <2>2. CASE <<i, j>> \in Brackets(a) /\ <<k, o>> \in Brackets(a)
    <3> DEFINE s == <<i, j>>
               t == <<k, o>>
    <3>1. s[1] = i /\ s[2] = j /\ t[1] = k /\ t[2] = o /\ s \in Brackets(a) /\ t \in Brackets(a)
      BY <2>2
    <3>2. s = t => i = k /\ j = o
      OBVIOUS
    <3> HIDE DEF s, t
    <3>3. \/ (i = k /\ j = o) \/ j < k \/ o < i \/ (i < k /\ o < j) \/ (k < i /\ j < o)
      BY <3>1, <3>2 DEF Nested
    <3> QED BY <3>3, <2>1 DEF i, j, k, o
  <2>3. CASE <<i - n, j - n>> \in Brackets(b) /\ <<k - n, o - n>> \in Brackets(b)
    <3> DEFINE s == <<i - n, j - n>>
               t == <<k - n, o - n>>
    <3>1. s[1] = i - n /\ s[2] = j - n /\ t[1] = k - n /\ t[2] = o - n /\ s \in Brackets(b) /\ t \in Brackets(b)
      BY <2>3
    <3>2. s = t => i - n = k - n /\ j - n = o - n
      OBVIOUS
    <3> HIDE DEF s, t
    <3>3. \/ (i - n = k - n /\ j - n = o - n) \/ j - n < k - n \/ o - n < i - n
          \/ (i - n < k - n /\ o - n < j - n) \/ (k - n < i - n /\ j - n < o - n)
      BY <3>1, <3>2 DEF Nested
    <3>4. \/ (i = k /\ j = o) \/ j < k \/ o < i \/ (i < k /\ o < j) \/ (k < i /\ j < o)
      BY <3>3, <2>1, <1>1
    <3> QED BY <3>4, <2>1 DEF i, j, k, o
  <2>4. CASE j <= n /\ ~(k <= n)
    <3>1. j < k
      BY <2>1, <2>4, <1>1
    <3> QED BY <3>1 DEF j, k
  <2>5. CASE o <= n /\ ~(i <= n)
    <3>1. o < i
      BY <2>1, <2>5, <1>1
    <3> QED BY <3>1 DEF i, o
  <2> QED BY <2>1, <2>2, <2>3, <2>4, <2>5
<1> QED BY <1>1, <1>8, <1>9, <1>10 DEF Nested, n

\* What lowering makes for an entry without a control part is the entry's code.
LEMMA InitShape ==
  ASSUME NEW p \in Programs
  PROVE  EntryOK(p, "init", EntryCode(p, "init"), EntryControl(p, "init"))
<1> DEFINE c == p.init
<1>1. /\ c \in Seq(Instructions(p)) /\ None \notin Values(p) /\ Values(p) \cap Fields(p) = {}
      /\ \A k \in DOMAIN c : Shape(c[k])
      /\ DefinesFirst(c, Retained(p)) /\ SingleAssignment(c) /\ Nested(c, 0) /\ Scoped(c, 0, Retained(p))
  BY ProgramsAssumption DEF Lowered, LoweredControl
<1>2. FieldsIn(c) \subseteq Fields(p)
  BY DEF Fields
<1>3. EntryCode(p, "init") = c /\ EntryControl(p, "init") = 0
  BY DEF EntryCode, EntryControl
<1> HIDE DEF c
<1>4. Len(c) \in Nat /\ DOMAIN c = 1..Len(c) /\ 0 \in 0..Len(c)
  BY <1>1
<1>5. ASSUME NEW k \in 1..Len(c)
      PROVE  c[k].dst \in Values(p) \cup {None} /\ Reads(c, k) \subseteq Values(p)
  <2>1. c[k] \in Instructions(p)
    BY <1>1, <1>4
  <2>2. c[k].dst \in Values(p) \cup {None} /\ c[k].args \in Seq(Values(p))
    BY <2>1 DEF Instructions
  <2>3. Reads(c, k) \subseteq Values(p)
    BY <2>2 DEF Reads, ToSet
  <2> QED BY <2>2, <2>3
<1> QED BY <1>1, <1>2, <1>3, <1>4, <1>5 DEF EntryOK

\* The control and the sample band, prepared and in a row.
LEMMA SampleShape ==
  ASSUME NEW p \in Programs
  PROVE  EntryOK(p, "sample", EntryCode(p, "sample"), EntryControl(p, "sample"))
<1> DEFINE R == Retained(p)
           a == Prepared(p.control, R)
           b == Prepared(p.sample, R)
           c == a \o b
           n == Len(a)
           m == Len(b)
<1>1. ReadyShape(p, a) /\ ReadyShape(p, b) /\ BandsApart(p, a, b)
  BY PreparedShape, PreparedBandsApart
<1>2. EntryCode(p, "sample") = c /\ EntryControl(p, "sample") = n
  BY DEF EntryCode, EntryControl
<1>3. Stands(a, c, 0, n, TRUE) /\ Stands(b, c, n, n, FALSE)
  <2>1. IsSequence(a) /\ IsSequence(b)
    BY <1>1 DEF ReadyShape, InstructionsOK
  <2> HIDE DEF a, b
  <2> QED BY <2>1, BothStand
<1> HIDE DEF a, b, c, R
<1>4. Nested(c, n)
  BY <1>1, <1>3, NestedInARow DEF ReadyShape, BandsApart
<1>5. /\ DOMAIN a = 1..n /\ DOMAIN b = 1..m /\ DOMAIN c = 1..Len(c) /\ n \in Nat /\ m \in Nat /\ Len(c) \in Nat
      /\ \A k \in 1..n : k + 0 \in 1..Len(c) /\ c[k + 0] = a[k] /\ k + 0 <= n
      /\ \A k \in 1..m : k + n \in 1..Len(c) /\ c[k + n] = b[k] /\ ~(k + n <= n)
      /\ \A k \in 1..Len(c) : k <= n => k - 0 \in 1..n
      /\ \A k \in 1..Len(c) : ~(k <= n) => k - n \in 1..m
  BY <1>3 DEF Stands
<1> HIDE DEF n, m
<1>6. \A k \in 1..n : k \in 1..Len(c) /\ c[k] = a[k] /\ k <= n /\ Reads(c, k) = Reads(a, k)
  <2>1. \A k \in 1..n : k + 0 = k
    BY <1>5
  <2> QED BY <2>1, <1>5 DEF Reads
<1>7. \A k \in 1..m : /\ k + n \in 1..Len(c) /\ c[k + n] = b[k] /\ ~(k + n <= n)
                      /\ Reads(c, k + n) = Reads(b, k)
  BY <1>5 DEF Reads
<1>8. \A k \in 1..Len(c) : k <= n => k \in 1..n
  <2>1. \A k \in 1..Len(c) : k - 0 = k
    BY <1>5
  <2> QED BY <2>1, <1>5
<1>9. \A k \in 1..Len(c) : ~(k <= n) => k - n \in 1..m /\ k - n + n = k
  <2>1. \A k \in 1..Len(c) : k - n + n = k
    BY <1>5
  <2> QED BY <2>1, <1>5
<1>10. ASSUME NEW k \in 1..Len(c)
       PROVE  \/ k <= n /\ k \in 1..n /\ c[k] = a[k] /\ Reads(c, k) = Reads(a, k)
              \/ /\ ~(k <= n) /\ k - n \in 1..m /\ k - n + n = k /\ c[k] = b[k - n]
                 /\ Reads(c, k) = Reads(b, k - n)
  <2>1. CASE k <= n
    BY <2>1, <1>6, <1>8
  <2>2. CASE ~(k <= n)
    <3>1. k - n \in 1..m /\ k - n + n = k
      BY <2>2, <1>9
    <3>2. c[k - n + n] = b[k - n] /\ Reads(c, k - n + n) = Reads(b, k - n)
      BY <3>1, <1>7
    <3> QED BY <2>2, <3>1, <3>2
  <2> QED BY <2>1, <2>2
<1>11. /\ \A k \in 1..n : /\ Shape(a[k]) /\ a[k].dst \in Values(p) \cup {None} /\ Reads(a, k) \subseteq Values(p)
                          /\ a[k].op \in {"load", "store", "loadAt", "storeAt"} => a[k].field \in Fields(p)
                          /\ a[k].op # "loop"
       /\ \A k \in 1..m : /\ Shape(b[k]) /\ b[k].dst \in Values(p) \cup {None} /\ Reads(b, k) \subseteq Values(p)
                          /\ b[k].op \in {"load", "store", "loadAt", "storeAt"} => b[k].field \in Fields(p)
                          /\ b[k].op # "loop"
       /\ None \notin Values(p) /\ Values(p) \cap Fields(p) = {}
  <2>1. \A d : InstructionsOK(p, d) =>
          \A k \in 1..Len(d) : /\ Shape(d[k]) /\ d[k].dst \in Values(p) \cup {None}
                               /\ Reads(d, k) \subseteq Values(p)
                               /\ d[k].op \in {"load", "store", "loadAt", "storeAt"} => d[k].field \in Fields(p)
                               /\ d[k].op # "loop"
    BY DEF InstructionsOK, Reads, ToSet
  <2>2. InstructionsOK(p, a) /\ InstructionsOK(p, b)
    BY <1>1 DEF ReadyShape
  <2>3. None \notin Values(p) /\ Values(p) \cap Fields(p) = {}
    BY <2>2 DEF InstructionsOK, Items
  <2> QED BY <2>1, <2>2, <2>3 DEF n, m
<1>12. \A k \in 1..Len(c) : /\ Shape(c[k]) /\ c[k].dst \in Values(p) \cup {None} /\ Reads(c, k) \subseteq Values(p)
                            /\ c[k].op \in {"load", "store", "loadAt", "storeAt"} => c[k].field \in Fields(p)
                            /\ c[k].op # "loop"
  <2> SUFFICES ASSUME NEW k \in 1..Len(c)
               PROVE  /\ Shape(c[k]) /\ c[k].dst \in Values(p) \cup {None} /\ Reads(c, k) \subseteq Values(p)
                      /\ c[k].op \in {"load", "store", "loadAt", "storeAt"} => c[k].field \in Fields(p)
                      /\ c[k].op # "loop"
    OBVIOUS
  <2> QED BY <1>10, <1>11
<1>13. FieldsIn(c) \subseteq Fields(p)
  BY <1>12, <1>5 DEF FieldsIn, Accesses
<1>14. DefinesFirst(c, R)
  <2> SUFFICES ASSUME NEW k \in 1..Len(c), NEW x \in Reads(c, k) \ R PROVE \E j \in 1..(k - 1) : c[j].dst = x
    BY <1>5 DEF DefinesFirst
  <2>1. CASE k <= n /\ k \in 1..n /\ Reads(c, k) = Reads(a, k)
    <3>1. PICK j \in 1..(k - 1) : a[j].dst = x
      BY <2>1, <1>1, <1>5 DEF ReadyShape, DefinesFirst, R
    <3>2. j \in 1..n
      BY <3>1, <2>1, <1>5
    <3> QED BY <3>1, <3>2, <1>6
  <2>2. CASE ~(k <= n) /\ k - n \in 1..m /\ k - n + n = k /\ Reads(c, k) = Reads(b, k - n)
    <3>1. PICK j \in 1..(k - n - 1) : b[j].dst = x
      BY <2>2, <1>1, <1>5 DEF ReadyShape, DefinesFirst, R
    <3>2. j \in 1..m /\ j + n \in 1..(k - 1)
      BY <3>1, <2>2, <1>5
    <3> QED BY <3>1, <3>2, <1>7
  <2> QED BY <2>1, <2>2, <1>10
<1>15. /\ \A x \in Defined(a) : x \notin Defined(b) /\ (x \in ReadIn(b) => x \in R)
       /\ \A x \in Defined(b) : x \notin ReadIn(a)
  BY <1>1 DEF BandsApart, R
<1>16. /\ \A k \in 1..n : /\ a[k].dst # None => a[k].dst \in Defined(a)
                          /\ \A x \in Reads(a, k) : x \in ReadIn(a)
       /\ \A k \in 1..m : /\ b[k].dst # None => b[k].dst \in Defined(b)
                          /\ \A x \in Reads(b, k) : x \in ReadIn(b)
  BY <1>5 DEF Defined, ReadIn
<1>17. SingleAssignment(c)
  <2> SUFFICES ASSUME NEW j \in 1..Len(c), NEW k \in 1..Len(c), c[j].dst # None
               PROVE  (c[j].dst = c[k].dst => j = k) /\ (c[j].dst \in Reads(c, k) => j < k)
    BY <1>5 DEF SingleAssignment
  <2>1. CASE j <= n /\ k <= n
    <3>1. j \in DOMAIN a /\ k \in DOMAIN a /\ c[j] = a[j] /\ c[k] = a[k] /\ Reads(c, k) = Reads(a, k)
      BY <2>1, <1>5, <1>10
    <3> QED BY <3>1, <1>1 DEF ReadyShape, SingleAssignment
  <2>2. CASE ~(j <= n) /\ ~(k <= n)
    <3>1. /\ j - n \in DOMAIN b /\ k - n \in DOMAIN b /\ c[j] = b[j - n] /\ c[k] = b[k - n]
          /\ Reads(c, k) = Reads(b, k - n)
      BY <2>2, <1>5, <1>10
    <3>2. (c[j].dst = c[k].dst => j - n = k - n) /\ (c[j].dst \in Reads(c, k) => j - n < k - n)
      BY <3>1, <1>1 DEF ReadyShape, SingleAssignment
    <3> QED BY <3>2, <1>5
  <2>3. CASE j <= n /\ ~(k <= n)
    <3>1. /\ j \in 1..n /\ k - n \in 1..m /\ c[j] = a[j] /\ c[k] = b[k - n] /\ j < k
      BY <2>3, <1>5, <1>10
    <3>2. c[j].dst # c[k].dst
      BY <3>1, <1>15, <1>16
    <3> QED BY <3>1, <3>2
  <2>4. CASE ~(j <= n) /\ k <= n
    <3>1. /\ k \in 1..n /\ j - n \in 1..m /\ c[k] = a[k] /\ c[j] = b[j - n] /\ Reads(c, k) = Reads(a, k)
      BY <2>4, <1>10
    <3>2. c[j].dst # c[k].dst /\ c[j].dst \notin Reads(c, k)
      BY <3>1, <1>15, <1>16
    <3> QED BY <3>2
  <2> QED BY <2>1, <2>2, <2>3, <2>4
<1>18. ASSUME NEW j \in 1..Len(c), Guarded(c, j) PROVE c[j].dst \in R \cup {None}
  <2>1. PICK g \in 1..Len(c), h \in 1..Len(c) :
          c[g].op = "guard" /\ c[h].op = "endguard" /\ c[g].field = c[h].field /\ g < j /\ j < h
    BY <1>5, <1>18 DEF Guarded
  <2>2. g <= n <=> h <= n
    <3> DEFINE x == <<g, h>>
    <3>1. x \in Brackets(c) /\ x[1] = g /\ x[2] = h
      BY <2>1, <1>5 DEF Brackets
    <3> HIDE DEF x
    <3> QED BY <3>1, <1>4 DEF Nested
  <2>3. CASE g <= n
    <3>1. j <= n /\ h <= n
      BY <2>1, <2>2, <2>3, <1>5
    <3>2. /\ g \in DOMAIN a /\ h \in DOMAIN a /\ j \in 1..n /\ c[g] = a[g] /\ c[h] = a[h] /\ c[j] = a[j]
      BY <2>3, <3>1, <1>5, <1>10
    <3>3. Guarded(a, j)
      BY <2>1, <3>2 DEF Guarded
    <3> QED BY <3>2, <3>3, <1>1 DEF ReadyShape, n, R
  <2>4. CASE ~(g <= n)
    <3>1. ~(j <= n) /\ ~(h <= n)
      BY <2>1, <2>2, <2>4, <1>5
    <3>2. /\ g - n \in DOMAIN b /\ h - n \in DOMAIN b /\ j - n \in 1..m
          /\ c[g] = b[g - n] /\ c[h] = b[h - n] /\ c[j] = b[j - n]
      BY <2>4, <3>1, <1>5, <1>10
    <3>3. g - n < j - n /\ j - n < h - n
      BY <2>1, <1>5
    <3>4. Guarded(b, j - n)
      BY <2>1, <3>2, <3>3 DEF Guarded
    <3> QED BY <3>2, <3>4, <1>1 DEF ReadyShape, m, R
  <2> QED BY <2>3, <2>4
<1>19. Scoped(c, n, R)
  <2>1. LoopsOf(c) = {}
    BY <1>5, <1>12 DEF LoopsOf
  <2> SUFFICES ASSUME NEW j \in 1..Len(c), c[j].dst \notin R \cup {None}
               PROVE  /\ ~Guarded(c, j)
                      /\ \A k \in 1..Len(c) : c[j].dst \in Reads(c, k) /\ j <= n => k <= n
    BY <2>1, <1>5 DEF Scoped
  <2>2. ~Guarded(c, j)
    BY <1>18
  <2>3. ASSUME NEW k \in 1..Len(c), c[j].dst \in Reads(c, k), j <= n, ~(k <= n) PROVE FALSE
    <3>1. j \in 1..n /\ c[j] = a[j] /\ k - n \in 1..m /\ Reads(c, k) = Reads(b, k - n)
      BY <2>3, <1>10
    <3>2. c[j].dst \in Defined(a) /\ c[j].dst \in ReadIn(b)
      BY <2>3, <3>1, <1>16
    <3> QED BY <3>2, <1>15
  <2> QED BY <2>2, <2>3
<1>20. StoresUp(c, n)
  <2> SUFFICES ASSUME NEW k \in 1..Len(c), NEW s \in 1..Len(c), c[s].op = "store", k < s, k <= n => s <= n
               PROVE  /\ c[k].op = "store" \/ \E q \in k..(s - 1) : Blocks(c, q, s)
                      /\ (\A q \in k..s : c[q].op = "store") => c[k].field # c[s].field
    BY <1>5 DEF StoresUp
  <2>1. CASE k <= n
    <3>1. s <= n
      BY <2>1
    <3>2. /\ k \in DOMAIN a /\ s \in DOMAIN a /\ c[k] = a[k] /\ c[s] = a[s] /\ Reads(c, s) = Reads(a, s)
      BY <2>1, <3>1, <1>5, <1>10
    <3>3. ~(k <= 0)
      BY <1>5
    <3>4. /\ a[k].op = "store" \/ \E q \in k..(s - 1) : Blocks(a, q, s)
          /\ (\A q \in k..s : a[q].op = "store") => a[k].field # a[s].field
      BY <3>2, <3>3, <1>1 DEF ReadyShape, StoresUp
    <3>5. \A q \in k..s : q \in DOMAIN a /\ q \in DOMAIN c /\ c[q] = a[q]
      <4>1. \A q \in k..s : q \in 1..n
        BY <3>2, <1>5
      <4> QED BY <4>1, <1>5, <1>6
    <3>6. \A q \in k..(s - 1) : Blocks(a, q, s) => Blocks(c, q, s)
      <4>1. \A q \in k..(s - 1) : q \in k..s
        BY <1>5
      <4> QED BY <4>1, <3>2, <3>5 DEF Blocks, Accesses
    <3> QED BY <3>2, <3>4, <3>5, <3>6
  <2>2. CASE ~(k <= n)
    <3>1. ~(s <= n)
      BY <2>2, <1>5
    <3>2. /\ k - n \in DOMAIN b /\ s - n \in DOMAIN b /\ c[k] = b[k - n] /\ c[s] = b[s - n]
          /\ Reads(c, s) = Reads(b, s - n)
      BY <2>2, <3>1, <1>5, <1>10
    <3>3. ~(k - n <= 0) /\ k - n < s - n
      BY <2>2, <1>5
    <3>4. /\ b[k - n].op = "store" \/ \E q \in (k - n)..(s - n - 1) : Blocks(b, q, s - n)
          /\ (\A q \in (k - n)..(s - n) : b[q].op = "store") => b[k - n].field # b[s - n].field
      BY <3>2, <3>3, <1>1 DEF ReadyShape, StoresUp
    <3>5. \A q \in (k - n)..(s - n) : /\ q \in DOMAIN b /\ q + n \in DOMAIN c /\ c[q + n] = b[q]
                                      /\ q + n \in k..s
      <4>1. \A q \in (k - n)..(s - n) : q \in 1..m /\ q + n \in k..s
        BY <3>2, <1>5
      <4> QED BY <4>1, <1>5, <1>7
    <3>6. \A q \in (k - n)..(s - n - 1) : Blocks(b, q, s - n) => Blocks(c, q + n, s) /\ q + n \in k..(s - 1)
      <4>1. \A q \in (k - n)..(s - n - 1) : q \in (k - n)..(s - n) /\ q + n \in k..(s - 1)
        BY <1>5
      <4> QED BY <4>1, <3>2, <3>5 DEF Blocks, Accesses
    <3>7. c[k].op = "store" \/ \E q \in k..(s - 1) : Blocks(c, q, s)
      BY <3>2, <3>4, <3>6
    <3>8. (\A q \in k..s : c[q].op = "store") => \A q \in (k - n)..(s - n) : b[q].op = "store"
      BY <3>5
    <3> QED BY <3>2, <3>4, <3>7, <3>8
  <2> QED BY <2>1, <2>2
<1>21. n \in 0..Len(c)
  <2>1. CASE n = 0
    BY <2>1, <1>5
  <2>2. CASE n # 0
    BY <2>2, <1>5, <1>6
  <2> QED BY <2>1, <2>2
<1> QED BY <1>2, <1>4, <1>5, <1>11, <1>12, <1>13, <1>14, <1>17, <1>19, <1>20, <1>21 DEF EntryOK, R

\* The code of every entry is as the plans' assumption makes it.
LEMMA EntryShape ==
  ASSUME NEW p \in Programs, NEW b \in {"init", "sample"}
  PROVE  EntryOK(p, b, EntryCode(p, b), EntryControl(p, b))
BY InitShape, SampleShape

\* Preparing a band of a plan keeps what it does.
LEMMA PreparedKeepsMeaning ==
  ASSUME NEW p \in Programs, NEW c \in {p.control, p.sample}, NEW taken
  PROVE  LET does(d) == Effect(d, taken, Items(p), Retained(p) \cup Fields(p))
         IN  does(Prepared(c, Retained(p))) = does(c)
<1> DEFINE f == Forwarded(c, Retained(p))
           d == Prepared(c, Retained(p))
           lasting == Retained(p) \cup Fields(p)
<1>1. BandOK(p, c)
  BY BandIsOK
<1>2. InstructionsOK(p, f) /\ Effect(f, taken, Items(p), lasting) = Effect(c, taken, Items(p), lasting)
  BY <1>1, ForwardedIsOK, ForwardedMeansSame
<1>3. d = Hoisted(f)
  BY DEF Prepared
<1> HIDE DEF f, d, lasting
<1>4. After(d, taken, Items(p)) = After(f, taken, Items(p))
  BY <1>2, <1>3, HoistedMeansSame
<1>5. Effect(d, taken, Items(p), lasting) = Effect(f, taken, Items(p), lasting)
  BY <1>4 DEF Effect, After
<1> QED BY <1>2, <1>5 DEF d, lasting
=============================================================================
