------------------------------ MODULE Prepare -------------------------------
(***************************************************************************)
(* How the ARM64 back end prepares a band of a plan before it allocates    *)
(* registers (the constructor of Emit): loads are answered by an earlier   *)
(* load or store of the same cell, and stores move up to the earliest      *)
(* place that nothing they depend on forbids.  RegisterLayout decides      *)
(* which values outlive a call.                                            *)
(*                                                                         *)
(* An instruction is [op, args, dst, field].  Only real operands are kept: *)
(* selectors, guards, loop counters and indices are integers and live in   *)
(* registers of their own.  A field is one cell; "load" and "store" have a *)
(* constant index, "loadAt" and "storeAt" an index known only when they    *)
(* run (or a widget), taken to hit the cell.                               *)
(***************************************************************************)
EXTENDS Integers, SequencesExt

CONSTANT None  \* no value, no field, no register

Instr(op, args, dst, field) == [op |-> op, args |-> args, dst |-> dst, field |-> field]

Arith(x, a, b)  == Instr("arith", <<a, b>>, x, None)   \* BinOp: + - * /
Least(x, a, b)  == Instr("min", <<a, b>>, x, None)     \* Extended, no call
Select(x, a, b) == Instr("select", <<a, b>>, x, None)  \* Select3 of a, b, b
Math(x, a)      == Instr("math", <<a>>, x, None)       \* Extended, a call
Math2(x, a, b)  == Instr("math", <<a, b>>, x, None)
Foreign(x, a)   == Instr("foreign", <<a>>, x, None)    \* FFun
Input(x)        == Instr("input", <<>>, x, None)
Output(a)       == Instr("output", <<a>>, None, None)
Load(x, f)      == Instr("load", <<>>, x, f)
Store(f, a)     == Instr("store", <<a>>, None, f)
LoadAt(x, f)    == Instr("loadAt", <<>>, x, f)
StoreAt(f, a)   == Instr("storeAt", <<a>>, None, f)
GuardBegin(g)   == Instr("guard", <<>>, None, g)
GuardEnd(g)     == Instr("endguard", <<>>, None, g)
LoopBegin(l)    == Instr("loop", <<>>, None, l)
LoopEnd(l)      == Instr("endloop", <<>>, None, l)

Reads(code, k)  == ToSet(code[k].args)
Defined(code)   == {code[k].dst : k \in DOMAIN code} \ {None}
ReadIn(code)    == UNION {Reads(code, k) : k \in DOMAIN code}
Accesses(code)  == {k \in DOMAIN code : code[k].op \in {"load", "store", "loadAt", "storeAt"}}

\* Is instruction k between the begin and the end of a guard?
Guarded(code, k) ==
  \E i, j \in DOMAIN code : /\ code[i].op = "guard" /\ code[j].op = "endguard"
                            /\ code[i].field = code[j].field /\ i < k /\ k < j

(***************************************************************************)
(* RegisterLayout.                                                         *)
(***************************************************************************)

\* Values that keep a slot across calls: another band reads them, or a guard
\* may skip their definition.
Retained(p) ==
  LET GuardedIn(code) == {code[k].dst : k \in {i \in DOMAIN code : Guarded(code, i)}} \ {None}
  IN  (Defined(p.init) \cap (ReadIn(p.control) \cup ReadIn(p.sample)))
        \cup (Defined(p.control) \cap ReadIn(p.sample))
        \cup GuardedIn(p.init) \cup GuardedIn(p.control) \cup GuardedIn(p.sample)

(***************************************************************************)
(* Forwarding.                                                             *)
(***************************************************************************)

NoEntries == [x \in {} |-> None]
Entry(m, x) == IF x \in DOMAIN m THEN m[x] ELSE x
With(m, x, y) == [k \in DOMAIN m \cup {x} |-> IF k = x THEN y ELSE m[k]]
Without(m, x) == [k \in DOMAIN m \ {x} |-> m[k]]

\* Mutant: what a field held before a guard is still known after it.
KnownThrough(known, i, kept) ==
  CASE i.op = "store"   -> With(known, i.field, i.args[1])
    [] i.op = "storeAt" -> Without(known, i.field)
    [] i.op = "load" /\ (i.field \notin DOMAIN known \/ i.dst \in kept)
                        -> With(known, i.field, i.dst)
    [] OTHER -> known

\* The value each cell is known to hold after i; i's operands are renamed.
Known(known, i, kept) ==
  CASE i.op \in {"guard", "endguard"} -> NoEntries
    [] i.op = "store"   -> With(known, i.field, i.args[1])
    [] i.op = "storeAt" -> Without(known, i.field)
    [] i.op = "load" /\ (i.field \notin DOMAIN known \/ i.dst \in kept)
                        -> With(known, i.field, i.dst)
    [] OTHER -> known

Renamed(i, alias) == [i EXCEPT !.args = [k \in DOMAIN i.args |-> Entry(alias, i.args[k])]]

ForwardOne(acc, original, kept) ==
  LET i == Renamed(original, acc.alias)
      redundant == i.op = "load" /\ i.field \in DOMAIN acc.known /\ i.dst \notin kept
  IN  [known |-> Known(acc.known, i, kept),
       alias |-> IF redundant THEN With(acc.alias, i.dst, acc.known[i.field]) ELSE acc.alias,
       code  |-> IF redundant THEN acc.code ELSE Append(acc.code, i)]

Unforwarded == [known |-> NoEntries, alias |-> NoEntries, code |-> <<>>]

\* What is known, renamed and kept after each instruction.
Forwarding(code, kept) ==
  LET upTo[k \in 0..Len(code)] ==
        IF k = 0 THEN Unforwarded ELSE ForwardOne(upTo[k - 1], code[k], kept)
  IN  upTo

\* Loads that an earlier access of the cell answers are dropped, their value
\* renamed; one whose value outlives the call is kept.
Forwarded(code, kept) == Forwarding(code, kept)[Len(code)].code

(***************************************************************************)
(* Stores move up.                                                         *)
(***************************************************************************)

\* May the store at pc not pass instruction k?
Blocks(code, k, pc) ==
  \/ code[k].op \in {"guard", "endguard", "foreign"}
  \/ k \in Accesses(code) /\ code[k].field = code[pc].field
  \/ code[k].dst \in Reads(code, pc)

\* The last instruction the store at pc must stand behind.
Earliest(code, pc) == Max({0} \cup {k \in 1..(pc - 1) : Blocks(code, k, pc)})

Moves(code, pc) == code[pc].op = "store" /\ Earliest(code, pc) < pc - 1

\* The schedule with the stores that move to right behind instruction k.
Raised(code, k, scheduled) ==
  LET upTo[pc \in 0..Len(code)] ==
        IF pc = 0 THEN scheduled
        ELSE IF Moves(code, pc) /\ Earliest(code, pc) = k THEN Append(upTo[pc - 1], code[pc])
        ELSE upTo[pc - 1]
  IN  upTo

\* The schedule up to instruction k and what moves right behind it.
Hoisting(code) ==
  LET upTo[k \in 0..Len(code)] ==
        IF k = 0 THEN Raised(code, 0, <<>>)[Len(code)]
        ELSE Raised(code, k, IF Moves(code, k) THEN upTo[k - 1]
                             ELSE Append(upTo[k - 1], code[k]))[Len(code)]
  IN  upTo

Hoisted(code) == Hoisting(code)[Len(code)]

Prepared(code, kept) == Hoisted(Forwarded(code, kept))

(***************************************************************************)
(* The reference: what a band does to its items, as the interpreter runs   *)
(* it when the guards `taken' hold.  A result is the term that computes it.*)
(***************************************************************************)

Put(m, x, y) == [m EXCEPT ![x] = y]

RunOne(acc, i, taken) ==
  LET operands == [n \in DOMAIN i.args |-> acc.holds[i.args[n]]]
      term == <<i.op, i.dst, operands>>
  IN
  IF acc.inside # None
  THEN IF i.op = "endguard" /\ i.field = acc.inside THEN [acc EXCEPT !.inside = None] ELSE acc
  ELSE CASE i.op = "guard" -> [acc EXCEPT !.inside = IF i.field \in taken THEN None ELSE i.field]
         [] i.op \in {"load", "loadAt"} -> [acc EXCEPT !.holds = Put(@, i.dst, acc.holds[i.field])]
         [] i.op \in {"store", "storeAt"} -> [acc EXCEPT !.holds = Put(@, i.field, operands[1])]
         [] i.op = "output" -> [acc EXCEPT !.sent = Append(@, operands[1])]
         [] i.op = "foreign" -> [acc EXCEPT !.sent = Append(@, term), !.holds = Put(@, i.dst, term)]
         [] i.op \in {"arith", "min", "select", "math", "input"} -> [acc EXCEPT !.holds = Put(@, i.dst, term)]
         [] OTHER -> acc

Unrun(items) == [holds |-> [x \in items |-> <<"initial", x, <<>>>>], inside |-> None, sent |-> <<>>]

\* What there is after each instruction.
RunOf(code, taken, items) ==
  LET upTo[k \in 0..Len(code)] ==
        IF k = 0 THEN Unrun(items) ELSE RunOne(upTo[k - 1], code[k], taken)
  IN  upTo

\* The lasting effect of a band on what its items hold at first.
Effect(code, taken, items, lasting) ==
  LET run == RunOf(code, taken, items)[Len(code)]
  IN  [sent |-> run.sent, holds |-> [x \in lasting |-> run.holds[x]]]

Guards(code) == {code[k].field : k \in {j \in DOMAIN code : code[j].op = "guard"}}
=============================================================================
