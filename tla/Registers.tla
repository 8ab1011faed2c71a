----------------------------- MODULE Registers ------------------------------
(***************************************************************************)
(* Native code of one program: the registers the ARM64 back end gives to   *)
(* the values and state cells of an entry point (Emit::Allocate), and what *)
(* the machine does with them when the host calls the entry.  An entry is  *)
(* allocated right before it is called; allocation reads nothing that runs.*)
(*                                                                         *)
(* Items are the values of the plan and the fields that a sample entry     *)
(* caches in a register for the whole block.  Registers are the real ones, *)
(* the only ones a call may clobber.                                       *)
(***************************************************************************)
EXTENDS Prepare, FiniteSetsExt

CONSTANTS
  Programs,   \* the plans, [init, control, sample] bands
  Physical,   \* the registers that hold items
  Preserved,  \* those of them a call preserves
  Scratch,    \* d0, the register of operands in memory and of call results
  MaxTicks,   \* bound on the calls and frames of a run
  MaxRounds   \* bound on the rounds of a loop

ASSUME RegistersAssumption ==
  /\ Preserved \subseteq Physical /\ Scratch \notin Physical
  /\ None \notin Physical \cup {Scratch}
  /\ MaxTicks \in Nat /\ MaxRounds \in Nat

VARIABLES
  program,
  band,      \* the entry at hand: "init" or "sample"
  stage,     \* "allocate", "call", "run", "boundary", "done"
  code,      \* Emit::Prepared of the entry, control before sample
  control,   \* Emit::ControlEnd
  kept,      \* RegisterLayout: the values that have a slot
  life,      \* Emit::Alloc: begin, end, written, load of every item
  pending,   \* items not yet allocated
  active,    \* items that hold a register now
  free,      \* registers no active item holds
  phys,      \* Allocation::Physical, as the code being run was emitted
  settled,   \* Allocation::Physical when Allocate returned
  saved,     \* Emit::CallMask, by instruction
  peeled,    \* does the first frame have code of its own?
  pc, rounds,   \* the instruction, the rounds of the loop around it
  frames, tick, \* frames left of this call; calls and frames so far
  registers, memory, \* what the machine holds
  meant      \* what the interpreter holds for the same items

plan     == <<program, kept, band, code, control, life>>
alloc    == <<pending, active, free>>
layout   == <<settled, saved, peeled>>
position == <<pc, rounds, frames, tick>>
contents == <<registers, memory, meant>>
regVars  == <<plan, stage, alloc, layout, phys, position, contents>>

Junk == <<"junk">>
Initially(x) == <<"initial", x>>

Values(p) == Defined(p.init) \cup Defined(p.control) \cup Defined(p.sample)
               \cup ReadIn(p.init) \cup ReadIn(p.control) \cup ReadIn(p.sample)
FieldsIn(c) == {c[k].field : k \in Accesses(c)}
Fields(p) == FieldsIn(p.init) \cup FieldsIn(p.control) \cup FieldsIn(p.sample)
Items(p)  == Values(p) \cup Fields(p)

(***************************************************************************)
(* Lifetimes.                                                              *)
(***************************************************************************)

\* Fields of a sample entry whose every access has a constant index.
CacheableIn(c, b) ==
  IF b = "sample"
  THEN FieldsIn(c) \ {c[k].field : k \in {i \in Accesses(c) : c[i].op \in {"loadAt", "storeAt"}}}
  ELSE {}

LoopsOf(c) ==
  {l \in (DOMAIN c) \X (DOMAIN c) :
     c[l[1]].op = "loop" /\ c[l[2]].op = "endloop" /\ c[l[1]].field = c[l[2]].field}

Looped(c, k) == \E l \in LoopsOf(c) : l[1] < k /\ k < l[2]

Touches(c, x) == {k \in DOMAIN c : x \in Reads(c, k) \/ c[k].dst = x}

\* A value that enters a loop lives to the end of the loop.
LastTouch(c, x) ==
  Max(Touches(c, x) \cup
      {l[2] : l \in {m \in LoopsOf(c) : /\ Min(Touches(c, x)) < m[1]
                                        /\ \E k \in m[1]..m[2] : x \in Reads(c, k)}})

\* Retained values and cached fields live from the first instruction to after
\* the last.  A value the control part surely writes first is not loaded.
LifeOf(c, b, end, x) ==
  LET throughout == x \in kept \/ x \in FieldsIn(c)
      first == Min(Touches(c, x))
  IN  [begin   |-> IF throughout THEN 1 ELSE first,
       end     |-> IF throughout THEN Len(c) + 1 ELSE LastTouch(c, x),
       written |-> \E k \in DOMAIN c : c[k].dst = x \/ (c[k].op = "store" /\ c[k].field = x),
       load    |-> \/ x \in FieldsIn(c) \/ b # "sample" \/ first > end
                   \/ x \in Reads(c, first) \/ Guarded(c, first) \/ Looped(c, first)]

Lifetimes(c, b, end) ==
  [x \in Defined(c) \cup ReadIn(c) \cup CacheableIn(c, b) |-> LifeOf(c, b, end, x)]

(***************************************************************************)
(* Calls.                                                                  *)
(***************************************************************************)

Calls == {k \in DOMAIN code : code[k].op \in {"math", "foreign"}}
IsLeaf  == Calls = {}
Cached  == DOMAIN life \cap FieldsIn(code)
Transient(x) == x \notin Cached \cup kept
Reloadable(x) == x \in kept /\ ~life[x].written

\* The call that defines a value does not find it in its register.
CallBegin(x) ==
  IF Transient(x) /\ code[life[x].begin].dst = x
  THEN Min({life[x].end, life[x].begin + 1}) ELSE life[x].begin

Across(x) == {k \in Calls : CallBegin(x) <= k /\ k < life[x].end}

Weighted == ~IsLeaf /\ \E x \in DOMAIN life : ~Reloadable(x) /\ CallBegin(x) < life[x].end

Operands(x) == {o \in (DOMAIN code) \X (1..2) : o[2] \in DOMAIN code[o[1]].args /\ code[o[1]].args[o[2]] = x}
Savings(x) == IF Reloadable(x) THEN Cardinality(Operands(x)) ELSE 2 * Cardinality(Across(x))

Prefers(x) == Weighted /\ Savings(x) > 0
Reload(x)  == ~IsLeaf /\ Reloadable(x)

(***************************************************************************)
(* Allocate, one item in order of its first instruction.                   *)
(***************************************************************************)

\* Mutant: a register is free again in the instruction that reads it last.
ExpiredAtRead(y, x) == life[y].end <= life[x].begin

\* Instructions that read all operands before they write.
Reuses(x) ==
  /\ Transient(x) /\ code[life[x].begin].dst = x
  /\ code[life[x].begin].op \in {"arith", "min"}

\* May x take over the register y dies in?
HandsOver(y, x) ==
  life[y].end = life[x].begin /\ Reuses(x) /\ y \in Reads(code, life[x].begin)

Expired(y, x) == life[y].end < life[x].begin \/ HandsOver(y, x)

Held(S) == {phys[y] : y \in S}

\* Reloadable values that cost less than the saves x would need.
Lighter(alive, x) ==
  LET light == {y \in alive : Reloadable(y) /\ Savings(y) < Savings(x)}
  IN  {y \in light : \A z \in light : Savings(y) <= Savings(z)}

Farthest(alive, x) ==
  {y \in alive : life[y].end > life[x].end /\ \A z \in alive : life[z].end <= life[y].end}

\* The registers x may be given of those left over.
Offered(left, x) ==
  LET wanted == {p \in left : (p \in Preserved) = (Reload(x) \/ Prefers(x))}
  IN  IF (Reload(x) \/ Weighted) /\ wanted # {} THEN wanted
      ELSE IF Reload(x) THEN {} ELSE left

Give(x, alive, evicted, left) ==
  /\ \E p \in Offered(left, x) \cup {None} :
       /\ p = None <=> Offered(left, x) = {}
       /\ phys' = [y \in DOMAIN phys |->
                     IF y = x THEN p ELSE IF y \in evicted THEN None ELSE phys[y]]
       /\ active' = (alive \ evicted) \cup (IF p = None THEN {} ELSE {x})
       /\ free' = left \ {p}
  /\ pending' = pending \ {x}
  /\ UNCHANGED <<plan, stage, layout, position, contents>>

Evict(S, T) == IF S = {} THEN {{}} ELSE IF T THEN {{y} : y \in S} ELSE {{}}

\* One round of the allocation loop: dead items leave, a cheaper item may be
\* evicted for a preserved register, and the one used longest for any.
AllocateItem(x) ==
  LET alive == {y \in active : ~Expired(y, x)}
      left  == free \cup Held(active \ alive)
  IN
  /\ stage = "allocate" /\ x \in pending
  /\ \A y \in pending : life[x].begin <= life[y].begin
  /\ \E first \in Evict(Lighter(alive, x), Prefers(x) /\ left \cap Preserved = {}) :
       LET left1 == left \cup Held(first) IN
       \E second \in Evict(Farthest(alive \ first, x), left1 = {} /\ ~Reload(x)) :
         Give(x, alive, first \cup second, left1 \cup Held(second))

(***************************************************************************)
(* After the loop: loads that may stay in the register of their field, and *)
(* results computed in the register of the field they are stored to.       *)
(***************************************************************************)

StoresTo(f) == {k \in DOMAIN code : code[k].op = "store" /\ code[k].field = f}
LoadsOf(f)  == {k \in DOMAIN code : code[k].op = "load" /\ code[k].field = f}

\* Is the field stored to while the loaded value is still needed?
StoredMeanwhile(k) == \E s \in StoresTo(code[k].field) : k < s /\ s < life[code[k].dst].end

Aliases(x) ==
  {k \in DOMAIN code : /\ code[k].op = "load" /\ code[k].dst = x /\ Transient(x)
                       /\ code[k].field \in Cached /\ phys[code[k].field] # None
                       /\ ~StoredMeanwhile(k)}

Aliased == [x \in DOMAIN phys |->
  IF Aliases(x) = {} THEN phys[x] ELSE phys[code[CHOOSE k \in Aliases(x) : TRUE].field]]

\* Coalesce, over the stores from instruction `from' on, with registers at.
Eligible(at, f, from) == at[f] # None /\ Cardinality({k \in StoresTo(f) : k >= from}) = 1
StorePlace(f, from) == CHOOSE k \in StoresTo(f) : k >= from
Source(f, from) == code[StorePlace(f, from)].args[1]

\* Mutant: the old value may be read after the new one is written.
AvailableEver(at, f, write, from) ==
  \A k \in LoadsOf(f) :
    from <= k /\ k < StorePlace(f, from) =>
      ~(at[code[k].dst] = at[f] /\ life[code[k].dst].end > write)

\* Is the old value of the field dead from `write' on?
Available(at, f, write, from) ==
  \A k \in LoadsOf(f) :
    from <= k /\ k < StorePlace(f, from) =>
      k < write /\ ~(at[code[k].dst] = at[f] /\ life[code[k].dst].end > write)

\* The source of the field's store may be computed in the field's register.
Coalesces(at, f, from) ==
  LET source == Source(f, from)
      define == life[source].begin
  IN
  /\ Eligible(at, f, from) /\ Transient(source)
  /\ define >= from /\ code[define].dst = source /\ code[define].op = "arith"
  /\ \A g \in Cached : at[g] = at[f] =>
       Eligible(at, g, from) /\ Source(g, from) = source /\ Available(at, g, define, from)

Coalesced(at, from) ==
  LET fields(x) == {f \in Cached : Coalesces(at, f, from) /\ Source(f, from) = x}
  IN  [x \in DOMAIN at |-> IF fields(x) = {} THEN at[x] ELSE at[CHOOSE f \in fields(x) : TRUE]]

\* From the second frame on, fields that are stored the same value share a
\* register.
Group(at, f) ==
  {g \in Cached : Eligible(at, g, control + 1) /\ Source(g, control + 1) = Source(f, control + 1)}
Merges(at, f) ==
  /\ Eligible(at, f, control + 1)
  /\ \A g \in Group(at, f) :
       Available(at, g, Min({StorePlace(h, control + 1) : h \in Group(at, f)}), control + 1)

Merged(at) ==
  LET groups(x) == {f \in Cached : at[x] # None /\ Merges(at, f) /\ at[f] = at[x]}
  IN  [x \in DOMAIN at |->
         IF groups(x) = {} THEN at[x]
         ELSE at[CHOOSE g \in Group(at, CHOOSE f \in groups(x) : TRUE) : TRUE]]

Has(ops, from) == \E k \in DOMAIN code : k >= from /\ code[k].op \in ops

FirstLayout ==
  IF band = "sample" /\ Cached # {} /\ ~Has({"guard", "loop", "foreign"}, 1)
  THEN Coalesced(Aliased, 1) ELSE Aliased

\* The volatile registers saved around each call.
CallMasks(at) ==
  [k \in DOMAIN code |->
     {at[x] : x \in {y \in DOMAIN at : k \in Across(y)}} \ (Preserved \cup {None})]

\* Steady: a loop without branches may run its first frame from code of its
\* own; the code of the later ones then has another layout.
LaterLayout(at) == Coalesced(Merged(at), control + 1)
MayPeel == band = "sample" /\ Cached # {} /\ ~Has({"guard", "loop", "foreign"}, control + 1)

Settle ==
  /\ stage = "allocate" /\ pending = {}
  /\ settled' = FirstLayout /\ phys' = FirstLayout
  /\ saved' = CallMasks(FirstLayout)
  /\ peeled' \in (IF MayPeel THEN BOOLEAN ELSE {FALSE})
  /\ stage' = "call"
  /\ UNCHANGED <<plan, alloc, position, contents>>

(***************************************************************************)
(* Running an entry.                                                       *)
(***************************************************************************)

\* CallValues: is the result of instruction k left in d0 for the next one?
InScratch(k) ==
  LET x == code[k].dst
      next == code[k + 1]
      either == {code[k].op, next.op}
  IN
  /\ k + 1 \in DOMAIN code /\ x # None /\ x \notin kept
  /\ life[x].begin = k /\ life[x].end = k + 1
  /\ "math" \in either /\ either \subseteq {"math", "arith"}
  /\ \/ next.args[1] = x
     \/ next.op # "math" /\ next.args[2] = x /\ settled[next.args[1]] # None

CallInput == IF pc > 1 /\ InScratch(pc - 1) THEN code[pc - 1].dst ELSE None

Content(x) == IF phys[x] # None THEN registers[phys[x]] ELSE memory[x]
Fetched(x) == IF x = CallInput THEN registers[Scratch] ELSE Content(x)

\* What instruction pc finds for operand n.  A first operand that is loaded
\* into d0 replaces a result left there, and a select writes its destination
\* before it reads its first operand.
Operand(n) ==
  LET i == code[pc]
      x == i.args[n]
      loaded == i.args[1] # CallInput /\ (i.op = "math" \/ phys[i.args[1]] = None)
  IN  IF n = 2 /\ x = CallInput /\ loaded THEN Fetched(i.args[1])
      ELSE IF i.op = "select" /\ n = 1 /\ phys[x] # None /\ phys[x] = phys[i.dst]
           THEN Junk
      ELSE Fetched(x)

\* Load the registers of retained values and cached fields.
Boundary(x) == x \in DOMAIN phys /\ phys[x] # None /\ ~Transient(x)
Entering(at) ==
  [p \in Physical \cup {Scratch} |->
     LET items == {x \in DOMAIN at : at[x] = p /\ ~Transient(x) /\ life[x].load}
     IN  IF items = {} THEN Junk ELSE memory[CHOOSE x \in items : TRUE]]

Enter ==
  /\ stage = "call" /\ tick < MaxTicks
  /\ frames' \in (IF band = "init" THEN {1} ELSE 0..(MaxTicks - tick - 1))
  /\ tick' = tick + 1 /\ pc' = 1 /\ rounds' = 0
  /\ phys' = settled
  /\ registers' = Entering(settled)
  /\ stage' = "run"
  /\ UNCHANGED <<plan, alloc, layout, memory, meant>>

Running(ops) ==
  /\ stage = "run" /\ pc \in DOMAIN code /\ code[pc].op \in ops
  /\ pc <= control \/ frames > 0

Goto(k) == pc' = k /\ UNCHANGED <<plan, stage, alloc, layout, phys, frames, tick>>
Step == Goto(pc + 1) /\ UNCHANGED rounds

\* The result of instruction pc: to d0, a register or memory.
Define(regs, is, means) ==
  LET x == code[pc].dst
      left == InScratch(pc)
      p == IF left THEN Scratch ELSE phys[x]
  IN
  /\ registers' = IF p = None THEN regs ELSE [regs EXCEPT ![p] = is]
  /\ memory' = IF p = None THEN [memory EXCEPT ![x] = is] ELSE memory
  /\ meant' = [meant EXCEPT ![x] = means]

Result == <<code[pc].dst, tick, rounds>>

Compute ==
  /\ Running({"arith", "min", "select", "input"})
  /\ Define(registers, Result, Result)
  /\ Step

\* The callee may use every register it need not preserve.
Invoke ==
  /\ Running({"math", "foreign"})
  /\ Define([p \in DOMAIN registers |->
               IF p \in Preserved \cup saved[pc] THEN registers[p] ELSE Junk], Result, Result)
  /\ Step

Emission == Running({"output"}) /\ Step /\ UNCHANGED contents

LoadCell ==
  LET f == code[pc].field
      cell == IF code[pc].op = "load" /\ f \in Cached THEN Content(f) ELSE memory[f]
  IN  Running({"load", "loadAt"}) /\ Define(registers, cell, meant[f]) /\ Step

StoreCell ==
  LET f == code[pc].field
      cached == code[pc].op = "store" /\ f \in Cached /\ phys[f] # None
  IN
  /\ Running({"store", "storeAt"})
  /\ registers' = IF cached THEN [registers EXCEPT ![phys[f]] = Operand(1)] ELSE registers
  /\ memory' = IF cached THEN memory ELSE [memory EXCEPT ![f] = Operand(1)]
  /\ meant' = [meant EXCEPT ![f] = meant[code[pc].args[1]]]
  /\ Step

\* A guard that holds, or the place where an untaken one ends.
EndOf(k) == CHOOSE j \in DOMAIN code :
  code[j].op \in {"endguard", "endloop"} /\ code[j].field = code[k].field

Take    == Running({"guard", "endguard"}) /\ Step /\ UNCHANGED contents
SkipGuard == Running({"guard"}) /\ Goto(EndOf(pc) + 1) /\ UNCHANGED <<rounds, contents>>

LoopEntry ==
  /\ Running({"loop"}) /\ Goto(pc + 1)
  /\ rounds' = 1 /\ UNCHANGED contents
SkipLoop == Running({"loop"}) /\ Goto(EndOf(pc) + 1) /\ UNCHANGED <<rounds, contents>>
LoopRepeat ==
  /\ Running({"endloop"}) /\ rounds < MaxRounds
  /\ \E k \in DOMAIN code : code[k].op = "loop" /\ code[k].field = code[pc].field /\ Goto(k + 1)
  /\ rounds' = rounds + 1 /\ UNCHANGED contents
LoopExit == Running({"endloop"}) /\ Goto(pc + 1) /\ rounds' = 0 /\ UNCHANGED contents

\* Mutant: the boundary stores with the layout of the frame that ran last.
NextFrameLate ==
  /\ stage = "run" /\ pc = Len(code) + 1 /\ frames > 0
  /\ frames' = frames - 1 /\ pc' = control + 1
  /\ phys' = IF peeled /\ frames > 1 THEN LaterLayout(settled) ELSE settled
  /\ tick' = tick + 1
  /\ UNCHANGED <<plan, stage, alloc, layout, rounds, contents>>

\* The end of a frame.  The boundary is emitted after the code of the later
\* frames and has its layout, after a first and only frame too.
NextFrame ==
  /\ stage = "run" /\ pc = Len(code) + 1 /\ frames > 0
  /\ frames' = frames - 1 /\ pc' = control + 1
  /\ phys' = IF peeled THEN LaterLayout(settled) ELSE settled
  /\ tick' = tick + 1
  /\ UNCHANGED <<plan, stage, alloc, layout, rounds, contents>>

StoredBack(x) == Boundary(x) /\ life[x].written

\* Store what was written, and return.
Leave ==
  /\ stage = "run" /\ pc = control + 1 /\ frames = 0
  /\ memory' = [x \in DOMAIN memory |->
       IF x \in kept \cup Fields(program)
       THEN IF StoredBack(x) THEN registers[phys[x]] ELSE memory[x] ELSE Junk]
  /\ meant' = [x \in DOMAIN meant |-> IF x \in kept \cup Fields(program) THEN meant[x] ELSE Junk]
  /\ registers' = [p \in DOMAIN registers |-> Junk]
  /\ stage' = IF band = "init" THEN "done" ELSE "call"
  /\ UNCHANGED <<plan, alloc, layout, phys, position>>

(***************************************************************************)
(* Compilation of an entry, and the specification.                         *)
(***************************************************************************)

EntryCode(p, b) ==
  IF b = "init" THEN p.init ELSE Prepared(p.control, Retained(p)) \o Prepared(p.sample, Retained(p))
EntryControl(p, b) == IF b = "init" THEN 0 ELSE Len(Prepared(p.control, Retained(p)))

\* A plan defines a value before it reads it, unless the value is retained.
DefinesFirst(c, lasting) ==
  \A k \in DOMAIN c : \A x \in Reads(c, k) \ lasting : \E j \in 1..(k - 1) : c[j].dst = x

\* Every register of a plan is written by one instruction, which stands before
\* those of its band that read it.
SingleAssignment(c) ==
  \A j, k \in DOMAIN c : c[j].dst # None =>
    /\ c[j].dst = c[k].dst => j = k
    /\ c[j].dst \in Reads(c, k) => j < k

\* Guards and loops have an end and nest, within one band.
Brackets(c) ==
  {l \in (DOMAIN c) \X (DOMAIN c) : /\ c[l[1]].op \in {"guard", "loop"}
                                    /\ c[l[2]].op \in {"endguard", "endloop"}
                                    /\ c[l[1]].field = c[l[2]].field}
Nested(c, end) ==
  /\ \A k \in DOMAIN c :
       /\ c[k].op \in {"guard", "loop"} => \E j \in DOMAIN c : <<k, j>> \in Brackets(c)
       /\ c[k].op \in {"endguard", "endloop"} => \E j \in DOMAIN c : <<j, k>> \in Brackets(c)
  /\ \A l \in Brackets(c) : /\ l[1] < l[2] /\ (l[1] <= end <=> l[2] <= end)
                            /\ c[l[1]].op = "guard" <=> c[l[2]].op = "endguard"
  /\ \A l, m \in Brackets(c) :
       l = m \/ l[2] < m[1] \/ m[2] < l[1] \/ (l[1] < m[1] /\ m[2] < l[2])
                                           \/ (m[1] < l[1] /\ l[2] < m[2])

\* A value defined under a guard, or read in another band, is retained; one that
\* a loop defines is read in the loop.
Scoped(c, end, lasting) ==
  \A j \in DOMAIN c : c[j].dst \notin lasting \cup {None} =>
    /\ ~Guarded(c, j)
    /\ \A k \in DOMAIN c : c[j].dst \in Reads(c, k) =>
         /\ j <= end => k <= end
         /\ \A l \in LoopsOf(c) : l[1] < j /\ j < l[2] => k < l[2]

\* Between two stores of a band to one cell stands what no store to it passes.
StoresApart(c, end) ==
  \A k, s \in DOMAIN c :
    /\ c[k].op = "store" /\ c[s].op = "store" /\ c[k].field = c[s].field
    /\ k < s /\ (k <= end <=> s <= end)
    => \E b \in k..s : \/ c[b].op \in {"guard", "endguard", "foreign"}
                       \/ c[b].op \in {"loadAt", "storeAt"} /\ c[b].field = c[s].field

Shape(i) ==
  /\ i.op \in {"arith", "min", "select", "math", "foreign", "input", "load", "loadAt"} <=> i.dst # None
  /\ i.op \in {"load", "store", "loadAt", "storeAt"} => i.field # None
  /\ i.op \in {"arith", "math", "store", "storeAt"} => 1 \in DOMAIN i.args
  /\ i.op \in {"store", "storeAt"} => DOMAIN i.args = {1}
  /\ i.op = "arith" => 2 \in DOMAIN i.args

Instructions(p) == [op : STRING, args : Seq(Values(p)), dst : Values(p) \cup {None},
                    field : STRING \cup {None}]

\* The bands of an entry as lowering makes them.
Lowered(p, b) == IF b = "init" THEN p.init ELSE p.control \o p.sample
LoweredControl(p, b) == IF b = "init" THEN 0 ELSE Len(p.control)

ASSUME ProgramsAssumption ==
  \A p \in Programs :
    /\ p.init \in Seq(Instructions(p)) /\ p.control \in Seq(Instructions(p))
    /\ p.sample \in Seq(Instructions(p))
    /\ None \notin Values(p) /\ Values(p) \cap Fields(p) = {}
    /\ \A b \in {"init", "sample"} :
         LET c == Lowered(p, b) end == LoweredControl(p, b) IN
         /\ \A k \in DOMAIN c : Shape(c[k]) /\ (b = "sample" => c[k].op \notin {"loop", "endloop"})
         /\ DefinesFirst(c, Retained(p)) /\ SingleAssignment(c) /\ Nested(c, end)
         /\ Scoped(c, end, Retained(p)) /\ (b = "sample" => StoresApart(c, end))

\* The sample entry is compiled.
CompileSample ==
  /\ stage = "done" /\ band' = "sample"
  /\ code' = EntryCode(program, "sample") /\ control' = EntryControl(program, "sample")
  /\ life' = Lifetimes(code', "sample", control')
  /\ pending' = DOMAIN life' /\ active' = {} /\ free' = Physical
  /\ phys' = [x \in DOMAIN life' |-> None] /\ settled' = phys'
  /\ stage' = "allocate"
  /\ UNCHANGED <<program, kept, saved, peeled, position, contents>>

RegInit ==
  /\ program \in Programs /\ kept = Retained(program)
  /\ band = IF program.init = <<>> THEN "sample" ELSE "init"
  /\ stage = "allocate"
  /\ code = EntryCode(program, band) /\ control = EntryControl(program, band)
  /\ life = Lifetimes(code, band, control)
  /\ pending = DOMAIN life /\ active = {} /\ free = Physical
  /\ phys = [x \in DOMAIN life |-> None] /\ settled = phys
  /\ saved = <<>> /\ peeled = FALSE
  /\ pc = 1 /\ rounds = 0 /\ frames = 0 /\ tick = 0
  /\ registers = [p \in Physical \cup {Scratch} |-> Junk]
  /\ memory = [x \in Items(program) |-> Initially(x)]
  /\ meant = memory

RegNext ==
  \/ \E x \in pending : AllocateItem(x)
  \/ Settle \/ Enter \/ Compute \/ Invoke \/ Emission \/ LoadCell \/ StoreCell
  \/ Take \/ SkipGuard \/ LoopEntry \/ SkipLoop \/ LoopRepeat \/ LoopExit
  \/ NextFrame \/ Leave \/ CompileSample

RegSpec == RegInit /\ [][RegNext]_regVars

(***************************************************************************)
(* Properties.                                                             *)
(***************************************************************************)

\* Dropping loads and moving stores changes nothing a band does: what it emits,
\* in which order it calls foreign functions, and what it leaves in fields and
\* retained values, whichever guards hold.
PreparedMeansSame ==
  stage = "allocate" /\ pending = DOMAIN life /\ band = "sample" =>
    \A original \in {program.control, program.sample} : \A taken \in SUBSET Guards(original) :
      LET does(c) == Effect(c, taken, Items(program), kept \cup Fields(program))
      IN  does(Prepared(original, kept)) = does(original)

\* Two items that were given one register never need it at the same time: one
\* is dead before the other begins, or hands it over in an instruction that
\* reads before it writes.
RegistersApart ==
  stage = "allocate" =>
    \A x, y \in DOMAIN phys :
      x # y /\ phys[x] = phys[y] /\ phys[x] # None =>
        \/ life[x].end < life[y].begin \/ HandsOver(x, y)
        \/ life[y].end < life[x].begin \/ HandsOver(y, x)

\* Every instruction finds in registers and memory the operands, and every load
\* the cell, that the interpreter of the same plan has: through reuse, calls,
\* guards, loops, cached fields, results left in d0 and the peeled first frame.
OperandsCorrect ==
  stage = "run" /\ pc \in DOMAIN code /\ (pc <= control \/ frames > 0) =>
    /\ \A n \in DOMAIN code[pc].args : Operand(n) = meant[code[pc].args[n]]
    /\ code[pc].op = "load" /\ code[pc].field \in Cached =>
         Content(code[pc].field) = meant[code[pc].field]

\* Between calls, memory holds the state the interpreter would have: what a
\* call wrote was stored back, once, from the register that has it.
StateKept ==
  stage = "call" =>
    \A x \in kept \cup Fields(program) : memory[x] = meant[x]
=============================================================================
