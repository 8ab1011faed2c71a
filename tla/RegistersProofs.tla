-------------------------- MODULE RegistersProofs ---------------------------
(***************************************************************************)
(* Proofs about the native code of an entry, for every set of plans as the *)
(* assumption on Programs describes them and every number of registers:    *)
(* items that are given one register never need it at the same time;       *)
(* every instruction finds the operands that the interpreter has; memory   *)
(* holds the interpreter's state between calls; and preparing a band keeps *)
(* what it does, by the lemmas of PrepareProofs.                           *)
(*                                                                         *)
(* RegInv is the invariant of the allocation loop.  RunInv is that of a    *)
(* run.  Its heart is LayoutOK: what a layout may do so that the registers *)
(* can hold, at every instruction, what ValuesHeld, KeptHeld and           *)
(* FieldsHeld say.  FirstLayoutIsRight and LaterIsRight show it of the two *)
(* layouts Emit makes; the sections after them show that the instructions, *)
(* the boundaries and the change of layout between frames keep RunInv.     *)
(***************************************************************************)
EXTENDS PrepareProofs

\* The code and the lifetimes are those of the entry at hand.
Compiled ==
  /\ program \in Programs /\ band \in {"init", "sample"} /\ kept = Retained(program)
  /\ code = EntryCode(program, band) /\ control = EntryControl(program, band)
  /\ life = Lifetimes(code, band, control)

\* Active items hold different registers, none of them free.
Holding ==
  /\ pending \subseteq DOMAIN life /\ active \subseteq DOMAIN life \ pending
  /\ phys \in [DOMAIN life -> Physical \cup {None}] /\ free \subseteq Physical
  /\ \A x \in active : phys[x] # None /\ phys[x] \notin free
  /\ \A x, y \in active : phys[x] = phys[y] => x = y
  /\ \A x \in pending : phys[x] = None

\* Items are taken in the order in which they begin, and an item that lost its
\* register to others by dying is dead before any that is still to come.
InOrder ==
  /\ \A x \in DOMAIN life \ pending, y \in pending : life[x].begin <= life[y].begin
  /\ \A x \in DOMAIN life \ (pending \cup active), y \in pending :
       phys[x] # None => life[x].end < life[y].begin

\* The invariant of allocation.
RegInv == Compiled /\ (stage = "allocate" => Holding /\ InOrder /\ RegistersApart)

(***************************************************************************)
(* What a layout may do.                                                   *)
(***************************************************************************)

\* From instruction `from' on, code runs forward and calls nothing foreign.
Straight(from) ==
  \A k \in DOMAIN code :
    k >= from => code[k].op \notin {"guard", "endguard", "loop", "endloop", "foreign"}

\* Does instruction k, or one it leads to, still need the value x from before?
Live(x, k) == life[x].begin < k /\ k <= life[x].end

\* Two items never need one register at the same time.
Separate(x, y) == \/ life[x].end < life[y].begin \/ HandsOver(x, y)
                  \/ life[y].end < life[x].begin \/ HandsOver(y, x)

\* A load that may stay in the register of its field.
AliasOf(x, f) ==
  LET k == life[x].begin IN code[k].op = "load" /\ code[k].field = f /\ ~StoredMeanwhile(k)

\* The store at s is the only one to f from instruction `from' on.
OnlyStore(f, from, s) == s \in StoresTo(f) /\ s >= from /\ \A k \in StoresTo(f) : k >= from => k = s

\* The fields with the register of f, and the values computed or left there.
Sharers(at, f) == {g \in Cached : at[g] = at[f]}
Residents(at, from, f) ==
  {x \in DOMAIN life : Transient(x) /\ at[x] = at[f] /\ life[x].begin >= from}

\* The register of f holds what f holds.
Simple(at, from, f) ==
  Sharers(at, f) = {f} /\ \A x \in Residents(at, from, f) : AliasOf(x, f)

\* From w on the register of f holds the value a, which every field of that
\* register is stored at w or later; until then it holds their old value.
Stores(at, from, f, g, w, a) ==
  \E s \in DOMAIN code :
    /\ OnlyStore(g, from, s) /\ code[s].args[1] = a /\ w <= s /\ (w <= control <=> s <= control)
    /\ \A k \in LoadsOf(g) :
         from <= k /\ k < s => k < w /\ ~(at[code[k].dst] = at[f] /\ life[code[k].dst].end > w)
Computed(at, from, f, w, a) ==
  a \in Residents(at, from, f) /\ life[a].begin = w /\ code[w].op = "arith"
Turns(at, from, f, w, a) ==
  /\ Straight(from) /\ w >= from
  /\ \A g \in Sharers(at, f) : Stores(at, from, f, g, w, a)
  /\ Computed(at, from, f, w, a) \/ \E g \in Sharers(at, f) : w \in StoresTo(g)
  /\ \A x \in Residents(at, from, f) :
       (x = a /\ Computed(at, from, f, w, a)) \/ \E g \in Sharers(at, f) : AliasOf(x, g)

\* A layout under which the code from instruction `from' on is right.
LayoutOK(at, from) ==
  /\ at \in [DOMAIN life -> Physical \cup {None}]
  /\ \A x \in kept \cap DOMAIN life, y \in DOMAIN life : at[x] = at[y] /\ at[x] # None => x = y
  /\ \A x, y \in DOMAIN life :
       Transient(x) /\ Transient(y) /\ x # y /\ at[x] = at[y] /\ at[x] # None =>
         Separate(x, y) \/ \E f \in Cached : at[f] = at[x]
  /\ \A f \in Cached : at[f] # None =>
       Simple(at, from, f) \/ \E w \in DOMAIN code, a \in DOMAIN life : Turns(at, from, f, w, a)

\* The layout of the first frame: no two fields have one register.
FirstOK ==
  /\ LayoutOK(settled, 1)
  /\ \A f, g \in Cached : settled[f] = settled[g] /\ settled[f] # None => f = g

(***************************************************************************)
(* What the machine holds.                                                 *)
(***************************************************************************)

\* Does the register of a retained value hold it already?
Current(x) == life[x].load \/ Min(Touches(code, x)) < pc

\* Transient values that are still needed are where the code looks for them.
ValuesHeld == \A x \in DOMAIN life : Transient(x) /\ Live(x, pc) => Fetched(x) = meant[x]

\* Retained values are in their registers, or in memory if they have none; one
\* that the entry does not write is in memory too.
KeptHeld ==
  \A x \in kept :
    /\ x \notin DOMAIN life => memory[x] = meant[x]
    /\ x \in DOMAIN life =>
         /\ phys[x] = None \/ ~life[x].written => memory[x] = meant[x]
         /\ phys[x] # None /\ Current(x) => registers[phys[x]] = meant[x]

\* Fields likewise, a register whose turn has come holding the next value.
FieldsHeld(from) ==
  /\ \A f \in Fields(program) : f \notin Cached => memory[f] = meant[f]
  /\ \A f \in Cached :
       /\ phys[f] = None \/ ~life[f].written => memory[f] = meant[f]
       /\ phys[f] # None /\ Simple(phys, from, f) => registers[phys[f]] = meant[f]
       /\ \A w \in DOMAIN code, a \in DOMAIN life :
            phys[f] # None /\ Turns(phys, from, f, w, a) =>
              registers[phys[f]] = IF pc <= w THEN meant[f] ELSE meant[a]

\* A field stored once holds, past that store, the value stored.
StoresDone(from) ==
  Straight(from) => \A f \in Cached, s \in DOMAIN code :
    OnlyStore(f, from, s) /\ s < pc => meant[f] = meant[code[s].args[1]]

\* A run of the code from instruction `from' on, with a right layout.
Runs(from) == /\ LayoutOK(phys, from) /\ pc \in from..(Len(code) + 1)
              /\ ValuesHeld /\ KeptHeld /\ FieldsHeld(from)

\* The machine has a place for every item.
Places == /\ DOMAIN registers = Physical \cup {Scratch}
          /\ DOMAIN memory = Items(program) /\ DOMAIN meant = Items(program)

\* The layout of the code of the later frames.
Together == Merged(settled)
Later == LaterLayout(settled)

\* The invariant of a run: between calls memory holds the state; during one the
\* layout is that of the first frame, or that of the later ones.
RunInv ==
  /\ Places
  /\ stage \in {"allocate", "call", "run", "done"}
  /\ stage # "run" => \A x \in kept \cup Fields(program) : memory[x] = meant[x]
  /\ stage \in {"call", "run"} =>
       FirstOK /\ saved = CallMasks(settled) /\ (peeled => MayPeel)
  /\ stage = "run" =>
       /\ \E from \in {1, control + 1} :
            Runs(from) /\ ((from = 1 /\ phys = settled) \/ (from = control + 1 /\ phys = Later /\ peeled))
       /\ \A from \in {1, control + 1} : StoresDone(from)

(***************************************************************************)
(* Lifetimes.                                                              *)
(***************************************************************************)

\* Code is a sequence that defines a value before it reads it.
LEMMA CodeShape ==
  ASSUME Compiled
  PROVE  /\ Len(code) \in Nat /\ DOMAIN code = 1..Len(code)
         /\ DefinesFirst(code, kept) /\ None \notin Values(program)
<1>1. EntryOK(program, band, code, control) /\ kept = Retained(program)
  BY EntryShape DEF Compiled
<1> QED BY <1>1 DEF EntryOK

\* A transient value begins at its definition and ends within the code; other
\* items live throughout.
LEMMA LifeShape ==
  ASSUME Compiled, NEW x \in DOMAIN life
  PROVE  /\ life[x].begin \in Nat /\ life[x].end \in Nat
         /\ ~Transient(x) => life[x].begin = 1 /\ life[x].end = Len(code) + 1
         /\ Transient(x) => /\ life[x].begin \in DOMAIN code
                            /\ code[life[x].begin].dst = x
                            /\ \A k \in DOMAIN code : x \in Reads(code, k) => life[x].begin <= k
<1> DEFINE touched == Touches(code, x)
<1>1. /\ DOMAIN life = Defined(code) \cup ReadIn(code) \cup CacheableIn(code, band)
      /\ life[x] = LifeOf(code, band, control, x)
  BY DEF Compiled, Lifetimes
<1>2. Transient(x) <=> ~(x \in kept \/ x \in FieldsIn(code))
  BY DEF Transient, Cached
<1>3. CASE ~Transient(x)
  BY <1>1, <1>2, <1>3, CodeShape DEF LifeOf
<1>4. CASE Transient(x)
  <2>1. x \in Defined(code) \cup ReadIn(code)
    BY <1>1, <1>2, <1>4 DEF CacheableIn
  <2>2. touched # {} /\ touched \in SUBSET (DOMAIN code)
    BY <2>1 DEF Touches, Defined, ReadIn
  <2>3. touched \in SUBSET Nat /\ touched \in SUBSET (0..Len(code))
    BY <2>2, CodeShape
  <2>4. life[x].begin = Min(touched) /\ life[x].end = LastTouch(code, x)
    BY <1>1, <1>2, <1>4 DEF LifeOf
  <2>5. life[x].begin \in touched /\ \A k \in touched : life[x].begin <= k
    <3> HIDE DEF touched
    <3> QED BY <2>2, <2>3, <2>4, MinIsLeast
  <2>6. life[x].end \in Nat
    <3> DEFINE loops == {l[2] : l \in {m \in LoopsOf(code) : /\ Min(Touches(code, x)) < m[1]
                                        /\ \E k \in m[1]..m[2] : x \in Reads(code, k)}}
               last == touched \cup loops
    <3>1. loops \in SUBSET (DOMAIN code)
      BY DEF LoopsOf
    <3>2. last # {} /\ last \in SUBSET (0..Len(code))
      BY <3>1, <2>2, <2>3, CodeShape
    <3>3. LastTouch(code, x) = Max(last)
      BY DEF LastTouch
    <3>4. Max(last) \in last
      <4> HIDE DEF last
      <4> QED BY <3>2, MaxIsGreatest, CodeShape
    <3> QED BY <3>2, <3>3, <3>4, <2>4
  <2>7. code[life[x].begin].dst = x
    <3> SUFFICES ASSUME code[life[x].begin].dst # x PROVE FALSE
      OBVIOUS
    <3>1. x \in Reads(code, life[x].begin) /\ life[x].begin \in DOMAIN code
      BY <2>5 DEF Touches
    <3>2. PICK j \in 1..(life[x].begin - 1) : code[j].dst = x
      BY <3>1, <1>2, <1>4, CodeShape DEF DefinesFirst
    <3>3. j \in touched
      BY <3>1, <3>2, CodeShape DEF Touches
    <3> QED BY <3>2, <3>3, <3>1, <2>5, CodeShape
  <2>8. \A k \in DOMAIN code : x \in Reads(code, k) => life[x].begin <= k
    BY <2>5 DEF Touches
  <2> QED BY <1>4, <2>2, <2>3, <2>5, <2>6, <2>7, <2>8
<1> QED BY <1>3, <1>4

\* Where a register is handed over nothing else begins.
LEMMA OneHeir ==
  ASSUME Compiled,
         NEW y \in DOMAIN life, NEW x \in DOMAIN life, NEW z \in DOMAIN life,
         HandsOver(y, x), y # x, life[z].begin = life[x].begin
  PROVE  z = x
<1> DEFINE at == life[x].begin
<1>1. /\ Transient(x) /\ code[at].dst = x /\ at \in DOMAIN code
      /\ life[y].end = at /\ y \in Reads(code, at)
  BY LifeShape DEF HandsOver, Reuses
<1>2. at \in 1..Len(code) /\ Len(code) \in Nat
  BY <1>1, CodeShape
<1>3. Transient(y)
  BY <1>1, <1>2, LifeShape
<1>4. life[y].begin \in DOMAIN code /\ code[life[y].begin].dst = y /\ life[y].begin <= at
  BY <1>1, <1>3, LifeShape
<1>5. life[y].begin # at
  BY <1>1, <1>4
<1>6. at > 1
  BY <1>2, <1>4, <1>5, CodeShape
<1>7. Transient(z)
  BY <1>6, LifeShape
<1> QED BY <1>1, <1>7, LifeShape

(***************************************************************************)
(* The steps.                                                              *)
(***************************************************************************)

\* A round of the allocation loop keeps the invariant of allocation.
LEMMA AllocateKeeps ==
  ASSUME RegInv, stage = "allocate", NEW x \in pending, AllocateItem(x)
  PROVE  RegInv'
<1> DEFINE alive == {y \in active : ~Expired(y, x)}
           left  == free \cup Held(active \ alive)
<1>1. PICK first \in Evict(Lighter(alive, x), Prefers(x) /\ left \cap Preserved = {}) :
        \E second \in Evict(Farthest(alive \ first, x), left \cup Held(first) = {} /\ ~Reload(x)) :
          Give(x, alive, first \cup second, (left \cup Held(first)) \cup Held(second))
  BY DEF AllocateItem
<1>2. PICK second \in Evict(Farthest(alive \ first, x), left \cup Held(first) = {} /\ ~Reload(x)) :
        Give(x, alive, first \cup second, (left \cup Held(first)) \cup Held(second))
  BY <1>1
<1> DEFINE evicted == first \cup second
           spare == (left \cup Held(first)) \cup Held(second)
<1>3. evicted \subseteq alive
  BY <1>1, <1>2 DEF Evict, Lighter, Farthest
<1>4. \A y \in pending : life[x].begin <= life[y].begin
  BY DEF AllocateItem
<1>5. PICK p \in Offered(spare, x) \cup {None} :
        /\ p = None <=> Offered(spare, x) = {}
        /\ phys' = [y \in DOMAIN phys |->
                      IF y = x THEN p ELSE IF y \in evicted THEN None ELSE phys[y]]
        /\ active' = (alive \ evicted) \cup (IF p = None THEN {} ELSE {x})
        /\ free' = spare \ {p}
  BY <1>2 DEF Give
<1>6. pending' = pending \ {x} /\ UNCHANGED <<plan, stage>>
  BY <1>2 DEF Give
<1>7. spare = free \cup {phys[y] : y \in (active \ alive) \cup evicted}
  BY DEF Held
<1>8. Holding /\ InOrder /\ RegistersApart /\ Compiled
  BY DEF RegInv
<1>9. alive \subseteq active
  OBVIOUS
<1> HIDE DEF alive, left, evicted, spare
<1>10. spare \subseteq Physical
  BY <1>7, <1>8, <1>3, <1>9 DEF Holding
<1>11. p # None => p \in spare
  BY <1>5 DEF Offered
<1>12. UNCHANGED <<program, kept, band, code, control, life, stage>>
  BY <1>6 DEF plan
<1>13. Compiled'
  <2>1. Compiled' <=> Compiled
    BY <1>12 DEF Compiled, Lifetimes, LifeOf
  <2> QED BY <2>1, <1>8
<1>14. DOMAIN phys = DOMAIN life /\ x \in DOMAIN life
  BY <1>8 DEF Holding
<1>15. \A y \in DOMAIN life :
         phys'[y] = IF y = x THEN p ELSE IF y \in evicted THEN None ELSE phys[y]
  BY <1>5, <1>14
\* An item that keeps a register and is not active any more was given up at x.
<1>16. \A y \in alive \ evicted : phys[y] \notin spare
  BY <1>7, <1>8, <1>9, <1>3 DEF Holding
<1>17. Holding'
  <2>1. phys' \in [DOMAIN life -> Physical \cup {None}] /\ free' \subseteq Physical
    BY <1>5, <1>10, <1>11, <1>14, <1>8 DEF Holding
  <2>2. pending' \subseteq DOMAIN life /\ active' \subseteq DOMAIN life \ pending'
    BY <1>5, <1>6, <1>8, <1>9, <1>14 DEF Holding
  <2>3. \A y \in active' : phys'[y] # None /\ phys'[y] \notin free'
    <3> SUFFICES ASSUME NEW y \in active' PROVE phys'[y] # None /\ phys'[y] \notin free'
      OBVIOUS
    <3>1. CASE y = x
      BY <3>1, <1>5, <1>15, <1>14, <1>8, <1>9 DEF Holding
    <3>2. CASE y # x
      <4>1. y \in alive \ evicted /\ y \in DOMAIN life
        BY <3>2, <1>5, <1>8, <1>9 DEF Holding
      <4>2. phys'[y] = phys[y]
        BY <4>1, <3>2, <1>15
      <4> QED BY <4>1, <4>2, <1>16, <1>5, <1>8, <1>9 DEF Holding
    <3> QED BY <3>1, <3>2
  <2>4. \A y, z \in active' : phys'[y] = phys'[z] => y = z
    <3>1. \A y \in active' : y # x => y \in alive \ evicted /\ phys'[y] = phys[y] /\ phys[y] \notin spare
      BY <1>5, <1>15, <1>16, <1>8, <1>9 DEF Holding
    <3>2. x \in active' => phys'[x] = p /\ p \in spare
      BY <1>5, <1>15, <1>14, <1>11, <1>8, <1>9 DEF Holding
    <3> QED BY <3>1, <3>2, <1>8, <1>9 DEF Holding
  <2>5. \A y \in pending' : phys'[y] = None
    <3>1. \A y \in pending' : y \in pending /\ y # x /\ y \in DOMAIN life
      BY <1>6, <1>8 DEF Holding
    <3>2. \A y \in pending' : phys[y] = None
      BY <3>1, <1>8 DEF Holding
    <3> QED BY <3>1, <3>2, <1>15
  <2> QED BY <2>1, <2>2, <2>3, <2>4, <2>5, <1>12 DEF Holding
<1>18. \A y \in active \ alive : life[y].end < life[x].begin \/ HandsOver(y, x)
  BY DEF alive, Expired
<1>19. \A y \in active : y # x /\ y \in DOMAIN life
  BY <1>8 DEF Holding
\* An item without a place among the active ones is dead where x begins.
<1>20. \A y \in DOMAIN life \ (pending' \cup active') :
         phys'[y] # None => \/ life[y].end < life[x].begin
                            \/ y \in active \ alive /\ HandsOver(y, x)
  <2> SUFFICES ASSUME NEW y \in DOMAIN life \ (pending' \cup active'), phys'[y] # None
               PROVE  \/ life[y].end < life[x].begin
                      \/ y \in active \ alive /\ HandsOver(y, x)
    OBVIOUS
  <2>1. y # x
    BY <1>5, <1>15
  <2>2. y \notin evicted /\ phys[y] # None
    BY <2>1, <1>15
  <2>3. y \notin alive
    BY <2>2, <1>5
  <2>4. y \notin pending
    BY <2>1, <1>6
  <2>5. CASE y \in active
    BY <2>5, <2>3, <1>18
  <2>6. CASE y \notin active
    BY <2>6, <2>2, <2>4, <1>8 DEF InOrder
  <2> QED BY <2>5, <2>6
<1>21. InOrder'
  <2>1. \A y \in DOMAIN life \ pending', z \in pending' : life[y].begin <= life[z].begin
    BY <1>4, <1>6, <1>8 DEF InOrder
  <2>2. ASSUME NEW y \in DOMAIN life \ (pending' \cup active'), NEW z \in pending', phys'[y] # None
        PROVE  life[y].end < life[z].begin
    <3>1. z \in pending /\ z # x /\ z \in DOMAIN life /\ life[x].begin <= life[z].begin
      BY <1>4, <1>6, <1>8 DEF Holding
    <3>2. /\ life[y].end \in Nat /\ life[x].begin \in Nat /\ life[z].begin \in Nat
      BY <3>1, <1>8, <1>14, LifeShape
    <3>3. CASE life[y].end < life[x].begin
      BY <3>1, <3>2, <3>3
    <3>4. CASE y \in active \ alive /\ HandsOver(y, x)
      <4>1. life[z].begin # life[x].begin
        BY <3>1, <3>4, <1>8, <1>14, <1>19, OneHeir
      <4> QED BY <3>1, <3>2, <3>4, <4>1 DEF HandsOver
    <3> QED BY <2>2, <3>3, <3>4, <1>20
  <2> QED BY <2>1, <2>2, <1>12 DEF InOrder
<1>22. RegistersApart'
  <2> DEFINE Apart(y, z) == \/ life[y].end < life[z].begin \/ HandsOver(y, z)
                            \/ life[z].end < life[y].begin \/ HandsOver(z, y)
  <2>1. \A y \in DOMAIN life : y # x /\ phys'[y] = p /\ p # None => Apart(y, x)
    <3> SUFFICES ASSUME NEW y \in DOMAIN life, y # x, phys'[y] = p, p # None
                 PROVE  Apart(y, x)
      OBVIOUS
    <3>1. y \notin active'
      <4>1. x \in active' /\ phys'[x] = p
        BY <1>5, <1>15, <1>14
      <4> QED BY <4>1, <1>17 DEF Holding
    <3>2. y \notin pending'
      BY <1>17 DEF Holding
    <3> QED BY <3>1, <3>2, <1>20
  <2>2. \A y, z \in DOMAIN life : y # z /\ y # x /\ z # x /\ phys'[y] = phys'[z] /\ phys'[y] # None
          => Apart(y, z)
    <3>1. \A y, z \in DOMAIN life : y # z /\ phys[y] = phys[z] /\ phys[y] # None => Apart(y, z)
      BY <1>8, <1>14 DEF RegistersApart
    <3>2. \A y \in DOMAIN life : y # x /\ phys'[y] # None => phys'[y] = phys[y]
      BY <1>15
    <3> HIDE DEF Apart
    <3> QED BY <3>1, <3>2
  <2>3. \A y, z \in DOMAIN life : y # z /\ phys'[y] = phys'[z] /\ phys'[y] # None => Apart(y, z)
    <3>1. phys'[x] = p
      BY <1>14, <1>15
    <3>2. \A y, z : Apart(y, z) <=> Apart(z, y)
      OBVIOUS
    <3> HIDE DEF Apart
    <3> QED BY <2>1, <2>2, <3>1, <3>2
  <2>4. \A y, z : HandsOver(y, z)' <=> HandsOver(y, z)
    BY <1>12 DEF HandsOver, Reuses, Transient, Cached, Reads
  <2>5. DOMAIN phys' = DOMAIN life
    BY <1>5, <1>14
  <2> QED BY <2>3, <2>4, <2>5, <1>12 DEF RegistersApart
<1> QED BY <1>13, <1>17, <1>21, <1>22 DEF RegInv

\* ... and so does every step that does not allocate,
LEMMA OthersKeep ==
  ASSUME Compiled, UNCHANGED plan, (stage = "allocate")' => UNCHANGED <<stage, alloc, phys>>,
         RegInv
  PROVE  RegInv'
<1>1. Compiled'
  BY DEF Compiled, plan, Lifetimes, LifeOf
<1>2. (stage = "allocate")' => (Holding /\ InOrder /\ RegistersApart)'
  BY DEF RegInv, plan, alloc, Holding, InOrder, RegistersApart, HandsOver, Reuses, Transient,
         Cached, Reads
<1> QED BY <1>1, <1>2 DEF RegInv

\* ... and allocation begins in it.
LEMMA BeginningHolds ==
  ASSUME Compiled, pending = DOMAIN life, active = {}, free = Physical,
         phys = [x \in DOMAIN life |-> None]
  PROVE  RegInv
BY DEF RegInv, Holding, InOrder, RegistersApart

\* The initial states satisfy the invariant of allocation.
LEMMA RegInitially == RegInit => RegInv
<1> SUFFICES ASSUME RegInit PROVE RegInv
  OBVIOUS
<1>1. Compiled
  BY DEF RegInit, Compiled
<1> QED BY <1>1, BeginningHolds DEF RegInit

\* Every step keeps the invariant of allocation.
LEMMA RegStep == RegInv /\ [RegNext]_regVars => RegInv'
<1> SUFFICES ASSUME RegInv, [RegNext]_regVars PROVE RegInv'
  OBVIOUS
<1>1. CASE \E x \in pending : AllocateItem(x)
  BY <1>1, AllocateKeeps DEF AllocateItem
<1>2. CASE CompileSample
  <2>1. Compiled'
    BY <1>2 DEF CompileSample, RegInv, Compiled, Lifetimes, LifeOf, EntryControl
  <2>2. (pending = DOMAIN life)' /\ (active = {})' /\ (free = Physical)'
        /\ (phys = [x \in DOMAIN life |-> None])'
    BY <1>2 DEF CompileSample
  <2> QED BY <2>1, <2>2, BeginningHolds, PTL
<1>3. CASE \/ Settle \/ Enter \/ Compute \/ Invoke \/ Emission \/ LoadCell \/ StoreCell
           \/ Take \/ SkipGuard \/ LoopEntry \/ SkipLoop \/ LoopRepeat \/ LoopExit
           \/ NextFrame \/ Leave \/ UNCHANGED regVars
  <2>1. UNCHANGED plan /\ ((stage = "allocate")' => UNCHANGED <<stage, alloc, phys>>)
    BY <1>3 DEF Settle, Enter, Compute, Invoke, Emission, LoadCell, StoreCell, Take, SkipGuard,
         LoopEntry, SkipLoop, LoopRepeat, LoopExit, NextFrame, Leave, regVars, Running, Step, Goto,
         plan, alloc
  <2> QED BY <2>1, OthersKeep DEF RegInv
<1> QED BY <1>1, <1>2, <1>3 DEF RegNext

(***************************************************************************)
(* The code of an entry.                                                   *)
(***************************************************************************)

\* What the plans are assumed to be, said of the entry at hand.
LEMMA CodeFacts ==
  ASSUME Compiled
  PROVE  /\ Len(code) \in Nat /\ DOMAIN code = 1..Len(code) /\ control \in 0..Len(code)
         /\ DefinesFirst(code, kept) /\ SingleAssignment(code) /\ Nested(code, control)
         /\ Scoped(code, control, kept) /\ (band = "sample" => StoresUp(code, control))
         /\ \A k \in DOMAIN code : Shape(code[k])
         /\ \A k \in DOMAIN code : /\ code[k].dst \in Values(program) \cup {None}
                                   /\ Reads(code, k) \subseteq Values(program)
         /\ FieldsIn(code) \subseteq Fields(program)
         /\ None \notin Values(program) /\ Values(program) \cap Fields(program) = {}
         /\ kept \subseteq Values(program)
<1>1. EntryOK(program, band, code, control) /\ kept = Retained(program)
  BY EntryShape DEF Compiled
<1>2. /\ Len(code) \in Nat /\ DOMAIN code = 1..Len(code) /\ control \in 0..Len(code)
      /\ \A k \in DOMAIN code : Shape(code[k])
      /\ FieldsIn(code) \subseteq Fields(program)
      /\ DefinesFirst(code, kept) /\ SingleAssignment(code) /\ Nested(code, control)
      /\ Scoped(code, control, kept) /\ (band = "sample" => StoresUp(code, control))
      /\ None \notin Values(program) /\ Values(program) \cap Fields(program) = {}
  BY <1>1 DEF EntryOK
<1>3. ASSUME NEW k \in DOMAIN code
      PROVE  code[k].dst \in Values(program) \cup {None} /\ Reads(code, k) \subseteq Values(program)
  BY <1>1, <1>2, <1>3 DEF EntryOK
<1>4. kept \subseteq Values(program)
  BY <1>1 DEF Retained, Values, Defined
<1> QED BY <1>2, <1>3, <1>4

\* An item is a value or a field in a register.
LEMMA ItemFacts ==
  ASSUME Compiled, NEW x \in DOMAIN life
  PROVE  /\ x \in Items(program)
         /\ Transient(x) <=> ~(x \in kept \/ x \in FieldsIn(code))
         /\ Transient(x) \/ x \in kept => x \in Values(program) /\ x \notin Cached
         /\ x \in Cached => x \in Fields(program) /\ x \in FieldsIn(code) /\ x \notin kept /\ life[x].load
         /\ x \in Cached => x \in CacheableIn(code, band)
         /\ life[x] = LifeOf(code, band, control, x)
<1>1. /\ DOMAIN life = Defined(code) \cup ReadIn(code) \cup CacheableIn(code, band)
      /\ life[x] = LifeOf(code, band, control, x)
  BY DEF Compiled, Lifetimes
<1>2. Transient(x) <=> ~(x \in kept \/ x \in FieldsIn(code))
  BY DEF Transient, Cached
<1>3. Defined(code) \cup ReadIn(code) \subseteq Values(program)
  BY CodeFacts DEF Defined, ReadIn
<1>4. CacheableIn(code, band) \subseteq FieldsIn(code)
  BY DEF CacheableIn
<1>5. FieldsIn(code) \subseteq Fields(program) /\ Values(program) \cap Fields(program) = {}
      /\ kept \subseteq Values(program)
  BY CodeFacts
<1>6. x \in Cached => life[x].load
  BY <1>1 DEF Cached, LifeOf
<1> QED BY <1>1, <1>2, <1>3, <1>4, <1>5, <1>6 DEF Items, Cached

\* What an instruction reads or defines is an item, and a value.
LEMMA OperandFacts ==
  ASSUME Compiled, NEW k \in DOMAIN code
  PROVE  /\ \A x \in Reads(code, k) : x \in DOMAIN life /\ x \notin Cached /\ x \in Values(program)
         /\ code[k].dst # None => /\ code[k].dst \in DOMAIN life /\ code[k].dst \notin Cached
                                  /\ code[k].dst \in Values(program)
<1>1. DOMAIN life = Defined(code) \cup ReadIn(code) \cup CacheableIn(code, band)
  BY DEF Compiled, Lifetimes
<1>2. \A x \in Reads(code, k) : x \in DOMAIN life /\ x \in Values(program)
  BY <1>1, CodeFacts DEF ReadIn
<1>3. code[k].dst # None => code[k].dst \in DOMAIN life /\ code[k].dst \in Values(program)
  BY <1>1, CodeFacts DEF Defined
<1>4. \A x \in Cached : x \in Fields(program)
  BY ItemFacts DEF Cached
<1> QED BY <1>2, <1>3, <1>4, CodeFacts

\* The one place that defines a transient value, and where it ends.
LEMMA TransientFacts ==
  ASSUME Compiled, NEW x \in DOMAIN life, Transient(x)
  PROVE  /\ life[x].begin \in DOMAIN code /\ code[life[x].begin].dst = x /\ x # None
         /\ \A k \in DOMAIN code : code[k].dst = x => k = life[x].begin
         /\ life[x].end \in DOMAIN code
         /\ life[x].begin <= life[x].end
         /\ \A k \in DOMAIN code : x \in Reads(code, k) => life[x].begin < k /\ k <= life[x].end
         /\ \A l \in LoopsOf(code) : \A k \in l[1]..l[2] :
              life[x].begin < l[1] /\ x \in Reads(code, k) => l[2] <= life[x].end
         /\ \/ life[x].end = life[x].begin
            \/ x \in Reads(code, life[x].end)
            \/ \E l \in LoopsOf(code) : \E k \in l[1]..l[2] :
                 life[x].begin < l[1] /\ x \in Reads(code, k) /\ l[2] = life[x].end
<1> DEFINE touched == Touches(code, x)
           loops == {l[2] : l \in {m \in LoopsOf(code) : /\ Min(Touches(code, x)) < m[1]
                                     /\ \E k \in m[1]..m[2] : x \in Reads(code, k)}}
           last == touched \cup loops
<1>1. /\ life[x].begin \in DOMAIN code /\ code[life[x].begin].dst = x
      /\ \A k \in DOMAIN code : x \in Reads(code, k) => life[x].begin <= k
  BY LifeShape
<1>2. x # None /\ x \notin kept /\ x \notin FieldsIn(code)
  BY ItemFacts, CodeFacts
<1>3. SingleAssignment(code) /\ Len(code) \in Nat /\ DOMAIN code = 1..Len(code)
  BY CodeFacts
<1>4. \A k \in DOMAIN code : code[k].dst = x => k = life[x].begin
  BY <1>1, <1>2, <1>3 DEF SingleAssignment
<1>5. \A k \in DOMAIN code : x \in Reads(code, k) => life[x].begin < k
  BY <1>1, <1>2, <1>3 DEF SingleAssignment
<1>6. life[x].end = LastTouch(code, x) /\ life[x].begin = Min(touched)
  BY <1>2, ItemFacts DEF LifeOf
<1>7. touched \in SUBSET (DOMAIN code) /\ loops \in SUBSET (DOMAIN code)
  BY DEF Touches, LoopsOf
<1>8. last # {} /\ last \in SUBSET (0..Len(code))
  <2>1. life[x].begin \in touched
    BY <1>1 DEF Touches
  <2> HIDE DEF touched, loops
  <2> QED BY <2>1, <1>3, <1>7
<1>9. LastTouch(code, x) = Max(last)
  BY DEF LastTouch
<1>10. Max(last) \in last /\ \A k \in last : k <= Max(last)
  <2> HIDE DEF last
  <2> QED BY <1>8, <1>3, MaxIsGreatest
<1>11. life[x].end \in last /\ \A k \in last : k <= life[x].end
  BY <1>6, <1>9, <1>10
<1>12. life[x].begin \in touched /\ life[x].end \in DOMAIN code
  BY <1>1, <1>7, <1>11 DEF Touches
<1>13. \A k \in DOMAIN code : x \in Reads(code, k) => k <= life[x].end
  BY <1>11 DEF Touches
<1>14. \A l \in LoopsOf(code) : \A k \in l[1]..l[2] :
         life[x].begin < l[1] /\ x \in Reads(code, k) => l[2] <= life[x].end
  BY <1>6, <1>11
<1>15. life[x].end \in touched => life[x].end = life[x].begin \/ x \in Reads(code, life[x].end)
  BY <1>4 DEF Touches
<1>16. life[x].end \in loops =>
         \E l \in LoopsOf(code) : \E k \in l[1]..l[2] :
           life[x].begin < l[1] /\ x \in Reads(code, k) /\ l[2] = life[x].end
  BY <1>6
<1>17. life[x].begin <= life[x].end
  BY <1>11, <1>12
<1> QED BY <1>1, <1>2, <1>4, <1>5, <1>11, <1>12, <1>13, <1>14, <1>15, <1>16, <1>17

\* What an instruction reads is live there, and begins there if it defines it.
LEMMA ReadIsLive ==
  ASSUME Compiled, NEW k \in DOMAIN code, NEW x \in Reads(code, k), Transient(x)
  PROVE  Live(x, k)
BY OperandFacts, TransientFacts DEF Live

\* A transient value of the control part ends in the control part.
LEMMA EndsInPart ==
  ASSUME Compiled, NEW x \in DOMAIN life, Transient(x), life[x].begin <= control
  PROVE  life[x].end <= control
<1> DEFINE j == life[x].begin
<1>1. j \in DOMAIN code /\ code[j].dst = x /\ x # None /\ x \notin kept
  BY TransientFacts, ItemFacts
<1>2. \A k \in DOMAIN code : x \in Reads(code, k) => k <= control
  BY <1>1, CodeFacts DEF Scoped
<1>3. CASE life[x].end = life[x].begin
  BY <1>3
<1>4. CASE x \in Reads(code, life[x].end)
  BY <1>4, <1>2, TransientFacts
<1>5. ASSUME NEW l \in LoopsOf(code), NEW k \in l[1]..l[2],
             life[x].begin < l[1], x \in Reads(code, k), l[2] = life[x].end
      PROVE  life[x].end <= control
  <2>1. /\ l[1] \in DOMAIN code /\ l[2] \in DOMAIN code /\ l \in (DOMAIN code) \X (DOMAIN code)
        /\ code[l[1]].op = "loop" /\ code[l[2]].op = "endloop" /\ code[l[1]].field = code[l[2]].field
    BY DEF LoopsOf
  <2>2. l \in Brackets(code)
    BY <2>1 DEF Brackets
  <2>3. l[1] <= control <=> l[2] <= control
    BY <2>2, CodeFacts DEF Nested
  <2>4. k \in DOMAIN code /\ DOMAIN code = 1..Len(code) /\ Len(code) \in Nat /\ control \in 0..Len(code)
    BY <2>1, CodeFacts
  <2> QED BY <2>1, <2>3, <2>4, <1>2, <1>5
<1> QED BY <1>3, <1>4, <1>5, TransientFacts

(***************************************************************************)
(* What stays the same while an entry runs.                                *)
(***************************************************************************)

\* Steps that leave the plan alone leave alone what is computed from it.
LEMMA PlanStays ==
  ASSUME UNCHANGED plan
  PROVE  /\ UNCHANGED <<program, kept, band, code, control, life>>
         /\ Cached' = Cached /\ \A x : Transient(x)' <=> Transient(x)
         /\ \A f : StoresTo(f)' = StoresTo(f) /\ LoadsOf(f)' = LoadsOf(f)
         /\ \A x, f : AliasOf(x, f)' <=> AliasOf(x, f)
         /\ \A x, y : HandsOver(x, y)' <=> HandsOver(x, y)
         /\ \A x, y : Separate(x, y)' <=> Separate(x, y)
         /\ \A f, from, s : OnlyStore(f, from, s)' <=> OnlyStore(f, from, s)
         /\ \A from : Straight(from)' <=> Straight(from)
<1>1. UNCHANGED <<program, kept, band, code, control, life>>
  BY DEF plan
<1>2. Cached' = Cached
  BY <1>1 DEF Cached
<1>3. \A x : Transient(x)' <=> Transient(x)
  BY <1>1, <1>2 DEF Transient
<1>4. \A f : StoresTo(f)' = StoresTo(f) /\ LoadsOf(f)' = LoadsOf(f)
  BY <1>1 DEF StoresTo, LoadsOf
<1>5. \A k : StoredMeanwhile(k)' <=> StoredMeanwhile(k)
  BY <1>1 DEF StoredMeanwhile, StoresTo
<1>6. \A x, f : AliasOf(x, f)' <=> AliasOf(x, f)
  BY <1>1 DEF AliasOf, StoredMeanwhile, StoresTo
<1>7. \A x, y : HandsOver(x, y)' <=> HandsOver(x, y)
  BY <1>1 DEF HandsOver, Reuses, Transient, Cached
<1>8. \A x, y : Separate(x, y)' <=> Separate(x, y)
  BY <1>1, <1>7 DEF Separate
<1>9. \A f, from, s : OnlyStore(f, from, s)' <=> OnlyStore(f, from, s)
  BY <1>1, <1>4 DEF OnlyStore
<1>10. \A from : Straight(from)' <=> Straight(from)
  BY <1>1 DEF Straight
<1> QED BY <1>1, <1>2, <1>3, <1>4, <1>6, <1>7, <1>8, <1>9, <1>10

\* A layout is as good after a step as before it.
LEMMA LayoutStays ==
  ASSUME UNCHANGED plan, NEW at, phys' = at, NEW from
  PROVE  /\ LayoutOK(phys, from)' <=> LayoutOK(at, from)
         /\ \A f : Simple(phys, from, f)' <=> Simple(at, from, f)
         /\ \A f, w, a : Turns(phys, from, f, w, a)' <=> Turns(at, from, f, w, a)
<1>1. UNCHANGED <<program, kept, band, code, control, life>>
  BY PlanStays
<1>2. \A f : Sharers(phys, f)' = Sharers(at, f)
  BY PlanStays DEF Sharers
<1>3. \A f : Residents(phys, from, f)' = Residents(at, from, f)
  BY <1>1, PlanStays DEF Residents
<1>4. \A f : Simple(phys, from, f)' <=> Simple(at, from, f)
  BY <1>2, <1>3, PlanStays DEF Simple
<1>5. \A f, g, w, a : Stores(phys, from, f, g, w, a)' <=> Stores(at, from, f, g, w, a)
  BY <1>1, PlanStays DEF Stores
<1>6. \A f, w, a : Computed(phys, from, f, w, a)' <=> Computed(at, from, f, w, a)
  BY <1>1, <1>3 DEF Computed
<1>7. \A f, w, a : Turns(phys, from, f, w, a)' <=> Turns(at, from, f, w, a)
  BY <1>2, <1>3, <1>5, <1>6, PlanStays DEF Turns
<1>8. LayoutOK(phys, from)' <=> LayoutOK(at, from)
  BY <1>1, <1>4, <1>7, PlanStays DEF LayoutOK
<1> QED BY <1>4, <1>7, <1>8

(***************************************************************************)
(* What an instruction finds.                                              *)
(***************************************************************************)

\* The layout of the code being run holds what the first layout holds, in the
\* same registers or in those of fields.
Derived ==
  \A x \in DOMAIN life : /\ settled[x] # None => phys[x] # None
                         /\ phys[x] = settled[x] \/ \E f \in Cached : phys[x] = settled[f]

\* A run of the code from instruction `from' on.
Going(from) == Compiled /\ Runs(from) /\ StoresDone(from) /\ from \in {1, control + 1}

\* A retained value and the first instruction that touches it.
LEMMA KeptFacts ==
  ASSUME Compiled, NEW x \in kept, x \in DOMAIN life
  PROVE  LET first == Min(Touches(code, x)) IN
         /\ first \in DOMAIN code /\ first \in Touches(code, x)
         /\ \A k \in Touches(code, x) : first <= k
         /\ life[x].begin = 1 /\ life[x].end = Len(code) + 1
         /\ ~life[x].load => /\ first <= control /\ x \notin Reads(code, first)
                             /\ ~Guarded(code, first) /\ ~Looped(code, first)
         /\ life[x].written <=> \/ \E k \in DOMAIN code : code[k].dst = x
                                \/ \E k \in DOMAIN code : code[k].op = "store" /\ code[k].field = x
<1> DEFINE touched == Touches(code, x)
<1>1. life[x] = LifeOf(code, band, control, x) /\ x \in Values(program) /\ x \notin Cached
  BY ItemFacts
<1>2. DOMAIN life = Defined(code) \cup ReadIn(code) \cup CacheableIn(code, band)
  BY DEF Compiled, Lifetimes
<1>3. x \notin FieldsIn(code) /\ Len(code) \in Nat /\ DOMAIN code = 1..Len(code) /\ control \in 0..Len(code)
  BY <1>1, CodeFacts
<1>4. x \in Defined(code) \cup ReadIn(code)
  BY <1>2, <1>3 DEF CacheableIn
<1>5. touched # {} /\ touched \in SUBSET (DOMAIN code)
  BY <1>4 DEF Touches, Defined, ReadIn
<1>6. Min(touched) \in touched /\ \A k \in touched : Min(touched) <= k
  <2> HIDE DEF touched
  <2>1. touched \in SUBSET Nat
    BY <1>5, <1>3
  <2> QED BY <2>1, <1>5, MinIsLeast
<1>7. ~life[x].load => /\ Min(touched) <= control /\ x \notin Reads(code, Min(touched))
                       /\ ~Guarded(code, Min(touched)) /\ ~Looped(code, Min(touched))
  BY <1>1, <1>3, <1>5, <1>6 DEF LifeOf
<1>8. life[x].written <=> \/ \E k \in DOMAIN code : code[k].dst = x
                          \/ \E k \in DOMAIN code : code[k].op = "store" /\ code[k].field = x
  BY <1>1 DEF LifeOf
<1>9. life[x].begin = 1 /\ life[x].end = Len(code) + 1
  BY <1>1 DEF LifeOf
<1> QED BY <1>5, <1>6, <1>7, <1>8, <1>9

\* A result left in d0 is a transient value that the next instruction ends.
LEMMA ScratchFacts ==
  ASSUME Compiled, NEW k \in Int, k >= 1, InScratch(k)
  PROVE  LET x == code[k].dst IN
         /\ k \in DOMAIN code /\ k + 1 \in DOMAIN code
         /\ x # None /\ x \in DOMAIN life /\ Transient(x)
         /\ life[x].begin = k /\ life[x].end = k + 1
         /\ code[k].op \in {"math", "arith"} /\ code[k + 1].op \in {"math", "arith"}
<1>1. k \in DOMAIN code /\ k + 1 \in DOMAIN code
  BY CodeFacts DEF InScratch
<1>2. code[k].dst \in DOMAIN life /\ code[k].dst \notin Cached
  BY <1>1, OperandFacts DEF InScratch
<1> QED BY <1>1, <1>2 DEF InScratch, Transient

\* What is left in d0 for this instruction.
LEMMA InputFacts ==
  ASSUME Compiled, pc \in Nat, CallInput # None
  PROVE  /\ pc > 1 /\ InScratch(pc - 1) /\ CallInput = code[pc - 1].dst
         /\ pc \in DOMAIN code /\ code[pc].op \in {"math", "arith"}
         /\ CallInput \in DOMAIN life /\ Transient(CallInput)
         /\ life[CallInput].begin = pc - 1 /\ life[CallInput].end = pc
<1>1. pc > 1 /\ InScratch(pc - 1) /\ CallInput = code[pc - 1].dst
  BY DEF CallInput
<1>2. pc - 1 \in Int /\ pc - 1 >= 1 /\ (pc - 1) + 1 = pc
  BY <1>1
<1> QED BY <1>1, <1>2, ScratchFacts

\* Every operand is where the machine looks for it.
LEMMA FetchedHolds ==
  ASSUME NEW from, Going(from), pc \in DOMAIN code, NEW x \in Reads(code, pc)
  PROVE  x \in DOMAIN life /\ x \notin Cached /\ Fetched(x) = meant[x]
<1>1. Compiled /\ ValuesHeld /\ KeptHeld
  BY DEF Going, Runs
<1>2. x \in DOMAIN life /\ x \notin Cached /\ x \in Values(program) /\ x # None
  BY <1>1, OperandFacts, CodeFacts
<1>3. CASE Transient(x)
  BY <1>1, <1>2, <1>3, ReadIsLive DEF ValuesHeld
<1>4. CASE x \in kept
  <2>1. x # CallInput
    BY <1>1, <1>2, <1>4, InputFacts, CodeFacts DEF Transient
  <2>2. Current(x)
    <3>1. Min(Touches(code, x)) <= pc /\ Min(Touches(code, x)) \in DOMAIN code
      BY <1>1, <1>2, <1>4, KeptFacts DEF Touches
    <3>2. life[x].load \/ Min(Touches(code, x)) # pc
      BY <1>1, <1>2, <1>4, KeptFacts
    <3> QED BY <3>1, <3>2, <1>1, CodeFacts DEF Current
  <2> QED BY <2>1, <2>2, <1>1, <1>2, <1>4 DEF KeptHeld, Fetched, Content
<1> QED BY <1>2, <1>3, <1>4 DEF Transient

\* Where a transient value is written, another that is still live has its
\* register only if it is read there for the last time, or in a field's.
LEMMA Intruder ==
  ASSUME Compiled, NEW from, LayoutOK(phys, from),
         NEW x \in DOMAIN life, Transient(x), NEW y \in DOMAIN life, Transient(y), x # y,
         Live(y, life[x].begin), phys[y] = phys[x], phys[x] # None
  PROVE  HandsOver(y, x) \/ \E f \in Cached : phys[f] = phys[x]
<1>1. Separate(x, y) \/ \E f \in Cached : phys[f] = phys[x]
  BY DEF LayoutOK
<1>2. /\ life[x].begin \in DOMAIN code /\ life[x].end \in DOMAIN code /\ life[x].begin <= life[x].end
      /\ life[y].begin \in DOMAIN code /\ life[y].end \in DOMAIN code
  BY TransientFacts
<1>3. life[y].begin < life[x].begin /\ life[x].begin <= life[y].end
  BY DEF Live
<1>4. ~HandsOver(x, y)
  BY <1>2, <1>3, CodeFacts DEF HandsOver
<1> QED BY <1>1, <1>2, <1>3, <1>4, CodeFacts DEF Separate

\* A value that has the register of a field is computed for it or loaded from it.
LEMMA InFieldRegister ==
  ASSUME Compiled, NEW from, LayoutOK(phys, from), NEW f \in Cached, phys[f] # None,
         NEW x \in DOMAIN life, Transient(x), phys[x] = phys[f], life[x].begin >= from
  PROVE  code[life[x].begin].op \in {"load", "arith"}
<1>1. x \in Residents(phys, from, f)
  BY DEF Residents
<1>2. CASE Simple(phys, from, f)
  BY <1>1, <1>2 DEF Simple, AliasOf
<1>3. ASSUME NEW w \in DOMAIN code, NEW a \in DOMAIN life, Turns(phys, from, f, w, a)
      PROVE  code[life[x].begin].op \in {"load", "arith"}
  BY <1>1, <1>3 DEF Turns, AliasOf, Computed
<1> QED BY <1>2, <1>3 DEF LayoutOK

\* Every operand is what it means, past d0 and a select's early write.
LEMMA OperandHolds ==
  ASSUME NEW from, Going(from), Derived, pc \in DOMAIN code, NEW n \in DOMAIN code[pc].args
  PROVE  Operand(n) = meant[code[pc].args[n]]
<1> DEFINE i == code[pc]
           x == i.args[n]
           loaded == i.args[1] # CallInput /\ (i.op = "math" \/ phys[i.args[1]] = None)
<1>1. Compiled /\ LayoutOK(phys, from) /\ pc \in from..(Len(code) + 1)
  BY DEF Going, Runs
<1>2. x \in Reads(code, pc) /\ x \in DOMAIN life /\ x \notin Cached /\ Fetched(x) = meant[x]
  <2>1. x \in Reads(code, pc)
    BY DEF Reads, ToSet
  <2> QED BY <2>1, FetchedHolds
<1>3. ~(n = 2 /\ x = CallInput /\ loaded)
  <2> SUFFICES ASSUME n = 2, x = CallInput, loaded PROVE FALSE
    OBVIOUS
  <2>1. x # None
    BY <1>1, <1>2, OperandFacts, CodeFacts
  <2>2. InScratch(pc - 1) /\ CallInput = code[pc - 1].dst /\ i.op \in {"math", "arith"} /\ pc \in Int
    BY <2>1, <1>1, InputFacts, CodeFacts
  <2>3. 1 \in DOMAIN i.args
    BY <2>2, <1>1, CodeFacts DEF Shape
  <2>4. i.args[1] \in DOMAIN life
    BY <2>3, <1>1, OperandFacts DEF Reads, ToSet
  <2>5. (pc - 1) + 1 = pc
    BY <2>2
  <2>6. i.args[1] = CallInput \/ (i.op # "math" /\ settled[i.args[1]] # None)
    BY <2>2, <2>5 DEF InScratch
  <2> QED BY <2>4, <2>6 DEF Derived
<1>4. ~(i.op = "select" /\ n = 1 /\ phys[x] # None /\ phys[x] = phys[i.dst])
  <2> SUFFICES ASSUME i.op = "select", phys[x] # None, phys[x] = phys[i.dst] PROVE FALSE
    OBVIOUS
  <2> DEFINE d == i.dst
  <2>1. d # None /\ d \in DOMAIN life /\ d \notin Cached
    BY <1>1, CodeFacts, OperandFacts DEF Shape
  <2>2. d # x
    BY <2>1, <1>1, <1>2, CodeFacts DEF SingleAssignment
  <2>3. d \notin kept /\ x \notin kept
    BY <2>1, <2>2, <1>1, <1>2 DEF LayoutOK
  <2>4. Transient(d) /\ Transient(x)
    BY <2>1, <2>3, <1>2 DEF Transient
  <2>5. life[d].begin = pc /\ Live(x, pc)
    BY <2>1, <2>4, <1>1, <1>2, TransientFacts, ReadIsLive
  <2>6. HandsOver(x, d) \/ \E f \in Cached : phys[f] = phys[d]
    BY <2>1, <2>2, <2>4, <2>5, <1>1, <1>2, Intruder
  <2>7. ~HandsOver(x, d)
    BY <2>5 DEF HandsOver, Reuses
  <2>8. PICK f \in Cached : phys[f] = phys[d]
    BY <2>6, <2>7
  <2>9. life[d].begin >= from
    BY <2>5, <1>1, CodeFacts DEF Going
  <2> QED BY <2>1, <2>4, <2>5, <2>8, <2>9, <1>1, InFieldRegister
<1> QED BY <1>2, <1>3, <1>4 DEF Operand

\* A load finds in the register of a field what the field holds.
LEMMA CellHolds ==
  ASSUME NEW from, Going(from), pc \in DOMAIN code, code[pc].op = "load",
         NEW f \in Cached, code[pc].field = f
  PROVE  Content(f) = meant[f]
<1>1. Compiled /\ LayoutOK(phys, from) /\ pc \in from..(Len(code) + 1) /\ FieldsHeld(from)
      /\ StoresDone(from) /\ from \in Int /\ pc \in Nat /\ from <= pc
  BY CodeFacts DEF Going, Runs
<1>2. CASE phys[f] = None
  BY <1>1, <1>2 DEF FieldsHeld, Content
<1>3. CASE phys[f] # None /\ Simple(phys, from, f)
  BY <1>1, <1>3 DEF FieldsHeld, Content
<1>4. ASSUME NEW w \in DOMAIN code, NEW a \in DOMAIN life, Turns(phys, from, f, w, a), phys[f] # None
      PROVE  Content(f) = meant[f]
  <2>1. Content(f) = IF pc <= w THEN meant[f] ELSE meant[a]
    BY <1>1, <1>4 DEF FieldsHeld, Content
  <2>2. Stores(phys, from, f, f, w, a) /\ Straight(from)
    BY <1>4 DEF Turns, Sharers
  <2>3. PICK s \in DOMAIN code :
          /\ OnlyStore(f, from, s) /\ code[s].args[1] = a /\ w <= s
          /\ \A k \in LoadsOf(f) : from <= k /\ k < s => k < w
    BY <2>2 DEF Stores
  <2>4. pc \in LoadsOf(f) /\ pc # s
    BY <2>3 DEF LoadsOf, OnlyStore, StoresTo
  <2>5. pc < s => pc <= w
    BY <2>3, <2>4, <1>1, CodeFacts
  <2>6. s < pc => meant[f] = meant[a]
    BY <2>2, <2>3, <1>1 DEF StoresDone
  <2> QED BY <2>1, <2>4, <2>5, <2>6, <1>1, CodeFacts
<1> QED BY <1>1, <1>2, <1>3, <1>4 DEF LayoutOK

(***************************************************************************)
(* An instruction that writes a result.                                    *)
(***************************************************************************)

\* Instruction pc writes v, as its meaning is, in an order of registers `regs'
\* that keeps what is needed after it; a load from a register finds v there.
Writes(from, regs, v) ==
  LET x == code[pc].dst IN
  /\ Going(from) /\ Places /\ pc \in DOMAIN code /\ x # None
  /\ UNCHANGED plan /\ UNCHANGED layout /\ phys' = phys /\ pc' = pc + 1
  /\ Define(regs, v, v)
  /\ DOMAIN regs = DOMAIN registers
  /\ \A y \in DOMAIN life :
       phys[y] # None /\ (~Transient(y) \/ (Live(y, pc) /\ pc < life[y].end)) =>
         regs[phys[y]] = registers[phys[y]]
  /\ \A f \in Cached :
       code[pc].op = "load" /\ code[pc].field = f /\ phys[f] # None => v = registers[phys[f]]

\* What writing a result changes, and what it leaves.
LEMMA WriteFacts ==
  ASSUME NEW from, NEW regs, NEW v, Writes(from, regs, v)
  PROVE  LET x == code[pc].dst
             p == IF InScratch(pc) THEN Scratch ELSE phys[x] IN
         /\ Compiled /\ LayoutOK(phys, from) /\ Len(code) \in Nat /\ DOMAIN code = 1..Len(code)
         /\ from \in Nat /\ pc \in Nat /\ from <= pc /\ 1 <= pc
         /\ from = 1 \/ from = control + 1
         /\ x \in DOMAIN life /\ x \in Items(program) /\ x \notin Cached /\ x \notin Fields(program)
         /\ \A y \in DOMAIN life : phys[y] \in Physical \cup {None}
         /\ Scratch \notin Physical /\ None \notin Physical /\ Scratch # None
         /\ \A y \in Items(program) : y # x => memory'[y] = memory[y] /\ meant'[y] = meant[y]
         /\ meant'[x] = v
         /\ p = None => memory'[x] = v /\ registers' = regs
         /\ p # None => /\ memory' = memory /\ registers'[p] = v
                        /\ \A q \in Physical \cup {Scratch} : q # p => registers'[q] = regs[q]
         /\ Places'
         /\ CallInput' = IF InScratch(pc) THEN x ELSE None
<1> DEFINE x == code[pc].dst
           p == IF InScratch(pc) THEN Scratch ELSE phys[x]
<1>1. /\ Going(from) /\ Places /\ pc \in DOMAIN code /\ x # None
      /\ UNCHANGED plan /\ UNCHANGED layout /\ phys' = phys /\ pc' = pc + 1
      /\ Define(regs, v, v) /\ DOMAIN regs = DOMAIN registers
  BY DEF Writes
<1>2. /\ Compiled /\ LayoutOK(phys, from) /\ Len(code) \in Nat /\ DOMAIN code = 1..Len(code)
      /\ from \in Nat /\ pc \in Nat /\ from <= pc /\ 1 <= pc /\ (from = 1 \/ from = control + 1)
  BY <1>1, CodeFacts DEF Going, Runs
<1>3. x \in DOMAIN life /\ x \in Items(program) /\ x \notin Cached /\ x \notin Fields(program)
  <2>1. x \in DOMAIN life /\ x \notin Cached /\ x \in Values(program)
    BY <1>1, <1>2, OperandFacts
  <2> QED BY <2>1, <1>2, CodeFacts DEF Items
<1>4. \A y \in DOMAIN life : phys[y] \in Physical \cup {None}
  BY <1>2 DEF LayoutOK
<1>5. Scratch \notin Physical /\ None \notin Physical /\ Scratch # None
  BY RegistersAssumption
<1>6. /\ registers' = IF p = None THEN regs ELSE [regs EXCEPT ![p] = v]
      /\ memory' = IF p = None THEN [memory EXCEPT ![x] = v] ELSE memory
      /\ meant' = [meant EXCEPT ![x] = v]
  BY <1>1 DEF Define
<1>7. DOMAIN registers = Physical \cup {Scratch} /\ DOMAIN memory = Items(program) /\ DOMAIN meant = Items(program)
  BY <1>1 DEF Places
<1>8. p \in Physical \cup {Scratch, None}
  BY <1>3, <1>4
<1>9. Places'
  <2>1. Items(program)' = Items(program)
    BY <1>1, PlanStays DEF Items, Values, Fields
  <2> HIDE DEF p, x
  <2> QED BY <2>1, <1>1, <1>6, <1>7 DEF Places
<1>10. CallInput' = IF InScratch(pc) THEN x ELSE None
  <2>1. pc' > 1 /\ pc' - 1 = pc
    BY <1>1, <1>2
  <2>2. InScratch(pc - 1)' <=> InScratch(pc)
    BY <2>1, <1>1, PlanStays DEF InScratch, layout
  <2> QED BY <2>1, <2>2, <1>1, PlanStays DEF CallInput
<1>11. /\ \A y \in Items(program) : y # x => memory'[y] = memory[y] /\ meant'[y] = meant[y]
       /\ meant'[x] = v
       /\ p = None => memory'[x] = v /\ registers' = regs
  <2> HIDE DEF p, x
  <2> QED BY <1>3, <1>6, <1>7
<1>12. p # None => /\ memory' = memory /\ registers'[p] = v
                   /\ \A q \in Physical \cup {Scratch} : q # p => registers'[q] = regs[q]
  <2> HIDE DEF p, x
  <2> QED BY <1>1, <1>6, <1>7, <1>8
<1> QED BY <1>2, <1>3, <1>4, <1>5, <1>9, <1>10, <1>11, <1>12

\* A transient value written to the register of a field is what that register
\* holds already, or what it is to hold from now on.
LEMMA WriteToField ==
  ASSUME NEW from, NEW regs, NEW v, Writes(from, regs, v), NEW f \in Cached, phys[f] # None,
         phys[code[pc].dst] = phys[f]
  PROVE  LET x == code[pc].dst IN
         /\ Transient(x) /\ x \in Residents(phys, from, f) /\ life[x].begin = pc
         /\ Simple(phys, from, f) => v = registers[phys[f]]
         /\ \A w \in DOMAIN code, a \in DOMAIN life : Turns(phys, from, f, w, a) =>
              v = registers[phys[f]] \/ (x = a /\ w = pc)
<1> DEFINE x == code[pc].dst
<1>1. /\ Compiled /\ LayoutOK(phys, from) /\ from <= pc
      /\ x \in DOMAIN life /\ x \notin Cached /\ x # None /\ pc \in DOMAIN code
  BY WriteFacts DEF Writes
<1>2. Transient(x)
  <2>1. f \in DOMAIN life /\ f \notin kept
    BY <1>1, ItemFacts DEF Cached
  <2>2. x \notin kept
    BY <2>1, <1>1 DEF LayoutOK
  <2> QED BY <2>2, <1>1 DEF Transient
<1>3. life[x].begin = pc
  BY <1>1, <1>2, TransientFacts
<1>4. x \in Residents(phys, from, f)
  BY <1>1, <1>2, <1>3 DEF Residents
<1>5. \A g \in Sharers(phys, f) : AliasOf(x, g) => v = registers[phys[f]]
  <2> SUFFICES ASSUME NEW g \in Sharers(phys, f), AliasOf(x, g) PROVE v = registers[phys[f]]
    OBVIOUS
  <2>1. g \in Cached /\ phys[g] = phys[f] /\ code[pc].op = "load" /\ code[pc].field = g
    BY <1>3 DEF Sharers, AliasOf
  <2> QED BY <2>1 DEF Writes
<1>6. Simple(phys, from, f) => v = registers[phys[f]]
  BY <1>4, <1>5 DEF Simple
<1>7. \A w \in DOMAIN code, a \in DOMAIN life : Turns(phys, from, f, w, a) =>
        v = registers[phys[f]] \/ (x = a /\ w = pc)
  BY <1>3, <1>4, <1>5 DEF Turns, Computed
<1> QED BY <1>2, <1>3, <1>4, <1>6, <1>7

\* Other values keep their places.
LEMMA WriteSpares ==
  ASSUME NEW from, NEW regs, NEW v, Writes(from, regs, v),
         NEW y \in DOMAIN life, y # code[pc].dst,
         y \in kept \/ (Transient(y) /\ Live(y, pc) /\ pc < life[y].end)
  PROVE  /\ phys[y] # None => registers'[phys[y]] = registers[phys[y]]
         /\ memory'[y] = memory[y] /\ meant'[y] = meant[y]
<1> DEFINE x == code[pc].dst
           p == IF InScratch(pc) THEN Scratch ELSE phys[x]
<1>1. /\ Compiled /\ LayoutOK(phys, from) /\ DOMAIN code = 1..Len(code) /\ Len(code) \in Nat
      /\ from \in Nat /\ pc \in Nat /\ from <= pc /\ (from = 1 \/ from = control + 1)
      /\ x \in DOMAIN life /\ x \notin Cached /\ x # None /\ pc \in DOMAIN code
      /\ phys[y] \in Physical \cup {None} /\ Scratch \notin Physical /\ Scratch # None
  BY WriteFacts DEF Writes
<1>2. y \in Items(program)
  BY <1>1, ItemFacts
<1>3. memory'[y] = memory[y] /\ meant'[y] = meant[y]
  BY <1>2, WriteFacts
<1>4. phys[y] # None => regs[phys[y]] = registers[phys[y]]
  BY DEF Writes, Transient
<1>5. ASSUME phys[y] # None, phys[y] # p
      PROVE  registers'[phys[y]] = registers[phys[y]]
  BY <1>1, <1>4, <1>5, WriteFacts
<1>6. ASSUME phys[y] # None, phys[y] = p
      PROVE  registers'[phys[y]] = registers[phys[y]]
  <2>1. phys[y] = phys[x] /\ ~InScratch(pc)
    BY <1>1, <1>6
  <2>2. y \notin kept /\ x \notin kept
    BY <2>1, <1>1, <1>6 DEF LayoutOK
  <2>3. Transient(y) /\ Transient(x) /\ Live(y, pc) /\ pc < life[y].end
    BY <2>2, <1>1 DEF Transient
  <2>4. life[x].begin = pc
    BY <2>3, <1>1, TransientFacts
  <2>5. HandsOver(y, x) \/ \E f \in Cached : phys[f] = phys[x]
    BY <2>1, <2>3, <2>4, <1>1, <1>6, Intruder
  <2>6. ~HandsOver(y, x)
    BY <2>3, <2>4, <1>1 DEF HandsOver
  <2>7. PICK f \in Cached : phys[f] = phys[x]
    BY <2>5, <2>6
  <2>8. phys[f] # None
    BY <2>7, <2>1, <1>6
  <2>9. /\ life[y].begin \in DOMAIN code /\ life[y].end \in DOMAIN code /\ life[y].begin < pc
        /\ code[life[y].begin].dst = y
    BY <2>3, <1>1, TransientFacts DEF Live
  <2>10. life[y].begin >= from
    BY <2>3, <2>9, <1>1, EndsInPart, CodeFacts
  <2>11. y \in Residents(phys, from, f)
    BY <2>1, <2>3, <2>7, <2>10 DEF Residents
  <2>12. v = registers[phys[f]]
    <3>1. CASE Simple(phys, from, f)
      BY <3>1, <2>7, <2>8, WriteToField
    <3>2. ASSUME NEW w \in DOMAIN code, NEW a \in DOMAIN life, Turns(phys, from, f, w, a),
                 x = a, w = pc
          PROVE  FALSE
      <4>1. PICK g \in Sharers(phys, f) : AliasOf(y, g)
        BY <2>11, <3>2 DEF Turns
      <4>2. PICK s \in DOMAIN code :
              /\ w <= s
              /\ \A k \in LoadsOf(g) :
                   from <= k /\ k < s => ~(phys[code[k].dst] = phys[f] /\ life[code[k].dst].end > w)
        BY <3>2 DEF Turns, Stores
      <4>3. life[y].begin \in LoadsOf(g) /\ from <= life[y].begin /\ life[y].begin < s
        BY <4>1, <4>2, <2>9, <2>10, <3>2, <1>1 DEF AliasOf, LoadsOf
      <4> QED BY <4>2, <4>3, <2>1, <2>3, <2>7, <2>9, <3>2
    <3>3. CASE \E w \in DOMAIN code, a \in DOMAIN life : Turns(phys, from, f, w, a)
      BY <3>2, <3>3, <2>7, <2>8, WriteToField
    <3> QED BY <3>1, <3>3, <2>8, <1>1 DEF LayoutOK
  <2>13. registers'[p] = v
    BY <2>1, <1>6, WriteFacts
  <2> QED BY <2>7, <2>12, <2>13, <1>6, <2>1
<1> QED BY <1>3, <1>5, <1>6

\* Transient values that are still needed survive the write of a result.
LEMMA WriteKeepsValues ==
  ASSUME NEW from, NEW regs, NEW v, Writes(from, regs, v)
  PROVE  ValuesHeld'
<1> DEFINE x == code[pc].dst
<1>1. /\ Compiled /\ pc \in Nat /\ x \in DOMAIN life /\ x # None /\ pc \in DOMAIN code
      /\ CallInput' = IF InScratch(pc) THEN x ELSE None
      /\ ValuesHeld /\ phys' = phys /\ pc' = pc + 1 /\ UNCHANGED <<life, code>>
      /\ \A y : Transient(y)' <=> Transient(y)
  BY WriteFacts, PlanStays DEF Writes, Going, Runs
<1>2. SUFFICES ASSUME NEW y \in DOMAIN life, Transient(y), life[y].begin < pc + 1, pc + 1 <= life[y].end
               PROVE  Fetched(y)' = meant'[y]
  BY <1>1 DEF ValuesHeld, Live
<1>3. /\ life[y].begin \in DOMAIN code /\ code[life[y].begin].dst = y /\ y # None
      /\ \A k \in DOMAIN code : code[k].dst = y => k = life[y].begin
      /\ life[y].begin \in Nat /\ life[y].end \in Nat
  BY <1>1, <1>2, TransientFacts, CodeFacts
<1>4. CASE y = x
  <2>1. CASE InScratch(pc)
    BY <2>1, <1>1, <1>4, WriteFacts DEF Fetched
  <2>2. CASE ~InScratch(pc)
    <3>1. y # CallInput'
      BY <2>2, <1>1, <1>3
    <3>2. phys[x] = None => memory'[x] = v
      BY <2>2, WriteFacts
    <3>3. phys[x] # None => registers'[phys[x]] = v
      BY <2>2, WriteFacts
    <3>4. meant'[x] = v
      BY WriteFacts
    <3> QED BY <3>1, <3>2, <3>3, <3>4, <1>1, <1>4 DEF Fetched, Content
  <2> QED BY <2>1, <2>2
<1>5. CASE y # x
  <2>1. Live(y, pc) /\ pc < life[y].end
    BY <1>1, <1>2, <1>3, <1>5 DEF Live
  <2>2. Fetched(y) = meant[y]
    BY <2>1, <1>1, <1>2 DEF ValuesHeld
  <2>3. y # CallInput
    BY <2>1, <1>1, <1>3, InputFacts
  <2>4. y # CallInput'
    BY <1>1, <1>3, <1>5
  <2>5. /\ phys[y] # None => registers'[phys[y]] = registers[phys[y]]
        /\ memory'[y] = memory[y] /\ meant'[y] = meant[y]
    BY <2>1, <1>2, <1>5, WriteSpares
  <2> QED BY <2>2, <2>3, <2>4, <2>5, <1>1 DEF Fetched, Content
<1> QED BY <1>4, <1>5

\* Retained values survive it, or are what was written.
LEMMA WriteKeepsKept ==
  ASSUME NEW from, NEW regs, NEW v, Writes(from, regs, v)
  PROVE  KeptHeld'
<1> DEFINE x == code[pc].dst
<1>1. /\ Compiled /\ pc \in Nat /\ x \in DOMAIN life /\ x # None /\ pc \in DOMAIN code
      /\ KeptHeld /\ phys' = phys /\ pc' = pc + 1 /\ UNCHANGED <<life, code, kept>>
      /\ kept \subseteq Items(program)
  BY WriteFacts, PlanStays, CodeFacts DEF Writes, Going, Runs, Items
<1>2. SUFFICES ASSUME NEW y \in kept
               PROVE  /\ y \notin DOMAIN life => memory'[y] = meant'[y]
                      /\ y \in DOMAIN life =>
                           /\ phys[y] = None \/ ~life[y].written => memory'[y] = meant'[y]
                           /\ phys[y] # None /\ Current(y)' => registers'[phys[y]] = meant'[y]
  BY <1>1 DEF KeptHeld
<1>3. CASE y \notin DOMAIN life
  BY <1>1, <1>2, <1>3, WriteFacts DEF KeptHeld
<1>4. CASE y \in DOMAIN life /\ y # x
  <2>1. /\ phys[y] # None => registers'[phys[y]] = registers[phys[y]]
        /\ memory'[y] = memory[y] /\ meant'[y] = meant[y]
    BY <1>4, WriteSpares
  <2>2. Current(y)' => Current(y)
    <3>1. Min(Touches(code, y)) \in DOMAIN code /\ Min(Touches(code, y)) \in Touches(code, y)
          /\ (~life[y].load => y \notin Reads(code, Min(Touches(code, y))))
      BY <1>1, <1>4, KeptFacts
    <3>2. ~life[y].load => Min(Touches(code, y)) # pc
      BY <3>1, <1>4 DEF Touches
    <3>3. Current(y)' <=> life[y].load \/ Min(Touches(code, y)) < pc + 1
      BY <1>1 DEF Current
    <3> QED BY <3>1, <3>2, <3>3, <1>1, CodeFacts DEF Current
  <2> QED BY <2>1, <2>2, <1>1, <1>4 DEF KeptHeld
<1>5. CASE y = x
  <2>1. life[y].written
    BY <1>1, <1>5, KeptFacts
  <2>2. ~InScratch(pc)
    BY <1>1, <1>5 DEF InScratch
  <2>3. phys[x] = None => memory'[x] = v
    BY <2>2, WriteFacts
  <2>4. phys[x] # None => registers'[phys[x]] = v
    BY <2>2, WriteFacts
  <2>5. meant'[x] = v
    BY WriteFacts
  <2> QED BY <2>1, <2>3, <2>4, <2>5, <1>1, <1>5
<1> QED BY <1>3, <1>4, <1>5

\* What the source of a field's only store is.
LEMMA SourceFacts ==
  ASSUME Compiled, NEW s \in DOMAIN code, code[s].op \in {"store", "storeAt"}
  PROVE  LET a == code[s].args[1] IN
         /\ a \in Reads(code, s) /\ Reads(code, s) = {a} /\ a \in DOMAIN life /\ a # None /\ a \notin Cached
         /\ \A k \in DOMAIN code : code[k].dst = a => k < s
         /\ code[s].dst = None
<1>1. DOMAIN code[s].args = {1}
  BY CodeFacts DEF Shape
<1>2. Reads(code, s) = {code[s].args[1]}
  BY <1>1 DEF Reads, ToSet
<1>3. code[s].dst = None
  BY CodeFacts DEF Shape
<1>4. code[s].args[1] \in Values(program)
  BY <1>2, CodeFacts
<1>5. code[s].args[1] # None
  BY <1>4, CodeFacts
<1>6. \A k \in DOMAIN code : code[k].dst = code[s].args[1] => k < s
  <2> SUFFICES ASSUME NEW k \in DOMAIN code, code[k].dst = code[s].args[1] PROVE k < s
    OBVIOUS
  <2>1. SingleAssignment(code)
    BY CodeFacts
  <2>2. code[k].dst # None /\ code[k].dst \in Reads(code, s)
    BY <1>2, <1>5
  <2> QED BY <2>1, <2>2 DEF SingleAssignment
<1> QED BY <1>2, <1>3, <1>5, <1>6, OperandFacts

\* The registers of fields survive it, or receive the field's next value.
LEMMA WriteKeepsFields ==
  ASSUME NEW from, NEW regs, NEW v, Writes(from, regs, v)
  PROVE  FieldsHeld(from)'
<1> DEFINE x == code[pc].dst
           left == InScratch(pc)
<1>1. /\ Compiled /\ LayoutOK(phys, from) /\ pc \in Nat /\ x \in DOMAIN life /\ x # None /\ pc \in DOMAIN code
      /\ x \notin Fields(program) /\ x \notin Cached
      /\ FieldsHeld(from) /\ phys' = phys /\ pc' = pc + 1 /\ UNCHANGED <<life, code, program>>
      /\ Cached' = Cached /\ Fields(program) \subseteq Items(program)
      /\ DOMAIN code = 1..Len(code) /\ Len(code) \in Nat
  BY WriteFacts, PlanStays DEF Writes, Going, Runs, Items
<1>2. \A f : Simple(phys, from, f)' <=> Simple(phys, from, f)
  BY LayoutStays DEF Writes
<1>3. \A f, w, a : Turns(phys, from, f, w, a)' <=> Turns(phys, from, f, w, a)
  BY LayoutStays DEF Writes
<1>4. \A f \in Fields(program) : memory'[f] = memory[f] /\ meant'[f] = meant[f]
  BY <1>1, WriteFacts
<1>5. \A f \in Cached : f \in Fields(program) /\ f \in DOMAIN life /\ ~Transient(f)
  BY <1>1, ItemFacts DEF Cached
<1>6. \A f \in Cached : phys[f] # None => regs[phys[f]] = registers[phys[f]]
  BY <1>5 DEF Writes
<1>7. ASSUME NEW f \in Cached, phys[f] # None
      PROVE  \/ registers'[phys[f]] = registers[phys[f]]
             \/ phys[x] = phys[f] /\ ~left /\ registers'[phys[f]] = v
  <2>1. phys[f] \in Physical /\ Scratch \notin Physical
    BY <1>5, <1>7, WriteFacts
  <2>2. CASE left
    BY <2>1, <2>2, <1>6, <1>7, WriteFacts
  <2>3. CASE ~left /\ phys[x] = phys[f]
    BY <2>3, <1>7, WriteFacts
  <2>4. CASE ~left /\ phys[x] # phys[f]
    BY <2>1, <2>4, <1>6, <1>7, WriteFacts
  <2> QED BY <2>2, <2>3, <2>4
<1>8. ASSUME NEW f \in Cached, phys[f] # None, Simple(phys, from, f)
      PROVE  registers'[phys[f]] = meant'[f]
  BY <1>1, <1>4, <1>5, <1>7, <1>8, WriteToField DEF FieldsHeld
<1>9. ASSUME NEW f \in Cached, NEW w \in DOMAIN code, NEW a \in DOMAIN life,
             phys[f] # None, Turns(phys, from, f, w, a)
      PROVE  registers'[phys[f]] = IF pc + 1 <= w THEN meant'[f] ELSE meant'[a]
  <2>1. registers[phys[f]] = IF pc <= w THEN meant[f] ELSE meant[a]
    BY <1>1, <1>9 DEF FieldsHeld
  <2>2. registers'[phys[f]] = registers[phys[f]]
          \/ (x = a /\ w = pc /\ phys[x] = phys[f] /\ ~left /\ registers'[phys[f]] = v)
    BY <1>7, <1>9, WriteToField
  <2>3. meant'[f] = meant[f]
    BY <1>4, <1>5
  <2>4. PICK s \in DOMAIN code : OnlyStore(f, from, s) /\ code[s].args[1] = a /\ w <= s
    BY <1>9 DEF Turns, Stores, Sharers
  <2>5. code[s].op = "store" /\ a \in Reads(code, s)
    BY <2>4, <1>1, SourceFacts DEF OnlyStore, StoresTo
  <2>6. CASE pc < w
    BY <2>1, <2>2, <2>3, <2>6, <1>1
  <2>7. CASE pc = w
    <3>1. Computed(phys, from, f, w, a)
      <4> SUFFICES ASSUME NEW g \in Sharers(phys, f), w \in StoresTo(g) PROVE FALSE
        BY <1>9 DEF Turns
      <4> QED BY <2>7, <1>1, SourceFacts DEF StoresTo
    <3>2. /\ Transient(a) /\ phys[a] = phys[f] /\ life[a].begin = w /\ code[w].op = "arith"
      BY <3>1 DEF Computed, Residents
    <3>3. x = a
      BY <3>2, <2>7, <1>1, TransientFacts
    <3>4. ~left
      <4> SUFFICES ASSUME left PROVE FALSE
        OBVIOUS
      <4>1. life[a].end = pc + 1 /\ code[pc + 1].op \in {"math", "arith"}
        BY <3>3, <1>1, ScratchFacts
      <4>2. s <= life[a].end /\ s # w
        BY <2>5, <3>2, <1>1, TransientFacts
      <4>3. s = pc + 1
        BY <4>1, <4>2, <2>4, <2>7, <1>1
      <4> QED BY <4>1, <4>3, <2>5
    <3>5. registers'[phys[f]] = v /\ meant'[a] = v
      BY <3>2, <3>3, <3>4, <1>9, WriteFacts
    <3> QED BY <3>5, <2>7, <1>1
  <2>8. CASE pc > w
    <3>1. x # a
      <4>1. CASE Computed(phys, from, f, w, a)
        <5>1. Transient(a) /\ life[a].begin = w
          BY <4>1 DEF Computed, Residents
        <5> QED BY <5>1, <2>8, <1>1, TransientFacts
      <4>2. ASSUME NEW g \in Sharers(phys, f), w \in StoresTo(g) PROVE x # a
        <5>1. PICK t \in DOMAIN code : OnlyStore(g, from, t) /\ code[t].args[1] = a
          BY <1>9, <4>2 DEF Turns, Stores
        <5>2. w = t
          BY <5>1, <4>2, <1>9 DEF OnlyStore, Turns
        <5> QED BY <5>1, <5>2, <4>2, <2>8, <1>1, SourceFacts DEF StoresTo
      <4> QED BY <4>1, <4>2, <1>9 DEF Turns
    <3>2. meant'[a] = meant[a]
      BY <3>1, <1>1, <1>9, ItemFacts, WriteFacts
    <3> QED BY <3>2, <2>1, <2>2, <2>8, <1>1
  <2> QED BY <2>6, <2>7, <2>8, <1>1
<1>10. \A f \in Fields(program) : f \notin Cached => memory'[f] = meant'[f]
  BY <1>1, <1>4 DEF FieldsHeld
<1>11. \A f \in Cached : phys[f] = None \/ ~life[f].written => memory'[f] = meant'[f]
  BY <1>1, <1>4, <1>5 DEF FieldsHeld
<1> QED BY <1>1, <1>2, <1>3, <1>8, <1>9, <1>10, <1>11 DEF FieldsHeld

\* A result is not a field: what was stored is what it was.
LEMMA WriteKeepsStores ==
  ASSUME NEW from, NEW regs, NEW v, Writes(from, regs, v), NEW start, StoresDone(start)
  PROVE  StoresDone(start)'
<1> DEFINE x == code[pc].dst
<1>1. /\ Compiled /\ pc \in Nat /\ x \in DOMAIN life /\ x # None /\ pc \in DOMAIN code
      /\ x \notin Fields(program) /\ pc' = pc + 1 /\ UNCHANGED <<life, code, program>>
      /\ Cached' = Cached
  BY WriteFacts, PlanStays DEF Writes
<1>2. SUFFICES ASSUME Straight(start), NEW f \in Cached, NEW s \in DOMAIN code,
                      OnlyStore(f, start, s), s < pc + 1
               PROVE  meant'[f] = meant'[code[s].args[1]]
  BY <1>1, PlanStays DEF StoresDone, Writes
<1>3. code[s].op = "store"
  BY <1>2 DEF OnlyStore, StoresTo
<1>4. /\ code[s].args[1] \in DOMAIN life /\ code[s].dst = None
      /\ \A k \in DOMAIN code : code[k].dst = code[s].args[1] => k < s
  BY <1>1, <1>3, SourceFacts
<1>5. s < pc
  BY <1>1, <1>2, <1>4, CodeFacts
<1>6. code[s].args[1] # x
  BY <1>1, <1>4, <1>5, CodeFacts
<1>7. code[s].args[1] \in Items(program) /\ f \in Items(program) /\ f # x
  BY <1>1, <1>4, ItemFacts DEF Cached
<1>8. meant'[f] = meant[f] /\ meant'[code[s].args[1]] = meant[code[s].args[1]]
  BY <1>6, <1>7, WriteFacts
<1> QED BY <1>2, <1>5, <1>8 DEF StoresDone

(***************************************************************************)
(* A store.                                                                *)
(***************************************************************************)

\* The store at pc, of a value that is what it means.
Storing(from) ==
  /\ Going(from) /\ Derived /\ Places /\ StoreCell

\* What a store changes, and what it leaves.
LEMMA StoreFacts ==
  ASSUME NEW from, Storing(from)
  PROVE  LET f == code[pc].field
             a == code[pc].args[1] IN
         /\ Compiled /\ LayoutOK(phys, from) /\ Len(code) \in Nat /\ DOMAIN code = 1..Len(code)
         /\ from \in Nat /\ pc \in DOMAIN code /\ pc \in Nat /\ from <= pc
         /\ from = 1 \/ from = control + 1
         /\ UNCHANGED plan /\ UNCHANGED layout /\ phys' = phys /\ pc' = pc + 1
         /\ f \in Fields(program) /\ f \in Items(program) /\ f \notin Values(program)
         /\ a \in DOMAIN life /\ a \in Items(program) /\ a # f
         /\ f \in Cached => code[pc].op = "store" /\ pc \in StoresTo(f) /\ f \in DOMAIN life
                            /\ life[f].written
         /\ \A y \in DOMAIN life : phys[y] \in Physical \cup {None}
         /\ \A y \in Items(program) : y # f => memory'[y] = memory[y] /\ meant'[y] = meant[y]
         /\ meant'[f] = meant[a] /\ meant'[a] = meant[a]
         /\ f \notin Cached \/ phys[f] = None => memory'[f] = meant[a] /\ registers' = registers
         /\ f \in Cached /\ phys[f] # None =>
              /\ memory' = memory /\ registers'[phys[f]] = meant[a]
              /\ \A q \in Physical : q # phys[f] => registers'[q] = registers[q]
         /\ Places' /\ CallInput' = None
         /\ code[pc].dst = None
<1> DEFINE f == code[pc].field
           a == code[pc].args[1]
           cached == code[pc].op = "store" /\ f \in Cached /\ phys[f] # None
<1>1. /\ Compiled /\ LayoutOK(phys, from) /\ Len(code) \in Nat /\ DOMAIN code = 1..Len(code)
      /\ from \in Nat /\ pc \in DOMAIN code /\ pc \in Nat /\ from <= pc
      /\ from = 1 \/ from = control + 1
  BY CodeFacts DEF Storing, Going, Runs, StoreCell, Running
<1>2. /\ UNCHANGED plan /\ UNCHANGED layout /\ phys' = phys /\ pc' = pc + 1
      /\ code[pc].op \in {"store", "storeAt"}
  BY DEF Storing, StoreCell, Step, Goto, Running
<1>3. pc \in Accesses(code)
  BY <1>1, <1>2 DEF Accesses
<1>4. f \in Fields(program) /\ f \notin Values(program)
  BY <1>1, <1>3, CodeFacts DEF FieldsIn
<1>5. a \in DOMAIN life /\ code[pc].dst = None /\ a \notin Cached
  BY <1>1, <1>2, SourceFacts
<1>6. a \in Values(program)
  BY <1>1, <1>2, SourceFacts, OperandFacts
<1>7. f \in Items(program) /\ a \in Items(program) /\ a # f
  BY <1>4, <1>6 DEF Items
<1>8. f \in Cached => code[pc].op = "store" /\ pc \in StoresTo(f) /\ f \in DOMAIN life /\ life[f].written
  <2> SUFFICES ASSUME f \in Cached
               PROVE  code[pc].op = "store" /\ pc \in StoresTo(f) /\ f \in DOMAIN life /\ life[f].written
    OBVIOUS
  <2>1. f \in DOMAIN life
    BY DEF Cached
  <2>2. f \in CacheableIn(code, band) /\ life[f] = LifeOf(code, band, control, f)
    BY <2>1, <1>1, ItemFacts
  <2>3. code[pc].op # "storeAt"
    BY <2>2, <1>3 DEF CacheableIn
  <2>4. code[pc].op = "store"
    BY <2>3, <1>2
  <2>5. life[f].written
    BY <2>2, <2>4, <1>1 DEF LifeOf
  <2> QED BY <2>1, <2>4, <2>5, <1>1 DEF StoresTo
<1>9. \A y \in DOMAIN life : phys[y] \in Physical \cup {None}
  BY <1>1 DEF LayoutOK
<1>10. Operand(1) = meant[a]
  <2>1. 1 \in DOMAIN code[pc].args
    BY <1>1, <1>2, CodeFacts DEF Shape
  <2> QED BY <2>1, <1>1, OperandHolds DEF Storing
<1>11. /\ registers' = IF cached THEN [registers EXCEPT ![phys[f]] = Operand(1)] ELSE registers
       /\ memory' = IF cached THEN memory ELSE [memory EXCEPT ![f] = Operand(1)]
       /\ meant' = [meant EXCEPT ![f] = meant[a]]
  BY DEF Storing, StoreCell
<1>12. DOMAIN registers = Physical \cup {Scratch} /\ DOMAIN memory = Items(program) /\ DOMAIN meant = Items(program)
  BY DEF Places, Storing
<1>13. cached <=> f \in Cached /\ phys[f] # None
  BY <1>8
<1> HIDE DEF cached
<1>14. Places'
  <2>1. Items(program)' = Items(program)
    BY <1>2, PlanStays DEF Items, Values, Fields
  <2> HIDE DEF f, a
  <2> QED BY <2>1, <1>11, <1>12 DEF Places
<1>15. CallInput' = None
  <2>1. pc' - 1 = pc
    BY <1>1, <1>2
  <2>2. ~InScratch(pc - 1)'
    BY <2>1, <1>2, <1>5, PlanStays DEF InScratch
  <2> QED BY <2>2 DEF CallInput
<1>16. /\ \A y \in Items(program) : y # f => memory'[y] = memory[y] /\ meant'[y] = meant[y]
       /\ meant'[f] = meant[a] /\ meant'[a] = meant[a]
  <2> HIDE DEF f, a
  <2> QED BY <1>7, <1>11, <1>12
<1>17. f \notin Cached \/ phys[f] = None => memory'[f] = meant[a] /\ registers' = registers
  <2> HIDE DEF f, a
  <2> QED BY <1>7, <1>10, <1>11, <1>12, <1>13
<1>18. f \in Cached /\ phys[f] # None =>
         /\ memory' = memory /\ registers'[phys[f]] = meant[a]
         /\ \A q \in Physical : q # phys[f] => registers'[q] = registers[q]
  <2> SUFFICES ASSUME f \in Cached, phys[f] # None
               PROVE  /\ memory' = memory /\ registers'[phys[f]] = meant[a]
                      /\ \A q \in Physical : q # phys[f] => registers'[q] = registers[q]
    OBVIOUS
  <2>1. phys[f] \in Physical
    BY <1>8, <1>9
  <2> HIDE DEF f, a
  <2> QED BY <2>1, <1>10, <1>11, <1>12, <1>13
<1> QED BY <1>1, <1>2, <1>4, <1>5, <1>7, <1>8, <1>9, <1>14, <1>15, <1>16, <1>17, <1>18

\* Transient values that are still needed survive a store.
LEMMA StoreKeepsValues ==
  ASSUME NEW from, Storing(from)
  PROVE  ValuesHeld'
<1> DEFINE f == code[pc].field
           v == meant[code[pc].args[1]]
<1>1. /\ Compiled /\ LayoutOK(phys, from) /\ Len(code) \in Nat /\ DOMAIN code = 1..Len(code)
      /\ from \in Nat /\ pc \in DOMAIN code /\ pc \in Nat /\ from <= pc /\ (from = 1 \/ from = control + 1)
      /\ phys' = phys /\ pc' = pc + 1 /\ CallInput' = None /\ code[pc].dst = None
      /\ f \notin Values(program)
  BY StoreFacts
<1>2. /\ ValuesHeld /\ UNCHANGED <<life, code>> /\ \A y : Transient(y)' <=> Transient(y)
      /\ FieldsHeld(from)
  BY StoreFacts, PlanStays DEF Storing, Going, Runs
<1>3. SUFFICES ASSUME NEW y \in DOMAIN life, Transient(y), life[y].begin < pc + 1, pc + 1 <= life[y].end
               PROVE  Fetched(y)' = meant'[y]
  BY <1>1, <1>2 DEF ValuesHeld, Live
<1>4. /\ life[y].begin \in DOMAIN code /\ code[life[y].begin].dst = y /\ y # None
      /\ life[y].begin \in Nat /\ life[y].end \in Nat /\ y \in Items(program) /\ y \in Values(program)
  BY <1>1, <1>3, TransientFacts, ItemFacts
<1>5. Live(y, pc) /\ pc < life[y].end /\ life[y].begin < pc
  BY <1>1, <1>3, <1>4 DEF Live
<1>6. Fetched(y) = meant[y] /\ y # CallInput /\ y # CallInput'
  BY <1>1, <1>2, <1>3, <1>4, <1>5, InputFacts DEF ValuesHeld
<1>7. memory'[y] = memory[y] /\ meant'[y] = meant[y]
  BY <1>1, <1>4, StoreFacts
<1>8. phys[y] # None => registers'[phys[y]] = registers[phys[y]]
  <2>1. phys[y] \in Physical \cup {None}
    BY StoreFacts
  <2>2. CASE f \notin Cached \/ phys[f] = None
    BY <2>2, StoreFacts
  <2>3. CASE f \in Cached /\ phys[f] # None /\ phys[y] # phys[f]
    BY <2>1, <2>3, StoreFacts
  <2>4. CASE f \in Cached /\ phys[f] # None /\ phys[y] = phys[f]
    <3>1. registers'[phys[f]] = v /\ pc \in StoresTo(f)
      BY <2>4, StoreFacts
    <3>2. life[y].begin >= from
      BY <1>1, <1>3, <1>4, <1>5, EndsInPart, CodeFacts
    <3>3. y \in Residents(phys, from, f)
      BY <3>2, <2>4, <1>3 DEF Residents
    <3>4. ~Simple(phys, from, f)
      <4> SUFFICES ASSUME Simple(phys, from, f) PROVE FALSE
        OBVIOUS
      <4>1. AliasOf(y, f)
        BY <3>3 DEF Simple
      <4> QED BY <4>1, <3>1, <1>4, <1>5 DEF AliasOf, StoredMeanwhile
    <3>5. PICK w \in DOMAIN code, a \in DOMAIN life : Turns(phys, from, f, w, a)
      BY <3>4, <2>4, <1>1 DEF LayoutOK
    <3>6. PICK s \in DOMAIN code : OnlyStore(f, from, s) /\ code[s].args[1] = a /\ w <= s
      BY <3>5, <2>4 DEF Turns, Stores, Sharers
    <3>7. s = pc
      BY <3>1, <3>6, <1>1 DEF OnlyStore
    <3>8. w < pc
      <4>1. CASE y = a /\ Computed(phys, from, f, w, a)
        BY <4>1, <1>5 DEF Computed
      <4>2. ASSUME NEW g \in Sharers(phys, f), AliasOf(y, g) PROVE w < pc
        <5>1. PICK t \in DOMAIN code :
                /\ OnlyStore(g, from, t) /\ w <= t
                /\ \A k \in LoadsOf(g) :
                     from <= k /\ k < t => ~(phys[code[k].dst] = phys[f] /\ life[code[k].dst].end > w)
          BY <3>5, <4>2 DEF Turns, Stores
        <5>2. life[y].begin \in LoadsOf(g) /\ life[y].begin # t
          BY <5>1, <4>2, <1>4 DEF AliasOf, LoadsOf, OnlyStore, StoresTo
        <5>3. CASE life[y].begin < t
          <6>1. ~(life[y].end > w)
            BY <5>1, <5>2, <5>3, <3>2, <2>4, <1>4
          <6> QED BY <6>1, <3>6, <3>7, <1>1, <1>4, <1>5
        <5>4. CASE life[y].begin > t
          BY <5>1, <5>4, <1>1, <1>4, <1>5
        <5> QED BY <5>1, <5>2, <5>3, <5>4, <1>1, <1>4
      <4> QED BY <4>1, <4>2, <3>3, <3>5 DEF Turns
    <3>9. registers[phys[f]] = meant[a]
      BY <3>5, <3>8, <2>4, <1>1, <1>2 DEF FieldsHeld
    <3> QED BY <3>1, <3>6, <3>7, <3>9, <2>4
  <2> QED BY <2>2, <2>3, <2>4
<1> QED BY <1>1, <1>6, <1>7, <1>8 DEF Fetched, Content

\* Retained values survive a store.
LEMMA StoreKeepsKept ==
  ASSUME NEW from, Storing(from)
  PROVE  KeptHeld'
<1> DEFINE f == code[pc].field
<1>1. /\ Compiled /\ LayoutOK(phys, from) /\ pc \in DOMAIN code /\ pc \in Nat
      /\ phys' = phys /\ pc' = pc + 1 /\ code[pc].dst = None
      /\ f \notin Values(program) /\ \A y \in DOMAIN life : phys[y] \in Physical \cup {None}
  BY StoreFacts
<1>2. /\ KeptHeld /\ UNCHANGED <<life, code, kept>> /\ kept \subseteq Values(program)
      /\ Values(program) \subseteq Items(program) /\ None \notin Values(program)
  BY <1>1, StoreFacts, PlanStays, CodeFacts DEF Storing, Going, Runs, Items
<1>3. SUFFICES ASSUME NEW y \in kept
               PROVE  /\ y \notin DOMAIN life => memory'[y] = meant'[y]
                      /\ y \in DOMAIN life =>
                           /\ phys[y] = None \/ ~life[y].written => memory'[y] = meant'[y]
                           /\ phys[y] # None /\ Current(y)' => registers'[phys[y]] = meant'[y]
  BY <1>1, <1>2 DEF KeptHeld
<1>4. memory'[y] = memory[y] /\ meant'[y] = meant[y]
  BY <1>1, <1>2, StoreFacts
<1>5. ASSUME y \in DOMAIN life, phys[y] # None PROVE registers'[phys[y]] = registers[phys[y]]
  <2>1. CASE f \in Cached /\ phys[f] # None
    <3>1. f \in DOMAIN life /\ f # y
      BY <2>1, <1>1, <1>2 DEF Cached
    <3>2. phys[y] # phys[f]
      BY <3>1, <1>1, <1>5 DEF LayoutOK
    <3> QED BY <2>1, <3>2, <1>1, <1>5, StoreFacts
  <2>2. CASE f \notin Cached \/ phys[f] = None
    BY <2>2, StoreFacts
  <2> QED BY <2>1, <2>2
<1>6. ASSUME y \in DOMAIN life PROVE Current(y)' => Current(y)
  <2>1. Min(Touches(code, y)) \in DOMAIN code /\ Min(Touches(code, y)) \in Touches(code, y)
        /\ (~life[y].load => y \notin Reads(code, Min(Touches(code, y))))
    BY <1>1, <1>6, KeptFacts
  <2>2. ~life[y].load => Min(Touches(code, y)) # pc
    BY <2>1, <1>1, <1>2 DEF Touches
  <2>3. Current(y)' <=> life[y].load \/ Min(Touches(code, y)) < pc + 1
    BY <1>1, <1>2 DEF Current
  <2> QED BY <2>1, <2>2, <2>3, <1>1, CodeFacts DEF Current
<1> QED BY <1>2, <1>4, <1>5, <1>6 DEF KeptHeld

\* Every other field survives it, and the field stored to has its new value.
LEMMA StoreKeepsFields ==
  ASSUME NEW from, Storing(from)
  PROVE  FieldsHeld(from)'
<1> DEFINE f == code[pc].field
           v == meant[code[pc].args[1]]
<1>1. /\ Compiled /\ LayoutOK(phys, from) /\ Len(code) \in Nat /\ DOMAIN code = 1..Len(code)
      /\ from \in Nat /\ pc \in DOMAIN code /\ pc \in Nat /\ from <= pc
      /\ UNCHANGED plan /\ phys' = phys /\ pc' = pc + 1 /\ code[pc].dst = None
      /\ f \notin Values(program)
  BY StoreFacts
<1>2. /\ FieldsHeld(from) /\ UNCHANGED <<life, code, program>> /\ Cached' = Cached
      /\ Fields(program) \subseteq Items(program) /\ Values(program) \subseteq Items(program)
  BY <1>1, PlanStays DEF Storing, Going, Runs, Items
<1>3. \A g : Simple(phys, from, g)' <=> Simple(phys, from, g)
  BY <1>1, LayoutStays
<1>4. \A g, w, a : Turns(phys, from, g, w, a)' <=> Turns(phys, from, g, w, a)
  BY <1>1, LayoutStays
<1>5. \A g \in Cached : g \in Fields(program) /\ g \in DOMAIN life /\ phys[g] \in Physical \cup {None}
  BY <1>1, ItemFacts, StoreFacts DEF Cached
<1>6. \A g \in Fields(program) : g # f => memory'[g] = memory[g] /\ meant'[g] = meant[g]
  BY <1>2, StoreFacts
<1>7. meant'[f] = v
  BY StoreFacts
<1>8. \A g \in Fields(program) : g \notin Cached => memory'[g] = meant'[g]
  BY <1>2, <1>6, <1>7, StoreFacts DEF FieldsHeld
<1>9. \A g \in Cached : phys[g] = None \/ ~life[g].written => memory'[g] = meant'[g]
  BY <1>2, <1>5, <1>6, <1>7, StoreFacts DEF FieldsHeld
<1>10. ASSUME NEW g \in Cached, phys[g] # None
       PROVE  registers'[phys[g]] = IF f \in Sharers(phys, g) THEN v ELSE registers[phys[g]]
  BY <1>5, <1>10, StoreFacts DEF Sharers
<1>11. ASSUME NEW g \in Cached, phys[g] # None, Simple(phys, from, g)
       PROVE  registers'[phys[g]] = meant'[g]
  BY <1>2, <1>5, <1>6, <1>7, <1>10, <1>11 DEF FieldsHeld, Simple
<1>12. ASSUME NEW g \in Cached, NEW w \in DOMAIN code, NEW a \in DOMAIN life,
              phys[g] # None, Turns(phys, from, g, w, a)
       PROVE  registers'[phys[g]] = IF pc + 1 <= w THEN meant'[g] ELSE meant'[a]
  <2>1. registers[phys[g]] = IF pc <= w THEN meant[g] ELSE meant[a]
    BY <1>2, <1>12 DEF FieldsHeld
  <2>2. PICK s \in DOMAIN code : OnlyStore(g, from, s) /\ code[s].args[1] = a
    BY <1>12 DEF Turns, Stores, Sharers
  <2>3. a \in Values(program)
    BY <2>2, <1>1, SourceFacts, OperandFacts DEF OnlyStore, StoresTo
  <2>4. meant'[a] = meant[a]
    BY <2>3, <1>1, <1>2, StoreFacts
  <2>5. CASE f \in Sharers(phys, g)
    <3>1. PICK t \in DOMAIN code : OnlyStore(f, from, t) /\ code[t].args[1] = a /\ w <= t
      BY <2>5, <1>12 DEF Turns, Stores
    <3>2. pc \in StoresTo(f)
      BY <2>5, StoreFacts DEF Sharers
    <3>3. t = pc
      BY <3>1, <3>2, <1>1 DEF OnlyStore
    <3> QED BY <3>1, <3>3, <2>4, <2>5, <1>1, <1>10, <1>12
  <2>6. CASE f \notin Sharers(phys, g)
    <3>1. g # f
      BY <2>6, <1>12 DEF Sharers
    <3>2. w # pc
      <4> SUFFICES ASSUME w = pc PROVE FALSE
        OBVIOUS
      <4>1. code[pc].op \in {"store", "storeAt"}
        BY DEF Storing, StoreCell, Running
      <4>2. ~Computed(phys, from, g, w, a)
        BY <4>1 DEF Computed
      <4> QED BY <4>2, <2>6, <1>12 DEF Turns, StoresTo
    <3> QED BY <3>1, <3>2, <2>1, <2>4, <2>6, <1>1, <1>5, <1>6, <1>10, <1>12
  <2> QED BY <2>5, <2>6
<1> QED BY <1>1, <1>2, <1>3, <1>4, <1>8, <1>9, <1>11, <1>12 DEF FieldsHeld

\* A field that is stored once holds what was stored.
LEMMA StoreKeepsStores ==
  ASSUME NEW from, Storing(from), NEW start \in Int, StoresDone(start)
  PROVE  StoresDone(start)'
<1> DEFINE f == code[pc].field
<1>1. /\ Compiled /\ DOMAIN code = 1..Len(code) /\ Len(code) \in Nat
      /\ pc \in DOMAIN code /\ pc \in Nat /\ UNCHANGED plan /\ pc' = pc + 1
      /\ f \notin Values(program) /\ meant'[f] = meant[code[pc].args[1]]
      /\ meant'[code[pc].args[1]] = meant[code[pc].args[1]]
  BY StoreFacts
<1>2. UNCHANGED <<life, code, program>> /\ Cached' = Cached
  BY <1>1, PlanStays
<1>3. SUFFICES ASSUME Straight(start), NEW g \in Cached, NEW s \in DOMAIN code,
                      OnlyStore(g, start, s), s < pc + 1
               PROVE  meant'[g] = meant'[code[s].args[1]]
  BY <1>1, <1>2, PlanStays DEF StoresDone
<1>4. code[s].op = "store" /\ code[s].field = g /\ s >= start
  BY <1>3 DEF OnlyStore, StoresTo
<1>5. CASE s = pc
  BY <1>1, <1>4, <1>5
<1>6. CASE s < pc
  <2>1. g # f
    <3> SUFFICES ASSUME g = f PROVE FALSE
      OBVIOUS
    <3>1. pc \in StoresTo(g)
      BY StoreFacts
    <3> QED BY <3>1, <1>1, <1>3, <1>6 DEF OnlyStore
  <2>2. g \in Items(program) /\ code[s].args[1] \in Items(program) /\ code[s].args[1] # f
    BY <1>1, <1>4, SourceFacts, OperandFacts, ItemFacts DEF Cached
  <2>3. meant'[g] = meant[g] /\ meant'[code[s].args[1]] = meant[code[s].args[1]]
    BY <2>1, <2>2, StoreFacts
  <2> QED BY <2>3, <1>3, <1>6 DEF StoresDone
<1> QED BY <1>1, <1>3, <1>5, <1>6

(***************************************************************************)
(* Steps that only move on.                                                *)
(***************************************************************************)

\* Nothing is written, and what is needed at the target is needed here already.
Moving(from) ==
  /\ Going(from) /\ Places /\ pc \in DOMAIN code
  /\ UNCHANGED plan /\ UNCHANGED layout /\ UNCHANGED contents /\ phys' = phys
  /\ pc' \in from..(Len(code) + 1)
  /\ code[pc].op \notin {"store", "storeAt"} /\ code[pc].dst = None
  /\ pc' = 1 \/ (pc' - 1 \in DOMAIN code /\ code[pc' - 1].dst = None)
  /\ \A y \in DOMAIN life : Transient(y) /\ Live(y, pc') => Live(y, pc)
  /\ \A y \in kept \cap DOMAIN life : ~life[y].load /\ Min(Touches(code, y)) < pc' =>
                                        Min(Touches(code, y)) < pc
  /\ pc' = pc + 1 \/ code[pc].op \in {"guard", "loop", "endloop"}

\* A step that only moves on needs nothing that was not needed before.
LEMMA MoveKeeps ==
  ASSUME NEW from, Moving(from)
  PROVE  ValuesHeld' /\ KeptHeld' /\ FieldsHeld(from)' /\ Places'
<1>1. /\ Compiled /\ LayoutOK(phys, from) /\ Len(code) \in Nat /\ DOMAIN code = 1..Len(code)
      /\ from \in Nat /\ pc \in DOMAIN code /\ pc \in Nat /\ from <= pc /\ pc' \in Nat
      /\ ValuesHeld /\ KeptHeld /\ FieldsHeld(from)
  BY CodeFacts DEF Moving, Going, Runs
<1>2. /\ UNCHANGED plan /\ UNCHANGED layout /\ phys' = phys
      /\ UNCHANGED <<registers, memory, meant>>
      /\ code[pc].op \notin {"store", "storeAt"} /\ code[pc].dst = None
  BY DEF Moving, contents
<1>3. /\ UNCHANGED <<life, code, program, kept>> /\ Cached' = Cached
      /\ \A y : Transient(y)' <=> Transient(y)
  BY <1>2, PlanStays
<1>4. CallInput = None
  <2> SUFFICES ASSUME CallInput # None PROVE FALSE
    OBVIOUS
  <2>1. code[pc].op \in {"math", "arith"}
    BY <1>1, InputFacts
  <2> QED BY <2>1, <1>1, <1>2, CodeFacts DEF Shape
<1>5. CallInput' = None
  <2>1. pc' > 1 => code'[pc' - 1].dst = None
    BY <1>3 DEF Moving
  <2>2. pc' > 1 => ~InScratch(pc - 1)'
    BY <2>1 DEF InScratch
  <2> QED BY <2>2 DEF CallInput
<1>6. ValuesHeld'
  <2> SUFFICES ASSUME NEW y \in DOMAIN life, Transient(y), Live(y, pc')
               PROVE  Fetched(y)' = meant'[y]
    BY <1>3 DEF ValuesHeld, Live
  <2>1. Live(y, pc) /\ Fetched(y) = meant[y]
    BY <1>1 DEF Moving, ValuesHeld
  <2>2. y # None
    BY <1>1, TransientFacts
  <2> QED BY <2>1, <2>2, <1>2, <1>4, <1>5 DEF Fetched, Content
<1>7. KeptHeld'
  <2>1. \A y \in kept \cap DOMAIN life : Current(y)' => Current(y)
    BY <1>3 DEF Current, Moving
  <2> QED BY <2>1, <1>1, <1>2, <1>3 DEF KeptHeld
<1>8. FieldsHeld(from)'
  <2>1. \A g : Simple(phys, from, g)' <=> Simple(phys, from, g)
    BY <1>2, LayoutStays
  <2>2. \A g, w, a : Turns(phys, from, g, w, a)' <=> Turns(phys, from, g, w, a)
    BY <1>2, LayoutStays
  <2>3. ASSUME NEW g \in Cached, NEW w \in DOMAIN code, NEW a \in DOMAIN life,
               phys[g] # None, Turns(phys, from, g, w, a)
        PROVE  pc' <= w <=> pc <= w
    <3>1. pc' = pc + 1
      BY <2>3, <1>1 DEF Moving, Turns, Straight
    <3>2. pc # w
      <4> SUFFICES ASSUME pc = w PROVE FALSE
        OBVIOUS
      <4>1. code[pc].op # "arith"
        BY <1>1, <1>2, CodeFacts DEF Shape
      <4> QED BY <4>1, <1>2, <2>3 DEF Turns, Computed, StoresTo
    <3> QED BY <3>1, <3>2, <1>1
  <2> QED BY <2>1, <2>2, <2>3, <1>1, <1>2, <1>3 DEF FieldsHeld
<1>9. Places'
  BY <1>2, PlanStays DEF Moving, Places, Items, Values, Fields
<1> QED BY <1>6, <1>7, <1>8, <1>9

\* ... and passes no store.
LEMMA MoveKeepsStores ==
  ASSUME NEW from, Moving(from), NEW start \in {1, control + 1}, StoresDone(start),
         pc < start => pc' <= start
  PROVE  StoresDone(start)'
<1>1. /\ Compiled /\ DOMAIN code = 1..Len(code) /\ Len(code) \in Nat
      /\ pc \in DOMAIN code /\ pc \in Nat /\ pc' \in Nat /\ start \in Nat
      /\ UNCHANGED plan /\ meant' = meant
      /\ code[pc].op \notin {"store", "storeAt"}
  BY CodeFacts DEF Moving, Going, Runs, contents
<1>2. UNCHANGED <<life, code, program>> /\ Cached' = Cached
  BY <1>1, PlanStays
<1>3. SUFFICES ASSUME Straight(start), NEW g \in Cached, NEW s \in DOMAIN code,
                      OnlyStore(g, start, s), s < pc'
               PROVE  meant[g] = meant[code[s].args[1]]
  BY <1>1, <1>2, PlanStays DEF StoresDone
<1>4. code[s].op = "store" /\ s >= start
  BY <1>3 DEF OnlyStore, StoresTo
<1>5. pc >= start
  BY <1>1, <1>3, <1>4
<1>6. pc' = pc + 1
  BY <1>1, <1>3, <1>5 DEF Moving, Straight
<1>7. s < pc
  BY <1>1, <1>3, <1>4, <1>6
<1> QED BY <1>3, <1>7 DEF StoresDone

\* The end of a guard or loop.
LEMMA EndFacts ==
  ASSUME Compiled, NEW k \in DOMAIN code, code[k].op \in {"guard", "loop"}
  PROVE  /\ EndOf(k) \in DOMAIN code /\ k < EndOf(k) /\ (k <= control <=> EndOf(k) <= control)
         /\ code[k].field = code[EndOf(k)].field
         /\ code[EndOf(k)].op = IF code[k].op = "guard" THEN "endguard" ELSE "endloop"
         /\ code[EndOf(k)].dst = None
<1>1. PICK j \in DOMAIN code : <<k, j>> \in Brackets(code)
  BY CodeFacts DEF Nested
<1>2. code[j].op \in {"endguard", "endloop"} /\ code[j].field = code[k].field
  BY <1>1 DEF Brackets
<1>3. /\ EndOf(k) \in DOMAIN code
      /\ code[EndOf(k)].op \in {"endguard", "endloop"} /\ code[EndOf(k)].field = code[k].field
  BY <1>2 DEF EndOf
<1>4. <<k, EndOf(k)>> \in Brackets(code)
  BY <1>3 DEF Brackets
<1>5. /\ k < EndOf(k) /\ (k <= control <=> EndOf(k) <= control)
      /\ code[k].op = "guard" <=> code[EndOf(k)].op = "endguard"
  BY <1>4, CodeFacts DEF Nested
<1>6. code[EndOf(k)].dst = None
  BY <1>3, CodeFacts DEF Shape
<1> QED BY <1>3, <1>5, <1>6

\* Two loops are the same, apart, or one is in the other.
LEMMA LoopFacts ==
  ASSUME Compiled, NEW l \in LoopsOf(code), NEW m \in LoopsOf(code)
  PROVE  /\ l[1] \in DOMAIN code /\ l[2] \in DOMAIN code /\ l[1] < l[2]
         /\ l[1] <= control <=> l[2] <= control
         /\ \/ l = m \/ l[2] < m[1] \/ m[2] < l[1]
            \/ l[1] < m[1] /\ m[2] < l[2]
            \/ m[1] < l[1] /\ l[2] < m[2]
<1>1. l \in Brackets(code) /\ m \in Brackets(code)
  BY DEF Brackets, LoopsOf
<1>2. l[1] \in DOMAIN code /\ l[2] \in DOMAIN code
  BY DEF LoopsOf
<1> QED BY <1>1, <1>2, CodeFacts DEF Nested

\* What is live behind a guard is live before it.
LEMMA LiveBehindGuard ==
  ASSUME Compiled, NEW k \in DOMAIN code, code[k].op = "guard",
         NEW y \in DOMAIN life, Transient(y), Live(y, EndOf(k) + 1)
  PROVE  Live(y, k)
<1>1. /\ EndOf(k) \in DOMAIN code /\ k < EndOf(k) /\ code[k].field = code[EndOf(k)].field
      /\ code[EndOf(k)].op = "endguard" /\ code[EndOf(k)].dst = None /\ code[k].dst = None
      /\ DOMAIN code = 1..Len(code) /\ Len(code) \in Nat
  BY EndFacts, CodeFacts DEF Shape
<1>2. /\ life[y].begin \in DOMAIN code /\ life[y].end \in DOMAIN code
      /\ code[life[y].begin].dst = y /\ y # None /\ y \notin kept
  BY TransientFacts, ItemFacts
<1>3. ~Guarded(code, life[y].begin)
  BY <1>2, CodeFacts DEF Scoped
<1>4. ~(k < life[y].begin /\ life[y].begin < EndOf(k))
  BY <1>1, <1>3 DEF Guarded
<1> QED BY <1>1, <1>2, <1>4 DEF Live

\* What is live behind a loop is live before it.
LEMMA LiveBehindLoop ==
  ASSUME Compiled, NEW k \in DOMAIN code, code[k].op = "loop",
         NEW y \in DOMAIN life, Transient(y), Live(y, EndOf(k) + 1)
  PROVE  Live(y, k)
<1> DEFINE e == EndOf(k)
           j == life[y].begin
           l == <<k, e>>
<1>1. /\ e \in DOMAIN code /\ k < e /\ code[k].field = code[e].field
      /\ code[e].op = "endloop" /\ code[e].dst = None /\ code[k].dst = None
      /\ DOMAIN code = 1..Len(code) /\ Len(code) \in Nat
  BY EndFacts, CodeFacts DEF Shape
<1>2. /\ j \in DOMAIN code /\ life[y].end \in DOMAIN code
      /\ code[j].dst = y /\ y # None /\ y \notin kept
  BY TransientFacts, ItemFacts
<1>3. l \in LoopsOf(code) /\ l[1] = k /\ l[2] = e
  BY <1>1 DEF LoopsOf
<1>4. j < e + 1 /\ e + 1 <= life[y].end
  BY DEF Live
<1>5. ~(k < j /\ j < e)
  <2> SUFFICES ASSUME k < j, j < e PROVE FALSE
    OBVIOUS
  <2>1. \A r \in DOMAIN code : y \in Reads(code, r) => r < e
    BY <1>2, <1>3, CodeFacts DEF Scoped
  <2>2. life[y].end # j /\ y \notin Reads(code, life[y].end)
    BY <2>1, <1>1, <1>2, <1>4
  <2>3. PICK m \in LoopsOf(code) : \E r \in m[1]..m[2] : j < m[1] /\ y \in Reads(code, r) /\ m[2] = life[y].end
    BY <2>2, TransientFacts
  <2>4. PICK r \in m[1]..m[2] : j < m[1] /\ y \in Reads(code, r) /\ m[2] = life[y].end
    BY <2>3
  <2>5. m[1] \in DOMAIN code /\ m[2] \in DOMAIN code /\ r \in DOMAIN code /\ r < e
    BY <2>1, <2>4, LoopFacts, <1>1
  <2>6. \/ l = m \/ l[2] < m[1] \/ m[2] < l[1]
        \/ l[1] < m[1] /\ m[2] < l[2]
        \/ m[1] < l[1] /\ l[2] < m[2]
    BY <1>3, LoopFacts
  <2> HIDE DEF l, e, j
  <2> QED BY <2>4, <2>5, <2>6, <1>1, <1>2, <1>3, <1>4
<1> QED BY <1>1, <1>2, <1>4, <1>5 DEF Live

\* What is live at the begin of a loop's body is live at its end.
LEMMA LiveAround ==
  ASSUME Compiled, NEW l \in LoopsOf(code),
         NEW y \in DOMAIN life, Transient(y), Live(y, l[1] + 1)
  PROVE  Live(y, l[2])
<1> DEFINE j == life[y].begin
<1>1. /\ l[1] \in DOMAIN code /\ l[2] \in DOMAIN code /\ l[1] < l[2]
      /\ code[l[1]].op = "loop" /\ code[l[1]].dst = None
      /\ DOMAIN code = 1..Len(code) /\ Len(code) \in Nat
  BY LoopFacts, CodeFacts DEF Shape, LoopsOf
<1>2. j \in DOMAIN code /\ life[y].end \in DOMAIN code /\ code[j].dst = y /\ y # None
  BY TransientFacts
<1>3. j < l[1] /\ l[1] < life[y].end
  BY <1>1, <1>2 DEF Live
<1>4. \A r \in l[1]..l[2] : y \in Reads(code, r) => l[2] <= life[y].end
  BY <1>3, TransientFacts
<1>5. CASE y \in Reads(code, life[y].end)
  BY <1>1, <1>2, <1>3, <1>4, <1>5 DEF Live
<1>6. ASSUME NEW m \in LoopsOf(code), NEW r \in m[1]..m[2], j < m[1], y \in Reads(code, r), m[2] = life[y].end
      PROVE  Live(y, l[2])
  <2>1. /\ m[1] \in DOMAIN code /\ m[2] \in DOMAIN code /\ m[1] < m[2]
        /\ \/ l = m \/ l[2] < m[1] \/ m[2] < l[1]
           \/ l[1] < m[1] /\ m[2] < l[2]
           \/ m[1] < l[1] /\ l[2] < m[2]
    BY LoopFacts
  <2>2. l[2] <= life[y].end
    BY <2>1, <1>1, <1>3, <1>4, <1>6
  <2> QED BY <2>2, <1>1, <1>2, <1>3 DEF Live
<1>7. life[y].end # j
  BY <1>1, <1>2, <1>3
<1>8. CASE y \notin Reads(code, life[y].end)
  <2>1. PICK m \in LoopsOf(code) : \E r \in m[1]..m[2] :
          j < m[1] /\ y \in Reads(code, r) /\ m[2] = life[y].end
    BY <1>7, <1>8, TransientFacts
  <2> QED BY <2>1, <1>6
<1> QED BY <1>5, <1>8

\* Any step that only moves on is such a move.
LEMMA MovesOn ==
  ASSUME NEW from, Going(from), Places,
         Emission \/ Take \/ SkipGuard \/ LoopEntry \/ SkipLoop \/ LoopRepeat \/ LoopExit
  PROVE  Moving(from) /\ \A start \in {1, control + 1} : pc < start => pc' <= start
<1>1. /\ Compiled /\ Len(code) \in Nat /\ DOMAIN code = 1..Len(code) /\ control \in 0..Len(code)
      /\ from \in {1, control + 1} /\ pc \in Nat /\ pc \in DOMAIN code /\ from <= pc
  BY CodeFacts DEF Going, Runs, Emission, Take, SkipGuard, LoopEntry, SkipLoop, LoopRepeat, LoopExit,
     Running
<1>2. UNCHANGED plan /\ UNCHANGED layout /\ UNCHANGED contents /\ phys' = phys
  BY DEF Emission, Take, SkipGuard, LoopEntry, SkipLoop, LoopRepeat, LoopExit, Step, Goto
<1>3. /\ code[pc].op \in {"output", "guard", "endguard", "loop", "endloop"}
      /\ code[pc].dst = None
  <2>1. code[pc].op \in {"output", "guard", "endguard", "loop", "endloop"}
    BY DEF Emission, Take, SkipGuard, LoopEntry, SkipLoop, LoopRepeat, LoopExit, Running
  <2> QED BY <2>1, <1>1, CodeFacts DEF Shape
<1>4. \A y \in DOMAIN life : Transient(y) =>
        /\ life[y].begin \in Nat /\ life[y].end \in Nat
        /\ life[y].begin \in DOMAIN code /\ code[life[y].begin].dst # None
  BY <1>1, TransientFacts
<1>5. \A y \in kept \cap DOMAIN life :
        /\ Min(Touches(code, y)) \in DOMAIN code
        /\ ~life[y].load => /\ code[Min(Touches(code, y))].dst = y /\ y # None
                            /\ ~Guarded(code, Min(Touches(code, y)))
                            /\ ~Looped(code, Min(Touches(code, y)))
  <2> SUFFICES ASSUME NEW y \in kept \cap DOMAIN life
               PROVE  /\ Min(Touches(code, y)) \in DOMAIN code
                      /\ ~life[y].load => /\ code[Min(Touches(code, y))].dst = y /\ y # None
                                          /\ ~Guarded(code, Min(Touches(code, y)))
                                          /\ ~Looped(code, Min(Touches(code, y)))
    OBVIOUS
  <2>1. /\ Min(Touches(code, y)) \in DOMAIN code /\ Min(Touches(code, y)) \in Touches(code, y)
        /\ ~life[y].load => /\ y \notin Reads(code, Min(Touches(code, y)))
                            /\ ~Guarded(code, Min(Touches(code, y)))
                            /\ ~Looped(code, Min(Touches(code, y)))
    BY <1>1, KeptFacts
  <2>2. y # None
    BY <1>1, CodeFacts
  <2> QED BY <2>1, <2>2 DEF Touches
<1>6. CASE pc' = pc + 1
  <2>1. \A y \in DOMAIN life : Transient(y) /\ Live(y, pc') => Live(y, pc)
    BY <1>1, <1>3, <1>4, <1>6 DEF Live
  <2>2. \A y \in kept \cap DOMAIN life : ~life[y].load /\ Min(Touches(code, y)) < pc' =>
                                           Min(Touches(code, y)) < pc
    BY <1>1, <1>3, <1>5, <1>6
  <2>3. pc' \in from..(Len(code) + 1) /\ pc' - 1 = pc
    BY <1>1, <1>6
  <2> QED BY <2>1, <2>2, <2>3, <1>1, <1>2, <1>3, <1>6 DEF Moving
<1>7. CASE SkipGuard \/ SkipLoop
  <2> DEFINE e == EndOf(pc)
  <2>1. pc' = e + 1 /\ code[pc].op \in {"guard", "loop"}
    BY <1>7 DEF SkipGuard, SkipLoop, Running, Goto
  <2>2. /\ e \in DOMAIN code /\ pc < e /\ (pc <= control <=> e <= control)
        /\ code[pc].field = code[e].field
        /\ code[e].op = IF code[pc].op = "guard" THEN "endguard" ELSE "endloop"
        /\ code[e].dst = None
    BY <2>1, <1>1, EndFacts
  <2>3. \A y \in DOMAIN life : Transient(y) /\ Live(y, pc') => Live(y, pc)
    BY <2>1, <1>1, LiveBehindGuard, LiveBehindLoop
  <2>4. ASSUME NEW y \in kept \cap DOMAIN life, ~life[y].load, Min(Touches(code, y)) < pc'
        PROVE  Min(Touches(code, y)) < pc
    <3> DEFINE first == Min(Touches(code, y))
    <3>1. first \in DOMAIN code /\ first # pc /\ first # e
      BY <1>3, <1>5, <2>2, <2>4
    <3>2. ~(pc < first /\ first < e)
      <4> SUFFICES ASSUME pc < first, first < e PROVE FALSE
        OBVIOUS
      <4>1. ~Guarded(code, first) /\ ~Looped(code, first)
        BY <1>5, <2>4
      <4>2. CASE code[pc].op = "guard"
        BY <4>1, <4>2, <2>2, <1>1 DEF Guarded
      <4>3. CASE code[pc].op = "loop"
        <5>1. <<pc, e>> \in LoopsOf(code)
          BY <4>3, <2>2, <1>1 DEF LoopsOf
        <5> QED BY <5>1, <4>1 DEF Looped
      <4> QED BY <4>2, <4>3, <2>1
    <3> QED BY <3>1, <3>2, <2>1, <2>2, <2>4, <1>1
  <2>5. pc' \in from..(Len(code) + 1) /\ pc' - 1 = e
    BY <2>1, <2>2, <1>1
  <2>6. \A start \in {1, control + 1} : pc < start => pc' <= start
    BY <2>1, <2>2, <1>1
  <2> QED BY <2>1, <2>2, <2>3, <2>4, <2>5, <2>6, <1>1, <1>2, <1>3 DEF Moving
<1>8. CASE LoopRepeat
  <2>1. PICK k \in DOMAIN code : code[k].op = "loop" /\ code[k].field = code[pc].field /\ pc' = k + 1
    BY <1>8 DEF LoopRepeat, Goto
  <2>2. code[pc].op = "endloop"
    BY <1>8 DEF LoopRepeat, Running
  <2> DEFINE l == <<k, pc>>
  <2>3. l \in LoopsOf(code) /\ l[1] = k /\ l[2] = pc
    BY <2>1, <2>2, <1>1 DEF LoopsOf
  <2>4. k < pc /\ (k <= control <=> pc <= control)
    BY <2>3, <1>1, LoopFacts
  <2>5. code[k].dst = None
    BY <2>1, <1>1, CodeFacts DEF Shape
  <2>6. \A y \in DOMAIN life : Transient(y) /\ Live(y, pc') => Live(y, pc)
    BY <2>1, <2>3, <1>1, LiveAround
  <2>7. \A y \in kept \cap DOMAIN life : ~life[y].load /\ Min(Touches(code, y)) < pc' =>
                                           Min(Touches(code, y)) < pc
    BY <2>1, <2>4, <1>1, <1>5
  <2>8. pc' \in from..(Len(code) + 1) /\ pc' - 1 = k
    BY <2>1, <2>4, <1>1
  <2>9. \A start \in {1, control + 1} : pc < start => pc' <= start
    BY <2>1, <2>4, <1>1
  <2> HIDE DEF l
  <2> QED BY <2>2, <2>5, <2>6, <2>7, <2>8, <2>9, <1>1, <1>2, <1>3 DEF Moving
<1> QED BY <1>6, <1>7, <1>8 DEF Emission, Take, LoopEntry, LoopExit, Step, Goto

\* What is needed behind a call is preserved or saved.
LEMMA AcrossCalls ==
  ASSUME Compiled, FirstOK, Derived, saved = CallMasks(settled), pc \in Calls,
         NEW y \in DOMAIN life, phys[y] # None,
         ~Transient(y) \/ (Live(y, pc) /\ pc < life[y].end)
  PROVE  phys[y] \in Preserved \cup saved[pc]
<1>1. DOMAIN settled = DOMAIN life
  BY DEF FirstOK, LayoutOK
<1>2. pc \in DOMAIN code /\ DOMAIN code = 1..Len(code) /\ Len(code) \in Nat
  BY CodeFacts DEF Calls
<1>3. saved[pc] = {settled[x] : x \in {z \in DOMAIN settled : pc \in Across(z)}} \ (Preserved \cup {None})
  BY <1>2 DEF CallMasks
<1>4. ASSUME NEW z \in DOMAIN life, ~Transient(z) \/ (Live(z, pc) /\ pc < life[z].end)
      PROVE  pc \in Across(z)
  <2>1. life[z].begin \in Nat /\ life[z].end \in Nat
    BY LifeShape
  <2>2. CASE ~Transient(z)
    <3>1. life[z].begin = 1 /\ life[z].end = Len(code) + 1
      BY <2>2, LifeShape
    <3> QED BY <3>1, <2>2, <1>2 DEF Across, CallBegin
  <2>3. CASE Live(z, pc) /\ pc < life[z].end
    <3>1. CallBegin(z) <= life[z].begin + 1
      <4> DEFINE S == {life[z].end, life[z].begin + 1}
      <4>1. S \in SUBSET Nat /\ S # {}
        BY <2>1
      <4>2. Min(S) \in S /\ Min(S) <= life[z].begin + 1
        BY <4>1, MinIsLeast
      <4> QED BY <4>2, <2>1 DEF CallBegin
    <3>2. CallBegin(z) \in Nat
      <4> DEFINE S == {life[z].end, life[z].begin + 1}
      <4>1. S \in SUBSET Nat /\ S # {}
        BY <2>1
      <4>2. Min(S) \in S
        BY <4>1, MinIsLeast
      <4> QED BY <4>1, <4>2, <2>1 DEF CallBegin
    <3> QED BY <3>1, <3>2, <2>1, <2>3, <1>2 DEF Across, Live
  <2> QED BY <1>4, <2>2, <2>3
<1>5. CASE phys[y] = settled[y]
  BY <1>1, <1>3, <1>4, <1>5
<1>6. ASSUME NEW f \in Cached, phys[y] = settled[f]
      PROVE  phys[y] \in Preserved \cup saved[pc]
  <2>1. f \in DOMAIN life /\ ~Transient(f)
    BY DEF Cached, Transient
  <2> QED BY <2>1, <1>1, <1>3, <1>4, <1>6
<1> QED BY <1>5, <1>6 DEF Derived

\* Any step that computes, calls or loads writes a result.
LEMMA ResultsWrite ==
  ASSUME NEW from, Going(from), Places, FirstOK, Derived, saved = CallMasks(settled),
         Compute \/ Invoke \/ LoadCell
  PROVE  \E regs, v : Writes(from, regs, v)
<1> DEFINE x == code[pc].dst
<1>1. /\ Compiled /\ pc \in DOMAIN code /\ x # None
      /\ UNCHANGED plan /\ UNCHANGED layout /\ phys' = phys /\ pc' = pc + 1
  <2>1. Compiled /\ pc \in DOMAIN code
        /\ code[pc].op \in {"arith", "min", "select", "input", "math", "foreign", "load", "loadAt"}
    BY DEF Going, Compute, Invoke, LoadCell, Running
  <2>2. x # None
    BY <2>1, CodeFacts DEF Shape
  <2> QED BY <2>1, <2>2 DEF Compute, Invoke, LoadCell, Step, Goto
<1>2. CASE Compute
  <2>1. Define(registers, Result, Result) /\ code[pc].op # "load"
    BY <1>2 DEF Compute, Running
  <2>2. Writes(from, registers, Result)
    BY <2>1, <1>1 DEF Writes
  <2> QED BY <2>2
<1>3. CASE Invoke
  <2> DEFINE regs == [p \in DOMAIN registers |->
                        IF p \in Preserved \cup saved[pc] THEN registers[p] ELSE Junk]
  <2>1. Define(regs, Result, Result) /\ code[pc].op \in {"math", "foreign"} /\ pc \in Calls
    BY <1>1, <1>3 DEF Invoke, Running, Calls
  <2>2. ASSUME NEW y \in DOMAIN life, phys[y] # None,
               ~Transient(y) \/ (Live(y, pc) /\ pc < life[y].end)
        PROVE  regs[phys[y]] = registers[phys[y]]
    <3>1. phys[y] \in Preserved \cup saved[pc]
      BY <2>1, <2>2, <1>1, AcrossCalls
    <3>2. phys[y] \in DOMAIN registers
      BY <2>2 DEF Going, Runs, LayoutOK, Places
    <3> QED BY <3>1, <3>2
  <2>3. DOMAIN regs = DOMAIN registers
    OBVIOUS
  <2> HIDE DEF regs
  <2>4. Writes(from, regs, Result)
    BY <2>1, <2>2, <2>3, <1>1 DEF Writes
  <2> QED BY <2>4
<1>4. CASE LoadCell
  <2> DEFINE f == code[pc].field
             cell == IF code[pc].op = "load" /\ f \in Cached THEN Content(f) ELSE memory[f]
  <2>1. Define(registers, cell, meant[f]) /\ code[pc].op \in {"load", "loadAt"}
    BY <1>4 DEF LoadCell, Running
  <2>2. pc \in Accesses(code)
    BY <2>1, <1>1 DEF Accesses
  <2>3. f \in Fields(program)
    BY <2>2, <1>1, CodeFacts DEF FieldsIn
  <2>4. cell = meant[f]
    <3>1. CASE code[pc].op = "load" /\ f \in Cached
      BY <3>1, <1>1, CellHolds
    <3>2. CASE f \notin Cached
      BY <3>2, <2>3 DEF Going, Runs, FieldsHeld
    <3>3. CASE code[pc].op = "loadAt"
      <4>1. f \notin Cached
        <5> SUFFICES ASSUME f \in Cached PROVE FALSE
          OBVIOUS
        <5>1. f \in CacheableIn(code, band)
          BY <1>1, ItemFacts DEF Cached
        <5> QED BY <5>1, <3>3, <2>2 DEF CacheableIn
      <4> QED BY <4>1, <3>2
    <3> QED BY <3>1, <3>2, <3>3, <2>1
  <2>5. \A g \in Cached : code[pc].op = "load" /\ f = g /\ phys[g] # None => meant[f] = registers[phys[g]]
    BY <2>4 DEF Content
  <2>6. Define(registers, meant[f], meant[f])
    BY <2>1, <2>4
  <2>7. Writes(from, registers, meant[f])
    BY <2>5, <2>6, <1>1 DEF Writes
  <2> QED BY <2>7
<1> QED BY <1>2, <1>3, <1>4

(***************************************************************************)
(* Coalescing.                                                             *)
(***************************************************************************)

\* Without guards, loops and foreign calls code runs straight on.
LEMMA StraightCode ==
  ASSUME Compiled, NEW from \in {1, control + 1}, ~Has({"guard", "loop", "foreign"}, from)
  PROVE  Straight(from)
<1>1. SUFFICES ASSUME NEW k \in DOMAIN code, k >= from, code[k].op \in {"endguard", "endloop"}
               PROVE  FALSE
  BY DEF Straight, Has
<1>2. PICK j \in DOMAIN code : <<j, k>> \in Brackets(code)
  BY <1>1, CodeFacts DEF Nested
<1>3. /\ <<j, k>>[1] = j /\ <<j, k>>[2] = k
      /\ code[j].op \in {"guard", "loop"}
  BY <1>2 DEF Brackets
<1>4. j <= control <=> k <= control
  BY <1>2, <1>3, CodeFacts DEF Nested
<1>5. j >= from
  BY <1>1, <1>4, CodeFacts
<1> QED BY <1>3, <1>5 DEF Has

\* Exactly one store to a field.
LEMMA OneStore ==
  ASSUME Compiled, NEW f, NEW from
  PROVE  Cardinality({k \in StoresTo(f) : k >= from}) = 1 <=> \E s \in DOMAIN code : OnlyStore(f, from, s)
<1> DEFINE S == {k \in StoresTo(f) : k >= from}
<1>1. S \in SUBSET (1..Len(code)) /\ Len(code) \in Nat /\ DOMAIN code = 1..Len(code)
  BY CodeFacts DEF StoresTo
<1>2. IsFiniteSet(S)
  <2>1. IsFiniteSet(1..Len(code))
    BY <1>1, FS_Interval
  <2> HIDE DEF S
  <2> QED BY <1>1, <2>1, FS_Subset
<1>3. Cardinality(S) = 1 <=> \E s : S = {s}
  BY <1>2, FS_Singleton
<1>4. \A s : S = {s} <=> OnlyStore(f, from, s)
  BY DEF OnlyStore
<1>5. \A s : OnlyStore(f, from, s) => s \in DOMAIN code
  BY DEF OnlyStore, StoresTo
<1> HIDE DEF S
<1> QED BY <1>3, <1>4, <1>5 DEF S

\* The only store is the one Coalesce finds.
LEMMA StoreIs ==
  ASSUME NEW f, NEW from, NEW s, OnlyStore(f, from, s)
  PROVE  StorePlace(f, from) = s /\ Source(f, from) = code[s].args[1]
<1>1. s \in StoresTo(f) /\ s >= from /\ \A k \in StoresTo(f) : k >= from => k = s
  BY DEF OnlyStore
<1>2. StorePlace(f, from) = s
  BY <1>1 DEF StorePlace
<1> QED BY <1>2 DEF Source

\* The store of an eligible field, and the value it stores.
LEMMA EligibleFacts ==
  ASSUME Compiled, NEW at, NEW f, NEW from, Eligible(at, f, from)
  PROVE  LET s == StorePlace(f, from)
             a == Source(f, from) IN
         /\ at[f] # None /\ s \in DOMAIN code /\ OnlyStore(f, from, s) /\ code[s].args[1] = a
         /\ code[s].op = "store" /\ s >= from
         /\ a \in Reads(code, s) /\ Reads(code, s) = {a} /\ a \in DOMAIN life /\ a # None /\ a \notin Cached
<1>1. PICK s \in DOMAIN code : OnlyStore(f, from, s)
  BY OneStore DEF Eligible
<1>2. StorePlace(f, from) = s /\ Source(f, from) = code[s].args[1]
  BY <1>1, StoreIs
<1>3. code[s].op = "store" /\ s >= from
  BY <1>1 DEF OnlyStore, StoresTo
<1> QED BY <1>1, <1>2, <1>3, SourceFacts DEF Eligible

\* A coalesced value has the register of a field it is stored to.
LEMMA CoalescedFacts ==
  ASSUME Compiled, NEW at, at \in [DOMAIN life -> Physical \cup {None}], NEW from
  PROVE  LET to == Coalesced(at, from) IN
         /\ to \in [DOMAIN life -> Physical \cup {None}]
         /\ \A x \in DOMAIN life : ~Transient(x) => to[x] = at[x]
         /\ \A x \in DOMAIN life :
              \/ to[x] = at[x] /\ \A f \in Cached : ~(Coalesces(at, f, from) /\ Source(f, from) = x)
              \/ \E f \in Cached :
                   /\ Coalesces(at, f, from) /\ Source(f, from) = x /\ to[x] = at[f] /\ at[f] # None
                   /\ Transient(x) /\ life[x].begin >= from /\ code[life[x].begin].op = "arith"
<1> DEFINE to == Coalesced(at, from)
           fields(x) == {f \in Cached : Coalesces(at, f, from) /\ Source(f, from) = x}
<1>1. to = [x \in DOMAIN at |-> IF fields(x) = {} THEN at[x] ELSE at[CHOOSE f \in fields(x) : TRUE]]
  BY DEF Coalesced
<1>2. ASSUME NEW x \in DOMAIN life
      PROVE  \/ to[x] = at[x] /\ \A f \in Cached : ~(Coalesces(at, f, from) /\ Source(f, from) = x)
             \/ \E f \in Cached :
                  /\ Coalesces(at, f, from) /\ Source(f, from) = x /\ to[x] = at[f] /\ at[f] # None
                  /\ Transient(x) /\ life[x].begin >= from /\ code[life[x].begin].op = "arith"
  <2>1. CASE fields(x) = {}
    BY <1>1, <2>1
  <2>2. CASE fields(x) # {}
    <3> DEFINE f == CHOOSE g \in fields(x) : TRUE
    <3>1. f \in fields(x)
      BY <2>2
    <3>2. to[x] = at[f]
      BY <1>1, <2>2
    <3>3. f \in Cached /\ Coalesces(at, f, from) /\ Source(f, from) = x
      BY <3>1
    <3> HIDE DEF f, fields, to
    <3>4. at[f] # None /\ Transient(x) /\ life[x].begin >= from /\ code[life[x].begin].op = "arith"
      BY <3>3 DEF Coalesces, Eligible
    <3> QED BY <3>2, <3>3, <3>4
  <2> QED BY <2>1, <2>2
<1> HIDE DEF to, fields
<1>3. \A x \in DOMAIN life : ~Transient(x) => to[x] = at[x]
  BY <1>2
<1>4. \A x \in DOMAIN life : to[x] \in Physical \cup {None}
  BY <1>2 DEF Cached
<1>5. to \in [DOMAIN life -> Physical \cup {None}]
  BY <1>1, <1>4
<1> QED BY <1>2, <1>3, <1>5 DEF to

\* The register of a field whose next value is computed in it.
LEMMA TurnsComputed ==
  ASSUME Compiled, NEW at, at \in [DOMAIN life -> Physical \cup {None}],
         NEW from \in {1, control + 1}, Straight(from),
         NEW f \in Cached, at[f] # None, NEW h \in Cached, at[h] = at[f], Coalesces(at, h, from),
         Coalesced(at, from)[Source(h, from)] = at[h],
         \A x \in Residents(Coalesced(at, from), from, f) :
           x = Source(h, from) \/ \E g \in Sharers(at, f) : AliasOf(x, g)
  PROVE  LET a == Source(h, from) IN
         a \in DOMAIN life /\ life[a].begin \in DOMAIN code
           /\ Turns(Coalesced(at, from), from, f, life[a].begin, a)
<1> DEFINE to == Coalesced(at, from)
           a == Source(h, from)
           w == life[a].begin
<1>1. /\ Transient(a) /\ w >= from /\ code[w].dst = a /\ code[w].op = "arith"
      /\ \A g \in Cached : at[g] = at[h] => Eligible(at, g, from) /\ Source(g, from) = a
                                             /\ Available(at, g, w, from)
  BY DEF Coalesces
<1>2. a \in DOMAIN life
  BY <1>1, EligibleFacts
<1>3. /\ w \in DOMAIN code /\ \A k \in DOMAIN code : a \in Reads(code, k) => w < k /\ k <= life[a].end
      /\ DOMAIN code = 1..Len(code) /\ Len(code) \in Nat
  BY <1>1, <1>2, TransientFacts, CodeFacts
<1>4. /\ to \in [DOMAIN life -> Physical \cup {None}]
      /\ \A x \in DOMAIN life : ~Transient(x) => to[x] = at[x]
      /\ \A x \in DOMAIN life : to[x] = at[x] \/ (Transient(x) /\ code[life[x].begin].op = "arith")
  BY CoalescedFacts
<1>5. \A g \in Cached : to[g] = at[g]
  BY <1>4 DEF Cached, Transient
<1>6. Sharers(to, f) = Sharers(at, f)
  BY <1>5 DEF Sharers
<1> HIDE DEF to, a
<1>7. ASSUME NEW g \in Sharers(to, f) PROVE Stores(to, from, f, g, w, a)
  <2> DEFINE s == StorePlace(g, from)
  <2>1. g \in Cached /\ at[g] = at[f] /\ at[g] = at[h]
    BY <1>6, <1>7 DEF Sharers
  <2>2. Eligible(at, g, from) /\ Source(g, from) = a /\ Available(at, g, w, from)
    BY <2>1, <1>1
  <2>3. /\ s \in DOMAIN code /\ OnlyStore(g, from, s) /\ code[s].args[1] = a /\ a \in Reads(code, s)
    BY <2>2, EligibleFacts
  <2>4. w < s
    BY <2>3, <1>3
  <2>5. w <= control <=> s <= control
    <3>1. w <= control => life[a].end <= control
      BY <1>1, <1>2, EndsInPart
    <3>2. s <= life[a].end /\ life[a].end \in DOMAIN code
      BY <2>3, <1>3, <1>1, <1>2, TransientFacts
    <3> QED BY <3>1, <3>2, <2>3, <2>4, <1>3, CodeFacts
  <2>6. ASSUME NEW k \in LoadsOf(g), from <= k, k < s
        PROVE  k < w /\ ~(to[code[k].dst] = to[f] /\ life[code[k].dst].end > w)
    <3> DEFINE d == code[k].dst
    <3>1. k < w /\ ~(at[d] = at[g] /\ life[d].end > w)
      BY <2>2, <2>6 DEF Available
    <3>2. k \in DOMAIN code /\ code[k].op = "load"
      BY DEF LoadsOf
    <3>3. d # None
      BY <3>2, CodeFacts DEF Shape
    <3>4. d \in DOMAIN life
      BY <3>2, <3>3, OperandFacts
    <3>5. Transient(d) => life[d].begin = k
      BY <3>2, <3>4, TransientFacts
    <3>6. to[d] = at[d]
      BY <3>2, <3>4, <3>5, <1>4
    <3> QED BY <3>1, <3>6, <2>1, <1>5
  <2> QED BY <2>3, <2>4, <2>5, <2>6, <1>3 DEF Stores
<1>8. Computed(to, from, f, w, a)
  BY <1>1, <1>2, <1>5, CoalescedFacts DEF Computed, Residents, a, to
<1>9. \A x \in Residents(to, from, f) :
        (x = a /\ Computed(to, from, f, w, a)) \/ \E g \in Sharers(to, f) : AliasOf(x, g)
  BY <1>6, <1>8 DEF a, to
<1>10. Turns(to, from, f, w, a)
  BY <1>1, <1>7, <1>8, <1>9 DEF Turns
<1> QED BY <1>2, <1>3, <1>10 DEF a, to

(***************************************************************************)
(* The first layout.                                                       *)
(***************************************************************************)

\* A layout in which values have the register of a field only as its aliases.
Plain(at) ==
  /\ at \in [DOMAIN life -> Physical \cup {None}]
  /\ \A x \in DOMAIN life \ (kept \cup Cached) : Transient(x)
  /\ \A x \in kept \cap DOMAIN life, y \in DOMAIN life : at[x] = at[y] /\ at[x] # None => x = y
  /\ \A f, g \in Cached : at[f] = at[g] /\ at[f] # None => f = g
  /\ \A x, y \in DOMAIN life :
       Transient(x) /\ Transient(y) /\ x # y /\ at[x] = at[y] /\ at[x] # None =>
         Separate(x, y) \/ \E f \in Cached : at[f] = at[x]
  /\ \A f \in Cached, x \in DOMAIN life :
       Transient(x) /\ at[x] = at[f] /\ at[f] # None => AliasOf(x, f)

\* An item that lives throughout shares its register with no other.
LEMMA AllocatedAlone ==
  ASSUME RegInv, stage = "allocate",
         NEW x \in DOMAIN life, ~Transient(x), NEW y \in DOMAIN life, phys[x] = phys[y], phys[x] # None
  PROVE  x = y
<1>1. Compiled /\ RegistersApart /\ DOMAIN phys = DOMAIN life /\ Len(code) \in Nat
  BY CodeFacts DEF RegInv, Holding
<1>2. SUFFICES ASSUME x # y PROVE FALSE
  OBVIOUS
<1>3. \/ life[x].end < life[y].begin \/ HandsOver(x, y)
      \/ life[y].end < life[x].begin \/ HandsOver(y, x)
  BY <1>1, <1>2 DEF RegistersApart
<1>4. life[x].begin = 1 /\ life[x].end = Len(code) + 1
  BY <1>1, LifeShape
<1>5. /\ life[y].begin \in Nat /\ life[y].begin >= 1 /\ life[y].begin <= Len(code) + 1
      /\ life[y].end \in Nat /\ life[y].end >= 1 /\ (Transient(y) => life[y].begin <= Len(code))
  <2>1. CASE Transient(y)
    BY <2>1, <1>1, TransientFacts, CodeFacts
  <2>2. CASE ~Transient(y)
    BY <2>2, <1>1, LifeShape
  <2> QED BY <2>1, <2>2
<1>6. ~HandsOver(y, x)
  BY DEF HandsOver, Reuses
<1>7. ~HandsOver(x, y)
  BY <1>1, <1>4, <1>5 DEF HandsOver, Reuses
<1> QED BY <1>1, <1>3, <1>4, <1>5, <1>6, <1>7

\* A load whose field is not stored while its value is needed may stay there.
LEMMA AliasedFacts ==
  ASSUME Compiled, phys \in [DOMAIN life -> Physical \cup {None}]
  PROVE  /\ Aliased \in [DOMAIN life -> Physical \cup {None}]
         /\ \A x \in DOMAIN life :
              \/ Aliased[x] = phys[x]
              \/ \E f \in Cached : Aliased[x] = phys[f] /\ phys[f] # None /\ Transient(x) /\ AliasOf(x, f)
<1>1. Aliased = [x \in DOMAIN life |->
        IF Aliases(x) = {} THEN phys[x] ELSE phys[code[CHOOSE k \in Aliases(x) : TRUE].field]]
  BY DEF Aliased
<1>2. ASSUME NEW x \in DOMAIN life
      PROVE  \/ Aliased[x] = phys[x]
             \/ \E f \in Cached : Aliased[x] = phys[f] /\ phys[f] # None /\ Transient(x) /\ AliasOf(x, f)
  <2>1. CASE Aliases(x) = {}
    BY <1>1, <2>1
  <2>2. CASE Aliases(x) # {}
    <3> DEFINE k == CHOOSE k \in Aliases(x) : TRUE
               f == code[k].field
    <3>1. k \in Aliases(x)
      BY <2>2
    <3>2. Aliased[x] = phys[f]
      BY <1>1, <2>2
    <3>3. /\ k \in DOMAIN code /\ code[k].op = "load" /\ code[k].dst = x /\ Transient(x)
          /\ f \in Cached /\ phys[f] # None /\ ~StoredMeanwhile(k)
      BY <3>1 DEF Aliases
    <3> HIDE DEF k
    <3>4. k = life[x].begin
      BY <3>3, TransientFacts
    <3>5. AliasOf(x, f)
      BY <3>3, <3>4 DEF AliasOf
    <3> QED BY <3>2, <3>3, <3>5
  <2> QED BY <2>1, <2>2
<1>3. \A x \in DOMAIN life : Aliased[x] \in Physical \cup {None}
  BY <1>2 DEF Cached
<1> QED BY <1>1, <1>2, <1>3

\* What allocation leaves, with the loads that stay in their fields, is plain.
LEMMA AliasedIsPlain ==
  ASSUME RegInv, stage = "allocate"
  PROVE  Plain(Aliased)
<1> DEFINE at == Aliased
<1>1. Compiled /\ RegistersApart /\ DOMAIN phys = DOMAIN life
      /\ phys \in [DOMAIN life -> Physical \cup {None}]
  BY DEF RegInv, Holding
<1>2. /\ at \in [DOMAIN life -> Physical \cup {None}]
      /\ \A x \in DOMAIN life :
           \/ at[x] = phys[x]
           \/ \E f \in Cached : at[x] = phys[f] /\ phys[f] # None /\ Transient(x) /\ AliasOf(x, f)
  BY <1>1, AliasedFacts
<1>3. \A x, y \in DOMAIN life : ~Transient(x) /\ phys[x] = phys[y] /\ phys[x] # None => x = y
  BY AllocatedAlone
<1>4. \A f \in Cached : f \in DOMAIN life /\ ~Transient(f) /\ at[f] = phys[f] /\ f \notin kept
  <2>1. \A f \in Cached : f \in DOMAIN life /\ ~Transient(f) /\ f \notin kept
    BY <1>1, ItemFacts DEF Cached, Transient
  <2> QED BY <2>1, <1>2
<1>5. \A x \in kept \cap DOMAIN life : ~Transient(x) /\ at[x] = phys[x]
  BY <1>2 DEF Transient
<1> HIDE DEF at
<1>6. \A x \in kept \cap DOMAIN life, y \in DOMAIN life : at[x] = at[y] /\ at[x] # None => x = y
  BY <1>2, <1>3, <1>4, <1>5
<1>7. \A f, g \in Cached : at[f] = at[g] /\ at[f] # None => f = g
  BY <1>3, <1>4
<1>8. \A f \in Cached, x \in DOMAIN life :
        Transient(x) /\ at[x] = at[f] /\ at[f] # None => AliasOf(x, f)
  <2> SUFFICES ASSUME NEW f \in Cached, NEW x \in DOMAIN life, Transient(x), at[x] = at[f], at[f] # None
               PROVE  AliasOf(x, f)
    OBVIOUS
  <2>1. at[x] # phys[x]
    BY <1>3, <1>4
  <2>2. PICK g \in Cached : at[x] = phys[g] /\ phys[g] # None /\ AliasOf(x, g)
    BY <2>1, <1>2
  <2>3. g = f
    BY <2>2, <1>3, <1>4
  <2> QED BY <2>2, <2>3
<1>9. \A x, y \in DOMAIN life :
        Transient(x) /\ Transient(y) /\ x # y /\ at[x] = at[y] /\ at[x] # None =>
          Separate(x, y) \/ \E f \in Cached : at[f] = at[x]
  <2> SUFFICES ASSUME NEW x \in DOMAIN life, NEW y \in DOMAIN life, x # y,
                      at[x] = at[y], at[x] # None, ~\E f \in Cached : at[f] = at[x]
               PROVE  Separate(x, y)
    OBVIOUS
  <2>1. at[x] = phys[x] /\ at[y] = phys[y]
    BY <1>2, <1>4
  <2> QED BY <2>1, <1>1 DEF RegistersApart, Separate
<1>10. \A x \in DOMAIN life \ (kept \cup Cached) : Transient(x)
  BY DEF Transient
<1> QED BY <1>2, <1>6, <1>7, <1>8, <1>9, <1>10 DEF Plain, at

\* A plain layout is right, whatever the code.
LEMMA PlainIsRight ==
  ASSUME Compiled, NEW at, Plain(at)
  PROVE  LayoutOK(at, 1)
<1>1. ASSUME NEW f \in Cached, at[f] # None PROVE Simple(at, 1, f)
  BY <1>1 DEF Plain, Simple, Sharers, Residents
<1> QED BY <1>1 DEF Plain, LayoutOK

\* Coalescing keeps a plain layout right where code runs straight on.
LEMMA CoalescedIsRight ==
  ASSUME Compiled, NEW at, Plain(at), Straight(1)
  PROVE  LET to == Coalesced(at, 1) IN
         LayoutOK(to, 1) /\ \A f, g \in Cached : to[f] = to[g] /\ to[f] # None => f = g
<1> DEFINE to == Coalesced(at, 1)
<1>1. /\ at \in [DOMAIN life -> Physical \cup {None}]
      /\ to \in [DOMAIN life -> Physical \cup {None}]
      /\ \A x \in DOMAIN life : ~Transient(x) => to[x] = at[x]
      /\ \A x \in DOMAIN life :
           \/ to[x] = at[x] /\ \A f \in Cached : ~(Coalesces(at, f, 1) /\ Source(f, 1) = x)
           \/ \E f \in Cached :
                /\ Coalesces(at, f, 1) /\ Source(f, 1) = x /\ to[x] = at[f] /\ at[f] # None
                /\ Transient(x) /\ life[x].begin >= 1 /\ code[life[x].begin].op = "arith"
  BY CoalescedFacts DEF Plain
<1>2. \A f \in Cached : f \in DOMAIN life /\ to[f] = at[f] /\ f \notin kept
  BY <1>1, ItemFacts DEF Cached, Transient
<1> HIDE DEF to
<1>3. \A f, g \in Cached : to[f] = to[g] /\ to[f] # None => f = g
  BY <1>2 DEF Plain
<1>4. \A x \in kept \cap DOMAIN life, y \in DOMAIN life : to[x] = to[y] /\ to[x] # None => x = y
  <2> SUFFICES ASSUME NEW x \in kept \cap DOMAIN life, NEW y \in DOMAIN life, to[x] = to[y], to[x] # None
               PROVE  x = y
    OBVIOUS
  <2>1. to[x] = at[x]
    BY <1>1 DEF Transient
  <2>2. \A f \in Cached : at[f] # at[x]
    BY <2>1, <1>2 DEF Plain
  <2>3. to[y] = at[y]
    BY <2>1, <2>2, <1>1
  <2> QED BY <2>1, <2>3 DEF Plain
<1>5. \A x, y \in DOMAIN life :
        Transient(x) /\ Transient(y) /\ x # y /\ to[x] = to[y] /\ to[x] # None =>
          Separate(x, y) \/ \E f \in Cached : to[f] = to[x]
  <2> SUFFICES ASSUME NEW x \in DOMAIN life, NEW y \in DOMAIN life, Transient(x), Transient(y),
                      x # y, to[x] = to[y], to[x] # None, ~\E f \in Cached : to[f] = to[x]
               PROVE  Separate(x, y)
    OBVIOUS
  <2>1. to[x] = at[x] /\ to[y] = at[y]
    BY <1>1, <1>2
  <2> QED BY <2>1, <1>2 DEF Plain
<1>6. ASSUME NEW f \in Cached, to[f] # None
      PROVE  Simple(to, 1, f) \/ \E w \in DOMAIN code, a \in DOMAIN life : Turns(to, 1, f, w, a)
  <2>1. \A x \in Residents(to, 1, f) :
          AliasOf(x, f) \/ (Coalesces(at, f, 1) /\ x = Source(f, 1) /\ to[x] = at[f])
    <3> SUFFICES ASSUME NEW x \in Residents(to, 1, f), ~AliasOf(x, f)
                 PROVE  Coalesces(at, f, 1) /\ x = Source(f, 1) /\ to[x] = at[f]
      OBVIOUS
    <3>1. x \in DOMAIN life /\ Transient(x) /\ to[x] = to[f]
      BY DEF Residents
    <3>2. to[x] # at[x]
      BY <3>1, <1>2, <1>6 DEF Plain
    <3>3. PICK g \in Cached : Coalesces(at, g, 1) /\ Source(g, 1) = x /\ to[x] = at[g]
      BY <3>1, <3>2, <1>1
    <3>4. g = f
      BY <3>1, <3>3, <1>2, <1>6 DEF Plain
    <3> QED BY <3>3, <3>4
  <2>2. Sharers(to, f) = {f} /\ Sharers(at, f) = {f}
    BY <1>2, <1>6 DEF Sharers, Plain
  <2>3. CASE Coalesces(at, f, 1) /\ to[Source(f, 1)] = at[f]
    <3>1. \A x \in Residents(to, 1, f) : x = Source(f, 1) \/ \E g \in Sharers(at, f) : AliasOf(x, g)
      BY <2>1, <2>2
    <3> QED BY <3>1, <2>3, <1>1, <1>2, <1>6, TurnsComputed DEF to
  <2>4. CASE ~(Coalesces(at, f, 1) /\ to[Source(f, 1)] = at[f])
    BY <2>1, <2>2, <2>4 DEF Simple
  <2> QED BY <2>3, <2>4
<1> QED BY <1>1, <1>3, <1>4, <1>5, <1>6 DEF LayoutOK, to

\* The layout that allocation settles on is right.
LEMMA FirstLayoutIsRight ==
  ASSUME RegInv, stage = "allocate"
  PROVE  LayoutOK(FirstLayout, 1)
         /\ \A f, g \in Cached : FirstLayout[f] = FirstLayout[g] /\ FirstLayout[f] # None => f = g
<1>1. Compiled /\ Plain(Aliased)
  BY AliasedIsPlain DEF RegInv
<1>2. CASE FirstLayout = Aliased
  BY <1>1, <1>2, PlainIsRight DEF Plain
<1>3. CASE ~Has({"guard", "loop", "foreign"}, 1) /\ FirstLayout = Coalesced(Aliased, 1)
  <2>1. Straight(1)
    BY <1>1, <1>3, StraightCode
  <2> QED BY <2>1, <1>1, <1>3, CoalescedIsRight
<1> QED BY <1>2, <1>3 DEF FirstLayout

(***************************************************************************)
(* The layout of the later frames.                                         *)
(***************************************************************************)

\* The field whose register a group of merged fields is given.
Representative(f) == CHOOSE g \in Group(settled, f) : TRUE

\* Fields of one group, and their register.
LEMMA GroupFacts ==
  ASSUME Compiled, NEW f \in Cached, Merges(settled, f)
  PROVE  /\ f \in Group(settled, f)
         /\ Representative(f) \in Group(settled, f) /\ Representative(f) \in Cached
         /\ \A g \in Group(settled, f) :
              /\ g \in Cached /\ Eligible(settled, g, control + 1) /\ settled[g] # None
              /\ Source(g, control + 1) = Source(f, control + 1)
              /\ Group(settled, g) = Group(settled, f) /\ Merges(settled, g)
              /\ Representative(g) = Representative(f)
<1>1. Eligible(settled, f, control + 1)
  BY DEF Merges
<1>2. f \in Group(settled, f)
  BY <1>1 DEF Group
<1>3. Representative(f) \in Group(settled, f)
  BY <1>2 DEF Representative
<1>4. ASSUME NEW g \in Group(settled, f)
      PROVE  /\ g \in Cached /\ Eligible(settled, g, control + 1) /\ settled[g] # None
             /\ Source(g, control + 1) = Source(f, control + 1)
             /\ Group(settled, g) = Group(settled, f) /\ Merges(settled, g)
             /\ Representative(g) = Representative(f)
  <2>1. /\ g \in Cached /\ Eligible(settled, g, control + 1)
        /\ Source(g, control + 1) = Source(f, control + 1)
    BY DEF Group
  <2>2. Group(settled, g) = Group(settled, f)
    BY <2>1 DEF Group
  <2>3. Merges(settled, g)
    BY <2>1, <2>2 DEF Merges
  <2>4. Representative(g) = Representative(f)
    BY <2>2 DEF Representative
  <2> QED BY <2>1, <2>2, <2>3, <2>4 DEF Eligible
<1>5. Representative(f) \in Cached
  BY <1>3 DEF Group
<1> QED BY <1>2, <1>3, <1>4, <1>5

\* What merging does to each item.
LEMMA MergedFacts ==
  ASSUME Compiled, FirstOK
  PROVE  LET to == Merged(settled) IN
         /\ to \in [DOMAIN life -> Physical \cup {None}]
         /\ \A x \in DOMAIN life :
              \/ /\ to[x] = settled[x]
                 /\ \A f \in Cached : settled[f] = settled[x] /\ settled[x] # None => ~Merges(settled, f)
              \/ \E f \in Cached : /\ Merges(settled, f) /\ settled[f] = settled[x]
                                   /\ settled[x] # None /\ to[x] = settled[Representative(f)]
         /\ \A x \in kept \cap DOMAIN life : to[x] = settled[x]
         /\ \A f \in Cached : to[f] = IF Merges(settled, f) THEN settled[Representative(f)] ELSE settled[f]
<1> DEFINE to == Merged(settled)
           groups(x) == {f \in Cached : settled[x] # None /\ Merges(settled, f) /\ settled[f] = settled[x]}
<1>1. settled \in [DOMAIN life -> Physical \cup {None}]
      /\ \A f, g \in Cached : settled[f] = settled[g] /\ settled[f] # None => f = g
  BY DEF FirstOK, LayoutOK
<1>2. to = [x \in DOMAIN life |->
              IF groups(x) = {} THEN settled[x]
              ELSE settled[Representative(CHOOSE f \in groups(x) : TRUE)]]
  BY <1>1 DEF Merged, Representative
<1>3. ASSUME NEW x \in DOMAIN life
      PROVE  \/ /\ to[x] = settled[x]
                /\ \A f \in Cached : settled[f] = settled[x] /\ settled[x] # None => ~Merges(settled, f)
             \/ \E f \in Cached : /\ Merges(settled, f) /\ settled[f] = settled[x]
                                  /\ settled[x] # None /\ to[x] = settled[Representative(f)]
  <2>1. CASE groups(x) = {}
    BY <1>2, <2>1
  <2>2. CASE groups(x) # {}
    <3> DEFINE f == CHOOSE f \in groups(x) : TRUE
    <3>1. f \in groups(x)
      BY <2>2
    <3>2. to[x] = settled[Representative(f)]
      BY <1>2, <2>2
    <3> QED BY <3>1, <3>2
  <2> QED BY <2>1, <2>2
<1> HIDE DEF to, groups
<1>4. \A x \in DOMAIN life : to[x] \in Physical \cup {None}
  BY <1>1, <1>3, GroupFacts DEF Cached
<1>5. to \in [DOMAIN life -> Physical \cup {None}]
  BY <1>2, <1>4
<1>6. ASSUME NEW x \in kept \cap DOMAIN life PROVE to[x] = settled[x]
  <2>1. x \notin Cached
    BY ItemFacts, CodeFacts
  <2>2. \A f \in Cached : settled[f] = settled[x] => settled[x] = None
    BY <2>1 DEF FirstOK, LayoutOK, Cached
  <2> QED BY <2>2, <1>3
<1>7. ASSUME NEW f \in Cached
      PROVE  to[f] = IF Merges(settled, f) THEN settled[Representative(f)] ELSE settled[f]
  <2>1. f \in DOMAIN life /\ (Merges(settled, f) => settled[f] # None)
    BY GroupFacts DEF Cached
  <2> QED BY <2>1, <1>1, <1>3
<1> QED BY <1>3, <1>5, <1>6, <1>7 DEF to

\* Fields with one register are of one group, and values have the register of
\* a field only if they had that of a field it shares with.
LEMMA SharedFacts ==
  ASSUME Compiled, FirstOK, NEW f \in Cached, Merged(settled)[f] # None
  PROVE  LET to == Merged(settled) IN
         /\ settled[f] # None
         /\ \A g \in Cached : to[g] = to[f] => g = f \/ (Merges(settled, f) /\ g \in Group(settled, f))
         /\ \A x \in DOMAIN life : to[x] = to[f] =>
              \E g \in Cached : settled[x] = settled[g] /\ to[g] = to[f]
<1> DEFINE to == Merged(settled)
<1>1. /\ \A g \in Cached : to[g] = IF Merges(settled, g) THEN settled[Representative(g)] ELSE settled[g]
      /\ \A x \in DOMAIN life :
           \/ /\ to[x] = settled[x]
              /\ \A g \in Cached : settled[g] = settled[x] /\ settled[x] # None => ~Merges(settled, g)
           \/ \E g \in Cached : /\ Merges(settled, g) /\ settled[g] = settled[x]
                                /\ settled[x] # None /\ to[x] = settled[Representative(g)]
  BY MergedFacts
<1>2. \A g, h \in Cached : settled[g] = settled[h] /\ settled[g] # None => g = h
  BY DEF FirstOK
<1>3. \A g \in Cached : Merges(settled, g) =>
        /\ g \in Group(settled, g) /\ Representative(g) \in Group(settled, g)
        /\ Representative(g) \in Cached /\ settled[Representative(g)] # None
        /\ Merges(settled, Representative(g)) /\ Group(settled, Representative(g)) = Group(settled, g)
        /\ settled[g] # None
  BY GroupFacts
<1> HIDE DEF to
<1>4. ASSUME NEW g \in Cached, to[g] = to[f]
      PROVE  g = f \/ (Merges(settled, f) /\ g \in Group(settled, f))
  <2>1. CASE Merges(settled, f) /\ Merges(settled, g)
    <3>1. Representative(f) = Representative(g)
      BY <2>1, <1>1, <1>2, <1>3, <1>4
    <3> QED BY <3>1, <2>1, <1>3
  <2>2. CASE Merges(settled, f) /\ ~Merges(settled, g)
    <3>1. Representative(f) = g
      BY <2>2, <1>1, <1>2, <1>3, <1>4
    <3> QED BY <3>1, <2>2, <1>3
  <2>3. CASE ~Merges(settled, f) /\ Merges(settled, g)
    <3>1. Representative(g) = f
      BY <2>3, <1>1, <1>2, <1>3, <1>4
    <3> QED BY <3>1, <2>3, <1>3
  <2>4. CASE ~Merges(settled, f) /\ ~Merges(settled, g)
    BY <2>4, <1>1, <1>2, <1>4 DEF to
  <2> QED BY <2>1, <2>2, <2>3, <2>4
<1>5. ASSUME NEW x \in DOMAIN life, to[x] = to[f]
      PROVE  \E g \in Cached : settled[x] = settled[g] /\ to[g] = to[f]
  <2>1. ASSUME NEW g \in Cached, Merges(settled, g), settled[g] = settled[x],
               to[x] = settled[Representative(g)]
        PROVE  settled[x] = settled[g] /\ to[g] = to[f]
    BY <2>1, <1>1, <1>5
  <2>2. ASSUME to[x] = settled[x],
               \A g \in Cached : settled[g] = settled[x] /\ settled[x] # None => ~Merges(settled, g)
        PROVE  \E g \in Cached : settled[x] = settled[g] /\ to[g] = to[f]
    <3>1. settled[x] # None
      BY <2>2, <1>5 DEF to
    <3>2. CASE Merges(settled, f)
      BY <3>1, <3>2, <2>2, <1>1, <1>3, <1>5
    <3>3. CASE ~Merges(settled, f)
      BY <3>3, <2>2, <1>1, <1>5
    <3> QED BY <3>2, <3>3
  <2> QED BY <2>1, <2>2, <1>1
<1>6. settled[f] # None
  BY <1>1, <1>3 DEF to
<1> QED BY <1>4, <1>5, <1>6 DEF to

\* Between the instruction that computes the value of a field and the store of
\* that value there are only other stores, if the old value is dead.
LEMMA OnlyStoresBehind ==
  ASSUME Compiled, band = "sample", NEW from \in {1, control + 1}, Straight(from),
         NEW g \in Cached, NEW s \in DOMAIN code, OnlyStore(g, from, s),
         NEW a \in DOMAIN life, Transient(a), code[s].args[1] = a,
         life[a].begin >= from, life[a].begin > control,
         \A k \in LoadsOf(g) : from <= k /\ k < s => k < life[a].begin,
         NEW k \in DOMAIN code, life[a].begin < k, k < s
  PROVE  code[k].op = "store"
<1> DEFINE w == life[a].begin
<1>1. /\ w \in DOMAIN code /\ code[w].dst = a /\ DOMAIN code = 1..Len(code) /\ Len(code) \in Nat
      /\ \A j \in DOMAIN code : code[j].dst = a => j = w
      /\ StoresUp(code, control) /\ control \in 0..Len(code) /\ from \in Nat
  BY TransientFacts, CodeFacts
<1>2. code[s].op = "store" /\ code[s].field = g
  BY DEF OnlyStore, StoresTo
<1>3. Reads(code, s) = {a}
  BY <1>2, SourceFacts
<1>4. SUFFICES ASSUME NEW b \in k..(s - 1), Blocks(code, b, s) PROVE FALSE
  BY <1>1, <1>2 DEF StoresUp
<1>5. b \in DOMAIN code /\ b > w /\ b >= from /\ b < s
  BY <1>1, <1>4
<1>6. code[b].op \notin {"guard", "endguard", "foreign"}
  BY <1>5 DEF Straight
<1>7. code[b].dst \notin Reads(code, s)
  BY <1>1, <1>3, <1>5
<1>8. b \in Accesses(code) /\ code[b].field = g
  BY <1>2, <1>4, <1>6, <1>7 DEF Blocks
<1>9. code[b].op \notin {"loadAt", "storeAt"}
  <2>1. g \in CacheableIn(code, band)
    BY ItemFacts DEF Cached
  <2> QED BY <2>1, <1>8 DEF CacheableIn
<1>10. CASE code[b].op = "load"
  <2>1. b \in LoadsOf(g)
    BY <1>5, <1>8, <1>10 DEF LoadsOf
  <2> QED BY <2>1, <1>1, <1>5
<1>11. CASE code[b].op = "store"
  <2>1. b \in StoresTo(g)
    BY <1>5, <1>8, <1>11 DEF StoresTo
  <2> QED BY <2>1, <1>1, <1>5 DEF OnlyStore
<1> QED BY <1>8, <1>9, <1>10, <1>11 DEF Accesses

\* ... of that value.
LEMMA SameStoresBehind ==
  ASSUME Compiled, band = "sample", NEW a \in DOMAIN life, Transient(a),
         life[a].begin > control, code[life[a].begin].op = "arith",
         NEW s \in DOMAIN code,
         \A k \in DOMAIN code : life[a].begin < k /\ k < s => code[k].op = "store",
         NEW e \in DOMAIN code, life[a].begin < e, e < s
  PROVE  Reads(code, e) = {a}
<1> DEFINE w == life[a].begin
<1>1. /\ w \in DOMAIN code /\ code[w].dst = a /\ DOMAIN code = 1..Len(code) /\ Len(code) \in Nat
      /\ StoresUp(code, control) /\ control \in 0..Len(code)
  BY TransientFacts, CodeFacts
<1>2. code[e].op = "store"
  OBVIOUS
<1>3. Reads(code, e) = {code[e].args[1]} /\ code[e].args[1] # None
  BY <1>2, SourceFacts
<1>4. SUFFICES ASSUME a \notin Reads(code, e) PROVE FALSE
  BY <1>3
<1>5. PICK b \in w..(e - 1) : Blocks(code, b, e)
  BY <1>1, <1>2 DEF StoresUp
<1>6. b # w
  <2> SUFFICES ASSUME b = w PROVE FALSE
    OBVIOUS
  <2>1. b \in Accesses(code)
    BY <1>1, <1>4, <1>5 DEF Blocks
  <2> QED BY <2>1 DEF Accesses
<1>7. b \in DOMAIN code /\ w < b /\ b < e
  BY <1>1, <1>5, <1>6
<1>8. code[b].op = "store"
  BY <1>1, <1>7
<1>9. code[b].dst = None
  BY <1>7, <1>8, SourceFacts
<1>10. code[b].field = code[e].field
  BY <1>3, <1>5, <1>8, <1>9 DEF Blocks
<1>11. \A c \in b..e : code[c].op = "store"
  BY <1>1, <1>2, <1>7
<1>12. b <= control => e <= control
  BY <1>1, <1>7
<1> QED BY <1>1, <1>2, <1>7, <1>10, <1>11, <1>12 DEF StoresUp

\* What the layout of the later frames is made of.
LEMMA LaterFacts ==
  ASSUME Compiled, FirstOK, MayPeel
  PROVE  /\ band = "sample" /\ Straight(control + 1) /\ control + 1 \in {1, control + 1}
         /\ Together \in [DOMAIN life -> Physical \cup {None}]
         /\ Later \in [DOMAIN life -> Physical \cup {None}] /\ Later = Coalesced(Together, control + 1)
         /\ \A x \in DOMAIN life : ~Transient(x) => Later[x] = Together[x]
         /\ \A f \in Cached : f \in DOMAIN life /\ f \notin kept /\ ~Transient(f) /\ Later[f] = Together[f]
         /\ \A f \in Cached : Sharers(Later, f) = Sharers(Together, f)
         /\ \A x \in DOMAIN life :
              \/ Later[x] = Together[x]
              \/ \E h \in Cached :
                   /\ Coalesces(Together, h, control + 1) /\ Source(h, control + 1) = x
                   /\ Later[x] = Together[h] /\ Together[h] # None
                   /\ Transient(x) /\ code[life[x].begin].op = "arith"
<1>1. band = "sample" /\ Straight(control + 1)
  BY StraightCode DEF MayPeel
<1>2. Together \in [DOMAIN life -> Physical \cup {None}]
  BY MergedFacts DEF Together
<1>3. Later = Coalesced(Together, control + 1)
  BY DEF Later, LaterLayout, Together
<1>4. /\ Later \in [DOMAIN life -> Physical \cup {None}]
      /\ \A x \in DOMAIN life : ~Transient(x) => Later[x] = Together[x]
      /\ \A x \in DOMAIN life :
           \/ Later[x] = Together[x]
           \/ \E h \in Cached :
                /\ Coalesces(Together, h, control + 1) /\ Source(h, control + 1) = x
                /\ Later[x] = Together[h] /\ Together[h] # None
                /\ Transient(x) /\ code[life[x].begin].op = "arith"
  BY <1>2, <1>3, CoalescedFacts
<1>5. \A f \in Cached : f \in DOMAIN life /\ f \notin kept /\ ~Transient(f)
  BY ItemFacts DEF Cached, Transient
<1>6. \A f \in Cached : Sharers(Later, f) = Sharers(Together, f)
  BY <1>4, <1>5 DEF Sharers
<1> QED BY <1>1, <1>2, <1>3, <1>4, <1>5, <1>6

\* A retained value has its register for itself.
LEMMA LaterKeeps ==
  ASSUME Compiled, FirstOK, MayPeel,
         NEW x \in kept \cap DOMAIN life, NEW y \in DOMAIN life, Later[x] = Later[y], Later[x] # None
  PROVE  x = y
<1>1. /\ \A z \in DOMAIN life : \/ Together[z] = settled[z]
                                \/ \E f \in Cached : Together[z] = Together[f] 
      /\ Together[x] = settled[x]
      /\ \A f \in Cached : \E g \in Cached : Together[f] = settled[g]
  BY MergedFacts, GroupFacts DEF Together
<1>2. \A z \in DOMAIN life : settled[x] = settled[z] /\ settled[x] # None => x = z
  BY DEF FirstOK, LayoutOK
<1>3. Later[x] = Together[x] /\ x \notin Cached
  BY LaterFacts DEF Transient
<1>4. \A f \in Cached : Together[f] # Together[x]
  BY <1>1, <1>2, <1>3 DEF Cached
<1>5. Later[y] = Together[y]
  BY <1>3, <1>4, LaterFacts
<1>6. Together[y] = settled[y]
  BY <1>1, <1>3, <1>4, <1>5
<1> QED BY <1>1, <1>2, <1>3, <1>5, <1>6

\* Values that share a register that is not a field's are apart.
LEMMA LaterSeparates ==
  ASSUME Compiled, FirstOK, MayPeel,
         NEW x \in DOMAIN life, NEW y \in DOMAIN life, Transient(x), Transient(y), x # y,
         Later[x] = Later[y], Later[x] # None, \A f \in Cached : Later[f] # Later[x]
  PROVE  Separate(x, y)
<1>1. \A f \in Cached : Later[f] = Together[f]
  BY LaterFacts
<1>2. Later[x] = Together[x] /\ Later[y] = Together[y]
  BY <1>1, LaterFacts
<1>3. \A z \in DOMAIN life :
        \/ /\ Together[z] = settled[z]
           /\ \A f \in Cached : settled[f] = settled[z] /\ settled[z] # None => Together[f] = settled[f]
        \/ \E f \in Cached : Together[z] = Together[f]
  BY MergedFacts, GroupFacts DEF Together
<1>4. ASSUME NEW z \in {x, y}
      PROVE  /\ Together[z] = settled[z]
             /\ \A f \in Cached : settled[f] # settled[z]
  <2>1. z \in DOMAIN life /\ Later[z] = Together[z] /\ Later[z] = Later[x]
    BY <1>2
  <2>2. \A f \in Cached : Together[z] # Together[f]
    BY <1>1, <2>1
  <2> QED BY <1>3, <2>1, <2>2
<1> QED BY <1>2, <1>4 DEF FirstOK, LayoutOK

\* A load that finds its value in a register of fields was loaded from that field.
LEMMA LaterLoads ==
  ASSUME Compiled, FirstOK, MayPeel, NEW f \in Cached, Later[f] # None,
         NEW h \in Cached, Together[h] = Together[f],
         NEW k \in LoadsOf(h), k > control, Later[code[k].dst] = Later[f]
  PROVE  LET d == code[k].dst IN
         d \in DOMAIN life /\ Transient(d) /\ life[d].begin = k /\ settled[d] = settled[h]
<1> DEFINE d == code[k].dst
<1>1. k \in DOMAIN code /\ code[k].op = "load" /\ code[k].field = h
  BY DEF LoadsOf
<1>2. d # None /\ d \in DOMAIN life /\ d \notin Cached
  BY <1>1, CodeFacts, OperandFacts DEF Shape
<1>3. Transient(d) => life[d].begin = k
  BY <1>1, <1>2, TransientFacts
<1>4. Later[d] = Together[d] /\ Later[f] = Together[f] /\ f \in DOMAIN life
  BY <1>1, <1>2, <1>3, LaterFacts
<1>5. PICK g \in Cached : settled[d] = settled[g] /\ Together[g] = Together[f]
  BY <1>2, <1>4, SharedFacts DEF Together
<1>6. settled[g] # None
  BY <1>4, <1>5, SharedFacts DEF Together
<1>7. g \in DOMAIN life /\ d # g
  BY <1>2, LaterFacts
<1>8. Transient(d)
  BY <1>2, <1>5, <1>6, <1>7 DEF FirstOK, LayoutOK, Transient
<1>9. life[d].begin >= 1 /\ d \in Residents(settled, 1, g)
  BY <1>2, <1>3, <1>5, <1>8, TransientFacts, CodeFacts DEF Residents
<1>10. AliasOf(d, g)
  <2>1. CASE Simple(settled, 1, g)
    BY <2>1, <1>9 DEF Simple
  <2>2. ASSUME NEW w \in DOMAIN code, NEW a \in DOMAIN life, Turns(settled, 1, g, w, a)
        PROVE  AliasOf(d, g)
    <3>1. Sharers(settled, g) = {g}
      BY <1>6 DEF Sharers, FirstOK
    <3>2. d = a => code[life[d].begin].op # "arith"
      BY <1>1, <1>3, <1>8
    <3> QED BY <2>2, <3>1, <3>2, <1>9 DEF Turns, Computed
  <2> QED BY <2>1, <2>2, <1>6 DEF FirstOK, LayoutOK
<1>11. g = h
  BY <1>1, <1>3, <1>8, <1>10 DEF AliasOf
<1> QED BY <1>2, <1>3, <1>5, <1>8, <1>11

\* A value of a later frame in the register of fields is loaded from one of
\* them, or computed there, by this coalescing or by the first.
Kin(f, x) ==
  \/ \E h \in Cached : /\ Coalesces(Together, h, control + 1) /\ Together[h] = Together[f]
                       /\ x = Source(h, control + 1) /\ Later[x] = Together[h]
  \/ \E g \in Sharers(Together, f) : AliasOf(x, g)
\* x is computed in the register that g has in the first layout.
First(g, x) ==
  \E s \in DOMAIN code :
    /\ OnlyStore(g, control + 1, s) /\ code[s].args[1] = x /\ code[life[x].begin].op = "arith"
    /\ Transient(x) /\ life[x].begin > control /\ x \in DOMAIN life
    /\ \A k \in LoadsOf(g) : control < k /\ k < s =>
         k < life[x].begin /\ ~(settled[code[k].dst] = settled[g] /\ life[code[k].dst].end > life[x].begin)

\* Every value in a register of fields is of one of these kinds.
LEMMA LaterResidents ==
  ASSUME Compiled, FirstOK, MayPeel, NEW f \in Cached, Later[f] # None,
         NEW x \in Residents(Later, control + 1, f)
  PROVE  Kin(f, x) \/ \E g \in Sharers(Together, f) : First(g, x)
<1>1. x \in DOMAIN life /\ Transient(x) /\ Later[x] = Later[f] /\ life[x].begin >= control + 1
      /\ Later[f] = Together[f] /\ control \in Nat
  BY LaterFacts, CodeFacts DEF Residents
<1>2. CASE Later[x] # Together[x]
  BY <1>1, <1>2, LaterFacts DEF Kin
<1>3. CASE Later[x] = Together[x]
  <2>1. PICK g \in Cached : settled[x] = settled[g] /\ Together[g] = Together[f]
    BY <1>1, <1>3, SharedFacts DEF Together
  <2>2. settled[g] # None /\ g \in Sharers(Together, f)
    BY <1>1, <2>1, SharedFacts DEF Together, Sharers
  <2>3. x \in Residents(settled, 1, g)
    BY <1>1, <2>1, TransientFacts, CodeFacts DEF Residents
  <2>4. CASE Simple(settled, 1, g)
    BY <2>2, <2>3, <2>4 DEF Simple, Kin
  <2>5. ASSUME NEW w \in DOMAIN code, NEW a \in DOMAIN life, Turns(settled, 1, g, w, a)
        PROVE  Kin(f, x) \/ First(g, x)
    <3>1. Sharers(settled, g) = {g}
      BY <2>1, <2>2 DEF Sharers, FirstOK
    <3>2. CASE AliasOf(x, g)
      BY <2>2, <3>2 DEF Kin
    <3>3. CASE x = a /\ Computed(settled, 1, g, w, a)
      <4>1. life[x].begin = w /\ code[w].op = "arith"
        BY <3>3 DEF Computed
      <4>2. PICK s \in DOMAIN code :
              /\ OnlyStore(g, 1, s) /\ code[s].args[1] = x /\ w <= s
              /\ \A k \in LoadsOf(g) :
                   1 <= k /\ k < s => k < w /\ ~(settled[code[k].dst] = settled[g] /\ life[code[k].dst].end > w)
        BY <2>5, <3>1, <3>3 DEF Turns, Stores
      <4>3. OnlyStore(g, control + 1, s)
        <5>1. \A k \in StoresTo(g) : k \in Nat /\ k >= 1
          BY CodeFacts DEF StoresTo
        <5>2. w \in Nat /\ s \in Nat
          BY CodeFacts
        <5> QED BY <1>1, <4>1, <4>2, <5>1, <5>2 DEF OnlyStore
      <4>4. \A k \in LoadsOf(g) : k \in Nat /\ k >= 1
        BY CodeFacts DEF LoadsOf
      <4>5. life[x].begin > control
        BY <1>1, <4>1, CodeFacts
      <4> QED BY <1>1, <4>1, <4>2, <4>3, <4>4, <4>5 DEF First
    <3> QED BY <2>3, <2>5, <3>1, <3>2, <3>3 DEF Turns
  <2> QED BY <2>1, <2>2, <2>4, <2>5 DEF FirstOK, LayoutOK
<1> QED BY <1>2, <1>3

\* Merged fields are stored one value, behind the last use of what they held.
LEMMA GroupStores ==
  ASSUME Compiled, FirstOK, MayPeel, NEW f \in Cached, Later[f] # None, Merges(settled, f)
  PROVE  LET m == Min({StorePlace(h, control + 1) : h \in Group(settled, f)})
             a == Source(f, control + 1) IN
         /\ m \in DOMAIN code /\ m > control /\ a \in DOMAIN life
         /\ \E h \in Sharers(Later, f) : m \in StoresTo(h)
         /\ \A h \in Sharers(Later, f) : \E s \in DOMAIN code :
              /\ OnlyStore(h, control + 1, s) /\ code[s].args[1] = a /\ m <= s
              /\ \A k \in LoadsOf(h) : control < k /\ k < s =>
                   /\ k < m
                   /\ Later[code[k].dst] = Later[f] =>
                        LET d == code[k].dst IN
                        /\ d \in DOMAIN life /\ Transient(d) /\ life[d].begin = k /\ life[d].end <= m
<1> DEFINE c1 == control + 1
           G == Group(settled, f)
           places == {StorePlace(h, c1) : h \in G}
           m == Min(places)
           a == Source(f, c1)
<1>1. /\ f \in G
      /\ \A h \in G : /\ h \in Cached /\ Eligible(settled, h, c1) /\ Source(h, c1) = a
                      /\ Merges(settled, h) /\ Representative(h) = Representative(f)
  BY GroupFacts
<1>2. DOMAIN code = 1..Len(code) /\ Len(code) \in Nat /\ control \in Nat
  BY CodeFacts
<1> HIDE DEF c1, a
<1>3. \A h \in G :
        LET s == StorePlace(h, c1) IN
        s \in DOMAIN code /\ OnlyStore(h, c1, s) /\ code[s].args[1] = a /\ s >= c1 /\ a \in DOMAIN life
  BY <1>1, EligibleFacts
<1>4. /\ m \in places /\ \A p \in places : m <= p
  <2>1. places \in SUBSET Nat /\ places # {}
    BY <1>1, <1>2, <1>3
  <2> HIDE DEF places
  <2> QED BY <2>1, MinIsLeast
<1>5. PICK h0 \in G : m = StorePlace(h0, c1)
  BY <1>4
<1>6. Sharers(Later, f) = G
  <2>1. \A h \in G : Together[h] = Together[f]
    BY <1>1, MergedFacts DEF Together
  <2>2. \A h \in Cached : Together[h] = Together[f] => h \in G
    BY <1>1, LaterFacts, SharedFacts DEF Together
  <2>3. Sharers(Later, f) = Sharers(Together, f)
    BY LaterFacts
  <2> QED BY <2>1, <2>2, <2>3, <1>1 DEF Sharers
<1>7. m \in StoresTo(h0) /\ m \in DOMAIN code /\ m > control
  BY <1>2, <1>3, <1>5 DEF OnlyStore, c1, StoresTo
<1> HIDE DEF m
<1>8. ASSUME NEW h \in G
      PROVE  LET s == StorePlace(h, c1) IN
             /\ m <= s
             /\ \A k \in LoadsOf(h) : control < k /\ k < s =>
                   /\ k < m
                   /\ Later[code[k].dst] = Later[f] =>
                        LET d == code[k].dst IN
                        /\ d \in DOMAIN life /\ Transient(d) /\ life[d].begin = k /\ life[d].end <= m
  <2> DEFINE s == StorePlace(h, c1)
  <2>1. m <= s
    BY <1>4 DEF m
  <2>2. Available(settled, h, m, c1)
    BY DEF Merges, m, c1
  <2>3. ASSUME NEW k \in LoadsOf(h), control < k, k < s
        PROVE  k < m /\ ~(settled[code[k].dst] = settled[h] /\ life[code[k].dst].end > m)
    <3>1. k \in Nat
      BY <1>2 DEF LoadsOf
    <3> QED BY <3>1, <2>2, <2>3, <1>2 DEF Available, c1
  <2>4. Together[h] = Together[f] /\ h \in Cached
    BY <1>6, LaterFacts DEF Sharers
  <2>5. ASSUME NEW k \in LoadsOf(h), control < k, k < s, Later[code[k].dst] = Later[f]
        PROVE  LET d == code[k].dst IN
               d \in DOMAIN life /\ Transient(d) /\ life[d].begin = k /\ life[d].end <= m
    <3> DEFINE d == code[k].dst
    <3>1. d \in DOMAIN life /\ Transient(d) /\ life[d].begin = k /\ settled[d] = settled[h]
      BY <2>4, <2>5, LaterLoads
    <3>2. life[d].end \in Nat /\ m \in Nat
      BY <3>1, <1>2, <1>7, TransientFacts
    <3> QED BY <3>1, <3>2, <2>3, <2>5
  <2> QED BY <2>1, <2>3, <2>5
<1> QED BY <1>1, <1>3, <1>5, <1>6, <1>7, <1>8 DEF m, c1, a

\* ... and nothing else is in their register.
LEMMA MergedTurns ==
  ASSUME Compiled, FirstOK, MayPeel, NEW f \in Cached, Later[f] # None, Merges(settled, f),
         \A x \in Residents(Later, control + 1, f) : \E g \in Sharers(Later, f) : AliasOf(x, g)
  PROVE  \E w \in DOMAIN code, a \in DOMAIN life : Turns(Later, control + 1, f, w, a)
<1> DEFINE m == Min({StorePlace(h, control + 1) : h \in Group(settled, f)})
           a == Source(f, control + 1)
<1>1. /\ m \in DOMAIN code /\ m > control /\ a \in DOMAIN life
      /\ \E h \in Sharers(Later, f) : m \in StoresTo(h)
      /\ \A h \in Sharers(Later, f) : \E s \in DOMAIN code :
           /\ OnlyStore(h, control + 1, s) /\ code[s].args[1] = a /\ m <= s
           /\ \A k \in LoadsOf(h) : control < k /\ k < s =>
                /\ k < m
                /\ Later[code[k].dst] = Later[f] =>
                     LET d == code[k].dst IN
                     /\ d \in DOMAIN life /\ Transient(d) /\ life[d].begin = k /\ life[d].end <= m
  BY GroupStores
<1> HIDE DEF m, a
<1>2. DOMAIN code = 1..Len(code) /\ Len(code) \in Nat /\ control \in Nat
  BY CodeFacts
<1>3. ASSUME NEW h \in Sharers(Later, f) PROVE Stores(Later, control + 1, f, h, m, a)
  <2>1. PICK s \in DOMAIN code :
           /\ OnlyStore(h, control + 1, s) /\ code[s].args[1] = a /\ m <= s
           /\ \A k \in LoadsOf(h) : control < k /\ k < s =>
                /\ k < m
                /\ Later[code[k].dst] = Later[f] =>
                     LET d == code[k].dst IN
                     /\ d \in DOMAIN life /\ Transient(d) /\ life[d].begin = k /\ life[d].end <= m
    BY <1>1
  <2>2. ASSUME NEW k \in LoadsOf(h), control + 1 <= k, k < s
        PROVE  k < m /\ ~(Later[code[k].dst] = Later[f] /\ life[code[k].dst].end > m)
    <3>1. k \in Nat /\ control < k
      BY <1>2, <2>2 DEF LoadsOf
    <3>2. k < m /\ (Later[code[k].dst] = Later[f] =>
                     code[k].dst \in DOMAIN life /\ Transient(code[k].dst) /\ life[code[k].dst].end <= m)
      BY <2>1, <2>2, <3>1
    <3>3. Later[code[k].dst] = Later[f] => life[code[k].dst].end \in Nat
      BY <3>2, <1>2, TransientFacts
    <3> QED BY <3>2, <3>3, <1>1, <1>2
  <2> QED BY <2>1, <2>2, <1>1, <1>2 DEF Stores
<1>4. Straight(control + 1) /\ m >= control + 1
  BY <1>1, <1>2, LaterFacts
<1> QED BY <1>1, <1>3, <1>4 DEF Turns

\* A value computed in the register of one field is the next value of all that
\* share the register.
LEMMA FirstTurns ==
  ASSUME Compiled, FirstOK, MayPeel, NEW f \in Cached, Later[f] # None, Merges(settled, f),
         NEW g \in Sharers(Together, f), NEW x \in Residents(Later, control + 1, f), First(g, x),
         \A y \in Residents(Later, control + 1, f) :
           y = x \/ \E h \in Sharers(Later, f) : AliasOf(y, h)
  PROVE  \E w \in DOMAIN code, a \in DOMAIN life : Turns(Later, control + 1, f, w, a)
<1> DEFINE m == Min({StorePlace(h, control + 1) : h \in Group(settled, f)})
           a == Source(f, control + 1)
           w == life[x].begin
<1>1. /\ m \in DOMAIN code /\ m > control /\ a \in DOMAIN life
      /\ \A h \in Sharers(Later, f) : \E s \in DOMAIN code :
           /\ OnlyStore(h, control + 1, s) /\ code[s].args[1] = a /\ m <= s
           /\ \A k \in LoadsOf(h) : control < k /\ k < s =>
                /\ k < m
                /\ Later[code[k].dst] = Later[f] =>
                     LET d == code[k].dst IN
                     /\ d \in DOMAIN life /\ Transient(d) /\ life[d].begin = k /\ life[d].end <= m
  BY GroupStores
<1>2. DOMAIN code = 1..Len(code) /\ Len(code) \in Nat /\ control \in Nat
  BY CodeFacts
<1>3. PICK t \in DOMAIN code :
        /\ OnlyStore(g, control + 1, t) /\ code[t].args[1] = x /\ code[w].op = "arith"
        /\ Transient(x) /\ w > control /\ x \in DOMAIN life
        /\ \A k \in LoadsOf(g) : control < k /\ k < t => k < w
  BY DEF First
<1>4. g \in Sharers(Later, f) /\ g \in Cached
  BY LaterFacts DEF Sharers
<1> HIDE DEF m, a
<1>5. a = x /\ m <= t
  <2>1. PICK s \in DOMAIN code : OnlyStore(g, control + 1, s) /\ code[s].args[1] = a /\ m <= s
    BY <1>1, <1>4
  <2>2. s = t
    BY <2>1, <1>3 DEF OnlyStore
  <2> QED BY <2>1, <2>2, <1>3
<1>6. /\ w \in DOMAIN code /\ \A k \in DOMAIN code : x \in Reads(code, k) => w < k
      /\ \A k \in DOMAIN code : code[k].dst = x => k = w
  BY <1>3, TransientFacts
<1> DEFINE c1 == control + 1
<1>7. /\ c1 \in {1, control + 1} /\ Straight(c1) /\ band = "sample" /\ w >= c1
      /\ \A k \in LoadsOf(g) : c1 <= k /\ k < t => k < w
  <2>1. \A k \in LoadsOf(g) : k \in Nat
    BY <1>2 DEF LoadsOf
  <2> QED BY <2>1, <1>2, <1>3, <1>6, LaterFacts
<1>8. \A k \in DOMAIN code : w < k /\ k < t => code[k].op = "store"
  <2> HIDE DEF w, c1
  <2>1. OnlyStore(g, c1, t)
    BY <1>3 DEF c1
  <2> QED BY <1>3, <1>4, <1>7, <2>1, OnlyStoresBehind DEF w
<1>9. \A e \in DOMAIN code : w < e /\ e <= t => Reads(code, e) = {x}
  <2>1. Reads(code, t) = {x}
    BY <1>3, SourceFacts DEF OnlyStore, StoresTo
  <2>2. \A e \in DOMAIN code : w < e /\ e < t => Reads(code, e) = {x}
    BY <1>3, <1>7, <1>8, SameStoresBehind
  <2> QED BY <2>1, <2>2, <1>2
<1>10. ASSUME NEW h \in Sharers(Later, f) PROVE Stores(Later, c1, f, h, w, x)
  <2>1. PICK s \in DOMAIN code :
           /\ OnlyStore(h, control + 1, s) /\ code[s].args[1] = a /\ m <= s
           /\ \A k \in LoadsOf(h) : control < k /\ k < s =>
                /\ k < m
                /\ Later[code[k].dst] = Later[f] =>
                     LET d == code[k].dst IN
                     /\ d \in DOMAIN life /\ Transient(d) /\ life[d].begin = k /\ life[d].end <= m
    BY <1>1
  <2>2. w < s
    <3>1. x \in Reads(code, s)
      BY <2>1, <1>5, SourceFacts DEF OnlyStore, StoresTo
    <3> QED BY <3>1, <1>6
  <2>3. ASSUME NEW k \in LoadsOf(h), c1 <= k, k < s
        PROVE  k < w /\ ~(Later[code[k].dst] = Later[f] /\ life[code[k].dst].end > w)
    <3>1. k \in DOMAIN code /\ code[k].op = "load" /\ k \in Nat /\ control < k
      BY <1>2, <2>3 DEF LoadsOf
    <3>2. k < m
      BY <2>1, <2>3, <3>1
    <3>3. k < w
      BY <3>1, <3>2, <1>2, <1>3, <1>5, <1>6, <1>8, <1>1
    <3>4. ASSUME Later[code[k].dst] = Later[f], life[code[k].dst].end > w PROVE FALSE
      <4> DEFINE d == code[k].dst
      <4>1. d \in DOMAIN life /\ Transient(d) /\ life[d].begin = k /\ life[d].end <= m
        BY <2>1, <2>3, <3>1, <3>4
      <4>2. life[d].end \in DOMAIN code /\ life[d].end # life[d].begin
        BY <4>1, <3>3, <3>4, <1>2, <1>6, TransientFacts
      <4>3. d \notin Reads(code, life[d].end)
        <5>1. d # x
          BY <4>1, <3>3, <1>6, <1>2
        <5>2. life[d].end <= t
          BY <4>1, <4>2, <1>5, <1>1, <1>2
        <5> QED BY <5>1, <5>2, <4>2, <3>4, <1>9
      <4>4. ASSUME NEW l \in LoopsOf(code), l[2] = life[d].end PROVE FALSE
        <5>1. l[2] >= c1 /\ l[2] \in DOMAIN code /\ code[l[2]].op = "endloop"
          BY <4>2, <4>4, <3>4, <1>7, <1>6, <1>2 DEF LoopsOf
        <5> QED BY <5>1, <1>7 DEF Straight
      <4> QED BY <4>1, <4>2, <4>3, <4>4, TransientFacts
    <3> QED BY <3>3, <3>4
  <2> QED BY <2>1, <2>2, <2>3, <1>2, <1>3, <1>5, <1>6 DEF Stores
<1>11. Computed(Later, c1, f, w, x)
  BY <1>3 DEF Computed
<1>12. Turns(Later, c1, f, w, x)
  BY <1>7, <1>10, <1>11 DEF Turns
<1> QED BY <1>3, <1>6, <1>12

\* A value computed for a field that shares with none is coalesced with it.
LEMMA FirstAlone ==
  ASSUME Compiled, FirstOK, MayPeel, NEW f \in Cached, Later[f] # None,
         Sharers(Together, f) = {f}, NEW x, First(f, x)
  PROVE  Coalesces(Together, f, control + 1) /\ Source(f, control + 1) = x
<1> DEFINE c1 == control + 1
           w == life[x].begin
<1>1. PICK s \in DOMAIN code :
        /\ OnlyStore(f, c1, s) /\ code[s].args[1] = x /\ code[w].op = "arith"
        /\ Transient(x) /\ w > control /\ x \in DOMAIN life
        /\ \A k \in LoadsOf(f) : control < k /\ k < s =>
             k < w /\ ~(settled[code[k].dst] = settled[f] /\ life[code[k].dst].end > w)
  BY DEF First
<1>2. DOMAIN code = 1..Len(code) /\ Len(code) \in Nat /\ control \in Nat /\ w \in DOMAIN code
      /\ code[w].dst = x
  BY <1>1, CodeFacts, TransientFacts
<1>3. StorePlace(f, c1) = s /\ Source(f, c1) = x
  BY <1>1, StoreIs
<1>4. Together[f] # None /\ Later[f] = Together[f]
  BY LaterFacts
<1>5. Eligible(Together, f, c1)
  BY <1>1, <1>4, OneStore DEF Eligible
<1>6. Available(Together, f, w, c1)
  <2> SUFFICES ASSUME NEW k \in LoadsOf(f), c1 <= k, k < s
               PROVE  k < w /\ ~(Together[code[k].dst] = Together[f] /\ life[code[k].dst].end > w)
    BY <1>3 DEF Available
  <2>1. k \in DOMAIN code /\ code[k].op = "load" /\ control < k
    BY <1>2 DEF LoadsOf
  <2>2. k < w /\ ~(settled[code[k].dst] = settled[f] /\ life[code[k].dst].end > w)
    BY <1>1, <2>1
  <2> DEFINE d == code[k].dst
  <2>3. d \in DOMAIN life /\ d \notin Cached
    BY <2>1, CodeFacts, OperandFacts DEF Shape
  <2>4. Transient(d) => life[d].begin = k
    BY <2>1, <2>3, TransientFacts
  <2>5. Together[d] = Later[d]
    BY <2>1, <2>3, <2>4, LaterFacts
  <2>6. ASSUME Together[d] = Together[f] PROVE settled[d] = settled[f]
    <3>1. Later[code[k].dst] = Later[f] /\ k > control
      BY <2>1, <2>5, <2>6, <1>2, <1>4
    <3> QED BY <3>1, LaterLoads
  <2> QED BY <2>2, <2>6
<1>7. \A g \in Cached : Together[g] = Together[f] => g = f
  BY DEF Sharers
<1> HIDE DEF c1
<1>8. w >= c1
  BY <1>1, <1>2 DEF c1
<1> QED BY <1>1, <1>2, <1>3, <1>5, <1>6, <1>7, <1>8 DEF Coalesces, c1

\* Fields that share a register were merged.
LEMMA SharersMerged ==
  ASSUME Compiled, FirstOK, MayPeel, NEW f \in Cached, Later[f] # None, Sharers(Together, f) # {f}
  PROVE  Merges(settled, f)
<1>1. f \in Sharers(Together, f) /\ Together[f] # None
  BY LaterFacts DEF Sharers
<1>2. PICK g \in Sharers(Together, f) : g # f
  BY <1>1
<1> QED BY <1>1, <1>2, SharedFacts DEF Sharers, Together

\* The layout of the later frames is right from the sample part on.
LEMMA LaterIsRight ==
  ASSUME Compiled, FirstOK, MayPeel
  PROVE  LayoutOK(Later, control + 1)
<1> DEFINE c1 == control + 1
<1>1. ASSUME NEW f \in Cached, Later[f] # None
      PROVE  Simple(Later, c1, f) \/ \E w \in DOMAIN code, a \in DOMAIN life : Turns(Later, c1, f, w, a)
  <2>1. \A x \in Residents(Later, c1, f) : Kin(f, x) \/ \E g \in Sharers(Together, f) : First(g, x)
    BY <1>1, LaterResidents
  <2>2. /\ c1 \in {1, control + 1} /\ Straight(c1) /\ Later = Coalesced(Together, c1)
        /\ Together \in [DOMAIN life -> Physical \cup {None}] /\ Together[f] # None
        /\ Sharers(Later, f) = Sharers(Together, f) /\ f \in Sharers(Together, f)
    BY <1>1, LaterFacts DEF Sharers
  <2>3. ASSUME NEW h \in Cached, Together[h] = Together[f], Coalesces(Together, h, c1),
               Later[Source(h, c1)] = Together[h]
        PROVE  \E w \in DOMAIN code, a \in DOMAIN life : Turns(Later, c1, f, w, a)
    <3>1. \A g \in Cached : Together[g] = Together[h] => Source(g, c1) = Source(h, c1)
      BY <2>3 DEF Coalesces
    <3>2. \A g \in Sharers(Together, f) : \A x : First(g, x) => x = Source(g, c1)
      BY StoreIs DEF First
    <3>3. \A x \in Residents(Later, c1, f) :
            x = Source(h, c1) \/ \E g \in Sharers(Together, f) : AliasOf(x, g)
      <4> SUFFICES ASSUME NEW x \in Residents(Later, c1, f), ~\E g \in Sharers(Together, f) : AliasOf(x, g)
                   PROVE  x = Source(h, c1)
        OBVIOUS
      <4>1. \/ \E g \in Cached : Together[g] = Together[f] /\ x = Source(g, c1)
            \/ \E g \in Sharers(Together, f) : First(g, x)
        BY <2>1 DEF Kin
      <4> QED BY <4>1, <3>1, <3>2, <2>3 DEF Sharers
    <3>4. Coalesced(Together, c1)[Source(h, c1)] = Together[h]
      BY <2>2, <2>3
    <3>5. \A x \in Residents(Coalesced(Together, c1), c1, f) :
            x = Source(h, c1) \/ \E g \in Sharers(Together, f) : AliasOf(x, g)
      BY <3>3, <2>2
    <3> HIDE DEF c1
    <3>6. LET a == Source(h, c1) IN
          a \in DOMAIN life /\ life[a].begin \in DOMAIN code
            /\ Turns(Coalesced(Together, c1), c1, f, life[a].begin, a)
      BY <3>4, <3>5, <2>2, <2>3, TurnsComputed
    <3> QED BY <3>6, <2>2
  <2>4. ASSUME ~\E h \in Cached : /\ Together[h] = Together[f] /\ Coalesces(Together, h, c1)
                                  /\ Later[Source(h, c1)] = Together[h]
        PROVE  Simple(Later, c1, f) \/ \E w \in DOMAIN code, a \in DOMAIN life : Turns(Later, c1, f, w, a)
    <3>1. \A x \in Residents(Later, c1, f) : \/ \E g \in Sharers(Later, f) : AliasOf(x, g)
                                             \/ \E g \in Sharers(Together, f) : First(g, x)
      BY <2>1, <2>2, <2>4 DEF Kin
    <3>2. CASE \E x \in Residents(Later, c1, f), g \in Sharers(Together, f) : First(g, x)
      <4>1. PICK x \in Residents(Later, c1, f), g \in Sharers(Together, f) : First(g, x)
        BY <3>2
      <4>2. Sharers(Together, f) # {f}
        <5> SUFFICES ASSUME Sharers(Together, f) = {f} PROVE FALSE
          OBVIOUS
        <5>1. g = f
          BY <4>1
        <5>2. Coalesces(Together, f, c1) /\ Source(f, c1) = x
          BY <4>1, <5>1, <1>1, FirstAlone
        <5>3. Later[x] = Together[f]
          BY <1>1, LaterFacts DEF Residents
        <5> QED BY <5>2, <5>3, <2>4
      <4>3. Merges(settled, f)
        BY <4>2, <1>1, SharersMerged
      <4>4. \A h \in Sharers(Together, f) : Source(h, c1) = Source(g, c1)
        <5>1. \A h \in Sharers(Together, f) : h = f \/ h \in Group(settled, f)
          BY <2>2, SharedFacts DEF Sharers, Together
        <5>2. \A h \in Sharers(Together, f) : Source(h, c1) = Source(f, c1)
          BY <5>1, <4>3, GroupFacts
        <5> QED BY <5>2
      <4>5. \A h \in Sharers(Together, f) : \A y : First(h, y) => y = Source(h, c1)
        BY StoreIs DEF First
      <4>6. \A y \in Residents(Later, c1, f) : y = x \/ \E h \in Sharers(Later, f) : AliasOf(y, h)
        BY <3>1, <4>1, <4>4, <4>5
      <4> HIDE DEF c1
      <4> QED BY <1>1, <4>1, <4>3, <4>6, FirstTurns DEF c1
    <3>3. CASE ~\E x \in Residents(Later, c1, f), g \in Sharers(Together, f) : First(g, x)
      <4>1. \A x \in Residents(Later, c1, f) : \E g \in Sharers(Later, f) : AliasOf(x, g)
        BY <3>1, <3>3
      <4>2. CASE Sharers(Together, f) = {f}
        BY <4>1, <4>2, <2>2 DEF Simple
      <4>3. CASE Sharers(Together, f) # {f}
        <5>1. Merges(settled, f)
          BY <4>3, <1>1, SharersMerged
        <5> QED BY <4>1, <5>1, <1>1, MergedTurns
      <4> QED BY <4>2, <4>3
    <3> QED BY <3>2, <3>3
  <2> QED BY <2>3, <2>4
<1>2. Later \in [DOMAIN life -> Physical \cup {None}]
  BY LaterFacts
<1>3. \A x \in kept \cap DOMAIN life, y \in DOMAIN life : Later[x] = Later[y] /\ Later[x] # None => x = y
  BY LaterKeeps
<1>4. \A x, y \in DOMAIN life :
       Transient(x) /\ Transient(y) /\ x # y /\ Later[x] = Later[y] /\ Later[x] # None =>
         Separate(x, y) \/ \E f \in Cached : Later[f] = Later[x]
  BY LaterSeparates
<1> QED BY <1>1, <1>2, <1>3, <1>4 DEF LayoutOK

\* Both layouts hold what the first one holds.
LEMMA DerivedHolds ==
  ASSUME Compiled, FirstOK, phys = settled \/ (phys = Later /\ MayPeel)
  PROVE  Derived
<1>1. CASE phys = settled
  BY <1>1 DEF Derived
<1>2. CASE phys = Later /\ MayPeel
  <2>1. \A f \in Cached : Merges(settled, f) => Representative(f) \in Cached /\ settled[Representative(f)] # None
    BY GroupFacts
  <2>2. \A x \in DOMAIN life :
          \/ Together[x] = settled[x]
          \/ Together[x] # None /\ \E f \in Cached : Together[x] = settled[f]
    BY <2>1, MergedFacts DEF Together
  <2>3. ASSUME NEW x \in DOMAIN life
        PROVE  /\ settled[x] # None => Later[x] # None
               /\ Later[x] = settled[x] \/ \E f \in Cached : Later[x] = settled[f]
    <3>1. Later[x] = Together[x] \/ \E h \in Cached : Later[x] = Together[h] /\ Together[h] # None
      BY <1>2, LaterFacts
    <3>2. \A h \in Cached : h \in DOMAIN life
      BY DEF Cached
    <3>3. \A h \in Cached : \E g \in Cached : Together[h] = settled[g]
      BY <2>2, <3>2
    <3> QED BY <2>2, <3>1, <3>3
  <2> QED BY <1>2, <2>3 DEF Derived
<1> QED BY <1>1, <1>2

\* The layout that was settled on is as right after a step as before it.
LEMMA SettledStays ==
  ASSUME UNCHANGED plan, NEW at, settled' = at
  PROVE  /\ LayoutOK(settled, 1)' <=> LayoutOK(at, 1)
         /\ CallMasks(settled)' = CallMasks(at)
         /\ MayPeel' <=> MayPeel
<1>1. UNCHANGED <<program, kept, band, code, control, life>> /\ Cached' = Cached
  BY PlanStays
<1>2. \A f : Sharers(settled, f)' = Sharers(at, f)
  BY PlanStays DEF Sharers
<1>3. \A from, f : Residents(settled, from, f)' = Residents(at, from, f)
  BY <1>1, PlanStays DEF Residents
<1>4. \A from, f : Simple(settled, from, f)' <=> Simple(at, from, f)
  BY <1>2, <1>3, PlanStays DEF Simple
<1>5. \A from, f, g, w, a : Stores(settled, from, f, g, w, a)' <=> Stores(at, from, f, g, w, a)
  BY <1>1, PlanStays DEF Stores
<1>6. \A from, f, w, a : Computed(settled, from, f, w, a)' <=> Computed(at, from, f, w, a)
  BY <1>1, <1>3 DEF Computed
<1>7. \A from, f, w, a : Turns(settled, from, f, w, a)' <=> Turns(at, from, f, w, a)
  BY <1>2, <1>3, <1>5, <1>6, PlanStays DEF Turns
<1>8. LayoutOK(settled, 1)' <=> LayoutOK(at, 1)
  BY <1>1, <1>4, <1>7, PlanStays DEF LayoutOK
<1>9. \A x : Across(x)' = Across(x)
  <2>1. Calls' = Calls
    BY <1>1 DEF Calls
  <2> QED BY <1>1, <2>1, PlanStays DEF Across, CallBegin
<1>10. CallMasks(settled)' = CallMasks(at)
  BY <1>1, <1>9 DEF CallMasks
<1>11. MayPeel' <=> MayPeel
  BY <1>1 DEF MayPeel, Has
<1> QED BY <1>8, <1>10, <1>11

\* The first layout stays right,
LEMMA FirstStays ==
  ASSUME UNCHANGED plan, settled' = settled
  PROVE  FirstOK' <=> FirstOK
<1>1. LayoutOK(settled, 1)' <=> LayoutOK(settled, 1)
  BY SettledStays
<1>2. Cached' = Cached
  BY PlanStays
<1> QED BY <1>1, <1>2 DEF FirstOK

\* ... and that of the later frames stays what it is.
LEMMA LaterStays ==
  ASSUME UNCHANGED plan, settled' = settled
  PROVE  Later' = Later
<1>1. /\ UNCHANGED <<program, kept, band, code, control, life>> /\ Cached' = Cached
      /\ \A x : Transient(x)' <=> Transient(x)
      /\ \A f : StoresTo(f)' = StoresTo(f) /\ LoadsOf(f)' = LoadsOf(f)
  BY PlanStays
<1>2. \A f, from : StorePlace(f, from)' = StorePlace(f, from)
  BY <1>1 DEF StorePlace
<1>3. \A f, from : Source(f, from)' = Source(f, from)
  BY <1>1, <1>2 DEF Source
<1>4. \A f, from : Eligible(settled, f, from)' <=> Eligible(settled, f, from)
  BY <1>1 DEF Eligible
<1>5. \A f, m, from : Available(settled, f, m, from)' <=> Available(settled, f, m, from)
  BY <1>1, <1>2 DEF Available
<1>6. \A f : Group(settled, f)' = Group(settled, f)
  BY <1>1, <1>3, <1>4 DEF Group
<1>7. ASSUME NEW f PROVE Merges(settled, f)' <=> Merges(settled, f)
  <2> DEFINE places == {StorePlace(h, control + 1) : h \in Group(settled, f)}
  <2>1. places' = places
    BY <1>1, <1>2, <1>6
  <2> HIDE DEF places
  <2>2. Min(places)' = Min(places)
    BY <2>1 DEF Min
  <2> USE DEF places
  <2> QED BY <2>2, <1>1, <1>4, <1>5, <1>6 DEF Merges
<1>8. Together' = Together
  <2> DEFINE groups(x) == {f \in Cached : settled[x] # None /\ Merges(settled, f) /\ settled[f] = settled[x]}
             one(x) == CHOOSE f \in groups(x) : TRUE
             other(x) == CHOOSE g \in Group(settled, one(x)) : TRUE
  <2>1. \A x : groups(x)' = groups(x)
    BY <1>1, <1>7
  <2> HIDE DEF groups
  <2>2. \A x : one(x)' = one(x)
    BY <2>1
  <2> HIDE DEF one
  <2>3. \A x : other(x)' = other(x)
    BY <2>2, <1>6
  <2> HIDE DEF other
  <2>4. Together = [x \in DOMAIN settled |-> IF groups(x) = {} THEN settled[x] ELSE settled[other(x)]]
    BY DEF Together, Merged, groups, one, other
  <2>5. Together' = [x \in DOMAIN settled |-> IF groups(x) = {} THEN settled[x] ELSE settled[other(x)]]'
    BY DEF Together, Merged, groups, one, other
  <2> QED BY <2>1, <2>3, <2>4, <2>5
<1>9. \A f, from : Eligible(Together, f, from)' <=> Eligible(Together, f, from)
  BY <1>1, <1>8 DEF Eligible
<1>10. \A f, m, from : Available(Together, f, m, from)' <=> Available(Together, f, m, from)
  BY <1>1, <1>2, <1>8 DEF Available
<1>11. \A f, from : Coalesces(Together, f, from)' <=> Coalesces(Together, f, from)
  BY <1>1, <1>3, <1>8, <1>9, <1>10 DEF Coalesces
<1>12. Coalesced(Together, control + 1)' = Coalesced(Together, control + 1)
  <2> DEFINE fields(x) == {f \in Cached : Coalesces(Together, f, control + 1) /\ Source(f, control + 1) = x}
             one(x) == CHOOSE f \in fields(x) : TRUE
  <2>1. \A x : fields(x)' = fields(x)
    BY <1>1, <1>3, <1>11
  <2> HIDE DEF fields
  <2>2. \A x : one(x)' = one(x)
    BY <2>1
  <2> HIDE DEF one
  <2>3. Coalesced(Together, control + 1)
          = [x \in DOMAIN Together |-> IF fields(x) = {} THEN Together[x] ELSE Together[one(x)]]
    BY DEF Coalesced, fields, one
  <2>4. Coalesced(Together, control + 1)'
          = [x \in DOMAIN Together |-> IF fields(x) = {} THEN Together[x] ELSE Together[one(x)]]'
    BY DEF Coalesced, fields, one
  <2> QED BY <2>1, <2>2, <2>3, <2>4, <1>8
<1> QED BY <1>12 DEF Later, LaterLayout, Together

(***************************************************************************)
(* Instructions.                                                           *)
(***************************************************************************)

\* Where a run stands.
At(from) == /\ from \in {1, control + 1} /\ Runs(from)
            /\ (from = 1 /\ phys = settled) \/ (from = control + 1 /\ phys = Later /\ peeled)

\* Where a run stands, and what holds there.
LEMMA RunStands ==
  ASSUME RegInv, RunInv, stage = "run"
  PROVE  /\ \E from : At(from) /\ Going(from)
         /\ Places /\ FirstOK /\ Derived /\ saved = CallMasks(settled) /\ (peeled => MayPeel)
         /\ StoresDone(1) /\ StoresDone(control + 1)
<1>1. /\ Places /\ FirstOK /\ saved = CallMasks(settled) /\ (peeled => MayPeel)
      /\ StoresDone(1) /\ StoresDone(control + 1) /\ Compiled
  BY DEF RunInv, RegInv
<1>2. PICK from \in {1, control + 1} :
        Runs(from) /\ ((from = 1 /\ phys = settled) \/ (from = control + 1 /\ phys = Later /\ peeled))
  BY DEF RunInv
<1>3. At(from) /\ Going(from)
  BY <1>1, <1>2 DEF At, Going
<1>4. Derived
  BY <1>1, <1>2, DerivedHolds
<1> QED BY <1>1, <1>3, <1>4

\* A step within the code leaves a run where it stands.
LEMMA RunGoesOn ==
  ASSUME RunInv, stage = "run", NEW from, At(from), Going(from),
         UNCHANGED plan, UNCHANGED layout, stage' = stage, phys' = phys,
         pc' \in from..(Len(code) + 1), ValuesHeld', KeptHeld', FieldsHeld(from)', Places',
         \A start \in {1, control + 1} : StoresDone(start)'
  PROVE  RunInv'
<1>1. UNCHANGED <<program, kept, band, code, control, life>> /\ UNCHANGED <<settled, saved, peeled>>
  BY PlanStays DEF layout
<1>2. FirstOK' /\ saved' = CallMasks(settled)' /\ (peeled' => MayPeel') /\ Later' = Later
  BY <1>1, FirstStays, SettledStays, LaterStays DEF RunInv
<1>3. Runs(from)'
  <2>1. LayoutOK(phys, from)' <=> LayoutOK(phys, from)
    BY LayoutStays
  <2>2. LayoutOK(phys, from)
    BY DEF At, Runs
  <2> QED BY <1>1, <2>1, <2>2 DEF Runs
<1>4. /\ from \in {1, control' + 1}
      /\ (from = 1 /\ phys' = settled') \/ (from = control' + 1 /\ phys' = Later' /\ peeled')
  BY <1>1, <1>2 DEF At
<1>5. \A start \in {1, control' + 1} : StoresDone(start)'
  BY <1>1
<1> QED BY <1>1, <1>2, <1>3, <1>4, <1>5 DEF RunInv

\* Every instruction keeps the invariant of a run.
LEMMA InstructionKeeps ==
  ASSUME RegInv, RunInv,
         \/ Compute \/ Invoke \/ LoadCell \/ StoreCell \/ Emission \/ Take \/ SkipGuard
         \/ LoopEntry \/ SkipLoop \/ LoopRepeat \/ LoopExit
  PROVE  RunInv'
<1>1. stage = "run" /\ stage' = stage
  BY DEF Compute, Invoke, LoadCell, StoreCell, Emission, Take, SkipGuard, LoopEntry, SkipLoop,
     LoopRepeat, LoopExit, Running, Step, Goto
<1>2. PICK from : At(from) /\ Going(from)
  BY <1>1, RunStands
<1>3. /\ Places /\ FirstOK /\ Derived /\ saved = CallMasks(settled)
      /\ StoresDone(1) /\ StoresDone(control + 1) /\ Compiled
  BY <1>1, RunStands DEF RegInv
<1>4. /\ pc \in from..(Len(code) + 1) /\ DOMAIN code = 1..Len(code) /\ Len(code) \in Nat
      /\ control \in Nat /\ from \in {1, control + 1}
  BY <1>2, <1>3, CodeFacts DEF At, Runs
<1>5. CASE Compute \/ Invoke \/ LoadCell
  <2>1. PICK regs, v : Writes(from, regs, v)
    BY <1>2, <1>3, <1>5, ResultsWrite
  <2>2. /\ UNCHANGED plan /\ UNCHANGED layout /\ phys' = phys /\ pc' = pc + 1 /\ pc \in DOMAIN code
        /\ Places'
    BY <2>1, WriteFacts DEF Writes
  <2>3. ValuesHeld' /\ KeptHeld' /\ FieldsHeld(from)'
    BY <2>1, WriteKeepsValues, WriteKeepsKept, WriteKeepsFields
  <2>4. \A start \in {1, control + 1} : StoresDone(start)'
    BY <2>1, <1>3, WriteKeepsStores
  <2>5. pc' \in from..(Len(code) + 1)
    BY <2>2, <1>4
  <2> QED BY <1>1, <1>2, <2>2, <2>3, <2>4, <2>5, RunGoesOn
<1>6. CASE StoreCell
  <2>1. Storing(from)
    BY <1>2, <1>3, <1>6 DEF Storing
  <2>2. /\ UNCHANGED plan /\ UNCHANGED layout /\ phys' = phys /\ pc' = pc + 1 /\ pc \in DOMAIN code
        /\ Places'
    BY <2>1, StoreFacts
  <2>3. ValuesHeld' /\ KeptHeld' /\ FieldsHeld(from)'
    BY <2>1, StoreKeepsValues, StoreKeepsKept, StoreKeepsFields
  <2>4. \A start \in {1, control + 1} : StoresDone(start)'
    <3>1. 1 \in Int /\ control + 1 \in Int
      BY <1>4
    <3> QED BY <2>1, <3>1, <1>3, StoreKeepsStores
  <2>5. pc' \in from..(Len(code) + 1)
    BY <2>2, <1>4
  <2> QED BY <1>1, <1>2, <2>2, <2>3, <2>4, <2>5, RunGoesOn
<1>7. CASE Emission \/ Take \/ SkipGuard \/ LoopEntry \/ SkipLoop \/ LoopRepeat \/ LoopExit
  <2>1. Moving(from) /\ \A start \in {1, control + 1} : pc < start => pc' <= start
    BY <1>2, <1>3, <1>7, MovesOn
  <2>2. /\ UNCHANGED plan /\ UNCHANGED layout /\ phys' = phys /\ pc' \in from..(Len(code) + 1)
    BY <2>1 DEF Moving
  <2>3. ValuesHeld' /\ KeptHeld' /\ FieldsHeld(from)' /\ Places'
    BY <2>1, MoveKeeps
  <2>4. \A start \in {1, control + 1} : StoresDone(start)'
    BY <2>1, <1>3, MoveKeepsStores
  <2> QED BY <1>1, <1>2, <2>2, <2>3, <2>4, RunGoesOn
<1> QED BY <1>5, <1>6, <1>7

(***************************************************************************)
(* Entering and leaving.                                                   *)
(***************************************************************************)

\* The boundary loads every retained value and field into its register.
LEMMA EnterLoads ==
  ASSUME Compiled, FirstOK, NEW x \in DOMAIN life, ~Transient(x), settled[x] # None, life[x].load
  PROVE  Entering(settled)[settled[x]] = memory[x]
<1> DEFINE items == {z \in DOMAIN settled : settled[z] = settled[x] /\ ~Transient(z) /\ life[z].load}
<1>1. DOMAIN settled = DOMAIN life /\ settled[x] \in Physical
  BY DEF FirstOK, LayoutOK
<1>2. x \in items
  BY <1>1
<1>3. \A z \in items : z = x
  BY <1>1 DEF FirstOK, LayoutOK, Transient
<1>4. (CHOOSE z \in items : TRUE) = x
  BY <1>2, <1>3
<1>5. Entering(settled)[settled[x]]
        = IF items = {} THEN Junk ELSE memory[CHOOSE z \in items : TRUE]
  BY <1>1 DEF Entering
<1> HIDE DEF items
<1> QED BY <1>2, <1>4, <1>5

\* A call enters with everything in place.
LEMMA EnterKeeps ==
  ASSUME RegInv, RunInv, Enter
  PROVE  RunInv'
<1>1. /\ stage = "call" /\ stage' = "run" /\ pc' = 1 /\ phys' = settled
      /\ registers' = Entering(settled) /\ UNCHANGED <<memory, meant>>
      /\ UNCHANGED plan /\ UNCHANGED layout
  BY DEF Enter
<1>2. /\ UNCHANGED <<program, kept, band, code, control, life>> /\ UNCHANGED <<settled, saved, peeled>>
      /\ Cached' = Cached /\ \A x : Transient(x)' <=> Transient(x)
  BY <1>1, PlanStays DEF layout
<1>3. /\ Compiled /\ Places /\ FirstOK /\ saved = CallMasks(settled) /\ (peeled => MayPeel)
      /\ \A x \in kept \cup Fields(program) : memory[x] = meant[x]
  BY <1>1 DEF RunInv, RegInv
<1>4. /\ DOMAIN code = 1..Len(code) /\ Len(code) \in Nat /\ control \in Nat
  BY <1>3, CodeFacts
<1>5. FirstOK' /\ saved' = CallMasks(settled)' /\ (peeled' => MayPeel')
  BY <1>1, <1>2, <1>3, FirstStays, SettledStays
<1>6. Places'
  BY <1>1, <1>2, <1>3 DEF Places, Entering
<1>7. ValuesHeld'
  <2>1. \A x \in DOMAIN life : Transient(x) => ~(life[x].begin < 1)
    BY <1>3, <1>4, TransientFacts
  <2> QED BY <2>1, <1>1, <1>2 DEF ValuesHeld, Live
<1>8. KeptHeld'
  <2> SUFFICES ASSUME NEW x \in kept, x \in DOMAIN life, settled[x] # None, Current(x)'
               PROVE  registers'[settled[x]] = meant[x]
    BY <1>1, <1>2, <1>3 DEF KeptHeld
  <2>1. ~Transient(x)
    BY DEF Transient
  <2>2. life[x].load
    <3>1. Min(Touches(code, x)) \in DOMAIN code
      BY <1>3, KeptFacts
    <3> QED BY <3>1, <1>1, <1>2, <1>4 DEF Current
  <2> QED BY <2>1, <2>2, <1>1, <1>3, EnterLoads
<1>9. FieldsHeld(1)'
  <2>1. \A f \in Cached : /\ memory[f] = meant[f]
                          /\ settled[f] # None => registers'[settled[f]] = meant[f]
    <3>1. \A f \in Cached : f \in DOMAIN life /\ ~Transient(f) /\ life[f].load /\ f \in Fields(program)
      BY <1>3, ItemFacts DEF Cached, Transient
    <3> QED BY <3>1, <1>1, <1>3, EnterLoads
  <2>2. \A w \in DOMAIN code : 1 <= w
    BY <1>4
  <2> QED BY <2>1, <2>2, <1>1, <1>2, <1>3 DEF FieldsHeld
<1>10. \A start \in {1, control + 1} : StoresDone(start)'
  BY <1>1, <1>2, <1>4 DEF StoresDone
<1>11. Runs(1)'
  <2>1. LayoutOK(phys, 1)' <=> LayoutOK(settled, 1)
    BY <1>1, LayoutStays
  <2> QED BY <2>1, <1>1, <1>2, <1>3, <1>4, <1>7, <1>8, <1>9 DEF Runs, FirstOK
<1>12. 1 \in {1, control' + 1} /\ phys' = settled' /\ \A start \in {1, control' + 1} : StoresDone(start)'
  BY <1>1, <1>2, <1>10
<1> QED BY <1>1, <1>5, <1>6, <1>11, <1>12 DEF RunInv

\* Between frames the register of a field holds what the field holds.
LEMMA BetweenFrames ==
  ASSUME Compiled, FirstOK, StoresDone(1), StoresDone(control + 1), NEW from, At(from),
         pc = control + 1 \/ pc = Len(code) + 1, NEW f \in Cached, phys[f] # None
  PROVE  registers[phys[f]] = meant[f]
<1>1. /\ DOMAIN code = 1..Len(code) /\ Len(code) \in Nat /\ control \in 0..Len(code)
      /\ from \in {1, control + 1} /\ LayoutOK(phys, from) /\ FieldsHeld(from)
  BY CodeFacts DEF At, Runs
<1>2. CASE Simple(phys, from, f)
  BY <1>1, <1>2 DEF FieldsHeld
<1>3. ASSUME NEW w \in DOMAIN code, NEW a \in DOMAIN life, Turns(phys, from, f, w, a)
      PROVE  registers[phys[f]] = meant[f]
  <2>1. registers[phys[f]] = IF pc <= w THEN meant[f] ELSE meant[a]
    BY <1>1, <1>3 DEF FieldsHeld
  <2>2. Straight(from) /\ w >= from /\ Stores(phys, from, f, f, w, a)
    BY <1>3 DEF Turns, Sharers
  <2>3. PICK s \in DOMAIN code :
          OnlyStore(f, from, s) /\ code[s].args[1] = a /\ w <= s /\ (w <= control <=> s <= control)
    BY <2>2 DEF Stores
  <2>4. pc <= w \/ s < pc
    BY <2>3, <1>1
  <2>5. s < pc => meant[f] = meant[a]
    BY <2>2, <2>3, <1>1 DEF StoresDone
  <2> QED BY <2>1, <2>4, <2>5
<1> QED BY <1>1, <1>2, <1>3 DEF LayoutOK

\* What the boundary stores is what the interpreter holds.
LEMMA LeaveKeeps ==
  ASSUME RegInv, RunInv, Leave
  PROVE  RunInv'
<1>1. /\ stage = "run" /\ pc = control + 1 /\ stage' \in {"done", "call"}
      /\ UNCHANGED plan /\ UNCHANGED layout
      /\ memory' = [x \in DOMAIN memory |->
           IF x \in kept \cup Fields(program)
           THEN IF StoredBack(x) THEN registers[phys[x]] ELSE memory[x] ELSE Junk]
      /\ meant' = [x \in DOMAIN meant |-> IF x \in kept \cup Fields(program) THEN meant[x] ELSE Junk]
      /\ DOMAIN registers' = DOMAIN registers
  BY DEF Leave
<1>2. UNCHANGED <<program, kept, band, code, control, life>> /\ UNCHANGED <<settled, saved, peeled>>
  BY <1>1, PlanStays DEF layout
<1>3. PICK from : At(from)
  BY <1>1, RunStands
<1>4. /\ Compiled /\ Places /\ FirstOK /\ saved = CallMasks(settled) /\ (peeled => MayPeel)
      /\ StoresDone(1) /\ StoresDone(control + 1)
  BY <1>1, RunStands DEF RegInv
<1>5. /\ KeptHeld /\ FieldsHeld(from) /\ phys \in [DOMAIN life -> Physical \cup {None}] /\ control \in Nat
      /\ kept \subseteq Values(program) /\ Values(program) \cap Fields(program) = {}
  BY <1>3, <1>4, CodeFacts DEF At, Runs, LayoutOK
<1>6. FirstOK' /\ saved' = CallMasks(settled)' /\ (peeled' => MayPeel')
  BY <1>1, <1>2, <1>4, FirstStays, SettledStays
<1>7. Places'
  BY <1>1, <1>2, <1>4 DEF Places
<1>8. ASSUME NEW x \in kept
      PROVE  memory[x] = meant[x] \/ (StoredBack(x) /\ registers[phys[x]] = meant[x])
  <2>1. CASE x \notin DOMAIN life \/ phys[x] = None \/ ~life[x].written
    BY <2>1, <1>5 DEF KeptHeld
  <2>2. CASE x \in DOMAIN life /\ phys[x] # None /\ life[x].written
    <3>1. StoredBack(x)
      BY <2>2, <1>5 DEF StoredBack, Boundary, Transient
    <3>2. Current(x)
      <4>1. ~life[x].load => Min(Touches(code, x)) \in DOMAIN code /\ Min(Touches(code, x)) <= control
        BY <2>2, <1>4, KeptFacts
      <4> QED BY <4>1, <1>1, <1>4, <1>5, CodeFacts DEF Current
    <3> QED BY <2>2, <3>1, <3>2, <1>5 DEF KeptHeld
  <2> QED BY <2>1, <2>2
<1>9. ASSUME NEW x \in Fields(program)
      PROVE  memory[x] = meant[x] \/ (StoredBack(x) /\ registers[phys[x]] = meant[x])
  <2>1. CASE x \notin Cached \/ phys[x] = None \/ ~life[x].written
    BY <2>1, <1>5 DEF FieldsHeld
  <2>2. CASE x \in Cached /\ phys[x] # None /\ life[x].written
    <3>1. StoredBack(x)
      BY <2>2, <1>5 DEF StoredBack, Boundary, Transient, Cached
    <3> QED BY <2>2, <3>1, <1>1, <1>3, <1>4, BetweenFrames
  <2> QED BY <2>1, <2>2
<1>10. ASSUME NEW x \in kept \cup Fields(program), StoredBack(x)
       PROVE  registers[phys[x]] = meant[x]
  <2>1. x \in DOMAIN life /\ phys[x] # None /\ life[x].written /\ (x \in Cached \/ x \in kept)
    BY <1>5, <1>10 DEF StoredBack, Boundary, Transient
  <2>2. CASE x \in Cached
    BY <2>1, <2>2, <1>1, <1>3, <1>4, BetweenFrames
  <2>3. CASE x \in kept
    <3>1. Current(x)
      <4>1. ~life[x].load => Min(Touches(code, x)) \in DOMAIN code /\ Min(Touches(code, x)) <= control
        BY <2>1, <2>3, <1>4, KeptFacts
      <4> QED BY <4>1, <1>1, <1>4, <1>5, CodeFacts DEF Current
    <3> QED BY <2>1, <2>3, <3>1, <1>5 DEF KeptHeld
  <2> QED BY <2>1, <2>2, <2>3
<1>11. \A x \in kept \cup Fields(program) : x \in DOMAIN memory /\ x \in DOMAIN meant
  BY <1>4, <1>5 DEF Places, Items
<1>12. ASSUME NEW x \in kept \cup Fields(program) PROVE memory'[x] = meant'[x]
  <2>1. meant'[x] = meant[x] /\ memory'[x] = IF StoredBack(x) THEN registers[phys[x]] ELSE memory[x]
    BY <1>1, <1>11
  <2> QED BY <2>1, <1>8, <1>9, <1>10
<1> QED BY <1>1, <1>2, <1>6, <1>7, <1>12 DEF RunInv

\* What the next frame finds in the registers of its fields.
LEMMA NextFields ==
  ASSUME RegInv, RunInv, NextFrame, NEW f \in Cached, phys'[f] # None
  PROVE  registers[phys'[f]] = meant[f]
<1>1. stage = "run" /\ pc = Len(code) + 1 /\ phys' = (IF peeled THEN Later ELSE settled)
  BY DEF NextFrame, Later
<1>2. PICK from : At(from)
  BY <1>1, RunStands
<1>3. /\ Compiled /\ FirstOK /\ (peeled => MayPeel) /\ StoresDone(1) /\ StoresDone(control + 1)
  BY <1>1, RunStands DEF RegInv
<1>4. \A g \in Cached : phys[g] # None => registers[phys[g]] = meant[g]
  BY <1>1, <1>2, <1>3, BetweenFrames
<1>5. CASE phys' = phys
  BY <1>4, <1>5
<1>6. CASE phys = settled /\ phys' = Later /\ peeled
  <2>1. Later[f] = Together[f]
    BY <1>3, <1>6, LaterFacts
  <2>2. CASE ~Merges(settled, f)
    <3>1. Together[f] = settled[f]
      BY <1>3, <2>2, MergedFacts DEF Together
    <3> QED BY <3>1, <2>1, <1>4, <1>6
  <2>3. CASE Merges(settled, f)
    <3> DEFINE g == Representative(f)
               c1 == control + 1
    <3>1. Together[f] = settled[g]
      BY <1>3, <2>3, MergedFacts DEF Together
    <3>2. /\ g \in Cached /\ Eligible(settled, g, c1) /\ settled[g] # None /\ Source(g, c1) = Source(f, c1)
          /\ Eligible(settled, f, c1)
      BY <1>3, <2>3, GroupFacts
    <3>3. Straight(c1) /\ DOMAIN code = 1..Len(code) /\ Len(code) \in Nat
      BY <1>3, <1>6, LaterFacts, CodeFacts
    <3> HIDE DEF g, c1
    <3>4. \A h \in {f, g} : meant[h] = meant[Source(f, c1)]
      <4>1. \A h \in {f, g} : \E s \in DOMAIN code : OnlyStore(h, c1, s) /\ code[s].args[1] = Source(f, c1)
        BY <1>3, <3>2, EligibleFacts
      <4>2. \A h \in {f, g}, s \in DOMAIN code : OnlyStore(h, c1, s) => meant[h] = meant[code[s].args[1]]
        BY <1>1, <1>3, <3>2, <3>3 DEF StoresDone, c1
      <4> QED BY <4>1, <4>2
    <3> QED BY <2>1, <3>1, <3>2, <3>4, <1>4, <1>6
  <2> QED BY <2>2, <2>3
<1>7. phys' = phys \/ (phys = settled /\ phys' = Later /\ peeled)
  BY <1>1, <1>2 DEF At
<1> QED BY <1>5, <1>6, <1>7

\* The next frame begins with everything in place, in the same layout or in that
\* of the later frames.
LEMMA NextFrameKeeps ==
  ASSUME RegInv, RunInv, NextFrame
  PROVE  RunInv'
<1>0. PICK next : next = IF peeled THEN control + 1 ELSE 1
  OBVIOUS
<1>1. /\ stage = "run" /\ stage' = "run" /\ pc = Len(code) + 1 /\ pc' = control + 1
      /\ phys' = IF peeled THEN Later ELSE settled
      /\ UNCHANGED plan /\ UNCHANGED layout /\ UNCHANGED <<registers, memory, meant>>
  BY DEF NextFrame, Later, contents
<1>2. /\ UNCHANGED <<program, kept, band, code, control, life>> /\ UNCHANGED <<settled, saved, peeled>>
      /\ Cached' = Cached /\ \A x : Transient(x)' <=> Transient(x)
      /\ \A f, from, s : OnlyStore(f, from, s)' <=> OnlyStore(f, from, s)
      /\ \A from : Straight(from)' <=> Straight(from)
  BY <1>1, PlanStays DEF layout
<1>3. PICK from : At(from)
  BY <1>1, RunStands
<1>4. /\ Compiled /\ Places /\ FirstOK /\ saved = CallMasks(settled) /\ (peeled => MayPeel)
      /\ StoresDone(1) /\ StoresDone(control + 1)
  BY <1>1, RunStands DEF RegInv
<1>5. /\ DOMAIN code = 1..Len(code) /\ Len(code) \in Nat /\ control \in 0..Len(code)
      /\ ValuesHeld /\ KeptHeld /\ FieldsHeld(from)
  BY <1>3, <1>4, CodeFacts DEF At, Runs
<1>6. FirstOK' /\ saved' = CallMasks(settled)' /\ (peeled' => MayPeel') /\ Later' = Later
  BY <1>1, <1>2, <1>4, FirstStays, SettledStays, LaterStays
<1>7. Places'
  BY <1>1, <1>2, <1>4 DEF Places
<1>8. LayoutOK(phys', next)
  BY <1>0, <1>1, <1>4, LaterIsRight DEF FirstOK
<1>9. phys = settled \/ (phys = Later /\ peeled /\ phys' = phys)
  BY <1>1, <1>3 DEF At
<1>10. ValuesHeld'
  <2>1. \A x \in DOMAIN life : Transient(x) => ~(life[x].begin < control + 1 /\ control + 1 <= life[x].end)
    <3> SUFFICES ASSUME NEW x \in DOMAIN life, Transient(x), life[x].begin < control + 1,
                        control + 1 <= life[x].end
                 PROVE  FALSE
      OBVIOUS
    <3>1. life[x].begin \in DOMAIN code /\ life[x].end \in DOMAIN code
      BY <1>4, TransientFacts
    <3> QED BY <3>1, <1>4, <1>5, EndsInPart
  <2> QED BY <2>1, <1>1, <1>2 DEF ValuesHeld, Live
<1>11. \A x \in kept \cap DOMAIN life : phys'[x] = phys[x]
  <2>1. peeled => \A x \in kept \cap DOMAIN life : Later[x] = settled[x]
    BY <1>4, LaterFacts, MergedFacts DEF Together, Transient
  <2> QED BY <2>1, <1>1, <1>9
<1>12. KeptHeld'
  <2>1. \A x \in kept \cap DOMAIN life : Current(x)' => Current(x)
    <3>1. \A x \in kept \cap DOMAIN life : Min(Touches(code, x)) \in DOMAIN code
      BY <1>4, KeptFacts
    <3> QED BY <3>1, <1>1, <1>2, <1>5 DEF Current
  <2> QED BY <2>1, <1>1, <1>2, <1>5, <1>11 DEF KeptHeld
<1>13. FieldsHeld(next)'
  <2>1. \A f \in Cached : phys'[f] # None => registers[phys'[f]] = meant[f]
    BY NextFields
  <2>2. \A f \in Cached : phys'[f] = None => phys[f] = None
    <3>1. ASSUME peeled, NEW f \in Cached, settled[f] # None PROVE Later[f] # None
      <4>1. Later[f] = Together[f]
        BY <3>1, <1>4, LaterFacts
      <4>2. Together[f] = settled[f] \/ (Merges(settled, f) /\ Together[f] = settled[Representative(f)])
        BY <1>4, MergedFacts DEF Together
      <4>3. Merges(settled, f) => settled[Representative(f)] # None
        BY <1>4, GroupFacts
      <4> QED BY <3>1, <4>1, <4>2, <4>3
    <3> QED BY <3>1, <1>1, <1>9
  <2>3. ASSUME NEW f \in Cached, NEW w \in DOMAIN code, NEW a \in DOMAIN life,
               Turns(phys', next, f, w, a), ~(control + 1 <= w)
        PROVE  meant[f] = meant[a]
    <3>1. Straight(next) /\ w >= next /\ Stores(phys', next, f, f, w, a)
      BY <2>3 DEF Turns, Sharers
    <3>2. next = 1
      BY <3>1, <2>3, <1>0
    <3>3. PICK s \in DOMAIN code :
            OnlyStore(f, 1, s) /\ code[s].args[1] = a /\ (w <= control <=> s <= control)
      BY <3>1, <3>2 DEF Stores
    <3>4. s < pc
      BY <3>3, <2>3, <1>1, <1>5
    <3> QED BY <3>1, <3>2, <3>3, <3>4, <1>4 DEF StoresDone
  <2>4. \A f, w, a : Turns(phys, next, f, w, a)' <=> Turns(phys', next, f, w, a)
    BY <1>1, LayoutStays
  <2>5. /\ \A f \in Fields(program) : f \notin Cached => memory[f] = meant[f]
        /\ \A f \in Cached : phys[f] = None \/ ~life[f].written => memory[f] = meant[f]
    BY <1>5 DEF FieldsHeld
  <2> HIDE DEF FieldsHeld
  <2>6. \A f \in Cached, w \in DOMAIN code, a \in DOMAIN life :
          phys'[f] # None /\ Turns(phys, next, f, w, a)' =>
            registers[phys'[f]] = IF control + 1 <= w THEN meant[f] ELSE meant[a]
    BY <2>1, <2>3, <2>4
  <2> QED BY <2>1, <2>2, <2>5, <2>6, <1>1, <1>2 DEF FieldsHeld
<1>14. \A start \in {1, control + 1} : StoresDone(start)'
  <2> SUFFICES ASSUME NEW start \in {1, control + 1}, Straight(start), NEW f \in Cached,
                      NEW s \in DOMAIN code, OnlyStore(f, start, s), s < control + 1
               PROVE  meant[f] = meant[code[s].args[1]]
    BY <1>1, <1>2 DEF StoresDone
  <2>1. s < pc
    BY <1>1, <1>5
  <2> QED BY <2>1, <1>4 DEF StoresDone
<1>15. Runs(next)'
  <2>1. LayoutOK(phys, next)' <=> LayoutOK(phys', next)
    BY <1>1, LayoutStays
  <2>2. control + 1 \in next..(Len(code) + 1)
    BY <1>0, <1>5
  <2> QED BY <2>1, <2>2, <1>1, <1>2, <1>8, <1>10, <1>12, <1>13 DEF Runs
<1>16. /\ next \in {1, control' + 1} /\ \A start \in {1, control' + 1} : StoresDone(start)'
       /\ (next = 1 /\ phys' = settled') \/ (next = control' + 1 /\ phys' = Later' /\ peeled')
  BY <1>0, <1>1, <1>2, <1>6, <1>14
<1> QED BY <1>1, <1>6, <1>7, <1>15, <1>16 DEF RunInv

(***************************************************************************)
(* Allocating, and doing nothing.                                          *)
(***************************************************************************)

\* Allocation settles on a layout that is right.
LEMMA SettleKeeps ==
  ASSUME RegInv, RunInv, Settle
  PROVE  RunInv'
<1>1. /\ stage = "allocate" /\ stage' = "call" /\ settled' = FirstLayout
      /\ saved' = CallMasks(FirstLayout) /\ peeled' \in (IF MayPeel THEN BOOLEAN ELSE {FALSE})
      /\ UNCHANGED plan /\ UNCHANGED <<registers, memory, meant>>
  BY DEF Settle, contents
<1>2. UNCHANGED <<program, kept, band, code, control, life>> /\ Cached' = Cached
  BY <1>1, PlanStays
<1>3. LayoutOK(FirstLayout, 1)
      /\ \A f, g \in Cached : FirstLayout[f] = FirstLayout[g] /\ FirstLayout[f] # None => f = g
  BY <1>1, FirstLayoutIsRight
<1>4. PICK at : at = FirstLayout
  OBVIOUS
<1>5. /\ LayoutOK(settled, 1)' <=> LayoutOK(at, 1)
      /\ CallMasks(settled)' = CallMasks(at) /\ (MayPeel' <=> MayPeel)
  BY <1>1, <1>4, SettledStays
<1>6. FirstOK' /\ saved' = CallMasks(settled)' /\ (peeled' => MayPeel')
  BY <1>1, <1>2, <1>3, <1>4, <1>5 DEF FirstOK
<1> QED BY <1>1, <1>2, <1>6 DEF RunInv, Places

\* When nothing changes, nothing changes.
LEMMA RestKeeps ==
  ASSUME RegInv, RunInv, UNCHANGED regVars
  PROVE  RunInv'
<1>1. /\ UNCHANGED plan /\ UNCHANGED <<settled, saved, peeled, stage, phys, pc, rounds>>
      /\ UNCHANGED <<registers, memory, meant>>
  BY DEF regVars, layout, contents, position
<1>2. /\ UNCHANGED <<program, kept, band, code, control, life>>
      /\ Cached' = Cached /\ \A x : Transient(x)' <=> Transient(x)
      /\ \A f, from, s : OnlyStore(f, from, s)' <=> OnlyStore(f, from, s)
      /\ \A from : Straight(from)' <=> Straight(from)
  BY <1>1, PlanStays
<1>3. (FirstOK' <=> FirstOK) /\ CallMasks(settled)' = CallMasks(settled) /\ (MayPeel' <=> MayPeel)
      /\ Later' = Later
  BY <1>1, FirstStays, SettledStays, LaterStays
<1>4. Places' <=> Places
  BY <1>1, <1>2 DEF Places
<1>5. CASE stage # "run"
  BY <1>1, <1>2, <1>3, <1>4, <1>5 DEF RunInv
<1>6. CASE stage = "run"
  <2>1. PICK from : At(from) /\ Going(from)
    BY <1>6, RunStands
  <2>2. ValuesHeld /\ KeptHeld /\ FieldsHeld(from) /\ pc \in from..(Len(code) + 1)
    BY <2>1 DEF At, Runs
  <2>3. \A k : InScratch(k)' <=> InScratch(k)
    BY <1>1, <1>2 DEF InScratch
  <2>4. CallInput' = CallInput
    BY <1>1, <1>2, <2>3 DEF CallInput
  <2>5. ValuesHeld'
    BY <2>2, <2>4, <1>1, <1>2 DEF ValuesHeld, Live, Fetched, Content
  <2>6. KeptHeld'
    BY <2>2, <1>1, <1>2 DEF KeptHeld, Current
  <2>7. FieldsHeld(from)'
    <3>1. /\ \A f : Simple(phys, from, f)' <=> Simple(phys, from, f)
          /\ \A f, w, a : Turns(phys, from, f, w, a)' <=> Turns(phys, from, f, w, a)
      BY <1>1, LayoutStays
    <3> QED BY <3>1, <2>2, <1>1, <1>2 DEF FieldsHeld
  <2>8. \A start \in {1, control + 1} : StoresDone(start)'
    BY <1>6, <1>1, <1>2, RunStands DEF StoresDone
  <2>9. Places'
    BY <1>4 DEF RunInv
  <2> QED BY <2>1, <2>2, <2>5, <2>6, <2>7, <2>8, <2>9, <1>1, <1>2, <1>6, RunGoesOn DEF layout
<1> QED BY <1>5, <1>6

\* The initial states satisfy the invariant of a run.
LEMMA RunInitially == RegInit => RunInv
<1> SUFFICES ASSUME RegInit PROVE RunInv
  OBVIOUS
<1>1. Places /\ memory = meant /\ stage = "allocate"
  BY DEF RegInit, Places
<1> QED BY <1>1 DEF RunInv

\* Every step keeps the invariant of a run.
LEMMA RunStep == RegInv /\ RunInv /\ [RegNext]_regVars => RunInv'
<1> SUFFICES ASSUME RegInv, RunInv, [RegNext]_regVars PROVE RunInv'
  OBVIOUS
<1>1. CASE (\E x \in pending : AllocateItem(x)) \/ CompileSample
  <2>1. /\ stage' = "allocate" /\ UNCHANGED <<program, kept, registers, memory, meant>>
        /\ stage \in {"allocate", "done"}
    BY <1>1 DEF AllocateItem, Give, CompileSample, plan, contents
  <2> QED BY <2>1 DEF RunInv, Places
<1>2. CASE Settle
  BY <1>2, SettleKeeps
<1>3. CASE Enter
  BY <1>3, EnterKeeps
<1>4. CASE \/ Compute \/ Invoke \/ LoadCell \/ StoreCell \/ Emission \/ Take \/ SkipGuard
           \/ LoopEntry \/ SkipLoop \/ LoopRepeat \/ LoopExit
  BY <1>4, InstructionKeeps
<1>5. CASE NextFrame
  BY <1>5, NextFrameKeeps
<1>6. CASE Leave
  BY <1>6, LeaveKeeps
<1>7. CASE UNCHANGED regVars
  BY <1>7, RestKeeps
<1> QED BY <1>1, <1>2, <1>3, <1>4, <1>5, <1>6, <1>7 DEF RegNext

(***************************************************************************)
(* Theorems.                                                               *)
(***************************************************************************)

\* Whatever the plan and the number of registers, and whichever item is evicted
\* where several cost the same, the allocation loop never lets two items hold
\* one register while both are needed (Emit::Allocate).
THEOREM AllocationApart == RegSpec => []RegistersApart
<1>1. RegInv => RegistersApart
  BY DEF RegInv, RegistersApart
<1> QED BY <1>1, RegInitially, RegStep, PTL DEF RegSpec

\* Whatever the plan, the registers and the ties between items, the native code
\* of an entry finds at every instruction the operands that the interpreter of the
\* same plan has there, and in the register of a field what the field holds:
\* through reused registers, results left in d0, registers a call clobbers, guards
\* and loops, coalesced and merged fields, and the peeled first frame (Emit).
THEOREM OperandsCorrectAlways == RegSpec => []OperandsCorrect
<1>1. RegInv /\ RunInv => OperandsCorrect
  <2> SUFFICES ASSUME RegInv, RunInv, stage = "run", pc \in DOMAIN code
               PROVE  /\ \A n \in DOMAIN code[pc].args : Operand(n) = meant[code[pc].args[n]]
                      /\ code[pc].op = "load" /\ code[pc].field \in Cached =>
                           Content(code[pc].field) = meant[code[pc].field]
    BY DEF OperandsCorrect
  <2>1. Derived /\ \E from : Going(from)
    BY RunStands
  <2> QED BY <2>1, OperandHolds, CellHolds
<1> QED BY <1>1, RegInitially, RegStep, RunInitially, RunStep, PTL DEF RegSpec

\* Between calls memory holds every field and every retained value as the
\* interpreter of the same plan does: the boundary of an entry stores what was
\* written, from the registers of the layout that ran last (Emit::Boundary).
THEOREM StateKeptAlways == RegSpec => []StateKept
<1>1. RunInv => StateKept
  BY DEF RunInv, StateKept
<1> QED BY <1>1, RegInitially, RegStep, RunInitially, RunStep, PTL DEF RegSpec

\* Whichever guards hold, and whatever the items hold at first, forwarding loads and
\* moving stores up changes nothing that a band does: neither what it emits, nor the
\* calls of foreign functions and their order, nor what it leaves in fields and in
\* retained values (Emit).
THEOREM PreparedMeansSameAlways == RegSpec => []PreparedMeansSame
<1>1. RegInv => PreparedMeansSame
  <2> SUFFICES ASSUME RegInv, NEW c \in {program.control, program.sample}, NEW taken \in SUBSET Guards(c)
               PROVE  Effect(Prepared(c, kept), taken, Items(program), kept \cup Fields(program))
                        = Effect(c, taken, Items(program), kept \cup Fields(program))
    BY DEF PreparedMeansSame
  <2>1. program \in Programs /\ kept = Retained(program)
    BY DEF RegInv, Compiled
  <2> QED BY <2>1, PreparedKeepsMeaning
<1> QED BY <1>1, RegInitially, RegStep, PTL DEF RegSpec
=============================================================================
