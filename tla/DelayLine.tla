------------------------------ MODULE DelayLine ------------------------------
(***************************************************************************)
(* One delay line of a lowered program: its layout (Schedule.cpp), the     *)
(* writes, reads and end-of-frame work that Plan.cpp emits for it, and the *)
(* move of its history into the line of the program that replaces it       *)
(* (Migrate.cpp).                                                          *)
(*                                                                         *)
(* Short lines shift their samples at the end of a frame; long ones are    *)
(* rings indexed by the frame counter iota.  In a guarded program a frame  *)
(* may leave the line inactive.  A frame is: open, store (or hold), and    *)
(* the end-of-frame work, one copy of the shift at a time; reads with a    *)
(* delay of at least 1 may come before or after the store.                 *)
(***************************************************************************)
EXTENDS Integers

CONSTANTS
  MaxCopyDelay,  \* delays from here on use a ring
  Depths,        \* the maximal delays a program may ask of the line
  Samples, Zero, \* the values a frame may write; the cleared one
  IotaRange,     \* frame numbers before iota wraps around: 2^32 in the code
  Guarded,       \* the line is written under a condition
  Unknown        \* no particular sample

ASSUME LineAssumption ==
  /\ MaxCopyDelay \in Nat \ {0}
  /\ Depths \subseteq Nat \ {0}
  /\ Zero \in Samples /\ Unknown \notin Samples
  /\ IotaRange \in Nat \ {0}
  /\ Guarded \in BOOLEAN

VARIABLES
  maxDelay, \* DelayLine::MaxDelay
  line,     \* the state field of the line
  iota,     \* the frame counter field
  stage,    \* "between" frames, "opened", "stored", "shifting"
  active,   \* the condition of this frame
  shiftAt,  \* the slot the shift fills next
  input,    \* the sample of this frame
  past      \* history: the samples written 1, 2, ... frames ago

lineVars == <<maxDelay, line, iota, stage, active, shiftAt, input, past>>

\* Ring sizes below 2^31, the largest the program can allocate.
Powers == {2^e : e \in 1..30}

Pow2Limit(n) == CHOOSE p \in Powers : p >= n /\ \A q \in Powers : q >= n => p <= q

Ring(m)   == m >= MaxCopyDelay
Extent(m) == IF Ring(m) THEN Pow2Limit(m + 1) ELSE m + 1
Slots(m)  == 0..(Extent(m) - 1)

\* The slot k frames before the write head (ReadIndex, and Slot of Migrate.cpp).
SlotAt(m, head, k) == IF Ring(m) THEN (head - k) % Extent(m) ELSE k

\* The counter wraps around at a multiple of every ring, being unsigned, and a
\* ring is one the program can allocate.
ASSUME RingAssumption ==
  \A m \in Depths : Ring(m) => m < 2^30 /\ IotaRange % Extent(m) = 0

WriteIndex   == SlotAt(maxDelay, iota, 0)
ReadIndex(k) == SlotAt(maxDelay, iota, k)

OpenFrame(a) ==
  /\ stage = "between" /\ (~Guarded => a)
  /\ active' = a
  /\ stage' = "opened"
  /\ UNCHANGED <<maxDelay, line, iota, shiftAt, input, past>>

\* Close in an active frame: the sample is stored at the write head.
Store(x) ==
  /\ stage = "opened" /\ active
  /\ line' = [line EXCEPT ![WriteIndex] = x]
  /\ input' = x
  /\ stage' = "stored"
  /\ UNCHANGED <<maxDelay, iota, active, shiftAt, past>>

\* Close in an inactive frame: only the load behind the guard runs.
Hold ==
  /\ stage = "opened" /\ ~active
  /\ stage' = "stored"
  /\ UNCHANGED <<maxDelay, line, iota, active, shiftAt, input, past>>

Pushed(x) == [k \in DOMAIN past |-> IF k = 1 THEN x ELSE past[k - 1]]

\* Mutant: the counter stands still in inactive frames.
AdvanceIotaIfActive ==
  /\ stage = "stored" /\ Ring(maxDelay)
  /\ iota' = IF active THEN (iota + 1) % IotaRange ELSE iota
  /\ past' = Pushed(IF active THEN input ELSE Unknown)
  /\ stage' = "between"
  /\ UNCHANGED <<maxDelay, line, active, shiftAt, input>>

\* The epilogue of a ring: the counter advances in every frame, guard or not.
AdvanceIota ==
  /\ stage = "stored" /\ Ring(maxDelay)
  /\ iota' = (iota + 1) % IotaRange
  /\ past' = Pushed(IF active THEN input ELSE Unknown)
  /\ stage' = "between"
  /\ UNCHANGED <<maxDelay, line, active, shiftAt, input>>

\* The epilogue of a shifted line, which the line's own guard may skip.
BeginShift ==
  /\ stage = "stored" /\ ~Ring(maxDelay) /\ active
  /\ shiftAt' = maxDelay
  /\ past' = Pushed(input)
  /\ stage' = "shifting"
  /\ UNCHANGED <<maxDelay, line, iota, active, input>>

ShiftSlot ==
  /\ stage = "shifting" /\ shiftAt >= 1
  /\ line' = [line EXCEPT ![shiftAt] = line[shiftAt - 1]]
  /\ shiftAt' = shiftAt - 1
  /\ UNCHANGED <<maxDelay, iota, stage, active, input, past>>

EndShift ==
  /\ stage = "shifting" /\ shiftAt = 0
  /\ stage' = "between"
  /\ UNCHANGED <<maxDelay, line, iota, active, shiftAt, input, past>>

SkipShift ==
  /\ stage = "stored" /\ ~Ring(maxDelay) /\ ~active
  /\ stage' = "between"
  /\ UNCHANGED <<maxDelay, line, iota, active, shiftAt, input, past>>

\* Mutant: write heads are ignored.
CopiedBySlot(m, head) ==
  [s \in Slots(m) |-> IF s \in Slots(maxDelay) THEN line[s] ELSE Zero]

\* Copy: the slots both lines have, relative to the write heads; the rest zero.
Copied(m, head) ==
  LET common == IF Extent(m) < Extent(maxDelay) THEN Extent(m) ELSE Extent(maxDelay) IN
  [s \in Slots(m) |->
     LET k == CHOOSE j \in Slots(m) : SlotAt(m, head, j) = s IN
     IF k < common THEN line[SlotAt(maxDelay, iota, k)] ELSE Zero]

\* TransferState into a program whose line has depth m and was just initialised.
Transfer(m) ==
  /\ stage = "between"
  /\ maxDelay' = m
  /\ line' = Copied(m, 0)
  /\ iota' = 0
  /\ past' = [k \in 1..m |-> IF k <= maxDelay THEN past[k] ELSE Unknown]
  /\ UNCHANGED <<stage, active, shiftAt, input>>

\* Instance::Init: every slot and the counter are cleared.
LineInit ==
  /\ maxDelay \in Depths
  /\ line = [s \in Slots(maxDelay) |-> Zero]
  /\ iota = 0 /\ stage = "between" /\ active = TRUE /\ shiftAt = 0
  /\ input = Zero
  /\ past = [k \in 1..maxDelay |-> Zero]

Frame ==
  \/ \E a \in BOOLEAN : OpenFrame(a)
  \/ \E x \in Samples : Store(x)
  \/ Hold \/ AdvanceIota \/ BeginShift \/ ShiftSlot \/ EndShift \/ SkipShift

LineNext == Frame \/ \E m \in Depths : Transfer(m)

LineSpec == LineInit /\ [][LineNext]_lineVars

(***************************************************************************)
(* Properties.                                                             *)
(***************************************************************************)

\* Whenever a frame may read, a read with delay k gives the sample written k
\* frames ago: in either layout, after any number of frames and wraps of iota,
\* and after programs replaced one another with deeper and shallower lines.
ReadsExact ==
  /\ stage # "shifting" =>
       \A k \in 1..maxDelay : past[k] # Unknown => line[ReadIndex(k)] = past[k]
  /\ stage = "stored" /\ active => line[ReadIndex(0)] = input

\* A line implements the history it promises.  While a shift runs, slots above
\* shiftAt are already one frame older than the slots below.
Visible(k) == IF stage = "shifting" /\ k <= shiftAt THEN line[k - 1] ELSE line[ReadIndex(k)]

History == INSTANCE DelayHistory WITH reads <- [k \in 1..maxDelay |-> Visible(k)]
KeepsHistory == History!HistorySpec
=============================================================================
