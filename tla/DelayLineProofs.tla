--------------------------- MODULE DelayLineProofs ---------------------------
(***************************************************************************)
(* For every depth, sample set, range of the frame counter that is a       *)
(* multiple of the rings, and sequence of frames and migrations: a read    *)
(* gives the sample written that many frames ago, and the line implements  *)
(* the history of the module DelayHistory.                                 *)
(***************************************************************************)
EXTENDS DelayLine, SequenceFacts

(***************************************************************************)
(* Remainders.                                                             *)
(***************************************************************************)

\* The remainder is the one number below n that differs by a multiple of n.
LEMMA Remainder ==
  ASSUME NEW n \in Nat \ {0}, NEW q \in Int, NEW r \in 0..(n - 1)
  PROVE  (q * n + r) % n = r
OBVIOUS

LEMMA Quotients ==
  ASSUME NEW n \in Nat \ {0}, NEW a \in Int
  PROVE  a % n \in 0..(n - 1) /\ \E q \in Int : a = q * n + (a % n)
<1>1. a % n \in 0..(n - 1) /\ a \div n \in Int /\ a = (a \div n) * n + (a % n)
  OBVIOUS
<1> QED BY <1>1

Multiple(a, n) == \E c \in Int : a = c * n

LEMMA NoRemainder ==
  ASSUME NEW n \in Nat \ {0}, NEW a \in Int
  PROVE  a % n = 0 => Multiple(a, n)
<1>1. a \div n \in Int /\ a = (a \div n) * n + (a % n)
  OBVIOUS
<1> QED BY <1>1 DEF Multiple

\* Multiples of n do not count.
LEMMA SameRemainder ==
  ASSUME NEW n \in Nat \ {0}, NEW a \in Int, NEW c \in Int
  PROVE  (a + c * n) % n = a % n
<1>1. PICK q \in Int : a = q * n + (a % n)
  BY Quotients
<1>2. a % n \in 0..(n - 1)
  BY Quotients
<1>3. PICK r \in 0..(n - 1) : r = a % n
  BY <1>2
<1>4. a + c * n = (q + c) * n + r /\ q + c \in Int
  BY <1>1, <1>3
<1> QED BY <1>3, <1>4, Remainder

\* Numbers less than n apart have different remainders.
LEMMA ApartRemainders ==
  ASSUME NEW n \in Nat \ {0}, NEW a \in Int, NEW j \in 0..(n - 1), NEW k \in 0..(n - 1),
         (a - j) % n = (a - k) % n
  PROVE  j = k
<1>0. a - j \in Int /\ a - k \in Int
  OBVIOUS
<1>1. PICK q \in Int : a - j = q * n + ((a - j) % n)
  BY <1>0, Quotients
<1>2. PICK p \in Int : a - k = p * n + ((a - k) % n)
  BY <1>0, Quotients
<1>3. (a - j) % n \in Int
  BY <1>0, Quotients
<1>4. PICK d \in Int : d = q - p
  OBVIOUS
<1>5. k - j = d * n
  <2>1. PICK r \in Int : r = (a - j) % n
    BY <1>3
  <2>2. a - j = q * n + r /\ a - k = p * n + r
    BY <1>1, <1>2, <2>1
  <2>3. k - j = q * n - p * n
    BY <2>2
  <2> QED BY <2>3, <1>4
<1>6. d * n < n /\ 0 - n < d * n
  BY <1>5
<1>7. d = 0
  <2>1. CASE d >= 1
    <3>1. d * n >= n
      BY <2>1
    <3> QED BY <3>1, <1>6
  <2>2. CASE d <= -1
    <3>1. (-d) * n >= n /\ d * n = -((-d) * n) /\ d * n \in Int /\ (-d) * n \in Int
      BY <2>2
    <3> QED BY <3>1, <1>6
  <2> QED BY <2>1, <2>2
<1> QED BY <1>5, <1>7

(***************************************************************************)
(* The layout of a line.                                                   *)
(***************************************************************************)

LEMMA PowersAreNumbers == Powers \subseteq Int /\ 2^30 \in Powers
<1>1. \A e \in 1..30 : e \in Nat
  OBVIOUS
<1>2. \A e \in Nat : 2^e \in Int
  OBVIOUS
<1>3. 30 \in 1..30
  OBVIOUS
<1> QED BY <1>1, <1>2, <1>3 DEF Powers

\* A line has a slot for every delay, and the counter wraps around at the
\* first slot of a ring.
LEMMA LineFits ==
  ASSUME NEW m \in Depths
  PROVE  /\ m \in Nat \ {0} /\ Extent(m) \in Nat \ {0} /\ m < Extent(m)
         /\ Ring(m) => IotaRange % Extent(m) = 0
<1>1. m \in Nat \ {0}
  BY LineAssumption
<1>2. CASE ~Ring(m)
  BY <1>1, <1>2 DEF Extent
<1>3. CASE Ring(m)
  <2> DEFINE S == {p \in Powers : p >= m + 1}
  <2>1. S \in SUBSET Nat
    <3>1. \A p \in S : p \in Int /\ p >= m + 1
      BY PowersAreNumbers
    <3> QED BY <3>1, <1>1
  <2>2. 2^30 \in S
    <3>1. PICK t \in Powers : t = 2^30
      BY PowersAreNumbers
    <3>2. m < t /\ t \in Int
      BY <1>3, <3>1, RingAssumption, PowersAreNumbers
    <3>3. t >= m + 1
      BY <1>1, <3>2
    <3> QED BY <3>1, <3>3
  <2>3. PICK p \in S : \A q \in S : p <= q
    <3> HIDE DEF S
    <3> QED BY <2>1, <2>2, MinIsLeast
  <2>4. \E p1 \in Powers : p1 >= m + 1 /\ \A q \in Powers : q >= m + 1 => p1 <= q
    BY <2>3
  <2>5. Pow2Limit(m + 1) \in Powers /\ Pow2Limit(m + 1) >= m + 1
    BY <2>4 DEF Pow2Limit
  <2>6. Pow2Limit(m + 1) \in Int
    BY <2>5, PowersAreNumbers
  <2>7. Extent(m) \in Nat \ {0} /\ m < Extent(m)
    <3>1. PICK x \in Int : x = Pow2Limit(m + 1)
      BY <2>6
    <3>2. x \in Nat \ {0} /\ m < x
      BY <2>5, <3>1, <1>1
    <3> QED BY <3>1, <3>2, <1>3 DEF Extent
  <2> QED BY <1>1, <1>3, <2>7, RingAssumption
<1> QED BY <1>2, <1>3

\* Delays that fit use slots of the line, each a slot of its own, and every slot
\* is the one of some delay.
LEMMA SlotsOfDelays ==
  ASSUME NEW m \in Depths, NEW head \in Nat
  PROVE  /\ 0..m \subseteq Slots(m)
         /\ \A k \in Slots(m) : SlotAt(m, head, k) \in Slots(m)
         /\ \A j, k \in Slots(m) : SlotAt(m, head, j) = SlotAt(m, head, k) => j = k
         /\ \A s \in Slots(m) : \E k \in Slots(m) : SlotAt(m, head, k) = s
<1> DEFINE n == Extent(m)
<1>1. n \in Nat \ {0} /\ m \in Nat /\ m < n
  BY LineFits
<1>2. Slots(m) = 0..(n - 1)
  BY DEF Slots
<1> HIDE DEF n
<1>3. 0..m \subseteq Slots(m)
  BY <1>1, <1>2
<1>4. CASE ~Ring(m)
  BY <1>3, <1>4 DEF SlotAt
<1>5. CASE Ring(m)
  <2>1. \A k : SlotAt(m, head, k) = (head - k) % n
    BY <1>5 DEF SlotAt, n
  <2>2. ASSUME NEW k \in Slots(m) PROVE SlotAt(m, head, k) \in Slots(m)
    <3>1. head - k \in Int
      BY <1>2
    <3> QED BY <3>1, <2>1, <1>1, <1>2, Quotients
  <2>3. ASSUME NEW j \in Slots(m), NEW k \in Slots(m), SlotAt(m, head, j) = SlotAt(m, head, k) PROVE j = k
    <3>1. j \in 0..(n - 1) /\ k \in 0..(n - 1) /\ (head - j) % n = (head - k) % n /\ head \in Int
      BY <2>1, <2>3, <1>2
    <3> QED BY <3>1, <1>1, ApartRemainders
  <2>4. ASSUME NEW s \in Slots(m) PROVE \E k \in Slots(m) : SlotAt(m, head, k) = s
    <3> DEFINE k == (head - s) % n
    <3>1. head - s \in Int /\ s \in 0..(n - 1)
      BY <1>2
    <3>2. k \in 0..(n - 1) /\ \E q \in Int : head - s = q * n + k
      BY <3>1, <1>1, Quotients
    <3>3. PICK q \in Int : head - s = q * n + k
      BY <3>2
    <3> HIDE DEF k
    <3>4. head - k = q * n + s
      BY <3>1, <3>2, <3>3, <1>1
    <3>5. (head - k) % n = s
      BY <3>1, <3>4, <1>1, Remainder
    <3> QED BY <3>2, <3>5, <2>1, <1>2
  <2> QED BY <1>3, <2>2, <2>3, <2>4
<1> QED BY <1>4, <1>5

\* One frame later a sample is one delay further.
LEMMA AdvancedSlot ==
  ASSUME NEW m \in Depths, Ring(m), NEW head \in 0..(IotaRange - 1), NEW k \in Int
  PROVE  SlotAt(m, (head + 1) % IotaRange, k) = SlotAt(m, head, k - 1)
<1> DEFINE n == Extent(m)
<1>1. n \in Nat \ {0} /\ IotaRange % n = 0 /\ IotaRange \in Nat \ {0}
  BY LineFits, LineAssumption
<1>2. SlotAt(m, head, k - 1) = (head - (k - 1)) % n
  BY DEF SlotAt
<1>3. SlotAt(m, (head + 1) % IotaRange, k) = (((head + 1) % IotaRange) - k) % n
  BY DEF SlotAt
<1> HIDE DEF n
<1>4. CASE head + 1 < IotaRange
  <2>1. (head + 1) % IotaRange = head + 1
    BY <1>1, <1>4
  <2>2. head + 1 - k = head - (k - 1)
    BY <1>1
  <2> QED BY <2>1, <2>2, <1>2, <1>3
<1>5. CASE head + 1 = IotaRange
  <2>1. (head + 1) % IotaRange = 0
    <3>1. head + 1 = 1 * IotaRange + 0 /\ 0 \in 0..(IotaRange - 1)
      BY <1>1, <1>5
    <3> QED BY <3>1, <1>1, Remainder
  <2>2. Multiple(IotaRange, n)
    BY <1>1, NoRemainder
  <2>3. PICK c \in Int : IotaRange = c * n
    BY <2>2 DEF Multiple
  <2>4. head - (k - 1) = 0 - k + c * n /\ 0 - k \in Int
    BY <2>3, <1>1, <1>5
  <2>5. (head - (k - 1)) % n = (0 - k) % n
    <3>1. PICK a \in Int : a = 0 - k
      OBVIOUS
    <3>2. (a + c * n) % n = a % n
      BY <1>1, SameRemainder
    <3> QED BY <3>1, <3>2, <2>4
  <2> QED BY <2>1, <2>5, <1>2, <1>3
<1> QED BY <1>1, <1>4, <1>5

(***************************************************************************)
(* The inductive invariant: every read gives the sample remembered for it, *)
(* also from a line that is being shifted.                                 *)
(***************************************************************************)

LineType ==
  /\ maxDelay \in Depths
  /\ line \in [Slots(maxDelay) -> Samples]
  /\ iota \in 0..(IotaRange - 1)
  /\ stage \in {"between", "opened", "stored", "shifting"}
  /\ active \in BOOLEAN
  /\ input \in Samples
  /\ past \in [1..maxDelay -> Samples \cup {Unknown}]
  /\ IF stage = "shifting" THEN ~Ring(maxDelay) /\ shiftAt \in 0..maxDelay ELSE shiftAt = 0

Remembers == \A k \in 1..maxDelay : past[k] # Unknown => Visible(k) = past[k]

LineInv ==
  /\ LineType
  /\ stage = "stored" /\ active => line[WriteIndex] = input
  /\ Remembers

\* Nothing that can be read changes.
Steady == maxDelay' = maxDelay /\ \A k \in 1..maxDelay : Visible(k)' = Visible(k)

\* Every sample that can be read becomes one frame older, and x is the newest.
Ages(x) ==
  /\ maxDelay' = maxDelay
  /\ \A k \in 1..maxDelay : Visible(k)' = IF k = 1 THEN x ELSE Visible(k - 1)

\* The line of a program of depth m is in use, with what the old one had.
Resized(m) ==
  /\ maxDelay' = m
  /\ \A k \in 1..m : Visible(k)' \in Samples /\ (k <= maxDelay => Visible(k)' = Visible(k))

\* The slots of a line, with the write head the first of them.
LEMMA SlotsAtHand ==
  ASSUME LineType
  PROVE  /\ maxDelay \in Nat \ {0} /\ maxDelay \in Depths /\ iota \in Nat
         /\ DOMAIN line = Slots(maxDelay)
         /\ \A k \in 0..maxDelay : ReadIndex(k) \in Slots(maxDelay) /\ line[ReadIndex(k)] \in Samples
         /\ ReadIndex(0) = WriteIndex
         /\ \A k \in 1..maxDelay : ReadIndex(k) # WriteIndex
         /\ ~Ring(maxDelay) => /\ Slots(maxDelay) = 0..maxDelay
                               /\ \A k \in 0..maxDelay : ReadIndex(k) = k
<1>1. maxDelay \in Depths /\ iota \in Nat /\ line \in [Slots(maxDelay) -> Samples]
  BY LineAssumption DEF LineType
<1>2. maxDelay \in Nat \ {0}
  BY <1>1, LineFits
<1>3. /\ 0..maxDelay \subseteq Slots(maxDelay)
      /\ \A k \in Slots(maxDelay) : SlotAt(maxDelay, iota, k) \in Slots(maxDelay)
      /\ \A j, k \in Slots(maxDelay) : SlotAt(maxDelay, iota, j) = SlotAt(maxDelay, iota, k) => j = k
  BY <1>1, SlotsOfDelays
<1>4. \A k \in 1..maxDelay : k \in 0..maxDelay /\ k # 0
  BY <1>2
<1>5. 0 \in 0..maxDelay
  BY <1>2
<1>6. ~Ring(maxDelay) => Slots(maxDelay) = 0..maxDelay
  BY <1>2 DEF Slots, Extent
<1> QED BY <1>1, <1>2, <1>3, <1>4, <1>5, <1>6 DEF ReadIndex, WriteIndex, SlotAt

LEMMA SamplesAreKnown == \A x \in Samples : x # Unknown
BY LineAssumption

\* What can be read are samples.
LEMMA VisibleSamples ==
  ASSUME LineType
  PROVE  \A k \in 1..maxDelay : Visible(k) \in Samples
<1> SUFFICES ASSUME NEW k \in 1..maxDelay PROVE Visible(k) \in Samples
  OBVIOUS
<1>1. maxDelay \in Nat /\ k \in 0..maxDelay /\ k - 1 \in 0..maxDelay
  BY SlotsAtHand
<1>2. CASE stage = "shifting"
  <2>1. ~Ring(maxDelay)
    BY <1>2 DEF LineType
  <2>2. ReadIndex(k - 1) = k - 1 /\ line[ReadIndex(k - 1)] \in Samples
    BY <1>1, <2>1, SlotsAtHand
  <2> QED BY <1>1, <2>2, SlotsAtHand DEF Visible
<1>3. CASE stage # "shifting"
  BY <1>1, <1>3, SlotsAtHand DEF Visible
<1> QED BY <1>2, <1>3

\* The history after a frame that wrote x.
LEMMA PushedPast ==
  ASSUME LineType, maxDelay \in Nat \ {0}, NEW x \in Samples \cup {Unknown}
  PROVE  Pushed(x) \in [1..maxDelay -> Samples \cup {Unknown}]
<1>1. DOMAIN past = 1..maxDelay /\ \A k \in 1..maxDelay : k # 1 => k - 1 \in 1..maxDelay
  BY DEF LineType
<1> QED BY <1>1 DEF Pushed, LineType

(***************************************************************************)
(* The steps of a frame.                                                   *)
(***************************************************************************)

\* Opening a frame, leaving it inactive and ending a shift read as before.
LEMMA QuietStep ==
  ASSUME LineInv, (\E a \in BOOLEAN : OpenFrame(a)) \/ Hold \/ SkipShift \/ EndShift
  PROVE  Steady /\ LineType' /\ (stage = "stored" /\ active => line[WriteIndex] = input)' /\ past' = past
<1>1. /\ UNCHANGED <<maxDelay, line, iota, shiftAt, input, past>>
      /\ stage' \in {"opened", "stored", "between"}
      /\ stage' = "stored" => ~active'
      /\ active' \in BOOLEAN
      /\ stage = "shifting" => shiftAt = 0
  BY DEF LineInv, LineType, OpenFrame, Hold, SkipShift, EndShift
<1>2. LineType'
  BY <1>1 DEF LineInv, LineType
<1>3. ASSUME NEW k \in 1..maxDelay PROVE Visible(k)' = Visible(k)
  <2>1. ~(stage = "shifting" /\ k <= shiftAt)
    BY <1>1, SlotsAtHand DEF LineInv
  <2>2. ReadIndex(k)' = ReadIndex(k)
    BY <1>1 DEF ReadIndex
  <2> QED BY <1>1, <2>1, <2>2 DEF Visible
<1> QED BY <1>1, <1>2, <1>3 DEF Steady

\* The sample of the frame goes where no read of a past one looks.
LEMMA StoreStep ==
  ASSUME LineInv, NEW x \in Samples, Store(x)
  PROVE  Steady /\ LineType' /\ (stage = "stored" /\ active => line[WriteIndex] = input)' /\ past' = past
<1>1. /\ UNCHANGED <<maxDelay, iota, active, shiftAt, past>>
      /\ stage = "opened" /\ stage' = "stored" /\ input' = x
      /\ line' = [line EXCEPT ![WriteIndex] = x]
  BY DEF Store
<1>2. LineType /\ WriteIndex' = WriteIndex /\ WriteIndex \in Slots(maxDelay) /\ DOMAIN line = Slots(maxDelay)
  <2>1. LineType
    BY DEF LineInv
  <2>2. 0 \in 0..maxDelay /\ ReadIndex(0) = WriteIndex /\ DOMAIN line = Slots(maxDelay)
    BY <2>1, SlotsAtHand
  <2> QED BY <1>1, <2>1, <2>2, SlotsAtHand DEF WriteIndex
<1>3. LineType' /\ line'[WriteIndex] = x
  BY <1>1, <1>2 DEF LineType
<1>4. ASSUME NEW k \in 1..maxDelay PROVE Visible(k)' = Visible(k)
  <2>1. ReadIndex(k) # WriteIndex /\ ReadIndex(k)' = ReadIndex(k)
    BY <1>1, <1>2, SlotsAtHand DEF ReadIndex
  <2> QED BY <1>1, <1>2, <2>1 DEF Visible
<1> QED BY <1>1, <1>2, <1>3, <1>4 DEF Steady

\* One slot is shifted, and what is visible stays.
LEMMA ShiftSlotStep ==
  ASSUME LineInv, ShiftSlot
  PROVE  Steady /\ LineType' /\ (stage = "stored" /\ active => line[WriteIndex] = input)' /\ past' = past
<1>1. /\ UNCHANGED <<maxDelay, iota, stage, active, input, past>>
      /\ stage = "shifting" /\ shiftAt >= 1 /\ shiftAt' = shiftAt - 1
      /\ line' = [line EXCEPT ![shiftAt] = line[shiftAt - 1]]
  BY DEF ShiftSlot
<1>2. LineType /\ ~Ring(maxDelay) /\ shiftAt \in 0..maxDelay
  BY <1>1 DEF LineInv, LineType
<1>3. /\ maxDelay \in Nat /\ Slots(maxDelay) = 0..maxDelay /\ DOMAIN line = Slots(maxDelay)
      /\ \A k \in 0..maxDelay : ReadIndex(k) = k /\ line[k] \in Samples
  <2>1. /\ maxDelay \in Nat /\ Slots(maxDelay) = 0..maxDelay /\ DOMAIN line = Slots(maxDelay)
        /\ \A k \in 0..maxDelay : ReadIndex(k) = k /\ line[ReadIndex(k)] \in Samples
    BY <1>2, SlotsAtHand
  <2> QED BY <2>1
<1>4. shiftAt - 1 \in 0..maxDelay /\ shiftAt \in Slots(maxDelay)
  BY <1>1, <1>2, <1>3
<1>5. LineType'
  <2>1. line' \in [Slots(maxDelay) -> Samples]
    BY <1>1, <1>2, <1>3, <1>4 DEF LineType
  <2> QED BY <1>1, <1>2, <1>4, <2>1 DEF LineType
<1>6. ASSUME NEW k \in 1..maxDelay PROVE Visible(k)' = Visible(k)
  <2>1. k \in 0..maxDelay /\ ReadIndex(k) = k /\ ReadIndex(k)' = k
    <3>1. k \in 0..maxDelay
      BY <1>3
    <3>2. ReadIndex(k) = k /\ ReadIndex(k)' = ReadIndex(k)
      BY <3>1, <1>1, <1>3 DEF ReadIndex
    <3> QED BY <3>1, <3>2
  <2>2. Visible(k) = IF k <= shiftAt THEN line[k - 1] ELSE line[k]
    BY <2>1, <1>1 DEF Visible
  <2>3. Visible(k)' = IF k <= shiftAt - 1 THEN line'[k - 1] ELSE line'[k]
    BY <2>1, <1>1 DEF Visible
  <2>4. k \in Slots(maxDelay) /\ k - 1 \in Slots(maxDelay)
    BY <1>3
  <2>5. CASE k <= shiftAt - 1
    BY <2>2, <2>3, <2>4, <2>5, <1>1, <1>2, <1>3
  <2>6. CASE k = shiftAt
    BY <2>2, <2>3, <2>4, <2>6, <1>1, <1>2, <1>3
  <2>7. CASE k > shiftAt
    BY <2>2, <2>3, <2>4, <2>7, <1>1, <1>2, <1>3
  <2> QED BY <2>5, <2>6, <2>7, <1>2
<1> QED BY <1>1, <1>5, <1>6 DEF Steady

\* A shift begins with every sample a frame older.
LEMMA BeginShiftStep ==
  ASSUME LineInv, BeginShift
  PROVE  Ages(input) /\ LineType' /\ (stage = "stored" /\ active => line[WriteIndex] = input)'
<1>1. /\ UNCHANGED <<maxDelay, line, iota, active, input>>
      /\ stage = "stored" /\ ~Ring(maxDelay) /\ active /\ stage' = "shifting" /\ shiftAt' = maxDelay
      /\ past' = Pushed(input)
  BY DEF BeginShift
<1>2. /\ LineType /\ maxDelay \in Nat \ {0} /\ WriteIndex = 0 /\ line[0] = input
      /\ \A k \in 0..maxDelay : ReadIndex(k) = k
  <2>1. LineType
    BY DEF LineInv
  <2>2. maxDelay \in Nat \ {0} /\ ReadIndex(0) = WriteIndex /\ \A k \in 0..maxDelay : ReadIndex(k) = k
    BY <1>1, <2>1, SlotsAtHand
  <2>3. WriteIndex = 0
    BY <2>2
  <2> QED BY <1>1, <2>1, <2>2, <2>3 DEF LineInv
<1>3. past' \in [1..maxDelay -> Samples \cup {Unknown}]
  <2>1. input \in Samples \cup {Unknown}
    BY <1>2 DEF LineType
  <2> QED BY <2>1, <1>1, <1>2, PushedPast
<1>4. LineType'
  BY <1>1, <1>2, <1>3 DEF LineType
<1>5. ASSUME NEW k \in 1..maxDelay PROVE Visible(k)' = IF k = 1 THEN input ELSE Visible(k - 1)
  <2>1. Visible(k)' = line[k - 1]
    BY <1>1, <1>2 DEF Visible
  <2>2. k - 1 \in 0..maxDelay /\ ReadIndex(k - 1) = k - 1
    BY <1>2
  <2>3. Visible(k - 1) = line[k - 1]
    BY <1>1, <2>2 DEF Visible
  <2> QED BY <1>2, <2>1, <2>3
<1> QED BY <1>1, <1>4, <1>5 DEF Ages

\* A ring turns by one slot: what the write head left is a frame old.
LEMMA AdvanceIotaStep ==
  ASSUME LineInv, AdvanceIota
  PROVE  /\ Ages(line[WriteIndex]) /\ line[WriteIndex] \in Samples /\ LineType'
         /\ (stage = "stored" /\ active => line[WriteIndex] = input)'
<1>1. /\ UNCHANGED <<maxDelay, line, active, shiftAt, input>>
      /\ stage = "stored" /\ Ring(maxDelay) /\ stage' = "between" /\ iota' = (iota + 1) % IotaRange
      /\ past' = Pushed(IF active THEN input ELSE Unknown)
  BY DEF AdvanceIota
<1>2. /\ LineType /\ maxDelay \in Nat \ {0} /\ line[WriteIndex] \in Samples /\ WriteIndex = ReadIndex(0)
      /\ iota \in 0..(IotaRange - 1) /\ maxDelay \in Depths
  <2>1. LineType
    BY DEF LineInv
  <2>2. maxDelay \in Nat \ {0} /\ ReadIndex(0) = WriteIndex
    BY <2>1, SlotsAtHand
  <2>3. 0 \in 0..maxDelay
    BY <2>2
  <2> QED BY <2>1, <2>2, <2>3, SlotsAtHand DEF LineType
<1>3. past' \in [1..maxDelay -> Samples \cup {Unknown}]
  <2>1. (IF active THEN input ELSE Unknown) \in Samples \cup {Unknown}
    BY <1>2 DEF LineType
  <2> QED BY <1>1, <1>2, <2>1, PushedPast
<1>4. iota' \in 0..(IotaRange - 1)
  BY <1>1, <1>2, LineAssumption
<1>5. LineType'
  BY <1>1, <1>2, <1>3, <1>4 DEF LineType
<1>6. ASSUME NEW k \in 1..maxDelay PROVE Visible(k)' = IF k = 1 THEN line[WriteIndex] ELSE Visible(k - 1)
  <2>1. ReadIndex(k)' = ReadIndex(k - 1)
    <3>1. k \in Int
      OBVIOUS
    <3> QED BY <3>1, <1>1, <1>2, AdvancedSlot DEF ReadIndex
  <2>2. Visible(k)' = line[ReadIndex(k - 1)]
    BY <1>1, <2>1 DEF Visible
  <2>3. Visible(k - 1) = line[ReadIndex(k - 1)]
    BY <1>1 DEF Visible
  <2>4. k = 1 => k - 1 = 0
    OBVIOUS
  <2> QED BY <1>2, <2>2, <2>3, <2>4
<1> QED BY <1>1, <1>2, <1>5, <1>6 DEF Ages

(***************************************************************************)
(* Migration.                                                              *)
(***************************************************************************)

\* What both lines can read is copied, and the rest is cleared.
LEMMA TransferStep ==
  ASSUME LineInv, NEW m \in Depths, Transfer(m)
  PROVE  Resized(m) /\ LineType' /\ (stage = "stored" /\ active => line[WriteIndex] = input)'
<1>1. /\ UNCHANGED <<stage, active, shiftAt, input>>
      /\ stage = "between" /\ maxDelay' = m /\ iota' = 0 /\ line' = Copied(m, 0)
      /\ past' = [k \in 1..m |-> IF k <= maxDelay THEN past[k] ELSE Unknown]
  BY DEF Transfer
<1> DEFINE common == IF Extent(m) < Extent(maxDelay) THEN Extent(m) ELSE Extent(maxDelay)
           from(s) == CHOOSE j \in Slots(m) : SlotAt(m, 0, j) = s
           kept(k) == IF k < common THEN line[SlotAt(maxDelay, iota, k)] ELSE Zero
<1>2. /\ LineType /\ maxDelay \in Depths /\ iota \in Nat
      /\ maxDelay \in Nat \ {0} /\ Extent(maxDelay) \in Nat \ {0} /\ maxDelay < Extent(maxDelay)
      /\ m \in Nat \ {0} /\ Extent(m) \in Nat \ {0} /\ m < Extent(m)
  <2>1. LineType
    BY DEF LineInv
  <2>2. maxDelay \in Depths /\ iota \in Nat
    BY <2>1, SlotsAtHand
  <2> QED BY <2>1, <2>2, LineFits
<1>3. line' = [s \in Slots(m) |-> kept(from(s))]
  BY <1>1 DEF Copied
<1>4. \A s \in Slots(m) : from(s) \in Slots(m) /\ SlotAt(m, 0, from(s)) = s
  <2>1. \A s \in Slots(m) : \E j \in Slots(m) : SlotAt(m, 0, j) = s
    BY SlotsOfDelays
  <2> QED BY <2>1
<1>5. \A j \in Slots(m) : SlotAt(m, 0, j) \in Slots(m) /\ from(SlotAt(m, 0, j)) = j
  <2>1. \A j \in Slots(m) : SlotAt(m, 0, j) \in Slots(m)
    BY SlotsOfDelays
  <2>2. \A j, k \in Slots(m) : SlotAt(m, 0, j) = SlotAt(m, 0, k) => j = k
    BY SlotsOfDelays
  <2> HIDE DEF from
  <2> QED BY <2>1, <2>2, <1>4
<1> HIDE DEF from
<1>6. ASSUME NEW k \in Slots(m) PROVE kept(k) \in Samples
  <2>1. CASE k < common
    <3>1. k \in Slots(maxDelay)
      BY <2>1, <1>2 DEF Slots
    <3>2. SlotAt(maxDelay, iota, k) \in Slots(maxDelay)
      BY <3>1, <1>2, SlotsOfDelays
    <3> QED BY <2>1, <3>2, <1>2 DEF LineType
  <2>2. CASE ~(k < common)
    BY <2>2, LineAssumption
  <2> QED BY <2>1, <2>2
<1>7. line' \in [Slots(m) -> Samples]
  <2> HIDE DEF kept
  <2> QED BY <1>3, <1>4, <1>6
<1>8. LineType'
  <2>1. past' \in [1..m -> Samples \cup {Unknown}]
    <3>1. \A k \in 1..m : k <= maxDelay => k \in 1..maxDelay
      BY <1>2
    <3> QED BY <3>1, <1>1, <1>2 DEF LineType
  <2>2. 0 \in 0..(IotaRange - 1)
    BY LineAssumption
  <2> QED BY <1>1, <1>2, <1>7, <2>1, <2>2 DEF LineType
<1>9. ASSUME NEW k \in 1..m PROVE Visible(k)' = kept(k) /\ k \in Slots(m)
  <2>1. k \in Slots(m)
    BY <1>2 DEF Slots
  <2>2. Visible(k)' = line'[SlotAt(m, 0, k)]
    BY <1>1 DEF Visible, ReadIndex
  <2> HIDE DEF kept
  <2> QED BY <2>1, <2>2, <1>3, <1>5
<1>10. ASSUME NEW k \in 1..m, k <= maxDelay PROVE kept(k) = Visible(k)
  <2>1. k < common
    BY <1>2, <1>10
  <2> QED BY <2>1, <1>1 DEF Visible, ReadIndex
<1> HIDE DEF kept
<1>11. Resized(m)
  BY <1>1, <1>6, <1>9, <1>10 DEF Resized
<1> QED BY <1>1, <1>8, <1>11

(***************************************************************************)
(* The invariant is inductive.                                             *)
(***************************************************************************)

\* One of these happens to what can be read, and the rest of the invariant holds.
LEMMA EveryStep ==
  ASSUME LineInv, LineNext
  PROVE  /\ LineType' /\ (stage = "stored" /\ active => line[WriteIndex] = input)'
         /\ \/ Steady /\ past' = past
            \/ \E x \in Samples : /\ Ages(x)
                                  /\ past' = Pushed(x) \/ past' = Pushed(Unknown)
            \/ \E m \in Depths : Resized(m) /\ Transfer(m)
<1>1. CASE (\E a \in BOOLEAN : OpenFrame(a)) \/ Hold \/ SkipShift \/ EndShift
  BY <1>1, QuietStep
<1>2. CASE \E x \in Samples : Store(x)
  BY <1>2, StoreStep
<1>3. CASE ShiftSlot
  BY <1>3, ShiftSlotStep
<1>4. CASE BeginShift
  <2>1. input \in Samples /\ past' = Pushed(input)
    BY <1>4 DEF LineInv, LineType, BeginShift
  <2> QED BY <1>4, <2>1, BeginShiftStep
<1>5. CASE AdvanceIota
  <2>1. Ages(line[WriteIndex]) /\ line[WriteIndex] \in Samples
    BY <1>5, AdvanceIotaStep
  <2>2. past' = Pushed(line[WriteIndex]) \/ past' = Pushed(Unknown)
    BY <1>5 DEF AdvanceIota, LineInv
  <2> QED BY <1>5, <2>1, <2>2, AdvanceIotaStep
<1>6. CASE \E m \in Depths : Transfer(m)
  BY <1>6, TransferStep
<1> QED BY <1>1, <1>2, <1>3, <1>4, <1>5, <1>6 DEF LineNext, Frame

LEMMA RemembersKept ==
  ASSUME LineInv, LineNext
  PROVE  Remembers'
<1>1. LineType /\ maxDelay \in Nat \ {0} /\ DOMAIN past = 1..maxDelay /\ Remembers
  <2>1. LineType /\ Remembers
    BY DEF LineInv
  <2> QED BY <2>1, SlotsAtHand DEF LineType
<1>2. CASE Steady /\ past' = past
  BY <1>1, <1>2 DEF Steady, Remembers
<1>3. ASSUME NEW x \in Samples, Ages(x), past' = Pushed(x) \/ past' = Pushed(Unknown) PROVE Remembers'
  <2> SUFFICES ASSUME NEW k \in 1..maxDelay, past'[k] # Unknown PROVE Visible(k)' = past'[k]
    BY <1>3 DEF Remembers, Ages
  <2>1. PICK y \in {x, Unknown} : past' = Pushed(y)
    BY <1>3
  <2>2. past'[k] = IF k = 1 THEN y ELSE past[k - 1]
    BY <1>1, <2>1 DEF Pushed
  <2>3. Visible(k)' = IF k = 1 THEN x ELSE Visible(k - 1)
    BY <1>3 DEF Ages
  <2>4. k # 1 => k - 1 \in 1..maxDelay
    BY <1>1
  <2> QED BY <2>1, <2>2, <2>3, <2>4, <1>1 DEF Remembers
<1>4. ASSUME NEW m \in Depths, Resized(m), Transfer(m) PROVE Remembers'
  <2> SUFFICES ASSUME NEW k \in 1..m, past'[k] # Unknown PROVE Visible(k)' = past'[k]
    BY <1>4 DEF Remembers, Resized
  <2>1. past'[k] = IF k <= maxDelay THEN past[k] ELSE Unknown
    BY <1>4 DEF Transfer
  <2>2. k \in 1..maxDelay /\ past'[k] = past[k]
    <3>1. k <= maxDelay
      BY <2>1
    <3> QED BY <3>1, <2>1, <1>1
  <2> QED BY <2>2, <1>1, <1>4 DEF Remembers, Resized
<1> QED BY <1>2, <1>3, <1>4, EveryStep

LEMMA LineInvInductive == LineSpec => []LineInv
<1>1. LineInit => LineInv
  <2> SUFFICES ASSUME LineInit PROVE LineInv
    OBVIOUS
  <2>1. /\ maxDelay \in Depths /\ line = [s \in Slots(maxDelay) |-> Zero] /\ iota = 0
        /\ stage = "between" /\ active = TRUE /\ shiftAt = 0 /\ input = Zero
        /\ past = [k \in 1..maxDelay |-> Zero]
    BY DEF LineInit
  <2>2. LineType
    BY <2>1, LineAssumption DEF LineType
  <2>3. ASSUME NEW k \in 1..maxDelay PROVE Visible(k) = past[k]
    <3>1. k \in 0..maxDelay
      OBVIOUS
    <3>2. ReadIndex(k) \in Slots(maxDelay)
      BY <2>2, <3>1, SlotsAtHand
    <3> QED BY <2>1, <3>2 DEF Visible
  <2> QED BY <2>1, <2>2, <2>3 DEF LineInv, Remembers
<1>2. LineInv /\ [LineNext]_lineVars => LineInv'
  <2>1. ASSUME LineInv, LineNext PROVE LineInv'
    BY <2>1, EveryStep, RemembersKept DEF LineInv
  <2>2. ASSUME LineInv, UNCHANGED lineVars PROVE LineInv'
    BY <2>2 DEF lineVars, LineInv, LineType, Remembers, Visible, ReadIndex, WriteIndex
  <2> QED BY <2>1, <2>2
<1> QED BY <1>1, <1>2, PTL DEF LineSpec

(***************************************************************************)
(* What it means for the line.                                             *)
(***************************************************************************)

\* A read gives the sample written that many frames ago, in either layout, after
\* any number of frames, wraps of the counter and migrations.
THEOREM ReadsAreExact == LineSpec => []ReadsExact
<1>1. LineInv => ReadsExact
  <2> SUFFICES ASSUME LineInv PROVE ReadsExact
    OBVIOUS
  <2>1. LineType /\ Remembers
    BY DEF LineInv
  <2>2. stage = "stored" /\ active => line[ReadIndex(0)] = input
    BY <2>1, SlotsAtHand DEF LineInv
  <2>3. stage # "shifting" => \A k \in 1..maxDelay : Visible(k) = line[ReadIndex(k)]
    BY DEF Visible
  <2> QED BY <2>1, <2>2, <2>3 DEF ReadsExact, Remembers
<1> QED BY <1>1, LineInvInductive, PTL

\* The line implements the history it promises.
THEOREM LineImplementsHistory == LineSpec => KeepsHistory
<1> DEFINE reads == [k \in 1..maxDelay |-> Visible(k)]
<1>1. LineInit => History!HistoryInit
  <2> SUFFICES ASSUME LineInit PROVE History!HistoryInit
    OBVIOUS
  <2>1. maxDelay \in Depths /\ line = [s \in Slots(maxDelay) |-> Zero] /\ iota = 0 /\ stage = "between"
    BY DEF LineInit
  <2>2. ASSUME NEW k \in 1..maxDelay PROVE Visible(k) = Zero
    <3>1. k \in 0..maxDelay /\ 0 \in Nat
      OBVIOUS
    <3>2. ReadIndex(k) \in Slots(maxDelay)
      BY <2>1, <3>1, SlotsOfDelays DEF ReadIndex
    <3> QED BY <2>1, <3>2 DEF Visible
  <2> QED BY <2>1, <2>2 DEF History!HistoryInit
<1>2. ASSUME LineInv, LineNext PROVE History!HistoryNext \/ reads' = reads
  <2>1. LineType /\ maxDelay \in Nat \ {0} /\ \A k \in 1..maxDelay : Visible(k) \in Samples
    BY <1>2, SlotsAtHand, VisibleSamples DEF LineInv
  <2>2. CASE Steady
    BY <2>2 DEF Steady
  <2>3. ASSUME NEW x \in Samples, Ages(x) PROVE History!Push(x)
    <3>1. reads' = [k \in 1..maxDelay |-> IF k = 1 THEN x ELSE Visible(k - 1)]
      BY <2>3 DEF Ages
    <3>2. \A k \in 1..maxDelay : k # 1 => k - 1 \in 1..maxDelay /\ reads[k - 1] = Visible(k - 1)
      BY <2>1
    <3>3. reads' = [k \in DOMAIN reads |-> IF k = 1 THEN x ELSE reads[k - 1]]
      BY <3>1, <3>2
    <3> QED BY <3>3 DEF History!Push
  <2>4. ASSUME NEW m \in Depths, Resized(m) PROVE History!Resize(m)
    <3>1. reads' = [k \in 1..m |-> Visible(k)'] /\ \A k \in 1..m : Visible(k)' \in Samples
      BY <2>4 DEF Resized
    <3>2. \A k \in 1..m : k \in DOMAIN reads => k \in 1..maxDelay /\ k <= maxDelay
      BY <2>1
    <3>3. \A k \in 1..m : k \in DOMAIN reads => reads'[k] = reads[k]
      BY <2>4, <3>1, <3>2 DEF Resized
    <3> QED BY <3>1, <3>3 DEF History!Resize
  <2> HIDE DEF reads
  <2> QED BY <1>2, <2>2, <2>3, <2>4, EveryStep DEF History!HistoryNext
<1>3. ASSUME UNCHANGED lineVars PROVE reads' = reads
  BY <1>3 DEF lineVars, Visible, ReadIndex
<1>4. LineInv /\ [LineNext]_lineVars => [History!HistoryNext]_reads
  BY <1>2, <1>3
<1> QED BY <1>1, <1>4, LineInvInductive, PTL DEF LineSpec, KeepsHistory, History!HistorySpec
=============================================================================
