---------------------------- MODULE MigrateProofs ----------------------------
(***************************************************************************)
(* Proofs about MatchState for every pair of plans of any size: histories  *)
(* are neither shared nor merged, content comes before closeness, the      *)
(* shape matches are stable, and a program compiled again unchanged keeps  *)
(* each history in its field.                                              *)
(***************************************************************************)
EXTENDS Migrate, TLAPS, FiniteSetTheorems

\* A field is taken when a pair names it.
Taking == oldTaken = {p[1] : p \in transfer}

\* The first loop has looked at exactly the fields before the cursor, and what
\* it left is not matched by content.
Progress ==
  /\ stage = "hash" => NewTaken \cup unmatched = Carried(new) \cap 1..(cursor - 1)
  /\ stage # "hash" => NewTaken \cup unmatched = Carried(new)
  /\ unmatched \subseteq Carried(new)
  /\ stage = "hash" => NewTaken \cap unmatched = {}

\* Pairs of the first loop have equal content; it left a field only when every
\* old field of its content had a new field of that content already.
ByContent ==
  /\ \A p \in transfer : p[2] \notin unmatched => SameHash(p[1], p[2])
  /\ \A n \in unmatched, o \in Carried(old) :
       SameHash(o, n) => \E p \in transfer : p[1] = o /\ SameHash(o, p[2])

\* A pair the second pass could take and that matched by content neither field.
Admissible(o, n) ==
  /\ SameShape(o, n) /\ old[o].at # Nowhere /\ new[n].at # Nowhere
  /\ ~ \E p \in transfer : p[1] = o /\ p[2] \notin unmatched

\* Such a pair is still to come or was refused for one that is not farther.
Stable ==
  stage # "hash" =>
    \A o \in Carried(old), n \in unmatched :
      Admissible(o, n) =>
        \/ <<o, n>> \in Candidates
        \/ \E p \in transfer : (p[1] = o \/ p[2] = n) /\ ~Before(<<o, n>>, p)

\* Matching ends when no candidate is left.
Exhausted == stage = "done" => Candidates = {}

MatchInv ==
  MatchTypeOK /\ Taking /\ TransferInjective /\ Progress /\ ByContent /\ Stable /\ Exhausted

(***************************************************************************)
(* Plans.                                                                  *)
(***************************************************************************)

\* The fields of a plan are numbered from 1.
LEMMA PlanIndices ==
  ASSUME NEW plan \in Plans
  PROVE  /\ Len(plan) \in Nat /\ DOMAIN plan = 1..Len(plan)
         /\ Carried(plan) \subseteq DOMAIN plan
         /\ \A f \in DOMAIN plan : plan[f] \in Fields
<1>1. PICK n \in 0..PlanSize : plan \in [1..n -> Fields]
  BY DEF Plans
<1>2. plan \in Seq(Fields) /\ n \in Nat
  BY <1>1, MigrateAssumption DEF MigrateAssumption
<1> QED BY <1>1, <1>2 DEF Carried

\* A resize counts for nothing or for one.
LEMMA ResizesType == \A o, n : Resizes(o, n) \in Nat
BY DEF Resizes

\* Giving a free old field to a free new one keeps the transfer injective.
LEMMA GiveInjective ==
  ASSUME Taking, TransferInjective, NEW o, NEW n, o \notin oldTaken, n \notin NewTaken,
         Give(o, n)
  PROVE  /\ Taking' /\ TransferInjective'
         /\ NewTaken' = NewTaken \cup {n}
<1>1. /\ oldTaken' = oldTaken \cup {o}
      /\ transfer' = transfer \cup {<<o, n>>}
  BY DEF Give
<1>2. \A p \in transfer : p[1] # o /\ p[2] # n
  BY DEF Taking, NewTaken
<1>3. Taking'
  <2>1. \A a : a \in {p[1] : p \in transfer'} <=> a \in {p[1] : p \in transfer} \/ a = o
    <3>1. <<o, n>>[1] = o
      OBVIOUS
    <3> QED BY <3>1, <1>1
  <2> QED BY <2>1, <1>1 DEF Taking
<1>4. TransferInjective'
  BY <1>1, <1>2 DEF TransferInjective
<1>5. NewTaken' = NewTaken \cup {n}
  <2>1. \A a : a \in {p[2] : p \in transfer'} <=> a \in {p[2] : p \in transfer} \/ a = n
    <3>1. <<o, n>>[2] = n
      OBVIOUS
    <3> QED BY <3>1, <1>1
  <2> QED BY <2>1 DEF NewTaken
<1> QED BY <1>3, <1>4, <1>5

(***************************************************************************)
(* Steps.                                                                  *)
(***************************************************************************)

LEMMA MatchStarts == MatchInit => MatchInv
<1> SUFFICES ASSUME MatchInit PROVE MatchInv
  OBVIOUS
<1>1. /\ old \in Plans /\ new \in Plans /\ cursor = 1 /\ oldTaken = {} /\ unmatched = {}
      /\ transfer = {} /\ stage = "hash"
  BY DEF MatchInit
<1>2. MatchTypeOK
  BY <1>1, PlanIndices DEF MatchInit, MatchTypeOK
<1>3. Taking /\ TransferInjective /\ ByContent /\ Stable /\ Exhausted
  BY <1>1 DEF Taking, TransferInjective, ByContent, Stable, Exhausted
<1>4. Progress
  BY <1>1 DEF Progress, NewTaken
<1> QED BY <1>2, <1>3, <1>4 DEF MatchInv

LEMMA SkipFieldKeeps == MatchInv /\ SkipField => MatchInv'
<1> SUFFICES ASSUME MatchInv, SkipField PROVE MatchInv'
  OBVIOUS
<1>1. /\ stage = "hash" /\ cursor <= Len(new) /\ cursor \notin Carried(new)
      /\ cursor' = cursor + 1 /\ old' = old /\ new' = new /\ oldTaken' = oldTaken
      /\ unmatched' = unmatched /\ transfer' = transfer /\ exact' = exact
      /\ shaped' = shaped /\ resized' = resized /\ fresh' = fresh /\ stage' = stage
  BY DEF SkipField
<1>2. MatchTypeOK'
  BY <1>1, PlanIndices DEF MatchInv, MatchTypeOK
<1>3. Carried(new) \cap 1..(cursor' - 1) = Carried(new) \cap 1..(cursor - 1)
  BY <1>1, PlanIndices DEF MatchInv, MatchTypeOK
<1>4. Progress'
  BY <1>1, <1>3 DEF MatchInv, Progress, NewTaken, Carried
<1>5. Taking' /\ TransferInjective' /\ ByContent' /\ Stable' /\ Exhausted'
  BY <1>1 DEF MatchInv, Taking, TransferInjective, ByContent, Stable, Exhausted, SameHash, Carried
<1> QED BY <1>2, <1>4, <1>5 DEF MatchInv

LEMMA MatchHashKeeps == MatchInv /\ MatchHash => MatchInv'
<1> SUFFICES ASSUME MatchInv, MatchHash PROVE MatchInv'
  OBVIOUS
<1>1. /\ stage = "hash" /\ cursor <= Len(new) /\ cursor \in Carried(new)
      /\ exact' = exact + 1 /\ cursor' = cursor + 1
      /\ old' = old /\ new' = new /\ unmatched' = unmatched /\ shaped' = shaped
      /\ fresh' = fresh /\ stage' = stage
  BY DEF MatchHash
<1>2. PICK o \in Exact(cursor) : Give(o, cursor)
  BY DEF MatchHash
<1>3. /\ oldTaken' = oldTaken \cup {o} /\ transfer' = transfer \cup {<<o, cursor>>}
      /\ resized' = resized + Resizes(o, cursor)
  BY <1>2 DEF Give
<1>4. o \in Carried(old) /\ o \notin oldTaken /\ SameHash(o, cursor)
  BY <1>2 DEF Exact
<1>5. cursor \in Nat /\ cursor \notin NewTaken /\ cursor \notin unmatched
  BY <1>1 DEF MatchInv, MatchTypeOK, Progress
<1>6. Taking' /\ TransferInjective' /\ NewTaken' = NewTaken \cup {cursor}
  BY <1>2, <1>4, <1>5, GiveInjective DEF MatchInv
<1>7. MatchTypeOK'
  <2>1. /\ Len(new) \in Nat /\ DOMAIN new = 1..Len(new) /\ o \in DOMAIN old
    BY <1>4, PlanIndices DEF MatchInv, MatchTypeOK
  <2>2. cursor' \in 1..(Len(new') + 1)
    BY <1>1, <2>1 DEF MatchInv, MatchTypeOK
  <2>3. /\ oldTaken' \subseteq DOMAIN old'
        /\ transfer' \subseteq (DOMAIN old') \X (DOMAIN new')
    BY <1>1, <1>3, <2>1 DEF MatchInv, MatchTypeOK
  <2>4. exact' \in Nat /\ resized' \in Nat
    BY <1>1, <1>3, ResizesType DEF MatchInv, MatchTypeOK
  <2> QED BY <1>1, <2>2, <2>3, <2>4 DEF MatchInv, MatchTypeOK
<1>8. Progress'
  <2>1. Carried(new) \cap 1..(cursor' - 1) = (Carried(new) \cap 1..(cursor - 1)) \cup {cursor}
    BY <1>1, PlanIndices DEF MatchInv, MatchTypeOK
  <2>2. Carried(new') = Carried(new)
    BY <1>1
  <2> QED BY <1>1, <1>5, <1>6, <2>1, <2>2 DEF MatchInv, Progress
<1>9. ByContent'
  <2>1. Carried(old') = Carried(old) /\ \A a, b : SameHash(a, b)' <=> SameHash(a, b)
    BY <1>1 DEF SameHash
  <2>2. \A p \in transfer' : p[2] \notin unmatched' => SameHash(p[1], p[2])'
    BY <1>1, <1>3, <1>4, <2>1 DEF MatchInv, ByContent
  <2> QED BY <1>1, <1>3, <2>1, <2>2 DEF MatchInv, ByContent
<1>10. Stable' /\ Exhausted'
  BY <1>1 DEF Stable, Exhausted
<1> QED BY <1>6, <1>7, <1>8, <1>9, <1>10 DEF MatchInv

LEMMA LeaveUnmatchedKeeps == MatchInv /\ LeaveUnmatched => MatchInv'
<1> SUFFICES ASSUME MatchInv, LeaveUnmatched PROVE MatchInv'
  OBVIOUS
<1>1. /\ stage = "hash" /\ cursor <= Len(new) /\ cursor \in Carried(new)
      /\ Exact(cursor) = {} /\ unmatched' = unmatched \cup {cursor}
      /\ cursor' = cursor + 1 /\ old' = old /\ new' = new /\ oldTaken' = oldTaken
      /\ transfer' = transfer /\ exact' = exact /\ shaped' = shaped
      /\ resized' = resized /\ fresh' = fresh /\ stage' = stage
  BY DEF LeaveUnmatched
<1>2. /\ cursor \in Nat /\ cursor \notin NewTaken /\ NewTaken' = NewTaken
      /\ Carried(old') = Carried(old) /\ Carried(new') = Carried(new)
      /\ \A a, b : SameHash(a, b)' <=> SameHash(a, b)
  BY <1>1 DEF MatchInv, MatchTypeOK, Progress, NewTaken, SameHash
<1>3. MatchTypeOK'
  BY <1>1, PlanIndices DEF MatchInv, MatchTypeOK
<1>4. Progress'
  <2>1. Carried(new) \cap 1..(cursor' - 1) = (Carried(new) \cap 1..(cursor - 1)) \cup {cursor}
    BY <1>1, PlanIndices DEF MatchInv, MatchTypeOK
  <2> QED BY <1>1, <1>2, <2>1 DEF MatchInv, Progress
<1>5. ByContent'
  <2>1. ASSUME NEW o \in Carried(old), SameHash(o, cursor)
        PROVE  \E p \in transfer : p[1] = o /\ SameHash(o, p[2])
    <3>1. o \in oldTaken
      BY <1>1, <2>1 DEF Exact
    <3>2. PICK p \in transfer : p[1] = o
      BY <3>1 DEF MatchInv, Taking
    <3>3. p[2] \notin unmatched
      BY <1>1 DEF MatchInv, Progress, NewTaken
    <3> QED BY <3>2, <3>3 DEF MatchInv, ByContent
  <2> QED BY <1>1, <1>2, <2>1 DEF MatchInv, ByContent
<1>6. Taking' /\ TransferInjective' /\ Stable' /\ Exhausted'
  BY <1>1 DEF MatchInv, Taking, TransferInjective, Stable, Exhausted
<1> QED BY <1>3, <1>4, <1>5, <1>6 DEF MatchInv

LEMMA BeginShapesKeeps == MatchInv /\ BeginShapes => MatchInv'
<1> SUFFICES ASSUME MatchInv, BeginShapes PROVE MatchInv'
  OBVIOUS
<1>1. /\ stage = "hash" /\ cursor > Len(new) /\ stage' = "shape"
      /\ cursor' = cursor /\ old' = old /\ new' = new /\ oldTaken' = oldTaken
      /\ unmatched' = unmatched /\ transfer' = transfer /\ exact' = exact
      /\ shaped' = shaped /\ resized' = resized /\ fresh' = fresh
  BY DEF BeginShapes
<1>2. Progress'
  <2>1. Carried(new) \cap 1..(cursor - 1) = Carried(new)
    BY <1>1, PlanIndices DEF MatchInv, MatchTypeOK
  <2> QED BY <1>1, <2>1 DEF MatchInv, Progress, NewTaken, Carried
<1>3. Stable'
  <2> SUFFICES ASSUME NEW o \in Carried(old), NEW n \in unmatched, Admissible(o, n)
               PROVE  <<o, n>> \in Candidates
    BY <1>1 DEF Stable, Admissible, Candidates, SameShape, Carried, NewTaken
  <2>1. n \notin NewTaken
    BY <1>1 DEF MatchInv, Progress
  <2>2. o \notin oldTaken
    <3>1. \A p \in transfer : p[2] \notin unmatched
      BY <1>1 DEF MatchInv, Progress, NewTaken
    <3> QED BY <3>1 DEF Admissible, MatchInv, Taking
  <2> QED BY <2>1, <2>2 DEF Candidates, Admissible
<1>4. MatchTypeOK' /\ Exhausted'
  BY <1>1 DEF MatchInv, MatchTypeOK, Exhausted
<1>5. Taking' /\ TransferInjective' /\ ByContent'
  BY <1>1 DEF MatchInv, Taking, TransferInjective, ByContent, SameHash, Carried
<1> QED BY <1>2, <1>3, <1>4, <1>5 DEF MatchInv

LEMMA MatchShapeKeeps == MatchInv /\ MatchShape => MatchInv'
<1> SUFFICES ASSUME MatchInv, MatchShape PROVE MatchInv'
  OBVIOUS
<1>1. /\ stage = "shape" /\ shaped' = shaped + 1 /\ old' = old /\ new' = new
      /\ cursor' = cursor /\ unmatched' = unmatched /\ exact' = exact
      /\ fresh' = fresh /\ stage' = stage
  BY DEF MatchShape
<1>2. PICK c \in Candidates : (\A q \in Candidates : ~Before(q, c)) /\ Give(c[1], c[2])
  BY DEF MatchShape
<1> DEFINE o == c[1]
           n == c[2]
<1>3. /\ o \in Carried(old) /\ n \in unmatched /\ o \notin oldTaken /\ n \notin NewTaken
      /\ c = <<o, n>>
  BY <1>2 DEF Candidates
<1>4. /\ oldTaken' = oldTaken \cup {o} /\ transfer' = transfer \cup {<<o, n>>}
      /\ resized' = resized + Resizes(o, n)
  BY <1>2 DEF Give
<1>5. Taking' /\ TransferInjective' /\ NewTaken' = NewTaken \cup {n}
  BY <1>2, <1>3, GiveInjective DEF MatchInv
<1>6. /\ Carried(old') = Carried(old) /\ Carried(new') = Carried(new)
      /\ \A a, b : SameHash(a, b)' <=> SameHash(a, b)
      /\ \A a, b : SameShape(a, b)' <=> SameShape(a, b)
      /\ \A p, q : Before(p, q)' <=> Before(p, q)
  BY <1>1 DEF SameHash, SameShape, Before, Far
<1> HIDE DEF o, n
<1>7. MatchTypeOK'
  <2>1. o \in DOMAIN old /\ n \in DOMAIN new
    BY <1>3, PlanIndices DEF MatchInv, MatchTypeOK
  <2> QED BY <1>1, <1>4, <2>1, ResizesType DEF MatchInv, MatchTypeOK
<1>8. Progress'
  BY <1>1, <1>3, <1>5, <1>6 DEF MatchInv, Progress
<1>9. ByContent'
  BY <1>1, <1>3, <1>4, <1>6 DEF MatchInv, ByContent
<1>10. Stable'
  <2> SUFFICES ASSUME NEW a \in Carried(old), NEW b \in unmatched, Admissible(a, b)',
                      <<a, b>> \notin Candidates'
               PROVE  \E p \in transfer' : (p[1] = a \/ p[2] = b) /\ ~Before(<<a, b>>, p)
    BY <1>1, <1>6 DEF Stable
  <2>1. Admissible(a, b)
    BY <1>1, <1>4, <1>6 DEF Admissible
  <2>2. CASE <<a, b>> \notin Candidates
    BY <2>1, <2>2, <1>1, <1>4 DEF MatchInv, Stable
  <2>3. CASE <<a, b>> \in Candidates
    <3>1. a \in oldTaken' \/ b \in NewTaken'
      BY <2>1, <1>1, <1>6 DEF Candidates, Admissible
    <3>2. a = o \/ b = n
      BY <3>1, <2>3, <1>4, <1>5 DEF Candidates
    <3>3. ~Before(<<a, b>>, <<o, n>>) /\ <<o, n>> \in transfer'
      BY <2>3, <1>2, <1>3, <1>4
    <3>4. <<o, n>>[1] = o /\ <<o, n>>[2] = n
      OBVIOUS
    <3> QED BY <3>2, <3>3, <3>4
  <2> QED BY <2>2, <2>3
<1>11. Exhausted'
  BY <1>1 DEF Exhausted
<1> QED BY <1>5, <1>7, <1>8, <1>9, <1>10, <1>11 DEF MatchInv

LEMMA FinishKeeps == MatchInv /\ Finish => MatchInv'
<1> SUFFICES ASSUME MatchInv, Finish PROVE MatchInv'
  OBVIOUS
<1>1. /\ stage = "shape" /\ Candidates = {} /\ fresh' = Cardinality(unmatched \ NewTaken)
      /\ stage' = "done" /\ old' = old /\ new' = new /\ cursor' = cursor
      /\ oldTaken' = oldTaken /\ unmatched' = unmatched /\ transfer' = transfer
      /\ exact' = exact /\ shaped' = shaped /\ resized' = resized
  BY DEF Finish
<1>2. fresh' \in Nat
  <2>1. IsFiniteSet(1..Len(new))
    BY FS_Interval, PlanIndices DEF MatchInv, MatchTypeOK
  <2>2. (unmatched \ NewTaken) \subseteq 1..Len(new)
    BY PlanIndices DEF MatchInv, MatchTypeOK
  <2> QED BY <1>1, <2>1, <2>2, FS_Subset, FS_CardinalityType
<1>3. MatchTypeOK'
  BY <1>1, <1>2 DEF MatchInv, MatchTypeOK
<1>4. Progress'
  BY <1>1 DEF MatchInv, Progress, NewTaken, Carried
<1>5. Taking' /\ TransferInjective' /\ ByContent'
  BY <1>1 DEF MatchInv, Taking, TransferInjective, ByContent, SameHash, Carried
<1>6. Candidates' = Candidates
  BY <1>1 DEF Candidates, SameShape, NewTaken, Carried
<1>7. Stable' /\ Exhausted'
  <2>1. \A a, b : Admissible(a, b)' <=> Admissible(a, b)
    BY <1>1 DEF Admissible, SameShape
  <2>2. \A p, q : Before(p, q)' <=> Before(p, q)
    BY <1>1 DEF Before, Far
  <2>3. Carried(old') = Carried(old)
    BY <1>1
  <2> QED BY <1>1, <1>6, <2>1, <2>2, <2>3 DEF MatchInv, Stable, Exhausted
<1> QED BY <1>3, <1>4, <1>5, <1>7 DEF MatchInv

\* Every step of the matching keeps its invariant.
LEMMA MatchStep == MatchInv /\ [MatchNext]_matchVars => MatchInv'
<1> SUFFICES ASSUME MatchInv, [MatchNext]_matchVars PROVE MatchInv'
  OBVIOUS
<1>1. CASE MatchNext
  BY <1>1, SkipFieldKeeps, MatchHashKeeps, LeaveUnmatchedKeeps, BeginShapesKeeps,
     MatchShapeKeeps, FinishKeeps DEF MatchNext
<1>2. CASE UNCHANGED matchVars
  <2>1. /\ old' = old /\ new' = new /\ cursor' = cursor /\ oldTaken' = oldTaken
        /\ unmatched' = unmatched /\ transfer' = transfer /\ exact' = exact
        /\ shaped' = shaped /\ resized' = resized /\ fresh' = fresh /\ stage' = stage
    BY <1>2 DEF matchVars
  <2>2. MatchTypeOK' /\ Taking' /\ TransferInjective' /\ ByContent' /\ Progress'
    BY <2>1
    DEF MatchInv, MatchTypeOK, Taking, TransferInjective, ByContent, Progress, NewTaken,
        SameHash, Carried
  <2>3. Candidates' = Candidates
    BY <2>1 DEF Candidates, SameShape, NewTaken, Carried
  <2>4. \A a, b : Admissible(a, b)' <=> Admissible(a, b)
    BY <2>1 DEF Admissible, SameShape
  <2>5. \A p, q : Before(p, q)' <=> Before(p, q)
    BY <2>1 DEF Before, Far
  <2>6. Carried(old') = Carried(old)
    BY <2>1
  <2>7. Stable' /\ Exhausted'
    BY <2>1, <2>3, <2>4, <2>5, <2>6 DEF MatchInv, Stable, Exhausted
  <2> QED BY <2>2, <2>7 DEF MatchInv
<1> QED BY <1>1, <1>2

(***************************************************************************)
(* The same program again.                                                 *)
(***************************************************************************)

\* Matching a program with itself pairs every field with itself: the first
\* loop leaves nothing to the shapes, and no pair crosses.
Kept ==
  old = new => unmatched = {} /\ fresh = 0 /\ \A p \in transfer : p[1] = p[2]

\* In a program matched with itself, the fields the first loop has passed are
\* the old fields taken, so the field at the cursor is the first free one of its
\* content.
LEMMA FirstFreeIsItself ==
  ASSUME MatchInv, Kept, old = new, stage = "hash", cursor \in Carried(new)
  PROVE  /\ cursor \in Exact(cursor)
         /\ \A o \in Exact(cursor) : o >= cursor
<1>1. oldTaken = Carried(new) \cap 1..(cursor - 1)
  <2>1. {p[1] : p \in transfer} = {p[2] : p \in transfer}
    BY DEF Kept
  <2> QED BY <2>1 DEF MatchInv, Taking, Progress, NewTaken, Kept
<1>2. SameHash(cursor, cursor) /\ Carried(old) = Carried(new)
  BY DEF SameHash
<1>3. cursor \in Nat /\ \A o \in Carried(new) : o \in Nat \ {0}
  BY PlanIndices DEF MatchInv, MatchTypeOK
<1>4. cursor \in Exact(cursor)
  BY <1>1, <1>2, <1>3 DEF Exact
<1>5. \A o \in Exact(cursor) : o >= cursor
  BY <1>1, <1>2, <1>3 DEF Exact
<1> QED BY <1>4, <1>5

LEMMA KeptStep == MatchInv /\ Kept /\ [MatchNext]_matchVars => Kept'
<1> SUFFICES ASSUME MatchInv, Kept, [MatchNext]_matchVars, old' = new'
             PROVE  unmatched' = {} /\ fresh' = 0 /\ \A p \in transfer' : p[1] = p[2]
  BY DEF Kept
<1>1. old' = old /\ new' = new
  BY DEF MatchNext, SkipField, MatchHash, LeaveUnmatched, BeginShapes, MatchShape, Finish, matchVars
<1>2. unmatched = {} /\ fresh = 0 /\ \A p \in transfer : p[1] = p[2]
  BY <1>1 DEF Kept
<1>3. CASE SkipField \/ BeginShapes \/ UNCHANGED matchVars
  BY <1>2, <1>3 DEF SkipField, BeginShapes, matchVars
<1>4. CASE MatchHash
  <2>1. PICK o \in Exact(cursor) : (\A q \in Exact(cursor) : o <= q) /\ Give(o, cursor)
    BY <1>4 DEF MatchHash
  <2>2. o = cursor
    <3>1. o <= cursor /\ o >= cursor
      BY <1>1, <1>4, <2>1, FirstFreeIsItself DEF MatchHash
    <3>2. o \in Nat /\ cursor \in Nat
      BY <2>1, PlanIndices DEF Exact, MatchInv, MatchTypeOK
    <3> QED BY <3>1, <3>2
  <2>3. transfer' = transfer \cup {<<cursor, cursor>>}
    BY <2>1, <2>2 DEF Give
  <2> QED BY <1>2, <1>4, <2>3 DEF MatchHash
<1>5. CASE LeaveUnmatched
  BY <1>1, <1>5, FirstFreeIsItself DEF LeaveUnmatched
<1>6. CASE MatchShape
  BY <1>2, <1>6 DEF MatchShape, Candidates
<1>7. CASE Finish
  <2>1. unmatched \ NewTaken = {}
    BY <1>2
  <2> QED BY <1>2, <1>7, <2>1, FS_EmptySet DEF Finish
<1> QED BY <1>3, <1>4, <1>5, <1>6, <1>7 DEF MatchNext

(***************************************************************************)
(* Theorems.                                                               *)
(***************************************************************************)

\* Every variable of MatchState keeps its type.
THEOREM MatchTypesHold == MatchSpec => []MatchTypeOK
<1>1. MatchInv => MatchTypeOK
  BY DEF MatchInv
<1> QED BY MatchStarts, MatchStep, <1>1, PTL DEF MatchSpec

\* For any two plans, no history is copied to two fields and no field receives
\* two histories.
THEOREM TransferSound == MatchSpec => []TransferInjective
<1>1. MatchInv => TransferInjective
  BY DEF MatchInv
<1> QED BY MatchStarts, MatchStep, <1>1, PTL DEF MatchSpec

\* For any two plans, shape matching never takes an old field away from a new
\* field of the same content that was left without one.
THEOREM ContentPreferred == MatchSpec => []ContentFirst
<1>1. MatchInv => ContentFirst
  <2> SUFFICES ASSUME MatchInv, stage = "done", NEW n \in Carried(new), NEW o \in Carried(old),
                      SameHash(o, n)
               PROVE  \/ \E p \in transfer : p[2] = n /\ SameHash(p[1], n)
                      \/ \E p \in transfer : p[1] = o /\ SameHash(o, p[2])
    BY DEF ContentFirst
  <2>1. CASE n \in unmatched
    BY <2>1 DEF MatchInv, ByContent
  <2>2. CASE n \notin unmatched
    <3>1. n \in NewTaken
      BY <2>2 DEF MatchInv, Progress
    <3>2. PICK p \in transfer : p[2] = n
      BY <3>1 DEF NewTaken
    <3> QED BY <3>2, <2>2 DEF MatchInv, ByContent
  <2> QED BY <2>1, <2>2
<1> QED BY MatchStarts, MatchStep, <1>1, PTL DEF MatchSpec

\* The shape matches are stable for any source offsets, in whatever order the
\* unspecified ties of the sort fall.
THEOREM ShapeMatchesStable == MatchSpec => []NoBlockingPair
<1>1. MatchInv => NoBlockingPair
  BY DEF MatchInv, Stable, Exhausted, NoBlockingPair, Admissible
<1> QED BY MatchStarts, MatchStep, <1>1, PTL DEF MatchSpec

\* Reloading an unchanged program of any size keeps every history where it is,
\* although fields of equal content and equal shape are alike to the matching.
THEOREM SameProgramKeepsState == MatchSpec => []UnchangedKeepsState
<1>1. MatchInit => MatchInv /\ Kept
  BY MatchStarts DEF MatchInit, Kept
<1>2. (MatchInv /\ Kept) /\ [MatchNext]_matchVars => (MatchInv /\ Kept)'
  BY MatchStep, KeptStep
<1>3. MatchInv /\ Kept => UnchangedKeepsState
  <2> SUFFICES ASSUME MatchInv, Kept, stage = "done", old = new
               PROVE  transfer = {<<f, f>> : f \in Carried(new)} /\ fresh = 0
    BY DEF UnchangedKeepsState
  <2>1. Carried(new) = {p[2] : p \in transfer}
    BY DEF MatchInv, Progress, Kept, NewTaken
  <2>2. \A p \in transfer : p = <<p[2], p[2]>>
    BY DEF Kept, MatchInv, MatchTypeOK
  <2>3. transfer = {<<f, f>> : f \in Carried(new)}
    BY <2>1, <2>2
  <2> QED BY <2>3 DEF Kept
<1> QED BY <1>1, <1>2, <1>3, PTL DEF MatchSpec
=============================================================================
