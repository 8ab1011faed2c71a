------------------------------- MODULE Migrate -------------------------------
(***************************************************************************)
(* MatchState of src/runtime/Migrate.cpp: which state field of the program *)
(* that runs gives its history to which field of the program that replaces *)
(* it.  First equal content, in field order; then equal shape, the closest *)
(* source offsets first.                                                   *)
(*                                                                         *)
(* A field is [hash, shape, kind, carried, extent, at]; at is the source   *)
(* offset the caller captured, or Nowhere.  Fields whose offsets tie are   *)
(* left by std::ranges::sort in an unspecified order, so a tie may be      *)
(* taken either way.                                                       *)
(***************************************************************************)
EXTENDS Integers, Sequences, FiniteSets

CONSTANTS
  Fields,   \* the fields a plan may have
  PlanSize, \* bound on the fields of a plan
  Nowhere   \* a field with no source offset

ASSUME MigrateAssumption ==
  /\ PlanSize \in Nat
  /\ \A f \in Fields : /\ f.carried \in BOOLEAN
                       /\ f.extent \in Nat \ {0}
                       /\ f.at \in Nat \cup {Nowhere}

VARIABLES
  old, new,   \* the fields of the two plans
  cursor,     \* the next new field of the first loop
  oldTaken,   \* old fields matched so far
  unmatched,  \* new fields the first loop left
  transfer,   \* StateTransfer::Fields, <<old, new>> pairs
  exact, shaped, resized, fresh, \* StateTransfer::Counts
  stage       \* "hash", "shape", "done"

matchVars == <<old, new, cursor, oldTaken, unmatched, transfer,
               exact, shaped, resized, fresh, stage>>

\* A plan lists a field once: fields differ in content, kind or offset.
Plans ==
  {plan \in UNION {[1..n -> Fields] : n \in 0..PlanSize} :
     \A i, j \in DOMAIN plan : i # j => plan[i] # plan[j]}

\* Fields of the program itself, not of its init loops, that hold history.
Carried(plan) == {f \in DOMAIN plan : plan[f].carried}

SameHash(o, n)  == old[o].hash = new[n].hash /\ old[o].kind = new[n].kind
SameShape(o, n) == old[o].shape = new[n].shape /\ old[o].kind = new[n].kind

\* Mutants: taken fields are offered again; a content is listed once.
ExactEver(n) == {o \in Carried(old) : SameHash(o, n)}
ExactFirst(n) ==
  {o \in Carried(old) \ oldTaken :
     SameHash(o, n) /\ \A q \in Carried(old) : SameHash(q, n) => o <= q}

\* Old fields of the same content not yet taken.
Exact(n) == {o \in Carried(old) \ oldTaken : SameHash(o, n)}

NewTaken == {p[2] : p \in transfer}

Resizes(o, n) == IF old[o].extent # new[n].extent THEN 1 ELSE 0

Give(o, n) ==
  /\ oldTaken' = oldTaken \cup {o}
  /\ transfer' = transfer \cup {<<o, n>>}
  /\ resized' = resized + Resizes(o, n)

\* The first loop, at a field that carries nothing.
SkipField ==
  /\ stage = "hash" /\ cursor <= Len(new) /\ cursor \notin Carried(new)
  /\ cursor' = cursor + 1
  /\ UNCHANGED <<old, new, oldTaken, unmatched, transfer, exact, shaped, resized, fresh, stage>>

MatchHash ==
  /\ stage = "hash" /\ cursor <= Len(new) /\ cursor \in Carried(new)
  /\ \E o \in Exact(cursor) : (\A q \in Exact(cursor) : o <= q) /\ Give(o, cursor)
  /\ exact' = exact + 1
  /\ cursor' = cursor + 1
  /\ UNCHANGED <<old, new, unmatched, shaped, fresh, stage>>

LeaveUnmatched ==
  /\ stage = "hash" /\ cursor <= Len(new) /\ cursor \in Carried(new)
  /\ Exact(cursor) = {}
  /\ unmatched' = unmatched \cup {cursor}
  /\ cursor' = cursor + 1
  /\ UNCHANGED <<old, new, oldTaken, transfer, exact, shaped, resized, fresh, stage>>

BeginShapes ==
  /\ stage = "hash" /\ cursor > Len(new)
  /\ stage' = "shape"
  /\ UNCHANGED <<old, new, cursor, oldTaken, unmatched, transfer, exact, shaped, resized, fresh>>

\* Pairs the second pass may still take, and their order.
Candidates ==
  {p \in Carried(old) \X unmatched :
     /\ SameShape(p[1], p[2])
     /\ p[1] \notin oldTaken /\ p[2] \notin NewTaken
     /\ old[p[1]].at # Nowhere /\ new[p[2]].at # Nowhere}

Distance(a, b) == IF a < b THEN b - a ELSE a - b
Far(p) == Distance(old[p[1]].at, new[p[2]].at)

Before(p, q) ==
  \/ Far(p) < Far(q)
  \/ Far(p) = Far(q) /\ old[p[1]].at < old[q[1]].at
  \/ Far(p) = Far(q) /\ old[p[1]].at = old[q[1]].at /\ new[p[2]].at < new[q[2]].at

\* Mutant: pairs are taken unsorted.
MatchShapeUnsorted ==
  /\ stage = "shape"
  /\ \E p \in Candidates : Give(p[1], p[2])
  /\ shaped' = shaped + 1
  /\ UNCHANGED <<old, new, cursor, unmatched, exact, fresh, stage>>

MatchShape ==
  /\ stage = "shape"
  /\ \E p \in Candidates : /\ \A q \in Candidates : ~Before(q, p)
                           /\ Give(p[1], p[2])
  /\ shaped' = shaped + 1
  /\ UNCHANGED <<old, new, cursor, unmatched, exact, fresh, stage>>

Finish ==
  /\ stage = "shape" /\ Candidates = {}
  /\ fresh' = Cardinality(unmatched \ NewTaken)
  /\ stage' = "done"
  /\ UNCHANGED <<old, new, cursor, oldTaken, unmatched, transfer, exact, shaped, resized>>

MatchInit ==
  /\ old \in Plans /\ new \in Plans
  /\ cursor = 1 /\ oldTaken = {} /\ unmatched = {} /\ transfer = {}
  /\ exact = 0 /\ shaped = 0 /\ resized = 0 /\ fresh = 0
  /\ stage = "hash"

MatchNext ==
  SkipField \/ MatchHash \/ LeaveUnmatched \/ BeginShapes \/ MatchShape \/ Finish

MatchSpec == MatchInit /\ [][MatchNext]_matchVars

(***************************************************************************)
(* Properties.                                                             *)
(***************************************************************************)

MatchTypeOK ==
  /\ old \in Plans /\ new \in Plans
  /\ cursor \in 1..(Len(new) + 1)
  /\ oldTaken \subseteq DOMAIN old /\ unmatched \subseteq DOMAIN new
  /\ transfer \subseteq (DOMAIN old) \X (DOMAIN new)
  /\ exact \in Nat /\ shaped \in Nat /\ resized \in Nat /\ fresh \in Nat
  /\ stage \in {"hash", "shape", "done"}

\* No history is copied twice and no field receives two histories; the same
\* field of the old program never feeds two fields of the new one.
TransferInjective ==
  \A p, q \in transfer : p # q => p[1] # q[1] /\ p[2] # q[2]

\* Content wins over closeness: at the end no old field of some content is
\* given away by shape while a new field of that content received nothing or
\* another content.
ContentFirst ==
  stage = "done" =>
    \A n \in Carried(new), o \in Carried(old) :
      SameHash(o, n) =>
        \/ \E p \in transfer : p[2] = n /\ SameHash(p[1], n)
        \/ \E p \in transfer : p[1] = o /\ SameHash(o, p[2])

\* Among the shape matches no two fields would both rather have each other:
\* no unused or farther partner was passed over for a strictly closer one.
NoBlockingPair ==
  stage = "done" =>
    \A o \in Carried(old), n \in unmatched :
      (/\ SameShape(o, n)
       /\ old[o].at # Nowhere /\ new[n].at # Nowhere
       /\ ~ \E p \in transfer : p[1] = o /\ p[2] \notin unmatched)
      => \E p \in transfer : (p[1] = o \/ p[2] = n) /\ ~Before(<<o, n>>, p)

\* A program compiled again unchanged keeps every field in its place: fields of
\* equal content are not swapped by a reload that changes nothing, and none is
\* dropped.
UnchangedKeepsState ==
  stage = "done" /\ old = new =>
    transfer = {<<f, f>> : f \in Carried(new)} /\ fresh = 0
=============================================================================
