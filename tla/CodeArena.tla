------------------------------ MODULE CodeArena ------------------------------
(***************************************************************************)
(* Executable memory of src/runtime: Executable::Publish carves regions    *)
(* out of one mapping, ~Executable gives them back, NativeCode is shared   *)
(* by reference count between handles and Native instances, and an         *)
(* instance may be executing its code while others publish and retire.     *)
(*                                                                         *)
(* Arena::Free is sorted by offset after every destructor and Publish only *)
(* shrinks or erases an entry, so the vector is the set of its regions and *)
(* the first fit is the lowest one.  The destructor holds the mutex while  *)
(* it merges neighbours; each merge is a step.                             *)
(***************************************************************************)
EXTENDS Integers, FiniteSets

CONSTANTS
  Capacity,   \* bytes of the mapping
  Programs,   \* the code a client may publish
  Words(_),   \* instruction words of a program
  Instances,  \* Native instances
  Handles,    \* shared_ptr<const NativeCode> held outside instances
  None        \* no program

ASSUME ArenaAssumption ==
  /\ Capacity \in Nat \ {0} /\ Capacity % 16 = 0
  /\ \A p \in Programs : Words(p) \in Nat
  /\ None \notin Programs

VARIABLES
  mapped,    \* the arena has its mapping
  free,      \* Arena::Free
  region,    \* the region of each published program
  published, \* programs whose Executable exists
  contents,  \* the program whose words a published region was given
  holds,     \* the program a handle or an instance holds, or None
  executing, \* instances inside Native::Execute
  dying,     \* programs whose last reference is gone, destructor not locked yet
  merging    \* the mutex is held by a destructor that still merges

arenaVars == <<mapped, free, region, published, contents>>
codeVars  == <<arenaVars, holds, executing, dying, merging>>

Holders == Instances \cup Handles

Region == [offset : Nat, size : Nat]
End(r) == r.offset + r.size
Overlap(r, s) == r.offset < End(s) /\ s.offset < End(r)

\* size_bytes rounded up to 16.
Bytes(p) == ((4 * Words(p) + 15) \div 16) * 16

Whole == [offset |-> 0, size |-> Capacity]
FreeNow == IF mapped THEN free ELSE {Whole}

Fits(r, p) == r.size >= Bytes(p)
FirstFit(r, p) ==
  /\ r \in FreeNow /\ Fits(r, p)
  /\ \A s \in FreeNow : Fits(s, p) => r.offset <= s.offset

\* Mutants: the rest keeps the front's offset; is lost; is kept when empty.
CarvedInPlace(r, n) ==
  (FreeNow \ {r}) \cup
    IF r.size = n THEN {} ELSE {[offset |-> r.offset, size |-> r.size - n]}
CarvedWhole(r, n) == FreeNow \ {r}
CarvedEmpty(r, n) == (FreeNow \ {r}) \cup {[offset |-> r.offset + n, size |-> r.size - n]}

\* The front of r is handed out; what is left keeps its place, if anything is.
Carved(r, n) ==
  (FreeNow \ {r}) \cup
    IF r.size = n THEN {} ELSE {[offset |-> r.offset + n, size |-> r.size - n]}

\* The words of p are written over [offset, offset + Bytes(p)).
Written(p, place) ==
  [q \in Programs |->
     IF q = p \/ (q \in published /\ Overlap(region[q], place)) THEN p ELSE contents[q]]

\* NativeCode::Publish: a handle h receives new code for p.
Publish(p, h) ==
  /\ ~merging /\ p \notin published /\ holds[h] = None /\ Words(p) # 0
  /\ \E r \in FreeNow :
       LET place == [offset |-> r.offset, size |-> Bytes(p)] IN
       /\ FirstFit(r, p)
       /\ free' = Carved(r, Bytes(p))
       /\ region' = [region EXCEPT ![p] = place]
       /\ contents' = Written(p, place)
  /\ mapped' = TRUE
  /\ published' = published \cup {p}
  /\ holds' = [holds EXCEPT ![h] = p]
  /\ UNCHANGED <<executing, dying, merging>>

\* "native code arena is full": the mapping, made on first use, stays.
PublishFull(p) ==
  /\ ~merging /\ p \notin published /\ Words(p) # 0
  /\ \A r \in FreeNow : ~Fits(r, p)
  /\ mapped' = TRUE /\ free' = FreeNow
  /\ UNCHANGED <<region, published, contents, holds, executing, dying, merging>>

\* Native::Create and copies of a handle add a reference.
Share(from, to) ==
  /\ holds[from] # None /\ holds[to] = None
  /\ holds' = [holds EXCEPT ![to] = holds[from]]
  /\ UNCHANGED <<arenaVars, executing, dying, merging>>

\* Mutant: references held by instances are not counted.
HandleShares(p, h) == \E g \in Handles \ {h} : holds[g] = p

\* Someone else than h holds p.
Shares(p, h) == \E g \in Holders \ {h} : holds[g] = p

\* A handle is dropped or an instance destroyed, never inside its callback.
\* The last reference starts ~Executable, which has the mutex to wait for.
Drop(h) ==
  LET p == holds[h] IN
  /\ p # None /\ h \notin executing
  /\ holds' = [holds EXCEPT ![h] = None]
  /\ dying' = IF Shares(p, h) THEN dying ELSE dying \cup {p}
  /\ UNCHANGED <<arenaVars, executing, merging>>

\* ~Executable has the mutex: the region is pushed and sorted in.
Release(p) ==
  /\ p \in dying /\ ~merging
  /\ free' = free \cup {region[p]}
  /\ published' = published \ {p}
  /\ dying' = dying \ {p}
  /\ merging' = TRUE
  /\ UNCHANGED <<mapped, region, contents, holds, executing>>

Merged(r, s) == (free \ {r, s}) \cup {[offset |-> r.offset, size |-> r.size + s.size]}

\* One round of the destructor's loop over neighbours.
Merge ==
  /\ merging
  /\ \E r, s \in free : End(r) = s.offset /\ free' = Merged(r, s)
  /\ UNCHANGED <<mapped, region, published, contents, holds, executing, dying, merging>>

Unlock ==
  /\ merging /\ ~ \E r, s \in free : End(r) = s.offset
  /\ merging' = FALSE
  /\ UNCHANGED <<arenaVars, holds, executing, dying>>

BeginExecute(i) ==
  /\ holds[i] # None /\ i \notin executing
  /\ executing' = executing \cup {i}
  /\ UNCHANGED <<arenaVars, holds, dying, merging>>

EndExecute(i) ==
  /\ i \in executing
  /\ executing' = executing \ {i}
  /\ UNCHANGED <<arenaVars, holds, dying, merging>>

CodeInit ==
  /\ mapped = FALSE /\ free = {}
  /\ region = [p \in Programs |-> Whole]
  /\ published = {}
  /\ contents = [p \in Programs |-> p]
  /\ holds = [h \in Holders |-> None]
  /\ executing = {} /\ dying = {} /\ merging = FALSE

CodeNext ==
  \/ \E p \in Programs : PublishFull(p) \/ \E h \in Handles : Publish(p, h)
  \/ \E g, h \in Holders : Share(g, h)
  \/ \E h \in Holders : Drop(h)
  \/ \E p \in Programs : Release(p)
  \/ Merge \/ Unlock
  \/ \E i \in Instances : BeginExecute(i) \/ EndExecute(i)

CodeSpec == CodeInit /\ [][CodeNext]_codeVars

(***************************************************************************)
(* Properties.                                                             *)
(***************************************************************************)

CodeTypeOK ==
  /\ mapped \in BOOLEAN /\ merging \in BOOLEAN
  /\ free \subseteq Region
  /\ region \in [Programs -> Region]
  /\ published \subseteq Programs
  /\ contents \in [Programs -> Programs]
  /\ holds \in [Holders -> Programs \cup {None}]
  /\ executing \subseteq Instances
  /\ dying \subseteq Programs

\* No byte is handed out twice: published regions are apart from each other
\* and from every free one, and free ones from each other.
RegionsDisjoint ==
  /\ \A p, q \in published : p # q => ~Overlap(region[p], region[q])
  /\ \A p \in published, r \in free : ~Overlap(region[p], r)
  /\ \A r, s \in free : r # s => ~Overlap(r, s)

\* Code lives as long as someone holds it, so an instance inside Execute runs
\* the words that were published for it: no other program was written there.
ExecutesItsCode ==
  /\ \A h \in Holders : holds[h] # None => holds[h] \in published \ dying
  /\ \A i \in executing : contents[holds[i]] = holds[i]

\* Nothing leaks and nothing is invented, however publications and retirements
\* interleave: free and published regions tile the mapping.
ArenaTiled ==
  mapped =>
    \A b \in 0..(Capacity - 1) :
      \/ \E r \in free : r.offset <= b /\ b < End(r)
      \/ \E p \in published : region[p].offset <= b /\ b < End(region[p])

\* Outside the destructor no two free regions are neighbours and none is
\* empty, so a program fits whenever the bytes in a row do.
FreeCoalesced ==
  ~merging => \A r, s \in free : r.size > 0 /\ End(r) # s.offset
=============================================================================
