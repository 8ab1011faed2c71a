--------------------------- MODULE CodeArenaProofs ---------------------------
(***************************************************************************)
(* Proofs about CodeArena for every capacity, program and number of        *)
(* holders: types, disjointness of what the arena hands out, and that an   *)
(* executing instance runs the code published for it.                      *)
(***************************************************************************)
EXTENDS CodeArena, TLAPS

\* No region is empty, so that two regions at one place would overlap.
NonEmpty ==
  /\ \A r \in free : r.size > 0
  /\ \A p \in published : region[p].size > 0

\* Before the mapping exists nothing was handed out.
Unmapped == ~mapped => free = {} /\ published = {}

\* Published code is intact, what is held or dying is published, and only a
\* holder executes.
Kept ==
  /\ \A p \in published : contents[p] = p
  /\ dying \subseteq published
  /\ \A h \in Holders : holds[h] # None => holds[h] \in published \ dying
  /\ \A i \in executing : holds[i] # None

ArenaInv == CodeTypeOK /\ NonEmpty /\ Unmapped /\ RegionsDisjoint /\ Kept

(***************************************************************************)
(* Sizes and regions.                                                      *)
(***************************************************************************)

\* A program of at least one word takes a positive number of bytes.
LEMMA BytesPositive ==
  ASSUME NEW p \in Programs
  PROVE  /\ Bytes(p) \in Nat
         /\ Words(p) # 0 => Bytes(p) > 0
BY ArenaAssumption DEF Bytes, ArenaAssumption

\* The mapping is a region that is not empty.
LEMMA WholeRegion == Whole \in Region /\ Whole.size > 0
BY ArenaAssumption DEF Whole, Region, ArenaAssumption

\* What Publish works on: free regions, none empty, apart from each other and
\* from everything published.
LEMMA FreeNowApart ==
  ASSUME ArenaInv
  PROVE  /\ FreeNow \subseteq Region
         /\ \A r \in FreeNow : r.size > 0
         /\ \A r, s \in FreeNow : r # s => ~Overlap(r, s)
         /\ \A p \in published, r \in FreeNow : ~Overlap(region[p], r)
<1>1. CASE mapped
  BY <1>1 DEF FreeNow, ArenaInv, CodeTypeOK, NonEmpty, RegionsDisjoint
<1>2. CASE ~mapped
  BY <1>2, WholeRegion DEF FreeNow, ArenaInv, Unmapped
<1> QED BY <1>1, <1>2 DEF ArenaInv, CodeTypeOK

\* The two parts Publish divides a free region into.
Front(r, n) == [offset |-> r.offset, size |-> n]
Rest(r, n)  == [offset |-> r.offset + n, size |-> r.size - n]

\* Carving the front off a free region leaves the rest apart from it and from
\* everything that was apart from the whole region.
LEMMA CarvedApart ==
  ASSUME NEW r \in Region, NEW n \in Nat, n > 0, r.size >= n
  PROVE  /\ Front(r, n) \in Region /\ Front(r, n).size > 0 /\ Rest(r, n) \in Region
         /\ ~Overlap(Front(r, n), Rest(r, n))
         /\ \A s \in Region : ~Overlap(r, s) =>
              /\ ~Overlap(Front(r, n), s) /\ ~Overlap(s, Front(r, n))
              /\ ~Overlap(Rest(r, n), s) /\ ~Overlap(s, Rest(r, n))
<1>1. /\ r.offset \in Nat /\ r.size \in Nat
      /\ Front(r, n).offset = r.offset /\ Front(r, n).size = n
      /\ Rest(r, n).offset = r.offset + n /\ Rest(r, n).size = r.size - n
  BY DEF Region, Front, Rest
<1>2. Front(r, n) \in Region /\ Rest(r, n) \in Region
  BY DEF Region, Front, Rest
<1>3. ~Overlap(Front(r, n), Rest(r, n))
  BY <1>1 DEF Overlap, End
<1>4. ASSUME NEW s \in Region, ~Overlap(r, s)
      PROVE  /\ ~Overlap(Front(r, n), s) /\ ~Overlap(s, Front(r, n))
             /\ ~Overlap(Rest(r, n), s) /\ ~Overlap(s, Rest(r, n))
  <2>1. s.offset \in Nat /\ s.size \in Nat
    BY DEF Region
  <2> QED BY <1>1, <1>4, <2>1 DEF Overlap, End
<1> QED BY <1>1, <1>2, <1>3, <1>4

\* Merging two neighbours gives a region apart from everything that was apart
\* from both.
LEMMA MergedApart ==
  ASSUME NEW r \in Region, NEW s \in Region, End(r) = s.offset,
         NEW t \in Region, t.size > 0, ~Overlap(r, t), ~Overlap(s, t),
         NEW m, m = [offset |-> r.offset, size |-> r.size + s.size]
  PROVE  m \in Region /\ ~Overlap(m, t) /\ ~Overlap(t, m)
BY DEF Region, Overlap, End

LEMMA OverlapSymmetric ==
  ASSUME NEW r \in Region, NEW s \in Region
  PROVE  Overlap(r, s) <=> Overlap(s, r)
BY DEF Overlap, Region, End

(***************************************************************************)
(* Steps.                                                                  *)
(***************************************************************************)

LEMMA ArenaInit == CodeInit => ArenaInv
<1> SUFFICES ASSUME CodeInit PROVE ArenaInv
  OBVIOUS
<1>1. CodeTypeOK
  BY WholeRegion DEF CodeInit, CodeTypeOK
<1>2. NonEmpty /\ Unmapped /\ RegionsDisjoint /\ Kept
  BY DEF CodeInit, NonEmpty, Unmapped, RegionsDisjoint, Kept
<1> QED BY <1>1, <1>2 DEF ArenaInv

\* Publication hands out the front of one free region.
LEMMA PublishKeeps ==
  ASSUME ArenaInv, NEW p \in Programs, NEW h \in Handles, Publish(p, h)
  PROVE  ArenaInv'
<1>1. PICK r \in FreeNow :
        /\ FirstFit(r, p)
        /\ free' = Carved(r, Bytes(p))
        /\ region' = [region EXCEPT ![p] = Front(r, Bytes(p))]
        /\ contents' = Written(p, Front(r, Bytes(p)))
  BY DEF Publish, Front
<1> DEFINE place == Front(r, Bytes(p))
           rest  == Rest(r, Bytes(p))
<1>2. Bytes(p) \in Nat /\ Bytes(p) > 0
  BY BytesPositive DEF Publish
<1>3. r \in Region /\ r.size >= Bytes(p)
  BY <1>1, FreeNowApart DEF FirstFit, Fits
<1>4. /\ place \in Region /\ place.size > 0 /\ rest \in Region
      /\ ~Overlap(place, rest)
      /\ \A s \in Region : ~Overlap(r, s) =>
           /\ ~Overlap(place, s) /\ ~Overlap(s, place)
           /\ ~Overlap(rest, s) /\ ~Overlap(s, rest)
  BY <1>2, <1>3, CarvedApart
<1>5. /\ p \notin published /\ published' = published \cup {p}
      /\ mapped' /\ holds' = [holds EXCEPT ![h] = p]
      /\ executing' = executing /\ dying' = dying /\ merging' = merging
  BY DEF Publish
<1>6. \A s \in free' : s \in FreeNow \ {r} \/ (s = rest /\ rest.size > 0)
  BY <1>1, <1>2, <1>3 DEF Carved, Rest, Region
<1>7. /\ region' = [region EXCEPT ![p] = place] /\ contents' = Written(p, place)
      /\ region'[p] = place
  BY <1>1 DEF ArenaInv, CodeTypeOK
<1> HIDE DEF place, rest
<1>8. CodeTypeOK'
  <2>1. free' \subseteq Region
    BY <1>4, <1>6, FreeNowApart
  <2>2. region' \in [Programs -> Region]
    BY <1>4, <1>7 DEF ArenaInv, CodeTypeOK
  <2>3. contents' \in [Programs -> Programs]
    BY <1>7 DEF Written, ArenaInv, CodeTypeOK
  <2>4. holds' \in [Holders -> Programs \cup {None}]
    BY <1>5 DEF Holders, ArenaInv, CodeTypeOK
  <2> QED BY <2>1, <2>2, <2>3, <2>4, <1>5 DEF ArenaInv, CodeTypeOK
<1>9. NonEmpty'
  BY <1>4, <1>5, <1>6, <1>7, FreeNowApart DEF NonEmpty, ArenaInv, CodeTypeOK
<1>10. \A q \in published :
         /\ region'[q] = region[q] /\ region[q] \in Region
         /\ ~Overlap(r, region[q]) /\ ~Overlap(region[q], place) /\ ~Overlap(region[q], rest)
  <2> SUFFICES ASSUME NEW q \in published
               PROVE  /\ region'[q] = region[q] /\ region[q] \in Region
                      /\ ~Overlap(r, region[q]) /\ ~Overlap(region[q], place)
                      /\ ~Overlap(region[q], rest)
    OBVIOUS
  <2>1. region[q] \in Region /\ ~Overlap(region[q], r)
    BY FreeNowApart DEF ArenaInv, CodeTypeOK
  <2>2. ~Overlap(r, region[q])
    BY <2>1, <1>3, OverlapSymmetric
  <2>3. region'[q] = region[q]
    BY <1>5, <1>7 DEF ArenaInv, CodeTypeOK
  <2> QED BY <2>1, <2>2, <2>3, <1>4
<1>11. \A q \in published, s \in free' : ~Overlap(region[q], s)
  BY <1>6, <1>10, FreeNowApart
<1>12. \A s \in FreeNow \ {r} :
         /\ s \in Region /\ ~Overlap(place, s) /\ ~Overlap(rest, s) /\ ~Overlap(s, rest)
  BY <1>4, FreeNowApart
<1>13. \A s, t \in free' : s # t => ~Overlap(s, t)
  BY <1>6, <1>12, FreeNowApart
<1>14. \A s \in free' : ~Overlap(place, s)
  BY <1>4, <1>6, <1>12
<1>15. RegionsDisjoint'
  <2>1. \A q, q2 \in published' : q # q2 => ~Overlap(region'[q], region'[q2])
    <3> SUFFICES ASSUME NEW q \in published', NEW q2 \in published', q # q2
                 PROVE  ~Overlap(region'[q], region'[q2])
      OBVIOUS
    <3>1. CASE q \in published /\ q2 \in published
      BY <3>1, <1>10 DEF ArenaInv, RegionsDisjoint
    <3>2. CASE q \in published /\ q2 = p
      BY <3>2, <1>7, <1>10
    <3>3. CASE q = p /\ q2 \in published
      BY <3>3, <1>4, <1>7, <1>10
    <3> QED BY <3>1, <3>2, <3>3, <1>5
  <2>2. \A q \in published', s \in free' : ~Overlap(region'[q], s)
    BY <1>5, <1>7, <1>10, <1>11, <1>14
  <2> QED BY <2>1, <2>2, <1>13 DEF RegionsDisjoint
<1>16. Kept'
  <2>1. \A q \in published' : contents'[q] = q
    BY <1>5, <1>7, <1>10 DEF Written, ArenaInv, CodeTypeOK, Kept
  <2>2. dying' \subseteq published'
    BY <1>5 DEF ArenaInv, Kept
  <2>3. \A g \in Holders : holds'[g] # None => holds'[g] \in published' \ dying'
    BY <1>5 DEF ArenaInv, CodeTypeOK, Kept
  <2>4. \A i \in executing' : holds'[i] # None
    BY <1>5, ArenaAssumption DEF ArenaInv, CodeTypeOK, Kept, Holders, ArenaAssumption
  <2> QED BY <2>1, <2>2, <2>3, <2>4 DEF Kept
<1>17. Unmapped'
  BY <1>5 DEF Unmapped
<1> QED BY <1>8, <1>9, <1>15, <1>16, <1>17 DEF ArenaInv

\* A full arena maps its memory and hands out nothing.
LEMMA PublishFullKeeps ==
  ASSUME ArenaInv, NEW p \in Programs, PublishFull(p)
  PROVE  ArenaInv'
<1>1. /\ mapped' /\ free' = FreeNow /\ region' = region /\ published' = published
      /\ contents' = contents /\ holds' = holds /\ executing' = executing
      /\ dying' = dying /\ merging' = merging
  BY DEF PublishFull
<1>2. CodeTypeOK'
  BY <1>1, FreeNowApart DEF PublishFull, ArenaInv, CodeTypeOK
<1>3. NonEmpty' /\ Unmapped' /\ RegionsDisjoint'
  BY <1>1, FreeNowApart DEF ArenaInv, NonEmpty, Unmapped, RegionsDisjoint
<1>4. Kept'
  BY <1>1 DEF ArenaInv, Kept
<1> QED BY <1>2, <1>3, <1>4 DEF ArenaInv

\* The mutex holder gives the region of dead code back.
LEMMA ReleaseKeeps ==
  ASSUME ArenaInv, NEW p \in Programs, Release(p)
  PROVE  ArenaInv'
<1>1. /\ p \in dying /\ free' = free \cup {region[p]} /\ published' = published \ {p}
      /\ dying' = dying \ {p} /\ merging' /\ mapped' = mapped /\ region' = region
      /\ contents' = contents /\ holds' = holds /\ executing' = executing
  BY DEF Release
<1>2. p \in published /\ region[p] \in Region /\ region[p].size > 0
  BY <1>1 DEF ArenaInv, Kept, CodeTypeOK, NonEmpty
<1>3. CodeTypeOK'
  BY <1>1, <1>2 DEF ArenaInv, CodeTypeOK
<1>4. NonEmpty' /\ Unmapped'
  BY <1>1, <1>2 DEF ArenaInv, NonEmpty, Unmapped
<1>5. \A s \in free : ~Overlap(region[p], s) /\ ~Overlap(s, region[p])
  BY <1>2, OverlapSymmetric DEF ArenaInv, CodeTypeOK, RegionsDisjoint
<1>6. RegionsDisjoint'
  BY <1>1, <1>2, <1>5 DEF ArenaInv, RegionsDisjoint
<1>7. Kept'
  BY <1>1 DEF ArenaInv, Kept
<1> QED BY <1>3, <1>4, <1>6, <1>7 DEF ArenaInv

\* Two neighbours become one region.
LEMMA MergeKeeps ==
  ASSUME ArenaInv, Merge
  PROVE  ArenaInv'
<1>1. PICK r \in free, s \in free : End(r) = s.offset /\ free' = Merged(r, s)
  BY DEF Merge
<1>2. /\ mapped' = mapped /\ region' = region /\ published' = published
      /\ contents' = contents /\ holds' = holds /\ executing' = executing
      /\ dying' = dying /\ merging' = merging
  BY DEF Merge
<1> DEFINE m == [offset |-> r.offset, size |-> r.size + s.size]
<1>3. r \in Region /\ s \in Region /\ m \in Region /\ r.size > 0 /\ s.size > 0 /\ m.size > 0
  BY DEF ArenaInv, CodeTypeOK, NonEmpty, Region
<1>4. \A t \in free' : t = m \/ (t \in free /\ t # r /\ t # s)
  BY <1>1 DEF Merged
<1>5. \A t \in free : t # r /\ t # s => ~Overlap(m, t) /\ ~Overlap(t, m)
  BY <1>1, <1>3, MergedApart DEF ArenaInv, CodeTypeOK, NonEmpty, RegionsDisjoint
<1>6. \A q \in published : ~Overlap(region[q], m)
  <2> SUFFICES ASSUME NEW q \in published PROVE ~Overlap(region[q], m)
    OBVIOUS
  <2>1. region[q] \in Region /\ region[q].size > 0
    BY DEF ArenaInv, CodeTypeOK, NonEmpty
  <2>2. ~Overlap(r, region[q]) /\ ~Overlap(s, region[q])
    BY <1>3, <2>1, OverlapSymmetric DEF ArenaInv, RegionsDisjoint
  <2> QED BY <1>1, <1>3, <2>1, <2>2, MergedApart
<1>7. CodeTypeOK'
  BY <1>2, <1>3, <1>4 DEF ArenaInv, CodeTypeOK
<1>8. NonEmpty' /\ Unmapped' /\ Kept'
  BY <1>2, <1>3, <1>4 DEF ArenaInv, NonEmpty, Unmapped, Kept
<1>9. RegionsDisjoint'
  BY <1>2, <1>4, <1>5, <1>6 DEF ArenaInv, RegionsDisjoint
<1> QED BY <1>7, <1>8, <1>9 DEF ArenaInv

\* Taking, dropping and using references leaves the arena alone.
LEMMA HoldersKeep ==
  ASSUME ArenaInv,
         \/ \E g, h \in Holders : Share(g, h)
         \/ \E h \in Holders : Drop(h)
         \/ Unlock
         \/ \E i \in Instances : BeginExecute(i) \/ EndExecute(i)
  PROVE  ArenaInv'
<1>1. /\ mapped' = mapped /\ free' = free /\ region' = region /\ published' = published
      /\ contents' = contents
  BY DEF Share, Drop, Unlock, BeginExecute, EndExecute, arenaVars
<1>2. CASE \E g, h \in Holders : Share(g, h)
  BY <1>1, <1>2 DEF Share, ArenaInv, CodeTypeOK, NonEmpty, Unmapped, RegionsDisjoint, Kept
<1>3. ASSUME NEW h \in Holders, Drop(h) PROVE ArenaInv'
  <2>1. /\ holds[h] \in Programs /\ holds[h] # None /\ h \notin executing
        /\ holds' = [holds EXCEPT ![h] = None]
        /\ executing' = executing /\ merging' = merging
    BY <1>3 DEF Drop, ArenaInv, CodeTypeOK
  <2>2. \/ dying' = dying
        \/ /\ dying' = dying \cup {holds[h]}
           /\ \A g \in Holders \ {h} : holds[g] # holds[h]
    BY <1>3 DEF Drop, Shares
  <2>3. CodeTypeOK'
    BY <1>1, <2>1, <2>2 DEF ArenaInv, CodeTypeOK
  <2>4. NonEmpty' /\ Unmapped' /\ RegionsDisjoint'
    BY <1>1 DEF ArenaInv, NonEmpty, Unmapped, RegionsDisjoint
  <2>5. Kept'
    BY <1>1, <2>1, <2>2 DEF ArenaInv, CodeTypeOK, Kept, Holders
  <2> QED BY <2>3, <2>4, <2>5 DEF ArenaInv
<1>4. CASE Unlock
  BY <1>1, <1>4 DEF Unlock, ArenaInv, CodeTypeOK, NonEmpty, Unmapped, RegionsDisjoint, Kept
<1>5. CASE \E i \in Instances : BeginExecute(i) \/ EndExecute(i)
  BY <1>1, <1>5
  DEF BeginExecute, EndExecute, ArenaInv, CodeTypeOK, NonEmpty, Unmapped, RegionsDisjoint, Kept
<1> QED BY <1>2, <1>3, <1>4, <1>5

(***************************************************************************)
(* What the arena keeps of its mapping.                                    *)
(***************************************************************************)

Covers(r, b) == r.offset <= b /\ b < End(r)

\* Every byte is free or belongs to published code.
Tiled(fs, ps, at) ==
  \A b \in 0..(Capacity - 1) : (\E r \in fs : Covers(r, b)) \/ (\E p \in ps : Covers(at[p], b))

LEMMA TiledIsArenaTiled == ArenaTiled <=> (mapped => Tiled(free, published, region))
BY DEF ArenaTiled, Tiled, Covers

\* Publication sees all of the mapping, which its first use makes one free region.
LEMMA FreeNowTiled ==
  ASSUME ArenaInv, ArenaTiled
  PROVE  Tiled(FreeNow, published, region)
<1>1. CASE mapped
  BY <1>1, TiledIsArenaTiled DEF FreeNow
<1>2. CASE ~mapped
  <2>1. \A b \in 0..(Capacity - 1) : Covers(Whole, b)
    BY ArenaAssumption DEF ArenaAssumption, Covers, Whole, End
  <2> QED BY <1>2, <2>1 DEF FreeNow, Tiled
<1> QED BY <1>1, <1>2 DEF ArenaInv, CodeTypeOK

LEMMA TiledStep == ArenaInv /\ ArenaTiled /\ [CodeNext]_codeVars => ArenaTiled'
<1> SUFFICES ASSUME ArenaInv, ArenaTiled, [CodeNext]_codeVars PROVE ArenaTiled'
  OBVIOUS
<1> USE DEF Covers
<1>1. ASSUME NEW p \in Programs, NEW h \in Handles, Publish(p, h) PROVE ArenaTiled'
  <2>1. PICK r \in FreeNow :
          /\ FirstFit(r, p)
          /\ free' = Carved(r, Bytes(p))
          /\ region' = [region EXCEPT ![p] = Front(r, Bytes(p))]
    BY <1>1 DEF Publish, Front
  <2>2. p \notin published /\ published' = published \cup {p}
    BY <1>1 DEF Publish
  <2>3. r \in Region /\ Bytes(p) \in Nat /\ r.size >= Bytes(p)
    BY <2>1, BytesPositive, FreeNowApart DEF FirstFit, Fits
  <2>4. region'[p] = Front(r, Bytes(p)) /\ \A q \in published : region'[q] = region[q]
    BY <2>1, <2>2 DEF ArenaInv, CodeTypeOK
  <2>5. ASSUME NEW b \in 0..(Capacity - 1), Covers(r, b)
        PROVE  Covers(Front(r, Bytes(p)), b) \/ \E s \in free' : Covers(s, b)
    <3>1. CASE b < r.offset + Bytes(p)
      BY <2>3, <2>5, <3>1 DEF Front, End, Region
    <3>2. CASE b >= r.offset + Bytes(p)
      <4>1. r.size # Bytes(p) /\ Covers(Rest(r, Bytes(p)), b)
        BY <2>3, <2>5, <3>2, ArenaAssumption DEF Rest, End, Region, ArenaAssumption
      <4>2. Rest(r, Bytes(p)) \in free'
        BY <2>1, <4>1 DEF Carved, Rest
      <4> QED BY <4>1, <4>2
    <3> QED BY <2>3, <3>1, <3>2, ArenaAssumption DEF Region, ArenaAssumption
  <2>6. \A s \in FreeNow : s # r => s \in free'
    BY <2>1 DEF Carved
  <2>7. Tiled(FreeNow, published, region)
    BY FreeNowTiled
  <2>8. Tiled(free', published', region')
    <3> SUFFICES ASSUME NEW b \in 0..(Capacity - 1)
                 PROVE  (\E s \in free' : Covers(s, b)) \/ (\E q \in published' : Covers(region'[q], b))
      BY DEF Tiled
    <3> HIDE DEF Covers
    <3>1. CASE \E s \in FreeNow : Covers(s, b)
      BY <3>1, <2>2, <2>4, <2>5, <2>6
    <3>2. CASE \E q \in published : Covers(region[q], b)
      BY <3>2, <2>2, <2>4
    <3> QED BY <3>1, <3>2, <2>7 DEF Tiled
  <2> QED BY <2>8 DEF ArenaTiled, Tiled, End
<1>2. ASSUME NEW p \in Programs, PublishFull(p) PROVE ArenaTiled'
  <2>1. free' = FreeNow /\ published' = published /\ region' = region
    BY <1>2 DEF PublishFull
  <2> QED BY <2>1, FreeNowTiled DEF ArenaTiled, Tiled, End
<1>3. ASSUME NEW p \in Programs, Release(p) PROVE ArenaTiled'
  <2>1. /\ free' = free \cup {region[p]} /\ published' = published \ {p}
        /\ mapped' = mapped /\ region' = region
    BY <1>3 DEF Release
  <2> QED BY <2>1 DEF ArenaTiled, End
<1>4. CASE Merge
  <2>1. PICK r \in free, s \in free : End(r) = s.offset /\ free' = Merged(r, s)
    BY <1>4 DEF Merge
  <2>2. mapped' = mapped /\ region' = region /\ published' = published
    BY <1>4 DEF Merge
  <2> DEFINE m == [offset |-> r.offset, size |-> r.size + s.size]
  <2>3. r \in Region /\ s \in Region
    BY DEF ArenaInv, CodeTypeOK
  <2>4. \A b \in 0..(Capacity - 1) : Covers(r, b) \/ Covers(s, b) => Covers(m, b)
    BY <2>1, <2>3, ArenaAssumption DEF Region, End, ArenaAssumption
  <2>5. m \in free' /\ \A t \in free : t # r /\ t # s => t \in free'
    BY <2>1 DEF Merged
  <2>6. mapped => Tiled(free', published, region)
    <3> HIDE DEF Covers, m
    <3> QED BY <2>4, <2>5, TiledIsArenaTiled DEF Tiled
  <2> QED BY <2>2, <2>6 DEF ArenaTiled, Tiled, End
<1>5. CASE \/ \E g, h \in Holders : Share(g, h)
           \/ \E h \in Holders : Drop(h)
           \/ Unlock
           \/ \E i \in Instances : BeginExecute(i) \/ EndExecute(i)
           \/ UNCHANGED codeVars
  <2>1. mapped' = mapped /\ region' = region /\ published' = published /\ free' = free
    BY <1>5 DEF Share, Drop, Unlock, BeginExecute, EndExecute, arenaVars, codeVars
  <2> QED BY <2>1 DEF ArenaTiled, End
<1> QED BY <1>1, <1>2, <1>3, <1>4, <1>5 DEF CodeNext

\* The rest of a carved region touches no free region: one that ended at its
\* beginning would have overlapped the region it was carved from.
LEMMA CoalescedStep == ArenaInv /\ FreeCoalesced /\ [CodeNext]_codeVars => FreeCoalesced'
<1> SUFFICES ASSUME ArenaInv, FreeCoalesced, [CodeNext]_codeVars PROVE FreeCoalesced'
  OBVIOUS
<1> DEFINE Separate(fs) == \A r, s \in fs : r.size > 0 /\ End(r) # s.offset
<1>1. ~merging => Separate(FreeNow)
  <2>1. CASE mapped
    BY <2>1 DEF FreeNow, FreeCoalesced
  <2>2. CASE ~mapped
    BY <2>2, ArenaAssumption DEF FreeNow, Whole, End, ArenaAssumption
  <2> QED BY <2>1, <2>2 DEF ArenaInv, CodeTypeOK
<1>2. ASSUME NEW p \in Programs, NEW h \in Handles, Publish(p, h) PROVE FreeCoalesced'
  <2>1. PICK r \in FreeNow : FirstFit(r, p) /\ free' = Carved(r, Bytes(p))
    BY <1>2 DEF Publish
  <2>2. ~merging /\ Bytes(p) \in Nat /\ Bytes(p) > 0
    BY <1>2, BytesPositive DEF Publish
  <2>3. /\ r \in Region /\ r.size >= Bytes(p)
        /\ \A s \in FreeNow : s \in Region /\ s.size > 0
        /\ \A s \in FreeNow : s # r => ~Overlap(r, s)
    BY <2>1, FreeNowApart DEF FirstFit, Fits
  <2> DEFINE rest == Rest(r, Bytes(p))
  <2>4. \A s \in free' : s \in FreeNow \ {r} \/ (s = rest /\ r.size # Bytes(p))
    BY <2>1 DEF Carved, Rest
  <2>5. /\ rest.offset = r.offset + Bytes(p) /\ rest.size = r.size - Bytes(p)
        /\ r.offset \in Nat /\ r.size \in Nat
    BY <2>3 DEF Rest, Region
  <2> HIDE DEF rest
  <2>6. r.size # Bytes(p) => rest.size > 0 /\ End(rest) # rest.offset
    BY <2>2, <2>3, <2>5 DEF End
  <2>7. ASSUME NEW s \in FreeNow \ {r}, r.size # Bytes(p)
        PROVE  End(rest) # s.offset /\ End(s) # rest.offset
    <3>1. End(r) # s.offset /\ End(rest) = End(r)
      BY <1>1, <2>2, <2>5 DEF End
    <3>2. s.offset \in Nat /\ s.size \in Nat /\ s.size > 0 /\ ~Overlap(r, s)
      BY <2>3 DEF Region
    <3>3. End(s) # rest.offset
      BY <2>2, <2>3, <2>5, <2>7, <3>2 DEF Overlap, End
    <3> QED BY <3>1, <3>3
  <2>8. Separate(free')
    <3> SUFFICES ASSUME NEW s \in free', NEW t \in free'
                 PROVE  s.size > 0 /\ End(s) # t.offset
      OBVIOUS
    <3>1. CASE s = rest /\ r.size # Bytes(p)
      BY <3>1, <2>4, <2>6, <2>7
    <3>2. CASE s \in FreeNow \ {r}
      BY <3>2, <2>2, <2>4, <2>7, <1>1
    <3> QED BY <3>1, <3>2, <2>4
  <2> QED BY <2>8 DEF FreeCoalesced, End
<1>3. ASSUME NEW p \in Programs, PublishFull(p) PROVE FreeCoalesced'
  BY <1>3, <1>1 DEF PublishFull, FreeCoalesced, End
<1>4. CASE \/ \E p \in Programs : Release(p)
           \/ Merge
  BY <1>4 DEF Release, Merge, FreeCoalesced
<1>5. CASE Unlock
  BY <1>5 DEF Unlock, arenaVars, FreeCoalesced, ArenaInv, NonEmpty, End
<1>6. CASE \/ \E g, h \in Holders : Share(g, h)
           \/ \E h \in Holders : Drop(h)
           \/ \E i \in Instances : BeginExecute(i) \/ EndExecute(i)
           \/ UNCHANGED codeVars
  <2>1. merging' = merging /\ free' = free
    BY <1>6 DEF Share, Drop, BeginExecute, EndExecute, arenaVars, codeVars
  <2> QED BY <2>1 DEF FreeCoalesced, End
<1> QED BY <1>2, <1>3, <1>4, <1>5, <1>6 DEF CodeNext

(***************************************************************************)
(* Theorems.                                                               *)
(***************************************************************************)

\* Every step of publication, retirement and execution keeps the arena sound.
LEMMA ArenaStep == ArenaInv /\ [CodeNext]_codeVars => ArenaInv'
<1> SUFFICES ASSUME ArenaInv, [CodeNext]_codeVars PROVE ArenaInv'
  OBVIOUS
<1>1. CASE \E p \in Programs : PublishFull(p) \/ \E h \in Handles : Publish(p, h)
  BY <1>1, PublishKeeps, PublishFullKeeps
<1>2. CASE \E p \in Programs : Release(p)
  BY <1>2, ReleaseKeeps
<1>3. CASE Merge
  BY <1>3, MergeKeeps
<1>4. CASE \/ \E g, h \in Holders : Share(g, h)
           \/ \E h \in Holders : Drop(h)
           \/ Unlock
           \/ \E i \in Instances : BeginExecute(i) \/ EndExecute(i)
  BY <1>4, HoldersKeep
<1>5. CASE UNCHANGED codeVars
  BY <1>5 DEF codeVars, arenaVars, ArenaInv, CodeTypeOK, NonEmpty, Unmapped, RegionsDisjoint, Kept
<1> QED BY <1>1, <1>2, <1>3, <1>4, <1>5 DEF CodeNext

\* Every variable keeps its type.
THEOREM CodeTypesHold == CodeSpec => []CodeTypeOK
<1>1. ArenaInv => CodeTypeOK
  BY DEF ArenaInv
<1> QED BY ArenaInit, ArenaStep, <1>1, PTL DEF CodeSpec

\* No byte of the arena is handed out twice, for any capacity, any programs and
\* any interleaving of Publish with the destructors of retired code.
THEOREM ArenaDisjoint == CodeSpec => []RegionsDisjoint
<1>1. ArenaInv => RegionsDisjoint
  BY DEF ArenaInv
<1> QED BY ArenaInit, ArenaStep, <1>1, PTL DEF CodeSpec

\* An instance inside Native::Execute runs the words published for it, whoever
\* publishes and retires meanwhile.
THEOREM ExecutionSafe == CodeSpec => []ExecutesItsCode
<1>1. ArenaInv => ExecutesItsCode
  BY DEF ArenaInv, Kept, ExecutesItsCode, CodeTypeOK, Holders
<1> QED BY ArenaInit, ArenaStep, <1>1, PTL DEF CodeSpec

\* No byte of the mapping is ever lost or invented: in every state, for every
\* interleaving of publications, retirements and merges, the free regions and
\* the published ones cover it (Executable::Publish and ~Executable).
THEOREM ArenaCovers == CodeSpec => []ArenaTiled
<1>1. CodeInit => ArenaTiled
  BY DEF CodeInit, ArenaTiled
<1> QED BY ArenaInit, ArenaStep, TiledStep, <1>1, PTL DEF CodeSpec

\* Whenever the mutex is free no two free regions are neighbours, so the first
\* fit finds a place whenever enough bytes in a row are free (the merging loop
\* of ~Executable).
THEOREM ArenaCoalesced == CodeSpec => []FreeCoalesced
<1>1. CodeInit => FreeCoalesced
  BY DEF CodeInit, FreeCoalesced
<1> QED BY ArenaInit, ArenaStep, CoalescedStep, <1>1, PTL DEF CodeSpec
=============================================================================
