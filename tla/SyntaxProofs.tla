---------------------------- MODULE SyntaxProofs ----------------------------
(***************************************************************************)
(* Error recovery loses nothing, for every text, every grammar table the   *)
(* phrases of the module Grammar may hold and every depth limit: the nodes *)
(* without a parent are at every step what the activations have built, and *)
(* when a parse ends every node but the root has one place in the tree.    *)
(***************************************************************************)
EXTENDS Syntax, SequenceFacts, FiniteSetTheorems

(***************************************************************************)
(* The inductive invariant.                                                *)
(***************************************************************************)

ActivationFields == {"left", "kids", "begin", "base", "frame", "before", "payload", "form", "variants"}

IsActivation(a) ==
  DOMAIN a = ActivationFields /\ a.base \in Nat /\ IsSequence(a.kids)

\* Where the activation above a begins among the orphans.
Reach(a) == a.base + Len(a.kids)

\* What an activation has built lies among the orphans where it says.
Holds(a, o) == \A j \in 1..Len(a.kids) : o[a.base + j] = a.kids[j]

ProgramPhrase == <<Items({"Eof"}, "statement"), Build("Program")>>

\* Only the program is no item of a list, and the activation above it is one.
Grounded(a, n) ==
  /\ n = 1 => a.before = NoItem /\ a.left \in {ProgramPhrase, Tail(ProgramPhrase)}
  /\ n = 2 => a.before # NoItem

\* The activations of s divide the first m of the orphans o between them, the
\* outer ones first.
Divided(s, m, o) ==
  /\ IsSequence(s) /\ m \in Nat
  /\ \A k \in 1..Len(s) : IsActivation(s[k]) /\ Grounded(s[k], k) /\ Holds(s[k], o)
  /\ IF Len(s) = 0 THEN m = 0 ELSE s[1].base = 0 /\ Reach(s[Len(s)]) = m
  /\ \A k \in 1..(Len(s) - 1) : Reach(s[k]) = s[k + 1].base
  /\ \A i, k \in 1..Len(s) : i < k => Reach(s[i]) <= s[k].base

IsNode(n) == "kids" \in DOMAIN n /\ IsSequence(n.kids)

\* Orphans o and the children of the nodes r are nodes.
Closed(o, r) ==
  /\ IsSequence(o) /\ IsSequence(r)
  /\ \A i \in 1..Len(o) : o[i] \in 1..Len(r)
  /\ \A p \in 1..Len(r) : IsNode(r[p]) /\ \A j \in 1..Len(r[p].kids) : r[p].kids[j] \in 1..Len(r)

OrphansOnce(o) == \A i, j \in 1..Len(o) : o[i] = o[j] => i = j

OrphansNoChildren(o, r) ==
  \A i \in 1..Len(o), p \in 1..Len(r) : \A j \in 1..Len(r[p].kids) : o[i] # r[p].kids[j]

ChildrenOnce(r) ==
  \A p, q \in 1..Len(r) : \A j \in 1..Len(r[p].kids), i \in 1..Len(r[q].kids) :
    r[p].kids[j] = r[q].kids[i] => p = q /\ j = i

NoneMissing(o, r) ==
  \A n \in 1..Len(r) : \/ \E i \in 1..Len(o) : o[i] = n
                       \/ \E p \in 1..Len(r) : \E j \in 1..Len(r[p].kids) : r[p].kids[j] = n

\* Every node of r is either one of the orphans o or a child of one node.
Placed(o, r) ==
  /\ Closed(o, r) /\ OrphansOnce(o) /\ OrphansNoChildren(o, r) /\ ChildrenOnce(r) /\ NoneMissing(o, r)

SyntaxInv ==
  /\ IsSequence(stack)
  /\ Placed(orphans, refs)
  /\ Parsing => Divided(stack, Len(orphans), orphans)
  /\ Parsed => orphans = <<Root>>

(***************************************************************************)
(* Stacks of activations.                                                  *)
(***************************************************************************)

LEMMA EmptyDivided == ASSUME NEW o PROVE Divided(<<>>, 0, o)
BY ShortSequences DEF Divided

\* The activations below one of them divide what lies before its orphans.
LEMMA CutDivided ==
  ASSUME NEW s, NEW m, NEW o, Divided(s, m, o), NEW i \in 1..Len(s)
  PROVE  /\ Divided(SubSeq(s, 1, i - 1), s[i].base, o)
         /\ Len(SubSeq(s, 1, i - 1)) = i - 1
         /\ s[i].base \in Nat /\ s[i].base <= m
<1> DEFINE t == SubSeq(s, 1, i - 1)
<1>1. Len(s) \in Nat /\ m \in Nat /\ IsSequence(s)
  BY AnySeq DEF Divided
<1>2. i - 1 \in 0..Len(s)
  BY <1>1
<1>3. IsSequence(t) /\ Len(t) = i - 1 /\ \A k \in 1..(i - 1) : t[k] = s[k]
  BY <1>1, <1>2, FirstOf
<1> HIDE DEF t
<1>4. \A k \in 1..Len(s) : s[k].base \in Nat /\ Len(s[k].kids) \in Nat /\ Reach(s[k]) \in Nat
                           /\ s[k].base <= Reach(s[k])
  BY AnySeq DEF Divided, IsActivation, Reach
<1>5. s[i].base <= m
  <2>1. CASE i = Len(s)
    BY <1>4, <1>1, <2>1 DEF Divided
  <2>2. CASE i < Len(s)
    <3>1. Len(s) \in 1..Len(s) /\ Reach(s[i]) <= s[Len(s)].base /\ Reach(s[Len(s)]) = m
      BY <1>1, <2>2 DEF Divided
    <3> QED BY <3>1, <1>4, <1>1
  <2> QED BY <2>1, <2>2, <1>1
<1>6. Divided(t, s[i].base, o)
  <2>1. \A k \in 1..Len(t) : k \in 1..Len(s) /\ t[k] = s[k]
    BY <1>1, <1>3
  <2>2. \A k \in 1..Len(t) : IsActivation(t[k]) /\ Grounded(t[k], k) /\ Holds(t[k], o)
    BY <2>1 DEF Divided
  <2>3. IF Len(t) = 0 THEN s[i].base = 0 ELSE t[1].base = 0 /\ Reach(t[Len(t)]) = s[i].base
    <3>1. CASE i = 1
      BY <3>1, <1>1, <1>3 DEF Divided
    <3>2. CASE i > 1
      <4>1. Len(t) = i - 1 /\ i - 1 \in 1..(Len(s) - 1) /\ 1 \in 1..Len(t) /\ i - 1 \in 1..Len(t) /\ i - 1 + 1 = i
        BY <3>2, <1>1, <1>3
      <4>2. Reach(s[i - 1]) = s[i].base /\ s[1].base = 0
        BY <4>1, <1>1 DEF Divided
      <4> QED BY <4>1, <4>2, <2>1, <1>1
    <3> QED BY <3>1, <3>2, <1>1
  <2>4. \A k \in 1..(Len(t) - 1) : Reach(t[k]) = t[k + 1].base
    <3>1. \A k \in 1..(Len(t) - 1) : k \in 1..(Len(s) - 1) /\ k \in 1..Len(t) /\ k + 1 \in 1..Len(t)
      BY <1>1, <1>3
    <3> QED BY <3>1, <2>1 DEF Divided
  <2>5. \A j, k \in 1..Len(t) : j < k => Reach(t[j]) <= t[k].base
    BY <2>1 DEF Divided
  <2> QED BY <1>3, <1>4, <2>2, <2>3, <2>4, <2>5 DEF Divided
<1> QED BY <1>3, <1>4, <1>5, <1>6 DEF t

\* An activation that holds the next orphans goes on top.
LEMMA PushDivided ==
  ASSUME NEW s, NEW m, NEW o, Divided(s, m, o),
         NEW a, IsActivation(a), Grounded(a, Len(s) + 1), Holds(a, o), a.base = m
  PROVE  Divided(Append(s, a), Reach(a), o)
<1> DEFINE t == Append(s, a)
<1>1. Len(s) \in Nat /\ m \in Nat /\ IsSequence(s)
  BY AnySeq DEF Divided
<1>2. /\ IsSequence(t)
      /\ Len(t) = Len(s) + 1
      /\ \A k \in 1..Len(s) : t[k] = s[k]
      /\ t[Len(s) + 1] = a
  BY <1>1, Appended
<1> HIDE DEF t
<1>3. /\ Len(a.kids) \in Nat /\ Reach(a) \in Nat
      /\ \A k \in 1..Len(s) : Reach(s[k]) \in Nat /\ s[k].base \in Nat /\ s[k].base <= Reach(s[k])
  BY AnySeq DEF Divided, IsActivation, Reach
<1>4. \A k \in 1..Len(t) : (k \in 1..Len(s) /\ t[k] = s[k]) \/ (k = Len(s) + 1 /\ t[k] = a)
  BY <1>1, <1>2
<1>5. \A k \in 1..Len(t) : IsActivation(t[k]) /\ Grounded(t[k], k) /\ Holds(t[k], o)
  BY <1>4 DEF Divided
<1>6. t[1].base = 0 /\ Reach(t[Len(t)]) = Reach(a) /\ Len(t) # 0
  <2>1. CASE Len(s) = 0
    BY <2>1, <1>1, <1>2 DEF Divided
  <2>2. CASE Len(s) > 0
    BY <2>2, <1>1, <1>2 DEF Divided
  <2> QED BY <2>1, <2>2, <1>1
<1>7. \A k \in 1..(Len(t) - 1) : Reach(t[k]) = t[k + 1].base
  <2> SUFFICES ASSUME NEW k \in 1..(Len(t) - 1) PROVE Reach(t[k]) = t[k + 1].base
    OBVIOUS
  <2>1. k \in 1..Len(s)
    BY <1>1, <1>2
  <2>2. CASE k = Len(s)
    BY <2>1, <2>2, <1>1, <1>2 DEF Divided
  <2>3. CASE k < Len(s)
    BY <2>1, <2>3, <1>1, <1>2 DEF Divided
  <2> QED BY <2>1, <2>2, <2>3, <1>1
<1>8. \A i, k \in 1..Len(t) : i < k => Reach(t[i]) <= t[k].base
  <2> SUFFICES ASSUME NEW i \in 1..Len(t), NEW k \in 1..Len(t), i < k PROVE Reach(t[i]) <= t[k].base
    OBVIOUS
  <2>1. i \in 1..Len(s) /\ t[i] = s[i]
    BY <1>1, <1>2
  <2>2. CASE k \in 1..Len(s)
    BY <2>1, <2>2, <1>2 DEF Divided
  <2>3. CASE k = Len(s) + 1
    <3>1. Len(s) \in 1..Len(s) /\ Reach(s[Len(s)]) = m /\ t[k].base = m
      BY <2>1, <2>3, <1>1, <1>2 DEF Divided
    <3>2. CASE i = Len(s)
      BY <3>1, <3>2, <2>1, <1>3, <1>1
    <3>3. CASE i < Len(s)
      <4>1. Reach(s[i]) <= s[Len(s)].base
        BY <3>1, <3>3, <2>1 DEF Divided
      <4> QED BY <4>1, <3>1, <2>1, <1>3, <1>1
    <3> QED BY <3>2, <3>3, <2>1, <1>1
  <2> QED BY <2>2, <2>3, <1>4
<1>9. Divided(t, Reach(a), o)
  BY <1>2, <1>3, <1>5, <1>6, <1>7, <1>8 DEF Divided
<1> QED BY <1>9 DEF t

\* What lies behind the orphans that are divided does not matter.
LEMMA SameDivided ==
  ASSUME NEW s, NEW m, NEW o, Divided(s, m, o), NEW p, \A i \in 1..m : p[i] = o[i]
  PROVE  Divided(s, m, p)
<1>1. Len(s) \in Nat /\ m \in Nat
  BY AnySeq DEF Divided
<1>2. ASSUME NEW k \in 1..Len(s) PROVE Holds(s[k], p)
  <2>1. s[k].base \in Nat /\ Len(s[k].kids) \in Nat /\ Reach(s[k]) = s[k].base + Len(s[k].kids) /\ Holds(s[k], o)
    BY <1>1, AnySeq DEF Divided, IsActivation, Reach
  <2>2. Reach(s[k]) <= m
    <3>1. CASE k = Len(s)
      BY <3>1, <1>1, <2>1 DEF Divided
    <3>2. CASE k < Len(s)
      <4>1. /\ Len(s) \in 1..Len(s) /\ Reach(s[k]) <= s[Len(s)].base /\ Reach(s[Len(s)]) = m
            /\ IsActivation(s[Len(s)])
        BY <1>1, <3>2 DEF Divided
      <4>2. s[Len(s)].base <= m
        BY <4>1, AnySeq DEF IsActivation, Reach
      <4> QED BY <4>1, <4>2, <2>1, <1>1 DEF IsActivation
    <3> QED BY <3>1, <3>2, <1>1
  <2>3. \A j \in 1..Len(s[k].kids) : s[k].base + j \in 1..m
    BY <2>1, <2>2, <1>1
  <2> QED BY <2>1, <2>3 DEF Holds
<1> QED BY <1>2 DEF Divided

\* p is the first m of o and the nodes ids.
Follows(p, o, m, ids) ==
  /\ IsSequence(ids) /\ Len(p) = m + Len(ids)
  /\ \A k \in 1..m : p[k] = o[k]
  /\ \A j \in 1..Len(ids) : p[m + j] = ids[j]

\* a is the activation i of s after it received the nodes ids.
Received(a, s, i, ids) ==
  /\ DOMAIN a = ActivationFields /\ a.base = s[i].base /\ Grounded(a, i)
  /\ a.kids = s[i].kids \o ids

\* Everything above the place i of s is dropped, and a is there.
Unwound(s, i, a) == Append(SubSeq(s, 1, i - 1), a)

LEMMA ReceiveDivided ==
  ASSUME NEW s, NEW m, NEW o, Divided(s, m, o), NEW i \in 1..Len(s),
         NEW p, NEW ids, Follows(p, o, Reach(s[i]), ids), NEW a, Received(a, s, i, ids)
  PROVE  Divided(Unwound(s, i, a), Len(p), p) /\ Len(Unwound(s, i, a)) = i
<1> DEFINE t == SubSeq(s, 1, i - 1)
           c == s[i]
<1>1. /\ Divided(t, c.base, o) /\ Len(t) = i - 1 /\ i \in Nat
  <2>1. Divided(t, c.base, o) /\ Len(t) = i - 1
    BY CutDivided
  <2>2. IsSequence(s)
    BY DEF Divided
  <2> QED BY <2>1, <2>2, AnySeq
<1>2. IsActivation(c) /\ Holds(c, o)
  BY DEF Divided
<1>3. /\ c.base \in Nat /\ Len(c.kids) \in Nat /\ Len(ids) \in Nat
      /\ Reach(c) = c.base + Len(c.kids)
      /\ IsSequence(c.kids) /\ IsSequence(ids)
  BY <1>2, AnySeq DEF IsActivation, Reach, Follows
<1>4. /\ \A k \in 1..Reach(c) : p[k] = o[k]
      /\ \A j \in 1..Len(ids) : p[Reach(c) + j] = ids[j]
      /\ Len(p) = Reach(c) + Len(ids)
      /\ DOMAIN a = ActivationFields /\ a.base = c.base /\ a.kids = c.kids \o ids /\ Grounded(a, i)
  BY DEF Follows, Received
<1> HIDE DEF t, c
<1>5. /\ IsSequence(a.kids)
      /\ Len(a.kids) = Len(c.kids) + Len(ids)
      /\ \A j \in 1..Len(c.kids) : a.kids[j] = c.kids[j]
      /\ \A j \in 1..Len(ids) : a.kids[Len(c.kids) + j] = ids[j]
  BY <1>3, <1>4, Concatenated
<1>6. IsActivation(a) /\ Reach(a) = Reach(c) + Len(ids)
  BY <1>3, <1>4, <1>5 DEF IsActivation, Reach
<1>7. Divided(t, c.base, p)
  <2>1. \A k \in 1..c.base : k \in 1..Reach(c)
    BY <1>3
  <2> QED BY <2>1, <1>1, <1>4, SameDivided
<1>8. Holds(a, p)
  <2> SUFFICES ASSUME NEW j \in 1..Len(a.kids) PROVE p[a.base + j] = a.kids[j]
    BY DEF Holds
  <2>1. CASE j \in 1..Len(c.kids)
    <3>1. c.base + j \in 1..Reach(c)
      BY <2>1, <1>3
    <3>2. p[c.base + j] = o[c.base + j]
      BY <3>1, <1>4
    <3> QED BY <3>2, <2>1, <1>2, <1>4, <1>5 DEF Holds
  <2>2. CASE j - Len(c.kids) \in 1..Len(ids)
    <3>1. PICK k \in 1..Len(ids) : k = j - Len(c.kids)
      BY <2>2
    <3>2. Len(c.kids) + k = j /\ c.base + j = Reach(c) + k
      BY <3>1, <1>3, <1>5
    <3> QED BY <3>2, <1>4, <1>5
  <2> QED BY <2>1, <2>2, <1>3, <1>5
<1>9. Len(t) + 1 = i
  BY <1>1
<1>10. Divided(Append(t, a), Len(p), p)
  BY <1>4, <1>6, <1>7, <1>8, <1>9, PushDivided
<1>11. Len(Append(t, a)) = i
  BY <1>1, <1>9, Appended DEF Divided
<1> QED BY <1>10, <1>11 DEF t, c, Unwound

(***************************************************************************)
(* Trees of nodes.                                                         *)
(***************************************************************************)

\* kids are the last of the orphans o.
HeldLast(kids, o) ==
  /\ IsSequence(kids) /\ Len(kids) <= Len(o)
  /\ \A j \in 1..Len(kids) : kids[j] = o[Len(o) - Len(kids) + j]

\* The orphans after a node number id over some of them.
Adopting(o, kids, id) == Append(SubSeq(o, 1, Len(o) - Len(kids)), id)

LEMMA AdoptingFollows ==
  ASSUME NEW o, IsSequence(o), NEW kids, HeldLast(kids, o), NEW id
  PROVE  LET c == Len(o) - Len(kids) IN
         c \in 0..Len(o) /\ IsSequence(Adopting(o, kids, id)) /\ Follows(Adopting(o, kids, id), o, c, <<id>>)
<1> DEFINE c == Len(o) - Len(kids)
           b == SubSeq(o, 1, c)
<1>1. c \in 0..Len(o) /\ c \in Nat
  BY AnySeq DEF HeldLast
<1> HIDE DEF c
<1>2. IsSequence(b) /\ Len(b) = c /\ \A i \in 1..c : b[i] = o[i]
  BY <1>1, FirstOf
<1> HIDE DEF b
<1>3. /\ IsSequence(Append(b, id)) /\ Len(Append(b, id)) = c + 1
      /\ \A i \in 1..c : Append(b, id)[i] = o[i]
      /\ Append(b, id)[c + 1] = id
  BY <1>2, Appended
<1>4. Follows(Append(b, id), o, c, <<id>>)
  BY <1>1, <1>3, ShortSequences DEF Follows
<1> QED BY <1>1, <1>3, <1>4 DEF Adopting, b, c

\* A node over the last orphans takes their place.
LEMMA NodePlaced ==
  ASSUME NEW o, NEW r, Placed(o, r), NEW n, IsNode(n), HeldLast(n.kids, o)
  PROVE  Placed(Adopting(o, n.kids, Len(r) + 1), Append(r, n))
<1> DEFINE c == Len(o) - Len(n.kids)
           p == Adopting(o, n.kids, Len(r) + 1)
           q == Append(r, n)
<1>1. /\ Len(o) \in Nat /\ Len(r) \in Nat /\ Len(n.kids) \in Nat
      /\ IsSequence(o) /\ IsSequence(r)
  BY AnySeq DEF Placed, Closed, IsNode
<1>2. /\ c \in Nat /\ c \in 0..Len(o) /\ c + Len(n.kids) = Len(o)
      /\ \A j \in 1..Len(n.kids) : n.kids[j] = o[c + j]
  <2>1. c \in Nat /\ c \in 0..Len(o) /\ c + Len(n.kids) = Len(o)
    BY <1>1 DEF HeldLast
  <2> QED BY <2>1 DEF HeldLast
<1>3. Follows(p, o, c, <<Len(r) + 1>>) /\ IsSequence(p)
  BY <1>1, AdoptingFollows
<1> HIDE DEF c, p
<1>4. /\ IsSequence(p) /\ Len(p) = c + 1
      /\ \A i \in 1..c : p[i] = o[i]
      /\ p[c + 1] = Len(r) + 1
  BY <1>2, <1>3, ShortSequences DEF Follows
<1>5. /\ IsSequence(q) /\ Len(q) = Len(r) + 1
      /\ \A i \in 1..Len(r) : q[i] = r[i]
      /\ q[Len(r) + 1] = n
  BY <1>1, Appended
<1> HIDE DEF q
<1>6. \A i \in 1..Len(p) : (i \in 1..c /\ i \in 1..Len(o) /\ p[i] = o[i]) \/ (i = c + 1 /\ p[i] = Len(r) + 1)
  BY <1>1, <1>2, <1>4
<1>7. \A i \in 1..Len(q) : (i \in 1..Len(r) /\ q[i] = r[i]) \/ (i = Len(r) + 1 /\ q[i] = n)
  BY <1>1, <1>5
<1>8. \A j \in 1..Len(n.kids) : c + j \in 1..Len(o) /\ n.kids[j] = o[c + j] /\ c + j > c
  BY <1>1, <1>2
<1>9. \A k \in 1..Len(r) : k # Len(r) + 1 /\ k \in 1..Len(q)
  BY <1>1, <1>5
<1>10. \A i \in 1..c : i \in 1..Len(o) /\ c + 1 > i /\ \A j \in 1..Len(n.kids) : i # c + j
  BY <1>1, <1>2, <1>8
<1>11. \A i, j \in 1..Len(n.kids) : c + i = c + j => i = j
  BY <1>1, <1>2
<1>12. Closed(o, r) /\ OrphansOnce(o) /\ OrphansNoChildren(o, r) /\ ChildrenOnce(r) /\ NoneMissing(o, r)
  BY DEF Placed
<1>13. \A k \in 1..Len(q) : \A j \in 1..Len(q[k].kids) : q[k].kids[j] \in 1..Len(r)
  BY <1>7, <1>8, <1>12 DEF Closed
<1>14. Closed(p, q)
  <2>1. Len(r) + 1 \in 1..Len(q)
    BY <1>1, <1>5
  <2>2. \A i \in 1..Len(p) : p[i] \in 1..Len(q)
    BY <2>1, <1>6, <1>9, <1>12 DEF Closed
  <2>3. \A k \in 1..Len(q) : IsNode(q[k])
    BY <1>7, <1>12 DEF Closed
  <2> QED BY <2>2, <2>3, <1>4, <1>5, <1>9, <1>13 DEF Closed
<1>15. OrphansOnce(p)
  <2>1. \A i \in 1..Len(o) : o[i] # Len(r) + 1
    BY <1>9, <1>12 DEF Closed
  <2> QED BY <2>1, <1>6, <1>12 DEF OrphansOnce
<1>16. OrphansNoChildren(p, q)
  <2> SUFFICES ASSUME NEW i \in 1..Len(p), NEW k \in 1..Len(q), NEW j \in 1..Len(q[k].kids),
                      p[i] = q[k].kids[j]
               PROVE  FALSE
    BY DEF OrphansNoChildren
  <2>1. i \in 1..c /\ p[i] = o[i] /\ i \in 1..Len(o)
    BY <1>6, <1>9, <1>13
  <2>2. CASE k \in 1..Len(r) /\ q[k] = r[k]
    BY <2>1, <2>2, <1>12 DEF OrphansNoChildren
  <2>3. CASE q[k] = n
    <3>1. j \in 1..Len(n.kids) /\ q[k].kids[j] = o[c + j] /\ c + j \in 1..Len(o)
      BY <2>3, <1>8
    <3>2. i = c + j
      BY <2>1, <3>1, <1>12 DEF OrphansOnce
    <3> QED BY <2>1, <3>1, <3>2, <1>10
  <2> QED BY <2>2, <2>3, <1>7
<1>17. ChildrenOnce(q)
  <2> SUFFICES ASSUME NEW k \in 1..Len(q), NEW l \in 1..Len(q),
                      NEW j \in 1..Len(q[k].kids), NEW i \in 1..Len(q[l].kids),
                      q[k].kids[j] = q[l].kids[i]
               PROVE  k = l /\ j = i
    BY DEF ChildrenOnce
  <2>1. CASE k \in 1..Len(r) /\ q[k] = r[k] /\ l \in 1..Len(r) /\ q[l] = r[l]
    BY <2>1, <1>12 DEF ChildrenOnce
  <2>2. CASE k \in 1..Len(r) /\ q[k] = r[k] /\ q[l] = n
    <3>1. i \in 1..Len(n.kids) /\ q[l].kids[i] = o[c + i] /\ c + i \in 1..Len(o)
      BY <2>2, <1>8
    <3> QED BY <2>2, <3>1, <1>12 DEF OrphansNoChildren
  <2>3. CASE q[k] = n /\ l \in 1..Len(r) /\ q[l] = r[l]
    <3>1. j \in 1..Len(n.kids) /\ q[k].kids[j] = o[c + j] /\ c + j \in 1..Len(o)
      BY <2>3, <1>8
    <3> QED BY <2>3, <3>1, <1>12 DEF OrphansNoChildren
  <2>4. CASE k = Len(r) + 1 /\ l = Len(r) + 1 /\ q[k] = n /\ q[l] = n
    <3>1. /\ j \in 1..Len(n.kids) /\ q[k].kids[j] = o[c + j] /\ c + j \in 1..Len(o)
          /\ i \in 1..Len(n.kids) /\ q[l].kids[i] = o[c + i] /\ c + i \in 1..Len(o)
      BY <2>4, <1>8
    <3>2. c + i = c + j
      BY <3>1, <1>12 DEF OrphansOnce
    <3> QED BY <2>4, <3>1, <3>2, <1>11
  <2> QED BY <2>1, <2>2, <2>3, <2>4, <1>7
<1>18. NoneMissing(p, q)
  <2> SUFFICES ASSUME NEW k \in 1..Len(q)
               PROVE  \/ \E i \in 1..Len(p) : p[i] = k
                      \/ \E l \in 1..Len(q) : \E j \in 1..Len(q[l].kids) : q[l].kids[j] = k
    BY DEF NoneMissing
  <2>1. c + 1 \in 1..Len(p) /\ \A i \in 1..c : i \in 1..Len(p)
    BY <1>1, <1>2, <1>4
  <2>2. CASE k = Len(r) + 1
    BY <2>1, <2>2, <1>4
  <2>3. CASE \E l \in 1..Len(r) : \E j \in 1..Len(r[l].kids) : r[l].kids[j] = k
    BY <2>3, <1>5, <1>9
  <2>4. CASE \E i \in 1..Len(o) : o[i] = k
    <3>1. PICK i \in 1..Len(o) : o[i] = k
      BY <2>4
    <3>2. CASE i \in 1..c
      BY <3>1, <3>2, <2>1, <1>4
    <3>3. CASE i - c \in 1..Len(n.kids)
      <4>1. n.kids[i - c] = k
        <5>1. c + (i - c) = i
          BY <1>1, <1>2
        <5> QED BY <5>1, <3>1, <3>3, <1>8
      <4>2. Len(r) + 1 \in 1..Len(q)
        BY <1>1, <1>5
      <4> QED BY <4>1, <4>2, <3>3, <1>5
    <3> QED BY <3>2, <3>3, <1>1, <1>2
  <2> QED BY <2>2, <2>3, <2>4, <1>7, <1>12 DEF NoneMissing
<1>19. Placed(p, q)
  BY <1>14, <1>15, <1>16, <1>17, <1>18 DEF Placed
<1> QED BY <1>19 DEF q, p

\* Only the children count.
LEMMA SamePlaced ==
  ASSUME NEW o, NEW r, Placed(o, r), NEW q, IsSequence(q), Len(q) = Len(r),
         \A k \in 1..Len(r) : IsNode(q[k]) /\ q[k].kids = r[k].kids
  PROVE  Placed(o, q)
<1>1. Closed(o, q)
  BY DEF Placed, Closed
<1>2. OrphansNoChildren(o, q)
  BY DEF Placed, OrphansNoChildren
<1>3. ChildrenOnce(q)
  BY DEF Placed, ChildrenOnce
<1>4. NoneMissing(o, q)
  BY DEF Placed, NoneMissing
<1> QED BY <1>1, <1>2, <1>3, <1>4 DEF Placed

(***************************************************************************)
(* What the steps of the parser do to the stack.                           *)
(***************************************************************************)

\* The invariant while a parse runs, with the activation at hand.
LEMMA AtHand ==
  ASSUME SyntaxInv, Parsing
  PROVE  /\ Divided(stack, Len(orphans), orphans) /\ Placed(orphans, refs)
         /\ Len(stack) \in Nat \ {0} /\ Len(orphans) \in Nat /\ Len(refs) \in Nat
         /\ act = stack[Len(stack)] /\ Front(stack) = SubSeq(stack, 1, Len(stack) - 1)
         /\ IsActivation(act) /\ Grounded(act, Len(stack)) /\ Holds(act, orphans)
         /\ Len(act.kids) \in Nat /\ act.base + Len(act.kids) = Len(orphans)
         /\ DOMAIN stack = 1..Len(stack)
<1>1. Divided(stack, Len(orphans), orphans) /\ Placed(orphans, refs)
  BY DEF SyntaxInv
<1>2. /\ Len(orphans) \in Nat /\ Len(refs) \in Nat
      /\ Len(stack) \in Nat /\ DOMAIN stack = 1..Len(stack)
  BY <1>1, AnySeq DEF Placed, Closed, Divided
<1>3. Len(stack) # 0
  BY ShortSequences DEF SyntaxInv, Parsing
<1>4. act = stack[Len(stack)] /\ Front(stack) = SubSeq(stack, 1, Len(stack) - 1)
  BY DEF act, Last, Front
<1>5. Len(stack) \in 1..Len(stack)
  BY <1>2, <1>3
<1>6. IsActivation(act) /\ Grounded(act, Len(stack)) /\ Holds(act, orphans) /\ Reach(act) = Len(orphans)
  BY <1>1, <1>3, <1>4, <1>5 DEF Divided
<1>7. Len(act.kids) \in Nat
  BY <1>6, AnySeq DEF IsActivation
<1> QED BY <1>1, <1>2, <1>3, <1>4, <1>6, <1>7 DEF Reach

\* The program itself only reads a list of statements and builds its node.
LEMMA NotTheProgram ==
  ASSUME SyntaxInv, Parsing, act.left = <<>> \/ sym[1] \notin {"items", "build"}
  PROVE  Len(stack) > 1
<1> SUFFICES ASSUME Len(stack) = 1 PROVE FALSE
  BY AtHand
<1>1. act.left \in {ProgramPhrase, Tail(ProgramPhrase)}
  BY AtHand DEF Grounded
<1>2. ProgramPhrase \in Seq({Items({"Eof"}, "statement"), Build("Program")}) /\ Len(ProgramPhrase) = 2
  BY DEF ProgramPhrase
<1>3. ProgramPhrase # <<>> /\ Tail(ProgramPhrase) # <<>>
  <2>1. ProgramPhrase # <<>> /\ Len(<<>>) = 0
    BY <1>2, ShortSequences
  <2>2. Len(Tail(ProgramPhrase)) = 1
    BY <1>2, <2>1, HeadTailProperties
  <2> QED BY <2>1, <2>2
<1>4. Head(ProgramPhrase)[1] = "items" /\ Head(Tail(ProgramPhrase))[1] = "build"
  BY DEF ProgramPhrase, Items, Build
<1> QED BY <1>1, <1>3, <1>4 DEF sym

\* A parse that goes on.
LEMMA Continues ==
  ASSUME Divided(stack', Len(orphans'), orphans'), stack' # <<>>, Placed(orphans', refs')
  PROVE  SyntaxInv'
<1>1. IsSequence(stack')
  BY DEF Divided
<1>2. Parsing' /\ ~Parsed'
  BY DEF Parsing, Parsed
<1> QED BY <1>1, <1>2 DEF SyntaxInv

\* One activation does not differ from another in what it has built.
Alike(a, b) ==
  /\ IsActivation(b) /\ b.base = a.base /\ b.kids = a.kids /\ b.before = a.before

LEMMA Updated ==
  ASSUME NEW a, IsActivation(a), NEW x, NEW y
  PROVE  /\ Alike(a, a)
         /\ Alike(a, [a EXCEPT !.left = x]) /\ [a EXCEPT !.left = x].left = x
         /\ Alike(a, [a EXCEPT !.form = x]) /\ Alike(a, [a EXCEPT !.payload = x])
         /\ Alike(a, [a EXCEPT !.variants = x])
         /\ Alike(a, [a EXCEPT !.left = x, !.begin = y])
         /\ Alike(a, [a EXCEPT !.payload = x, !.form = y])
BY DEF IsActivation, ActivationFields, Alike

LEMMA AlikeTransitive ==
  ASSUME NEW a, NEW b, NEW c, Alike(a, b), Alike(b, c)
  PROVE  Alike(a, c)
BY DEF Alike

\* The activation at hand may change in all but what it has built.
LEMMA TopAlike ==
  ASSUME SyntaxInv, Parsing, NEW a, Alike(act, a),
         Len(stack) > 1 \/ a.left \in {act.left, Tail(ProgramPhrase)}
  PROVE  /\ Divided(Append(Front(stack), a), Len(orphans), orphans)
         /\ Len(Append(Front(stack), a)) = Len(stack)
<1> DEFINE n == Len(stack)
<1>1. /\ Divided(stack, Len(orphans), orphans) /\ n \in 1..Len(stack) /\ act = stack[n]
      /\ Front(stack) = SubSeq(stack, 1, n - 1)
  BY AtHand
<1>2. IsActivation(a) /\ a.base = act.base /\ a.kids = act.kids /\ Grounded(a, n)
  BY <1>1, AtHand DEF Alike, Grounded
<1>3. Holds(a, orphans) /\ Reach(a) = Len(orphans)
  BY <1>2, AtHand DEF Holds, Reach
<1>4. /\ Divided(SubSeq(stack, 1, n - 1), act.base, orphans)
      /\ Len(SubSeq(stack, 1, n - 1)) = n - 1 /\ n - 1 + 1 = n
  BY <1>1, AtHand, CutDivided
<1>5. Len(Append(SubSeq(stack, 1, n - 1), a)) = n
  BY <1>1, AtHand, Replaced DEF Divided
<1> HIDE DEF n
<1>6. Divided(Append(SubSeq(stack, 1, n - 1), a), Reach(a), orphans)
  BY <1>2, <1>3, <1>4, PushDivided
<1> QED BY <1>1, <1>3, <1>5, <1>6 DEF n

\* The activation at hand proceeds without building anything.
LEMMA GoesKeeps ==
  ASSUME SyntaxInv, Parsing, NEW a, Alike(act, a), Goes(a), orphans' = orphans, Placed(orphans, refs'),
         Len(stack) > 1 \/ a.left \in {act.left, Tail(ProgramPhrase)}
  PROVE  SyntaxInv'
<1>1. Divided(stack', Len(orphans'), orphans') /\ Len(stack') = Len(stack)
  BY TopAlike DEF Goes
<1>2. stack' # <<>>
  BY <1>1, AtHand, ShortSequences
<1> QED BY <1>1, <1>2, Continues

\* A phrase begins above the activation at hand.
LEMMA CallsKeeps ==
  ASSUME SyntaxInv, Parsing, NEW a, Alike(act, a), Len(stack) = 1 => a.left = act.left,
         NEW b, IsActivation(b), b.base = Len(orphans), b.kids = <<>>,
         Len(stack) = 1 => b.before # NoItem,
         stack' = Append(Append(Front(stack), a), b), orphans' = orphans, refs' = refs
  PROVE  SyntaxInv'
<1> DEFINE t == Append(Front(stack), a)
<1>1. Divided(t, Len(orphans), orphans) /\ Len(t) = Len(stack) /\ Len(stack) \in Nat \ {0}
  <2>1. Len(stack) > 1 \/ a.left = act.left
    BY AtHand
  <2>2. Len(stack) \in Nat \ {0}
    BY AtHand
  <2> QED BY <2>1, <2>2, TopAlike
<1> HIDE DEF t
<1>2. Len(b.kids) = 0 /\ Holds(b, orphans) /\ Reach(b) = Len(orphans)
  BY ShortSequences, AtHand DEF Holds, Reach
<1>3. Grounded(b, Len(t) + 1)
  BY <1>1 DEF Grounded
<1>4. Divided(Append(t, b), Len(orphans), orphans)
  BY <1>1, <1>2, <1>3, PushDivided
<1>5. stack' = Append(t, b)
  BY DEF t
<1>6. stack' # <<>>
  <2>1. Len(stack') = Len(stack) + 1
    BY <1>1, <1>5, Appended DEF Divided
  <2> QED BY <2>1, <1>1, ShortSequences
<1>7. Placed(orphans', refs')
  BY AtHand
<1> QED BY <1>4, <1>5, <1>6, <1>7, Continues

\* An operator takes over the operand at hand.
LEMMA OperandTaken ==
  ASSUME SyntaxInv, Parsing, Len(stack) > 1,
         NEW b, IsActivation(b), b.base = act.base, b.kids = act.kids,
         stack' = Append(Append(Front(stack), [act EXCEPT !.kids = <<>>]), b),
         orphans' = orphans, refs' = refs
  PROVE  SyntaxInv'
<1> DEFINE n == Len(stack)
           a == [act EXCEPT !.kids = <<>>]
           t == Append(SubSeq(stack, 1, n - 1), a)
<1>1. Divided(stack, Len(orphans), orphans) /\ n \in 1..Len(stack) /\ act = stack[n]
  BY AtHand
<1>2. /\ DOMAIN a = ActivationFields /\ a.base = act.base /\ a.kids = <<>>
      /\ a.before = act.before /\ a.left = act.left
  BY AtHand DEF IsActivation, ActivationFields
<1>4. IsActivation(a) /\ Len(a.kids) = 0
  BY <1>2, ShortSequences, AtHand DEF IsActivation
<1>5. Grounded(a, n) /\ Holds(a, orphans) /\ Reach(a) = act.base
  BY <1>2, <1>4, AtHand DEF Grounded, Holds, Reach, IsActivation
<1>6. Divided(SubSeq(stack, 1, n - 1), act.base, orphans) /\ Len(SubSeq(stack, 1, n - 1)) = n - 1
  BY <1>1, CutDivided
<1>7. n - 1 + 1 = n /\ n \in Nat
  BY AtHand
<1> HIDE DEF n, a
<1>8. Divided(t, act.base, orphans)
  BY <1>2, <1>4, <1>5, <1>6, <1>7, PushDivided
<1>9. Len(t) = n
  BY <1>6, <1>7, Appended DEF Divided
<1> HIDE DEF t
<1>10. Holds(b, orphans) /\ Reach(b) = Len(orphans)
  BY AtHand DEF Holds, Reach
<1>11. Grounded(b, Len(t) + 1)
  BY <1>9 DEF Grounded, n
<1>12. Divided(Append(t, b), Len(orphans), orphans)
  BY <1>8, <1>10, <1>11, PushDivided
<1>13. stack' = Append(t, b)
  BY AtHand DEF n, t, a
<1>14. stack' # <<>>
  <2>1. Len(stack') = n + 1
    BY <1>8, <1>9, <1>13, Appended DEF Divided
  <2> QED BY <2>1, <1>7, ShortSequences
<1>15. Placed(orphans', refs')
  BY AtHand
<1> QED BY <1>12, <1>13, <1>14, <1>15, Continues

\* A node over the last orphans is the last orphan.
LEMMA NodeMade ==
  ASSUME SyntaxInv, Parsing, NEW label, NEW kids, NEW begin, NEW end, Node(label, kids, begin, end),
         HeldLast(kids, orphans)
  PROVE  /\ Placed(orphans', refs')
         /\ Follows(orphans', orphans, Len(orphans) - Len(kids), <<NewRef>>)
         /\ Len(refs') = NewRef
<1> DEFINE n == [label |-> label, kids |-> kids, begin |-> begin, end |-> end,
                 outerBegin |-> begin, outerEnd |-> end]
<1>1. IsNode(n) /\ n.kids = kids
  BY DEF IsNode, HeldLast
<1>2. refs' = Append(refs, n) /\ orphans' = Adopting(orphans, kids, NewRef)
  BY DEF Node, Adopting
<1> HIDE DEF n
<1>3. Placed(orphans, refs) /\ IsSequence(orphans) /\ IsSequence(refs)
  BY AtHand DEF Placed, Closed
<1>4. Len(refs') = NewRef
  BY <1>2, <1>3, Appended DEF NewRef
<1>5. Placed(orphans', refs')
  BY <1>1, <1>2, <1>3, NodePlaced DEF NewRef
<1>6. Follows(orphans', orphans, Len(orphans) - Len(kids), <<NewRef>>)
  BY <1>2, <1>3, AdoptingFollows
<1> QED BY <1>4, <1>5, <1>6

\* An activation of the stack receives nodes and what was above it is gone.
LEMMA Receives ==
  ASSUME SyntaxInv, Parsing, NEW i \in 1..Len(stack), Placed(orphans', refs'),
         NEW ids, Follows(orphans', orphans, Reach(stack[i]), ids),
         NEW a, Received(a, stack, i, ids), stack' = Unwound(stack, i, a)
  PROVE  SyntaxInv'
<1>1. Divided(stack, Len(orphans), orphans) /\ i # 0
  BY AtHand
<1>2. Divided(stack', Len(orphans'), orphans') /\ Len(stack') = i
  BY <1>1, ReceiveDivided
<1>3. stack' # <<>>
  BY <1>1, <1>2, ShortSequences
<1> QED BY <1>2, <1>3, Continues

\* A leaf is added to what the activation at hand has built.
LEMMA LeafKeeps ==
  ASSUME SyntaxInv, Parsing, Len(stack) > 1, NEW kind, NEW payload, NEW n, TakeLeaf(kind, payload, n)
  PROVE  SyntaxInv'
<1> DEFINE a == [Done(act) EXCEPT !.kids = Append(@, NewRef)]
           i == Len(stack)
<1>1. i \in 1..Len(stack) /\ stack[i] = act /\ i > 1
  BY AtHand
<1>2. PICK label, begin, end : Node(label, <<>>, begin, end)
  BY DEF TakeLeaf
<1>3. HeldLast(<<>>, orphans) /\ Len(<<>>) = 0
  BY ShortSequences, AtHand DEF HeldLast
<1>4. Placed(orphans', refs') /\ Follows(orphans', orphans, Len(orphans), <<NewRef>>)
  <2>1. /\ Placed(orphans', refs')
        /\ Follows(orphans', orphans, Len(orphans) - Len(<<>>), <<NewRef>>)
    BY <1>2, <1>3, NodeMade
  <2> QED BY <2>1, <1>3, AtHand
<1>5. Reach(act) = Len(orphans)
  BY AtHand DEF Reach
<1>6. /\ DOMAIN a = ActivationFields /\ a.base = act.base /\ a.before = act.before
      /\ a.kids = Append(act.kids, NewRef)
  BY AtHand DEF IsActivation, ActivationFields, Done
<1>7. a.kids = act.kids \o <<NewRef>>
  BY <1>6, AppendedIsJoined, AtHand DEF IsActivation
<1>8. Received(a, stack, i, <<NewRef>>)
  <2>1. Grounded(a, i)
    BY <1>1, <1>6, AtHand DEF Grounded
  <2> QED BY <2>1, <1>1, <1>6, <1>7 DEF Received
<1>9. stack' = Unwound(stack, i, a)
  BY AtHand DEF TakeLeaf, Goes, Unwound
<1> HIDE DEF a, i
<1> QED BY <1>1, <1>4, <1>5, <1>8, <1>9, Receives

\* Two activations less.
LEMMA FrontOfFront ==
  ASSUME NEW s, IsSequence(s), Len(s) > 1
  PROVE  Front(Front(s)) = SubSeq(s, 1, Len(s) - 2)
<1> DEFINE n == Len(s)
           f == SubSeq(s, 1, n - 1)
<1>1. n \in Nat /\ n - 1 \in 0..n /\ n - 2 \in 0..n /\ n - 2 \in 0..(n - 1)
  BY AnySeq
<1>2. IsSequence(f) /\ Len(f) = n - 1 /\ \A k \in 1..(n - 1) : f[k] = s[k]
  BY <1>1, FirstOf
<1>3. n - 1 - 1 = n - 2 /\ \A k \in 1..(n - 2) : k \in 1..(n - 1)
  BY <1>1
<1>4. IsSequence(SubSeq(s, 1, n - 2)) /\ Len(SubSeq(s, 1, n - 2)) = n - 2
      /\ \A k \in 1..(n - 2) : SubSeq(s, 1, n - 2)[k] = s[k]
  BY <1>1, FirstOf
<1> HIDE DEF n, f
<1>5. IsSequence(SubSeq(f, 1, n - 2)) /\ Len(SubSeq(f, 1, n - 2)) = n - 2
      /\ \A k \in 1..(n - 2) : SubSeq(f, 1, n - 2)[k] = f[k]
  BY <1>1, <1>2, FirstOf
<1>6. SubSeq(f, 1, n - 2) = SubSeq(s, 1, n - 2)
  BY <1>2, <1>3, <1>4, <1>5, SameSequence
<1>7. Front(s) = f /\ Front(f) = SubSeq(f, 1, n - 2)
  BY <1>2, <1>3 DEF Front, f, n
<1> QED BY <1>6, <1>7 DEF n

\* The activation at hand returns nodes to its caller.
LEMMA ReturnKeeps ==
  ASSUME SyntaxInv, Parsing, Len(stack) > 1, NEW ids, Return(ids), Placed(orphans', refs'),
         Follows(orphans', orphans, act.base, ids)
  PROVE  SyntaxInv'
<1> DEFINE i == Len(stack) - 1
           a == [stack[i] EXCEPT !.kids = @ \o ids]
<1>1. /\ i \in 1..Len(stack) /\ i \in 1..(Len(stack) - 1) /\ i + 1 = Len(stack) /\ i - 1 = Len(stack) - 2
      /\ Divided(stack, Len(orphans), orphans)
  BY AtHand
<1>2. Reach(stack[i]) = act.base
  <2>1. Reach(stack[i]) = stack[i + 1].base
    BY <1>1 DEF Divided
  <2> QED BY <2>1, <1>1, AtHand
<1>3. IsActivation(stack[i]) /\ Grounded(stack[i], i) /\ IsSequence(stack)
  BY <1>1 DEF Divided
<1>4. /\ DOMAIN a = ActivationFields /\ a.base = stack[i].base /\ a.before = stack[i].before
      /\ a.left = stack[i].left /\ a.kids = stack[i].kids \o ids
  BY <1>3 DEF IsActivation, ActivationFields
<1>5. Received(a, stack, i, ids)
  BY <1>3, <1>4 DEF Received, Grounded
<1>6. stack' = Append(Front(Front(stack)), a)
  BY AtHand DEF Return
<1>7. Front(Front(stack)) = SubSeq(stack, 1, i - 1)
  BY <1>1, <1>3, FrontOfFront
<1> HIDE DEF a, i
<1>8. stack' = Unwound(stack, i, a)
  BY <1>6, <1>7 DEF Unwound
<1> QED BY <1>1, <1>2, <1>5, <1>8, Receives

\* Its nodes are among the orphans already.
LEMMA GiveKeeps ==
  ASSUME SyntaxInv, Parsing, Len(stack) > 1, Return(act.kids), orphans' = orphans, refs' = refs
  PROVE  SyntaxInv'
<1>1. Follows(orphans', orphans, act.base, act.kids)
  BY AtHand DEF Follows, Holds, IsActivation
<1> QED BY <1>1, ReturnKeeps, AtHand

\* A node over all the activation at hand has built goes to its caller, or is
\* the root.
LEMMA BuildKeeps ==
  ASSUME SyntaxInv, Parsing, BuildNode, round' = round
  PROVE  SyntaxInv'
<1>1. PICK label, begin, end : Node(label, act.kids, begin, end)
  BY DEF BuildNode
<1>2. HeldLast(act.kids, orphans) /\ Len(orphans) - Len(act.kids) = act.base
  <2>1. Len(orphans) - Len(act.kids) = act.base /\ Len(act.kids) <= Len(orphans)
    BY AtHand DEF IsActivation
  <2> QED BY <2>1, AtHand DEF HeldLast, Holds, IsActivation
<1>3. /\ Placed(orphans', refs') /\ Len(refs') = NewRef
      /\ Follows(orphans', orphans, act.base, <<NewRef>>)
  <2>1. /\ Placed(orphans', refs') /\ Len(refs') = NewRef
        /\ Follows(orphans', orphans, Len(orphans) - Len(act.kids), <<NewRef>>)
    BY <1>1, <1>2, NodeMade
  <2> QED BY <2>1, <1>2
<1>4. Return(<<NewRef>>)
  BY DEF BuildNode
<1>5. CASE Len(stack) > 1
  BY <1>3, <1>4, <1>5, ReturnKeeps
<1>6. CASE Len(stack) = 1
  <2>1. stack' = <<>>
    BY <1>4, <1>6 DEF Return
  <2>2. act.base = 0
    BY <1>6, AtHand DEF Divided
  <2>3. IsSequence(orphans') /\ Len(orphans') = 1 /\ orphans'[1] = NewRef
    <3>1. IsSequence(orphans')
      BY <1>3 DEF Placed, Closed
    <3> QED BY <3>1, <1>3, <2>2, ShortSequences DEF Follows
  <2>4. orphans' = <<NewRef>>
    <3>1. Len(<<NewRef>>) = 1 /\ <<NewRef>>[1] = NewRef /\ IsSequence(<<NewRef>>)
      BY ShortSequences
    <3>2. \A k \in 1..Len(orphans') : orphans'[k] = <<NewRef>>[k]
      BY <2>3, <3>1
    <3> QED BY <2>3, <3>1, <3>2, SameSequence
  <2>5. orphans' = <<Root>>'
    BY <2>4, <1>3 DEF Root
  <2> QED BY <2>1, <2>5, <1>3, ShortSequences DEF SyntaxInv, Parsing, Parsed
<1> QED BY <1>5, <1>6, AtHand

\* A hole adopts what is left of its item.
LEMMA RecoverKeeps ==
  ASSUME SyntaxInv, Parsing, Recover
  PROVE  SyntaxInv'
<1> DEFINE items == {k \in DOMAIN stack : stack[k].before # NoItem}
           item == Max(items)
           i == item - 1
           a == [stack[i] EXCEPT !.kids = Append(@, NewRef)]
<1>1. Len(stack) > 1
  <2>1. act.left = <<>> \/ sym[1] \notin {"items", "build"}
    BY DEF Recover, Stuck, Primary, Doing
  <2> QED BY <2>1, NotTheProgram
<1>2. Divided(stack, Len(orphans), orphans) /\ Len(stack) \in Nat /\ DOMAIN stack = 1..Len(stack)
  BY AtHand
<1>3. item \in items
  <2>1. items \in SUBSET (0..Len(stack))
    BY <1>2
  <2>2. 2 \in items
    <3>1. Grounded(stack[2], 2) /\ 2 \in 1..Len(stack)
      BY <1>1, <1>2 DEF Divided
    <3> QED BY <3>1, <1>2 DEF Grounded
  <2> HIDE DEF items
  <2> QED BY <2>1, <2>2, <1>2, MaxIsGreatest
<1>4. item \in 1..Len(stack) /\ item # 1 /\ item \in Nat
  <2>1. Grounded(stack[1], 1)
    BY <1>1, <1>2 DEF Divided
  <2>2. item \in 1..Len(stack) /\ stack[item].before # NoItem
    BY <1>2, <1>3
  <2> HIDE DEF item
  <2> QED BY <2>1, <2>2, <1>2 DEF Grounded
<1>5. /\ stack' = Append(SubSeq(stack, 1, item - 2), a)
      /\ \E label, begin, end : Node(label, Adopted(item), begin, end)
  BY DEF Recover
<1> HIDE DEF item, items
<1>6. i \in 1..Len(stack) /\ i \in 1..(Len(stack) - 1) /\ i + 1 = item /\ i - 1 = item - 2
  BY <1>2, <1>4
<1>7. stack[item].base \in 0..Len(orphans) /\ Reach(stack[i]) = stack[item].base
  <2>1. stack[item].base \in Nat /\ stack[item].base <= Len(orphans)
    BY <1>2, <1>4, CutDivided
  <2>2. Reach(stack[i]) = stack[i + 1].base
    BY <1>2, <1>6 DEF Divided
  <2> QED BY <2>1, <2>2, <1>6, AtHand
<1>8. HeldLast(Adopted(item), orphans) /\ Len(orphans) - Len(Adopted(item)) = stack[item].base
  <2> DEFINE n == stack[item].base
             kids == SubSeq(orphans, n + 1, Len(orphans))
  <2>1. IsSequence(orphans) /\ n \in 0..Len(orphans) /\ Len(orphans) \in Nat
    BY <1>7, AtHand DEF Placed, Closed
  <2>2. Adopted(item) = kids
    BY DEF Adopted
  <2> HIDE DEF n
  <2>3. IsSequence(kids) /\ Len(kids) = Len(orphans) - n /\ \A k \in 1..(Len(orphans) - n) : kids[k] = orphans[n + k]
    BY <2>1, LastOf
  <2> HIDE DEF kids
  <2>4. Len(orphans) - Len(kids) = n /\ Len(kids) <= Len(orphans)
    BY <2>1, <2>3
  <2> QED BY <2>2, <2>3, <2>4 DEF HeldLast, n
<1>9. Placed(orphans', refs') /\ Follows(orphans', orphans, Reach(stack[i]), <<NewRef>>)
  <2>1. PICK label, begin, end : Node(label, Adopted(item), begin, end)
    BY <1>5
  <2>2. /\ Placed(orphans', refs')
        /\ Follows(orphans', orphans, Len(orphans) - Len(Adopted(item)), <<NewRef>>)
    BY <2>1, <1>8, NodeMade
  <2> QED BY <2>2, <1>7, <1>8
<1>10. IsActivation(stack[i]) /\ Grounded(stack[i], i)
  BY <1>2, <1>6 DEF Divided
<1>11. /\ DOMAIN a = ActivationFields /\ a.base = stack[i].base /\ a.before = stack[i].before
       /\ a.left = stack[i].left /\ a.kids = Append(stack[i].kids, NewRef)
  <2> HIDE DEF i
  <2> QED BY <1>10 DEF IsActivation, ActivationFields
<1>12. Received(a, stack, i, <<NewRef>>)
  <2>1. a.kids = stack[i].kids \o <<NewRef>>
    BY <1>10, <1>11, AppendedIsJoined DEF IsActivation
  <2> HIDE DEF a, i
  <2> QED BY <2>1, <1>10, <1>11 DEF Received, Grounded
<1>13. stack' = Unwound(stack, i, a)
  <2> HIDE DEF a
  <2> QED BY <1>5, <1>6 DEF Unwound
<1> HIDE DEF a, i
<1> QED BY <1>6, <1>9, <1>12, <1>13, Receives

(***************************************************************************)
(* Every step.                                                             *)
(***************************************************************************)

LEMMA NothingBuilt ==
  ASSUME SyntaxInv, Parsing, NoNode
  PROVE  orphans' = orphans /\ refs' = refs /\ Placed(orphans', refs') /\ Placed(orphans, refs')
BY AtHand DEF NoNode

\* Steps that change what the activation at hand has left to read, or remembers.
LEMMA ReadingKeeps ==
  ASSUME SyntaxInv, Parsing,
         \/ Take \/ Accept \/ Choose \/ ParseCases \/ ReadAttribute \/ ReadVariants
         \/ DispatchStatement \/ KeepName \/ MergeClauses \/ CountForeignNames \/ CheckNotEmpty
  PROVE  SyntaxInv'
<1>1. IsActivation(act) /\ IsActivation(Done(act)) /\ Alike(act, Done(act))
  BY AtHand, Updated DEF Done, Alike
<1>2. CASE Take
  <2>1. PICK x, y : Goes([Done(act) EXCEPT !.payload = x, !.form = y])
    BY <1>2 DEF Take
  <2>2. Alike(act, [Done(act) EXCEPT !.payload = x, !.form = y])
    BY <1>1, Updated, AlikeTransitive
  <2>3. Len(stack) > 1
    BY <1>2, NotTheProgram DEF Take, Doing
  <2> QED BY <1>2, <2>1, <2>2, <2>3, NothingBuilt, GoesKeeps DEF Take
<1>3. CASE Accept
  <2>1. PICK x : Goes([act EXCEPT !.left = x])
    BY <1>3 DEF Accept, Done
  <2>2. Len(stack) > 1
    BY <1>3, NotTheProgram DEF Accept, Doing
  <2> QED BY <1>1, <1>3, <2>1, <2>2, Updated, NothingBuilt, GoesKeeps DEF Accept
<1>4. CASE Choose
  <2>1. PICK x : Goes([act EXCEPT !.left = x])
    BY <1>4 DEF Choose
  <2>2. Len(stack) > 1
    BY <1>4, NotTheProgram DEF Choose, Doing
  <2> QED BY <1>1, <1>4, <2>1, <2>2, Updated, NothingBuilt, GoesKeeps DEF Choose
<1>5. CASE ParseCases
  <2>1. PICK x : Goes([act EXCEPT !.left = x])
    BY <1>5 DEF ParseCases, Done
  <2>2. Len(stack) > 1
    BY <1>5, NotTheProgram DEF ParseCases, Doing
  <2> QED BY <1>1, <1>5, <2>1, <2>2, Updated, NothingBuilt, GoesKeeps DEF ParseCases
<1>6. CASE ReadAttribute
  <2>1. PICK x : Goes([Done(act) EXCEPT !.form = x])
    BY <1>6 DEF ReadAttribute
  <2>2. Alike(act, [Done(act) EXCEPT !.form = x])
    BY <1>1, Updated, AlikeTransitive
  <2>3. Len(stack) > 1
    BY <1>6, NotTheProgram DEF ReadAttribute, Doing
  <2> QED BY <1>6, <2>1, <2>2, <2>3, NothingBuilt, GoesKeeps DEF ReadAttribute
<1>7. CASE ReadVariants
  <2>1. PICK x : Goes([Done(act) EXCEPT !.variants = x])
    BY <1>7 DEF ReadVariants
  <2>2. Alike(act, [Done(act) EXCEPT !.variants = x])
    BY <1>1, Updated, AlikeTransitive
  <2>3. Len(stack) > 1
    BY <1>7, NotTheProgram DEF ReadVariants, Doing
  <2> QED BY <1>7, <2>1, <2>2, <2>3, NothingBuilt, GoesKeeps DEF ReadVariants
<1>8. CASE DispatchStatement
  <2>1. PICK x, y : Goes([act EXCEPT !.left = x, !.begin = y])
    BY <1>8 DEF DispatchStatement
  <2>2. Len(stack) > 1
    BY <1>8, NotTheProgram DEF DispatchStatement, Doing
  <2> QED BY <1>1, <1>8, <2>1, <2>2, Updated, NothingBuilt, GoesKeeps DEF DispatchStatement
<1>9. CASE KeepName
  <2>1. PICK x : Goes([Done(act) EXCEPT !.payload = x])
    BY <1>9 DEF KeepName
  <2>2. Alike(act, [Done(act) EXCEPT !.payload = x])
    BY <1>1, Updated, AlikeTransitive
  <2>3. Len(stack) > 1
    BY <1>9, NotTheProgram DEF KeepName, Doing
  <2> QED BY <1>9, <2>1, <2>2, <2>3, NothingBuilt, GoesKeeps DEF KeepName
<1>10. CASE MergeClauses
  <2>1. PICK x : Goes([act EXCEPT !.left = x])
    BY <1>10 DEF MergeClauses, Done
  <2>2. Len(stack) > 1
    BY <1>10, NotTheProgram DEF MergeClauses, Doing
  <2> QED BY <1>1, <1>10, <2>1, <2>2, Updated, NothingBuilt, GoesKeeps DEF MergeClauses
<1>11. CASE CountForeignNames
  <2>1. PICK x : Goes([Done(act) EXCEPT !.form = x])
    BY <1>11 DEF CountForeignNames
  <2>2. Alike(act, [Done(act) EXCEPT !.form = x])
    BY <1>1, Updated, AlikeTransitive
  <2>3. Len(stack) > 1
    BY <1>11, NotTheProgram DEF CountForeignNames, Doing
  <2> QED BY <1>11, <2>1, <2>2, <2>3, NothingBuilt, GoesKeeps DEF CountForeignNames
<1>12. CASE CheckNotEmpty
  <2>1. Goes(Done(act)) /\ orphans' = orphans /\ refs' = refs
    BY <1>12 DEF CheckNotEmpty
  <2>2. Len(stack) > 1
    BY <1>12, NotTheProgram DEF CheckNotEmpty, Doing
  <2> QED BY <1>1, <2>1, <2>2, AtHand, GoesKeeps
<1> QED BY <1>2, <1>3, <1>4, <1>5, <1>6, <1>7, <1>8, <1>9, <1>10, <1>11, <1>12

\* Parentheses change the span of a node.
LEMMA SetOuterKeeps ==
  ASSUME SyntaxInv, Parsing, SetOuter
  PROVE  SyntaxInv'
<1>1. Alike(act, Done(act))
  BY AtHand, Updated DEF Done
<1>2. Len(stack) > 1
  BY NotTheProgram DEF SetOuter, Doing
<1>3. Placed(orphans, refs')
  <2> DEFINE c == act.kids[1]
             r1 == [refs EXCEPT ![c].outerBegin = act.begin]
  <2>1. IsSequence(refs) /\ \A k \in 1..Len(refs) : IsNode(refs[k])
    BY AtHand DEF Placed, Closed
  <2>2. PICK S : refs \in Seq(S)
    BY <2>1 DEF IsSequence
  <2>3. refs' = [refs EXCEPT ![c].outerBegin = act.begin, ![c].outerEnd = lastEnd]
    BY DEF SetOuter
  <2>4. DOMAIN refs' = 1..Len(refs) /\ Len(refs) \in Nat
    BY <2>1, <2>3, AnySeq
  <2>5. refs' = [k \in 1..Len(refs) |-> refs'[k]]
    BY <2>3, <2>4
  <2>6. IsSequence(refs') /\ Len(refs') = Len(refs)
    BY <2>4, <2>5, Tabled
  <2>7. \A k \in 1..Len(refs) : IsNode(refs'[k]) /\ refs'[k].kids = refs[k].kids
    BY <2>1, <2>3, <2>4 DEF IsNode
  <2> QED BY <2>6, <2>7, AtHand, SamePlaced
<1> QED BY <1>1, <1>2, <1>3, GoesKeeps DEF SetOuter

\* Steps that begin a phrase.
LEMMA CallingKeeps ==
  ASSUME SyntaxInv, Parsing, CallPrimary \/ CallExpr \/ Call
  PROVE  SyntaxInv'
<1>1. Alike(act, Done(act))
  BY AtHand, Updated DEF Done
<1>2. Len(stack) > 1
  BY NotTheProgram DEF CallPrimary, CallExpr, Call, Primary, Doing
<1>3. PICK left, frame : Calls(Begun(left, frame, NoItem)) /\ NoNode
  BY DEF CallPrimary, CallExpr, Call
<1> DEFINE b == Begun(left, frame, NoItem)
<1>4. IsActivation(b) /\ b.base = Len(orphans) /\ b.kids = <<>>
  BY AtHand, ShortSequences DEF Begun, Activation, IsActivation, ActivationFields
<1>5. stack' = Append(Append(Front(stack), Done(act)), b)
  BY <1>3 DEF Calls
<1> HIDE DEF b
<1> QED BY <1>1, <1>2, <1>3, <1>4, <1>5, NothingBuilt, AtHand, CallsKeeps

\* The next item of a list, or the end of the list.
LEMMA ParseItemKeeps ==
  ASSUME SyntaxInv, Parsing, ParseItem
  PROVE  SyntaxInv'
<1>1. Alike(act, act) /\ Alike(act, Done(act)) /\ Done(act).left = Tail(act.left)
  BY AtHand, Updated DEF Done
<1>2. CASE Goes(Done(act))
  <2>1. Len(stack) > 1 \/ Done(act).left = Tail(ProgramPhrase)
    <3>1. CASE Len(stack) = 1
      <4>1. act.left \in {ProgramPhrase, Tail(ProgramPhrase)}
        BY <3>1, AtHand DEF Grounded
      <4>2. Head(Tail(ProgramPhrase))[1] = "build"
        BY DEF ProgramPhrase, Build
      <4>3. act.left = ProgramPhrase
        BY <4>1, <4>2 DEF ParseItem, Doing, sym
      <4> QED BY <4>3, <1>1
    <3> QED BY <3>1, AtHand
  <2> QED BY <1>1, <1>2, <2>1, NothingBuilt, GoesKeeps DEF ParseItem
<1>3. CASE stack' = Append(stack, Begun(Phrase[sym[3]], "", <<cur>>))
  <2> DEFINE b == Begun(Phrase[sym[3]], "", <<cur>>)
  <2>1. /\ IsActivation(b) /\ b.base = Len(orphans) /\ b.kids = <<>> /\ b.before # NoItem
    BY AtHand, ShortSequences DEF Begun, Activation, IsActivation, ActivationFields, NoItem
  <2>2. stack' = Append(Append(Front(stack), act), b)
    <3>1. stack = Append(Front(stack), act)
      <4>1. IsSequence(stack) /\ Len(stack) > 0 /\ Len(stack) \in Nat /\ stack[Len(stack)] = act
        BY AtHand DEF Divided
      <4> DEFINE t == Append(SubSeq(stack, 1, Len(stack) - 1), act)
      <4>2. /\ IsSequence(t) /\ Len(t) = Len(stack)
            /\ \A k \in 1..(Len(stack) - 1) : t[k] = stack[k]
            /\ t[Len(stack)] = act
        BY <4>1, Replaced
      <4>3. \A k \in 1..Len(stack) : k \in 1..(Len(stack) - 1) \/ k = Len(stack)
        BY <4>1
      <4>4. t = Append(Front(stack), act)
        BY AtHand
      <4> HIDE DEF t
      <4>5. \A k \in 1..Len(stack) : t[k] = stack[k]
        BY <4>1, <4>2, <4>3
      <4> QED BY <4>1, <4>2, <4>4, <4>5, SameSequence
    <3> QED BY <3>1, <1>3
  <2> HIDE DEF b
  <2> QED BY <1>1, <2>1, <2>2, NothingBuilt, CallsKeeps DEF ParseItem
<1> QED BY <1>2, <1>3 DEF ParseItem

\* Steps that read a leaf.
LEMMA LeavesKeep ==
  ASSUME SyntaxInv, Parsing,
         TakeNamedLeaf \/ TakeNumber \/ TakeSigned \/ TakeName \/ TakeNegated \/ TakePrim
  PROVE  SyntaxInv'
<1>1. PICK kind, payload, n : TakeLeaf(kind, payload, n)
  BY DEF TakeNamedLeaf, TakeNumber, TakeSigned, TakeName, TakeNegated, TakePrim
<1>2. sym[1] \in {"leaf", "primary", "number"}
  BY DEF TakeNamedLeaf, TakeNumber, TakeSigned, TakeName, TakeNegated, TakePrim, Numeric, Primary, Doing
<1>3. Len(stack) > 1
  BY <1>2, NotTheProgram
<1> QED BY <1>1, <1>3, LeafKeeps

\* An operator follows an operand.
LEMMA ApplyOperatorKeeps ==
  ASSUME SyntaxInv, Parsing, ApplyOperator
  PROVE  SyntaxInv'
<1> DEFINE b == Activation(LedPhrase(Peek, sym[3]), act.kids, OperandBegin, act.base, "", NoItem)
<1>1. Len(stack) > 1
  BY NotTheProgram DEF ApplyOperator, Doing
<1>2. IsActivation(b) /\ b.base = act.base /\ b.kids = act.kids
  BY AtHand DEF IsActivation, ActivationFields, Activation
<1>3. stack' = Append(Append(Front(stack), [act EXCEPT !.kids = <<>>]), b) /\ NoNode
  BY DEF ApplyOperator
<1> HIDE DEF b
<1> QED BY <1>1, <1>2, <1>3, NothingBuilt, OperandTaken

\* A phrase ends with what it has built.
LEMMA ReturningKeeps ==
  ASSUME SyntaxInv, Parsing, EndExpr \/ GiveBack
  PROVE  SyntaxInv'
<1>1. Len(stack) > 1
  BY NotTheProgram DEF EndExpr, GiveBack, Doing
<1> QED BY <1>1, GiveKeeps, NothingBuilt DEF EndExpr, GiveBack

LEMMA ParserStepKeeps ==
  ASSUME SyntaxInv, ParserStep
  PROVE  SyntaxInv'
<1>1. Parsing /\ ParseStep /\ round' = round
  BY DEF ParserStep, flow
<1>2. CASE \/ Take \/ Accept \/ Choose \/ ParseCases \/ ReadAttribute \/ ReadVariants
           \/ DispatchStatement \/ KeepName \/ MergeClauses \/ CountForeignNames \/ CheckNotEmpty
  BY <1>1, <1>2, ReadingKeeps
<1>3. CASE TakeNamedLeaf \/ TakeNumber \/ TakeSigned \/ TakeName \/ TakeNegated \/ TakePrim
  BY <1>1, <1>3, LeavesKeep
<1>4. CASE CallPrimary \/ CallExpr \/ Call
  BY <1>1, <1>4, CallingKeeps
<1>5. CASE ApplyOperator
  BY <1>1, <1>5, ApplyOperatorKeeps
<1>6. CASE EndExpr \/ GiveBack
  BY <1>1, <1>6, ReturningKeeps
<1>7. CASE ParseItem
  BY <1>1, <1>7, ParseItemKeeps
<1>8. CASE SetOuter
  BY <1>1, <1>8, SetOuterKeeps
<1>9. CASE BuildNode
  BY <1>1, <1>9, BuildKeeps
<1>10. CASE Recover
  BY <1>1, <1>10, RecoverKeeps
<1> QED BY <1>1, <1>2, <1>3, <1>4, <1>5, <1>6, <1>7, <1>8, <1>9, <1>10 DEF ParseStep

\* Nothing is placed in no nodes.
LEMMA NothingPlaced == Placed(<<>>, <<>>)
BY ShortSequences DEF Placed, Closed, OrphansOnce, OrphansNoChildren, ChildrenOnce, NoneMissing

\* Every parse begins with the phrase of a program and no node.
LEMMA StartKeeps ==
  ASSUME NEW t, StartParse(t)
  PROVE  SyntaxInv'
<1> DEFINE a == Activation(StatementPhrases["program"], <<>>, 1, 0, "StmtList", NoItem)
<1>1. stack' = <<a>> /\ orphans' = <<>> /\ refs' = <<>>
  BY DEF StartParse
<1>2. StatementPhrases["program"] = ProgramPhrase
  BY DEF StatementPhrases, ProgramPhrase
<1>3. IsActivation(a) /\ a.base = 0 /\ a.kids = <<>> /\ a.before = NoItem /\ a.left = ProgramPhrase
  BY <1>2, ShortSequences DEF IsActivation, ActivationFields, Activation
<1> HIDE DEF a
<1>4. Grounded(a, 1) /\ Holds(a, <<>>) /\ Reach(a) = 0
  BY <1>3, ShortSequences DEF Grounded, Holds, Reach
<1>5. Divided(Append(<<>>, a), 0, <<>>)
  <2>1. Divided(<<>>, 0, <<>>) /\ Len(<<>>) + 1 = 1
    BY EmptyDivided, ShortSequences
  <2> QED BY <2>1, <1>3, <1>4, PushDivided
<1>6. Append(<<>>, a) = <<a>>
  OBVIOUS
<1>7. stack' # <<>>
  BY <1>1
<1> QED BY <1>1, <1>5, <1>6, <1>7, NothingPlaced, ShortSequences, Continues

\* The statement that is edited changes nothing before the parse that follows.
LEMMA FlowKeeps ==
  ASSUME SyntaxInv, SyntaxNext
  PROVE  SyntaxInv'
<1>1. CASE ParserStep
  BY <1>1, ParserStepKeeps
<1>2. CASE Begin \/ PrintAndReparse
  BY <1>2, StartKeeps DEF Begin, PrintAndReparse
<1>3. CASE \E k \in DOMAIN seed :
             \/ \E at \in DOMAIN seed[k], x \in Inserted : InsertAtom(k, at, x)
             \/ \E at \in DOMAIN seed[k] : RemoveAtom(k, at)
  <2>1. \E t : StartParse(t)
    BY <1>3 DEF InsertAtom, RemoveAtom, Reparse
  <2> QED BY <2>1, StartKeeps
<1> QED BY <1>1, <1>2, <1>3 DEF SyntaxNext

LEMMA SyntaxInvInductive == SyntaxSpec => []SyntaxInv
<1>1. SyntaxInit => SyntaxInv
  <2> SUFFICES ASSUME SyntaxInit PROVE SyntaxInv
    OBVIOUS
  <2>1. stack = <<>> /\ orphans = <<>> /\ refs = <<>> /\ round = "start"
    BY DEF SyntaxInit
  <2> QED BY <2>1, NothingPlaced, ShortSequences DEF SyntaxInv, Parsing, Parsed
<1>2. SyntaxInv /\ [SyntaxNext]_syntaxVars => SyntaxInv'
  <2> SUFFICES ASSUME SyntaxInv, [SyntaxNext]_syntaxVars PROVE SyntaxInv'
    OBVIOUS
  <2>1. CASE SyntaxNext
    BY <2>1, FlowKeeps
  <2>2. CASE UNCHANGED syntaxVars
    <3>1. /\ stack' = stack /\ orphans' = orphans /\ refs' = refs /\ round' = round
      BY <2>2 DEF syntaxVars, parserVars, flow
    <3>2. IsSequence(stack)' /\ Placed(orphans, refs)'
      BY <3>1 DEF SyntaxInv
    <3>3. (Parsing => Divided(stack, Len(orphans), orphans))' /\ (Parsed => orphans = <<Root>>)'
      BY <3>1 DEF SyntaxInv, Parsing, Parsed, Root
    <3> QED BY <3>2, <3>3 DEF SyntaxInv
  <2> QED BY <2>1, <2>2
<1> QED BY <1>1, <1>2, PTL DEF SyntaxSpec

(***************************************************************************)
(* What it means for the program.                                          *)
(***************************************************************************)

\* What the activations have built are the orphans, in order, at every step.
THEOREM OrphansAreHeld == SyntaxSpec => []OrphansHeld
<1>1. SyntaxInv => OrphansHeld
  <2> SUFFICES ASSUME SyntaxInv, Parsing, NEW k \in DOMAIN stack,
                      NEW next, next = IF k = Len(stack) THEN Len(orphans) ELSE stack[k + 1].base
               PROVE  /\ stack[1].base = 0
                      /\ stack[k].base + Len(stack[k].kids) = next
                      /\ SubSeq(orphans, stack[k].base + 1, next) = stack[k].kids
    <3>1. SyntaxInv /\ Parsing => 1 \in DOMAIN stack
      <4>1. SyntaxInv /\ Parsing => DOMAIN stack = 1..Len(stack) /\ Len(stack) \in Nat \ {0}
        BY AtHand
      <4> QED BY <4>1
    <3> QED BY <3>1 DEF OrphansHeld
  <2> DEFINE a == stack[k]
  <2>1. k \in 1..Len(stack) /\ Len(stack) \in Nat /\ Len(stack) # 0 /\ Len(orphans) \in Nat
    BY AtHand
  <2>2. Divided(stack, Len(orphans), orphans)
    BY AtHand
  <2>3. Reach(a) = next
    <3>1. CASE k = Len(stack)
      BY <3>1, <2>1, <2>2 DEF Divided
    <3>2. CASE k # Len(stack)
      BY <3>2, <2>1, <2>2 DEF Divided
    <3> QED BY <3>1, <3>2
  <2>4. IsActivation(a) /\ Holds(a, orphans) /\ stack[1].base = 0
    BY <2>1, <2>2 DEF Divided
  <2>5. next <= Len(orphans)
    <3>1. CASE k = Len(stack)
      BY <3>1, <2>1
    <3>2. CASE k # Len(stack)
      <4>1. k + 1 \in 1..Len(stack)
        BY <2>1, <3>2
      <4> QED BY <4>1, <3>2, <2>2, CutDivided
    <3> QED BY <3>1, <3>2
  <2> HIDE DEF a
  <2>6. /\ a.base \in Nat /\ IsSequence(a.kids) /\ Len(a.kids) \in Nat
        /\ a.base + Len(a.kids) = next /\ \A j \in 1..Len(a.kids) : orphans[a.base + j] = a.kids[j]
    BY <2>3, <2>4, AnySeq DEF IsActivation, Reach, Holds
  <2>7. SubSeq(orphans, a.base + 1, next) = a.kids
    <3>1. IsSequence(orphans) /\ next \in 0..Len(orphans) /\ a.base \in 0..next
      BY <2>1, <2>5, <2>6, AtHand DEF Placed, Closed
    <3>2. IsSequence(SubSeq(orphans, a.base + 1, next))
          /\ Len(SubSeq(orphans, a.base + 1, next)) = next - a.base
          /\ \A j \in 1..(next - a.base) : SubSeq(orphans, a.base + 1, next)[j] = orphans[a.base + j]
      BY <3>1, PartOf
    <3>3. next - a.base = Len(a.kids)
      BY <2>6
    <3>4. PICK s : s = SubSeq(orphans, a.base + 1, next)
      OBVIOUS
    <3>5. IsSequence(s) /\ Len(s) = Len(a.kids) /\ \A j \in 1..Len(s) : s[j] = a.kids[j]
      BY <3>2, <3>3, <3>4, <2>6
    <3>6. s = a.kids
      BY <3>5, <2>6, SameSequence
    <3> QED BY <3>4, <3>6
  <2> QED BY <2>4, <2>6, <2>7 DEF a
<1> QED BY <1>1, SyntaxInvInductive, PTL

\* When a parse has ended, whatever was wrong with the text, every node that was
\* built is the root or has one place in the tree.
THEOREM NothingIsLost == SyntaxSpec => []NothingLost
<1>1. SyntaxInv => NothingLost
  <2> DEFINE places == UNION {{p} \X DOMAIN refs[p].kids : p \in DOMAIN refs}
             Of(r) == {p \in places : refs[p[1]].kids[p[2]] = r}
  <2> SUFFICES ASSUME SyntaxInv, Parsed
               PROVE  \A r \in DOMAIN refs \ {Root} : Cardinality(Of(r)) = 1
    BY DEF SyntaxInv, NothingLost
  <2>1. orphans = <<Root>> /\ Placed(orphans, refs)
    BY DEF SyntaxInv
  <2>2. IsSequence(refs) /\ Len(refs) \in Nat /\ DOMAIN refs = 1..Len(refs)
    BY <2>1, AnySeq DEF Placed, Closed
  <2>3. \A p \in 1..Len(refs) : DOMAIN refs[p].kids = 1..Len(refs[p].kids)
    BY <2>1, AnySeq DEF Placed, Closed, IsNode
  <2> SUFFICES ASSUME NEW r \in 1..Len(refs), r # Root PROVE Cardinality(Of(r)) = 1
    BY <2>2
  <2>4. PICK p \in 1..Len(refs) : \E j \in 1..Len(refs[p].kids) : refs[p].kids[j] = r
    <3>1. \A i \in 1..Len(orphans) : orphans[i] # r
      BY <2>1, ShortSequences
    <3> QED BY <3>1, <2>1 DEF Placed, NoneMissing
  <2>5. PICK j \in 1..Len(refs[p].kids) : refs[p].kids[j] = r
    BY <2>4
  <2>6. \A q \in 1..Len(refs) : \A i \in 1..Len(refs[q].kids) : refs[q].kids[i] = r => q = p /\ i = j
    BY <2>1, <2>5 DEF Placed, ChildrenOnce
  <2>7. Of(r) = {<<p, j>>}
    <3>1. <<p, j>> \in Of(r)
      BY <2>2, <2>3, <2>5
    <3>2. ASSUME NEW x \in Of(r) PROVE x = <<p, j>>
      <4>1. x \in places /\ refs[x[1]].kids[x[2]] = r
        BY <3>2
      <4>2. PICK q \in 1..Len(refs) : x \in {q} \X DOMAIN refs[q].kids
        BY <4>1, <2>2
      <4>3. x = <<x[1], x[2]>> /\ x[1] = q /\ x[2] \in 1..Len(refs[q].kids)
        BY <4>2, <2>3
      <4>4. x[1] = p /\ x[2] = j
        BY <4>1, <4>3, <2>6
      <4> QED BY <4>3, <4>4
    <3> HIDE DEF Of
    <3> QED BY <3>1, <3>2
  <2> QED BY <2>7, FS_Singleton
<1> QED BY <1>1, SyntaxInvInductive, PTL
=============================================================================
