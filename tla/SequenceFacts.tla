---------------------------- MODULE SequenceFacts ----------------------------
(***************************************************************************)
(* Facts that the proofs share: what a call stack is after a push, a pop   *)
(* or a change of its last activation, whatever its elements are, and the  *)
(* extremes of sets of numbers.                                            *)
(***************************************************************************)
EXTENDS Integers, FiniteSetsExt, SequencesExt, TLAPS, SequenceTheorems, WellFoundedInduction

IsSequence(s) == \E S : s \in Seq(S)

\* A sequence of anything has a length and positions 1 to that length.
LEMMA AnySeq ==
  ASSUME NEW s, IsSequence(s)
  PROVE  Len(s) \in Nat /\ DOMAIN s = 1..Len(s)
BY LenProperties DEF IsSequence

\* What has positions 1 to n is a sequence of length n.
LEMMA Tabled ==
  ASSUME NEW n \in Nat, NEW f, f = [k \in 1..n |-> f[k]]
  PROVE  IsSequence(f) /\ Len(f) = n /\ DOMAIN f = 1..n
<1> DEFINE S == {f[k] : k \in 1..n}
<1>1. f \in [1..n -> S]
  OBVIOUS
<1>2. f \in Seq(S)
  BY <1>1, SeqDef
<1>3. DOMAIN f = 1..n
  BY <1>1
<1>4. Len(f) = n
  BY <1>2, <1>3, LenProperties
<1> QED BY <1>2, <1>3, <1>4 DEF IsSequence

\* The empty sequence, and sequences of one element.
LEMMA ShortSequences ==
  /\ IsSequence(<<>>) /\ Len(<<>>) = 0
  /\ \A s : IsSequence(s) /\ Len(s) = 0 => s = <<>>
  /\ \A e : IsSequence(<<e>>) /\ Len(<<e>>) = 1 /\ <<e>>[1] = e
<1>1. <<>> \in Seq({}) /\ Len(<<>>) = 0
  BY EmptySeq
<1>2. ASSUME NEW s, IsSequence(s), Len(s) = 0 PROVE s = <<>>
  BY <1>2, EmptySeq DEF IsSequence
<1>3. ASSUME NEW e PROVE <<e>> \in Seq({e}) /\ Len(<<e>>) = 1 /\ <<e>>[1] = e
  OBVIOUS
<1> QED BY <1>1, <1>2, <1>3 DEF IsSequence

\* Appending to a sequence of anything.
LEMMA Appended ==
  ASSUME NEW s, IsSequence(s), NEW e
  PROVE  /\ IsSequence(Append(s, e))
         /\ Len(Append(s, e)) = Len(s) + 1
         /\ \A i \in 1..Len(s) : Append(s, e)[i] = s[i]
         /\ Append(s, e)[Len(s) + 1] = e
<1>1. PICK S : s \in Seq(S)
  BY DEF IsSequence
<1>2. s \in Seq(S \cup {e}) /\ e \in S \cup {e}
  BY <1>1, SeqMonotonic
<1> QED BY <1>2, AppendProperties DEF IsSequence

\* Dropping the last element of a sequence of anything.
LEMMA Shortened ==
  ASSUME NEW s, IsSequence(s), Len(s) > 0
  PROVE  LET t == SubSeq(s, 1, Len(s) - 1) IN
         /\ IsSequence(t)
         /\ Len(t) = Len(s) - 1
         /\ \A i \in 1..(Len(s) - 1) : t[i] = s[i]
<1> DEFINE n == Len(s) - 1
<1>1. PICK S : s \in Seq(S)
  BY DEF IsSequence
<1>2. n \in Nat /\ Len(s) \in Nat /\ n <= Len(s)
  BY <1>1, LenProperties
<1> HIDE DEF n
<1>3. SubSeq(s, 1, n) \in Seq(S)
  BY <1>1, <1>2
<1>4. Len(SubSeq(s, 1, n)) = n
  BY <1>1, <1>2
<1>5. \A i \in 1..n : SubSeq(s, 1, n)[i] = s[i]
  BY <1>1, <1>2
<1> QED BY <1>3, <1>4, <1>5 DEF n, IsSequence

\* Replacing the last element of a sequence of anything.
LEMMA Replaced ==
  ASSUME NEW s, IsSequence(s), Len(s) > 0, NEW e
  PROVE  LET t == Append(SubSeq(s, 1, Len(s) - 1), e) IN
         /\ IsSequence(t)
         /\ Len(t) = Len(s)
         /\ \A i \in 1..(Len(s) - 1) : t[i] = s[i]
         /\ t[Len(s)] = e
<1> DEFINE b == SubSeq(s, 1, Len(s) - 1)
<1>1. /\ IsSequence(b)
      /\ Len(b) = Len(s) - 1 /\ Len(s) \in Nat
      /\ \A i \in 1..(Len(s) - 1) : b[i] = s[i]
  BY Shortened, AnySeq
<1> HIDE DEF b
<1>2. /\ IsSequence(Append(b, e))
      /\ Len(Append(b, e)) = Len(b) + 1
      /\ \A i \in 1..Len(b) : Append(b, e)[i] = b[i]
      /\ Append(b, e)[Len(b) + 1] = e
  BY <1>1, Appended
<1>3. Len(b) + 1 = Len(s)
  BY <1>1
<1>4. /\ IsSequence(Append(b, e))
      /\ Len(Append(b, e)) = Len(s)
      /\ \A i \in 1..(Len(s) - 1) : Append(b, e)[i] = s[i]
      /\ Append(b, e)[Len(s)] = e
  BY <1>1, <1>2, <1>3
<1> QED BY <1>4 DEF b

\* The first elements of a sequence of anything.
LEMMA FirstOf ==
  ASSUME NEW s, IsSequence(s), NEW n \in 0..Len(s)
  PROVE  LET t == SubSeq(s, 1, n) IN
         IsSequence(t) /\ Len(t) = n /\ \A i \in 1..n : t[i] = s[i]
<1>1. PICK S : s \in Seq(S)
  BY DEF IsSequence
<1>2. n \in Nat /\ Len(s) \in Nat /\ n <= Len(s)
  BY <1>1, LenProperties
<1>3. SubSeq(s, 1, n) \in Seq(S) /\ Len(SubSeq(s, 1, n)) = n
  BY <1>1, <1>2
<1>4. \A i \in 1..n : SubSeq(s, 1, n)[i] = s[i]
  BY <1>1, <1>2
<1> QED BY <1>3, <1>4 DEF IsSequence

\* Elements in the middle of a sequence of anything.
LEMMA PartOf ==
  ASSUME NEW s, IsSequence(s), NEW n \in 0..Len(s), NEW m \in 0..n
  PROVE  LET t == SubSeq(s, m + 1, n) IN
         /\ IsSequence(t)
         /\ Len(t) = n - m
         /\ \A i \in 1..(n - m) : t[i] = s[m + i]
<1> DEFINE t == SubSeq(s, m + 1, n)
<1>1. PICK S : s \in Seq(S)
  BY DEF IsSequence
<1>2. n \in Nat /\ m \in Nat /\ Len(s) \in Nat /\ n <= Len(s) /\ m <= n
  BY <1>1, LenProperties
<1>3. \A i \in (m + 1)..n : s[i] \in S
  BY <1>1, <1>2, ElementOfSeq
<1>4. t \in Seq(S) /\ Len(t) = n - m
      /\ \A i \in 1..(n - m) : t[i] = s[m + 1 + i - 1]
  BY <1>1, <1>2, <1>3, SubSeqProperties
<1>5. \A i \in 1..(n - m) : m + 1 + i - 1 = m + i
  BY <1>2
<1> QED BY <1>4, <1>5 DEF IsSequence

\* The last elements of a sequence of anything.
LEMMA LastOf ==
  ASSUME NEW s, IsSequence(s), NEW n \in 0..Len(s)
  PROVE  LET t == SubSeq(s, n + 1, Len(s)) IN
         /\ IsSequence(t)
         /\ Len(t) = Len(s) - n
         /\ \A i \in 1..(Len(s) - n) : t[i] = s[n + i]
<1>1. Len(s) \in 0..Len(s)
  BY AnySeq
<1> QED BY <1>1, PartOf

\* Two sequences of anything, one after the other.
LEMMA Concatenated ==
  ASSUME NEW s, IsSequence(s), NEW t, IsSequence(t)
  PROVE  /\ IsSequence(s \o t)
         /\ Len(s \o t) = Len(s) + Len(t)
         /\ \A i \in 1..Len(s) : (s \o t)[i] = s[i]
         /\ \A i \in 1..Len(t) : (s \o t)[Len(s) + i] = t[i]
<1>1. PICK S : s \in Seq(S)
  BY DEF IsSequence
<1>2. PICK T : t \in Seq(T)
  BY DEF IsSequence
<1>3. s \in Seq(S \cup T) /\ t \in Seq(S \cup T)
  BY <1>1, <1>2, SeqMonotonic
<1>4. Len(s) \in Nat /\ Len(t) \in Nat
  BY <1>1, <1>2, LenProperties
<1>5. /\ s \o t \in Seq(S \cup T) /\ Len(s \o t) = Len(s) + Len(t)
      /\ \A i \in 1..(Len(s) + Len(t)) : (s \o t)[i] = IF i <= Len(s) THEN s[i] ELSE t[i - Len(s)]
  BY <1>3, ConcatProperties
<1>6. \A i \in 1..Len(s) : i \in 1..(Len(s) + Len(t)) /\ i <= Len(s)
  BY <1>4
<1>7. \A i \in 1..Len(t) : /\ Len(s) + i \in 1..(Len(s) + Len(t)) /\ ~(Len(s) + i <= Len(s))
                          /\ Len(s) + i - Len(s) = i
  BY <1>4
<1> QED BY <1>5, <1>6, <1>7 DEF IsSequence

\* Appending is joining a sequence of one element.
LEMMA AppendedIsJoined ==
  ASSUME NEW s, IsSequence(s), NEW e
  PROVE  Append(s, e) = s \o <<e>>
<1>1. PICK S : s \in Seq(S)
  BY DEF IsSequence
<1>2. s \in Seq(S \cup {e}) /\ e \in S \cup {e}
  BY <1>1, SeqMonotonic
<1> QED BY <1>2, AppendIsConcat

\* Equal sequences of anything.
LEMMA SameSequence ==
  ASSUME NEW s, IsSequence(s), NEW t, IsSequence(t),
         Len(s) = Len(t), \A i \in 1..Len(s) : s[i] = t[i]
  PROVE  s = t
<1>1. PICK S : s \in Seq(S)
  BY DEF IsSequence
<1>2. PICK T : t \in Seq(T)
  BY DEF IsSequence
<1>3. s \in Seq(S \cup T) /\ t \in Seq(S \cup T)
  BY <1>1, <1>2, SeqMonotonic
<1> QED BY <1>3, SeqEqual

(***************************************************************************)
(* Least and greatest elements.                                            *)
(***************************************************************************)

\* A set of numbers has a least element.
LEMMA MinIsLeast ==
  ASSUME NEW S \in SUBSET Nat, S # {}
  PROVE  Min(S) \in S /\ \A y \in S : Min(S) <= y
<1>1. PICK m \in S : \A k \in S : <<k, m>> \notin OpToRel(<, Nat)
  BY WFMin, NatLessThanWellFounded, Zenon
<1>2. \A k \in S : k \in Nat /\ m \in Nat
  OBVIOUS
<1>3. \A k \in S : ~ (k < m)
  BY <1>1, <1>2, Zenon DEF OpToRel
<1>4. \A k \in S : m <= k
  BY <1>2, <1>3
<1> QED BY <1>4 DEF Min

\* A bounded set of numbers has a greatest one.
LEMMA MaxIsGreatest ==
  ASSUME NEW n \in Nat, NEW S \in SUBSET (0..n), S # {}
  PROVE  Max(S) \in S /\ \A y \in S : y <= Max(S)
<1> DEFINE T == {n - s : s \in S}
<1>1. T \in SUBSET Nat /\ T # {}
  <2>1. \A s \in S : s \in 0..n /\ n - s \in Nat
    OBVIOUS
  <2>2. PICK s \in S : TRUE
    OBVIOUS
  <2>3. n - s \in T
    BY <2>2
  <2> QED BY <2>1, <2>3
<1>2. PICK t \in T : \A k \in T : t <= k
  <2> HIDE DEF T
  <2> QED BY <1>1, MinIsLeast
<1>3. PICK m \in S : t = n - m
  BY <1>2
<1>4. \A k \in S : k <= m
  <2> SUFFICES ASSUME NEW k \in S PROVE k <= m
    OBVIOUS
  <2>1. n - k \in T
    OBVIOUS
  <2>2. n - m <= n - k
    BY <2>1, <1>2, <1>3
  <2>3. k \in 0..n /\ m \in 0..n
    BY <1>3
  <2> QED BY <2>2, <2>3
<1> QED BY <1>4 DEF Max
=============================================================================
