----------------------------- MODULE QueryProofs -----------------------------
(***************************************************************************)
(* Proofs about the query layer, for every set of files, every import      *)
(* graph and every sequence of edits.  The recursion of FileEnv,           *)
(* NeedsRecompute and ComputeFileEnv keeps its stack in order: the stack   *)
(* is the chain of computations and the InFlight marks are its members.    *)
(* A lookup and the read of its key agree, and terms taken as verified are *)
(* those of the text as it is now.  Where imports follow one order,        *)
(* incremental equals fresh: what a session reuses or recomputes after any *)
(* history is what a session computes that has read nothing.               *)
(***************************************************************************)
EXTENDS QueryProperties, SequenceFacts, FiniteSetTheorems

FrameFields == {"op", "path", "rest", "stale", "acc"}
IsFrame(f) == DOMAIN f = FrameFields

\* The call stack is a sequence of frames.
Framed(fs) == IsSequence(fs) /\ \A i \in 1..Len(fs) : IsFrame(fs[i])

\* The computations on the stack are those in flight, and nothing is verified
\* or computed above its own computation.
Chained(fs, flight) ==
  /\ flight = {fs[i].path : i \in {j \in 1..Len(fs) : fs[j].op = "Compute"}}
  /\ \A i, j \in 1..Len(fs) :
       i < j /\ fs[i].op = "Compute" /\ fs[j].op # "FileEnv" => fs[i].path # fs[j].path

\* StackDiscipline of a call stack, a query stack and a set of marks.
Disciplined(fs, qs, flight) ==
  /\ Len(qs) = Depth(fs, Len(fs))
  /\ \A i \in DOMAIN fs : fs[i].op = "Compute" => qs[Depth(fs, i)] = fs[i].path
  /\ flight = ToSet(qs)
  /\ IsInjective(qs)

Ordered(fs, qs, flight) ==
  /\ Framed(fs) /\ IsSequence(qs)
  /\ Chained(fs, flight) /\ Disciplined(fs, qs, flight)

StackInv == Ordered(frames, queryStack, inFlight)

(***************************************************************************)
(* Sequences of frames.                                                    *)
(***************************************************************************)

\* Depth counts only computations, so it depends on nothing else of the frames.
LEMMA DepthSame ==
  ASSUME NEW fs, NEW gs, NEW i \in Nat, \A j \in 1..i : fs[j].op = gs[j].op
  PROVE  Depth(fs, i) = Depth(gs, i)
<1>1. {j \in 1..i : fs[j].op = "Compute"} = {j \in 1..i : gs[j].op = "Compute"}
  OBVIOUS
<1> QED BY <1>1 DEF Depth

\* Depth grows by one at a computation and nowhere else.
LEMMA DepthGrows ==
  ASSUME NEW fs, NEW i \in Nat
  PROVE  /\ Depth(fs, i) \in Nat /\ Depth(fs, 0) = 0
         /\ Depth(fs, i + 1) = IF fs[i + 1].op = "Compute" THEN Depth(fs, i) + 1 ELSE Depth(fs, i)
<1> DEFINE C(n) == {j \in 1..n : fs[j].op = "Compute"}
<1>1. IsFiniteSet(C(i))
  <2>1. IsFiniteSet(1..i) /\ C(i) \subseteq 1..i
    BY FS_Interval
  <2> QED BY <2>1, FS_Subset
<1>2. C(0) = {}
  <2>1. \A j : j \notin 1..0
    OBVIOUS
  <2> QED BY <2>1
<1>3. \A j : j \in 1..(i + 1) <=> j \in 1..i \/ j = i + 1
  OBVIOUS
<1>4. i + 1 \notin 1..i
  OBVIOUS
<1>5. fs[i + 1].op = "Compute" => C(i + 1) = C(i) \cup {i + 1} /\ i + 1 \notin C(i)
  BY <1>3, <1>4
<1>6. fs[i + 1].op # "Compute" => C(i + 1) = C(i)
  BY <1>3, <1>4
<1>7. Depth(fs, 0) = Cardinality(C(0)) /\ Depth(fs, i) = Cardinality(C(i))
      /\ Depth(fs, i + 1) = Cardinality(C(i + 1))
  BY DEF Depth
<1> HIDE DEF C
<1>8. Depth(fs, i) \in Nat /\ Depth(fs, 0) = 0
  BY <1>1, <1>2, <1>7, FS_CardinalityType, FS_EmptySet
<1>9. fs[i + 1].op = "Compute" => Depth(fs, i + 1) = Depth(fs, i) + 1
  BY <1>1, <1>5, <1>7, FS_AddElement
<1> QED BY <1>6, <1>7, <1>8, <1>9

(***************************************************************************)
(* What a step does to the stack.                                          *)
(***************************************************************************)

\* A frame that goes on with the same function on the same path, or turns from
\* the entry of FileEnv into a verification of a path not in flight.
LEMMA TopReplaced ==
  ASSUME NEW fs, NEW qs, NEW fl, Ordered(fs, qs, fl), Len(fs) > 0, NEW f, IsFrame(f),
         f.path = fs[Len(fs)].path,
         f.op = fs[Len(fs)].op \/ (f.op = "Verify" /\ fs[Len(fs)].op = "FileEnv" /\ f.path \notin fl)
  PROVE  Ordered(Append(SubSeq(fs, 1, Len(fs) - 1), f), qs, fl)
<1> DEFINE gs == Append(SubSeq(fs, 1, Len(fs) - 1), f)
<1>1. /\ IsSequence(gs)
      /\ Len(gs) = Len(fs) /\ Len(fs) \in Nat
      /\ \A i \in 1..(Len(fs) - 1) : gs[i] = fs[i]
      /\ gs[Len(fs)] = f
  BY Replaced, AnySeq DEF Ordered, Framed
<1> HIDE DEF gs
<1>2. \A i \in 1..Len(fs) : i = Len(fs) \/ i \in 1..(Len(fs) - 1)
  BY <1>1
<1>3. Framed(gs)
  BY <1>1, <1>2 DEF Ordered, Framed
<1>4. \A i \in 1..Len(fs) : /\ gs[i].path = fs[i].path
                            /\ gs[i].op = "Compute" <=> fs[i].op = "Compute"
  BY <1>1, <1>2
<1>5. \A i \in 1..Len(fs) : Depth(gs, i) = Depth(fs, i)
  <2> TAKE i \in 1..Len(fs)
  <2>1. {j \in 1..i : gs[j].op = "Compute"} = {j \in 1..i : fs[j].op = "Compute"}
    <3>1. \A j \in 1..i : j \in 1..Len(fs)
      BY <1>1
    <3> QED BY <3>1, <1>4
  <2> QED BY <2>1 DEF Depth
<1>6. Chained(gs, fl)
  <2>1. fl = {gs[i].path : i \in {j \in 1..Len(gs) : gs[j].op = "Compute"}}
    <3>1. {j \in 1..Len(gs) : gs[j].op = "Compute"} = {j \in 1..Len(fs) : fs[j].op = "Compute"}
      BY <1>1, <1>4
    <3>2. fl = {fs[i].path : i \in {j \in 1..Len(fs) : fs[j].op = "Compute"}}
      BY DEF Ordered, Chained
    <3>3. {gs[i].path : i \in {j \in 1..Len(gs) : gs[j].op = "Compute"}}
            = {fs[i].path : i \in {j \in 1..Len(fs) : fs[j].op = "Compute"}}
      BY <3>1, <1>4
    <3> QED BY <3>2, <3>3
  <2> SUFFICES ASSUME NEW i \in 1..Len(gs), NEW j \in 1..Len(gs), i < j,
                      gs[i].op = "Compute", gs[j].op # "FileEnv"
               PROVE  gs[i].path # gs[j].path
    BY <2>1 DEF Chained
  <2>2. fs[i].op = "Compute" /\ fs[i].path = gs[i].path /\ fs[j].path = gs[j].path
    BY <1>1, <1>4
  <2>3. CASE fs[j].op # "FileEnv"
    BY <2>2, <2>3, <1>1 DEF Ordered, Chained
  <2>4. CASE fs[j].op = "FileEnv"
    <3>1. j = Len(fs) /\ gs[j] = f /\ f.path \notin fl
      BY <2>4, <1>1, <1>2
    <3>2. fs[i].path \in fl
      BY <2>2, <1>1 DEF Ordered, Chained
    <3> QED BY <3>1, <3>2, <2>2
  <2> QED BY <2>3, <2>4
<1>7. Disciplined(gs, qs, fl)
  <2>1. DOMAIN gs = 1..Len(fs) /\ DOMAIN fs = 1..Len(fs)
    BY <1>1, AnySeq DEF Ordered, Framed
  <2>2. Len(qs) = Depth(gs, Len(gs))
    <3>1. CASE Len(fs) = 0
      BY <3>1
    <3>2. CASE Len(fs) # 0
      <4>1. Len(fs) \in 1..Len(fs)
        BY <1>1, <3>2
      <4> QED BY <4>1, <1>1, <1>5 DEF Ordered, Disciplined
    <3> QED BY <3>1, <3>2
  <2> QED BY <2>1, <2>2, <1>4, <1>5 DEF Ordered, Disciplined
<1> QED BY <1>3, <1>6, <1>7 DEF Ordered, gs

\* A call of FileEnv.
LEMMA Called ==
  ASSUME NEW fs, NEW qs, NEW fl, Ordered(fs, qs, fl), NEW p
  PROVE  Ordered(Append(fs, CallFrame(p)), qs, fl)
<1> DEFINE gs == Append(fs, CallFrame(p))
<1>1. /\ IsSequence(gs)
      /\ Len(gs) = Len(fs) + 1 /\ Len(fs) \in Nat
      /\ \A i \in 1..Len(fs) : gs[i] = fs[i]
      /\ gs[Len(fs) + 1] = CallFrame(p)
  BY Appended, AnySeq DEF Ordered, Framed
<1>2. IsFrame(CallFrame(p)) /\ CallFrame(p).op = "FileEnv"
  BY DEF IsFrame, FrameFields, CallFrame
<1> HIDE DEF gs
<1>3. \A i : i \in 1..Len(gs) <=> i = Len(fs) + 1 \/ i \in 1..Len(fs)
  BY <1>1
<1>4. Framed(gs)
  BY <1>1, <1>2, <1>3 DEF Ordered, Framed
<1>5. \A i \in 0..Len(fs) : Depth(gs, i) = Depth(fs, i)
  <2> TAKE i \in 0..Len(fs)
  <2>1. i \in Nat /\ \A j \in 1..i : gs[j].op = fs[j].op
    BY <1>1
  <2> QED BY <2>1, DepthSame
<1>6. Depth(gs, Len(gs)) = Depth(fs, Len(fs))
  <2>1. Depth(gs, Len(fs) + 1) = Depth(gs, Len(fs))
    BY <1>1, <1>2, DepthGrows
  <2>2. Len(fs) \in 0..Len(fs)
    BY <1>1
  <2> QED BY <2>1, <2>2, <1>1, <1>5
<1>7. Chained(gs, fl)
  <2>1. {j \in 1..Len(gs) : gs[j].op = "Compute"} = {j \in 1..Len(fs) : fs[j].op = "Compute"}
    BY <1>1, <1>2, <1>3
  <2>2. fl = {gs[i].path : i \in {j \in 1..Len(gs) : gs[j].op = "Compute"}}
    BY <2>1, <1>1 DEF Ordered, Chained
  <2>3. \A j \in 1..Len(gs) : gs[j].op # "FileEnv" => j \in 1..Len(fs)
    BY <1>1, <1>2, <1>3
  <2>4. \A i \in 1..Len(gs) : gs[i].op = "Compute" => i \in 1..Len(fs)
    BY <1>1, <1>2, <1>3
  <2> QED BY <2>2, <2>3, <2>4, <1>1 DEF Ordered, Chained
<1>8. Disciplined(gs, qs, fl)
  <2>1. DOMAIN gs = 1..Len(gs) /\ DOMAIN fs = 1..Len(fs)
    BY <1>1, AnySeq DEF Ordered, Framed
  <2>2. \A i \in DOMAIN gs : gs[i].op = "Compute" => /\ i \in DOMAIN fs /\ gs[i] = fs[i]
                                                     /\ Depth(gs, i) = Depth(fs, i)
    BY <2>1, <1>1, <1>2, <1>3, <1>5
  <2> QED BY <2>2, <1>6 DEF Ordered, Disciplined
<1> QED BY <1>4, <1>7, <1>8 DEF Ordered, gs

\* Depth never shrinks along the stack, and a computation is at depth 1 or more.
LEMMA DepthMonotone ==
  ASSUME NEW fs, NEW i \in Nat, NEW k \in Nat, i <= k
  PROVE  /\ Depth(fs, i) <= Depth(fs, k)
         /\ i > 0 /\ fs[i].op = "Compute" => Depth(fs, i) >= 1
<1> DEFINE C(n) == {j \in 1..n : fs[j].op = "Compute"}
<1>1. IsFiniteSet(1..k) /\ C(k) \subseteq 1..k /\ C(i) \subseteq C(k)
  <2>1. IsFiniteSet(1..k)
    BY FS_Interval
  <2>2. \A j : j \in 1..i => j \in 1..k
    OBVIOUS
  <2> QED BY <2>1, <2>2
<1>2. Depth(fs, i) = Cardinality(C(i)) /\ Depth(fs, k) = Cardinality(C(k))
  BY DEF Depth
<1> HIDE DEF C
<1>3. Depth(fs, i) <= Depth(fs, k)
  BY <1>1, <1>2, FS_Subset
<1>4. ASSUME i > 0, fs[i].op = "Compute" PROVE Depth(fs, i) >= 1
  <2>1. i - 1 \in Nat /\ (i - 1) + 1 = i
    BY <1>4
  <2>2. Depth(fs, i - 1) \in Nat /\ Depth(fs, (i - 1) + 1) = Depth(fs, i - 1) + 1
    BY <1>4, <2>1, DepthGrows
  <2> QED BY <2>1, <2>2
<1> QED BY <1>3, <1>4

\* A call that computes nothing returns.
LEMMA Returned ==
  ASSUME NEW fs, NEW qs, NEW fl, Ordered(fs, qs, fl), Len(fs) > 0,
         fs[Len(fs)].op # "Compute"
  PROVE  Ordered(SubSeq(fs, 1, Len(fs) - 1), qs, fl)
<1> DEFINE gs == SubSeq(fs, 1, Len(fs) - 1)
<1>1. /\ IsSequence(gs)
      /\ Len(gs) = Len(fs) - 1 /\ Len(fs) \in Nat
      /\ \A i \in 1..(Len(fs) - 1) : gs[i] = fs[i]
  BY Shortened, AnySeq DEF Ordered, Framed
<1> HIDE DEF gs
<1>2. Framed(gs)
  BY <1>1 DEF Ordered, Framed
<1>3. \A i \in 0..Len(gs) : Depth(gs, i) = Depth(fs, i)
  <2> TAKE i \in 0..Len(gs)
  <2>1. i \in Nat /\ \A j \in 1..i : gs[j].op = fs[j].op
    BY <1>1
  <2> QED BY <2>1, DepthSame
<1>4. Depth(gs, Len(gs)) = Depth(fs, Len(fs))
  <2>1. Len(gs) \in Nat /\ Len(gs) + 1 = Len(fs) /\ Len(gs) \in 0..Len(gs)
    BY <1>1
  <2>2. Depth(fs, Len(gs) + 1) = Depth(fs, Len(gs))
    BY <2>1, DepthGrows
  <2> QED BY <2>1, <2>2, <1>3
<1>5. \A i : i \in 1..Len(fs) <=> i = Len(fs) \/ i \in 1..Len(gs)
  BY <1>1
<1>6. {j \in 1..Len(gs) : gs[j].op = "Compute"} = {j \in 1..Len(fs) : fs[j].op = "Compute"}
  BY <1>1, <1>5
<1>7. Chained(gs, fl)
  <2>1. fl = {gs[i].path : i \in {j \in 1..Len(gs) : gs[j].op = "Compute"}}
    <3>1. fl = {fs[i].path : i \in {j \in 1..Len(fs) : fs[j].op = "Compute"}}
      BY DEF Ordered, Chained
    <3>2. \A i \in {j \in 1..Len(gs) : gs[j].op = "Compute"} : gs[i].path = fs[i].path
      BY <1>1
    <3> QED BY <3>1, <3>2, <1>6
  <2>2. \A i, j \in 1..Len(gs) :
          i < j /\ gs[i].op = "Compute" /\ gs[j].op # "FileEnv" => gs[i].path # gs[j].path
    <3>1. \A i \in 1..Len(gs) : i \in 1..Len(fs) /\ gs[i] = fs[i]
      BY <1>1
    <3>2. \A i, j \in 1..Len(fs) :
            i < j /\ fs[i].op = "Compute" /\ fs[j].op # "FileEnv" => fs[i].path # fs[j].path
      BY DEF Ordered, Chained
    <3> QED BY <3>1, <3>2
  <2> QED BY <2>1, <2>2 DEF Chained
<1>8. Disciplined(gs, qs, fl)
  <2>1. DOMAIN gs = 1..Len(gs) /\ DOMAIN fs = 1..Len(fs)
    BY <1>1, AnySeq DEF Ordered, Framed
  <2>2. \A i \in DOMAIN gs : i \in DOMAIN fs /\ gs[i] = fs[i] /\ Depth(gs, i) = Depth(fs, i)
    BY <2>1, <1>1, <1>3, <1>5
  <2>3. \A i \in DOMAIN gs : gs[i].op = "Compute" => qs[Depth(gs, i)] = gs[i].path
    BY <2>2 DEF Ordered, Disciplined
  <2>4. Len(qs) = Depth(gs, Len(gs)) /\ fl = ToSet(qs) /\ IsInjective(qs)
    BY <1>4 DEF Ordered, Disciplined
  <2> QED BY <2>3, <2>4 DEF Disciplined
<1> QED BY <1>2, <1>7, <1>8 DEF Ordered, gs

\* A verification turns into the computation of its path.
LEMMA Began ==
  ASSUME NEW fs, NEW qs, NEW fl, Ordered(fs, qs, fl), Len(fs) > 0, NEW f, IsFrame(f),
         fs[Len(fs)].op = "Verify", f.op = "Compute", f.path = fs[Len(fs)].path
  PROVE  Ordered(Append(SubSeq(fs, 1, Len(fs) - 1), f), Append(qs, f.path), fl \cup {f.path})
<1> DEFINE gs == Append(SubSeq(fs, 1, Len(fs) - 1), f)
           n  == Len(fs)
           p  == f.path
           rs == Append(qs, p)
<1>1. /\ IsSequence(gs)
      /\ Len(gs) = n /\ n \in Nat /\ n > 0
      /\ \A i \in 1..(n - 1) : gs[i] = fs[i]
      /\ gs[n] = f
  BY Replaced, AnySeq DEF Ordered, Framed
<1>2. /\ IsSequence(rs)
      /\ Len(rs) = Len(qs) + 1 /\ Len(qs) \in Nat
      /\ \A i \in 1..Len(qs) : rs[i] = qs[i]
      /\ rs[Len(qs) + 1] = p
      /\ DOMAIN rs = 1..Len(rs) /\ DOMAIN qs = 1..Len(qs)
  BY Appended, AnySeq DEF Ordered
<1>3. fs[n].op = "Verify" /\ fs[n].path = p /\ gs[n].op = "Compute" /\ gs[n].path = p
  BY <1>1
<1> HIDE DEF gs, n, p, rs
<1>4. \A i : i \in 1..n <=> i = n \/ i \in 1..(n - 1)
  BY <1>1
<1>5. Framed(gs)
  BY <1>1, <1>4 DEF Ordered, Framed, n
<1>6. p \notin fl
  BY <1>1, <1>3, <1>4 DEF Ordered, Chained, n
<1>7. \A i \in 0..(n - 1) : Depth(gs, i) = Depth(fs, i)
  <2> TAKE i \in 0..(n - 1)
  <2>1. i \in Nat /\ \A j \in 1..i : gs[j].op = fs[j].op
    BY <1>1
  <2> QED BY <2>1, DepthSame
<1>8. Len(qs) = Depth(fs, n - 1) /\ Depth(gs, n) = Len(qs) + 1
  <2>1. n - 1 \in Nat /\ n - 1 \in 0..(n - 1) /\ (n - 1) + 1 = n
    BY <1>1
  <2>2. Depth(fs, (n - 1) + 1) = Depth(fs, n - 1)
    BY <2>1, <1>3, DepthGrows
  <2>3. Depth(gs, (n - 1) + 1) = Depth(gs, n - 1) + 1
    BY <2>1, <1>3, DepthGrows
  <2> QED BY <2>1, <2>2, <2>3, <1>7 DEF Ordered, Disciplined, n
<1>9. Chained(gs, fl \cup {p})
  <2>1. {j \in 1..n : gs[j].op = "Compute"} = {j \in 1..n : fs[j].op = "Compute"} \cup {n}
    BY <1>1, <1>3, <1>4
  <2>2. \A j \in {k \in 1..n : fs[k].op = "Compute"} : gs[j].path = fs[j].path
    BY <1>1, <1>3, <1>4
  <2>3. fl \cup {p} = {gs[i].path : i \in {j \in 1..n : gs[j].op = "Compute"}}
    <3>1. fl = {fs[i].path : i \in {j \in 1..n : fs[j].op = "Compute"}}
      BY DEF Ordered, Chained, n
    <3> QED BY <3>1, <2>1, <2>2, <1>3
  <2>4. \A i, j \in 1..n :
          i < j /\ gs[i].op = "Compute" /\ gs[j].op # "FileEnv" => gs[i].path # gs[j].path
    <3> SUFFICES ASSUME NEW i \in 1..n, NEW j \in 1..n, i < j, gs[i].op = "Compute",
                        gs[j].op # "FileEnv"
                 PROVE  gs[i].path # gs[j].path
      OBVIOUS
    <3>1. i \in 1..(n - 1) /\ gs[i] = fs[i]
      BY <1>1
    <3>2. CASE j = n
      BY <3>1, <3>2, <1>3 DEF Ordered, Chained, n
    <3>3. CASE j \in 1..(n - 1)
      BY <3>1, <3>3, <1>1 DEF Ordered, Chained, n
    <3> QED BY <3>2, <3>3, <1>4
  <2> QED BY <2>3, <2>4, <1>1 DEF Chained
<1>10. Disciplined(gs, rs, fl \cup {p})
  <2>1. DOMAIN gs = 1..n /\ DOMAIN fs = 1..n
    BY <1>1, AnySeq DEF Ordered, Framed, n
  <2>2. \A i \in DOMAIN gs : gs[i].op = "Compute" => rs[Depth(gs, i)] = gs[i].path
    <3> SUFFICES ASSUME NEW i \in 1..n, gs[i].op = "Compute"
                 PROVE  rs[Depth(gs, i)] = gs[i].path
      BY <2>1
    <3>1. CASE i = n
      BY <3>1, <1>2, <1>3, <1>8
    <3>2. CASE i \in 1..(n - 1)
      <4>1. /\ gs[i] = fs[i] /\ Depth(gs, i) = Depth(fs, i)
            /\ i \in Nat /\ n - 1 \in Nat /\ i <= n - 1 /\ i > 0
        BY <3>2, <1>1, <1>7
      <4>2. Depth(fs, i) <= Depth(fs, n - 1) /\ Depth(fs, i) >= 1 /\ Depth(fs, i) \in Nat
        BY <4>1, DepthMonotone, DepthGrows
      <4>3. Depth(fs, i) \in 1..Len(qs)
        BY <4>2, <1>2, <1>8
      <4>4. qs[Depth(fs, i)] = fs[i].path
        BY <4>1, <2>1 DEF Ordered, Disciplined
      <4> QED BY <4>1, <4>3, <4>4, <1>2
    <3> QED BY <3>1, <3>2, <1>4
  <2>3. \A i : i \in 1..Len(rs) <=> i = Len(qs) + 1 \/ i \in 1..Len(qs)
    BY <1>2
  <2>4. fl = {qs[i] : i \in 1..Len(qs)}
    BY <1>2 DEF Ordered, Disciplined, ToSet
  <2>5. fl \cup {p} = ToSet(rs)
    <3>1. \A x : x \in ToSet(rs) <=> \E i \in 1..Len(rs) : x = rs[i]
      BY <1>2 DEF ToSet
    <3> QED BY <3>1, <2>3, <2>4, <1>2
  <2>6. IsInjective(rs)
    <3>1. \A i \in 1..Len(qs) : rs[i] \in fl
      BY <2>4, <1>2
    <3>2. \A i, j \in 1..Len(qs) : rs[i] = rs[j] => i = j
      BY <1>2 DEF Ordered, Disciplined, IsInjective
    <3> QED BY <3>1, <3>2, <2>3, <1>2, <1>6 DEF IsInjective
  <2> QED BY <2>2, <2>5, <2>6, <1>1, <1>2, <1>8 DEF Disciplined
<1> QED BY <1>1, <1>2, <1>5, <1>9, <1>10 DEF Ordered, gs, rs, p

\* The computation on top ends.
LEMMA Finished ==
  ASSUME NEW fs, NEW qs, NEW fl, Ordered(fs, qs, fl), Len(fs) > 0,
         fs[Len(fs)].op = "Compute"
  PROVE  Ordered(SubSeq(fs, 1, Len(fs) - 1), SubSeq(qs, 1, Len(qs) - 1),
                 fl \ {fs[Len(fs)].path})
<1> DEFINE gs == SubSeq(fs, 1, Len(fs) - 1)
           rs == SubSeq(qs, 1, Len(qs) - 1)
           n  == Len(fs)
           m  == Len(qs)
           p  == fs[n].path
<1>1. /\ IsSequence(gs)
      /\ Len(gs) = n - 1 /\ n \in Nat /\ n > 0
      /\ \A i \in 1..(n - 1) : gs[i] = fs[i]
  BY Shortened, AnySeq DEF Ordered, Framed
<1>2. m \in Nat /\ DOMAIN qs = 1..m /\ DOMAIN fs = 1..n
  BY AnySeq DEF Ordered, Framed
<1>3. fs[n].op = "Compute" /\ m = Depth(fs, n) /\ qs[m] = p
  <2>1. n \in DOMAIN fs
    BY <1>1, <1>2
  <2> QED BY <2>1 DEF Ordered, Disciplined
<1>4. m >= 1 /\ m = Depth(fs, n - 1) + 1
  <2>1. n - 1 \in Nat /\ (n - 1) + 1 = n
    BY <1>1
  <2>2. Depth(fs, n - 1) \in Nat /\ Depth(fs, (n - 1) + 1) = Depth(fs, n - 1) + 1
    BY <2>1, <1>3, DepthGrows
  <2> QED BY <2>1, <2>2, <1>3
<1>5. /\ IsSequence(rs)
      /\ Len(rs) = m - 1 /\ DOMAIN rs = 1..(m - 1)
      /\ \A i \in 1..(m - 1) : rs[i] = qs[i]
  BY <1>2, <1>4, Shortened, AnySeq DEF Ordered
<1>6. fl = {qs[i] : i \in 1..m} /\ \A i, j \in 1..m : qs[i] = qs[j] => i = j
  BY <1>2 DEF Ordered, Disciplined, ToSet, IsInjective
<1>7. /\ fl = {fs[i].path : i \in {j \in 1..n : fs[j].op = "Compute"}}
      /\ \A i, j \in 1..n :
           i < j /\ fs[i].op = "Compute" /\ fs[j].op # "FileEnv" => fs[i].path # fs[j].path
      /\ Framed(fs)
      /\ \A i \in 1..n : fs[i].op = "Compute" => qs[Depth(fs, i)] = fs[i].path
  BY <1>2 DEF Ordered, Chained, Disciplined
<1> HIDE DEF gs, rs, n, m, p
<1>8. \A i : i \in 1..n <=> i = n \/ i \in 1..(n - 1)
  BY <1>1
<1>9. Framed(gs)
  BY <1>1, <1>7, <1>8 DEF Framed, n
<1>10. \A i \in 0..(n - 1) : Depth(gs, i) = Depth(fs, i)
  <2> TAKE i \in 0..(n - 1)
  <2>1. i \in Nat /\ \A j \in 1..i : gs[j].op = fs[j].op
    BY <1>1
  <2> QED BY <2>1, DepthSame
<1>11. Chained(gs, fl \ {p})
  <2>1. \A i \in 1..(n - 1) : fs[i].op = "Compute" => fs[i].path # p
    <3> SUFFICES ASSUME NEW i \in 1..(n - 1), fs[i].op = "Compute" PROVE fs[i].path # p
      OBVIOUS
    <3>1. i \in 1..n /\ n \in 1..n /\ i < n
      BY <1>1
    <3> QED BY <3>1, <1>3, <1>7 DEF p
  <2>2. {j \in 1..n : fs[j].op = "Compute"} = {j \in 1..(n - 1) : gs[j].op = "Compute"} \cup {n}
    BY <1>1, <1>3, <1>8
  <2>3. fl \ {p} = {gs[i].path : i \in {j \in 1..(n - 1) : gs[j].op = "Compute"}}
    <3>1. \A i \in {j \in 1..(n - 1) : gs[j].op = "Compute"} : gs[i].path = fs[i].path /\ fs[i].path # p
      BY <1>1, <2>1
    <3>2. fs[n].path = p
      BY DEF p
    <3> QED BY <3>1, <3>2, <2>2, <1>7
  <2>4. \A i, j \in 1..(n - 1) :
          i < j /\ gs[i].op = "Compute" /\ gs[j].op # "FileEnv" => gs[i].path # gs[j].path
    BY <1>1, <1>7, <1>8
  <2> QED BY <2>3, <2>4, <1>1 DEF Chained
<1>12. Disciplined(gs, rs, fl \ {p})
  <2>1. DOMAIN gs = 1..(n - 1)
    BY <1>1, AnySeq
  <2>2. Len(rs) = Depth(gs, Len(gs))
    <3>1. n - 1 \in 0..(n - 1)
      BY <1>1
    <3>2. Depth(fs, n - 1) \in Nat
      BY <1>1, DepthGrows
    <3>3. Depth(gs, n - 1) = Depth(fs, n - 1) /\ Len(gs) = n - 1
      BY <3>1, <1>1, <1>10
    <3> QED BY <3>2, <3>3, <1>2, <1>4, <1>5
  <2>3. \A i \in DOMAIN gs : gs[i].op = "Compute" => rs[Depth(gs, i)] = gs[i].path
    <3> SUFFICES ASSUME NEW i \in 1..(n - 1), gs[i].op = "Compute"
                 PROVE  rs[Depth(gs, i)] = gs[i].path
      BY <2>1
    <3>1. /\ gs[i] = fs[i] /\ Depth(gs, i) = Depth(fs, i)
          /\ i \in Nat /\ n - 1 \in Nat /\ i <= n - 1 /\ i > 0 /\ i \in 1..n
      BY <1>1, <1>10
    <3>2. /\ Depth(fs, i) <= Depth(fs, n - 1) /\ Depth(fs, i) >= 1
          /\ Depth(fs, i) \in Nat /\ Depth(fs, n - 1) \in Nat
      BY <3>1, DepthMonotone, DepthGrows
    <3>3. Depth(fs, i) \in 1..(m - 1)
      BY <3>2, <1>2, <1>4
    <3> QED BY <3>1, <3>3, <1>5, <1>7
  <2>4. fl \ {p} = ToSet(rs)
    <3>1. \A x : x \in ToSet(rs) <=> \E i \in 1..(m - 1) : x = qs[i]
      BY <1>5 DEF ToSet
    <3>2. \A i : i \in 1..m <=> i = m \/ i \in 1..(m - 1)
      BY <1>2, <1>4
    <3>3. \A i \in 1..(m - 1) : qs[i] # p
      <4> TAKE i \in 1..(m - 1)
      <4>1. i \in 1..m /\ m \in 1..m /\ i # m
        BY <1>2, <1>4
      <4> QED BY <4>1, <1>3, <1>6
    <3> QED BY <3>1, <3>2, <3>3, <1>3, <1>6
  <2>5. IsInjective(rs)
    <3>1. \A i \in 1..(m - 1) : i \in 1..m
      BY <1>2
    <3> QED BY <3>1, <1>5, <1>6 DEF IsInjective
  <2> QED BY <2>2, <2>3, <2>4, <2>5 DEF Disciplined
<1> QED BY <1>1, <1>5, <1>9, <1>11, <1>12 DEF Ordered, gs, rs, n, m, p

(***************************************************************************)
(* The actions.                                                            *)
(***************************************************************************)

\* A verification or a computation that goes on is still a frame.
LEMMA SameFrame ==
  ASSUME NEW f, IsFrame(f), NEW diag, NEW sub, NEW rest, NEW stale
  PROVE  /\ LET g == SkipImport(f, diag) IN IsFrame(g) /\ g.op = f.op /\ g.path = f.path
         /\ LET g == MergeImport(f, sub) IN IsFrame(g) /\ g.op = f.op /\ g.path = f.path
         /\ LET g == [f EXCEPT !.rest = rest, !.stale = stale] IN
              IsFrame(g) /\ g.op = f.op /\ g.path = f.path
BY DEF IsFrame, FrameFields, SkipImport, MergeImport

\* The top of a stack that is not empty.
LEMMA TopFrame ==
  ASSUME StackInv, NEW op, Running(op)
  PROVE  Len(frames) > 0 /\ IsFrame(Top) /\ Top.op = op /\ Top = frames[Len(frames)]
<1>1. Len(frames) \in Nat /\ frames # <<>> /\ DOMAIN frames = 1..Len(frames)
  BY AnySeq DEF StackInv, Ordered, Framed, Running, Idle
<1>2. Len(frames) > 0
  BY <1>1, EmptySeq DEF StackInv, Ordered, Framed
<1>3. Len(frames) \in 1..Len(frames)
  BY <1>1, <1>2
<1> QED BY <1>2, <1>3 DEF StackInv, Ordered, Framed, Running, Top

LEMMA StackStarts == Init => StackInv
<1> SUFFICES ASSUME Init PROVE StackInv
  OBVIOUS
<1>1. frames = <<>> /\ queryStack = <<>> /\ inFlight = {}
  BY DEF Init
<1>2. Len(<<>>) = 0 /\ DOMAIN <<>> = 1..0 /\ \A i : i \notin 1..0
  OBVIOUS
<1>3. Depth(<<>>, 0) = 0
  BY DepthGrows
<1>4. Framed(<<>>) /\ IsSequence(<<>>)
  BY <1>2, ShortSequences DEF Framed
<1>5. Chained(<<>>, {})
  BY <1>2 DEF Chained
<1>6. Disciplined(<<>>, <<>>, {})
  BY <1>2, <1>3 DEF Disciplined, ToSet, IsInjective
<1> QED BY <1>1, <1>4, <1>5, <1>6 DEF StackInv, Ordered

\* Steps that leave the stack alone.
LEMMA StackUnchanged ==
  ASSUME StackInv, UNCHANGED <<frames, queryStack, inFlight>>
  PROVE  StackInv'
BY DEF StackInv

\* Every step of the recursion keeps the stack in order.
LEMMA StepKeeps == StackInv /\ Step => StackInv'
<1> SUFFICES ASSUME StackInv, Step PROVE StackInv'
  OBVIOUS
<1>1. CASE EnterCycle
  <2>1. Running("FileEnv") /\ frames' = Below /\ inFlight' = inFlight /\ queryStack' = queryStack
    BY <1>1 DEF EnterCycle, ReturnTo
  <2> QED BY <2>1, TopFrame, Returned DEF StackInv, Below
<1>2. CASE EnterVerified
  <2>1. Running("FileEnv") /\ frames' = Below /\ inFlight' = inFlight /\ queryStack' = queryStack
    BY <1>2 DEF EnterVerified, ReturnTo
  <2> QED BY <2>1, TopFrame, Returned DEF StackInv, Below
<1>3. CASE EnterUnverified
  <2>1. PICK rest, stale :
          /\ Running("FileEnv") /\ Top.path \notin inFlight
          /\ frames' = Replace(VerifyFrame(Top.path, rest, stale))
          /\ inFlight' = inFlight /\ queryStack' = queryStack
    BY <1>3 DEF EnterUnverified
  <2> DEFINE f == VerifyFrame(Top.path, rest, stale)
  <2>2. IsFrame(f) /\ f.op = "Verify" /\ f.path = Top.path
    BY DEF IsFrame, FrameFields, VerifyFrame
  <2> HIDE DEF f
  <2>3. frames' = Append(SubSeq(frames, 1, Len(frames) - 1), f)
    BY <2>1 DEF Replace, Below, f
  <2> QED BY <2>1, <2>2, <2>3, TopFrame, TopReplaced DEF StackInv
<1>4. CASE VerifyTerms \/ VerifyResolve \/ VerifyImportReturned
  <2>1. PICK changed :
          /\ Running("Verify") /\ frames' = Advance(Top, changed)
          /\ inFlight' = inFlight /\ queryStack' = queryStack
    BY <1>4 DEF VerifyTerms, VerifyResolve, VerifyImportReturned, entries
  <2> DEFINE stale == Top.stale \/ changed > verifiedAt[EnvKey(Top.path)]
             f == [Top EXCEPT !.rest = Tail(Top.rest), !.stale = stale]
  <2>2. f = [Top EXCEPT !.rest = Tail(@), !.stale = @ \/ changed > verifiedAt[EnvKey(Top.path)]]
    OBVIOUS
  <2> HIDE DEF stale
  <2>3. IsFrame(f) /\ f.op = Top.op /\ f.path = Top.path
    <3>1. IsFrame(Top)
      BY <2>1, TopFrame
    <3> QED BY <3>1 DEF IsFrame, FrameFields
  <2>4. frames' = Append(SubSeq(frames, 1, Len(frames) - 1), f)
    BY <2>1, <2>2 DEF Advance, Replace, Below
  <2> HIDE DEF f
  <2> QED BY <2>1, <2>3, <2>4, TopFrame, TopReplaced DEF StackInv
<1>5. CASE VerifyImport
  <2>1. PICK q : frames' = Append(frames, CallFrame(q)) /\ inFlight' = inFlight /\ queryStack' = queryStack
    BY <1>5 DEF VerifyImport, entries
  <2> QED BY <2>1, Called DEF StackInv
<1>6. CASE VerifyUnchanged
  <2>1. Running("Verify") /\ frames' = Below /\ inFlight' = inFlight /\ queryStack' = queryStack
    BY <1>6 DEF VerifyUnchanged, ReturnTo
  <2> QED BY <2>1, TopFrame, Returned DEF StackInv, Below
<1>7. CASE BeginCompute
  <2>1. PICK rest, diags :
          /\ Running("Verify") /\ frames' = Replace(ComputeFrame(Top.path, rest, diags))
          /\ inFlight' = inFlight \cup {Top.path} /\ queryStack' = Append(queryStack, Top.path)
    BY <1>7 DEF BeginCompute, PushStack
  <2> DEFINE f == ComputeFrame(Top.path, rest, diags)
  <2>2. IsFrame(f) /\ f.op = "Compute" /\ f.path = Top.path
    BY DEF IsFrame, FrameFields, ComputeFrame
  <2> HIDE DEF f
  <2>3. frames' = Append(SubSeq(frames, 1, Len(frames) - 1), f)
    BY <2>1 DEF Replace, Below, f
  <2>4. inFlight' = inFlight \cup {f.path} /\ queryStack' = Append(queryStack, f.path)
    BY <2>1, <2>2
  <2>5. Len(frames) > 0 /\ frames[Len(frames)].op = "Verify" /\ f.path = frames[Len(frames)].path
    BY <2>1, <2>2, TopFrame
  <2> QED BY <2>2, <2>3, <2>4, <2>5, Began DEF StackInv
<1>8. CASE ComputeImport \/ ComputeImportReturned
  <2>1. /\ Running("Compute") /\ inFlight' = inFlight /\ queryStack' = queryStack
        /\ \/ \E q : frames' = Append(frames, CallFrame(q))
           \/ \E diag : frames' = Replace(SkipImport(Top, diag))
           \/ \E sub : frames' = Replace(MergeImport(Top, sub))
    BY <1>8 DEF ComputeImport, ComputeImportReturned, entries
  <2>2. CASE \E q : frames' = Append(frames, CallFrame(q))
    BY <2>1, <2>2, Called DEF StackInv
  <2>3. ASSUME NEW f, IsFrame(f), f.op = Top.op, f.path = Top.path, frames' = Replace(f)
        PROVE  StackInv'
    BY <2>1, <2>3, TopFrame, TopReplaced DEF StackInv, Replace, Below
  <2>4. CASE \E diag : frames' = Replace(SkipImport(Top, diag))
    BY <2>1, <2>3, <2>4, TopFrame, SameFrame
  <2>5. CASE \E sub : frames' = Replace(MergeImport(Top, sub))
    BY <2>1, <2>3, <2>5, TopFrame, SameFrame
  <2> QED BY <2>1, <2>2, <2>4, <2>5
<1>9. CASE FinishCompute
  <2>1. /\ Running("Compute") /\ frames' = Below
        /\ inFlight' = inFlight \ {Top.path}
        /\ queryStack' = SubSeq(queryStack, 1, Len(queryStack) - 1)
    BY <1>9 DEF FinishCompute, PopStack, ReturnTo
  <2> QED BY <2>1, TopFrame, Finished DEF StackInv, Below, Top
<1> QED BY <1>1, <1>2, <1>3, <1>4, <1>5, <1>6, <1>7, <1>8, <1>9 DEF Step

\* A request starts a call on the empty stack; input writes leave it alone.
LEMMA CallerKeeps == StackInv /\ (Input \/ Client) => StackInv'
<1> SUFFICES ASSUME StackInv, Input \/ Client PROVE StackInv'
  OBVIOUS
<1>1. ASSUME NEW p, Request(p) PROVE StackInv'
  <2>1. /\ frames = <<>> /\ frames' = <<CallFrame(p)>>
        /\ inFlight' = inFlight /\ queryStack' = queryStack
    BY <1>1 DEF Request, Idle, entries
  <2>2. frames' = Append(frames, CallFrame(p))
    BY <2>1
  <2> QED BY <2>1, <2>2, Called DEF StackInv
<1>2. ASSUME NEW p, ReadTerms(p) PROVE StackInv'
  BY <1>2, StackUnchanged DEF ReadTerms, control
<1>3. CASE Input
  BY <1>3, StackUnchanged
  DEF Input, SetBuffer, ClearBuffer, Touch, AddSearchPath, WriteFile, EjectLibrary, Bump,
      engineVars, entries, control
<1> QED BY <1>1, <1>2, <1>3 DEF Client

(***************************************************************************)
(* The stack.                                                              *)
(***************************************************************************)

\* Whatever the files import and however they are edited between requests, the
\* query stack is the chain of computations and InFlight its members.
THEOREM StackHolds == Spec => []StackDiscipline
<1>1. StackInv /\ [Next]_vars => StackInv'
  <2> SUFFICES ASSUME StackInv, [Next]_vars PROVE StackInv'
    OBVIOUS
  <2>1. CASE Next
    BY <2>1, StepKeeps, CallerKeeps DEF Next
  <2>2. CASE UNCHANGED vars
    BY <2>2, StackUnchanged DEF vars, engineVars, entries, control
  <2> QED BY <2>1, <2>2
<1>2. StackInv => StackDiscipline
  BY DEF StackInv, Ordered, Disciplined, StackDiscipline
<1> QED BY StackStarts, <1>1, <1>2, PTL DEF Spec

(***************************************************************************)
(* Files.                                                                  *)
(***************************************************************************)

\* The file system keeps its types; a file is known by its canonical path.
FilesOK ==
  /\ buffers \in Overlay /\ disk \in Overlay /\ diskCache \in Overlay
  /\ searchPaths \in Seq(Roots)
  /\ unnotified \subseteq Paths
  /\ \A p \in Paths : disk[p] # NoText => Canonical(p) = p
  /\ \A p \in Paths : diskCache[p] # NoText => Canonical(p) = p /\ AllowDiskReads

\* A read may leave the text of one file in the cache.
CacheGrows ==
  \/ diskCache' = diskCache
  \/ \E k \in Paths : /\ AllowDiskReads /\ disk[k] # NoText
                      /\ diskCache' = Cached(k)

\* Where a spec is looked for is a path.
LEMMA PlacesArePaths ==
  ASSUME FilesOK, NEW s \in Specs, NEW p \in Paths
  PROVE  /\ IsSequence(Places(s, p))
         /\ \A i \in DOMAIN Places(s, p) : Places(s, p)[i] \in Paths
<1> DEFINE a == IF Beside(p, s) = NoPath THEN <<>> ELSE <<Beside(p, s)>>
           b == [i \in DOMAIN searchPaths |-> Under(searchPaths[i], s)]
<1>1. IsSequence(a) /\ \A i \in 1..Len(a) : a[i] \in Paths
  BY ShortSequences, VfsAssumption DEF VfsAssumption
<1>2. /\ searchPaths \in Seq(Roots) /\ Len(searchPaths) \in Nat
      /\ DOMAIN searchPaths = 1..Len(searchPaths)
      /\ \A i \in 1..Len(searchPaths) : searchPaths[i] \in Roots
  BY ElementOfSeq, LenProperties DEF FilesOK
<1>3. IsSequence(b) /\ Len(b) = Len(searchPaths) /\ DOMAIN b = 1..Len(searchPaths)
  <2>1. b = [k \in 1..Len(searchPaths) |-> b[k]]
    BY <1>2
  <2> HIDE DEF b
  <2> QED BY <2>1, <1>2, Tabled
<1>4. \A i \in 1..Len(b) : b[i] \in Paths
  BY <1>2, <1>3, VfsAssumption DEF VfsAssumption
<1>5. Places(s, p) = a \o b
  BY DEF Places
<1> HIDE DEF a, b
<1>6. /\ IsSequence(a \o b) /\ Len(a \o b) = Len(a) + Len(b)
      /\ \A i \in 1..Len(a) : (a \o b)[i] = a[i]
      /\ \A i \in 1..Len(b) : (a \o b)[Len(a) + i] = b[i]
  <2>1. IsSequence(a) /\ IsSequence(b)
    BY <1>1, <1>3
  <2> QED BY ONLY <2>1, Concatenated
<1>7. ASSUME NEW i \in 1..Len(a \o b) PROVE (a \o b)[i] \in Paths
  <2>1. Len(a) \in Nat /\ Len(b) \in Nat
    BY <1>1, <1>3, AnySeq
  <2>2. CASE i <= Len(a)
    BY <2>1, <2>2, <1>1, <1>6
  <2>3. CASE i > Len(a)
    <3>1. i - Len(a) \in 1..Len(b) /\ Len(a) + (i - Len(a)) = i
      BY <2>1, <2>3, <1>6
    <3>2. (a \o b)[Len(a) + (i - Len(a))] = b[i - Len(a)]
      BY <3>1, <1>6
    <3> QED BY <3>1, <3>2, <1>4
  <2> QED BY <2>1, <2>2, <2>3
<1>8. DOMAIN (a \o b) = 1..Len(a \o b)
  BY <1>6, AnySeq
<1> QED BY <1>5, <1>6, <1>7, <1>8

\* The first place that answers, answers.
LEMMA FirstPlaceAnswers ==
  ASSUME FilesOK, NEW s \in Specs, NEW p \in Paths
  PROVE  FirstPlace(s, p) = NoPath \/ (FirstPlace(s, p) \in Paths /\ AtPlace(FirstPlace(s, p)) # NoPath)
<1> DEFINE places == Places(s, p)
           hits == {i \in DOMAIN places : AtPlace(places[i]) # NoPath}
           first == CHOOSE i \in hits : \A j \in hits : i <= j
<1>1. FirstPlace(s, p) = IF hits = {} THEN NoPath ELSE places[first]
  BY DEF FirstPlace
<1>2. IsSequence(places) /\ \A i \in DOMAIN places : places[i] \in Paths
  BY PlacesArePaths
<1>3. DOMAIN places = 1..Len(places) /\ Len(places) \in Nat
  BY <1>2, AnySeq
<1>4. hits \in SUBSET Nat
  BY <1>3
<1>5. hits # {} => first \in hits
  <2> HIDE DEF hits, places
  <2>1. hits # {} => Min(hits) \in hits
    BY <1>4, MinIsLeast
  <2> QED BY <2>1 DEF Min
<1> HIDE DEF first
<1> QED BY <1>1, <1>2, <1>5

\* What a lookup finds is a path.
LEMMA LocateType ==
  ASSUME FilesOK, NEW s \in Specs, NEW p \in Paths
  PROVE  Locate(s, p) \in Paths \cup {NoPath}
<1>1. s \in Paths /\ \A q \in Paths : Normal(q) \in Paths /\ Canonical(q) \in Paths
  BY VfsAssumption DEF VfsAssumption
<1>2. \A q \in Paths : Buffered(q) \in Paths \cup {NoPath} /\ TryDisk(q) \in Paths \cup {NoPath}
  BY <1>1 DEF Buffered, TryDisk
<1>3. \A q \in Paths : AtPlace(q) \in Paths \cup {NoPath}
  BY <1>2 DEF AtPlace
<1> QED BY <1>1, <1>2, <1>3, FirstPlaceAnswers DEF Locate

\* What a read finds is a text.
LEMMA ReadType ==
  ASSUME FilesOK, NEW p \in Paths
  PROVE  ReadText(p) \in Texts \cup {NoText}
<1>1. TryDisk(p) # NoPath => TryDisk(p) \in Paths
  BY VfsAssumption DEF TryDisk, VfsAssumption
<1>2. TryDisk(p) # NoPath => DiskText(TryDisk(p)) \in Texts \cup {NoText}
  BY <1>1 DEF FilesOK, Overlay, DiskText
<1> QED BY <1>2, VfsAssumption DEF ReadText, FilesOK, Overlay, VfsAssumption

LEMMA ReadsGrow ==
  ASSUME FilesOK, NEW p \in Paths
  PROVE  /\ diskCache' = CacheAfterRead(p) => CacheGrows
         /\ \A s \in Specs : diskCache' = CacheAfterLocate(s, p) => CacheGrows
<1>1. \A q \in Paths : TryDisk(q) # NoPath => TryDisk(q) \in Paths /\ AllowDiskReads /\ disk[TryDisk(q)] # NoText
  BY VfsAssumption DEF TryDisk, VfsAssumption
<1>2. diskCache' = CacheAfterRead(p) => CacheGrows
  BY <1>1 DEF CacheAfterRead, CacheGrows
<1>3. ASSUME NEW s \in Specs, diskCache' = CacheAfterLocate(s, p) PROVE CacheGrows
  <2>1. CASE Buffered(s) = NoPath /\ FirstPlace(s, p) # NoPath /\ Buffered(FirstPlace(s, p)) = NoPath
    <3>1. FirstPlace(s, p) \in Paths /\ TryDisk(FirstPlace(s, p)) # NoPath
      BY <2>1, FirstPlaceAnswers DEF AtPlace
    <3> QED BY <3>1, <1>1, <1>3, <2>1 DEF CacheAfterLocate, CacheGrows
  <2>2. CASE ~ (Buffered(s) = NoPath /\ FirstPlace(s, p) # NoPath /\ Buffered(FirstPlace(s, p)) = NoPath)
    BY <1>3, <2>2 DEF CacheAfterLocate, CacheGrows
  <2> QED BY <2>1, <2>2
<1> QED BY <1>2, <1>3

\* Reading keeps the types of the files.
LEMMA FilesGrow ==
  ASSUME FilesOK, CacheGrows, UNCHANGED <<buffers, disk, searchPaths, unnotified>>
  PROVE  FilesOK'
<1>1. CASE diskCache' = diskCache
  BY <1>1 DEF FilesOK
<1>2. ASSUME NEW k \in Paths, AllowDiskReads, disk[k] # NoText, diskCache' = Cached(k)
      PROVE  FilesOK'
  <2>1. DiskText(k) \in Texts \cup {NoText} /\ Canonical(k) = k
    BY <1>2 DEF FilesOK, Overlay, DiskText
  <2>2. diskCache' \in Overlay /\ \A q \in Paths : diskCache'[q] = IF q = k THEN DiskText(k) ELSE diskCache[q]
    BY <1>2, <2>1 DEF FilesOK, Overlay, Cached
  <2> QED BY <1>2, <2>1, <2>2 DEF FilesOK
<1> QED BY <1>1, <1>2 DEF CacheGrows

\* So do the writes to the file system, the session's own and other programs'.
LEMMA FilesWritten ==
  ASSUME FilesOK
  PROVE  /\ \A p \in Paths, t \in Texts : VfsSetBuffer(p, t) => FilesOK'
         /\ \A p \in Paths : VfsClearBuffer(p) \/ VfsForget(p) => FilesOK'
         /\ \A r \in Roots : VfsAddSearchPath(r) => FilesOK'
         /\ \A p \in Paths, t \in Texts \cup {NoText} : DiskWrite(p, t) => FilesOK'
<1>1. ASSUME NEW p \in Paths, NEW t \in Texts, VfsSetBuffer(p, t) PROVE FilesOK'
  BY <1>1 DEF VfsSetBuffer, FilesOK, Overlay
<1>2. ASSUME NEW p \in Paths, VfsClearBuffer(p) PROVE FilesOK'
  BY <1>2 DEF VfsClearBuffer, FilesOK, Overlay
<1>3. ASSUME NEW p \in Paths, VfsForget(p) PROVE FilesOK'
  BY <1>3 DEF VfsForget, FilesOK, Overlay
<1>4. ASSUME NEW r \in Roots, VfsAddSearchPath(r) PROVE FilesOK'
  <2>1. Append(searchPaths, r) \in Seq(Roots)
    BY AppendProperties DEF FilesOK
  <2> QED BY <1>4, <2>1 DEF VfsAddSearchPath, FilesOK
<1>5. ASSUME NEW p \in Paths, NEW t \in Texts \cup {NoText}, DiskWrite(p, t) PROVE FilesOK'
  <2>1. /\ Canonical(p) \in Paths /\ Canonical(Canonical(p)) = Canonical(p)
        /\ disk' = [disk EXCEPT ![Canonical(p)] = t] /\ unnotified' = unnotified \cup {Canonical(p)}
        /\ buffers' = buffers /\ diskCache' = diskCache /\ searchPaths' = searchPaths
    BY <1>5, VfsAssumption DEF DiskWrite, VfsAssumption
  <2> QED BY <2>1 DEF FilesOK, Overlay
<1> QED BY <1>1, <1>2, <1>3, <1>4, <1>5

(***************************************************************************)
(* Keys.                                                                   *)
(***************************************************************************)

\* Keys of different queries, and of different paths, differ.
LEMMA KeysApart ==
  /\ \A p \in Paths : TextKey(p) \in Key /\ TermsKey(p) \in DepKey /\ EnvKey(p) \in DepKey
  /\ \A s \in Specs, p \in Paths : ResolveKey(s, p) \in DepKey
  /\ DepKey \subseteq Key
  /\ \A p, q : /\ TermsKey(p) # TextKey(q) /\ TermsKey(p) # EnvKey(q) /\ TextKey(p) # EnvKey(q)
               /\ TermsKey(p) # VfsKey /\ TextKey(p) # VfsKey
               /\ TermsKey(p) = TermsKey(q) => p = q
               /\ TextKey(p) = TextKey(q) => p = q
  /\ \A s, p, q : ResolveKey(s, p) # TermsKey(q) /\ ResolveKey(s, p) # TextKey(q)
<1> DEFINE K == {"FileText", "Terms", "FileEnv", "Resolve", "VfsRevision"}
<1>1. \A p, q : /\ TermsKey(p) # TextKey(q) /\ TermsKey(p) # EnvKey(q) /\ TextKey(p) # EnvKey(q)
                /\ TermsKey(p) = TermsKey(q) => p = q
                /\ TextKey(p) = TextKey(q) => p = q
  BY DEF TermsKey, TextKey, EnvKey
<1>2. \A p : TermsKey(p)[1] = "Terms" /\ TextKey(p)[1] = "FileText" /\ EnvKey(p)[1] = "FileEnv"
  BY DEF TermsKey, TextKey, EnvKey
<1>3. VfsKey[1] = "VfsRevision" /\ \A s, p : ResolveKey(s, p)[1] = "Resolve"
  BY DEF VfsKey, ResolveKey
<1>4. \A p : /\ TermsKey(p) # VfsKey /\ TextKey(p) # VfsKey /\ EnvKey(p) # VfsKey
             /\ \A s, q : /\ ResolveKey(s, q) # VfsKey /\ ResolveKey(s, q) # TextKey(p)
                          /\ ResolveKey(s, q) # TermsKey(p)
  BY <1>2, <1>3, Zenon
<1>5. \A p, q : EnvKey(p) # TextKey(q)
  BY <1>2, Zenon
<1>6. DepKey \subseteq Key /\ \A p \in Paths : TextKey(p) \in Key
  BY DEF DepKey, Key
<1>7. \A p \in Paths : TermsKey(p) \in DepKey /\ EnvKey(p) \in DepKey
  BY <1>1, <1>4, <1>5 DEF DepKey, Key
<1>8. \A s \in Specs, p \in Paths : ResolveKey(s, p) \in DepKey
  BY <1>4 DEF DepKey, Key
<1> QED BY <1>1, <1>4, <1>6, <1>7, <1>8

\* A dependency is the terms or the environment of a file, or a resolution.
LEMMA Dependencies ==
  ASSUME NEW d \in DepKey
  PROVE  /\ d[1] = "Terms" => d[2] \in Paths /\ d = TermsKey(d[2])
         /\ d[1] = "FileEnv" => d[2] \in Paths /\ d = EnvKey(d[2])
         /\ d[1] = "Resolve" => d[2] \in Specs /\ d[3] \in Paths /\ d = ResolveKey(d[2], d[3])
<1>1. \/ \E p \in Paths : d = TermsKey(p)
      \/ \E p \in Paths : d = EnvKey(p)
      \/ \E s \in Specs, p \in Paths : d = ResolveKey(s, p)
  BY DEF DepKey, Key
<1>2. CASE \E p \in Paths : d = TermsKey(p)
  BY <1>2 DEF TermsKey
<1>3. CASE \E p \in Paths : d = EnvKey(p)
  BY <1>3 DEF EnvKey
<1>4. CASE \E s \in Specs, p \in Paths : d = ResolveKey(s, p)
  BY <1>4 DEF ResolveKey
<1> QED BY <1>1, <1>2, <1>3, <1>4

(***************************************************************************)
(* Entries and frames.                                                     *)
(***************************************************************************)

\* No stamp is later than the revision.
StampsOK ==
  /\ revision \in Nat \ {0}
  /\ changedAt \in [Key -> 0..revision] /\ verifiedAt \in [Key -> 0..revision]

\* The terms of a file that was read are those of a text.
IsTerms(r) ==
  /\ r.text \in Texts \cup {NoText}
  /\ r.root # NoTerm => r.root.imports \in Seq(Specs)

RecordsOK ==
  /\ deps \in [Paths -> Seq(DepKey)]
  /\ DOMAIN terms = Paths /\ \A p \in Paths : IsTerms(terms[p])
  /\ resolved \in [Specs \X Paths -> Paths \cup {NoPath}]

\* A verification walks dependencies, a computation imports.
IsCall(f) ==
  /\ IsFrame(f) /\ f.path \in Paths /\ f.op \in {"FileEnv", "Verify", "Compute"}
  /\ f.op = "Verify" => f.rest \in Seq(DepKey)
  /\ f.op = "Compute" => f.rest \in Seq(Specs)

Calls(fs) == IsSequence(fs) /\ \A i \in 1..Len(fs) : IsCall(fs[i])

QueryInv == FilesOK /\ StampsOK /\ RecordsOK /\ Calls(frames)

\* The call stack keeps its type when its top is left, replaced or covered.
LEMMA CallsKept ==
  ASSUME NEW fs, Calls(fs)
  PROVE  /\ \A p \in Paths : Calls(Append(fs, CallFrame(p)))
         /\ Len(fs) > 0 => Calls(SubSeq(fs, 1, Len(fs) - 1))
         /\ \A f : Len(fs) > 0 /\ IsCall(f) => Calls(Append(SubSeq(fs, 1, Len(fs) - 1), f))
<1>1. Len(fs) \in Nat /\ IsSequence(fs)
  BY AnySeq DEF Calls
<1>2. ASSUME NEW p \in Paths PROVE Calls(Append(fs, CallFrame(p)))
  <2>1. IsCall(CallFrame(p))
    BY DEF IsCall, IsFrame, FrameFields, CallFrame
  <2>2. \A i \in 1..(Len(fs) + 1) : i = Len(fs) + 1 \/ i \in 1..Len(fs)
    BY <1>1
  <2>3. LET gs == Append(fs, CallFrame(p)) IN
        /\ IsSequence(gs) /\ Len(gs) = Len(fs) + 1
        /\ \A i \in 1..Len(fs) : gs[i] = fs[i]
        /\ gs[Len(fs) + 1] = CallFrame(p)
    BY <1>1, Appended
  <2> QED BY <2>1, <2>2, <2>3 DEF Calls
<1>3. ASSUME Len(fs) > 0 PROVE Calls(SubSeq(fs, 1, Len(fs) - 1))
  <2>1. \A i \in 1..(Len(fs) - 1) : i \in 1..Len(fs)
    BY <1>1
  <2>2. LET gs == SubSeq(fs, 1, Len(fs) - 1) IN
        /\ IsSequence(gs) /\ Len(gs) = Len(fs) - 1
        /\ \A i \in 1..(Len(fs) - 1) : gs[i] = fs[i]
    BY <1>1, <1>3, Shortened
  <2> QED BY <2>1, <2>2 DEF Calls
<1>4. ASSUME NEW f, Len(fs) > 0, IsCall(f) PROVE Calls(Append(SubSeq(fs, 1, Len(fs) - 1), f))
  <2>1. \A i \in 1..Len(fs) : i = Len(fs) \/ i \in 1..(Len(fs) - 1)
    BY <1>1
  <2>2. \A i \in 1..(Len(fs) - 1) : i \in 1..Len(fs)
    BY <1>1
  <2>3. LET gs == Append(SubSeq(fs, 1, Len(fs) - 1), f) IN
        /\ IsSequence(gs) /\ Len(gs) = Len(fs)
        /\ \A i \in 1..(Len(fs) - 1) : gs[i] = fs[i]
        /\ gs[Len(fs)] = f
    BY <1>1, <1>4, Replaced
  <2> QED BY <1>4, <2>1, <2>2, <2>3 DEF Calls
<1> QED BY <1>2, <1>3, <1>4

\* The top of a running call.
LEMMA TopCall ==
  ASSUME QueryInv, NEW op, Running(op)
  PROVE  Len(frames) > 0 /\ IsCall(Top) /\ Top.op = op
<1>1. Len(frames) \in Nat /\ frames # <<>> /\ IsSequence(frames)
  BY AnySeq DEF QueryInv, Calls, Running, Idle
<1>2. Len(frames) > 0
  BY <1>1, ShortSequences
<1>3. Len(frames) \in 1..Len(frames)
  BY <1>1, <1>2
<1> QED BY <1>2, <1>3 DEF QueryInv, Calls, Running, Top

\* The first of what is left to do, and the frame that goes on behind it.
LEMMA RestOfSeq ==
  ASSUME NEW S, NEW rest \in Seq(S), rest # <<>>
  PROVE  Head(rest) \in S /\ Tail(rest) \in Seq(S)
BY HeadTailProperties

\* A recorded dependency is a dependency.
LEMMA RecordedType ==
  ASSUME RecordsOK, NEW k \in DepKey
  PROVE  Recorded(k) \in [Paths -> Seq(DepKey)]
<1>1. \A p \in Paths : Append(deps[p], k) \in Seq(DepKey)
  BY AppendProperties DEF RecordsOK
<1> QED BY <1>1 DEF RecordsOK, Recorded

(***************************************************************************)
(* What a step does to the files and the entries.                          *)
(***************************************************************************)

Steady == UNCHANGED <<buffers, disk, searchPaths, unnotified, stamps>>

\* The terms of no file are looked at.
Quiet ==
  /\ CacheGrows /\ terms' = terms
  /\ \A p \in Paths : /\ changedAt'[TextKey(p)] = changedAt[TextKey(p)]
                      /\ verifiedAt'[TermsKey(p)] = verifiedAt[TermsKey(p)]

Effect == Steady /\ (Quiet \/ \E p \in Paths : RefreshTerms(p))

\* A refresh of the terms of a file keeps the types.
LEMMA TermsRefreshed ==
  ASSUME QueryInv, Steady, NEW p \in Paths, RefreshTerms(p)
  PROVE  /\ FilesOK' /\ StampsOK' /\ CacheGrows
         /\ IsTerms(TermsNow(p))
         /\ DOMAIN terms' = Paths /\ \A q \in Paths : IsTerms(terms'[q])
<1>1. CacheGrows
  BY ReadsGrow DEF RefreshTerms, CacheGrows, QueryInv
<1>2. FilesOK'
  BY <1>1, FilesGrow DEF QueryInv, Steady
<1>3. IsTerms(Parsed(p))
  <2>1. ReadText(p) \in Texts \cup {NoText}
    BY ReadType DEF QueryInv
  <2>2. CASE ReadText(p) = NoText
    <3>1. Parsed(p).text = NoText /\ Parsed(p).root = NoTerm
      BY <2>2 DEF Parsed, NoTerms
    <3> QED BY <3>1 DEF IsTerms
  <2>3. CASE ReadText(p) # NoText
    <3>1. Parsed(p).text = ReadText(p) /\ Parsed(p).root = ReadText(p).root
      BY <2>3 DEF Parsed
    <3>2. ReadText(p).root.imports \in Seq(Specs)
      BY <2>1, <2>3, EngineAssumption DEF EngineAssumption
    <3> QED BY <3>1, <3>2, <2>1 DEF IsTerms
  <2> QED BY <2>2, <2>3
<1>4. IsTerms(TermsNow(p))
  BY <1>3 DEF TermsNow, QueryInv, RecordsOK
<1>5. DOMAIN terms' = Paths /\ \A q \in Paths : IsTerms(terms'[q])
  BY <1>4 DEF RefreshTerms, QueryInv, RecordsOK
<1>6. StampsOK'
  <2>1. TermsKey(p) \in Key
    BY KeysApart
  <2>2. TermsChangedAt(p) \in 0..revision /\ revision \in 0..revision
    BY <2>1 DEF TermsChangedAt, QueryInv, StampsOK
  <2> QED BY <2>1, <2>2 DEF RefreshTerms, QueryInv, StampsOK, Steady, stamps
<1> QED BY <1>1, <1>2, <1>4, <1>5, <1>6

\* So does a refresh of a resolution, which looks at no terms.
LEMMA ResolveRefreshed ==
  ASSUME QueryInv, Steady, NEW s \in Specs, NEW p \in Paths, RefreshResolve(s, p), terms' = terms
  PROVE  /\ FilesOK' /\ StampsOK' /\ Quiet
         /\ ResolveNow(s, p) \in Paths \cup {NoPath}
         /\ resolved' \in [Specs \X Paths -> Paths \cup {NoPath}]
<1>1. CacheGrows
  BY ReadsGrow DEF RefreshResolve, CacheGrows, QueryInv
<1>2. FilesOK'
  BY <1>1, FilesGrow DEF QueryInv, Steady
<1>3. ResolveNow(s, p) \in Paths \cup {NoPath}
  BY LocateType DEF ResolveNow, QueryInv, RecordsOK
<1>4. resolved' \in [Specs \X Paths -> Paths \cup {NoPath}]
  BY <1>3 DEF RefreshResolve, QueryInv, RecordsOK
<1>5. ResolveKey(s, p) \in Key
  BY KeysApart
<1>6. ResolveChangedAt(s, p) \in 0..revision /\ revision \in 0..revision
  BY <1>5 DEF ResolveChangedAt, QueryInv, StampsOK
<1>7. StampsOK'
  BY <1>5, <1>6 DEF RefreshResolve, QueryInv, StampsOK, Steady, stamps
<1>8. Quiet
  <2>1. \A q \in Paths : /\ TextKey(q) \in Key /\ TextKey(q) # ResolveKey(s, p)
                         /\ TermsKey(q) \in Key /\ TermsKey(q) # ResolveKey(s, p)
    BY KeysApart
  <2>2. /\ changedAt' = [changedAt EXCEPT ![ResolveKey(s, p)] = ResolveChangedAt(s, p)]
        /\ verifiedAt' = [verifiedAt EXCEPT ![ResolveKey(s, p)] = revision]
    BY DEF RefreshResolve
  <2>3. DOMAIN changedAt = Key /\ DOMAIN verifiedAt = Key
    BY DEF QueryInv, StampsOK
  <2> QED BY <1>1, <2>1, <2>2, <2>3 DEF Quiet
<1> QED BY <1>2, <1>3, <1>4, <1>7, <1>8

\* Steps that change neither files nor entries but the stack and dependencies.
LEMMA NothingRead ==
  ASSUME QueryInv, UNCHANGED <<vfsVars, stamps, changedAt, verifiedAt, terms, resolved>>
  PROVE  FilesOK' /\ StampsOK' /\ Steady /\ Quiet
<1>1. /\ buffers' = buffers /\ disk' = disk /\ diskCache' = diskCache
      /\ searchPaths' = searchPaths /\ unnotified' = unnotified
      /\ revision' = revision /\ changedAt' = changedAt /\ verifiedAt' = verifiedAt
      /\ terms' = terms /\ root' = root
  BY DEF vfsVars, stamps
<1>2. FilesOK' /\ StampsOK'
  BY <1>1 DEF QueryInv, FilesOK, StampsOK
<1> QED BY <1>1, <1>2 DEF Steady, Quiet, CacheGrows, stamps

(***************************************************************************)
(* The actions.                                                            *)
(***************************************************************************)

LEMMA EnterKeeps ==
  ASSUME QueryInv, EnterCycle \/ EnterVerified \/ EnterUnverified
  PROVE  QueryInv' /\ Effect
<1>1. /\ Running("FileEnv") /\ deps' = Recorded(EnvKey(Top.path))
      /\ UNCHANGED <<vfsVars, stamps, changedAt, verifiedAt, terms, resolved>>
  BY DEF EnterCycle, EnterVerified, EnterUnverified, results
<1>2. Len(frames) > 0 /\ IsCall(Top)
  BY <1>1, TopCall
<1>3. FilesOK' /\ StampsOK' /\ Steady /\ Quiet
  BY <1>1, NothingRead
<1>4. RecordsOK'
  <2>1. deps' \in [Paths -> Seq(DepKey)]
    BY <1>1, <1>2, KeysApart, RecordedType DEF IsCall, QueryInv
  <2> QED BY <1>1, <2>1 DEF QueryInv, RecordsOK
<1>5. Calls(frames')
  <2>1. CASE EnterCycle \/ EnterVerified
    BY <2>1, <1>2, CallsKept DEF EnterCycle, EnterVerified, ReturnTo, Below, QueryInv
  <2>2. CASE EnterUnverified
    <3>1. PICK rest, stale : /\ rest = <<>> \/ rest = deps[Top.path]
                             /\ frames' = Replace(VerifyFrame(Top.path, rest, stale))
      BY <2>2 DEF EnterUnverified
    <3>2. rest \in Seq(DepKey)
      BY <3>1, <1>2, EmptySeq DEF IsCall, QueryInv, RecordsOK
    <3>3. IsCall(VerifyFrame(Top.path, rest, stale))
      BY <3>2, <1>2 DEF IsCall, VerifyFrame, IsFrame, FrameFields
    <3> QED BY <3>1, <3>3, <1>2, CallsKept DEF Replace, Below, QueryInv
  <2> QED BY <2>1, <2>2
<1> QED BY <1>3, <1>4, <1>5 DEF QueryInv, Effect

\* A verification that goes on is still one.
LEMMA Advances ==
  ASSUME QueryInv, Running("Verify"), Top.rest # <<>>, NEW changed
  PROVE  /\ Head(Top.rest) \in DepKey
         /\ frames' = Advance(Top, changed) => Calls(frames')
<1>1. Len(frames) > 0 /\ IsCall(Top) /\ Top.op = "Verify"
  BY TopCall
<1>2. Head(Top.rest) \in DepKey /\ Tail(Top.rest) \in Seq(DepKey)
  BY <1>1, RestOfSeq DEF IsCall
<1> DEFINE f == [Top EXCEPT !.rest = Tail(@), !.stale = @ \/ changed > verifiedAt[EnvKey(Top.path)]]
<1>3. IsCall(f)
  <2> DEFINE stale == Top.stale \/ changed > verifiedAt[EnvKey(Top.path)]
             rest == Tail(Top.rest)
  <2>1. f = [Top EXCEPT !.rest = rest, !.stale = stale]
    OBVIOUS
  <2>2. rest \in Seq(DepKey)
    BY <1>2
  <2> HIDE DEF stale, rest, f
  <2> QED BY <1>1, <2>1, <2>2 DEF IsCall, IsFrame, FrameFields
<1>4. Advance(Top, changed) = Append(SubSeq(frames, 1, Len(frames) - 1), f)
  BY DEF Advance, Replace, Below
<1> HIDE DEF f
<1> QED BY <1>1, <1>2, <1>3, <1>4, CallsKept DEF QueryInv

LEMMA VerifyKeeps ==
  ASSUME QueryInv, VerifyTerms \/ VerifyResolve \/ VerifyImport \/ VerifyImportReturned \/ VerifyUnchanged
  PROVE  QueryInv' /\ Effect
<1> DEFINE d == Head(Top.rest)
<1>1. CASE VerifyTerms
  <2>1. d \in DepKey /\ d[2] \in Paths /\ Calls(frames')
    BY <1>1, Advances, Dependencies DEF VerifyTerms
  <2>2. RefreshTerms(d[2]) /\ Steady /\ deps' = Recorded(d) /\ resolved' = resolved
    BY <1>1 DEF VerifyTerms, Steady
  <2>3. RecordsOK' /\ FilesOK' /\ StampsOK'
    BY <2>1, <2>2, TermsRefreshed, RecordedType DEF QueryInv, RecordsOK
  <2> QED BY <2>1, <2>2, <2>3 DEF QueryInv, Effect
<1>2. CASE VerifyResolve
  <2>1. d \in DepKey /\ d[2] \in Specs /\ d[3] \in Paths /\ Calls(frames')
    BY <1>2, Advances, Dependencies DEF VerifyResolve
  <2>2. RefreshResolve(d[2], d[3]) /\ Steady /\ deps' = Recorded(d) /\ terms' = terms
    BY <1>2 DEF VerifyResolve, Steady
  <2>3. FilesOK' /\ StampsOK' /\ Quiet /\ resolved' \in [Specs \X Paths -> Paths \cup {NoPath}]
    BY <2>1, <2>2, ResolveRefreshed
  <2>4. RecordsOK'
    BY <2>1, <2>2, <2>3, RecordedType DEF QueryInv, RecordsOK
  <2> QED BY <2>1, <2>2, <2>3, <2>4 DEF QueryInv, Effect
<1>3. CASE VerifyImport
  <2>1. d \in DepKey /\ d[2] \in Paths
    BY <1>3, Advances, Dependencies DEF VerifyImport
  <2>2. Calls(frames')
    BY <1>3, <2>1, CallsKept DEF VerifyImport, QueryInv
  <2>3. UNCHANGED <<vfsVars, stamps, changedAt, verifiedAt, terms, resolved>> /\ deps' = deps
    BY <1>3 DEF VerifyImport, entries, results
  <2>4. RecordsOK'
    BY <2>3 DEF QueryInv, RecordsOK
  <2> QED BY <2>2, <2>3, <2>4, NothingRead DEF QueryInv, Effect
<1>4. CASE VerifyImportReturned
  <2>1. Calls(frames')
    BY <1>4, Advances DEF VerifyImportReturned
  <2>2. UNCHANGED <<vfsVars, stamps, changedAt, verifiedAt, terms, resolved>> /\ deps' = deps
    BY <1>4 DEF VerifyImportReturned, entries, results
  <2>3. RecordsOK'
    BY <2>2 DEF QueryInv, RecordsOK
  <2> QED BY <2>1, <2>2, <2>3, NothingRead DEF QueryInv, Effect
<1>5. CASE VerifyUnchanged
  <2>1. /\ Running("Verify") /\ frames' = Below
        /\ verifiedAt' = [verifiedAt EXCEPT ![EnvKey(Top.path)] = revision]
        /\ UNCHANGED <<vfsVars, stamps, changedAt, deps, terms, resolved>>
    BY <1>5 DEF VerifyUnchanged, ReturnTo, results
  <2>2. Len(frames) > 0 /\ Top.path \in Paths
    BY <2>1, TopCall DEF IsCall
  <2>3. Calls(frames')
    BY <2>1, <2>2, CallsKept DEF Below, QueryInv
  <2>4. /\ buffers' = buffers /\ disk' = disk /\ diskCache' = diskCache /\ terms' = terms
        /\ searchPaths' = searchPaths /\ unnotified' = unnotified
        /\ revision' = revision /\ changedAt' = changedAt /\ root' = root
        /\ deps' = deps /\ resolved' = resolved
    BY <2>1 DEF vfsVars, stamps
  <2>5. RecordsOK' /\ FilesOK'
    BY <2>4 DEF QueryInv, RecordsOK, FilesOK
  <2>6. StampsOK' /\ Quiet
    <3>1. EnvKey(Top.path) \in Key /\ \A q \in Paths : TermsKey(q) \in Key /\ TermsKey(q) # EnvKey(Top.path)
      BY <2>2, KeysApart
    <3> QED BY <3>1, <2>1, <2>4 DEF QueryInv, StampsOK, Quiet, CacheGrows
  <2> QED BY <2>3, <2>4, <2>5, <2>6 DEF QueryInv, Effect, Steady, stamps
<1> QED BY <1>1, <1>2, <1>3, <1>4, <1>5

LEMMA ComputeKeeps ==
  ASSUME QueryInv, BeginCompute \/ ComputeImport \/ ComputeImportReturned \/ FinishCompute
  PROVE  QueryInv' /\ Effect
<1>1. CASE BeginCompute
  <2> DEFINE p == Top.path
             t == TermsNow(p)
             rest == IF t.root = NoTerm THEN <<>> ELSE t.root.imports
  <2>1. Len(frames) > 0 /\ p \in Paths
    BY <1>1, TopCall DEF BeginCompute, IsCall
  <2>2. /\ RefreshTerms(p) /\ Steady /\ resolved' = resolved
        /\ deps' = [deps EXCEPT ![p] = <<TermsKey(p)>>]
        /\ frames' = Replace(ComputeFrame(p, rest, t.diags))
    BY <1>1 DEF BeginCompute, Steady
  <2>3. /\ FilesOK' /\ StampsOK' /\ IsTerms(t)
        /\ DOMAIN terms' = Paths /\ \A q \in Paths : IsTerms(terms'[q])
    BY <2>1, <2>2, TermsRefreshed
  <2>4. rest \in Seq(Specs)
    BY <2>3, EmptySeq DEF IsTerms
  <2> HIDE DEF rest, t
  <2>5. IsCall(ComputeFrame(p, rest, t.diags))
    BY <2>1, <2>4 DEF IsCall, IsFrame, FrameFields, ComputeFrame
  <2>6. Calls(frames')
    BY <2>1, <2>2, <2>5, CallsKept DEF Replace, Below, QueryInv
  <2>7. deps' \in [Paths -> Seq(DepKey)]
    <3>1. <<TermsKey(p)>> \in Seq(DepKey)
      BY <2>1, KeysApart
    <3> QED BY <3>1, <2>2 DEF QueryInv, RecordsOK
  <2> QED BY <2>1, <2>2, <2>3, <2>6, <2>7 DEF QueryInv, RecordsOK, Effect
<1>2. CASE ComputeImport
  <2> DEFINE p == Top.path
             s == Head(Top.rest)
             target == ResolveNow(s, p)
  <2>1. Len(frames) > 0 /\ p \in Paths /\ s \in Specs /\ Tail(Top.rest) \in Seq(Specs) /\ IsCall(Top)
    BY <1>2, TopCall, RestOfSeq DEF ComputeImport, IsCall
  <2>2. /\ RefreshResolve(s, p) /\ Steady /\ terms' = terms
        /\ deps' = Recorded(ResolveKey(s, p))
        /\ frames' = IF target = NoPath THEN Replace(SkipImport(Top, <<"ResFileNotFound", s>>))
                     ELSE Append(frames, CallFrame(target))
    BY <1>2 DEF ComputeImport, Steady
  <2>3. /\ FilesOK' /\ StampsOK' /\ Quiet /\ target \in Paths \cup {NoPath}
        /\ resolved' \in [Specs \X Paths -> Paths \cup {NoPath}]
    BY <2>1, <2>2, ResolveRefreshed
  <2>4. deps' \in [Paths -> Seq(DepKey)]
    BY <2>1, <2>2, KeysApart, RecordedType DEF QueryInv
  <2>5. Calls(frames')
    <3>1. CASE target = NoPath
      <4>1. IsCall(SkipImport(Top, <<"ResFileNotFound", s>>))
        BY <1>2, <2>1 DEF IsCall, IsFrame, FrameFields, SkipImport, ComputeImport, Running
      <4> QED BY <3>1, <4>1, <2>1, <2>2, CallsKept DEF Replace, Below, QueryInv
    <3>2. CASE target # NoPath
      BY <3>2, <2>2, <2>3, CallsKept DEF QueryInv
    <3> QED BY <3>1, <3>2
  <2> QED BY <2>2, <2>3, <2>4, <2>5 DEF QueryInv, RecordsOK, Effect
<1>3. CASE ComputeImportReturned
  <2>1. Len(frames) > 0 /\ Tail(Top.rest) \in Seq(Specs) /\ IsCall(Top) /\ Top.op = "Compute"
    BY <1>3, TopCall, RestOfSeq DEF ComputeImportReturned, IsCall
  <2>2. ASSUME NEW diag PROVE IsCall(SkipImport(Top, diag))
    BY <2>1 DEF IsCall, IsFrame, FrameFields, SkipImport
  <2>3. ASSUME NEW sub PROVE IsCall(MergeImport(Top, sub))
    BY <2>1 DEF IsCall, IsFrame, FrameFields, MergeImport
  <2>4. \/ \E diag : frames' = Replace(SkipImport(Top, diag))
        \/ \E sub : frames' = Replace(MergeImport(Top, sub))
    BY <1>3 DEF ComputeImportReturned
  <2>5. Calls(frames')
    BY <2>1, <2>2, <2>3, <2>4, CallsKept DEF Replace, Below, QueryInv
  <2>6. UNCHANGED <<vfsVars, stamps, changedAt, verifiedAt, terms, resolved>> /\ deps' = deps
    BY <1>3 DEF ComputeImportReturned, entries, results
  <2>7. RecordsOK'
    BY <2>6 DEF QueryInv, RecordsOK
  <2> QED BY <2>5, <2>6, <2>7, NothingRead DEF QueryInv, Effect
<1>4. CASE FinishCompute
  <2> DEFINE p == Top.path
  <2>1. Len(frames) > 0 /\ p \in Paths
    BY <1>4, TopCall DEF FinishCompute, IsCall
  <2>2. PICK c, v :
          /\ c = changedAt[EnvKey(p)] \/ c = revision
          /\ v = 0 \/ v = revision
          /\ changedAt' = [changedAt EXCEPT ![EnvKey(p)] = c]
          /\ verifiedAt' = [verifiedAt EXCEPT ![EnvKey(p)] = v]
    <3>1. /\ changedAt' = [changedAt EXCEPT ![EnvKey(p)] =
                             IF envs[p].env # Built(p, Top.acc).env THEN revision
                             ELSE changedAt[EnvKey(p)]]
          /\ verifiedAt' = [verifiedAt EXCEPT ![EnvKey(p)] = IF p \in uncached THEN 0 ELSE revision]
      BY <1>4 DEF FinishCompute
    <3> QED BY <3>1
  <2>3. frames' = Below /\ UNCHANGED <<vfsVars, stamps, deps, terms, resolved>>
    BY <1>4 DEF FinishCompute, ReturnTo
  <2>4. Calls(frames')
    BY <2>1, <2>3, CallsKept DEF Below, QueryInv
  <2>5. /\ buffers' = buffers /\ disk' = disk /\ diskCache' = diskCache /\ terms' = terms
        /\ searchPaths' = searchPaths /\ unnotified' = unnotified
        /\ revision' = revision /\ root' = root /\ deps' = deps /\ resolved' = resolved
    BY <2>3 DEF vfsVars, stamps
  <2>6. RecordsOK' /\ FilesOK'
    BY <2>5 DEF QueryInv, RecordsOK, FilesOK
  <2>7. StampsOK'
    <3>1. EnvKey(p) \in Key
      BY <2>1, KeysApart
    <3>2. c \in 0..revision /\ v \in 0..revision
      BY <2>2, <3>1 DEF QueryInv, StampsOK
    <3> QED BY <2>2, <2>5, <3>1, <3>2 DEF QueryInv, StampsOK
  <2>8. Quiet
    <3>1. \A q \in Paths : /\ TermsKey(q) \in Key /\ TermsKey(q) # EnvKey(p)
                           /\ TextKey(q) \in Key /\ TextKey(q) # EnvKey(p)
      BY KeysApart
    <3> QED BY <2>2, <2>5, <3>1 DEF QueryInv, StampsOK, Quiet, CacheGrows
  <2> QED BY <2>4, <2>5, <2>6, <2>7, <2>8 DEF QueryInv, Effect, Steady, stamps
<1> QED BY <1>1, <1>2, <1>3, <1>4

\* Every step of the recursion keeps the types.
LEMMA StepTypes == QueryInv /\ Step => QueryInv' /\ Effect
BY EnterKeeps, VerifyKeeps, ComputeKeeps DEF Step

(***************************************************************************)
(* The caller.                                                             *)
(***************************************************************************)

\* The inputs other than a request and a read: what they write, and which texts
\* they stamp.
Writes ==
  \/ \E e \in BufferEdits : VfsSetBuffer(e[1], e[2]) /\ Bump({TextKey(e[1]), VfsKey})
  \/ \E p \in Paths : VfsClearBuffer(p) /\ Bump({TextKey(p), VfsKey})
  \/ \E p \in Paths : VfsForget(p) /\ Bump({TextKey(p)})
  \/ \E r \in Roots : VfsAddSearchPath(r) /\ Bump({VfsKey})
  \/ \E e \in DiskEdits : DiskWrite(e[1], e[2]) /\ UNCHANGED engineVars
  \/ \E s \in DOMAIN Embedded, r \in Roots :
       DiskWrite(Under(r, s), Embedded[s]) /\ UNCHANGED engineVars

LEMMA InputWrites == Input => Writes
<1>1. /\ \A e \in BufferEdits : e[1] \in Paths /\ e[2] \in Texts
      /\ \A e \in DiskEdits : e[1] \in Paths
  BY EngineAssumption DEF EngineAssumption
<1> QED
  BY <1>1 DEF Input, Writes, SetBuffer, ClearBuffer, Touch, AddSearchPath, WriteFile, EjectLibrary, Eject

LEMMA WritesKeep == QueryInv /\ Writes => QueryInv'
<1> SUFFICES ASSUME QueryInv, Writes PROVE QueryInv'
  OBVIOUS
<1>1. /\ \A e \in BufferEdits : e[1] \in Paths /\ e[2] \in Texts
      /\ \A e \in DiskEdits : e[1] \in Paths /\ e[2] \in Texts \cup {NoText}
      /\ \A s \in DOMAIN Embedded, r \in Roots :
           Under(r, s) \in Paths /\ Embedded[s] \in Texts \cup {NoText}
  BY EngineAssumption, VfsAssumption DEF EngineAssumption, VfsAssumption
<1>2. FilesOK'
  BY <1>1, FilesWritten DEF Writes, QueryInv
<1>3. ASSUME NEW keys, Bump(keys) PROVE QueryInv'
  <2>1. /\ revision' = revision + 1 /\ verifiedAt' = verifiedAt /\ deps' = deps
        /\ terms' = terms /\ resolved' = resolved /\ frames' = frames
        /\ changedAt' = [k \in Key |-> IF k \in keys THEN revision + 1 ELSE changedAt[k]]
    BY <1>3 DEF Bump, results
  <2>2. StampsOK'
    <3>1. \A x \in 0..revision : x \in 0..(revision + 1)
      BY DEF QueryInv, StampsOK
    <3>2. revision + 1 \in Nat /\ revision + 1 \in 0..(revision + 1)
      BY DEF QueryInv, StampsOK
    <3> HIDE DEF Key
    <3> QED BY <2>1, <3>1, <3>2 DEF QueryInv, StampsOK
  <2> QED BY <1>2, <2>1, <2>2 DEF QueryInv, RecordsOK
<1>4. CASE UNCHANGED engineVars
  <2>1. /\ revision' = revision /\ changedAt' = changedAt /\ verifiedAt' = verifiedAt /\ deps' = deps
        /\ terms' = terms /\ resolved' = resolved /\ frames' = frames
    BY <1>4 DEF engineVars, stamps, entries, results, control
  <2> QED BY <1>2, <2>1 DEF QueryInv, StampsOK, RecordsOK
<1> QED BY <1>3, <1>4 DEF Writes

LEMMA RequestKeeps ==
  ASSUME QueryInv, NEW p \in RootPaths, Request(p)
  PROVE  QueryInv' /\ UNCHANGED vfsVars /\ UNCHANGED <<changedAt, verifiedAt, terms>>
<1>1. /\ revision' \in {revision, revision + 1} /\ frames' = <<CallFrame(p)>>
      /\ UNCHANGED <<vfsVars, changedAt, verifiedAt, deps, terms, resolved>>
  BY DEF Request, entries
<1>2. p \in Paths
  BY EngineAssumption DEF EngineAssumption
<1>3. Calls(frames')
  <2>1. Calls(<<>>)
    BY ShortSequences DEF Calls
  <2>2. frames' = Append(<<>>, CallFrame(p))
    BY <1>1
  <2> QED BY <1>2, <2>1, <2>2, CallsKept
<1>4. StampsOK'
  <2>1. \A x \in 0..revision : x \in 0..revision'
    BY <1>1 DEF QueryInv, StampsOK
  <2>2. revision' \in Nat
    BY <1>1 DEF QueryInv, StampsOK
  <2> QED BY <1>1, <2>1, <2>2 DEF QueryInv, StampsOK
<1>5. FilesOK'
  BY <1>1 DEF vfsVars, QueryInv, FilesOK
<1> QED BY <1>1, <1>3, <1>4, <1>5 DEF QueryInv, RecordsOK

LEMMA ReadTermsKeeps ==
  ASSUME QueryInv, NEW p \in RootPaths, ReadTerms(p)
  PROVE  QueryInv' /\ Effect
<1>1. /\ RefreshTerms(p) /\ Steady /\ deps' = deps /\ resolved' = resolved /\ frames' = frames
      /\ p \in Paths
  BY EngineAssumption DEF ReadTerms, Steady, control, EngineAssumption
<1> QED BY <1>1, TermsRefreshed DEF QueryInv, RecordsOK, Effect

LEMMA QueryStarts == Init => QueryInv
<1> SUFFICES ASSUME Init PROVE QueryInv
  OBVIOUS
<1>1. FilesOK
  BY EmptySeq, EngineAssumption DEF Init, VfsInit, FilesOK, Overlay, EngineAssumption
<1>2. StampsOK
  <2>1. revision = 1 /\ 0 \in 0..1 /\ 1 \in 0..1
    BY DEF Init
  <2>2. /\ changedAt = [k \in Key |-> IF k = VfsKey THEN 1 ELSE 0]
        /\ verifiedAt = [k \in Key |-> 0]
    BY DEF Init
  <2> QED BY <2>1, <2>2 DEF StampsOK
<1>3. RecordsOK
  BY EmptySeq DEF Init, RecordsOK, IsTerms, NoTerms
<1>4. Calls(frames)
  BY ShortSequences DEF Init, Calls
<1> QED BY <1>1, <1>2, <1>3, <1>4 DEF QueryInv

(***************************************************************************)
(* Coherence: the layers of the file system agree.                         *)
(***************************************************************************)

\* No read of the disk hides an embedded library.
Apart == \A s \in DOMAIN Embedded : disk[s] = NoText /\ diskCache[s] = NoText

\* Only the editor opens buffers.
Edited == \A p \in Paths : buffers[p] # NoText => \E e \in BufferEdits : e[1] = p

\* A cached read is that of the file unless its change is still to be reported.
CacheCurrent == \A p \in Paths : diskCache[p] # NoText /\ p \notin unnotified => diskCache[p] = disk[p]

CoherenceInv == QueryInv /\ Apart /\ Edited

LEMMA DiskApart ==
  ASSUME LibrariesApart, CoherenceInv, Writes
  PROVE  Apart' /\ Edited'
<1>1. \A s \in DOMAIN Embedded : s \in Paths /\ s \in Specs
  BY VfsAssumption DEF VfsAssumption
<1>2. ASSUME NEW p \in Paths, NEW t, DiskWrite(p, t), Canonical(p) \notin DOMAIN Embedded
      PROVE  Apart' /\ Edited'
  <2>1. /\ disk' = [disk EXCEPT ![Canonical(p)] = t]
        /\ buffers' = buffers /\ diskCache' = diskCache
    BY <1>2 DEF DiskWrite
  <2> QED BY <1>1, <1>2, <2>1 DEF CoherenceInv, QueryInv, FilesOK, Overlay, Apart, Edited
<1>3. ASSUME NEW p \in Paths, VfsClearBuffer(p) \/ VfsForget(p) PROVE Apart' /\ Edited'
  BY <1>1, <1>3
  DEF VfsClearBuffer, VfsForget, CoherenceInv, QueryInv, FilesOK, Overlay, Apart, Edited
<1>4. ASSUME NEW e \in BufferEdits, VfsSetBuffer(e[1], e[2]) PROVE Apart' /\ Edited'
  BY <1>1, <1>4 DEF VfsSetBuffer, CoherenceInv, QueryInv, FilesOK, Overlay, Apart, Edited
<1>5. ASSUME NEW r \in Roots, VfsAddSearchPath(r) PROVE Apart' /\ Edited'
  BY <1>5 DEF VfsAddSearchPath, CoherenceInv, Apart, Edited
<1>6. /\ \A e \in DiskEdits : e[1] \in Paths /\ Canonical(e[1]) \notin DOMAIN Embedded
      /\ \A s \in DOMAIN Embedded, r \in Roots :
           Under(r, s) \in Paths /\ Canonical(Under(r, s)) \notin DOMAIN Embedded
  BY VfsAssumption, EngineAssumption DEF VfsAssumption, EngineAssumption, LibrariesApart
<1> QED BY <1>2, <1>3, <1>4, <1>5, <1>6 DEF Writes

LEMMA EffectApart ==
  ASSUME CoherenceInv, Effect
  PROVE  CacheGrows /\ Apart' /\ Edited'
<1>1. CacheGrows
  BY ReadsGrow DEF Effect, Quiet, RefreshTerms, CacheGrows, CoherenceInv, QueryInv
<1>2. disk' = disk /\ buffers' = buffers
  BY DEF Effect, Steady
<1>3. ASSUME NEW k \in Paths, disk[k] # NoText, diskCache' = Cached(k) PROVE Apart'
  BY <1>2, <1>3 DEF CoherenceInv, QueryInv, FilesOK, Overlay, Apart, Cached
<1>4. Apart'
  BY <1>1, <1>2, <1>3 DEF CacheGrows, CoherenceInv, Apart
<1> QED BY <1>1, <1>2, <1>4 DEF CoherenceInv, Edited

LEMMA CoherenceStarts == LibrariesApart /\ Init => CoherenceInv
<1> SUFFICES ASSUME LibrariesApart, Init PROVE CoherenceInv
  OBVIOUS
<1>1. Apart /\ Edited
  BY VfsAssumption DEF LibrariesApart, Init, VfsInit, Apart, Edited, VfsAssumption
<1> QED BY <1>1, QueryStarts DEF CoherenceInv

LEMMA CoherenceStep == LibrariesApart /\ CoherenceInv /\ [Next]_vars => CoherenceInv'
<1> SUFFICES ASSUME LibrariesApart, CoherenceInv, [Next]_vars PROVE CoherenceInv'
  OBVIOUS
<1>1. CASE Input
  BY <1>1, InputWrites, WritesKeep, DiskApart DEF CoherenceInv
<1>2. CASE Step
  BY <1>2, StepTypes, EffectApart DEF CoherenceInv
<1>3. ASSUME NEW p \in RootPaths, ReadTerms(p) PROVE CoherenceInv'
  BY <1>3, ReadTermsKeeps, EffectApart DEF CoherenceInv
<1>4. ASSUME NEW p \in RootPaths, Request(p) PROVE CoherenceInv'
  BY <1>4, RequestKeeps DEF CoherenceInv, vfsVars, Apart, Edited
<1>5. CASE UNCHANGED vars
  BY <1>5
  DEF vars, vfsVars, engineVars, stamps, entries, results, control, CoherenceInv, QueryInv,
      FilesOK, StampsOK, RecordsOK, Apart, Edited
<1> QED BY <1>1, <1>2, <1>3, <1>4, <1>5 DEF Next, Client

\* What a lookup finds under a key is what a read of the key finds.
LEMMA LookupsAreReads ==
  ASSUME BuffersUnlinked, CoherenceInv, NEW s \in Specs, NEW p \in Paths, Locate(s, p) # NoPath
  PROVE  LocatedText(s, p) # NoText /\ ReadText(Locate(s, p)) = LocatedText(s, p)
<1> DEFINE place == FirstPlace(s, p)
<1>1. s \in Paths /\ NoPath \notin Paths /\ \A q \in Paths : Normal(q) \in Paths /\ Canonical(q) \in Paths
  BY VfsAssumption DEF VfsAssumption
<1>2. \A q \in Paths : /\ Buffered(q) # NoPath => buffers[Buffered(q)] # NoText
                       /\ Buffered(q) = NoPath => buffers[q] = NoText
  BY <1>1 DEF Buffered
<1>3. CASE Buffered(s) # NoPath
  BY <1>1, <1>2, <1>3 DEF Locate, LocatedText, ReadText
<1>4. CASE Buffered(s) = NoPath /\ place # NoPath
  <2>1. place \in Paths /\ AtPlace(place) # NoPath
    BY <1>4, FirstPlaceAnswers DEF CoherenceInv, QueryInv
  <2>2. Locate(s, p) = AtPlace(place)
    BY <1>4 DEF Locate
  <2>3. CASE Buffered(place) # NoPath
    <3>1. LocatedText(s, p) = buffers[Buffered(place)] /\ Locate(s, p) = Buffered(place)
      BY <1>4, <2>2, <2>3 DEF LocatedText, AtPlace
    <3> QED BY <3>1, <2>1, <2>3, <1>2 DEF ReadText
  <2>4. CASE Buffered(place) = NoPath
    <3> DEFINE k == TryDisk(place)
    <3>1. /\ Locate(s, p) = k /\ k # NoPath /\ k = Canonical(place) /\ disk[k] # NoText
          /\ AllowDiskReads /\ k \in Paths /\ LocatedText(s, p) = DiskText(k)
      BY <1>1, <1>4, <2>1, <2>2, <2>4 DEF LocatedText, AtPlace, TryDisk
    <3>2. Canonical(k) = k /\ TryDisk(k) = k
      BY <3>1 DEF TryDisk, CoherenceInv, QueryInv, FilesOK
    <3>3. buffers[k] = NoText
      <4>1. ASSUME buffers[k] # NoText PROVE k = place
        BY <3>1, <2>1, <4>1 DEF CoherenceInv, Edited, BuffersUnlinked
      <4>2. buffers[place] = NoText
        BY <2>1, <2>4, <1>2
      <4> QED BY <4>1, <4>2
    <3>4. k \notin DOMAIN Embedded
      BY <3>1 DEF CoherenceInv, Apart
    <3>5. DiskText(k) # NoText
      BY <3>1 DEF DiskText
    <3>6. ReadText(k) = DiskText(k)
      BY <3>2, <3>3, <3>4, <1>1, <3>1 DEF ReadText, DiskText
    <3> QED BY <3>1, <3>5, <3>6
  <2> QED BY <2>3, <2>4
<1>5. CASE Buffered(s) = NoPath /\ place = NoPath
  <2>1. s \in DOMAIN Embedded /\ Locate(s, p) = s /\ LocatedText(s, p) = Embedded[s]
    BY <1>5 DEF Locate, LocatedText
  <2>2. Embedded[s] \in Texts /\ NoText \notin Texts /\ diskCache[s] = NoText
    BY <2>1, VfsAssumption DEF VfsAssumption, CoherenceInv, Apart
  <2>3. buffers[s] = NoText
    BY <1>1, <1>2, <1>5
  <2> QED BY <2>1, <2>2, <2>3 DEF ReadText
<1> QED BY <1>3, <1>4, <1>5

(***************************************************************************)
(* Freshness of terms.                                                     *)
(***************************************************************************)

\* The terms of p were parsed from its text, unless a change of it is stamped
\* later than the terms or is still to be reported.
Current(p) ==
  /\ verifiedAt[TermsKey(p)] # 0
  /\ changedAt[TextKey(p)] <= verifiedAt[TermsKey(p)]
  /\ p \notin unnotified
  => terms[p].text = FreshText(p)

TermsInv == CoherenceInv /\ CacheCurrent /\ \A p \in Paths : Current(p)

\* With no links a read finds what a session finds that has read nothing.
LEMMA ReadsAreFresh ==
  ASSUME NoLinks, CoherenceInv, CacheCurrent, NEW p \in Paths, p \notin unnotified
  PROVE  ReadText(p) = FreshText(p)
<1>1. Canonical(p) = p /\ NoPath \notin Paths
  BY VfsAssumption DEF NoLinks, VfsAssumption
<1>2. p \in DOMAIN Embedded => diskCache[p] = NoText
  BY DEF CoherenceInv, Apart
<1>3. diskCache[p] # NoText => diskCache[p] = disk[p] /\ AllowDiskReads
  BY DEF CacheCurrent, CoherenceInv, QueryInv, FilesOK
<1> QED BY <1>1, <1>2, <1>3 DEF ReadText, FreshText, TryDisk, DiskText

\* The reference depends on the buffer and the file of that path only.
LEMMA FreshTextSame ==
  ASSUME NoLinks, NEW p \in Paths, buffers'[p] = buffers[p], disk'[p] = disk[p]
  PROVE  FreshText(p)' = FreshText(p)
BY DEF NoLinks, FreshText, TryDisk

LEMMA CacheStays ==
  ASSUME CoherenceInv, CacheCurrent, CacheGrows, UNCHANGED <<disk, unnotified>>
  PROVE  CacheCurrent'
<1>1. CASE diskCache' = diskCache
  BY <1>1 DEF CacheCurrent
<1>2. ASSUME NEW k \in Paths, disk[k] # NoText, diskCache' = Cached(k) PROVE CacheCurrent'
  <2>1. \A q \in Paths : diskCache'[q] = IF q = k THEN DiskText(k) ELSE diskCache[q]
    BY <1>2 DEF CoherenceInv, QueryInv, FilesOK, Overlay, Cached
  <2> QED BY <1>2, <2>1 DEF CacheCurrent, DiskText
<1> QED BY <1>1, <1>2 DEF CacheGrows

\* A step of the recursion leaves current terms current.
LEMMA EffectCurrent ==
  ASSUME NoLinks, TermsInv, Effect, NEW q \in Paths
  PROVE  Current(q)'
<1>1. /\ buffers' = buffers /\ disk' = disk /\ unnotified' = unnotified /\ revision' = revision
      /\ FreshText(q)' = FreshText(q)
  BY FreshTextSame DEF Effect, Steady, stamps
<1>2. CASE Quiet
  BY <1>1, <1>2 DEF Quiet, TermsInv, Current
<1>3. ASSUME NEW p \in Paths, RefreshTerms(p) PROVE Current(q)'
  <2>1. TermsKey(p) \in Key /\ TermsKey(q) \in Key /\ TextKey(q) \in Key
    BY KeysApart
  <2>2. /\ changedAt'[TextKey(q)] = changedAt[TextKey(q)]
        /\ verifiedAt'[TermsKey(q)] = IF p = q THEN revision ELSE verifiedAt[TermsKey(q)]
        /\ terms'[q] = IF p = q THEN TermsNow(p) ELSE terms[q]
    BY <1>3, <2>1, KeysApart DEF RefreshTerms, TermsInv, CoherenceInv, QueryInv, StampsOK, RecordsOK
  <2>3. CASE p # q
    BY <1>1, <2>2, <2>3 DEF TermsInv, Current
  <2>4. CASE p = q /\ TermsStale(p)
    <3>1. q \notin unnotified => ReadText(q) = FreshText(q)
      BY ReadsAreFresh DEF TermsInv
    <3>2. TermsNow(q).text = ReadText(q)
      BY <2>4 DEF TermsNow, Parsed, NoTerms
    <3> QED BY <3>1, <3>2, <1>1, <2>2, <2>4 DEF Current
  <2>5. CASE p = q /\ ~TermsStale(p)
    <3>1. terms'[q] = terms[q]
      BY <2>2, <2>5 DEF TermsNow
    <3>2. /\ revision \in Nat /\ verifiedAt[TermsKey(q)] \in 0..revision
          /\ changedAt[TextKey(q)] \in 0..revision
      BY <2>1 DEF TermsInv, CoherenceInv, QueryInv, StampsOK
    <3>3. \/ verifiedAt[TermsKey(q)] = revision
          \/ verifiedAt[TermsKey(q)] # 0 /\ changedAt[TextKey(q)] <= verifiedAt[TermsKey(q)]
      BY <2>5, <3>2 DEF TermsStale, Stale
    <3>4. q \notin unnotified /\ verifiedAt'[TermsKey(q)] # 0 => terms[q].text = FreshText(q)
      BY <2>2, <2>5, <3>2, <3>3 DEF TermsInv, Current
    <3> QED BY <1>1, <3>1, <3>4 DEF Current
  <2> QED BY <2>3, <2>4, <2>5
<1> QED BY <1>2, <1>3 DEF Effect

\* A path whose text is stamped now is current whatever its terms are, and a
\* path whose text and stamp stay is as current as before.
LEMMA StampedCurrent ==
  ASSUME NoLinks, TermsInv, NEW q \in Paths, NEW keys, Bump(keys)
  PROVE  /\ TextKey(q) \in keys => Current(q)'
         /\ /\ TextKey(q) \notin keys /\ buffers'[q] = buffers[q] /\ disk'[q] = disk[q]
            /\ (q \notin unnotified' => q \notin unnotified)
            => Current(q)'
<1>1. /\ verifiedAt' = verifiedAt /\ terms' = terms
      /\ changedAt' = [k \in Key |-> IF k \in keys THEN revision + 1 ELSE changedAt[k]]
  BY DEF Bump, results
<1>2. TextKey(q) \in Key /\ TermsKey(q) \in Key
  BY KeysApart
<1>3. changedAt'[TextKey(q)] = IF TextKey(q) \in keys THEN revision + 1 ELSE changedAt[TextKey(q)]
  BY <1>1, <1>2
<1>4. revision \in Nat /\ verifiedAt[TermsKey(q)] \in 0..revision
  BY <1>2 DEF TermsInv, CoherenceInv, QueryInv, StampsOK
<1>5. ASSUME TextKey(q) \in keys PROVE Current(q)'
  <2>1. ~ (changedAt'[TextKey(q)] <= verifiedAt'[TermsKey(q)])
    BY <1>1, <1>3, <1>4, <1>5
  <2> QED BY <2>1 DEF Current
<1>6. ASSUME TextKey(q) \notin keys, buffers'[q] = buffers[q], disk'[q] = disk[q],
             q \notin unnotified' => q \notin unnotified
      PROVE  Current(q)'
  <2>1. FreshText(q)' = FreshText(q)
    BY <1>6, FreshTextSame
  <2> QED BY <1>1, <1>3, <1>6, <2>1 DEF TermsInv, Current
<1> QED BY <1>5, <1>6

\* An edit, a notification or a new search path leaves terms current or stamps
\* their text; a file another program writes is to be reported first.
LEMMA WritesCurrent ==
  ASSUME NoLinks, TermsInv, Writes
  PROVE  CacheCurrent' /\ \A q \in Paths : Current(q)'
<1> USE DEF TermsInv, CoherenceInv, QueryInv, FilesOK, Overlay
<1>1. ASSUME NEW p \in Paths, NEW t, Bump({TextKey(p), VfsKey}),
             VfsSetBuffer(p, t) \/ VfsClearBuffer(p)
      PROVE  CacheCurrent' /\ \A q \in Paths : Current(q)'
  <2>1. /\ disk' = disk /\ diskCache' = diskCache /\ unnotified' = unnotified
        /\ \A q \in Paths \ {p} : buffers'[q] = buffers[q]
    BY <1>1 DEF VfsSetBuffer, VfsClearBuffer
  <2>2. CacheCurrent'
    BY <2>1 DEF CacheCurrent
  <2>3. ASSUME NEW q \in Paths PROVE Current(q)'
    <3>1. q # p => TextKey(q) \notin {TextKey(p), VfsKey}
      BY KeysApart
    <3> QED BY <1>1, <2>1, <3>1, StampedCurrent
  <2> QED BY <2>2, <2>3
<1>2. ASSUME NEW p \in Paths, Bump({TextKey(p)}), VfsForget(p)
      PROVE  CacheCurrent' /\ \A q \in Paths : Current(q)'
  <2>1. /\ disk' = disk /\ buffers' = buffers /\ unnotified' = unnotified \ {p}
        /\ diskCache' = [diskCache EXCEPT ![p] = NoText]
    BY <1>2 DEF VfsForget, NoLinks
  <2>2. CacheCurrent'
    BY <2>1 DEF CacheCurrent
  <2>3. ASSUME NEW q \in Paths PROVE Current(q)'
    <3>1. q # p => TextKey(q) \notin {TextKey(p)}
      BY KeysApart
    <3> QED BY <1>2, <2>1, <3>1, StampedCurrent
  <2> QED BY <2>2, <2>3
<1>3. ASSUME NEW r, Bump({VfsKey}), VfsAddSearchPath(r)
      PROVE  CacheCurrent' /\ \A q \in Paths : Current(q)'
  <2>1. disk' = disk /\ buffers' = buffers /\ unnotified' = unnotified /\ diskCache' = diskCache
    BY <1>3 DEF VfsAddSearchPath
  <2>2. CacheCurrent'
    BY <2>1 DEF CacheCurrent
  <2>3. ASSUME NEW q \in Paths PROVE Current(q)'
    <3>1. TextKey(q) \notin {VfsKey}
      BY KeysApart
    <3> QED BY <1>3, <2>1, <3>1, StampedCurrent
  <2> QED BY <2>2, <2>3
<1>4. ASSUME NEW p \in Paths, NEW t, DiskWrite(p, t), UNCHANGED engineVars
      PROVE  CacheCurrent' /\ \A q \in Paths : Current(q)'
  <2>1. /\ disk' = [disk EXCEPT ![p] = t] /\ buffers' = buffers
        /\ unnotified' = unnotified \cup {p} /\ diskCache' = diskCache
        /\ verifiedAt' = verifiedAt /\ changedAt' = changedAt /\ terms' = terms
    BY <1>4 DEF DiskWrite, NoLinks, engineVars, entries, results
  <2>2. \A q \in Paths \ {p} : disk'[q] = disk[q]
    BY <2>1
  <2>3. CacheCurrent'
    BY <2>1, <2>2 DEF CacheCurrent
  <2>4. ASSUME NEW q \in Paths PROVE Current(q)'
    <3>1. CASE q = p
      BY <2>1, <3>1 DEF Current
    <3>2. CASE q # p
      <4>1. FreshText(q)' = FreshText(q)
        BY <2>1, <2>2, <3>2, FreshTextSame
      <4> QED BY <2>1, <4>1 DEF Current
    <3> QED BY <3>1, <3>2
  <2> QED BY <2>3, <2>4
<1>5. /\ \A e \in BufferEdits : e[1] \in Paths
      /\ \A e \in DiskEdits : e[1] \in Paths
      /\ \A s \in DOMAIN Embedded, r \in Roots : Under(r, s) \in Paths
  BY EngineAssumption, VfsAssumption DEF EngineAssumption, VfsAssumption
<1> QED BY <1>1, <1>2, <1>3, <1>4, <1>5 DEF Writes

LEMMA TermsStart == LibrariesApart /\ Init => TermsInv
<1> SUFFICES ASSUME LibrariesApart, Init PROVE TermsInv
  OBVIOUS
<1>1. CacheCurrent
  BY DEF Init, VfsInit, CacheCurrent
<1>2. \A p \in Paths : Current(p)
  BY KeysApart DEF Init, Current
<1> QED BY <1>1, <1>2, CoherenceStarts DEF TermsInv

LEMMA TermsStep == LibrariesApart /\ NoLinks /\ TermsInv /\ [Next]_vars => TermsInv'
<1> SUFFICES ASSUME LibrariesApart, NoLinks, TermsInv, [Next]_vars PROVE TermsInv'
  OBVIOUS
<1>1. CoherenceInv'
  BY CoherenceStep DEF TermsInv
<1>2. CASE Input
  BY <1>1, <1>2, InputWrites, WritesCurrent DEF TermsInv
<1>3. ASSUME Effect PROVE TermsInv'
  <2>1. CacheGrows /\ UNCHANGED <<disk, unnotified>>
    BY <1>3, EffectApart DEF TermsInv, Effect, Steady
  <2>2. CacheCurrent'
    BY <2>1, CacheStays DEF TermsInv
  <2> QED BY <1>1, <1>3, <2>2, EffectCurrent DEF TermsInv
<1>4. ASSUME UNCHANGED <<vfsVars, changedAt, verifiedAt, terms>> PROVE TermsInv'
  <2>1. /\ buffers' = buffers /\ disk' = disk /\ diskCache' = diskCache /\ unnotified' = unnotified
        /\ changedAt' = changedAt /\ verifiedAt' = verifiedAt /\ terms' = terms
    BY <1>4 DEF vfsVars
  <2>2. \A q \in Paths : FreshText(q)' = FreshText(q)
    BY <2>1, FreshTextSame
  <2> QED BY <1>1, <2>1, <2>2 DEF TermsInv, CacheCurrent, Current
<1>5. CASE Step
  BY <1>3, <1>5, StepTypes DEF TermsInv, CoherenceInv
<1>6. CASE Client
  BY <1>3, <1>4, <1>6, ReadTermsKeeps, RequestKeeps DEF Client, TermsInv, CoherenceInv
<1>7. CASE UNCHANGED vars
  BY <1>4, <1>7 DEF vars, engineVars, entries, results
<1> QED BY <1>2, <1>5, <1>6, <1>7 DEF Next

(***************************************************************************)
(* Theorems about lookups and terms.                                       *)
(***************************************************************************)

\* When no library shares its name with a file and the editor opens no file that
\* a link leads to, the text Resolve finds is the text the session reads by the
\* key it keeps, after any edits, writes and notifications.
THEOREM LookupsCoherent ==
  ASSUME LibrariesApart, BuffersUnlinked
  PROVE  Spec => []OverlayCoherent
<1>1. Init => CoherenceInv
  BY CoherenceStarts
<1>2. CoherenceInv /\ [Next]_vars => CoherenceInv'
  BY CoherenceStep
<1>3. CoherenceInv => OverlayCoherent
  BY LookupsAreReads DEF OverlayCoherent
<1> QED BY <1>1, <1>2, <1>3, PTL DEF Spec

\* When no library shares its name with a file and there are no links, terms the
\* engine would reuse without another look are those of the text a session that
\* has read nothing reads, in the middle of a call too.
THEOREM VerifiedTermsHold ==
  ASSUME LibrariesApart, NoLinks
  PROVE  Spec => []VerifiedTermsFresh
<1>1. Init => TermsInv
  BY TermsStart
<1>2. TermsInv /\ [Next]_vars => TermsInv'
  BY TermsStep
<1>3. TermsInv => VerifiedTermsFresh
  <2> SUFFICES ASSUME TermsInv, unnotified = {}, NEW p \in Paths, verifiedAt[TermsKey(p)] = revision
               PROVE  terms[p].text = FreshText(p)
    BY DEF VerifiedTermsFresh
  <2>1. TextKey(p) \in Key
    BY KeysApart
  <2>2. revision # 0
    BY DEF TermsInv, CoherenceInv, QueryInv, StampsOK
  <2>3. changedAt[TextKey(p)] <= verifiedAt[TermsKey(p)]
    BY <2>1 DEF TermsInv, CoherenceInv, QueryInv, StampsOK
  <2> QED BY <2>2, <2>3 DEF TermsInv, Current
<1> QED BY <1>1, <1>2, <1>3, PTL DEF Spec

(***************************************************************************)
(* Layers.                                                                 *)
(***************************************************************************)

\* One more layer overrides the layers before it; an empty one changes nothing.
LEMMA LayeredGrows ==
  ASSUME NEW layers, NEW m \in Nat
  PROVE  /\ Layered(layers, m + 1) = Override(Layered(layers, m), layers[m + 1])
         /\ DOMAIN layers[m + 1] = {} => Layered(layers, m + 1) = Layered(layers, m)
<1> DEFINE Having(k, n) == {j \in 1..k : n \in DOMAIN layers[j]}
           Names0(k) == UNION {DOMAIN layers[j] : j \in 1..k}
           new == layers[m + 1]
<1>1. \A k : Layered(layers, k) = [n \in Names0(k) |-> layers[Max(Having(k, n))][n]]
  BY DEF Layered
<1>2. \A j : j \in 1..(m + 1) <=> j \in 1..m \/ j = m + 1
  OBVIOUS
<1>3. Names0(m + 1) = Names0(m) \cup DOMAIN new
  BY <1>2
<1>4. ASSUME NEW n \in DOMAIN new PROVE Max(Having(m + 1, n)) = m + 1
  <2>1. Having(m + 1, n) \in SUBSET (0..(m + 1)) /\ m + 1 \in Having(m + 1, n)
    BY <1>2
  <2>2. /\ Max(Having(m + 1, n)) \in Having(m + 1, n)
        /\ \A y \in Having(m + 1, n) : y <= Max(Having(m + 1, n))
    BY <2>1, MaxIsGreatest
  <2> QED BY <2>1, <2>2
<1>5. ASSUME NEW n, n \notin DOMAIN new PROVE Having(m + 1, n) = Having(m, n)
  BY <1>2, <1>5
<1> DEFINE old == Layered(layers, m)
<1>6. DOMAIN old = Names0(m) /\ \A n \in Names0(m) : old[n] = layers[Max(Having(m, n))][n]
  BY <1>1
<1>7. Layered(layers, m + 1) = [n \in Names0(m + 1) |-> layers[Max(Having(m + 1, n))][n]]
  BY <1>1
<1>8. Override(old, new) = [n \in Names0(m) \cup DOMAIN new |-> IF n \in DOMAIN new THEN new[n] ELSE old[n]]
  BY <1>6 DEF Override
<1>9. old = [n \in Names0(m) |-> old[n]]
  BY <1>1
<1> HIDE DEF Having, Names0, old
<1>10. ASSUME NEW n \in Names0(m + 1)
       PROVE  layers[Max(Having(m + 1, n))][n] = IF n \in DOMAIN new THEN new[n] ELSE old[n]
  <2>1. CASE n \in DOMAIN new
    BY <2>1, <1>4
  <2>2. CASE n \notin DOMAIN new
    <3>1. n \in Names0(m)
      BY <1>3, <2>2
    <3> QED BY <2>2, <3>1, <1>5, <1>6
  <2> QED BY <2>1, <2>2
<1> HIDE DEF new
<1>11. Layered(layers, m + 1) = Override(old, new)
  BY <1>3, <1>7, <1>8, <1>10
<1>12. ASSUME DOMAIN new = {} PROVE Layered(layers, m + 1) = old
  <2>1. Names0(m + 1) = Names0(m)
    BY <1>3, <1>12
  <2>2. \A n \in Names0(m) : layers[Max(Having(m + 1, n))][n] = old[n]
    BY <2>1, <1>10, <1>12
  <2> QED BY <2>1, <2>2, <1>7, <1>9
<1> QED BY <1>11, <1>12 DEF old, new

LEMMA LayeredSame ==
  ASSUME NEW a, NEW b, NEW m \in Nat, \A k \in 1..m : a[k] = b[k]
  PROVE  Layered(a, m) = Layered(b, m)
<1> DEFINE Having(n) == {k \in 1..m : n \in DOMAIN a[k]}
<1>1. UNION {DOMAIN a[k] : k \in 1..m} = UNION {DOMAIN b[k] : k \in 1..m}
  OBVIOUS
<1>2. \A n : Having(n) = {k \in 1..m : n \in DOMAIN b[k]}
  OBVIOUS
<1>3. ASSUME NEW n \in UNION {DOMAIN a[k] : k \in 1..m}
      PROVE  a[Max(Having(n))][n] = b[Max(Having(n))][n]
  <2>1. Having(n) \in SUBSET (0..m) /\ Having(n) # {}
    OBVIOUS
  <2>2. Max(Having(n)) \in Having(n)
    BY <2>1, MaxIsGreatest
  <2> QED BY <2>2
<1>4. Layered(b, m) = [n \in UNION {DOMAIN b[k] : k \in 1..m} |-> b[Max(Having(n))][n]]
  BY <1>2 DEF Layered
<1> QED BY <1>1, <1>3, <1>4 DEF Layered

\* Before the first layer there is nothing.
LEMMA LayeredNone == \A layers : Layered(layers, 0) = <<>>
BY DEF Layered

(***************************************************************************)
(* The reference.                                                          *)
(***************************************************************************)

\* What imports give that are followed to a depth of n, from those of n - 1.
Level(n, below) ==
  [q \in Paths |-> Over(q, IF n = 0 THEN [r \in Paths |-> NilEnv] ELSE below)]

\* The first m + 1 levels.
Levels(g, m) == g = [n \in 0..m |-> Level(n, g[n - 1])]

LEMMA LevelsAgree ==
  ASSUME NEW g, NEW h, NEW m \in Nat, NEW k \in Nat, Levels(g, m), Levels(h, k)
  PROVE  \A n \in Nat : n <= m /\ n <= k => g[n] = h[n]
<1> DEFINE Bad == {n \in Nat : n <= m /\ n <= k /\ g[n] # h[n]}
<1> SUFFICES ASSUME Bad # {} PROVE FALSE
  OBVIOUS
<1>1. PICK n \in Bad : \A y \in Bad : n <= y
  BY MinIsLeast
<1>2. n \in 0..m /\ n \in 0..k /\ g[n] # h[n]
  BY <1>1
<1>3. g[n] = Level(n, g[n - 1]) /\ h[n] = Level(n, h[n - 1])
  BY <1>2 DEF Levels
<1>4. CASE n = 0
  BY <1>2, <1>3, <1>4 DEF Level
<1>5. CASE n # 0
  <2>1. n - 1 \in Nat /\ n - 1 <= m /\ n - 1 <= k /\ ~ (n <= n - 1)
    BY <1>2, <1>5
  <2>2. g[n - 1] = h[n - 1]
    BY <2>1, <1>1
  <2> QED BY <2>2, <1>2, <1>3
<1> QED BY <1>4, <1>5

LEMMA LevelsExist == \A m \in Nat : \E g : Levels(g, m)
<1> DEFINE Bad == {m \in Nat : ~ \E g : Levels(g, m)}
<1> SUFFICES ASSUME Bad # {} PROVE FALSE
  OBVIOUS
<1>1. PICK m \in Bad : \A y \in Bad : m <= y
  BY MinIsLeast
<1>2. m \in Nat /\ ~ \E g : Levels(g, m)
  BY <1>1
<1>3. CASE m = 0
  <2> DEFINE g == [n \in 0..m |-> Level(0, <<>>)]
  <2>1. \A n \in 0..m : Level(n, g[n - 1]) = Level(0, <<>>)
    BY <1>3 DEF Level
  <2>2. Levels(g, m)
    BY <2>1 DEF Levels
  <2> QED BY <2>2, <1>2
<1>4. CASE m # 0
  <2>1. m - 1 \in Nat /\ ~ (m <= m - 1)
    BY <1>2, <1>4
  <2>2. PICK h : Levels(h, m - 1)
    BY <2>1, <1>1
  <2> DEFINE g == [n \in 0..m |-> IF n = m THEN Level(m, h[m - 1]) ELSE h[n]]
  <2>3. \A n \in 0..m : n = m \/ n \in 0..(m - 1)
    BY <1>2
  <2>4. \A n \in 0..(m - 1) : h[n] = Level(n, h[n - 1])
    BY <2>2 DEF Levels
  <2>5. ASSUME NEW n \in 0..m PROVE g[n] = Level(n, g[n - 1])
    <3>1. CASE n = m
      <4>1. n - 1 \in 0..m /\ n - 1 # m
        BY <3>1, <1>2, <1>4
      <4>2. g[n - 1] = h[m - 1]
        BY <4>1, <3>1
      <4> QED BY <4>2, <3>1
    <3>2. CASE n # m /\ n # 0
      <4>1. n - 1 \in 0..m /\ n - 1 # m /\ n \in 0..(m - 1)
        BY <3>2, <1>2, <2>3
      <4>2. g[n - 1] = h[n - 1] /\ g[n] = h[n]
        BY <4>1, <3>2
      <4> QED BY <4>1, <4>2, <2>4
    <3>3. CASE n # m /\ n = 0
      <4>1. n \in 0..(m - 1) /\ g[n] = h[n]
        BY <3>3, <1>2, <2>3
      <4>2. Level(n, h[n - 1]) = Level(n, g[n - 1])
        BY <3>3 DEF Level
      <4> QED BY <4>1, <4>2, <2>4
    <3> QED BY <3>1, <3>2, <3>3
  <2>6. Levels(g, m)
    <3>1. g = [n \in 0..m |-> g[n]]
      OBVIOUS
    <3> HIDE DEF g
    <3> QED BY <3>1, <2>5 DEF Levels
  <2> QED BY <2>6, <1>2
<1> QED BY <1>3, <1>4

\* The recursion of the reference is well defined.
LEMMA FreshUnfolds ==
  \A n \in Nat : FreshEnvs[n] = Level(n, FreshEnvs[n - 1])
<1> DEFINE G(m) == CHOOSE g : Levels(g, m)
           f == [n \in Nat |-> G(n)[n]]
<1>1. \A m \in Nat : Levels(G(m), m)
  BY LevelsExist
<1> HIDE DEF G
<1>2. ASSUME NEW n \in Nat PROVE f[n] = Level(n, f[n - 1])
  <2>1. n \in 0..n /\ Levels(G(n), n)
    BY <1>1
  <2>2. G(n)[n] = Level(n, G(n)[n - 1])
    BY <2>1 DEF Levels
  <2>3. CASE n = 0
    BY <2>2, <2>3 DEF Level
  <2>4. CASE n # 0
    <3>1. n - 1 \in Nat /\ n - 1 <= n /\ n - 1 <= n - 1
      BY <2>4
    <3>2. G(n)[n - 1] = G(n - 1)[n - 1]
      BY <3>1, <1>1, LevelsAgree
    <3> QED BY <2>2, <3>1, <3>2
  <2> QED BY <2>3, <2>4
<1>3. f = [n \in Nat |-> Level(n, f[n - 1])]
  <2>1. f = [n \in Nat |-> f[n]]
    OBVIOUS
  <2> HIDE DEF f
  <2> QED BY <2>1, <1>2
<1>4. FreshEnvs = CHOOSE g : g = [n \in Nat |-> Level(n, g[n - 1])]
  BY DEF FreshEnvs, Level
<1> HIDE DEF f
<1>5. FreshEnvs = [n \in Nat |-> Level(n, FreshEnvs[n - 1])]
  BY <1>3, <1>4
<1> QED BY <1>5

(***************************************************************************)
(* The invariant.                                                          *)
(***************************************************************************)

Verified(k) == verifiedAt[k] = revision

\* The imports and the definitions of a text, as its terms keep them.
TermOf(t) == IF t = NoText THEN NoTerm ELSE t.root
ImportsOf(term) == IF term = NoTerm THEN <<>> ELSE term.imports
ImportList(p) == ImportsOf(terms[p].root)

\* The layers that the imports of p give, according to the entries.
Imported(p, s) ==
  IF resolved[<<s, p>>] = NoPath THEN <<>> ELSE envs[resolved[<<s, p>>]].bindings
Layers(p) == [k \in DOMAIN ImportList(p) |-> Imported(p, ImportList(p)[k])]

\* The entry of p depends on d.
Listed(p, d) == \E i \in DOMAIN deps[p] : deps[p][i] = d

\* It depends on what gave the layer of import s.
Recalls(p, s) ==
  /\ Listed(p, ResolveKey(s, p))
  /\ resolved[<<s, p>>] # NoPath => Listed(p, EnvKey(resolved[<<s, p>>]))

\* The environment of p follows from the entries it depends on.
Consistent(p) ==
  /\ terms[p].root = NoTerm => envs[p].env = NilEnv
  /\ terms[p].root # NoTerm =>
       envs[p].env = [file |-> p, bindings |-> Override(Layered(Layers(p), Len(ImportList(p))),
                                                        terms[p].root.defs)]
  /\ \A k \in 1..Len(ImportList(p)) : Recalls(p, ImportList(p)[k])

\* An entry that was verified at some revision follows from its dependencies
\* unless one of them changed later; they are verified with it.
EntryOK(p) ==
  verifiedAt[EnvKey(p)] # 0 /\ p \notin inFlight =>
    /\ Listed(p, TermsKey(p))
    /\ Verified(EnvKey(p)) => \A d \in DepKey : Listed(p, d) => Verified(d)
    /\ (\A d \in DepKey : Listed(p, d) => changedAt[d] <= verifiedAt[EnvKey(p)]) => Consistent(p)

\* The bindings of a result are those of its environment.
ShapeOK(p) ==
  \/ envs[p].env \in {NilEnv, Uncomputed} /\ envs[p].bindings = <<>>
  \/ envs[p].env = [file |-> p, bindings |-> envs[p].bindings]

\* A file that was read from disk stays in the cache.
Kept(p) ==
  buffers[p] = NoText /\ p \notin DOMAIN Embedded /\ TryDisk(p) # NoPath =>
    diskCache[p] # NoText

\* Terms and resolutions whose inputs did not change since are still right.
TextHeld(p) ==
  verifiedAt[TermsKey(p)] # 0 /\ changedAt[TextKey(p)] <= verifiedAt[TermsKey(p)] =>
    terms[p].root = TermOf(ReadText(p)) /\ Kept(p)

PlaceHeld(s, p) ==
  verifiedAt[ResolveKey(s, p)] # 0 /\ changedAt[VfsKey] <= verifiedAt[ResolveKey(s, p)] =>
    resolved[<<s, p>>] = Locate(s, p)

RecordsHold ==
  /\ DOMAIN envs = Paths
  /\ \A p \in Paths : ShapeOK(p)
  /\ \A p \in Paths : TextHeld(p)
  /\ \A s \in Specs, p \in Paths : PlaceHeld(s, p)

\* Imports go down the order, and so do the dependencies they leave.
DepsDescend(rank) == \A p, q \in Paths : Listed(p, EnvKey(q)) => rank[q] < rank[p]

EntriesHold(rank) ==
  uncached = {} /\ DepsDescend(rank) /\ \A p \in Paths : EntryOK(p)

\* The dependencies a verification is past are verified, and while it finds
\* nothing stale none of them changed later than the entry was verified.
PastHolds(p, rest) ==
  /\ verifiedAt[EnvKey(p)] # 0
  /\ \A d \in DepKey : Listed(p, d) /\ d \notin ToSet(rest) =>
        Verified(d) /\ changedAt[d] <= verifiedAt[EnvKey(p)]

VerifyHolds(f) ==
  /\ ~Verified(EnvKey(f.path))
  /\ \A d \in ToSet(f.rest) : Listed(f.path, d)
  /\ ~f.stale => PastHolds(f.path, f.rest)

\* The layer of import s is settled for this revision.
Settles(p, s) ==
  /\ Recalls(p, s) /\ Verified(ResolveKey(s, p))
  /\ resolved[<<s, p>>] # NoPath => Verified(EnvKey(resolved[<<s, p>>]))

\* The imports before rest are merged.
MergeHolds(p, bindings, rest) ==
  \E m \in Nat :
    /\ Len(ImportList(p)) = m + Len(rest)
    /\ \A k \in 1..Len(rest) : rest[k] = ImportList(p)[m + k]
    /\ \A k \in 1..m : Settles(p, ImportList(p)[k])
    /\ bindings = Layered(Layers(p), m)

ComputeHolds(f) ==
  /\ ~Verified(EnvKey(f.path)) /\ Verified(TermsKey(f.path)) /\ Listed(f.path, TermsKey(f.path))
  /\ "bindings" \in DOMAIN f.acc /\ MergeHolds(f.path, f.acc.bindings, f.rest)

\* d is the entry of a file above frame i that is being verified or computed.
Above(fs, i, d) == \E j \in 1..Len(fs) : i < j /\ fs[j].op # "FileEnv" /\ d = EnvKey(fs[j].path)

FrameHolds(fs, i) ==
  /\ fs[i].op = "Verify" => VerifyHolds(fs[i])
  /\ fs[i].op = "Compute" =>
       /\ ComputeHolds(fs[i])
       /\ \A d \in DepKey : Listed(fs[i].path, d) => Verified(d) \/ Above(fs, i, d)

\* The loop of f stands at what the call of FileEnv(q) is for.
Awaits(f, q) ==
  /\ f.rest # <<>> /\ f.op # "FileEnv"
  /\ f.op = "Verify" => Head(f.rest) = EnvKey(q)
  /\ f.op = "Compute" => /\ resolved[<<Head(f.rest), f.path>>] = q
                         /\ Verified(ResolveKey(Head(f.rest), f.path))
                         /\ Listed(f.path, ResolveKey(Head(f.rest), f.path))

\* A call of FileEnv is the work of the frame below, which has recorded it once
\* it is under way.
LinkHolds(fs, i) ==
  /\ Awaits(fs[i], fs[i + 1].path)
  /\ fs[i].op = "Compute" /\ fs[i + 1].op # "FileEnv" => Listed(fs[i].path, EnvKey(fs[i + 1].path))

FramesDescend(rank, fs) ==
  \A i, j \in 1..Len(fs) : i < j => rank[fs[j].path] < rank[fs[i].path]

FramesHold(rank) ==
  /\ \A i \in 1..Len(frames) : FrameHolds(frames, i)
  /\ \A i \in 1..Len(frames) : i < Len(frames) => LinkHolds(frames, i)
  /\ FramesDescend(rank, frames)

\* What a call hands back is verified, and is what the frame below waits for.
ReturnHolds ==
  ret # NoRet =>
    /\ ret.path \in Paths /\ ~ret.cycle /\ Verified(EnvKey(ret.path))
    /\ Len(frames) > 0 => /\ Awaits(Top, ret.path)
                          /\ Top.op = "Compute" => Listed(Top.path, EnvKey(ret.path))

FreshInv(rank) ==
  RecordsHold /\ EntriesHold(rank) /\ FramesHold(rank) /\ ReturnHolds

Grounded == TermsInv /\ StackInv

(***************************************************************************)
(* What the theorems assume.                                               *)
(***************************************************************************)

\* Whatever the files import when they are read is below them in the order.
ImportsFollow(rank) ==
  \A p \in Paths, s \in Specs :
    s \in ToSet(ImportsOf(TermOf(ReadText(p)))) /\ Locate(s, p) # NoPath =>
      rank[Locate(s, p)] < rank[p]

\* Other programs write files but do not create or delete them.
FilesStay == \A p \in Paths : disk'[p] = NoText <=> disk[p] = NoText

\* NilEnv and Uncomputed are no environments.
EnvironmentsApart ==
  \A p, b : [file |-> p, bindings |-> b] # NilEnv /\ [file |-> p, bindings |-> b] # Uncomputed

(***************************************************************************)
(* What a step does to the entries.                                        *)
(***************************************************************************)

\* The record under key d may change: it was not verified, and the change shows.
Moves(d) == ~Verified(d) /\ changedAt'[d] = revision

Progress ==
  /\ revision' = revision
  /\ \A d \in DepKey : /\ changedAt'[d] = changedAt[d] \/ changedAt'[d] = revision
                       /\ Verified(d) => changedAt'[d] = changedAt[d] /\ Verified(d)'
  /\ \A q \in Paths : terms'[q].root # terms[q].root => Moves(TermsKey(q))
  /\ \A s \in Specs, q \in Paths : resolved'[<<s, q>>] # resolved[<<s, q>>] => Moves(ResolveKey(s, q))
  /\ \A q \in Paths : envs'[q].env # envs[q].env \/ envs'[q].bindings # envs[q].bindings
                        => Moves(EnvKey(q))

\* What gave the layer of import s does not change.
Fixed(p, s) ==
  /\ ~Moves(ResolveKey(s, p))
  /\ resolved[<<s, p>>] # NoPath => ~Moves(EnvKey(resolved[<<s, p>>]))

LEMMA ImportListType ==
  ASSUME RecordsOK, NEW p \in Paths
  PROVE  /\ ImportList(p) \in Seq(Specs) /\ Len(ImportList(p)) \in Nat
         /\ DOMAIN ImportList(p) = 1..Len(ImportList(p))
         /\ \A k \in 1..Len(ImportList(p)) : /\ ImportList(p)[k] \in Specs
                                             /\ Layers(p)[k] = Imported(p, ImportList(p)[k])
<1>1. IsTerms(terms[p])
  BY DEF RecordsOK
<1>2. ImportList(p) \in Seq(Specs)
  BY <1>1, EmptySeq DEF IsTerms, ImportList, ImportsOf
<1>3. Len(ImportList(p)) \in Nat /\ DOMAIN ImportList(p) = 1..Len(ImportList(p))
      /\ \A k \in 1..Len(ImportList(p)) : ImportList(p)[k] \in Specs
  BY <1>2, LenProperties, ElementOfSeq
<1> QED BY <1>2, <1>3 DEF Layers

LEMMA ImportedKept ==
  ASSUME Progress, RecordsOK, NEW s \in Specs, NEW p \in Paths, Fixed(p, s)
  PROVE  resolved'[<<s, p>>] = resolved[<<s, p>>] /\ Imported(p, s)' = Imported(p, s)
<1>1. resolved'[<<s, p>>] = resolved[<<s, p>>]
  BY DEF Progress, Fixed
<1>2. resolved[<<s, p>>] \in Paths \cup {NoPath}
  BY DEF RecordsOK
<1>3. resolved[<<s, p>>] # NoPath => envs'[resolved[<<s, p>>]].bindings = envs[resolved[<<s, p>>]].bindings
  BY <1>2 DEF Progress, Fixed
<1> QED BY <1>1, <1>3 DEF Imported

LEMMA LayersKept ==
  ASSUME Progress, RecordsOK, NEW p \in Paths, ~Moves(TermsKey(p)),
         NEW m \in Nat, m <= Len(ImportList(p)), \A k \in 1..m : Fixed(p, ImportList(p)[k])
  PROVE  /\ terms'[p].root = terms[p].root
         /\ ImportList(p)' = ImportList(p)
         /\ Layered(Layers(p), m)' = Layered(Layers(p), m)
         /\ \A k \in 1..m : resolved'[<<ImportList(p)[k], p>>] = resolved[<<ImportList(p)[k], p>>]
<1> DEFINE I == ImportList(p)
<1>1. terms'[p].root = terms[p].root /\ ImportList(p)' = I
  BY DEF Progress, ImportList
<1>2. Len(I) \in Nat /\ \A k \in 1..m : k \in 1..Len(I)
  BY ImportListType
<1>3. ASSUME NEW k \in 1..m
      PROVE  /\ resolved'[<<I[k], p>>] = resolved[<<I[k], p>>]
             /\ Layers(p)'[k] = Layers(p)[k]
  <2>1. PICK s \in Specs : s = I[k]
    BY <1>2, ImportListType
  <2>2. resolved'[<<s, p>>] = resolved[<<s, p>>] /\ Imported(p, s)' = Imported(p, s)
    BY <2>1, ImportedKept
  <2>3. k \in DOMAIN I /\ k \in DOMAIN ImportList(p)' /\ ImportList(p)'[k] = s
    BY <1>1, <1>2, <2>1, ImportListType
  <2>4. Layers(p)'[k] = Imported(p, s)' /\ Layers(p)[k] = Imported(p, s)
    BY <2>1, <2>3 DEF Layers, Imported
  <2> QED BY <2>1, <2>2, <2>4
<1>4. Layered(Layers(p)', m) = Layered(Layers(p), m)
  BY <1>3, LayeredSame
<1> QED BY <1>1, <1>3, <1>4

LEMMA ConsistentKept ==
  ASSUME Progress, RecordsOK, NEW p \in Paths, Consistent(p), Listed(p, TermsKey(p)),
         \A d \in DepKey : Listed(p, d) => Listed(p, d)' /\ ~Moves(d),
         envs'[p].env = envs[p].env
  PROVE  Consistent(p)'
<1> DEFINE I == ImportList(p)
           m == Len(I)
<1>1. m \in Nat /\ \A k \in 1..m : I[k] \in Specs
  BY ImportListType
<1>2. ASSUME NEW k \in 1..m PROVE Fixed(p, I[k])
  <2>1. PICK s \in Specs : s = I[k]
    BY <1>1
  <2>2. Recalls(p, s) /\ resolved[<<s, p>>] \in Paths \cup {NoPath}
    BY <2>1 DEF Consistent, RecordsOK
  <2> QED BY <2>1, <2>2, KeysApart DEF Recalls, Fixed
<1>3. ~Moves(TermsKey(p))
  BY KeysApart
<1>4. PICK n \in Nat : n = m
  BY <1>1
<1>5. /\ terms'[p].root = terms[p].root /\ ImportList(p)' = I
      /\ Layered(Layers(p), n)' = Layered(Layers(p), n)
      /\ \A k \in 1..n : resolved'[<<I[k], p>>] = resolved[<<I[k], p>>]
  <2>1. n <= Len(ImportList(p)) /\ \A k \in 1..n : Fixed(p, ImportList(p)[k])
    BY <1>2, <1>4
  <2> QED BY <2>1, <1>3, LayersKept
<1>6. Layered(Layers(p)', Len(ImportList(p)')) = Layered(Layers(p), Len(I))
  BY <1>4, <1>5
<1>7. ASSUME NEW k \in 1..m PROVE Recalls(p, I[k])'
  <2>1. PICK s \in Specs : s = I[k]
    BY <1>1
  <2>2. Recalls(p, s) /\ resolved[<<s, p>>] \in Paths \cup {NoPath}
    BY <2>1 DEF Consistent, RecordsOK
  <2>3. resolved'[<<s, p>>] = resolved[<<s, p>>]
    BY <1>4, <1>5, <2>1
  <2>4. Recalls(p, s)'
    <3>1. Listed(p, ResolveKey(s, p))'
      BY <2>2, KeysApart DEF Recalls
    <3>2. PICK t : t = resolved[<<s, p>>]
      OBVIOUS
    <3>3. t # NoPath => Listed(p, EnvKey(t)) /\ EnvKey(t) \in DepKey
      BY <2>2, <3>2, KeysApart DEF Recalls
    <3>4. t # NoPath => Listed(p, EnvKey(t))'
      BY <3>3
    <3> QED BY <3>1, <3>2, <3>4, <2>3 DEF Recalls
  <2> QED BY <2>1, <2>4, <1>5 DEF Recalls, Listed
<1>8. \A k \in 1..Len(ImportList(p)') : Recalls(p, ImportList(p)[k])'
  BY <1>5, <1>7 DEF Recalls, Listed
<1> QED BY <1>5, <1>6, <1>8 DEF Consistent

\* An entry that is not the one the step verifies or computes stays right.
LEMMA EntryKept ==
  ASSUME Progress, QueryInv, NEW p \in Paths, EntryOK(p),
         p \notin inFlight' => /\ p \notin inFlight /\ envs'[p].env = envs[p].env
                               /\ verifiedAt'[EnvKey(p)] = verifiedAt[EnvKey(p)]
                               /\ \A d \in DepKey : Listed(p, d)' <=> Listed(p, d)
  PROVE  EntryOK(p)'
<1> DEFINE v == verifiedAt[EnvKey(p)]
<1> SUFFICES ASSUME verifiedAt'[EnvKey(p)] # 0, p \notin inFlight' PROVE
      /\ Listed(p, TermsKey(p))'
      /\ Verified(EnvKey(p))' => \A d \in DepKey : Listed(p, d)' => Verified(d)'
      /\ (\A d \in DepKey : Listed(p, d)' => changedAt'[d] <= verifiedAt'[EnvKey(p)]) => Consistent(p)'
  BY DEF EntryOK
<1>1. /\ verifiedAt'[EnvKey(p)] = v /\ v # 0 /\ envs'[p].env = envs[p].env
      /\ \A d \in DepKey : Listed(p, d)' <=> Listed(p, d)
      /\ Listed(p, TermsKey(p))
      /\ Verified(EnvKey(p)) => \A d \in DepKey : Listed(p, d) => Verified(d)
      /\ (\A d \in DepKey : Listed(p, d) => changedAt[d] <= v) => Consistent(p)
  BY DEF EntryOK
<1>2. Listed(p, TermsKey(p))'
  BY <1>1, KeysApart
<1>3. revision' = revision /\ revision \in Nat /\ v \in 0..revision
      /\ \A d \in DepKey : changedAt[d] \in 0..revision
  BY KeysApart DEF Progress, QueryInv, StampsOK
<1>4. ASSUME Verified(EnvKey(p))', NEW d \in DepKey, Listed(p, d)' PROVE Verified(d)'
  <2>1. Verified(EnvKey(p))
    BY <1>1, <1>3, <1>4 DEF Verified
  <2> QED BY <2>1, <1>1, <1>4 DEF Progress
<1>5. ASSUME \A d \in DepKey : Listed(p, d)' => changedAt'[d] <= v PROVE Consistent(p)'
  <2>1. ASSUME NEW d \in DepKey, Listed(p, d) PROVE changedAt[d] <= v /\ ~Moves(d)
    <3>1. changedAt'[d] <= v /\ (changedAt'[d] = changedAt[d] \/ changedAt'[d] = revision)
      BY <1>1, <1>5, <2>1 DEF Progress
    <3>2. changedAt[d] <= v
      BY <3>1, <1>3
    <3>3. ASSUME Moves(d) PROVE FALSE
      <4>1. revision <= v /\ ~Verified(d)
        BY <3>1, <3>3 DEF Moves
      <4>2. Verified(EnvKey(p))
        BY <4>1, <1>3 DEF Verified
      <4> QED BY <4>1, <4>2, <1>1, <2>1
    <3> QED BY <3>2, <3>3
  <2>2. Consistent(p)
    BY <1>1, <2>1
  <2> QED BY <1>1, <2>1, <2>2, ConsistentKept DEF QueryInv
<1> QED BY <1>1, <1>2, <1>4, <1>5

(***************************************************************************)
(* Reads and lookups.                                                      *)
(***************************************************************************)

LEMMA EnvKeysApart ==
  /\ \A p, q : EnvKey(p) = EnvKey(q) => p = q
  /\ \A s, p, q : ResolveKey(s, p) # EnvKey(q)
  /\ \A s, p, t, q : ResolveKey(s, p) = ResolveKey(t, q) => s = t /\ p = q
<1>1. \A p, q : EnvKey(p) = EnvKey(q) => p = q
  BY DEF EnvKey
<1>2. \A s, p, t, q : ResolveKey(s, p) = ResolveKey(t, q) => s = t /\ p = q
  BY DEF ResolveKey
<1>3. \A s, p, q : ResolveKey(s, p)[1] = "Resolve" /\ EnvKey(q)[1] = "FileEnv"
  BY DEF ResolveKey, EnvKey
<1>4. \A s, p, q : ResolveKey(s, p) # EnvKey(q)
  BY <1>3, Zenon
<1> QED BY <1>1, <1>2, <1>4

\* What a read finds does not depend on what was read before.
LEMMA ReadKept ==
  ASSUME NoLinks, CoherenceInv, CacheGrows, UNCHANGED <<buffers, disk>>, NEW p \in Paths
  PROVE  ReadText(p)' = ReadText(p) /\ (Kept(p) => Kept(p)')
<1>1. CASE diskCache' = diskCache
  BY <1>1 DEF ReadText, TryDisk, DiskText, Kept
<1>2. ASSUME NEW k \in Paths, AllowDiskReads, disk[k] # NoText, diskCache' = Cached(k)
      PROVE  ReadText(p)' = ReadText(p) /\ (Kept(p) => Kept(p)')
  <2>1. \A q \in Paths : diskCache'[q] = IF q = k THEN DiskText(k) ELSE diskCache[q]
    BY <1>2 DEF CoherenceInv, QueryInv, FilesOK, Overlay, Cached
  <2>2. k \notin DOMAIN Embedded /\ DiskText(k) # NoText /\ NoPath \notin Paths
    BY <1>2, VfsAssumption DEF CoherenceInv, Apart, DiskText, VfsAssumption
  <2>3. TryDisk(p) = (IF AllowDiskReads /\ disk[p] # NoText THEN p ELSE NoPath) /\ TryDisk(p)' = TryDisk(p)
    BY DEF NoLinks, TryDisk
  <2>4. CASE p = k
    <3>1. TryDisk(p) = k /\ diskCache'[k] = DiskText(k) /\ DiskText(k)' = DiskText(k)
      BY <1>2, <2>1, <2>2, <2>3, <2>4 DEF DiskText
    <3> QED BY <2>2, <2>3, <2>4, <3>1 DEF ReadText, DiskText, Kept
  <2>5. CASE p # k
    <3>1. diskCache'[p] = diskCache[p]
      BY <2>1, <2>5
    <3> QED BY <2>2, <2>3, <3>1 DEF ReadText, DiskText, Kept
  <2> QED BY <2>4, <2>5
<1> QED BY <1>1, <1>2 DEF CacheGrows

\* Where a spec leads depends on which files there are, not on what they hold.
LEMMA LocateKept ==
  ASSUME FilesOK, UNCHANGED <<buffers, searchPaths>>, FilesStay, NEW s \in Specs, NEW p \in Paths
  PROVE  Locate(s, p)' = Locate(s, p)
<1>1. \A q \in Paths : Canonical(q) \in Paths
  BY VfsAssumption DEF VfsAssumption
<1>2. \A q \in Paths : Buffered(q)' = Buffered(q) /\ TryDisk(q)' = TryDisk(q)
  BY <1>1 DEF Buffered, TryDisk, FilesStay
<1>3. \A q \in Paths : AtPlace(q)' = AtPlace(q)
  BY <1>2 DEF AtPlace
<1> DEFINE places == Places(s, p)
           hits == {i \in DOMAIN places : AtPlace(places[i]) # NoPath}
<1>4. places' = places
  BY DEF Places
<1>5. \A i \in DOMAIN places : places[i] \in Paths
  BY PlacesArePaths
<1>6. hits' = hits
  <2>1. \A i \in DOMAIN places : AtPlace(places[i])' = AtPlace(places[i])
    <3> TAKE i \in DOMAIN places
    <3>1. PICK q \in Paths : q = places[i]
      BY <1>5
    <3>2. places'[i] = q
      BY <1>4, <3>1
    <3> QED BY <1>2, <1>3, <3>1, <3>2 DEF AtPlace, Buffered, TryDisk
  <2> QED BY <1>4, <2>1
<1>7. FirstPlace(s, p)' = FirstPlace(s, p)
  <2> HIDE DEF places, hits
  <2>1. FirstPlace(s, p) = IF hits = {} THEN NoPath ELSE places[CHOOSE i \in hits : \A j \in hits : i <= j]
    BY DEF FirstPlace, places, hits
  <2>2. FirstPlace(s, p)' = IF hits' = {} THEN NoPath ELSE places'[CHOOSE i \in hits' : \A j \in hits' : i <= j]
    BY DEF FirstPlace, places, hits
  <2> QED BY <2>1, <2>2, <1>4, <1>6
<1>8. s \in Paths
  BY VfsAssumption DEF VfsAssumption
<1>9. FirstPlace(s, p) = NoPath \/ FirstPlace(s, p) \in Paths
  BY FirstPlaceAnswers
<1>10. FirstPlace(s, p) # NoPath => AtPlace(FirstPlace(s, p))' = AtPlace(FirstPlace(s, p))
  <2> SUFFICES ASSUME FirstPlace(s, p) # NoPath PROVE AtPlace(FirstPlace(s, p))' = AtPlace(FirstPlace(s, p))
    OBVIOUS
  <2>1. PICK q \in Paths : q = FirstPlace(s, p)
    BY <1>9
  <2>2. FirstPlace(s, p)' = q
    BY <1>7, <2>1
  <2> QED BY <1>2, <1>3, <2>1, <2>2 DEF AtPlace, Buffered, TryDisk
<1> QED BY <1>2, <1>7, <1>8, <1>10 DEF Locate

(***************************************************************************)
(* What each kind of step records.                                         *)
(***************************************************************************)

\* Nothing.
LEMMA NothingRecorded ==
  ASSUME QueryInv, RecordsHold,
         UNCHANGED <<vfsVars, stamps, changedAt, verifiedAt, terms, resolved, envs>>
  PROVE  Progress /\ RecordsHold'
<1>1. /\ buffers' = buffers /\ disk' = disk /\ diskCache' = diskCache
      /\ searchPaths' = searchPaths /\ revision' = revision
      /\ changedAt' = changedAt /\ verifiedAt' = verifiedAt
      /\ terms' = terms /\ resolved' = resolved /\ envs' = envs
  BY DEF vfsVars, stamps
<1>2. Progress
  BY <1>1 DEF Progress, Verified
<1>3. \A p \in Paths : ReadText(p)' = ReadText(p) /\ Kept(p)' = Kept(p)
  BY <1>1 DEF ReadText, TryDisk, DiskText, Kept
<1>4. FilesStay
  BY <1>1 DEF FilesStay
<1>5. \A s \in Specs, p \in Paths : Locate(s, p)' = Locate(s, p)
  BY <1>1, <1>4, LocateKept DEF QueryInv
<1>6. ASSUME NEW p \in Paths PROVE ShapeOK(p)' /\ TextHeld(p)'
  BY <1>1, <1>3 DEF RecordsHold, ShapeOK, TextHeld
<1>7. ASSUME NEW s \in Specs, NEW p \in Paths PROVE PlaceHeld(s, p)'
  BY <1>1, <1>5 DEF RecordsHold, PlaceHeld
<1> QED BY <1>1, <1>2, <1>6, <1>7 DEF RecordsHold

\* The terms of a file, as its text is read now.
LEMMA TermsRecorded ==
  ASSUME NoLinks, CoherenceInv, RecordsHold, Steady, NEW p \in Paths, RefreshTerms(p),
         UNCHANGED <<resolved, envs>>
  PROVE  /\ Progress /\ RecordsHold'
         /\ Verified(TermsKey(p))'
         /\ terms'[p] = TermsNow(p) /\ changedAt'[TermsKey(p)] = TermsChangedAt(p)
         /\ \A q \in Paths : verifiedAt'[EnvKey(q)] = verifiedAt[EnvKey(q)]
<1>1. /\ buffers' = buffers /\ disk' = disk /\ searchPaths' = searchPaths
      /\ revision' = revision /\ resolved' = resolved /\ envs' = envs
      /\ DOMAIN changedAt = Key /\ DOMAIN verifiedAt = Key /\ DOMAIN terms = Paths
      /\ revision \in Nat /\ revision # 0
      /\ \A k \in Key : verifiedAt[k] \in 0..revision /\ changedAt[k] \in 0..revision
  BY DEF Steady, stamps, CoherenceInv, QueryInv, StampsOK, RecordsOK
<1>2. /\ terms' = [terms EXCEPT ![p] = TermsNow(p)]
      /\ changedAt' = [changedAt EXCEPT ![TermsKey(p)] = TermsChangedAt(p)]
      /\ verifiedAt' = [verifiedAt EXCEPT ![TermsKey(p)] = revision]
      /\ diskCache' = IF TermsStale(p) THEN CacheAfterRead(p) ELSE diskCache
  BY DEF RefreshTerms
<1>3. TermsKey(p) \in Key /\ DepKey \subseteq Key
  BY KeysApart
<1>4. \A k \in Key : /\ changedAt'[k] = IF k = TermsKey(p) THEN TermsChangedAt(p) ELSE changedAt[k]
                     /\ verifiedAt'[k] = IF k = TermsKey(p) THEN revision ELSE verifiedAt[k]
  BY <1>1, <1>2
<1>5. \A q \in Paths : terms'[q] = IF q = p THEN TermsNow(p) ELSE terms[q]
  BY <1>1, <1>2
<1>6. ASSUME Verified(TermsKey(p))
      PROVE  TermsNow(p) = terms[p] /\ TermsChangedAt(p) = changedAt[TermsKey(p)]
  BY <1>6 DEF TermsNow, TermsChangedAt, TermsStale, Stale, Verified
<1>7. ASSUME TermsNow(p).root # terms[p].root PROVE TermsChangedAt(p) = revision
  BY <1>7 DEF TermsNow, TermsChangedAt, SameTerms
<1>8. TermsChangedAt(p) = changedAt[TermsKey(p)] \/ TermsChangedAt(p) = revision
  BY DEF TermsChangedAt
<1>9. Progress
  <2>1. \A d \in DepKey : /\ changedAt'[d] = changedAt[d] \/ changedAt'[d] = revision
                          /\ Verified(d) => changedAt'[d] = changedAt[d] /\ Verified(d)'
    BY <1>1, <1>3, <1>4, <1>6, <1>8 DEF Verified
  <2>2. \A q \in Paths : terms'[q].root # terms[q].root => Moves(TermsKey(q))
    BY <1>3, <1>4, <1>5, <1>6, <1>7 DEF Moves
  <2> QED BY <1>1, <2>1, <2>2 DEF Progress
<1>10. CacheGrows
  BY <1>2, ReadsGrow DEF CacheGrows, CoherenceInv, QueryInv
<1>11. \A q \in Paths : ReadText(q)' = ReadText(q) /\ (Kept(q) => Kept(q)')
  BY <1>1, <1>10, ReadKept
<1>12. ASSUME NEW q \in Paths PROVE TextHeld(q)'
  <2>1. /\ TextKey(q) \in Key /\ TermsKey(q) \in Key /\ TextKey(q) # TermsKey(p)
        /\ (TermsKey(q) = TermsKey(p) => q = p)
    BY KeysApart
  <2>2. changedAt'[TextKey(q)] = changedAt[TextKey(q)] /\ TextHeld(q)
    BY <1>4, <2>1 DEF RecordsHold
  <2>3. CASE q # p
    <3>1. verifiedAt'[TermsKey(q)] = verifiedAt[TermsKey(q)] /\ terms'[q] = terms[q]
      BY <1>4, <1>5, <2>1, <2>3
    <3> QED BY <2>2, <3>1, <1>11 DEF TextHeld
  <2>4. CASE q = p /\ TermsStale(p)
    <3>1. terms'[q].root = TermOf(ReadText(q))
      <4>1. terms'[q] = Parsed(q)
        BY <1>5, <2>4 DEF TermsNow
      <4> QED BY <4>1 DEF Parsed, NoTerms, TermOf
    <3>2. Kept(q)'
      <4>1. diskCache' = CacheAfterRead(q)
        BY <1>2, <2>4
      <4>2. CASE Kept(q)
        BY <4>2, <1>11
      <4>3. CASE ~Kept(q)
        <5>1. TryDisk(q) = q /\ disk[q] # NoText /\ diskCache[q] = NoText /\ diskCache' = Cached(q)
          BY <4>1, <4>3 DEF Kept, CacheAfterRead, TryDisk, NoLinks
        <5>2. diskCache'[q] = disk[q]
          BY <5>1 DEF Cached, DiskText, CoherenceInv, QueryInv, FilesOK, Overlay
        <5> QED BY <5>1, <5>2 DEF Kept
      <4> QED BY <4>2, <4>3
    <3> QED BY <3>1, <3>2, <1>11 DEF TextHeld
  <2>5. CASE q = p /\ ~TermsStale(p)
    <3>1. terms'[q] = terms[q]
      BY <1>5, <2>5 DEF TermsNow
    <3>2. verifiedAt[TermsKey(q)] # 0 /\ changedAt[TextKey(q)] <= verifiedAt[TermsKey(q)]
      BY <1>1, <2>1, <2>5 DEF TermsStale, Stale
    <3>3. terms[q].root = TermOf(ReadText(q)) /\ Kept(q)
      BY <2>2, <3>2 DEF TextHeld
    <3> QED BY <3>1, <3>3, <1>11 DEF TextHeld
  <2> QED BY <2>3, <2>4, <2>5
<1>13. ASSUME NEW s \in Specs, NEW q \in Paths PROVE PlaceHeld(s, q)'
  <2>1. ResolveKey(s, q) \in Key /\ ResolveKey(s, q) # TermsKey(p) /\ VfsKey \in Key /\ VfsKey # TermsKey(p)
    BY KeysApart DEF Key
  <2>2. FilesStay
    BY <1>1 DEF FilesStay
  <2>3. Locate(s, q)' = Locate(s, q)
    BY <1>1, <2>2, LocateKept DEF CoherenceInv, QueryInv
  <2> QED BY <1>1, <1>4, <2>1, <2>3 DEF RecordsHold, PlaceHeld
<1>14. ASSUME NEW q \in Paths PROVE ShapeOK(q)' /\ verifiedAt'[EnvKey(q)] = verifiedAt[EnvKey(q)]
  <2>1. EnvKey(q) \in Key /\ EnvKey(q) # TermsKey(p)
    BY KeysApart
  <2> QED BY <1>1, <1>4, <2>1 DEF RecordsHold, ShapeOK
<1> QED BY <1>1, <1>3, <1>4, <1>5, <1>9, <1>12, <1>13, <1>14 DEF RecordsHold, Verified

\* Where an import leads, as the files are now.
LEMMA PlaceRecorded ==
  ASSUME NoLinks, CoherenceInv, RecordsHold, Steady, NEW s \in Specs, NEW p \in Paths,
         RefreshResolve(s, p), UNCHANGED <<terms, envs>>
  PROVE  /\ Progress /\ RecordsHold'
         /\ Verified(ResolveKey(s, p))' /\ resolved'[<<s, p>>] = ResolveNow(s, p)
         /\ ResolveNow(s, p) = Locate(s, p)
         /\ changedAt'[ResolveKey(s, p)] = ResolveChangedAt(s, p)
         /\ \A q \in Paths : verifiedAt'[EnvKey(q)] = verifiedAt[EnvKey(q)]
<1>1. /\ buffers' = buffers /\ disk' = disk /\ searchPaths' = searchPaths
      /\ revision' = revision /\ terms' = terms /\ envs' = envs
      /\ DOMAIN changedAt = Key /\ DOMAIN verifiedAt = Key
      /\ resolved \in [Specs \X Paths -> Paths \cup {NoPath}]
      /\ revision \in Nat /\ revision # 0
      /\ \A k \in Key : verifiedAt[k] \in 0..revision /\ changedAt[k] \in 0..revision
  BY DEF Steady, stamps, CoherenceInv, QueryInv, StampsOK, RecordsOK
<1>2. /\ resolved' = [resolved EXCEPT ![<<s, p>>] = ResolveNow(s, p)]
      /\ changedAt' = [changedAt EXCEPT ![ResolveKey(s, p)] = ResolveChangedAt(s, p)]
      /\ verifiedAt' = [verifiedAt EXCEPT ![ResolveKey(s, p)] = revision]
      /\ diskCache' = IF ResolveStale(s, p) THEN CacheAfterLocate(s, p) ELSE diskCache
  BY DEF RefreshResolve
<1>3. ResolveKey(s, p) \in Key /\ DepKey \subseteq Key /\ VfsKey \in Key /\ VfsKey # ResolveKey(s, p)
  BY KeysApart DEF Key, ResolveKey, VfsKey
<1>4. \A k \in Key : /\ changedAt'[k] = IF k = ResolveKey(s, p) THEN ResolveChangedAt(s, p) ELSE changedAt[k]
                     /\ verifiedAt'[k] = IF k = ResolveKey(s, p) THEN revision ELSE verifiedAt[k]
  BY <1>1, <1>2
<1>5. \A t \in Specs, q \in Paths :
        resolved'[<<t, q>>] = IF t = s /\ q = p THEN ResolveNow(s, p) ELSE resolved[<<t, q>>]
  BY <1>1, <1>2
<1>6. ASSUME Verified(ResolveKey(s, p))
      PROVE  ResolveNow(s, p) = resolved[<<s, p>>] /\ ResolveChangedAt(s, p) = changedAt[ResolveKey(s, p)]
  BY <1>6 DEF ResolveNow, ResolveChangedAt, ResolveStale, Stale, Verified
<1>7. ASSUME ResolveNow(s, p) # resolved[<<s, p>>] PROVE ResolveChangedAt(s, p) = revision
  BY <1>7 DEF ResolveChangedAt
<1>8. ResolveChangedAt(s, p) = changedAt[ResolveKey(s, p)] \/ ResolveChangedAt(s, p) = revision
  BY DEF ResolveChangedAt
<1>9. Progress
  <2>1. \A d \in DepKey : /\ changedAt'[d] = changedAt[d] \/ changedAt'[d] = revision
                          /\ Verified(d) => changedAt'[d] = changedAt[d] /\ Verified(d)'
    BY <1>1, <1>3, <1>4, <1>6, <1>8 DEF Verified
  <2>2. \A t \in Specs, q \in Paths :
          resolved'[<<t, q>>] # resolved[<<t, q>>] => Moves(ResolveKey(t, q))
    BY <1>3, <1>4, <1>5, <1>6, <1>7 DEF Moves
  <2> QED BY <1>1, <2>1, <2>2 DEF Progress
<1>10. CacheGrows
  BY <1>2, ReadsGrow DEF CacheGrows, CoherenceInv, QueryInv
<1>11. \A q \in Paths : ReadText(q)' = ReadText(q) /\ (Kept(q) => Kept(q)')
  BY <1>1, <1>10, ReadKept
<1>12. ASSUME NEW q \in Paths
       PROVE  /\ TextHeld(q)' /\ ShapeOK(q)'
              /\ verifiedAt'[EnvKey(q)] = verifiedAt[EnvKey(q)]
  <2>1. /\ TextKey(q) \in Key /\ TermsKey(q) \in Key /\ EnvKey(q) \in Key
        /\ TextKey(q) # ResolveKey(s, p) /\ TermsKey(q) # ResolveKey(s, p) /\ EnvKey(q) # ResolveKey(s, p)
    BY KeysApart, EnvKeysApart
  <2>2. TextHeld(q) /\ ShapeOK(q)
    BY DEF RecordsHold
  <2> QED BY <1>1, <1>4, <1>11, <2>1, <2>2 DEF TextHeld, ShapeOK
<1>13. FilesStay
  BY <1>1 DEF FilesStay
<1>14. \A t \in Specs, q \in Paths : Locate(t, q)' = Locate(t, q)
  BY <1>1, <1>13, LocateKept DEF CoherenceInv, QueryInv
<1>15. ResolveNow(s, p) = Locate(s, p)
  <2>1. CASE ResolveStale(s, p)
    BY <2>1 DEF ResolveNow
  <2>2. CASE ~ResolveStale(s, p)
    <3>1. verifiedAt[ResolveKey(s, p)] # 0 /\ changedAt[VfsKey] <= verifiedAt[ResolveKey(s, p)]
      BY <1>1, <1>3, <2>2 DEF ResolveStale, Stale
    <3> QED BY <2>2, <3>1 DEF ResolveNow, RecordsHold, PlaceHeld
  <2> QED BY <2>1, <2>2
<1>16. ASSUME NEW t \in Specs, NEW q \in Paths PROVE PlaceHeld(t, q)'
  <2>1. CASE t = s /\ q = p
    BY <2>1, <1>5, <1>14, <1>15 DEF PlaceHeld
  <2>2. CASE ~ (t = s /\ q = p)
    <3>1. ResolveKey(t, q) \in Key /\ ResolveKey(t, q) # ResolveKey(s, p)
      BY <2>2, KeysApart, EnvKeysApart
    <3> QED BY <1>3, <1>4, <1>5, <1>14, <2>2, <3>1 DEF RecordsHold, PlaceHeld
  <2> QED BY <2>1, <2>2
<1> QED BY <1>1, <1>3, <1>4, <1>5, <1>9, <1>12, <1>15, <1>16 DEF RecordsHold, Verified

\* That an entry was found to hold.
LEMMA EntryVerified ==
  ASSUME QueryInv, RecordsHold, NEW p \in Paths, ~Verified(EnvKey(p)),
         verifiedAt' = [verifiedAt EXCEPT ![EnvKey(p)] = revision],
         UNCHANGED <<vfsVars, stamps, changedAt, terms, resolved, envs>>
  PROVE  /\ Progress /\ RecordsHold' /\ Verified(EnvKey(p))'
         /\ \A q \in Paths : q # p => verifiedAt'[EnvKey(q)] = verifiedAt[EnvKey(q)]
<1>1. /\ buffers' = buffers /\ disk' = disk /\ diskCache' = diskCache
      /\ searchPaths' = searchPaths /\ revision' = revision
      /\ changedAt' = changedAt /\ terms' = terms /\ resolved' = resolved /\ envs' = envs
      /\ DOMAIN verifiedAt = Key
  BY DEF vfsVars, stamps, QueryInv, StampsOK
<1>2. EnvKey(p) \in Key /\ DepKey \subseteq Key
  BY KeysApart
<1>3. \A k \in Key : verifiedAt'[k] = IF k = EnvKey(p) THEN revision ELSE verifiedAt[k]
  BY <1>1
<1>4. Progress
  BY <1>1, <1>2, <1>3 DEF Progress, Verified
<1>5. \A q \in Paths : ReadText(q)' = ReadText(q) /\ Kept(q)' = Kept(q)
  BY <1>1 DEF ReadText, TryDisk, DiskText, Kept
<1>6. FilesStay
  BY <1>1 DEF FilesStay
<1>7. \A s \in Specs, q \in Paths : Locate(s, q)' = Locate(s, q)
  BY <1>1, <1>6, LocateKept DEF QueryInv
<1>8. ASSUME NEW q \in Paths PROVE ShapeOK(q)' /\ TextHeld(q)'
  <2>1. TermsKey(q) \in Key /\ TermsKey(q) # EnvKey(p)
    BY KeysApart
  <2> QED BY <1>1, <1>3, <1>5, <2>1 DEF RecordsHold, ShapeOK, TextHeld
<1>9. ASSUME NEW s \in Specs, NEW q \in Paths PROVE PlaceHeld(s, q)'
  <2>1. ResolveKey(s, q) \in Key /\ ResolveKey(s, q) # EnvKey(p)
    BY KeysApart, EnvKeysApart
  <2> QED BY <1>1, <1>3, <1>7, <2>1 DEF RecordsHold, PlaceHeld
<1>10. ASSUME NEW q \in Paths, q # p PROVE verifiedAt'[EnvKey(q)] = verifiedAt[EnvKey(q)]
  BY <1>3, <1>10, KeysApart, EnvKeysApart
<1> QED BY <1>1, <1>2, <1>3, <1>4, <1>8, <1>9, <1>10 DEF RecordsHold, Verified

\* What building gives has the shape of a result.
LEMMA BuiltShape ==
  ASSUME NEW p, NEW acc
  PROVE  /\ terms[p].root = NoTerm =>
              Built(p, acc).env = NilEnv /\ Built(p, acc).bindings = <<>>
         /\ terms[p].root # NoTerm =>
              /\ Built(p, acc).bindings = Override(acc.bindings, terms[p].root.defs)
              /\ Built(p, acc).env = [file |-> p, bindings |-> Built(p, acc).bindings]
<1>1. CASE terms[p].root = NoTerm
  BY <1>1 DEF Built, EmptyResult
<1>2. CASE terms[p].root # NoTerm
  BY <1>2 DEF Built, Layer
<1> QED BY <1>1, <1>2

\* The result of a computation: another result shows as a change.
LEMMA ResultRecorded ==
  ASSUME QueryInv, RecordsHold, EnvironmentsApart, NEW p \in Paths, NEW acc,
         ~Verified(EnvKey(p)),
         envs' = [envs EXCEPT ![p] = Built(p, acc)],
         changedAt' = [changedAt EXCEPT ![EnvKey(p)] =
                         IF envs[p].env # Built(p, acc).env THEN revision ELSE @],
         verifiedAt' = [verifiedAt EXCEPT ![EnvKey(p)] = revision],
         UNCHANGED <<vfsVars, stamps, terms, resolved>>
  PROVE  /\ Progress /\ RecordsHold' /\ Verified(EnvKey(p))' /\ envs'[p] = Built(p, acc)
         /\ \A q \in Paths : q # p => verifiedAt'[EnvKey(q)] = verifiedAt[EnvKey(q)]
<1> DEFINE new == Built(p, acc)
<1>1. /\ buffers' = buffers /\ disk' = disk /\ diskCache' = diskCache
      /\ searchPaths' = searchPaths /\ revision' = revision
      /\ terms' = terms /\ resolved' = resolved
      /\ DOMAIN verifiedAt = Key /\ DOMAIN changedAt = Key /\ DOMAIN envs = Paths
  BY DEF vfsVars, stamps, QueryInv, StampsOK, RecordsHold
<1>2. EnvKey(p) \in Key /\ DepKey \subseteq Key
  BY KeysApart
<1>3. ShapeOK(p)
  BY DEF RecordsHold
<1>4. \/ new.env = NilEnv /\ new.bindings = <<>>
      \/ new.env = [file |-> p, bindings |-> new.bindings]
  BY BuiltShape
<1> HIDE DEF new
<1>5. envs[p].env = new.env => envs[p].bindings = new.bindings
  <2> SUFFICES ASSUME envs[p].env = new.env PROVE envs[p].bindings = new.bindings
    OBVIOUS
  <2>1. PICK a, b : a = envs[p].bindings /\ b = new.bindings
    OBVIOUS
  <2>2. /\ [file |-> p, bindings |-> a] # NilEnv /\ [file |-> p, bindings |-> b] # NilEnv
        /\ [file |-> p, bindings |-> a] # Uncomputed /\ [file |-> p, bindings |-> b] # Uncomputed
    BY DEF EnvironmentsApart
  <2>3. [file |-> p, bindings |-> a] = [file |-> p, bindings |-> b] => a = b
    OBVIOUS
  <2>4. /\ \/ new.env \in {NilEnv, Uncomputed} /\ a = <<>>
           \/ new.env = [file |-> p, bindings |-> a]
        /\ \/ new.env = NilEnv /\ b = <<>>
           \/ new.env = [file |-> p, bindings |-> b]
    BY <1>3, <1>4, <2>1 DEF ShapeOK
  <2> QED BY <2>1, <2>2, <2>3, <2>4
<1>6. \A q \in Paths : envs'[q] = IF q = p THEN new ELSE envs[q]
  BY <1>1 DEF new
<1>7. \A k \in Key : /\ verifiedAt'[k] = IF k = EnvKey(p) THEN revision ELSE verifiedAt[k]
                     /\ changedAt'[k] = IF k = EnvKey(p) /\ envs[p].env # new.env THEN revision
                                        ELSE changedAt[k]
  BY <1>1 DEF new
<1>8. Progress
  <2>1. \A d \in DepKey : /\ changedAt'[d] = changedAt[d] \/ changedAt'[d] = revision
                          /\ Verified(d) => changedAt'[d] = changedAt[d] /\ Verified(d)'
    BY <1>1, <1>2, <1>7 DEF Verified
  <2>2. \A q \in Paths : envs'[q].env # envs[q].env \/ envs'[q].bindings # envs[q].bindings
                           => Moves(EnvKey(q))
    BY <1>2, <1>5, <1>6, <1>7 DEF Moves
  <2> QED BY <1>1, <2>1, <2>2 DEF Progress
<1>9. \A q \in Paths : ReadText(q)' = ReadText(q) /\ Kept(q)' = Kept(q)
  BY <1>1 DEF ReadText, TryDisk, DiskText, Kept
<1>10. FilesStay
  BY <1>1 DEF FilesStay
<1>11. \A s \in Specs, q \in Paths : Locate(s, q)' = Locate(s, q)
  BY <1>1, <1>10, LocateKept DEF QueryInv
<1>12. ASSUME NEW q \in Paths PROVE ShapeOK(q)' /\ TextHeld(q)'
  <2>1. /\ TermsKey(q) \in Key /\ TermsKey(q) # EnvKey(p)
        /\ TextKey(q) \in Key /\ TextKey(q) # EnvKey(p)
    BY KeysApart
  <2>2. ShapeOK(q)'
    BY <1>4, <1>6 DEF RecordsHold, ShapeOK
  <2> QED BY <1>1, <1>7, <1>9, <2>1, <2>2 DEF RecordsHold, TextHeld
<1>13. ASSUME NEW s \in Specs, NEW q \in Paths PROVE PlaceHeld(s, q)'
  <2>1. /\ ResolveKey(s, q) \in Key /\ ResolveKey(s, q) # EnvKey(p)
        /\ VfsKey \in Key /\ VfsKey # EnvKey(p)
    BY KeysApart, EnvKeysApart DEF Key, VfsKey, EnvKey
  <2> QED BY <1>1, <1>7, <1>11, <2>1 DEF RecordsHold, PlaceHeld
<1>14. ASSUME NEW q \in Paths, q # p PROVE verifiedAt'[EnvKey(q)] = verifiedAt[EnvKey(q)]
  BY <1>7, <1>14, KeysApart, EnvKeysApart
<1>15. DOMAIN envs' = Paths
  BY <1>1
<1> QED BY <1>1, <1>2, <1>6, <1>7, <1>8, <1>12, <1>13, <1>14, <1>15 DEF RecordsHold, Verified, new

(***************************************************************************)
(* What is below the top of the stack.                                     *)
(***************************************************************************)

\* A verification in progress goes on from where it was.
LEMMA VerifyKept ==
  ASSUME Progress, NEW f, f.path \in Paths, VerifyHolds(f),
         verifiedAt'[EnvKey(f.path)] = verifiedAt[EnvKey(f.path)],
         f.rest \in Seq(DepKey),
         \A d \in DepKey : Listed(f.path, d)' <=> Listed(f.path, d)
  PROVE  VerifyHolds(f)'
<1>1. revision' = revision
  BY DEF Progress
<1>2. ~Verified(EnvKey(f.path))'
  BY <1>1 DEF VerifyHolds, Verified
<1>3. ToSet(f.rest) \subseteq DepKey
  <2>1. \A i \in DOMAIN f.rest : f.rest[i] \in DepKey
    BY ElementOfSeq, LenProperties
  <2> QED BY <2>1 DEF ToSet
<1>4. \A d \in ToSet(f.rest) : Listed(f.path, d)'
  BY <1>3 DEF VerifyHolds
<1>5. ASSUME PastHolds(f.path, f.rest) PROVE PastHolds(f.path, f.rest)'
  <2>1. verifiedAt'[EnvKey(f.path)] # 0
    BY <1>5 DEF PastHolds
  <2>2. ASSUME NEW d \in DepKey, Listed(f.path, d)', d \notin ToSet(f.rest)
        PROVE  Verified(d)' /\ changedAt'[d] <= verifiedAt'[EnvKey(f.path)]
    <3>1. Verified(d) /\ changedAt[d] <= verifiedAt[EnvKey(f.path)]
      BY <1>5, <2>2 DEF PastHolds
    <3> QED BY <3>1 DEF Progress
  <2> QED BY <2>1, <2>2 DEF PastHolds
<1> QED BY <1>2, <1>4, <1>5 DEF VerifyHolds

\* What was settled for this revision stays so.
LEMMA SettlesKept ==
  ASSUME Progress, RecordsOK, NEW s \in Specs, NEW p \in Paths, Settles(p, s),
         \A d \in DepKey : Listed(p, d) => Listed(p, d)'
  PROVE  Fixed(p, s) /\ Settles(p, s)'
<1>1. ResolveKey(s, p) \in DepKey /\ resolved[<<s, p>>] \in Paths \cup {NoPath}
  BY KeysApart DEF RecordsOK
<1>2. PICK t : t = resolved[<<s, p>>]
  OBVIOUS
<1>3. t # NoPath => EnvKey(t) \in DepKey /\ Listed(p, EnvKey(t)) /\ Verified(EnvKey(t))
  BY <1>1, <1>2, KeysApart DEF Settles, Recalls
<1>4. Listed(p, ResolveKey(s, p)) /\ Verified(ResolveKey(s, p))
  BY DEF Settles, Recalls
<1>5. Fixed(p, s)
  BY <1>2, <1>3, <1>4 DEF Fixed, Moves
<1>6. resolved'[<<s, p>>] = t
  BY <1>2, <1>5, ImportedKept
<1>7. Listed(p, ResolveKey(s, p))' /\ Verified(ResolveKey(s, p))'
  BY <1>1, <1>4 DEF Progress
<1>8. t # NoPath => Listed(p, EnvKey(t))' /\ Verified(EnvKey(t))'
  BY <1>3 DEF Progress
<1> QED BY <1>5, <1>6, <1>7, <1>8 DEF Settles, Recalls

\* So are the layers a computation has merged.
LEMMA MergeKept ==
  ASSUME Progress, RecordsOK, NEW p \in Paths, Verified(TermsKey(p)),
         NEW bindings, NEW rest, MergeHolds(p, bindings, rest), Len(rest) \in Nat,
         \A d \in DepKey : Listed(p, d) => Listed(p, d)'
  PROVE  MergeHolds(p, bindings, rest)'
<1> DEFINE I == ImportList(p)
<1>1. PICK m \in Nat :
        /\ Len(I) = m + Len(rest)
        /\ \A k \in 1..Len(rest) : rest[k] = I[m + k]
        /\ \A k \in 1..m : Settles(p, I[k])
        /\ bindings = Layered(Layers(p), m)
  BY DEF MergeHolds
<1>2. Len(I) \in Nat /\ m <= Len(I) /\ \A k \in 1..m : k \in 1..Len(I) /\ I[k] \in Specs
  BY <1>1, ImportListType
<1>3. ASSUME NEW k \in 1..m PROVE Fixed(p, I[k])
  <2>1. PICK s \in Specs : s = I[k]
    BY <1>2
  <2> QED BY <1>1, <2>1, SettlesKept
<1>4. ~Moves(TermsKey(p))
  BY DEF Moves
<1>5. ImportList(p)' = I /\ Layered(Layers(p), m)' = Layered(Layers(p), m)
  BY <1>2, <1>3, <1>4, LayersKept
<1>6. ASSUME NEW k \in 1..m PROVE Settles(p, ImportList(p)[k])'
  <2>1. PICK s \in Specs : s = I[k]
    BY <1>2
  <2>2. Settles(p, s)'
    BY <1>1, <2>1, SettlesKept
  <2> QED BY <1>5, <2>1, <2>2 DEF Settles, Recalls, Listed
<1>7. /\ Len(ImportList(p)') = m + Len(rest)
      /\ \A k \in 1..Len(rest) : rest[k] = ImportList(p)'[m + k]
      /\ bindings = Layered(Layers(p)', m)
  BY <1>1, <1>5
<1> QED BY <1>6, <1>7 DEF MergeHolds

LEMMA ComputeKept ==
  ASSUME Progress, RecordsOK, NEW f, f.path \in Paths, ComputeHolds(f),
         f.rest \in Seq(Specs),
         verifiedAt'[EnvKey(f.path)] = verifiedAt[EnvKey(f.path)],
         \A d \in DepKey : Listed(f.path, d) => Listed(f.path, d)'
  PROVE  ComputeHolds(f)'
<1>1. TermsKey(f.path) \in DepKey /\ revision' = revision
  BY KeysApart DEF Progress
<1>2. Verified(TermsKey(f.path)) /\ Listed(f.path, TermsKey(f.path)) /\ ~Verified(EnvKey(f.path))
      /\ MergeHolds(f.path, f.acc.bindings, f.rest)
  BY DEF ComputeHolds
<1>3. Verified(TermsKey(f.path))' /\ Listed(f.path, TermsKey(f.path))' /\ ~Verified(EnvKey(f.path))'
  BY <1>1, <1>2 DEF Progress, Verified
<1>4. PICK p \in Paths : p = f.path
  OBVIOUS
<1>5. PICK b, rest : b = f.acc.bindings /\ rest = f.rest
  OBVIOUS
<1>6. Len(rest) \in Nat
  BY <1>5, LenProperties
<1>7. MergeHolds(p, b, rest)'
  BY <1>2, <1>4, <1>5, <1>6, MergeKept
<1> QED BY <1>3, <1>4, <1>5, <1>7 DEF ComputeHolds

\* What a frame waits for stays what it waits for.
LEMMA AwaitsKept ==
  ASSUME Progress, RecordsOK, NEW f, f.path \in Paths, NEW q, Awaits(f, q),
         f.op = "Compute" => f.rest \in Seq(Specs),
         \A d \in DepKey : Listed(f.path, d) => Listed(f.path, d)'
  PROVE  Awaits(f, q)'
<1>1. CASE f.op # "Compute"
  BY <1>1 DEF Awaits
<1>2. CASE f.op = "Compute"
  <2>1. PICK s \in Specs : s = Head(f.rest)
    BY <1>2, RestOfSeq DEF Awaits
  <2>2. /\ resolved[<<s, f.path>>] = q /\ Verified(ResolveKey(s, f.path))
        /\ Listed(f.path, ResolveKey(s, f.path)) /\ ResolveKey(s, f.path) \in DepKey
    BY <1>2, <2>1, KeysApart DEF Awaits
  <2>3. resolved'[<<s, f.path>>] = q
    BY <2>2 DEF Progress, Moves
  <2>4. Verified(ResolveKey(s, f.path))' /\ Listed(f.path, ResolveKey(s, f.path))'
    BY <2>2 DEF Progress
  <2> QED BY <1>2, <2>1, <2>3, <2>4 DEF Awaits
<1> QED BY <1>1, <1>2

\* The frames are of different paths, and what is in flight is computed.
LEMMA FramesApart ==
  ASSUME NEW CONSTANT rank \in [Paths -> Nat], QueryInv, StackInv, FramesDescend(rank, frames)
  PROVE  /\ \A i, j \in 1..Len(frames) : i # j => frames[i].path # frames[j].path
         /\ \A i \in 1..Len(frames) : frames[i].op # "Compute" => frames[i].path \notin inFlight
         /\ \A i \in 1..Len(frames) : frames[i].op = "Compute" => frames[i].path \in inFlight
         /\ inFlight \subseteq Paths
<1>1. Len(frames) \in Nat /\ \A i \in 1..Len(frames) : frames[i].path \in Paths
  BY AnySeq DEF QueryInv, Calls, IsCall
<1>2. ASSUME NEW i \in 1..Len(frames), NEW j \in 1..Len(frames), i < j
      PROVE  frames[i].path # frames[j].path
  <2>1. PICK p \in Paths, q \in Paths : p = frames[i].path /\ q = frames[j].path
    BY <1>1
  <2>2. rank[q] < rank[p] /\ rank[p] \in Nat /\ rank[q] \in Nat
    BY <1>2, <2>1 DEF FramesDescend
  <2>3. p # q
    BY <2>2
  <2> QED BY <2>1, <2>3
<1>3. ASSUME NEW i \in 1..Len(frames), NEW j \in 1..Len(frames), i # j
      PROVE  frames[i].path # frames[j].path
  <2>1. i < j \/ j < i
    BY <1>1, <1>3
  <2> QED BY <1>2, <2>1
<1>4. inFlight = {frames[i].path : i \in {j \in 1..Len(frames) : frames[j].op = "Compute"}}
  BY DEF StackInv, Ordered, Chained
<1> QED BY <1>1, <1>3, <1>4

\* The entry being computed, and no other, depends on what was recorded.
LEMMA Records ==
  ASSUME QueryInv, StackInv, NEW k \in DepKey, deps' = Recorded(k)
  PROVE  /\ \A p \in Paths : \A d : Listed(p, d) => Listed(p, d)'
         /\ \A p \in Paths : \A d : Listed(p, d)' => Listed(p, d) \/ (p \in inFlight /\ d = k)
         /\ \A p \in Paths : \A i \in 1..Len(frames) :
              /\ frames[i].op = "Compute" /\ frames[i].path = p
              /\ \A j \in 1..Len(frames) : i < j => frames[j].op # "Compute"
              => Listed(p, k)'
<1> DEFINE n == Len(frames)
           r == queryStack[Len(queryStack)]
<1>1. /\ n \in Nat /\ DOMAIN frames = 1..n /\ Len(queryStack) \in Nat
      /\ DOMAIN queryStack = 1..Len(queryStack)
      /\ Len(queryStack) = Depth(frames, n) /\ inFlight = ToSet(queryStack)
      /\ \A i \in 1..n : frames[i].op = "Compute" => queryStack[Depth(frames, i)] = frames[i].path
      /\ inFlight = {frames[i].path : i \in {j \in 1..n : frames[j].op = "Compute"}}
  BY AnySeq DEF StackInv, Ordered, Disciplined, Framed, Chained
<1>2. ASSUME NEW i \in 1..n, frames[i].op = "Compute", \A j \in 1..n : i < j => frames[j].op # "Compute"
      PROVE  queryStack # <<>> /\ r = frames[i].path
  <2>1. {j \in 1..n : frames[j].op = "Compute"} = {j \in 1..i : frames[j].op = "Compute"}
    <3>1. \A j \in 1..n : frames[j].op = "Compute" => j \in 1..i
      BY <1>1, <1>2
    <3>2. \A j \in 1..i : j \in 1..n
      BY <1>1
    <3> QED BY <3>1, <3>2
  <2>2. Depth(frames, i) = Depth(frames, n)
    BY <2>1 DEF Depth
  <2>3. i \in Nat /\ i <= n /\ i > 0
    BY <1>1
  <2>4. Depth(frames, i) >= 1
    BY <1>1, <1>2, <2>3, DepthMonotone
  <2>5. Len(queryStack) >= 1
    BY <1>1, <2>2, <2>4
  <2>6. queryStack # <<>>
    BY <2>5, EmptySeq
  <2> QED BY <1>1, <1>2, <2>2, <2>6
<1>3. CASE queryStack = <<>>
  <2>1. deps' = deps
    BY <1>3 DEF Recorded
  <2> QED BY <2>1, <1>2, <1>3 DEF Listed
<1>4. CASE queryStack # <<>>
  <2>1. Len(queryStack) > 0
    BY <1>1, <1>4, ShortSequences DEF StackInv, Ordered
  <2>2. Len(queryStack) \in DOMAIN queryStack
    BY <1>1, <2>1
  <2>3. r \in inFlight /\ r \in Paths
    <3>1. r \in inFlight
      BY <1>1, <2>2 DEF ToSet
    <3>2. \A i \in 1..n : frames[i].path \in Paths
      BY DEF QueryInv, Calls, IsCall
    <3> QED BY <1>1, <3>1, <3>2
  <2>4. deps \in [Paths -> Seq(DepKey)]
    BY DEF QueryInv, RecordsOK
  <2>5. \A p \in Paths : /\ deps[p] \in Seq(DepKey) /\ Len(deps[p]) \in Nat
                         /\ DOMAIN deps[p] = 1..Len(deps[p])
    BY <2>4, LenProperties
  <2>6. deps' = IF Listed(r, k) THEN deps ELSE [deps EXCEPT ![r] = Append(deps[r], k)]
    BY <1>4 DEF Recorded, Listed
  <2>7. CASE Listed(r, k)
    <3>1. deps' = deps
      BY <2>6, <2>7
    <3> QED BY <3>1, <2>7, <1>2 DEF Listed
  <2>8. CASE ~Listed(r, k)
    <3>1. PICK s \in Seq(DepKey), u \in Paths : s = deps[r] /\ u = r
      BY <2>3, <2>5
    <3>2. /\ Append(s, k) \in Seq(DepKey) /\ Len(Append(s, k)) = Len(s) + 1 /\ Len(s) \in Nat
          /\ \A i \in 1..Len(s) : Append(s, k)[i] = s[i]
          /\ Append(s, k)[Len(s) + 1] = k
      BY AppendProperties, LenProperties
    <3>3. DOMAIN Append(s, k) = 1..(Len(s) + 1)
      BY <3>2, LenProperties
    <3>4. \A p \in Paths : deps'[p] = IF p = u THEN Append(s, k) ELSE deps[p]
      BY <2>3, <2>4, <2>6, <2>8, <3>1
    <3>5. \A i \in 1..(Len(s) + 1) : i = Len(s) + 1 \/ i \in 1..Len(s)
      BY <3>2
    <3>6. \A i \in 1..Len(s) : i \in 1..(Len(s) + 1)
      BY <3>2
    <3>7. Len(s) + 1 \in 1..(Len(s) + 1)
      BY <3>2
    <3>8. DOMAIN s = 1..Len(s)
      BY LenProperties
    <3>9. \A d : Listed(u, d)' <=> Listed(u, d) \/ d = k
      <4>1. \A d : Listed(u, d)' <=> \E i \in 1..(Len(s) + 1) : Append(s, k)[i] = d
        BY <3>3, <3>4 DEF Listed
      <4>2. \A d : Listed(u, d) <=> \E i \in 1..Len(s) : s[i] = d
        BY <3>1, <3>8 DEF Listed
      <4> QED BY <4>1, <4>2, <3>2, <3>5, <3>6, <3>7
    <3>10. \A p \in Paths : p # u => \A d : Listed(p, d)' <=> Listed(p, d)
      BY <3>4 DEF Listed
    <3> QED BY <2>3, <3>1, <3>9, <3>10, <1>2
  <2> QED BY <2>7, <2>8
<1> QED BY <1>3, <1>4

\* The verification or computation on top of the stack goes on.
TopStays ==
  /\ Len(frames') >= Len(frames)
  /\ frames'[Len(frames)].op # "FileEnv" /\ frames'[Len(frames)].path = Top.path

Covered(d) == verifiedAt'[d] = revision \/ (TopStays /\ d = EnvKey(Top.path))

\* A step leaves the frames below the top and the other entries alone, but for
\* the dependency it may record.
BelowKept ==
  /\ Len(frames) > 0 /\ Len(frames') >= Len(frames) - 1
  /\ \A i \in 1..(Len(frames) - 1) : frames'[i] = frames[i]
  /\ \A p \in Paths : p # Top.path =>
       /\ verifiedAt'[EnvKey(p)] = verifiedAt[EnvKey(p)]
       /\ \A d \in DepKey : /\ Listed(p, d) => Listed(p, d)'
                            /\ Listed(p, d)' => Listed(p, d) \/ (p \in inFlight /\ Covered(d))
  /\ Top.op # "FileEnv" => Covered(EnvKey(Top.path))

\* They hold as before.
LEMMA LowerKept ==
  ASSUME NEW CONSTANT rank \in [Paths -> Nat], QueryInv, StackInv, Progress, QueryInv',
         FramesHold(rank), BelowKept, NEW i \in 1..(Len(frames) - 1)
  PROVE  /\ FrameHolds(frames, i)'
         /\ \A q : Awaits(frames[i], q) => Awaits(frames[i], q)'
         /\ i + 1 < Len(frames) => LinkHolds(frames, i)'
         /\ frames[i].path # Top.path
<1> DEFINE n == Len(frames)
<1>1. /\ n \in Nat /\ n > 0 /\ i \in 1..n /\ n \in 1..n /\ i < n /\ Top = frames[n]
      /\ Len(frames') \in Nat /\ Len(frames') >= n - 1
  BY AnySeq DEF QueryInv, Calls, BelowKept, Top
<1>2. PICK f : f = frames[i] /\ f = frames'[i]
  BY DEF BelowKept
<1>3. IsCall(f) /\ FrameHolds(frames, i) /\ FramesDescend(rank, frames)
  BY <1>1, <1>2 DEF QueryInv, Calls, FramesHold
<1>4. f.path \in Paths /\ f.path # Top.path
  <2>1. frames[i].path # frames[n].path
    BY <1>1, <1>3, FramesApart
  <2> QED BY <2>1, <1>1, <1>2, <1>3 DEF IsCall
<1>5. /\ verifiedAt'[EnvKey(f.path)] = verifiedAt[EnvKey(f.path)]
      /\ \A d \in DepKey : /\ Listed(f.path, d) => Listed(f.path, d)'
                           /\ Listed(f.path, d)' => Listed(f.path, d) \/ (f.path \in inFlight /\ Covered(d))
  BY <1>4 DEF BelowKept
<1>6. f.op = "Verify" => VerifyHolds(f)'
  <2> SUFFICES ASSUME f.op = "Verify" PROVE VerifyHolds(f)'
    OBVIOUS
  <2>1. f.path \notin inFlight
    BY <1>1, <1>2, <1>3, FramesApart
  <2>2. VerifyHolds(f) /\ f.rest \in Seq(DepKey)
    BY <1>2, <1>3 DEF FrameHolds, IsCall
  <2>3. \A d \in DepKey : Listed(f.path, d)' <=> Listed(f.path, d)
    BY <1>5, <2>1
  <2> QED BY <1>4, <1>5, <2>2, <2>3, VerifyKept
<1>7. ASSUME f.op = "Compute"
      PROVE  ComputeHolds(f)' /\ \A d \in DepKey : Listed(f.path, d)' => Verified(d)' \/ Above(frames, i, d)'
  <2>1. /\ ComputeHolds(f) /\ f.rest \in Seq(Specs)
        /\ \A d \in DepKey : Listed(f.path, d) => Verified(d) \/ Above(frames, i, d)
    BY <1>2, <1>3, <1>7 DEF FrameHolds, IsCall
  <2>2. ComputeHolds(f)'
    BY <1>4, <1>5, <2>1, ComputeKept DEF QueryInv
  <2>3. ASSUME NEW d \in DepKey, Covered(d) PROVE Verified(d)' \/ Above(frames, i, d)'
    <3>1. CASE verifiedAt'[d] = revision
      BY <3>1 DEF Verified, Progress
    <3>2. CASE TopStays /\ d = EnvKey(Top.path)
      <4>1. /\ n \in 1..Len(frames') /\ i < n
            /\ frames'[n].op # "FileEnv" /\ d = EnvKey(frames'[n].path)
        BY <1>1, <3>2 DEF TopStays
      <4> QED BY <4>1 DEF Above
    <3> QED BY <2>3, <3>1, <3>2 DEF Covered
  <2>4. ASSUME NEW d \in DepKey, Above(frames, i, d) PROVE Verified(d)' \/ Above(frames, i, d)'
    <3>1. PICK j \in 1..n : i < j /\ frames[j].op # "FileEnv" /\ d = EnvKey(frames[j].path)
      BY <2>4 DEF Above
    <3>2. CASE j = n
      <4>1. Covered(d)
        BY <1>1, <3>1, <3>2 DEF BelowKept
      <4> QED BY <4>1, <2>3
    <3>3. CASE j # n
      <4>1. j \in 1..(n - 1) /\ j \in 1..Len(frames')
        BY <1>1, <3>3
      <4>2. frames'[j] = frames[j]
        BY <4>1 DEF BelowKept
      <4> QED BY <3>1, <4>1, <4>2 DEF Above
    <3> QED BY <3>2, <3>3
  <2>5. ASSUME NEW d \in DepKey, Listed(f.path, d)' PROVE Verified(d)' \/ Above(frames, i, d)'
    <3>1. CASE Listed(f.path, d)
      <4>1. Verified(d) => Verified(d)'
        BY DEF Progress
      <4> QED BY <3>1, <4>1, <2>1, <2>4
    <3>2. CASE Covered(d)
      BY <3>2, <2>3
    <3> QED BY <1>5, <2>5, <3>1, <3>2
  <2> QED BY <2>2, <2>5
<1>8. FrameHolds(frames, i)'
  BY <1>2, <1>6, <1>7 DEF FrameHolds, Listed
<1>9. ASSUME NEW q, Awaits(f, q) PROVE Awaits(f, q)'
  <2>1. f.op = "Compute" => f.rest \in Seq(Specs)
    BY <1>3 DEF IsCall
  <2> QED BY <1>4, <1>5, <1>9, <2>1, AwaitsKept DEF QueryInv
<1>10. \A q : Awaits(frames[i], q) => Awaits(frames[i], q)'
  BY <1>2, <1>9 DEF Awaits, Listed, Verified
<1>11. ASSUME i + 1 < n PROVE LinkHolds(frames, i)'
  <2>1. i + 1 \in 1..(n - 1) /\ i + 1 \in 1..n
    BY <1>1, <1>11
  <2>2. PICK g : g = frames[i + 1] /\ g = frames'[i + 1]
    BY <2>1 DEF BelowKept
  <2>3. LinkHolds(frames, i)
    BY <1>1 DEF FramesHold
  <2>4. Awaits(f, g.path) /\ (f.op = "Compute" /\ g.op # "FileEnv" => Listed(f.path, EnvKey(g.path)))
    BY <1>2, <2>2, <2>3 DEF LinkHolds
  <2>5. Awaits(f, g.path)'
    <3>1. PICK q : q = g.path
      OBVIOUS
    <3> QED BY <3>1, <2>4, <1>9
  <2>6. EnvKey(g.path) \in DepKey
    BY <2>1, <2>2, KeysApart DEF QueryInv, Calls, IsCall
  <2>7. f.op = "Compute" /\ g.op # "FileEnv" => Listed(f.path, EnvKey(g.path))'
    BY <2>4, <2>6, <1>5
  <2> QED BY <1>2, <2>2, <2>5, <2>7 DEF LinkHolds, Awaits, Listed
<1> QED BY <1>2, <1>4, <1>8, <1>10, <1>11

\* The computation below the top, if one is there, depends on the top's entry.
Noted ==
  \A r \in Paths :
    /\ Len(frames) > 1
    /\ frames[Len(frames) - 1].op = "Compute" /\ frames[Len(frames) - 1].path = r
    => \E i \in DOMAIN deps'[r] : deps'[r][i] = EnvKey(Top.path)

\* A call that recorded itself, or is under way, is noted.
LEMMA LinkNotes ==
  ASSUME NEW CONSTANT rank \in [Paths -> Nat], QueryInv, StackInv, FramesHold(rank), BelowKept,
         Top.op # "FileEnv"
  PROVE  Noted
<1> DEFINE n == Len(frames)
<1>1. n \in Nat /\ n > 0 /\ Top = frames[n] /\ FramesDescend(rank, frames)
  BY AnySeq DEF QueryInv, Calls, BelowKept, Top, FramesHold
<1> SUFFICES ASSUME NEW r \in Paths, n > 1, frames[n - 1].op = "Compute", frames[n - 1].path = r
             PROVE  \E i \in DOMAIN deps'[r] : deps'[r][i] = EnvKey(Top.path)
  BY DEF Noted
<1>2. PICK m \in 1..n : m = n - 1
  BY <1>1
<1>3. m + 1 = n /\ m < n /\ n \in 1..n
  BY <1>1, <1>2
<1>4. LinkHolds(frames, m)
  BY <1>3 DEF FramesHold
<1>5. PICK t \in Paths : t = Top.path
  BY <1>1, <1>3 DEF QueryInv, Calls, IsCall
<1>6. Listed(r, EnvKey(t)) /\ EnvKey(t) \in DepKey
  BY <1>1, <1>2, <1>3, <1>4, <1>5, KeysApart DEF LinkHolds
<1>7. r # t
  BY <1>1, <1>2, <1>3, <1>5, FramesApart
<1>8. Listed(r, EnvKey(t))'
  BY <1>5, <1>6, <1>7 DEF BelowKept
<1> QED BY <1>5, <1>8 DEF Listed

\* The top returns, verified.
LEMMA PopHolds ==
  ASSUME NEW CONSTANT rank \in [Paths -> Nat], QueryInv, StackInv, Progress, QueryInv',
         FramesHold(rank), BelowKept, Noted, frames' = Below,
         NEW t, t = Top.path, Verified(EnvKey(t))', ret' = [path |-> t, cycle |-> FALSE]
  PROVE  FramesHold(rank)' /\ ReturnHolds'
<1> DEFINE n == Len(frames)
<1>1. n \in Nat /\ n > 0 /\ Top = frames[n] /\ IsSequence(frames) /\ FramesDescend(rank, frames)
  BY AnySeq DEF QueryInv, Calls, BelowKept, Top, FramesHold
<1>2. /\ Len(frames') = n - 1
      /\ \A i \in 1..(n - 1) : i \in 1..n /\ frames'[i] = frames[i]
  BY <1>1, Shortened DEF Below
<1>3. \A i \in 1..Len(frames') : FrameHolds(frames, i)'
  BY <1>2, LowerKept
<1>4. \A i \in 1..Len(frames') : i < Len(frames') => LinkHolds(frames, i)'
  <2>1. \A i \in 1..(n - 1) : i < n - 1 => i + 1 < n
    BY <1>1
  <2> QED BY <1>2, <2>1, LowerKept
<1>5. FramesDescend(rank, frames)'
  BY <1>1, <1>2 DEF FramesDescend
<1>6. ReturnHolds'
  <2>1. t \in Paths
    <3>1. n \in 1..n
      BY <1>1
    <3> QED BY <1>1, <3>1 DEF QueryInv, Calls, IsCall
  <2>2. ret'.path = t /\ ret'.cycle = FALSE
    OBVIOUS
  <2>3. ASSUME Len(frames') > 0
        PROVE  Awaits(Top, t)' /\ (Top'.op = "Compute" => Listed(Top.path, EnvKey(t))')
    <3>1. PICK m \in 1..(n - 1) : m = n - 1
      BY <1>1, <1>2, <2>3
    <3>2. m + 1 = n /\ m < n /\ m \in 1..n /\ n > 1
      BY <1>1, <3>1
    <3>3. PICK f : f = frames[m] /\ f = frames'[m] /\ f = Top'
      BY <1>2, <3>1 DEF Top
    <3>4. LinkHolds(frames, m)
      BY <3>2 DEF FramesHold
    <3>5. Awaits(frames[m], t)
      BY <1>1, <3>2, <3>4 DEF LinkHolds
    <3>6. Awaits(frames[m], t)'
      BY <3>5, LowerKept
    <3>7. PICK r \in Paths : r = f.path
      BY <3>2, <3>3 DEF QueryInv, Calls, IsCall
    <3>8. f.op = "Compute" => Listed(r, EnvKey(t))'
      BY <3>1, <3>2, <3>3, <3>7 DEF Noted, Listed
    <3> QED BY <3>3, <3>6, <3>7, <3>8 DEF Awaits, Listed, Verified
  <2> QED BY <2>1, <2>2, <2>3 DEF ReturnHolds
<1> QED BY <1>3, <1>4, <1>5, <1>6 DEF FramesHold

\* The top goes on.
LEMMA ReplaceHolds ==
  ASSUME NEW CONSTANT rank \in [Paths -> Nat], QueryInv, StackInv, Progress, QueryInv',
         FramesHold(rank), BelowKept, Noted,
         NEW f, frames' = Replace(f), f.path = Top.path, f.op # "FileEnv",
         f.op = "Verify" => VerifyHolds(f)',
         f.op = "Compute" =>
           ComputeHolds(f)' /\ \A d \in DepKey : Listed(f.path, d)' => Verified(d)'
  PROVE  FramesHold(rank)'
<1>1. PICK n \in Nat : n = Len(frames)
  BY AnySeq DEF QueryInv, Calls
<1>2. n > 0 /\ Top = frames[n] /\ IsSequence(frames) /\ FramesDescend(rank, frames)
  BY <1>1 DEF QueryInv, Calls, BelowKept, Top, FramesHold
<1>3. /\ Len(frames') = n
      /\ \A i \in 1..(n - 1) : frames'[i] = frames[i]
      /\ frames'[n] = f
  BY <1>1, <1>2, Replaced DEF Replace, Below
<1>4. \A i \in 1..n : i = n \/ i \in 1..(n - 1)
  BY <1>2
<1>5. FrameHolds(frames, n)'
  BY <1>3 DEF FrameHolds, Listed
<1>6. \A i \in 1..(n - 1) : i \in 1..(Len(frames) - 1)
  BY <1>1
<1>7. \A i \in 1..Len(frames') : FrameHolds(frames, i)'
  BY <1>3, <1>4, <1>5, <1>6, LowerKept
<1>8. ASSUME NEW i \in 1..Len(frames'), i < Len(frames') PROVE LinkHolds(frames, i)'
  <2>1. i \in 1..(n - 1) /\ i \in 1..(Len(frames) - 1) /\ i \in 1..Len(frames)
        /\ i < Len(frames) /\ i + 1 \in 1..n
    BY <1>1, <1>3, <1>8
  <2>2. CASE i + 1 < n
    BY <1>1, <2>1, <2>2, LowerKept
  <2>3. CASE i + 1 = n
    <3>1. PICK g : g = frames[i] /\ g = frames'[i]
      BY <1>3, <2>1
    <3>2. LinkHolds(frames, i)
      BY <2>1 DEF FramesHold
    <3>3. PICK t : t = f.path
      OBVIOUS
    <3>4. Awaits(frames[i], t)
      BY <1>2, <2>3, <3>2, <3>3 DEF LinkHolds
    <3>5. Awaits(frames[i], t)'
      BY <2>1, <3>4, LowerKept
    <3>6. PICK r \in Paths : r = g.path
      BY <2>1, <3>1 DEF QueryInv, Calls, IsCall
    <3>7. i = Len(frames) - 1 /\ Len(frames) > 1
      BY <1>1, <2>1, <2>3
    <3>8. g.op = "Compute" => Listed(r, EnvKey(t))'
      BY <3>1, <3>3, <3>6, <3>7 DEF Noted, Listed
    <3> QED BY <1>3, <2>3, <3>1, <3>3, <3>5, <3>6, <3>8 DEF LinkHolds, Listed
  <2> QED BY <2>1, <2>2, <2>3, <1>2
<1>9. FramesDescend(rank, frames)'
  <2>1. \A i \in 1..n : frames'[i].path = frames[i].path
    BY <1>2, <1>3, <1>4
  <2> QED BY <1>1, <1>2, <1>3, <2>1 DEF FramesDescend
<1> QED BY <1>7, <1>8, <1>9 DEF FramesHold

\* The top calls.
LEMMA CallHolds ==
  ASSUME NEW CONSTANT rank \in [Paths -> Nat], QueryInv, StackInv, Progress, QueryInv',
         FramesHold(rank), BelowKept, Noted,
         NEW q \in Paths, frames' = Append(frames, CallFrame(q)), rank[q] < rank[Top.path],
         NEW f, f = Top, f.op # "FileEnv", Awaits(f, q)',
         f.op = "Verify" => VerifyHolds(f)',
         f.op = "Compute" =>
           ComputeHolds(f)' /\ \A d \in DepKey : Listed(f.path, d)' => Verified(d)'
  PROVE  FramesHold(rank)'
<1>1. PICK n \in Nat : n = Len(frames)
  BY AnySeq DEF QueryInv, Calls
<1>2. n > 0 /\ Top = frames[n] /\ IsSequence(frames) /\ FramesDescend(rank, frames)
  BY <1>1 DEF QueryInv, Calls, BelowKept, Top, FramesHold
<1>3. /\ Len(frames') = n + 1
      /\ \A i \in 1..n : frames'[i] = frames[i]
      /\ frames'[n + 1] = CallFrame(q)
      /\ frames'[n] = f
  <2>1. n \in 1..n
    BY <1>2
  <2> QED BY <1>1, <1>2, <2>1, Appended
<1>4. \A i \in 1..(n + 1) : i = n + 1 \/ i = n \/ (i \in 1..(n - 1) /\ i \in 1..(Len(frames) - 1))
  BY <1>1, <1>2
<1>5. CallFrame(q).op = "FileEnv" /\ CallFrame(q).path = q
  BY DEF CallFrame
<1>6. FrameHolds(frames, n)' /\ FrameHolds(frames, n + 1)'
  BY <1>3, <1>5 DEF FrameHolds, Listed
<1>7. \A i \in 1..Len(frames') : FrameHolds(frames, i)'
  BY <1>3, <1>4, <1>6, LowerKept
<1>8. LinkHolds(frames, n)'
  BY <1>3, <1>5 DEF LinkHolds, Awaits, Listed, Verified
<1>9. ASSUME NEW i \in 1..Len(frames'), i < Len(frames') PROVE LinkHolds(frames, i)'
  <2>1. i \in 1..n /\ i \in 1..Len(frames)
    BY <1>1, <1>3, <1>9
  <2>2. CASE i + 1 < n
    <3>1. i \in 1..(Len(frames) - 1)
      BY <1>1, <2>1, <2>2
    <3> QED BY <1>1, <3>1, <2>2, LowerKept
  <2>3. CASE i + 1 = n
    <3>1. i \in 1..(Len(frames) - 1) /\ i < Len(frames)
      BY <1>1, <2>1, <2>3
    <3>2. PICK g : g = frames[i] /\ g = frames'[i]
      BY <1>3, <2>1
    <3>3. LinkHolds(frames, i)
      BY <2>1, <3>1 DEF FramesHold
    <3>4. PICK t : t = f.path
      OBVIOUS
    <3>5. Awaits(frames[i], t)
      BY <1>2, <2>3, <3>3, <3>4 DEF LinkHolds
    <3>6. Awaits(frames[i], t)'
      BY <3>1, <3>5, LowerKept
    <3>7. PICK r \in Paths : r = g.path
      BY <2>1, <3>2 DEF QueryInv, Calls, IsCall
    <3>8. i = Len(frames) - 1 /\ Len(frames) > 1
      BY <1>1, <2>1, <2>3
    <3>9. g.op = "Compute" => Listed(r, EnvKey(t))'
      BY <3>2, <3>4, <3>7, <3>8 DEF Noted, Listed
    <3> QED BY <1>3, <2>3, <3>2, <3>4, <3>6, <3>7, <3>9 DEF LinkHolds, Listed
  <2>4. CASE i = n
    BY <1>8, <2>4
  <2> QED BY <2>1, <2>2, <2>3, <2>4, <1>2
<1>10. FramesDescend(rank, frames)'
  <2>1. ASSUME NEW i \in 1..n PROVE rank[q] < rank[frames[i].path]
    <3>1. n \in 1..n /\ frames[n].path \in Paths /\ frames[i].path \in Paths
      <4>1. \A j \in 1..n : IsCall(frames[j])
        BY <1>1 DEF QueryInv, Calls
      <4>2. n \in 1..n
        BY <1>2
      <4> QED BY <4>1, <4>2 DEF IsCall
    <3>2. i = n \/ i < n
      BY <1>2
    <3>3. PICK a \in Nat, b \in Nat, c \in Nat :
            a = rank[q] /\ b = rank[frames[n].path] /\ c = rank[frames[i].path]
      BY <3>1
    <3>4. i < n => b < c
      BY <1>1, <1>2, <3>1, <3>3 DEF FramesDescend
    <3>5. a < b
      BY <1>2, <3>3
    <3> QED BY <3>2, <3>3, <3>4, <3>5
  <2>2. \A i \in 1..(n + 1) : i = n + 1 \/ i \in 1..n
    BY <1>2
  <2>3. frames'[n + 1].path = q /\ \A i \in 1..n : frames'[i].path = frames[i].path
    BY <1>3, <1>5
  <2>4. ASSUME NEW i \in 1..(n + 1), NEW j \in 1..(n + 1), i < j
        PROVE  rank[frames'[j].path] < rank[frames'[i].path]
    <3>1. i \in 1..n
      BY <2>4
    <3>2. CASE j = n + 1
      BY <2>1, <2>3, <3>1, <3>2
    <3>3. CASE j \in 1..n
      BY <1>1, <1>2, <2>3, <2>4, <3>1, <3>3 DEF FramesDescend
    <3> QED BY <2>2, <3>2, <3>3
  <2> QED BY <1>3, <2>4 DEF FramesDescend
<1> QED BY <1>7, <1>9, <1>10 DEF FramesHold

\* The entries besides that of the top are as right as before.
LEMMA EntriesKept ==
  ASSUME NEW CONSTANT rank \in [Paths -> Nat], QueryInv, Progress, BelowKept, EntriesHold(rank),
         uncached' = uncached,
         NEW t, t = Top.path, inFlight \subseteq inFlight' \cup {t}, EntryOK(t)',
         \A p \in Paths : p # t => envs'[p].env = envs[p].env,
         \A p, q \in Paths : Listed(p, EnvKey(q))' => Listed(p, EnvKey(q)) \/ rank[q] < rank[p]
  PROVE  EntriesHold(rank)'
<1>1. DepsDescend(rank)'
  BY DEF EntriesHold, DepsDescend
<1>2. ASSUME NEW p \in Paths, p # t PROVE EntryOK(p)'
  <2>1. EntryOK(p)
    BY DEF EntriesHold
  <2>2. ASSUME p \notin inFlight'
        PROVE  /\ p \notin inFlight /\ envs'[p].env = envs[p].env
               /\ verifiedAt'[EnvKey(p)] = verifiedAt[EnvKey(p)]
               /\ \A d \in DepKey : Listed(p, d)' <=> Listed(p, d)
    BY <1>2, <2>2 DEF BelowKept
  <2> QED BY <2>1, <2>2, EntryKept
<1> QED BY <1>1, <1>2 DEF EntriesHold

(***************************************************************************)
(* Steps that only record a dependency, or none.                           *)
(***************************************************************************)

LEMMA StepsLightly ==
  ASSUME NEW CONSTANT rank \in [Paths -> Nat], QueryInv, StackInv, Progress, FreshInv(rank),
         Len(frames) > 0, Len(frames') >= Len(frames) - 1,
         \A i \in 1..(Len(frames) - 1) : frames'[i] = frames[i],
         envs' = envs, uncached' = uncached, inFlight' = inFlight,
         \A p \in Paths : verifiedAt'[EnvKey(p)] = verifiedAt[EnvKey(p)],
         NEW t, t = Top.path, Top.op # "FileEnv" => Covered(EnvKey(t)),
         NEW k \in DepKey,
         \/ deps' = deps /\ Top.op # "FileEnv"
         \/ /\ deps' = Recorded(k) /\ Covered(k)
            /\ \A q \in Paths : k = EnvKey(q) => q = t /\ Top.op = "FileEnv"
            /\ Top.op = "FileEnv" => k = EnvKey(t)
  PROVE  /\ BelowKept /\ Noted /\ EntriesHold(rank)' /\ t \in Paths
         /\ t \in inFlight <=> Top.op = "Compute"
         /\ t \notin inFlight => \A d \in DepKey : Listed(t, d)' <=> Listed(t, d)
         /\ \A d \in DepKey : Listed(t, d) => Listed(t, d)'
<1>1. PICK n \in Nat : n = Len(frames)
  BY AnySeq DEF QueryInv, Calls
<1>2. /\ n > 0 /\ n \in 1..n /\ Top = frames[n]
      /\ FramesDescend(rank, frames) /\ EntriesHold(rank) /\ FramesHold(rank)
  BY <1>1 DEF Top, FreshInv, FramesHold
<1>3. t \in Paths
  BY <1>1, <1>2 DEF QueryInv, Calls, IsCall
<1>4. t \in inFlight <=> Top.op = "Compute"
  BY <1>1, <1>2, FramesApart
<1>5. \A p \in Paths : \A d \in DepKey :
        /\ Listed(p, d) => Listed(p, d)'
        /\ Listed(p, d)' => Listed(p, d) \/ (p \in inFlight /\ Covered(d) /\ d = k /\ deps' # deps)
  <2>1. CASE deps' = deps
    BY <2>1 DEF Listed
  <2>2. CASE deps' # deps
    BY <2>2, Records
  <2> QED BY <2>1, <2>2
<1>6. BelowKept
  BY <1>5 DEF BelowKept
<1>7. Noted
  <2>1. CASE Top.op # "FileEnv"
    BY <2>1, <1>2, <1>6, LinkNotes
  <2>2. CASE Top.op = "FileEnv"
    <3>1. deps' = Recorded(k) /\ k = EnvKey(t)
      BY <2>2
    <3> SUFFICES ASSUME NEW r \in Paths, n > 1, frames[n - 1].op = "Compute", frames[n - 1].path = r
                 PROVE  \E i \in DOMAIN deps'[r] : deps'[r][i] = EnvKey(Top.path)
      BY <1>1 DEF Noted
    <3>2. n - 1 \in 1..Len(frames) /\ \A j \in 1..Len(frames) : n - 1 < j => j = n
      BY <1>1, <1>2
    <3>3. \A j \in 1..Len(frames) : n - 1 < j => frames[j].op # "Compute"
      BY <3>2, <1>2, <2>2
    <3>4. Listed(r, k)'
      BY <3>1, <3>2, <3>3, Records
    <3> QED BY <3>1, <3>4 DEF Listed
  <2> QED BY <2>1, <2>2
<1>8. EntryOK(t)'
  <2>1. EntryOK(t)
    BY <1>2, <1>3 DEF EntriesHold
  <2>2. t \notin inFlight' => \A d \in DepKey : Listed(t, d)' <=> Listed(t, d)
    BY <1>3, <1>5
  <2> QED BY <1>3, <2>1, <2>2, EntryKept
<1>9. ASSUME NEW p \in Paths, NEW q \in Paths, Listed(p, EnvKey(q))'
      PROVE  Listed(p, EnvKey(q)) \/ rank[q] < rank[p]
  <2> SUFFICES ASSUME p \in inFlight, EnvKey(q) = k, deps' # deps PROVE rank[q] < rank[p]
    BY <1>5, <1>9, KeysApart
  <2>1. q = t /\ Top.op = "FileEnv"
    OBVIOUS
  <2>2. inFlight = {frames[i].path : i \in {j \in 1..n : frames[j].op = "Compute"}}
    BY <1>1 DEF StackInv, Ordered, Chained
  <2>3. PICK i \in 1..n : frames[i].op = "Compute" /\ frames[i].path = p
    BY <2>2
  <2>4. i < n
    <3>1. i # n
      BY <1>2, <2>1, <2>3
    <3> QED BY <3>1
  <2> QED BY <1>1, <1>2, <2>1, <2>3, <2>4 DEF FramesDescend
<1>10. EntriesHold(rank)'
  BY <1>2, <1>3, <1>6, <1>8, <1>9, EntriesKept
<1> QED BY <1>3, <1>4, <1>5, <1>6, <1>7, <1>10

\* One more dependency found as it was when the entry was verified.
LEMMA VerifyAdvances ==
  ASSUME Progress, NEW f, f.path \in Paths, VerifyHolds(f), f.rest \in Seq(DepKey), f.rest # <<>>,
         verifiedAt'[EnvKey(f.path)] = verifiedAt[EnvKey(f.path)],
         \A d \in DepKey : Listed(f.path, d)' <=> Listed(f.path, d),
         NEW h, h = Head(f.rest), Verified(h)',
         NEW g, g.path = f.path, g.rest = Tail(f.rest),
         ~g.stale => ~f.stale /\ changedAt'[h] <= verifiedAt[EnvKey(f.path)]
  PROVE  VerifyHolds(g)'
<1>1. VerifyHolds(f)'
  BY VerifyKept
<1>2. h \in DepKey /\ \A d : d \in ToSet(f.rest) <=> d = h \/ d \in ToSet(g.rest)
  <2>1. PICK s \in Seq(DepKey) : s = f.rest
    OBVIOUS
  <2>2. /\ Len(s) \in Nat /\ Len(s) > 0 /\ Head(s) = s[1] /\ Head(s) \in DepKey
        /\ Tail(s) \in Seq(DepKey) /\ Len(Tail(s)) = Len(s) - 1
        /\ \A i \in 1..(Len(s) - 1) : Tail(s)[i] = s[i + 1]
    BY <2>1, EmptySeq, LenProperties, HeadTailProperties
  <2>3. DOMAIN s = 1..Len(s) /\ DOMAIN Tail(s) = 1..(Len(s) - 1)
    BY <2>2, LenProperties
  <2>4. \A i \in 1..Len(s) : i = 1 \/ (i - 1 \in 1..(Len(s) - 1) /\ (i - 1) + 1 = i)
    BY <2>2
  <2>5. \A i \in 1..(Len(s) - 1) : i + 1 \in 1..Len(s)
    BY <2>2
  <2>6. 1 \in 1..Len(s)
    BY <2>2
  <2>7. \A d : d \in ToSet(s) <=> \E i \in 1..Len(s) : s[i] = d
    BY <2>3 DEF ToSet
  <2>8. \A d : d \in ToSet(Tail(s)) <=> \E i \in 1..(Len(s) - 1) : s[i + 1] = d
    BY <2>2, <2>3 DEF ToSet
  <2>9. \A d : d \in ToSet(s) <=> d = s[1] \/ d \in ToSet(Tail(s))
    <3>1. ASSUME NEW i \in 1..Len(s) PROVE s[i] = s[1] \/ s[i] \in ToSet(Tail(s))
      BY <2>4, <2>8
    <3> QED BY <3>1, <2>5, <2>6, <2>7, <2>8
  <2> QED BY <2>1, <2>2, <2>9
<1>3. ~Verified(EnvKey(g.path))' /\ \A d \in ToSet(g.rest) : Listed(g.path, d)'
  BY <1>1, <1>2 DEF VerifyHolds
<1>4. ASSUME ~g.stale PROVE PastHolds(g.path, g.rest)'
  <2>1. PastHolds(f.path, f.rest)' /\ changedAt'[h] <= verifiedAt'[EnvKey(f.path)]
    BY <1>1, <1>4 DEF VerifyHolds
  <2> QED BY <2>1, <1>2 DEF PastHolds
<1> QED BY <1>3, <1>4 DEF VerifyHolds

(***************************************************************************)
(* The actions.                                                            *)
(***************************************************************************)

\* A frame that waits for no call finds nothing handed back.
LEMMA NothingAwaited ==
  ASSUME ReturnHolds, Len(frames) > 0, \A q \in Paths : ~Awaits(Top, q)
  PROVE  ret = NoRet
BY DEF ReturnHolds

LEMMA EnterFresh ==
  ASSUME NEW CONSTANT rank \in [Paths -> Nat], QueryInv, QueryInv', StackInv, FreshInv(rank),
         EnterCycle \/ EnterVerified \/ EnterUnverified
  PROVE  FreshInv(rank)'
<1>1. /\ Running("FileEnv") /\ inFlight' = inFlight
      /\ UNCHANGED <<vfsVars, stamps, changedAt, verifiedAt, terms, resolved, envs>>
  BY DEF EnterCycle, EnterVerified, EnterUnverified, results
<1>2. /\ Len(frames) > 0 /\ IsCall(Top) /\ Top.op = "FileEnv" /\ Len(frames) \in Nat
      /\ IsSequence(frames)
  BY <1>1, TopCall, AnySeq DEF QueryInv, Calls
<1>3. PICK t \in Paths : t = Top.path
  BY <1>2 DEF IsCall
<1>4. EnvKey(t) \in DepKey /\ \A q \in Paths : EnvKey(t) = EnvKey(q) => q = t
  BY KeysApart, EnvKeysApart
<1>5. t \notin inFlight
  <2>1. Len(frames) \in 1..Len(frames) /\ Top = frames[Len(frames)] /\ FramesDescend(rank, frames)
    BY <1>2 DEF Top, FreshInv, FramesHold
  <2> QED BY <2>1, <1>2, <1>3, FramesApart
<1>6. Progress /\ RecordsHold' /\ envs' = envs /\ verifiedAt' = verifiedAt /\ revision' = revision
  BY <1>1, NothingRecorded DEF FreshInv, stamps
<1>7. ReturnHolds /\ EntriesHold(rank) /\ FramesHold(rank) /\ uncached = {}
  BY DEF FreshInv, EntriesHold
<1>8. CASE EnterCycle
  BY <1>3, <1>5, <1>8 DEF EnterCycle
<1>9. CASE EnterVerified
  <2>1. /\ verifiedAt[EnvKey(t)] = revision /\ deps' = Recorded(EnvKey(t)) /\ uncached' = uncached
        /\ frames' = Below /\ ret' = [path |-> t, cycle |-> FALSE]
    BY <1>3, <1>9 DEF EnterVerified, ReturnTo
  <2>2. /\ Len(frames') = Len(frames) - 1
        /\ \A i \in 1..(Len(frames) - 1) : frames'[i] = frames[i]
    BY <1>2, <2>1, Shortened DEF Below
  <2>3. Covered(EnvKey(t)) /\ Verified(EnvKey(t))'
    BY <1>6, <2>1 DEF Covered, Verified
  <2>4. Len(frames') >= Len(frames) - 1
    BY <1>2, <2>2
  <2>5. BelowKept /\ Noted /\ EntriesHold(rank)'
    BY <1>1, <1>2, <1>3, <1>4, <1>6, <2>1, <2>2, <2>3, <2>4, StepsLightly
  <2>6. FramesHold(rank)' /\ ReturnHolds'
    BY <1>3, <1>6, <1>7, <2>1, <2>3, <2>5, PopHolds
  <2> QED BY <1>6, <2>5, <2>6 DEF FreshInv
<1>10. CASE EnterUnverified
  <2> DEFINE fresh == verifiedAt[EnvKey(t)] = 0
             rest == IF fresh THEN <<>> ELSE deps[t]
             f == VerifyFrame(t, rest, fresh)
  <2>1. /\ deps' = Recorded(EnvKey(t)) /\ uncached' = uncached /\ ret' = ret
        /\ frames' = Replace(f) /\ (fresh \/ verifiedAt[EnvKey(t)] # revision)
    BY <1>3, <1>7, <1>10 DEF EnterUnverified
  <2>2. f.path = t /\ f.op = "Verify" /\ f.rest = rest /\ f.stale = fresh
    BY DEF VerifyFrame
  <2> HIDE DEF f
  <2>3. /\ Len(frames') = Len(frames)
        /\ \A i \in 1..(Len(frames) - 1) : frames'[i] = frames[i]
        /\ frames'[Len(frames)] = f
    BY <1>2, <2>1, Replaced DEF Replace, Below
  <2>4. Covered(EnvKey(t))
    BY <1>2, <1>3, <2>2, <2>3 DEF Covered, TopStays
  <2>5. Len(frames') >= Len(frames) - 1
    BY <1>2, <2>3
  <2>6. /\ BelowKept /\ Noted /\ EntriesHold(rank)'
        /\ \A d \in DepKey : Listed(t, d)' <=> Listed(t, d)
    BY <1>1, <1>2, <1>3, <1>4, <1>5, <1>6, <2>1, <2>3, <2>4, <2>5, StepsLightly
  <2>7. PICK g : g = f
    OBVIOUS
  <2>8. VerifyHolds(g)'
    <3>1. deps[t] \in Seq(DepKey) /\ revision # 0
      BY DEF QueryInv, RecordsOK, StampsOK
    <3>2. ~Verified(EnvKey(g.path))'
      BY <1>6, <2>1, <2>2, <2>7, <3>1 DEF Verified
    <3>3. ToSet(<<>>) = {}
      BY DEF ToSet
    <3>4. \A d \in DepKey : Listed(t, d) <=> d \in ToSet(deps[t])
      BY DEF Listed, ToSet
    <3>5. ToSet(deps[t]) \subseteq DepKey
      <4>1. \A i \in DOMAIN deps[t] : deps[t][i] \in DepKey
        BY <3>1, ElementOfSeq, LenProperties
      <4> QED BY <4>1 DEF ToSet
    <3>6. \A d \in ToSet(g.rest) : Listed(g.path, d)'
      BY <2>2, <2>6, <2>7, <3>3, <3>4, <3>5
    <3>7. ~g.stale => PastHolds(g.path, g.rest)'
      <4> SUFFICES ASSUME ~g.stale PROVE PastHolds(g.path, g.rest)'
        OBVIOUS
      <4>1. ~fresh /\ g.rest = deps[t] /\ g.path = t
        BY <2>2, <2>7
      <4>2. \A d \in DepKey : Listed(t, d)' => d \in ToSet(g.rest)
        BY <2>6, <3>4, <4>1
      <4> QED BY <1>6, <4>1, <4>2 DEF PastHolds
    <3> QED BY <3>2, <3>6, <3>7 DEF VerifyHolds
  <2>9. FramesHold(rank)'
    BY <1>3, <1>6, <1>7, <2>1, <2>2, <2>6, <2>7, <2>8, ReplaceHolds
  <2>10. ret' = NoRet
    <3>1. \A q \in Paths : ~Awaits(Top, q)
      BY <1>2 DEF Awaits
    <3> QED BY <1>2, <1>7, <2>1, <3>1, NothingAwaited
  <2> QED BY <1>6, <2>6, <2>9, <2>10 DEF FreshInv, ReturnHolds
<1> QED BY <1>8, <1>9, <1>10

\* A verification has looked at one dependency.
LEMMA AdvanceFresh ==
  ASSUME NEW CONSTANT rank \in [Paths -> Nat], QueryInv, QueryInv', StackInv, FreshInv(rank),
         Running("Verify"), Top.rest # <<>>, Progress, RecordsHold',
         envs' = envs, uncached' = uncached, inFlight' = inFlight, ret' = NoRet,
         \A p \in Paths : verifiedAt'[EnvKey(p)] = verifiedAt[EnvKey(p)],
         NEW h \in DepKey, h = Head(Top.rest), Verified(h)',
         deps' = deps \/ (deps' = Recorded(h) /\ \A q \in Paths : h # EnvKey(q)),
         NEW changed, changed = changedAt'[h], frames' = Advance(Top, changed)
  PROVE  FreshInv(rank)'
<1>1. /\ Len(frames) > 0 /\ IsCall(Top) /\ Top.op = "Verify" /\ Len(frames) \in Nat
      /\ IsSequence(frames)
  BY TopCall, AnySeq DEF QueryInv, Calls
<1>2. PICK t \in Paths : t = Top.path
  BY <1>1 DEF IsCall
<1>3. FramesHold(rank)
  BY DEF FreshInv
<1> DEFINE stale == Top.stale \/ changed > verifiedAt[EnvKey(Top.path)]
           rest == Tail(Top.rest)
<1>4. PICK g : g = [Top EXCEPT !.rest = rest, !.stale = stale]
  OBVIOUS
<1>5. frames' = Replace(g)
  BY <1>4 DEF Advance
<1>6. (~stale) => (~Top.stale /\ ~(changed > verifiedAt[EnvKey(Top.path)]))
  OBVIOUS
<1> HIDE DEF stale, rest
<1>7. g.path = t /\ g.op = "Verify" /\ g.rest = rest /\ g.stale = stale
  BY <1>1, <1>2, <1>4 DEF IsCall, IsFrame, FrameFields
<1>8. /\ Len(frames') = Len(frames)
      /\ \A i \in 1..(Len(frames) - 1) : frames'[i] = frames[i]
      /\ frames'[Len(frames)] = g
  BY <1>1, <1>5, Replaced DEF Replace, Below
<1>9. Covered(EnvKey(t)) /\ Covered(h) /\ Len(frames') >= Len(frames) - 1
  <2>1. Covered(EnvKey(t))
    BY <1>1, <1>2, <1>7, <1>8 DEF Covered, TopStays
  <2>2. Covered(h)
    BY DEF Covered, Verified, Progress
  <2> QED BY <2>1, <2>2, <1>1, <1>8
<1>10. /\ BelowKept /\ Noted /\ EntriesHold(rank)' /\ t \notin inFlight
       /\ \A d \in DepKey : Listed(t, d)' <=> Listed(t, d)
  BY <1>1, <1>2, <1>8, <1>9, StepsLightly
<1>11. PICK f : f = Top
  OBVIOUS
<1>12. VerifyHolds(f) /\ f.rest \in Seq(DepKey) /\ f.path = t
  <2>1. Len(frames) \in 1..Len(frames)
    BY <1>1
  <2> QED BY <2>1, <1>1, <1>2, <1>3, <1>11 DEF FramesHold, FrameHolds, Top, IsCall
<1>13. (~g.stale) => (~f.stale /\ changedAt'[h] <= verifiedAt[EnvKey(f.path)])
  <2>1. changedAt'[h] \in Nat /\ verifiedAt[EnvKey(t)] \in Nat
    <3>1. h \in Key /\ EnvKey(t) \in Key
      BY KeysApart
    <3> QED BY <3>1 DEF QueryInv, StampsOK
  <2>2. ~(changed > verifiedAt[EnvKey(t)]) => changedAt'[h] <= verifiedAt[EnvKey(t)]
    BY <2>1
  <2> QED BY <2>2, <1>2, <1>6, <1>7, <1>11
<1>14. VerifyHolds(g)'
  <2>1. /\ verifiedAt'[EnvKey(f.path)] = verifiedAt[EnvKey(f.path)]
        /\ \A d \in DepKey : Listed(f.path, d)' <=> Listed(f.path, d)
        /\ f.path \in Paths /\ f.rest # <<>> /\ h = Head(f.rest)
        /\ g.path = f.path /\ g.rest = Tail(f.rest)
    BY <1>7, <1>10, <1>11, <1>12 DEF rest
  <2> QED BY <2>1, <1>12, <1>13, VerifyAdvances
<1>15. FramesHold(rank)'
  BY <1>2, <1>3, <1>5, <1>7, <1>10, <1>14, ReplaceHolds
<1> QED BY <1>10, <1>15 DEF FreshInv, ReturnHolds

\* What a verification looks at next.
LEMMA VerifyNext ==
  ASSUME NEW CONSTANT rank \in [Paths -> Nat], QueryInv, FreshInv(rank),
         Running("Verify"), Top.rest # <<>>
  PROVE  /\ Head(Top.rest) \in DepKey /\ Head(Top.rest) \in ToSet(Top.rest)
         /\ VerifyHolds(Top)
         /\ Head(Top.rest)[1] # "FileEnv" => ret = NoRet
         /\ ret # NoRet => ret.path \in Paths /\ Head(Top.rest) = EnvKey(ret.path)
                           /\ Verified(EnvKey(ret.path))
<1>1. /\ Len(frames) > 0 /\ IsCall(Top) /\ Top.op = "Verify" /\ Len(frames) \in Nat
  BY TopCall, AnySeq DEF QueryInv, Calls
<1>2. Top.rest \in Seq(DepKey)
  BY <1>1 DEF IsCall
<1>3. Head(Top.rest) \in DepKey /\ Head(Top.rest) \in ToSet(Top.rest)
  <2>1. PICK s \in Seq(DepKey) : s = Top.rest
    BY <1>2
  <2>2. Len(s) \in Nat /\ Len(s) > 0 /\ Head(s) = s[1] /\ Head(s) \in DepKey /\ DOMAIN s = 1..Len(s)
    BY <2>1, EmptySeq, LenProperties, HeadTailProperties
  <2>3. 1 \in DOMAIN s
    BY <2>2
  <2> QED BY <2>1, <2>2, <2>3 DEF ToSet
<1>4. VerifyHolds(Top)
  <2>1. Len(frames) \in 1..Len(frames)
    BY <1>1
  <2> QED BY <2>1, <1>1 DEF FreshInv, FramesHold, FrameHolds, Top
<1>5. ret # NoRet => ret.path \in Paths /\ Verified(EnvKey(ret.path)) /\ Awaits(Top, ret.path)
  BY <1>1 DEF FreshInv, ReturnHolds
<1>6. ret # NoRet => Head(Top.rest) = EnvKey(ret.path)
  BY <1>1, <1>5 DEF Awaits
<1>7. \A p : EnvKey(p)[1] = "FileEnv"
  BY DEF EnvKey
<1> QED BY <1>3, <1>4, <1>5, <1>6, <1>7

LEMMA VerifyTermsFresh ==
  ASSUME NEW CONSTANT rank \in [Paths -> Nat], NoLinks, CoherenceInv, QueryInv', StackInv,
         FreshInv(rank), VerifyTerms
  PROVE  FreshInv(rank)'
<1>1. QueryInv /\ RecordsHold
  BY DEF CoherenceInv, FreshInv
<1>2. PICK h : h = Head(Top.rest)
  OBVIOUS
<1>3. /\ Running("Verify") /\ Top.rest # <<>> /\ h[1] = "Terms"
      /\ deps' = Recorded(h) /\ RefreshTerms(h[2]) /\ frames' = Advance(Top, TermsChangedAt(h[2]))
      /\ UNCHANGED <<resolved, envs>> /\ Steady
      /\ envs' = envs /\ uncached' = uncached /\ inFlight' = inFlight /\ ret' = ret
  BY <1>2 DEF VerifyTerms, Steady
<1>4. h \in DepKey /\ ret = NoRet
  BY <1>1, <1>2, <1>3, VerifyNext
<1>5. PICK q \in Paths : q = h[2] /\ h = TermsKey(q)
  BY <1>3, <1>4, Dependencies
<1>6. /\ Progress /\ RecordsHold' /\ Verified(TermsKey(q))'
      /\ changedAt'[TermsKey(q)] = TermsChangedAt(q)
      /\ \A p \in Paths : verifiedAt'[EnvKey(p)] = verifiedAt[EnvKey(p)]
  BY <1>1, <1>3, <1>5, TermsRecorded
<1>7. \A p \in Paths : h # EnvKey(p)
  BY <1>5, KeysApart
<1>8. PICK changed : changed = TermsChangedAt(q)
  OBVIOUS
<1>9. Verified(h)' /\ changed = changedAt'[h] /\ frames' = Advance(Top, changed) /\ ret' = NoRet
  BY <1>3, <1>4, <1>5, <1>6, <1>8
<1> QED BY <1>1, <1>2, <1>3, <1>4, <1>6, <1>7, <1>9, AdvanceFresh

LEMMA VerifyResolveFresh ==
  ASSUME NEW CONSTANT rank \in [Paths -> Nat], NoLinks, CoherenceInv, QueryInv', StackInv,
         FreshInv(rank), VerifyResolve
  PROVE  FreshInv(rank)'
<1>1. QueryInv /\ RecordsHold
  BY DEF CoherenceInv, FreshInv
<1>2. PICK h : h = Head(Top.rest)
  OBVIOUS
<1>3. /\ Running("Verify") /\ Top.rest # <<>> /\ h[1] = "Resolve"
      /\ deps' = Recorded(h) /\ RefreshResolve(h[2], h[3])
      /\ frames' = Advance(Top, ResolveChangedAt(h[2], h[3]))
      /\ UNCHANGED <<terms, envs>> /\ Steady
      /\ envs' = envs /\ uncached' = uncached /\ inFlight' = inFlight /\ ret' = ret
  BY <1>2 DEF VerifyResolve, Steady
<1>4. h \in DepKey /\ ret = NoRet
  BY <1>1, <1>2, <1>3, VerifyNext
<1>5. PICK s \in Specs, q \in Paths : s = h[2] /\ q = h[3] /\ h = ResolveKey(s, q)
  BY <1>3, <1>4, Dependencies
<1>6. /\ Progress /\ RecordsHold' /\ Verified(ResolveKey(s, q))'
      /\ changedAt'[ResolveKey(s, q)] = ResolveChangedAt(s, q)
      /\ \A p \in Paths : verifiedAt'[EnvKey(p)] = verifiedAt[EnvKey(p)]
  BY <1>1, <1>3, <1>5, PlaceRecorded
<1>7. \A p \in Paths : h # EnvKey(p)
  BY <1>5, EnvKeysApart
<1>8. PICK changed : changed = ResolveChangedAt(s, q)
  OBVIOUS
<1>9. Verified(h)' /\ changed = changedAt'[h] /\ frames' = Advance(Top, changed) /\ ret' = NoRet
  BY <1>3, <1>4, <1>5, <1>6, <1>8
<1> QED BY <1>1, <1>2, <1>3, <1>4, <1>6, <1>7, <1>9, AdvanceFresh

LEMMA VerifyReturnedFresh ==
  ASSUME NEW CONSTANT rank \in [Paths -> Nat], QueryInv, QueryInv', StackInv,
         FreshInv(rank), VerifyImportReturned
  PROVE  FreshInv(rank)'
<1>1. PICK h : h = Head(Top.rest)
  OBVIOUS
<1>2. /\ Running("Verify") /\ Top.rest # <<>> /\ ret # NoRet
      /\ frames' = Advance(Top, changedAt[h]) /\ ret' = NoRet
      /\ UNCHANGED <<vfsVars, stamps, changedAt, verifiedAt, terms, resolved, envs>>
      /\ envs' = envs /\ uncached' = uncached /\ inFlight' = inFlight /\ deps' = deps
  BY <1>1 DEF VerifyImportReturned, entries, results
<1>3. h \in DepKey /\ Verified(h)
  BY <1>1, <1>2, VerifyNext
<1>4. Progress /\ RecordsHold' /\ changedAt' = changedAt /\ verifiedAt' = verifiedAt
  BY <1>2, NothingRecorded DEF FreshInv
<1>5. PICK changed : changed = changedAt[h]
  OBVIOUS
<1>6. Verified(h)' /\ changed = changedAt'[h] /\ frames' = Advance(Top, changed)
  BY <1>2, <1>3, <1>4, <1>5 DEF Progress
<1> QED BY <1>1, <1>2, <1>3, <1>4, <1>6, AdvanceFresh

LEMMA VerifyImportFresh ==
  ASSUME NEW CONSTANT rank \in [Paths -> Nat], QueryInv, QueryInv', StackInv,
         FreshInv(rank), VerifyImport
  PROVE  FreshInv(rank)'
<1>1. PICK h : h = Head(Top.rest)
  OBVIOUS
<1>2. /\ Running("Verify") /\ Top.rest # <<>> /\ h[1] = "FileEnv" /\ ret = NoRet
      /\ frames' = Append(frames, CallFrame(h[2])) /\ ret' = ret
      /\ UNCHANGED <<vfsVars, stamps, changedAt, verifiedAt, terms, resolved, envs>>
      /\ envs' = envs /\ uncached' = uncached /\ inFlight' = inFlight /\ deps' = deps
  BY <1>1 DEF VerifyImport, entries, results
<1>3. /\ Len(frames) > 0 /\ IsCall(Top) /\ Top.op = "Verify" /\ Len(frames) \in Nat
      /\ IsSequence(frames)
  BY <1>2, TopCall, AnySeq DEF QueryInv, Calls
<1>4. PICK t \in Paths : t = Top.path
  BY <1>3 DEF IsCall
<1>5. PICK f : f = Top
  OBVIOUS
<1>6. h \in DepKey /\ h \in ToSet(f.rest) /\ VerifyHolds(f)
  BY <1>1, <1>2, <1>5, VerifyNext
<1>7. PICK q \in Paths : q = h[2] /\ h = EnvKey(q)
  BY <1>2, <1>6, Dependencies
<1>8. FramesHold(rank) /\ EntriesHold(rank)
  BY DEF FreshInv
<1>9. rank[q] < rank[t]
  <2>1. Listed(t, EnvKey(q))
    BY <1>4, <1>5, <1>6, <1>7 DEF VerifyHolds
  <2> QED BY <2>1, <1>8 DEF EntriesHold, DepsDescend
<1>10. Progress /\ RecordsHold' /\ verifiedAt' = verifiedAt
  BY <1>2, NothingRecorded DEF FreshInv
<1>11. /\ Len(frames') = Len(frames) + 1
       /\ \A i \in 1..Len(frames) : frames'[i] = frames[i]
  BY <1>2, <1>3, <1>7, Appended
<1>12. /\ Len(frames') >= Len(frames) - 1
       /\ \A i \in 1..(Len(frames) - 1) : frames'[i] = frames[i]
       /\ frames'[Len(frames)] = f /\ Len(frames') >= Len(frames)
  <2>1. Len(frames) \in 1..Len(frames) /\ \A i \in 1..(Len(frames) - 1) : i \in 1..Len(frames)
    BY <1>3
  <2> QED BY <2>1, <1>3, <1>5, <1>11 DEF Top
<1>13. Covered(EnvKey(t))
  BY <1>3, <1>4, <1>5, <1>12 DEF Covered, TopStays
<1>14. BelowKept /\ Noted /\ EntriesHold(rank)'
  BY <1>2, <1>3, <1>4, <1>6, <1>10, <1>12, <1>13, StepsLightly
<1>15. VerifyHolds(f)'
  <2>1. /\ f.path \in Paths /\ f.rest \in Seq(DepKey)
        /\ verifiedAt'[EnvKey(f.path)] = verifiedAt[EnvKey(f.path)]
    BY <1>3, <1>4, <1>5, <1>10 DEF IsCall
  <2>2. \A d \in DepKey : Listed(f.path, d)' <=> Listed(f.path, d)
    BY <1>2 DEF Listed
  <2> QED BY <2>1, <2>2, <1>6, <1>10, VerifyKept
<1>16. Awaits(f, q)'
  BY <1>1, <1>2, <1>3, <1>5, <1>7 DEF Awaits
<1>17. FramesHold(rank)'
  BY <1>2, <1>3, <1>4, <1>5, <1>7, <1>8, <1>9, <1>10, <1>14, <1>15, <1>16, CallHolds
<1> QED BY <1>2, <1>10, <1>14, <1>17 DEF FreshInv, ReturnHolds

\* Every dependency is as it was: the entry still follows from them.
LEMMA VerifyUnchangedFresh ==
  ASSUME NEW CONSTANT rank \in [Paths -> Nat], QueryInv, QueryInv', StackInv,
         FreshInv(rank), VerifyUnchanged
  PROVE  FreshInv(rank)'
<1>1. /\ Running("Verify") /\ Top.rest = <<>> /\ ~Top.stale
      /\ UNCHANGED <<vfsVars, stamps, changedAt, terms, resolved, envs>>
      /\ envs' = envs /\ uncached' = uncached /\ inFlight' = inFlight /\ deps' = deps
      /\ frames' = Below
  BY DEF VerifyUnchanged, ReturnTo, results
<1>2. /\ Len(frames) > 0 /\ IsCall(Top) /\ Top.op = "Verify" /\ Len(frames) \in Nat
      /\ IsSequence(frames)
  BY <1>1, TopCall, AnySeq DEF QueryInv, Calls
<1>3. PICK t \in Paths : t = Top.path
  BY <1>2 DEF IsCall
<1>4. /\ verifiedAt' = [verifiedAt EXCEPT ![EnvKey(t)] = revision]
      /\ ret' = [path |-> t, cycle |-> FALSE]
  BY <1>3 DEF VerifyUnchanged, ReturnTo
<1>5. FramesHold(rank) /\ EntriesHold(rank) /\ RecordsHold
  BY DEF FreshInv
<1>6. /\ VerifyHolds(Top) /\ t \notin inFlight
  <2>1. Len(frames) \in 1..Len(frames) /\ Top = frames[Len(frames)]
    BY <1>2 DEF Top
  <2>2. VerifyHolds(Top)
    BY <2>1, <1>2, <1>5 DEF FramesHold, FrameHolds
  <2>3. FramesDescend(rank, frames)
    BY <1>5 DEF FramesHold
  <2> QED BY <2>1, <2>2, <2>3, <1>2, <1>3, FramesApart
<1>7. /\ ~Verified(EnvKey(t)) /\ verifiedAt[EnvKey(t)] # 0
      /\ \A d \in DepKey : Listed(t, d) => Verified(d) /\ changedAt[d] <= verifiedAt[EnvKey(t)]
  <2>1. ToSet(<<>>) = {}
    BY DEF ToSet
  <2>2. PastHolds(t, <<>>) /\ ~Verified(EnvKey(t))
    BY <1>1, <1>3, <1>6 DEF VerifyHolds
  <2> QED BY <2>1, <2>2 DEF PastHolds
<1>8. /\ Progress /\ RecordsHold' /\ Verified(EnvKey(t))'
      /\ \A q \in Paths : q # t => verifiedAt'[EnvKey(q)] = verifiedAt[EnvKey(q)]
  BY <1>1, <1>4, <1>5, <1>7, EntryVerified
<1>9. \A p \in Paths : \A d : Listed(p, d)' <=> Listed(p, d)
  BY <1>1 DEF Listed
<1>10. /\ Len(frames') = Len(frames) - 1
       /\ \A i \in 1..(Len(frames) - 1) : frames'[i] = frames[i]
  BY <1>1, <1>2, Shortened DEF Below
<1>11. BelowKept
  <2>1. Covered(EnvKey(t))
    BY <1>8 DEF Covered, Verified, Progress
  <2>2. Len(frames') >= Len(frames) - 1
    BY <1>2, <1>10
  <2> QED BY <1>2, <1>3, <1>8, <1>9, <1>10, <2>1, <2>2 DEF BelowKept
<1>12. Noted
  BY <1>2, <1>5, <1>11, LinkNotes
<1>13. EntryOK(t)'
  <2>1. Listed(t, TermsKey(t)) /\ Consistent(t)
    BY <1>5, <1>6, <1>7 DEF EntriesHold, EntryOK
  <2>2. \A d \in DepKey : Listed(t, d) => Listed(t, d)' /\ ~Moves(d)
    BY <1>7, <1>9 DEF Moves
  <2>3. Consistent(t)'
    BY <1>1, <1>8, <2>1, <2>2, ConsistentKept DEF QueryInv
  <2>4. Listed(t, TermsKey(t))' /\ \A d \in DepKey : Listed(t, d)' => Verified(d)'
    BY <1>7, <1>8, <1>9, <2>1 DEF Progress
  <2> QED BY <2>3, <2>4 DEF EntryOK
<1>14. EntriesHold(rank)'
  BY <1>1, <1>3, <1>5, <1>8, <1>9, <1>11, <1>13, EntriesKept
<1>15. FramesHold(rank)' /\ ReturnHolds'
  BY <1>1, <1>3, <1>4, <1>5, <1>8, <1>11, <1>12, PopHolds
<1> QED BY <1>8, <1>14, <1>15 DEF FreshInv

\* A computation starts from the terms of its file, and nothing merged.
LEMMA BeginFresh ==
  ASSUME NEW CONSTANT rank \in [Paths -> Nat], NoLinks, CoherenceInv, QueryInv', StackInv,
         FreshInv(rank), BeginCompute
  PROVE  FreshInv(rank)'
<1>1. QueryInv /\ FramesHold(rank) /\ EntriesHold(rank) /\ RecordsHold /\ ReturnHolds
  BY DEF CoherenceInv, FreshInv
<1>2. /\ Running("Verify") /\ Top.rest = <<>>
      /\ UNCHANGED <<resolved, envs>> /\ Steady
      /\ envs' = envs /\ uncached' = uncached /\ ret' = ret
  BY DEF BeginCompute, Steady
<1>3. /\ Len(frames) > 0 /\ IsCall(Top) /\ Top.op = "Verify" /\ Len(frames) \in Nat
      /\ IsSequence(frames)
  BY <1>1, <1>2, TopCall, AnySeq DEF QueryInv, Calls
<1>4. PICK t \in Paths : t = Top.path
  BY <1>3 DEF IsCall
<1> DEFINE root0 == TermsNow(t).root
           rest == ImportsOf(root0)
           diags == TermsNow(t).diags
<1>5. /\ inFlight' = inFlight \cup {t}
      /\ deps' = [deps EXCEPT ![t] = <<TermsKey(t)>>] /\ RefreshTerms(t)
      /\ frames' = Replace(ComputeFrame(t, rest, diags))
  BY <1>4 DEF BeginCompute, PushStack, ImportsOf
<1>6. /\ Progress /\ RecordsHold' /\ Verified(TermsKey(t))'
      /\ terms'[t].root = root0
      /\ \A q \in Paths : verifiedAt'[EnvKey(q)] = verifiedAt[EnvKey(q)]
  BY <1>1, <1>2, <1>5, TermsRecorded
<1>7. PICK f : f = ComputeFrame(t, rest, diags)
  OBVIOUS
<1>8. /\ f.path = t /\ f.op = "Compute" /\ f.rest = rest /\ frames' = Replace(f)
      /\ "bindings" \in DOMAIN f.acc /\ f.acc.bindings = <<>>
  BY <1>5, <1>7 DEF ComputeFrame, EmptyResult
<1>9. /\ Len(frames') = Len(frames)
      /\ \A i \in 1..(Len(frames) - 1) : frames'[i] = frames[i]
      /\ frames'[Len(frames)] = f
  BY <1>3, <1>8, Replaced DEF Replace, Below
<1>10. deps \in [Paths -> Seq(DepKey)]
  BY <1>1 DEF QueryInv, RecordsOK
<1>11. /\ \A p \in Paths : p # t => \A d : Listed(p, d)' <=> Listed(p, d)
       /\ \A d : Listed(t, d)' <=> d = TermsKey(t)
  <2>1. \A p \in Paths : deps'[p] = IF p = t THEN <<TermsKey(t)>> ELSE deps[p]
    BY <1>5, <1>10
  <2>2. \A d : (\E i \in DOMAIN <<TermsKey(t)>> : <<TermsKey(t)>>[i] = d) <=> d = TermsKey(t)
    OBVIOUS
  <2> QED BY <2>1, <2>2 DEF Listed
<1>12. BelowKept
  <2>1. Covered(EnvKey(t)) /\ Len(frames') >= Len(frames) - 1
    BY <1>3, <1>4, <1>8, <1>9 DEF Covered, TopStays
  <2> QED BY <1>3, <1>4, <1>6, <1>9, <1>11, <2>1 DEF BelowKept
<1>13. Noted
  BY <1>1, <1>3, <1>12, LinkNotes
<1>14. EntryOK(t)'
  BY <1>5 DEF EntryOK
<1>15. \A p, q \in Paths : Listed(p, EnvKey(q))' => Listed(p, EnvKey(q)) \/ rank[q] < rank[p]
  BY <1>11, KeysApart
<1>16. EntriesHold(rank)'
  BY <1>1, <1>2, <1>4, <1>5, <1>6, <1>12, <1>14, <1>15, EntriesKept
<1>17. ComputeHolds(f)' /\ \A d \in DepKey : Listed(f.path, d)' => Verified(d)'
  <2>1. ~Verified(EnvKey(t))'
    <3>1. VerifyHolds(Top)
      <4>1. Len(frames) \in 1..Len(frames) /\ Top = frames[Len(frames)]
        BY <1>3 DEF Top
      <4> QED BY <4>1, <1>1, <1>3 DEF FramesHold, FrameHolds
    <3>2. ~Verified(EnvKey(t))
      BY <1>4, <3>1 DEF VerifyHolds
    <3> QED BY <1>6, <3>2 DEF Verified, Progress
  <2>2. ImportList(t)' = rest
    BY <1>6 DEF ImportList
  <2>3. Len(rest) \in Nat
    <3>1. IsTerms(terms[t])'
      BY DEF QueryInv, RecordsOK
    <3>2. rest \in Seq(Specs)
      BY <1>6, <3>1, EmptySeq DEF IsTerms, ImportsOf
    <3> QED BY <3>2, LenProperties
  <2>4. MergeHolds(t, <<>>, f.rest)'
    <3>1. PICK r : r = f.rest
      OBVIOUS
    <3>2. ImportList(t)' = r /\ Len(r) \in Nat
      BY <1>8, <2>2, <2>3, <3>1
    <3>3. 0 \in Nat /\ Len(r) = 0 + Len(r) /\ (\A k \in 1..Len(r) : r[k] = r[0 + k])
          /\ 1..0 = {}
      BY <3>2
    <3>4. Layered(Layers(t)', 0) = <<>>
      BY LayeredNone
    <3> HIDE DEF rest, diags, root0
    <3>5. MergeHolds(t, <<>>, r)'
      BY ONLY <3>2, <3>3, <3>4 DEF MergeHolds
    <3> QED BY <3>1, <3>5
  <2>5. Listed(t, TermsKey(t))' /\ \A d \in DepKey : Listed(t, d)' => Verified(d)'
    BY <1>6, <1>11
  <2> QED BY <1>6, <1>8, <2>1, <2>4, <2>5 DEF ComputeHolds
<1>18. FramesHold(rank)'
  BY <1>1, <1>4, <1>6, <1>8, <1>12, <1>13, <1>17, ReplaceHolds
<1>19. ret' = NoRet
  <2>1. \A q \in Paths : ~Awaits(Top, q)
    BY <1>2 DEF Awaits
  <2> QED BY <1>1, <1>2, <1>3, <2>1, NothingAwaited
<1> QED BY <1>6, <1>16, <1>18, <1>19 DEF FreshInv, ReturnHolds

\* The frame of a computation that looks at its next import.
LEMMA ComputeNext ==
  ASSUME NEW CONSTANT rank \in [Paths -> Nat], QueryInv, FreshInv(rank), Running("Compute")
  PROVE  /\ Len(frames) > 0 /\ Len(frames) \in Nat /\ IsSequence(frames)
         /\ IsCall(Top) /\ Top.op = "Compute" /\ Top.path \in Paths /\ Top.rest \in Seq(Specs)
         /\ ComputeHolds(Top)
         /\ \A d \in DepKey : Listed(Top.path, d) => Verified(d)
<1>1. /\ Len(frames) > 0 /\ IsCall(Top) /\ Top.op = "Compute" /\ Len(frames) \in Nat
      /\ IsSequence(frames)
  BY TopCall, AnySeq DEF QueryInv, Calls
<1>2. PICK n \in Nat : n = Len(frames)
  BY <1>1
<1>3. n \in 1..n /\ \A j \in 1..n : ~ (n < j)
  BY <1>1, <1>2
<1>4. \A d : ~Above(frames, n, d)
  BY <1>2, <1>3 DEF Above
<1>5. FrameHolds(frames, n)
  BY <1>2, <1>3 DEF FreshInv, FramesHold
<1> QED BY <1>1, <1>2, <1>4, <1>5 DEF FrameHolds, IsCall, Top

\* The next import is merged after those before it.
LEMMA MergeAdvances ==
  ASSUME NEW I \in Seq(Specs), NEW m \in Nat, NEW rest \in Seq(Specs), rest # <<>>,
         Len(I) = m + Len(rest), \A k \in 1..Len(rest) : rest[k] = I[m + k]
  PROVE  /\ Len(I) = (m + 1) + Len(Tail(rest))
         /\ \A k \in 1..Len(Tail(rest)) : Tail(rest)[k] = I[(m + 1) + k]
         /\ Head(rest) = I[m + 1] /\ m + 1 \in 1..Len(I) /\ Head(rest) \in Specs
         /\ \A k \in 1..(m + 1) : k \in 1..m \/ k = m + 1
<1>1. /\ Len(rest) \in Nat /\ Len(rest) > 0 /\ Head(rest) = rest[1] /\ Head(rest) \in Specs
      /\ Len(Tail(rest)) = Len(rest) - 1
      /\ \A i \in 1..(Len(rest) - 1) : Tail(rest)[i] = rest[i + 1]
  BY EmptySeq, LenProperties, HeadTailProperties
<1>2. 1 \in 1..Len(rest) /\ m + 1 \in 1..Len(I)
  BY <1>1
<1>3. \A k \in 1..(Len(rest) - 1) : k + 1 \in 1..Len(rest) /\ m + (k + 1) = (m + 1) + k
  BY <1>1
<1>4. \A k \in 1..(Len(rest) - 1) : Tail(rest)[k] = I[(m + 1) + k]
  BY <1>1, <1>3
<1>5. \A k \in 1..(m + 1) : k \in 1..m \/ k = m + 1
  OBVIOUS
<1>6. Len(I) = (m + 1) + Len(Tail(rest))
  BY <1>1
<1> QED BY <1>1, <1>2, <1>4, <1>5, <1>6

\* A settled import takes its place among the merged ones.
LEMMA MergeOneMore ==
  ASSUME QueryInv', NEW p \in Paths, NEW b, NEW rest \in Seq(Specs), rest # <<>>,
         MergeHolds(p, b, rest)', NEW s, s = Head(rest), Settles(p, s)',
         NEW c, \/ c = Override(b, Imported(p, s)')
                \/ DOMAIN Imported(p, s)' = {} /\ c = b
  PROVE  MergeHolds(p, c, Tail(rest))'
<1>1. PICK I : I = ImportList(p)'
  OBVIOUS
<1>2. I \in Seq(Specs)
  <2>1. IsTerms(terms[p])'
    BY DEF QueryInv, RecordsOK
  <2> QED BY <1>1, <2>1, EmptySeq DEF IsTerms, ImportList, ImportsOf
<1>3. Len(I) \in Nat /\ DOMAIN I = 1..Len(I)
  BY <1>2, LenProperties
<1>4. PICK L : L = Layers(p)'
  OBVIOUS
<1>5. \A k \in 1..Len(I) : L[k] = Imported(p, I[k])'
  BY <1>1, <1>3, <1>4 DEF Layers
<1>6. PICK m \in Nat :
        /\ Len(I) = m + Len(rest)
        /\ \A k \in 1..Len(rest) : rest[k] = I[m + k]
        /\ \A k \in 1..m : Settles(p, I[k])'
        /\ b = Layered(L, m)
  BY <1>1, <1>4 DEF MergeHolds
<1>7. /\ Len(I) = (m + 1) + Len(Tail(rest))
      /\ \A k \in 1..Len(Tail(rest)) : Tail(rest)[k] = I[(m + 1) + k]
      /\ s = I[m + 1] /\ m + 1 \in 1..Len(I)
      /\ \A k \in 1..(m + 1) : k \in 1..m \/ k = m + 1
  BY <1>2, <1>6, MergeAdvances
<1>8. \A k \in 1..(m + 1) : Settles(p, I[k])'
  BY <1>6, <1>7
<1>9. L[m + 1] = Imported(p, s)'
  BY <1>5, <1>7
<1>10. c = Layered(L, m + 1)
  <2>1. /\ Layered(L, m + 1) = Override(Layered(L, m), L[m + 1])
        /\ DOMAIN L[m + 1] = {} => Layered(L, m + 1) = Layered(L, m)
    BY LayeredGrows
  <2> QED BY <1>6, <1>9, <2>1
<1>11. m + 1 \in Nat
  OBVIOUS
<1> QED BY ONLY <1>1, <1>4, <1>7, <1>8, <1>10, <1>11 DEF MergeHolds

\* Imports lead down the order.
LEMMA ImportDescends ==
  ASSUME NEW CONSTANT rank \in [Paths -> Nat], QueryInv, RecordsHold, ImportsFollow(rank),
         NEW p \in Paths, Verified(TermsKey(p)), NEW b, NEW rest \in Seq(Specs), rest # <<>>,
         MergeHolds(p, b, rest), NEW s, s = Head(rest), Locate(s, p) # NoPath
  PROVE  rank[Locate(s, p)] < rank[p]
<1>1. terms[p].root = TermOf(ReadText(p))
  <2>1. TermsKey(p) \in Key /\ TextKey(p) \in Key
    BY DEF Key
  <2>2. verifiedAt[TermsKey(p)] # 0 /\ changedAt[TextKey(p)] <= verifiedAt[TermsKey(p)]
    BY <2>1 DEF QueryInv, StampsOK, Verified
  <2> QED BY <2>2 DEF RecordsHold, TextHeld
<1>2. PICK I : I = ImportList(p)
  OBVIOUS
<1>3. I \in Seq(Specs) /\ DOMAIN I = 1..Len(I)
  BY <1>2, ImportListType DEF QueryInv
<1>4. PICK m \in Nat : Len(I) = m + Len(rest) /\ \A k \in 1..Len(rest) : rest[k] = I[m + k]
  BY <1>2 DEF MergeHolds
<1>5. s = I[m + 1] /\ m + 1 \in 1..Len(I) /\ s \in Specs
  BY <1>3, <1>4, MergeAdvances
<1>6. s \in ToSet(I)
  BY <1>3, <1>5 DEF ToSet
<1>7. I = ImportsOf(TermOf(ReadText(p)))
  BY <1>1, <1>2 DEF ImportList
<1> QED BY <1>5, <1>6, <1>7 DEF ImportsFollow

\* The next import is looked for: it is skipped or called.
LEMMA ComputeImportFresh ==
  ASSUME NEW CONSTANT rank \in [Paths -> Nat], NoLinks, CoherenceInv, QueryInv', StackInv,
         FreshInv(rank), ImportsFollow(rank), ComputeImport
  PROVE  FreshInv(rank)'
<1>1. QueryInv /\ FramesHold(rank) /\ EntriesHold(rank) /\ RecordsHold
  BY DEF CoherenceInv, FreshInv
<1>2. PICK s : s = Head(Top.rest)
  OBVIOUS
<1>3. /\ Running("Compute") /\ Top.rest # <<>> /\ ret = NoRet /\ ret' = ret /\ Steady
      /\ UNCHANGED <<terms, envs>> /\ envs' = envs /\ uncached' = uncached /\ inFlight' = inFlight
  BY DEF ComputeImport, Steady
<1>4. /\ Len(frames) > 0 /\ Len(frames) \in Nat /\ IsSequence(frames)
      /\ IsCall(Top) /\ Top.op = "Compute" /\ Top.rest \in Seq(Specs)
      /\ ComputeHolds(Top)
      /\ \A d \in DepKey : Listed(Top.path, d) => Verified(d)
  BY <1>1, <1>3, ComputeNext
<1>5. PICK t \in Paths : t = Top.path
  BY <1>4 DEF IsCall
<1>6. PICK target : target = ResolveNow(s, t)
  OBVIOUS
<1>7. /\ deps' = Recorded(ResolveKey(s, t)) /\ RefreshResolve(s, t)
      /\ frames' = IF target = NoPath THEN Replace(SkipImport(Top, <<"ResFileNotFound", s>>))
                   ELSE Append(frames, CallFrame(target))
  BY <1>2, <1>5, <1>6 DEF ComputeImport
<1>8. PICK f : f = Top
  OBVIOUS
<1>9. /\ ComputeHolds(f) /\ IsCall(f) /\ f.path = t /\ f.op = "Compute"
      /\ f.rest \in Seq(Specs) /\ f.rest # <<>> /\ s = Head(f.rest) /\ s \in Specs
  <2>1. Head(f.rest) \in Specs
    BY <1>3, <1>4, <1>8, RestOfSeq
  <2> QED BY <2>1, <1>2, <1>3, <1>4, <1>5, <1>8
<1>10. /\ Progress /\ RecordsHold' /\ Verified(ResolveKey(s, t))' /\ resolved'[<<s, t>>] = target
       /\ target = Locate(s, t)
       /\ \A q \in Paths : verifiedAt'[EnvKey(q)] = verifiedAt[EnvKey(q)]
  BY <1>1, <1>3, <1>6, <1>7, <1>9, PlaceRecorded
<1>11. ResolveKey(s, t) \in DepKey /\ \A q \in Paths : ResolveKey(s, t) # EnvKey(q)
  BY <1>9, KeysApart, EnvKeysApart
<1>12. Listed(t, ResolveKey(s, t))'
  <2>1. Len(frames) \in 1..Len(frames) /\ \A j \in 1..Len(frames) : ~ (Len(frames) < j)
    BY <1>4
  <2>2. frames[Len(frames)].op = "Compute" /\ frames[Len(frames)].path = t
    BY <1>4, <1>5 DEF Top
  <2> QED BY <2>1, <2>2, <1>1, <1>7, <1>11, Records
<1>13. Covered(ResolveKey(s, t))
  BY <1>10 DEF Covered, Verified, Progress
<1>14. PICK g : g = SkipImport(Top, <<"ResFileNotFound", s>>)
  OBVIOUS
<1>15. /\ g.path = t /\ g.op = "Compute" /\ g.rest = Tail(f.rest)
       /\ "bindings" \in DOMAIN g.acc /\ g.acc.bindings = f.acc.bindings
  BY <1>8, <1>9, <1>14 DEF SkipImport, IsCall, IsFrame, FrameFields, ComputeHolds
<1>16. target = NoPath => /\ frames' = Replace(g) /\ Len(frames') = Len(frames)
                          /\ \A i \in 1..(Len(frames) - 1) : frames'[i] = frames[i]
                          /\ frames'[Len(frames)] = g
  BY <1>4, <1>7, <1>14, Replaced DEF Replace, Below
<1>17. target # NoPath => /\ target \in Paths /\ frames' = Append(frames, CallFrame(target))
                          /\ Len(frames') = Len(frames) + 1
                          /\ \A i \in 1..(Len(frames) - 1) : frames'[i] = frames[i]
                          /\ frames'[Len(frames)] = f
  <2>1. resolved'[<<s, t>>] \in Paths \cup {NoPath}
    BY <1>9 DEF QueryInv, RecordsOK
  <2>2. Len(frames) \in 1..Len(frames) /\ \A i \in 1..(Len(frames) - 1) : i \in 1..Len(frames)
    BY <1>4
  <2>3. target # NoPath => /\ Len(frames') = Len(frames) + 1
                           /\ \A i \in 1..Len(frames) : frames'[i] = frames[i]
    BY <1>4, <1>7, Appended
  <2> QED BY <2>1, <2>2, <2>3, <1>7, <1>8, <1>10 DEF Top
<1>18. /\ Len(frames') >= Len(frames) - 1
       /\ \A i \in 1..(Len(frames) - 1) : frames'[i] = frames[i]
       /\ Covered(EnvKey(t))
  BY <1>4, <1>5, <1>9, <1>15, <1>16, <1>17 DEF Covered, TopStays
<1>19. /\ BelowKept /\ Noted /\ EntriesHold(rank)'
       /\ \A d \in DepKey : Listed(t, d) => Listed(t, d)'
  BY <1>1, <1>3, <1>4, <1>5, <1>7, <1>10, <1>11, <1>13, <1>18, StepsLightly
<1>20. ComputeHolds(f)' /\ \A d \in DepKey : Listed(t, d)' => Verified(d)'
  <2>1. ComputeHolds(f)'
    BY <1>1, <1>9, <1>10, <1>19, ComputeKept DEF QueryInv
  <2>2. \A d \in DepKey : Listed(t, d)' => Listed(t, d) \/ d = ResolveKey(s, t)
    BY <1>1, <1>7, <1>11, Records
  <2> QED BY <2>1, <2>2, <1>4, <1>5, <1>10 DEF Progress
<1>21. CASE target = NoPath
  <2>1. Settles(t, s)' /\ DOMAIN Imported(t, s)' = {}
    BY <1>10, <1>12, <1>21 DEF Settles, Recalls, Imported
  <2>2. PICK b, rest : b = f.acc.bindings /\ rest = f.rest
    OBVIOUS
  <2>3. MergeHolds(t, b, rest)'
    BY <2>2, <1>9, <1>20 DEF ComputeHolds
  <2>4. MergeHolds(t, b, Tail(rest))'
    BY <2>1, <2>2, <2>3, <1>9, MergeOneMore
  <2>5. ComputeHolds(g)'
    BY <2>2, <2>4, <1>9, <1>15, <1>20 DEF ComputeHolds
  <2> QED BY <2>5, <1>1, <1>5, <1>10, <1>15, <1>16, <1>19, <1>20, <1>21, ReplaceHolds,
             <1>3 DEF FreshInv, ReturnHolds
<1>22. CASE target # NoPath
  <2>1. rank[target] < rank[t]
    <3>1. PICK b, rest : b = f.acc.bindings /\ rest = f.rest
      OBVIOUS
    <3>2. MergeHolds(t, b, rest) /\ Verified(TermsKey(t))
      BY <3>1, <1>9 DEF ComputeHolds
    <3> QED BY <3>1, <3>2, <1>1, <1>9, <1>10, <1>22, ImportDescends
  <2>2. Awaits(f, target)'
    BY <1>9, <1>10, <1>12 DEF Awaits
  <2>3. FramesHold(rank)'
    BY <2>1, <2>2, <1>1, <1>5, <1>8, <1>9, <1>10, <1>17, <1>19, <1>20, <1>22, CallHolds
  <2> QED BY <2>3, <1>3, <1>10, <1>19 DEF FreshInv, ReturnHolds
<1> QED BY <1>21, <1>22

\* The import that was called is merged.
LEMMA ComputeReturnedFresh ==
  ASSUME NEW CONSTANT rank \in [Paths -> Nat], QueryInv, QueryInv', StackInv,
         FreshInv(rank), ComputeImportReturned
  PROVE  FreshInv(rank)'
<1>1. FramesHold(rank) /\ EntriesHold(rank) /\ RecordsHold /\ ReturnHolds
  BY DEF FreshInv
<1>2. /\ Running("Compute") /\ Top.rest # <<>> /\ ret # NoRet /\ ret' = NoRet
      /\ UNCHANGED <<vfsVars, stamps, changedAt, verifiedAt, terms, resolved, envs>>
      /\ envs' = envs /\ uncached' = uncached /\ inFlight' = inFlight /\ deps' = deps
  BY DEF ComputeImportReturned, entries, results
<1>3. /\ Len(frames) > 0 /\ Len(frames) \in Nat /\ IsSequence(frames)
      /\ IsCall(Top) /\ Top.op = "Compute" /\ Top.rest \in Seq(Specs)
      /\ ComputeHolds(Top)
      /\ \A d \in DepKey : Listed(Top.path, d) => Verified(d)
  BY <1>2, ComputeNext
<1>4. PICK t \in Paths : t = Top.path
  BY <1>3 DEF IsCall
<1>5. /\ ret.path \in Paths /\ ~ret.cycle /\ Verified(EnvKey(ret.path)) /\ Awaits(Top, ret.path)
      /\ Listed(t, EnvKey(ret.path))
  BY <1>1, <1>2, <1>3, <1>4 DEF ReturnHolds
<1>6. PICK q \in Paths : q = ret.path
  BY <1>5
<1>7. PICK f : f = Top
  OBVIOUS
<1>8. PICK s : s = Head(f.rest)
  OBVIOUS
<1>9. /\ ComputeHolds(f) /\ IsCall(f) /\ f.path = t /\ f.op = "Compute"
      /\ f.rest \in Seq(Specs) /\ f.rest # <<>> /\ s \in Specs
  <2>1. Head(f.rest) \in Specs
    BY <1>2, <1>3, <1>7, RestOfSeq
  <2> QED BY <2>1, <1>2, <1>3, <1>4, <1>7, <1>8
<1>10. Settles(t, s)
  <2>1. /\ resolved[<<s, t>>] = q /\ Verified(ResolveKey(s, t)) /\ Listed(t, ResolveKey(s, t))
    BY <1>5, <1>6, <1>7, <1>8, <1>9 DEF Awaits
  <2> QED BY <2>1, <1>5, <1>6 DEF Settles, Recalls
<1>11. Progress /\ RecordsHold' /\ verifiedAt' = verifiedAt
  BY <1>1, <1>2, NothingRecorded
<1>12. PICK g : g = MergeImport(Top, envs[q])
  OBVIOUS
<1>13. frames' = Replace(g)
  BY <1>5, <1>6, <1>12 DEF ComputeImportReturned
<1>14. /\ g.path = t /\ g.op = "Compute" /\ g.rest = Tail(f.rest)
       /\ "bindings" \in DOMAIN g.acc /\ g.acc.bindings = Override(f.acc.bindings, envs[q].bindings)
  BY <1>7, <1>9, <1>12 DEF MergeImport, IsCall, IsFrame, FrameFields, ComputeHolds
<1>15. /\ Len(frames') = Len(frames)
       /\ \A i \in 1..(Len(frames) - 1) : frames'[i] = frames[i]
       /\ frames'[Len(frames)] = g
  BY <1>3, <1>13, Replaced DEF Replace, Below
<1>16. Covered(EnvKey(t)) /\ Len(frames') >= Len(frames) - 1
  BY <1>3, <1>4, <1>14, <1>15 DEF Covered, TopStays
<1>17. PICK k \in DepKey : k = EnvKey(t)
  BY KeysApart
<1>18. /\ BelowKept /\ Noted /\ EntriesHold(rank)'
       /\ \A d \in DepKey : Listed(t, d) => Listed(t, d)'
  BY <1>2, <1>3, <1>4, <1>11, <1>15, <1>16, <1>17, StepsLightly
<1>19. ComputeHolds(f)' /\ \A d \in DepKey : Listed(t, d)' => Verified(d)'
  <2>1. ComputeHolds(f)'
    BY <1>9, <1>11, <1>18, ComputeKept DEF QueryInv
  <2>2. \A d \in DepKey : Listed(t, d)' => Listed(t, d)
    BY <1>2 DEF Listed
  <2> QED BY <2>1, <2>2, <1>3, <1>4, <1>11 DEF Progress
<1>20. Settles(t, s)' /\ Imported(t, s)' = Imported(t, s)
  <2>1. Fixed(t, s) /\ Settles(t, s)'
    BY <1>9, <1>10, <1>11, <1>18, SettlesKept DEF QueryInv
  <2> QED BY <2>1, <1>9, <1>11, ImportedKept DEF QueryInv
<1>21. Imported(t, s) = envs[q].bindings
  <2>1. q # NoPath
    BY VfsAssumption
  <2> QED BY <2>1, <1>5, <1>6, <1>7, <1>8, <1>9 DEF Imported, Awaits
<1>22. PICK b, rest : b = f.acc.bindings /\ rest = f.rest
  OBVIOUS
<1>23. PICK c : c = g.acc.bindings
  OBVIOUS
<1>24. MergeHolds(t, c, Tail(rest))'
  <2>1. c = Override(b, Imported(t, s)')
    BY <1>14, <1>20, <1>21, <1>22, <1>23
  <2>2. MergeHolds(t, b, rest)'
    BY <1>9, <1>19, <1>22 DEF ComputeHolds
  <2> QED BY <2>1, <2>2, <1>8, <1>9, <1>20, <1>22, MergeOneMore
<1>25. ComputeHolds(g)'
  BY <1>9, <1>14, <1>19, <1>22, <1>23, <1>24 DEF ComputeHolds
<1>26. FramesHold(rank)'
  BY <1>1, <1>4, <1>11, <1>13, <1>14, <1>18, <1>19, <1>25, ReplaceHolds
<1> QED BY <1>2, <1>11, <1>18, <1>26 DEF FreshInv, ReturnHolds

\* Everything is merged: the result follows from what was recorded.
LEMMA FinishFresh ==
  ASSUME NEW CONSTANT rank \in [Paths -> Nat], EnvironmentsApart, QueryInv, QueryInv', StackInv,
         FreshInv(rank), FinishCompute
  PROVE  FreshInv(rank)'
<1>1. FramesHold(rank) /\ EntriesHold(rank) /\ RecordsHold
  BY DEF FreshInv
<1>2. Running("Compute") /\ Top.rest = <<>> /\ deps' = deps /\ uncached' = uncached
  BY DEF FinishCompute
<1>3. /\ Len(frames) > 0 /\ Len(frames) \in Nat /\ IsSequence(frames)
      /\ IsCall(Top) /\ Top.op = "Compute" /\ Top.rest \in Seq(Specs)
      /\ ComputeHolds(Top)
      /\ \A d \in DepKey : Listed(Top.path, d) => Verified(d)
  BY <1>2, ComputeNext
<1>4. PICK t \in Paths : t = Top.path
  BY <1>3 DEF IsCall
<1>5. PICK acc : acc = Top.acc
  OBVIOUS
<1>6. /\ envs' = [envs EXCEPT ![t] = Built(t, acc)]
      /\ changedAt' = [changedAt EXCEPT ![EnvKey(t)] =
                         IF envs[t].env # Built(t, acc).env THEN revision ELSE @]
      /\ verifiedAt' = [verifiedAt EXCEPT ![EnvKey(t)] = revision]
      /\ UNCHANGED <<vfsVars, stamps, terms, resolved>>
      /\ inFlight' = inFlight \ {t} /\ frames' = Below /\ ret' = [path |-> t, cycle |-> FALSE]
  <2>1. t \notin uncached
    BY <1>1 DEF EntriesHold
  <2> QED BY <2>1, <1>4, <1>5 DEF FinishCompute, PopStack, ReturnTo
<1>7. /\ ~Verified(EnvKey(t)) /\ Verified(TermsKey(t)) /\ Listed(t, TermsKey(t))
      /\ MergeHolds(t, acc.bindings, <<>>)
  BY <1>2, <1>3, <1>4, <1>5 DEF ComputeHolds
<1>8. /\ Progress /\ RecordsHold' /\ Verified(EnvKey(t))' /\ envs'[t] = Built(t, acc)
      /\ \A q \in Paths : q # t => verifiedAt'[EnvKey(q)] = verifiedAt[EnvKey(q)]
  BY <1>1, <1>6, <1>7, ResultRecorded
<1>9. \A p \in Paths : \A d : Listed(p, d)' <=> Listed(p, d)
  BY <1>2 DEF Listed
<1>10. PICK m \in Nat :
         /\ Len(ImportList(t)) = m
         /\ \A k \in 1..m : Settles(t, ImportList(t)[k])
         /\ acc.bindings = Layered(Layers(t), m)
  <2>1. \A m \in Nat : m + Len(<<>>) = m
    BY EmptySeq
  <2> QED BY <2>1, <1>7 DEF MergeHolds
<1>11. \A k \in 1..m : ImportList(t)[k] \in Specs
  BY <1>10, ImportListType DEF QueryInv
<1>12. \A k \in 1..m : Fixed(t, ImportList(t)[k])
  <2>1. TAKE k \in 1..m
  <2>2. PICK s \in Specs : s = ImportList(t)[k]
    BY <1>11
  <2>3. Settles(t, s)
    BY <1>10, <2>2
  <2> QED BY <2>2, <2>3, <1>8, <1>9, SettlesKept DEF QueryInv
<1>13. \A k \in 1..m : \A s : s = ImportList(t)[k] => Recalls(t, s)'
  <2>1. TAKE k \in 1..m
  <2>2. PICK s \in Specs : s = ImportList(t)[k]
    BY <1>11
  <2>3. Settles(t, s)
    BY <1>10, <2>2
  <2>4. Settles(t, s)'
    BY <2>3, <1>8, <1>9, SettlesKept DEF QueryInv
  <2> QED BY <2>2, <2>4 DEF Settles
<1>14. /\ terms'[t].root = terms[t].root /\ ImportList(t)' = ImportList(t)
       /\ Layered(Layers(t), m)' = Layered(Layers(t), m)
  <2>1. ~Moves(TermsKey(t)) /\ m <= Len(ImportList(t))
    BY <1>7, <1>10 DEF Moves
  <2> QED BY <2>1, <1>8, <1>10, <1>12, LayersKept DEF QueryInv
<1>15. Consistent(t)'
  <2>1. terms'[t].root = NoTerm => envs'[t].env = NilEnv
    BY <1>8, <1>14, BuiltShape
  <2>2. terms'[t].root # NoTerm =>
          envs'[t].env = [file |-> t, bindings |-> Override(Layered(Layers(t), m)', terms'[t].root.defs)]
    <3>1. terms[t].root # NoTerm =>
            Built(t, acc).env = [file |-> t, bindings |-> Override(acc.bindings, terms[t].root.defs)]
      BY BuiltShape
    <3>2. PICK r, d : r = terms[t].root /\ d = r.defs
      OBVIOUS
    <3>3. acc.bindings = Layered(Layers(t), m)' /\ terms'[t].root = r
      BY <1>10, <1>14, <3>2
    <3> QED BY <1>8, <3>1, <3>2, <3>3
  <2>3. Len(ImportList(t)') = m /\ \A k \in 1..m : Recalls(t, ImportList(t)[k])'
    BY <1>10, <1>13, <1>14
  <2> QED BY <2>1, <2>2, <2>3 DEF Consistent
<1>16. EntryOK(t)'
  <2>1. \A d \in DepKey : Listed(t, d)' => Verified(d)'
    BY <1>3, <1>4, <1>8, <1>9 DEF Progress
  <2>2. Listed(t, TermsKey(t))'
    BY <1>7, <1>9
  <2> QED BY <1>15, <2>1, <2>2 DEF EntryOK
<1>17. /\ Len(frames') = Len(frames) - 1
       /\ \A i \in 1..(Len(frames) - 1) : frames'[i] = frames[i]
  BY <1>3, <1>6, Shortened DEF Below
<1>18. BelowKept
  <2>1. Covered(EnvKey(t))
    BY <1>8 DEF Covered, Verified, Progress
  <2>2. Len(frames') >= Len(frames) - 1
    BY <1>3, <1>17
  <2> QED BY <1>3, <1>4, <1>8, <1>9, <1>17, <2>1, <2>2 DEF BelowKept
<1>19. Noted
  BY <1>1, <1>3, <1>18, LinkNotes
<1>20. EntriesHold(rank)'
  <2>1. \A p \in Paths : p # t => envs'[p].env = envs[p].env
    BY <1>1, <1>6 DEF RecordsHold
  <2> QED BY <2>1, <1>1, <1>2, <1>4, <1>6, <1>8, <1>9, <1>16, <1>18, EntriesKept
<1>21. FramesHold(rank)' /\ ReturnHolds'
  BY <1>1, <1>4, <1>6, <1>8, <1>18, <1>19, PopHolds
<1> QED BY <1>8, <1>20, <1>21 DEF FreshInv

\* A step of a call keeps everything in order.
LEMMA StepFresh ==
  ASSUME NEW CONSTANT rank \in [Paths -> Nat], EnvironmentsApart, NoLinks, CoherenceInv, QueryInv',
         StackInv, FreshInv(rank), ImportsFollow(rank), Step
  PROVE  FreshInv(rank)'
<1>1. QueryInv
  BY DEF CoherenceInv
<1>2. CASE EnterCycle \/ EnterVerified \/ EnterUnverified
  BY <1>1, <1>2, EnterFresh
<1>3. CASE VerifyTerms
  BY <1>3, VerifyTermsFresh
<1>4. CASE VerifyResolve
  BY <1>4, VerifyResolveFresh
<1>5. CASE VerifyImport
  BY <1>1, <1>5, VerifyImportFresh
<1>6. CASE VerifyImportReturned
  BY <1>1, <1>6, VerifyReturnedFresh
<1>7. CASE VerifyUnchanged
  BY <1>1, <1>7, VerifyUnchangedFresh
<1>8. CASE BeginCompute
  BY <1>8, BeginFresh
<1>9. CASE ComputeImport
  BY <1>9, ComputeImportFresh
<1>10. CASE ComputeImportReturned
  BY <1>1, <1>10, ComputeReturnedFresh
<1>11. CASE FinishCompute
  BY <1>1, <1>11, FinishFresh
<1> QED BY <1>2, <1>3, <1>4, <1>5, <1>6, <1>7, <1>8, <1>9, <1>10, <1>11 DEF Step

(***************************************************************************)
(* The caller.                                                             *)
(***************************************************************************)

\* Nothing is computed while no call runs.
LEMMA IdleClear ==
  ASSUME QueryInv, StackInv, Idle
  PROVE  inFlight = {} /\ Len(frames) = 0
<1>1. Len(frames) = 0
  BY DEF Idle
<1>2. ASSUME NEW p \in inFlight PROVE FALSE
  BY <1>1, <1>2 DEF StackInv, Ordered, Chained, Disciplined
<1> QED BY <1>1, <1>2

\* Between two calls the entries stay; a later revision verifies none of them.
LEMMA EntriesRest ==
  ASSUME NEW CONSTANT rank \in [Paths -> Nat], QueryInv, EntriesHold(rank),
         UNCHANGED <<verifiedAt, deps, inFlight, uncached, terms, resolved, envs>>,
         revision' \in {revision, revision + 1},
         \A d \in DepKey : changedAt'[d] = changedAt[d]
  PROVE  EntriesHold(rank)'
<1>1. DepsDescend(rank)'
  BY DEF EntriesHold, DepsDescend, Listed
<1>2. ASSUME NEW p \in Paths PROVE EntryOK(p)'
  <2>1. EntryOK(p)
    BY DEF EntriesHold
  <2>2. \A d : Listed(p, d)' <=> Listed(p, d)
    BY DEF Listed
  <2>3. Consistent(p)' <=> Consistent(p)
    BY DEF Consistent, Layers, ImportList, ImportsOf, Imported, Recalls, Listed
  <2>4. Verified(EnvKey(p))' => revision' = revision
    <3>1. EnvKey(p) \in Key /\ revision \in Nat
      BY KeysApart DEF QueryInv, StampsOK
    <3>2. verifiedAt[EnvKey(p)] \in 0..revision /\ revision + 1 \notin 0..revision
      BY <3>1 DEF QueryInv, StampsOK
    <3> QED BY <3>2 DEF Verified
  <2>5. revision' = revision => \A d : Verified(d)' <=> Verified(d)
    BY DEF Verified
  <2> QED BY <2>1, <2>2, <2>3, <2>4, <2>5 DEF EntryOK
<1> QED BY <1>1, <1>2 DEF EntriesHold

\* A new call starts with one frame that nothing is known of yet.
LEMMA RequestFresh ==
  ASSUME NEW CONSTANT rank \in [Paths -> Nat], QueryInv, FreshInv(rank), NEW p, Request(p)
  PROVE  FreshInv(rank)'
<1>1. /\ revision' \in {revision, revision + 1} /\ frames' = <<CallFrame(p)>> /\ ret' = NoRet
      /\ UNCHANGED <<verifiedAt, deps, inFlight, uncached, terms, resolved, envs>>
      /\ UNCHANGED <<vfsVars, verifiedAt, changedAt, terms, resolved, envs>>
  BY DEF Request, entries
<1>2. RecordsHold'
  <2>1. FilesStay /\ UNCHANGED <<buffers, disk, diskCache, searchPaths>>
    BY <1>1 DEF FilesStay, vfsVars
  <2>2. \A q \in Paths : ReadText(q)' = ReadText(q) /\ Kept(q)' = Kept(q)
    BY <2>1 DEF ReadText, DiskText, TryDisk, Kept
  <2>3. \A s \in Specs, q \in Paths : Locate(s, q)' = Locate(s, q)
    BY <2>1, LocateKept DEF QueryInv
  <2>4. \A q \in Paths : TextHeld(q)' /\ ShapeOK(q)'
    BY <1>1, <2>2 DEF FreshInv, RecordsHold, TextHeld, ShapeOK
  <2>5. \A s \in Specs, q \in Paths : PlaceHeld(s, q)'
    BY <1>1, <2>3 DEF FreshInv, RecordsHold, PlaceHeld
  <2> QED BY <1>1, <2>4, <2>5 DEF FreshInv, RecordsHold
<1>3. EntriesHold(rank)'
  BY <1>1, EntriesRest DEF FreshInv
<1>4. FramesHold(rank)'
  <2>1. Len(frames') = 1 /\ frames'[1].op = "FileEnv"
    BY <1>1 DEF CallFrame
  <2>2. \A i \in 1..Len(frames') : i = 1
    BY <2>1
  <2>3. \A i \in 1..Len(frames') : FrameHolds(frames, i)'
    BY <2>1, <2>2 DEF FrameHolds
  <2>4. \A i, j \in 1..Len(frames') : ~ (i < j) /\ ~ (i < Len(frames'))
    BY <2>1
  <2> QED BY <2>3, <2>4 DEF FramesHold, FramesDescend
<1> QED BY <1>1, <1>2, <1>3, <1>4 DEF FreshInv, ReturnHolds

\* The terms of one file are read anew.
LEMMA ReadTermsFresh ==
  ASSUME NEW CONSTANT rank \in [Paths -> Nat], NoLinks, CoherenceInv, StackInv, FreshInv(rank),
         NEW p \in Paths, ReadTerms(p)
  PROVE  FreshInv(rank)'
<1>1. /\ Idle /\ RefreshTerms(p) /\ Steady /\ UNCHANGED <<resolved, envs>>
      /\ envs' = envs /\ deps' = deps /\ inFlight' = inFlight /\ uncached' = uncached
      /\ frames' = frames /\ ret' = ret
  BY DEF ReadTerms, Steady, control
<1>2. QueryInv /\ RecordsHold /\ EntriesHold(rank) /\ FramesHold(rank) /\ ReturnHolds
  BY DEF CoherenceInv, FreshInv
<1>3. /\ Progress /\ RecordsHold'
      /\ \A q \in Paths : verifiedAt'[EnvKey(q)] = verifiedAt[EnvKey(q)]
  BY <1>1, <1>2, TermsRecorded
<1>4. Len(frames) = 0 /\ \A i : i \notin 1..0
  BY <1>1, <1>2, IdleClear
<1>5. EntriesHold(rank)'
  <2>1. ASSUME NEW q \in Paths PROVE EntryOK(q)'
    <3>1. \A d \in DepKey : Listed(q, d)' <=> Listed(q, d)
      BY <1>1 DEF Listed
    <3>2. EntryOK(q)
      BY <1>2 DEF EntriesHold
    <3> QED BY <3>1, <3>2, <1>1, <1>2, <1>3, EntryKept
  <2>2. DepsDescend(rank)'
    BY <1>1, <1>2 DEF EntriesHold, DepsDescend, Listed
  <2> QED BY <2>1, <2>2, <1>1, <1>2 DEF EntriesHold
<1>6. FramesHold(rank)'
  BY <1>1, <1>4 DEF FramesHold, FramesDescend
<1>7. ReturnHolds'
  <2>1. \A q \in Paths : Verified(EnvKey(q)) => Verified(EnvKey(q))'
    BY KeysApart, <1>3 DEF Progress
  <2> QED BY <2>1, <1>1, <1>2, <1>4 DEF ReturnHolds
<1> QED BY <1>3, <1>5, <1>6, <1>7 DEF FreshInv

\* An input leaves the records of what it does not stamp right.
LEMMA BumpFresh ==
  ASSUME NEW CONSTANT rank \in [Paths -> Nat], QueryInv, StackInv, FreshInv(rank),
         NEW keys, Bump(keys), \A d \in DepKey : d \notin keys,
         \A q \in Paths : TextKey(q) \in keys \/ (ReadText(q)' = ReadText(q) /\ (Kept(q) => Kept(q)')),
         VfsKey \in keys \/ \A s \in Specs, q \in Paths : Locate(s, q)' = Locate(s, q)
  PROVE  FreshInv(rank)'
<1>1. /\ Idle /\ revision' = revision + 1 /\ ret' = NoRet /\ frames' = frames
      /\ UNCHANGED <<verifiedAt, deps, inFlight, uncached, terms, resolved, envs>>
      /\ changedAt' = [k \in Key |-> IF k \in keys THEN revision + 1 ELSE changedAt[k]]
  BY DEF Bump, results
<1>2. RecordsHold /\ EntriesHold(rank)
  BY DEF FreshInv
<1> HIDE DEF Key
<1>3. \A k \in Key : changedAt'[k] = IF k \in keys THEN revision + 1 ELSE changedAt[k]
  BY <1>1
<1>4. /\ revision \in Nat
      /\ \A k \in Key : verifiedAt[k] \in 0..revision
  BY DEF QueryInv, StampsOK
<1>5. \A k \in Key : ~ (revision + 1 <= verifiedAt[k])
  BY <1>4
<1>6. /\ VfsKey \in Key /\ \A d \in DepKey : d \in Key
      /\ \A q \in Paths : TextKey(q) \in Key /\ TermsKey(q) \in Key
      /\ \A s \in Specs, q \in Paths : ResolveKey(s, q) \in Key
  BY DEF Key, DepKey
<1>7. ASSUME NEW q \in Paths PROVE TextHeld(q)' /\ ShapeOK(q)'
  <2>1. ShapeOK(q)'
    BY <1>1, <1>2 DEF RecordsHold, ShapeOK
  <2>2. CASE TextKey(q) \in keys
    <3>1. ~ (changedAt'[TextKey(q)] <= verifiedAt'[TermsKey(q)])
      BY <1>1, <1>3, <1>5, <1>6, <2>2
    <3> QED BY <2>1, <3>1 DEF TextHeld
  <2>3. CASE TextKey(q) \notin keys
    <3>1. changedAt'[TextKey(q)] = changedAt[TextKey(q)] /\ ReadText(q)' = ReadText(q)
          /\ (Kept(q) => Kept(q)')
      BY <1>3, <1>6, <2>3
    <3>2. TextHeld(q)
      BY <1>2 DEF RecordsHold
    <3> QED BY <2>1, <3>1, <3>2, <1>1 DEF TextHeld
  <2> QED BY <2>2, <2>3
<1>8. ASSUME NEW s \in Specs, NEW q \in Paths PROVE PlaceHeld(s, q)'
  <2>1. CASE VfsKey \in keys
    <3>1. ~ (changedAt'[VfsKey] <= verifiedAt'[ResolveKey(s, q)])
      BY <1>1, <1>3, <1>5, <1>6, <2>1
    <3> QED BY <3>1 DEF PlaceHeld
  <2>2. CASE VfsKey \notin keys
    <3>1. changedAt'[VfsKey] = changedAt[VfsKey] /\ Locate(s, q)' = Locate(s, q)
      BY <1>3, <1>6, <2>2
    <3>2. PlaceHeld(s, q)
      BY <1>2 DEF RecordsHold
    <3> QED BY <3>1, <3>2, <1>1 DEF PlaceHeld
  <2> QED BY <2>1, <2>2
<1>9. RecordsHold'
  BY <1>1, <1>2, <1>7, <1>8 DEF RecordsHold
<1>10. EntriesHold(rank)'
  BY <1>1, <1>2, <1>3, <1>6, EntriesRest
<1>11. FramesHold(rank)'
  BY <1>1, IdleClear DEF FramesHold, FramesDescend
<1> QED BY <1>1, <1>9, <1>10, <1>11 DEF FreshInv, ReturnHolds

\* What another program writes is not seen before it is reported, as long as it
\* creates and deletes nothing.
LEMMA DiskFresh ==
  ASSUME NEW CONSTANT rank \in [Paths -> Nat], QueryInv, StackInv, FreshInv(rank), FilesStay,
         UNCHANGED <<buffers, diskCache, searchPaths>>, UNCHANGED engineVars
  PROVE  FreshInv(rank)'
<1>1. /\ UNCHANGED <<revision, changedAt, verifiedAt, deps, inFlight, uncached, terms, resolved, envs>>
      /\ frames' = frames /\ ret' = ret
  BY DEF engineVars, stamps, entries, results, control
<1>2. RecordsHold /\ EntriesHold(rank) /\ FramesHold(rank) /\ ReturnHolds
  BY DEF FreshInv
<1>3. \A q \in Paths : Canonical(q) \in Paths
  BY VfsAssumption
<1>4. \A q \in Paths : TryDisk(q)' = TryDisk(q)
  BY <1>3 DEF FilesStay, TryDisk
<1>5. ASSUME NEW q \in Paths, Kept(q) PROVE ReadText(q)' = ReadText(q) /\ Kept(q)'
  BY <1>4, <1>5 DEF Kept, ReadText
<1>6. \A s \in Specs, q \in Paths : Locate(s, q)' = Locate(s, q)
  BY LocateKept DEF QueryInv
<1>7. RecordsHold'
  <2>1. ASSUME NEW q \in Paths PROVE TextHeld(q)' /\ ShapeOK(q)'
    BY <1>1, <1>2, <1>5 DEF RecordsHold, TextHeld, ShapeOK
  <2>2. ASSUME NEW s \in Specs, NEW q \in Paths PROVE PlaceHeld(s, q)'
    BY <1>1, <1>2, <1>6 DEF RecordsHold, PlaceHeld
  <2> QED BY <2>1, <2>2, <1>1, <1>2 DEF RecordsHold
<1>8. EntriesHold(rank)'
  BY <1>1, <1>2, EntriesRest
<1>9. FramesHold(rank)'
  <2>1. /\ \A k : Verified(k)' <=> Verified(k)
        /\ \A p, d : Listed(p, d)' <=> Listed(p, d)
    BY <1>1 DEF Verified, Listed
  <2>2. \A p : ImportList(p)' = ImportList(p) /\ Layers(p)' = Layers(p)
    BY <1>1 DEF ImportList, Layers, Imported
  <2>3. \A p, s : Settles(p, s)' <=> Settles(p, s)
    BY <1>1 DEF Settles, Recalls, Verified, Listed
  <2>4. \A p, b, r : MergeHolds(p, b, r)' <=> MergeHolds(p, b, r)
    BY ONLY <2>2, <2>3 DEF MergeHolds
  <2>5. \A f : ComputeHolds(f)' <=> ComputeHolds(f)
    BY ONLY <2>1, <2>4 DEF ComputeHolds
  <2>6. \A f : VerifyHolds(f)' <=> VerifyHolds(f)
    BY <1>1 DEF VerifyHolds, PastHolds, Verified, Listed
  <2>7. \A fs, i : FrameHolds(fs, i)' <=> FrameHolds(fs, i)
    BY ONLY <2>1, <2>5, <2>6 DEF FrameHolds, Above
  <2>8. \A fs, i : LinkHolds(fs, i)' <=> LinkHolds(fs, i)
    BY <1>1 DEF LinkHolds, Awaits, Verified, Listed
  <2>9. PICK fs : fs = frames
    OBVIOUS
  <2>10. frames' = fs
    BY <1>1, <2>9
  <2> QED BY <1>2, <2>7, <2>8, <2>9, <2>10 DEF FramesHold
<1>10. ReturnHolds'
  BY <1>1, <1>2 DEF ReturnHolds, Awaits, Listed, Verified, Top
<1> QED BY <1>7, <1>8, <1>9, <1>10 DEF FreshInv

\* An input that other programs or the caller write.
LEMMA WritesFresh ==
  ASSUME NEW CONSTANT rank \in [Paths -> Nat], NoLinks, CoherenceInv, StackInv, FreshInv(rank),
         FilesStay, Writes
  PROVE  FreshInv(rank)'
<1>1. QueryInv
  BY DEF CoherenceInv
<1>2. \A d \in DepKey : d # VfsKey /\ \A q \in Paths : d # TextKey(q)
  BY DEF DepKey
<1>3. /\ \A e \in BufferEdits : e[1] \in Paths
      /\ \A e \in DiskEdits : e[1] \in Paths
  BY EngineAssumption
<1>4. ASSUME NEW p \in Paths, NEW t, buffers' = [buffers EXCEPT ![p] = t],
             UNCHANGED <<disk, diskCache, searchPaths, unnotified>>, Bump({TextKey(p), VfsKey})
      PROVE  FreshInv(rank)'
  <2>1. \A q \in Paths : q # p => buffers'[q] = buffers[q]
    BY <1>1, <1>4 DEF QueryInv, FilesOK, Overlay
  <2>2. \A q \in Paths : q # p => ReadText(q)' = ReadText(q) /\ (Kept(q) => Kept(q)')
    BY <1>4, <2>1 DEF ReadText, Kept, TryDisk, DiskText
  <2>3. \A d \in DepKey : d \notin {TextKey(p), VfsKey}
    BY <1>2
  <2>4. \A q \in Paths : \/ TextKey(q) \in {TextKey(p), VfsKey}
                         \/ ReadText(q)' = ReadText(q) /\ (Kept(q) => Kept(q)')
    BY <2>2
  <2>5. VfsKey \in {TextKey(p), VfsKey}
    OBVIOUS
  <2>6. PICK keys : keys = {TextKey(p), VfsKey}
    OBVIOUS
  <2> QED BY <1>1, <1>4, <2>3, <2>4, <2>5, <2>6, BumpFresh
<1>5. ASSUME NEW p \in Paths, VfsForget(p), Bump({TextKey(p)}) PROVE FreshInv(rank)'
  <2>1. /\ \A q \in Paths : q # p => diskCache'[q] = diskCache[q]
        /\ UNCHANGED <<buffers, disk, searchPaths>>
    BY <1>1, <1>5 DEF VfsForget, QueryInv, FilesOK, Overlay
  <2>2. ASSUME NEW q \in Paths, q # p PROVE ReadText(q)' = ReadText(q) /\ (Kept(q) => Kept(q)')
    <3>1. /\ diskCache'[q] = diskCache[q] /\ TryDisk(q)' = TryDisk(q)
          /\ TryDisk(q) # NoPath => TryDisk(q) = q
      BY <2>1, <2>2 DEF TryDisk, NoLinks
    <3> QED BY <2>1, <3>1 DEF ReadText, Kept, DiskText
  <2>3. \A s \in Specs, q \in Paths : Locate(s, q)' = Locate(s, q)
    BY <1>1, <2>1, LocateKept DEF QueryInv
  <2>4. \A d \in DepKey : d \notin {TextKey(p)}
    BY <1>2
  <2>5. \A q \in Paths : \/ TextKey(q) \in {TextKey(p)}
                         \/ ReadText(q)' = ReadText(q) /\ (Kept(q) => Kept(q)')
    BY <2>2
  <2> QED BY <1>1, <1>5, <2>3, <2>4, <2>5, BumpFresh
<1>6. ASSUME NEW r \in Roots, VfsAddSearchPath(r), Bump({VfsKey}) PROVE FreshInv(rank)'
  <2>1. UNCHANGED <<buffers, disk, diskCache>>
    BY <1>6 DEF VfsAddSearchPath
  <2>2. \A q \in Paths : ReadText(q)' = ReadText(q) /\ (Kept(q) => Kept(q)')
    BY <2>1 DEF ReadText, Kept, TryDisk, DiskText
  <2>3. \A d \in DepKey : d \notin {VfsKey}
    BY <1>2
  <2> QED BY <1>1, <1>6, <2>2, <2>3, BumpFresh
<1>7. ASSUME NEW p, NEW t, DiskWrite(p, t), UNCHANGED engineVars PROVE FreshInv(rank)'
  BY <1>1, <1>7, DiskFresh DEF DiskWrite
<1> QED BY <1>3, <1>4, <1>5, <1>6, <1>7 DEF Writes, VfsSetBuffer, VfsClearBuffer

\* At the start nothing is recorded.
LEMMA FreshStarts ==
  ASSUME NEW CONSTANT rank \in [Paths -> Nat], Init
  PROVE  FreshInv(rank)
<1>1. /\ \A k \in Key : verifiedAt[k] = 0
      /\ \A p \in Paths : deps[p] = <<>> /\ envs[p] = NoResult
      /\ DOMAIN envs = Paths /\ uncached = {} /\ frames = <<>> /\ ret = NoRet
  BY DEF Init
<1>2. RecordsHold
  <2>1. \A p \in Paths : TermsKey(p) \in Key
    BY KeysApart
  <2>2. \A s \in Specs, p \in Paths : ResolveKey(s, p) \in Key
    BY KeysApart
  <2>3. \A p \in Paths : ShapeOK(p)
    BY <1>1 DEF ShapeOK, NoResult, EmptyResult
  <2> QED BY <1>1, <2>1, <2>2, <2>3 DEF RecordsHold, TextHeld, PlaceHeld
<1>3. EntriesHold(rank)
  <2>1. \A p \in Paths : EnvKey(p) \in Key
    BY KeysApart
  <2>2. \A p \in Paths : \A d : ~Listed(p, d)
    BY <1>1 DEF Listed
  <2> QED BY <1>1, <2>1, <2>2 DEF EntriesHold, DepsDescend, EntryOK
<1>4. FramesHold(rank)
  BY <1>1 DEF FramesHold, FramesDescend
<1> QED BY <1>1, <1>2, <1>3, <1>4 DEF FreshInv, ReturnHolds

\* Everything stays in order as long as the imports follow it.
LEMMA FreshKept ==
  ASSUME NEW CONSTANT rank \in [Paths -> Nat], EnvironmentsApart, NoLinks, CoherenceInv,
         CoherenceInv', StackInv, FreshInv(rank), ImportsFollow(rank), [Next /\ FilesStay]_vars
  PROVE  FreshInv(rank)'
<1>1. QueryInv /\ QueryInv'
  BY DEF CoherenceInv
<1>2. CASE Input /\ FilesStay
  BY <1>2, InputWrites, WritesFresh
<1>3. CASE Step
  BY <1>1, <1>3, StepFresh
<1>4. ASSUME NEW p \in RootPaths, Request(p) \/ ReadTerms(p) PROVE FreshInv(rank)'
  <2>1. p \in Paths
    BY EngineAssumption
  <2> QED BY <1>1, <1>4, <2>1, RequestFresh, ReadTermsFresh
<1>5. CASE UNCHANGED vars
  <2>1. UNCHANGED <<buffers, diskCache, searchPaths>> /\ UNCHANGED engineVars /\ FilesStay
    BY <1>5 DEF vars, vfsVars, FilesStay
  <2> QED BY <1>1, <2>1, DiskFresh
<1> QED BY <1>2, <1>3, <1>4, <1>5 DEF Next, Client

(***************************************************************************)
(* What is verified is fresh.                                              *)
(***************************************************************************)

\* The reference gives an environment or none.
LEMMA FreshShape ==
  ASSUME NEW n \in Nat, NEW q \in Paths
  PROVE  FreshEnvs[n][q] = NilEnv \/ \E b : FreshEnvs[n][q] = [file |-> q, bindings |-> b]
<1>1. FreshEnvs[n][q] = Over(q, IF n = 0 THEN [r \in Paths |-> NilEnv] ELSE FreshEnvs[n - 1])
  BY FreshUnfolds DEF Level
<1> QED BY <1>1 DEF Over

\* An entry that is verified follows from entries that are, and from the files.
LEMMA VerifiedFollows ==
  ASSUME NEW CONSTANT rank \in [Paths -> Nat], NoLinks, TermsInv, FreshInv(rank),
         unnotified = {}, inFlight = {}, NEW p \in Paths, Verified(EnvKey(p))
  PROVE  /\ Consistent(p) /\ terms[p].root = FreshTerm(p) /\ ImportList(p) = FreshImports(p)
         /\ \A k \in 1..Len(ImportList(p)) : \A s : s = ImportList(p)[k] =>
              /\ resolved[<<s, p>>] = Locate(s, p)
              /\ Locate(s, p) # NoPath => /\ Verified(EnvKey(Locate(s, p)))
                                          /\ rank[Locate(s, p)] < rank[p]
                                          /\ Locate(s, p) \in Paths
<1>1. QueryInv /\ RecordsHold /\ EntriesHold(rank) /\ CoherenceInv /\ CacheCurrent
  BY DEF TermsInv, CoherenceInv, FreshInv
<1>2. /\ revision # 0
      /\ \A k \in Key : changedAt[k] <= revision
  BY <1>1 DEF QueryInv, StampsOK
<1>3. /\ DepKey \subseteq Key /\ TermsKey(p) \in DepKey /\ TextKey(p) \in Key /\ VfsKey \in Key
      /\ \A s \in Specs : ResolveKey(s, p) \in DepKey
      /\ \A q \in Paths : EnvKey(q) \in DepKey
  BY KeysApart DEF Key
<1>4. /\ Listed(p, TermsKey(p)) /\ Consistent(p)
      /\ \A d \in DepKey : Listed(p, d) => Verified(d)
  BY <1>1, <1>2, <1>3 DEF EntriesHold, EntryOK, Verified
<1>5. terms[p].root = FreshTerm(p)
  <2>1. terms[p].root = TermOf(ReadText(p))
    BY <1>1, <1>2, <1>3, <1>4 DEF RecordsHold, TextHeld, Verified
  <2>2. ReadText(p) = FreshText(p)
    BY <1>1, ReadsAreFresh
  <2> QED BY <2>1, <2>2 DEF TermOf, FreshTerm
<1>6. ImportList(p) = FreshImports(p)
  BY <1>5 DEF ImportList, ImportsOf, FreshImports
<1>7. ASSUME NEW k \in 1..Len(ImportList(p)), NEW s, s = ImportList(p)[k]
      PROVE  /\ resolved[<<s, p>>] = Locate(s, p)
             /\ Locate(s, p) # NoPath => /\ Verified(EnvKey(Locate(s, p)))
                                         /\ rank[Locate(s, p)] < rank[p]
                                         /\ Locate(s, p) \in Paths
  <2>1. s \in Specs
    BY <1>1, <1>7, ImportListType DEF QueryInv
  <2>2. Recalls(p, s)
    BY <1>4, <1>7 DEF Consistent
  <2>3. Verified(ResolveKey(s, p))
    BY <1>3, <1>4, <2>1, <2>2 DEF Recalls
  <2>4. resolved[<<s, p>>] = Locate(s, p)
    BY <1>1, <1>2, <1>3, <2>1, <2>3 DEF RecordsHold, PlaceHeld, Verified
  <2>5. resolved[<<s, p>>] \in Paths \cup {NoPath}
    BY <1>1, <2>1 DEF QueryInv, RecordsOK
  <2>6. ASSUME Locate(s, p) # NoPath
        PROVE  Verified(EnvKey(Locate(s, p))) /\ rank[Locate(s, p)] < rank[p]
    <3>1. PICK q \in Paths : q = Locate(s, p)
      BY <2>4, <2>5, <2>6
    <3>2. Listed(p, EnvKey(q))
      BY <2>2, <2>4, <2>6, <3>1 DEF Recalls
    <3> QED BY <1>1, <1>3, <1>4, <3>1, <3>2 DEF EntriesHold, DepsDescend
  <2> QED BY <2>4, <2>5, <2>6
<1> QED BY <1>4, <1>5, <1>6, <1>7

\* By the order of the imports: it is what a compilation from nothing gives that
\* follows them as deep as the file is high.
LEMMA VerifiedFresh ==
  ASSUME NEW CONSTANT rank \in [Paths -> Nat], EnvironmentsApart, NoLinks, TermsInv,
         FreshInv(rank), unnotified = {}, inFlight = {}
  PROVE  \A p \in Paths : Verified(EnvKey(p)) =>
           \A n \in Nat : rank[p] <= n => envs[p].env = FreshEnvs[n][p]
<1> DEFINE Wrong(p, n) == Verified(EnvKey(p)) /\ rank[p] <= n /\ envs[p].env # FreshEnvs[n][p]
           Bad == {r \in Nat : \E p \in Paths : \E n \in Nat : rank[p] = r /\ Wrong(p, n)}
<1> SUFFICES ASSUME Bad # {} PROVE FALSE
  OBVIOUS
<1>1. PICK r \in Bad : \A y \in Bad : r <= y
  BY MinIsLeast
<1>2. PICK p \in Paths, n \in Nat : rank[p] = r /\ Wrong(p, n)
  BY <1>1
<1> DEFINE below == IF n = 0 THEN [q \in Paths |-> NilEnv] ELSE FreshEnvs[n - 1]
<1>3. FreshEnvs[n][p] = Over(p, below)
  BY FreshUnfolds DEF Level
<1>4. ASSUME NEW q \in Paths, Verified(EnvKey(q)), rank[q] < rank[p]
      PROVE  n # 0 /\ n - 1 \in Nat /\ envs[q].env = FreshEnvs[n - 1][q]
  <2>1. rank[q] \in Nat /\ rank[p] \in Nat /\ rank[p] <= n
    BY <1>2
  <2>2. n # 0 /\ n - 1 \in Nat /\ rank[q] <= n - 1 /\ ~ (r <= rank[q])
    BY <1>2, <1>4, <2>1
  <2>3. rank[q] \notin Bad
    BY <1>1, <2>2
  <2> QED BY <1>4, <2>1, <2>2, <2>3
<1> HIDE DEF Bad
<1>5. /\ Consistent(p) /\ terms[p].root = FreshTerm(p) /\ ImportList(p) = FreshImports(p)
      /\ \A k \in 1..Len(ImportList(p)) : \A s : s = ImportList(p)[k] =>
           /\ resolved[<<s, p>>] = Locate(s, p)
           /\ Locate(s, p) # NoPath => /\ Verified(EnvKey(Locate(s, p)))
                                       /\ rank[Locate(s, p)] < rank[p]
                                       /\ Locate(s, p) \in Paths
  BY <1>2, VerifiedFollows
<1>6. QueryInv /\ RecordsHold
  BY DEF TermsInv, CoherenceInv, FreshInv
<1> DEFINE I == FreshImports(p)
           m == Len(I)
           layers == [k \in DOMAIN I |->
                        LET target == Locate(I[k], p) IN
                        IF target = NoPath THEN <<>>
                        ELSE IF below[target] = NilEnv THEN <<>> ELSE below[target].bindings]
<1>7. /\ m \in Nat /\ DOMAIN I = 1..m
      /\ \A k \in 1..m : Layers(p)[k] = Imported(p, I[k])
  BY <1>5, <1>6, ImportListType DEF QueryInv
<1>8. ASSUME NEW q \in Paths, Verified(EnvKey(q)), rank[q] < rank[p]
      PROVE  envs[q].bindings = IF below[q] = NilEnv THEN <<>> ELSE below[q].bindings
  <2>1. n # 0 /\ n - 1 \in Nat /\ envs[q].env = FreshEnvs[n - 1][q]
    BY <1>4, <1>8
  <2>2. below[q] = envs[q].env
    BY <2>1
  <2>3. envs[q].env = NilEnv \/ \E b : envs[q].env = [file |-> q, bindings |-> b]
    BY <2>1, FreshShape
  <2>4. ShapeOK(q)
    BY <1>6 DEF RecordsHold
  <2>5. PICK e, b : e = envs[q].env /\ b = envs[q].bindings
    OBVIOUS
  <2>6. CASE e = [file |-> q, bindings |-> b]
    <3>1. e # NilEnv /\ e.bindings = b
      BY <2>6 DEF EnvironmentsApart
    <3> QED BY <3>1, <2>2, <2>5
  <2>7. CASE e # [file |-> q, bindings |-> b]
    <3>1. e \in {NilEnv, Uncomputed} /\ b = <<>>
      BY <2>4, <2>5, <2>7 DEF ShapeOK
    <3>2. e = NilEnv
      BY <2>3, <2>5, <3>1 DEF EnvironmentsApart
    <3> QED BY <3>1, <3>2, <2>2, <2>5
  <2> QED BY <2>6, <2>7
<1>9. ASSUME NEW k \in 1..m PROVE Layers(p)[k] = layers[k]
  <2>1. PICK s : s = I[k]
    OBVIOUS
  <2>2. PICK q : q = Locate(s, p)
    OBVIOUS
  <2>3. Layers(p)[k] = IF q = NoPath THEN <<>> ELSE envs[q].bindings
    BY <1>5, <1>7, <2>1, <2>2 DEF Imported
  <2>4. layers[k] = IF q = NoPath THEN <<>>
                    ELSE IF below[q] = NilEnv THEN <<>> ELSE below[q].bindings
    BY <1>7, <2>1, <2>2
  <2>5. q # NoPath => q \in Paths /\ Verified(EnvKey(q)) /\ rank[q] < rank[p]
    BY <1>5, <2>1, <2>2
  <2> HIDE DEF layers, below, I, m
  <2> QED BY <2>3, <2>4, <2>5, <1>8
<1>10. Layered(Layers(p), m) = Layered(layers, m)
  <2> HIDE DEF layers, m
  <2> QED BY <1>7, <1>9, LayeredSame
<1>11. Over(p, below) = IF FreshTerm(p) = NoTerm THEN NilEnv
                        ELSE [file |-> p,
                              bindings |-> Override(Layered(layers, m), FreshTerm(p).defs)]
  BY DEF Over
<1>12. envs[p].env = IF FreshTerm(p) = NoTerm THEN NilEnv
                     ELSE [file |-> p,
                           bindings |-> Override(Layered(Layers(p), m), FreshTerm(p).defs)]
  BY <1>5 DEF Consistent
<1> HIDE DEF layers, below, m
<1> QED BY <1>2, <1>3, <1>10, <1>11, <1>12

(***************************************************************************)
(* Theorems: incremental equals fresh.                                     *)
(***************************************************************************)

InOrder(rank) == TermsInv /\ StackInv /\ FreshInv(rank)

LEMMA InOrderStarts ==
  ASSUME LibrariesApart, NEW CONSTANT rank \in [Paths -> Nat]
  PROVE  Init => InOrder(rank)
BY TermsStart, StackStarts, FreshStarts DEF InOrder

LEMMA InOrderStays ==
  ASSUME LibrariesApart, NoLinks, EnvironmentsApart, NEW CONSTANT rank \in [Paths -> Nat]
  PROVE  InOrder(rank) /\ ImportsFollow(rank) /\ [Next]_vars /\ [FilesStay]_vars => InOrder(rank)'
<1> SUFFICES ASSUME InOrder(rank), ImportsFollow(rank), [Next]_vars, [FilesStay]_vars
             PROVE  InOrder(rank)'
  OBVIOUS
<1>1. TermsInv /\ StackInv /\ FreshInv(rank)
  BY DEF InOrder
<1>2. TermsInv'
  BY <1>1, TermsStep
<1>3. StackInv'
  <2>1. CASE Next
    BY <1>1, <2>1, StepKeeps, CallerKeeps DEF Next
  <2>2. CASE UNCHANGED vars
    BY <1>1, <2>2, StackUnchanged DEF vars, engineVars, entries, control
  <2> QED BY <2>1, <2>2
<1>4. [Next /\ FilesStay]_vars
  OBVIOUS
<1>5. FreshInv(rank)'
  BY <1>1, <1>2, <1>4, FreshKept DEF TermsInv
<1> QED BY <1>2, <1>3, <1>5 DEF InOrder

\* An order of the imports ranks every file no higher than there are files.
RankIsOrder(rank) == IsFiniteSet(Paths) /\ rank \in [Paths -> 0..Cardinality(Paths)]

LEMMA RankType ==
  ASSUME NEW CONSTANT rank, RankIsOrder(rank)
  PROVE  /\ rank \in [Paths -> Nat] /\ Cardinality(Paths) \in Nat
         /\ \A p \in Paths : rank[p] <= Cardinality(Paths)
<1>1. Cardinality(Paths) \in Nat
  BY FS_CardinalityType DEF RankIsOrder
<1> QED BY <1>1 DEF RankIsOrder

\* While imports follow one order of the files, and other programs write files
\* but neither create nor delete any, every entry the engine would reuse without
\* another look is what a session gives that has read nothing, whatever was
\* edited, asked for and reused before.
THEOREM ReusedIsFresh ==
  ASSUME LibrariesApart, NoLinks, EnvironmentsApart, NEW CONSTANT rank, RankIsOrder(rank)
  PROVE  Spec /\ []ImportsFollow(rank) /\ [][FilesStay]_vars => []VerifiedIsFresh
<1>1. Init => InOrder(rank)
  BY InOrderStarts, RankType
<1>2. InOrder(rank) /\ ImportsFollow(rank) /\ [Next]_vars /\ [FilesStay]_vars => InOrder(rank)'
  BY InOrderStays, RankType
<1>3. InOrder(rank) /\ VerifiedTermsFresh => VerifiedIsFresh
  <2> SUFFICES ASSUME InOrder(rank), VerifiedTermsFresh, Idle, unnotified = {},
                      NEW p \in Paths, verifiedAt[EnvKey(p)] = revision
               PROVE  envs[p].env = FreshEnvironment(p)
    BY DEF VerifiedIsFresh
  <2>1. inFlight = {}
    BY IdleClear DEF InOrder, TermsInv, CoherenceInv
  <2> QED BY <2>1, RankType, VerifiedFresh DEF InOrder, Verified, FreshEnvironment
<1>4. Spec => []VerifiedTermsFresh
  BY VerifiedTermsHold
<1> QED BY <1>1, <1>2, <1>3, <1>4, PTL DEF Spec

\* Under the same conditions the environment of every answer is the one a
\* compilation from nothing gives.
THEOREM AnswersAreFresh ==
  ASSUME LibrariesApart, NoLinks, EnvironmentsApart, NEW CONSTANT rank, RankIsOrder(rank)
  PROVE  Spec /\ []ImportsFollow(rank) /\ [][FilesStay]_vars => []FreshEnv
<1>1. Init => InOrder(rank)
  BY InOrderStarts, RankType
<1>2. InOrder(rank) /\ ImportsFollow(rank) /\ [Next]_vars /\ [FilesStay]_vars => InOrder(rank)'
  BY InOrderStays, RankType
<1>3. InOrder(rank) => FreshEnv
  <2> SUFFICES ASSUME InOrder(rank), Idle, ret # NoRet, unnotified = {}
               PROVE  envs[ret.path].env = FreshEnvironment(ret.path)
    BY DEF FreshEnv, Settled, Answered
  <2>1. inFlight = {}
    BY IdleClear DEF InOrder, TermsInv, CoherenceInv
  <2>2. ret.path \in Paths /\ Verified(EnvKey(ret.path))
    BY DEF InOrder, FreshInv, ReturnHolds
  <2> QED BY <2>1, <2>2, RankType, VerifiedFresh DEF InOrder, FreshEnvironment
<1> QED BY <1>1, <1>2, <1>3, PTL DEF Spec
=============================================================================
