----------------------------- MODULE DelayHistory -----------------------------
(***************************************************************************)
(* What a delay line promises, whatever its layout: a read with delay k    *)
(* gives what the line held k frames ago; replacing the program keeps the  *)
(* history both programs can read.                                         *)
(***************************************************************************)
EXTENDS Naturals

CONSTANTS
  Samples,  \* the values a frame may write
  Zero,     \* the cleared sample
  Depths    \* the delays a program may ask of one line

VARIABLE reads  \* reads[k] is what a read with delay k gives

HistoryInit == \E m \in Depths : reads = [k \in 1..m |-> Zero]

Push(x) == reads' = [k \in DOMAIN reads |-> IF k = 1 THEN x ELSE reads[k - 1]]

\* Deeper reads than the old program could make give some sample.
Resize(m) ==
  /\ reads' \in [1..m -> Samples]
  /\ \A k \in 1..m : k \in DOMAIN reads => reads'[k] = reads[k]

HistoryNext == (\E x \in Samples : Push(x)) \/ (\E m \in Depths : Resize(m))

HistorySpec == HistoryInit /\ [][HistoryNext]_reads
===============================================================================
