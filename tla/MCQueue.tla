------------------------------ MODULE MCQueue ------------------------------
(* Small instances of Queue for TLC. *)
EXTENDS Queue, TLC

CONSTANTS s1, s2, w1, w2, w3, t1, t2, t3, d1, d2

OwnTarget  == 1 :> t1 @@ 2 :> t2
OneTarget  == 1 :> t1
OnePriority == 1 :> 100
OneShow    == t1 :> d1 @@ t2 :> d1
OwnShow    == t1 :> d1 @@ t2 :> d2
ThreeTargets == 1 :> t1 @@ 2 :> t2 @@ 3 :> t3
TwoShows   == t1 :> d1 @@ t2 :> d1 @@ t3 :> d2
MixedPriority == 1 :> 100 @@ 2 :> 100 @@ 3 :> 50
SamePriority == 1 :> 100 @@ 2 :> 100

Full     == [pct |-> 13, charging |-> FALSE]
Low      == [pct |-> 12, charging |-> FALSE]
Plugged  == [pct |-> 5, charging |-> TRUE]
OneReading == {Full}
TwoReadings == {Full, Plugged}
GateReadings == {Full, Low}
NoReadings == {}

WorkerSymmetry == Permutations(Workers)
Symmetric == Permutations(Workers) \cup Permutations(Sources)
=============================================================================
