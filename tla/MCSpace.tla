------------------------------- MODULE MCSpace ------------------------------
(* A small instance of Space for TLC: one job at a time.  (MCServices has the larger one.) *)
EXTENDS Space

CONSTANTS j1, j2
TwoBytes == [j \in Jobs |-> 2]
=============================================================================
