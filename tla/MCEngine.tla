------------------------------ MODULE MCEngine ------------------------------
(* Instances of Engine for TLC.                                            *)
EXTENDS Engine

\* Two transactions of one change around one of two changes.
LsnMixed == <<1, 2, 2, 3>>
LsnPairs == <<1, 1, 2>>
LsnSingles == <<1, 2, 3>>
=============================================================================
