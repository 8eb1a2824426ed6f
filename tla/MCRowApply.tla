----------------------------- MODULE MCRowApply -----------------------------
(* Instances of RowApply for TLC.                                          *)
EXTENDS RowApply, TLC

CONSTANTS k1, k2, short, long

MCColumns == <<"id", "a">>
MCSortedColumns == <<"a", "id">>
MCTexts == [id |-> {k1, k2}, a |-> {short, long}]
Symmetry == Permutations({k1, k2})
=============================================================================
