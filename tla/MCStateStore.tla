---------------------------- MODULE MCStateStore ----------------------------
(* An instance of StateStore for TLC.                                      *)
EXTENDS StateStore
=============================================================================
