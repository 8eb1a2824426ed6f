----------------------------- MODULE MCGCSLock ------------------------------
(* Instances of GCSLock for TLC.                                           *)
EXTENDS GCSLock
=============================================================================
