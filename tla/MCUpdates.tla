------------------------------ MODULE MCUpdates ------------------------------
(* Instances of Updates for TLC.                                           *)
EXTENDS Updates
=============================================================================
