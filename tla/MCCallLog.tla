----------------------------- MODULE MCCallLog -----------------------------
(* Instances of CallLog for TLC.                                           *)
EXTENDS CallLog
=============================================================================
