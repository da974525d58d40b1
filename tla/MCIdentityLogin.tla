--------------------------- MODULE MCIdentityLogin ---------------------------
(* Instances of IdentityLogin for TLC.                                     *)
EXTENDS IdentityLogin
==============================================================================
