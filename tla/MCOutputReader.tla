--------------------------- MODULE MCOutputReader ---------------------------
(* Instances of OutputReader for TLC.                                      *)
EXTENDS OutputReader
=============================================================================
