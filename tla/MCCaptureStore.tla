--------------------------- MODULE MCCaptureStore ---------------------------
(* Instances of CaptureStore for TLC.                                      *)
EXTENDS CaptureStore, TLC

\* Handles, owners and clients are interchangeable.
Symmetry == Permutations(Ids) \cup Permutations(Owners)
              \cup Permutations(Clients)
=============================================================================
