------------------------- MODULE MCCallerPerimeter -------------------------
(* Instances of CallerPerimeter for TLC.                                   *)
EXTENDS CallerPerimeter, TLC

CONSTANTS n1, n2, byName, byId

\* Two nodes; the name of n1 is part of the name of n2.
MCById == (byName :> {}) @@ (byId :> {n2})
MCNamed == (byName :> {n1}) @@ (byId :> {})
MCAlike == (byName :> {n1, n2}) @@ (byId :> {})
MCInSvid == (byName :> {}) @@ (byId :> {n2})

\* Callers with a full identity and requests are interchangeable.
Symmetry == Permutations(Stable) \cup Permutations(Requests)
=============================================================================
