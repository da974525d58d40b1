---------------------------- MODULE MCDesktopTask ----------------------------
(* Instances of DesktopTask for TLC.                                       *)
EXTENDS DesktopTask, TLC

\* Operations, owners and nodes are interchangeable.
Symmetry == Permutations(Ops) \cup Permutations(Owners) \cup Permutations(Nodes)
=============================================================================
