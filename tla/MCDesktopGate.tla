---------------------------- MODULE MCDesktopGate ----------------------------
(* Instances of DesktopGate for TLC.                                       *)
EXTENDS DesktopGate

\* The times of the instance satisfy what the theorems about the reservations
\* suppose: the node answers in time, and the slack covers its work.  Its two
\* leases differ by more than the slack all the same.
ASSUME TimesCover == Prompt /\ SlackCovers
==============================================================================
