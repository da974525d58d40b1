--------------------------- MODULE MCTunnelBroker ---------------------------
(* Instances of TunnelBroker for TLC.                                      *)
EXTENDS TunnelBroker, TLC

\* Connections and callers are interchangeable; used by safety runs only.
Symmetry == Permutations(Conns) \cup Permutations(Callers)

\* For liveness: handlers do not get to their health check, on which nobody
\* waits, and which has no effect on the registry but to remove an entry.
UngreetedNext == Next /\ \A c \in Conns : handler'[c] # "health"
UngreetedSpec == Init /\ [][UngreetedNext]_vars /\ Fairness
=============================================================================
