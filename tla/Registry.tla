------------------------------ MODULE Registry ------------------------------
(***************************************************************************)
(* What the broker's registry of tunnels promises whoever asks it for a    *)
(* node (broker.go:244, 476, 495): a connection enters it at most once,    *)
(* only under an approved node of our tenant, and is torn down by the      *)
(* broker only after it has left.  How long it stays is left open: any     *)
(* entry may be removed at any time.                                       *)
(*                                                                         *)
(* Lookups, races, health checks, snapshots and watchers are absent;       *)
(* TunnelBroker, which has them, implements this.                          *)
(***************************************************************************)
CONSTANTS
    Nodes,   \* node identities
    Foreign, \* the ones of another tenant
    Conns,   \* accepted connections
    None     \* no connection

VARIABLES
    status,  \* the tower's record of each node
    tunnels, \* the connection registered for each node
    used,    \* connections that are or have been registered
    closed   \* connections the broker has torn down

vars == <<status, tunnels, used, closed>>

Init ==
    /\ status \in [Nodes -> {"pending", "active"}]
    /\ \A n \in Foreign : status[n] = "pending"
    /\ tunnels = [n \in Nodes |-> None]
    /\ used = {}
    /\ closed = {}

\* The tower decides, on its own and in this order only.
Decide(n) ==
    /\ \/ /\ status[n] = "pending" /\ n \notin Foreign
          /\ status' = [status EXCEPT ![n] = "active"]
       \/ /\ status[n] = "active"
          /\ status' = [status EXCEPT ![n] = "revoked"]
    /\ UNCHANGED <<tunnels, used, closed>>

\* A revoked node may still be registered, as long as the broker does not know.
Register(n, c) ==
    /\ n \notin Foreign /\ status[n] # "pending"
    /\ c \notin used \cup closed
    /\ tunnels' = [tunnels EXCEPT ![n] = c]
    /\ used' = used \cup {c}
    /\ UNCHANGED <<status, closed>>

Unregister(n) ==
    /\ tunnels[n] # None
    /\ tunnels' = [tunnels EXCEPT ![n] = None]
    /\ UNCHANGED <<status, used, closed>>

TearDown(c) ==
    /\ \A n \in Nodes : tunnels[n] # c
    /\ closed' = closed \cup {c}
    /\ UNCHANGED <<status, tunnels, used>>

Next ==
    \/ \E n \in Nodes : Decide(n) \/ Unregister(n)
    \/ \E n \in Nodes, c \in Conns : Register(n, c)
    \/ \E c \in Conns : TearDown(c)

Spec == Init /\ [][Next]_vars
=============================================================================
