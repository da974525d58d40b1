------------------------ MODULE TunnelBroker_proofs ------------------------
(***************************************************************************)
(* The safety properties of TunnelBroker, for any number of nodes,         *)
(* connections, callers and refreshers.                                    *)
(***************************************************************************)
EXTENDS TunnelBroker, FiniteSetTheorems, TLAPS

-----------------------------------------------------------------------------
(* The inductive invariant behind the safety properties.                   *)

Approved == {n \in Nodes : status[n] # "pending"}

\* Every snapshot, fetched, installed or read back, holds approved nodes only.
ListsApproved ==
    /\ Approved \cap Foreign = {}
    /\ allow \subseteq Approved
    /\ \A r \in Refreshers : ref[r].snap \subseteq Approved

\* What the program counters of one connection say about it.
ConnInv ==
    \A c \in Conns :
        /\ handler[c] # "none" => peer[c] \in Nodes
        /\ handler[c] = "none" => link[c] = "none"
        /\ handler[c] \in {"none", "admitted"} => watch[c] = "off"
        /\ handler[c] = "admitted" => /\ peer[c] \in Approved
                                      /\ link[c] \in {"up", "dead"}
        /\ inj[c].pc # "idle" => handler[c] = "health"

\* What being in the registry says about a connection.
RegistryInv ==
    \A n \in Nodes : tunnels[n] # None =>
        /\ n \in Approved
        /\ peer[tunnels[n]] = n
        /\ link[tunnels[n]] \in {"up", "dead"}
        /\ watch[tunnels[n]] \in {"waiting", "pinging", "matched"}

\* A connection reconcile is about to close is one that was stored, and its
\* entry is gone once DropTunnel has run.
DropInv ==
    \A r \in Refreshers : ref[r].pc \in {"drop", "close"} =>
        /\ ref[r].node \in Nodes
        /\ ref[r].conn \in Conns
        /\ peer[ref[r].conn] = ref[r].node
        /\ watch[ref[r].conn] # "off"
        /\ handler[ref[r].conn] # "none"
        /\ ref[r].pc = "close" => tunnels[ref[r].node] # ref[r].conn

IndInv == TypeOK /\ ListsApproved /\ ConnInv /\ RegistryInv /\ DropInv

-----------------------------------------------------------------------------
\* The revocation count is a natural number: there are finitely many nodes.
LEMMA RevCountType == RevCount \in Nat
<1>1. IsFiniteSet({n \in Nodes : status[n] = "revoked"})
  BY NodesFinite, FS_Subset
<1>. QED  BY <1>1, FS_CardinalityType DEF RevCount

\* The local states every goroutine returns to are of the right type.
LEMMA IdleType == Idle \in InjState /\ Resting \in RefState
  BY DEF Idle, InjState, Resting, RefState

\* The program starts in a state of the right type.
LEMMA InitType == Init => TypeOK
  BY IdleType DEF Init, TypeOK, Active

\* Every action keeps the type of every variable.
LEMMA NextType == IndInv /\ [Next]_vars => TypeOK'
<1>. SUFFICES ASSUME TypeOK, ConnInv, [Next]_vars PROVE TypeOK'
  BY DEF IndInv
<1>1. ASSUME NEW n \in Nodes, Approve(n) PROVE TypeOK'
  BY <1>1 DEF TypeOK, Approve, connVars
<1>2. ASSUME NEW n \in Nodes, Revoke(n) PROVE TypeOK'
  BY <1>2 DEF TypeOK, Revoke, connVars
<1>3. ASSUME NEW c \in Conns, LinkDown(c) PROVE TypeOK'
  BY <1>3 DEF TypeOK, LinkDown, connVars
<1>4. ASSUME NEW c \in Conns, NEW n \in Nodes, Admit(c, n) PROVE TypeOK'
  BY <1>4 DEF TypeOK, Admit, connVars
<1>5. ASSUME NEW c \in Conns, NEW n \in Nodes, Reject(c, n) PROVE TypeOK'
  BY <1>5 DEF TypeOK, Reject, connVars
<1>6. ASSUME NEW c \in Conns, ClientConnFails(c) PROVE TypeOK'
  BY <1>6 DEF TypeOK, ClientConnFails, connVars
<1>7. ASSUME NEW c \in Conns, Store(c) PROVE TypeOK'
  BY <1>7 DEF TypeOK, Store, connVars
<1>8. ASSUME NEW c \in Conns, HealthLoad(c) PROVE TypeOK'
  <2>0. peer[c] \in Nodes
    BY <1>8 DEF ConnInv, HealthLoad
  <2>1. [pc |-> "sent", node |-> peer[c], conn |-> tunnels[peer[c]]]
          \in InjState
    BY <2>0 DEF TypeOK, InjState
  <2>. QED  BY <1>8, <2>1, IdleType DEF TypeOK, Injectors, HealthLoad, connVars
<1>9. ASSUME NEW c \in Conns, RecordVersion(c) PROVE TypeOK'
  BY <1>9 DEF TypeOK, ConnInv, RecordVersion
<1>10. ASSUME NEW i \in Callers, NEW n \in Nodes, InjectLoad(i, n)
      PROVE  TypeOK'
  <2>1. [pc |-> "sent", node |-> n, conn |-> tunnels[n]] \in InjState
    BY DEF TypeOK, InjState
  <2>. QED  BY <1>10, <2>1, IdleType DEF TypeOK, Injectors, InjectLoad, connVars
<1>11. ASSUME NEW i \in Injectors, RoundTripOk(i) PROVE TypeOK'
  BY <1>11, IdleType DEF TypeOK, RoundTripOk, InjectReturns
<1>12. ASSUME NEW i \in Injectors, RoundTripAborted(i) PROVE TypeOK'
  BY <1>12, IdleType DEF TypeOK, RoundTripAborted, InjectReturns
<1>13. ASSUME NEW i \in Injectors, RoundTripError(i) PROVE TypeOK'
  <2>1. [inj[i] EXCEPT !.pc = "matched"] \in InjState
    BY DEF TypeOK, InjState
  <2>. QED  BY <1>13, <2>1, IdleType DEF TypeOK, RoundTripError, InjectReturns
<1>14. ASSUME NEW i \in Injectors, InjectReap(i) PROVE TypeOK'
  BY <1>14, IdleType DEF TypeOK, InjectReap, InjectReturns
<1>15. ASSUME NEW c \in Conns, WatchTick(c) PROVE TypeOK'
  BY <1>15 DEF TypeOK, WatchTick, connVars
<1>16. ASSUME NEW c \in Conns, PingOk(c) PROVE TypeOK'
  BY <1>16 DEF TypeOK, PingOk, connVars
<1>17. ASSUME NEW c \in Conns, PingFails(c) PROVE TypeOK'
  BY <1>17 DEF TypeOK, PingFails, CloseConn, connVars
<1>18. ASSUME NEW c \in Conns, WatchReap(c) PROVE TypeOK'
  BY <1>18 DEF TypeOK, WatchReap, connVars
<1>19. ASSUME NEW c \in Conns, WatchClose(c) PROVE TypeOK'
  BY <1>19 DEF TypeOK, WatchClose, CloseConn, connVars
<1>20. ASSUME NEW r \in Refreshers, RevPoll(r) PROVE TypeOK'
  <2>1. ref[r] \in RefState
    BY DEF TypeOK
  <2>2. [ref[r] EXCEPT !.pc = "detected", !.count = RevCount]
          \in RefState
    BY <2>1, RevCountType DEF RefState
  <2>. QED  BY <1>20, <2>2, RevCountType DEF TypeOK, RevPoll, connVars
<1>21. ASSUME NEW r \in Refreshers, Fetch(r) PROVE TypeOK'
  <2>1. ref[r] \in RefState /\ Active \in SUBSET Nodes
    BY DEF TypeOK, Active
  <2>2. [ref[r] EXCEPT !.pc = "fetched", !.snap = Active]
          \in RefState
    BY <2>1 DEF RefState
  <2>. QED  BY <1>21, <2>2 DEF TypeOK, Fetch, connVars
<1>22. ASSUME NEW r \in Refreshers, FetchFails(r) PROVE TypeOK'
  <2>1. ref[r].count \in Nat
    BY DEF TypeOK, RefState
  <2>. QED  BY <1>22, <2>1, IdleType DEF TypeOK, FetchFails, connVars
<1>23. ASSUME NEW r \in Refreshers, Replace(r) PROVE TypeOK'
  <2>1. ref[r] \in RefState
    BY DEF TypeOK
  <2>2. [ref[r] EXCEPT !.pc = "replaced", !.snap = {}]
          \in RefState
    BY <2>1 DEF RefState
  <2>3. ref[r].snap \subseteq Nodes
    BY <2>1 DEF RefState
  <2>. QED  BY <1>23, <2>2, <2>3 DEF TypeOK, Replace, connVars
<1>24. ASSUME NEW r \in Refreshers, ReadEntries(r) PROVE TypeOK'
  <2>1. ref[r] \in RefState /\ allow \in SUBSET Nodes
    BY DEF TypeOK
  <2>2. [ref[r] EXCEPT !.pc = "range", !.snap = allow, !.todo = Nodes]
          \in RefState
    BY <2>1 DEF RefState
  <2>. QED  BY <1>24, <2>2 DEF TypeOK, ReadEntries, connVars
<1>25. ASSUME NEW r \in Refreshers, NEW n \in Nodes, RangeKeeps(r, n)
      PROVE  TypeOK'
  <2>1. ref[r] \in RefState
    BY DEF TypeOK
  <2>2. [ref[r] EXCEPT !.todo = @ \ {n}]
          \in RefState
    BY <2>1 DEF RefState
  <2>. QED  BY <1>25, <2>2 DEF TypeOK, RangeKeeps, connVars
<1>26. ASSUME NEW r \in Refreshers, NEW n \in Nodes, RangeFinds(r, n)
      PROVE  TypeOK'
  <2>1. ref[r] \in RefState /\ tunnels[n] \in Conns \cup {None}
    BY DEF TypeOK
  <2>2. [ref[r] EXCEPT !.pc = "drop", !.todo = @ \ {n},
                        !.node = n, !.conn = tunnels[n]]
          \in RefState
    BY <2>1 DEF RefState
  <2>. QED  BY <1>26, <2>2 DEF TypeOK, RangeFinds, connVars
<1>27. ASSUME NEW r \in Refreshers, DropTunnel(r) PROVE TypeOK'
  <2>1. ref[r] \in RefState
    BY DEF TypeOK
  <2>2. [ref[r] EXCEPT !.pc = "close"]
          \in RefState
    BY <2>1 DEF RefState
  <2>. QED  BY <1>27, <2>2 DEF TypeOK, DropTunnel, connVars
<1>28. ASSUME NEW r \in Refreshers, DropClose(r) PROVE TypeOK'
  <2>1. ref[r] \in RefState
    BY DEF TypeOK
  <2>2. [ref[r] EXCEPT !.pc = "range", !.node = None, !.conn = None]
          \in RefState
    BY <2>1 DEF RefState
  <2>. QED  BY <1>28, <2>2 DEF TypeOK, DropClose, connVars
<1>29. ASSUME NEW r \in Refreshers, ReconcileDone(r) PROVE TypeOK'
  <2>1. ref[r].count \in Nat
    BY DEF TypeOK, RefState
  <2>. QED  BY <1>29, <2>1, IdleType DEF TypeOK, ReconcileDone, connVars
<1>30. CASE UNCHANGED vars
  BY <1>30 DEF TypeOK, vars
<1>. QED
  BY <1>1, <1>2, <1>3, <1>4, <1>5, <1>6, <1>7, <1>8, <1>9, <1>10,
     <1>11, <1>12, <1>13, <1>14, <1>15, <1>16, <1>17, <1>18, <1>19,
     <1>20, <1>21, <1>22, <1>23, <1>24, <1>25, <1>26, <1>27, <1>28,
     <1>29, <1>30
     DEF Next, Handle, Inject, WatchTunnel, Reconcile, RefreshAndReconcile

\* The lists hold approved nodes, the connections and the registry agree, and
\* reconcile closes only what it has unregistered.
LEMMA InitInv == Init => IndInv
<1>. SUFFICES ASSUME Init PROVE IndInv
  OBVIOUS
<1>1. TypeOK
  BY InitType
<1>2. ListsApproved /\ ConnInv /\ RegistryInv /\ DropInv
  BY ForeignAssumption DEF Init, ListsApproved, ConnInv, RegistryInv, DropInv,
     Approved, Active, Injectors, Idle, Resting
<1>. QED  BY <1>1, <1>2 DEF IndInv

\* Every action preserves the inductive invariant.
LEMMA NextInv == IndInv /\ [Next]_vars => IndInv'
<1>. SUFFICES ASSUME IndInv, [Next]_vars PROVE IndInv'
  OBVIOUS
<1>0. TypeOK'
  BY NextType
<1>. USE NoneAssumption DEF IndInv, TypeOK, InjState, RefState, ListsApproved,
     ConnInv, RegistryInv, DropInv, Approved, Injectors, connVars
<1>1. ASSUME NEW n \in Nodes, Approve(n) PROVE IndInv'
  BY <1>0, <1>1 DEF Approve
<1>2. ASSUME NEW n \in Nodes, Revoke(n) PROVE IndInv'
  BY <1>0, <1>2 DEF Revoke
<1>3. ASSUME NEW c \in Conns, LinkDown(c) PROVE IndInv'
  BY <1>0, <1>3 DEF LinkDown
<1>4. ASSUME NEW c \in Conns, NEW n \in Nodes, Admit(c, n) PROVE IndInv'
  BY <1>0, <1>4 DEF Admit, Lookup
<1>5. ASSUME NEW c \in Conns, NEW n \in Nodes, Reject(c, n) PROVE IndInv'
  BY <1>0, <1>5 DEF Reject
<1>6. ASSUME NEW c \in Conns, ClientConnFails(c) PROVE IndInv'
  BY <1>0, <1>6 DEF ClientConnFails
<1>7. ASSUME NEW c \in Conns, Store(c) PROVE IndInv'
  BY <1>0, <1>7 DEF Store
<1>8. ASSUME NEW c \in Conns, HealthLoad(c) PROVE IndInv'
  BY <1>0, <1>8 DEF HealthLoad, Idle
<1>9. ASSUME NEW c \in Conns, RecordVersion(c) PROVE IndInv'
  BY <1>0, <1>9 DEF RecordVersion
<1>10. ASSUME NEW i \in Callers, NEW n \in Nodes, InjectLoad(i, n)
      PROVE  IndInv'
  BY <1>0, <1>10, CallersAssumption DEF InjectLoad
<1>11. ASSUME NEW i \in Injectors, RoundTripOk(i) PROVE IndInv'
  BY <1>0, <1>11 DEF RoundTripOk, InjectReturns, Idle
<1>12. ASSUME NEW i \in Injectors, RoundTripAborted(i) PROVE IndInv'
  BY <1>0, <1>12 DEF RoundTripAborted, InjectReturns, Idle
<1>13. ASSUME NEW i \in Injectors, RoundTripError(i) PROVE IndInv'
  <2>1. ListsApproved'
    BY <1>13 DEF RoundTripError, InjectReturns, Idle
  <2>2. ConnInv'
    <3>1. CASE tunnels[inj[i].node] = inj[i].conn
      BY <1>13, <3>1 DEF RoundTripError
    <3>2. CASE tunnels[inj[i].node] # inj[i].conn
      BY <1>13, <3>2 DEF RoundTripError, InjectReturns, Idle
    <3>. QED  BY <3>1, <3>2
  <2>3. RegistryInv'
    BY <1>13 DEF RoundTripError, InjectReturns, Idle
  <2>4. DropInv'
    BY <1>13 DEF RoundTripError, InjectReturns, Idle
  <2>. QED  BY <1>0, <2>1, <2>2, <2>3, <2>4
<1>14. ASSUME NEW i \in Injectors, InjectReap(i) PROVE IndInv'
  <2>1. ListsApproved'
    BY <1>14 DEF InjectReap, InjectReturns, Idle
  <2>2. ConnInv'
    BY <1>14 DEF InjectReap, InjectReturns, Idle
  <2>3. RegistryInv'
    BY <1>14 DEF InjectReap, InjectReturns, Idle
  <2>4. DropInv'
    BY <1>14 DEF InjectReap, InjectReturns, Idle
  <2>. QED  BY <1>0, <2>1, <2>2, <2>3, <2>4
<1>15. ASSUME NEW c \in Conns, WatchTick(c) PROVE IndInv'
  BY <1>0, <1>15 DEF WatchTick
<1>16. ASSUME NEW c \in Conns, PingOk(c) PROVE IndInv'
  BY <1>0, <1>16 DEF PingOk
<1>17. ASSUME NEW c \in Conns, PingFails(c) PROVE IndInv'
  <2>1. ListsApproved'
    BY <1>17 DEF PingFails, CloseConn
  <2>2. ConnInv'
    BY <1>17 DEF PingFails, CloseConn
  <2>3. RegistryInv'
    BY <1>17 DEF PingFails, CloseConn
  <2>4. DropInv'
    BY <1>17 DEF PingFails, CloseConn
  <2>. QED  BY <1>0, <2>1, <2>2, <2>3, <2>4
<1>18. ASSUME NEW c \in Conns, WatchReap(c) PROVE IndInv'
  BY <1>0, <1>18 DEF WatchReap
<1>19. ASSUME NEW c \in Conns, WatchClose(c) PROVE IndInv'
  BY <1>0, <1>19 DEF WatchClose, CloseConn
<1>20. ASSUME NEW r \in Refreshers, RevPoll(r) PROVE IndInv'
  <2>1. ListsApproved'
    BY <1>20 DEF RevPoll
  <2>2. ConnInv'
    BY <1>20 DEF RevPoll
  <2>3. RegistryInv'
    BY <1>20 DEF RevPoll
  <2>4. DropInv'
    BY <1>20 DEF RevPoll
  <2>. QED  BY <1>0, <2>1, <2>2, <2>3, <2>4
<1>21. ASSUME NEW r \in Refreshers, Fetch(r) PROVE IndInv'
  <2>1. ListsApproved'
    BY <1>21 DEF Fetch, Active
  <2>2. ConnInv'
    BY <1>21 DEF Fetch, Active
  <2>3. RegistryInv'
    BY <1>21 DEF Fetch, Active
  <2>4. DropInv'
    BY <1>21 DEF Fetch, Active
  <2>. QED  BY <1>0, <2>1, <2>2, <2>3, <2>4
<1>22. ASSUME NEW r \in Refreshers, FetchFails(r) PROVE IndInv'
  BY <1>0, <1>22 DEF FetchFails, Resting
<1>23. ASSUME NEW r \in Refreshers, Replace(r) PROVE IndInv'
  <2>1. ListsApproved'
    BY <1>23 DEF Replace
  <2>2. ConnInv'
    BY <1>23 DEF Replace
  <2>3. RegistryInv'
    BY <1>23 DEF Replace
  <2>4. DropInv'
    BY <1>23 DEF Replace
  <2>. QED  BY <1>0, <2>1, <2>2, <2>3, <2>4
<1>24. ASSUME NEW r \in Refreshers, ReadEntries(r) PROVE IndInv'
  <2>1. ListsApproved'
    BY <1>24 DEF ReadEntries
  <2>2. ConnInv'
    BY <1>24 DEF ReadEntries
  <2>3. RegistryInv'
    BY <1>24 DEF ReadEntries
  <2>4. DropInv'
    BY <1>24 DEF ReadEntries
  <2>. QED  BY <1>0, <2>1, <2>2, <2>3, <2>4
<1>25. ASSUME NEW r \in Refreshers, NEW n \in Nodes, RangeKeeps(r, n)
      PROVE  IndInv'
  BY <1>0, <1>25 DEF RangeKeeps
<1>26. ASSUME NEW r \in Refreshers, NEW n \in Nodes, RangeFinds(r, n)
      PROVE  IndInv'
  <2>1. ListsApproved'
    BY <1>26 DEF RangeFinds
  <2>2. ConnInv'
    BY <1>26 DEF RangeFinds
  <2>3. RegistryInv'
    BY <1>26 DEF RangeFinds
  <2>4. DropInv'
    BY <1>26 DEF RangeFinds
  <2>. QED  BY <1>0, <2>1, <2>2, <2>3, <2>4
<1>27. ASSUME NEW r \in Refreshers, DropTunnel(r) PROVE IndInv'
  <2>1. ListsApproved'
    BY <1>27 DEF DropTunnel
  <2>2. ConnInv'
    BY <1>27 DEF DropTunnel
  <2>3. RegistryInv'
    BY <1>27 DEF DropTunnel
  <2>4. DropInv'
    BY <1>27 DEF DropTunnel
  <2>. QED  BY <1>0, <2>1, <2>2, <2>3, <2>4
<1>28. ASSUME NEW r \in Refreshers, DropClose(r) PROVE IndInv'
  BY <1>0, <1>28 DEF DropClose
<1>29. ASSUME NEW r \in Refreshers, ReconcileDone(r) PROVE IndInv'
  BY <1>0, <1>29 DEF ReconcileDone, Resting
<1>30. CASE UNCHANGED vars
  BY <1>30 DEF vars
<1>. QED
  BY <1>1, <1>2, <1>3, <1>4, <1>5, <1>6, <1>7, <1>8, <1>9, <1>10,
     <1>11, <1>12, <1>13, <1>14, <1>15, <1>16, <1>17, <1>18, <1>19,
     <1>20, <1>21, <1>22, <1>23, <1>24, <1>25, <1>26, <1>27, <1>28,
     <1>29, <1>30
     DEF Next, Handle, Inject, WatchTunnel, Reconcile, RefreshAndReconcile

-----------------------------------------------------------------------------
\* The broker's state always has its type.
THEOREM TypeCorrect == Spec => []TypeOK
<1>1. Spec => []IndInv
  BY InitInv, NextInv, PTL DEF Spec
<1>2. IndInv => TypeOK
  BY DEF IndInv
<1>. QED  BY <1>1, <1>2, PTL

\* Only approved nodes of our tenant ever hold a tunnel, and the tunnel is
\* theirs: the admission check survives every race between handle, reconcile
\* and the refreshes of the allow-list.
THEOREM AdmissionSafe == Spec => []OnlyApprovedRegistered
<1>1. Spec => []IndInv
  BY InitInv, NextInv, PTL DEF Spec
<1>2. IndInv => OnlyApprovedRegistered
  BY DEF IndInv, TypeOK, ListsApproved, RegistryInv, Approved,
     OnlyApprovedRegistered
<1>. QED  BY <1>1, <1>2, PTL

\* A connection that watchTunnel or reconcile closed is in no registry entry.
THEOREM ClosedSafe == Spec => []ClosedNotRegistered
<1>1. Spec => []IndInv
  BY InitInv, NextInv, PTL DEF Spec
<1>2. IndInv => ClosedNotRegistered
  BY DEF IndInv, RegistryInv, ClosedNotRegistered
<1>. QED  BY <1>1, <1>2, PTL

\* A registered connection has a watcher that has not given up on it.
THEOREM WatchSafe == Spec => []RegisteredIsWatched
<1>1. Spec => []IndInv
  BY InitInv, NextInv, PTL DEF Spec
<1>2. IndInv => RegisteredIsWatched
  BY DEF IndInv, RegistryInv, RegisteredIsWatched
<1>. QED  BY <1>1, <1>2, PTL

-----------------------------------------------------------------------------
(* The refinement of Registry.                                             *)

\* The sets the refinement mapping gives the abstract registry.
Used == {c \in Conns : watch[c] # "off"}
Closed == {c \in Conns : link[c] \in {"closed", "dropped"}}

\* Nothing is registered, used or closed at the start.
LEMMA InitRefines == Init => Abstract!Init
  BY DEF Init, Abstract!Init

\* A step that keeps the registry's entries and the tower's records, starts no
\* watcher and closes nothing is a stuttering step of the abstract registry.
LEMMA Stutters ==
  ASSUME UNCHANGED <<status, tunnels>>, Used' = Used, Closed' = Closed
  PROVE  UNCHANGED Abstract!vars
  BY DEF Abstract!vars, Used, Closed

\* A step that closes a connection nobody finds in the registry tears it down.
LEMMA TearsDown ==
  ASSUME NEW c \in Conns, \A n \in Nodes : tunnels[n] # c,
         UNCHANGED <<status, tunnels>>, Used' = Used,
         Closed' = Closed \cup {c}
  PROVE  Abstract!Next
  BY DEF Abstract!Next, Abstract!TearDown, Used, Closed

\* A step that deletes by key unregisters whatever it finds, or stutters.
LEMMA Unregisters ==
  ASSUME TypeOK, NEW n \in Nodes,
         tunnels' = [tunnels EXCEPT ![n] = None], UNCHANGED status,
         Used' = Used, Closed' = Closed
  PROVE  Abstract!Next \/ UNCHANGED Abstract!vars
<1>1. CASE tunnels[n] = None
  <2>. tunnels' = tunnels
    BY <1>1 DEF TypeOK
  <2>. QED  BY Stutters
<1>2. CASE tunnels[n] # None
  BY <1>2 DEF Abstract!Next, Abstract!Unregister, Used, Closed
<1>. QED  BY <1>1, <1>2

\* Every step of the broker is a step of the abstract registry or leaves it
\* alone.
LEMMA NextRefines ==
  IndInv /\ [Next]_vars => Abstract!Next \/ UNCHANGED Abstract!vars
<1>. DEFINE Goal == Abstract!Next \/ UNCHANGED Abstract!vars
<1>. SUFFICES ASSUME IndInv, [Next]_vars PROVE Goal
  OBVIOUS
<1>0. TypeOK /\ ConnInv /\ RegistryInv /\ DropInv
  BY DEF IndInv
<1>1. ASSUME NEW n \in Nodes, Approve(n) \/ Revoke(n) PROVE Goal
  <2>1. Abstract!Decide(n)
    BY <1>1 DEF Approve, Revoke, Abstract!Decide, connVars
  <2>. QED  BY <2>1 DEF Abstract!Next
<1>2. ASSUME NEW c \in Conns, LinkDown(c) PROVE Goal
  <2>1. Used' = Used /\ Closed' = Closed
    BY <1>2, <1>0 DEF LinkDown, Used, Closed, TypeOK
  <2>. QED  BY <1>2, <2>1, Stutters DEF LinkDown
<1>3. ASSUME NEW c \in Conns, NEW n \in Nodes, Admit(c, n) PROVE Goal
  <2>1. Used' = Used /\ Closed' = Closed
    BY <1>3, <1>0 DEF Admit, Used, Closed, TypeOK, ConnInv
  <2>. QED  BY <1>3, <2>1, Stutters DEF Admit
<1>4. ASSUME NEW c \in Conns, NEW n \in Nodes, Reject(c, n) PROVE Goal
  <2>1. Used' = Used /\ Closed' = Closed \cup {c}
    BY <1>4, <1>0 DEF Reject, Used, Closed, TypeOK
  <2>2. \A m \in Nodes : tunnels[m] # c
    BY <1>4, <1>0, NoneAssumption DEF Reject, ConnInv, RegistryInv
  <2>. QED  BY <1>4, <2>1, <2>2, TearsDown DEF Reject
<1>5. ASSUME NEW c \in Conns, ClientConnFails(c) PROVE Goal
  <2>1. Used' = Used /\ Closed' = Closed \cup {c}
    BY <1>5, <1>0 DEF ClientConnFails, Used, Closed, TypeOK
  <2>2. \A m \in Nodes : tunnels[m] # c
    BY <1>5, <1>0, NoneAssumption DEF ClientConnFails, ConnInv, RegistryInv
  <2>. QED  BY <1>5, <2>1, <2>2, TearsDown DEF ClientConnFails
<1>6. ASSUME NEW c \in Conns, Store(c) PROVE Goal
  <2>1. peer[c] \in Nodes /\ peer[c] \notin Foreign
    BY <1>6, <1>0 DEF Store, ConnInv, IndInv, ListsApproved, Approved
  <2>2. status[peer[c]] # "pending"
    BY <1>6, <1>0 DEF Store, ConnInv, Approved
  <2>3. c \notin Used \cup Closed
    BY <1>6, <1>0 DEF Store, ConnInv, Used, Closed
  <2>4. Used' = Used \cup {c} /\ Closed' = Closed
    BY <1>6, <1>0 DEF Store, Used, Closed, TypeOK
  <2>5. Abstract!Register(peer[c], c)
    BY <1>6, <2>1, <2>2, <2>3, <2>4
       DEF Store, Abstract!Register, Used, Closed
  <2>. QED  BY <2>1, <2>5 DEF Abstract!Next
<1>7. ASSUME NEW c \in Conns, HealthLoad(c) \/ RecordVersion(c) PROVE Goal
  BY <1>7, Stutters DEF HealthLoad, RecordVersion, Used, Closed
<1>8. ASSUME NEW i \in Callers, NEW n \in Nodes, InjectLoad(i, n) PROVE Goal
  BY <1>8, Stutters DEF InjectLoad, connVars, Used, Closed
<1>9. ASSUME NEW i \in Injectors,
             RoundTripOk(i) \/ RoundTripAborted(i) \/ RoundTripError(i)
      PROVE  Goal
  BY <1>9, Stutters
     DEF RoundTripOk, RoundTripAborted, RoundTripError, Used, Closed
<1>10. ASSUME NEW i \in Injectors, InjectReap(i) PROVE Goal
  <2>1. CASE inj[i].node \in Nodes
    BY <1>10, <1>0, <2>1, Unregisters DEF InjectReap, Used, Closed
  <2>2. CASE inj[i].node \notin Nodes
    <3>1. tunnels' = tunnels
      BY <1>10, <1>0, <2>2 DEF InjectReap, TypeOK
    <3>. QED  BY <1>10, <3>1, Stutters DEF InjectReap, Used, Closed
  <2>. QED  BY <2>1, <2>2
<1>11. ASSUME NEW c \in Conns, WatchTick(c) \/ PingOk(c) PROVE Goal
  <2>1. Used' = Used /\ Closed' = Closed
    BY <1>11, <1>0 DEF WatchTick, PingOk, Used, Closed, TypeOK
  <2>. QED  BY <1>11, <2>1, Stutters DEF WatchTick, PingOk
<1>12. ASSUME NEW c \in Conns, PingFails(c) PROVE Goal
  <2>1. Used' = Used
    BY <1>12, <1>0 DEF PingFails, Used, TypeOK
  <2>2. CASE tunnels[peer[c]] = c
    BY <1>12, <2>1, <2>2, Stutters DEF PingFails, Closed
  <2>3. CASE tunnels[peer[c]] # c
    <3>1. Closed' = Closed \cup {c}
      BY <1>12, <1>0, <2>3 DEF PingFails, CloseConn, Closed, TypeOK
    <3>2. \A m \in Nodes : tunnels[m] # c
      BY <1>0, <2>3, NoneAssumption DEF RegistryInv
    <3>. QED  BY <1>12, <2>1, <3>1, <3>2, TearsDown DEF PingFails
  <2>. QED  BY <2>2, <2>3
<1>13. ASSUME NEW c \in Conns, WatchReap(c) PROVE Goal
  <2>1. Used' = Used /\ Closed' = Closed /\ peer[c] \in Nodes
    BY <1>13, <1>0 DEF WatchReap, Used, Closed, TypeOK, ConnInv
  <2>. QED  BY <1>13, <1>0, <2>1, Unregisters DEF WatchReap
<1>14. ASSUME NEW c \in Conns, WatchClose(c) PROVE Goal
  <2>1. Used' = Used /\ Closed' = Closed \cup {c}
    BY <1>14, <1>0 DEF WatchClose, CloseConn, Used, Closed, TypeOK
  <2>2. \A m \in Nodes : tunnels[m] # c
    BY <1>14, <1>0, NoneAssumption DEF WatchClose, RegistryInv
  <2>. QED  BY <1>14, <2>1, <2>2, TearsDown DEF WatchClose
<1>15. ASSUME NEW r \in Refreshers,
              \/ RevPoll(r) \/ Fetch(r) \/ FetchFails(r) \/ Replace(r)
              \/ ReadEntries(r) \/ ReconcileDone(r)
              \/ \E n \in Nodes : RangeKeeps(r, n) \/ RangeFinds(r, n)
       PROVE  Goal
  BY <1>15, Stutters
     DEF RevPoll, Fetch, FetchFails, Replace, ReadEntries, ReconcileDone,
         RangeKeeps, RangeFinds, connVars, Used, Closed
<1>16. ASSUME NEW r \in Refreshers, DropTunnel(r) PROVE Goal
  <2>1. ref[r].node \in Nodes
    BY <1>16, <1>0 DEF DropTunnel, DropInv
  <2>. QED  BY <1>16, <1>0, <2>1, Unregisters
            DEF DropTunnel, connVars, Used, Closed
<1>17. ASSUME NEW r \in Refreshers, DropClose(r) PROVE Goal
  <2>. DEFINE c == ref[r].conn
  <2>1. c \in Conns
    BY <1>17, <1>0 DEF DropClose, DropInv
  <2>2. Used' = Used /\ Closed' = Closed \cup {c}
    BY <1>17, <1>0, <2>1 DEF DropClose, Used, Closed, TypeOK
  <2>3. \A m \in Nodes : tunnels[m] # c
    BY <1>17, <1>0, <2>1, NoneAssumption DEF DropClose, DropInv, RegistryInv
  <2>. QED  BY <1>17, <2>1, <2>2, <2>3, TearsDown DEF DropClose
<1>18. CASE UNCHANGED vars
  BY <1>18, Stutters DEF vars, Used, Closed
<1>. QED
  BY <1>1, <1>2, <1>3, <1>4, <1>5, <1>6, <1>7, <1>8, <1>9, <1>10,
     <1>11, <1>12, <1>13, <1>14, <1>15, <1>16, <1>17, <1>18
     DEF Next, Handle, Inject, WatchTunnel, Reconcile, RefreshAndReconcile

\* The broker implements the abstract registry, for any number of nodes,
\* connections, callers and refreshers.
THEOREM RegistryImplemented == Spec => ImplementsRegistry
<1>1. Spec => []IndInv
  BY InitInv, NextInv, PTL DEF Spec
<1>2. IndInv /\ [Next]_vars => [Abstract!Next]_(Abstract!vars)
  BY NextRefines
<1>. QED
  BY <1>1, <1>2, InitRefines, PTL DEF Spec, ImplementsRegistry, Abstract!Spec
=============================================================================
