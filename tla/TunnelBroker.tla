---------------------------- MODULE TunnelBroker ----------------------------
(***************************************************************************)
(* The data plane of XConnect: broker.go (admission, tunnel registry,      *)
(* reapers, reconcile), the cached allow-list of allowlist.go and the      *)
(* goroutines of main.go that refresh it.                                  *)
(*                                                                         *)
(* The registry is a sync.Map, so only a single Load, Store or Delete is   *)
(* atomic; an action below is one such access, with what the goroutine     *)
(* does alone.  (A Delete of versions goes with the Close that follows it: *)
(* no goroutine reads both.)  The goroutines are                           *)
(*   - one connection handler and one watcher per accepted connection,     *)
(*   - the callers that inject a request into a tunnel,                    *)
(*   - the refreshers that fetch the allow-list and enforce it.            *)
(*                                                                         *)
(* A node stands for its SVID and its key together: renewal keeps both     *)
(* (broker.go:407), and the registry is keyed by one and the allow-list    *)
(* by the other.                                                           *)
(***************************************************************************)
EXTENDS Naturals, FiniteSets

CONSTANTS
    Nodes,      \* node identities
    Foreign,    \* the ones whose SVID names another tenant
    Conns,      \* accepted connections; each is used once
    Callers,    \* goroutines that inject a request into a tunnel
    Refreshers, \* goroutines that refresh the allow-list and reconcile
    Poll,       \* the refresher that first polls the revocation count
    None        \* no node, no connection

ASSUME ForeignAssumption == Foreign \subseteq Nodes
ASSUME NoneAssumption == None \notin Nodes /\ None \notin Conns
ASSUME CallersAssumption == Callers \cap Conns = {}
ASSUME NodesFinite == IsFiniteSet(Nodes)

VARIABLES
    status,   \* the tower's record of each node
    allow,    \* AllowList.bySPKI: the cached snapshot
    tunnels,  \* Broker.tunnels: the connection registered for each node
    versions, \* Broker.versions: nodes with a recorded version
    peer,     \* the node at the other end of each connection
    link,     \* what became of the connection
    handler,  \* program counter of handle, per connection
    watch,    \* program counter of watchTunnel, per connection
    inj,      \* local state of every injectResponseContext call
    ref,      \* local state of every refresher
    last      \* the revocation poll's last count, 0 standing for -1

connVars == <<peer, link, handler, watch>>
vars == <<status, allow, tunnels, versions, peer, link, handler, watch,
          inj, ref, last>>

\* A handler's own health check is an injection too.
Injectors == Callers \cup Conns

Idle == [pc |-> "idle", node |-> None, conn |-> None]

\* todo: what Range has not visited yet; snap: the list fetched, then the
\* allowed map of reconcile; count: the revocation count that started it.
Resting == [pc |-> "idle", snap |-> {}, todo |-> {}, node |-> None,
            conn |-> None, count |-> 0]

Active == {n \in Nodes : status[n] = "active"}

\* revCount: monotonic, because a revoked enrollment stays revoked.  One more
\* than the count is kept, so that 0 can stand for "no baseline yet".
RevCount == 1 + Cardinality({n \in Nodes : status[n] = "revoked"})

-----------------------------------------------------------------------------
(* What the goroutines keep.                                               *)

InjState == [pc : {"idle", "sent", "matched"},
             node : Nodes \cup {None}, conn : Conns \cup {None}]

RefState == [pc : {"idle", "detected", "fetched", "replaced", "range", "drop",
                   "close"},
             snap : SUBSET Nodes, todo : SUBSET Nodes,
             node : Nodes \cup {None}, conn : Conns \cup {None},
             count : Nat]

TypeOK ==
    /\ status \in [Nodes -> {"pending", "active", "revoked"}]
    /\ allow \subseteq Nodes
    /\ tunnels \in [Nodes -> Conns \cup {None}]
    /\ versions \subseteq Nodes
    /\ peer \in [Conns -> Nodes \cup {None}]
    /\ link \in [Conns -> {"none", "up", "dead", "closed", "dropped"}]
    /\ handler \in [Conns -> {"none", "admitted", "stored", "health",
                              "version", "done"}]
    /\ watch \in [Conns -> {"off", "waiting", "pinging", "matched",
                            "unregistered", "done"}]
    /\ inj \in [Injectors -> InjState]
    /\ ref \in [Refreshers -> RefState]
    /\ last \in Nat

\* main.go primes the allow-list once before it starts any goroutine; the
\* fetch may fail and leave the list empty.
Init ==
    /\ status \in [Nodes -> {"pending", "active"}]
    /\ \A n \in Foreign : status[n] = "pending"
    /\ allow \in {{}, Active}
    /\ tunnels = [n \in Nodes |-> None]
    /\ versions = {}
    /\ peer = [c \in Conns |-> None]
    /\ link = [c \in Conns |-> "none"]
    /\ handler = [c \in Conns |-> "none"]
    /\ watch = [c \in Conns |-> "off"]
    /\ inj = [i \in Injectors |-> Idle]
    /\ ref = [r \in Refreshers |-> Resting]
    /\ last = 0

-----------------------------------------------------------------------------
(* The tower and the network.                                              *)

Approve(n) ==
    /\ n \notin Foreign
    /\ status[n] = "pending"
    /\ status' = [status EXCEPT ![n] = "active"]
    /\ UNCHANGED <<allow, tunnels, versions, connVars, inj, ref, last>>

Revoke(n) ==
    /\ status[n] = "active"
    /\ status' = [status EXCEPT ![n] = "revoked"]
    /\ UNCHANGED <<allow, tunnels, versions, connVars, inj, ref, last>>

\* The node crashes, or the network between it and the broker does.
LinkDown(c) ==
    /\ link[c] = "up"
    /\ link' = [link EXCEPT ![c] = "dead"]
    /\ UNCHANGED <<status, allow, tunnels, versions, peer, handler, watch,
                   inj, ref, last>>

-----------------------------------------------------------------------------
(* handle: one goroutine per accepted connection.                          *)

Lookup(n) == n \in allow

\* Faulty: the key is not looked up.
AdmitUnlisted(c, n) ==
    /\ handler[c] = "none"
    /\ n \notin Foreign
    /\ peer' = [peer EXCEPT ![c] = n]
    /\ link' = [link EXCEPT ![c] = "up"]
    /\ handler' = [handler EXCEPT ![c] = "admitted"]
    /\ UNCHANGED <<status, allow, tunnels, versions, watch, inj, ref, last>>

\* The TLS handshake succeeds (n holds a certificate of our CA), the tenant is
\* ours and the key is on the list.
Admit(c, n) ==
    /\ handler[c] = "none"
    /\ n \notin Foreign
    /\ Lookup(n)
    /\ peer' = [peer EXCEPT ![c] = n]
    /\ link' = [link EXCEPT ![c] = "up"]
    /\ handler' = [handler EXCEPT ![c] = "admitted"]
    /\ UNCHANGED <<status, allow, tunnels, versions, watch, inj, ref, last>>

Reject(c, n) ==
    /\ handler[c] = "none"
    /\ n \in Foreign \/ ~Lookup(n)
    /\ peer' = [peer EXCEPT ![c] = n]
    /\ link' = [link EXCEPT ![c] = "closed"]
    /\ handler' = [handler EXCEPT ![c] = "done"]
    /\ UNCHANGED <<status, allow, tunnels, versions, watch, inj, ref, last>>

\* NewClientConn writes the HTTP/2 preface, which fails on a broken link.
ClientConnFails(c) ==
    /\ handler[c] = "admitted"
    /\ link[c] = "dead"
    /\ handler' = [handler EXCEPT ![c] = "done"]
    /\ link' = [link EXCEPT ![c] = "closed"]
    /\ UNCHANGED <<status, allow, tunnels, versions, peer, watch,
                   inj, ref, last>>

\* Faulty: one watcher per node, so none for a connection that replaces one.
StoreWatchesOnce(c) ==
    /\ handler[c] = "admitted"
    /\ tunnels' = [tunnels EXCEPT ![peer[c]] = c]
    /\ handler' = [handler EXCEPT ![c] = "stored"]
    /\ watch' = [watch EXCEPT ![c] =
                    IF tunnels[peer[c]] = None THEN "waiting" ELSE "done"]
    /\ UNCHANGED <<status, allow, versions, peer, link, inj, ref, last>>

\* tunnels.Store replaces an older connection of the node without closing it.
\* The watcher sleeps through its first tick, so it is started here.
Store(c) ==
    /\ handler[c] = "admitted"
    /\ tunnels' = [tunnels EXCEPT ![peer[c]] = c]
    /\ handler' = [handler EXCEPT ![c] = "stored"]
    /\ watch' = [watch EXCEPT ![c] = "waiting"]
    /\ UNCHANGED <<status, allow, versions, peer, link, inj, ref, last>>

\* Inject(svid, "GET", "/health"): it looks the tunnel up again, by SVID.
HealthLoad(c) ==
    LET n == peer[c] IN
    /\ handler[c] = "stored"
    /\ handler' = [handler EXCEPT ![c] =
                      IF tunnels[n] = None THEN "done" ELSE "health"]
    /\ inj' = [inj EXCEPT ![c] =
                  IF tunnels[n] = None THEN Idle
                  ELSE [pc |-> "sent", node |-> n, conn |-> tunnels[n]]]
    /\ UNCHANGED <<status, allow, tunnels, versions, peer, link, watch,
                   ref, last>>

\* Faulty: recorded under the connection instead of the SVID.
RecordVersionByConn(c) ==
    /\ handler[c] = "version"
    /\ versions' \in {versions, versions \cup {c}}
    /\ handler' = [handler EXCEPT ![c] = "done"]
    /\ UNCHANGED <<status, allow, tunnels, peer, link, watch, inj, ref, last>>

\* recordVersion: a body with no version, arch or protocol records nothing.
RecordVersion(c) ==
    /\ handler[c] = "version"
    /\ versions' \in {versions, versions \cup {peer[c]}}
    /\ handler' = [handler EXCEPT ![c] = "done"]
    /\ UNCHANGED <<status, allow, tunnels, peer, link, watch, inj, ref, last>>

-----------------------------------------------------------------------------
(* injectResponseContext, for callers, update and renewal relays and the   *)
(* handlers' health checks.                                                *)

InjectLoad(i, n) ==
    /\ i \in Callers
    /\ inj[i].pc = "idle"
    /\ tunnels[n] # None
    /\ inj' = [inj EXCEPT ![i] =
                  [pc |-> "sent", node |-> n, conn |-> tunnels[n]]]
    /\ UNCHANGED <<status, allow, tunnels, versions, connVars, ref, last>>

\* The call returns; a handler goes on to step p.
InjectReturns(i, p) ==
    /\ inj' = [inj EXCEPT ![i] = Idle]
    /\ handler' = IF i \in Conns THEN [handler EXCEPT ![i] = p] ELSE handler

RoundTripOk(i) ==
    /\ inj[i].pc = "sent"
    /\ link[inj[i].conn] = "up"
    /\ InjectReturns(i, "version")
    /\ UNCHANGED <<status, allow, tunnels, versions, peer, link, watch,
                   ref, last>>

\* The caller's context ended, or the response body could not be read or
\* exceeded the cap: an error, but no reaping.
RoundTripAborted(i) ==
    /\ inj[i].pc = "sent"
    /\ InjectReturns(i, "done")
    /\ UNCHANGED <<status, allow, tunnels, versions, peer, link, watch,
                   ref, last>>

\* RoundTrip fails (the connection is dead, or only this stream was reset);
\* then the second Load, and its comparison with the first one.
RoundTripError(i) ==
    /\ inj[i].pc = "sent"
    /\ IF tunnels[inj[i].node] = inj[i].conn
       THEN /\ inj' = [inj EXCEPT ![i].pc = "matched"]
            /\ UNCHANGED handler
       ELSE InjectReturns(i, "done")
    /\ UNCHANGED <<status, allow, tunnels, versions, peer, link, watch,
                   ref, last>>

\* tunnels.Delete(svid): by key, whatever is registered by now.
InjectReap(i) ==
    /\ inj[i].pc = "matched"
    /\ tunnels' = [tunnels EXCEPT ![inj[i].node] = None]
    /\ InjectReturns(i, "done")
    /\ UNCHANGED <<status, allow, versions, peer, link, watch, ref, last>>

-----------------------------------------------------------------------------
(* watchTunnel: one goroutine per stored connection.                       *)

\* Closing twice is harmless: "dropped" records that reconcile was first.
CloseConn(c) ==
    link' = [link EXCEPT ![c] = IF @ = "dropped" THEN @ ELSE "closed"]

\* A tick: give up when the entry was removed or replaced, else ping.
WatchTick(c) ==
    /\ watch[c] = "waiting"
    /\ watch' = [watch EXCEPT ![c] =
                    IF tunnels[peer[c]] = c THEN "pinging" ELSE "done"]
    /\ UNCHANGED <<status, allow, tunnels, versions, peer, link, handler,
                   inj, ref, last>>

\* Faulty: the ping is taken to succeed whatever became of the link.
PingUnchecked(c) ==
    /\ watch[c] = "pinging"
    /\ watch' = [watch EXCEPT ![c] = "waiting"]
    /\ UNCHANGED <<status, allow, tunnels, versions, peer, link, handler,
                   inj, ref, last>>

PingOk(c) ==
    /\ watch[c] = "pinging"
    /\ link[c] = "up"
    /\ watch' = [watch EXCEPT ![c] = "waiting"]
    /\ UNCHANGED <<status, allow, tunnels, versions, peer, link, handler,
                   inj, ref, last>>

\* Faulty: the connection is closed before its entry is deleted.
PingFailsCloses(c) ==
    /\ watch[c] = "pinging"
    /\ watch' = [watch EXCEPT ![c] =
                    IF tunnels[peer[c]] = c THEN "matched" ELSE "done"]
    /\ CloseConn(c)
    /\ UNCHANGED <<status, allow, tunnels, versions, peer, handler,
                   inj, ref, last>>

\* No answer within ten seconds, for a dead link or a slow one; then the
\* second Load.  If the entry is not ours, only the connection is closed.
PingFails(c) ==
    /\ watch[c] = "pinging"
    /\ IF tunnels[peer[c]] = c
       THEN /\ watch' = [watch EXCEPT ![c] = "matched"]
            /\ UNCHANGED link
       ELSE /\ watch' = [watch EXCEPT ![c] = "done"]
            /\ CloseConn(c)
    /\ UNCHANGED <<status, allow, tunnels, versions, peer, handler,
                   inj, ref, last>>

\* tunnels.Delete(svid): by key, whatever is registered by now.
WatchReap(c) ==
    /\ watch[c] = "matched"
    /\ tunnels' = [tunnels EXCEPT ![peer[c]] = None]
    /\ watch' = [watch EXCEPT ![c] = "unregistered"]
    /\ UNCHANGED <<status, allow, versions, peer, link, handler,
                   inj, ref, last>>

\* versions.Delete and conn.Close.
WatchClose(c) ==
    /\ watch[c] = "unregistered"
    /\ versions' = versions \ {peer[c]}
    /\ CloseConn(c)
    /\ watch' = [watch EXCEPT ![c] = "done"]
    /\ UNCHANGED <<status, allow, tunnels, peer, handler, inj, ref, last>>

-----------------------------------------------------------------------------
(* The refreshers: the heartbeat, the revocation poll and the admin        *)
(* endpoint.  All fetch, Replace and reconcile; a failed heartbeat or      *)
(* admin fetch changes nothing and is a stuttering step.                   *)

\* One tick of the revocation poll; the first one only records a baseline.
RevPoll(r) ==
    /\ r = Poll
    /\ ref[r].pc = "idle"
    /\ IF last > 0 /\ RevCount > last
       THEN /\ ref' = [ref EXCEPT ![r].pc = "detected", ![r].count = RevCount]
            /\ UNCHANGED last
       ELSE /\ last' = RevCount
            /\ UNCHANGED ref
    /\ UNCHANGED <<status, allow, tunnels, versions, connVars, inj>>

\* The tower answers with the nodes active now; the answer is still under way.
Fetch(r) ==
    /\ ref[r].pc = IF r = Poll THEN "detected" ELSE "idle"
    /\ ref' = [ref EXCEPT ![r].pc = "fetched", ![r].snap = Active]
    /\ UNCHANGED <<status, allow, tunnels, versions, connVars, inj, last>>

\* The fast path's fetch fails: the new count is recorded all the same.
FetchFails(r) ==
    /\ ref[r].pc = "detected"
    /\ ref' = [ref EXCEPT ![r] = Resting]
    /\ last' = ref[r].count
    /\ UNCHANGED <<status, allow, tunnels, versions, connVars, inj>>

\* Faulty: an empty snapshot is taken for a failed fetch.
ReplaceNonEmpty(r) ==
    /\ ref[r].pc = "fetched"
    /\ allow' = IF ref[r].snap = {} THEN allow ELSE ref[r].snap
    /\ ref' = [ref EXCEPT ![r].pc = "replaced", ![r].snap = {}]
    /\ UNCHANGED <<status, tunnels, versions, connVars, inj, last>>

\* AllowList.Replace: a validated snapshot always carries our tenant, and no
\* version by which an older one could be told from a newer.
Replace(r) ==
    /\ ref[r].pc = "fetched"
    /\ allow' = ref[r].snap
    /\ ref' = [ref EXCEPT ![r].pc = "replaced", ![r].snap = {}]
    /\ UNCHANGED <<status, tunnels, versions, connVars, inj, last>>

\* reconcile reads the list back before it ranges over the registry.
ReadEntries(r) ==
    /\ ref[r].pc = "replaced"
    /\ ref' = [ref EXCEPT ![r].pc = "range", ![r].snap = allow,
                          ![r].todo = Nodes]
    /\ UNCHANGED <<status, allow, tunnels, versions, connVars, inj, last>>

RangeKeeps(r, n) ==
    /\ ref[r].pc = "range"
    /\ n \in ref[r].todo
    /\ tunnels[n] = None \/ n \in ref[r].snap
    /\ ref' = [ref EXCEPT ![r].todo = @ \ {n}]
    /\ UNCHANGED <<status, allow, tunnels, versions, connVars, inj, last>>

RangeFinds(r, n) ==
    /\ ref[r].pc = "range"
    /\ n \in ref[r].todo
    /\ tunnels[n] # None /\ n \notin ref[r].snap
    /\ ref' = [ref EXCEPT ![r].pc = "drop", ![r].todo = @ \ {n},
                          ![r].node = n, ![r].conn = tunnels[n]]
    /\ UNCHANGED <<status, allow, tunnels, versions, connVars, inj, last>>

DropTunnel(r) ==
    /\ ref[r].pc = "drop"
    /\ tunnels' = [tunnels EXCEPT ![ref[r].node] = None]
    /\ ref' = [ref EXCEPT ![r].pc = "close"]
    /\ UNCHANGED <<status, allow, versions, connVars, inj, last>>

\* versions.Delete, and cc.Close() of the connection Range had found.
DropClose(r) ==
    /\ ref[r].pc = "close"
    /\ versions' = versions \ {ref[r].node}
    /\ link' = [link EXCEPT ![ref[r].conn] = "dropped"]
    /\ ref' = [ref EXCEPT ![r].pc = "range", ![r].node = None,
                          ![r].conn = None]
    /\ UNCHANGED <<status, allow, tunnels, peer, handler, watch, inj, last>>

ReconcileDone(r) ==
    /\ ref[r].pc = "range"
    /\ ref[r].todo = {}
    /\ ref' = [ref EXCEPT ![r] = Resting]
    /\ last' = IF r = Poll THEN ref[r].count ELSE last
    /\ UNCHANGED <<status, allow, tunnels, versions, connVars, inj>>

-----------------------------------------------------------------------------
Handle(c) ==
    \/ \E n \in Nodes : Admit(c, n) \/ Reject(c, n)
    \/ ClientConnFails(c) \/ Store(c)
    \/ HealthLoad(c) \/ RecordVersion(c)

Inject(i) ==
    \/ RoundTripOk(i) \/ RoundTripAborted(i) \/ RoundTripError(i)
    \/ InjectReap(i)

WatchTunnel(c) ==
    \/ WatchTick(c) \/ PingOk(c) \/ PingFails(c)
    \/ WatchReap(c) \/ WatchClose(c)

Reconcile(r) ==
    \/ ReadEntries(r)
    \/ \E n \in Nodes : RangeKeeps(r, n) \/ RangeFinds(r, n)
    \/ DropTunnel(r) \/ DropClose(r) \/ ReconcileDone(r)

RefreshAndReconcile(r) == Fetch(r) \/ Replace(r) \/ Reconcile(r)

Next ==
    \/ \E n \in Nodes : Approve(n) \/ Revoke(n)
    \/ \E c \in Conns : LinkDown(c) \/ Handle(c) \/ WatchTunnel(c)
    \/ \E i \in Callers, n \in Nodes : InjectLoad(i, n)
    \/ \E i \in Injectors : Inject(i)
    \/ \E r \in Refreshers : RevPoll(r) \/ FetchFails(r)
    \/ \E r \in Refreshers : RefreshAndReconcile(r)

Spec == Init /\ [][Next]_vars

\* Go schedules every runnable goroutine; the ticker and the heartbeat's
\* sleep end; the control link does not fail for ever, so a heartbeat fetch
\* eventually succeeds.  Nothing is assumed of nodes, callers or the network.
Fairness ==
    /\ \A c \in Conns : WF_vars(WatchTunnel(c))
    /\ \A r \in Refreshers \ {Poll} : WF_vars(RefreshAndReconcile(r))

FairSpec == Spec /\ Fairness

-----------------------------------------------------------------------------
(* Safety.                                                                 *)

\* Only a node the tower has approved, of our tenant, ever holds a tunnel:
\* the allow-list is the one way in, through every fetch, Replace and race
\* between handle's Lookup and its Store (broker.go:87-108).
OnlyApprovedRegistered ==
    \A n \in Nodes : tunnels[n] # None =>
        /\ n \notin Foreign
        /\ status[n] # "pending"
        /\ peer[tunnels[n]] = n

\* A connection the broker closed is in no registry entry, whichever of
\* watchTunnel and reconcile closed it (broker.go:425-427, 465-469): a caller
\* is never handed a connection that the broker itself tore down.
ClosedNotRegistered ==
    \A n \in Nodes : tunnels[n] # None =>
        link[tunnels[n]] \notin {"none", "closed", "dropped"}

\* While a connection is registered its watcher has not given up, so a dead
\* one is always about to be found (broker.go:456-470).
RegisteredIsWatched ==
    \A n \in Nodes : tunnels[n] # None =>
        watch[tunnels[n]] \in {"waiting", "pinging", "matched"}

\* The registry as others see it: of all that goes on here it keeps the
\* entries, which connections were ever among them and which were closed.
Abstract == INSTANCE Registry WITH
    used <- {c \in Conns : watch[c] # "off"},
    closed <- {c \in Conns : link[c] \in {"closed", "dropped"}}

\* The broker implements the abstract registry: through every race of
\* admission, reapers and reconcile a connection is registered once, for an
\* approved node, and closed only when unregistered (broker.go:108, 254-255,
\* 425-427, 464-469).
ImplementsRegistry == Abstract!Spec

-----------------------------------------------------------------------------
(* Liveness.                                                               *)

\* Revocation kills an established tunnel and keeps the node out for good
\* (broker.go:397-402): through admissions that looked the node up before,
\* through reconnects, through a heartbeat's snapshot that is installed after
\* the poll's newer one, and through a fast-path fetch that is lost
\* (main.go:194).
RevokedStaysDropped ==
    \A n \in Nodes :
        (status[n] = "revoked") ~> [](tunnels[n] = None)

\* A connection that died is eventually not the registered one: liveness
\* never advertises a dead node for ever (broker.go:450-451).
DeadIsUnregistered ==
    \A c \in Conns : (link[c] = "dead") ~>
        (\A n \in Nodes : tunnels[n] # c)

-----------------------------------------------------------------------------
(* What a comment says and the interleavings refute.                       *)

\* watchTunnel "removes the entry when the conn dies" (broker.go:450): the
\* entry a reap removes is the one of the connection it found dead.
ReapsOwnEntry ==
    [][/\ \A c \in Conns :
            watch[c] = "matched" /\ watch'[c] = "unregistered"
                => tunnels[peer[c]] \in {c, None}
       /\ \A i \in Injectors :
            inj[i].pc = "matched" /\ inj'[i].pc = "idle"
                => tunnels[inj[i].node] \in {inj[i].conn, None}]_vars
=============================================================================
