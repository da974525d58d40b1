--------------------------- MODULE CallerPerimeter ---------------------------
(***************************************************************************)
(* The life of an authenticated call: the handlers of caller.go and        *)
(* desktopHandler, from the decoded body to the audit event, with the      *)
(* resolver of admin.go and the reading of captured output.                *)
(*                                                                         *)
(* Each step that leaves the process (the tower's authorization, the       *)
(* node's answer) or reads shared state (the registry, the allow-list, the *)
(* capture store) is an action.  What the tower decides may change between *)
(* any two of its answers, so every answer is a free choice.  A request    *)
(* that fails authentication leaves no trace and is left out.              *)
(***************************************************************************)
EXTENDS Naturals, FiniteSets

CONSTANTS
    Callers,  \* (tenant, principal, agent) of a valid token
    Stable,   \* the ones whose token names all three
    Requests, \* each is used once
    Nodes,
    Refs,     \* what callers write to name a node
    ById,     \* Refs -> the nodes whose SVID or node id it is
    Named,    \* Refs -> the nodes whose bound name it is
    Alike,    \* Refs -> the nodes whose name or description contains it
    InSvid,   \* Refs -> the nodes whose SVID contains it
    None

ASSUME CallersAssumption == Stable \subseteq Callers
ASSUME NodesAssumption == IsFiniteSet(Nodes) /\ None \notin Nodes \cup Requests
ASSUME RefsAssumption ==
    /\ {ById, Named, Alike, InSvid} \subseteq [Refs -> SUBSET Nodes]
    /\ \A r \in Refs : /\ Cardinality(ById[r]) <= 1
                       /\ Named[r] \subseteq Alike[r]
                       /\ ById[r] \subseteq InSvid[r]

VARIABLES
    live,     \* nodes with a registered tunnel
    known,    \* nodes on the allow-list: the ones with a name
    captures, \* requests whose output the capture store holds
    req,      \* local state of every handler
    started,  \* requests with a "start" event
    log,      \* terminal event of each request
    wire      \* external: what became of the request at the node

vars == <<live, known, captures, req, started, log, wire>>

\* run: verbHandler; file: fileVerbHandler; output: outputReadHandler.
Kinds == {"run", "file", "knowledge", "output", "desktop"}

Fresh == [pc |-> "idle", kind |-> "run", caller |-> None, ref |-> None,
          of |-> None, answer |-> "none", allowed |-> FALSE, node |-> None]

Statuses == {"ok", "bad-request", "denied", "ambiguous", "no-tunnel",
             "not-found", "unsupported", "error:authz-unavailable",
             "error:inject", "error:capture", "error:control", "error"}

TypeOK ==
    /\ live \subseteq Nodes /\ known \subseteq Nodes
    /\ captures \subseteq Requests /\ started \subseteq Requests
    /\ req \in [Requests ->
         [pc : {"idle", "received", "get", "authorize", "resolve", "resolved",
                "inject", "sent", "answered", "done"},
          kind : Kinds, caller : Callers \cup {None}, ref : Refs \cup {None},
          of : Requests \cup {None}, answer : {"none", "yes", "no"},
          allowed : BOOLEAN, node : Nodes \cup {None}]]
    /\ log \in [Requests ->
         [status : Statuses, allowed : BOOLEAN, node : Nodes \cup {None}]
            \cup {None}]
    /\ wire \in [Requests -> {"none", "sent", "acted", "refused"}]

Init ==
    /\ live = {} /\ known \in SUBSET Nodes
    /\ captures = {} /\ started = {}
    /\ req = [q \in Requests |-> Fresh]
    /\ log = [q \in Requests |-> None]
    /\ wire = [q \in Requests |-> "none"]

-----------------------------------------------------------------------------
(* The rest of the broker, abstracted: TunnelBroker and CaptureStore.      *)

Tunnel(n) ==
    /\ live' = IF n \in live THEN live \ {n} ELSE live \cup {n}
    /\ UNCHANGED <<known, captures, req, started, log, wire>>

Refresh ==
    /\ known' \in SUBSET Nodes \ {known}
    /\ UNCHANGED <<live, captures, req, started, log, wire>>

Evict(q) ==
    /\ q \in captures
    /\ captures' = captures \ {q}
    /\ UNCHANGED <<live, known, req, started, log, wire>>

-----------------------------------------------------------------------------
(* resolveAmong: the hosts of the first tier that has any.                 *)

\* A host that is not on the list has an SVID and no name.
Matches(r, H) ==
    LET ids == ById[r] \cap H
        names == Named[r] \cap H \cap known
    IN  IF ids # {} THEN ids
        ELSE IF names # {} THEN names
        ELSE (Alike[r] \cap H \cap known) \cup (InSvid[r] \cap H)

\* LiveHosts for what is injected, AllHosts for what only the tower answers.
Hosts(kind) == IF kind = "knowledge" THEN known ELSE live

-----------------------------------------------------------------------------
(* The handlers.                                                           *)

\* The deferred record of every handler: the event as it is at the return.
EndsWith(q, status, allowed, node) ==
    /\ log' = [log EXCEPT ![q] =
                 [status |-> status, allowed |-> allowed, node |-> node]]
    /\ req' = [req EXCEPT ![q].pc = "done"]

Ends(q, status) == EndsWith(q, status, req[q].allowed, req[q].node)

\* A valid token.
Arrive(q, c, kind, r, of) ==
    /\ req[q].pc = "idle"
    /\ (kind = "output") = (of # None) /\ of # q
    /\ req' = [req EXCEPT ![q] =
                 [Fresh EXCEPT !.pc = "received", !.kind = kind, !.caller = c,
                               !.ref = r, !.of = of]]
    /\ UNCHANGED <<live, known, captures, started, log, wire>>

\* A body that does not decode, names no node or capture, lacks its content
\* or has a field out of range.
BadRequest(q) ==
    /\ req[q].pc = "received"
    /\ Ends(q, IF req[q].kind = "desktop" THEN "error" ELSE "bad-request")
    /\ UNCHANGED <<live, known, captures, started, wire>>

\* A read dereferences the capture before it is authorized.
Accepted(q) ==
    /\ req[q].pc = "received"
    /\ req' = [req EXCEPT ![q].pc =
                 IF req[q].kind = "output" THEN "get" ELSE "authorize"]
    /\ UNCHANGED <<live, known, captures, started, log, wire>>

\* Faulty: the owner is not compared.
GetAny(q) ==
    LET of == req[q].of IN
    /\ req[q].pc = "get"
    /\ IF req[q].caller \notin Stable THEN Ends(q, "denied")
       ELSE IF of \notin captures THEN Ends(q, "not-found")
       ELSE /\ req' = [req EXCEPT ![q].pc = "authorize",
                                  ![q].node = req[of].node]
            /\ UNCHANGED log
    /\ UNCHANGED <<live, known, captures, started, wire>>

\* CaptureStore.Get, for a caller with a complete identity.
Get(q) ==
    LET of == req[q].of IN
    /\ req[q].pc = "get"
    /\ IF req[q].caller \notin Stable THEN Ends(q, "denied")
       ELSE IF of \notin captures \/ req[of].caller # req[q].caller
       THEN Ends(q, "not-found")
       ELSE /\ req' = [req EXCEPT ![q].pc = "authorize",
                                  ![q].node = req[of].node]
            /\ UNCHANGED log
    /\ UNCHANGED <<live, known, captures, started, wire>>

AuthzUnavailable(q) ==
    /\ req[q].pc = "authorize"
    /\ Ends(q, CASE req[q].kind = "knowledge" -> "error:control"
                 [] req[q].kind = "desktop" -> "error"
                 [] OTHER -> "error:authz-unavailable")
    /\ UNCHANGED <<live, known, captures, started, wire>>

\* run and file resolve before they look at the answer; the others end on a
\* denial, and desktop without a complete identity.  knowledge does not put
\* the answer into its event.
Authorize(q, allowed) ==
    LET kind == req[q].kind IN
    /\ req[q].pc = "authorize"
    /\ IF ~allowed /\ kind \in {"knowledge", "output"}
       THEN Ends(q, "denied")
       ELSE IF kind = "desktop" /\ (~allowed \/ req[q].caller \notin Stable)
       THEN EndsWith(q, "error", allowed, None)
       ELSE /\ req' = [req EXCEPT
                 ![q].pc = IF kind = "output" THEN "resolved" ELSE "resolve",
                 ![q].answer = IF allowed THEN "yes" ELSE "no",
                 ![q].allowed = allowed /\ kind # "knowledge"]
            /\ UNCHANGED log
    /\ UNCHANGED <<live, known, captures, started, wire>>

\* Faulty: the answer is recorded and not enforced.
ResolveUnchecked(q) ==
    LET M == Matches(req[q].ref, Hosts(req[q].kind)) IN
    /\ req[q].pc = "resolve"
    /\ IF Cardinality(M) # 1
       THEN Ends(q, IF M = {} THEN "no-tunnel" ELSE "ambiguous")
       ELSE /\ \E n \in M : req' = [req EXCEPT ![q].pc = "resolved",
                                               ![q].node = n]
            /\ UNCHANGED log
    /\ UNCHANGED <<live, known, captures, started, wire>>

Resolve(q) ==
    LET M == Matches(req[q].ref, Hosts(req[q].kind))
        node == IF Cardinality(M) = 1 THEN CHOOSE n \in M : TRUE ELSE None
    IN
    /\ req[q].pc = "resolve"
    /\ IF req[q].answer = "no"
       THEN EndsWith(q, "denied", FALSE, node)
       ELSE IF node = None
       THEN Ends(q, CASE req[q].kind = "desktop" -> "error"
                      [] M = {} -> "no-tunnel"
                      [] OTHER -> "ambiguous")
       ELSE /\ req' = [req EXCEPT ![q].pc = "resolved", ![q].node = node]
            /\ UNCHANGED log
    /\ UNCHANGED <<live, known, captures, started, wire>>

\* A node whose recorded version lacks what the call needs.  (A desktop
\* status is answered all the same, from what is recorded.)
Unsupported(q) ==
    /\ req[q].pc = "resolved" /\ req[q].kind \in {"file", "desktop"}
    /\ \E status \in IF req[q].kind = "file" THEN {"bad-request"}
                     ELSE {"ok", "error"} : Ends(q, status)
    /\ UNCHANGED <<live, known, captures, started, wire>>

\* recordStart
StartCall(q) ==
    /\ req[q].pc = "resolved" /\ req[q].kind \in {"run", "file", "desktop"}
    /\ started' = started \cup {q}
    /\ req' = [req EXCEPT ![q].pc = "inject"]
    /\ UNCHANGED <<live, known, captures, log, wire>>

\* A desktop call that execute refuses, or answers from its cached frames.
AnsweredHere(q) ==
    /\ req[q].pc = "inject" /\ req[q].kind = "desktop"
    /\ \E status \in {"ok", "error"} : Ends(q, status)
    /\ UNCHANGED <<live, known, captures, started, wire>>

\* injectResponseContext looks the tunnel up again.  The dispatches of one
\* desktop call count as one here; DesktopGate has each of them.
Inject(q) ==
    /\ req[q].pc = "inject"
    /\ IF req[q].node \in live
       THEN /\ req' = [req EXCEPT ![q].pc = "sent"]
            /\ wire' = [wire EXCEPT ![q] = "sent"]
            /\ UNCHANGED log
       ELSE /\ Ends(q, IF req[q].kind = "desktop" THEN "error"
                       ELSE "error:inject")
            /\ UNCHANGED wire
    /\ UNCHANGED <<live, known, captures, started>>

\* Faulty: a broken round trip is taken for a missing node.
InjectFailsNotFound(q) ==
    /\ req[q].pc = "sent"
    /\ Ends(q, "no-tunnel")
    /\ UNCHANGED <<live, known, captures, started, wire>>

\* The round trip fails; the node may or may not have acted, or may yet.
InjectFails(q) ==
    /\ req[q].pc = "sent"
    /\ Ends(q, IF req[q].kind = "desktop" THEN "error" ELSE "error:inject")
    /\ UNCHANGED <<live, known, captures, started, wire>>

\* Any HTTP status of the node is an answer.  desktop reports a refusal.
Answered(q) ==
    /\ req[q].pc = "sent" /\ wire[q] \in {"acted", "refused"}
    /\ IF req[q].kind = "run"
       THEN /\ req' = [req EXCEPT ![q].pc = "answered"]
            /\ UNCHANGED log
       ELSE \E status \in IF req[q].kind = "desktop" THEN {"ok", "error"}
                          ELSE {"ok"} \cup {s \in {"unsupported"} :
                                              wire[q] = "refused"} :
               Ends(q, status)
    /\ UNCHANGED <<live, known, captures, started, wire>>

\* prepareRunResult: short output is returned inline, the rest captured.
Inline(q) ==
    /\ req[q].pc = "answered"
    /\ Ends(q, "ok")
    /\ UNCHANGED <<live, known, captures, started, wire>>

Capture(q) ==
    /\ req[q].pc = "answered" /\ wire[q] = "acted"
    /\ req[q].caller \in Stable
    /\ captures' = captures \cup {q}
    /\ Ends(q, "ok")
    /\ UNCHANGED <<live, known, started, wire>>

\* Over a quota, or a caller that could never read it back.
CaptureFails(q) ==
    /\ req[q].pc = "answered" /\ wire[q] = "acted"
    /\ Ends(q, "error:capture")
    /\ UNCHANGED <<live, known, captures, started, wire>>

\* The output in hand was found before the authorization.
ReadOutput(q) ==
    /\ req[q].pc = "resolved" /\ req[q].kind = "output"
    /\ \E status \in {"ok", "bad-request"} : Ends(q, status)
    /\ UNCHANGED <<live, known, captures, started, wire>>

\* The tower authorizes once more, and answers.
AskTower(q) ==
    /\ req[q].pc = "resolved" /\ req[q].kind = "knowledge"
    /\ \E status \in {"ok", "denied", "bad-request", "error:control"} :
          EndsWith(q, status, status = "ok", req[q].node)
    /\ UNCHANGED <<live, known, captures, started, wire>>

-----------------------------------------------------------------------------
(* External: the node.  It may act on a request nobody waits for any more. *)

NodeActs(q) ==
    /\ wire[q] = "sent"
    /\ wire' = [wire EXCEPT ![q] = "acted"]
    /\ UNCHANGED <<live, known, captures, req, started, log>>

NodeRefuses(q) ==
    /\ wire[q] = "sent"
    /\ wire' = [wire EXCEPT ![q] = "refused"]
    /\ UNCHANGED <<live, known, captures, req, started, log>>

-----------------------------------------------------------------------------
Handler(q) ==
    \/ BadRequest(q) \/ Accepted(q) \/ Get(q)
    \/ AuthzUnavailable(q) \/ \E allowed \in BOOLEAN : Authorize(q, allowed)
    \/ Resolve(q) \/ Unsupported(q) \/ StartCall(q)
    \/ AnsweredHere(q) \/ Inject(q) \/ InjectFails(q) \/ Answered(q)
    \/ Inline(q) \/ Capture(q) \/ CaptureFails(q)
    \/ ReadOutput(q) \/ AskTower(q)

Next ==
    \/ \E q \in Requests, c \in Callers, kind \in Kinds, r \in Refs,
          of \in Requests \cup {None} : Arrive(q, c, kind, r, of)
    \/ \E q \in Requests : Handler(q) \/ NodeActs(q) \/ NodeRefuses(q)
    \/ \E n \in Nodes : Tunnel(n)
    \/ Refresh
    \/ \E q \in Requests : Evict(q)

Spec == Init /\ [][Next]_vars

-----------------------------------------------------------------------------
Sent(q) == wire[q] # "none"

\* Nothing reaches a node but for a call that the tower allowed, that has its
\* start event, and whose terminal event, once there is one, names that node
\* and says it was allowed (caller.go:233-281): no path around the perimeter
\* and none around the audit trail.
SentIsAudited ==
    \A q \in Requests : Sent(q) =>
        /\ req[q].answer = "yes" /\ q \in started
        /\ log[q] # None => log[q].allowed /\ log[q].node = req[q].node

\* A status that says the call did not run is never the status of a call the
\* node did run or may yet run (calllog.go:40), "unsupported" means that it
\* refused, and "ok" for a command that it answered.
StatusIsHonest ==
    \A q \in Requests : log[q] # None =>
        /\ log[q].status \in {"bad-request", "error:authz-unavailable",
                              "denied", "ambiguous", "no-tunnel", "not-found"}
              => ~Sent(q)
        /\ log[q].status = "unsupported" => wire[q] = "refused"
        /\ log[q].status = "ok" /\ req[q].kind \in {"run", "file"}
              => wire[q] \in {"acted", "refused"}

\* Captured output is read only by the caller whose command made it, and only
\* after the tower allowed the reader (caller.go:311-314).
OutputToOwner ==
    \A q \in Requests :
        log[q] # None /\ log[q].status = "ok" /\ req[q].kind = "output" =>
            /\ req[q].answer = "yes"
            /\ req[req[q].of].caller = req[q].caller
            /\ wire[req[q].of] = "acted"
=============================================================================
