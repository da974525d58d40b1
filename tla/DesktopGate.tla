----------------------------- MODULE DesktopGate -----------------------------
(***************************************************************************)
(* Who may send input to a node's desktop: the busy gate of                *)
(* DesktopService.execute and the interaction reservations of              *)
(* DesktopService.interact, against a node that keeps a lease of its own   *)
(* and a tunnel that delays, loses and breaks.                             *)
(*                                                                         *)
(* Both maps are keyed by node and no operation spans two, so the module   *)
(* is about one node.  Times are counted down: a Tick takes one unit from  *)
(* every lease, timeout and reservation.  Every check that only ends a     *)
(* request early (authorization withdrawn, frame expired or not            *)
(* actionable, pointer outside the image, grounding failed) is the one     *)
(* action Refuse.  status and frame requests pass by the gate, send no     *)
(* input and change nothing here.                                          *)
(***************************************************************************)
EXTENDS Integers, FiniteSets

CONSTANTS
    Owners,    \* callers: (tenant, principal, agent)
    Requests,  \* handlers of desktop requests, each serving one at a time
    Ids,       \* interaction ids, minted at random in the code
    Leases,    \* the values of lease_ms: 1 s to 60 s
    Slack,     \* what the broker adds to a lease: 15 s
    Think,     \* cap on a reservation after a checkpoint: 65 s
    Receipt,   \* how long a receipt is awaited: 50 s
    Delay,     \* longest a request is under way before the node starts on it
    Exec,      \* longest the node works on a request
    Steps,     \* dispatches of one ordinary request
    MaxEnded,  \* terminal receipts kept: 64
    None

ASSUME TimeAssumption ==
    /\ Leases # {} /\ Leases \subseteq 1..Think
    /\ {Slack, Think, Receipt, Delay, Exec, Steps, MaxEnded}
          \subseteq Nat \ {0}

VARIABLES
    gate,  \* DesktopService.busy[node]: the request that set it
    resv,  \* DesktopService.interactions[node], None once expired
    ended, \* DesktopService.endedInteractions: <<id, owner>> pairs
    req,   \* local state of execute and interact, per request
    net,   \* the request's message and its receipt
    hold,  \* external: the node's own interaction, with its lease
    shortened \* history: interactions reserved anew, for less than was left

vars == <<gate, resv, ended, req, net, hold, shortened>>

\* "continue" stands for observe too, "release" for cancel.
Ops == {"input", "begin", "continue", "release"}
NoMsg == [at |-> "none", op |-> "input", id |-> None, lease |-> 0, age |-> 0,
          cut |-> FALSE, reply |-> "none", left |-> 0]
Fresh == [pc |-> "idle", op |-> "input", owner |-> None, id |-> None,
          lease |-> 0, gone |-> FALSE, left |-> 0, steps |-> 0]

Reservations == [owner : Owners, id : Ids, left : Nat \ {0}]
Interactions == [id : Ids, left : Nat \ {0}]

ReqState ==
    [pc : {"idle", "gated", "ready", "waiting", "cleanup"}, op : Ops,
     owner : Owners \cup {None}, id : Ids \cup {None}, lease : Leases \cup {0},
     gone : BOOLEAN, left : Nat, steps : 0..Steps]

NetState ==
    [at : {"none", "sent", "running", "replied"}, op : Ops,
     id : Ids \cup {None}, lease : Leases \cup {0}, age : Nat, cut : BOOLEAN,
     left : Nat,
     reply : {"none", "thinking", "released", "notSent", "ok", "refused"}]

ASSUME NoneAssumption ==
    None \notin Requests \cup Reservations \cup Interactions

TypeOK ==
    /\ gate \in Requests \cup {None}
    /\ resv \in Reservations \cup {None}
    /\ ended \subseteq Ids \X Owners
    /\ req \in [Requests -> ReqState]
    /\ net \in [Requests -> NetState]
    /\ hold \in Interactions \cup {None}
    /\ shortened \subseteq Ids

Init ==
    /\ gate = None
    /\ resv = None
    /\ ended = {}
    /\ req = [q \in Requests |-> Fresh]
    /\ net = [q \in Requests |-> NoMsg]
    /\ hold = None
    /\ shortened = {}

-----------------------------------------------------------------------------
(* execute and interact, up to the dispatch.                               *)

\* A request that finds the gate taken fails, which changes nothing.  (While
\* an old message of q is under way, q stands for that one.)
Enter(q, o, op, id) ==
    /\ req[q].pc = "idle" /\ net[q].at = "none"
    /\ gate = None
    /\ (op \in {"input", "begin"}) = (id = None)
    /\ gate' = q
    /\ req' = [req EXCEPT ![q] =
                 [Fresh EXCEPT !.pc = "gated", !.op = op, !.owner = o,
                               !.id = id, !.steps = Steps]]
    /\ UNCHANGED <<resv, ended, net, hold, shortened>>

\* Every return of execute runs the deferred delete of busy[node].
Leave(q) ==
    /\ gate' = None
    /\ req' = [req EXCEPT ![q] = Fresh]

\* interact forgets terminal receipts older than 180 s.
ForgetEnded == ended' \in SUBSET ended

\* An interaction is never refused between its reservation and its dispatch;
\* an ordinary request may be, before each of its dispatches.
Refuse(q) ==
    /\ \/ req[q].pc = "gated"
       \/ req[q].pc = "ready" /\ req[q].op = "input"
    /\ Leave(q)
    /\ IF req[q].op = "input" THEN UNCHANGED ended ELSE ForgetEnded
    /\ UNCHANGED <<resv, net, hold, shortened>>

\* Faulty: a live reservation is not looked for.
OrdinaryUnchecked(q) ==
    /\ req[q].pc = "gated" /\ req[q].op = "input"
    /\ req' = [req EXCEPT ![q].pc = "ready"]
    /\ UNCHANGED <<gate, resv, ended, net, hold, shortened>>

\* An ordinary operation goes ahead only with no interaction reserved.
Ordinary(q) ==
    /\ req[q].pc = "gated" /\ req[q].op = "input"
    /\ resv = None
    /\ req' = [req EXCEPT ![q].pc = "ready"]
    /\ UNCHANGED <<gate, resv, ended, net, hold, shortened>>

\* History: a caller who names a shorter lease than before may shorten what is
\* reserved.
Shorten(id, lease) ==
    shortened' = IF resv = None THEN shortened \ {id}
                 ELSE IF lease + Slack < resv.left THEN shortened \cup {id}
                 ELSE shortened

\* Faulty: the time until the node's lease starts is not allowed for.
ReserveLeaseOnly(q, id, lease) ==
    /\ resv' = [owner |-> req[q].owner, id |-> id, left |-> lease]
    /\ req' = [req EXCEPT ![q].pc = "ready", ![q].id = id, ![q].lease = lease]
    /\ Shorten(id, lease)
    /\ UNCHANGED <<gate, net, hold>>

\* "Reserve before dispatch, including when the node receipt is lost."
Reserve(q, id, lease) ==
    /\ resv' = [owner |-> req[q].owner, id |-> id, left |-> lease + Slack]
    /\ req' = [req EXCEPT ![q].pc = "ready", ![q].id = id, ![q].lease = lease]
    /\ Shorten(id, lease)
    /\ UNCHANGED <<gate, net, hold>>

\* newID: nobody has the id yet.
Unused(id) ==
    /\ \A p \in Requests : req[p].id # id /\ net[p].id # id
    /\ \A e \in ended : e[1] # id
    /\ hold # None => hold.id # id

\* Faulty: begin does not look for an active interaction.
BeginOver(q, id, lease) ==
    /\ req[q].pc = "gated" /\ req[q].op = "begin"
    /\ Unused(id)
    /\ ForgetEnded
    /\ Reserve(q, id, lease)

BeginInteraction(q, id, lease) ==
    /\ req[q].pc = "gated" /\ req[q].op = "begin"
    /\ resv = None
    /\ Unused(id)
    /\ ForgetEnded
    /\ Reserve(q, id, lease)

\* An interaction that ended is answered with its terminal receipt.
TerminalAgain(q) ==
    /\ req[q].pc = "gated" /\ req[q].op \in {"continue", "release"}
    /\ ForgetEnded
    /\ <<req[q].id, req[q].owner>> \in ended'
    /\ Leave(q)
    /\ UNCHANGED <<resv, net, hold, shortened>>

\* The lease is the caller's choice, every time.
ResumeInteraction(q, lease) ==
    /\ req[q].pc = "gated" /\ req[q].op \in {"continue", "release"}
    /\ ForgetEnded
    /\ <<req[q].id, req[q].owner>> \notin ended'
    /\ resv # None
    /\ resv.owner = req[q].owner /\ resv.id = req[q].id
    /\ Reserve(q, resv.id, lease)

\* dispatch gives up when the caller is gone already; a reservation stays.
DispatchAborted(q) ==
    /\ req[q].pc = "ready" /\ req[q].gone
    /\ Leave(q)
    /\ UNCHANGED <<resv, ended, net, hold, shortened>>

Send(q, op) ==
    net' = [net EXCEPT ![q] = [NoMsg EXCEPT !.at = "sent", !.op = op,
                                 !.id = req[q].id, !.lease = req[q].lease]]

Dispatch(q) ==
    /\ req[q].pc = "ready" /\ ~req[q].gone
    /\ Send(q, req[q].op)
    /\ req' = [req EXCEPT ![q].pc = "waiting", ![q].left = Receipt]
    /\ UNCHANGED <<gate, resv, ended, hold, shortened>>

\* The caller disconnects, or the 100 s of its request are over.  A receipt
\* is awaited all the same.
CallerGone(q) ==
    /\ req[q].pc \in {"gated", "ready", "waiting"} /\ ~req[q].gone
    /\ req' = [req EXCEPT ![q].gone = TRUE]
    /\ UNCHANGED <<gate, resv, ended, net, hold, shortened>>

-----------------------------------------------------------------------------
(* External: the tunnel and the node, as the broker's code relies on them. *)
(* The node works on one desktop request at a time.                        *)

Busy == \E p \in Requests : net[p].at = "running"

NodeStarts(q) ==
    /\ net[q].at = "sent" /\ ~Busy
    /\ net' = [net EXCEPT ![q].at = "running", ![q].age = 0]
    /\ UNCHANGED <<gate, resv, ended, req, hold, shortened>>

\* Nobody hears a reply on a broken stream, or after the timeout.
Reply(q, reply, left) ==
    net' = [net EXCEPT ![q] =
              IF net[q].cut \/ req[q].pc = "idle"
              THEN [NoMsg EXCEPT !.cut = net[q].cut]
              ELSE [NoMsg EXCEPT !.at = "replied", !.reply = reply,
                                 !.left = left]]

\* The node refuses (it is held, paused, older than the request) or fails.
NodeRefuses(q) ==
    /\ net[q].at = "running"
    /\ Reply(q, "refused", 0)
    /\ UNCHANGED <<gate, resv, ended, req, hold, shortened>>

NodeInput(q) ==
    /\ net[q].at = "running" /\ net[q].op = "input"
    /\ hold = None
    /\ Reply(q, "ok", 0)
    /\ UNCHANGED <<gate, resv, ended, req, hold, shortened>>

\* begin and continue leave the input held and the lease renewed; observe
\* leaves the lease as it is.
NodeHolds(q) ==
    /\ net[q].at = "running"
    /\ \/ /\ net[q].op = "begin" /\ hold = None
          /\ hold' = [id |-> net[q].id, left |-> net[q].lease]
       \/ /\ net[q].op = "continue" /\ hold # None /\ hold.id = net[q].id
          /\ hold' \in {hold, [hold EXCEPT !.left = net[q].lease]}
    /\ Reply(q, "thinking", hold'.left)
    /\ UNCHANGED <<gate, resv, ended, req, shortened>>

\* A begin that sends nothing.
NodeDeclines(q) ==
    /\ net[q].at = "running" /\ net[q].op = "begin"
    /\ Reply(q, "notSent", 0)
    /\ UNCHANGED <<gate, resv, ended, req, hold, shortened>>

\* The interaction is over, by request or because a human interrupted it.
NodeReleases(q) ==
    /\ net[q].at = "running" /\ net[q].op # "input"
    /\ hold' = IF hold # None /\ hold.id = net[q].id THEN None ELSE hold
    /\ Reply(q, "released", 0)
    /\ UNCHANGED <<gate, resv, ended, req, shortened>>

\* A message is swallowed by a link that nobody knows to be dead.
MessageLost(q) ==
    /\ net[q].at \in {"sent", "replied"}
    /\ net' = [net EXCEPT ![q] = NoMsg]
    /\ UNCHANGED <<gate, resv, ended, req, hold, shortened>>

\* The tunnel breaks: what had not reached the node never does, what the
\* node works on it finishes.
StreamCut(q) ==
    /\ net[q].at # "none" /\ ~net[q].cut
    /\ net' = [net EXCEPT ![q] =
                 IF net[q].at = "running" THEN [@ EXCEPT !.cut = TRUE]
                 ELSE [NoMsg EXCEPT !.cut = TRUE]]
    /\ UNCHANGED <<gate, resv, ended, req, hold, shortened>>

-----------------------------------------------------------------------------
(* What interact and execute make of a receipt.                            *)

Arrives(q) == req[q].pc = "waiting" /\ net[q].at = "replied" /\ ~net[q].cut
Consumed(q) == net' = [net EXCEPT ![q] = NoMsg]

\* A receipt or final frame that does not validate is an unknown outcome; a
\* refused interaction is reported as it is.  The reservation stays.
ReceiptUnusable(q) ==
    /\ Arrives(q)
    /\ Consumed(q)
    /\ Leave(q)
    /\ UNCHANGED <<resv, ended, hold, shortened>>

\* A task or a login goes on to its next step.
NextStep(q) ==
    /\ Arrives(q) /\ net[q].reply = "ok" /\ req[q].steps > 1
    /\ Consumed(q)
    /\ req' = [req EXCEPT ![q].pc = "ready", ![q].steps = @ - 1, ![q].left = 0]
    /\ UNCHANGED <<gate, resv, ended, hold, shortened>>

Min2(a, b) == IF a < b THEN a ELSE b

\* The node holds the input: the reservation follows its lease, unless the
\* receipt names no time that can be parsed.
Checkpoint(q) ==
    /\ Arrives(q) /\ net[q].reply = "thinking" /\ ~req[q].gone
    /\ resv' \in {resv, IF net[q].left = 0 THEN None
                        ELSE [owner |-> req[q].owner, id |-> req[q].id,
                              left |-> Min2(net[q].left, Think)]}
    /\ Consumed(q)
    /\ Leave(q)
    /\ UNCHANGED <<ended, hold, shortened>>

\* A failed interaction's receipt is kept; a full table loses any other one.
Remember(e) ==
    IF Cardinality(ended) >= MaxEnded
    THEN \E d \in ended : ended' = (ended \ {d}) \cup {e}
    ELSE ended' = ended \cup {e}

\* Faulty: the reservation stays.
InteractionEndedKeeps(q) ==
    /\ Arrives(q) /\ net[q].reply \in {"released", "notSent"}
    /\ \/ UNCHANGED ended
       \/ net[q].reply = "released" /\ Remember(<<req[q].id, req[q].owner>>)
    /\ Consumed(q)
    /\ Leave(q)
    /\ UNCHANGED <<resv, hold, shortened>>

\* Released, or never sent: the reservation goes.
InteractionEnded(q) ==
    /\ Arrives(q) /\ net[q].reply \in {"released", "notSent"}
    /\ resv' = None
    /\ \/ UNCHANGED ended
       \/ net[q].reply = "released" /\ Remember(<<req[q].id, req[q].owner>>)
    /\ Consumed(q)
    /\ Leave(q)
    /\ UNCHANGED <<hold, shortened>>

\* The caller is gone, or an intermediate frame is invalid: cancel, still
\* under the gate.  The 15 s allowed for it are not: backend strips them
\* with the caller's cancellation, and waits as long as for any receipt.
CancelInteraction(q) ==
    /\ Arrives(q) /\ req[q].op # "input"
    /\ Send(q, "release")
    /\ req' = [req EXCEPT ![q].pc = "cleanup", ![q].left = Receipt]
    /\ UNCHANGED <<gate, resv, ended, hold, shortened>>

\* The cancellation's receipt frees the reservation only if it says released.
CancelConfirmed(q) ==
    /\ req[q].pc = "cleanup" /\ net[q].at = "replied"
    /\ resv' = IF net[q].reply = "released" THEN None ELSE resv
    /\ Consumed(q)
    /\ Leave(q)
    /\ UNCHANGED <<ended, hold, shortened>>

\* Faulty: the gate opens as soon as the caller is gone.
NoReceiptOrCaller(q) ==
    /\ req[q].pc \in {"waiting", "cleanup"}
    /\ net[q].cut \/ req[q].left = 0 \/ req[q].gone
    /\ Leave(q)
    /\ UNCHANGED <<resv, ended, net, hold, shortened>>

\* Faulty: a receipt is awaited without a limit.
NoReceiptUnlimited(q) ==
    /\ req[q].pc \in {"waiting", "cleanup"}
    /\ net[q].cut
    /\ Leave(q)
    /\ UNCHANGED <<resv, ended, net, hold, shortened>>

\* The round trip fails, or no receipt comes in time: the request ends and
\* the gate opens.  What was sent may still be at work on the node.
NoReceipt(q) ==
    /\ req[q].pc \in {"waiting", "cleanup"}
    /\ net[q].cut \/ req[q].left = 0
    /\ Leave(q)
    /\ UNCHANGED <<resv, ended, net, hold, shortened>>

-----------------------------------------------------------------------------
Less(n) == IF n > 0 THEN n - 1 ELSE 0

\* One unit of time.  Requests reach the node within Delay or never, the
\* node answers within Exec, and nothing waits between a reservation and its
\* dispatch.
Tick ==
    /\ \A q \in Requests :
          /\ net[q].at = "sent" => net[q].age < Delay
          /\ net[q].at = "running" => net[q].age < Exec
          /\ req[q].pc = "ready" => req[q].op = "input"
    /\ resv' = IF resv = None \/ resv.left = 1 THEN None
               ELSE [resv EXCEPT !.left = @ - 1]
    /\ hold' = IF hold = None \/ hold.left = 1 THEN None
               ELSE [hold EXCEPT !.left = @ - 1]
    /\ req' = [q \in Requests |-> [req[q] EXCEPT !.left = Less(@)]]
    /\ net' = [q \in Requests |->
                 [net[q] EXCEPT !.left = Less(@),
                    !.age = IF net[q].at \in {"sent", "running"} THEN @ + 1
                            ELSE 0]]
    /\ UNCHANGED <<gate, ended, shortened>>

Interact(q) ==
    \/ \E id \in Ids, lease \in Leases : BeginInteraction(q, id, lease)
    \/ \E lease \in Leases : ResumeInteraction(q, lease)
    \/ TerminalAgain(q) \/ Checkpoint(q) \/ InteractionEnded(q)
    \/ CancelInteraction(q) \/ CancelConfirmed(q)

Execute(q) ==
    \/ Refuse(q) \/ Ordinary(q) \/ Interact(q)
    \/ DispatchAborted(q) \/ Dispatch(q)
    \/ ReceiptUnusable(q) \/ NextStep(q) \/ NoReceipt(q)

Node(q) ==
    \/ NodeStarts(q) \/ NodeRefuses(q) \/ NodeInput(q) \/ NodeHolds(q)
    \/ NodeDeclines(q) \/ NodeReleases(q)

Next ==
    \/ \E q \in Requests, o \in Owners, op \in Ops, id \in Ids \cup {None} :
          Enter(q, o, op, id)
    \/ \E q \in Requests : Execute(q) \/ Node(q)
    \/ \E q \in Requests : CallerGone(q) \/ MessageLost(q) \/ StreamCut(q)
    \/ Tick

Spec == Init /\ [][Next]_vars

\* Handlers run, timers fire, time passes; nothing is asked of the caller or
\* of the tunnel, and of the node only what Tick bounds.
FairSpec ==
    /\ Spec
    /\ WF_vars(Tick)
    /\ \A q \in Requests : WF_vars(Execute(q)) /\ WF_vars(Node(q))

-----------------------------------------------------------------------------
AtNode(q) == net[q].at \in {"sent", "running"}

\* The gate is held for a request for as long as it may act on the node, its
\* caller gone or not, unless the tunnel broke; so no two requests are at the
\* desktop together (desktop.go:133-135, 621-627).
GateHeldForReceipt ==
    \A q \in Requests : AtNode(q) /\ ~net[q].cut => gate = q

\* While the node holds an interaction the broker has it reserved, and for no
\* less time: lost receipts, broken tunnels, disconnected callers and failed
\* cancellations included (desktop_interaction_service.go:94-99, 105-150).
\* Only a step that itself shortened the reservation, with a shorter lease than
\* the one before, can end that.
HeldIsReserved ==
    hold # None /\ hold.id \notin shortened =>
        /\ resv # None
        /\ resv.id = hold.id
        /\ resv.left >= hold.left

\* No ordinary input is sent to a desktop while a begin or continue is at work
\* there, nor while an interaction holds it, unless that one's own caller
\* shortened its reservation (desktop.go:631-640).
NoInputIntoInteraction ==
    [][\A q \in Requests :
          req[q].pc = "ready" /\ req'[q].pc = "waiting" /\ req[q].op = "input"
          => /\ hold = None \/ hold.id \in shortened
             /\ \A p \in Requests :
                   AtNode(p) => net[p].op \notin {"begin", "continue"}]_vars

\* A reservation changes hands only after it has ended: no step of one owner
\* replaces another's live one (desktop_interaction_service.go:59-78).
ReservationNotTaken ==
    [][resv # None /\ resv' # None => /\ resv'.owner = resv.owner
                                      /\ resv'.id = resv.id]_vars

\* What a terminal receipt says is over is over: neither reserved nor held
\* any more (desktop_interaction_service.go:54-56, 149-163).
EndedIsOver ==
    \A e \in ended : /\ hold # None => hold.id # e[1]
                     /\ resv # None => resv.id # e[1]

\* The gate always opens again (desktop.go:134, 627).
GateOpens == (gate # None) ~> (gate = None)

-----------------------------------------------------------------------------
(* What the times have to satisfy.                                         *)

\* The node answers before its receipt is given up.
Prompt == Delay + Exec < Receipt

\* The slack covers the way to the node and its work: the events of a step take
\* at most 10 s (desktop_interaction.go:98-99), the slack is 15 s.
SlackCovers == Delay + Exec <= Slack
=============================================================================
