-------------------------- MODULE DesktopGate_proofs --------------------------
(***************************************************************************)
(* Proofs about DesktopGate, for any requests, owners, leases and times.   *)
(* A reservation does not change hands.  Provided that the node answers    *)
(* before its receipt is given up (Prompt), the gate is held for whatever  *)
(* is at the node, and what has ended is over.  Provided too that the      *)
(* slack covers the way to the node and its work (SlackCovers), what the   *)
(* node holds is reserved and no input is sent into it, whatever leases    *)
(* its caller names, until the caller shortens the reservation himself.    *)
(*                                                                         *)
(* The invariant has layers: Core, under no condition, InTime and Over,    *)
(* under Prompt, and IndInv, under both.                                   *)
(***************************************************************************)
EXTENDS DesktopGate, TLAPS

-----------------------------------------------------------------------------
(* Why it holds.                                                           *)

Active(q) == req[q].pc \in {"ready", "waiting", "cleanup"}
Interacts(q) == req[q].op # "input"
Replied(q) == Active(q) /\ net[q].at = "replied"

\* Whoever is past the gate has it.
Exclusive == \A q \in Requests : req[q].pc # "idle" => gate = q

\* A request has one message at a time, which says what it asks.
Asked(q) ==
    /\ net[q].at \in {"sent", "replied"} => ~net[q].cut
    /\ req[q].pc \in {"gated", "ready"} => net[q].at = "none"
    /\ req[q].pc = "cleanup" => Interacts(q)
    /\ AtNode(q) /\ net[q].op # "input" =>
          net[q].id \in Ids /\ net[q].lease \in Leases
    /\ Active(q) /\ AtNode(q) =>
          /\ net[q].id = req[q].id
          /\ net[q].op = IF req[q].pc = "cleanup" THEN "release" ELSE req[q].op
    /\ Replied(q) /\ net[q].reply = "ok" => ~Interacts(q)
    /\ Replied(q) /\ net[q].reply \in {"thinking", "released", "notSent"} =>
          Interacts(q)

\* Past its checks, an ordinary request finds nothing reserved and an
\* interaction nobody else's.
Reserved(q) ==
    /\ req[q].pc # "idle" => req[q].owner \in Owners
    /\ req[q].pc = "gated" /\ req[q].op \in {"continue", "release"} =>
          req[q].id \in Ids
    /\ Active(q) /\ ~Interacts(q) => resv = None
    /\ Active(q) /\ Interacts(q) =>
          /\ req[q].id \in Ids /\ req[q].lease \in Leases
          /\ resv # None => resv.owner = req[q].owner /\ resv.id = req[q].id

Core ==
    /\ TypeOK /\ Exclusive
    /\ \A q \in Requests : Asked(q) /\ Reserved(q)

\* Longest that a request is still at the node, or on its way there.
Remaining(q) ==
    IF net[q].at = "sent" THEN Delay - net[q].age + Exec ELSE Exec - net[q].age

\* A receipt is awaited for longer than that.
Awaited(q) ==
    /\ net[q].at = "sent" => net[q].age <= Delay
    /\ net[q].at = "running" => net[q].age <= Exec
    /\ AtNode(q) /\ ~net[q].cut =>
          req[q].pc \in {"waiting", "cleanup"} /\ req[q].left > Remaining(q)

\* The node works on one request, and when it has answered the one with the
\* gate it has none.
OneAtNode(q) ==
    \A p \in Requests \ {q} :
        /\ ~(net[q].at = "running" /\ net[p].at = "running")
        /\ Replied(q) => ~AtNode(p)

InTime == Core /\ \A q \in Requests : Awaited(q) /\ OneAtNode(q)

\* The id of a begin is new to the node until it has worked on it.
NewAtNode(q) ==
    /\ req[q].op = "begin"
    /\ req[q].pc = "ready" \/ (req[q].pc = "waiting" /\ AtNode(q))
    => /\ hold # None => hold.id # req[q].id
       /\ \A p \in Requests \ {q} : AtNode(p) => net[p].id # req[q].id

\* A terminal receipt tells that the node does not hold the interaction.
EndTells(q) ==
    Replied(q) /\ net[q].reply \in {"released", "notSent"} =>
        (hold # None => hold.id # req[q].id)

\* Nothing that has ended is being asked for.
NotEnded(q) ==
    \A e \in ended :
        /\ Active(q) /\ Interacts(q) => e[1] # req[q].id
        /\ AtNode(q) /\ net[q].op # "input" => e[1] # net[q].id

Ending(q) == NewAtNode(q) /\ EndTells(q) /\ NotEnded(q)

Over == InTime /\ EndedIsOver /\ \A q \in Requests : Ending(q)

\* What the node will hold once it has worked on q is reserved, until the node
\* has done so, and beyond that for the lease unless that was shortened.
Coming(q) == AtNode(q) /\ net[q].op \in {"begin", "continue"}

ComingReserved(q) ==
    /\ Coming(q) =>
          /\ resv # None /\ resv.id = net[q].id /\ resv.left > Remaining(q)
          /\ net[q].id \notin shortened =>
                resv.left >= net[q].lease + Remaining(q)
    /\ req[q].pc = "ready" /\ Interacts(q) =>
          resv # None /\ resv.left = req[q].lease + Slack

\* A checkpoint's receipt tells what the node holds.
HoldTells(q) ==
    Replied(q) /\ net[q].reply = "thinking" /\ hold # None =>
        hold.id = req[q].id /\ hold.left <= net[q].left

LeaseHeld == hold # None => \E l \in Leases : hold.left <= l

Covered(q) == ComingReserved(q) /\ HoldTells(q)

Sound ==
    /\ HeldIsReserved /\ LeaseHeld
    /\ \A q \in Requests : Covered(q)

IndInv == Over /\ Sound

-----------------------------------------------------------------------------
USE TimeAssumption, NoneAssumption

-----------------------------------------------------------------------------
(* What the kinds of step do to a request, its message and the gate.       *)

\* The others' requests and messages stay as they are.
Elsewhere(q) ==
    \A p \in Requests \ {q} : req'[p] = req[p] /\ net'[p] = net[p]

Typed == req' \in [Requests -> ReqState] /\ net' \in [Requests -> NetState]

\* The request is the same, at another place.
SameAsked(q) ==
    /\ req'[q].op = req[q].op /\ req'[q].owner = req[q].owner
    /\ req'[q].id = req[q].id /\ req'[q].lease = req[q].lease

Enters(q) ==
    /\ gate = None /\ gate' = q
    /\ req[q].pc = "idle" /\ net[q].at = "none"
    /\ req'[q].pc = "gated" /\ req'[q].owner \in Owners
    /\ req'[q].op \in {"continue", "release"} => req'[q].id \in Ids
    /\ net'[q] = net[q] /\ Elsewhere(q) /\ Typed
    /\ UNCHANGED <<resv, ended, hold, shortened>>

Leaves(q) ==
    /\ gate' = None
    /\ req[q].pc # "idle" /\ req'[q].pc = "idle"
    /\ \/ net'[q].at = "none"
       \/ /\ net'[q] = net[q]
          /\ net[q].at = "none" \/ net[q].cut \/ req[q].left = 0
    /\ Elsewhere(q) /\ Typed /\ UNCHANGED <<hold, shortened>>

Stays(q) ==
    /\ SameAsked(q) /\ Elsewhere(q) /\ Typed
    /\ UNCHANGED <<gate, resv, ended, shortened>>

Reserves(q, lease) ==
    /\ req[q].pc = "gated" /\ Interacts(q)
    /\ req'[q].pc = "ready" /\ req'[q].lease = lease
    /\ req'[q].op = req[q].op /\ req'[q].owner = req[q].owner
    /\ req'[q].id \in Ids
    /\ resv' = [owner |-> req[q].owner, id |-> req'[q].id,
                left |-> lease + Slack]
    /\ net'[q] = net[q] /\ Elsewhere(q) /\ Typed
    /\ Shorten(req'[q].id, lease) /\ UNCHANGED <<gate, hold>>

Sends(q, op) ==
    /\ net'[q].at = "sent" /\ net'[q].op = op /\ net'[q].id = req[q].id
    /\ net'[q].lease = req[q].lease /\ net'[q].age = 0 /\ ~net'[q].cut
    /\ req'[q].left = Receipt
    /\ Stays(q) /\ UNCHANGED hold

Asks(q) ==
    /\ Sends(q, req[q].op)
    /\ req[q].pc = "ready" /\ req'[q].pc = "waiting"

Cancels(q) ==
    /\ Sends(q, "release") /\ Replied(q) /\ Interacts(q)
    /\ req[q].pc = "waiting" /\ req'[q].pc = "cleanup"

Answers(q, reply) ==
    /\ net[q].at = "running"
    /\ \/ net'[q].at = "none"
       \/ /\ req[q].pc # "idle" /\ ~net[q].cut
          /\ net'[q].at = "replied" /\ ~net'[q].cut
          /\ net'[q].reply = reply
    /\ req'[q] = req[q] /\ Stays(q)

\* The times are positive, and leases are no longer than Think.
LEMMA Times ==
    /\ Slack \in Nat \ {0} /\ Think \in Nat \ {0} /\ Receipt \in Nat \ {0}
    /\ Delay \in Nat \ {0} /\ Exec \in Nat \ {0} /\ Steps \in Nat \ {0}
    /\ \A l \in Leases : l \in Nat \ {0} /\ l <= Think
<1>1. \A n \in {Slack, Think, Receipt, Delay, Exec, Steps} : n \in Nat \ {0}
  OBVIOUS
<1>2. \A l \in Leases : l \in 1..Think
  OBVIOUS
<1> QED
  BY <1>1, <1>2

\* Fresh and NoMsg are states of a request and of a message.
LEMMA InitialTypes == Fresh \in ReqState /\ NoMsg \in NetState
<1>1. 0 \in 0..Steps
  OBVIOUS
<1> QED
  BY <1>1 DEF Fresh, NoMsg, ReqState, NetState, Ops

\* One request and its message change.
LEMMA OneChanges ==
    ASSUME TypeOK, NEW q \in Requests, NEW r \in ReqState, NEW m \in NetState,
           req' = [req EXCEPT ![q] = r], net' = [net EXCEPT ![q] = m]
    PROVE  req'[q] = r /\ net'[q] = m /\ Elsewhere(q) /\ Typed
  BY DEF TypeOK, Elsewhere, Typed

\* The types of one request and its message.
LEMMA OneTyped ==
    ASSUME TypeOK, NEW q \in Requests
    PROVE  /\ req[q] \in ReqState /\ net[q] \in NetState
           /\ req = [req EXCEPT ![q] = req[q]]
           /\ net = [net EXCEPT ![q] = net[q]]
  BY DEF TypeOK

\* Enter.
LEMMA EnterDoes ==
    ASSUME TypeOK, NEW q \in Requests, NEW o \in Owners, NEW op \in Ops,
           NEW id \in Ids \cup {None}, Enter(q, o, op, id)
    PROVE  Enters(q)
<1> DEFINE r == [Fresh EXCEPT !.pc = "gated", !.op = op, !.owner = o,
                              !.id = id, !.steps = Steps]
<1>1. r \in ReqState /\ r.pc = "gated" /\ r.owner = o /\ r.op = op /\ r.id = id
  <2>1. Steps \in 0..Steps
    OBVIOUS
  <2> QED
    BY <2>1 DEF Fresh, ReqState, Ops
<1>2. req' = [req EXCEPT ![q] = r] /\ net' = net
  BY DEF Enter
<1>3. op \in {"continue", "release"} => id \in Ids
  BY DEF Enter
<1> HIDE DEF r
<1>4. req'[q] = r /\ net'[q] = net[q] /\ Elsewhere(q) /\ Typed
  BY <1>1, <1>2, OneChanges, OneTyped
<1> QED
  BY <1>1, <1>3, <1>4 DEF Enter, Enters

\* A deferred delete: the request is Fresh again, its message m.
LEMMA LeaveDoes ==
    ASSUME TypeOK, NEW q \in Requests, Leave(q), req[q].pc # "idle",
           UNCHANGED <<hold, shortened>>,
           \/ Consumed(q)
           \/ /\ UNCHANGED net
              /\ net[q].at = "none" \/ net[q].cut \/ req[q].left = 0
    PROVE  Leaves(q)
<1>1. gate' = None /\ req' = [req EXCEPT ![q] = Fresh]
  BY DEF Leave
<1>2. CASE Consumed(q)
  <2>1. net' = [net EXCEPT ![q] = NoMsg]
    BY <1>2 DEF Consumed
  <2>2. req'[q] = Fresh /\ net'[q] = NoMsg /\ Elsewhere(q) /\ Typed
    BY <1>1, <2>1, InitialTypes, OneChanges
  <2> QED
    BY <1>1, <2>2 DEF Leaves, Fresh, NoMsg
<1>3. CASE /\ UNCHANGED net
           /\ net[q].at = "none" \/ net[q].cut \/ req[q].left = 0
  <2>1. req'[q] = Fresh /\ net'[q] = net[q] /\ Elsewhere(q) /\ Typed
    BY <1>1, <1>3, InitialTypes, OneTyped, OneChanges
  <2> QED
    BY <1>1, <1>3, <2>1 DEF Leaves, Fresh, Consumed
<1> QED
  BY <1>2, <1>3

\* Every way out of execute and interact.
LEMMA EveryLeave ==
    ASSUME Core, NEW q \in Requests,
           \/ Refuse(q) \/ TerminalAgain(q) \/ DispatchAborted(q)
           \/ ReceiptUnusable(q) \/ NoReceipt(q) \/ Checkpoint(q)
           \/ InteractionEnded(q) \/ CancelConfirmed(q)
    PROVE  Leaves(q)
<1>1. TypeOK /\ Asked(q)
  BY DEF Core
<1>2. CASE Refuse(q) \/ TerminalAgain(q) \/ DispatchAborted(q)
  <2>1. /\ Leave(q) /\ UNCHANGED <<net, hold, shortened>>
        /\ req[q].pc \in {"gated", "ready"}
    BY <1>2 DEF Refuse, TerminalAgain, DispatchAborted
  <2> QED
    BY <1>1, <2>1, LeaveDoes DEF Asked
<1>3. CASE ReceiptUnusable(q) \/ Checkpoint(q) \/ InteractionEnded(q)
  <2>1. /\ Leave(q) /\ Consumed(q) /\ UNCHANGED <<hold, shortened>>
        /\ req[q].pc = "waiting"
    BY <1>3 DEF ReceiptUnusable, Checkpoint, InteractionEnded, Arrives
  <2> QED
    BY <1>1, <2>1, LeaveDoes
<1>4. CASE CancelConfirmed(q)
  <2>1. /\ Leave(q) /\ Consumed(q) /\ UNCHANGED <<hold, shortened>>
        /\ req[q].pc = "cleanup"
    BY <1>4 DEF CancelConfirmed
  <2> QED
    BY <1>1, <2>1, LeaveDoes
<1>5. CASE NoReceipt(q)
  <2>1. /\ Leave(q) /\ UNCHANGED <<net, hold, shortened>>
        /\ req[q].pc # "idle" /\ (net[q].cut \/ req[q].left = 0)
    BY <1>5 DEF NoReceipt
  <2> QED
    BY <1>1, <2>1, LeaveDoes
<1> QED
  BY <1>2, <1>3, <1>4, <1>5

\* Every other step of an execute.
Waits(q) ==
    /\ \/ req'[q].pc = req[q].pc
       \/ /\ req[q].pc = "gated" /\ ~Interacts(q) /\ resv = None
          /\ req'[q].pc = "ready"
    /\ req'[q].left = req[q].left /\ net'[q] = net[q]
    /\ Stays(q) /\ UNCHANGED hold

Continues(q) ==
    /\ Replied(q) /\ ~Interacts(q)
    /\ req'[q].pc = "ready" /\ net'[q].at = "none"
    /\ Stays(q) /\ UNCHANGED hold

\* The steps of the tunnel and the node that do not answer.
SameMessage(q) ==
    /\ net'[q].op = net[q].op /\ net'[q].id = net[q].id
    /\ net'[q].lease = net[q].lease

Starts(q) ==
    /\ net[q].at = "sent" /\ ~Busy
    /\ net'[q].at = "running" /\ net'[q].age = 0 /\ net'[q].cut = net[q].cut
    /\ SameMessage(q) /\ req'[q] = req[q] /\ Stays(q) /\ UNCHANGED hold

Breaks(q) ==
    /\ \/ net'[q].at = "none"
       \/ /\ net[q].at = "running" /\ net'[q].at = "running" /\ net'[q].cut
          /\ net'[q].age = net[q].age /\ SameMessage(q)
    /\ req'[q] = req[q] /\ Stays(q) /\ UNCHANGED hold

\* Ordinary and CallerGone.
LEMMA WaitDoes ==
    ASSUME Core, NEW q \in Requests, Ordinary(q) \/ CallerGone(q)
    PROVE  Waits(q)
<1>1. TypeOK /\ req[q] \in ReqState /\ net[q] \in NetState
  BY DEF Core, TypeOK
<1>2. CASE Ordinary(q)
  <2> DEFINE r == [req[q] EXCEPT !.pc = "ready"]
  <2>1. /\ r \in ReqState /\ r.pc = "ready" /\ r.op = req[q].op
        /\ r.owner = req[q].owner /\ r.id = req[q].id
        /\ r.lease = req[q].lease /\ r.left = req[q].left
    BY <1>1 DEF ReqState
  <2>2. req' = [req EXCEPT ![q] = r] /\ net' = net
    BY <1>2 DEF Ordinary
  <2> HIDE DEF r
  <2>3. req'[q] = r /\ net'[q] = net[q] /\ Elsewhere(q) /\ Typed
    BY <1>1, <2>1, <2>2, OneChanges, OneTyped
  <2> QED
    BY <1>2, <2>1, <2>3 DEF Ordinary, Waits, Stays, SameAsked, Interacts
<1>3. CASE CallerGone(q)
  <2> DEFINE r == [req[q] EXCEPT !.gone = TRUE]
  <2>1. /\ r \in ReqState /\ r.pc = req[q].pc /\ r.op = req[q].op
        /\ r.owner = req[q].owner /\ r.id = req[q].id
        /\ r.lease = req[q].lease /\ r.left = req[q].left
    BY <1>1 DEF ReqState
  <2>2. req' = [req EXCEPT ![q] = r] /\ net' = net
    BY <1>3 DEF CallerGone
  <2> HIDE DEF r
  <2>3. req'[q] = r /\ net'[q] = net[q] /\ Elsewhere(q) /\ Typed
    BY <1>1, <2>1, <2>2, OneChanges, OneTyped
  <2> QED
    BY <1>3, <2>1, <2>3 DEF CallerGone, Waits, Stays, SameAsked
<1> QED
  BY <1>2, <1>3

\* NextStep.
LEMMA ContinueDoes ==
    ASSUME Core, NEW q \in Requests, NextStep(q)
    PROVE  Continues(q)
<1>1. TypeOK /\ req[q] \in ReqState /\ net[q] \in NetState /\ Asked(q)
  BY DEF Core, TypeOK
<1> DEFINE r == [req[q] EXCEPT !.pc = "ready", !.steps = req[q].steps - 1,
                               !.left = 0]
<1>2. req[q].steps - 1 \in 0..Steps
  <2>1. req[q].steps \in 0..Steps /\ req[q].steps > 1
    BY <1>1 DEF ReqState, NextStep
  <2> QED
    BY <2>1
<1>3. /\ r \in ReqState /\ r.pc = "ready" /\ r.op = req[q].op
      /\ r.owner = req[q].owner /\ r.id = req[q].id
      /\ r.lease = req[q].lease
  BY <1>1, <1>2 DEF ReqState
<1>4. req' = [req EXCEPT ![q] = r] /\ net' = [net EXCEPT ![q] = NoMsg]
  BY DEF NextStep, Consumed
<1>5. Replied(q) /\ ~Interacts(q)
  BY <1>1 DEF NextStep, Arrives, Replied, Active, Asked
<1> HIDE DEF r
<1>6. req'[q] = r /\ net'[q] = NoMsg /\ Elsewhere(q) /\ Typed
  BY <1>1, <1>3, <1>4, InitialTypes, OneChanges
<1> QED
  BY <1>3, <1>5, <1>6 DEF NextStep, Continues, Stays, SameAsked, NoMsg

\* Dispatch and CancelInteraction.
LEMMA SendDoes ==
    ASSUME Core, NEW q \in Requests, Dispatch(q) \/ CancelInteraction(q)
    PROVE  Asks(q) \/ Cancels(q)
<1>1. TypeOK /\ req[q] \in ReqState /\ net[q] \in NetState
  BY DEF Core, TypeOK
<1>2. ASSUME NEW op \in Ops, NEW pc \in {"waiting", "cleanup"}, Send(q, op),
             req' = [req EXCEPT ![q].pc = pc, ![q].left = Receipt],
             UNCHANGED <<gate, resv, ended, hold, shortened>>
      PROVE  Sends(q, op) /\ req'[q].pc = pc
  <2> DEFINE r == [req[q] EXCEPT !.pc = pc, !.left = Receipt]
             m == [NoMsg EXCEPT !.at = "sent", !.op = op, !.id = req[q].id,
                                !.lease = req[q].lease]
  <2>1. /\ r \in ReqState /\ r.pc = pc /\ r.op = req[q].op
        /\ r.owner = req[q].owner /\ r.id = req[q].id
        /\ r.lease = req[q].lease /\ r.left = Receipt
    BY <1>1 DEF ReqState
  <2>2. /\ m \in NetState /\ m.at = "sent" /\ m.op = op /\ m.id = req[q].id
        /\ m.lease = req[q].lease /\ m.age = 0 /\ ~m.cut
    BY <1>1 DEF NetState, ReqState, NoMsg
  <2>3. req' = [req EXCEPT ![q] = r] /\ net' = [net EXCEPT ![q] = m]
    BY <1>2 DEF Send
  <2> HIDE DEF r, m
  <2>4. req'[q] = r /\ net'[q] = m /\ Elsewhere(q) /\ Typed
    BY <1>1, <2>1, <2>2, <2>3, OneChanges
  <2> QED
    BY <1>2, <2>1, <2>2, <2>4 DEF Sends, Stays, SameAsked
<1>3. CASE Dispatch(q)
  <2>1. req[q].op \in Ops
    BY <1>1 DEF ReqState
  <2> QED
    BY <1>2, <1>3, <2>1 DEF Dispatch, Asks
<1>4. CASE CancelInteraction(q)
  <2>1. Sends(q, "release") /\ req'[q].pc = "cleanup"
    BY <1>2, <1>4 DEF CancelInteraction, Ops
  <2> QED
    BY <1>4, <2>1 DEF CancelInteraction, Arrives, Replied, Active, Interacts,
                      Cancels
<1> QED
  BY <1>3, <1>4

\* Reserve.
LEMMA ReserveDoes ==
    ASSUME Core, NEW q \in Requests, NEW id \in Ids, NEW lease \in Leases,
           Reserve(q, id, lease), req[q].pc = "gated", Interacts(q)
    PROVE  Reserves(q, lease) /\ req'[q].id = id
<1>1. TypeOK /\ req[q] \in ReqState
  BY DEF Core, TypeOK
<1> DEFINE r == [req[q] EXCEPT !.pc = "ready", !.id = id, !.lease = lease]
<1>2. /\ r \in ReqState /\ r.pc = "ready" /\ r.op = req[q].op
      /\ r.owner = req[q].owner /\ r.id = id /\ r.lease = lease
  BY <1>1 DEF ReqState
<1>3. req' = [req EXCEPT ![q] = r] /\ net' = net
  BY DEF Reserve
<1> HIDE DEF r
<1>4. req'[q] = r /\ net'[q] = net[q] /\ Elsewhere(q) /\ Typed
  BY <1>1, <1>2, <1>3, OneChanges, OneTyped
<1> QED
  BY <1>2, <1>4 DEF Reserve, Reserves, Shorten

\* NodeStarts.
LEMMA StartDoes ==
    ASSUME Core, NEW q \in Requests, NodeStarts(q)
    PROVE  Starts(q)
<1>1. TypeOK /\ net[q] \in NetState
  BY DEF Core, TypeOK
<1> DEFINE m == [net[q] EXCEPT !.at = "running", !.age = 0]
<1>2. /\ m \in NetState /\ m.at = "running" /\ m.age = 0
      /\ m.op = net[q].op /\ m.id = net[q].id /\ m.lease = net[q].lease
      /\ m.cut = net[q].cut
  BY <1>1 DEF NetState
<1>3. req' = req /\ net' = [net EXCEPT ![q] = m]
  BY DEF NodeStarts
<1> HIDE DEF m
<1>4. req'[q] = req[q] /\ net'[q] = m /\ Elsewhere(q) /\ Typed
  BY <1>1, <1>2, <1>3, OneChanges, OneTyped
<1> QED
  BY <1>2, <1>4 DEF NodeStarts, Starts, SameMessage, Stays, SameAsked

\* Reply.
LEMMA ReplyDoes ==
    ASSUME Core, NEW q \in Requests, NEW left \in Nat,
           NEW reply \in {"thinking", "released", "notSent", "ok", "refused"},
           net[q].at = "running", Reply(q, reply, left),
           UNCHANGED <<gate, resv, ended, req, shortened>>
    PROVE  /\ Answers(q, reply)
           /\ net'[q].at = "replied" => net'[q].left = left
<1>1. TypeOK /\ net[q] \in NetState
  BY DEF Core, TypeOK
<1> DEFINE n == [NoMsg EXCEPT !.cut = net[q].cut]
           a == [NoMsg EXCEPT !.at = "replied", !.reply = reply, !.left = left]
           m == IF net[q].cut \/ req[q].pc = "idle" THEN n ELSE a
<1>2. n \in NetState /\ n.at = "none"
  BY <1>1, InitialTypes DEF NetState, NoMsg
<1>3. /\ a \in NetState /\ a.at = "replied" /\ ~a.cut /\ a.reply = reply
      /\ a.left = left
  BY <1>1, InitialTypes DEF NetState, NoMsg
<1>4. net' = [net EXCEPT ![q] = m]
  BY DEF Reply
<1> HIDE DEF n, a
<1>5. /\ m \in NetState
      /\ \/ m.at = "none"
         \/ /\ req[q].pc # "idle" /\ ~net[q].cut
            /\ m.at = "replied" /\ ~m.cut /\ m.reply = reply /\ m.left = left
  BY <1>2, <1>3
<1> HIDE DEF m
<1>6. net'[q] = m /\ Elsewhere(q) /\ Typed
  <2>1. m \in NetState /\ req' = [req EXCEPT ![q] = req[q]]
    BY <1>1, <1>5, OneTyped
  <2> QED
    BY <1>1, <1>4, <2>1, OneChanges, OneTyped
<1>7. req'[q] = req[q] /\ Stays(q)
  BY <1>6 DEF Stays, SameAsked
<1> QED
  BY <1>5, <1>6, <1>7 DEF Answers

\* What the node answers, and what it holds then.
Reports(q) ==
    /\ \/ Answers(q, "refused")
       \/ Answers(q, "ok") /\ net[q].op = "input"
       \/ Answers(q, "notSent") /\ net[q].op = "begin"
    /\ UNCHANGED hold

Frees(q) ==
    /\ Answers(q, "released") /\ net[q].op # "input"
    /\ hold' = IF hold # None /\ hold.id = net[q].id THEN None ELSE hold

Holds(q) ==
    /\ Answers(q, "thinking") /\ Coming(q)
    /\ hold' # None /\ hold' \in Interactions /\ hold'.id = net[q].id
    /\ hold' = hold \/ hold'.left = net[q].lease
    /\ net'[q].at = "replied" => net'[q].left = hold'.left

\* The node's answers.
LEMMA AnswerDoes ==
    ASSUME Core, NEW q \in Requests,
           \/ NodeRefuses(q) \/ NodeInput(q) \/ NodeHolds(q)
           \/ NodeDeclines(q) \/ NodeReleases(q)
    PROVE  Reports(q) \/ Frees(q) \/ Holds(q)
<1>1. /\ TypeOK /\ net[q].at = "running" /\ 0 \in Nat
      /\ UNCHANGED <<gate, resv, ended, req, shortened>>
  BY DEF Core, NodeRefuses, NodeInput, NodeHolds, NodeDeclines, NodeReleases
<1>2. CASE NodeRefuses(q)
  BY <1>1, <1>2, ReplyDoes DEF NodeRefuses, Reports
<1>3. CASE NodeInput(q)
  BY <1>1, <1>3, ReplyDoes DEF NodeInput, Reports
<1>4. CASE NodeDeclines(q)
  BY <1>1, <1>4, ReplyDoes DEF NodeDeclines, Reports
<1>5. CASE NodeReleases(q)
  BY <1>1, <1>5, ReplyDoes DEF NodeReleases, Frees
<1>6. CASE NodeHolds(q)
  <2>1. AtNode(q) /\ Coming(q) /\ net[q].id \in Ids /\ net[q].lease \in Leases
    BY <1>1, <1>6 DEF NodeHolds, AtNode, Coming, Core, Asked
  <2>2. net[q].lease \in Nat \ {0}
    BY <2>1, Times
  <2>3. /\ hold' # None /\ hold' \in Interactions /\ hold'.id = net[q].id
        /\ hold' = hold \/ hold'.left = net[q].lease
    <3>1. CASE /\ net[q].op = "begin"
               /\ hold' = [id |-> net[q].id, left |-> net[q].lease]
      BY <2>1, <2>2, <3>1 DEF Interactions
    <3>2. CASE /\ hold # None /\ hold.id = net[q].id
               /\ hold' \in {hold, [hold EXCEPT !.left = net[q].lease]}
      <4>1. hold \in Interactions
        BY <1>1, <3>2 DEF TypeOK
      <4>2. /\ [hold EXCEPT !.left = net[q].lease] \in Interactions
            /\ [hold EXCEPT !.left = net[q].lease].id = hold.id
            /\ [hold EXCEPT !.left = net[q].lease].left = net[q].lease
        BY <2>2, <4>1 DEF Interactions
      <4> QED
        BY <3>2, <4>1, <4>2
    <3> QED
      BY <1>6, <3>1, <3>2 DEF NodeHolds
  <2>4. hold'.left \in Nat
    BY <2>3 DEF Interactions
  <2>5. /\ Answers(q, "thinking")
        /\ net'[q].at = "replied" => net'[q].left = hold'.left
    BY <1>1, <1>6, <2>4, ReplyDoes DEF NodeHolds
  <2> QED
    BY <2>1, <2>3, <2>5 DEF Holds
<1> QED
  BY <1>2, <1>3, <1>4, <1>5, <1>6

\* MessageLost and StreamCut.
LEMMA BreakDoes ==
    ASSUME Core, NEW q \in Requests, MessageLost(q) \/ StreamCut(q)
    PROVE  Breaks(q)
<1>1. /\ TypeOK /\ net[q] \in NetState /\ req' = req
      /\ UNCHANGED <<gate, resv, ended, hold, shortened>>
  BY DEF Core, TypeOK, MessageLost, StreamCut
<1> DEFINE n == [NoMsg EXCEPT !.cut = TRUE]
           c == [net[q] EXCEPT !.cut = TRUE]
<1>2. n \in NetState /\ n.at = "none" /\ NoMsg \in NetState /\ NoMsg.at = "none"
  BY InitialTypes DEF NetState, NoMsg
<1>3. /\ c \in NetState /\ c.at = net[q].at /\ c.cut /\ c.age = net[q].age
      /\ c.op = net[q].op /\ c.id = net[q].id /\ c.lease = net[q].lease
  BY <1>1 DEF NetState
<1>4. \/ net' = [net EXCEPT ![q] = NoMsg]
      \/ net[q].at # "running" /\ net' = [net EXCEPT ![q] = n]
      \/ net[q].at = "running" /\ net' = [net EXCEPT ![q] = c]
  BY <1>1 DEF MessageLost, StreamCut, TypeOK
<1> HIDE DEF n, c
<1>5. PICK m \in NetState :
         /\ net' = [net EXCEPT ![q] = m]
         /\ \/ m.at = "none"
            \/ /\ net[q].at = "running" /\ m.at = "running" /\ m.cut
               /\ m.age = net[q].age /\ m.op = net[q].op /\ m.id = net[q].id
               /\ m.lease = net[q].lease
  BY <1>2, <1>3, <1>4
<1>6. req'[q] = req[q] /\ net'[q] = m /\ Elsewhere(q) /\ Typed
  BY <1>1, <1>5, OneChanges, OneTyped
<1> QED
  BY <1>1, <1>5, <1>6 DEF Breaks, SameMessage, Stays, SameAsked

\* What a unit of time does to every request and message.
Ages(q) ==
    /\ req'[q].pc = req[q].pc /\ SameAsked(q)
    /\ req'[q].left = Less(req[q].left)
    /\ net'[q].at = net[q].at /\ net'[q].cut = net[q].cut
    /\ net'[q].reply = net[q].reply /\ SameMessage(q)
    /\ net'[q].left = Less(net[q].left)
    /\ AtNode(q) => net'[q].age = net[q].age + 1
    /\ net[q].at = "sent" => net[q].age < Delay
    /\ net[q].at = "running" => net[q].age < Exec
    /\ ~(req[q].pc = "ready" /\ Interacts(q))

\* What is left of the reservation and of the node's lease.
Wanes(before, after) ==
    /\ before = None => after = None
    /\ before # None =>
          \/ before.left = 1 /\ after = None
          \/ /\ after # None /\ after.id = before.id
             /\ before.left > 1 /\ after.left = before.left - 1

Ticks ==
    /\ \A q \in Requests : Ages(q)
    /\ Typed /\ UNCHANGED <<gate, ended, shortened>>
    /\ Wanes(resv, resv') /\ Wanes(hold, hold')
    /\ resv' \in Reservations \cup {None} /\ hold' \in Interactions \cup {None}
    /\ resv' # None => resv'.owner = resv.owner

\* Tick.
LEMMA TickDoes ==
    ASSUME Core, Tick
    PROVE  Ticks
<1>1. /\ TypeOK /\ UNCHANGED <<gate, ended, shortened>>
      /\ req \in [Requests -> ReqState] /\ net \in [Requests -> NetState]
  BY DEF Core, TypeOK, Tick
<1>2. \A n \in Nat : Less(n) \in Nat
  BY DEF Less
<1> DEFINE r(q) == [req[q] EXCEPT !.left = Less(req[q].left)]
           age(q) == IF net[q].at \in {"sent", "running"} THEN net[q].age + 1
                     ELSE 0
           m(q) == [net[q] EXCEPT !.left = Less(net[q].left), !.age = age(q)]
<1>3. ASSUME NEW q \in Requests
      PROVE  /\ r(q) \in ReqState /\ r(q).pc = req[q].pc
             /\ r(q).op = req[q].op /\ r(q).owner = req[q].owner
             /\ r(q).id = req[q].id /\ r(q).lease = req[q].lease
             /\ r(q).left = Less(req[q].left)
  <2>1. req[q] \in ReqState
    BY <1>1
  <2>2. Less(req[q].left) \in Nat
    BY <1>2, <2>1 DEF ReqState
  <2> QED
    BY <2>1, <2>2 DEF ReqState
<1>4. ASSUME NEW q \in Requests
      PROVE  /\ m(q) \in NetState /\ m(q).at = net[q].at
             /\ m(q).op = net[q].op /\ m(q).id = net[q].id
             /\ m(q).lease = net[q].lease /\ m(q).cut = net[q].cut
             /\ m(q).reply = net[q].reply
             /\ m(q).left = Less(net[q].left)
             /\ AtNode(q) => m(q).age = net[q].age + 1
  <2>1. net[q] \in NetState
    BY <1>1
  <2>2. Less(net[q].left) \in Nat /\ age(q) \in Nat
    BY <1>2, <2>1 DEF NetState
  <2>3. AtNode(q) => age(q) = net[q].age + 1
    BY DEF AtNode
  <2> HIDE DEF age
  <2> QED
    BY <2>1, <2>2, <2>3 DEF NetState
<1>5. req' = [q \in Requests |-> r(q)] /\ net' = [q \in Requests |-> m(q)]
  BY DEF Tick
<1> HIDE DEF r, m
<1>6. \A q \in Requests : req'[q] = r(q) /\ net'[q] = m(q)
  BY <1>5
<1>7. Typed
  BY <1>3, <1>4, <1>5 DEF Typed
<1>8. ASSUME NEW q \in Requests
      PROVE  Ages(q)
  <2>1. /\ net[q].at = "sent" => net[q].age < Delay
        /\ net[q].at = "running" => net[q].age < Exec
        /\ ~(req[q].pc = "ready" /\ Interacts(q))
    BY DEF Tick, Interacts
  <2> QED
    BY <1>3, <1>4, <1>6, <2>1 DEF Ages, SameAsked, SameMessage
<1>9. /\ Wanes(resv, resv') /\ resv' \in Reservations \cup {None}
      /\ resv' # None => resv'.owner = resv.owner
  <2>1. CASE resv = None \/ resv.left = 1
    BY <2>1 DEF Tick, Wanes
  <2>2. CASE resv # None /\ resv.left # 1
    <3> DEFINE s == [resv EXCEPT !.left = resv.left - 1]
    <3>1. resv \in Reservations /\ resv' = s
      BY <1>1, <2>2 DEF Tick, TypeOK
    <3>2. resv.left \in Nat \ {0}
      BY <3>1 DEF Reservations
    <3>3. resv.left > 1 /\ resv.left - 1 \in Nat \ {0}
      BY <2>2, <3>2
    <3>4. /\ s \in Reservations /\ s.owner = resv.owner /\ s.id = resv.id
          /\ s.left = resv.left - 1
      BY <3>1, <3>3 DEF Reservations
    <3> HIDE DEF s
    <3>5. s # None
      BY <3>4
    <3> QED
      BY <2>2, <3>1, <3>3, <3>4, <3>5 DEF Wanes
  <2> QED
    BY <2>1, <2>2
<1>10. Wanes(hold, hold') /\ hold' \in Interactions \cup {None}
  <2>1. CASE hold = None \/ hold.left = 1
    BY <2>1 DEF Tick, Wanes
  <2>2. CASE hold # None /\ hold.left # 1
    <3> DEFINE s == [hold EXCEPT !.left = hold.left - 1]
    <3>1. hold \in Interactions /\ hold' = s
      BY <1>1, <2>2 DEF Tick, TypeOK
    <3>2. hold.left \in Nat \ {0}
      BY <3>1 DEF Interactions
    <3>3. hold.left > 1 /\ hold.left - 1 \in Nat \ {0}
      BY <2>2, <3>2
    <3>4. s \in Interactions /\ s.id = hold.id /\ s.left = hold.left - 1
      BY <3>1, <3>3 DEF Interactions
    <3> HIDE DEF s
    <3>5. s # None
      BY <3>4
    <3> QED
      BY <2>2, <3>1, <3>3, <3>4, <3>5 DEF Wanes
  <2> QED
    BY <2>1, <2>2
<1> QED
  BY <1>1, <1>7, <1>8, <1>9, <1>10 DEF Ticks

\* The ways out, by what becomes of the reservation.
Withdraws(q) == Leaves(q) /\ UNCHANGED resv /\ ended' \subseteq ended

Follows(q) ==
    /\ Leaves(q) /\ Replied(q) /\ net[q].reply = "thinking" /\ UNCHANGED ended
    /\ resv' = IF net[q].left = 0 THEN None
               ELSE [owner |-> req[q].owner, id |-> req[q].id,
                     left |-> Min2(net[q].left, Think)]

Ends(q) ==
    /\ Leaves(q) /\ Replied(q) /\ net[q].reply \in {"released", "notSent"}
    /\ resv' = None
    /\ ended' \subseteq ended \cup {<<req[q].id, req[q].owner>>}

\* The ways to reserve.
Begins(q, lease) ==
    /\ Reserves(q, lease) /\ req[q].op = "begin" /\ resv = None
    /\ Unused(req'[q].id) /\ ended' \subseteq ended

Resumes(q, lease) ==
    /\ Reserves(q, lease) /\ req[q].op # "begin" /\ resv # None
    /\ resv.owner = req[q].owner /\ resv.id = req[q].id
    /\ req'[q].id = resv.id /\ ended' \subseteq ended

Reserving(q) == \E lease \in Leases : Begins(q, lease) \/ Resumes(q, lease)

Leaving(q) == Withdraws(q) \/ Follows(q) \/ Ends(q)

\* Every way out of execute and interact, with the reservation.
LEMMA LeavingDoes ==
    ASSUME Core, NEW q \in Requests,
           \/ Refuse(q) \/ TerminalAgain(q) \/ DispatchAborted(q)
           \/ ReceiptUnusable(q) \/ NoReceipt(q) \/ Checkpoint(q)
           \/ InteractionEnded(q) \/ CancelConfirmed(q)
    PROVE  Leaving(q)
<1>1. Leaves(q)
  BY EveryLeave
<1>2. CASE \/ Refuse(q) \/ TerminalAgain(q) \/ DispatchAborted(q)
           \/ ReceiptUnusable(q) \/ NoReceipt(q)
  <2>1. UNCHANGED resv /\ ended' \subseteq ended
    BY <1>2 DEF Refuse, TerminalAgain, DispatchAborted, ReceiptUnusable,
                NoReceipt, ForgetEnded
  <2> QED
    BY <1>1, <2>1 DEF Withdraws, Leaving
<1>3. CASE Checkpoint(q)
  <2>1. Replied(q) /\ net[q].reply = "thinking" /\ UNCHANGED ended
    BY <1>3 DEF Checkpoint, Arrives, Replied, Active
  <2> QED
    BY <1>1, <1>3, <2>1 DEF Checkpoint, Withdraws, Follows, Leaving
<1>4. CASE InteractionEnded(q)
  <2>1. /\ Replied(q) /\ net[q].reply \in {"released", "notSent"}
        /\ resv' = None
        /\ ended' \subseteq ended \cup {<<req[q].id, req[q].owner>>}
    BY <1>4 DEF InteractionEnded, Arrives, Replied, Active, Remember
  <2> QED
    BY <1>1, <2>1 DEF Ends, Leaving
<1>5. CASE CancelConfirmed(q)
  <2>1. Replied(q) /\ UNCHANGED ended
    BY <1>5 DEF CancelConfirmed, Replied, Active
  <2>2. CASE net[q].reply = "released"
    BY <1>1, <1>5, <2>1, <2>2 DEF CancelConfirmed, Ends, Leaving
  <2>3. CASE net[q].reply # "released"
    BY <1>1, <1>5, <2>1, <2>3 DEF CancelConfirmed, Withdraws, Leaving
  <2> QED
    BY <2>2, <2>3
<1> QED
  BY <1>2, <1>3, <1>4, <1>5

\* BeginInteraction and ResumeInteraction.
LEMMA ReservingDoes ==
    ASSUME Core, NEW q \in Requests, NEW lease \in Leases,
           \/ \E id \in Ids : BeginInteraction(q, id, lease)
           \/ ResumeInteraction(q, lease)
    PROVE  Reserving(q)
<1>1. CASE \E id \in Ids : BeginInteraction(q, id, lease)
  <2>1. PICK id \in Ids : BeginInteraction(q, id, lease)
    BY <1>1
  <2>2. /\ Reserve(q, id, lease) /\ req[q].pc = "gated" /\ Interacts(q)
        /\ req[q].op = "begin" /\ resv = None /\ ended' \subseteq ended
        /\ Unused(id)
    BY <2>1 DEF BeginInteraction, Interacts, ForgetEnded
  <2>3. Reserves(q, lease) /\ req'[q].id = id
    BY <2>2, ReserveDoes
  <2> QED
    BY <2>2, <2>3 DEF Begins, Reserving
<1>2. CASE ResumeInteraction(q, lease)
  <2>1. /\ Reserve(q, resv.id, lease) /\ req[q].pc = "gated" /\ Interacts(q)
        /\ req[q].op # "begin" /\ ended' \subseteq ended /\ resv # None
        /\ resv.owner = req[q].owner /\ resv.id = req[q].id
    BY <1>2 DEF ResumeInteraction, Interacts, ForgetEnded
  <2>2. resv.id \in Ids
    BY <2>1 DEF Core, TypeOK, Reservations
  <2>3. Reserves(q, lease) /\ req'[q].id = resv.id
    BY <2>1, <2>2, ReserveDoes
  <2> QED
    BY <2>1, <2>3 DEF Resumes, Reserving
<1> QED
  BY <1>1, <1>2

Moves(q) ==
    \/ Enters(q) \/ Leaving(q) \/ Reserving(q)
    \/ Waits(q) \/ Continues(q) \/ Asks(q) \/ Cancels(q)
    \/ Starts(q) \/ Breaks(q) \/ Reports(q) \/ Frees(q) \/ Holds(q)

\* Every step is one of these kinds.
LEMMA StepDoes ==
    ASSUME Core, Next
    PROVE  Ticks \/ \E q \in Requests : Moves(q)
<1>1. CASE \E q \in Requests, o \in Owners, op \in Ops,
               id \in Ids \cup {None} : Enter(q, o, op, id)
  BY <1>1, EnterDoes DEF Core, Moves
<1>2. CASE Tick
  BY <1>2, TickDoes
<1>3. ASSUME NEW q \in Requests,
             \/ Execute(q) \/ Node(q)
             \/ CallerGone(q) \/ MessageLost(q) \/ StreamCut(q)
      PROVE  Moves(q)
  <2>1. CASE Node(q)
    BY <2>1, StartDoes, AnswerDoes DEF Node, Moves
  <2>2. CASE CallerGone(q) \/ MessageLost(q) \/ StreamCut(q)
    BY <2>2, WaitDoes, BreakDoes DEF Moves
  <2>3. CASE Execute(q)
    <3>1. CASE \/ Refuse(q) \/ TerminalAgain(q) \/ DispatchAborted(q)
               \/ ReceiptUnusable(q) \/ NoReceipt(q) \/ Checkpoint(q)
               \/ InteractionEnded(q) \/ CancelConfirmed(q)
      BY <3>1, LeavingDoes DEF Moves
    <3>2. CASE \E lease \in Leases :
                   \/ \E id \in Ids : BeginInteraction(q, id, lease)
                   \/ ResumeInteraction(q, lease)
      BY <3>2, ReservingDoes DEF Moves
    <3>3. CASE \/ Ordinary(q) \/ NextStep(q) \/ Dispatch(q)
               \/ CancelInteraction(q)
      BY <3>3, WaitDoes, ContinueDoes, SendDoes DEF Moves
    <3> QED
      BY <2>3, <3>1, <3>2, <3>3 DEF Execute, Interact
  <2> QED
    BY <1>3, <2>1, <2>2, <2>3
<1> QED
  BY <1>1, <1>2, <1>3 DEF Next

-----------------------------------------------------------------------------
(* Core.                                                                   *)

\* Init establishes it.
LEMMA CoreInit == Init => Core
<1> SUFFICES ASSUME Init PROVE Core
  OBVIOUS
<1>1. \A q \in Requests : req[q] = Fresh /\ net[q] = NoMsg
  BY DEF Init
<1>2. TypeOK
  BY InitialTypes DEF Init, TypeOK
<1>3. Exclusive /\ \A q \in Requests : Asked(q) /\ Reserved(q)
  BY <1>1 DEF Fresh, NoMsg, Exclusive, Asked, Reserved, AtNode, Replied, Active
<1> QED
  BY <1>2, <1>3 DEF Core

\* Every move has the types right.
LEMMA MoveTypes ==
    ASSUME Core, NEW q \in Requests, Moves(q)
    PROVE  TypeOK'
<1>1. TypeOK /\ Reserved(q) /\ Asked(q) /\ net[q] \in NetState
  BY DEF Core, TypeOK
<1>2. Typed
  BY DEF Moves, Enters, Leaving, Withdraws, Follows, Ends, Leaves, Reserving,
         Begins, Resumes, Reserves, Waits, Continues, Asks, Cancels, Sends,
         Starts, Breaks, Reports, Frees, Holds, Answers, Stays
<1>3. gate' \in Requests \cup {None}
  BY <1>1 DEF TypeOK,
         Moves, Enters, Leaving, Withdraws, Follows, Ends, Leaves, Reserving,
         Begins, Resumes, Reserves, Waits, Continues, Asks, Cancels, Sends,
         Starts, Breaks, Reports, Frees, Holds, Answers, Stays
<1>4. hold' \in Interactions \cup {None}
  BY <1>1 DEF TypeOK,
         Moves, Enters, Leaving, Withdraws, Follows, Ends, Leaves, Reserving,
         Begins, Resumes, Reserves, Waits, Continues, Asks, Cancels, Sends,
         Starts, Breaks, Reports, Frees, Holds, Answers, Stays
<1>4a. shortened' \subseteq Ids
  <2>1. CASE Reserving(q)
    <3>1. PICK lease \in Leases : Reserves(q, lease)
      BY <2>1 DEF Reserving, Begins, Resumes
    <3> QED
      BY <1>1, <3>1 DEF Reserves, Shorten, TypeOK
  <2>2. CASE ~Reserving(q)
    BY <1>1, <2>2 DEF TypeOK,
       Moves, Enters, Leaving, Withdraws, Follows, Ends, Leaves, Waits,
       Continues, Asks, Cancels, Sends, Starts, Breaks, Reports, Frees, Holds,
       Answers, Stays
  <2> QED
    BY <2>1, <2>2
<1>5. CASE Reserving(q)
  <2>1. PICK lease \in Leases : Begins(q, lease) \/ Resumes(q, lease)
    BY <1>5 DEF Reserving
  <2>2. Reserves(q, lease) /\ ended' \subseteq ended
    BY <2>1 DEF Begins, Resumes
  <2>3. lease + Slack \in Nat \ {0}
    BY Times
  <2>4. resv' \in Reservations
    BY <1>1, <2>2, <2>3 DEF Reserves, Reserved, Reservations
  <2> QED
    BY <1>1, <1>2, <1>3, <1>4, <1>4a, <2>2, <2>4 DEF TypeOK, Typed
<1>6. CASE Follows(q) \/ Ends(q)
  <2>1. Active(q) /\ Interacts(q) /\ req[q].pc # "idle"
    BY <1>1, <1>6 DEF Follows, Ends, Replied, Asked, Active
  <2>2. req[q].owner \in Owners /\ req[q].id \in Ids
    BY <1>1, <2>1 DEF Reserved
  <2>3. CASE Follows(q)
    <3>1. resv' \in Reservations \cup {None}
      <4>1. net[q].left \in Nat
        BY <1>1 DEF NetState
      <4>2. net[q].left # 0 => Min2(net[q].left, Think) \in Nat \ {0}
        BY <4>1, Times DEF Min2
      <4> QED
        BY <2>2, <2>3, <4>2 DEF Follows, Reservations
    <3> QED
      BY <1>1, <1>2, <1>3, <1>4, <1>4a, <2>3, <3>1 DEF Follows, TypeOK, Typed
  <2>4. CASE Ends(q)
    BY <1>1, <1>2, <1>3, <1>4, <1>4a, <2>2, <2>4 DEF Ends, TypeOK, Typed
  <2> QED
    BY <1>6, <2>3, <2>4
<1>7. CASE ~(Reserving(q) \/ Follows(q) \/ Ends(q))
  <2>1. UNCHANGED resv /\ ended' \subseteq ended
    BY <1>7 DEF Moves, Enters, Leaving, Withdraws, Waits, Continues, Asks,
           Cancels, Sends, Starts, Breaks, Reports, Frees, Holds, Answers, Stays
  <2> QED
    BY <1>1, <1>2, <1>3, <1>4, <1>4a, <2>1 DEF TypeOK, Typed
<1> QED
  BY <1>5, <1>6, <1>7

\* What a move leaves of the others, and of the gate.
LEMMA MoveElsewhere ==
    ASSUME Core, NEW q \in Requests, Moves(q)
    PROVE  /\ Elsewhere(q) /\ Exclusive'
           /\ resv' # resv \/ ~(ended' \subseteq ended) =>
                 \A p \in Requests \ {q} : req[p].pc = "idle"
<1>1. Elsewhere(q)
  BY DEF Moves, Enters, Leaving, Withdraws, Follows, Ends, Leaves, Reserving,
         Begins, Resumes, Reserves, Waits, Continues, Asks, Cancels, Sends,
         Starts, Breaks, Reports, Frees, Holds, Answers, Stays
<1>2. Exclusive /\ None \notin Requests
  BY DEF Core
<1>3. CASE Enters(q)
  BY <1>1, <1>2, <1>3 DEF Enters, Exclusive, Elsewhere
<1>4. CASE Leaving(q)
  <2>1. Leaves(q)
    BY <1>4 DEF Leaving, Withdraws, Follows, Ends
  <2> QED
    BY <1>1, <1>2, <2>1 DEF Leaves, Exclusive, Elsewhere
<1>5. CASE Reserving(q)
  <2>1. PICK lease \in Leases : Reserves(q, lease)
    BY <1>5 DEF Reserving, Begins, Resumes
  <2> QED
    BY <1>1, <1>2, <2>1 DEF Reserves, Exclusive, Elsewhere
<1>6. CASE \/ Waits(q) \/ Continues(q) \/ Asks(q) \/ Cancels(q) \/ Starts(q)
           \/ Breaks(q) \/ Reports(q) \/ Frees(q) \/ Holds(q)
  <2>1. Stays(q)
    BY <1>6 DEF Waits, Continues, Asks, Cancels, Sends, Starts, Breaks, Reports,
                Frees, Holds, Answers
  <2>2. req'[q].pc = req[q].pc \/ req[q].pc # "idle"
    BY <1>6 DEF Waits, Continues, Replied, Active, Asks, Cancels, Starts,
                Breaks, Reports, Frees, Holds, Answers
  <2> QED
    BY <1>1, <1>2, <2>1, <2>2 DEF Stays, Exclusive, Elsewhere
<1> QED
  BY <1>3, <1>4, <1>5, <1>6 DEF Moves

\* A request's message still says what it asks.
LEMMA MoveAsked ==
    ASSUME Core, NEW q \in Requests, Moves(q)
    PROVE  Asked(q)'
<1>1. /\ Asked(q) /\ Reserved(q) /\ TypeOK' /\ req[q] \in ReqState
      /\ req'[q] \in ReqState
  BY MoveTypes DEF Core, TypeOK
<1>2. CASE Enters(q) \/ Reserving(q)
  <2>1. /\ net'[q] = net[q] /\ net[q].at = "none"
        /\ req'[q].pc \in {"gated", "ready"}
    BY <1>1, <1>2 DEF Enters, Reserving, Begins, Resumes, Reserves, Asked
  <2> QED
    BY <2>1 DEF Asked, AtNode, Replied, Active
<1>3. CASE Leaving(q)
  <2>1. req'[q].pc = "idle" /\ (net'[q].at = "none" \/ net'[q] = net[q])
    BY <1>3 DEF Leaving, Withdraws, Follows, Ends, Leaves
  <2> QED
    BY <1>1, <2>1 DEF Asked, AtNode, Replied, Active
<1>4. CASE Waits(q)
  <2>1. /\ SameAsked(q) /\ net'[q] = net[q]
        /\ \/ req'[q].pc = req[q].pc
           \/ req[q].pc = "gated" /\ req'[q].pc = "ready"
    BY <1>4 DEF Waits, Stays
  <2> QED
    BY <1>1, <2>1 DEF Asked, AtNode, Replied, Active, Interacts, SameAsked
<1>5. CASE Continues(q)
  BY <1>5 DEF Continues, Asked, AtNode, Replied, Active
<1>6. CASE Asks(q) \/ Cancels(q)
  <2>1. /\ SameAsked(q) /\ net'[q].at = "sent" /\ ~net'[q].cut
        /\ net'[q].id = req[q].id /\ net'[q].lease = req[q].lease
    BY <1>6 DEF Asks, Cancels, Sends, Stays
  <2>2. Interacts(q) => req[q].id \in Ids /\ req[q].lease \in Leases
    BY <1>1, <1>6 DEF Asks, Cancels, Replied, Reserved, Active
  <2>3. \/ /\ req'[q].pc = "waiting" /\ net'[q].op = req[q].op
        \/ /\ req'[q].pc = "cleanup" /\ net'[q].op = "release" /\ Interacts(q)
    BY <1>6 DEF Asks, Cancels, Sends
  <2> QED
    BY <2>1, <2>2, <2>3 DEF Asked, AtNode, Replied, Active, Interacts, SameAsked
<1>7. CASE Starts(q) \/ Breaks(q)
  <2>1. /\ req'[q] = req[q]
        /\ \/ net'[q].at = "none"
           \/ /\ AtNode(q) /\ net'[q].at = "running" /\ SameMessage(q)
    BY <1>7 DEF Starts, Breaks, AtNode
  <2> QED
    BY <1>1, <2>1 DEF Asked, AtNode, Replied, Active, Interacts, SameMessage
<1>8. ASSUME NEW reply, Answers(q, reply),
             reply = "ok" => net[q].op = "input",
             reply \in {"thinking", "released", "notSent"} =>
                net[q].op # "input"
      PROVE  Asked(q)'
  <2>1. CASE net'[q].at = "none"
    BY <1>1, <1>8, <2>1 DEF Answers, Asked, AtNode, Replied, Active, Interacts
  <2>2. CASE net'[q].at # "none"
    <3>1. /\ req'[q] = req[q] /\ net[q].at = "running" /\ req[q].pc # "idle"
          /\ net'[q].at = "replied" /\ ~net'[q].cut /\ net'[q].reply = reply
      BY <1>8, <2>2 DEF Answers
    <3>2. Active(q) /\ AtNode(q)
      BY <1>1, <3>1 DEF Active, Asked, ReqState, AtNode
    <3>3. (net[q].op = "input") = ~Interacts(q)
      BY <1>1, <3>2 DEF Asked, Interacts
    <3> QED
      BY <1>1, <1>8, <3>1, <3>2, <3>3
      DEF Asked, AtNode, Replied, Active, Interacts
  <2> QED
    BY <2>1, <2>2
<1>9. CASE Reports(q) \/ Frees(q) \/ Holds(q)
  BY <1>8, <1>9 DEF Reports, Frees, Holds, Coming
<1> QED
  BY <1>2, <1>3, <1>4, <1>5, <1>6, <1>7, <1>9 DEF Moves

\* Its reservation is still there for it alone.
LEMMA MoveReserved ==
    ASSUME Core, NEW q \in Requests, Moves(q)
    PROVE  Reserved(q)'
<1>1. /\ Asked(q) /\ Reserved(q) /\ TypeOK' /\ req[q] \in ReqState
      /\ req'[q] \in ReqState
  BY MoveTypes DEF Core, TypeOK
<1>2. CASE Enters(q)
  BY <1>2 DEF Enters, Reserved, Active
<1>3. CASE Leaving(q)
  <2>1. req'[q].pc = "idle"
    BY <1>3 DEF Leaving, Withdraws, Follows, Ends, Leaves
  <2> QED
    BY <2>1 DEF Reserved, Active
<1>4. CASE Reserving(q)
  <2>1. PICK lease \in Leases : Reserves(q, lease)
    BY <1>4 DEF Reserving, Begins, Resumes
  <2>2. /\ req'[q].pc = "ready" /\ req'[q].owner = req[q].owner
        /\ req[q].owner \in Owners /\ req'[q].op # "input"
        /\ req'[q].id \in Ids /\ req'[q].lease \in Leases
        /\ resv'.owner = req'[q].owner /\ resv'.id = req'[q].id
    BY <1>1, <2>1 DEF Reserves, Reserved, Interacts
  <2> QED
    BY <2>2 DEF Reserved, Active, Interacts
<1>5. CASE \/ Waits(q) \/ Continues(q) \/ Asks(q) \/ Cancels(q) \/ Starts(q)
           \/ Breaks(q) \/ Reports(q) \/ Frees(q) \/ Holds(q)
  <2>1. SameAsked(q) /\ resv' = resv
    BY <1>5 DEF Waits, Continues, Asks, Cancels, Sends, Starts, Breaks, Reports,
                Frees, Holds, Answers, Stays
  <2>2. \/ req'[q].pc = req[q].pc
        \/ /\ req[q].pc = "gated" /\ ~Interacts(q) /\ resv = None
           /\ req'[q].pc = "ready"
        \/ Active(q) /\ req'[q].pc # "gated"
    BY <1>5 DEF Waits, Continues, Asks, Cancels, Replied, Active, Starts,
                Breaks, Reports, Frees, Holds, Answers
  <2> QED
    BY <1>1, <2>1, <2>2 DEF Reserved, Active, Interacts, SameAsked
<1> QED
  BY <1>2, <1>3, <1>4, <1>5 DEF Moves

\* Time does no harm to it.
LEMMA CoreTick ==
    ASSUME Core, Ticks
    PROVE  Core'
<1>1. /\ TypeOK /\ Exclusive /\ \A q \in Requests : Asked(q) /\ Reserved(q)
  BY DEF Core
<1>2. TypeOK'
  BY <1>1 DEF Ticks, TypeOK, Typed
<1>3. Exclusive'
  BY <1>1 DEF Ticks, Ages, Exclusive
<1>4. ASSUME NEW q \in Requests
      PROVE  Asked(q)' /\ Reserved(q)'
  <2>1. /\ req'[q].pc = req[q].pc /\ SameAsked(q) /\ SameMessage(q)
        /\ net'[q].at = net[q].at /\ net'[q].cut = net[q].cut
        /\ net'[q].reply = net[q].reply
    BY <1>4 DEF Ticks, Ages
  <2>2. Asked(q)'
    BY <1>1, <2>1
    DEF Asked, AtNode, Replied, Active, Interacts, SameAsked, SameMessage
  <2>3. /\ resv = None => resv' = None
        /\ resv' # None => resv'.owner = resv.owner /\ resv'.id = resv.id
    BY DEF Ticks, Wanes
  <2>4. Reserved(q)'
    BY <1>1, <2>1, <2>3 DEF Reserved, Active, Interacts, SameAsked
  <2> QED
    BY <2>2, <2>4
<1> QED
  BY <1>2, <1>3, <1>4 DEF Core

\* Core is inductive.
LEMMA CoreNext ==
    ASSUME Core, [Next]_vars
    PROVE  Core'
<1>1. CASE Ticks
  BY <1>1, CoreTick
<1>2. ASSUME NEW q \in Requests, Moves(q)
      PROVE  Core'
  <2>1. TypeOK' /\ Exclusive' /\ Elsewhere(q) /\ Asked(q)' /\ Reserved(q)'
    BY <1>2, MoveTypes, MoveElsewhere, MoveAsked, MoveReserved
  <2>2. ASSUME NEW p \in Requests \ {q}
        PROVE  Asked(p)' /\ Reserved(p)'
    <3>1. /\ Asked(p) /\ Reserved(p) /\ req'[p] = req[p] /\ net'[p] = net[p]
          /\ resv' = resv \/ req[p].pc = "idle"
      BY <1>2, <2>1, MoveElsewhere DEF Core, Elsewhere
    <3> QED
      BY <3>1 DEF Asked, Reserved, AtNode, Replied, Active, Interacts
  <2> QED
    BY <2>1, <2>2 DEF Core
<1>3. CASE UNCHANGED vars
  BY <1>3 DEF vars, Core, TypeOK, Exclusive, Asked, Reserved, AtNode, Replied,
              Active, Interacts
<1> QED
  BY <1>1, <1>2, <1>3, StepDoes

\* The types hold, the gate excludes, and what a request has reserved is there
\* for it alone.
THEOREM GateExcludes == Spec => []Core
<1> QED
  BY CoreInit, CoreNext, PTL DEF Spec

\* No step of one owner replaces another's live reservation.
THEOREM NeverTaken == Spec => ReservationNotTaken
<1>1. Core /\ [Next]_vars => [resv # None /\ resv' # None =>
                                /\ resv'.owner = resv.owner
                                /\ resv'.id = resv.id]_vars
  <2> SUFFICES ASSUME Core, [Next]_vars, resv # None, resv' # None
               PROVE  resv'.owner = resv.owner /\ resv'.id = resv.id
    OBVIOUS
  <2>1. CASE Ticks
    BY <2>1 DEF Ticks, Wanes
  <2>2. ASSUME NEW q \in Requests, Moves(q), resv' # resv
        PROVE  resv'.owner = resv.owner /\ resv'.id = resv.id
    <3>1. Reserving(q) \/ Follows(q)
      BY <2>2 DEF Moves, Enters, Leaving, Withdraws, Ends, Waits, Continues,
                  Asks, Cancels, Sends, Starts, Breaks, Reports, Frees, Holds,
                  Answers, Stays
    <3>2. CASE Reserving(q)
      BY <3>2 DEF Reserving, Begins, Resumes, Reserves
    <3>3. CASE Follows(q)
      <4>1. Active(q) /\ Interacts(q) /\ Reserved(q)
        BY <3>3 DEF Follows, Replied, Core, Asked
      <4> QED
        BY <3>3, <4>1 DEF Follows, Reserved
    <3> QED
      BY <3>1, <3>2, <3>3
  <2>3. CASE UNCHANGED vars
    BY <2>3 DEF vars
  <2> QED
    BY <2>1, <2>2, <2>3, StepDoes
<1> QED
  BY <1>1, GateExcludes, PTL DEF Spec, ReservationNotTaken

-----------------------------------------------------------------------------
(* InTime, if the node answers before its receipt is given up.             *)

\* A move keeps the wait for its receipt longer than what is left of it.
LEMMA MoveAwaited ==
    ASSUME Prompt, InTime, NEW q \in Requests, Moves(q)
    PROVE  Awaited(q)'
<1>1. /\ Asked(q) /\ Awaited(q) /\ req[q] \in ReqState /\ net[q] \in NetState
      /\ Delay \in Nat /\ Exec \in Nat /\ Receipt \in Nat
  BY Times DEF InTime, Core, TypeOK
<1>2. net[q].age \in Nat /\ req[q].left \in Nat
  BY <1>1 DEF NetState, ReqState
<1>3. CASE Enters(q) \/ Reserving(q)
  <2>1. net'[q].at = "none"
    BY <1>1, <1>3 DEF Enters, Reserving, Begins, Resumes, Reserves, Asked
  <2> QED
    BY <2>1 DEF Awaited, AtNode
<1>4. CASE Leaving(q)
  <2>1. \/ net'[q].at = "none"
        \/ /\ net'[q] = net[q]
           /\ net[q].at = "none" \/ net[q].cut \/ req[q].left = 0
    BY <1>4 DEF Leaving, Withdraws, Follows, Ends, Leaves
  <2>2. AtNode(q) => Remaining(q) >= 0
    BY <1>1, <1>2 DEF AtNode, Remaining, Awaited
  <2>3. AtNode(q) /\ ~net[q].cut => req[q].left # 0
    BY <1>1, <1>2, <2>2 DEF Awaited, Remaining
  <2> QED
    BY <1>1, <2>1, <2>3 DEF Awaited, AtNode
<1>5. CASE Waits(q)
  <2>1. /\ net'[q] = net[q] /\ req'[q].left = req[q].left
        /\ req'[q].pc = req[q].pc \/ net[q].at = "none"
    BY <1>1, <1>5 DEF Waits, Asked
  <2> QED
    BY <1>1, <2>1 DEF Awaited, AtNode, Remaining
<1>6. CASE Continues(q)
  BY <1>6 DEF Continues, Awaited, AtNode
<1>7. CASE Asks(q) \/ Cancels(q)
  <2>1. /\ net'[q].at = "sent" /\ net'[q].age = 0 /\ req'[q].left = Receipt
        /\ req'[q].pc \in {"waiting", "cleanup"}
    BY <1>7 DEF Asks, Cancels, Sends
  <2> QED
    BY <1>1, <2>1 DEF Awaited, AtNode, Remaining, Prompt
<1>8. CASE Starts(q)
  <2>1. /\ req'[q] = req[q] /\ net[q].at = "sent" /\ net'[q].at = "running"
        /\ net'[q].age = 0 /\ net'[q].cut = net[q].cut
    BY <1>8 DEF Starts
  <2> QED
    BY <1>1, <1>2, <2>1 DEF Awaited, AtNode, Remaining
<1>9. CASE Breaks(q)
  BY <1>1, <1>9 DEF Breaks, Awaited, AtNode
<1>10. CASE Reports(q) \/ Frees(q) \/ Holds(q)
  BY <1>10 DEF Reports, Frees, Holds, Answers, Awaited, AtNode
<1> QED
  BY <1>3, <1>4, <1>5, <1>6, <1>7, <1>8, <1>9, <1>10 DEF Moves

\* A move leaves the node with one request, and none when it has answered the
\* one with the gate.
LEMMA MoveAlone ==
    ASSUME InTime, NEW q \in Requests, Moves(q), NEW p \in Requests \ {q}
    PROVE  /\ ~(net'[q].at = "running" /\ net[p].at = "running")
           /\ Replied(q)' => ~AtNode(p)
           /\ Replied(p) => ~AtNode(q)'
<1>1. /\ Asked(q) /\ Asked(p) /\ Awaited(p) /\ OneAtNode(q) /\ OneAtNode(p)
      /\ ~(Active(p) /\ Active(q))
  BY DEF InTime, Core, Exclusive, Active
<1>2. CASE Enters(q) \/ Reserving(q)
  <2>1. net'[q].at = "none"
    BY <1>1, <1>2 DEF Enters, Reserving, Begins, Resumes, Reserves, Asked
  <2> QED
    BY <2>1 DEF Replied, AtNode
<1>3. CASE Leaving(q)
  <2>1. req'[q].pc = "idle" /\ (net'[q].at = "none" \/ net'[q] = net[q])
    BY <1>3 DEF Leaving, Withdraws, Follows, Ends, Leaves
  <2> QED
    BY <1>1, <2>1 DEF OneAtNode, Replied, Active, AtNode
<1>4. CASE Waits(q)
  <2>1. /\ net'[q] = net[q]
        /\ req'[q].pc = req[q].pc \/ net[q].at = "none"
    BY <1>1, <1>4 DEF Waits, Asked
  <2> QED
    BY <1>1, <2>1 DEF OneAtNode, Replied, Active, AtNode
<1>5. CASE Continues(q)
  BY <1>5 DEF Continues, Replied, AtNode
<1>6. CASE Asks(q) \/ Cancels(q)
  <2>1. Active(q) /\ net'[q].at = "sent"
    BY <1>6 DEF Asks, Cancels, Sends, Active
  <2> QED
    BY <1>1, <2>1 DEF Replied, AtNode
<1>7. CASE Starts(q)
  BY <1>1, <1>7 DEF Starts, Busy, OneAtNode, Replied, AtNode
<1>8. CASE Breaks(q)
  BY <1>1, <1>8 DEF Breaks, OneAtNode, Replied, AtNode
<1>9. CASE Reports(q) \/ Frees(q) \/ Holds(q)
  <2>1. /\ net[q].at = "running" /\ req'[q] = req[q]
        /\ net'[q].at \in {"none", "replied"}
    BY <1>9 DEF Reports, Frees, Holds, Answers
  <2>2. AtNode(p) => net[p].at = "sent" /\ ~net[p].cut /\ Active(p)
    BY <1>1, <2>1 DEF OneAtNode, AtNode, Asked, Awaited, Active
  <2> QED
    BY <1>1, <2>1, <2>2 DEF Replied, Active, AtNode
<1> QED
  BY <1>2, <1>3, <1>4, <1>5, <1>6, <1>7, <1>8, <1>9 DEF Moves

\* Time does no harm to it.
LEMMA InTimeTick ==
    ASSUME InTime, Ticks
    PROVE  InTime'
<1>1. Core' /\ Core
  BY CoreTick DEF InTime
<1>2. ASSUME NEW q \in Requests
      PROVE  Awaited(q)'
  <2>1. /\ Awaited(q) /\ req[q] \in ReqState /\ net[q] \in NetState
        /\ Delay \in Nat /\ Exec \in Nat
    BY <1>1, Times DEF InTime, Core, TypeOK
  <2>2. net[q].age \in Nat /\ req[q].left \in Nat
    BY <2>1 DEF NetState, ReqState
  <2>3. /\ req'[q].pc = req[q].pc /\ req'[q].left = Less(req[q].left)
        /\ net'[q].at = net[q].at /\ net'[q].cut = net[q].cut
        /\ AtNode(q) => net'[q].age = net[q].age + 1
        /\ net[q].at = "sent" => net[q].age < Delay
        /\ net[q].at = "running" => net[q].age < Exec
    BY DEF Ticks, Ages
  <2> QED
    BY <2>1, <2>2, <2>3 DEF Awaited, AtNode, Remaining, Less
<1>3. ASSUME NEW q \in Requests
      PROVE  OneAtNode(q)'
  <2>1. \A p \in Requests :
           req'[p].pc = req[p].pc /\ net'[p].at = net[p].at
    BY DEF Ticks, Ages
  <2> QED
    BY <2>1 DEF InTime, OneAtNode, Replied, Active, AtNode
<1> QED
  BY <1>1, <1>2, <1>3 DEF InTime

\* InTime is inductive.
LEMMA InTimeNext ==
    ASSUME Prompt, InTime, [Next]_vars
    PROVE  InTime'
<1>1. Core /\ Core'
  BY CoreNext DEF InTime
<1>2. CASE Ticks
  BY <1>2, InTimeTick
<1>3. ASSUME NEW q \in Requests, Moves(q)
      PROVE  InTime'
  <2>1. Elsewhere(q) /\ Awaited(q)'
    BY <1>1, <1>3, MoveElsewhere, MoveAwaited
  <2>2. ASSUME NEW p \in Requests \ {q}
        PROVE  Awaited(p)'
    <3>1. Awaited(p) /\ req'[p] = req[p] /\ net'[p] = net[p]
      BY <2>1 DEF InTime, Elsewhere
    <3> QED
      BY <3>1 DEF Awaited, AtNode, Remaining
  <2>3. OneAtNode(q)'
    <3> SUFFICES ASSUME NEW p \in Requests \ {q}
                 PROVE  /\ ~(net'[q].at = "running" /\ net'[p].at = "running")
                        /\ Replied(q)' => ~AtNode(p)'
      BY DEF OneAtNode
    <3>1. net'[p] = net[p]
      BY <2>1 DEF Elsewhere
    <3> QED
      BY <1>3, <3>1, MoveAlone DEF AtNode
  <2>4. ASSUME NEW p \in Requests \ {q}
        PROVE  OneAtNode(p)'
    <3> SUFFICES ASSUME NEW r \in Requests \ {p}
                 PROVE  /\ ~(net'[p].at = "running" /\ net'[r].at = "running")
                        /\ Replied(p)' => ~AtNode(r)'
      BY DEF OneAtNode
    <3>1. OneAtNode(p) /\ net'[p] = net[p] /\ (Replied(p)' = Replied(p))
      BY <2>1 DEF InTime, Elsewhere, Replied, Active
    <3>2. CASE r = q
      BY <1>3, <3>1, <3>2, MoveAlone
    <3>3. CASE r # q
      BY <2>1, <3>1, <3>3 DEF Elsewhere, OneAtNode, AtNode
    <3> QED
      BY <3>2, <3>3
  <2> QED
    BY <1>1, <2>1, <2>2, <2>3, <2>4 DEF InTime
<1>4. CASE UNCHANGED vars
  BY <1>1, <1>4
  DEF vars, InTime, Awaited, OneAtNode, AtNode, Remaining, Replied, Active
<1> QED
  BY <1>1, <1>2, <1>3, <1>4, StepDoes

\* The receipt of whatever is at the node is still awaited.
THEOREM StillAwaited == Prompt => (Spec => []InTime)
<1> SUFFICES ASSUME Prompt PROVE Spec => []InTime
  OBVIOUS
<1>1. Init => InTime
  BY CoreInit DEF Init, InTime, Awaited, OneAtNode, AtNode, Replied, NoMsg
<1>2. InTime /\ [Next]_vars => InTime'
  BY InTimeNext
<1> QED
  BY <1>1, <1>2, PTL DEF Spec

\* The gate is held for a request for as long as it may act on the node.
THEOREM GateIsHeld == Prompt => (Spec => []GateHeldForReceipt)
<1> SUFFICES ASSUME Prompt PROVE Spec => []GateHeldForReceipt
  OBVIOUS
<1>1. InTime => GateHeldForReceipt
  BY DEF InTime, Core, Awaited, Exclusive, GateHeldForReceipt
<1> QED
  BY <1>1, StillAwaited, PTL

-----------------------------------------------------------------------------
(* Over, under the same condition.                                         *)

\* A request that asks for nothing, here or at the node.
LEMMA GoneIsEnding ==
    ASSUME NEW q \in Requests, req[q].pc = "idle", ~AtNode(q)
    PROVE  Ending(q)
  BY DEF Ending, NewAtNode, EndTells, NotEnded, Replied, Active

\* A step in which the node does not come to hold anything, and no id is put
\* among the reserved or the ended, need only be right for its own request.
LEMMA QuietIsOver ==
    ASSUME InTime', Over, NEW q \in Requests, Elsewhere(q), Ending(q)',
           hold' = hold \/ hold' = None, ended' \subseteq ended,
           resv' # None => \A e \in ended : resv'.id # e[1],
           \A p \in Requests \ {q} :
              req[p].op = "begin" /\ Active(p) /\ AtNode(q)' =>
                 AtNode(q) /\ net'[q].id = net[q].id
    PROVE  Over'
<1>1. EndedIsOver'
  BY DEF Over, EndedIsOver
<1>2. ASSUME NEW p \in Requests \ {q}
      PROVE  Ending(p)'
  <2>1. Ending(p) /\ req'[p] = req[p] /\ net'[p] = net[p]
    BY DEF Over, Elsewhere
  <2>2. NotEnded(p)'
    BY <2>1 DEF Ending, NotEnded, Active, Interacts, AtNode
  <2>3. EndTells(p)'
    BY <2>1 DEF Ending, EndTells, Replied, Active
  <2>4. NewAtNode(p)'
    <3> SUFFICES ASSUME req[p].op = "begin",
                        \/ req[p].pc = "ready"
                        \/ req[p].pc = "waiting" /\ AtNode(p)
                 PROVE  /\ hold' # None => hold'.id # req[p].id
                        /\ \A r \in Requests \ {p} :
                              AtNode(r)' => net'[r].id # req[p].id
      BY <2>1 DEF NewAtNode, AtNode
    <3>1. /\ hold # None => hold.id # req[p].id
          /\ \A r \in Requests \ {p} : AtNode(r) => net[r].id # req[p].id
      BY <2>1 DEF Ending, NewAtNode
    <3>2. AtNode(q)' => AtNode(q) /\ net'[q].id = net[q].id
      BY DEF Active
    <3>3. \A r \in Requests \ {q} : net'[r] = net[r]
      BY DEF Elsewhere
    <3> QED
      BY <3>1, <3>2, <3>3 DEF AtNode
  <2> QED
    BY <2>2, <2>3, <2>4 DEF Ending
<1> QED
  BY <1>1, <1>2 DEF Over

\* Requests that enter, leave, wait, go on or send.
LEMMA HandlerIsOver ==
    ASSUME InTime', Over, NEW q \in Requests,
           \/ Enters(q) \/ Withdraws(q) \/ Waits(q) \/ Continues(q)
           \/ Asks(q) \/ Cancels(q)
    PROVE  Over'
<1>1. /\ Asked(q) /\ Ending(q) /\ EndedIsOver
      /\ \A p \in Requests \ {q} : ~(Active(p) /\ Active(q))
  BY DEF Over, InTime, Core, Exclusive, Active
<1>2. /\ Elsewhere(q) /\ UNCHANGED <<resv, hold>> /\ ended' \subseteq ended
  BY DEF Enters, Withdraws, Leaves, Waits, Continues, Asks, Cancels, Sends,
         Stays
<1>3. \/ Active(q)
      \/ AtNode(q)' => AtNode(q) /\ net'[q].id = net[q].id
  BY DEF Enters, Withdraws, Leaves, Waits, Continues, Asks, Cancels, AtNode,
         Active
<1>4. Ending(q)'
  <2>1. CASE Enters(q) \/ Withdraws(q)
    <3>1. /\ req'[q].pc \in {"idle", "gated"}
          /\ net'[q].at = "none" \/ net'[q] = net[q]
      BY <2>1 DEF Enters, Withdraws, Leaves
    <3>2. NewAtNode(q)' /\ EndTells(q)'
      BY <3>1 DEF NewAtNode, EndTells, Replied, Active
    <3>3. NotEnded(q)'
      BY <1>1, <1>2, <3>1 DEF Ending, NotEnded, Active, AtNode
    <3> QED
      BY <3>2, <3>3 DEF Ending
  <2>2. CASE Waits(q) \/ Continues(q)
    <3>1. /\ SameAsked(q)
          /\ \/ /\ req'[q].pc = req[q].pc /\ net'[q] = net[q]
             \/ /\ ~Interacts(q) /\ req'[q].pc = "ready"
                /\ net'[q].at = "none"
      BY <1>1, <2>2 DEF Waits, Continues, Stays, Asked
    <3>2. NewAtNode(q)'
      BY <1>1, <1>2, <3>1
      DEF Ending, NewAtNode, AtNode, SameAsked, Interacts, Elsewhere
    <3>3. EndTells(q)'
      BY <1>1, <1>2, <3>1 DEF Ending, EndTells, Replied, Active, SameAsked
    <3>4. NotEnded(q)'
      BY <1>1, <1>2, <3>1
      DEF Ending, NotEnded, AtNode, Active, Interacts, SameAsked
    <3> QED
      BY <3>2, <3>3, <3>4 DEF Ending
  <2>3. CASE Asks(q) \/ Cancels(q)
    <3>1. /\ SameAsked(q) /\ Active(q) /\ net'[q].at = "sent"
          /\ net'[q].id = req[q].id
          /\ net'[q].op # "input" => Interacts(q)
          /\ \/ req[q].pc = "ready"
             \/ req'[q].pc = "cleanup"
      BY <2>3 DEF Asks, Cancels, Sends, Stays, Active, Interacts
    <3>2. NewAtNode(q)'
      BY <1>1, <1>2, <3>1 DEF Ending, NewAtNode, AtNode, SameAsked, Elsewhere
    <3>3. EndTells(q)'
      BY <3>1 DEF EndTells, Replied
    <3>4. NotEnded(q)'
      BY <1>1, <1>2, <3>1
      DEF Ending, NotEnded, AtNode, Active, Interacts, SameAsked
    <3> QED
      BY <3>2, <3>3, <3>4 DEF Ending
  <2> QED
    BY <2>1, <2>2, <2>3
<1>5. resv' # None => \A e \in ended : resv'.id # e[1]
  BY <1>1, <1>2 DEF EndedIsOver
<1> QED
  BY <1>1, <1>2, <1>3, <1>4, <1>5, QuietIsOver

\* The way to the node, and answers that leave it no more than it held.
LEMMA NodeIsOver ==
    ASSUME InTime', Over, NEW q \in Requests,
           Starts(q) \/ Breaks(q) \/ Reports(q) \/ Frees(q)
    PROVE  Over'
<1>1. /\ Asked(q) /\ Ending(q) /\ EndedIsOver /\ req[q] \in ReqState
      /\ Elsewhere(q) /\ req'[q] = req[q] /\ UNCHANGED <<resv, ended>>
      /\ hold' = hold \/ hold' = None
  BY DEF Over, InTime, Core, TypeOK, Starts, Breaks, Reports, Frees, Answers,
         Stays
<1>2. AtNode(q)' => AtNode(q) /\ SameMessage(q)
  BY DEF Starts, Breaks, Reports, Frees, Answers, AtNode
<1>3. NewAtNode(q)' /\ NotEnded(q)'
  <2>1. NewAtNode(q)'
    BY <1>1, <1>2 DEF Ending, NewAtNode, AtNode, Elsewhere
  <2>2. NotEnded(q)'
    BY <1>1, <1>2 DEF Ending, NotEnded, Active, Interacts, SameMessage
  <2> QED
    BY <2>1, <2>2
<1>4. EndTells(q)'
  <2> SUFFICES ASSUME Replied(q)', net'[q].reply \in {"released", "notSent"}
               PROVE  hold' # None => hold'.id # req[q].id
    BY <1>1 DEF EndTells
  <2>1. Reports(q) \/ Frees(q)
    BY DEF Starts, Breaks, Replied
  <2>2. /\ Active(q) /\ AtNode(q) /\ net[q].id = req[q].id
        /\ net[q].op = IF req[q].pc = "cleanup" THEN "release" ELSE req[q].op
        /\ req[q].pc # "ready"
    BY <1>1, <2>1 DEF Reports, Frees, Answers, Replied, Active, Asked, AtNode
  <2>3. CASE Reports(q)
    <3>1. net[q].op = "begin" /\ hold' = hold
      BY <2>3 DEF Reports, Answers, Replied
    <3> QED
      BY <1>1, <2>2, <3>1 DEF Ending, NewAtNode, Active
  <2>4. CASE Frees(q)
    BY <2>2, <2>4 DEF Frees
  <2> QED
    BY <2>1, <2>3, <2>4
<1>5. resv' # None => \A e \in ended : resv'.id # e[1]
  BY <1>1 DEF EndedIsOver
<1> QED
  BY <1>1, <1>2, <1>3, <1>4, <1>5, QuietIsOver DEF Ending, SameMessage

\* The node holds the input.
LEMMA HoldIsOver ==
    ASSUME InTime', Over, NEW q \in Requests, Holds(q)
    PROVE  Over'
<1>1. /\ Ending(q) /\ EndedIsOver /\ OneAtNode(q)
      /\ Elsewhere(q) /\ req'[q] = req[q] /\ UNCHANGED <<resv, ended>>
      /\ net[q].at = "running" /\ net[q].op # "input" /\ AtNode(q)
      /\ hold'.id = net[q].id
      /\ net'[q].at = "none" \/ net'[q].reply = "thinking"
      /\ ~AtNode(q)'
  BY DEF Over, InTime, Holds, Answers, Stays, Coming, AtNode
<1>2. EndedIsOver'
  BY <1>1 DEF EndedIsOver, Ending, NotEnded
<1>3. Ending(q)'
  <2>1. /\ net'[q].at \in {"none", "replied"}
        /\ net'[q].at = "replied" => net'[q].reply = "thinking"
        /\ req[q].pc # "ready"
    BY <1>1 DEF Holds, Answers, Over, InTime, Core, Asked
  <2>2. NewAtNode(q)'
    BY <1>1, <2>1 DEF NewAtNode
  <2>3. EndTells(q)' /\ NotEnded(q)'
    BY <1>1, <2>1 DEF Ending, EndTells, NotEnded, Replied, Active, Interacts
  <2> QED
    BY <2>2, <2>3 DEF Ending
<1>4. ASSUME NEW p \in Requests \ {q}
      PROVE  Ending(p)'
  <2>1. /\ Ending(p) /\ req'[p] = req[p] /\ net'[p] = net[p] /\ OneAtNode(p)
    BY <1>1 DEF Over, InTime, Elsewhere
  <2>2. EndTells(p)'
    <3>1. ~Replied(p)
      BY <1>1, <2>1 DEF OneAtNode
    <3> QED
      BY <2>1, <3>1 DEF EndTells, Replied, Active
  <2>3. NotEnded(p)'
    BY <1>1, <2>1 DEF Ending, NotEnded, Active, Interacts, AtNode
  <2>4. NewAtNode(p)'
    <3> SUFFICES ASSUME req[p].op = "begin",
                        \/ req[p].pc = "ready"
                        \/ req[p].pc = "waiting" /\ AtNode(p)
                 PROVE  /\ hold'.id # req[p].id
                        /\ \A r \in Requests \ {p} :
                              AtNode(r)' => net'[r].id # req[p].id
      BY <2>1 DEF NewAtNode, AtNode
    <3>1. \A r \in Requests \ {p} : AtNode(r) => net[r].id # req[p].id
      BY <2>1 DEF Ending, NewAtNode
    <3>2. \A r \in Requests \ {q} : net'[r] = net[r]
      BY <1>1 DEF Elsewhere
    <3> QED
      BY <1>1, <3>1, <3>2 DEF AtNode
  <2> QED
    BY <2>2, <2>3, <2>4 DEF Ending
<1> QED
  BY <1>2, <1>3, <1>4 DEF Over

\* While q has the gate, what another has at the node is cut off there, and
\* there is nothing of another once q's is answered.
LEMMA OthersAtNode ==
    ASSUME InTime, NEW q \in Requests, req[q].pc # "idle",
           NEW p \in Requests \ {q}, AtNode(p)
    PROVE  /\ net[p].at = "running" /\ net[p].cut /\ req[p].pc = "idle"
           /\ ~Replied(q)
<1>1. Asked(p) /\ Awaited(p) /\ OneAtNode(q) /\ req[p].pc = "idle"
  BY DEF InTime, Core, Exclusive
<1> QED
  BY <1>1 DEF Awaited, Asked, OneAtNode, AtNode

\* Once a receipt is made use of, nothing is at the node.
LEMMA ReceiptClears ==
    ASSUME InTime, NEW q \in Requests, Follows(q) \/ Ends(q),
           NEW p \in Requests
    PROVE  req'[p].pc = "idle" /\ ~AtNode(p)'
<1>1. /\ Core /\ OneAtNode(q) /\ Replied(q) /\ Active(q) /\ Elsewhere(q)
      /\ req'[q].pc = "idle" /\ (net'[q].at = "none" \/ net'[q] = net[q])
  BY DEF InTime, Follows, Ends, Leaves, Replied
<1>2. CASE p = q
  BY <1>1, <1>2 DEF AtNode, Replied
<1>3. CASE p # q
  <2>1. req[p].pc = "idle" /\ ~AtNode(p)
    BY <1>1, <1>3 DEF Core, Exclusive, Active, OneAtNode
  <2> QED
    BY <1>1, <1>3, <2>1 DEF Elsewhere, AtNode
<1> QED
  BY <1>2, <1>3

\* What interact makes of a receipt.
LEMMA ReceiptIsOver ==
    ASSUME InTime', Over, NEW q \in Requests, Follows(q) \/ Ends(q)
    PROVE  Over'
<1>1. /\ InTime /\ Asked(q) /\ Ending(q) /\ EndedIsOver
      /\ Replied(q) /\ Active(q) /\ Interacts(q) /\ UNCHANGED hold
  BY DEF Over, InTime, Core, Follows, Ends, Leaves, Replied, Asked
<1>2. \A p \in Requests : Ending(p)'
  BY <1>1, ReceiptClears
  DEF Ending, NewAtNode, EndTells, NotEnded, Replied, Active
<1>3. EndedIsOver'
  <2>1. CASE Follows(q)
    <3>1. UNCHANGED ended /\ (resv' # None => resv'.id = req[q].id)
      BY <2>1 DEF Follows
    <3> QED
      BY <1>1, <3>1 DEF EndedIsOver, Ending, NotEnded
  <2>2. CASE Ends(q)
    <3>1. /\ resv' = None /\ (hold # None => hold.id # req[q].id)
          /\ ended' \subseteq ended \cup {<<req[q].id, req[q].owner>>}
      BY <1>1, <2>2 DEF Ends, Ending, EndTells
    <3> QED
      BY <1>1, <3>1 DEF EndedIsOver
  <2> QED
    BY <2>1, <2>2
<1> QED
  BY <1>2, <1>3 DEF Over

\* An interaction that reserves is new, or the reserved one.
LEMMA ReservingIsOver ==
    ASSUME InTime', Over, NEW q \in Requests, Reserving(q)
    PROVE  Over'
<1>1. PICK lease \in Leases : Begins(q, lease) \/ Resumes(q, lease)
  BY DEF Reserving
<1>2. /\ InTime /\ EndedIsOver /\ Asked(q) /\ Ending(q)
      /\ Elsewhere(q) /\ UNCHANGED hold /\ ended' \subseteq ended
      /\ req[q].pc = "gated" /\ req'[q].pc = "ready"
      /\ req'[q].op = req[q].op /\ net'[q] = net[q] /\ net[q].at = "none"
      /\ resv'.id = req'[q].id
  BY <1>1 DEF Over, InTime, Core, Begins, Resumes, Reserves, Asked
<1>3. \A e \in ended : e[1] # req'[q].id
  <2>1. CASE Begins(q, lease)
    BY <2>1 DEF Begins, Unused
  <2>2. CASE Resumes(q, lease)
    BY <1>2, <2>2 DEF Resumes, EndedIsOver
  <2> QED
    BY <1>1, <2>1, <2>2
<1>4. req'[q].op = "begin" =>
         /\ hold # None => hold.id # req'[q].id
         /\ \A p \in Requests : net[p].id # req'[q].id
  BY <1>1, <1>2 DEF Begins, Resumes, Unused
<1>5. EndedIsOver'
  BY <1>2, <1>3 DEF EndedIsOver
<1>6. Ending(q)'
  <2>1. NewAtNode(q)'
    BY <1>2, <1>4 DEF NewAtNode, AtNode, Elsewhere
  <2>2. EndTells(q)' /\ NotEnded(q)'
    BY <1>2, <1>3 DEF EndTells, NotEnded, Replied, AtNode
  <2> QED
    BY <2>1, <2>2 DEF Ending
<1>7. ASSUME NEW p \in Requests \ {q}
      PROVE  Ending(p)'
  <2>1. /\ Ending(p) /\ req[p].pc = "idle" /\ req'[p] = req[p]
        /\ net'[p] = net[p]
    BY <1>2 DEF Over, InTime, Core, Exclusive, Elsewhere
  <2>2. NewAtNode(p)' /\ EndTells(p)'
    BY <2>1 DEF NewAtNode, EndTells, Replied, Active
  <2>3. NotEnded(p)'
    BY <1>2, <2>1 DEF Ending, NotEnded, Active, AtNode
  <2> QED
    BY <2>2, <2>3 DEF Ending
<1> QED
  BY <1>5, <1>6, <1>7 DEF Over

\* Time does no harm to it.
LEMMA TickIsOver ==
    ASSUME InTime', Over, Ticks
    PROVE  Over'
<1>1. /\ EndedIsOver /\ UNCHANGED ended
      /\ resv' # None => resv # None /\ resv'.id = resv.id
      /\ hold' # None => hold # None /\ hold'.id = hold.id
  BY DEF Over, Ticks, Wanes
<1>2. EndedIsOver'
  BY <1>1 DEF EndedIsOver
<1>3. ASSUME NEW q \in Requests
      PROVE  Ending(q)'
  <2>1. Ending(q) /\ \A p \in Requests : Ages(p)
    BY DEF Over, Ticks
  <2>2. /\ req'[q].pc = req[q].pc /\ SameAsked(q)
        /\ net'[q].reply = net[q].reply
        /\ \A p \in Requests : net'[p].at = net[p].at /\ SameMessage(p)
    BY <2>1 DEF Ages
  <2>3. NewAtNode(q)'
    BY <1>1, <2>1, <2>2
    DEF Ending, NewAtNode, AtNode, SameAsked, SameMessage
  <2>4. EndTells(q)'
    BY <1>1, <2>1, <2>2 DEF Ending, EndTells, Replied, Active, SameAsked
  <2>5. NotEnded(q)'
    BY <1>1, <2>1, <2>2
    DEF Ending, NotEnded, AtNode, Active, Interacts, SameAsked, SameMessage
  <2> QED
    BY <2>3, <2>4, <2>5 DEF Ending
<1> QED
  BY <1>2, <1>3 DEF Over

\* Over is inductive.
LEMMA OverNext ==
    ASSUME Prompt, Over, [Next]_vars
    PROVE  Over'
<1>1. InTime /\ Core /\ InTime'
  BY InTimeNext DEF Over, InTime
<1>2. CASE Ticks
  BY <1>1, <1>2, TickIsOver
<1>3. ASSUME NEW q \in Requests, Moves(q)
      PROVE  Over'
  <2>1. CASE \/ Enters(q) \/ Withdraws(q) \/ Waits(q) \/ Continues(q)
             \/ Asks(q) \/ Cancels(q)
    BY <1>1, <2>1, HandlerIsOver
  <2>2. CASE Starts(q) \/ Breaks(q) \/ Reports(q) \/ Frees(q)
    BY <1>1, <2>2, NodeIsOver
  <2>3. CASE Holds(q)
    BY <1>1, <2>3, HoldIsOver
  <2>4. CASE Follows(q) \/ Ends(q)
    BY <1>1, <2>4, ReceiptIsOver
  <2>5. CASE Reserving(q)
    BY <1>1, <2>5, ReservingIsOver
  <2> QED
    BY <1>3, <2>1, <2>2, <2>3, <2>4, <2>5 DEF Moves, Leaving
<1>4. CASE UNCHANGED vars
  BY <1>1, <1>4
  DEF vars, Over, EndedIsOver, Ending, NewAtNode, EndTells, NotEnded, AtNode,
      Replied, Active, Interacts
<1> QED
  BY <1>1, <1>2, <1>3, <1>4, StepDoes

\* Init establishes it.
LEMMA OverInit == Init => Over
<1> SUFFICES ASSUME Init PROVE Over
  OBVIOUS
<1>1. \A q \in Requests : req[q].pc = "idle" /\ net[q].at = "none"
  BY DEF Init, Fresh, NoMsg
<1>2. InTime
  BY <1>1, CoreInit DEF InTime, Awaited, OneAtNode, AtNode, Replied
<1>3. \A q \in Requests : Ending(q)
  BY <1>1, GoneIsEnding DEF Init, AtNode
<1> QED
  BY <1>2, <1>3 DEF Init, Over, EndedIsOver

\* Nothing that is over is asked for, or comes back to the node.
THEOREM OverStays == Prompt => (Spec => []Over)
<1> SUFFICES ASSUME Prompt PROVE Spec => []Over
  OBVIOUS
<1>1. Init => Over
  BY OverInit
<1>2. Over /\ [Next]_vars => Over'
  BY OverNext
<1> QED
  BY <1>1, <1>2, PTL DEF Spec

\* What a terminal receipt says is over is over.
THEOREM TerminalIsOver == Prompt => (Spec => []EndedIsOver)
<1> SUFFICES ASSUME Prompt PROVE Spec => []EndedIsOver
  OBVIOUS
<1>1. Over => EndedIsOver
  BY DEF Over
<1> QED
  BY <1>1, OverStays, PTL

-----------------------------------------------------------------------------
(* IndInv, if moreover the slack covers the way to the node and its work.  *)

\* The types of what is held, reserved and asked for.
LEMMA Measures ==
    ASSUME Core, NEW q \in Requests
    PROVE  /\ hold # None => hold \in Interactions /\ hold.left \in Nat \ {0}
           /\ resv # None => resv \in Reservations /\ resv.left \in Nat \ {0}
           /\ net[q].age \in Nat /\ net[q].left \in Nat
           /\ AtNode(q) /\ net[q].op # "input" => net[q].lease \in Nat \ {0}
           /\ req[q].lease \in Nat
           /\ Delay \in Nat \ {0} /\ Exec \in Nat \ {0} /\ Slack \in Nat \ {0}
<1>1. /\ TypeOK /\ req[q] \in ReqState /\ net[q] \in NetState /\ Asked(q)
  BY DEF Core, TypeOK
<1>2. req[q].lease \in Nat
  <2>1. req[q].lease \in Leases \/ req[q].lease = 0
    BY <1>1 DEF ReqState
  <2>2. CASE req[q].lease \in Leases
    BY <2>2, Times
  <2>3. CASE req[q].lease = 0
    BY <2>3
  <2> QED
    BY <2>1, <2>2, <2>3
<1> QED
  BY <1>1, <1>2, Times DEF TypeOK, Interactions, Reservations, NetState, Asked

\* A step that leaves the reservation alone, and adds nothing to what the node
\* holds, need only be right for the request that takes it.
LEMMA QuietIsSound ==
    ASSUME Sound, NEW q \in Requests, Elsewhere(q), Covered(q)',
           UNCHANGED <<resv, shortened>>, hold' = hold \/ hold' = None
    PROVE  Sound'
<1>1. HeldIsReserved' /\ LeaseHeld'
  BY DEF Sound, HeldIsReserved, LeaseHeld
<1>2. ASSUME NEW p \in Requests \ {q}
      PROVE  Covered(p)'
  <2>1. Covered(p) /\ req'[p] = req[p] /\ net'[p] = net[p]
    BY DEF Sound, Elsewhere
  <2>2. ComingReserved(p)'
    BY <2>1 DEF Covered, ComingReserved, Coming, AtNode, Remaining, Interacts
  <2>3. HoldTells(p)'
    BY <2>1 DEF Covered, HoldTells, Replied, Active
  <2> QED
    BY <2>2, <2>3 DEF Covered
<1> QED
  BY <1>1, <1>2 DEF Sound

\* Requests that enter, wait, go on or leave everything as it is.
LEMMA HandlerIsSound ==
    ASSUME InTime, Sound, NEW q \in Requests,
           Enters(q) \/ Withdraws(q) \/ Waits(q) \/ Continues(q)
    PROVE  Sound'
<1>1. Asked(q) /\ Covered(q)
  BY DEF InTime, Core, Sound
<1>2. /\ Elsewhere(q) /\ UNCHANGED <<resv, hold, shortened>>
      /\ net'[q].at = "none" \/ net'[q] = net[q]
  BY DEF Enters, Withdraws, Leaves, Waits, Continues, Stays
<1>3. \/ req'[q].pc \in {"idle", "gated"}
      \/ /\ req'[q].pc = "ready" /\ req'[q].op = "input"
         /\ net'[q].at = "none"
      \/ SameAsked(q) /\ req'[q].pc = req[q].pc /\ net'[q] = net[q]
  BY <1>1 DEF Enters, Withdraws, Leaves, Waits, Continues, Stays, SameAsked,
              Interacts, Asked
<1>4. ComingReserved(q)'
  BY <1>1, <1>2, <1>3
  DEF Covered, ComingReserved, Coming, AtNode, Remaining, Interacts, SameAsked
<1>5. HoldTells(q)'
  BY <1>1, <1>2, <1>3 DEF Covered, HoldTells, Replied, Active, SameAsked
<1> QED
  BY <1>2, <1>4, <1>5, QuietIsSound DEF Covered

\* Requests that send a message.
LEMMA SenderIsSound ==
    ASSUME SlackCovers, InTime, Sound, NEW q \in Requests,
           Asks(q) \/ Cancels(q)
    PROVE  Sound'
<1>1. /\ Reserved(q) /\ Covered(q) /\ Core
      /\ Active(q) /\ Elsewhere(q) /\ SameAsked(q)
      /\ UNCHANGED <<resv, hold, ended, shortened>>
      /\ net'[q].at = "sent" /\ net'[q].age = 0 /\ net'[q].id = req[q].id
      /\ net'[q].lease = req[q].lease
  BY DEF InTime, Core, Sound, Asks, Cancels, Sends, Active, Stays
<1>2. HoldTells(q)'
  BY <1>1 DEF HoldTells, Replied
<1>3. ComingReserved(q)'
  <2>1. CASE Asks(q)
    <3>1. /\ req[q].pc = "ready" /\ req'[q].pc = "waiting"
          /\ net'[q].op = req[q].op
      BY <2>1 DEF Asks, Sends
    <3> SUFFICES ASSUME Interacts(q)
                 PROVE  /\ resv # None /\ resv.id = req[q].id
                        /\ resv.left > Delay - 0 + Exec
                        /\ resv.left >= req[q].lease + (Delay - 0 + Exec)
      BY <1>1, <3>1
      DEF ComingReserved, Coming, AtNode, Remaining, Interacts, SameAsked
    <3>2. /\ resv # None /\ resv.id = req[q].id
          /\ resv.left = req[q].lease + Slack /\ req[q].lease \in Leases
      BY <1>1, <3>1 DEF Covered, ComingReserved, Reserved
    <3>3. /\ req[q].lease \in Nat \ {0} /\ Delay \in Nat /\ Exec \in Nat
          /\ Slack \in Nat /\ Delay + Exec <= Slack
      BY <3>2, Times DEF SlackCovers
    <3> QED
      BY <3>2, <3>3
  <2>2. CASE Cancels(q)
    <3>1. req'[q].pc = "cleanup" /\ net'[q].op = "release"
      BY <2>2 DEF Cancels, Sends
    <3> QED
      BY <3>1 DEF ComingReserved, Coming
  <2> QED
    BY <2>1, <2>2
<1> QED
  BY <1>1, <1>2, <1>3, QuietIsSound DEF Covered

\* The way to the node, and answers that leave it no more than it held.
LEMMA NodeIsSound ==
    ASSUME InTime, Sound, NEW q \in Requests,
           Starts(q) \/ Breaks(q) \/ Reports(q) \/ Frees(q)
    PROVE  Sound'
<1>1. /\ Asked(q) /\ Covered(q) /\ Awaited(q) /\ Core
      /\ Elsewhere(q) /\ req'[q] = req[q] /\ UNCHANGED <<resv, shortened>>
      /\ hold' = hold \/ hold' = None
  BY DEF InTime, Core, Sound, Starts, Breaks, Reports, Frees, Answers, Stays
<1>2. HoldTells(q)'
  BY DEF HoldTells, Replied, Starts, Breaks, Reports, Frees, Answers
<1>3. ComingReserved(q)'
  <2>1. CASE Starts(q)
    <3>1. /\ net[q].at = "sent" /\ net'[q].at = "running" /\ net'[q].age = 0
          /\ SameMessage(q) /\ req[q].pc # "ready"
      BY <1>1, <2>1 DEF Starts, Asked
    <3> SUFFICES ASSUME Coming(q)
                 PROVE  /\ resv # None /\ resv.id = net[q].id
                        /\ resv.left > Exec - 0
                        /\ net[q].id \notin shortened =>
                              resv.left >= net[q].lease + (Exec - 0)
      BY <1>1, <3>1 DEF ComingReserved, Coming, AtNode, Remaining, SameMessage
    <3>2. /\ resv # None /\ resv.id = net[q].id /\ resv.left > Remaining(q)
          /\ net[q].id \notin shortened =>
                resv.left >= net[q].lease + Remaining(q)
          /\ net[q].age <= Delay /\ AtNode(q) /\ net[q].op # "input"
      BY <1>1, <3>1 DEF Covered, ComingReserved, Coming, Awaited
    <3>3. /\ Remaining(q) = Delay - net[q].age + Exec
          /\ net[q].age \in Nat /\ Delay \in Nat /\ Exec \in Nat
          /\ resv.left \in Nat /\ net[q].lease \in Nat
      BY <1>1, <3>1, <3>2, Measures DEF Remaining
    <3> QED
      BY <3>2, <3>3
  <2>2. CASE Breaks(q)
    <3>1. \/ net'[q].at = "none"
          \/ /\ net[q].at = "running" /\ net'[q].at = "running"
             /\ net'[q].age = net[q].age /\ SameMessage(q)
      BY <2>2 DEF Breaks
    <3> QED
      BY <1>1, <3>1 DEF Covered, ComingReserved, Coming, AtNode, Remaining,
                        SameMessage, Interacts
  <2>3. CASE Reports(q) \/ Frees(q)
    <3>1. /\ req[q].pc # "ready" /\ net'[q].at \in {"none", "replied"}
      BY <1>1, <2>3 DEF Reports, Frees, Answers, Asked
    <3> QED
      BY <1>1, <3>1 DEF ComingReserved, Coming, AtNode
  <2> QED
    BY <2>1, <2>2, <2>3
<1> QED
  BY <1>1, <1>2, <1>3, QuietIsSound DEF Covered

\* The node holds the input, its lease renewed.
LEMMA HoldIsSound ==
    ASSUME InTime, Sound, NEW q \in Requests, Holds(q)
    PROVE  Sound'
<1>1. /\ Asked(q) /\ Covered(q) /\ Awaited(q) /\ Core /\ OneAtNode(q)
      /\ HeldIsReserved /\ LeaseHeld /\ req[q] \in ReqState
      /\ Elsewhere(q) /\ req'[q] = req[q] /\ UNCHANGED <<resv, shortened>>
      /\ net[q].at = "running" /\ Coming(q) /\ hold' # None
      /\ hold'.id = net[q].id /\ (hold' = hold \/ hold'.left = net[q].lease)
      /\ AtNode(q) /\ net[q].op # "input"
      /\ \/ net'[q].at = "none"
         \/ /\ req[q].pc # "idle" /\ net'[q].at = "replied"
            /\ net'[q].reply = "thinking" /\ net'[q].left = hold'.left
  BY DEF InTime, Core, TypeOK, Sound, Holds, Answers, Stays, Coming
<1>2. HeldIsReserved'
  <2> SUFFICES ASSUME hold'.id \notin shortened, hold'.left = net[q].lease
               PROVE  /\ resv # None /\ resv.id = net[q].id
                      /\ resv.left >= net[q].lease
    BY <1>1 DEF HeldIsReserved
  <2>1. /\ resv # None /\ resv.id = net[q].id
        /\ resv.left >= net[q].lease + Remaining(q) /\ net[q].age <= Exec
    BY <1>1 DEF Covered, ComingReserved, Awaited
  <2>2. resv.left >= net[q].lease
    BY <1>1, <2>1, Measures DEF Remaining
  <2> QED
    BY <2>1, <2>2
<1>3. LeaseHeld'
  <2>1. net[q].lease \in Leases
    BY <1>1 DEF Asked
  <2>2. net[q].lease \in Nat
    BY <2>1, Times
  <2>3. net[q].lease <= net[q].lease
    BY <2>2
  <2> QED
    BY <1>1, <2>1, <2>3 DEF LeaseHeld
<1>4. hold'.left <= hold'.left
  BY DEF Holds, Interactions
<1>5. Covered(q)'
  <2>1. ComingReserved(q)'
    BY <1>1 DEF ComingReserved, Coming, AtNode, Asked
  <2>2. HoldTells(q)'
    <3> SUFFICES ASSUME net'[q].at = "replied"
                 PROVE  hold'.id = req[q].id /\ hold'.left <= net'[q].left
      BY <1>1 DEF HoldTells, Replied
    <3>1. Active(q)
      BY <1>1 DEF Active, Asked, ReqState
    <3> QED
      BY <1>1, <1>4, <3>1 DEF Asked
  <2> QED
    BY <2>1, <2>2 DEF Covered
<1>6. ASSUME NEW p \in Requests \ {q}
      PROVE  Covered(p)'
  <2>1. /\ Covered(p) /\ req'[p] = req[p] /\ net'[p] = net[p] /\ OneAtNode(p)
    BY <1>1 DEF Sound, InTime, Elsewhere
  <2>2. ComingReserved(p)'
    BY <1>1, <2>1
    DEF Covered, ComingReserved, Coming, AtNode, Remaining, Interacts
  <2>3. HoldTells(p)'
    <3>1. ~Replied(p)
      BY <1>1, <2>1 DEF OneAtNode
    <3> QED
      BY <2>1, <3>1 DEF HoldTells, Replied, Active
  <2> QED
    BY <2>2, <2>3 DEF Covered
<1> QED
  BY <1>2, <1>3, <1>5, <1>6 DEF Sound

\* What interact makes of a receipt.
LEMMA ReceiptIsSound ==
    ASSUME Over, Sound, NEW q \in Requests, Follows(q) \/ Ends(q)
    PROVE  Sound'
<1>1. /\ InTime /\ Asked(q) /\ Reserved(q) /\ Covered(q) /\ Core
      /\ HeldIsReserved /\ LeaseHeld /\ Ending(q)
      /\ Replied(q) /\ Active(q) /\ Interacts(q)
      /\ UNCHANGED <<hold, shortened>>
  BY DEF Over, InTime, Core, Sound, Follows, Ends, Leaves, Replied, Asked
<1>2. \A p \in Requests : Covered(p)'
  BY <1>1, ReceiptClears DEF Covered, ComingReserved, HoldTells, Coming,
                             Replied, Active
<1>3. HeldIsReserved'
  <2> SUFFICES ASSUME hold # None, hold.id \notin shortened
               PROVE  /\ resv' # None /\ resv'.id = hold.id
                      /\ resv'.left >= hold.left
    BY <1>1 DEF HeldIsReserved
  <2>1. hold.id = req[q].id
    BY <1>1 DEF HeldIsReserved, Reserved
  <2>2. CASE Ends(q)
    BY <1>1, <2>1, <2>2 DEF Ends, Ending, EndTells
  <2>3. CASE Follows(q)
    <3>1. net[q].reply = "thinking" /\ hold.left <= net[q].left
      BY <1>1, <2>3 DEF Follows, Covered, HoldTells
    <3>2. /\ hold.left \in Nat \ {0} /\ net[q].left \in Nat
          /\ hold.left <= Think /\ Think \in Nat
      <4>1. PICK l \in Leases : hold.left <= l
        BY <1>1 DEF LeaseHeld
      <4>2. l \in Nat /\ l <= Think /\ Think \in Nat
        BY Times
      <4> QED
        BY <1>1, <4>1, <4>2, Measures
    <3>3. net[q].left # 0 /\ Min2(net[q].left, Think) >= hold.left
      BY <3>1, <3>2 DEF Min2
    <3>4. resv' = [owner |-> req[q].owner, id |-> req[q].id,
                   left |-> Min2(net[q].left, Think)]
      BY <2>3, <3>3 DEF Follows
    <3>5. resv' # None
      <4>1. Min2(net[q].left, Think) \in Nat \ {0}
        BY <3>2, <3>3, Times DEF Min2
      <4>2. req[q].owner \in Owners /\ req[q].id \in Ids
        BY <1>1 DEF Reserved, Active
      <4>3. resv' \in Reservations
        BY <3>4, <4>1, <4>2 DEF Reservations
      <4> QED
        BY <4>3
    <3> QED
      BY <2>1, <3>3, <3>4, <3>5
  <2> QED
    BY <2>2, <2>3
<1>4. LeaseHeld'
  BY <1>1 DEF LeaseHeld
<1> QED
  BY <1>2, <1>3, <1>4 DEF Sound

\* An interaction reserves before its dispatch, for less than was left only if
\* it is among the shortened ones from then on.
LEMMA ReservingIsSound ==
    ASSUME SlackCovers, InTime, Sound, NEW q \in Requests, Reserving(q)
    PROVE  Sound'
<1>1. PICK lease \in Leases : Begins(q, lease) \/ Resumes(q, lease)
  BY DEF Reserving
<1>2. /\ Asked(q) /\ Reserved(q) /\ Core /\ HeldIsReserved /\ LeaseHeld
      /\ \A p \in Requests : Covered(p)
  BY DEF InTime, Core, Sound
<1>3. /\ Elsewhere(q) /\ UNCHANGED hold /\ Shorten(req'[q].id, lease)
      /\ req[q].pc = "gated" /\ req'[q].pc = "ready"
      /\ req'[q].lease = lease /\ net'[q] = net[q] /\ net[q].at = "none"
      /\ resv' = [owner |-> req[q].owner, id |-> req'[q].id,
                  left |-> lease + Slack]
  BY <1>1, <1>2 DEF Begins, Resumes, Reserves, Asked
<1>4. resv'.id = req'[q].id /\ resv'.left = lease + Slack
  BY <1>3
<1>5. /\ lease \in Nat \ {0} /\ Slack \in Nat /\ Delay \in Nat /\ Exec \in Nat
      /\ Delay + Exec <= Slack
  BY Times DEF SlackCovers
<1>6. resv' # None
  <2>1. req[q].owner \in Owners /\ req'[q].id \in Ids
    BY <1>1, <1>2, <1>3 DEF Reserved, Begins, Resumes, Reserves
  <2>2. resv' \in Reservations
    BY <1>3, <1>5, <2>1 DEF Reservations
  <2> QED
    BY <2>2
<1>7. /\ hold # None /\ hold.id \notin shortened' =>
            hold.id = req'[q].id /\ resv'.left >= hold.left
      /\ \A p \in Requests : Coming(p) =>
            /\ net[p].id = req'[q].id /\ resv'.left > Remaining(p)
            /\ net[p].id \notin shortened' =>
                  resv'.left >= net[p].lease + Remaining(p)
  <2>1. CASE Begins(q, lease)
    <3>1. /\ resv = None /\ Unused(req'[q].id)
          /\ shortened' = shortened \ {req'[q].id}
      BY <1>3, <2>1 DEF Begins, Shorten
    <3>2. hold # None => hold.id \in shortened'
      BY <1>2, <3>1 DEF HeldIsReserved, Unused
    <3>3. \A p \in Requests : ~Coming(p)
      BY <1>2, <3>1 DEF Covered, ComingReserved
    <3> QED
      BY <3>2, <3>3
  <2>2. CASE Resumes(q, lease)
    <3>1. resv # None /\ resv.id = req'[q].id /\ resv.left \in Nat
      BY <1>2, <2>2, Measures DEF Resumes
    <3>2. /\ shortened \subseteq shortened'
          /\ req'[q].id \notin shortened' => resv'.left >= resv.left
      BY <1>3, <1>4, <1>5, <3>1 DEF Shorten
    <3>3. ASSUME hold # None, hold.id \notin shortened'
          PROVE  hold.id = req'[q].id /\ resv'.left >= hold.left
      <4>1. hold.id = resv.id /\ resv.left >= hold.left
        BY <1>2, <3>2, <3>3 DEF HeldIsReserved
      <4>2. resv'.left >= resv.left /\ hold.left \in Nat
        BY <1>2, <3>1, <3>2, <3>3, <4>1, Measures
      <4> QED
        BY <1>4, <1>5, <3>1, <4>1, <4>2
    <3>4. ASSUME NEW p \in Requests, Coming(p)
          PROVE  /\ net[p].id = req'[q].id /\ resv'.left > Remaining(p)
                 /\ net[p].id \notin shortened' =>
                       resv'.left >= net[p].lease + Remaining(p)
      <4>1. /\ net[p].id = resv.id
            /\ net[p].id \notin shortened =>
                  resv.left >= net[p].lease + Remaining(p)
        BY <1>2, <3>4 DEF Covered, ComingReserved
      <4>2. /\ net[p].at = "running" /\ AtNode(p) /\ net[p].op # "input"
        BY <1>3, <3>4, OthersAtNode DEF Coming, AtNode
      <4>3. /\ Remaining(p) = Exec - net[p].age
            /\ net[p].age \in Nat /\ net[p].lease \in Nat
        BY <1>2, <4>2, Measures DEF Remaining
      <4>4. resv'.left > Remaining(p)
        BY <1>4, <1>5, <4>3
      <4>5. net[p].id \notin shortened' =>
               resv'.left >= net[p].lease + Remaining(p)
        BY <1>4, <1>5, <3>1, <3>2, <4>1, <4>3
      <4> QED
        BY <3>1, <4>1, <4>4, <4>5
    <3> QED
      BY <3>3, <3>4
  <2> QED
    BY <1>1, <2>1, <2>2
<1>8. HeldIsReserved' /\ LeaseHeld'
  BY <1>2, <1>3, <1>4, <1>6, <1>7 DEF HeldIsReserved, LeaseHeld
<1>9. Covered(q)'
  <2>1. ~Coming(q)' /\ ~Replied(q)'
    BY <1>3 DEF Coming, AtNode, Replied
  <2> QED
    BY <1>3, <1>4, <1>6, <2>1 DEF Covered, ComingReserved, HoldTells
<1>10. ASSUME NEW p \in Requests \ {q}
       PROVE  Covered(p)'
  <2>1. req[p].pc = "idle" /\ req'[p] = req[p] /\ net'[p] = net[p]
    BY <1>2, <1>3 DEF Core, Exclusive, Elsewhere
  <2>2. HoldTells(p)'
    BY <2>1 DEF HoldTells, Replied, Active
  <2>3. ComingReserved(p)'
    BY <1>4, <1>6, <1>7, <2>1
    DEF ComingReserved, Coming, AtNode, Remaining
  <2> QED
    BY <2>2, <2>3 DEF Covered
<1> QED
  BY <1>8, <1>9, <1>10 DEF Sound

\* Time does no harm to it.
LEMMA TickIsSound ==
    ASSUME InTime, Sound, Ticks
    PROVE  Sound'
<1>1. /\ Core /\ HeldIsReserved /\ LeaseHeld /\ UNCHANGED shortened
      /\ Wanes(resv, resv') /\ Wanes(hold, hold')
  BY DEF InTime, Sound, Ticks
<1>2. /\ hold \in Interactions \cup {None} /\ resv \in Reservations \cup {None}
      /\ hold # None => hold.left \in Nat \ {0}
      /\ resv # None => resv.left \in Nat \ {0}
  BY <1>1 DEF Core, TypeOK, Interactions, Reservations
<1>3. HeldIsReserved'
  <2> SUFFICES ASSUME hold' # None, hold'.id \notin shortened
               PROVE  /\ resv' # None /\ resv'.id = hold'.id
                      /\ resv'.left >= hold'.left
    BY <1>1 DEF HeldIsReserved
  <2>1. /\ hold # None /\ hold'.id = hold.id /\ hold.left > 1
        /\ hold'.left = hold.left - 1
    BY <1>1 DEF Wanes
  <2>2. resv # None /\ resv.id = hold.id /\ resv.left >= hold.left
    BY <1>1, <2>1 DEF HeldIsReserved
  <2>3. hold.left \in Nat /\ resv.left \in Nat
    BY <1>2, <2>1, <2>2
  <2>4. resv.left # 1 /\ resv.left - 1 >= hold.left - 1
    BY <2>1, <2>2, <2>3
  <2> QED
    BY <1>1, <2>1, <2>2, <2>4 DEF Wanes
<1>4. LeaseHeld'
  <2> SUFFICES ASSUME hold' # None
               PROVE  \E l \in Leases : hold'.left <= l
    BY DEF LeaseHeld
  <2>1. hold # None /\ hold'.left = hold.left - 1
    BY <1>1 DEF Wanes
  <2>2. PICK l \in Leases : hold.left <= l
    BY <1>1, <2>1 DEF LeaseHeld
  <2>3. hold.left \in Nat /\ l \in Nat
    BY <1>2, <2>1, Times
  <2>4. hold.left - 1 <= l
    BY <2>2, <2>3
  <2> QED
    BY <2>1, <2>4
<1>5. ASSUME NEW q \in Requests
      PROVE  Covered(q)'
  <2>1. Covered(q) /\ Ages(q)
    BY DEF Sound, Ticks
  <2>2. ComingReserved(q)'
    <3>1. /\ ~(req'[q].pc = "ready" /\ Interacts(q)')
          /\ Coming(q)' = Coming(q)
      BY <2>1 DEF Ages, SameAsked, Interacts, SameMessage, Coming, AtNode
    <3>2. ASSUME Coming(q)
          PROVE  /\ resv' # None /\ resv'.id = net'[q].id
                 /\ resv'.left > Remaining(q)'
                 /\ net'[q].id \notin shortened =>
                       resv'.left >= net'[q].lease + Remaining(q)'
      <4>1. /\ resv # None /\ resv.id = net[q].id /\ resv.left > Remaining(q)
            /\ net[q].id \notin shortened =>
                  resv.left >= net[q].lease + Remaining(q)
            /\ AtNode(q) /\ net[q].op # "input"
        BY <2>1, <3>2 DEF Covered, ComingReserved, Coming
      <4>2. Remaining(q) \in Nat \ {0} /\ Remaining(q)' = Remaining(q) - 1
        BY <1>1, <2>1, <4>1, Measures DEF Ages, AtNode, Remaining
      <4>3. resv.left \in Nat /\ net[q].lease \in Nat
        BY <1>1, <4>1, Measures
      <4>4. /\ resv.left # 1 /\ resv.left - 1 > Remaining(q) - 1
            /\ net[q].id \notin shortened =>
                  resv.left - 1 >= net[q].lease + (Remaining(q) - 1)
        BY <4>1, <4>2, <4>3
      <4>5. net'[q].id = net[q].id /\ net'[q].lease = net[q].lease
        BY <2>1 DEF Ages, SameMessage
      <4>6. resv' # None /\ resv'.id = resv.id /\ resv'.left = resv.left - 1
        BY <1>1, <4>1, <4>4 DEF Wanes
      <4> QED
        BY <4>1, <4>2, <4>4, <4>5, <4>6
    <3> QED
      BY <1>1, <3>1, <3>2 DEF ComingReserved
  <2>3. HoldTells(q)'
    <3>1. (Replied(q)' = Replied(q)) /\ net'[q].reply = net[q].reply
      BY <2>1 DEF Ages, Replied, Active
    <3>2. hold' # None =>
             hold # None /\ hold'.id = hold.id /\ hold'.left = hold.left - 1
      BY <1>1 DEF Wanes
    <3>3. ASSUME hold # None, hold.left <= net[q].left
          PROVE  hold.left - 1 <= Less(net[q].left)
      <4>1. hold.left \in Nat \ {0} /\ net[q].left \in Nat
        BY <1>1, <3>3, Measures
      <4> QED
        BY <3>3, <4>1 DEF Less
    <3>4. net'[q].left = Less(net[q].left) /\ req'[q].id = req[q].id
      BY <2>1 DEF Ages, SameAsked
    <3> QED
      BY <2>1, <3>1, <3>2, <3>3, <3>4 DEF Covered, HoldTells
  <2> QED
    BY <2>2, <2>3 DEF Covered
<1> QED
  BY <1>3, <1>4, <1>5 DEF Sound

\* IndInv is inductive.
LEMMA IndInvNext ==
    ASSUME Prompt, SlackCovers, IndInv, [Next]_vars
    PROVE  IndInv'
<1>1. Over /\ Over' /\ Sound /\ InTime /\ Core
  BY OverNext DEF IndInv, Over, InTime
<1>2. ASSUME Ticks
      PROVE  Sound'
  BY <1>1, <1>2, TickIsSound
<1>3. ASSUME NEW q \in Requests, Moves(q)
      PROVE  Sound'
  <2>1. CASE Enters(q) \/ Withdraws(q) \/ Waits(q) \/ Continues(q)
    BY <1>1, <2>1, HandlerIsSound
  <2>2. CASE Asks(q) \/ Cancels(q)
    BY <1>1, <2>2, SenderIsSound
  <2>3. CASE Starts(q) \/ Breaks(q) \/ Reports(q) \/ Frees(q)
    BY <1>1, <2>3, NodeIsSound
  <2>4. CASE Follows(q) \/ Ends(q)
    BY <1>1, <2>4, ReceiptIsSound
  <2>5. CASE Holds(q)
    BY <1>1, <2>5, HoldIsSound
  <2>6. CASE Reserving(q)
    BY <1>1, <2>6, ReservingIsSound
  <2> QED
    BY <1>3, <2>1, <2>2, <2>3, <2>4, <2>5, <2>6 DEF Moves, Leaving
<1>4. ASSUME UNCHANGED vars
      PROVE  Sound'
  BY <1>1, <1>4
  DEF vars, Sound, HeldIsReserved, LeaseHeld, Covered, ComingReserved,
      HoldTells, Coming, AtNode, Remaining, Replied, Active, Interacts
<1>5. Sound'
  BY <1>1, <1>2, <1>3, <1>4, StepDoes
<1> QED
  BY <1>1, <1>5 DEF IndInv

\* Whatever the node holds, or will hold once it has worked on what it was
\* sent, the broker has reserved, unless its caller shortened the reservation.
THEOREM ReservationCovers == Prompt /\ SlackCovers => (Spec => []IndInv)
<1> SUFFICES ASSUME Prompt, SlackCovers PROVE Spec => []IndInv
  OBVIOUS
<1>1. Init => IndInv
  <2> SUFFICES ASSUME Init PROVE Over /\ Sound
    BY DEF IndInv
  <2>1. \A q \in Requests : req[q].pc = "idle" /\ net[q].at = "none"
    BY DEF Init, Fresh, NoMsg
  <2>2. Over
    BY OverInit
  <2>3. Sound
    BY <2>1 DEF Init, Sound, HeldIsReserved, LeaseHeld, Covered,
                ComingReserved, HoldTells, Coming, AtNode, Replied, Active
  <2> QED
    BY <2>2, <2>3
<1>2. IndInv /\ [Next]_vars => IndInv'
  BY IndInvNext
<1> QED
  BY <1>1, <1>2, PTL DEF Spec

\* While the node holds an interaction whose reservation no step shortened, the
\* broker has it reserved for no less time.
THEOREM HoldIsReserved == Prompt /\ SlackCovers => (Spec => []HeldIsReserved)
<1> SUFFICES ASSUME Prompt, SlackCovers PROVE Spec => []HeldIsReserved
  OBVIOUS
<1>1. IndInv => HeldIsReserved
  BY DEF IndInv, Sound
<1> QED
  BY <1>1, ReservationCovers, PTL

\* No ordinary input is sent to a desktop where a begin or continue is at work,
\* or that an interaction holds whose reservation no step shortened.
THEOREM InputKeptOut ==
    Prompt /\ SlackCovers => (Spec => NoInputIntoInteraction)
<1> SUFFICES ASSUME Prompt, SlackCovers PROVE Spec => NoInputIntoInteraction
  OBVIOUS
<1>1. IndInv => \A q \in Requests :
                   req[q].pc = "ready" /\ req[q].op = "input" =>
                      /\ hold = None \/ hold.id \in shortened
                      /\ \A p \in Requests :
                            AtNode(p) => net[p].op \notin {"begin", "continue"}
  <2> SUFFICES ASSUME IndInv, NEW q \in Requests,
                      req[q].pc = "ready", req[q].op = "input"
               PROVE  /\ hold = None \/ hold.id \in shortened
                      /\ \A p \in Requests :
                            AtNode(p) => net[p].op \notin {"begin", "continue"}
    OBVIOUS
  <2>1. resv = None
    BY DEF IndInv, Over, InTime, Core, Reserved, Active, Interacts
  <2> QED
    BY <2>1 DEF IndInv, Sound, HeldIsReserved, Covered, ComingReserved, Coming
<1>2. IndInv /\ [Next]_vars =>
         [\A q \in Requests :
             req[q].pc = "ready" /\ req'[q].pc = "waiting"
                /\ req[q].op = "input"
             => /\ hold = None \/ hold.id \in shortened
                /\ \A p \in Requests :
                      AtNode(p) => net[p].op \notin {"begin", "continue"}]_vars
  BY <1>1
<1> QED
  BY <1>2, ReservationCovers, PTL DEF Spec, NoInputIntoInteraction

=============================================================================
