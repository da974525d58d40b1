----------------------------- MODULE DesktopTask -----------------------------
(***************************************************************************)
(* Desktop operations of several owners on several nodes and the frame     *)
(* cache they share: remember, frame, execute, act, wait and ground of     *)
(* desktop.go, with the deadline and the repeated authorization that       *)
(* desktopHandler gives them.                                              *)
(*                                                                         *)
(* DesktopGate has one node, interactions and late input; here requests    *)
(* are simple and what counts is the frame each step names.  A frame is    *)
(* its serial number in the order of remember: nodes draw frame IDs at     *)
(* random, and remember reads the clock under the lock.  "launch" stands   *)
(* for launch, recover, lock and attach_console, which take the same path. *)
(***************************************************************************)
EXTENDS Naturals, Sequences, FiniteSets, FiniteSetsExt

CONSTANTS
    Ops,       \* operations; each happens once
    Owners,
    Nodes,
    Steps,     \* steps of a task: up to 8 in the code
    MaxFrames, \* frames the cache holds: 64
    TTL,       \* age beyond which a frame is not served: 180 s
    Deadline   \* time an operation may go on sending: 100 s

ASSUME BoundsAssumption ==
    /\ {Steps, MaxFrames, Deadline} \subseteq Nat \ {0}
    /\ TTL \in Nat /\ Deadline <= TTL

VARIABLES
    busy,   \* DesktopService.busy
    made,   \* every frame remembered so far: whose it is, and its age
    cache,  \* DesktopService.frames
    op,     \* local state of every operation
    permit, \* owners the tower authorizes, with a valid token
    tally   \* of every operation: the requests its node was sent, those that it
            \* confirmed, and the inputs sent after the grant was withdrawn

vars == <<busy, made, cache, op, permit, tally>>

Kinds == {"frame", "observe", "wait", "launch", "find", "act", "task"}

\* ask: what is on its way to the node; at: steps of a task done.
New == [pc |-> "new", kind |-> "frame", owner |-> "", node |-> "",
        frame |-> 0, ask |-> "none", at |-> 0, left |-> 0, answer |-> "none"]

Count == Len(made)

Frames == [owner : Owners, node : Nodes, age : 0 .. TTL + 1]

OpState(count) ==
    [pc : {"new", "send", "sent", "step", "ground", "auth", "checked", "done"},
     kind : Kinds, owner : Owners \cup {""}, node : Nodes \cup {""},
     frame : 0 .. count, ask : {"none", "observe", "wait", "input"},
     at : 0 .. Steps, left : 0 .. Deadline, answer : {"none", "ok", "failed"}]

Tallies == [asked : Nat, sure : Nat, late : Nat]

TypeOK ==
    /\ busy \subseteq Nodes
    /\ made \in Seq(Frames)
    /\ cache \subseteq 1 .. Count
    /\ op \in [Ops -> OpState(Count)]
    /\ permit \subseteq Owners
    /\ tally \in [Ops -> Tallies]

Init ==
    /\ busy = {}
    /\ made = <<>>
    /\ cache = {}
    /\ op = [o \in Ops |-> New]
    /\ permit = Owners
    /\ tally = [o \in Ops |-> [asked |-> 0, sure |-> 0, late |-> 0]]

-----------------------------------------------------------------------------
(* The cache.                                                              *)

\* frame: it is there, it is w's, of node n, and young enough.
Available(f, w, n) ==
    /\ f \in cache
    /\ made[f].owner = w /\ made[f].node = n
    /\ made[f].age <= TTL

HasFrame(o) == Available(op[o].frame, op[o].owner, op[o].node)

\* Faulty: the frame to be evicted is the newest.
KeptDropsNewest ==
    LET young == {f \in cache : made[f].age <= TTL} IN
    IF Cardinality(young) >= MaxFrames THEN young \ {Max(young)} ELSE young

\* What remember leaves in the cache: nothing expired, and room for one.
Kept ==
    LET young == {f \in cache : made[f].age <= TTL} IN
    IF Cardinality(young) >= MaxFrames THEN young \ {Min(young)} ELSE young

\* remember, of a receipt whose observation and image are sound.  The age of a
\* frame after which MaxFrames others came is of no interest any more.
Remember(o) ==
    /\ made' = [f \in 1 .. Count + 1 |->
          IF f = Count + 1
          THEN [owner |-> op[o].owner, node |-> op[o].node, age |-> 0]
          ELSE IF f <= Count + 1 - MaxFrames
          THEN [made[f] EXCEPT !.age = TTL + 1]
          ELSE made[f]]
    /\ cache' = Kept \cup {Count + 1}

-----------------------------------------------------------------------------
(* execute: every operation but the reading of a frame takes the gate.     *)

\* What is left of operation c when it has ended holding frame f; of one that
\* failed only that it did.
Ended(c, f, answer) ==
    IF answer = "ok"
    THEN [c EXCEPT !.pc = "done", !.ask = "none", !.left = 0, !.at = 0,
                   !.frame = f, !.answer = "ok"]
    ELSE [New EXCEPT !.pc = "done", !.answer = answer]

\* The operation ends; the deferred delete opens the gate.
Leave(o, f, answer) ==
    /\ op' = [op EXCEPT ![o] = Ended(@, f, answer)]
    /\ busy' = busy \ {op[o].node}

Goes(o, pc) == op' = [op EXCEPT ![o].pc = pc] /\ UNCHANGED busy

Working(o) == op[o].pc \notin {"new", "done"}

\* The context has neither expired nor been cancelled.
Live(o) == op[o].left > 0

Fails(o) ==
    /\ Leave(o, 0, "failed")
    /\ UNCHANGED <<made, cache, permit, tally>>

First == [observe |-> "send", task |-> "send", wait |-> "send",
          launch |-> "auth", find |-> "step", act |-> "auth"]

\* An operation names a frame if it is to find or act on one: any frame, for
\* callers may be mistaken about whose it is.  On a busy node it is refused,
\* and nothing changes.
Enter(o, w, n, kind, f) ==
    /\ op[o].pc = "new" /\ kind # "frame"
    /\ n \notin busy
    /\ (f = 0) = (kind \notin {"find", "act"})
    /\ op' = [op EXCEPT ![o] =
          [New EXCEPT !.pc = First[kind], !.kind = kind, !.owner = w,
                      !.node = n, !.frame = f, !.left = Deadline,
                      !.ask = IF kind \in {"observe", "task"} THEN "observe"
                              ELSE IF kind = "wait" THEN "wait" ELSE "input"]]
    /\ busy' = busy \cup {n}
    /\ UNCHANGED <<made, cache, permit, tally>>

\* The operation "frame": served or refused at once, without the gate.
ReadFrame(o, w, n, f) ==
    /\ op[o].pc = "new" /\ f > 0
    /\ op' = [op EXCEPT ![o] =
          Ended([New EXCEPT !.owner = w, !.node = n], f,
                IF Available(f, w, n) THEN "ok" ELSE "failed")]
    /\ UNCHANGED <<busy, made, cache, permit, tally>>

\* Faulty: every step has the whole time again.
StepRestarts(o) ==
    /\ op[o].pc = "step"
    /\ HasFrame(o) /\ (op[o].kind = "task" => Live(o))
    /\ op' = [op EXCEPT ![o].pc = "ground", ![o].left = Deadline]
    /\ UNCHANGED <<busy, made, cache, permit, tally>>

\* The next step of a task, or of a find: its frame must be there.  A step
\* with a target is grounded, a wait step is sent as it is.
Step(o) ==
    /\ op[o].pc = "step"
    /\ HasFrame(o) /\ (op[o].kind = "task" => Live(o))
    /\ \/ Goes(o, "ground")
       \/ op[o].kind = "task" /\ Goes(o, "auth")
       \/ /\ op[o].kind = "task"
          /\ op' = [op EXCEPT ![o].pc = "send", ![o].ask = "wait"]
          /\ UNCHANGED busy
    /\ UNCHANGED <<made, cache, permit, tally>>

\* The frame is gone, the context is over, or the node has no wait steps.
StepFails(o) ==
    /\ op[o].pc = "step"
    /\ ~HasFrame(o) \/ op[o].kind = "task"
    /\ Fails(o)

\* The grounder answers with a point; a find ends here.
Grounded(o) ==
    /\ op[o].pc = "ground" /\ Live(o)
    /\ IF op[o].kind = "find" THEN Leave(o, op[o].frame, "ok")
       ELSE Goes(o, "auth")
    /\ UNCHANGED <<made, cache, permit, tally>>

\* No answer, no point, or none within the frame.
NotGrounded(o) == op[o].pc = "ground" /\ Fails(o)

\* Faulty: only the first step of a task asks again.
AuthorizedOnce(o) ==
    /\ op[o].pc = "auth" /\ Live(o)
    /\ op[o].owner \in permit \/ op[o].at > 0
    /\ IF op[o].kind = "launch" THEN Goes(o, "send") ELSE Goes(o, "checked")
    /\ UNCHANGED <<made, cache, permit, tally>>

\* The token is validated and the tower asked again, before each input.
Authorized(o) ==
    /\ op[o].pc = "auth" /\ Live(o)
    /\ op[o].owner \in permit
    /\ IF op[o].kind = "launch" THEN Goes(o, "send") ELSE Goes(o, "checked")
    /\ UNCHANGED <<made, cache, permit, tally>>

\* Refused, or the tower cannot be reached.
NotAuthorized(o) == op[o].pc = "auth" /\ Fails(o)

\* The request is on its way.  Observations are not counted: only what the
\* caller asked the node to do.
Sends(o, ask) ==
    /\ op' = [op EXCEPT ![o].pc = "sent", ![o].ask = ask]
    /\ tally' = [tally EXCEPT
          ![o].asked = IF ask = "observe" THEN @ ELSE @ + 1,
          ![o].late = IF ask = "input" /\ op[o].owner \notin permit
                      THEN @ + 1 ELSE @]
    /\ UNCHANGED <<busy, made, cache, permit>>

Dispatch(o) ==
    /\ op[o].pc = "send" /\ Live(o)
    /\ Sends(o, op[o].ask)

\* act reads the frame again: grounding and authorization took their time.
Act(o) ==
    /\ op[o].pc = "checked" /\ Live(o)
    /\ HasFrame(o)
    /\ Sends(o, "input")

\* The context is over, the frame is gone, was not to be acted on, or the
\* pointer is outside.
NotSent(o) ==
    /\ \/ op[o].pc = "send" /\ ~Live(o)
       \/ op[o].pc = "checked"
    /\ Fails(o)

-----------------------------------------------------------------------------
(* The node, external, and its receipts.                                   *)

Confirmed(o) ==
    tally' = [tally EXCEPT
                 ![o].sure = IF op[o].ask = "observe" THEN @ ELSE @ + 1]

\* Where an operation goes on after its node did as asked, holding frame f.
Onward(o, f) ==
    LET k == IF op[o].ask = "observe" THEN 0 ELSE op[o].at + 1
        over == op[o].kind # "task" \/ k = Steps
    IN  IF over THEN Leave(o, f, "ok")
        ELSE /\ op' = [op EXCEPT ![o].pc = "step", ![o].ask = "none",
                                 ![o].at = k, ![o].frame = f]
             /\ UNCHANGED busy

\* ok, with a fresh observation.
Observed(o) ==
    /\ op[o].pc = "sent"
    /\ Remember(o)
    /\ Confirmed(o)
    /\ Onward(o, Count + 1)
    /\ UNCHANGED permit

\* ok and nothing else: a task goes on with the frame it has.
Bare(o) ==
    /\ op[o].pc = "sent" /\ op[o].ask # "observe"
    /\ Confirmed(o)
    /\ Onward(o, op[o].frame)
    /\ UNCHANGED <<made, cache, permit>>

\* An observation without an observation: execute panics (desktop.go:703), the
\* deferred calls run and the caller gets no answer.
Panics(o) ==
    /\ op[o].pc = "sent" /\ op[o].ask = "observe"
    /\ op[o].kind \in {"observe", "task"}
    /\ Leave(o, 0, "none")
    /\ UNCHANGED <<made, cache, permit, tally>>

\* The node waited in vain: it shows what it sees, and the task stops.
WaitedInVain(o) ==
    /\ op[o].pc = "sent" /\ op[o].ask = "wait" /\ op[o].kind = "task"
    /\ Remember(o)
    /\ Leave(o, 0, "failed")
    /\ UNCHANGED <<permit, tally>>

\* Faulty: an operation whose receipt is lost goes on with its next step.
NoReceiptIgnored(o) ==
    /\ op[o].pc = "sent"
    /\ Onward(o, op[o].frame)
    /\ UNCHANGED <<made, cache, permit, tally>>

\* Not ok, no receipt in time, or one whose image does not check: the node may
\* have done as asked or not.
NoReceipt(o) ==
    /\ op[o].pc = "sent"
    /\ Fails(o)

-----------------------------------------------------------------------------
\* The caller goes away.
Cancel(o) ==
    /\ Working(o) /\ Live(o)
    /\ op' = [op EXCEPT ![o].left = 0]
    /\ UNCHANGED <<busy, made, cache, permit, tally>>

\* The tower withdraws the grant, or the token expires.
Withdraw(w) ==
    /\ w \in permit
    /\ permit' = permit \ {w}
    /\ UNCHANGED <<busy, made, cache, op, tally>>

\* Frames age, as far as it matters; operations run out of time.
Tick ==
    /\ \/ \E f \in 1 .. Count : made[f].age <= TTL
       \/ \E o \in Ops : Working(o) /\ Live(o)
    /\ made' = [f \in 1 .. Count |->
          [made[f] EXCEPT !.age = IF @ <= TTL THEN @ + 1 ELSE @]]
    /\ op' = [o \in Ops |->
          IF Working(o) /\ Live(o) THEN [op[o] EXCEPT !.left = @ - 1]
          ELSE op[o]]
    /\ UNCHANGED <<busy, cache, permit, tally>>

Execute(o) ==
    \/ Step(o) \/ StepFails(o) \/ Grounded(o)
    \/ NotGrounded(o) \/ Authorized(o) \/ NotAuthorized(o)
    \/ Dispatch(o) \/ Act(o) \/ NotSent(o)

Node(o) ==
    Observed(o) \/ Bare(o) \/ Panics(o) \/ WaitedInVain(o) \/ NoReceipt(o)

Next ==
    \/ \E o \in Ops, w \in Owners, n \in Nodes, f \in 0 .. Count :
          \/ \E kind \in Kinds : Enter(o, w, n, kind, f)
          \/ ReadFrame(o, w, n, f)
    \/ \E o \in Ops : Execute(o) \/ Node(o) \/ Cancel(o)
    \/ \E w \in Owners : Withdraw(w)
    \/ Tick

Spec == Init /\ [][Next]_vars

-----------------------------------------------------------------------------
\* The cache never outgrows its limit, and displaces a frame that is still
\* good only for the newest MaxFrames, in whatever order several owners'
\* operations remember and expire (desktop.go:555-573).
CacheKeepsNewest ==
    /\ Cardinality(cache) <= MaxFrames
    /\ \A f \in 1 .. Count :
          made[f].age <= TTL /\ Count - f < MaxFrames => f \in cache

\* A running task never finds its frame expired, through groundings,
\* authorizations and lost time: it is there unless other operations have
\* filled the whole cache since (desktop.go:232-235, 557, 579, 710-724).
TaskFrameKept ==
    \A o \in Ops :
        op[o].kind = "task" /\ Live(o) /\ op[o].frame # 0
        /\ op[o].pc \in {"step", "ground", "auth", "checked"}
        => HasFrame(o) \/ Count - op[o].frame >= MaxFrames

\* A node is asked for the next step only when it has confirmed the one
\* before; what it is asked it does once or not at all, and "ok" means that it
\* did everything (desktop.go:706-795, desktop_test.go:106-121, 185-199).
NothingAfterDoubt ==
    \A o \in Ops :
        LET t == tally[o] IN
        /\ t.asked <= t.sure + 1
        /\ Working(o) /\ op[o].pc # "sent" => t.asked = t.sure
        /\ op[o].answer = "ok" =>
              /\ t.asked = t.sure
              /\ op[o].kind = "task" => t.asked = Steps

\* When the grant is withdrawn, at most the one input that has passed its
\* check is still sent (desktop.go:236-245, 836-845).
WithdrawnStopsInput == \A o \in Ops : tally[o].late <= 1
=============================================================================
