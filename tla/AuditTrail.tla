----------------------------- MODULE AuditTrail -----------------------------
(***************************************************************************)
(* What the audit trail promises (calllog.go:88-95, 128-157): each event   *)
(* is recorded once, a start before its terminal event; the tower comes to *)
(* have only what was recorded, and never loses it; and an event it does   *)
(* not have is given up only when Capacity others are kept.                *)
(*                                                                         *)
(* Where an event waits, in the buffer or in a batch under way, and how    *)
(* often a batch is sent is left out; CallLog implements this.             *)
(***************************************************************************)
EXTENDS Naturals, FiniteSets

CONSTANTS
    Calls,   \* authenticated calls
    Capacity \* capacity of the buffer

VARIABLES
    stage,   \* how far each call has got
    pending, \* events the broker still holds
    written  \* events the tower has

vars == <<stage, pending, written>>

Event(c, p) == [call |-> c, phase |-> p]

Init ==
    /\ stage = [c \in Calls |-> "new"]
    /\ pending = {}
    /\ written = {}

\* Whatever is not kept is displaced, which takes a full buffer.
MayKeep(kept, added) ==
    kept = pending \/ Cardinality(kept \cup added) >= Capacity

RecordEvent(e) ==
    \E kept \in SUBSET pending :
        /\ MayKeep(kept, {e})
        /\ pending' = kept \cup {e}

Begin(c) ==
    /\ stage[c] = "new"
    /\ stage' = [stage EXCEPT ![c] = "running"]
    /\ RecordEvent(Event(c, "start"))
    /\ UNCHANGED written

End(c) ==
    /\ stage[c] # "done"
    /\ stage' = [stage EXCEPT ![c] = "done"]
    /\ RecordEvent(Event(c, ""))
    /\ UNCHANGED written

Write ==
    /\ \E E \in SUBSET pending : written' = written \cup E
    /\ UNCHANGED <<stage, pending>>

\* The broker lets go of what it knows to be written.
Settle ==
    /\ \E E \in SUBSET (pending \cap written) : pending' = pending \ E
    /\ UNCHANGED <<stage, written>>

Displace ==
    /\ \E kept \in SUBSET pending : MayKeep(kept, {}) /\ pending' = kept
    /\ UNCHANGED <<stage, written>>

Next ==
    \/ \E c \in Calls : Begin(c) \/ End(c)
    \/ Write \/ Settle \/ Displace

Spec == Init /\ [][Next]_vars
=============================================================================
