------------------------------ MODULE CallLog ------------------------------
(***************************************************************************)
(* The audit trail: the bounded buffer of calllog.go, the handlers that    *)
(* add to it and the two goroutines of main.go that ship it to the tower.  *)
(*                                                                         *)
(* A call that is authorized and resolved adds a "start" event and later   *)
(* its terminal event; every other call adds only the terminal one.  An    *)
(* event is its call and its phase.                                        *)
(***************************************************************************)
EXTENDS Naturals, Sequences, FiniteSets, SequencesExt

CONSTANTS
    Calls,     \* authenticated calls
    Anonymous, \* the ones recorded without a RequestID: knowledge
    Shippers,  \* goroutines that ship the buffer
    Fast,      \* the low-latency one; any other is the heartbeat
    Capacity   \* capacity of the buffer: 2000 in main.go

ASSUME AnonymousAssumption == Anonymous \subseteq Calls
ASSUME CapacityAssumption == Capacity \in Nat \ {0}
ASSUME ShippersAssumption == IsFiniteSet(Shippers)

VARIABLES
    stage,   \* how far each call has got
    buf,     \* CallLog.buf
    notify,  \* CallLog.notify: the size-1 channel holds a token
    pc,      \* where each shipper is
    batch,   \* what each shipper has drained and not settled
    applied  \* events the tower has written

vars == <<stage, buf, notify, pc, batch, applied>>

Start(c) == [call |-> c, phase |-> "start"]
Terminal(c) == [call |-> c, phase |-> ""]
Events == [call : Calls, phase : {"start", ""}]

TypeOK ==
    /\ stage \in [Calls -> {"new", "running", "done"}]
    /\ buf \in Seq(Events)
    /\ notify \in BOOLEAN
    /\ pc \in [Shippers -> {"idle", "coalescing", "sending", "written"}]
    /\ batch \in [Shippers -> Seq(Events)]
    /\ applied \subseteq Events

Init ==
    /\ stage = [c \in Calls |-> "new"]
    /\ buf = <<>>
    /\ notify = FALSE
    /\ pc = [s \in Shippers |-> "idle"]
    /\ batch = [s \in Shippers |-> <<>>]
    /\ applied = {}

-----------------------------------------------------------------------------
(* The handlers.                                                           *)

\* CallLog.Add: drop the oldest event of a full buffer, append, then signal
\* without blocking.
Add(e) ==
    /\ buf' = Append(IF Len(buf) >= Capacity THEN Tail(buf) ELSE buf, e)
    /\ notify' = TRUE

\* recordStart: the call is authorized and resolved, and about to be injected.
RecordStart(c) ==
    /\ stage[c] = "new" /\ c \notin Anonymous
    /\ stage' = [stage EXCEPT ![c] = "running"]
    /\ Add(Start(c))
    /\ UNCHANGED <<pc, batch, applied>>

\* record, deferred by every handler: the call ends, started or not.
Record(c) ==
    /\ stage[c] # "done"
    /\ stage' = [stage EXCEPT ![c] = "done"]
    /\ Add(Terminal(c))
    /\ UNCHANGED <<pc, batch, applied>>

-----------------------------------------------------------------------------
(* The shippers.                                                           *)

\* The fast shipper takes the token and waits for a burst to end.
Notified(s) ==
    /\ s = Fast /\ pc[s] = "idle"
    /\ notify
    /\ notify' = FALSE
    /\ pc' = [pc EXCEPT ![s] = "coalescing"]
    /\ UNCHANGED <<stage, buf, batch, applied>>

\* CallLog.Drain.  With nothing to ship the shipper waits again.
Drain(s) ==
    /\ batch' = [batch EXCEPT ![s] = buf]
    /\ buf' = <<>>
    /\ pc' = [pc EXCEPT ![s] = IF buf = <<>> THEN "idle" ELSE "sending"]
    /\ UNCHANGED <<stage, notify, applied>>

DrainCoalesced(s) == pc[s] = "coalescing" /\ Drain(s)

\* Faulty: no retry ticker, only the signal of a new event.
DrainWhenNotified(s) == pc[s] = "idle" /\ buf # <<>> /\ notify /\ Drain(s)

\* The fast shipper's retry ticker, or the heartbeat's report.  (A tick that
\* finds the buffer empty changes nothing.)
DrainOnTick(s) == pc[s] = "idle" /\ buf # <<>> /\ Drain(s)

\* The tower writes the batch; the answer is still under way.
TowerWrites(s) ==
    /\ pc[s] = "sending"
    /\ applied' = applied \cup ToSet(batch[s])
    /\ pc' = [pc EXCEPT ![s] = "written"]
    /\ UNCHANGED <<stage, buf, notify, batch>>

Shipped(s) ==
    /\ pc[s] = "written"
    /\ pc' = [pc EXCEPT ![s] = "idle"]
    /\ batch' = [batch EXCEPT ![s] = <<>>]
    /\ UNCHANGED <<stage, buf, notify, applied>>

\* Faulty: the cap is forgotten.
RequeueUncapped(evs) == buf' = evs \o buf

\* Faulty: what was added during the ship is overwritten.
RequeueOverwrites(evs) == buf' = evs

\* CallLog.Requeue: in front of what was added since, the last Capacity kept.
Requeue(evs) ==
    LET merged == evs \o buf
    IN  buf' = IF Len(merged) > Capacity
               THEN SubSeq(merged, Len(merged) - Capacity + 1, Len(merged))
               ELSE merged

\* The request was refused or lost, or its answer was.
ShipFails(s) ==
    /\ pc[s] \in {"sending", "written"}
    /\ Requeue(batch[s])
    /\ pc' = [pc EXCEPT ![s] = "idle"]
    /\ batch' = [batch EXCEPT ![s] = <<>>]
    /\ UNCHANGED <<stage, notify, applied>>

-----------------------------------------------------------------------------
Ship(s) ==
    \/ Notified(s) \/ DrainCoalesced(s) \/ DrainOnTick(s)
    \/ TowerWrites(s) \/ Shipped(s) \/ ShipFails(s)

Next ==
    \/ \E c \in Calls : RecordStart(c) \/ Record(c)
    \/ \E s \in Shippers : Ship(s)

Spec == Init /\ [][Next]_vars

\* Tickers tick and posts return; a control link that fails again and again
\* does not fail for ever.
Fairness ==
    \A s \in Shippers :
        /\ WF_vars(DrainCoalesced(s))
        /\ WF_vars(DrainOnTick(s))
        /\ SF_vars(TowerWrites(s))
        /\ WF_vars(pc[s] = "written" /\ (Shipped(s) \/ ShipFails(s)))

FairSpec == Spec /\ Fairness

-----------------------------------------------------------------------------
\* Where an event can be before the tower has it.
Held(e) == e \in ToSet(buf) \/ \E s \in Shippers : e \in ToSet(batch[s])

Bounded ==
    /\ Len(buf) <= Capacity
    /\ \A s \in Shippers : Len(batch[s]) <= Capacity

OneCopy ==
    /\ IsInjective(buf)
    /\ \A s \in Shippers :
          /\ IsInjective(batch[s])
          /\ ToSet(buf) \cap ToSet(batch[s]) = {}
          /\ \A t \in Shippers \ {s} :
                ToSet(batch[s]) \cap ToSet(batch[t]) = {}

\* However adding, draining and requeueing by two shippers interleave, neither
\* the buffer nor a batch outgrows the capacity, and an event is held in one
\* place only (calllog.go:93-95, 112-157).
BufferSound == Bounded /\ OneCopy

\* The trail without its queues: what is held anywhere is pending.
Trail == INSTANCE AuditTrail WITH
    pending <- {e \in Events : Held(e)},
    written <- applied

\* Two shippers that drain, fail and requeue at the same time implement the
\* abstract trail: no event is recorded twice or out of turn, and none that
\* the tower lacks is lost but to a full buffer (calllog.go:112-157,
\* main.go:137-156).
ImplementsTrail == Trail!Spec

\* Nothing stays behind in the broker: every recorded event is written, unless
\* a full buffer displaced it first.  The retry ticker covers what a failed
\* ship put back without a signal (main.go:137-156).
NothingStuck ==
    \A e \in Events : Held(e) ~> (e \in applied \/ ~Held(e))
=============================================================================
