------------------------------ MODULE Renewal ------------------------------
(***************************************************************************)
(* Certificate renewal of a node over its tunnel: renewIfDue, renewNode    *)
(* and renewSweep of broker.go and the admin endpoint that forces one.     *)
(*                                                                         *)
(* All the state is keyed by the node's SVID, so the module is about one   *)
(* node.  A certificate is its expiry.  The tower reports the expiry it    *)
(* issued last, and the allow-list lags it (broker.go:283-284).            *)
(***************************************************************************)
EXTENDS Integers

CONSTANTS
    Workers,  \* goroutines of renewIfDue, from a reconnect or the sweep
    Admins,   \* requests to the admin endpoint /renew
    Life,     \* validity of a certificate
    Window,   \* renewBefore: 48 hours by default
    Cooldown, \* renewCooldown: 30 minutes
    MaxClock, \* bound on the clock, for model checking
    Never     \* before the first renewal

ASSUME JobsAssumption == Workers \cap Admins = {}
ASSUME PeriodAssumption ==
    /\ Life \in Nat /\ Window \in Nat \ {0} /\ Cooldown \in Nat
    /\ MaxClock \in Nat /\ Window < Life /\ Never \notin Nat

VARIABLES
    clock,
    node,   \* external: expiry of the certificate the node uses
    tower,  \* external: expiry of the one issued last
    list,   \* NodeEntry.NotAfter in the allow-list
    guard,  \* Broker.renewing holds the SVID
    last,   \* Broker.lastRenew
    renewal \* local state of every renewal: its step and its certificate

renewalVars == <<clock, node, tower, list, guard, last, renewal>>

Renewals == Workers \cup Admins
NoJob == [pc |-> "idle", cert |-> 0]

RenewalTypeOK ==
    /\ clock \in Nat
    /\ node \in Nat /\ tower \in Nat /\ list \in Nat
    /\ guard \in BOOLEAN
    /\ last \in Nat \cup {Never}
    /\ renewal \in [Renewals -> [pc : {"idle", "check", "csr", "sign", "apply",
                                       "applied"}, cert : Nat]]

RenewalInit ==
    /\ clock = 0
    /\ node = Life /\ tower = Life /\ list = Life
    /\ guard = FALSE
    /\ last = Never
    /\ renewal = [j \in Renewals |-> NoJob]

-----------------------------------------------------------------------------
(* External: time, and the tower's answers to the refreshers.              *)

Tick ==
    /\ clock < MaxClock
    /\ clock' = clock + 1
    /\ UNCHANGED <<node, tower, list, guard, last, renewal>>

Refresh ==
    /\ list' = tower
    /\ UNCHANGED <<clock, node, tower, guard, last, renewal>>

-----------------------------------------------------------------------------
(* renewIfDue.                                                             *)

\* Faulty: the guard is set and never looked at.
TriggerUnguarded(w) ==
    /\ w \in Workers /\ renewal[w].pc = "idle"
    /\ guard' = TRUE
    /\ renewal' = [renewal EXCEPT ![w].pc = "check"]
    /\ UNCHANGED <<clock, node, tower, list, last>>

\* LoadOrStore; a goroutine that finds the guard set returns at once.
Trigger(w) ==
    /\ w \in Workers /\ renewal[w].pc = "idle"
    /\ ~guard
    /\ guard' = TRUE
    /\ renewal' = [renewal EXCEPT ![w].pc = "check"]
    /\ UNCHANGED <<clock, node, tower, list, last>>

InWindow(expiry) == expiry - clock < Window
Cooling == last # Never /\ clock - last < Cooldown

\* Every return of renewIfDue runs the deferred delete of the guard.
Return(j) ==
    /\ guard' = IF j \in Workers THEN FALSE ELSE guard
    /\ renewal' = [renewal EXCEPT ![j] = NoJob]

NotDue(w) ==
    /\ renewal[w].pc = "check"
    /\ ~InWindow(list) \/ Cooling
    /\ Return(w)
    /\ UNCHANGED <<clock, node, tower, list, last>>

\* Faulty: no cooldown.
DueWithoutCooldown(w) ==
    /\ renewal[w].pc = "check"
    /\ InWindow(list)
    /\ renewal' = [renewal EXCEPT ![w].pc = "csr"]
    /\ UNCHANGED <<clock, node, tower, list, guard, last>>

Due(w) ==
    /\ renewal[w].pc = "check"
    /\ InWindow(list) /\ ~Cooling
    /\ renewal' = [renewal EXCEPT ![w].pc = "csr"]
    /\ UNCHANGED <<clock, node, tower, list, guard, last>>

\* The admin endpoint calls renewNode directly.
AdminRenew(a) ==
    /\ a \in Admins /\ renewal[a].pc = "idle"
    /\ renewal' = [renewal EXCEPT ![a].pc = "csr"]
    /\ UNCHANGED <<clock, node, tower, list, guard, last>>

-----------------------------------------------------------------------------
(* renewNode: three round trips.                                           *)

Csr(j) ==
    /\ renewal[j].pc = "csr"
    /\ renewal' = [renewal EXCEPT ![j].pc = "sign"]
    /\ UNCHANGED <<clock, node, tower, list, guard, last>>

\* Faulty: the validity is counted backwards.
SignBackdated(j) ==
    /\ renewal[j].pc = "sign"
    /\ tower' = clock - Life
    /\ renewal' = [renewal EXCEPT
          ![j] = [pc |-> "apply", cert |-> clock - Life]]
    /\ UNCHANGED <<clock, node, list, guard, last>>

\* The tower issues; its answer may still be lost.
Sign(j) ==
    /\ renewal[j].pc = "sign"
    /\ tower' = clock + Life
    /\ renewal' = [renewal EXCEPT
          ![j] = [pc |-> "apply", cert |-> clock + Life]]
    /\ UNCHANGED <<clock, node, list, guard, last>>

\* The node installs it; its answer may still be lost.
Apply(j) ==
    /\ renewal[j].pc = "apply"
    /\ node' = renewal[j].cert
    /\ renewal' = [renewal EXCEPT ![j].pc = "applied"]
    /\ UNCHANGED <<clock, tower, list, guard, last>>

\* Only a confirmed renewal that was scheduled starts the cooldown.
Confirmed(j) ==
    /\ renewal[j].pc = "applied"
    /\ last' = IF j \in Workers THEN clock ELSE last
    /\ Return(j)
    /\ UNCHANGED <<clock, node, tower, list>>

\* Faulty: a failed renewal leaves the guard behind.
FailsGuarded(j) ==
    /\ renewal[j].pc \in {"csr", "sign", "apply", "applied"}
    /\ renewal' = [renewal EXCEPT ![j] = NoJob]
    /\ UNCHANGED <<clock, node, tower, list, guard, last>>

\* A round trip fails, or its answer is an error or cannot be read.
Fails(j) ==
    /\ renewal[j].pc \in {"csr", "sign", "apply", "applied"}
    /\ Return(j)
    /\ UNCHANGED <<clock, node, tower, list, last>>

-----------------------------------------------------------------------------
RenewNode(j) == Csr(j) \/ Sign(j) \/ Apply(j) \/ Confirmed(j) \/ Fails(j)

RenewalNext ==
    \/ Tick \/ Refresh
    \/ \E w \in Workers : Trigger(w) \/ NotDue(w) \/ Due(w)
    \/ \E a \in Admins : AdminRenew(a)
    \/ \E j \in Renewals : RenewNode(j)

RenewalSpec == RenewalInit /\ [][RenewalNext]_renewalVars

\* The sweep comes round and the heartbeat refreshes; goroutines run; no step
\* of a renewal fails for ever if it is tried for ever.
RenewalFairness ==
    /\ WF_renewalVars(Refresh)
    /\ \A w \in Workers :
          /\ WF_renewalVars(Trigger(w)) /\ WF_renewalVars(NotDue(w) \/ Due(w))
          /\ WF_renewalVars(RenewNode(w))
          /\ SF_renewalVars(Csr(w)) /\ SF_renewalVars(Sign(w))
          /\ SF_renewalVars(Apply(w))
    /\ \A a \in Admins : WF_renewalVars(RenewNode(a))

RenewalFairSpec == RenewalSpec /\ RenewalFairness

-----------------------------------------------------------------------------
Scheduled == {w \in Workers : renewal[w].pc # "idle"}

\* "issue at most one renewal per node" (broker.go:338): of the reconnects
\* and sweeps that race, one at a time gets past the guard, and the guard is
\* never left behind by a renewal that ended, however it ended.
OneScheduledRenewal ==
    /\ \A v, w \in Scheduled : v = w
    /\ guard = (Scheduled # {})

\* A scheduled renewal the node confirmed is not followed by another within
\* the cooldown, although the allow-list still shows the old expiry
\* (broker.go:281-284): no storm.
NoStorm ==
    [][\A w \in Workers :
          renewal[w].pc = "sign" /\ renewal'[w].pc = "apply"
            => last = Never \/ clock - last >= Cooldown]_renewalVars

\* What the allow-list shows as due, outside the cooldown, is renewed or at
\* least reissued, through any number of failed attempts (broker.go:340-365).
DueIsReissued ==
    (InWindow(list) /\ ~Cooling) ~> (~InWindow(list) \/ Cooling)
=============================================================================
