# XConnect in TLA+

Specifications, model-checking runs and proofs for XConnect, the broker between
agents (callers) and the machines they operate (nodes, which run RCON). The
modules are translated from the Go sources of this repository; file and line
references are to them. `PROJECT.json` maps every definition to its lines.

## 1. The system

XConnect is one Go process. Nodes dial in over mutually authenticated TLS and
keep a reverse HTTP/2 tunnel open; callers present a token and ask for a
command, a file operation, node knowledge, captured output or desktop input;
the tower (Orthanc) says which nodes exist, who may do what, signs certificates
and stores the audit trail. XConnect always dials the tower, never the reverse.

| Component | State it keeps | Operations | Talks to |
|---|---|---|---|
| Tunnel broker (`broker.go`, `allowlist.go`, `main.go`) | `tunnels`, `versions` (two `sync.Map`s), the allow-list | accept a connection, inject a request, watch, reap, refresh, reconcile | tower (list, revocation count), nodes |
| Renewal (`broker.go`, `admin.go`) | `renewing`, `lastRenew` | renew if due, sweep, forced renewal | tower (sign), node (CSR, apply), allow-list |
| Call log (`calllog.go`, `main.go`) | bounded buffer, one-token channel | add, drain, requeue, ship | every handler, tower |
| Caller perimeter (`caller.go`, `admin.go`, `desktop.go`) | one audit event per call | authenticate, authorize, resolve, inject, record | all of the above |
| Updates (`broker.go`, `admin.go`) | `versions` | check on connect, nudge, relay | tower (target), nodes |
| Capture store (`capture.go`) | captures, byte total | put, get, reap | caller perimeter |
| Output reader (`capture.go`, `caller.go`) | none; the caller keeps the cursor | page, tail, search | capture store |
| Desktop service (`desktop.go`, `desktop_interaction_service.go`) | `busy`, `interactions`, `endedInteractions`, `frames` | execute, interact, dispatch | node's desktop |
| Identity login (`desktop_identity.go`) | none; reads mapping and key files | login, status | node, tower, files |

What is hard in it, and to test:

* **Concurrency without transactions.** A `sync.Map` makes single accesses
  atomic; admission, reaping and reconciliation each use several. Three kinds of
  goroutines refresh the same list, two ship the same buffer.
* **Unreliable parties.** A node may act on a request whose answer is lost, a
  tower may write a batch and not be heard, a caller may vanish while its input
  is being typed.
* **Two clocks, two truths.** The broker's reservation and the node's lease, the
  allow-list's expiry and the certificate in use, the clock read before a lock.
* **Limits.** A buffer of 2000 events, four capture quotas, 64 receipts and 64 frames.

What makes each component correct is stated, property by property, in section 4;
the hazards behind them are listed with their lines in `PROJECT.json`.

## 2. Modules

Each component is a module whose variables are the component's state and the
local state of its goroutines. `Registry` and `AuditTrail` are abstract: they say
what a component promises and leave out how. `MC*` modules add only symmetry sets
and constant functions for TLC; `*_proofs` modules hold the theorems and what only
proofs need, the inductive invariants above all. `Node_proofs` is about three
components that each deal with one node, Renewal, Updates and IdentityLogin; it
extends all three, so their specifications have names of their own (`RenewalSpec`,
`UpdatesSpec`, `LoginSpec`). Definitions commented `Faulty:` are plausible mistakes,
each of which a property must notice; no specification uses them.

**TunnelBroker.** One action per access of a shared map. `Admit`/`Reject` to
`RecordVersion` are `handle`; `InjectLoad` to `InjectReap` are
`injectResponseContext`; `WatchTick` to `WatchClose` are `watchTunnel`; `RevPoll`
to `ReconcileDone` are the revocation poll, the heartbeat's refresh and
`reconcile`. A node stands for its SVID and key together. `Approve`, `Revoke`
and `LinkDown` are the environment. A link that is `up` may still fail a ping
(slow) or a stream (reset).

**Registry** is what the broker promises those who look a node up: a connection is
registered at most once, under an approved node of our tenant, and is torn down
only after it has left; an entry may leave at any time. `TunnelBroker` implements
it (`Abstract`, with the registry and the nodes' status as they are and the
connections used and closed read off `link` and `handler`). Races, snapshots and
watchers are gone, so a caller's view of the broker can be checked against it.

**Renewal.** One node. `Trigger`, `NotDue`, `Due` and `Return` are `renewIfDue`
with its guard; `Csr`, `Sign`, `Apply`, `Confirmed` and `Fails` the three round
trips of `renewNode`, each of which may fail before or after it took effect.
`AdminRenew` enters `renewNode` without guard or cooldown. The node stays on the
list with an expiry that parses.

**CallLog.** `RecordStart` and `Record` are the handlers' two calls of `Add`; the
rest is the life of a batch. Between `TowerWrites` and `Shipped` the answer is
under way and may be lost. Each dispatch of a desktop call also records a child
event: here, a call that is never started.

**AuditTrail** is the call log without queues: events are recorded once, the start
first; the tower's copy only grows, by what was recorded; an event the tower does
not have is given up only when `Capacity` others are kept. In the mapping
(`Trail`) an event is pending while the buffer or any batch holds it.

**Updates.** One node. A job is a goroutine of `handle` and `maybeUpdate` (it
`greets` a new tunnel) or of `forceUpdate` (a nudge, from the tower's answer to a
report or from `/update`). Each goes through `Greeted`/`Nudged`, `RecordVersion`
(greetings only), `UpdateFor` and `Relay` and may fail at each round trip; nothing
excludes another job meanwhile. The target, the installation (`Applies`) and the
node's restart, which ends its tunnel, are external. `Reap` is the watcher of a
broken tunnel: having compared the registry's entry it deletes by name, before or
after the node has come back, and so may delete the new version, and the new
tunnel too.

**CaptureStore.** `BeginPut`/`BeginGet` read the clock, `Put`/`Get` run under the
lock. The loops of eviction are given by what they may remove (`Evicts`): an
initial part of the order and no more than needed.

**OutputReader.** `PageRead` and `TailRead` are one request each; a search is
`Search` and one action per turn of the loop of `searchCapturedOutput`: `NoMatch`,
`Match`, `Cut` (a first block over the limit), `Full` (a later one), `EndOfLines`.
A line is a length and a hit; `shown` is a history variable, the reported matches
of which at least a part is in an answer. The reader is an agent that follows `next_offset`
and `next_start_line` with limits of its choice; the capture may vanish between
two requests (`Withdraw`).

**DesktopGate.** One node. `Enter` takes the gate, every `Leave` gives it back.
Times count down. The node and the tunnel are external; of the node the model
assumes that it works on one desktop request at a time, that requests reach it
within `Delay` or never, that it takes at most `Exec`, and that a `begin`
answered "not sent" holds nothing. There is no clock skew, and nothing waits
between a reservation and its dispatch. Every step names a lease of its own;
`shortened` is a history variable, the interactions whose reservation a later step
overwrote with less than was left. The 15 s of the cleanup context
(`desktop_interaction_service.go:106`) have no effect: `backend` strips them with
the cancellation (`desktop.go:134`) and waits its own 50 s. Operations answered
from the cache (`find`) leave the gate through `Refuse`.

**DesktopTask.** `execute` for everything but interactions, on several nodes:
`Enter` and `Leave` are the gate, `Step`, `Grounded`, `Authorized`, `Act` and
`Dispatch` the way to a node, `Observed`, `Bare`, `WaitedInVain` and `NoReceipt`
its answers, and `Remember` and `Kept` the cache, with frames numbered in the
order of their arrival. "launch" stands for the four operations that are
authorized once and then dispatched. Waits are sent without asking again, as in
the code. Time passes in `Tick`: frames age, and the 100 s of an operation
(`desktop.go:234`) run out before the 180 s of a frame (`Deadline <= TTL`).

**CallerPerimeter.** Every handler as one machine: `Arrive`, `Accepted`, `Get`,
`Authorize`, `Resolve`, `StartCall`, `Inject`, `Answered`, `Capture`, and the
early returns between them, each ending in the deferred record (`Ends`). The
tower's answers are free choices. Tunnels, list and captures change at any time
(`Tunnel`, `Refresh`, `Evict`), which abstracts TunnelBroker and CaptureStore.
The resolver's tiers are four relations between references and nodes.

**IdentityLogin.** `loginDesktop` step by step while the operator edits mapping
and keys, the tower changes its mind and people come and go at the node. One
node and one caller, because the feature is pinned to them and the gate makes
logins serial. The grant's nonce, clock check and expiry are for the node to
verify and are left out.

## 3. Runs

| Run | Instance | Shows |
|---|---|---|
| `broker_safety` | 2 nodes (one foreign), 2 connections, 1 caller, revocation poll | the registry invariants; the broker implements `Registry` |
| `broker_live` | 1 node, 2 connections, heartbeat and poll, no health checks | revocation and death take effect, across reconnects, lost fetches and stale lists |
| `broker_reap` | 1 node, 2 connections, heartbeat and poll | expected to fail, see below |
| `calllog` | 3 calls, 2 shippers, capacity 2 | the log implements `AuditTrail` at its limit; nothing is forgotten |
| `capture` | 3 handles, 2 owners, 2 clients, quotas 3/4 and 2/3, TTL 2, clock 3 | accounting, quotas, fairness between owners |
| `desktop` | 2 handlers, 2 owners, 1 id, leases 1 and 4, slack 2 | gate and reservations; the gate opens |
| `renewal` | 2 workers, 1 administrator, life 4, window 3, cooldown 2, clock 5 | exclusion, cooldown, due is reissued |
| `perimeter` | 2 calls, 3 callers, 2 nodes, 2 references | perimeter, audit, ownership |
| `identity` | 1 login, 2 key files | honest receipts; withdrawal stops a grant |
| `output` | up to 4 lines or characters, 2 lengths, 3 limits, 3 contexts, 3 match caps | cursors skip and repeat nothing; answers hold what they should; reading ends |
| `task` | 2 operations, 2 owners, 2 nodes, tasks of 2 steps, 2 frames, TTL 2, deadline 2 | the cache; a task stops at the first doubt |
| `updates` | 2 jobs, 2 versions, 2 moves of the target | late relays are repaired; convergence |

Why the bounds are enough for the cases aimed at: two connections of a node are
what a reconnect race needs, and a third repeats it; the registry invariants with
several refreshers at once are proved for any number of them (section 5);
`broker_live` leaves out the health check of a new tunnel (`UngreetedSpec`), on which
nobody waits and which can only remove an entry, for with it there are millions of
states, too many to check liveness on, and `broker_safety` has it; the
interactions of `desktop` follow each other under one id, for a second one makes it
thirteen times as large, and what is proved of reservations holds for any number of
ids; a long
lease of 4 and a short one of 1 differ by more than the slack of 2, as 60 s and 1 s do with 15 s; five
events through a buffer of two overflow it in `Add` and in `Requeue`; the capture
quotas are reached separately, per owner before the store and the reverse; the
two desktop handlers serve requests without end, so that a begin, a second step
and an intruder, or a new request beside an old one still at work behind a
broken tunnel, are all there; a clock of 5 spans a certificate's life and the
renewal after it; two calls are a command and the reading of its output; four
lines hold two matches with overlapping contexts and a line between or around
them, and a limit of 2 is shorter than any line; a task of two steps and another
operation make up to six frames for a cache of two, so that a frame is evicted
while its task grounds; two jobs are a greeting and one that lags behind it, and
a target that moves forth and back lets an old binary arrive after a newer one.
Clocks (`MaxClock`) and the moves of the target (`MaxMoves`) are the only counters
with an artificial bound; their modules say so.

Symmetry is used in runs without liveness only. Deadlock is checked except where
a finite set of calls or operations, or a reading, comes to its end (`calllog`,
`task`, `output`).

### Disagreements found

One run is expected to fail: `broker_reap` checks a sentence of a comment against
what the code does. `broker.go:450-451` says that the watcher removes the entry of
a connection that died; it compares and then deletes by key (`broker.go:464-465`),
and TLC shows a reconnect in between that loses its own, live entry.

The models show further ones, for which no run is kept:

* reconcile may drop a node that is approved, against `broker.go:397-398` ("drops any
  LIVE tunnel whose node is no longer on the allow-list (revoked or removed at the
  tower)"): heartbeat and revocation poll (`main.go:158-196`) fetch and install lists
  independently, and a list has no version (`allowlist.go:34`), so that one from
  before a node's approval may be installed after the node was admitted on a newer
  one. The node comes back after the next refresh. Two nodes are needed, for it is
  the revocation of another one that starts the poll;
* the exact name of a node that is offline may resolve to a live one whose name
  contains it (`admin.go:180`, for the tiers look among live tunnels only; against
  129-131: "can never resolve to the wrong box");
* a first search block over the limit is cut from its start: if its leading context
  fills the limit, the answer reports a match whose line it does not show, and
  `next_start_line` is behind it (`capture.go:543-546`; `capture_test.go:167-169`
  calls that "search omitted matching line");
* every step of an interaction overwrites the reservation with its own lease, of 1 s
  to 60 s (`desktop_interaction.go:38`), and 15 s, before it is dispatched
  (`desktop_interaction_service.go:96`): a begin for 60 s and a lost continue for 1 s
  leave a reservation of 16 s over a hold of 60 s, after which ordinary input is sent
  into the interaction (against 94-95: "Reserve before dispatch, including when the
  node receipt is lost");
* a revoked node that reconcile dropped is admitted again if a snapshot from
  before the revocation is installed last, for one refresh (`allowlist.go:34`,
  against `broker.go:427`: "the node's reconnect is then refused at handshake");
* when a certificate was signed and not applied, the next list shows the new
  expiry and the renewal is not retried (`broker.go:355`, against
  `renewal_test.go:142`);
* a node that answers an observation with "ok" and no observation makes `execute`
  panic (`desktop.go:703`); the deferred calls still open the gate;
* a caller that disconnects does not stop its command, for it is injected with a
  background context (`caller.go:273`, against `README.md:15`);
* a version recorded late, or left by a tunnel that was replaced before it was
  reaped, is reported until the node is greeted again (`broker.go:118`, against
  126-127); a nudge does not correct it, for `forceUpdate` records nothing;
* with two jobs a node may be made to restart twice for one version, or be taken
  back to an older one for as long as its reconnect takes (`broker.go:194-200`);
* one failed stream unregisters a live connection, which its watcher then leaves
  open and unwatched (`broker.go:253-258`, 457-458);
* a version may be recorded after `reconcile` deleted it (`broker.go:118`,
  against `allowlist_test.go:42`);
* two shippers may write a start event after its terminal event, and two
  requeues may cut the newer event (`calllog.go:22`, 144-145);
* knowledge events carry no RequestID, so a re-shipped batch repeats them
  (`caller.go:527`), and record `allowed` only for a final "ok" (`caller.go:614`);
* a clock read before the lock may age a capture on access (`capture.go:208`);
* a signing key removed during a login is still used for it
  (`desktop_identity.go:306`).

## 4. Properties

*Tunnel broker.* `OnlyApprovedRegistered` and `RegisteredIsWatched` say what a
registry entry guarantees to a caller; `ImplementsRegistry` says of every step that
it is one of `Registry` or changes nothing there (`ClosedNotRegistered`, which is
proved, is part of it). `RevokedStaysDropped` is the point of revocation: whatever is fetched late, lost
or admitted in between, from some time on the node has no tunnel.
`DeadIsUnregistered` is its counterpart for failures.

`ReapsOwnEntry`, what a comment says, fails. That reconcile drops revoked nodes only
is not claimed, for it is not so (section 3).

*Renewal.* `OneScheduledRenewal` (exclusion, and no guard left behind), `NoStorm`,
`DueIsReissued`.

*Call log.* `BufferSound` (bounds, and one copy of each event), `ImplementsTrail`,
and `NothingStuck`: what is recorded leaves the broker, and by `ImplementsTrail` it
leaves for the tower unless the buffer was full.

*Updates.* `RacesAreRepaired`: once the check of a tunnel is over, the node runs the
target, is about to restart, or that check failed or the target moved since; this
is what makes unguarded jobs harmless. `Converges` and `ReportCatchesUp` are its
counterparts over time.

*Output.* `CursorIsExact` relates all an agent has received to its cursor, across
requests with different limits: nothing that matches is skipped or reported twice,
and a reported match that is not shown is one whose block the limit cut before it.
`ContentIsContext` compares each answer with the set of lines it should hold, all of
them or, if the first block was cut, the beginning of them; `ReadingEnds`.
That every reported match is shown is not so (section 3).

*Desktop tasks.* `CacheKeepsNewest` is the cache as a window on the newest frames,
`TaskFrameKept` what a task may rely on, `NothingAfterDoubt` that a node is asked
for a step only after it confirmed the one before, and `WithdrawnStopsInput` that
a withdrawn grant lets at most the input pass that had just been checked.

*Capture store.* `BytesAccounted`, `WithinQuotas`, `OthersEvictedOnlyWhenFull`.

*Desktop.* `GateHeldForReceipt` (a broken tunnel excepted: then the gate opens
while the node may still be at work), `HeldIsReserved`, `NoInputIntoInteraction`,
`ReservationNotTaken`, `EndedIsOver`, `GateOpens`. `HeldIsReserved` and
`NoInputIntoInteraction` except the interactions that a step of their own has
shortened, and nothing else: whoever keeps to one lease, or lengthens it, is
protected whatever the others do. Without the exception they would fail, as
described in section 3.

*Perimeter.* `SentIsAudited`, `StatusIsHonest`, `OutputToOwner`. That every
call is recorded in the end is not claimed: commands wait for their node without a
limit (`caller.go:273`).

*Identity.* `HonestReceipt`, `UnmappedStopsGrant`, `WithdrawnStopsGrant`.

### Fairness

Goroutines that can run do, and tickers tick. Beyond that:

* TunnelBroker: a heartbeat refresh eventually succeeds. Nothing is assumed of
  nodes, callers, connection handlers or the network.
* CallLog: a post that is tried again and again is written at some time (strong
  fairness of `TowerWrites`).
* Renewal: each round trip succeeds at some time if it is tried for ever.
* DesktopGate: time passes and the node answers or not; its bounds are in `Tick`.
* IdentityLogin: a login runs on; each of its waits has a limit.
* OutputReader: the agent keeps asking, with any limits.
* Updates: the node restarts and dials again, no tunnel lasts for ever ("instead of
  waiting for its next reconnect", `admin.go:28`), and greetings, checks and relays
  that are tried again and again succeed at some time, on a tunnel that is still
  up (strong fairness). Of nudges nothing is assumed.

## 5. Proofs

TLAPS proves, for every value of the constants that satisfies the named
assumptions, every safety property that a passing run checks on a small instance.
Each proof module has one lemma per group of actions and one step per action in it.
What follows is the argument of each: an invariant is seldom inductive as it
stands, and the strengthening is where the reason lies. Each is called `IndInv`, and
`RenewalInv`, `UpdatesInv` and `LoginInv` in `Node_proofs`; it is at the head of its
proof, or of its section there.

| Module | Theorems |
|---|---|
| `TunnelBroker_proofs` | `TypeCorrect`, `AdmissionSafe`, `ClosedSafe`, `WatchSafe`, `RegistryImplemented` |
| `CallLog_proofs` | `BufferStaysSound`, `TrailImplemented` |
| `CallerPerimeter_proofs` | `PerimeterHolds`, `StatusHonest`, `OutputPrivate` |
| `CaptureStore_proofs` | `StoreSound`, `TotalIsRight`, `QuotasHold`, `OthersSpared` |
| `DesktopGate_proofs` | `GateExcludes`, `NeverTaken`, `StillAwaited`, `GateIsHeld`, `OverStays`, `TerminalIsOver`, `ReservationCovers`, `HoldIsReserved`, `InputKeptOut` |
| `DesktopTask_proofs` | `NewestKept`, `FrameOutlivesTask`, `DoubtStops`, `WithdrawalStops` |
| `OutputReader_proofs` | `CursorExact`, `ContentExact` |
| `Node_proofs` | `RenewalTypes`, `GuardExcludes`, `CooldownHolds`; `RacesRepaired`; `ReceiptIsHonest`, `UnmappedStops`, `WithdrawnStops` |

*Tunnel broker.* `IndInv` adds `ListsApproved` (every snapshot, wherever it is,
holds approved nodes only, so that a late `Replace` does no harm), `ConnInv` (an
admitted connection is open, approved and not watched yet, so that `Store`
establishes the registry's invariant), `RegistryInv` (the three properties in one)
and `DropInv` (the connection `reconcile` is about to close left the registry at
`DropTunnel` and, having been stored once, never comes back).
`RegistryImplemented` is the refinement: `InitRefines` maps the initial states,
`NextRefines` every step, with `Stutters`, `TearsDown` and `Unregisters` for the
actions that map to a stutter, to `TearDown` and to `Unregister`. It needs
`IndInv`: that a connection is closed only after it has left the registry, and
registered only once, is not in the actions themselves.

*Call log.* `BufferSound` says already that an event is in one place only, the
buffer or one batch. `IndInv` adds that no event is held before its call has come
to it (`Recorded`), so that `Add` never adds a second copy, and what a shipper has
in hand at each program counter (`Shipping`), so that it settles only what the
tower has written. `TrailImplemented` is the refinement of `AuditTrail`: `Add` maps
to `Begin` or `End`, a post to `Write`, the end of a post to `Settle`, a requeue
into a full buffer to `Displace`, the rest to a stutter. That an event is given up
only while `Capacity` others are kept is a fact about sequences without
repetition, whose lemmas come first.

*Perimeter.* `Stages` says for each program counter what has been established by
then: nothing is logged before the end, nothing sent before "inject", and whoever
gets that far was allowed and has its start event. `OutputOwned` follows a capture
from the command that made it to its reader.

*Capture store.* The running total is compared with `Total`, which is defined by
recursion on sets. The lemmas at the start show it equal to the number of bytes
counted one by one (`BytesOf`): a finite set's cardinality is what recursion
describes, and there is no smallest set on which the two differ (`WFMin`). From
then on sums are cardinalities of disjoint unions. Handles may be infinitely many;
that finitely many are stored is part of `IndInv`.

*Desktop gate.* The proof comes in layers, one for each thing it needs. `Core`
needs nothing: one request is past the gate, has at most one message, and finds
nobody else's reservation; from it `NeverTaken` follows. `InTime` needs `Prompt`,
that the node answers before its receipt is given up: then whatever is at the node
is still awaited, which is `GateIsHeld`, and the node works on one request at a
time. So does `Over`, from which `TerminalIsOver` follows: a request under way is
never one of an interaction that has ended. `IndInv` adds `Sound`, which needs
`SlackCovers` too, that the slack of the reservation covers the way to the node and
its work: what the node holds, or will hold once it has done what is under way, is
reserved for longer, unless it is in `shortened`. Nothing is required of the leases.

`Prompt` and `SlackCovers` are hypotheses of the theorems and not assumptions of the
module, because both are about the node and the tunnel, which are not part of the
code. What the code says of them is that a receipt is awaited for 50 s
(`desktop.go:134`) and that the events of a step take at most 10 s
(`desktop_interaction.go:98-99`) against a slack of 15 s. `Delay` is the time until
the node starts with a request, so that a request kept waiting at the node by a long
earlier one whose tunnel broke is outside of them. The instance of the run satisfies
both (`TimesCover`).

*Desktop tasks.* `IndInv` adds what a running operation has (`Placed`), that its
frame is one of its own node and owner and younger than the time it has left allows
(`FrameYoung`), the tally of what was asked and confirmed at each program counter
(`Accounted`), and that a late input is the one that had been checked (`LateOnce`).
`CacheKeepsNewest` is inductive as it stands: eviction takes the lowest frame, so
one that goes while it is good has as many younger ones behind it as the cache
holds.

*Output reader.* The two properties support each other, and `IndInv` is both with
what the loop knows between two lines (`UpToLast`): nothing is written beyond
`last`, and `last` is the end of the context of an earlier match. A new block then
starts at the first line not yet written of the context of its match, whichever of
the two overlap, and `BlockCompletes` shows that the answer is again exactly the
lines around its matches. `CutIsContext` is the one case in which it is less: of a
first block over the limit only what precedes some line is written, and if the
match's own line is not, the request left no room for it (`NoRoom`). The cursor is
exact because each answer's cursor is the line after the last one searched, or the
one whose block did not fit and is not in the answer (`Full`). What precedes are
lemmas on sequences: what a range of lines lists, and that a sequence stays
increasing when larger elements follow.

*Updates.* `UpdatesInv` adds `OwnCheck` (the one check of the tunnel that is up has
been told what still holds: a version changes only with a restart, which ends the
tunnel and with it the check) and `Offered`.

*Renewal.* `RenewalInv` adds `PastCooldown`: between its check and its signature a
scheduled renewal stays past the cooldown because the guard keeps every other
writer of `lastRenew` out.

*Identity.* `LoginInv` says of each login what goes with its stage (`Told`): it has a
mapping until its second look, its grant goes out last and once, and it says
nothing before it returns. `OneLogin` is the step that all others share: a login
changes its own state only, and all it sees of another is a session at the node,
which may come and go anyway. `UnmappedStops` and `WithdrawnStops` are about whole
behaviours: of a login from a stage on, under a condition that holds from then on.
Each follows from a predicate that every step keeps while the condition holds, "no
grant is out, and the login is still before that look or is over" (`LookHolds`,
`CheckHolds`); it is an induction along the behaviour, not a fact about one state.

Assumed of the constants are `NoneAssumption`, `ForeignAssumption`,
`CallersAssumption` and `NodesFinite` of TunnelBroker (the last for the revocation
count, a cardinality); `CapacityAssumption` and `ShippersAssumption` of CallLog
(a buffer that holds something, finitely many shippers); `NodesAssumption` of
CallerPerimeter; `QuotaAssumption` of CaptureStore;
`TimeAssumption` and `NoneAssumption` of DesktopGate; `BoundsAssumption` of
DesktopTask (the deadline of an operation is not longer than a frame's life);
`SizesAssumption` of OutputReader (limits, contexts and caps are numbers, a limit
and a cap at least 1); `JobsAssumption` and `PeriodAssumption` of Renewal; and
`VersionsAssumption` of Updates. What is proved of IdentityLogin needs none. TLC
evaluates each of them on the instances.

Only model-checked:

* liveness, under fairness and with `ENABLED`, which is out of the prover's reach:
  `RevokedStaysDropped`, `DeadIsUnregistered`, `NothingStuck`, `GateOpens`,
  `DueIsReissued`, `Converges`, `ReportCatchesUp`, `ReadingEnds`;
* what a sum over the lines comes to (`Width` in OutputReader), by induction over
  data: that an answer stays within its limit is a guard of the model (`Fits`), and the
  proofs take what was written of an answer for any value.

## 6. Not modelled

Cryptography and parsing (tokens, certificates, grants, JPEG and JSON), the prompt
and the answer of the grounding service, request validation (every failure is one early return), the
enrollment pages of `bootstrap.go`, wording and hints, and the MCP bridge, a
stateless translation into the requests of CallerPerimeter. Nothing in XConnect is
persisted, so a restart is the initial state; what callers observe across one
belongs to the plan below.

## 7. Plan

Done: the ten components above, in the order in which a fault would hurt most
(tunnels and revocation, audit, desktop input, captures, renewal, perimeter,
identity, tasks and frames, output, updates), the two abstract specifications, and
the proofs of section 5.

Next:

1. Composition: CallerPerimeter over `Registry` and CaptureStore.
2. Cancellation: callers of commands that disconnect (`README.md:15` against
   `caller.go:273`).
