------------------------------- MODULE Updates -------------------------------
(***************************************************************************)
(* Updates of one node (broker.go:106-138, 162-205, main.go:118-122,       *)
(* admin.go:27-36).  Every new tunnel is greeted with a health check, whose *)
(* version is recorded for the report and compared by the tower with the   *)
(* target of the node's channel; an operator's nudge starts the same       *)
(* comparison.  Nothing keeps these jobs apart: each asks for the health,  *)
(* asks the tower and relays what it was given, however much happens       *)
(* between, so that an older binary may arrive after a newer one.          *)
(*                                                                         *)
(* The tower and the node are external: the tower offers the target of the *)
(* moment to whoever runs something else, and may move it back; the node   *)
(* goes on with its old version until it restarts itself into the new one, *)
(* which ends its tunnel.  What is in flight fails with the tunnel.        *)
(***************************************************************************)
EXTENDS Naturals

CONSTANTS
    Versions, \* versions of RCON
    Jobs,     \* goroutines of handle, maybeUpdate and forceUpdate
    MaxMoves  \* bound on the moves of the target

ASSUME VersionsAssumption ==
    /\ Versions \subseteq Nat \ {0}
    /\ MaxMoves \in Nat

None == 0

VARIABLES
    target,   \* what the tower wants the node to run
    moves,    \* how often it has changed that
    self,     \* the node reports that it can update itself
    version,  \* what the node runs
    staged,   \* what it will run after its restart, or None
    up,       \* its tunnel is registered and works
    reported, \* its entry in Broker.versions, or None
    reaping,  \* the watcher of a broken tunnel has still to remove its entries
    job,      \* local state of every goroutine
    excused   \* since the tunnel came up its own check failed, or the target
              \* moved

updatesVars ==
    <<target, moves, self, version, staged, up, reported, reaping, job,
      excused>>

\* own: this job greets the tunnel that is up.
Idle == [pc |-> "idle", greets |-> FALSE, own |-> FALSE, seen |-> None,
         offer |-> None]

UpdatesTypeOK ==
    /\ target \in Versions /\ moves \in 0 .. MaxMoves
    /\ {self, up, reaping, excused} \subseteq BOOLEAN
    /\ version \in Versions
    /\ staged \in Versions \cup {None}
    /\ reported \in Versions \cup {None}
    /\ job \in [Jobs ->
         [pc : {"idle", "health", "record", "ask", "relay", "sent"},
          greets : BOOLEAN, own : BOOLEAN,
          seen : Versions \cup {None}, offer : Versions \cup {None}]]

UpdatesInit ==
    /\ target \in Versions /\ version \in Versions
    /\ moves = 0
    /\ self \in BOOLEAN
    /\ staged = None
    /\ up = FALSE
    /\ reported = None
    /\ reaping = FALSE
    /\ job = [j \in Jobs |-> Idle]
    /\ excused = FALSE

-----------------------------------------------------------------------------
(* The jobs.                                                               *)

Waiting(j) == job[j].pc \in {"health", "sent"}

\* Faulty: a tunnel that comes up during another check is not checked itself.
GreetUnlessBusy(j) ==
    /\ ~up /\ job[j] = Idle
    /\ up' = TRUE
    /\ job' = IF \A k \in Jobs : job[k] = Idle
              THEN [job EXCEPT ![j] = [Idle EXCEPT !.pc = "health",
                                           !.greets = TRUE, !.own = TRUE]]
              ELSE job
    /\ excused' = FALSE
    /\ UNCHANGED <<target, moves, self, version, staged, reported, reaping>>

\* handle stores the tunnel and asks for the node's health.
Greet(j) ==
    /\ ~up /\ job[j] = Idle
    /\ up' = TRUE
    /\ job' = [job EXCEPT ![j] = [Idle EXCEPT !.pc = "health",
                                      !.greets = TRUE, !.own = TRUE]]
    /\ excused' = FALSE
    /\ UNCHANGED <<target, moves, self, version, staged, reported, reaping>>

\* A nudge, from the tower's answer to a report or from the admin socket.
ForceUpdate(j) ==
    /\ up /\ job[j] = Idle
    /\ job' = [job EXCEPT ![j].pc = "health"]
    /\ UNCHANGED <<target, moves, self, version, staged, up, reported, reaping,
                   excused>>

\* maybeUpdate, once it is known what the node runs: a node that is updated by
\* hand is left alone.
MaybeUpdate(j, v) ==
    job' = [job EXCEPT ![j] = IF self THEN [@ EXCEPT !.pc = "ask", !.seen = v]
                              ELSE Idle]

Greeted(j) ==
    /\ job[j].pc = "health" /\ job[j].greets /\ up
    /\ job' = [job EXCEPT ![j].pc = "record", ![j].seen = version]
    /\ UNCHANGED <<target, moves, self, version, staged, up, reported, reaping,
                   excused>>

\* Faulty: a version is only recorded where there is none.
RecordFirst(j) ==
    /\ job[j].pc = "record"
    /\ reported' = IF reported = None THEN job[j].seen ELSE reported
    /\ MaybeUpdate(j, job[j].seen)
    /\ UNCHANGED <<target, moves, self, version, staged, up, reaping, excused>>

\* recordVersion; the answer may be older than what is recorded by now.
RecordVersion(j) ==
    /\ job[j].pc = "record"
    /\ reported' = job[j].seen
    /\ MaybeUpdate(j, job[j].seen)
    /\ UNCHANGED <<target, moves, self, version, staged, up, reaping, excused>>

\* forceUpdate does not record what it hears.
Nudged(j) ==
    /\ job[j].pc = "health" /\ ~job[j].greets /\ up
    /\ MaybeUpdate(j, version)
    /\ UNCHANGED <<target, moves, self, version, staged, up, reported, reaping,
                   excused>>

\* Faulty: the target is only taken where it is newer.
UpdateForNewer(j) ==
    /\ job[j].pc = "ask"
    /\ job' = [job EXCEPT ![j] =
          IF target <= job[j].seen THEN Idle
          ELSE [@ EXCEPT !.pc = "relay", !.seen = None, !.offer = target]]
    /\ UNCHANGED <<target, moves, self, version, staged, up, reported, reaping,
                   excused>>

\* updateFor: the tower compares, and offers its target.
UpdateFor(j) ==
    /\ job[j].pc = "ask"
    /\ job' = [job EXCEPT ![j] =
          IF target = job[j].seen THEN Idle
          ELSE [@ EXCEPT !.pc = "relay", !.seen = None, !.offer = target]]
    /\ UNCHANGED <<target, moves, self, version, staged, up, reported, reaping,
                   excused>>

\* The binary goes to whichever tunnel the node has now.
Relay(j) ==
    /\ job[j].pc = "relay"
    /\ job' = [job EXCEPT ![j] = IF up THEN [@ EXCEPT !.pc = "sent"] ELSE Idle]
    /\ UNCHANGED <<target, moves, self, version, staged, up, reported, reaping,
                   excused>>

\* The health, the tower's answer or the relay fails, or the node refuses the
\* binary: the job ends, and nothing is tried again.
UpdateFails(j) ==
    /\ job[j].pc \in {"health", "ask", "sent"}
    /\ excused' = (excused \/ job[j].own)
    /\ job' = [job EXCEPT ![j] = Idle]
    /\ UNCHANGED <<target, moves, self, version, staged, up, reported, reaping>>

-----------------------------------------------------------------------------
(* The node, the network and the tower.                                    *)

\* The node has verified and installed the binary.
Applies(j) ==
    /\ job[j].pc = "sent"
    /\ staged' = job[j].offer
    /\ job' = [job EXCEPT ![j] = Idle]
    /\ UNCHANGED <<target, moves, self, version, up, reported, reaping,
                   excused>>

\* The tunnel is gone from the registry: requests on it fail, other jobs go on
\* without noticing.
Gone ==
    /\ up' = FALSE
    /\ job' = [j \in Jobs |-> IF Waiting(j) THEN Idle
                              ELSE [job[j] EXCEPT !.own = FALSE]]

\* The tunnel breaks, and its watcher may find it so before the node is back.
Breaks ==
    /\ Gone
    /\ reaping' = (reaping \/ up)

Restart ==
    /\ staged # None
    /\ version' = staged
    /\ staged' = None
    /\ Breaks
    /\ UNCHANGED <<target, moves, self, reported, excused>>

Drop ==
    /\ up
    /\ Breaks
    /\ UNCHANGED <<target, moves, self, version, staged, reported, excused>>

\* The watcher removes the tunnel and the recorded version by the node's name.
\* It has compared the tunnel before: the node may have reconnected since, and
\* then the new version goes, and the new tunnel unless it came in between.
Reap ==
    /\ reaping
    /\ reaping' = FALSE
    /\ reported' = None
    /\ Gone \/ UNCHANGED <<up, job>>
    /\ UNCHANGED <<target, moves, self, version, staged, excused>>

Move ==
    /\ moves < MaxMoves
    /\ moves' = moves + 1
    /\ target' \in Versions \ {target}
    /\ excused' = TRUE
    /\ UNCHANGED <<self, version, staged, up, reported, reaping, job>>

UpdatesNext ==
    \/ \E j \in Jobs :
          \/ Greet(j) \/ ForceUpdate(j) \/ Greeted(j) \/ RecordVersion(j)
          \/ Nudged(j) \/ UpdateFor(j) \/ Relay(j) \/ UpdateFails(j)
          \/ Applies(j)
    \/ Restart \/ Drop \/ Reap \/ Move

UpdatesSpec == UpdatesInit /\ [][UpdatesNext]_updatesVars

\* Goroutines run; the node restarts and dials again, and no tunnel lasts for
\* ever, but not every one breaks during its check; greetings, checks and
\* relays do not fail every time.  Nudges may never come.
UpdatesFairness ==
    /\ WF_updatesVars(Restart) /\ WF_updatesVars(Drop)
    /\ WF_updatesVars(\E j \in Jobs : Greet(j))
    /\ \A j \in Jobs :
          WF_updatesVars(\/ RecordVersion(j) \/ Relay(j)
                         \/ Nudged(j) \/ UpdateFails(j))
    /\ SF_updatesVars(\E j \in Jobs : Greeted(j))
    /\ SF_updatesVars(\E j \in Jobs : RecordVersion(j) /\ up)
    /\ SF_updatesVars(\E j \in Jobs : UpdateFor(j) /\ up)
    /\ SF_updatesVars(\E j \in Jobs : Relay(j) /\ up)
    /\ SF_updatesVars(\E j \in Jobs : Applies(j))

UpdatesFairSpec == UpdatesSpec /\ UpdatesFairness

-----------------------------------------------------------------------------
\* Whatever races have installed, once the check of its tunnel is over the
\* node runs the target, unless that very check failed or the target moved
\* later: a binary relayed late ends the tunnel, and the next tunnel is checked
\* again (broker.go:118-121, 194-200).
RacesAreRepaired ==
    up /\ staged = None /\ self /\ (\A j \in Jobs : ~job[j].own)
    /\ version # target
    => excused

\* After the last move of the target the node comes to run it, and stays with
\* it, through failed checks and late relays of other versions, and though
\* nobody nudges it ("instead of waiting for its next reconnect", admin.go:28).
Converges == <>[](self => version = target)

\* A version recorded too late, or left behind by an earlier tunnel, is not
\* reported for ever (broker.go:106-117, 126-138, 464-466).
ReportCatchesUp == []<>(reported = version)
=============================================================================
