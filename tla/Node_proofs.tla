---------------------------- MODULE Node_proofs ----------------------------
(***************************************************************************)
(* Proofs about the three components that deal with one node: Renewal, its *)
(* certificate, Updates, its version, and IdentityLogin, signing in on its *)
(* desktop.  They share no state, and what is proved of one says nothing   *)
(* of the others; its constants are any that satisfy its assumptions.      *)
(***************************************************************************)
EXTENDS Renewal, Updates, IdentityLogin, TLAPS

-----------------------------------------------------------------------------
(* Renewal, for any number of goroutines and administrators and any        *)
(* validity, window and cooldown.                                          *)

\* Why both hold: from its check to its signature a scheduled renewal is past
\* the cooldown, and stays so because nobody else writes lastRenew meanwhile.
PastCooldown ==
    \A w \in Workers : renewal[w].pc \in {"csr", "sign"} => ~Cooling

RenewalInv == RenewalTypeOK /\ OneScheduledRenewal /\ PastCooldown

RenewalState == [pc : {"idle", "check", "csr", "sign", "apply", "applied"},
                 cert : Nat]

\* The program starts in the invariant.
LEMMA RenewalStarts == RenewalInit => RenewalInv
<1> USE JobsAssumption, PeriodAssumption
<1>1. NoJob \in RenewalState
  BY DEF NoJob, RenewalState
<1>2. RenewalInit => RenewalTypeOK
  <2>1. RenewalInit => renewal \in [Renewals -> RenewalState]
    BY <1>1 DEF RenewalInit
  <2>2. RenewalInit => guard \in BOOLEAN /\ last \in Nat \cup {Never}
    BY DEF RenewalInit
  <2>3. RenewalInit => /\ clock \in Nat /\ node \in Nat
                       /\ tower \in Nat /\ list \in Nat
    BY DEF RenewalInit
  <2> QED
    BY <2>1, <2>2, <2>3 DEF RenewalTypeOK, RenewalState
<1>3. RenewalInit => OneScheduledRenewal /\ PastCooldown
  <2>1. RenewalInit => \A w \in Workers : renewal[w].pc = "idle"
    BY DEF RenewalInit, Renewals, NoJob
  <2>2. RenewalInit => Scheduled = {}
    BY <2>1 DEF Scheduled
  <2>3. RenewalInit => PastCooldown
    BY <2>1 DEF PastCooldown
  <2>4. RenewalInit => OneScheduledRenewal
    BY <2>2 DEF RenewalInit, OneScheduledRenewal
  <2> QED
    BY <2>3, <2>4
<1> QED
  BY <1>2, <1>3 DEF RenewalInv

\* The one worker past the guard leaves and takes the guard with it; an
\* administrator's request leaves both alone.
LEMMA ReturnFrees ==
    ASSUME RenewalTypeOK, OneScheduledRenewal, NEW j \in Renewals,
           renewal[j].pc # "idle", Return(j)
    PROVE  OneScheduledRenewal' /\ \A k \in Renewals :
               renewal'[k].pc = IF k = j THEN "idle" ELSE renewal[k].pc
<1>1. \A k \in Renewals :
          renewal'[k].pc = IF k = j THEN "idle" ELSE renewal[k].pc
  BY DEF Return, NoJob, RenewalTypeOK
<1>2. CASE j \in Workers
  <2>1. j \in Scheduled
    BY <1>2 DEF Scheduled
  <2>2. Scheduled' = {}
    BY <1>1, <2>1 DEF Scheduled, OneScheduledRenewal, Renewals
  <2> QED
    BY <1>1, <1>2, <2>2 DEF OneScheduledRenewal, Return
<1>3. CASE j \notin Workers
  <2>1. Scheduled' = Scheduled
    BY <1>1, <1>3 DEF Scheduled, Renewals
  <2>2. guard' = guard
    BY <1>3 DEF Return
  <2> QED
    BY <1>1, <2>1, <2>2 DEF OneScheduledRenewal
<1> QED
  BY <1>2, <1>3

\* Every step preserves types.
LEMMA RenewalTypesKept ==
    RenewalTypeOK /\ [RenewalNext]_renewalVars => RenewalTypeOK'
<1> USE JobsAssumption, PeriodAssumption
<1> SUFFICES ASSUME RenewalTypeOK, [RenewalNext]_renewalVars
             PROVE  RenewalTypeOK'
  OBVIOUS
<1>0. renewal \in [Renewals -> RenewalState] /\ NoJob \in RenewalState
  BY DEF RenewalTypeOK, RenewalState, NoJob
<1>1. CASE Tick
  BY <1>1 DEF Tick, RenewalTypeOK
<1>2. CASE Refresh
  BY <1>2 DEF Refresh, RenewalTypeOK
<1>3. ASSUME NEW w \in Workers, Trigger(w)
      PROVE  RenewalTypeOK'
  <2>1. [renewal[w] EXCEPT !.pc = "check"] \in RenewalState
    BY <1>0 DEF Renewals, RenewalState
  <2> QED
    BY <1>3, <1>0, <2>1 DEF Trigger, RenewalTypeOK, RenewalState, Renewals
<1>4. ASSUME NEW w \in Workers, NotDue(w)
      PROVE  RenewalTypeOK'
  BY <1>4, <1>0 DEF NotDue, Return, RenewalTypeOK, RenewalState, Renewals
<1>5. ASSUME NEW w \in Workers, Due(w)
      PROVE  RenewalTypeOK'
  <2>1. [renewal[w] EXCEPT !.pc = "csr"] \in RenewalState
    BY <1>0 DEF Renewals, RenewalState
  <2> QED
    BY <1>5, <1>0, <2>1 DEF Due, RenewalTypeOK, RenewalState, Renewals
<1>6. ASSUME NEW a \in Admins, AdminRenew(a)
      PROVE  RenewalTypeOK'
  <2>1. [renewal[a] EXCEPT !.pc = "csr"] \in RenewalState
    BY <1>0 DEF Renewals, RenewalState
  <2> QED
    BY <1>6, <1>0, <2>1 DEF AdminRenew, RenewalTypeOK, RenewalState, Renewals
<1>7. ASSUME NEW j \in Renewals, RenewNode(j)
      PROVE  RenewalTypeOK'
  <2>1. CASE Csr(j)
    <3>1. [renewal[j] EXCEPT !.pc = "sign"] \in RenewalState
      BY <1>0 DEF RenewalState
    <3> QED
      BY <2>1, <1>0, <3>1 DEF Csr, RenewalTypeOK, RenewalState
  <2>2. CASE Sign(j)
    <3>1. [pc |-> "apply", cert |-> clock + Life] \in RenewalState
      BY DEF RenewalState, RenewalTypeOK
    <3> QED
      BY <2>2, <1>0, <3>1 DEF Sign, RenewalTypeOK, RenewalState
  <2>3. CASE Apply(j)
    <3>1. /\ [renewal[j] EXCEPT !.pc = "applied"] \in RenewalState
          /\ renewal[j].cert \in Nat
      BY <1>0 DEF RenewalState
    <3> QED
      BY <2>3, <1>0, <3>1 DEF Apply, RenewalTypeOK, RenewalState
  <2>4. CASE Confirmed(j)
    BY <2>4, <1>0 DEF Confirmed, Return, RenewalTypeOK, RenewalState
  <2>5. CASE Fails(j)
    BY <2>5, <1>0 DEF Fails, Return, RenewalTypeOK, RenewalState
  <2> QED
    BY <1>7, <2>1, <2>2, <2>3, <2>4, <2>5 DEF RenewNode
<1>8. CASE UNCHANGED renewalVars
  BY <1>8 DEF renewalVars, RenewalTypeOK
<1> QED
  BY <1>1, <1>2, <1>3, <1>4, <1>5, <1>6, <1>7, <1>8 DEF RenewalNext

\* Every step preserves the invariant: a worker enters only through a free
\* guard, and the guard is freed by the worker that leaves.
LEMMA RenewalKept == RenewalInv /\ [RenewalNext]_renewalVars => RenewalInv'
<1> USE JobsAssumption, PeriodAssumption
<1> SUFFICES ASSUME RenewalInv, [RenewalNext]_renewalVars
             PROVE  RenewalInv'
  OBVIOUS
<1>0. RenewalTypeOK /\ RenewalTypeOK'
  BY RenewalTypesKept DEF RenewalInv
<1> SUFFICES OneScheduledRenewal' /\ PastCooldown'
  BY <1>0 DEF RenewalInv
<1> USE <1>0 DEF RenewalTypeOK, Renewals, OneScheduledRenewal, PastCooldown,
   Scheduled, Cooling
<1>1. CASE Tick
  BY <1>1 DEF Tick, RenewalInv
<1>2. CASE Refresh
  BY <1>2 DEF Refresh, RenewalInv
<1>3. ASSUME NEW w \in Workers, Trigger(w)
      PROVE  OneScheduledRenewal' /\ PastCooldown'
  BY <1>3 DEF Trigger, RenewalInv
<1>4. ASSUME NEW w \in Workers, NotDue(w)
      PROVE  OneScheduledRenewal' /\ PastCooldown'
  BY <1>4, ReturnFrees DEF NotDue, RenewalInv
<1>5. ASSUME NEW w \in Workers, Due(w)
      PROVE  OneScheduledRenewal' /\ PastCooldown'
  BY <1>5 DEF Due, RenewalInv
<1>6. ASSUME NEW a \in Admins, AdminRenew(a)
      PROVE  OneScheduledRenewal' /\ PastCooldown'
  BY <1>6 DEF AdminRenew, RenewalInv
<1>7. ASSUME NEW j \in Renewals, RenewNode(j)
      PROVE  OneScheduledRenewal' /\ PastCooldown'
  <2>1. CASE Csr(j)
    BY <2>1 DEF Csr, RenewalInv
  <2>2. CASE Sign(j)
    BY <2>2 DEF Sign, RenewalInv
  <2>3. CASE Apply(j)
    BY <2>3 DEF Apply, RenewalInv
  <2>4. CASE Confirmed(j)
    BY <2>4, ReturnFrees DEF Confirmed, RenewalInv
  <2>5. CASE Fails(j)
    BY <2>5, ReturnFrees DEF Fails, RenewalInv
  <2> QED
    BY <1>7, <2>1, <2>2, <2>3, <2>4, <2>5 DEF RenewNode
<1>8. CASE UNCHANGED renewalVars
  BY <1>8 DEF renewalVars, RenewalInv
<1> QED
  BY <1>1, <1>2, <1>3, <1>4, <1>5, <1>6, <1>7, <1>8 DEF RenewalNext

\* The invariant holds in every state the broker reaches.
LEMMA RenewalInvariant == RenewalSpec => []RenewalInv
  BY RenewalStarts, RenewalKept, PTL DEF RenewalSpec

\* Every variable keeps its type (broker.go:286-387).
THEOREM RenewalTypes == RenewalSpec => []RenewalTypeOK
<1>1. RenewalInv => RenewalTypeOK
  BY DEF RenewalInv
<1> QED
  BY <1>1, RenewalInvariant, PTL

\* Scheduled renewals of a node exclude each other, and the guard is never
\* left behind (broker.go:338-342).
THEOREM GuardExcludes == RenewalSpec => []OneScheduledRenewal
<1>1. RenewalInv => OneScheduledRenewal
  BY DEF RenewalInv
<1> QED
  BY <1>1, RenewalInvariant, PTL

\* No scheduled renewal is signed within the cooldown of a confirmed one
\* (broker.go:281-284, 356-360).
THEOREM CooldownHolds == RenewalSpec => NoStorm
<1> USE JobsAssumption, PeriodAssumption
<1>1. RenewalInv /\ [RenewalNext]_renewalVars =>
        [\A w \in Workers : renewal[w].pc = "sign" /\ renewal'[w].pc = "apply"
            => last = Never \/ clock - last >= Cooldown]_renewalVars
  BY DEF RenewalInv, RenewalTypeOK, PastCooldown, Cooling
<1> QED
  BY <1>1, RenewalInvariant, PTL DEF RenewalSpec, NoStorm

-----------------------------------------------------------------------------
(* Updates, for any versions, any number of jobs and any number of moves   *)
(* of the target.                                                          *)

\* Why RacesAreRepaired holds: at most one job is the check of the tunnel that
\* is up, and what it has been told is still so.
OwnCheck ==
    \A j \in Jobs : job[j].own =>
        /\ up /\ job[j].pc # "idle"
        /\ \A k \in Jobs : job[k].own => k = j
        /\ job[j].pc \in {"record", "ask"} => job[j].seen = version
        /\ job[j].pc \in {"relay", "sent"} =>
              excused \/ job[j].offer = target

Offered == \A j \in Jobs : job[j].pc \in {"relay", "sent"} =>
                               job[j].offer \in Versions

UpdatesInv == UpdatesTypeOK /\ OwnCheck /\ Offered /\ RacesAreRepaired

UpdateState == [pc : {"idle", "health", "record", "ask", "relay", "sent"},
                greets : BOOLEAN, own : BOOLEAN,
                seen : Versions \cup {None}, offer : Versions \cup {None}]

\* Nothing is under way at the start, and the tunnel is down.
LEMMA UpdatesStart == UpdatesInit => UpdatesInv
<1> USE VersionsAssumption
<1>1. Idle \in UpdateState
  BY DEF Idle, UpdateState
<1>2. UpdatesInit => UpdatesTypeOK
  <2>1. UpdatesInit => job \in [Jobs -> UpdateState]
    BY <1>1 DEF UpdatesInit
  <2>2. UpdatesInit => moves \in 0 .. MaxMoves
    BY DEF UpdatesInit
  <2> QED
    BY <2>1, <2>2 DEF UpdatesInit, UpdatesTypeOK, UpdateState
<1>3. UpdatesInit => OwnCheck /\ Offered /\ RacesAreRepaired
  BY DEF UpdatesInit, OwnCheck, Offered, RacesAreRepaired, Idle
<1> QED
  BY <1>2, <1>3 DEF UpdatesInv

\* Every action keeps the types: a job changes to another of UpdateState.
LEMMA UpdatesTypesKept ==
    UpdatesTypeOK /\ [UpdatesNext]_updatesVars => UpdatesTypeOK'
<1> USE VersionsAssumption
<1> SUFFICES ASSUME UpdatesTypeOK, [UpdatesNext]_updatesVars
             PROVE  UpdatesTypeOK'
  OBVIOUS
<1>0. Idle \in UpdateState /\ \A j \in Jobs : job[j] \in UpdateState
  BY DEF UpdatesTypeOK, UpdateState, Idle
<1> USE DEF UpdatesTypeOK, Idle, None
<1>1. ASSUME NEW j \in Jobs, Greet(j)
      PROVE  UpdatesTypeOK'
  BY <1>1 DEF Greet
<1>2. ASSUME NEW j \in Jobs, ForceUpdate(j)
      PROVE  UpdatesTypeOK'
  BY <1>2 DEF ForceUpdate
<1>3. ASSUME NEW j \in Jobs, Greeted(j)
      PROVE  UpdatesTypeOK'
  <2>1. [job[j] EXCEPT !.pc = "record", !.seen = version] \in UpdateState
    BY <1>0 DEF UpdateState
  <2>2. job' \in [Jobs -> UpdateState]
    BY <1>3, <2>1 DEF Greeted, UpdateState
  <2> QED
    BY <1>3, <2>2 DEF Greeted, UpdateState
<1>4. ASSUME NEW j \in Jobs, NEW v \in Versions \cup {None},
             MaybeUpdate(j, v)
      PROVE  job' \in [Jobs -> UpdateState]
  <2>1. [job[j] EXCEPT !.pc = "ask", !.seen = v] \in UpdateState
    BY <1>0 DEF UpdateState
  <2> QED
    BY <1>0, <1>4, <2>1 DEF MaybeUpdate, UpdateState
<1>5. ASSUME NEW j \in Jobs, RecordVersion(j) \/ Nudged(j)
      PROVE  UpdatesTypeOK'
  <2>1. /\ job[j].seen \in Versions \cup {None}
        /\ version \in Versions \cup {None}
    BY <1>0 DEF UpdateState
  <2>2. job' \in [Jobs -> UpdateState]
    BY <1>4, <1>5, <2>1 DEF RecordVersion, Nudged
  <2> QED
    BY <1>5, <2>1, <2>2 DEF RecordVersion, Nudged, UpdateState
<1>6. ASSUME NEW j \in Jobs, UpdateFor(j)
      PROVE  UpdatesTypeOK'
  <2>1. [job[j] EXCEPT !.pc = "relay", !.seen = None, !.offer = target]
           \in UpdateState
    BY <1>0 DEF UpdateState
  <2>2. job' \in [Jobs -> UpdateState]
    BY <1>0, <1>6, <2>1 DEF UpdateFor
  <2> QED
    BY <1>6, <2>2 DEF UpdateFor, UpdateState
<1>7. ASSUME NEW j \in Jobs, Relay(j)
      PROVE  UpdatesTypeOK'
  BY <1>7 DEF Relay
<1>8. ASSUME NEW j \in Jobs, UpdateFails(j)
      PROVE  UpdatesTypeOK'
  BY <1>8 DEF UpdateFails
<1>9. ASSUME NEW j \in Jobs, Applies(j)
      PROVE  UpdatesTypeOK'
  BY <1>9 DEF Applies
<1>9a. ASSUME Gone
      PROVE  up' \in BOOLEAN /\ job' \in [Jobs -> UpdateState]
  <2>1. \A j \in Jobs : [job[j] EXCEPT !.own = FALSE] \in UpdateState
    BY <1>0 DEF UpdateState
  <2> QED
    BY <1>0, <1>9a, <2>1 DEF Gone
<1>10. CASE Restart
  BY <1>10, <1>9a DEF Restart, Breaks, UpdateState
<1>11. CASE Drop
  BY <1>11, <1>9a DEF Drop, Breaks, UpdateState
<1>12. CASE Reap
  BY <1>12, <1>9a DEF Reap, UpdateState
<1>13. CASE Move
  BY <1>13 DEF Move
<1>14. CASE UNCHANGED updatesVars
  BY <1>14 DEF updatesVars
<1> QED
  BY <1>1, <1>2, <1>3, <1>4, <1>5, <1>6, <1>7, <1>8, <1>9, <1>10, <1>11,
     <1>12, <1>13, <1>14 DEF UpdatesNext

\* When a tunnel is gone it has no check any more, and the rest of the
\* invariant says nothing of a node without a tunnel.
LEMMA BreakKeeps ==
    ASSUME UpdatesTypeOK, Offered, Gone
    PROVE  OwnCheck' /\ Offered' /\ RacesAreRepaired'
<1>1. \A j \in Jobs : ~job'[j].own
  BY DEF UpdatesTypeOK, Gone, Waiting, Idle
<1>2. Offered'
  BY DEF UpdatesTypeOK, Gone, Waiting, Idle, Offered
<1> QED
  BY <1>1, <1>2 DEF Gone, OwnCheck, RacesAreRepaired

\* Every action keeps what is known of the one check under way, and the check
\* ends with the target installed or on its way, or with an excuse.
LEMMA CheckKept ==
    UpdatesInv /\ [UpdatesNext]_updatesVars =>
        OwnCheck' /\ Offered' /\ RacesAreRepaired'
<1> USE VersionsAssumption
<1> SUFFICES ASSUME UpdatesInv, [UpdatesNext]_updatesVars
             PROVE  OwnCheck' /\ Offered' /\ RacesAreRepaired'
  OBVIOUS
<1> USE DEF UpdatesInv, UpdatesTypeOK, OwnCheck, Offered, RacesAreRepaired,
   Idle, None
<1>1. ASSUME NEW j \in Jobs, Greet(j)
      PROVE  OwnCheck' /\ Offered' /\ RacesAreRepaired'
  BY <1>1 DEF Greet
<1>2. ASSUME NEW j \in Jobs, ForceUpdate(j)
      PROVE  OwnCheck' /\ Offered' /\ RacesAreRepaired'
  BY <1>2 DEF ForceUpdate
<1>3. ASSUME NEW j \in Jobs, Greeted(j)
      PROVE  OwnCheck' /\ Offered' /\ RacesAreRepaired'
  BY <1>3 DEF Greeted
<1>4. ASSUME NEW j \in Jobs, RecordVersion(j)
      PROVE  OwnCheck' /\ Offered' /\ RacesAreRepaired'
  BY <1>4 DEF RecordVersion, MaybeUpdate
<1>5. ASSUME NEW j \in Jobs, Nudged(j)
      PROVE  OwnCheck' /\ Offered' /\ RacesAreRepaired'
  BY <1>5 DEF Nudged, MaybeUpdate
<1>6. ASSUME NEW j \in Jobs, UpdateFor(j)
      PROVE  OwnCheck' /\ Offered' /\ RacesAreRepaired'
  BY <1>6 DEF UpdateFor
<1>7. ASSUME NEW j \in Jobs, Relay(j)
      PROVE  OwnCheck' /\ Offered' /\ RacesAreRepaired'
  BY <1>7 DEF Relay
<1>8. ASSUME NEW j \in Jobs, UpdateFails(j)
      PROVE  OwnCheck' /\ Offered' /\ RacesAreRepaired'
  BY <1>8 DEF UpdateFails
<1>9. ASSUME NEW j \in Jobs, Applies(j)
      PROVE  OwnCheck' /\ Offered' /\ RacesAreRepaired'
  BY <1>9 DEF Applies
<1>10. CASE Restart \/ Drop
  BY <1>10, BreakKeeps DEF Restart, Drop, Breaks
<1>11. CASE Reap
  <2>1. CASE Gone
    BY <2>1, BreakKeeps
  <2>2. CASE UNCHANGED <<up, job>>
    BY <1>11, <2>2 DEF Reap
  <2> QED
    BY <1>11, <2>1, <2>2 DEF Reap
<1>12. CASE Move
  BY <1>12 DEF Move
<1>13. CASE UNCHANGED updatesVars
  BY <1>13 DEF updatesVars
<1> QED
  BY <1>1, <1>2, <1>3, <1>4, <1>5, <1>6, <1>7, <1>8, <1>9, <1>10, <1>11,
     <1>12, <1>13 DEF UpdatesNext

\* Whatever late and concurrent relays do, a node whose check has succeeded
\* runs the target of the moment of that check (broker.go:118-121, 194-200).
THEOREM RacesRepaired == UpdatesSpec => []RacesAreRepaired
<1>1. UpdatesInv => RacesAreRepaired
  BY DEF UpdatesInv
<1>2. UpdatesInv /\ [UpdatesNext]_updatesVars => UpdatesInv'
  BY UpdatesTypesKept, CheckKept DEF UpdatesInv
<1> QED
  BY UpdatesStart, <1>1, <1>2, PTL DEF UpdatesSpec

-----------------------------------------------------------------------------
(* IdentityLogin, for any number of logins and any key files.              *)

Stage == {"idle", "status", "key", "check", "challenge", "signed",
          "recheck", "use", "waiting", "done"}
LoginState == [pc : Stage, m : KeyFiles \cup {Unmapped}]
Wires == {"none", "sent", "in", "refused"}
Receipts == {"none", "not_sent", "reused", "ok", "refused", "unknown"}

\* What is known of a login by its stage: it has a mapping until it looks a
\* second time, says nothing before it returns and sends its grant last, and
\* what it says when it returns fits what became of the grant.
Told(a) ==
    /\ BeforeReread(a) => login[a].m # Unmapped
    /\ receipt[a] # "none" => login[a].pc = "done"
    /\ wire[a] # "none" => login[a].pc \in {"waiting", "done"}
    /\ login[a].pc = "done" /\ wire[a] \in {"sent", "in"} =>
          receipt[a] \in {"ok", "unknown"}
    /\ receipt[a] = "ok" => wire[a] = "in"

LoginInv == LoginTypeOK /\ \A a \in Logins : Told(a)

\* No login is under way at the start.
LEMMA LoginStarts == LoginInit => LoginInv
<1> SUFFICES ASSUME LoginInit
             PROVE  LoginInv
  OBVIOUS
<1>1. [pc |-> "idle", m |-> Unmapped] \in LoginState
  BY DEF LoginState, Stage
<1>2. LoginTypeOK
  BY <1>1 DEF LoginInit, LoginTypeOK, LoginState, Stage
<1>3. \A a \in Logins : Told(a)
  BY DEF LoginInit, Told, BeforeReread
<1> QED
  BY <1>2, <1>3 DEF LoginInv

\* What a step of one login has to keep: the rest of the state is as it was.
LEMMA OneLogin ==
    ASSUME LoginInv, NEW a \in Logins,
           NEW s \in LoginState, login' = [login EXCEPT ![a] = s],
           NEW w \in Wires, wire' = [wire EXCEPT ![a] = w],
           NEW r \in Receipts, receipt' = [receipt EXCEPT ![a] = r],
           UNCHANGED operator, sessions' \subseteq Sessions,
           Told(a)'
    PROVE  LoginInv'
<1>1. LoginTypeOK'
  BY DEF LoginInv, LoginTypeOK, LoginState, Stage, Wires, Receipts, operator
<1>2. \A b \in Logins : Told(b)'
  <2> SUFFICES ASSUME NEW b \in Logins, b # a
               PROVE  Told(b)'
    OBVIOUS
  <2>1. login'[b] = login[b] /\ wire'[b] = wire[b] /\ receipt'[b] = receipt[b]
    BY DEF LoginInv, LoginTypeOK
  <2>2. Told(b)
    BY DEF LoginInv
  <2> QED
    BY <2>1, <2>2 DEF Told, BeforeReread
<1> QED
  BY <1>1, <1>2 DEF LoginInv

\* A login returns before its grant is sent.
LEMMA ReturnsKeeps ==
    ASSUME LoginInv, NEW a \in Logins, NEW r \in Receipts \ {"none", "ok"},
           Returns(a, r), UNCHANGED <<operator, sessions, wire>>,
           wire[a] \in {"sent", "in"} => r = "unknown"
    PROVE  LoginInv'
<1>1. login[a] \in LoginState /\ wire[a] \in Wires
  BY DEF LoginInv, LoginTypeOK, LoginState, Stage, Wires
<1> DEFINE s == [login[a] EXCEPT !.pc = "done"]
<1>2. s \in LoginState /\ s.pc = "done"
  BY <1>1 DEF LoginState, Stage
<1>3. /\ login' = [login EXCEPT ![a] = s]
      /\ wire' = [wire EXCEPT ![a] = wire[a]]
      /\ receipt' = [receipt EXCEPT ![a] = r]
  BY DEF Returns, LoginInv, LoginTypeOK
<1>4. login'[a].pc = "done" /\ wire'[a] = wire[a] /\ receipt'[a] = r
  BY <1>2, <1>3 DEF LoginInv, LoginTypeOK
<1>5. Told(a)'
  BY <1>4 DEF Told, BeforeReread
<1> HIDE DEF s
<1> QED
  BY <1>1, <1>2, <1>3, <1>5, OneLogin DEF LoginInv, LoginTypeOK

\* A login goes on to its next stage.
LEMMA GoesKeeps ==
    ASSUME LoginInv, NEW a \in Logins,
           login[a].pc \notin {"waiting", "done"},
           NEW q \in Stage \ {"idle", "done"}, Goes(a, q),
           UNCHANGED <<operator, sessions>>,
           NEW w \in Wires, wire' = [wire EXCEPT ![a] = w],
           w = "none" \/ q = "waiting",
           BeforeReread(a) \/ q \in {"use", "waiting"}
    PROVE  LoginInv'
<1>1. login[a] \in LoginState /\ receipt[a] = "none" /\ Told(a)
  BY DEF LoginInv, LoginTypeOK, LoginState, Stage, Told
<1> DEFINE s == [login[a] EXCEPT !.pc = q]
<1>2. s \in LoginState /\ s.pc = q /\ s.m = login[a].m
  BY <1>1 DEF LoginState
<1>3. /\ login' = [login EXCEPT ![a] = s]
      /\ receipt' = [receipt EXCEPT ![a] = "none"]
  BY <1>1 DEF Goes, LoginInv, LoginTypeOK
<1>4. login'[a] = s /\ wire'[a] = w /\ receipt'[a] = "none"
  BY <1>3 DEF LoginInv, LoginTypeOK
<1>5. Told(a)'
  BY <1>1, <1>2, <1>4 DEF Told, BeforeReread
<1> HIDE DEF s
<1> QED
  BY <1>2, <1>3, <1>5, OneLogin DEF LoginInv, LoginTypeOK, Receipts

\* Every step is of the operators, of one login or of the node, and keeps what
\* is known of each login.
LEMMA LoginKept == LoginInv /\ [LoginNext]_loginVars => LoginInv'
<1> SUFFICES ASSUME LoginInv, [LoginNext]_loginVars
             PROVE  LoginInv'
  OBVIOUS
<1>0. \A a \in Logins : /\ login[a] \in LoginState /\ Told(a)
                        /\ wire[a] \in Wires /\ receipt[a] \in Receipts
  BY DEF LoginInv, LoginTypeOK, LoginState, Stage, Wires, Receipts
<1>1. CASE EditMapping \/ EditKeys \/ EditPermit \/ PeopleComeAndGo
  <2>1. mapping' \in KeyFiles \cup {Unmapped} /\ keys' \subseteq KeyFiles
    BY <1>1 DEF LoginInv, LoginTypeOK, EditMapping, EditKeys, EditPermit,
       PeopleComeAndGo, operator
  <2>2. permit' \in BOOLEAN /\ sessions' \subseteq Sessions
    BY <1>1 DEF LoginInv, LoginTypeOK, EditMapping, EditKeys, EditPermit,
       PeopleComeAndGo, operator
  <2>3. UNCHANGED <<login, wire, receipt>>
    BY <1>1 DEF EditMapping, EditKeys, EditPermit, PeopleComeAndGo
  <2>4. LoginTypeOK'
    BY <2>1, <2>2, <2>3 DEF LoginInv, LoginTypeOK
  <2> QED
    BY <2>3, <2>4 DEF LoginInv, Told, BeforeReread
<1>2. \A a \in Logins : /\ wire = [wire EXCEPT ![a] = wire[a]]
                        /\ login[a].pc \notin {"waiting", "done"} =>
                              wire[a] = "none"
  BY <1>0 DEF Told, LoginInv, LoginTypeOK
<1>4. ASSUME NEW a \in Logins, Begin(a)
      PROVE  LoginInv'
  <2>1. CASE mapping = Unmapped
    BY <1>2, <1>4, <2>1, ReturnsKeeps DEF Begin, Receipts
  <2>2. CASE mapping # Unmapped
    <3> DEFINE s == [pc |-> "status", m |-> mapping]
    <3>1. s \in LoginState
      BY DEF LoginInv, LoginTypeOK, LoginState, Stage
    <3>2. receipt[a] = "none" /\ wire[a] = "none"
      BY <1>0, <1>4 DEF Begin, Told
    <3>3. login' = [login EXCEPT ![a] = s] /\ UNCHANGED <<operator, sessions>>
      BY <1>4, <2>2 DEF Begin
    <3>4. /\ wire' = [wire EXCEPT ![a] = "none"]
          /\ receipt' = [receipt EXCEPT ![a] = "none"]
      BY <1>4, <2>2, <3>2 DEF Begin, LoginInv, LoginTypeOK
    <3>5. login'[a] = s /\ wire'[a] = "none" /\ receipt'[a] = "none"
      BY <3>3, <3>4 DEF LoginInv, LoginTypeOK
    <3>6. Told(a)'
      BY <2>2, <3>5 DEF Told, BeforeReread
    <3> HIDE DEF s
    <3> QED
      BY <3>1, <3>3, <3>4, <3>6, OneLogin DEF Wires, Receipts, LoginInv,
         LoginTypeOK
  <2> QED
    BY <2>1, <2>2
<1>5. ASSUME NEW a \in Logins, Status(a)
      PROVE  LoginInv'
  <2>1. login[a].pc = "status" /\ UNCHANGED <<operator, sessions, wire>>
    BY <1>5 DEF Status
  <2>2. Returns(a, "reused") \/ Returns(a, "not_sent") \/ Goes(a, "key")
    BY <1>5 DEF Status
  <2> QED
    BY <1>2, <2>1, <2>2, ReturnsKeeps, GoesKeeps
    DEF BeforeReread, Receipts, Wires, Stage
<1>6. ASSUME NEW a \in Logins, Unavailable(a)
      PROVE  LoginInv'
  BY <1>2, <1>6, ReturnsKeeps DEF Unavailable, Receipts
<1>7. ASSUME NEW a \in Logins, ReadKey(a) \/ Check(a) \/ SignGrant(a)
      PROVE  LoginInv'
  <2>1. /\ login[a].pc \in {"key", "check", "challenge"}
        /\ UNCHANGED <<operator, sessions, wire>>
    BY <1>7 DEF ReadKey, Check, SignGrant
  <2>2. \/ Returns(a, "not_sent")
        \/ Goes(a, "check") \/ Goes(a, "challenge") \/ Goes(a, "signed")
    BY <1>7 DEF ReadKey, Check, SignGrant
  <2> QED
    BY <1>2, <2>1, <2>2, ReturnsKeeps, GoesKeeps
    DEF BeforeReread, Receipts, Wires, Stage
<1>8. ASSUME NEW a \in Logins, Reread(a) \/ Recheck(a)
      PROVE  LoginInv'
  <2>1. /\ login[a].pc \in {"signed", "recheck"}
        /\ UNCHANGED <<operator, sessions, wire>>
    BY <1>8 DEF Reread, Recheck
  <2>2. \/ Returns(a, "not_sent") \/ Goes(a, "use")
        \/ login[a].pc = "signed" /\ Goes(a, "recheck")
    BY <1>8 DEF Reread, Recheck
  <2> QED
    BY <1>2, <2>1, <2>2, ReturnsKeeps, GoesKeeps
    DEF BeforeReread, Receipts, Wires, Stage
<1>9. ASSUME NEW a \in Logins, Use(a)
      PROVE  LoginInv'
  BY <1>9, GoesKeeps DEF Use, Wires, Stage
<1>10. ASSUME NEW a \in Logins, NoReceipt(a)
       PROVE  LoginInv'
  BY <1>10, ReturnsKeeps DEF NoReceipt, Receipts
<1>10a. ASSUME NEW a \in Logins, Receipt(a)
        PROVE  LoginInv'
  <2>1. CASE wire[a] = "refused"
    BY <1>10a, <2>1, ReturnsKeeps DEF Receipt, Receipts
  <2>2. CASE wire[a] = "in"
    <3> DEFINE s == [login[a] EXCEPT !.pc = "done"]
    <3>1. s \in LoginState /\ s.pc = "done"
      BY <1>0 DEF LoginState, Stage
    <3>3. login' = [login EXCEPT ![a] = s] /\ UNCHANGED <<operator, sessions>>
      BY <1>10a, <2>2 DEF Receipt, Returns, LoginInv, LoginTypeOK
    <3>4. /\ wire' = [wire EXCEPT ![a] = "in"]
          /\ receipt' = [receipt EXCEPT ![a] = "ok"]
      BY <1>2, <1>10a, <2>2 DEF Receipt, Returns
    <3>5. login'[a] = s /\ wire'[a] = "in" /\ receipt'[a] = "ok"
      BY <3>3, <3>4 DEF LoginInv, LoginTypeOK
    <3>6. Told(a)'
      BY <3>1, <3>5 DEF Told, BeforeReread
    <3> HIDE DEF s
    <3> QED
      BY <3>1, <3>3, <3>4, <3>6, OneLogin DEF Wires, Receipts, LoginInv,
         LoginTypeOK
  <2> QED
    BY <1>10a, <2>1, <2>2 DEF Receipt
<1>11. ASSUME NEW a \in Logins, NodeSignsIn(a) \/ NodeRefuses(a)
       PROVE  LoginInv'
  <2>1. /\ wire[a] = "sent" /\ UNCHANGED <<operator, login, receipt>>
    BY <1>11 DEF NodeSignsIn, NodeRefuses
  <2>1a. sessions' \subseteq Sessions
    <3>1. [sid |-> "mapped", state |-> "active"] \in Sessions
      BY DEF Sessions
    <3>2. sessions \subseteq Sessions
      BY DEF LoginInv, LoginTypeOK
    <3> QED
      BY <1>11, <3>1, <3>2 DEF NodeSignsIn, NodeRefuses
  <2>2. PICK w \in {"in", "refused"} : wire' = [wire EXCEPT ![a] = w]
    BY <1>11 DEF NodeSignsIn, NodeRefuses
  <2>3. /\ login' = [login EXCEPT ![a] = login[a]]
        /\ receipt' = [receipt EXCEPT ![a] = receipt[a]]
    BY <2>1 DEF LoginInv, LoginTypeOK
  <2>4. wire'[a] = w
    BY <2>2 DEF LoginInv, LoginTypeOK
  <2>5. Told(a)'
    BY <1>0, <2>1, <2>4 DEF Told, BeforeReread
  <2> QED
    BY <1>0, <2>1, <2>1a, <2>2, <2>3, <2>5, OneLogin DEF Wires
<1>12. CASE UNCHANGED loginVars
  BY <1>12 DEF loginVars, LoginInv, LoginTypeOK, Told, BeforeReread
<1> QED
  BY <1>1, <1>4, <1>5, <1>6, <1>7, <1>8, <1>9, <1>10, <1>10a, <1>11, <1>12
     DEF LoginNext, LoginDesktop

\* The invariant holds in every state that sign-ins reach.
LEMMA LoginInvariant == LoginSpec => []LoginInv
  BY LoginStarts, LoginKept, PTL DEF LoginSpec

\* What is told of a sign-in whose grant went out never denies it, and "ok" is
\* told only of one that happened (desktop_identity.go:334-344).
THEOREM ReceiptIsHonest == LoginSpec => []HonestReceipt
<1>1. LoginInv => HonestReceipt
  BY DEF LoginInv, LoginTypeOK, Told, HonestReceipt
<1> QED
  BY <1>1, LoginInvariant, PTL

\* The steps of others, and of the node, leave a login without a grant alone.
LEMMA OthersLeave ==
    ASSUME LoginInv, [LoginNext]_loginVars, NEW a \in Logins, ~LoginDesktop(a),
           wire[a] = "none"
    PROVE  wire'[a] = "none" /\ login'[a] = login[a]
<1> USE DEF LoginInv, LoginTypeOK
<1>1. CASE EditMapping \/ EditKeys \/ EditPermit \/ PeopleComeAndGo
  BY <1>1 DEF EditMapping, EditKeys, EditPermit, PeopleComeAndGo
<1>2. ASSUME NEW b \in Logins, LoginDesktop(b)
      PROVE  wire'[a] = wire[a] /\ login'[a] = login[a]
  BY <1>2 DEF LoginDesktop, Begin, Status, Unavailable, ReadKey,
     Check, SignGrant, Reread, Recheck, Use, NoReceipt, Receipt,
     Returns, Goes
<1>3. ASSUME NEW b \in Logins, NodeSignsIn(b) \/ NodeRefuses(b)
      PROVE  wire'[a] = wire[a] /\ login'[a] = login[a]
  BY <1>3 DEF NodeSignsIn, NodeRefuses
<1>4. CASE UNCHANGED loginVars
  BY <1>4 DEF loginVars
<1> QED
  BY <1>1, <1>2, <1>3, <1>4 DEF LoginNext

\* Without the mapping, a login before its second look goes on to it or
\* returns.
LEMMA LookHolds ==
    ASSUME LoginInv, [LoginNext]_loginVars, NEW a \in Logins,
           mapping = Unmapped, wire[a] = "none",
           BeforeReread(a) \/ login[a].pc = "done"
    PROVE  wire'[a] = "none" /\ (BeforeReread(a)' \/ login'[a].pc = "done")
<1>1. CASE ~LoginDesktop(a)
  BY <1>1, OthersLeave DEF BeforeReread
<1>2. CASE LoginDesktop(a)
  BY <1>2 DEF LoginInv, LoginTypeOK, Told, BeforeReread, LoginDesktop,
     Begin, Status, Unavailable, ReadKey, Check, SignGrant, Reread,
     Recheck, Use, NoReceipt, Receipt, Returns, Goes
<1> QED
  BY <1>1, <1>2

\* Without the authorization, one before its second check goes on to that.
LEMMA CheckHolds ==
    ASSUME LoginInv, [LoginNext]_loginVars, NEW a \in Logins, ~permit,
           wire[a] = "none", BeforeRecheck(a) \/ login[a].pc = "done"
    PROVE  wire'[a] = "none" /\ (BeforeRecheck(a)' \/ login'[a].pc = "done")
<1>1. CASE ~LoginDesktop(a)
  BY <1>1, OthersLeave DEF BeforeRecheck, BeforeReread
<1>2. CASE LoginDesktop(a)
  BY <1>2 DEF LoginInv, LoginTypeOK, Told, BeforeRecheck, BeforeReread,
     LoginDesktop, Begin, Status, Unavailable, ReadKey, Check,
     SignGrant, Reread, Recheck, Use, NoReceipt, Receipt, Returns,
     Goes
<1> QED
  BY <1>1, <1>2

\* A login whose mapping stays away from before its second look on never sends
\* its grant (desktop_identity.go:71-72, 329-333).
THEOREM UnmappedStops == LoginSpec => UnmappedStopsGrant
<1>1. ASSUME NEW a \in Logins
      PROVE  LoginSpec => [](BeforeReread(a) /\ [](mapping = Unmapped)
                          => [](wire[a] = "none"))
  <2> DEFINE B == BeforeReread(a)
             M == mapping = Unmapped
             W == wire[a] = "none"
             J == W /\ (B \/ login[a].pc = "done")
  <2>1. LoginInv /\ B => J
    BY DEF LoginInv, Told, BeforeReread
  <2>2. LoginInv /\ [LoginNext]_loginVars /\ M /\ J => J'
    BY LookHolds
  <2>3. J => W
    OBVIOUS
  <2> HIDE DEF J, M, W, B
  <2>4. LoginSpec => [](B /\ []M => []W)
    BY <2>1, <2>2, <2>3, LoginInvariant, PTL DEF LoginSpec
  <2> QED
    BY <2>4 DEF B, M, W
<1> QED
  BY <1>1 DEF UnmappedStopsGrant

\* Nor does one that stays unauthorized from before its second check on
\* (desktop_identity.go:329-333).
THEOREM WithdrawnStops == LoginSpec => WithdrawnStopsGrant
<1>1. ASSUME NEW a \in Logins
      PROVE  LoginSpec => [](BeforeRecheck(a) /\ [](~permit)
                          => [](wire[a] = "none"))
  <2> DEFINE B == BeforeRecheck(a)
             M == ~permit
             W == wire[a] = "none"
             J == W /\ (B \/ login[a].pc = "done")
  <2>1. LoginInv /\ B => J
    BY DEF LoginInv, Told, BeforeRecheck, BeforeReread
  <2>2. LoginInv /\ [LoginNext]_loginVars /\ M /\ J => J'
    BY CheckHolds
  <2>3. J => W
    OBVIOUS
  <2> HIDE DEF J, M, W, B
  <2>4. LoginSpec => [](B /\ []M => []W)
    BY <2>1, <2>2, <2>3, LoginInvariant, PTL DEF LoginSpec
  <2> QED
    BY <2>4 DEF B, M, W
<1> QED
  BY <1>1 DEF WithdrawnStopsGrant
=============================================================================
