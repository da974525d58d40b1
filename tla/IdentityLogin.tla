---------------------------- MODULE IdentityLogin ----------------------------
(***************************************************************************)
(* Identity sign-in on a desktop: loginDesktop of desktop_identity.go with *)
(* the mapping, key, authorization and session state it depends on, each   *)
(* of which others change while it runs.                                   *)
(*                                                                         *)
(* The feature is pinned to one node and one account, and logins of a node *)
(* are serial (the gate of DesktopGate), so the module is about one node   *)
(* and one caller.  The grant's nonce, clock check and expiry belong to    *)
(* the node's verification and are left out.                               *)
(***************************************************************************)
EXTENDS Naturals, FiniteSets

CONSTANTS
    Logins,   \* login requests; each is used once
    KeyFiles, \* paths of signing keys
    Unmapped  \* no key file

ASSUME KeyAssumption == Unmapped \notin KeyFiles

VARIABLES
    mapping,  \* configuration file: the caller's key file, or Unmapped
    keys,     \* key files that hold a private key
    permit,   \* token valid and "full" authorized
    sessions, \* external: sessions on the node
    login,    \* local state of every loginDesktop
    wire,     \* external: what became of the grant at the node
    receipt   \* what the caller was told

loginVars == <<mapping, keys, permit, sessions, login, wire, receipt>>
operator == <<mapping, keys, permit>>

\* A session of the mapped account, of another one, or of one that cannot be
\* told; "locked" stands for every state that is not active and unlocked.
Sessions == [sid : {"mapped", "other", ""}, state : {"active", "locked"}]

LoginTypeOK ==
    /\ mapping \in KeyFiles \cup {Unmapped}
    /\ keys \subseteq KeyFiles
    /\ permit \in BOOLEAN
    /\ sessions \subseteq Sessions
    /\ login \in [Logins ->
         [pc : {"idle", "status", "key", "check", "challenge", "signed",
                "recheck", "use", "waiting", "done"},
          m : KeyFiles \cup {Unmapped}]]
    /\ wire \in [Logins -> {"none", "sent", "in", "refused"}]
    /\ receipt \in [Logins ->
         {"none", "not_sent", "reused", "ok", "refused", "unknown"}]

LoginInit ==
    /\ mapping \in KeyFiles \cup {Unmapped}
    /\ keys \in SUBSET KeyFiles
    /\ permit \in BOOLEAN
    /\ sessions = {}
    /\ login = [a \in Logins |-> [pc |-> "idle", m |-> Unmapped]]
    /\ wire = [a \in Logins |-> "none"]
    /\ receipt = [a \in Logins |-> "none"]

-----------------------------------------------------------------------------
(* External: the operator, the tower and the people at the node.           *)

EditMapping ==
    /\ mapping' \in (KeyFiles \cup {Unmapped}) \ {mapping}
    /\ UNCHANGED <<keys, permit, sessions, login, wire, receipt>>

EditKeys ==
    /\ keys' \in SUBSET KeyFiles \ {keys}
    /\ UNCHANGED <<mapping, permit, sessions, login, wire, receipt>>

EditPermit ==
    /\ permit' = ~permit
    /\ UNCHANGED <<mapping, keys, sessions, login, wire, receipt>>

PeopleComeAndGo ==
    /\ sessions' \in SUBSET Sessions \ {sessions}
    /\ UNCHANGED <<operator, login, wire, receipt>>

-----------------------------------------------------------------------------
(* loginDesktop.                                                           *)

Returns(a, r) ==
    /\ login' = [login EXCEPT ![a].pc = "done"]
    /\ receipt' = [receipt EXCEPT ![a] = r]

Goes(a, pc) ==
    /\ login' = [login EXCEPT ![a].pc = pc]
    /\ UNCHANGED receipt

\* The gate is free; the mapping is read.
Begin(a) ==
    /\ login[a].pc = "idle"
    /\ \A b \in Logins : login[b].pc \in {"idle", "done"}
    /\ IF mapping = Unmapped THEN Returns(a, "not_sent")
       ELSE /\ login' = [login EXCEPT ![a] = [pc |-> "status", m |-> mapping]]
            /\ UNCHANGED receipt
    /\ UNCHANGED <<operator, sessions, wire>>

\* desktopLoginDecision, for a node that is not paused.
Decision(rows) ==
    LET own == {s \in rows : s.sid = "mapped"} IN
    CASE \E s \in rows : s.sid = "" -> "refuse"
      [] Cardinality(own) > 1 -> "refuse"
      [] own # {} -> IF \A s \in own : s.state = "active" THEN "reuse"
                     ELSE "refuse"
      [] rows # {} -> "refuse"
      [] OTHER -> "create"

Status(a) ==
    /\ login[a].pc = "status"
    /\ CASE Decision(sessions) = "reuse" -> Returns(a, "reused")
         [] Decision(sessions) = "create" -> Goes(a, "key")
         [] OTHER -> Returns(a, "not_sent")
    /\ UNCHANGED <<operator, sessions, wire>>

\* A human paused the desktop, the backend is not ready, or no status came; no
\* challenge came, or one that cannot be signed.
Unavailable(a) ==
    /\ login[a].pc \in {"status", "challenge"}
    /\ Returns(a, "not_sent")
    /\ UNCHANGED <<operator, sessions, wire>>

ReadKey(a) ==
    /\ login[a].pc = "key"
    /\ IF login[a].m \in keys THEN Goes(a, "check") ELSE Returns(a, "not_sent")
    /\ UNCHANGED <<operator, sessions, wire>>

\* Validates the token again and asks the tower.
Check(a) ==
    /\ login[a].pc = "check"
    /\ IF permit THEN Goes(a, "challenge") ELSE Returns(a, "not_sent")
    /\ UNCHANGED <<operator, sessions, wire>>

\* The node's challenge arrives and is signed with the key read before.
SignGrant(a) ==
    /\ login[a].pc = "challenge"
    /\ Goes(a, "signed")
    /\ UNCHANGED <<operator, sessions, wire>>

\* Faulty: any mapping will do.
RereadAny(a) ==
    /\ login[a].pc = "signed"
    /\ Goes(a, "recheck")
    /\ UNCHANGED <<operator, sessions, wire>>

\* "Re-read mapping immediately before use": the mapping and the key's path.
Reread(a) ==
    /\ login[a].pc = "signed"
    /\ IF mapping = login[a].m THEN Goes(a, "recheck")
       ELSE Returns(a, "not_sent")
    /\ UNCHANGED <<operator, sessions, wire>>

\* Faulty: the first check is taken to be enough.
RecheckNot(a) ==
    /\ login[a].pc = "recheck"
    /\ Goes(a, "use")
    /\ UNCHANGED <<operator, sessions, wire>>

Recheck(a) ==
    /\ login[a].pc = "recheck"
    /\ IF permit THEN Goes(a, "use") ELSE Returns(a, "not_sent")
    /\ UNCHANGED <<operator, sessions, wire>>

Use(a) ==
    /\ login[a].pc = "use"
    /\ Goes(a, "waiting")
    /\ wire' = [wire EXCEPT ![a] = "sent"]
    /\ UNCHANGED <<operator, sessions>>

\* Faulty: a lost receipt is taken for a grant that was not sent.
NoReceiptNotSent(a) ==
    /\ login[a].pc \in {"use", "waiting"}
    /\ Returns(a, "not_sent")
    /\ UNCHANGED <<operator, sessions, wire>>

\* The caller is gone before the dispatch, the tunnel breaks, no receipt comes
\* in time or it names another account: the outcome is unknown.
NoReceipt(a) ==
    /\ login[a].pc \in {"use", "waiting"}
    /\ Returns(a, "unknown")
    /\ UNCHANGED <<operator, sessions, wire>>

Receipt(a) ==
    /\ login[a].pc = "waiting" /\ wire[a] \in {"in", "refused"}
    /\ Returns(a, IF wire[a] = "in" THEN "ok" ELSE "refused")
    /\ UNCHANGED <<operator, sessions, wire>>

-----------------------------------------------------------------------------
(* External: the node's provider; it may act after the broker gave up.     *)

NodeSignsIn(a) ==
    /\ wire[a] = "sent"
    /\ wire' = [wire EXCEPT ![a] = "in"]
    /\ sessions' = sessions \cup {[sid |-> "mapped", state |-> "active"]}
    /\ UNCHANGED <<operator, login, receipt>>

NodeRefuses(a) ==
    /\ wire[a] = "sent"
    /\ wire' = [wire EXCEPT ![a] = "refused"]
    /\ UNCHANGED <<operator, sessions, login, receipt>>

LoginDesktop(a) ==
    \/ Begin(a) \/ Status(a) \/ Unavailable(a) \/ ReadKey(a) \/ Check(a)
    \/ SignGrant(a) \/ Reread(a) \/ Recheck(a) \/ Use(a) \/ NoReceipt(a)
    \/ Receipt(a)

LoginNext ==
    \/ EditMapping \/ EditKeys \/ EditPermit \/ PeopleComeAndGo
    \/ \E a \in Logins : LoginDesktop(a) \/ NodeSignsIn(a) \/ NodeRefuses(a)

LoginSpec == LoginInit /\ [][LoginNext]_loginVars

\* A login under way runs on; every wait of it has a limit.
LoginFairSpec == LoginSpec /\ \A a \in Logins : WF_loginVars(LoginDesktop(a))

-----------------------------------------------------------------------------
\* A sign-in that happened, or may yet happen, is never reported as one that
\* did not: what is told of a login whose grant went out is "ok", the node's
\* own refusal, or that the outcome is unknown (desktop_identity.go:334-344).
HonestReceipt ==
    \A a \in Logins :
        /\ wire[a] \in {"sent", "in"} =>
              receipt[a] \in {"none", "ok", "unknown"}
        /\ receipt[a] = "ok" => wire[a] = "in"

\* The stages of a login that end before the second look at the mapping, and
\* before the second check of the authorization.
BeforeReread(a) == login[a].pc \in {"status", "key", "check", "challenge",
                                    "signed"}
BeforeRecheck(a) == BeforeReread(a) \/ login[a].pc = "recheck"

\* A mapping removed while a login is under way, before its second look, stops
\* the grant (desktop_identity.go:71-72, 329-333).
UnmappedStopsGrant ==
    \A a \in Logins :
        [](BeforeReread(a) /\ [](mapping = Unmapped) => [](wire[a] = "none"))

\* So does an authorization withdrawn before the second check.
WithdrawnStopsGrant ==
    \A a \in Logins :
        [](BeforeRecheck(a) /\ [](~permit) => [](wire[a] = "none"))
=============================================================================
