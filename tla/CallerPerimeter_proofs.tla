------------------------ MODULE CallerPerimeter_proofs ------------------------
(***************************************************************************)
(* Proofs about CallerPerimeter, for any callers, requests and nodes and   *)
(* any table of references.  The safety properties follow from IndInv,     *)
(* shown inductive one action at a time: first the types, then what the    *)
(* stages establish.                                                       *)
(***************************************************************************)
EXTENDS CallerPerimeter, TLAPS, FiniteSetTheorems

-----------------------------------------------------------------------------
(* Why it holds: what each stage of a handler has established.             *)

\* Nothing is logged before the end, nothing sent before "inject"; whoever gets
\* that far was allowed and has its start event.
Stages ==
    \A q \in Requests :
        LET c == req[q] IN
        /\ c.pc # "done" => log[q] = None
        /\ Sent(q) => c.pc \in {"sent", "answered", "done"}
        /\ c.pc = "get" => c.kind = "output"
        /\ c.pc = "resolve" =>
              /\ c.answer # "none" /\ c.kind # "output"
              /\ c.answer = "yes" /\ c.kind # "knowledge" => c.allowed
        /\ c.pc = "resolved" =>
              /\ c.answer = "yes"
              /\ c.kind # "knowledge" => c.allowed
        /\ c.pc \in {"inject", "sent", "answered"} =>
              /\ c.answer = "yes" /\ c.allowed /\ q \in started
              /\ c.kind \in {"run", "file", "desktop"}
        /\ c.pc = "answered" =>
              c.kind = "run" /\ wire[q] \in {"acted", "refused"}

\* What q reads is the output of a finished command of its own caller.
OwnOutput(q) ==
    LET of == req[q].of IN
    /\ of \in Requests
    /\ req[of].pc = "done" /\ req[of].caller = req[q].caller
    /\ wire[of] = "acted"

OutputOwned ==
    /\ \A q \in captures : req[q].pc = "done" /\ wire[q] = "acted"
    /\ \A q \in Requests :
          req[q].kind = "output"
          /\ \/ req[q].pc \in {"authorize", "resolved"}
             \/ log[q] # None /\ log[q].status = "ok"
          => OwnOutput(q)

IndInv ==
    /\ TypeOK /\ Stages /\ OutputOwned
    /\ SentIsAudited /\ StatusIsHonest /\ OutputToOwner

-----------------------------------------------------------------------------
USE NodesAssumption

HandlerState ==
    [pc : {"idle", "received", "get", "authorize", "resolve", "resolved",
           "inject", "sent", "answered", "done"},
     kind : Kinds, caller : Callers \cup {None}, ref : Refs \cup {None},
     of : Requests \cup {None}, answer : {"none", "yes", "no"},
     allowed : BOOLEAN, node : Nodes \cup {None}]

Record == [status : Statuses, allowed : BOOLEAN, node : Nodes \cup {None}]

\* The program starts in the invariant.
LEMMA InitInv == Init => IndInv
<1> SUFFICES ASSUME Init
             PROVE  IndInv
  OBVIOUS
<1>1. Fresh \in HandlerState
  BY DEF Fresh, HandlerState, Kinds
<1>2. TypeOK
  BY <1>1 DEF Init, TypeOK, HandlerState
<1>3. Stages /\ OutputOwned
  BY DEF Init, Stages, OutputOwned, Fresh, Sent
<1>4. SentIsAudited /\ StatusIsHonest /\ OutputToOwner
  BY DEF Init, SentIsAudited, StatusIsHonest, OutputToOwner, Sent
<1> QED
  BY <1>2, <1>3, <1>4 DEF IndInv

\* What Resolve does, without its LET: it ends with a status that says the
\* call did not run, or goes on, with a permission and a node that matches.
ResolveGives(q) ==
    /\ req[q].pc = "resolve"
    /\ UNCHANGED <<live, known, captures, started, wire>>
    /\ \/ \E record \in Record :
             /\ record.status \in {"denied", "error", "no-tunnel", "ambiguous"}
             /\ log' = [log EXCEPT ![q] = record]
             /\ req' = [req EXCEPT ![q].pc = "done"]
       \/ \E node \in Nodes :
             /\ req[q].answer # "no"
             /\ node \in Matches(req[q].ref, Hosts(req[q].kind))
             /\ req' = [req EXCEPT ![q] =
                          [req[q] EXCEPT !.pc = "resolved", !.node = node]]
             /\ UNCHANGED log

LEMMA ResolveFinds ==
    ASSUME TypeOK, NEW q \in Requests, Resolve(q)
    PROVE  ResolveGives(q)
<1> USE DEF ResolveGives
<1>0. /\ req[q].pc = "resolve"
      /\ UNCHANGED <<live, known, captures, started, wire>>
  BY DEF Resolve
<1> DEFINE M == Matches(req[q].ref, Hosts(req[q].kind))
           node == IF Cardinality(M) = 1 THEN CHOOSE n \in M : TRUE ELSE None
<1>1. M \subseteq Nodes
  BY DEF Matches, Hosts, TypeOK
<1>2. node = None \/ node \in M
  <2>1. Cardinality(M) = 1 => M # {}
    BY FS_EmptySet
  <2> QED
    BY <2>1
<1>3. CASE req[q].answer = "no"
  <2>1. EndsWith(q, "denied", FALSE, node)
    BY <1>3 DEF Resolve
  <2>2. [status |-> "denied", allowed |-> FALSE, node |-> node] \in Record
    BY <1>1, <1>2 DEF Record, Statuses
  <2> QED
    BY <1>0, <2>1, <2>2 DEF EndsWith
<1>4. CASE req[q].answer # "no" /\ node = None
  <2>1. \E status \in {"error", "no-tunnel", "ambiguous"} : Ends(q, status)
    BY <1>4 DEF Resolve
  <2>2. \A status \in {"error", "no-tunnel", "ambiguous"} :
           [status |-> status, allowed |-> req[q].allowed,
            node |-> req[q].node] \in Record
    BY DEF TypeOK, Record, Statuses
  <2> QED
    BY <1>0, <2>1, <2>2 DEF Ends, EndsWith
<1>5. CASE req[q].answer # "no" /\ node # None
  <2>1. /\ req' = [req EXCEPT ![q].pc = "resolved", ![q].node = node]
        /\ UNCHANGED log
    BY <1>5 DEF Resolve
  <2>2. node \in M /\ node \in Nodes
    BY <1>1, <1>2, <1>5
  <2> HIDE DEF node
  <2>3. req' = [req EXCEPT ![q] =
                   [req[q] EXCEPT !.pc = "resolved", !.node = node]]
    BY <2>1 DEF TypeOK
  <2> QED
    BY <1>0, <1>5, <2>1, <2>2, <2>3
<1> QED
  BY <1>3, <1>4, <1>5

LEMMA ResolveType ==
    ASSUME TypeOK, NEW q \in Requests, Resolve(q)
    PROVE  TypeOK'
<1>1. req \in [Requests -> HandlerState]
  BY DEF TypeOK, HandlerState
<1>2. \A node \in Nodes :
         [req[q] EXCEPT !.pc = "resolved", !.node = node] \in HandlerState
  <2>1. req[q] \in HandlerState
    BY <1>1
  <2> QED
    BY <2>1 DEF HandlerState
<1>3. [req[q] EXCEPT !.pc = "done"] \in HandlerState
  BY <1>1 DEF HandlerState
<1>4. ResolveGives(q)
  BY ResolveFinds
<1>5. req' \in [Requests -> HandlerState]
  BY <1>1, <1>2, <1>3, <1>4 DEF ResolveGives
<1>6. log' \in [Requests -> Record \cup {None}]
  <2>1. log \in [Requests -> Record \cup {None}]
    BY DEF TypeOK, Record
  <2> QED
    BY <1>4, <2>1 DEF ResolveGives
<1> QED
  BY <1>4, <1>5, <1>6 DEF ResolveGives, TypeOK, HandlerState, Record

\* Every step preserves types.
LEMMA NextType == IndInv /\ [Next]_vars => TypeOK'
<1> SUFFICES ASSUME IndInv, [Next]_vars
             PROVE  TypeOK'
  OBVIOUS
<1> USE DEF IndInv, TypeOK, Kinds, Statuses, EndsWith, Ends
<1>1. ASSUME NEW q \in Requests, NEW c \in Callers, NEW kind \in Kinds,
             NEW r \in Refs, NEW of \in Requests \cup {None},
             Arrive(q, c, kind, r, of)
      PROVE  TypeOK'
  BY <1>1 DEF Arrive, Fresh
<1>2. ASSUME NEW q \in Requests, BadRequest(q)
      PROVE  TypeOK'
  BY <1>2 DEF BadRequest
<1>3. ASSUME NEW q \in Requests, Accepted(q)
      PROVE  TypeOK'
  BY <1>3 DEF Accepted
<1>4. ASSUME NEW q \in Requests, Get(q)
      PROVE  TypeOK'
  BY <1>4 DEF Get
<1>5. ASSUME NEW q \in Requests, AuthzUnavailable(q)
      PROVE  TypeOK'
  BY <1>5 DEF AuthzUnavailable
<1>6. ASSUME NEW q \in Requests, NEW allowed \in BOOLEAN, Authorize(q, allowed)
      PROVE  TypeOK'
  BY <1>6 DEF Authorize
<1>7. ASSUME NEW q \in Requests, Resolve(q)
      PROVE  TypeOK'
  BY <1>7, ResolveType
<1>8. ASSUME NEW q \in Requests, Unsupported(q)
      PROVE  TypeOK'
  BY <1>8 DEF Unsupported
<1>9. ASSUME NEW q \in Requests, StartCall(q)
      PROVE  TypeOK'
  BY <1>9 DEF StartCall
<1>10. ASSUME NEW q \in Requests, AnsweredHere(q)
      PROVE  TypeOK'
  <2>1. PICK status \in {"ok", "error"} : Ends(q, status)
    BY <1>10 DEF AnsweredHere
  <2> QED
    BY <1>10, <2>1 DEF AnsweredHere
<1>11. ASSUME NEW q \in Requests, Inject(q)
      PROVE  TypeOK'
  BY <1>11 DEF Inject
<1>12. ASSUME NEW q \in Requests, InjectFails(q)
      PROVE  TypeOK'
  BY <1>12 DEF InjectFails
<1>13. ASSUME NEW q \in Requests, Answered(q)
      PROVE  TypeOK'
  BY <1>13 DEF Answered
<1>14. ASSUME NEW q \in Requests, Inline(q)
      PROVE  TypeOK'
  BY <1>14 DEF Inline
<1>15. ASSUME NEW q \in Requests, Capture(q)
      PROVE  TypeOK'
  BY <1>15 DEF Capture
<1>16. ASSUME NEW q \in Requests, CaptureFails(q)
      PROVE  TypeOK'
  BY <1>16 DEF CaptureFails
<1>17. ASSUME NEW q \in Requests, ReadOutput(q)
      PROVE  TypeOK'
  BY <1>17 DEF ReadOutput
<1>18. ASSUME NEW q \in Requests, AskTower(q)
      PROVE  TypeOK'
  <2>1. PICK status \in {"ok", "denied", "bad-request", "error:control"} :
           EndsWith(q, status, status = "ok", req[q].node)
    BY <1>18 DEF AskTower
  <2>2. (status = "ok") \in BOOLEAN
    OBVIOUS
  <2> QED
    BY <1>18, <2>1, <2>2 DEF AskTower
<1>19. ASSUME NEW q \in Requests, NodeActs(q) \/ NodeRefuses(q)
      PROVE  TypeOK'
  BY <1>19 DEF NodeActs, NodeRefuses
<1>20. ASSUME NEW n \in Nodes, Tunnel(n)
      PROVE  TypeOK'
  BY <1>20 DEF Tunnel
<1>21. CASE Refresh
  BY <1>21 DEF Refresh
<1>22. ASSUME NEW q \in Requests, Evict(q)
      PROVE  TypeOK'
  BY <1>22 DEF Evict
<1>23. CASE UNCHANGED vars
  BY <1>23 DEF vars
<1> HIDE DEF IndInv, TypeOK, Kinds, Statuses, EndsWith, Ends
<1> QED
  BY <1>1, <1>2, <1>3, <1>4, <1>5, <1>6, <1>7, <1>8, <1>9, <1>10, <1>11,
     <1>12, <1>13, <1>14, <1>15, <1>16, <1>17, <1>18, <1>19, <1>20, <1>21,
     <1>22, <1>23 DEF Next, Handler

\* Every step keeps what the stages establish, and with it the audit.
LEMMA StagesKept ==
    IndInv /\ [Next]_vars => Stages' /\ SentIsAudited' /\ StatusIsHonest'
<1> SUFFICES ASSUME IndInv, [Next]_vars
             PROVE  Stages' /\ SentIsAudited' /\ StatusIsHonest'
  OBVIOUS
<1> USE DEF IndInv, TypeOK, Stages, SentIsAudited, StatusIsHonest, Sent,
            EndsWith, Ends
<1>1. ASSUME NEW q \in Requests, NEW c \in Callers, NEW kind \in Kinds,
             NEW r \in Refs, NEW of \in Requests \cup {None},
             Arrive(q, c, kind, r, of)
      PROVE  Stages' /\ SentIsAudited' /\ StatusIsHonest'
  BY <1>1 DEF Arrive, Fresh
<1>2. ASSUME NEW q \in Requests, BadRequest(q)
      PROVE  Stages' /\ SentIsAudited' /\ StatusIsHonest'
  BY <1>2 DEF BadRequest
<1>3. ASSUME NEW q \in Requests, Accepted(q)
      PROVE  Stages' /\ SentIsAudited' /\ StatusIsHonest'
  BY <1>3 DEF Accepted
<1>4. ASSUME NEW q \in Requests, Get(q)
      PROVE  Stages' /\ SentIsAudited' /\ StatusIsHonest'
  <2>1. /\ req[q].pc = "get"
        /\ UNCHANGED <<live, known, captures, started, wire>>
    BY <1>4 DEF Get
  <2>2. CASE Ends(q, "denied") \/ Ends(q, "not-found")
    BY <2>1, <2>2
  <2>3. CASE ~(Ends(q, "denied") \/ Ends(q, "not-found"))
    <3>1. /\ req' = [req EXCEPT ![q].pc = "authorize",
                               ![q].node = req[req[q].of].node]
          /\ UNCHANGED log
      BY <1>4, <2>3 DEF Get
    <3> QED
      BY <2>1, <3>1
  <2> QED
    BY <2>2, <2>3
<1>5. ASSUME NEW q \in Requests, AuthzUnavailable(q)
      PROVE  Stages' /\ SentIsAudited' /\ StatusIsHonest'
  BY <1>5 DEF AuthzUnavailable
<1>6. ASSUME NEW q \in Requests, NEW allowed \in BOOLEAN,
             Authorize(q, allowed)
      PROVE  Stages' /\ SentIsAudited' /\ StatusIsHonest'
  BY <1>6 DEF Authorize
<1>7. ASSUME NEW q \in Requests, Resolve(q)
      PROVE  Stages' /\ SentIsAudited' /\ StatusIsHonest'
  <2>1. ResolveGives(q)
    BY <1>7, ResolveFinds
  <2>0. /\ req[q].pc = "resolve"
        /\ UNCHANGED <<live, known, captures, started, wire>>
    BY <2>1 DEF ResolveGives
  <2>2. ASSUME NEW record \in Record,
               record.status \in {"denied", "error", "no-tunnel", "ambiguous"},
               log' = [log EXCEPT ![q] = record],
               req' = [req EXCEPT ![q].pc = "done"]
        PROVE  Stages' /\ SentIsAudited' /\ StatusIsHonest'
    BY <2>0, <2>2 DEF Record
  <2>3. ASSUME NEW node \in Nodes, req[q].answer # "no", UNCHANGED log,
               req' = [req EXCEPT ![q] =
                          [req[q] EXCEPT !.pc = "resolved", !.node = node]]
        PROVE  Stages' /\ SentIsAudited' /\ StatusIsHonest'
    BY <2>0, <2>3
  <2> QED
    BY <2>1, <2>2, <2>3 DEF ResolveGives
<1>8. ASSUME NEW q \in Requests, Unsupported(q)
      PROVE  Stages' /\ SentIsAudited' /\ StatusIsHonest'
  BY <1>8 DEF Unsupported
<1>9. ASSUME NEW q \in Requests, StartCall(q)
      PROVE  Stages' /\ SentIsAudited' /\ StatusIsHonest'
  BY <1>9 DEF StartCall
<1>10. ASSUME NEW q \in Requests, AnsweredHere(q)
      PROVE  Stages' /\ SentIsAudited' /\ StatusIsHonest'
  BY <1>10 DEF AnsweredHere
<1>11. ASSUME NEW q \in Requests, Inject(q)
      PROVE  Stages' /\ SentIsAudited' /\ StatusIsHonest'
  BY <1>11 DEF Inject
<1>12. ASSUME NEW q \in Requests, InjectFails(q)
      PROVE  Stages' /\ SentIsAudited' /\ StatusIsHonest'
  BY <1>12 DEF InjectFails
<1>13. ASSUME NEW q \in Requests, Answered(q)
      PROVE  Stages' /\ SentIsAudited' /\ StatusIsHonest'
  <2>1. /\ req[q].pc = "sent" /\ wire[q] \in {"acted", "refused"}
        /\ UNCHANGED <<live, known, captures, started, wire>>
    BY <1>13 DEF Answered
  <2>2. CASE req[q].kind = "run"
    <3>1. /\ req' = [req EXCEPT ![q].pc = "answered"]
          /\ UNCHANGED log
      BY <1>13, <2>2 DEF Answered
    <3> QED
      BY <2>1, <2>2, <3>1
  <2>3. CASE req[q].kind # "run"
    <3>1. PICK status \in {"ok", "error", "unsupported"} :
             /\ Ends(q, status)
             /\ status = "unsupported" => wire[q] = "refused"
      BY <1>13, <2>3 DEF Answered
    <3> QED
      BY <2>1, <3>1
  <2> QED
    BY <2>2, <2>3
<1>14. ASSUME NEW q \in Requests, Inline(q)
      PROVE  Stages' /\ SentIsAudited' /\ StatusIsHonest'
  BY <1>14 DEF Inline
<1>15. ASSUME NEW q \in Requests, Capture(q)
      PROVE  Stages' /\ SentIsAudited' /\ StatusIsHonest'
  BY <1>15 DEF Capture
<1>16. ASSUME NEW q \in Requests, CaptureFails(q)
      PROVE  Stages' /\ SentIsAudited' /\ StatusIsHonest'
  BY <1>16 DEF CaptureFails
<1>17. ASSUME NEW q \in Requests, ReadOutput(q)
      PROVE  Stages' /\ SentIsAudited' /\ StatusIsHonest'
  BY <1>17 DEF ReadOutput
<1>18. ASSUME NEW q \in Requests, AskTower(q)
      PROVE  Stages' /\ SentIsAudited' /\ StatusIsHonest'
  BY <1>18 DEF AskTower
<1>19. ASSUME NEW q \in Requests, NodeActs(q) \/ NodeRefuses(q)
      PROVE  Stages' /\ SentIsAudited' /\ StatusIsHonest'
  BY <1>19 DEF NodeActs, NodeRefuses
<1>20. ASSUME NEW n \in Nodes, Tunnel(n)
      PROVE  Stages' /\ SentIsAudited' /\ StatusIsHonest'
  BY <1>20 DEF Tunnel
<1>21. CASE Refresh
  BY <1>21 DEF Refresh
<1>22. ASSUME NEW q \in Requests, Evict(q)
      PROVE  Stages' /\ SentIsAudited' /\ StatusIsHonest'
  BY <1>22 DEF Evict
<1>23. CASE UNCHANGED vars
  BY <1>23 DEF vars
<1> HIDE DEF IndInv, TypeOK, Stages, SentIsAudited, StatusIsHonest, Sent,
             EndsWith, Ends
<1> QED
  BY <1>1, <1>2, <1>3, <1>4, <1>5, <1>6, <1>7, <1>8, <1>9, <1>10, <1>11,
     <1>12, <1>13, <1>14, <1>15, <1>16, <1>17, <1>18, <1>19, <1>20, <1>21,
     <1>22, <1>23 DEF Next, Handler

\* A command whose output is held or read stays finished, and its caller's.
LEMMA OutputKept == IndInv /\ [Next]_vars => OutputOwned' /\ OutputToOwner'
<1> SUFFICES ASSUME IndInv, [Next]_vars
             PROVE  OutputOwned' /\ OutputToOwner'
  OBVIOUS
<1> USE DEF IndInv, TypeOK, Stages, OutputOwned, OwnOutput, OutputToOwner,
            EndsWith, Ends
<1>1. ASSUME NEW q \in Requests, NEW c \in Callers, NEW kind \in Kinds,
             NEW r \in Refs, NEW of \in Requests \cup {None},
             Arrive(q, c, kind, r, of)
      PROVE  OutputOwned' /\ OutputToOwner'
  BY <1>1 DEF Arrive, Fresh
<1>2. ASSUME NEW q \in Requests, BadRequest(q)
      PROVE  OutputOwned' /\ OutputToOwner'
  BY <1>2 DEF BadRequest
<1>3. ASSUME NEW q \in Requests, Accepted(q)
      PROVE  OutputOwned' /\ OutputToOwner'
  BY <1>3 DEF Accepted
<1>4. ASSUME NEW q \in Requests, Get(q)
      PROVE  OutputOwned' /\ OutputToOwner'
  <2>1. /\ req[q].pc = "get"
        /\ UNCHANGED <<live, known, captures, started, wire>>
    BY <1>4 DEF Get
  <2>2. CASE Ends(q, "denied") \/ Ends(q, "not-found")
    <3>1. PICK status \in {"denied", "not-found"} : Ends(q, status)
      BY <2>2
    <3> QED
      BY <2>1, <3>1
  <2>3. CASE ~(Ends(q, "denied") \/ Ends(q, "not-found"))
    <3>1. /\ req[q].of \in captures
          /\ req[req[q].of].caller = req[q].caller
          /\ req' = [req EXCEPT ![q].pc = "authorize",
                               ![q].node = req[req[q].of].node]
          /\ UNCHANGED log
      BY <1>4, <2>3 DEF Get
    <3>2. OwnOutput(q)'
      BY <2>1, <3>1
    <3>3. \A p \in Requests \ {q} : OwnOutput(p) => OwnOutput(p)'
      BY <2>1, <3>1
    <3>4. OutputOwned'
      <4> HIDE DEF OwnOutput
      <4> QED
        BY <2>1, <3>1, <3>2, <3>3
    <3>5. OutputToOwner'
      BY <2>1, <3>1
    <3> QED
      BY <3>4, <3>5
  <2> QED
    BY <2>2, <2>3
<1>5. ASSUME NEW q \in Requests, AuthzUnavailable(q)
      PROVE  OutputOwned' /\ OutputToOwner'
  BY <1>5 DEF AuthzUnavailable
<1>6. ASSUME NEW q \in Requests, NEW allowed \in BOOLEAN,
             Authorize(q, allowed)
      PROVE  OutputOwned' /\ OutputToOwner'
  <2>0. /\ req[q].pc = "authorize" /\ UNCHANGED wire
        /\ \A p \in Requests :
              /\ req'[p].of = req[p].of /\ req'[p].caller = req[p].caller
              /\ p # q => req'[p].pc = req[p].pc
    BY <1>6 DEF Authorize
  <2>1. \A p \in Requests :
           OwnOutput(p) /\ req[p].pc # "idle" => OwnOutput(p)'
    BY <2>0
  <2>2. \A p \in captures' : req'[p].pc = "done" /\ wire'[p] = "acted"
    BY <1>6 DEF Authorize
  <2>3. \A p \in Requests :
           req'[p].kind = "output"
           /\ \/ req'[p].pc \in {"authorize", "resolved"}
              \/ log'[p] # None /\ log'[p].status = "ok"
           => OwnOutput(p)'
    <3> HIDE DEF OwnOutput
    <3>1. \A p \in Requests \ {q} : UNCHANGED <<req[p], log[p]>>
      BY <1>6 DEF Authorize
    <3>2. req'[q].kind = req[q].kind
      BY <1>6 DEF Authorize
    <3>3. log'[q] # None => log'[q].status # "ok"
      BY <1>6 DEF Authorize
    <3> QED
      BY <2>0, <2>1, <3>1, <3>2, <3>3
  <2>4. OutputToOwner'
    BY <1>6, <2>3 DEF Authorize
  <2> QED
    BY <2>2, <2>3, <2>4
<1>7. ASSUME NEW q \in Requests, Resolve(q)
      PROVE  OutputOwned' /\ OutputToOwner'
  <2>1. ResolveGives(q)
    BY <1>7, ResolveFinds
  <2>0. /\ req[q].pc = "resolve"
        /\ UNCHANGED <<live, known, captures, started, wire>>
    BY <2>1 DEF ResolveGives
  <2>2. ASSUME NEW record \in Record,
               record.status \in {"denied", "error", "no-tunnel", "ambiguous"},
               log' = [log EXCEPT ![q] = record],
               req' = [req EXCEPT ![q].pc = "done"]
        PROVE  OutputOwned' /\ OutputToOwner'
    BY <2>0, <2>2 DEF Record
  <2>3. ASSUME NEW node \in Nodes, req[q].answer # "no", UNCHANGED log,
               req' = [req EXCEPT ![q] =
                          [req[q] EXCEPT !.pc = "resolved", !.node = node]]
        PROVE  OutputOwned' /\ OutputToOwner'
    BY <2>0, <2>3
  <2> QED
    BY <2>1, <2>2, <2>3 DEF ResolveGives
<1>8. ASSUME NEW q \in Requests, Unsupported(q)
      PROVE  OutputOwned' /\ OutputToOwner'
  BY <1>8 DEF Unsupported
<1>9. ASSUME NEW q \in Requests, StartCall(q)
      PROVE  OutputOwned' /\ OutputToOwner'
  BY <1>9 DEF StartCall
<1>10. ASSUME NEW q \in Requests, AnsweredHere(q)
      PROVE  OutputOwned' /\ OutputToOwner'
  BY <1>10 DEF AnsweredHere
<1>11. ASSUME NEW q \in Requests, Inject(q)
      PROVE  OutputOwned' /\ OutputToOwner'
  <2>0. /\ req[q].pc = "inject"
        /\ \A p \in Requests :
              /\ req'[p].of = req[p].of /\ req'[p].caller = req[p].caller
              /\ p # q => req'[p].pc = req[p].pc /\ wire'[p] = wire[p]
    BY <1>11 DEF Inject
  <2>1. \A p \in Requests :
           OwnOutput(p) /\ req[p].pc # "idle" => OwnOutput(p)'
    BY <2>0
  <2>2. \A p \in captures' : req'[p].pc = "done" /\ wire'[p] = "acted"
    BY <1>11 DEF Inject
  <2>3. \A p \in Requests :
           req'[p].kind = "output"
           /\ \/ req'[p].pc \in {"authorize", "resolved"}
              \/ log'[p] # None /\ log'[p].status = "ok"
           => OwnOutput(p)'
    <3> HIDE DEF OwnOutput
    <3> QED
      BY <1>11, <2>1 DEF Inject
  <2>4. OutputToOwner'
    BY <1>11, <2>3 DEF Inject
  <2> QED
    BY <2>2, <2>3, <2>4
<1>12. ASSUME NEW q \in Requests, InjectFails(q)
      PROVE  OutputOwned' /\ OutputToOwner'
  BY <1>12 DEF InjectFails
<1>13. ASSUME NEW q \in Requests, Answered(q)
      PROVE  OutputOwned' /\ OutputToOwner'
  <2>1. /\ req[q].pc = "sent" /\ req[q].kind # "output"
        /\ UNCHANGED <<live, known, captures, started, wire>>
    BY <1>13 DEF Answered
  <2>2. CASE req[q].kind = "run"
    <3>1. /\ req' = [req EXCEPT ![q].pc = "answered"]
          /\ UNCHANGED log
      BY <1>13, <2>2 DEF Answered
    <3> QED
      BY <2>1, <3>1
  <2>3. CASE req[q].kind # "run"
    <3>1. PICK status : Ends(q, status)
      BY <1>13, <2>3 DEF Answered
    <3> QED
      BY <2>1, <3>1
  <2> QED
    BY <2>2, <2>3
<1>14. ASSUME NEW q \in Requests, Inline(q)
      PROVE  OutputOwned' /\ OutputToOwner'
  BY <1>14 DEF Inline
<1>15. ASSUME NEW q \in Requests, Capture(q)
      PROVE  OutputOwned' /\ OutputToOwner'
  BY <1>15 DEF Capture
<1>16. ASSUME NEW q \in Requests, CaptureFails(q)
      PROVE  OutputOwned' /\ OutputToOwner'
  BY <1>16 DEF CaptureFails
<1>17. ASSUME NEW q \in Requests, ReadOutput(q)
      PROVE  OutputOwned' /\ OutputToOwner'
  BY <1>17 DEF ReadOutput
<1>18. ASSUME NEW q \in Requests, AskTower(q)
      PROVE  OutputOwned' /\ OutputToOwner'
  BY <1>18 DEF AskTower
<1>19. ASSUME NEW q \in Requests, NodeActs(q) \/ NodeRefuses(q)
      PROVE  OutputOwned' /\ OutputToOwner'
  BY <1>19 DEF NodeActs, NodeRefuses
<1>20. ASSUME NEW n \in Nodes, Tunnel(n)
      PROVE  OutputOwned' /\ OutputToOwner'
  BY <1>20 DEF Tunnel
<1>21. CASE Refresh
  BY <1>21 DEF Refresh
<1>22. ASSUME NEW q \in Requests, Evict(q)
      PROVE  OutputOwned' /\ OutputToOwner'
  BY <1>22 DEF Evict
<1>23. CASE UNCHANGED vars
  BY <1>23 DEF vars
<1> HIDE DEF IndInv, TypeOK, Stages, OutputOwned, OwnOutput, OutputToOwner,
             EndsWith, Ends
<1> QED
  BY <1>1, <1>2, <1>3, <1>4, <1>5, <1>6, <1>7, <1>8, <1>9, <1>10, <1>11,
     <1>12, <1>13, <1>14, <1>15, <1>16, <1>17, <1>18, <1>19, <1>20, <1>21,
     <1>22, <1>23 DEF Next, Handler

\* An injection, and whatever the node makes of it, is authorized and in the
\* audit trail under the node it went to.
THEOREM PerimeterHolds == Spec => []SentIsAudited
<1>1. IndInv => SentIsAudited
  BY DEF IndInv
<1>2. IndInv /\ [Next]_vars => IndInv'
  BY NextType, StagesKept, OutputKept DEF IndInv
<1> QED
  BY InitInv, <1>1, <1>2, PTL DEF Spec

\* The status of an event agrees with what became of the call at the node.
THEOREM StatusHonest == Spec => []StatusIsHonest
<1>1. IndInv => StatusIsHonest
  BY DEF IndInv
<1>2. IndInv /\ [Next]_vars => IndInv'
  BY NextType, StagesKept, OutputKept DEF IndInv
<1> QED
  BY InitInv, <1>1, <1>2, PTL DEF Spec

\* Captured output is read by its owner only, and only with a permission.
THEOREM OutputPrivate == Spec => []OutputToOwner
<1>1. IndInv => OutputToOwner
  BY DEF IndInv
<1>2. IndInv /\ [Next]_vars => IndInv'
  BY NextType, StagesKept, OutputKept DEF IndInv
<1> QED
  BY InitInv, <1>1, <1>2, PTL DEF Spec
=============================================================================
