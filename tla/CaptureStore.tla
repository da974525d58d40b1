---------------------------- MODULE CaptureStore ----------------------------
(***************************************************************************)
(* The ephemeral store of command output in capture.go: quotas per owner   *)
(* and for the whole store, least-recently-used eviction, expiry.          *)
(*                                                                         *)
(* Put and Get read the clock before they take the lock, so each is two    *)
(* actions; what they do under the lock is one.  The clock counts units of *)
(* which TTL make the ten minutes of captureTTL, and sizes units of bytes. *)
(***************************************************************************)
EXTENDS Naturals, FiniteSetsExt

CONSTANTS
    Ids,             \* capture handles; minted at random in the code
    Owners,          \* (tenant, principal, agent) triples
    Clients,         \* requests being served
    Sizes,           \* sizes of outputs
    MaxEntries, MaxBytes,           \* quotas of the store
    MaxOwnerEntries, MaxOwnerBytes, \* quotas of one owner
    MaxIndividualBytes,             \* limit of one capture
    TTL,
    MaxClock         \* bound on the clock, for model checking

ASSUME QuotaAssumption ==
    /\ Sizes \subseteq Nat
    /\ MaxEntries \in Nat \ {0} /\ MaxOwnerEntries \in Nat \ {0}
    /\ MaxBytes \in Nat /\ MaxOwnerBytes \in Nat
    /\ MaxIndividualBytes \in Nat /\ TTL \in Nat \ {0} /\ MaxClock \in Nat

VARIABLES
    clock,
    captures, \* CaptureStore.captures: from the handles in use to entries
    bytes,    \* CaptureStore.bytes
    call      \* what each client is doing

vars == <<clock, captures, bytes, call>>

Entry == [owner : Owners, size : Sizes, created : 0..MaxClock,
          last : 0..MaxClock]
NoCall == [op |-> "none"]

Stored == DOMAIN captures
OwnedBy(o) == {id \in Stored : captures[id].owner = o}
SizeOf(id) == captures[id].size
Total(S) == MapThenSumSet(SizeOf, S)

\* now is not before ExpiresAt, which is TTL after CreatedAt.
Expired(id, now) == now >= captures[id].created + TTL

Calls ==
    {NoCall}
    \cup [op : {"put"}, owner : Owners, size : Sizes, now : 0..MaxClock]
    \cup [op : {"get"}, owner : Owners, id : Ids, now : 0..MaxClock]

TypeOK ==
    /\ clock \in 0..MaxClock
    /\ Stored \subseteq Ids /\ \A id \in Stored : captures[id] \in Entry
    /\ bytes \in Nat
    /\ call \in [Clients -> Calls]

Init ==
    /\ clock = 0
    /\ captures = [id \in {} |-> 0]
    /\ bytes = 0
    /\ call = [p \in Clients |-> NoCall]

-----------------------------------------------------------------------------
(* Under the lock.                                                         *)

\* removeLocked of every handle in S.
Remove(S) == [id \in Stored \ S |-> captures[id]]

\* reapExpiredLocked
Expiring(now) == {id \in Stored : Expired(id, now)}

\* The order of evictOldestLocked; captures equal in it go in any order.
Older(a, b) ==
    \/ captures[a].last < captures[b].last
    \/ /\ captures[a].last = captures[b].last
       /\ captures[a].created < captures[b].created

\* What evicting the oldest of S again and again removes: an initial part of S
\* in the order above.
Oldest(E, S) == E \subseteq S /\ \A e \in E, k \in S \ E : ~Older(k, e)

\* What a loop "while the quota does not fit, evict the oldest of S" removes:
\* no more than needed.
Evicts(E, S, Fits(_)) ==
    /\ Oldest(E, S)
    /\ Fits(E)
    /\ E # {} => \E e \in E : /\ \A d \in E : ~Older(e, d)
                              /\ ~Fits(E \ {e})

\* Faulty: the quota is exceeded by one before anything is evicted.
OwnerFitsOneMore(o, size, E) ==
    /\ Cardinality(OwnedBy(o) \ E) <= MaxOwnerEntries
    /\ Total(OwnedBy(o) \ E) + size <= MaxOwnerBytes

OwnerFits(o, size, E) ==
    /\ Cardinality(OwnedBy(o) \ E) < MaxOwnerEntries
    /\ Total(OwnedBy(o) \ E) + size <= MaxOwnerBytes

\* Faulty: the owner's limit is applied to the whole store.
StoreFitsOwner(size, E) ==
    /\ Cardinality(Stored \ E) < MaxOwnerEntries
    /\ bytes - Total(E) + size <= MaxBytes

StoreFits(size, E) ==
    /\ Cardinality(Stored \ E) < MaxEntries
    /\ bytes - Total(E) + size <= MaxBytes

-----------------------------------------------------------------------------
NewEntry(o, size, now) ==
    [owner |-> o, size |-> size, created |-> now, last |-> now]

Tick ==
    /\ clock < MaxClock
    /\ clock' = clock + 1
    /\ UNCHANGED <<captures, bytes, call>>

\* Put before the lock: an output over a limit is refused, which changes
\* nothing; otherwise the clock is read.
BeginPut(p, o, size) ==
    /\ call[p] = NoCall
    /\ size <= MaxIndividualBytes
    /\ size <= MaxOwnerBytes /\ size <= MaxBytes
    /\ call' = [call EXCEPT ![p] = [op |-> "put", owner |-> o, size |-> size,
                                    now |-> clock]]
    /\ UNCHANGED <<clock, captures, bytes>>

\* Put under the lock: reap, evict of the owner's captures, evict of anyone's,
\* insert under a handle not in use.
Put(p) ==
    LET o == call[p].owner
        size == call[p].size
        now == call[p].now
        R == Expiring(now)
    IN
    /\ call[p].op = "put"
    /\ \E E \in SUBSET (OwnedBy(o) \ R) :
          /\ Evicts(E, OwnedBy(o) \ R, LAMBDA X : OwnerFits(o, size, R \cup X))
          /\ \E G \in SUBSET (Stored \ (R \cup E)) :
                /\ Evicts(G, Stored \ (R \cup E),
                          LAMBDA X : StoreFits(size, R \cup E \cup X))
                /\ \E id \in Ids \ (Stored \ (R \cup E \cup G)) :
                      captures' = [x \in (Stored \ (R \cup E \cup G)) \cup {id}
                                     |-> IF x = id
                                         THEN NewEntry(o, size, now)
                                         ELSE captures[x]]
                /\ bytes' = bytes - Total(R \cup E \cup G) + size
    /\ call' = [call EXCEPT ![p] = NoCall]
    /\ UNCHANGED clock

\* Any owner may present the handle of a capture; one that was never issued,
\* or is gone already, finds nothing and only reaps.
BeginGet(p, o, id) ==
    /\ call[p] = NoCall
    /\ id \in Stored
    /\ call' = [call EXCEPT ![p] = [op |-> "get", owner |-> o, id |-> id,
                                    now |-> clock]]
    /\ UNCHANGED <<clock, captures, bytes>>

\* Get under the lock: reap, find, compare the owner, touch.
Get(p) ==
    LET id == call[p].id
        R == Expiring(call[p].now)
    IN
    /\ call[p].op = "get"
    /\ captures' = IF id \in OwnedBy(call[p].owner) \ R
                   THEN [Remove(R) EXCEPT ![id].last = call[p].now]
                   ELSE Remove(R)
    /\ bytes' = bytes - Total(R)
    /\ call' = [call EXCEPT ![p] = NoCall]
    /\ UNCHANGED clock

\* Faulty: the running total is not reduced.
ReapUncounted ==
    /\ Expiring(clock) # {}
    /\ captures' = Remove(Expiring(clock))
    /\ UNCHANGED <<clock, bytes, call>>

\* reapLoop, once a minute: it reads the clock with the lock held.
Reap ==
    /\ Expiring(clock) # {}
    /\ captures' = Remove(Expiring(clock))
    /\ bytes' = bytes - Total(Expiring(clock))
    /\ UNCHANGED <<clock, call>>

Next ==
    \/ Tick \/ Reap
    \/ \E p \in Clients, o \in Owners :
          \/ \E size \in Sizes : BeginPut(p, o, size)
          \/ \E id \in Ids : BeginGet(p, o, id)
    \/ \E p \in Clients : Put(p) \/ Get(p)

Spec == Init /\ [][Next]_vars

-----------------------------------------------------------------------------
\* The running total equals what is stored, through reaping, two kinds of
\* eviction and insertion (capture.go:200, 267-272): drift would either lock
\* the store or let it grow past its limit.
BytesAccounted == bytes = Total(Stored)

\* No order of requests exceeds a quota, of an owner or of the store
\* (capture.go:157-191).
WithinQuotas ==
    /\ Cardinality(Stored) <= MaxEntries
    /\ Total(Stored) <= MaxBytes
    /\ \A o \in Owners :
          /\ Cardinality(OwnedBy(o)) <= MaxOwnerEntries
          /\ Total(OwnedBy(o)) <= MaxOwnerBytes

\* A request takes away a capture of another owner only when it has expired
\* or the whole store is out of room; an owner that fills its own quota pays
\* for it itself (capture.go:179-191).
OthersEvictedOnlyWhenFull ==
    [][\A p \in Clients, id \in Ids :
          /\ call[p].op = "put" /\ call'[p] = NoCall
          /\ id \in Stored /\ captures[id].owner # call[p].owner
          /\ ~Expired(id, call[p].now)
          /\ id \notin Stored' \/ captures'[id].owner # captures[id].owner
          => \/ Cardinality(Stored) >= MaxEntries
             \/ bytes + call[p].size > MaxBytes]_vars
=============================================================================
