---------------------------- MODULE CallLog_proofs ----------------------------
(***************************************************************************)
(* Proofs about CallLog, for any calls, any capacity and any finite number *)
(* of shippers: the buffer and the batches stay bounded and hold no event  *)
(* twice, and the log implements the abstract audit trail.                 *)
(***************************************************************************)
EXTENDS CallLog, TLAPS, FiniteSetTheorems, SequenceTheorems

-----------------------------------------------------------------------------
(* Why it holds.                                                           *)

\* An event is added once, because a call passes each of its stages once.
Recorded ==
    \A e \in Events : Held(e) =>
        /\ stage[e.call] # "new"
        /\ e.phase = "" => stage[e.call] = "done"

\* A shipper holds events only while it ships them, and settles only what the
\* tower has written.
Shipping ==
    \A s \in Shippers :
        /\ pc[s] \in {"idle", "coalescing"} => batch[s] = <<>>
        /\ pc[s] = "written" => ToSet(batch[s]) \subseteq applied

IndInv == TypeOK /\ BufferSound /\ Recorded /\ Shipping

-----------------------------------------------------------------------------
USE CapacityAssumption

-----------------------------------------------------------------------------
(* Sequences without repetition.                                           *)

\* Every element has its place.
LEMMA ToSetDef ==
    ASSUME NEW S, NEW q \in Seq(S)
    PROVE  /\ ToSet(q) \subseteq S
           /\ \A x : x \in ToSet(q) <=> \E i \in 1 .. Len(q) : q[i] = x
  BY DEF ToSet

\* Nothing is in an empty sequence.
LEMMA EmptyFacts == ToSet(<<>>) = {} /\ IsInjective(<<>>)
  BY DEF ToSet, IsInjective

\* CallLog.Add appends.
LEMMA AppendFacts ==
    ASSUME NEW S, NEW q \in Seq(S), NEW e \in S
    PROVE  /\ ToSet(Append(q, e)) = ToSet(q) \cup {e}
           /\ IsInjective(q) /\ e \notin ToSet(q) => IsInjective(Append(q, e))
<1>1. /\ Append(q, e) \in Seq(S) /\ Len(Append(q, e)) = Len(q) + 1
      /\ \A i \in 1 .. Len(q) : Append(q, e)[i] = q[i]
      /\ Append(q, e)[Len(q) + 1] = e
  BY AppendProperties
<1>2. ToSet(Append(q, e)) = ToSet(q) \cup {e}
  <2>1. ToSet(Append(q, e)) \subseteq ToSet(q) \cup {e}
    BY <1>1 DEF ToSet
  <2>2. ToSet(q) \subseteq ToSet(Append(q, e))
    BY <1>1 DEF ToSet
  <2>3. e \in ToSet(Append(q, e))
    BY <1>1 DEF ToSet
  <2> QED
    BY <2>1, <2>2, <2>3
<1>3. ASSUME IsInjective(q), e \notin ToSet(q)
      PROVE  IsInjective(Append(q, e))
  BY <1>1, <1>3 DEF IsInjective, ToSet
<1> QED
  BY <1>2, <1>3

\* A part of a sequence from a place on, as Tail and the cut of Requeue.
LEMMA SuffixFacts ==
    ASSUME NEW S, NEW q \in Seq(S), NEW n \in 0 .. Len(q)
    PROVE  LET r == SubSeq(q, n + 1, Len(q))
           IN  /\ r \in Seq(S) /\ Len(r) = Len(q) - n
               /\ ToSet(r) \subseteq ToSet(q)
               /\ IsInjective(q) => IsInjective(r)
<1> DEFINE r == SubSeq(q, n + 1, Len(q))
<1>1. /\ r \in Seq(S) /\ Len(r) = Len(q) - n
      /\ \A i \in 1 .. Len(q) - n : r[i] = q[n + i]
  <2>1. \A i \in n + 1 .. Len(q) : q[i] \in S
    OBVIOUS
  <2> QED
    BY <2>1, SubSeqProperties
<1> HIDE DEF r
<1>2. ToSet(r) \subseteq ToSet(q)
  BY <1>1, ToSetDef
<1>3. ASSUME IsInjective(q)
      PROVE  IsInjective(r)
  <2>1. /\ DOMAIN r = 1 .. Len(q) - n /\ DOMAIN q = 1 .. Len(q)
        /\ Len(q) \in Nat
    BY <1>1
  <2>2. ASSUME NEW i \in DOMAIN r, NEW j \in DOMAIN r, r[i] = r[j]
        PROVE  i = j
    <3>1. n + i \in DOMAIN q /\ n + j \in DOMAIN q
      BY <2>1, <2>2
    <3>2. q[n + i] = q[n + j]
      BY <1>1, <2>1, <2>2
    <3>3. n + i = n + j
      BY <1>3, <3>1, <3>2 DEF IsInjective
    <3> QED
      BY <2>1, <2>2, <3>3
  <2> QED
    BY <2>2 DEF IsInjective
<1> QED
  BY <1>1, <1>2, <1>3 DEF r

\* Requeue puts a batch in front of the buffer.
LEMMA ConcatFacts ==
    ASSUME NEW S, NEW q \in Seq(S), NEW r \in Seq(S)
    PROVE  /\ q \o r \in Seq(S) /\ Len(q \o r) = Len(q) + Len(r)
           /\ ToSet(q \o r) = ToSet(q) \cup ToSet(r)
           /\ IsInjective(q) /\ IsInjective(r) /\ ToSet(q) \cap ToSet(r) = {}
                => IsInjective(q \o r)
<1> DEFINE c == q \o r
<1>1. /\ c \in Seq(S) /\ Len(c) = Len(q) + Len(r)
      /\ \A i \in 1 .. Len(q) + Len(r) :
            c[i] = IF i <= Len(q) THEN q[i] ELSE r[i - Len(q)]
  BY ConcatProperties
<1> HIDE DEF c
<1>2. \A i \in 1 .. Len(q) : i \in 1 .. Len(c) /\ c[i] = q[i]
  BY <1>1
<1>3. \A i \in 1 .. Len(r) : Len(q) + i \in 1 .. Len(c) /\ c[Len(q) + i] = r[i]
  <2>1. \A i \in 1 .. Len(r) :
           /\ Len(q) + i \in 1 .. Len(q) + Len(r) /\ ~(Len(q) + i <= Len(q))
           /\ (Len(q) + i) - Len(q) = i
    OBVIOUS
  <2> QED
    BY <1>1, <2>1
<1>4. \A i \in 1 .. Len(c) :
         \/ i \in 1 .. Len(q)
         \/ i - Len(q) \in 1 .. Len(r) /\ c[i] = r[i - Len(q)]
  BY <1>1
<1>5. ToSet(c) = ToSet(q) \cup ToSet(r)
  <2>1. ToSet(q) \subseteq ToSet(c)
    BY <1>1, <1>2 DEF ToSet
  <2>2. ToSet(r) \subseteq ToSet(c)
    <3>1. DOMAIN c = 1 .. Len(c) /\ DOMAIN r = 1 .. Len(r)
      BY <1>1
    <3>2. \A i \in 1 .. Len(r) : \E k \in 1 .. Len(c) : c[k] = r[i]
      BY <1>3
    <3> QED
      BY <3>1, <3>2 DEF ToSet
  <2>3. ToSet(c) \subseteq ToSet(q) \cup ToSet(r)
    BY <1>1, <1>2, <1>4 DEF ToSet
  <2> QED
    BY <2>1, <2>2, <2>3
<1>6. ASSUME IsInjective(q), IsInjective(r), ToSet(q) \cap ToSet(r) = {}
      PROVE  IsInjective(c)
  <2>1. SUFFICES ASSUME NEW i \in 1 .. Len(c), NEW j \in 1 .. Len(c),
                        c[i] = c[j]
                 PROVE  i = j
    BY <1>1 DEF IsInjective
  <2>2. CASE i \in 1 .. Len(q) /\ j \in 1 .. Len(q)
    BY <1>2, <1>6, <2>1, <2>2 DEF IsInjective
  <2>3. CASE i \notin 1 .. Len(q) /\ j \notin 1 .. Len(q)
    <3>1. i - Len(q) = j - Len(q)
      BY <1>4, <1>6, <2>1, <2>3 DEF IsInjective
    <3> QED
      BY <2>1, <3>1
  <2>4. \A k \in 1 .. Len(q), l \in 1 .. Len(r) : q[k] # r[l]
    BY <1>6 DEF ToSet
  <2>5. i \in 1 .. Len(q) <=> j \in 1 .. Len(q)
    BY <1>2, <1>4, <2>1, <2>4
  <2> QED
    BY <2>2, <2>3, <2>5
<1> QED
  BY <1>1, <1>5, <1>6 DEF c

\* A sequence without repetition has as many elements as places.
LEMMA InjectiveCount ==
    ASSUME NEW S, NEW q \in Seq(S), IsInjective(q)
    PROVE  IsFiniteSet(ToSet(q)) /\ Cardinality(ToSet(q)) = Len(q)
<1>1. q \in Bijection(1 .. Len(q), ToSet(q))
  BY DEF ToSet, IsInjective, Bijection, Injection, Surjection
<1>2. ExistsBijection(1 .. Len(q), ToSet(q))
  BY <1>1 DEF ExistsBijection
<1> QED
  BY <1>2, FS_NatBijection, FS_CountingElements

-----------------------------------------------------------------------------
(* What adding and requeueing leave in the buffer.                         *)

\* A step that puts the events E into the buffer: no more than E and what was
\* there is in it, and if anything is missing the buffer is full.
Takes(E) ==
    /\ buf' \in Seq(Events) /\ Len(buf') <= Capacity /\ IsInjective(buf')
    /\ ToSet(buf') \subseteq ToSet(buf) \cup E
    /\ ToSet(buf') = ToSet(buf) \cup E \/ Len(buf') = Capacity

\* CallLog.Add of an event that is not in the buffer.
LEMMA AddTakes ==
    ASSUME TypeOK, BufferSound, NEW e \in Events, e \notin ToSet(buf), Add(e)
    PROVE  Takes({e}) /\ e \in ToSet(buf')
<1> DEFINE kept == IF Len(buf) >= Capacity THEN Tail(buf) ELSE buf
<1>1. buf \in Seq(Events) /\ IsInjective(buf) /\ Len(buf) <= Capacity
  BY DEF TypeOK, BufferSound, Bounded, OneCopy
<1>2. /\ kept \in Seq(Events) /\ IsInjective(kept) /\ Len(kept) < Capacity
      /\ ToSet(kept) \subseteq ToSet(buf)
      /\ kept = buf \/ Len(kept) = Capacity - 1
  <2>1. CASE Len(buf) >= Capacity
    <3>1. kept = SubSeq(buf, 2, Len(buf)) /\ 1 \in 0 .. Len(buf)
      BY <1>1, <2>1, TailIsSubSeq, EmptySeq
    <3>2. Len(buf) = Capacity
      BY <1>1, <2>1
    <3> HIDE DEF kept
    <3> QED
      BY <1>1, <3>1, <3>2, SuffixFacts
  <2>2. CASE ~(Len(buf) >= Capacity)
    BY <1>1, <2>2
  <2> QED
    BY <2>1, <2>2
<1>3. buf' = Append(kept, e)
  BY DEF Add
<1> HIDE DEF kept
<1>4. /\ buf' \in Seq(Events) /\ Len(buf') = Len(kept) + 1
      /\ ToSet(buf') = ToSet(kept) \cup {e} /\ IsInjective(buf')
  BY <1>2, <1>3, AppendFacts, AppendProperties
<1> QED
  BY <1>2, <1>4 DEF Takes

\* CallLog.Requeue of events that are not in the buffer.
LEMMA RequeueTakes ==
    ASSUME TypeOK, BufferSound, NEW evs \in Seq(Events), IsInjective(evs),
           ToSet(buf) \cap ToSet(evs) = {}, Requeue(evs)
    PROVE  Takes(ToSet(evs))
<1> DEFINE merged == evs \o buf
<1>1. buf \in Seq(Events) /\ IsInjective(buf)
  BY DEF TypeOK, BufferSound, OneCopy
<1>2. /\ merged \in Seq(Events) /\ IsInjective(merged)
      /\ ToSet(merged) = ToSet(buf) \cup ToSet(evs)
  BY <1>1, ConcatFacts
<1>3. buf' = IF Len(merged) > Capacity
             THEN SubSeq(merged, Len(merged) - Capacity + 1, Len(merged))
             ELSE merged
  BY DEF Requeue
<1> HIDE DEF merged
<1>4. CASE Len(merged) > Capacity
  <2> DEFINE n == Len(merged) - Capacity
  <2>1. n \in 0 .. Len(merged) /\ Len(merged) - n = Capacity
    BY <1>2, <1>4
  <2>2. buf' = SubSeq(merged, n + 1, Len(merged))
    BY <1>3, <1>4
  <2> HIDE DEF n
  <2>3. /\ buf' \in Seq(Events) /\ Len(buf') = Capacity
        /\ ToSet(buf') \subseteq ToSet(merged) /\ IsInjective(buf')
    BY <1>2, <2>1, <2>2, SuffixFacts
  <2> QED
    BY <1>2, <2>3 DEF Takes
<1>5. CASE ~(Len(merged) > Capacity)
  BY <1>2, <1>3, <1>5 DEF Takes
<1> QED
  BY <1>4, <1>5

-----------------------------------------------------------------------------
(* The inductive invariant, one lemma for each kind of step.               *)

\* Nothing is recorded, held or shipped at the start.
LEMMA InitInv == Init => IndInv
<1> SUFFICES ASSUME Init PROVE IndInv
  OBVIOUS
<1>1. TypeOK
  <2>1. <<>> \in Seq(Events) /\ {} \subseteq Events
    OBVIOUS
  <2> QED
    BY <2>1 DEF Init, TypeOK
<1>2. ToSet(buf) = {} /\ \A s \in Shippers : ToSet(batch[s]) = {}
  BY EmptyFacts DEF Init
<1>3. BufferSound
  BY <1>2, EmptyFacts DEF Init, BufferSound, Bounded, OneCopy
<1>4. Recorded /\ Shipping
  BY <1>2 DEF Init, Recorded, Held, Shipping
<1> QED
  BY <1>1, <1>3, <1>4 DEF IndInv

\* A step that puts events in the buffer which are in no batch afterwards keeps
\* the buffer sound.
LEMMA TakingStaysSound ==
    ASSUME TypeOK, BufferSound, NEW E, Takes(E),
           batch' \in [Shippers -> Seq(Events)],
           \A s \in Shippers : batch'[s] = batch[s] \/ batch'[s] = <<>>,
           \A s \in Shippers : E \cap ToSet(batch'[s]) = {}
    PROVE  BufferSound'
<1>1. \A s \in Shippers :
         /\ Len(batch'[s]) <= Capacity /\ IsInjective(batch'[s])
         /\ ToSet(batch'[s]) \subseteq ToSet(batch[s])
  BY EmptyFacts DEF BufferSound, Bounded, OneCopy
<1>2. Bounded'
  BY <1>1 DEF Takes, Bounded
<1>3. \A s \in Shippers : ToSet(buf') \cap ToSet(batch'[s]) = {}
  BY <1>1 DEF Takes, BufferSound, OneCopy
<1>4. \A s \in Shippers : \A t \in Shippers \ {s} :
         ToSet(batch'[s]) \cap ToSet(batch'[t]) = {}
  BY <1>1 DEF BufferSound, OneCopy
<1>5. OneCopy'
  BY <1>1, <1>3, <1>4 DEF Takes, OneCopy
<1> QED
  BY <1>2, <1>5 DEF BufferSound

\* CallLog.Add of an event that is held nowhere.
LEMMA AddSound ==
    ASSUME IndInv, NEW e \in Events, ~Held(e), Add(e),
           UNCHANGED <<pc, batch, applied>>
    PROVE  /\ Takes({e}) /\ e \in ToSet(buf')
           /\ buf' \in Seq(Events) /\ notify' \in BOOLEAN
           /\ BufferSound' /\ Shipping'
           /\ \A f \in Events : Held(f)' => Held(f) \/ f = e
<1>1. Takes({e}) /\ e \in ToSet(buf')
  BY AddTakes DEF IndInv, Held
<1>2. BufferSound'
  <2>1. \A s \in Shippers : {e} \cap ToSet(batch'[s]) = {}
    BY DEF Held
  <2>2. batch' \in [Shippers -> Seq(Events)]
    BY DEF IndInv, TypeOK
  <2> QED
    BY <1>1, <2>1, <2>2, TakingStaysSound DEF IndInv
<1>3. Shipping'
  BY DEF IndInv, Shipping
<1>4. \A f \in Events : Held(f)' => Held(f) \/ f = e
  BY <1>1 DEF Takes, Held
<1> QED
  BY <1>1, <1>2, <1>3, <1>4 DEF Takes, Add

\* recordStart adds the start of a call that has not begun.
LEMMA StartIsNew ==
    ASSUME IndInv, NEW c \in Calls, stage[c] = "new"
    PROVE  Start(c) \in Events /\ ~Held(Start(c))
<1>1. Start(c) \in Events /\ Start(c).call = c /\ Start(c).phase = "start"
  BY DEF Start, Events
<1> QED
  BY <1>1 DEF IndInv, Recorded

\* record adds the terminal event of a call that has not ended.
LEMMA TerminalIsNew ==
    ASSUME IndInv, NEW c \in Calls, stage[c] # "done"
    PROVE  Terminal(c) \in Events /\ ~Held(Terminal(c))
<1>1. Terminal(c) \in Events /\ Terminal(c).call = c /\ Terminal(c).phase = ""
  BY DEF Terminal, Events
<1> QED
  BY <1>1 DEF IndInv, Recorded

\* recordStart.
LEMMA RecordStartInv ==
    ASSUME IndInv, NEW c \in Calls, RecordStart(c)
    PROVE  IndInv'
<1>1. /\ stage[c] = "new" /\ stage' = [stage EXCEPT ![c] = "running"]
      /\ Add(Start(c)) /\ UNCHANGED <<pc, batch, applied>>
  BY DEF RecordStart
<1>2. Start(c) \in Events /\ ~Held(Start(c))
  BY <1>1, StartIsNew
<1>3. /\ buf' \in Seq(Events) /\ notify' \in BOOLEAN
      /\ BufferSound' /\ Shipping'
      /\ \A f \in Events : Held(f)' => Held(f) \/ f = Start(c)
  BY <1>1, <1>2, AddSound
<1>4. TypeOK'
  BY <1>1, <1>3 DEF IndInv, TypeOK
<1>5. Recorded'
  <2> SUFFICES ASSUME NEW f \in Events, Held(f)'
               PROVE  stage'[f.call] # "new"
                      /\ (f.phase = "" => stage'[f.call] = "done")
    BY DEF Recorded
  <2>1. CASE f = Start(c)
    BY <1>1, <2>1 DEF Start, IndInv, TypeOK
  <2>2. CASE Held(f)
    <3>1. /\ f.call \in Calls /\ stage[f.call] # "new"
          /\ f.phase = "" => stage[f.call] = "done"
      BY <2>2 DEF IndInv, Recorded, Events
    <3> QED
      BY <1>1, <3>1 DEF IndInv, TypeOK
  <2> QED
    BY <1>3, <2>1, <2>2
<1> QED
  BY <1>3, <1>4, <1>5 DEF IndInv

\* record.
LEMMA RecordInv ==
    ASSUME IndInv, NEW c \in Calls, Record(c)
    PROVE  IndInv'
<1>1. /\ stage[c] # "done" /\ stage' = [stage EXCEPT ![c] = "done"]
      /\ Add(Terminal(c)) /\ UNCHANGED <<pc, batch, applied>>
  BY DEF Record
<1>2. Terminal(c) \in Events /\ ~Held(Terminal(c))
  BY <1>1, TerminalIsNew
<1>3. /\ buf' \in Seq(Events) /\ notify' \in BOOLEAN
      /\ BufferSound' /\ Shipping'
      /\ \A f \in Events : Held(f)' => Held(f) \/ f = Terminal(c)
  BY <1>1, <1>2, AddSound
<1>4. TypeOK'
  BY <1>1, <1>3 DEF IndInv, TypeOK
<1>5. Recorded'
  <2> SUFFICES ASSUME NEW f \in Events, Held(f)'
               PROVE  stage'[f.call] # "new"
                      /\ (f.phase = "" => stage'[f.call] = "done")
    BY DEF Recorded
  <2>1. CASE f = Terminal(c)
    BY <1>1, <2>1 DEF Terminal, IndInv, TypeOK
  <2>2. CASE Held(f)
    <3>1. /\ f.call \in Calls /\ stage[f.call] # "new"
          /\ f.phase = "" => stage[f.call] = "done"
      BY <2>2 DEF IndInv, Recorded, Events
    <3> QED
      BY <1>1, <3>1 DEF IndInv, TypeOK
  <2> QED
    BY <1>3, <2>1, <2>2
<1> QED
  BY <1>3, <1>4, <1>5 DEF IndInv

\* The fast shipper takes the token: no event moves.
LEMMA NotifiedInv ==
    ASSUME IndInv, NEW s \in Shippers, Notified(s)
    PROVE  IndInv' /\ \A e \in Events : Held(e)' <=> Held(e)
<1>1. /\ pc[s] = "idle" /\ notify' = FALSE
      /\ pc' = [pc EXCEPT ![s] = "coalescing"]
      /\ UNCHANGED <<stage, buf, batch, applied>>
  BY DEF Notified
<1>2. TypeOK'
  BY <1>1 DEF IndInv, TypeOK
<1>3. BufferSound' /\ \A e \in Events : Held(e)' <=> Held(e)
  BY <1>1 DEF IndInv, BufferSound, Bounded, OneCopy, Held
<1>4. Recorded'
  BY <1>1, <1>3 DEF IndInv, Recorded
<1>5. Shipping'
  BY <1>1 DEF IndInv, Shipping, TypeOK
<1> QED
  BY <1>2, <1>3, <1>4, <1>5 DEF IndInv

\* CallLog.Drain: the buffer moves into the shipper's empty batch.
LEMMA DrainInv ==
    ASSUME IndInv, NEW s \in Shippers, pc[s] \in {"idle", "coalescing"},
           Drain(s)
    PROVE  IndInv' /\ \A e \in Events : Held(e)' <=> Held(e)
<1>1. /\ batch' = [batch EXCEPT ![s] = buf] /\ buf' = <<>>
      /\ pc' = [pc EXCEPT ![s] = IF buf = <<>> THEN "idle" ELSE "sending"]
      /\ UNCHANGED <<stage, notify, applied>>
  BY DEF Drain
<1>2. TypeOK
  BY DEF IndInv
<1>3. batch'[s] = buf /\ \A t \in Shippers \ {s} : batch'[t] = batch[t]
  BY <1>1, <1>2 DEF TypeOK
<1>4. batch[s] = <<>> /\ ToSet(batch[s]) = {} /\ ToSet(buf') = {}
  BY <1>1, EmptyFacts DEF IndInv, Shipping
<1>5. TypeOK'
  <2>1. <<>> \in Seq(Events)
    OBVIOUS
  <2> QED
    BY <1>1, <1>2, <2>1 DEF TypeOK
<1>6. \A e \in Events : Held(e)' <=> Held(e)
  BY <1>3, <1>4 DEF Held
<1>7. BufferSound'
  <2>1. Bounded'
    BY <1>1, <1>3 DEF IndInv, BufferSound, Bounded
  <2>2. IsInjective(buf') /\ \A t \in Shippers : IsInjective(batch'[t])
    BY <1>1, <1>3, EmptyFacts DEF IndInv, BufferSound, OneCopy
  <2>3. \A t \in Shippers : \A u \in Shippers \ {t} :
           ToSet(batch'[t]) \cap ToSet(batch'[u]) = {}
    BY <1>3 DEF IndInv, BufferSound, OneCopy
  <2> QED
    BY <1>4, <2>1, <2>2, <2>3 DEF BufferSound, OneCopy
<1>8. Recorded'
  BY <1>1, <1>6 DEF IndInv, Recorded
<1>9. Shipping'
  BY <1>1, <1>2, <1>3 DEF IndInv, Shipping, TypeOK
<1> QED
  BY <1>5, <1>6, <1>7, <1>8, <1>9 DEF IndInv

\* The tower writes a batch, which stays with its shipper.
LEMMA TowerWritesInv ==
    ASSUME IndInv, NEW s \in Shippers, TowerWrites(s)
    PROVE  IndInv' /\ \A e \in Events : Held(e)' <=> Held(e)
<1>1. /\ pc[s] = "sending" /\ applied' = applied \cup ToSet(batch[s])
      /\ pc' = [pc EXCEPT ![s] = "written"]
      /\ UNCHANGED <<stage, buf, notify, batch>>
  BY DEF TowerWrites
<1>2. ToSet(batch[s]) \subseteq Events
  BY ToSetDef DEF IndInv, TypeOK
<1>3. TypeOK'
  BY <1>1, <1>2 DEF IndInv, TypeOK
<1>4. BufferSound' /\ \A e \in Events : Held(e)' <=> Held(e)
  BY <1>1 DEF IndInv, BufferSound, Bounded, OneCopy, Held
<1>5. Recorded'
  BY <1>1, <1>4 DEF IndInv, Recorded
<1>6. Shipping'
  <2> SUFFICES ASSUME NEW t \in Shippers
        PROVE  /\ pc'[t] \in {"idle", "coalescing"} => batch'[t] = <<>>
               /\ pc'[t] = "written" => ToSet(batch'[t]) \subseteq applied'
    BY DEF Shipping
  <2>1. CASE t = s
    BY <1>1, <2>1 DEF IndInv, TypeOK
  <2>2. CASE t # s
    BY <1>1, <2>2 DEF IndInv, Shipping, TypeOK
  <2> QED
    BY <2>1, <2>2
<1> QED
  BY <1>3, <1>4, <1>5, <1>6 DEF IndInv

\* A shipper gives up its batch and waits again: what is left is sound when the
\* buffer is.
LEMMA BatchGone ==
    ASSUME IndInv, NEW s \in Shippers,
           pc' = [pc EXCEPT ![s] = "idle"],
           batch' = [batch EXCEPT ![s] = <<>>],
           Takes(ToSet(batch[s])) \/ UNCHANGED buf,
           UNCHANGED <<stage, notify, applied>>
    PROVE  /\ IndInv' /\ \A e \in Events : Held(e)' => Held(e)
           /\ batch'[s] = <<>>
           /\ \A t \in Shippers \ {s} : batch'[t] = batch[t]
<1>1. TypeOK /\ BufferSound /\ buf \in Seq(Events)
  BY DEF IndInv, TypeOK
<1>2. batch'[s] = <<>> /\ \A t \in Shippers \ {s} : batch'[t] = batch[t]
  BY <1>1 DEF TypeOK
<1>3. batch' \in [Shippers -> Seq(Events)]
  <2>1. <<>> \in Seq(Events)
    OBVIOUS
  <2> QED
    BY <1>1, <2>1 DEF TypeOK
<1>4. TypeOK'
  BY <1>1, <1>3 DEF TypeOK, Takes
<1>5. /\ ToSet(batch'[s]) = {}
      /\ \A t \in Shippers \ {s} : ToSet(batch'[t]) = ToSet(batch[t])
  BY <1>2, EmptyFacts
<1>6. \A e \in Events : Held(e)' => Held(e)
  BY <1>5 DEF Held, Takes
<1>7. BufferSound'
  <2>1. PICK E : Takes(E) /\ (E = ToSet(batch[s]) \/ E = {})
    <3>1. UNCHANGED buf => Takes({})
      BY <1>1 DEF Takes, BufferSound, Bounded, OneCopy
    <3> QED
      BY <3>1
  <2>2. \A t \in Shippers : E \cap ToSet(batch'[t]) = {}
    BY <1>5, <2>1 DEF BufferSound, OneCopy, IndInv
  <2> QED
    BY <1>1, <1>2, <1>3, <2>1, <2>2, TakingStaysSound
<1>8. Recorded'
  BY <1>6 DEF IndInv, Recorded
<1>9. Shipping'
  BY <1>1, <1>2 DEF IndInv, Shipping, TypeOK
<1> QED
  BY <1>2, <1>4, <1>6, <1>7, <1>8, <1>9 DEF IndInv

\* The ship succeeded.
LEMMA ShippedInv ==
    ASSUME IndInv, NEW s \in Shippers, Shipped(s)
    PROVE  IndInv'
  BY BatchGone DEF Shipped

\* The ship failed, and its batch goes back.
LEMMA ShipFailsInv ==
    ASSUME IndInv, NEW s \in Shippers, ShipFails(s)
    PROVE  Takes(ToSet(batch[s])) /\ IndInv'
<1>1. /\ Requeue(batch[s])
      /\ pc' = [pc EXCEPT ![s] = "idle"]
      /\ batch' = [batch EXCEPT ![s] = <<>>]
      /\ UNCHANGED <<stage, notify, applied>>
  BY DEF ShipFails
<1>2. /\ batch[s] \in Seq(Events) /\ IsInjective(batch[s])
      /\ ToSet(buf) \cap ToSet(batch[s]) = {}
  BY DEF IndInv, TypeOK, BufferSound, OneCopy
<1>3. Takes(ToSet(batch[s]))
  BY <1>1, <1>2, RequeueTakes DEF IndInv
<1> QED
  BY <1>1, <1>3, BatchGone

\* Every step of the log keeps the invariant.
LEMMA NextInv == IndInv /\ [Next]_vars => IndInv'
<1> SUFFICES ASSUME IndInv, [Next]_vars PROVE IndInv'
  OBVIOUS
<1>1. ASSUME NEW c \in Calls, RecordStart(c) PROVE IndInv'
  BY <1>1, RecordStartInv
<1>2. ASSUME NEW c \in Calls, Record(c) PROVE IndInv'
  BY <1>2, RecordInv
<1>3. ASSUME NEW s \in Shippers, Ship(s) PROVE IndInv'
  <2>1. CASE Notified(s)
    BY <2>1, NotifiedInv
  <2>2. CASE DrainCoalesced(s) \/ DrainOnTick(s)
    BY <2>2, DrainInv DEF DrainCoalesced, DrainOnTick
  <2>3. CASE TowerWrites(s)
    BY <2>3, TowerWritesInv
  <2>4. CASE Shipped(s)
    BY <2>4, ShippedInv
  <2>5. CASE ShipFails(s)
    BY <2>5, ShipFailsInv
  <2> QED
    BY <1>3, <2>1, <2>2, <2>3, <2>4, <2>5 DEF Ship
<1>4. CASE UNCHANGED vars
  BY <1>4 DEF vars, IndInv, TypeOK, BufferSound, Bounded, OneCopy, Recorded,
              Held, Shipping
<1> QED
  BY <1>1, <1>2, <1>3, <1>4 DEF Next

\* However adding, draining and requeueing by two shippers interleave, neither
\* the buffer nor a batch outgrows the capacity, and an event is held in one
\* place only (calllog.go:93-95, 112-157).
THEOREM BufferStaysSound == Spec => []BufferSound
<1>1. IndInv => BufferSound
  BY DEF IndInv
<1> QED
  BY <1>1, InitInv, NextInv, PTL DEF Spec

-----------------------------------------------------------------------------
(* The log implements the abstract trail.                                  *)

\* What the abstract trail calls pending.
Pending == {e \in Events : Held(e)}

\* At least as many events are pending as the buffer has places taken: the
\* batches of finitely many shippers add finitely many to them.
LEMMA PendingCount ==
    ASSUME NEW b \in Seq(Events), IsInjective(b),
           NEW h \in [Shippers -> Seq(Events)],
           \A s \in Shippers : IsInjective(h[s])
    PROVE  LET P == {e \in Events : \/ e \in ToSet(b)
                                   \/ \E s \in Shippers : e \in ToSet(h[s])}
           IN  IsFiniteSet(P) /\ Cardinality(P) >= Len(b)
<1> DEFINE P == {e \in Events : \/ e \in ToSet(b)
                               \/ \E s \in Shippers : e \in ToSet(h[s])}
           sent == [s \in Shippers |-> ToSet(h[s])]
           T == {sent[s] : s \in Shippers}
<1>1. IsFiniteSet(T)
  <2>1. sent \in Surjection(Shippers, T)
    BY DEF Surjection
  <2> HIDE DEF sent, T
  <2> QED
    BY <2>1, ShippersAssumption, FS_Surjection
<1>2. \A t \in T : IsFiniteSet(t)
  BY InjectiveCount
<1>3. IsFiniteSet(ToSet(b) \cup UNION T)
  <2> HIDE DEF T
  <2>1. IsFiniteSet(UNION T)
    BY <1>1, <1>2, FS_UNION
  <2>2. IsFiniteSet(ToSet(b))
    BY InjectiveCount
  <2> QED
    BY <2>1, <2>2, FS_Union
<1>4. P \subseteq ToSet(b) \cup UNION T
  OBVIOUS
<1>5. ToSet(b) \subseteq P
  BY ToSetDef
<1> HIDE DEF P, T
<1>6. IsFiniteSet(P)
  BY <1>3, <1>4, FS_Subset
<1>7. Cardinality(P) >= Len(b)
  <2>1. Cardinality(ToSet(b)) = Len(b)
    BY InjectiveCount
  <2>2. Cardinality(ToSet(b)) <= Cardinality(P)
    BY <1>5, <1>6, FS_Subset
  <2> QED
    BY <2>1, <2>2
<1> QED
  BY <1>6, <1>7 DEF P

\* What a step that adds the events E leaves pending: they and the others, but
\* for what a full buffer displaces.
Keeps(E) ==
    /\ Pending' \subseteq Pending \cup E /\ E \subseteq Pending'
    /\ Pending' = Pending \cup E \/ Cardinality(Pending') >= Capacity

\* A full buffer alone makes Capacity pending.
LEMMA FullPending ==
    ASSUME TypeOK', BufferSound', Len(buf') = Capacity
    PROVE  Cardinality(Pending') >= Capacity
<1>1. /\ buf' \in Seq(Events) /\ IsInjective(buf')
      /\ batch' \in [Shippers -> Seq(Events)]
      /\ \A s \in Shippers : IsInjective(batch'[s])
  BY DEF TypeOK, BufferSound, OneCopy
<1>2. Pending' = {e \in Events :
                    \/ e \in ToSet(buf')
                    \/ \E s \in Shippers : e \in ToSet(batch'[s])}
  BY DEF Pending, Held
<1> QED
  BY <1>1, <1>2, PendingCount

\* Adding a new event.
LEMMA AddKeeps ==
    ASSUME IndInv, IndInv', NEW e \in Events, Takes({e}), e \in ToSet(buf'),
           UNCHANGED batch
    PROVE  Keeps({e})
<1>1. Pending' \subseteq Pending \cup {e} /\ {e} \subseteq Pending'
  BY DEF Pending, Held, Takes
<1>2. CASE ToSet(buf') = ToSet(buf) \cup {e}
  <2>1. Pending' = Pending \cup {e}
    BY <1>2 DEF Pending, Held
  <2> QED
    BY <1>1, <2>1 DEF Keeps
<1>3. CASE Len(buf') = Capacity
  <2>1. Cardinality(Pending') >= Capacity
    BY <1>3, FullPending DEF IndInv
  <2> QED
    BY <1>1, <2>1 DEF Keeps
<1> QED
  BY <1>2, <1>3 DEF Takes

\* Putting a batch back adds nothing.
LEMMA ShipFailsKeeps ==
    ASSUME IndInv, NEW s \in Shippers, ShipFails(s)
    PROVE  Keeps({})
<1>1. Takes(ToSet(batch[s])) /\ IndInv'
  BY ShipFailsInv
<1>2. /\ ToSet(batch'[s]) = {}
      /\ \A t \in Shippers \ {s} : batch'[t] = batch[t]
  BY EmptyFacts DEF ShipFails, IndInv, TypeOK
<1>3. Pending' \subseteq Pending
  BY <1>1, <1>2 DEF Pending, Held, Takes
<1>4. CASE ToSet(buf') = ToSet(buf) \cup ToSet(batch[s])
  <2>1. Pending' = Pending
    BY <1>2, <1>3, <1>4 DEF Pending, Held
  <2> QED
    BY <2>1 DEF Keeps
<1>5. CASE Len(buf') = Capacity
  <2>1. Cardinality(Pending') >= Capacity
    BY <1>1, <1>5, FullPending DEF IndInv
  <2> QED
    BY <1>3, <2>1 DEF Keeps
<1> QED
  BY <1>1, <1>4, <1>5 DEF Takes

\* A batch that was written is settled.
LEMMA ShippedSettles ==
    ASSUME IndInv, NEW s \in Shippers, Shipped(s)
    PROVE  /\ ToSet(batch[s]) \subseteq Pending \cap applied
           /\ Pending' = Pending \ ToSet(batch[s])
<1>1. /\ pc[s] = "written" /\ batch' = [batch EXCEPT ![s] = <<>>]
      /\ UNCHANGED <<stage, buf, notify, applied>>
  BY DEF Shipped
<1>2. /\ ToSet(batch'[s]) = {}
      /\ \A t \in Shippers \ {s} : batch'[t] = batch[t]
  BY <1>1, EmptyFacts DEF IndInv, TypeOK
<1>3. ToSet(batch[s]) \subseteq Pending \cap applied
  <2>1. ToSet(batch[s]) \subseteq Events
    BY ToSetDef DEF IndInv, TypeOK
  <2> QED
    BY <1>1, <2>1 DEF IndInv, Shipping, Pending, Held
<1>4. /\ ToSet(buf) \cap ToSet(batch[s]) = {}
      /\ \A t \in Shippers \ {s} : ToSet(batch[t]) \cap ToSet(batch[s]) = {}
  BY DEF IndInv, BufferSound, OneCopy
<1>5. Pending' = Pending \ ToSet(batch[s])
  BY <1>1, <1>2, <1>4 DEF Pending, Held
<1> QED
  BY <1>3, <1>5

\* Nothing is pending or written at the start.
LEMMA InitTrail == Init => Trail!Init
<1> SUFFICES ASSUME Init PROVE Trail!Init
  OBVIOUS
<1>1. ToSet(buf) = {} /\ \A s \in Shippers : ToSet(batch[s]) = {}
  BY EmptyFacts DEF Init
<1>2. {e \in Events : Held(e)} = {}
  BY <1>1 DEF Held
<1> QED
  BY <1>2 DEF Init, Trail!Init

\* The trail counts as the log does.
LEMMA TrailCounts == \A S : Trail!Cardinality(S) = Cardinality(S)
  BY DEF Trail!Cardinality, Cardinality

\* A step that adds an event records it in the abstract trail.
LEMMA KeepsRecords ==
    ASSUME NEW e \in Events, Keeps({e})
    PROVE  Trail!RecordEvent(e)
<1>1. PICK kept \in SUBSET Pending :
         /\ Pending' = kept \cup {e}
         /\ kept = Pending \/ Cardinality(kept \cup {e}) >= Capacity
  <2>1. CASE Pending' = Pending \cup {e}
    BY <2>1
  <2>2. CASE Cardinality(Pending') >= Capacity
    <3>1. Pending' = (Pending \cap Pending') \cup {e}
      BY DEF Keeps
    <3> QED
      BY <2>2, <3>1
  <2> QED
    BY <2>1, <2>2 DEF Keeps
<1> QED
  BY <1>1, TrailCounts DEF Pending, Trail!RecordEvent, Trail!MayKeep

\* recordStart begins a call in the trail.
LEMMA RecordStartTrail ==
    ASSUME IndInv, NEW c \in Calls, RecordStart(c)
    PROVE  Trail!Begin(c)
<1>1. /\ stage[c] = "new" /\ stage' = [stage EXCEPT ![c] = "running"]
      /\ Add(Start(c)) /\ UNCHANGED <<pc, batch, applied>>
  BY DEF RecordStart
<1>2. Start(c) \in Events /\ ~Held(Start(c))
  BY <1>1, StartIsNew
<1>3. Keeps({Start(c)})
  BY <1>1, <1>2, AddSound, AddKeeps, RecordStartInv
<1>4. Trail!RecordEvent(Start(c))
  BY <1>2, <1>3, KeepsRecords
<1>5. Trail!Event(c, "start") = Start(c)
  BY DEF Start, Trail!Event
<1> QED
  BY <1>1, <1>4, <1>5 DEF Trail!Begin

\* record ends it.
LEMMA RecordTrail ==
    ASSUME IndInv, NEW c \in Calls, Record(c)
    PROVE  Trail!End(c)
<1>1. /\ stage[c] # "done" /\ stage' = [stage EXCEPT ![c] = "done"]
      /\ Add(Terminal(c)) /\ UNCHANGED <<pc, batch, applied>>
  BY DEF Record
<1>2. Terminal(c) \in Events /\ ~Held(Terminal(c))
  BY <1>1, TerminalIsNew
<1>3. Keeps({Terminal(c)})
  BY <1>1, <1>2, AddSound, AddKeeps, RecordInv
<1>4. Trail!RecordEvent(Terminal(c))
  BY <1>2, <1>3, KeepsRecords
<1>5. Trail!Event(c, "") = Terminal(c)
  BY DEF Terminal, Trail!Event
<1> QED
  BY <1>1, <1>4, <1>5 DEF Trail!End

\* What a shipper does writes, settles or displaces events, or is not seen.
LEMMA ShipTrail ==
    ASSUME IndInv, NEW s \in Shippers, Ship(s)
    PROVE  [Trail!Next]_(Trail!vars)
<1>1. CASE Notified(s) \/ DrainCoalesced(s) \/ DrainOnTick(s)
  <2>1. /\ \A e \in Events : Held(e)' <=> Held(e)
        /\ UNCHANGED <<stage, applied>>
    BY <1>1, NotifiedInv, DrainInv
       DEF Notified, DrainCoalesced, DrainOnTick, Drain
  <2>2. Pending' = Pending
    BY <2>1 DEF Pending
  <2> QED
    BY <2>1, <2>2 DEF Pending, Trail!vars
<1>2. CASE TowerWrites(s)
  <2>1. /\ \A e \in Events : Held(e)' <=> Held(e)
        /\ UNCHANGED stage /\ applied' = applied \cup ToSet(batch[s])
    BY <1>2, TowerWritesInv DEF TowerWrites
  <2>2. Pending' = Pending
    BY <2>1 DEF Pending
  <2>3. ToSet(batch[s]) \in SUBSET Pending
    BY ToSetDef DEF IndInv, TypeOK, Pending, Held
  <2>4. Trail!Write
    BY <2>1, <2>2, <2>3 DEF Pending, Trail!Write
  <2> QED
    BY <2>4 DEF Trail!Next
<1>3. CASE Shipped(s)
  <2>1. /\ ToSet(batch[s]) \in SUBSET (Pending \cap applied)
        /\ Pending' = Pending \ ToSet(batch[s])
    BY <1>3, ShippedSettles
  <2>2. UNCHANGED <<stage, applied>>
    BY <1>3 DEF Shipped
  <2>3. Trail!Settle
    BY <2>1, <2>2 DEF Pending, Trail!Settle
  <2> QED
    BY <2>3 DEF Trail!Next
<1>4. CASE ShipFails(s)
  <2>1. /\ Pending' \in SUBSET Pending
        /\ Pending' = Pending \/ Cardinality(Pending' \cup {}) >= Capacity
    <3>1. Pending' \cup {} = Pending' /\ Pending \cup {} = Pending
      OBVIOUS
    <3> QED
      BY <1>4, <3>1, ShipFailsKeeps DEF Keeps
  <2>2. UNCHANGED <<stage, applied>>
    BY <1>4 DEF ShipFails
  <2>3. Trail!Displace
    BY <2>1, <2>2, TrailCounts DEF Pending, Trail!Displace, Trail!MayKeep
  <2> QED
    BY <2>3 DEF Trail!Next
<1> QED
  BY <1>1, <1>2, <1>3, <1>4 DEF Ship

\* Every step of the log is a step of the trail or leaves it alone.
LEMMA NextTrail == IndInv /\ [Next]_vars => [Trail!Next]_(Trail!vars)
<1> SUFFICES ASSUME IndInv, [Next]_vars PROVE [Trail!Next]_(Trail!vars)
  OBVIOUS
<1>1. ASSUME NEW c \in Calls, RecordStart(c) \/ Record(c)
      PROVE  Trail!Next
  BY <1>1, RecordStartTrail, RecordTrail DEF Trail!Next
<1>2. ASSUME NEW s \in Shippers, Ship(s)
      PROVE  [Trail!Next]_(Trail!vars)
  BY <1>2, ShipTrail
<1>3. CASE UNCHANGED vars
  BY <1>3 DEF vars, Held, Trail!vars
<1> QED
  BY <1>1, <1>2, <1>3 DEF Next

\* Two shippers that drain, fail and requeue at the same time implement the
\* abstract trail: no event is recorded twice or out of turn, and none that
\* the tower lacks is lost but to a full buffer (calllog.go:112-157,
\* main.go:137-156).
THEOREM TrailImplemented == Spec => ImplementsTrail
<1>1. Spec => []IndInv
  BY InitInv, NextInv, PTL DEF Spec
<1> QED
  BY <1>1, InitTrail, NextTrail, PTL DEF Spec, ImplementsTrail, Trail!Spec

=============================================================================
