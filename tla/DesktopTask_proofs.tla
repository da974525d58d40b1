-------------------------- MODULE DesktopTask_proofs --------------------------
(***************************************************************************)
(* Proofs about DesktopTask, for any operations, owners and nodes, any     *)
(* number of steps, any size of the cache and any deadline no longer than  *)
(* the life of a frame: the cache keeps the newest frames, a task does not *)
(* find its frame expired, a node is asked for nothing more while it may   *)
(* not have done what it was asked, and a withdrawn grant stops the input. *)
(***************************************************************************)
EXTENDS DesktopTask, TLAPS, FiniteSetTheorems, SequenceTheorems,
        WellFoundedInduction

-----------------------------------------------------------------------------
(* Why it holds: for an operation in state c with tally t.                 *)

Running(c) == c.pc \notin {"new", "done"}

\* It was entered by somebody, for some node.
Placed(c) == Running(c) => c.owner \in Owners /\ c.node \in Nodes

\* One request at most is without its receipt, and a task counts its steps by
\* the receipts.
Accounted(c, t) ==
    /\ c.pc = "new" => /\ c.answer = "none"
                       /\ t = [asked |-> 0, sure |-> 0, late |-> 0]
    /\ Running(c) =>
          /\ c.answer = "none"
          /\ t.asked = IF c.pc = "sent" /\ c.ask # "observe" THEN t.sure + 1
                       ELSE t.sure
          /\ c.kind = "task" => /\ t.sure = c.at /\ c.at < Steps
                                /\ c.ask = "observe" => c.at = 0
    /\ t.asked <= t.sure + 1
    /\ c.answer = "ok" => /\ t.asked = t.sure
                          /\ c.kind = "task" => t.asked = Steps

\* Who was late with an input does not get as far as the next one.
LateOnce(c, t, granted) ==
    \/ t.late = 0
    \/ /\ t.late = 1
       /\ \/ c.pc = "done"
          \/ /\ c.owner \notin granted /\ c.pc # "checked"
             /\ c.pc = "send" => c.ask # "input"

\* A task's frame ages no faster than the task runs out of time.
FrameYoung(c, frames) ==
    c.kind = "task" /\ Running(c) /\ c.left > 0 /\ c.frame # 0 =>
        LET f == frames[c.frame] IN
        /\ f.owner = c.owner /\ f.node = c.node
        /\ Len(frames) - c.frame < MaxFrames => f.age + c.left <= Deadline

IndInv ==
    /\ TypeOK /\ CacheKeepsNewest
    /\ \A o \in Ops : /\ Placed(op[o])
                      /\ Accounted(op[o], tally[o])
                      /\ LateOnce(op[o], tally[o], permit)
                      /\ FrameYoung(op[o], made)

-----------------------------------------------------------------------------
USE BoundsAssumption

-----------------------------------------------------------------------------
(* The cache.                                                              *)

\* The frame that is evicted is the oldest.
LEMMA MinFacts ==
    ASSUME NEW S \in SUBSET Nat, S # {}
    PROVE  Min(S) \in S /\ \A x \in S : Min(S) <= x
<1>1. \E x \in S : \A y \in S : x <= y
  <2> DEFINE R == OpToRel(<, Nat)
  <2>1. \A x, y \in Nat : y < x => <<y, x>> \in R
    BY DEF OpToRel
  <2>2. IsWellFoundedOn(R, Nat)
    BY NatLessThanWellFounded
  <2> HIDE DEF R
  <2>3. PICK x \in S : \A y \in S : <<y, x>> \notin R
    BY <2>2, WFMin
  <2>4. \A y \in S : x \in Nat /\ y \in Nat /\ ~(y < x)
    BY <2>1, <2>3
  <2> QED
    BY <2>3, <2>4
<1> QED
  BY <1>1 DEF Min

\* remember: one frame more, of age 0; the others keep their age, but those
\* that the newest MaxFrames leave behind.
LEMMA RememberMakes ==
    ASSUME TypeOK, NEW o \in Ops, Placed(op[o]), Running(op[o]), Remember(o)
    PROVE  /\ Count \in Nat /\ made' \in Seq(Frames) /\ Count' = Count + 1
           /\ made'[Count + 1] = [owner |-> op[o].owner, node |-> op[o].node,
                                  age |-> 0]
           /\ \A f \in 1 .. Count :
                 /\ made[f] \in Frames
                 /\ made'[f].owner = made[f].owner
                 /\ made'[f].node = made[f].node
                 /\ made'[f].age = IF f <= Count + 1 - MaxFrames THEN TTL + 1
                                  ELSE made[f].age
<1>1. Count \in Nat /\ \A f \in 1 .. Count : made[f] \in Frames
  BY DEF TypeOK, Count
<1>2. op[o].owner \in Owners /\ op[o].node \in Nodes
  BY DEF Placed
<1> DEFINE age0 == [owner |-> op[o].owner, node |-> op[o].node, age |-> 0]
           F(f) == IF f = Count + 1 THEN age0
                   ELSE IF f <= Count + 1 - MaxFrames
                   THEN [made[f] EXCEPT !.age = TTL + 1] ELSE made[f]
<1>3. made' = [f \in 1 .. Count + 1 |-> F(f)]
  BY DEF Remember
<1>4. \A f \in 1 .. Count + 1 : F(f) \in Frames
  <2>1. age0 \in Frames
    BY <1>2 DEF Frames
  <2>2. \A f \in 1 .. Count : [made[f] EXCEPT !.age = TTL + 1] \in Frames
    BY <1>1 DEF Frames
  <2> QED
    BY <1>1, <2>1, <2>2
<1>5. made' \in Seq(Frames)
  <2> HIDE DEF F
  <2> QED
    BY <1>1, <1>3, <1>4, IsASeq
<1>6. Count' = Count + 1
  <2>1. DOMAIN made' = 1 .. Count + 1
    BY <1>3
  <2> QED
    BY <1>1, <1>5, <2>1, LenProperties DEF Count
<1>7. ASSUME NEW f \in 1 .. Count
      PROVE  /\ made'[f].owner = made[f].owner /\ made'[f].node = made[f].node
             /\ made'[f].age = IF f <= Count + 1 - MaxFrames THEN TTL + 1
                              ELSE made[f].age
  <2>1. made[f] \in Frames /\ f # Count + 1 /\ f \in 1 .. Count + 1
    BY <1>1
  <2>2. made'[f] = IF f <= Count + 1 - MaxFrames
                   THEN [made[f] EXCEPT !.age = TTL + 1] ELSE made[f]
    BY <1>3, <2>1
  <2> QED
    BY <2>1, <2>2 DEF Frames
<1>8. made'[Count + 1] = age0
  BY <1>1, <1>3
<1> HIDE DEF F
<1> QED
  BY <1>1, <1>5, <1>6, <1>7, <1>8

\* remember keeps the cache within its limit, and in it the newest frames: the
\* frame it evicts is older than as many others.
LEMMA RememberCache ==
    ASSUME TypeOK, CacheKeepsNewest, NEW o \in Ops, Placed(op[o]),
           Running(op[o]), Remember(o)
    PROVE  cache' \subseteq 1 .. Count' /\ CacheKeepsNewest'
<1> DEFINE young == {f \in cache : made[f].age <= TTL}
<1>1. /\ Count \in Nat /\ Count' = Count + 1
      /\ \A f \in 1 .. Count :
            /\ made[f].age \in 0 .. TTL + 1
            /\ made'[f].age = IF f <= Count + 1 - MaxFrames THEN TTL + 1
                             ELSE made[f].age
  BY RememberMakes DEF Frames
<1>2. /\ young \subseteq 1 .. Count /\ IsFiniteSet(young)
      /\ Cardinality(young) \in Nat /\ Cardinality(young) <= MaxFrames
  <2>1. IsFiniteSet(1 .. Count)
    BY <1>1, FS_Interval, 1 \in Int, Count \in Int
  <2>2. cache \subseteq 1 .. Count /\ young \subseteq cache
    BY DEF TypeOK
  <2>3. IsFiniteSet(cache) /\ IsFiniteSet(young)
    BY <2>1, <2>2, FS_Subset
  <2>4. /\ Cardinality(young) <= Cardinality(cache)
        /\ Cardinality(cache) \in Nat /\ Cardinality(young) \in Nat
    BY <2>2, <2>3, FS_Subset, FS_CardinalityType
  <2>5. Cardinality(cache) <= MaxFrames
    BY DEF CacheKeepsNewest
  <2> HIDE DEF young
  <2> QED
    BY <2>2, <2>3, <2>4, <2>5
<1>3. cache' = Kept \cup {Count + 1}
  BY DEF Remember
<1>4. Kept = IF Cardinality(young) >= MaxFrames THEN young \ {Min(young)}
             ELSE young
  BY DEF Kept
<1> HIDE DEF young
<1>5. /\ Kept \subseteq young /\ IsFiniteSet(Kept)
      /\ Cardinality(Kept) \in Nat /\ Cardinality(Kept) < MaxFrames
  <2>1. CASE Cardinality(young) >= MaxFrames
    <3>1. young # {} /\ young \in SUBSET Nat
      BY <1>2, <2>1, FS_EmptySet
    <3>2. Min(young) \in young
      BY <3>1, MinFacts
    <3>3. Kept = young \ {Min(young)}
      BY <1>4, <2>1
    <3>4. /\ IsFiniteSet(Kept)
          /\ Cardinality(Kept) = Cardinality(young) - 1
      BY <1>2, <3>2, <3>3, FS_RemoveElement
    <3>5. Cardinality(Kept) \in Nat
      BY <3>4, FS_CardinalityType
    <3>6. MaxFrames \in Nat
      OBVIOUS
    <3>7. Cardinality(Kept) < MaxFrames
      BY <1>2, <3>4, <3>6
    <3> QED
      BY <3>3, <3>4, <3>5, <3>7
  <2>2. CASE ~(Cardinality(young) >= MaxFrames)
    BY <1>2, <1>4, <2>2
  <2> QED
    BY <2>1, <2>2
<1>6. cache' \subseteq 1 .. Count'
  BY <1>1, <1>2, <1>3, <1>5
<1>7. Cardinality(cache') <= MaxFrames
  <2>1. Cardinality(Kept \cup {Count + 1}) =
           IF Count + 1 \in Kept THEN Cardinality(Kept)
           ELSE Cardinality(Kept) + 1
    BY <1>5, FS_AddElement
  <2>2. Cardinality(Kept \cup {Count + 1}) <= MaxFrames
    BY <1>5, <2>1
  <2> QED
    BY <1>3, <2>2
<1>8. ASSUME NEW f \in 1 .. Count', made'[f].age <= TTL, Count' - f < MaxFrames
      PROVE  f \in cache'
  <2>1. CASE f = Count + 1
    BY <1>3, <2>1
  <2>2. CASE f \in 1 .. Count
    <3>1. made[f].age <= TTL /\ Count - f < MaxFrames - 1
      BY <1>1, <1>8, <2>2
    <3>2. f \in young
      BY <2>2, <3>1, <1>1 DEF young, CacheKeepsNewest
    <3>3. ASSUME Cardinality(young) >= MaxFrames, f = Min(young)
          PROVE  FALSE
      <4>1. young \in SUBSET (f .. Count)
        <5>1. \A x \in young : f <= x
          BY <1>2, <3>2, <3>3, MinFacts
        <5> QED
          BY <1>2, <2>2, <5>1
      <4>2. Cardinality(young) <= Count - f + 1
        <5>1. /\ IsFiniteSet(f .. Count)
              /\ Cardinality(f .. Count) = Count - f + 1
          BY <1>1, <2>2, FS_Interval, f \in Int, Count \in Int, ~(f > Count)
        <5> QED
          BY <4>1, <5>1, FS_Subset
      <4> QED
        BY <1>1, <1>2, <2>2, <3>1, <3>3, <4>2
    <3> QED
      BY <1>3, <1>4, <3>2, <3>3
  <2> QED
    BY <1>1, <1>8, <2>1, <2>2
<1> QED
  BY <1>6, <1>7, <1>8 DEF CacheKeepsNewest

-----------------------------------------------------------------------------
(* One operation moves.                                                    *)

\* Operation o goes on in state c, with tally t.
Moves(o, c, t) ==
    /\ op' = [op EXCEPT ![o] = c] /\ tally' = [tally EXCEPT ![o] = t]
    /\ busy' \subseteq Nodes /\ UNCHANGED permit

\* What the invariant asks of that.
Holds(c, t) ==
    /\ c \in OpState(Count') /\ t \in Tallies
    /\ Placed(c) /\ Accounted(c, t) /\ LateOnce(c, t, permit)
    /\ FrameYoung(c, made')

\* An operation may name any frame there was, however many came since.
LEMMA StateGrows ==
    ASSUME NEW m \in Nat, NEW n \in Nat, m <= n
    PROVE  OpState(m) \subseteq OpState(n)
<1>1. 0 .. m \subseteq 0 .. n
  OBVIOUS
<1> QED
  BY <1>1 DEF OpState

\* remember makes no running task's frame older.
LEMMA RememberYoung ==
    ASSUME TypeOK, NEW o \in Ops, Placed(op[o]), Running(op[o]), Remember(o),
           NEW c \in OpState(Count), FrameYoung(c, made)
    PROVE  FrameYoung(c, made')
<1> SUFFICES ASSUME c.kind = "task", Running(c), c.left > 0, c.frame # 0
             PROVE  /\ made'[c.frame].owner = c.owner
                    /\ made'[c.frame].node = c.node
                    /\ Len(made') - c.frame < MaxFrames =>
                          made'[c.frame].age + c.left <= Deadline
  BY DEF FrameYoung
<1>1. /\ made[c.frame].owner = c.owner /\ made[c.frame].node = c.node
      /\ Count - c.frame < MaxFrames => made[c.frame].age + c.left <= Deadline
  BY DEF FrameYoung, Count
<1>2. c.frame \in 1 .. Count
  <2>1. Count \in Nat
    BY RememberMakes
  <2>2. c.frame \in 0 .. Count
    BY DEF OpState
  <2> QED
    BY <2>1, <2>2
<1>3. /\ Count \in Nat /\ Len(made') = Count + 1
      /\ made'[c.frame].owner = made[c.frame].owner
      /\ made'[c.frame].node = made[c.frame].node
      /\ made'[c.frame].age = IF c.frame <= Count + 1 - MaxFrames THEN TTL + 1
                             ELSE made[c.frame].age
  BY <1>2, RememberMakes DEF Count
<1> QED
  BY <1>1, <1>2, <1>3

\* So it is enough to look at the operation that moves.
LEMMA OneMoves ==
    ASSUME IndInv, NEW o \in Ops, NEW c, NEW t, Moves(o, c, t), Holds(c, t),
           \/ UNCHANGED <<made, cache>>
           \/ Remember(o) /\ Running(op[o])
    PROVE  IndInv'
<1>1. TypeOK /\ CacheKeepsNewest /\ Placed(op[o]) /\ Count \in Nat
  BY DEF IndInv, TypeOK, Count
<1>2. /\ made' \in Seq(Frames) /\ cache' \subseteq 1 .. Count'
      /\ Count' \in Nat /\ Count <= Count' /\ CacheKeepsNewest'
      /\ \A d \in OpState(Count) : FrameYoung(d, made) => FrameYoung(d, made')
  <2>1. CASE UNCHANGED <<made, cache>>
    BY <1>1, <2>1 DEF TypeOK, Count, CacheKeepsNewest
  <2>2. CASE Remember(o) /\ Running(op[o])
    <3>1. made' \in Seq(Frames) /\ Count' = Count + 1
      BY <1>1, <2>2, RememberMakes
    <3>2. cache' \subseteq 1 .. Count' /\ CacheKeepsNewest'
      BY <1>1, <2>2, RememberCache
    <3>3. \A d \in OpState(Count) :
             FrameYoung(d, made) => FrameYoung(d, made')
      BY <1>1, <2>2, RememberYoung
    <3> QED
      BY <1>1, <3>1, <3>2, <3>3
  <2> QED
    BY <2>1, <2>2
<1>3. \A p \in Ops : op[p] \in OpState(Count)
  BY <1>1 DEF TypeOK
<1>4. /\ op'[o] = c /\ tally'[o] = t
      /\ \A p \in Ops \ {o} : op'[p] = op[p] /\ tally'[p] = tally[p]
  BY <1>1 DEF Moves, TypeOK
<1>5. TypeOK'
  <2>1. op' \in [Ops -> OpState(Count')]
    BY <1>1, <1>2, StateGrows DEF TypeOK, Moves, Holds
  <2>2. tally' \in [Ops -> Tallies]
    BY <1>1 DEF TypeOK, Moves, Holds
  <2> QED
    BY <1>1, <1>2, <2>1, <2>2 DEF TypeOK, Moves
<1>6. ASSUME NEW p \in Ops
      PROVE  /\ Placed(op'[p]) /\ Accounted(op'[p], tally'[p])
             /\ LateOnce(op'[p], tally'[p], permit')
             /\ FrameYoung(op'[p], made')
  <2>1. CASE p = o
    BY <1>4, <2>1 DEF Holds, Moves
  <2>2. CASE p # o
    BY <1>2, <1>3, <1>4, <2>2 DEF IndInv, Moves
  <2> QED
    BY <2>1, <2>2
<1> QED
  BY <1>2, <1>5, <1>6 DEF IndInv

\* What the invariant says of one operation.
LEMMA OpFacts ==
    ASSUME IndInv, NEW o \in Ops
    PROVE  /\ Count \in Nat /\ op[o] \in OpState(Count)
           /\ tally[o] \in Tallies
           /\ Placed(op[o]) /\ Accounted(op[o], tally[o])
           /\ LateOnce(op[o], tally[o], permit) /\ FrameYoung(op[o], made)
  BY DEF IndInv, TypeOK, Count

\* A step that remembers no frame.
LEMMA QuietMove ==
    ASSUME IndInv, NEW o \in Ops, NEW c \in OpState(Count), NEW t \in Tallies,
           op' = [op EXCEPT ![o] = c], tally' = [tally EXCEPT ![o] = t],
           busy' \subseteq Nodes, UNCHANGED <<made, cache, permit>>,
           Placed(c), Accounted(c, t), LateOnce(c, t, permit),
           FrameYoung(c, made)
    PROVE  IndInv'
<1>1. Moves(o, c, t)
  BY DEF Moves
<1>2. Holds(c, t)
  BY DEF Holds, Count
<1> QED
  BY <1>1, <1>2, OneMoves

\* A step that counts nothing either.
LEMMA SilentMove ==
    ASSUME IndInv, NEW o \in Ops, NEW c \in OpState(Count),
           op' = [op EXCEPT ![o] = c],
           busy' \subseteq Nodes, UNCHANGED <<made, cache, permit, tally>>,
           Placed(c), Accounted(c, tally[o]), LateOnce(c, tally[o], permit),
           FrameYoung(c, made)
    PROVE  IndInv'
<1>1. tally' = [tally EXCEPT ![o] = tally[o]] /\ tally[o] \in Tallies
  BY DEF IndInv, TypeOK
<1> QED
  BY <1>1, QuietMove

\* An operation that has ended asks for nothing any more; "ok" has to be true.
LEMMA EndedHolds ==
    ASSUME NEW n \in Nat, NEW c \in OpState(n), NEW f \in 0 .. n,
           NEW answer \in {"none", "ok", "failed"}, NEW t \in Tallies,
           NEW granted, NEW frames,
           t.asked <= t.sure + 1, t.late <= 1,
           answer = "ok" => /\ t.asked = t.sure
                            /\ c.kind = "task" => t.asked = Steps
    PROVE  LET d == Ended(c, f, answer)
           IN  /\ d \in OpState(n) /\ Placed(d) /\ Accounted(d, t)
               /\ LateOnce(d, t, granted) /\ FrameYoung(d, frames)
<1> DEFINE d == Ended(c, f, answer)
<1>1. 0 \in 0 .. n /\ 0 \in 0 .. Steps /\ 0 \in 0 .. Deadline
  OBVIOUS
<1>2. /\ d \in OpState(n) /\ d.pc = "done"
      /\ d.answer = "ok" => answer = "ok" /\ d.kind = c.kind
  <2>1. CASE answer = "ok"
    <3>1. d = [c EXCEPT !.pc = "done", !.ask = "none", !.left = 0, !.at = 0,
                        !.frame = f, !.answer = "ok"]
      BY <2>1 DEF Ended
    <3> HIDE DEF d
    <3> QED
      BY <1>1, <2>1, <3>1 DEF OpState
  <2>2. CASE answer # "ok"
    <3>1. d = [pc |-> "done", kind |-> "frame", owner |-> "", node |-> "",
               frame |-> 0, ask |-> "none", at |-> 0, left |-> 0,
               answer |-> answer]
      BY <2>2 DEF Ended, New
    <3> HIDE DEF d
    <3> QED
      BY <1>1, <2>2, <3>1 DEF OpState, Kinds
  <2> QED
    BY <2>1, <2>2
<1> HIDE DEF d
<1>3. ~Running(d)
  BY <1>2 DEF Running
<1>4. Accounted(d, t)
  BY <1>2, <1>3 DEF Accounted
<1>5. LateOnce(d, t, granted)
  BY <1>2 DEF LateOnce, Tallies
<1> QED
  BY <1>2, <1>3, <1>4, <1>5 DEF d, Placed, FrameYoung

\* Whatever fails ends, wherever it was.
LEMMA FailsInv ==
    ASSUME IndInv, NEW o \in Ops, NEW answer \in {"none", "failed"},
           Leave(o, 0, answer), UNCHANGED <<made, cache, permit, tally>>
    PROVE  IndInv'
<1> DEFINE d == Ended(op[o], 0, answer)
<1>1. op' = [op EXCEPT ![o] = d] /\ busy' \subseteq Nodes
  BY DEF Leave, IndInv, TypeOK
<1>2. tally[o].asked <= tally[o].sure + 1 /\ tally[o].late <= 1
  BY OpFacts DEF Accounted, LateOnce, Tallies
<1>3. /\ d \in OpState(Count) /\ Placed(d) /\ Accounted(d, tally[o])
      /\ LateOnce(d, tally[o], permit) /\ FrameYoung(d, made)
  <2>1. 0 \in 0 .. Count /\ answer # "ok"
    BY OpFacts
  <2> QED
    BY <1>2, <2>1, OpFacts, EndedHolds
<1> HIDE DEF d
<1> QED
  BY <1>1, <1>3, SilentMove

\* An operation that goes on, with nothing on its way before or after.
LEMMA GoesInv ==
    ASSUME IndInv, NEW o \in Ops, Running(op[o]), op[o].pc # "sent",
           NEW pc \in {"send", "ground", "auth", "checked"},
           NEW ask \in {"none", "wait", op[o].ask},
           op' = [op EXCEPT ![o] = [op[o] EXCEPT !.pc = pc, !.ask = ask]],
           (pc = "checked" \/ (pc = "send" /\ ask = "input"))
             => op[o].owner \in permit,
           UNCHANGED <<busy, made, cache, permit, tally>>
    PROVE  IndInv'
<1> DEFINE c == [op[o] EXCEPT !.pc = pc, !.ask = ask]
<1>1. /\ c \in OpState(Count) /\ c.pc = pc /\ c.ask = ask
      /\ c.kind = op[o].kind /\ c.owner = op[o].owner /\ c.node = op[o].node
      /\ c.frame = op[o].frame /\ c.at = op[o].at /\ c.left = op[o].left
      /\ c.answer = op[o].answer
  BY OpFacts DEF OpState
<1>2. op' = [op EXCEPT ![o] = c] /\ busy' \subseteq Nodes
  BY DEF IndInv, TypeOK
<1> HIDE DEF c
<1>3. Placed(c) /\ FrameYoung(c, made)
  BY <1>1, OpFacts DEF Placed, FrameYoung, Running
<1>4. Accounted(c, tally[o])
  BY <1>1, OpFacts DEF Accounted, Running
<1>5. LateOnce(c, tally[o], permit)
  BY <1>1, OpFacts DEF LateOnce, Running
<1> QED
  BY <1>1, <1>2, <1>3, <1>4, <1>5, SilentMove

\* Step: the operation has its frame.
LEMMA StepInv == ASSUME IndInv, NEW o \in Ops, Step(o) PROVE IndInv'
<1>1. /\ op[o].pc = "step" /\ UNCHANGED <<busy, made, cache, permit, tally>>
      /\ \/ op' = [op EXCEPT ![o].pc = "ground"]
         \/ op' = [op EXCEPT ![o].pc = "auth"]
         \/ op' = [op EXCEPT ![o].pc = "send", ![o].ask = "wait"]
  BY DEF Step, Goes
<1>2. PICK pc \in {"ground", "auth", "send"}, ask \in {"wait", op[o].ask} :
         /\ op' = [op EXCEPT ![o] = [op[o] EXCEPT !.pc = pc, !.ask = ask]]
         /\ pc = "send" => ask = "wait"
  <2>1. op \in [Ops -> OpState(Count)]
    BY DEF IndInv, TypeOK
  <2>2. \A x : [op[o] EXCEPT !.pc = x]
                = [op[o] EXCEPT !.pc = x, !.ask = op[o].ask]
    BY <2>1 DEF OpState
  <2> QED
    BY <1>1, <2>2
<1>3. Running(op[o])
  BY <1>1 DEF Running
<1> QED
  BY <1>1, <1>2, <1>3, GoesInv

\* Grounded: a find is over, the others ask whether they may go on.
LEMMA GroundedInv == ASSUME IndInv, NEW o \in Ops, Grounded(o) PROVE IndInv'
<1>1. op[o].pc = "ground" /\ UNCHANGED <<made, cache, permit, tally>>
  BY DEF Grounded
<1>2. CASE op[o].kind = "find"
  <2> DEFINE d == Ended(op[o], op[o].frame, "ok")
  <2>1. op' = [op EXCEPT ![o] = d] /\ busy' \subseteq Nodes
    BY <1>2 DEF Grounded, Leave, IndInv, TypeOK
  <2>2. tally[o].asked = tally[o].sure /\ tally[o].late <= 1
    BY <1>1, OpFacts DEF Accounted, Running, LateOnce, Tallies
  <2>3. /\ d \in OpState(Count) /\ Placed(d) /\ Accounted(d, tally[o])
        /\ LateOnce(d, tally[o], permit) /\ FrameYoung(d, made)
    <3>1. op[o].frame \in 0 .. Count
      BY OpFacts DEF OpState
    <3>2. tally[o].asked <= tally[o].sure + 1
      BY OpFacts DEF Accounted
    <3> QED
      BY <1>2, <2>2, <3>1, <3>2, OpFacts, EndedHolds
  <2> HIDE DEF d
  <2> QED
    BY <1>1, <2>1, <2>3, SilentMove
<1>3. CASE op[o].kind # "find"
  <2>1. op' = [op EXCEPT ![o].pc = "auth"] /\ UNCHANGED busy
    BY <1>3 DEF Grounded, Goes
  <2>2. op' = [op EXCEPT ![o] = [op[o] EXCEPT !.pc = "auth",
                                              !.ask = op[o].ask]]
    BY <2>1 DEF IndInv, TypeOK, OpState
  <2>3. Running(op[o])
    BY <1>1 DEF Running
  <2> QED
    BY <1>1, <2>1, <2>2, <2>3, GoesInv
<1> QED
  BY <1>2, <1>3

\* Authorized: who goes on to send input has the grant.
LEMMA AuthorizedInv == ASSUME IndInv, NEW o \in Ops, Authorized(o) PROVE IndInv'
<1>1. /\ op[o].pc = "auth" /\ op[o].owner \in permit
      /\ UNCHANGED <<busy, made, cache, permit, tally>>
      /\ \/ op' = [op EXCEPT ![o].pc = "send"]
         \/ op' = [op EXCEPT ![o].pc = "checked"]
  BY DEF Authorized, Goes
<1>2. PICK pc \in {"send", "checked"} :
         op' = [op EXCEPT ![o] = [op[o] EXCEPT !.pc = pc, !.ask = op[o].ask]]
  <2>1. \A x : [op[o] EXCEPT !.pc = x]
                = [op[o] EXCEPT !.pc = x, !.ask = op[o].ask]
    BY OpFacts DEF OpState
  <2> QED
    BY <1>1, <2>1
<1>3. Running(op[o])
  BY <1>1 DEF Running
<1> QED
  BY <1>1, <1>2, <1>3, GoesInv

\* Dispatch and Act: the request is counted, and so is an input that comes
\* after the grant.
LEMMA SendsInv ==
    ASSUME IndInv, NEW o \in Ops, NEW ask, Sends(o, ask),
           \/ op[o].pc = "send" /\ ask = op[o].ask
           \/ op[o].pc = "checked" /\ ask = "input"
    PROVE  IndInv'
<1> DEFINE c == [op[o] EXCEPT !.pc = "sent", !.ask = ask]
           asked == IF ask = "observe" THEN tally[o].asked
                    ELSE tally[o].asked + 1
           late == IF ask = "input" /\ op[o].owner \notin permit
                   THEN tally[o].late + 1 ELSE tally[o].late
           t == [tally[o] EXCEPT !.asked = asked, !.late = late]
<1>1. /\ c \in OpState(Count) /\ c.pc = "sent" /\ c.ask = ask
      /\ c.kind = op[o].kind /\ c.owner = op[o].owner /\ c.node = op[o].node
      /\ c.frame = op[o].frame /\ c.at = op[o].at /\ c.left = op[o].left
      /\ c.answer = op[o].answer
  BY OpFacts DEF OpState
<1>2. /\ t \in Tallies /\ t.sure = tally[o].sure
      /\ t.asked = asked /\ t.late = late
  <2>1. asked \in Nat /\ late \in Nat
    BY OpFacts DEF Tallies
  <2> HIDE DEF asked, late
  <2> QED
    BY <2>1, OpFacts DEF Tallies
<1>3. op' = [op EXCEPT ![o] = c] /\ tally' = [tally EXCEPT ![o] = t]
  <2>1. tally \in [Ops -> Tallies] /\ op \in [Ops -> OpState(Count)]
    BY DEF IndInv, TypeOK
  <2> QED
    BY <2>1 DEF Sends, Tallies, OpState
<1>4. busy' \subseteq Nodes /\ UNCHANGED <<made, cache, permit>>
  BY DEF Sends, IndInv, TypeOK
<1> HIDE DEF c, t
<1>5. Placed(c) /\ FrameYoung(c, made)
  BY <1>1, OpFacts DEF Placed, FrameYoung, Running
<1>6. Accounted(c, t)
  <2>1. Running(c) /\ Running(op[o]) /\ op[o].pc # "sent"
    BY <1>1 DEF Running
  <2>2. /\ tally[o].sure \in Nat /\ tally[o].asked = tally[o].sure
        /\ op[o].answer = "none"
        /\ op[o].kind = "task" =>
              /\ tally[o].sure = op[o].at /\ op[o].at < Steps
              /\ op[o].ask = "observe" => op[o].at = 0
    BY <2>1, OpFacts DEF Accounted, Tallies
  <2> QED
    BY <1>1, <1>2, <2>1, <2>2 DEF Accounted
<1>7. LateOnce(c, t, permit)
  BY <1>1, <1>2, OpFacts DEF LateOnce, Tallies
<1> QED
  BY <1>1, <1>2, <1>3, <1>4, <1>5, <1>6, <1>7, QuietMove

\* Dispatch.
LEMMA DispatchInv == ASSUME IndInv, NEW o \in Ops, Dispatch(o) PROVE IndInv'
  BY SendsInv DEF Dispatch

\* Act.
LEMMA ActInv == ASSUME IndInv, NEW o \in Ops, Act(o) PROVE IndInv'
  BY SendsInv DEF Act

\* Enter: nothing counted yet, and no task has a frame.
LEMMA EnterInv ==
    ASSUME IndInv, NEW o \in Ops, NEW w \in Owners, NEW n \in Nodes,
           NEW f \in 0 .. Count, NEW kind \in Kinds, Enter(o, w, n, kind, f)
    PROVE  IndInv'
<1> DEFINE ask == IF kind \in {"observe", "task"} THEN "observe"
                  ELSE IF kind = "wait" THEN "wait" ELSE "input"
           c == [New EXCEPT !.pc = First[kind], !.kind = kind, !.owner = w,
                            !.node = n, !.frame = f, !.left = Deadline,
                            !.ask = ask]
<1>1. /\ op[o].pc = "new" /\ kind # "frame"
      /\ (f = 0) = (kind \notin {"find", "act"})
      /\ op' = [op EXCEPT ![o] = c] /\ busy' \subseteq Nodes
      /\ UNCHANGED <<made, cache, permit, tally>>
  BY DEF Enter, IndInv, TypeOK
<1>2. /\ First[kind] \in {"send", "step", "auth"}
      /\ First[kind] = "send" => kind \in {"observe", "task", "wait"}
  BY <1>1 DEF First, Kinds
<1>3. /\ 0 \in 0 .. Steps /\ Deadline \in 0 .. Deadline
      /\ ask \in {"observe", "wait", "input"}
  OBVIOUS
<1>4. /\ c \in OpState(Count) /\ c.pc = First[kind] /\ c.kind = kind
      /\ c.owner = w /\ c.node = n /\ c.frame = f /\ c.ask = ask
      /\ c.at = 0 /\ c.answer = "none"
  <2> DEFINE start == First[kind]
  <2> HIDE DEF start, ask
  <2>1. /\ c.pc = start /\ c.kind = kind
        /\ c.owner = w /\ c.node = n /\ c.frame = f /\ c.ask = ask
        /\ c.at = 0 /\ c.answer = "none" /\ c.left = Deadline
    BY DEF New, start
  <2>2. c \in OpState(Count)
    BY <1>2, <1>3 DEF New, OpState, start
  <2> QED
    BY <2>1, <2>2 DEF start
<1> HIDE DEF c
<1>5. tally[o].asked = 0 /\ tally[o].sure = 0 /\ tally[o].late = 0
  BY <1>1, OpFacts DEF Accounted
<1>6. Placed(c) /\ FrameYoung(c, made)
  BY <1>1, <1>4 DEF Placed, FrameYoung
<1>7. Accounted(c, tally[o]) /\ LateOnce(c, tally[o], permit)
  BY <1>2, <1>4, <1>5 DEF Accounted, LateOnce, Running
<1> QED
  BY <1>1, <1>4, <1>6, <1>7, SilentMove

\* ReadFrame.
LEMMA ReadFrameInv ==
    ASSUME IndInv, NEW o \in Ops, NEW w \in Owners, NEW n \in Nodes,
           NEW f \in 0 .. Count, ReadFrame(o, w, n, f)
    PROVE  IndInv'
<1> DEFINE b == [New EXCEPT !.owner = w, !.node = n]
           answer == IF Available(f, w, n) THEN "ok" ELSE "failed"
           d == Ended(b, f, answer)
<1>1. /\ op[o].pc = "new" /\ op' = [op EXCEPT ![o] = d]
      /\ UNCHANGED <<busy, made, cache, permit, tally>>
  BY DEF ReadFrame
<1>2. b \in OpState(Count) /\ b.kind # "task"
  <2>1. 0 \in 0 .. Count /\ 0 \in 0 .. Steps /\ 0 \in 0 .. Deadline
    BY OpFacts
  <2> QED
    BY <2>1 DEF New, OpState, Kinds
<1>3. tally[o].asked = 0 /\ tally[o].sure = 0 /\ tally[o].late = 0
  BY <1>1, OpFacts DEF Accounted
<1>4. answer \in {"none", "ok", "failed"}
  OBVIOUS
<1> HIDE DEF b, answer
<1>5. /\ d \in OpState(Count) /\ Placed(d) /\ Accounted(d, tally[o])
      /\ LateOnce(d, tally[o], permit) /\ FrameYoung(d, made)
  <2>1. tally[o].asked <= tally[o].sure + 1 /\ tally[o].late <= 1
    BY <1>3
  <2> QED
    BY <1>2, <1>3, <1>4, <2>1, OpFacts, EndedHolds
<1>6. busy' \subseteq Nodes
  BY <1>1 DEF IndInv, TypeOK
<1> HIDE DEF d
<1> QED
  BY <1>1, <1>5, <1>6, SilentMove

\* Cancel: no time is left.
LEMMA CancelInv == ASSUME IndInv, NEW o \in Ops, Cancel(o) PROVE IndInv'
<1> DEFINE c == [op[o] EXCEPT !.left = 0]
<1>1. 0 \in 0 .. Deadline
  OBVIOUS
<1>2. /\ c \in OpState(Count) /\ c.left = 0 /\ c.pc = op[o].pc
      /\ c.ask = op[o].ask /\ c.kind = op[o].kind /\ c.owner = op[o].owner
      /\ c.node = op[o].node /\ c.at = op[o].at /\ c.answer = op[o].answer
  BY <1>1, OpFacts DEF OpState
<1>3. /\ op' = [op EXCEPT ![o] = c] /\ busy' \subseteq Nodes
      /\ UNCHANGED <<made, cache, permit, tally>>
  BY DEF Cancel, IndInv, TypeOK
<1> HIDE DEF c
<1>4. Placed(c) /\ FrameYoung(c, made)
  BY <1>2, OpFacts DEF Placed, FrameYoung, Running
<1>5. Accounted(c, tally[o]) /\ LateOnce(c, tally[o], permit)
  BY <1>2, OpFacts DEF Accounted, LateOnce, Running
<1> QED
  BY <1>2, <1>3, <1>4, <1>5, SilentMove

\* A receipt says that the node did as asked: the operation is over, or goes on
\* to its next step with frame f.
LEMMA OnwardInv ==
    ASSUME IndInv, NEW o \in Ops, op[o].pc = "sent", NEW f, f \in 0 .. Count',
           Confirmed(o), Onward(o, f), UNCHANGED permit,
           \/ UNCHANGED <<made, cache>>
           \/ Remember(o),
           FrameYoung([op[o] EXCEPT !.frame = f], made')
    PROVE  IndInv'
<1> DEFINE k == IF op[o].ask = "observe" THEN 0 ELSE op[o].at + 1
           over == op[o].kind # "task" \/ k = Steps
           sure == IF op[o].ask = "observe" THEN tally[o].sure
                   ELSE tally[o].sure + 1
           t == [tally[o] EXCEPT !.sure = sure]
           c == [op[o] EXCEPT !.pc = "step", !.ask = "none", !.at = k,
                              !.frame = f]
           d == Ended(op[o], f, "ok")
<1>1. Running(op[o])
  BY DEF Running
<1>2. /\ t \in Tallies /\ t.asked = tally[o].asked /\ t.late = tally[o].late
      /\ t.sure = sure
  <2>1. sure \in Nat
    BY OpFacts DEF Tallies
  <2> HIDE DEF sure
  <2> QED
    BY <2>1, OpFacts DEF Tallies
<1>3. tally' = [tally EXCEPT ![o] = t]
  BY DEF Confirmed, IndInv, TypeOK, Tallies
<1> HIDE DEF t
<1>4. /\ t.asked = t.sure /\ t.late <= 1
      /\ op[o].kind = "task" => t.sure = k /\ k \in 0 .. Steps
  <2>1. /\ tally[o].asked = IF op[o].ask # "observe" THEN tally[o].sure + 1
                            ELSE tally[o].sure
        /\ op[o].kind = "task" =>
              /\ tally[o].sure = op[o].at /\ op[o].at < Steps
              /\ op[o].ask = "observe" => op[o].at = 0
    BY <1>1, OpFacts DEF Accounted
  <2>2. op[o].at \in 0 .. Steps /\ tally[o].sure \in Nat
    BY OpFacts DEF OpState, Tallies
  <2>3. tally[o].late <= 1
    BY OpFacts DEF LateOnce
  <2> QED
    BY <1>2, <2>1, <2>2, <2>3
<1>5. Count' \in Nat /\ op[o] \in OpState(Count')
  <2>1. Count' \in Nat /\ Count <= Count'
    <3>1. CASE UNCHANGED <<made, cache>>
      BY <3>1, OpFacts DEF Count
    <3>2. CASE Remember(o)
      <4>1. TypeOK /\ Placed(op[o])
        BY OpFacts DEF IndInv
      <4>2. Count \in Nat /\ Count' = Count + 1
        BY <1>1, <3>2, <4>1, RememberMakes
      <4> QED
        BY <4>2
    <3> QED
      BY <3>1, <3>2
  <2> QED
    BY <2>1, OpFacts, StateGrows
<1>6. CASE over
  <2>1. op' = [op EXCEPT ![o] = d] /\ busy' \subseteq Nodes
    BY <1>6 DEF Onward, Leave, IndInv, TypeOK
  <2>2. t.asked <= t.sure + 1 /\ (op[o].kind = "task" => t.asked = Steps)
    BY <1>2, <1>4, <1>6 DEF Tallies
  <2>3. /\ d \in OpState(Count') /\ Placed(d) /\ Accounted(d, t)
        /\ LateOnce(d, t, permit) /\ FrameYoung(d, made')
    BY <1>2, <1>4, <1>5, <2>2, EndedHolds
  <2> HIDE DEF d
  <2>4. Moves(o, d, t) /\ Holds(d, t)
    BY <1>2, <1>3, <2>1, <2>3 DEF Moves, Holds
  <2> QED
    BY <1>1, <2>4, OneMoves
<1>7. CASE ~over
  <2>1. op' = [op EXCEPT ![o] = c] /\ busy' \subseteq Nodes
    <3>1. UNCHANGED busy /\ op' = [op EXCEPT ![o].pc = "step",
             ![o].ask = "none", ![o].at = k, ![o].frame = f]
      BY <1>7 DEF Onward
    <3> HIDE DEF k
    <3> QED
      BY <3>1 DEF IndInv, TypeOK, OpState
  <2>2. op[o].kind = "task" /\ k \in 0 .. Steps /\ k # Steps
    BY <1>4, <1>7
  <2> HIDE DEF k
  <2>3. /\ c \in OpState(Count') /\ c.pc = "step" /\ c.ask = "none"
        /\ c.at = k /\ c.frame = f /\ c.kind = op[o].kind
        /\ c.owner = op[o].owner /\ c.node = op[o].node
        /\ c.left = op[o].left /\ c.answer = op[o].answer
    BY <1>5, <2>2 DEF OpState
  <2>4. FrameYoung(c, made')
    <3> DEFINE b == [op[o] EXCEPT !.frame = f]
    <3>1. /\ b.kind = op[o].kind /\ b.owner = op[o].owner
          /\ b.node = op[o].node /\ b.left = op[o].left /\ b.pc = "sent"
          /\ b.frame = f
      BY <1>5 DEF OpState
    <3> HIDE DEF b, c
    <3>2. FrameYoung(b, made')
      BY DEF b
    <3> QED
      BY <2>3, <3>1, <3>2 DEF FrameYoung, Running
  <2> HIDE DEF c
  <2>5. Placed(c)
    BY <1>1, <2>3, OpFacts DEF Placed
  <2>6. Accounted(c, t)
    <3>1. op[o].answer = "none" /\ k < Steps
      BY <1>1, <2>2, OpFacts DEF Accounted
    <3>2. t.asked <= t.sure + 1
      BY <1>2, <1>4 DEF Tallies
    <3> QED
      BY <1>4, <2>2, <2>3, <3>1, <3>2 DEF Accounted
  <2>7. LateOnce(c, t, permit)
    BY <1>2, <2>3, OpFacts DEF LateOnce
  <2>8. Moves(o, c, t) /\ Holds(c, t)
    BY <1>2, <1>3, <2>1, <2>3, <2>4, <2>5, <2>6, <2>7 DEF Moves, Holds
  <2> QED
    BY <1>1, <2>8, OneMoves
<1> QED
  BY <1>6, <1>7

\* Observed: the operation goes on with the frame it has just remembered, which
\* has no age yet.
LEMMA ObservedInv == ASSUME IndInv, NEW o \in Ops, Observed(o) PROVE IndInv'
<1>1. /\ op[o].pc = "sent" /\ Remember(o) /\ Confirmed(o)
      /\ Onward(o, Count + 1) /\ UNCHANGED permit
  BY DEF Observed
<1>2. Running(op[o])
  BY <1>1 DEF Running
<1>3. /\ Count \in Nat /\ Count' = Count + 1
      /\ made'[Count + 1] = [owner |-> op[o].owner, node |-> op[o].node,
                             age |-> 0]
  <2>1. TypeOK /\ Placed(op[o])
    BY OpFacts DEF IndInv
  <2> QED
    BY <1>1, <1>2, <2>1, RememberMakes
<1>4. FrameYoung([op[o] EXCEPT !.frame = Count + 1], made')
  <2> DEFINE b == [op[o] EXCEPT !.frame = Count + 1]
  <2>1. /\ b.frame = Count + 1 /\ b.owner = op[o].owner
        /\ b.node = op[o].node /\ b.left \in 0 .. Deadline
    BY OpFacts DEF OpState
  <2> HIDE DEF b
  <2>2. made'[b.frame].age + b.left <= Deadline
    BY <1>3, <2>1
  <2> QED
    BY <1>3, <2>1, <2>2 DEF FrameYoung, b
<1>5. Count + 1 \in 0 .. Count'
  BY <1>3
<1> QED
  BY <1>1, <1>4, <1>5, OnwardInv

\* Bare: the operation keeps the frame it has.
LEMMA BareInv == ASSUME IndInv, NEW o \in Ops, Bare(o) PROVE IndInv'
<1>1. /\ op[o].pc = "sent" /\ Confirmed(o) /\ Onward(o, op[o].frame)
      /\ UNCHANGED <<made, cache, permit>>
  BY DEF Bare
<1>2. op[o].frame \in 0 .. Count'
  BY <1>1, OpFacts DEF OpState, Count
<1>3. [op[o] EXCEPT !.frame = op[o].frame] = op[o]
  BY OpFacts DEF OpState
<1>4. FrameYoung([op[o] EXCEPT !.frame = op[o].frame], made')
  BY <1>1, <1>3, OpFacts
<1> QED
  BY <1>1, <1>2, <1>4, OnwardInv

\* WaitedInVain: the node's frame is remembered, and the task is over.
LEMMA WaitedInVainInv ==
    ASSUME IndInv, NEW o \in Ops, WaitedInVain(o)
    PROVE  IndInv'
<1> DEFINE d == Ended(op[o], 0, "failed")
<1>1. /\ op[o].pc = "sent" /\ Remember(o) /\ op' = [op EXCEPT ![o] = d]
      /\ busy' \subseteq Nodes /\ UNCHANGED <<permit, tally>>
  BY DEF WaitedInVain, Leave, IndInv, TypeOK
<1>2. Running(op[o])
  BY <1>1 DEF Running
<1>3. Count' \in Nat /\ op[o] \in OpState(Count')
  <2>1. TypeOK /\ Placed(op[o])
    BY OpFacts DEF IndInv
  <2>2. Count \in Nat /\ Count' = Count + 1
    BY <1>1, <1>2, <2>1, RememberMakes
  <2>3. Count' \in Nat /\ Count <= Count'
    BY <2>2
  <2> QED
    BY <2>2, <2>3, OpFacts, StateGrows
<1>4. tally[o].asked <= tally[o].sure + 1 /\ tally[o].late <= 1
  BY OpFacts DEF Accounted, LateOnce, Tallies
<1>5. Holds(d, tally[o])
  <2>1. 0 \in 0 .. Count'
    BY <1>3
  <2>2. /\ d \in OpState(Count') /\ Placed(d) /\ Accounted(d, tally[o])
        /\ LateOnce(d, tally[o], permit) /\ FrameYoung(d, made')
    BY <1>3, <1>4, <2>1, OpFacts, EndedHolds
  <2> HIDE DEF d
  <2> QED
    BY <2>2, OpFacts DEF Holds
<1> HIDE DEF d
<1>6. Moves(o, d, tally[o])
  BY <1>1 DEF Moves, IndInv, TypeOK
<1> QED
  BY <1>1, <1>2, <1>5, <1>6, OneMoves

\* Withdraw: who had to be without the grant still is.
LEMMA WithdrawInv == ASSUME IndInv, NEW w \in Owners, Withdraw(w) PROVE IndInv'
<1>1. /\ permit' = permit \ {w}
      /\ UNCHANGED <<busy, made, cache, op, tally>>
  BY DEF Withdraw
<1>2. TypeOK' /\ CacheKeepsNewest'
  BY <1>1 DEF IndInv, TypeOK, CacheKeepsNewest, Count
<1>3. \A o \in Ops : LateOnce(op[o], tally[o], permit')
  BY <1>1 DEF IndInv, LateOnce
<1> QED
  BY <1>1, <1>2, <1>3 DEF IndInv

\* Tick: a frame grows as much older as the operations have less time.
LEMMA TickInv == ASSUME IndInv, Tick PROVE IndInv'
<1> DEFINE Older(f) == [made[f] EXCEPT !.age = IF @ <= TTL THEN @ + 1 ELSE @]
           Later(o) == IF Working(o) /\ Live(o)
                       THEN [op[o] EXCEPT !.left = @ - 1] ELSE op[o]
<1>1. /\ made' = [f \in 1 .. Count |-> Older(f)]
      /\ op' = [o \in Ops |-> Later(o)]
      /\ UNCHANGED <<busy, cache, permit, tally>>
  BY DEF Tick
<1>2. /\ Count \in Nat /\ TypeOK /\ CacheKeepsNewest
      /\ \A f \in 1 .. Count : made[f] \in Frames
  BY DEF IndInv, TypeOK, Count
<1>3. ASSUME NEW f \in 1 .. Count
      PROVE  /\ made'[f] \in Frames
             /\ made'[f].owner = made[f].owner /\ made'[f].node = made[f].node
             /\ made[f].age \in 0 .. TTL + 1
             /\ made'[f].age = IF made[f].age <= TTL THEN made[f].age + 1
                              ELSE made[f].age
  <2> DEFINE age == IF made[f].age <= TTL THEN made[f].age + 1
                    ELSE made[f].age
  <2>1. made[f] \in Frames
    BY <1>2
  <2>2. made[f].age \in 0 .. TTL + 1 /\ age \in 0 .. TTL + 1
    BY <2>1 DEF Frames
  <2>3. made'[f] = [made[f] EXCEPT !.age = age]
    BY <1>1
  <2> HIDE DEF age
  <2>4. /\ made'[f] \in Frames /\ made'[f].age = age
        /\ made'[f].owner = made[f].owner /\ made'[f].node = made[f].node
    BY <2>1, <2>2, <2>3 DEF Frames
  <2> QED
    BY <2>2, <2>4 DEF age
<1>4. made' \in Seq(Frames) /\ Count' = Count
  <2>1. \A f \in 1 .. Count : Older(f) \in Frames
    BY <1>1, <1>3
  <2>2. made' \in Seq(Frames)
    <3> HIDE DEF Older
    <3> QED
      BY <1>1, <1>2, <2>1, IsASeq
  <2>3. DOMAIN made' = 1 .. Count
    BY <1>1
  <2> QED
    BY <1>2, <2>2, <2>3, LenProperties DEF Count
<1>5. ASSUME NEW o \in Ops
      PROVE  /\ op'[o] \in OpState(Count) /\ op'[o].pc = op[o].pc
             /\ op'[o].kind = op[o].kind /\ op'[o].owner = op[o].owner
             /\ op'[o].node = op[o].node /\ op'[o].frame = op[o].frame
             /\ op'[o].ask = op[o].ask /\ op'[o].at = op[o].at
             /\ op'[o].answer = op[o].answer
             /\ Running(op[o]) /\ op'[o].left > 0 =>
                   op[o].left \in Nat /\ op'[o].left = op[o].left - 1
  <2>1. op[o] \in OpState(Count) /\ op[o].left \in 0 .. Deadline
    BY OpFacts DEF OpState
  <2>2. CASE Working(o) /\ Live(o)
    <3>1. op'[o] = [op[o] EXCEPT !.left = op[o].left - 1]
      BY <1>1, <2>2
    <3> DEFINE left == op[o].left - 1
    <3>2. left \in 0 .. Deadline /\ op[o].left \in Nat
      BY <2>1, <2>2 DEF Live
    <3> HIDE DEF left
    <3>3. /\ op'[o] \in OpState(Count) /\ op'[o].pc = op[o].pc
          /\ op'[o].kind = op[o].kind /\ op'[o].owner = op[o].owner
          /\ op'[o].node = op[o].node /\ op'[o].frame = op[o].frame
          /\ op'[o].ask = op[o].ask /\ op'[o].at = op[o].at
          /\ op'[o].answer = op[o].answer /\ op'[o].left = left
      BY <2>1, <3>1, <3>2 DEF OpState, left
    <3> QED
      BY <3>2, <3>3 DEF left
  <2>3. CASE ~(Working(o) /\ Live(o))
    <3>1. op'[o] = op[o]
      BY <1>1, <2>3
    <3> QED
      BY <2>1, <2>3, <3>1 DEF Working, Live, Running
  <2> QED
    BY <2>2, <2>3
<1>6. TypeOK'
  <2>1. op' \in [Ops -> OpState(Count')]
    BY <1>1, <1>4, <1>5
  <2> QED
    BY <1>1, <1>2, <1>4, <2>1 DEF TypeOK
<1>7. CacheKeepsNewest'
  <2>1. \A f \in 1 .. Count : made'[f].age <= TTL => made[f].age <= TTL
    BY <1>3
  <2> QED
    BY <1>1, <1>2, <1>4, <2>1 DEF CacheKeepsNewest
<1>8. ASSUME NEW o \in Ops
      PROVE  /\ Placed(op'[o]) /\ Accounted(op'[o], tally'[o])
             /\ LateOnce(op'[o], tally'[o], permit')
  BY <1>1, <1>5, OpFacts DEF Placed, Accounted, LateOnce, Running
<1>9. ASSUME NEW o \in Ops
      PROVE  FrameYoung(op'[o], made')
  <2> SUFFICES ASSUME op'[o].kind = "task", Running(op'[o]), op'[o].left > 0,
                      op'[o].frame # 0
               PROVE  /\ made'[op'[o].frame].owner = op'[o].owner
                      /\ made'[op'[o].frame].node = op'[o].node
                      /\ Len(made') - op'[o].frame < MaxFrames =>
                            made'[op'[o].frame].age + op'[o].left <= Deadline
    BY DEF FrameYoung
  <2>1. /\ op[o].kind = "task" /\ Running(op[o]) /\ op[o].frame # 0
        /\ op[o].left \in Nat /\ op'[o].left = op[o].left - 1
        /\ op[o].left > 0 /\ op[o].frame \in 1 .. Count
        /\ op'[o].frame = op[o].frame /\ op'[o].owner = op[o].owner
        /\ op'[o].node = op[o].node
    <3>1. op[o].kind = "task" /\ Running(op[o]) /\ op[o].frame # 0
      BY <1>5 DEF Running
    <3>2. op[o].left \in Nat /\ op'[o].left = op[o].left - 1
      BY <1>5, <3>1
    <3>3. op[o].left > 0
      BY <3>2
    <3>4. op[o].frame \in 0 .. Count
      BY OpFacts DEF OpState
    <3> QED
      BY <1>2, <1>5, <3>1, <3>2, <3>3, <3>4
  <2>2. /\ made[op[o].frame].owner = op[o].owner
        /\ made[op[o].frame].node = op[o].node
        /\ Count - op[o].frame < MaxFrames =>
              made[op[o].frame].age + op[o].left <= Deadline
    BY <2>1, OpFacts DEF FrameYoung, Count
  <2> DEFINE f == op[o].frame
  <2>3. Len(made') = Count
    BY <1>4 DEF Count
  <2>4. /\ made'[f].owner = made[f].owner /\ made'[f].node = made[f].node
        /\ made[f].age \in 0 .. TTL + 1
        /\ made'[f].age = IF made[f].age <= TTL THEN made[f].age + 1
                         ELSE made[f].age
    BY <1>3, <2>1
  <2>5. Count - f < MaxFrames => made'[f].age + op'[o].left <= Deadline
    BY <2>1, <2>2, <2>4
  <2> QED
    BY <2>1, <2>2, <2>3, <2>4, <2>5
<1> QED
  BY <1>6, <1>7, <1>8, <1>9 DEF IndInv

-----------------------------------------------------------------------------
(* The inductive invariant.                                                *)

\* At first nothing is remembered and nobody runs.
LEMMA InitInv == Init => IndInv
<1> SUFFICES ASSUME Init PROVE IndInv
  OBVIOUS
<1>1. made = <<>> /\ Count = 0 /\ made \in Seq(Frames)
  BY EmptySeq DEF Init, Count
<1>2. New \in OpState(Count) /\ ~Running(New) /\ New.pc = "new"
      /\ New.answer = "none"
  <2>1. 0 \in 0 .. Count /\ 0 \in 0 .. Steps /\ 0 \in 0 .. Deadline
    BY <1>1
  <2> QED
    BY <2>1 DEF New, OpState, Kinds, Running
<1>3. TypeOK
  BY <1>1, <1>2 DEF Init, TypeOK, Tallies
<1>4. CacheKeepsNewest
  BY <1>1, FS_EmptySet DEF Init, CacheKeepsNewest
<1>5. ASSUME NEW o \in Ops
      PROVE  /\ Placed(op[o]) /\ Accounted(op[o], tally[o])
             /\ LateOnce(op[o], tally[o], permit) /\ FrameYoung(op[o], made)
  <2>1. op[o] = New /\ tally[o] = [asked |-> 0, sure |-> 0, late |-> 0]
    BY DEF Init
  <2>2. Placed(op[o]) /\ FrameYoung(op[o], made)
    BY <1>2, <2>1 DEF Placed, FrameYoung
  <2>3. Accounted(op[o], tally[o]) /\ LateOnce(op[o], tally[o], permit)
    BY <1>2, <2>1 DEF Accounted, LateOnce
  <2> QED
    BY <2>2, <2>3
<1> QED
  BY <1>3, <1>4, <1>5 DEF IndInv

\* Every step of every operation keeps it.
LEMMA NextInv == IndInv /\ [Next]_vars => IndInv'
<1> SUFFICES ASSUME IndInv, [Next]_vars PROVE IndInv'
  OBVIOUS
<1>1. ASSUME NEW o \in Ops, NEW w \in Owners, NEW n \in Nodes,
             NEW f \in 0 .. Count,
             \/ \E kind \in Kinds : Enter(o, w, n, kind, f)
             \/ ReadFrame(o, w, n, f)
      PROVE  IndInv'
  BY <1>1, EnterInv, ReadFrameInv
<1>2. ASSUME NEW o \in Ops, Execute(o) PROVE IndInv'
  <2>1. CASE Step(o) \/ Grounded(o) \/ Authorized(o) \/ Dispatch(o) \/ Act(o)
    BY <2>1, StepInv, GroundedInv, AuthorizedInv, DispatchInv, ActInv
  <2>2. CASE StepFails(o) \/ NotGrounded(o) \/ NotAuthorized(o) \/ NotSent(o)
    <3>1. Fails(o)
      BY <2>2 DEF StepFails, NotGrounded, NotAuthorized, NotSent
    <3> QED
      BY <3>1, FailsInv DEF Fails
  <2> QED
    BY <1>2, <2>1, <2>2 DEF Execute
<1>3. ASSUME NEW o \in Ops, Node(o) PROVE IndInv'
  <2>1. CASE Panics(o)
    BY <2>1, FailsInv DEF Panics
  <2>2. CASE NoReceipt(o)
    BY <2>2, FailsInv DEF NoReceipt, Fails
  <2> QED
    BY <1>3, <2>1, <2>2, ObservedInv, BareInv, WaitedInVainInv DEF Node
<1>4. CASE UNCHANGED vars
  BY <1>4 DEF vars, IndInv, TypeOK, CacheKeepsNewest, Count
<1> QED
  BY <1>1, <1>2, <1>3, <1>4, CancelInv, WithdrawInv, TickInv DEF Next

\* So it always holds.
LEMMA AlwaysInv == Spec => []IndInv
  BY InitInv, NextInv, PTL DEF Spec

\* The cache never outgrows its limit, and displaces a frame that is still
\* good only for the newest MaxFrames, in whatever order several owners'
\* operations remember and expire (desktop.go:555-573).
THEOREM NewestKept == Spec => []CacheKeepsNewest
<1>1. IndInv => CacheKeepsNewest
  BY DEF IndInv
<1> QED
  BY <1>1, AlwaysInv, PTL

\* A running task never finds its frame expired, through groundings,
\* authorizations and lost time: it is there unless other operations have
\* filled the whole cache since (desktop.go:232-235, 557, 579, 710-724).
THEOREM FrameOutlivesTask == Spec => []TaskFrameKept
<1>1. IndInv => TaskFrameKept
  <2> SUFFICES ASSUME IndInv, NEW o \in Ops,
                      op[o].kind = "task", Live(o), op[o].frame # 0,
                      op[o].pc \in {"step", "ground", "auth", "checked"},
                      ~(Count - op[o].frame >= MaxFrames)
               PROVE  HasFrame(o)
    BY DEF TaskFrameKept
  <2> DEFINE f == op[o].frame
  <2>1. /\ Count \in Nat /\ f \in 1 .. Count /\ op[o].left \in Nat
        /\ op[o].left > 0 /\ Running(op[o])
    <3>1. f \in 0 .. Count /\ op[o].left \in 0 .. Deadline
      BY OpFacts DEF OpState
    <3> QED
      BY <3>1, OpFacts DEF Live, Running
  <2>2. Count - f < MaxFrames
    BY <2>1
  <2>3. /\ made[f].owner = op[o].owner /\ made[f].node = op[o].node
        /\ made[f].age + op[o].left <= Deadline
    BY <2>1, <2>2, OpFacts DEF FrameYoung, Count
  <2>4. made[f].age \in Nat
    <3>1. made[f] \in Frames
      BY <2>1 DEF IndInv, TypeOK, Count
    <3> QED
      BY <3>1 DEF Frames
  <2>5. made[f].age <= TTL
    BY <2>1, <2>3, <2>4
  <2>6. f \in cache
    BY <2>1, <2>2, <2>5 DEF IndInv, CacheKeepsNewest
  <2> QED
    BY <2>3, <2>5, <2>6 DEF HasFrame, Available
<1> QED
  BY <1>1, AlwaysInv, PTL

\* A node is asked for the next step only when it has confirmed the one
\* before; what it is asked it does once or not at all, and "ok" means that it
\* did everything (desktop.go:706-795, desktop_test.go:106-121, 185-199).
THEOREM DoubtStops == Spec => []NothingAfterDoubt
<1>1. IndInv => NothingAfterDoubt
  <2> SUFFICES ASSUME IndInv, NEW o \in Ops
        PROVE  LET t == tally[o] IN
               /\ t.asked <= t.sure + 1
               /\ Working(o) /\ op[o].pc # "sent" => t.asked = t.sure
               /\ op[o].answer = "ok" =>
                     /\ t.asked = t.sure
                     /\ op[o].kind = "task" => t.asked = Steps
    BY DEF NothingAfterDoubt
  <2> QED
    BY OpFacts DEF Accounted, Working, Running
<1> QED
  BY <1>1, AlwaysInv, PTL

\* When the grant is withdrawn, at most the one input that has passed its
\* check is still sent (desktop.go:236-245, 836-845).
THEOREM WithdrawalStops == Spec => []WithdrawnStopsInput
<1>1. IndInv => WithdrawnStopsInput
  BY OpFacts DEF LateOnce, WithdrawnStopsInput
<1> QED
  BY <1>1, AlwaysInv, PTL
=============================================================================
