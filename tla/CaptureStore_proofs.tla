-------------------------- MODULE CaptureStore_proofs --------------------------
(***************************************************************************)
(* Proofs about CaptureStore, for any clients, owners and handles: the     *)
(* running byte total is the sum of what is stored, every quota holds, and *)
(* one owner's output is evicted for another's only if the store is full.  *)
(***************************************************************************)
EXTENDS CaptureStore, FiniteSetTheorems, WellFoundedInduction, TLAPS

-----------------------------------------------------------------------------
(* Why it holds.                                                           *)

\* What is stored can be counted, and its count is right.
IndInv == TypeOK /\ IsFiniteSet(Stored) /\ BytesAccounted /\ WithinQuotas

-----------------------------------------------------------------------------
(* Total, which MapThenSumSet defines by recursion on sets, is the number  *)
(* of bytes of the captures, counted one by one.                           *)

Choice(s) == CHOOSE x \in s : TRUE

Recursion(c, S, f) ==
    f = [s \in SUBSET S |-> IF s = {} THEN 0
                            ELSE c[Choice(s)].size + f[s \ {Choice(s)}]]

SumOf(c, S) == (CHOOSE f : Recursion(c, S, f))[S]

BytesOf(c, S) == UNION {{x} \X (1 .. c[x].size) : x \in S}

Sized(c, S) == IsFiniteSet(S) /\ \A x \in S : c[x].size \in Nat

\* Total is that recursion.
LEMMA TotalIsSum == \A S : Total(S) = SumOf(captures, S)
  BY DEF Total, SizeOf, MapThenSumSet, MapThenFoldSet, SumOf, Recursion, Choice

\* A nonempty family of subsets of a finite set has a minimal member.
LEMMA SmallestSubset ==
    ASSUME NEW S, IsFiniteSet(S), NEW F \in SUBSET (SUBSET S), F # {}
    PROVE  \E T \in F : \A U \in F : U \subseteq T => U = T
<1>1. IsWellFoundedOn(StrictSubsetOrdering(S), SUBSET S)
  BY FS_StrictSubsetOrderingWellFounded, FS_FiniteSubsetsOfFinite
<1>2. PICK T \in F : \A U \in F : ~(<<U, T>> \in StrictSubsetOrdering(S))
  BY <1>1, WFMin
<1> QED
  BY <1>2 DEF StrictSubsetOrdering

\* The bytes of one more capture.
LEMMA OneMore ==
    ASSUME NEW c, NEW S, IsFiniteSet(BytesOf(c, S)), NEW x, x \notin S,
           c[x].size \in Nat
    PROVE  /\ IsFiniteSet(BytesOf(c, S \cup {x}))
           /\ Cardinality(BytesOf(c, S \cup {x})) =
                 Cardinality(BytesOf(c, S)) + c[x].size
<1> DEFINE n == c[x].size
           B == {x} \X (1 .. n)
<1>1. BytesOf(c, S \cup {x}) = BytesOf(c, S) \cup B
  BY DEF BytesOf
<1>2. BytesOf(c, S) \cap B = {}
  BY DEF BytesOf
<1>3. n \in Nat
  OBVIOUS
<1> HIDE DEF n
<1>4. IsFiniteSet(B) /\ Cardinality(B) = n
  <2>1. IsFiniteSet(1 .. n) /\ Cardinality(1 .. n) = n
    <3>1. /\ IsFiniteSet(1 .. n)
          /\ Cardinality(1 .. n) = IF 1 > n THEN 0 ELSE n - 1 + 1
      BY <1>3, 1 \in Int, n \in Int, FS_Interval
    <3> QED
      BY <1>3, <3>1
  <2>2. IsFiniteSet({x}) /\ Cardinality({x}) = 1
    BY FS_Singleton
  <2>3. /\ IsFiniteSet(B)
        /\ Cardinality(B) = Cardinality({x}) * Cardinality(1 .. n)
    BY <2>1, <2>2, FS_Product
  <2>4. 1 * n = n
    BY <1>3
  <2> QED
    BY <2>1, <2>2, <2>3, <2>4
<1> HIDE DEF B
<1>5. Cardinality({}) = 0 /\ Cardinality(BytesOf(c, S)) \in Nat
  BY FS_EmptySet, FS_CardinalityType
<1>6. /\ IsFiniteSet(BytesOf(c, S) \cup B)
      /\ Cardinality(BytesOf(c, S) \cup B) =
            Cardinality(BytesOf(c, S)) + n - Cardinality({})
  BY <1>2, <1>4, FS_Union
<1>7. Cardinality(BytesOf(c, S) \cup B) = Cardinality(BytesOf(c, S)) + n
  BY <1>3, <1>5, <1>6
<1> QED
  BY <1>1, <1>6, <1>7 DEF n

\* The bytes of finitely many captures are finitely many.
LEMMA BytesFinite ==
    ASSUME NEW c, NEW S, Sized(c, S)
    PROVE  \A T \in SUBSET S : IsFiniteSet(BytesOf(c, T))
<1> DEFINE Bad == {T \in SUBSET S : ~IsFiniteSet(BytesOf(c, T))}
<1> SUFFICES ASSUME Bad # {} PROVE FALSE
  OBVIOUS
<1>1. PICK T \in Bad : \A U \in Bad : U \subseteq T => U = T
  <2> HIDE DEF Bad
  <2>1. Bad \in SUBSET (SUBSET S) /\ IsFiniteSet(S)
    BY DEF Bad, Sized
  <2> QED
    BY <2>1, SmallestSubset
<1>2. BytesOf(c, {}) = {}
  BY DEF BytesOf
<1>3. PICK x \in T : TRUE
  BY <1>1, <1>2, FS_EmptySet
<1>4. IsFiniteSet(BytesOf(c, T \ {x}))
  BY <1>1, <1>3
<1>5. x \notin T \ {x} /\ c[x].size \in Nat /\ T = (T \ {x}) \cup {x}
  BY <1>1, <1>3 DEF Sized
<1>6. IsFiniteSet(BytesOf(c, (T \ {x}) \cup {x}))
  BY <1>4, <1>5, OneMore
<1> QED
  BY <1>1, <1>5, <1>6

\* Taking one away takes away its bytes.
LEMMA OneLess ==
    ASSUME NEW c, NEW S, Sized(c, S), NEW T \in SUBSET S, NEW x \in T
    PROVE  Cardinality(BytesOf(c, T)) =
              c[x].size + Cardinality(BytesOf(c, T \ {x}))
<1>1. IsFiniteSet(BytesOf(c, T \ {x}))
  <2>1. T \ {x} \in SUBSET S
    OBVIOUS
  <2> QED
    BY <2>1, BytesFinite
<1>2. x \notin T \ {x} /\ c[x].size \in Nat /\ T = (T \ {x}) \cup {x}
  BY DEF Sized
<1>3. Cardinality(BytesOf(c, (T \ {x}) \cup {x})) =
         Cardinality(BytesOf(c, T \ {x})) + c[x].size
  BY <1>1, <1>2, OneMore
<1>4. Cardinality(BytesOf(c, T \ {x})) \in Nat
  BY <1>1, FS_CardinalityType
<1>5. Cardinality(BytesOf(c, T)) =
         Cardinality(BytesOf(c, T \ {x})) + c[x].size
  BY <1>2, <1>3
<1> QED
  BY <1>2, <1>4, <1>5

\* The recursion counts the bytes.
LEMMA SumIsBytes ==
    ASSUME NEW c, NEW S, Sized(c, S)
    PROVE  SumOf(c, S) = Cardinality(BytesOf(c, S))
<1> DEFINE n(T) == Cardinality(BytesOf(c, T))
           F == [s \in SUBSET S |-> n(s)]
           f == CHOOSE g : Recursion(c, S, g)
<1>1. n({}) = 0
  <2>1. BytesOf(c, {}) = {}
    BY DEF BytesOf
  <2> QED
    BY <2>1, FS_EmptySet
<1>2. ASSUME NEW T \in SUBSET S, T # {}
      PROVE  /\ Choice(T) \in T
             /\ n(T) = c[Choice(T)].size + n(T \ {Choice(T)})
  <2>1. Choice(T) \in T
    BY <1>2 DEF Choice
  <2> QED
    BY <2>1, OneLess
<1> HIDE DEF n
<1>3. Recursion(c, S, F)
  <2>1. ASSUME NEW s \in SUBSET S
        PROVE  F[s] = IF s = {} THEN 0
                      ELSE c[Choice(s)].size + F[s \ {Choice(s)}]
    BY <1>1, <1>2
  <2> QED
    BY <2>1 DEF Recursion
<1> HIDE DEF F
<1>4. Recursion(c, S, f)
  BY <1>3
<1> HIDE DEF f
<1>5. \A s \in SUBSET S :
         f[s] = IF s = {} THEN 0
                ELSE c[Choice(s)].size + f[s \ {Choice(s)}]
  BY <1>4 DEF Recursion
<1> DEFINE Bad == {T \in SUBSET S : f[T] # n(T)}
<1>6. Bad = {}
  <2> SUFFICES ASSUME Bad # {} PROVE FALSE
    OBVIOUS
  <2>1. PICK T \in Bad : \A U \in Bad : U \subseteq T => U = T
    <3> HIDE DEF Bad
    <3>1. Bad \in SUBSET (SUBSET S) /\ IsFiniteSet(S)
      BY DEF Bad, Sized
    <3> QED
      BY <3>1, SmallestSubset
  <2>2. T \in SUBSET S /\ T # {} /\ f[T] # n(T)
    BY <1>1, <1>5, <2>1
  <2>3. Choice(T) \in T /\ n(T) = c[Choice(T)].size + n(T \ {Choice(T)})
    BY <1>2, <2>2
  <2>4. f[T \ {Choice(T)}] = n(T \ {Choice(T)})
    BY <2>1, <2>2, <2>3
  <2> QED
    BY <1>5, <2>2, <2>3, <2>4
<1>7. f[S] = n(S)
  BY <1>6
<1> QED
  BY <1>7 DEF SumOf, f, n

\* A total is a number.
LEMMA SumType ==
    ASSUME NEW c, NEW S, Sized(c, S)
    PROVE  SumOf(c, S) \in Nat
<1>1. S \in SUBSET S
  OBVIOUS
<1> QED
  BY <1>1, BytesFinite, SumIsBytes, FS_CardinalityType

\* Totals of disjoint sets add up.
LEMMA SumSplits ==
    ASSUME NEW c, NEW S, Sized(c, S), NEW T \in SUBSET S
    PROVE  /\ Sized(c, T) /\ Sized(c, S \ T)
           /\ SumOf(c, S) = SumOf(c, T) + SumOf(c, S \ T)
           /\ SumOf(c, T) \in Nat /\ SumOf(c, S \ T) \in Nat
<1>1. Sized(c, T) /\ Sized(c, S \ T)
  BY FS_Subset, FS_Difference DEF Sized
<1> DEFINE A == BytesOf(c, T)
           B == BytesOf(c, S \ T)
<1>2. BytesOf(c, S) = A \cup B /\ A \cap B = {}
  BY DEF BytesOf
<1>3. IsFiniteSet(A) /\ IsFiniteSet(B)
  <2>1. S \ T \in SUBSET S
    OBVIOUS
  <2> QED
    BY <2>1, BytesFinite
<1> HIDE DEF A, B
<1>4. /\ Cardinality(A \cup B) =
            Cardinality(A) + Cardinality(B) - Cardinality({})
      /\ Cardinality({}) = 0
      /\ Cardinality(A) \in Nat /\ Cardinality(B) \in Nat
  BY <1>2, <1>3, FS_Union, FS_EmptySet, FS_CardinalityType
<1>5. Cardinality(A \cup B) = Cardinality(A) + Cardinality(B)
  BY <1>4
<1>6. /\ SumOf(c, S) = Cardinality(A \cup B)
      /\ SumOf(c, T) = Cardinality(A) /\ SumOf(c, S \ T) = Cardinality(B)
  BY <1>1, <1>2, SumIsBytes DEF A, B
<1> QED
  BY <1>1, <1>4, <1>5, <1>6

\* A total depends on the sizes.
LEMMA SumSame ==
    ASSUME NEW c, NEW d, NEW S, Sized(c, S), \A x \in S : d[x].size = c[x].size
    PROVE  Sized(d, S) /\ SumOf(d, S) = SumOf(c, S)
<1>1. Sized(d, S) /\ BytesOf(d, S) = BytesOf(c, S)
  BY DEF Sized, BytesOf
<1> QED
  BY <1>1, SumIsBytes

\* A new capture adds its size.
LEMMA SumGrows ==
    ASSUME NEW c, NEW S, Sized(c, S), NEW x, x \notin S, c[x].size \in Nat
    PROVE  /\ Sized(c, S \cup {x})
           /\ SumOf(c, S \cup {x}) = SumOf(c, S) + c[x].size
<1>1. Sized(c, S \cup {x})
  BY FS_AddElement DEF Sized
<1>2. IsFiniteSet(BytesOf(c, S))
  BY BytesFinite, S \in SUBSET S
<1>3. Cardinality(BytesOf(c, S \cup {x})) =
         Cardinality(BytesOf(c, S)) + c[x].size
  BY <1>2, OneMore
<1> QED
  BY <1>1, <1>3, SumIsBytes

-----------------------------------------------------------------------------
(* What is taken away, and what is added.                                  *)

\* The entries of S are as they were, but for the time of their last use.
Same(S) ==
    \A x \in S : /\ captures'[x] \in Entry
                 /\ captures'[x].size = captures[x].size
                 /\ captures'[x].owner = captures[x].owner

\* What the invariant says of the sums.
LEMMA Sums ==
    ASSUME IndInv
    PROVE  /\ Sized(captures, Stored) /\ bytes = SumOf(captures, Stored)
           /\ bytes <= MaxBytes /\ Cardinality(Stored) <= MaxEntries
           /\ \A o \in Owners :
                 /\ Cardinality(OwnedBy(o)) <= MaxOwnerEntries
                 /\ SumOf(captures, OwnedBy(o)) <= MaxOwnerBytes
<1>1. \A x \in Stored : captures[x].size \in Nat
  BY QuotaAssumption DEF IndInv, TypeOK, Entry
<1> QED
  BY <1>1, TotalIsSum DEF IndInv, Sized, BytesAccounted, WithinQuotas

\* The same in the next state.
LEMMA TotalsNext ==
    /\ Total(Stored)' = SumOf(captures', Stored')
    /\ \A o \in Owners : Total(OwnedBy(o))' = SumOf(captures', OwnedBy(o)')
  BY DEF Total, SizeOf, MapThenSumSet, MapThenFoldSet, SumOf, Recursion, Choice

\* Part of what is stored, and the rest.
LEMMA Part ==
    ASSUME IndInv, NEW S \in SUBSET Stored, NEW R \in SUBSET S
    PROVE  /\ Sized(captures, S) /\ Sized(captures, R) /\ Sized(captures, S \ R)
           /\ SumOf(captures, S) \in Nat /\ SumOf(captures, R) \in Nat
           /\ SumOf(captures, S \ R) \in Nat
           /\ SumOf(captures, S) =
                 SumOf(captures, R) + SumOf(captures, S \ R)
           /\ Cardinality(S) \in Nat /\ Cardinality(S \ R) \in Nat
           /\ Cardinality(S \ R) <= Cardinality(S)
<1>1. Sized(captures, Stored)
  BY Sums
<1>2. Sized(captures, S) /\ SumOf(captures, S) \in Nat
  BY <1>1, SumSplits
<1>3. /\ Sized(captures, R) /\ Sized(captures, S \ R)
      /\ SumOf(captures, S) = SumOf(captures, R) + SumOf(captures, S \ R)
      /\ SumOf(captures, R) \in Nat /\ SumOf(captures, S \ R) \in Nat
  BY <1>2, SumSplits
<1>4. /\ Cardinality(S) \in Nat /\ Cardinality(S \ R) \in Nat
      /\ Cardinality(S \ R) <= Cardinality(S)
  BY <1>2, <1>3, FS_CardinalityType, FS_Subset, S \ R \in SUBSET S DEF Sized
<1> QED
  BY <1>2, <1>3, <1>4

\* Removal leaves the count right and every quota kept.
LEMMA LessIsSound ==
    ASSUME IndInv, NEW R \in SUBSET Stored,
           Stored' = Stored \ R, Same(Stored \ R),
           bytes' = bytes - Total(R)
    PROVE  /\ IsFiniteSet(Stored') /\ bytes' \in Nat
           /\ BytesAccounted' /\ WithinQuotas'
<1>1. /\ bytes = SumOf(captures, Stored) /\ bytes <= MaxBytes
      /\ Cardinality(Stored) <= MaxEntries
      /\ bytes' = bytes - SumOf(captures, R) /\ Stored \in SUBSET Stored
  BY Sums, TotalIsSum
<1>2. /\ Sized(captures, Stored \ R) /\ SumOf(captures, R) \in Nat
      /\ SumOf(captures, Stored \ R) \in Nat /\ SumOf(captures, Stored) \in Nat
      /\ SumOf(captures, Stored) =
            SumOf(captures, R) + SumOf(captures, Stored \ R)
      /\ Cardinality(Stored \ R) <= Cardinality(Stored)
      /\ Cardinality(Stored \ R) \in Nat /\ Cardinality(Stored) \in Nat
  BY <1>1, Part
<1>3. ASSUME NEW S \in SUBSET (Stored \ R)
      PROVE  SumOf(captures', S) = SumOf(captures, S)
  <2>1. Sized(captures, S)
    BY <1>3, Part, S \in SUBSET Stored, S \in SUBSET S
  <2>2. \A x \in S : captures'[x].size = captures[x].size
    BY DEF Same
  <2> QED
    BY <2>1, <2>2, SumSame
<1>4. SumOf(captures', Stored') = SumOf(captures, Stored \ R)
  BY <1>3, Stored' \in SUBSET (Stored \ R)
<1>5. /\ bytes' = SumOf(captures', Stored') /\ bytes' \in Nat
      /\ bytes' <= MaxBytes /\ Cardinality(Stored') <= MaxEntries
  BY <1>1, <1>2, <1>4, QuotaAssumption
<1>6. IsFiniteSet(Stored')
  BY <1>2 DEF Sized
<1>7. ASSUME NEW o \in Owners
      PROVE  /\ Cardinality(OwnedBy(o)') <= MaxOwnerEntries
             /\ SumOf(captures', OwnedBy(o)') <= MaxOwnerBytes
  <2> DEFINE O == OwnedBy(o)
             D == O \cap R
  <2>1. OwnedBy(o)' = O \ D
    BY DEF OwnedBy, Same
  <2>2. O \in SUBSET Stored /\ D \in SUBSET O /\ O \ D \in SUBSET (Stored \ R)
    BY DEF OwnedBy
  <2>3. Cardinality(O) <= MaxOwnerEntries /\ SumOf(captures, O) <= MaxOwnerBytes
    BY Sums
  <2> HIDE DEF O, D
  <2>4. /\ SumOf(captures, O) = SumOf(captures, D) + SumOf(captures, O \ D)
        /\ SumOf(captures, D) \in Nat /\ SumOf(captures, O \ D) \in Nat
        /\ Cardinality(O) \in Nat /\ Cardinality(O \ D) \in Nat
        /\ Cardinality(O \ D) <= Cardinality(O) /\ SumOf(captures, O) \in Nat
    BY <2>2, Part
  <2>5. /\ Cardinality(O \ D) <= MaxOwnerEntries
        /\ SumOf(captures, O \ D) <= MaxOwnerBytes
    BY <2>3, <2>4, QuotaAssumption
  <2>6. SumOf(captures', O \ D) = SumOf(captures, O \ D)
    BY <1>3, <2>2
  <2> QED
    BY <2>1, <2>5, <2>6
<1> QED
  BY <1>5, <1>6, <1>7, TotalsNext DEF BytesAccounted, WithinQuotas

\* So does the insertion of one more, with room for it made before.
LEMMA MoreIsSound ==
    ASSUME IndInv, NEW X \in SUBSET Stored, NEW id, id \notin Stored \ X,
           NEW o \in Owners, NEW size \in Sizes,
           Stored' = (Stored \ X) \cup {id}, Same(Stored \ X),
           captures'[id].owner = o, captures'[id].size = size,
           bytes' = bytes - Total(X) + size,
           Cardinality(Stored \ X) < MaxEntries,
           bytes - Total(X) + size <= MaxBytes,
           Cardinality(OwnedBy(o) \ X) < MaxOwnerEntries,
           Total(OwnedBy(o) \ X) + size <= MaxOwnerBytes
    PROVE  /\ IsFiniteSet(Stored') /\ bytes' \in Nat
           /\ BytesAccounted' /\ WithinQuotas'
<1> DEFINE K == Stored \ X
<1>1. /\ bytes = SumOf(captures, Stored) /\ Stored \in SUBSET Stored
      /\ bytes' = bytes - SumOf(captures, X) + size /\ bytes' <= MaxBytes
      /\ SumOf(captures, OwnedBy(o) \ X) + size <= MaxOwnerBytes
      /\ size \in Nat
  BY Sums, TotalIsSum, QuotaAssumption
<1>2. /\ Sized(captures, K) /\ SumOf(captures, X) \in Nat
      /\ SumOf(captures, K) \in Nat /\ Cardinality(K) \in Nat
      /\ SumOf(captures, Stored) = SumOf(captures, X) + SumOf(captures, K)
  BY <1>1, Part
<1>3. ASSUME NEW S \in SUBSET K
      PROVE  /\ Sized(captures', S) /\ SumOf(captures', S) = SumOf(captures, S)
             /\ SumOf(captures, S) \in Nat /\ Cardinality(S) \in Nat
  <2>1. /\ Sized(captures, S)
        /\ SumOf(captures, S) \in Nat /\ Cardinality(S) \in Nat
    BY <1>3, Part, S \in SUBSET Stored, S \in SUBSET S
  <2>2. \A x \in S : captures'[x].size = captures[x].size
    BY DEF Same
  <2> QED
    BY <2>1, <2>2, SumSame
<1>4. ASSUME NEW S \in SUBSET K
      PROVE  /\ IsFiniteSet(S \cup {id})
             /\ SumOf(captures', S \cup {id}) = SumOf(captures, S) + size
             /\ Cardinality(S \cup {id}) = Cardinality(S) + 1
  <2>1. id \notin S /\ captures'[id].size \in Nat
    BY <1>1
  <2>2. /\ Sized(captures', S \cup {id})
        /\ SumOf(captures', S \cup {id}) =
              SumOf(captures', S) + captures'[id].size
    BY <1>3, <2>1, SumGrows
  <2>3. Cardinality(S \cup {id}) = Cardinality(S) + 1
    BY <1>3, <2>1, FS_AddElement DEF Sized
  <2> QED
    BY <1>3, <2>2, <2>3 DEF Sized
<1>5. /\ IsFiniteSet(Stored') /\ Cardinality(Stored') = Cardinality(K) + 1
      /\ SumOf(captures', Stored') = SumOf(captures, K) + size
  BY <1>4, K \in SUBSET K
<1>6. /\ bytes' = SumOf(captures', Stored') /\ bytes' \in Nat
      /\ bytes' <= MaxBytes /\ Cardinality(Stored') <= MaxEntries
  BY <1>1, <1>2, <1>5, QuotaAssumption
<1>7. ASSUME NEW u \in Owners
      PROVE  /\ Cardinality(OwnedBy(u)') <= MaxOwnerEntries
             /\ SumOf(captures', OwnedBy(u)') <= MaxOwnerBytes
  <2> DEFINE O == OwnedBy(u)
             D == O \cap X
  <2>1. OwnedBy(u)' = IF u = o THEN (O \ D) \cup {id} ELSE O \ D
    BY DEF OwnedBy, Same
  <2>2. O \in SUBSET Stored /\ D \in SUBSET O /\ O \ D \in SUBSET K
    BY DEF OwnedBy
  <2>3. Cardinality(O) <= MaxOwnerEntries /\ SumOf(captures, O) <= MaxOwnerBytes
    BY Sums
  <2>4. O \ D = OwnedBy(u) \ X
    OBVIOUS
  <2> HIDE DEF O, D
  <2>5. /\ SumOf(captures, O) = SumOf(captures, D) + SumOf(captures, O \ D)
        /\ SumOf(captures, D) \in Nat /\ SumOf(captures, O \ D) \in Nat
        /\ Cardinality(O) \in Nat /\ Cardinality(O \ D) \in Nat
        /\ Cardinality(O \ D) <= Cardinality(O) /\ SumOf(captures, O) \in Nat
    BY <2>2, Part
  <2>6. CASE u # o
    <3>1. /\ Cardinality(O \ D) <= MaxOwnerEntries
          /\ SumOf(captures, O \ D) <= MaxOwnerBytes
      BY <2>3, <2>5, QuotaAssumption
    <3>2. SumOf(captures', O \ D) = SumOf(captures, O \ D)
      BY <1>3, <2>2
    <3> QED
      BY <2>1, <2>6, <3>1, <3>2
  <2>7. CASE u = o
    <3>1. /\ Cardinality(O \ D) < MaxOwnerEntries
          /\ SumOf(captures, O \ D) + size <= MaxOwnerBytes
      BY <1>1, <2>4, <2>7
    <3>2. /\ SumOf(captures', (O \ D) \cup {id}) = SumOf(captures, O \ D) + size
          /\ Cardinality((O \ D) \cup {id}) = Cardinality(O \ D) + 1
      BY <1>4, <2>2
    <3>3. /\ SumOf(captures', (O \ D) \cup {id}) <= MaxOwnerBytes
          /\ Cardinality((O \ D) \cup {id}) <= MaxOwnerEntries
      BY <2>5, <3>1, <3>2, QuotaAssumption
    <3> QED
      BY <2>1, <2>7, <3>3
  <2> QED
    BY <2>6, <2>7
<1> QED
  BY <1>5, <1>6, <1>7, TotalsNext DEF BytesAccounted, WithinQuotas

-----------------------------------------------------------------------------
(* The steps.                                                              *)

\* Reap, and Get, which also touches what it finds.
LEMMA ReapingStep ==
    ASSUME IndInv, Reap \/ \E p \in Clients : Get(p)
    PROVE  IndInv'
<1>1. TypeOK
  BY DEF IndInv
<1>2. ASSUME NEW R \in SUBSET Stored, captures' = Remove(R),
             bytes' = bytes - Total(R), clock' = clock,
             call' \in [Clients -> Calls]
      PROVE  IndInv'
  <2>1. Stored' = Stored \ R /\ \A x \in Stored \ R : captures'[x] = captures[x]
    BY <1>2 DEF Remove, Stored
  <2>2. Same(Stored \ R)
    BY <1>1, <2>1 DEF TypeOK, Same
  <2> QED
    BY <1>1, <1>2, <2>1, <2>2, LessIsSound DEF IndInv, TypeOK, Same
<1>3. CASE Reap
  <2>1. Expiring(clock) \in SUBSET Stored
    BY DEF Expiring
  <2> QED
    BY <1>1, <1>2, <1>3, <2>1 DEF Reap, TypeOK
<1>4. ASSUME NEW p \in Clients, Get(p)
      PROVE  IndInv'
  <2> DEFINE id == call[p].id
             R == Expiring(call[p].now)
  <2>1. /\ R \in SUBSET Stored /\ bytes' = bytes - Total(R) /\ clock' = clock
        /\ captures' = IF id \in OwnedBy(call[p].owner) \ R
                       THEN [Remove(R) EXCEPT ![id].last = call[p].now]
                       ELSE Remove(R)
    BY <1>4 DEF Get, Expiring
  <2>2. call' \in [Clients -> Calls] /\ call[p].now \in 0..MaxClock
    BY <1>1, <1>4 DEF Get, TypeOK, Calls, NoCall
  <2> HIDE DEF R
  <2>3. CASE id \in OwnedBy(call[p].owner) \ R
    <3> DEFINE e == [captures[id] EXCEPT !.last = call[p].now]
    <3>1. id \in Stored \ R
      BY <2>3 DEF OwnedBy
    <3>2. captures[id] \in Entry
      BY <1>1, <3>1 DEF TypeOK
    <3>3. /\ e \in Entry /\ e.size = captures[id].size
          /\ e.owner = captures[id].owner
      BY <2>2, <3>2 DEF Entry
    <3>4. captures' = [x \in Stored \ R |-> IF x = id THEN e ELSE captures[x]]
      BY <2>1, <2>3, <3>1 DEF Remove
    <3> HIDE DEF e, id
    <3>5. /\ Stored' = Stored \ R
          /\ \A x \in Stored \ R :
                captures'[x] = IF x = id THEN e ELSE captures[x]
      BY <3>4 DEF Stored
    <3>6. Same(Stored \ R)
      BY <1>1, <3>3, <3>5 DEF Same, TypeOK
    <3> QED
      BY <1>1, <2>1, <2>2, <3>5, <3>6, LessIsSound DEF IndInv, TypeOK, Same
  <2>4. CASE id \notin OwnedBy(call[p].owner) \ R
    BY <1>2, <2>1, <2>2, <2>4
  <2> QED
    BY <2>3, <2>4
<1> QED
  BY <1>3, <1>4

\* What Put does: it reaps R, evicts E for its owner and G for the store, and
\* inserts under id.
Puts(p, R, E, G, id) ==
    /\ R = Expiring(call[p].now)
    /\ E \subseteq OwnedBy(call[p].owner) \ R /\ G \subseteq Stored \ (R \cup E)
    /\ id \in Ids \ (Stored \ (R \cup E \cup G))
    /\ OwnerFits(call[p].owner, call[p].size, R \cup E)
    /\ StoreFits(call[p].size, R \cup E \cup G)
    /\ G # {} =>
          \E g \in G : ~StoreFits(call[p].size, R \cup E \cup (G \ {g}))
    /\ Stored' = (Stored \ (R \cup E \cup G)) \cup {id}
    /\ \A x \in Stored' :
          captures'[x] = IF x = id
                         THEN NewEntry(call[p].owner, call[p].size, call[p].now)
                         ELSE captures[x]
    /\ bytes' = bytes - Total(R \cup E \cup G) + call[p].size
    /\ call' = [call EXCEPT ![p] = NoCall] /\ clock' = clock
    /\ call[p].op = "put"

\* Put.
LEMMA PutDoes ==
    ASSUME NEW p \in Clients, Put(p)
    PROVE  \E R, E, G, id : Puts(p, R, E, G, id)
<1> DEFINE o == call[p].owner
           size == call[p].size
           R == Expiring(call[p].now)
<1>1. PICK E \in SUBSET (OwnedBy(o) \ R) :
         /\ Evicts(E, OwnedBy(o) \ R, LAMBDA X : OwnerFits(o, size, R \cup X))
         /\ \E G \in SUBSET (Stored \ (R \cup E)) :
               /\ Evicts(G, Stored \ (R \cup E),
                         LAMBDA X : StoreFits(size, R \cup E \cup X))
               /\ \E id \in Ids \ (Stored \ (R \cup E \cup G)) :
                     captures' = [x \in (Stored \ (R \cup E \cup G)) \cup {id}
                                    |-> IF x = id
                                        THEN NewEntry(o, size, call[p].now)
                                        ELSE captures[x]]
               /\ bytes' = bytes - Total(R \cup E \cup G) + size
  BY DEF Put
<1>2. PICK G \in SUBSET (Stored \ (R \cup E)) :
         /\ Evicts(G, Stored \ (R \cup E),
                   LAMBDA X : StoreFits(size, R \cup E \cup X))
         /\ \E id \in Ids \ (Stored \ (R \cup E \cup G)) :
               captures' = [x \in (Stored \ (R \cup E \cup G)) \cup {id}
                              |-> IF x = id
                                  THEN NewEntry(o, size, call[p].now)
                                  ELSE captures[x]]
         /\ bytes' = bytes - Total(R \cup E \cup G) + size
  BY <1>1
<1>3. PICK id \in Ids \ (Stored \ (R \cup E \cup G)) :
         captures' = [x \in (Stored \ (R \cup E \cup G)) \cup {id}
                        |-> IF x = id THEN NewEntry(o, size, call[p].now)
                            ELSE captures[x]]
  BY <1>2
<1>4. /\ call' = [call EXCEPT ![p] = NoCall] /\ clock' = clock
      /\ call[p].op = "put"
  BY DEF Put
<1>5. OwnerFits(o, size, R \cup E) /\ StoreFits(size, R \cup E \cup G)
  BY <1>1, <1>2 DEF Evicts
<1>6. G # {} => \E g \in G : ~StoreFits(size, R \cup E \cup (G \ {g}))
  BY <1>2 DEF Evicts
<1> HIDE DEF o, size, R
<1>7. /\ Stored' = (Stored \ (R \cup E \cup G)) \cup {id}
      /\ \A x \in Stored' :
            captures'[x] = IF x = id THEN NewEntry(o, size, call[p].now)
                           ELSE captures[x]
  BY <1>3 DEF Stored
<1>8. Puts(p, R, E, G, id)
  BY <1>1, <1>2, <1>3, <1>4, <1>5, <1>6, <1>7 DEF Puts, o, size, R
<1> QED
  BY <1>8

\* Put keeps the invariant.
LEMMA PutStep ==
    ASSUME IndInv, NEW p \in Clients, Put(p)
    PROVE  IndInv'
<1>1. TypeOK
  BY DEF IndInv
<1>2. PICK R, E, G, id : Puts(p, R, E, G, id)
  BY PutDoes
<1> DEFINE o == call[p].owner
           size == call[p].size
           X == R \cup E \cup G
<1>3. o \in Owners /\ size \in Sizes /\ call[p].now \in 0..MaxClock
  BY <1>1, <1>2 DEF Puts, TypeOK, Calls, NoCall
<1>4. /\ R \in SUBSET Stored /\ E \in SUBSET Stored /\ G \in SUBSET Stored
      /\ X \in SUBSET Stored /\ id \in Ids /\ id \notin Stored \ X
      /\ R \cup E \in SUBSET X
  BY <1>2 DEF Puts, Expiring, OwnedBy
<1>5. /\ Stored' = (Stored \ X) \cup {id}
      /\ \A x \in Stored' :
            captures'[x] = IF x = id THEN NewEntry(o, size, call[p].now)
                           ELSE captures[x]
      /\ bytes' = bytes - Total(X) + size
      /\ OwnerFits(o, size, R \cup E) /\ StoreFits(size, X)
      /\ call' = [call EXCEPT ![p] = NoCall] /\ clock' = clock
  BY <1>2 DEF Puts
<1> HIDE DEF o, size, X
<1>6. /\ NewEntry(o, size, call[p].now) \in Entry
      /\ NewEntry(o, size, call[p].now).owner = o
      /\ NewEntry(o, size, call[p].now).size = size
  BY <1>3 DEF NewEntry, Entry
<1>7. /\ \A x \in Stored' : captures'[x] \in Entry
      /\ Same(Stored \ X) /\ captures'[id].owner = o
      /\ captures'[id].size = size
  BY <1>1, <1>4, <1>5, <1>6 DEF TypeOK, Same
<1>8. /\ Cardinality(Stored \ X) < MaxEntries
      /\ bytes - Total(X) + size <= MaxBytes
  BY <1>5 DEF StoreFits
<1>9. /\ Cardinality(OwnedBy(o) \ X) < MaxOwnerEntries
      /\ Total(OwnedBy(o) \ X) + size <= MaxOwnerBytes
  <2> DEFINE A == OwnedBy(o) \ (R \cup E)
             D == A \cap X
  <2>1. /\ A \in SUBSET Stored /\ D \in SUBSET A
        /\ OwnedBy(o) \ X = A \ D
    BY <1>4 DEF OwnedBy
  <2>2. /\ Cardinality(A) < MaxOwnerEntries
        /\ SumOf(captures, A) + size <= MaxOwnerBytes
    BY <1>5, TotalIsSum DEF OwnerFits
  <2> HIDE DEF A, D
  <2>3. /\ SumOf(captures, A) = SumOf(captures, D) + SumOf(captures, A \ D)
        /\ SumOf(captures, D) \in Nat /\ SumOf(captures, A \ D) \in Nat
        /\ Cardinality(A) \in Nat /\ Cardinality(A \ D) \in Nat
        /\ Cardinality(A \ D) <= Cardinality(A)
    BY <2>1, Part
  <2>4. size \in Nat
    BY <1>3, QuotaAssumption
  <2>5. /\ Cardinality(A \ D) < MaxOwnerEntries
        /\ SumOf(captures, A \ D) + size <= MaxOwnerBytes
    BY <2>2, <2>3, <2>4, QuotaAssumption
  <2> QED
    BY <2>1, <2>5, TotalIsSum
<1>10. /\ IsFiniteSet(Stored') /\ bytes' \in Nat
       /\ BytesAccounted' /\ WithinQuotas'
  BY <1>3, <1>4, <1>5, <1>7, <1>8, <1>9, MoreIsSound
<1>11. Stored' \subseteq Ids /\ call' \in [Clients -> Calls]
  BY <1>1, <1>4, <1>5 DEF TypeOK, Calls
<1> QED
  BY <1>1, <1>5, <1>7, <1>10, <1>11 DEF IndInv, TypeOK

\* The steps that store and remove nothing.
LEMMA OutsideStep ==
    ASSUME IndInv, UNCHANGED <<captures, bytes>>,
           clock' \in 0..MaxClock, call' \in [Clients -> Calls]
    PROVE  IndInv'
<1>1. /\ Stored' = Stored /\ \A o \in Owners : OwnedBy(o)' = OwnedBy(o)
      /\ captures' = captures
  BY DEF Stored, OwnedBy
<1>2. BytesAccounted' /\ WithinQuotas'
  BY <1>1, TotalIsSum, TotalsNext DEF IndInv, BytesAccounted, WithinQuotas
<1> QED
  BY <1>1, <1>2 DEF IndInv, TypeOK

\* IndInv is inductive.
LEMMA IndInvNext ==
    ASSUME IndInv, [Next]_vars
    PROVE  IndInv'
<1>1. TypeOK
  BY DEF IndInv
<1>2. CASE Tick
  BY <1>1, <1>2, OutsideStep, QuotaAssumption DEF Tick, TypeOK
<1>3. ASSUME NEW p \in Clients, NEW o \in Owners, NEW size \in Sizes,
             BeginPut(p, o, size)
      PROVE  IndInv'
  <2>1. [op |-> "put", owner |-> o, size |-> size, now |-> clock] \in Calls
    BY <1>1 DEF TypeOK, Calls
  <2> QED
    BY <1>1, <1>3, <2>1, OutsideStep DEF BeginPut, TypeOK
<1>4. ASSUME NEW p \in Clients, NEW o \in Owners, NEW id \in Ids,
             BeginGet(p, o, id)
      PROVE  IndInv'
  <2>1. [op |-> "get", owner |-> o, id |-> id, now |-> clock] \in Calls
    BY <1>1 DEF TypeOK, Calls
  <2> QED
    BY <1>1, <1>4, <2>1, OutsideStep DEF BeginGet, TypeOK
<1>5. CASE UNCHANGED vars
  BY <1>1, <1>5, OutsideStep DEF vars, TypeOK
<1> QED
  BY <1>2, <1>3, <1>4, <1>5, ReapingStep, PutStep DEF Next

\* The running total is right, and no quota exceeded, in every state.
THEOREM StoreSound == Spec => []IndInv
<1>1. Init => IndInv
  <2> SUFFICES ASSUME Init PROVE IndInv
    OBVIOUS
  <2>1. /\ Stored = {} /\ IsFiniteSet({}) /\ Cardinality({}) = 0
        /\ \A o \in Owners : OwnedBy(o) = {}
    BY FS_EmptySet DEF Init, Stored, OwnedBy
  <2>2. SumOf(captures, {}) = 0
    <3>1. BytesOf(captures, {}) = {} /\ Sized(captures, {})
      BY <2>1 DEF BytesOf, Sized
    <3> QED
      BY <2>1, <3>1, SumIsBytes
  <2>3. BytesAccounted /\ WithinQuotas
    <3>1. Total({}) = 0 /\ bytes = 0
      BY <2>2, TotalIsSum DEF Init
    <3>2. /\ 0 <= MaxEntries /\ 0 <= MaxBytes
          /\ 0 <= MaxOwnerEntries /\ 0 <= MaxOwnerBytes
      BY QuotaAssumption
    <3> QED
      BY <2>1, <3>1, <3>2 DEF BytesAccounted, WithinQuotas
  <2>4. TypeOK
    BY <2>1, QuotaAssumption DEF Init, TypeOK, Calls
  <2> QED
    BY <2>1, <2>3, <2>4 DEF IndInv
<1> QED
  BY <1>1, IndInvNext, PTL DEF Spec

\* The running total equals what is stored.
THEOREM TotalIsRight == Spec => []BytesAccounted
<1>1. IndInv => BytesAccounted
  BY DEF IndInv
<1> QED
  BY <1>1, StoreSound, PTL

\* No order of requests exceeds a quota.
THEOREM QuotasHold == Spec => []WithinQuotas
<1>1. IndInv => WithinQuotas
  BY DEF IndInv
<1> QED
  BY <1>1, StoreSound, PTL

\* A request takes away a live capture of another owner only when the whole
\* store is out of room.
THEOREM OthersSpared == Spec => OthersEvictedOnlyWhenFull
<1>1. ASSUME IndInv, [Next]_vars, NEW p \in Clients, NEW id \in Ids,
             call[p].op = "put", call'[p] = NoCall,
             id \in Stored, captures[id].owner # call[p].owner,
             ~Expired(id, call[p].now),
             id \notin Stored' \/ captures'[id].owner # captures[id].owner
      PROVE  \/ Cardinality(Stored) >= MaxEntries
             \/ bytes + call[p].size > MaxBytes
  <2>1. TypeOK /\ call[p] # NoCall
    BY <1>1 DEF IndInv, NoCall
  <2>2. Put(p)
    <3>1. call' # call
      BY <1>1, <2>1
    <3>2. ASSUME NEW c \in Clients, c # p, call' = [call EXCEPT ![c] = NoCall]
          PROVE  FALSE
      BY <1>1, <2>1, <3>2 DEF TypeOK
    <3>3. ASSUME NEW c \in Clients, NEW r, r # NoCall, call[c] = NoCall,
                 call' = [call EXCEPT ![c] = r]
          PROVE  FALSE
      BY <1>1, <2>1, <3>3 DEF TypeOK
    <3>4. ~Get(p)
      BY <1>1 DEF Get
    <3>5. PICK c \in Clients : Put(c) \/ Get(c)
      <4>1. ~(Tick \/ Reap \/ UNCHANGED vars)
        BY <3>1 DEF Tick, Reap, vars
      <4>2. ASSUME NEW c \in Clients, NEW o \in Owners, NEW size \in Sizes
            PROVE  ~BeginPut(c, o, size)
        BY <3>3 DEF BeginPut, NoCall
      <4>3. ASSUME NEW c \in Clients, NEW o \in Owners, NEW i \in Ids
            PROVE  ~BeginGet(c, o, i)
        BY <3>3 DEF BeginGet, NoCall
      <4> QED
        BY <1>1, <4>1, <4>2, <4>3 DEF Next
    <3>6. c = p
      BY <3>2, <3>5 DEF Put, Get
    <3> QED
      BY <3>4, <3>5, <3>6
  <2>3. PICK R, E, G, new : Puts(p, R, E, G, new)
    BY <2>2, PutDoes
  <2>4. id \in G
    <3>1. id \notin R \cup E
      BY <1>1, <2>3 DEF Puts, Expiring, OwnedBy
    <3>2. ASSUME id \notin G
          PROVE  FALSE
      <4>1. id \in Stored' /\ id # new
        BY <1>1, <2>3, <3>1, <3>2 DEF Puts
      <4>2. captures'[id] = captures[id]
        BY <2>3, <4>1 DEF Puts
      <4> QED
        BY <1>1, <4>1, <4>2
    <3> QED
      BY <3>2
  <2>5. PICK g \in G : ~StoreFits(call[p].size, R \cup E \cup (G \ {g}))
    BY <2>3, <2>4 DEF Puts
  <2> DEFINE X == R \cup E \cup (G \ {g})
  <2>6. X \in SUBSET Stored
    BY <2>3 DEF Puts, Expiring, OwnedBy
  <2>7. \/ ~(Cardinality(Stored \ X) < MaxEntries)
        \/ ~(bytes - SumOf(captures, X) + call[p].size <= MaxBytes)
    BY <2>5, TotalIsSum DEF StoreFits
  <2>8. call[p].size \in Nat /\ bytes \in Nat
    BY <1>1, <2>1, QuotaAssumption DEF TypeOK, Calls, NoCall
  <2> HIDE DEF X
  <2>9. /\ SumOf(captures, X) \in Nat
        /\ Cardinality(Stored) \in Nat /\ Cardinality(Stored \ X) \in Nat
        /\ Cardinality(Stored \ X) <= Cardinality(Stored)
    BY <1>1, <2>6, Part, Stored \in SUBSET Stored
  <2> QED
    BY <2>7, <2>8, <2>9, QuotaAssumption
<1>2. IndInv /\ [Next]_vars =>
         [\A p \in Clients, id \in Ids :
             /\ call[p].op = "put" /\ call'[p] = NoCall
             /\ id \in Stored /\ captures[id].owner # call[p].owner
             /\ ~Expired(id, call[p].now)
             /\ id \notin Stored' \/ captures'[id].owner # captures[id].owner
             => \/ Cardinality(Stored) >= MaxEntries
                \/ bytes + call[p].size > MaxBytes]_vars
  BY <1>1
<1> QED
  BY <1>2, StoreSound, PTL DEF Spec, OthersEvictedOnlyWhenFull

=============================================================================
