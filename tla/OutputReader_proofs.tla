------------------------- MODULE OutputReader_proofs -------------------------
(***************************************************************************)
(* Proofs about OutputReader, for any output, any limits, contexts and     *)
(* match caps: following the cursor neither skips nor repeats, and an      *)
(* answer holds the lines around its matches, each once and in order.      *)
(***************************************************************************)
EXTENDS OutputReader, TLAPS, FiniteSetTheorems, SequenceTheorems

-----------------------------------------------------------------------------
(* Sequences of lines and characters.                                      *)

\* From(a, b) lists a, a + 1, ..., b - 1.
LEMMA FromLists ==
    ASSUME NEW a \in Nat, NEW b \in Nat
    PROVE  /\ From(a, b) \in Seq(Nat)
           /\ Len(From(a, b)) = Most(b - a, 0)
           /\ \A i \in 1 .. Len(From(a, b)) : From(a, b)[i] = a + i - 1
           /\ Increasing(From(a, b))
           /\ ToSet(From(a, b)) = a .. b - 1
<1> DEFINE n == Most(b - a, 0)
           s == From(a, b)
<1>1. n \in Nat /\ s = [i \in 1 .. n |-> a + i - 1]
  BY DEF Most, From
<1>2. s \in [1 .. n -> Nat]
  BY <1>1
<1>3. s \in Seq(Nat) /\ Len(s) = n /\ DOMAIN s = 1 .. n
  BY <1>1, <1>2, LenProperties
<1>4. \A i \in 1 .. n : s[i] = a + i - 1
  BY <1>1
<1>5. Increasing(s)
  BY <1>3, <1>4 DEF Increasing
<1>6. ToSet(s) = a .. b - 1
  <2>1. ASSUME NEW k \in a .. b - 1
        PROVE  k \in ToSet(s)
    <3>1. k - a + 1 \in 1 .. n
      BY <2>1 DEF Most
    <3>2. s[k - a + 1] = k
      BY <2>1, <3>1, <1>4
    <3> QED
      BY <3>1, <3>2, <1>3 DEF ToSet
  <2>2. ASSUME NEW i \in 1 .. n
        PROVE  s[i] \in a .. b - 1
    BY <1>4 DEF Most
  <2> QED
    BY <2>1, <2>2, <1>3 DEF ToSet
<1> QED
  BY <1>3, <1>4, <1>5, <1>6

\* Two consecutive pieces join.
LEMMA FromJoins ==
    ASSUME NEW a \in Nat, NEW b \in Nat, NEW c \in Nat, a <= b, b <= c
    PROVE  From(a, b) \o From(b, c) = From(a, c)
<1> DEFINE s == From(a, b)
           t == From(b, c)
           u == From(a, c)
<1>1. /\ s \in Seq(Nat) /\ Len(s) = Most(b - a, 0)
      /\ \A i \in 1 .. Len(s) : s[i] = a + i - 1
  BY FromLists
<1>2. /\ t \in Seq(Nat) /\ Len(t) = Most(c - b, 0)
      /\ \A i \in 1 .. Len(t) : t[i] = b + i - 1
  BY FromLists
<1>3. /\ u \in Seq(Nat) /\ Len(u) = Most(c - a, 0)
      /\ \A i \in 1 .. Len(u) : u[i] = a + i - 1
  BY FromLists
<1> HIDE DEF s, t, u
<1>4. Len(s) = b - a /\ Len(t) = c - b /\ Len(u) = c - a
  BY <1>1, <1>2, <1>3 DEF Most
<1>5a. /\ s \o t \in Seq(Nat) /\ Len(s \o t) = Len(s) + Len(t)
       /\ \A i \in 1 .. Len(s) + Len(t) : (s \o t)[i] =
              IF i <= Len(s) THEN s[i] ELSE t[i - Len(s)]
  BY <1>1, <1>2, ConcatProperties
<1>5b. Len(s) + Len(t) = c - a
  BY <1>4
<1>5. /\ Len(s \o t) = c - a
      /\ \A i \in 1 .. c - a : (s \o t)[i] =
             IF i <= b - a THEN s[i] ELSE t[i - (b - a)]
  BY <1>4, <1>5a, <1>5b
<1>6. ASSUME NEW i \in 1 .. c - a
      PROVE  (s \o t)[i] = u[i]
  <2>0. u[i] = a + i - 1
    BY <1>3, <1>4
  <2>1. CASE i <= b - a
    <3>1. i \in 1 .. b - a
      BY <2>1
    <3>2. s[i] = a + i - 1
      BY <1>1, <1>4, <3>1
    <3> QED
      BY <1>5, <2>0, <2>1, <3>2
  <2>2. CASE ~(i <= b - a)
    <3>1. i - (b - a) \in 1 .. c - b
      BY <2>2
    <3>2. t[i - (b - a)] = b + (i - (b - a)) - 1
      BY <1>2, <1>4, <3>1
    <3> QED
      BY <1>5, <2>0, <2>2, <3>2
  <2> QED
    BY <2>1, <2>2
<1>7. s \o t = u
  BY <1>3, <1>4, <1>5, <1>5a, <1>6, SeqEqual
<1> QED
  BY <1>7 DEF s, t, u

\* A concatenation has the elements of both.
LEMMA ConcatElements ==
    ASSUME NEW s \in Seq(Nat), NEW t \in Seq(Nat)
    PROVE  ToSet(s \o t) = ToSet(s) \cup ToSet(t)
<1>0. /\ Len(s) \in Nat /\ DOMAIN s = 1 .. Len(s)
      /\ Len(t) \in Nat /\ DOMAIN t = 1 .. Len(t)
  BY LenProperties
<1>1. /\ s \o t \in Seq(Nat) /\ DOMAIN (s \o t) = 1 .. Len(s) + Len(t)
      /\ \A i \in 1 .. Len(s) + Len(t) : (s \o t)[i] =
             IF i <= Len(s) THEN s[i] ELSE t[i - Len(s)]
  BY ConcatProperties, LenProperties
<1>2. \A i \in 1 .. Len(s) : s[i] \in ToSet(s)
  BY <1>0 DEF ToSet
<1>3. \A i \in 1 .. Len(t) : t[i] \in ToSet(t)
  BY <1>0 DEF ToSet
<1>4. ASSUME NEW i \in 1 .. Len(s) + Len(t)
      PROVE  (s \o t)[i] \in ToSet(s) \cup ToSet(t)
  <2>1. CASE i <= Len(s)
    BY <1>0, <1>1, <1>2, <2>1
  <2>2. CASE ~(i <= Len(s))
    <3>1. i - Len(s) \in 1 .. Len(t)
      BY <1>0, <2>2
    <3> QED
      BY <1>1, <1>3, <2>2, <3>1
  <2> QED
    BY <2>1, <2>2
<1>5. ASSUME NEW i \in 1 .. Len(s)
      PROVE  s[i] \in ToSet(s \o t)
  <2>1. i \in 1 .. Len(s) + Len(t) /\ (s \o t)[i] = s[i]
    BY <1>0, <1>1
  <2> QED
    BY <1>1, <2>1 DEF ToSet
<1>6. ASSUME NEW i \in 1 .. Len(t)
      PROVE  t[i] \in ToSet(s \o t)
  <2>1. /\ Len(s) + i \in 1 .. Len(s) + Len(t)
        /\ (s \o t)[Len(s) + i] = t[i]
    BY <1>0, <1>1
  <2> QED
    BY <1>1, <2>1 DEF ToSet
<1>7. ToSet(s \o t) = {(s \o t)[i] : i \in 1 .. Len(s) + Len(t)}
  BY <1>1 DEF ToSet
<1>8. ToSet(s) = {s[i] : i \in 1 .. Len(s)}
  BY <1>0 DEF ToSet
<1>9. ToSet(t) = {t[i] : i \in 1 .. Len(t)}
  BY <1>0 DEF ToSet
<1> QED
  BY <1>4, <1>5, <1>6, <1>7, <1>8, <1>9

\* An increasing sequence stays one when larger elements follow.
LEMMA ConcatIncreases ==
    ASSUME NEW s \in Seq(Nat), NEW t \in Seq(Nat),
           Increasing(s), Increasing(t),
           \A x \in ToSet(s), y \in ToSet(t) : x < y
    PROVE  /\ Increasing(s \o t)
           /\ ToSet(s \o t) = ToSet(s) \cup ToSet(t)
<1>0. /\ Len(s) \in Nat /\ DOMAIN s = 1 .. Len(s)
      /\ Len(t) \in Nat /\ DOMAIN t = 1 .. Len(t)
  BY LenProperties
<1>1. /\ s \o t \in Seq(Nat) /\ DOMAIN (s \o t) = 1 .. Len(s) + Len(t)
      /\ \A i \in 1 .. Len(s) + Len(t) : (s \o t)[i] =
             IF i <= Len(s) THEN s[i] ELSE t[i - Len(s)]
  BY ConcatProperties, LenProperties
<1>2. \A i \in 1 .. Len(s) : s[i] \in ToSet(s)
  BY <1>0 DEF ToSet
<1>3. \A i \in 1 .. Len(t) : t[i] \in ToSet(t)
  BY <1>0 DEF ToSet
<1>4. Increasing(s \o t)
  <2> SUFFICES ASSUME NEW i \in 1 .. Len(s) + Len(t),
                      NEW j \in 1 .. Len(s) + Len(t), i < j
               PROVE  (s \o t)[i] < (s \o t)[j]
    BY <1>1 DEF Increasing
  <2>1. CASE j <= Len(s)
    <3>1. i \in DOMAIN s /\ j \in DOMAIN s
      BY <1>0, <2>1
    <3>2. (s \o t)[i] = s[i] /\ (s \o t)[j] = s[j]
      BY <1>0, <1>1, <2>1
    <3> QED
      BY <3>1, <3>2 DEF Increasing
  <2>2. CASE i <= Len(s) /\ ~(j <= Len(s))
    <3>1. j - Len(s) \in 1 .. Len(t) /\ i \in 1 .. Len(s)
      BY <1>0, <2>2
    <3>2. (s \o t)[i] = s[i] /\ (s \o t)[j] = t[j - Len(s)]
      BY <1>0, <1>1, <2>2
    <3> QED
      BY <1>2, <1>3, <3>1, <3>2
  <2>3. CASE ~(i <= Len(s))
    <3>1. j - Len(s) \in 1 .. Len(t) /\ i - Len(s) \in 1 .. Len(t)
      BY <1>0, <2>3
    <3>2. (s \o t)[i] = t[i - Len(s)] /\ (s \o t)[j] = t[j - Len(s)]
      BY <1>0, <1>1, <2>3
    <3>3. i - Len(s) < j - Len(s)
      BY <1>0
    <3> QED
      BY <1>0, <3>1, <3>2, <3>3 DEF Increasing
  <2> QED
    BY <2>1, <2>2, <2>3
<1> QED
  BY <1>4, ConcatElements

\* One more element.
LEMMA AppendElements ==
    ASSUME NEW s \in Seq(Nat), NEW x \in Nat
    PROVE  ToSet(Append(s, x)) = ToSet(s) \cup {x}
<1>1. <<x>> \in Seq(Nat) /\ DOMAIN <<x>> = {1} /\ <<x>>[1] = x
  OBVIOUS
<1>2. ToSet(<<x>>) = {x}
  BY <1>1 DEF ToSet
<1>3. Append(s, x) = s \o <<x>>
  BY AppendIsConcat
<1> QED
  BY <1>1, <1>2, <1>3, ConcatElements

\* One more element that is larger than all before.
LEMMA AppendIncreases ==
    ASSUME NEW s \in Seq(Nat), NEW x \in Nat, Increasing(s),
           \A y \in ToSet(s) : y < x
    PROVE  /\ Increasing(Append(s, x))
           /\ ToSet(Append(s, x)) = ToSet(s) \cup {x}
<1>1. /\ <<x>> \in Seq(Nat) /\ DOMAIN <<x>> = {1} /\ <<x>>[1] = x
  OBVIOUS
<1>2. Increasing(<<x>>) /\ ToSet(<<x>>) = {x}
  BY <1>1 DEF Increasing, ToSet
<1>3. Append(s, x) = s \o <<x>>
  BY AppendIsConcat
<1>4. \A y \in ToSet(s), z \in ToSet(<<x>>) : y < z
  BY <1>2
<1>5. Increasing(s \o <<x>>) /\ ToSet(s \o <<x>>) = ToSet(s) \cup ToSet(<<x>>)
  BY <1>1, <1>2, <1>4, ConcatIncreases
<1> QED
  BY <1>2, <1>3, <1>5

-----------------------------------------------------------------------------
(* The lines around the matches.                                           *)

\* Around, of the parts of the answer it depends on.
Reach(f, x) == UNION {(k - x) .. (k + x) : k \in ToSet(f)}

\* An element of Reach is within x lines of one of f.
LEMMA ReachElements ==
    ASSUME NEW f \in Seq(Nat), NEW x \in Nat
    PROVE  /\ Reach(f, x) \subseteq Int /\ ToSet(f) \subseteq Nat
           /\ \A k \in Int : k \in Reach(f, x) <=>
                  \E g \in ToSet(f) : g - x <= k /\ k <= g + x
<1>1. ToSet(f) \subseteq Nat
  BY LenProperties DEF ToSet
<1>2. ASSUME NEW k, k \in Reach(f, x)
      PROVE  k \in Int /\ \E g \in ToSet(f) : g - x <= k /\ k <= g + x
  <2>1. PICK g \in ToSet(f) : k \in (g - x) .. (g + x)
    BY <1>2 DEF Reach
  <2> QED
    BY <1>1, <2>1
<1>3. ASSUME NEW k \in Int, NEW g \in ToSet(f), g - x <= k, k <= g + x
      PROVE  k \in Reach(f, x)
  <2>1. k \in (g - x) .. (g + x)
    BY <1>1, <1>3
  <2> QED
    BY <2>1 DEF Reach
<1> QED
  BY <1>1, <1>2, <1>3

\* What was written of n lines for the matches f before the line at reaches up
\* to last, the end of the context of one of them.
WrittenUpTo(last, c, f, x, at, n) ==
    /\ Increasing(c) /\ ToSet(c) = Reach(f, x) \cap (0 .. n - 1)
    /\ \A k \in ToSet(c) : k <= last
    /\ \A g \in ToSet(f) : g < at
    /\ last = -1 \/ \E g \in ToSet(f) : last = Least(g + x, n - 1)

\* A whole block: what was written for the earlier matches reaches up to last,
\* the end of the context of one of them, so that the block adds exactly what
\* is still missing of the lines around the new match.
LEMMA BlockCompletes ==
    ASSUME NEW n \in Nat, NEW at \in 0 .. n - 1, NEW x \in Nat,
           NEW last \in -1 .. n - 1,
           NEW c \in Seq(Nat), NEW f \in Seq(Nat),
           WrittenUpTo(last, c, f, x, at, n),
           NEW bs \in Nat, bs = Most(Most(at - x, 0), last + 1),
           NEW be \in Nat, be = Least(at + x + 1, n)
    PROVE  /\ c \o From(bs, be) \in Seq(Nat)
           /\ Increasing(c \o From(bs, be))
           /\ ToSet(c \o From(bs, be)) =
                 Reach(Append(f, at), x) \cap (0 .. n - 1)
           /\ \A k \in ToSet(c \o From(bs, be)) : k <= be - 1
<1>0. /\ Increasing(c) /\ ToSet(c) = Reach(f, x) \cap (0 .. n - 1)
      /\ \A k \in ToSet(c) : k <= last
      /\ \A g \in ToSet(f) : g < at
      /\ last = -1 \/ \E g \in ToSet(f) : last = Least(g + x, n - 1)
  BY DEF WrittenUpTo
<1>1. /\ be \in at + 1 .. n
      /\ last < bs /\ at - x <= bs /\ be <= at + x + 1
      /\ bs <= at \/ bs = last + 1
      /\ be - 1 = Least(at + x, n - 1)
  BY DEF Most, Least
<1>2. /\ From(bs, be) \in Seq(Nat) /\ Increasing(From(bs, be))
      /\ ToSet(From(bs, be)) = bs .. be - 1
  BY <1>0, <1>1, FromLists
<1>3. c \o From(bs, be) \in Seq(Nat)
  BY <1>0, <1>2, ConcatProperties
<1>4. ToSet(c) \subseteq Nat /\ ToSet(f) \subseteq Nat
  BY ReachElements
<1>5. ASSUME NEW k \in ToSet(c), NEW m \in ToSet(From(bs, be))
      PROVE  k < m
  <2>1. k \in Nat /\ k <= last /\ m \in bs .. be - 1
    BY <1>0, <1>2, <1>4
  <2> QED
    BY <1>0, <1>1, <2>1
<1>6. Increasing(c \o From(bs, be))
  BY <1>0, <1>2, <1>5, ConcatIncreases
<1>7. ToSet(c \o From(bs, be)) = ToSet(c) \cup (bs .. be - 1)
  <2> DEFINE d == From(bs, be)
  <2>1. d \in Seq(Nat) /\ ToSet(d) = bs .. be - 1
    BY <1>2
  <2> HIDE DEF d
  <2>2. ToSet(c \o d) = ToSet(c) \cup ToSet(d)
    BY <2>1, ConcatElements
  <2> QED
    BY <2>1, <2>2 DEF d
<1>8. Append(f, at) \in Seq(Nat) /\ ToSet(Append(f, at)) = ToSet(f) \cup {at}
  <2>1. at \in Nat
    OBVIOUS
  <2> QED
    BY <2>1, AppendElements, AppendProperties
<1>9. ASSUME NEW k \in 0 .. n - 1, at - x <= k, k <= last
      PROVE  k \in Reach(f, x)
  <2>1. PICK g \in ToSet(f) : last = Least(g + x, n - 1)
    BY <1>0, <1>9
  <2>2. g \in Nat /\ g < at
    BY <1>0, <2>1, ReachElements
  <2>3. g - x <= k /\ k <= g + x
    BY <1>0, <1>9, <2>1, <2>2 DEF Least
  <2>4. k \in Int
    OBVIOUS
  <2>5. k \in Reach(f, x) <=> \E h \in ToSet(f) : h - x <= k /\ k <= h + x
    BY <1>0, <2>4, ReachElements
  <2> QED
    BY <1>0, <2>1, <2>3, <2>5
<1>10. ASSUME NEW k \in 0 .. n - 1
       PROVE  k \in ToSet(c) \cup (bs .. be - 1) <=>
                  k \in Reach(Append(f, at), x)
  <2>0. k \in Int
    OBVIOUS
  <2>0a. /\ k \in Reach(f, x) <=>
                \E g \in ToSet(f) : g - x <= k /\ k <= g + x
         /\ k \in Reach(Append(f, at), x) <=>
                \E g \in ToSet(Append(f, at)) : g - x <= k /\ k <= g + x
    BY <1>0, <1>8, <2>0, ReachElements
  <2>1. k \in Reach(Append(f, at), x) <=>
            k \in Reach(f, x) \/ (at - x <= k /\ k <= at + x)
    BY <1>0, <1>8, <2>0a
  <2>2. ASSUME k \in bs .. be - 1
        PROVE  at - x <= k /\ k <= at + x
    <3>1. bs <= k /\ k <= be - 1
      BY <2>2
    <3>2. at - x <= bs /\ be <= at + x + 1 /\ at \in Nat
      BY <1>1
    <3>3. at - x <= k
      BY <2>0, <3>1, <3>2
    <3>4. PICK e \in Int : e = be - 1 /\ k <= e
      BY <3>1
    <3>5. PICK h \in Int : h = at + x /\ e <= h
      BY <3>2, <3>4
    <3>6. k <= h
      BY <2>0, <3>4, <3>5
    <3> QED
      BY <3>3, <3>5, <3>6
  <2>3. ASSUME at - x <= k, k <= at + x, ~(k <= last)
        PROVE  k \in bs .. be - 1
    BY <1>0, <2>3 DEF Most, Least
  <2> QED
    BY <1>0, <1>9, <2>1, <2>2, <2>3
<1>11. ASSUME NEW k \in bs .. be - 1
       PROVE  k \in 0 .. n - 1
  <2>1. bs <= k /\ k <= be - 1 /\ k \in Int
    OBVIOUS
  <2>2. 0 <= k
    BY <2>1
  <2>3. PICK e \in Int : e = be - 1 /\ k <= e
    BY <2>1
  <2>4. PICK m \in Int : m = n - 1 /\ e <= m
    BY <1>1, <2>3
  <2>5. k <= m
    BY <2>1, <2>3, <2>4
  <2> QED
    BY <2>1, <2>2, <2>4, <2>5
<1>12. ToSet(c) \subseteq 0 .. n - 1
  BY <1>0
<1>13. ToSet(c) \cup (bs .. be - 1) = Reach(Append(f, at), x) \cap (0 .. n - 1)
  BY <1>0, <1>10, <1>11, <1>12
<1>14. last <= be - 1
  <2>1. CASE last = -1
    BY <1>0, <1>1, <2>1
  <2>2. ASSUME NEW g \in ToSet(f), last = Least(g + x, n - 1)
        PROVE  last <= be - 1
    <3>1. g \in Nat /\ g < at
      BY <1>0, ReachElements
    <3> QED
      BY <1>0, <1>1, <2>2, <3>1 DEF Least
  <2> QED
    BY <1>0, <2>1, <2>2
<1>15. ASSUME NEW k \in ToSet(c) \cup (bs .. be - 1)
       PROVE  k <= be - 1
  <2>1. PICK e \in Int : e = be - 1 /\ last <= e
    BY <1>1, <1>14
  <2>2. ASSUME k \in ToSet(c)
        PROVE  k <= be - 1
    <3>1. k \in Int /\ k <= last
      BY <1>0, <1>4, <2>2
    <3>2. k <= e
      BY <2>1, <3>1
    <3> QED
      BY <2>1, <3>2
  <2>3. ASSUME k \in bs .. be - 1
        PROVE  k <= be - 1
    BY <2>3
  <2> QED
    BY <2>2, <2>3
<1> QED
  BY <1>0, <1>3, <1>6, <1>7, <1>13, <1>15

\* An answer's content, of the parts of the answer it depends on.
IsContext(c, f, x, cut, n) ==
    /\ Increasing(c)
    /\ cut => \E b \in 0 .. n :
                  ToSet(c) = {k \in Reach(f, x) \cap (0 .. n - 1) : k < b}
    /\ ~cut => ToSet(c) = Reach(f, x) \cap (0 .. n - 1)

\* A first block that is cut: its beginning, up to where the limit reaches.
LEMMA CutIsContext ==
    ASSUME NEW n \in Nat, NEW at \in 0 .. n - 1, NEW x \in Nat,
           NEW bs \in Nat, bs = Most(Most(at - x, 0), 0),
           NEW be \in Nat, be = Least(at + x + 1, n),
           NEW S \in SUBSET (bs .. be - 1)
    PROVE  /\ From(bs, bs + Cardinality(S)) \in Seq(Nat)
           /\ IsContext(From(bs, bs + Cardinality(S)), <<at>>, x, TRUE, n)
<1>1. /\ bs <= be - 1 /\ be - 1 \in Int
      /\ at - x <= bs /\ be <= at + x + 1 /\ be <= n
      /\ bs = 0 \/ bs = at - x
  <2>1. bs = Most(at - x, 0)
    BY DEF Most
  <2> QED
    BY <2>1 DEF Most, Least
<1>2. IsFiniteSet(bs .. be - 1) /\ Cardinality(bs .. be - 1) = be - bs
  <2>1. PICK e \in Int : e = be - 1
    BY <1>1
  <2>2. IsFiniteSet(bs .. e) /\ Cardinality(bs .. e) =
            IF bs > e THEN 0 ELSE e - bs + 1
    <3>1. bs \in Int
      OBVIOUS
    <3>2. /\ IsFiniteSet(bs .. e)
          /\ Cardinality(bs .. e) = IF bs > e THEN 0 ELSE e - bs + 1
      BY <3>1, FS_Interval, Zenon
    <3> QED
      BY <3>2
  <2> QED
    BY <1>1, <2>1, <2>2
<1>3. Cardinality(S) \in Nat /\ Cardinality(S) <= be - bs
  <2>1. IsFiniteSet(S) /\ Cardinality(S) <= Cardinality(bs .. be - 1)
    BY <1>2, FS_Subset
  <2> QED
    BY <1>2, <2>1, FS_CardinalityType
<1>4. PICK e \in Nat : e = bs + Cardinality(S) /\ e <= be
  BY <1>1, <1>3
<1>5. /\ From(bs, e) \in Seq(Nat)
      /\ Increasing(From(bs, e))
      /\ ToSet(From(bs, e)) = bs .. e - 1
  BY FromLists
<1>6. <<at>> \in Seq(Nat) /\ ToSet(<<at>>) = {at}
  <2>1. DOMAIN <<at>> = {1} /\ <<at>>[1] = at /\ <<at>> \in Seq(Nat)
    OBVIOUS
  <2> QED
    BY <2>1 DEF ToSet
<1>7. ASSUME NEW k \in bs .. e - 1
      PROVE  k \in Reach(<<at>>, x) /\ k \in 0 .. n - 1 /\ k < e
  <2>1. k \in Int /\ at - x <= k /\ k <= at + x
    BY <1>1, <1>4
  <2>2. k \in 0 .. n - 1 /\ k < e
    BY <1>1, <1>4
  <2> QED
    BY <1>6, <2>1, <2>2, ReachElements
<1>8. ASSUME NEW k \in 0 .. n - 1, k \in Reach(<<at>>, x), k < e
      PROVE  k \in bs .. e - 1
  <2>1. k \in Int /\ at - x <= k
    BY <1>6, <1>8, ReachElements
  <2> QED
    BY <1>1, <1>4, <1>8, <2>1
<1>9. e \in 0 .. n
  BY <1>1, <1>4
<1>10. bs .. e - 1 = {k \in Reach(<<at>>, x) \cap (0 .. n - 1) : k < e}
  BY <1>7, <1>8
<1> QED
  BY <1>4, <1>5, <1>9, <1>10 DEF IsContext

-----------------------------------------------------------------------------
(* The invariant.                                                          *)

\* Of what was written of an answer only Width knows; it is any value here.
AnswerType ==
    [limit : Limits \cup {1}, context : Nat, cap : Nat, at : Nat,
     written : {res.written}, last : Int, found : Seq(Nat),
     content : Seq(Nat), truncated : BOOLEAN]

StateType ==
    /\ lines \in Seq([size : Lengths, hit : BOOLEAN])
    /\ chars \in Nat /\ cursor \in Nat /\ got \in Seq(Nat)
    /\ mode \in {"page", "tail", "search"}
    /\ pc \in {"ready", "loop", "done", "refused"}
    /\ res \in AnswerType

\* The cursor never passes the end.
InBounds ==
    /\ mode = "page" => cursor <= chars
    /\ mode = "search" => cursor <= Total
    /\ pc = "loop" => mode = "search" /\ res.at <= Total

\* What was written for the matches so far ends with the context of one.
UpToLast ==
    pc = "loop" =>
        /\ ~res.truncated
        /\ res.last \in -1 .. Total - 1
        /\ \A k \in ToSet(res.content) : k <= res.last
        /\ \A g \in ToSet(res.found) : g < res.at
        /\ \/ res.last = -1
           \/ \E g \in ToSet(res.found) :
                  res.last = Least(g + res.context, Total - 1)
        /\ res.found = <<>> <=> res.last = -1
        /\ res.found = <<>> => res.written = 0
        /\ res.limit \in Limits /\ res.context \in Contexts

\* Some request leaves no room for the line of a match at k.
NoRoom(k) == \E l \in Limits, x \in Contexts : ~Shows(k, l, x)

IndInv == /\ StateType /\ InBounds /\ UpToLast
          /\ CursorIsExact /\ ContentIsContext

\* The property, of the parts of the answer it depends on.
LEMMA ContentIs ==
    ContentIsContext <=> IsContext(res.content, res.found, res.context,
                                   IsCut, Total)
  BY DEF ContentIsContext, IsContext, Around, Reach, Wanted

\* An empty answer.
LEMMA EmptyAnswer ==
    ASSUME NEW x, NEW n
    PROVE  IsContext(<<>>, <<>>, x, FALSE, n) /\ ToSet(<<>>) = {}
<1>1. DOMAIN <<>> = {}
  OBVIOUS
<1>2. ToSet(<<>>) = {} /\ Increasing(<<>>)
  BY <1>1 DEF ToSet, Increasing
<1>3. Reach(<<>>, x) = {}
  BY <1>2 DEF Reach
<1> QED
  BY <1>2, <1>3 DEF IsContext

\* An output has a number of lines.
LEMMA TotalType == StateType => Total \in Nat
  BY LenProperties DEF StateType, Total

\* Nothing is read at the start.
LEMMA InitInv == Init => IndInv
<1> SUFFICES ASSUME Init
             PROVE  IndInv
  OBVIOUS
<1>1. lines \in Seq([size : Lengths, hit : BOOLEAN])
  <2> DEFINE S == [size : Lengths, hit : BOOLEAN]
  <2> HIDE DEF S
  <2>1. <<>> \in Seq(S)
    BY EmptySeq
  <2>2. ASSUME lines \in BoundedSeq(S, MaxLines)
        PROVE  lines \in Seq(S)
    <3>1. PICK m \in 0 .. MaxLines : lines \in [1 .. m -> S]
      BY <2>2 DEF BoundedSeq, SeqOf
    <3>2. m \in Nat
      BY <3>1, SizesAssumption
    <3> QED
      BY <3>1, <3>2
  <2> QED
    BY <2>1, <2>2 DEF Init, S
<1>2. <<>> \in Seq(Nat) /\ ToSet(<<>>) = {}
  BY EmptySeq, EmptyAnswer
<1>3. /\ res = Nothing /\ got = <<>> /\ cursor = 0 /\ pc = "ready"
      /\ mode \in {"page", "tail", "search"}
  BY DEF Init
<1>4. StateType
  <2>1. chars \in Nat
    BY SizesAssumption DEF Init
  <2>2. res \in AnswerType
    BY <1>2, <1>3 DEF AnswerType, Nothing
  <2> QED
    BY <1>1, <1>2, <1>3, <2>1, <2>2 DEF StateType
<1>5. InBounds /\ UpToLast
  BY <1>3, <1>4, TotalType DEF InBounds, UpToLast, StateType
<1>6. CursorIsExact
  <2>1. Searched = 0 /\ {k \in 0 .. Searched - 1 : Line(k).hit} = {}
    BY <1>3 DEF Searched
  <2>2. Increasing(got) /\ ToSet(got) = {}
    BY <1>3, EmptyAnswer DEF IsContext
  <2>3. From(0, 0) = <<>>
    <3>1. From(0, 0) \in Seq(Nat) /\ Len(From(0, 0)) = 0
      BY FromLists DEF Most
    <3> QED
      BY <3>1, <1>2, SeqEqual
  <2> QED
    BY <1>3, <2>1, <2>2, <2>3 DEF CursorIsExact
<1>7. ContentIsContext
  <2>1. res.content = <<>> /\ res.found = <<>> /\ IsCut = FALSE
    BY <1>3 DEF Nothing, IsCut
  <2> QED
    BY <2>1, ContentIs, EmptyAnswer
<1> QED
  BY <1>4, <1>5, <1>6, <1>7 DEF IndInv

\* A step that leaves the answer and the search alone keeps what is known of
\* them.
LEMMA AnswerStays ==
    ASSUME IndInv, UNCHANGED <<lines, mode, res>>, pc # "loop", pc' # "loop"
    PROVE  UpToLast' /\ ContentIsContext'
<1>1. UpToLast'
  BY DEF UpToLast
<1>2. ContentIsContext'
  BY DEF IndInv, ContentIsContext, Around, Wanted, IsCut, Total
<1> QED
  BY <1>1, <1>2

\* A page is the next characters, up to the end.
LEMMA PageReadKeeps ==
    ASSUME IndInv, NEW l \in Limits, PageRead(l)
    PROVE  IndInv'
<1>0. l \in Nat /\ chars \in Nat /\ cursor \in Nat /\ cursor <= chars
  BY SizesAssumption DEF IndInv, StateType, InBounds, PageRead
<1> DEFINE start == Least(cursor, chars)
           end == Least(start + l, chars)
<1>1. start = cursor /\ end \in Nat /\ start <= end /\ end <= chars
  BY <1>0 DEF Least
<1>2. /\ got' = got \o From(start, end) /\ cursor' = end
      /\ pc' \in {"done", "ready"} /\ pc = "ready" /\ mode = "page"
      /\ UNCHANGED <<lines, chars, mode, held, shown, res>>
  BY DEF PageRead
<1> HIDE DEF start, end
<1>3. got = From(0, cursor)
  BY <1>2 DEF IndInv, CursorIsExact
<1>4. got' = From(0, end) /\ got' \in Seq(Nat)
  <2>1. From(0, cursor) \o From(cursor, end) = From(0, end)
    <3>1. 0 \in Nat /\ 0 <= cursor /\ cursor <= end
      BY <1>0, <1>1
    <3> QED
      BY <1>0, <1>1, <3>1, FromJoins, Zenon
  <2>2. From(0, end) \in Seq(Nat)
    BY <1>1, FromLists
  <2> QED
    BY <1>1, <1>2, <1>3, <2>1, <2>2
<1>5. StateType' /\ InBounds'
  BY <1>1, <1>2, <1>4 DEF IndInv, StateType, AnswerType, InBounds
<1>6. CursorIsExact'
  BY <1>2, <1>4 DEF CursorIsExact
<1> QED
  BY <1>2, <1>5, <1>6, AnswerStays DEF IndInv

\* A tail is the last characters.
LEMMA TailReadKeeps ==
    ASSUME IndInv, NEW l \in Limits, TailRead(l)
    PROVE  IndInv'
<1>0. l \in Nat \ {0} /\ chars \in Nat
  BY SizesAssumption DEF IndInv, StateType
<1> DEFINE start == Most(chars - l, 0)
<1>1. start \in Nat /\ start <= chars /\ Least(start + l, chars) = chars
  BY <1>0 DEF Most, Least
<1>2. /\ got' = From(start, Least(start + l, chars)) /\ cursor' = chars
      /\ pc' = "done" /\ pc = "ready" /\ mode = "tail"
      /\ UNCHANGED <<lines, chars, mode, held, shown, res>>
  BY DEF TailRead
<1> HIDE DEF start
<1>3. got' = From(start, chars)
  BY <1>1, <1>2
<1>4. got' \in Seq(Nat) /\ Len(got') = Most(chars - start, 0)
  BY <1>0, <1>1, <1>3, FromLists
<1>5. chars - Len(got') = start
  BY <1>0, <1>1, <1>4 DEF Most
<1>6. StateType' /\ InBounds'
  BY <1>0, <1>2, <1>4 DEF IndInv, StateType, AnswerType, InBounds
<1>7. CursorIsExact'
  BY <1>2, <1>3, <1>5 DEF CursorIsExact
<1> QED
  BY <1>2, <1>6, <1>7, AnswerStays DEF IndInv

-----------------------------------------------------------------------------
(* The search.                                                             *)

\* A search starts where the last one left off, with an empty answer.
LEMMA SearchKeeps ==
    ASSUME IndInv, NEW l \in Limits, NEW x \in Contexts, NEW m \in MatchCaps,
           Search(l, x, m)
    PROVE  IndInv'
<1>1. /\ pc' = "loop" /\ pc = "ready" /\ mode = "search"
      /\ UNCHANGED <<lines, chars, mode, held, cursor, got, shown>>
      /\ res' = [Nothing EXCEPT !.limit = l, !.context = x, !.cap = m,
                                !.at = Least(cursor, Total)]
  BY DEF Search
<1>2. /\ cursor \in Nat /\ Total \in Nat /\ cursor <= Total
      /\ x \in Nat /\ m \in Nat /\ <<>> \in Seq(Nat)
  BY <1>1, TotalType, SizesAssumption, EmptySeq DEF IndInv, StateType, InBounds
<1>3. Least(cursor, Total) = cursor
  BY <1>2 DEF Least
<1>4. /\ res'.at = cursor /\ res'.last = -1 /\ res'.found = <<>>
      /\ res'.content = <<>> /\ res'.truncated = FALSE /\ res'.context = x
      /\ res'.written = 0 /\ res'.limit = l
  BY <1>1, <1>3 DEF Nothing
<1>5. res' \in [limit : Limits \cup {1}, context : Nat, cap : Nat, at : Nat,
                written : {res'.written}, last : Int, found : Seq(Nat),
                content : Seq(Nat), truncated : BOOLEAN]
  <2>1. res' = [limit |-> l, context |-> x, cap |-> m, at |-> cursor,
                written |-> 0, last |-> -1, found |-> <<>>, content |-> <<>>,
                truncated |-> FALSE]
    BY <1>1, <1>3 DEF Nothing
  <2>2. res'.written = 0
    BY <2>1
  <2> QED
    BY <1>2, <2>1, <2>2
<1>6. StateType' /\ InBounds'
  BY <1>1, <1>2, <1>4, <1>5 DEF IndInv, StateType, AnswerType, InBounds, Total
<1>7. UpToLast'
  <2>1. ToSet(<<>>) = {} /\ Total' = Total
    BY <1>1, EmptyAnswer DEF Total
  <2> QED
    BY <1>2, <1>4, <2>1 DEF UpToLast
<1>8. CursorIsExact'
  <2>1. Searched = cursor /\ Searched' = cursor
    BY <1>1, <1>4 DEF Searched
  <2> QED
    BY <1>1, <2>1 DEF IndInv, CursorIsExact, Line, Shows, Width
<1>9. ContentIsContext'
  <2>1. IsContext(<<>>, <<>>, x, FALSE, Total)
    BY EmptyAnswer
  <2> QED
    BY <1>1, <1>4, <2>1
    DEF ContentIsContext, IsContext, Around, Reach, Wanted, IsCut, Total
<1> QED
  BY <1>6, <1>7, <1>8, <1>9 DEF IndInv

\* What is known at a line of the loop.
LEMMA LoopFacts ==
    ASSUME IndInv, pc = "loop"
    PROVE  /\ mode = "search" /\ Total \in Nat
           /\ res.at \in 0 .. Total /\ res.context \in Nat /\ res.cap \in Nat
           /\ res.last \in -1 .. Total - 1
           /\ res.found \in Seq(Nat) /\ res.content \in Seq(Nat)
           /\ got \in Seq(Nat) /\ Increasing(got)
           /\ ToSet(got) = {k \in 0 .. res.at - 1 : Line(k).hit}
           /\ ~res.truncated /\ Increasing(res.content)
           /\ ToSet(res.content) =
                 Reach(res.found, res.context) \cap (0 .. Total - 1)
           /\ \A k \in ToSet(res.content) : k <= res.last
           /\ \A g \in ToSet(res.found) : g < res.at
           /\ \/ res.last = -1
              \/ \E g \in ToSet(res.found) :
                     res.last = Least(g + res.context, Total - 1)
           /\ res.found = <<>> <=> res.last = -1
           /\ res.found = <<>> => res.written = 0
           /\ res.limit \in Limits /\ res.context \in Contexts
           /\ \A k \in ToSet(got) \ shown : NoRoom(k)
<1>1. mode = "search" /\ res.at <= Total /\ Total \in Nat
  BY TotalType DEF IndInv, InBounds
<1>2. /\ res.at \in Nat /\ res.context \in Nat /\ res.cap \in Nat
      /\ res.found \in Seq(Nat) /\ res.content \in Seq(Nat)
      /\ got \in Seq(Nat)
  BY DEF IndInv, StateType, AnswerType
<1>3. /\ Increasing(got)
      /\ ToSet(got) = {k \in 0 .. res.at - 1 : Line(k).hit}
      /\ \A k \in ToSet(got) \ shown : NoRoom(k)
  BY <1>1 DEF IndInv, CursorIsExact, Searched, NoRoom
<1>4. /\ ~res.truncated
      /\ res.last \in -1 .. Total - 1
      /\ \A k \in ToSet(res.content) : k <= res.last
      /\ \A g \in ToSet(res.found) : g < res.at
      /\ \/ res.last = -1
         \/ \E g \in ToSet(res.found) :
                res.last = Least(g + res.context, Total - 1)
      /\ res.found = <<>> <=> res.last = -1
      /\ res.found = <<>> => res.written = 0
      /\ res.limit \in Limits /\ res.context \in Contexts
  BY DEF IndInv, UpToLast
<1>5. /\ Increasing(res.content)
      /\ ToSet(res.content) =
             Reach(res.found, res.context) \cap (0 .. Total - 1)
  BY <1>1, <1>4 DEF IndInv, ContentIsContext, Around, Reach, Wanted, IsCut
<1> QED
  BY <1>1, <1>2, <1>3, <1>4, <1>5

\* The line of a match is added to what the agent has.
LEMMA MatchCounts ==
    ASSUME IndInv, InLoop, Line(res.at).hit, got' = Append(got, res.at),
           UNCHANGED <<lines, mode>>, Searched' = res.at + 1,
           \/ shown' = shown \cup {res.at}
           \/ UNCHANGED shown /\ NoRoom(res.at)
    PROVE  got' \in Seq(Nat) /\ CursorIsExact'
<1>0. pc = "loop" /\ res.at < Total
  BY DEF InLoop
<1>1. /\ mode = "search" /\ res.at \in Nat /\ got \in Seq(Nat)
      /\ Increasing(got)
      /\ ToSet(got) = {k \in 0 .. res.at - 1 : Line(k).hit}
      /\ \A k \in ToSet(got) \ shown : NoRoom(k)
  BY <1>0, LoopFacts
<1>2. \A y \in ToSet(got) : y < res.at
  BY <1>1
<1>3. /\ Increasing(got') /\ ToSet(got') = ToSet(got) \cup {res.at}
      /\ got' \in Seq(Nat)
  BY <1>1, <1>2, AppendIncreases, AppendElements, AppendProperties
<1>4. ToSet(got') = {k \in 0 .. (res.at + 1) - 1 : Line(k).hit}
  <2>1. ASSUME NEW k \in 0 .. (res.at + 1) - 1, k # res.at
        PROVE  k \in 0 .. res.at - 1
    BY <1>1, <2>1
  <2>2. /\ res.at \in 0 .. (res.at + 1) - 1
        /\ 0 .. res.at - 1 \subseteq 0 .. (res.at + 1) - 1
    BY <1>1
  <2> QED
    BY <1>1, <1>3, <2>1, <2>2
<1>5. ASSUME NEW k \in ToSet(got') \ shown'
      PROVE  \E l \in Limits, x \in Contexts : ~Shows(k, l, x)'
  <2>1. NoRoom(k)
    BY <1>1, <1>3
  <2> QED
    BY <2>1 DEF NoRoom, Shows, Width
<1> QED
  BY <1>1, <1>3, <1>4, <1>5 DEF CursorIsExact, Line

\* Nothing was found, and nothing more is known to be searched than the line
\* without a match, if any.
LEMMA NothingFound ==
    ASSUME IndInv, pc = "loop", UNCHANGED <<lines, mode, got, shown>>,
           \/ Searched' = res.at
           \/ res.at < Total /\ ~Line(res.at).hit /\ Searched' = res.at + 1
    PROVE  CursorIsExact'
<1>1. /\ mode = "search" /\ res.at \in Nat /\ Increasing(got)
      /\ ToSet(got) = {k \in 0 .. res.at - 1 : Line(k).hit}
      /\ \A k \in ToSet(got) \ shown : NoRoom(k)
  BY LoopFacts
<1>2. ASSUME ~Line(res.at).hit
      PROVE  ToSet(got) = {k \in 0 .. (res.at + 1) - 1 : Line(k).hit}
  <2>1. ASSUME NEW k \in 0 .. (res.at + 1) - 1, k # res.at
        PROVE  k \in 0 .. res.at - 1
    BY <1>1, <2>1
  <2>2. 0 .. res.at - 1 \subseteq 0 .. (res.at + 1) - 1
    BY <1>1
  <2> QED
    BY <1>1, <1>2, <2>1, <2>2
<1>3. ToSet(got) = {k \in 0 .. Searched' - 1 : Line(k).hit}
  BY <1>1, <1>2
<1>4. ASSUME NEW k \in ToSet(got) \ shown
      PROVE  \E l \in Limits, x \in Contexts : ~Shows(k, l, x)'
  BY <1>1, <1>4 DEF NoRoom, Shows, Width
<1> QED
  BY <1>1, <1>3, <1>4 DEF CursorIsExact, Line

\* A line without a match is passed.
LEMMA NoMatchKeeps ==
    ASSUME IndInv, NoMatch
    PROVE  IndInv'
<1>1. /\ pc = "loop" /\ res.at < Total /\ ~Line(res.at).hit
      /\ res' = [res EXCEPT !.at = res.at + 1]
      /\ UNCHANGED <<lines, chars, mode, held, pc, cursor, got, shown>>
  BY DEF NoMatch, InLoop
<1>2. res \in AnswerType /\ Total \in Nat /\ res.at \in Nat
  BY <1>1, LoopFacts DEF IndInv, StateType
<1>3. /\ res'.at = res.at + 1 /\ res'.last = res.last
      /\ res'.found = res.found /\ res'.content = res.content
      /\ res'.truncated = res.truncated /\ res'.context = res.context
      /\ res'.written = res.written /\ res'.limit = res.limit
  BY <1>1, <1>2 DEF AnswerType
<1>4. res' \in AnswerType /\ AnswerType' = AnswerType
  <2>1. AnswerType' = AnswerType
    BY <1>3 DEF AnswerType
  <2>2. res.at + 1 \in Nat
    BY <1>2
  <2>3. [res EXCEPT !.at = res.at + 1] \in AnswerType
    BY <1>2, <2>2 DEF AnswerType
  <2> QED
    BY <1>1, <2>1, <2>3
<1>5. StateType' /\ InBounds'
  BY <1>1, <1>2, <1>3, <1>4 DEF IndInv, StateType, InBounds, Total
<1>6. UpToLast'
  <2>1. \A g \in ToSet(res.found) : g < res.at + 1
    <3>1. /\ ToSet(res.found) \subseteq Nat
          /\ \A g \in ToSet(res.found) : g < res.at
      BY <1>1, LoopFacts, ReachElements
    <3> QED
      BY <1>2, <3>1
  <2> QED
    BY <1>1, <1>3, <2>1 DEF IndInv, UpToLast, Total
<1>7. CursorIsExact'
  <2>1. Searched' = res.at + 1
    BY <1>1, <1>3 DEF Searched
  <2> QED
    BY <1>1, <2>1, NothingFound
<1>8. ContentIsContext'
  BY <1>1, <1>3 DEF IndInv, ContentIsContext, Around, Wanted, IsCut, Total
<1> QED
  BY <1>5, <1>6, <1>7, <1>8 DEF IndInv

\* The search has been over every line.
LEMMA EndOfLinesKeeps ==
    ASSUME IndInv, EndOfLines
    PROVE  IndInv'
<1>1. /\ pc = "loop" /\ res.at = Total /\ cursor' = Total
      /\ pc' \in {"done", "ready"} /\ mode = "search" /\ Total \in Nat
      /\ UNCHANGED <<lines, chars, mode, held, got, shown, res>>
  BY LoopFacts DEF EndOfLines, Answer
<1>2. StateType' /\ InBounds' /\ UpToLast'
  BY <1>1 DEF IndInv, StateType, AnswerType, InBounds, UpToLast, Total
<1>3. CursorIsExact'
  <2>1. Searched' = res.at
    BY <1>1 DEF Searched
  <2> QED
    BY <1>1, <2>1, NothingFound
<1>4. ContentIsContext'
  BY <1>1 DEF IndInv, ContentIsContext, Around, Wanted, IsCut, Total
<1> QED
  BY <1>2, <1>3, <1>4 DEF IndInv

\* The block of the match is appended.
LEMMA MatchKeeps ==
    ASSUME IndInv, Match
    PROVE  IndInv'
<1> DEFINE at == res.at
           x == res.context
           n == Total
           bs == BlockStart
           be == BlockEnd
           c == res.content \o From(bs, be)
           f == Append(res.found, at)
           full == Len(res.found) + 1 >= res.cap
           w == res.written + Width(bs, be)
<1>1. /\ InLoop /\ pc = "loop" /\ at < n /\ Line(at).hit
      /\ got' = Append(got, at)
      /\ res' = [res EXCEPT !.content = c, !.written = w, !.found = f,
                            !.last = be - 1, !.truncated = full /\ at + 1 < n,
                            !.at = at + 1]
      /\ shown' = shown \cup {at}
      /\ UNCHANGED <<lines, chars, mode, held>>
  BY DEF Match, InLoop
<1>2. /\ mode = "search" /\ n \in Nat /\ at \in 0 .. n - 1 /\ x \in Nat
      /\ at \in Nat /\ res.last \in -1 .. n - 1
      /\ res.found \in Seq(Nat) /\ res.content \in Seq(Nat)
  <2>1. mode = "search" /\ n \in Nat /\ at \in 0 .. n /\ x \in Nat
    BY <1>1, LoopFacts
  <2>2. /\ res.last \in -1 .. n - 1
        /\ res.found \in Seq(Nat) /\ res.content \in Seq(Nat)
    BY <1>1, LoopFacts
  <2> QED
    BY <1>1, <2>1, <2>2
<1>3. IF full /\ at + 1 < n THEN Answer(at + 1)
      ELSE IF full THEN Answer(n) ELSE UNCHANGED <<pc, cursor>>
  BY DEF Match
<1>4. /\ cursor' \in {cursor, at + 1} /\ pc' \in {"loop", "ready", "done"}
      /\ pc' = "loop" => ~full
      /\ pc' # "loop" => cursor' = at + 1
  BY <1>1, <1>2, <1>3 DEF Answer
<1>5. /\ bs \in Nat /\ bs = Most(Most(at - x, 0), res.last + 1)
      /\ be \in Nat /\ be = Least(at + x + 1, n) /\ be - 1 \in -1 .. n - 1
      /\ be - 1 = Least(at + x, n - 1) /\ be - 1 # -1
  <2>1. /\ bs = Most(Most(at - x, 0), res.last + 1)
        /\ be = Least(at + x + 1, n)
    BY DEF BlockStart, BlockEnd
  <2> DEFINE l == res.last
  <2>2. l \in -1 .. n - 1
    BY <1>2
  <2> HIDE DEF at, x, n, bs, be, l
  <2>3. /\ Most(Most(at - x, 0), l + 1) \in Nat
        /\ Least(at + x + 1, n) \in Nat
        /\ Least(at + x + 1, n) - 1 \in -1 .. n - 1
        /\ Least(at + x + 1, n) - 1 = Least(at + x, n - 1)
        /\ Least(at + x + 1, n) - 1 # -1
    BY <1>2, <2>2 DEF Most, Least
  <2> QED
    BY <2>1, <2>3 DEF l
<1>6. /\ c \in Seq(Nat) /\ Increasing(c)
      /\ ToSet(c) = Reach(f, x) \cap (0 .. n - 1)
      /\ \A k \in ToSet(c) : k <= be - 1
  <2>1. /\ Increasing(res.content)
        /\ ToSet(res.content) = Reach(res.found, x) \cap (0 .. n - 1)
        /\ \A k \in ToSet(res.content) : k <= res.last
        /\ \A g \in ToSet(res.found) : g < at
        /\ \/ res.last = -1
           \/ \E g \in ToSet(res.found) : res.last = Least(g + x, n - 1)
    BY <1>1, LoopFacts
  <2> DEFINE l == res.last
             s == res.content
             t == res.found
  <2>2. WrittenUpTo(l, s, t, x, at, n)
    BY <2>1 DEF WrittenUpTo
  <2>3. /\ l \in -1 .. n - 1 /\ s \in Seq(Nat) /\ t \in Seq(Nat)
        /\ bs \in Nat /\ bs = Most(Most(at - x, 0), l + 1)
        /\ be \in Nat /\ be = Least(at + x + 1, n)
        /\ n \in Nat /\ at \in 0 .. n - 1 /\ x \in Nat
    BY <1>2, <1>5
  <2> HIDE DEF at, x, n, bs, be, l, s, t
  <2>4. /\ s \o From(bs, be) \in Seq(Nat)
        /\ Increasing(s \o From(bs, be))
        /\ ToSet(s \o From(bs, be)) = Reach(Append(t, at), x) \cap (0 .. n - 1)
        /\ \A k \in ToSet(s \o From(bs, be)) : k <= be - 1
    BY <2>2, <2>3, BlockCompletes, SMTT(30)
  <2> QED
    BY <2>4 DEF c, f, s, t
<1>7. f \in Seq(Nat) /\ f # <<>> /\ ToSet(f) = ToSet(res.found) \cup {at}
  <2> DEFINE t == res.found
  <2>1. t \in Seq(Nat)
    BY <1>2
  <2> HIDE DEF at, t
  <2>2. Append(t, at) \in Seq(Nat) /\ Append(t, at) # <<>>
    <3>1. at \in Nat
      BY <1>2
    <3> QED
      BY <2>1, <3>1, AppendProperties
  <2>3. ToSet(Append(t, at)) = ToSet(t) \cup {at}
    BY <1>2, <2>1, AppendElements
  <2> QED
    BY <2>2, <2>3 DEF f, t
<1>8. ToSet(res.found) \subseteq Nat /\ \A g \in ToSet(res.found) : g < at
  BY <1>1, <1>2, LoopFacts, ReachElements
<1>9. res \in AnswerType /\ (full /\ at + 1 < n) \in BOOLEAN
  BY DEF IndInv, StateType
<1> HIDE DEF at, x, n, bs, be, c, f, full, w
<1>10. /\ res'.at = at + 1 /\ res'.last = be - 1 /\ res'.found = f
       /\ res'.content = c /\ res'.truncated = (full /\ at + 1 < n)
       /\ res'.context = res.context /\ res'.written = w
       /\ res'.limit = res.limit
  BY <1>1, <1>9 DEF AnswerType
<1>11. res' \in AnswerType'
  <2>1. AnswerType' = [limit : Limits \cup {1}, context : Nat, cap : Nat,
                       at : Nat, written : {w}, last : Int,
                       found : Seq(Nat), content : Seq(Nat),
                       truncated : BOOLEAN]
    BY <1>10 DEF AnswerType
  <2>2. at + 1 \in Nat /\ be - 1 \in Int
    BY <1>2, <1>5
  <2> QED
    BY <1>1, <1>6, <1>7, <1>9, <2>1, <2>2 DEF AnswerType
<1>12. Total' = n /\ Total = n
  BY <1>1 DEF n, Total
<1>13. Searched' = at + 1
  BY <1>4, <1>10 DEF Searched
<1>14. got' \in Seq(Nat) /\ CursorIsExact'
  BY <1>1, <1>13, MatchCounts DEF at
<1>15. StateType'
  <2>1. cursor' \in Nat
    BY <1>2, <1>4 DEF IndInv, StateType
  <2> QED
    BY <1>1, <1>4, <1>11, <1>14, <2>1 DEF IndInv, StateType
<1>16. InBounds'
  <2>1. cursor' <= n
    BY <1>2, <1>4, <1>12 DEF IndInv, InBounds
  <2> QED
    BY <1>1, <1>2, <1>4, <1>10, <1>12, <2>1 DEF InBounds
<1>17. UpToLast'
  <2>1. \A g \in ToSet(f) : g < at + 1
    BY <1>2, <1>7, <1>8
  <2>2. at \in ToSet(f) /\ be - 1 = Least(at + res.context, n - 1)
    BY <1>5, <1>7 DEF x
  <2>3. pc = "loop" /\ res.limit \in Limits /\ res.context \in Contexts
    BY <1>1, LoopFacts
  <2> QED
    BY <1>4, <1>5, <1>6, <1>7, <1>10, <1>12, <2>1, <2>2, <2>3 DEF UpToLast
<1>18. ContentIsContext'
  <2>1. ToSet(c) = Reach(f, res.context) \cap (0 .. n - 1)
    BY <1>6 DEF x
  <2> QED
    BY <1>5, <1>6, <1>10, <1>12, <2>1
       DEF ContentIsContext, Around, Reach, Wanted, IsCut
<1> QED
  BY <1>14, <1>15, <1>16, <1>17, <1>18 DEF IndInv

\* Not even the first block fits.
LEMMA CutKeeps ==
    ASSUME IndInv, Cut
    PROVE  IndInv'
<1> DEFINE at == res.at
           x == res.context
           n == Total
           bs == BlockStart
           be == BlockEnd
           c == From(bs, bs + Cardinality(Reached))
<1>1. /\ InLoop /\ pc = "loop" /\ at < n /\ Line(at).hit
      /\ res.found = <<>>
      /\ got' = Append(got, at)
      /\ res' = [res EXCEPT !.content = c, !.written = res.limit,
                            !.found = <<at>>, !.truncated = TRUE]
      /\ Answer(at + 1)
      /\ shown' = IF at \in Reached THEN shown \cup {at} ELSE shown
      /\ UNCHANGED <<lines, chars, mode, held>>
  BY DEF Cut, InLoop
<1>2. /\ mode = "search" /\ n \in Nat /\ at \in 0 .. n - 1 /\ x \in Nat
      /\ at \in Nat /\ res.last = -1 /\ res.written = 0
      /\ res.limit \in Limits /\ x \in Contexts
  <2>1. /\ mode = "search" /\ n \in Nat /\ at \in 0 .. n /\ x \in Nat
        /\ res.last = -1 /\ res.written = 0
        /\ res.limit \in Limits /\ x \in Contexts
    BY <1>1, LoopFacts
  <2> QED
    BY <1>1, <2>1
<1>3. cursor' = at + 1 /\ pc' \in {"ready", "done"}
  BY <1>1 DEF Answer
<1>4. /\ bs \in Nat /\ bs = Most(Most(at - x, 0), 0)
      /\ be \in Nat /\ be = Least(at + x + 1, n)
  BY <1>2 DEF BlockStart, BlockEnd, Most, Least
<1>5. Reached \in SUBSET (bs .. be - 1)
  BY DEF Reached
<1>6. c \in Seq(Nat) /\ IsContext(c, <<at>>, x, TRUE, n)
  <2>1. /\ n \in Nat /\ at \in 0 .. n - 1 /\ x \in Nat
        /\ bs \in Nat /\ bs = Most(Most(at - x, 0), 0)
        /\ be \in Nat /\ be = Least(at + x + 1, n)
    BY <1>2, <1>4
  <2> HIDE DEF at, x, n, bs, be
  <2>2. PICK S \in SUBSET (bs .. be - 1) : S = Reached
    BY <1>5
  <2>3. /\ From(bs, bs + Cardinality(S)) \in Seq(Nat)
        /\ IsContext(From(bs, bs + Cardinality(S)), <<at>>, x, TRUE, n)
    BY <2>1, CutIsContext
  <2> QED
    BY <2>2, <2>3 DEF c
<1>7. <<at>> \in Seq(Nat) /\ <<at>> # <<>>
  BY <1>2
<1>7a. at \in Reached \/ NoRoom(at)
  <2>1. Remaining = res.limit
    <3>1. res.limit \in Nat /\ res.written = 0
      BY <1>2, SizesAssumption
    <3> QED
      BY <3>1 DEF Remaining
  <2>2. at \in bs .. be - 1
    BY <1>2, <1>4 DEF Most, Least
  <2>3. bs = Most(at - x, 0)
    BY <1>2, <1>4 DEF Most
  <2>4. at \in Reached \/ ~(Width(Most(at - x, 0), at) < res.limit)
    BY <2>1, <2>2, <2>3 DEF Reached
  <2> QED
    BY <1>2, <2>4 DEF NoRoom, Shows
<1>8. res \in AnswerType
  BY DEF IndInv, StateType
<1> HIDE DEF at, x, n, bs, be, c
<1>9. /\ res'.found = <<at>> /\ res'.content = c /\ res'.truncated = TRUE
      /\ res'.context = res.context /\ res'.written = res.limit
      /\ res'.at = res.at /\ res'.last = -1
  BY <1>1, <1>2, <1>8 DEF AnswerType
<1>10. res' \in AnswerType'
  <2>1. AnswerType' = [limit : Limits \cup {1}, context : Nat, cap : Nat,
                       at : Nat, written : {res.limit}, last : Int,
                       found : Seq(Nat), content : Seq(Nat),
                       truncated : BOOLEAN]
    BY <1>9 DEF AnswerType
  <2> QED
    BY <1>1, <1>6, <1>7, <1>8, <2>1 DEF AnswerType
<1>11. Total' = n /\ Total = n
  BY <1>1 DEF n, Total
<1>12. Searched' = at + 1
  BY <1>3 DEF Searched
<1>13. got' \in Seq(Nat) /\ CursorIsExact'
  <2>1. \/ shown' = shown \cup {at}
        \/ UNCHANGED shown /\ NoRoom(at)
    BY <1>1, <1>7a
  <2> QED
    BY <1>1, <1>12, <2>1, MatchCounts DEF at
<1>14. StateType'
  <2>1. cursor' \in Nat
    BY <1>2, <1>3
  <2> QED
    BY <1>1, <1>3, <1>10, <1>13, <2>1 DEF IndInv, StateType
<1>15. InBounds' /\ UpToLast'
  BY <1>1, <1>2, <1>3, <1>11 DEF InBounds, UpToLast
<1>16. ContentIsContext'
  <2>1. IsContext(c, <<at>>, res.context, TRUE, n)
    BY <1>6 DEF x
  <2>2. IsCut'
    BY <1>7, <1>9 DEF IsCut
  <2> QED
    BY <1>9, <1>11, <2>1, <2>2
       DEF ContentIsContext, IsContext, Around, Reach, Wanted
<1> QED
  BY <1>13, <1>14, <1>15, <1>16 DEF IndInv

\* A later block does not fit: the answer is as it was, and says so.
LEMMA FullKeeps ==
    ASSUME IndInv, Full
    PROVE  IndInv'
<1>1. /\ pc = "loop" /\ res.at < Total /\ res' = [res EXCEPT !.truncated = TRUE]
      /\ res.found # <<>> /\ Answer(res.at)
      /\ UNCHANGED <<lines, chars, mode, held, got, shown>>
  BY DEF Full, InLoop
<1>2. /\ mode = "search" /\ Total \in Nat /\ res.at \in Nat
      /\ cursor' = res.at /\ pc' \in {"ready", "done"}
  BY <1>1, LoopFacts DEF Answer
<1>3. res \in AnswerType
  BY DEF IndInv, StateType
<1>4. /\ res'.found = res.found /\ res'.content = res.content
      /\ res'.truncated = TRUE /\ res'.written = res.written
      /\ res'.context = res.context /\ res'.last = res.last
  BY <1>1, <1>3 DEF AnswerType
<1>5. res' \in AnswerType'
  <2>1. AnswerType' = AnswerType
    BY <1>4 DEF AnswerType
  <2> QED
    BY <1>1, <1>3, <2>1 DEF AnswerType
<1>6. StateType' /\ InBounds' /\ UpToLast'
  BY <1>1, <1>2, <1>5 DEF IndInv, StateType, InBounds, UpToLast, Total
<1>7. CursorIsExact'
  <2>1. Searched' = res.at
    BY <1>2 DEF Searched
  <2> QED
    BY <1>1, <2>1, NothingFound
<1>8. ContentIsContext'
  <2>1. /\ Increasing(res.content)
        /\ ToSet(res.content) =
              Reach(res.found, res.context) \cap (0 .. Total - 1)
        /\ res.last # -1
    BY <1>1, LoopFacts
  <2> QED
    BY <1>1, <1>4, <2>1
       DEF ContentIsContext, Around, Reach, Wanted, IsCut, Total
<1> QED
  BY <1>6, <1>7, <1>8 DEF IndInv

\* Every step keeps the invariant.
LEMMA NextInv == IndInv /\ [Next]_vars => IndInv'
<1> SUFFICES ASSUME IndInv, [Next]_vars
             PROVE  IndInv'
  OBVIOUS
<1>1. ASSUME UNCHANGED <<lines, chars, mode, pc, cursor, got, shown, res>>
      PROVE  IndInv'
  <2>1. StateType' /\ InBounds' /\ UpToLast'
    BY <1>1 DEF IndInv, StateType, AnswerType, InBounds, UpToLast, Total
  <2>2. CursorIsExact'
    BY <1>1 DEF IndInv, CursorIsExact, Searched, Line, Shows, Width
  <2>3. ContentIsContext'
    BY <1>1 DEF IndInv, ContentIsContext, Around, Wanted, IsCut, Total
  <2> QED
    BY <2>1, <2>2, <2>3 DEF IndInv
<1>2. CASE Withdraw \/ UNCHANGED vars
  BY <1>1, <1>2 DEF Withdraw, vars
<1>3. CASE Refused
  <2>1. /\ UNCHANGED <<lines, chars, mode, held, cursor, got, shown, res>>
        /\ pc = "ready" /\ pc' = "refused"
    BY <1>3 DEF Refused
  <2>2. StateType' /\ InBounds'
    BY <2>1 DEF IndInv, StateType, AnswerType, InBounds, Total
  <2>3. CursorIsExact'
    BY <2>1 DEF IndInv, CursorIsExact, Searched, Line, Shows, Width
  <2> QED
    BY <2>1, <2>2, <2>3, AnswerStays DEF IndInv
<1>4. ASSUME NEW l \in Limits, PageRead(l) \/ TailRead(l)
      PROVE  IndInv'
  BY <1>4, PageReadKeeps, TailReadKeeps
<1>5. ASSUME NEW l \in Limits, NEW x \in Contexts, NEW m \in MatchCaps,
             Search(l, x, m)
      PROVE  IndInv'
  BY <1>5, SearchKeeps
<1>6. CASE SearchLoop
  BY <1>6, NoMatchKeeps, MatchKeeps, CutKeeps, FullKeeps, EndOfLinesKeeps
     DEF SearchLoop
<1> QED
  BY <1>2, <1>3, <1>4, <1>5, <1>6 DEF Next, Read

\* The invariant holds in every state that reading reaches.
LEMMA Invariance == Spec => []IndInv
  BY InitInv, NextInv, PTL DEF Spec

\* Following the cursor skips nothing and repeats nothing, of characters or of
\* matching lines (capture.go:460-479, 519-562).
THEOREM CursorExact == Spec => []CursorIsExact
<1>1. IndInv => CursorIsExact
  BY DEF IndInv
<1> QED
  BY <1>1, Invariance, PTL

\* An answer holds each line once and in order, and exactly those around its
\* matches unless it is cut within its first block (capture.go:523-559).
THEOREM ContentExact == Spec => []ContentIsContext
<1>1. IndInv => ContentIsContext
  BY DEF IndInv
<1> QED
  BY <1>1, Invariance, PTL
=============================================================================
