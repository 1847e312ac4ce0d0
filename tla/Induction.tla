----------------------------- MODULE Induction ------------------------------
(***************************************************************************)
(* Induction over the natural numbers, and over finite sets, in the form   *)
(* the proofs of this project can cite: about a set instead of an operator.*)
(***************************************************************************)
EXTENDS Integers, Listing, FiniteSetTheorems, TLAPS

Smaller == {ss \in Nat \X Nat : ss[1] < ss[2]}

LEMMA SmallerIsWellFounded == IsWellFoundedOn(Smaller, Nat)
  BY NatLessThanWellFounded, Zenon DEF OpToRel, Smaller

LEMMA FirstNumbers ==
    ASSUME NEW n \in Nat
    PROVE  IsFiniteSet(1..n) /\ Cardinality(1..n) = n
<1>1. 1 \in Int /\ n \in Int
  OBVIOUS
<1>2. (IF 1 > n THEN 0 ELSE n - 1 + 1) = n
  OBVIOUS
<1> QED  BY <1>1, <1>2, FS_Interval

LEMMA PlacesParts ==
    ASSUME NEW T, NEW s \in Seq(T)
    PROVE  /\ Len(s) \in Nat /\ DOMAIN s = 1..Len(s) /\ DOMAIN s \in SUBSET Nat
           /\ IsFiniteSet(DOMAIN s) /\ \A i \in DOMAIN s : s[i] \in T
<1>1. Len(s) \in Nat /\ DOMAIN s = 1..Len(s) /\ \A i \in DOMAIN s : s[i] \in T
  OBVIOUS
<1>2. IsFiniteSet(DOMAIN s)
  BY <1>1, FirstNumbers
<1>3. DOMAIN s \in SUBSET Nat
  BY <1>1
<1> QED  BY <1>1, <1>2, <1>3

\* Every set of naturals has a least member.
LEMMA Least ==
    ASSUME NEW T \in SUBSET Nat, T # {}
    PROVE  \E x \in T : \A y \in T : x <= y
<1>1. PICK x \in T : \A y \in T : ~ (<<y, x>> \in Smaller)
  BY SmallerIsWellFounded, WFMin
<1>2. \A y \in T : x <= y
  <2>1. SUFFICES ASSUME NEW y \in T, ~(x <= y) PROVE FALSE
    OBVIOUS
  <2>2. y < x /\ <<y, x>> \in Nat \X Nat
    BY <2>1
  <2>3. <<y, x>> \in Smaller
    BY <2>2, <<y, x>>[1] = y, <<y, x>>[2] = x DEF Smaller
  <2> QED  BY <1>1, <2>3
<1> QED  BY <1>2

\* What holds of 0, and of n + 1 where it holds of n, holds of every natural.
LEMMA NatInductionSet ==
    ASSUME NEW S \in SUBSET Nat, 0 \in S, \A n \in S : n + 1 \in S
    PROVE  S = Nat
<1> SUFFICES ASSUME Nat \ S # {} PROVE FALSE
  OBVIOUS
<1>1. PICK x \in Nat \ S : \A y \in Nat \ S : x <= y
  BY Least
<1>2. x - 1 \in S
  BY <1>1
<1> QED  BY <1>1, <1>2

\* Of any finite set of naturals the next number that is free is soon found.
LEMMA FirstFreeExists ==
    ASSUME NEW taken \in SUBSET Nat, IsFiniteSet(taken)
    PROVE  \E n \in 1..(Cardinality(taken) + 1) : n \notin taken /\ 1..(n - 1) \subseteq taken
<1> DEFINE k == Cardinality(taken) + 1
           free == (1..k) \ taken
<1>1. Cardinality(taken) \in Nat
  BY FS_CardinalityType
<1>2. IsFiniteSet(1..k) /\ Cardinality(1..k) = k
  BY <1>1, FS_Interval
<1>3. ~(1..k \subseteq taken)
  BY <1>1, <1>2, FS_Subset
<1>4. PICK n \in free : \A m \in free : n <= m
  <2>1. free # {} /\ free \in SUBSET Nat
    BY <1>1, <1>3
  <2> HIDE DEF free
  <2> QED  BY <2>1, Least
<1>5. \A m \in 1..(n - 1) : m \in 1..k /\ ~(n <= m)
  BY <1>1, <1>4
<1> QED  BY <1>4, <1>5

-----------------------------------------------------------------------------
(* Ascending order.                                                        *)

LEMMA RankParts ==
    ASSUME NEW S \in SUBSET Nat, IsFiniteSet(S), NEW n \in Nat
    PROVE  /\ IsFiniteSet({m \in S : m <= n})
           /\ Rank(S, n) \in Nat /\ Rank(S, n) <= Cardinality(S) /\ Cardinality(S) \in Nat
           /\ Rank(S, n) = Cardinality(S) => S = {m \in S : m <= n}
<1>1. {m \in S : m <= n} \in SUBSET S
  OBVIOUS
<1> QED  BY <1>1, FS_Subset, FS_CardinalityType DEF Rank

\* A larger member has a larger rank.
LEMMA RankGrows ==
    ASSUME NEW S \in SUBSET Nat, IsFiniteSet(S), NEW m \in S, NEW n \in S, m < n
    PROVE  Rank(S, m) < Rank(S, n)
<1> DEFINE A == {k \in S : k <= m}
           B == {k \in S : k <= n}
<1>0. \A k \in S : k \in Nat
  OBVIOUS
<1>1. IsFiniteSet(B) /\ A \in SUBSET B /\ n \in B /\ n \notin A
  <2>1. IsFiniteSet(B)
    BY RankParts
  <2>2. \A k \in S : k <= m => k <= n
    BY <1>0
  <2>3. n <= n /\ ~(n <= m)
    BY <1>0
  <2> QED  BY <2>1, <2>2, <2>3
<1>2. Cardinality(A) <= Cardinality(B) /\ (Cardinality(B) = Cardinality(A) => B = A)
  <2> HIDE DEF A, B
  <2> QED  BY <1>1, FS_Subset
<1>3. Rank(S, m) = Cardinality(A) /\ Rank(S, n) = Cardinality(B)
  BY DEF Rank
<1>4. Rank(S, m) \in Nat /\ Rank(S, n) \in Nat
  BY RankParts
<1> HIDE DEF A, B
<1> QED  BY <1>1, <1>2, <1>3, <1>4

\* The member after one of rank k has rank k + 1.
LEMMA NextRank ==
    ASSUME NEW S \in SUBSET Nat, IsFiniteSet(S), NEW n \in S, Rank(S, n) < Cardinality(S)
    PROVE  \E m \in S : Rank(S, m) = Rank(S, n) + 1
<1> DEFINE A == {k \in S : k <= n}
           above == S \ A
<1>1. above # {} /\ above \in SUBSET Nat
  <2>1. A # S
    BY RankParts DEF Rank
  <2> QED  BY <2>1
<1>2. PICK m \in above : \A k \in above : m <= k
  <2> HIDE DEF above
  <2> QED  BY <1>1, Least
<1>3. {k \in S : k <= m} = A \cup {m}
  <2>1. m \in S /\ m \in Nat /\ n \in Nat /\ ~(m <= n)
    BY <1>2
  <2>2. ASSUME NEW k \in S PROVE k <= m <=> k \in A \/ k = m
    <3>1. k \in Nat
      OBVIOUS
    <3>2. CASE k <= n
      BY <2>1, <3>1, <3>2
    <3>3. CASE ~(k <= n)
      <4>1. k \in above /\ m <= k
        BY <1>2, <3>3
      <4> QED  BY <2>1, <3>1, <3>3, <4>1
    <3> QED  BY <3>2, <3>3
  <2> HIDE DEF A
  <2>3. A \subseteq S
    BY DEF A
  <2> QED  BY <2>1, <2>2, <2>3
<1>4. IsFiniteSet(A) /\ m \notin A
  BY <1>2, RankParts
<1>5. Cardinality(A \cup {m}) = Cardinality(A) + 1
  <2> HIDE DEF A
  <2> QED  BY <1>4, FS_AddElement
<1> QED  BY <1>2, <1>3, <1>5 DEF Rank

LEMMA EveryRank ==
    ASSUME NEW S \in SUBSET Nat, IsFiniteSet(S), NEW k \in 1..Cardinality(S)
    PROVE  \E n \in S : Rank(S, n) = k
<1> DEFINE T == {i \in Nat : i + 1 <= Cardinality(S) => \E n \in S : Rank(S, n) = i + 1}
<1>0. Cardinality(S) \in Nat /\ (Cardinality(S) = 0 <=> S = {})
  BY FS_CardinalityType, FS_EmptySet
<1>1. 0 \in T
  <2> SUFFICES ASSUME 1 <= Cardinality(S) PROVE \E n \in S : Rank(S, n) = 1
    OBVIOUS
  <2>1. PICK n \in S : \A m \in S : n <= m
    BY <1>0, Least
  <2>2. {m \in S : m <= n} = {n}
    <3>1. \A m \in S : m \in Nat /\ n \in Nat
      OBVIOUS
    <3>2. \A m \in S : m <= n <=> m = n
      BY <2>1, <3>1
    <3> QED  BY <3>2
  <2>3. Rank(S, n) = 1
    BY <2>2, FS_Singleton DEF Rank
  <2> QED  BY <2>3
<1>2. ASSUME NEW i \in T PROVE i + 1 \in T
  <2> SUFFICES ASSUME (i + 1) + 1 <= Cardinality(S) PROVE \E n \in S : Rank(S, n) = (i + 1) + 1
    BY <1>2
  <2>1. i \in Nat /\ i + 1 <= Cardinality(S)
    BY <1>0, <1>2
  <2>2. PICK n \in S : Rank(S, n) = i + 1
    BY <1>2, <2>1
  <2>3. Rank(S, n) < Cardinality(S)
    BY <1>0, <2>1, <2>2
  <2> QED  BY <2>2, <2>3, NextRank
<1>3. T = Nat
  <2> HIDE DEF T
  <2>1. T \in SUBSET Nat
    BY DEF T
  <2> QED  BY <1>1, <1>2, <2>1, NatInductionSet
<1>4. k - 1 \in Nat /\ (k - 1) + 1 = k /\ k <= Cardinality(S)
  BY <1>0
<1> QED  BY <1>3, <1>4

\* The rank of a member is its place in the ascending order.
LEMMA RankIsPlace ==
    ASSUME NEW S \in SUBSET Nat, IsFiniteSet(S)
    PROVE  /\ \A n \in S : Rank(S, n) \in 1..Cardinality(S)
           /\ \A k \in 1..Cardinality(S) : InOrder(S)[k] \in S /\ Rank(S, InOrder(S)[k]) = k
           /\ \A m, n \in S : Rank(S, m) = Rank(S, n) => m = n
<1> DEFINE c == Cardinality(S)
<1>0. c \in Nat
  BY FS_CardinalityType
<1>1. \A k \in 1..c : InOrder(S)[k] \in S /\ Rank(S, InOrder(S)[k]) = k
  BY EveryRank DEF InOrder
<1>3. \A n \in S : Rank(S, n) \in 1..c
  <2> SUFFICES ASSUME NEW n \in S PROVE Rank(S, n) \in 1..c
    OBVIOUS
  <2>1. Rank(S, n) \in Nat /\ Rank(S, n) <= c /\ IsFiniteSet({m \in S : m <= n})
    BY RankParts
  <2>2. {m \in S : m <= n} # {}
    OBVIOUS
  <2>3. Rank(S, n) # 0
    BY <2>1, <2>2, FS_EmptySet DEF Rank
  <2> QED  BY <1>0, <2>1, <2>3
<1>4. \A m, n \in S : Rank(S, m) = Rank(S, n) => m = n
  <2> SUFFICES ASSUME NEW m \in S, NEW n \in S, m # n PROVE Rank(S, m) # Rank(S, n)
    OBVIOUS
  <2>1. Rank(S, m) \in Nat /\ Rank(S, n) \in Nat
    BY RankParts
  <2>2. CASE m < n
    BY <2>1, <2>2, RankGrows
  <2>3. CASE n < m
    BY <2>1, <2>3, RankGrows
  <2> QED  BY <2>2, <2>3
<1> QED  BY <1>1, <1>3, <1>4

\* The ascending order of a finite set lists all its members, each once.
THEOREM InOrderLists ==
    ASSUME NEW S \in SUBSET Nat, IsFiniteSet(S)
    PROVE  /\ Cardinality(S) \in Nat
           /\ InOrder(S) \in [1..Cardinality(S) -> S]
           /\ \A n \in S : \E k \in 1..Cardinality(S) : InOrder(S)[k] = n
           /\ \A k, l \in 1..Cardinality(S) : k < l => InOrder(S)[k] < InOrder(S)[l]
<1> DEFINE c == Cardinality(S)
<1>0. c \in Nat
  BY FS_CardinalityType
<1>1. \A k \in 1..c : InOrder(S)[k] \in S /\ Rank(S, InOrder(S)[k]) = k
  BY RankIsPlace
<1>2. DOMAIN InOrder(S) = 1..c /\ InOrder(S) = [k \in 1..c |-> InOrder(S)[k]]
  BY DEF InOrder
<1>3. \A n \in S : Rank(S, n) \in 1..c
  BY RankIsPlace
<1>4. \A m, n \in S : Rank(S, m) = Rank(S, n) => m = n
  BY RankIsPlace
<1> HIDE DEF c
<1>5. \A n \in S : \E k \in 1..c : InOrder(S)[k] = n
  BY <1>1, <1>3, <1>4
<1>6. ASSUME NEW k \in 1..c, NEW l \in 1..c, k < l PROVE InOrder(S)[k] < InOrder(S)[l]
  <2> DEFINE m == InOrder(S)[k]
             n == InOrder(S)[l]
  <2>1. m \in S /\ n \in S /\ Rank(S, m) = k /\ Rank(S, n) = l /\ m \in Nat /\ n \in Nat
    BY <1>1
  <2> HIDE DEF m, n
  <2>2. ~(n < m)
    <3> SUFFICES ASSUME n < m PROVE FALSE
      OBVIOUS
    <3>1. l < k
      BY <2>1, RankGrows
    <3> QED  BY <1>0, <1>6, <3>1
  <2>3. n # m
    BY <1>0, <1>6, <2>1
  <2>4. m < n
    BY <2>1, <2>2, <2>3
  <2> QED  BY <2>4 DEF m, n
<1> QED  BY <1>0, <1>1, <1>2, <1>5, <1>6 DEF c

-----------------------------------------------------------------------------
(* Recursion: what is computed step by step from a first value.            *)

IsRun(f, T, first, step, n) ==
    /\ f \in [0..n -> T]
    /\ f[0] = first
    /\ \A i \in 1..n : f[i] = step[<<i, f[i - 1]>>]

LEMMA RunExists ==
    ASSUME NEW T, NEW first \in T, NEW step \in [Nat \X T -> T], NEW n \in Nat
    PROVE  \E f : IsRun(f, T, first, step, n)
<1> DEFINE S == {k \in Nat : \E f : IsRun(f, T, first, step, k)}
<1>1. 0 \in S
  <2> DEFINE f == [i \in 0..0 |-> first]
  <2>1. IsRun(f, T, first, step, 0)
    BY DEF IsRun
  <2> QED  BY <2>1
<1>2. ASSUME NEW k \in S PROVE k + 1 \in S
  <2>1. PICK f : IsRun(f, T, first, step, k)
    BY <1>2
  <2> DEFINE last == step[<<k + 1, f[k]>>]
             g == [i \in 0..(k + 1) |-> IF i = k + 1 THEN last ELSE f[i]]
  <2>2. k \in Nat /\ (k + 1) - 1 = k /\ k + 1 # 0
    BY <1>2
  <2>3. \A i \in 0..k : f[i] \in T
    BY <2>1 DEF IsRun
  <2>4. last \in T
    BY <2>2, <2>3
  <2>5. (\A i \in 0..k : g[i] = f[i]) /\ g[k + 1] = last
    BY <2>2
  <2> HIDE DEF last
  <2>6. g \in [0..(k + 1) -> T]
    BY <2>2, <2>3, <2>4
  <2> HIDE DEF g
  <2>7. g[0] = first
    BY <2>1, <2>2, <2>5 DEF IsRun
  <2>8. ASSUME NEW i \in 1..(k + 1) PROVE g[i] = step[<<i, g[i - 1]>>]
    <3>1. CASE i = k + 1
      BY <2>2, <2>5, <3>1 DEF last
    <3>2. CASE i # k + 1
      <4>1. i \in 1..k /\ i \in 0..k /\ i - 1 \in 0..k
        BY <2>2, <3>2
      <4> QED  BY <2>1, <2>5, <4>1 DEF IsRun
    <3> QED  BY <3>1, <3>2
  <2>9. IsRun(g, T, first, step, k + 1)
    BY <2>6, <2>7, <2>8 DEF IsRun
  <2> QED  BY <2>2, <2>9
<1> HIDE DEF S
<1>3. S = Nat
  <2>1. S \in SUBSET Nat
    BY DEF S
  <2> QED  BY <1>1, <1>2, <2>1, NatInductionSet
<1> QED  BY <1>3 DEF S

\* Step by step: what holds of 0, and of i where it holds of i - 1, holds up
\* to n.
LEMMA UpTo ==
    ASSUME NEW n \in Nat, NEW S \in SUBSET Nat, 0 \in S,
           \A i \in 1..n : i - 1 \in S => i \in S
    PROVE  0..n \subseteq S
<1> DEFINE R == {i \in Nat : i <= n => i \in S}
<1>1. 0 \in R
  OBVIOUS
<1>2. ASSUME NEW i \in R PROVE i + 1 \in R
  <2>1. CASE i + 1 <= n
    <3>1. i \in S /\ i + 1 \in 1..n /\ (i + 1) - 1 = i
      BY <1>2, <2>1
    <3> QED  BY <3>1
  <2>2. CASE ~(i + 1 <= n)
    BY <1>2, <2>2
  <2> QED  BY <2>1, <2>2
<1>3. R = Nat
  <2> HIDE DEF R
  <2>1. R \in SUBSET Nat
    BY DEF R
  <2> QED  BY <1>1, <1>2, <2>1, NatInductionSet
<1> QED  BY <1>3

\* What is true at first, and kept by every step, is true on the way.
LEMMA RunStays ==
    ASSUME NEW n \in Nat, NEW T, NEW f, f[0] \in T, \A i \in 1..n : f[i - 1] \in T => f[i] \in T
    PROVE  \A i \in 0..n : f[i] \in T
<1> DEFINE S == {i \in Nat : f[i] \in T}
<1>1. 0 \in S /\ \A i \in 1..n : i - 1 \in S => i \in S
  OBVIOUS
<1>2. 0..n \subseteq S
  <2>1. S \in SUBSET Nat
    OBVIOUS
  <2> HIDE DEF S
  <2> QED  BY <1>1, <2>1, UpTo
<1> QED  BY <1>2

-----------------------------------------------------------------------------
(* Places of a sequence.                                                   *)

\* First answers the least place, and 0 when there is none.
LEMMA FirstIsLeast ==
    ASSUME NEW P \in SUBSET (Nat \ {0})
    PROVE  /\ P = {} <=> First(P) = 0
           /\ P # {} => First(P) \in P /\ \A m \in P : First(P) <= m
<1>1. CASE P = {}
  BY <1>1 DEF First
<1>2. CASE P # {}
  <2>1. P \in SUBSET Nat
    OBVIOUS
  <2>2. \E n \in P : \A m \in P : n <= m
    BY <1>2, <2>1, Least
  <2>3. First(P) \in P /\ \A m \in P : First(P) <= m
    BY <1>2, <2>2 DEF First
  <2> QED  BY <1>2, <2>3
<1> QED  BY <1>1, <1>2

\* A part of a sequence: its elements stand at ascending places of the whole,
\* and none of the part is left out.
LEMMA PartOfSequence ==
    ASSUME NEW T, NEW st \in Seq(T), NEW P \in SUBSET (DOMAIN st)
    PROVE  /\ AtPlaces(st, P) \in Seq(T)
           /\ DOMAIN AtPlaces(st, P) = 1..Cardinality(P)
           /\ Len(AtPlaces(st, P)) = Cardinality(P)
           /\ \A k \in DOMAIN AtPlaces(st, P) :
                InOrder(P)[k] \in P /\ AtPlaces(st, P)[k] = st[InOrder(P)[k]]
           /\ \A k, l \in DOMAIN AtPlaces(st, P) : k # l => InOrder(P)[k] # InOrder(P)[l]
           /\ \A n \in P : \E k \in DOMAIN AtPlaces(st, P) : AtPlaces(st, P)[k] = st[n]
<1> DEFINE c == Cardinality(P)
           at == InOrder(P)
<1>1. Len(st) \in Nat /\ DOMAIN st = 1..Len(st) /\ \A n \in DOMAIN st : st[n] \in T
  OBVIOUS
<1>2. IsFiniteSet(P)
  <2>1. IsFiniteSet(1..Len(st))
    <3>1. 1 \in Int /\ Len(st) \in Int
      BY <1>1
    <3> QED  BY <3>1, FS_Interval
  <2> QED  BY <1>1, <2>1, FS_Subset
<1>3. P \in SUBSET Nat
  BY <1>1
<1>4. /\ c \in Nat
      /\ at \in [1..c -> P]
      /\ \A n \in P : \E k \in 1..c : at[k] = n
      /\ \A k, l \in 1..c : k < l => at[k] < at[l]
  BY <1>2, <1>3, InOrderLists
<1>5. AtPlaces(st, P) = [k \in 1..c |-> st[at[k]]]
  BY DEF AtPlaces
<1> HIDE DEF c, at
<1>6. \A k \in 1..c : at[k] \in P /\ st[at[k]] \in T /\ at[k] \in Nat
  BY <1>1, <1>3, <1>4
<1>7. AtPlaces(st, P) \in Seq(T) /\ DOMAIN AtPlaces(st, P) = 1..c /\ Len(AtPlaces(st, P)) = c
  BY <1>4, <1>5, <1>6
<1>8. \A k, l \in 1..c : k # l => at[k] # at[l]
  BY <1>4, <1>6
<1>9. \A k \in 1..c : AtPlaces(st, P)[k] = st[at[k]]
  BY <1>5
<1>10. \A n \in P : \E k \in 1..c : AtPlaces(st, P)[k] = st[n]
  BY <1>4, <1>9
<1> QED  BY <1>6, <1>7, <1>8, <1>9, <1>10 DEF c, at

-----------------------------------------------------------------------------
(* Counting.                                                               *)

\* A function that takes no value twice has as many values as arguments.
LEMMA AsManyValues ==
    ASSUME NEW S, IsFiniteSet(S), NEW f, \A x, y \in S : f[x] = f[y] => x = y
    PROVE  /\ IsFiniteSet({f[x] : x \in S})
           /\ Cardinality({f[x] : x \in S}) = Cardinality(S)
<1> DEFINE T == {f[x] : x \in S}
           g == [x \in S |-> f[x]]
<1>1. g \in [S -> T] /\ \A x \in S : g[x] = f[x]
  OBVIOUS
<1>2. \A t \in T : \E x \in S : g[x] = t
  OBVIOUS
<1> HIDE DEF g
<1>3. g \in Bijection(S, T)
  BY <1>1, <1>2 DEF Bijection, Injection, Surjection, IsInjective
<1>4. ExistsBijection(S, T)
  BY <1>3 DEF ExistsBijection
<1> QED  BY <1>4, FS_Bijection

\* The values of a function on a finite set are finitely many.
LEMMA ImageIsFinite ==
    ASSUME NEW S, IsFiniteSet(S), NEW f
    PROVE  IsFiniteSet({f[x] : x \in S})
<1> DEFINE T == {f[x] : x \in S}
           g == [x \in S |-> f[x]]
<1>1. g \in Surjection(S, T)
  BY DEF Surjection
<1> HIDE DEF g, T
<1> QED  BY <1>1, FS_Surjection DEF T

\* Of finitely many things in a strict order that leaves none incomparable,
\* one comes after all others.
LEMMA LastInOrder ==
    ASSUME NEW S, IsFiniteSet(S), S # {}, NEW R,
           \A x \in S : <<x, x>> \notin R,
           \A x, y \in S : x # y => <<x, y>> \in R \/ <<y, x>> \in R,
           \A x, y, z \in S : <<x, y>> \in R /\ <<y, z>> \in R => <<x, z>> \in R
    PROVE  \E x \in S : \A y \in S \ {x} : <<y, x>> \in R
<1> DEFINE below(x) == {y \in S : <<y, x>> \in R}
<1>1. ASSUME NEW x \in S
      PROVE  /\ IsFiniteSet(below(x)) /\ Cardinality(below(x)) \in Nat
             /\ Cardinality(below(x)) <= Cardinality(S) /\ Cardinality(S) \in Nat
  <2>1. below(x) \in SUBSET S
    OBVIOUS
  <2> HIDE DEF below
  <2> QED  BY <2>1, FS_Subset, FS_CardinalityType
<1> DEFINE U == {n \in Nat : \E x \in S : Cardinality(S) - Cardinality(below(x)) = n}
<1>2. U # {} /\ U \in SUBSET Nat
  <2>1. PICK x : x \in S
    OBVIOUS
  <2> HIDE DEF below
  <2>2. Cardinality(S) - Cardinality(below(x)) \in Nat
    BY <1>1, <2>1
  <2> QED  BY <2>1, <2>2
<1>3. PICK n \in U : \A m \in U : n <= m
  <2> HIDE DEF U
  <2> QED  BY <1>2, Least
<1>4. PICK x \in S : Cardinality(S) - Cardinality(below(x)) = n
  BY <1>3
<1>5. ASSUME NEW y \in S \ {x} PROVE <<y, x>> \in R
  <2> SUFFICES ASSUME <<y, x>> \notin R PROVE FALSE
    OBVIOUS
  <2>1. <<x, y>> \in R /\ x \notin below(x)
    OBVIOUS
  <2>2. below(x) \cup {x} \subseteq below(y)
    BY <2>1
  <2> HIDE DEF below
  <2>3. Cardinality(below(x) \cup {x}) = Cardinality(below(x)) + 1
    BY <1>1, <2>1, FS_AddElement
  <2>4. Cardinality(below(x) \cup {x}) <= Cardinality(below(y))
    BY <1>1, <2>2, FS_Subset
  <2>5. Cardinality(S) - Cardinality(below(y)) \in U
    BY <1>1
  <2>6. n <= Cardinality(S) - Cardinality(below(y))
    BY <1>3, <2>5
  <2> QED  BY <1>1, <1>4, <2>3, <2>4, <2>6
<1> QED  BY <1>5
=============================================================================
