--------------------------- MODULE AlgorithmProofs ---------------------------
(***************************************************************************)
(* Lemmas about sequences: induction and recursion on their length, sets   *)
(* listed in an order, sections put one after the other.  Then what        *)
(* RepoStatus promises a script, for all times and thresholds, what        *)
(* Windows and Screens promise the reader, for lists and terminals of all  *)
(* sizes, what DiffModel shows and extracts of any diff, Inspect says of   *)
(* any two records, Ranking finds and sorts among any rows, Versions       *)
(* groups of any matches.                                                  *)
(***************************************************************************)
EXTENDS RepoStatus, DiffModel, Inspect, Versions, Ranking, Screens, Arrange, SequencesExt, FiniteSetTheorems, WellFoundedInduction, TLAPS

-----------------------------------------------------------------------------
(* Induction, on sets of numbers.                                          *)

\* Induction up to n, for a set of numbers.
LEMMA Induction ==
  ASSUME NEW n \in Nat, NEW P, 0 \in P, \A i \in 0..(n - 1) : i \in P => i + 1 \in P
  PROVE  \A i \in 0..n : i \in P
  <1> DEFINE T == {i \in 0..n : i \notin P}
             R == OpToRel(<, Nat)
  <1> SUFFICES ASSUME T # {} PROVE FALSE
    OBVIOUS
  <1>1. PICK m \in T : \A y \in T : <<y, m>> \notin R
    <2>1. IsWellFoundedOn(R, Nat)
      BY NatLessThanWellFounded
    <2>2. T \subseteq Nat
      OBVIOUS
    <2> HIDE DEF R, T
    <2> QED BY ONLY <2>1, <2>2, T # {}, WFMin
  <1>2. \A y \in T : ~(y < m)
    <2>1. R = {ss \in Nat \X Nat : ss[1] < ss[2]}
      BY DEF OpToRel
    <2>2. T \subseteq Nat
      OBVIOUS
    <2> HIDE DEF R, T
    <2> QED BY ONLY <1>1, <2>1, <2>2
  <1>3. m \in 1..n /\ m \notin P
    OBVIOUS
  <1>4. m - 1 \in 0..(n - 1) /\ m - 1 \notin T
    BY <1>2, <1>3
  <1>5. m - 1 \in P
    BY <1>4
  <1> QED BY <1>3, <1>4, <1>5

\* A set of natural numbers has a least one.
LEMMA Least ==
  ASSUME NEW S \in SUBSET Nat, S # {}
  PROVE  \E k \in S : \A j \in S : k <= j
  <1> DEFINE R == OpToRel(<, Nat)
  <1>1. PICK k \in S : \A y \in S : <<y, k>> \notin R
    <2>1. IsWellFoundedOn(R, Nat)
      BY NatLessThanWellFounded
    <2> HIDE DEF R
    <2> QED BY ONLY <2>1, S \in SUBSET Nat, S # {}, WFMin
  <1>2. R = {ss \in Nat \X Nat : ss[1] < ss[2]}
    BY DEF OpToRel
  <1>3. \A j \in S : ~(j < k)
    <2> HIDE DEF R
    <2> QED BY ONLY <1>1, <1>2, S \in SUBSET Nat
  <1> QED BY ONLY <1>3, S \in SUBSET Nat

\* A function may be defined from each number to the next.
IsStep(step, n, V) == step \in [(1..n) \X V -> V]
Iterates(f, step, base, n, V) == f \in [0..n -> V] /\ f[0] = base /\ \A i \in 1..n : f[i] = step[<<i, f[i - 1]>>]

\* A function defined by recursion up to n exists.
LEMMA Recursion ==
  ASSUME NEW V, NEW base \in V, NEW n \in Nat, NEW step, IsStep(step, n, V)
  PROVE  \E f : Iterates(f, step, base, n, V)
  <1> USE DEF IsStep
  <1> DEFINE P == {m \in 0..n : \E f \in [0..m -> V] : f[0] = base /\ \A i \in 1..m : f[i] = step[<<i, f[i - 1]>>]}
  <1>1. 0 \in P
    <2> DEFINE f == [i \in 0..0 |-> base]
    <2>1. f \in [0..0 -> V] /\ f[0] = base
      OBVIOUS
    <2>2. \A i \in 1..0 : f[i] = step[<<i, f[i - 1]>>]
      OBVIOUS
    <2> HIDE DEF f
    <2> QED BY <2>1, <2>2
  <1>2. ASSUME NEW m \in 0..(n - 1), m \in P PROVE m + 1 \in P
    <2>1. PICK f \in [0..m -> V] : f[0] = base /\ \A i \in 1..m : f[i] = step[<<i, f[i - 1]>>]
      BY <1>2
    <2> DEFINE g == [i \in 0..(m + 1) |-> IF i = m + 1 THEN step[<<m + 1, f[m]>>] ELSE f[i]]
    <2>2. f[m] \in V /\ m + 1 \in 1..n
      OBVIOUS
    <2>3. step[<<m + 1, f[m]>>] \in V
      BY <2>2
    <2>4. g \in [0..(m + 1) -> V]
      BY <2>3
    <2>5. g[0] = base
      BY <2>1
    <2>6. ASSUME NEW i \in 1..(m + 1) PROVE g[i] = step[<<i, g[i - 1]>>]
      <3>1. CASE i = m + 1
        <4>1. g[i] = step[<<m + 1, f[m]>>] /\ g[i - 1] = f[m]
          BY <3>1
        <4> QED BY <3>1, <4>1
      <3>2. CASE i # m + 1
        <4>1. g[i] = f[i] /\ g[i - 1] = f[i - 1] /\ i \in 1..m
          BY <3>2
        <4> QED BY <4>1, <2>1
      <3> QED BY <3>1, <3>2
    <2> HIDE DEF g
    <2> QED BY <2>4, <2>5, <2>6
  <1> HIDE DEF P
  <1>3. \A i \in 0..n : i \in P
    BY ONLY <1>1, <1>2, n \in Nat, Induction
  <1>4. n \in P
    BY <1>3
  <1> QED BY <1>4 DEF P, Iterates

-----------------------------------------------------------------------------
(* Sorted rows.                                                            *)

\* The sequence has each member of S once.
Lists(s, S) == s \in Seq(S) /\ (\A i, j \in DOMAIN s : s[i] = s[j] => i = j) /\ (\A x \in S : \E i \in DOMAIN s : s[i] = x)

IsTotalOrder(R, S) ==
    /\ \A x \in S : <<x, x>> \notin R
    /\ \A x, y, z \in S : <<x, y>> \in R /\ <<y, z>> \in R => <<x, z>> \in R
    /\ \A x, y \in S : x = y \/ <<x, y>> \in R \/ <<y, x>> \in R

Before(R, S, x) == {y \in S : <<y, x>> \in R}

\* In a total order no two members have equally many before them, and for each
\* place there is one.
LEMMA Ranks ==
  ASSUME NEW S, IsFiniteSet(S), NEW R, IsTotalOrder(R, S)
  PROVE  /\ Cardinality(S) \in Nat
         /\ \A x \in S : Cardinality(Before(R, S, x)) \in 0..(Cardinality(S) - 1)
         /\ \A x, y \in S : Cardinality(Before(R, S, x)) = Cardinality(Before(R, S, y)) => x = y
         /\ \A i \in 0..(Cardinality(S) - 1) : \E x \in S : Cardinality(Before(R, S, x)) = i
  <1> DEFINE rank == [x \in S |-> Cardinality(Before(R, S, x))]
             n == Cardinality(S)
  <1>1. n \in Nat
    BY FS_CardinalityType
  <1>2. ASSUME NEW x \in S PROVE IsFiniteSet(Before(R, S, x)) /\ rank[x] \in 0..(n - 1)
    <2>1. Before(R, S, x) \in SUBSET (S \ {x})
      BY DEF Before, IsTotalOrder
    <2>2. IsFiniteSet(S \ {x}) /\ Cardinality(S \ {x}) = n - 1
      BY FS_RemoveElement
    <2>3. IsFiniteSet(Before(R, S, x)) /\ Cardinality(Before(R, S, x)) <= n - 1
      BY <2>1, <2>2, FS_Subset
    <2>4. Cardinality(Before(R, S, x)) \in Nat
      BY <2>3, FS_CardinalityType
    <2> QED BY <1>1, <2>3, <2>4
  <1>3. ASSUME NEW x \in S, NEW y \in S, <<x, y>> \in R PROVE rank[x] < rank[y]
    <2>1. Before(R, S, x) \cup {x} \in SUBSET Before(R, S, y)
      BY <1>3 DEF Before, IsTotalOrder
    <2>2. x \notin Before(R, S, x)
      BY DEF Before, IsTotalOrder
    <2>3. Cardinality(Before(R, S, x) \cup {x}) = Cardinality(Before(R, S, x)) + 1
      BY <1>2, <2>2, FS_AddElement
    <2>4. Cardinality(Before(R, S, x) \cup {x}) <= Cardinality(Before(R, S, y))
      BY <1>2, <2>1, FS_Subset
    <2>5. rank[x] \in 0..(n - 1) /\ rank[y] \in 0..(n - 1)
      BY <1>2
    <2> QED BY <1>1, <2>3, <2>4, <2>5
  <1>4. ASSUME NEW x \in S, NEW y \in S, rank[x] = rank[y] PROVE x = y
    <2>1. rank[x] \in Int /\ rank[y] \in Int
      BY <1>1, <1>2
    <2>2. ~(rank[x] < rank[y]) /\ ~(rank[y] < rank[x])
      BY <1>4, <2>1
    <2> HIDE DEF rank
    <2> QED BY <1>3, <2>2 DEF IsTotalOrder
  <1>5. rank \in Injection(S, 0..(n - 1))
    <2>1. rank \in [S -> 0..(n - 1)]
      BY <1>2
    <2> HIDE DEF rank
    <2> QED BY <1>4, <2>1 DEF Injection, IsInjective
  <1>6. IsFiniteSet(0..(n - 1)) /\ Cardinality(0..(n - 1)) = n
    <2> HIDE DEF n
    <2>1. 0 \in Int /\ n - 1 \in Int
      BY ONLY <1>1
    <2>2. /\ IsFiniteSet(0..(n - 1))
          /\ Cardinality(0..(n - 1)) = IF 0 > n - 1 THEN 0 ELSE (n - 1) - 0 + 1
      BY ONLY <2>1, FS_Interval
    <2> QED BY ONLY <1>1, <2>2
  <1>7. rank \in Surjection(S, 0..(n - 1))
    <2> HIDE DEF rank
    <2> QED BY <1>5, <1>6, FS_Injection
  <1>8. \A i \in 0..(n - 1) : \E x \in S : rank[x] = i
    <2> HIDE DEF rank
    <2> QED BY <1>7 DEF Surjection
  <1> QED BY <1>1, <1>2, <1>4, <1>8

\* A sequence with each member at the place that is its rank lists the set.
LEMMA InOrder ==
  ASSUME NEW S, IsFiniteSet(S), NEW R, IsTotalOrder(R, S), NEW s,
         s = [i \in 1..Cardinality(S) |-> s[i]],
         \A i \in 1..Cardinality(S) : s[i] \in S /\ Cardinality(Before(R, S, s[i])) = i - 1
  PROVE  Lists(s, S)
  <1> DEFINE n == Cardinality(S)
             rank(x) == Cardinality(Before(R, S, x))
  <1>1. n \in Nat
    BY FS_CardinalityType
  <1>2. s \in Seq(S) /\ DOMAIN s = 1..n
    <2>1. s \in [1..n -> S]
      <3>1. (\A i \in 1..n : s[i] \in S) /\ s = [i \in 1..n |-> s[i]]
        OBVIOUS
      <3> HIDE DEF n
      <3> QED BY ONLY <3>1
    <2> QED BY <1>1, <2>1
  <1>3. ASSUME NEW i \in 1..n, NEW j \in 1..n, s[i] = s[j] PROVE i = j
    <2>1. i - 1 = j - 1
      BY <1>3
    <2> QED BY <1>1, <2>1
  <1>4. ASSUME NEW x \in S PROVE \E i \in 1..n : s[i] = x
    <2>1. rank(x) \in 0..(n - 1)
      BY Ranks
    <2>2. rank(x) + 1 \in 1..n /\ (rank(x) + 1) - 1 = rank(x)
      BY <1>1, <2>1
    <2>3. rank(s[rank(x) + 1]) = rank(x) /\ s[rank(x) + 1] \in S
      BY <2>2
    <2>4. s[rank(x) + 1] = x
      BY <2>3, Ranks
    <2> QED BY <2>2, <2>4
  <1> QED BY <1>2, <1>3, <1>4 DEF Lists

\* The keys of sections, 0 last.
LEMMA KeysInOrder ==
  ASSUME NEW S, S \subseteq Nat, IsFiniteSet(S)
  PROVE  Lists(Arranged(S, LAMBDA i, j : i # 0 /\ (j = 0 \/ i < j)), S)
  <1> DEFINE R == {p \in S \X S : p[1] # 0 /\ (p[2] = 0 \/ p[1] < p[2])}
             s == Arranged(S, LAMBDA i, j : i # 0 /\ (j = 0 \/ i < j))
  <1>1. IsTotalOrder(R, S)
    BY DEF IsTotalOrder
  <1>2. ASSUME NEW x \in S PROVE {y \in S : y # 0 /\ (x = 0 \/ y < x)} = Before(R, S, x)
    BY DEF Before
  <1>3. \A i \in 1..Cardinality(S) : \E x \in S : Cardinality({y \in S : y # 0 /\ (x = 0 \/ y < x)}) = i - 1
    <2> SUFFICES ASSUME NEW i \in 1..Cardinality(S)
                 PROVE  \E x \in S : Cardinality({y \in S : y # 0 /\ (x = 0 \/ y < x)}) = i - 1
      OBVIOUS
    <2>1. Cardinality(S) \in Nat
      BY FS_CardinalityType
    <2>2. i - 1 \in 0..(Cardinality(S) - 1)
      BY <2>1
    <2> HIDE DEF R
    <2>3. PICK x \in S : Cardinality(Before(R, S, x)) = i - 1
      <3>1. \A k \in 0..(Cardinality(S) - 1) : \E x \in S : Cardinality(Before(R, S, x)) = k
        BY ONLY <1>1, IsFiniteSet(S), Ranks
      <3> QED BY ONLY <3>1, <2>2
    <2> QED BY <1>2, <2>3
  <1>4. \A i \in 1..Cardinality(S) : s[i] \in S /\ Cardinality(Before(R, S, s[i])) = i - 1
    <2> SUFFICES ASSUME NEW i \in 1..Cardinality(S)
                 PROVE  s[i] \in S /\ Cardinality(Before(R, S, s[i])) = i - 1
      OBVIOUS
    <2>1. s[i] = CHOOSE x \in S : Cardinality({y \in S : y # 0 /\ (x = 0 \/ y < x)}) = i - 1
      BY DEF Arranged
    <2>2. s[i] \in S /\ Cardinality({y \in S : y # 0 /\ (s[i] = 0 \/ y < s[i])}) = i - 1
      <3> HIDE DEF R, s
      <3> QED BY ONLY <1>3, <2>1, i \in 1..Cardinality(S)
    <2> HIDE DEF R, s
    <2> QED BY <1>2, <2>2
  <1>5. s = [i \in 1..Cardinality(S) |-> s[i]]
    <2> DEFINE at(i) == CHOOSE x \in S : Cardinality({y \in S : y # 0 /\ (x = 0 \/ y < x)}) = i - 1
    <2>1. s = [i \in 1..Cardinality(S) |-> at(i)]
      BY DEF Arranged
    <2> HIDE DEF at, s
    <2> QED BY ONLY <2>1
  <1> HIDE DEF R, s
  <1>6. Lists(s, S)
    BY <1>1, <1>4, <1>5, InOrder
  <1> QED BY <1>6 DEF s

-----------------------------------------------------------------------------
(* Sections one after the other.                                           *)

Has(s, v) == \E i \in DOMAIN s : s[i] = v
Once(s) == \A i, j \in DOMAIN s : s[i] = s[j] => i = j

LEMMA Joined ==
  ASSUME NEW V, NEW a \in Seq(V), NEW b \in Seq(V)
  PROVE  /\ a \o b \in Seq(V)
         /\ \A v : Has(a \o b, v) <=> Has(a, v) \/ Has(b, v)
         /\ Once(a) /\ Once(b) /\ (\A v : ~(Has(a, v) /\ Has(b, v))) => Once(a \o b)
  <1>1. /\ a \o b \in Seq(V) /\ Len(a \o b) = Len(a) + Len(b) /\ Len(a) \in Nat /\ Len(b) \in Nat
        /\ DOMAIN a = 1..Len(a) /\ DOMAIN b = 1..Len(b) /\ DOMAIN (a \o b) = 1..(Len(a) + Len(b))
    OBVIOUS
  <1>2. \A i \in 1..(Len(a) + Len(b)) : (a \o b)[i] = IF i <= Len(a) THEN a[i] ELSE b[i - Len(a)]
    OBVIOUS
  <1>3. ASSUME NEW v PROVE Has(a \o b, v) <=> Has(a, v) \/ Has(b, v)
    <2>1. ASSUME Has(a, v) PROVE Has(a \o b, v)
      <3>1. PICK i \in 1..Len(a) : a[i] = v
        BY <1>1, <2>1 DEF Has
      <3>2. i \in 1..(Len(a) + Len(b)) /\ (a \o b)[i] = v
        BY <1>1, <1>2, <3>1
      <3> QED BY <1>1, <3>2 DEF Has
    <2>2. ASSUME Has(b, v) PROVE Has(a \o b, v)
      <3>1. PICK i \in 1..Len(b) : b[i] = v
        BY <1>1, <2>2 DEF Has
      <3>2. /\ Len(a) + i \in 1..(Len(a) + Len(b)) /\ ~(Len(a) + i <= Len(a)) /\ (Len(a) + i) - Len(a) = i
        BY <1>1
      <3>3. (a \o b)[Len(a) + i] = v
        BY <1>2, <3>1, <3>2
      <3> QED BY <1>1, <3>2, <3>3 DEF Has
    <2>3. ASSUME Has(a \o b, v) PROVE Has(a, v) \/ Has(b, v)
      <3>1. PICK i \in 1..(Len(a) + Len(b)) : (a \o b)[i] = v
        BY <1>1, <2>3 DEF Has
      <3>2. CASE i <= Len(a)
        BY <1>1, <1>2, <3>1, <3>2 DEF Has
      <3>3. CASE ~(i <= Len(a))
        <4>1. i - Len(a) \in 1..Len(b) /\ b[i - Len(a)] = v
          BY <1>1, <1>2, <3>1, <3>3
        <4> QED BY <1>1, <4>1 DEF Has
      <3> QED BY <3>2, <3>3
    <2> QED BY <2>1, <2>2, <2>3
  <1>4. ASSUME Once(a), Once(b), \A v : ~(Has(a, v) /\ Has(b, v)) PROVE Once(a \o b)
    <2> SUFFICES ASSUME NEW i \in 1..(Len(a) + Len(b)), NEW j \in 1..(Len(a) + Len(b)), (a \o b)[i] = (a \o b)[j], i < j
                 PROVE  FALSE
      BY <1>1 DEF Once
    <2>1. CASE j <= Len(a)
      BY <1>1, <1>2, <1>4, <2>1 DEF Once
    <2>2. CASE i <= Len(a) /\ ~(j <= Len(a))
      <3>1. i \in 1..Len(a) /\ j - Len(a) \in 1..Len(b) /\ a[i] = b[j - Len(a)]
        BY <1>1, <1>2, <2>2
      <3>2. Has(a, a[i]) /\ Has(b, a[i])
        BY <1>1, <3>1 DEF Has
      <3> QED BY <1>4, <3>2
    <2>3. CASE ~(i <= Len(a)) /\ ~(j <= Len(a))
      <3>1. i - Len(a) \in 1..Len(b) /\ j - Len(a) \in 1..Len(b) /\ b[i - Len(a)] = b[j - Len(a)]
        BY <1>1, <1>2, <2>3
      <3>2. i - Len(a) = j - Len(a)
        BY <1>1, <1>4, <3>1 DEF Once
      <3> QED BY <1>1, <3>2
    <2> QED BY <1>1, <2>1, <2>2, <2>3
  <1> QED BY <1>1, <1>3, <1>4

\* What FlattenSeq makes of sections: their rows, each once if no section has
\* one twice and no two share one.
LEMMA Flattened ==
  ASSUME NEW V, NEW ss \in Seq(Seq(V))
  PROVE  /\ FlattenSeq(ss) \in Seq(V)
         /\ \A v : Has(FlattenSeq(ss), v) <=> \E k \in DOMAIN ss : Has(ss[k], v)
         /\ /\ \A k \in DOMAIN ss : Once(ss[k])
            /\ \A j, k \in DOMAIN ss : \A v : Has(ss[j], v) /\ Has(ss[k], v) => j = k
            => Once(FlattenSeq(ss))
  <1> DEFINE n == Len(ss)
             Apart == /\ \A k \in DOMAIN ss : Once(ss[k])
                      /\ \A j, k \in DOMAIN ss : \A v : Has(ss[j], v) /\ Has(ss[k], v) => j = k
             Good(o, m) == /\ o \in Seq(V)
                           /\ \A v : Has(o, v) <=> \E k \in 1..m : Has(ss[k], v)
                           /\ Apart => Once(o)
             IsFlat(f) == f = [i \in 1..n |-> IF i = 1 THEN ss[i] ELSE f[i - 1] \o ss[i]]
             flat == CHOOSE f : IsFlat(f)
  <1>1. n \in Nat /\ DOMAIN ss = 1..n /\ \A k \in 1..n : ss[k] \in Seq(V)
    OBVIOUS
  <1>2. CASE n = 0
    <2>1. ss = <<>> /\ DOMAIN ss = {} /\ FlattenSeq(ss) = ss
      BY <1>2 DEF FlattenSeq
    <2>2. FlattenSeq(ss) = <<>> /\ <<>> \in Seq(V) /\ DOMAIN <<>> = {}
      BY <2>1
    <2> QED BY ONLY <2>1, <2>2 DEF Has, Once
  <1>3. CASE n # 0
    <2>1. FlattenSeq(ss) = flat[n]
      BY <1>3 DEF FlattenSeq
    <2>2. \E f : IsFlat(f)
      <3> DEFINE step == [p \in (1..n) \X Seq(V) |-> p[2] \o ss[p[1]]]
      <3> DEFINE W == Seq(V)
      <3>1. step \in [(1..n) \X W -> W] /\ <<>> \in W
        BY <1>1
      <3>2. PICK f \in [0..n -> W] : f[0] = <<>> /\ \A i \in 1..n : f[i] = step[<<i, f[i - 1]>>]
        <4> HIDE DEF step, n, W
        <4>1. IsStep(step, n, W)
          BY <3>1 DEF IsStep
        <4>2. \E f : Iterates(f, step, <<>>, n, W)
          BY ONLY <1>1, <3>1, <4>1, Recursion
        <4> QED BY <4>2 DEF Iterates
      <3>3. ASSUME NEW i \in 1..n PROVE f[i - 1] \in Seq(V) /\ f[i] = f[i - 1] \o ss[i]
        <4>1. i - 1 \in 0..n
          BY <1>1
        <4>2. f[i - 1] \in W
          BY <4>1
        <4>3. step[<<i, f[i - 1]>>] = f[i - 1] \o ss[i]
          BY <4>2
        <4>4. f[i] = step[<<i, f[i - 1]>>]
          BY <3>2
        <4> QED BY <4>2, <4>3, <4>4
      <3> DEFINE g == [i \in 1..n |-> f[i]]
      <3>4. ASSUME NEW i \in 1..n PROVE g[i] = IF i = 1 THEN ss[i] ELSE g[i - 1] \o ss[i]
        <4>1. CASE i = 1
          <5>1. f[i] = f[i - 1] \o ss[i] /\ ss[i] \in Seq(V) /\ f[i - 1] = <<>>
            <6>1. i - 1 = 0
              BY <4>1
            <6> QED BY <1>1, <3>2, <3>3, <6>1
          <5>2. f[i] = ss[i]
            BY ONLY <5>1
          <5> QED BY <4>1, <5>2
        <4>2. CASE i # 1
          <5>1. i - 1 \in 1..n
            BY <1>1, <4>2
          <5> QED BY <3>3, <4>2, <5>1
        <4> QED BY <4>1, <4>2
      <3>5. IsFlat(g)
        <4> HIDE DEF n, step
        <4> QED BY <3>4
      <3> QED BY <3>5
    <2>3. IsFlat(flat)
      <3> HIDE DEF IsFlat
      <3> QED BY <2>2
    <2>4. \A i \in 1..n : flat[i] = IF i = 1 THEN ss[i] ELSE flat[i - 1] \o ss[i]
      <3> HIDE DEF flat, n
      <3> QED BY <2>3
    <2> HIDE DEF flat, IsFlat
    <2> DEFINE P == {m \in 0..(n - 1) : Good(flat[m + 1], m + 1)}
    <2>5. 0 \in P
      <3>1. flat[1] = ss[1] /\ 1 \in 1..n
        BY <1>1, <1>3, <2>4
      <3>2. Good(ss[1], 1)
        <4>1. ss[1] \in Seq(V) /\ 1..1 = {1} /\ 1 \in DOMAIN ss
          BY <1>1, <3>1
        <4> HIDE DEF n
        <4> QED BY ONLY <4>1
      <3> QED BY <1>1, <1>3, <3>1, <3>2
    <2>6. ASSUME NEW m \in 0..((n - 1) - 1), m \in P PROVE m + 1 \in P
      <3>1. /\ m + 1 \in 1..n /\ m + 2 \in 1..n /\ m + 2 # 1 /\ (m + 2) - 1 = m + 1 /\ (m + 1) + 1 = m + 2
            /\ m + 1 \in 0..(n - 1) /\ 1..(m + 2) = (1..(m + 1)) \cup {m + 2} /\ 1..(m + 1) \subseteq 1..n
        BY <1>1
      <3>2. flat[m + 2] = flat[m + 1] \o ss[m + 2]
        BY <2>4, <3>1
      <3>3. Good(flat[m + 1], m + 1)
        BY <2>6
      <3>4. ss[m + 2] \in Seq(V) /\ flat[m + 1] \in Seq(V)
        BY <1>1, <3>1, <3>3
      <3>5. /\ flat[m + 2] \in Seq(V)
            /\ \A v : Has(flat[m + 2], v) <=> Has(flat[m + 1], v) \/ Has(ss[m + 2], v)
            /\ Once(flat[m + 1]) /\ Once(ss[m + 2]) /\ (\A v : ~(Has(flat[m + 1], v) /\ Has(ss[m + 2], v)))
                  => Once(flat[m + 2])
        BY <3>2, <3>4, Joined
      <3>6. \A v : Has(flat[m + 2], v) <=> \E k \in 1..(m + 2) : Has(ss[k], v)
        BY <3>1, <3>3, <3>5
      <3>7. ASSUME Apart PROVE Once(flat[m + 2])
        <4>1. Once(flat[m + 1]) /\ Once(ss[m + 2])
          BY <1>1, <3>1, <3>3, <3>7
        <4>2. ASSUME NEW v, Has(flat[m + 1], v), Has(ss[m + 2], v) PROVE FALSE
          <5>1. PICK k \in 1..(m + 1) : Has(ss[k], v)
            BY <3>3, <4>2
          <5>2. k = m + 2
            BY <1>1, <3>1, <3>7, <4>2, <5>1
          <5> QED BY <5>2, m \in 0..((n - 1) - 1)
        <4> QED BY <3>5, <4>1, <4>2
      <3> QED BY <3>1, <3>5, <3>6, <3>7
    <2>7. \A m \in 0..(n - 1) : m \in P
      <3>1. n - 1 \in Nat
        BY <1>1, <1>3
      <3> HIDE DEF P, n
      <3> QED BY ONLY <2>5, <2>6, <3>1, Induction
    <2>8. Good(flat[n], n)
      <3>1. n - 1 \in 0..(n - 1) /\ (n - 1) + 1 = n
        BY <1>1, <1>3
      <3>2. n - 1 \in P
        BY <2>7, <3>1
      <3> HIDE DEF Good, n
      <3> QED BY <3>1, <3>2
    <2> QED BY <1>1, <2>1, <2>8
  <1> QED BY <1>2, <1>3

LEMMA SeqMonotone ==
  ASSUME NEW S, NEW T, S \subseteq T, NEW s \in Seq(S)
  PROVE  s \in Seq(T)
  OBVIOUS

\* Sections by a key, one after the other, have what was divided among them.
LEMMA SectionsList ==
  ASSUME NEW F, NEW keys, NEW K, NEW key, NEW ss, Lists(keys, K), \A x \in F : key[x] \in K,
         ss = [k \in DOMAIN keys |-> ss[k]],
         \A k \in DOMAIN keys : Lists(ss[k], {x \in F : key[x] = keys[k]})
  PROVE  Lists(FlattenSeq(ss), F)
  <1>1. DOMAIN keys = 1..Len(keys) /\ Len(keys) \in Nat
    BY DEF Lists
  <1>2. \A k \in DOMAIN keys : ss[k] \in Seq({x \in F : key[x] = keys[k]})
    BY DEF Lists
  <1>3. \A k \in DOMAIN keys : ss[k] \in Seq(F)
    BY <1>2, SeqMonotone
  <1>4. ss \in Seq(Seq(F)) /\ DOMAIN ss = DOMAIN keys
    <2> DEFINE W == Seq(F)
    <2>1. \A k \in DOMAIN keys : ss[k] \in W
      BY <1>3
    <2>2. ss \in [1..Len(keys) -> W]
      <3> HIDE DEF W
      <3> QED BY <1>1, <2>1
    <2> HIDE DEF W
    <2>3. ss \in Seq(W) /\ DOMAIN ss = DOMAIN keys
      BY <1>1, <2>2
    <2> QED BY <2>3 DEF W
  <1>5. \A k \in DOMAIN keys : \A v : Has(ss[k], v) <=> v \in F /\ key[v] = keys[k]
    <2> SUFFICES ASSUME NEW k \in DOMAIN keys, NEW v PROVE Has(ss[k], v) <=> v \in F /\ key[v] = keys[k]
      OBVIOUS
    <2> DEFINE G == {x \in F : key[x] = keys[k]}
    <2>1. ss[k] \in Seq(G) /\ Lists(ss[k], G)
      BY <1>2
    <2>2. \A i \in DOMAIN ss[k] : ss[k][i] \in G
      <3> HIDE DEF G
      <3> QED BY <2>1
    <2>3. v \in G => Has(ss[k], v)
      <3> HIDE DEF G
      <3> QED BY <2>1 DEF Lists, Has
    <2> QED BY <2>2, <2>3 DEF Has
  <1>6. \A k \in DOMAIN ss : Once(ss[k])
    BY <1>4 DEF Lists, Once
  <1>7. \A j, k \in DOMAIN ss : \A v : Has(ss[j], v) /\ Has(ss[k], v) => j = k
    <2>1. \A j, k \in DOMAIN keys : keys[j] = keys[k] => j = k
      BY DEF Lists
    <2> QED BY ONLY <1>4, <1>5, <2>1
  <1>8. /\ FlattenSeq(ss) \in Seq(F) /\ Once(FlattenSeq(ss))
        /\ \A v : Has(FlattenSeq(ss), v) <=> \E k \in DOMAIN ss : Has(ss[k], v)
    BY <1>4, <1>6, <1>7, Flattened
  <1>9. ASSUME NEW v \in F PROVE Has(FlattenSeq(ss), v)
    <2>1. PICK k \in DOMAIN keys : keys[k] = key[v]
      BY DEF Lists
    <2>2. Has(ss[k], v)
      BY <1>5, <2>1
    <2> QED BY <1>4, <1>8, <2>2
  <1> QED BY <1>8, <1>9 DEF Lists, Once, Has

-----------------------------------------------------------------------------
(* Status and windows.                                                     *)

Times == Int \cup {None}

\* A status is one of five, and its severity 0, 1 or 2.
LEMMA Severities ==
  /\ Severity("green") = 0 /\ Severity("amber") = 1
  /\ \A s \in {"red", "grey", "error"} : Severity(s) = 2
  BY DEF Severity, WorstExitCode

\* Whatever the thresholds of a repository and its state, waiting makes its status
\* no better and its data no fresher, and exit code 0 means that it was refreshed
\* without error and its last snapshot is no older than it should be.
THEOREM Waiting ==
  ASSUME NEW now \in Int, NEW later \in Int, NEW staleAfter \in Int,
         NEW p \in [expectedFrequency : Int, staleGrace : Int, lockMaxAge : Int],
         NEW s \in [lastError : BOOLEAN, refreshedAt : Times, lockedSince : Times, lastSnapshot : Times]
  PROVE  WaitingNeverHelps(now, later, p, staleAfter, s)
  <1> SUFFICES ASSUME now <= later
               PROVE  /\ Severity(EvaluateStatus(now, p, s)) <= Severity(EvaluateStatus(later, p, s))
                      /\ IsStale(now, staleAfter, s) => IsStale(later, staleAfter, s)
                      /\ Severity(EvaluateStatus(now, p, s)) = 0 =>
                           /\ ~s.lastError /\ s.refreshedAt # None /\ s.lastSnapshot # None
                           /\ now <= s.lastSnapshot + p.expectedFrequency
    BY DEF WaitingNeverHelps
  <1>1. IsStale(now, staleAfter, s) => IsStale(later, staleAfter, s)
    BY StatusAssumption DEF IsStale, Times
  <1>2. CASE s.lastError
    <2>1. \A t \in Int : EvaluateStatus(t, p, s) = "error"
      BY <1>2 DEF EvaluateStatus
    <2> QED BY <1>1, <2>1, Severities
  <1>3. CASE ~s.lastError /\ s.refreshedAt = None
    <2>1. \A t \in Int : EvaluateStatus(t, p, s) = "grey"
      BY <1>3 DEF EvaluateStatus
    <2> QED BY <1>1, <2>1, Severities
  <1>4. CASE ~s.lastError /\ s.refreshedAt # None /\ s.lastSnapshot = None
    <2>1. \A t \in Int : EvaluateStatus(t, p, s) = "red"
      BY <1>4 DEF EvaluateStatus
    <2> QED BY <1>1, <2>1, Severities
  <1>5. CASE ~s.lastError /\ s.refreshedAt # None /\ s.lastSnapshot # None
    <2> DEFINE Held(t) == s.lockedSince # None /\ p.lockMaxAge > 0 /\ t - s.lockedSince > p.lockMaxAge
               Green(t) == ~Held(t) /\ t - s.lastSnapshot <= p.expectedFrequency
               Amber(t) == ~Held(t) /\ ~Green(t) /\ t - s.lastSnapshot <= p.expectedFrequency + p.staleGrace
    <2>1. \A t \in Int : EvaluateStatus(t, p, s) = IF Green(t) THEN "green" ELSE IF Amber(t) THEN "amber" ELSE "red"
      BY <1>5 DEF EvaluateStatus
    <2>2. \A t \in Int : Severity(EvaluateStatus(t, p, s)) = IF Green(t) THEN 0 ELSE IF Amber(t) THEN 1 ELSE 2
      BY <2>1, Severities
    <2>3. s.lastSnapshot \in Int
      BY <1>5 DEF Times
    <2>4. Held(now) => Held(later)
      BY StatusAssumption DEF Times
    <2>5. /\ Green(later) => Green(now)
          /\ Amber(later) => Green(now) \/ Amber(now)
          /\ Green(now) => now <= s.lastSnapshot + p.expectedFrequency
      BY <2>3, <2>4
    <2> QED BY <1>1, <1>5, <2>2, <2>5
  <1> QED BY <1>2, <1>3, <1>4, <1>5

-----------------------------------------------------------------------------
LEMMA Halves == \A n \in Nat : n \div 2 \in Nat /\ 2 * (n \div 2) <= n /\ n <= 2 * (n \div 2) + 1
  OBVIOUS

\* The window of a list of any length has the selected row in it, lies within the
\* list, and is as full as the list and the screen allow.
THEOREM CursorIsShown ==
  ASSUME NEW total \in Nat, NEW cursor \in 0..(total - 1), NEW visible \in Int
  PROVE  CursorShown(cursor, total, visible)
  <1> DEFINE rows == AtLeast(visible, 1)
             w == ScrollWindow(cursor, total, visible)
             centered == AtLeast(cursor - rows \div 2, 0)
  <1>1. rows \in Nat /\ rows >= 1
    BY DEF AtLeast
  <1>2. centered \in Nat /\ centered <= cursor /\ cursor < centered + rows
    BY <1>1, Halves DEF AtLeast
  <1> HIDE DEF rows, centered
  <1>3. CASE total <= rows
    <2>1. w = Window(0, total)
      BY <1>3 DEF ScrollWindow, rows
    <2> QED BY <1>1, <1>3, <2>1 DEF CursorShown, Window, AtMost, rows
  <1>4. CASE total > rows /\ centered + rows > total
    <2>1. w = Window(total - rows, total)
      <3>1. ~(total <= rows)
        BY <1>1, <1>4
      <3> QED BY <1>4, <3>1 DEF ScrollWindow, rows, centered
    <2> QED BY <1>1, <1>2, <1>4, <2>1 DEF CursorShown, Window, AtMost, rows
  <1>5. CASE total > rows /\ centered + rows <= total
    <2>1. w = Window(centered, centered + rows)
      BY <1>1, <1>2, <1>5 DEF ScrollWindow, rows, centered
    <2> QED BY <1>1, <1>2, <1>5, <2>1 DEF CursorShown, Window, AtMost, rows
  <1>6. total <= rows \/ (total > rows /\ centered + rows > total) \/ (total > rows /\ centered + rows <= total)
    BY <1>1, <1>2
  <1> QED BY <1>3, <1>4, <1>5, <1>6, Zenon

\* A page of any length shows what fits beside its hint, and a press of the line
\* key moves it by one line until the last line is on the screen.
THEOREM PageIsShown ==
  ASSUME NEW scroll \in Int, NEW total \in Nat, NEW visible \in Nat, visible >= 1
  PROVE  PageShown(scroll, total, visible)
  <1> DEFINE at == ModalScrollBy(scroll, 0, total, visible)
             down == ModalScrollBy(at, 1, total, visible)
             body == BodyRows(total, visible)
  <1>1. CASE total <= visible
    <2>1. \A s \in Int : ModalWindow(s, total, visible) = Window(0, total)
      BY <1>1 DEF ModalWindow
    <2>2. at = 0 /\ down = 0
      BY <1>1 DEF ModalScrollBy
    <2>3. body = visible
      BY <1>1 DEF BodyRows
    <2> QED BY <1>1, <2>1, <2>2, <2>3 DEF PageShown, Window, AtMost
  <1>2. CASE total > visible
    <2> DEFINE rows == AtLeast(visible - 1, 1)
               last == total - rows
    <2>1. rows \in Nat /\ rows >= 1 /\ rows <= visible /\ body \in Nat /\ body = rows
      BY <1>2 DEF AtLeast, BodyRows
    <2>2. last \in Nat /\ last >= 1
      BY <1>2, <2>1
    <2>3. \A s \in Int : ClampModalScroll(s, total, rows) = (IF s < 0 THEN 0 ELSE IF s > last THEN last ELSE s)
      BY <1>2, <2>1, <2>2 DEF ClampModalScroll, AtLeast, AtMost
    <2>4. \A s, d \in Int : ModalScrollBy(s, d, total, visible) = ClampModalScroll(s + d, total, rows)
      BY <1>2 DEF ModalScrollBy
    <2>5. at \in 0..last /\ down = (IF at < last THEN at + 1 ELSE at)
      <3> HIDE DEF rows, last
      <3>1. at \in 0..last
        <4>1. at = ClampModalScroll(scroll + 0, total, rows)
          BY <2>4
        <4>2. scroll + 0 \in Int
          OBVIOUS
        <4> HIDE DEF at
        <4> QED BY <4>1, <4>2, <2>2, <2>3
      <3>2. down = ClampModalScroll(at + 1, total, rows)
        BY <3>1, <2>2, <2>4
      <3> HIDE DEF at, down
      <3> QED BY <3>1, <3>2, <2>2, <2>3
    <2>6. \A s \in 0..last : ModalWindow(s, total, visible) = Window(s, s + rows)
      <3> SUFFICES ASSUME NEW s \in 0..last PROVE ModalWindow(s, total, visible) = Window(s, s + rows)
        OBVIOUS
      <3>1. ClampModalScroll(s, total, body) = s
        BY <2>1, <2>2, <2>3
      <3>2. ModalWindow(s, total, visible) = Window(s, AtMost(s + rows, total))
        BY <1>2, <2>1, <3>1 DEF ModalWindow
      <3> QED BY <2>1, <2>2, <3>2 DEF AtMost
    <2>7. down \in 0..last
      BY <2>2, <2>5
    <2> HIDE DEF at, down
    <2>8. /\ ModalWindow(at, total, visible) = Window(at, at + rows)
          /\ ModalWindow(down, total, visible) = Window(down, down + rows)
      BY <2>5, <2>6, <2>7
    <2>9. body = rows /\ AtMost(total, body) = rows
      BY <1>2, <2>1, <2>2 DEF AtMost
    <2>10. PageShown(scroll, total, visible) <=>
              LET shown(s) == ModalWindow(s, total, visible)
              IN  /\ 0 <= shown(at).start /\ shown(at).end <= total
                  /\ shown(at).end - shown(at).start = AtMost(total, body)
                  /\ shown(down).start = shown(at).start + (IF shown(at).end < total THEN 1 ELSE 0)
      BY DEF PageShown, at, down
    <2> HIDE DEF body, rows, last
    <2> QED BY <2>1, <2>2, <2>5, <2>7, <2>8, <2>9, <2>10 DEF Window, last
  <1> QED BY <1>1, <1>2
-----------------------------------------------------------------------------
(* Folds over a sequence, which the library computes set by set: the last  *)
(* place of a set is taken off.                                            *)

LEMMA Last1 ==
  ASSUME NEW n \in Nat, NEW s \in SUBSET (1..n), s # {}
  PROVE  Max(s) \in s /\ \A i \in s : i <= Max(s)
  <1> DEFINE T == {n - i : i \in s}
  <1>1. T \in SUBSET Nat /\ T # {}
    <2>1. \A i \in s : i \in 1..n /\ n - i \in Nat
      OBVIOUS
    <2> QED BY ONLY <2>1, s # {} DEF T
  <1> HIDE DEF T
  <1>2. PICK k \in T : \A j \in T : k <= j
    BY ONLY <1>1, Least
  <1>3. PICK i \in s : k = n - i
    BY DEF T
  <1>4. ASSUME NEW j \in s PROVE i >= j
    <2>1. n - j \in T
      BY DEF T
    <2>2. k <= n - j
      BY <1>2, <2>1
    <2> QED BY <1>3, <2>2
  <1>5. \E x \in s : \A y \in s : x >= y
    BY <1>4
  <1>6. Max(s) \in s /\ \A y \in s : Max(s) >= y
    BY ONLY <1>5 DEF Max
  <1> QED BY <1>6

LEMMA LastOfAll ==
  ASSUME NEW n \in Nat, NEW k \in 1..n
  PROVE  Max(1..k) = k /\ (1..k) \ {k} = 1..(k - 1) /\ (1..k) \in SUBSET (1..n) /\ 1..k # {}
  <1>1. (1..k) \in SUBSET (1..k) /\ 1..k # {}
    OBVIOUS
  <1>2. k \in Nat
    OBVIOUS
  <1>3. Max(1..k) \in 1..k /\ \A i \in 1..k : i <= Max(1..k)
    BY ONLY <1>1, <1>2, Last1
  <1> QED BY <1>3

\* The function that the fold of step over 1..n chooses.
IsPlaceFold(g, step, base, n, W) ==
    /\ g \in [SUBSET (1..n) -> W]
    /\ \A s \in SUBSET (1..n) : g[s] = IF s = {} THEN base ELSE step[<<Max(s), g[s \ {Max(s)}]>>]

LEMMA PlaceFold ==
  ASSUME NEW W, NEW base \in W, NEW n \in Nat, NEW step, IsStep(step, n, W)
  PROVE  \E g : IsPlaceFold(g, step, base, n, W)
  <1> DEFINE V == [SUBSET (1..n) -> W]
             none == [s \in SUBSET (1..n) |-> base]
             more == [x \in (1..n) \X V |-> [s \in SUBSET (1..n) |-> IF x[1] \in s THEN step[<<x[1], x[2][s]>>] ELSE x[2][s]]]
  <1>1. none \in V
    OBVIOUS
  <1>2. IsStep(more, n, V)
    <2>1. ASSUME NEW k \in 1..n, NEW f \in V, NEW s \in SUBSET (1..n)
          PROVE  (IF k \in s THEN step[<<k, f[s]>>] ELSE f[s]) \in W
      BY DEF IsStep
    <2>2. ASSUME NEW x \in (1..n) \X V
          PROVE  [s \in SUBSET (1..n) |-> IF x[1] \in s THEN step[<<x[1], x[2][s]>>] ELSE x[2][s]] \in V
      <3>1. x[1] \in 1..n /\ x[2] \in V
        <4> HIDE DEF V
        <4> QED OBVIOUS
      <3>2. ASSUME NEW s \in SUBSET (1..n)
            PROVE  (IF x[1] \in s THEN step[<<x[1], x[2][s]>>] ELSE x[2][s]) \in W
        <4> HIDE DEF V
        <4> QED BY <2>1, <3>1
      <3> QED BY <3>2
    <2> HIDE DEF V
    <2> QED BY <2>2 DEF IsStep
  <1>3. PICK f : Iterates(f, more, none, n, V)
    <2> HIDE DEF V, none, more
    <2> QED BY <1>1, <1>2, Recursion
  <1>4. f \in [0..n -> V] /\ f[0] = none /\ \A k \in 1..n : f[k] = more[<<k, f[k - 1]>>]
    BY <1>3 DEF Iterates
  <1>5. \A k \in 0..n : f[k] \in V
    <2> HIDE DEF V
    <2> QED BY <1>4
  <1>6. ASSUME NEW k \in 1..n, NEW s \in SUBSET (1..n)
        PROVE  f[k][s] = IF k \in s THEN step[<<k, f[k - 1][s]>>] ELSE f[k - 1][s]
    <2>0. k - 1 \in 0..n
      OBVIOUS
    <2>1. f[k - 1] \in V
      <3> HIDE DEF V
      <3> QED BY ONLY <1>5, <2>0
    <2>2. <<k, f[k - 1]>> \in (1..n) \X V
      <3> HIDE DEF V
      <3> QED BY <2>1
    <2>3. more[<<k, f[k - 1]>>] = [t \in SUBSET (1..n) |-> IF k \in t THEN step[<<k, f[k - 1][t]>>] ELSE f[k - 1][t]]
      <3> HIDE DEF V
      <3> QED BY ONLY <2>2 DEF more
    <2>4. f[k] = more[<<k, f[k - 1]>>]
      <3> HIDE DEF V, more
      <3> QED BY ONLY <1>4, k \in 1..n
    <2> HIDE DEF V, more
    <2> QED BY ONLY <2>3, <2>4, s \in SUBSET (1..n)
  <1> HIDE DEF more, none, V
  \* Places outside a set say nothing of it.
  <1>7. ASSUME NEW s \in SUBSET (1..n), NEW m \in 0..n, \A i \in s : i <= m
        PROVE  f[n][s] = f[m][s]
    <2> DEFINE Q == {d \in 0..(n - m) : f[m + d][s] = f[m][s]}
    <2>1. 0 \in Q
      OBVIOUS
    <2>2. ASSUME NEW d \in 0..((n - m) - 1), d \in Q PROVE d + 1 \in Q
      <3>1. m + (d + 1) \in 1..n /\ (m + (d + 1)) - 1 = m + d /\ m + (d + 1) \notin s
        BY <1>7
      <3>2. f[m + (d + 1)][s] = f[m + d][s]
        <4>1. PICK e : e = m + (d + 1)
          OBVIOUS
        <4>2. f[e][s] = IF e \in s THEN step[<<e, f[e - 1][s]>>] ELSE f[e - 1][s]
          BY <1>6, <3>1, <4>1
        <4> QED BY <3>1, <4>1, <4>2
      <3> QED BY <2>2, <3>2
    <2>3. n - m \in Nat
      OBVIOUS
    <2> HIDE DEF Q
    <2>4. \A d \in 0..(n - m) : d \in Q
      BY ONLY <2>1, <2>2, <2>3, Induction
    <2>5. n - m \in Q
      BY <2>3, <2>4
    <2> QED BY <2>5 DEF Q
  <1>8. ASSUME NEW s \in SUBSET (1..n), NEW t \in SUBSET (1..n), NEW m \in 0..n,
               \A i \in 1..m : i \in s <=> i \in t
        PROVE  f[m][s] = f[m][t]
    <2> DEFINE Q == {k \in 0..m : f[k][s] = f[k][t]}
    <2>1. 0 \in Q
      <3>1. f[0][s] = base /\ f[0][t] = base
        BY <1>4 DEF none
      <3> QED BY <3>1
    <2>2. ASSUME NEW k \in 0..(m - 1), k \in Q PROVE k + 1 \in Q
      <3>1. k + 1 \in 1..n /\ (k + 1) - 1 = k /\ k + 1 \in 1..m
        OBVIOUS
      <3>2. f[k][s] = f[k][t]
        BY <2>2
      <3>3. f[k + 1][s] = f[k + 1][t]
        <4>1. PICK e : e = k + 1
          OBVIOUS
        <4>2. f[e][s] = IF e \in s THEN step[<<e, f[e - 1][s]>>] ELSE f[e - 1][s]
          BY <1>6, <3>1, <4>1
        <4>3. f[e][t] = IF e \in t THEN step[<<e, f[e - 1][t]>>] ELSE f[e - 1][t]
          BY <1>6, <3>1, <4>1
        <4> QED BY <1>8, <3>1, <3>2, <4>1, <4>2, <4>3
      <3> QED BY <3>1, <3>3
    <2> HIDE DEF Q
    <2>3. \A k \in 0..m : k \in Q
      BY ONLY <2>1, <2>2, m \in 0..n, n \in Nat, Induction
    <2> QED BY <2>3 DEF Q
  <1>9. ASSUME NEW s \in SUBSET (1..n)
        PROVE  f[n][s] = IF s = {} THEN base ELSE step[<<Max(s), f[n][s \ {Max(s)}]>>]
    <2>1. CASE s = {}
      <3>1. f[n][s] = f[0][s]
        BY <1>7, <2>1
      <3> QED BY <1>4, <2>1, <3>1 DEF none
    <2>2. CASE s # {}
      <3> DEFINE m == Max(s)
                 t == s \ {m}
      <3>1. m \in s /\ \A i \in s : i <= m
        BY <2>2, Last1
      <3> HIDE DEF m
      <3>2. m \in 1..n /\ t \in SUBSET (1..n) /\ m - 1 \in 0..n
        BY <3>1
      <3>3. f[n][s] = f[m][s]
        BY <1>7, <3>1, <3>2
      <3>4. f[m][s] = step[<<m, f[m - 1][s]>>]
        BY <1>6, <3>1, <3>2
      <3>5. f[m - 1][s] = f[m - 1][t]
        BY <1>8, <3>1, <3>2
      <3>6. f[n][t] = f[m - 1][t]
        BY <1>7, <3>1, <3>2
      <3> QED BY <2>2, <3>3, <3>4, <3>5, <3>6 DEF m
    <2> QED BY <2>1, <2>2
  <1>10. f[n] \in [SUBSET (1..n) -> W]
    <2>1. n \in 0..n
      OBVIOUS
    <2> QED BY ONLY <1>5, <2>1 DEF V
  <1> QED BY <1>9, <1>10 DEF IsPlaceFold

\* A fold over a sequence is an iteration over its places.
LEMMA FoldPrefix ==
  ASSUME NEW W, NEW base \in W, NEW n \in Nat, NEW step, IsStep(step, n, W), NEW c,
         c[{}] = base, \A k \in 1..n : c[1..(k - 1)] \in W => c[1..k] = step[<<k, c[1..(k - 1)]>>],
         NEW f, f = [k \in 0..n |-> c[1..k]]
  PROVE  Iterates(f, step, base, n, W)
  <1> DEFINE Q == {k \in 0..n : c[1..k] \in W}
  <1>1. {} = 1..0
    OBVIOUS
  <1>2. 0 \in Q
    BY <1>1
  <1>3. ASSUME NEW k \in 0..(n - 1), k \in Q PROVE k + 1 \in Q
    <2>1. PICK m : m = k + 1
      OBVIOUS
    <2>2. m \in 1..n /\ m - 1 = k
      BY <2>1
    <2>3. c[1..k] \in W
      BY <1>3
    <2>4. c[1..m] = step[<<m, c[1..k]>>]
      BY <2>2, <2>3
    <2>5. c[1..m] \in W
      BY <2>2, <2>3, <2>4 DEF IsStep
    <2> QED BY <2>1, <2>2, <2>5
  <1> HIDE DEF Q
  <1>4. \A k \in 0..n : k \in Q
    BY ONLY <1>2, <1>3, n \in Nat, Induction
  <1>5. \A k \in 0..n : c[1..k] \in W
    BY <1>4 DEF Q
  <1>6. f \in [0..n -> W] /\ f[0] = base
    BY <1>1, <1>5
  <1>7. ASSUME NEW k \in 1..n PROVE f[k] = step[<<k, f[k - 1]>>]
    <2>1. k - 1 \in 0..n
      OBVIOUS
    <2>2. f[k] = c[1..k] /\ f[k - 1] = c[1..(k - 1)]
      BY <2>1
    <2> QED BY <1>5, <2>1, <2>2
  <1> QED BY ONLY <1>6, <1>7 DEF Iterates

-----------------------------------------------------------------------------
(* Prefixes.                                                               *)

LEMMA SamePath ==
  ASSUME NEW S, NEW p \in Seq(S), NEW q \in Seq(S), Len(p) = Len(q), \A i \in 1..Len(p) : p[i] = q[i]
  PROVE  p = q
  <1>1. p = [i \in 1..Len(p) |-> p[i]] /\ q = [i \in 1..Len(q) |-> q[i]]
    OBVIOUS
  <1> QED BY <1>1

LEMMA PrefixOfPrefix ==
  ASSUME NEW S, NEW p \in Seq(S), NEW k \in 0..Len(p), NEW j \in 0..k
  PROVE  SubSeq(SubSeq(p, 1, k), 1, j) = SubSeq(p, 1, j)
  <1> DEFINE q == SubSeq(p, 1, k)
  <1>1. q \in Seq(S) /\ Len(q) = k /\ \A i \in 1..k : q[i] = p[i]
    OBVIOUS
  <1>2. j \in 0..Len(q) /\ j \in 0..Len(p) /\ k \in Nat
    BY <1>1
  <1> HIDE DEF q
  <1>3. SubSeq(q, 1, j) \in Seq(S) /\ Len(SubSeq(q, 1, j)) = j /\ \A i \in 1..j : SubSeq(q, 1, j)[i] = q[i]
    BY ONLY <1>1, <1>2
  <1>4. SubSeq(p, 1, j) \in Seq(S) /\ Len(SubSeq(p, 1, j)) = j /\ \A i \in 1..j : SubSeq(p, 1, j)[i] = p[i]
    BY ONLY <1>2, p \in Seq(S)
  <1>5. \A i \in 1..j : SubSeq(q, 1, j)[i] = SubSeq(p, 1, j)[i]
    BY <1>1, <1>2, <1>3, <1>4
  <1>6. SubSeq(q, 1, j) = SubSeq(p, 1, j)
    BY ONLY <1>3, <1>4, <1>5, SamePath
  <1> QED BY <1>6 DEF q

-----------------------------------------------------------------------------
(* What a diff has extracted.                                              *)

\* Lines of a diff, with paths of any length.
DiffLines(entries) == entries \in Seq([path : Seq(STRING), isDir : BOOLEAN, kinds : SUBSET Kinds])

LEMMA AncestorOf ==
  ASSUME NEW p \in Seq(STRING), NEW q \in Seq(STRING), NEW r \in Seq(STRING), IsAncestor(p, q), IsAncestor(q, r)
  PROVE  IsAncestor(p, r) /\ Len(p) < Len(q)
  <1>1. Len(p) \in Nat /\ Len(q) \in Nat /\ Len(r) \in Nat /\ Len(p) < Len(q) /\ Len(q) < Len(r)
    BY DEF IsAncestor
  <1>2. SubSeq(q, 1, Len(p)) = p /\ SubSeq(r, 1, Len(q)) = q
    BY DEF IsAncestor
  <1>3. Len(q) \in 0..Len(r) /\ Len(p) \in 0..Len(q)
    BY <1>1
  <1>4. SubSeq(SubSeq(r, 1, Len(q)), 1, Len(p)) = SubSeq(r, 1, Len(p))
    BY <1>3, PrefixOfPrefix
  <1> QED BY <1>1, <1>2, <1>4 DEF IsAncestor

\* Extracting what a diff shows brings each selected path of a side once, and no
\* directory that exists on both, for any lines of a diff, any directory, and any
\* filter (diff.go, DiffExtractIncludes).
THEOREM IncludesExact ==
  ASSUME NEW entries, DiffLines(entries), NEW root, NEW filter
  PROVE  IncludesAreExact(entries, root, filter)
  <1> DEFINE kinds(p) == MergedKinds(entries, p)
             isDir(p) == MergedIsDir(entries, p)
             sides == {<<FirstSide, "-">>, <<SecondSide, "+">>}
  <1> SUFFICES ASSUME NEW side \in sides
               PROVE  /\ Selected(entries, root, filter, side[1]) \subseteq
                           Restored(entries, Includes(entries, root, filter, side[1], side[2]))
                      /\ Includes(entries, root, filter, side[1], side[2]) \subseteq Selected(entries, root, filter, side[1])
                      /\ \A p \in Includes(entries, root, filter, side[1], side[2]) : isDir(p) => kinds(p) = {side[2]}
                      /\ \A p, q \in Includes(entries, root, filter, side[1], side[2]) : ~(IsAncestor(p, q) /\ isDir(p))
    BY DEF IncludesAreExact
  <1> DEFINE marker == side[2]
             pure == Pure(entries, root, filter, marker)
             sel == Selected(entries, root, filter, side[1])
             inc == Includes(entries, root, filter, side[1], marker)
  <1>1. marker \in side[1] /\ ((marker = "-" /\ "+" \notin side[1]) \/ (marker = "+" /\ "-" \notin side[1]))
    <2>1. CASE side = <<FirstSide, "-">>
      <3>1. side[1] = FirstSide /\ marker = "-"
        BY <2>1
      <3>2. "-" \in FirstSide /\ "+" \notin FirstSide
        BY DEF FirstSide
      <3> QED BY <3>1, <3>2
    <2>2. CASE side = <<SecondSide, "+">>
      <3>1. side[1] = SecondSide /\ marker = "+"
        BY <2>2
      <3>2. "+" \in SecondSide /\ "-" \notin SecondSide
        BY DEF SecondSide
      <3> QED BY <3>1, <3>2
    <2> QED BY <2>1, <2>2
  <1>2. \A p : p \in inc <=> p \in sel /\ ~\E a \in pure : IsAncestor(a, p) /\ Within(root, a)
    BY DEF Includes, Covered
  <1>3. \A p : p \in pure <=> /\ p \in Changed(entries) /\ Within(root, p) /\ isDir(p)
                              /\ kinds(p) = {marker} /\ marker \in filter
    BY DEF Pure
  <1>4. \A p : p \in sel <=> /\ p \in Changed(entries) /\ Within(root, p)
                             /\ kinds(p) \cap filter \cap side[1] # {}
                             /\ isDir(p) => kinds(p) \in {{"+"}, {"-"}}
    BY DEF Selected
  <1>5. \A p \in Changed(entries) : p \in Seq(STRING)
    <2> DEFINE R == [path : Seq(STRING), isDir : BOOLEAN, kinds : SUBSET Kinds]
    <2>0. entries \in Seq(R) /\ \A r \in R : r.path \in Seq(STRING)
      BY DEF DiffLines
    <2> HIDE DEF R
    <2>1. \A i \in DOMAIN entries : entries[i].path \in Seq(STRING)
      BY <2>0
    <2> QED BY <2>1 DEF Changed
  <1> HIDE DEF pure, sel, inc, kinds, isDir, marker
  <1>6. \A p \in pure : p \in sel
    BY <1>1, <1>3, <1>4
  <1>7. \A p \in inc : isDir(p) => p \in pure
    BY <1>1, <1>2, <1>3, <1>4
  <1>8. \A p, q \in inc : ~(IsAncestor(p, q) /\ isDir(p))
    BY <1>2, <1>3, <1>7
  <1>9. ASSUME NEW p \in sel PROVE p \in Restored(entries, inc)
    <2>1. p \in Changed(entries) /\ p \in Seq(STRING)
      BY <1>4, <1>5
    <2>2. CASE p \in inc
      BY <2>1, <2>2 DEF Restored
    <2>3. CASE p \notin inc
      <3> DEFINE C == {a \in pure : IsAncestor(a, p)}
                 L == {Len(a) : a \in C}
      <3>1. C # {} /\ \A a \in C : a \in Seq(STRING) /\ Len(a) \in Nat
        BY <1>2, <1>3, <1>5, <2>3
      <3>2. L # {} /\ L \in SUBSET Nat
        BY <3>1
      <3> HIDE DEF L
      <3>3. PICK k \in L : \A j \in L : k <= j
        BY ONLY <3>2, Least
      <3>4. PICK a \in C : Len(a) = k
        BY DEF L
      <3>5. ASSUME NEW b \in pure, IsAncestor(b, a) PROVE FALSE
        <4>1. b \in Seq(STRING) /\ a \in Seq(STRING) /\ IsAncestor(a, p)
          BY <1>3, <1>5, <3>1
        <4>2. IsAncestor(b, p) /\ Len(b) < Len(a)
          BY <2>1, <3>5, <4>1, AncestorOf
        <4>3. Len(b) \in L
          BY <3>5, <4>2 DEF L
        <4> QED BY <3>1, <3>2, <3>3, <3>4, <4>2, <4>3
      <3>6. a \in inc
        BY <1>2, <1>6, <3>5
      <3>7. IsAncestor(a, p) /\ isDir(a)
        BY <1>3
      <3> QED BY <2>1, <3>6, <3>7 DEF Restored, isDir
    <2> QED BY <2>2, <2>3
  <1>10. /\ sel \subseteq Restored(entries, inc) /\ inc \subseteq sel
         /\ \A p \in inc : isDir(p) => kinds(p) = {marker}
         /\ \A p, q \in inc : ~(IsAncestor(p, q) /\ isDir(p))
    BY <1>2, <1>3, <1>7, <1>8, <1>9
  <1> QED BY <1>10 DEF sel, inc, marker, isDir, kinds

-----------------------------------------------------------------------------
(* The tree of a diff: its rows line by line, then the counts path by      *)
(* path.                                                                   *)

\* FirstOf: what the library calls the least of a set of places is that.
LEMMA FirstOf ==
  ASSUME NEW S \in SUBSET Nat, S # {}
  PROVE  Min(S) \in S /\ \A i \in S : Min(S) <= i
  <1>1. PICK k \in S : \A j \in S : k <= j
    BY Least
  <1> QED BY <1>1 DEF Min

\* A tree of rows has one for each of some paths.
DiffPath == Seq(STRING)
DiffTypes == {"?", "T", "-", "+", "M", "U", "unknown"}
DiffRow == [type : DiffTypes, kinds : SUBSET Kinds, isDir : BOOLEAN]
RowMaps == UNION {[D -> DiffRow] : D \in SUBSET DiffPath}

\* What the fold over the lines of a diff chooses.
IsRowsFold(g, entries) ==
    g = [s \in SUBSET (DOMAIN entries) |->
           IF s = {} THEN [p \in {} |-> <<>>] ELSE EnsureEntry(g[s \ {Max(s)}], entries[Max(s)])]

LEMMA RowsChosen ==
  \A entries : DiffRows(entries) = (CHOOSE g : IsRowsFold(g, entries))[DOMAIN entries]
  BY DEF DiffRows, FoldLeft, MapThenFoldSet, IsRowsFold

\* The rows after each line.
RowsAfter(f, entries) ==
    /\ f[0] = [p \in {} |-> <<>>]
    /\ \A k \in 1..Len(entries) : f[k] = EnsureEntry(f[k - 1], entries[k])
    /\ DiffRows(entries) = f[Len(entries)]

LEMMA RowsIterate ==
  ASSUME NEW entries, DiffLines(entries),
         \A rows \in RowMaps, i \in DOMAIN entries : EnsureEntry(rows, entries[i]) \in RowMaps
  PROVE  \E f \in [0..Len(entries) -> RowMaps] : RowsAfter(f, entries)
  <1> DEFINE n == Len(entries)
             base == [p \in {} |-> <<>>]
             step == [x \in (1..n) \X RowMaps |-> EnsureEntry(x[2], entries[x[1]])]
             c == CHOOSE g : IsRowsFold(g, entries)
             f == [k \in 0..n |-> c[1..k]]
  <1>1. n \in Nat /\ DOMAIN entries = 1..n
    BY DEF DiffLines
  <1>2. base \in RowMaps
    <2>1. base \in [{} -> DiffRow] /\ {} \in SUBSET DiffPath
      OBVIOUS
    <2> HIDE DEF base
    <2> QED BY <2>1 DEF RowMaps
  <1>3. IsStep(step, n, RowMaps)
    <2> HIDE DEF n
    <2> QED BY <1>1 DEF IsStep
  <1>s. \A k \in 1..n, rows \in RowMaps : step[<<k, rows>>] = EnsureEntry(rows, entries[k])
    OBVIOUS
  <1> HIDE DEF n, base, step
  <1>4. PICK g : IsPlaceFold(g, step, base, n, RowMaps)
    BY <1>1, <1>2, <1>3, PlaceFold
  <1>5. IsRowsFold(g, entries)
    <2>1. ASSUME NEW s \in SUBSET (1..n), s # {}
          PROVE  g[s] = EnsureEntry(g[s \ {Max(s)}], entries[Max(s)])
      <3>1. Max(s) \in 1..n
        BY <1>1, <2>1, Last1
      <3>2. g[s \ {Max(s)}] \in RowMaps
        BY <1>4 DEF IsPlaceFold
      <3>3. g[s] = step[<<Max(s), g[s \ {Max(s)}]>>]
        BY <1>4, <2>1 DEF IsPlaceFold
      <3> QED BY <1>s, <3>1, <3>2, <3>3
    <2>2. g[{}] = base /\ g = [s \in SUBSET (1..n) |-> g[s]]
      BY <1>4 DEF IsPlaceFold
    <2> QED BY <1>1, <2>1, <2>2 DEF IsRowsFold, base
  <1>6. IsRowsFold(c, entries)
    BY <1>5
  <1>7. DiffRows(entries) = c[1..n]
    BY <1>1, RowsChosen
  <1> HIDE DEF c
  <1>8. c[{}] = base
    BY <1>6 DEF IsRowsFold, base
  <1>9. ASSUME NEW k \in 1..n PROVE c[1..k] = EnsureEntry(c[1..(k - 1)], entries[k])
    <2>1. n \in Nat
      BY <1>1
    <2>2. Max(1..k) = k /\ (1..k) \ {k} = 1..(k - 1) /\ (1..k) \in SUBSET (1..n) /\ 1..k # {}
      BY ONLY <2>1, k \in 1..n, LastOfAll
    <2> QED BY <1>1, <1>6, <2>2 DEF IsRowsFold
  <1>10. Iterates(f, step, base, n, RowMaps)
    <2>1. \A k \in 1..n : c[1..(k - 1)] \in RowMaps => c[1..k] = step[<<k, c[1..(k - 1)]>>]
      BY <1>s, <1>9
    <2>2. PICK h : h = f
      OBVIOUS
    <2> QED BY ONLY <1>1, <1>2, <1>3, <1>8, <2>1, <2>2, FoldPrefix
  <1>11. f \in [0..n -> RowMaps] /\ f[0] = base /\ \A k \in 1..n : f[k] = step[<<k, f[k - 1]>>]
    BY <1>10 DEF Iterates
  <1>12. f[n] = c[1..n]
    BY <1>1
  <1> HIDE DEF f
  <1>13. \A k \in 1..n : f[k] = EnsureEntry(f[k - 1], entries[k])
    <2> SUFFICES ASSUME NEW k \in 1..n PROVE f[k] = EnsureEntry(f[k - 1], entries[k])
      OBVIOUS
    <2>1. k - 1 \in 0..n
      BY <1>1
    <2>2. f[k - 1] \in RowMaps
      BY <1>11, <2>1
    <2> QED BY <1>s, <1>11, <2>2
  <1> QED BY <1>7, <1>11, <1>12, <1>13 DEF RowsAfter, n, base

\* A line that has markers has a type.
LEMMA Primary ==
  /\ PrimaryChangeType({}) = "unknown"
  /\ \A kinds \in SUBSET Kinds : /\ PrimaryChangeType(kinds) \in DiffTypes
                                 /\ kinds # {} => PrimaryChangeType(kinds) # "unknown"
  <1> DEFINE order == <<"?", "T", "-", "+", "M", "U">>
             I(kinds) == {i \in 1..6 : order[i] \in kinds}
  <1>0. /\ Len(order) = 6 /\ order[1] = "?" /\ order[2] = "T" /\ order[3] = "-" /\ order[4] = "+"
        /\ order[5] = "M" /\ order[6] = "U"
    OBVIOUS
  <1>1. Len(order) = 6 /\ \A i \in 1..6 : order[i] \in DiffTypes \ {"unknown"}
    <2> HIDE DEF order
    <2>1. \A i \in 1..6 : i = 1 \/ i = 2 \/ i = 3 \/ i = 4 \/ i = 5 \/ i = 6
      OBVIOUS
    <2> QED BY <1>0, <2>1 DEF DiffTypes
  <1>2. ASSUME NEW kinds
        PROVE  PrimaryChangeType(kinds) = IF I(kinds) = {} THEN "unknown" ELSE order[Min(I(kinds))]
    <2>1. SelectInSeq(order, LAMBDA k : k \in kinds) = IF I(kinds) # {} THEN Min(I(kinds)) ELSE 0
      BY <1>1 DEF SelectInSeq
    <2>2. I(kinds) # {} => Min(I(kinds)) \in 1..6
      BY FirstOf
    <2> QED BY <2>1, <2>2 DEF PrimaryChangeType
  <1>3. ASSUME NEW kinds \in SUBSET Kinds, kinds # {} PROVE I(kinds) # {}
    <2>1. \A k \in Kinds : \E i \in 1..6 : order[i] = k
      BY <1>0 DEF Kinds
    <2> QED BY <1>3, <2>1
  <1>4. \A kinds : I(kinds) # {} => Min(I(kinds)) \in 1..6
    BY FirstOf
  <1>5. I({}) = {}
    OBVIOUS
  <1> HIDE DEF order, I
  <1>6. PrimaryChangeType({}) = "unknown"
    BY <1>2, <1>5
  <1>7. ASSUME NEW kinds \in SUBSET Kinds PROVE PrimaryChangeType(kinds) \in DiffTypes
    <2>1. CASE I(kinds) = {}
      <3>1. PrimaryChangeType(kinds) = "unknown"
        BY <1>2, <2>1
      <3> QED BY <3>1 DEF DiffTypes
    <2>2. CASE I(kinds) # {}
      <3>1. Min(I(kinds)) \in 1..6 /\ PrimaryChangeType(kinds) = order[Min(I(kinds))]
        BY <1>2, <1>4, <2>2
      <3> QED BY <1>1, <3>1
    <2> QED BY <2>1, <2>2
  <1>8. ASSUME NEW kinds \in SUBSET Kinds, kinds # {} PROVE PrimaryChangeType(kinds) # "unknown"
    <2>1. Min(I(kinds)) \in 1..6 /\ PrimaryChangeType(kinds) = order[Min(I(kinds))]
      BY <1>2, <1>3, <1>4, <1>8
    <2> QED BY <1>1, <2>1
  <1> QED BY <1>6, <1>7, <1>8

LEMMA RowMap ==
  ASSUME NEW rows
  PROVE  rows \in RowMaps <=> rows = [p \in DOMAIN rows |-> rows[p]] /\ DOMAIN rows \subseteq DiffPath
                                /\ \A p \in DOMAIN rows : rows[p] \in DiffRow
  BY DEF RowMaps

\* ensure, taken apart.
Merged(prev, isDir, type, kinds) ==
    [type |-> IF prev.kinds # {} /\ kinds # {} THEN PrimaryChangeType(prev.kinds \cup kinds)
              ELSE IF type # "unknown" THEN type ELSE prev.type,
     kinds |-> prev.kinds \cup kinds,
     isDir |-> IF type # "unknown" THEN isDir ELSE prev.isDir]

LEMMA EnsureIs ==
  ASSUME NEW rows, NEW p, NEW isDir, NEW type, NEW kinds
  PROVE  Ensure(rows, p, isDir, type, kinds) =
           [q \in DOMAIN rows \cup {p} |->
              IF q # p THEN rows[q]
              ELSE IF p \in DOMAIN rows THEN Merged(rows[p], isDir, type, kinds)
              ELSE [type |-> type, kinds |-> kinds, isDir |-> isDir]]
  BY DEF Ensure, Merged

LEMMA EnsureType ==
  ASSUME NEW rows \in RowMaps, NEW p \in DiffPath, NEW isDir \in BOOLEAN, NEW type \in DiffTypes, NEW kinds \in SUBSET Kinds
  PROVE  Ensure(rows, p, isDir, type, kinds) \in RowMaps
  <1>1. \A q \in DOMAIN rows : q \in DiffPath /\ rows[q] \in DiffRow
    BY RowMap
  <1>2. ASSUME p \in DOMAIN rows PROVE Merged(rows[p], isDir, type, kinds) \in DiffRow
    <2>1. /\ rows[p].kinds \in SUBSET Kinds /\ rows[p].type \in DiffTypes /\ rows[p].isDir \in BOOLEAN
      BY <1>1, <1>2 DEF DiffRow
    <2>2. PrimaryChangeType(rows[p].kinds \cup kinds) \in DiffTypes
      BY <2>1, Primary
    <2> QED BY <2>1, <2>2 DEF Merged, DiffRow
  <1>3. [type |-> type, kinds |-> kinds, isDir |-> isDir] \in DiffRow
    BY DEF DiffRow
  <1>4. PICK e : e = Ensure(rows, p, isDir, type, kinds)
    OBVIOUS
  <1>5. /\ DOMAIN e = DOMAIN rows \cup {p} /\ e = [q \in DOMAIN e |-> e[q]]
        /\ \A q \in DOMAIN e : e[q] \in DiffRow
    BY <1>1, <1>2, <1>3, <1>4, EnsureIs
  <1> QED BY <1>1, <1>4, <1>5, RowMap

-----------------------------------------------------------------------------
(* The ancestors of a path.                                                *)

AboveOf(p) == {SubSeq(p, 1, j) : j \in 0..(Len(p) - 1)}
NewDir == [type |-> "unknown", kinds |-> {}, isDir |-> TRUE]
WithDirs(rows, S) == [q \in DOMAIN rows \cup S |-> IF q \in DOMAIN rows THEN rows[q] ELSE NewDir]

LEMMA AncestorEnsured ==
  ASSUME NEW rows \in RowMaps, NEW p \in DiffPath
  PROVE  Ensure(rows, p, TRUE, "unknown", {}) = WithDirs(rows, {p})
  <1>1. ASSUME p \in DOMAIN rows PROVE Merged(rows[p], TRUE, "unknown", {}) = rows[p]
    <2>1. rows[p] \in DiffRow
      BY <1>1, RowMap
    <2> QED BY <2>1 DEF Merged, DiffRow
  <1>2. WithDirs(rows, {p}) =
           [q \in DOMAIN rows \cup {p} |->
              IF q # p THEN rows[q] ELSE IF p \in DOMAIN rows THEN rows[p] ELSE NewDir]
    BY DEF WithDirs
  <1> QED BY <1>1, <1>2, EnsureIs DEF NewDir

\* Adding directories twice adds all of them once.
LEMMA WithDirsTwice ==
  ASSUME NEW rows, NEW S, NEW T
  PROVE  WithDirs(WithDirs(rows, S), T) = WithDirs(rows, S \cup T)
  BY DEF WithDirs

\* Its fold.
Ancestors(p) == [i \in 1..Len(p) |-> SubSeq(p, 1, Len(p) - i)]
AddAll(rows, list) == FoldLeft(LAMBDA r, anc : Ensure(r, anc, TRUE, "unknown", {}), rows, list)

IsAddFold(g, rows, list) ==
    g = [s \in SUBSET (DOMAIN list) |->
           IF s = {} THEN rows ELSE Ensure(g[s \ {Max(s)}], list[Max(s)], TRUE, "unknown", {})]

LEMMA AddChosen ==
  \A rows, list : AddAll(rows, list) = (CHOOSE g : IsAddFold(g, rows, list))[DOMAIN list]
  BY DEF AddAll, FoldLeft, MapThenFoldSet, IsAddFold

LEMMA EnsureEntryIs ==
  ASSUME NEW rows, NEW e
  PROVE  EnsureEntry(rows, e) =
           AddAll(Ensure(rows, e.path, e.isDir, PrimaryChangeType(e.kinds), e.kinds), Ancestors(e.path))
  BY DEF EnsureEntry, AddAll, Ancestors

LEMMA AddedAll ==
  ASSUME NEW rows \in RowMaps, NEW list \in Seq(DiffPath)
  PROVE  AddAll(rows, list) = WithDirs(rows, {list[i] : i \in DOMAIN list}) /\ AddAll(rows, list) \in RowMaps
  <1> DEFINE n == Len(list)
             c == CHOOSE g : IsAddFold(g, rows, list)
             step == [x \in (1..n) \X RowMaps |-> Ensure(x[2], list[x[1]], TRUE, "unknown", {})]
  <1>1. n \in Nat /\ DOMAIN list = 1..n /\ \A k \in 1..n : list[k] \in DiffPath
    OBVIOUS
  <1>2. \A k \in 1..n, r \in RowMaps : Ensure(r, list[k], TRUE, "unknown", {}) \in RowMaps
    <2>1. "unknown" \in DiffTypes /\ {} \in SUBSET Kinds /\ TRUE \in BOOLEAN
      BY DEF DiffTypes
    <2> QED BY <1>1, <2>1, EnsureType
  <1>3. IsStep(step, n, RowMaps)
    <2> HIDE DEF n
    <2> QED BY <1>2 DEF IsStep
  <1>s. \A k \in 1..n, r \in RowMaps : step[<<k, r>>] = Ensure(r, list[k], TRUE, "unknown", {})
    OBVIOUS
  <1> HIDE DEF n, step
  <1>4. PICK g : IsPlaceFold(g, step, rows, n, RowMaps)
    BY <1>1, <1>3, PlaceFold
  <1>5. IsAddFold(g, rows, list)
    <2>1. ASSUME NEW s \in SUBSET (1..n), s # {}
          PROVE  g[s] = Ensure(g[s \ {Max(s)}], list[Max(s)], TRUE, "unknown", {})
      <3>1. Max(s) \in 1..n
        BY <1>1, <2>1, Last1
      <3>2. g[s \ {Max(s)}] \in RowMaps
        BY <1>4 DEF IsPlaceFold
      <3>3. g[s] = step[<<Max(s), g[s \ {Max(s)}]>>]
        BY <1>4, <2>1 DEF IsPlaceFold
      <3> QED BY <1>s, <3>1, <3>2, <3>3
    <2>2. g[{}] = rows /\ g = [s \in SUBSET (1..n) |-> g[s]]
      BY <1>4 DEF IsPlaceFold
    <2> QED BY <1>1, <2>1, <2>2 DEF IsAddFold
  <1>6. IsAddFold(c, rows, list)
    BY <1>5
  <1>7. AddAll(rows, list) = c[1..n]
    BY <1>1, AddChosen
  <1> HIDE DEF c
  <1>8. c[{}] = rows
    BY <1>6 DEF IsAddFold
  <1>9. ASSUME NEW k \in 1..n PROVE c[1..k] = Ensure(c[1..(k - 1)], list[k], TRUE, "unknown", {})
    <2>1. n \in Nat
      BY <1>1
    <2>2. Max(1..k) = k /\ (1..k) \ {k} = 1..(k - 1) /\ (1..k) \in SUBSET (1..n) /\ 1..k # {}
      BY ONLY <2>1, k \in 1..n, LastOfAll
    <2> QED BY <1>1, <1>6, <2>2 DEF IsAddFold
  <1> DEFINE Q == {k \in 0..n : c[1..k] \in RowMaps /\ c[1..k] = WithDirs(rows, {list[i] : i \in 1..k})}
  <1>10. 0 \in Q
    <2>1. 1..0 = {} /\ {list[i] : i \in 1..0} = {}
      OBVIOUS
    <2>2. WithDirs(rows, {}) = rows
      BY RowMap DEF WithDirs
    <2>3. c[1..0] = rows /\ 0 \in 0..n
      BY <1>1, <1>8, <2>1
    <2> QED BY <2>1, <2>2, <2>3
  <1>11. ASSUME NEW j \in 0..(n - 1), j \in Q PROVE j + 1 \in Q
    <2>1. PICK k : k = j + 1
      OBVIOUS
    <2>2. k \in 1..n /\ k - 1 = j
      BY <1>1, <2>1
    <2>3. c[1..j] \in RowMaps /\ c[1..j] = WithDirs(rows, {list[i] : i \in 1..j})
      BY <1>11
    <2>4. c[1..k] = Ensure(c[1..j], list[k], TRUE, "unknown", {})
      BY <1>9, <2>2
    <2>5. c[1..k] \in RowMaps /\ c[1..k] = WithDirs(c[1..j], {list[k]})
      BY <1>1, <1>2, <2>2, <2>3, <2>4, AncestorEnsured
    <2>6. {list[i] : i \in 1..j} \cup {list[k]} = {list[i] : i \in 1..k}
      <3>1. 1..k = (1..j) \cup {k}
        BY <1>1, <2>2
      <3> QED BY ONLY <3>1
    <2>7. c[1..k] = WithDirs(rows, {list[i] : i \in 1..k})
      <3>1. WithDirs(WithDirs(rows, {list[i] : i \in 1..j}), {list[k]}) =
              WithDirs(rows, {list[i] : i \in 1..j} \cup {list[k]})
        BY ONLY WithDirsTwice
      <3> QED BY ONLY <2>3, <2>5, <2>6, <3>1
    <2> QED BY <1>1, <2>1, <2>2, <2>5, <2>7
  <1> HIDE DEF Q
  <1>12. \A k \in 0..n : k \in Q
    BY ONLY <1>10, <1>11, <1>1, Induction
  <1>13. n \in Q
    BY <1>1, <1>12
  <1> QED BY <1>1, <1>7, <1>13 DEF Q

LEMMA AncestorsOf ==
  ASSUME NEW p \in DiffPath
  PROVE  /\ Ancestors(p) \in Seq(DiffPath) /\ {Ancestors(p)[i] : i \in DOMAIN Ancestors(p)} = AboveOf(p)
         /\ p \notin AboveOf(p) /\ AboveOf(p) \subseteq DiffPath
         /\ \A q \in DiffPath : q \in AboveOf(p) <=> IsAncestor(q, p)
  <1>1. Len(p) \in Nat
    BY DEF DiffPath
  <1>2. \A j \in 0..Len(p) : SubSeq(p, 1, j) \in DiffPath /\ Len(SubSeq(p, 1, j)) = j
    BY DEF DiffPath
  <1>3. \A i \in 1..Len(p) : Len(p) - i \in 0..(Len(p) - 1)
    BY <1>1
  <1>4. Ancestors(p) \in Seq(DiffPath) /\ DOMAIN Ancestors(p) = 1..Len(p)
    BY <1>1, <1>2, <1>3 DEF Ancestors
  <1>5. {Ancestors(p)[i] : i \in DOMAIN Ancestors(p)} = AboveOf(p)
    <2>1. ASSUME NEW i \in 1..Len(p) PROVE Ancestors(p)[i] \in AboveOf(p)
      BY <1>3 DEF Ancestors, AboveOf
    <2>2. ASSUME NEW j \in 0..(Len(p) - 1) PROVE \E i \in 1..Len(p) : Ancestors(p)[i] = SubSeq(p, 1, j)
      <3>1. Len(p) - j \in 1..Len(p) /\ Len(p) - (Len(p) - j) = j
        BY <1>1
      <3>2. Ancestors(p)[Len(p) - j] = SubSeq(p, 1, j)
        BY <3>1 DEF Ancestors
      <3> QED BY <3>1, <3>2
    <2> QED BY <1>4, <2>1, <2>2 DEF AboveOf
  <1>6. p \notin AboveOf(p) /\ AboveOf(p) \subseteq DiffPath
    <2>1. ASSUME NEW q \in AboveOf(p) PROVE q \in DiffPath /\ q # p
      <3>1. PICK j \in 0..(Len(p) - 1) : q = SubSeq(p, 1, j)
        BY DEF AboveOf
      <3>2. j \in 0..Len(p) /\ j # Len(p)
        BY <1>1
      <3> QED BY <1>2, <3>1, <3>2
    <2> QED BY <2>1
  <1>7. ASSUME NEW q \in DiffPath PROVE q \in AboveOf(p) <=> IsAncestor(q, p)
    <2>1. Len(q) \in Nat
      BY DEF DiffPath
    <2>2. ASSUME q \in AboveOf(p) PROVE IsAncestor(q, p)
      <3>1. PICK j \in 0..(Len(p) - 1) : q = SubSeq(p, 1, j)
        BY <2>2 DEF AboveOf
      <3>2. Len(q) = j
        BY <1>1, <1>2, <3>1
      <3> QED BY <1>1, <3>1, <3>2 DEF IsAncestor
    <2>3. ASSUME IsAncestor(q, p) PROVE q \in AboveOf(p)
      <3>1. Len(q) \in 0..(Len(p) - 1) /\ q = SubSeq(p, 1, Len(q))
        BY <1>1, <2>1, <2>3 DEF IsAncestor
      <3> QED BY <3>1 DEF AboveOf
    <2> QED BY <2>2, <2>3
  <1> QED BY <1>4, <1>5, <1>6, <1>7

-----------------------------------------------------------------------------
(* The rows after k lines.                                                 *)

\* What restic prints: a marker at least, a path is a directory in all of its
\* lines or in none, and what has a line below it is a directory.
Consistent(entries) ==
    \A i, j \in DOMAIN entries :
        /\ entries[i].kinds # {}
        /\ entries[i].path = entries[j].path => entries[i].isDir = entries[j].isDir
        /\ IsAncestor(entries[i].path, entries[j].path) => entries[i].isDir

ChangedIn(entries, k) == {entries[i].path : i \in 1..k}
AboveIn(entries, k) == UNION {AboveOf(entries[i].path) : i \in 1..k}
KindsIn(entries, k, p) == UNION {entries[i].kinds : i \in {j \in 1..k : entries[j].path = p}}
IsDirIn(entries, k, p) == p \in AboveIn(entries, k) \/ \E i \in 1..k : entries[i].path = p /\ entries[i].isDir
TreeRow(entries, k, p) ==
    [type |-> PrimaryChangeType(KindsIn(entries, k, p)), kinds |-> KindsIn(entries, k, p), isDir |-> IsDirIn(entries, k, p)]
TreeRows(entries, k) == [p \in ChangedIn(entries, k) \cup AboveIn(entries, k) |-> TreeRow(entries, k, p)]

LEMMA EntryType ==
  ASSUME NEW entries, DiffLines(entries), NEW i \in DOMAIN entries
  PROVE  entries[i].path \in DiffPath /\ entries[i].isDir \in BOOLEAN /\ entries[i].kinds \in SUBSET Kinds
  <1> DEFINE R == [path : Seq(STRING), isDir : BOOLEAN, kinds : SUBSET Kinds]
  <1>1. entries \in Seq(R)
    BY DEF DiffLines
  <1>2. entries[i] \in R
    <2> HIDE DEF R
    <2> QED BY <1>1
  <1> QED BY <1>2 DEF DiffPath

LEMMA EntryEnsured ==
  ASSUME NEW entries, DiffLines(entries), NEW i \in DOMAIN entries, NEW rows \in RowMaps
  PROVE  /\ EnsureEntry(rows, entries[i]) \in RowMaps
         /\ EnsureEntry(rows, entries[i]) =
              WithDirs(Ensure(rows, entries[i].path, entries[i].isDir, PrimaryChangeType(entries[i].kinds), entries[i].kinds),
                       AboveOf(entries[i].path))
  <1>1. PICK e : e = entries[i]
    OBVIOUS
  <1>2. e.path \in DiffPath /\ e.isDir \in BOOLEAN /\ e.kinds \in SUBSET Kinds
    BY <1>1, EntryType
  <1>3. PrimaryChangeType(e.kinds) \in DiffTypes
    BY <1>2, Primary
  <1>4. Ensure(rows, e.path, e.isDir, PrimaryChangeType(e.kinds), e.kinds) \in RowMaps
    BY <1>2, <1>3, EnsureType
  <1>5. Ancestors(e.path) \in Seq(DiffPath) /\ {Ancestors(e.path)[x] : x \in DOMAIN Ancestors(e.path)} = AboveOf(e.path)
    BY <1>2, AncestorsOf
  <1> QED BY <1>1, <1>4, <1>5, AddedAll, EnsureEntryIs

\* ensure of the next line and of what is above it brings the tree of that many lines.
LEMMA OneMoreLine ==
  ASSUME NEW entries, DiffLines(entries), Consistent(entries), NEW k \in DOMAIN entries,
         TreeRows(entries, k - 1) \in RowMaps
  PROVE  EnsureEntry(TreeRows(entries, k - 1), entries[k]) = TreeRows(entries, k)
  <1> DEFINE e == entries[k]
             old == TreeRows(entries, k - 1)
             mid == Ensure(old, e.path, e.isDir, PrimaryChangeType(e.kinds), e.kinds)
  <1>1. DOMAIN entries = 1..Len(entries) /\ Len(entries) \in Nat /\ 1..k = (1..(k - 1)) \cup {k} /\ k \notin 1..(k - 1)
        /\ 1..(k - 1) \subseteq DOMAIN entries
    BY DEF DiffLines
  <1>2. e.path \in DiffPath /\ e.isDir \in BOOLEAN /\ e.kinds \in SUBSET Kinds /\ e.kinds # {}
    BY EntryType DEF Consistent
  <1>3. EnsureEntry(old, e) = WithDirs(mid, AboveOf(e.path))
    BY EntryEnsured
  <1>4. e.path \notin AboveOf(e.path) /\ PrimaryChangeType(e.kinds) # "unknown"
    BY <1>2, AncestorsOf, Primary
  <1>5. /\ ChangedIn(entries, k) = ChangedIn(entries, k - 1) \cup {e.path}
        /\ AboveIn(entries, k) = AboveIn(entries, k - 1) \cup AboveOf(e.path)
    BY <1>1 DEF ChangedIn, AboveIn
  <1>6. \A p : KindsIn(entries, k, p) = KindsIn(entries, k - 1, p) \cup (IF p = e.path THEN e.kinds ELSE {})
    BY <1>1 DEF KindsIn
  <1>7. \A p : p \notin ChangedIn(entries, k - 1) => KindsIn(entries, k - 1, p) = {}
    BY DEF KindsIn, ChangedIn
  \* Whatever line says so, a path is a directory or not.
  <1>8. ASSUME NEW p \in ChangedIn(entries, k) PROVE IsDirIn(entries, k, p) <=> \E i \in 1..k : entries[i].path = p /\ entries[i].isDir
    <2>1. ASSUME p \in AboveIn(entries, k) PROVE \E i \in 1..k : entries[i].path = p /\ entries[i].isDir
      <3>1. PICK i \in 1..k : entries[i].path = p
        BY DEF ChangedIn
      <3>2. PICK j \in 1..k : p \in AboveOf(entries[j].path)
        BY <2>1 DEF AboveIn
      <3>3. i \in DOMAIN entries /\ j \in DOMAIN entries
        BY <1>1
      <3>4. IsAncestor(p, entries[j].path)
        BY <3>1, <3>2, <3>3, EntryType, AncestorsOf
      <3> QED BY <3>1, <3>3, <3>4 DEF Consistent
    <2> QED BY <2>1 DEF IsDirIn
  <1>9. IsDirIn(entries, k, e.path) <=> e.isDir
    <2>1. e.path \in ChangedIn(entries, k) /\ k \in 1..k
      BY <1>1, <1>5
    <2>2. \A i \in 1..k : entries[i].path = e.path => entries[i].isDir = e.isDir
      BY <1>1 DEF Consistent
    <2> QED BY <1>8, <2>1, <2>2
  <1>10. ASSUME NEW p \in ChangedIn(entries, k - 1) \cup AboveIn(entries, k - 1), p # e.path
         PROVE  TreeRow(entries, k, p) = TreeRow(entries, k - 1, p)
    <2>1. KindsIn(entries, k, p) = KindsIn(entries, k - 1, p)
      BY <1>6, <1>10
    <2>2. CASE p \in AboveIn(entries, k - 1)
      BY <1>5, <2>1, <2>2 DEF TreeRow, IsDirIn
    <2>3. CASE p \notin AboveIn(entries, k - 1)
      <3>1. p \in ChangedIn(entries, k)
        BY <1>5, <2>3
      <3>2. IsDirIn(entries, k, p) <=> \E i \in 1..(k - 1) : entries[i].path = p /\ entries[i].isDir
        BY <1>1, <1>8, <1>10, <3>1
      <3>3. IsDirIn(entries, k - 1, p) <=> \E i \in 1..(k - 1) : entries[i].path = p /\ entries[i].isDir
        BY <2>3 DEF IsDirIn
      <3>4. IsDirIn(entries, k, p) = IsDirIn(entries, k - 1, p)
        BY <3>2, <3>3 DEF IsDirIn
      <3> QED BY <2>1, <3>4 DEF TreeRow
    <2> QED BY <2>2, <2>3
  <1>11. ASSUME NEW p \in AboveOf(e.path), p \notin ChangedIn(entries, k - 1) \cup AboveIn(entries, k - 1)
         PROVE  TreeRow(entries, k, p) = NewDir
    <2>1. KindsIn(entries, k, p) = {}
      BY <1>4, <1>6, <1>7, <1>11
    <2>2. IsDirIn(entries, k, p) = TRUE
      BY <1>5 DEF IsDirIn
    <2> QED BY <2>1, <2>2, Primary DEF TreeRow, NewDir
  <1>12. mid[e.path] = TreeRow(entries, k, e.path)
    <2> DEFINE kinds == KindsIn(entries, k - 1, e.path)
    <2>1. KindsIn(entries, k, e.path) = kinds \cup e.kinds
      BY <1>6
    <2>2. IsDirIn(entries, k, e.path) = e.isDir
      BY <1>2, <1>9 DEF IsDirIn
    <2>3. CASE e.path \in DOMAIN old
      <3>1. mid[e.path] = Merged(old[e.path], e.isDir, PrimaryChangeType(e.kinds), e.kinds)
        BY <2>3, EnsureIs
      <3>2. old[e.path].kinds = kinds
        BY <2>3 DEF TreeRows, TreeRow
      <3>3. kinds = {} => kinds \cup e.kinds = e.kinds
        OBVIOUS
      <3> QED BY <1>2, <1>4, <2>1, <2>2, <3>1, <3>2, <3>3 DEF Merged, TreeRow
    <2>4. CASE e.path \notin DOMAIN old
      <3>1. mid[e.path] = [type |-> PrimaryChangeType(e.kinds), kinds |-> e.kinds, isDir |-> e.isDir]
        BY <2>4, EnsureIs
      <3>2. kinds = {}
        BY <1>7, <2>4 DEF TreeRows
      <3>3. kinds \cup e.kinds = e.kinds
        BY <3>2
      <3> QED BY <2>1, <2>2, <3>1, <3>3 DEF TreeRow
    <2> QED BY <2>3, <2>4
  <1>13. DOMAIN old = ChangedIn(entries, k - 1) \cup AboveIn(entries, k - 1) /\ \A p \in DOMAIN old : old[p] = TreeRow(entries, k - 1, p)
    BY DEF TreeRows
  <1>14. DOMAIN mid = DOMAIN old \cup {e.path} /\ \A p \in DOMAIN old : p # e.path => mid[p] = old[p]
    BY EnsureIs
  <1> HIDE DEF e, old, mid
  <1>15. WithDirs(mid, AboveOf(e.path)) = [p \in ChangedIn(entries, k) \cup AboveIn(entries, k) |-> TreeRow(entries, k, p)]
    <2>1. DOMAIN mid \cup AboveOf(e.path) = ChangedIn(entries, k) \cup AboveIn(entries, k)
      BY <1>5, <1>13, <1>14
    <2>2. ASSUME NEW p \in DOMAIN mid \cup AboveOf(e.path)
          PROVE  (IF p \in DOMAIN mid THEN mid[p] ELSE NewDir) = TreeRow(entries, k, p)
      BY <1>10, <1>11, <1>12, <1>13, <1>14
    <2> QED BY <2>1, <2>2 DEF WithDirs
  <1> QED BY <1>3, <1>15 DEF TreeRows, e, old

\* BuildDiffTree ends with the rows of all lines.
LEMMA RowsBuilt ==
  ASSUME NEW entries, DiffLines(entries), Consistent(entries)
  PROVE  DiffRows(entries) = TreeRows(entries, Len(entries))
  <1> DEFINE n == Len(entries)
  <1>1. n \in Nat /\ DOMAIN entries = 1..n
    BY DEF DiffLines
  <1>2. \A rows \in RowMaps, i \in DOMAIN entries : EnsureEntry(rows, entries[i]) \in RowMaps
    BY EntryEnsured
  <1>3. PICK f \in [0..n -> RowMaps] : RowsAfter(f, entries)
    BY <1>2, RowsIterate
  <1> DEFINE Q == {k \in 0..n : f[k] = TreeRows(entries, k)}
  <1>4. 0 \in Q
    <2>1. ChangedIn(entries, 0) \cup AboveIn(entries, 0) = {}
      BY DEF ChangedIn, AboveIn
    <2>2. TreeRows(entries, 0) = [p \in {} |-> <<>>]
      BY <2>1 DEF TreeRows
    <2> QED BY <1>1, <1>3, <2>2 DEF RowsAfter
  <1>5. ASSUME NEW j \in 0..(n - 1), j \in Q PROVE j + 1 \in Q
    <2>1. PICK k : k = j + 1
      OBVIOUS
    <2>2. k \in 1..n /\ k - 1 = j /\ k \in 0..n /\ j \in 0..n
      BY <1>1, <2>1
    <2>3. f[j] = TreeRows(entries, k - 1) /\ f[j] \in RowMaps
      BY <1>3, <1>5, <2>2
    <2>4. f[k] = EnsureEntry(f[j], entries[k])
      BY <1>3, <2>2 DEF RowsAfter
    <2>5. f[k] = TreeRows(entries, k)
      BY <1>1, <2>2, <2>3, <2>4, OneMoreLine
    <2> QED BY <2>1, <2>2, <2>5
  <1> HIDE DEF Q
  <1>6. \A k \in 0..n : k \in Q
    BY ONLY <1>1, <1>4, <1>5, Induction
  <1> QED BY <1>1, <1>3, <1>6 DEF Q, RowsAfter

-----------------------------------------------------------------------------
(* The order of the paths, and the counts of a directory.                  *)

AddPath(order, e) == IF Contains(order, e.path) THEN order ELSE Append(order, e.path)

IsOrderFold(g, entries) ==
    g = [s \in SUBSET (DOMAIN entries) |-> IF s = {} THEN <<>> ELSE AddPath(g[s \ {Max(s)}], entries[Max(s)])]

LEMMA OrderChosen ==
  \A entries : PathOrder(entries) = (CHOOSE g : IsOrderFold(g, entries))[DOMAIN entries]
  BY DEF PathOrder, FoldLeft, MapThenFoldSet, IsOrderFold, AddPath

LEMMA ListedOnce ==
  ASSUME NEW S, NEW s, Lists(s, S), NEW p
  PROVE  Lists(IF Contains(s, p) THEN s ELSE Append(s, p), S \cup {p})
  <1>1. s \in Seq(S) /\ Len(s) \in Nat /\ DOMAIN s = 1..Len(s)
    BY DEF Lists
  <1>2. CASE Contains(s, p)
    <2>1. p \in S
      BY <1>1, <1>2 DEF Contains
    <2> QED BY <1>2, <2>1 DEF Lists
  <1>3. CASE ~Contains(s, p)
    <2>1. PICK t : t = Append(s, p)
      OBVIOUS
    <2>2. /\ t \in Seq(S \cup {p}) /\ Len(t) = Len(s) + 1 /\ DOMAIN t = 1..(Len(s) + 1) /\ t[Len(s) + 1] = p
          /\ \A i \in 1..Len(s) : t[i] = s[i]
      BY <1>1, <2>1
    <2>3. \A i \in 1..Len(s) : s[i] # p
      BY <1>3 DEF Contains
    <2>4. \A i \in DOMAIN t : i \in 1..Len(s) \/ i = Len(s) + 1
      BY <1>1, <2>2
    <2>5. \A i, j \in DOMAIN t : t[i] = t[j] => i = j
      BY <1>1, <2>2, <2>3, <2>4 DEF Lists
    <2>6. \A x \in S : \E i \in DOMAIN t : t[i] = x
      BY <1>1, <2>2 DEF Lists
    <2>7. Len(s) + 1 \in DOMAIN t
      BY <1>1, <2>2
    <2> QED BY <1>3, <2>1, <2>2, <2>5, <2>6, <2>7 DEF Lists
  <1> QED BY <1>2, <1>3

\* pathOrder has each changed path once.
LEMMA PathsOrdered ==
  ASSUME NEW entries, DiffLines(entries)
  PROVE  Lists(PathOrder(entries), Changed(entries))
  <1> DEFINE n == Len(entries)
             W == Seq(Changed(entries))
             c == CHOOSE g : IsOrderFold(g, entries)
             step == [x \in (1..n) \X W |-> AddPath(x[2], entries[x[1]])]
  <1>1. n \in Nat /\ DOMAIN entries = 1..n
    BY DEF DiffLines
  <1>e. <<>> \in W
    OBVIOUS
  <1>2. \A k \in 1..n, r \in W : AddPath(r, entries[k]) \in W
    <2>1. \A k \in 1..n : entries[k].path \in Changed(entries)
      BY <1>1 DEF Changed
    <2> QED BY <2>1 DEF AddPath
  <1> HIDE DEF n, W
  <1>3. IsStep(step, n, W)
    BY <1>2 DEF IsStep
  <1>s. \A k \in 1..n, r \in W : step[<<k, r>>] = AddPath(r, entries[k])
    OBVIOUS
  <1> HIDE DEF step
  <1>4. PICK g : IsPlaceFold(g, step, <<>>, n, W)
    BY <1>1, <1>e, <1>3, PlaceFold
  <1>5. IsOrderFold(g, entries)
    <2>1. ASSUME NEW s \in SUBSET (1..n), s # {}
          PROVE  g[s] = AddPath(g[s \ {Max(s)}], entries[Max(s)])
      <3>1. Max(s) \in 1..n
        BY <1>1, <2>1, Last1
      <3>2. g[s \ {Max(s)}] \in W
        BY <1>4 DEF IsPlaceFold
      <3>3. g[s] = step[<<Max(s), g[s \ {Max(s)}]>>]
        BY <1>4, <2>1 DEF IsPlaceFold
      <3> QED BY <1>s, <3>1, <3>2, <3>3
    <2>2. g[{}] = <<>> /\ g = [s \in SUBSET (1..n) |-> g[s]]
      BY <1>4 DEF IsPlaceFold
    <2> QED BY <1>1, <2>1, <2>2 DEF IsOrderFold
  <1>6. IsOrderFold(c, entries)
    BY <1>5
  <1>7. PathOrder(entries) = c[1..n]
    BY <1>1, OrderChosen
  <1> HIDE DEF c
  <1>8. c[{}] = <<>>
    BY <1>6 DEF IsOrderFold
  <1>9. ASSUME NEW k \in 1..n PROVE c[1..k] = AddPath(c[1..(k - 1)], entries[k])
    <2>1. n \in Nat
      BY <1>1
    <2>2. Max(1..k) = k /\ (1..k) \ {k} = 1..(k - 1) /\ (1..k) \in SUBSET (1..n) /\ 1..k # {}
      BY ONLY <2>1, k \in 1..n, LastOfAll
    <2> QED BY <1>1, <1>6, <2>2 DEF IsOrderFold
  <1> DEFINE Q == {k \in 0..n : Lists(c[1..k], ChangedIn(entries, k))}
  <1>10. 0 \in Q
    <2>1. 1..0 = {} /\ ChangedIn(entries, 0) = {} /\ 0 \in 0..n
      BY <1>1 DEF ChangedIn
    <2>2. Lists(<<>>, {})
      BY DEF Lists
    <2> QED BY <1>8, <2>1, <2>2
  <1>11. ASSUME NEW j \in 0..(n - 1), j \in Q PROVE j + 1 \in Q
    <2>1. PICK k : k = j + 1
      OBVIOUS
    <2>2. k \in 1..n /\ k - 1 = j /\ k \in 0..n /\ 1..k = (1..j) \cup {k}
      BY <1>1, <2>1
    <2>3. PICK s : s = c[1..j]
      OBVIOUS
    <2>4. PICK p : p = entries[k].path
      OBVIOUS
    <2>5. Lists(s, ChangedIn(entries, j))
      BY <1>11, <2>3
    <2>6. c[1..k] = IF Contains(s, p) THEN s ELSE Append(s, p)
      BY <1>9, <2>2, <2>3, <2>4 DEF AddPath
    <2>7. ChangedIn(entries, k) = ChangedIn(entries, j) \cup {p}
      BY <2>2, <2>4 DEF ChangedIn
    <2>8. Lists(c[1..k], ChangedIn(entries, k))
      BY <2>5, <2>6, <2>7, ListedOnce
    <2> QED BY <2>1, <2>2, <2>8
  <1> HIDE DEF Q
  <1>12. \A k \in 0..n : k \in Q
    BY ONLY <1>10, <1>11, <1>1, Induction
  <1>13. n \in Q /\ ChangedIn(entries, n) = Changed(entries)
    BY <1>1, <1>12 DEF ChangedIn, Changed
  <1> QED BY <1>7, <1>13 DEF Q

\* The counts after each path, and the paths they count.
IsAggFold(g, entries, base, list) ==
    g = [s \in SUBSET (DOMAIN list) |-> IF s = {} THEN base ELSE AddKinds(entries, g[s \ {Max(s)}], list[Max(s)])]
AddedKinds(entries, base, list) == FoldLeft(LAMBDA a, p : AddKinds(entries, a, p), base, list)
CountsFor(entries, d, p, x) == IsAncestor(d, p) /\ x \in MergedKinds(entries, p)
Counted(entries, list, k, d, x) == {list[i] : i \in {j \in 1..k : CountsFor(entries, d, list[j], x)}}
CountsIn(entries, list, k, D) == [d \in D |-> [x \in Kinds |-> Cardinality(Counted(entries, list, k, d, x))]]

LEMMA AggChosen ==
  \A entries, base, list :
     AddedKinds(entries, base, list) = (CHOOSE g : IsAggFold(g, entries, base, list))[DOMAIN list]
  BY DEF AddedKinds, FoldLeft, MapThenFoldSet, IsAggFold

LEMMA OneMoreCounted ==
  ASSUME NEW entries, NEW list, NEW S, Lists(list, S), NEW k \in 1..Len(list), NEW d, NEW x,
         IsFiniteSet(Counted(entries, list, k - 1, d, x))
  PROVE  /\ IsFiniteSet(Counted(entries, list, k, d, x))
         /\ Cardinality(Counted(entries, list, k, d, x)) =
              Cardinality(Counted(entries, list, k - 1, d, x)) + (IF CountsFor(entries, d, list[k], x) THEN 1 ELSE 0)
  <1> DEFINE old == Counted(entries, list, k - 1, d, x)
  <1>1. Len(list) \in Nat /\ DOMAIN list = 1..Len(list)
    BY DEF Lists
  <1>2. 1..k = (1..(k - 1)) \cup {k} /\ k \notin 1..(k - 1) /\ 1..k \subseteq DOMAIN list
    BY <1>1
  <1>3. CASE CountsFor(entries, d, list[k], x)
    <2>1. Counted(entries, list, k, d, x) = old \cup {list[k]}
      BY <1>2, <1>3 DEF Counted
    <2>2. list[k] \notin old
      BY <1>2 DEF Counted, Lists
    <2> HIDE DEF old
    <2>3. Cardinality(old) \in Nat
      BY FS_CardinalityType DEF old
    <2>4. IsFiniteSet(old \cup {list[k]}) /\ Cardinality(old \cup {list[k]}) = Cardinality(old) + 1
      <3>1. IsFiniteSet(old)
        BY DEF old
      <3> QED BY ONLY <2>2, <3>1, FS_AddElement
    <2> QED BY <1>3, <2>1, <2>4 DEF old
  <1>4. CASE ~CountsFor(entries, d, list[k], x)
    <2>1. Counted(entries, list, k, d, x) = old
      BY <1>2, <1>4 DEF Counted
    <2>2. Cardinality(old) \in Nat
      BY FS_CardinalityType
    <2> QED BY <1>4, <2>1, <2>2
  <1> QED BY <1>3, <1>4

LEMMA KindsCounted ==
  ASSUME NEW entries, NEW list, NEW S, Lists(list, S), NEW k \in 1..Len(list), NEW D,
         \A d \in D, x \in Kinds : IsFiniteSet(Counted(entries, list, k - 1, d, x))
  PROVE  AddKinds(entries, CountsIn(entries, list, k - 1, D), list[k]) = CountsIn(entries, list, k, D)
  <1> DEFINE old == CountsIn(entries, list, k - 1, D)
             row(d) == IF IsAncestor(d, list[k])
                       THEN [x \in Kinds |-> old[d][x] + IF x \in MergedKinds(entries, list[k]) THEN 1 ELSE 0]
                       ELSE old[d]
  <1>1. ASSUME NEW d \in D PROVE row(d) = [x \in Kinds |-> Cardinality(Counted(entries, list, k, d, x))]
    <2>1. old[d] = [x \in Kinds |-> Cardinality(Counted(entries, list, k - 1, d, x))]
      BY DEF CountsIn
    <2>2. \A x \in Kinds : Cardinality(Counted(entries, list, k - 1, d, x)) \in Nat
      BY FS_CardinalityType
    <2>3. ASSUME NEW x \in Kinds
          PROVE  Cardinality(Counted(entries, list, k, d, x)) =
                   IF IsAncestor(d, list[k])
                   THEN Cardinality(Counted(entries, list, k - 1, d, x)) + (IF x \in MergedKinds(entries, list[k]) THEN 1 ELSE 0)
                   ELSE Cardinality(Counted(entries, list, k - 1, d, x))
      BY <2>2, OneMoreCounted DEF CountsFor
    <2> HIDE DEF old
    <2> QED BY <2>1, <2>3
  <1>2. DOMAIN old = D
    BY DEF CountsIn
  <1>3. AddKinds(entries, old, list[k]) = [d \in D |-> row(d)]
    <2> HIDE DEF old
    <2> QED BY <1>2 DEF AddKinds
  <1> HIDE DEF row, old
  <1>4. AddKinds(entries, old, list[k]) = CountsIn(entries, list, k, D)
    BY <1>1, <1>3 DEF CountsIn
  <1> QED BY <1>4 DEF old

LEMMA AllCounted ==
  ASSUME NEW entries, NEW list, NEW S, Lists(list, S), NEW D
  PROVE  AddedKinds(entries, [d \in D |-> NoStats], list) = CountsIn(entries, list, Len(list), D)
  <1> DEFINE n == Len(list)
             W == [D -> [Kinds -> Nat]]
             base == [d \in D |-> NoStats]
             c == CHOOSE g : IsAggFold(g, entries, base, list)
             step == [x \in (1..n) \X W |-> AddKinds(entries, x[2], list[x[1]])]
  <1>1. n \in Nat /\ DOMAIN list = 1..n
    BY DEF Lists
  <1>e. base \in W
    BY DEF NoStats
  <1>2. ASSUME NEW p, NEW a \in W PROVE AddKinds(entries, a, p) \in W
    <2>1. \A d \in D, x \in Kinds : a[d] \in [Kinds -> Nat] /\ a[d][x] \in Nat
      OBVIOUS
    <2>2. ASSUME NEW d \in D
          PROVE  [x \in Kinds |-> a[d][x] + IF x \in MergedKinds(entries, p) THEN 1 ELSE 0] \in [Kinds -> Nat]
      BY <2>1
    <2>3. DOMAIN a = D
      OBVIOUS
    <2> QED BY <2>1, <2>2, <2>3 DEF AddKinds
  <1> HIDE DEF n, W, base
  <1>3. IsStep(step, n, W)
    BY <1>2 DEF IsStep
  <1>s. \A k \in 1..n, r \in W : step[<<k, r>>] = AddKinds(entries, r, list[k])
    OBVIOUS
  <1> HIDE DEF step
  <1>4. PICK g : IsPlaceFold(g, step, base, n, W)
    BY <1>1, <1>e, <1>3, PlaceFold
  <1>5. IsAggFold(g, entries, base, list)
    <2>1. ASSUME NEW s \in SUBSET (1..n), s # {}
          PROVE  g[s] = AddKinds(entries, g[s \ {Max(s)}], list[Max(s)])
      <3>1. Max(s) \in 1..n
        BY <1>1, <2>1, Last1
      <3>2. g[s \ {Max(s)}] \in W
        BY <1>4 DEF IsPlaceFold
      <3>3. g[s] = step[<<Max(s), g[s \ {Max(s)}]>>]
        BY <1>4, <2>1 DEF IsPlaceFold
      <3> QED BY <1>s, <3>1, <3>2, <3>3
    <2>2. g[{}] = base /\ g = [s \in SUBSET (1..n) |-> g[s]]
      BY <1>4 DEF IsPlaceFold
    <2> QED BY <1>1, <2>1, <2>2 DEF IsAggFold
  <1>6. IsAggFold(c, entries, base, list)
    BY <1>5
  <1>7. AddedKinds(entries, base, list) = c[1..n]
    BY <1>1, AggChosen
  <1> HIDE DEF c
  <1>8. c[{}] = base
    BY <1>6 DEF IsAggFold
  <1>9. ASSUME NEW k \in 1..n PROVE c[1..k] = AddKinds(entries, c[1..(k - 1)], list[k])
    <2>1. n \in Nat
      BY <1>1
    <2>2. Max(1..k) = k /\ (1..k) \ {k} = 1..(k - 1) /\ (1..k) \in SUBSET (1..n) /\ 1..k # {}
      BY ONLY <2>1, k \in 1..n, LastOfAll
    <2> QED BY <1>1, <1>6, <2>2 DEF IsAggFold
  <1> DEFINE Fin(k) == \A d \in D, x \in Kinds : IsFiniteSet(Counted(entries, list, k, d, x))
             Q == {k \in 0..n : c[1..k] = CountsIn(entries, list, k, D) /\ Fin(k)}
  <1>10. 0 \in Q
    <2>1. 1..0 = {} /\ 0 \in 0..n
      BY <1>1
    <2>2. \A d, x : Counted(entries, list, 0, d, x) = {}
      BY <2>1 DEF Counted
    <2>3. IsFiniteSet({}) /\ Cardinality({}) = 0
      BY FS_EmptySet
    <2>4. CountsIn(entries, list, 0, D) = base
      BY <2>2, <2>3 DEF CountsIn, base, NoStats
    <2> QED BY <1>8, <2>1, <2>2, <2>3, <2>4
  <1>11. ASSUME NEW j \in 0..(n - 1), j \in Q PROVE j + 1 \in Q
    <2>1. PICK k : k = j + 1
      OBVIOUS
    <2>2. k \in 1..n /\ k - 1 = j /\ k \in 0..n /\ k \in 1..Len(list)
      BY <1>1, <2>1 DEF n
    <2>3. c[1..j] = CountsIn(entries, list, j, D) /\ Fin(j)
      BY <1>11
    <2>4. c[1..k] = AddKinds(entries, c[1..j], list[k])
      BY <1>9, <2>2
    <2>5. \A d \in D, x \in Kinds : IsFiniteSet(Counted(entries, list, k - 1, d, x))
      BY <2>2, <2>3
    <2>6. AddKinds(entries, CountsIn(entries, list, k - 1, D), list[k]) = CountsIn(entries, list, k, D)
      BY <2>2, <2>5, KindsCounted
    <2>7. Fin(k)
      BY <2>2, <2>5, OneMoreCounted
    <2> QED BY <2>1, <2>2, <2>3, <2>4, <2>6, <2>7
  <1> HIDE DEF Q
  <1>12. \A k \in 0..n : k \in Q
    BY ONLY <1>10, <1>11, <1>1, Induction
  <1>13. n \in Q
    BY <1>1, <1>12
  <1> QED BY <1>7, <1>13 DEF Q, n, base

LEMMA Aggregated ==
  ASSUME NEW entries, DiffLines(entries), NEW d \in DOMAIN DiffRows(entries)
  PROVE  Aggregate(entries)[d] =
           [x \in Kinds |-> Cardinality({p \in Changed(entries) : IsAncestor(d, p) /\ x \in MergedKinds(entries, p)})]
  <1> DEFINE D == DOMAIN DiffRows(entries)
             list == PathOrder(entries)
             S == Changed(entries)
  <1>1. Lists(list, S)
    BY PathsOrdered
  <1>2. Aggregate(entries) = AddedKinds(entries, [e \in D |-> NoStats], list)
    BY DEF Aggregate, AddedKinds
  <1> HIDE DEF D, list, S
  <1>3. Aggregate(entries) = CountsIn(entries, list, Len(list), D)
    <2>1. AddedKinds(entries, [e \in D |-> NoStats], list) = CountsIn(entries, list, Len(list), D)
      BY ONLY <1>1, AllCounted
    <2> QED BY ONLY <1>2, <2>1
  <1>4. DOMAIN list = 1..Len(list) /\ (\A i \in 1..Len(list) : list[i] \in S) /\ \A x \in S : \E i \in 1..Len(list) : list[i] = x
    BY <1>1 DEF Lists
  <1>5. ASSUME NEW x PROVE Counted(entries, list, Len(list), d, x) = {p \in S : IsAncestor(d, p) /\ x \in MergedKinds(entries, p)}
    BY <1>4 DEF Counted, CountsFor
  <1>6. d \in D
    BY DEF D
  <1>7. CountsIn(entries, list, Len(list), D)[d] = [x \in Kinds |-> Cardinality(Counted(entries, list, Len(list), d, x))]
    BY ONLY <1>6 DEF CountsIn
  <1>8. Aggregate(entries)[d] = [x \in Kinds |-> Cardinality({p \in S : IsAncestor(d, p) /\ x \in MergedKinds(entries, p)})]
    BY ONLY <1>3, <1>5, <1>7
  <1> QED BY <1>8 DEF S

\* The tree a diff is shown as lists what changed and nothing else, with all
\* markers ever reported for it, and counts each changed path once per marker in
\* each directory above it, for any number of lines in any order, with paths of
\* any depth, as long as the lines agree on what is a directory (diff.go,
\* BuildDiffTree).
THEOREM TreeExact ==
  ASSUME NEW entries, DiffLines(entries), Consistent(entries)
  PROVE  TreeIsExact(entries)
  <1> DEFINE n == Len(entries)
             changed == Changed(entries)
             above == UNION {{SubSeq(p, 1, k) : k \in 0..(Len(p) - 1)} : p \in changed}
             stats(d) == [k \in Kinds |->
                       Cardinality({p \in changed : IsAncestor(d, p) /\ k \in MergedKinds(entries, p)})]
             row(p) == [path |-> p, type |-> PrimaryChangeType(MergedKinds(entries, p)),
                   kinds |-> MergedKinds(entries, p), isDir |-> p \in above \/ MergedIsDir(entries, p),
                   aggregate |-> IF p \in above \/ MergedIsDir(entries, p) THEN stats(p) ELSE NoStats]
             rows == DiffRows(entries)
  <1>1. n \in Nat /\ DOMAIN entries = 1..n
    BY DEF DiffLines
  <1>2. changed = ChangedIn(entries, n) /\ above = AboveIn(entries, n)
    <2>1. changed = ChangedIn(entries, n)
      BY <1>1 DEF Changed, ChangedIn
    <2>2. above = UNION {AboveOf(p) : p \in changed}
      BY DEF AboveOf
    <2>3. AboveIn(entries, n) = UNION {AboveOf(p) : p \in ChangedIn(entries, n)}
      BY DEF AboveIn, ChangedIn
    <2> HIDE DEF changed, above
    <2> QED BY <2>1, <2>2, <2>3
  <1>3. \A p : KindsIn(entries, n, p) = MergedKinds(entries, p)
    BY <1>1 DEF KindsIn, MergedKinds
  <1>4. \A p : IsDirIn(entries, n, p) <=> p \in above \/ MergedIsDir(entries, p)
    BY <1>1, <1>2 DEF IsDirIn, MergedIsDir
  <1>5. rows = TreeRows(entries, n)
    BY RowsBuilt
  <1>6. DOMAIN rows = changed \cup above
    BY <1>2, <1>5 DEF TreeRows
  <1>7. \A d \in DOMAIN rows : Aggregate(entries)[d] = stats(d)
    BY Aggregated
  <1>8. ASSUME NEW p \in DOMAIN rows
        PROVE  [path |-> p, type |-> rows[p].type, kinds |-> rows[p].kinds, isDir |-> rows[p].isDir,
                aggregate |-> IF rows[p].isDir THEN Aggregate(entries)[p] ELSE NoStats] = row(p)
    <2>1. rows[p] = TreeRow(entries, n, p)
      BY <1>5, <1>8 DEF TreeRows
    <2>2. rows[p].type = PrimaryChangeType(MergedKinds(entries, p)) /\ rows[p].kinds = MergedKinds(entries, p)
      BY <1>3, <2>1 DEF TreeRow
    <2>3. rows[p].isDir = (p \in above \/ MergedIsDir(entries, p))
      <3>1. rows[p].isDir = IsDirIn(entries, n, p)
        BY <2>1 DEF TreeRow
      <3>2. IsDirIn(entries, n, p) \in BOOLEAN
        BY DEF IsDirIn
      <3> HIDE DEF above, rows
      <3> QED BY <1>4, <3>1, <3>2
    <2>4. Aggregate(entries)[p] = stats(p)
      BY <1>7
    <2> HIDE DEF above, rows, stats
    <2> QED BY <2>2, <2>3, <2>4
  <1> DEFINE shown(p) == [path |-> p, type |-> rows[p].type, kinds |-> rows[p].kinds, isDir |-> rows[p].isDir,
                          aggregate |-> IF rows[p].isDir THEN Aggregate(entries)[p] ELSE NoStats]
             below(d) == {q \in DOMAIN rows \ {DiffRoot} : DiffParentOf(q) = d}
  <1>9. \A d : Children(entries, d) = {shown(p) : p \in below(d)}
    BY DEF Children
  <1>10. \A p \in DOMAIN rows : shown(p) = row(p)
    BY <1>8
  <1>11. \A d : below(d) = {q \in (changed \cup above) \ {DiffRoot} : DiffParentOf(q) = d} /\ below(d) \subseteq DOMAIN rows
    BY <1>6
  <1>12. ASSUME NEW d
         PROVE  Children(entries, d) = {row(p) : p \in {q \in (changed \cup above) \ {DiffRoot} : DiffParentOf(q) = d}}
    <2> HIDE DEF shown, row, below, changed, above, rows
    <2> QED BY <1>9, <1>10, <1>11
  <1>13. ASSUME changed # {} PROVE Aggregate(entries)[DiffRoot] = stats(DiffRoot)
    <2>1. PICK i \in 1..n : TRUE
      BY <1>1, <1>13 DEF Changed
    <2>2. entries[i].path \in DiffPath /\ entries[i].path \in changed
      BY <1>1, EntryType DEF Changed
    <2>3. DiffRoot \in changed \cup above
      <3>1. CASE Len(entries[i].path) = 0
        <4>1. entries[i].path = <<>>
          BY <2>2, <3>1 DEF DiffPath
        <4> QED BY <2>2, <4>1 DEF DiffRoot
      <3>2. CASE Len(entries[i].path) # 0
        <4>1. PICK p : p = entries[i].path
          OBVIOUS
        <4>2. Len(p) \in Nat /\ SubSeq(p, 1, 0) = <<>>
          BY <2>2, <4>1 DEF DiffPath
        <4>3. 0 \in 0..(Len(p) - 1)
          BY <3>2, <4>1, <4>2
        <4>4. <<>> \in AboveOf(p)
          BY <4>2, <4>3 DEF AboveOf
        <4>5. p \in changed
          BY <2>2, <4>1
        <4> QED BY <4>4, <4>5 DEF DiffRoot, AboveOf
      <3> QED BY <3>1, <3>2
    <2> QED BY <1>6, <1>7, <2>3
  <1> HIDE DEF row, stats, changed, above, rows
  <1> QED BY <1>12, <1>13 DEF TreeIsExact, row, stats, changed, above

-----------------------------------------------------------------------------
(* The inspector of a changed path.                                        *)

\* Attributes with names that differ: each name stands for one value.
Attributes(attrs) ==
    /\ attrs \in Seq(Range(attrs))
    /\ \A i \in DOMAIN attrs : attrs[i] = <<attrs[i][1], attrs[i][2]>>
    /\ \A i, j \in DOMAIN attrs : attrs[i][1] = attrs[j][1] => i = j

\* A record as restic writes it: only a file has a size and contents, only a
\* directory a subtree, and attributes have names that differ.
IsRecord(n) ==
    /\ n \notin {NoNode, Missing, Failed}
    /\ n.type # "file" => n.size = 0 /\ n.content = NilContent
    /\ n.type # "dir" => n.subtree = ""
    /\ n.generic = [g \in DOMAIN n.generic |-> n.generic[g]]
    /\ Attributes(n.xattrs)

\* Looking a name up finds its value.
LEMMA NamesLookedUp ==
  ASSUME NEW attrs, Attributes(attrs)
  PROVE  /\ Range(attrs) = {attrs[i] : i \in DOMAIN attrs}
         /\ Lists(attrs, Range(attrs)) /\ IsFiniteSet(Range(attrs)) /\ Cardinality(Range(attrs)) = Len(attrs)
         /\ DOMAIN ByName(attrs) = {x[1] : x \in Range(attrs)}
         /\ \A x \in Range(attrs) : ByName(attrs)[x[1]] = x[2] /\ x = <<x[1], x[2]>>
         /\ \A x, y \in Range(attrs) : x[1] = y[1] => x = y
  <1>1. Range(attrs) = {attrs[i] : i \in DOMAIN attrs}
    BY DEF Range
  <1>2. Len(attrs) \in Nat /\ DOMAIN attrs = 1..Len(attrs)
    BY DEF Attributes
  <1>3. Lists(attrs, Range(attrs))
    BY <1>1 DEF Lists, Attributes
  <1>4. IsFiniteSet(Range(attrs)) /\ Cardinality(Range(attrs)) = Len(attrs)
    <2>1. attrs \in Bijection(1..Len(attrs), Range(attrs))
      <3>1. attrs \in [1..Len(attrs) -> Range(attrs)]
        BY <1>2 DEF Attributes
      <3>2. \A i, j \in 1..Len(attrs) : attrs[i] = attrs[j] => i = j
        BY <1>2 DEF Attributes
      <3>3. \A x \in Range(attrs) : \E i \in 1..Len(attrs) : attrs[i] = x
        BY <1>1, <1>2
      <3> QED BY ONLY <3>1, <3>2, <3>3 DEF Bijection, Injection, Surjection, IsInjective
    <2>2. ExistsBijection(1..Len(attrs), Range(attrs))
      BY ONLY <2>1 DEF ExistsBijection
    <2>3. 0 \in Int /\ 1 \in Int /\ Len(attrs) \in Int /\ IsFiniteSet(1..Len(attrs))
      BY <1>2, FS_Interval
    <2> QED BY <1>2, <2>2, <2>3, FS_CountingElements, FS_Bijection
  <1>5. DOMAIN ByName(attrs) = {x[1] : x \in Range(attrs)}
    BY DEF ByName
  <1>6. ASSUME NEW x \in Range(attrs) PROVE ByName(attrs)[x[1]] = x[2] /\ x = <<x[1], x[2]>>
    <2>1. PICK i \in DOMAIN attrs : x = attrs[i]
      BY <1>1
    <2> DEFINE last(k) == attrs[k][1] = x[1] /\ \A j \in DOMAIN attrs : attrs[j][1] = x[1] => j <= k
    <2>2. \A k \in DOMAIN attrs : last(k) => k = i
      BY <2>1 DEF Attributes
    <2>3. last(i)
      BY <1>2, <2>1 DEF Attributes
    <2>4. (CHOOSE k \in DOMAIN attrs : last(k)) = i
      <3> HIDE DEF last
      <3> QED BY <2>2, <2>3
    <2>5. ByName(attrs)[x[1]] = attrs[CHOOSE k \in DOMAIN attrs : last(k)][2]
      BY DEF ByName
    <2> HIDE DEF last
    <2> QED BY <2>1, <2>4, <2>5 DEF Attributes
  <1>7. \A x, y \in Range(attrs) : x[1] = y[1] => x = y
    BY <1>6
  <1> HIDE DEF Attributes
  <1> QED BY ONLY <1>1, <1>3, <1>4, <1>5, <1>6, <1>7

\* sameXattrs compares attributes as sets, and what it misses by name it finds by value.
LEMMA AttributesCompared ==
  ASSUME NEW a, Attributes(a), NEW b, Attributes(b)
  PROVE  /\ SameXattrs(a, b) <=> Range(a) = Range(b)
         /\ (DOMAIN ByName(a) = DOMAIN ByName(b) /\ Range(a) # Range(b)) => XattrValuesDiffer(a, b) # {}
         /\ Range(a) # Range(b) => a # <<>> \/ b # <<>>
  <1>1. /\ IsFiniteSet(Range(a)) /\ Cardinality(Range(a)) = Len(a)
        /\ DOMAIN ByName(a) = {x[1] : x \in Range(a)}
        /\ \A x \in Range(a) : ByName(a)[x[1]] = x[2] /\ x = <<x[1], x[2]>>
    BY NamesLookedUp
  <1>2. /\ IsFiniteSet(Range(b)) /\ Cardinality(Range(b)) = Len(b)
        /\ DOMAIN ByName(b) = {x[1] : x \in Range(b)}
        /\ \A x \in Range(b) : ByName(b)[x[1]] = x[2] /\ x = <<x[1], x[2]>>
    BY NamesLookedUp
  <1>3. ASSUME SameXattrs(a, b) PROVE Range(a) = Range(b)
    <2>1. ASSUME NEW x \in Range(b) PROVE x \in Range(a)
      <3>1. x[1] \in DOMAIN ByName(a) /\ ByName(a)[x[1]] = x[2]
        BY <1>3 DEF SameXattrs
      <3>2. PICK y \in Range(a) : y[1] = x[1]
        BY <1>1, <3>1
      <3>3. y[2] = x[2]
        BY <1>1, <3>1, <3>2
      <3> QED BY <1>1, <1>2, <3>2, <3>3
    <2>2. Range(b) \in SUBSET Range(a) /\ Cardinality(Range(a)) = Cardinality(Range(b))
      BY <1>1, <1>2, <1>3, <2>1 DEF SameXattrs
    <2> QED BY ONLY <1>1, <2>2, FS_Subset
  <1>4. ASSUME Range(a) = Range(b) PROVE SameXattrs(a, b)
    <2>1. Len(a) = Len(b)
      BY <1>1, <1>2, <1>4
    <2>2. \A x \in Range(b) : x[1] \in DOMAIN ByName(a) /\ ByName(a)[x[1]] = x[2]
      BY <1>1, <1>4
    <2> QED BY <2>1, <2>2 DEF SameXattrs
  <1>5. ASSUME DOMAIN ByName(a) = DOMAIN ByName(b), Range(a) # Range(b) PROVE XattrValuesDiffer(a, b) # {}
    <2>1. ASSUME XattrValuesDiffer(a, b) = {} PROVE Range(a) = Range(b)
      <3>1. ASSUME NEW n \in DOMAIN ByName(a), NEW x \in Range(a), x[1] = n PROVE x[2] = ByName(b)[n]
        BY <1>5, <2>1, <3>1 DEF XattrValuesDiffer
      <3>2. ASSUME NEW x \in Range(a) PROVE x \in Range(b)
        <4>1. x[1] \in DOMAIN ByName(b)
          BY <1>1, <1>5
        <4>2. PICK y \in Range(b) : y[1] = x[1]
          BY <1>2, <4>1
        <4>3. x[2] = y[2]
          BY <1>2, <1>5, <3>1, <4>1, <4>2
        <4> QED BY <1>1, <1>2, <4>2, <4>3
      <3>3. ASSUME NEW y \in Range(b) PROVE y \in Range(a)
        <4>1. y[1] \in DOMAIN ByName(a)
          BY <1>2, <1>5
        <4>2. PICK x \in Range(a) : x[1] = y[1]
          BY <1>1, <4>1
        <4>3. x[2] = y[2]
          BY <1>2, <3>1, <4>1, <4>2
        <4> QED BY <1>1, <1>2, <4>2, <4>3
      <3> QED BY <3>2, <3>3
    <2> QED BY <1>5, <2>1
  <1>6. a = <<>> /\ b = <<>> => Range(a) = Range(b)
    OBVIOUS
  <1> QED BY <1>3, <1>4, <1>5, <1>6

\* What the screen shows of two records, field by field.
InspectRows(a, b) == {f \in Scalars \cup {"xattrs"} : Uses(f, a) \/ Uses(f, b)}
HasContents(a, b) == a.type \in {"file", "dir"} \/ b.type \in {"file", "dir"}
ContentsRow(a, b) ==
    [name |-> "contents", changed |-> CompareTreeNodes(a, b) \cap {"content", "subtree"} # {}, cells |-> <<{}, {}>>]

LEMMA InspectFields ==
  ASSUME NEW a, NEW b, IsRecord(a), IsRecord(b)
  PROVE  DiffInfoFields(a, b) =
            {DiffInfoField(f, a, b, f \in CompareTreeNodes(a, b)) : f \in InspectRows(a, b)}
            \cup (IF HasContents(a, b) THEN {ContentsRow(a, b)} ELSE {})
  <1>1. a # NoNode /\ b # NoNode
    BY DEF IsRecord
  <1>2. {a, b} \ {NoNode} = {a, b}
    BY <1>1
  <1>3. {f \in Scalars \cup {"xattrs"} : \E n \in {a, b} : Uses(f, n)} = InspectRows(a, b)
    BY DEF InspectRows
  <1>4. {[name |-> "contents", changed |-> CompareTreeNodes(a, b) \cap {"content", "subtree"} # {}, cells |-> <<{}, {}>>] :
           n \in {n \in {a, b} : TRUE /\ n.type \in {"file", "dir"}}}
          = IF HasContents(a, b) THEN {ContentsRow(a, b)} ELSE {}
    <2>1. PICK c : c = ContentsRow(a, b)
      OBVIOUS
    <2>2. {c : n \in {n \in {a, b} : TRUE /\ n.type \in {"file", "dir"}}} = IF HasContents(a, b) THEN {c} ELSE {}
      BY DEF HasContents
    <2> QED BY <2>1, <2>2 DEF ContentsRow
  <1> QED BY <1>1, <1>2, <1>3, <1>4 DEF DiffInfoFields

\* The verdict names the flags whose rows are shown, and the contents.
LEMMA VerdictIs ==
  ASSUME NEW a, NEW b, IsRecord(a), IsRecord(b)
  PROVE  DiffInfoVerdict(a, b) =
            (CompareTreeNodes(a, b) \cap InspectRows(a, b))
            \cup (IF HasContents(a, b) /\ CompareTreeNodes(a, b) \cap {"content", "subtree"} # {} THEN {"contents"} ELSE {})
  <1> DEFINE changes == CompareTreeNodes(a, b)
             field(f) == DiffInfoField(f, a, b, f \in changes)
             contents == IF HasContents(a, b) THEN {ContentsRow(a, b)} ELSE {}
  <1>1. a # NoNode /\ b # NoNode
    BY DEF IsRecord
  <1>2. \A f : field(f).name = f /\ (field(f).changed <=> f \in changes)
    BY <1>1 DEF DiffInfoField
  <1>3. DiffInfoFields(a, b) = {field(f) : f \in InspectRows(a, b)} \cup contents
    BY InspectFields
  <1>4. ContentsRow(a, b).name = "contents" /\ (ContentsRow(a, b).changed <=> changes \cap {"content", "subtree"} # {})
    BY DEF ContentsRow
  <1>5. DiffInfoVerdict(a, b) = {f.name : f \in {g \in DiffInfoFields(a, b) : g.changed}}
    BY DEF DiffInfoVerdict
  <1> HIDE DEF changes, field
  <1>6. DiffInfoVerdict(a, b) = (changes \cap InspectRows(a, b)) \cup {f.name : f \in {g \in contents : g.changed}}
    <2>1. ASSUME NEW n PROVE n \in {f.name : f \in {g \in {field(f) : f \in InspectRows(a, b)} : g.changed}} <=> n \in changes \cap InspectRows(a, b)
      BY <1>2
    <2> HIDE DEF contents
    <2> QED BY <1>3, <1>5, <2>1
  <1>7. {f.name : f \in {g \in contents : g.changed}} =
          IF HasContents(a, b) /\ changes \cap {"content", "subtree"} # {} THEN {"contents"} ELSE {}
    BY <1>4
  <1> QED BY <1>6, <1>7 DEF changes

\* A change is on the screen, or another one that comes with it.
LEMMA ChangeShown ==
  ASSUME NEW a, NEW b, IsRecord(a), IsRecord(b)
  PROVE  /\ {"type", "mode", "owner", "group", "mtime", "ctime"} \subseteq InspectRows(a, b)
         /\ {"content", "subtree", "contents"} \cap InspectRows(a, b) = {}
         /\ CompareTreeNodes(a, b) \cap {"content", "subtree"} # {} => HasContents(a, b)
         /\ \A f \in CompareTreeNodes(a, b) \ {"content", "subtree"} :
               \/ f \in InspectRows(a, b)
               \/ f = "size" /\ "type" \in CompareTreeNodes(a, b)
               \/ f = "atime" /\ "mtime" \in CompareTreeNodes(a, b)
  <1> DEFINE changes == CompareTreeNodes(a, b)
  <1>1. \A f \in Scalars : f \in changes <=> a[f] # b[f]
    <2>1. "xattrs" \notin Scalars
      BY DEF Scalars
    <2> QED BY <2>1 DEF CompareTreeNodes
  <1>2. changes \subseteq Scalars \cup {"xattrs"} /\ ("xattrs" \in changes <=> ~SameXattrs(a.xattrs, b.xattrs))
    BY DEF CompareTreeNodes, Scalars
  <1>3. \A f, n : f \in {"type", "mode", "owner", "group", "mtime", "ctime"} => Uses(f, n)
    BY DEF Uses
  <1>4. \A f, n : f \in {"content", "subtree"} => ~Uses(f, n)
    BY DEF Uses
  <1>5. {"type", "mode", "owner", "group", "mtime", "ctime"} \subseteq InspectRows(a, b)
    BY <1>3 DEF InspectRows, Scalars
  <1>6. {"content", "subtree", "contents"} \cap InspectRows(a, b) = {}
    BY <1>4 DEF InspectRows, Scalars
  <1>7. ASSUME changes \cap {"content", "subtree"} # {} PROVE HasContents(a, b)
    <2>1. a.content # b.content \/ a.subtree # b.subtree
      BY <1>1, <1>7 DEF Scalars
    <2> QED BY <2>1 DEF IsRecord, HasContents
  <1>8. ASSUME NEW f \in changes, f \notin {"content", "subtree"}
        PROVE  f \in InspectRows(a, b) \/ (f = "size" /\ "type" \in changes) \/ (f = "atime" /\ "mtime" \in changes)
    <2>1. CASE f = "size"
      <3>1. a.size # b.size
        BY <1>1, <2>1 DEF Scalars
      <3>2. CASE a.type = b.type
        <4>1. Uses(f, a)
          BY <2>1, <3>1, <3>2 DEF IsRecord, Uses
        <4> QED BY <2>1, <4>1 DEF InspectRows, Scalars
      <3>3. CASE a.type # b.type
        BY <1>1, <2>1, <3>3 DEF Scalars
      <3> QED BY <3>2, <3>3
    <2>2. CASE f = "atime"
      <3>1. a.atime # b.atime
        BY <1>1, <2>2 DEF Scalars
      <3>2. Uses(f, a) \/ Uses(f, b) \/ a.mtime # b.mtime
        BY <2>2, <3>1 DEF Uses
      <3> QED BY <1>1, <2>2, <3>2 DEF InspectRows, Scalars
    <2>3. CASE f \in {"inode", "links", "deviceID", "device"}
      <3>1. a[f] # b[f]
        BY <1>1, <2>3 DEF Scalars
      <3>2. Uses(f, a) \/ Uses(f, b)
        BY <2>3, <3>1 DEF Uses
      <3> QED BY <2>3, <3>2 DEF InspectRows, Scalars
    <2>4. CASE f \in {"linkTarget", "error"}
      <3>1. a[f] # b[f]
        BY <1>1, <2>4 DEF Scalars
      <3>2. Uses(f, a) \/ Uses(f, b)
        BY <2>4, <3>1 DEF Uses
      <3> QED BY <2>4, <3>2 DEF InspectRows, Scalars
    <2>5. CASE f = "xattrs"
      <3>1. ~SameXattrs(a.xattrs, b.xattrs)
        BY <1>2, <2>5
      <3>2. Attributes(a.xattrs) /\ Attributes(b.xattrs)
        BY DEF IsRecord
      <3>3. a.xattrs # <<>> \/ b.xattrs # <<>>
        BY <3>1, <3>2, AttributesCompared
      <3>4. Uses(f, a) \/ Uses(f, b)
        BY <2>5, <3>3 DEF Uses
      <3> QED BY <2>5, <3>4 DEF InspectRows
    <2>6. CASE f = "generic"
      <3>1. a.generic # b.generic
        BY <1>1, <2>6 DEF Scalars
      <3>2. DOMAIN a.generic # {} \/ DOMAIN b.generic # {}
        <4>1. a.generic = [g \in DOMAIN a.generic |-> a.generic[g]] /\ b.generic = [g \in DOMAIN b.generic |-> b.generic[g]]
          BY DEF IsRecord
        <4> QED BY <3>1, <4>1
      <3>3. Uses(f, a) \/ Uses(f, b)
        BY <2>6, <3>2 DEF Uses
      <3> QED BY <2>6, <3>3 DEF InspectRows, Scalars
    <2>7. CASE f \in {"type", "mode", "owner", "group", "mtime", "ctime"}
      BY <1>5, <2>7
    <2> QED BY <1>2, <1>8, <2>1, <2>2, <2>3, <2>4, <2>5, <2>6, <2>7 DEF Scalars
  <1> QED BY <1>5, <1>6, <1>7, <1>8

\* restic sees a difference exactly when some flag is raised.
LEMMA FlagsAreExact ==
  ASSUME NEW a, NEW b, IsRecord(a), IsRecord(b)
  PROVE  CompareTreeNodes(a, b) = {} <=> SameNode(a, b)
  <1>1. Attributes(a.xattrs) /\ Attributes(b.xattrs)
    BY DEF IsRecord
  <1>2. SameXattrs(a.xattrs, b.xattrs) <=> Range(a.xattrs) = Range(b.xattrs)
    BY <1>1, AttributesCompared
  <1> QED BY <1>2 DEF CompareTreeNodes, SameNode

\* A row that is marked says why.
LEMMA MarkedRowTells ==
  ASSUME NEW a, NEW b, IsRecord(a), IsRecord(b), NEW f \in CompareTreeNodes(a, b), f \notin {"content", "subtree"}
  PROVE  \/ DiffInfoField(f, a, b, TRUE).cells[1] # DiffInfoField(f, a, b, TRUE).cells[2]
         \/ f = "xattrs" /\ XattrValuesDiffer(a.xattrs, b.xattrs) # {}
         \/ f = "generic" /\ GenericAttrValuesDiffer(a.generic, b.generic) # {}
  <1> DEFINE precise == CellText(f, a, FALSE) = CellText(f, b, FALSE)
  <1>1. a # NoNode /\ b # NoNode
    BY DEF IsRecord
  <1>2. /\ DiffInfoField(f, a, b, TRUE).cells[1] = {CellText(f, a, precise)}
        /\ DiffInfoField(f, a, b, TRUE).cells[2] = {CellText(f, b, precise)}
    BY <1>1 DEF DiffInfoField
  <1>3. CASE ~precise
    <2>1. CellText(f, a, precise) # CellText(f, b, precise)
      BY <1>3
    <2> HIDE DEF precise
    <2> QED BY <1>2, <2>1
  <1>4. CASE precise
    <2>0. precise = TRUE
      BY <1>4
    <2>1. f \in Scalars => a[f] # b[f]
      BY DEF CompareTreeNodes, Scalars
    <2>2. CASE f = "size"
      <3>1. CellText(f, a, TRUE) # CellText(f, b, TRUE)
        BY <2>1, <2>2 DEF CellText, Scalars
      <3> QED BY <1>2, <2>0, <3>1
    <2>3. CASE f \in {"mtime", "ctime", "atime"}
      <3>1. CellText(f, a, TRUE) # CellText(f, b, TRUE)
        BY <2>1, <2>3 DEF CellText, Scalars
      <3> QED BY <1>2, <2>0, <3>1
    <2>4. CASE f = "xattrs"
      <3>1. ~SameXattrs(a.xattrs, b.xattrs)
        BY <2>4 DEF CompareTreeNodes, Scalars
      <3>2. DOMAIN ByName(a.xattrs) = DOMAIN ByName(b.xattrs)
        BY <1>4, <2>4 DEF CellText
      <3>3. Attributes(a.xattrs) /\ Attributes(b.xattrs)
        BY DEF IsRecord
      <3>4. XattrValuesDiffer(a.xattrs, b.xattrs) # {}
        BY <3>1, <3>2, <3>3, AttributesCompared
      <3> QED BY <2>4, <3>4
    <2>5. CASE f = "generic"
      <3>1. a.generic # b.generic
        BY <2>1, <2>5 DEF Scalars
      <3>2. DOMAIN a.generic = DOMAIN b.generic
        BY <1>4, <2>5 DEF CellText
      <3>3. a.generic = [g \in DOMAIN a.generic |-> a.generic[g]] /\ b.generic = [g \in DOMAIN b.generic |-> b.generic[g]]
        BY DEF IsRecord
      <3>4. PICK g \in DOMAIN a.generic : a.generic[g] # b.generic[g]
        BY <3>1, <3>2, <3>3
      <3> QED BY <2>5, <3>2, <3>4 DEF GenericAttrValuesDiffer
    <2>6. CASE f \in Scalars \ {"size", "mtime", "ctime", "atime", "generic"}
      <3>1. f \notin {"size", "mtime", "ctime", "atime", "xattrs", "generic"}
        BY <2>6 DEF Scalars
      <3>2. CellText(f, a, TRUE) = <<a[f]>> /\ CellText(f, b, TRUE) = <<b[f]>>
        BY <3>1 DEF CellText
      <3>3. CellText(f, a, TRUE) # CellText(f, b, TRUE)
        <4>1. a[f] # b[f]
          BY ONLY <2>1, <2>6
        <4>2. \A x, y : <<x>> = <<y>> => x = y
          OBVIOUS
        <4> QED BY ONLY <3>2, <4>1, <4>2
      <3> HIDE DEF precise
      <3> QED BY <1>2, <2>0, <3>3
    <2>7. f \in Scalars \cup {"xattrs"}
      BY DEF CompareTreeNodes
    <2> HIDE DEF precise
    <2> QED BY <2>2, <2>3, <2>4, <2>5, <2>6, <2>7
  <1> QED BY <1>3, <1>4

\* For any two records of a path, the inspector names a difference exactly when
\* restic sees one, says in a cell or a note what each marked row differs in, and
\* makes a column or a problem of each side it looked up (snapshotdiffinfo.go and
\* snapshotdiffinfoview.go; treenode.go, CompareTreeNodes).
THEOREM InspectExact ==
  ASSUME NEW row, NEW answer, \A s \in Wanted(row) : answer[s] \in {Missing, Failed} \/ IsRecord(answer[s])
  PROVE  InspectIsTrue(row, answer)
  <1> DEFINE a == SideNode(row, answer, "first")
             b == SideNode(row, answer, "second")
             fields == DiffInfoFields(a, b)
             named == DiffInfoVerdict(a, b)
             notes == DiffInfoNotes(row, a, b)
             columns == {s \in {"first", "second"} : SideNode(row, answer, s) # NoNode}
             changes == CompareTreeNodes(a, b)
  <1>1. \A s : SideNode(row, answer, s) # NoNode <=> s \in Wanted(row) /\ answer[s] \notin {Missing, Failed}
    BY DEF SideNode, IsRecord
  <1>2. \A s : SideNode(row, answer, s) # NoNode => IsRecord(SideNode(row, answer, s))
    BY DEF SideNode
  <1>3. columns \cap DiffInfoProblems(row, answer) = {} /\ Wanted(row) = columns \cup DiffInfoProblems(row, answer)
    BY <1>1 DEF DiffInfoProblems, Wanted
  <1>4. ASSUME columns = {"first", "second"}
        PROVE  /\ named = {} <=> SameNode(a, b)
               /\ \A r \in fields : r.changed =>
                    \/ r.name = "contents" \/ r.cells[1] # r.cells[2]
                    \/ r.name = "xattrs" /\ "xattr values" \in notes
                    \/ r.name = "generic" /\ "attribute values" \in notes
               /\ "only ctime" \in notes => named = {"ctime"}
               /\ {"marked for what is below", "only contents"} \cap notes # {} => named = {"contents"}
    <2>1. a # NoNode /\ b # NoNode /\ IsRecord(a) /\ IsRecord(b)
      <3>1. "first" \in columns /\ "second" \in columns
        BY <1>4
      <3> QED BY <1>2, <3>1
    <2> HIDE DEF a, b
    <2>2. named = (changes \cap InspectRows(a, b))
                  \cup (IF HasContents(a, b) /\ changes \cap {"content", "subtree"} # {} THEN {"contents"} ELSE {})
      BY <2>1, VerdictIs
    <2>3. /\ {"type", "mode", "owner", "group", "mtime", "ctime"} \subseteq InspectRows(a, b)
          /\ {"content", "subtree", "contents"} \cap InspectRows(a, b) = {}
          /\ changes \cap {"content", "subtree"} # {} => HasContents(a, b)
          /\ \A f \in changes \ {"content", "subtree"} :
                 \/ f \in InspectRows(a, b)
                 \/ f = "size" /\ "type" \in changes
                 \/ f = "atime" /\ "mtime" \in changes
      BY <2>1, ChangeShown
    <2>4. fields = {DiffInfoField(f, a, b, f \in changes) : f \in InspectRows(a, b)}
                   \cup (IF HasContents(a, b) THEN {ContentsRow(a, b)} ELSE {})
      BY <2>1, InspectFields
    <2>5. changes = {} <=> SameNode(a, b)
      BY <2>1, FlagsAreExact
    <2>6. /\ "only ctime" \in notes => changes = {"ctime"}
          /\ {"marked for what is below", "only contents"} \cap notes # {} =>
               OwnFieldsOnly(changes) = {} /\ changes \cap {"content", "subtree"} # {}
          /\ XattrValuesDiffer(a.xattrs, b.xattrs) # {} => "xattr values" \in notes
          /\ GenericAttrValuesDiffer(a.generic, b.generic) # {} => "attribute values" \in notes
      BY <2>1 DEF DiffInfoNotes
    <2>7. ASSUME NEW f \in InspectRows(a, b), f \in changes
          PROVE  \/ DiffInfoField(f, a, b, f \in changes).cells[1] # DiffInfoField(f, a, b, f \in changes).cells[2]
                 \/ f = "xattrs" /\ "xattr values" \in notes
                 \/ f = "generic" /\ "attribute values" \in notes
      <3>1. f \notin {"content", "subtree"}
        BY <2>3
      <3>2. (f \in changes) = TRUE
        BY <2>7
      <3> HIDE DEF notes
      <3> QED BY <2>1, <2>6, <3>1, <3>2, MarkedRowTells
    <2>8. \A f : DiffInfoField(f, a, b, f \in changes).name = f /\ (DiffInfoField(f, a, b, f \in changes).changed => f \in changes)
      BY DEF DiffInfoField
    <2>9. ContentsRow(a, b).name = "contents"
      BY DEF ContentsRow
    <2> HIDE DEF named, changes, notes, fields
    <2>10. \A r \in fields : r.changed =>
                    \/ r.name = "contents" \/ r.cells[1] # r.cells[2]
                    \/ r.name = "xattrs" /\ "xattr values" \in notes
                    \/ r.name = "generic" /\ "attribute values" \in notes
      <3> SUFFICES ASSUME NEW r \in fields, r.changed
                   PROVE  \/ r.name = "contents" \/ r.cells[1] # r.cells[2]
                          \/ r.name = "xattrs" /\ "xattr values" \in notes
                          \/ r.name = "generic" /\ "attribute values" \in notes
        OBVIOUS
      <3>1. CASE r = ContentsRow(a, b)
        BY <2>9, <3>1
      <3>2. CASE r # ContentsRow(a, b)
        <4>1. PICK f \in InspectRows(a, b) : r = DiffInfoField(f, a, b, f \in changes)
          BY <2>4, <3>2
        <4> QED BY <2>7, <2>8, <4>1
      <3> QED BY <3>1, <3>2
    <2>11. named = {} <=> changes = {}
      <3>1. ASSUME NEW f \in changes PROVE named # {}
        <4>1. CASE f \in {"content", "subtree"}
          BY <2>2, <2>3, <4>1
        <4>2. CASE f \notin {"content", "subtree"}
          BY <2>2, <2>3, <4>2
        <4> QED BY <4>1, <4>2
      <3> QED BY <2>2, <3>1
    <2>12. "only ctime" \in notes => named = {"ctime"}
      BY <2>2, <2>3, <2>6
    <2>13. {"marked for what is below", "only contents"} \cap notes # {} => named = {"contents"}
      BY <2>2, <2>3, <2>6 DEF OwnFieldsOnly
    <2> QED BY <2>5, <2>10, <2>11, <2>12, <2>13
  <1> HIDE DEF a, b, fields, named, notes, columns
  <1> QED BY <1>3, <1>4 DEF InspectIsTrue, a, b, fields, named, notes, columns

-----------------------------------------------------------------------------
(* Filename search: what the scorer matches.                               *)

\* Where the first k characters of a query can be found, in order.
Embeds(f, cand, query, k) ==
    /\ f \in [1..k -> 1..Len(cand)]
    /\ \A i, j \in 1..k : i < j => f[i] < f[j]
    /\ \A i \in 1..k : Fold(cand[f[i]]) = Fold(query[i])

\* The scan has found them, each as early as possible, or they cannot be found.
Located(ps, cand, query, k) ==
    /\ ps \in Seq(1..Len(cand)) /\ Len(ps) = k
    /\ Embeds(ps, cand, query, k)
    /\ \A f : Embeds(f, cand, query, k) => \A i \in 1..k : ps[i] <= f[i]
NotLocated(ps, cand, query, k) ==
    ps \in Seq(Nat) /\ Len(ps) > 0 /\ Last(ps) = 0 /\ \A f : ~Embeds(f, cand, query, k)

\* What is found ends with the last character found.
LEMMA Shorter ==
  ASSUME NEW cand, NEW query, NEW k \in Nat, NEW f, Embeds(f, cand, query, k + 1)
  PROVE  Embeds([i \in 1..k |-> f[i]], cand, query, k)
  <1>1. \A i \in 1..k : i \in 1..(k + 1)
    OBVIOUS
  <1> QED BY <1>1 DEF Embeds

\* Step finds the first one that is the same but for case.
LEMMA StepIs ==
  ASSUME NEW cand, Len(cand) \in Nat, NEW from \in Nat, from > 0, NEW q
  PROVE  \/ /\ Step(cand, from, q) \in from..Len(cand) /\ Fold(cand[Step(cand, from, q)]) = Fold(q)
            /\ \A i \in from..Len(cand) : Fold(cand[i]) = Fold(q) => Step(cand, from, q) <= i
         \/ Step(cand, from, q) = 0 /\ \A i \in from..Len(cand) : Fold(cand[i]) # Fold(q)
  <1> DEFINE I == {i \in from..Len(cand) : Fold(cand[i]) = Fold(q)}
  <1>1. Step(cand, from, q) = IF I # {} THEN Min(I) ELSE 0
    BY DEF Step, SelectInSubSeq
  <1>2. I \in SUBSET Nat
    OBVIOUS
  <1>3. I # {} => Min(I) \in I /\ \A i \in I : Min(I) <= i
    <2> HIDE DEF I
    <2> QED BY ONLY <1>2, FirstOf
  <1> QED BY <1>1, <1>3

\* One round of the scan.
NextPosition(cand, ps, q) ==
    IF ps # <<>> /\ Last(ps) = 0 THEN ps
    ELSE Append(ps, Step(cand, IF ps = <<>> THEN 1 ELSE Last(ps) + 1, q))

\* Taking the first is never wrong: what is found is as early as can be.
LEMMA OneMoreFound ==
  ASSUME NEW cand, Len(cand) \in Nat, NEW query, NEW k \in Nat, NEW ps, Located(ps, cand, query, k)
  PROVE  \/ Located(NextPosition(cand, ps, query[k + 1]), cand, query, k + 1)
         \/ NotLocated(NextPosition(cand, ps, query[k + 1]), cand, query, k + 1)
  <1> DEFINE n == Len(cand)
             from == IF ps = <<>> THEN 1 ELSE Last(ps) + 1
             q == query[k + 1]
             s == Step(cand, from, q)
             next == Append(ps, s)
  <1>1. ps \in Seq(1..n) /\ Len(ps) = k /\ (ps = <<>> <=> k = 0) /\ n \in Nat
    BY DEF Located
  <1>2. k > 0 => Last(ps) = ps[k] /\ ps[k] \in 1..n
    BY <1>1 DEF Last
  <1>3. NextPosition(cand, ps, q) = next
    BY <1>1, <1>2 DEF NextPosition
  <1>4. from \in Nat /\ from > 0 /\ from = IF k = 0 THEN 1 ELSE ps[k] + 1
    BY <1>1, <1>2
  \* Each way to find one more is found by this step.
  <1>5. ASSUME NEW f, Embeds(f, cand, query, k + 1)
        PROVE  f[k + 1] \in from..n /\ Fold(cand[f[k + 1]]) = Fold(q)
    <2>1. k + 1 \in 1..(k + 1)
      OBVIOUS
    <2>2. f[k + 1] \in 1..n /\ Fold(cand[f[k + 1]]) = Fold(q)
      BY <1>5, <2>1 DEF Embeds
    <2>3. CASE k = 0
      BY <1>1, <1>4, <2>2, <2>3
    <2>4. CASE k > 0
      <3>1. k \in 1..k /\ k \in 1..(k + 1) /\ k < k + 1
        BY <2>4
      <3>2. f[k] < f[k + 1] /\ f[k] \in 1..n
        BY <1>5, <2>1, <3>1 DEF Embeds
      <3>3. PICK g : g = [i \in 1..k |-> f[i]]
        OBVIOUS
      <3>4. Embeds(g, cand, query, k)
        BY <1>5, <3>3, Shorter
      <3>5. ps[k] <= g[k] /\ g[k] = f[k]
        BY <3>1, <3>3, <3>4 DEF Located
      <3> QED BY <1>1, <1>2, <1>4, <2>2, <2>4, <3>2, <3>5
    <2> QED BY <2>3, <2>4
  <1> HIDE DEF from, q, s, n
  <1>6. \/ /\ s \in from..n /\ Fold(cand[s]) = Fold(q) /\ \A i \in from..n : Fold(cand[i]) = Fold(q) => s <= i
        \/ s = 0 /\ \A i \in from..n : Fold(cand[i]) # Fold(q)
    <2>1. Len(cand) \in Nat
      BY <1>1 DEF n
    <2> QED BY ONLY <1>4, <2>1, StepIs DEF s, n
  <1>7. CASE s = 0
    <2>1. \A f : ~Embeds(f, cand, query, k + 1)
      BY <1>1, <1>4, <1>5, <1>6, <1>7
    <2>2. next \in Seq(Nat) /\ Len(next) > 0 /\ Last(next) = 0
      <3>1. ps \in Seq(Nat)
        BY <1>1
      <3> QED BY <1>1, <1>7, <3>1 DEF Last
    <2> QED BY <1>3, <2>1, <2>2 DEF NotLocated, q
  <1>8. CASE s # 0
    <2>1. s \in from..n /\ s \in 1..n /\ Fold(cand[s]) = Fold(q) /\ \A i \in from..n : Fold(cand[i]) = Fold(q) => s <= i
      BY <1>1, <1>4, <1>6, <1>8
    <2>2. next \in Seq(1..n) /\ Len(next) = k + 1 /\ next[k + 1] = s /\ \A i \in 1..k : next[i] = ps[i]
      BY <1>1, <2>1
    <2>3. \A i \in 1..(k + 1) : i \in 1..k \/ i = k + 1
      OBVIOUS
    <2>4. ASSUME NEW i \in 1..(k + 1), NEW j \in 1..(k + 1), i < j PROVE next[i] < next[j]
      <3>1. i \in 1..k
        BY <2>4
      <3>2. CASE j \in 1..k
        BY <2>2, <2>4, <3>1, <3>2 DEF Located, Embeds
      <3>3. CASE j = k + 1
        <4>1. k > 0 /\ k \in 1..k /\ ps[i] \in 1..n /\ ps[k] \in 1..n
          BY <1>1, <3>1
        <4>2. ps[i] <= ps[k]
          <5>1. i = k \/ i < k
            BY <3>1
          <5>2. i < k => ps[i] < ps[k]
            BY <3>1, <4>1 DEF Located, Embeds
          <5> QED BY <1>1, <4>1, <5>1, <5>2
        <4>3. ps[k] < s
          BY <1>1, <1>4, <2>1, <4>1
        <4> QED BY <1>1, <2>1, <2>2, <3>1, <3>3, <4>1, <4>2, <4>3
      <3> QED BY <2>3, <3>2, <3>3
    <2>5. \A i \in 1..(k + 1) : Fold(cand[next[i]]) = Fold(query[i])
      <3>1. \A i \in 1..k : Fold(cand[ps[i]]) = Fold(query[i])
        BY DEF Located, Embeds
      <3> HIDE DEF next
      <3> QED BY <2>1, <2>2, <2>3, <3>1 DEF q
    <2>6. Embeds(next, cand, query, k + 1)
      <3> HIDE DEF next
      <3>1. next \in [1..Len(next) -> 1..n]
        <4>1. \A S : \A t \in Seq(S) : t \in [1..Len(t) -> S]
          OBVIOUS
        <4> QED BY ONLY <2>2, <4>1
      <3> QED BY <2>2, <2>4, <2>5, <3>1 DEF Embeds, n
    <2>7. ASSUME NEW f, Embeds(f, cand, query, k + 1), NEW i \in 1..(k + 1) PROVE next[i] <= f[i]
      <3>1. CASE i \in 1..k
        <4>1. PICK g : g = [x \in 1..k |-> f[x]]
          OBVIOUS
        <4>2. Embeds(g, cand, query, k)
          BY <2>7, <4>1, Shorter
        <4>3. ps[i] <= g[i] /\ g[i] = f[i]
          BY <3>1, <4>1, <4>2 DEF Located
        <4> QED BY <2>2, <3>1, <4>3
      <3>2. CASE i = k + 1
        BY <1>5, <2>1, <2>2, <2>7, <3>2
      <3> QED BY <2>3, <3>1, <3>2
    <2> HIDE DEF next
    <2>8. Located(next, cand, query, k + 1)
      BY <2>2, <2>6, <2>7 DEF Located, n
    <2> QED BY <1>3, <2>8 DEF q
  <1> QED BY <1>7, <1>8

\* The scan, as a fold over the query.
IsPositionsFold(g, cand, query) ==
    g = [s \in SUBSET (DOMAIN query) |-> IF s = {} THEN <<>> ELSE NextPosition(cand, g[s \ {Max(s)}], query[Max(s)])]
AllPositions(cand, query) == FoldLeft(LAMBDA ps, q : NextPosition(cand, ps, q), <<>>, query)

LEMMA PositionsChosen ==
  \A cand, query : AllPositions(cand, query) = (CHOOSE g : IsPositionsFold(g, cand, query))[DOMAIN query]
  BY DEF AllPositions, FoldLeft, MapThenFoldSet, IsPositionsFold

LEMMA PositionsAre ==
  \A cand, query :
     Positions(cand, query) = IF Contains(AllPositions(cand, query), 0) THEN <<>> ELSE AllPositions(cand, query)
  BY DEF Positions, AllPositions, NextPosition

\* The scan finds the query, or it is not there.
LEMMA Scanned ==
  ASSUME NEW cand, Len(cand) \in Nat, NEW query, Len(query) \in Nat, DOMAIN query = 1..Len(query)
  PROVE  \/ Located(AllPositions(cand, query), cand, query, Len(query))
         \/ NotLocated(AllPositions(cand, query), cand, query, Len(query))
  <1> DEFINE n == Len(query)
             W == Seq(Nat)
             c == CHOOSE g : IsPositionsFold(g, cand, query)
             step == [x \in (1..n) \X W |-> NextPosition(cand, x[2], query[x[1]])]
  <1>1. n \in Nat /\ DOMAIN query = 1..n
    OBVIOUS
  <1>e. <<>> \in W
    OBVIOUS
  <1>2. \A k \in 1..n, r \in W : NextPosition(cand, r, query[k]) \in W
    <2> SUFFICES ASSUME NEW k \in 1..n, NEW r \in W PROVE NextPosition(cand, r, query[k]) \in W
      OBVIOUS
    <2> DEFINE from == IF r = <<>> THEN 1 ELSE Last(r) + 1
    <2>1. from \in Nat /\ from > 0
      BY DEF Last
    <2>2. Step(cand, from, query[k]) \in Nat
      <3> HIDE DEF from
      <3>1. Step(cand, from, query[k]) \in from..Len(cand) \/ Step(cand, from, query[k]) = 0
        BY <2>1, StepIs
      <3> QED BY <2>1, <3>1
    <2> QED BY <2>2 DEF NextPosition
  <1> HIDE DEF n, W
  <1>3. IsStep(step, n, W)
    BY <1>2 DEF IsStep
  <1>s. \A k \in 1..n, r \in W : step[<<k, r>>] = NextPosition(cand, r, query[k])
    OBVIOUS
  <1> HIDE DEF step
  <1>4. PICK g : IsPlaceFold(g, step, <<>>, n, W)
    BY <1>1, <1>e, <1>3, PlaceFold
  <1>5. IsPositionsFold(g, cand, query)
    <2>1. ASSUME NEW s \in SUBSET (1..n), s # {}
          PROVE  g[s] = NextPosition(cand, g[s \ {Max(s)}], query[Max(s)])
      <3>1. Max(s) \in 1..n
        BY <1>1, <2>1, Last1
      <3>2. g[s \ {Max(s)}] \in W
        BY <1>4 DEF IsPlaceFold
      <3>3. g[s] = step[<<Max(s), g[s \ {Max(s)}]>>]
        BY <1>4, <2>1 DEF IsPlaceFold
      <3> QED BY <1>s, <3>1, <3>2, <3>3
    <2>2. g[{}] = <<>> /\ g = [s \in SUBSET (1..n) |-> g[s]]
      BY <1>4 DEF IsPlaceFold
    <2> QED BY <1>1, <2>1, <2>2 DEF IsPositionsFold
  <1>6. IsPositionsFold(c, cand, query)
    BY <1>5
  <1>7. AllPositions(cand, query) = c[1..n]
    BY <1>1, PositionsChosen
  <1> HIDE DEF c
  <1>8. c[{}] = <<>>
    BY <1>6 DEF IsPositionsFold
  <1>9. ASSUME NEW k \in 1..n PROVE c[1..k] = NextPosition(cand, c[1..(k - 1)], query[k])
    <2>1. n \in Nat
      BY <1>1
    <2>2. Max(1..k) = k /\ (1..k) \ {k} = 1..(k - 1) /\ (1..k) \in SUBSET (1..n) /\ 1..k # {}
      BY ONLY <2>1, k \in 1..n, LastOfAll
    <2> QED BY <1>1, <1>6, <2>2 DEF IsPositionsFold
  <1> DEFINE Q == {k \in 0..n : Located(c[1..k], cand, query, k) \/ NotLocated(c[1..k], cand, query, k)}
  <1>10. 0 \in Q
    <2>1. 1..0 = {} /\ 0 \in 0..n
      BY <1>1
    <2>2. Located(<<>>, cand, query, 0)
      <3>1. <<>> \in [{} -> 1..Len(cand)] /\ <<>> \in Seq(1..Len(cand)) /\ Len(<<>>) = 0
        OBVIOUS
      <3> QED BY <2>1, <3>1 DEF Located, Embeds
    <2> QED BY <1>8, <2>1, <2>2
  <1>11. ASSUME NEW j \in 0..(n - 1), j \in Q PROVE j + 1 \in Q
    <2>1. PICK k : k = j + 1
      OBVIOUS
    <2>2. k \in 1..n /\ k - 1 = j /\ k \in 0..n /\ j \in Nat
      BY <1>1, <2>1
    <2>3. PICK ps : ps = c[1..j]
      OBVIOUS
    <2>4. c[1..k] = NextPosition(cand, ps, query[k])
      BY <1>9, <2>2, <2>3
    <2>5. CASE Located(ps, cand, query, j)
      <3>1. Located(NextPosition(cand, ps, query[k]), cand, query, k) \/ NotLocated(NextPosition(cand, ps, query[k]), cand, query, k)
        BY <2>1, <2>2, <2>5, OneMoreFound
      <3> QED BY <2>1, <2>2, <2>4, <3>1
    <2>6. CASE NotLocated(ps, cand, query, j)
      <3>1. c[1..k] = ps
        BY <2>4, <2>6 DEF NotLocated, NextPosition
      <3>2. \A f : ~Embeds(f, cand, query, k)
        BY <2>1, <2>2, <2>6, Shorter DEF NotLocated
      <3>3. NotLocated(c[1..k], cand, query, k)
        BY <2>6, <3>1, <3>2 DEF NotLocated
      <3> QED BY <2>1, <2>2, <3>3
    <2> QED BY <1>11, <2>3, <2>5, <2>6
  <1> HIDE DEF Q
  <1>12. \A k \in 0..n : k \in Q
    BY ONLY <1>10, <1>11, <1>1, Induction
  <1>13. n \in Q
    BY <1>1, <1>12
  <1> QED BY <1>7, <1>13 DEF Q, n

\* The scorer accepts what the prefilter of the database admits.
LEMMA ScorerAdmits ==
  ASSUME NEW cand, Len(cand) \in Nat, DOMAIN cand = 1..Len(cand),
         NEW query, Len(query) \in Nat, DOMAIN query = 1..Len(query), query # <<>>, Len(query) > 0
  PROVE  Matches(cand, query) <=> Like(cand, query)
  <1> DEFINE all == AllPositions(cand, query)
  <1>1. Like(cand, query) <=> \E f : Embeds(f, cand, query, Len(query))
    BY DEF Like, Embeds
  <1>2. Matches(cand, query) <=> ~Contains(all, 0) /\ all # <<>>
    BY PositionsAre DEF Matches
  <1> HIDE DEF all
  <1>3. CASE Located(all, cand, query, Len(query))
    <2>1. Like(cand, query)
      BY <1>1, <1>3 DEF Located
    <2>2. ~Contains(all, 0) /\ all # <<>>
      <3>1. all \in Seq(1..Len(cand)) /\ Len(all) = Len(query)
        BY <1>3 DEF Located
      <3>2. \A i \in 1..Len(all) : all[i] \in 1..Len(cand)
        BY <3>1
      <3> QED BY <3>1, <3>2 DEF Contains
    <2> QED BY <1>2, <2>1, <2>2
  <1>4. CASE NotLocated(all, cand, query, Len(query))
    <2>1. ~Like(cand, query)
      BY <1>1, <1>4 DEF NotLocated
    <2>2. Contains(all, 0)
      <3>1. Len(all) \in 1..Len(all) /\ all[Len(all)] = 0
        BY <1>4 DEF NotLocated, Last
      <3> QED BY <3>1 DEF Contains
    <2> QED BY <1>2, <2>1, <2>2
  <1> QED BY <1>3, <1>4, Scanned DEF all

-----------------------------------------------------------------------------
(* Filename search: what is kept.                                          *)

\* Rows to be ranked: no two have one path.
IsRanks(R) ==
    /\ \A r \in R : r.score \in Int /\ Len(r.name) \in Nat /\ r.path \in Int
    /\ \A r, t \in R : r.path = t.path => r = t

\* One of any two of them is better.
IsBetterOrder(R) ==
    /\ \A r \in R : ~Better(r, r)
    /\ \A r, t, u \in R : Better(r, t) /\ Better(t, u) => Better(r, u)
    /\ \A r, t \in R : r = t \/ Better(r, t) \/ Better(t, r)

LEMMA BetterOrder ==
  ASSUME NEW R, IsRanks(R)
  PROVE  IsBetterOrder(R)
  <1>1. \A r \in R : ~Better(r, r)
    BY DEF Better, IsRanks
  <1>2. ASSUME NEW r \in R, NEW t \in R, NEW u \in R, Better(r, t), Better(t, u) PROVE Better(r, u)
    <2>1. /\ r.score \in Int /\ t.score \in Int /\ u.score \in Int
          /\ Len(r.name) \in Nat /\ Len(t.name) \in Nat /\ Len(u.name) \in Nat
          /\ r.path \in Int /\ t.path \in Int /\ u.path \in Int
      BY DEF IsRanks
    <2> QED BY <1>2, <2>1 DEF Better
  <1>3. ASSUME NEW r \in R, NEW t \in R, r # t PROVE Better(r, t) \/ Better(t, r)
    <2>1. /\ r.score \in Int /\ t.score \in Int /\ Len(r.name) \in Nat /\ Len(t.name) \in Nat
          /\ r.path \in Int /\ t.path \in Int /\ r.path # t.path
      BY <1>3 DEF IsRanks
    <2> QED BY <2>1 DEF Better
  <1> QED BY <1>1, <1>2, <1>3 DEF IsBetterOrder

\* The best of R, best first, as many as limit.
KeepsBest(top, R, limit) ==
    /\ top \in Seq(R) /\ Len(top) <= limit
    /\ \A i, j \in 1..Len(top) : i < j => Better(top[i], top[j])
    /\ Len(top) < limit => \A r \in R : \E i \in 1..Len(top) : top[i] = r
    /\ \A r \in R : (\E i \in 1..Len(top) : top[i] = r) \/ \A i \in 1..Len(top) : Better(top[i], r)

\* Where a new row is put: behind all that are better.
PutTogether(top, r) ==
    LET at == SelectInSeq(top, LAMBDA t : Better(r, t)) IN IF at = 0 THEN Append(top, r) ELSE InsertAt(top, at, r)
IsPutAt(longer, top, r, at) ==
    /\ longer = PutTogether(top, r) /\ Len(longer) = Len(top) + 1 /\ longer[at] = r
    /\ \A i \in 1..(at - 1) : longer[i] = top[i] /\ Better(top[i], r)
    /\ \A i \in at..Len(top) : longer[i + 1] = top[i] /\ Better(r, top[i])

LEMMA PutIn ==
  ASSUME NEW R, NEW r, IsBetterOrder(R \cup {r}), r \notin R, NEW top \in Seq(R),
         \A i, j \in 1..Len(top) : i < j => Better(top[i], top[j])
  PROVE  \E at \in 1..(Len(top) + 1), longer \in Seq(R \cup {r}) : IsPutAt(longer, top, r, at)
  <1> DEFINE n == Len(top)
             I == {i \in 1..n : Better(r, top[i])}
             found == SelectInSeq(top, LAMBDA t : Better(r, t))
             longer == IF found = 0 THEN Append(top, r) ELSE InsertAt(top, found, r)
             T == R \cup {r}
  <1>1. n \in Nat /\ (\A i \in 1..n : top[i] \in R) /\ top \in Seq(T) /\ r \in T
    OBVIOUS
  <1>2. found = IF I # {} THEN Min(I) ELSE 0
    BY DEF SelectInSeq
  <1>3. I # {} => Min(I) \in I /\ \A i \in I : Min(I) <= i
    <2>1. I \in SUBSET Nat
      BY <1>1
    <2> HIDE DEF I
    <2> QED BY ONLY <2>1, FirstOf
  <1>4. \A i \in 1..n : i \notin I => Better(top[i], r)
    BY <1>1 DEF IsBetterOrder
  <1>5. CASE I = {}
    <2>1. longer = Append(top, r)
      BY <1>2, <1>5
    <2>2. longer \in Seq(T) /\ Len(longer) = n + 1 /\ longer[n + 1] = r /\ \A i \in 1..n : longer[i] = top[i]
      <3>1. \A t \in Seq(T), x \in T :
               /\ Append(t, x) \in Seq(T) /\ Len(Append(t, x)) = Len(t) + 1 /\ Append(t, x)[Len(t) + 1] = x
               /\ \A i \in 1..Len(t) : Append(t, x)[i] = t[i]
        <4> HIDE DEF T
        <4> QED OBVIOUS
      <3> HIDE DEF T, longer
      <3> QED BY ONLY <1>1, <2>1, <3>1 DEF n
    <2>3. n + 1 \in 1..(n + 1) /\ (n + 1) - 1 = n /\ (n + 1)..n = {}
      BY <1>1
    <2> HIDE DEF longer, I
    <2>4. \A i \in 1..n : Better(top[i], r)
      BY <1>4, <1>5
    <2>5. PICK at : at = n + 1
      OBVIOUS
    <2>6. /\ at \in 1..(n + 1) /\ longer[at] = r
          /\ \A i \in 1..(at - 1) : longer[i] = top[i] /\ Better(top[i], r)
          /\ \A i \in at..n : longer[i + 1] = top[i] /\ Better(r, top[i])
      BY <2>2, <2>3, <2>4, <2>5
    <2>7. longer = PutTogether(top, r)
      BY DEF longer, PutTogether
    <2>8. IsPutAt(longer, top, r, at)
      BY <2>2, <2>6, <2>7 DEF IsPutAt
    <2> QED BY <2>2, <2>6, <2>8
  <1>6. CASE I # {}
    <2>1. PICK at : at = found
      OBVIOUS
    <2>2. at \in I /\ (\A i \in I : at <= i) /\ at \in 1..n /\ at # 0
      <3>1. I \subseteq 1..n
        OBVIOUS
      <3> HIDE DEF I, found
      <3>2. at \in I /\ \A i \in I : at <= i
        BY ONLY <1>2, <1>3, <1>6, <2>1
      <3> QED BY <1>1, <3>1, <3>2
    <2>3. longer = SubSeq(top, 1, at - 1) \o <<r>> \o SubSeq(top, at, n)
      BY <2>1, <2>2 DEF InsertAt
    <2>4. PICK p : p = SubSeq(top, 1, at - 1)
      OBVIOUS
    <2>5. p \in Seq(T) /\ Len(p) = at - 1 /\ \A i \in 1..(at - 1) : p[i] = top[i]
      BY <1>1, <2>2, <2>4
    <2>6. PICK s : s = SubSeq(top, at, n)
      OBVIOUS
    <2>7. s \in Seq(T) /\ Len(s) = n - at + 1 /\ \A i \in 1..(n - at + 1) : s[i] = top[at + i - 1]
      BY <1>1, <2>2, <2>6
    <2>8. longer = p \o <<r>> \o s
      BY <2>3, <2>4, <2>6
    <2> HIDE DEF longer, I, found
    <2>9. PICK m : m = p \o <<r>>
      OBVIOUS
    <2> HIDE DEF T, n
    <2>c. \A t, u \in Seq(T) : /\ t \o u \in Seq(T) /\ Len(t \o u) = Len(t) + Len(u)
                               /\ \A i \in 1..Len(t) : (t \o u)[i] = t[i]
                               /\ \A i \in 1..(Len(t) + Len(u)) : i > Len(t) => (t \o u)[i] = u[i - Len(t)]
      OBVIOUS
    <2>d. <<r>> \in Seq(T) /\ Len(<<r>>) = 1 /\ <<r>>[1] = r
      BY ONLY <1>1
    <2>10. m \in Seq(T) /\ Len(m) = at /\ m[at] = r /\ \A i \in 1..(at - 1) : m[i] = top[i]
      <3>1. at \in Nat /\ at > 0 /\ (at - 1) + 1 = at /\ at - (at - 1) = 1
        BY <1>1, <2>2
      <3>2. m \in Seq(T) /\ Len(m) = (at - 1) + 1 /\ \A i \in 1..(at - 1) : m[i] = p[i]
        BY ONLY <2>5, <2>9, <2>c, <2>d
      <3>3. m[at] = <<r>>[at - (at - 1)]
        BY ONLY <2>5, <2>9, <2>c, <2>d, <3>1
      <3> QED BY ONLY <2>5, <2>d, <3>1, <3>2, <3>3
    <2>11. longer \in Seq(T) /\ Len(longer) = n + 1
      <3>1. longer = m \o s
        BY ONLY <2>8, <2>9
      <3>2. m \in Seq(T) /\ s \in Seq(T) /\ Len(m) = at /\ Len(s) = n - at + 1
        BY ONLY <2>7, <2>10
      <3>3. longer \in Seq(T) /\ Len(longer) = at + (n - at + 1)
        BY ONLY <2>c, <3>1, <3>2
      <3> QED BY <1>1, <2>2, <3>3
    <2>12. \A i \in 1..at : longer[i] = m[i]
      BY ONLY <2>7, <2>8, <2>9, <2>10, <2>c
    <2>13. ASSUME NEW i \in at..n PROVE longer[i + 1] = top[i]
      <3>1. i + 1 \in 1..Len(longer) /\ i + 1 > Len(m) /\ (i + 1) - Len(m) = i - at + 1 /\ i - at + 1 \in 1..Len(s)
        BY <1>1, <2>2, <2>7, <2>10, <2>11
      <3>2. longer[i + 1] = s[i - at + 1]
        <4>1. m \in Seq(T) /\ s \in Seq(T) /\ longer = m \o s /\ Len(longer) = Len(m) + Len(s)
          BY ONLY <2>7, <2>8, <2>9, <2>10, <2>c
        <4>2. i + 1 \in 1..(Len(m) + Len(s)) /\ i + 1 > Len(m)
          BY ONLY <3>1, <4>1
        <4>3. longer[i + 1] = s[(i + 1) - Len(m)]
          BY ONLY <2>c, <4>1, <4>2
        <4> QED BY ONLY <3>1, <4>3
      <3>3. at + (i - at + 1) - 1 = i
        BY <2>2
      <3> QED BY <2>7, <3>1, <3>2, <3>3
    <2>14. \A i \in 1..(at - 1) : Better(top[i], r)
      <3>1. \A i \in 1..(at - 1) : i \in 1..n /\ i < at
        BY <1>1, <2>2
      <3>2. \A i \in 1..(at - 1) : i \notin I
        BY <2>2, <3>1
      <3> QED BY <1>4, <3>1, <3>2
    <2>15. \A i \in at..n : Better(r, top[i])
      <3> SUFFICES ASSUME NEW i \in at..n PROVE Better(r, top[i])
        OBVIOUS
      <3>1. Better(r, top[at])
        BY <2>2 DEF I
      <3>2. i \in 1..n /\ (i = at \/ at < i)
        BY <1>1, <2>2
      <3>3. at < i => Better(top[at], top[i])
        BY <2>2, <3>2 DEF n
      <3>4. top[at] \in T /\ top[i] \in T /\ r \in T
        BY <1>1, <2>2, <3>2 DEF T
      <3> QED BY <3>1, <3>2, <3>3, <3>4 DEF IsBetterOrder, T
    <2>16. longer[at] = r /\ \A i \in 1..(at - 1) : longer[i] = top[i]
      BY <2>2, <2>10, <2>12
    <2>17. at \in 1..(n + 1)
      BY <1>1, <2>2
    <2>18. longer = PutTogether(top, r)
      BY DEF longer, found, PutTogether
    <2>19. IsPutAt(longer, top, r, at)
      BY <2>11, <2>13, <2>14, <2>15, <2>16, <2>18 DEF IsPutAt, n
    <2> QED BY <2>11, <2>17, <2>19 DEF n, T
  <1> QED BY <1>5, <1>6

LEMMA InsertType ==
  ASSUME NEW T, NEW top \in Seq(T), NEW r \in T, NEW limit \in Nat
  PROVE  InsertTopN(top, r, limit) \in Seq(T)
  <1> DEFINE at == SelectInSeq(top, LAMBDA t : Better(r, t))
             longer == IF at = 0 THEN Append(top, r) ELSE InsertAt(top, at, r)
  <1>1. at \in 0..Len(top)
    <2> DEFINE I == {i \in 1..Len(top) : Better(r, top[i])}
    <2>1. at = IF I # {} THEN Min(I) ELSE 0
      BY DEF SelectInSeq
    <2>2. I \in SUBSET Nat /\ I \subseteq 1..Len(top)
      OBVIOUS
    <2> HIDE DEF I, at
    <2>3. I # {} => Min(I) \in I
      BY ONLY <2>2, FirstOf
    <2>4. \A i \in 1..Len(top) : i \in 0..Len(top)
      OBVIOUS
    <2>5. 0 \in 0..Len(top)
      OBVIOUS
    <2> QED BY ONLY <2>1, <2>2, <2>3, <2>4, <2>5
  <1> HIDE DEF at
  <1>2. longer \in Seq(T)
    <2>1. Append(top, r) \in Seq(T)
      OBVIOUS
    <2>2. ASSUME at # 0 PROVE InsertAt(top, at, r) \in Seq(T)
      <3>1. at \in 1..Len(top)
        BY <1>1, <2>2
      <3>2. SubSeq(top, 1, at - 1) \in Seq(T) /\ SubSeq(top, at, Len(top)) \in Seq(T) /\ <<r>> \in Seq(T)
        BY <3>1
      <3>3. \A a, b, c \in Seq(T) : a \o b \o c \in Seq(T)
        OBVIOUS
      <3> QED BY ONLY <3>2, <3>3 DEF InsertAt
    <2> QED BY ONLY <2>1, <2>2
  <1> HIDE DEF longer
  <1> DEFINE m == IF Len(longer) > limit THEN limit ELSE Len(longer)
  <1>3. m \in 0..Len(longer)
    BY <1>2
  <1> HIDE DEF m
  <1>4. SubSeq(longer, 1, m) \in Seq(T)
    BY ONLY <1>2, <1>3
  <1>5. InsertTopN(top, r, limit) = IF Len(top) >= limit /\ ~Better(r, Last(top)) THEN top ELSE SubSeq(longer, 1, m)
    BY DEF InsertTopN, longer, at, m
  <1> QED BY <1>4, <1>5

\* insertTopN keeps the best of one row more.
LEMMA OneMoreKept ==
  ASSUME NEW R, NEW r, IsBetterOrder(R \cup {r}), r \notin R, NEW limit \in Nat, limit > 0, NEW top, KeepsBest(top, R, limit)
  PROVE  KeepsBest(InsertTopN(top, r, limit), R \cup {r}, limit)
  <1> DEFINE n == Len(top)
             T == R \cup {r}
             both == PutTogether(top, r)
  <1>1. n \in Nat /\ n <= limit /\ top \in Seq(R) /\ \A i \in 1..n : top[i] \in R
    BY DEF KeepsBest
  <1>2. \A i, j \in 1..n : i < j => Better(top[i], top[j])
    BY DEF KeepsBest
  <1>3. InsertTopN(top, r, limit) =
          IF n >= limit /\ ~Better(r, Last(top)) THEN top
          ELSE SubSeq(both, 1, IF Len(both) > limit THEN limit ELSE Len(both))
    BY DEF InsertTopN, PutTogether
  <1>4. CASE n >= limit /\ ~Better(r, Last(top))
    <2>1. n = limit /\ n \in 1..n /\ Last(top) = top[n]
      BY <1>1, <1>4 DEF Last
    <2>2. Better(top[n], r)
      BY <1>1, <1>4, <2>1 DEF IsBetterOrder
    <2>3. ASSUME NEW i \in 1..n PROVE Better(top[i], r)
      <3>1. i = n \/ i < n
        BY <1>1
      <3>2. i < n => Better(top[i], top[n])
        BY <1>2, <2>1
      <3>3. top[i] \in T /\ top[n] \in T /\ r \in T
        BY <1>1, <2>1
      <3> QED BY <2>2, <3>1, <3>2, <3>3 DEF IsBetterOrder
    <2>4. top \in Seq(T)
      BY <1>1
    <2>5. KeepsBest(top, T, limit)
      BY <1>1, <1>2, <2>1, <2>3, <2>4 DEF KeepsBest
    <2> QED BY <1>3, <1>4, <2>5
  <1>5. CASE ~(n >= limit /\ ~Better(r, Last(top)))
    <2>1. PICK at \in 1..(n + 1), longer \in Seq(T) :
             /\ longer = both /\ Len(longer) = n + 1 /\ longer[at] = r
             /\ \A i \in 1..(at - 1) : longer[i] = top[i] /\ Better(top[i], r)
             /\ \A i \in at..n : longer[i + 1] = top[i] /\ Better(r, top[i])
      <3>1. \E at \in 1..(Len(top) + 1), longer \in Seq(R \cup {r}) : IsPutAt(longer, top, r, at)
        BY <1>1, <1>2, PutIn
      <3> QED BY <3>1 DEF IsPutAt
    <2> DEFINE m == IF n + 1 > limit THEN limit ELSE n + 1
    <2>2. InsertTopN(top, r, limit) = SubSeq(longer, 1, m)
      BY <1>3, <1>5, <2>1
    <2> HIDE DEF T, both
    <2>3. m \in Nat /\ m <= n + 1 /\ m <= limit /\ m >= n /\ (n < limit => m = n + 1) /\ (m = n + 1 \/ m = n)
      BY <1>1
    <2> HIDE DEF m
    <2>4. PICK new : new = SubSeq(longer, 1, m)
      OBVIOUS
    <2>5. new \in Seq(T) /\ Len(new) = m /\ \A i \in 1..m : new[i] = longer[i]
      <3>1. m \in 0..Len(longer)
        BY <1>1, <2>1, <2>3
      <3>2. \A S : \A t \in Seq(S), k \in Nat : k <= Len(t) =>
               SubSeq(t, 1, k) \in Seq(S) /\ Len(SubSeq(t, 1, k)) = k /\ \A i \in 1..k : SubSeq(t, 1, k)[i] = t[i]
        OBVIOUS
      <3>3. m \in Nat /\ m <= Len(longer)
        BY <1>1, <2>1, <2>3
      <3> QED BY ONLY <2>1, <2>4, <3>2, <3>3
    \* Each place of the longer list: an old row on either side, or the new one.
    <2>6. \A i \in 1..(n + 1) : i \in 1..(at - 1) \/ i = at \/ (i - 1 \in at..n /\ (i - 1) + 1 = i)
      BY <1>1, <2>1
    <2>7. \A i \in 1..(at - 1) : i \in 1..n
      BY <1>1, <2>1
    <2>8. ASSUME NEW i \in 1..(n + 1), NEW j \in 1..(n + 1), i < j PROVE Better(longer[i], longer[j])
      <3>1. CASE j \in 1..(at - 1)
        <4>1. i \in 1..(at - 1)
          BY <2>1, <2>8, <3>1
        <4> QED BY <1>2, <2>1, <2>7, <2>8, <3>1, <4>1
      <3>2. CASE j = at
        <4>1. i \in 1..(at - 1)
          BY <2>1, <2>8, <3>2
        <4> QED BY <2>1, <3>2, <4>1
      <3>3. CASE j - 1 \in at..n /\ (j - 1) + 1 = j
        <4>1. longer[j] = top[j - 1] /\ Better(r, top[j - 1])
          BY <2>1, <3>3
        <4>2. CASE i \in 1..(at - 1)
          <5>1. i \in 1..n /\ j - 1 \in 1..n /\ i < j - 1
            BY <1>1, <2>1, <3>3, <4>2
          <5> QED BY <1>2, <2>1, <4>1, <4>2, <5>1
        <4>3. CASE i = at
          BY <2>1, <4>1, <4>3
        <4>4. CASE i - 1 \in at..n /\ (i - 1) + 1 = i
          <5>1. i - 1 \in 1..n /\ j - 1 \in 1..n /\ i - 1 < j - 1
            BY <1>1, <2>1, <2>8, <3>3, <4>4
          <5>2. longer[i] = top[i - 1]
            BY <2>1, <4>4
          <5> QED BY <1>2, <4>1, <5>1, <5>2
        <4> QED BY <2>6, <4>2, <4>3, <4>4
      <3> QED BY <2>6, <3>1, <3>2, <3>3
    <2>9. \A i, j \in 1..m : i < j => Better(new[i], new[j])
      <3>1. \A i \in 1..m : i \in 1..(n + 1)
        BY <1>1, <2>3
      <3> QED BY <2>5, <2>8, <3>1
    \* Nothing of the old list is lost but its last row.
    <2>10. \A i \in 1..n : \E j \in 1..(n + 1) : longer[j] = top[i] /\ (i < n => j <= n)
      <3> SUFFICES ASSUME NEW i \in 1..n PROVE \E j \in 1..(n + 1) : longer[j] = top[i] /\ (i < n => j <= n)
        OBVIOUS
      <3>1. CASE i < at
        <4>1. i \in 1..(at - 1) /\ i \in 1..(n + 1) /\ i <= n
          BY <1>1, <2>1, <3>1
        <4> QED BY <2>1, <4>1
      <3>2. CASE i >= at
        <4>1. i \in at..n /\ i + 1 \in 1..(n + 1) /\ (i < n => i + 1 <= n)
          BY <1>1, <2>1, <3>2
        <4> QED BY <2>1, <4>1
      <3> QED BY <2>1, <3>1, <3>2
    <2>11. CASE m = n + 1
      <3>1. n < limit
        BY <1>1, <2>3, <2>11
      <3>2. \A x \in R : \E i \in 1..n : top[i] = x
        BY <3>1 DEF KeepsBest
      <3>3. ASSUME NEW x \in T PROVE \E j \in 1..m : new[j] = x
        <4>1. CASE x = r
          BY <2>1, <2>5, <2>11, <4>1
        <4>2. CASE x # r
          <5>1. PICK i \in 1..n : top[i] = x
            BY <3>2, <4>2 DEF T
          <5>2. PICK j \in 1..(n + 1) : longer[j] = top[i]
            BY <2>10
          <5> QED BY <2>5, <2>11, <5>1, <5>2
        <4> QED BY <4>1, <4>2
      <3>4. KeepsBest(new, T, limit)
        BY <2>3, <2>5, <2>9, <3>3 DEF KeepsBest
      <3> QED BY <2>2, <2>4, <3>4 DEF T
    <2>12. CASE m = n
      <3>1. n = limit /\ n \in 1..n /\ Last(top) = top[n]
        BY <1>1, <2>3, <2>12 DEF Last
      <3>2. Better(r, top[n])
        BY <1>5, <3>1
      <3>3. at \in 1..n
        <4>1. ASSUME at = n + 1 PROVE FALSE
          <5>1. n \in 1..(at - 1)
            BY <1>1, <3>1, <4>1
          <5>2. Better(top[n], r) /\ top[n] \in T /\ r \in T
            BY <1>1, <2>1, <3>1, <5>1 DEF T
          <5> QED BY <3>2, <5>2 DEF IsBetterOrder, T
        <4> QED BY <1>1, <2>1, <4>1
      <3>4. longer[n + 1] = top[n]
        <4>1. n \in at..n
          BY <1>1, <3>3
        <4> QED BY <2>1, <4>1
      <3>5. \A j \in 1..m : Better(new[j], top[n])
        <4>1. \A j \in 1..m : j \in 1..(n + 1) /\ j < n + 1 /\ n + 1 \in 1..(n + 1)
          BY <1>1, <2>12
        <4> QED BY <2>5, <2>8, <3>4, <4>1
      <3>6. ASSUME NEW x \in T PROVE (\E j \in 1..m : new[j] = x) \/ \A j \in 1..m : Better(new[j], x)
        <4>1. CASE x = r
          <5>1. at \in 1..m
            BY <2>12, <3>3
          <5> QED BY <2>1, <2>5, <4>1, <5>1
        <4>2. CASE \E i \in 1..n : top[i] = x
          <5>1. PICK i \in 1..n : top[i] = x
            BY <4>2
          <5>2. CASE i < n
            <6>1. PICK j \in 1..(n + 1) : longer[j] = top[i] /\ j <= n
              BY <2>10, <5>2
            <6>2. j \in 1..m
              BY <2>12, <6>1
            <6> QED BY <2>5, <5>1, <6>1, <6>2
          <5>3. CASE i = n
            BY <3>5, <5>1, <5>3
          <5> QED BY <1>1, <5>2, <5>3
        <4>3. CASE x # r /\ ~\E i \in 1..n : top[i] = x
          <5>1. x \in R /\ Better(top[n], x)
            BY <3>1, <4>3 DEF KeepsBest, T
          <5>2. \A j \in 1..m : new[j] \in T
            BY <2>5
          <5>3. top[n] \in T /\ x \in T
            BY <1>1, <3>1 DEF T
          <5> QED BY <3>5, <5>1, <5>2, <5>3 DEF IsBetterOrder, T
        <4> QED BY <4>1, <4>2, <4>3
      <3>7. KeepsBest(new, T, limit)
        BY <2>3, <2>5, <2>9, <2>12, <3>1, <3>6 DEF KeepsBest
      <3> QED BY <2>2, <2>4, <3>7 DEF T
    <2> QED BY <2>3, <2>11, <2>12
  <1> QED BY <1>4, <1>5

\* A score is a number.
\* The score, as a fold over the positions.
AddBonus(cand, query, ps, sum, i) == sum + Bonus(cand, query, ps, i)
IsScoreFold(g, cand, query, ps, list) ==
    g = [s \in SUBSET (DOMAIN list) |->
           IF s = {} THEN 0 - Len(cand) ELSE AddBonus(cand, query, ps, g[s \ {Max(s)}], list[Max(s)])]
AddedBonus(cand, query, ps, list) ==
    FoldLeft(LAMBDA sum, i : AddBonus(cand, query, ps, sum, i), 0 - Len(cand), list)

LEMMA ScoreChosen ==
  \A cand, query, ps, list :
     AddedBonus(cand, query, ps, list) = (CHOOSE g : IsScoreFold(g, cand, query, ps, list))[DOMAIN list]
  BY DEF AddedBonus, FoldLeft, MapThenFoldSet, IsScoreFold

LEMMA BonusType == \A cand, query, ps, i : Bonus(cand, query, ps, i) \in Int
  <1> SUFFICES ASSUME NEW cand, NEW query, NEW ps, NEW i PROVE Bonus(cand, query, ps, i) \in Int
    OBVIOUS
  <1> DEFINE a == IF ps[i] = 1 THEN 16
                  ELSE IF i > 1 /\ ps[i] = ps[i - 1] + 1 THEN 8
                  ELSE IF cand[ps[i] - 1].sep THEN 8 ELSE 0
             b == IF cand[ps[i]] = query[i] THEN 2 ELSE 0
  <1>1. a \in Int /\ b \in Int
    OBVIOUS
  <1>2. Bonus(cand, query, ps, i) = 16 + a + b
    BY DEF Bonus
  <1> HIDE DEF a, b
  <1> QED BY ONLY <1>1, <1>2

LEMMA ScoreType ==
  ASSUME NEW cand, Len(cand) \in Nat, NEW query, NEW m \in Nat, DOMAIN Positions(cand, query) = 1..m
  PROVE  Score(cand, query) \in Int
  <1> DEFINE n == m
             W == Int
             ps == Positions(cand, query)
             list == [i \in DOMAIN ps |-> i]
             base == 0 - Len(cand)
             c == CHOOSE g : IsScoreFold(g, cand, query, ps, list)
             step == [x \in (1..n) \X W |-> AddBonus(cand, query, ps, x[2], list[x[1]])]
  <1>1. n \in Nat /\ DOMAIN list = 1..n /\ base \in W
    OBVIOUS
  <1>2. \A k \in 1..n, r \in W : AddBonus(cand, query, ps, r, list[k]) \in W
    BY BonusType DEF AddBonus
  <1>0. Score(cand, query) = AddedBonus(cand, query, ps, list)
    BY DEF Score, AddedBonus, AddBonus
  <1> HIDE DEF n, W, base, list, ps
  <1>3. IsStep(step, n, W)
    BY <1>2 DEF IsStep
  <1>s. \A k \in 1..n, r \in W : step[<<k, r>>] = AddBonus(cand, query, ps, r, list[k])
    OBVIOUS
  <1> HIDE DEF step
  <1>4. PICK g : IsPlaceFold(g, step, base, n, W)
    BY <1>1, <1>3, PlaceFold
  <1>5. IsScoreFold(g, cand, query, ps, list)
    <2>1. ASSUME NEW s \in SUBSET (1..n), s # {}
          PROVE  g[s] = AddBonus(cand, query, ps, g[s \ {Max(s)}], list[Max(s)])
      <3>1. Max(s) \in 1..n
        BY <1>1, <2>1, Last1
      <3>2. g[s \ {Max(s)}] \in W
        BY <1>4 DEF IsPlaceFold
      <3>3. g[s] = step[<<Max(s), g[s \ {Max(s)}]>>]
        BY <1>4, <2>1 DEF IsPlaceFold
      <3> QED BY <1>s, <3>1, <3>2, <3>3
    <2>2. g[{}] = base /\ g = [s \in SUBSET (1..n) |-> g[s]]
      BY <1>4 DEF IsPlaceFold
    <2> QED BY <1>1, <2>1, <2>2 DEF IsScoreFold, base
  <1>6. IsScoreFold(c, cand, query, ps, list)
    BY <1>5
  <1>7. AddedBonus(cand, query, ps, list) = c[1..n]
    BY <1>1, ScoreChosen
  <1> HIDE DEF c
  <1>8. c[{}] = base
    BY <1>6 DEF IsScoreFold, base
  <1>9. ASSUME NEW k \in 1..n PROVE c[1..k] = AddBonus(cand, query, ps, c[1..(k - 1)], list[k])
    <2>1. n \in Nat
      BY <1>1
    <2>2. Max(1..k) = k /\ (1..k) \ {k} = 1..(k - 1) /\ (1..k) \in SUBSET (1..n) /\ 1..k # {}
      BY ONLY <2>1, k \in 1..n, LastOfAll
    <2> QED BY <1>1, <1>6, <2>2 DEF IsScoreFold
  <1> DEFINE f == [k \in 0..n |-> c[1..k]]
  <1>10. Iterates(f, step, base, n, W)
    <2>1. \A k \in 1..n : c[1..(k - 1)] \in W => c[1..k] = step[<<k, c[1..(k - 1)]>>]
      BY <1>s, <1>9
    <2>2. PICK h : h = f
      OBVIOUS
    <2> QED BY ONLY <1>1, <1>3, <1>8, <2>1, <2>2, FoldPrefix
  <1>11. f[n] \in W /\ f[n] = c[1..n]
    BY <1>1, <1>10 DEF Iterates
  <1> QED BY <1>0, <1>7, <1>11 DEF W

\* Rows of the database, with paths that differ.
SearchRows(entries, Chars) ==
    /\ entries \in Seq([name : Seq(Chars), path : Int])
    /\ \A i, j \in DOMAIN entries : entries[i].path = entries[j].path => i = j

\* The ranks of the matches among the first k rows.
RankedIn(entries, query, k) == {Rank(entries[i], query) : i \in {j \in 1..k : Matches(entries[j].name, query)}}

LEMMA RanksDiffer ==
  ASSUME NEW Chars, NEW entries, SearchRows(entries, Chars), NEW query \in Seq(Chars)
  PROVE  /\ IsRanks(RankedIn(entries, query, Len(entries)))
         /\ \A k \in 1..Len(entries) :
              /\ RankedIn(entries, query, k) =
                    IF Matches(entries[k].name, query)
                    THEN RankedIn(entries, query, k - 1) \cup {Rank(entries[k], query)} ELSE RankedIn(entries, query, k - 1)
              /\ RankedIn(entries, query, k) \subseteq RankedIn(entries, query, Len(entries))
              /\ Rank(entries[k], query) \notin RankedIn(entries, query, k - 1)
  <1> DEFINE n == Len(entries)
             E == [name : Seq(Chars), path : Int]
  <1>1. n \in Nat /\ DOMAIN entries = 1..n
    BY DEF SearchRows
  <1>2. \A i \in 1..n : entries[i] \in E
    <2>1. entries \in Seq(E)
      BY DEF SearchRows
    <2> HIDE DEF E
    <2> QED BY <1>1, <2>1
  <1>3. \A i \in 1..n : entries[i].name \in Seq(Chars) /\ entries[i].path \in Int
    BY <1>2
  <1>4. \A i \in 1..n : /\ Rank(entries[i], query).path = entries[i].path
                         /\ Rank(entries[i], query).name = entries[i].name
                         /\ Rank(entries[i], query).score = Score(entries[i].name, query)
    BY DEF Rank
  <1>5. ASSUME NEW i \in 1..n, Matches(entries[i].name, query) PROVE Score(entries[i].name, query) \in Int
    <2>1. PICK cand : cand = entries[i].name
      OBVIOUS
    <2>2. cand \in Seq(Chars) /\ Len(cand) \in Nat /\ Len(query) \in Nat /\ DOMAIN query = 1..Len(query)
      BY <1>3, <2>1
    <2>3. Located(AllPositions(cand, query), cand, query, Len(query)) \/ NotLocated(AllPositions(cand, query), cand, query, Len(query))
      BY <2>2, Scanned
    <2>4. Positions(cand, query) = AllPositions(cand, query)
      BY <1>5, <2>1, PositionsAre DEF Matches
    <2>5. AllPositions(cand, query) \in Seq(1..Len(cand)) \/ AllPositions(cand, query) \in Seq(Nat)
      BY <2>3 DEF Located, NotLocated
    <2>6. Len(Positions(cand, query)) \in Nat /\ DOMAIN Positions(cand, query) = 1..Len(Positions(cand, query))
      BY <2>4, <2>5
    <2> QED BY <2>1, <2>2, <2>6, ScoreType
  <1>6. IsRanks(RankedIn(entries, query, n))
    <2>1. ASSUME NEW r \in RankedIn(entries, query, n) PROVE r.score \in Int /\ Len(r.name) \in Nat /\ r.path \in Int
      BY <1>3, <1>4, <1>5 DEF RankedIn
    <2>2. ASSUME NEW r \in RankedIn(entries, query, n), NEW t \in RankedIn(entries, query, n), r.path = t.path PROVE r = t
      <3>1. PICK i \in 1..n : r = Rank(entries[i], query)
        BY DEF RankedIn
      <3>2. PICK j \in 1..n : t = Rank(entries[j], query)
        BY DEF RankedIn
      <3>3. i = j
        BY <1>1, <1>4, <2>2, <3>1, <3>2 DEF SearchRows
      <3> QED BY <3>1, <3>2, <3>3
    <2> QED BY <2>1, <2>2 DEF IsRanks
  <1>7. ASSUME NEW k \in 1..n
        PROVE  /\ RankedIn(entries, query, k) =
                    IF Matches(entries[k].name, query)
                    THEN RankedIn(entries, query, k - 1) \cup {Rank(entries[k], query)} ELSE RankedIn(entries, query, k - 1)
               /\ RankedIn(entries, query, k) \subseteq RankedIn(entries, query, n)
               /\ Rank(entries[k], query) \notin RankedIn(entries, query, k - 1)
    <2>1. 1..k = (1..(k - 1)) \cup {k} /\ k \notin 1..(k - 1) /\ \A i \in 1..k : i \in 1..n
      BY <1>1
    <2>2. RankedIn(entries, query, k) \subseteq RankedIn(entries, query, n)
      BY <2>1 DEF RankedIn
    <2>3. ASSUME Rank(entries[k], query) \in RankedIn(entries, query, k - 1) PROVE FALSE
      <3>1. PICK i \in 1..(k - 1) : Rank(entries[k], query) = Rank(entries[i], query)
        BY <2>3 DEF RankedIn
      <3>2. i \in 1..n /\ i # k
        BY <2>1
      <3>3. entries[k].path = entries[i].path
        BY <1>4, <3>1, <3>2
      <3> QED BY <1>1, <3>2, <3>3 DEF SearchRows
    <2>4. RankedIn(entries, query, k) =
                    IF Matches(entries[k].name, query)
                    THEN RankedIn(entries, query, k - 1) \cup {Rank(entries[k], query)} ELSE RankedIn(entries, query, k - 1)
      <3>1. CASE Matches(entries[k].name, query)
        <4>1. {j \in 1..k : Matches(entries[j].name, query)} = {j \in 1..(k - 1) : Matches(entries[j].name, query)} \cup {k}
          BY <2>1, <3>1
        <4> QED BY <3>1, <4>1 DEF RankedIn
      <3>2. CASE ~Matches(entries[k].name, query)
        <4>1. {j \in 1..k : Matches(entries[j].name, query)} = {j \in 1..(k - 1) : Matches(entries[j].name, query)}
          BY <2>1, <3>2
        <4> QED BY <3>2, <4>1 DEF RankedIn
      <3> QED BY <3>1, <3>2
    <2> QED BY <2>2, <2>3, <2>4
  <1> HIDE DEF E
  <1> QED BY <1>6, <1>7

\* One row of the database, and all of them as a fold.
KeepRow(top, e, query, limit) == IF Matches(e.name, query) THEN InsertTopN(top, Rank(e, query), limit) ELSE top
IsTopFold(g, entries, query, limit) ==
    g = [s \in SUBSET (DOMAIN entries) |-> IF s = {} THEN <<>> ELSE KeepRow(g[s \ {Max(s)}], entries[Max(s)], query, limit)]

LEMMA TopChosen ==
  \A entries, query, limit :
     ~Blank(query) => TopN(entries, query, limit) = (CHOOSE g : IsTopFold(g, entries, query, limit))[DOMAIN entries]
  BY DEF TopN, FoldLeft, MapThenFoldSet, IsTopFold, KeepRow

\* Search keeps the best of all matches.
LEMMA BestKept ==
  ASSUME NEW Chars, NEW entries, SearchRows(entries, Chars), NEW query \in Seq(Chars), NEW limit \in Nat, limit > 0,
         ~Blank(query)
  PROVE  KeepsBest(TopN(entries, query, limit), RankedIn(entries, query, Len(entries)), limit)
  <1> DEFINE n == Len(entries)
             R(k) == RankedIn(entries, query, k)
             W == Seq(R(n))
             c == CHOOSE g : IsTopFold(g, entries, query, limit)
             step == [x \in (1..n) \X W |-> KeepRow(x[2], entries[x[1]], query, limit)]
  <1>1. n \in Nat /\ DOMAIN entries = 1..n
    BY DEF SearchRows
  <1>r. /\ IsRanks(R(n))
        /\ \A k \in 1..n :
              /\ R(k) = IF Matches(entries[k].name, query) THEN R(k - 1) \cup {Rank(entries[k], query)} ELSE R(k - 1)
              /\ R(k) \subseteq R(n) /\ Rank(entries[k], query) \notin R(k - 1)
    BY RanksDiffer
  <1>e. <<>> \in W
    OBVIOUS
  <1>2. ASSUME NEW k \in 1..n, NEW r \in W PROVE KeepRow(r, entries[k], query, limit) \in W
    <2>1. CASE Matches(entries[k].name, query)
      <3>1. Rank(entries[k], query) \in R(n)
        BY <1>r, <2>1
      <3> HIDE DEF R
      <3>2. InsertTopN(r, Rank(entries[k], query), limit) \in W
        BY <3>1, InsertType
      <3> QED BY <2>1, <3>2 DEF KeepRow
    <2>2. CASE ~Matches(entries[k].name, query)
      BY <2>2 DEF KeepRow
    <2> QED BY <2>1, <2>2
  <1> HIDE DEF n, W, R
  <1>3. IsStep(step, n, W)
    BY <1>2 DEF IsStep
  <1>s. \A k \in 1..n, r \in W : step[<<k, r>>] = KeepRow(r, entries[k], query, limit)
    OBVIOUS
  <1> HIDE DEF step
  <1>4. PICK g : IsPlaceFold(g, step, <<>>, n, W)
    BY <1>1, <1>e, <1>3, PlaceFold
  <1>5. IsTopFold(g, entries, query, limit)
    <2>1. ASSUME NEW s \in SUBSET (1..n), s # {}
          PROVE  g[s] = KeepRow(g[s \ {Max(s)}], entries[Max(s)], query, limit)
      <3>1. Max(s) \in 1..n
        BY <1>1, <2>1, Last1
      <3>2. g[s \ {Max(s)}] \in W
        BY <1>4 DEF IsPlaceFold
      <3>3. g[s] = step[<<Max(s), g[s \ {Max(s)}]>>]
        BY <1>4, <2>1 DEF IsPlaceFold
      <3> QED BY <1>s, <3>1, <3>2, <3>3
    <2>2. g[{}] = <<>> /\ g = [s \in SUBSET (1..n) |-> g[s]]
      BY <1>4 DEF IsPlaceFold
    <2> QED BY <1>1, <2>1, <2>2 DEF IsTopFold
  <1>6. IsTopFold(c, entries, query, limit)
    BY <1>5
  <1>7. TopN(entries, query, limit) = c[1..n]
    BY <1>1, TopChosen
  <1> HIDE DEF c
  <1>8. c[{}] = <<>>
    BY <1>6 DEF IsTopFold
  <1>9. ASSUME NEW k \in 1..n PROVE c[1..k] = KeepRow(c[1..(k - 1)], entries[k], query, limit)
    <2>1. n \in Nat
      BY <1>1
    <2>2. Max(1..k) = k /\ (1..k) \ {k} = 1..(k - 1) /\ (1..k) \in SUBSET (1..n) /\ 1..k # {}
      BY ONLY <2>1, k \in 1..n, LastOfAll
    <2> QED BY <1>1, <1>6, <2>2 DEF IsTopFold
  <1> DEFINE Q == {k \in 0..n : KeepsBest(c[1..k], R(k), limit)}
  <1>10. 0 \in Q
    <2>1. 1..0 = {} /\ 0 \in 0..n
      BY <1>1
    <2>2. R(0) = {}
      BY <2>1 DEF R, RankedIn
    <2>3. KeepsBest(<<>>, {}, limit)
      BY DEF KeepsBest
    <2> QED BY <1>8, <2>1, <2>2, <2>3
  <1>11. ASSUME NEW j \in 0..(n - 1), j \in Q PROVE j + 1 \in Q
    <2>1. PICK k : k = j + 1
      OBVIOUS
    <2>2. k \in 1..n /\ k - 1 = j /\ k \in 0..n
      BY <1>1, <2>1
    <2>3. PICK top : top = c[1..j]
      OBVIOUS
    <2>4. KeepsBest(top, R(j), limit) /\ c[1..k] = KeepRow(top, entries[k], query, limit)
      BY <1>9, <1>11, <2>2, <2>3
    <2>5. CASE Matches(entries[k].name, query)
      <3>1. PICK r : r = Rank(entries[k], query)
        OBVIOUS
      <3>2. R(k) = R(j) \cup {r} /\ r \notin R(j) /\ R(k) \subseteq R(n)
        BY <1>r, <2>2, <2>5, <3>1
      <3>3. IsRanks(R(j) \cup {r})
        BY <1>r, <3>2 DEF IsRanks
      <3>4. IsBetterOrder(R(j) \cup {r})
        BY <3>3, BetterOrder
      <3>5. KeepsBest(InsertTopN(top, r, limit), R(j) \cup {r}, limit)
        BY <2>4, <3>2, <3>4, OneMoreKept
      <3>6. KeepsBest(c[1..k], R(k), limit)
        BY <2>4, <2>5, <3>1, <3>2, <3>5 DEF KeepRow
      <3> QED BY <2>1, <2>2, <3>6
    <2>6. CASE ~Matches(entries[k].name, query)
      <3>1. R(k) = R(j) /\ c[1..k] = top
        BY <1>r, <2>2, <2>4, <2>6 DEF KeepRow
      <3> QED BY <2>1, <2>2, <2>4, <3>1
    <2> QED BY <2>5, <2>6
  <1> HIDE DEF Q
  <1>12. \A k \in 0..n : k \in Q
    BY ONLY <1>10, <1>11, <1>1, Induction
  <1>13. n \in Q
    BY <1>1, <1>12
  <1> QED BY <1>7, <1>13 DEF Q, n, R

\* The scorer accepts what the database's prefilter admits.
LEMMA PrefilterAdmits ==
  ASSUME NEW Chars, NEW entries, SearchRows(entries, Chars), NEW query \in Seq(Chars), query # <<>>
  PROVE  \A e \in Range(entries) : Matches(e.name, query) <=> Like(e.name, query)
  <1> DEFINE n == Len(entries)
  <1>r. n \in Nat /\ DOMAIN entries = 1..n /\ Range(entries) = {entries[i] : i \in 1..n}
    BY DEF SearchRows, Range
  <1> SUFFICES ASSUME NEW i \in 1..n
               PROVE  Matches(entries[i].name, query) <=> Like(entries[i].name, query)
    BY <1>r
  <1>1. entries[i] \in [name : Seq(Chars), path : Int]
    <2>1. PICK E : E = [name : Seq(Chars), path : Int]
      OBVIOUS
    <2>2. entries \in Seq(E)
      BY <2>1 DEF SearchRows
    <2>3. i \in 1..Len(entries)
      OBVIOUS
    <2>4. \A T : \A t \in Seq(T) : \A k \in 1..Len(t) : t[k] \in T
      OBVIOUS
    <2> QED BY ONLY <2>1, <2>2, <2>3, <2>4
  <1>2. PICK cand : cand = entries[i].name
    OBVIOUS
  <1>3. cand \in Seq(Chars)
    BY <1>1, <1>2
  <1>4. Len(cand) \in Nat /\ DOMAIN cand = 1..Len(cand)
    BY <1>3
  <1>5. Len(query) \in Nat /\ DOMAIN query = 1..Len(query) /\ query # <<>> /\ Len(query) > 0
    OBVIOUS
  <1> QED BY <1>2, <1>4, <1>5, ScorerAdmits

\* So are the rows kept the best of all, for a query that asks for something.
LEMMA BestFound ==
  ASSUME NEW Chars, NEW entries, SearchRows(entries, Chars), NEW query \in Seq(Chars), NEW limit \in Nat, limit > 0,
         ~Blank(query)
  PROVE  SearchFindsBest(entries, query, limit)
  <1> DEFINE n == Len(entries)
             S == {j \in 1..n : Matches(entries[j].name, query)}
             ranks == RankedIn(entries, query, n)
             top == TopN(entries, query, limit)
             kept == {top[i] : i \in DOMAIN top}
  <1>1. n \in Nat /\ DOMAIN entries = 1..n /\ Range(entries) = {entries[i] : i \in 1..n}
    BY DEF SearchRows, Range
  <1>2. {Rank(e, query) : e \in {e \in Range(entries) : ~Blank(query) /\ Matches(e.name, query)}} = ranks
    <2>1. {e \in Range(entries) : ~Blank(query) /\ Matches(e.name, query)} = {entries[j] : j \in S}
      BY <1>1
    <2> QED BY <2>1 DEF RankedIn
  <1>3. KeepsBest(top, ranks, limit)
    BY BestKept
  <1>4. IsBetterOrder(ranks)
    BY RanksDiffer, BetterOrder
  <1>5. IsFiniteSet(ranks) /\ Cardinality(ranks) \in Nat
    <2> DEFINE f == [j \in S |-> Rank(entries[j], query)]
    <2>1. S \in SUBSET (1..n)
      OBVIOUS
    <2>2. f \in [S -> ranks]
      BY DEF RankedIn
    <2>3. \A r \in ranks : \E j \in S : f[j] = r
      BY DEF RankedIn
    <2> HIDE DEF S, f, ranks, n
    <2>4. IsFiniteSet(1..n)
      BY <1>1, FS_Interval
    <2>5. IsFiniteSet(S)
      BY <2>1, <2>4, FS_Subset
    <2>6. f \in Surjection(S, ranks)
      BY <2>2, <2>3 DEF Surjection
    <2> QED BY <2>5, <2>6, FS_Surjection, FS_CardinalityType
  <1>6. query # <<>> => \A e \in Range(entries) : Matches(e.name, query) <=> Like(e.name, query)
    BY PrefilterAdmits
  <1> HIDE DEF n, S, ranks, top
  <1>7. /\ top \in Seq(ranks) /\ Len(top) \in Nat /\ DOMAIN top = 1..Len(top) /\ Len(top) <= limit
        /\ \A i \in 1..Len(top) : top[i] \in ranks
    BY <1>3 DEF KeepsBest
  <1>8. \A i, j \in 1..Len(top) : i < j => Better(top[i], top[j])
    BY <1>3 DEF KeepsBest
  <1>9. Range(top) = kept /\ kept \in SUBSET ranks
    BY <1>7 DEF Range
  \* The kept rows differ, as none is better than itself.
  <1>10. Cardinality(kept) = Len(top)
    <2>1. top \in [1..Len(top) -> kept]
      BY <1>7
    <2>2. \A x \in kept : \E i \in 1..Len(top) : top[i] = x
      BY <1>7
    <2>3. ASSUME NEW i \in 1..Len(top), NEW j \in 1..Len(top), top[i] = top[j] PROVE i = j
      <3>1. ~(i < j) /\ ~(j < i)
        BY <1>4, <1>7, <1>8, <2>3 DEF IsBetterOrder
      <3> QED BY <1>7, <3>1
    <2> HIDE DEF kept
    <2>4. top \in Bijection(1..Len(top), kept)
      BY <2>1, <2>2, <2>3 DEF Bijection, Injection, Surjection, IsInjective
    <2>5. ExistsBijection(1..Len(top), kept)
      BY <2>4 DEF ExistsBijection
    <2>6. IsFiniteSet(1..Len(top)) /\ Cardinality(1..Len(top)) = Len(top)
      <3>1. PICK m : m = Len(top)
        OBVIOUS
      <3>2. m \in Nat /\ 1 \in Int /\ m \in Int /\ (IF 1 > m THEN 0 ELSE m - 1 + 1) = m
        BY <1>7, <3>1
      <3>3. IsFiniteSet(1..m) /\ Cardinality(1..m) = IF 1 > m THEN 0 ELSE m - 1 + 1
        BY <3>2, FS_Interval
      <3> QED BY <3>1, <3>2, <3>3
    <2> QED BY <2>5, <2>6, FS_Bijection
  <1> HIDE DEF kept
  <1>11. Len(top) <= Cardinality(ranks)
    BY <1>5, <1>9, <1>10, FS_Subset
  <1>12. Len(top) = IF Cardinality(ranks) < limit THEN Cardinality(ranks) ELSE limit
    <2>1. CASE Len(top) < limit
      <3>1. \A r \in ranks : \E i \in 1..Len(top) : top[i] = r
        BY <1>3, <2>1 DEF KeepsBest
      <3>2. ranks = kept
        BY <1>7, <1>9, <3>1 DEF kept
      <3> QED BY <1>10, <2>1, <3>2
    <2>2. CASE Len(top) = limit
      BY <1>5, <1>11, <2>2
    <2>3. Len(top) < limit \/ Len(top) = limit
      <3>1. Len(top) \in Nat /\ Len(top) <= limit
        BY <1>7
      <3> QED BY ONLY <3>1, limit \in Nat
    <2> QED BY <2>1, <2>2, <2>3
  <1>13. \A r \in ranks \ Range(top), i \in DOMAIN top : Better(top[i], r)
    <2> SUFFICES ASSUME NEW r \in ranks, r \notin kept, NEW i \in 1..Len(top) PROVE Better(top[i], r)
      BY <1>7, <1>9
    <2>1. ~\E j \in 1..Len(top) : top[j] = r
      BY <1>7 DEF kept
    <2> QED BY <1>3, <2>1 DEF KeepsBest
  <1>14. Range(top) \subseteq ranks /\ \A i, j \in DOMAIN top : i < j => Better(top[i], top[j])
    BY <1>7, <1>8, <1>9
  <1> QED BY <1>2, <1>6, <1>12, <1>13, <1>14 DEF SearchFindsBest, top

\* A search finds exactly what contains the query in order, and shows the best of
\* it, best first: each row shown is a match, they are as many as there are or as
\* the limit allows, and none that is not shown ranks above one that is, for any
\* rows in any order (fuzzy.go, FuzzyScore; queries.go, Search and insertTopN).  The
\* paths of a snapshot differ, and Search has a limit of its own where none is given.
THEOREM SearchBest ==
  ASSUME NEW Chars, NEW entries, SearchRows(entries, Chars), NEW query \in Seq(Chars), NEW limit \in Nat, limit > 0
  PROVE  SearchFindsBest(entries, query, limit)
  <1>1. CASE ~Blank(query)
    BY <1>1, BestFound
  <1>2. CASE Blank(query)
    <2> DEFINE matches == {e \in Range(entries) : ~Blank(query) /\ Matches(e.name, query)}
               ranks == {Rank(e, query) : e \in matches}
    <2>1. ranks = {} /\ Cardinality(ranks) = 0
      BY <1>2, FS_EmptySet
    <2>2. TopN(entries, query, limit) = <<>>
      BY <1>2 DEF TopN
    <2>3. query # <<>> => \A e \in Range(entries) : Matches(e.name, query) <=> Like(e.name, query)
      BY PrefilterAdmits
    <2>4. Range(<<>>) = {} /\ DOMAIN <<>> = {} /\ Len(<<>>) = 0
      BY DEF Range
    <2> HIDE DEF ranks
    <2>5. /\ Range(<<>>) \subseteq ranks /\ \A i, j \in DOMAIN <<>> : i < j => Better(<<>>[i], <<>>[j])
          /\ Len(<<>>) = IF Cardinality(ranks) < limit THEN Cardinality(ranks) ELSE limit
          /\ \A r \in ranks \ Range(<<>>), i \in DOMAIN <<>> : Better(<<>>[i], r)
      BY <2>1, <2>4
    <2> QED BY <2>2, <2>3, <2>5 DEF SearchFindsBest, ranks
  <1> QED BY <1>1, <1>2

-----------------------------------------------------------------------------
(* Grouped lists.                                                          *)

\* FlattenSeq puts one section after the other.
LEMMA FlatIterates ==
  ASSUME NEW V, NEW ss \in Seq(Seq(V))
  PROVE  \E f \in [0..Len(ss) -> Seq(V)] :
            f[0] = <<>> /\ (\A i \in 1..Len(ss) : f[i] = f[i - 1] \o ss[i]) /\ FlattenSeq(ss) = f[Len(ss)]
  <1> DEFINE n == Len(ss)
             W == Seq(V)
             IsFlat(f) == f = [i \in 1..n |-> IF i = 1 THEN ss[i] ELSE f[i - 1] \o ss[i]]
             flat == CHOOSE f : IsFlat(f)
             step == [p \in (1..n) \X W |-> p[2] \o ss[p[1]]]
  <1>1. n \in Nat /\ DOMAIN ss = 1..n /\ (\A k \in 1..n : ss[k] \in W) /\ <<>> \in W
    OBVIOUS
  <1>2. \A k \in 1..n, r \in W : r \o ss[k] \in W
    <2>1. \A t, u \in W : t \o u \in W
      OBVIOUS
    <2> HIDE DEF W, n
    <2> QED BY <1>1, <2>1
  <1>0. n # 0 => FlattenSeq(ss) = flat[n]
    BY DEF FlattenSeq
  <1>00. n = 0 => FlattenSeq(ss) = <<>>
    <2> SUFFICES ASSUME n = 0 PROVE FlattenSeq(ss) = <<>>
      OBVIOUS
    <2>1. ss = <<>> /\ FlattenSeq(ss) = ss
      BY DEF FlattenSeq
    <2> QED BY <2>1
  <1> HIDE DEF n, W
  <1>3. IsStep(step, n, W)
    BY <1>2 DEF IsStep
  <1>s. \A k \in 1..n, r \in W : step[<<k, r>>] = r \o ss[k]
    OBVIOUS
  <1> HIDE DEF step
  <1>4. PICK f : Iterates(f, step, <<>>, n, W)
    BY ONLY <1>1, <1>3, Recursion
  <1>5. f \in [0..n -> W] /\ f[0] = <<>> /\ \A i \in 1..n : f[i] = f[i - 1] \o ss[i]
    <2>1. \A i \in 1..n : i - 1 \in 0..n
      BY <1>1
    <2> QED BY <1>4, <1>s, <2>1 DEF Iterates
  <1>6. CASE n = 0
    BY <1>00, <1>5, <1>6 DEF n, W
  <1>7. CASE n # 0
    <2> DEFINE g == [i \in 1..n |-> f[i]]
    <2>1. ASSUME NEW i \in 1..n PROVE g[i] = IF i = 1 THEN ss[i] ELSE g[i - 1] \o ss[i]
      <3>1. CASE i = 1
        <4>1. f[1] = <<>> \o ss[1] /\ ss[1] \in Seq(V)
          <5>1. 1 \in 1..n /\ 1 - 1 = 0
            BY <3>1
          <5>2. f[1] = f[1 - 1] \o ss[1] /\ ss[1] \in W
            BY <1>1, <1>5, <5>1
          <5> QED BY <1>5, <5>1, <5>2 DEF W
        <4>2. f[1] = ss[1]
          BY ONLY <4>1
        <4> QED BY <3>1, <4>2
      <3>2. CASE i # 1
        <4>1. i - 1 \in 1..n
          BY <1>1, <3>2
        <4> QED BY <1>5, <3>2, <4>1
      <3> QED BY <3>1, <3>2
    <2>2. IsFlat(g)
      BY <2>1
    <2>3. IsFlat(flat)
      <3> HIDE DEF IsFlat
      <3> QED BY <2>2
    <2>4. \A i \in 1..n : flat[i] = IF i = 1 THEN ss[i] ELSE flat[i - 1] \o ss[i]
      <3> HIDE DEF flat
      <3> QED BY <2>3
    <2> HIDE DEF flat, IsFlat, g
    <2> DEFINE Q == {m \in 0..n : m > 0 => flat[m] = f[m]}
    <2>5. 0 \in Q
      BY <1>1
    <2>6. ASSUME NEW m \in 0..(n - 1), m \in Q PROVE m + 1 \in Q
      <3>1. PICK k : k = m + 1
        OBVIOUS
      <3>2. k \in 1..n /\ k - 1 = m /\ k \in 0..n
        BY <1>1, <3>1
      <3>3. CASE m = 0
        <4>1. k = 1 /\ flat[1] = ss[1] /\ f[1] = <<>> \o ss[1] /\ ss[1] \in Seq(V)
          <5>1. k = 1 /\ 1 \in 1..n /\ 1 - 1 = 0
            BY <3>1, <3>2, <3>3
          <5>2. f[1] = f[1 - 1] \o ss[1] /\ ss[1] \in W /\ flat[1] = ss[1]
            BY <1>1, <1>5, <2>4, <5>1
          <5> QED BY <1>5, <5>1, <5>2 DEF W
        <4>2. f[1] = ss[1]
          BY ONLY <4>1
        <4> QED BY <3>1, <3>2, <4>1, <4>2
      <3>4. CASE m # 0
        <4>1. flat[k] = flat[m] \o ss[k] /\ f[k] = f[m] \o ss[k] /\ flat[m] = f[m]
          <5>1. k # 1 /\ m > 0
            BY <3>2, <3>4
          <5> QED BY <1>5, <2>4, <2>6, <3>2, <5>1
        <4> QED BY <3>1, <3>2, <4>1
      <3> QED BY <3>3, <3>4
    <2> HIDE DEF Q
    <2>7. \A m \in 0..n : m \in Q
      BY ONLY <1>1, <2>5, <2>6, Induction
    <2>8. flat[n] = f[n]
      BY <1>1, <1>7, <2>7 DEF Q
    <2> QED BY <1>0, <1>5, <1>7, <2>8 DEF n, W
  <1> QED BY <1>6, <1>7

\* The rows of the first sections.
Summed(t) == FoldLeft(LAMBDA sum, n : sum + n, 0, t)
IsSumFold(g, t) == g = [s \in SUBSET (DOMAIN t) |-> IF s = {} THEN 0 ELSE g[s \ {Max(s)}] + t[Max(s)]]

LEMMA SumChosen == \A t : Summed(t) = (CHOOSE g : IsSumFold(g, t))[DOMAIN t]
  BY DEF Summed, FoldLeft, MapThenFoldSet, IsSumFold

\* The sum of a sequence, as a loop over it.
LEMMA SumIterates ==
  ASSUME NEW t \in Seq(Nat)
  PROVE  \E h \in [0..Len(t) -> Nat] : h[0] = 0 /\ (\A i \in 1..Len(t) : h[i] = h[i - 1] + t[i]) /\ Summed(t) = h[Len(t)]
  <1> DEFINE n == Len(t)
             c == CHOOSE g : IsSumFold(g, t)
             step == [x \in (1..n) \X Nat |-> x[2] + t[x[1]]]
  <1>1. n \in Nat /\ DOMAIN t = 1..n /\ 0 \in Nat /\ \A k \in 1..n : t[k] \in Nat
    OBVIOUS
  <1>2. \A k \in 1..n, r \in Nat : r + t[k] \in Nat
    BY <1>1
  <1> HIDE DEF n
  <1>3. IsStep(step, n, Nat)
    BY <1>2 DEF IsStep
  <1>s. \A k \in 1..n, r \in Nat : step[<<k, r>>] = r + t[k]
    OBVIOUS
  <1> HIDE DEF step
  <1>4. PICK g : IsPlaceFold(g, step, 0, n, Nat)
    BY <1>1, <1>3, PlaceFold
  <1>5. IsSumFold(g, t)
    <2>1. ASSUME NEW s \in SUBSET (1..n), s # {}
          PROVE  g[s] = g[s \ {Max(s)}] + t[Max(s)]
      <3>1. Max(s) \in 1..n
        BY <1>1, <2>1, Last1
      <3>2. g[s \ {Max(s)}] \in Nat
        BY <1>4 DEF IsPlaceFold
      <3>3. g[s] = step[<<Max(s), g[s \ {Max(s)}]>>]
        BY <1>4, <2>1 DEF IsPlaceFold
      <3> QED BY <1>s, <3>1, <3>2, <3>3
    <2>2. g[{}] = 0 /\ g = [s \in SUBSET (1..n) |-> g[s]]
      BY <1>4 DEF IsPlaceFold
    <2> QED BY <1>1, <2>1, <2>2 DEF IsSumFold
  <1>6. IsSumFold(c, t)
    BY <1>5
  <1>7. Summed(t) = c[1..n]
    BY <1>1, SumChosen
  <1> HIDE DEF c
  <1>8. c[{}] = 0
    BY <1>6 DEF IsSumFold
  <1>9. ASSUME NEW k \in 1..n PROVE c[1..k] = c[1..(k - 1)] + t[k]
    <2>1. n \in Nat
      BY <1>1
    <2>2. Max(1..k) = k /\ (1..k) \ {k} = 1..(k - 1) /\ (1..k) \in SUBSET (1..n) /\ 1..k # {}
      BY ONLY <2>1, k \in 1..n, LastOfAll
    <2> QED BY <1>1, <1>6, <2>2 DEF IsSumFold
  <1> DEFINE f == [k \in 0..n |-> c[1..k]]
  <1>10. Iterates(f, step, 0, n, Nat)
    <2>1. \A k \in 1..n : c[1..(k - 1)] \in Nat => c[1..k] = step[<<k, c[1..(k - 1)]>>]
      BY <1>s, <1>9
    <2>2. PICK h : h = f
      OBVIOUS
    <2> QED BY ONLY <1>1, <1>3, <1>8, <2>1, <2>2, FoldPrefix
  <1>11. f[n] = c[1..n]
    BY <1>1
  <1> HIDE DEF f
  <1>12. f \in [0..n -> Nat] /\ f[0] = 0 /\ \A i \in 1..n : f[i] = f[i - 1] + t[i]
    <2>1. \A i \in 1..n : i - 1 \in 0..n
      BY <1>1
    <2> QED BY <1>10, <1>s, <2>1 DEF Iterates
  <1> QED BY <1>7, <1>11, <1>12 DEF n

\* Each section adds its own rows.
LEMMA RowsUpTo ==
  ASSUME NEW lens \in Seq(Nat)
  PROVE  /\ RowsBefore(lens, 1) = 0
         /\ \A k \in 1..Len(lens) : RowsBefore(lens, k) \in Nat /\ RowsBefore(lens, k + 1) = RowsBefore(lens, k) + lens[k]
  <1> DEFINE n == Len(lens)
  <1>1. PICK h \in [0..n -> Nat] : h[0] = 0 /\ \A i \in 1..n : h[i] = h[i - 1] + lens[i]
    BY SumIterates
  <1>2. n \in Nat
    OBVIOUS
  <1>3. ASSUME NEW m \in 0..n PROVE RowsBefore(lens, m + 1) = h[m]
    <2>1. PICK t : t = SubSeq(lens, 1, m)
      OBVIOUS
    <2>2. t \in Seq(Nat) /\ Len(t) = m /\ \A i \in 1..m : t[i] = lens[i]
      BY <2>1
    <2>3. PICK u \in [0..m -> Nat] : u[0] = 0 /\ (\A i \in 1..m : u[i] = u[i - 1] + t[i]) /\ Summed(t) = u[m]
      BY <2>2, SumIterates
    <2> DEFINE Q == {i \in 0..m : u[i] = h[i]}
    <2>4. 0 \in Q
      BY <1>1, <2>3
    <2>5. ASSUME NEW i \in 0..(m - 1), i \in Q PROVE i + 1 \in Q
      <3>1. PICK k : k = i + 1
        OBVIOUS
      <3>2. k \in 1..m /\ k \in 1..n /\ k - 1 = i /\ k \in 0..m
        BY <1>2, <3>1
      <3>3. u[k] = u[i] + t[k] /\ h[k] = h[i] + lens[k] /\ u[i] = h[i] /\ t[k] = lens[k]
        <4>1. u[k] = u[k - 1] + t[k] /\ h[k] = h[k - 1] + lens[k]
          BY <1>1, <2>3, <3>2
        <4> QED BY <2>2, <2>5, <3>2, <4>1
      <3> QED BY <3>1, <3>2, <3>3
    <2>6. m \in Nat
      BY <1>2
    <2> HIDE DEF Q
    <2>7. \A i \in 0..m : i \in Q
      BY ONLY <2>4, <2>5, <2>6, Induction
    <2>8. u[m] = h[m]
      BY <2>6, <2>7 DEF Q
    <2>9. RowsBefore(lens, m + 1) = Summed(t)
      <3>1. (m + 1) - 1 = m
        BY <2>6
      <3> QED BY <2>1, <3>1 DEF RowsBefore, Summed
    <2> QED BY <2>3, <2>8, <2>9
  <1>4. RowsBefore(lens, 1) = 0
    <2>1. 0 \in 0..n /\ 0 + 1 = 1
      BY <1>2
    <2> QED BY <1>1, <1>3, <2>1
  <1>5. ASSUME NEW k \in 1..n PROVE RowsBefore(lens, k) \in Nat /\ RowsBefore(lens, k + 1) = RowsBefore(lens, k) + lens[k]
    <2>1. k - 1 \in 0..n /\ (k - 1) + 1 = k /\ k \in 0..n
      BY <1>2
    <2>2. RowsBefore(lens, k) = h[k - 1] /\ RowsBefore(lens, k + 1) = h[k]
      BY <1>3, <2>1
    <2> QED BY <1>1, <2>1, <2>2
  <1> QED BY <1>4, <1>5

\* The lines of section k, whose rows come after before others: a heading, with b
\* blank lines above it, and the rows.
LineRecords == [kind : {"blank", "heading", "row"}, section : Nat, data : Int]
IsSection(sec, b, k, before, len) ==
    /\ sec \in Seq(LineRecords) /\ b \in {0, 1} /\ Len(sec) = b + 1 + len
    /\ \A i \in 1..b : sec[i] = Token("blank", k, -1)
    /\ sec[b + 1] = Token("heading", k, -1)
    /\ \A r \in 1..len : sec[b + 1 + r] = Token("row", k, before + r - 1)

LEMMA Concat ==
  ASSUME NEW T, NEW t \in Seq(T), NEW u \in Seq(T)
  PROVE  /\ t \o u \in Seq(T) /\ Len(t \o u) = Len(t) + Len(u)
         /\ \A i \in 1..Len(t) : (t \o u)[i] = t[i]
         /\ \A i \in 1..Len(u) : (t \o u)[Len(t) + i] = u[i]
  OBVIOUS

\* A section of the list has the lines of a section.
LEMMA SectionIs ==
  ASSUME NEW lens \in Seq(Nat), NEW k \in 1..Len(lens)
  PROVE  SectionTokens(lens, k) \in Seq(LineRecords) /\ \E b \in {0, 1} : IsSection(SectionTokens(lens, k), b, k, RowsBefore(lens, k), lens[k])
  <1>1. PICK len \in Nat : len = lens[k]
    OBVIOUS
  <1>2. PICK before \in Nat : before = RowsBefore(lens, k)
    BY RowsUpTo
  <1>3. PICK rows : rows = [r \in 1..len |-> Token("row", k, before + r - 1)]
    OBVIOUS
  <1>4. PICK heading, blank : heading = Token("heading", k, -1) /\ blank = Token("blank", k, -1)
    OBVIOUS
  <1>5. heading \in LineRecords /\ blank \in LineRecords
    BY <1>4 DEF Token, LineRecords
  <1>6. \A r \in 1..len : Token("row", k, before + r - 1) \in LineRecords
    BY DEF Token, LineRecords
  <1>7. rows \in Seq(LineRecords) /\ Len(rows) = len /\ \A r \in 1..len : rows[r] = Token("row", k, before + r - 1)
    <2>1. rows \in [1..len -> LineRecords]
      BY <1>3, <1>6
    <2>2. \A T : \A f \in [1..len -> T] : f \in Seq(T) /\ Len(f) = len
      OBVIOUS
    <2>3. rows \in Seq(LineRecords) /\ Len(rows) = len
      BY ONLY <2>1, <2>2
    <2>4. \A r \in 1..len : rows[r] = Token("row", k, before + r - 1)
      BY <1>3
    <2> QED BY <2>3, <2>4
  <1>8. SectionTokens(lens, k) = (IF k > 1 THEN <<blank>> ELSE <<>>) \o <<heading>> \o rows
    BY <1>1, <1>2, <1>3, <1>4 DEF SectionTokens
  <1>9. CASE k > 1
    <2>1. PICK top : top = <<blank>> \o <<heading>>
      OBVIOUS
    <2>2. top \in Seq(LineRecords) /\ Len(top) = 2 /\ top[1] = blank /\ top[2] = heading
      <3>1. PICK t, u : t = <<blank>> /\ u = <<heading>>
        OBVIOUS
      <3>2. t \in Seq(LineRecords) /\ u \in Seq(LineRecords) /\ Len(t) = 1 /\ Len(u) = 1 /\ t[1] = blank /\ u[1] = heading
        BY ONLY <1>5, <3>1
      <3>3. /\ top \in Seq(LineRecords) /\ Len(top) = Len(t) + Len(u)
            /\ \A i \in 1..Len(t) : top[i] = t[i]
            /\ \A i \in 1..Len(u) : top[Len(t) + i] = u[i]
        BY ONLY <2>1, <3>1, <3>2, Concat
      <3> QED BY ONLY <3>2, <3>3
    <2>3. PICK sec : sec = top \o rows
      OBVIOUS
    <2>4. /\ sec \in Seq(LineRecords) /\ Len(sec) = 2 + len
          /\ sec[1] = blank /\ sec[2] = heading /\ \A r \in 1..len : sec[2 + r] = rows[r]
      <3>1. /\ sec \in Seq(LineRecords) /\ Len(sec) = Len(top) + Len(rows)
            /\ \A i \in 1..Len(top) : sec[i] = top[i]
            /\ \A i \in 1..Len(rows) : sec[Len(top) + i] = rows[i]
        <4>1. rows \in Seq(LineRecords) /\ top \in Seq(LineRecords)
          BY <1>7, <2>2
        <4> QED BY ONLY <2>3, <4>1, Concat
      <3> QED BY <1>7, <2>2, <3>1
    <2>5. IsSection(sec, 1, k, before, len)
      <3>1. \A i \in 1..1 : i = 1
        OBVIOUS
      <3>2. 1 + 1 = 2 /\ \A r \in 1..len : 1 + 1 + r = 2 + r
        OBVIOUS
      <3>3. \A i \in 1..1 : sec[i] = Token("blank", k, -1)
        BY <1>4, <2>4, <3>1
      <3>4. sec[1 + 1] = Token("heading", k, -1) /\ \A r \in 1..len : sec[1 + 1 + r] = Token("row", k, before + r - 1)
        BY <1>4, <1>7, <2>4, <3>2
      <3> QED BY <2>4, <3>2, <3>3, <3>4 DEF IsSection
    <2>6. SectionTokens(lens, k) = sec
      BY <1>8, <1>9, <2>1, <2>3
    <2> QED BY <1>1, <1>2, <2>4, <2>5, <2>6
  <1>10. CASE ~(k > 1)
    <2>1. PICK top : top = <<>> \o <<heading>>
      OBVIOUS
    <2>2. top \in Seq(LineRecords) /\ Len(top) = 1 /\ top[1] = heading
      BY <1>5, <2>1
    <2>3. PICK sec : sec = top \o rows
      OBVIOUS
    <2>4. sec \in Seq(LineRecords) /\ Len(sec) = 1 + len /\ sec[1] = heading /\ \A r \in 1..len : sec[1 + r] = rows[r]
      <3>1. /\ sec \in Seq(LineRecords) /\ Len(sec) = Len(top) + Len(rows)
            /\ \A i \in 1..Len(top) : sec[i] = top[i]
            /\ \A i \in 1..Len(rows) : sec[Len(top) + i] = rows[i]
        <4>1. rows \in Seq(LineRecords) /\ top \in Seq(LineRecords)
          BY <1>7, <2>2
        <4> QED BY ONLY <2>3, <4>1, Concat
      <3> QED BY <1>7, <2>2, <3>1
    <2>5. IsSection(sec, 0, k, before, len)
      <3>1. \A i \in 1..0 : FALSE
        OBVIOUS
      <3>2. 0 + 1 = 1 /\ \A r \in 1..len : 0 + 1 + r = 1 + r
        OBVIOUS
      <3>3. \A i \in 1..0 : sec[i] = Token("blank", k, -1)
        BY <3>1
      <3>4. sec[0 + 1] = Token("heading", k, -1) /\ \A r \in 1..len : sec[0 + 1 + r] = Token("row", k, before + r - 1)
        BY <1>4, <1>7, <2>4, <3>2
      <3> QED BY <2>4, <3>2, <3>3, <3>4 DEF IsSection
    <2>6. SectionTokens(lens, k) = sec
      BY <1>8, <1>10, <2>1, <2>3
    <2> QED BY <1>1, <1>2, <2>4, <2>5, <2>6
  <1> QED BY <1>9, <1>10

\* The lines of k sections with total rows: sections one after the other, each with
\* one heading, which is above its rows, and the rows in order.
\* What a list of grouped lines is: sections, each under its heading.
IsHeadingLine(o, i) == o[i].kind = "heading"
IsRowLine(o, i) == o[i].kind = "row"
IsGrouped(o, k, total) ==
    /\ o \in Seq(LineRecords)
    /\ \A i \in 1..Len(o) : o[i].section \in 1..k
    /\ \A i, j \in 1..Len(o) : i < j => o[i].section <= o[j].section
    /\ \A i, j \in 1..Len(o) : IsHeadingLine(o, i) /\ IsHeadingLine(o, j) /\ o[i].section = o[j].section => i = j
    /\ \A i \in 1..Len(o) : IsRowLine(o, i) =>
          o[i].data \in 0..(total - 1) /\ \E j \in 1..Len(o) : j < i /\ IsHeadingLine(o, j) /\ o[j].section = o[i].section
    /\ \A i, j \in 1..Len(o) : i < j /\ IsRowLine(o, i) /\ IsRowLine(o, j) => o[i].data < o[j].data
    /\ \A d \in 0..(total - 1) : \E i \in 1..Len(o) : IsRowLine(o, i) /\ o[i].data = d

\* What a section is, line by line.
\* The same of one section, for all of its lines.
HasLines(sec, b, k, before, len) ==
    /\ b \in {0, 1} /\ Len(sec) = b + 1 + len /\ sec \in Seq(LineRecords) /\ IsHeadingLine(sec, b + 1)
    /\ \A i \in 1..Len(sec) :
         /\ sec[i].section = k /\ (IsHeadingLine(sec, i) => i = b + 1)
         /\ IsRowLine(sec, i) => i > b + 1 /\ sec[i].data = before + (i - b - 1) - 1
    /\ \A r \in 1..len : IsRowLine(sec, b + 1 + r)

LEMMA SectionLines ==
  ASSUME NEW sec, NEW b, NEW k \in Nat, NEW before \in Nat, NEW len \in Nat, IsSection(sec, b, k, before, len)
  PROVE  HasLines(sec, b, k, before, len)
  <1>1. b \in {0, 1} /\ Len(sec) = b + 1 + len /\ sec \in Seq(LineRecords)
    BY DEF IsSection
  <1>2. IsHeadingLine(sec, b + 1) /\ ~IsRowLine(sec, b + 1) /\ sec[b + 1].section = k
    BY DEF IsSection, Token, IsHeadingLine, IsRowLine
  <1>3. \A i \in 1..b : ~IsHeadingLine(sec, i) /\ ~IsRowLine(sec, i) /\ sec[i].section = k
    BY DEF IsSection, Token, IsHeadingLine, IsRowLine
  <1>4. ASSUME NEW r \in 1..len
        PROVE  IsRowLine(sec, b + 1 + r) /\ ~IsHeadingLine(sec, b + 1 + r) /\ sec[b + 1 + r].section = k /\ sec[b + 1 + r].data = before + r - 1
    <2>1. sec[b + 1 + r] = Token("row", k, before + r - 1)
      BY DEF IsSection
    <2>2. PICK x : x = sec[b + 1 + r]
      OBVIOUS
    <2>3. x.kind = "row" /\ x.section = k /\ x.data = before + r - 1
      BY <2>1, <2>2 DEF Token
    <2> QED BY <2>2, <2>3 DEF IsHeadingLine, IsRowLine
  <1>5. ASSUME NEW i \in 1..Len(sec)
        PROVE  /\ sec[i].section = k /\ (IsHeadingLine(sec, i) => i = b + 1)
               /\ IsRowLine(sec, i) => i > b + 1 /\ sec[i].data = before + (i - b - 1) - 1
    <2>1. CASE i <= b
      <3>1. i \in 1..b
        BY <1>1, <2>1
      <3> QED BY <1>3, <3>1
    <2>2. CASE i = b + 1
      BY <1>2, <2>2
    <2>3. CASE i > b + 1
      <3>1. PICK r \in 1..len : r = i - b - 1 /\ b + 1 + r = i
        BY <1>1, <2>3
      <3>2. IsRowLine(sec, i) /\ ~IsHeadingLine(sec, i) /\ sec[i].section = k /\ sec[i].data = before + r - 1
        BY <1>4, <3>1
      <3> QED BY <2>3, <3>1, <3>2
    <2> QED BY <1>1, <2>1, <2>2, <2>3
  <1> QED BY <1>1, <1>2, <1>4, <1>5 DEF HasLines

\* A grouped list with one more section below it is a grouped list.
LEMMA OneMoreSection ==
  ASSUME NEW o, NEW k \in Nat, k > 0, NEW before \in Nat, NEW len \in Nat, IsGrouped(o, k - 1, before),
         NEW sec, NEW b, IsSection(sec, b, k, before, len)
  PROVE  IsGrouped(o \o sec, k, before + len)
  <1>1. /\ b \in {0, 1} /\ Len(sec) = b + 1 + len /\ sec \in Seq(LineRecords) /\ IsHeadingLine(sec, b + 1)
        /\ \A i \in 1..Len(sec) :
              /\ sec[i].section = k /\ (IsHeadingLine(sec, i) => i = b + 1)
              /\ IsRowLine(sec, i) => i > b + 1 /\ sec[i].data = before + (i - b - 1) - 1
        /\ \A r \in 1..len : IsRowLine(sec, b + 1 + r)
    BY SectionLines DEF HasLines
  <1>2. o \in Seq(LineRecords)
    BY DEF IsGrouped
  <1>3. PICK p : p = o \o sec
    OBVIOUS
  <1>4. PICK n \in Nat : n = Len(o)
    BY <1>2
  <1>5. PICK m \in Nat : m = Len(sec)
    BY <1>1
  <1>6. p \in Seq(LineRecords) /\ Len(p) = n + m /\ \A i \in 1..(n + m) : p[i] = IF i <= n THEN o[i] ELSE sec[i - n]
    <2>1. /\ p \in Seq(LineRecords) /\ Len(p) = Len(o) + Len(sec)
          /\ \A i \in 1..Len(o) : p[i] = o[i]
          /\ \A i \in 1..Len(sec) : p[Len(o) + i] = sec[i]
      <3>1. sec \in Seq(LineRecords)
        BY <1>1
      <3> QED BY ONLY <1>2, <1>3, <3>1, Concat
    <2>2. \A i \in 1..(n + m) : (i <= n => i \in 1..n) /\ (~(i <= n) => i - n \in 1..m /\ n + (i - n) = i)
      OBVIOUS
    <2> QED BY ONLY <1>4, <1>5, <2>1, <2>2
  \* A line is an old one or one of the section.
  <1>7. ASSUME NEW i \in 1..(n + m)
        PROVE  \/ i \in 1..n /\ p[i] = o[i] /\ (IsHeadingLine(p, i) <=> IsHeadingLine(o, i)) /\ (IsRowLine(p, i) <=> IsRowLine(o, i))
               \/ /\ i > n /\ i - n \in 1..m /\ p[i] = sec[i - n] /\ p[i].section = k
                  /\ IsHeadingLine(p, i) <=> IsHeadingLine(sec, i - n)
                  /\ IsRowLine(p, i) <=> IsRowLine(sec, i - n)
    <2>1. CASE i <= n
      <3>1. i \in 1..n /\ p[i] = o[i]
        BY <1>6, <2>1
      <3> QED BY <3>1 DEF IsHeadingLine, IsRowLine
    <2>2. CASE ~(i <= n)
      <3>1. i > n /\ i - n \in 1..m /\ p[i] = sec[i - n]
        BY <1>6, <2>2
      <3> QED BY <1>1, <1>5, <3>1 DEF IsHeadingLine, IsRowLine
    <2> QED BY <2>1, <2>2
  <1>8. \A i \in 1..n : i \in 1..(n + m) /\ i <= n /\ p[i] = o[i] /\ o[i].section \in 1..(k - 1) /\ o[i].section \in 1..k
    BY <1>4, <1>6 DEF IsGrouped
  <1>9. \A i \in 1..m : n + i \in 1..(n + m) /\ n + i > n /\ (n + i) - n = i
    OBVIOUS
  <1>10. \A i \in 1..(n + m) : p[i].section \in 1..k
    BY <1>7, <1>8
  <1>11. ASSUME NEW i \in 1..(n + m), NEW j \in 1..(n + m), i < j PROVE p[i].section <= p[j].section
    <2>1. CASE j \in 1..n
      <3>1. i \in 1..n
        BY <1>11, <2>1
      <3> QED BY <1>4, <1>8, <1>11, <2>1, <3>1 DEF IsGrouped
    <2>2. CASE j \notin 1..n
      <3>1. p[j].section = k /\ p[i].section \in 1..k
        BY <1>7, <1>10, <2>2
      <3> QED BY <3>1
    <2> QED BY <2>1, <2>2
  <1>12. ASSUME NEW i \in 1..(n + m), NEW j \in 1..(n + m), IsHeadingLine(p, i), IsHeadingLine(p, j), p[i].section = p[j].section
         PROVE  i = j
    <2>1. CASE i \in 1..n
      <3>1. j \in 1..n
        <4>1. p[j].section # k
          BY <1>8, <1>12, <2>1
        <4> QED BY <1>7, <4>1
      <3>2. IsHeadingLine(o, i) /\ IsHeadingLine(o, j) /\ o[i].section = o[j].section
        BY <1>8, <1>12, <2>1, <3>1 DEF IsHeadingLine
      <3> QED BY <1>4, <2>1, <3>1, <3>2 DEF IsGrouped
    <2>2. CASE i \notin 1..n
      <3>1. p[i].section = k
        BY <1>7, <2>2
      <3>2. j \notin 1..n
        <4>1. ASSUME j \in 1..n PROVE FALSE
          <5>1. p[j].section \in 1..(k - 1)
            BY <1>8, <4>1
          <5> QED BY <1>12, <3>1, <5>1
        <4> QED BY <4>1
      <3>3. IsHeadingLine(sec, i - n) /\ IsHeadingLine(sec, j - n) /\ i - n \in 1..m /\ j - n \in 1..m
        BY <1>7, <1>12, <2>2, <3>2
      <3>4. i - n = b + 1 /\ j - n = b + 1
        BY <1>1, <1>5, <3>3
      <3> QED BY <3>4
    <2> QED BY <2>1, <2>2
  <1>13. ASSUME NEW i \in 1..(n + m), IsRowLine(p, i)
         PROVE  /\ p[i].data \in 0..(before + len - 1) /\ (i \in 1..n => p[i].data < before) /\ (i \notin 1..n => p[i].data >= before)
                /\ \E j \in 1..(n + m) : j < i /\ IsHeadingLine(p, j) /\ p[j].section = p[i].section
    <2>1. CASE i \in 1..n
      <3>1. IsRowLine(o, i) /\ p[i] = o[i]
        BY <1>8, <1>13, <2>1 DEF IsRowLine
      <3>2. o[i].data \in 0..(before - 1)
        BY <1>4, <2>1, <3>1 DEF IsGrouped
      <3>3. PICK j \in 1..n : j < i /\ IsHeadingLine(o, j) /\ o[j].section = o[i].section
        BY <1>4, <2>1, <3>1 DEF IsGrouped
      <3>4. j \in 1..(n + m) /\ IsHeadingLine(p, j) /\ p[j].section = p[i].section
        BY <1>8, <3>1, <3>3 DEF IsHeadingLine
      <3> QED BY <2>1, <3>1, <3>2, <3>3, <3>4
    <2>2. CASE i \notin 1..n
      <3>1. PICK r \in 1..m : r = i - n /\ i = n + r /\ IsRowLine(sec, r) /\ p[i] = sec[r] /\ p[i].section = k
        BY <1>7, <1>13, <2>2
      <3>2. r > b + 1 /\ sec[r].data = before + (r - b - 1) - 1
        BY <1>1, <1>5, <3>1
      <3>3. r - b - 1 >= 1 /\ r - b - 1 <= len
        <4>1. r \in Nat /\ b \in Nat /\ len \in Nat /\ r <= b + 1 + len
          BY <1>1, <1>5
        <4> QED BY ONLY <3>2, <4>1
      <3>4. sec[r].data \in 0..(before + len - 1) /\ sec[r].data >= before
        BY <1>1, <3>2, <3>3
      <3>5. b + 1 \in 1..m
        BY <1>1, <1>5
      <3>6. PICK j : j = n + (b + 1)
        OBVIOUS
      <3>7. j \in 1..(n + m) /\ j < i /\ j - n = b + 1 /\ j \notin 1..n
        BY <1>1, <3>1, <3>2, <3>5, <3>6
      <3>8. IsHeadingLine(p, j) /\ p[j].section = k
        BY <1>1, <1>7, <3>7
      <3> QED BY <2>2, <3>1, <3>4, <3>7, <3>8
    <2> QED BY <2>1, <2>2
  <1>14. ASSUME NEW i \in 1..(n + m), NEW j \in 1..(n + m), i < j, IsRowLine(p, i), IsRowLine(p, j) PROVE p[i].data < p[j].data
    <2>1. CASE j \in 1..n
      <3>1. i \in 1..n
        BY <1>14, <2>1
      <3>2. IsRowLine(o, i) /\ IsRowLine(o, j) /\ p[i] = o[i] /\ p[j] = o[j]
        BY <1>8, <1>14, <2>1, <3>1 DEF IsRowLine
      <3> QED BY <1>4, <1>14, <2>1, <3>1, <3>2 DEF IsGrouped
    <2>2. CASE j \notin 1..n /\ i \in 1..n
      <3>1. p[i].data \in Int /\ p[j].data \in Int /\ p[i].data < before /\ p[j].data >= before
        BY <1>13, <1>14, <2>2
      <3> QED BY <3>1
    <2>3. CASE j \notin 1..n /\ i \notin 1..n
      <3>1. PICK r \in 1..m : r = i - n /\ IsRowLine(sec, r) /\ p[i] = sec[r]
        BY <1>7, <1>14, <2>3
      <3>2. PICK q \in 1..m : q = j - n /\ IsRowLine(sec, q) /\ p[j] = sec[q]
        BY <1>7, <1>14, <2>3
      <3>3. r < q /\ p[i].data = before + (r - b - 1) - 1 /\ p[j].data = before + (q - b - 1) - 1
        BY <1>1, <1>5, <1>14, <3>1, <3>2
      <3> QED BY <1>1, <3>3
    <2> QED BY <2>1, <2>2, <2>3
  <1>15. ASSUME NEW d \in 0..(before + len - 1) PROVE \E i \in 1..(n + m) : IsRowLine(p, i) /\ p[i].data = d
    <2>1. CASE d < before
      <3>1. d \in 0..(before - 1)
        BY <2>1
      <3>2. PICK i \in 1..n : IsRowLine(o, i) /\ o[i].data = d
        BY <1>4, <3>1 DEF IsGrouped
      <3> QED BY <1>8, <3>2 DEF IsRowLine
    <2>2. CASE d >= before
      <3>1. PICK r \in 1..len : r = d - before + 1
        BY <2>2
      <3>2. PICK q : q = b + 1 + r
        OBVIOUS
      <3>3. q \in 1..m /\ IsRowLine(sec, q) /\ q - b - 1 = r
        <4>1. q \in 1..m /\ q - b - 1 = r
          BY <1>1, <1>5, <3>2
        <4>2. IsRowLine(sec, q)
          BY <1>1, <3>2
        <4> QED BY <4>1, <4>2
      <3>4. sec[q].data = d
        <4>1. sec[q].data = before + r - 1
          <5>1. sec[q].data = before + (q - b - 1) - 1
            BY <1>1, <1>5, <3>3
          <5> QED BY <3>3, <5>1
        <4> QED BY <3>1, <4>1
      <3>5. PICK i : i = n + q
        OBVIOUS
      <3>6. i \in 1..(n + m) /\ i \notin 1..n /\ i - n = q
        BY <1>9, <3>3, <3>5
      <3>7. IsRowLine(p, i) /\ p[i] = sec[q]
        BY <1>7, <3>3, <3>6
      <3> QED BY <3>4, <3>6, <3>7
    <2> QED BY <2>1, <2>2
  <1>16. PICK total : total = before + len
    OBVIOUS
  <1>17. /\ \A i \in 1..(n + m) : IsRowLine(p, i) =>
              p[i].data \in 0..(total - 1) /\ \E j \in 1..(n + m) : j < i /\ IsHeadingLine(p, j) /\ p[j].section = p[i].section
         /\ \A d \in 0..(total - 1) : \E i \in 1..(n + m) : IsRowLine(p, i) /\ p[i].data = d
    BY <1>13, <1>15, <1>16
  <1>18. PICK l : l = n + m
    OBVIOUS
  <1>19. IsGrouped(p, k, total)
    BY ONLY <1>6, <1>10, <1>11, <1>12, <1>14, <1>17, <1>18 DEF IsGrouped
  <1> QED BY <1>3, <1>16, <1>19

\* The lines of a grouped list are that of all its sections.
LEMMA TokensGrouped ==
  ASSUME NEW lens \in Seq(Nat)
  PROVE  IsGrouped(GroupTokens(lens), Len(lens), RowsBefore(lens, Len(lens) + 1))
  <1> DEFINE n == Len(lens)
             W == Seq(LineRecords)
             ss == [k \in DOMAIN lens |-> SectionTokens(lens, k)]
  <1>1. n \in Nat /\ DOMAIN lens = 1..n
    OBVIOUS
  <1>2. \A k \in 1..n : SectionTokens(lens, k) \in W
    BY SectionIs
  <1> HIDE DEF n, W
  <1>3. ss \in [1..n -> W] /\ \A k \in 1..n : ss[k] = SectionTokens(lens, k)
    BY <1>1, <1>2
  <1>4. GroupTokens(lens) = FlattenSeq(ss)
    BY DEF GroupTokens
  <1> HIDE DEF ss
  <1>5. ss \in Seq(W) /\ Len(ss) = n
    BY <1>1, <1>3
  <1>6. PICK f \in [0..n -> W] : f[0] = <<>> /\ (\A i \in 1..n : f[i] = f[i - 1] \o ss[i]) /\ FlattenSeq(ss) = f[n]
    BY <1>5, FlatIterates DEF W
  <1>7. /\ RowsBefore(lens, 1) = 0
        /\ \A k \in 1..n : RowsBefore(lens, k) \in Nat /\ RowsBefore(lens, k + 1) = RowsBefore(lens, k) + lens[k]
    BY RowsUpTo DEF n
  <1> DEFINE Q == {k \in 0..n : IsGrouped(f[k], k, RowsBefore(lens, k + 1))}
  <1>8. 0 \in Q
    <2>1. IsGrouped(<<>>, 0, 0)
      BY DEF IsGrouped
    <2>2. 0 \in 0..n /\ 0 + 1 = 1
      BY <1>1
    <2> QED BY <1>6, <1>7, <2>1, <2>2
  <1>9. ASSUME NEW j \in 0..(n - 1), j \in Q PROVE j + 1 \in Q
    <2>1. PICK k : k = j + 1
      OBVIOUS
    <2>2. k \in 1..n /\ k \in Nat /\ k > 0 /\ k - 1 = j /\ k \in 0..n /\ lens[k] \in Nat
      BY <1>1, <2>1
    <2>3. IsGrouped(f[j], k - 1, RowsBefore(lens, k)) /\ RowsBefore(lens, k) \in Nat
      BY <1>7, <1>9, <2>1, <2>2
    <2>4. PICK b : IsSection(ss[k], b, k, RowsBefore(lens, k), lens[k])
      <3>1. \E b \in {0, 1} : IsSection(SectionTokens(lens, k), b, k, RowsBefore(lens, k), lens[k])
        BY <2>2, SectionIs DEF n
      <3> QED BY <1>3, <2>2, <3>1
    <2>5. IsGrouped(f[j] \o ss[k], k, RowsBefore(lens, k) + lens[k])
      BY ONLY <2>2, <2>3, <2>4, OneMoreSection
    <2>6. f[k] = f[j] \o ss[k] /\ RowsBefore(lens, k + 1) = RowsBefore(lens, k) + lens[k]
      BY <1>6, <1>7, <2>2
    <2> QED BY <2>1, <2>2, <2>5, <2>6
  <1> HIDE DEF Q
  <1>10. \A k \in 0..n : k \in Q
    BY ONLY <1>1, <1>8, <1>9, Induction
  <1>11. n \in Q
    BY <1>1, <1>10
  <1> QED BY <1>4, <1>6, <1>11 DEF Q, n

\* Above a row no heading is nearer than its own.
LEMMA OwnHeading ==
  ASSUME NEW o, NEW k, NEW total, IsGrouped(o, k, total), NEW i \in 1..Len(o), NEW h \in 1..Len(o),
         IsHeadingLine(o, h), o[h].section = o[i].section, NEW q \in 1..Len(o), IsHeadingLine(o, q), q <= i
  PROVE  q <= h
  <1>1. SUFFICES ASSUME ~(q <= h) PROVE FALSE
    OBVIOUS
  <1>2. Len(o) \in Nat /\ h < q
    BY <1>1 DEF IsGrouped
  <1>3. o[h].section \in 1..k /\ o[q].section \in 1..k /\ o[i].section \in 1..k
    BY DEF IsGrouped
  <1>4. o[h].section <= o[q].section /\ (q = i \/ o[q].section <= o[i].section)
    BY <1>2 DEF IsGrouped
  <1>5. o[h].section = o[q].section
    BY <1>3, <1>4
  <1> QED BY <1>2, <1>5 DEF IsGrouped

\* Some of the lines, in order: m says which.
IsView(shown, o, m, l) ==
    /\ shown \in Seq(LineRecords) /\ Len(shown) = l /\ m \in [1..l -> 1..Len(o)]
    /\ \A i, j \in 1..l : i < j => m[i] < m[j]
    /\ \A i \in 1..l : shown[i] = o[m[i]]
AreShown(shown, cursor, rows) ==
    LET above(i) == {j \in 1..i : shown[j].kind = "heading"}
    IN  /\ Len(shown) <= rows
        /\ \E i \in DOMAIN shown : shown[i].kind = "row" /\ shown[i].data = cursor
        /\ \A i, j \in DOMAIN shown : i < j /\ {shown[i].kind, shown[j].kind} = {"row"} => shown[i].data < shown[j].data
        /\ rows > 1 => \A i \in DOMAIN shown : shown[i].kind = "row" =>
               \E j \in above(i) : shown[j].section = shown[i].section /\ \A k \in above(i) : k <= j

\* What such a choice of lines shows, if the cursor and the headings are chosen.
LEMMA ViewShown ==
  ASSUME NEW o, NEW k, NEW total, IsGrouped(o, k, total), NEW shown, NEW m, NEW l \in Nat, IsView(shown, o, m, l),
         NEW cursor, NEW rows \in Nat, l <= rows, \E i \in 1..l : IsRowLine(o, m[i]) /\ o[m[i]].data = cursor,
         rows > 1 => \A i \in 1..l : IsRowLine(o, m[i]) =>
                        \E j \in 1..l : j < i /\ IsHeadingLine(o, m[j]) /\ o[m[j]].section = o[m[i]].section
  PROVE  AreShown(shown, cursor, rows)
  <1>1. DOMAIN shown = 1..l /\ Len(shown) = l /\ Len(o) \in Nat
    BY DEF IsView, IsGrouped
  <1>2. \A i \in 1..l : m[i] \in 1..Len(o) /\ shown[i] = o[m[i]]
    BY DEF IsView
  <1>3. \A i \in 1..l : (IsRowLine(o, m[i]) <=> shown[i].kind = "row") /\ (IsHeadingLine(o, m[i]) <=> shown[i].kind = "heading")
    BY <1>2 DEF IsRowLine, IsHeadingLine
  <1>4. \A i, j \in 1..l : i < j => m[i] < m[j]
    BY DEF IsView
  <1>5. \E i \in DOMAIN shown : shown[i].kind = "row" /\ shown[i].data = cursor
    BY <1>1, <1>2, <1>3
  <1>6. ASSUME NEW i \in DOMAIN shown, NEW j \in DOMAIN shown, i < j, {shown[i].kind, shown[j].kind} = {"row"}
        PROVE  shown[i].data < shown[j].data
    <2>1. shown[i].kind = "row" /\ shown[j].kind = "row"
      BY <1>6
    <2>2. m[i] \in 1..Len(o) /\ m[j] \in 1..Len(o) /\ m[i] < m[j] /\ IsRowLine(o, m[i]) /\ IsRowLine(o, m[j])
      BY <1>1, <1>2, <1>3, <1>4, <1>6, <2>1
    <2>3. o[m[i]].data < o[m[j]].data
      BY <2>2 DEF IsGrouped
    <2> QED BY <1>1, <1>2, <2>3
  <1>7. ASSUME rows > 1, NEW i \in DOMAIN shown, shown[i].kind = "row"
        PROVE  \E j \in {q \in 1..i : shown[q].kind = "heading"} :
                  shown[j].section = shown[i].section /\ \A q \in {p \in 1..i : shown[p].kind = "heading"} : q <= j
    <2>1. PICK j \in 1..l : j < i /\ IsHeadingLine(o, m[j]) /\ o[m[j]].section = o[m[i]].section
      BY <1>1, <1>3, <1>7
    <2>2. j \in 1..i /\ shown[j].kind = "heading" /\ shown[j].section = shown[i].section
      BY <1>1, <1>2, <1>3, <2>1
    <2>3. ASSUME NEW q \in 1..i, shown[q].kind = "heading", j < q PROVE FALSE
      <3>1. q \in 1..l /\ i \in 1..l
        BY <1>1
      <3>2. IsHeadingLine(o, m[q]) /\ m[q] \in 1..Len(o) /\ m[j] \in 1..Len(o) /\ m[i] \in 1..Len(o) /\ m[j] < m[q]
        BY <1>2, <1>3, <1>4, <2>1, <2>3, <3>1
      <3>3. m[q] <= m[i]
        <4>1. q = i \/ q < i
          BY <3>1
        <4> QED BY <1>1, <1>4, <3>1, <3>2, <4>1
      <3>4. m[q] <= m[j]
        BY <2>1, <3>2, <3>3, OwnHeading
      <3> QED BY <1>1, <3>2, <3>4
    <2>4. \A q \in 1..i : shown[q].kind = "heading" => q <= j
      BY <1>1, <2>1, <2>3
    <2> QED BY <2>2, <2>4
  <1> QED BY <1>1, <1>5, <1>6, <1>7 DEF AreShown

\* A part of a sequence.
LEMMA Slice ==
  ASSUME NEW T, NEW t \in Seq(T), NEW a \in Nat, NEW b \in Nat, 1 <= a, b <= Len(t), a <= b + 1
  PROVE  /\ SubSeq(t, a, b) \in Seq(T) /\ Len(SubSeq(t, a, b)) = b - a + 1
         /\ \A i \in 1..(b - a + 1) : SubSeq(t, a, b)[i] = t[a + i - 1]
  OBVIOUS

\* The lines that are shown where the selected row is line c of o, its heading line h.
ShownLines(o, c, h, rows) ==
    LET w == GroupedWindow(c - 1, h - 1, rows, Len(o))
    IN  IF rows >= Len(o) THEN o
        ELSE IF rows = 1 THEN <<o[c]>>
        ELSE (IF w.prependHeading THEN <<o[h]>> ELSE <<>>) \o SubSeq(o, w.start + 1, w.end)
StandsUnder(o, c, h) == c \in 1..Len(o) /\ IsRowLine(o, c) /\ h \in 1..Len(o) /\ IsHeadingLine(o, h) /\ o[h].section = o[c].section /\ h < c

IsPlaced(lens, cursor, rows, c, h) ==
    /\ StandsUnder(GroupTokens(lens), c, h) /\ GroupTokens(lens)[c].data = cursor
    /\ GroupedLines(lens, cursor, rows) = ShownLines(GroupTokens(lens), c, h, rows)

\* The code finds the lines of the selected row and of its heading.
LEMMA GroupPlaces ==
  ASSUME NEW lens, NEW k, NEW total, IsGrouped(GroupTokens(lens), k, total), NEW cursor \in 0..(total - 1), NEW rows
  PROVE  \E c, h : IsPlaced(lens, cursor, rows, c, h)
  <1>0. PICK o : o = GroupTokens(lens) /\ IsGrouped(o, k, total)
    OBVIOUS
  <1> DEFINE C == {i \in 1..Len(o) : o[i].kind = "row" /\ o[i].data = cursor}
             c == SelectInSeq(o, LAMBDA t : t.kind = "row" /\ t.data = cursor)
             H == {i \in 1..Len(o) : o[i].kind = "heading" /\ o[i].section = o[c - 1 + 1].section}
             h == SelectInSeq(o, LAMBDA t : t.kind = "heading" /\ t.section = o[c - 1 + 1].section)
             shown == GroupedLines(lens, cursor, rows)
             w == GroupedWindow(c - 1, h - 1, rows, Len(o))
  <1>1. PICK n \in Nat : n = Len(o)
    BY <1>0 DEF IsGrouped
  <1>2. shown = IF rows >= Len(o) THEN o
                ELSE IF rows = 1 THEN <<o[c - 1 + 1]>>
                ELSE (IF w.prependHeading THEN <<o[h - 1 + 1]>> ELSE <<>>) \o SubSeq(o, w.start + 1, w.end)
    BY <1>0 DEF GroupedLines
  <1>3. c = IF C # {} THEN Min(C) ELSE 0
    BY DEF SelectInSeq
  <1>4. h = IF H # {} THEN Min(H) ELSE 0
    BY DEF SelectInSeq
  <1> HIDE DEF c, h, shown
  <1>5. c \in 1..n /\ IsRowLine(o, c) /\ o[c].data = cursor
    <2>1. C # {}
      BY <1>0 DEF IsGrouped, IsRowLine
    <2>2. C \in SUBSET Nat
      OBVIOUS
    <2>3. Min(C) \in C
      <3> HIDE DEF C
      <3> QED BY <2>1, <2>2, FirstOf
    <2> QED BY <1>1, <1>3, <2>1, <2>3 DEF IsRowLine
  <1>6. c - 1 + 1 = c
    BY <1>5
  <1>7. h \in 1..n /\ IsHeadingLine(o, h) /\ o[h].section = o[c].section /\ h < c
    <2>1. PICK q \in 1..Len(o) : q < c /\ IsHeadingLine(o, q) /\ o[q].section = o[c].section
      BY <1>0, <1>1, <1>5 DEF IsGrouped
    <2>2. q \in H
      BY <1>6, <2>1 DEF IsHeadingLine
    <2>3. H \in SUBSET Nat
      OBVIOUS
    <2>4. h \in H
      <3> HIDE DEF H
      <3> QED BY <1>4, <2>2, <2>3, FirstOf
    <2>5. h \in 1..Len(o) /\ IsHeadingLine(o, h) /\ o[h].section = o[c].section
      BY <1>6, <2>4 DEF IsHeadingLine
    <2>6. h = q
      BY <1>0, <2>1, <2>5 DEF IsGrouped
    <2> QED BY <1>1, <2>1, <2>5, <2>6
  <1>8. h - 1 + 1 = h
    BY <1>7
  <1>9. StandsUnder(o, c, h)
    BY <1>1, <1>5, <1>7 DEF StandsUnder
  <1>10. shown = ShownLines(o, c, h, rows)
    <2>1. PICK x, y : x = c - 1 + 1 /\ y = h - 1 + 1
      OBVIOUS
    <2>2. x = c /\ y = h
      BY <1>6, <1>8, <2>1
    <2>3. shown = IF rows >= Len(o) THEN o
                  ELSE IF rows = 1 THEN <<o[x]>>
                  ELSE (IF w.prependHeading THEN <<o[y]>> ELSE <<>>) \o SubSeq(o, w.start + 1, w.end)
      BY ONLY <1>2, <2>1
    <2> HIDE DEF w
    <2>4. shown = IF rows >= Len(o) THEN o
                  ELSE IF rows = 1 THEN <<o[c]>>
                  ELSE (IF w.prependHeading THEN <<o[h]>> ELSE <<>>) \o SubSeq(o, w.start + 1, w.end)
      BY ONLY <2>2, <2>3
    <2> QED BY ONLY <2>4, Zenon DEF ShownLines, w
  <1>11. PICK x, y : x = c /\ y = h
    OBVIOUS
  <1>12. IsPlaced(lens, cursor, rows, x, y)
    BY ONLY <1>0, <1>5, <1>9, <1>10, <1>11 DEF IsPlaced, shown
  <1> QED BY ONLY <1>12

\* A grouped list fits into the lines it has, shows the selected row, and once it has
\* two lines every row stands under the heading of its own section, for any number
\* of sections of any lengths, any cursor and any height (group.go, groupedWindow
\* and renderGroupedList; detail.go, snapshotTableGrouped).
THEOREM GroupIsShown ==
  ASSUME NEW lens \in Seq(Nat), NEW cursor \in 0..(RowsBefore(lens, Len(lens) + 1) - 1), NEW rows \in Nat, rows > 0
  PROVE  GroupsShown(lens, cursor, rows)
  <1>1. PICK o : o = GroupTokens(lens)
    OBVIOUS
  <1>2. PICK k, total : k = Len(lens) /\ total = RowsBefore(lens, k + 1) /\ IsGrouped(o, k, total)
    BY <1>1, TokensGrouped
  <1>3. PICK n \in Nat : n = Len(o)
    BY <1>2 DEF IsGrouped
  <1>4. o \in Seq(LineRecords) /\ DOMAIN o = 1..n
    BY <1>2, <1>3 DEF IsGrouped
  <1>7. PICK c, h : StandsUnder(o, c, h) /\ o[c].data = cursor /\ GroupedLines(lens, cursor, rows) = ShownLines(o, c, h, rows)
    <2>1. cursor \in 0..(total - 1) /\ IsGrouped(GroupTokens(lens), k, total)
      BY <1>1, <1>2
    <2>2. PICK c, h : IsPlaced(lens, cursor, rows, c, h)
      BY ONLY <2>1, GroupPlaces
    <2> QED BY ONLY <1>1, <2>2 DEF IsPlaced
  <1> DEFINE shown == GroupedLines(lens, cursor, rows)
             w == GroupedWindow(c - 1, h - 1, rows, Len(o))
  <1>5. shown = IF rows >= Len(o) THEN o
                ELSE IF rows = 1 THEN <<o[c]>>
                ELSE (IF w.prependHeading THEN <<o[h]>> ELSE <<>>) \o SubSeq(o, w.start + 1, w.end)
    BY <1>7 DEF ShownLines
  <1>6. GroupsShown(lens, cursor, rows) <=> AreShown(shown, cursor, rows)
    BY DEF GroupsShown, AreShown
  <1> HIDE DEF shown, w
  <1>9. c \in 1..n /\ IsRowLine(o, c) /\ o[c].data = cursor
    BY <1>3, <1>7 DEF StandsUnder
  <1>11. h \in 1..n /\ IsHeadingLine(o, h) /\ o[h].section = o[c].section /\ h < c
    BY <1>3, <1>7 DEF StandsUnder
  <1>12. h - 1 + 1 = h
    BY <1>11
  \* The heading of a row below a heading of the selected section is not above that.
  <1>13. ASSUME NEW i \in 1..n, IsRowLine(o, i), h <= i
         PROVE  \E q \in h..(i - 1) : IsHeadingLine(o, q) /\ o[q].section = o[i].section /\ (i <= c => q = h) /\ (q # h => q > c)
    <2>1. PICK q \in 1..n : q < i /\ IsHeadingLine(o, q) /\ o[q].section = o[i].section
      BY <1>2, <1>3, <1>13 DEF IsGrouped
    <2>2. h <= q
      BY <1>2, <1>3, <1>11, <1>13, <2>1, OwnHeading
    <2>3. q <= c => q <= h
      BY <1>2, <1>3, <1>9, <1>11, <2>1, OwnHeading
    <2>4. q \in h..(i - 1)
      BY <1>11, <2>1, <2>2
    <2>5. (i <= c => q = h) /\ (q # h => q > c)
      <3>1. q \in Nat /\ h \in Nat /\ c \in Nat /\ i \in Nat /\ q < i /\ h <= q
        BY <1>9, <1>11, <2>1, <2>2
      <3> QED BY ONLY <2>3, <3>1
    <2> QED BY <2>1, <2>4, <2>5
  <1>14. CASE rows >= n
    <2> DEFINE m == [i \in 1..n |-> i]
    <2>1. shown = o
      BY <1>3, <1>5, <1>14
    <2>2. IsView(o, o, m, n)
      BY <1>3, <1>4 DEF IsView
    <2>3. \E i \in 1..n : IsRowLine(o, m[i]) /\ o[m[i]].data = cursor
      BY <1>9
    <2>4. \A i \in 1..n : IsRowLine(o, m[i]) => \E j \in 1..n : j < i /\ IsHeadingLine(o, m[j]) /\ o[m[j]].section = o[m[i]].section
      <3> SUFFICES ASSUME NEW i \in 1..n, IsRowLine(o, i)
                   PROVE  \E j \in 1..n : j < i /\ IsHeadingLine(o, j) /\ o[j].section = o[i].section
        OBVIOUS
      <3> QED BY <1>2, <1>3 DEF IsGrouped
    <2> HIDE DEF m
    <2>5. AreShown(o, cursor, rows)
      <3>1. n \in Nat /\ n <= rows
        BY <1>14
      <3> QED BY ONLY <1>2, <3>1, rows \in Nat, <2>2, <2>3, <2>4, ViewShown
    <2> QED BY <1>6, <2>1, <2>5
  <1>15. CASE ~(rows >= n) /\ rows = 1
    <2> DEFINE m == [i \in 1..1 |-> c]
    <2>1. shown = <<o[c]>>
      BY <1>3, <1>5, <1>15
    <2>2. IsView(<<o[c]>>, o, m, 1)
      <3>1. o[c] \in LineRecords
        BY <1>4, <1>9
      <3>2. PICK x : x = o[c]
        OBVIOUS
      <3>3. <<x>> \in Seq(LineRecords) /\ Len(<<x>>) = 1 /\ <<x>>[1] = x
        BY <3>1, <3>2
      <3>4. m \in [1..1 -> 1..n] /\ m[1] = c /\ \A i \in 1..1 : i = 1
        BY <1>9
      <3> HIDE DEF m
      <3> QED BY <1>3, <3>2, <3>3, <3>4 DEF IsView
    <2>3. \E i \in 1..1 : IsRowLine(o, m[i]) /\ o[m[i]].data = cursor
      <3>1. 1 \in 1..1 /\ m[1] = c
        OBVIOUS
      <3> HIDE DEF m
      <3> QED BY <1>9, <3>1
    <2>4. ~(rows > 1) /\ 1 <= rows /\ 1 \in Nat
      BY <1>15
    <2> HIDE DEF m
    <2>5. AreShown(<<o[c]>>, cursor, rows)
      BY ONLY <1>2, rows \in Nat, <2>2, <2>3, <2>4, ViewShown
    <2> QED BY <1>6, <2>1, <2>5
  <1>16. CASE ~(rows >= n) /\ rows # 1 /\ c - 1 < h - 1 + rows
    <2>1. PICK e \in Nat : e = AtMost(h - 1 + rows, n)
      BY <1>11 DEF AtMost
    <2>2. h <= e /\ e <= n /\ c <= e /\ e - h + 1 <= rows
      BY <1>9, <1>11, <1>16, <2>1 DEF AtMost
    <2>3. ~w.prependHeading /\ w.start = h - 1 /\ w.end = e
      BY <1>3, <1>16, <2>1 DEF w, GroupedWindow
    <2>4. PICK l \in Nat : l = e - h + 1
      BY <1>11, <2>2
    <2>5. PICK s : s = SubSeq(o, h, e)
      OBVIOUS
    <2>6. s \in Seq(LineRecords) /\ Len(s) = l /\ \A i \in 1..l : s[i] = o[h + i - 1]
      BY <1>3, <1>4, <1>11, <2>2, <2>4, <2>5, Slice
    <2>7. shown = s
      <3>1. shown = <<>> \o SubSeq(o, h, e)
        BY <1>3, <1>5, <1>12, <1>16, <2>3
      <3> QED BY <2>5, <2>6, <3>1
    <2> DEFINE m == [i \in 1..l |-> h + i - 1]
    <2>8. IsView(s, o, m, l)
      <3>1. \A i \in 1..l : h + i - 1 \in 1..n
        BY <1>11, <2>2, <2>4
      <3>2. m \in [1..l -> 1..n] /\ \A i \in 1..l : m[i] = h + i - 1
        BY <3>1
      <3>3. \A i, j \in 1..l : i < j => h + i - 1 < h + j - 1
        BY <1>11
      <3> HIDE DEF m
      <3> QED BY <1>3, <2>6, <3>2, <3>3 DEF IsView
    <2>9. \A i \in h..e : i - h + 1 \in 1..l /\ m[i - h + 1] = i
      BY <1>11, <2>2, <2>4
    <2>10. \A i \in 1..l : m[i] \in h..e /\ i = m[i] - h + 1
      BY <1>11, <2>2, <2>4
    <2> HIDE DEF m
    <2>11. \E i \in 1..l : IsRowLine(o, m[i]) /\ o[m[i]].data = cursor
      <3>1. c \in h..e
        BY <1>9, <1>11, <2>2
      <3> QED BY <1>9, <2>9, <3>1
    <2>12. ASSUME NEW i \in 1..l, IsRowLine(o, m[i])
           PROVE  \E j \in 1..l : j < i /\ IsHeadingLine(o, m[j]) /\ o[m[j]].section = o[m[i]].section
      <3>1. m[i] \in 1..n /\ h <= m[i] /\ m[i] \in h..e
        BY <1>11, <2>2, <2>10
      <3>2. PICK q \in h..(m[i] - 1) : IsHeadingLine(o, q) /\ o[q].section = o[m[i]].section
        BY <1>13, <2>12, <3>1
      <3>3. PICK j : j = q - h + 1
        OBVIOUS
      <3>4. q \in h..e /\ j < i
        BY <1>11, <2>2, <2>10, <3>1, <3>3
      <3>5. j \in 1..l /\ m[j] = q
        BY <2>9, <3>3, <3>4
      <3> QED BY <3>2, <3>4, <3>5
    <2>13. l <= rows
      BY <2>2, <2>4
    <2>14. AreShown(s, cursor, rows)
      BY ONLY <1>2, rows \in Nat, l \in Nat, <2>8, <2>11, <2>12, <2>13, ViewShown
    <2> QED BY <1>6, <2>7, <2>14
  <1>17. CASE ~(rows >= n) /\ rows # 1 /\ ~(c - 1 < h - 1 + rows)
    <2>1. PICK half \in Nat : half = (rows - 1) \div 2 /\ half < rows - 1
      <3>1. PICK r \in Nat : r = rows - 1 /\ r > 0
        BY <1>17
      <3>2. r \div 2 \in Nat /\ 2 * (r \div 2) <= r
        BY <3>1, Halves
      <3>3. r \div 2 < r
        BY <3>1, <3>2
      <3> QED BY <3>1, <3>2, <3>3
    <2>2. PICK tail \in Nat : tail = AtLeast(c - 1 - half, h - 1 + 1)
      <3>1. PICK a \in Int, b \in Nat : a = c - 1 - half /\ b = h - 1 + 1
        BY <1>9, <1>11, <1>12
      <3>2. AtLeast(a, b) \in Nat
        BY DEF AtLeast
      <3> QED BY <3>1, <3>2
    <2>3. h <= tail /\ tail < c /\ c <= tail + rows - 1
      BY <1>9, <1>11, <1>17, <2>1, <2>2 DEF AtLeast
    <2>4. PICK e \in Nat : e = AtMost(tail + rows - 1, n)
      BY <1>17 DEF AtMost
    <2>5. c <= e /\ e <= n /\ e - tail + 1 <= rows
      BY <1>9, <2>3, <2>4 DEF AtMost
    <2>6. w.prependHeading /\ w.start = tail /\ w.end = e
      BY <1>3, <1>17, <2>1, <2>2, <2>4 DEF w, GroupedWindow
    <2>7. PICK l \in Nat : l = e - tail
      <3>1. c \in Nat /\ tail < c /\ c <= e
        BY <1>9, <2>3, <2>5
      <3>2. e - tail \in Nat
        BY ONLY <3>1, e \in Nat, tail \in Nat
      <3> QED BY <3>2
    <2>8. PICK s : s = SubSeq(o, tail + 1, e)
      OBVIOUS
    <2>9. s \in Seq(LineRecords) /\ Len(s) = l /\ \A i \in 1..l : s[i] = o[tail + i]
      <3>1. PICK a \in Nat : a = tail + 1
        OBVIOUS
      <3>2. 1 <= a /\ e <= Len(o) /\ a <= e + 1 /\ e - a + 1 = l
        BY <1>3, <2>3, <2>5, <2>7, <3>1
      <3>3. SubSeq(o, a, e) \in Seq(LineRecords) /\ Len(SubSeq(o, a, e)) = e - a + 1 /\ \A i \in 1..(e - a + 1) : SubSeq(o, a, e)[i] = o[a + i - 1]
        BY <1>4, <3>2, Slice
      <3>4. \A i \in 1..l : a + i - 1 = tail + i
        BY <3>1
      <3> QED BY <2>8, <3>1, <3>2, <3>3, <3>4
    <2>10. PICK t : t = <<o[h]>>
      OBVIOUS
    <2>11. t \in Seq(LineRecords) /\ Len(t) = 1 /\ t[1] = o[h]
      <3>1. PICK x : x = o[h]
        OBVIOUS
      <3>2. x \in LineRecords
        BY <1>4, <1>11, <3>1
      <3>3. t = <<x>>
        BY <2>10, <3>1
      <3> QED BY ONLY <3>1, <3>2, <3>3
    <2>12. PICK p : p = t \o s
      OBVIOUS
    <2>13. p \in Seq(LineRecords) /\ Len(p) = 1 + l /\ p[1] = o[h] /\ \A i \in 1..l : p[1 + i] = o[tail + i]
      <3>1. /\ p \in Seq(LineRecords) /\ Len(p) = Len(t) + Len(s)
            /\ \A i \in 1..Len(t) : p[i] = t[i]
            /\ \A i \in 1..Len(s) : p[Len(t) + i] = s[i]
        <4>1. t \in Seq(LineRecords) /\ s \in Seq(LineRecords)
          BY <2>9, <2>11
        <4> QED BY ONLY <2>12, <4>1, Concat
      <3>2. Len(t) = 1 /\ t[1] = o[h] /\ Len(s) = l /\ 1 \in 1..1 /\ \A i \in 1..l : s[i] = o[tail + i]
        BY <2>9, <2>11
      <3> QED BY ONLY <3>1, <3>2
    <2>14. shown = p
      BY <1>3, <1>5, <1>12, <1>17, <2>6, <2>8, <2>10, <2>12
    <2> DEFINE m == [i \in 1..(1 + l) |-> IF i = 1 THEN h ELSE tail + i - 1]
    <2>15. IsView(p, o, m, 1 + l)
      <3>1. \A i \in 1..(1 + l) : (IF i = 1 THEN h ELSE tail + i - 1) \in 1..n
        BY <1>11, <2>3, <2>5, <2>7
      <3>2. m \in [1..(1 + l) -> 1..n] /\ \A i \in 1..(1 + l) : m[i] = IF i = 1 THEN h ELSE tail + i - 1
        BY <3>1
      <3>3. \A i, j \in 1..(1 + l) : i < j => (IF i = 1 THEN h ELSE tail + i - 1) < (IF j = 1 THEN h ELSE tail + j - 1)
        BY <1>11, <2>3
      <3>4. \A i \in 1..(1 + l) : i = 1 \/ (i - 1 \in 1..l /\ 1 + (i - 1) = i /\ tail + (i - 1) = tail + i - 1)
        OBVIOUS
      <3>5. \A i \in 1..(1 + l) : p[i] = o[IF i = 1 THEN h ELSE tail + i - 1]
        BY <2>13, <3>4
      <3> HIDE DEF m
      <3>6. \A i, j \in 1..(1 + l) : i < j => m[i] < m[j]
        BY <3>2, <3>3
      <3> QED BY <1>3, <2>13, <3>2, <3>5, <3>6 DEF IsView
    <2>16. \A i \in (tail + 1)..e : i - tail + 1 \in 1..(1 + l) /\ m[i - tail + 1] = i
      BY <2>3, <2>5, <2>7
    <2>17. 1 \in 1..(1 + l) /\ m[1] = h
      OBVIOUS
    <2>18. \A i \in 1..(1 + l) : i = 1 \/ (i > 1 /\ m[i] \in (tail + 1)..e /\ i = m[i] - tail + 1)
      BY <2>3, <2>5, <2>7
    <2> HIDE DEF m
    <2>19. \E i \in 1..(1 + l) : IsRowLine(o, m[i]) /\ o[m[i]].data = cursor
      <3>1. c \in (tail + 1)..e
        BY <1>9, <2>3, <2>5
      <3> QED BY <1>9, <2>16, <3>1
    <2>20. ASSUME NEW i \in 1..(1 + l), IsRowLine(o, m[i])
           PROVE  \E j \in 1..(1 + l) : j < i /\ IsHeadingLine(o, m[j]) /\ o[m[j]].section = o[m[i]].section
      <3>1. i # 1
        BY <1>11, <2>17, <2>20 DEF IsRowLine, IsHeadingLine
      <3>2. i > 1 /\ m[i] \in (tail + 1)..e /\ i = m[i] - tail + 1
        BY <2>18, <3>1
      <3>3. m[i] \in 1..n /\ h <= m[i]
        BY <1>11, <2>3, <2>5, <3>2
      <3>4. PICK q \in h..(m[i] - 1) : IsHeadingLine(o, q) /\ o[q].section = o[m[i]].section /\ (q # h => q > c)
        BY <1>13, <2>20, <3>3
      <3>5. CASE q = h
        BY <2>17, <3>2, <3>4, <3>5
      <3>6. CASE q # h
        <4>1. PICK j : j = q - tail + 1
          OBVIOUS
        <4>2. q \in (tail + 1)..e /\ j < i
          BY <1>9, <1>11, <2>3, <2>5, <3>2, <3>4, <3>6, <4>1
        <4>3. j \in 1..(1 + l) /\ m[j] = q
          BY <2>16, <4>1, <4>2
        <4> QED BY <3>4, <4>2, <4>3
      <3> QED BY <3>5, <3>6
    <2>21. 1 + l <= rows /\ 1 + l \in Nat
      BY <2>5, <2>7
    <2>22. AreShown(p, cursor, rows)
      <3>1. PICK z : z = 1 + l
        OBVIOUS
      <3> QED BY ONLY <1>2, rows \in Nat, <2>15, <2>19, <2>20, <2>21, <3>1, ViewShown
    <2> QED BY <1>6, <2>14, <2>22
  <1> QED BY <1>14, <1>15, <1>16, <1>17

-----------------------------------------------------------------------------
(* Whole screens.  A part of a screen has n lines, the rows of R, and of   *)
(* the notes those of N: the one there is, or none.                        *)
ScreenKinds == {"title", "blank", "help", "prompt", "note", "header", "meta", "heading", "row", "panel", "empty"}
ScreenLines == [kind : ScreenKinds, section : Nat, data : Int]
RowsSeen(b) == {l.data : l \in {k \in Range(b) : k.kind = "row"}}
NotesSeen(b) == Range(b) \cap {Line("note")}
IsPart(b, n, R, N) == b \in Seq(ScreenLines) /\ Len(b) = n /\ RowsSeen(b) = R /\ NotesSeen(b) = N
Note == {Line("note")}

\* What a sequence has is at one of its places.
LEMMA Ranged ==
  ASSUME NEW T, NEW b \in Seq(T)
  PROVE  Range(b) = {b[i] : i \in 1..Len(b)}
  BY DEF Range

\* Two parts, one below the other.
LEMMA PartBelow ==
  ASSUME NEW a, NEW n, NEW R, NEW N, IsPart(a, n, R, N), NEW b, NEW m, NEW S, NEW M, IsPart(b, m, S, M)
  PROVE  IsPart(a \o b, n + m, R \cup S, N \cup M)
  <1>1. a \in Seq(ScreenLines) /\ b \in Seq(ScreenLines) /\ Len(a) = n /\ Len(b) = m /\ n \in Nat /\ m \in Nat
    BY DEF IsPart
  <1>2. PICK c : c = a \o b
    OBVIOUS
  <1>3. /\ c \in Seq(ScreenLines) /\ Len(c) = n + m
        /\ \A i \in 1..n : c[i] = a[i]
        /\ \A i \in 1..m : c[n + i] = b[i]
    <2>1. a \in Seq(ScreenLines) /\ b \in Seq(ScreenLines)
      BY <1>1
    <2>2. /\ c \in Seq(ScreenLines) /\ Len(c) = Len(a) + Len(b)
          /\ \A i \in 1..Len(a) : c[i] = a[i]
          /\ \A i \in 1..Len(b) : c[Len(a) + i] = b[i]
      BY ONLY <1>2, <2>1, Concat
    <2> QED BY <1>1, <2>2
  <1>4. \A i \in 1..(n + m) : i \in 1..n \/ (i - n \in 1..m /\ i = n + (i - n))
    BY <1>1
  <1>5. \A i \in 1..m : n + i \in 1..(n + m)
    BY <1>1
  <1>6. \A i \in 1..n : i \in 1..(n + m)
    BY <1>1
  <1>7. Range(a) = {a[i] : i \in 1..n} /\ Range(b) = {b[i] : i \in 1..m} /\ Range(c) = {c[i] : i \in 1..(n + m)}
    <2>1. Range(a) = {a[i] : i \in 1..Len(a)} /\ Range(b) = {b[i] : i \in 1..Len(b)} /\ Range(c) = {c[i] : i \in 1..Len(c)}
      <3>1. a \in Seq(ScreenLines) /\ b \in Seq(ScreenLines) /\ c \in Seq(ScreenLines)
        BY <1>1, <1>3
      <3> QED BY ONLY <3>1, Ranged
    <2> QED BY <1>1, <1>3, <2>1
  <1>8. Range(c) = Range(a) \cup Range(b)
    <2>1. ASSUME NEW i \in 1..(n + m) PROVE c[i] \in Range(a) \cup Range(b)
      BY <1>3, <1>4, <1>7
    <2>2. ASSUME NEW i \in 1..n PROVE a[i] \in Range(c)
      BY <1>3, <1>6, <1>7
    <2>3. ASSUME NEW i \in 1..m PROVE b[i] \in Range(c)
      BY <1>3, <1>5, <1>7
    <2> QED BY <1>7, <2>1, <2>2, <2>3
  <1>9. RowsSeen(c) = RowsSeen(a) \cup RowsSeen(b) /\ NotesSeen(c) = NotesSeen(a) \cup NotesSeen(b)
    BY <1>8 DEF RowsSeen, NotesSeen
  <1> QED BY <1>2, <1>3, <1>9 DEF IsPart

\* One line and another are two lines.
LEMMA TwoLines == \A x, y : <<x>> \o <<y>> = <<x, y>>
  <1> SUFFICES ASSUME NEW x, NEW y PROVE <<x>> \o <<y>> = <<x, y>>
    OBVIOUS
  <1>1. PICK T : T = {x, y}
    OBVIOUS
  <1>2. PICK a, b, u : a = <<x>> /\ b = <<y>> /\ u = a \o b
    OBVIOUS
  <1>3. a \in Seq(T) /\ b \in Seq(T) /\ Len(a) = 1 /\ Len(b) = 1 /\ a[1] = x /\ b[1] = y
    BY <1>1, <1>2
  <1>4. u \in Seq(T) /\ Len(u) = 2 /\ u[1] = x /\ u[2] = y
    <2>1. /\ u \in Seq(T) /\ Len(u) = Len(a) + Len(b)
          /\ \A i \in 1..Len(a) : u[i] = a[i]
          /\ \A i \in 1..Len(b) : u[Len(a) + i] = b[i]
      BY ONLY <1>2, <1>3, Concat
    <2>2. 1 \in 1..1 /\ 1 + 1 = 2
      OBVIOUS
    <2> QED BY <1>3, <2>1, <2>2
  <1>5. \A v \in Seq(T) : Len(v) = 2 => v = <<v[1], v[2]>>
    OBVIOUS
  <1> QED BY ONLY <1>2, <1>4, <1>5

\* Lines of one kind.
LEMMA Filled ==
  ASSUME NEW kind \in ScreenKinds \ {"row", "note"}, NEW k \in Nat
  PROVE  IsPart(Fill(kind, k), k, {}, {})
  <1>1. PICK x : x = Line(kind)
    OBVIOUS
  <1>2. x \in ScreenLines /\ x.kind = kind /\ kind # "row" /\ kind # "note"
    BY <1>1 DEF Line, Token, ScreenLines
  <1>3. PICK b : b = [i \in 1..k |-> x]
    OBVIOUS
  <1>4. b \in Seq(ScreenLines) /\ Len(b) = k /\ \A i \in 1..k : b[i] = x
    BY <1>2, <1>3
  <1>5. \A l \in Range(b) : l = x
    BY <1>4, Ranged
  <1>6. Line("note").kind = "note"
    BY DEF Line, Token
  <1>7. RowsSeen(b) = {} /\ NotesSeen(b) = {}
    BY <1>2, <1>5, <1>6 DEF RowsSeen, NotesSeen
  <1> QED BY <1>1, <1>3, <1>4, <1>7 DEF IsPart, Fill

\* A line alone, a note alone, and nothing.
LEMMA OneLine ==
  /\ \A kind \in ScreenKinds \ {"row", "note"} : IsPart(<<Line(kind)>>, 1, {}, {})
  /\ IsPart(<<Line("note")>>, 1, {}, Note) /\ IsPart(<<>>, 0, {}, {})
  <1>1. ASSUME NEW kind \in ScreenKinds, kind # "row"
        PROVE  IsPart(<<Line(kind)>>, 1, {}, IF kind = "note" THEN Note ELSE {})
    <2>1. PICK x : x = Line(kind)
      OBVIOUS
    <2>2. x \in ScreenLines /\ x.kind = kind
      BY <2>1 DEF Line, Token, ScreenLines
    <2>3. PICK b : b = <<x>>
      OBVIOUS
    <2>4. b \in Seq(ScreenLines) /\ Len(b) = 1 /\ b[1] = x
      BY <2>2, <2>3
    <2>5. Range(b) = {x}
      <3>1. Range(b) = {b[i] : i \in 1..1}
        BY <2>4, Ranged
      <3> QED BY <2>4, <3>1
    <2>6. RowsSeen(b) = {}
      BY <1>1, <2>2, <2>5 DEF RowsSeen
    <2>7. Line("note").kind = "note"
      BY DEF Line, Token
    <2>8. NotesSeen(b) = IF kind = "note" THEN Note ELSE {}
      <3>1. CASE kind = "note"
        BY <2>1, <2>5, <3>1 DEF NotesSeen, Note
      <3>2. CASE kind # "note"
        BY <2>2, <2>5, <2>7, <3>2 DEF NotesSeen, Note
      <3> QED BY <3>1, <3>2
    <2> QED BY <2>1, <2>3, <2>4, <2>6, <2>8 DEF IsPart
  <1>2. "note" \in ScreenKinds
    BY DEF ScreenKinds
  <1>3. IsPart(<<>>, 0, {}, {})
    <2>1. <<>> \in Seq(ScreenLines) /\ Len(<<>>) = 0
      OBVIOUS
    <2>2. Range(<<>>) = {}
      BY DEF Range
    <2> QED BY <2>1, <2>2 DEF IsPart, RowsSeen, NotesSeen
  <1> QED BY <1>1, <1>2, <1>3

\* Rows from start on.
LEMMA RowsListed ==
  ASSUME NEW start \in Nat, NEW k \in Nat
  PROVE  IsPart([i \in 1..k |-> RowLine(start + i - 1)], k, start..(start + k - 1), {})
  <1>1. \A d \in Int : RowLine(d) \in ScreenLines /\ RowLine(d).kind = "row" /\ RowLine(d).data = d
    BY DEF RowLine, Token, ScreenLines, ScreenKinds
  <1>2. PICK b : b = [i \in 1..k |-> RowLine(start + i - 1)]
    OBVIOUS
  <1>3. b \in Seq(ScreenLines) /\ Len(b) = k /\ \A i \in 1..k : b[i] = RowLine(start + i - 1)
    <2>1. \A i \in 1..k : RowLine(start + i - 1) \in ScreenLines
      BY <1>1
    <2>2. b \in [1..k -> ScreenLines]
      BY <1>2, <2>1
    <2>3. \A T : \A f \in [1..k -> T] : f \in Seq(T) /\ Len(f) = k
      OBVIOUS
    <2> QED BY <1>2, <2>2, <2>3
  <1>4. Range(b) = {b[i] : i \in 1..k}
    BY <1>3, Ranged
  <1>5. \A i \in 1..k : b[i].kind = "row" /\ b[i].data = start + i - 1 /\ b[i] \in Range(b) /\ start + i - 1 \in start..(start + k - 1)
    BY <1>1, <1>3, <1>4
  <1>6. \A d \in start..(start + k - 1) : d - start + 1 \in 1..k /\ start + (d - start + 1) - 1 = d
    OBVIOUS
  <1>7. RowsSeen(b) = start..(start + k - 1)
    <2>1. ASSUME NEW d \in RowsSeen(b) PROVE d \in start..(start + k - 1)
      <3>1. PICK l \in Range(b) : d = l.data
        BY DEF RowsSeen
      <3>2. PICK i \in 1..k : l = b[i]
        BY <1>4
      <3> QED BY <1>5, <3>1, <3>2
    <2>2. ASSUME NEW d \in start..(start + k - 1) PROVE d \in RowsSeen(b)
      <3>1. PICK i : i = d - start + 1
        OBVIOUS
      <3>2. i \in 1..k /\ start + i - 1 = d
        BY <1>6, <3>1
      <3>3. b[i].kind = "row" /\ b[i].data = d /\ b[i] \in Range(b)
        BY <1>5, <3>2
      <3> QED BY <3>3 DEF RowsSeen
    <2> QED BY <2>1, <2>2
  <1>8. NotesSeen(b) = {}
    <2>1. Line("note").kind = "note"
      BY DEF Line, Token
    <2>2. \A l \in Range(b) : l.kind = "row"
      BY <1>4, <1>5
    <2> QED BY <2>1, <2>2 DEF NotesSeen
  <1> QED BY <1>2, <1>3, <1>7, <1>8 DEF IsPart

\* What a table has that is drawn in visible lines, with or without room for a note.
IsTable(t, total, cursor, visible, room) ==
    /\ t \in Seq(ScreenLines) /\ Len(t) <= 1 + visible + (IF room THEN 1 ELSE 0)
    /\ total > 0 => ClampCursor(cursor, total) \in RowsSeen(t)
    /\ room => (NotesSeen(t) = Note \/ RowsSeen(t) = 0..(total - 1))

\* A clamped cursor is on a row.
LEMMA Clamped ==
  ASSUME NEW cursor \in Int, NEW total \in Nat, total > 0
  PROVE  ClampCursor(cursor, total) \in 0..(total - 1)
  BY DEF ClampCursor, AtLeast, AtMost

\* A scroll note is a line or none.
LEMMA NoteHeld ==
  ASSUME NEW start \in Int, NEW end \in Int, NEW total \in Nat, NEW room \in BOOLEAN
  PROVE  \E n \in {0, 1}, N \in SUBSET Note :
            /\ IsPart(ScrollNote(start, end, total, room), n, {}, N)
            /\ n = 0 \/ room
            /\ N = Note <=> n = 1
            /\ n = 1 <=> room /\ (start > 0 \/ end < total)
  <1>1. CASE room /\ (start > 0 \/ end < total)
    <2>1. ScrollNote(start, end, total, room) = <<Line("note")>>
      BY <1>1 DEF ScrollNote
    <2>2. Note \in SUBSET Note
      OBVIOUS
    <2> QED BY <1>1, <2>1, <2>2, OneLine
  <1>2. CASE ~(room /\ (start > 0 \/ end < total))
    <2>1. ScrollNote(start, end, total, room) = <<>>
      BY <1>2 DEF ScrollNote
    <2>2. {} \in SUBSET Note /\ {} # Note
      BY DEF Note
    <2> QED BY <1>2, <2>1, <2>2, OneLine
  <1> QED BY <1>1, <1>2

\* A flat table.
LEMMA FlatTable ==
  ASSUME NEW total \in Nat, NEW cursor \in Int, NEW visible \in Nat, visible > 0, NEW emptyNote \in BOOLEAN, NEW room \in BOOLEAN
  PROVE  IsTable(TableLines(total, cursor, visible, emptyNote, room), total, cursor, visible, room)
  <1>1. PICK t : t = TableLines(total, cursor, visible, emptyNote, room)
    OBVIOUS
  <1>2. IsPart(<<Line("header")>>, 1, {}, {})
    BY OneLine DEF ScreenKinds
  <1>3. CASE total = 0
    <2>1. t = <<Line("header")>> \o (IF emptyNote THEN <<Line("note")>> ELSE <<>>)
      BY <1>1, <1>3 DEF TableLines
    <2>3. PICK m \in {0, 1}, N \in SUBSET Note : IsPart(IF emptyNote THEN <<Line("note")>> ELSE <<>>, m, {}, N)
      BY OneLine
    <2>4. IsPart(t, 1 + m, {} \cup {}, {} \cup N)
      BY <1>2, <2>1, <2>3, PartBelow
    <2>5. t \in Seq(ScreenLines) /\ Len(t) = 1 + m /\ RowsSeen(t) = {}
      BY <2>4 DEF IsPart
    <2>6. 0..(total - 1) = {} /\ 1 + m <= 1 + visible + (IF room THEN 1 ELSE 0)
      BY <1>3
    <2> QED BY <1>1, <1>3, <2>5, <2>6 DEF IsTable
  <1>4. CASE total > 0
    <2>1. PICK c : c = ClampCursor(cursor, total) /\ c \in 0..(total - 1)
      BY <1>4, Clamped
    <2>2. PICK w : w = ScrollWindow(c, total, visible)
      OBVIOUS
    <2>3. CursorShown(c, total, visible)
      <3>1. visible \in Int
        OBVIOUS
      <3> QED BY <2>1, <3>1, CursorIsShown
    <2>4. /\ 0 <= w.start /\ w.start <= c /\ c < w.end /\ w.end <= total
          /\ w.end - w.start = AtMost(total, AtLeast(visible, 1))
      BY <2>2, <2>3 DEF CursorShown
    <2>5. PICK a \in Nat, b \in Nat : w = Window(a, b)
      <3>1. CASE total <= visible
        BY <2>1, <2>2, <3>1 DEF ScrollWindow, AtLeast
      <3>2. CASE ~(total <= visible)
        <4>1. PICK half \in Nat : half = visible \div 2
          OBVIOUS
        <4>2. PICK centered \in Nat : centered = AtLeast(c - half, 0)
          BY <2>1 DEF AtLeast
        <4>3. total - visible \in Nat /\ centered + visible \in Nat /\ AtLeast(visible, 1) = visible
          BY <3>2 DEF AtLeast
        <4>4. w = IF centered + visible > total THEN Window(total - visible, total) ELSE Window(centered, centered + visible)
          BY <2>2, <3>2, <4>1, <4>2, <4>3 DEF ScrollWindow
        <4> QED BY <4>3, <4>4
      <3> QED BY <3>1, <3>2
    <2>6. w.start = a /\ w.end = b
      BY <2>5 DEF Window
    <2>7. PICK k \in Nat : k = b - a /\ k <= visible /\ a + k - 1 = b - 1
      <3>1. a <= b
        BY <2>1, <2>4, <2>6
      <3>2. b - a <= visible
        <4>1. AtMost(total, AtLeast(visible, 1)) <= visible
          BY DEF AtMost, AtLeast
        <4> QED BY <2>4, <2>6, <4>1
      <3> QED BY <3>1, <3>2
    <2>8. IsPart([i \in 1..k |-> RowLine(a + i - 1)], k, a..(b - 1), {})
      BY <2>7, RowsListed
    <2>9. PICK n \in {0, 1}, N \in SUBSET Note :
             /\ IsPart(ScrollNote(a, b, total, room), n, {}, N)
             /\ n = 0 \/ room
             /\ N = Note <=> n = 1
             /\ n = 1 <=> room /\ (a > 0 \/ b < total)
      BY NoteHeld
    <2>10. t = <<Line("header")>> \o [i \in 1..k |-> RowLine(a + i - 1)] \o ScrollNote(a, b, total, room)
      <3>1. t = <<Line("header")>> \o [i \in 1..(w.end - w.start) |-> RowLine(w.start + i - 1)] \o ScrollNote(w.start, w.end, total, room)
        <4>1. total # 0
          BY <1>4
        <4> QED BY ONLY <1>1, <2>1, <2>2, <4>1, Zenon DEF TableLines
      <3>2. w.end - w.start = k
        BY <2>6, <2>7
      <3> QED BY ONLY <2>6, <3>1, <3>2
    <2>11. PICK rows : rows = [i \in 1..k |-> RowLine(a + i - 1)]
      OBVIOUS
    <2>12. IsPart(<<Line("header")>> \o rows, 1 + k, {} \cup a..(b - 1), {} \cup {})
      BY <1>2, <2>8, <2>11, PartBelow
    <2>13. PICK u : u = <<Line("header")>> \o rows
      OBVIOUS
    <2>14. IsPart(u \o ScrollNote(a, b, total, room), (1 + k) + n, ({} \cup a..(b - 1)) \cup {}, ({} \cup {}) \cup N)
      BY <2>9, <2>12, <2>13, PartBelow
    <2>15. t \in Seq(ScreenLines) /\ Len(t) = 1 + k + n /\ RowsSeen(t) = a..(b - 1) /\ NotesSeen(t) = N
      <3>1. t = u \o ScrollNote(a, b, total, room)
        BY <2>10, <2>11, <2>13
      <3> QED BY <2>14, <3>1 DEF IsPart
    <2>16. Len(t) <= 1 + visible + (IF room THEN 1 ELSE 0)
      BY <2>7, <2>9, <2>15
    <2>17. c \in RowsSeen(t)
      BY <2>1, <2>4, <2>6, <2>15
    <2>18. ASSUME room PROVE NotesSeen(t) = Note \/ RowsSeen(t) = 0..(total - 1)
      <3>1. CASE n = 1
        BY <2>9, <2>15, <3>1
      <3>2. CASE n = 0
        <4>1. a = 0 /\ b = total
          BY <2>1, <2>4, <2>6, <2>9, <2>18, <3>2
        <4> QED BY <2>15, <4>1
      <3> QED BY <3>1, <3>2
    <2> QED BY <1>1, <2>1, <2>15, <2>16, <2>17, <2>18 DEF IsTable
  <1> QED BY <1>3, <1>4

-----------------------------------------------------------------------------
(* Sections on a screen. *)

FollowOn(S) == \A d, e \in S : \A x \in d..e : x \in S
RowsBetween(o, a, b) == {o[i].data : i \in {j \in a..b : IsRowLine(o, j)}}

\* The rows on lines that follow each other follow each other.
LEMMA PartRows ==
  ASSUME NEW o, NEW k, NEW total \in Nat, IsGrouped(o, k, total), NEW a \in Nat, NEW b \in Nat, 1 <= a, b <= Len(o)
  PROVE  RowsBetween(o, a, b) \subseteq 0..(total - 1) /\ FollowOn(RowsBetween(o, a, b))
  <1>1. PICK n \in Nat : n = Len(o)
    BY DEF IsGrouped
  <1>2. \A i \in a..b : i \in 1..n
    BY <1>1
  <1>3. ASSUME NEW d \in RowsBetween(o, a, b) PROVE \E i \in a..b : i \in 1..n /\ IsRowLine(o, i) /\ o[i].data = d /\ d \in 0..(total - 1)
    <2>1. PICK i \in a..b : IsRowLine(o, i) /\ o[i].data = d
      BY DEF RowsBetween
    <2> QED BY <1>1, <1>2, <2>1 DEF IsGrouped
  <1>4. ASSUME NEW d \in RowsBetween(o, a, b), NEW e \in RowsBetween(o, a, b), NEW x \in d..e PROVE x \in RowsBetween(o, a, b)
    <2>1. PICK i \in a..b : i \in 1..n /\ IsRowLine(o, i) /\ o[i].data = d /\ d \in 0..(total - 1)
      BY <1>3
    <2>2. PICK j \in a..b : j \in 1..n /\ IsRowLine(o, j) /\ o[j].data = e /\ e \in 0..(total - 1)
      BY <1>3
    <2>3. x \in 0..(total - 1) /\ d <= x /\ x <= e
      BY <2>1, <2>2
    <2>4. PICK p \in 1..n : IsRowLine(o, p) /\ o[p].data = x
      BY <1>1, <2>3 DEF IsGrouped
    <2>5. \A q, r \in 1..n : q < r /\ IsRowLine(o, q) /\ IsRowLine(o, r) => o[q].data < o[r].data
      BY <1>1 DEF IsGrouped
    <2>6. ~(p < i)
      <3>1. SUFFICES ASSUME p < i PROVE FALSE
        OBVIOUS
      <3>2. x < d
        BY <2>1, <2>4, <2>5, <3>1
      <3> QED BY <2>1, <2>3, <3>2
    <2>7. ~(j < p)
      <3>1. SUFFICES ASSUME j < p PROVE FALSE
        OBVIOUS
      <3>2. e < x
        BY <2>2, <2>4, <2>5, <3>1
      <3> QED BY <2>2, <2>3, <3>2
    <2>8. p \in a..b
      BY <2>6, <2>7
    <2> QED BY <2>4, <2>8 DEF RowsBetween
  <1> QED BY <1>3, <1>4 DEF FollowOn

\* The rows of a part of the lines.
LEMMA SliceRows ==
  ASSUME NEW o \in Seq(LineRecords), NEW a \in Nat, NEW b \in Nat, 1 <= a, b <= Len(o), a <= b + 1
  PROVE  SubSeq(o, a, b) \in Seq(LineRecords) /\ RowsSeen(SubSeq(o, a, b)) = RowsBetween(o, a, b)
  <1>1. PICK s : s = SubSeq(o, a, b)
    OBVIOUS
  <1>2. s \in Seq(LineRecords) /\ Len(s) = b - a + 1 /\ \A i \in 1..(b - a + 1) : s[i] = o[a + i - 1]
    BY <1>1, Slice
  <1>3. Range(s) = {s[i] : i \in 1..(b - a + 1)}
    BY <1>2, Ranged
  <1>4. ASSUME NEW d \in RowsSeen(s) PROVE d \in RowsBetween(o, a, b)
    <2>1. PICK l \in Range(s) : l.kind = "row" /\ l.data = d
      BY DEF RowsSeen
    <2>2. PICK i \in 1..(b - a + 1) : l = s[i]
      BY <1>3
    <2>3. PICK j : j = a + i - 1
      OBVIOUS
    <2>4. j \in a..b /\ l = o[j]
      BY <1>2, <2>2, <2>3
    <2> QED BY <2>1, <2>4 DEF RowsBetween, IsRowLine
  <1>5. ASSUME NEW d \in RowsBetween(o, a, b) PROVE d \in RowsSeen(s)
    <2>1. PICK j \in a..b : IsRowLine(o, j) /\ o[j].data = d
      BY DEF RowsBetween
    <2>2. PICK i : i = j - a + 1
      OBVIOUS
    <2>3. i \in 1..(b - a + 1) /\ a + i - 1 = j
      BY <2>2
    <2>4. s[i] = o[j]
      BY <1>2, <2>3
    <2>5. s[i] \in Range(s)
      BY <1>3, <2>3
    <2> QED BY <2>1, <2>4, <2>5 DEF RowsSeen, IsRowLine
  <1> QED BY <1>1, <1>2, <1>4, <1>5

\* Those that are shown follow each other, whichever lines the window takes.
LEMMA ShownRows ==
  ASSUME NEW o, NEW k, NEW total \in Nat, IsGrouped(o, k, total), NEW c, NEW h, StandsUnder(o, c, h), NEW rows \in Nat, rows > 0,
         NEW shown, shown = ShownLines(o, c, h, rows)
  PROVE  shown \in Seq(LineRecords) /\ RowsSeen(shown) \subseteq 0..(total - 1) /\ FollowOn(RowsSeen(shown))
  <1>1. PICK n \in Nat : n = Len(o) /\ o \in Seq(LineRecords)
    BY DEF IsGrouped
  <1>2. c \in 1..n /\ h \in 1..n /\ h < c /\ IsRowLine(o, c) /\ IsHeadingLine(o, h)
    BY <1>1 DEF StandsUnder
  <1>3. \A a, b \in Nat : 1 <= a /\ b <= n /\ a <= b + 1 =>
           /\ SubSeq(o, a, b) \in Seq(LineRecords)
           /\ RowsSeen(SubSeq(o, a, b)) \subseteq 0..(total - 1) /\ FollowOn(RowsSeen(SubSeq(o, a, b)))
    BY <1>1, SliceRows, PartRows
  <1>4. CASE rows >= n
    <2>1. shown = o
      BY <1>1, <1>4 DEF ShownLines
    <2>2. SubSeq(o, 1, n) = o
      BY <1>1
    <2>3. 1 \in Nat /\ 1 <= 1 /\ n <= n /\ 1 <= n + 1
      OBVIOUS
    <2> QED BY <1>3, <2>1, <2>2, <2>3
  <1>5. CASE ~(rows >= n) /\ rows = 1
    <2>1. shown = <<o[c]>>
      BY <1>1, <1>5 DEF ShownLines
    <2>2. SubSeq(o, c, c) = <<o[c]>>
      <3>1. c \in Nat /\ 1 <= c /\ c <= Len(o)
        BY <1>1, <1>2
      <3>2. PICK u : u = SubSeq(o, c, c)
        OBVIOUS
      <3>3. u \in Seq(LineRecords) /\ Len(u) = 1 /\ u[1] = o[c]
        <4>1. c <= c + 1 /\ c - c + 1 = 1 /\ 1 \in 1..1 /\ c + 1 - 1 = c
          BY <3>1
        <4>2. u \in Seq(LineRecords) /\ Len(u) = c - c + 1 /\ \A i \in 1..(c - c + 1) : u[i] = o[c + i - 1]
          BY <1>1, <3>1, <3>2, <4>1, Slice
        <4> QED BY <4>1, <4>2
      <3>4. \A T : \A v \in Seq(T) : Len(v) = 1 => v = <<v[1]>>
        OBVIOUS
      <3> QED BY <3>2, <3>3, <3>4
    <2>3. c \in Nat /\ 1 <= c /\ c <= n /\ c <= c + 1
      BY <1>2
    <2> QED BY <1>3, <2>1, <2>2, <2>3
  <1>6. CASE ~(rows >= n) /\ rows # 1
    <2>1. PICK w : w = GroupedWindow(c - 1, h - 1, rows, n)
      OBVIOUS
    <2>2. shown = (IF w.prependHeading THEN <<o[h]>> ELSE <<>>) \o SubSeq(o, w.start + 1, w.end)
      BY <1>1, <1>6, <2>1 DEF ShownLines
    <2>3. PICK half \in Nat : half = (rows - 1) \div 2
      OBVIOUS
    <2>4. w.prependHeading \in BOOLEAN /\ w.start \in Nat /\ w.end \in Nat /\ w.start <= w.end /\ w.end <= n
      <3>1. CASE c - 1 < h - 1 + rows
        <4>1. w.prependHeading = FALSE /\ w.start = h - 1 /\ w.end = AtMost(h - 1 + rows, n)
          BY <2>1, <3>1 DEF GroupedWindow
        <4>2. h - 1 \in Nat /\ AtMost(h - 1 + rows, n) \in Nat /\ h - 1 <= AtMost(h - 1 + rows, n) /\ AtMost(h - 1 + rows, n) <= n
          BY <1>2 DEF AtMost
        <4> QED BY <4>1, <4>2
      <3>2. CASE ~(c - 1 < h - 1 + rows)
        <4>1. PICK tail : tail = AtLeast(c - 1 - half, h - 1 + 1)
          OBVIOUS
        <4>2. tail \in Nat /\ tail < c /\ tail <= n
          BY <1>2, <4>1 DEF AtLeast
        <4>3. w.prependHeading = TRUE /\ w.start = tail /\ w.end = AtMost(tail + rows - 1, n)
          BY <2>1, <2>3, <3>2, <4>1 DEF GroupedWindow
        <4>4. PICK e : e = AtMost(tail + rows - 1, n)
          OBVIOUS
        <4>5. e \in Nat /\ tail <= e /\ e <= n
          BY <4>2, <4>4 DEF AtMost
        <4> QED BY <4>2, <4>3, <4>4, <4>5
      <3> QED BY <3>1, <3>2
    <2>5. PICK a, b, s : a = w.start + 1 /\ b = w.end /\ s = SubSeq(o, a, b)
      OBVIOUS
    <2>6. a \in Nat /\ b \in Nat /\ 1 <= a /\ b <= n /\ a <= b + 1
      BY <2>4, <2>5
    <2>7. s \in Seq(LineRecords) /\ RowsSeen(s) \subseteq 0..(total - 1) /\ FollowOn(RowsSeen(s))
      BY <1>3, <2>5, <2>6
    <2>8. PICK t : t = IF w.prependHeading THEN <<o[h]>> ELSE <<>>
      OBVIOUS
    <2>9. t \in Seq(LineRecords) /\ \A i \in 1..Len(t) : t[i].kind # "row"
      <3>1. PICK x : x = o[h]
        OBVIOUS
      <3>2. x \in LineRecords /\ x.kind # "row"
        BY <1>1, <1>2, <3>1 DEF IsHeadingLine
      <3>3. t = <<x>> \/ t = <<>>
        BY <2>8, <3>1
      <3>4. <<x>> \in Seq(LineRecords) /\ Len(<<x>>) = 1 /\ <<x>>[1] = x /\ \A i \in 1..1 : i = 1
        BY <3>2
      <3>5. <<>> \in Seq(LineRecords) /\ Len(<<>>) = 0 /\ 1..0 = {}
        OBVIOUS
      <3> QED BY <3>2, <3>3, <3>4, <3>5
    <2>10. shown = t \o s
      BY <2>2, <2>5, <2>8
    <2>11. /\ shown \in Seq(LineRecords) /\ Len(shown) = Len(t) + Len(s)
           /\ \A i \in 1..Len(t) : shown[i] = t[i]
           /\ \A i \in 1..Len(s) : shown[Len(t) + i] = s[i]
      BY <2>7, <2>9, <2>10, Concat
    <2>12. RowsSeen(shown) = RowsSeen(s)
      <3>1. PICK p \in Nat, q \in Nat : p = Len(t) /\ q = Len(s)
        BY <2>7, <2>9
      <3>2. Range(shown) = {shown[i] : i \in 1..(p + q)} /\ Range(s) = {s[i] : i \in 1..q}
        <4>1. Range(shown) = {shown[i] : i \in 1..Len(shown)} /\ Range(s) = {s[i] : i \in 1..Len(s)}
          BY ONLY <2>7, <2>11, Ranged
        <4> QED BY <2>11, <3>1, <4>1
      <3>3. \A i \in 1..(p + q) : i \in 1..p \/ (i - p \in 1..q /\ i = p + (i - p))
        OBVIOUS
      <3>4. \A i \in 1..q : p + i \in 1..(p + q)
        OBVIOUS
      <3>5. ASSUME NEW l \in Range(shown), l.kind = "row" PROVE l \in Range(s)
        <4>1. PICK i \in 1..(p + q) : l = shown[i]
          BY <3>2
        <4>2. i \notin 1..p
          BY <2>9, <2>11, <3>1, <3>5, <4>1
        <4>3. i - p \in 1..q /\ i = p + (i - p)
          BY <3>3, <4>2
        <4>4. shown[i] = s[i - p]
          BY <2>11, <3>1, <4>3
        <4> QED BY <3>2, <4>1, <4>3, <4>4
      <3>6. ASSUME NEW l \in Range(s) PROVE l \in Range(shown)
        <4>1. PICK i \in 1..q : l = s[i]
          BY <3>2
        <4>2. shown[p + i] = s[i] /\ p + i \in 1..(p + q)
          BY <2>11, <3>1, <3>4
        <4> QED BY <3>2, <4>1, <4>2
      <3> QED BY <3>5, <3>6 DEF RowsSeen
    <2> QED BY <2>7, <2>11, <2>12
  <1> QED BY <1>4, <1>5, <1>6

\* The note of a grouped table, from the first and the last row that are shown.
LEMMA GroupedNoteHeld ==
  ASSUME NEW lines, NEW total \in Nat, NEW room \in BOOLEAN, NEW S, S = RowsSeen(lines), S \subseteq 0..(total - 1), FollowOn(S), S # {}
  PROVE  \E n \in {0, 1}, N \in SUBSET Note :
            /\ IsPart(GroupedNote(lines, total, room), n, {}, N)
            /\ n = 0 \/ room
            /\ N = Note <=> n = 1
            /\ room => n = 1 \/ S = 0..(total - 1)
            /\ total = 1 => n = 0
  <1> DEFINE data == {lines[i].data : i \in {j \in DOMAIN lines : lines[j].kind = "row"}}
             low == CHOOSE d \in S : \A e \in S : d <= e
             high == CHOOSE d \in S : \A e \in S : e <= d
  <1>1. data = S
    BY DEF RowsSeen, Range
  <1>2. GroupedNote(lines, total, room) = ScrollNote(low, 1 + high, total, room)
    BY <1>1 DEF GroupedNote
  <1> HIDE DEF data
  <1>3. low \in S /\ \A e \in S : low <= e
    <2>1. S \in SUBSET Nat
      OBVIOUS
    <2>2. \E d \in S : \A e \in S : d <= e
      BY ONLY <2>1, S # {}, Least
    <2> QED BY <2>2
  <1>4. high \in S /\ \A e \in S : e <= high
    <2>1. PICK T : T = {d + 1 : d \in S}
      OBVIOUS
    <2>2. T \in SUBSET (1..total) /\ T # {}
      BY <2>1
    <2>3. PICK m : m \in T /\ \A t \in T : t <= m
      BY <2>2, Last1
    <2>4. PICK d \in S : m = d + 1
      BY <2>1, <2>3
    <2>5. \A e \in S : e <= d
      BY <2>1, <2>3, <2>4
    <2>6. \E x \in S : \A e \in S : e <= x
      BY <2>5
    <2> QED BY <2>6
  <1> HIDE DEF low, high
  <1>5. low \in 0..(total - 1) /\ high \in 0..(total - 1) /\ low <= high
    BY <1>3, <1>4
  <1>6. PICK n \in {0, 1}, N \in SUBSET Note :
           /\ IsPart(ScrollNote(low, 1 + high, total, room), n, {}, N)
           /\ n = 0 \/ room
           /\ N = Note <=> n = 1
           /\ n = 1 <=> room /\ (low > 0 \/ 1 + high < total)
    <2>1. low \in Int /\ 1 + high \in Int
      BY <1>5
    <2> QED BY <2>1, NoteHeld
  <1>7. ASSUME room, n # 1 PROVE S = 0..(total - 1)
    <2>1. low = 0 /\ high = total - 1
      BY <1>5, <1>6, <1>7
    <2>2. \A x \in 0..(total - 1) : x \in low..high
      BY <2>1
    <2>3. \A x \in low..high : x \in S
      BY <1>3, <1>4 DEF FollowOn
    <2> QED BY <2>2, <2>3
  <1>8. total = 1 => n = 0
    BY <1>5, <1>6
  <1> QED BY <1>2, <1>6, <1>7, <1>8

\* The rows of all sections are counted by a natural number.
LEMMA TotalType ==
  ASSUME NEW lens \in Seq(Nat)
  PROVE  TotalRows(lens) \in Nat /\ TotalRows(lens) = RowsBefore(lens, Len(lens) + 1)
  <1>1. CASE Len(lens) = 0
    <2>1. Len(lens) + 1 = 1
      BY <1>1
    <2> QED BY <2>1, RowsUpTo DEF TotalRows
  <1>2. CASE Len(lens) # 0
    <2>1. PICK k \in 1..Len(lens) : k = Len(lens)
      BY <1>2
    <2>2. RowsBefore(lens, k) \in Nat /\ RowsBefore(lens, k + 1) = RowsBefore(lens, k) + lens[k] /\ lens[k] \in Nat
      BY RowsUpTo
    <2> QED BY <2>1, <2>2 DEF TotalRows
  <1> QED BY <1>1, <1>2

\* A table in sections, and the line break that may follow it.
LEMMA GroupTable ==
  ASSUME NEW lens \in Seq(Nat), NEW total, total = TotalRows(lens), total > 0, NEW cursor \in Int,
         NEW visible \in Nat, visible > 0, NEW room \in BOOLEAN
  PROVE  /\ IsTable(GroupedTable(lens, cursor, visible, room), total, cursor, visible, room)
         /\ IsTable(GroupedTable(lens, cursor, visible, TRUE) \o LineBreak(lens, visible), total, cursor, visible, TRUE)
  <1>1. PICK o, k : o = GroupTokens(lens) /\ k = Len(lens) /\ IsGrouped(o, k, total)
    BY TotalType, TokensGrouped
  <1>2. total \in Nat /\ total = RowsBefore(lens, Len(lens) + 1)
    BY TotalType
  <1>3. PICK c : c = ClampCursor(cursor, total) /\ c \in 0..(total - 1)
    BY <1>2, Clamped
  <1>4. PICK shown : shown = GroupedLines(lens, c, visible)
    OBVIOUS
  <1>5. Len(shown) <= visible /\ \E i \in DOMAIN shown : shown[i].kind = "row" /\ shown[i].data = c
    <2>1. GroupsShown(lens, c, visible)
      BY <1>2, <1>3, GroupIsShown
    <2> QED BY <1>4, <2>1 DEF GroupsShown
  <1>6. PICK p, h : StandsUnder(o, p, h) /\ shown = ShownLines(o, p, h, visible)
    <2>1. c \in 0..(total - 1) /\ IsGrouped(GroupTokens(lens), k, total)
      BY <1>1, <1>3
    <2>2. PICK p, h : IsPlaced(lens, c, visible, p, h)
      BY ONLY <2>1, GroupPlaces
    <2> QED BY ONLY <1>1, <1>4, <2>2 DEF IsPlaced
  <1>7. shown \in Seq(LineRecords) /\ RowsSeen(shown) \subseteq 0..(total - 1) /\ FollowOn(RowsSeen(shown))
    BY <1>1, <1>2, <1>6, ShownRows
  <1>8. PICK S : S = RowsSeen(shown)
    OBVIOUS
  <1>9. c \in S
    BY <1>5, <1>8 DEF RowsSeen, Range
  <1>10. PICK q \in Nat : q = Len(shown)
    BY <1>7
  <1>11. IsPart(shown, q, S, {})
    <2>1. LineRecords \subseteq ScreenLines
      BY DEF LineRecords, ScreenLines, ScreenKinds
    <2>2. shown \in Seq(ScreenLines)
      <3>1. \A T, U : T \subseteq U => Seq(T) \subseteq Seq(U)
        OBVIOUS
      <3> QED BY <1>7, <2>1, <3>1
    <2>3. Line("note").kind = "note"
      BY DEF Line, Token
    <2>4. \A l \in Range(shown) : l.kind # "note"
      <3>1. \A i \in 1..Len(shown) : shown[i] \in LineRecords
        BY <1>7
      <3>2. \A l \in LineRecords : l.kind # "note"
        BY DEF LineRecords
      <3> QED BY <1>7, <3>1, <3>2, Ranged
    <2>5. NotesSeen(shown) = {}
      BY <2>3, <2>4 DEF NotesSeen
    <2> QED BY <1>8, <1>10, <2>2, <2>5 DEF IsPart
  <1>12. IsPart(<<Line("header")>>, 1, {}, {})
    BY OneLine DEF ScreenKinds
  <1>13. PICK u : u = <<Line("header")>> \o shown
    OBVIOUS
  <1>14. IsPart(u, 1 + q, S, {})
    <2>1. IsPart(u, 1 + q, {} \cup S, {} \cup {})
      BY <1>11, <1>12, <1>13, PartBelow
    <2> QED BY <2>1
  <1>15. ASSUME NEW r \in BOOLEAN
         PROVE  \E n \in {0, 1}, N \in SUBSET Note :
                   /\ IsPart(GroupedTable(lens, cursor, visible, r), 1 + q + n, S, N)
                   /\ n = 0 \/ r
                   /\ r => N = Note \/ S = 0..(total - 1)
                   /\ total = 1 => n = 0
    <2>1. PICK n \in {0, 1}, N \in SUBSET Note :
             /\ IsPart(GroupedNote(shown, total, r), n, {}, N)
             /\ n = 0 \/ r
             /\ N = Note <=> n = 1
             /\ r => n = 1 \/ S = 0..(total - 1)
             /\ total = 1 => n = 0
      <3>1. total \in Nat /\ S = RowsSeen(shown) /\ S \subseteq 0..(total - 1) /\ FollowOn(S) /\ S # {}
        BY <1>2, <1>7, <1>8, <1>9
      <3> QED BY ONLY r \in BOOLEAN, <3>1, GroupedNoteHeld
    <2>2. GroupedTable(lens, cursor, visible, r) = u \o GroupedNote(shown, total, r)
      BY <1>3, <1>4, <1>13 DEF GroupedTable
    <2>3. IsPart(u \o GroupedNote(shown, total, r), (1 + q) + n, S \cup {}, {} \cup N)
      BY <1>14, <2>1, PartBelow
    <2> QED BY <2>1, <2>2, <2>3
  <1>16. IsTable(GroupedTable(lens, cursor, visible, room), total, cursor, visible, room)
    <2>1. PICK n \in {0, 1}, N \in SUBSET Note :
             /\ IsPart(GroupedTable(lens, cursor, visible, room), 1 + q + n, S, N)
             /\ n = 0 \/ room
             /\ room => N = Note \/ S = 0..(total - 1)
      BY <1>15
    <2>2. 1 + q + n <= 1 + visible + (IF room THEN 1 ELSE 0)
      BY <1>5, <1>10, <2>1
    <2> QED BY <1>3, <1>9, <2>1, <2>2 DEF IsPart, IsTable
  <1>17. IsTable(GroupedTable(lens, cursor, visible, TRUE) \o LineBreak(lens, visible), total, cursor, visible, TRUE)
    <2>1. PICK n \in {0, 1}, N \in SUBSET Note :
             /\ IsPart(GroupedTable(lens, cursor, visible, TRUE), 1 + q + n, S, N)
             /\ N = Note \/ S = 0..(total - 1)
             /\ total = 1 => n = 0
      BY <1>15
    <2>2. PICK m \in {0, 1} : IsPart(LineBreak(lens, visible), m, {}, {}) /\ (m = 1 => total = 1)
      <3>1. IsPart(<<Line("blank")>>, 1, {}, {}) /\ IsPart(<<>>, 0, {}, {})
        BY OneLine DEF ScreenKinds
      <3> QED BY <3>1 DEF LineBreak
    <2>3. PICK t : t = GroupedTable(lens, cursor, visible, TRUE) \o LineBreak(lens, visible)
      OBVIOUS
    <2>4. IsPart(t, (1 + q + n) + m, S \cup {}, N \cup {})
      BY <2>1, <2>2, <2>3, PartBelow
    <2>5. (1 + q + n) + m <= 1 + visible + 1
      BY <1>5, <1>10, <2>1, <2>2
    <2> QED BY <1>3, <1>9, <2>1, <2>3, <2>4, <2>5 DEF IsPart, IsTable
  <1> QED BY <1>16, <1>17

-----------------------------------------------------------------------------
(* Bodies and frames. *)

IsScreen(s) ==
    /\ s.h \in Nat /\ s.prompt \in BOOLEAN /\ s.lens \in Seq(Nat) /\ s.grouped \in BOOLEAN
    /\ s.cursor \in Int /\ s.panel \in Nat /\ s.waits \in BOOLEAN

\* The footer has neither rows nor notes.
LEMMA FooterHeld ==
  ASSUME NEW prompt \in BOOLEAN
  PROVE  IsPart(FooterView(prompt), IF prompt THEN 2 ELSE 1, {}, {})
  <1>1. IsPart(<<Line("help")>>, 1, {}, {}) /\ IsPart(<<Line("prompt")>>, 1, {}, {}) /\ IsPart(<<>>, 0, {}, {})
    BY OneLine DEF ScreenKinds
  <1>2. IsPart(<<Line("prompt")>> \o <<Line("help")>>, 1 + 1, {} \cup {}, {} \cup {})
    BY <1>1, PartBelow
  <1>3. IsPart(<<>> \o <<Line("help")>>, 0 + 1, {} \cup {}, {} \cup {})
    BY <1>1, PartBelow
  <1>6. 1 + 1 = 2 /\ 0 + 1 = 1 /\ {} \cup {} = {}
    OBVIOUS
  <1>4. CASE prompt
    <2>1. FooterView(prompt) = <<Line("prompt")>> \o <<Line("help")>>
      BY <1>4 DEF FooterView
    <2>2. IsPart(FooterView(prompt), 2, {}, {})
      BY ONLY <1>2, <1>6, <2>1
    <2> QED BY ONLY <1>4, <2>2, Zenon
  <1>5. CASE ~prompt
    <2>1. FooterView(prompt) = <<>> \o <<Line("help")>>
      BY <1>5 DEF FooterView
    <2>2. IsPart(FooterView(prompt), 1, {}, {})
      BY ONLY <1>3, <1>6, <2>1
    <2> QED BY ONLY <1>5, <2>2, Zenon
  <1> QED BY <1>4, <1>5

\* It has one line or two.
LEMMA FooterIs ==
  ASSUME NEW s, IsScreen(s)
  PROVE  Footer(s) = (IF s.prompt THEN 2 ELSE 1) /\ Footer(s) \in {1, 2}
  BY FooterHeld DEF IsScreen, Footer, IsPart

\* The frame adds lines, and neither rows nor notes.
LEMMA Framed ==
  ASSUME NEW h \in Nat, NEW prompt \in BOOLEAN, NEW body, NEW n, NEW R, NEW N, IsPart(body, n, R, N),
         NEW f, f = IF prompt THEN 2 ELSE 1
  PROVE  IsPart(Frame(h, body, FooterView(prompt)), (2 + n) + AtLeast(h - (2 + n) - f, 1) + f, R, N)
  <1>1. IsPart(<<Line("title"), Line("blank")>>, 2, {}, {})
    <2>1. IsPart(<<Line("title")>>, 1, {}, {}) /\ IsPart(<<Line("blank")>>, 1, {}, {})
      BY OneLine DEF ScreenKinds
    <2>2. IsPart(<<Line("title")>> \o <<Line("blank")>>, 1 + 1, {} \cup {}, {} \cup {})
      BY <2>1, PartBelow
    <2>3. 1 + 1 = 2 /\ {} \cup {} = {}
      OBVIOUS
    <2> QED BY ONLY <2>2, <2>3, TwoLines
  <1>2. PICK content : content = <<Line("title"), Line("blank")>> \o body
    OBVIOUS
  <1>3. IsPart(content, 2 + n, {} \cup R, {} \cup N)
    BY <1>1, <1>2, PartBelow
  <1>4. n \in Nat /\ Len(content) = 2 + n
    BY <1>3 DEF IsPart
  <1>5. PICK footer : footer = FooterView(prompt)
    OBVIOUS
  <1>6. IsPart(footer, f, {}, {}) /\ Len(footer) = f /\ f \in Nat
    BY <1>5, FooterHeld DEF IsPart
  <1>7. PICK k : k = AtLeast(h - (2 + n) - f, 1)
    OBVIOUS
  <1>8. k \in Nat
    BY <1>4, <1>6, <1>7 DEF AtLeast
  <1>9. IsPart(Fill("blank", k), k, {}, {})
    BY <1>8, Filled DEF ScreenKinds
  <1>10. PICK u : u = content \o Fill("blank", k)
    OBVIOUS
  <1>11. IsPart(u, (2 + n) + k, ({} \cup R) \cup {}, ({} \cup N) \cup {})
    BY <1>3, <1>9, <1>10, PartBelow
  <1>12. IsPart(u \o footer, ((2 + n) + k) + f, (({} \cup R) \cup {}) \cup {}, (({} \cup N) \cup {}) \cup {})
    BY <1>6, <1>11, PartBelow
  <1>13. Frame(h, body, FooterView(prompt)) = u \o footer
    <2>1. Frame(h, body, footer) = content \o Fill("blank", AtLeast(h - Len(content) - Len(footer), 1)) \o footer
      BY <1>2 DEF Frame
    <2> QED BY <1>4, <1>5, <1>6, <1>7, <1>10, <2>1
  <1>14. (({} \cup R) \cup {}) \cup {} = R /\ (({} \cup N) \cup {}) \cup {} = N
    OBVIOUS
  <1> QED BY ONLY <1>7, <1>12, <1>13, <1>14

\* What the body of a screen must be for the screen to fit.
BodyFits(screen, s, body) ==
    LET rows == RowsSeen(body)
        total == TotalRows(s.lens)
        table == ~(s.waits /\ screen \in {"browse", "find", "diff"})
    IN  /\ body \in Seq(ScreenLines)
        /\ s.h >= LeastHeight(screen, s) => Len(body) + 3 + Footer(s) <= s.h
        /\ (table /\ screen # "page" /\ total > 0) => ClampCursor(s.cursor, total) \in rows
        /\ (table /\ screen \notin {"page", "detail"}) => (NotesSeen(body) = Note \/ rows = 0..(total - 1))
        /\ screen = "page" => (PageOverflows(s) <=> rows # 0..(total - 1))

\* A screen fits if its body does.
LEMMA FitsIf ==
  ASSUME NEW screen, NEW s, IsScreen(s), BodyFits(screen, s, Body(screen, s))
  PROVE  ScreenFits(screen, s)
  <1>1. PICK body : body = Body(screen, s)
    OBVIOUS
  <1>2. PICK n \in Nat : n = Len(body)
    BY <1>1 DEF BodyFits
  <1>3. IsPart(body, n, RowsSeen(body), NotesSeen(body))
    BY <1>1, <1>2 DEF BodyFits, IsPart
  <1>4. PICK f : f = Footer(s) /\ f = (IF s.prompt THEN 2 ELSE 1) /\ f \in {1, 2}
    BY FooterIs
  <1>5. PICK lines : lines = Frame(s.h, body, FooterView(s.prompt))
    OBVIOUS
  <1>6. IsPart(lines, (2 + n) + AtLeast(s.h - (2 + n) - f, 1) + f, RowsSeen(body), NotesSeen(body))
    BY <1>3, <1>4, <1>5, Framed DEF IsScreen
  <1>7. RowsSeen(lines) = RowsSeen(body) /\ NotesSeen(lines) = NotesSeen(body) /\ Len(lines) = (2 + n) + AtLeast(s.h - (2 + n) - f, 1) + f
    BY <1>6 DEF IsPart
  <1>8. s.h >= LeastHeight(screen, s) => Len(lines) = s.h
    <2>1. ASSUME s.h >= LeastHeight(screen, s) PROVE Len(lines) = s.h
      <3>1. n + 3 + f <= s.h /\ s.h \in Nat
        BY <1>1, <1>2, <1>4, <2>1 DEF BodyFits, IsScreen
      <3>2. PICK h \in Nat : h = s.h
        BY <3>1
      <3>3. AtLeast(h - (2 + n) - f, 1) = h - (2 + n) - f
        BY <1>4, <3>1, <3>2 DEF AtLeast
      <3> QED BY <1>4, <1>7, <3>2, <3>3
    <2> QED BY <2>1
  <1>9. (Line("note") \in Range(lines)) <=> NotesSeen(body) = Note
    BY <1>7 DEF NotesSeen, Note
  <1>10. {l.data : l \in {k \in Range(lines) : k.kind = "row"}} = RowsSeen(body)
    BY <1>7 DEF RowsSeen
  <1>11. Complete(screen, s, lines)
    <2>1. PICK rows : rows = RowsSeen(body)
      OBVIOUS
    <2> QED BY <1>1, <1>8, <1>9, <1>10 DEF Complete, BodyFits
  <1> QED BY <1>1, <1>5, <1>11 DEF ScreenFits

\* Lines about what the screen shows stand above its table.
LEMMA MetaAbove ==
  ASSUME NEW m \in Nat, NEW t \in Seq(ScreenLines), NEW b, b = Fill("meta", m) \o t
  PROVE  b \in Seq(ScreenLines) /\ Len(b) = m + Len(t) /\ RowsSeen(b) = RowsSeen(t) /\ NotesSeen(b) = NotesSeen(t)
  <1>1. IsPart(Fill("meta", m), m, {}, {})
    BY Filled DEF ScreenKinds
  <1>2. IsPart(t, Len(t), RowsSeen(t), NotesSeen(t))
    BY DEF IsPart
  <1>3. IsPart(b, m + Len(t), {} \cup RowsSeen(t), {} \cup NotesSeen(t))
    BY <1>1, <1>2, PartBelow
  <1> QED BY <1>3 DEF IsPart

\* The budget of a table leaves room for itself, and is met by it.
LEMMA TableBudget ==
  ASSUME NEW h \in Nat, NEW f \in {1, 2}, NEW meta \in {0, 2}, NEW visible, visible = TableVisible(h, f, meta)
  PROVE  visible \in Nat /\ visible > 0 /\ (h >= 6 + f + meta => visible + 5 + f + meta = h)
  BY DEF TableVisible, Chrome, AtLeast

\* A screen with two lines above one table.
LEMMA TableScreen ==
  ASSUME NEW screen \in {"browse", "find", "diff"}, NEW s, IsScreen(s), NEW total, total = TotalRows(s.lens),
         NEW emptyNote \in BOOLEAN, NEW waiting \in Seq(ScreenLines), Len(waiting) <= 1,
         Body(screen, s) = Fill("meta", 2) \o
             (IF s.waits THEN waiting ELSE TableLines(total, s.cursor, TableVisible(s.h, Footer(s), 2), emptyNote, TRUE))
  PROVE  BodyFits(screen, s, Body(screen, s))
  <1>1. PICK body : body = Body(screen, s)
    OBVIOUS
  <1>2. PICK f \in {1, 2} : f = Footer(s)
    BY FooterIs
  <1>3. PICK h \in Nat : h = s.h
    BY DEF IsScreen
  <1>4. PICK visible : visible = TableVisible(h, f, 2)
    OBVIOUS
  <1>5. visible \in Nat /\ visible > 0 /\ (h >= 6 + f + 2 => visible + 5 + f + 2 = h)
    BY <1>4, TableBudget
  <1>6. LeastHeight(screen, s) = 3 + f + 5
    BY <1>2 DEF LeastHeight, Chrome
  <1>7. screen # "page" /\ screen # "detail"
    OBVIOUS
  <1>8. PICK t : t = IF s.waits THEN waiting ELSE TableLines(total, s.cursor, visible, emptyNote, TRUE)
    OBVIOUS
  <1>9. body = Fill("meta", 2) \o t
    BY <1>1, <1>2, <1>3, <1>4, <1>8
  <1>10. s.waits \in BOOLEAN /\ s.cursor \in Int /\ total \in Nat
    BY TotalType DEF IsScreen
  <1>11. CASE s.waits
    <2>1. body \in Seq(ScreenLines) /\ Len(body) = 2 + Len(waiting)
      BY <1>8, <1>9, <1>11, MetaAbove
    <2>2. h >= 3 + f + 5 => Len(body) + 3 + f <= h
      BY <2>1
    <2> QED BY <1>1, <1>2, <1>3, <1>6, <1>7, <1>11, <2>1, <2>2 DEF BodyFits
  <1>12. CASE ~s.waits
    <2>1. IsTable(t, total, s.cursor, visible, TRUE)
      BY <1>5, <1>8, <1>10, <1>12, FlatTable
    <2>2. t \in Seq(ScreenLines) /\ Len(t) <= 1 + visible + 1
      BY <2>1 DEF IsTable
    <2>3. body \in Seq(ScreenLines) /\ Len(body) = 2 + Len(t) /\ RowsSeen(body) = RowsSeen(t) /\ NotesSeen(body) = NotesSeen(t)
      BY <1>9, <2>2, MetaAbove
    <2>4. h >= 3 + f + 5 => Len(body) + 3 + f <= h
      BY <1>5, <2>2, <2>3
    <2>5. total > 0 => ClampCursor(s.cursor, total) \in RowsSeen(body)
      BY <2>1, <2>3 DEF IsTable
    <2>6. NotesSeen(body) = Note \/ RowsSeen(body) = 0..(total - 1)
      BY <2>1, <2>3 DEF IsTable
    <2> QED BY <1>1, <1>2, <1>3, <1>6, <1>7, <2>3, <2>4, <2>5, <2>6 DEF BodyFits
  <1> QED BY <1>10, <1>11, <1>12

\* The repository list.
LEMMA ListFits ==
  ASSUME NEW s, IsScreen(s)
  PROVE  BodyFits("list", s, Body("list", s))
  <1>1. PICK body : body = ListBody(s)
    OBVIOUS
  <1>2. PICK f \in {1, 2} : f = Footer(s)
    BY FooterIs
  <1>3. PICK h \in Nat : h = s.h
    BY DEF IsScreen
  <1>4. PICK visible : visible = TableVisible(h, f, 0)
    OBVIOUS
  <1>5. visible \in Nat /\ visible > 0 /\ (h >= 6 + f + 0 => visible + 5 + f + 0 = h)
    BY <1>4, TableBudget
  <1>6. LeastHeight("list", s) = 3 + f + 3
    BY <1>2 DEF LeastHeight, Chrome
  <1>7. PICK total \in Nat : total = TotalRows(s.lens)
    BY TotalType DEF IsScreen
  <1>8. s.grouped \in BOOLEAN /\ s.cursor \in Int /\ s.lens \in Seq(Nat)
    BY DEF IsScreen
  <1>9. body \in Seq(ScreenLines) /\ (h >= 3 + f + 3 => Len(body) + 3 + f <= h)
        /\ (total > 0 => ClampCursor(s.cursor, total) \in RowsSeen(body))
        /\ (NotesSeen(body) = Note \/ RowsSeen(body) = 0..(total - 1))
    <2>1. CASE total = 0
      <3>1. body = <<Line("note")>>
        BY <1>1, <1>7, <2>1 DEF ListBody
      <3>2. body \in Seq(ScreenLines) /\ Len(body) = 1 /\ NotesSeen(body) = Note
        BY <3>1, OneLine DEF IsPart
      <3> QED BY <2>1, <3>2
    <2>2. ASSUME IsTable(body, total, s.cursor, visible, TRUE)
          PROVE  /\ body \in Seq(ScreenLines) /\ (h >= 3 + f + 3 => Len(body) + 3 + f <= h)
                 /\ (total > 0 => ClampCursor(s.cursor, total) \in RowsSeen(body))
                 /\ (NotesSeen(body) = Note \/ RowsSeen(body) = 0..(total - 1))
      <3>1. body \in Seq(ScreenLines) /\ Len(body) <= 1 + visible + 1
        BY <2>2 DEF IsTable
      <3>2. h >= 3 + f + 3 => Len(body) + 3 + f <= h
        BY <1>5, <3>1
      <3> QED BY <2>2, <3>1, <3>2 DEF IsTable
    <2>3. CASE total # 0 /\ s.grouped
      <3>1. body = GroupedTable(s.lens, s.cursor, visible, TRUE) \o LineBreak(s.lens, visible)
        BY <1>1, <1>2, <1>3, <1>4, <1>7, <2>3 DEF ListBody
      <3>2. IsTable(body, total, s.cursor, visible, TRUE)
        <4>1. total > 0
          BY <2>3
        <4> QED BY <1>5, <1>7, <1>8, <3>1, <4>1, GroupTable
      <3> QED BY <2>2, <3>2
    <2>4. CASE total # 0 /\ ~s.grouped
      <3>1. body = TableLines(total, s.cursor, visible, TRUE, TRUE)
        BY <1>1, <1>2, <1>3, <1>4, <1>7, <2>4 DEF ListBody
      <3>2. IsTable(body, total, s.cursor, visible, TRUE)
        BY <1>5, <1>8, <3>1, FlatTable
      <3> QED BY <2>2, <3>2
    <2> QED BY <1>8, <2>1, <2>3, <2>4
  <1>10. Body("list", s) = body
    BY <1>1 DEF Body
  <1> QED BY <1>2, <1>3, <1>6, <1>7, <1>9, <1>10 DEF BodyFits

\* A page.
LEMMA PageFits ==
  ASSUME NEW s, IsScreen(s)
  PROVE  BodyFits("page", s, Body("page", s))
  <1>1. PICK body : body = PageBody(s)
    OBVIOUS
  <1>2. PICK f \in {1, 2} : f = Footer(s) /\ f = (IF s.prompt THEN 2 ELSE 1)
    BY FooterIs
  <1>3. PICK h \in Nat : h = s.h
    BY DEF IsScreen
  <1>4. PICK visible : visible = ModalVisible(h, f)
    OBVIOUS
  <1>5. visible \in Nat /\ visible > 0 /\ (h >= 3 + f + 1 => visible + 3 + f = h) /\ visible = AtLeast(h - 3 - f, 1)
    BY <1>4 DEF ModalVisible, Chrome, AtLeast
  <1>6. LeastHeight("page", s) = 3 + f + 1
    BY <1>2 DEF LeastHeight, Chrome
  <1>7. PICK total \in Nat : total = TotalRows(s.lens)
    BY TotalType DEF IsScreen
  <1>8. PICK scroll \in Int : scroll = s.cursor
    BY DEF IsScreen
  <1>9. PICK w : w = ModalWindow(scroll, total, visible)
    OBVIOUS
  <1>10. PICK left \in Nat : left = BodyRows(total, visible) /\ left > 0 /\ left <= visible /\ (total > visible /\ visible > 1 => left = visible - 1)
    BY <1>5 DEF BodyRows
  <1>11. PICK a \in Nat, b \in Nat : w = Window(a, b) /\ a <= b /\ b - a <= left /\ b <= total
                                     /\ (total <= visible => a = 0 /\ b = total)
    <2>1. CASE total <= visible
      <3>1. w = Window(0, total) /\ left = visible
        BY <1>5, <1>9, <1>10, <2>1 DEF ModalWindow, BodyRows
      <3> QED BY <2>1, <3>1
    <2>2. CASE total > visible
      <3>1. PICK start : start = ClampModalScroll(scroll, total, left)
        OBVIOUS
      <3>2. start \in Nat /\ start <= total
        <4>1. PICK most \in Nat : most = AtLeast(total - left, 0) /\ most <= total
          BY DEF AtLeast
        <4> QED BY <3>1, <4>1 DEF ClampModalScroll, AtLeast, AtMost
      <3>3. PICK e : e = AtMost(start + left, total)
        OBVIOUS
      <3>4. e \in Nat /\ start <= e /\ e - start <= left /\ e <= total
        BY <3>2, <3>3 DEF AtMost
      <3>5. w = Window(start, e)
        BY <1>5, <1>9, <1>10, <2>2, <3>1, <3>3 DEF ModalWindow
      <3> QED BY <1>5, <2>2, <3>2, <3>4, <3>5
    <2> QED BY <1>5, <2>1, <2>2
  <1>12. PICK k \in Nat : k = b - a
    BY <1>11
  <1>13. PICK rows : rows = [i \in 1..k |-> RowLine(a + i - 1)]
    OBVIOUS
  <1>14. IsPart(rows, k, a..(a + k - 1), {})
    BY <1>13, RowsListed
  <1>15. PICK hint : hint = IF total > visible /\ visible > 1 THEN <<Line("note")>> ELSE <<>>
    OBVIOUS
  <1>16. PICK n \in {0, 1}, N \in SUBSET Note : IsPart(hint, n, {}, N) /\ (n = 1 => total > visible /\ visible > 1)
    <2>1. {} \in SUBSET Note /\ Note \in SUBSET Note
      OBVIOUS
    <2> QED BY <1>15, <2>1, OneLine
  <1>17. body = rows \o hint
    <2>1. body = [i \in 1..(w.end - w.start) |-> RowLine(w.start + i - 1)] \o hint
      BY <1>1, <1>2, <1>3, <1>4, <1>7, <1>8, <1>9, <1>15 DEF PageBody
    <2>2. w.start = a /\ w.end - w.start = k
      BY <1>11, <1>12 DEF Window
    <2> QED BY ONLY <1>13, <2>1, <2>2
  <1>18. IsPart(body, k + n, (a..(a + k - 1)) \cup {}, {} \cup N)
    BY <1>14, <1>16, <1>17, PartBelow
  <1>19. body \in Seq(ScreenLines) /\ Len(body) = k + n /\ RowsSeen(body) = a..(b - 1)
    <2>1. a + k - 1 = b - 1
      BY <1>12
    <2> QED BY <1>18, <2>1 DEF IsPart
  <1>20. h >= 3 + f + 1 => Len(body) + 3 + f <= h
    <2>1. k + n <= visible
      BY <1>5, <1>10, <1>11, <1>12, <1>16
    <2>2. h >= 3 + f + 1 => (k + n) + 3 + f <= h
      BY ONLY <1>5, <2>1, h \in Nat, f \in {1, 2}, k \in Nat, n \in {0, 1}
    <2> QED BY <1>19, <2>2
  <1>21. PageOverflows(s) <=> total > visible
    BY <1>2, <1>3, <1>5, <1>7 DEF PageOverflows
  <1>22. total > visible <=> a..(b - 1) # 0..(total - 1)
    <2>1. CASE total <= visible
      BY <1>5, <1>11, <2>1
    <2>2. CASE total > visible
      <3>1. b - a < total
        BY <1>5, <1>10, <1>11, <2>2
      <3>2. 0 \in 0..(total - 1) /\ total - 1 \in 0..(total - 1)
        BY <1>5, <2>2
      <3>3. ~(0 \in a..(b - 1) /\ total - 1 \in a..(b - 1))
        BY <3>1
      <3> QED BY <2>2, <3>2, <3>3
    <2> QED BY <1>5, <2>1, <2>2
  <1>23. Body("page", s) = body
    BY <1>1 DEF Body
  <1> QED BY <1>2, <1>3, <1>6, <1>19, <1>20, <1>21, <1>22, <1>7, <1>23 DEF BodyFits

\* The lines a repository's snapshots get, next to the panel and the note there is
\* room for, and all of them together.
LEMMA DetailBudget ==
  ASSUME NEW h \in Nat, NEW f \in {1, 2}, NEW p \in Nat
  PROVE  /\ PanelRows(h, f, p) \in Nat /\ NoteShown(h, f, p) \in BOOLEAN /\ DetailVisible(h, f, p) \in Nat /\ DetailVisible(h, f, p) > 0
         /\ h >= 14 + f => DetailVisible(h, f, p) + 13 + f + (IF NoteShown(h, f, p) THEN 1 ELSE 0)
                           + (IF PanelRows(h, f, p) > 0 THEN 1 + PanelRows(h, f, p) ELSE 0) = h
  <1> DEFINE panel == PanelRows(h, f, p)
             room == NoteShown(h, f, p)
             visible == DetailVisible(h, f, p)
  <1>1. panel \in Nat /\ (panel = 0 \/ h >= 13 + f + 1 + panel + 1)
    BY DEF PanelRows, PanelShown, DetailOverhead, Chrome
  <1>2. room \in BOOLEAN /\ (room <=> h >= 13 + f + 1 + (IF panel > 0 THEN 1 + panel ELSE 0) + 1)
    <2>1. room <=> h >= DetailOverhead(f, panel, TRUE) + 1
      BY Zenon DEF NoteShown
    <2>2. DetailOverhead(f, panel, TRUE) = 13 + f + 1 + (IF panel > 0 THEN 1 + panel ELSE 0)
      BY <1>1 DEF DetailOverhead, Chrome
    <2>3. room \in BOOLEAN
      BY DEF NoteShown
    <2> QED BY <2>1, <2>2, <2>3
  <1>3. visible = AtLeast(h - (13 + f + (IF room THEN 1 ELSE 0) + (IF panel > 0 THEN 1 + panel ELSE 0)), 1)
    BY <1>1 DEF DetailVisible, DetailOverhead, Chrome
  <1> HIDE DEF panel, room, visible
  <1>4. PICK more \in Nat : more = IF panel > 0 THEN 1 + panel ELSE 0
    BY <1>1
  <1>5. PICK note \in {0, 1} : note = (IF room THEN 1 ELSE 0) /\ (note = 1 <=> h >= 13 + f + 1 + more + 1)
    BY <1>2, <1>4
  <1>6. visible = AtLeast(h - (13 + f + note + more), 1) /\ (more = 0 \/ h >= 13 + f + more + 1)
    BY <1>1, <1>3, <1>4, <1>5
  <1>7. visible \in Nat /\ visible > 0 /\ (h >= 14 + f => visible + 13 + f + note + more = h)
    BY ONLY <1>5, <1>6, h \in Nat, f \in {1, 2}, more \in Nat DEF AtLeast
  <1> QED BY <1>1, <1>2, <1>4, <1>5, <1>7 DEF panel, room, visible

\* The details of a repository.
LEMMA DetailFits ==
  ASSUME NEW s, IsScreen(s)
  PROVE  BodyFits("detail", s, Body("detail", s))
  <1>1. PICK body : body = DetailBody(s)
    OBVIOUS
  <1>2. PICK f \in {1, 2} : f = Footer(s)
    BY FooterIs
  <1>3. PICK h \in Nat : h = s.h
    BY DEF IsScreen
  <1>4. PICK total \in Nat : total = TotalRows(s.lens)
    BY TotalType DEF IsScreen
  <1>5. s.grouped \in BOOLEAN /\ s.cursor \in Int /\ s.lens \in Seq(Nat) /\ s.panel \in Nat
    BY DEF IsScreen
  <1>6. PICK p \in Nat : p = SnapPanel(s) /\ (total = 0 => p = 0)
    BY <1>4, <1>5 DEF SnapPanel
  <1>7. PICK panel : panel = PanelRows(h, f, p)
    OBVIOUS
  <1>8. PICK room : room = NoteShown(h, f, p)
    OBVIOUS
  <1>9. PICK visible : visible = DetailVisible(h, f, p)
    OBVIOUS
  <1>10. /\ panel \in Nat /\ room \in BOOLEAN /\ visible \in Nat /\ visible > 0
         /\ h >= 14 + f => visible + 13 + f + (IF room THEN 1 ELSE 0) + (IF panel > 0 THEN 1 + panel ELSE 0) = h
    <2>1. /\ PanelRows(h, f, p) \in Nat /\ NoteShown(h, f, p) \in BOOLEAN /\ DetailVisible(h, f, p) \in Nat /\ DetailVisible(h, f, p) > 0
          /\ h >= 14 + f => DetailVisible(h, f, p) + 13 + f + (IF NoteShown(h, f, p) THEN 1 ELSE 0)
                            + (IF PanelRows(h, f, p) > 0 THEN 1 + PanelRows(h, f, p) ELSE 0) = h
      BY ONLY h \in Nat, f \in {1, 2}, p \in Nat, DetailBudget
    <2> QED BY ONLY <1>7, <1>8, <1>9, <2>1, Zenon
  <1>11. PICK note \in {0, 1}, more \in Nat : note = (IF room THEN 1 ELSE 0) /\ more = (IF panel > 0 THEN 1 + panel ELSE 0)
    BY <1>10
  <1>12. h >= 14 + f => visible + 13 + f + note + more = h
    BY <1>10, <1>11
  <1>13. total = 0 => panel = 0
    BY <1>6, <1>7 DEF PanelRows
  <1>14. PICK t : t = SnapTable(s)
    OBVIOUS
  <1>15. /\ t \in Seq(ScreenLines) /\ Len(t) <= 1 + visible + note
         /\ total > 0 => ClampCursor(s.cursor, total) \in RowsSeen(t)
    <2>1. CASE total = 0
      <3>1. t = <<Line("header"), Line("empty")>>
        BY <1>4, <1>14, <2>1 DEF SnapTable
      <3>2. PICK x, y : x = Line("header") /\ y = Line("empty")
        OBVIOUS
      <3>4. x \in ScreenLines /\ y \in ScreenLines
        BY <3>2 DEF Line, Token, ScreenLines, ScreenKinds
      <3>3. t \in Seq(ScreenLines) /\ Len(t) = 2
        BY ONLY <3>1, <3>2, <3>4
      <3> QED BY <1>10, <2>1, <3>3
    <2>2. CASE total # 0
      <3>1. t = IF s.grouped THEN GroupedTable(s.lens, s.cursor, visible, room) ELSE TableLines(total, s.cursor, visible, TRUE, room)
        BY <1>2, <1>3, <1>4, <1>6, <1>8, <1>9, <1>14, <2>2 DEF SnapTable
      <3>2. total > 0
        BY <2>2
      <3>3. IsTable(t, total, s.cursor, visible, room)
        <4>1. CASE s.grouped
          BY <1>4, <1>5, <1>10, <3>1, <3>2, <4>1, GroupTable
        <4>2. CASE ~s.grouped
          BY <1>5, <1>10, <3>1, <4>2, FlatTable
        <4> QED BY <1>5, <4>1, <4>2
      <3> QED BY <1>11, <3>3 DEF IsTable
    <2> QED BY <2>1, <2>2
  <1>16. PICK q \in Nat : q = Len(t)
    BY <1>15
  <1>17. IsPart(t, q, RowsSeen(t), NotesSeen(t))
    BY <1>15, <1>16 DEF IsPart
  <1>18. IsPart(DetailMeta, 7, {}, {})
    BY Filled DEF ScreenKinds, DetailMeta
  <1>19. IsPart(<<Line("blank"), Line("heading")>>, 2, {}, {})
    <2>1. IsPart(<<Line("blank")>>, 1, {}, {}) /\ IsPart(<<Line("heading")>>, 1, {}, {})
      BY OneLine DEF ScreenKinds
    <2>2. IsPart(<<Line("blank")>> \o <<Line("heading")>>, 1 + 1, {} \cup {}, {} \cup {})
      BY <2>1, PartBelow
    <2>3. 1 + 1 = 2 /\ {} \cup {} = {}
      OBVIOUS
    <2> QED BY ONLY <2>2, <2>3, TwoLines
  <1>20. PICK rest : rest = IF panel > 0 THEN <<Line("blank")>> \o Fill("panel", panel) ELSE <<>>
    OBVIOUS
  <1>21. IsPart(rest, more, {}, {})
    <2>1. CASE panel > 0
      <3>1. IsPart(<<Line("blank")>>, 1, {}, {}) /\ IsPart(Fill("panel", panel), panel, {}, {})
        BY <1>10, OneLine, Filled DEF ScreenKinds
      <3>2. IsPart(<<Line("blank")>> \o Fill("panel", panel), 1 + panel, {} \cup {}, {} \cup {})
        BY <3>1, PartBelow
      <3>3. more = 1 + panel /\ {} \cup {} = {}
        BY <1>11, <2>1
      <3> QED BY <1>20, <2>1, <3>2, <3>3
    <2>2. CASE ~(panel > 0)
      BY <1>11, <1>20, <2>2, OneLine
    <2> QED BY <2>1, <2>2
  <1>22. PICK u : u = DetailMeta \o <<Line("blank"), Line("heading")>>
    OBVIOUS
  <1>23. IsPart(u, 7 + 2, {} \cup {}, {} \cup {})
    BY <1>18, <1>19, <1>22, PartBelow
  <1>24. PICK v : v = u \o t
    OBVIOUS
  <1>25. IsPart(v, (7 + 2) + q, ({} \cup {}) \cup RowsSeen(t), ({} \cup {}) \cup NotesSeen(t))
    BY <1>17, <1>23, <1>24, PartBelow
  <1>26. IsPart(v \o rest, ((7 + 2) + q) + more, (({} \cup {}) \cup RowsSeen(t)) \cup {}, (({} \cup {}) \cup NotesSeen(t)) \cup {})
    BY <1>21, <1>25, PartBelow
  <1>27. body = v \o rest
    <2>1. body = DetailMeta \o <<Line("blank"), Line("heading")>> \o SnapTable(s)
                 \o (IF panel > 0 THEN <<Line("blank")>> \o Fill("panel", panel) ELSE <<>>)
      BY <1>1, <1>2, <1>3, <1>6, <1>7 DEF DetailBody
    <2> QED BY ONLY <1>14, <1>20, <1>22, <1>24, <2>1
  <1>28. body \in Seq(ScreenLines) /\ Len(body) = 9 + q + more /\ RowsSeen(body) = RowsSeen(t)
    BY <1>26, <1>27 DEF IsPart
  <1>29. LeastHeight("detail", s) = 3 + f + 11
    BY <1>2 DEF LeastHeight, Chrome
  <1>30. h >= 3 + f + 11 => Len(body) + 3 + f <= h
    BY <1>10, <1>12, <1>15, <1>16, <1>28
  <1>31. Body("detail", s) = body
    BY <1>1 DEF Body
  <1>32. total > 0 => ClampCursor(s.cursor, total) \in RowsSeen(body)
    BY <1>15, <1>28
  <1> QED BY <1>2, <1>3, <1>4, <1>28, <1>29, <1>30, <1>31, <1>32 DEF BodyFits

\* Every screen fills the terminal to the line where the terminal has room for it,
\* has the selected row, and says so where rows are missing, for lists of any length
\* in any sections, any height, cursor and panel, with a prompt and without (list.go,
\* frame; layout.go; detail.go, detailSnapDetailVisible; group.go, scrollNote).
THEOREM ScreensFit ==
  ASSUME NEW screen \in {"list", "browse", "find", "diff", "detail", "page"}, NEW s, IsScreen(s)
  PROVE  ScreenFits(screen, s)
  <1>1. PICK total \in Nat : total = TotalRows(s.lens)
    BY TotalType DEF IsScreen
  <1>2. s.waits \in BOOLEAN /\ s.prompt \in BOOLEAN
    BY DEF IsScreen
  <1>3. IsPart(<<>>, 0, {}, {}) /\ IsPart(<<Line("header")>>, 1, {}, {})
    BY OneLine DEF ScreenKinds
  <1>4. <<>> \in Seq(ScreenLines) /\ Len(<<>>) = 0 /\ <<Line("header")>> \in Seq(ScreenLines) /\ Len(<<Line("header")>>) = 1
    BY <1>3 DEF IsPart
  <1>5. Fill("meta", 2) = Fill("meta", 2) \o <<>>
    <2>1. Fill("meta", 2) \in Seq(ScreenLines)
      BY Filled DEF ScreenKinds, IsPart
    <2>2. \A T : \A x \in Seq(T) : x \o <<>> = x
      OBVIOUS
    <2> QED BY <2>1, <2>2
  <1>6. CASE screen = "browse"
    <2>1. PICK e \in BOOLEAN : e = ~s.prompt
      OBVIOUS
    <2>2. Body(screen, s) = Fill("meta", 2) \o
             (IF s.waits THEN <<>> ELSE TableLines(total, s.cursor, TableVisible(s.h, Footer(s), 2), e, TRUE))
      BY <1>1, <1>5, <1>6, <2>1 DEF Body, BrowseBody
    <2>3. BodyFits(screen, s, Body(screen, s))
      <3>1. screen \in {"browse", "find", "diff"} /\ <<>> \in Seq(ScreenLines) /\ Len(<<>>) <= 1
        BY <1>4, <1>6
      <3> QED BY ONLY IsScreen(s), <1>1, <2>1, <2>2, <3>1, TableScreen
    <2> QED BY <2>3, FitsIf
  <1>7. CASE screen = "diff"
    <2>1. PICK e \in BOOLEAN : e = ~s.prompt
      OBVIOUS
    <2>2. Body(screen, s) = Fill("meta", 2) \o
             (IF s.waits THEN <<>> ELSE TableLines(total, s.cursor, TableVisible(s.h, Footer(s), 2), e, TRUE))
      BY <1>1, <1>5, <1>7, <2>1 DEF Body, DiffBody
    <2>3. BodyFits(screen, s, Body(screen, s))
      <3>1. screen \in {"browse", "find", "diff"} /\ <<>> \in Seq(ScreenLines) /\ Len(<<>>) <= 1
        BY <1>4, <1>7
      <3> QED BY ONLY IsScreen(s), <1>1, <2>1, <2>2, <3>1, TableScreen
    <2> QED BY <2>3, FitsIf
  <1>8. CASE screen = "find"
    <2>1. Body(screen, s) = Fill("meta", 2) \o
             (IF s.waits THEN <<Line("header")>> ELSE TableLines(total, s.cursor, TableVisible(s.h, Footer(s), 2), FALSE, TRUE))
      BY <1>1, <1>8 DEF Body, FindBody
    <2>2. BodyFits(screen, s, Body(screen, s))
      <3>1. screen \in {"browse", "find", "diff"} /\ <<Line("header")>> \in Seq(ScreenLines) /\ Len(<<Line("header")>>) <= 1
        BY <1>4, <1>8
      <3> QED BY ONLY IsScreen(s), <1>1, <2>1, <3>1, TableScreen
    <2> QED BY <2>2, FitsIf
  <1>9. CASE screen = "list"
    BY <1>9, ListFits, FitsIf
  <1>10. CASE screen = "detail"
    BY <1>10, DetailFits, FitsIf
  <1>11. CASE screen = "page"
    BY <1>11, PageFits, FitsIf
  <1> QED BY <1>6, <1>7, <1>8, <1>9, <1>10, <1>11

-----------------------------------------------------------------------------
(* Rows in another order, or fewer of them.                                *)

\* As many places have a mark as have it in the places they came from.
LEMMA AsMany ==
  ASSUME NEW A, NEW B, IsFiniteSet(A), NEW at \in Bijection(A, B), NEW P \in SUBSET B
  PROVE  Cardinality({a \in A : at[a] \in P}) = Cardinality(P)
  <1> DEFINE Q == {a \in A : at[a] \in P}
             back == [a \in Q |-> at[a]]
  <1>1. /\ at \in [A -> B] /\ (\A a, b \in A : at[a] = at[b] => a = b) /\ \A b \in B : \E a \in A : at[a] = b
    BY DEF Bijection, Injection, IsInjective, Surjection
  <1>2. back \in [Q -> P]
    OBVIOUS
  <1>3. \A a, b \in Q : back[a] = back[b] => a = b
    BY <1>1
  <1>4. \A b \in P : \E a \in Q : back[a] = b
    BY <1>1
  <1>5. Q \in SUBSET A
    OBVIOUS
  <1> HIDE DEF back, Q
  <1>6. IsFiniteSet(Q)
    BY <1>5, FS_Subset
  <1>7. ExistsBijection(Q, P)
    BY <1>2, <1>3, <1>4 DEF ExistsBijection, Bijection, Injection, IsInjective, Surjection
  <1>8. Cardinality(P) = Cardinality(Q)
    BY <1>6, <1>7, FS_Bijection
  <1> QED BY <1>8 DEF Q

\* Where the elements of sections are.
Spots(ss) == UNION {{i} \X DOMAIN ss[i] : i \in DOMAIN ss}

\* FlattenSeq moves each element of each section to a place of its own.
LEMMA FlatPlaces ==
  ASSUME NEW V, NEW ss \in Seq(Seq(V))
  PROVE  /\ FlattenSeq(ss) \in Seq(V)
         /\ \E at \in Bijection(DOMAIN FlattenSeq(ss), Spots(ss)) :
               \A k \in DOMAIN FlattenSeq(ss) : FlattenSeq(ss)[k] = ss[at[k][1]][at[k][2]]
  <1> DEFINE n == Len(ss)
  <1>1. n \in Nat /\ DOMAIN ss = 1..n /\ \A i \in 1..n : ss[i] \in Seq(V)
    OBVIOUS
  <1>2. PICK f \in [0..n -> Seq(V)] :
            f[0] = <<>> /\ (\A i \in 1..n : f[i] = f[i - 1] \o ss[i]) /\ FlattenSeq(ss) = f[n]
    BY FlatIterates
  <1> HIDE DEF n
  <1> DEFINE S(m) == {p \in Spots(ss) : p[1] <= m}
             Moved(at, m) == /\ at \in [1..Len(f[m]) -> S(m)]
                             /\ \A j, k \in 1..Len(f[m]) : at[j] = at[k] => j = k
                             /\ \A p \in S(m) : \E k \in 1..Len(f[m]) : at[k] = p
                             /\ \A k \in 1..Len(f[m]) : f[m][k] = ss[at[k][1]][at[k][2]]
             Q == {m \in 0..n : \E at : Moved(at, m)}
  <1>3. \A p : p \in Spots(ss) <=> \E i \in 1..n : \E j \in 1..Len(ss[i]) : p = <<i, j>>
    <2>1. \A i \in 1..n : DOMAIN ss[i] = 1..Len(ss[i])
      BY <1>1
    <2> QED BY <1>1, <2>1 DEF Spots
  <1>4. 0 \in Q
    <2>1. S(0) = {}
      BY <1>1, <1>3
    <2>2. Len(f[0]) = 0 /\ 1..0 = {}
      BY <1>2
    <2> DEFINE none == [k \in {} |-> 0]
    <2>3. none \in [{} -> S(0)]
      OBVIOUS
    <2> HIDE DEF none, S
    <2>4. Moved(none, 0)
      BY <2>1, <2>2, <2>3
    <2> HIDE DEF Moved
    <2>5. 0 \in 0..n
      BY <1>1
    <2> QED BY <2>4, <2>5
  <1>5. ASSUME NEW m \in 0..(n - 1), m \in Q PROVE m + 1 \in Q
    <2>1. PICK at : Moved(at, m)
      BY <1>5
    <2>2. PICK i : i = m + 1
      OBVIOUS
    <2>3. i \in 1..n /\ i - 1 = m /\ i \in 0..n /\ m \in Nat /\ m \in 0..n
      BY <1>1, <2>2
    <2>4. PICK a, b, both : a = f[m] /\ b = ss[i] /\ both = f[i]
      OBVIOUS
    <2>5. a \in Seq(V) /\ b \in Seq(V) /\ both = a \o b
      BY <1>1, <1>2, <2>3, <2>4
    <2>6. PICK la, lb : la = Len(a) /\ lb = Len(b)
      OBVIOUS
    <2>7. la \in Nat /\ lb \in Nat /\ Len(both) = la + lb
          /\ \A k \in 1..(la + lb) : both[k] = IF k <= la THEN a[k] ELSE b[k - la]
      BY ONLY <2>5, <2>6
    <2> DEFINE to == [k \in 1..(la + lb) |-> IF k <= la THEN at[k] ELSE <<i, k - la>>]
    <2>8. /\ \A k \in 1..la : at[k] \in S(m) /\ a[k] = ss[at[k][1]][at[k][2]]
          /\ (\A j, k \in 1..la : at[j] = at[k] => j = k) /\ \A p \in S(m) : \E k \in 1..la : at[k] = p
      <3> HIDE DEF S
      <3> QED BY <2>1, <2>4, <2>6
    <2>9. \A p : p \in S(i) <=> p \in S(m) \/ \E j \in 1..lb : p = <<i, j>>
      <3>1. \A p \in S(i) : p \in S(m) \/ \E j \in 1..lb : p = <<i, j>>
        <4> SUFFICES ASSUME NEW p \in S(i), p \notin S(m) PROVE \E j \in 1..lb : p = <<i, j>>
          OBVIOUS
        <4>1. PICK h \in 1..n : \E j \in 1..Len(ss[h]) : p = <<h, j>>
          BY <1>3
        <4>2. p[1] = h /\ h <= i /\ ~(h <= m)
          BY <4>1
        <4>3. h = i
          BY <2>2, <2>3, <4>2
        <4> QED BY <2>4, <2>6, <4>1, <4>3
      <3>2. \A p \in S(m) : p \in S(i)
        <4> SUFFICES ASSUME NEW p \in S(m) PROVE p[1] <= i
          OBVIOUS
        <4>1. p[1] \in Nat
          BY <1>3
        <4> QED BY <2>2, <2>3, <4>1
      <3>3. \A j \in 1..lb : <<i, j>> \in S(i)
        BY <1>3, <2>3, <2>4, <2>6
      <3> QED BY <3>1, <3>2, <3>3
    <2>10. \A p \in S(m) : \A j : p # <<i, j>>
      <3>1. \A p \in S(m) : p[1] <= m
        OBVIOUS
      <3>2. ~(i <= m)
        BY <2>2, <2>3
      <3> HIDE DEF S
      <3> QED BY <3>1, <3>2
    <2> HIDE DEF S
    <2>11. to \in [1..(la + lb) -> S(i)]
      <3> SUFFICES ASSUME NEW k \in 1..(la + lb) PROVE (IF k <= la THEN at[k] ELSE <<i, k - la>>) \in S(i)
        OBVIOUS
      <3>1. CASE k <= la
        BY <2>7, <2>8, <2>9, <3>1
      <3>2. CASE ~(k <= la)
        <4>1. k - la \in 1..lb
          BY <2>7, <3>2
        <4> QED BY <2>9, <3>2, <4>1
      <3> QED BY <3>1, <3>2
    <2>12. ASSUME NEW j \in 1..(la + lb), NEW k \in 1..(la + lb), to[j] = to[k] PROVE j = k
      <3>1. CASE j <= la /\ k <= la
        BY <2>7, <2>8, <2>12, <3>1
      <3>2. CASE j <= la /\ ~(k <= la)
        <4>1. at[j] = <<i, k - la>> /\ at[j] \in S(m)
          BY <2>7, <2>8, <2>12, <3>2
        <4> QED BY <2>10, <4>1
      <3>3. CASE ~(j <= la) /\ k <= la
        <4>1. at[k] = <<i, j - la>> /\ at[k] \in S(m)
          BY <2>7, <2>8, <2>12, <3>3
        <4> QED BY <2>10, <4>1
      <3>4. CASE ~(j <= la) /\ ~(k <= la)
        <4>1. <<i, j - la>> = <<i, k - la>>
          BY <2>12, <3>4
        <4>2. j - la = k - la
          BY <4>1
        <4> QED BY <2>7, <4>2
      <3> QED BY <3>1, <3>2, <3>3, <3>4
    <2>13. ASSUME NEW p \in S(i) PROVE \E k \in 1..(la + lb) : to[k] = p
      <3>1. CASE p \in S(m)
        <4>1. PICK k \in 1..la : at[k] = p
          BY <2>8, <3>1
        <4>2. k \in 1..(la + lb) /\ k <= la
          BY <2>7
        <4> QED BY <4>1, <4>2
      <3>2. CASE \E j \in 1..lb : p = <<i, j>>
        <4>1. PICK j \in 1..lb : p = <<i, j>>
          BY <3>2
        <4>2. la + j \in 1..(la + lb) /\ ~(la + j <= la) /\ (la + j) - la = j
          BY <2>7
        <4>3. to[la + j] = p
          BY <4>1, <4>2
        <4> QED BY <4>2, <4>3
      <3> QED BY <2>9, <3>1, <3>2
    <2>14. ASSUME NEW k \in 1..(la + lb) PROVE both[k] = ss[to[k][1]][to[k][2]]
      <3>1. CASE k <= la
        <4>1. k \in 1..la
          BY ONLY <2>7, <3>1, k \in 1..(la + lb)
        <4>2. to[k] = at[k]
          BY <3>1
        <4> QED BY <2>7, <2>8, <4>1, <4>2
      <3>2. CASE ~(k <= la)
        BY <2>4, <2>7, <3>2
      <3> QED BY <3>1, <3>2
    <2> HIDE DEF to
    <2>15. Moved(to, i)
      BY <2>4, <2>7, <2>11, <2>12, <2>13, <2>14
    <2> HIDE DEF Moved
    <2> QED BY <2>2, <2>3, <2>15
  <1> HIDE DEF Q
  <1>6. \A m \in 0..n : m \in Q
    BY ONLY <1>1, <1>4, <1>5, Induction
  <1>7. PICK at : Moved(at, n)
    <2>1. n \in Q
      BY <1>1, <1>6
    <2> HIDE DEF Moved
    <2> QED BY <2>1 DEF Q
  <1>8. S(n) = Spots(ss)
    BY <1>1, <1>3
  <1>9. f[n] \in Seq(V) /\ DOMAIN f[n] = 1..Len(f[n])
    BY <1>1, <1>2
  <1> HIDE DEF S
  <1>10. at \in Bijection(1..Len(f[n]), Spots(ss))
    BY <1>7, <1>8 DEF Bijection, Injection, IsInjective, Surjection
  <1>11. FlattenSeq(ss) = f[n]
    BY <1>2
  <1>12. \A k \in 1..Len(f[n]) : f[n][k] = ss[at[k][1]][at[k][2]]
    BY <1>7
  <1>13. PICK flat : flat = f[n]
    OBVIOUS
  <1> QED BY ONLY <1>9, <1>10, <1>11, <1>12, <1>13

\* What is kept comes from the places that are kept, one from each.
LEMMA KeptPlaces ==
  ASSUME NEW T, NEW s \in Seq(T), NEW keep \in [DOMAIN s -> BOOLEAN]
  PROVE  /\ KeptOf(s, keep) \in Seq(T)
         /\ \E at \in Bijection(DOMAIN KeptOf(s, keep), {i \in DOMAIN s : keep[i]}) :
               \A k \in DOMAIN KeptOf(s, keep) : KeptOf(s, keep)[k] = s[at[k]]
  <1> DEFINE ss == [i \in DOMAIN s |-> IF keep[i] THEN <<s[i]>> ELSE <<>>]
             P == {i \in DOMAIN s : keep[i]}
             kept == KeptOf(s, keep)
  <1>1. \A i \in DOMAIN s : s[i] \in T
    OBVIOUS
  <1>2. ss \in Seq(Seq(T)) /\ DOMAIN ss = DOMAIN s
    <2>1. \A x \in T : <<x>> \in Seq(T)
      OBVIOUS
    <2>2. <<>> \in Seq(T)
      OBVIOUS
    <2>3. \A i \in DOMAIN s : (IF keep[i] THEN <<s[i]>> ELSE <<>>) \in Seq(T)
      BY ONLY <1>1, <2>1, <2>2
    <2>4. ss \in [1..Len(s) -> Seq(T)] /\ Len(s) \in Nat /\ DOMAIN s = 1..Len(s)
      BY <2>3
    <2> QED BY <2>4
  <1>3. kept = FlattenSeq(ss)
    BY DEF KeptOf
  <1>4. \A i \in DOMAIN s : ss[i] = IF keep[i] THEN <<s[i]>> ELSE <<>>
    OBVIOUS
  <1> HIDE DEF ss, kept
  <1>5. kept \in Seq(T) /\ \E to \in Bijection(DOMAIN kept, Spots(ss)) : \A k \in DOMAIN kept : kept[k] = ss[to[k][1]][to[k][2]]
    BY <1>2, <1>3, FlatPlaces
  <1>6. PICK to \in Bijection(DOMAIN kept, Spots(ss)) : \A k \in DOMAIN kept : kept[k] = ss[to[k][1]][to[k][2]]
    BY <1>5
  <1>7. \A p : p \in Spots(ss) <=> \E i \in P : p = <<i, 1>>
    <2>0. DOMAIN <<>> = {} /\ \A x : DOMAIN <<x>> = {1}
      OBVIOUS
    <2>1. \A i \in DOMAIN s : ~keep[i] => DOMAIN ss[i] = {}
      BY ONLY <1>4, <2>0
    <2>2. \A i \in DOMAIN s : keep[i] => DOMAIN ss[i] = {1}
      BY ONLY <1>4, <2>0
    <2>3. \A p : p \in Spots(ss) <=> \E i \in DOMAIN s : p \in {i} \X DOMAIN ss[i]
      BY <1>2 DEF Spots
    <2>4. \A i \in DOMAIN s : \A p : p \in {i} \X DOMAIN ss[i] <=> keep[i] /\ p = <<i, 1>>
      BY <2>1, <2>2
    <2> QED BY ONLY <2>3, <2>4
  <1>8. /\ to \in [DOMAIN kept -> Spots(ss)] /\ (\A j, k \in DOMAIN kept : to[j] = to[k] => j = k)
        /\ \A p \in Spots(ss) : \E k \in DOMAIN kept : to[k] = p
    BY <1>6 DEF Bijection, Injection, IsInjective, Surjection
  <1> DEFINE at == [k \in DOMAIN kept |-> to[k][1]]
  <1>9. \A k \in DOMAIN kept : at[k] \in P /\ to[k] = <<at[k], 1>>
    BY <1>7, <1>8
  <1>13. at \in [DOMAIN kept -> P]
    BY <1>9
  <1> HIDE DEF at, P
  <1>10. \A j, k \in DOMAIN kept : at[j] = at[k] => j = k
    BY ONLY <1>8, <1>9
  <1>11. \A i \in P : \E k \in DOMAIN kept : at[k] = i
    <2> SUFFICES ASSUME NEW i \in P PROVE \E k \in DOMAIN kept : at[k] = i
      OBVIOUS
    <2>1. <<i, 1>> \in Spots(ss)
      BY <1>7
    <2>2. PICK k \in DOMAIN kept : to[k] = <<i, 1>>
      BY <1>8, <2>1
    <2>3. to[k] = <<at[k], 1>>
      BY <1>9
    <2>4. at[k] = i
      BY ONLY <2>2, <2>3
    <2> QED BY <2>4
  <1>12. \A k \in DOMAIN kept : kept[k] = s[at[k]]
    <2> SUFFICES ASSUME NEW k \in DOMAIN kept PROVE kept[k] = s[at[k]]
      OBVIOUS
    <2>1. at[k] \in P /\ to[k] = <<at[k], 1>>
      BY <1>9
    <2>2. kept[k] = ss[at[k]][1]
      BY <1>6, <2>1
    <2>3. at[k] \in DOMAIN s /\ keep[at[k]]
      BY <2>1 DEF P
    <2>4. ss[at[k]] = <<s[at[k]]>>
      BY ONLY <1>4, <2>3
    <2> QED BY ONLY <2>2, <2>4
  <1>14. at \in Bijection(DOMAIN kept, P)
    BY <1>10, <1>11, <1>13 DEF Bijection, Injection, IsInjective, Surjection
  <1> QED BY <1>5, <1>12, <1>14 DEF kept, P

-----------------------------------------------------------------------------
(* Stable sorting. *)

\* What a stable sort puts before what: the order, and among what it leaves open
\* the places the elements have.
GoesFirst(before, D) == {p \in D \X D : p \in before \/ (<<p[2], p[1]>> \notin before /\ p[1] < p[2])}

\* Who comes before another has fewer before it.
LEMMA FewerBefore ==
  ASSUME NEW S, IsFiniteSet(S), NEW R, IsTotalOrder(R, S), NEW x \in S, NEW y \in S, <<x, y>> \in R
  PROVE  Cardinality(Before(R, S, x)) < Cardinality(Before(R, S, y))
  <1>1. Before(R, S, x) \cup {x} \in SUBSET Before(R, S, y) /\ x \notin Before(R, S, x)
    BY DEF Before, IsTotalOrder
  <1>2. IsFiniteSet(Before(R, S, x)) /\ IsFiniteSet(Before(R, S, y))
    <2>1. Before(R, S, x) \in SUBSET S /\ Before(R, S, y) \in SUBSET S
      BY DEF Before
    <2> QED BY <2>1, FS_Subset
  <1>3. Cardinality(Before(R, S, x) \cup {x}) = Cardinality(Before(R, S, x)) + 1
    BY <1>1, <1>2, FS_AddElement
  <1>4. Cardinality(Before(R, S, x) \cup {x}) <= Cardinality(Before(R, S, y))
    BY <1>1, <1>2, FS_Subset
  <1>5. Cardinality(Before(R, S, x)) \in Nat /\ Cardinality(Before(R, S, y)) \in Nat
    BY <1>2, FS_CardinalityType
  <1> QED BY <1>3, <1>4, <1>5

\* A sorted sequence has the elements it had, in order.
LEMMA StablySorted ==
  ASSUME NEW T, NEW s \in Seq(T), NEW before, IsTotalOrder(GoesFirst(before, DOMAIN s), DOMAIN s)
  PROVE  /\ StableSorted(s, before) \in Seq(T) /\ DOMAIN StableSorted(s, before) = DOMAIN s
         /\ \E at \in Bijection(DOMAIN s, DOMAIN s) :
               /\ \A r \in DOMAIN s : StableSorted(s, before)[r] = s[at[r]]
               /\ \A q, r \in DOMAIN s : q < r => <<at[q], at[r]>> \in GoesFirst(before, DOMAIN s)
  <1> DEFINE D == DOMAIN s
             n == Len(s)
             R == GoesFirst(before, D)
             ahead(j) == {i \in D : <<i, j>> \in before \/ (<<j, i>> \notin before /\ i < j)}
             at == [r \in D |-> CHOOSE j \in D : Cardinality(ahead(j)) = r - 1]
  <1>1. n \in Nat /\ D = 1..n /\ \A i \in D : s[i] \in T
    OBVIOUS
  <1>2. IsFiniteSet(D) /\ Cardinality(D) = n
    BY <1>1, FS_Interval
  <1>3. \A j \in D : ahead(j) = Before(R, D, j)
    BY DEF GoesFirst, Before
  <1>4. StableSorted(s, before) = [r \in D |-> s[at[r]]]
    BY DEF StableSorted
  <1>5. IsTotalOrder(R, D)
    OBVIOUS
  <1> HIDE DEF R
  <1>6. ASSUME NEW r \in D PROVE at[r] \in D /\ Cardinality(Before(R, D, at[r])) = r - 1
    <2>1. r - 1 \in 0..(n - 1)
      BY <1>1
    <2>2. \E j \in D : Cardinality(Before(R, D, j)) = r - 1
      BY <1>2, <1>5, <2>1, Ranks
    <2>3. \E j \in D : Cardinality(ahead(j)) = r - 1
      BY <1>3, <2>2
    <2>4. at[r] = CHOOSE j \in D : Cardinality(ahead(j)) = r - 1
      OBVIOUS
    <2> HIDE DEF ahead, at, D
    <2>5. at[r] \in D /\ Cardinality(ahead(at[r])) = r - 1
      BY ONLY <2>3, <2>4
    <2> QED BY <1>3, <2>5
  <1> HIDE DEF at, ahead, D, n
  <1>7. at = [r \in D |-> at[r]]
    BY DEF at
  <1>8. at \in [D -> D] /\ \A q, r \in D : at[q] = at[r] => q = r
    <2>1. at \in [D -> D]
      BY <1>6, <1>7
    <2>2. ASSUME NEW q \in D, NEW r \in D, at[q] = at[r] PROVE q = r
      <3>1. q - 1 = r - 1
        BY <1>6, <2>2
      <3> QED BY <1>1, <3>1
    <2> QED BY <2>1, <2>2
  <1>9. at \in Bijection(D, D)
    <2>1. at \in Injection(D, D)
      BY <1>8 DEF Injection, IsInjective
    <2>2. at \in Surjection(D, D)
      BY <1>2, <2>1, FS_Injection
    <2> QED BY <2>1, <2>2 DEF Bijection
  <1>10. ASSUME NEW q \in D, NEW r \in D, q < r PROVE <<at[q], at[r]>> \in R
    <2>1. at[q] # at[r]
      BY <1>1, <1>8, <1>10
    <2>2. ASSUME <<at[r], at[q]>> \in R PROVE FALSE
      <3>1. r - 1 < q - 1
        BY <1>2, <1>5, <1>6, <2>2, FewerBefore
      <3> QED BY <1>1, <1>10, <3>1
    <2> QED BY <1>5, <1>6, <2>1, <2>2 DEF IsTotalOrder
  <1>11. [r \in D |-> s[at[r]]] \in Seq(T)
    <2>1. \A r \in D : s[at[r]] \in T
      BY <1>1, <1>6
    <2> QED BY <1>1, <2>1
  <1>12. DOMAIN StableSorted(s, before) = D /\ \A r \in D : StableSorted(s, before)[r] = s[at[r]]
    BY <1>4
  <1> QED BY <1>4, <1>9, <1>10, <1>11, <1>12 DEF D, R

\* To sort by falling numbers is such an order.
LEMMA FallingOrder ==
  ASSUME NEW n \in Nat, NEW time \in [1..n -> Int]
  PROVE  IsTotalOrder(GoesFirst({p \in (1..n) \X (1..n) : time[p[1]] > time[p[2]]}, 1..n), 1..n)
  <1> DEFINE before == {p \in (1..n) \X (1..n) : time[p[1]] > time[p[2]]}
             R == GoesFirst(before, 1..n)
  <1>1. \A i, j \in 1..n : <<i, j>> \in R <=> time[i] > time[j] \/ (~(time[j] > time[i]) /\ i < j)
    BY DEF GoesFirst
  <1>2. \A i \in 1..n : time[i] \in Int /\ i \in Int
    OBVIOUS
  <1> HIDE DEF R
  <1>3. \A i, j, k \in 1..n : <<i, j>> \in R /\ <<j, k>> \in R => <<i, k>> \in R
    <2> SUFFICES ASSUME NEW i \in 1..n, NEW j \in 1..n, NEW k \in 1..n, <<i, j>> \in R, <<j, k>> \in R PROVE <<i, k>> \in R
      OBVIOUS
    <2>1. PICK a, b, c : a = time[i] /\ b = time[j] /\ c = time[k]
      OBVIOUS
    <2>2. a \in Int /\ b \in Int /\ c \in Int /\ i \in Int /\ j \in Int /\ k \in Int
      BY <1>2, <2>1
    <2>3. (a > b \/ (~(b > a) /\ i < j)) /\ (b > c \/ (~(c > b) /\ j < k))
      BY <1>1, <2>1
    <2>4. a > c \/ (~(c > a) /\ i < k)
      BY ONLY <2>2, <2>3
    <2> QED BY <1>1, <2>1, <2>4
  <1>4. \A i \in 1..n : <<i, i>> \notin R
    BY ONLY <1>1, <1>2
  <1>5. \A i, j \in 1..n : i = j \/ <<i, j>> \in R \/ <<j, i>> \in R
    <2> SUFFICES ASSUME NEW i \in 1..n, NEW j \in 1..n PROVE i = j \/ <<i, j>> \in R \/ <<j, i>> \in R
      OBVIOUS
    <2>1. PICK a, b : a = time[i] /\ b = time[j]
      OBVIOUS
    <2>2. a \in Int /\ b \in Int /\ i \in Int /\ j \in Int
      BY <1>2, <2>1
    <2>3. i = j \/ (a > b \/ (~(b > a) /\ i < j)) \/ (b > a \/ (~(a > b) /\ j < i))
      BY ONLY <2>2
    <2> QED BY <1>1, <2>1, <2>3
  <1> QED BY <1>3, <1>4, <1>5 DEF IsTotalOrder, R

-----------------------------------------------------------------------------
(* Versions of a file. *)

\* Newest first is every element as before, the later times in front.
LEMMA Newest ==
  ASSUME NEW T, NEW s \in Seq(T), NEW time \in [DOMAIN s -> Int]
  PROVE  /\ LatestFirst(s, time) \in Seq(T) /\ DOMAIN LatestFirst(s, time) = DOMAIN s
         /\ \E at \in Bijection(DOMAIN s, DOMAIN s) :
               /\ \A r \in DOMAIN s : LatestFirst(s, time)[r] = s[at[r]]
               /\ \A q, r \in DOMAIN s : q < r => time[at[q]] >= time[at[r]]
  <1> DEFINE n == Len(s)
             before == {p \in (DOMAIN s) \X (DOMAIN s) : time[p[1]] > time[p[2]]}
  <1>1. n \in Nat /\ DOMAIN s = 1..n
    OBVIOUS
  <1> HIDE DEF n
  <1>2. IsTotalOrder(GoesFirst(before, DOMAIN s), DOMAIN s)
    BY <1>1, FallingOrder
  <1>3. LatestFirst(s, time) = StableSorted(s, before)
    BY DEF LatestFirst
  <1>4. \A i, j \in DOMAIN s : <<i, j>> \in GoesFirst(before, DOMAIN s) => time[i] >= time[j]
    <2> SUFFICES ASSUME NEW i \in DOMAIN s, NEW j \in DOMAIN s, <<i, j>> \in GoesFirst(before, DOMAIN s) PROVE time[i] >= time[j]
      OBVIOUS
    <2>1. <<i, j>> \in before \/ <<j, i>> \notin before
      BY DEF GoesFirst
    <2>2. time[i] > time[j] \/ ~(time[j] > time[i])
      BY <2>1
    <2>3. time[i] \in Int /\ time[j] \in Int
      OBVIOUS
    <2> QED BY ONLY <2>2, <2>3
  <1> HIDE DEF before
  <1>5. PICK at \in Bijection(DOMAIN s, DOMAIN s) :
               /\ \A r \in DOMAIN s : StableSorted(s, before)[r] = s[at[r]]
               /\ \A q, r \in DOMAIN s : q < r => <<at[q], at[r]>> \in GoesFirst(before, DOMAIN s)
    BY <1>2, StablySorted
  <1>6. \A r \in DOMAIN s : at[r] \in DOMAIN s
    BY DEF Bijection, Injection
  <1>7. StableSorted(s, before) \in Seq(T) /\ DOMAIN StableSorted(s, before) = DOMAIN s
    BY <1>2, StablySorted
  <1>8. \A q, r \in DOMAIN s : q < r => time[at[q]] >= time[at[r]]
    BY ONLY <1>4, <1>5, <1>6
  <1>9. \A r \in DOMAIN s : LatestFirst(s, time)[r] = s[at[r]]
    BY <1>3, <1>5
  <1> QED BY <1>3, <1>7, <1>8, <1>9

MatchKeys(M) == {Key(m) : m \in M}
\* Where a version is met in a snapshot.
Met(results) == UNION {{i} \X DOMAIN results[i].matches : i \in DOMAIN results}
MatchAt(results, p) == results[p[1]].matches[p[2]]
MetAs(results, path, s, k) ==
    {p \in Met(results) : results[p[1]].snapshot = s /\ Counts(MatchAt(results, p), path) /\ Key(MatchAt(results, p)) = k}

\* Each hit comes from a match that counts, and each such match is one hit.
CountedOnce(hits, results, path) ==
    \E to \in Bijection(DOMAIN hits, {p \in Met(results) : Counts(MatchAt(results, p), path)}) :
       \A h \in DOMAIN hits :
          hits[h] = [snapshot |-> results[to[h][1]].snapshot, key |-> Key(MatchAt(results, to[h]))]
\* Each occurrence is a hit with that key, and each such hit is one occurrence.
OccurOnce(occ, hits, k) ==
    \E at \in Bijection(DOMAIN occ, {h \in DOMAIN hits : hits[h].key = k}) :
       \A n \in DOMAIN occ : occ[n] = hits[at[n]].snapshot

\* The hits are the matches that count, in some order.
LEMMA HitsAsMany ==
  ASSUME NEW S, NEW M, NEW results \in Seq([snapshot : S, matches : Seq(M)]), NEW path
  PROVE  /\ Hits(results, path) \in Seq([snapshot : S, key : MatchKeys(M)])
         /\ CountedOnce(Hits(results, path), results, path)
  <1> DEFINE V == [snapshot : S, match : M]
             W == [snapshot : S, key : MatchKeys(M)]
             ss == [i \in DOMAIN results |->
                      [j \in DOMAIN results[i].matches |-> [snapshot |-> results[i].snapshot, match |-> results[i].matches[j]]]]
             met == FlattenSeq(ss)
             items == [n \in DOMAIN met |-> [snapshot |-> met[n].snapshot, key |-> Key(met[n].match)]]
             keep == [n \in DOMAIN met |-> Counts(met[n].match, path)]
             hits == KeptOf(items, keep)
             C == {p \in Met(results) : Counts(MatchAt(results, p), path)}
  <1>1. /\ Len(results) \in Nat /\ DOMAIN results = 1..Len(results)
        /\ \A i \in DOMAIN results : results[i].snapshot \in S /\ results[i].matches \in Seq(M)
    <2>0. PICK R : R = [snapshot : S, matches : Seq(M)]
      OBVIOUS
    <2>00. results \in Seq(R)
      BY <2>0
    <2>1. \A i \in DOMAIN results : results[i] \in R
      BY ONLY <2>00
    <2>2. \A r \in [snapshot : S, matches : Seq(M)] : r.snapshot \in S /\ r.matches \in Seq(M)
      OBVIOUS
    <2>3. Len(results) \in Nat /\ DOMAIN results = 1..Len(results)
      OBVIOUS
    <2> QED BY ONLY <2>0, <2>1, <2>2, <2>3
  <1>2. \A i \in DOMAIN results : ss[i] \in Seq(V) /\ DOMAIN ss[i] = DOMAIN results[i].matches
    <2> SUFFICES ASSUME NEW i \in DOMAIN results PROVE ss[i] \in Seq(V) /\ DOMAIN ss[i] = DOMAIN results[i].matches
      OBVIOUS
    <2>1. PICK ms, s : ms = results[i].matches /\ s = results[i].snapshot
      OBVIOUS
    <2>2. ms \in Seq(M) /\ s \in S
      BY <1>1, <2>1
    <2>3. [j \in DOMAIN ms |-> [snapshot |-> s, match |-> ms[j]]] \in Seq(V)
      <3>1. \A j \in DOMAIN ms : [snapshot |-> s, match |-> ms[j]] \in V
        BY <2>2
      <3>2. DOMAIN ms = 1..Len(ms) /\ Len(ms) \in Nat
        BY <2>2
      <3> HIDE DEF V
      <3> QED BY ONLY <3>1, <3>2
    <2>4. ss[i] = [j \in DOMAIN ms |-> [snapshot |-> s, match |-> ms[j]]]
      BY <2>1
    <2> QED BY <2>1, <2>3, <2>4
  <1>3. ss \in Seq(Seq(V)) /\ DOMAIN ss = DOMAIN results
    <2>1. ss = [i \in 1..Len(results) |-> ss[i]]
      BY <1>1
    <2> HIDE DEF ss, V
    <2> QED BY ONLY <1>1, <1>2, <2>1
  <1>4. \A i \in DOMAIN results : \A j \in DOMAIN results[i].matches :
           ss[i][j] = [snapshot |-> results[i].snapshot, match |-> results[i].matches[j]]
    OBVIOUS
  <1>5. Spots(ss) = Met(results)
    <2> HIDE DEF ss, V
    <2>1. \A i \in DOMAIN results : {i} \X DOMAIN ss[i] = {i} \X DOMAIN results[i].matches
      BY <1>2
    <2> QED BY <1>3, <2>1 DEF Spots, Met
  <1> HIDE DEF ss, V
  <1>6. PICK a \in Bijection(DOMAIN met, Spots(ss)) : \A n \in DOMAIN met : met[n] = ss[a[n][1]][a[n][2]]
    BY <1>3, FlatPlaces
  <1>7. met \in Seq(V)
    BY <1>3, FlatPlaces
  <1> HIDE DEF met
  <1>8. \A n \in DOMAIN met : /\ a[n] \in Met(results)
                             /\ met[n] = [snapshot |-> results[a[n][1]].snapshot, match |-> MatchAt(results, a[n])]
    <2>1. \A n \in DOMAIN met : a[n] \in Met(results)
      BY <1>5, <1>6 DEF Bijection, Injection
    <2>2. \A p \in Met(results) : p[1] \in DOMAIN results /\ p[2] \in DOMAIN results[p[1]].matches
      BY DEF Met
    <2> QED BY <1>4, <1>6, <2>1, <2>2 DEF MatchAt
  <1>9. items \in Seq(W) /\ DOMAIN items = DOMAIN met
    <2>1. \A n \in DOMAIN met : met[n].snapshot \in S /\ met[n].match \in M
      <3>1. \A n \in DOMAIN met : met[n] \in V
        BY ONLY <1>7
      <3> QED BY <3>1 DEF V
    <2>2. \A n \in DOMAIN met : [snapshot |-> met[n].snapshot, key |-> Key(met[n].match)] \in W
      BY <2>1 DEF MatchKeys
    <2>3. DOMAIN met = 1..Len(met) /\ Len(met) \in Nat
      BY <1>7
    <2> HIDE DEF W
    <2> QED BY ONLY <2>2, <2>3
  <1>10. keep \in [DOMAIN items -> BOOLEAN]
    BY <1>9 DEF Counts
  <1>11. \A n \in DOMAIN met : /\ items[n] = [snapshot |-> results[a[n][1]].snapshot, key |-> Key(MatchAt(results, a[n]))]
                              /\ keep[n] = Counts(MatchAt(results, a[n]), path)
    BY <1>8
  <1> HIDE DEF items, keep, W
  <1>12. PICK b \in Bijection(DOMAIN hits, {n \in DOMAIN items : keep[n]}) : \A h \in DOMAIN hits : hits[h] = items[b[h]]
    BY <1>9, <1>10, KeptPlaces
  <1>13. hits \in Seq(W)
    BY <1>9, <1>10, KeptPlaces
  <1>14. Hits(results, path) = hits
    BY DEF Hits, hits, items, keep, met, ss
  <1> HIDE DEF hits, C
  <1> DEFINE to == [h \in DOMAIN hits |-> a[b[h]]]
  <1>15. /\ \A h \in DOMAIN hits : b[h] \in DOMAIN met /\ keep[b[h]]
         /\ \A g, h \in DOMAIN hits : b[g] = b[h] => g = h
         /\ \A n \in DOMAIN met : keep[n] => \E h \in DOMAIN hits : b[h] = n
    BY <1>9, <1>12 DEF Bijection, Injection, IsInjective, Surjection
  <1>16. /\ \A m, n \in DOMAIN met : a[m] = a[n] => m = n
         /\ \A p \in Met(results) : \E n \in DOMAIN met : a[n] = p
    BY <1>5, <1>6 DEF Bijection, Injection, IsInjective, Surjection
  <1>17. \A h \in DOMAIN hits : to[h] \in C
    BY <1>8, <1>11, <1>15 DEF C
  <1>18. \A g, h \in DOMAIN hits : to[g] = to[h] => g = h
    BY <1>15, <1>16
  <1>19. \A p \in C : \E h \in DOMAIN hits : to[h] = p
    <2> SUFFICES ASSUME NEW p \in C PROVE \E h \in DOMAIN hits : a[b[h]] = p
      OBVIOUS
    <2>1. p \in Met(results) /\ Counts(MatchAt(results, p), path)
      BY DEF C
    <2>2. PICK n \in DOMAIN met : a[n] = p
      BY <1>16, <2>1
    <2>3. keep[n]
      BY <1>11, <2>1, <2>2
    <2> QED BY <1>15, <2>2, <2>3
  <1>20. \A h \in DOMAIN hits : hits[h] = [snapshot |-> results[to[h][1]].snapshot, key |-> Key(MatchAt(results, to[h]))]
    BY <1>11, <1>12, <1>15
  <1>21. to \in [DOMAIN hits -> C]
    BY <1>17
  <1> HIDE DEF to
  <1>22. to \in Bijection(DOMAIN hits, C)
    BY <1>18, <1>19, <1>21 DEF Bijection, Injection, IsInjective, Surjection
  <1>23. CountedOnce(hits, results, path)
    BY <1>20, <1>22 DEF C, CountedOnce
  <1> QED BY <1>13, <1>14, <1>23 DEF W

\* The key order lists every key that was met, once.
LEMMA KeysListed ==
  ASSUME NEW S, NEW K, NEW hits \in Seq([snapshot : S, key : K]), NEW T,
         \A h \in DOMAIN hits : hits[h].key \in T, \A x \in T : \E h \in DOMAIN hits : hits[h].key = x
  PROVE  Lists(KeyOrder(hits), T)
  <1> DEFINE all == [h \in DOMAIN hits |-> hits[h].key]
             first == [h \in DOMAIN hits |-> \A g \in DOMAIN hits : g < h => hits[g].key # hits[h].key]
             order == KeptOf(all, first)
  <1>1. DOMAIN hits = 1..Len(hits) /\ Len(hits) \in Nat
    OBVIOUS
  <1>2. all \in Seq(T) /\ DOMAIN all = DOMAIN hits
    <2>1. \A h \in DOMAIN hits : hits[h].key \in T
      OBVIOUS
    <2> QED BY ONLY <1>1, <2>1
  <1>3. first \in [DOMAIN all -> BOOLEAN]
    BY <1>2
  <1>4. \A h \in DOMAIN hits : first[h] <=> \A g \in DOMAIN hits : g < h => all[g] # all[h]
    OBVIOUS
  <1>5. \A x \in T : \E h \in DOMAIN hits : all[h] = x
    OBVIOUS
  <1>6. KeyOrder(hits) = order
    BY DEF KeyOrder
  <1> HIDE DEF all, first
  <1>7. PICK at \in Bijection(DOMAIN order, {h \in DOMAIN all : first[h]}) : \A k \in DOMAIN order : order[k] = all[at[k]]
    BY ONLY <1>2, <1>3, KeptPlaces
  <1>8. order \in Seq(T)
    BY <1>2, <1>3, KeptPlaces
  <1> HIDE DEF order
  <1>9. /\ \A k \in DOMAIN order : at[k] \in DOMAIN hits /\ first[at[k]]
        /\ \A j, k \in DOMAIN order : at[j] = at[k] => j = k
        /\ \A h \in DOMAIN hits : first[h] => \E k \in DOMAIN order : at[k] = h
    BY <1>2, <1>7 DEF Bijection, Injection, IsInjective, Surjection
  <1>10. ASSUME NEW j \in DOMAIN order, NEW k \in DOMAIN order, order[j] = order[k] PROVE j = k
    <2>1. all[at[j]] = all[at[k]] /\ at[j] \in DOMAIN hits /\ at[k] \in DOMAIN hits /\ first[at[j]] /\ first[at[k]]
      BY <1>7, <1>9, <1>10
    <2>2. ~(at[j] < at[k]) /\ ~(at[k] < at[j])
      BY <1>4, <2>1
    <2>3. at[j] = at[k]
      BY <1>1, <2>1, <2>2
    <2> QED BY <1>9, <2>3
  <1>11. ASSUME NEW x \in T PROVE \E k \in DOMAIN order : order[k] = x
    <2> DEFINE H == {h \in DOMAIN hits : all[h] = x}
    <2>1. H # {} /\ H \in SUBSET Nat
      BY <1>1, <1>5
    <2>2. PICK h \in H : \A g \in H : h <= g
      <3> HIDE DEF H
      <3> QED BY <2>1, Least
    <2>3. \A g \in DOMAIN hits : g < h => all[g] # all[h]
      <3> SUFFICES ASSUME NEW g \in DOMAIN hits, g < h, all[g] = all[h] PROVE FALSE
        OBVIOUS
      <3>1. h <= g
        BY <2>2
      <3>2. g \in Nat /\ h \in Nat
        BY <1>1
      <3> QED BY ONLY <3>1, <3>2, g < h
    <2>4. first[h] /\ all[h] = x /\ h \in DOMAIN hits
      BY <1>4, <2>3
    <2>5. PICK k \in DOMAIN order : at[k] = h
      BY <1>9, <2>4
    <2> QED BY <1>7, <2>4, <2>5
  <1>12. Lists(order, T)
    BY <1>8, <1>10, <1>11 DEF Lists
  <1> QED BY <1>6, <1>12

\* The occurrences of a version are the hits that have its key, latest first.
LEMMA OccurrencesHold ==
  ASSUME NEW S, NEW K, NEW hits \in Seq([snapshot : S, key : K]), NEW k, NEW snapTime,
         \A s \in DOMAIN snapTime : snapTime[s] \in Int, NEW occ, occ = Occurrences(hits, k, snapTime)
  PROVE  /\ occ \in Seq(S)
         /\ \A q, r \in DOMAIN occ : q < r => Time(snapTime, occ[q]) >= Time(snapTime, occ[r])
         /\ OccurOnce(occ, hits, k)
  <1> DEFINE all == [h \in DOMAIN hits |-> hits[h].snapshot]
             own == [h \in DOMAIN hits |-> hits[h].key = k]
             found == KeptOf(all, own)
             time == [i \in DOMAIN found |-> Time(snapTime, found[i])]
             H == {h \in DOMAIN hits : hits[h].key = k}
  <1>1. DOMAIN hits = 1..Len(hits) /\ Len(hits) \in Nat
    OBVIOUS
  <1>2. all \in Seq(S) /\ DOMAIN all = DOMAIN hits
    <2>1. PICK R : R = [snapshot : S, key : K]
      OBVIOUS
    <2>2. \A h \in DOMAIN hits : hits[h] \in R
      <3>1. hits \in Seq(R)
        BY <2>1
      <3> QED BY ONLY <3>1
    <2>3. \A x \in R : x.snapshot \in S
      BY ONLY <2>1
    <2>4. \A h \in DOMAIN hits : hits[h].snapshot \in S
      BY ONLY <2>2, <2>3
    <2> QED BY ONLY <1>1, <2>4
  <1>3. own \in [DOMAIN all -> BOOLEAN]
    BY <1>2
  <1>4. {h \in DOMAIN all : own[h]} = H
    BY <1>2
  <1>5. occ = LatestFirst(found, time)
    BY DEF Occurrences
  <1>6. \A h \in DOMAIN hits : all[h] = hits[h].snapshot
    OBVIOUS
  <1> HIDE DEF all, own, H
  <1>7. PICK a \in Bijection(DOMAIN found, H) : \A n \in DOMAIN found : found[n] = all[a[n]]
    BY <1>2, <1>3, <1>4, KeptPlaces
  <1>8. found \in Seq(S)
    BY <1>2, <1>3, KeptPlaces
  <1> HIDE DEF found
  <1>9. \A s : Time(snapTime, s) \in Int
    BY DEF Time
  <1>10. time \in [DOMAIN found -> Int] /\ \A i \in DOMAIN found : time[i] = Time(snapTime, found[i])
    BY <1>9
  <1> HIDE DEF time
  <1>11. PICK b \in Bijection(DOMAIN found, DOMAIN found) :
               /\ \A r \in DOMAIN found : LatestFirst(found, time)[r] = found[b[r]]
               /\ \A q, r \in DOMAIN found : q < r => time[b[q]] >= time[b[r]]
    BY <1>8, <1>10, Newest
  <1>12. occ \in Seq(S) /\ DOMAIN occ = DOMAIN found
    BY <1>5, <1>8, <1>10, Newest
  <1>13. /\ \A n \in DOMAIN found : b[n] \in DOMAIN found
         /\ \A m, n \in DOMAIN found : b[m] = b[n] => m = n
         /\ \A i \in DOMAIN found : \E n \in DOMAIN found : b[n] = i
    BY <1>11 DEF Bijection, Injection, IsInjective, Surjection
  <1>14. /\ \A n \in DOMAIN found : a[n] \in H
         /\ \A m, n \in DOMAIN found : a[m] = a[n] => m = n
         /\ \A h \in H : \E n \in DOMAIN found : a[n] = h
    BY <1>7 DEF Bijection, Injection, IsInjective, Surjection
  <1> DEFINE at == [n \in DOMAIN occ |-> a[b[n]]]
  <1>15. \A n \in DOMAIN occ : at[n] \in H
    BY <1>12, <1>13, <1>14
  <1>16. \A m, n \in DOMAIN occ : at[m] = at[n] => m = n
    <2> SUFFICES ASSUME NEW m \in DOMAIN occ, NEW n \in DOMAIN occ, a[b[m]] = a[b[n]] PROVE m = n
      OBVIOUS
    <2>0. b[m] \in DOMAIN found /\ b[n] \in DOMAIN found
      BY <1>12, <1>13
    <2>1. b[m] = b[n]
      BY ONLY <1>14, <2>0, a[b[m]] = a[b[n]]
    <2> QED BY <1>12, <1>13, <2>1
  <1>17. \A h \in H : \E n \in DOMAIN occ : at[n] = h
    <2> SUFFICES ASSUME NEW h \in H PROVE \E n \in DOMAIN occ : a[b[n]] = h
      OBVIOUS
    <2>1. PICK i \in DOMAIN found : a[i] = h
      BY <1>14
    <2>2. PICK n \in DOMAIN found : b[n] = i
      BY <1>13
    <2> QED BY <1>12, <2>1, <2>2
  <1>18. \A n \in DOMAIN occ : occ[n] = hits[at[n]].snapshot
    <2> SUFFICES ASSUME NEW n \in DOMAIN occ PROVE occ[n] = hits[a[b[n]]].snapshot
      OBVIOUS
    <2>1. b[n] \in DOMAIN found /\ occ[n] = found[b[n]]
      BY <1>5, <1>11, <1>12, <1>13
    <2>2. found[b[n]] = all[a[b[n]]] /\ a[b[n]] \in DOMAIN hits
      BY <1>7, <1>14, <2>1 DEF H
    <2> QED BY <1>6, <2>1, <2>2
  <1>19. at \in [DOMAIN occ -> H]
    BY <1>15
  <1> HIDE DEF at
  <1>20. at \in Bijection(DOMAIN occ, H)
    BY <1>16, <1>17, <1>19 DEF Bijection, Injection, IsInjective, Surjection
  <1>21. \A q, r \in DOMAIN occ : q < r => Time(snapTime, occ[q]) >= Time(snapTime, occ[r])
    <2> SUFFICES ASSUME NEW q \in DOMAIN occ, NEW r \in DOMAIN occ, q < r
                 PROVE  Time(snapTime, occ[q]) >= Time(snapTime, occ[r])
      OBVIOUS
    <2>1. time[b[q]] >= time[b[r]]
      BY <1>11, <1>12
    <2>2. \A n \in DOMAIN occ : time[b[n]] = Time(snapTime, occ[n])
      <3> SUFFICES ASSUME NEW n \in DOMAIN occ PROVE time[b[n]] = Time(snapTime, occ[n])
        OBVIOUS
      <3>1. b[n] \in DOMAIN found /\ occ[n] = found[b[n]]
        BY <1>5, <1>11, <1>12, <1>13
      <3> QED BY <1>10, <3>1
    <2> QED BY <2>1, <2>2
  <1>22. OccurOnce(occ, hits, k)
    BY <1>18, <1>20 DEF H, OccurOnce
  <1> QED BY <1>12, <1>21, <1>22

\* Each version of a file is listed once, with every snapshot that has it, newest
\* first and those of which nothing is known at the time they count as, and the
\* versions by their newest snapshot, for any matches of any snapshots (find.go,
\* GroupFileVersions).
THEOREM VersionsExact ==
  ASSUME NEW S, NEW M, NEW results \in Seq([snapshot : S, matches : Seq(M)]), NEW path,
         NEW snapTime, \A s \in DOMAIN snapTime : snapTime[s] \in Int
  PROVE  VersionsAreExact(results, path, snapTime)
  <1> DEFINE snaps == {results[i].snapshot : i \in DOMAIN results}
             counted == {n \in UNION {Range(results[i].matches) : i \in DOMAIN results} : Counts(n, path)}
             keys == {Key(m) : m \in counted}
             R == [snapshot : S, key : MatchKeys(M)]
             C == {p \in Met(results) : Counts(MatchAt(results, p), path)}
             time(s) == Time(snapTime, s)
  <1>1. PICK hits : hits = Hits(results, path)
    OBVIOUS
  <1>2. hits \in Seq(R) /\ CountedOnce(hits, results, path)
    BY <1>1, HitsAsMany
  <1>3. PICK to \in Bijection(DOMAIN hits, C) :
           \A h \in DOMAIN hits : hits[h] = [snapshot |-> results[to[h][1]].snapshot, key |-> Key(MatchAt(results, to[h]))]
    BY <1>2 DEF CountedOnce
  <1>4. /\ \A h \in DOMAIN hits : to[h] \in C
        /\ \A p \in C : \E h \in DOMAIN hits : to[h] = p
    BY <1>3 DEF Bijection, Injection, Surjection
  <1>5. DOMAIN hits = 1..Len(hits) /\ Len(hits) \in Nat /\ IsFiniteSet(DOMAIN hits)
    <2>1. DOMAIN hits = 1..Len(hits) /\ Len(hits) \in Nat
      BY <1>2
    <2> QED BY <2>1, FS_Interval
  <1>6. \A p \in Met(results) : p[1] \in DOMAIN results /\ p[2] \in DOMAIN results[p[1]].matches /\ p = <<p[1], p[2]>>
    BY DEF Met
  <1>7. \A h \in DOMAIN hits : hits[h].snapshot \in snaps
    BY <1>3, <1>4, <1>6
  <1>8. {hits[h].key : h \in DOMAIN hits} = keys
    <2>1. ASSUME NEW h \in DOMAIN hits PROVE hits[h].key \in keys
      <3>1. to[h] \in Met(results) /\ Counts(MatchAt(results, to[h]), path) /\ hits[h].key = Key(MatchAt(results, to[h]))
        BY <1>3, <1>4
      <3>2. MatchAt(results, to[h]) \in UNION {Range(results[i].matches) : i \in DOMAIN results}
        <4>1. PICK p \in Met(results) : p = to[h]
          BY <3>1
        <4>2. PICK i \in DOMAIN results, j \in DOMAIN results[p[1]].matches : i = p[1] /\ j = p[2]
          BY <1>6
        <4>3. MatchAt(results, p) = results[i].matches[j]
          BY <4>2 DEF MatchAt
        <4>4. results[i].matches[j] \in Range(results[i].matches)
          BY <4>2 DEF Range
        <4> QED BY ONLY <4>1, <4>3, <4>4
      <3> QED BY <3>1, <3>2
    <2>2. ASSUME NEW k \in keys PROVE \E h \in DOMAIN hits : hits[h].key = k
      <3>1. PICK m \in counted : k = Key(m)
        OBVIOUS
      <3>2. PICK i \in DOMAIN results : m \in Range(results[i].matches)
        OBVIOUS
      <3>3. PICK j \in DOMAIN results[i].matches : m = results[i].matches[j]
        BY <3>2 DEF Range
      <3>4. <<i, j>> \in Met(results) /\ MatchAt(results, <<i, j>>) = m
        BY <3>3 DEF Met, MatchAt
      <3>5. <<i, j>> \in C
        BY <3>1, <3>4
      <3>6. PICK h \in DOMAIN hits : to[h] = <<i, j>>
        BY <1>4, <3>5
      <3>7. hits[h] = [snapshot |-> results[to[h][1]].snapshot, key |-> Key(MatchAt(results, to[h]))]
        BY <1>3
      <3>8. hits[h].key = Key(m)
        BY ONLY <3>4, <3>6, <3>7
      <3> QED BY <3>1, <3>8
    <2> QED BY <2>1, <2>2
  <1> HIDE DEF R, C, keys, counted, snaps
  <1>9. PICK order : order = KeyOrder(hits)
    OBVIOUS
  <1>10. Lists(order, keys)
    <2>1. (\A h \in DOMAIN hits : hits[h].key \in keys) /\ \A x \in keys : \E h \in DOMAIN hits : hits[h].key = x
      BY <1>8
    <2>2. PICK K : K = MatchKeys(M)
      OBVIOUS
    <2>3. hits \in Seq([snapshot : S, key : K])
      BY <1>2, <2>2 DEF R
    <2>4. Lists(KeyOrder(hits), keys)
      BY ONLY <2>1, <2>3, KeysListed
    <2> QED BY ONLY <1>9, <2>4
  <1>11. /\ order \in Seq(keys) /\ DOMAIN order = 1..Len(order) /\ Len(order) \in Nat
         /\ (\A i, j \in DOMAIN order : order[i] = order[j] => i = j) /\ (\A x \in keys : \E i \in DOMAIN order : order[i] = x)
         /\ \A i \in DOMAIN order : order[i] \in keys
    BY <1>10 DEF Lists
  <1>12. IsFiniteSet(keys) /\ Cardinality(keys) = Len(order)
    <2>1. order \in Bijection(1..Len(order), keys)
      <3>1. order \in [1..Len(order) -> keys]
        BY <1>11
      <3> QED BY <1>11, <3>1 DEF Bijection, Injection, IsInjective, Surjection
    <2>2. IsFiniteSet(1..Len(order)) /\ Cardinality(1..Len(order)) = Len(order)
      <3>1. PICK n \in Nat : n = Len(order)
        BY <1>11
      <3>2. IsFiniteSet(1..n) /\ Cardinality(1..n) = IF 1 > n THEN 0 ELSE n - 1 + 1
        BY ONLY n \in Nat, FS_Interval
      <3>3. (IF 1 > n THEN 0 ELSE n - 1 + 1) = n
        BY ONLY n \in Nat
      <3> QED BY ONLY <3>1, <3>2, <3>3
    <2>3. ExistsBijection(1..Len(order), keys)
      BY <2>1 DEF ExistsBijection
    <2> QED BY <2>2, <2>3, FS_Bijection
  <1> DEFINE occ(k) == Occurrences(hits, k, snapTime)
             group(k) == [key |-> k, occurrences |-> occ(k)]
             found == [i \in DOMAIN order |-> group(order[i])]
             latest == [i \in DOMAIN found |-> time(Head(found[i].occurrences))]
             groups == LatestFirst(found, latest)
             G == {group(k) : k \in keys}
  <1>13. ASSUME NEW k \in keys
         PROVE  /\ occ(k) \in Seq(S) /\ occ(k) # <<>>
                /\ \A q, r \in DOMAIN occ(k) : q < r => time(occ(k)[q]) >= time(occ(k)[r])
                /\ \A n \in DOMAIN occ(k) : occ(k)[n] \in snaps
                /\ \A s : Cardinality({n \in DOMAIN occ(k) : occ(k)[n] = s}) = Cardinality(MetAs(results, path, s, k))
    <2>1. PICK o : o = occ(k)
      OBVIOUS
    <2> DEFINE H == {h \in DOMAIN hits : hits[h].key = k}
    <2>2. /\ o \in Seq(S)
          /\ \A q, r \in DOMAIN o : q < r => time(o[q]) >= time(o[r])
          /\ OccurOnce(o, hits, k)
      BY <1>2, <2>1, OccurrencesHold DEF R
    <2>3. PICK at \in Bijection(DOMAIN o, H) : \A n \in DOMAIN o : o[n] = hits[at[n]].snapshot
      BY <2>2 DEF OccurOnce
    <2>4. (\A n \in DOMAIN o : at[n] \in H) /\ \A h \in H : \E n \in DOMAIN o : at[n] = h
      BY <2>3 DEF Bijection, Injection, Surjection
    <2>5. o # <<>>
      <3>1. PICK h \in DOMAIN hits : hits[h].key = k
        BY <1>8
      <3>2. \E n \in DOMAIN o : at[n] = h
        BY <2>4, <3>1
      <3> QED BY <3>2
    <2>6. \A n \in DOMAIN o : o[n] \in snaps
      BY <1>7, <2>3, <2>4
    <2>7. ASSUME NEW s PROVE Cardinality({n \in DOMAIN o : o[n] = s}) = Cardinality(MetAs(results, path, s, k))
      <3> DEFINE P == {h \in H : hits[h].snapshot = s}
      <3>1. {n \in DOMAIN o : o[n] = s} = {n \in DOMAIN o : at[n] \in P}
        BY <2>3, <2>4
      <3>2. IsFiniteSet(DOMAIN o)
        <4>1. DOMAIN o = 1..Len(o) /\ Len(o) \in Nat
          BY <2>2
        <4> QED BY <4>1, FS_Interval
      <3>3. Cardinality({n \in DOMAIN o : at[n] \in P}) = Cardinality(P)
        <4>1. P \in SUBSET H
          OBVIOUS
        <4> HIDE DEF P, H
        <4> QED BY ONLY <2>3, <3>2, <4>1, AsMany
      <3>4. MetAs(results, path, s, k) \in SUBSET C
        BY DEF MetAs, C
      <3>5. P = {h \in DOMAIN hits : to[h] \in MetAs(results, path, s, k)}
        <4>1. \A h \in DOMAIN hits : to[h] \in Met(results) /\ Counts(MatchAt(results, to[h]), path)
          BY <1>4 DEF C
        <4> QED BY <1>3, <4>1 DEF MetAs
      <3>6. Cardinality({h \in DOMAIN hits : to[h] \in MetAs(results, path, s, k)}) = Cardinality(MetAs(results, path, s, k))
        BY ONLY <1>3, <1>5, <3>4, AsMany
      <3> HIDE DEF P
      <3> QED BY <3>1, <3>3, <3>5, <3>6
    <2> QED BY <2>1, <2>2, <2>5, <2>6, <2>7
  <1> HIDE DEF occ
  <1>14. found \in Seq(G) /\ DOMAIN found = DOMAIN order
    <2>1. \A i \in DOMAIN order : group(order[i]) \in G
      BY <1>11
    <2> HIDE DEF G, group
    <2> QED BY <1>11, <2>1
  <1>15. \A i \in DOMAIN order : found[i] = [key |-> order[i], occurrences |-> occ(order[i])]
    OBVIOUS
  <1> HIDE DEF found, G, group
  <1>16. latest \in [DOMAIN found -> Int] /\ \A i \in DOMAIN found : latest[i] = time(Head(found[i].occurrences))
    <2>1. \A s : time(s) \in Int
      BY DEF Time
    <2> HIDE DEF time
    <2> QED BY <2>1
  <1> HIDE DEF latest
  <1>17. groups \in Seq(G) /\ DOMAIN groups = DOMAIN order
    BY <1>14, <1>16, Newest
  <1>18. PICK at \in Bijection(DOMAIN found, DOMAIN found) :
               /\ \A r \in DOMAIN found : groups[r] = found[at[r]]
               /\ \A q, r \in DOMAIN found : q < r => latest[at[q]] >= latest[at[r]]
    BY <1>14, <1>16, Newest
  <1>19. GroupFileVersions(results, path, snapTime) = groups
    BY <1>1, <1>9 DEF GroupFileVersions, groups, latest, found, group, occ, time
  <1> HIDE DEF groups, time
  <1>20. (\A i \in DOMAIN order : at[i] \in DOMAIN order) /\ \A j \in DOMAIN order : \E i \in DOMAIN order : at[i] = j
    BY <1>14, <1>18 DEF Bijection, Injection, Surjection
  <1>21. \A i \in DOMAIN order : groups[i].key = order[at[i]] /\ groups[i].occurrences = occ(order[at[i]])
    <2> SUFFICES ASSUME NEW i \in DOMAIN order
                 PROVE  groups[i].key = order[at[i]] /\ groups[i].occurrences = occ(order[at[i]])
      OBVIOUS
    <2>1. at[i] \in DOMAIN order /\ groups[i] = found[at[i]]
      BY <1>14, <1>18, <1>20
    <2>2. found[at[i]] = [key |-> order[at[i]], occurrences |-> occ(order[at[i]])]
      BY <1>15, <2>1
    <2> QED BY ONLY <2>1, <2>2
  <1>22. {groups[i].key : i \in DOMAIN groups} = keys
    <2>1. \A i \in DOMAIN groups : groups[i].key \in keys
      BY <1>11, <1>17, <1>20, <1>21
    <2>2. ASSUME NEW k \in keys PROVE \E i \in DOMAIN groups : groups[i].key = k
      <3>1. PICK j \in DOMAIN order : order[j] = k
        BY <1>11
      <3>2. PICK i \in DOMAIN order : at[i] = j
        BY <1>20
      <3> QED BY <1>17, <1>21, <3>1, <3>2
    <2> QED BY <2>1, <2>2
  <1>23. Len(groups) = Cardinality(keys)
    <2>1. DOMAIN groups = 1..Len(groups) /\ Len(groups) \in Nat
      BY <1>17
    <2>2. Len(groups) = Len(order)
      BY ONLY <1>11, <1>17, <2>1
    <2> QED BY <1>12, <2>2
  <1>24. ASSUME NEW i \in DOMAIN groups, NEW g, g = groups[i]
         PROVE  /\ \A m, n \in DOMAIN g.occurrences : m < n => time(g.occurrences[m]) >= time(g.occurrences[n])
                /\ \A s : Cardinality({n \in DOMAIN g.occurrences : g.occurrences[n] = s}) = Cardinality(MetAs(results, path, s, g.key))
                /\ Range(g.occurrences) \subseteq snaps
                /\ \A k \in DOMAIN groups : i < k =>
                     \A n \in DOMAIN groups[k].occurrences :
                        time(Head(g.occurrences)) >= time(groups[k].occurrences[n])
    <2>1. PICK k0 : k0 = order[at[i]]
      OBVIOUS
    <2>2. k0 \in keys /\ g.key = k0 /\ g.occurrences = occ(k0) /\ i \in DOMAIN order
      BY <1>11, <1>17, <1>20, <1>21, <1>24, <2>1
    <2>3. \A m, n \in DOMAIN g.occurrences : m < n => time(g.occurrences[m]) >= time(g.occurrences[n])
      BY <1>13, <2>2
    <2>4. \A s : Cardinality({n \in DOMAIN g.occurrences : g.occurrences[n] = s}) = Cardinality(MetAs(results, path, s, g.key))
      BY <1>13, <2>2
    <2>5. Range(g.occurrences) \subseteq snaps
      BY <1>13, <2>2 DEF Range
    <2>6. ASSUME NEW k \in DOMAIN groups, i < k, NEW n \in DOMAIN groups[k].occurrences
          PROVE  time(Head(g.occurrences)) >= time(groups[k].occurrences[n])
      <3>1. PICK k1, o : k1 = order[at[k]] /\ o = occ(k1)
        OBVIOUS
      <3>2. k1 \in keys /\ groups[k].occurrences = o /\ k \in DOMAIN order
        BY <1>11, <1>17, <1>20, <1>21, <3>1
      <3>3. o \in Seq(S) /\ o # <<>> /\ \A q, r \in DOMAIN o : q < r => time(o[q]) >= time(o[r])
        BY <1>13, <3>1, <3>2
      <3>4. Head(o) = o[1] /\ 1 \in DOMAIN o /\ n \in DOMAIN o /\ (n = 1 \/ 1 < n)
        BY <3>2, <3>3
      <3>5. \A s : time(s) \in Int
        BY DEF Time, time
      <3>6. time(Head(o)) >= time(o[n])
        <4>1. CASE n = 1
          BY <3>4, <3>5, <4>1
        <4>2. CASE 1 < n
          BY <3>3, <3>4, <4>2
        <4> QED BY <3>4, <4>1, <4>2
      <3>7. latest[at[i]] >= latest[at[k]] /\ at[i] \in DOMAIN found /\ at[k] \in DOMAIN found
        BY <1>14, <1>18, <1>20, <2>2, <2>6, <3>2
      <3>8. latest[at[i]] = time(Head(g.occurrences)) /\ latest[at[k]] = time(Head(o))
        <4>1. groups[i] = found[at[i]] /\ groups[k] = found[at[k]]
          BY <1>14, <1>18, <2>2, <3>2
        <4> QED BY <1>16, <1>24, <3>2, <3>7, <4>1
      <3>9. time(Head(g.occurrences)) >= time(Head(o))
        BY <3>7, <3>8
      <3>10. PICK x, y, z : x = time(Head(g.occurrences)) /\ y = time(Head(o)) /\ z = time(o[n])
        OBVIOUS
      <3>11. x \in Int /\ y \in Int /\ z \in Int
        BY <3>5, <3>10
      <3>12. x >= z
        BY ONLY <3>6, <3>9, <3>10, <3>11
      <3> QED BY <3>2, <3>10, <3>12
    <2> QED BY <2>3, <2>4, <2>5, <2>6
  <1>25. \A s, k : {p \in UNION {{i} \X DOMAIN results[i].matches : i \in DOMAIN results} :
                      /\ results[p[1]].snapshot = s /\ Counts(results[p[1]].matches[p[2]], path)
                      /\ Key(results[p[1]].matches[p[2]]) = k} = MetAs(results, path, s, k)
    BY DEF MetAs, Met, MatchAt
  <1> HIDE DEF occ
  <1>26. PICK gs : gs = groups
    OBVIOUS
  <1>27. ASSUME NEW i \in DOMAIN gs
         PROVE  /\ \A m, n \in DOMAIN gs[i].occurrences : m < n => time(gs[i].occurrences[m]) >= time(gs[i].occurrences[n])
                /\ \A s \in snaps : Cardinality({n \in DOMAIN gs[i].occurrences : gs[i].occurrences[n] = s})
                                        = Cardinality(MetAs(results, path, s, gs[i].key))
                /\ Range(gs[i].occurrences) \subseteq snaps
                /\ \A k \in DOMAIN gs : i < k =>
                     \A n \in DOMAIN gs[k].occurrences : time(Head(gs[i].occurrences)) >= time(gs[k].occurrences[n])
    BY <1>24, <1>26
  <1>28. GroupFileVersions(results, path, snapTime) = gs /\ {gs[i].key : i \in DOMAIN gs} = keys /\ Len(gs) = Cardinality(keys)
    BY <1>19, <1>22, <1>23, <1>26
  <1>29. {gs[i].key : i \in DOMAIN gs} = {Key(m) : m \in {n \in UNION {Range(results[i].matches) : i \in DOMAIN results} : Counts(n, path)}}
    BY <1>28 DEF keys, counted
  <1>30. Len(gs) = Cardinality({Key(m) : m \in {n \in UNION {Range(results[i].matches) : i \in DOMAIN results} : Counts(n, path)}})
    BY <1>28 DEF keys, counted
  <1>31. \A i \in DOMAIN gs :
           /\ \A m, n \in DOMAIN gs[i].occurrences :
                 m < n => Time(snapTime, gs[i].occurrences[m]) >= Time(snapTime, gs[i].occurrences[n])
           /\ Range(gs[i].occurrences) \subseteq {results[j].snapshot : j \in DOMAIN results}
    BY <1>27 DEF time, snaps
  <1>32. ASSUME NEW i \in DOMAIN gs, NEW s \in {results[j].snapshot : j \in DOMAIN results}
         PROVE  Cardinality({n \in DOMAIN gs[i].occurrences : gs[i].occurrences[n] = s})
             = Cardinality({p \in UNION {{j} \X DOMAIN results[j].matches : j \in DOMAIN results} :
                              /\ results[p[1]].snapshot = s /\ Counts(results[p[1]].matches[p[2]], path)
                              /\ Key(results[p[1]].matches[p[2]]) = gs[i].key})
    <2>1. s \in snaps
      BY <1>32 DEF snaps
    <2>2. Cardinality({n \in DOMAIN gs[i].occurrences : gs[i].occurrences[n] = s}) = Cardinality(MetAs(results, path, s, gs[i].key))
      BY <1>27, <2>1
    <2>3. PICK k : k = gs[i].key
      OBVIOUS
    <2> QED BY ONLY <1>25, <2>2, <2>3
  <1>33. \A i, k \in DOMAIN gs : i < k => \A n \in DOMAIN gs[k].occurrences :
           Time(snapTime, Head(gs[i].occurrences)) >= Time(snapTime, gs[k].occurrences[n])
    BY <1>27 DEF time
  <1> HIDE DEF snaps, keys, counted, time
  <1> DEFINE Exact(vs) ==
        /\ {vs[i].key : i \in DOMAIN vs} = {Key(m) : m \in {n \in UNION {Range(results[i].matches) : i \in DOMAIN results} : Counts(n, path)}}
        /\ Len(vs) = Cardinality({Key(m) : m \in {n \in UNION {Range(results[i].matches) : i \in DOMAIN results} : Counts(n, path)}})
        /\ \A i \in DOMAIN vs :
             /\ \A m, n \in DOMAIN vs[i].occurrences :
                   m < n => Time(snapTime, vs[i].occurrences[m]) >= Time(snapTime, vs[i].occurrences[n])
             /\ \A s \in {results[j].snapshot : j \in DOMAIN results} :
                  Cardinality({n \in DOMAIN vs[i].occurrences : vs[i].occurrences[n] = s})
                    = Cardinality({p \in UNION {{j} \X DOMAIN results[j].matches : j \in DOMAIN results} :
                              /\ results[p[1]].snapshot = s /\ Counts(results[p[1]].matches[p[2]], path)
                              /\ Key(results[p[1]].matches[p[2]]) = vs[i].key})
             /\ Range(vs[i].occurrences) \subseteq {results[j].snapshot : j \in DOMAIN results}
             /\ \A k \in DOMAIN vs : i < k => \A n \in DOMAIN vs[k].occurrences :
                  Time(snapTime, Head(vs[i].occurrences)) >= Time(snapTime, vs[k].occurrences[n])
  <1>34. Exact(gs)
    BY ONLY <1>29, <1>30, <1>31, <1>32, <1>33
  <1>35. VersionsAreExact(results, path, snapTime) <=> Exact(GroupFileVersions(results, path, snapTime))
    BY ONLY Zenon DEF VersionsAreExact
  <1> HIDE DEF Exact
  <1> QED BY ONLY <1>28, <1>34, <1>35

-----------------------------------------------------------------------------
(* There is one way to write down the first of an order. *)

\* s has the first members of V in the order R, from the first on.
Leads(s, R, V) ==
    /\ s \in Seq(V) /\ \A i, j \in DOMAIN s : i < j => <<s[i], s[j]>> \in R
    /\ \A x \in V : (\E i \in DOMAIN s : s[i] = x) \/ \A i \in DOMAIN s : <<s[i], x>> \in R

\* What stands at place i of such a list has i - 1 elements before it.
LEMMA LeadersPlace ==
  ASSUME NEW V, IsFiniteSet(V), NEW R, IsTotalOrder(R, V), NEW s, Leads(s, R, V), NEW i \in DOMAIN s
  PROVE  s[i] \in V /\ Cardinality(Before(R, V, s[i])) = i - 1
  <1> DEFINE n == Len(s)
             f == [j \in 1..(i - 1) |-> s[j]]
  <1>1. n \in Nat /\ DOMAIN s = 1..n /\ \A j \in 1..n : s[j] \in V
    BY DEF Leads
  <1>2. i \in Nat /\ i \in 1..n /\ \A j \in 1..(i - 1) : j \in 1..n /\ j < i
    BY <1>1
  <1>3. \A j, k \in 1..n : j < k => <<s[j], s[k]>> \in R
    BY <1>1 DEF Leads
  <1>4. \A j, k \in 1..n : s[j] = s[k] => j = k
    <2> SUFFICES ASSUME NEW j \in 1..n, NEW k \in 1..n, s[j] = s[k] PROVE j = k
      OBVIOUS
    <2>1. ~(j < k) /\ ~(k < j)
      BY <1>1, <1>3 DEF IsTotalOrder
    <2> QED BY <2>1
  <1>5. f \in [1..(i - 1) -> Before(R, V, s[i])]
    <2>1. \A j \in 1..(i - 1) : s[j] \in Before(R, V, s[i])
      BY <1>1, <1>2, <1>3 DEF Before
    <2> QED BY <2>1
  <1>6. \A j, k \in 1..(i - 1) : f[j] = f[k] => j = k
    BY <1>2, <1>4
  <1>7. \A x \in Before(R, V, s[i]) : \E j \in 1..(i - 1) : f[j] = x
    <2> SUFFICES ASSUME NEW x \in V, <<x, s[i]>> \in R PROVE \E j \in 1..(i - 1) : s[j] = x
      BY DEF Before
    <2>1. <<s[i], x>> \notin R
      BY <1>1, <1>2 DEF IsTotalOrder
    <2>2. PICK j \in 1..n : s[j] = x
      BY <1>1, <1>2, <2>1 DEF Leads
    <2>3. j # i
      BY <1>1, <1>2, <2>2 DEF IsTotalOrder
    <2>4. ~(i < j)
      BY <1>2, <1>3, <2>1, <2>2
    <2>5. j \in 1..(i - 1)
      BY <1>1, <1>2, <2>3, <2>4
    <2> QED BY <2>2, <2>5
  <1> HIDE DEF f
  <1>8. f \in Bijection(1..(i - 1), Before(R, V, s[i]))
    BY <1>5, <1>6, <1>7 DEF Bijection, Injection, IsInjective, Surjection
  <1>9. IsFiniteSet(1..(i - 1)) /\ Cardinality(1..(i - 1)) = i - 1
    <2>1. PICK m \in Nat : m = i - 1
      BY <1>2
    <2>2. IsFiniteSet(1..m) /\ Cardinality(1..m) = IF 1 > m THEN 0 ELSE m - 1 + 1
      BY ONLY m \in Nat, FS_Interval
    <2>3. (IF 1 > m THEN 0 ELSE m - 1 + 1) = m
      BY ONLY m \in Nat
    <2> QED BY ONLY <2>1, <2>2, <2>3
  <1>10. ExistsBijection(1..(i - 1), Before(R, V, s[i]))
    BY <1>8 DEF ExistsBijection
  <1>11. Cardinality(Before(R, V, s[i])) = Cardinality(1..(i - 1))
    BY <1>9, <1>10, FS_Bijection
  <1> QED BY <1>1, <1>2, <1>9, <1>11

\* Two such lists of one length are the same list.
LEMMA OneWayToLead ==
  ASSUME NEW V, IsFiniteSet(V), NEW R, IsTotalOrder(R, V), NEW s, Leads(s, R, V), NEW t, Leads(t, R, V), Len(s) = Len(t)
  PROVE  s = t
  <1>1. DOMAIN s = 1..Len(s) /\ DOMAIN t = 1..Len(t) /\ s = [i \in DOMAIN s |-> s[i]] /\ t = [i \in DOMAIN t |-> t[i]]
    BY DEF Leads
  <1>2. ASSUME NEW i \in DOMAIN s PROVE s[i] = t[i]
    <2>1. i \in DOMAIN t
      BY <1>1
    <2>2. s[i] \in V /\ Cardinality(Before(R, V, s[i])) = i - 1
      BY LeadersPlace
    <2>3. t[i] \in V /\ Cardinality(Before(R, V, t[i])) = i - 1
      BY <2>1, LeadersPlace
    <2> QED BY <2>2, <2>3, Ranks
  <1> QED BY <1>1, <1>2

\* The front of such a list is one.
LEMMA FrontLeads ==
  ASSUME NEW V, NEW R, NEW s, Leads(s, R, V), NEW k \in Nat, k <= Len(s)
  PROVE  Leads(SubSeq(s, 1, k), R, V) /\ Len(SubSeq(s, 1, k)) = k
  <1> DEFINE f == SubSeq(s, 1, k)
  <1>1. Len(s) \in Nat /\ DOMAIN s = 1..Len(s) /\ s \in Seq(V)
    BY DEF Leads
  <1>2. f \in Seq(V) /\ DOMAIN f = 1..k /\ Len(f) = k /\ \A i \in 1..k : f[i] = s[i]
    BY <1>1
  <1>3. \A i \in 1..k : i \in DOMAIN s
    BY <1>1
  <1> HIDE DEF f
  <1>4. \A i, j \in DOMAIN f : i < j => <<f[i], f[j]>> \in R
    BY <1>2, <1>3 DEF Leads
  <1>5. ASSUME NEW x \in V, \A i \in DOMAIN f : f[i] # x, NEW i \in DOMAIN f PROVE <<f[i], x>> \in R
    <2>1. CASE \E j \in DOMAIN s : s[j] = x
      <3>1. PICK j \in DOMAIN s : s[j] = x
        BY <2>1
      <3>2. j \notin 1..k
        BY <1>2, <1>5, <3>1
      <3>3. i < j
        BY <1>1, <1>2, <3>2
      <3> QED BY <1>2, <1>3, <3>1, <3>3 DEF Leads
    <2>2. CASE ~ \E j \in DOMAIN s : s[j] = x
      BY <1>2, <1>3, <2>2 DEF Leads
    <2> QED BY <2>1, <2>2
  <1>6. Leads(f, R, V)
    BY <1>2, <1>4, <1>5 DEF Leads
  <1> QED BY <1>2, <1>6 DEF f

\* Sorting a list of a set writes it in the order.
LEMMA SortedLeads ==
  ASSUME NEW V, NEW R, IsTotalOrder(R, V), NEW s, Lists(s, V),
         NEW before, before = {p \in (DOMAIN s) \X (DOMAIN s) : <<s[p[1]], s[p[2]]>> \in R}
  PROVE  /\ Leads(StableSorted(s, before), R, V) /\ Lists(StableSorted(s, before), V)
         /\ Len(StableSorted(s, before)) = Len(s)
  <1> DEFINE D == DOMAIN s
             G == GoesFirst(before, D)
             t == StableSorted(s, before)
  <1>1. /\ s \in Seq(V) /\ Len(s) \in Nat /\ D = 1..Len(s) /\ (\A i \in D : s[i] \in V)
        /\ (\A i, j \in D : s[i] = s[j] => i = j) /\ \A x \in V : \E i \in D : s[i] = x
    BY DEF Lists
  <1>2. \A i, j \in D : <<i, j>> \in before <=> <<s[i], s[j]>> \in R
    OBVIOUS
  <1>3. \A i, j \in D : <<i, j>> \in G <=> <<s[i], s[j]>> \in R
    <2> SUFFICES ASSUME NEW i \in D, NEW j \in D PROVE <<i, j>> \in G <=> <<s[i], s[j]>> \in R
      OBVIOUS
    <2>1. <<i, j>> \in G <=> <<i, j>> \in before \/ (<<j, i>> \notin before /\ i < j)
      BY DEF GoesFirst
    <2>2. i < j => i # j
      BY <1>1
    <2>3. i # j => s[i] # s[j]
      BY <1>1
    <2>4. s[i] # s[j] => <<s[i], s[j]>> \in R \/ <<s[j], s[i]>> \in R
      BY <1>1 DEF IsTotalOrder
    <2> QED BY ONLY <1>2, <2>1, <2>2, <2>3, <2>4, i \in D, j \in D
  <1>4. IsTotalOrder(G, D)
    <2> HIDE DEF D, G
    <2>1. \A i \in D : <<i, i>> \notin G
      BY <1>1, <1>3 DEF IsTotalOrder
    <2>2. ASSUME NEW i \in D, NEW j \in D, NEW k \in D, <<i, j>> \in G, <<j, k>> \in G PROVE <<i, k>> \in G
      <3>1. s[i] \in V /\ s[j] \in V /\ s[k] \in V
        BY <1>1
      <3>2. <<s[i], s[j]>> \in R /\ <<s[j], s[k]>> \in R
        BY <1>3, <2>2
      <3>3. <<s[i], s[k]>> \in R
        BY <3>1, <3>2 DEF IsTotalOrder
      <3> QED BY <1>3, <3>3
    <2>3. \A i, j \in D : i = j \/ <<i, j>> \in G \/ <<j, i>> \in G
      <3> SUFFICES ASSUME NEW i \in D, NEW j \in D, i # j PROVE <<i, j>> \in G \/ <<j, i>> \in G
        OBVIOUS
      <3>1. s[i] \in V /\ s[j] \in V /\ s[i] # s[j]
        BY <1>1
      <3>2. <<s[i], s[j]>> \in R \/ <<s[j], s[i]>> \in R
        BY <3>1 DEF IsTotalOrder
      <3> QED BY <1>3, <3>2
    <2> QED BY <2>1, <2>2, <2>3 DEF IsTotalOrder
  <1>5. PICK at \in Bijection(D, D) : /\ \A r \in D : t[r] = s[at[r]]
                                      /\ \A q, r \in D : q < r => <<at[q], at[r]>> \in G
    BY <1>1, <1>4, StablySorted
  <1>6. t \in Seq(V) /\ DOMAIN t = D
    BY <1>1, <1>4, StablySorted
  <1>7. /\ \A r \in D : at[r] \in D
        /\ \A q, r \in D : at[q] = at[r] => q = r
        /\ \A i \in D : \E r \in D : at[r] = i
    BY <1>5 DEF Bijection, Injection, IsInjective, Surjection
  <1> HIDE DEF D, G, t
  <1>8. Len(t) = Len(s)
    <2>1. Len(t) \in Nat /\ DOMAIN t = 1..Len(t)
      BY <1>6
    <2> QED BY ONLY <1>1, <1>6, <2>1
  <1>9. \A q, r \in D : q < r => <<t[q], t[r]>> \in R
    <2> SUFFICES ASSUME NEW q \in D, NEW r \in D, q < r PROVE <<t[q], t[r]>> \in R
      OBVIOUS
    <2>1. <<at[q], at[r]>> \in G /\ t[q] = s[at[q]] /\ t[r] = s[at[r]]
      BY <1>5
    <2>2. at[q] \in D /\ at[r] \in D
      BY <1>7
    <2>3. <<s[at[q]], s[at[r]]>> \in R
      BY ONLY <1>3, <2>1, <2>2
    <2> QED BY <2>1, <2>3
  <1>10. \A x \in V : \E r \in D : t[r] = x
    <2> SUFFICES ASSUME NEW x \in V PROVE \E r \in D : t[r] = x
      OBVIOUS
    <2>1. PICK i \in D : s[i] = x
      BY <1>1
    <2>2. PICK r \in D : at[r] = i
      BY <1>7
    <2> QED BY <1>5, <2>1, <2>2
  <1>11. \A q, r \in D : t[q] = t[r] => q = r
    <2> SUFFICES ASSUME NEW q \in D, NEW r \in D, t[q] = t[r] PROVE q = r
      OBVIOUS
    <2>1. t[q] = s[at[q]] /\ t[r] = s[at[r]]
      BY <1>5
    <2>2. at[q] \in D /\ at[r] \in D
      BY <1>7
    <2>3. s[at[q]] = s[at[r]]
      BY <2>1
    <2>4. PICK i, j : i = at[q] /\ j = at[r]
      OBVIOUS
    <2>5. i = j
      <3>1. i \in D /\ j \in D /\ s[i] = s[j]
        BY ONLY <2>2, <2>3, <2>4
      <3>2. \A k, l \in D : s[k] = s[l] => k = l
        BY <1>1
      <3> QED BY ONLY <3>1, <3>2
    <2> QED BY <1>7, <2>4, <2>5
  <1>12. Leads(t, R, V) /\ Lists(t, V)
    BY <1>6, <1>9, <1>10, <1>11 DEF Leads, Lists
  <1> QED BY <1>8, <1>12 DEF t
-----------------------------------------------------------------------------
(* Search, in memory. *)

\* Where the query asks for something.
LEMMA RankingsAgree ==
  ASSUME NEW Chars, NEW entries, SearchRows(entries, Chars), NEW query \in Seq(Chars), NEW limit \in Nat, limit > 0,
         ~Blank(query)
  PROVE  SearchIsExact(entries, query, limit)
  <1> DEFINE E == [name : Seq(Chars), path : Int]
             n == Len(entries)
             V == RankedIn(entries, query, n)
             top == TopN(entries, query, limit)
             keep == [i \in DOMAIN entries |-> Matches(entries[i].name, query)]
             found == KeptOf(entries, keep)
             ranks == [i \in DOMAIN found |-> Rank(found[i], query)]
             before == {p \in (DOMAIN ranks) \X (DOMAIN ranks) : Better(ranks[p[1]], ranks[p[2]])}
             sorted == StableSorted(ranks, before)
             R == {p \in V \X V : Better(p[1], p[2])}
             S == {i \in DOMAIN entries : keep[i]}
  <1>1. SearchFindsBest(entries, query, limit)
    BY SearchBest
  <1>2. n \in Nat /\ DOMAIN entries = 1..n /\ entries \in Seq(E) /\ Range(entries) = {entries[i] : i \in 1..n}
    <2>1. entries \in Seq(E)
      BY DEF SearchRows
    <2> HIDE DEF E
    <2>2. n \in Nat /\ DOMAIN entries = 1..n
      BY <2>1
    <2> QED BY <2>1, <2>2 DEF Range
  <1>3. {Rank(e, query) : e \in {e \in Range(entries) : ~Blank(query) /\ Matches(e.name, query)}} = V
    <2>1. {e \in Range(entries) : ~Blank(query) /\ Matches(e.name, query)}
             = {entries[j] : j \in {j \in 1..n : Matches(entries[j].name, query)}}
      BY <1>2
    <2> QED BY <2>1 DEF RankedIn
  <1>4. IsBetterOrder(V)
    BY RanksDiffer, BetterOrder
  <1>5. keep \in [DOMAIN entries -> BOOLEAN] /\ \A i \in DOMAIN entries : keep[i] <=> Matches(entries[i].name, query)
    BY DEF Matches
  <1>6. KeepsBest(top, V, limit)
    BY BestKept
  <1>7. RankFuzzy(entries, query, limit) = IF limit > 0 /\ Len(sorted) > limit THEN SubSeq(sorted, 1, limit) ELSE sorted
    BY DEF RankFuzzy
  <1>8. Len(top) = IF Cardinality(V) < limit THEN Cardinality(V) ELSE limit
    BY <1>1, <1>3 DEF SearchFindsBest
  <1>9. V = {Rank(entries[i], query) : i \in S}
    BY <1>2, <1>5 DEF RankedIn
  <1>10. \A i, j \in S : Rank(entries[i], query) = Rank(entries[j], query) => i = j
    <2>1. \A i, j \in DOMAIN entries : Rank(entries[i], query) = Rank(entries[j], query) => entries[i].path = entries[j].path
      BY DEF Rank
    <2> QED BY <2>1 DEF SearchRows
  <1> HIDE DEF keep, V, top, E, n
  <1>11. PICK at \in Bijection(DOMAIN found, S) : \A k \in DOMAIN found : found[k] = entries[at[k]]
    <2>1. entries \in Seq(E)
      BY <1>2
    <2>2. keep \in [DOMAIN entries -> BOOLEAN]
      BY <1>5
    <2> QED BY ONLY <2>1, <2>2, KeptPlaces
  <1>12. found \in Seq(E)
    BY <1>2, <1>5, KeptPlaces
  <1>13. /\ \A k \in DOMAIN found : at[k] \in S
         /\ \A j, k \in DOMAIN found : at[j] = at[k] => j = k
         /\ \A i \in S : \E k \in DOMAIN found : at[k] = i
    BY <1>11 DEF Bijection, Injection, IsInjective, Surjection
  <1>14. DOMAIN ranks = DOMAIN found /\ \A k \in DOMAIN found : ranks[k] = Rank(entries[at[k]], query)
    BY <1>11
  <1>15. DOMAIN found = 1..Len(found) /\ Len(found) \in Nat
    BY <1>12
  <1> HIDE DEF found, S
  <1>16. \A k \in DOMAIN found : ranks[k] \in V
    BY <1>9, <1>13, <1>14
  <1>17. ranks \in Seq(V)
    <2>1. ranks = [k \in DOMAIN found |-> ranks[k]]
      OBVIOUS
    <2> HIDE DEF ranks
    <2> QED BY ONLY <1>15, <1>16, <2>1
  <1> HIDE DEF ranks
  <1>18. \A j, k \in DOMAIN ranks : ranks[j] = ranks[k] => j = k
    <2> SUFFICES ASSUME NEW j \in DOMAIN found, NEW k \in DOMAIN found, ranks[j] = ranks[k] PROVE j = k
      BY <1>14
    <2>1. Rank(entries[at[j]], query) = Rank(entries[at[k]], query) /\ at[j] \in S /\ at[k] \in S
      BY <1>13, <1>14
    <2>2. at[j] = at[k]
      BY <1>10, <2>1
    <2> QED BY <1>13, <2>2
  <1>19. \A r \in V : \E k \in DOMAIN ranks : ranks[k] = r
    <2> SUFFICES ASSUME NEW r \in V PROVE \E k \in DOMAIN ranks : ranks[k] = r
      OBVIOUS
    <2>1. PICK i \in S : r = Rank(entries[i], query)
      BY <1>9
    <2>2. PICK k \in DOMAIN found : at[k] = i
      BY <1>13
    <2> QED BY <1>14, <2>1, <2>2
  <1>20. Lists(ranks, V)
    BY <1>17, <1>18, <1>19 DEF Lists
  <1>21. \A r, t \in V : <<r, t>> \in R <=> Better(r, t)
    OBVIOUS
  <1> HIDE DEF R
  <1>22. IsTotalOrder(R, V)
    BY <1>4, <1>21 DEF IsTotalOrder, IsBetterOrder
  <1>23. before = {p \in (DOMAIN ranks) \X (DOMAIN ranks) : <<ranks[p[1]], ranks[p[2]]>> \in R}
    BY <1>14, <1>16, <1>21
  <1> HIDE DEF before
  <1>24. Leads(sorted, R, V) /\ Len(sorted) = Len(ranks)
    BY <1>20, <1>22, <1>23, SortedLeads
  <1> HIDE DEF sorted
  <1>25. IsFiniteSet(V) /\ Cardinality(V) = Len(ranks) /\ Len(ranks) \in Nat
    <2>1. DOMAIN ranks = 1..Len(ranks) /\ Len(ranks) \in Nat /\ ranks \in [DOMAIN ranks -> V]
      BY <1>17
    <2>2. ranks \in Bijection(1..Len(ranks), V)
      BY <1>18, <1>19, <2>1 DEF Bijection, Injection, IsInjective, Surjection
    <2>3. IsFiniteSet(1..Len(ranks)) /\ Cardinality(1..Len(ranks)) = Len(ranks)
      <3>1. PICK m \in Nat : m = Len(ranks)
        BY <2>1
      <3>2. IsFiniteSet(1..m) /\ Cardinality(1..m) = IF 1 > m THEN 0 ELSE m - 1 + 1
        BY ONLY m \in Nat, FS_Interval
      <3>3. (IF 1 > m THEN 0 ELSE m - 1 + 1) = m
        BY ONLY m \in Nat
      <3> QED BY ONLY <3>1, <3>2, <3>3
    <2>4. ExistsBijection(1..Len(ranks), V)
      BY <2>2 DEF ExistsBijection
    <2> QED BY <2>1, <2>3, <2>4, FS_Bijection
  <1>26. Leads(top, R, V)
    <2>1. top \in Seq(V) /\ DOMAIN top = 1..Len(top) /\ \A i \in DOMAIN top : top[i] \in V
      BY <1>6 DEF KeepsBest
    <2>2. \A i, j \in DOMAIN top : i < j => <<top[i], top[j]>> \in R
      BY <1>6, <1>21, <2>1 DEF KeepsBest
    <2>3. \A x \in V : (\E i \in DOMAIN top : top[i] = x) \/ \A i \in DOMAIN top : <<top[i], x>> \in R
      BY <1>6, <1>21, <2>1 DEF KeepsBest
    <2> QED BY <2>1, <2>2, <2>3 DEF Leads
  <1>27. RankFuzzy(entries, query, limit) = top
    <2>1. CASE Len(sorted) > limit
      <3>1. Leads(SubSeq(sorted, 1, limit), R, V) /\ Len(SubSeq(sorted, 1, limit)) = limit
        BY <1>24, <1>25, <2>1, FrontLeads
      <3>2. Len(top) = limit
        BY <1>8, <1>24, <1>25, <2>1
      <3>3. SubSeq(sorted, 1, limit) = top
        BY <1>22, <1>25, <1>26, <3>1, <3>2, OneWayToLead
      <3> QED BY <1>7, <2>1, <3>3
    <2>2. CASE ~(Len(sorted) > limit)
      <3>1. Len(top) = Len(sorted)
        BY <1>8, <1>24, <1>25, <2>2
      <3>2. sorted = top
        BY <1>22, <1>24, <1>25, <1>26, <3>1, OneWayToLead
      <3> QED BY <1>7, <2>2, <3>2
    <2> QED BY <2>1, <2>2
  <1> QED BY <1>1, <1>27 DEF SearchIsExact, top

\* Both rankings of a search are the one list of the best matches: the rows kept
\* while the database yields them, and the rows ranked in memory, sorted and cut,
\* for any rows in any order (queries.go, Search; fuzzy.go, RankFuzzy).
THEOREM SearchExact ==
  ASSUME NEW Chars, NEW entries, SearchRows(entries, Chars), NEW query \in Seq(Chars), NEW limit \in Nat, limit > 0
  PROVE  SearchIsExact(entries, query, limit)
  <1>1. CASE ~Blank(query)
    BY <1>1, RankingsAgree
  <1>2. CASE Blank(query)
    <2>1. TopN(entries, query, limit) = <<>> /\ RankFuzzy(entries, query, limit) = <<>>
      BY <1>2 DEF TopN, RankFuzzy
    <2> QED BY <2>1, SearchBest DEF SearchIsExact
  <1> QED BY <1>1, <1>2

-----------------------------------------------------------------------------
(* The order of a directory. *)

\* The rows of a directory: their paths differ.
DirectoryRows(rows) ==
    /\ IsFiniteSet(rows) /\ rows \subseteq [name : Int \X Int, path : Int, isDir : BOOLEAN, size : Int, mtime : Int]
    /\ \A a, b \in rows : a.path = b.path => a = b

\* Rows by name, spelling and path are in a total order.
LEMMA NameOrder ==
  ASSUME NEW rows, DirectoryRows(rows), NEW N, \A a, b \in rows : <<a, b>> \in N <=> NameLess(a, b)
  PROVE  IsTotalOrder(N, rows)
  <1>1. ASSUME NEW a \in rows
        PROVE  a.name[1] \in Int /\ a.name[2] \in Int /\ a.path \in Int /\ a.name = <<a.name[1], a.name[2]>>
    BY DEF DirectoryRows
  <1>2. ASSUME NEW a \in rows, NEW b \in rows
        PROVE  <<a, b>> \in N <=> \/ a.name[1] < b.name[1]
                                  \/ a.name[1] = b.name[1] /\ a.name[2] < b.name[2]
                                  \/ a.name[1] = b.name[1] /\ a.name[2] = b.name[2] /\ a.path < b.path
    <2>1. <<a, b>> \in N <=> NameLess(a, b)
      OBVIOUS
    <2>2. a.name = b.name <=> a.name[1] = b.name[1] /\ a.name[2] = b.name[2]
      BY <1>1
    <2>3. NameLess(a, b) <=> \/ a.name[1] < b.name[1]
                             \/ a.name[1] = b.name[1] /\ a.name[2] < b.name[2]
                             \/ a.name[1] = b.name[1] /\ a.name[2] = b.name[2] /\ a.path < b.path
      BY ONLY <2>2, Zenon DEF NameLess
    <2> QED BY ONLY <2>1, <2>3
  <1>3. \A a \in rows : <<a, a>> \notin N
    BY ONLY <1>1, <1>2
  <1>4. ASSUME NEW a \in rows, NEW b \in rows, NEW c \in rows, <<a, b>> \in N, <<b, c>> \in N PROVE <<a, c>> \in N
    BY ONLY <1>1, <1>2, <1>4
  <1>5. ASSUME NEW a \in rows, NEW b \in rows, a # b PROVE <<a, b>> \in N \/ <<b, a>> \in N
    <2>1. a.path # b.path
      BY <1>5 DEF DirectoryRows
    <2>2. /\ a.name[1] \in Int /\ a.name[2] \in Int /\ a.path \in Int
          /\ b.name[1] \in Int /\ b.name[2] \in Int /\ b.path \in Int
      BY <1>1
    <2> QED BY ONLY <1>2, <2>1, <2>2, a \in rows, b \in rows
  <1> QED BY <1>3, <1>4, <1>5 DEF IsTotalOrder

\* The order by mode among rows of one kind.
ModeLess(mode, a, b) ==
    CASE mode = "size" /\ a.size # b.size -> a.size > b.size
      [] mode = "modified" /\ (a.mtime = 0 <=> b.mtime # 0) -> a.mtime # 0
      [] mode = "modified" /\ 0 \notin {a.mtime, b.mtime} /\ a.mtime # b.mtime -> a.mtime > b.mtime
      [] OTHER -> NameLess(a, b)

\* Rows by size or by time are, too: what ties there is ordered by name.
LEMMA ModeOrder ==
  ASSUME NEW rows, DirectoryRows(rows), NEW mode, NEW I, \A a, b \in rows : <<a, b>> \in I <=> ModeLess(mode, a, b)
  PROVE  IsTotalOrder(I, rows)
  <1>1. PICK N : N = {p \in rows \X rows : NameLess(p[1], p[2])}
    OBVIOUS
  <1>3. \A a, b \in rows : (<<a, b>> \in N <=> NameLess(a, b)) /\ (<<a, b>> \in I <=> ModeLess(mode, a, b))
    BY <1>1
  <1>20. IsTotalOrder(N, rows)
    BY <1>3, NameOrder
  <1>2. /\ \A a \in rows : <<a, a>> \notin N
        /\ \A a, b, c \in rows : <<a, b>> \in N /\ <<b, c>> \in N => <<a, c>> \in N
        /\ \A a, b \in rows : a = b \/ <<a, b>> \in N \/ <<b, a>> \in N
    BY <1>20 DEF IsTotalOrder
  <1>4. \A a \in rows : a.size \in Int /\ a.mtime \in Int
    BY DEF DirectoryRows
  <1>5. CASE mode = "size"
    <2>1. \A a, b \in rows : <<a, b>> \in I <=> a.size > b.size \/ (a.size = b.size /\ <<a, b>> \in N)
      <3> SUFFICES ASSUME NEW a \in rows, NEW b \in rows
                   PROVE  <<a, b>> \in I <=> a.size > b.size \/ (a.size = b.size /\ <<a, b>> \in N)
        OBVIOUS
      <3>1. ModeLess(mode, a, b) <=> IF a.size # b.size THEN a.size > b.size ELSE NameLess(a, b)
        BY <1>5 DEF ModeLess
      <3>2. a.size \in Int /\ b.size \in Int
        BY <1>4
      <3> QED BY ONLY <1>3, <3>1, <3>2, a \in rows, b \in rows
    <2>2. ASSUME NEW a \in rows, <<a, a>> \in I PROVE FALSE
      BY ONLY <1>2, <1>4, <2>1, <2>2
    <2>3. ASSUME NEW a \in rows, NEW b \in rows, NEW c \in rows, <<a, b>> \in I, <<b, c>> \in I PROVE <<a, c>> \in I
      BY ONLY <1>2, <1>4, <2>1, <2>3
    <2>4. ASSUME NEW a \in rows, NEW b \in rows, a # b PROVE <<a, b>> \in I \/ <<b, a>> \in I
      BY ONLY <1>2, <1>4, <2>1, <2>4
    <2> QED BY <2>2, <2>3, <2>4 DEF IsTotalOrder
  <1>6. CASE mode = "modified"
    <2>1. ASSUME NEW a \in rows, NEW b \in rows
          PROVE  <<a, b>> \in I <=> \/ a.mtime # 0 /\ b.mtime = 0
                                    \/ /\ a.mtime = 0 <=> b.mtime = 0
                                       /\ a.mtime > b.mtime \/ (a.mtime = b.mtime /\ <<a, b>> \in N)
      <3>1. ModeLess(mode, a, b) <=> IF ~(a.mtime = 0 <=> b.mtime = 0) THEN a.mtime # 0
                                   ELSE IF a.mtime # b.mtime THEN a.mtime > b.mtime ELSE NameLess(a, b)
        <4>1. CASE a.mtime = 0 /\ b.mtime = 0
          BY <1>6, <4>1 DEF ModeLess
        <4>2. CASE a.mtime # 0 /\ b.mtime = 0
          BY <1>6, <4>2 DEF ModeLess
        <4>3. CASE a.mtime = 0 /\ b.mtime # 0
          BY <1>6, <4>3 DEF ModeLess
        <4>4. CASE a.mtime # 0 /\ b.mtime # 0
          BY <1>6, <4>4 DEF ModeLess
        <4> QED BY ONLY <4>1, <4>2, <4>3, <4>4
      <3>2. a.mtime \in Int /\ b.mtime \in Int
        BY <1>4
      <3>3. <<a, b>> \in I <=> ModeLess(mode, a, b)
        BY <1>3
      <3>4. <<a, b>> \in N <=> NameLess(a, b)
        BY <1>3
      <3> QED BY ONLY <3>1, <3>2, <3>3, <3>4
    <2>2. ASSUME NEW a \in rows, <<a, a>> \in I PROVE FALSE
      BY ONLY <1>2, <1>4, <2>1, <2>2
    <2>3. ASSUME NEW a \in rows, NEW b \in rows, NEW c \in rows, <<a, b>> \in I, <<b, c>> \in I PROVE <<a, c>> \in I
      BY ONLY <1>2, <1>4, <2>1, <2>3
    <2>4. ASSUME NEW a \in rows, NEW b \in rows, a # b PROVE <<a, b>> \in I \/ <<b, a>> \in I
      BY ONLY <1>2, <1>4, <2>1, <2>4
    <2> QED BY <2>2, <2>3, <2>4 DEF IsTotalOrder
  <1>7. CASE mode # "size" /\ mode # "modified"
    <2>1. \A a, b \in rows : ModeLess(mode, a, b) <=> NameLess(a, b)
      BY <1>7 DEF ModeLess
    <2>2. \A a, b \in rows : <<a, b>> \in I <=> <<a, b>> \in N
      BY <1>3, <2>1
    <2> QED BY ONLY <1>2, <2>2 DEF IsTotalOrder
  <1> QED BY <1>5, <1>6, <1>7

\* So are directories in front of files.
LEMMA BrowseOrder ==
  ASSUME NEW rows, DirectoryRows(rows), NEW mode, NEW R, \A a, b \in rows : <<a, b>> \in R <=> BrowseLess(a, b, mode)
  PROVE  IsTotalOrder(R, rows)
  <1>1. PICK I : I = {p \in rows \X rows : ModeLess(mode, p[1], p[2])}
    OBVIOUS
  <1>20. \A a, b \in rows : <<a, b>> \in I <=> ModeLess(mode, a, b)
    BY <1>1
  <1>21. IsTotalOrder(I, rows)
    BY <1>20, ModeOrder
  <1>2. /\ \A a \in rows : <<a, a>> \notin I
        /\ \A a, b, c \in rows : <<a, b>> \in I /\ <<b, c>> \in I => <<a, c>> \in I
        /\ \A a, b \in rows : a = b \/ <<a, b>> \in I \/ <<b, a>> \in I
    BY <1>21 DEF IsTotalOrder
  <1>3. \A a \in rows : a.isDir \in BOOLEAN
    BY DEF DirectoryRows
  <1>4. ASSUME NEW a \in rows, NEW b \in rows
        PROVE  <<a, b>> \in R <=> (a.isDir /\ ~b.isDir) \/ (a.isDir = b.isDir /\ <<a, b>> \in I)
    <2>1. <<a, b>> \in R <=> BrowseLess(a, b, mode)
      OBVIOUS
    <2>2. <<a, b>> \in I <=> ModeLess(mode, a, b)
      BY <1>20
    <2>3. BrowseLess(a, b, mode) <=> (a.isDir /\ ~b.isDir) \/ (a.isDir = b.isDir /\ ModeLess(mode, a, b))
      BY ONLY Zenon DEF BrowseLess, ModeLess
    <2> QED BY ONLY <2>1, <2>2, <2>3
  <1>5. \A a \in rows : <<a, a>> \notin R
    BY <1>2, <1>4
  <1>6. ASSUME NEW a \in rows, NEW b \in rows, NEW c \in rows, <<a, b>> \in R, <<b, c>> \in R PROVE <<a, c>> \in R
    BY ONLY <1>2, <1>3, <1>4, <1>6
  <1>7. ASSUME NEW a \in rows, NEW b \in rows, a # b PROVE <<a, b>> \in R \/ <<b, a>> \in R
    BY ONLY <1>2, <1>3, <1>4, <1>7
  <1> QED BY <1>5, <1>6, <1>7 DEF IsTotalOrder

\* What is set out in a sequence is listed by it, and by its reverse.
LEMMA SetListed ==
  ASSUME NEW S, IsFiniteSet(S)
  PROVE  Lists(SetToSeq(S), S) /\ Len(SetToSeq(S)) = Cardinality(S)
  <1> DEFINE n == Cardinality(S)
             f == SetToSeq(S)
  <1>1. n \in Nat
    BY FS_CardinalityType
  <1>2. PICK g \in Bijection(1..n, S) : TRUE
    BY FS_CardinalityType DEF ExistsBijection
  <1>3. g \in [1..n -> S] /\ IsInjective(g)
    BY DEF Bijection, Injection
  <1>4. f = CHOOSE h \in [1..n -> S] : IsInjective(h)
    BY DEF SetToSeq
  <1> HIDE DEF n, f
  <1>5. f \in [1..n -> S] /\ IsInjective(f)
    BY ONLY <1>3, <1>4
  <1>6. f \in Seq(S) /\ Len(f) = n /\ DOMAIN f = 1..n
    BY ONLY <1>1, <1>5
  <1>7. IsFiniteSet(1..n) /\ Cardinality(1..n) = Cardinality(S)
    <2>1. IsFiniteSet(1..n) /\ Cardinality(1..n) = IF 1 > n THEN 0 ELSE n - 1 + 1
      BY ONLY <1>1, FS_Interval
    <2>2. (IF 1 > n THEN 0 ELSE n - 1 + 1) = n
      BY ONLY <1>1
    <2> QED BY ONLY <2>1, <2>2 DEF n
  <1>8. f \in Injection(1..n, S)
    BY <1>5 DEF Injection
  <1>9. f \in Surjection(1..n, S)
    BY <1>7, <1>8, FS_Injection
  <1>10. (\A i, j \in 1..n : f[i] = f[j] => i = j) /\ \A x \in S : \E i \in 1..n : f[i] = x
    BY <1>5, <1>9 DEF IsInjective, Surjection
  <1>11. Lists(f, S)
    BY <1>6, <1>10 DEF Lists
  <1> QED BY <1>6, <1>11 DEF f, n

\* The reverse of a list of a set lists the same set.
LEMMA ReverseListed ==
  ASSUME NEW S, NEW s, Lists(s, S)
  PROVE  Lists(Reverse(s), S) /\ Len(Reverse(s)) = Len(s)
  <1> DEFINE n == Len(s)
             t == Reverse(s)
  <1>1. n \in Nat /\ DOMAIN s = 1..n /\ s \in Seq(S) /\ \A i \in 1..n : s[i] \in S
    BY DEF Lists
  <1>2. t = [i \in 1..n |-> s[(n - i) + 1]]
    BY DEF Reverse
  <1> HIDE DEF n, t
  <1>3. \A i \in 1..n : (n - i) + 1 \in 1..n
    BY <1>1
  <1>4. t \in Seq(S) /\ DOMAIN t = 1..n /\ Len(t) = n /\ \A i \in 1..n : t[i] = s[(n - i) + 1]
    <2>1. \A i \in 1..n : s[(n - i) + 1] \in S
      BY <1>1, <1>3
    <2> QED BY <1>1, <1>2, <2>1
  <1>5. ASSUME NEW i \in 1..n, NEW j \in 1..n, t[i] = t[j] PROVE i = j
    <2>1. PICK k, l : k = (n - i) + 1 /\ l = (n - j) + 1
      OBVIOUS
    <2>2. k \in 1..n /\ l \in 1..n /\ s[k] = s[l]
      BY <1>3, <1>4, <1>5, <2>1
    <2>3. k = l
      BY <1>1, <2>2 DEF Lists
    <2> QED BY <1>1, <2>1, <2>3
  <1>6. ASSUME NEW x \in S PROVE \E i \in 1..n : t[i] = x
    <2>1. PICK k \in 1..n : s[k] = x
      BY <1>1 DEF Lists
    <2>2. (n - k) + 1 \in 1..n /\ (n - ((n - k) + 1)) + 1 = k
      BY <1>1
    <2> QED BY <1>4, <2>1, <2>2
  <1> QED BY <1>4, <1>5, <1>6 DEF Lists, n, t

\* Sorting a list of the rows leads to the one list in order.
LEMMA RowsInOrder ==
  ASSUME NEW rows, DirectoryRows(rows), NEW mode, NEW R, \A a, b \in rows : <<a, b>> \in R <=> BrowseLess(a, b, mode),
         NEW s, Lists(s, rows)
  PROVE  /\ Leads(InBrowseOrder(s, mode), R, rows)
         /\ Lists(InBrowseOrder(s, mode), rows) /\ Len(InBrowseOrder(s, mode)) = Len(s)
  <1> DEFINE before == {p \in (DOMAIN s) \X (DOMAIN s) : BrowseLess(s[p[1]], s[p[2]], mode)}
  <1>1. \A i \in DOMAIN s : s[i] \in rows
    BY DEF Lists
  <1>3. IsTotalOrder(R, rows)
    BY BrowseOrder
  <1>4. InBrowseOrder(s, mode) = StableSorted(s, before)
    BY DEF InBrowseOrder
  <1>5. before = {p \in (DOMAIN s) \X (DOMAIN s) : <<s[p[1]], s[p[2]]>> \in R}
    BY <1>1
  <1> HIDE DEF before
  <1>6. Leads(StableSorted(s, before), R, rows) /\ Lists(StableSorted(s, before), rows) /\ Len(StableSorted(s, before)) = Len(s)
    BY <1>3, <1>5, SortedLeads
  <1> QED BY <1>4, <1>6

\* The rows of a directory have one order in each mode, whichever way they came,
\* directories stay in front, and rows without a time end each of the two parts, for
\* any rows whose paths differ (arrange.go, sortedBrowseRows and browseLess).
THEOREM BrowseOrderTotal ==
  ASSUME NEW rows, DirectoryRows(rows), NEW mode
  PROVE  BrowseOrderIsTotal(rows, mode)
  <1> DEFINE canonical == InBrowseOrder(SetToSeq(rows), "name")
             shown == SortedBrowseRows(canonical, mode)
             other == SortedBrowseRows(Reverse(canonical), mode)
  <1>1. Lists(SetToSeq(rows), rows) /\ Len(SetToSeq(rows)) = Cardinality(rows)
    BY SetListed DEF DirectoryRows
  <1>10. PICK N : N = {p \in rows \X rows : BrowseLess(p[1], p[2], "name")}
    OBVIOUS
  <1>11. PICK R0 : R0 = {p \in rows \X rows : BrowseLess(p[1], p[2], mode)}
    OBVIOUS
  <1>12. PICK R : R = IF mode = "name" THEN N ELSE R0
    OBVIOUS
  <1>13. /\ \A a, b \in rows : <<a, b>> \in N <=> BrowseLess(a, b, "name")
         /\ \A a, b \in rows : <<a, b>> \in R <=> BrowseLess(a, b, mode)
    BY <1>10, <1>11, <1>12
  <1>2. Leads(canonical, N, rows) /\ Lists(canonical, rows) /\ Len(canonical) = Cardinality(rows)
    <2>1. PICK f, m : f = SetToSeq(rows) /\ m = "name"
      OBVIOUS
    <2>2. Lists(f, rows) /\ Len(f) = Cardinality(rows)
      BY <1>1, <2>1
    <2>3. \A a, b \in rows : <<a, b>> \in N <=> BrowseLess(a, b, m)
      BY <1>13, <2>1
    <2>4. /\ Leads(InBrowseOrder(f, m), N, rows) /\ Lists(InBrowseOrder(f, m), rows)
          /\ Len(InBrowseOrder(f, m)) = Cardinality(rows)
      BY <2>2, <2>3, RowsInOrder
    <2> QED BY <2>1, <2>4
  <1>3. IsTotalOrder(R, rows) /\ IsFiniteSet(rows)
    BY <1>13, BrowseOrder DEF DirectoryRows
  <1>4. Leads(shown, R, rows) /\ Lists(shown, rows) /\ Len(shown) = Cardinality(rows)
    <2>1. CASE mode = "name"
      BY <1>2, <1>12, <2>1 DEF SortedBrowseRows
    <2>2. CASE mode # "name"
      <3>1. shown = InBrowseOrder(canonical, mode)
        BY <2>2 DEF SortedBrowseRows
      <3> HIDE DEF shown, canonical
      <3> QED BY <1>2, <1>13, <3>1, RowsInOrder
    <2> QED BY <2>1, <2>2
  <1>5. mode = "name" \/ shown = other
    <2> SUFFICES ASSUME mode # "name" PROVE shown = other
      OBVIOUS
    <2>1. other = InBrowseOrder(Reverse(canonical), mode)
      BY DEF SortedBrowseRows
    <2> HIDE DEF shown, canonical, other
    <2>2. Lists(Reverse(canonical), rows) /\ Len(Reverse(canonical)) = Cardinality(rows)
      BY <1>2, ReverseListed
    <2>3. Leads(other, R, rows) /\ Len(other) = Cardinality(rows)
      BY <1>13, <2>1, <2>2, RowsInOrder
    <2> QED BY <1>3, <1>4, <2>3, OneWayToLead
  <1> HIDE DEF shown, canonical, other
  <1>6. \A i \in DOMAIN shown : shown[i] \in rows
    BY <1>4 DEF Lists
  <1>7. Range(shown) = rows
    BY <1>4, <1>6 DEF Lists, Range
  <1>8. ASSUME NEW i \in DOMAIN shown, NEW j \in DOMAIN shown, i < j
        PROVE  /\ BrowseLess(shown[i], shown[j], mode) /\ ~BrowseLess(shown[j], shown[i], mode)
               /\ shown[j].isDir => shown[i].isDir
               /\ (mode = "modified" /\ shown[i].isDir = shown[j].isDir /\ shown[i].mtime = 0) => shown[j].mtime = 0
    <2>1. PICK a \in rows, b \in rows : a = shown[i] /\ b = shown[j]
      BY <1>6
    <2>2. <<a, b>> \in R
      BY <1>4, <1>8, <2>1 DEF Leads
    <2>3. <<b, a>> \notin R
      BY <1>3, <2>2 DEF IsTotalOrder
    <2>4. BrowseLess(a, b, mode) /\ ~BrowseLess(b, a, mode)
      BY <1>13, <2>2, <2>3
    <2>5. b.isDir => a.isDir
      BY <2>4 DEF BrowseLess
    <2>6. (mode = "modified" /\ a.isDir = b.isDir /\ a.mtime = 0) => b.mtime = 0
      <3> SUFFICES ASSUME mode = "modified", a.isDir = b.isDir, a.mtime = 0, b.mtime # 0 PROVE FALSE
        OBVIOUS
      <3>1. ModeLess(mode, a, b) <=> a.mtime # 0
        BY DEF ModeLess
      <3>2. BrowseLess(a, b, mode) <=> (a.isDir /\ ~b.isDir) \/ (a.isDir = b.isDir /\ ModeLess(mode, a, b))
        BY ONLY Zenon DEF BrowseLess, ModeLess
      <3> QED BY <2>4, <3>1, <3>2, Zenon
    <2> QED BY <2>1, <2>4, <2>5, <2>6
  <1> QED BY <1>4, <1>5, <1>7, <1>8 DEF BrowseOrderIsTotal, shown, canonical, other
===============================================================================
